--------------------------- MODULE E2ELeaseProofs ---------------------------
(***************************************************************************)
(* Proofs about E2ELease for any number of runners and any times with      *)
(* CallTime + Gap + CallTime < leaseDuration.                              *)
(***************************************************************************)
EXTENDS E2ELease, TLAPS

IInv == TypeOK /\ LeaseHeld

(* At the start nobody holds the lease. *)
LEMMA InitIInv == Init => IInv
  BY LeaseAssumption DEF Init, IInv, TypeOK, LeaseHeld, Held, Steps, Working

(* Every step of a runner and every tick preserves the types. *)
LEMMA TypeStep == TypeOK /\ [Next]_vars => TypeOK'
<1> SUFFICES ASSUME TypeOK, [Next]_vars PROVE TypeOK'
  OBVIOUS
<1> USE LeaseAssumption DEF TypeOK, Steps, Working
<1>1. CASE Tick
  BY <1>1 DEF Tick, TimeLeft, Older
<1>2. ASSUME NEW r \in Runners, RunnerStep(r) PROVE TypeOK'
  <2>1. CASE AcquireGet(r)
    BY <2>1 DEF AcquireGet, Goto, Reads
  <2>2. CASE AcquireWrite(r)
    BY <2>2 DEF AcquireWrite, Goto, Writes, NotWritten
  <2>3. CASE RenewGet(r)
    BY <2>3 DEF RenewGet, Goto, Reads
  <2>4. CASE RenewWrite(r)
    BY <2>4 DEF RenewWrite, Goto, Writes, NotWritten
  <2>5. CASE TestsEnd(r)
    BY <2>5 DEF TestsEnd
  <2>6. CASE ReleaseGet(r)
    BY <2>6 DEF ReleaseGet, Goto, Reads
  <2>7. CASE ReleaseWrite(r)
    BY <2>7 DEF ReleaseWrite, Goto, Writes, NotWritten
  <2>8. CASE Kill(r)
    BY <2>8 DEF Kill, Goto
  <2> QED
    BY <1>2, <2>1, <2>2, <2>3, <2>4, <2>5, <2>6, <2>7, <2>8 DEF RunnerStep
<1>3. CASE UNCHANGED vars
  BY <1>3 DEF vars
<1> QED
  BY <1>1, <1>2, <1>3 DEF Next

(* A write by r leaves every other runner's copy out of date, and only a   *)
(* runner that holds the lease, or finds it inactive, can write.           *)
LEMMA HeldStep == IInv /\ [Next]_vars => LeaseHeld'
<1> SUFFICES ASSUME IInv, [Next]_vars, NEW s \in Runners PROVE Held(s)'
  BY DEF LeaseHeld
<1>t. TypeOK /\ LeaseHeld
  BY DEF IInv
<1> USE LeaseAssumption, <1>t DEF TypeOK, LeaseHeld
<1>1. CASE Tick
  BY <1>1 DEF Tick, TimeLeft, Older, Held, activeLease
<1>2. ASSUME NEW r \in Runners, RunnerStep(r) PROVE Held(s)'
  <2>h. Held(r) /\ Held(s)
    OBVIOUS
  <2>1. CASE AcquireGet(r)
    BY <2>1, <2>h DEF AcquireGet, Goto, Reads, Held, activeLease
  <2>2. CASE AcquireWrite(r)
    BY <2>2, <2>h DEF AcquireWrite, Goto, Writes, NotWritten, Held, activeLease
  <2>3. CASE RenewGet(r)
    BY <2>3, <2>h DEF RenewGet, Goto, Reads, Held, activeLease, owned
  <2>4. CASE RenewWrite(r)
    BY <2>4, <2>h DEF RenewWrite, Goto, Writes, NotWritten, Held, activeLease
  <2>5. CASE TestsEnd(r)
    BY <2>5, <2>h DEF TestsEnd, Held, activeLease
  <2>6. CASE ReleaseGet(r)
    BY <2>6, <2>h DEF ReleaseGet, Goto, Reads, Held, activeLease, owned
  <2>7. CASE ReleaseWrite(r)
    BY <2>7, <2>h DEF ReleaseWrite, Goto, Writes, NotWritten, Held, activeLease
  <2>8. CASE Kill(r)
    BY <2>8, <2>h DEF Kill, Goto, Held, activeLease
  <2> QED
    BY <1>2, <2>1, <2>2, <2>3, <2>4, <2>5, <2>6, <2>7, <2>8 DEF RunnerStep
<1>3. CASE UNCHANGED vars
  BY <1>3 DEF vars, Held, activeLease
<1> QED
  BY <1>1, <1>2, <1>3 DEF Next

(* LeaseHeld is an invariant of the runners. *)
LEMMA LeaseInvariant == Spec => []IInv
<1>1. IInv /\ [Next]_vars => IInv'
  BY TypeStep, HeldStep DEF IInv
<1> QED
  BY InitIInv, <1>1, PTL DEF Spec

(* The age of the lease and the waits of its calls stay within their       *)
(* bounds: renewals that begin in time and writes that end in time keep    *)
(* every runner of lock.go in a legal state.                               *)
THEOREM LeaseTypeCorrect == Spec => []TypeOK
<1>1. IInv => TypeOK
  BY DEF IInv
<1> QED
  BY LeaseInvariant, <1>1, PTL

(* However many runners call acquireLease at the same time, two of them    *)
(* never run tests together.                                               *)
THEOREM RunsDoNotOverlap == Spec => []MutualExclusion
<1>1. IInv => MutualExclusion
  BY DEF IInv, LeaseHeld, Held, MutualExclusion, Running
<1> QED
  BY LeaseInvariant, <1>1, PTL

(* Nobody but its holder takes an active lease away: acquireLease writes   *)
(* only over a lease it found inactive, renew and release only over their  *)
(* own.                                                                    *)
THEOREM LeaseIsRespected == Spec => ActiveLeaseRespected
<1> DEFINE Respected == activeLease /\ owner' # owner =>
                    owner' = None /\ pc[owner] = "release" /\ pc'[owner] = "done"
<1>1. IInv /\ [Next]_vars => [Respected]_vars
  <2> SUFFICES ASSUME IInv, [Next]_vars, activeLease, owner' # owner
               PROVE owner' = None /\ pc[owner] = "release"
                        /\ pc'[owner] = "done"
    OBVIOUS
  <2>t. TypeOK /\ LeaseHeld
    BY DEF IInv
  <2>1. CASE Tick \/ UNCHANGED vars
    BY <2>1 DEF Tick, vars
  <2>2. ASSUME NEW r \in Runners, RunnerStep(r)
        PROVE owner' = None /\ pc[owner] = "release" /\ pc'[owner] = "done"
    <3>h. Held(r)
      BY <2>t DEF LeaseHeld
    <3>1. CASE AcquireWrite(r)
      BY <3>1, <3>h DEF AcquireWrite, Writes, NotWritten, Held
    <3>2. CASE RenewWrite(r)
      BY <3>2 DEF RenewWrite, Writes, NotWritten
    <3>3. CASE ReleaseWrite(r)
      BY <3>3, <3>h, <2>t
         DEF ReleaseWrite, Writes, NotWritten, Held, Goto, TypeOK
    <3> QED
      BY <2>2, <3>1, <3>2, <3>3
         DEF RunnerStep, AcquireGet, RenewGet, TestsEnd, ReleaseGet, Kill
  <2> QED
    BY <2>1, <2>2 DEF Next
<1> QED
  BY LeaseInvariant, <1>1, PTL DEF Spec, ActiveLeaseRespected
=============================================================================
