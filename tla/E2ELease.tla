------------------------------ MODULE E2ELease ------------------------------
(***************************************************************************)
(* The Kubernetes Lease that keeps runs of the end-to-end tests on one     *)
(* cluster from overlapping (hack/e2e-runner/lock.go and main.go).         *)
(*                                                                         *)
(* Every call on the Lease is a Get followed by a conditional write: the   *)
(* API server refuses it when the object changed since the Get.  Resource  *)
(* versions are only compared for equality, so a runner's read is "fresh"  *)
(* or not.  A write may fail, and it may succeed with its response lost.   *)
(* A runner makes a new token for its one lease: it stands for the token.  *)
(***************************************************************************)
EXTENDS Naturals

CONSTANTS
    Runners,
    Holder,         \* runner -> its lock ID (--lock-id), not always its own
    None,
    leaseDuration,
    Gap,            \* renewInterval and the time of renew's Get
    CallTime        \* how long a write may take

ASSUME LeaseAssumption ==
    /\ None \notin Runners
    /\ leaseDuration \in Nat
    /\ Gap \in Nat
    /\ CallTime \in Nat
    /\ CallTime + Gap + CallTime < leaseDuration

VARIABLES
    owner,      \* the token in the Lease, None if there is no holder
    age,        \* the time since its RenewTime
    pc,         \* runner -> where withLease is
    fresh,      \* the runners whose copy of the Lease is still current
    waited,     \* runner -> time spent in this pc
    tests       \* the runners whose test process runs

vars == <<owner, age, pc, fresh, waited, tests>>

Init ==
    /\ owner = None
    /\ age = 0
    /\ pc = [r \in Runners |-> "start"]
    /\ fresh = {}
    /\ waited = [r \in Runners |-> 0]
    /\ tests = {}

(* A plausible slip: the duration of the lease is not looked at. *)
activeLeaseForever == owner # None

(* A runner always writes a duration and a RenewTime with its token; the   *)
(* branches for a Lease without them are left out.                         *)
activeLease == owner # None /\ age < leaseDuration

(* A plausible slip: the lock ID without the token. *)
ownedByHolder(r) == owner # None /\ Holder[owner] = Holder[r]

owned(r) == owner = r

Goto(r, step) ==
    /\ pc' = [pc EXCEPT ![r] = step]
    /\ waited' = [waited EXCEPT ![r] = 0]

Reads(r) == fresh' = fresh \cup {r}

(* The API server takes the write: everybody's copy is out of date.        *)
(* RenewTime was taken when the call began.                                *)
Writes(r, token) ==
    /\ r \in fresh
    /\ owner' = token
    /\ age' = IF token = None THEN 0 ELSE waited[r]
    /\ fresh' = {}

(* The write is refused, or never arrives. *)
NotWritten(r) ==
    /\ fresh' = fresh \ {r}
    /\ UNCHANGED <<owner, age>>

-----------------------------------------------------------------------------
(* acquireLease                                                            *)

(* A plausible slip: an active lease is not refused. *)
AcquireGetBlind(r) ==
    /\ pc[r] = "start"
    /\ \/ Goto(r, "acquire") /\ Reads(r)
       \/ Goto(r, "refused") /\ UNCHANGED fresh
    /\ UNCHANGED <<owner, age, tests>>

AcquireGet(r) ==
    /\ pc[r] = "start"
    /\ \/ ~activeLease /\ Goto(r, "acquire") /\ Reads(r)
       \/ Goto(r, "refused") /\ UNCHANGED fresh
    /\ UNCHANGED <<owner, age, tests>>

AcquireWrite(r) ==
    /\ pc[r] = "acquire"
    /\ \/ /\ Writes(r, r)
          /\ Goto(r, "run")
          /\ tests' = tests \cup {r}
       \/ /\ Writes(r, r) \/ NotWritten(r)
          /\ Goto(r, "refused")
          /\ UNCHANGED tests

-----------------------------------------------------------------------------
(* maintain and renew, while the tests run.  An error cancels the run.     *)

RenewGet(r) ==
    /\ pc[r] = "run"
    /\ \/ owned(r) /\ Goto(r, "renew") /\ Reads(r)
       \/ Goto(r, "stop") /\ UNCHANGED fresh
    /\ UNCHANGED <<owner, age, tests>>

RenewWrite(r) ==
    /\ pc[r] = "renew"
    /\ \/ Writes(r, owner) /\ Goto(r, "run")
       \/ (Writes(r, owner) \/ NotWritten(r)) /\ Goto(r, "stop")
    /\ UNCHANGED tests

(* The test process exits, or is killed because the run is cancelled. *)
TestsEnd(r) ==
    /\ r \in tests
    /\ tests' = tests \ {r}
    /\ UNCHANGED <<owner, age, pc, fresh, waited>>

-----------------------------------------------------------------------------
(* release, after the tests have ended and the renewal has stopped         *)

ReleaseGet(r) ==
    /\ pc[r] \in {"run", "stop"}
    /\ r \notin tests
    /\ \/ owned(r) /\ Goto(r, "release") /\ Reads(r)
       \/ Goto(r, "done") /\ UNCHANGED fresh
    /\ UNCHANGED <<owner, age, tests>>

ReleaseWrite(r) ==
    /\ pc[r] = "release"
    /\ Writes(r, None) \/ NotWritten(r)
    /\ Goto(r, "done")
    /\ UNCHANGED tests

-----------------------------------------------------------------------------

Working == {"acquire", "run", "renew", "stop", "release"}

(* A forced kill.  The tests are in a process group of their own           *)
(* (runIsolated) and go on.                                                *)
Kill(r) ==
    /\ pc[r] \in Working
    /\ Goto(r, "killed")
    /\ fresh' = fresh \ {r}
    /\ UNCHANGED <<owner, age, tests>>

(* A write ends within CallTime, a renewal begins in time, and a cancelled *)
(* test process is killed at once.                                         *)
TimeLeft(r) ==
    /\ pc[r] \in {"acquire", "renew", "release"} => waited[r] < CallTime
    /\ pc[r] = "run" => waited[r] < Gap
    /\ ~(pc[r] = "stop" /\ r \in tests)

Older == IF age < leaseDuration THEN age + 1 ELSE age

Tick ==
    /\ \A r \in Runners : TimeLeft(r)
    /\ age' = IF owner = None THEN age ELSE Older
    /\ waited' = [r \in Runners |->
                    IF pc[r] \in {"acquire", "renew", "release", "run"}
                    THEN waited[r] + 1 ELSE waited[r]]
    /\ UNCHANGED <<owner, pc, fresh, tests>>

RunnerStep(r) ==
    \/ AcquireGet(r)
    \/ AcquireWrite(r)
    \/ RenewGet(r)
    \/ RenewWrite(r)
    \/ TestsEnd(r)
    \/ ReleaseGet(r)
    \/ ReleaseWrite(r)
    \/ Kill(r)

Next == Tick \/ \E r \in Runners : RunnerStep(r)

Spec == Init /\ [][Next]_vars

(* Calls end and time passes. *)
FairSpec ==
    /\ Spec
    /\ WF_vars(Tick)
    /\ \A r \in Runners : /\ WF_vars(AcquireWrite(r))
                          /\ WF_vars(RenewGet(r))
                          /\ WF_vars(RenewWrite(r))
                          /\ WF_vars(ReleaseGet(r))
                          /\ WF_vars(ReleaseWrite(r))
                          /\ WF_vars(pc[r] = "stop" /\ TestsEnd(r))

-----------------------------------------------------------------------------

Steps == Working \cup {"start", "refused", "done", "killed"}

(* The age stops at the duration, no call outlasts its time, and tests are *)
(* only ever started by a runner that has acquired the lease.              *)
TypeOK ==
    /\ owner \in Runners \cup {None}
    /\ age \in 0..leaseDuration
    /\ pc \in [Runners -> Steps]
    /\ fresh \subseteq Runners
    /\ waited \in [Runners -> Nat]
    /\ tests \subseteq Runners
    /\ \A r \in Runners :
        /\ pc[r] \in {"acquire", "renew", "release"} => waited[r] <= CallTime
        /\ pc[r] = "run" => waited[r] <= Gap

Running(r) == pc[r] \in {"run", "renew", "stop"} /\ r \in tests

(* "overlapping test runs fail fast": two runners never have tests running *)
(* at the same time, although a lease expires, calls fail, and responses   *)
(* are lost.  (Tests that go on after their runner was killed do not count *)
(* as a run of it.)                                                        *)
MutualExclusion ==
    \A r, s \in Runners : Running(r) /\ Running(s) => r = s

(* The lease a runner holds is taken away or given up by that runner only: *)
(* no acquireLease, renew or release of another one, however old its copy  *)
(* of the Lease, changes it while it is active.                            *)
ActiveLeaseRespected ==
    [][activeLease /\ owner' # owner =>
        owner' = None /\ pc[owner] = "release" /\ pc'[owner] = "done"]_vars

(* "after a forced kill, the Lease expires within ten minutes": a runner   *)
(* that is gone, or whose acquisition got no answer, does not block the    *)
(* cluster for ever.                                                       *)
LeaseFreed ==
    \A r \in Runners :
        pc[r] \in {"refused", "done", "killed"}
            ~> (owner = r => ~activeLease)

(* What makes the two safety properties hold: a runner that may have tests *)
(* running owns the lease, which is too young to have expired, and a fresh *)
(* copy of the Lease shows what was true when it was read.                 *)
Held(r) ==
    /\ pc[r] = "run" =>
        owner = r /\ age <= CallTime + waited[r]
    /\ pc[r] = "renew" =>
        owner = r /\ age <= CallTime + Gap + waited[r]
    /\ pc[r] = "stop" /\ r \in tests =>
        owner = r /\ age <= CallTime + Gap + CallTime
    /\ pc[r] = "acquire" /\ r \in fresh => ~activeLease
    /\ pc[r] = "release" /\ r \in fresh => owner = r
    /\ r \in fresh => pc[r] \in {"acquire", "renew", "release"}

LeaseHeld == \A r \in Runners : Held(r)
=============================================================================
