----------------------- MODULE InstanceLifecycleProofs -----------------------
(***************************************************************************)
(* Proofs about InstanceLifecycle: a VM goes with its NodeClaim, and the   *)
(* garbage collection waits for the call that inserted a VM.               *)
(***************************************************************************)
EXTENDS InstanceLifecycle, TLAPS

States == {"none"} \cup Live \cup Dying

Calls == [step : {"idle", "wait", "returned"}, zone : Zones \cup {NoZone},
          inserted : BOOLEAN, waited : Nat]

NodeClaims == [phase : {"pending", "known", "deleting", "gone"},
               id : Zones \cup {NoZone}, registered : BOOLEAN, label : Labels]

TypeOK ==
    /\ vm \in [Claims -> [Zones -> [state : States, age : Nat]]]
    /\ claim \in [Claims -> NodeClaims]
    /\ call \in [Claims -> Calls]
    /\ DOMAIN reader = Readers
    /\ \A c \in Claims :
        /\ call[c].step = "idle" => ~call[c].inserted
        /\ call[c].step # "idle" => call[c].zone \in Zones

(* A Create call runs only for a NodeClaim that is waited for or being     *)
(* deleted, and no VM is left running under the provider ID of a NodeClaim *)
(* that is gone.                                                           *)
GoneForGood ==
    \A c \in Claims :
        /\ call[c].step # "idle" => claim[c].phase \in {"pending", "deleting"}
        /\ claim[c].phase = "gone" /\ claim[c].id # NoZone
            => vm[c][claim[c].id].state \notin Live

(* The VM of a call that is under way is as young as the call, and the     *)
(* call ends within the wait and the patch.                                *)
YoungWhileAwaited ==
    \A c \in Claims :
        call[c].inserted =>
            /\ call[c].waited <= Wait + PatchDelay
            /\ vm[c][call[c].zone].state \in Live
                => vm[c][call[c].zone].age <= call[c].waited

IInv == TypeOK /\ GoneForGood /\ YoungWhileAwaited
-----------------------------------------------------------------------------
(* What steps do to the VMs.                                               *)

VMTypes == [Claims -> [Zones -> [state : States, age : Nat]]]

(* No VM comes to life, and none that lives changes its age. *)
Fades ==
    /\ vm' \in VMTypes
    /\ \A c \in Claims, z \in Zones :
        vm'[c][z].state \in Live =>
            vm[c][z].state \in Live /\ vm'[c][z].age = vm[c][z].age

(* A step that leaves the VMs alone. *)
LEMMA UnchangedFades == TypeOK /\ UNCHANGED vm => Fades
BY DEF TypeOK, VMTypes, Fades

(* A VM that goes into another state without coming to life. *)
LEMMA BecomesFades ==
    ASSUME TypeOK, NEW c \in Claims, NEW z, NEW state \in States,
           state \in Live => vm[c][z].state \in Live,
           vm' = Becomes(c, z, state)
    PROVE  Fades
<1>1. CASE z \in Zones
  <2>1. vm[c][z] \in [state : States, age : Nat]
    BY <1>1 DEF TypeOK
  <2> DEFINE r == [state |-> state, age |-> IF state \in Live THEN vm[c][z].age ELSE 0]
  <2>2. /\ r \in [state : States, age : Nat]
        /\ r.state \in Live => vm[c][z].state \in Live /\ r.age = vm[c][z].age
    BY <2>1
  <2>3. vm' = [vm EXCEPT ![c][z] = r]
    BY DEF Becomes
  <2> HIDE DEF r
  <2>4. /\ vm' \in VMTypes
        /\ vm'[c][z] = r
        /\ \A d \in Claims, y \in Zones : d # c \/ y # z => vm'[d][y] = vm[d][y]
    BY <1>1, <2>2, <2>3 DEF TypeOK, VMTypes
  <2> QED
    BY <2>2, <2>4 DEF Fades
<1>2. CASE z \notin Zones
  <2>1. /\ vm' \in VMTypes
        /\ \A d \in Claims, y \in Zones : vm'[d][y] = vm[d][y]
    BY <1>2 DEF TypeOK, VMTypes, Becomes
  <2> QED
    BY <2>1 DEF Fades
<1> QED
  BY <1>1, <1>2

(* The deletion of a VM, by core or by the GC controller. *)
LEMMA DeleteFades ==
    ASSUME TypeOK, NEW c \in Claims, NEW z, Delete(c, z)
    PROVE  Fades
<1>1. "deleting" \in States /\ "deleting" \notin Live
  BY DEF States, Live, Dying
<1> QED
  BY <1>1, BecomesFades, UnchangedFades DEF Delete

(* The same for the changes that GCE makes. *)
LEMMA VMChangesFades ==
    ASSUME TypeOK, NEW c \in Claims, NEW z \in Zones, NEW from, NEW to \in States,
           VMChanges(c, z, from, to), to \in Live => from \in Live
    PROVE  Fades
BY BecomesFades DEF VMChanges

(* What GCE does to a VM by itself. *)
LEMMA GCEFades ==
    ASSUME TypeOK, NEW c \in Claims, NEW z \in Zones,
           \/ OperationEnds(c, z)
           \/ DeletionEnds(c, z)
           \/ StopEnds(c, z)
           \/ Stopped(c, z)
    PROVE  Fades /\ UNCHANGED <<claim, call, cache, reader, blind>>
<1>1. /\ {"running", "none", "terminated", "stopping", "deleting"} \subseteq States
      /\ "provisioning" \in Live
      /\ "none" \notin Live /\ "terminated" \notin Live
      /\ "stopping" \notin Live /\ "deleting" \notin Live
  BY DEF States, Live, Dying
<1>2. \E from, to : /\ VMChanges(c, z, from, to)
                    /\ to \in States
                    /\ to \in Live => from \in Live
  BY <1>1 DEF OperationEnds, DeletionEnds, StopEnds, Stopped
<1> QED
  BY <1>2, VMChangesFades DEF VMChanges

-----------------------------------------------------------------------------
(* Steps that neither insert a VM nor let time pass.                       *)

(* If VMs only fade, the calls are left alone or end, and no NodeClaim     *)
(* becomes "gone" whose VM still runs, the invariant is preserved.         *)
LEMMA FadingPreserves ==
    ASSUME IInv, Fades, DOMAIN reader' = Readers, call' \in [Claims -> Calls],
           claim' \in [Claims -> NodeClaims],
           \A c \in Claims :
               /\ \/ call'[c] = call[c]
                  \/ call'[c].step = "idle" /\ ~call'[c].inserted
                  \/ /\ call'[c].step # "idle" /\ call'[c].zone \in Zones
                     /\ claim'[c].phase \in {"pending", "deleting"}
                     /\ call'[c].inserted =>
                            /\ call[c].inserted
                            /\ call'[c].zone = call[c].zone
                            /\ call'[c].waited = call[c].waited
               /\ \/ claim'[c] = claim[c]
                  \/ claim'[c].phase = "gone" /\ claim'[c].id # NoZone
                        => vm'[c][claim'[c].id].state \notin Live
               /\ \/ claim'[c].phase = claim[c].phase
                  \/ claim'[c].phase = "deleting"
                  \/ call'[c].step = "idle"
    PROVE  IInv'
<1>1. TypeOK'
  BY DEF IInv, TypeOK, Fades, VMTypes
<1>2. GoneForGood'
  BY DEF IInv, TypeOK, GoneForGood, Fades, VMTypes, NodeClaims
<1>3. YoungWhileAwaited'
  <2> SUFFICES ASSUME NEW c \in Claims, call'[c].inserted
               PROVE  /\ call'[c].waited <= Wait + PatchDelay
                      /\ vm'[c][call'[c].zone].state \in Live
                            => vm'[c][call'[c].zone].age <= call'[c].waited
    BY DEF YoungWhileAwaited
  <2>1. /\ call[c].inserted
        /\ call'[c].zone = call[c].zone
        /\ call'[c].waited = call[c].waited
    OBVIOUS
  <2>2. call[c].zone \in Zones
    BY <2>1 DEF IInv, TypeOK
  <2>3. vm'[c][call[c].zone].state \in Live
            => /\ vm[c][call[c].zone].state \in Live
               /\ vm'[c][call[c].zone].age = vm[c][call[c].zone].age
    BY <2>2 DEF Fades
  <2> QED
    BY <2>1, <2>3 DEF IInv, YoungWhileAwaited
<1> QED
  BY <1>1, <1>2, <1>3 DEF IInv

(* Steps of the readers: only their own state and the cache change. *)
LEMMA ReadingPreserves ==
    ASSUME IInv, UNCHANGED <<vm, claim, call>>, DOMAIN reader' = Readers
    PROVE  IInv'
BY DEF IInv, TypeOK, GoneForGood, YoungWhileAwaited

(* A step of a reader leaves the set of readers as it is. *)
LEMMA StepReaders ==
    ASSUME IInv, NEW s, NEW r, Step(s, r)
    PROVE  DOMAIN reader' = Readers
BY DEF IInv, TypeOK, Step

(* A NodeClaim without a Create call under way. *)
LEMMA NoCallType == NoCall \in Calls /\ NoCall.step = "idle" /\ ~NoCall.inserted
BY DEF NoCall, Calls

-----------------------------------------------------------------------------

(* At the start no Create call runs, and the VMs there are have no         *)
(* provider ID in a NodeClaim.                                             *)
LEMMA InitIInv == Init => IInv
<1> SUFFICES ASSUME Init  PROVE IInv
  OBVIOUS
<1>1. claim \in [Claims -> NodeClaims]
      /\ \A c \in Claims : claim[c].id = NoZone
  <2>1. PICK l \in [Claims -> Labels] :
          claim = [c \in Claims |->
                      [phase |-> IF l[c] = "ours" THEN "pending" ELSE "gone",
                       id |-> NoZone, registered |-> FALSE, label |-> l[c]]]
    BY DEF Init
  <2> QED
    BY <2>1 DEF NodeClaims
<1>2. vm \in VMTypes
  <2>1. PICK home \in Zones :
          vm = [c \in Claims |-> [z \in Zones |->
                    IF Label(c) # "ours" /\ z = home
                    THEN [state |-> "running", age |-> gcGracePeriod]
                    ELSE NoVM]]
    BY DEF Init
  <2>2. /\ [state |-> "running", age |-> gcGracePeriod] \in [state : States, age : Nat]
        /\ NoVM \in [state : States, age : Nat]
    BY LifecycleAssumption DEF NoVM, States, Live
  <2> QED
    BY <2>1, <2>2 DEF VMTypes
<1>3. call = [c \in Claims |-> NoCall] /\ DOMAIN reader = Readers
  BY DEF Init
<1> QED
  BY <1>1, <1>2, <1>3, NoCallType
     DEF IInv, TypeOK, VMTypes, GoneForGood, YoungWhileAwaited

(* An insert: the VM and the call begin at the same time. *)
LEMMA CreateInsertsPreserves ==
    ASSUME IInv, NEW c \in Claims, NEW z \in Zones, CreateInserts(c, z)
    PROVE  IInv'
<1> DEFINE v == [state |-> "provisioning", age |-> 0]
           k == [step |-> "wait", zone |-> z, inserted |-> TRUE, waited |-> 0]
<1>1. /\ v \in [state : States, age : Nat] /\ v.age = 0
      /\ k \in Calls /\ k.step = "wait" /\ k.zone = z /\ k.inserted /\ k.waited = 0
  BY DEF States, Live, Calls
<1>2. /\ vm' = [vm EXCEPT ![c][z] = v] /\ call' = [call EXCEPT ![c] = k]
      /\ claim[c].phase = "pending" /\ UNCHANGED <<claim, reader>>
  BY DEF CreateInserts, Creating
<1> HIDE DEF v, k
<1>3. /\ vm' \in VMTypes /\ vm'[c][z] = v
      /\ \A d \in Claims \ {c} : vm'[d] = vm[d]
  BY <1>1, <1>2 DEF IInv, TypeOK, VMTypes
<1>4. /\ call' \in [Claims -> Calls] /\ call'[c] = k
      /\ \A d \in Claims \ {c} : call'[d] = call[d]
  BY <1>1, <1>2 DEF IInv, TypeOK
<1>5. TypeOK'
  BY <1>1, <1>2, <1>3, <1>4 DEF IInv, TypeOK, VMTypes
<1>6. GoneForGood'
  BY <1>1, <1>2, <1>3, <1>4 DEF IInv, GoneForGood
<1>7. YoungWhileAwaited'
  <2> SUFFICES ASSUME NEW d \in Claims, call'[d].inserted
               PROVE  /\ call'[d].waited <= Wait + PatchDelay
                      /\ vm'[d][call'[d].zone].state \in Live
                            => vm'[d][call'[d].zone].age <= call'[d].waited
    BY DEF YoungWhileAwaited
  <2>1. CASE d = c
    BY <1>1, <1>3, <1>4, <2>1, LifecycleAssumption
  <2>2. CASE d # c
    BY <1>3, <1>4, <2>2 DEF IInv, YoungWhileAwaited
  <2> QED
    BY <2>1, <2>2
<1> QED
  BY <1>5, <1>6, <1>7 DEF IInv

(* A tick leaves the states of VMs alone and adds at most 1 to their age. *)
LEMMA TickAges ==
    ASSUME IInv, Tick
    PROVE  \A c \in Claims, z \in Zones :
            /\ vm'[c][z] \in [state : States, age : Nat]
            /\ vm'[c][z].state = vm[c][z].state
            /\ vm'[c][z].age <= vm[c][z].age + 1
<1>1. \A age \in Nat : Older(age) \in Nat /\ Older(age) <= age + 1
  BY LifecycleAssumption DEF Older
<1>2. \A c \in Claims, z \in Zones :
        /\ vm[c][z] \in [state : States, age : Nat]
        /\ vm'[c][z] = IF vm[c][z].state \in Live
                       THEN [vm[c][z] EXCEPT !.age = Older(vm[c][z].age)]
                       ELSE vm[c][z]
  BY DEF Tick, IInv, TypeOK
<1>3. \A c \in Claims, z \in Zones :
        /\ vm'[c][z] \in [state : States, age : Nat]
        /\ vm'[c][z].state = vm[c][z].state
        /\ vm'[c][z].age <= vm[c][z].age + 1
  <2>1. \A v \in [state : States, age : Nat], n \in Nat :
            LET w == [v EXCEPT !.age = n] IN
            w \in [state : States, age : Nat] /\ w.state = v.state /\ w.age = n
    OBVIOUS
  <2> TAKE c \in Claims, z \in Zones
  <2>2. vm[c][z].age \in Nat
    BY <1>2
  <2>3. Older(vm[c][z].age) \in Nat /\ Older(vm[c][z].age) <= vm[c][z].age + 1
    BY <1>1, <2>2
  <2>4. CASE vm[c][z].state \in Live
    <3>1. vm'[c][z] = [vm[c][z] EXCEPT !.age = Older(vm[c][z].age)]
      BY <1>2, <2>4
    <3> QED
      BY <1>2, <2>1, <2>3, <3>1
  <2>5. CASE vm[c][z].state \notin Live
    <3>1. vm'[c][z] = vm[c][z] /\ vm[c][z] \in [state : States, age : Nat]
      BY <1>2, <2>5
    <3>2. vm[c][z].age <= vm[c][z].age + 1
      BY <2>2
    <3> QED
      BY <3>1, <3>2
  <2> QED
    BY <2>4, <2>5
<1> QED
  BY <1>3

(* Time passes: no call outlasts its time, and VMs do not age faster than  *)
(* the calls that wait for them.                                           *)
LEMMA TickPreserves == IInv /\ Tick => IInv'
<1> SUFFICES ASSUME IInv, Tick  PROVE IInv'
  OBVIOUS
<1>2. \A c \in Claims, z \in Zones : vm[c][z] \in [state : States, age : Nat]
  BY DEF IInv, TypeOK
<1>3. \A c \in Claims, z \in Zones :
        /\ vm'[c][z] \in [state : States, age : Nat]
        /\ vm'[c][z].state = vm[c][z].state
        /\ vm'[c][z].age <= vm[c][z].age + 1
  BY TickAges
<1>4. \A c \in Claims :
        /\ call[c] \in Calls
        /\ call'[c] = IF call[c].inserted
                      THEN [call[c] EXCEPT !.waited = call[c].waited + 1]
                      ELSE call[c]
  BY DEF Tick, IInv, TypeOK
<1>5. \A c \in Claims :
        /\ call'[c] \in Calls
        /\ call'[c].step = call[c].step /\ call'[c].zone = call[c].zone
        /\ call'[c].inserted = call[c].inserted
        /\ call[c].inserted => call'[c].waited = call[c].waited + 1
  <2>1. \A k \in Calls, n \in Nat :
            LET l == [k EXCEPT !.waited = n] IN
            /\ l \in Calls
            /\ l.step = k.step /\ l.zone = k.zone /\ l.inserted = k.inserted
            /\ l.waited = n
    BY DEF Calls
  <2> TAKE c \in Claims
  <2>2. call[c] \in Calls /\ call[c].waited + 1 \in Nat
    <3>1. \A k \in Calls : k.waited \in Nat
      BY DEF Calls
    <3>2. call[c] \in Calls /\ call[c].waited \in Nat
      BY <1>4, <3>1
    <3> QED
      BY <3>2
  <2>3. CASE call[c].inserted
    <3>1. call'[c] = [call[c] EXCEPT !.waited = call[c].waited + 1]
      BY <1>4, <2>3
    <3> QED
      BY <2>1, <2>2, <3>1
  <2>4. CASE ~call[c].inserted
    BY <1>4, <2>2, <2>4
  <2> QED
    BY <2>3, <2>4
<1>6. /\ DOMAIN vm' = Claims /\ DOMAIN call' = Claims /\ DOMAIN reader' = Readers
      /\ vm' = [c \in Claims |-> [z \in Zones |-> vm'[c][z]]]
      /\ call' = [c \in Claims |-> call'[c]]
      /\ claim' = claim
  BY DEF Tick
<1>7. TypeOK'
  BY <1>3, <1>5, <1>6 DEF IInv, TypeOK
<1>8. GoneForGood'
  <2>1. \A c \in Claims : claim[c].id # NoZone => claim[c].id \in Zones
    BY DEF IInv, TypeOK, NodeClaims
  <2> QED
    BY <1>3, <1>5, <1>6, <2>1 DEF IInv, GoneForGood
<1>9. YoungWhileAwaited'
  <2> SUFFICES ASSUME NEW c \in Claims, call'[c].inserted
               PROVE  /\ call'[c].waited <= Wait + PatchDelay
                      /\ vm'[c][call'[c].zone].state \in Live
                            => vm'[c][call'[c].zone].age <= call'[c].waited
    BY DEF YoungWhileAwaited
  <2>1. call[c].inserted /\ call[c].waited \in Nat /\ call[c].zone \in Zones
    BY <1>4, <1>5 DEF IInv, TypeOK, Calls
  <2>2. call[c].waited < Wait + PatchDelay
    <3>1. TimeLeft(c)
      BY DEF Tick
    <3>2. call[c].waited < Wait \/ call[c].waited < Wait + PatchDelay
      BY <2>1, <3>1 DEF TimeLeft
    <3> QED
      BY <2>1, <3>2, LifecycleAssumption
  <2>3. vm[c][call[c].zone].state \in Live => vm[c][call[c].zone].age <= call[c].waited
    BY <2>1 DEF IInv, YoungWhileAwaited
  <2>4. /\ vm[c][call[c].zone].age \in Nat
        /\ vm'[c][call[c].zone].age \in Nat
        /\ vm'[c][call[c].zone].age <= vm[c][call[c].zone].age + 1
        /\ vm'[c][call[c].zone].state = vm[c][call[c].zone].state
    BY <1>2, <1>3, <2>1
  <2> QED
    BY <1>5, <2>1, <2>2, <2>3, <2>4, LifecycleAssumption
<1> QED
  BY <1>7, <1>8, <1>9 DEF IInv

(* A restart ends all calls and leaves VMs and NodeClaims as they are. *)
LEMMA RestartPreserves == IInv /\ Restart => IInv'
<1> SUFFICES ASSUME IInv, Restart  PROVE IInv'
  OBVIOUS
<1>1. Fades
  BY UnchangedFades DEF IInv, Restart
<1>2. /\ call' = [c \in Claims |-> NoCall]
      /\ DOMAIN reader' = Readers
      /\ claim' = claim
  BY DEF Restart
<1>3. call' \in [Claims -> Calls]
      /\ \A c \in Claims : call'[c].step = "idle" /\ ~call'[c].inserted
  BY <1>2, NoCallType
<1> QED
  BY <1>1, <1>2, <1>3, FadingPreserves DEF IInv, TypeOK

(* The call of c becomes k, its NodeClaim becomes n. *)
LEMMA CallPreserves ==
    ASSUME IInv, NEW c \in Claims, NEW k \in Calls, NEW n \in NodeClaims,
           call' = [call EXCEPT ![c] = k], claim' = [claim EXCEPT ![c] = n],
           UNCHANGED <<vm, reader>>,
           \/ k.step = "idle" /\ ~k.inserted
           \/ /\ k.step # "idle" /\ k.zone \in Zones
              /\ n.phase \in {"pending", "deleting"}
              /\ k.inserted => /\ call[c].inserted
                               /\ k.zone = call[c].zone
                               /\ k.waited = call[c].waited,
           n.phase # "gone",
           n.phase = claim[c].phase \/ n.phase = "deleting" \/ k.step = "idle"
    PROVE  IInv'
<1>1. /\ call' \in [Claims -> Calls] /\ call'[c] = k
      /\ \A d \in Claims \ {c} : call'[d] = call[d]
  BY DEF IInv, TypeOK
<1>2. /\ claim' \in [Claims -> NodeClaims]
      /\ claim'[c] = n
      /\ \A d \in Claims \ {c} : claim'[d] = claim[d]
  BY DEF IInv, TypeOK
<1>3. Fades /\ DOMAIN reader' = Readers
  BY UnchangedFades DEF IInv, TypeOK
<1>4. ASSUME NEW d \in Claims
      PROVE  /\ \/ call'[d] = call[d]
                \/ call'[d].step = "idle" /\ ~call'[d].inserted
                \/ /\ call'[d].step # "idle" /\ call'[d].zone \in Zones
                   /\ claim'[d].phase \in {"pending", "deleting"}
                   /\ call'[d].inserted =>
                          /\ call[d].inserted
                          /\ call'[d].zone = call[d].zone
                          /\ call'[d].waited = call[d].waited
             /\ \/ claim'[d] = claim[d]
                \/ claim'[d].phase = "gone" /\ claim'[d].id # NoZone
                      => vm'[d][claim'[d].id].state \notin Live
             /\ \/ claim'[d].phase = claim[d].phase
                \/ claim'[d].phase = "deleting"
                \/ call'[d].step = "idle"
  <2>1. CASE d = c
    BY <1>1, <1>2, <2>1
  <2>2. CASE d # c
    BY <1>1, <1>2, <2>2
  <2> QED
    BY <2>1, <2>2
<1> QED
  BY <1>1, <1>2, <1>3, <1>4, FadingPreserves

(* The steps of Create that insert no VM, and the patch that follows. *)
LEMMA CreatePreserves ==
    ASSUME IInv, NEW c \in Claims,
           \/ \E z \in Zones : CreateAdopts(c, z)
           \/ CreateDone(c)
           \/ CreateFails(c)
           \/ Patched(c)
    PROVE  IInv'
<1>0. /\ call[c] \in Calls /\ claim[c] \in NodeClaims
      /\ claim = [claim EXCEPT ![c] = claim[c]]
      /\ call[c].step # "idle" => /\ call[c].zone \in Zones
                                  /\ claim[c].phase \in {"pending", "deleting"}
  BY DEF IInv, TypeOK, GoneForGood
<1>1. ASSUME NEW z \in Zones, CreateAdopts(c, z)  PROVE IInv'
  <2> DEFINE k == [step |-> "returned", zone |-> z, inserted |-> FALSE, waited |-> 0]
  <2>1. /\ k \in Calls /\ k.step = "returned" /\ k.zone = z /\ ~k.inserted
    BY DEF Calls
  <2>2. /\ call' = [call EXCEPT ![c] = k] /\ claim' = claim
        /\ UNCHANGED <<vm, reader>> /\ claim[c].phase = "pending"
    BY <1>1 DEF CreateAdopts, Creating
  <2> HIDE DEF k
  <2> QED
    BY <1>0, <2>1, <2>2, CallPreserves
<1>2. CASE CreateDone(c)
  <2> DEFINE k == [call[c] EXCEPT !.step = "returned"]
  <2>1. /\ k \in Calls /\ k.step = "returned" /\ k.zone = call[c].zone
        /\ k.inserted = call[c].inserted /\ k.waited = call[c].waited
    BY <1>0 DEF Calls
  <2>2. /\ call' = [call EXCEPT ![c] = k] /\ claim' = claim
        /\ UNCHANGED <<vm, reader>> /\ call[c].step = "wait"
    BY <1>2 DEF CreateDone
  <2> HIDE DEF k
  <2>3. claim[c].phase # "gone" /\ k.zone \in Zones
    BY <1>0, <2>1, <2>2
  <2>4. k.inserted => call[c].inserted
    BY <2>1
  <2> QED
    BY <1>0, <2>1, <2>2, <2>3, <2>4, CallPreserves
<1>3. CASE CreateFails(c)
  <2>1. /\ call' = [call EXCEPT ![c] = NoCall] /\ UNCHANGED <<vm, reader>>
        /\ claim[c].phase # "gone"
    BY <1>0, <1>3 DEF CreateFails
  <2>2. PICK n \in NodeClaims : claim' = [claim EXCEPT ![c] = n] /\ n.phase # "gone"
    <3>1. [claim[c] EXCEPT !.phase = "deleting"] \in NodeClaims
          /\ [claim[c] EXCEPT !.phase = "deleting"].phase = "deleting"
      BY <1>0 DEF NodeClaims
    <3>2. CASE claim' = claim
      BY <1>0, <2>1, <3>2
    <3>3. CASE claim' = [claim EXCEPT ![c].phase = "deleting"]
      <4>1. claim' = [claim EXCEPT ![c] = [claim[c] EXCEPT !.phase = "deleting"]]
        BY <3>3
      <4> QED
        BY <3>1, <4>1
    <3> QED
      BY <1>3, <3>2, <3>3 DEF CreateFails
  <2> QED
    BY <2>1, <2>2, NoCallType, CallPreserves
<1>4. CASE Patched(c)
  <2>1. /\ call' = [call EXCEPT ![c] = NoCall] /\ UNCHANGED <<vm, reader>>
        /\ claim[c].phase \in {"pending", "deleting"} /\ call[c].zone \in Zones
    BY <1>0, <1>4 DEF Patched
  <2>2. PICK n \in NodeClaims : claim' = [claim EXCEPT ![c] = n] /\ n.phase # "gone"
    <3> DEFINE phase == IF claim[c].phase = "pending" THEN "known" ELSE claim[c].phase
               n == [claim[c] EXCEPT !.id = call[c].zone, !.phase = phase]
    <3>1. phase \in {"known", "deleting"}
      BY <2>1
    <3>2. CASE claim' = claim
      BY <1>0, <2>1, <3>2
    <3>3. CASE claim' = [claim EXCEPT ![c].id = call[c].zone,
                                      ![c].phase = IF @ = "pending" THEN "known"
                                                                    ELSE @]
      <4>1. claim' = [claim EXCEPT ![c] = n]
        BY <1>0, <3>3 DEF IInv, TypeOK, NodeClaims
      <4> HIDE DEF phase
      <4>2. n \in NodeClaims /\ n.phase # "gone"
        BY <1>0, <2>1, <3>1 DEF NodeClaims
      <4> QED
        BY <4>1, <4>2
    <3> QED
      BY <1>4, <3>2, <3>3 DEF Patched
  <2> QED
    BY <2>1, <2>2, NoCallType, CallPreserves
<1> QED
  BY <1>1, <1>2, <1>3, <1>4

(* Steps that change the NodeClaim of c alone, and VMs at most by fading. *)
LEMMA ClaimPreserves ==
    ASSUME IInv, Fades, NEW c \in Claims, NEW n \in NodeClaims,
           claim' = [claim EXCEPT ![c] = n], UNCHANGED <<call, reader>>,
           \/ n = claim[c]
           \/ n.phase = claim[c].phase /\ n.id = claim[c].id
           \/ n.phase = "deleting"
           \/ /\ n.phase = "gone" /\ call[c].step = "idle"
              /\ n.id # NoZone => vm'[c][n.id].state \notin Live
    PROVE  IInv'
<1>1. /\ claim' \in [Claims -> NodeClaims] /\ claim'[c] = n
      /\ \A d \in Claims \ {c} : claim'[d] = claim[d]
  BY DEF IInv, TypeOK
<1>2. TypeOK'
  BY <1>1 DEF IInv, TypeOK, Fades, VMTypes
<1>3. \A d \in Claims : claim[d].id # NoZone => claim[d].id \in Zones
  BY DEF IInv, TypeOK, NodeClaims
<1>4. GoneForGood'
  <2> SUFFICES ASSUME NEW d \in Claims
               PROVE  /\ call[d].step # "idle"
                            => claim'[d].phase \in {"pending", "deleting"}
                      /\ claim'[d].phase = "gone" /\ claim'[d].id # NoZone
                            => vm'[d][claim'[d].id].state \notin Live
    BY DEF GoneForGood
  <2>1. CASE d = c
    BY <1>1, <1>3, <2>1 DEF IInv, GoneForGood, Fades
  <2>2. CASE d # c
    BY <1>1, <1>3, <2>2 DEF IInv, GoneForGood, Fades
  <2> QED
    BY <2>1, <2>2
<1>5. YoungWhileAwaited'
  <2>1. \A d \in Claims : call[d].inserted => call[d].zone \in Zones
    BY DEF IInv, TypeOK
  <2> QED
    BY <2>1 DEF IInv, YoungWhileAwaited, Fades
<1> QED
  BY <1>2, <1>4, <1>5 DEF IInv

(* Registration, deletion of a NodeClaim and the removal of its finalizer. *)
LEMMA CorePreserves ==
    ASSUME IInv, NEW c \in Claims, Registers(c) \/ ClaimDeleted(c) \/ Finalize(c)
    PROVE  IInv'
<1>0. claim[c] \in NodeClaims /\ claim = [claim EXCEPT ![c] = claim[c]] /\ TypeOK
  BY DEF IInv, TypeOK
<1>1. CASE Registers(c)
  <2> DEFINE n == [claim[c] EXCEPT !.registered = TRUE]
  <2>1. n \in NodeClaims /\ n.phase = claim[c].phase /\ n.id = claim[c].id
    BY <1>0 DEF NodeClaims
  <2>2. claim' = [claim EXCEPT ![c] = n] /\ UNCHANGED <<vm, call, reader>>
    BY <1>1 DEF Registers
  <2> HIDE DEF n
  <2> QED
    BY <1>0, <2>1, <2>2, UnchangedFades, ClaimPreserves
<1>2. CASE ClaimDeleted(c)
  <2> DEFINE n == [claim[c] EXCEPT !.phase = "deleting"]
  <2>1. n \in NodeClaims /\ n.phase = "deleting"
    BY <1>0 DEF NodeClaims
  <2>2. claim' = [claim EXCEPT ![c] = n] /\ UNCHANGED <<vm, call, reader>>
    BY <1>2 DEF ClaimDeleted
  <2> HIDE DEF n
  <2> QED
    BY <1>0, <2>1, <2>2, UnchangedFades, ClaimPreserves
<1>3. CASE Finalize(c)
  <2>0. call[c].step = "idle" /\ UNCHANGED <<call, reader>>
    BY <1>3 DEF Finalize
  <2>1. CASE /\ claim[c].id # NoZone => NotFound(c, claim[c].id)
             /\ claim' = [claim EXCEPT ![c].phase = "gone", ![c].registered = FALSE]
             /\ UNCHANGED vm
    <3> DEFINE n == [claim[c] EXCEPT !.phase = "gone", !.registered = FALSE]
    <3>1. n \in NodeClaims /\ n.phase = "gone" /\ n.id = claim[c].id
      BY <1>0 DEF NodeClaims
    <3>2. claim' = [claim EXCEPT ![c] = n]
      BY <2>1, <1>0 DEF TypeOK, NodeClaims
    <3> HIDE DEF n
    <3>3. n.id # NoZone => vm'[c][n.id].state \notin Live
      BY <2>1, <3>1 DEF NotFound, Live
    <3> QED
      BY <1>0, <2>0, <2>1, <3>1, <3>2, <3>3, UnchangedFades, ClaimPreserves
  <2>2. CASE Delete(c, claim[c].id) /\ UNCHANGED claim
    BY <1>0, <2>0, <2>2, DeleteFades, ClaimPreserves
  <2> QED
    BY <1>3, <2>1, <2>2 DEF Finalize
<1> QED
  BY <1>1, <1>2, <1>3

(* Every step of Create, core, the readers and GCE preserves IInv. *)
LEMMA NextIInv == IInv /\ [Next]_vars => IInv'
<1> SUFFICES ASSUME IInv, [Next]_vars  PROVE IInv'
  OBVIOUS
<1>1. ASSUME NEW c \in Claims, NEW z \in Zones,
             \/ OperationEnds(c, z)
             \/ DeletionEnds(c, z)
             \/ StopEnds(c, z)
             \/ Stopped(c, z)
      PROVE  IInv'
  <2>1. /\ Fades /\ UNCHANGED <<claim, call, reader>>
        /\ claim[c] \in NodeClaims /\ claim = [claim EXCEPT ![c] = claim[c]]
    BY <1>1, GCEFades DEF IInv, TypeOK
  <2> QED
    BY <2>1, ClaimPreserves
<1>2. ASSUME NEW c \in Claims, DeleteOrphan(c)  PROVE IInv'
  <2>1. Fades
    BY <1>2, DeleteFades DEF DeleteOrphan, IInv
  <2>2. DOMAIN reader' = Readers /\ UNCHANGED <<claim, call>>
    BY <1>2, StepReaders DEF DeleteOrphan, Handled
  <2> QED
    BY <2>1, <2>2, FadingPreserves DEF IInv, TypeOK
<1>3. ASSUME NEW c \in Claims, CacheExpires(c) \/ SkipInstance(c)  PROVE IInv'
  <2>1. UNCHANGED <<vm, claim, call>>
    BY <1>3 DEF CacheExpires, SkipInstance
  <2>2. DOMAIN reader' = Readers
    BY <1>3, StepReaders DEF CacheExpires, SkipInstance, Handled, IInv, TypeOK
  <2> QED
    BY <2>1, <2>2, ReadingPreserves
<1>4. ASSUME NEW s \in Readers,
             \/ ListStarts(s) \/ SyncZone(s) \/ FillCache(s) \/ ReadItems(s)
             \/ ListFails(s)
      PROVE  IInv'
  <2>1. UNCHANGED <<vm, claim, call>>
    BY <1>4 DEF ListStarts, SyncZone, FillCache, ReadItems, ListFails
  <2>2. \E r : Step(s, r)
    BY <1>4 DEF ListStarts, SyncZone, FillCache, ReadItems, ListFails
  <2> QED
    BY <2>1, <2>2, StepReaders, ReadingPreserves
<1>5. ASSUME NEW s \in Readers, CoreCollects(s)  PROVE IInv'
  <2>1. Fades /\ UNCHANGED <<vm, call>> /\ DOMAIN reader' = Readers
    BY <1>5, UnchangedFades, StepReaders DEF CoreCollects, IInv
  <2>2. \A r \in NodeClaims : LET n == [r EXCEPT !.phase = "deleting"] IN
                               n \in NodeClaims /\ n.phase = "deleting"
    BY DEF NodeClaims
  <2>3. DOMAIN claim' = Claims /\ claim' = [c \in Claims |-> claim'[c]]
    BY <1>5 DEF CoreCollects
  <2>4. ASSUME NEW c \in Claims
        PROVE  /\ claim'[c] \in NodeClaims
               /\ claim'[c] = claim[c] \/ claim'[c].phase = "deleting"
    <3>1. claim[c] \in NodeClaims
      BY DEF IInv, TypeOK
    <3>2. \/ claim'[c] = claim[c]
          \/ claim'[c] = [claim[c] EXCEPT !.phase = "deleting"]
      BY <1>5 DEF CoreCollects
    <3> QED
      BY <2>2, <3>1, <3>2
  <2> QED
    BY <2>1, <2>3, <2>4, FadingPreserves DEF IInv, TypeOK
<1>6. CASE ListClaims \/ GCDone
  <2>1. UNCHANGED <<vm, claim, call>> /\ \E r : Step("gc", r)
    BY <1>6 DEF ListClaims, GCDone
  <2> QED
    BY <2>1, StepReaders, ReadingPreserves
<1>7. CASE UNCHANGED vars
  BY <1>7, ReadingPreserves DEF vars, IInv, TypeOK
<1> QED
  BY <1>1, <1>2, <1>3, <1>4, <1>5, <1>6, <1>7, CreateInsertsPreserves, CreatePreserves,
     CorePreserves, TickPreserves, RestartPreserves DEF Next

(* The types of all variables, the state of calls and NodeClaims, and the  *)
(* ages of VMs under way, for every number of names and zones.             *)
THEOREM LifecycleInvariant == Spec => []IInv
BY InitIInv, NextIInv, PTL DEF Spec

(* Once core has removed the finalizer of a NodeClaim with a provider ID,  *)
(* the VM of that ID no longer runs: CloudProvider.Delete reports NotFound *)
(* only for a VM that is gone or TERMINATED, and no late Create call, GCE  *)
(* operation or restart brings it back.                                    *)
THEOREM GoneWithNodeClaim == Spec => []DeletedWithNodeClaim
<1>1. IInv => DeletedWithNodeClaim
  BY DEF IInv, GoneForGood, DeletedWithNodeClaim
<1> QED
  BY <1>1, LifecycleInvariant, PTL

(* isOrphaned's grace period suffices, for every gcGracePeriod above the   *)
(* time-out of the wait and the delay of the patch: the GC controller does *)
(* not delete the VM it has listed while the call that inserted the VM     *)
(* still has to hand it to its NodeClaim.                                  *)
THEOREM GraceSuffices == Spec => AwaitedSpared
<1> DEFINE Spared ==
        \A c \in Claims, z \in Zones :
            Collects(c, z) /\ vm[c][z].age = reader["gc"].list[c].age
                => ~(call[c].inserted /\ call[c].zone = z)
<1>1. IInv /\ [Next]_vars => [Spared]_vars
  <2> SUFFICES ASSUME IInv, Next, NEW c \in Claims, NEW z \in Zones,
                      Collects(c, z), vm[c][z].age = reader["gc"].list[c].age,
                      call[c].inserted, call[c].zone = z
               PROVE  FALSE
    OBVIOUS
  <2>0. /\ vm[c][z].state \in Live
        /\ vm'[c][z].state = "deleting" /\ vm[c][z].state # "deleting"
        /\ reader'["gc"] # reader["gc"]
    BY DEF Collects, Live
  <2>1. DeleteOrphan(c)
    <3>1. vm' # vm /\ reader' # reader
      BY <2>0
    <3>2. PICK d \in Claims : DeleteOrphan(d)
      <4>1. ~Tick
        <5>1. Tick => vm'[c][z].state = vm[c][z].state
          BY TickAges
        <5> QED
          BY <2>0, <5>1
      <4>2. \A d \in Claims, y \in Zones :
                ~(\/ CreateInserts(d, y) \/ CreateAdopts(d, y) \/ OperationEnds(d, y)
                  \/ DeletionEnds(d, y) \/ StopEnds(d, y) \/ Stopped(d, y))
        BY <3>1 DEF CreateInserts, CreateAdopts, OperationEnds, DeletionEnds,
                    StopEnds, Stopped, VMChanges
      <4>3. \A d \in Claims :
                ~(\/ CreateDone(d) \/ CreateFails(d) \/ Patched(d) \/ Registers(d)
                  \/ ClaimDeleted(d) \/ Finalize(d) \/ CacheExpires(d)
                  \/ SkipInstance(d))
        BY <3>1 DEF CreateDone, CreateFails, Patched, Registers, ClaimDeleted,
                    Finalize, CacheExpires, SkipInstance
      <4>4. \A s \in Readers :
                ~(\/ ListStarts(s) \/ SyncZone(s) \/ FillCache(s) \/ ReadItems(s)
                  \/ ListFails(s) \/ CoreCollects(s))
        BY <3>1 DEF ListStarts, SyncZone, FillCache, ReadItems, ListFails, CoreCollects
      <4>5. ~ListClaims /\ ~GCDone /\ ~Restart
        BY <3>1 DEF ListClaims, GCDone, Restart
      <4> QED
        BY <4>1, <4>2, <4>3, <4>4, <4>5 DEF Next
    <3>3. d # c => vm'[c] = vm[c]
      BY <3>2 DEF DeleteOrphan, Delete, Becomes, IInv, TypeOK
    <3> QED
      BY <2>0, <3>2, <3>3
  <2>2. reader["gc"].list[c].age >= gcGracePeriod
    BY <2>1 DEF DeleteOrphan, isOrphaned
  <2>3. /\ vm[c][z].age <= call[c].waited /\ call[c].waited <= Wait + PatchDelay
        /\ vm[c][z].age \in Nat /\ call[c].waited \in Nat
    BY <2>0 DEF IInv, TypeOK, YoungWhileAwaited, Calls
  <2> QED
    BY <2>2, <2>3, LifecycleAssumption
<1> QED
  BY <1>1, LifecycleInvariant, PTL DEF Spec, AwaitedSpared
==============================================================================
