--------------------------- MODULE BootstrapProofs ---------------------------
(***************************************************************************)
(* Proofs about Bootstrap: the template that a launch copies is never      *)
(* older than what its pool was running when the launch asked.             *)
(***************************************************************************)
EXTENDS Bootstrap, WellFoundedInduction, TLAPS

Statuses == {"none", "busy", "running", "withError"}
GroupRecords == [top : Nat, versions : SUBSET Nat]
PoolRecords == [status : Statuses, newest : Nat, groups : [Groups -> GroupRecords]]
Calls == [pc : {"idle", "pool", "groups", "scan", "done"}, pool : Pools \cup {NoPool},
          todo : SUBSET Groups, found : SUBSET Nat, floor : Nat, result : Nat]

(* A group runs no template newer than the newest, and during an update    *)
(* its versions still include the one it is updated from.                  *)
GroupSound(group, newest) ==
    /\ group.top <= newest
    /\ \A t \in group.versions : t <= newest
    /\ group.versions # {} => group.top \in group.versions

PoolSound(p, r) ==
    /\ r \in PoolRecords
    /\ r.newest <= MaxTemplates[p]
    /\ r.status = "none" => r.newest = 0
    /\ \A g \in Groups : GroupSound(r.groups[g], r.newest)

TypeOK ==
    /\ DOMAIN pool = Pools /\ pool = [p \in Pools |-> pool[p]]
    /\ \A p \in Pools : PoolSound(p, pool[p])
    /\ sourcePoolName \in Pools \cup {NoPool}
    /\ call \in [Callers -> Calls]
    /\ preferred \in PreferredPools

(* The group still names a template that is at least as new as the floor. *)
Reaches(group, floor) == \E t \in instanceGroupTemplateURLs(group) : t >= floor

(* Where a call that is under way will find such a template: among those   *)
(* it has found, or in a group it has yet to ask; and in a scan, because   *)
(* the templates of a pool stay in place.                                  *)
CallFresh(r) ==
    /\ r.pc # "idle" => r.pool \in Pools
    /\ r.pc \in {"pool", "groups", "scan"} => r.floor <= pool[r.pool].newest
    /\ r.pc = "pool" => /\ r.found = {}
                        /\ \E g \in Groups : Reaches(pool[r.pool].groups[g], r.floor)
    /\ r.pc = "groups" =>
        /\ \A t \in r.found : t <= MaxTemplates[r.pool]
        /\ \/ \E t \in r.found : t >= r.floor
           \/ \E g \in r.todo : Reaches(pool[r.pool].groups[g], r.floor)
    /\ r.pc = "done" => r.result >= r.floor

CallsFresh == \A c \in Callers : CallFresh(call[c])
-----------------------------------------------------------------------------
(* Maxima.                                                                 *)

(* A bounded set of templates has a newest one, and Max is it. *)
LEMMA MaxOf ==
    ASSUME NEW S \in SUBSET Nat, S # {}, NEW n \in Nat, \A x \in S : x <= n
    PROVE  Max(S) \in S /\ \A y \in S : Max(S) >= y
<1> DEFINE T == {n - x : x \in S}
           R == OpToRel(<, Nat)
<1>1. T \subseteq Nat /\ T # {}
  <2>1. \A x \in S : n - x \in Nat
    OBVIOUS
  <2>2. PICK x \in S : TRUE
    OBVIOUS
  <2>3. n - x \in T
    OBVIOUS
  <2> QED
    BY <2>1, <2>3
<1>2. IsWellFoundedOn(R, Nat)
  BY NatLessThanWellFounded
<1>3. \A u, v \in Nat : u < v => <<u, v>> \in R
  BY DEF OpToRel
<1> HIDE DEF R
<1>4. PICK t \in T : \A u \in T : ~(<<u, t>> \in R)
  <2> HIDE DEF T
  <2> QED
    BY <1>1, <1>2, WFMin
<1>5. \A u \in T : u >= t
  <2> HIDE DEF T
  <2> TAKE u \in T
  <2>1. u \in Nat /\ t \in Nat /\ ~(<<u, t>> \in R)
    BY <1>1, <1>4
  <2> QED
    BY <1>3, <2>1
<1>6. PICK m \in S : t = n - m
  BY <1>4
<1>7. \A y \in S : m >= y
  <2> TAKE y \in S
  <2>1. n - y \in T /\ y \in Nat /\ m \in Nat
    OBVIOUS
  <2>2. n - y >= n - m
    BY <1>5, <1>6, <2>1
  <2> QED
    BY <2>1, <2>2
<1> QED
  BY <1>7 DEF Max

(* What Live reads of a pool: the newest template of a group of it, which  *)
(* the URLs of that group include.                                         *)
LEMMA LiveReaches ==
    ASSUME TypeOK, NEW p \in Pools
    PROVE  /\ Live(p) \in Nat
           /\ Live(p) <= pool[p].newest
           /\ \E g \in Groups : Reaches(pool[p].groups[g], Live(p))
<1> DEFINE All == UNION {pool[p].groups[g].versions \cup {pool[p].groups[g].top} :
                            g \in Groups}
           n == pool[p].newest
<1>1. /\ n \in Nat
      /\ \A g \in Groups : /\ pool[p].groups[g] \in GroupRecords
                            /\ GroupSound(pool[p].groups[g], n)
  BY DEF TypeOK, PoolSound, PoolRecords
<1>2. \A g \in Groups : /\ pool[p].groups[g].top \in Nat
                         /\ pool[p].groups[g].versions \subseteq Nat
  BY <1>1 DEF GroupRecords
<1>3. All \in SUBSET Nat /\ All # {}
  <2>1. PICK g \in Groups : TRUE
    BY BootstrapAssumption
  <2>2. pool[p].groups[g].top \in All
    OBVIOUS
  <2>3. \A x \in All : x \in Nat
    BY <1>2
  <2> QED
    BY <2>2, <2>3
<1>4. \A x \in All : x <= n
  BY <1>1 DEF GroupSound
<1>5. Live(p) = Max(All)
  BY DEF Live
<1> HIDE DEF All
<1>6. Live(p) \in All
  BY <1>1, <1>3, <1>4, <1>5, MaxOf
<1>7. PICK g \in Groups :
        Live(p) \in pool[p].groups[g].versions \cup {pool[p].groups[g].top}
  BY <1>6 DEF All
<1>8. Live(p) \in instanceGroupTemplateURLs(pool[p].groups[g])
  BY <1>1, <1>7 DEF instanceGroupTemplateURLs, GroupSound
<1>9. Live(p) \in Nat
  BY <1>3, <1>6
<1>10. Reaches(pool[p].groups[g], Live(p))
  BY <1>8, <1>9 DEF Reaches
<1> QED
  BY <1>4, <1>6, <1>9, <1>10

-----------------------------------------------------------------------------
(* Pools.                                                                  *)

(* Groups that run one template are not being updated. *)
LEMMA RunningType ==
    ASSUME NEW t \in Nat
    PROVE  /\ Running(t) \in [Groups -> GroupRecords]
           /\ \A g \in Groups : /\ Running(t)[g].top = t
                                 /\ Running(t)[g].versions = {}
BY DEF Running, GroupRecords

(* A pool that has just been created runs its first template. *)
LEMMA NewPoolSound ==
    ASSUME NEW p \in Pools, NEW status \in Statuses \ {"none"}
    PROVE  /\ PoolSound(p, NewPool(status))
           /\ NewPool(status).newest = 1
           /\ NewPool(status).groups = Running(1)
<1>1. /\ NewPool(status).status = status
      /\ NewPool(status).newest = 1
      /\ NewPool(status).groups = Running(1)
      /\ NewPool(status) \in PoolRecords
  BY RunningType DEF NewPool, PoolRecords
<1>2. 1 <= MaxTemplates[p]
  BY BootstrapAssumption
<1>3. \A g \in Groups : GroupSound(Running(1)[g], 1)
  BY RunningType DEF GroupSound
<1> QED
  BY <1>1, <1>2, <1>3 DEF PoolSound

(* A pool that does not exist, or was deleted, has no template. *)
LEMMA AbsentSound ==
    ASSUME NEW p \in Pools
    PROVE  /\ PoolSound(p, Absent)
           /\ Absent.newest = 0
           /\ Absent.groups = Running(0)
<1>1. /\ Absent.newest = 0
      /\ Absent.groups = Running(0)
      /\ Absent \in PoolRecords
  BY RunningType DEF Absent, PoolRecords, Statuses
<1>2. 0 <= MaxTemplates[p]
  BY BootstrapAssumption
<1>3. \A g \in Groups : GroupSound(Running(0)[g], 0)
  BY RunningType DEF GroupSound
<1> QED
  BY <1>1, <1>2, <1>3 DEF PoolSound

(* Pool r is at least as far in its rollouts as pool q. *)
Further(q, r) ==
    /\ q.newest <= r.newest
    /\ \A g \in Groups, f \in Nat : Reaches(q.groups[g], f) => Reaches(r.groups[g], f)

(* One pool makes progress. *)
Progress == \E p \in Pools : \E r :
    /\ pool' = [pool EXCEPT ![p] = r]
    /\ PoolSound(p, r)
    /\ Further(pool[p], r)

(* What a group names is no newer than the newest template. *)
LEMMA ReachesBound ==
    ASSUME NEW group, NEW n \in Nat, GroupSound(group, n), group \in GroupRecords,
           NEW f \in Nat, Reaches(group, f)
    PROVE  f <= n
<1>1. PICK t \in instanceGroupTemplateURLs(group) : t >= f
  BY DEF Reaches
<1>2. t \in Nat /\ t <= n
  BY DEF instanceGroupTemplateURLs, GroupSound, GroupRecords
<1> QED
  BY <1>1, <1>2

(* A pool that was absent is created. *)
LEMMA CreateFurther ==
    ASSUME TypeOK, NEW p \in Pools, pool[p].status = "none"
    PROVE  Further(pool[p], NewPool("busy"))
<1>1. /\ pool[p].newest = 0
      /\ \A g \in Groups : /\ pool[p].groups[g] \in GroupRecords
                            /\ GroupSound(pool[p].groups[g], 0)
  BY DEF TypeOK, PoolSound, PoolRecords
<1>2. /\ NewPool("busy").newest = 1
      /\ NewPool("busy").groups = Running(1)
  BY NewPoolSound DEF Statuses
<1>3. ASSUME NEW g \in Groups, NEW f \in Nat, Reaches(pool[p].groups[g], f)
      PROVE  Reaches(Running(1)[g], f)
  <2>1. f <= 0
    BY <1>1, <1>3, ReachesBound
  <2>2. instanceGroupTemplateURLs(Running(1)[g]) = {1}
    BY RunningType DEF instanceGroupTemplateURLs
  <2> QED
    BY <2>1, <2>2 DEF Reaches
<1> QED
  BY <1>1, <1>2, <1>3 DEF Further

(* A step of a rollout in one group: whatever template the group could be  *)
(* seen to run, it can be seen to run that one or a newer one.             *)
LEMMA RolloutGroupProgress ==
    ASSUME TypeOK, NEW p \in Pools, NEW g \in Groups, RolloutGroup(p, g)
    PROVE  Progress
<1> DEFINE n == pool[p].newest
           group == pool[p].groups[g]
           h == IF group.versions = {} THEN [group EXCEPT !.versions = {group.top, n}]
                ELSE [top |-> n, versions |-> {}]
           r == [pool[p] EXCEPT !.groups[g] = h]
<1>1. /\ n \in Nat /\ pool[p] \in PoolRecords
      /\ group \in GroupRecords /\ GroupSound(group, n)
  BY DEF TypeOK, PoolSound, PoolRecords
<1>2. pool' = [pool EXCEPT ![p] = r]
  BY DEF RolloutGroup, PoolChanges
<1> HIDE DEF n, group
<1>3. /\ h \in GroupRecords /\ GroupSound(h, n)
      /\ \A f \in Nat : Reaches(group, f) => Reaches(h, f)
  <2>1. group.top \in Nat /\ group.top <= n
    BY <1>1 DEF GroupRecords, GroupSound
  <2>2. CASE group.versions = {}
    <3>1. /\ h \in GroupRecords /\ h.top = group.top /\ h.versions = {group.top, n}
      BY <1>1, <2>1, <2>2 DEF GroupRecords
    <3> HIDE DEF h
    <3>2. GroupSound(h, n)
      BY <1>1, <2>1, <3>1 DEF GroupSound
    <3>3. instanceGroupTemplateURLs(group) \subseteq instanceGroupTemplateURLs(h)
      BY <2>2, <3>1 DEF instanceGroupTemplateURLs
    <3> QED
      BY <3>1, <3>2, <3>3 DEF Reaches
  <2>3. CASE group.versions # {}
    <3>1. /\ h \in GroupRecords /\ h.top = n /\ h.versions = {}
      BY <1>1, <2>3 DEF GroupRecords
    <3> HIDE DEF h
    <3>2. GroupSound(h, n)
      BY <1>1, <3>1 DEF GroupSound
    <3>3. instanceGroupTemplateURLs(h) = {n}
      BY <3>1 DEF instanceGroupTemplateURLs
    <3>4. \A f \in Nat : Reaches(group, f) => f <= n
      BY <1>1, ReachesBound
    <3> QED
      BY <1>1, <3>1, <3>2, <3>3, <3>4 DEF Reaches
  <2> QED
    BY <2>2, <2>3
<1> HIDE DEF h
<1>4. /\ r \in PoolRecords /\ r.newest = n /\ r.status = pool[p].status
      /\ r.groups = [pool[p].groups EXCEPT ![g] = h]
  BY <1>1, <1>3 DEF PoolRecords, n
<1>5. \A k \in Groups : r.groups[k] = IF k = g THEN h ELSE pool[p].groups[k]
  BY <1>1, <1>4 DEF PoolRecords
<1> HIDE DEF r
<1>6. PoolSound(p, r)
  BY <1>3, <1>4, <1>5 DEF TypeOK, PoolSound, n
<1>7. Further(pool[p], r)
  BY <1>1, <1>3, <1>4, <1>5 DEF Further, n, group
<1> QED
  BY <1>2, <1>6, <1>7 DEF Progress

(* What the pools do by themselves and through users, deletion apart. *)
LEMMA PoolProgress ==
    ASSUME TypeOK, NEW p \in Pools, CreatePool(p) \/ Settle(p) \/ RolloutStarts(p)
    PROVE  Progress
<1>0. /\ PoolSound(p, pool[p]) /\ pool[p] \in PoolRecords
      /\ pool[p].newest \in Nat /\ MaxTemplates[p] \in Nat
  BY BootstrapAssumption DEF TypeOK, PoolSound, PoolRecords
<1>1. CASE CreatePool(p)
  BY <1>1, NewPoolSound, CreateFurther
     DEF CreatePool, PoolChanges, Progress, Statuses
<1>2. CASE Settle(p)
  <2>1. PICK st \in {"running", "withError"} :
            pool' = [pool EXCEPT ![p] = [pool[p] EXCEPT !.status = st]]
    BY <1>2 DEF Settle, PoolChanges
  <2> DEFINE r == [pool[p] EXCEPT !.status = st]
  <2>2. /\ r \in PoolRecords /\ r.status = st /\ r.newest = pool[p].newest
        /\ r.groups = pool[p].groups
    BY <1>0 DEF PoolRecords, Statuses
  <2>3. pool' = [pool EXCEPT ![p] = r]
    BY <2>1
  <2> HIDE DEF r
  <2>4. PoolSound(p, r) /\ Further(pool[p], r)
    BY <1>0, <2>2 DEF PoolSound, Further
  <2> QED
    BY <2>3, <2>4 DEF Progress
<1>3. CASE RolloutStarts(p)
  <2> DEFINE r == [pool[p] EXCEPT !.status = "busy", !.newest = @ + 1]
  <2>1. /\ r \in PoolRecords /\ r.status = "busy" /\ r.newest = pool[p].newest + 1
        /\ r.groups = pool[p].groups
    <3>1. \A k \in Nat :
            LET q == [pool[p] EXCEPT !.status = "busy", !.newest = k] IN
            /\ q \in PoolRecords /\ q.status = "busy" /\ q.newest = k
            /\ q.groups = pool[p].groups
      BY <1>0 DEF PoolRecords, Statuses
    <3>2. /\ pool[p].newest + 1 \in Nat
          /\ r = [pool[p] EXCEPT !.status = "busy", !.newest = pool[p].newest + 1]
      BY <1>0
    <3> HIDE DEF r
    <3> QED
      BY <3>1, <3>2
  <2>2. pool' = [pool EXCEPT ![p] = r] /\ pool[p].newest < MaxTemplates[p]
    BY <1>3 DEF RolloutStarts, PoolChanges
  <2> HIDE DEF r
  <2>3. ASSUME NEW g \in Groups  PROVE GroupSound(r.groups[g], r.newest)
    <3>1. /\ pool[p].groups[g] \in GroupRecords
          /\ GroupSound(pool[p].groups[g], pool[p].newest)
      BY <1>0 DEF PoolSound, PoolRecords
    <3> QED
      BY <1>0, <2>1, <3>1 DEF GroupSound, GroupRecords
  <2>4. r.newest <= MaxTemplates[p] /\ pool[p].newest <= r.newest
    BY <1>0, <2>1, <2>2
  <2>5. PoolSound(p, r) /\ Further(pool[p], r)
    BY <2>1, <2>3, <2>4 DEF PoolSound, Further
  <2> QED
    BY <2>2, <2>5 DEF Progress
<1> QED
  BY <1>1, <1>2, <1>3

-----------------------------------------------------------------------------
(* Calls.                                                                  *)

IInv == TypeOK /\ CallsFresh

(* If pools make progress, calls that are left alone stay fresh. *)
LEMMA ProgressPreserves ==
    ASSUME IInv, Progress, UNCHANGED call, sourcePoolName' \in Pools \cup {NoPool},
           preferred' \in PreferredPools
    PROVE  IInv'
<1>0. PICK p \in Pools : \E r : /\ pool' = [pool EXCEPT ![p] = r]
                                /\ PoolSound(p, r)
                                /\ Further(pool[p], r)
  BY DEF Progress
<1>1. PICK r : /\ pool' = [pool EXCEPT ![p] = r]
               /\ PoolSound(p, r)
               /\ Further(pool[p], r)
  BY <1>0
<1>2. pool'[p] = r /\ \A q \in Pools \ {p} : pool'[q] = pool[q]
  BY <1>1 DEF IInv, TypeOK
<1>3. DOMAIN pool' = Pools /\ pool' = [q \in Pools |-> pool'[q]]
  BY <1>1 DEF IInv, TypeOK
<1>4. TypeOK'
  <2>1. \A q \in Pools : PoolSound(q, pool'[q])
    BY <1>1, <1>2 DEF IInv, TypeOK
  <2>2. TypeOK' <=> /\ DOMAIN pool' = Pools /\ pool' = [q \in Pools |-> pool'[q]]
                    /\ \A q \in Pools : PoolSound(q, pool'[q])
                    /\ sourcePoolName' \in Pools \cup {NoPool}
                    /\ call' \in [Callers -> Calls]
                    /\ preferred' \in PreferredPools
    BY DEF TypeOK, PoolSound, GroupSound
  <2> QED
    BY <1>3, <2>1, <2>2 DEF IInv, TypeOK
<1>5. ASSUME NEW q \in Pools  PROVE Further(pool[q], pool'[q])
  <2>1. CASE q = p
    BY <1>1, <1>2, <2>1
  <2>2. CASE q # p
    <3>1. pool[q].newest \in Nat
      BY DEF IInv, TypeOK, PoolSound, PoolRecords
    <3> QED
      BY <1>2, <2>2, <3>1 DEF Further
  <2> QED
    BY <2>1, <2>2
<1>6. ASSUME NEW c \in Callers  PROVE CallFresh(call[c])'
  <2> DEFINE k == call[c]
             q == k.pool
  <2>1. k \in Calls /\ CallFresh(k)
    BY DEF IInv, TypeOK, CallsFresh
  <2>2. CASE k.pc = "idle" \/ k.pc = "done"
    BY <2>1, <2>2 DEF CallFresh
  <2>3. CASE k.pc \in {"pool", "groups", "scan"}
    <3>1. q \in Pools /\ k.floor \in Nat /\ k.todo \subseteq Groups
      BY <2>1, <2>3 DEF CallFresh, Calls
    <3>2. /\ pool[q].newest <= pool'[q].newest
          /\ \A g \in Groups : Reaches(pool[q].groups[g], k.floor)
                                => Reaches(pool'[q].groups[g], k.floor)
      BY <1>5, <3>1 DEF Further
    <3>3. pool[q].newest \in Nat /\ pool'[q].newest \in Nat
      BY <1>4, <3>1 DEF IInv, TypeOK, PoolSound, PoolRecords
    <3>4. k.floor <= pool'[q].newest
      BY <2>1, <2>3, <3>1, <3>2, <3>3 DEF CallFresh
    <3> QED
      BY <2>1, <2>3, <3>1, <3>2, <3>4 DEF CallFresh, Reaches
  <2> QED
    BY <2>1, <2>2, <2>3 DEF Calls
<1>7. CallsFresh'
  BY <1>6 DEF CallsFresh
<1> QED
  BY <1>4, <1>7 DEF IInv

(* A step of the controller that leaves pools and calls alone. *)
LEMMA StillPreserves ==
    ASSUME IInv, UNCHANGED <<pool, call, preferred>>,
           sourcePoolName' \in Pools \cup {NoPool}
    PROVE  IInv'
<1>1. TypeOK'
  BY DEF IInv, TypeOK, PoolSound, GroupSound
<1>2. CallsFresh'
  BY DEF IInv, CallsFresh, CallFresh, Reaches
<1> QED
  BY <1>1, <1>2 DEF IInv

(* A step of one call. *)
LEMMA CallPreserves ==
    ASSUME IInv, NEW c \in Callers, NEW k \in Calls, CallFresh(k), Step(c, k),
           UNCHANGED <<pool, preferred, sourcePoolName>>
    PROVE  IInv'
<1>1. /\ call' \in [Callers -> Calls] /\ call'[c] = k
      /\ \A d \in Callers \ {c} : call'[d] = call[d]
  BY DEF IInv, TypeOK, Step
<1>2. TypeOK'
  BY <1>1 DEF IInv, TypeOK, PoolSound, GroupSound
<1>3. \A d \in Callers : CallFresh(call'[d])
  BY <1>1 DEF IInv, CallsFresh
<1>4. CallsFresh' <=> \A d \in Callers : CallFresh(call'[d])
  BY DEF CallsFresh, CallFresh, Reaches
<1> QED
  BY <1>2, <1>3, <1>4 DEF IInv

(* A launch that has not asked yet has nothing to be stale. *)
LEMMA NoCallFresh == NoCall \in Calls /\ CallFresh(NoCall)
<1>1. NoCall \in Calls /\ NoCall.pc = "idle"
  BY DEF NoCall, Calls
<1> QED
  BY <1>1 DEF CallFresh

(* The call begins: a group of the pool runs the template that sets the    *)
(* floor.                                                                  *)
LEMMA BeginPreserves ==
    ASSUME IInv, NEW c \in Callers, GetSourceTemplateMetadata(c)
    PROVE  IInv'
<1> DEFINE p == sourcePoolName
           k == [NoCall EXCEPT !.pc = "pool", !.pool = p, !.floor = Live(p)]
<1>1. p \in Pools /\ TypeOK
  BY DEF IInv, TypeOK, GetSourceTemplateMetadata
<1>2. /\ Live(p) \in Nat /\ Live(p) <= pool[p].newest
      /\ \E g \in Groups : Reaches(pool[p].groups[g], Live(p))
  BY <1>1, LiveReaches
<1>3. /\ k \in Calls /\ k.pc = "pool" /\ k.pool = p /\ k.floor = Live(p)
      /\ k.found = {}
  BY <1>1, <1>2 DEF NoCall, Calls
<1>4. Step(c, k) /\ UNCHANGED <<pool, preferred, sourcePoolName>>
  BY DEF GetSourceTemplateMetadata
<1> HIDE DEF k
<1>5. CallFresh(k)
  BY <1>1, <1>2, <1>3 DEF CallFresh
<1> QED
  BY <1>3, <1>4, <1>5, CallPreserves

(* The pool names its groups; all of them are still to be asked. *)
LEMMA GetNodePoolPreserves ==
    ASSUME IInv, NEW c \in Callers, GetNodePool(c)
    PROVE  IInv'
<1> DEFINE k == [call[c] EXCEPT !.pc = "groups", !.todo = Groups]
<1>1. call[c] \in Calls /\ CallFresh(call[c]) /\ call[c].pc = "pool"
  BY DEF IInv, TypeOK, CallsFresh, GetNodePool
<1>2. /\ k \in Calls /\ k.pc = "groups" /\ k.pool = call[c].pool
      /\ k.todo = Groups /\ k.found = call[c].found /\ k.floor = call[c].floor
  BY <1>1 DEF Calls
<1>3. Step(c, k) /\ UNCHANGED <<pool, preferred, sourcePoolName>>
  BY DEF GetNodePool
<1> HIDE DEF k
<1>4. CallFresh(k)
  BY <1>1, <1>2 DEF CallFresh
<1> QED
  BY <1>2, <1>3, <1>4, CallPreserves

(* A group answers: if it was the one that reaches the floor, what it      *)
(* names is now found.                                                     *)
LEMMA GetInstanceGroupPreserves ==
    ASSUME IInv, NEW c \in Callers, NEW g \in Groups, GetInstanceGroup(c, g)
    PROVE  IInv'
<1> DEFINE p == call[c].pool
           urls == instanceGroupTemplateURLs(pool[p].groups[g])
           k == [call[c] EXCEPT !.todo = call[c].todo \ {g},
                                !.found = call[c].found \cup urls]
<1>1. call[c] \in Calls /\ CallFresh(call[c]) /\ call[c].pc = "groups" /\ p \in Pools
  BY DEF IInv, TypeOK, CallsFresh, CallFresh, GetInstanceGroup
<1>2. urls \subseteq Nat /\ \A t \in urls : t <= MaxTemplates[p]
  <2>1. /\ PoolSound(p, pool[p]) /\ pool[p].groups[g] \in GroupRecords
        /\ pool[p].newest \in Nat /\ MaxTemplates[p] \in Nat
        /\ pool[p].newest <= MaxTemplates[p]
        /\ GroupSound(pool[p].groups[g], pool[p].newest)
    BY <1>1, BootstrapAssumption DEF IInv, TypeOK, PoolSound, PoolRecords
  <2>2. urls \subseteq Nat
    BY <2>1 DEF instanceGroupTemplateURLs, GroupRecords
  <2>3. \A t \in urls : t <= pool[p].newest
    BY <2>1 DEF instanceGroupTemplateURLs, GroupSound
  <2> HIDE DEF urls
  <2> QED
    BY <2>1, <2>2, <2>3
<1>3. Step(c, k) /\ UNCHANGED <<pool, preferred, sourcePoolName>>
  BY DEF GetInstanceGroup
<1> HIDE DEF urls
<1>4. /\ k \in Calls /\ k.pc = "groups" /\ k.pool = p /\ k.floor = call[c].floor
      /\ k.todo = call[c].todo \ {g} /\ k.found = call[c].found \cup urls
  BY <1>1, <1>2 DEF Calls
<1> HIDE DEF k
<1>5. Reaches(pool[p].groups[g], call[c].floor) => \E t \in urls : t >= call[c].floor
  BY DEF Reaches, urls
<1>6. \/ \E t \in k.found : t >= k.floor
      \/ \E h \in k.todo : Reaches(pool[p].groups[h], k.floor)
  BY <1>1, <1>4, <1>5 DEF CallFresh
<1>7. CallFresh(k)
  BY <1>1, <1>2, <1>4, <1>6 DEF CallFresh
<1> QED
  BY <1>3, <1>4, <1>7, CallPreserves

(* All groups have answered: the newest of what was found reaches the      *)
(* floor.                                                                  *)
LEMMA GetTemplatesPreserves ==
    ASSUME IInv, NEW c \in Callers, GetTemplates(c)
    PROVE  IInv'
<1> DEFINE S == call[c].found
           k == [call[c] EXCEPT !.pc = "done", !.result = Max(S)]
<1>1. /\ call[c] \in Calls /\ CallFresh(call[c]) /\ call[c].pc = "groups"
      /\ call[c].todo = {} /\ call[c].pool \in Pools
  BY DEF IInv, TypeOK, CallsFresh, CallFresh, GetTemplates
<1>2. /\ S \in SUBSET Nat /\ call[c].floor \in Nat
      /\ MaxTemplates[call[c].pool] \in Nat
      /\ \A t \in S : t <= MaxTemplates[call[c].pool]
  BY <1>1, BootstrapAssumption DEF CallFresh, Calls
<1>3. PICK t \in S : t >= call[c].floor
  BY <1>1 DEF CallFresh
<1>4. Max(S) \in S /\ Max(S) >= t
  BY <1>2, <1>3, MaxOf
<1>5. Max(S) \in Nat /\ Max(S) >= call[c].floor
  BY <1>2, <1>3, <1>4
<1>6. Step(c, k) /\ UNCHANGED <<pool, preferred, sourcePoolName>>
  BY DEF GetTemplates
<1>7. /\ k \in Calls /\ k.pc = "done" /\ k.pool = call[c].pool
      /\ k.floor = call[c].floor /\ k.result = Max(S)
  BY <1>1, <1>5 DEF Calls
<1> HIDE DEF k
<1>8. CallFresh(k)
  BY <1>1, <1>5, <1>7 DEF CallFresh
<1> QED
  BY <1>6, <1>7, <1>8, CallPreserves

(* A read fails, and all templates of the pool are looked at instead. *)
LEMMA ScanPreserves ==
    ASSUME IInv, NEW c \in Callers, ChainFails(c) \/ LabelScan(c) \/ Returns(c)
    PROVE  IInv'
<1>1. call[c] \in Calls /\ CallFresh(call[c])
  BY DEF IInv, TypeOK, CallsFresh
<1>2. CASE ChainFails(c)
  <2> DEFINE k == [call[c] EXCEPT !.pc = "scan", !.todo = {}, !.found = {}]
  <2>1. k \in Calls /\ k.pc = "scan" /\ k.pool = call[c].pool /\ k.floor = call[c].floor
    BY <1>1 DEF Calls
  <2>2. /\ Step(c, k) /\ UNCHANGED <<pool, preferred, sourcePoolName>>
        /\ call[c].pc \in {"pool", "groups"}
    BY <1>2 DEF ChainFails
  <2> HIDE DEF k
  <2>3. CallFresh(k)
    BY <1>1, <2>1, <2>2 DEF CallFresh
  <2> QED
    BY <2>1, <2>2, <2>3, CallPreserves
<1>3. CASE LabelScan(c) /\ Step(c, NoCall)
  BY <1>3, NoCallFresh, CallPreserves DEF LabelScan
<1>4. CASE /\ LabelScan(c)
           /\ Step(c, [call[c] EXCEPT !.pc = "done",
                                      !.result = pool[call[c].pool].newest])
  <2> DEFINE n == pool[call[c].pool].newest
             k == [call[c] EXCEPT !.pc = "done", !.result = n]
  <2>1. call[c].pc = "scan" /\ UNCHANGED <<pool, preferred, sourcePoolName>>
    BY <1>4 DEF LabelScan
  <2>2. call[c].pool \in Pools /\ call[c].floor <= n /\ call[c].floor \in Nat
    BY <1>1, <2>1 DEF CallFresh, Calls
  <2>3. n \in Nat
    BY <2>2 DEF IInv, TypeOK, PoolSound, PoolRecords
  <2>4. Step(c, k)
    BY <1>4
  <2> HIDE DEF n
  <2>5. /\ k \in Calls /\ k.pc = "done" /\ k.pool = call[c].pool
        /\ k.floor = call[c].floor /\ k.result = n
    BY <1>1, <2>3 DEF Calls
  <2> HIDE DEF k
  <2>6. CallFresh(k)
    BY <2>2, <2>3, <2>5 DEF CallFresh
  <2> QED
    BY <2>1, <2>4, <2>5, <2>6, CallPreserves
<1>5. CASE Returns(c)
  BY <1>5, NoCallFresh, CallPreserves DEF Returns
<1> QED
  BY <1>2, <1>3, <1>4, <1>5 DEF LabelScan

(* A pool is deleted, and with it what calls could expect of it. *)
LEMMA DeletePoolPreserves ==
    ASSUME IInv, NEW p \in Pools, DeletePool(p)
    PROVE  IInv'
<1>1. /\ pool' = [pool EXCEPT ![p] = Absent]
      /\ call' = [c \in Callers |-> IF call[c].pool = p
                                    THEN [call[c] EXCEPT !.floor = 0] ELSE call[c]]
      /\ UNCHANGED <<preferred, sourcePoolName>>
  BY DEF DeletePool
<1>2. /\ pool'[p] = Absent /\ \A q \in Pools \ {p} : pool'[q] = pool[q]
      /\ DOMAIN pool' = Pools /\ pool' = [q \in Pools |-> pool'[q]]
  BY <1>1 DEF IInv, TypeOK
<1>3. /\ PoolSound(p, Absent) /\ Absent.newest = 0
      /\ \A g \in Groups : instanceGroupTemplateURLs(Absent.groups[g]) = {0}
  BY AbsentSound, RunningType DEF instanceGroupTemplateURLs
<1>4. ASSUME NEW c \in Callers
      PROVE  /\ call[c] \in Calls /\ CallFresh(call[c])
             /\ call'[c] \in Calls
             /\ call[c].pool # p => call'[c] = call[c]
             /\ call[c].pool = p =>
                   /\ call'[c].floor = 0 /\ call'[c].pc = call[c].pc
                   /\ call'[c].pool = p /\ call'[c].todo = call[c].todo
                   /\ call'[c].found = call[c].found
                   /\ call'[c].result = call[c].result
  <2>1. call[c] \in Calls /\ CallFresh(call[c])
    BY DEF IInv, TypeOK, CallsFresh
  <2>2. CASE call[c].pool = p
    <3>1. call'[c] = [call[c] EXCEPT !.floor = 0]
      BY <1>1, <2>2
    <3> QED
      BY <2>1, <2>2, <3>1 DEF Calls
  <2>3. CASE call[c].pool # p
    BY <1>1, <2>1, <2>3
  <2> QED
    BY <2>1, <2>2, <2>3
<1>5. TypeOK'
  <2>1. \A q \in Pools : PoolSound(q, pool'[q])
    BY <1>2, <1>3 DEF IInv, TypeOK
  <2>2. call' \in [Callers -> Calls]
    BY <1>1, <1>4
  <2>3. TypeOK' <=> /\ DOMAIN pool' = Pools /\ pool' = [q \in Pools |-> pool'[q]]
                    /\ \A q \in Pools : PoolSound(q, pool'[q])
                    /\ sourcePoolName' \in Pools \cup {NoPool}
                    /\ call' \in [Callers -> Calls]
                    /\ preferred' \in PreferredPools
    BY DEF TypeOK, PoolSound, GroupSound
  <2> QED
    BY <1>1, <1>2, <2>1, <2>2, <2>3 DEF IInv, TypeOK
<1>6. ASSUME NEW c \in Callers  PROVE CallFresh(call[c])'
  <2>1. CASE call[c].pool = p
    <3>1. \A g \in Groups : Reaches(pool'[p].groups[g], 0)
      BY <1>2, <1>3 DEF Reaches
    <3>2. call[c].todo \subseteq Groups /\ call[c].found \subseteq Nat
          /\ call[c].result \in Nat
      BY <1>4 DEF Calls
    <3>3. call[c].pc = "groups" => /\ \A t \in call[c].found : t <= MaxTemplates[p]
                                   /\ \/ \E t \in call[c].found : t >= 0
                                      \/ \E g \in call[c].todo : TRUE
      BY <1>4, <2>1, <3>2 DEF CallFresh
    <3>4. call[c].pc = "pool" => call[c].found = {} /\ \E g \in Groups : TRUE
      BY <1>4 DEF CallFresh
    <3>5. pool'[p].newest = 0
      BY <1>2, <1>3
    <3> QED
      BY <1>4, <2>1, <3>1, <3>2, <3>3, <3>4, <3>5 DEF CallFresh, Reaches
  <2>2. CASE call[c].pool # p
    <3>1. call'[c] = call[c] /\ CallFresh(call[c])
          /\ (call[c].pool \in Pools => pool'[call[c].pool] = pool[call[c].pool])
      BY <1>2, <1>4, <2>2
    <3> QED
      BY <3>1 DEF CallFresh, Reaches
  <2> QED
    BY <2>1, <2>2
<1>7. CallsFresh'
  BY <1>6 DEF CallsFresh
<1> QED
  BY <1>5, <1>7 DEF IInv

-----------------------------------------------------------------------------

(* The controller selects a pool of the cluster or none. *)
LEMMA DiscoverType == TypeOK => discoverSourcePool \in Pools \cup {NoPool}
<1>1. selectFromClusterPools \in Pools \cup {NoPool}
  <2> DEFINE first == {p \in eligiblePools :
                        \A q \in eligiblePools \ {p} : sortsBefore(p, q)}
  <2>1. first \subseteq Pools
    BY DEF eligiblePools
  <2>2. first # {} => (CHOOSE p \in first : TRUE) \in Pools
    <3> HIDE DEF first
    <3> QED
      BY <2>1
  <2>3. DefaultPool \in Pools
    BY BootstrapAssumption
  <2> QED
    BY <2>2, <2>3 DEF selectFromClusterPools
<1>2. TypeOK => preferred \in Pools \cup {NoPool}
  BY BootstrapAssumption DEF TypeOK
<1> QED
  BY <1>1, <1>2 DEF discoverSourcePool

(* The pools that exist at the start run their first template. *)
LEMMA InitIInv == Init => IInv
<1> SUFFICES ASSUME Init  PROVE IInv
  OBVIOUS
<1>1. PICK known \in SUBSET (Pools \ {Fallback}) :
        pool = [p \in Pools |-> IF p \in known THEN NewPool("running") ELSE Absent]
  BY DEF Init
<1>2. \A p \in Pools : PoolSound(p, pool[p])
  BY <1>1, NewPoolSound, AbsentSound DEF Statuses
<1>3. DOMAIN pool = Pools /\ pool = [p \in Pools |-> pool[p]]
  BY <1>1
<1>4. TypeOK
  BY <1>2, <1>3, NoCallFresh DEF Init, TypeOK
<1>5. CallsFresh
  BY NoCallFresh DEF Init, CallsFresh
<1> QED
  BY <1>4, <1>5 DEF IInv

(* Every step of the controller, of GKE and of a launch preserves IInv. *)
LEMMA NextIInv == IInv /\ [Next]_vars => IInv'
<1> SUFFICES ASSUME IInv, [Next]_vars  PROVE IInv'
  OBVIOUS
<1>0. sourcePoolName \in Pools \cup {NoPool} /\ preferred \in PreferredPools /\ TypeOK
  BY DEF IInv, TypeOK
<1>1. CASE Sync
  <2>1. UNCHANGED <<pool, call, preferred>> /\ sourcePoolName' \in Pools \cup {NoPool}
    BY <1>0, <1>1, DiscoverType DEF Sync
  <2> QED
    BY <2>1, StillPreserves
<1>2. CASE SyncFails \/ EnsureGet \/ EnsureGetFails \/ EnsureCreateFails
           \/ UNCHANGED vars
  <2>1. UNCHANGED <<pool, call, preferred, sourcePoolName>>
    BY <1>2 DEF SyncFails, EnsureGet, EnsureGetFails, EnsureCreateFails, vars
  <2> QED
    BY <1>0, <2>1, StillPreserves
<1>3. CASE EnsureCreate
  <2>0. UNCHANGED <<call, preferred, sourcePoolName>> /\ Fallback \in Pools
    BY <1>3, BootstrapAssumption DEF EnsureCreate
  <2>1. CASE UNCHANGED pool
    BY <1>0, <2>0, <2>1, StillPreserves
  <2>2. CASE /\ pool[Fallback].status = "none"
             /\ pool' = [pool EXCEPT ![Fallback] = NewPool("busy")]
    <3>1. Progress
      BY <1>0, <2>0, <2>2, NewPoolSound, CreateFurther DEF Progress, Statuses
    <3> QED
      BY <1>0, <2>0, <3>1, ProgressPreserves
  <2> QED
    BY <1>3, <2>1, <2>2 DEF EnsureCreate
<1>4. ASSUME NEW c \in Callers, CallStep(c)  PROVE IInv'
  BY <1>4, BeginPreserves, GetNodePoolPreserves, GetInstanceGroupPreserves,
     GetTemplatesPreserves, ScanPreserves DEF CallStep
<1>5. ASSUME NEW p \in Pools, CreatePool(p) \/ Settle(p) \/ RolloutStarts(p)
      PROVE  IInv'
  <2>1. UNCHANGED <<call, preferred, sourcePoolName>>
    BY <1>5 DEF CreatePool, Settle, RolloutStarts, PoolChanges
  <2> QED
    BY <1>0, <1>5, <2>1, PoolProgress, ProgressPreserves
<1>6. ASSUME NEW p \in Pools, NEW g \in Groups, RolloutGroup(p, g)  PROVE IInv'
  <2>1. UNCHANGED <<call, preferred, sourcePoolName>>
    BY <1>6 DEF RolloutGroup, PoolChanges
  <2> QED
    BY <1>0, <1>6, <2>1, RolloutGroupProgress, ProgressPreserves
<1> QED
  BY <1>1, <1>2, <1>3, <1>4, <1>5, <1>6, DeletePoolPreserves DEF Next

(* Pools, calls and what the calls will find stay as IInv says, for any    *)
(* number of pools, groups, rollouts, deletions and concurrent launches.   *)
THEOREM BootstrapInvariant == Spec => []IInv
BY InitIInv, NextIInv, PTL DEF Spec

(* GetSourceTemplateMetadata never returns a template older than the       *)
(* newest one its pool was already running when the call began: not when   *)
(* groups are updated between its requests, and not when it falls back to  *)
(* the label scan.                                                         *)
THEOREM TemplateIsCurrent == Spec => []NeverStale
<1>1. IInv => NeverStale
  BY DEF IInv, CallsFresh, CallFresh, NeverStale
<1> QED
  BY <1>1, BootstrapInvariant, PTL
==============================================================================
