------------------------- MODULE InterruptionProofs -------------------------
(* Proofs about Interruption, for every set of nodes, launches and         *)
(* offerings and all TTLs that TTLAssumption allows.                       *)
EXTENDS Interruption, TLAPS

Conditions == {"ready", "preempting", "shuttingDown"}

(* Every variable has its type; a call is made for a node of the list. *)
TypeOK ==
    /\ condition \in [Nodes -> Conditions]
    /\ claim \in [Nodes -> {"live", "deleting", "none"}]
    /\ left \in [Cache!Offerings -> Nat]
    /\ launch \in [Launches -> Cache!Offerings \cup {Cache!NoOffering}]
    /\ verdicts \in SUBSET Cache!Offerings
    /\ quotaExceededTTL \in QuotaTTLs
    /\ at \in 0..Len(NodeOrder)
    /\ seen \in [Nodes -> Conditions]
    /\ called \in BOOLEAN
    /\ called => at # 0
    /\ waited \in 0..CallTime
    /\ unmarked \in SUBSET Nodes

(* The offering that the loop has marked for the node it is at. *)
Marks(o) == called /\ seen[Current] = "preempting" /\ o = OfferingOf[Current]

(* While a NodeClaim's deletion is being called, the mark of its offering  *)
(* outlasts the time the call has left: whoever replaces the entry in the  *)
(* meantime gives it a full TTL.                                           *)
MarkOutlastsCall ==
    /\ ~called => waited = 0
    /\ \A o \in Cache!Offerings : Marks(o) => left[o] + waited > CallTime
    /\ unmarked = {}
-----------------------------------------------------------------------------

(* A launch that fails leaves an entry of the cache alone or gives it a    *)
(* TTL that outlasts a call (markInsufficientCapacity, markQuotaExceeded). *)
LEMMA FailureMarks ==
    ASSUME TypeOK, NEW l \in Launches, LaunchFailed(l)
    PROVE  /\ left' \in [Cache!Offerings -> Nat]
           /\ \A o \in Cache!Offerings : left'[o] = left[o] \/ left'[o] > CallTime
           /\ verdicts' \in SUBSET Cache!Offerings
           /\ launch' \in [Launches -> Cache!Offerings \cup {Cache!NoOffering}]
           /\ quotaExceededTTL' = quotaExceededTTL
<1>1. PICK reason \in Cache!Reasons : Cache!LaunchFailed(l, reason)
  BY DEF LaunchFailed
<1>2. launch[l] \in Cache!Offerings
  BY <1>1 DEF TypeOK, Cache!LaunchFailed
<1>3. /\ verdicts' \in SUBSET Cache!Offerings
      /\ launch' \in [Launches -> Cache!Offerings \cup {Cache!NoOffering}]
      /\ quotaExceededTTL' = quotaExceededTTL
  BY <1>1, <1>2 DEF TypeOK, Cache!LaunchFailed
<1>4. CASE ~Cache!Insufficient(reason)
  BY <1>1, <1>3, <1>4 DEF TypeOK, Cache!LaunchFailed
<1>5. CASE Cache!Insufficient(reason)
  <2> DEFINE ttl == Cache!insufficientCapacityBackoffTTL(reason)
  <2>1. ttl \in Nat /\ CallTime < ttl
    BY <1>5, TTLAssumption
       DEF TypeOK, Cache!Insufficient, Cache!Reasons, Cache!TTLs,
           Cache!insufficientCapacityBackoffTTL
  <2>2. CallTime \in Nat
    BY TTLAssumption
  <2> HIDE DEF ttl
  <2>3. left' = [o \in Cache!Offerings |->
                    IF o \notin Cache!MarkedBy(launch[l], reason) THEN left[o]
                    ELSE IF ttl = 0 THEN DefaultTTL ELSE ttl]
    BY <1>1, <1>5
       DEF ttl, Cache!LaunchFailed, Cache!MarkUnavailableWithTTL, Cache!Set
  <2> QED
    BY <1>3, <2>1, <2>2, <2>3 DEF TypeOK
<1> QED
  BY <1>4, <1>5

(* A handled preemption notice gives the offering the default TTL. *)
LEMMA NoticeMarks ==
    ASSUME TypeOK, NEW o \in Cache!Offerings, Cache!Preempted(o)
    PROVE  /\ left' = [left EXCEPT ![o] = DefaultTTL]
           /\ verdicts' = verdicts \cup {o}
           /\ launch' = launch /\ quotaExceededTTL' = quotaExceededTTL
           /\ DefaultTTL \in Nat /\ CallTime < DefaultTTL
BY TTLAssumption
   DEF TypeOK, Cache!Preempted, Cache!MarkUnavailable,
       Cache!MarkUnavailableWithTTL, Cache!Set, Cache!TTLs

(* TypeOK is an invariant of the interruption controller and the launches  *)
(* that share its cache.                                                   *)
THEOREM InterruptionTypeCorrect == Spec => []TypeOK
<1>0. /\ Len(NodeOrder) \in Nat
      /\ \A i \in 1..Len(NodeOrder) : NodeOrder[i] \in Nodes
      /\ NodeOrder = <<>> \/ Len(NodeOrder) > 0
      /\ CallTime \in Nat
  BY InterruptionAssumption, TTLAssumption DEF Nodes
<1>1. Init => TypeOK
  <2>1. Init => called \in BOOLEAN
    BY Zenon DEF Init
  <2> QED
    BY <1>0, <2>1 DEF Init, TypeOK, Conditions, Cache!Init, Cache!NoOffering
<1>2. TypeOK /\ [Next]_vars => TypeOK'
  <2> SUFFICES ASSUME TypeOK, [Next]_vars PROVE TypeOK'
    OBVIOUS
  <2>0. at # 0 => Current \in Nodes
    BY <1>0 DEF TypeOK, Current
  <2> USE DEF TypeOK, Conditions
  <2>1. CASE ListNodes
    BY <2>1, <1>0 DEF ListNodes, offerings
  <2>2. CASE PassOver
    <3>1. called' \in BOOLEAN
      BY <2>2, Zenon DEF PassOver, Continue
    <3> QED
      BY <2>2, <1>0, <3>1 DEF PassOver, Continue, offerings
  <2>3. CASE Clean
    <3>1. CASE seen[Current] = "preempting" /\ OfferingOf[Current] # NoLabels
      <4>1. OfferingOf[Current] \in Cache!Offerings
        BY <2>3, <2>0, <3>1, InterruptionAssumption DEF Clean
      <4>2. Cache!Preempted(OfferingOf[Current])
        BY <2>3, <3>1 DEF Clean
      <4> QED
        BY <2>3, <4>1, <4>2, NoticeMarks DEF Clean
    <3>2. CASE ~(seen[Current] = "preempting" /\ OfferingOf[Current] # NoLabels)
      BY <2>3, <3>2 DEF Clean, offerings
    <3> QED
      BY <3>1, <3>2
  <2>4. CASE DeleteNodeClaim
    <3>1. called' \in BOOLEAN
      BY <2>4, Zenon DEF DeleteNodeClaim, Continue
    <3> QED
      BY <2>4, <1>0, <2>0, <3>1 DEF DeleteNodeClaim, Continue, offerings
  <2>5. CASE Fails
    <3>1. called' \in BOOLEAN
      BY <2>5, Zenon DEF Fails, Return
    <3> QED
      BY <2>5, <1>0, <3>1 DEF Fails, Return, offerings
  <2>6. CASE Tick
    BY <2>6, <1>0 DEF Tick, Cache!Tick
  <2>7. CASE Restart
    <3>1. called' \in BOOLEAN
      BY <2>7, Zenon DEF Restart, Return
    <3> QED
      BY <2>7, <1>0, <3>1 DEF Restart, Return, Cache!Restart, Cache!NoOffering
  <2>8. ASSUME NEW n \in Nodes, Notice(n) PROVE TypeOK'
    BY <2>8 DEF Notice, offerings, loop
  <2>9. ASSUME NEW n \in Nodes, ClaimGoes(n) PROVE TypeOK'
    BY <2>9 DEF ClaimGoes, offerings, loop
  <2>10. ASSUME NEW l \in Launches, SelectZone(l) PROVE TypeOK'
    BY <2>10 DEF SelectZone, Cache!SelectZone, loop
  <2>11. ASSUME NEW l \in Launches, LaunchFailed(l) PROVE TypeOK'
    BY <2>11, FailureMarks DEF LaunchFailed, loop
  <2>12. ASSUME NEW l \in Launches, Launched(l) PROVE TypeOK'
    BY <2>12 DEF Launched, Cache!Launched
  <2>13. CASE UNCHANGED vars
    BY <2>13 DEF vars, offerings, loop
  <2> QED
    BY <2>1, <2>2, <2>3, <2>4, <2>5, <2>6, <2>7, <2>8, <2>9, <2>10, <2>11,
       <2>12, <2>13 DEF Next, Controller
<1> QED
  BY <1>1, <1>2, PTL DEF Spec
-----------------------------------------------------------------------------

(* MarkOutlastsCall is inductive. *)
LEMMA MarkOutlastsCallInvariant == Spec => []MarkOutlastsCall
<1>0. CallTime \in Nat
  BY TTLAssumption
<1>1. Init => MarkOutlastsCall
  BY Zenon DEF Init, MarkOutlastsCall, Marks
<1>2. TypeOK /\ TypeOK' /\ MarkOutlastsCall /\ [Next]_vars => MarkOutlastsCall'
  <2> SUFFICES ASSUME TypeOK, TypeOK', MarkOutlastsCall, [Next]_vars
               PROVE  MarkOutlastsCall'
    OBVIOUS
  <2>0. at # 0 => Current \in Nodes
    BY InterruptionAssumption DEF TypeOK, Current
  (* The loop leaves a node: nothing is being called any more. *)
  <2>01. ASSUME called' = FALSE, waited' = 0, unmarked' = {}
         PROVE  MarkOutlastsCall'
    BY <2>01, Zenon DEF MarkOutlastsCall, Marks
  (* The loop stands still, and marks are only renewed. *)
  <2>02. ASSUME UNCHANGED <<at, called, waited, unmarked>>,
                \A n \in Nodes : seen'[n] = seen[n] \/ ~(called /\ Current = n),
                \A o \in Cache!Offerings : left'[o] = left[o] \/ left'[o] > CallTime
         PROVE  MarkOutlastsCall'
    <3>1. Current' = Current /\ called' = called
      BY <2>02 DEF Current
    <3>2. ASSUME NEW o \in Cache!Offerings, Marks(o)' PROVE Marks(o)
      BY <2>0, <2>02, <3>1, <3>2 DEF Marks, TypeOK
    <3>3. ASSUME NEW o \in Cache!Offerings, Marks(o)'
          PROVE  left'[o] + waited' > CallTime
      <4>1. left[o] + waited > CallTime
        BY <3>2, <3>3 DEF MarkOutlastsCall
      <4>2. left'[o] \in Nat /\ waited' = waited /\ waited \in Nat
        BY <1>0, <2>02 DEF TypeOK
      <4>3. left'[o] = left[o] \/ left'[o] > CallTime
        BY <2>02
      <4> QED
        BY <1>0, <4>1, <4>2, <4>3
    <3>4. (~called => waited = 0)' /\ unmarked' = {}
      BY <2>02 DEF MarkOutlastsCall
    <3> QED
      BY <3>3, <3>4 DEF MarkOutlastsCall
  <2>1. CASE ListNodes
    <3>1. ~called' /\ waited' = 0 /\ unmarked' = {}
      BY <2>1 DEF ListNodes, MarkOutlastsCall, TypeOK
    <3> QED
      BY <3>1, Zenon DEF MarkOutlastsCall, Marks
  <2>2. CASE PassOver
    BY <2>01, <2>2 DEF PassOver, Continue, MarkOutlastsCall
  <2>3. CASE Clean
    <3>1. called' /\ waited' = 0 /\ unmarked' = {} /\ Current' = Current /\ seen' = seen
      BY <2>3 DEF Clean, MarkOutlastsCall, Current
    <3>2. ASSUME NEW o \in Cache!Offerings, Marks(o)'
          PROVE  left'[o] + waited' > CallTime
      <4>1. seen[Current] = "preempting" /\ o = OfferingOf[Current]
        BY <3>1, <3>2 DEF Marks
      <4>2. Cache!Preempted(o)
        BY <2>3, <4>1, InterruptionAssumption DEF Clean
      <4> QED
        BY <1>0, <3>1, <4>2, NoticeMarks DEF TypeOK
    <3> QED
      BY <3>1, <3>2 DEF MarkOutlastsCall
  <2>4. CASE DeleteNodeClaim
    <3>1. Current \in Nodes
      BY <2>0, <2>4 DEF DeleteNodeClaim, TypeOK
    <3>2. CASE seen[Current] = "preempting" /\ OfferingOf[Current] # NoLabels
      <4>1. OfferingOf[Current] \in Cache!Offerings
        BY <3>1, <3>2, InterruptionAssumption
      <4>2. Marks(OfferingOf[Current])
        BY <2>4, <3>2 DEF DeleteNodeClaim, Marks
      <4>3. left[OfferingOf[Current]] + waited > CallTime
        BY <4>1, <4>2 DEF MarkOutlastsCall
      <4>4. left[OfferingOf[Current]] > 0
        BY <1>0, <4>1, <4>3 DEF TypeOK
      <4>5. unmarked' = {}
        BY <2>4, <4>4 DEF DeleteNodeClaim, Cache!IsUnavailable, MarkOutlastsCall
      <4> QED
        BY <2>01, <2>4, <4>5 DEF DeleteNodeClaim, Continue
    <3>3. CASE ~(seen[Current] = "preempting" /\ OfferingOf[Current] # NoLabels)
      <4>1. unmarked' = {}
        BY <2>4, <3>3 DEF DeleteNodeClaim, MarkOutlastsCall
      <4> QED
        BY <2>01, <2>4, <4>1 DEF DeleteNodeClaim, Continue
    <3> QED
      BY <3>2, <3>3
  <2>5. CASE Fails
    BY <2>01, <2>5 DEF Fails, Return, MarkOutlastsCall
  <2>6. CASE Tick
    <3>1. Current' = Current /\ called' = called /\ seen' = seen /\ unmarked' = {}
      BY <2>6 DEF Tick, Current, MarkOutlastsCall
    <3>2. (~called => waited = 0)'
      BY <2>6, <3>1 DEF Tick, MarkOutlastsCall
    <3>3. ASSUME NEW o \in Cache!Offerings, Marks(o)'
          PROVE  left'[o] + waited' > CallTime
      <4>1. Marks(o) /\ called
        BY <3>1, <3>3 DEF Marks
      <4>2. left[o] + waited > CallTime /\ waited < CallTime
        BY <2>6, <4>1 DEF Tick, MarkOutlastsCall
      <4>3. waited' = waited + 1 /\ left'[o] = IF left[o] > 0 THEN left[o] - 1 ELSE 0
        BY <2>6, <4>1 DEF Tick, Cache!Tick
      <4> QED
        BY <1>0, <4>2, <4>3 DEF TypeOK
    <3> QED
      BY <3>1, <3>2, <3>3 DEF MarkOutlastsCall
  <2>7. CASE Restart
    BY <2>01, <2>7 DEF Restart, Return, MarkOutlastsCall
  <2>8. ASSUME NEW n \in Nodes, Notice(n) PROVE MarkOutlastsCall'
    BY <2>02, <2>8 DEF Notice, offerings, loop
  <2>9. ASSUME NEW n \in Nodes, ClaimGoes(n) PROVE MarkOutlastsCall'
    BY <2>02, <2>9 DEF ClaimGoes, offerings, loop
  <2>10. ASSUME NEW l \in Launches, SelectZone(l) PROVE MarkOutlastsCall'
    BY <2>02, <2>10 DEF SelectZone, Cache!SelectZone, loop
  <2>11. ASSUME NEW l \in Launches, LaunchFailed(l) PROVE MarkOutlastsCall'
    BY <2>02, <2>11, FailureMarks DEF LaunchFailed, loop
  <2>12. ASSUME NEW l \in Launches, Launched(l) PROVE MarkOutlastsCall'
    BY <2>02, <2>12 DEF Launched, Cache!Launched, TypeOK
  <2>13. CASE UNCHANGED vars
    BY <2>02, <2>13 DEF vars, offerings, loop
  <2> QED
    BY <2>1, <2>2, <2>3, <2>4, <2>5, <2>6, <2>7, <2>8, <2>9, <2>10, <2>11,
       <2>12, <2>13 DEF Next, Controller
<1> QED
  BY <1>1, <1>2, InterruptionTypeCorrect, PTL DEF Spec

(* Whenever the interruption controller deletes the NodeClaim of a         *)
(* preempted node, the offering is unavailable (cleanNodeClaimByInstanceName *)
(* marks it before the deletion), whatever launches do to the entry.       *)
THEOREM PreemptionIsMarked == Spec => []MarkedWhenDeleted
<1>1. MarkOutlastsCall => MarkedWhenDeleted
  BY DEF MarkOutlastsCall, MarkedWhenDeleted
<1> QED
  BY <1>1, MarkOutlastsCallInvariant, PTL

(* While the option QuotaExceededTTL is 0 no entry of the cache stems from *)
(* a quota failure alone: every unavailable offering got another verdict   *)
(* (createInstanceWithPodRanges, insufficientCapacityBackoffTTL).          *)
THEOREM QuotaBackoffDisabled == Spec => []ZeroDisablesQuotaBackoff
<1> USE DEF ZeroDisablesQuotaBackoff, Cache!IsUnavailable
<1>1. Init => ZeroDisablesQuotaBackoff
  BY DEF Init, Cache!Init
<1>2. TypeOK /\ ZeroDisablesQuotaBackoff /\ [Next]_vars => ZeroDisablesQuotaBackoff'
  <2> SUFFICES ASSUME TypeOK, ZeroDisablesQuotaBackoff, [Next]_vars
               PROVE  ZeroDisablesQuotaBackoff'
    OBVIOUS
  <2>1. ASSUME UNCHANGED <<left, verdicts, quotaExceededTTL>>
        PROVE  ZeroDisablesQuotaBackoff'
    BY <2>1
  <2>2. CASE Clean
    <3>1. CASE seen[Current] = "preempting" /\ OfferingOf[Current] # NoLabels
      <4>1. OfferingOf[Current] \in Cache!Offerings
        <5>1. Current \in Nodes
          BY <2>2, InterruptionAssumption DEF Clean, TypeOK, Current
        <5> QED
          BY <3>1, <5>1, InterruptionAssumption
      <4>2. Cache!Preempted(OfferingOf[Current])
        BY <2>2, <3>1 DEF Clean
      <4> QED
        BY <4>1, <4>2, NoticeMarks DEF TypeOK
    <3>2. CASE ~(seen[Current] = "preempting" /\ OfferingOf[Current] # NoLabels)
      BY <2>1, <2>2, <3>2 DEF Clean, offerings
    <3> QED
      BY <3>1, <3>2
  <2>3. ASSUME NEW l \in Launches, LaunchFailed(l)
        PROVE  ZeroDisablesQuotaBackoff'
    <3>0. SUFFICES ASSUME quotaExceededTTL = 0
                   PROVE  \A o \in Cache!Offerings : left'[o] > 0 => o \in verdicts'
      BY <2>3, FailureMarks
    <3>1. PICK reason \in Cache!Reasons : Cache!LaunchFailed(l, reason)
      BY <2>3 DEF LaunchFailed
    <3>2. CASE ~Cache!Insufficient(reason)
      BY <3>0, <3>1, <3>2 DEF Cache!LaunchFailed
    <3>3. CASE Cache!Insufficient(reason)
      <4>1. reason \notin {"quota", "error"}
        BY <3>0, <3>3 DEF Cache!Insufficient
      <4>2. verdicts' = verdicts \cup {launch[l]}
        BY <3>1, <4>1 DEF Cache!LaunchFailed
      <4>3. Cache!MarkedBy(launch[l], reason) = {launch[l]}
        BY <4>1 DEF Cache!MarkedBy
      <4>4. \A o \in Cache!Offerings : o = launch[l] \/ left'[o] = left[o]
        BY <3>1, <3>3, <4>3
           DEF Cache!LaunchFailed, Cache!MarkUnavailableWithTTL, Cache!Set
      <4> QED
        BY <3>0, <4>2, <4>4
    <3> QED
      BY <3>2, <3>3
  <2>4. CASE Tick
    BY <2>4 DEF Tick, Cache!Tick, TypeOK
  <2>5. CASE Restart
    BY <2>5 DEF Restart, Cache!Restart
  <2> QED
    BY <2>1, <2>2, <2>3, <2>4, <2>5
       DEF Next, Controller, ListNodes, PassOver, DeleteNodeClaim, Fails,
           Notice, ClaimGoes, SelectZone, Cache!SelectZone, Launched,
           Cache!Launched, vars, offerings
<1> QED
  BY <1>1, <1>2, InterruptionTypeCorrect, PTL DEF Spec
=============================================================================
