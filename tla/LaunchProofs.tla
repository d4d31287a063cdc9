---------------------------- MODULE LaunchProofs ----------------------------
(* Proofs about Launch, for every set of claims, types and zones, every    *)
(* catalogue and every bound.                                              *)
EXTENDS Launch, TLAPS

(* Ending a call or noting a disturbance keeps the record well formed. *)
LEMMA ReturnFacts ==
    ASSUME NEW r \in Calls, NEW result \in Results
    PROVE  /\ Return(r, result) \in Calls
           /\ Return(r, result).pc = "returned"
           /\ Return(r, result).result = result
           /\ Return(r, result).zone = r.zone
           /\ Return(r, result).attempted = r.attempted
  BY DEF Return, Calls, Steps

(* Disturb changes nothing but the history of a call. *)
LEMMA DisturbFacts ==
    ASSUME NEW r \in Calls
    PROVE  /\ Disturb(r) \in Calls
           /\ Disturb(r).pc = r.pc
           /\ Disturb(r).type = r.type
           /\ Disturb(r).zone = r.zone
           /\ Disturb(r).ranges = r.ranges
           /\ Disturb(r).attempted = r.attempted
  BY DEF Disturb, Calls

(* A call tries only known instance types. *)
LEMMA LaunchTypesFacts ==
    ASSUME NEW c \in Claims
    PROVE  LaunchTypes(c) \subseteq Types
  BY DEF LaunchTypes, resolveInstanceTypes

(* After a retryable error the call goes on with another instance type, or *)
(* ends without a VM, and remembers the zone it tried.                     *)
LEMMA TypeFailedFacts ==
    ASSUME NEW c \in Claims, NEW r \in Calls, NEW zone \in Zones \cup {NoZone},
           NEW kind \in {"ice", "other"}
    PROVE  LET n == TypeFailed(c, r, zone, kind) IN
           /\ n \in Calls
           /\ \/ n.pc = "select"
              \/ n.pc = "returned" /\ n.result \in {"ice", "error"}
           /\ n.attempted = r.attempted \cup ({zone} \ {NoZone})
<1> DEFINE todo == r.todo \ {r.type}
           attempted == r.attempted \cup ({zone} \ {NoZone})
           errs == r.errs \cup {kind}
           next == [r EXCEPT !.todo = todo, !.errs = errs, !.pc = "select",
                             !.attempted = attempted]
           back == [next EXCEPT !.ct = "on-demand", !.fellBack = TRUE,
                                !.errs = {}, !.todo = LaunchTypes(c)]
<1>1. /\ next \in Calls
      /\ next.pc = "select"
      /\ next.attempted = r.attempted \cup ({zone} \ {NoZone})
  BY DEF Calls, Steps
<1>2. /\ back \in Calls
      /\ back.pc = "select"
      /\ back.attempted = next.attempted
  <2> HIDE DEF next
  <2> QED
    BY <1>1, LaunchTypesFacts DEF Calls, CapacityTypes
<1>3. \A result \in {"ice", "error"} :
        /\ Return(next, result) \in Calls
        /\ Return(next, result).pc = "returned"
        /\ Return(next, result).result = result
        /\ Return(next, result).attempted = next.attempted
  <2> HIDE DEF next
  <2> QED
    BY <1>1, ReturnFacts DEF Results
<1>4. TypeFailed(c, r, zone, kind) =
        IF todo # {} THEN next
        ELSE IF MayFallBack(c, errs) THEN back
        ELSE Return(next, IF "ice" \in errs THEN "ice" ELSE "error")
  BY DEF TypeFailed, GoOn
<1> HIDE DEF next, back, todo, errs
<1> QED
  BY <1>1, <1>2, <1>3, <1>4

(* A failed insert or wait leads to the next pod range, to the next        *)
(* instance type or to the end of the call without a VM.                   *)
LEMMA AttemptFailedFacts ==
    ASSUME NEW c \in Claims, call[c] \in Calls, NEW reason \in Reasons
    PROVE  LET n == AttemptFailed(c, reason) IN
           /\ n \in Calls
           /\ \/ /\ n.pc = "insert"
                 /\ reason = "ip"
                 /\ n.type = call[c].type
                 /\ n.zone = call[c].zone
              \/ /\ n.pc = "select"
                 /\ n.attempted = call[c].attempted
                                    \cup ({call[c].zone} \ {NoZone})
              \/ n.pc = "returned" /\ n.result \in {"ice", "error"}
<1> DEFINE r == [call[c] EXCEPT !.operation = "none",
                                !.evicted = @ \/ Marks(c, reason) # {}]
           again == [r EXCEPT !.pc = "insert", !.ranges = @ - 1]
<1>1. /\ r \in Calls
      /\ r.pc = call[c].pc
      /\ r.type = call[c].type
      /\ r.zone = call[c].zone
      /\ r.ranges = call[c].ranges
      /\ r.attempted = call[c].attempted
  BY DEF Calls
<1>2. r.zone \in Zones \cup {NoZone} /\ r.ranges \in Nat
  BY <1>1 DEF Calls
<1> HIDE DEF r
<1>3. Disturb(r) \in Calls /\ Disturb(r).attempted = r.attempted
  BY <1>1, DisturbFacts
<1>4. CASE reason = "ip" /\ r.ranges > 1
  <2>1. AttemptFailed(c, reason) = again
    BY <1>4 DEF AttemptFailed, r
  <2>2. \A k \in Nat :
            LET n == [r EXCEPT !.pc = "insert", !.ranges = k] IN
            n \in Calls /\ n.pc = "insert" /\ n.type = r.type /\ n.zone = r.zone
    BY <1>1 DEF Calls, Steps
  <2>3. r.ranges - 1 \in Nat
    BY <1>2, <1>4
  <2>4. again \in Calls /\ again.pc = "insert" /\ again.type = r.type
        /\ again.zone = r.zone
    BY <2>2, <2>3
  <2> QED
    BY <1>1, <1>4, <2>1, <2>4
<1>5. CASE reason = "ip" /\ ~(r.ranges > 1)
  <2>1. AttemptFailed(c, reason) = Return(Disturb(r), "ice")
    BY <1>5 DEF AttemptFailed, r
  <2> QED
    BY <1>3, <2>1, ReturnFacts DEF Results
<1>6. CASE reason = "notReady"
  <2>1. AttemptFailed(c, reason) = Return(Disturb(r), "error")
    BY <1>6 DEF AttemptFailed, r
  <2> QED
    BY <1>3, <2>1, ReturnFacts DEF Results
<1>7. CASE reason \in {"quota", "stockout", "error"}
  <2>1. \/ AttemptFailed(c, reason) = TypeFailed(c, r, r.zone, "ice")
        \/ AttemptFailed(c, reason) = TypeFailed(c, r, r.zone, "other")
        \/ AttemptFailed(c, reason) = TypeFailed(c, Disturb(r), r.zone, "other")
    BY <1>7 DEF AttemptFailed, r
  <2> QED
    BY <1>1, <1>2, <1>3, <2>1, TypeFailedFacts
<1> QED
  BY <1>2, <1>4, <1>5, <1>6, <1>7 DEF Reasons

(* Only offerings are marked, as long as the call has an instance type and *)
(* fails for lack of capacity in a zone.                                   *)
LEMMA MarksFacts ==
    ASSUME NEW c \in Claims, call[c] \in Calls, NEW reason \in Reasons,
           call[c].type \in Types,
           call[c].zone \in Zones \/ reason = "error"
    PROVE  Marks(c, reason) \subseteq Offerings
  BY LaunchAssumption DEF Marks, Insufficient, Offerings, CapacityTypes, Calls

(* A step that changes only claim c has to be examined for c only. *)
LEMMA OtherClaims ==
    ASSUME TypeOK, Accounted, NEW c \in Claims,
           NEW r, call' = [call EXCEPT ![c] = r],
           \A d \in Claims \ {c} : vm'[d] = vm[d] /\ node'[d] = node[d],
           blind \subseteq blind',
           AccountedFor(c)'
    PROVE  Accounted'
<1> SUFFICES ASSUME NEW d \in Claims, d # c PROVE AccountedFor(d)'
  BY DEF Accounted
<1>1. call'[d] = call[d] /\ vm'[d] = vm[d] /\ node'[d] = node[d]
  BY DEF TypeOK
<1>2. VMs(d)' = VMs(d)
  BY <1>1 DEF VMs
<1>3. d \notin blind' => d \notin blind
  OBVIOUS
<1>4. AccountedFor(d)
  BY DEF Accounted
<1> QED
  BY <1>1, <1>2, <1>3, <1>4 DEF AccountedFor

(* What a step of a call has to establish about the new call record r when *)
(* it changes no VM and no stored NodeClaim.                               *)
LEMMA CallStep ==
    ASSUME TypeOK, Accounted, NEW c \in Claims, NEW r \in Calls, Become(c, r),
           UNCHANGED <<vm, node, restarts>>,
           creates' \in [Claims -> 0..MaxCreates],
           ice' \subseteq Offerings,
           blind' \in {blind, blind \cup {c}},
           node[c].status # "launched",
           r.pc \in {"bootstrap", "check", "insert", "wait"} => r.type \in Types,
           r.pc = "wait" => r.zone \in Zones,
           c \notin blind' =>
            /\ r.pc \in {"select", "bootstrap", "check"} =>
                    VMs(c) \subseteq r.attempted
            /\ r.pc = "insert" => VMs(c) = {}
            /\ r.pc = "wait" => /\ VMs(c) \subseteq {r.zone}
                                /\ r.operation \in Reasons => VMs(c) = {}
            /\ r.pc \in {"resolve", "returned"}
               /\ r.result \in {"created", "adopted"} =>
                    VMs(c) \subseteq {r.zone}
    PROVE  TypeOK' /\ Accounted'
<1>1. call' \in [Claims -> Calls] /\ call'[c] = r
  BY DEF TypeOK, Become
<1>2. TypeOK'
  BY <1>1 DEF TypeOK
<1>3. VMs(c)' = VMs(c)
  BY DEF VMs
<1>4. AccountedFor(c)'
  <2>1. AccountedFor(c)
    BY DEF Accounted
  <2>2. node'[c] = node[c] /\ (c \notin blind' => c \notin blind)
    OBVIOUS
  <2> QED
    BY <1>1, <1>3, <2>1, <2>2 DEF AccountedFor
<1>5. Accounted'
  <2>1. call' = [call EXCEPT ![c] = r] /\ blind \subseteq blind'
    BY DEF Become
  <2> QED
    BY <1>4, <2>1, OtherClaims
<1> QED
  BY <1>2, <1>5

(* A NodeClaim without a call, and a call that is refused at once. *)
LEMMA NoCallFacts ==
    /\ NoCall \in Calls
    /\ NoCall.pc = "idle"
    /\ \A result \in Results : /\ Return(NoCall, result) \in Calls
                               /\ Return(NoCall, result).pc = "returned"
                               /\ Return(NoCall, result).result = result
<1>1. NoCall \in Calls /\ NoCall.pc = "idle"
  BY DEF NoCall, Calls, Steps, Results, CapacityTypes
<1> QED
  BY <1>1, ReturnFacts

(* CloudProvider.Create is called for a NodeClaim without a running call. *)
LEMMA StartSteps ==
    ASSUME TypeOK, Accounted, NEW c \in Claims,
           CreateRefused(c) \/ CreateAdopting(c) \/ CreateLaunching(c)
    PROVE  TypeOK' /\ Accounted'
<1>1. Calling(c)
  BY DEF CreateRefused, CreateAdopting, CreateLaunching
<1>2. /\ UNCHANGED <<vm, node, restarts>>
      /\ creates' \in [Claims -> 0..MaxCreates]
      /\ ice' \subseteq Offerings
      /\ blind' = blind
      /\ node[c].status # "launched"
  <2>1. creates' \in [Claims -> 0..MaxCreates]
    BY <1>1, LaunchAssumption DEF Calling, TypeOK
  <2> QED
    BY <1>1, <2>1 DEF Calling, TypeOK
<1>3. \E r \in Calls :
        /\ Become(c, r)
        /\ \/ r.pc = "returned" /\ r.result \in {"ice", "notReady", "error"}
           \/ r.pc \in {"adoptOnly", "adopt"}
  <2>1. CASE CreateRefused(c)
    BY <2>1, NoCallFacts DEF CreateRefused, Results
  <2>2. CASE CreateAdopting(c)
    <3> DEFINE r == [NoCall EXCEPT !.pc = "adoptOnly"]
    <3>1. r \in Calls /\ r.pc = "adoptOnly"
      BY NoCallFacts DEF Calls, Steps
    <3> QED
      BY <2>2, <3>1 DEF CreateAdopting
  <2>3. CASE CreateLaunching(c)
    <3> DEFINE r == [NoCall EXCEPT !.pc = "adopt", !.avail = Offered \ ice]
    <3>1. r \in Calls /\ r.pc = "adopt"
      BY NoCallFacts, LaunchAssumption DEF Calls, Steps
    <3>2. Become(c, r) \/ Become(c, Return(NoCall, "ice"))
      BY <2>3 DEF CreateLaunching
    <3> QED
      BY <3>1, <3>2, NoCallFacts DEF Results
  <2> QED
    BY <2>1, <2>2, <2>3
<1> QED
  BY <1>2, <1>3, CallStep

(* While a call runs its NodeClaim is not launched. *)
LEMMA RunningFacts ==
    ASSUME TypeOK, Accounted, NEW c \in Claims, call[c].pc # "idle"
    PROVE  /\ call[c] \in Calls
           /\ node[c].status # "launched"
           /\ creates \in [Claims -> 0..MaxCreates]
           /\ ice \subseteq Offerings
           /\ AccountedFor(c)
<1>1. AccountedFor(c)
  BY DEF Accounted
<1> QED
  BY <1>1 DEF TypeOK, AccountedFor

(* A call that adopts a VM goes on to resolve its type. *)
LEMMA AdoptedFacts ==
    ASSUME NEW c \in Claims, call[c] \in Calls, NEW z \in Zones
    PROVE  /\ Adopted(c, z) \in Calls
           /\ Adopted(c, z).pc = "resolve"
           /\ Adopted(c, z).zone = z
  BY DEF Adopted, Calls, Steps, Results

(* The lookup of a NodeClass that is not ready. *)
LEMMA AdoptOnlyStep ==
    ASSUME TypeOK, Accounted, NEW c \in Claims, AdoptOnly(c)
    PROVE  TypeOK' /\ Accounted'
<1>1. call[c].pc = "adoptOnly"
  BY DEF AdoptOnly
<1>2. /\ call[c] \in Calls
      /\ node[c].status # "launched"
      /\ creates \in [Claims -> 0..MaxCreates]
      /\ ice \subseteq Offerings
      /\ AccountedFor(c)
  BY <1>1, RunningFacts
<1>3. UNCHANGED <<vm, ice, node, creates, restarts, blind>>
  BY DEF AdoptOnly
<1>4. CASE \E z \in VMs(c) : Become(c, Adopted(c, z))
  <2>1. PICK z \in VMs(c) : Become(c, Adopted(c, z))
    BY <1>4
  <2>2. z \in Zones
    BY DEF VMs
  <2>3. c \notin blind => VMs(c) \subseteq {z}
    BY <1>2 DEF AccountedFor
  <2> QED
    BY <1>2, <1>3, <2>1, <2>2, <2>3, AdoptedFacts, CallStep
<1>5. CASE \E result \in {"notReady", "error"} : Become(c, Return(call[c], result))
  <2>1. PICK result \in {"notReady", "error"} : Become(c, Return(call[c], result))
    BY <1>5
  <2>2. /\ Return(call[c], result) \in Calls
        /\ Return(call[c], result).pc = "returned"
        /\ Return(call[c], result).result = result
    BY <1>2, ReturnFacts DEF Results
  <2> QED
    BY <1>2, <1>3, <2>1, <2>2, CallStep
<1> QED
  BY <1>4, <1>5 DEF AdoptOnly

(* The loop starts with no VM in sight, or with a failed lookup. *)
LEMMA BeginLoopFacts ==
    ASSUME NEW c \in Claims, call[c] \in Calls, BeginLoop(c)
    PROVE  \E r \in Calls : /\ Become(c, r)
                            /\ \/ r.pc = "returned" /\ r.result = "ice"
                               \/ r.pc = "select"
<1> DEFINE r == [call[c] EXCEPT !.pc = "select", !.ct = getCapacityType(c),
                                !.todo = LaunchTypes(c)]
<1>1. r \in Calls /\ r.pc = "select"
  BY LaunchTypesFacts DEF Calls, Steps, CapacityTypes, getCapacityType
<1>2. /\ Return(call[c], "ice") \in Calls
      /\ Return(call[c], "ice").pc = "returned"
      /\ Return(call[c], "ice").result = "ice"
  BY ReturnFacts DEF Results
<1>3. Become(c, r) \/ Become(c, Return(call[c], "ice"))
  BY DEF BeginLoop
<1> HIDE DEF r
<1> QED
  BY <1>1, <1>2, <1>3

(* The region-wide lookup before a launch. *)
LEMMA AdoptStep ==
    ASSUME TypeOK, Accounted, NEW c \in Claims, Adopt(c)
    PROVE  TypeOK' /\ Accounted'
<1>1. call[c].pc = "adopt"
  BY DEF Adopt
<1>2. /\ call[c] \in Calls
      /\ node[c].status # "launched"
      /\ creates \in [Claims -> 0..MaxCreates]
      /\ ice \subseteq Offerings
      /\ AccountedFor(c)
  BY <1>1, RunningFacts
<1>3. UNCHANGED <<vm, ice, node, creates, restarts>>
  BY DEF Adopt
<1>4. CASE \E z \in VMs(c) : Become(c, Adopted(c, z)) /\ UNCHANGED blind
  <2>1. PICK z \in VMs(c) : Become(c, Adopted(c, z)) /\ UNCHANGED blind
    BY <1>4
  <2>2. z \in Zones
    BY DEF VMs
  <2>3. c \notin blind => VMs(c) \subseteq {z}
    BY <1>2 DEF AccountedFor
  <2> QED
    BY <1>2, <1>3, <2>1, <2>2, <2>3, AdoptedFacts, CallStep
<1>5. CASE VMs(c) = {} /\ BeginLoop(c) /\ UNCHANGED blind
  BY <1>2, <1>3, <1>5, BeginLoopFacts, CallStep
<1>6. CASE BeginLoop(c) /\ blind' = blind \cup {c}
  BY <1>2, <1>3, <1>6, BeginLoopFacts, CallStep
<1> QED
  BY <1>4, <1>5, <1>6 DEF Adopt

(* The choice of an instance type and its zone. *)
LEMMA SelectZoneStep ==
    ASSUME TypeOK, Accounted, NEW c \in Claims, SelectZone(c)
    PROVE  TypeOK' /\ Accounted'
<1>1. call[c].pc = "select"
  BY DEF SelectZone
<1>2. /\ call[c] \in Calls
      /\ node[c].status # "launched"
      /\ creates \in [Claims -> 0..MaxCreates]
      /\ ice \subseteq Offerings
      /\ AccountedFor(c)
  BY <1>1, RunningFacts
<1>3. UNCHANGED <<vm, ice, node, creates, restarts, blind>>
  BY DEF SelectZone
<1>4. c \notin blind => VMs(c) \subseteq call[c].attempted
  BY <1>1, <1>2 DEF AccountedFor
<1> DEFINE r(t) == [call[c] EXCEPT !.type = t]
           chosen(t, z) == [r(t) EXCEPT !.pc = "bootstrap", !.zone = z]
<1>5. ASSUME NEW t \in Types
      PROVE  /\ r(t) \in Calls
             /\ r(t).attempted = call[c].attempted
             /\ \A z \in Zones \cup {NoZone} :
                    /\ chosen(t, z) \in Calls
                    /\ chosen(t, z).pc = "bootstrap"
                    /\ chosen(t, z).type = t
                    /\ chosen(t, z).attempted = call[c].attempted
  BY <1>2 DEF Calls, Steps
<1>6. PICK t \in NextTypes(c) :
        \/ Become(c, TypeFailed(c, Disturb(r(t)), NoZone, "other"))
        \/ Become(c, TypeFailed(c, r(t), NoZone, "ice"))
        \/ \E z \in Zones \cup {NoZone} : Become(c, chosen(t, z))
  <2>1. filterZonesByRequirement(c) \subseteq Zones
    BY LaunchAssumption DEF filterZonesByRequirement
  <2>2. \A t, zones : zones \subseteq Zones =>
            cheapestCompatibleZone(c, t, zones) \subseteq Zones \cup {NoZone}
    BY DEF cheapestCompatibleZone
  <2> QED
    BY <2>1, <2>2 DEF SelectZone
<1>7. t \in Types
  BY <1>2 DEF NextTypes, Calls
<1> HIDE DEF r, chosen
<1>8. CASE Become(c, TypeFailed(c, Disturb(r(t)), NoZone, "other"))
  <2>1. Disturb(r(t)) \in Calls /\ Disturb(r(t)).attempted = call[c].attempted
    BY <1>5, <1>7, DisturbFacts
  <2> QED
    BY <1>2, <1>3, <1>4, <1>8, <2>1, TypeFailedFacts, CallStep
<1>9. CASE Become(c, TypeFailed(c, r(t), NoZone, "ice"))
  BY <1>2, <1>3, <1>4, <1>5, <1>7, <1>9, TypeFailedFacts, CallStep
<1>10. CASE \E z \in Zones \cup {NoZone} : Become(c, chosen(t, z))
  BY <1>2, <1>3, <1>4, <1>5, <1>7, <1>10, CallStep
<1> QED
  BY <1>6, <1>8, <1>9, <1>10

(* The reads that a launch needs before the insert. *)
LEMMA BootstrapStep ==
    ASSUME TypeOK, Accounted, NEW c \in Claims, Bootstrap(c)
    PROVE  TypeOK' /\ Accounted'
<1>1. call[c].pc = "bootstrap"
  BY DEF Bootstrap
<1>2. /\ call[c] \in Calls
      /\ node[c].status # "launched"
      /\ creates \in [Claims -> 0..MaxCreates]
      /\ ice \subseteq Offerings
      /\ AccountedFor(c)
  BY <1>1, RunningFacts
<1>3. UNCHANGED <<vm, ice, node, creates, restarts, blind>>
  BY DEF Bootstrap
<1>4. /\ call[c].type \in Types
      /\ c \notin blind => VMs(c) \subseteq call[c].attempted
  BY <1>1, <1>2 DEF AccountedFor
<1>5. CASE Become(c, [call[c] EXCEPT !.pc = "check"])
  <2> DEFINE r == [call[c] EXCEPT !.pc = "check"]
  <2>1. /\ r \in Calls
        /\ r.pc = "check"
        /\ r.type = call[c].type
        /\ r.attempted = call[c].attempted
    BY <1>2 DEF Calls, Steps
  <2>2. Become(c, r)
    BY <1>5
  <2> HIDE DEF r
  <2> QED
    BY <1>2, <1>3, <1>4, <2>1, <2>2, CallStep
<1>6. CASE Become(c, TypeFailed(c, Disturb(call[c]), call[c].zone, "other"))
  <2>1. /\ Disturb(call[c]) \in Calls
        /\ Disturb(call[c]).attempted = call[c].attempted
    BY <1>2, DisturbFacts
  <2>2. call[c].zone \in Zones \cup {NoZone}
    BY <1>2 DEF Calls
  <2> QED
    BY <1>2, <1>3, <1>4, <1>6, <2>1, <2>2, TypeFailedFacts, CallStep
<1> QED
  BY <1>5, <1>6 DEF Bootstrap

(* The lookup in the zones attempted so far. *)
LEMMA CheckStep ==
    ASSUME TypeOK, Accounted, NEW c \in Claims, Check(c)
    PROVE  TypeOK' /\ Accounted'
<1>1. call[c].pc = "check"
  BY DEF Check
<1>2. /\ call[c] \in Calls
      /\ node[c].status # "launched"
      /\ creates \in [Claims -> 0..MaxCreates]
      /\ ice \subseteq Offerings
      /\ AccountedFor(c)
  BY <1>1, RunningFacts
<1>3. UNCHANGED <<vm, ice, node, creates, restarts, blind>>
  BY DEF Check
<1>4. /\ call[c].type \in Types
      /\ c \notin blind => VMs(c) \subseteq call[c].attempted
  BY <1>1, <1>2 DEF AccountedFor
<1>5. CASE \E z \in VMs(c) : Become(c, Adopted(c, z))
  <2>1. PICK z \in VMs(c) : Become(c, Adopted(c, z))
    BY <1>5
  <2>2. z \in Zones
    BY DEF VMs
  <2>3. c \notin blind => VMs(c) \subseteq {z}
    BY <1>2 DEF AccountedFor
  <2> QED
    BY <1>2, <1>3, <2>1, <2>2, <2>3, AdoptedFacts, CallStep
<1>6. CASE /\ VMs(c) \cap ({call[c].zone} \cup call[c].attempted) = {}
           /\ Become(c, [call[c] EXCEPT !.pc = "insert", !.ranges = Ranges,
                                        !.evicted = FALSE])
  <2> DEFINE r == [call[c] EXCEPT !.pc = "insert", !.ranges = Ranges,
                                  !.evicted = FALSE]
  <2>1. r \in Calls /\ r.pc = "insert" /\ r.type = call[c].type
    <3>1. Ranges \in Nat
      BY LaunchAssumption
    <3> QED
      BY <1>2, <3>1 DEF Calls, Steps
  <2>2. Become(c, r)
    BY <1>6
  <2>3. c \notin blind => VMs(c) = {}
    BY <1>4, <1>6
  <2> HIDE DEF r
  <2> QED
    BY <1>2, <1>3, <1>4, <2>1, <2>2, <2>3, CallStep
<1>7. CASE Become(c, Return(Disturb(call[c]), "error"))
  <2>1. LET r == Return(Disturb(call[c]), "error") IN
        r \in Calls /\ r.pc = "returned" /\ r.result = "error"
    BY <1>2, DisturbFacts, ReturnFacts DEF Results
  <2> QED
    BY <1>2, <1>3, <1>7, <2>1, CallStep
<1> QED
  BY <1>5, <1>6, <1>7 DEF Check

(* A failed insert or wait whose VM, if it has one, is in the zone of the  *)
(* attempt.                                                                *)
LEMMA FailsStep ==
    ASSUME TypeOK, Accounted, NEW c \in Claims, NEW reason \in Reasons,
           call[c].pc \in {"insert", "wait"},
           Fails(c, reason),
           UNCHANGED <<vm, node, creates, restarts, blind>>,
           call[c].zone \in Zones \/ reason = "error",
           c \notin blind => /\ VMs(c) \subseteq {call[c].zone}
                             /\ reason = "ip" => VMs(c) = {}
    PROVE  TypeOK' /\ Accounted'
<1>1. call[c].pc # "idle"
  OBVIOUS
<1>2. /\ call[c] \in Calls
      /\ node[c].status # "launched"
      /\ creates \in [Claims -> 0..MaxCreates]
      /\ ice \subseteq Offerings
      /\ AccountedFor(c)
  BY <1>1, RunningFacts
<1>3. call[c].type \in Types
  BY <1>2 DEF AccountedFor
<1>4. ice' \subseteq Offerings
  BY <1>2, <1>3, MarksFacts DEF Fails
<1>5. Become(c, AttemptFailed(c, reason))
  BY DEF Fails
<1>6. NoZone \notin VMs(c)
  BY LaunchAssumption DEF VMs
<1>7. c \notin blind => VMs(c) \subseteq call[c].attempted
                                            \cup ({call[c].zone} \ {NoZone})
  BY <1>6
<1> QED
  BY <1>2, <1>3, <1>4, <1>5, <1>7, AttemptFailedFacts, CallStep

(* GCE accepts an insert, and the call waits, goes on or ends. *)
LEMMA InsertedStep ==
    ASSUME TypeOK, Accounted, NEW c \in Claims, NEW r \in Calls, Become(c, r),
           call[c].pc = "insert",
           call[c].zone \in Zones,
           vm' = [vm EXCEPT ![c][call[c].zone] = "provisioning"],
           UNCHANGED <<node, creates, restarts, blind>>,
           ice' \subseteq Offerings,
           \/ /\ r.pc = "wait"
              /\ r.type \in Types
              /\ r.zone = call[c].zone
              /\ r.operation = "running"
           \/ r.pc = "select" /\ call[c].zone \in r.attempted
           \/ r.pc = "returned" /\ r.result \in {"ice", "error"}
    PROVE  TypeOK' /\ Accounted'
<1>1. call[c].pc # "idle"
  OBVIOUS
<1>2. /\ call[c] \in Calls
      /\ node[c].status # "launched"
      /\ creates \in [Claims -> 0..MaxCreates]
      /\ ice \subseteq Offerings
      /\ AccountedFor(c)
  BY <1>1, RunningFacts
<1>3. call' \in [Claims -> Calls] /\ call'[c] = r
  BY DEF TypeOK, Become
<1>4. vm' \in [Claims -> [Zones -> {"none", "provisioning", "running"}]]
  BY DEF TypeOK
<1>5. TypeOK'
  BY <1>3, <1>4 DEF TypeOK
<1>6. VMs(c)' \subseteq VMs(c) \cup {call[c].zone}
  BY DEF VMs, TypeOK
<1>7. c \notin blind' => VMs(c)' \subseteq {call[c].zone}
  BY <1>2, <1>6 DEF AccountedFor
<1>8. AccountedFor(c)'
  <2>1. node'[c].status # "launched"
    BY <1>2
  <2>2. "running" \notin Reasons
    BY DEF Reasons
  <2> QED
    BY <1>3, <1>7, <2>1, <2>2 DEF AccountedFor
<1>9. Accounted'
  <2>1. call' = [call EXCEPT ![c] = r] /\ blind \subseteq blind'
    BY DEF Become
  <2>2. \A d \in Claims \ {c} : vm'[d] = vm[d] /\ node'[d] = node[d]
    BY DEF TypeOK
  <2> QED
    BY <1>8, <2>1, <2>2, OtherClaims
<1> QED
  BY <1>5, <1>9

(* The insert and its errors. *)
LEMMA InsertStep ==
    ASSUME TypeOK, Accounted, NEW c \in Claims, Insert(c)
    PROVE  TypeOK' /\ Accounted'
<1>1. call[c].pc = "insert"
  BY DEF Insert
<1>2. /\ call[c] \in Calls
      /\ node[c].status # "launched"
      /\ creates \in [Claims -> 0..MaxCreates]
      /\ ice \subseteq Offerings
      /\ AccountedFor(c)
  BY <1>1, RunningFacts
<1>3. UNCHANGED <<node, creates, restarts, blind>>
  BY DEF Insert
<1>4. /\ call[c].type \in Types
      /\ c \notin blind => VMs(c) = {}
      /\ call[c].zone \in Zones \cup {NoZone}
  BY <1>1, <1>2 DEF AccountedFor, Calls
<1> DEFINE accepted == /\ call[c].zone \in Zones \ VMs(c)
                       /\ vm' = [vm EXCEPT ![c][call[c].zone] = "provisioning"]
           r == [call[c] EXCEPT !.pc = "wait", !.operation = "running"]
<1>5. CASE accepted /\ Become(c, r) /\ UNCHANGED ice
  <2>1. /\ r \in Calls
        /\ r.pc = "wait"
        /\ r.type = call[c].type
        /\ r.zone = call[c].zone
        /\ r.operation = "running"
    BY <1>2 DEF Calls, Steps
  <2>2. Become(c, r)
    BY <1>5
  <2> HIDE DEF r
  <2> QED
    BY <1>1, <1>2, <1>3, <1>4, <1>5, <2>1, <2>2, InsertedStep
<1>6. CASE accepted /\ Fails(c, "error")
  <2>1. "error" \in Reasons
    BY DEF Reasons
  <2>2. ice' \subseteq Offerings
    BY <1>2, <1>4, <1>6, <2>1, MarksFacts DEF Fails
  <2> DEFINE n == AttemptFailed(c, "error")
  <2>3. /\ n \in Calls
        /\ \/ n.pc = "select" /\ call[c].zone \in n.attempted
           \/ n.pc = "returned" /\ n.result \in {"ice", "error"}
    <3>1. call[c].zone # NoZone
      BY <1>6, LaunchAssumption
    <3> QED
      BY <1>2, <2>1, <3>1, AttemptFailedFacts
  <2>4. Become(c, n)
    BY <1>6 DEF Fails
  <2> HIDE DEF n
  <2> QED
    BY <1>1, <1>3, <1>6, <2>2, <2>3, <2>4, InsertedStep
<1>7. CASE /\ \E reason \in IF call[c].zone = NoZone THEN {"error"} ELSE Reasons :
                Fails(c, reason)
           /\ UNCHANGED vm
  <2>1. PICK reason \in IF call[c].zone = NoZone THEN {"error"} ELSE Reasons :
            Fails(c, reason)
    BY <1>7
  <2>2. reason \in Reasons /\ (call[c].zone \in Zones \/ reason = "error")
    BY <1>4 DEF Reasons
  <2> QED
    BY <1>1, <1>3, <1>4, <1>7, <2>1, <2>2, FailsStep
<1>8. CASE Become(c, Return(Disturb(call[c]), "error")) /\ UNCHANGED <<vm, ice>>
  <2>1. LET n == Return(Disturb(call[c]), "error") IN
        n \in Calls /\ n.pc = "returned" /\ n.result = "error"
    BY <1>2, DisturbFacts, ReturnFacts DEF Results
  <2> QED
    BY <1>2, <1>3, <1>8, <2>1, CallStep
<1> QED
  BY <1>5, <1>6, <1>7, <1>8 DEF Insert

(* The wait for the operation and its time-out. *)
LEMMA WaitStep ==
    ASSUME TypeOK, Accounted, NEW c \in Claims, Wait(c)
    PROVE  TypeOK' /\ Accounted'
<1>1. call[c].pc = "wait"
  BY DEF Wait
<1>2. /\ call[c] \in Calls
      /\ node[c].status # "launched"
      /\ creates \in [Claims -> 0..MaxCreates]
      /\ ice \subseteq Offerings
      /\ AccountedFor(c)
  BY <1>1, RunningFacts
<1>3. UNCHANGED <<vm, node, creates, restarts, blind>>
  BY DEF Wait
<1>4. /\ call[c].zone \in Zones
      /\ c \notin blind => /\ VMs(c) \subseteq {call[c].zone}
                           /\ call[c].operation \in Reasons => VMs(c) = {}
  BY <1>1, <1>2 DEF AccountedFor
<1> DEFINE n == [call[c] EXCEPT !.pc = "resolve", !.result = "created"]
<1>5. CASE Become(c, n) /\ UNCHANGED ice
  <2>1. /\ n \in Calls
        /\ n.pc = "resolve"
        /\ n.zone = call[c].zone
    BY <1>2 DEF Calls, Steps, Results
  <2>2. Become(c, n) /\ UNCHANGED ice
    BY <1>5
  <2> HIDE DEF n
  <2> QED
    BY <1>2, <1>3, <1>4, <2>1, <2>2, CallStep
<1>6. CASE call[c].operation \in Reasons /\ Fails(c, call[c].operation)
  BY <1>1, <1>3, <1>4, <1>6, FailsStep
<1>7. CASE Fails(c, "error")
  <2>1. "error" \in Reasons /\ "error" # "ip"
    BY DEF Reasons
  <2> QED
    BY <1>1, <1>3, <1>4, <1>7, <2>1, FailsStep
<1> QED
  BY <1>5, <1>6, <1>7 DEF Wait

(* The end of a Create that has a VM. *)
LEMMA ResolveStep ==
    ASSUME TypeOK, Accounted, NEW c \in Claims, resolveCreatedInstanceType(c)
    PROVE  TypeOK' /\ Accounted'
<1>1. call[c].pc = "resolve"
  BY DEF resolveCreatedInstanceType
<1>2. /\ call[c] \in Calls
      /\ node[c].status # "launched"
      /\ creates \in [Claims -> 0..MaxCreates]
      /\ ice \subseteq Offerings
      /\ AccountedFor(c)
  BY <1>1, RunningFacts
<1>3. UNCHANGED <<vm, ice, node, creates, restarts, blind>>
  BY DEF resolveCreatedInstanceType
<1>4. /\ call[c].result \in Results
      /\ c \notin blind /\ call[c].result \in {"created", "adopted"} =>
            VMs(c) \subseteq {call[c].zone}
  BY <1>1, <1>2 DEF AccountedFor, Calls
<1>5. CASE Become(c, Return(call[c], call[c].result))
  BY <1>2, <1>3, <1>4, <1>5, ReturnFacts, CallStep
<1>6. CASE Become(c, Return(Disturb(call[c]), "error"))
  <2>1. LET r == Return(Disturb(call[c]), "error") IN
        r \in Calls /\ r.pc = "returned" /\ r.result = "error"
    BY <1>2, DisturbFacts, ReturnFacts DEF Results
  <2> QED
    BY <1>2, <1>3, <1>6, <2>1, CallStep
<1> QED
  BY <1>5, <1>6 DEF resolveCreatedInstanceType

(* What core does with Create's answer. *)
LEMMA CoreHandlesStep ==
    ASSUME TypeOK, Accounted, NEW c \in Claims, CoreHandles(c)
    PROVE  TypeOK' /\ Accounted'
<1>1. call[c].pc = "returned"
  BY DEF CoreHandles
<1>2. /\ call[c] \in Calls
      /\ node[c].status # "launched"
      /\ AccountedFor(c)
  BY <1>1, RunningFacts
<1>3. UNCHANGED <<vm, ice, creates, restarts, blind>>
  BY DEF CoreHandles
<1>4. /\ call' = [call EXCEPT ![c] = NoCall]
      /\ call' \in [Claims -> Calls]
      /\ call'[c] = NoCall
  BY NoCallFacts DEF CoreHandles, Become, TypeOK
<1>5. call[c].zone \in Zones \cup {NoZone}
  BY <1>2 DEF Calls
<1>6. /\ node' \in [Claims -> [status : {"pending", "launched", "deleted"},
                               zone : Zones \cup {NoZone}]]
      /\ \A d \in Claims \ {c} : node'[d] = node[d]
      /\ \/ node'[c].status # "launched"
         \/ /\ call[c].result \in {"created", "adopted"}
            /\ node'[c].zone = call[c].zone
  <2>1. CASE /\ call[c].result \in {"created", "adopted"}
             /\ node' = [node EXCEPT ![c] = [status |-> "launched",
                                             zone |-> call[c].zone]]
    BY <1>5, <2>1 DEF TypeOK
  <2>2. CASE node' = [node EXCEPT ![c].status = "deleted"]
    BY <2>2 DEF TypeOK
  <2>3. CASE UNCHANGED node
    BY <1>2, <2>3 DEF TypeOK
  <2> QED
    BY <2>1, <2>2, <2>3 DEF CoreHandles
<1>7. TypeOK'
  BY <1>3, <1>4, <1>6 DEF TypeOK
<1>8. VMs(c)' = VMs(c)
  BY <1>3 DEF VMs
<1>9. AccountedFor(c)'
  <2>1. c \notin blind => /\ \A y, z \in VMs(c) : y = z
                          /\ call[c].result \in {"created", "adopted"} =>
                                VMs(c) \subseteq {call[c].zone}
    BY <1>1, <1>2 DEF AccountedFor
  <2>2. call'[c].pc = "idle"
    BY <1>4, NoCallFacts
  <2> QED
    BY <1>3, <1>6, <1>8, <2>1, <2>2 DEF AccountedFor
<1> QED
  BY <1>3, <1>4, <1>6, <1>7, <1>9, OtherClaims

(* A restart loses the calls under way and the marks. *)
LEMMA RestartStep ==
    ASSUME TypeOK, Accounted, Restart
    PROVE  TypeOK' /\ Accounted'
<1>1. /\ call' = [c \in Claims |-> NoCall]
      /\ ice' = {}
      /\ UNCHANGED <<vm, node, creates, blind>>
  BY DEF Restart
<1>2. restarts' \in 0..MaxRestarts
  BY LaunchAssumption DEF Restart, TypeOK
<1>3. TypeOK'
  BY <1>1, <1>2, NoCallFacts DEF TypeOK
<1>4. ASSUME NEW c \in Claims PROVE AccountedFor(c)'
  <2>1. AccountedFor(c)
    BY DEF Accounted
  <2>2. VMs(c)' = VMs(c)
    BY <1>1 DEF VMs
  <2>3. call'[c].pc = "idle"
    BY <1>1, NoCallFacts
  <2> QED
    BY <1>1, <2>1, <2>2, <2>3 DEF AccountedFor
<1> QED
  BY <1>3, <1>4 DEF Accounted

(* The end of a mark. *)
LEMMA IceExpiresStep ==
    ASSUME TypeOK, Accounted, IceExpires
    PROVE  TypeOK' /\ Accounted'
<1>1. UNCHANGED <<vm, call, node, creates, restarts, blind>>
  BY DEF IceExpires
<1>2. TypeOK'
  BY <1>1 DEF IceExpires, TypeOK
<1>3. ASSUME NEW c \in Claims PROVE AccountedFor(c)'
  <2>1. AccountedFor(c)
    BY DEF Accounted
  <2>2. VMs(c)' = VMs(c)
    BY <1>1 DEF VMs
  <2> QED
    BY <1>1, <2>1, <2>2 DEF AccountedFor
<1> QED
  BY <1>2, <1>3 DEF Accounted

(* A VM starts to run or goes away; a waiting call may learn of it. *)
LEMMA VMStep ==
    ASSUME TypeOK, Accounted, NEW c \in Claims, NEW z \in Zones,
           NEW state \in {"none", "running"},
           vm[c][z] # "none",
           vm' = [vm EXCEPT ![c][z] = state],
           UNCHANGED <<ice, node, creates, restarts, blind>>,
           NEW outcome \in Reasons \cup {"none", "running", "done"},
           outcome \in Reasons => state = "none",
           OperationEnds(c, z, outcome) \/ call' = call
    PROVE  TypeOK' /\ Accounted'
<1>1. AccountedFor(c) /\ call[c] \in Calls
  BY DEF Accounted, TypeOK
<1> DEFINE told == [call[c] EXCEPT !.operation = outcome]
<1>2. /\ told \in Calls
      /\ told.pc = call[c].pc
      /\ told.type = call[c].type
      /\ told.zone = call[c].zone
      /\ told.operation = outcome
  BY <1>1 DEF Calls
<1>3. PICK r \in Calls : /\ call' = [call EXCEPT ![c] = r]
                         /\ \/ r = call[c]
                            \/ /\ call[c].pc = "wait"
                               /\ call[c].zone = z
                               /\ r = told
  <2>1. CASE call' = [call EXCEPT ![c].operation = outcome]
             /\ call[c].pc = "wait" /\ call[c].zone = z
    <3>1. call' = [call EXCEPT ![c] = told]
      BY <2>1 DEF TypeOK
    <3> QED
      BY <1>2, <2>1, <3>1
  <2>2. CASE call' = call
    <3>1. call' = [call EXCEPT ![c] = call[c]]
      BY <2>2 DEF TypeOK
    <3> QED
      BY <1>1, <3>1
  <2> QED
    BY <2>1, <2>2 DEF OperationEnds
<1> HIDE DEF told
<1>4. call' \in [Claims -> Calls] /\ call'[c] = r
  BY <1>3 DEF TypeOK
<1>5. vm' \in [Claims -> [Zones -> {"none", "provisioning", "running"}]]
  BY DEF TypeOK
<1>6. TypeOK'
  BY <1>4, <1>5 DEF TypeOK
<1>7. /\ VMs(c)' \subseteq VMs(c)
      /\ state = "none" => z \notin VMs(c)'
  BY DEF VMs, TypeOK
<1>8. AccountedFor(c)'
  <2>1. CASE r = call[c]
    BY <1>1, <1>4, <1>7, <2>1 DEF AccountedFor
  <2>2. CASE call[c].pc = "wait" /\ call[c].zone = z /\ r = told
    BY <1>1, <1>2, <1>4, <1>7, <2>2 DEF AccountedFor
  <2> QED
    BY <1>3, <2>1, <2>2
<1>9. \A d \in Claims \ {c} : vm'[d] = vm[d] /\ node'[d] = node[d]
  BY DEF TypeOK
<1> QED
  BY <1>3, <1>6, <1>8, <1>9, OtherClaims

(* What GCE does to a VM by itself. *)
LEMMA GCESteps ==
    ASSUME TypeOK, Accounted, NEW c \in Claims, NEW z \in Zones,
           OperationDone(c, z) \/ OperationFails(c, z) \/ Disappears(c, z)
    PROVE  TypeOK' /\ Accounted'
<1>1. CASE OperationDone(c, z)
  <2>1. "done" \notin Reasons
    BY DEF Reasons
  <2> QED
    BY <1>1, <2>1, VMStep DEF OperationDone
<1>2. CASE OperationFails(c, z)
  <2>1. PICK reason \in Reasons : OperationEnds(c, z, reason)
    BY <1>2 DEF OperationFails
  <2> QED
    BY <1>2, <2>1, VMStep DEF OperationFails
<1>3. CASE Disappears(c, z)
  <2>1. "none" \notin Reasons
    BY DEF Reasons
  <2> QED
    BY <1>3, <2>1, VMStep DEF Disappears
<1> QED
  BY <1>1, <1>2, <1>3

(* At the start there are neither VMs nor calls. *)
LEMMA InitAccounted == Init => TypeOK /\ Accounted
<1> SUFFICES ASSUME Init PROVE TypeOK /\ Accounted
  OBVIOUS
<1>1. TypeOK
  BY LaunchAssumption, NoCallFacts DEF Init, TypeOK
<1>2. ASSUME NEW c \in Claims PROVE AccountedFor(c)
  <2>1. /\ call[c].pc = "idle"
        /\ VMs(c) = {}
        /\ node[c].status = "pending"
    BY NoCallFacts DEF Init, VMs
  <2> QED
    BY <2>1 DEF AccountedFor
<1> QED
  BY <1>1, <1>2 DEF Accounted

(* Every step preserves the types and Accounted. *)
LEMMA NextAccounted ==
    ASSUME TypeOK, Accounted, [Next]_vars
    PROVE  TypeOK' /\ Accounted'
<1>1. CASE Next
  <2>1. ASSUME NEW c \in Claims, CreateStep(c) PROVE TypeOK' /\ Accounted'
    BY <2>1, AdoptOnlyStep, AdoptStep, SelectZoneStep, BootstrapStep,
       CheckStep, InsertStep, WaitStep, ResolveStep DEF CreateStep
  <2> QED
    BY <1>1, <2>1, StartSteps, CoreHandlesStep, GCESteps, RestartStep,
       IceExpiresStep DEF Next
<1>2. CASE UNCHANGED vars
  <2>1. UNCHANGED <<vm, ice, call, node, creates, restarts, blind>>
    BY <1>2 DEF vars
  <2>2. \A c \in Claims : VMs(c)' = VMs(c)
    BY <2>1 DEF VMs
  <2> QED
    BY <2>1, <2>2 DEF TypeOK, Accounted, AccountedFor
<1> QED
  BY <1>1, <1>2

(* Accounted is an invariant of Launch. *)
LEMMA AccountedInvariant == Spec => [](TypeOK /\ Accounted)
<1>1. TypeOK /\ Accounted /\ [Next]_vars => (TypeOK /\ Accounted)'
  BY NextAccounted
<1> QED
  BY InitAccounted, <1>1, PTL DEF Spec

(* Every variable keeps its type; in particular only offerings of the      *)
(* region are ever marked unavailable, although a call may fail in the     *)
(* empty zone.                                                             *)
THEOREM LaunchTypeCorrect == Spec => []TypeOK
  BY AccountedInvariant, PTL

(* Create never launches a second VM for a NodeClaim whose region-wide     *)
(* lookups all worked: the VMs of the earlier attempts of a call are in    *)
(* the zones it has attempted, the last check before an insert covers      *)
(* them, and what a call leaves behind is found by the next call's Adopt.  *)
THEOREM SingleVM == Spec => []OneVMPerNodeClaim
<1>1. Accounted => OneVMPerNodeClaim
  BY DEF Accounted, AccountedFor, OneVMPerNodeClaim
<1> QED
  BY <1>1, AccountedInvariant, PTL
-----------------------------------------------------------------------------
(* What the errors of a call mean, and where its VM goes.                  *)

(* A call that fell back to on-demand was not disturbed before. *)
Undisturbed(r) == r.fellBack => ~r.disturbed /\ r.ct = "on-demand"

InLoop == {"select", "bootstrap", "check", "insert", "wait"}

(* What there is to know about a call of claim c: a disturbance in the     *)
(* spot phase has left an error that rules the fallback out; an attempt    *)
(* that goes on has not marked its offering; it has a zone that the        *)
(* requirement allows, unless requestedZones has misread it.               *)
Sound(c, r) ==
    /\ Undisturbed(r)
    /\ r.pc \in {"adoptOnly", "adopt"} => ~r.disturbed /\ ~r.fellBack
    /\ r.pc \in InLoop /\ r.ct = "spot" /\ r.disturbed => "other" \in r.errs
    /\ r.pc \in {"insert", "wait"} => ~r.evicted
    /\ r.result = "created" => r.pc \in {"resolve", "returned"} /\ ~r.evicted
    /\ r.pc \in {"bootstrap", "check", "insert", "wait"}
        => r.zone = NoZone \/ RequirementMisread(c, r.ct) \/ ZoneAllowed(c, r.zone)

SoundCalls == \A c \in Claims : Sound(c, call[c])

PlacedVMs ==
    \A c \in Claims :
        ~RequirementMisread(c, "on-demand") => \A z \in VMs(c) : ZoneAllowed(c, z)

(* A call that ends without having created a VM. *)
LEMMA ReturnSound ==
    ASSUME NEW c \in Claims, NEW r \in Calls, Undisturbed(r),
           NEW result \in Results \ {"created"}
    PROVE  Sound(c, Return(r, result))
<1> DEFINE n == Return(r, result)
<1>1. /\ n.pc = "returned" /\ n.result = result /\ n.fellBack = r.fellBack
      /\ n.disturbed = r.disturbed /\ n.ct = r.ct
  BY DEF Return, Calls
<1> HIDE DEF n
<1>2. Undisturbed(n)
  BY <1>1 DEF Undisturbed
<1>3. Sound(c, n)
  BY <1>1, <1>2 DEF Sound, InLoop
<1> QED
  BY <1>3 DEF n

(* A disturbance recorded in the spot phase does not undo a fallback. *)
LEMMA DisturbSound ==
    ASSUME NEW r \in Calls, Undisturbed(r)
    PROVE  /\ Disturb(r) \in Calls /\ Undisturbed(Disturb(r))
           /\ Disturb(r).ct = r.ct /\ Disturb(r).errs = r.errs
           /\ Disturb(r).result = r.result
<1> DEFINE n == Disturb(r)
<1>1. /\ n \in Calls /\ n.fellBack = r.fellBack /\ n.ct = r.ct /\ n.errs = r.errs
      /\ n.result = r.result /\ n.disturbed = (r.disturbed \/ r.ct = "spot")
  BY DEF Disturb, Calls
<1> HIDE DEF n
<1>2. Undisturbed(n)
  BY <1>1 DEF Undisturbed
<1> QED
  BY <1>1, <1>2 DEF n

(* A retryable error: the fallback is taken only if no error but the lack  *)
(* of capacity was collected, and then nothing was disturbed.              *)
LEMMA TypeFailedSound ==
    ASSUME NEW c \in Claims, NEW r \in Calls, NEW zone \in Zones \cup {NoZone},
           NEW kind \in {"ice", "other"}, Undisturbed(r), r.ct = call[c].ct,
           r.result # "created",
           r.ct = "spot" /\ r.disturbed => "other" \in r.errs \cup {kind}
    PROVE  Sound(c, TypeFailed(c, r, zone, kind))
<1> DEFINE todo == r.todo \ {r.type}
           attempted == r.attempted \cup ({zone} \ {NoZone})
           errs == r.errs \cup {kind}
           next == [r EXCEPT !.todo = todo, !.errs = errs, !.pc = "select",
                             !.attempted = attempted]
           back == [next EXCEPT !.ct = "on-demand", !.fellBack = TRUE,
                                !.errs = {}, !.todo = LaunchTypes(c)]
<1>1. /\ next \in Calls
      /\ next.pc = "select" /\ next.errs = errs /\ next.ct = r.ct
      /\ next.fellBack = r.fellBack /\ next.disturbed = r.disturbed
      /\ next.result = r.result
  BY DEF Calls, Steps
<1>2. Undisturbed(next) /\ Sound(c, next)
  <2> HIDE DEF next
  <2>1. Undisturbed(next)
    BY <1>1 DEF Undisturbed
  <2> QED
    BY <1>1, <2>1 DEF Sound
<1>3. MayFallBack(c, errs) => Sound(c, back)
  <2>1. /\ back.pc = "select" /\ back.ct = "on-demand" /\ back.result = r.result
        /\ back.disturbed = r.disturbed
    <3> HIDE DEF next
    <3> QED
      BY <1>1 DEF Calls
  <2>2. MayFallBack(c, errs) => ~r.disturbed
    BY DEF MayFallBack
  <2> HIDE DEF back
  <2>3. MayFallBack(c, errs) => Undisturbed(back)
    BY <2>1, <2>2 DEF Undisturbed
  <2> QED
    BY <2>1, <2>2, <2>3 DEF Sound
<1>4. \A result \in {"ice", "error"} : Sound(c, Return(next, result))
  <2> HIDE DEF next
  <2> QED
    BY <1>1, <1>2, ReturnSound DEF Results
<1>5. TypeFailed(c, r, zone, kind) =
        IF todo # {} THEN next
        ELSE IF MayFallBack(c, errs) THEN back
        ELSE Return(next, IF "ice" \in errs THEN "ice" ELSE "error")
  BY DEF TypeFailed, GoOn
<1> HIDE DEF next, back, todo, errs
<1> QED
  BY <1>2, <1>3, <1>4, <1>5

(* A failed insert or wait: offerings are marked only when the attempt is  *)
(* over.                                                                   *)
LEMMA AttemptFailedSound ==
    ASSUME NEW c \in Claims, call[c] \in Calls, Sound(c, call[c]),
           call[c].pc \in {"insert", "wait"}, NEW reason \in Reasons
    PROVE  Sound(c, AttemptFailed(c, reason))
<1> DEFINE old == call[c]
           r == [old EXCEPT !.operation = "none",
                            !.evicted = @ \/ Marks(c, reason) # {}]
           again == [r EXCEPT !.pc = "insert", !.ranges = @ - 1]
<1>0. /\ Undisturbed(old) /\ ~old.evicted /\ old.result # "created"
      /\ old.ct = "spot" /\ old.disturbed => "other" \in old.errs
      /\ \/ old.zone = NoZone \/ RequirementMisread(c, old.ct)
         \/ ZoneAllowed(c, old.zone)
  BY DEF Sound, InLoop
<1>1. /\ r \in Calls /\ r.zone = old.zone /\ r.ranges = old.ranges
      /\ r.fellBack = old.fellBack /\ r.disturbed = old.disturbed
      /\ r.ct = old.ct /\ r.errs = old.errs /\ r.result = old.result
      /\ r.evicted = (old.evicted \/ Marks(c, reason) # {})
  BY DEF Calls
<1>2. r.zone \in Zones \cup {NoZone} /\ r.ranges \in Nat
  BY <1>1 DEF Calls
<1> HIDE DEF r
<1>3. Undisturbed(r)
  BY <1>0, <1>1 DEF Undisturbed
<1>4. /\ Disturb(r) \in Calls /\ Undisturbed(Disturb(r))
      /\ Disturb(r).ct = r.ct /\ Disturb(r).errs = r.errs
      /\ Disturb(r).result = r.result
  BY <1>1, <1>3, DisturbSound
<1>5. CASE reason = "ip" /\ r.ranges > 1
  <2>1. AttemptFailed(c, reason) = again
    BY <1>5 DEF AttemptFailed, r
  <2>2. \A k \in Nat :
            LET n == [r EXCEPT !.pc = "insert", !.ranges = k] IN
            /\ n.pc = "insert" /\ n.zone = r.zone /\ n.fellBack = r.fellBack
            /\ n.disturbed = r.disturbed /\ n.ct = r.ct /\ n.errs = r.errs
            /\ n.result = r.result /\ n.evicted = r.evicted
    BY <1>1 DEF Calls
  <2>3. r.ranges - 1 \in Nat
    BY <1>2, <1>5
  <2>4. /\ again.pc = "insert" /\ again.zone = r.zone /\ again.fellBack = r.fellBack
        /\ again.disturbed = r.disturbed /\ again.ct = r.ct /\ again.errs = r.errs
        /\ again.result = r.result /\ again.evicted = r.evicted
    BY <2>2, <2>3
  <2>5. Marks(c, reason) = {}
    BY <1>1, <1>5 DEF Marks
  <2>6. ~again.evicted
    BY <1>0, <1>1, <2>4, <2>5
  <2> HIDE DEF again
  <2>7. Undisturbed(again)
    BY <1>3, <2>4 DEF Undisturbed
  <2>8. again.ct = "spot" /\ again.disturbed => "other" \in again.errs
    BY <1>0, <1>1, <2>4
  <2>9. /\ again.pc = "insert" /\ again.result # "created"
        /\ \/ again.zone = NoZone \/ RequirementMisread(c, again.ct)
           \/ ZoneAllowed(c, again.zone)
    BY <1>0, <1>1, <2>4
  <2> QED
    BY <2>1, <2>6, <2>7, <2>8, <2>9 DEF Sound
<1>6. CASE reason = "ip" /\ ~(r.ranges > 1)
  <2>1. AttemptFailed(c, reason) = Return(Disturb(r), "ice")
    BY <1>6 DEF AttemptFailed, r
  <2> QED
    BY <1>4, <2>1, ReturnSound DEF Results
<1>7. CASE reason = "notReady"
  <2>1. AttemptFailed(c, reason) = Return(Disturb(r), "error")
    BY <1>7 DEF AttemptFailed, r
  <2> QED
    BY <1>4, <2>1, ReturnSound DEF Results
<1>8. CASE reason \in {"quota", "stockout", "error"}
  <2>1. \/ AttemptFailed(c, reason) = TypeFailed(c, r, r.zone, "ice")
        \/ AttemptFailed(c, reason) = TypeFailed(c, r, r.zone, "other")
        \/ AttemptFailed(c, reason) = TypeFailed(c, Disturb(r), r.zone, "other")
    BY <1>8 DEF AttemptFailed, r
  <2>2. \A kind \in {"ice", "other"} : Sound(c, TypeFailed(c, r, r.zone, kind))
    <3>1. r.ct = "spot" /\ r.disturbed => "other" \in r.errs
      BY <1>0, <1>1
    <3> QED
      BY <1>0, <1>1, <1>2, <1>3, <3>1, TypeFailedSound
  <2>3. Sound(c, TypeFailed(c, Disturb(r), r.zone, "other"))
    BY <1>0, <1>1, <1>2, <1>4, TypeFailedSound
  <2> QED
    BY <2>1, <2>2, <2>3
<1> QED
  BY <1>2, <1>5, <1>6, <1>7, <1>8 DEF Reasons

(* The zones that filterZonesByRequirement leaves are allowed, unless the  *)
(* requirement is a NotIn.                                                 *)
LEMMA FilteredZones ==
    ASSUME NEW c \in Claims, ZoneReq[c].op # "NotIn"
    PROVE  \A z \in filterZonesByRequirement(c) : ZoneAllowed(c, z)
<1>1. CASE ZoneReq[c].op = "In"
  BY <1>1, LaunchAssumption DEF filterZonesByRequirement, ZoneAllowed
<1>2. CASE ZoneReq[c].op = "Exists"
  BY <1>2 DEF ZoneAllowed
<1> QED
  BY <1>1, <1>2, LaunchAssumption

(* What a call's own step makes of it. *)
LEMMA StartSound ==
    ASSUME NEW c \in Claims,
           CreateRefused(c) \/ CreateAdopting(c) \/ CreateLaunching(c)
    PROVE  \E r : Become(c, r) /\ Sound(c, r)
<1>1. /\ NoCall \in Calls /\ ~NoCall.fellBack /\ ~NoCall.disturbed
      /\ NoCall.result = "none" /\ NoCall.ct = "on-demand"
  BY NoCallFacts DEF NoCall
<1>2. Undisturbed(NoCall)
  BY <1>1 DEF Undisturbed
<1>3. \A result \in Results \ {"created"} : Sound(c, Return(NoCall, result))
  BY <1>1, <1>2, ReturnSound
<1>4. CASE CreateRefused(c)
  BY <1>3, <1>4 DEF CreateRefused, Results
<1>5. ASSUME NEW r, ~r.fellBack, ~r.disturbed, r.result = "none",
             r.pc \in {"adoptOnly", "adopt"}
      PROVE  Sound(c, r)
  BY <1>5 DEF Sound, Undisturbed, InLoop
<1>6. CASE CreateAdopting(c)
  <2> DEFINE r == [NoCall EXCEPT !.pc = "adoptOnly"]
  <2>1. ~r.fellBack /\ ~r.disturbed /\ r.result = "none" /\ r.pc = "adoptOnly"
    BY DEF NoCall
  <2>2. Become(c, r)
    BY <1>6 DEF CreateAdopting
  <2> HIDE DEF r
  <2> QED
    BY <1>5, <2>1, <2>2
<1>7. CASE CreateLaunching(c)
  <2> DEFINE r == [NoCall EXCEPT !.pc = "adopt", !.avail = Offered \ ice]
  <2>1. ~r.fellBack /\ ~r.disturbed /\ r.result = "none" /\ r.pc = "adopt"
    BY DEF NoCall
  <2>2. Become(c, r) \/ Become(c, Return(NoCall, "ice"))
    BY <1>7 DEF CreateLaunching
  <2>3. "ice" \in Results \ {"created"}
    BY DEF Results
  <2> HIDE DEF r
  <2> QED
    BY <1>3, <1>5, <2>1, <2>2, <2>3
<1> QED
  BY <1>4, <1>6, <1>7

(* A VM was found: the call is about to end. *)
LEMMA AdoptedSound ==
    ASSUME NEW c \in Claims, call[c] \in Calls, Undisturbed(call[c]), NEW z
    PROVE  Sound(c, Adopted(c, z))
<1> DEFINE r == Adopted(c, z)
<1>1. /\ r.pc = "resolve" /\ r.result = "adopted" /\ r.fellBack = call[c].fellBack
      /\ r.disturbed = call[c].disturbed /\ r.ct = call[c].ct
  BY DEF Adopted, Calls
<1> HIDE DEF r
<1>2. Undisturbed(r)
  BY <1>1 DEF Undisturbed
<1>3. Sound(c, r)
  BY <1>1, <1>2 DEF Sound, InLoop
<1> QED
  BY <1>3 DEF r

(* The lookups that come first have nothing to mark and no error to        *)
(* collect.                                                                *)
LEMMA AdoptSound ==
    ASSUME NEW c \in Claims, call[c] \in Calls, Sound(c, call[c]),
           AdoptOnly(c) \/ Adopt(c)
    PROVE  \E r : Become(c, r) /\ Sound(c, r)
<1>0. /\ Undisturbed(call[c]) /\ ~call[c].disturbed /\ ~call[c].fellBack
      /\ call[c].result # "created"
  BY DEF Sound, AdoptOnly, Adopt
<1>1. \A z : Sound(c, Adopted(c, z))
  BY <1>0, AdoptedSound
<1>2. \A result \in {"ice", "notReady", "error"} : Sound(c, Return(call[c], result))
  BY <1>0, ReturnSound DEF Results
<1>3. CASE AdoptOnly(c)
  BY <1>1, <1>2, <1>3 DEF AdoptOnly
<1>4. CASE BeginLoop(c)
  <2> DEFINE r == [call[c] EXCEPT !.pc = "select", !.ct = getCapacityType(c),
                                  !.todo = LaunchTypes(c)]
  <2>1. /\ r.pc = "select" /\ r.fellBack = call[c].fellBack
        /\ r.disturbed = call[c].disturbed /\ r.result = call[c].result
    BY DEF Calls
  <2>2. Become(c, r) \/ Become(c, Return(call[c], "ice"))
    BY <1>4 DEF BeginLoop
  <2> HIDE DEF r
  <2>3. ~r.fellBack /\ ~r.disturbed
    BY <1>0, <2>1
  <2>4. Undisturbed(r)
    BY <2>3 DEF Undisturbed
  <2>5. Sound(c, r)
    BY <1>0, <2>1, <2>3, <2>4 DEF Sound
  <2> QED
    BY <1>2, <2>2, <2>5
<1> QED
  BY <1>1, <1>3, <1>4 DEF Adopt

(* A zone that is selected is one the requirement allows. *)
LEMMA SelectZoneSound ==
    ASSUME NEW c \in Claims, call[c] \in Calls, Sound(c, call[c]), SelectZone(c)
    PROVE  \E r : Become(c, r) /\ Sound(c, r)
<1> DEFINE old == call[c]
           r(t) == [old EXCEPT !.type = t]
           chosen(t, z) == [r(t) EXCEPT !.pc = "bootstrap", !.zone = z]
           zones == filterZonesByRequirement(c)
           fine(z) == z = NoZone \/ RequirementMisread(c, old.ct) \/ ZoneAllowed(c, z)
<1>0. /\ Undisturbed(old) /\ old.result # "created"
      /\ old.ct = "spot" /\ old.disturbed => "other" \in old.errs
  BY DEF Sound, InLoop, SelectZone
<1>1. PICK t \in NextTypes(c) :
        \/ Become(c, TypeFailed(c, Disturb(r(t)), NoZone, "other"))
        \/ Become(c, TypeFailed(c, r(t), NoZone, "ice"))
        \/ \E z \in zones \cup {NoZone} : Become(c, chosen(t, z)) /\ fine(z)
  <2>1. \A t, left : \A z \in cheapestCompatibleZone(c, t, left) :
            z = NoZone \/ (z \in left /\ ZoneAllowed(c, z))
    BY DEF cheapestCompatibleZone, Compatible
  <2>2. old.ct \in {"spot", "on-demand"}
    BY DEF Calls, CapacityTypes
  <2>3. \A z \in zones : old.ct = "on-demand" => fine(z)
    BY FilteredZones DEF RequirementMisread
  <2>4. PICK t \in NextTypes(c) :
        \/ Become(c, TypeFailed(c, Disturb(r(t)), NoZone, "other"))
        \/ Become(c, TypeFailed(c, r(t), NoZone, "ice"))
        \/ \E left \in SUBSET zones :
             \E z \in IF r(t).ct = "on-demand" THEN left
                     ELSE cheapestCompatibleZone(c, t, left) :
                Become(c, chosen(t, z))
    BY DEF SelectZone
  <2>5. r(t).ct = old.ct
    BY DEF Calls
  <2> HIDE DEF r, chosen
  <2>6. ASSUME NEW left \in SUBSET zones,
               NEW z \in IF r(t).ct = "on-demand" THEN left
                        ELSE cheapestCompatibleZone(c, t, left)
        PROVE  z \in zones \cup {NoZone} /\ fine(z)
    BY <2>1, <2>3, <2>5, <2>6
  <2> QED
    BY <2>4, <2>6
<1>2. t \in Types
  BY DEF NextTypes, Calls
<1>3. /\ r(t) \in Calls /\ r(t).fellBack = old.fellBack
      /\ r(t).disturbed = old.disturbed /\ r(t).ct = old.ct
      /\ r(t).errs = old.errs /\ r(t).result = old.result
  BY <1>2 DEF Calls
<1>4. \A z : /\ chosen(t, z).pc = "bootstrap" /\ chosen(t, z).zone = z
             /\ chosen(t, z).fellBack = old.fellBack
             /\ chosen(t, z).disturbed = old.disturbed /\ chosen(t, z).ct = old.ct
             /\ chosen(t, z).errs = old.errs /\ chosen(t, z).result = old.result
  BY DEF Calls
<1> HIDE DEF r, chosen
<1>5. Undisturbed(r(t))
  BY <1>0, <1>3 DEF Undisturbed
<1>6. Sound(c, TypeFailed(c, Disturb(r(t)), NoZone, "other"))
  <2>1. /\ Disturb(r(t)) \in Calls /\ Undisturbed(Disturb(r(t)))
        /\ Disturb(r(t)).ct = r(t).ct /\ Disturb(r(t)).result = r(t).result
    BY <1>3, <1>5, DisturbSound
  <2> QED
    BY <1>0, <1>3, <2>1, TypeFailedSound
<1>7. Sound(c, TypeFailed(c, r(t), NoZone, "ice"))
  <2>1. r(t).ct = "spot" /\ r(t).disturbed => "other" \in r(t).errs
    BY <1>0, <1>3
  <2> QED
    BY <1>0, <1>3, <1>5, <2>1, TypeFailedSound
<1>8. ASSUME NEW z \in zones \cup {NoZone}, fine(z)  PROVE Sound(c, chosen(t, z))
  <2> DEFINE n == chosen(t, z)
  <2>1. /\ n.pc = "bootstrap" /\ n.zone = z /\ n.fellBack = old.fellBack
        /\ n.disturbed = old.disturbed /\ n.ct = old.ct
        /\ n.errs = old.errs /\ n.result = old.result
    BY <1>4
  <2> HIDE DEF n
  <2>2. Undisturbed(n)
    BY <1>0, <2>1 DEF Undisturbed
  <2>3. n.ct = "spot" /\ n.disturbed => "other" \in n.errs
    BY <1>0, <2>1
  <2>4. n.zone = NoZone \/ RequirementMisread(c, n.ct) \/ ZoneAllowed(c, n.zone)
    BY <1>8, <2>1
  <2>5. Sound(c, n)
    BY <1>0, <2>1, <2>2, <2>3, <2>4 DEF Sound
  <2> QED
    BY <2>5 DEF n
<1> QED
  BY <1>1, <1>6, <1>7, <1>8

(* An attempt goes on to another step, or its result is known. *)
LEMMA ProceedSound ==
    ASSUME NEW c \in Claims, Sound(c, call[c]), call[c].pc \in InLoop, NEW r,
           r.pc \in {"check", "insert", "wait"}, r.result # "created",
           r.fellBack = call[c].fellBack, r.disturbed = call[c].disturbed,
           r.ct = call[c].ct, r.errs = call[c].errs, r.zone = call[c].zone,
           r.pc \in {"insert", "wait"} => ~r.evicted,
           call[c].pc # "select"
    PROVE  Sound(c, r)
<1>1. /\ Undisturbed(call[c])
      /\ call[c].ct = "spot" /\ call[c].disturbed => "other" \in call[c].errs
      /\ \/ call[c].zone = NoZone \/ RequirementMisread(c, call[c].ct)
         \/ ZoneAllowed(c, call[c].zone)
  BY DEF Sound, InLoop
<1>2. Undisturbed(r)
  BY <1>1 DEF Undisturbed
<1>3. r.ct = "spot" /\ r.disturbed => "other" \in r.errs
  BY <1>1
<1> QED
  BY <1>1, <1>2, <1>3 DEF Sound

(* An error of these reads is collected. *)
LEMMA BootstrapSound ==
    ASSUME NEW c \in Claims, call[c] \in Calls, Sound(c, call[c]), Bootstrap(c)
    PROVE  \E r : Become(c, r) /\ Sound(c, r)
<1>0. /\ Undisturbed(call[c]) /\ call[c].result # "created"
      /\ call[c].pc = "bootstrap" /\ call[c].zone \in Zones \cup {NoZone}
  BY DEF Sound, Bootstrap, Calls
<1>1. CASE Become(c, [call[c] EXCEPT !.pc = "check"])
  <2> DEFINE r == [call[c] EXCEPT !.pc = "check"]
  <2>1. /\ r.pc = "check" /\ r.result = call[c].result
        /\ r.fellBack = call[c].fellBack /\ r.disturbed = call[c].disturbed
        /\ r.ct = call[c].ct /\ r.errs = call[c].errs /\ r.zone = call[c].zone
    BY DEF Calls
  <2>2. Become(c, r)
    BY <1>1
  <2> HIDE DEF r
  <2>3. Sound(c, r)
    BY <1>0, <2>1, ProceedSound DEF InLoop
  <2> QED
    BY <2>2, <2>3
<1>2. CASE Become(c, TypeFailed(c, Disturb(call[c]), call[c].zone, "other"))
  <2>1. Sound(c, TypeFailed(c, Disturb(call[c]), call[c].zone, "other"))
    BY <1>0, DisturbSound, TypeFailedSound
  <2> QED
    BY <1>2, <2>1
<1> QED
  BY <1>1, <1>2 DEF Bootstrap

(* An attempt enters the insert without a mark of its own. *)
LEMMA CheckSound ==
    ASSUME NEW c \in Claims, call[c] \in Calls, Sound(c, call[c]), Check(c)
    PROVE  \E r : Become(c, r) /\ Sound(c, r)
<1>0. Undisturbed(call[c]) /\ call[c].result # "created" /\ call[c].pc = "check"
  BY DEF Sound, Check
<1>1. CASE \E z : Become(c, Adopted(c, z))
  BY <1>0, <1>1, AdoptedSound
<1>2. CASE Become(c, [call[c] EXCEPT !.pc = "insert", !.ranges = Ranges,
                                     !.evicted = FALSE])
  <2> DEFINE r == [call[c] EXCEPT !.pc = "insert", !.ranges = Ranges,
                                  !.evicted = FALSE]
  <2>1. /\ r.pc = "insert" /\ r.result = call[c].result /\ ~r.evicted
        /\ r.fellBack = call[c].fellBack /\ r.disturbed = call[c].disturbed
        /\ r.ct = call[c].ct /\ r.errs = call[c].errs /\ r.zone = call[c].zone
    BY DEF Calls
  <2>2. Become(c, r)
    BY <1>2
  <2> HIDE DEF r
  <2>3. Sound(c, r)
    BY <1>0, <2>1, ProceedSound DEF InLoop
  <2> QED
    BY <2>2, <2>3
<1>3. CASE Become(c, Return(Disturb(call[c]), "error"))
  <2>1. Sound(c, Return(Disturb(call[c]), "error"))
    BY <1>0, DisturbSound, ReturnSound DEF Results
  <2> QED
    BY <1>3, <2>1
<1> QED
  BY <1>1, <1>2, <1>3 DEF Check

(* An attempt that goes on to the wait, or to the next pod range, has not  *)
(* marked its offering.                                                    *)
LEMMA InsertSound ==
    ASSUME NEW c \in Claims, call[c] \in Calls, Sound(c, call[c]), Insert(c)
    PROVE  \E r : Become(c, r) /\ Sound(c, r)
<1>0. /\ Undisturbed(call[c]) /\ call[c].result # "created" /\ ~call[c].evicted
      /\ call[c].pc = "insert"
  BY DEF Sound, Insert
<1>1. CASE Become(c, [call[c] EXCEPT !.pc = "wait", !.operation = "running"])
  <2> DEFINE r == [call[c] EXCEPT !.pc = "wait", !.operation = "running"]
  <2>1. /\ r.pc = "wait" /\ r.result = call[c].result
        /\ r.evicted = call[c].evicted
        /\ r.fellBack = call[c].fellBack /\ r.disturbed = call[c].disturbed
        /\ r.ct = call[c].ct /\ r.errs = call[c].errs /\ r.zone = call[c].zone
    BY DEF Calls
  <2>2. Become(c, r)
    BY <1>1
  <2> HIDE DEF r
  <2>3. ~r.evicted
    BY <1>0, <2>1
  <2>4. Sound(c, r)
    BY <1>0, <2>1, <2>3, ProceedSound DEF InLoop
  <2> QED
    BY <2>2, <2>4
<1>2. ASSUME NEW reason \in Reasons, Fails(c, reason)
      PROVE  \E r : Become(c, r) /\ Sound(c, r)
  BY <1>0, <1>2, AttemptFailedSound DEF Fails
<1>3. CASE Become(c, Return(Disturb(call[c]), "error"))
  <2>1. Sound(c, Return(Disturb(call[c]), "error"))
    BY <1>0, DisturbSound, ReturnSound DEF Results
  <2> QED
    BY <1>3, <2>1
<1>4. "error" \in Reasons
  BY DEF Reasons
<1> QED
  BY <1>1, <1>2, <1>3, <1>4 DEF Insert

(* A VM that was created keeps its offering unmarked. *)
LEMMA WaitSound ==
    ASSUME NEW c \in Claims, call[c] \in Calls, Sound(c, call[c]), Wait(c)
    PROVE  \E r : Become(c, r) /\ Sound(c, r)
<1>0. Undisturbed(call[c]) /\ ~call[c].evicted /\ call[c].pc = "wait"
  BY DEF Sound, Wait
<1>1. CASE Become(c, [call[c] EXCEPT !.pc = "resolve", !.result = "created"])
  <2> DEFINE r == [call[c] EXCEPT !.pc = "resolve", !.result = "created"]
  <2>1. /\ r.pc = "resolve" /\ r.evicted = call[c].evicted /\ r.ct = call[c].ct
        /\ r.fellBack = call[c].fellBack /\ r.disturbed = call[c].disturbed
    BY DEF Calls
  <2>2. Become(c, r)
    BY <1>1
  <2> HIDE DEF r
  <2>3. ~r.evicted
    BY <1>0, <2>1
  <2>4. Undisturbed(r)
    BY <1>0, <2>1 DEF Undisturbed
  <2>5. Sound(c, r)
    BY <2>1, <2>3, <2>4 DEF Sound, InLoop
  <2> QED
    BY <2>2, <2>5
<1>2. ASSUME NEW reason \in Reasons, Fails(c, reason)
      PROVE  \E r : Become(c, r) /\ Sound(c, r)
  BY <1>0, <1>2, AttemptFailedSound DEF Fails
<1>3. "error" \in Reasons
  BY DEF Reasons
<1> QED
  BY <1>1, <1>2, <1>3 DEF Wait

(* Create returns what the attempt has found, or an error. *)
LEMMA ResolveSound ==
    ASSUME NEW c \in Claims, call[c] \in Calls, Sound(c, call[c]),
           resolveCreatedInstanceType(c)
    PROVE  \E r : Become(c, r) /\ Sound(c, r)
<1>0. /\ Undisturbed(call[c]) /\ (call[c].result = "created" => ~call[c].evicted)
      /\ call[c].pc = "resolve"
  BY DEF Sound, resolveCreatedInstanceType
<1>1. CASE Become(c, Return(call[c], call[c].result))
  <2> DEFINE r == Return(call[c], call[c].result)
  <2>1. /\ r.pc = "returned" /\ r.result = call[c].result
        /\ r.evicted = call[c].evicted /\ r.ct = call[c].ct
        /\ r.fellBack = call[c].fellBack /\ r.disturbed = call[c].disturbed
    BY DEF Return, Calls
  <2>2. Become(c, r)
    BY <1>1
  <2> HIDE DEF r
  <2>3. r.result = "created" => ~r.evicted
    BY <1>0, <2>1
  <2>4. Undisturbed(r)
    BY <1>0, <2>1 DEF Undisturbed
  <2>5. Sound(c, r)
    BY <2>1, <2>3, <2>4 DEF Sound, InLoop
  <2> QED
    BY <2>2, <2>5
<1>2. CASE Become(c, Return(Disturb(call[c]), "error"))
  <2>1. Sound(c, Return(Disturb(call[c]), "error"))
    BY <1>0, DisturbSound, ReturnSound DEF Results
  <2> QED
    BY <1>2, <2>1
<1> QED
  BY <1>1, <1>2 DEF resolveCreatedInstanceType

(* No call is under way. *)
LEMMA NoCallSound ==
    ASSUME NEW c \in Claims
    PROVE  Sound(c, NoCall)
<1>1. ~NoCall.fellBack /\ NoCall.pc = "idle" /\ NoCall.result = "none"
  BY DEF NoCall
<1>2. Undisturbed(NoCall)
  BY <1>1 DEF Undisturbed
<1> QED
  BY <1>1, <1>2 DEF Sound, InLoop

(* Every step preserves SoundCalls. *)
LEMMA NextSoundCalls == TypeOK /\ SoundCalls /\ [Next]_vars => SoundCalls'
<1> SUFFICES ASSUME TypeOK, SoundCalls, [Next]_vars  PROVE SoundCalls'
  OBVIOUS
<1>0. \A c \in Claims : call[c] \in Calls /\ Sound(c, call[c])
  BY DEF TypeOK, SoundCalls
<1>1. ASSUME NEW c \in Claims, \E r : Become(c, r) /\ Sound(c, r)
      PROVE  SoundCalls'
  <2>1. PICK r : Become(c, r) /\ Sound(c, r)
    BY <1>1
  <2>2. call'[c] = r /\ \A d \in Claims \ {c} : call'[d] = call[d]
    BY <2>1 DEF Become, TypeOK
  <2>3. \A d \in Claims : Sound(d, call'[d])
    BY <1>0, <2>1, <2>2
  <2>4. SoundCalls' <=> \A d \in Claims : Sound(d, call'[d])
    BY DEF SoundCalls, Sound, Undisturbed, ZoneAllowed, RequirementMisread
  <2> QED
    BY <2>3, <2>4
<1>2. CASE UNCHANGED call
  BY <1>2 DEF SoundCalls, Sound, Undisturbed, ZoneAllowed, RequirementMisread
<1>3. ASSUME NEW c \in Claims,
             CreateRefused(c) \/ CreateAdopting(c) \/ CreateLaunching(c)
      PROVE  SoundCalls'
  BY <1>1, <1>3, StartSound
<1>4. ASSUME NEW c \in Claims, CreateStep(c)  PROVE SoundCalls'
  BY <1>0, <1>1, <1>4, AdoptSound, SelectZoneSound, BootstrapSound, CheckSound,
     InsertSound, WaitSound, ResolveSound DEF CreateStep
<1>5. ASSUME NEW c \in Claims, CoreHandles(c)  PROVE SoundCalls'
  BY <1>1, <1>5, NoCallSound DEF CoreHandles
<1>6. ASSUME NEW c \in Claims, NEW z, NEW outcome, OperationEnds(c, z, outcome)
      PROVE  SoundCalls'
  <2> DEFINE r == [call[c] EXCEPT !.operation = outcome]
  <2>1. CASE call' = [call EXCEPT ![c].operation = outcome] /\ call[c].pc = "wait"
    <3>1. /\ r.pc = call[c].pc /\ r.result = call[c].result
          /\ r.evicted = call[c].evicted
          /\ r.fellBack = call[c].fellBack /\ r.disturbed = call[c].disturbed
          /\ r.ct = call[c].ct /\ r.errs = call[c].errs /\ r.zone = call[c].zone
      BY <1>0 DEF Calls
    <3>2. Become(c, r)
      BY <2>1 DEF Become, TypeOK
    <3> HIDE DEF r
    <3>3. ~call[c].evicted /\ call[c].result # "created" /\ Sound(c, call[c])
      BY <1>0, <2>1 DEF Sound
    <3>4. ~r.evicted
      BY <3>1, <3>3
    <3>5. Sound(c, r)
      BY <2>1, <3>1, <3>3, <3>4, ProceedSound DEF InLoop
    <3> QED
      BY <1>1, <3>2, <3>5
  <2> QED
    BY <1>2, <1>6, <2>1 DEF OperationEnds
<1>7. ASSUME NEW c \in Claims, NEW z \in Zones,
             OperationDone(c, z) \/ OperationFails(c, z) \/ Disappears(c, z)
      PROVE  SoundCalls'
  BY <1>2, <1>6, <1>7 DEF OperationDone, OperationFails, Disappears
<1>8. CASE Restart
  <2>1. \A d \in Claims : Sound(d, call'[d])
    BY <1>8, NoCallSound DEF Restart
  <2>2. SoundCalls' <=> \A d \in Claims : Sound(d, call'[d])
    BY DEF SoundCalls, Sound, Undisturbed, ZoneAllowed, RequirementMisread
  <2> QED
    BY <2>1, <2>2
<1>9. IceExpires \/ UNCHANGED vars => UNCHANGED call
  BY DEF IceExpires, vars
<1> QED
  BY <1>2, <1>3, <1>4, <1>5, <1>7, <1>8, <1>9 DEF Next

(* SoundCalls is an invariant of Launch. *)
LEMMA SoundCallsInvariant == Spec => []SoundCalls
<1>1. Init => SoundCalls
  BY NoCallSound DEF Init, SoundCalls
<1> QED
  BY <1>1, NextSoundCalls, LaunchTypeCorrect, PTL DEF Spec

(* Create falls back to on-demand only when every spot attempt failed for  *)
(* lack of capacity: any other failure of a spot attempt leaves an error   *)
(* that MayFallBack sees, or ends the call.                                *)
THEOREM FallbackIsForCapacity == Spec => []FallbackOnlyForCapacity
<1>1. SoundCalls => FallbackOnlyForCapacity
  BY DEF SoundCalls, Sound, Undisturbed, FallbackOnlyForCapacity
<1> QED
  BY <1>1, SoundCallsInvariant, PTL

(* A launch that ends with a VM it has created has not marked the offering *)
(* of that VM unavailable on the way, whichever pod ranges were full.      *)
THEOREM SuccessKeepsOffering == Spec => []SuccessNeverEvicts
<1>1. SoundCalls => SuccessNeverEvicts
  BY DEF SoundCalls, Sound, SuccessNeverEvicts
<1> QED
  BY <1>1, SoundCallsInvariant, PTL

(* A VM appears only in the zone of its call's insert. *)
LEMMA NextPlacedVMs == TypeOK /\ SoundCalls /\ PlacedVMs /\ [Next]_vars => PlacedVMs'
<1> SUFFICES ASSUME TypeOK, SoundCalls, PlacedVMs, [Next]_vars  PROVE PlacedVMs'
  OBVIOUS
<1>1. ASSUME \A c \in Claims : VMs(c)' \subseteq VMs(c)  PROVE PlacedVMs'
  BY <1>1 DEF PlacedVMs, ZoneAllowed, RequirementMisread
<1>2. CASE UNCHANGED vm
  <2>1. \A c \in Claims : VMs(c)' = VMs(c)
    BY <1>2 DEF VMs
  <2> QED
    BY <1>1, <2>1
<1>3. ASSUME NEW c \in Claims, Insert(c)  PROVE PlacedVMs'
  <2>1. CASE /\ call[c].zone \in Zones
             /\ vm' = [vm EXCEPT ![c][call[c].zone] = "provisioning"]
    <3>1. /\ VMs(c)' \subseteq VMs(c) \cup {call[c].zone}
          /\ \A d \in Claims \ {c} : VMs(d)' = VMs(d)
      BY <2>1 DEF VMs, TypeOK
    <3>2. ~RequirementMisread(c, "on-demand") => ZoneAllowed(c, call[c].zone)
      BY <1>3, <2>1, LaunchAssumption
         DEF Insert, SoundCalls, Sound, RequirementMisread
    <3>3. PlacedVMs' <=>
            \A d \in Claims : ~RequirementMisread(d, "on-demand")
                                => \A z \in VMs(d)' : ZoneAllowed(d, z)
      BY DEF PlacedVMs, ZoneAllowed, RequirementMisread
    <3> QED
      BY <3>1, <3>2, <3>3 DEF PlacedVMs
  <2> QED
    BY <1>2, <1>3, <2>1 DEF Insert
<1>4. ASSUME NEW c \in Claims, NEW z \in Zones,
             OperationDone(c, z) \/ OperationFails(c, z) \/ Disappears(c, z)
      PROVE  PlacedVMs'
  <2>1. /\ vm[c][z] # "none"
        /\ \E state : vm' = [vm EXCEPT ![c][z] = state]
    BY <1>4 DEF OperationDone, OperationFails, Disappears
  <2>2. \A d \in Claims : VMs(d)' \subseteq VMs(d)
    BY <2>1 DEF VMs, TypeOK
  <2> QED
    BY <1>1, <2>2
<1>5. ASSUME NEW c \in Claims,
             CreateRefused(c) \/ CreateAdopting(c) \/ CreateLaunching(c)
      PROVE  UNCHANGED vm
  BY <1>5 DEF CreateRefused, CreateAdopting, CreateLaunching, Calling
<1>6. ASSUME NEW c \in Claims, CreateStep(c), ~Insert(c)  PROVE UNCHANGED vm
  BY <1>6 DEF CreateStep, AdoptOnly, Adopt, SelectZone, Bootstrap, Check, Wait,
              resolveCreatedInstanceType
<1>7. \/ \E c \in Claims : CoreHandles(c)
      \/ Restart \/ IceExpires \/ UNCHANGED vars
      => UNCHANGED vm
  BY DEF CoreHandles, Restart, IceExpires, vars
<1> QED
  BY <1>2, <1>3, <1>4, <1>5, <1>6, <1>7 DEF Next

(* Zone selection honours the topology requirement of every NodeClaim,     *)
(* through all types, zones, capacity types and retries (selectZone): all  *)
(* VMs of an In, an Exists or an absent requirement are where it allows,   *)
(* and of a NotIn the spot ones.                                           *)
THEOREM TopologyIsHonoured == Spec => []TopologyHonoured
<1>1. Init => PlacedVMs
  BY DEF Init, PlacedVMs, VMs
<1>2. PlacedVMs /\ SoundCalls => TopologyHonoured
  BY DEF PlacedVMs, SoundCalls, Sound, TopologyHonoured
<1> QED
  BY <1>1, <1>2, NextPlacedVMs, SoundCallsInvariant, LaunchTypeCorrect, PTL DEF Spec
=============================================================================
