---------------------------- MODULE Interruption ----------------------------
(***************************************************************************)
(* The interruption controller (pkg/controllers/interruption): once a      *)
(* second it lists the nodes and deletes the NodeClaims of those that are  *)
(* about to be preempted or are shutting down.  For a preemption it first  *)
(* marks the offering unavailable, in the cache of UnavailableOfferings,   *)
(* so that the replacement is launched elsewhere.  Launches share the      *)
(* cache: they skip the marked offerings, mark offerings themselves, and   *)
(* bring the nodes that are preempted next.                                *)
(*                                                                         *)
(* The loop works on the conditions of the nodes it listed, in the order   *)
(* of the list, and returns at the first error.                            *)
(***************************************************************************)
EXTENDS Naturals, Sequences

CONSTANTS
    NodeOrder,      \* the nodes with a nodepool label, in the order of List
    OfferingOf,     \* node -> the offering of its NodeClaim, or NoLabels
    NoLabels,
    CallTime,       \* how long the deletion of a NodeClaim may take
    Launches, Types, Zones, CapacityTypes, Offered, DefaultTTL,
    ipSpaceInsufficientCapacityTTL, stockoutTTL, unsupportedConfigurationTTL,
    QuotaTTLs

Nodes == {NodeOrder[i] : i \in 1..Len(NodeOrder)}

VARIABLES
    condition,  \* node -> what its conditions say
    claim,      \* node -> its NodeClaim: "live", "deleting" or "none"
    left, launch, verdicts,     \* the cache and the launches
    quotaExceededTTL,           \* the option they run with
    at,         \* the node the loop is at, 0 between two reconciles
    seen,       \* node -> its condition when the nodes were listed
    called,     \* the NodeClaim's deletion is being called
    waited,
    unmarked    \* history: preempted nodes deleted with an available offering

offerings == <<left, launch, verdicts, quotaExceededTTL>>
loop == <<at, seen, called, waited>>
vars == <<condition, claim, offerings, loop, unmarked>>

Cache == INSTANCE UnavailableOfferings

ASSUME InterruptionAssumption ==
    /\ NodeOrder \in Seq(Nodes)
    /\ OfferingOf \in [Nodes -> Cache!Offerings \cup {NoLabels}]
    /\ NoLabels \notin Cache!Offerings
    /\ Offered \subseteq Cache!Offerings

(* The API server answers or times out within the shortest back-off.  The  *)
(* quota back-off may be disabled.                                         *)
ASSUME TTLAssumption ==
    /\ CallTime \in Nat
    /\ Cache!TTLs \subseteq Nat
    /\ \A ttl \in {DefaultTTL, ipSpaceInsufficientCapacityTTL, stockoutTTL,
                   unsupportedConfigurationTTL} : CallTime < ttl
    /\ \A ttl \in QuotaTTLs : ttl = 0 \/ CallTime < ttl

Init ==
    /\ condition = [n \in Nodes |-> "ready"]
    /\ claim \in [Nodes -> {"live", "none"}]
    /\ Cache!Init
    /\ at = 0
    /\ seen = [n \in Nodes |-> "ready"]
    /\ called = FALSE
    /\ waited = 0
    /\ unmarked = {}

Current == NodeOrder[at]

(* The end of the list ends the reconcile. *)
Continue ==
    /\ at' = IF at = Len(NodeOrder) THEN 0 ELSE at + 1
    /\ called' = FALSE
    /\ waited' = 0

Return ==
    /\ at' = 0
    /\ called' = FALSE
    /\ waited' = 0

(* A plausible slip: the first node is left out. *)
ListNodesButOne ==
    /\ at = 0
    /\ at' = 2
    /\ seen' = condition
    /\ UNCHANGED <<condition, claim, offerings, called, waited, unmarked>>

ListNodes ==
    /\ at = 0
    /\ at' = IF NodeOrder = <<>> THEN 0 ELSE 1
    /\ seen' = condition
    /\ UNCHANGED <<condition, claim, offerings, called, waited, unmarked>>

(* The node needs nothing, or has no NodeClaim that is not being deleted.  *)
PassOver ==
    /\ at # 0 /\ ~called
    /\ seen[Current] = "ready" \/ claim[Current] # "live"
    /\ Continue
    /\ UNCHANGED <<condition, claim, offerings, seen, unmarked>>

(* A plausible slip: the mark is left to whoever launches next. *)
CleanUnmarked ==
    /\ at # 0 /\ ~called
    /\ seen[Current] # "ready" /\ claim[Current] = "live"
    /\ called' = TRUE
    /\ UNCHANGED <<condition, claim, offerings, at, seen, waited, unmarked>>

(* cleanNodeClaimByInstanceName up to the deletion. *)
Clean ==
    /\ at # 0 /\ ~called
    /\ seen[Current] # "ready" /\ claim[Current] = "live"
    /\ IF seen[Current] = "preempting" /\ OfferingOf[Current] # NoLabels
       THEN Cache!Preempted(OfferingOf[Current]) ELSE UNCHANGED offerings
    /\ called' = TRUE
    /\ UNCHANGED <<condition, claim, at, seen, waited, unmarked>>

(* deleteNodeClaim; that it is gone already is no error. *)
DeleteNodeClaim ==
    LET o == OfferingOf[Current] IN
    /\ called
    /\ claim' = [claim EXCEPT ![Current] = IF @ = "live" THEN "deleting" ELSE @]
    /\ unmarked' = IF /\ claim[Current] = "live"
                      /\ seen[Current] = "preempting"
                      /\ o # NoLabels
                      /\ ~Cache!IsUnavailable(o)
                   THEN unmarked \cup {Current} ELSE unmarked
    /\ Continue
    /\ UNCHANGED <<condition, offerings, seen>>

(* A call to the API server fails. *)
Fails ==
    /\ at # 0
    /\ seen[Current] # "ready"
    /\ Return
    /\ UNCHANGED <<condition, claim, offerings, seen, unmarked>>

-----------------------------------------------------------------------------

(* A notice, or a kubelet that shuts down without one. *)
Notice(n) ==
    /\ condition[n] # "preempting"
    /\ \/ condition' = [condition EXCEPT ![n] = "preempting"]
       \/ condition[n] = "ready"
          /\ condition' = [condition EXCEPT ![n] = "shuttingDown"]
    /\ UNCHANGED <<claim, offerings, loop, unmarked>>

(* Somebody else deletes the NodeClaim, and core finalizes it. *)
ClaimGoes(n) ==
    /\ claim[n] # "none"
    /\ claim' = [claim EXCEPT ![n] = IF @ = "live" THEN "deleting" ELSE "none"]
    /\ UNCHANGED <<condition, offerings, loop, unmarked>>

SelectZone(l) ==
    /\ Cache!SelectZone(l)
    /\ UNCHANGED <<condition, claim, loop, unmarked>>

LaunchFailed(l) ==
    /\ \E reason \in Cache!Reasons : Cache!LaunchFailed(l, reason)
    /\ UNCHANGED <<condition, claim, loop, unmarked>>

(* The VM becomes a node, in the place of one that is gone.  The list the  *)
(* loop works on does not have it yet.                                     *)
Launched(l) ==
    /\ \E n \in Nodes :
        /\ OfferingOf[n] = launch[l]
        /\ claim[n] = "none"
        /\ ~(called /\ Current = n)
        /\ claim' = [claim EXCEPT ![n] = "live"]
        /\ condition' = [condition EXCEPT ![n] = "ready"]
        /\ seen' = [seen EXCEPT ![n] = "ready"]
    /\ Cache!Launched(l)
    /\ UNCHANGED <<at, called, waited, unmarked>>

Tick ==
    /\ called => waited < CallTime
    /\ waited' = IF called THEN waited + 1 ELSE waited
    /\ Cache!Tick
    /\ UNCHANGED <<condition, claim, at, seen, called, unmarked>>

Restart ==
    /\ Return
    /\ Cache!Restart
    /\ UNCHANGED <<condition, claim, seen, unmarked>>

Controller == ListNodes \/ PassOver \/ Clean \/ DeleteNodeClaim \/ Fails

Next ==
    \/ Controller
    \/ Tick
    \/ Restart
    \/ \E n \in Nodes : Notice(n) \/ ClaimGoes(n)
    \/ \E l \in Launches : SelectZone(l) \/ LaunchFailed(l) \/ Launched(l)

Spec == Init /\ [][Next]_vars

(* The controller is requeued after a second or with back-off; it is not   *)
(* restarted for ever, and a deletion that is tried again and again        *)
(* succeeds.  Time passes.  (The end of the list, a tick that clears the   *)
(* last mark or the end of the only launch changes the state like a        *)
(* restart does: those steps stay possible.)                               *)
FairSpec ==
    /\ Spec
    /\ WF_vars(Tick)
    /\ WF_vars(ListNodes)
    /\ WF_vars(PassOver)
    /\ WF_vars(Clean)
    /\ WF_vars(DeleteNodeClaim \/ Fails)
    /\ \A n \in Nodes : SF_vars(called /\ Current = n /\ DeleteNodeClaim)
    /\ <>[][Restart \/ (Fails /\ ~called)
                => \/ PassOver \/ DeleteNodeClaim \/ Tick
                   \/ \E l \in Launches : LaunchFailed(l)]_vars

-----------------------------------------------------------------------------

(* "It also marks that instance type and zone unavailable for a while, so  *)
(* replacement capacity is not requested from the same place": whenever a  *)
(* preemption notice makes the controller delete a NodeClaim, the offering *)
(* is unavailable at that moment, also after errors, restarts and retries  *)
(* in between.  (After the deletion nobody would mark it any more.)        *)
MarkedWhenDeleted == unmarked = {}

(* Every node with a notice loses its NodeClaim, although an error at one  *)
(* node ends the loop for all that follow.                                 *)
InterruptedClaimsGo ==
    \A n \in Nodes :
        condition[n] # "ready" /\ claim[n] = "live" ~> claim[n] # "live"

(* "Set to 0 to disable quota backoff": with that option set to 0 an       *)
(* offering is unavailable only if GCE gave another verdict on it than     *)
(* quota, although the cache itself reads a TTL of 0 as its 30 minute      *)
(* default and a quota failure elsewhere marks the whole region.           *)
ZeroDisablesQuotaBackoff ==
    quotaExceededTTL = 0 => \A o \in Cache!Offerings :
                                Cache!IsUnavailable(o) => o \in verdicts

(* A launch of the same type in another zone fails for quota, which is     *)
(* regional, and renews the entry of o on the way (markQuotaExceeded).     *)
RenewedFromElsewhere(o) ==
    /\ Cache!IsUnavailable(o)
    /\ quotaExceededTTL > 0
    /\ \E l \in Launches :
        /\ launch[l] \notin {Cache!NoOffering, o}
        /\ o \in Cache!MarkedBy(launch[l], "quota")
        /\ Cache!LaunchFailed(l, "quota")

(* An offering comes back in the end: entries expire although launches     *)
(* keep failing and their VMs keep being preempted, because zone selection *)
(* skips an unavailable offering instead of renewing its entry             *)
(* (instance.go:903-906) and the loop does not come back to a NodeClaim it *)
(* has deleted.  There is one exception, which that filter does not see:   *)
(* with a quota back-off, launches of the type in other zones that fail    *)
(* for quota again and again renew the entry for ever.                     *)
OfferingsRecover ==
    \A o \in Cache!Offerings :
        \/ []<>~Cache!IsUnavailable(o)
        \/ []<><<RenewedFromElsewhere(o)>>_vars
=============================================================================
