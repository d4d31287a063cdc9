------------------------------- MODULE Launch -------------------------------
(***************************************************************************)
(* How a NodeClaim becomes a GCE VM: CloudProvider.Create                  *)
(* (pkg/cloudprovider/cloudprovider.go) and the instance provider's Create *)
(* with everything below it (pkg/providers/instance/instance.go).          *)
(*                                                                         *)
(* Karpenter core calls Create for a pending NodeClaim, one call at a time *)
(* per NodeClaim and many NodeClaims at once, and calls it again after an  *)
(* error or a restart.  A call looks for a VM of an earlier call, then     *)
(* tries one instance type after the other: it selects a zone, checks that *)
(* no VM of this NodeClaim exists in the zones tried so far, inserts the   *)
(* VM and waits for the operation, once per candidate pod range.  When all *)
(* spot attempts fail for lack of capacity it starts over with on-demand.  *)
(*                                                                         *)
(* GCE is the environment.  A VM is visible from the moment GCE accepts    *)
(* the insert; GCE removes it if the operation fails.  The answer to an    *)
(* accepted insert may be lost, the wait may time out or fail while the    *)
(* operation goes on, and a VM may disappear (preemption, deletion).       *)
(*                                                                         *)
(* Data are abstracted to what the control depends on: an offering is a    *)
(* triple <<instance type, zone, capacity type>>; error texts are reduced  *)
(* to the reasons the code tells apart; the rendered instance is left out; *)
(* the candidate pod ranges are reduced to their number.  The cache of     *)
(* unavailable offerings is a set whose members may expire at any time     *)
(* (module UnavailableOfferings has its TTLs).                             *)
(***************************************************************************)
EXTENDS Naturals, FiniteSets

CONSTANTS
    Claims,        \* NodeClaims
    Types,         \* instance types
    Zones,         \* zones of the region
    NoZone,        \* the empty zone name
    NoType,        \* no instance type chosen yet
    ClusterZones,  \* what ResolveClusterZones returns
    Offered,       \* offerings of the catalogue
    Price,         \* offering -> price
    Rank,          \* type -> its position in the order of names
    ZoneReq,       \* claim -> its topology.kubernetes.io/zone requirement
    CapacityReq,   \* claim -> capacity types it allows
    Launchable,    \* claim -> types left by the local SSD and image filters
    QuotaBackoff,  \* QuotaExceededTTL > 0
    Ranges,        \* number of candidate pod ranges
    MaxCreates,    \* bound: Create calls per NodeClaim
    MaxRestarts    \* bound: controller restarts

CapacityTypes == {"spot", "on-demand"}

Offerings == Types \X Zones \X CapacityTypes

ASSUME LaunchAssumption ==
    /\ NoZone \notin Zones
    /\ NoType \notin Types
    /\ ClusterZones \subseteq Zones
    /\ Offered \subseteq Offerings
    /\ Price \in [Offerings -> Nat]
    /\ Rank \in [Types -> Nat]
    /\ ZoneReq \in [Claims -> [op : {"In", "NotIn", "Exists"},
                               values : SUBSET Zones]]
    /\ \A c \in Claims : ZoneReq[c].op = "Exists" <=> ZoneReq[c].values = {}
    /\ CapacityReq \in [Claims -> SUBSET CapacityTypes]
    /\ Launchable \in [Claims -> SUBSET Types]
    /\ QuotaBackoff \in BOOLEAN
    /\ Ranges \in Nat \ {0}
    /\ MaxCreates \in Nat
    /\ MaxRestarts \in Nat

VARIABLES
    vm,        \* claim -> zone -> the VM named after the claim
    ice,       \* unavailable offerings
    call,      \* claim -> the Create call in progress
    node,      \* claim -> the NodeClaim as core has stored it
    creates,   \* claim -> Create calls so far
    restarts,
    blind      \* history: claims whose region-wide lookup failed in Create

vars == <<vm, ice, call, node, creates, restarts, blind>>

(* Why an attempt failed: the project's quota, the pod range's addresses,  *)
(* any other lack of capacity, a reference to a resource that is not       *)
(* ready, or anything else.                                                *)
Reasons == {"quota", "ip", "stockout", "notReady", "error"}

Steps == {"idle", "adoptOnly", "adopt", "select", "bootstrap", "check",
          "insert", "wait", "resolve", "returned"}

Results == {"none", "created", "adopted", "ice", "notReady", "error"}

Calls ==
    [pc : Steps,
     result : Results,
     avail : SUBSET Offerings,        \* offerings available when it started
     ct : CapacityTypes,              \* capacityType
     fellBack : BOOLEAN,              \* in fallBackToOnDemand
     todo : SUBSET Types,             \* instance types left in the loop
     type : Types \cup {NoType},      \* the one being tried
     zone : Zones \cup {NoZone},
     attempted : SUBSET Zones,        \* attemptedZones
     errs : SUBSET {"ice", "other"},  \* kinds of the collected errors
     ranges : Nat,                    \* pod ranges left
     operation : Reasons \cup {"none", "running", "done"},
     evicted : BOOLEAN,               \* history: this attempt has marked the
                                      \* offering it tries
     disturbed : BOOLEAN]             \* history: a spot attempt met a failure
                                      \* the fallback is not meant for

NoCall ==
    [pc |-> "idle", result |-> "none", avail |-> {}, ct |-> "on-demand",
     fellBack |-> FALSE, todo |-> {}, type |-> NoType, zone |-> NoZone,
     attempted |-> {}, errs |-> {}, ranges |-> 0, operation |-> "none",
     evicted |-> FALSE, disturbed |-> FALSE]

Init ==
    /\ vm = [c \in Claims |-> [z \in Zones |-> "none"]]
    /\ ice = {}
    /\ call = [c \in Claims |-> NoCall]
    /\ node = [c \in Claims |-> [status |-> "pending", zone |-> NoZone]]
    /\ creates = [c \in Claims |-> 0]
    /\ restarts = 0
    /\ blind = {}

VMs(c) == {z \in Zones : vm[c][z] # "none"}

-----------------------------------------------------------------------------
(* Requirements and the choice of instance types, capacity type and zone.  *)

(* Requirement.Has *)
ZoneAllowed(c, z) ==
    CASE ZoneReq[c].op = "In"     -> z \in ZoneReq[c].values
      [] ZoneReq[c].op = "NotIn"  -> z \notin ZoneReq[c].values
      [] ZoneReq[c].op = "Exists" -> TRUE

(* Requirements.Compatible, for requirements that allow the types cts. *)
Compatible(c, cts, o) == ZoneAllowed(c, o[2]) /\ o[3] \in cts

(* resolveInstanceTypes and the filters of instanceProvider.Create *)
resolveInstanceTypes(c, avail) ==
    {t \in Types : \E o \in avail : o[1] = t /\ Compatible(c, CapacityReq[c], o)}

LaunchTypes(c) == resolveInstanceTypes(c, call[c].avail) \cap Launchable[c]

hasAvailableOffering(c, capacityType) ==
    /\ capacityType \in CapacityReq[c]
    /\ \E o \in call[c].avail : o[1] \in LaunchTypes(c)
                                /\ Compatible(c, {capacityType}, o)

getCapacityType(c) ==
    IF hasAvailableOffering(c, "spot") THEN "spot" ELSE "on-demand"

(* orderInstanceTypesByPrice: t before u, types without a price last. *)
Prices(c, cts, t) ==
    {Price[o] : o \in {p \in call[c].avail : p[1] = t /\ Compatible(c, cts, p)}}

Cheaper(ps, qs) == \E p \in ps : \A q \in qs : p < q

Before(c, cts, t, u) ==
    LET ps == Prices(c, cts, t)
        qs == Prices(c, cts, u)
    IN  \/ Cheaper(ps, qs)
        \/ (~Cheaper(qs, ps) /\ Rank[t] < Rank[u])

(* The instance type the loop of createWithCapacityType tries next. *)
NextTypes(c) ==
    LET cts == IF call[c].fellBack THEN {"on-demand"} ELSE CapacityReq[c]
    IN  {t \in call[c].todo : \A u \in call[c].todo \ {t} : Before(c, cts, t, u)}

(* A plausible slip: the topology requirement is not applied. *)
AllClusterZones(c) == ClusterZones

(* requestedZones takes the values of the requirement whatever its         *)
(* operator is.                                                            *)
filterZonesByRequirement(c) ==
    IF ZoneReq[c].values = {} THEN ClusterZones
    ELSE ClusterZones \cap ZoneReq[c].values

(* The zones selectZone may return.  Any compatible offering counts for    *)
(* the cheapest zone, available or not, spot or not.                       *)
cheapestCompatibleZone(c, t, zones) ==
    LET os == {o \in Offered : /\ o[1] = t
                               /\ Compatible(c, CapacityReq[c], o)
                               /\ o[2] \in zones}
    IN  IF os = {} THEN {NoZone}
        ELSE {o[2] : o \in {p \in os : \A q \in os : Price[p] <= Price[q]}}

-----------------------------------------------------------------------------
(* The outcome of an attempt, as a function of the call record.            *)

Return(r, result) == [r EXCEPT !.pc = "returned", !.result = result]

(* An attempt of the spot phase met something else than a lack of          *)
(* capacity, or ran out of pod ranges, which on-demand VMs share.          *)
Disturb(r) == [r EXCEPT !.disturbed = @ \/ r.ct = "spot"]

(* A plausible slip: one capacity error is enough for the fallback. *)
MayFallBackOnSomeIce(c, errs) ==
    /\ call[c].ct = "spot"
    /\ "ice" \in errs
    /\ hasAvailableOffering(c, "on-demand")

(* The guard of fallBackToOnDemand. *)
MayFallBack(c, errs) ==
    /\ call[c].ct = "spot"
    /\ errs = {"ice"}
    /\ hasAvailableOffering(c, "on-demand")

(* The loop goes on with the next instance type; after the last one Create *)
(* falls back to on-demand or returns the joined errors, which core takes  *)
(* for a lack of capacity if any of them is one.                           *)
GoOn(c, r, todo, attempted, kind) ==
    LET errs == r.errs \cup {kind}
        next == [r EXCEPT !.todo = todo, !.errs = errs, !.pc = "select",
                          !.attempted = attempted]
    IN  IF todo # {} THEN next
        ELSE IF MayFallBack(c, errs)
        THEN [next EXCEPT !.ct = "on-demand", !.fellBack = TRUE, !.errs = {},
                          !.todo = LaunchTypes(c)]
        ELSE Return(next, IF "ice" \in errs THEN "ice" ELSE "error")

(* Plausible slips: a failed attempt's zone is not remembered; the loop    *)
(* does not advance.                                                       *)
TypeFailedForgetting(c, r, zone, kind) ==
    GoOn(c, r, r.todo \ {r.type}, r.attempted, kind)

TypeFailedStuck(c, r, zone, kind) ==
    GoOn(c, r, r.todo, r.attempted \cup ({zone} \ {NoZone}), kind)

(* A retryable error: createWithCapacityType collects it and remembers the *)
(* zone, if one was selected.                                              *)
TypeFailed(c, r, zone, kind) ==
    GoOn(c, r, r.todo \ {r.type}, r.attempted \cup ({zone} \ {NoZone}), kind)

Insufficient(reason) ==
    \/ reason \in {"ip", "stockout"}
    \/ reason = "quota" /\ QuotaBackoff

(* A plausible slip: every exhausted range marks the offering. *)
MarksPerRange(c, reason) ==
    LET o == <<call[c].type, call[c].zone, call[c].ct>> IN
    IF ~Insufficient(reason) THEN {}
    ELSE IF reason = "quota"
    THEN {o} \cup {p \in Offered : p[1] = o[1] /\ p[3] = o[3]}
    ELSE {o}

(* markInsufficientCapacity and markQuotaExceeded, reached only when there *)
(* is no other pod range to try.                                           *)
Marks(c, reason) ==
    LET o == <<call[c].type, call[c].zone, call[c].ct>> IN
    IF ~Insufficient(reason) \/ (reason = "ip" /\ call[c].ranges > 1) THEN {}
    ELSE IF reason = "quota"
    THEN {o} \cup {p \in Offered : p[1] = o[1] /\ p[3] = o[3]}
    ELSE {o}

(* createInstanceWithPodRanges after a failed insert or wait. *)
AttemptFailed(c, reason) ==
    LET r == [call[c] EXCEPT !.operation = "none",
                             !.evicted = @ \/ Marks(c, reason) # {}]
    IN
    CASE reason = "ip" /\ r.ranges > 1 ->
            [r EXCEPT !.pc = "insert", !.ranges = @ - 1]
      [] reason = "ip" /\ ~(r.ranges > 1) ->
            Return(Disturb(r), "ice")
      [] reason = "notReady" ->
            Return(Disturb(r), "error")
      [] reason \in {"quota", "stockout", "error"} ->
            IF Insufficient(reason) THEN TypeFailed(c, r, r.zone, "ice")
            ELSE TypeFailed(c, IF r.zone = NoZone THEN r ELSE Disturb(r),
                            r.zone, "other")

-----------------------------------------------------------------------------
(* The steps of a call.                                                    *)

Become(c, r) == call' = [call EXCEPT ![c] = r]

Calling(c) ==
    /\ call[c].pc = "idle"
    /\ node[c].status = "pending"
    /\ creates[c] < MaxCreates
    /\ creates' = [creates EXCEPT ![c] = @ + 1]
    /\ UNCHANGED <<vm, ice, node, restarts, blind>>

(* CloudProvider.Create ends before it looks for a VM: the NodeClass       *)
(* cannot be read, is not ready although its images are, or its instance   *)
(* types cannot be listed.                                                 *)
CreateRefused(c) ==
    /\ Calling(c)
    /\ \E result \in {"ice", "notReady", "error"} :
        Become(c, Return(NoCall, result))

(* The NodeClass is not ready and has no images: only adoption is left. *)
CreateAdopting(c) ==
    /\ Calling(c)
    /\ Become(c, [NoCall EXCEPT !.pc = "adoptOnly"])

(* The NodeClass is ready: instanceTypeProvider.List takes the offerings   *)
(* that are available now.                                                 *)
CreateLaunching(c) ==
    LET avail == Offered \ ice IN
    /\ Calling(c)
    /\ Become(c, IF resolveInstanceTypes(c, avail) = {}
                 THEN Return(NoCall, "ice")
                 ELSE [NoCall EXCEPT !.pc = "adopt", !.avail = avail])

(* The instance provider returns a VM: CloudProvider.Create goes on. *)
Adopted(c, z) ==
    [call[c] EXCEPT !.pc = "resolve", !.result = "adopted", !.zone = z]

(* Create of a NodeClass that is not ready. *)
AdoptOnly(c) ==
    /\ call[c].pc = "adoptOnly"
    /\ \/ \E z \in VMs(c) : Become(c, Adopted(c, z))
       \/ /\ VMs(c) = {}
          /\ \E result \in {"notReady", "error"} :
                Become(c, Return(call[c], result))
       \/ Become(c, Return(call[c], "error"))
    /\ UNCHANGED <<vm, ice, node, creates, restarts, blind>>

(* The candidates are validated and the loop of createWithCapacityType     *)
(* starts.                                                                 *)
BeginLoop(c) ==
    Become(c, IF LaunchTypes(c) = {} THEN Return(call[c], "ice")
              ELSE [call[c] EXCEPT !.pc = "select", !.ct = getCapacityType(c),
                                   !.todo = LaunchTypes(c)])

(* Adopt: the VM of an earlier call, in any zone.  An error of this lookup *)
(* is logged and the launch goes on.                                       *)
Adopt(c) ==
    /\ call[c].pc = "adopt"
    /\ \/ \E z \in VMs(c) : Become(c, Adopted(c, z)) /\ UNCHANGED blind
       \/ VMs(c) = {} /\ BeginLoop(c) /\ UNCHANGED blind
       \/ BeginLoop(c) /\ blind' = blind \cup {c}
    /\ UNCHANGED <<vm, ice, node, creates, restarts>>

(* The next instance type, and selectZone for it: the cluster's zones      *)
(* cannot be read or none of them meets the requirement, all of them are   *)
(* unavailable, or one is chosen.  (Every instance type of the catalogue   *)
(* pins its local SSD count, so resolveCreateSSDCount has no error.)       *)
SelectZone(c) ==
    /\ call[c].pc = "select"
    /\ \E t \in NextTypes(c) :
        LET r == [call[c] EXCEPT !.type = t]
            zones == filterZonesByRequirement(c)
            left == {z \in zones : <<t, z, r.ct>> \notin ice}
        IN
        \/ Become(c, TypeFailed(c, Disturb(r), NoZone, "other"))
        \/ /\ zones # {} /\ left = {}
           /\ Become(c, TypeFailed(c, r, NoZone, "ice"))
        \/ /\ left # {}
           /\ \E z \in IF r.ct = "on-demand" THEN left
                       ELSE cheapestCompatibleZone(c, t, left) :
                Become(c, [r EXCEPT !.pc = "bootstrap", !.zone = z])
    /\ UNCHANGED <<vm, ice, node, creates, restarts, blind>>

(* The source template's metadata and the cluster configuration. *)
Bootstrap(c) ==
    /\ call[c].pc = "bootstrap"
    /\ \/ Become(c, [call[c] EXCEPT !.pc = "check"])
       \/ Become(c, TypeFailed(c, Disturb(call[c]), call[c].zone, "other"))
    /\ UNCHANGED <<vm, ice, node, creates, restarts, blind>>

(* getOrCreateInstance: the zone itself, then the zones tried before.  The *)
(* lookups are one step: only this call inserts VMs of this name.          *)
Check(c) ==
    LET zone == call[c].zone IN
    /\ call[c].pc = "check"
    /\ \/ \E z \in VMs(c) \cap ({zone} \cup call[c].attempted) :
            /\ zone \in VMs(c) => z = zone
            /\ Become(c, Adopted(c, z))
       \/ /\ VMs(c) \cap ({zone} \cup call[c].attempted) = {}
          /\ Become(c, [call[c] EXCEPT !.pc = "insert", !.ranges = Ranges,
                                       !.evicted = FALSE])
       \/ Become(c, Return(Disturb(call[c]), "error"))
    /\ UNCHANGED <<vm, ice, node, creates, restarts, blind>>

(* The attempt fails, and marks offerings unavailable. *)
Fails(c, reason) ==
    /\ ice' = ice \cup Marks(c, reason)
    /\ Become(c, AttemptFailed(c, reason))

(* Instances.Insert with the next pod range: accepted, accepted with the   *)
(* answer lost, refused, or not sent because the instance cannot be built. *)
Insert(c) ==
    LET zone == call[c].zone
        accepted == /\ zone \in Zones \ VMs(c)
                    /\ vm' = [vm EXCEPT ![c][zone] = "provisioning"]
    IN
    /\ call[c].pc = "insert"
    /\ \/ /\ accepted
          /\ Become(c, [call[c] EXCEPT !.pc = "wait", !.operation = "running"])
          /\ UNCHANGED ice
       \/ accepted /\ Fails(c, "error")
       \/ /\ \E reason \in IF zone = NoZone THEN {"error"} ELSE Reasons :
                Fails(c, reason)
          /\ UNCHANGED vm
       \/ /\ Become(c, Return(Disturb(call[c]), "error"))
          /\ UNCHANGED <<vm, ice>>
    /\ UNCHANGED <<node, creates, restarts, blind>>

(* waitOperationDone: the operation's outcome, or a time-out or an error   *)
(* of the poll whatever the operation does.                                *)
Wait(c) ==
    /\ call[c].pc = "wait"
    /\ \/ /\ call[c].operation = "done"
          /\ Become(c, [call[c] EXCEPT !.pc = "resolve", !.result = "created"])
          /\ UNCHANGED ice
       \/ call[c].operation \in Reasons /\ Fails(c, call[c].operation)
       \/ Fails(c, "error")
    /\ UNCHANGED <<vm, node, creates, restarts, blind>>

(* The VM's instance type is looked up, with the overlays of its NodePool. *)
(* The call fails if there is none, although there is a VM.                *)
resolveCreatedInstanceType(c) ==
    /\ call[c].pc = "resolve"
    /\ \/ Become(c, Return(call[c], call[c].result))
       \/ Become(c, Return(Disturb(call[c]), "error"))
    /\ UNCHANGED <<vm, ice, node, creates, restarts, blind>>

CreateStep(c) ==
    \/ AdoptOnly(c)
    \/ Adopt(c)
    \/ SelectZone(c)
    \/ Bootstrap(c)
    \/ Check(c)
    \/ Insert(c)
    \/ Wait(c)
    \/ resolveCreatedInstanceType(c)

-----------------------------------------------------------------------------
(* The surroundings.                                                       *)

(* Karpenter core: a created NodeClaim is stored with its provider ID; a   *)
(* NodeClaim that met a lack of capacity or an unready NodeClass is        *)
(* deleted, unless the delete fails; any other error leaves it pending.    *)
CoreHandles(c) ==
    /\ call[c].pc = "returned"
    /\ Become(c, NoCall)
    /\ \/ /\ call[c].result \in {"created", "adopted"}
          /\ node' = [node EXCEPT ![c] = [status |-> "launched",
                                          zone |-> call[c].zone]]
       \/ /\ call[c].result \in {"ice", "notReady"}
          /\ \/ node' = [node EXCEPT ![c].status = "deleted"]
             \/ UNCHANGED node
       \/ call[c].result = "error" /\ UNCHANGED node
    /\ UNCHANGED <<vm, ice, creates, restarts, blind>>

(* The controller restarts: calls and the ICE cache are lost. *)
Restart ==
    /\ restarts < MaxRestarts
    /\ restarts' = restarts + 1
    /\ ice' = {}
    /\ call' = [c \in Claims |-> NoCall]
    /\ UNCHANGED <<vm, node, creates, blind>>

(* An entry of the cache of unavailable offerings expires. *)
IceExpires ==
    /\ \E o \in ice : ice' = ice \ {o}
    /\ UNCHANGED <<vm, call, node, creates, restarts, blind>>

(* GCE finishes an insert's operation.  Its outcome is of interest only to *)
(* the call that waits for it.                                             *)
OperationEnds(c, z, outcome) ==
    call' = IF call[c].pc = "wait" /\ call[c].zone = z
            THEN [call EXCEPT ![c].operation = outcome]
            ELSE call

OperationDone(c, z) ==
    /\ vm[c][z] = "provisioning"
    /\ vm' = [vm EXCEPT ![c][z] = "running"]
    /\ OperationEnds(c, z, "done")
    /\ UNCHANGED <<ice, node, creates, restarts, blind>>

OperationFails(c, z) ==
    /\ vm[c][z] = "provisioning"
    /\ vm' = [vm EXCEPT ![c][z] = "none"]
    /\ \E reason \in Reasons \ {"notReady"} : OperationEnds(c, z, reason)
    /\ UNCHANGED <<ice, node, creates, restarts, blind>>

(* A VM is preempted and deleted, or deleted by hand. *)
Disappears(c, z) ==
    /\ vm[c][z] = "running"
    /\ vm' = [vm EXCEPT ![c][z] = "none"]
    /\ UNCHANGED <<ice, call, node, creates, restarts, blind>>

Next ==
    \/ \E c \in Claims :
        \/ CreateRefused(c)
        \/ CreateAdopting(c)
        \/ CreateLaunching(c)
        \/ CreateStep(c)
        \/ CoreHandles(c)
        \/ \E z \in Zones :
            \/ OperationDone(c, z)
            \/ OperationFails(c, z)
            \/ Disappears(c, z)
    \/ Restart
    \/ IceExpires

Spec == Init /\ [][Next]_vars

(* A call that is running goes on: every API call of it ends, and the wait *)
(* for an operation ends after defaultZoneOperationTimeout.                *)
FairSpec == Spec /\ \A c \in Claims : WF_vars(CreateStep(c))

-----------------------------------------------------------------------------

(* Every variable has its type. *)
TypeOK ==
    /\ vm \in [Claims -> [Zones -> {"none", "provisioning", "running"}]]
    /\ ice \subseteq Offerings
    /\ call \in [Claims -> Calls]
    /\ node \in [Claims -> [status : {"pending", "launched", "deleted"},
                            zone : Zones \cup {NoZone}]]
    /\ creates \in [Claims -> 0..MaxCreates]
    /\ restarts \in 0..MaxRestarts
    /\ blind \subseteq Claims

(* Unless the region-wide lookup of a call failed, a NodeClaim never has   *)
(* two VMs, however many calls, restarts, lost answers and timed out waits *)
(* there were, and a launched NodeClaim has none besides the one it is     *)
(* registered with.                                                        *)
OneVMPerNodeClaim ==
    \A c \in Claims \ blind :
        /\ \A y, z \in VMs(c) : y = z
        /\ node[c].status = "launched" => VMs(c) \subseteq {node[c].zone}

(* What keeps OneVMPerNodeClaim true.  While a call runs, the VMs of its   *)
(* NodeClaim are in the zones the next check looks at; when it inserts     *)
(* there are none; an operation that failed has left none.                 *)
AccountedFor(c) ==
    LET r == call[c] IN
    /\ r.pc \in {"bootstrap", "check", "insert", "wait"} => r.type \in Types
    /\ r.pc = "wait" => r.zone \in Zones
    /\ node[c].status = "launched" => r.pc = "idle"
    /\ c \notin blind =>
        /\ r.pc \in {"select", "bootstrap", "check"} =>
                VMs(c) \subseteq r.attempted
        /\ r.pc = "insert" => VMs(c) = {}
        /\ r.pc = "wait" => /\ VMs(c) \subseteq {r.zone}
                            /\ r.operation \in Reasons => VMs(c) = {}
        /\ r.pc \in {"resolve", "returned"} /\ r.result \in {"created", "adopted"}
                => VMs(c) \subseteq {r.zone}
        /\ node[c].status = "launched" => VMs(c) \subseteq {node[c].zone}
        /\ \A y, z \in VMs(c) : y = z

Accounted == \A c \in Claims : AccountedFor(c)

(* requestedZones reads the zones a NotIn excludes as the ones asked for   *)
(* (instance.go:850-858).  For spot cheapestCompatibleZone checks the      *)
(* requirement again; for on-demand nothing does.                          *)
RequirementMisread(c, ct) == ZoneReq[c].op = "NotIn" /\ ct = "on-demand"

(* Zone selection works "honoring topology constraints"                    *)
(* (instance.go:915-916) in every case but one: a VM, and the zone of an   *)
(* insert, is where the NodeClaim's requirement allows it, unless the      *)
(* requirement is a NotIn and the VM an on-demand one.                     *)
TopologyHonoured ==
    \A c \in Claims :
        /\ ~RequirementMisread(c, "on-demand") => \A z \in VMs(c) : ZoneAllowed(c, z)
        /\ /\ call[c].pc \in {"insert", "wait"} /\ call[c].zone # NoZone
           /\ ~RequirementMisread(c, call[c].ct)
           => ZoneAllowed(c, call[c].zone)

(* An attempt that ends with a VM has not marked its offering unavailable  *)
(* on the way: "otherwise a successful fallback still evicts the offering" *)
(* (instance.go:374).                                                      *)
SuccessNeverEvicts ==
    \A c \in Claims : call[c].result = "created" => ~call[c].evicted

(* On-demand is tried in place of spot only when every spot attempt failed *)
(* for lack of capacity (fallBackToOnDemand).                              *)
FallbackOnlyForCapacity ==
    \A c \in Claims : call[c].fellBack => ~call[c].disturbed

(* Every Create call ends. *)
CreateReturns ==
    \A c \in Claims :
        call[c].pc # "idle" ~> call[c].pc \in {"idle", "returned"}

=============================================================================
