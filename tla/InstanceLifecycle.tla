------------------------- MODULE InstanceLifecycle -------------------------
(***************************************************************************)
(* What becomes of a VM after its insert: registration with the NodeClaim, *)
(* deletion with the NodeClaim (CloudProvider.Delete), and the garbage     *)
(* collection of VMs without a NodeClaim                                   *)
(* (pkg/controllers/nodeclaim/garbagecollection/controller.go), which      *)
(* works on the instance cache that syncInstances fills                    *)
(* (pkg/providers/instance/instance.go).                                   *)
(*                                                                         *)
(* A VM is named after its NodeClaim, so a name stands for both.  The      *)
(* instance cache has one entry per name, and a provider ID is a name and  *)
(* a zone.  Create is reduced to what module Launch shows of it: it adopts *)
(* a VM of its name or inserts one, waits for at most Wait ticks, and its  *)
(* result reaches the NodeClaim some time after it returns.                *)
(*                                                                         *)
(* Time passes in ticks.  Entries of the instance cache live for 15        *)
(* seconds, less than a tick: they may expire at any time, except between  *)
(* filling the cache and reading it, where nothing blocks.                 *)
(***************************************************************************)
EXTENDS Naturals, Sequences

CONSTANTS
    Claims,         \* names, of VMs and of their NodeClaims
    Readers,        \* who calls List: "gc", or "gc" and "core"
    ZoneOrder,      \* the region's zones in the order of Regions.Get
    NoZone,
    gcGracePeriod,
    Wait,           \* defaultZoneOperationTimeout
    PatchDelay,     \* how long the result of Create may stay unwritten
    MaxBlind        \* bound: inserts after a failed lookup (see Launch)

Zones == {ZoneOrder[i] : i \in 1..Len(ZoneOrder)}

ASSUME LifecycleAssumption ==
    /\ {"gc"} \subseteq Readers /\ Readers \subseteq {"gc", "core"}
    /\ NoZone \notin Zones
    /\ gcGracePeriod \in Nat
    /\ Wait \in Nat
    /\ PatchDelay \in Nat
    /\ Wait + PatchDelay < gcGracePeriod
    /\ MaxBlind \in Nat

VARIABLES
    vm,       \* name -> zone -> the VM and its age
    claim,    \* name -> the NodeClaim, and whose the VMs of this name are
    call,     \* name -> the Create call
    cache,    \* instanceCache: name -> what is known of its VM
    reader,   \* the GC controller's and core's use of List
    blind

vars == <<vm, claim, call, cache, reader, blind>>

(* "deleting" and "stopping" are both STOPPING to the controller: the      *)
(* former ends with the VM gone, the latter with it TERMINATED.            *)
Live == {"provisioning", "running"}
Dying == {"deleting", "stopping", "terminated"}

NoVM == [state |-> "none", age |-> 0]
NoEntry == [zone |-> NoZone, dying |-> FALSE, age |-> 0]
NoCall == [step |-> "idle", zone |-> NoZone, inserted |-> FALSE, waited |-> 0]
Resting == [pc |-> "idle", at |-> 1, seen |-> [c \in Claims |-> NoEntry],
            list |-> [c \in Claims |-> NoEntry], known |-> {}]

(* The cluster-location label of a name's VMs; it never changes. *)
Labels == {"ours", "other", "none"}
Label(c) == claim[c].label

VMs(c) == {z \in Zones : vm[c][z].state # "none"}

(* A NodeClaim of this cluster starts without a VM; a VM of another        *)
(* cluster or of an old release runs without a NodeClaim.                  *)
Init ==
    /\ claim \in {[c \in Claims |->
                      [phase |-> IF l[c] = "ours" THEN "pending" ELSE "gone",
                       id |-> NoZone, registered |-> FALSE, label |-> l[c]]] :
                  l \in [Claims -> Labels]}
    /\ vm \in {[c \in Claims |-> [z \in Zones |->
                    IF Label(c) # "ours" /\ z = home
                    THEN [state |-> "running", age |-> gcGracePeriod]
                    ELSE NoVM]] : home \in Zones}
    /\ call = [c \in Claims |-> NoCall]
    /\ cache = [c \in Claims |-> NoEntry]
    /\ reader = [s \in Readers |-> Resting]
    /\ blind = 0

Becomes(c, z, state) ==
    [vm EXCEPT ![c][z] = [state |-> state,
                          age |-> IF state \in Live THEN @.age ELSE 0]]

-----------------------------------------------------------------------------
(* Create, and core's handling of its result.                              *)

Creating(c) == claim[c].phase = "pending" /\ call[c].step = "idle"

(* The lookup may fail, and then a VM in another zone does not count. *)
CreateInserts(c, z) ==
    /\ Creating(c)
    /\ vm[c][z].state = "none"
    /\ \/ VMs(c) = {} /\ UNCHANGED blind
       \/ VMs(c) # {} /\ blind < MaxBlind /\ blind' = blind + 1
    /\ vm' = [vm EXCEPT ![c][z] = [state |-> "provisioning", age |-> 0]]
    /\ call' = [call EXCEPT ![c] = [step |-> "wait", zone |-> z,
                                    inserted |-> TRUE, waited |-> 0]]
    /\ UNCHANGED <<claim, cache, reader>>

(* Adopt takes a VM in whatever state it is; its age is unknown. *)
CreateAdopts(c, z) ==
    /\ Creating(c)
    /\ z \in VMs(c)
    /\ call' = [call EXCEPT ![c] = [step |-> "returned", zone |-> z,
                                    inserted |-> FALSE, waited |-> 0]]
    /\ UNCHANGED <<vm, claim, cache, reader, blind>>

CreateDone(c) ==
    /\ call[c].step = "wait"
    /\ vm[c][call[c].zone].state # "provisioning"
    /\ call' = [call EXCEPT ![c].step = "returned"]
    /\ UNCHANGED <<vm, claim, cache, reader, blind>>

(* The call gives up, at the latest when the wait times out.  Core deletes *)
(* the NodeClaim if it takes the error for a lack of capacity.             *)
CreateFails(c) ==
    /\ call[c].step = "wait"
    /\ call' = [call EXCEPT ![c] = NoCall]
    /\ \/ UNCHANGED claim
       \/ claim' = [claim EXCEPT ![c].phase = "deleting"]
    /\ UNCHANGED <<vm, cache, reader, blind>>

(* Core patches the NodeClaim with the provider ID.  A patch that fails is *)
(* repeated, unless the NodeClaim is being deleted by then.                *)
Patched(c) ==
    /\ call[c].step = "returned"
    /\ call' = [call EXCEPT ![c] = NoCall]
    /\ \/ /\ claim' = [claim EXCEPT ![c].id = call[c].zone,
                                    ![c].phase = IF @ = "pending" THEN "known"
                                                                  ELSE @]
       \/ claim[c].phase = "deleting" /\ UNCHANGED claim
    /\ UNCHANGED <<vm, cache, reader, blind>>

Registers(c) ==
    /\ claim[c].phase = "known"
    /\ ~claim[c].registered
    /\ vm[c][claim[c].id].state = "running"
    /\ claim' = [claim EXCEPT ![c].registered = TRUE]
    /\ UNCHANGED <<vm, call, cache, reader, blind>>

(* Somebody deletes the NodeClaim: a user, a disruption, the interruption  *)
(* controller, a launch or registration time-out.                          *)
ClaimDeleted(c) ==
    /\ claim[c].phase \in {"pending", "known"}
    /\ claim' = [claim EXCEPT ![c].phase = "deleting"]
    /\ UNCHANGED <<vm, call, cache, reader, blind>>

-----------------------------------------------------------------------------
(* CloudProvider.Delete.                                                   *)

(* Plausible slips: a VM that does not run yet, and a TERMINATED one. *)
NotFoundWhenStarting(c, z) == vm[c][z].state # "running"

NotFoundWhenGone(c, z) == vm[c][z].state = "none"

(* A VM that is gone or TERMINATED is reported as not found. *)
NotFound(c, z) == vm[c][z].state \in {"none", "terminated"}

(* The state is read first; a VM that is STOPPING is left alone. *)
Delete(c, z) ==
    vm' = IF vm[c][z].state \in Live THEN Becomes(c, z, "deleting") ELSE vm

(* Core finalizes a NodeClaim when no Create call of it runs: it asks for  *)
(* the deletion until the VM is not found.  An error is retried.           *)
Finalize(c) ==
    LET z == claim[c].id IN
    /\ claim[c].phase = "deleting"
    /\ call[c].step = "idle"
    /\ \/ /\ z # NoZone => NotFound(c, z)
          /\ claim' = [claim EXCEPT ![c].phase = "gone", ![c].registered = FALSE]
          /\ UNCHANGED vm
       \/ /\ z # NoZone /\ ~NotFound(c, z)
          /\ Delete(c, z)
          /\ UNCHANGED claim
    /\ UNCHANGED <<call, cache, reader, blind>>

-----------------------------------------------------------------------------
(* List: every zone is listed, then the cache is filled, then it is read.  *)

Step(s, r) == reader' = [reader EXCEPT ![s] = r]

ListStarts(s) ==
    /\ reader[s].pc = "idle"
    /\ Step(s, [Resting EXCEPT !.pc = "sync",
                  !.known = IF s = "gc" THEN {}
                            ELSE {<<c, claim[c].id>> : c \in
                                    {d \in Claims : claim[d].registered}}])
    /\ UNCHANGED <<vm, claim, call, cache, blind>>

(* A plausible slip: the page overwrites what earlier zones returned. *)
SyncZoneForgetting(s) ==
    LET z == ZoneOrder[reader[s].at]
        entry(c) == [zone |-> z, dying |-> vm[c][z].state \in Dying,
                     age |-> vm[c][z].age]
    IN
    /\ reader[s].pc = "sync"
    /\ reader[s].at <= Len(ZoneOrder)
    /\ Step(s, [reader[s] EXCEPT
                !.at = @ + 1,
                !.seen = [c \in Claims |->
                            IF z \in VMs(c) /\ Label(c) # "other"
                            THEN entry(c) ELSE NoEntry]])
    /\ UNCHANGED <<vm, claim, call, cache, blind>>

(* The VMs of the next zone; those of other clusters are dropped by        *)
(* belongsToCluster.                                                       *)
SyncZone(s) ==
    LET z == ZoneOrder[reader[s].at]
        entry(c) == [zone |-> z, dying |-> vm[c][z].state \in Dying,
                     age |-> vm[c][z].age]
    IN
    /\ reader[s].pc = "sync"
    /\ reader[s].at <= Len(ZoneOrder)
    /\ Step(s, [reader[s] EXCEPT
                !.at = @ + 1,
                !.seen = [c \in Claims |->
                            IF z \in VMs(c) /\ Label(c) # "other"
                            THEN entry(c) ELSE reader[s].seen[c]]])
    /\ UNCHANGED <<vm, claim, call, cache, blind>>

(* The cache is keyed by the name alone: of two VMs of one name the one    *)
(* listed last remains.                                                    *)
FillCache(s) ==
    /\ reader[s].pc = "sync"
    /\ reader[s].at > Len(ZoneOrder)
    /\ cache' = [c \in Claims |-> IF reader[s].seen[c] # NoEntry
                                  THEN reader[s].seen[c] ELSE cache[c]]
    /\ Step(s, [Resting EXCEPT !.pc = "items", !.known = reader[s].known])
    /\ UNCHANGED <<vm, claim, call, blind>>

(* instanceCache.Items, with what earlier calls left in the cache. *)
ReadItems(s) ==
    /\ reader[s].pc = "items"
    /\ Step(s, [reader[s] EXCEPT !.pc = IF s = "gc" THEN "claims" ELSE "collect",
                                 !.list = cache])
    /\ UNCHANGED <<vm, claim, call, cache, blind>>

(* A zone, an instance type or the NodeClaims cannot be read. *)
ListFails(s) ==
    /\ reader[s].pc \in {"sync", "items", "claims"}
    /\ Step(s, Resting)
    /\ UNCHANGED <<vm, claim, call, cache, blind>>

CacheExpires(c) ==
    /\ cache[c] # NoEntry
    /\ \A s \in Readers : reader[s].pc # "items"
    /\ cache' = [cache EXCEPT ![c] = NoEntry]
    /\ UNCHANGED <<vm, claim, call, reader, blind>>

(* Core deletes registered NodeClaims whose VM List did not return, unless *)
(* the node is still ready.                                                *)
CoreCollects(s) ==
    LET r == reader[s]
        lost(c) == /\ <<c, claim[c].id>> \in r.known
                   /\ ~(r.list[c].zone = claim[c].id /\ ~r.list[c].dying)
                   /\ vm[c][claim[c].id].state # "running"
    IN
    /\ r.pc = "collect"
    /\ claim' = [c \in Claims |->
                    IF claim[c].phase = "known" /\ lost(c)
                    THEN [claim[c] EXCEPT !.phase = "deleting"] ELSE claim[c]]
    /\ Step(s, Resting)
    /\ UNCHANGED <<vm, call, cache, blind>>

-----------------------------------------------------------------------------
(* The garbage collection controller.                                      *)

ListClaims ==
    /\ reader["gc"].pc = "claims"
    /\ Step("gc", [reader["gc"] EXCEPT
                    !.pc = "delete",
                    !.known = {<<c, claim[c].id>> : c \in
                                {d \in Claims : /\ claim[d].phase # "gone"
                                                /\ claim[d].id # NoZone}}])
    /\ UNCHANGED <<vm, claim, call, cache, blind>>

(* Plausible slips: the grace period, the cluster label. *)
isOrphanedAtOnce(c) ==
    LET e == reader["gc"].list[c] IN
    /\ ~e.dying
    /\ <<c, e.zone>> \notin reader["gc"].known
    /\ Label(c) = "ours"

isOrphaned(c) ==
    LET e == reader["gc"].list[c] IN
    /\ ~e.dying
    /\ <<c, e.zone>> \notin reader["gc"].known
    /\ e.age >= gcGracePeriod
    /\ Label(c) = "ours"

Handled(c) == Step("gc", [reader["gc"] EXCEPT !.list[c] = NoEntry])

Listed(c) == reader["gc"].pc = "delete" /\ reader["gc"].list[c] # NoEntry

(* An instance that is not orphaned, or whose deletion fails, is passed    *)
(* over.                                                                   *)
SkipInstance(c) ==
    /\ Listed(c)
    /\ Handled(c)
    /\ UNCHANGED <<vm, claim, call, cache, blind>>

DeleteOrphan(c) ==
    /\ Listed(c)
    /\ isOrphaned(c)
    /\ Delete(c, reader["gc"].list[c].zone)
    /\ Handled(c)
    /\ UNCHANGED <<claim, call, cache, blind>>

GCDone ==
    /\ reader["gc"].pc = "delete"
    /\ \A c \in Claims : ~Listed(c)
    /\ Step("gc", Resting)
    /\ UNCHANGED <<vm, claim, call, cache, blind>>

-----------------------------------------------------------------------------
(* GCE, the clock and restarts of the controller.                          *)

(* An insert's operation ends; a deletion is completed; a VM is stopped    *)
(* from inside, and has stopped; a running VM is deleted by GCE            *)
(* (preemption) or by hand.                                                *)
VMChanges(c, z, from, to) ==
    /\ vm[c][z].state = from
    /\ vm' = Becomes(c, z, to)
    /\ UNCHANGED <<claim, call, cache, reader, blind>>

OperationEnds(c, z) ==
    \/ VMChanges(c, z, "provisioning", "running")
    \/ VMChanges(c, z, "provisioning", "none")

DeletionEnds(c, z) == VMChanges(c, z, "deleting", "none")

StopEnds(c, z) == VMChanges(c, z, "stopping", "terminated")

Stopped(c, z) ==
    \/ VMChanges(c, z, "running", "stopping")
    \/ VMChanges(c, z, "running", "deleting")

Older(age) == IF age < gcGracePeriod THEN age + 1 ELSE age

OlderEntries(f) ==
    [c \in Claims |-> IF f[c] = NoEntry \/ f[c].dying THEN f[c]
                      ELSE [f[c] EXCEPT !.age = Older(@)]]

(* No wait outlasts its time-out, and no result stays unwritten for longer *)
(* than PatchDelay.                                                        *)
TimeLeft(c) ==
    call[c].inserted =>
        call[c].waited < IF call[c].step = "wait" THEN Wait ELSE Wait + PatchDelay

Tick ==
    /\ \A c \in Claims : TimeLeft(c)
    /\ vm' = [c \in Claims |-> [z \in Zones |->
                IF vm[c][z].state \in Live
                THEN [vm[c][z] EXCEPT !.age = Older(@)] ELSE vm[c][z]]]
    /\ call' = [c \in Claims |->
                    IF call[c].inserted
                    THEN [call[c] EXCEPT !.waited = @ + 1] ELSE call[c]]
    /\ cache' = OlderEntries(cache)
    /\ reader' = [s \in Readers |->
                    [reader[s] EXCEPT !.seen = OlderEntries(@),
                                      !.list = OlderEntries(@)]]
    /\ UNCHANGED <<claim, blind>>

Restart ==
    /\ call' = [c \in Claims |-> NoCall]
    /\ cache' = [c \in Claims |-> NoEntry]
    /\ reader' = [s \in Readers |-> Resting]
    /\ UNCHANGED <<vm, claim, blind>>

Next ==
    \/ \E c \in Claims :
        \/ \E z \in Zones :
            \/ CreateInserts(c, z)
            \/ CreateAdopts(c, z)
            \/ OperationEnds(c, z)
            \/ DeletionEnds(c, z)
            \/ StopEnds(c, z)
            \/ Stopped(c, z)
        \/ CreateDone(c)
        \/ CreateFails(c)
        \/ Patched(c)
        \/ Registers(c)
        \/ ClaimDeleted(c)
        \/ Finalize(c)
        \/ CacheExpires(c)
        \/ SkipInstance(c)
        \/ DeleteOrphan(c)
    \/ \E s \in Readers :
        \/ ListStarts(s)
        \/ SyncZone(s)
        \/ FillCache(s)
        \/ ReadItems(s)
        \/ ListFails(s)
        \/ CoreCollects(s)
    \/ ListClaims
    \/ GCDone
    \/ Tick
    \/ Restart

Spec == Init /\ [][Next]_vars

(* Steps that may leave the state a restart would leave. *)
ResetsByItself ==
    \/ GCDone
    \/ \E s \in Readers : CoreCollects(s)
    \/ \E c \in Claims : CacheExpires(c) \/ CreateFails(c) \/ Patched(c)

(* One round of the GC controller; its steps exclude each other. *)
GCStep ==
    \/ ListStarts("gc") \/ SyncZone("gc") \/ FillCache("gc") \/ ReadItems("gc")
    \/ ListClaims \/ GCDone
    \/ \E c \in Claims : SkipInstance(c)

(* Core retries Finalize every few seconds and the GC controller runs      *)
(* every two minutes; operations and calls end.  List is not interrupted   *)
(* by errors or restarts for ever, and the deletion of an orphan that is   *)
(* asked for again and again is accepted once.                             *)
Fairness ==
    /\ \A c \in Claims :
        /\ WF_vars(Finalize(c))
        /\ WF_vars(Patched(c) \/ CreateDone(c) \/ CreateFails(c))
        /\ SF_vars(DeleteOrphan(c))
        /\ \A z \in Zones : WF_vars(DeletionEnds(c, z) \/ StopEnds(c, z))
    /\ WF_vars(GCStep)
    /\ WF_vars(Tick)
    /\ <>[][~ListFails("gc") /\ (Restart => ResetsByItself)]_vars

FairSpec == Spec /\ Fairness

-----------------------------------------------------------------------------

(* Once core has removed the finalizer of a NodeClaim that got a provider  *)
(* ID, the VM of that ID no longer runs: Delete reports NotFound only for  *)
(* a VM that is gone or TERMINATED, and nothing brings it back.            *)
DeletedWithNodeClaim ==
    \A c \in Claims :
        claim[c].phase = "gone" /\ claim[c].id # NoZone
            => vm[c][claim[c].id].state \notin Live

(* The GC controller deletes this VM in this step. *)
Collects(c, z) ==
    /\ vm[c][z].state \in Live
    /\ vm'[c][z].state = "deleting"
    /\ reader'["gc"] # reader["gc"]

(* The grace period of isOrphaned does what its comment says: a VM is not  *)
(* collected before the call that inserted it has had its result written   *)
(* to the NodeClaim.  (The VM deleted is the VM listed: a VM that took the *)
(* name and zone of the listed one in between is younger than the entry.)  *)
AwaitedSpared ==
    [][\A c \in Claims, z \in Zones :
            Collects(c, z) /\ vm[c][z].age = reader["gc"].list[c].age
                => ~(call[c].inserted /\ call[c].zone = z)]_vars

(* A NodeClaim that is being deleted goes away in the end, whatever the    *)
(* launch and the VM are doing.                                            *)
DeletionCompletes ==
    \A c \in Claims : claim[c].phase = "deleting" ~> claim[c].phase = "gone"

(* No NodeClaim has this VM's provider ID or will get it. *)
Orphaned(c, z) ==
    /\ Label(c) = "ours"
    /\ \/ claim[c].phase = "gone"
       \/ claim[c].phase = "known" /\ claim[c].id # z

(* List shows this VM: the cache has one entry for a name, syncInstances   *)
(* writes the zones in order, and the VM of the last one remains.          *)
Shown(c, z) ==
    \E i \in 1..Len(ZoneOrder) :
        /\ ZoneOrder[i] = z
        /\ \A j \in (i + 1)..Len(ZoneOrder) : ZoneOrder[j] \notin VMs(c)

(* The GC controller "periodically finds GCE instances tagged as           *)
(* Karpenter-managed but not tracked by any NodeClaim, and deletes them":  *)
(* a running VM without a NodeClaim does not run for ever, as long as no   *)
(* VM of the same name in a later zone hides it.                           *)
OrphansStopped ==
    \A c \in Claims, z \in Zones :
        Orphaned(c, z) /\ Shown(c, z) /\ vm[c][z].state \in Live
            ~> vm[c][z].state \notin Live \/ ~Orphaned(c, z) \/ ~Shown(c, z)
=============================================================================
