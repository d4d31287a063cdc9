------------------------------ MODULE Bootstrap ------------------------------
(***************************************************************************)
(* Where new nodes get their bootstrap configuration from.  The controller *)
(* pkg/controllers/nodepooltemplate keeps choosing a node pool of the      *)
(* cluster as the source, and creates the pool karpenter-fallback when it  *)
(* finds none (pkg/providers/nodepooltemplate/nodepooltemplate.go).  Every *)
(* launch reads the metadata of the instance template that the source pool *)
(* is running (sourcetemplate.go), one request after the other, while GKE  *)
(* may be rolling out a new template to the pool.                          *)
(*                                                                         *)
(* The templates of a pool are numbered in the order of their creation.    *)
(* GKE leaves superseded ones in place until the pool is deleted.  The     *)
(* status of a pool is "running", "withError", "none" when it is absent, or *)
(* "busy": GKE's other statuses all mean the same to the controller.       *)
(***************************************************************************)
EXTENDS Naturals, Sequences, FiniteSets, FiniteSetsExt

CONSTANTS
    PoolOrder,          \* names of pools in lexicographic order
    DefaultPool,        \* default-pool
    Fallback,           \* karpenter-fallback
    NoPool,
    Groups,             \* managed instance groups of a pool, one per zone
    PreferredPools,     \* values of DEFAULT_NODEPOOL_TEMPLATE_NAME
    Callers,            \* launches
    MaxTemplates,       \* bound: pool -> templates of it
    MaxDeletes          \* bound: pools that are deleted

Pools == {PoolOrder[i] : i \in 1..Len(PoolOrder)}
Place(p) == CHOOSE i \in 1..Len(PoolOrder) : PoolOrder[i] = p

ASSUME BootstrapAssumption ==
    /\ \A i, j \in 1..Len(PoolOrder) : PoolOrder[i] = PoolOrder[j] => i = j
    /\ {DefaultPool, Fallback} \subseteq Pools
    /\ NoPool \notin Pools
    /\ PreferredPools \subseteq Pools \cup {NoPool}
    /\ Groups # {} /\ IsFiniteSet(Groups)
    /\ MaxTemplates \in [Pools -> Nat \ {0}]
    /\ MaxDeletes \in Nat

VARIABLES
    pool,           \* the node pools, in GKE
    preferred,      \* preferredPoolName
    sourcePoolName,
    ctl,            \* the controller: "idle", or in EnsureFallbackPool
    call,           \* caller -> its GetSourceTemplateMetadata
    deletes

vars == <<pool, preferred, sourcePoolName, ctl, call, deletes>>

(* A group names a template, and during an update also versions. *)
Running(t) == [g \in Groups |-> [top |-> t, versions |-> {}]]

NewPool(status) == [status |-> status, newest |-> 1, groups |-> Running(1)]
Absent == [status |-> "none", newest |-> 0, groups |-> Running(0)]
NoCall == [pc |-> "idle", pool |-> NoPool, todo |-> {}, found |-> {},
           floor |-> 0, result |-> 0]

Init ==
    /\ pool \in {[p \in Pools |-> IF p \in known THEN NewPool("running") ELSE Absent] :
                 known \in SUBSET (Pools \ {Fallback})}
    /\ preferred \in PreferredPools
    /\ sourcePoolName = NoPool
    /\ ctl = "idle"
    /\ call = [c \in Callers |-> NoCall]
    /\ deletes = 0

-----------------------------------------------------------------------------
(* Controller.Reconcile: Sync, and EnsureFallbackPool if it fails.         *)

isPoolEligible(p) == pool[p].status \in {"running", "withError"}

eligiblePools == {p \in Pools \ {DefaultPool} : isPoolEligible(p)}

(* A plausible slip: the fallback pool is sorted like any other. *)
sortsByName(p, q) == Place(p) < Place(q)

(* By name, karpenter-fallback last. *)
sortsBefore(p, q) == p # Fallback /\ (q = Fallback \/ Place(p) < Place(q))

(* The default pool, or else the first of the sorted ones. *)
selectFromClusterPools ==
    LET first == {p \in eligiblePools :
                    \A q \in eligiblePools \ {p} : sortsBefore(p, q)}
    IN
    CASE isPoolEligible(DefaultPool) -> DefaultPool
      [] ~isPoolEligible(DefaultPool) /\ first # {} -> CHOOSE p \in first : TRUE
      [] OTHER -> NoPool

discoverSourcePool ==
    IF preferred = NoPool THEN selectFromClusterPools
    ELSE IF isPoolEligible(preferred) THEN preferred ELSE NoPool

(* A plausible slip: the pool is discovered once. *)
SyncOnce ==
    LET selected == discoverSourcePool IN
    /\ ctl = "idle"
    /\ sourcePoolName = NoPool
    /\ IF selected # NoPool
       THEN sourcePoolName' = selected /\ UNCHANGED ctl
       ELSE ctl' = "get" /\ UNCHANGED sourcePoolName
    /\ UNCHANGED <<pool, preferred, call, deletes>>

Sync ==
    LET selected == discoverSourcePool IN
    /\ ctl = "idle"
    /\ IF selected # NoPool
       THEN sourcePoolName' = selected /\ UNCHANGED ctl
       ELSE ctl' = "get" /\ UNCHANGED sourcePoolName
    /\ UNCHANGED <<pool, preferred, call, deletes>>

(* The pools cannot be read: this, too, leads to EnsureFallbackPool. *)
SyncFails ==
    /\ ctl = "idle"
    /\ ctl' = "get"
    /\ UNCHANGED <<pool, preferred, sourcePoolName, call, deletes>>

(* The fallback pool exists, or it cannot be read: that ends the           *)
(* reconcile, unless the error is not one of the API; then, as after a     *)
(* 404, the pool is created.                                               *)
EnsureGet ==
    /\ ctl = "get"
    /\ ctl' = IF pool[Fallback].status = "none" THEN "create" ELSE "idle"
    /\ UNCHANGED <<pool, preferred, sourcePoolName, call, deletes>>

EnsureGetFails ==
    /\ ctl = "get"
    /\ ctl' \in {"idle", "create"}
    /\ UNCHANGED <<pool, preferred, sourcePoolName, call, deletes>>

(* A conflict means the pool exists. *)
EnsureCreate ==
    /\ ctl = "create"
    /\ pool' = IF pool[Fallback].status = "none"
               THEN [pool EXCEPT ![Fallback] = NewPool("busy")] ELSE pool
    /\ ctl' = "idle"
    /\ UNCHANGED <<preferred, sourcePoolName, call, deletes>>

EnsureCreateFails ==
    /\ ctl = "create"
    /\ ctl' = "idle"
    /\ UNCHANGED <<pool, preferred, sourcePoolName, call, deletes>>

-----------------------------------------------------------------------------
(* GetSourceTemplateMetadata.                                              *)

(* A plausible slip: the template of a group in an update. *)
topTemplateOnly(group) == {group.top}

(* Versions override the top-level template. *)
instanceGroupTemplateURLs(group) ==
    IF group.versions = {} THEN {group.top} ELSE group.versions

(* The newest template that a pool is running. *)
Live(p) ==
    Max(UNION {pool[p].groups[g].versions \cup {pool[p].groups[g].top} : g \in Groups})

Step(c, r) == call' = [call EXCEPT ![c] = r]

GetSourceTemplateMetadata(c) ==
    /\ call[c].pc = "idle"
    /\ sourcePoolName # NoPool
    /\ Step(c, [NoCall EXCEPT !.pc = "pool", !.pool = sourcePoolName,
                              !.floor = Live(sourcePoolName)])
    /\ UNCHANGED <<pool, preferred, sourcePoolName, ctl, deletes>>

(* The pool names its groups. *)
GetNodePool(c) ==
    /\ call[c].pc = "pool"
    /\ pool[call[c].pool].status # "none"
    /\ Step(c, [call[c] EXCEPT !.pc = "groups", !.todo = Groups])
    /\ UNCHANGED <<pool, preferred, sourcePoolName, ctl, deletes>>

GetInstanceGroup(c, g) ==
    /\ call[c].pc = "groups"
    /\ g \in call[c].todo
    /\ pool[call[c].pool].status # "none"
    /\ Step(c, [call[c] EXCEPT
            !.todo = @ \ {g},
            !.found = @ \cup instanceGroupTemplateURLs(pool[call[c].pool].groups[g])])
    /\ UNCHANGED <<pool, preferred, sourcePoolName, ctl, deletes>>

(* The templates are fetched, and the newest is returned. *)
GetTemplates(c) ==
    /\ call[c].pc = "groups"
    /\ call[c].todo = {}
    /\ pool[call[c].pool].status # "none"
    /\ Step(c, [call[c] EXCEPT !.pc = "done", !.result = Max(call[c].found)])
    /\ UNCHANGED <<pool, preferred, sourcePoolName, ctl, deletes>>

(* Anything that cannot be read fails the whole chain. *)
ChainFails(c) ==
    /\ call[c].pc \in {"pool", "groups"}
    /\ Step(c, [call[c] EXCEPT !.pc = "scan", !.todo = {}, !.found = {}])
    /\ UNCHANGED <<pool, preferred, sourcePoolName, ctl, deletes>>

(* resolveTemplateByLabelScan: all templates of the pool, also those that  *)
(* are not rolled out yet.  Without one the call fails.                    *)
LabelScan(c) ==
    LET newest == pool[call[c].pool].newest IN
    /\ call[c].pc = "scan"
    /\ Step(c, IF newest = 0 THEN NoCall
               ELSE [call[c] EXCEPT !.pc = "done", !.result = newest])
    /\ UNCHANGED <<pool, preferred, sourcePoolName, ctl, deletes>>

(* The caller has its result, or the scan or the caller's context ended.   *)
Returns(c) ==
    /\ call[c].pc \in {"scan", "done"}
    /\ Step(c, NoCall)
    /\ UNCHANGED <<pool, preferred, sourcePoolName, ctl, deletes>>

-----------------------------------------------------------------------------
(* GKE and its users.                                                      *)

PoolChanges(p, r) ==
    /\ pool' = [pool EXCEPT ![p] = r]
    /\ UNCHANGED <<preferred, sourcePoolName, ctl, call, deletes>>

CreatePool(p) ==
    /\ p # Fallback
    /\ pool[p].status = "none"
    /\ PoolChanges(p, NewPool("busy"))

RollingOut(p) == \E g \in Groups : pool[p].groups[g] # Running(pool[p].newest)[g]

Settle(p) ==
    /\ pool[p].status = "busy"
    /\ ~RollingOut(p)
    /\ \E s \in {"running", "withError"} : PoolChanges(p, [pool[p] EXCEPT !.status = s])

(* An upgrade or a rotation of credentials: a new template ... *)
RolloutStarts(p) ==
    /\ isPoolEligible(p)
    /\ pool[p].newest < MaxTemplates[p]
    /\ PoolChanges(p, [pool[p] EXCEPT !.status = "busy", !.newest = @ + 1])

(* ... replaces the old one, group by group. *)
RolloutGroup(p, g) ==
    LET n == pool[p].newest
        group == pool[p].groups[g]
    IN
    /\ group.top # n
    /\ PoolChanges(p, [pool[p] EXCEPT !.groups[g] =
            IF group.versions = {} THEN [group EXCEPT !.versions = {group.top, n}]
            ELSE [top |-> n, versions |-> {}]])

(* A pool is deleted; what a call found out about it before counts no more.*)
DeletePool(p) ==
    /\ deletes < MaxDeletes
    /\ pool[p].status # "none"
    /\ pool' = [pool EXCEPT ![p] = Absent]
    /\ call' = [c \in Callers |-> IF call[c].pool = p
                                  THEN [call[c] EXCEPT !.floor = 0] ELSE call[c]]
    /\ deletes' = deletes + 1
    /\ UNCHANGED <<preferred, sourcePoolName, ctl>>

CallStep(c) ==
    \/ GetSourceTemplateMetadata(c)
    \/ GetNodePool(c)
    \/ \E g \in Groups : GetInstanceGroup(c, g)
    \/ GetTemplates(c)
    \/ ChainFails(c)
    \/ LabelScan(c)
    \/ Returns(c)

Next ==
    \/ Sync
    \/ SyncFails
    \/ EnsureGet
    \/ EnsureGetFails
    \/ EnsureCreate
    \/ EnsureCreateFails
    \/ \E c \in Callers : CallStep(c)
    \/ \E p \in Pools :
        \/ CreatePool(p)
        \/ Settle(p)
        \/ RolloutStarts(p)
        \/ \E g \in Groups : RolloutGroup(p, g)
        \/ DeletePool(p)

Spec == Init /\ [][Next]_vars

(* The controller is requeued after 15 seconds, 12 minutes or a back-off,  *)
(* and its calls do not fail for ever; GKE finishes what it has started.   *)
FairSpec ==
    /\ Spec
    /\ SF_vars(Sync)
    /\ SF_vars(EnsureGet)
    /\ SF_vars(EnsureCreate)
    /\ \A p \in Pools : /\ WF_vars(Settle(p))
                        /\ \A g \in Groups : WF_vars(RolloutGroup(p, g))

-----------------------------------------------------------------------------

(* "Picking a stale one bakes an out-of-date cluster CA cert into every    *)
(* node we launch": the template a call returns is never older than the    *)
(* newest one that the pool was already running when the call began, no    *)
(* matter how far a rollout gets in between and which reads fail.          *)
NeverStale == \A c \in Callers : call[c].pc = "done" => call[c].result >= call[c].floor

(* A source pool that is deleted or stays ineligible is replaced: in the   *)
(* end the source is an eligible pool, the fallback pool if need be.  (A   *)
(* pinned pool is never replaced.)                                         *)
SourceRecovers ==
    preferred = NoPool => []<>(sourcePoolName # NoPool /\ isPoolEligible(sourcePoolName))

UserPoolEligible == \E p \in Pools \ {Fallback} : isPoolEligible(p)

(* "User-owned pools are preferred over the last-resort fallback": the     *)
(* fallback pool does not stay the source while there is an eligible pool  *)
(* of the user's.                                                          *)
FallbackGivenUp ==
    preferred = NoPool /\ UserPoolEligible
        ~> sourcePoolName # Fallback \/ ~UserPoolEligible
=============================================================================
