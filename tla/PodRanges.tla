------------------------------ MODULE PodRanges ------------------------------
(***************************************************************************)
(* Which pod range a launch uses: the names come from the NodeClass or     *)
(* from the cluster configuration, their order from the free addresses of  *)
(* the subnetwork, and a range that turns out to be full or missing makes  *)
(* the launch forget what it had been told                                 *)
(* (pkg/providers/instance/podrange.go and instance.go).                   *)
(*                                                                         *)
(* The cluster configuration is read through FreshRead, which              *)
(* ClusterConfig implements.  The subnetwork is read through getSnapshot   *)
(* (pkg/providers/subnet/subnet.go): one entry for the subnetwork, behind  *)
(* a mutex that is held during the API call, for counts and for errors.    *)
(*                                                                         *)
(* The configuration and the subnetwork go through given versions: which   *)
(* ranges the cluster names, and which ranges exist with how many free     *)
(* addresses.  A cluster does not name a range that does not exist.        *)
(***************************************************************************)
EXTENDS Naturals, Sequences, Functions

CONSTANTS
    Launches,       \* concurrent Create calls
    Explicit,       \* launch -> ranges its NodeClass names, or <<>>
    ConfigNames,    \* version of the configuration -> ClusterPodRangeNames
    Subnet,         \* version of the subnetwork -> range -> free addresses
    NoRange,        \* the empty name: GKE picks
    DualStack,      \* the cluster is dual-stack
    cacheTTL, failureTTL,
    MaxTypes        \* instance types a Create call tries

RangeNames == UNION {DOMAIN Subnet[v] : v \in DOMAIN Subnet}
AllNames == RangeNames \cup {NoRange} \cup UNION {Range(Explicit[l]) : l \in Launches}

ASSUME PodRangesAssumption ==
    /\ cacheTTL \in Nat \ {0}
    /\ failureTTL \in Nat \ {0}
    /\ MaxTypes \in Nat \ {0}
    /\ DualStack \in BOOLEAN
    /\ Explicit \in [Launches -> Seq(AllNames)]
    /\ ConfigNames \in Seq(Seq(RangeNames)) /\ ConfigNames # <<>>
    /\ Subnet \in Seq(Range(Subnet)) /\ Subnet # <<>>
    /\ NoRange \notin RangeNames

(* The cluster starts with ranges that exist.  A range that was removed is *)
(* not added back.                                                         *)
ASSUME NetworkAssumption ==
    /\ Range(ConfigNames[1]) \subseteq DOMAIN Subnet[1]
    /\ \A u, v, w \in DOMAIN Subnet :
        u < v /\ v < w => DOMAIN Subnet[u] \cap DOMAIN Subnet[w] \subseteq DOMAIN Subnet[v]

VARIABLES
    configVersion, configInvalidatedAt, configState, configFloor, configAnswer,
    subnetVersion,
    cache,          \* the entry of the subnetwork
    holder,         \* who holds p.mu
    call,           \* launch -> its Create call
    subnetInvalidatedAt,    \* history, as in FreshRead
    sinceFailure,   \* history: ticks since a lookup failed by itself
    dropped         \* history: ranges whose rejection has been handled

config == <<configVersion, configInvalidatedAt, configState, configFloor, configAnswer>>
history == <<subnetInvalidatedAt, sinceFailure, dropped>>
vars == <<config, subnetVersion, cache, holder, call, history>>

None == 0
NoEntry == [kind |-> "none", version |-> None, age |-> 0]

Config == INSTANCE FreshRead WITH
            Readers <- Launches, version <- configVersion,
            invalidatedAt <- configInvalidatedAt, state <- configState,
            floor <- configFloor, answer <- configAnswer

(* A call that is over, or one that begins at step s. *)
CallAt(s) ==
    [step |-> s,
     want |-> "counts",         \* what it reads the subnetwork for
     counts |-> None,           \* the version its freeIPs are from
     response |-> None,         \* the version in the hands of getSnapshot
     names |-> <<>>, index |-> 1,   \* rangeNames and i
     result |-> "none",         \* what became of the range
     typesLeft |-> MaxTypes,
     cancelled |-> FALSE,
     floor |-> 0,               \* history, as in FreshRead
     heeded |-> {}]             \* history: dropped when the attempt began

Init ==
    /\ Config!Init
    /\ subnetVersion = 1
    /\ cache = NoEntry
    /\ holder = {}
    /\ call = [l \in Launches |-> CallAt("idle")]
    /\ subnetInvalidatedAt = 0
    /\ sinceFailure = failureTTL
    /\ dropped = {}

At(l, s) == call[l].step = s
Goto(l, s) == call' = [call EXCEPT ![l].step = s]
End(l, s) ==
    call' = [call EXCEPT ![l] = [CallAt(s) EXCEPT !.counts = call[l].counts,
                                                  !.floor = call[l].floor]]
rangeName(l) == call[l].names[call[l].index]

-----------------------------------------------------------------------------
(* The candidates and their order.                                         *)

Discovers(l) == Explicit[l] = <<>>

resolvedPodRangeNames(l, v) ==
    IF ~Discovers(l) THEN Explicit[l]
    ELSE IF ConfigNames[v] # <<>> THEN ConfigNames[v] ELSE <<NoRange>>

(* Known counts first, the greatest of them first, otherwise as given: a   *)
(* set with the one order there is.                                        *)
rankPodRangeNames(names, v) ==
    LET known(i) == v # None /\ names[i] \in DOMAIN Subnet[v]
        less(i, j) ==
            \/ known(i) /\ ~known(j)
            \/ known(i) /\ known(j) /\ Subnet[v][names[i]] > Subnet[v][names[j]]
        before(i, j) == less(i, j) \/ (~less(j, i) /\ i < j)
        sorted(order) ==
            \A j, k \in DOMAIN names : j < k => before(order[j], order[k])
    IN  {[k \in DOMAIN names |-> names[order[k]]] :
            order \in {f \in Bijection(DOMAIN names, DOMAIN names) : sorted(f)}}

-----------------------------------------------------------------------------
(* getSnapshot.                                                            *)

(* GetFreeIPCounts is called.  Only what it returns is tracked by FreshRead. *)
ReadCounts(l) ==
    call' = [call EXCEPT ![l].step = "lock", ![l].want = "counts",
                         ![l].floor = subnetInvalidatedAt]

(* buildInstance for the range at index i: a dual-stack cluster wants to   *)
(* know the subnetwork's stack first (GetNetworkConfig).                   *)
Build(l, names, i) ==
    call' = [call EXCEPT ![l].step = IF DualStack THEN "lock" ELSE "insert",
                         ![l].want = "stack",
                         ![l].names = names, ![l].index = i, ![l].result = "none"]

(* Without an answer podRangeFreeIPs goes on without counts, while         *)
(* configureDualStackNetwork fails and with it the launch.  A cancelled    *)
(* launch fails at its next call.                                          *)
SnapshotReturned(l, v) ==
    IF call[l].cancelled THEN End(l, "failed")
    ELSE IF call[l].want = "counts"
    THEN call' = [call EXCEPT ![l].step = "attempt", ![l].counts = v,
                              ![l].response = None]
    ELSE IF v = None THEN End(l, "failed")
    ELSE call' = [call EXCEPT ![l].step = "insert", ![l].response = None]

(* The lock is taken.  Unless the entry answers, it is held for the call. *)
Lock(l) ==
    /\ At(l, "lock")
    /\ holder = {}
    /\ IF call[l].cancelled THEN SnapshotReturned(l, None) /\ UNCHANGED holder
       ELSE IF cache # NoEntry
            THEN SnapshotReturned(l, cache.version) /\ UNCHANGED holder
            ELSE Goto(l, "lookup") /\ holder' = {l}
    /\ UNCHANGED <<config, subnetVersion, cache, history>>

Lookup(l) ==
    /\ At(l, "lookup")
    /\ call' = [call EXCEPT ![l].step = "store", ![l].response = subnetVersion]
    /\ UNCHANGED <<config, subnetVersion, cache, holder, history>>

(* A plausible slip: the return after a failed lookup leaves p.mu locked. *)
UnlockUnlessFailed(failed) == IF failed THEN holder ELSE {}

(* The deferred Unlock, whatever became of the lookup. *)
Unlock(failed) == {}

Store(l) ==
    /\ At(l, "store")
    /\ cache' = [kind |-> "counts", version |-> call[l].response, age |-> 0]
    /\ holder' = Unlock(FALSE)
    /\ SnapshotReturned(l, call[l].response)
    /\ UNCHANGED <<config, subnetVersion, history>>

(* A plausible slip: every failure starts the cooldown. *)
CoolsDownAlways(l) == l \in Launches

(* "A canceled caller must not put other callers into the failure          *)
(* cooldown."                                                              *)
CoolsDown(l) == ~call[l].cancelled

LookupFails(l) ==
    /\ At(l, "lookup")
    /\ cache' = IF CoolsDown(l) THEN [kind |-> "error", version |-> None, age |-> 0]
                                ELSE cache
    /\ sinceFailure' = IF call[l].cancelled THEN sinceFailure ELSE 0
    /\ holder' = Unlock(TRUE)
    /\ SnapshotReturned(l, None)
    /\ UNCHANGED <<config, subnetVersion, subnetInvalidatedAt, dropped>>

(* The entry a unit of time later.  One that has expired is as good as     *)
(* none: the next call deletes it.                                         *)
Aged ==
    IF cache.age + 1 < (IF cache.kind = "error" THEN failureTTL ELSE cacheTTL)
       /\ cache # NoEntry
    THEN [cache EXCEPT !.age = @ + 1] ELSE NoEntry

-----------------------------------------------------------------------------
(* Create, as far as ranges are concerned.  That a launch finds the        *)
(* instance of an earlier attempt is part of Launch.                       *)

Resting(l) == call[l].step \in {"idle", "done", "failed"}

Create(l) ==
    /\ Resting(l)
    /\ Config!Ask(l)
    /\ call' = [call EXCEPT ![l] = CallAt("counts")]
    /\ UNCHANGED <<subnetVersion, cache, holder, history>>

(* podRangeFreeIPs: a single candidate needs no counts. *)
podRangeFreeIPs(l) ==
    /\ At(l, "counts")
    /\ Config!Answer(l)
    /\ IF Len(resolvedPodRangeNames(l, configAnswer'[l])) < 2
       THEN Goto(l, "attempt") ELSE ReadCounts(l)
    /\ UNCHANGED <<subnetVersion, cache, holder, history>>

(* tryCreateInstance reads the configuration again, for every type. *)
tryCreateInstance(l) ==
    /\ At(l, "attempt")
    /\ Config!Ask(l)
    /\ call' = [call EXCEPT ![l].step = "config", ![l].heeded = dropped]
    /\ UNCHANGED <<subnetVersion, cache, holder, history>>

createInstanceWithPodRanges(l) ==
    /\ At(l, "config")
    /\ Config!Answer(l)
    /\ \E names \in rankPodRangeNames(resolvedPodRangeNames(l, configAnswer'[l]),
                                      call[l].counts) :
        Build(l, names, 1)
    /\ UNCHANGED <<subnetVersion, cache, holder, history>>

(* A retryable error: the next instance type is tried. *)
NextType(l) ==
    IF call[l].typesLeft > 1
    THEN call' = [call EXCEPT ![l].step = "attempt", ![l].names = <<>>,
                              ![l].index = 1, ![l].result = "none",
                              ![l].typesLeft = @ - 1, ![l].heeded = {}]
    ELSE End(l, "failed")

(* GetClusterConfig fails: there are no counts, or the type is given up. *)
ConfigFails(l) ==
    /\ \/ At(l, "counts") /\ Goto(l, "attempt")
       \/ At(l, "config") /\ NextType(l)
    /\ Config!Leave(l)
    /\ UNCHANGED <<subnetVersion, cache, holder, history>>

(* What GCE says of a range: it has addresses, none left, or is unknown. *)
Verdict(n) ==
    IF n = NoRange THEN "done"
    ELSE IF n \notin DOMAIN Subnet[subnetVersion] THEN "rejected"
    ELSE IF Subnet[subnetVersion][n] = 0 THEN "exhausted" ELSE "done"

Insert(l) ==
    /\ At(l, "insert")
    /\ LET verdict == Verdict(rangeName(l))
       IN  IF verdict = "done" THEN End(l, "done")
           ELSE call' = [call EXCEPT ![l].step = "forget", ![l].result = verdict]
    /\ UNCHANGED <<config, subnetVersion, cache, holder, history>>

(* It fails for a reason that has nothing to do with the range, for this   *)
(* type or, as when a resource is not ready, for good.                     *)
InsertFails(l) ==
    /\ At(l, "insert")
    /\ NextType(l) \/ End(l, "failed")
    /\ UNCHANGED <<config, subnetVersion, cache, holder, history>>

(* A range that is full is followed by the next one; after the last one    *)
(* the launch fails, for all instance types share the subnetwork.          *)
AfterRange(l) ==
    /\ IF call[l].result = "rejected" THEN NextType(l)
       ELSE IF call[l].index < Len(call[l].names)
            THEN Build(l, call[l].names, call[l].index + 1)
            ELSE End(l, "failed")
    /\ dropped' = IF Discovers(l) /\ call[l].result = "rejected"
                  THEN dropped \cup {rangeName(l)} ELSE dropped

(* A plausible slip: the configuration is forgotten for the full range,    *)
(* not for the missing one.                                                *)
ForgetsConfigWhenFull(l) == Discovers(l) /\ call[l].result = "exhausted"

ForgetsConfig(l) == Discovers(l) /\ call[l].result = "rejected"

(* A plausible slip: the entry is removed without the lock. *)
InvalidatesAnyTime(l) == At(l, "forget")

Invalidates(l) == At(l, "forget") /\ holder = {}

(* invalidatePodRangeCaches: subnet.Invalidate waits for the lock. *)
Invalidate(l) ==
    /\ Invalidates(l)
    /\ cache' = NoEntry
    /\ subnetInvalidatedAt' = subnetVersion
    /\ IF ForgetsConfig(l) THEN Goto(l, "forgetConfig") /\ UNCHANGED dropped
                           ELSE AfterRange(l)
    /\ UNCHANGED <<config, subnetVersion, holder, sinceFailure>>

InvalidateClusterConfig(l) ==
    /\ At(l, "forgetConfig")
    /\ Config!Invalidate
    /\ AfterRange(l)
    /\ UNCHANGED <<subnetVersion, cache, holder, subnetInvalidatedAt, sinceFailure>>

(* The context of the call is done.  A snapshot under way is completed or  *)
(* fails; whatever else the call asks for fails.                           *)
Cancel(l) ==
    /\ \/ /\ call[l].step \in {"lock", "lookup", "store"} /\ ~call[l].cancelled
          /\ call' = [call EXCEPT ![l].cancelled = TRUE]
          /\ UNCHANGED config
       \/ /\ call[l].step \in {"counts", "attempt", "config", "insert"}
          /\ End(l, "failed")
          /\ IF configState[l] = "busy" THEN Config!Leave(l) ELSE UNCHANGED config
    /\ UNCHANGED <<subnetVersion, cache, holder, history>>

-----------------------------------------------------------------------------
(* The cluster, the subnetwork and the clock.                              *)

ConfigChanges ==
    /\ configVersion < Len(ConfigNames)
    /\ Range(ConfigNames[configVersion + 1]) \subseteq DOMAIN Subnet[subnetVersion]
    /\ Config!Change
    /\ UNCHANGED <<subnetVersion, cache, holder, call, history>>

SubnetChanges ==
    /\ subnetVersion < Len(Subnet)
    /\ Range(ConfigNames[configVersion]) \subseteq DOMAIN Subnet[subnetVersion + 1]
    /\ subnetVersion' = subnetVersion + 1
    /\ UNCHANGED <<config, cache, holder, call, history>>

Tick ==
    /\ cache' = Aged
    /\ sinceFailure' = IF sinceFailure < failureTTL THEN sinceFailure + 1
                                                    ELSE sinceFailure
    /\ UNCHANGED <<config, subnetVersion, holder, call, subnetInvalidatedAt, dropped>>

Locks(l) == Lock(l) \/ Invalidate(l)

Proceeds(l) ==
    \/ Lookup(l)
    \/ Store(l)
    \/ Create(l)
    \/ podRangeFreeIPs(l)
    \/ tryCreateInstance(l)
    \/ createInstanceWithPodRanges(l)
    \/ Insert(l)
    \/ InvalidateClusterConfig(l)

Fails(l) == LookupFails(l) \/ ConfigFails(l) \/ InsertFails(l) \/ Cancel(l)

Next ==
    \/ \E l \in Launches : Locks(l) \/ Proceeds(l) \/ Fails(l)
    \/ ConfigChanges
    \/ SubnetChanges
    \/ Tick

Spec == Init /\ [][Next]_vars

(* Launches go on and are retried by core; Go's mutex starves nobody; time *)
(* passes.  An outage of Google's APIs ends, and calls are not cancelled   *)
(* for ever.                                                               *)
FairSpec ==
    /\ Spec
    /\ \A l \in Launches : WF_vars(Proceeds(l)) /\ SF_vars(Locks(l))
    /\ WF_vars(Tick)
    /\ <>[][\A l \in Launches : ~Fails(l)]_vars

-----------------------------------------------------------------------------

(* GetFreeIPCounts as FreshRead sees it. *)
countsState ==
    [l \in Launches |->
        IF call[l].want = "counts" /\ call[l].step \in {"lock", "lookup", "store"}
        THEN "busy"
        ELSE IF call[l].counts # None THEN "answered" ELSE "idle"]

countsFloor ==
    [l \in Launches |-> IF countsState[l] = "idle" THEN 0 ELSE call[l].floor]

Counts == INSTANCE FreshRead WITH
            Readers <- Launches, version <- subnetVersion,
            invalidatedAt <- subnetInvalidatedAt, state <- countsState,
            floor <- countsFloor, answer <- [l \in Launches |-> call[l].counts]

(* The subnetwork's cache implements FreshRead: the counts a launch ranks  *)
(* its ranges by were true at some time since the last launch that found   *)
(* a range full or missing before them (Invalidate), although a lookup may *)
(* be under way during the invalidation.                                   *)
CountsAreFresh == Counts!Spec

(* A range that was rejected is not tried again: once a launch has moved   *)
(* on from the rejection of a discovered range, no attempt that begins     *)
(* afterwards, of any launch, uses that range, although the configuration  *)
(* is cached and read by others all the time.  (No range is added back:    *)
(* NetworkAssumption.)                                                     *)
RejectionHeeded ==
    \A l \in Launches :
        At(l, "insert") /\ Discovers(l) => rangeName(l) \notin call[l].heeded

(* "A canceled caller must not put other callers into the failure          *)
(* cooldown": an error answers from the cache only while a lookup has      *)
(* failed by itself within failureTTL.                                     *)
CooldownAfterFailureOnly == cache.kind = "error" => sinceFailure <= cache.age

(* After every change of the subnetwork and every outage launches that     *)
(* discover their ranges succeed again: full ranges, removed ranges, stale *)
(* counts and cached errors keep none of them from the range that has      *)
(* addresses left.                                                         *)
RangesRecover ==
    \A l \in Launches : Discovers(l) => []<>At(l, "done")
=============================================================================
