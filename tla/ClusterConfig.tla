---------------------------- MODULE ClusterConfig ----------------------------
(***************************************************************************)
(* The GKE cluster configuration cache (pkg/providers/gke/gke.go).         *)
(*                                                                         *)
(* Launches, the NodeClass status controller and the image resolver read   *)
(* the cluster configuration through GetClusterConfig and the cluster's    *)
(* zones through ResolveClusterZones.  Both are cached, the zones in a     *)
(* cache of their own that is filled from the first one.  A launch whose   *)
(* discovered pod range is rejected calls InvalidateClusterConfig.         *)
(*                                                                         *)
(* The API call is made without the lock, so a response can arrive after   *)
(* an invalidation: the generation counter keeps it out of the cache.      *)
(*                                                                         *)
(* A configuration is abstracted to its version: GKE's configuration is a  *)
(* counter that every change increments.  Version None stands for a        *)
(* missing cache entry.  Time passes in ticks; an entry older than its     *)
(* time to live is gone.                                                   *)
(***************************************************************************)
EXTENDS Naturals

CONSTANTS
    Readers,            \* goroutines that read the configuration
    Unlocated,          \* versions whose cluster.Locations is empty
    clusterCacheTTL,    \* in ticks
    zoneCacheExpiration,
    MaxVersion,         \* bound: configuration changes
    MaxGeneration       \* bound: invalidations

ASSUME ConstantsAssumption ==
    /\ MaxVersion \in Nat \ {0}
    /\ MaxGeneration \in Nat
    /\ clusterCacheTTL \in Nat
    /\ zoneCacheExpiration \in Nat
    /\ Unlocated \subseteq Nat

VARIABLES
    version,            \* the version GKE answers with now
    clusterCache,       \* version under clusterCacheKey
    zoneCache,          \* version the entry under zoneCacheKey came from
    clusterAge,         \* ticks since clusterCache was set
    zoneAge,            \* ticks since zoneCache was set
    clusterGeneration,  \* p.clusterGeneration
    pc,                 \* where each reader is
    want,               \* what it reads: the configuration or the zones
    generation,         \* the local variable of GetClusterConfig
    got,                \* the version the reader holds or returned
    invalidatedAt,      \* history: GKE's version at the last invalidation
    floor               \* history: what invalidatedAt was when the reader's
                        \* call started

caches == <<clusterCache, zoneCache, clusterAge, zoneAge>>

vars == <<version, caches, clusterGeneration, pc, want, generation, got,
          invalidatedAt, floor>>

None == 0

Steps == {"idle", "zones", "config", "fetch", "store", "derive", "list",
          "returned", "failed"}

Init ==
    /\ version = 1
    /\ clusterCache = None
    /\ zoneCache = None
    /\ clusterAge = 0
    /\ zoneAge = 0
    /\ clusterGeneration = 0
    /\ pc = [r \in Readers |-> "idle"]
    /\ want = [r \in Readers |-> "config"]
    /\ generation = [r \in Readers |-> 0]
    /\ got = [r \in Readers |-> None]
    /\ invalidatedAt = 0
    /\ floor = [r \in Readers |-> 0]

Goto(r, step) == pc' = [pc EXCEPT ![r] = step]

(* A caller enters GetClusterConfig or ResolveClusterZones. *)
Start(r) ==
    /\ pc[r] \in {"idle", "returned", "failed"}
    /\ got' = [got EXCEPT ![r] = None]
    /\ floor' = [floor EXCEPT ![r] = invalidatedAt]
    /\ \/ /\ want' = [want EXCEPT ![r] = "config"]
          /\ Goto(r, "config")
       \/ /\ want' = [want EXCEPT ![r] = "zones"]
          /\ Goto(r, "zones")
    /\ UNCHANGED <<version, caches, clusterGeneration, generation, invalidatedAt>>

(* ResolveClusterZones looks into zoneCache first. *)
LookupZones(r) ==
    /\ pc[r] = "zones"
    /\ \/ /\ zoneCache # None
          /\ got' = [got EXCEPT ![r] = zoneCache]
          /\ Goto(r, "returned")
       \/ /\ zoneCache = None
          /\ Goto(r, "config")
          /\ UNCHANGED got
    /\ UNCHANGED <<version, caches, clusterGeneration, want, generation,
                   invalidatedAt, floor>>

(* GetClusterConfig has its answer: its caller is ResolveClusterZones or   *)
(* the reader itself.                                                      *)
HasConfig(r) == Goto(r, IF want[r] = "zones" THEN "derive" ELSE "returned")

(* GetClusterConfig, first critical section. *)
LookupConfig(r) ==
    /\ pc[r] = "config"
    /\ \/ /\ clusterCache # None
          /\ got' = [got EXCEPT ![r] = clusterCache]
          /\ HasConfig(r)
          /\ UNCHANGED generation
       \/ /\ clusterCache = None
          /\ generation' = [generation EXCEPT ![r] = clusterGeneration]
          /\ Goto(r, "fetch")
          /\ UNCHANGED got
    /\ UNCHANGED <<version, caches, clusterGeneration, want, invalidatedAt, floor>>

(* Clusters.Get answers with the configuration of the moment, or fails. *)
Fetch(r) ==
    /\ pc[r] = "fetch"
    /\ \/ /\ got' = [got EXCEPT ![r] = version]
          /\ Goto(r, "store")
       \/ /\ Goto(r, "failed")
          /\ UNCHANGED got
    /\ UNCHANGED <<version, caches, clusterGeneration, want, generation,
                   invalidatedAt, floor>>

(* A plausible slip: the response is cached whatever happened meanwhile. *)
StoreAnyGeneration(r) ==
    /\ pc[r] = "store"
    /\ clusterCache' = got[r]
    /\ clusterAge' = 0
    /\ HasConfig(r)
    /\ UNCHANGED <<version, zoneCache, zoneAge, clusterGeneration, want,
                   generation, got, invalidatedAt, floor>>

(* GetClusterConfig, second critical section. *)
Store(r) ==
    /\ pc[r] = "store"
    /\ \/ /\ generation[r] = clusterGeneration
          /\ clusterCache' = got[r]
          /\ clusterAge' = 0
       \/ /\ generation[r] # clusterGeneration
          /\ UNCHANGED <<clusterCache, clusterAge>>
    /\ HasConfig(r)
    /\ UNCHANGED <<version, zoneCache, zoneAge, clusterGeneration, want,
                   generation, got, invalidatedAt, floor>>

(* The zones of the configuration the reader holds enter zoneCache. *)
CacheZones(r) ==
    /\ zoneCache' = got[r]
    /\ zoneAge' = 0
    /\ Goto(r, "returned")

(* ResolveClusterZones takes the zones from cluster.Locations. *)
DeriveZones(r) ==
    /\ pc[r] = "derive"
    /\ \/ /\ got[r] \notin Unlocated
          /\ CacheZones(r)
       \/ /\ got[r] \in Unlocated
          /\ Goto(r, "list")
          /\ UNCHANGED <<zoneCache, zoneAge>>
    /\ UNCHANGED <<version, clusterCache, clusterAge, clusterGeneration, want,
                   generation, got, invalidatedAt, floor>>

(* ... or from the zones of the region when there are none.  The call may  *)
(* fail, and a region without zones is an error too.                       *)
ListZones(r) ==
    /\ pc[r] = "list"
    /\ \/ CacheZones(r)
       \/ /\ Goto(r, "failed")
          /\ UNCHANGED <<zoneCache, zoneAge>>
    /\ UNCHANGED <<version, clusterCache, clusterAge, clusterGeneration, want,
                   generation, got, invalidatedAt, floor>>

InvalidateClusterConfig ==
    /\ clusterGeneration < MaxGeneration
    /\ clusterCache' = None
    /\ clusterAge' = 0
    /\ clusterGeneration' = clusterGeneration + 1
    /\ invalidatedAt' = version
    /\ UNCHANGED <<version, zoneCache, zoneAge, pc, want, generation, got, floor>>

(* A tick passes for the configuration entry: it ages, or it is past its   *)
(* expiration, which go-cache tests with "now > expiration".               *)
AgeConfig ==
    \/ /\ clusterCache = None
       /\ UNCHANGED <<clusterCache, clusterAge>>
    \/ /\ clusterCache # None
       /\ clusterAge < clusterCacheTTL
       /\ clusterAge' = clusterAge + 1
       /\ UNCHANGED clusterCache
    \/ /\ clusterCache # None
       /\ clusterAge = clusterCacheTTL
       /\ clusterCache' = None
       /\ clusterAge' = 0

(* A plausible slip: zones are cached without an expiration. *)
AgeZonesForever == UNCHANGED <<zoneCache, zoneAge>>

(* ... and for the zones entry. *)
AgeZones ==
    \/ /\ zoneCache = None
       /\ UNCHANGED <<zoneCache, zoneAge>>
    \/ /\ zoneCache # None
       /\ zoneAge < zoneCacheExpiration
       /\ zoneAge' = zoneAge + 1
       /\ UNCHANGED zoneCache
    \/ /\ zoneCache # None
       /\ zoneAge = zoneCacheExpiration
       /\ zoneCache' = None
       /\ zoneAge' = 0

Tick ==
    /\ AgeConfig
    /\ AgeZones
    /\ UNCHANGED <<version, clusterGeneration, pc, want, generation, got,
                   invalidatedAt, floor>>

(* Somebody changes the cluster: locations, pod ranges, versions. *)
ClusterChanges ==
    /\ version < MaxVersion
    /\ version' = version + 1
    /\ UNCHANGED <<caches, clusterGeneration, pc, want, generation, got,
                   invalidatedAt, floor>>

ReaderStep(r) ==
    \/ LookupZones(r)
    \/ LookupConfig(r)
    \/ Fetch(r)
    \/ Store(r)
    \/ DeriveZones(r)
    \/ ListZones(r)

Next ==
    \/ \E r \in Readers : Start(r) \/ ReaderStep(r)
    \/ InvalidateClusterConfig
    \/ Tick
    \/ ClusterChanges

Spec == Init /\ [][Next]_vars

(* A call returns (the client library bounds it by the caller's context),  *)
(* and time passes.                                                        *)
Fairness ==
    /\ \A r \in Readers : WF_vars(ReaderStep(r))
    /\ WF_vars(Tick)

FairSpec == Spec /\ Fairness

-----------------------------------------------------------------------------

(* Every variable has its type. *)
TypeOK ==
    /\ version \in 1..MaxVersion
    /\ clusterCache \in 0..MaxVersion
    /\ zoneCache \in 0..MaxVersion
    /\ clusterAge \in 0..clusterCacheTTL
    /\ zoneAge \in 0..zoneCacheExpiration
    /\ clusterGeneration \in 0..MaxGeneration
    /\ pc \in [Readers -> Steps]
    /\ want \in [Readers -> {"config", "zones"}]
    /\ generation \in [Readers -> 0..MaxGeneration]
    /\ got \in [Readers -> 0..MaxVersion]
    /\ invalidatedAt \in 0..MaxVersion
    /\ floor \in [Readers -> 0..MaxVersion]

(* "InvalidateClusterConfig forces the next discovery read to fetch        *)
(* current GKE configuration": a GetClusterConfig call that starts after   *)
(* an invalidation never returns a configuration from before it, however   *)
(* late the responses of older calls arrive.                               *)
FreshAfterInvalidate ==
    \A r \in Readers :
        pc[r] = "returned" /\ want[r] = "config" => got[r] >= floor[r]

(* What keeps FreshAfterInvalidate true: nothing older than the last       *)
(* invalidation is in clusterCache or in the hands of a reader whose       *)
(* generation still matches, and a reader that holds an answer in          *)
(* GetClusterConfig holds one that is recent enough for its own call.      *)
Guarded ==
    /\ invalidatedAt <= version
    /\ clusterCache # None => clusterCache >= invalidatedAt
    /\ clusterCache <= version
    /\ zoneCache <= version
    /\ \A r \in Readers :
        /\ got[r] <= version
        /\ want[r] = "config" => floor[r] <= invalidatedAt
        /\ pc[r] = "zones" => want[r] = "zones"
        /\ pc[r] = "store" =>
            /\ generation[r] = clusterGeneration => got[r] >= invalidatedAt
            /\ want[r] = "config" => got[r] >= floor[r]
            /\ got[r] # None
        /\ pc[r] \in {"fetch", "store"} => generation[r] <= clusterGeneration
        /\ pc[r] \in {"derive", "list"} => want[r] = "zones"
        /\ pc[r] = "returned" /\ want[r] = "config" =>
            got[r] >= floor[r] /\ got[r] # None

(* A GetClusterConfig call as FreshRead sees it; ResolveClusterZones, with *)
(* a cache of its own, is no reader there.                                 *)
readState ==
    [r \in Readers |->
        IF want[r] = "zones" \/ pc[r] \in {"idle", "failed"} THEN "idle"
        ELSE IF pc[r] = "returned" THEN "answered" ELSE "busy"]

readFloor ==
    [r \in Readers |-> IF readState[r] = "idle" THEN 0 ELSE floor[r]]

readAnswer ==
    [r \in Readers |-> IF readState[r] = "answered" THEN got[r] ELSE None]

Read == INSTANCE FreshRead WITH
            state <- readState, floor <- readFloor, answer <- readAnswer

(* GetClusterConfig and InvalidateClusterConfig implement FreshRead: every *)
(* answer is a configuration GKE had since the last invalidation before    *)
(* the call, whatever the other callers, the expiry of the entry and the   *)
(* filling of the zone cache do meanwhile.                                 *)
ConfigReadsAreFresh == Read!Spec

(* Once the cluster stops changing, neither cache keeps an old             *)
(* configuration for ever: late responses and the zones copied from an     *)
(* expiring configuration can put an old one back only finitely often.     *)
LocationChangesArrive ==
    <>[](zoneCache \in {None, version} /\ clusterCache \in {None, version})

=============================================================================
