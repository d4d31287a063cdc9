------------------------- MODULE ClusterConfigProofs -------------------------
(* Proofs about ClusterConfig, for every set of readers and every bound. *)
EXTENDS ClusterConfig, TLAPS

(* TypeOK is an invariant of the cluster configuration cache. *)
THEOREM TypeCorrect == Spec => []TypeOK
<1>1. Init => TypeOK
  BY ConstantsAssumption DEF Init, TypeOK, None, Steps
<1>2. TypeOK /\ [Next]_vars => TypeOK'
  <2> SUFFICES ASSUME TypeOK, [Next]_vars PROVE TypeOK'
    OBVIOUS
  <2> USE ConstantsAssumption DEF TypeOK, Steps, None, Goto, HasConfig, caches
  <2>1. ASSUME NEW r \in Readers, Start(r) PROVE TypeOK'
    BY <2>1 DEF Start
  <2>2. ASSUME NEW r \in Readers, LookupZones(r) PROVE TypeOK'
    BY <2>2 DEF LookupZones
  <2>3. ASSUME NEW r \in Readers, LookupConfig(r) PROVE TypeOK'
    BY <2>3 DEF LookupConfig
  <2>4. ASSUME NEW r \in Readers, Fetch(r) PROVE TypeOK'
    BY <2>4 DEF Fetch
  <2>5. ASSUME NEW r \in Readers, Store(r) PROVE TypeOK'
    BY <2>5 DEF Store
  <2>6. ASSUME NEW r \in Readers, DeriveZones(r) PROVE TypeOK'
    BY <2>6 DEF DeriveZones, CacheZones
  <2>7. ASSUME NEW r \in Readers, ListZones(r) PROVE TypeOK'
    BY <2>7 DEF ListZones, CacheZones
  <2>8. CASE InvalidateClusterConfig
    BY <2>8 DEF InvalidateClusterConfig
  <2>9. CASE Tick
    BY <2>9 DEF Tick, AgeConfig, AgeZones
  <2>10. CASE ClusterChanges
    BY <2>10 DEF ClusterChanges
  <2>11. CASE UNCHANGED vars
    BY <2>11 DEF vars
  <2> QED
    BY <2>1, <2>2, <2>3, <2>4, <2>5, <2>6, <2>7, <2>8, <2>9, <2>10, <2>11
       DEF Next, ReaderStep
<1> QED
  BY <1>1, <1>2, PTL DEF Spec

(* Guarded is inductive: the generation check of GetClusterConfig keeps    *)
(* every response from before an invalidation out of the cache.            *)
LEMMA GuardedInvariant == Spec => []Guarded
<1>1. Init => Guarded
  BY ConstantsAssumption DEF Init, Guarded, None
<1>2. TypeOK /\ TypeOK' /\ Guarded /\ [Next]_vars => Guarded'
  <2> SUFFICES ASSUME TypeOK, TypeOK', Guarded, [Next]_vars PROVE Guarded'
    OBVIOUS
  <2> USE ConstantsAssumption DEF TypeOK, Guarded, None, Goto, HasConfig, caches
  <2>1. ASSUME NEW r \in Readers, Start(r) PROVE Guarded'
    BY <2>1 DEF Start
  <2>2. ASSUME NEW r \in Readers, LookupZones(r) PROVE Guarded'
    BY <2>2 DEF LookupZones
  <2>3. ASSUME NEW r \in Readers, LookupConfig(r) PROVE Guarded'
    BY <2>3 DEF LookupConfig
  <2>4. ASSUME NEW r \in Readers, Fetch(r) PROVE Guarded'
    BY <2>4 DEF Fetch
  <2>5. ASSUME NEW r \in Readers, Store(r) PROVE Guarded'
    BY <2>5 DEF Store
  <2>6. ASSUME NEW r \in Readers, DeriveZones(r) PROVE Guarded'
    BY <2>6 DEF DeriveZones, CacheZones
  <2>7. ASSUME NEW r \in Readers, ListZones(r) PROVE Guarded'
    BY <2>7 DEF ListZones, CacheZones
  <2>8. CASE InvalidateClusterConfig
    BY <2>8 DEF InvalidateClusterConfig
  <2>9. CASE Tick
    BY <2>9 DEF Tick, AgeConfig, AgeZones
  <2>10. CASE ClusterChanges
    BY <2>10 DEF ClusterChanges
  <2>11. CASE UNCHANGED vars
    BY <2>11 DEF vars
  <2> QED
    BY <2>1, <2>2, <2>3, <2>4, <2>5, <2>6, <2>7, <2>8, <2>9, <2>10, <2>11
       DEF Next, ReaderStep
<1> QED
  BY <1>1, <1>2, TypeCorrect, PTL DEF Spec

(* A GetClusterConfig call that starts after InvalidateClusterConfig never *)
(* returns a configuration from before it.                                 *)
THEOREM InvalidationIsEffective == Spec => []FreshAfterInvalidate
<1>1. Guarded => FreshAfterInvalidate
  BY DEF Guarded, FreshAfterInvalidate
<1> QED
  BY <1>1, GuardedInvariant, PTL

(* GetClusterConfig with its lock, its generation and its expiring cache   *)
(* implements FreshRead: every step is a step of FreshRead or leaves what  *)
(* FreshRead sees unchanged.                                               *)
THEOREM ConfigReadsRefine == Spec => ConfigReadsAreFresh
<1>1. Init => Read!Init
  BY DEF Init, Read!Init, Read!None, readState, readFloor, readAnswer, None
<1>2. TypeOK /\ Guarded /\ [Next]_vars => [Read!Next]_(Read!vars)
  <2> SUFFICES ASSUME TypeOK, Guarded, [Next]_vars
               PROVE  Read!Next \/ UNCHANGED Read!vars
    OBVIOUS
  <2> USE DEF TypeOK, None, Goto, HasConfig, caches, Steps, readState,
              readFloor, readAnswer, Read!vars, Read!None
  <2>1. ASSUME NEW r \in Readers, Start(r)
        PROVE  Read!Ask(r) \/ Read!Leave(r) \/ UNCHANGED Read!vars
    <3> USE <2>1 DEF Start
    <3>1. CASE want'[r] = "config"
      <4>1. readState[r] # "busy"
        OBVIOUS
      <4>2. readState' = [readState EXCEPT ![r] = "busy"]
        BY <3>1
      <4>3. readFloor' = [readFloor EXCEPT ![r] = invalidatedAt]
        BY <3>1
      <4>4. readAnswer' = [readAnswer EXCEPT ![r] = None]
        BY <3>1
      <4> QED
        BY <4>1, <4>2, <4>3, <4>4 DEF Read!Ask
    <3>2. CASE want'[r] = "zones"
      <4>1. readState' = [readState EXCEPT ![r] = "idle"]
        BY <3>2
      <4>2. readFloor' = [readFloor EXCEPT ![r] = 0]
        BY <3>2
      <4>3. readAnswer' = [readAnswer EXCEPT ![r] = None]
        BY <3>2
      <4> QED
        BY <4>1, <4>2, <4>3 DEF Read!Leave
    <3> QED
      BY <3>1, <3>2
  <2>2. ASSUME NEW r \in Readers, LookupZones(r) PROVE UNCHANGED Read!vars
    BY <2>2 DEF LookupZones, Guarded
  <2>3. ASSUME NEW r \in Readers, LookupConfig(r)
        PROVE  Read!Answer(r) \/ UNCHANGED Read!vars
    <3> USE <2>3 DEF LookupConfig
    <3>1. CASE clusterCache # None /\ want[r] = "config"
      <4>1. readState[r] = "busy" /\ readState' = [readState EXCEPT ![r] = "answered"]
        BY <3>1
      <4>2. readFloor[r] = floor[r] /\ readFloor' = readFloor
        BY <3>1
      <4>3. readAnswer' = [readAnswer EXCEPT ![r] = clusterCache]
        BY <3>1
      <4>4. clusterCache \in floor[r]..version
        BY <3>1 DEF Guarded
      <4> QED
        BY <3>1, <4>1, <4>2, <4>3, <4>4 DEF Read!Answer
    <3>2. CASE clusterCache = None \/ want[r] = "zones"
      BY <3>2
    <3> QED
      BY <3>1, <3>2
  <2>4. ASSUME NEW r \in Readers, Fetch(r)
        PROVE  Read!Leave(r) \/ UNCHANGED Read!vars
    <3> USE <2>4 DEF Fetch
    <3>1. CASE pc'[r] = "failed" /\ want[r] = "config"
      <4>1. readState[r] = "busy" /\ readState' = [readState EXCEPT ![r] = "idle"]
        BY <3>1
      <4>2. readFloor' = [readFloor EXCEPT ![r] = 0]
        BY <3>1
      <4>3. readAnswer' = [readAnswer EXCEPT ![r] = None]
        BY <3>1
      <4> QED
        BY <4>1, <4>2, <4>3 DEF Read!Leave
    <3>2. CASE pc'[r] = "store" \/ want[r] = "zones"
      BY <3>2
    <3> QED
      BY <3>1, <3>2
  <2>5. ASSUME NEW r \in Readers, Store(r)
        PROVE  Read!Answer(r) \/ UNCHANGED Read!vars
    <3> USE <2>5 DEF Store
    <3>1. CASE want[r] = "config"
      <4>1. readState[r] = "busy" /\ readState' = [readState EXCEPT ![r] = "answered"]
        BY <3>1
      <4>2. readFloor[r] = floor[r] /\ readFloor' = readFloor
        BY <3>1
      <4>3. readAnswer' = [readAnswer EXCEPT ![r] = got[r]]
        BY <3>1
      <4>4. got[r] # None /\ got[r] \in floor[r]..version
        BY <3>1 DEF Guarded
      <4> QED
        BY <4>1, <4>2, <4>3, <4>4 DEF Read!Answer
    <3>2. CASE want[r] = "zones"
      BY <3>2
    <3> QED
      BY <3>1, <3>2
  <2>6. ASSUME NEW r \in Readers, DeriveZones(r) PROVE UNCHANGED Read!vars
    BY <2>6 DEF Guarded, DeriveZones, CacheZones
  <2>7. ASSUME NEW r \in Readers, ListZones(r) PROVE UNCHANGED Read!vars
    BY <2>7 DEF Guarded, ListZones, CacheZones
  <2>8. CASE InvalidateClusterConfig
    BY <2>8 DEF InvalidateClusterConfig, Read!Invalidate, Read!Next
  <2>9. CASE Tick
    BY <2>9 DEF Tick
  <2>10. CASE ClusterChanges
    BY <2>10 DEF ClusterChanges, Read!Change, Read!Next
  <2>11. CASE UNCHANGED vars
    BY <2>11 DEF vars
  <2> QED
    BY <2>1, <2>2, <2>3, <2>4, <2>5, <2>6, <2>7, <2>8, <2>9, <2>10, <2>11
       DEF Next, ReaderStep, Read!Next
<1> QED
  BY <1>1, <1>2, TypeCorrect, GuardedInvariant, PTL
     DEF Spec, ConfigReadsAreFresh, Read!Spec
=============================================================================
