-------------------------- MODULE PodRangesProofs --------------------------
(* Proofs about PodRanges, for all launches, all sequences of              *)
(* configurations and subnetworks that NetworkAssumption allows, and all   *)
(* TTLs.                                                                   *)
EXTENDS PodRanges, TLAPS

Steps == {"idle", "counts", "lock", "lookup", "store", "attempt", "config",
          "insert", "forget", "forgetConfig", "done", "failed"}

Calls ==
    [step : Steps, want : {"counts", "stack"}, counts : Nat, response : Nat,
     names : Seq(AllNames), index : Nat, result : {"none", "rejected", "exhausted"},
     typesLeft : Nat, cancelled : BOOLEAN, floor : Nat, heeded : SUBSET AllNames]

Reading(l) == call[l].step \in {"lock", "lookup", "store"}

(* The launch has a range in hand. *)
Trying(l) == \/ call[l].step \in {"insert", "forget", "forgetConfig"}
             \/ Reading(l) /\ call[l].want = "stack"

(* Every variable has its type.  What is read of the configuration is no   *)
(* newer than the configuration, and i stays within rangeNames.            *)
ConfigOK ==
    /\ configVersion \in 1..Len(ConfigNames)
    /\ configInvalidatedAt \in 0..configVersion
    /\ configState \in [Launches -> {"idle", "busy", "answered"}]
    /\ configFloor \in [Launches -> 0..configInvalidatedAt]
    /\ configAnswer \in [Launches -> 0..configVersion]

CallsOK ==
    /\ call \in [Launches -> Calls]
    /\ \A l \in Launches : Trying(l) => call[l].index \in DOMAIN call[l].names

TypeOK ==
    /\ ConfigOK
    /\ CallsOK
    /\ subnetVersion \in 1..Len(Subnet)
    /\ cache \in [kind : {"none", "counts", "error"}, version : Nat, age : Nat]
    /\ holder \in SUBSET Launches
    /\ subnetInvalidatedAt \in 0..subnetVersion
    /\ sinceFailure \in Nat
    /\ dropped \in SUBSET AllNames

(* The mutex of getSnapshot keeps everything that is older than the last   *)
(* Invalidate out of the entry and out of the hands of whoever fills it.   *)
EntryFresh ==
    IF cache.kind = "counts"
    THEN cache.version # None /\ cache.version \in subnetInvalidatedAt..subnetVersion
    ELSE cache.version = None

LaunchFresh(l) ==
    /\ l \in holder <=> call[l].step \in {"lookup", "store"}
    /\ At(l, "store") => /\ call[l].response # None
                         /\ call[l].response \in subnetInvalidatedAt..subnetVersion
    /\ At(l, "counts") => call[l].counts = None
    /\ Reading(l) /\ call[l].want = "counts" =>
            call[l].counts = None /\ call[l].floor <= subnetInvalidatedAt

SnapshotFresh ==
    /\ \A k, l \in holder : k = l
    /\ EntryFresh
    /\ \A l \in Launches : LaunchFresh(l)

(* The ranges there have been, and those that are gone. *)
Known == UNION {DOMAIN Subnet[v] : v \in 1..subnetVersion}
Removed == Known \ DOMAIN Subnet[subnetVersion]

(* No configuration that a read since version v may return has the names.  *)
Unnamed(names, v) ==
    \A w \in 1..configVersion : v <= w => names \cap Range(ConfigNames[w]) = {}

(* A range that was rejected is gone, and so is no longer in the           *)
(* configuration since it was invalidated; an attempt works with names     *)
(* from a configuration that is newer than what it has to heed.            *)
DroppedGone ==
    /\ \A v \in 1..configVersion : Range(ConfigNames[v]) \subseteq Known
    /\ Range(ConfigNames[configVersion]) \subseteq DOMAIN Subnet[subnetVersion]
    /\ dropped \subseteq Removed
    /\ Unnamed(dropped, configInvalidatedAt)

LaunchHeeds(l) ==
    LET c == call[l] IN
    /\ c.heeded \subseteq dropped
    /\ At(l, "config") => Unnamed(c.heeded, configFloor[l])
    /\ c.step \in {"counts", "attempt", "config"} \/ c.want = "counts"
        => c.names = <<>>
    /\ Discovers(l) =>
        /\ \A i \in DOMAIN c.names : c.names[i] \in (Known \cup {NoRange}) \ c.heeded
        /\ c.step \in {"forget", "forgetConfig"} /\ c.result = "rejected"
            => rangeName(l) \in Removed

RemovedUnused == DroppedGone /\ \A l \in Launches : LaunchHeeds(l)
-----------------------------------------------------------------------------
(* What the operators do.                                                  *)

(* rankPodRangeNames returns the names it was given in another order. *)
LEMMA RankedNames ==
    ASSUME NEW S, NEW names \in Seq(S), NEW v,
           NEW ranked \in rankPodRangeNames(names, v)
    PROVE  /\ ranked \in Seq(S)
           /\ DOMAIN ranked = DOMAIN names
           /\ \A k \in DOMAIN ranked : ranked[k] \in Range(names)
<1>1. PICK order \in Bijection(DOMAIN names, DOMAIN names) :
            ranked = [k \in DOMAIN names |-> names[order[k]]]
  BY DEF rankPodRangeNames
<1>2. order \in [DOMAIN names -> DOMAIN names]
  BY DEF Bijection, Injection
<1>3. ranked \in [1..Len(names) -> S] /\ Len(names) \in Nat
  BY <1>1, <1>2
<1>4. ranked \in Seq(S)
  BY <1>3
<1> QED
  BY <1>1, <1>2, <1>4 DEF Range

(* resolvedPodRangeNames always has a name, if only the empty one. *)
LEMMA ResolvedNames ==
    ASSUME NEW l \in Launches, NEW v \in 1..Len(ConfigNames)
    PROVE  /\ resolvedPodRangeNames(l, v) \in Seq(AllNames)
           /\ resolvedPodRangeNames(l, v) # <<>>
           /\ Discovers(l) =>
                \A n \in Range(resolvedPodRangeNames(l, v)) :
                    n = NoRange \/ n \in Range(ConfigNames[v])
<1>1. ConfigNames[v] \in Seq(RangeNames) /\ Explicit[l] \in Seq(AllNames)
  BY PodRangesAssumption
<1>2. RangeNames \subseteq AllNames /\ NoRange \in AllNames
  BY DEF AllNames
<1>3. ConfigNames[v] \in Seq(AllNames)
  BY <1>1, <1>2
<1>4. CASE ~Discovers(l)
  BY <1>1, <1>4 DEF resolvedPodRangeNames, Discovers
<1>5. CASE Discovers(l) /\ ConfigNames[v] # <<>>
  BY <1>3, <1>5 DEF resolvedPodRangeNames
<1>6. CASE Discovers(l) /\ ConfigNames[v] = <<>>
  <2>1. resolvedPodRangeNames(l, v) = <<NoRange>>
    BY <1>6 DEF resolvedPodRangeNames
  <2> QED
    BY <1>2, <2>1 DEF Range
<1> QED
  BY <1>4, <1>5, <1>6
-----------------------------------------------------------------------------
(* What the steps of a call have in common.                                *)

(* The calls of other launches do not change. *)
Alone(l) == \A k \in Launches \ {l} : call'[k] = call[k]

(* The call keeps what it has found out. *)
Keeps(l) ==
    /\ call'[l].want = call[l].want
    /\ call'[l].counts = call[l].counts
    /\ call'[l].names = call[l].names
    /\ call'[l].index = call[l].index
    /\ call'[l].floor = call[l].floor
    /\ call'[l].heeded = call[l].heeded

(* A call is one of Calls if it differs from one in a single step. *)
LEMMA OneCall ==
    ASSUME CallsOK, NEW l \in Launches, NEW r \in Calls,
           call' = [call EXCEPT ![l] = r],
           Trying(l)' => r.index \in DOMAIN r.names
    PROVE  CallsOK' /\ Alone(l) /\ call'[l] = r
<1>1. call' \in [Launches -> Calls] /\ Alone(l) /\ call'[l] = r
  BY DEF CallsOK, Alone
<1>2. ASSUME NEW k \in Launches, Trying(k)'
      PROVE  call'[k].index \in DOMAIN call'[k].names
  <2>1. CASE k = l
    BY <1>1, <1>2, <2>1
  <2>2. CASE k # l
    BY <1>1, <1>2, <2>2 DEF Alone, Trying, Reading, CallsOK
  <2> QED
    BY <2>1, <2>2
<1> QED
  BY <1>1, <1>2 DEF CallsOK

(* Create returns. *)
LEMMA EndEffect ==
    ASSUME CallsOK, NEW l \in Launches, NEW s \in {"done", "failed"}, End(l, s)
    PROVE  /\ CallsOK' /\ Alone(l)
           /\ call'[l].step = s /\ call'[l].want = "counts"
           /\ call'[l].counts = call[l].counts /\ call'[l].floor = call[l].floor
           /\ call'[l].names = <<>> /\ call'[l].heeded = {}
<1> DEFINE r == [CallAt(s) EXCEPT !.counts = call[l].counts, !.floor = call[l].floor]
<1>1. call' = [call EXCEPT ![l] = r]
  BY DEF End
<1>2. call[l].counts \in Nat /\ call[l].floor \in Nat /\ MaxTypes \in Nat
  BY PodRangesAssumption DEF CallsOK, Calls
<1>3. r \in Calls
  <2>1. <<>> \in Seq(AllNames)
    OBVIOUS
  <2>2. CallAt(s) \in Calls
    BY <1>2, <2>1 DEF CallAt, Calls, Steps, None
  <2> QED
    BY <1>2, <2>2 DEF Calls
<1>4. /\ r.step = s /\ r.want = "counts" /\ r.counts = call[l].counts
      /\ r.floor = call[l].floor /\ r.names = <<>> /\ r.heeded = {}
  BY DEF CallAt
<1> HIDE DEF r
<1>5. call'[l] = r
  BY <1>1 DEF CallsOK
<1>6. ~Trying(l)'
  BY <1>4, <1>5 DEF Trying, Reading
<1> QED
  BY <1>1, <1>3, <1>4, <1>6, OneCall

(* The next instance type is tried, or Create returns. *)
LEMMA NextTypeEffect ==
    ASSUME CallsOK, NEW l \in Launches, NextType(l)
    PROVE  /\ CallsOK' /\ Alone(l)
           /\ call'[l].step \in {"attempt", "failed"}
           /\ call'[l].counts = call[l].counts /\ call'[l].floor = call[l].floor
           /\ call'[l].names = <<>> /\ call'[l].heeded = {}
<1>0. call[l] \in Calls
  BY DEF CallsOK
<1>1. CASE call[l].typesLeft > 1
  <2> DEFINE r == [call[l] EXCEPT !.step = "attempt", !.names = <<>>, !.index = 1,
                                  !.result = "none", !.typesLeft = @ - 1,
                                  !.heeded = {}]
  <2>1. call' = [call EXCEPT ![l] = r]
    BY <1>1 DEF NextType, CallsOK, Calls
  <2>2. r \in Calls
    <3>1. <<>> \in Seq(AllNames) /\ call[l].typesLeft - 1 \in Nat
      BY <1>0, <1>1 DEF Calls
    <3>2. \A n \in Nat : [call[l] EXCEPT !.step = "attempt", !.names = <<>>,
                            !.index = 1, !.result = "none", !.typesLeft = n,
                            !.heeded = {}] \in Calls
      BY <1>0, <3>1 DEF Calls, Steps
    <3> QED
      BY <3>1, <3>2
  <2>3. /\ r.step = "attempt" /\ r.counts = call[l].counts
        /\ r.floor = call[l].floor /\ r.names = <<>> /\ r.heeded = {}
    BY DEF CallsOK, Calls
  <2> HIDE DEF r
  <2>4. call'[l] = r
    BY <2>1 DEF CallsOK
  <2>5. ~Trying(l)'
    BY <2>3, <2>4 DEF Trying, Reading
  <2> QED
    BY <2>1, <2>2, <2>3, <2>5, OneCall
<1>2. CASE ~(call[l].typesLeft > 1)
  BY <1>2, EndEffect DEF NextType
<1> QED
  BY <1>1, <1>2

(* An instance is built for a range. *)
LEMMA BuildEffect ==
    ASSUME CallsOK, NEW l \in Launches, NEW names \in Seq(AllNames),
           NEW i \in DOMAIN names, Build(l, names, i)
    PROVE  /\ CallsOK' /\ Alone(l)
           /\ call'[l].step \in {"lock", "insert"} /\ call'[l].want = "stack"
           /\ call'[l].counts = call[l].counts /\ call'[l].floor = call[l].floor
           /\ call'[l].names = names /\ call'[l].heeded = call[l].heeded
<1> DEFINE s == IF DualStack THEN "lock" ELSE "insert"
           r == [call[l] EXCEPT !.step = s, !.want = "stack", !.names = names,
                                !.index = i, !.result = "none"]
<1>0. i \in Nat /\ s \in {"lock", "insert"} /\ call[l] \in Calls
  BY DEF CallsOK
<1>1. call' = [call EXCEPT ![l] = r]
  BY DEF Build, CallsOK, Calls
<1> HIDE DEF s
<1>2. r \in Calls
  BY <1>0 DEF Calls, Steps
<1>3. /\ r.step = s /\ r.want = "stack" /\ r.counts = call[l].counts
      /\ r.floor = call[l].floor /\ r.names = names /\ r.index = i
      /\ r.heeded = call[l].heeded
  BY DEF CallsOK, Calls
<1> HIDE DEF r
<1> QED
  BY <1>0, <1>1, <1>2, <1>3, OneCall

(* getSnapshot returns. *)
LEMMA SnapshotEffect ==
    ASSUME CallsOK, NEW l \in Launches, Reading(l), NEW v \in Nat,
           SnapshotReturned(l, v)
    PROVE  /\ CallsOK' /\ Alone(l)
           /\ call'[l].floor = call[l].floor
           /\ \/ /\ call'[l].step = "failed" /\ call'[l].want = "counts"
                 /\ call'[l].counts = call[l].counts
                 /\ call'[l].names = <<>> /\ call'[l].heeded = {}
              \/ /\ call[l].want = "counts" /\ call'[l].want = "counts"
                 /\ call'[l].step = "attempt" /\ call'[l].counts = v
                 /\ call'[l].names = call[l].names
                 /\ call'[l].heeded = call[l].heeded
              \/ /\ call[l].want = "stack" /\ call'[l].want = "stack"
                 /\ call'[l].step = "insert" /\ call'[l].counts = call[l].counts
                 /\ call'[l].names = call[l].names
                 /\ call'[l].heeded = call[l].heeded
<1>0. call[l] \in Calls
  BY DEF CallsOK
<1>1. CASE End(l, "failed")
  BY <1>1, EndEffect
<1>2. CASE /\ call[l].want = "counts"
           /\ call' = [call EXCEPT ![l].step = "attempt", ![l].counts = v,
                                   ![l].response = None]
  <2> DEFINE r == [call[l] EXCEPT !.step = "attempt", !.counts = v, !.response = None]
  <2>1. call' = [call EXCEPT ![l] = r]
    BY <1>2 DEF CallsOK, Calls
  <2>2. r \in Calls
    BY <1>0 DEF Calls, Steps, None
  <2>3. /\ r.step = "attempt" /\ r.want = call[l].want /\ r.counts = v
        /\ r.floor = call[l].floor /\ r.names = call[l].names
        /\ r.heeded = call[l].heeded
    BY DEF CallsOK, Calls
  <2> HIDE DEF r
  <2>4. call'[l] = r
    BY <2>1 DEF CallsOK
  <2>5. ~Trying(l)'
    BY <2>3, <2>4 DEF Trying, Reading
  <2> QED
    BY <1>2, <2>1, <2>2, <2>3, <2>5, OneCall
<1>3. CASE /\ call[l].want = "stack"
           /\ call' = [call EXCEPT ![l].step = "insert", ![l].response = None]
  <2> DEFINE r == [call[l] EXCEPT !.step = "insert", !.response = None]
  <2>1. call' = [call EXCEPT ![l] = r]
    BY <1>3 DEF CallsOK, Calls
  <2>2. r \in Calls
    BY <1>0 DEF Calls, Steps, None
  <2>3. /\ r.step = "insert" /\ r.want = call[l].want /\ r.counts = call[l].counts
        /\ r.floor = call[l].floor /\ r.names = call[l].names
        /\ r.heeded = call[l].heeded /\ r.index = call[l].index
    BY DEF CallsOK, Calls
  <2>4. call[l].index \in DOMAIN call[l].names
    BY <1>3 DEF CallsOK, Trying
  <2> HIDE DEF r
  <2> QED
    BY <1>3, <2>1, <2>2, <2>3, <2>4, OneCall
<1> QED
  BY <1>1, <1>2, <1>3 DEF SnapshotReturned, CallsOK, Calls

(* The call goes on to another step. *)
LEMMA GotoEffect ==
    ASSUME CallsOK, NEW l \in Launches, NEW s \in Steps, Goto(l, s),
           s = "attempt" \/ Trying(l) \/ (s = "lookup" /\ call[l].want = "counts")
    PROVE  /\ CallsOK' /\ Alone(l) /\ Keeps(l)
           /\ call'[l].step = s /\ call'[l].result = call[l].result
<1> DEFINE r == [call[l] EXCEPT !.step = s]
<1>0. call[l] \in Calls
  BY DEF CallsOK
<1>1. call' = [call EXCEPT ![l] = r]
  BY DEF Goto, CallsOK, Calls
<1>2. r \in Calls
  BY <1>0 DEF Calls
<1>3. /\ r.step = s /\ r.want = call[l].want /\ r.counts = call[l].counts
      /\ r.names = call[l].names /\ r.index = call[l].index
      /\ r.floor = call[l].floor /\ r.heeded = call[l].heeded
      /\ r.result = call[l].result
  BY <1>0 DEF Calls
<1> HIDE DEF r
<1>4. call'[l] = r
  BY <1>1 DEF CallsOK
<1>5. Trying(l)' => r.index \in DOMAIN r.names
  BY <1>3, <1>4 DEF Trying, Reading, CallsOK
<1> QED
  BY <1>1, <1>2, <1>3, <1>5, OneCall DEF Keeps

(* The API has answered getSnapshot. *)
LEMMA LookupEffect ==
    ASSUME TypeOK, NEW l \in Launches, Lookup(l)
    PROVE  /\ CallsOK' /\ Alone(l) /\ Keeps(l)
           /\ call'[l].step = "store" /\ call'[l].response = subnetVersion
<1> DEFINE r == [call[l] EXCEPT !.step = "store", !.response = subnetVersion]
<1>0. call[l] \in Calls /\ subnetVersion \in Nat
  BY PodRangesAssumption DEF TypeOK, CallsOK
<1>1. call' = [call EXCEPT ![l] = r]
  BY DEF Lookup, TypeOK, CallsOK, Calls
<1>2. r \in Calls
  BY <1>0 DEF Calls, Steps
<1>3. /\ r.step = "store" /\ r.want = call[l].want /\ r.counts = call[l].counts
      /\ r.names = call[l].names /\ r.index = call[l].index
      /\ r.floor = call[l].floor /\ r.heeded = call[l].heeded
      /\ r.response = subnetVersion
  BY <1>0 DEF Calls
<1> HIDE DEF r
<1>4. call'[l] = r
  BY <1>1 DEF TypeOK, CallsOK
<1>5. Trying(l)' => r.index \in DOMAIN r.names
  BY <1>3, <1>4 DEF Trying, Reading, TypeOK, CallsOK, Lookup, At
<1> QED
  BY <1>1, <1>2, <1>3, <1>5, OneCall DEF Keeps, TypeOK

(* GetFreeIPCounts is called. *)
LEMMA ReadCountsEffect ==
    ASSUME TypeOK, NEW l \in Launches, ReadCounts(l)
    PROVE  /\ CallsOK' /\ Alone(l)
           /\ call'[l].step = "lock" /\ call'[l].want = "counts"
           /\ call'[l].counts = call[l].counts /\ call'[l].floor = subnetInvalidatedAt
           /\ call'[l].names = call[l].names /\ call'[l].heeded = call[l].heeded
<1> DEFINE r == [call[l] EXCEPT !.step = "lock", !.want = "counts",
                                !.floor = subnetInvalidatedAt]
<1>0. call[l] \in Calls /\ subnetInvalidatedAt \in Nat
  BY PodRangesAssumption DEF TypeOK, CallsOK
<1>1. call' = [call EXCEPT ![l] = r]
  BY DEF ReadCounts, TypeOK, CallsOK, Calls
<1>2. r \in Calls
  BY <1>0 DEF Calls, Steps
<1>3. /\ r.step = "lock" /\ r.want = "counts" /\ r.counts = call[l].counts
      /\ r.floor = subnetInvalidatedAt
      /\ r.names = call[l].names /\ r.heeded = call[l].heeded
  BY <1>0 DEF Calls
<1> HIDE DEF r
<1>4. call'[l] = r
  BY <1>1 DEF TypeOK, CallsOK
<1>5. ~Trying(l)'
  BY <1>3, <1>4 DEF Trying, Reading
<1> QED
  BY <1>1, <1>2, <1>3, <1>5, OneCall DEF TypeOK

(* Create begins. *)
LEMMA CreateEffect ==
    ASSUME TypeOK, NEW l \in Launches, Create(l)
    PROVE  /\ CallsOK' /\ Alone(l)
           /\ call'[l].step = "counts" /\ call'[l].want = "counts"
           /\ call'[l].counts = None /\ call'[l].names = <<>> /\ call'[l].heeded = {}
<1> DEFINE r == CallAt("counts")
<1>1. call' = [call EXCEPT ![l] = r]
  BY DEF Create
<1>2. MaxTypes \in Nat /\ <<>> \in Seq(AllNames)
  BY PodRangesAssumption
<1>3. r \in Calls
  BY <1>2 DEF CallAt, Calls, Steps, None
<1>4. /\ r.step = "counts" /\ r.want = "counts" /\ r.counts = None
      /\ r.names = <<>> /\ r.heeded = {}
  BY DEF CallAt
<1> HIDE DEF r
<1>5. call'[l] = r
  BY <1>1 DEF TypeOK, CallsOK
<1>6. ~Trying(l)'
  BY <1>4, <1>5 DEF Trying, Reading
<1> QED
  BY <1>1, <1>3, <1>4, <1>6, OneCall DEF TypeOK

(* An attempt with an instance type begins. *)
LEMMA AttemptEffect ==
    ASSUME TypeOK, NEW l \in Launches, tryCreateInstance(l)
    PROVE  /\ CallsOK' /\ Alone(l)
           /\ call'[l].step = "config" /\ call'[l].want = call[l].want
           /\ call'[l].counts = call[l].counts /\ call'[l].floor = call[l].floor
           /\ call'[l].names = call[l].names /\ call'[l].heeded = dropped
<1> DEFINE r == [call[l] EXCEPT !.step = "config", !.heeded = dropped]
<1>0. call[l] \in Calls /\ dropped \in SUBSET AllNames
  BY DEF TypeOK, CallsOK
<1>1. call' = [call EXCEPT ![l] = r]
  BY DEF tryCreateInstance, TypeOK, CallsOK, Calls
<1>2. r \in Calls
  BY <1>0 DEF Calls, Steps
<1>3. /\ r.step = "config" /\ r.want = call[l].want /\ r.counts = call[l].counts
      /\ r.floor = call[l].floor
      /\ r.names = call[l].names /\ r.heeded = dropped
  BY <1>0 DEF Calls
<1> HIDE DEF r
<1>4. call'[l] = r
  BY <1>1 DEF TypeOK, CallsOK
<1>5. ~Trying(l)'
  BY <1>3, <1>4 DEF Trying, Reading
<1> QED
  BY <1>1, <1>2, <1>3, <1>5, OneCall DEF TypeOK

(* GCE has judged a range. *)
LEMMA InsertEffect ==
    ASSUME TypeOK, NEW l \in Launches, Insert(l)
    PROVE  /\ CallsOK' /\ Alone(l)
           /\ call'[l].counts = call[l].counts /\ call'[l].floor = call[l].floor
           /\ \/ /\ call'[l].step = "done" /\ call'[l].want = "counts"
                 /\ call'[l].names = <<>> /\ call'[l].heeded = {}
              \/ /\ Keeps(l) /\ call'[l].step = "forget"
                 /\ call'[l].result = Verdict(rangeName(l))
<1>1. CASE Verdict(rangeName(l)) = "done"
  BY <1>1, EndEffect DEF Insert, TypeOK
<1>2. CASE Verdict(rangeName(l)) # "done"
  <2> DEFINE v == Verdict(rangeName(l))
             r == [call[l] EXCEPT !.step = "forget", !.result = v]
  <2>0. call[l] \in Calls /\ v \in {"rejected", "exhausted"}
    BY <1>2 DEF TypeOK, CallsOK, Verdict
  <2>1. call' = [call EXCEPT ![l] = r]
    BY <1>2 DEF Insert, TypeOK, CallsOK, Calls
  <2> HIDE DEF v
  <2>2. r \in Calls
    BY <2>0 DEF Calls, Steps
  <2>3. /\ r.step = "forget" /\ r.want = call[l].want /\ r.counts = call[l].counts
        /\ r.names = call[l].names /\ r.index = call[l].index
        /\ r.floor = call[l].floor /\ r.heeded = call[l].heeded /\ r.result = v
    BY <2>0 DEF Calls
  <2> HIDE DEF r
  <2>4. call[l].index \in DOMAIN call[l].names
    BY DEF Insert, At, Trying, TypeOK, CallsOK
  <2> QED
    BY <2>1, <2>2, <2>3, <2>4, OneCall DEF Keeps, TypeOK, v
<1> QED
  BY <1>1, <1>2

(* The context of a call that reads the subnetwork is done. *)
LEMMA CancelEffect ==
    ASSUME TypeOK, NEW l \in Launches, Reading(l),
           call' = [call EXCEPT ![l].cancelled = TRUE]
    PROVE  /\ CallsOK' /\ Alone(l) /\ Keeps(l)
           /\ call'[l].step = call[l].step /\ call'[l].response = call[l].response
<1> DEFINE r == [call[l] EXCEPT !.cancelled = TRUE]
<1>0. call[l] \in Calls
  BY DEF TypeOK, CallsOK
<1>1. call' = [call EXCEPT ![l] = r]
  BY DEF TypeOK, CallsOK, Calls
<1>2. r \in Calls
  BY <1>0 DEF Calls
<1>3. /\ r.step = call[l].step /\ r.want = call[l].want
      /\ r.counts = call[l].counts /\ r.response = call[l].response
      /\ r.names = call[l].names /\ r.index = call[l].index
      /\ r.floor = call[l].floor /\ r.heeded = call[l].heeded
  BY <1>0 DEF Calls
<1> HIDE DEF r
<1>4. call'[l] = r
  BY <1>1 DEF TypeOK, CallsOK
<1>5. Trying(l)' => r.index \in DOMAIN r.names
  BY <1>3, <1>4 DEF Trying, Reading, TypeOK, CallsOK
<1> QED
  BY <1>1, <1>2, <1>3, <1>5, OneCall DEF Keeps, TypeOK

(* The configuration is read, invalidated and changed as FreshRead says. *)
LEMMA ConfigEffect ==
    ASSUME ConfigOK,
           \/ \E l \in Launches : Config!Ask(l) \/ Config!Answer(l) \/ Config!Leave(l)
           \/ Config!Invalidate
           \/ configVersion < Len(ConfigNames) /\ Config!Change
           \/ UNCHANGED config
    PROVE  ConfigOK'
<1>0. Len(ConfigNames) \in Nat /\ configVersion \in Nat
  BY PodRangesAssumption DEF ConfigOK
<1>1. ASSUME NEW l \in Launches, Config!Ask(l)  PROVE ConfigOK'
  BY <1>0, <1>1 DEF Config!Ask, Config!None, ConfigOK
<1>2. ASSUME NEW l \in Launches, Config!Answer(l)  PROVE ConfigOK'
  <2>1. PICK v \in configFloor[l]..configVersion :
                configAnswer' = [configAnswer EXCEPT ![l] = v]
    BY <1>2 DEF Config!Answer
  <2>2. v \in 0..configVersion
    BY <1>0, <2>1 DEF ConfigOK
  <2> QED
    BY <1>0, <1>2, <2>1, <2>2 DEF Config!Answer, ConfigOK
<1>3. ASSUME NEW l \in Launches, Config!Leave(l)  PROVE ConfigOK'
  BY <1>0, <1>3 DEF Config!Leave, Config!None, ConfigOK
<1>4. CASE Config!Invalidate
  BY <1>0, <1>4 DEF Config!Invalidate, ConfigOK
<1>5. CASE configVersion < Len(ConfigNames) /\ Config!Change
  BY <1>0, <1>5 DEF Config!Change, ConfigOK
<1>6. CASE UNCHANGED config
  BY <1>6 DEF config, ConfigOK
<1> QED
  BY <1>1, <1>2, <1>3, <1>4, <1>5, <1>6

(* The names a launch works with are names, and there is one. *)
LEMMA CandidateNames ==
    ASSUME TypeOK, NEW l \in Launches, Config!Answer(l)
    PROVE  /\ configAnswer'[l] \in configFloor[l]..configVersion
           /\ configAnswer'[l] \in 1..configVersion
           /\ configAnswer'[l] \in 1..Len(ConfigNames)
<1>0. Len(ConfigNames) \in Nat /\ configVersion \in Nat /\ configFloor[l] \in Nat
  BY PodRangesAssumption DEF TypeOK, ConfigOK
<1>1. PICK v \in configFloor[l]..configVersion :
              v # 0 /\ configAnswer' = [configAnswer EXCEPT ![l] = v]
  BY DEF Config!Answer, Config!None
<1>2. configAnswer'[l] = v
  BY <1>1 DEF TypeOK, ConfigOK
<1> QED
  BY <1>0, <1>1, <1>2 DEF TypeOK, ConfigOK

(* createInstanceWithPodRanges builds an instance for the first candidate. *)
LEMMA CandidatesEffect ==
    ASSUME TypeOK, NEW l \in Launches, createInstanceWithPodRanges(l)
    PROVE  /\ CallsOK' /\ Alone(l)
           /\ call'[l].step \in {"lock", "insert"} /\ call'[l].want = "stack"
           /\ call'[l].counts = call[l].counts /\ call'[l].floor = call[l].floor
           /\ call'[l].heeded = call[l].heeded
           /\ \A i \in DOMAIN call'[l].names :
                call'[l].names[i] \in Range(resolvedPodRangeNames(l, configAnswer'[l]))
<1> DEFINE all == resolvedPodRangeNames(l, configAnswer'[l])
<1>1. all \in Seq(AllNames) /\ all # <<>>
  BY CandidateNames, ResolvedNames DEF createInstanceWithPodRanges
<1>2. PICK names \in rankPodRangeNames(all, call[l].counts) : Build(l, names, 1)
  BY DEF createInstanceWithPodRanges
<1> HIDE DEF all
<1>3. /\ names \in Seq(AllNames) /\ DOMAIN names = DOMAIN all
      /\ \A k \in DOMAIN names : names[k] \in Range(all)
  BY <1>1, <1>2, RankedNames
<1>4. 1 \in DOMAIN names
  BY <1>1, <1>3
<1>5. /\ CallsOK' /\ Alone(l)
      /\ call'[l].step \in {"lock", "insert"} /\ call'[l].want = "stack"
      /\ call'[l].counts = call[l].counts /\ call'[l].floor = call[l].floor
      /\ call'[l].names = names /\ call'[l].heeded = call[l].heeded
  BY <1>2, <1>3, <1>4, BuildEffect DEF TypeOK
<1> QED
  BY <1>3, <1>5 DEF all

(* What follows a range that is full or missing. *)
LEMMA AfterRangeEffect ==
    ASSUME TypeOK, NEW l \in Launches, Trying(l), AfterRange(l)
    PROVE  /\ CallsOK' /\ Alone(l) /\ dropped' \in SUBSET AllNames
           /\ call'[l].counts = call[l].counts /\ call'[l].floor = call[l].floor
           /\ \/ /\ call'[l].step \in {"attempt", "failed"}
                 /\ call'[l].names = <<>> /\ call'[l].heeded = {}
              \/ /\ call'[l].step \in {"lock", "insert"} /\ call'[l].want = "stack"
                 /\ call'[l].names = call[l].names /\ call'[l].heeded = call[l].heeded
<1>0. /\ call[l] \in Calls /\ call[l].index \in DOMAIN call[l].names
      /\ call[l].names \in Seq(AllNames)
  BY DEF TypeOK, CallsOK, Calls
<1>1. dropped' \in SUBSET AllNames
  <2>1. rangeName(l) \in AllNames
    BY <1>0 DEF rangeName
  <2> QED
    BY <2>1 DEF AfterRange, TypeOK
<1>2. CASE NextType(l)
  BY <1>1, <1>2, NextTypeEffect DEF TypeOK
<1>3. CASE /\ call[l].index < Len(call[l].names)
           /\ Build(l, call[l].names, call[l].index + 1)
  <2>1. call[l].index + 1 \in DOMAIN call[l].names
    BY <1>0, <1>3
  <2> QED
    BY <1>0, <1>1, <1>3, <2>1, BuildEffect DEF TypeOK
<1>4. CASE End(l, "failed")
  BY <1>1, <1>4, EndEffect DEF TypeOK
<1> QED
  BY <1>2, <1>3, <1>4 DEF AfterRange

(* The entry is one, also after it has aged. *)
LEMMA CacheEffect ==
    ASSUME cache \in [kind : {"none", "counts", "error"}, version : Nat, age : Nat]
    PROVE  /\ Aged \in [kind : {"none", "counts", "error"}, version : Nat, age : Nat]
           /\ NoEntry \in [kind : {"none", "counts", "error"}, version : Nat, age : Nat]
           /\ \/ Aged = NoEntry
              \/ /\ Aged.kind = cache.kind /\ Aged.version = cache.version
                 /\ Aged.age = cache.age + 1
<1>1. NoEntry \in [kind : {"none", "counts", "error"}, version : Nat, age : Nat]
  BY DEF NoEntry, None
<1>2. CASE Aged = NoEntry
  BY <1>1, <1>2
<1>3. CASE Aged = [cache EXCEPT !.age = @ + 1]
  BY <1>1, <1>3
<1> QED
  BY <1>2, <1>3 DEF Aged
-----------------------------------------------------------------------------
(* Types.                                                                  *)

(* At the start no launch has read anything. *)
LEMMA InitTypeOK == Init => TypeOK
<1> SUFFICES ASSUME Init PROVE TypeOK
  OBVIOUS
<1>1. Len(ConfigNames) \in Nat \ {0} /\ Len(Subnet) \in Nat \ {0}
  BY PodRangesAssumption
<1>2. ConfigOK
  BY <1>1 DEF Init, Config!Init, Config!None, ConfigOK
<1>3. CallAt("idle") \in Calls
  <2>1. <<>> \in Seq(AllNames) /\ MaxTypes \in Nat
    BY PodRangesAssumption
  <2> QED
    BY <2>1 DEF CallAt, Calls, Steps, None
<1>4. \A l \in Launches : call[l] = CallAt("idle") /\ call[l].step = "idle"
  BY DEF Init, CallAt
<1>5. CallsOK
  BY <1>3, <1>4 DEF Init, CallsOK, Trying, Reading
<1> QED
  BY <1>1, <1>2, <1>5, PodRangesAssumption DEF Init, NoEntry, None, TypeOK

(* What the proof of every action shows. *)
LEMMA NextTypeOK == TypeOK /\ [Next]_vars => TypeOK'
<1> SUFFICES ASSUME TypeOK, [Next]_vars  PROVE TypeOK'
  OBVIOUS
<1> DEFINE Rest == /\ subnetVersion \in 1..Len(Subnet)
                   /\ cache \in [kind : {"none", "counts", "error"},
                                 version : Nat, age : Nat]
                   /\ holder \in SUBSET Launches
                   /\ subnetInvalidatedAt \in 0..subnetVersion
                   /\ sinceFailure \in Nat
                   /\ dropped \in SUBSET AllNames
<1>0. ConfigOK /\ CallsOK /\ Rest
  BY DEF TypeOK
<1>00. ConfigOK' /\ CallsOK' /\ Rest' => TypeOK'
  BY DEF TypeOK
<1>t. Len(Subnet) \in Nat /\ subnetVersion \in Nat
  BY <1>0, PodRangesAssumption
<1>1. ASSUME NEW l \in Launches, Lock(l)  PROVE TypeOK'
  <2>1. ConfigOK'
    BY <1>0, <1>1, ConfigEffect DEF Lock
  <2>2. Rest'
    BY <1>0, <1>1 DEF Lock, history
  <2>3. Reading(l) /\ None \in Nat /\ cache.version \in Nat
    BY <1>0, <1>1 DEF Lock, At, Reading, None
  <2>4. CASE Goto(l, "lookup")
    <3>1. Trying(l) \/ call[l].want = "counts"
      BY <1>0, <2>3 DEF Trying, CallsOK, Calls
    <3>2. "lookup" \in Steps
      BY DEF Steps
    <3> QED
      BY <1>0, <1>00, <2>1, <2>2, <2>4, <3>1, <3>2, GotoEffect
  <2>5. ASSUME NEW v \in Nat, SnapshotReturned(l, v)  PROVE TypeOK'
    BY <1>0, <1>00, <2>1, <2>2, <2>3, <2>5, SnapshotEffect
  <2> QED
    BY <1>1, <2>3, <2>4, <2>5 DEF Lock
<1>2. ASSUME NEW l \in Launches, Invalidate(l)  PROVE TypeOK'
  <2>1. ConfigOK'
    BY <1>0, <1>2, ConfigEffect DEF Invalidate
  <2>2. Trying(l)
    BY <1>2 DEF Invalidate, Invalidates, At, Trying
  <2>3. CallsOK' /\ dropped' \in SUBSET AllNames
    <3>1. CASE Goto(l, "forgetConfig") /\ UNCHANGED dropped
      BY <1>0, <2>2, <3>1, GotoEffect DEF Steps
    <3>2. CASE AfterRange(l)
      BY <2>2, <3>2, AfterRangeEffect
    <3> QED
      BY <1>2, <3>1, <3>2 DEF Invalidate
  <2>4. Rest'
    BY <1>0, <1>t, <1>2, <2>3, CacheEffect DEF Invalidate
  <2> QED
    BY <1>00, <2>1, <2>3, <2>4
<1>3. ASSUME NEW l \in Launches, Lookup(l)  PROVE TypeOK'
  <2>1. ConfigOK'
    BY <1>0, <1>3, ConfigEffect DEF Lookup
  <2> QED
    BY <1>0, <1>00, <1>3, <2>1, LookupEffect DEF Lookup, history
<1>4. ASSUME NEW l \in Launches, Store(l)  PROVE TypeOK'
  <2>1. ConfigOK'
    BY <1>0, <1>4, ConfigEffect DEF Store
  <2>2. Reading(l) /\ call[l].response \in Nat
    BY <1>0, <1>4 DEF Store, At, Reading, CallsOK, Calls
  <2>3. Rest'
    BY <1>0, <1>4, <2>2 DEF Store, Unlock, history
  <2>4. CallsOK'
    BY <1>0, <1>4, <2>2, SnapshotEffect DEF Store
  <2> QED
    BY <1>00, <2>1, <2>3, <2>4
<1>5. ASSUME NEW l \in Launches, Create(l)  PROVE TypeOK'
  <2>1. ConfigOK'
    BY <1>0, <1>5, ConfigEffect DEF Create
  <2> QED
    BY <1>0, <1>00, <1>5, <2>1, CreateEffect DEF Create, history
<1>6. ASSUME NEW l \in Launches, podRangeFreeIPs(l)  PROVE TypeOK'
  <2>1. ConfigOK'
    BY <1>0, <1>6, ConfigEffect DEF podRangeFreeIPs
  <2>2. CallsOK'
    BY <1>0, <1>6, ReadCountsEffect, GotoEffect DEF podRangeFreeIPs, Steps
  <2> QED
    BY <1>0, <1>00, <1>6, <2>1, <2>2 DEF podRangeFreeIPs, history
<1>7. ASSUME NEW l \in Launches, tryCreateInstance(l)  PROVE TypeOK'
  <2>1. ConfigOK'
    BY <1>0, <1>7, ConfigEffect DEF tryCreateInstance
  <2> QED
    BY <1>0, <1>00, <1>7, <2>1, AttemptEffect DEF tryCreateInstance, history
<1>8. ASSUME NEW l \in Launches, createInstanceWithPodRanges(l)  PROVE TypeOK'
  <2>1. ConfigOK'
    BY <1>0, <1>8, ConfigEffect DEF createInstanceWithPodRanges
  <2> QED
    BY <1>0, <1>00, <1>8, <2>1, CandidatesEffect
       DEF createInstanceWithPodRanges, history
<1>9. ASSUME NEW l \in Launches, Insert(l)  PROVE TypeOK'
  <2>1. ConfigOK'
    BY <1>0, <1>9, ConfigEffect DEF Insert
  <2> QED
    BY <1>0, <1>00, <1>9, <2>1, InsertEffect DEF Insert, history
<1>10. ASSUME NEW l \in Launches, InvalidateClusterConfig(l)  PROVE TypeOK'
  <2>1. ConfigOK'
    BY <1>0, <1>10, ConfigEffect DEF InvalidateClusterConfig
  <2>2. CallsOK' /\ dropped' \in SUBSET AllNames
    BY <1>10, AfterRangeEffect DEF InvalidateClusterConfig, Trying, At
  <2> QED
    BY <1>0, <1>00, <1>10, <2>1, <2>2 DEF InvalidateClusterConfig
<1>11. ASSUME NEW l \in Launches, LookupFails(l)  PROVE TypeOK'
  <2>1. ConfigOK'
    BY <1>0, <1>11, ConfigEffect DEF LookupFails
  <2>2. CallsOK'
    BY <1>0, <1>11, SnapshotEffect DEF LookupFails, At, Reading, None
  <2>3. Rest'
    BY <1>0, <1>11 DEF LookupFails, Unlock, None
  <2> QED
    BY <1>00, <2>1, <2>2, <2>3
<1>12. ASSUME NEW l \in Launches, ConfigFails(l)  PROVE TypeOK'
  <2>1. ConfigOK'
    BY <1>0, <1>12, ConfigEffect DEF ConfigFails
  <2>2. CallsOK'
    BY <1>0, <1>12, GotoEffect, NextTypeEffect DEF ConfigFails, Steps
  <2> QED
    BY <1>0, <1>00, <1>12, <2>1, <2>2 DEF ConfigFails, history
<1>13. ASSUME NEW l \in Launches, InsertFails(l)  PROVE TypeOK'
  <2>1. ConfigOK'
    BY <1>0, <1>13, ConfigEffect DEF InsertFails
  <2>2. CallsOK'
    BY <1>0, <1>13, NextTypeEffect, EndEffect DEF InsertFails
  <2> QED
    BY <1>0, <1>00, <1>13, <2>1, <2>2 DEF InsertFails, history
<1>14. ASSUME NEW l \in Launches, Cancel(l)  PROVE TypeOK'
  <2>1. ConfigOK'
    BY <1>0, <1>14, ConfigEffect DEF Cancel
  <2>2. CallsOK'
    BY <1>0, <1>14, CancelEffect, EndEffect DEF Cancel, Reading
  <2> QED
    BY <1>0, <1>00, <1>14, <2>1, <2>2 DEF Cancel, history
<1>15. CASE ConfigChanges
  <2>1. ConfigOK'
    BY <1>0, <1>15, ConfigEffect DEF ConfigChanges
  <2> QED
    BY <1>0, <1>00, <1>15, <2>1
       DEF ConfigChanges, history, CallsOK, Trying, Reading
<1>16. CASE SubnetChanges
  <2>1. ConfigOK'
    BY <1>0, <1>16, ConfigEffect DEF SubnetChanges
  <2>2. CallsOK'
    BY <1>0, <1>16 DEF SubnetChanges, CallsOK, Trying, Reading
  <2>3. Rest'
    BY <1>0, <1>t, <1>16 DEF SubnetChanges, history
  <2> QED
    BY <1>00, <2>1, <2>2, <2>3
<1>17. CASE Tick
  <2>1. ConfigOK'
    BY <1>0, <1>17, ConfigEffect DEF Tick
  <2>2. CallsOK'
    BY <1>0, <1>17 DEF Tick, CallsOK, Trying, Reading
  <2>3. Rest'
    BY <1>0, <1>17, CacheEffect DEF Tick
  <2> QED
    BY <1>00, <2>1, <2>2, <2>3
<1>18. CASE UNCHANGED vars
  <2>1. ConfigOK'
    BY <1>0, <1>18, ConfigEffect DEF vars
  <2> QED
    BY <1>0, <1>00, <1>18, <2>1 DEF vars, history, CallsOK, Trying, Reading
<1> QED
  BY <1>1, <1>2, <1>3, <1>4, <1>5, <1>6, <1>7, <1>8, <1>9, <1>10, <1>11, <1>12,
     <1>13, <1>14, <1>15, <1>16, <1>17, <1>18 DEF Next, Locks, Proceeds, Fails

(* Every variable keeps its type, the launches never look beyond the last  *)
(* candidate, and what they read of the configuration has been true.       *)
THEOREM PodRangesTypeCorrect == Spec => []TypeOK
<1> QED
  BY InitTypeOK, NextTypeOK, PTL DEF Spec
-----------------------------------------------------------------------------
(* The counts.                                                             *)

(* A step of one launch leaves the others as they are. *)
LEMMA OthersFresh ==
    ASSUME NEW l \in Launches, Alone(l),
           \A k \in Launches : LaunchFresh(k),
           UNCHANGED <<subnetInvalidatedAt, subnetVersion>>,
           holder' \ {l} = holder \ {l},
           LaunchFresh(l)'
    PROVE  \A k \in Launches : LaunchFresh(k)'
<1> SUFFICES ASSUME NEW k \in Launches, k # l  PROVE LaunchFresh(k)'
  OBVIOUS
<1>1. call'[k] = call[k] /\ (k \in holder' <=> k \in holder) /\ LaunchFresh(k)
  BY DEF Alone
<1> QED
  BY <1>1 DEF LaunchFresh, At, Reading

(* Every step of a launch, and every change of the subnetwork, keeps the   *)
(* entry fresh.                                                            *)
LEMMA NextSnapshotFresh == TypeOK /\ SnapshotFresh /\ [Next]_vars => SnapshotFresh'
<1> SUFFICES ASSUME TypeOK, SnapshotFresh, [Next]_vars  PROVE SnapshotFresh'
  OBVIOUS
<1>0. /\ CallsOK /\ holder \in SUBSET Launches
      /\ \A k, l \in holder : k = l
      /\ EntryFresh
      /\ \A l \in Launches : LaunchFresh(l)
  BY DEF TypeOK, SnapshotFresh
<1>t. /\ subnetVersion \in Nat /\ subnetInvalidatedAt \in Nat
      /\ subnetInvalidatedAt <= subnetVersion
  BY PodRangesAssumption DEF TypeOK
<1>s. UNCHANGED <<cache, subnetVersion, subnetInvalidatedAt>> => EntryFresh'
  BY <1>0 DEF EntryFresh
<1>q. ASSUME NEW l \in Launches, Alone(l),
             UNCHANGED <<subnetVersion, cache, holder, subnetInvalidatedAt>>,
             LaunchFresh(l)'
      PROVE  SnapshotFresh'
  <2>1. \A k \in Launches : LaunchFresh(k)'
    BY <1>0, <1>q, OthersFresh
  <2> QED
    BY <1>0, <1>s, <1>q, <2>1 DEF SnapshotFresh
<1>1. ASSUME NEW l \in Launches, Lock(l)  PROVE SnapshotFresh'
  <2>1. /\ Reading(l) /\ None \in Nat /\ cache.version \in Nat /\ holder = {}
        /\ UNCHANGED <<subnetVersion, cache, subnetInvalidatedAt>>
    BY <1>1 DEF Lock, At, Reading, None, history, TypeOK
  <2>2. CASE Goto(l, "lookup") /\ holder' = {l}
    <3>1. Trying(l) \/ call[l].want = "counts"
      BY <1>0, <2>1 DEF Trying, CallsOK, Calls
    <3>2. "lookup" \in Steps
      BY DEF Steps
    <3>3. Alone(l) /\ Keeps(l) /\ call'[l].step = "lookup"
      BY <1>0, <2>2, <3>1, <3>2, GotoEffect
    <3>4. LaunchFresh(l)'
      BY <1>0, <2>1, <2>2, <3>3 DEF LaunchFresh, At, Reading, Keeps
    <3>5. \A k \in Launches : LaunchFresh(k)'
      BY <1>0, <2>1, <2>2, <3>3, <3>4, OthersFresh
    <3> QED
      BY <1>s, <2>1, <2>2, <3>5 DEF SnapshotFresh
  <2>3. ASSUME NEW v \in Nat, SnapshotReturned(l, v), UNCHANGED holder
        PROVE  SnapshotFresh'
    <3>1. Alone(l) /\ call'[l].step \in {"failed", "attempt", "insert"}
      BY <1>0, <2>1, <2>3, SnapshotEffect
    <3>2. LaunchFresh(l)'
      BY <2>1, <2>3, <3>1 DEF LaunchFresh, At, Reading
    <3> QED
      BY <1>q, <2>1, <2>3, <3>1, <3>2
  <2> QED
    BY <1>1, <2>1, <2>2, <2>3 DEF Lock
<1>2. ASSUME NEW l \in Launches, Invalidate(l)  PROVE SnapshotFresh'
  <2>1. /\ Trying(l) /\ holder = {} /\ holder' = {} /\ cache' = NoEntry
        /\ subnetVersion' = subnetVersion /\ subnetInvalidatedAt' = subnetVersion
    BY <1>2 DEF Invalidate, Invalidates, At, Trying
  <2>2. /\ Alone(l)
        /\ \/ call'[l].step \in {"attempt", "failed", "insert", "forgetConfig"}
           \/ call'[l].step = "lock" /\ call'[l].want = "stack"
    <3>1. CASE Goto(l, "forgetConfig")
      BY <1>0, <2>1, <3>1, GotoEffect DEF Steps
    <3>2. CASE AfterRange(l)
      BY <2>1, <3>2, AfterRangeEffect
    <3> QED
      BY <1>2, <3>1, <3>2 DEF Invalidate
  <2>3. LaunchFresh(l)'
    BY <2>1, <2>2 DEF LaunchFresh, At, Reading
  <2>4. ASSUME NEW k \in Launches, k # l  PROVE LaunchFresh(k)'
    <3>1. call'[k] = call[k] /\ LaunchFresh(k) /\ call[k].floor \in Nat
      BY <1>0, <2>2, <2>4 DEF Alone, CallsOK, Calls
    <3> QED
      BY <1>t, <2>1, <3>1 DEF LaunchFresh, At, Reading
  <2>5. EntryFresh'
    BY <2>1 DEF EntryFresh, NoEntry
  <2> QED
    BY <2>1, <2>3, <2>4, <2>5 DEF SnapshotFresh
<1>3. ASSUME NEW l \in Launches, Lookup(l)  PROVE SnapshotFresh'
  <2>1. /\ Alone(l) /\ Keeps(l)
        /\ call'[l].step = "store" /\ call'[l].response = subnetVersion
    BY <1>3, LookupEffect
  <2>2. UNCHANGED <<subnetVersion, cache, holder, subnetInvalidatedAt>>
    BY <1>3 DEF Lookup, history
  <2>3. subnetVersion # None
    BY <1>t, PodRangesAssumption DEF TypeOK, None
  <2>4. LaunchFresh(l)'
    BY <1>0, <1>t, <1>3, <2>1, <2>2, <2>3 DEF LaunchFresh, At, Reading, Keeps, Lookup
  <2> QED
    BY <1>q, <2>1, <2>2, <2>4
<1>4. ASSUME NEW l \in Launches, Store(l)  PROVE SnapshotFresh'
  <2>1. Reading(l) /\ call[l].response \in Nat
    BY <1>0, <1>4 DEF Store, At, Reading, CallsOK, Calls
  <2>2. Alone(l) /\ call'[l].step \in {"failed", "attempt", "insert"}
    BY <1>0, <1>4, <2>1, SnapshotEffect DEF Store
  <2>3. holder = {l}
    BY <1>0, <1>4 DEF Store, LaunchFresh, At
  <2>4. /\ holder' = {} /\ UNCHANGED <<subnetVersion, subnetInvalidatedAt>>
        /\ cache' = [kind |-> "counts", version |-> call[l].response, age |-> 0]
    BY <1>4 DEF Store, Unlock, history
  <2>5. LaunchFresh(l)'
    BY <2>2, <2>4 DEF LaunchFresh, At, Reading
  <2>6. \A k \in Launches : LaunchFresh(k)'
    BY <1>0, <2>2, <2>3, <2>4, <2>5, OthersFresh
  <2>7. EntryFresh'
    BY <1>0, <1>4, <2>4 DEF EntryFresh, LaunchFresh, Store
  <2> QED
    BY <2>4, <2>6, <2>7 DEF SnapshotFresh
<1>5. ASSUME NEW l \in Launches, Create(l)  PROVE SnapshotFresh'
  <2>1. Alone(l) /\ call'[l].step = "counts" /\ call'[l].counts = None
    BY <1>5, CreateEffect
  <2>2. UNCHANGED <<subnetVersion, cache, holder, subnetInvalidatedAt>>
    BY <1>5 DEF Create, history
  <2>3. LaunchFresh(l)'
    BY <1>0, <1>5, <2>1, <2>2 DEF LaunchFresh, At, Reading, Create, Resting
  <2> QED
    BY <1>q, <2>1, <2>2, <2>3
<1>6. ASSUME NEW l \in Launches, podRangeFreeIPs(l)  PROVE SnapshotFresh'
  <2>1. /\ UNCHANGED <<subnetVersion, cache, holder, subnetInvalidatedAt>>
        /\ call[l].step = "counts"
    BY <1>6 DEF podRangeFreeIPs, history, At
  <2>2. CASE Goto(l, "attempt")
    <3>1. Alone(l) /\ call'[l].step = "attempt"
      BY <1>0, <2>2, GotoEffect DEF Steps
    <3>2. LaunchFresh(l)'
      BY <1>0, <2>1, <3>1 DEF LaunchFresh, At, Reading
    <3> QED
      BY <1>q, <2>1, <3>1, <3>2
  <2>3. CASE ReadCounts(l)
    <3>1. /\ Alone(l) /\ call'[l].step = "lock" /\ call'[l].counts = call[l].counts
          /\ call'[l].floor = subnetInvalidatedAt
      BY <2>3, ReadCountsEffect
    <3>2. LaunchFresh(l)'
      BY <1>0, <1>t, <2>1, <3>1 DEF LaunchFresh, At, Reading
    <3> QED
      BY <1>q, <2>1, <3>1, <3>2
  <2> QED
    BY <1>6, <2>2, <2>3 DEF podRangeFreeIPs
<1>7. ASSUME NEW l \in Launches, tryCreateInstance(l)  PROVE SnapshotFresh'
  <2>1. Alone(l) /\ call'[l].step = "config"
    BY <1>7, AttemptEffect
  <2>2. UNCHANGED <<subnetVersion, cache, holder, subnetInvalidatedAt>>
    BY <1>7 DEF tryCreateInstance, history
  <2>3. LaunchFresh(l)'
    BY <1>0, <1>7, <2>1, <2>2 DEF LaunchFresh, At, Reading, tryCreateInstance
  <2> QED
    BY <1>q, <2>1, <2>2, <2>3
<1>8. ASSUME NEW l \in Launches, createInstanceWithPodRanges(l)  PROVE SnapshotFresh'
  <2>1. /\ Alone(l) /\ call'[l].step \in {"lock", "insert"}
        /\ call'[l].want = "stack"
    BY <1>8, CandidatesEffect
  <2>2. UNCHANGED <<subnetVersion, cache, holder, subnetInvalidatedAt>>
    BY <1>8 DEF createInstanceWithPodRanges, history
  <2>3. LaunchFresh(l)'
    BY <1>0, <1>8, <2>1, <2>2
       DEF LaunchFresh, At, Reading, createInstanceWithPodRanges
  <2> QED
    BY <1>q, <2>1, <2>2, <2>3
<1>9. ASSUME NEW l \in Launches, Insert(l)  PROVE SnapshotFresh'
  <2>1. Alone(l) /\ call'[l].step \in {"done", "forget"}
    BY <1>9, InsertEffect
  <2>2. UNCHANGED <<subnetVersion, cache, holder, subnetInvalidatedAt>>
    BY <1>9 DEF Insert, history
  <2>3. LaunchFresh(l)'
    BY <1>0, <1>9, <2>1, <2>2 DEF LaunchFresh, At, Reading, Insert
  <2> QED
    BY <1>q, <2>1, <2>2, <2>3
<1>10. ASSUME NEW l \in Launches, InvalidateClusterConfig(l)  PROVE SnapshotFresh'
  <2>1. /\ Alone(l)
        /\ \/ call'[l].step \in {"attempt", "failed", "insert"}
           \/ call'[l].step = "lock" /\ call'[l].want = "stack"
    BY <1>10, AfterRangeEffect DEF InvalidateClusterConfig, Trying, At
  <2>2. UNCHANGED <<subnetVersion, cache, holder, subnetInvalidatedAt>>
    BY <1>10 DEF InvalidateClusterConfig
  <2>3. LaunchFresh(l)'
    BY <1>0, <1>10, <2>1, <2>2 DEF LaunchFresh, At, Reading, InvalidateClusterConfig
  <2> QED
    BY <1>q, <2>1, <2>2, <2>3
<1>11. ASSUME NEW l \in Launches, LookupFails(l)  PROVE SnapshotFresh'
  <2>1. Alone(l) /\ call'[l].step \in {"failed", "attempt", "insert"}
    BY <1>0, <1>11, SnapshotEffect DEF LookupFails, At, Reading, None
  <2>2. holder = {l}
    BY <1>0, <1>11 DEF LookupFails, LaunchFresh, At
  <2>3. /\ holder' = {} /\ UNCHANGED <<subnetVersion, subnetInvalidatedAt>>
        /\ cache' = cache \/ cache' = [kind |-> "error", version |-> None, age |-> 0]
    BY <1>11 DEF LookupFails, Unlock
  <2>4. LaunchFresh(l)'
    BY <2>1, <2>3 DEF LaunchFresh, At, Reading
  <2>5. \A k \in Launches : LaunchFresh(k)'
    BY <1>0, <2>1, <2>2, <2>3, <2>4, OthersFresh
  <2>6. EntryFresh'
    BY <1>0, <2>3 DEF EntryFresh
  <2> QED
    BY <2>3, <2>5, <2>6 DEF SnapshotFresh
<1>12. ASSUME NEW l \in Launches, ConfigFails(l)  PROVE SnapshotFresh'
  <2>1. Alone(l) /\ call'[l].step \in {"attempt", "failed"}
    BY <1>0, <1>12, GotoEffect, NextTypeEffect DEF ConfigFails, Steps
  <2>2. UNCHANGED <<subnetVersion, cache, holder, subnetInvalidatedAt>>
    BY <1>12 DEF ConfigFails, history
  <2>3. LaunchFresh(l)'
    BY <1>0, <1>12, <2>1, <2>2 DEF LaunchFresh, At, Reading, ConfigFails
  <2> QED
    BY <1>q, <2>1, <2>2, <2>3
<1>13. ASSUME NEW l \in Launches, InsertFails(l)  PROVE SnapshotFresh'
  <2>1. Alone(l) /\ call'[l].step \in {"attempt", "failed"}
    BY <1>0, <1>13, NextTypeEffect, EndEffect DEF InsertFails
  <2>2. UNCHANGED <<subnetVersion, cache, holder, subnetInvalidatedAt>>
    BY <1>13 DEF InsertFails, history
  <2>3. LaunchFresh(l)'
    BY <1>0, <1>13, <2>1, <2>2 DEF LaunchFresh, At, Reading, InsertFails
  <2> QED
    BY <1>q, <2>1, <2>2, <2>3
<1>14. ASSUME NEW l \in Launches, Cancel(l)  PROVE SnapshotFresh'
  <2>1. UNCHANGED <<subnetVersion, cache, holder, subnetInvalidatedAt>>
    BY <1>14 DEF Cancel, history
  <2>2. CASE Reading(l) /\ call' = [call EXCEPT ![l].cancelled = TRUE]
    <3>1. /\ Alone(l) /\ Keeps(l)
          /\ call'[l].step = call[l].step /\ call'[l].response = call[l].response
      BY <2>2, CancelEffect
    <3>2. LaunchFresh(l)'
      BY <1>0, <2>1, <3>1 DEF LaunchFresh, At, Reading, Keeps
    <3> QED
      BY <1>q, <2>1, <3>1, <3>2
  <2>3. CASE /\ call[l].step \in {"counts", "attempt", "config", "insert"}
             /\ End(l, "failed")
    <3>1. Alone(l) /\ call'[l].step = "failed"
      BY <1>0, <2>3, EndEffect
    <3>2. LaunchFresh(l)'
      BY <1>0, <2>1, <2>3, <3>1 DEF LaunchFresh, At, Reading
    <3> QED
      BY <1>q, <2>1, <3>1, <3>2
  <2> QED
    BY <1>14, <2>2, <2>3 DEF Cancel, Reading
<1>15. CASE ConfigChanges
  BY <1>0, <1>15 DEF ConfigChanges, history, SnapshotFresh, EntryFresh, LaunchFresh,
                     At, Reading
<1>16. CASE SubnetChanges
  <2>1. /\ subnetVersion' = subnetVersion + 1
        /\ UNCHANGED <<cache, holder, call, subnetInvalidatedAt>>
    BY <1>16 DEF SubnetChanges, history
  <2>2. EntryFresh'
    BY <1>0, <1>t, <2>1 DEF EntryFresh
  <2>3. ASSUME NEW k \in Launches  PROVE LaunchFresh(k)'
    BY <1>0, <1>t, <2>1 DEF LaunchFresh, At, Reading
  <2> QED
    BY <1>0, <2>1, <2>2, <2>3 DEF SnapshotFresh
<1>17. CASE Tick
  <2>1. UNCHANGED <<subnetVersion, holder, call, subnetInvalidatedAt>> /\ cache' = Aged
    BY <1>17 DEF Tick
  <2>2. \/ cache' = NoEntry
        \/ cache'.kind = cache.kind /\ cache'.version = cache.version
    BY <2>1, CacheEffect DEF TypeOK
  <2>3. EntryFresh'
    BY <1>0, <2>1, <2>2 DEF EntryFresh, NoEntry
  <2> QED
    BY <1>0, <2>1, <2>3 DEF SnapshotFresh, LaunchFresh, At, Reading
<1>18. CASE UNCHANGED vars
  BY <1>0, <1>18 DEF vars, history, SnapshotFresh, EntryFresh, LaunchFresh, At, Reading
<1> QED
  BY <1>1, <1>2, <1>3, <1>4, <1>5, <1>6, <1>7, <1>8, <1>9, <1>10, <1>11, <1>12,
     <1>13, <1>14, <1>15, <1>16, <1>17, <1>18 DEF Next, Locks, Proceeds, Fails

(* Nothing is read before the first step. *)
LEMMA InitSnapshotFresh == Init => SnapshotFresh
<1> SUFFICES ASSUME Init PROVE SnapshotFresh
  OBVIOUS
<1>1. \A l \in Launches : call[l].step = "idle"
  BY DEF Init, CallAt
<1>2. holder = {} /\ cache = NoEntry
  BY DEF Init
<1> QED
  BY <1>1, <1>2 DEF SnapshotFresh, EntryFresh, LaunchFresh, At, Reading, NoEntry

(* SnapshotFresh is an invariant of PodRanges. *)
LEMMA SnapshotFreshInvariant == Spec => []SnapshotFresh
<1> QED
  BY PodRangesTypeCorrect, InitSnapshotFresh, NextSnapshotFresh, PTL DEF Spec

Busy(l) == call[l].want = "counts" /\ Reading(l)

(* What FreshRead sees of a step of one launch. *)
LEMMA CountsView ==
    ASSUME NEW l \in Launches, Alone(l)
    PROVE  /\ countsState' = [countsState EXCEPT ![l] =
                IF Busy(l)' THEN "busy"
                ELSE IF call'[l].counts # None THEN "answered" ELSE "idle"]
           /\ countsFloor' = [countsFloor EXCEPT ![l] =
                IF Busy(l)' \/ call'[l].counts # None THEN call'[l].floor ELSE 0]
           /\ [k \in Launches |-> call'[k].counts]
                = [[k \in Launches |-> call[k].counts] EXCEPT ![l] = call'[l].counts]
           /\ countsState[l] = IF Busy(l) THEN "busy"
                ELSE IF call[l].counts # None THEN "answered" ELSE "idle"
           /\ countsFloor[l] =
                IF Busy(l) \/ call[l].counts # None THEN call[l].floor ELSE 0
<1>1. \A k \in Launches :
        /\ countsState[k] = IF Busy(k) THEN "busy"
                ELSE IF call[k].counts # None THEN "answered" ELSE "idle"
        /\ countsState'[k] = IF Busy(k)' THEN "busy"
                ELSE IF call'[k].counts # None THEN "answered" ELSE "idle"
  BY DEF countsState, Busy, Reading
<1>2. \A k \in Launches :
        /\ countsFloor[k] =
                IF Busy(k) \/ call[k].counts # None THEN call[k].floor ELSE 0
        /\ countsFloor'[k] =
                IF Busy(k)' \/ call'[k].counts # None THEN call'[k].floor ELSE 0
  BY <1>1 DEF countsFloor
<1>3. \A k \in Launches \ {l} : call'[k] = call[k] /\ (Busy(k)' <=> Busy(k))
  BY DEF Alone, Busy, Reading
<1>4. /\ countsState = [k \in Launches |-> countsState[k]]
      /\ countsState' = [k \in Launches |-> countsState'[k]]
      /\ countsFloor = [k \in Launches |-> countsFloor[k]]
      /\ countsFloor' = [k \in Launches |-> countsFloor'[k]]
  BY DEF countsState, countsFloor
<1>5. countsState' = [countsState EXCEPT ![l] = countsState'[l]]
  BY <1>1, <1>3, <1>4
<1>6. countsFloor' = [countsFloor EXCEPT ![l] = countsFloor'[l]]
  BY <1>2, <1>3, <1>4
<1> QED
  BY <1>1, <1>2, <1>3, <1>5, <1>6

(* Steps that do not read the counts change nothing in the eyes of         *)
(* FreshRead.                                                              *)
LEMMA CountsUnchanged ==
    ASSUME NEW l \in Launches, Alone(l), Busy(l)' <=> Busy(l),
           call'[l].counts = call[l].counts,
           call'[l].floor = call[l].floor \/ (~Busy(l) /\ call[l].counts = None)
    PROVE  /\ countsState' = countsState /\ countsFloor' = countsFloor
           /\ [k \in Launches |-> call'[k].counts] = [k \in Launches |-> call[k].counts]
<1>1. /\ countsState = [k \in Launches |-> countsState[k]]
      /\ countsFloor = [k \in Launches |-> countsFloor[k]]
  BY DEF countsState, countsFloor
<1>2. countsState' = [countsState EXCEPT ![l] = countsState[l]]
  BY CountsView
<1>3. countsFloor' = [countsFloor EXCEPT ![l] = countsFloor[l]]
  BY CountsView
<1> QED
  BY <1>1, <1>2, <1>3 DEF Alone

(* getSnapshot returns: an answer since the invalidation before the call,  *)
(* no answer, or nothing FreshRead is concerned with.                      *)
LEMMA SnapshotAnswers ==
    ASSUME TypeOK, SnapshotFresh, NEW l \in Launches, Reading(l), NEW v \in Nat,
           v = None \/ v \in subnetInvalidatedAt..subnetVersion,
           SnapshotReturned(l, v), UNCHANGED <<subnetVersion, subnetInvalidatedAt>>
    PROVE  [Counts!Next]_(Counts!vars)
<1>t. /\ subnetVersion \in Nat /\ subnetInvalidatedAt \in Nat /\ call[l].floor \in Nat
      /\ CallsOK /\ LaunchFresh(l)
  BY PodRangesAssumption DEF TypeOK, CallsOK, Calls, SnapshotFresh
<1>0. /\ Alone(l) /\ call'[l].floor = call[l].floor
      /\ call'[l].step \in {"failed", "attempt", "insert"}
      /\ \/ call'[l].counts = call[l].counts
         \/ call[l].want = "counts" /\ call'[l].counts = v
  BY <1>t, SnapshotEffect
<1>1. ~Busy(l)'
  BY <1>0 DEF Busy, Reading
<1>2. CASE ~Busy(l)
  <2>1. call'[l].counts = call[l].counts
    BY <1>0, <1>2 DEF Busy
  <2> QED
    BY <1>0, <1>1, <1>2, <2>1, CountsUnchanged DEF Counts!vars
<1>3. CASE Busy(l)
  <2>1. call[l].counts = None /\ call[l].floor <= subnetInvalidatedAt
    BY <1>t, <1>3 DEF LaunchFresh, Busy
  <2>2. CASE call'[l].counts = None
    <3>1. Counts!Leave(l)
      BY <1>0, <1>1, <1>3, <2>2, CountsView DEF Counts!Leave, Counts!None, None
    <3> QED
      BY <3>1 DEF Counts!Next
  <2>3. CASE call'[l].counts # None
    <3>1. call'[l].counts = v /\ v # None /\ v \in call[l].floor..subnetVersion
      BY <1>t, <1>0, <2>1, <2>3 DEF None
    <3>2. countsFloor[l] = call[l].floor
      BY <1>0, <1>3, CountsView
    <3>3. countsFloor' = countsFloor
      <4>1. countsFloor' = [countsFloor EXCEPT ![l] = countsFloor[l]]
        BY <1>0, <2>3, <3>2, CountsView
      <4> QED
        BY <4>1 DEF countsFloor
    <3>4. /\ countsState[l] = "busy"
          /\ countsState' = [countsState EXCEPT ![l] = "answered"]
          /\ [k \in Launches |-> call'[k].counts]
               = [[k \in Launches |-> call[k].counts] EXCEPT ![l] = v]
      BY <1>0, <1>1, <1>3, <2>3, <3>1, CountsView
    <3>5. v \in countsFloor[l]..subnetVersion /\ v # Counts!None
      BY <3>1, <3>2 DEF Counts!None, None
    <3>6. Counts!Answer(l)
      BY <3>3, <3>4, <3>5 DEF Counts!Answer
    <3> QED
      BY <3>6 DEF Counts!Next
  <2> QED
    BY <2>2, <2>3
<1> QED
  BY <1>2, <1>3

(* Every step is a step of FreshRead or a stutter. *)
LEMMA CountsStep ==
    TypeOK /\ SnapshotFresh /\ [Next]_vars => [Counts!Next]_(Counts!vars)
<1> SUFFICES ASSUME TypeOK, SnapshotFresh, [Next]_vars
             PROVE  [Counts!Next]_(Counts!vars)
  OBVIOUS
<1>0. CallsOK /\ EntryFresh /\ \A l \in Launches : LaunchFresh(l)
  BY DEF TypeOK, SnapshotFresh
<1>q. ASSUME NEW l \in Launches, Alone(l), Busy(l)' <=> Busy(l),
             call'[l].counts = call[l].counts, call'[l].floor = call[l].floor,
             UNCHANGED <<subnetVersion, subnetInvalidatedAt>>
      PROVE  [Counts!Next]_(Counts!vars)
  BY <1>q, CountsUnchanged DEF Counts!vars
<1>1. ASSUME NEW l \in Launches, Lock(l)  PROVE [Counts!Next]_(Counts!vars)
  <2>1. Reading(l) /\ UNCHANGED <<subnetVersion, subnetInvalidatedAt>>
    BY <1>1 DEF Lock, At, Reading, history
  <2>2. CASE Goto(l, "lookup")
    <3>1. Trying(l) \/ call[l].want = "counts"
      BY <1>0, <2>1 DEF Trying, CallsOK, Calls
    <3>2. "lookup" \in Steps
      BY DEF Steps
    <3>3. Alone(l) /\ Keeps(l) /\ call'[l].step = "lookup"
      BY <1>0, <2>2, <3>1, <3>2, GotoEffect
    <3> QED
      BY <1>q, <2>1, <3>3 DEF Keeps, Busy, Reading
  <2>3. CASE SnapshotReturned(l, None)
    BY <2>1, <2>3, SnapshotAnswers DEF None
  <2>4. CASE SnapshotReturned(l, cache.version)
    <3>1. /\ cache.version \in Nat
          /\ cache.version = None \/ cache.version \in subnetInvalidatedAt..subnetVersion
      BY <1>0 DEF EntryFresh, TypeOK
    <3> QED
      BY <2>1, <2>4, <3>1, SnapshotAnswers
  <2> QED
    BY <1>1, <2>2, <2>3, <2>4 DEF Lock
<1>2. ASSUME NEW l \in Launches, Invalidate(l)  PROVE [Counts!Next]_(Counts!vars)
  <2>1. /\ Trying(l) /\ call[l].step = "forget"
        /\ subnetVersion' = subnetVersion /\ subnetInvalidatedAt' = subnetVersion
    BY <1>2 DEF Invalidate, Invalidates, At, Trying
  <2>2. /\ Alone(l) /\ ~Busy(l)'
        /\ call'[l].counts = call[l].counts /\ call'[l].floor = call[l].floor
    <3>1. CASE Goto(l, "forgetConfig")
      BY <1>0, <2>1, <3>1, GotoEffect DEF Steps, Keeps, Busy, Reading
    <3>2. CASE AfterRange(l)
      BY <2>1, <3>2, AfterRangeEffect DEF Busy, Reading
    <3> QED
      BY <1>2, <3>1, <3>2 DEF Invalidate
  <2>3. ~Busy(l)
    BY <2>1 DEF Busy, Reading
  <2>4. Counts!Invalidate
    BY <2>1, <2>2, <2>3, CountsUnchanged DEF Counts!Invalidate
  <2> QED
    BY <2>4 DEF Counts!Next
<1>3. ASSUME NEW l \in Launches, Lookup(l)  PROVE [Counts!Next]_(Counts!vars)
  <2>1. Alone(l) /\ Keeps(l) /\ call'[l].step = "store"
    BY <1>3, LookupEffect
  <2> QED
    BY <1>q, <1>3, <2>1 DEF Lookup, At, history, Keeps, Busy, Reading
<1>4. ASSUME NEW l \in Launches, Store(l)  PROVE [Counts!Next]_(Counts!vars)
  <2>1. Reading(l) /\ call[l].response \in Nat
    BY <1>0, <1>4 DEF Store, At, Reading, CallsOK, Calls
  <2>2. call[l].response \in subnetInvalidatedAt..subnetVersion
    BY <1>0, <1>4 DEF Store, LaunchFresh
  <2> QED
    BY <1>4, <2>1, <2>2, SnapshotAnswers DEF Store, history
<1>5. ASSUME NEW l \in Launches, Create(l)  PROVE [Counts!Next]_(Counts!vars)
  <2>1. Alone(l) /\ call'[l].step = "counts" /\ call'[l].counts = None
    BY <1>5, CreateEffect
  <2>2. ~Busy(l) /\ ~Busy(l)' /\ UNCHANGED <<subnetVersion, subnetInvalidatedAt>>
    BY <1>5, <2>1 DEF Create, Resting, Busy, Reading, history
  <2>3. CASE call[l].counts = None
    BY <2>1, <2>2, <2>3, CountsUnchanged DEF Counts!vars
  <2>4. CASE call[l].counts # None
    <3>1. Counts!Leave(l)
      BY <2>1, <2>2, <2>4, CountsView DEF Counts!Leave, Counts!None, None
    <3> QED
      BY <3>1 DEF Counts!Next
  <2> QED
    BY <2>3, <2>4
<1>6. ASSUME NEW l \in Launches, podRangeFreeIPs(l)  PROVE [Counts!Next]_(Counts!vars)
  <2>1. /\ ~Busy(l) /\ call[l].counts = None
        /\ UNCHANGED <<subnetVersion, subnetInvalidatedAt>>
    BY <1>0, <1>6 DEF podRangeFreeIPs, LaunchFresh, At, Busy, Reading, history
  <2>2. CASE Goto(l, "attempt")
    <3>1. Alone(l) /\ Keeps(l) /\ call'[l].step = "attempt"
      BY <1>0, <2>2, GotoEffect DEF Steps
    <3> QED
      BY <1>q, <2>1, <3>1 DEF Keeps, Busy, Reading
  <2>3. CASE ReadCounts(l)
    <3>1. /\ Alone(l) /\ Busy(l)' /\ call'[l].counts = None
          /\ call'[l].floor = subnetInvalidatedAt
      BY <2>1, <2>3, ReadCountsEffect DEF Busy, Reading
    <3>2. Counts!Ask(l)
      BY <2>1, <3>1, CountsView DEF Counts!Ask, Counts!None, None
    <3> QED
      BY <3>2 DEF Counts!Next
  <2> QED
    BY <1>6, <2>2, <2>3 DEF podRangeFreeIPs
<1>7. ASSUME NEW l \in Launches, tryCreateInstance(l)
      PROVE  [Counts!Next]_(Counts!vars)
  <2>1. /\ Alone(l) /\ call'[l].step = "config"
        /\ call'[l].counts = call[l].counts /\ call'[l].floor = call[l].floor
    BY <1>7, AttemptEffect
  <2> QED
    BY <1>q, <1>7, <2>1 DEF tryCreateInstance, At, Busy, Reading, history
<1>8. ASSUME NEW l \in Launches, createInstanceWithPodRanges(l)
      PROVE  [Counts!Next]_(Counts!vars)
  <2>1. /\ Alone(l) /\ call'[l].want = "stack"
        /\ call'[l].counts = call[l].counts /\ call'[l].floor = call[l].floor
    BY <1>8, CandidatesEffect
  <2> QED
    BY <1>q, <1>8, <2>1 DEF createInstanceWithPodRanges, At, Busy, Reading, history
<1>9. ASSUME NEW l \in Launches, Insert(l)  PROVE [Counts!Next]_(Counts!vars)
  <2>1. /\ Alone(l) /\ call'[l].step \in {"done", "forget"}
        /\ call'[l].counts = call[l].counts /\ call'[l].floor = call[l].floor
    BY <1>9, InsertEffect
  <2> QED
    BY <1>q, <1>9, <2>1 DEF Insert, At, Busy, Reading, history
<1>10. ASSUME NEW l \in Launches, InvalidateClusterConfig(l)
       PROVE  [Counts!Next]_(Counts!vars)
  <2>1. /\ Alone(l) /\ ~Busy(l)'
        /\ call'[l].counts = call[l].counts /\ call'[l].floor = call[l].floor
    BY <1>10, AfterRangeEffect DEF InvalidateClusterConfig, Trying, At, Busy, Reading
  <2> QED
    BY <1>q, <1>10, <2>1 DEF InvalidateClusterConfig, At, Busy, Reading
<1>11. ASSUME NEW l \in Launches, LookupFails(l)  PROVE [Counts!Next]_(Counts!vars)
  BY <1>11, SnapshotAnswers DEF LookupFails, At, Reading, None
<1>12. ASSUME NEW l \in Launches, ConfigFails(l)  PROVE [Counts!Next]_(Counts!vars)
  <2>1. /\ Alone(l) /\ call'[l].step \in {"attempt", "failed"}
        /\ call'[l].counts = call[l].counts /\ call'[l].floor = call[l].floor
    BY <1>0, <1>12, GotoEffect, NextTypeEffect DEF ConfigFails, Steps, Keeps
  <2> QED
    BY <1>q, <1>12, <2>1 DEF ConfigFails, At, Busy, Reading, history
<1>13. ASSUME NEW l \in Launches, InsertFails(l)  PROVE [Counts!Next]_(Counts!vars)
  <2>1. /\ Alone(l) /\ call'[l].step \in {"attempt", "failed"}
        /\ call'[l].counts = call[l].counts /\ call'[l].floor = call[l].floor
    BY <1>0, <1>13, NextTypeEffect, EndEffect DEF InsertFails
  <2> QED
    BY <1>q, <1>13, <2>1 DEF InsertFails, At, Busy, Reading, history
<1>14. ASSUME NEW l \in Launches, Cancel(l)  PROVE [Counts!Next]_(Counts!vars)
  <2>1. UNCHANGED <<subnetVersion, subnetInvalidatedAt>>
    BY <1>14 DEF Cancel, history
  <2>2. CASE Reading(l) /\ call' = [call EXCEPT ![l].cancelled = TRUE]
    <3>1. Alone(l) /\ Keeps(l) /\ call'[l].step = call[l].step
      BY <2>2, CancelEffect
    <3> QED
      BY <1>q, <2>1, <3>1 DEF Keeps, Busy, Reading
  <2>3. CASE /\ call[l].step \in {"counts", "attempt", "config", "insert"}
             /\ End(l, "failed")
    <3>1. /\ Alone(l) /\ call'[l].step = "failed"
          /\ call'[l].counts = call[l].counts /\ call'[l].floor = call[l].floor
      BY <1>0, <2>3, EndEffect
    <3> QED
      BY <1>q, <2>1, <2>3, <3>1 DEF Busy, Reading
  <2> QED
    BY <1>14, <2>2, <2>3 DEF Cancel, Reading
<1>15. CASE UNCHANGED <<call, subnetVersion, subnetInvalidatedAt>>
  BY <1>15 DEF Counts!vars, countsState, countsFloor
<1>16. CASE SubnetChanges
  <2>1. Counts!Change
    BY <1>16 DEF SubnetChanges, history, Counts!Change, countsState, countsFloor
  <2> QED
    BY <2>1 DEF Counts!Next
<1>17. ConfigChanges \/ Tick \/ UNCHANGED vars
       => UNCHANGED <<call, subnetVersion, subnetInvalidatedAt>>
  BY DEF ConfigChanges, Tick, vars, history
<1> QED
  BY <1>1, <1>2, <1>3, <1>4, <1>5, <1>6, <1>7, <1>8, <1>9, <1>10, <1>11, <1>12,
     <1>13, <1>14, <1>15, <1>16, <1>17 DEF Next, Locks, Proceeds, Fails

(* The subnetwork's cache implements FreshRead, for any number of launches *)
(* and any history of the subnetwork: the counts GetFreeIPCounts returns   *)
(* were true at some time since the last Invalidate before the call.       *)
THEOREM CountsRefine == Spec => CountsAreFresh
<1>1. Init => Counts!Init
  <2> SUFFICES ASSUME Init PROVE Counts!Init
    OBVIOUS
  <2>1. \A l \in Launches :
            call[l].step = "idle" /\ call[l].counts = None
    BY DEF Init, CallAt
  <2>2. countsState = [l \in Launches |-> "idle"]
    BY <2>1 DEF countsState
  <2>3. countsFloor = [l \in Launches |-> 0]
    BY <2>2 DEF countsFloor
  <2> QED
    BY <2>1, <2>2, <2>3 DEF Init, Counts!Init, Counts!None, None
<1> QED
  BY <1>1, CountsStep, PodRangesTypeCorrect, SnapshotFreshInvariant, PTL
     DEF Spec, CountsAreFresh, Counts!Spec
-----------------------------------------------------------------------------
(* The cooldown.                                                           *)

(* An error is cached only by a lookup that failed by itself, and expires  *)
(* as that failure recedes: a canceled caller does not put others into the *)
(* failure cooldown.                                                       *)
THEOREM CooldownIsEarned == Spec => []CooldownAfterFailureOnly
<1>1. Init => CooldownAfterFailureOnly
  BY DEF Init, NoEntry, CooldownAfterFailureOnly
<1>2. TypeOK /\ CooldownAfterFailureOnly /\ [Next]_vars => CooldownAfterFailureOnly'
  <2> SUFFICES ASSUME TypeOK, CooldownAfterFailureOnly, [Next]_vars
               PROVE  CooldownAfterFailureOnly'
    OBVIOUS
  <2>1. CASE UNCHANGED <<cache, sinceFailure>>
    BY <2>1 DEF CooldownAfterFailureOnly
  <2>2. ASSUME NEW l \in Launches, LookupFails(l)  PROVE CooldownAfterFailureOnly'
    BY <2>2 DEF LookupFails, CoolsDown, CooldownAfterFailureOnly
  <2>3. ASSUME NEW l \in Launches, Store(l) \/ Invalidate(l)
        PROVE  CooldownAfterFailureOnly'
    <3>1. \/ cache' = [kind |-> "counts", version |-> call[l].response, age |-> 0]
          \/ cache' = [kind |-> "none", version |-> None, age |-> 0]
      BY <2>3 DEF Store, Invalidate, NoEntry
    <3>2. cache'.kind # "error"
      BY <3>1
    <3> QED
      BY <3>2 DEF CooldownAfterFailureOnly
  <2>4. CASE Tick
    <3>1. sinceFailure \in Nat /\ cache.age \in Nat /\ failureTTL \in Nat
      BY PodRangesAssumption DEF TypeOK
    <3>2. \/ cache' = NoEntry
          \/ cache'.kind = cache.kind /\ cache'.age = cache.age + 1
      BY <2>4, CacheEffect DEF Tick, TypeOK
    <3> QED
      BY <2>4, <3>1, <3>2 DEF Tick, NoEntry, CooldownAfterFailureOnly
  <2>5. ASSUME NEW l \in Launches,
               Lock(l) \/ Lookup(l) \/ Create(l) \/ podRangeFreeIPs(l)
        PROVE  UNCHANGED <<cache, sinceFailure>>
    BY <2>5 DEF Lock, Lookup, Create, podRangeFreeIPs, history
  <2>6. ASSUME NEW l \in Launches,
               \/ tryCreateInstance(l) \/ createInstanceWithPodRanges(l)
               \/ Insert(l) \/ InvalidateClusterConfig(l)
        PROVE  UNCHANGED <<cache, sinceFailure>>
    BY <2>6 DEF tryCreateInstance, createInstanceWithPodRanges, Insert,
                InvalidateClusterConfig, history
  <2>7. ASSUME NEW l \in Launches, ConfigFails(l) \/ InsertFails(l) \/ Cancel(l)
        PROVE  UNCHANGED <<cache, sinceFailure>>
    BY <2>7 DEF ConfigFails, InsertFails, Cancel, history
  <2>8. ConfigChanges \/ SubnetChanges \/ UNCHANGED vars
        => UNCHANGED <<cache, sinceFailure>>
    BY DEF ConfigChanges, SubnetChanges, vars, history
  <2> QED
    BY <2>1, <2>2, <2>3, <2>4, <2>5, <2>6, <2>7, <2>8
       DEF Next, Locks, Proceeds, Fails
<1> QED
  BY <1>1, <1>2, PodRangesTypeCorrect, PTL DEF Spec
-----------------------------------------------------------------------------
(* Rejections.                                                             *)

(* The network as a step of a launch sees it. *)
SameNetwork == UNCHANGED <<configVersion, subnetVersion>>

(* A launch without names has nothing to heed. *)
LEMMA NothingToHeed ==
    ASSUME NEW l \in Launches, call'[l].names = <<>>, call'[l].heeded = {},
           call'[l].step \in {"counts", "attempt", "done", "failed"}
    PROVE  LaunchHeeds(l)'
<1>1. DOMAIN call'[l].names = {}
  OBVIOUS
<1> QED
  BY <1>1 DEF LaunchHeeds, At

(* A launch goes on heeding with the same names. *)
LEMMA GoesOnHeeding ==
    ASSUME NEW l \in Launches, LaunchHeeds(l), SameNetwork, dropped \subseteq dropped',
           call'[l].names = call[l].names, call'[l].heeded = call[l].heeded,
           call'[l].step \in {"lock", "lookup", "store", "insert", "attempt"},
           call'[l].step = "attempt" \/ call'[l].want = "counts"
                => call[l].names = <<>>
    PROVE  LaunchHeeds(l)'
<1>1. Known' = Known
  BY DEF SameNetwork, Known
<1> QED
  BY <1>1 DEF LaunchHeeds, At, Discovers

(* The other launches, too. *)
LEMMA OthersHeed ==
    ASSUME NEW l \in Launches, Alone(l), \A k \in Launches : LaunchHeeds(k),
           SameNetwork, dropped \subseteq dropped',
           \A k \in Launches \ {l} : configFloor'[k] = configFloor[k],
           LaunchHeeds(l)'
    PROVE  \A k \in Launches : LaunchHeeds(k)'
<1> SUFFICES ASSUME NEW k \in Launches, k # l  PROVE LaunchHeeds(k)'
  OBVIOUS
<1>1. Known' = Known /\ Removed' = Removed
  BY DEF SameNetwork, Known, Removed
<1>2. call'[k] = call[k] /\ configFloor'[k] = configFloor[k] /\ LaunchHeeds(k)
  BY DEF Alone
<1>3. Unnamed(call[k].heeded, configFloor[k])
        => Unnamed(call[k].heeded, configFloor[k])'
  BY <1>2 DEF Unnamed, SameNetwork
<1> QED
  BY <1>1, <1>2, <1>3 DEF LaunchHeeds, At, Discovers, rangeName

(* What a launch does to the configuration of the others: nothing. *)
LEMMA ConfigAlone ==
    ASSUME TypeOK, NEW l \in Launches,
           Config!Ask(l) \/ Config!Answer(l) \/ Config!Leave(l) \/ UNCHANGED config
    PROVE  /\ UNCHANGED <<configVersion, configInvalidatedAt>>
           /\ \A k \in Launches \ {l} : configFloor'[k] = configFloor[k]
  BY DEF Config!Ask, Config!Answer, Config!Leave, config, TypeOK, ConfigOK

(* A range that is gone stays away. *)
LEMMA RemovedStays ==
    ASSUME TypeOK, SubnetChanges
    PROVE  Known \subseteq Known' /\ Removed \subseteq Removed'
<1>1. /\ subnetVersion \in 1..Len(Subnet) /\ Len(Subnet) \in Nat
      /\ DOMAIN Subnet = 1..Len(Subnet)
      /\ subnetVersion < Len(Subnet) /\ subnetVersion' = subnetVersion + 1
  BY PodRangesAssumption DEF TypeOK, SubnetChanges
<1>2. Known \subseteq Known'
  <2> SUFFICES ASSUME NEW v \in 1..subnetVersion  PROVE v \in 1..subnetVersion'
    BY DEF Known
  <2> QED
    BY <1>1
<1>3. ASSUME NEW r \in Removed  PROVE r \notin DOMAIN Subnet[subnetVersion + 1]
  <2>1. PICK u \in 1..subnetVersion : r \in DOMAIN Subnet[u]
    BY DEF Removed, Known
  <2>2. r \notin DOMAIN Subnet[subnetVersion]
    BY DEF Removed
  <2>3. u < subnetVersion
    BY <1>1, <2>1, <2>2
  <2>4. /\ u \in DOMAIN Subnet /\ subnetVersion \in DOMAIN Subnet
        /\ subnetVersion + 1 \in DOMAIN Subnet /\ subnetVersion < subnetVersion + 1
    BY <1>1, <2>1
  <2> QED
    BY <2>1, <2>2, <2>3, <2>4, NetworkAssumption
<1> QED
  BY <1>1, <1>2, <1>3 DEF Removed

(* GCE rejects only ranges that are gone. *)
LEMMA RejectedIsGone ==
    ASSUME TypeOK, NEW l \in Launches, LaunchHeeds(l), Discovers(l), Trying(l),
           Verdict(rangeName(l)) = "rejected"
    PROVE  rangeName(l) \in Removed
<1>1. call[l].index \in DOMAIN call[l].names
  BY DEF TypeOK, CallsOK
<1>2. rangeName(l) \in Known \cup {NoRange}
  BY <1>1 DEF LaunchHeeds, rangeName
<1> QED
  BY <1>2 DEF Verdict, Removed

(* An answer of the configuration has none of the names that the attempt   *)
(* has to heed.                                                            *)
LEMMA AnswerHeeds ==
    ASSUME TypeOK, DroppedGone, NEW l \in Launches, LaunchHeeds(l),
           createInstanceWithPodRanges(l), Discovers(l),
           NEW n \in Range(resolvedPodRangeNames(l, configAnswer'[l]))
    PROVE  n \in (Known \cup {NoRange}) \ call[l].heeded
<1> DEFINE w == configAnswer'[l]
<1>1. w \in configFloor[l]..configVersion /\ w \in 1..configVersion
      /\ w \in 1..Len(ConfigNames)
  BY CandidateNames DEF createInstanceWithPodRanges
<1>2. n = NoRange \/ n \in Range(ConfigNames[w])
  BY <1>1, ResolvedNames
<1> HIDE DEF w
<1>3. /\ Unnamed(call[l].heeded, configFloor[l])
      /\ call[l].heeded \subseteq Removed
  BY DEF LaunchHeeds, DroppedGone, createInstanceWithPodRanges
<1>4. CASE n \in Range(ConfigNames[w])
  <2>1. n \in Known
    BY <1>1, <1>4 DEF DroppedGone
  <2>2. configFloor[l] \in Nat /\ configVersion \in Nat
    BY PodRangesAssumption DEF TypeOK, ConfigOK
  <2>3. configFloor[l] <= w
    BY <1>1, <2>2
  <2> QED
    BY <1>1, <1>3, <1>4, <2>1, <2>3 DEF Unnamed
<1>5. CASE n = NoRange
  <2>1. Known \subseteq RangeNames
    BY PodRangesAssumption DEF Known, RangeNames, TypeOK
  <2>2. NoRange \notin Removed
    BY <2>1, PodRangesAssumption DEF Removed
  <2> QED
    BY <1>3, <1>5, <2>2
<1> QED
  BY <1>2, <1>4, <1>5

(* Every step of a launch and every change of the network preserves        *)
(* RemovedUnused.                                                          *)
LEMMA NextRemovedUnused == TypeOK /\ RemovedUnused /\ [Next]_vars => RemovedUnused'
<1> SUFFICES ASSUME TypeOK, RemovedUnused, [Next]_vars  PROVE RemovedUnused'
  OBVIOUS
<1>0. CallsOK /\ DroppedGone /\ \A l \in Launches : LaunchHeeds(l)
  BY DEF TypeOK, RemovedUnused
<1>s. SameNetwork /\ UNCHANGED <<configInvalidatedAt, dropped>> => DroppedGone'
  BY <1>0 DEF SameNetwork, DroppedGone, Known, Removed, Unnamed
<1>q. ASSUME NEW l \in Launches, Alone(l), UNCHANGED <<subnetVersion, dropped>>,
             \/ Config!Ask(l) \/ Config!Answer(l) \/ Config!Leave(l)
             \/ UNCHANGED config,
             SameNetwork => LaunchHeeds(l)'
      PROVE  RemovedUnused'
  <2>1. /\ SameNetwork /\ configInvalidatedAt' = configInvalidatedAt
        /\ \A k \in Launches \ {l} : configFloor'[k] = configFloor[k]
    BY <1>q, ConfigAlone DEF SameNetwork
  <2>2. \A k \in Launches : LaunchHeeds(k)'
    BY <1>0, <1>q, <2>1, OthersHeed
  <2> QED
    BY <1>s, <1>q, <2>1, <2>2 DEF RemovedUnused
<1>r. ASSUME NEW l \in Launches, Reading(l), NEW v \in Nat, SnapshotReturned(l, v),
             SameNetwork, UNCHANGED dropped
      PROVE  Alone(l) /\ LaunchHeeds(l)'
  <2>1. LaunchHeeds(l)
    BY <1>0
  <2>2. CASE call'[l].step = "failed"
    BY <1>0, <1>r, <2>2, SnapshotEffect, NothingToHeed
  <2>3. CASE call'[l].step # "failed"
    <3>1. /\ Alone(l) /\ call'[l].step \in {"attempt", "insert"}
          /\ call'[l].names = call[l].names /\ call'[l].heeded = call[l].heeded
          /\ call'[l].step = "attempt" \/ call'[l].want = "counts"
                => call[l].want = "counts"
      BY <1>0, <1>r, <2>3, SnapshotEffect
    <3>2. call[l].want = "counts" => call[l].names = <<>>
      BY <2>1 DEF LaunchHeeds
    <3> QED
      BY <1>r, <2>1, <3>1, <3>2, GoesOnHeeding
  <2> QED
    BY <2>2, <2>3
<1>1. ASSUME NEW l \in Launches, Lock(l)  PROVE RemovedUnused'
  <2>1. /\ Reading(l) /\ None \in Nat /\ cache.version \in Nat
        /\ UNCHANGED <<subnetVersion, dropped, config>>
    BY <1>1 DEF Lock, At, Reading, None, history, TypeOK
  <2>2. SameNetwork
    BY <2>1 DEF SameNetwork, config
  <2>3. CASE Goto(l, "lookup")
    <3>1. Trying(l) \/ call[l].want = "counts"
      BY <1>0, <2>1 DEF Trying, CallsOK, Calls
    <3>2. "lookup" \in Steps
      BY DEF Steps
    <3>3. Alone(l) /\ Keeps(l) /\ call'[l].step = "lookup"
      BY <1>0, <2>3, <3>1, <3>2, GotoEffect
    <3>4. call[l].want = "counts" => call[l].names = <<>>
      BY <1>0 DEF LaunchHeeds
    <3>5. LaunchHeeds(l)'
      BY <1>0, <2>1, <2>2, <3>3, <3>4, GoesOnHeeding DEF Keeps
    <3> QED
      BY <1>q, <2>1, <3>3, <3>5
  <2>4. ASSUME NEW v \in Nat, SnapshotReturned(l, v)  PROVE RemovedUnused'
    BY <1>q, <1>r, <2>1, <2>2, <2>4
  <2> QED
    BY <1>1, <2>1, <2>3, <2>4 DEF Lock
<1>2. ASSUME NEW l \in Launches, Invalidate(l)  PROVE RemovedUnused'
  <2>1. /\ Trying(l) /\ call[l].step = "forget" /\ UNCHANGED <<subnetVersion, config>>
        /\ LaunchHeeds(l)
    BY <1>0, <1>2 DEF Invalidate, Invalidates, At, Trying
  <2>2. SameNetwork
    BY <2>1 DEF SameNetwork, config
  <2>3. CASE Goto(l, "forgetConfig") /\ UNCHANGED dropped
    <3>1. /\ Alone(l) /\ Keeps(l)
          /\ call'[l].step = "forgetConfig" /\ call'[l].result = call[l].result
      BY <1>0, <2>1, <2>3, GotoEffect DEF Steps
    <3>2. Known' = Known /\ Removed' = Removed /\ rangeName(l)' = rangeName(l)
      BY <2>2, <3>1 DEF SameNetwork, Known, Removed, Keeps, rangeName
    <3>3. LaunchHeeds(l)'
      BY <2>1, <2>3, <3>1, <3>2 DEF LaunchHeeds, Keeps, At, Discovers
    <3> QED
      BY <1>q, <2>1, <2>3, <3>1, <3>3
  <2>4. CASE AfterRange(l) /\ ~ForgetsConfig(l)
    <3>1. dropped' = dropped
      BY <2>4 DEF AfterRange, ForgetsConfig
    <3>2. /\ Alone(l)
          /\ \/ /\ call'[l].step \in {"attempt", "failed"}
                /\ call'[l].names = <<>> /\ call'[l].heeded = {}
             \/ /\ call'[l].step \in {"lock", "insert"} /\ call'[l].want = "stack"
                /\ call'[l].names = call[l].names /\ call'[l].heeded = call[l].heeded
      BY <2>1, <2>4, AfterRangeEffect
    <3>3. LaunchHeeds(l)'
      BY <2>1, <2>2, <3>1, <3>2, NothingToHeed, GoesOnHeeding
    <3> QED
      BY <1>q, <2>1, <3>1, <3>2, <3>3
  <2> QED
    BY <1>2, <2>3, <2>4 DEF Invalidate
<1>3. ASSUME NEW l \in Launches, Lookup(l)  PROVE RemovedUnused'
  <2>1. Alone(l) /\ Keeps(l) /\ call'[l].step = "store"
    BY <1>3, LookupEffect
  <2>2. UNCHANGED <<subnetVersion, dropped, config>>
    BY <1>3 DEF Lookup, history
  <2>3. call[l].want = "counts" => call[l].names = <<>>
    BY <1>0 DEF LaunchHeeds
  <2>4. SameNetwork => LaunchHeeds(l)'
    BY <1>0, <2>1, <2>2, <2>3, GoesOnHeeding DEF Keeps
  <2> QED
    BY <1>q, <2>1, <2>2, <2>4
<1>4. ASSUME NEW l \in Launches, Store(l)  PROVE RemovedUnused'
  <2>1. Reading(l) /\ call[l].response \in Nat
    BY <1>0, <1>4 DEF Store, At, Reading, CallsOK, Calls
  <2>2. UNCHANGED <<subnetVersion, dropped, config>> /\ SameNetwork
    BY <1>4 DEF Store, history, config, SameNetwork
  <2> QED
    BY <1>q, <1>r, <1>4, <2>1, <2>2 DEF Store
<1>5. ASSUME NEW l \in Launches, Create(l)  PROVE RemovedUnused'
  <2>1. Alone(l) /\ LaunchHeeds(l)'
    BY <1>5, CreateEffect, NothingToHeed
  <2> QED
    BY <1>q, <1>5, <2>1 DEF Create, history
<1>6. ASSUME NEW l \in Launches, podRangeFreeIPs(l)  PROVE RemovedUnused'
  <2>1. UNCHANGED <<subnetVersion, dropped>> /\ Config!Answer(l)
    BY <1>6 DEF podRangeFreeIPs, history
  <2>2. /\ Alone(l) /\ call'[l].names = call[l].names
        /\ call'[l].heeded = call[l].heeded /\ call'[l].step \in {"attempt", "lock"}
    BY <1>0, <1>6, GotoEffect, ReadCountsEffect DEF podRangeFreeIPs, Steps, Keeps
  <2>3. call[l].names = <<>>
    BY <1>0, <1>6 DEF LaunchHeeds, podRangeFreeIPs, At
  <2>4. SameNetwork => LaunchHeeds(l)'
    BY <1>0, <2>1, <2>2, <2>3, GoesOnHeeding
  <2> QED
    BY <1>q, <2>1, <2>2, <2>4
<1>7. ASSUME NEW l \in Launches, tryCreateInstance(l)  PROVE RemovedUnused'
  <2>1. /\ Alone(l) /\ call'[l].step = "config"
        /\ call'[l].names = call[l].names /\ call'[l].heeded = dropped
    BY <1>7, AttemptEffect
  <2>2. UNCHANGED <<subnetVersion, dropped>> /\ Config!Ask(l)
    BY <1>7 DEF tryCreateInstance, history
  <2>3. configFloor'[l] = configInvalidatedAt /\ configVersion' = configVersion
    BY <2>2 DEF Config!Ask, TypeOK, ConfigOK
  <2>4. Unnamed(call[l].heeded, configFloor[l])'
    BY <1>0, <2>1, <2>3 DEF DroppedGone, Unnamed
  <2>5. call[l].names = <<>>
    BY <1>0, <1>7 DEF LaunchHeeds, tryCreateInstance, At
  <2>6. DOMAIN call'[l].names = {}
    BY <2>1, <2>5
  <2>7. LaunchHeeds(l)'
    BY <2>1, <2>2, <2>4, <2>5, <2>6 DEF LaunchHeeds, At
  <2> QED
    BY <1>q, <2>1, <2>2, <2>7
<1>8. ASSUME NEW l \in Launches, createInstanceWithPodRanges(l)  PROVE RemovedUnused'
  <2>1. /\ Alone(l) /\ call'[l].step \in {"lock", "insert"}
        /\ call'[l].want = "stack" /\ call'[l].heeded = call[l].heeded
        /\ \A i \in DOMAIN call'[l].names :
                call'[l].names[i] \in Range(resolvedPodRangeNames(l, configAnswer'[l]))
    BY <1>8, CandidatesEffect
  <2>2. UNCHANGED <<subnetVersion, dropped>> /\ Config!Answer(l)
    BY <1>8 DEF createInstanceWithPodRanges, history
  <2>3. Discovers(l) =>
            \A i \in DOMAIN call'[l].names :
                call'[l].names[i] \in (Known \cup {NoRange}) \ call[l].heeded
    BY <1>0, <1>8, <2>1, AnswerHeeds
  <2>4. Known' = Known /\ call[l].heeded \subseteq dropped
    BY <1>0, <2>2 DEF Known, LaunchHeeds
  <2>5. LaunchHeeds(l)'
    BY <2>1, <2>2, <2>3, <2>4 DEF LaunchHeeds, At, Discovers
  <2> QED
    BY <1>q, <2>1, <2>2, <2>5
<1>9. ASSUME NEW l \in Launches, Insert(l)  PROVE RemovedUnused'
  <2>1. UNCHANGED <<subnetVersion, dropped, config>> /\ Trying(l) /\ LaunchHeeds(l)
    BY <1>0, <1>9 DEF Insert, history, Trying, At
  <2>2. CASE call'[l].step = "done"
    <3>1. Alone(l) /\ LaunchHeeds(l)'
      BY <1>9, <2>2, InsertEffect, NothingToHeed
    <3> QED
      BY <1>q, <2>1, <3>1
  <2>3. CASE call'[l].step # "done"
    <3>1. /\ Alone(l) /\ Keeps(l) /\ call'[l].step = "forget"
          /\ call'[l].result = Verdict(rangeName(l))
      BY <1>9, <2>3, InsertEffect
    <3>2. Known' = Known /\ Removed' = Removed /\ rangeName(l)' = rangeName(l)
      BY <2>1, <3>1 DEF Known, Removed, Keeps, rangeName
    <3>3. Discovers(l) /\ Verdict(rangeName(l)) = "rejected"
            => rangeName(l) \in Removed
      BY <2>1, RejectedIsGone
    <3>4. LaunchHeeds(l)'
      BY <2>1, <3>1, <3>2, <3>3 DEF LaunchHeeds, Keeps, At, Discovers
    <3> QED
      BY <1>q, <2>1, <3>1, <3>4
  <2> QED
    BY <2>2, <2>3
<1>10. ASSUME NEW l \in Launches, InvalidateClusterConfig(l)  PROVE RemovedUnused'
  <2>1. /\ Trying(l) /\ call[l].step = "forgetConfig" /\ AfterRange(l)
        /\ LaunchHeeds(l) /\ configInvalidatedAt' = configVersion
        /\ UNCHANGED <<configVersion, configFloor, subnetVersion>>
    BY <1>0, <1>10 DEF InvalidateClusterConfig, Config!Invalidate, Trying, At
  <2>2. /\ Alone(l)
        /\ \/ /\ call'[l].step \in {"attempt", "failed"}
              /\ call'[l].names = <<>> /\ call'[l].heeded = {}
           \/ /\ call'[l].step \in {"lock", "insert"} /\ call'[l].want = "stack"
              /\ call'[l].names = call[l].names /\ call'[l].heeded = call[l].heeded
    BY <2>1, AfterRangeEffect
  <2>3. dropped \subseteq dropped' /\ dropped' \subseteq Removed
    <3>1. \/ dropped' = dropped
          \/ /\ dropped' = dropped \cup {rangeName(l)}
             /\ Discovers(l) /\ call[l].result = "rejected"
      BY <2>1 DEF AfterRange
    <3> QED
      BY <1>0, <2>1, <3>1 DEF DroppedGone, LaunchHeeds
  <2>4. LaunchHeeds(l)'
    BY <2>1, <2>2, <2>3, NothingToHeed, GoesOnHeeding DEF SameNetwork
  <2>5. \A k \in Launches : LaunchHeeds(k)'
    BY <1>0, <2>1, <2>2, <2>3, <2>4, OthersHeed DEF SameNetwork
  <2>6. Known' = Known /\ Removed' = Removed
    BY <2>1 DEF Known, Removed
  <2>7. Unnamed(dropped, configInvalidatedAt)'
    <3>1. ASSUME NEW w \in 1..configVersion, configVersion <= w
          PROVE  dropped' \cap Range(ConfigNames[w]) = {}
      <4>1. w = configVersion
        BY <3>1, PodRangesAssumption DEF TypeOK, ConfigOK
      <4> QED
        BY <1>0, <2>3, <4>1 DEF DroppedGone, Removed
    <3> QED
      BY <2>1, <3>1 DEF Unnamed
  <2>8. DroppedGone'
    BY <1>0, <2>1, <2>3, <2>6, <2>7 DEF DroppedGone
  <2> QED
    BY <2>5, <2>8 DEF RemovedUnused
<1>11. ASSUME NEW l \in Launches, LookupFails(l)  PROVE RemovedUnused'
  <2>1. Reading(l) /\ None \in Nat /\ SnapshotReturned(l, None)
    BY <1>11 DEF LookupFails, At, Reading, None
  <2>2. UNCHANGED <<subnetVersion, dropped, config>> /\ SameNetwork
    BY <1>11 DEF LookupFails, config, SameNetwork
  <2> QED
    BY <1>q, <1>r, <2>1, <2>2
<1>12. ASSUME NEW l \in Launches, ConfigFails(l)  PROVE RemovedUnused'
  <2>1. UNCHANGED <<subnetVersion, dropped>> /\ Config!Leave(l)
    BY <1>12 DEF ConfigFails, history
  <2>2. CASE At(l, "counts") /\ Goto(l, "attempt")
    <3>1. Alone(l) /\ Keeps(l) /\ call'[l].step = "attempt"
      BY <1>0, <2>2, GotoEffect DEF Steps
    <3>2. call[l].names = <<>>
      BY <1>0, <2>2 DEF LaunchHeeds, At
    <3>3. SameNetwork => LaunchHeeds(l)'
      BY <1>0, <2>1, <3>1, <3>2, GoesOnHeeding DEF Keeps
    <3> QED
      BY <1>q, <2>1, <3>1, <3>3
  <2>3. CASE NextType(l)
    <3>1. Alone(l) /\ LaunchHeeds(l)'
      BY <1>0, <2>3, NextTypeEffect, NothingToHeed
    <3> QED
      BY <1>q, <2>1, <3>1
  <2> QED
    BY <1>12, <2>2, <2>3 DEF ConfigFails
<1>13. ASSUME NEW l \in Launches, InsertFails(l)  PROVE RemovedUnused'
  <2>1. Alone(l) /\ LaunchHeeds(l)'
    BY <1>0, <1>13, NextTypeEffect, EndEffect, NothingToHeed DEF InsertFails
  <2> QED
    BY <1>q, <1>13, <2>1 DEF InsertFails, history
<1>14. ASSUME NEW l \in Launches, Cancel(l)  PROVE RemovedUnused'
  <2>1. UNCHANGED <<subnetVersion, dropped>> /\ (Config!Leave(l) \/ UNCHANGED config)
    BY <1>14 DEF Cancel, history
  <2>2. CASE Reading(l) /\ call' = [call EXCEPT ![l].cancelled = TRUE]
    <3>1. Alone(l) /\ Keeps(l) /\ call'[l].step = call[l].step
      BY <2>2, CancelEffect
    <3>2. /\ call[l].want = "counts" => call[l].names = <<>>
          /\ call'[l].step \in {"lock", "lookup", "store"}
      BY <1>0, <2>2, <3>1 DEF LaunchHeeds, Reading
    <3>3. SameNetwork => LaunchHeeds(l)'
      BY <1>0, <2>1, <3>1, <3>2, GoesOnHeeding DEF Keeps
    <3> QED
      BY <1>q, <2>1, <3>1, <3>3
  <2>3. CASE End(l, "failed")
    <3>1. Alone(l) /\ LaunchHeeds(l)'
      BY <1>0, <2>3, EndEffect, NothingToHeed
    <3> QED
      BY <1>q, <2>1, <3>1
  <2> QED
    BY <1>14, <2>2, <2>3 DEF Cancel, Reading
<1>15. CASE ConfigChanges
  <2>1. /\ configVersion' = configVersion + 1 /\ configVersion \in Nat
        /\ Range(ConfigNames[configVersion + 1]) \subseteq DOMAIN Subnet[subnetVersion]
        /\ UNCHANGED <<subnetVersion, call, dropped, configFloor, configInvalidatedAt>>
    BY <1>15, PodRangesAssumption
       DEF ConfigChanges, Config!Change, history, TypeOK, ConfigOK
  <2>2. Known' = Known /\ Removed' = Removed
    BY <2>1 DEF Known, Removed
  <2>3. ASSUME NEW names, NEW v, names \subseteq Removed, Unnamed(names, v)
        PROVE  \A w \in 1..configVersion' :
                    v <= w => names \cap Range(ConfigNames[w]) = {}
    <3>1. \A w \in 1..configVersion' : w \in 1..configVersion \/ w = configVersion + 1
      BY <2>1
    <3> QED
      BY <2>1, <2>3, <3>1 DEF Unnamed, Removed
  <2>4. Range(ConfigNames[configVersion + 1]) \subseteq Known
    <3>1. subnetVersion \in 1..subnetVersion
      BY PodRangesAssumption DEF TypeOK
    <3> QED
      BY <2>1, <3>1 DEF Known
  <2>5. DroppedGone'
    <3>1. Unnamed(dropped, configInvalidatedAt)'
      BY <1>0, <2>1, <2>3 DEF DroppedGone, Unnamed
    <3>2. \A v \in 1..configVersion' : v \in 1..configVersion \/ v = configVersion + 1
      BY <2>1
    <3>3. \A v \in 1..configVersion' : Range(ConfigNames[v]) \subseteq Known'
      BY <1>0, <2>2, <2>4, <3>2 DEF DroppedGone
    <3> QED
      BY <1>0, <2>1, <2>2, <3>1, <3>3 DEF DroppedGone
  <2>6. ASSUME NEW l \in Launches  PROVE LaunchHeeds(l)'
    <3>1. LaunchHeeds(l) /\ call[l].heeded \subseteq Removed
      BY <1>0 DEF LaunchHeeds, DroppedGone
    <3>2. At(l, "config") => Unnamed(call[l].heeded, configFloor[l])'
      BY <2>1, <2>3, <3>1 DEF LaunchHeeds, Unnamed
    <3> QED
      BY <2>1, <2>2, <3>1, <3>2 DEF LaunchHeeds, At, Discovers, rangeName
  <2> QED
    BY <2>5, <2>6 DEF RemovedUnused
<1>16. CASE SubnetChanges
  <2>1. /\ UNCHANGED <<configVersion, configInvalidatedAt, configFloor, call, dropped>>
        /\ Range(ConfigNames[configVersion]) \subseteq DOMAIN Subnet[subnetVersion']
    BY <1>16 DEF SubnetChanges, config, history
  <2>2. Known \subseteq Known' /\ Removed \subseteq Removed'
    BY <1>16, RemovedStays
  <2>3. DroppedGone'
    <3>1. Unnamed(dropped, configInvalidatedAt)'
      BY <1>0, <2>1 DEF DroppedGone, Unnamed
    <3> QED
      BY <1>0, <2>1, <2>2, <3>1 DEF DroppedGone
  <2>4. ASSUME NEW l \in Launches  PROVE LaunchHeeds(l)'
    <3>1. LaunchHeeds(l)
      BY <1>0
    <3>2. At(l, "config") => Unnamed(call[l].heeded, configFloor[l])'
      BY <2>1, <3>1 DEF LaunchHeeds, Unnamed
    <3> QED
      BY <2>1, <2>2, <3>1, <3>2 DEF LaunchHeeds, At, Discovers, rangeName
  <2> QED
    BY <2>3, <2>4 DEF RemovedUnused
<1>17. CASE UNCHANGED <<config, subnetVersion, call, dropped>>
  <2>1. DroppedGone' /\ Known' = Known /\ Removed' = Removed
    BY <1>s, <1>17 DEF SameNetwork, config, Known, Removed
  <2>2. ASSUME NEW l \in Launches  PROVE LaunchHeeds(l)'
    <3>1. LaunchHeeds(l)
      BY <1>0
    <3>2. At(l, "config") => Unnamed(call[l].heeded, configFloor[l])'
      BY <1>17, <3>1 DEF LaunchHeeds, Unnamed, config
    <3> QED
      BY <1>17, <2>1, <3>1, <3>2 DEF LaunchHeeds, At, Discovers, rangeName
  <2> QED
    BY <2>1, <2>2 DEF RemovedUnused
<1>18. Tick \/ UNCHANGED vars => UNCHANGED <<config, subnetVersion, call, dropped>>
  BY DEF Tick, vars, history
<1> QED
  BY <1>1, <1>2, <1>3, <1>4, <1>5, <1>6, <1>7, <1>8, <1>9, <1>10, <1>11, <1>12,
     <1>13, <1>14, <1>15, <1>16, <1>17, <1>18 DEF Next, Locks, Proceeds, Fails

(* A discovered range that GCE has rejected is not tried again: no attempt *)
(* that begins after the rejection was handled uses the range, whatever    *)
(* others read or invalidate in between.                                   *)
THEOREM RejectionIsHeeded == Spec => []RejectionHeeded
<1>1. Init => RemovedUnused
  <2> SUFFICES ASSUME Init PROVE RemovedUnused
    OBVIOUS
  <2>1. \A l \in Launches :
            /\ call[l].step = "idle" /\ call[l].names = <<>> /\ call[l].heeded = {}
    BY DEF Init, CallAt
  <2>2. \A l \in Launches : LaunchHeeds(l)
    BY <2>1 DEF LaunchHeeds, At
  <2>3. configVersion = 1 /\ subnetVersion = 1 /\ dropped = {}
    BY DEF Init, Config!Init
  <2>4. DroppedGone
    <3>1. DOMAIN Subnet[1] \subseteq Known
      BY <2>3 DEF Known
    <3> QED
      BY <2>3, <3>1, NetworkAssumption DEF DroppedGone, Unnamed
  <2> QED
    BY <2>2, <2>4 DEF RemovedUnused
<1>2. TypeOK /\ RemovedUnused => RejectionHeeded
  <2> SUFFICES ASSUME TypeOK, RemovedUnused, NEW l \in Launches,
                      At(l, "insert"), Discovers(l)
               PROVE  rangeName(l) \notin call[l].heeded
    BY DEF RejectionHeeded
  <2>1. call[l].index \in DOMAIN call[l].names
    BY DEF TypeOK, CallsOK, Trying, At
  <2> QED
    BY <2>1 DEF RemovedUnused, LaunchHeeds, rangeName
<1> QED
  BY <1>1, <1>2, NextRemovedUnused, PodRangesTypeCorrect, PTL DEF Spec
=============================================================================
