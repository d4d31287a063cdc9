------------------------------ MODULE FreshRead ------------------------------
(***************************************************************************)
(* What a cache in front of a Google API promises to those who read        *)
(* through it, without saying how: an answer is a state the source was in  *)
(* at some time since the last invalidation before the call, or later.     *)
(*                                                                         *)
(* ClusterConfig implements it for the cluster configuration               *)
(* (GetClusterConfig and InvalidateClusterConfig), PodRanges for the       *)
(* subnetwork's utilization (getSnapshot and Invalidate).  PodRanges in    *)
(* turn uses it in place of ClusterConfig.                                 *)
(***************************************************************************)
EXTENDS Naturals

CONSTANT Readers

VARIABLES
    version,        \* of the source: every change increments it
    invalidatedAt,  \* the version at the last invalidation
    state,          \* reader -> "idle", "busy" or "answered"
    floor,          \* reader -> invalidatedAt when its call started
    answer          \* reader -> the version its call returned

vars == <<version, invalidatedAt, state, floor, answer>>

None == 0

Init ==
    /\ version = 1
    /\ invalidatedAt = 0
    /\ state = [r \in Readers |-> "idle"]
    /\ floor = [r \in Readers |-> 0]
    /\ answer = [r \in Readers |-> None]

Change ==
    /\ version' = version + 1
    /\ UNCHANGED <<invalidatedAt, state, floor, answer>>

Invalidate ==
    /\ invalidatedAt' = version
    /\ UNCHANGED <<version, state, floor, answer>>

Ask(r) ==
    /\ state[r] # "busy"
    /\ state' = [state EXCEPT ![r] = "busy"]
    /\ floor' = [floor EXCEPT ![r] = invalidatedAt]
    /\ answer' = [answer EXCEPT ![r] = None]
    /\ UNCHANGED <<version, invalidatedAt>>

Answer(r) ==
    /\ state[r] = "busy"
    /\ \E v \in floor[r]..version :
        /\ v # None
        /\ answer' = [answer EXCEPT ![r] = v]
    /\ state' = [state EXCEPT ![r] = "answered"]
    /\ UNCHANGED <<version, invalidatedAt, floor>>

(* The call fails, or the reader is done with its answer. *)
Leave(r) ==
    /\ state[r] # "idle"
    /\ state' = [state EXCEPT ![r] = "idle"]
    /\ floor' = [floor EXCEPT ![r] = 0]
    /\ answer' = [answer EXCEPT ![r] = None]
    /\ UNCHANGED <<version, invalidatedAt>>

Next ==
    \/ Change
    \/ Invalidate
    \/ \E r \in Readers : Ask(r) \/ Answer(r) \/ Leave(r)

Spec == Init /\ [][Next]_vars
=============================================================================
