---------------------------- MODULE MCPodRanges ----------------------------
(* Instances of PodRanges for TLC. *)
EXTENDS PodRanges, TLC

CONSTANTS p, q, s, l1, l2

(* p fills up and is removed, s is added.  In the end only s has room. *)
TwoConfigs == <<<<p, q>>, <<q, s>>>>
ThreeSubnets == <<p :> 2 @@ q :> 1, p :> 0 @@ q :> 1 @@ s :> 2, q :> 0 @@ s :> 2>>

(* One launch discovers its ranges, the NodeClass of the other names p. *)
OneExplicit == l1 :> <<>> @@ l2 :> <<p>>
=============================================================================
