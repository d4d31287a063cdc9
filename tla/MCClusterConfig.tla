--------------------------- MODULE MCClusterConfig ---------------------------
(* Instances of ClusterConfig for TLC. *)
EXTENDS ClusterConfig, TLC

CONSTANTS r1, r2

MCReaders == {r1, r2}

MCUnlocated == {2}
=============================================================================
