------------------------ MODULE MCInstanceLifecycle ------------------------
(* Instances of InstanceLifecycle for TLC. *)
EXTENDS InstanceLifecycle

CONSTANTS c1, za, zb

OneZone == <<za>>
TwoZones == <<za, zb>>
=============================================================================
