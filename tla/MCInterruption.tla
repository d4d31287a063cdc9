--------------------------- MODULE MCInterruption ---------------------------
(* One type in two zones, and a node in the first of them beside one whose *)
(* NodeClaim has no labels.                                                *)
EXTENDS Interruption, TLC

CONSTANTS n1, n2, t, a, b, l1

Order == <<n1, n2>>
LabelsOf == (n1 :> <<t, a, "spot">>) @@ (n2 :> NoLabels)
OfferedSpot == {<<t, a, "spot">>, <<t, b, "spot">>}
=============================================================================
