------------------------------ MODULE MCLaunch ------------------------------
(* Instances of Launch for TLC. *)
EXTENDS Launch, TLC

CONSTANTS c1, c2, t1, t2, a, b

OneClaim == {c1}
TwoClaims == {c1, c2}
OneType == {t1}
TwoTypes == {t1, t2}
MCZones == {a, b}

(* t1 is offered in zone a only, t2 as spot in both and on demand in b. *)
MCOffered ==
    {o \in Offerings : IF o[1] = t1 THEN o[2] = a
                       ELSE o[3] = "spot" \/ o[2] = b}

(* Spot is cheaper than on-demand, t1 than t2, and zone a than zone b. *)
MCPrice ==
    [o \in Offerings |-> (IF o[3] = "spot" THEN 0 ELSE 4)
                         + (IF o[1] = t1 THEN 0 ELSE 2)
                         + (IF o[2] = a THEN 0 ELSE 1)]

MCRank == [t \in Types |-> IF t = t1 THEN 1 ELSE 2]

Anywhere == [op |-> "Exists", values |-> {}]
OnlyA == [op |-> "In", values |-> {a}]
NotB == [op |-> "NotIn", values |-> {b}]

AnywhereClaims == [c \in Claims |-> Anywhere]
PinnedClaims == [c \in Claims |-> IF c = c1 THEN OnlyA ELSE NotB]

BothCapacities == [c \in Claims |-> CapacityTypes]

AllLaunchable == [c \in Claims |-> Types]
=============================================================================
