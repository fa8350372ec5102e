------------------------- MODULE MCGraphCoordinator -------------------------
(* Instances of GraphCoordinator for TLC. *)
EXTENDS GraphCoordinator
CONSTANTS g1, g2

\* g1: two independent nodes; g2: a regular node, then a driver node.
TwoGraphs   == {g1, g2}
TwoDeps     == [g \in TwoGraphs |-> [n \in 1 .. 2 |-> IF g = g2 /\ n = 2 THEN {1} ELSE {}]]
TwoDrivers  == {<<g2, 2>>}
TwoRetries  == [g \in TwoGraphs |-> [n \in 1 .. 2 |-> IF g = g2 THEN 1 ELSE 0]]
TwoBudgeted == {g1}
DriverBudgeted == {g2}
=============================================================================
