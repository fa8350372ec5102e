------------------------- MODULE MCGraphStateMachine -------------------------
(* GraphStateMachine over every dependency relation of a small graph.      *)
EXTENDS GraphStateMachine
=============================================================================
