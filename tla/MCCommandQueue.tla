--------------------------- MODULE MCCommandQueue ---------------------------
(* Two principals in one conversation and one in another; one in steer mode. *)
EXTENDS CommandQueue
CONSTANTS a1, a2, b1
MCSessionOf == (a1 :> "a") @@ (a2 :> "a") @@ (b1 :> "b")
MCSteering == [a |-> {"steer"}]
MCModesOf == [a |-> Mode, b |-> {"followup"}]
=============================================================================
