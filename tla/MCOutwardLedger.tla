--------------------------- MODULE MCOutwardLedger ---------------------------
(* Small instances of OutwardLedger for TLC. *)
EXTENDS OutwardLedger, TLC

\* Sender slots are interchangeable.
AttemptSymmetry == Permutations(Attempt)
=============================================================================
