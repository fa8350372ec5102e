---------------------------- MODULE MCDurableRun ----------------------------
(* Small instances of DurableRun for TLC. *)
EXTENDS DurableRun

\* The scenarios of the run: a script alone, or a sub-agent and a graph of one
\* tree with two claims between them.  As a constraint this cuts behaviours short
\* and adds none.
Used(kind) == \E i \in Of(kind) : i \in live \/ row[i].status # "absent"
Claims(kind) == Cardinality({i \in Of(kind) : i[2] > 0 /\ row[i].status # "absent"})
Scenarios ==
    /\ Used(Script) => ~Used(Plain) /\ ~Used(Graph)
    /\ Claims(Plain) + Claims(Graph) <= 2
=============================================================================
