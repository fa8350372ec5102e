--------------------------- MODULE ExecutionGraph ---------------------------
(***************************************************************************)
(* The shape of an execution graph and its validation.  A node is named by *)
(* its position in the submitted list, the order in which the code visits  *)
(* nodes and dependents; deps[n] are the nodes n depends on.               *)
(***************************************************************************)
EXTENDS Naturals, Sequences, FiniteSets

CONSTANT N    \* nodes of the graph
ASSUME NAssumption == N \in Nat \ {0}

Node == 1 .. N

\* The nodes of S as the code lists them.
InNodeOrder(S) ==
    LET upTo[i \in 0 .. N] ==
            IF i = 0 THEN <<>>
            ELSE IF i \in S THEN Append(upTo[i - 1], i) ELSE upTo[i - 1]
    IN  upTo[N]

\* The reverse adjacency: dependents are listed in the order of the nodes.
Dependents(deps, n) == {m \in Node : n \in deps[m]}

\* One round of the queue of nodes whose dependencies are all sorted.
SortRound(deps, k) ==
    IF k.queue = <<>> THEN k
    ELSE LET n == Head(k.queue)
             inDegree == [m \in Node |-> IF n \in deps[m] THEN k.inDegree[m] - 1
                                                          ELSE k.inDegree[m]]
         IN  [queue    |-> Tail(k.queue) \o
                              InNodeOrder({m \in Dependents(deps, n) : inDegree[m] = 0}),
              sorted   |-> Append(k.sorted, n),
              inDegree |-> inDegree]

\* Every round sorts one node, so N rounds empty the queue.
TopologicalSort(deps) ==
    LET rounds[i \in 0 .. N] ==
            IF i = 0
            THEN [queue    |-> InNodeOrder({n \in Node : deps[n] = {}}),
                  sorted   |-> <<>>,
                  inDegree |-> [n \in Node |-> Cardinality(deps[n])]]
            ELSE SortRound(deps, rounds[i - 1])
    IN  rounds[N].sorted

\* Mutant: a self-dependency is left to the cycle detection, which misses that
\* the sort came up short by one node only.
AcceptedLoosely(deps) == Len(TopologicalSort(deps)) >= N - 1

\* validateAndSortGraph accepts the dependencies.
Accepted(deps) ==
    /\ \A n \in Node : n \notin deps[n]
    /\ Len(TopologicalSort(deps)) = N

\* Reference: no node is reached from itself.
Reached(deps) ==
    LET reach[i \in 0 .. N] ==
            IF i = 0 THEN deps
            ELSE [n \in Node |->
                     reach[i - 1][n] \cup UNION {reach[i - 1][m] : m \in deps[n]}]
    IN  reach[N]

Acyclic(deps) == \A n \in Node : n \notin Reached(deps)[n]
=============================================================================
