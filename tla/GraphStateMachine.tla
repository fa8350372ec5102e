-------------------------- MODULE GraphStateMachine --------------------------
(***************************************************************************)
(* The synchronous state machine of one execution graph: node transitions, *)
(* barriers and the failure cascade.  Its methods contain no await, so     *)
(* each is one step, cascade included.  The coordinator's calls arrive in  *)
(* any order the node states permit; a restart restores the persisted      *)
(* states and puts interrupted nodes back to ready.                        *)
(***************************************************************************)
EXTENDS ExecutionGraph

CONSTANTS
    Policies,     \* failure policies under study
    Barriers,     \* barrier modes of the fan-in nodes
    MaxRetries,   \* bound: retries of a node (0 to 3 in the schema)
    MaxRestarts   \* bound: restarts of the daemon

ASSUME PoliciesAssumption == Policies # {} /\ Policies \subseteq {"fail-fast", "continue"}
ASSUME BarriersAssumption ==
    "all" \in Barriers /\ Barriers \subseteq {"all", "majority", "best-effort"}
ASSUME RetriesAssumption  == MaxRetries \in 0 .. 3 /\ MaxRestarts \in Nat

Active     == {"pending", "ready", "running"}
Terminal   == {"completed", "failed", "skipped"}
NodeStatus == Active \cup Terminal

VARIABLES
    deps,              \* the submitted dependencies
    phase,             \* submitted, rejected or running
    barrier,           \* barrier mode of each node
    onFailure,         \* the graph's failure policy
    status,            \* status of each node
    retriesRemaining,
    cancelled,         \* cancel() was called
    restarts

config == <<deps, barrier, onFailure>>
vars   == <<config, phase, status, retriesRemaining, cancelled, restarts>>

TypeOK ==
    /\ deps \in [Node -> SUBSET Node]
    /\ phase \in {"submitted", "rejected", "running"}
    /\ barrier \in [Node -> Barriers]
    /\ onFailure \in Policies
    /\ status \in [Node -> NodeStatus]
    /\ retriesRemaining \in [Node -> 0 .. MaxRetries]
    /\ cancelled \in BOOLEAN
    /\ restarts \in 0 .. MaxRestarts

Init ==
    /\ deps \in [Node -> SUBSET Node]
    /\ phase = "submitted"
    /\ barrier = [n \in Node |-> "all"]
    /\ onFailure = CHOOSE p \in Policies : TRUE
    /\ status = [n \in Node |-> "pending"]
    /\ retriesRemaining = [n \in Node |-> 0]
    /\ cancelled = FALSE
    /\ restarts = 0

-----------------------------------------------------------------------------
(* Barriers, evaluated on the statuses st.                                 *)

CountDeps(st, n, S) == Cardinality({d \in deps[n] : st[d] \in S})

\* Mutant: the modes do not wait for every dependency to end.
IsBarrierSatisfiedEarly(st, n) ==
    LET completed == CountDeps(st, n, {"completed"})
        total     == Cardinality(deps[n])
    IN  CASE barrier[n] = "all"         -> completed = total
          [] barrier[n] = "majority"    -> 2 * completed > total
          [] barrier[n] = "best-effort" -> completed >= 1

\* The barrier is met; all modes wait until every dependency is terminal.
IsBarrierSatisfied(st, n) ==
    LET completed == CountDeps(st, n, {"completed"})
        terminal  == CountDeps(st, n, Terminal)
        total     == Cardinality(deps[n])
    IN  \/ total = 0
        \/ barrier[n] = "all" /\ completed = total
        \/ barrier[n] = "majority" /\ terminal = total /\ 2 * completed > total
        \/ barrier[n] = "best-effort" /\ terminal = total /\ completed >= 1

\* Mutant: a node is given up on its first failed dependency in every mode.
IsBarrierUnsatisfiableEarly(st, n) ==
    LET best == CountDeps(st, n, Active \cup {"completed"})
    IN  best < Cardinality(deps[n])

\* Not even the dependencies that can still complete would meet it.
IsBarrierUnsatisfiable(st, n) ==
    LET best  == CountDeps(st, n, Active \cup {"completed"})
        total == Cardinality(deps[n])
    IN  CASE barrier[n] = "all"         -> best < total
          [] barrier[n] = "majority"    -> 2 * best <= total
          [] barrier[n] = "best-effort" -> best = 0

HasFailedOrSkippedDep(st, n) == CountDeps(st, n, {"failed", "skipped"}) > 0

MustSkip(st, n) ==
    IF onFailure = "fail-fast" THEN HasFailedOrSkippedDep(st, n)
                               ELSE IsBarrierUnsatisfiable(st, n)

\* Mutant: only the direct dependents of the failed node are visited.
CascadeRoundShallow(c) ==
    IF c.queue = <<>> THEN c
    ELSE LET n == Head(c.queue)
         IN  [c EXCEPT !.queue = Tail(c.queue),
                       !.status[n] = IF @ \in {"pending", "ready"} /\ MustSkip(c.status, n)
                                     THEN "skipped" ELSE @]

\* One round of cascadeFailure's loop: a node is decided at its first visit.
CascadeRound(c) ==
    IF c.queue = <<>> THEN c
    ELSE LET n    == Head(c.queue)
             seen == c.visited \cup {n}
             next == [c EXCEPT !.queue = Tail(c.queue), !.visited = seen]
         IN  IF n \in c.visited \/ c.status[n] \notin {"pending", "ready"} THEN next
             ELSE IF MustSkip(c.status, n)
                  THEN [next EXCEPT
                          !.status[n] = "skipped",
                          !.queue = @ \o InNodeOrder(Dependents(deps, n) \ seen)]
             ELSE IF onFailure = "continue" /\ IsBarrierSatisfied(c.status, n)
                  THEN [next EXCEPT !.status[n] = "ready"]
             ELSE next

\* cascadeFailure: breadth first from the dependents of f.  A node is pushed at
\* most once per dependency, so N * N rounds empty the queue.
CascadeFailure(st, f) ==
    LET rounds[i \in 0 .. N * N] ==
            IF i = 0 THEN [queue |-> InNodeOrder(Dependents(deps, f)), visited |-> {}, status |-> st]
                     ELSE CascadeRound(rounds[i - 1])
    IN  rounds[N * N].status

\* evaluateBarriers: dependents of n whose barrier is now met become ready.
EvaluateBarriers(st, n) ==
    [m \in Node |->
        IF n \in deps[m] /\ st[m] = "pending" /\ IsBarrierSatisfied(st, m)
        THEN "ready" ELSE st[m]]

IsTerminal(st) == \A n \in Node : st[n] \in Terminal

-----------------------------------------------------------------------------
(* The public methods.                                                     *)

\* Barrier modes agree on a node with fewer than two dependencies, so only the
\* fan-in nodes choose one.
FanInBarriers ==
    {b \in [Node -> Barriers] :
        \A n \in Node : Cardinality(deps[n]) < 2 => b[n] = "all"}

\* validateAndSortGraph, then createGraphStateMachine.
Create ==
    /\ phase = "submitted"
    /\ IF Accepted(deps)
       THEN /\ phase' = "running"
            /\ barrier' \in FanInBarriers
            /\ onFailure' \in Policies
            /\ \E r \in 0 .. MaxRetries : retriesRemaining' = [n \in Node |-> r]
            /\ status' = [n \in Node |-> IF deps[n] = {} THEN "ready" ELSE "pending"]
       ELSE /\ phase' = "rejected"
            /\ UNCHANGED <<barrier, onFailure, status, retriesRemaining>>
    /\ UNCHANGED <<deps, cancelled, restarts>>

MarkNodeRunning(n) ==
    /\ phase = "running"
    /\ status[n] = "ready"
    /\ status' = [status EXCEPT ![n] = "running"]
    /\ UNCHANGED <<config, phase, retriesRemaining, cancelled, restarts>>

MarkNodeCompleted(n) ==
    /\ phase = "running"
    /\ status[n] = "running"
    /\ status' = EvaluateBarriers([status EXCEPT ![n] = "completed"], n)
    /\ UNCHANGED <<config, phase, retriesRemaining, cancelled, restarts>>

\* Mutant: the remaining retries are not consulted.
MarkNodeFailedUncounted(n, terminal) ==
    /\ phase = "running"
    /\ status[n] = "running"
    /\ status' = [status EXCEPT ![n] = "ready"]
    /\ retriesRemaining' = [retriesRemaining EXCEPT ![n] = @ - 1]
    /\ UNCHANGED <<config, phase, cancelled, restarts>>

\* The node is tried again while retries remain and the failure is not terminal;
\* otherwise it fails, the cascade runs and its dependents' barriers are checked.
MarkNodeFailed(n, terminal) ==
    /\ phase = "running"
    /\ status[n] = "running"
    /\ IF retriesRemaining[n] > 0 /\ ~terminal
       THEN /\ status' = [status EXCEPT ![n] = "ready"]
            /\ retriesRemaining' = [retriesRemaining EXCEPT ![n] = @ - 1]
       ELSE /\ status' = EvaluateBarriers(
                            CascadeFailure([status EXCEPT ![n] = "failed"], n), n)
            /\ UNCHANGED retriesRemaining
    /\ UNCHANGED <<config, phase, cancelled, restarts>>

\* cancel: what has not started is skipped, what runs is left alone.
Cancel ==
    /\ phase = "running"
    /\ ~IsTerminal(status)
    /\ status' = [n \in Node |-> IF status[n] \in {"pending", "ready"} THEN "skipped"
                                                                       ELSE status[n]]
    /\ cancelled' = TRUE
    /\ UNCHANGED <<config, phase, retriesRemaining, restarts>>

\* restoreGraphStateMachine after a restart.
Restore ==
    /\ phase = "running"
    /\ restarts < MaxRestarts
    /\ restarts' = restarts + 1
    /\ status' = [n \in Node |-> IF status[n] = "running" THEN "ready" ELSE status[n]]
    /\ UNCHANGED <<config, phase, retriesRemaining, cancelled>>

Next ==
    \/ Create
    \/ \E n \in Node : MarkNodeRunning(n) \/ MarkNodeCompleted(n)
    \/ \E n \in Node, terminal \in BOOLEAN : MarkNodeFailed(n, terminal)
    \/ Cancel
    \/ Restore

Spec == Init /\ [][Next]_vars

-----------------------------------------------------------------------------
(* Properties.                                                             *)

\* A submitted graph is accepted exactly if its dependencies have no cycle, and
\* the order of an accepted one puts every node after the nodes it depends on.
ValidationExact ==
    [][phase = "submitted" /\ phase' # "submitted" =>
          /\ phase' = "running" <=> Acyclic(deps)
          /\ phase' = "running" =>
                LET order == TopologicalSort(deps)
                IN  \A i, j \in Node : order[i] \in deps[order[j]] => i < j]_vars

\* Reference for the barrier modes: how many of the ended dependencies a mode
\* asks to be completed.
Suffice(n, completed, total) ==
    CASE barrier[n] = "all"         -> completed = total
      [] barrier[n] = "majority"    -> completed > total - completed
      [] barrier[n] = "best-effort" -> completed > 0

\* A node that was ever started had all its dependencies ended and enough of
\* them completed, whatever failed, was cancelled or restored before and after.
StartedMeetsBarrier ==
    \A n \in Node :
        /\ phase = "running"
        /\ status[n] \in {"ready", "running", "completed", "failed"}
        /\ deps[n] # {}
        => /\ \A d \in deps[n] : status[d] \in Terminal
           /\ Suffice(n, CountDeps(status, n, {"completed"}), Cardinality(deps[n]))

\* Unless the graph was cancelled, a skipped node has a failed or skipped
\* dependency, and under "continue" its barrier is not met even if every
\* dependency that has not ended completes.
SkippedIsHopeless ==
    \A n \in Node :
        status[n] = "skipped" /\ ~cancelled =>
            LET lost == {d \in deps[n] : status[d] \in {"failed", "skipped"}}
            IN  /\ lost # {}
                /\ onFailure = "continue" =>
                      ~ Suffice(n, Cardinality(deps[n] \ lost), Cardinality(deps[n]))

\* A majority node is skipped only if more than half of its dependencies failed
\* (or were skipped), as the guide says of "continue".
MajoritySkippedAsDocumented ==
    \A n \in Node :
        /\ status[n] = "skipped" /\ ~cancelled
        /\ onFailure = "continue" /\ barrier[n] = "majority"
        => 2 * CountDeps(status, n, {"failed", "skipped"}) > Cardinality(deps[n])

\* No node is left waiting when everything it waits for has ended: nobody
\* would ever look at it again and the graph would never complete.
NoStalledNode ==
    \A n \in Node :
        phase = "running" /\ status[n] = "pending" =>
            \E d \in deps[n] : status[d] \in Active

\* Only the two partial barrier modes under "continue" can leave one.
StallsOnlyInModes ==
    (onFailure = "continue" /\ \E n \in Node : barrier[n] # "all") \/ NoStalledNode
=============================================================================
