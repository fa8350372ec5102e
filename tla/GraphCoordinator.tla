-------------------------- MODULE GraphCoordinator --------------------------
(***************************************************************************)
(* The graph coordinator (daemon/src/graph): several execution graphs that *)
(* share one pool of sub-agent slots with a FIFO queue, the launch of      *)
(* their nodes, the turns of driver nodes, retries, timeouts and cancels.  *)
(*                                                                         *)
(* A graph with durable authority runs its transitions one after the other *)
(* on a tail of promises: each changes the state, awaits the checkpoint    *)
(* and then releases its continuations.  The tail is a sequence of jobs, a *)
(* job is a stretch of code without an await, and events and timers come   *)
(* at any time between two jobs.                                           *)
(***************************************************************************)
EXTENDS Integers, Sequences, FiniteSets, FiniteSetsExt

CONSTANTS
    Graph,                 \* the graphs of this process
    N,                     \* nodes of each graph
    Deps,                  \* the dependencies of each graph
    Driver,                \* the <<graph, node>> pairs with a node type driver
    OnFailure, Barrier,    \* failure policy and barrier mode of all graphs
    Budgeted,              \* the graphs with a budget
    Fan,                   \* sub-agents of a spawn_all
    MaxGlobalSubAgents,
    MaxConcurrency,
    Retries,               \* retries of each node
    MaxTurns,              \* bound: rounds a driver asks for
    MaxFaults              \* bound: cancels, timeouts, refused starts, spent budgets

ASSUME CoordinatorAssumption ==
    /\ IsFiniteSet(Graph) /\ N \in Nat \ {0} /\ Fan \in Nat \ {0}
    /\ MaxGlobalSubAgents \in Nat \ {0} /\ MaxConcurrency \in Nat \ {0}
    /\ Retries \in [Graph -> [1 .. N -> 0 .. 3]]
    /\ MaxTurns \in Nat \ {0} /\ MaxFaults \in Nat
    /\ Budgeted \subseteq Graph /\ Driver \subseteq Graph \X (1 .. N)

VARIABLES
    phase,          \* absent, open, or done once completedAt is set
    status,         \* the node states of each state machine
    retries,        \* retries left
    runIdToNode,    \* the regular nodes whose run is tracked
    live,           \* sub-agents at work under a tracked regular run
    untracked,      \* sub-agents at work that no map of their graph knows
    runningCount,
    retryTimers,    \* retry timers of each node that have not fired
    graphTimer,     \* the graphs whose timeout has not fired
    inits,          \* history: initialize() calls of each driver node
    turns,          \* rounds asked for so far
    faults,         \* faults so far
    c               \* what the slots are shared by, and what a drain touches

vars == <<phase, status, retries, runIdToNode, live, untracked, runningCount,
          retryTimers, graphTimer, inits, turns, faults, c>>
timers == <<retryTimers, graphTimer>>
history == <<inits, turns, faults>>

Fault == faults < MaxFaults /\ faults' = faults + 1

Node == 1 .. N

SM(g) == INSTANCE GraphStateMachine WITH
    Policies <- {OnFailure}, Barriers <- {"all", Barrier}, MaxRetries <- 3, MaxRestarts <- 0,
    deps <- Deps[g], barrier <- [n \in Node |-> Barrier], onFailure <- OnFailure,
    phase <- IF phase[g] = "absent" THEN "submitted" ELSE "running",
    status <- status[g], retriesRemaining <- retries[g],
    cancelled <- FALSE, restarts <- 0

Terminal(g) == SM(g)!IsTerminal(status[g])
Job(op, n, x) == [op |-> op, n |-> n, x |-> x]
Entry(g, n, kind, init) == [g |-> g, n |-> n, kind |-> kind, init |-> init]

\* A driver state: the initialize() it comes from (0 if there is none), what it
\* waits for, how many runs its currentRunId or pendingParallel holds, and, as
\* history, whether a run of an earlier driver state has reported to it.
DriverState(init, mode, known, crossed) ==
    [init |-> init, mode |-> mode, known |-> known, crossed |-> crossed]
NoDriver == [init |-> 0, mode |-> "none", known |-> 0, crossed |-> FALSE]
NewDriver(i) == [init |-> i, mode |-> "turn", known |-> 0, crossed |-> FALSE]
DriverNodes(g) == {n \in Node : c.ds[g][n].init # 0}
DriverRuns(k, g) == MapThenSumSet(LAMBDA n : k.runs[g][n], Node)
NoDriversLeft(k, g) == [k EXCEPT !.ds[g] = [n \in Node |-> NoDriver],
                                 !.runs[g] = [n \in Node |-> 0]]

Init ==
    /\ phase = [g \in Graph |-> "absent"]
    /\ status = [g \in Graph |-> [n \in Node |-> "pending"]]
    /\ retries = [g \in Graph |-> [n \in Node |-> 0]]
    /\ runIdToNode = [g \in Graph |-> {}]
    /\ live = [g \in Graph |-> [n \in Node |-> 0]]
    /\ untracked = [g \in Graph |-> 0]
    /\ runningCount = [g \in Graph |-> 0]
    /\ retryTimers = [g \in Graph |-> [n \in Node |-> 0]]
    /\ graphTimer = {}
    /\ inits = [g \in Graph |-> [n \in Node |-> 0]]
    /\ turns = [g \in Graph |-> [n \in Node |-> 0]]
    /\ faults = 0
    /\ c = [globalActiveSubAgents |-> 0,
            spawnQueue |-> <<>>,
            tail       |-> [g \in Graph |-> <<>>],
            stagger    |-> [g \in Graph |-> [n \in Node |-> 0]],  \* timers
            ds         |-> [g \in Graph |-> [n \in Node |-> NoDriver]],
            runs       |-> [g \in Graph |-> [n \in Node |-> 0]]]  \* driverRunIdMap

-----------------------------------------------------------------------------
(* Slots and the spawn queue.  The operators take and return the shared    *)
(* state k.                                                                *)

Append1(k, g, job) == [k EXCEPT !.tail[g] = Append(@, job)]

\* The spawn function of an entry, with its slot claimed: a regular node enters
\* the tail, a driver's sub-agent starts at once.
Execute(k, e) ==
    IF e.kind = "node" THEN Append1(k, e.g, Job("admit", e.n, "-"))
    ELSE LET own == k.ds[e.g][e.n].init = e.init
         IN  [k EXCEPT !.runs[e.g][e.n] = @ + 1,
                       !.ds[e.g][e.n].known =
                          IF ~own THEN @ ELSE IF e.kind = "turn" THEN 1 ELSE @ + 1]

GatedSpawn(k, e) ==
    IF k.globalActiveSubAgents < MaxGlobalSubAgents
    THEN Execute([k EXCEPT !.globalActiveSubAgents = @ + 1], e)
    ELSE [k EXCEPT !.spawnQueue = Append(@, e)]

\* Mutant: a slot is handed on without being counted.
DrainRoundUncounted(k) ==
    IF k.spawnQueue = <<>> \/ k.globalActiveSubAgents >= MaxGlobalSubAgents THEN k
    ELSE Execute([k EXCEPT !.spawnQueue = Tail(@)], Head(k.spawnQueue))

DrainRound(k) ==
    IF k.spawnQueue = <<>> \/ k.globalActiveSubAgents >= MaxGlobalSubAgents THEN k
    ELSE LET e    == Head(k.spawnQueue)
             rest == [k EXCEPT !.spawnQueue = Tail(@)]
         IN  IF phase[e.g] = "done" THEN rest
             ELSE Execute([rest EXCEPT !.globalActiveSubAgents = @ + 1], e)

Drain(k) ==
    LET rounds[i \in 0 .. Len(k.spawnQueue)] ==
            IF i = 0 THEN k ELSE DrainRound(rounds[i - 1])
    IN  rounds[Len(k.spawnQueue)]

\* The queue without the entries of the nodes S.
Without(q, S) ==
    LET kept[i \in 0 .. Len(q)] ==
            IF i = 0 THEN <<>>
            ELSE IF <<q[i].g, q[i].n>> \in S THEN kept[i - 1] ELSE Append(kept[i - 1], q[i])
    IN  kept[Len(q)]

\* Mutant: the queue is not drained.
ReleaseOnly(k) == [k EXCEPT !.globalActiveSubAgents = IF @ = 0 THEN 0 ELSE @ - 1]

ReleaseAndDrainQueue(k) ==
    Drain([k EXCEPT !.globalActiveSubAgents = IF @ = 0 THEN 0 ELSE @ - 1])

-----------------------------------------------------------------------------
(* Launching nodes.                                                        *)

SpawnNode(k, g, n) ==
    IF <<g, n>> \in Driver THEN Append1(k, g, Job("driver", n, "-"))
    ELSE GatedSpawn(k, Entry(g, n, "node", 0))

Queued(k, g, n) ==
    \E i \in 1 .. Len(k.spawnQueue) : k.spawnQueue[i].g = g /\ k.spawnQueue[i].n = n

\* spawnReadyNodes: the first node at once, the others of the wave by timers.
SpawnReadyNodes(k, g, st, running) ==
    LET ready   == SM(g)!InNodeOrder({n \in Node : st[n] = "ready" /\ ~Queued(k, g, n)})
        room    == MaxConcurrency - running
        toSpawn == SubSeq(ready, 1, IF room < Len(ready) THEN room ELSE Len(ready))
        later   == {toSpawn[i] : i \in 2 .. Len(toSpawn)}
    IN  IF toSpawn = <<>> THEN k
        ELSE [SpawnNode(k, g, Head(toSpawn)) EXCEPT
                !.stagger[g] = [n \in Node |-> IF n \in later THEN @[n] + 1 ELSE @[n]]]

\* run: the graph is created and its roots are started.
Run(g) ==
    LET st == [n \in Node |-> IF Deps[g][n] = {} THEN "ready" ELSE "pending"]
    IN  /\ phase[g] = "absent"
        /\ phase' = [phase EXCEPT ![g] = "open"]
        /\ status' = [status EXCEPT ![g] = st]
        /\ retries' = [retries EXCEPT ![g] = Retries[g]]
        /\ graphTimer' = graphTimer \union {g}
        /\ c' = SpawnReadyNodes(c, g, st, 0)
        /\ UNCHANGED <<runIdToNode, live, untracked, runningCount, retryTimers, history>>

\* A stagger timer looks at the node again, not at the limit.
StaggerTimer(g, n) ==
    LET k == [c EXCEPT !.stagger[g][n] = @ - 1]
    IN  /\ c.stagger[g][n] > 0
        /\ c' = IF phase[g] # "done" /\ status[g][n] = "ready" THEN SpawnNode(k, g, n) ELSE k
        /\ UNCHANGED <<phase, status, retries, runIdToNode, live, untracked, runningCount,
                       timers, history>>

\* The retry timer of markNodeFailed: the spawn pass joins the tail.
RetryTimer(g, n) ==
    /\ retryTimers[g][n] > 0
    /\ retryTimers' = [retryTimers EXCEPT ![g][n] = @ - 1]
    /\ c' = IF ~Terminal(g) /\ status[g][n] = "ready"
            THEN Append1(c, g, Job("ready", 1, "-")) ELSE c
    /\ UNCHANGED <<phase, status, retries, runIdToNode, live, untracked, runningCount,
                   graphTimer, history>>

\* The graph timeout joins the tail like every other transition.
GraphTimeout(g) ==
    /\ g \in graphTimer
    /\ Fault
    /\ graphTimer' = graphTimer \ {g}
    /\ c' = Append1(c, g, Job("expire", 0, "-"))
    /\ UNCHANGED <<phase, status, retries, runIdToNode, live, untracked, runningCount,
                   retryTimers, inits, turns>>

-----------------------------------------------------------------------------
(* The jobs of a tail.                                                     *)

\* The head of the tail of g is this job; k is the state without it.
Next1(g, op) == c.tail[g] # <<>> /\ Head(c.tail[g]).op = op
Arg(g) == Head(c.tail[g])
Popped(g) == [c EXCEPT !.tail[g] = Tail(@)]

\* After a transition of g: the checkpoint, which completes a graph that has
\* become terminal, then the continuations.
Persist(k, g, st, continuations) ==
    [k EXCEPT !.tail[g] =
        (IF phase[g] = "open" /\ SM(g)!IsTerminal(st) THEN <<Job("finish", 0, "-")>>
                                                      ELSE <<>>) \o continuations \o @]

\* admitRegularNode: reserve the run, or give the slot back if somebody else
\* started the node.
Admit(g) ==
    LET n == Arg(g).n
    IN  /\ Next1(g, "admit")
        /\ IF status[g][n] = "ready"
           THEN /\ status' = [status EXCEPT ![g][n] = "running"]
                /\ runIdToNode' = [runIdToNode EXCEPT ![g] = @ \union {n}]
                /\ runningCount' = [runningCount EXCEPT ![g] = @ + 1]
                /\ c' = Persist(Popped(g), g, status'[g], <<Job("start", n, "-")>>)
           ELSE /\ c' = Persist(ReleaseAndDrainQueue(Popped(g)), g, status[g], <<>>)
                /\ UNCHANGED <<status, runIdToNode, runningCount>>
        /\ UNCHANGED <<phase, retries, live, untracked, timers, history>>

\* The checkpoint is written: start the sub-agent, whatever happened meanwhile.
Start(g) ==
    LET n == Arg(g).n
    IN  /\ Next1(g, "start")
        /\ IF n \in runIdToNode[g]
           THEN live' = [live EXCEPT ![g][n] = @ + 1] /\ UNCHANGED untracked
           ELSE untracked' = [untracked EXCEPT ![g] = @ + 1] /\ UNCHANGED live
        /\ c' = Popped(g)
        /\ UNCHANGED <<phase, status, retries, runIdToNode, runningCount, timers, history>>

\* Mutant: the run stays tracked.
StartRejectedTracked(g) ==
    /\ Next1(g, "start")
    /\ c' = Append1(ReleaseAndDrainQueue(Popped(g)), g, Job("failed", Arg(g).n, "-"))
    /\ Fault
    /\ UNCHANGED <<phase, status, retries, runIdToNode, live, untracked, runningCount, timers,
                   inits, turns>>

\* The runner refuses: the slot and the reservation are taken back.
StartRejected(g) ==
    LET n == Arg(g).n
    IN  /\ Next1(g, "start")
        /\ runIdToNode' = [runIdToNode EXCEPT ![g] = @ \ {n}]
        /\ runningCount' = IF n \in runIdToNode[g] THEN [runningCount EXCEPT ![g] = @ - 1]
                                                   ELSE runningCount
        /\ c' = Append1(ReleaseAndDrainQueue(Popped(g)), g, Job("failed", n, "-"))
        /\ Fault
        /\ UNCHANGED <<phase, status, retries, live, untracked, timers, inits, turns>>

\* The state machine's markNodeFailed, if the node is running.
Retried(g, n, x) == retries[g][n] > 0 /\ x # "dead"
Failed(g, n, x) ==
    LET st == [status[g] EXCEPT ![n] = "failed"]
    IN  IF status[g][n] # "running" THEN status[g]
        ELSE IF Retried(g, n, x) THEN [status[g] EXCEPT ![n] = "ready"]
        ELSE SM(g)!EvaluateBarriers(SM(g)!CascadeFailure(st, n), n)
FailedRetries(g, n, x) ==
    IF status[g][n] = "running" /\ Retried(g, n, x)
    THEN [retries EXCEPT ![g][n] = @ - 1] ELSE retries
Completed(g, n) ==
    IF status[g][n] # "running" THEN status[g]
    ELSE SM(g)!EvaluateBarriers([status[g] EXCEPT ![n] = "completed"], n)
NewlyReady(g, n, st) == {m \in Node \ {n} : st[m] = "ready" /\ status[g][m] = "pending"}

\* handleSubAgentCompleted, for a run that succeeded (or left output), failed,
\* or failed for good.  A failure that makes nodes ready asks for two passes; a
\* spent graph budget replaces the second by the budget transition.  The backoff
\* timer of a retry hands its pass to a transition whose continuations have run,
\* so that it has no effect; the pass below retries the node at once.
SubAgentCompleted(g) ==
    LET n  == Arg(g).n
        x  == Arg(g).x
        st == status'[g]
        ended   == SM(g)!IsTerminal(st)
        cascade == IF x # "ok" /\ NewlyReady(g, n, st) # {} THEN 1 ELSE 0
    IN  /\ Next1(g, "completed")
        /\ IF n \notin runIdToNode[g]
           THEN /\ c' = Persist(Popped(g), g, status[g], <<>>)
                /\ UNCHANGED <<status, retries, runIdToNode, runningCount, faults>>
           ELSE /\ status' = [status EXCEPT ![g] = IF x = "ok" THEN Completed(g, n)
                                                              ELSE Failed(g, n, x)]
                /\ retries' = IF x = "ok" THEN retries ELSE FailedRetries(g, n, x)
                /\ runIdToNode' = [runIdToNode EXCEPT ![g] = @ \ {n}]
                /\ runningCount' = [runningCount EXCEPT ![g] = @ - 1]
                /\ \/ /\ c' = Persist(Popped(g), g, st,
                              IF ended THEN <<>> ELSE <<Job("ready", cascade + 1, "-")>>)
                      /\ UNCHANGED faults
                   \/ /\ g \in Budgeted /\ ~ended
                      /\ c' = Persist(Popped(g), g, st, <<Job("ready", cascade, "overBudget")>>)
                      /\ Fault
        /\ UNCHANGED <<phase, live, untracked, timers, inits, turns>>

\* The continuations of a transition: a spent budget is dealt with in a
\* transition of its own, then the spawn passes run one after the other.
ReadyPass(g) ==
    LET k0 == IF Arg(g).x = "overBudget" THEN Append1(Popped(g), g, Job("expire", 0, "-"))
                                         ELSE Popped(g)
        passes[i \in 0 .. Arg(g).n] ==
            IF i = 0 THEN k0
                     ELSE SpawnReadyNodes(passes[i - 1], g, status[g], runningCount[g])
    IN  /\ Next1(g, "ready")
        /\ c' = passes[Arg(g).n]
        /\ UNCHANGED <<phase, status, retries, runIdToNode, live, untracked, runningCount,
                       timers, history>>

\* markNodeFailed of the coordinator.
NodeFailed(g) ==
    LET n  == Arg(g).n
        st == status'[g]
        k  == Persist(Popped(g), g, st, <<>>)
    IN  /\ Next1(g, "failed")
        /\ status' = [status EXCEPT ![g] = Failed(g, n, "fail")]
        /\ retries' = FailedRetries(g, n, "fail")
        /\ retryTimers' = [retryTimers EXCEPT ![g][n] =
                              IF status[g][n] = "running" /\ st[n] = "ready" THEN @ + 1 ELSE @]
        /\ c' = IF NewlyReady(g, n, st) # {} THEN Append1(k, g, Job("ready", 1, "-")) ELSE k
        /\ UNCHANGED <<phase, runIdToNode, live, untracked, runningCount, graphTimer, history>>

\* handleGraphCompletion: completedAt is set, the timers and the driver maps are
\* cleared; runs those maps still held are nobody's from now on.
Finish(g) ==
    /\ Next1(g, "finish")
    /\ IF ~Terminal(g) \/ phase[g] = "done"
       THEN c' = Popped(g) /\ UNCHANGED <<phase, untracked, timers>>
       ELSE /\ phase' = [phase EXCEPT ![g] = "done"]
            /\ retryTimers' = [retryTimers EXCEPT ![g] = [n \in Node |-> 0]]
            /\ graphTimer' = graphTimer \ {g}
            /\ untracked' = [untracked EXCEPT ![g] = @ + DriverRuns(c, g)]
            /\ c' = NoDriversLeft(Popped(g), g)
    /\ UNCHANGED <<status, retries, runIdToNode, live, runningCount, history>>

-----------------------------------------------------------------------------
(* Killing a graph: cancel, spent budget, graph timeout.                   *)

\* killRun of every tracked regular run.  One that is at work gives its slot
\* back and reports a failure; one that is only reserved does neither.
KillTracked(k, g) ==
    LET killed[i \in 0 .. N] ==
            IF i = 0 THEN k
            ELSE IF i \in runIdToNode[g] /\ live[g][i] > 0
                 THEN Append1(ReleaseAndDrainQueue(killed[i - 1]), g, Job("completed", i, "fail"))
                 ELSE killed[i - 1]
    IN  killed[N]

\* killRun of the runs the driver states know.  Their slots are not given back.
KillDriven(k, g) ==
    [k EXCEPT !.runs[g] = [n \in Node |-> @[n] - k.ds[g][n].known],
              !.ds[g]   = [n \in Node |-> NoDriver]]

\* What was started fails, or waits for the retry it has left, and the state
\* machine's cancel skips what waits.
KilledStatus(g) ==
    [n \in Node |->
        IF status[g][n] \in {"pending", "ready"} THEN "skipped"
        ELSE IF status[g][n] = "running" /\ n \in runIdToNode[g] \union DriverNodes(g)
             THEN IF retries[g][n] > 0 THEN "skipped" ELSE "failed"
        ELSE status[g][n]]

\* Mutant: the count is not reset.
KilledCounted(g) ==
    /\ status' = [status EXCEPT ![g] = KilledStatus(g)]
    /\ runIdToNode' = [runIdToNode EXCEPT ![g] = {}]
    /\ live' = [live EXCEPT ![g] = [n \in Node |-> 0]]
    /\ UNCHANGED <<retries, runningCount>>

Killed(g) ==
    /\ status' = [status EXCEPT ![g] = KilledStatus(g)]
    /\ retries' = [retries EXCEPT ![g] =
          [n \in Node |-> IF /\ n \in runIdToNode[g] \union DriverNodes(g)
                             /\ status[g][n] = "running" /\ @[n] > 0
                          THEN @[n] - 1 ELSE @[n]]]
    /\ runIdToNode' = [runIdToNode EXCEPT ![g] = {}]
    /\ live' = [live EXCEPT ![g] = [n \in Node |-> 0]]
    /\ runningCount' = [runningCount EXCEPT ![g] = 0]

\* handleBudgetExceeded and handleGraphTimeout.  Queued spawns stay queued.
Expire(g) ==
    /\ Next1(g, "expire")
    /\ Killed(g)
    /\ c' = Persist(KillDriven(KillTracked(Popped(g), g), g), g, KilledStatus(g), <<>>)
    /\ UNCHANGED <<phase, untracked, timers, history>>

\* cancelGraphRun does not wait for the tail; only the completion joins it.
Cancel(g) ==
    LET k1 == KillDriven(KillTracked(c, g), g)
        k2 == [k1 EXCEPT !.spawnQueue = Without(@, {g} \X Node)]
    IN  /\ phase[g] = "open" /\ ~Terminal(g)
        /\ Killed(g)
        /\ untracked' = [untracked EXCEPT ![g] = @ + DriverRuns(k1, g)]
        /\ c' = Append1(NoDriversLeft(k2, g), g, Job("finish", 0, "-"))
        /\ Fault
        /\ UNCHANGED <<phase, timers, inits, turns>>

-----------------------------------------------------------------------------
(* Runs that end.                                                          *)

\* A tracked regular run ends or is killed: the slot is given back at once, the
\* node is settled in the tail.  Without a retry left, no failure differs from one
\* for good.
RunEnds(g, n, x) ==
    /\ live[g][n] > 0
    /\ x = "dead" => retries[g][n] > 0
    /\ live' = [live EXCEPT ![g][n] = @ - 1]
    /\ c' = Append1(ReleaseAndDrainQueue(c), g, Job("completed", n, x))
    /\ UNCHANGED <<phase, status, retries, runIdToNode, untracked, runningCount, timers,
                   history>>

\* A run of no map ends; nobody hears of it.
UntrackedEnds(g) ==
    /\ untracked[g] > 0
    /\ untracked' = [untracked EXCEPT ![g] = @ - 1]
    /\ UNCHANGED <<phase, status, retries, runIdToNode, live, runningCount, timers, history, c>>

-----------------------------------------------------------------------------
(* Driver nodes.                                                           *)

\* Actions a driver may ask for at its t-th round (wait, wait_for_input and
\* progress start no run and are left out).
DriverActions(t) ==
    {"complete", "fail"} \union (IF t < MaxTurns THEN {"spawn", "spawn_all"} ELSE {})

\* Mutant: the node runs whatever its status was.
StartDriverUnchecked(g) ==
    LET n  == Arg(g).n
        st == [status[g] EXCEPT ![n] = "running"]
    IN  /\ Next1(g, "driver")
        /\ inits' = [inits EXCEPT ![g][n] = @ + 1]
        /\ status' = [status EXCEPT ![g] = st]
        /\ runningCount' = [runningCount EXCEPT ![g] = @ + 1]
        /\ c' = [Popped(g) EXCEPT !.ds[g][n] = NewDriver(1)]
        /\ UNCHANGED <<phase, retries, runIdToNode, live, untracked, timers, turns, faults>>

\* startDriverNode: a new driver state replaces the old one, and the node counts
\* as running, whether or not it was ready.
StartDriver(g) ==
    LET n  == Arg(g).n
        st == [status[g] EXCEPT ![n] = IF @ = "ready" THEN "running" ELSE @]
    IN  /\ Next1(g, "driver")
        /\ inits' = [inits EXCEPT ![g][n] = @ + 1]
        /\ status' = [status EXCEPT ![g] = st]
        /\ runningCount' = [runningCount EXCEPT ![g] = @ + 1]
        /\ \E a \in DriverActions(turns[g][n]) :
              c' = Persist([Popped(g) EXCEPT !.ds[g][n] = NewDriver(inits[g][n] + 1)],
                           g, st, <<Job("action", n, a)>>)
        /\ UNCHANGED <<phase, retries, runIdToNode, live, untracked, timers, turns, faults>>

\* The driver node has ended with its output; the completion or the spawn pass
\* joins the tail.
Settled(k, g, st) ==
    Append1(k, g, IF SM(g)!IsTerminal(st) THEN Job("finish", 0, "-") ELSE Job("ready", 1, "-"))

NoDriver1(k, g, n) == [k EXCEPT !.ds[g][n] = NoDriver]

\* The driver node n has ended; st is the graph's new status.
DriverLeaves(g, n, st) ==
    /\ status' = [status EXCEPT ![g] = st]
    /\ runningCount' = [runningCount EXCEPT ![g] = @ - 1]
    /\ UNCHANGED turns

\* executeDriverAction in the shared state k.
ExecuteDriverAction(k, g, n, a) ==
    LET ds == k.ds[g][n]
        e(kind) == Entry(g, n, kind, ds.init)
        spawned[i \in 0 .. Fan] ==
            IF i = 0 THEN [k EXCEPT !.ds[g][n] = DriverState(ds.init, "par", 0, ds.crossed)]
                     ELSE GatedSpawn(spawned[i - 1], e("par"))
    IN  \/ /\ a \in {"spawn", "spawn_all"}
           /\ turns' = [turns EXCEPT ![g][n] = @ + 1]
           /\ c' = IF a = "spawn" THEN GatedSpawn(k, e("turn")) ELSE spawned[Fan]
           /\ UNCHANGED <<status, runningCount>>
        \/ /\ a = "complete"
           /\ DriverLeaves(g, n, Completed(g, n))
           /\ c' = Settled(NoDriver1(k, g, n), g, Completed(g, n))
        \/ /\ a = "fail"
           /\ DriverLeaves(g, n, status[g])
           /\ c' = Append1(NoDriver1(k, g, n), g, Job("failed", n, "-"))

\* The first action, once the start is persisted.
DriverAction(g) ==
    LET n == Arg(g).n
    IN  /\ Next1(g, "action")
        /\ IF n \in DriverNodes(g) THEN ExecuteDriverAction(Popped(g), g, n, Arg(g).x)
           ELSE c' = Popped(g) /\ UNCHANGED <<status, runningCount, turns>>
        /\ UNCHANGED <<phase, retries, runIdToNode, live, untracked, timers, inits, faults>>

\* handleDriverTurnCompleted with the slot already given back, for a run of the
\* current round (own) or one of an earlier driver state or round.
DriverTurnCompleted(k, g, n, own) ==
    LET ds   == k.ds[g][n]
        left == IF ds.mode = "par" THEN ds.known - (IF own THEN 1 ELSE 0) ELSE 0
        b    == ds.crossed \/ ~own
        kept == [k EXCEPT !.ds[g][n] = DriverState(ds.init, ds.mode, left, b)]
        over == [k EXCEPT !.ds[g][n] = DriverState(ds.init, "turn", 0, b)]
    IN  \* the round is not over, or the graph has ended
        \/ /\ left > 0 \/ Terminal(g)
           /\ c' = IF left > 0 THEN kept ELSE over
           /\ UNCHANGED <<status, runningCount, turns, faults>>
        \* the driver is asked for its next action
        \/ /\ left = 0 /\ ~Terminal(g)
           /\ \E a \in DriverActions(turns[g][n]) : ExecuteDriverAction(over, g, n, a)
           /\ UNCHANGED faults
        \* the graph's budget is spent
        \/ /\ g \in Budgeted /\ ~Terminal(g)
           /\ DriverLeaves(g, n, status[g])
           /\ c' = Append1(NoDriver1(k, g, n), g, Job("expire", 0, "-"))
           /\ Fault
        \* the run failed: without or with partial output
        \/ /\ DriverLeaves(g, n, status[g])
           /\ c' = Append1(NoDriver1(k, g, n), g, Job("failed", n, "-"))
           /\ UNCHANGED faults
        \/ /\ DriverLeaves(g, n, Completed(g, n))
           /\ c' = Settled(NoDriver1(k, g, n), g, Completed(g, n))
           /\ UNCHANGED faults

\* Mutant: the queue is not drained before the turn is handled.
DriverRunEndsUndrained(g, n, own) ==
    LET k == [c EXCEPT !.runs[g][n] = @ - 1,
                       !.globalActiveSubAgents = IF @ = 0 THEN 0 ELSE @ - 1]
    IN  /\ c.runs[g][n] > 0
        /\ IF own THEN c.ds[g][n].known > 0 ELSE c.runs[g][n] > c.ds[g][n].known
        /\ IF n \in DriverNodes(g) THEN DriverTurnCompleted(k, g, n, own)
           ELSE c' = Drain(k) /\ UNCHANGED <<status, runningCount, turns, faults>>
        /\ UNCHANGED <<phase, retries, runIdToNode, live, untracked, timers, inits>>

\* A run in driverRunIdMap ends.
DriverRunEnds(g, n, own) ==
    LET k == ReleaseAndDrainQueue([c EXCEPT !.runs[g][n] = @ - 1])
    IN  /\ c.runs[g][n] > 0
        /\ IF own THEN c.ds[g][n].known > 0 ELSE c.runs[g][n] > c.ds[g][n].known
        /\ IF n \in DriverNodes(g) THEN DriverTurnCompleted(k, g, n, own)
           ELSE c' = k /\ UNCHANGED <<status, runningCount, turns, faults>>
        /\ UNCHANGED <<phase, retries, runIdToNode, live, untracked, timers, inits>>

\* handleDriverTimeout: the runs of the current round are killed, their slots
\* stay taken, the node fails at once or keeps its partial output.
DriverTimeout(g, n) ==
    LET k == [c EXCEPT !.runs[g][n] = @ - c.ds[g][n].known,
                       !.ds[g][n] = NoDriver,
                       !.spawnQueue = Without(@, {<<g, n>>})]
    IN  /\ n \in DriverNodes(g)
        /\ \/ /\ DriverLeaves(g, n, Failed(g, n, "fail"))
              /\ retries' = FailedRetries(g, n, "fail")
              /\ c' = Settled(k, g, Failed(g, n, "fail"))
           \/ /\ DriverLeaves(g, n, Completed(g, n))
              /\ c' = Settled(k, g, Completed(g, n))
              /\ UNCHANGED retries
        /\ Fault
        /\ UNCHANGED <<phase, runIdToNode, live, untracked, timers, inits>>

-----------------------------------------------------------------------------
(* The specification.                                                      *)

Outcome == {"ok", "fail", "dead"}

TailStep(g) ==
    \/ Admit(g) \/ Start(g) \/ StartRejected(g)
    \/ SubAgentCompleted(g) \/ ReadyPass(g) \/ NodeFailed(g) \/ Finish(g) \/ Expire(g)
    \/ StartDriver(g) \/ DriverAction(g)

RunStep(g, n) ==
    \/ \E x \in Outcome : RunEnds(g, n, x)
    \/ \E own \in BOOLEAN : DriverRunEnds(g, n, own)

Next ==
    \E g \in Graph :
        \/ Run(g) \/ TailStep(g)
        \/ GraphTimeout(g) \/ Cancel(g) \/ UntrackedEnds(g)
        \/ \E n \in Node : \/ RunStep(g, n) \/ StaggerTimer(g, n) \/ RetryTimer(g, n)
                           \/ DriverTimeout(g, n)

Spec == Init /\ [][Next]_vars

\* What graph g has to do by itself, and when it has something to do, which is
\* when Work(g) is enabled.
Work(g) ==
    TailStep(g) \/ \E n \in Node : RunStep(g, n) \/ StaggerTimer(g, n) \/ RetryTimer(g, n)
Busy(g) ==
    \/ c.tail[g] # <<>>
    \/ \E n \in Node : \/ live[g][n] > 0 \/ c.runs[g][n] > 0
                       \/ c.stagger[g][n] > 0 \/ retryTimers[g][n] > 0

\* Weak fairness of each graph's work: the event loop serves the tails and the
\* timers that are due, and sub-agents end; nobody has to submit or cancel a graph
\* and no timeout has to strike.
FairSpec ==
    Spec /\ \A g \in Graph : []<>(~Busy(g)) \/ []<><<Work(g)>>_vars

-----------------------------------------------------------------------------
(* Properties.                                                             *)

Jobs(g, ops, n) ==
    {i \in 1 .. Len(c.tail[g]) : c.tail[g][i].op \in ops /\ c.tail[g][i].n = n}
Sum(f(_, _)) == MapThenSumSet(LAMBDA p : f(p[1], p[2]), Graph \X Node)

\* Sub-agents at work.
AtWork == Sum(LAMBDA g, n : live[g][n] + c.runs[g][n])
          + MapThenSumSet(LAMBDA g : untracked[g], Graph)
\* Slots somebody will give back.
Owed == Sum(LAMBDA g, n : live[g][n] + c.runs[g][n] + Cardinality(Jobs(g, {"admit", "start"}, n)))

\* Every sub-agent at work, also one that nobody tracks any more, holds a slot,
\* and the slots handed out never exceed the global limit.
WithinLimit ==
    AtWork <= c.globalActiveSubAgents /\ c.globalActiveSubAgents <= MaxGlobalSubAgents

\* Behind every entry of runIdToNode there is one run that is about to start, at
\* work, or ended with its completion still to be handled: none is waited for
\* in vain and none is handled twice.
TrackedIsAlive ==
    \A g \in Graph, n \in Node :
        n \in runIdToNode[g] => live[g][n] + Cardinality(Jobs(g, {"start", "completed"}, n)) = 1

\* No driver of g was initialised twice, as it is for a retry, or when a stagger
\* timer and a spawn pass find its node ready one after the other.
StartedOnce(g) == \A n \in Node : inits[g][n] <= 1

\* runningCount, by which a graph limits itself, never misses a tracked run or a
\* driver node, whatever was cancelled, timed out or rejected, and counts nothing
\* else unless a driver was started again.
RunningCountExact ==
    \A g \in Graph :
        LET known == Cardinality(runIdToNode[g]) + Cardinality(DriverNodes(g))
        IN  phase[g] # "done" => /\ runningCount[g] >= known
                                 /\ StartedOnce(g) => runningCount[g] = known

\* A graph whose nodes have all ended stays as it is, whatever late completion,
\* timer, queued spawn or driver start still arrives.
EndedStaysEnded == [][\A g \in Graph : Terminal(g) => status'[g] = status[g]]_vars

\* A parallel round goes on while one of its sub-agents waits for a slot: always
\* after the first start of a driver, and after a later one (a retry, say) unless a
\* run that an earlier start left behind has reported to the driver.
RoundComplete ==
    \A i \in 1 .. Len(c.spawnQueue) :
        LET e  == c.spawnQueue[i]
            ds == c.ds[e.g][e.n]
        IN  /\ e.kind = "par" /\ e.init = ds.init
            /\ e.init = 1 \/ ~ds.crossed
            => ds.mode = "par"

\* All slots are held for runs that were killed or lost: none is given back again.
SlotsLost == c.globalActiveSubAgents = MaxGlobalSubAgents /\ Owed = 0

\* Nothing of g is at work, on its tail, in the queue or timed, although a driver
\* that failed is ready for its retry: the one spawn pass of the retry came while
\* spawns of the failed attempt were queued.
RetryLost(g) ==
    /\ ~Busy(g) /\ runIdToNode[g] = {} /\ DriverNodes(g) = {}
    /\ \A i \in 1 .. Len(c.spawnQueue) : c.spawnQueue[i].g # g
    /\ \E n \in Node : /\ <<g, n>> \in Driver /\ status[g][n] = "ready"
                       /\ retries[g][n] < Retries[g][n]

\* Every graph ends, whatever fails, is retried, refused, killed or timed out, save
\* for two ways to get stuck: no slot is left, or a driver's retry was lost.
GraphsEnd ==
    \A g \in Graph : phase[g] = "open" ~> phase[g] = "done" \/ SlotsLost \/ RetryLost(g)

\* A spent budget or a timeout cancels every running node of the graph, except
\* one whose failure is still to be handled.
ExpiryEndsNodes ==
    [][\A g \in Graph : Expire(g) =>
          \A n \in Node : status'[g][n] = "running" => Jobs(g, {"failed"}, n)' # {}]_vars
=============================================================================
