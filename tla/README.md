# Comis: TLA+ models of the daemon's concurrent and durable core

Comis is a daemon that runs AI agents for a user over chat channels. Agents call
tools, spawn sub-agents, run dependency graphs of sub-agents, execute
orchestration scripts, and send messages back through the channels. Most of the
code transforms data or talks to a model provider. The part that can go wrong in
ways a test hardly reaches is the part that survives crashes and runs things
concurrently: messages that must go out at most once, runs that must be resumed
exactly where they should be and nowhere else, graphs whose nodes start, fail,
retry and are skipped in every order and share a pool of sub-agents, approvals
that must mean what a human decided, and a queue that must keep conversations
serial and lose nothing. This project models that part.

Contents: [inventory](#1-inventory), [modules](#2-modules-and-the-code),
[runs](#3-what-the-runs-check), [fairness](#4-fairness),
[proofs](#5-what-is-proved), [findings](#6-findings),
[not modelled](#7-what-is-not-modelled), [plan](#8-plan).

`PROJECT.json` maps every definition to its source lines and lists the runs,
mutants, hazards, findings and theorems. Paths below are relative to
`src/packages/`.

## 1. Inventory

For each component: its state, its operations, whom it interacts with, what is
hard about it, and what makes it correct.

**Outward-send ledger** (`memory/src/outward-send-ledger-store.ts`,
`daemon/src/api/outward-ledger-wrap.ts`,
`daemon/src/wiring/setup-background-completion-runner.ts`,
`orchestrator/src/cross-session/announcement-*.ts`). State: five SQLite tables
(operations and their step index, the root's sequence, ledger rows, operator
decisions, no-reply decisions). Operations: allocate a step, look a row up, begin,
mark unknown, commit, mark failed, reclaim, park, record a decision, list what is
in flight. Five kinds of callers use them concurrently: plain sends, background
completions, the reconciliation of a completion, announcements, and the drain of
dead letters; the recovery pass and an operator join in. Hard: each method is a
transaction, but a send is six of them with a platform call in between, and the
process can die after any of them. Correct when no operation enters the platform
twice, when a committed row is the truth, and when what a caller is told is true.

**Execution graph** (`core/src/domain/execution-graph.ts`,
`daemon/src/graph/graph-state-machine.ts`). State: a status, remaining retries and
a barrier mode per node. Operations: validate and sort, mark running, completed or
failed, cancel, restore. Its caller is the graph coordinator. Hard: the failure
cascade over shared descendants, barriers over mixed results, retries, restarts.
Correct when validation accepts exactly the acyclic graphs, when a node starts only
past its barrier, is skipped only when hopeless, and every graph ends.

**Durable runs** (`memory/src/durable-run-store.ts`,
`daemon/src/autonomy/durable-resume-engine.ts`, `durable-watchdog.ts`,
`daemon/src/wiring/setup-durable-resume.ts`, `daemon/src/graph/graph-resume.ts`,
`daemon/src/api/shared/spawn-tree-control.ts`,
`skills/src/tools/builtin/orchestrate/orchestrate-durable.ts`). State: checkpoint
rows with a status and a heartbeat, the root's tombstone, the in-memory count of
claims without progress, leases. Operations: checkpoint, heartbeat, claim,
terminalise, orphan, revoke; a recovery pass at boot and on a timer; explicit
resume of a script; kill of a tree. Hard: a live run and a crashed one differ only
in a heartbeat; three parties claim the same row; a kill lands while a resume waits
for a file. Correct when a run has one running row and one execution, when a killed
tree stays dead, and when no row stays running for a run nobody executes.

**Graph coordinator** (`daemon/src/graph/graph-coordinator.ts`,
`graph-concurrency.ts`, `graph-node-lifecycle.ts`, `graph-driver-handler.ts`,
`graph-completion.ts`, `graph-cancellation.ts`, `graph-durable-transitions.ts`).
State: per graph the maps of tracked runs, the driver states, a running count, and
retry, stagger, node and graph timers; for all graphs the number of sub-agent slots
taken and the queue of spawns that wait for one. It drives the state machine, and a
graph with durable authority runs its transitions one after the other with a
checkpoint after each. Hard: a slot is claimed before an awaited checkpoint; a
failed node is ready before its backoff is over; timers recheck only part of what
they read; cancels and kills do not wait for the transitions. Correct when the limit
holds, every tracked run is alive, counts are exact, nothing changes a graph that
has ended, and every graph completes.

**Bounded autonomy and leases** (`daemon/src/autonomy/`,
`infra/src/credential-broker/`). State: per root run a budget meter, a rate window,
an outward quota, a semaphore, a denial breaker, and the capability leases minted
for it. Correct when a resumed or sibling run cannot enlarge the root's budget and
a revoked lease grants nothing.

**Approval gate** (`core/src/approval/approval-gate.ts`, with
`daemon/src/wiring/setup-shutdown.ts`, `setup-approvals.ts`,
`orchestrator/src/inbound/inbound-gate.ts` and `daemon/src/api/approval-handlers.ts`).
State: pending prompts and their timers, the index by short id, the followers that
share a prompt, an approval and a denial cache, and two files that carry prompts and
approvals over a restart. Hard: the timeout against the operator's answer, several
callers on one prompt, decisions that displace each other in two caches, files written
before the last decision. Correct when nobody waits for a prompt that is gone, when
the operator is not asked twice, and when an approval always stands for the last
human decision.

**Command queue** (`orchestrator/src/queue/`). State: a lane for each principal of a
conversation, one serial queue per conversation, a global gate, pending lists, depth
counters, debounce timers, and the resources held for each message. Hard: overflow,
coalescing, idle cleanup and shutdown adjust the same state from different places.
Correct when a conversation runs one handler at a time, a lane keeps its order, the
depth is what the lane owes, and every accepted message gets a terminal.

**Delivery queue** (`memory/src/delivery-queue-adapter.ts`). State: rows pending, in
flight, delivered, failed, expired. Hard: rows in flight at a crash.

**Background tasks** (`agent/src/background/`). State: tasks with a dispatch state
and a persisted outbox. Hard: a completion arrives while its turn is still running.

**Scheduler** (`scheduler/src/`). Cron jobs, heartbeat wakes, tasks. Hard: missed
ticks, overlapping runs.

**Sub-agent runner** (`agent/src/spawn/`), **cross-session announcements**
(`orchestrator/src/cross-session/`): producers of durable runs and of outward
operations.

**Without protocol state of their own**: agent executor and context engine, memory
and retrieval, channels, gateway, skills and tools, core configuration and events,
observability, web console and CLI, shared utilities and the service SDK.

How they meet: the command queue hands messages to agents, whose tools ask the
approval gate; the coordinator calls the graph state machine and checkpoints into
the durable store; sub-agents, graphs and scripts each keep a durable row; the
recovery pass first parks ledger rows in flight and then claims durable rows, and
gives a run up whose root has an uncertain outward send; a kill goes through the
coordinator, the runner, the leases and the store in this order.

## 2. Modules and the code

| Module | Models | Lines of code it stands for |
|---|---|---|
| `OutwardLedger` | the ledger store, its five kinds of callers, the recovery of rows in flight, terminal decisions, restarts, the platform | store, wrap, background runner, announcement sender, drain, engine |
| `OutwardOperation` | what the ledger promises about one operation (abstract) | - |
| `OutwardLedgerProofs`, `OutwardLedgerTruth` | proofs about `OutwardLedger` | - |
| `ExecutionGraph` | `topologicalSort`, with reachability as reference | `execution-graph.ts` |
| `GraphStateMachine` | the graph's node states, barriers, cascade, restore; extends `ExecutionGraph` | `graph-state-machine.ts` |
| `GraphStateMachineProofs` | proofs about `GraphStateMachine` | - |
| `DurableRun` | checkpoints, heartbeats, recovery, the resume arms, kill | the durable-run files above |
| `DurableRunProofs` | proofs about `DurableRun` | - |
| `ApprovalGate` | the gate, the callers that wait on it, its restart files, stop, crash and boot | `approval-gate.ts`, the shutdown and boot wiring, the answering handlers |
| `ApprovalGateProofs` | proofs about `ApprovalGate` | - |
| `CommandQueue` | lanes, session queues, the global gate, modes, overflow, cleanup, shutdown | `orchestrator/src/queue/` |
| `CommandQueueProofs` | proofs about `CommandQueue` | - |
| `InductionLemmas` | induction, sums and recursive functions on the naturals, for the proofs | - |
| `GraphCoordinator` | several graphs over one slot pool; instantiates `GraphStateMachine` for each graph | the coordinator files above |
| `GraphCoordinatorProofs` | proofs about `GraphCoordinator` | - |
| `MCOutwardLedger`, `MCGraphStateMachine`, `MCDurableRun`, `MCApprovalGate`, `MCCommandQueue`, `MCGraphCoordinator` | instances for TLC | - |

Definitions under a comment "Mutant:" are variations of the definition
that follows them. They show that a property would notice that bug and are used
nowhere else.

### OutwardLedger

One variable per table: `stepOf` (operations), `lastStep` (sequence), `ledger`
(rows), `operator` and `noReply` (decisions). `att` holds the sender invocations
alive in the process, each with a control point `pc` between two awaits; `batch` is
what a recovery pass has still to park; `wire`, `accepted` and `calls` are the
platform. One action per store call, in the order the callers make them. A call can
always fail without changing the store. The platform accepts a message in a step of
its own: before its answer, after the caller gave up, or after a restart. `Restart`
empties the process state and leaves store and platform.

The five callers differ in a few guards only, so they share the actions and carry a
`mode`: an announcement asks for the terminal decision first; a background delivery
claims the task before it looks up, reclaims a row that was never marked, and
inspects the row to classify a failure; a reconciliation never sends; a drain starts
with a retained step; announcement and drain park on every error after `begin`,
`wrapOutwardSend` after the platform call only.

Abstractions: one root run (no statement relates two roots except the scan, which
treats rows alike). Content digests and operation fingerprints are an element of
`Payload`: two sends are the same operation when they have the same identity and
content. Events, logging, attachment preparation and field validation are left out;
their failure is one of the store failures an action may take.

### ExecutionGraph and GraphStateMachine

A node is its position in the submitted list, the order in which the code visits
nodes and dependents. The state machine has no await, so every method, cascade
included, is one step; the queue loops of the sort and of the cascade are recursive
functions over rounds, with a bound on the rounds given beside each. The initial
states are all dependency relations on `N` nodes. Duplicate ids and unknown
references are rejected by the code before the sort and cannot be expressed here.
Barrier modes agree on nodes with fewer than two dependencies, so only fan-in nodes
choose one. All nodes of a graph get the same number of retries.

### DurableRun

A checkpoint is a pair of a run and a generation: the runner's row and the
replacements of later claims. `row` and `revoked` are the store; `live`, `ending`,
`producer`, `lease` and `reanchor` are the process; `boot`, `todo` and `at` are the
recovery pass. Actions: submit, heartbeat, the lapse of a heartbeat, the ends of a
run and their terminal writes, explicit resume, boot and watchdog scans, the claim of
one candidate, each resume arm, kill and restart.

- Time is whether a heartbeat is within the threshold. A live sub-agent or script
  beats every 30 s against a threshold of 120 s, so its heartbeat does not lapse; a
  graph beats at node boundaries only, so its heartbeat can.
- The store is synchronous SQLite and a pass awaits nothing else between re-reading a
  row and calling `resumeRun`, so that is one step. The arms of `resumeRun` wait for
  files, so anything can happen between `Recover` and their end.
- Boot recovery is awaited before the daemon dispatches requests (`daemon.ts`), hence
  the guard `boot = "done"` of submit, kill and explicit resume.
- A caller learns a script's run id when the script ends, so it can name only a run
  that is not at work.
- A resumed graph whose announcement is owned elsewhere is only completed. The
  dead-letter queue's own records are not modelled: that it owns the announcement is a
  free choice in `ResumeGraph`; that a graph at work in this process owns it is
  `producer`.
- The tombstone write of a kill may fail. The orphan write is taken to succeed.
- Left out: the root's budget floor, the attenuation of capabilities and the principal
  checks of a claim, each of which only refuses more claims.

### ApprovalGate

A `Key` is an approval identity: tenant, agent, conversation, principal, tool, action
and parameter digest. Every method of the gate runs without an await, so each is one
action; `Resolve` is `resolveApproval` on a set of prompts, because the handlers of
"/approve all" loop over them without yielding. `caller` is what each tool execution
waits for or was told. The process is up, stopping (after `dispose()`, while channels
still deliver answers and tools still ask) or down; `Shutdown` writes the two files,
each of which may fail, and `Exit` is also a crash, which writes nothing. `Boot` reads
and deletes both before anything asks. The clock is a counter of ticks, timers fire at
their deadline or later. The history variables `ruling` and `late` record the last
human decision on each identity and the identities decided after `dispose()`.

Abstractions: whether the operator's policy says auto, deny or require, and whether
a request is well-formed, is the input `mode`; who may answer a prompt is checked by
the handlers and not modelled; a wave of requests is a sequence of them.

### CommandQueue

A step is a stretch of code between two awaits. Messages are numbered by arrival; an
entry is a set of messages with the count the code keeps. A session queue is its
waiting tasks, the running task and where that is: at the global gate, in its handler
(`exec`), past it (`ended`, the gate's promise not settled) or leaving. p-queue is
modelled from its use: a free queue starts a task in the step that adds it, and a
settled promise starts the next one in a step of its own. A queue no lane refers to
stands for a new one. The modes, overflow policy and gate width are chosen initially.
`Finish` is the end of a handler, by itself or after an abort; what it does is not
modelled. `ShutdownBegin` is `performShutdown` up to its first await, and handlers
may end before or after `ShutdownEnd`.

### GraphCoordinator

`SM(g)` is `GraphStateMachine` instantiated for graph `g`; its barrier, cascade and
terminal operators are the ones the coordinator's transitions use. The tail of promises
of a graph is a sequence of jobs, each a stretch of code without an await: reserve a run,
start it, handle a completion, spawn what is ready, fail a node, expire, finish. The
checkpoint between a transition and its continuations is the point between two jobs.
Cancels, completions and timers come between any two jobs. The shared slots, the spawn
queue and what a drain touches are one record `c`, so that the operators of a drain,
which starts several spawns in one step, can take and return it. A driver is the choice
of its next action; a round is one sub-agent or `Fan` parallel ones.

`live` counts tracked regular runs at work, `c.runs` those of drivers, `untracked` those
that no map knows any more: the code launches or leaves such runs (see the hazards), and
they hold their slots. The model has these leaks as the code does.

Retries (0 to 3 for each node, drivers included, as the schema has it):

- A regular run that failed is settled by `handleSubAgentCompleted`. Its node is ready at
  once and the pass of the same transition starts it again. The backoff timer armed there
  asks `afterPersistence` for another pass, which puts it on the continuations of a
  transition that has finished, where nobody runs it; the model has no such timer.
- A failure settled by `markNodeFailed` (a refused start, a driver that failed) arms a timer
  (`retryTimers`), whose pass joins the tail as a transition of its own (`RetryTimer`).
- A driver that timed out is settled at once, with a pass on the tail.
- A retried driver gets a new driver state. Runs and queued spawns of the failed attempt
  survive, and a run that ends is handed to whatever state its node has: an entry remembers
  the `initialize()` it stems from (`init`), so that the model tells a state's own runs
  (`known`) from the others, and `crossed` records that one of the others has reported.

Left out: the driver actions `wait`, `wait_for_input` and `progress`, which start no run;
checkpoints that fail (where a refused reservation would release its slot twice,
`graph-coordinator.ts:364-375`); spawn functions that throw, among them the
`pendingParallel!.set` of an entry whose round a stale run has closed: its sub-agent is
started without being known to the driver and the drain is aborted; driver runs killed from
outside, which `notifyNodeFailed` ignores (`graph-coordinator.ts:926-927`); a missing
registry, unknown node types, invalid `typeConfig` and a `spawn_all` of a driver without
`onParallelTurnComplete`, which fail the node before it starts; the microtask between a
turn and the next action; shutdown, resume and the sweep of old graphs; node
budgets (a breach is a failure for good); a graph without durable authority, whose
transitions run at once. The prewarmed case, in which all nodes of a wave start
without stagger timers, is the case of timers that fire at once.

## 3. What the runs check

| Run | Instance | Shows |
|---|---|---|
| `ledger_announce` | one announcement, 2 contents, 3 concurrent senders or drains, 1 restart (461 k states) | `AtMostOneCall`, `CommittedIsAccepted`, `DecisionsAgree` |
| `ledger_background` | one background completion and one plain send, 2 at a time, batch of one, 1 restart (928 k) | `TypeOK`, `ResultTruthful`, `StepsDistinct`, `RetryableNeverSent`, that the ledger implements `OutwardOperation`, and `InFlightSettles`: a row in flight is settled although its sender died and a pass takes fewer rows than there are |
| `graph_barriers` | all 65536 relations on 4 nodes, both policies, all barriers, 1 retry, 1 restart (5.3 M) | `TypeOK`, `StartedMeetsBarrier`, `SkippedIsHopeless`, `StallsOnlyInModes`, `ValidationExact` |
| `graph_stall` | 3 nodes, `continue` | violation, see findings |
| `graph_majority` | 3 nodes, `continue` | violation, see findings |
| `durable` | a script with 2 launches, or a sub-agent and a graph of one tree with 2 claims, 1 restart (53 k) | `TypeOK`, `OneRunningRow`, `OneExecution`, `RevokedIsDead`, `LiveIsRecoverable`, `NoGhost` |
| `durable_graph` | one graph | violation, see findings |
| `approval` | 2 callers, 2 identities of a conversation, 2 prompts, 3 ticks, 1 restart (653 k) | `TypeOK`, `OnePromptPerIdentity`, `WaiterHasPrompt`, `NoPromptWhileDecided`, `DenialAlwaysWins`, `ApprovalTraceable`, `AnsweredByOwnPrompt`, `RequestsAnswered` |
| `queue` | 4 messages on 3 lanes of 2 conversations, all modes and policies, gate of 1 or 2, depth limit 2 (704 k) | `OneHandlerPerSession`, `DepthExact`, `LaneOrder`, `ResourcesFollowEntry`, `ShutdownSettlesAll`, `MessagesSettle` |
| `queue_steer` | 5 messages on one lane in steer mode | violation, see findings |
| `coordinator` | 2 graphs of 2 nodes, one with a driver, 1 slot, 1 retry of each node of the driver's graph, 2 rounds of up to 3, 1 fault (429 k) | `WithinLimit`, `TrackedIsAlive`, `RunningCountExact`, `RoundComplete`, `EndedStaysEnded`, `GraphsEnd` |
| `coordinator_budget` | the same graphs, the driver's with a budget | violation, see findings |

Why the bounds are enough to be interesting:

- Three senders of one operation give two that race and one that finds what they
  left; two contents let an identity be reused with another content; one restart puts
  a crash between any two writes and lets everything after it happen. Two operations
  are needed only for step allocation, batches and the refinement.
- Four nodes are the least with a diamond (two paths to a shared descendant) and a
  node beside it. Every relation is tried, cycles included.
- One retry is enough in `graph_barriers`: a retry only returns a node to ready, where its
  dependencies have ended already, so it adds nothing to what barriers see.
- In `durable` a script is alone (its launches, re-anchoring claims and explicit resumes are
  what the no-progress count is about), and a sub-agent and a graph share a tree, where two
  claims allow a claim of a claim or one claim each. The constraint `Scenarios` says so; it
  stops the exploration at states outside, so it cuts behaviours short and adds none. For
  the script the generations are more than launches, claims and restarts can use (a larger
  bound has the same states), so `NoGhost` does not hold because a bound was reached.
- Two callers of one identity share a prompt, and two identities of one conversation are
  what "all" and a clear take together. A prompt lives two ticks of three, so it can
  expire before, during or after the restart, and a cached decision can outlive a prompt
  or expire under it.
- Four messages with a depth limit of two fill a pending list past its limit while a
  handler runs. Two principals in one conversation and a third elsewhere give the
  session queue and the gate something to order.
- One slot for two graphs makes every spawn compete. One fault (a cancel, a timeout, a
  spent budget or a refused start) can strike at any point, and all that follows it
  is explored. With a fan-out of three, one run of a round fails while another is at work
  or waits and a third is queued behind it, so that the retry meets what the failed attempt
  left. The policy is `fail-fast` with the barrier `all`, where no node stalls
  (`StallsOnlyInModes`), so that `GraphsEnd` is about the coordinator.
- `TypeOK` in the models is not only about types: it says that verdicts are the
  ones callers handle, that retries never go below zero, and that the no-progress count
  stays within its cap.

Deadlock is checked for the ledger. The graph models stop when their graphs have ended,
and the others when their bounds are used up, so those say `CHECK_DEADLOCK FALSE`.

## 4. Fairness

Liveness is checked under these assumptions only.

- `OutwardLedger!FairSpec`: the watchdog's interval keeps firing while the daemon is
  up, so a scan that is possible happens (WF); a pass has a time budget and ends, so a
  batch proceeds or is given up (WF); the store does not fail for ever, so among
  infinitely many passes that could park some row, one does (SF). Nothing is assumed of
  senders: one may wait for its platform for ever.
- `DurableRun!FairSpec`: boot recovery runs and the watchdog ticks (WF), a resume attempt
  ends (WF), a heartbeat nobody refreshes lapses (WF), and the candidate row of every run
  is looked at some time although passes can be cut short (SF). Both are stated for each
  run, which has at most one running row. Nothing is assumed of runners or callers.
- `ApprovalGate!FairSpec`: time passes, the timer of some prompt that is due fires, and a
  process that went down is booted (WF). Nothing is assumed of operators.
- `CommandQueue!FairSpec`: a handler ends, since a turn has a deadline, and settled promises
  are run (WF on each queue). Neither timers nor the sweep are needed.
- `GraphCoordinator!FairSpec`: weak fairness of the work of each graph, which is one action:
  the event loop serves its tail, a sub-agent of it ends, since runs have a timeout, or a
  retry or stagger timer that is due fires. It is written out (infinitely often nothing to
  do, or infinitely often a step of it) with the condition `Busy` for ENABLED, which spares
  TLC most of the cost. No submission, cancel, graph timeout or node timeout has to happen.
  `GraphsEnd` allows two excuses, both what the code does: `SlotsLost`, no slot is free and
  nobody will give one back; and `RetryLost`, a failed driver is ready and nothing of its
  graph is at work, queued or timed (see the observations below).

## 5. What is proved

TLAPS proves the following for every value of the constants that meets the modules'
assumptions (disjoint kinds of operations or runs, natural bounds, a non-empty set of
contents, null values outside the sets they extend).

**`OutwardLedgerProofs`**: `TypeCorrect`, `AtMostOnce` (`Spec => []AtMostOneCall`),
`DistinctSteps` (`Spec => []StepsDistinct`).

`AtMostOneCall` speaks of a counter that only `DoSend` raises, so one has to know that
a sender about to call is the first. That follows from its row, and that it is the
right row follows from the step it holds. `IndInv` has these parts: `SendersNamed` (a
sender past `allocateStep` holds its operation's step), `SequenceAhead` (the sequence
is not behind any step in use, so the maximum over three tables yields a free one),
`StepsDistinct`, and `OneCaller` (a sender about to call has a marked row and no
earlier call, it is the only such sender of its operation, and an operation that was
called has a marked row). The crux is that a marked row never becomes unmarked:
`begin` inserts where there is none, reclaim deletes only rows that were begun and not
marked, and every update is a compare-and-set forward. So `markUnknown` succeeds at
most once per operation.

**`OutwardLedgerTruth`**: `ReceiptsTrue` (`CommittedIsAccepted`), `AnswersTrue`
(`ResultTruthful`), `DecisionsConsistent` (`DecisionsAgree`), the action property
`RetriesSafe` (`RetryableNeverSent`), and `Implementation` (`ImplementsOperation`): the
ledger implements `OutwardOperation`, for every operation.

All rest on `IndInv /\ Truth`. `Truth` ties the three parties together. `SenderTrue`: what
the stage of a sender and the result it returned stand for at the platform. `OneSending`:
at most one sender of an operation is between `markUnknown` and the verdict; without it a
late verdict could land on somebody else's row. `RowTrue`: what a row claims.
`MessagesTraced`: every message stems from the one call of its operation and carries the
row's content. `DecisionHolds`: a decided operation is not in flight. The delicate case is a
reclaim, which deletes a row and lets it be begun again: the content of a background
completion is fixed, and nobody else reclaims (`ContentFixed`). The refinement then needs
no further state: each step of the ledger is shown to be a step of the abstract operation
or to leave its variables alone, in a lemma for each action.

**`DurableRunProofs`**: `TypeCorrect`, `SingleRunningRow` (`Spec => []OneRunningRow`),
`KilledStaysDead` (`Spec => []RevokedIsDead`), `AtMostOneExecution` (`OneExecution`),
`LiveKeepsItsRow` (`LiveIsRecoverable`).

`OneRunningRow` is not inductive because an upsert can insert: a script may be at work
without a row, and its last write then creates one. `Anchored` says that a run with any
row has the row of its first checkpoint, and `Recorded` that only the first launch of a
script can lack a row, so the insert happens in an empty table. With these every action
is one of four statements on the table (upsert of a known row, first upsert, retire,
supersede), and a lemma for each says that it preserves the table's invariant.
`RevokedIsDead` is then inductive relative to it: whatever would revive a tombstoned
tree asks the store first. The last two need `Owned`: a sub-agent or script at work has
a fresh heartbeat and is no candidate of a recovery pass, the replacement whose resume is
awaited belongs to nobody else, and an ended execution that has still to write is not alive.

**`ApprovalGateProofs`**: `TypeCorrect`, `OnePrompt`, `IndexExact`, `NoOrphanWaiter`,
`NotAskedTwice`, `CacheTruthful`, and the action properties `EveryApprovalTraceable` and
`OwnPromptAnswers`, for any callers, identities, timeouts, TTLs and number of restarts.

The properties speak of the gate in memory, but what makes them true after a boot is what
was in the files, so the inductive invariant `IInv` speaks of both. `PromptsInv`: request ids
are unique and below the next one, one prompt per identity, in the gate and in the file.
`PhaseInv`: files hold something only between a shutdown and the next boot, and a process
that is down has nothing. `CacheInv`: no entry lives longer than one TTL from now, and the
entry that counts (the gate's while it is up, the file's from `dispose()` to the boot) stands
for the last ruling. `DecidedInv`: no prompt, and none that will be restored, is about an
identity with a decision in force. The crux is that every path that ends or restores a
prompt treats both caches and the followers: `ReachedWaits` and `DeliverTells` say that a
resolution reaches exactly the callers of its prompts, `ResolveInv`, `ShutdownInv`, `BootInv`
and `TickInv` that the four kinds of steps preserve the invariant.

**`CommandQueueProofs`**: `OneHandlerAlways` (`OneHandlerPerSession`), `LanesInOrder`
(`LaneOrder`), `ResourcesFollow` (`ResourcesFollowEntry`), `ShutdownSettles`
(`ShutdownSettlesAll`), `DepthsExact` (`DepthExact`), for any lanes, conversations, queues,
modes and number of messages.

A step of the queue makes several changes one after the other (an overflow drops an entry,
then the message is added, then a queue starts), so the parts of `IndInv` are stated of tables
`ls` and `qs` that a lemma can pass through the intermediate states. `Placed`: lanes of a
conversation share their queue, a queue works for the lanes that refer to it, no message is
in two places, and the places of a lane that does not steer are in order (handler, gate,
queue, pending list). `AtGate`: who waits at the gate. `Phased`: what a shutdown has left.
`Located`: a message without a terminal is in some place. `Resources`: who owns what.
`OneHandlerPerSession` follows because a queue that a lane drops is idle, so the queue the
next message creates has nothing beside it.

`DepthsExact` adds `Depths` to it: a lane's depth is the sum of the counts of its tasks, started
or waiting, plus the length of its pending list, whose entries count one each. In this form
every step changes one term: a task comes (`AddsBalanced`), one ends (`LosesBalanced`), pending
entries become a task that counts as many (`CoalescedBalanced`), or an overflow shortens the
list by what it reports as dropped (`OverflowCounts`). That no message is in two places is what
lets a new entry add its count to a sum over a set. The sum is that of the community module's fold,
which `CountSumIs` identifies with `Total` of `InductionLemmas`.

**`GraphStateMachineProofs`**: `TypesHold` (`TypeOK`), `BarriersHeld` (`StartedMeetsBarrier`),
`SkipsHopeless` (`SkippedIsHopeless`), `StallsConfined` (`StallsOnlyInModes`) and the action
property `ValidationHolds` (`ValidationExact`), for every graph, every assignment of barrier
modes, both policies and any number of restarts.

`IndInv` says that nodes that were started meet their barriers (`Fit`), that skipped ones are
hopeless (`AllHopeless`), and, in a graph without partial barriers under `continue`
(`Modest`), that no waiting node has a lost dependency (`Clean`) and each waits for one that
has not ended (`Flowing`). `Meets` and `Hopeless` are stable while ended nodes stay ended, so
most steps are easy; the cascade is not, because one step runs a loop. `Going` is the
invariant of its rounds: the statuses moved only forward, are still `Fit` and
`AllHopeless`, and the queue is short enough (`Bounded`: its length plus the rounds done is at
most `N` for the failed node and `N` for each node skipped), so that `N * N` rounds empty it
(`QueueEmpties`). `Sweeping` is what makes `Clean` true at the end: every waiting node with a
lost dependency is in the queue. It fails for the partial modes, where a node may be visited,
left alone and never queued again: exactly the stall of `graph_stall`.

`ValidationHolds` compares two loops, the sort of the code and the reachability it is
checked against. `Sorting` is the invariant of the sort's rounds: the nodes whose
dependencies are all sorted are exactly those sorted or queued, each once, the degrees count
the dependencies that are missing, and the list is in order. If the sort is complete, what a
node reaches comes before it at every round of the reachability, so no node reaches itself
(`SortedAcyclic`). If it stops early, every node left has a dependency that is left too; a
walk along those visits some node twice within `N` steps, so the graph has a cycle
(`AcyclicGrounded`).

**`GraphCoordinatorProofs`**: `Invariance`, `TrackedAlive` (`TrackedIsAlive`), `CountsExact`
(`RunningCountExact`), the action property `EndedForGood` (`EndedStaysEnded`),
`SlotsInvariant`, `LimitKept` (`WithinLimit`), `RoundsComplete` (`RoundComplete`) and
`NoIdleSlot` (a spawn waits only while every slot is taken), for any finite number of
graphs, any nodes, slots, fan-out, rounds and faults, any dependencies, any assignment of
drivers, and up to three retries of every node, drivers included. The proofs are about the
model of section 2, with what it leaves out. Two of the statements have limits that
the code imposes: `RunningCountExact` is exact while no driver of the graph was initialised
twice, as a retry does, and otherwise a lower bound; `RoundComplete` holds after the first
start of a driver, and after a later one until a run left by an earlier start reports to it.

What a tracked run is worth cannot be seen at its node alone: the run may be a start or a
completion somewhere in the tail. `Row` therefore relates, for each node, the map, the
sub-agents at work, the status and the number of its jobs in the tail: a tracked node is
running, has no failure to come, and its sub-agents and its `start` and `completed` jobs make
one together; an untracked regular node has nothing at work, and no such job either unless
it has ended. (A kill leaves such jobs behind, and they must find a node that
has ended, since `handleSubAgentCompleted` would otherwise settle a later run of it.)
`Counted` adds that a driver state comes from an `initialize()`, which makes the count exact as
long as no driver is initialised again; `Absent`, that a graph that is not created has only
pending nodes. `WellFormed` types the shared state.

Most of the proof is about the loops a step runs over the shared state (a drain, the kills,
the spawn passes, a parallel round, the cascade). For each a lemma says that it keeps the
state well formed and what it does to the counts: nothing (`Slots`), one job more (`Adds`),
one `completed` job for each killed run (`Kills`), one driver state less (`Redriven`). So a
release that drains the queue may append jobs to the tail of any graph without disturbing a
row. `EndedForGood` follows from the same invariant: a step gives at most one graph a new
status, and one whose nodes have ended the old one (`Gives`).

The last four theorems need a second invariant, `SlotInv`, proved relative to the first.
`WithinLimit` compares a counter with a sum over all graphs and nodes, and a step moves slots
between the counter, the driver runs, the jobs in the tails and the sub-agents at work. So the
invariant is stated as a balance: the `Slack` of the shared state, which is
`globalActiveSubAgents` less what the driver runs and the `admit` and `start` jobs hold, covers
what is at work outside it (`Owing`). It is an inequality because the code leaks: a kill
of driver runs, or the end of a graph, raises the slack for good. That spawns
wait only while no slot is free (`Full`) and that no driver state knows a negative number of
runs (`Knowing`) are parts of it.

`RoundComplete` is about the order of the queue. A parallel round is over when the runs its
driver state knows have ended, which says nothing of its entries still waiting. `RoundOK` gives
the reason it is right all the same: the entries of a round are neighbours in the queue, and as
soon as one of them was served they are at the front (`Lined`). Hence when the last run that has
started ends, the release drains the queue before the turn is handled and starts the next one of
the same round (`ReleaseOwn`), so the count does not fall to zero while an entry waits. The
argument is about the runs the state knows. After the first start these are all the runs of the
node, so nothing else can report (`RoundOK` says so for `i = 1`); after a later start there may be
others, and once one of them has reported (`crossed`) nothing is claimed of that round: the
code would let it close the round.
`Shifts(k, k2, a, X)` is what a lemma for each operator says: the slack grows by at
least `a`, the limit, `Full` and `Knowing` go on to hold, and so do the rounds of all nodes but
those of `X`; shifts compose (`ShiftsShifts`). The actions on a driver then establish the round
of their own node: a turn asked for (`TurnAsked`), a fan-out (`FanOutIs`, whose loop
invariant is `Spread`), the end of a run (`TurnSlots`, `EndingIdle`). The sums of the
property are those of the community module's fold; `AtWorkIs` identifies them with `Total`. They are
sums over finite sets, which is why `CoordinatorAssumption` asks that `Graph` is finite, as it
is in a process.

**`InductionLemmas`**: the library's induction theorems take an operator as a parameter, which
the provers cannot instantiate. Here they are stated with a set instead (`InductiveSet`: a set
of naturals that holds zero and is closed under successor is all of them), which is enough
for loop invariants, for sums over finite sets (`Total`: `TotalGrows` for one element more,
`TotalChanges` for one that changes, `TotalRow` for a row of a table, `TotalAdds`,
`TotalMonotone`) and to show that a recursively defined function
exists and unfolds (`RecursionExists`). `RecursionSolved` and `LoopStays` say so of the
functions the models define, whose body is given as a table of steps: a loop that starts in a
set and whose steps stay in it ends in it.

**Only model-checked**: liveness (`InFlightSettles`, `NoGhost`, `RequestsAnswered`,
`MessagesSettle`, `GraphsEnd`), because fairness and ENABLED are out of the prover's reach.
Every invariant and action property of a passing run is stated by a theorem.

## 6. Findings

Each is a run that TLC shows to be violated.

1. `queue_steer`: in steer mode a steer task that an earlier burst left behind takes a
   message that has just become pending and runs it before an older one that is queued.
   Four messages cannot show it; the proof of `LaneOrder` did, by failing, and TLC then
   found the run with five. The guide says that a lane is strictly in order.
   `LaneOrder` is therefore about the other modes.
2. `graph_stall`: the cascade decides a node at its first visit. Under `continue` a
   best-effort node reached before its last dependency is skipped stays pending for
   ever, and the graph never ends.
3. `durable_graph`: a graph whose nodes take longer than the heartbeat threshold looks
   stale, and its checkpoint is claimed while it is at work. It continues without a
   running row. The reference says a long child never looks stale.
4. `coordinator_budget`: a driver turn that takes the graph over its budget deletes the
   driver's state before the budget handler looks for nodes to fail. The node stays
   running and the graph never completes, not even at its timeout.
5. `graph_majority`: under `continue` a majority node is skipped when exactly half of its
   dependencies failed (`graph-state-machine.ts:310`); the guide says "skipped only if more
   than half the dependencies failed" (`docs/agent-tools/pipelines.mdx:344`). The code is
   consistent with itself, since half completed does not satisfy the barrier either, which is
   why `SkippedIsHopeless` holds.

Observed while modelling, without a run of their own:

- The watchdog's pass also parks the row of a sender that is alive and waiting for the
  platform. Its commit then fails and a delivered message is reported as uncertain; the
  engine's comment speaks of crashed sends.
- Re-anchoring gives a timed-out script a new checkpoint id, so the id its caller holds no
  longer resumes it (`durable-resume-engine.ts:560`).
- Killing a driver's runs and finishing a graph drop run ids whose slots are then never
  released; a cancel between the reservation and the start of a run launches it untracked.
  The comment at `graph-concurrency.ts:86` says release is paired one-to-one with claim.
- A node whose retry backoff has not passed is started early: a regular node by the pass of
  the transition that failed it, its timer being without effect in a durable graph
  (`graph-node-lifecycle.ts:789-795`, `graph-durable-transitions.ts:49-57`), a driver by any
  other pass.
- The retry of a driver can be lost. When one run of a parallel round fails, the entries of
  the round that wait for a slot stay in the queue, and the retry's only pass leaves out a node
  with queued entries (`graph-node-lifecycle.ts:457`). The node stays ready with nothing
  to start it, and the graph open until its timeout, if it has one. `GraphsEnd` names this
  state (`RetryLost`).
- After a driver's retry, a run of the failed attempt that ends is taken for one of the new
  attempt (`graph-driver-handler.ts:181-230`): it fails the node again, or, when no run of the new
  round has started, closes that round while its sub-agents wait. `RoundComplete` exempts the
  drivers to which such a run has reported. The instance of `coordinator` has such runs but one
  round too few to go on after an early close; with three rounds of two (521 k states, checked
  beside the runs, all properties hold) TLC reaches one.
- A stagger timer and a spawn pass that both find a driver node ready start it twice, since
  its start waits in the tail (two independent driver nodes suffice). The guide says that
  `initialize` is called once. `runningCount` is then one too high for the rest of the graph,
  and a sub-agent of the first start can close a parallel round of the second, as after a
  retry. So `RunningCountExact` is exact only for graphs with `StartedOnce`; the
  instance of `coordinator` has no such pair of nodes, and both properties were checked beside
  the runs on instances that have (2 to 4 million states).
- An approval decided between `dispose()` and the end of the process is forgotten, and one
  that was written to the file survives a denial given then.
- The approval cache key contains the parameter digest; `config-yaml.mdx:1722` says that
  parameters are not part of it.
- `maxDepth` applies only in collect and steer mode while a handler executes; the debounce
  timer of a lane never finds anything to do, since the end of the handler has taken it.

## 7. What is not modelled

- Components without protocol state (section 1): data transformation, transport, user
  interfaces.
- In the ledger: the dead-letter file, producer reservations, attachments, text chunks.
- In durable runs: budgets, capability attenuation, principal checks, several roots, the
  removal of files, a failing orphan write.
- Schedule arithmetic and time zones, which are library code.
- In the approval gate: who may answer, policy matching, digests, delivery of the prompt.
- In the queue: what handlers do, statistics, followup triggers, the text of a summary.
- In the coordinator: see section 2.
- Everything the plan has left.

## 8. Plan

In order of importance:

1. Done: `OutwardLedger`, `GraphStateMachine`, `DurableRun`, `ApprovalGate`,
   `CommandQueue`, `GraphCoordinator` with their runs and the theorems above.
2. `GraphCoordinator`: checkpoints that fail, resume, shutdown, and the waiting driver
   actions.
3. `DeliveryQueue` and `BackgroundTask`: claims, crash, dispatch states; the latter
   composes with the background sender of `OutwardLedger`.
4. `BoundedAutonomy`: budget authority across resume and siblings, semaphore, breaker,
   leases; it supplies the budget floor `DurableRun` leaves out.
5. `Scheduler`: overlapping and missed runs.

Theorems planned: the invariants of the modules above, as for those done.
