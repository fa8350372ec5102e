---------------------------- MODULE CommandQueue ----------------------------
(* The inbound command queue (orchestrator/src/queue): principal lanes that    *)
(* share one serial queue per conversation, a global gate, the three queue     *)
(* modes with their overflow policies, idle cleanup and shutdown.              *)
(*                                                                             *)
(* A step is a stretch of code without an await. Messages are numbered in the  *)
(* order of their arrival; an entry is the set of messages that one handler    *)
(* invocation represents. Its handler, async scope and resources are those of  *)
(* the newest of them.                                                         *)
EXTENDS Integers, Sequences, FiniteSetsExt, SequencesExt

CONSTANTS
    Lane,                   \* (session, principal) pairs
    SessionOf,              \* the base session of a lane
    ModesOf, Policies,      \* the queue modes a session may have, the overflow policies
    GateWidths,             \* the values of maxConcurrentSessions
    MaxDepth,               \* overflow.maxDepth
    MaxMsg,                 \* bound: messages
    MaxQueues               \* bound: PQueues created

ASSUME QueueAssumption ==
    /\ MaxDepth \in Nat \ {0} /\ MaxMsg \in Nat /\ MaxQueues \in Nat
    /\ Policies \subseteq {"drop-old", "drop-new", "summarize"}

VARIABLES
    phase,      \* open, closing (performShutdown has begun) or closed
    mode,       \* the mode of each lane, that of its channel
    policy,     \* the overflow policy
    maxConcurrentSessions,  \* width of the global gate
    lanes,      \* the lane records
    queue,      \* the PQueues of the sessions
    gateWait,   \* the queues whose task waits at the global gate
    debounce,   \* the lanes with a debounce timer
    msgs,       \* the lanes of the messages accepted so far
    outcome,    \* the terminal published for each message
    owner       \* who holds the resources of each message

config == <<mode, policy, maxConcurrentSessions>>
vars == <<phase, config, lanes, queue, gateWait, debounce, msgs, outcome, owner>>

Msg == 1 .. MaxMsg
QId == 1 .. MaxQueues
NoQueue == 0
Session == {SessionOf[l] : l \in Lane}
Mode == {"followup", "collect", "steer"}
NoTask == [lane |-> "none"]
Accepted == 1 .. Len(msgs)

\* A task of a session queue: one entry, or a steer task that takes whatever
\* its lane has pending when its turn comes.
EntryTask(l, e) == [lane |-> l, entry |-> e]
SteerTask(l) == [lane |-> l, entry |-> [ids |-> {}, count |-> 0]]
IsSteer(task) == task.entry.ids = {}

Newest(e) == Max(e.ids)
MsgsOf(es) == UNION {e.ids : e \in Range(es)}
CountOf(es) == FoldSeq(LAMBDA e, n : e.count + n, 0, es)

Lanes(s) == {l \in Lane : lanes[l].exists /\ SessionOf[l] = s}
Idle(q) == queue[q].stage = "none" /\ queue[q].waiting = <<>>
HeldIn(qs) == Cardinality({q \in QId : qs[q].stage \in {"exec", "ended"}})
FreshLane(q) == [exists |-> TRUE, q |-> q, pendingEntries |-> <<>>, logicalDepth |-> 0,
                 isExecuting |-> FALSE]
NoLane == [FreshLane(NoQueue) EXCEPT !.exists = FALSE]

\* A PQueue that no lane refers to any more stands for a new one.
Unused(q) == Idle(q) /\ \A l \in Lane : lanes[l].q # q

Init ==
    /\ phase = "open"
    /\ \E f \in [Session -> Mode] :
        /\ \A s \in Session : f[s] \in ModesOf[s]
        /\ mode = [l \in Lane |-> f[SessionOf[l]]]
    /\ policy \in Policies
    /\ (\A l \in Lane : mode[l] = "followup") => policy = "drop-new"  \* it is not used
    /\ maxConcurrentSessions \in GateWidths
    /\ lanes = [l \in Lane |-> NoLane]
    /\ queue = [q \in QId |-> [waiting |-> <<>>, run |-> NoTask, stage |-> "none"]]
    /\ gateWait = <<>>
    /\ debounce = {}
    /\ msgs = <<>>
    /\ outcome = [m \in Msg |-> "none"]
    /\ owner = [m \in Msg |-> "queue"]

-----------------------------------------------------------------------------
(* Terminal outcomes, resources and coalescing *)

\* A source publishes one terminal; a later one is ignored.
Publish(out, S, result) == [m \in Msg |-> IF m \in S /\ out[m] = "none" THEN result ELSE out[m]]

\* releaseQueueEntryResources before the handler has started.
Release(own, S) == [m \in Msg |-> IF m \in S /\ own[m] = "queue" THEN "released" ELSE own[m]]

\* Mutant: the superseded entries keep their resources.
CoalescedKeeps(es, own) == own

\* coalesceQueuedEntries releases every entry but the newest ...
CoalescedOwner(es, own) == Release(own, {Newest(e) : e \in Range(Front(es))})

\* Mutant: the entry that stands for several messages counts as one.
CoalescedAsOne(es) == [ids |-> MsgsOf(es), count |-> 1]

\* ... and the one entry stands for all of them.
Coalesced(es) == [ids |-> MsgsOf(es), count |-> CountOf(es)]

\* applyOverflowPolicyToQueueEntries.
Overflow(es) ==
    IF Len(es) <= MaxDepth THEN es
    ELSE CASE policy = "drop-old" -> SubSeq(es, Len(es) - MaxDepth + 1, Len(es))
           [] policy = "drop-new" -> Front(es)
           [] policy = "summarize" -> <<[ids |-> MsgsOf(es), count |-> 1]>>

Dropped(es) ==
    IF Len(es) <= MaxDepth THEN 0
    ELSE IF policy = "drop-old" THEN Len(es) - MaxDepth
    ELSE IF policy = "drop-new" THEN 1
    ELSE Len(es) - 1

-----------------------------------------------------------------------------
(* Scheduling *)

\* Run an entry through the gate: into the handler if the gate has room.
RunThroughGate(qs, ls, own, q, task) ==
    IF HeldIn(qs) < maxConcurrentSessions
    THEN /\ queue' = [qs EXCEPT ![q].run = task, ![q].stage = "exec"]
         /\ lanes' = [ls EXCEPT ![task.lane].isExecuting = TRUE]
         /\ owner' = [own EXCEPT ![Newest(task.entry)] = "handler"]
         /\ UNCHANGED gateWait
    ELSE /\ queue' = [qs EXCEPT ![q].run = task, ![q].stage = "gate"]
         /\ gateWait' = Append(gateWait, q)
         /\ lanes' = ls
         /\ owner' = own

\* scheduleLaneTask: a PQueue that is free starts the task in the same step.
Schedule(qs, ls, own, q, task) ==
    IF qs[q].stage = "none" /\ qs[q].waiting = <<>>
    THEN RunThroughGate(qs, ls, own, q, task)
    ELSE /\ queue' = [qs EXCEPT ![q].waiting = Append(@, task)]
         /\ lanes' = ls
         /\ owner' = own
         /\ UNCHANGED gateWait

\* getOrCreateLane: the queue of the session, a new one if it has no lane.
QueueForLane(l) ==
    IF lanes[l].exists THEN lanes[l].q
    ELSE IF Lanes(SessionOf[l]) # {} THEN lanes[CHOOSE o \in Lanes(SessionOf[l]) : TRUE].q
    ELSE Min({q \in QId : Unused(q)})

\* A message for a lane that is busy in collect or steer mode joins the pending
\* entries, under the overflow policy; steer also schedules the task that will
\* take them after the abort.
EnqueuePending(l, m, ls) ==
    LET before == Append(ls[l].pendingEntries, [ids |-> {m}, count |-> 1])
        after  == Overflow(before)
        gone   == MsgsOf(before) \ MsgsOf(after)
        freed  == {Newest(e) : e \in Range(before)} \ {Newest(e) : e \in Range(after)}
        depth  == ls[l].logicalDepth + 1 - Dropped(before)
    IN  /\ lanes' = [ls EXCEPT ![l].pendingEntries = after,
                               ![l].logicalDepth = IF depth < 0 THEN 0 ELSE depth]
        /\ owner' = Release(owner, freed)
        /\ outcome' = Publish(outcome, gone, "dropped")
        /\ debounce' = IF mode[l] = "collect" THEN debounce \union {l} ELSE debounce \ {l}
        /\ queue' = IF mode[l] = "steer"
                    THEN [queue EXCEPT ![ls[l].q].waiting = Append(@, SteerTask(l))]
                    ELSE queue
        /\ UNCHANGED gateWait

\* enqueue and submit. A mode the code does not know is treated as followup.
Enqueue(l) ==
    /\ phase = "open"
    /\ Len(msgs) < MaxMsg
    /\ lanes[l].exists \/ Lanes(SessionOf[l]) # {} \/ \E q \in QId : Unused(q)
    /\ LET m  == Len(msgs) + 1
           q  == QueueForLane(l)
           ls == IF lanes[l].exists THEN lanes ELSE [lanes EXCEPT ![l] = FreshLane(q)]
       IN  /\ msgs' = Append(msgs, l)
           /\ IF mode[l] \in {"collect", "steer"} /\ ls[l].isExecuting
              THEN EnqueuePending(l, m, ls)
              ELSE /\ Schedule(queue, [ls EXCEPT ![l].logicalDepth = @ + 1], owner, q,
                               EntryTask(l, [ids |-> {m}, count |-> 1]))
                   /\ UNCHANGED <<outcome, debounce>>
    /\ UNCHANGED <<phase, config>>

\* Mutant: the handler's end does not pick up what was collected meanwhile.
FinishAlone(q) ==
    LET l == queue[q].run.lane
        e == queue[q].run.entry
        d == lanes[l].logicalDepth - e.count
    IN  /\ queue[q].stage = "exec"
        /\ outcome' = Publish(outcome, e.ids, "done")
        /\ lanes' = [lanes EXCEPT ![l].isExecuting = FALSE,
                                  ![l].logicalDepth = IF d < 0 THEN 0 ELSE d]
        /\ queue' = [queue EXCEPT ![q].stage = "ended"]
        /\ UNCHANGED <<phase, config, gateWait, debounce, msgs, owner>>

\* Mutant: the collected messages go to the head of the session queue.
FinishFirst(q) ==
    LET l       == queue[q].run.lane
        e       == queue[q].run.entry
        d       == lanes[l].logicalDepth - e.count
        pending == lanes[l].pendingEntries
        collect == mode[l] = "collect" /\ pending # <<>>
    IN  /\ queue[q].stage = "exec"
        /\ outcome' = Publish(outcome, e.ids, "done")
        /\ lanes' = [lanes EXCEPT ![l].isExecuting = FALSE,
                                  ![l].logicalDepth = IF d < 0 THEN 0 ELSE d,
                                  ![l].pendingEntries = IF collect THEN <<>> ELSE @]
        /\ owner' = IF collect THEN CoalescedOwner(pending, owner) ELSE owner
        /\ queue' = [queue EXCEPT ![q].stage = "ended",
                        ![q].waiting = IF collect
                                       THEN <<EntryTask(l, Coalesced(pending))>> \o @
                                       ELSE @]
        /\ UNCHANGED <<phase, config, gateWait, debounce, msgs>>

\* The handler of the running entry ends, by itself or after an abort, and has
\* published for all the messages of its entry. In collect mode the pending
\* entries become the next task.
Finish(q) ==
    LET l       == queue[q].run.lane
        e       == queue[q].run.entry
        d       == lanes[l].logicalDepth - e.count
        pending == lanes[l].pendingEntries
        collect == mode[l] = "collect" /\ pending # <<>>
    IN  /\ queue[q].stage = "exec"
        /\ outcome' = Publish(outcome, e.ids, "done")
        /\ lanes' = [lanes EXCEPT ![l].isExecuting = FALSE,
                                  ![l].logicalDepth = IF d < 0 THEN 0 ELSE d,
                                  ![l].pendingEntries = IF collect THEN <<>> ELSE @]
        /\ owner' = IF collect THEN CoalescedOwner(pending, owner) ELSE owner
        /\ queue' = [queue EXCEPT ![q].stage = "ended",
                        ![q].waiting = IF collect
                                       THEN Append(@, EntryTask(l, Coalesced(pending)))
                                       ELSE @]
        /\ UNCHANGED <<phase, config, gateWait, debounce, msgs>>

\* The gate's promise settles: its slot goes to the first queue that waits.
GateRelease(q) ==
    LET qs == [queue EXCEPT ![q].stage = "leaving"]
    IN  /\ queue[q].stage = "ended"
        /\ IF gateWait = <<>> \/ phase # "open"
           THEN queue' = qs /\ UNCHANGED <<lanes, gateWait, owner>>
           ELSE LET w    == Head(gateWait)
                    task == queue[w].run
                IN  /\ queue' = [qs EXCEPT ![w].stage = "exec"]
                    /\ gateWait' = Tail(gateWait)
                    /\ lanes' = [lanes EXCEPT ![task.lane].isExecuting = TRUE]
                    /\ owner' = [owner EXCEPT ![Newest(task.entry)] = "handler"]
        /\ UNCHANGED <<phase, config, debounce, msgs, outcome>>

\* The session queue's promise settles: it starts its next task, unless the
\* shutdown paused it. A steer task that finds nothing pending just ends.
SessionNext(q) ==
    /\ queue[q].stage = "leaving"
    /\ IF queue[q].waiting = <<>> \/ phase # "open"
       THEN /\ queue' = [queue EXCEPT ![q].stage = "none", ![q].run = NoTask]
            /\ UNCHANGED <<lanes, gateWait, owner>>
       ELSE LET task == Head(queue[q].waiting)
                qs   == [queue EXCEPT ![q].waiting = Tail(@)]
                es   == lanes[task.lane].pendingEntries
            IN  IF ~IsSteer(task) THEN RunThroughGate(qs, lanes, owner, q, task)
                ELSE IF es = <<>>
                THEN queue' = qs /\ UNCHANGED <<lanes, gateWait, owner>>
                ELSE RunThroughGate(qs, [lanes EXCEPT ![task.lane].pendingEntries = <<>>],
                                    CoalescedOwner(es, owner), q,
                                    EntryTask(task.lane, Coalesced(es)))
    /\ UNCHANGED <<phase, config, debounce, msgs, outcome>>

\* The debounce timer of a lane: it only acts when nothing executes.
DebounceFires(l) ==
    LET es == lanes[l].pendingEntries
    IN  /\ l \in debounce
        /\ debounce' = debounce \ {l}
        /\ IF lanes[l].isExecuting \/ es = <<>>
           THEN UNCHANGED <<lanes, queue, gateWait, owner>>
           ELSE Schedule(queue, [lanes EXCEPT ![l].pendingEntries = <<>>],
                         CoalescedOwner(es, owner), lanes[l].q, EntryTask(l, Coalesced(es)))
        /\ UNCHANGED <<phase, config, msgs, outcome>>

\* Mutant: a lane that is not executing is taken for idle.
IdleLaneNotExecuting(l) ==
    ~lanes[l].isExecuting /\ lanes[l].pendingEntries = <<>>

IdleLane(l) ==
    /\ ~lanes[l].isExecuting
    /\ Idle(lanes[l].q)
    /\ lanes[l].pendingEntries = <<>>

\* The periodic sweep finds a lane idle for longer than cleanupIdleMs. A timer
\* that outlives its lane finds the old lane's list empty.
CleanupSweep(l) ==
    /\ phase = "open"
    /\ lanes[l].exists
    /\ IdleLane(l)
    /\ lanes' = [lanes EXCEPT ![l] = NoLane]
    /\ debounce' = debounce \ {l}
    /\ UNCHANGED <<phase, config, queue, gateWait, msgs, outcome, owner>>

-----------------------------------------------------------------------------
(* performShutdown *)

\* Mutant: only the tasks that wait in a session queue are rejected.
NotStartedWaiting(q) == queue[q].waiting

\* The tasks that have not entered a handler: waiting, or held at the gate.
NotStarted(q) ==
    queue[q].waiting \o (IF queue[q].stage = "gate" THEN <<queue[q].run>> ELSE <<>>)

\* Up to the first await: everything is paused, what has not started and what
\* is pending is rejected, what executes is aborted, and the rejected tasks
\* leave their queues.
ShutdownBegin ==
    LET waiting == UNION {MsgsOf([i \in 1 .. Len(NotStarted(q)) |-> NotStarted(q)[i].entry]) :
                              q \in QId}
        pending == UNION {MsgsOf(lanes[l].pendingEntries) : l \in {k \in Lane : lanes[k].exists}}
        active  == UNION {queue[q].run.entry.ids : q \in {p \in QId : queue[p].stage = "exec"}}
    IN  /\ phase = "open"
        /\ phase' = "closing"
        /\ outcome' = Publish(Publish(outcome, waiting \union pending, "rejected"),
                              active, "aborted")
        /\ owner' = [m \in Msg |->
                IF m \in waiting \union pending \union active THEN "released" ELSE owner[m]]
        /\ lanes' = [l \in Lane |-> [lanes[l] EXCEPT !.pendingEntries = <<>>]]
        /\ queue' = [q \in QId |-> [queue[q] EXCEPT !.waiting = <<>>,
                        !.stage = IF @ = "gate" THEN "none" ELSE @]]
        /\ gateWait' = <<>>
        /\ debounce' = {}
        /\ UNCHANGED <<config, msgs>>

\* After the active handlers ended, or three seconds.
ShutdownEnd ==
    /\ phase = "closing"
    /\ phase' = "closed"
    /\ lanes' = [l \in Lane |-> [lanes[l] EXCEPT !.exists = FALSE, !.logicalDepth = 0,
                                                 !.pendingEntries = <<>>]]
    /\ UNCHANGED <<config, queue, gateWait, debounce, msgs, outcome, owner>>

-----------------------------------------------------------------------------
Next ==
    \/ \E l \in Lane : Enqueue(l) \/ DebounceFires(l) \/ CleanupSweep(l)
    \/ \E q \in QId : Finish(q) \/ GateRelease(q) \/ SessionNext(q)
    \/ ShutdownBegin
    \/ ShutdownEnd

Spec == Init /\ [][Next]_vars

\* A handler ends (its turn has a deadline) and settled promises are run.
FairSpec ==
    /\ Spec
    /\ \A q \in QId : WF_vars(Finish(q)) /\ WF_vars(GateRelease(q)) /\ WF_vars(SessionNext(q))

-----------------------------------------------------------------------------
(* Properties *)

\* The entries of lane l that wait: tasks of its queue, held at the gate, and
\* pending ones; and the entry in its handler.
WaitingEntries(l) ==
    {e \in UNION {{t.entry : t \in {x \in Range(NotStarted(q)) : x.lane = l}} : q \in QId} :
        e.ids # {}} \union Range(lanes[l].pendingEntries)
ActiveEntries(l) ==
    {queue[q].run.entry : q \in {p \in QId : queue[p].stage = "exec" /\ queue[p].run.lane = l}}

\* Two principals of one conversation never execute at the same time, whatever
\* lanes the sweep dropped and messages created again.
OneHandlerPerSession ==
    \A p, q \in QId :
        /\ queue[p].stage = "exec" /\ queue[q].stage = "exec"
        /\ SessionOf[queue[p].run.lane] = SessionOf[queue[q].run.lane]
        => p = q

\* The depth a lane reports is the number of messages it still owes, where those
\* replaced by a summary count as one, through overflow, coalescing and restarts
\* of the lane.
DepthExact ==
    phase = "open" => \A l \in Lane : lanes[l].exists =>
        lanes[l].logicalDepth =
            MapThenSumSet(LAMBDA e : e.count, WaitingEntries(l) \union ActiveEntries(l))

InOrder(l) ==
    \A a \in ActiveEntries(l), w \in WaitingEntries(l) : Newest(a) < Min(w.ids)

\* Within a lane of the modes followup and collect a handler only ever runs
\* messages older than all those that still wait.
LaneOrder == \A l \in Lane : mode[l] # "steer" => InOrder(l)

\* As the guide has it, within a lane, whatever its mode, messages are processed
\* strictly in the order of their arrival.
StrictLaneOrder == \A l \in Lane : InOrder(l)

\* The resources of a message are with the queue while its entry waits for its
\* handler, with the handler afterwards, and released in every other case.
ResourcesFollowEntry ==
    \A m \in Accepted :
        LET l == msgs[m]
        IN  owner[m] = "queue" <=> \E e \in WaitingEntries(l) : Newest(e) = m

\* A shutdown leaves no accepted message without a terminal, wherever it was.
ShutdownSettlesAll ==
    phase # "open" => \A m \in Accepted : outcome[m] # "none"

\* Every accepted message gets its terminal.
MessagesSettle == \A m \in Msg : (m \in Accepted /\ outcome[m] = "none") ~> outcome[m] # "none"
=============================================================================
