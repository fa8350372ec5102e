---------------------------- MODULE OutwardLedger ----------------------------
(***************************************************************************)
(* The outward-send ledger and the senders that go through it.             *)
(*                                                                         *)
(* A run's outward operations (a channel message, a background completion, *)
(* a cross-session announcement) must reach the platform at most once,     *)
(* although tools are retried, dead letters are drained again, the daemon  *)
(* crashes between any two writes and a watchdog recovers what it finds.   *)
(* The store is SQLite: each of its methods is one transaction, hence one  *)
(* step here.  The senders await every method, so steps of other senders,  *)
(* of the recovery pass and of an operator come in between, and any method *)
(* can return an error without having changed the store.  A restart loses  *)
(* every sender and keeps the store and the platform.                      *)
(*                                                                         *)
(* One root run is modelled: every key of the store starts with its root   *)
(* and no statement relates two roots, apart from the recovery scan, which *)
(* treats their rows alike.                                                *)
(***************************************************************************)
EXTENDS Integers, FiniteSets

CONSTANTS
    WrapOp,        \* operations sent by wrapOutwardSend's plain callers
    BackgroundOp,  \* completions delivered by the background runner
    AnnounceOp,    \* governed announcements, drained again as dead letters
    Payload,       \* contents; a digest of one identifies an operation's row
    Attempt,       \* slots for sender invocations alive at the same time
    MaxStep,       \* bound: the last step index the model has room for
    BatchSize,     \* rows one recovery pass takes (100 in the code)
    MaxRestarts    \* bound: restarts of the daemon

Op   == WrapOp \cup BackgroundOp \cup AnnounceOp
Step == 0 .. MaxStep

ASSUME OpKindsDisjoint ==
    /\ WrapOp \cap BackgroundOp = {}
    /\ WrapOp \cap AnnounceOp = {}
    /\ BackgroundOp \cap AnnounceOp = {}
ASSUME BoundsAssumption ==
    MaxStep \in Nat /\ BatchSize \in Nat \ {0} /\ MaxRestarts \in Nat
ASSUME PayloadAssumption == Payload # {}
ASSUME NullsAssumption ==
    /\ "no_op" \notin Op
    /\ "no_payload" \notin Payload

NoStep    == -1
NoOp      == "no_op"
NoPayload == "no_payload"

InFlight == {"send_attempt_started", "unknown_after_send"}
Settled  == {"committed", "failed", "unresolved"}
Absent   == [state |-> "absent", payload |-> NoPayload, receipt |-> NoPayload]
Row      == [state : {"absent"} \cup InFlight \cup Settled,
             payload : Payload \cup {NoPayload},
             receipt : Payload \cup {NoPayload}]

Outcome  == {"delivered", "discarded", "no_reply"}
Decision == Outcome \cup {"none"}

Mode   == {"wrap", "background", "reconcile", "announce", "drain"}
Result == {"none", "delivered", "permanent", "retryable", "uncertain",
           "blocked", "decided"}
PC     == {"idle", "decision", "allocate", "claim", "lookup", "begin", "mark",
           "reclaim", "send", "await", "commit", "fail", "park", "inspect",
           "done"}
Invocation == [pc : PC, mode : Mode, op : Op \cup {NoOp},
               payload : Payload \cup {NoPayload},
               step : Step \cup {NoStep}, result : Result]
Idle   == [pc |-> "idle", mode |-> "wrap", op |-> NoOp, payload |-> NoPayload,
           step |-> NoStep, result |-> "none"]

Message == Op \X Payload

VARIABLES
    stepOf,    \* outward_send_operations: operation -> step index
    lastStep,  \* outward_send_sequences.last_step_index
    ledger,    \* outward_send_ledger: step index -> row
    operator,  \* outward_send_operator_decisions
    noReply,   \* outward_send_no_reply_decisions
    att,       \* the live sender invocations
    batch,     \* rows the running recovery pass has still to park
    wire,      \* messages handed to the platform, not yet accepted or rejected
    accepted,  \* messages the platform has shown to the user
    calls,     \* platform calls entered so far, per operation
    restarts

store    == <<stepOf, lastStep, ledger, operator, noReply>>
platform == <<wire, accepted, calls>>
vars     == <<store, att, batch, platform, restarts>>

TypeOK ==
    /\ stepOf \in [Op -> Step \cup {NoStep}]
    /\ lastStep \in Step \cup {NoStep}
    /\ ledger \in [Step -> Row]
    /\ operator \in [Op -> {"none", "delivered", "discarded"}]
    /\ noReply \in SUBSET Op
    /\ att \in [Attempt -> Invocation]
    /\ batch \in SUBSET Step
    /\ wire \in SUBSET Message
    /\ accepted \in SUBSET Message
    /\ calls \in [Op -> Nat]
    /\ restarts \in 0 .. MaxRestarts

Init ==
    /\ stepOf = [o \in Op |-> NoStep]
    /\ lastStep = NoStep
    /\ ledger = [s \in Step |-> Absent]
    /\ operator = [o \in Op |-> "none"]
    /\ noReply = {}
    /\ att = [a \in Attempt |-> Idle]
    /\ batch = {}
    /\ wire = {}
    /\ accepted = {}
    /\ calls = [o \in Op |-> 0]
    /\ restarts = 0

-----------------------------------------------------------------------------
(* The store's statements.                                                 *)

\* Mutant: the operations allocated but not yet begun are forgotten.
NextStepRowsOnly ==
    LET used == {NoStep} \cup {s \in Step : ledger[s].state # "absent"}
    IN  1 + (CHOOSE m \in used : \A n \in used : n <= m)

\* The step a new operation gets: after the sequence and every retained step.
NextStep ==
    LET used == {lastStep} \cup {stepOf[o] : o \in Op}
                  \cup {s \in Step : ledger[s].state # "absent"}
    IN  1 + (CHOOSE m \in used : \A n \in used : n <= m)

\* parseTerminalDecision: the one decision of an operation.
TerminalDecision(o) == IF o \in noReply THEN "no_reply" ELSE operator[o]

\* A row as INSERTed by begin.
Started(p) ==
    [state |-> "send_attempt_started", payload |-> p, receipt |-> NoPayload]

\* UPDATE ... SET state WHERE step = s: the compare is the caller's guard.
SetState(s, to) == ledger' = [ledger EXCEPT ![s].state = to]

\* Mutant: the UPDATE lost its state condition.
ParkRowAlways(s) == SetState(s, "unresolved")

\* parkUncertainStmt, a no-op on a row that is no longer in flight.
ParkRow(s) ==
    IF ledger[s].state \in InFlight THEN SetState(s, "unresolved")
                                    ELSE UNCHANGED ledger

-----------------------------------------------------------------------------
(* Control of a sender invocation.                                         *)

Goto(a, label) == att' = [att EXCEPT ![a].pc = label]

Return(a, r) == att' = [att EXCEPT ![a].pc = "done", ![a].result = r]

\* An error leaves the sender: a background delivery then inspects the row to
\* classify the failure, the others report that the send was not confirmed.
Unsuccessful(a) ==
    IF att[a].mode = "background" THEN Goto(a, "inspect")
                                  ELSE Return(a, "blocked")

\* The announcement senders park the row on every error after begin.
ParkOrUnsuccessful(a, modes) ==
    IF att[a].mode \in modes THEN Goto(a, "park") ELSE Unsuccessful(a)

\* Mutant: a state that needs no mapping is passed through.
ClassifyRaw(state) ==
    CASE state = "absent"    -> "retryable"
      [] state = "committed" -> "delivered"
      [] state = "failed"    -> "permanent"
      [] OTHER               -> state

\* What a background completion concludes from the retained row.
Classify(state) ==
    CASE state = "absent"    -> "retryable"
      [] state = "committed" -> "delivered"
      [] state = "failed"    -> "permanent"
      [] OTHER               -> "uncertain"

\* A background completion's text is the persisted outbox's, the same in every
\* attempt; the other callers can reuse an identity with another content.
PayloadsOf(o) ==
    IF o \in BackgroundOp THEN {CHOOSE p \in Payload : TRUE} ELSE Payload

ModesOf(o) ==
    IF o \in WrapOp THEN {"wrap"}
    ELSE IF o \in BackgroundOp THEN {"background", "reconcile"}
    ELSE {"announce"}

FirstLabel(mode) == IF mode = "announce" THEN "decision" ELSE "allocate"

\* A caller starts an invocation for operation o with content p.
Start(a, o, mode, p) ==
    /\ att[a].pc = "idle"
    /\ mode \in ModesOf(o)
    /\ p \in PayloadsOf(o)
    /\ att' = [att EXCEPT ![a] = [Idle EXCEPT !.pc = FirstLabel(mode),
                                   !.mode = mode, !.op = o, !.payload = p]]
    /\ UNCHANGED <<store, batch, platform, restarts>>

\* The dead-letter drain retries an announcement whose step it retained.
StartDrain(a, o, p) ==
    /\ att[a].pc = "idle"
    /\ o \in AnnounceOp
    /\ stepOf[o] # NoStep
    /\ att' = [att EXCEPT ![a] = [Idle EXCEPT !.pc = "lookup", !.mode = "drain",
                                   !.op = o, !.payload = p, !.step = stepOf[o]]]
    /\ UNCHANGED <<store, batch, platform, restarts>>

\* The invocation has returned to its caller and the slot is free.
Finish(a) ==
    /\ att[a].pc = "done"
    /\ att' = [att EXCEPT ![a] = Idle]
    /\ UNCHANGED <<store, batch, platform, restarts>>

\* An announcement first asks whether the operation is already decided.
LookupTerminalDecision(a) ==
    /\ att[a].pc = "decision"
    /\ \/ /\ TerminalDecision(att[a].op) = "none"
          /\ Goto(a, "allocate")
       \/ /\ TerminalDecision(att[a].op) # "none"
          /\ Return(a, "decided")
       \/ Return(a, "blocked")                          \* the store failed
    /\ UNCHANGED <<store, batch, platform, restarts>>

AfterAllocate(mode) == IF mode = "background" THEN "claim" ELSE "lookup"

\* allocateStep: the operation's own step, or the next one of the root.
AllocateStep(a) ==
    /\ att[a].pc = "allocate"
    /\ LET o == att[a].op
       IN  \/ /\ stepOf[o] # NoStep
              /\ att' = [att EXCEPT ![a].pc = AfterAllocate(att[a].mode),
                                    ![a].step = stepOf[o]]
              /\ UNCHANGED <<stepOf, lastStep>>
           \/ /\ stepOf[o] = NoStep
              /\ NextStep \in Step
              /\ stepOf' = [stepOf EXCEPT ![o] = NextStep]
              /\ lastStep' = NextStep
              /\ att' = [att EXCEPT ![a].pc = AfterAllocate(att[a].mode),
                                    ![a].step = NextStep]
           \/ /\ Return(a, IF att[a].mode = "background" THEN "retryable"
                                                         ELSE "blocked")
              /\ UNCHANGED <<stepOf, lastStep>>
    /\ UNCHANGED <<ledger, operator, noReply, batch, platform, restarts>>

\* onSendStart: the task manager grants or refuses the delivery claim.
ClaimSendStart(a) ==
    /\ att[a].pc = "claim"
    /\ Goto(a, "lookup") \/ Return(a, "retryable")
    /\ UNCHANGED <<store, batch, platform, restarts>>

\* reconcileDelivery concludes from the retained row, without sending.
ReconcileFromRow(a, row) ==
    IF row.state = "send_attempt_started" THEN Goto(a, "reclaim")
                                          ELSE Return(a, Classify(row.state))

\* A retained row suppresses the send: only one committed for the same content
\* is a delivery.
SuppressDuplicate(a, row) ==
    \/ row.payload # att[a].payload /\ Unsuccessful(a)
    \/ /\ row.payload = att[a].payload
       /\ IF row.state = "committed" THEN Return(a, "delivered")
          ELSE IF row.state \in InFlight
               THEN ParkOrUnsuccessful(a, {"announce", "drain"})
               ELSE Unsuccessful(a)

\* lookup: the row of the step, if any, or an error of the store.
Lookup(a) ==
    /\ att[a].pc = "lookup"
    /\ LET row == ledger[att[a].step]
       IN  \/ att[a].mode = "reconcile" /\ ReconcileFromRow(a, row)
           \/ /\ att[a].mode # "reconcile"
              /\ IF row.state = "absent" THEN Goto(a, "begin")
                                         ELSE SuppressDuplicate(a, row)
           \/ ParkOrUnsuccessful(a, {"drain"})           \* the store failed
    /\ UNCHANGED <<store, batch, platform, restarts>>

\* beginOperation accepts a step that has no row and no terminal decision.
CanBegin(s) ==
    /\ ledger[s].state = "absent"
    /\ \A o \in Op : stepOf[o] = s => TerminalDecision(o) = "none"

\* Mutant: INSERT OR REPLACE.
BeginReplace(a) ==
    /\ att[a].pc = "begin"
    /\ ledger' = [ledger EXCEPT ![att[a].step] = Started(att[a].payload)]
    /\ Goto(a, "mark")
    /\ UNCHANGED <<stepOf, lastStep, operator, noReply, batch, platform, restarts>>

\* begin, the write that claims the operation before the platform call.
Begin(a) ==
    /\ att[a].pc = "begin"
    /\ \/ /\ CanBegin(att[a].step)
          /\ ledger' = [ledger EXCEPT ![att[a].step] = Started(att[a].payload)]
          /\ Goto(a, "mark")
       \/ /\ ParkOrUnsuccessful(a, {"drain"})
          /\ UNCHANGED ledger
    /\ UNCHANGED <<stepOf, lastStep, operator, noReply, batch, platform, restarts>>

\* markUnknown, the last write before the platform call.
MarkUnknown(a) ==
    /\ att[a].pc = "mark"
    /\ \/ /\ ledger[att[a].step].state = "send_attempt_started"
          /\ SetState(att[a].step, "unknown_after_send")
          /\ Goto(a, "send")
       \/ /\ IF att[a].mode = "background"
             THEN Goto(a, "reclaim")
             ELSE ParkOrUnsuccessful(a, {"announce", "drain"})
          /\ UNCHANGED ledger
    /\ UNCHANGED <<stepOf, lastStep, operator, noReply, batch, platform, restarts>>

\* Mutant: any row in flight is taken for one that was never sent.
ReclaimAnyInFlight(a) ==
    /\ att[a].pc = "reclaim"
    /\ ledger[att[a].step].state \in InFlight
    /\ ledger' = [ledger EXCEPT ![att[a].step] = Absent]
    /\ Return(a, "retryable")
    /\ UNCHANGED <<stepOf, lastStep, operator, noReply, batch, platform, restarts>>

\* reclaimPreSend: DELETE the row of a send that never reached the platform.
ReclaimPreSend(a) ==
    /\ att[a].pc = "reclaim"
    /\ LET s == att[a].step
       IN  \/ /\ ledger[s].state = "send_attempt_started"
              /\ ledger' = [ledger EXCEPT ![s] = Absent]
              /\ Return(a, "retryable")
           \/ /\ Return(a, IF att[a].mode = "background" THEN "uncertain"
                                                         ELSE "blocked")
              /\ UNCHANGED ledger
    /\ UNCHANGED <<stepOf, lastStep, operator, noReply, batch, platform, restarts>>

-----------------------------------------------------------------------------
(* The platform call.  Acceptance is the platform's own step: it may come  *)
(* before the answer, after a timeout was reported, or after a restart.    *)

MessageOf(a) == <<att[a].op, att[a].payload>>

DoSend(a) ==
    /\ att[a].pc = "send"
    /\ calls' = [calls EXCEPT ![att[a].op] = @ + 1]
    /\ wire' = wire \cup {MessageOf(a)}
    /\ Goto(a, "await")
    /\ UNCHANGED <<store, batch, accepted, restarts>>

PlatformAccept(m) ==
    /\ m \in wire
    /\ wire' = wire \ {m}
    /\ accepted' = accepted \cup {m}
    /\ UNCHANGED <<store, att, batch, calls, restarts>>

\* Mutant: a resolved call is taken for a delivered message.
SendReturnsTrusting(a) ==
    /\ att[a].pc = "await"
    /\ Goto(a, "commit")
    /\ UNCHANGED <<store, batch, platform, restarts>>

\* Mutant: a timeout is taken for a permanent rejection.
SendReturnsHasty(a) ==
    /\ att[a].pc = "await"
    /\ IF MessageOf(a) \in accepted THEN Goto(a, "commit") ELSE Goto(a, "fail")
    /\ UNCHANGED <<store, batch, platform, restarts>>

\* The answer: a receipt; a permanent rejection (only wrapOutwardSend tells it
\* from other errors); no receipt, a transient error or a timeout.
SendReturns(a) ==
    /\ att[a].pc = "await"
    /\ \/ /\ MessageOf(a) \in accepted
          /\ Goto(a, "commit")
          /\ UNCHANGED wire
       \/ /\ att[a].mode \in {"wrap", "background"}
          /\ MessageOf(a) \in wire
          /\ wire' = wire \ {MessageOf(a)}
          /\ Goto(a, "fail")
       \/ /\ Goto(a, "park")
          /\ UNCHANGED wire
    /\ UNCHANGED <<store, batch, accepted, calls, restarts>>

\* commit: the receipt of a send whose row is still unknown.
Commit(a) ==
    /\ att[a].pc = "commit"
    /\ \/ /\ ledger[att[a].step].state = "unknown_after_send"
          /\ ledger' = [ledger EXCEPT ![att[a].step].state = "committed",
                                      ![att[a].step].receipt = att[a].payload]
          /\ Return(a, "delivered")
       \/ /\ Goto(a, "park")
          /\ UNCHANGED ledger
    /\ UNCHANGED <<stepOf, lastStep, operator, noReply, batch, platform, restarts>>

\* markFailed: the platform refused for good.
MarkFailed(a) ==
    /\ att[a].pc = "fail"
    /\ \/ /\ ledger[att[a].step].state = "unknown_after_send"
          /\ SetState(att[a].step, "failed")
          /\ IF att[a].mode = "background" THEN Goto(a, "inspect")
                                           ELSE Return(a, "permanent")
       \/ /\ Goto(a, "park")
          /\ UNCHANGED ledger
    /\ UNCHANGED <<stepOf, lastStep, operator, noReply, batch, platform, restarts>>

\* parkUncertain by a sender.
ParkUncertain(a) ==
    /\ att[a].pc = "park"
    /\ ParkRow(att[a].step) \/ UNCHANGED ledger
    /\ Unsuccessful(a)
    /\ UNCHANGED <<stepOf, lastStep, operator, noReply, batch, platform, restarts>>

\* A background delivery classifies its failure from the retained row.
Inspect(a) ==
    /\ att[a].pc = "inspect"
    /\ \/ Return(a, Classify(ledger[att[a].step].state))
       \/ Return(a, "uncertain")                         \* the store failed
    /\ UNCHANGED <<store, batch, platform, restarts>>

-----------------------------------------------------------------------------
(* Recovery: boot and watchdog run the same single-flight pass, which      *)
(* scans for rows in flight and parks each of them.                        *)

\* Mutant: the scan only looks for sends that were marked.
UnreconciledMarked == {s \in Step : ledger[s].state = "unknown_after_send"}

\* The rows listUnreconciled selects.
Unreconciled == {s \in Step : ledger[s].state \in InFlight}

Smaller(m, n) == IF m <= n THEN m ELSE n

\* listUnreconciled, at boot or on a watchdog tick that found a row.
RecoveryScan ==
    /\ batch = {}
    /\ Unreconciled # {}
    /\ \E rows \in SUBSET Unreconciled :
          /\ Cardinality(rows) = Smaller(BatchSize, Cardinality(Unreconciled))
          /\ batch' = rows
    /\ UNCHANGED <<store, att, platform, restarts>>

\* reconcileLedgerRow.
RecoveryPark(s) ==
    /\ s \in batch
    /\ ParkRow(s)
    /\ batch' = batch \ {s}
    /\ UNCHANGED <<stepOf, lastStep, operator, noReply, att, platform, restarts>>

\* The store failed or the recovery budget is spent: the rest is deferred.
RecoveryStop ==
    /\ batch # {}
    /\ batch' = {}
    /\ UNCHANGED <<store, att, platform, restarts>>

\* Mutant: a decision does not wait for the send in flight.
RecordDecisionEagerly(o, outcome) ==
    /\ TerminalDecision(o) = "none"
    /\ outcome # "no_reply"
    /\ operator' = [operator EXCEPT ![o] = outcome]
    /\ UNCHANGED <<stepOf, lastStep, ledger, noReply, att, batch, platform, restarts>>

\* recordTerminalDecision: the operator releases or discards a dead letter,
\* or the announcement turns out to need no reply.
RecordTerminalDecision(o, outcome) ==
    /\ TerminalDecision(o) = "none"
    /\ stepOf[o] # NoStep =>
          /\ ledger[stepOf[o]].state \notin InFlight
          /\ ledger[stepOf[o]].state = "committed" => outcome = "delivered"
    /\ IF outcome = "no_reply"
       THEN /\ noReply' = noReply \cup {o}
            /\ UNCHANGED operator
       ELSE /\ operator' = [operator EXCEPT ![o] = outcome]
            /\ UNCHANGED noReply
    /\ UNCHANGED <<stepOf, lastStep, ledger, att, batch, platform, restarts>>

\* The daemon dies and starts again.
Restart ==
    /\ restarts < MaxRestarts
    /\ restarts' = restarts + 1
    /\ att' = [a \in Attempt |-> Idle]
    /\ batch' = {}
    /\ UNCHANGED <<store, platform>>

Sender(a) ==
    \/ \E o \in Op, mode \in Mode, p \in Payload : Start(a, o, mode, p)
    \/ \E o \in AnnounceOp, p \in Payload : StartDrain(a, o, p)
    \/ LookupTerminalDecision(a) \/ AllocateStep(a) \/ ClaimSendStart(a)
    \/ Lookup(a) \/ Begin(a) \/ MarkUnknown(a) \/ ReclaimPreSend(a)
    \/ DoSend(a) \/ SendReturns(a) \/ Commit(a) \/ MarkFailed(a)
    \/ ParkUncertain(a) \/ Inspect(a) \/ Finish(a)

Next ==
    \/ \E a \in Attempt : Sender(a)
    \/ \E m \in Message : PlatformAccept(m)
    \/ RecoveryScan
    \/ \E s \in Step : RecoveryPark(s)
    \/ RecoveryStop
    \/ \E o \in AnnounceOp, outcome \in Outcome :
          RecordTerminalDecision(o, outcome)
    \/ Restart

Spec == Init /\ [][Next]_vars

\* The watchdog interval keeps firing and every pass ends; a row in flight is
\* parked by some pass: the store does not fail forever and the budget lets a
\* pass park a row.
PassProceeds == RecoveryStop \/ \E s \in Step : RecoveryPark(s)
ParkSome     == \E s \in Unreconciled : RecoveryPark(s)

FairSpec ==
    Spec /\ WF_vars(RecoveryScan) /\ WF_vars(PassProceeds) /\ SF_vars(ParkSome)

-----------------------------------------------------------------------------
(* Properties.                                                             *)

\* No operation enters the platform twice, whatever retries, drains, reclaims,
\* recoveries and restarts happen: the point of begin's UNIQUE key and of the
\* markUnknown compare-and-set.
AtMostOneCall == \A o \in Op : calls[o] <= 1

\* A committed row is the truth: the platform accepted the very content the
\* row was begun for, and the row's receipt is that message's.
CommittedIsAccepted ==
    \A o \in Op : (stepOf[o] # NoStep /\ ledger[stepOf[o]].state = "committed") =>
        /\ ledger[stepOf[o]].receipt = ledger[stepOf[o]].payload
        /\ <<o, ledger[stepOf[o]].payload>> \in accepted

\* What a sender tells its caller is true of the platform: "delivered" was
\* accepted with this caller's content, "permanent" was not and will not be.
ResultTruthful ==
    \A a \in Attempt : att[a].pc = "done" =>
        /\ att[a].result = "delivered" => MessageOf(a) \in accepted
        /\ att[a].result = "permanent" =>
              \A p \in Payload : <<att[a].op, p>> \notin accepted \cup wire

\* A delivery classified as retryable from its ledger row never reached the
\* platform: the background runner will send it again.
RetryableNeverSent ==
    [][\A a \in Attempt :
          (/\ att[a].pc \in {"lookup", "reclaim", "inspect"}
           /\ att'[a].pc = "done"
           /\ att'[a].result = "retryable") => calls[att[a].op] = 0]_vars

\* An operation has one terminal decision, and it agrees with the receipt: no
\* committed delivery is recorded as discarded or as needing no reply.
DecisionsAgree ==
    \A o \in Op :
        /\ o \in noReply => operator[o] = "none"
        /\ (/\ stepOf[o] # NoStep
            /\ ledger[stepOf[o]].state = "committed"
            /\ TerminalDecision(o) # "none") => TerminalDecision(o) = "delivered"

\* Two operations never share a step, so one's row never answers for another.
StepsDistinct ==
    \A o1, o2 \in Op :
        (o1 # o2 /\ stepOf[o1] # NoStep) => stepOf[o1] # stepOf[o2]

\* No row stays in flight: the sender settles it, or a later pass parks it.
InFlightSettles ==
    \A s \in Step : ledger[s].state \in InFlight ~> ledger[s].state \notin InFlight

\* The ledger implements OutwardOperation: a row that is absent or only begun
\* is a fresh operation, an unresolved one is uncertain.
Status(o) ==
    IF stepOf[o] = NoStep THEN "fresh"
    ELSE LET state == ledger[stepOf[o]].state
         IN  CASE state \in {"absent", "send_attempt_started"} -> "fresh"
               [] state = "unknown_after_send"                 -> "sending"
               [] state = "committed"                          -> "delivered"
               [] state = "failed"                             -> "failed"
               [] state = "unresolved"                         -> "uncertain"

Abstract == INSTANCE OutwardOperation WITH
    status <- [o \in Op |-> Status(o)],
    shown  <- {o \in Op : \E p \in Payload : <<o, p>> \in accepted}

\* Every step of the senders, the recovery and the operator is a step of the
\* abstract operation or leaves it alone.
ImplementsOperation == Abstract!Spec
=============================================================================
