------------------------- MODULE OutwardLedgerProofs -------------------------
(***************************************************************************)
(* Proofs about OutwardLedger, for any operations, contents, number of     *)
(* concurrent senders, batch size and restarts.                            *)
(*                                                                         *)
(* AtMostOneCall is not inductive: that a sender about to call is the      *)
(* first one follows from the row, and that the row is the right one from  *)
(* the step its sender holds.  IndInv adds these: a sender past allocateStep *)
(* holds its operation's step; the sequence is ahead of every step in use; *)
(* a row that was marked never becomes unmarked, and whoever is about to   *)
(* call is alone.                                                          *)
(***************************************************************************)
EXTENDS OutwardLedger, TLAPS

Holding == {"claim", "lookup", "begin", "mark", "reclaim", "send", "await",
            "commit", "fail", "park", "inspect"}

\* Senders at work have an operation, and its step once it is allocated.
SendersNamed ==
    \A a \in Attempt :
        /\ att[a].pc \in Holding \cup {"decision", "allocate"} =>
              att[a].op \in Op /\ att[a].payload \in Payload
        /\ att[a].pc \in Holding => /\ att[a].step = stepOf[att[a].op]
                                    /\ att[a].step \in Step

\* The sequence is never behind a step that is allocated or has a row.
SequenceAhead ==
    /\ \A o \in Op : stepOf[o] <= lastStep
    /\ \A s \in Step : ledger[s].state # "absent" => s <= lastStep

\* The row of step s has left the states in which begin or reclaim can act.
Unmarked  == {"absent", "send_attempt_started"}
Marked(s) == ledger[s].state \notin Unmarked

\* Whoever is about to call the platform is the first and the only one.
OneCaller ==
    /\ \A a \in Attempt : att[a].pc = "send" =>
          calls[att[a].op] = 0 /\ Marked(att[a].step)
    /\ \A a, b \in Attempt :
          (att[a].pc = "send" /\ att[b].pc = "send" /\ att[a].op = att[b].op) => a = b
    /\ \A o \in Op :
          /\ calls[o] <= 1
          /\ calls[o] > 0 => stepOf[o] # NoStep /\ Marked(stepOf[o])

IndInv == TypeOK /\ SendersNamed /\ SequenceAhead /\ StepsDistinct /\ OneCaller

\* allocateStep's statement takes a maximum of three; with SequenceAhead it is
\* the sequence's own value, so the new step is free.
LEMMA NextStepIsFree ==
    ASSUME TypeOK, SequenceAhead
    PROVE  NextStep = lastStep + 1
<1> DEFINE used == {lastStep} \cup {stepOf[o] : o \in Op}
                     \cup {s \in Step : ledger[s].state # "absent"}
           greatest == CHOOSE m \in used : \A n \in used : n <= m
<1>1. used \subseteq Int /\ lastStep \in Int
  BY BoundsAssumption DEF TypeOK, Step, NoStep
<1>2. lastStep \in used /\ \A n \in used : n <= lastStep
  BY <1>1 DEF SequenceAhead
<1>3. greatest \in used /\ \A n \in used : n <= greatest
  BY <1>2
<1>4. greatest = lastStep
  BY <1>1, <1>2, <1>3
<1>5. NextStep = 1 + greatest
  BY Zenon DEF NextStep
<1> HIDE DEF used, greatest
<1> QED
  BY <1>1, <1>4, <1>5

\* The empty store satisfies the invariant.
LEMMA InitIndInv == Init => IndInv
<1> SUFFICES ASSUME Init PROVE IndInv
  OBVIOUS
<1>1. TypeOK
  BY BoundsAssumption, NullsAssumption
  DEF Init, TypeOK, Idle, Absent, Row, Invocation, PC, Mode, Result, Step, Message
<1>2. SendersNamed /\ SequenceAhead /\ StepsDistinct /\ OneCaller
  BY BoundsAssumption
  DEF Init, SendersNamed, SequenceAhead, StepsDistinct, OneCaller, Idle, Absent,
      Holding, Step, NoStep
<1> QED
  BY <1>1, <1>2 DEF IndInv

\* Sender a moves to one of the labels and keeps what it works on.
MovesTo(a, labels) ==
    /\ att' \in [Attempt -> Invocation]
    /\ \A b \in Attempt \ {a} : att'[b] = att[b]
    /\ att'[a].pc \in labels
    /\ att'[a].op = att[a].op
    /\ att'[a].payload = att[a].payload
    /\ att'[a].step = att[a].step

\* Goto changes one invocation's control point only.
LEMMA GotoMoves ==
    ASSUME att \in [Attempt -> Invocation], NEW a \in Attempt, NEW label \in PC,
           Goto(a, label)
    PROVE  MovesTo(a, {label})
<1> DEFINE r == [att[a] EXCEPT !.pc = label]
<1>1. att[a] \in Invocation
  OBVIOUS
<1>2. /\ r \in Invocation /\ r.pc = label /\ r.op = att[a].op
      /\ r.payload = att[a].payload /\ r.step = att[a].step
  BY <1>1 DEF Invocation
<1>3. att' = [att EXCEPT ![a] = r]
  BY DEF Goto
<1> HIDE DEF r
<1> QED
  BY <1>2, <1>3 DEF MovesTo

\* Return ends one invocation with a verdict.
LEMMA ReturnMoves ==
    ASSUME att \in [Attempt -> Invocation], NEW a \in Attempt, NEW res \in Result,
           Return(a, res)
    PROVE  MovesTo(a, {"done"})
<1> DEFINE r == [att[a] EXCEPT !.pc = "done", !.result = res]
<1>1. att[a] \in Invocation
  OBVIOUS
<1>2. /\ r \in Invocation /\ r.pc = "done" /\ r.op = att[a].op
      /\ r.payload = att[a].payload /\ r.step = att[a].step
  BY <1>1 DEF Invocation, PC
<1>3. att' = [att EXCEPT ![a] = r]
  BY DEF Return
<1> HIDE DEF r
<1> QED
  BY <1>2, <1>3 DEF MovesTo

\* Where an error or an uncertain outcome can take a sender.
LEMMA UnsuccessfulMoves ==
    ASSUME att \in [Attempt -> Invocation], NEW a \in Attempt
    PROVE  /\ Unsuccessful(a) => MovesTo(a, {"inspect", "done"})
           /\ \A modes : ParkOrUnsuccessful(a, modes)
                            => MovesTo(a, {"park", "inspect", "done"})
<1>1. "inspect" \in PC /\ "park" \in PC /\ "blocked" \in Result
  BY DEF PC, Result
<1>2. Unsuccessful(a) => MovesTo(a, {"inspect", "done"})
  <2>1. CASE Goto(a, "inspect")
    BY <1>1, <2>1, GotoMoves DEF MovesTo
  <2>2. CASE Return(a, "blocked")
    BY <1>1, <2>2, ReturnMoves DEF MovesTo
  <2> QED
    BY <2>1, <2>2 DEF Unsuccessful
<1>3. Goto(a, "park") => MovesTo(a, {"park"})
  BY <1>1, GotoMoves
<1> QED
  BY <1>2, <1>3 DEF ParkOrUnsuccessful, MovesTo

\* Writing the state of a row changes that row only and keeps its content.
LEMMA SetStateRow ==
    ASSUME ledger \in [Step -> Row], NEW s \in Step,
           NEW to \in InFlight \cup Settled, SetState(s, to)
    PROVE  /\ ledger' \in [Step -> Row]
           /\ ledger'[s].state = to
           /\ ledger'[s].payload = ledger[s].payload
           /\ ledger'[s].receipt = ledger[s].receipt
           /\ \A t \in Step \ {s} : ledger'[t] = ledger[t]
<1>1. ledger[s] \in Row
  OBVIOUS
<1>2. [ledger[s] EXCEPT !.state = to] \in Row
  BY <1>1 DEF Row
<1>3. ledger' = [ledger EXCEPT ![s] = [ledger[s] EXCEPT !.state = to]]
  BY DEF SetState
<1>4. ledger'[s] = [ledger[s] EXCEPT !.state = to]
  BY <1>3
<1>5. ledger'[s].state = to /\ ledger'[s].payload = ledger[s].payload
      /\ ledger'[s].receipt = ledger[s].receipt
  BY <1>1, <1>4 DEF Row
<1> QED
  BY <1>2, <1>3, <1>5

\* The rows stay rows, none is unmarked, and none appears beyond the sequence.
RowsAdvance ==
    /\ ledger' \in [Step -> Row]
    /\ \A s \in Step : Marked(s) => Marked(s)'
    /\ \A s \in Step : ledger'[s].state # "absent" => s <= lastStep

\* A step that writes no row lets no row go back.
LEMMA UnchangedRowsAdvance == ASSUME IndInv, UNCHANGED ledger PROVE RowsAdvance
  BY DEF IndInv, TypeOK, SequenceAhead, Marked, RowsAdvance

\* A state change from a row in flight to a settled one only goes forward.
LEMMA SetStateAdvances ==
    ASSUME IndInv, NEW s \in Step, NEW to \in Settled \cup {"unknown_after_send"},
           ledger[s].state # "absent", SetState(s, to)
    PROVE  RowsAdvance
<1>1. to \in InFlight \cup Settled /\ to \notin Unmarked
  BY DEF InFlight, Settled, Unmarked
<1>2. /\ ledger' \in [Step -> Row]
      /\ ledger'[s].state = to
      /\ \A t \in Step \ {s} : ledger'[t] = ledger[t]
  BY <1>1, SetStateRow DEF IndInv, TypeOK
<1> QED
  BY <1>1, <1>2 DEF RowsAdvance, Marked, IndInv, SequenceAhead

\* Parking only goes forward.
LEMMA ParkRowAdvances ==
    ASSUME IndInv, NEW s \in Step, ParkRow(s) PROVE RowsAdvance
<1>1. CASE ledger[s].state \in InFlight
  BY <1>1, SetStateAdvances DEF ParkRow, InFlight, Settled
<1>2. CASE ledger[s].state \notin InFlight
  BY <1>2, UnchangedRowsAdvance DEF ParkRow
<1> QED
  BY <1>1, <1>2

\* A step that moves one sender, but not to the call itself, and advances the
\* rows keeps IndInv.
LEMMA QuietStep ==
    ASSUME IndInv, NEW a \in Attempt,
           att' \in [Attempt -> Invocation],
           \A b \in Attempt \ {a} : att'[b] = att[b],
           att'[a].pc # "send",
           att'[a].pc \in Holding \cup {"decision", "allocate"} =>
              att'[a].op \in Op /\ att'[a].payload \in Payload,
           att'[a].pc \in Holding => /\ att'[a].step = stepOf[att'[a].op]
                                     /\ att'[a].step \in Step,
           RowsAdvance,
           UNCHANGED <<stepOf, lastStep, operator, noReply, batch, accepted,
                       calls, restarts>>,
           wire' \in SUBSET Message
    PROVE  IndInv'
<1>1. TypeOK'
  BY DEF IndInv, TypeOK, RowsAdvance
<1>2. SendersNamed'
  BY DEF IndInv, SendersNamed
<1>3. SequenceAhead' /\ StepsDistinct'
  BY DEF IndInv, SequenceAhead, StepsDistinct, RowsAdvance
<1>4. OneCaller'
  <2>1. \A b \in Attempt : att'[b].pc = "send" =>
           b # a /\ att'[b] = att[b] /\ att[b].step \in Step /\ att[b].op \in Op
    BY DEF IndInv, SendersNamed, Holding
  <2>2. \A o \in Op : calls[o] > 0 => stepOf[o] \in Step /\ Marked(stepOf[o])
    BY DEF IndInv, OneCaller, TypeOK
  <2> QED
    BY <2>1, <2>2 DEF IndInv, OneCaller, RowsAdvance
<1> QED
  BY <1>1, <1>2, <1>3, <1>4 DEF IndInv

\* The same for a sender that holds its step, and may let it go.
LEMMA HoldingStep ==
    ASSUME IndInv, NEW a \in Attempt, att[a].pc \in Holding,
           MovesTo(a, (Holding \ {"send"}) \cup {"done"}), RowsAdvance,
           UNCHANGED <<stepOf, lastStep, operator, noReply, batch, accepted,
                       calls, restarts>>,
           wire' \in SUBSET Message
    PROVE  IndInv'
<1>1. /\ att' \in [Attempt -> Invocation]
      /\ \A b \in Attempt \ {a} : att'[b] = att[b]
  BY DEF MovesTo
<1>2. /\ att'[a].pc # "send"
      /\ att'[a].op \in Op /\ att'[a].payload \in Payload
      /\ att'[a].step = stepOf[att'[a].op] /\ att'[a].step \in Step
  BY DEF MovesTo, IndInv, SendersNamed, Holding
<1> QED
  BY <1>1, <1>2, QuietStep

\* A new invocation holds no step yet.
LEMMA StartIndInv ==
    ASSUME IndInv, NEW a \in Attempt, NEW o \in Op, NEW mode \in Mode,
           NEW p \in Payload, Start(a, o, mode, p)
    PROVE  IndInv'
<1> DEFINE r == [Idle EXCEPT !.pc = FirstLabel(mode), !.mode = mode, !.op = o,
                             !.payload = p]
<1>1. /\ r \in Invocation /\ r.pc \in {"decision", "allocate"}
      /\ r.op = o /\ r.payload = p
  BY DEF Idle, Invocation, FirstLabel, PC, Result
<1>2. att' = [att EXCEPT ![a] = r] /\ att \in [Attempt -> Invocation]
  BY DEF Start, IndInv, TypeOK
<1>3. UNCHANGED <<store, batch, platform, restarts>>
  BY DEF Start
<1> HIDE DEF r
<1>4. RowsAdvance
  BY <1>3, UnchangedRowsAdvance DEF store
<1>5. /\ att' \in [Attempt -> Invocation]
      /\ \A b \in Attempt \ {a} : att'[b] = att[b]
      /\ att'[a].pc \in {"decision", "allocate"}
      /\ att'[a].op \in Op /\ att'[a].payload \in Payload
  BY <1>1, <1>2
<1>6. wire' \in SUBSET Message
  BY <1>3 DEF IndInv, TypeOK, platform
<1> QED
  BY <1>3, <1>4, <1>5, <1>6, QuietStep DEF store, platform, Holding

\* A drain starts with its operation's own step.
LEMMA StartDrainIndInv ==
    ASSUME IndInv, NEW a \in Attempt, NEW o \in AnnounceOp, NEW p \in Payload,
           StartDrain(a, o, p)
    PROVE  IndInv'
<1> DEFINE r == [Idle EXCEPT !.pc = "lookup", !.mode = "drain", !.op = o,
                             !.payload = p, !.step = stepOf[o]]
<1>0. o \in Op /\ stepOf[o] \in Step
  BY DEF StartDrain, IndInv, TypeOK, Op
<1>1. /\ r \in Invocation /\ r.pc = "lookup"
      /\ r.op = o /\ r.payload = p /\ r.step = stepOf[o]
  BY <1>0 DEF Idle, Invocation, PC, Mode, Result
<1>2. att' = [att EXCEPT ![a] = r] /\ att \in [Attempt -> Invocation]
  BY DEF StartDrain, IndInv, TypeOK
<1>3. UNCHANGED <<store, batch, platform, restarts>>
  BY DEF StartDrain
<1> HIDE DEF r
<1>4. RowsAdvance
  BY <1>3, UnchangedRowsAdvance DEF store
<1>5. /\ att' \in [Attempt -> Invocation]
      /\ \A b \in Attempt \ {a} : att'[b] = att[b]
      /\ att'[a].pc = "lookup" /\ att'[a].op = o
      /\ att'[a].payload \in Payload /\ att'[a].step = stepOf[o]
  BY <1>1, <1>2
<1>6. wire' \in SUBSET Message
  BY <1>3 DEF IndInv, TypeOK, platform
<1> QED
  BY <1>0, <1>3, <1>4, <1>5, <1>6, QuietStep DEF store, platform

\* The compare-and-set makes its sender the only one to have marked the row.
LEMMA MarkUnknownIndInv ==
    ASSUME IndInv, NEW a \in Attempt, MarkUnknown(a)
    PROVE  IndInv'
<1> DEFINE s == att[a].step
           o == att[a].op
<1>0. /\ att \in [Attempt -> Invocation] /\ wire \in SUBSET Message
      /\ att[a].pc \in Holding /\ o \in Op /\ s \in Step /\ s = stepOf[o]
      /\ att[a].payload \in Payload
  BY DEF MarkUnknown, IndInv, TypeOK, SendersNamed, Holding
<1>1. UNCHANGED <<stepOf, lastStep, operator, noReply, batch, wire, accepted,
                  calls, restarts>>
  BY DEF MarkUnknown, platform
<1>2. CASE /\ IF att[a].mode = "background"
              THEN Goto(a, "reclaim")
              ELSE ParkOrUnsuccessful(a, {"announce", "drain"})
           /\ UNCHANGED ledger
  <2>1. "reclaim" \in PC
    BY DEF PC
  <2>2. MovesTo(a, {"reclaim", "park", "inspect", "done"})
    BY <1>0, <1>2, <2>1, GotoMoves, UnsuccessfulMoves DEF MovesTo
  <2>3. MovesTo(a, (Holding \ {"send"}) \cup {"done"})
    BY <2>2 DEF MovesTo, Holding
  <2> QED
    BY <1>0, <1>1, <1>2, <2>3, UnchangedRowsAdvance, HoldingStep
<1>3. CASE /\ ledger[s].state = "send_attempt_started"
           /\ SetState(s, "unknown_after_send")
           /\ Goto(a, "send")
  <2>1. MovesTo(a, {"send"})
    BY <1>0, <1>3, GotoMoves DEF PC
  <2>2. RowsAdvance
    BY <1>0, <1>3, SetStateAdvances
  <2>3. ledger[s].state \in Unmarked /\ ledger'[s].state \notin Unmarked
    <3>1. "unknown_after_send" \in InFlight \cup Settled
      BY DEF InFlight
    <3>2. ledger'[s].state = "unknown_after_send"
      BY <1>0, <1>3, <3>1, SetStateRow DEF IndInv, TypeOK
    <3> QED
      BY <1>3, <3>2 DEF Unmarked
  <2>4. TypeOK'
    BY <1>1, <2>1, <2>2 DEF IndInv, TypeOK, MovesTo, RowsAdvance
  <2>5. SendersNamed'
    BY <1>0, <1>1, <2>1 DEF IndInv, SendersNamed, MovesTo
  <2>6. SequenceAhead' /\ StepsDistinct'
    BY <1>1, <2>2 DEF IndInv, SequenceAhead, StepsDistinct, RowsAdvance
  <2>7. OneCaller'
    <3>1. \A b \in Attempt \ {a} : att'[b].pc = "send" =>
             /\ att'[b] = att[b] /\ calls[att[b].op] = 0
             /\ att[b].step \in Step /\ Marked(att[b].step)
             /\ att[b].op # o
      BY <1>0, <2>1, <2>3 DEF IndInv, SendersNamed, OneCaller, MovesTo, Holding, Marked
    <3>2. calls[o] = 0
      BY <1>0, <2>3 DEF IndInv, OneCaller, TypeOK, Marked
    <3>3. att'[a].op = o /\ att'[a].step = s
      BY <2>1 DEF MovesTo
    <3>4. \A b, c \in Attempt :
             (att'[b].pc = "send" /\ att'[c].pc = "send" /\ att'[b].op = att'[c].op)
                => b = c
      BY <3>1, <3>3 DEF IndInv, OneCaller
    <3>5. \A b \in Attempt : att'[b].pc = "send" =>
             calls'[att'[b].op] = 0 /\ ledger'[att'[b].step].state \notin Unmarked
      <4>1. SUFFICES ASSUME NEW b \in Attempt, att'[b].pc = "send"
                     PROVE  /\ calls'[att'[b].op] = 0
                            /\ ledger'[att'[b].step].state \notin Unmarked
        OBVIOUS
      <4>2. CASE b = a
        BY <1>1, <2>3, <3>2, <3>3, <4>2
      <4>3. CASE b # a
        BY <1>1, <2>2, <3>1, <4>1, <4>3 DEF RowsAdvance, Marked
      <4> QED
        BY <4>2, <4>3
    <3>6. \A q \in Op : calls[q] > 0 => stepOf[q] \in Step /\ Marked(stepOf[q])
      BY DEF IndInv, OneCaller, TypeOK
    <3>7. \A q \in Op : /\ calls'[q] <= 1
                        /\ calls'[q] > 0 => /\ stepOf'[q] # NoStep
                                            /\ ledger'[stepOf'[q]].state \notin Unmarked
      BY <1>1, <2>2, <3>6 DEF RowsAdvance, Marked, IndInv, OneCaller
    <3> QED
      BY <3>4, <3>5, <3>7 DEF OneCaller, Marked
  <2> QED
    BY <2>4, <2>5, <2>6, <2>7 DEF IndInv
<1> QED
  BY <1>2, <1>3 DEF MarkUnknown

\* The one sender that marked the row enters the platform, for the first time.
LEMMA DoSendIndInv ==
    ASSUME IndInv, NEW a \in Attempt, DoSend(a)
    PROVE  IndInv'
<1> DEFINE o == att[a].op
<1>0. /\ att \in [Attempt -> Invocation] /\ wire \in SUBSET Message
      /\ o \in Op /\ att[a].payload \in Payload
      /\ att[a].step \in Step /\ att[a].step = stepOf[o]
      /\ att[a].pc = "send"
  BY DEF DoSend, IndInv, TypeOK, SendersNamed, Holding
<1>1. MovesTo(a, {"await"})
  BY <1>0, GotoMoves DEF DoSend, PC
<1>2. calls[o] = 0 /\ calls \in [Op -> Nat] /\ Marked(stepOf[o])
  BY <1>0 DEF IndInv, OneCaller, TypeOK
<1>3. calls' = [calls EXCEPT ![o] = 1]
  BY <1>0, <1>2 DEF DoSend
<1>4. UNCHANGED <<stepOf, lastStep, ledger, operator, noReply, batch, accepted, restarts>>
  BY DEF DoSend, store
<1>5. calls' \in [Op -> Nat] /\ wire' \in SUBSET Message
  BY <1>0, <1>2, <1>3 DEF DoSend, MessageOf, Message
<1>6. TypeOK'
  BY <1>1, <1>4, <1>5 DEF IndInv, TypeOK, MovesTo
<1>7. SendersNamed'
  BY <1>0, <1>1, <1>4 DEF IndInv, SendersNamed, MovesTo
<1>8. SequenceAhead' /\ StepsDistinct'
  BY <1>4 DEF IndInv, SequenceAhead, StepsDistinct
<1>9. OneCaller'
  <2>1. \A b \in Attempt : att'[b].pc = "send" =>
           /\ b # a /\ att'[b] = att[b] /\ att[b].pc = "send"
           /\ att[b].op \in Op /\ att[b].op # o
    BY <1>0, <1>1 DEF IndInv, OneCaller, SendersNamed, MovesTo, Holding
  <2>2. \A b \in Attempt : att'[b].pc = "send" =>
           calls'[att'[b].op] = 0 /\ ledger'[att'[b].step].state \notin Unmarked
    BY <1>2, <1>3, <1>4, <2>1 DEF IndInv, OneCaller, Marked
  <2>3. \A b, c \in Attempt :
           (att'[b].pc = "send" /\ att'[c].pc = "send" /\ att'[b].op = att'[c].op)
              => b = c
    BY <2>1 DEF IndInv, OneCaller
  <2>4. \A q \in Op : /\ calls'[q] <= 1
                      /\ calls'[q] > 0 => stepOf[q] # NoStep /\ Marked(stepOf[q])
    BY <1>0, <1>2, <1>3, BoundsAssumption DEF IndInv, OneCaller, Step, NoStep
  <2> QED
    BY <1>4, <2>2, <2>3, <2>4 DEF OneCaller, Marked
<1> QED
  BY <1>6, <1>7, <1>8, <1>9 DEF IndInv

\* What a sender that holds a step works on.
LEMMA HolderNamed ==
    ASSUME IndInv, NEW a \in Attempt, att[a].pc \in Holding
    PROVE  /\ att \in [Attempt -> Invocation] /\ wire \in SUBSET Message
           /\ att[a].op \in Op /\ att[a].payload \in Payload
           /\ att[a].step \in Step /\ att[a].step = stepOf[att[a].op]
           /\ stepOf[att[a].op] <= lastStep
           /\ ledger \in [Step -> Row]
  BY DEF IndInv, TypeOK, SendersNamed, SequenceAhead

\* Every row is classified as one of the verdicts.
LEMMA ClassifyResult == \A state : Classify(state) \in Result
  BY DEF Classify, Result

\* Replacing an unmarked row by a begun one, or by none, advances the rows.
LEMMA UnmarkedRowAdvances ==
    ASSUME IndInv, NEW s \in Step, ledger[s].state \in Unmarked, NEW row \in Row,
           s <= lastStep,
           ledger' = [ledger EXCEPT ![s] = row]
    PROVE  RowsAdvance
<1>1. ledger \in [Step -> Row]
  BY DEF IndInv, TypeOK
<1>2. \A t \in Step : t # s => ledger'[t] = ledger[t]
  BY <1>1
<1> QED
  BY <1>1, <1>2 DEF IndInv, SequenceAhead, RowsAdvance, Marked

\* A free slot holds no step.
LEMMA FinishIndInv ==
    ASSUME IndInv, NEW a \in Attempt, Finish(a) PROVE IndInv'
<1>1. Idle \in Invocation /\ Idle.pc = "idle"
  BY DEF Idle, Invocation, PC, Mode, Result
<1>2. att' = [att EXCEPT ![a] = Idle] /\ att \in [Attempt -> Invocation]
  BY DEF Finish, IndInv, TypeOK
<1>3. UNCHANGED <<store, batch, platform, restarts>>
  BY DEF Finish
<1>4. RowsAdvance
  BY <1>3, UnchangedRowsAdvance DEF store
<1>5. /\ att' \in [Attempt -> Invocation]
      /\ \A b \in Attempt \ {a} : att'[b] = att[b]
      /\ att'[a].pc = "idle"
  BY <1>1, <1>2
<1>6. wire' \in SUBSET Message
  BY <1>3 DEF IndInv, TypeOK, platform
<1> QED
  BY <1>3, <1>4, <1>5, <1>6, QuietStep DEF store, platform, Holding

\* Asking for the decision changes nothing in the store.
LEMMA LookupTerminalDecisionIndInv ==
    ASSUME IndInv, NEW a \in Attempt, LookupTerminalDecision(a) PROVE IndInv'
<1>1. /\ att \in [Attempt -> Invocation] /\ wire \in SUBSET Message
      /\ att[a].op \in Op /\ att[a].payload \in Payload
  BY DEF LookupTerminalDecision, IndInv, TypeOK, SendersNamed
<1>2. UNCHANGED <<store, batch, platform, restarts>>
  BY DEF LookupTerminalDecision
<1>3. RowsAdvance
  BY <1>2, UnchangedRowsAdvance DEF store
<1>4. "allocate" \in PC /\ "decided" \in Result /\ "blocked" \in Result
  BY DEF PC, Result
<1>5. MovesTo(a, {"allocate", "done"})
  BY <1>1, <1>4, GotoMoves, ReturnMoves DEF LookupTerminalDecision, MovesTo
<1>6. /\ att' \in [Attempt -> Invocation]
      /\ \A b \in Attempt \ {a} : att'[b] = att[b]
      /\ att'[a].pc \in {"allocate", "done"}
      /\ att'[a].op \in Op /\ att'[a].payload \in Payload
  BY <1>1, <1>5 DEF MovesTo
<1> QED
  BY <1>1, <1>2, <1>3, <1>6, QuietStep DEF store, platform, Holding

\* The delivery claim changes nothing in the store.
LEMMA ClaimSendStartIndInv ==
    ASSUME IndInv, NEW a \in Attempt, ClaimSendStart(a) PROVE IndInv'
<1>1. att[a].pc \in Holding
  BY DEF ClaimSendStart, Holding
<1>2. "lookup" \in PC /\ "retryable" \in Result
  BY DEF PC, Result
<1>3. MovesTo(a, {"lookup", "done"})
  BY <1>1, <1>2, HolderNamed, GotoMoves, ReturnMoves DEF ClaimSendStart, MovesTo
<1>4. MovesTo(a, (Holding \ {"send"}) \cup {"done"})
  BY <1>3 DEF MovesTo, Holding
<1>5. UNCHANGED <<store, batch, platform, restarts>>
  BY DEF ClaimSendStart
<1> QED
  BY <1>1, <1>4, <1>5, HolderNamed, UnchangedRowsAdvance, HoldingStep
  DEF store, platform

\* A lookup leads past begin only through an absent row.
LEMMA LookupIndInv ==
    ASSUME IndInv, NEW a \in Attempt, Lookup(a) PROVE IndInv'
<1>1. att[a].pc \in Holding
  BY DEF Lookup, Holding
<1>2. att \in [Attempt -> Invocation]
  BY <1>1, HolderNamed
<1>3. /\ Goto(a, "reclaim") => MovesTo(a, {"reclaim"})
      /\ Goto(a, "begin") => MovesTo(a, {"begin"})
      /\ Return(a, "delivered") => MovesTo(a, {"done"})
      /\ \A state : Return(a, Classify(state)) => MovesTo(a, {"done"})
  BY <1>2, ClassifyResult, GotoMoves, ReturnMoves DEF PC, Result
<1>4. \/ MovesTo(a, {"reclaim"}) \/ MovesTo(a, {"begin"}) \/ MovesTo(a, {"done"})
      \/ MovesTo(a, {"inspect", "done"}) \/ MovesTo(a, {"park", "inspect", "done"})
  BY <1>2, <1>3, UnsuccessfulMoves DEF Lookup, ReconcileFromRow, SuppressDuplicate
<1>5. MovesTo(a, (Holding \ {"send"}) \cup {"done"})
  BY <1>4 DEF MovesTo, Holding
<1>6. UNCHANGED <<store, batch, platform, restarts>>
  BY DEF Lookup
<1> QED
  BY <1>1, <1>5, <1>6, HolderNamed, UnchangedRowsAdvance, HoldingStep
  DEF store, platform

\* begin inserts where there is no row, so no sender has marked this one.
LEMMA BeginIndInv ==
    ASSUME IndInv, NEW a \in Attempt, Begin(a) PROVE IndInv'
<1>1. att[a].pc \in Holding
  BY DEF Begin, Holding
<1>2. UNCHANGED <<stepOf, lastStep, operator, noReply, batch, wire, accepted,
                  calls, restarts>>
  BY DEF Begin, platform
<1>3. CASE /\ ledger[att[a].step].state = "absent"
           /\ ledger' = [ledger EXCEPT ![att[a].step] = Started(att[a].payload)]
           /\ Goto(a, "mark")
  <2>1. Started(att[a].payload) \in Row
    BY <1>1, HolderNamed DEF Started, Row, InFlight
  <2>2. RowsAdvance
    BY <1>1, <1>3, <2>1, HolderNamed, UnmarkedRowAdvances DEF Unmarked
  <2>3. MovesTo(a, {"mark"})
    BY <1>1, <1>3, HolderNamed, GotoMoves DEF PC
  <2>4. MovesTo(a, (Holding \ {"send"}) \cup {"done"})
    BY <2>3 DEF MovesTo, Holding
  <2> QED
    BY <1>1, <1>2, <2>2, <2>4, HolderNamed, HoldingStep
<1>4. CASE ParkOrUnsuccessful(a, {"drain"}) /\ UNCHANGED ledger
  <2>1. MovesTo(a, {"park", "inspect", "done"})
    BY <1>1, <1>4, HolderNamed, UnsuccessfulMoves
  <2>2. MovesTo(a, (Holding \ {"send"}) \cup {"done"})
    BY <2>1 DEF MovesTo, Holding
  <2> QED
    BY <1>1, <1>2, <1>4, <2>2, HolderNamed, UnchangedRowsAdvance, HoldingStep
<1> QED
  BY <1>3, <1>4 DEF Begin, CanBegin

\* Only a row nobody has marked is deleted.
LEMMA ReclaimPreSendIndInv ==
    ASSUME IndInv, NEW a \in Attempt, ReclaimPreSend(a) PROVE IndInv'
<1>1. att[a].pc \in Holding
  BY DEF ReclaimPreSend, Holding
<1>2. UNCHANGED <<stepOf, lastStep, operator, noReply, batch, wire, accepted,
                  calls, restarts>>
  BY DEF ReclaimPreSend, platform
<1>3. RowsAdvance
  <2>1. CASE /\ ledger[att[a].step].state = "send_attempt_started"
             /\ ledger' = [ledger EXCEPT ![att[a].step] = Absent]
    <3>1. Absent \in Row
      BY DEF Absent, Row
    <3> QED
      BY <1>1, <2>1, <3>1, HolderNamed, UnmarkedRowAdvances DEF Unmarked
  <2>2. CASE UNCHANGED ledger
    BY <2>2, UnchangedRowsAdvance
  <2> QED
    BY <2>1, <2>2 DEF ReclaimPreSend
<1>4. MovesTo(a, {"done"})
  <2>1. {"retryable", "uncertain", "blocked"} \subseteq Result
    BY DEF Result
  <2>2. \/ Return(a, "retryable") \/ Return(a, "uncertain") \/ Return(a, "blocked")
    BY DEF ReclaimPreSend
  <2> QED
    BY <1>1, <2>1, <2>2, HolderNamed, ReturnMoves
<1>5. MovesTo(a, (Holding \ {"send"}) \cup {"done"})
  BY <1>4 DEF MovesTo
<1> QED
  BY <1>1, <1>2, <1>3, <1>5, HolderNamed, HoldingStep

\* An answer takes the sender out of the platform call.
LEMMA SendReturnsIndInv ==
    ASSUME IndInv, NEW a \in Attempt, SendReturns(a) PROVE IndInv'
<1>1. att[a].pc \in Holding
  BY DEF SendReturns, Holding
<1>2. /\ UNCHANGED <<stepOf, lastStep, ledger, operator, noReply, batch,
                     accepted, calls, restarts>>
      /\ wire' \in SUBSET Message
  BY <1>1, HolderNamed DEF SendReturns, store
<1>3. {"commit", "fail", "park"} \subseteq PC
  BY DEF PC
<1>4. MovesTo(a, {"commit", "fail", "park"})
  BY <1>1, <1>3, HolderNamed, GotoMoves DEF SendReturns, MovesTo
<1>5. MovesTo(a, (Holding \ {"send"}) \cup {"done"})
  BY <1>4 DEF MovesTo, Holding
<1> QED
  BY <1>1, <1>2, <1>5, UnchangedRowsAdvance, HoldingStep

\* A commit settles a marked row.
LEMMA CommitIndInv ==
    ASSUME IndInv, NEW a \in Attempt, Commit(a) PROVE IndInv'
<1>1. att[a].pc \in Holding
  BY DEF Commit, Holding
<1>2. UNCHANGED <<stepOf, lastStep, operator, noReply, batch, wire, accepted,
                  calls, restarts>>
  BY DEF Commit, platform
<1>3. CASE /\ ledger[att[a].step].state = "unknown_after_send"
           /\ ledger' = [ledger EXCEPT ![att[a].step].state = "committed",
                                       ![att[a].step].receipt = att[a].payload]
           /\ Return(a, "delivered")
  <2> DEFINE s == att[a].step
             row == [ledger[s] EXCEPT !.state = "committed",
                                      !.receipt = att[a].payload]
  <2>1. s \in Step /\ ledger \in [Step -> Row] /\ ledger[s] \in Row
    BY <1>1, HolderNamed
  <2>2. row \in Row /\ row.state = "committed"
    BY <1>1, <2>1, HolderNamed DEF Row, Settled
  <2>3. ledger' = [ledger EXCEPT ![s] = row]
    BY <1>3
  <2>4. ledger[s].state # "absent"
    BY <1>3
  <2> HIDE DEF s, row
  <2>5. RowsAdvance
    <3>1. ledger'[s] = row /\ \A t \in Step : t # s => ledger'[t] = ledger[t]
      BY <2>1, <2>3
    <3>2. ledger' \in [Step -> Row]
      BY <2>1, <2>2, <2>3
    <3>3. ledger'[s].state \notin Unmarked
      BY <2>2, <3>1 DEF Unmarked
    <3> QED
      BY <2>1, <2>4, <3>1, <3>2, <3>3
      DEF IndInv, SequenceAhead, RowsAdvance, Marked
  <2>6. MovesTo(a, {"done"})
    BY <1>1, <1>3, HolderNamed, ReturnMoves DEF Result
  <2>7. MovesTo(a, (Holding \ {"send"}) \cup {"done"})
    BY <2>6 DEF MovesTo
  <2> QED
    BY <1>1, <1>2, <2>5, <2>7, HolderNamed, HoldingStep
<1>4. CASE Goto(a, "park") /\ UNCHANGED ledger
  <2>1. MovesTo(a, {"park"})
    BY <1>1, <1>4, HolderNamed, GotoMoves DEF PC
  <2>2. MovesTo(a, (Holding \ {"send"}) \cup {"done"})
    BY <2>1 DEF MovesTo, Holding
  <2> QED
    BY <1>1, <1>2, <1>4, <2>2, HolderNamed, UnchangedRowsAdvance, HoldingStep
<1> QED
  BY <1>3, <1>4 DEF Commit

\* A rejection settles a marked row.
LEMMA MarkFailedIndInv ==
    ASSUME IndInv, NEW a \in Attempt, MarkFailed(a) PROVE IndInv'
<1>1. att[a].pc \in Holding
  BY DEF MarkFailed, Holding
<1>2. UNCHANGED <<stepOf, lastStep, operator, noReply, batch, wire, accepted,
                  calls, restarts>>
  BY DEF MarkFailed, platform
<1>3. RowsAdvance
  <2>1. CASE /\ ledger[att[a].step].state = "unknown_after_send"
             /\ SetState(att[a].step, "failed")
    <3>1. "failed" \in Settled \cup {"unknown_after_send"}
      BY DEF Settled
    <3> QED
      BY <1>1, <2>1, <3>1, HolderNamed, SetStateAdvances
  <2>2. CASE UNCHANGED ledger
    BY <2>2, UnchangedRowsAdvance
  <2> QED
    BY <2>1, <2>2 DEF MarkFailed
<1>4. {"park", "inspect"} \subseteq PC /\ "permanent" \in Result
  BY DEF PC, Result
<1>5. MovesTo(a, {"park", "inspect", "done"})
  BY <1>1, <1>4, HolderNamed, GotoMoves, ReturnMoves DEF MarkFailed, MovesTo
<1>6. MovesTo(a, (Holding \ {"send"}) \cup {"done"})
  BY <1>5 DEF MovesTo, Holding
<1> QED
  BY <1>1, <1>2, <1>3, <1>6, HolderNamed, HoldingStep

\* A sender parks its row and reports.
LEMMA ParkUncertainIndInv ==
    ASSUME IndInv, NEW a \in Attempt, ParkUncertain(a) PROVE IndInv'
<1>1. att[a].pc \in Holding
  BY DEF ParkUncertain, Holding
<1>2. UNCHANGED <<stepOf, lastStep, operator, noReply, batch, wire, accepted,
                  calls, restarts>>
  BY DEF ParkUncertain, platform
<1>3. RowsAdvance
  BY <1>1, HolderNamed, ParkRowAdvances, UnchangedRowsAdvance DEF ParkUncertain
<1>4. MovesTo(a, {"inspect", "done"})
  BY <1>1, HolderNamed, UnsuccessfulMoves DEF ParkUncertain
<1>5. MovesTo(a, (Holding \ {"send"}) \cup {"done"})
  BY <1>4 DEF MovesTo, Holding
<1> QED
  BY <1>1, <1>2, <1>3, <1>5, HolderNamed, HoldingStep

\* Classifying a failure changes nothing in the store.
LEMMA InspectIndInv ==
    ASSUME IndInv, NEW a \in Attempt, Inspect(a) PROVE IndInv'
<1>1. att[a].pc \in Holding
  BY DEF Inspect, Holding
<1>2. "uncertain" \in Result
  BY DEF Result
<1>3. MovesTo(a, {"done"})
  BY <1>1, <1>2, HolderNamed, ClassifyResult, ReturnMoves DEF Inspect
<1>4. MovesTo(a, (Holding \ {"send"}) \cup {"done"})
  BY <1>3 DEF MovesTo
<1>5. UNCHANGED <<store, batch, platform, restarts>>
  BY DEF Inspect
<1> QED
  BY <1>1, <1>4, <1>5, HolderNamed, UnchangedRowsAdvance, HoldingStep
  DEF store, platform

\* The sender takes step s, whatever it was: its operation's own or a new one.
LEMMA TakesStep ==
    ASSUME att \in [Attempt -> Invocation], NEW a \in Attempt, NEW s \in Step,
           att' = [att EXCEPT ![a].pc = AfterAllocate(att[a].mode), ![a].step = s]
    PROVE  /\ att' \in [Attempt -> Invocation]
           /\ \A b \in Attempt \ {a} : att'[b] = att[b]
           /\ att'[a].pc \in {"claim", "lookup"}
           /\ att'[a].op = att[a].op /\ att'[a].payload = att[a].payload
           /\ att'[a].step = s
<1> DEFINE label == AfterAllocate(att[a].mode)
           r == [att[a] EXCEPT !.pc = label, !.step = s]
<1>1. label \in {"claim", "lookup"} /\ label \in PC
  BY DEF AfterAllocate, PC
<1>2. att[a] \in Invocation
  OBVIOUS
<1>3. att' = [att EXCEPT ![a] = r]
  OBVIOUS
<1> HIDE DEF label
<1>4. /\ r \in Invocation /\ r.pc = label /\ r.op = att[a].op
      /\ r.payload = att[a].payload /\ r.step = s
  BY <1>1, <1>2 DEF Invocation
<1> HIDE DEF r
<1> QED
  BY <1>1, <1>3, <1>4

\* A new step is above every step handed out before.
LEMMA AllocateStepIndInv ==
    ASSUME IndInv, NEW a \in Attempt, AllocateStep(a) PROVE IndInv'
<1> DEFINE o == att[a].op
<1>1. /\ att \in [Attempt -> Invocation] /\ wire \in SUBSET Message
      /\ o \in Op /\ att[a].payload \in Payload
      /\ stepOf \in [Op -> Step \cup {NoStep}] /\ ledger \in [Step -> Row]
  BY DEF AllocateStep, IndInv, TypeOK, SendersNamed
<1>2. UNCHANGED <<ledger, operator, noReply, batch, wire, accepted, calls, restarts>>
  BY DEF AllocateStep, platform
<1>3. RowsAdvance
  BY <1>2, UnchangedRowsAdvance
<1>4. CASE /\ stepOf[o] # NoStep
           /\ att' = [att EXCEPT ![a].pc = AfterAllocate(att[a].mode),
                                 ![a].step = stepOf[o]]
           /\ UNCHANGED <<stepOf, lastStep>>
  <2>1. stepOf[o] \in Step
    BY <1>1, <1>4
  <2>2. /\ att' \in [Attempt -> Invocation]
        /\ \A b \in Attempt \ {a} : att'[b] = att[b]
        /\ att'[a].pc \in {"claim", "lookup"}
        /\ att'[a].op = o /\ att'[a].payload = att[a].payload
        /\ att'[a].step = stepOf[o]
    BY <1>1, <1>4, <2>1, TakesStep
  <2>3. att'[a].pc # "send"
    BY <2>2
  <2> QED
    BY <1>1, <1>2, <1>3, <1>4, <2>1, <2>2, <2>3, QuietStep
<1>5. CASE /\ Return(a, IF att[a].mode = "background" THEN "retryable"
                                                      ELSE "blocked")
           /\ UNCHANGED <<stepOf, lastStep>>
  <2>1. MovesTo(a, {"done"})
    BY <1>1, <1>5, ReturnMoves DEF Result
  <2>2. /\ att' \in [Attempt -> Invocation]
        /\ \A b \in Attempt \ {a} : att'[b] = att[b]
        /\ att'[a].pc = "done"
    BY <2>1 DEF MovesTo
  <2> QED
    BY <1>1, <1>2, <1>3, <1>5, <2>2, QuietStep DEF Holding
<1>6. CASE /\ stepOf[o] = NoStep
           /\ NextStep \in Step
           /\ stepOf' = [stepOf EXCEPT ![o] = NextStep]
           /\ lastStep' = NextStep
           /\ att' = [att EXCEPT ![a].pc = AfterAllocate(att[a].mode),
                                 ![a].step = NextStep]
  <2> DEFINE s == NextStep
  <2>1. s \in Step /\ s = lastStep + 1 /\ lastStep \in Int
    BY <1>6, BoundsAssumption, NextStepIsFree DEF IndInv, TypeOK, Step, NoStep
  <2>2. /\ stepOf' = [stepOf EXCEPT ![o] = s] /\ lastStep' = s
        /\ att' = [att EXCEPT ![a].pc = AfterAllocate(att[a].mode), ![a].step = s]
    BY <1>6
  <2> HIDE DEF s
  <2>3. /\ att' \in [Attempt -> Invocation]
        /\ \A b \in Attempt \ {a} : att'[b] = att[b]
        /\ att'[a].pc \in {"claim", "lookup"}
        /\ att'[a].op = o /\ att'[a].payload = att[a].payload
        /\ att'[a].step = s
    BY <1>1, <2>1, <2>2, TakesStep
  <2>4. /\ stepOf' \in [Op -> Step \cup {NoStep}]
        /\ stepOf'[o] = s
        /\ \A q \in Op \ {o} : stepOf'[q] = stepOf[q]
    BY <1>1, <2>1, <2>2
  <2>5. TypeOK'
    BY <1>2, <2>1, <2>2, <2>3, <2>4 DEF IndInv, TypeOK
  \* No other sender holds a step of o: o had none.
  <2>6. \A b \in Attempt \ {a} : att[b].pc \in Holding => att[b].op # o
    BY <1>6, BoundsAssumption DEF IndInv, SendersNamed, Step, NoStep
  <2>7. SendersNamed'
    <3>1. SUFFICES ASSUME NEW b \in Attempt
                   PROVE  /\ att'[b].pc \in Holding \cup {"decision", "allocate"} =>
                                att'[b].op \in Op /\ att'[b].payload \in Payload
                          /\ att'[b].pc \in Holding =>
                                /\ att'[b].step = stepOf'[att'[b].op]
                                /\ att'[b].step \in Step
      BY DEF SendersNamed
    <3>2. CASE b = a
      BY <1>1, <2>1, <2>3, <2>4, <3>2
    <3>3. CASE b # a
      BY <2>3, <2>4, <2>6, <3>1, <3>3 DEF IndInv, SendersNamed
    <3> QED
      BY <3>2, <3>3
  <2>8. \A q \in Op : stepOf[q] <= lastStep /\ stepOf[q] \in Int
    BY <1>1, BoundsAssumption DEF IndInv, SequenceAhead, Step, NoStep
  <2>9. SequenceAhead'
    <3>1. \A q \in Op : stepOf'[q] <= lastStep'
      BY <2>1, <2>2, <2>4, <2>8
    <3>2. \A t \in Step : ledger[t].state # "absent" => t <= lastStep'
      BY <2>1, <2>2, BoundsAssumption DEF IndInv, SequenceAhead, Step
    <3> QED
      BY <1>2, <3>1, <3>2 DEF SequenceAhead
  <2>10. StepsDistinct'
    BY <2>1, <2>4, <2>8 DEF IndInv, StepsDistinct
  <2>11. OneCaller'
    <3>1. \A b \in Attempt : att'[b].pc = "send" => att'[b] = att[b]
      BY <2>3
    <3>2. \A q \in Op : calls[q] > 0 => q # o
      BY <1>6 DEF IndInv, OneCaller
    <3> QED
      BY <1>2, <2>4, <3>1, <3>2 DEF IndInv, OneCaller, Marked
  <2> QED
    BY <2>5, <2>7, <2>9, <2>10, <2>11 DEF IndInv
<1> QED
  BY <1>4, <1>5, <1>6 DEF AllocateStep

\* Every step of a sender keeps the invariant.
LEMMA SenderIndInv ==
    ASSUME IndInv, NEW a \in Attempt, Sender(a) PROVE IndInv'
  BY StartIndInv, StartDrainIndInv, LookupTerminalDecisionIndInv,
     AllocateStepIndInv, ClaimSendStartIndInv, LookupIndInv, BeginIndInv,
     MarkUnknownIndInv, ReclaimPreSendIndInv, DoSendIndInv, SendReturnsIndInv,
     CommitIndInv, MarkFailedIndInv, ParkUncertainIndInv, InspectIndInv,
     FinishIndInv
  DEF Sender

\* A step of the platform, the recovery or the operator moves no sender.
LEMMA BystanderStep ==
    ASSUME IndInv, UNCHANGED <<stepOf, lastStep, att, calls, restarts>>,
           RowsAdvance,
           operator' \in [Op -> {"none", "delivered", "discarded"}],
           noReply' \in SUBSET Op,
           batch' \in SUBSET Step,
           wire' \in SUBSET Message,
           accepted' \in SUBSET Message
    PROVE  IndInv'
<1>1. TypeOK'
  BY DEF IndInv, TypeOK, RowsAdvance
<1>2. SendersNamed' /\ SequenceAhead' /\ StepsDistinct'
  BY DEF IndInv, SendersNamed, SequenceAhead, StepsDistinct, RowsAdvance
<1>3. OneCaller'
  <2>1. \A b \in Attempt : att[b].pc = "send" =>
           /\ att[b].step \in Step /\ Marked(att[b].step)
           /\ att[b].op \in Op /\ calls[att[b].op] = 0
    BY DEF IndInv, SendersNamed, OneCaller, Holding
  <2>2. \A o \in Op : calls[o] > 0 => stepOf[o] \in Step /\ Marked(stepOf[o])
    BY DEF IndInv, OneCaller, TypeOK
  <2> QED
    BY <2>1, <2>2 DEF IndInv, OneCaller, RowsAdvance, Marked
<1> QED
  BY <1>1, <1>2, <1>3 DEF IndInv

\* The platform's own step changes neither store nor senders.
LEMMA PlatformAcceptIndInv ==
    ASSUME IndInv, NEW m \in Message, PlatformAccept(m) PROVE IndInv'
<1>1. RowsAdvance
  BY UnchangedRowsAdvance DEF PlatformAccept, store
<1> QED
  BY <1>1, BystanderStep DEF PlatformAccept, IndInv, TypeOK, store

\* A scan only reads the rows.
LEMMA RecoveryScanIndInv ==
    ASSUME IndInv, RecoveryScan PROVE IndInv'
<1>1. RowsAdvance
  BY UnchangedRowsAdvance DEF RecoveryScan, store
<1>2. batch' \in SUBSET Step
  BY DEF RecoveryScan, Unreconciled
<1> QED
  BY <1>1, <1>2, BystanderStep DEF RecoveryScan, IndInv, TypeOK, store, platform

\* The recovery parks a row that is in flight, or leaves it.
LEMMA RecoveryParkIndInv ==
    ASSUME IndInv, NEW s \in Step, RecoveryPark(s) PROVE IndInv'
<1>1. RowsAdvance
  BY ParkRowAdvances DEF RecoveryPark
<1> QED
  BY <1>1, BystanderStep DEF RecoveryPark, IndInv, TypeOK, platform

\* Giving up a pass changes no row.
LEMMA RecoveryStopIndInv ==
    ASSUME IndInv, RecoveryStop PROVE IndInv'
<1>1. RowsAdvance
  BY UnchangedRowsAdvance DEF RecoveryStop, store
<1> QED
  BY <1>1, BystanderStep DEF RecoveryStop, IndInv, TypeOK, store, platform

\* A decision changes no row and no step.
LEMMA RecordTerminalDecisionIndInv ==
    ASSUME IndInv, NEW o \in AnnounceOp, NEW outcome \in Outcome,
           RecordTerminalDecision(o, outcome)
    PROVE  IndInv'
<1>1. RowsAdvance
  BY UnchangedRowsAdvance DEF RecordTerminalDecision
<1>2. o \in Op
  BY DEF Op
<1>3. operator' \in [Op -> {"none", "delivered", "discarded"}]
  BY DEF RecordTerminalDecision, IndInv, TypeOK, Outcome
<1>4. noReply' \in SUBSET Op
  BY <1>2 DEF RecordTerminalDecision, IndInv, TypeOK
<1> QED
  BY <1>1, <1>3, <1>4, BystanderStep
  DEF RecordTerminalDecision, IndInv, TypeOK, platform

\* A restart forgets the senders, and with them whoever was about to call.
LEMMA RestartIndInv ==
    ASSUME IndInv, Restart PROVE IndInv'
<1>1. Idle \in Invocation /\ Idle.pc = "idle"
  BY DEF Idle, Invocation, PC, Mode, Result
<1>2. /\ att' \in [Attempt -> Invocation]
      /\ \A b \in Attempt : att'[b].pc = "idle"
  BY <1>1 DEF Restart
<1>3. UNCHANGED <<stepOf, lastStep, ledger, operator, noReply, wire, accepted, calls>>
  BY DEF Restart, store, platform
<1>4. TypeOK'
  BY <1>2, <1>3, BoundsAssumption DEF Restart, IndInv, TypeOK
<1>5. SendersNamed' /\ SequenceAhead' /\ StepsDistinct'
  BY <1>2, <1>3 DEF IndInv, SendersNamed, SequenceAhead, StepsDistinct, Holding
<1>6. OneCaller'
  BY <1>2, <1>3 DEF IndInv, OneCaller, Marked
<1> QED
  BY <1>4, <1>5, <1>6 DEF IndInv

\* Every step keeps the invariant.
LEMMA NextIndInv == IndInv /\ [Next]_vars => IndInv'
<1> SUFFICES ASSUME IndInv, [Next]_vars PROVE IndInv'
  OBVIOUS
<1>1. CASE UNCHANGED vars
  BY <1>1, UnchangedRowsAdvance, BystanderStep
  DEF vars, store, platform, IndInv, TypeOK
<1>2. CASE Next
  BY <1>2, SenderIndInv, PlatformAcceptIndInv, RecoveryScanIndInv,
     RecoveryParkIndInv, RecoveryStopIndInv, RecordTerminalDecisionIndInv,
     RestartIndInv
  DEF Next
<1> QED
  BY <1>1, <1>2

\* The strengthened invariant holds in every reachable state of the ledger.
THEOREM Invariance == Spec => []IndInv
  BY InitIndInv, NextIndInv, PTL DEF Spec

\* Every reachable state is well typed: each store method, sender step and
\* recovery step writes only values the schema and the sender's types allow.
THEOREM TypeCorrect == Spec => []TypeOK
<1>1. IndInv => TypeOK
  BY DEF IndInv
<1> QED
  BY <1>1, Invariance, PTL

\* At most one platform call per operation, for any number of operations,
\* senders, recovery passes and restarts: wrapOutwardSend, the announcements
\* and the drain cannot send twice, whatever fails in between.
THEOREM AtMostOnce == Spec => []AtMostOneCall
<1>1. IndInv => AtMostOneCall
  BY DEF IndInv, OneCaller, AtMostOneCall
<1> QED
  BY <1>1, Invariance, PTL

\* allocateStep never gives two operations the same step, although it reads
\* three tables and only the sequence is written in the same transaction.
THEOREM DistinctSteps == Spec => []StepsDistinct
<1>1. IndInv => StepsDistinct
  BY DEF IndInv
<1> QED
  BY <1>1, Invariance, PTL
=============================================================================
