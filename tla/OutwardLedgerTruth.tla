-------------------------- MODULE OutwardLedgerTruth --------------------------
(***************************************************************************)
(* Proofs that the ledger tells the truth about the platform, on top of    *)
(* OutwardLedgerProofs: what a row and a sender's answer claim has really  *)
(* happened, decisions agree with receipts, and the ledger implements      *)
(* OutwardOperation.                                                       *)
(*                                                                         *)
(* None of these is inductive alone.  A receipt belongs to its row because *)
(* at most one sender per operation is between markUnknown and the verdict *)
(* and because that row still has the content it was begun for, which a    *)
(* reclaim in between could have changed, were the content of a background *)
(* completion not fixed.  A rejection is final because every message of an *)
(* operation stems from that one sender.  Truth states this.               *)
(***************************************************************************)
EXTENDS OutwardLedgerProofs

\* From markUnknown to the verdict.
Sending == {"send", "await", "commit", "fail"}

\* Nothing of operation o is at the platform, or on its way to it.
Silent(o) == \A p \in Payload : <<o, p>> \notin wire /\ <<o, p>> \notin accepted

\* A reclaim, and a verdict read off a row, are for background completions,
\* and all senders of one carry the same content.
ContentFixed(a) ==
    /\ att[a].mode \in {"background", "reconcile"} => att[a].op \in BackgroundOp
    /\ att[a].op \in BackgroundOp => att[a].payload \in PayloadsOf(att[a].op)
    /\ att[a].pc \in {"reclaim", "inspect"} =>
          att[a].mode \in {"background", "reconcile"}

\* A sender past begin works for the content its row was begun with.
RowIsOwn(a) ==
    att[a].pc \in Sending \cup {"mark"} =>
        \/ att[a].op \in BackgroundOp
        \/ /\ ledger[att[a].step].state # "absent"
           /\ ledger[att[a].step].payload = att[a].payload

\* What the stages of the platform call stand for.
CallIsReal(a) ==
    /\ att[a].pc \in Sending =>
          ledger[att[a].step].state \in {"unknown_after_send", "unresolved"}
    /\ att[a].pc \in {"await", "commit", "fail"} => calls[att[a].op] = 1
    /\ att[a].pc = "commit" => MessageOf(a) \in accepted
    /\ att[a].pc = "fail" => Silent(att[a].op)

\* What a returned result stands for.
AnswerIsReal(a) ==
    att[a].pc = "done" =>
        /\ att[a].result = "delivered" => MessageOf(a) \in accepted
        /\ att[a].result = "permanent" =>
              /\ att[a].op \in Op /\ stepOf[att[a].op] # NoStep
              /\ ledger[stepOf[att[a].op]].state = "failed"

SenderTrue(a) ==
    ContentFixed(a) /\ RowIsOwn(a) /\ CallIsReal(a) /\ AnswerIsReal(a)

\* One sender of an operation at a time is past markUnknown.
OneSending ==
    \A a, b \in Attempt :
        (att[a].pc \in Sending /\ att[b].pc \in Sending /\ att[a].op = att[b].op)
            => a = b

\* What an operation's row claims of the platform.
RowTrue(o) ==
    stepOf[o] # NoStep =>
        LET row == ledger[stepOf[o]]
        IN  /\ (o \in BackgroundOp /\ row.state # "absent") =>
                  row.payload \in PayloadsOf(o)
            /\ row.state = "committed" =>
                  row.receipt = row.payload /\ <<o, row.payload>> \in accepted
            /\ row.state = "failed" => Silent(o)

\* Every message at the platform stems from the one call of its operation and
\* carries its row's content.
MessagesTraced ==
    /\ \A m \in wire : m \notin accepted
    /\ \A o \in Op, p \in Payload :
          (<<o, p>> \in wire \/ <<o, p>> \in accepted) =>
              calls[o] = 1 /\ ledger[stepOf[o]].payload = p

\* A decided operation is not in flight, and a committed one is delivered.
DecisionHolds(o) ==
    /\ o \in noReply => operator[o] = "none"
    /\ (TerminalDecision(o) # "none" /\ stepOf[o] # NoStep) =>
          /\ ledger[stepOf[o]].state \notin InFlight
          /\ ledger[stepOf[o]].state = "committed" => TerminalDecision(o) = "delivered"

Truth ==
    /\ \A a \in Attempt : SenderTrue(a)
    /\ OneSending
    /\ \A o \in Op : RowTrue(o)
    /\ MessagesTraced
    /\ \A o \in Op : DecisionHolds(o)

-----------------------------------------------------------------------------
(* Truth is inductive, given IndInv.                                       *)

\* The empty store makes no claim.
LEMMA InitTruth == Init => Truth
<1> SUFFICES ASSUME Init PROVE Truth
  OBVIOUS
<1>1. /\ att = [a \in Attempt |-> Idle] /\ stepOf = [o \in Op |-> NoStep]
      /\ wire = {} /\ accepted = {} /\ noReply = {}
  BY DEF Init
<1>2. \A a \in Attempt : att[a].pc = "idle" /\ att[a].mode = "wrap" /\ att[a].op = NoOp
  BY <1>1 DEF Idle
<1>3. NoOp \notin BackgroundOp
  BY NullsAssumption DEF Op, NoOp
<1>4. \A a \in Attempt : SenderTrue(a)
  BY <1>2, <1>3 DEF SenderTrue, ContentFixed, RowIsOwn, CallIsReal, AnswerIsReal, Sending
<1>5. OneSending
  BY <1>2 DEF OneSending, Sending
<1>6. \A o \in Op : RowTrue(o) /\ DecisionHolds(o)
  BY <1>1 DEF RowTrue, DecisionHolds
<1>7. MessagesTraced
  BY <1>1 DEF MessagesTraced
<1> QED
  BY <1>4, <1>5, <1>6, <1>7 DEF Truth

\* Rows stay as they are, or are parked.
RowsCalm ==
    \A s \in Step :
        \/ ledger'[s] = ledger[s]
        \/ /\ ledger[s].state \in InFlight
           /\ ledger'[s].state = "unresolved"
           /\ ledger'[s].payload = ledger[s].payload

\* A sender that is not past begin.
Calm(a) == att[a].pc \notin Sending \cup {"mark"}

\* A step that at most parks rows and takes senders out of the call, or leaves
\* them where they are, keeps Truth if what they return is true.
LEMMA CalmStep ==
    ASSUME IndInv, IndInv', Truth, RowsCalm,
           UNCHANGED <<stepOf, operator, noReply, wire, accepted, calls>>,
           \A b \in Attempt :
              \/ att'[b] = att[b]
              \/ Calm(b)' /\ ContentFixed(b)' /\ AnswerIsReal(b)'
    PROVE  Truth'
<1>1. \A o \in Op : stepOf[o] # NoStep => stepOf[o] \in Step
  BY DEF IndInv, TypeOK
<1>2. \A b \in Attempt : att[b].pc \in Holding =>
         att[b].step \in Step /\ att[b].op \in Op /\ att[b].step = stepOf[att[b].op]
  BY DEF IndInv, SendersNamed
<1>3. Sending \cup {"mark"} \subseteq Holding
  BY DEF Sending, Holding
<1>4. \A o : Silent(o)' <=> Silent(o)
  BY DEF Silent
<1>5. \A b \in Attempt : SenderTrue(b)'
  <2> SUFFICES ASSUME NEW b \in Attempt PROVE SenderTrue(b)'
    OBVIOUS
  <2>1. CASE Calm(b)' /\ ContentFixed(b)' /\ AnswerIsReal(b)'
    BY <2>1 DEF SenderTrue, Calm, RowIsOwn, CallIsReal, Sending
  <2>2. CASE att'[b] = att[b]
    <3>1. ContentFixed(b) /\ RowIsOwn(b) /\ CallIsReal(b) /\ AnswerIsReal(b)
      BY DEF Truth, SenderTrue
    <3>2. ContentFixed(b)'
      BY <2>2, <3>1 DEF ContentFixed, PayloadsOf
    <3>3. RowIsOwn(b)'
      BY <1>2, <1>3, <2>2, <3>1 DEF RowIsOwn, RowsCalm, InFlight
    <3>4. CallIsReal(b)'
      BY <1>2, <1>3, <1>4, <2>2, <3>1 DEF CallIsReal, RowsCalm, MessageOf, Sending, InFlight
    <3>5. AnswerIsReal(b)'
      BY <1>1, <2>2, <3>1 DEF AnswerIsReal, RowsCalm, MessageOf, InFlight
    <3> QED
      BY <3>2, <3>3, <3>4, <3>5 DEF SenderTrue
  <2> QED
    BY <2>1, <2>2
<1>6. OneSending'
  BY DEF Truth, OneSending, Calm
<1>7. \A o \in Op : RowTrue(o)'
  <2> SUFFICES ASSUME NEW o \in Op, stepOf[o] # NoStep PROVE RowTrue(o)'
    BY DEF RowTrue
  <2>1. RowTrue(o) /\ stepOf[o] \in Step
    BY <1>1 DEF Truth
  <2> QED
    BY <1>4, <2>1 DEF RowTrue, RowsCalm, InFlight, PayloadsOf
<1>8. MessagesTraced'
  <2>1. \A o \in Op : calls[o] = 1 => stepOf[o] \in Step
    BY <1>1 DEF IndInv, OneCaller
  <2> QED
    BY <2>1 DEF Truth, MessagesTraced, RowsCalm
<1>9. \A o \in Op : DecisionHolds(o)'
  <2> SUFFICES ASSUME NEW o \in Op PROVE DecisionHolds(o)'
    OBVIOUS
  <2>1. DecisionHolds(o) /\ (stepOf[o] # NoStep => stepOf[o] \in Step)
    BY <1>1 DEF Truth
  <2> QED
    BY <2>1 DEF DecisionHolds, RowsCalm, TerminalDecision, InFlight
<1> QED
  BY <1>5, <1>6, <1>7, <1>8, <1>9 DEF Truth

\* Only sender a moves, and it keeps what it works on.
Steers(a) ==
    /\ \A b \in Attempt \ {a} : att'[b] = att[b]
    /\ att'[a].mode = att[a].mode
    /\ att'[a].op = att[a].op
    /\ att'[a].payload = att[a].payload
    /\ att'[a].step = att[a].step

\* Where Goto and Return leave a sender.
LEMMA GotoSteers ==
    ASSUME att \in [Attempt -> Invocation], NEW a \in Attempt, NEW label,
           Goto(a, label)
    PROVE  Steers(a) /\ att'[a].pc = label
<1>1. att[a] \in Invocation
  OBVIOUS
<1>2. att' = [att EXCEPT ![a] = [att[a] EXCEPT !.pc = label]]
  BY DEF Goto
<1>3. att'[a] = [att[a] EXCEPT !.pc = label] /\ \A b \in Attempt \ {a} : att'[b] = att[b]
  BY <1>2
<1> QED
  BY <1>1, <1>3 DEF Steers, Invocation

\* A return changes the sender that returns, and no other.
LEMMA ReturnSteers ==
    ASSUME att \in [Attempt -> Invocation], NEW a \in Attempt, NEW r, Return(a, r)
    PROVE  Steers(a) /\ att'[a].pc = "done" /\ att'[a].result = r
<1>1. att[a] \in Invocation
  OBVIOUS
<1>2. att' = [att EXCEPT ![a] = [att[a] EXCEPT !.pc = "done", !.result = r]]
  BY DEF Return
<1>3. /\ att'[a] = [att[a] EXCEPT !.pc = "done", !.result = r]
      /\ \A b \in Attempt \ {a} : att'[b] = att[b]
  BY <1>2
<1> QED
  BY <1>1, <1>3 DEF Steers, Invocation

\* An error takes a sender to a place, or an answer, that claims nothing.
LEMMA UnsuccessfulSteers ==
    ASSUME att \in [Attempt -> Invocation], NEW a \in Attempt, NEW modes,
           Unsuccessful(a) \/ ParkOrUnsuccessful(a, modes)
    PROVE  /\ Steers(a)
           /\ \/ att'[a].pc = "park"
              \/ att'[a].pc = "inspect" /\ att[a].mode = "background"
              \/ att'[a].pc = "done" /\ att'[a].result = "blocked"
  BY GotoSteers, ReturnSteers DEF Unsuccessful, ParkOrUnsuccessful

\* A sender that moves to a calm place, or returns a true answer, keeps Truth.
LEMMA CalmSender ==
    ASSUME IndInv, IndInv', Truth, RowsCalm, NEW a \in Attempt, Steers(a),
           UNCHANGED <<stepOf, operator, noReply, wire, accepted, calls>>,
           \/ att'[a].pc \in {"allocate", "lookup", "begin", "park"}
           \/ /\ att'[a].pc \in {"reclaim", "inspect"}
              /\ att[a].mode \in {"background", "reconcile"}
           \/ att'[a].pc = "done" /\ AnswerIsReal(a)'
    PROVE  Truth'
<1>1. Calm(a)'
  BY DEF Calm, Sending
<1>2. ContentFixed(a)
  BY DEF Truth, SenderTrue
<1>3. ContentFixed(a)'
  BY <1>2 DEF ContentFixed, Steers, PayloadsOf
<1>4. AnswerIsReal(a)'
  BY DEF AnswerIsReal
<1>5. \A b \in Attempt : att'[b] = att[b] \/ b = a
  BY DEF Steers
<1> QED
  BY <1>1, <1>3, <1>4, <1>5, CalmStep

\* Unchanged rows are calm.
LEMMA UnchangedRowsCalm == ASSUME UNCHANGED ledger PROVE RowsCalm
  BY DEF RowsCalm

\* parkUncertain's statement is calm.
LEMMA ParkRowCalm ==
    ASSUME IndInv, NEW s \in Step, ParkRow(s) PROVE RowsCalm
<1>1. CASE ledger[s].state \in InFlight
  <2>1. "unresolved" \in InFlight \cup Settled
    BY DEF Settled
  <2> QED
    BY <1>1, <2>1, SetStateRow DEF ParkRow, RowsCalm, IndInv, TypeOK
<1>2. CASE ledger[s].state \notin InFlight
  BY <1>2 DEF ParkRow, RowsCalm
<1> QED
  BY <1>1, <1>2

\* A verdict read off the row of a background completion is true.
LEMMA ClassifyTrue ==
    ASSUME IndInv, Truth, NEW a \in Attempt, att[a].pc \in Holding,
           att[a].mode \in {"background", "reconcile"},
           NEW r, r = Classify(ledger[att[a].step].state)
    PROVE  /\ r = "delivered" => MessageOf(a) \in accepted
           /\ r = "permanent" => ledger[stepOf[att[a].op]].state = "failed"
           /\ r = "retryable" => ledger[att[a].step].state = "absent"
<1> DEFINE o == att[a].op
           row == ledger[att[a].step]
<1>1. o \in Op /\ att[a].step = stepOf[o] /\ stepOf[o] # NoStep
  BY BoundsAssumption, HolderNamed DEF Step, NoStep
<1>2. o \in BackgroundOp /\ att[a].payload \in PayloadsOf(o)
  BY DEF Truth, SenderTrue, ContentFixed
<1>3. /\ row.state # "absent" => row.payload \in PayloadsOf(o)
      /\ row.state = "committed" => <<o, row.payload>> \in accepted
  BY <1>1, <1>2 DEF Truth, RowTrue
<1>4. r = "delivered" => row.state = "committed"
  BY DEF Classify
<1>5. (r = "permanent" => row.state = "failed") /\ (r = "retryable" => row.state = "absent")
  BY DEF Classify
<1>6. row.state = "committed" => row.payload = att[a].payload
  BY <1>2, <1>3 DEF PayloadsOf
<1> QED
  BY <1>1, <1>3, <1>4, <1>5, <1>6 DEF MessageOf

\* A new invocation has the content of its operation and no claim.
LEMMA StartTruth ==
    ASSUME IndInv, IndInv', Truth, NEW a \in Attempt, NEW o \in Op,
           NEW mode \in Mode, NEW p \in Payload, Start(a, o, mode, p)
    PROVE  Truth'
<1> DEFINE r == [Idle EXCEPT !.pc = FirstLabel(mode), !.mode = mode, !.op = o,
                             !.payload = p]
<1>1. /\ r.pc \in {"decision", "allocate"} /\ r.mode = mode
      /\ r.op = o /\ r.payload = p
  BY DEF Idle, FirstLabel
<1>2. att' = [att EXCEPT ![a] = r] /\ att \in [Attempt -> Invocation]
  BY DEF Start, IndInv, TypeOK
<1> HIDE DEF r
<1>3. att'[a] = r /\ \A b \in Attempt : b # a => att'[b] = att[b]
  BY <1>2
<1>4. mode \in {"background", "reconcile"} => o \in BackgroundOp
  BY DEF Start, ModesOf
<1>5. ContentFixed(a)'
  BY <1>1, <1>3, <1>4 DEF Start, ContentFixed, PayloadsOf
<1>6. Calm(a)' /\ AnswerIsReal(a)'
  BY <1>1, <1>3 DEF Calm, Sending, AnswerIsReal
<1>7. UNCHANGED <<stepOf, ledger, operator, noReply, wire, accepted, calls>>
  BY DEF Start, store, platform
<1> QED
  BY <1>3, <1>5, <1>6, <1>7, UnchangedRowsCalm, CalmStep

\* So has a drain, which is never for a background completion.
LEMMA StartDrainTruth ==
    ASSUME IndInv, IndInv', Truth, NEW a \in Attempt, NEW o \in AnnounceOp,
           NEW p \in Payload, StartDrain(a, o, p)
    PROVE  Truth'
<1> DEFINE r == [Idle EXCEPT !.pc = "lookup", !.mode = "drain", !.op = o,
                             !.payload = p, !.step = stepOf[o]]
<1>1. r.pc = "lookup" /\ r.mode = "drain" /\ r.op = o /\ o \notin BackgroundOp
  BY OpKindsDisjoint DEF Idle
<1>2. att' = [att EXCEPT ![a] = r] /\ att \in [Attempt -> Invocation]
  BY DEF StartDrain, IndInv, TypeOK
<1> HIDE DEF r
<1>3. att'[a] = r /\ \A b \in Attempt : b # a => att'[b] = att[b]
  BY <1>2
<1>4. ContentFixed(a)' /\ Calm(a)' /\ AnswerIsReal(a)'
  BY <1>1, <1>3 DEF ContentFixed, Calm, Sending, AnswerIsReal
<1>5. UNCHANGED <<stepOf, ledger, operator, noReply, wire, accepted, calls>>
  BY DEF StartDrain, store, platform
<1> QED
  BY <1>3, <1>4, <1>5, UnchangedRowsCalm, CalmStep

\* A free slot claims nothing.
LEMMA IdleTrue ==
    ASSUME NEW a \in Attempt, att'[a] = Idle
    PROVE  Calm(a)' /\ ContentFixed(a)' /\ AnswerIsReal(a)'
<1>1. att'[a].pc = "idle" /\ att'[a].mode = "wrap" /\ att'[a].op = NoOp
  BY DEF Idle
<1>2. NoOp \notin BackgroundOp
  BY NullsAssumption DEF Op, NoOp
<1> QED
  BY <1>1, <1>2 DEF Calm, Sending, ContentFixed, AnswerIsReal

\* A sender that leaves takes no claim with it.
LEMMA FinishTruth ==
    ASSUME IndInv, IndInv', Truth, NEW a \in Attempt, Finish(a) PROVE Truth'
<1>1. att'[a] = Idle /\ \A b \in Attempt : b # a => att'[b] = att[b]
  BY DEF Finish, IndInv, TypeOK
<1>2. UNCHANGED <<stepOf, ledger, operator, noReply, wire, accepted, calls>>
  BY DEF Finish, store, platform
<1> QED
  BY <1>1, <1>2, IdleTrue, UnchangedRowsCalm, CalmStep

\* A decision already taken is no delivery.
LEMMA LookupTerminalDecisionTruth ==
    ASSUME IndInv, IndInv', Truth, NEW a \in Attempt, LookupTerminalDecision(a)
    PROVE  Truth'
<1>1. att \in [Attempt -> Invocation]
  BY DEF IndInv, TypeOK
<1>2. /\ Steers(a)
      /\ \/ att'[a].pc = "allocate"
         \/ att'[a].pc = "done" /\ att'[a].result \in {"decided", "blocked"}
  BY <1>1, GotoSteers, ReturnSteers DEF LookupTerminalDecision
<1>3. UNCHANGED <<stepOf, ledger, operator, noReply, wire, accepted, calls>>
  BY DEF LookupTerminalDecision, store, platform
<1> QED
  BY <1>2, <1>3, UnchangedRowsCalm, CalmSender DEF AnswerIsReal

\* The background claim of a task only leads to its lookup or its end.
LEMMA ClaimSendStartTruth ==
    ASSUME IndInv, IndInv', Truth, NEW a \in Attempt, ClaimSendStart(a)
    PROVE  Truth'
<1>1. att \in [Attempt -> Invocation]
  BY DEF IndInv, TypeOK
<1>2. /\ Steers(a)
      /\ \/ att'[a].pc = "lookup"
         \/ att'[a].pc = "done" /\ att'[a].result = "retryable"
  BY <1>1, GotoSteers, ReturnSteers DEF ClaimSendStart
<1>3. UNCHANGED <<stepOf, ledger, operator, noReply, wire, accepted, calls>>
  BY DEF ClaimSendStart, store, platform
<1> QED
  BY <1>2, <1>3, UnchangedRowsCalm, CalmSender DEF AnswerIsReal

\* A suppressed duplicate is a delivery only if the committed row is about the
\* same content; a reconciliation's verdict is the row's.
LEMMA LookupTruth ==
    ASSUME IndInv, IndInv', Truth, NEW a \in Attempt, Lookup(a) PROVE Truth'
<1> DEFINE row == ledger[att[a].step]
<1>1. att[a].pc \in Holding
  BY DEF Lookup, Holding
<1>2. /\ att \in [Attempt -> Invocation]
      /\ att[a].op \in Op /\ att[a].step = stepOf[att[a].op]
      /\ stepOf[att[a].op] # NoStep
  BY <1>1, BoundsAssumption, HolderNamed DEF Step, NoStep
<1>3. UNCHANGED <<stepOf, ledger, operator, noReply, wire, accepted, calls>>
  BY DEF Lookup, store, platform
<1>4. CASE att[a].mode = "reconcile" /\ ReconcileFromRow(a, row)
  <2>1. CASE Goto(a, "reclaim")
    BY <1>2, <1>3, <1>4, <2>1, GotoSteers, UnchangedRowsCalm, CalmSender
  <2>2. CASE Return(a, Classify(row.state))
    <3> DEFINE r == Classify(row.state)
    <3>1. /\ r = "delivered" => MessageOf(a) \in accepted
          /\ r = "permanent" => ledger[stepOf[att[a].op]].state = "failed"
      BY <1>1, <1>4, ClassifyTrue
    <3> HIDE DEF r
    <3>2. Steers(a) /\ att'[a].pc = "done" /\ att'[a].result = r
      BY <1>2, <2>2, ReturnSteers DEF r
    <3>3. AnswerIsReal(a)'
      BY <1>2, <1>3, <3>1, <3>2 DEF AnswerIsReal, Steers, MessageOf
    <3> QED
      BY <1>3, <3>2, <3>3, UnchangedRowsCalm, CalmSender
  <2> QED
    BY <1>4, <2>1, <2>2 DEF ReconcileFromRow
<1>5. CASE Goto(a, "begin")
  BY <1>2, <1>3, <1>5, GotoSteers, UnchangedRowsCalm, CalmSender
<1>6. CASE Unsuccessful(a) \/ \E modes : ParkOrUnsuccessful(a, modes)
  BY <1>2, <1>3, <1>6, UnsuccessfulSteers, UnchangedRowsCalm, CalmSender
  DEF AnswerIsReal
<1>7. CASE /\ row.payload = att[a].payload
           /\ row.state = "committed"
           /\ Return(a, "delivered")
  <2>1. MessageOf(a) \in accepted
    BY <1>2, <1>7 DEF Truth, RowTrue, MessageOf
  <2>2. Steers(a) /\ att'[a].pc = "done" /\ att'[a].result = "delivered"
    BY <1>2, <1>7, ReturnSteers
  <2>3. AnswerIsReal(a)'
    BY <1>3, <2>1, <2>2 DEF AnswerIsReal, Steers, MessageOf
  <2> QED
    BY <1>3, <2>2, <2>3, UnchangedRowsCalm, CalmSender
<1> QED
  BY <1>4, <1>5, <1>6, <1>7 DEF Lookup, SuppressDuplicate

\* Parking by a sender: the row becomes unresolved at most.
LEMMA ParkUncertainTruth ==
    ASSUME IndInv, IndInv', Truth, NEW a \in Attempt, ParkUncertain(a) PROVE Truth'
<1>1. att[a].pc \in Holding
  BY DEF ParkUncertain, Holding
<1>2. att \in [Attempt -> Invocation] /\ att[a].step \in Step
  BY <1>1, HolderNamed
<1>3. UNCHANGED <<stepOf, operator, noReply, wire, accepted, calls>>
  BY DEF ParkUncertain, platform
<1>4. RowsCalm
  BY <1>2, ParkRowCalm, UnchangedRowsCalm DEF ParkUncertain
<1> QED
  BY <1>2, <1>3, <1>4, UnsuccessfulSteers, CalmSender DEF ParkUncertain, AnswerIsReal

\* The verdict of a background delivery is its row's.
LEMMA InspectTruth ==
    ASSUME IndInv, IndInv', Truth, NEW a \in Attempt, Inspect(a) PROVE Truth'
<1> DEFINE row == ledger[att[a].step]
           c == Classify(row.state)
<1>1. att[a].pc \in Holding /\ att[a].mode \in {"background", "reconcile"}
  BY DEF Inspect, Holding, Truth, SenderTrue, ContentFixed
<1>2. /\ att \in [Attempt -> Invocation]
      /\ att[a].op \in Op /\ stepOf[att[a].op] # NoStep
  BY <1>1, BoundsAssumption, HolderNamed DEF Step, NoStep
<1>3. UNCHANGED <<stepOf, ledger, operator, noReply, wire, accepted, calls>>
  BY DEF Inspect, store, platform
<1>4. /\ c = "delivered" => MessageOf(a) \in accepted
      /\ c = "permanent" => ledger[stepOf[att[a].op]].state = "failed"
  BY <1>1, ClassifyTrue
<1>5. PICK r \in {c, "uncertain"} : Return(a, r)
  BY DEF Inspect
<1> HIDE DEF c
<1>6. Steers(a) /\ att'[a].pc = "done" /\ att'[a].result = r
  BY <1>2, <1>5, ReturnSteers
<1>7. AnswerIsReal(a)'
  BY <1>2, <1>3, <1>4, <1>5, <1>6 DEF AnswerIsReal, Steers, MessageOf
<1> QED
  BY <1>3, <1>6, <1>7, UnchangedRowsCalm, CalmSender

\* The step is about operation o alone.
Concerns(o) ==
    /\ \A q \in Op \ {o} :
          /\ stepOf'[q] = stepOf[q]
          /\ calls'[q] = calls[q]
          /\ operator'[q] = operator[q]
          /\ q \in noReply' <=> q \in noReply
          /\ stepOf[q] # NoStep => ledger'[stepOf[q]] = ledger[stepOf[q]]
          /\ \A p \in Payload : /\ <<q, p>> \in wire' <=> <<q, p>> \in wire
                                /\ <<q, p>> \in accepted' <=> <<q, p>> \in accepted
    /\ \A b \in Attempt :
          /\ att'[b].op = att[b].op
          /\ att[b].op # o => att'[b] = att[b]

\* What messages of o prove, and what is left to show for o itself.
TracedTo(o) ==
    \A p \in Payload :
        /\ <<o, p>> \in wire => <<o, p>> \notin accepted
        /\ (<<o, p>> \in wire \/ <<o, p>> \in accepted) =>
               calls[o] = 1 /\ ledger[stepOf[o]].payload = p

OneSendingOf(o) ==
    \A a, b \in Attempt :
        (/\ att[a].pc \in Sending /\ att[b].pc \in Sending
         /\ att[a].op = o /\ att[b].op = o) => a = b

\* A step about one operation keeps Truth if it keeps it for that operation.
LEMMA OperationStep ==
    ASSUME IndInv, IndInv', Truth, NEW o \in Op, Concerns(o),
           \A b \in Attempt : att[b].op = o => SenderTrue(b)',
           OneSendingOf(o)', RowTrue(o)', TracedTo(o)', DecisionHolds(o)'
    PROVE  Truth'
<1>1. \A q \in Op : stepOf[q] # NoStep => stepOf[q] \in Step
  BY DEF IndInv, TypeOK
<1>2. \A b \in Attempt : att[b].pc \in Holding =>
         /\ att[b].step \in Step /\ att[b].op \in Op /\ att[b].payload \in Payload
         /\ att[b].step = stepOf[att[b].op] /\ att[b].step # NoStep
  BY BoundsAssumption DEF IndInv, SendersNamed, Step, NoStep
<1>3. Sending \cup {"mark"} \subseteq Holding
  BY DEF Sending, Holding
<1>4. \A q \in Op \ {o} : Silent(q)' <=> Silent(q)
  BY DEF Silent, Concerns
<1>5. \A b \in Attempt : SenderTrue(b)'
  <2> SUFFICES ASSUME NEW b \in Attempt, att[b].op # o PROVE SenderTrue(b)'
    OBVIOUS
  <2>1. att'[b] = att[b]
    BY DEF Concerns
  <2>2. ContentFixed(b) /\ RowIsOwn(b) /\ CallIsReal(b) /\ AnswerIsReal(b)
    BY DEF Truth, SenderTrue
  <2>3. ContentFixed(b)'
    BY <2>1, <2>2 DEF ContentFixed, PayloadsOf
  <2>4. att[b].pc \in Sending \cup {"mark"} =>
           ledger'[att[b].step] = ledger[att[b].step] /\ att[b].op \in Op \ {o}
    BY <1>2, <1>3 DEF Concerns
  <2>5. RowIsOwn(b)'
    BY <2>1, <2>2, <2>4 DEF RowIsOwn
  <2>6. MessageOf(b) \in accepted => MessageOf(b)' \in accepted'
    <3>1. MessageOf(b) \in accepted => att[b].op \in Op /\ att[b].payload \in Payload
      BY DEF IndInv, TypeOK, Message, MessageOf
    <3> QED
      BY <2>1, <3>1 DEF MessageOf, Concerns
  <2>7. CallIsReal(b)'
    BY <1>2, <1>3, <1>4, <2>1, <2>2, <2>4, <2>6 DEF CallIsReal, Sending, Concerns
  <2>8. AnswerIsReal(b)'
    BY <2>1, <2>2, <2>6 DEF AnswerIsReal, Concerns
  <2> QED
    BY <2>3, <2>5, <2>7, <2>8 DEF SenderTrue
<1>6. OneSending'
  BY DEF Truth, OneSending, OneSendingOf, Concerns
<1>7. \A q \in Op : RowTrue(q)'
  <2> SUFFICES ASSUME NEW q \in Op \ {o}, stepOf[q] # NoStep PROVE RowTrue(q)'
    BY DEF RowTrue, Concerns
  <2>1. RowTrue(q)
    BY DEF Truth
  <2>2. \A p : <<q, p>> \in accepted => p \in Payload
    BY DEF IndInv, TypeOK, Message
  <2> QED
    BY <1>4, <2>1, <2>2 DEF RowTrue, Concerns, PayloadsOf
<1>8. MessagesTraced'
  <2>1. \A q \in Op \ {o} : calls[q] = 1 => stepOf[q] # NoStep
    BY DEF IndInv, OneCaller
  <2>2. \A q \in Op : TracedTo(q)'
    <3> SUFFICES ASSUME NEW q \in Op \ {o} PROVE TracedTo(q)'
      OBVIOUS
    <3>1. TracedTo(q)
      BY DEF Truth, MessagesTraced, TracedTo
    <3> QED
      BY <2>1, <3>1 DEF TracedTo, Concerns
  <2>3. \A m \in wire' : \E q \in Op, p \in Payload : m = <<q, p>>
    BY DEF IndInv, TypeOK, Message
  <2> QED
    BY <2>2, <2>3 DEF MessagesTraced, TracedTo
<1>9. \A q \in Op : DecisionHolds(q)'
  BY DEF Truth, DecisionHolds, Concerns, TerminalDecision
<1> QED
  BY <1>5, <1>6, <1>7, <1>8, <1>9 DEF Truth

\* Writing the row of the step a sender holds is about its operation alone.
LEMMA RowStep ==
    ASSUME IndInv, NEW a \in Attempt, att[a].pc \in Holding, Steers(a),
           \A t \in Step : t # att[a].step => ledger'[t] = ledger[t],
           UNCHANGED <<stepOf, operator, noReply, wire, accepted, calls>>
    PROVE  Concerns(att[a].op)
<1> DEFINE o == att[a].op
<1>1. o \in Op /\ att[a].step = stepOf[o]
  BY HolderNamed
<1>2. \A q \in Op \ {o} : stepOf[q] # NoStep => stepOf[q] \in Step /\ stepOf[q] # stepOf[o]
  BY <1>1 DEF IndInv, TypeOK, StepsDistinct
<1> QED
  BY <1>1, <1>2 DEF Concerns, Steers

\* All holders of an operation hold the same step.
LEMMA SameRow ==
    ASSUME IndInv, NEW a \in Attempt, NEW b \in Attempt, att[a].pc \in Holding,
           att[b].pc \in Holding, att[b].op = att[a].op
    PROVE  att[b].step = att[a].step
  BY DEF IndInv, SendersNamed

\* Before markUnknown nobody is past it, nothing is at the platform and nobody
\* was told a verdict.
LEMMA UnmarkedQuiet ==
    ASSUME IndInv, Truth, NEW o \in Op, stepOf[o] # NoStep,
           ledger[stepOf[o]].state \in Unmarked
    PROVE  /\ \A b \in Attempt : att[b].op = o => att[b].pc \notin Sending
           /\ calls[o] # 1
           /\ Silent(o)
<1>1. calls[o] # 1
  BY DEF IndInv, OneCaller, Marked
<1>2. Silent(o)
  BY <1>1 DEF Truth, MessagesTraced, Silent
<1>3. ASSUME NEW b \in Attempt, att[b].op = o PROVE att[b].pc \notin Sending
  <2>1. att[b].pc \in Sending =>
           ledger[att[b].step].state \in {"unknown_after_send", "unresolved"}
    BY DEF Truth, SenderTrue, CallIsReal
  <2>2. att[b].pc \in Sending => att[b].step = stepOf[o]
    BY <1>3 DEF IndInv, SendersNamed, Sending, Holding
  <2> QED
    BY <2>1, <2>2 DEF Unmarked
<1> QED
  BY <1>1, <1>2, <1>3

\* A sender past begin has the content of its row, if there is one.
LEMMA OwnContent ==
    ASSUME IndInv, Truth, NEW a \in Attempt, att[a].pc \in Sending \cup {"mark"},
           ledger[att[a].step].state # "absent"
    PROVE  ledger[att[a].step].payload = att[a].payload
<1>1. att[a].pc \in Holding
  BY DEF Sending, Holding
<1>2. att[a].op \in Op /\ att[a].step = stepOf[att[a].op] /\ stepOf[att[a].op] # NoStep
  BY <1>1, BoundsAssumption, HolderNamed DEF Step, NoStep
<1>3. CASE att[a].op \in BackgroundOp
  <2>1. att[a].payload \in PayloadsOf(att[a].op)
    BY <1>3 DEF Truth, SenderTrue, ContentFixed
  <2>2. ledger[att[a].step].payload \in PayloadsOf(att[a].op)
    BY <1>2, <1>3 DEF Truth, RowTrue
  <2> QED
    BY <1>3, <2>1, <2>2 DEF PayloadsOf
<1>4. CASE att[a].op \notin BackgroundOp
  BY <1>4 DEF Truth, SenderTrue, RowIsOwn
<1> QED
  BY <1>3, <1>4

\* The other senders of an operation that are not past markUnknown.
LEMMA OtherSender ==
    ASSUME IndInv, Truth, NEW a \in Attempt, NEW b \in Attempt,
           att[a].pc \in Holding, att[b].op = att[a].op, att'[b] = att[b],
           UNCHANGED stepOf, accepted \subseteq accepted',
           att[b].pc \notin Sending,
           att[b].pc = "mark" =>
              \/ att[a].op \in BackgroundOp
              \/ /\ ledger'[att[a].step].state # "absent"
                 /\ ledger'[att[a].step].payload = ledger[att[a].step].payload,
           ledger[att[a].step].state = "failed" => ledger'[att[a].step] = ledger[att[a].step]
    PROVE  SenderTrue(b)'
<1>1. ContentFixed(b) /\ RowIsOwn(b) /\ AnswerIsReal(b)
  BY DEF Truth, SenderTrue
<1>2. att[a].step = stepOf[att[a].op]
  BY HolderNamed
<1>3. att[b].pc = "mark" => att[b].step = att[a].step
  BY SameRow DEF Holding
<1>4. ContentFixed(b)'
  BY <1>1 DEF ContentFixed, PayloadsOf
<1>5. RowIsOwn(b)'
  BY <1>1, <1>3 DEF RowIsOwn
<1>6. CallIsReal(b)'
  BY DEF CallIsReal, Sending
<1>7. AnswerIsReal(b)'
  BY <1>1, <1>2 DEF AnswerIsReal, MessageOf
<1> QED
  BY <1>4, <1>5, <1>6, <1>7 DEF SenderTrue

\* A sender that holds a step keeps its content; a calm or returning one
\* claims nothing else.
LEMMA SteersContent ==
    ASSUME Truth, NEW a \in Attempt, Steers(a),
           att'[a].pc \in {"reclaim", "inspect"} =>
              att[a].mode \in {"background", "reconcile"}
    PROVE  ContentFixed(a)'
<1>1. ContentFixed(a)
  BY DEF Truth, SenderTrue
<1> QED
  BY <1>1 DEF ContentFixed, Steers, PayloadsOf

\* Sender a works for operation o and holds its step s.
HoldsRow(a, o, s) ==
    /\ att[a].op = o /\ att[a].step = s
    /\ s = stepOf[o] /\ s # NoStep
    /\ att[a].payload \in Payload
    /\ att \in [Attempt -> Invocation]
    /\ ledger \in [Step -> Row]

\* A sender that holds a step has an operation and a row.
LEMMA HolderHasRow ==
    ASSUME IndInv, NEW a \in Attempt, att[a].pc \in Holding
    PROVE  \E o \in Op, s \in Step : HoldsRow(a, o, s)
  BY BoundsAssumption, HolderNamed DEF HoldsRow, Step, NoStep


\* begin claims the operation: until then it has no message and no decision.
LEMMA BeginTruth ==
    ASSUME IndInv, IndInv', Truth, NEW a \in Attempt, Begin(a) PROVE Truth'
<1>1. att[a].pc \in Holding
  BY DEF Begin, Holding
<1>2. PICK o \in Op, s \in Step : HoldsRow(a, o, s)
  BY <1>1, HolderHasRow
<1> USE <1>2 DEF HoldsRow
<1>3. UNCHANGED <<stepOf, operator, noReply, wire, accepted, calls>>
  BY DEF Begin, platform
<1>4. CASE ParkOrUnsuccessful(a, {"drain"}) /\ UNCHANGED ledger
  BY <1>2, <1>3, <1>4, UnsuccessfulSteers, UnchangedRowsCalm, CalmSender
  DEF AnswerIsReal
<1>5. CASE /\ CanBegin(s)
           /\ ledger' = [ledger EXCEPT ![s] = Started(att[a].payload)]
           /\ Goto(a, "mark")
  <2>1. Steers(a) /\ att'[a].pc = "mark"
    BY <1>2, <1>5, GotoSteers
  <2>2. /\ ledger'[s].state = "send_attempt_started"
        /\ ledger'[s].payload = att[a].payload
        /\ \A t \in Step : t # s => ledger'[t] = ledger[t]
    BY <1>2, <1>5 DEF Started
  <2>3. ledger[s].state = "absent" /\ TerminalDecision(o) = "none"
    BY <1>2, <1>5 DEF CanBegin
  <2>4. /\ \A b \in Attempt : att[b].op = o => att[b].pc \notin Sending
        /\ Silent(o)
    BY <1>2, <2>3, UnmarkedQuiet DEF Unmarked
  <2>5. Concerns(o)
    BY <1>1, <1>3, <2>1, <2>2, RowStep
  <2>6. ASSUME NEW b \in Attempt, att[b].op = o PROVE SenderTrue(b)'
    <3>1. CASE b = a
      <4>1. ContentFixed(a)'
        BY <2>1, SteersContent
      <4> QED
        BY <2>1, <2>2, <3>1, <4>1
        DEF SenderTrue, RowIsOwn, CallIsReal, AnswerIsReal, Sending, Steers
    <3>2. CASE b # a
      <4>1. att'[b] = att[b] /\ att[b].pc \notin Sending
        BY <2>1, <2>4, <2>6, <3>2 DEF Steers
      <4>2. att[b].pc = "mark" => att[b].step = s
        BY <1>1, <2>6, SameRow DEF Holding
      <4>3. att[b].pc = "mark" => o \in BackgroundOp
        BY <2>3, <2>6, <4>2 DEF Truth, SenderTrue, RowIsOwn
      <4> QED
        BY <1>1, <1>3, <2>3, <2>6, <4>1, <4>3, OtherSender
    <3> QED
      BY <3>1, <3>2
  <2>7. OneSendingOf(o)'
    BY <2>1, <2>4 DEF OneSendingOf, Steers, Sending
  <2>8. RowTrue(o)'
    <3>1. o \in BackgroundOp => att[a].payload \in PayloadsOf(o)
      BY DEF Truth, SenderTrue, ContentFixed
    <3> QED
      BY <1>2, <1>3, <2>2, <3>1 DEF RowTrue, PayloadsOf
  <2>9. TracedTo(o)'
    BY <1>3, <2>4 DEF TracedTo, Silent
  <2>10. DecisionHolds(o)'
    <3>1. DecisionHolds(o)
      BY <1>2 DEF Truth
    <3> QED
      BY <1>3, <2>3, <3>1 DEF DecisionHolds, TerminalDecision
  <2> QED
    BY <1>2, <2>5, <2>6, <2>7, <2>8, <2>9, <2>10, OperationStep
<1> QED
  BY <1>4, <1>5 DEF Begin

\* markUnknown's compare-and-set makes its sender the only one past it.
LEMMA MarkUnknownTruth ==
    ASSUME IndInv, IndInv', Truth, NEW a \in Attempt, MarkUnknown(a) PROVE Truth'
<1>1. att[a].pc \in Holding /\ att[a].pc = "mark"
  BY DEF MarkUnknown, Holding
<1>2. PICK o \in Op, s \in Step : HoldsRow(a, o, s)
  BY <1>1, HolderHasRow
<1> USE <1>2 DEF HoldsRow
<1>3. UNCHANGED <<stepOf, operator, noReply, wire, accepted, calls>>
  BY DEF MarkUnknown, platform
<1>4. CASE /\ IF att[a].mode = "background"
              THEN Goto(a, "reclaim")
              ELSE ParkOrUnsuccessful(a, {"announce", "drain"})
           /\ UNCHANGED ledger
  <2>1. /\ Steers(a)
        /\ \/ att'[a].pc = "park"
           \/ att'[a].pc \in {"reclaim", "inspect"} /\ att[a].mode = "background"
           \/ att'[a].pc = "done" /\ att'[a].result = "blocked"
    BY <1>4, GotoSteers, UnsuccessfulSteers
  <2> QED
    BY <1>3, <1>4, <2>1, UnchangedRowsCalm, CalmSender DEF AnswerIsReal
<1>5. CASE /\ ledger[s].state = "send_attempt_started"
           /\ SetState(s, "unknown_after_send")
           /\ Goto(a, "send")
  <2>1. Steers(a) /\ att'[a].pc = "send"
    BY <1>5, GotoSteers
  <2>2. /\ ledger'[s].state = "unknown_after_send"
        /\ ledger'[s].payload = ledger[s].payload
        /\ \A t \in Step : t # s => ledger'[t] = ledger[t]
    BY <1>5, SetStateRow DEF InFlight
  <2>3. /\ \A b \in Attempt : att[b].op = o => att[b].pc \notin Sending
        /\ Silent(o)
    BY <1>5, UnmarkedQuiet DEF Unmarked
  <2>4. Concerns(o)
    BY <1>1, <1>3, <2>1, <2>2, RowStep
  <2>5. ASSUME NEW b \in Attempt, att[b].op = o PROVE SenderTrue(b)'
    <3>1. CASE b = a
      <4>1. ContentFixed(a)'
        BY <2>1, SteersContent
      <4>2. ledger[s].payload = att[a].payload
        BY <1>1, <1>5, OwnContent
      <4> QED
        BY <2>1, <2>2, <3>1, <4>1, <4>2
        DEF SenderTrue, RowIsOwn, CallIsReal, AnswerIsReal, Sending, Steers
    <3>2. CASE b # a
      <4>1. att'[b] = att[b] /\ att[b].pc \notin Sending
        BY <2>1, <2>3, <2>5, <3>2 DEF Steers
      <4> QED
        BY <1>1, <1>3, <1>5, <2>2, <2>5, <4>1, OtherSender
    <3> QED
      BY <3>1, <3>2
  <2>6. OneSendingOf(o)'
    BY <2>1, <2>3 DEF OneSendingOf, Steers, Sending
  <2>7. RowTrue(o)'
    <3>1. RowTrue(o)
      BY DEF Truth
    <3> QED
      BY <1>3, <1>5, <2>2, <3>1 DEF RowTrue, PayloadsOf
  <2>8. TracedTo(o)'
    BY <1>3, <2>3 DEF TracedTo, Silent
  <2>9. DecisionHolds(o)'
    <3>1. DecisionHolds(o)
      BY DEF Truth
    <3> QED
      BY <1>3, <1>5, <3>1 DEF DecisionHolds, TerminalDecision, InFlight
  <2> QED
    BY <2>4, <2>5, <2>6, <2>7, <2>8, <2>9, OperationStep
<1> QED
  BY <1>4, <1>5 DEF MarkUnknown

\* A reclaim deletes the row of a background completion before any message;
\* whoever begins it again has the same content.
LEMMA ReclaimPreSendTruth ==
    ASSUME IndInv, IndInv', Truth, NEW a \in Attempt, ReclaimPreSend(a) PROVE Truth'
<1>1. att[a].pc \in Holding /\ att[a].pc = "reclaim"
  BY DEF ReclaimPreSend, Holding
<1>2. PICK o \in Op, s \in Step : HoldsRow(a, o, s)
  BY <1>1, HolderHasRow
<1> USE <1>2 DEF HoldsRow
<1>3. UNCHANGED <<stepOf, operator, noReply, wire, accepted, calls>>
  BY DEF ReclaimPreSend, platform
<1>4. /\ Steers(a) /\ att'[a].pc = "done"
      /\ att'[a].result \in {"retryable", "uncertain", "blocked"}
  <2>1. \E r \in {"retryable", "uncertain", "blocked"} : Return(a, r)
    BY DEF ReclaimPreSend
  <2> QED
    BY <2>1, ReturnSteers
<1>5. CASE UNCHANGED ledger
  BY <1>3, <1>4, <1>5, UnchangedRowsCalm, CalmSender DEF AnswerIsReal
<1>6. CASE /\ ledger[s].state = "send_attempt_started"
           /\ ledger' = [ledger EXCEPT ![s] = Absent]
  <2>1. o \in BackgroundOp
    BY <1>1 DEF Truth, SenderTrue, ContentFixed
  <2>2. /\ ledger'[s].state = "absent"
        /\ \A t \in Step : t # s => ledger'[t] = ledger[t]
    BY <1>6 DEF Absent
  <2>3. /\ \A b \in Attempt : att[b].op = o => att[b].pc \notin Sending
        /\ Silent(o)
    BY <1>6, UnmarkedQuiet DEF Unmarked
  <2>4. Concerns(o)
    BY <1>1, <1>3, <1>4, <2>2, RowStep
  <2>5. ASSUME NEW b \in Attempt, att[b].op = o PROVE SenderTrue(b)'
    <3>1. CASE b = a
      <4>1. ContentFixed(a)'
        BY <1>4, SteersContent
      <4> QED
        BY <1>4, <3>1, <4>1
        DEF SenderTrue, RowIsOwn, CallIsReal, AnswerIsReal, Sending
    <3>2. CASE b # a
      <4>1. att'[b] = att[b] /\ att[b].pc \notin Sending
        BY <1>4, <2>3, <2>5, <3>2 DEF Steers
      <4> QED
        BY <1>1, <1>3, <1>6, <2>1, <2>5, <4>1, OtherSender
    <3> QED
      BY <3>1, <3>2
  <2>6. OneSendingOf(o)'
    BY <1>4, <2>3 DEF OneSendingOf, Steers, Sending
  <2>7. RowTrue(o)'
    BY <1>3, <2>2 DEF RowTrue
  <2>8. TracedTo(o)'
    BY <1>3, <2>3 DEF TracedTo, Silent
  <2>9. DecisionHolds(o)'
    <3>1. DecisionHolds(o)
      BY DEF Truth
    <3> QED
      BY <1>3, <1>6, <3>1 DEF DecisionHolds, TerminalDecision, InFlight
  <2> QED
    BY <2>4, <2>5, <2>6, <2>7, <2>8, <2>9, OperationStep
<1> QED
  BY <1>5, <1>6 DEF ReclaimPreSend

\* A sender past markUnknown is the only one of its operation, and its row has
\* no verdict yet.
LEMMA CallerAlone ==
    ASSUME IndInv, Truth, NEW a \in Attempt, att[a].pc \in Sending
    PROVE  /\ \A b \in Attempt : (b # a /\ att[b].op = att[a].op) => att[b].pc \notin Sending
           /\ ledger[att[a].step].state \in {"unknown_after_send", "unresolved"}
           /\ ledger[att[a].step].payload = att[a].payload
<1>1. ledger[att[a].step].state \in {"unknown_after_send", "unresolved"}
  BY DEF Truth, SenderTrue, CallIsReal
<1>2. ledger[att[a].step].payload = att[a].payload
  BY <1>1, OwnContent
<1> QED
  BY <1>1, <1>2 DEF Truth, OneSending

\* The call puts the operation's first message on its way, with its content.
LEMMA DoSendTruth ==
    ASSUME IndInv, IndInv', Truth, NEW a \in Attempt, DoSend(a) PROVE Truth'
<1>1. att[a].pc \in Holding /\ att[a].pc = "send" /\ att[a].pc \in Sending
  BY DEF DoSend, Holding, Sending
<1>2. PICK o \in Op, s \in Step : HoldsRow(a, o, s)
  BY <1>1, HolderHasRow
<1> USE <1>2 DEF HoldsRow
<1>3. UNCHANGED <<stepOf, ledger, operator, noReply, accepted>>
  BY DEF DoSend, store
<1>4. Steers(a) /\ att'[a].pc = "await"
  BY GotoSteers DEF DoSend
<1>5. /\ \A b \in Attempt : (b # a /\ att[b].op = o) => att[b].pc \notin Sending
      /\ ledger[s].state \in {"unknown_after_send", "unresolved"}
      /\ ledger[s].payload = att[a].payload
  BY <1>1, CallerAlone
<1>6. calls[o] = 0 /\ calls \in [Op -> Nat]
  BY <1>1 DEF IndInv, OneCaller, TypeOK
<1>7. calls'[o] = 1 /\ \A q \in Op \ {o} : calls'[q] = calls[q]
  BY <1>6 DEF DoSend
<1>8. wire' = wire \cup {<<o, att[a].payload>>}
  BY DEF DoSend, MessageOf
<1>9. Silent(o)
  BY <1>6 DEF Truth, MessagesTraced, Silent
<1>10. Concerns(o)
  <2>1. \A q \in Op \ {o}, p \in Payload : <<q, p>> \in wire' <=> <<q, p>> \in wire
    BY <1>8
  <2> QED
    BY <1>3, <1>4, <1>7, <2>1 DEF Concerns, Steers
<1>11. ASSUME NEW b \in Attempt, att[b].op = o PROVE SenderTrue(b)'
  <2>1. CASE b = a
    <3>1. ContentFixed(a)'
      BY <1>4, SteersContent
    <3> QED
      BY <1>3, <1>4, <1>5, <1>7, <2>1, <3>1
      DEF SenderTrue, RowIsOwn, CallIsReal, AnswerIsReal, Sending, Steers
  <2>2. CASE b # a
    <3>1. att'[b] = att[b] /\ att[b].pc \notin Sending
      BY <1>4, <1>5, <1>11, <2>2 DEF Steers
    <3> QED
      BY <1>1, <1>3, <1>5, <1>11, <3>1, OtherSender
  <2> QED
    BY <2>1, <2>2
<1>12. OneSendingOf(o)'
  BY <1>4, <1>5 DEF OneSendingOf, Steers
<1>13. RowTrue(o)'
  <2>1. RowTrue(o)
    BY DEF Truth
  <2> QED
    BY <1>3, <1>5, <2>1 DEF RowTrue, PayloadsOf
<1>14. TracedTo(o)'
  BY <1>3, <1>5, <1>7, <1>8, <1>9 DEF TracedTo, Silent
<1>15. DecisionHolds(o)'
  BY <1>3 DEF Truth, DecisionHolds, TerminalDecision
<1> QED
  BY <1>10, <1>11, <1>12, <1>13, <1>14, <1>15, OperationStep

\* A receipt is for a message the platform has accepted; a rejection takes the
\* only message of the operation away.
LEMMA SendReturnsTruth ==
    ASSUME IndInv, IndInv', Truth, NEW a \in Attempt, SendReturns(a) PROVE Truth'
<1>1. att[a].pc \in Holding /\ att[a].pc = "await" /\ att[a].pc \in Sending
  BY DEF SendReturns, Holding, Sending
<1>2. PICK o \in Op, s \in Step : HoldsRow(a, o, s)
  BY <1>1, HolderHasRow
<1> USE <1>2 DEF HoldsRow
<1>3. UNCHANGED <<stepOf, ledger, operator, noReply, accepted, calls>>
  BY DEF SendReturns, store
<1>4. CASE Goto(a, "park") /\ UNCHANGED wire
  BY <1>3, <1>4, GotoSteers, UnchangedRowsCalm, CalmSender
<1>5. CASE \/ MessageOf(a) \in accepted /\ Goto(a, "commit") /\ UNCHANGED wire
           \/ /\ MessageOf(a) \in wire
              /\ wire' = wire \ {MessageOf(a)}
              /\ Goto(a, "fail")
  <2>1. Steers(a) /\ att'[a].pc \in {"commit", "fail"}
    BY <1>5, GotoSteers
  <2>2. /\ \A b \in Attempt : (b # a /\ att[b].op = o) => att[b].pc \notin Sending
        /\ ledger[s].state \in {"unknown_after_send", "unresolved"}
        /\ ledger[s].payload = att[a].payload
    BY <1>1, CallerAlone
  <2>3. calls[o] = 1
    BY <1>1 DEF Truth, SenderTrue, CallIsReal
  <2>4. TracedTo(o)
    BY DEF Truth, MessagesTraced, TracedTo
  <2>5. wire' \subseteq wire /\ \A q \in Op \ {o}, p \in Payload :
                                   <<q, p>> \in wire' <=> <<q, p>> \in wire
    BY <1>5 DEF MessageOf
  <2>6. att'[a].pc = "commit" => MessageOf(a) \in accepted
    BY <1>5, GotoSteers
  <2>7. att'[a].pc = "fail" => Silent(o)'
    <3>1. SUFFICES ASSUME att'[a].pc = "fail" PROVE Silent(o)'
      OBVIOUS
    <3>2. MessageOf(a) \in wire /\ wire' = wire \ {MessageOf(a)}
      BY <1>5, <3>1, GotoSteers
    <3>3. \A p \in Payload : (<<o, p>> \in wire \/ <<o, p>> \in accepted) =>
             <<o, p>> = MessageOf(a)
      BY <2>2, <2>4 DEF TracedTo, MessageOf
    <3>4. MessageOf(a) \notin accepted
      BY <2>4, <3>2 DEF TracedTo, MessageOf
    <3> QED
      BY <1>3, <3>2, <3>3, <3>4 DEF Silent
  <2>8. Concerns(o)
    BY <1>3, <2>1, <2>5 DEF Concerns, Steers
  <2>9. ASSUME NEW b \in Attempt, att[b].op = o PROVE SenderTrue(b)'
    <3>1. CASE b = a
      <4>1. ContentFixed(a)'
        BY <2>1, SteersContent
      <4>2. RowIsOwn(a)' /\ AnswerIsReal(a)'
        BY <1>3, <2>1, <2>2 DEF RowIsOwn, AnswerIsReal, Sending, Steers
      <4>3. CallIsReal(a)'
        BY <1>3, <2>1, <2>2, <2>3, <2>6, <2>7 DEF CallIsReal, MessageOf, Steers
      <4> QED
        BY <3>1, <4>1, <4>2, <4>3 DEF SenderTrue
    <3>2. CASE b # a
      <4>1. att'[b] = att[b] /\ att[b].pc \notin Sending
        BY <2>1, <2>2, <2>9, <3>2 DEF Steers
      <4> QED
        BY <1>1, <1>3, <2>2, <2>9, <4>1, OtherSender
    <3> QED
      BY <3>1, <3>2
  <2>10. OneSendingOf(o)'
    BY <2>1, <2>2 DEF OneSendingOf, Steers
  <2>11. RowTrue(o)'
    <3>1. RowTrue(o)
      BY DEF Truth
    <3> QED
      BY <1>3, <2>2, <3>1 DEF RowTrue, PayloadsOf
  <2>12. TracedTo(o)'
    BY <1>3, <2>4, <2>5 DEF TracedTo
  <2>13. DecisionHolds(o)'
    BY <1>3 DEF Truth, DecisionHolds, TerminalDecision
  <2> QED
    BY <2>8, <2>9, <2>10, <2>11, <2>12, <2>13, OperationStep
<1> QED
  BY <1>4, <1>5 DEF SendReturns

\* The verdict of the one caller settles its row.
LEMMA VerdictTruth ==
    ASSUME IndInv, IndInv', Truth, NEW a \in Attempt, NEW o \in Op, NEW s \in Step,
           HoldsRow(a, o, s), att[a].pc \in Sending, Steers(a),
           UNCHANGED <<stepOf, operator, noReply, wire, accepted, calls>>,
           ledger[s].state = "unknown_after_send",
           ledger'[s].payload = ledger[s].payload,
           \A t \in Step : t # s => ledger'[t] = ledger[t],
           \/ /\ ledger'[s].state = "committed" /\ ledger'[s].receipt = att[a].payload
              /\ att[a].pc = "commit"
              /\ att'[a].pc = "done" /\ att'[a].result = "delivered"
           \/ /\ ledger'[s].state = "failed" /\ att[a].pc = "fail"
              /\ \/ att'[a].pc = "inspect" /\ att[a].mode = "background"
                 \/ att'[a].pc = "done" /\ att'[a].result = "permanent"
    PROVE  Truth'
<1> USE DEF HoldsRow
<1>1. /\ \A b \in Attempt : (b # a /\ att[b].op = o) => att[b].pc \notin Sending
      /\ ledger[s].payload = att[a].payload
  BY CallerAlone
<1>2. att[a].pc \in Holding
  BY DEF Sending, Holding
<1>3. /\ att[a].pc = "commit" => <<o, att[a].payload>> \in accepted
      /\ att[a].pc = "fail" => Silent(o)
  BY DEF Truth, SenderTrue, CallIsReal, MessageOf
<1>4. Concerns(o)
  BY <1>2, RowStep
<1>5. ASSUME NEW b \in Attempt, att[b].op = o PROVE SenderTrue(b)'
  <2>1. CASE b = a
    <3>1. ContentFixed(a)'
      BY SteersContent
    <3>2. RowIsOwn(a)' /\ CallIsReal(a)'
      BY DEF RowIsOwn, CallIsReal, Sending
    <3>3. AnswerIsReal(a)'
      BY <1>3 DEF AnswerIsReal, MessageOf, Steers
    <3> QED
      BY <2>1, <3>1, <3>2, <3>3 DEF SenderTrue
  <2>2. CASE b # a
    <3>1. att'[b] = att[b] /\ att[b].pc \notin Sending
      BY <1>1, <1>5, <2>2 DEF Steers
    <3> QED
      BY <1>2, <1>5, <3>1, OtherSender
  <2> QED
    BY <2>1, <2>2
<1>6. OneSendingOf(o)'
  BY <1>1 DEF OneSendingOf, Steers, Sending
<1>7. RowTrue(o)'
  <2>1. RowTrue(o)
    BY DEF Truth
  <2>2. Silent(o)' <=> Silent(o)
    BY DEF Silent
  <2> QED
    BY <1>1, <1>3, <2>1, <2>2 DEF RowTrue, PayloadsOf
<1>8. TracedTo(o)'
  <2>1. TracedTo(o)
    BY DEF Truth, MessagesTraced, TracedTo
  <2> QED
    BY <2>1 DEF TracedTo
<1>9. DecisionHolds(o)'
  <2>1. DecisionHolds(o)
    BY DEF Truth
  <2> QED
    BY <2>1 DEF DecisionHolds, TerminalDecision, InFlight
<1> QED
  BY <1>4, <1>5, <1>6, <1>7, <1>8, <1>9, OperationStep

\* commit writes the receipt of an accepted message.
LEMMA CommitTruth ==
    ASSUME IndInv, IndInv', Truth, NEW a \in Attempt, Commit(a) PROVE Truth'
<1>1. att[a].pc \in Holding /\ att[a].pc = "commit" /\ att[a].pc \in Sending
  BY DEF Commit, Holding, Sending
<1>2. PICK o \in Op, s \in Step : HoldsRow(a, o, s)
  BY <1>1, HolderHasRow
<1>3. UNCHANGED <<stepOf, operator, noReply, wire, accepted, calls>>
  BY DEF Commit, platform
<1>4. CASE Goto(a, "park") /\ UNCHANGED ledger
  BY <1>2, <1>3, <1>4, GotoSteers, UnchangedRowsCalm, CalmSender DEF HoldsRow
<1>5. CASE /\ ledger[s].state = "unknown_after_send"
           /\ ledger' = [ledger EXCEPT ![s].state = "committed",
                                       ![s].receipt = att[a].payload]
           /\ Return(a, "delivered")
  <2>1. ledger[s] \in Row /\ ledger \in [Step -> Row]
    BY <1>2 DEF HoldsRow
  <2>2. /\ ledger'[s] = [ledger[s] EXCEPT !.state = "committed", !.receipt = att[a].payload]
        /\ \A t \in Step : t # s => ledger'[t] = ledger[t]
    BY <1>5, <2>1
  <2>3. /\ ledger'[s].state = "committed" /\ ledger'[s].receipt = att[a].payload
        /\ ledger'[s].payload = ledger[s].payload
    BY <2>1, <2>2 DEF Row
  <2>4. Steers(a) /\ att'[a].pc = "done" /\ att'[a].result = "delivered"
    BY <1>2, <1>5, ReturnSteers DEF HoldsRow
  <2> QED
    BY <1>1, <1>2, <1>3, <1>5, <2>2, <2>3, <2>4, VerdictTruth
<1> QED
  BY <1>2, <1>4, <1>5 DEF Commit, HoldsRow

\* markFailed writes a rejection of a message the platform no longer has.
LEMMA MarkFailedTruth ==
    ASSUME IndInv, IndInv', Truth, NEW a \in Attempt, MarkFailed(a) PROVE Truth'
<1>1. att[a].pc \in Holding /\ att[a].pc = "fail" /\ att[a].pc \in Sending
  BY DEF MarkFailed, Holding, Sending
<1>2. PICK o \in Op, s \in Step : HoldsRow(a, o, s)
  BY <1>1, HolderHasRow
<1>3. UNCHANGED <<stepOf, operator, noReply, wire, accepted, calls>>
  BY DEF MarkFailed, platform
<1>4. CASE Goto(a, "park") /\ UNCHANGED ledger
  BY <1>2, <1>3, <1>4, GotoSteers, UnchangedRowsCalm, CalmSender DEF HoldsRow
<1>5. CASE /\ ledger[s].state = "unknown_after_send"
           /\ SetState(s, "failed")
           /\ IF att[a].mode = "background" THEN Goto(a, "inspect")
                                            ELSE Return(a, "permanent")
  <2>1. /\ ledger'[s].state = "failed" /\ ledger'[s].payload = ledger[s].payload
        /\ \A t \in Step : t # s => ledger'[t] = ledger[t]
    BY <1>2, <1>5, SetStateRow DEF HoldsRow, Settled
  <2>2. /\ Steers(a)
        /\ \/ att'[a].pc = "inspect" /\ att[a].mode = "background"
           \/ att'[a].pc = "done" /\ att'[a].result = "permanent"
    BY <1>2, <1>5, GotoSteers, ReturnSteers DEF HoldsRow
  <2> QED
    BY <1>1, <1>2, <1>3, <1>5, <2>1, <2>2, VerdictTruth
<1> QED
  BY <1>2, <1>4, <1>5 DEF MarkFailed, HoldsRow

\* Taking a step keeps the invocation's mode.
LEMMA TakesStepMode ==
    ASSUME att \in [Attempt -> Invocation], NEW a \in Attempt, NEW s,
           att' = [att EXCEPT ![a].pc = AfterAllocate(att[a].mode), ![a].step = s]
    PROVE  att'[a].mode = att[a].mode
<1>1. att'[a] = [att[a] EXCEPT !.pc = AfterAllocate(att[a].mode), !.step = s]
  OBVIOUS
<1>2. att[a] \in Invocation
  OBVIOUS
<1> QED
  BY <1>1, <1>2 DEF Invocation

\* A new step has no row, so it claims nothing for its operation.
LEMMA AllocateStepTruth ==
    ASSUME IndInv, IndInv', Truth, NEW a \in Attempt, AllocateStep(a) PROVE Truth'
<1>1. PICK o \in Op : o = att[a].op
  BY DEF AllocateStep, IndInv, SendersNamed
<1>2. /\ att \in [Attempt -> Invocation] /\ att[a].payload \in Payload
      /\ stepOf \in [Op -> Step \cup {NoStep}]
  BY DEF AllocateStep, IndInv, TypeOK, SendersNamed
<1>3. UNCHANGED <<ledger, operator, noReply, wire, accepted, calls>>
  BY DEF AllocateStep, platform
<1>4. CASE /\ stepOf[o] # NoStep
           /\ att' = [att EXCEPT ![a].pc = AfterAllocate(att[a].mode),
                                 ![a].step = stepOf[o]]
           /\ UNCHANGED <<stepOf, lastStep>>
  <2>1. stepOf[o] \in Step
    BY <1>2, <1>4
  <2>2. /\ \A b \in Attempt \ {a} : att'[b] = att[b]
        /\ att'[a].pc \in {"claim", "lookup"} /\ att'[a].mode = att[a].mode
        /\ att'[a].op = att[a].op /\ att'[a].payload = att[a].payload
    BY <1>2, <1>4, <2>1, TakesStep, TakesStepMode
  <2>3. ContentFixed(a)
    BY DEF Truth, SenderTrue
  <2>4. Calm(a)' /\ ContentFixed(a)' /\ AnswerIsReal(a)'
    BY <2>2, <2>3 DEF Calm, Sending, ContentFixed, AnswerIsReal, PayloadsOf
  <2> QED
    BY <1>3, <1>4, <2>2, <2>4, UnchangedRowsCalm, CalmStep
<1>5. CASE /\ Return(a, IF att[a].mode = "background" THEN "retryable"
                                                      ELSE "blocked")
           /\ UNCHANGED <<stepOf, lastStep>>
  <2>1. PICK r \in {"retryable", "blocked"} : Return(a, r)
    BY <1>5
  <2>2. Steers(a) /\ att'[a].pc = "done" /\ att'[a].result = r
    BY <1>2, <2>1, ReturnSteers
  <2> QED
    BY <1>3, <1>5, <2>1, <2>2, UnchangedRowsCalm, CalmSender DEF AnswerIsReal
<1>6. CASE /\ stepOf[o] = NoStep
           /\ NextStep \in Step
           /\ stepOf' = [stepOf EXCEPT ![o] = NextStep]
           /\ att' = [att EXCEPT ![a].pc = AfterAllocate(att[a].mode),
                                 ![a].step = NextStep]
  <2>1. PICK s \in Step : s = NextStep
    BY <1>6
  <2>2. /\ \A b \in Attempt \ {a} : att'[b] = att[b]
        /\ att'[a].pc \in {"claim", "lookup"} /\ att'[a].mode = att[a].mode
        /\ att'[a].op = att[a].op /\ att'[a].payload = att[a].payload
    BY <1>2, <1>6, <2>1, TakesStep, TakesStepMode
  <2>3. stepOf'[o] = s /\ \A q \in Op \ {o} : stepOf'[q] = stepOf[q]
    BY <1>2, <1>6, <2>1
  <2>4. ledger[s].state = "absent"
    <3>1. s = lastStep + 1 /\ lastStep \in Int
      BY <2>1, BoundsAssumption, NextStepIsFree DEF IndInv, TypeOK, Step, NoStep
    <3> QED
      BY <3>1 DEF IndInv, SequenceAhead
  <2>5. calls[o] # 1
    BY <1>6 DEF IndInv, OneCaller
  <2>6. Silent(o)
    BY <2>5 DEF Truth, MessagesTraced, Silent
  <2>7. \A b \in Attempt : att[b].op = o => att[b].pc \notin Holding
    BY <1>6, BoundsAssumption DEF IndInv, SendersNamed, Step, NoStep
  <2>8. Concerns(o)
    BY <1>1, <1>3, <2>2, <2>3 DEF Concerns
  <2>9. ASSUME NEW b \in Attempt, att[b].op = o PROVE SenderTrue(b)'
    <3>1. ContentFixed(b) /\ AnswerIsReal(b)
      BY DEF Truth, SenderTrue
    <3>2. att'[b].pc \notin Sending \cup {"mark"}
      BY <2>2, <2>7, <2>9 DEF Sending, Holding
    <3>3. ContentFixed(b)'
      BY <2>2, <3>1 DEF ContentFixed, PayloadsOf
    <3>4. AnswerIsReal(b)'
      <4>1. stepOf[o] = NoStep
        BY <1>6
      <4>2. CASE b = a
        BY <2>2, <4>2 DEF AnswerIsReal
      <4>3. CASE b # a
        BY <1>3, <2>2, <2>9, <3>1, <4>1, <4>3 DEF AnswerIsReal, MessageOf
      <4> QED
        BY <4>2, <4>3
    <3> QED
      BY <3>2, <3>3, <3>4 DEF SenderTrue, RowIsOwn, CallIsReal, Sending
  <2>10. OneSendingOf(o)'
    BY <2>2, <2>7 DEF OneSendingOf, Sending, Holding
  <2>11. RowTrue(o)' /\ DecisionHolds(o)'
    <3>1. o \in noReply => operator[o] = "none"
      BY DEF Truth, DecisionHolds
    <3> QED
      BY <1>3, <2>3, <2>4, <3>1 DEF RowTrue, DecisionHolds, InFlight
  <2>12. TracedTo(o)'
    BY <1>3, <2>6 DEF TracedTo, Silent
  <2> QED
    BY <2>8, <2>9, <2>10, <2>11, <2>12, OperationStep
<1> QED
  BY <1>1, <1>4, <1>5, <1>6 DEF AllocateStep

\* The platform accepts only what a call handed to it; what it had refused was
\* not on the wire any more.
LEMMA PlatformAcceptTruth ==
    ASSUME IndInv, IndInv', Truth, NEW m \in Message, PlatformAccept(m) PROVE Truth'
<1>1. PICK o \in Op, p \in Payload : m = <<o, p>>
  BY DEF Message
<1>2. UNCHANGED <<stepOf, ledger, operator, noReply, att, calls>>
  BY DEF PlatformAccept, store
<1>3. /\ <<o, p>> \in wire /\ wire' = wire \ {<<o, p>>}
      /\ accepted' = accepted \cup {<<o, p>>}
  BY <1>1 DEF PlatformAccept
<1>4. ~Silent(o)
  BY <1>3 DEF Silent
<1>5. Concerns(o)
  <2>1. \A q \in Op \ {o}, r \in Payload : /\ <<q, r>> \in wire' <=> <<q, r>> \in wire
                                           /\ <<q, r>> \in accepted' <=> <<q, r>> \in accepted
    BY <1>3
  <2> QED
    BY <1>2, <2>1 DEF Concerns
<1>6. ASSUME NEW b \in Attempt, att[b].op = o PROVE SenderTrue(b)'
  <2>1. ContentFixed(b) /\ RowIsOwn(b) /\ CallIsReal(b) /\ AnswerIsReal(b)
    BY DEF Truth, SenderTrue
  <2>2. ContentFixed(b)' /\ RowIsOwn(b)'
    BY <1>2, <2>1 DEF ContentFixed, RowIsOwn, PayloadsOf
  <2>3. CallIsReal(b)'
    BY <1>2, <1>3, <1>4, <1>6, <2>1 DEF CallIsReal, MessageOf
  <2>4. AnswerIsReal(b)'
    BY <1>2, <1>3, <2>1 DEF AnswerIsReal, MessageOf
  <2> QED
    BY <2>2, <2>3, <2>4 DEF SenderTrue
<1>7. OneSendingOf(o)' /\ DecisionHolds(o)'
  BY <1>2 DEF Truth, OneSending, OneSendingOf, DecisionHolds, TerminalDecision
<1>8. RowTrue(o)'
  <2>1. RowTrue(o)
    BY DEF Truth
  <2> QED
    BY <1>2, <1>3, <1>4, <2>1 DEF RowTrue, PayloadsOf
<1>9. TracedTo(o)'
  <2>1. TracedTo(o)
    BY DEF Truth, MessagesTraced, TracedTo
  <2> QED
    BY <1>2, <1>3, <2>1 DEF TracedTo
<1> QED
  BY <1>5, <1>6, <1>7, <1>8, <1>9, OperationStep

\* A decision waits for the send in flight and follows the receipt.
LEMMA RecordTerminalDecisionTruth ==
    ASSUME IndInv, IndInv', Truth, NEW o \in AnnounceOp, NEW outcome \in Outcome,
           RecordTerminalDecision(o, outcome)
    PROVE  Truth'
<1>0. o \in Op
  BY DEF Op
<1>1. UNCHANGED <<stepOf, ledger, att, wire, accepted, calls>>
  BY DEF RecordTerminalDecision, platform
<1>2. operator \in [Op -> {"none", "delivered", "discarded"}] /\ noReply \in SUBSET Op
  BY DEF IndInv, TypeOK
<1>3. /\ \A q \in Op \ {o} : operator'[q] = operator[q] /\ (q \in noReply' <=> q \in noReply)
      /\ o \notin noReply /\ operator[o] = "none"
      /\ \/ o \in noReply' /\ operator'[o] = "none" /\ outcome = "no_reply"
         \/ o \notin noReply' /\ operator'[o] = outcome
  BY <1>0, <1>2 DEF RecordTerminalDecision, TerminalDecision
<1>4. Concerns(o)
  BY <1>1, <1>3 DEF Concerns
<1>5. ASSUME NEW b \in Attempt PROVE SenderTrue(b)'
  <2>1. SenderTrue(b)
    BY DEF Truth
  <2>2. \A q : Silent(q)' <=> Silent(q)
    BY <1>1 DEF Silent
  <2> QED
    BY <1>1, <2>1, <2>2
    DEF SenderTrue, ContentFixed, RowIsOwn, CallIsReal, AnswerIsReal, MessageOf, PayloadsOf
<1>6. OneSendingOf(o)'
  BY <1>1 DEF Truth, OneSending, OneSendingOf
<1>7. RowTrue(o)'
  <2>1. RowTrue(o) /\ (Silent(o)' <=> Silent(o))
    BY <1>0, <1>1 DEF Truth, Silent
  <2> QED
    BY <1>1, <2>1 DEF RowTrue, PayloadsOf
<1>8. TracedTo(o)'
  BY <1>0, <1>1 DEF Truth, MessagesTraced, TracedTo
<1>9. DecisionHolds(o)'
  BY <1>1, <1>3 DEF DecisionHolds, TerminalDecision, RecordTerminalDecision
<1> QED
  BY <1>0, <1>4, <1>5, <1>6, <1>7, <1>8, <1>9, OperationStep

\* Every step of a sender keeps what the ledger claims true.
LEMMA SenderTruth ==
    ASSUME IndInv, IndInv', Truth, NEW a \in Attempt, Sender(a) PROVE Truth'
  BY StartTruth, StartDrainTruth, LookupTerminalDecisionTruth, AllocateStepTruth,
     ClaimSendStartTruth, LookupTruth, BeginTruth, MarkUnknownTruth,
     ReclaimPreSendTruth, DoSendTruth, SendReturnsTruth, CommitTruth,
     MarkFailedTruth, ParkUncertainTruth, InspectTruth, FinishTruth
  DEF Sender

\* Every step does.
LEMMA NextTruth == IndInv /\ IndInv' /\ Truth /\ [Next]_vars => Truth'
<1> SUFFICES ASSUME IndInv, IndInv', Truth, [Next]_vars PROVE Truth'
  OBVIOUS
<1>1. CASE UNCHANGED vars \/ RecoveryScan \/ RecoveryStop
  <2>1. UNCHANGED <<stepOf, ledger, operator, noReply, att, wire, accepted, calls>>
    BY <1>1 DEF vars, store, platform, RecoveryScan, RecoveryStop
  <2> QED
    BY <2>1, UnchangedRowsCalm, CalmStep
<1>2. ASSUME NEW s \in Step, RecoveryPark(s) PROVE Truth'
  <2>1. UNCHANGED <<stepOf, operator, noReply, att, wire, accepted, calls>> /\ RowsCalm
    BY <1>2, ParkRowCalm DEF RecoveryPark, platform
  <2> QED
    BY <2>1, CalmStep
<1>3. CASE Restart
  <2>1. /\ UNCHANGED <<stepOf, ledger, operator, noReply, wire, accepted, calls>>
        /\ \A b \in Attempt : att'[b] = Idle
    BY <1>3 DEF Restart, store, platform
  <2> QED
    BY <2>1, IdleTrue, UnchangedRowsCalm, CalmStep
<1>4. ASSUME NEW a \in Attempt, Sender(a) PROVE Truth'
  BY <1>4, SenderTruth
<1> QED
  BY <1>1, <1>2, <1>3, <1>4, PlatformAcceptTruth, RecordTerminalDecisionTruth DEF Next

\* What the ledger claims is true in every reachable state.
THEOREM TruthInvariance == Spec => [](IndInv /\ Truth)
<1>1. Init => Truth
  BY InitTruth
<1>2. IndInv /\ IndInv' /\ Truth /\ [Next]_vars => Truth'
  BY NextTruth
<1> QED
  BY <1>1, <1>2, Invariance, PTL DEF Spec

\* The store's receipts are true: a committed row was begun for the content
\* the platform accepted, although a watchdog, a drain and other senders of the
\* operation act between commit's guard and the platform's answer.
THEOREM ReceiptsTrue == Spec => []CommittedIsAccepted
<1>1. Truth => CommittedIsAccepted
  BY DEF Truth, RowTrue, CommittedIsAccepted
<1> QED
  BY <1>1, TruthInvariance, PTL

\* wrapOutwardSend, the background runner and the announcements never report
\* a delivery that did not happen or a rejection of what may still arrive.
THEOREM AnswersTrue == Spec => []ResultTruthful
<1>1. Truth => ResultTruthful
  <2> SUFFICES ASSUME Truth, NEW a \in Attempt, att[a].pc = "done"
               PROVE  /\ att[a].result = "delivered" => MessageOf(a) \in accepted
                      /\ att[a].result = "permanent" =>
                            \A p \in Payload : <<att[a].op, p>> \notin accepted \cup wire
    BY DEF ResultTruthful
  <2>1. AnswerIsReal(a)
    BY DEF Truth, SenderTrue
  <2>2. att[a].result = "permanent" => Silent(att[a].op)
    BY <2>1 DEF AnswerIsReal, Truth, RowTrue
  <2> QED
    BY <2>1, <2>2 DEF AnswerIsReal, Silent
<1> QED
  BY <1>1, TruthInvariance, PTL

\* recordTerminalDecision and commit exclude each other: whatever the order, a
\* committed delivery is never recorded as discarded or as needing no reply.
THEOREM DecisionsConsistent == Spec => []DecisionsAgree
<1>1. Truth => DecisionsAgree
  BY DEF Truth, DecisionHolds, DecisionsAgree
<1> QED
  BY <1>1, TruthInvariance, PTL

\* A step of one sender leaves the other invocations alone.
LEMMA SenderMovesAlone ==
    ASSUME NEW a \in Attempt, Sender(a), att \in [Attempt -> Invocation]
    PROVE  \A b \in Attempt \ {a} : att'[b] = att[b]
<1>1. ASSUME NEW label, Goto(a, label)
      PROVE  \A b \in Attempt \ {a} : att'[b] = att[b]
  BY <1>1 DEF Goto
<1>2. ASSUME NEW r, Return(a, r) PROVE \A b \in Attempt \ {a} : att'[b] = att[b]
  BY <1>2 DEF Return
<1>3. ASSUME NEW modes, Unsuccessful(a) \/ ParkOrUnsuccessful(a, modes)
      PROVE  \A b \in Attempt \ {a} : att'[b] = att[b]
  BY <1>1, <1>2, <1>3 DEF Unsuccessful, ParkOrUnsuccessful
<1>4. ASSUME \/ LookupTerminalDecision(a) \/ ClaimSendStart(a) \/ Lookup(a)
             \/ Begin(a) \/ MarkUnknown(a) \/ ReclaimPreSend(a) \/ DoSend(a)
             \/ SendReturns(a) \/ Commit(a) \/ MarkFailed(a)
             \/ ParkUncertain(a) \/ Inspect(a)
      PROVE  \A b \in Attempt \ {a} : att'[b] = att[b]
  BY <1>1, <1>2, <1>3, <1>4
  DEF LookupTerminalDecision, ClaimSendStart, Lookup, ReconcileFromRow,
      SuppressDuplicate, Begin, MarkUnknown, ReclaimPreSend, DoSend, SendReturns,
      Commit, MarkFailed, ParkUncertain, Inspect
<1>5. ASSUME AllocateStep(a) PROVE \A b \in Attempt \ {a} : att'[b] = att[b]
  BY <1>2, <1>5 DEF AllocateStep
<1>6. ASSUME NEW o \in Op, NEW mode \in Mode, NEW p \in Payload, Start(a, o, mode, p)
      PROVE  \A b \in Attempt \ {a} : att'[b] = att[b]
  BY <1>6 DEF Start
<1>7. ASSUME NEW o \in AnnounceOp, NEW p \in Payload, StartDrain(a, o, p)
      PROVE  \A b \in Attempt \ {a} : att'[b] = att[b]
  BY <1>7 DEF StartDrain
<1>8. ASSUME Finish(a) PROVE \A b \in Attempt \ {a} : att'[b] = att[b]
  BY <1>8 DEF Finish
<1> QED
  BY <1>4, <1>5, <1>6, <1>7, <1>8 DEF Sender

\* A sender concludes "retryable" from a row that nobody has marked.
LEMMA RetryableFromUnmarked ==
    ASSUME IndInv, Truth, NEW a \in Attempt, Sender(a),
           att[a].pc \in {"lookup", "reclaim", "inspect"},
           att'[a].pc = "done", att'[a].result = "retryable"
    PROVE  ledger[att[a].step].state \in Unmarked
<1>1. att[a].pc \in Holding /\ att \in [Attempt -> Invocation]
  BY DEF Holding, IndInv, TypeOK
<1>2. Lookup(a) \/ ReclaimPreSend(a) \/ Inspect(a)
  BY DEF Sender, Start, StartDrain, LookupTerminalDecision, AllocateStep,
         ClaimSendStart, Begin, MarkUnknown, DoSend, SendReturns, Commit,
         MarkFailed, ParkUncertain, Finish
<1>3. ASSUME NEW r, Return(a, r) PROVE r = "retryable"
  BY <1>1, <1>3, ReturnSteers
<1>4. ASSUME NEW label, Goto(a, label) PROVE label = "done"
  BY <1>1, <1>4, GotoSteers
<1>5. ASSUME NEW modes, Unsuccessful(a) \/ ParkOrUnsuccessful(a, modes) PROVE FALSE
  BY <1>1, <1>5, UnsuccessfulSteers
<1>6. \A state : Classify(state) = "retryable" => state = "absent"
  BY DEF Classify
<1>7. CASE Lookup(a)
  BY <1>3, <1>4, <1>5, <1>6, <1>7
  DEF Lookup, ReconcileFromRow, SuppressDuplicate, Unmarked
<1>8. CASE ReclaimPreSend(a)
  BY <1>3, <1>8 DEF ReclaimPreSend, Unmarked
<1>9. CASE Inspect(a)
  BY <1>3, <1>6, <1>9 DEF Inspect, Unmarked
<1> QED
  BY <1>2, <1>7, <1>8, <1>9

\* The background runner resends only what never reached the platform.
THEOREM RetriesSafe == Spec => RetryableNeverSent
<1>1. IndInv /\ Truth /\ [Next]_vars =>
         [\A a \in Attempt :
             (/\ att[a].pc \in {"lookup", "reclaim", "inspect"}
              /\ att'[a].pc = "done"
              /\ att'[a].result = "retryable") => calls[att[a].op] = 0]_vars
  <2> SUFFICES ASSUME IndInv, Truth, Next, NEW a \in Attempt,
                      att[a].pc \in {"lookup", "reclaim", "inspect"},
                      att'[a].pc = "done", att'[a].result = "retryable"
               PROVE  calls[att[a].op] = 0
    OBVIOUS
  <2>1. att \in [Attempt -> Invocation] /\ att'[a] # att[a]
    BY DEF IndInv, TypeOK
  <2>2. ~ UNCHANGED att /\ ~ Restart
    BY <2>1 DEF Restart, Idle
  <2>3. PICK b \in Attempt : Sender(b)
    BY <2>2 DEF Next, PlatformAccept, RecoveryScan, RecoveryPark, RecoveryStop,
                RecordTerminalDecision
  <2>4. b = a
    BY <2>1, <2>3, SenderMovesAlone
  <2>5. ledger[att[a].step].state \in Unmarked
    BY <2>3, <2>4, RetryableFromUnmarked
  <2>6. PICK o \in Op, s \in Step : HoldsRow(a, o, s)
    BY HolderHasRow DEF Holding
  <2>7. calls[o] # 1
    BY <2>5, <2>6, UnmarkedQuiet DEF HoldsRow
  <2>8. calls[o] \in Nat /\ calls[o] <= 1
    BY DEF IndInv, OneCaller, TypeOK
  <2> QED
    BY <2>6, <2>7, <2>8 DEF HoldsRow
<1> QED
  BY <1>1, TruthInvariance, PTL DEF Spec, RetryableNeverSent

-----------------------------------------------------------------------------
(* The ledger implements OutwardOperation.                                 *)

\* A step that changes no status and nothing at the platform is a stutter.
LEMMA AbstractStutter ==
    ASSUME \A q \in Op : Status(q)' = Status(q), UNCHANGED <<calls, accepted>>
    PROVE  UNCHANGED Abstract!vars
<1>1. [q \in Op |-> Status(q)]' = [q \in Op |-> Status(q)]
  OBVIOUS
<1> QED
  BY <1>1 DEF Abstract!vars

\* A step that gives one operation a new status.
LEMMA AbstractWrite ==
    ASSUME NEW o \in Op, NEW v, Status(o)' = v,
           \A q \in Op \ {o} : Status(q)' = Status(q),
           UNCHANGED <<calls, accepted>>
    PROVE  /\ [q \in Op |-> Status(q)]' =
                 [[q \in Op |-> Status(q)] EXCEPT ![o] = v]
           /\ UNCHANGED <<calls, {q \in Op : \E p \in Payload : <<q, p>> \in accepted}>>
  OBVIOUS

\* Rows kept, and steps kept: the status is kept.
LEMMA StatusKept ==
    ASSUME IndInv, NEW q \in Op, stepOf'[q] = stepOf[q],
           stepOf[q] # NoStep => ledger'[stepOf[q]] = ledger[stepOf[q]]
    PROVE  Status(q)' = Status(q)
<1>1. CASE stepOf[q] = NoStep
  BY <1>1 DEF Status
<1>2. CASE stepOf[q] # NoStep
  <2>1. ledger[stepOf[q]].state \in {"absent"} \cup InFlight \cup Settled
    BY <1>2 DEF IndInv, TypeOK, Row
  <2> QED
    BY <1>2, <2>1 DEF Status, InFlight, Settled
<1> QED
  BY <1>1, <1>2

\* The status of the operation whose row has state st.
LEMMA StatusOfRow ==
    ASSUME NEW o \in Op, stepOf[o] # NoStep
    PROVE  LET st == ledger[stepOf[o]].state
           IN  /\ st \in Unmarked => Status(o) = "fresh"
               /\ st = "unknown_after_send" => Status(o) = "sending"
               /\ st = "committed" => Status(o) = "delivered"
               /\ st = "failed" => Status(o) = "failed"
               /\ st = "unresolved" => Status(o) = "uncertain"
  BY DEF Status, Unmarked

\* A step that neither writes a row nor touches the platform.
LEMMA QuietImplements ==
    ASSUME IndInv, UNCHANGED <<stepOf, ledger, calls, accepted>>
    PROVE  UNCHANGED Abstract!vars
<1>1. \A q \in Op : Status(q)' = Status(q)
  BY StatusKept
<1> QED
  BY <1>1, AbstractStutter

\* Writing one row changes the status of its operation at most.
LEMMA OtherStatusKept ==
    ASSUME IndInv, NEW o \in Op, NEW s \in Step, s = stepOf[o],
           UNCHANGED stepOf, \A t \in Step : t # s => ledger'[t] = ledger[t]
    PROVE  \A q \in Op \ {o} : Status(q)' = Status(q)
<1> SUFFICES ASSUME NEW q \in Op \ {o} PROVE Status(q)' = Status(q)
  OBVIOUS
<1>1. stepOf[q] # NoStep => stepOf[q] \in Step /\ stepOf[q] # s
  BY DEF IndInv, TypeOK, StepsDistinct
<1> QED
  BY <1>1, StatusKept

\* begin and reclaimPreSend: a fresh operation stays fresh.
LEMMA FreshStays ==
    ASSUME IndInv, NEW o \in Op, NEW s \in Step, s = stepOf[o], s # NoStep,
           ledger[s].state \in Unmarked, ledger'[s].state \in Unmarked,
           \A t \in Step : t # s => ledger'[t] = ledger[t],
           UNCHANGED <<stepOf, calls, accepted>>
    PROVE  UNCHANGED Abstract!vars
<1>1. \A q \in Op \ {o} : Status(q)' = Status(q)
  BY OtherStatusKept
<1>2. Status(o) = "fresh"
  BY StatusOfRow
<1>3. Status(o)' = "fresh"
  BY DEF Status, Unmarked
<1> QED
  BY <1>1, <1>2, <1>3, AbstractStutter

\* A parked row is an uncertain operation.
LEMMA ParkImplements ==
    ASSUME IndInv, NEW s \in Step, ParkRow(s), UNCHANGED <<stepOf, calls, accepted>>
    PROVE  Abstract!Next \/ UNCHANGED Abstract!vars
<1>1. CASE ledger[s].state \notin InFlight
  BY <1>1, QuietImplements DEF ParkRow
<1>2. CASE ledger[s].state \in InFlight
  <2>1. /\ ledger'[s].state = "unresolved"
        /\ \A t \in Step : t # s => ledger'[t] = ledger[t]
    BY <1>2, SetStateRow DEF ParkRow, IndInv, TypeOK, Settled
  <2>2. CASE \E o \in Op : stepOf[o] = s
    <3>1. PICK o \in Op : stepOf[o] = s
      BY <2>2
    <3>2. s # NoStep
      BY BoundsAssumption DEF Step, NoStep
    <3>3. \A q \in Op \ {o} : Status(q)' = Status(q)
      BY <2>1, <3>1, OtherStatusKept
    <3>4. Status(o) \in {"fresh", "sending"}
      BY <1>2, <3>1, <3>2, StatusOfRow DEF InFlight, Unmarked
    <3>5. Status(o)' = "uncertain"
      BY <2>1, <3>1, <3>2 DEF Status
    <3>6. Abstract!Settle(o, "uncertain")
      BY <3>3, <3>4, <3>5, AbstractWrite DEF Abstract!Settle
    <3> QED
      BY <3>6 DEF Abstract!Next
  <2>3. CASE ~ \E o \in Op : stepOf[o] = s
    <3>1. \A q \in Op : stepOf[q] # NoStep => ledger'[stepOf[q]] = ledger[stepOf[q]]
      BY <2>1, <2>3 DEF IndInv, TypeOK
    <3> QED
      BY <3>1, StatusKept, AbstractStutter
  <2> QED
    BY <2>2, <2>3
<1> QED
  BY <1>1, <1>2

\* markUnknown commences the operation.
LEMMA MarkUnknownImplements ==
    ASSUME IndInv, NEW a \in Attempt, MarkUnknown(a)
    PROVE  Abstract!Next \/ UNCHANGED Abstract!vars
<1>1. PICK o \in Op, s \in Step : HoldsRow(a, o, s)
  BY HolderHasRow DEF MarkUnknown, Holding
<1>2. UNCHANGED <<stepOf, calls, accepted>>
  BY DEF MarkUnknown, platform
<1>3. CASE UNCHANGED ledger
  BY <1>2, <1>3, QuietImplements
<1>4. CASE /\ ledger[s].state = "send_attempt_started"
           /\ SetState(s, "unknown_after_send")
  <2>1. /\ ledger'[s].state = "unknown_after_send"
        /\ \A t \in Step : t # s => ledger'[t] = ledger[t]
    BY <1>1, <1>4, SetStateRow DEF HoldsRow, InFlight
  <2>2. \A q \in Op \ {o} : Status(q)' = Status(q)
    BY <1>1, <1>2, <2>1, OtherStatusKept DEF HoldsRow
  <2>3. Status(o) = "fresh"
    BY <1>1, <1>4, StatusOfRow DEF HoldsRow, Unmarked
  <2>4. Status(o)' = "sending"
    BY <1>1, <1>2, <2>1 DEF Status, HoldsRow
  <2>5. Abstract!Commence(o)
    BY <1>2, <2>2, <2>3, <2>4, AbstractWrite DEF Abstract!Commence
  <2> QED
    BY <2>5 DEF Abstract!Next
<1> QED
  BY <1>1, <1>3, <1>4 DEF MarkUnknown, HoldsRow

\* The platform call is the abstract call.
LEMMA DoSendImplements ==
    ASSUME IndInv, Truth, NEW a \in Attempt, DoSend(a)
    PROVE  Abstract!Next
<1>0. att[a].pc = "send" /\ att[a].pc \in Holding /\ att[a].pc \in Sending
  BY DEF DoSend, Holding, Sending
<1>1. PICK o \in Op, s \in Step : HoldsRow(a, o, s)
  BY <1>0, HolderHasRow
<1>2. UNCHANGED <<stepOf, ledger, accepted>>
  BY DEF DoSend, store
<1>3. ledger[s].state \in {"unknown_after_send", "unresolved"}
  BY <1>0, <1>1, CallerAlone DEF HoldsRow
<1>4. Status(o) \in {"sending", "uncertain"}
  BY <1>1, <1>3, StatusOfRow DEF HoldsRow
<1>5. calls[o] = 0 /\ calls \in [Op -> Nat]
  BY <1>0, <1>1 DEF IndInv, OneCaller, TypeOK, HoldsRow
<1>6. calls' = [calls EXCEPT ![o] = 1]
  BY <1>1, <1>5 DEF DoSend, HoldsRow
<1>7. \A q \in Op : Status(q)' = Status(q)
  BY <1>2, StatusKept
<1>8. Abstract!Call(o)
  BY <1>2, <1>4, <1>5, <1>6, <1>7 DEF Abstract!Call
<1> QED
  BY <1>8 DEF Abstract!Next

\* The platform shows a message of an operation that was called and not
\* recorded as failed.
LEMMA PlatformAcceptImplements ==
    ASSUME IndInv, Truth, NEW m \in Message, PlatformAccept(m)
    PROVE  Abstract!Next
<1>1. PICK o \in Op, p \in Payload : m = <<o, p>>
  BY DEF Message
<1>2. UNCHANGED <<stepOf, ledger, calls>> /\ accepted' = accepted \cup {<<o, p>>}
  BY <1>1 DEF PlatformAccept, store
<1>3. <<o, p>> \in wire /\ calls[o] = 1
  BY <1>1 DEF PlatformAccept, Truth, MessagesTraced
<1>4. stepOf[o] # NoStep
  BY <1>3 DEF IndInv, OneCaller
<1>5. ledger[stepOf[o]].state # "failed"
  <2>1. RowTrue(o) /\ ~Silent(o)
    BY <1>3 DEF Truth, Silent
  <2> QED
    BY <1>4, <2>1 DEF RowTrue
<1>6. Status(o) # "failed"
  <2>1. ledger[stepOf[o]].state \in {"absent"} \cup InFlight \cup Settled
    BY <1>4 DEF IndInv, TypeOK, Row
  <2> QED
    BY <1>4, <1>5, <2>1 DEF Status, InFlight, Settled
<1>7. {q \in Op : \E r \in Payload : <<q, r>> \in accepted}' =
      {q \in Op : \E r \in Payload : <<q, r>> \in accepted} \cup {o}
  BY <1>2
<1>8. [q \in Op |-> Status(q)]' = [q \in Op |-> Status(q)]
  BY <1>2, StatusKept
<1>9. Abstract!Show(o)
  BY <1>2, <1>3, <1>6, <1>7, <1>8 DEF Abstract!Show
<1> QED
  BY <1>9 DEF Abstract!Next

\* commit and markFailed are the two verdicts that need the platform's answer.
LEMMA VerdictImplements ==
    ASSUME IndInv, Truth, NEW a \in Attempt, Commit(a) \/ MarkFailed(a)
    PROVE  Abstract!Next \/ UNCHANGED Abstract!vars
<1>0. att[a].pc \in Holding /\ att[a].pc \in {"commit", "fail"}
  BY DEF Commit, MarkFailed, Holding
<1>1. PICK o \in Op, s \in Step : HoldsRow(a, o, s)
  BY <1>0, HolderHasRow
<1>2. UNCHANGED <<stepOf, calls, accepted>>
  BY DEF Commit, MarkFailed, platform
<1>3. CASE UNCHANGED ledger
  BY <1>2, <1>3, QuietImplements
<1>4. ASSUME NEW v \in {"committed", "failed"}, NEW verdict, Status(o)' = verdict,
             ledger[s].state = "unknown_after_send", ledger'[s].state = v,
             \A t \in Step : t # s => ledger'[t] = ledger[t],
             \/ v = "committed" /\ att[a].pc = "commit" /\ verdict = "delivered"
             \/ v = "failed" /\ att[a].pc = "fail" /\ verdict = "failed"
      PROVE  Abstract!Next
  <2>1. \A q \in Op \ {o} : Status(q)' = Status(q)
    BY <1>1, <1>2, <1>4, OtherStatusKept DEF HoldsRow
  <2>2. Status(o) = "sending"
    BY <1>1, <1>4, StatusOfRow DEF HoldsRow
  <2>3. calls[o] = 1
    BY <1>0, <1>1 DEF Truth, SenderTrue, CallIsReal, HoldsRow
  <2>4. att[a].pc = "commit" => \E p \in Payload : <<o, p>> \in accepted
    BY <1>1 DEF Truth, SenderTrue, CallIsReal, MessageOf, HoldsRow
  <2>5. att[a].pc = "fail" => ~ \E p \in Payload : <<o, p>> \in accepted
    BY <1>1 DEF Truth, SenderTrue, CallIsReal, Silent, HoldsRow
  <2>6. Abstract!Settle(o, verdict)
    BY <1>2, <1>4, <2>1, <2>2, <2>3, <2>4, <2>5, AbstractWrite DEF Abstract!Settle
  <2> QED
    BY <1>4, <2>6 DEF Abstract!Next
<1>5. CASE /\ att[a].pc = "commit" /\ ledger[s].state = "unknown_after_send"
           /\ ledger' = [ledger EXCEPT ![s].state = "committed",
                                       ![s].receipt = att[a].payload]
  <2>1. ledger[s] \in Row /\ ledger \in [Step -> Row]
    BY <1>1 DEF HoldsRow
  <2>2. /\ ledger'[s] = [ledger[s] EXCEPT !.state = "committed", !.receipt = att[a].payload]
        /\ \A t \in Step : t # s => ledger'[t] = ledger[t]
    BY <1>5, <2>1
  <2>3. ledger'[s].state = "committed"
    BY <2>1, <2>2 DEF Row
  <2>4. Status(o)' = "delivered"
    BY <1>1, <1>2, <2>3 DEF Status, HoldsRow
  <2> QED
    BY <1>4, <1>5, <2>2, <2>3, <2>4
<1>6. CASE /\ att[a].pc = "fail" /\ ledger[s].state = "unknown_after_send"
           /\ SetState(s, "failed")
  <2>1. /\ ledger'[s].state = "failed"
        /\ \A t \in Step : t # s => ledger'[t] = ledger[t]
    BY <1>1, <1>6, SetStateRow DEF HoldsRow, Settled
  <2>2. Status(o)' = "failed"
    BY <1>1, <1>2, <2>1 DEF Status, HoldsRow
  <2> QED
    BY <1>4, <1>6, <2>1, <2>2
<1> QED
  BY <1>1, <1>3, <1>5, <1>6 DEF Commit, MarkFailed, HoldsRow

\* A step of a sender is a step of the abstract operation, or none.
LEMMA SenderImplements ==
    ASSUME IndInv, Truth, NEW a \in Attempt, Sender(a)
    PROVE  Abstract!Next \/ UNCHANGED Abstract!vars
<1>1. CASE \/ \E o \in Op, mode \in Mode, p \in Payload : Start(a, o, mode, p)
           \/ \E o \in AnnounceOp, p \in Payload : StartDrain(a, o, p)
           \/ LookupTerminalDecision(a) \/ ClaimSendStart(a) \/ Lookup(a)
           \/ SendReturns(a) \/ Inspect(a) \/ Finish(a)
  <2>1. UNCHANGED <<stepOf, ledger, calls, accepted>>
    BY <1>1 DEF Start, StartDrain, LookupTerminalDecision, ClaimSendStart, Lookup,
                SendReturns, Inspect, Finish, store, platform
  <2> QED
    BY <2>1, QuietImplements
<1>2. CASE AllocateStep(a)
  <2>1. PICK o \in Op : o = att[a].op
    BY <1>2 DEF AllocateStep, IndInv, SendersNamed
  <2>2. UNCHANGED <<ledger, calls, accepted>>
    BY <1>2 DEF AllocateStep, platform
  <2>3. CASE UNCHANGED stepOf
    BY <2>2, <2>3, QuietImplements
  <2>4. CASE /\ stepOf[o] = NoStep /\ NextStep \in Step
             /\ stepOf' = [stepOf EXCEPT ![o] = NextStep]
    <3>1. PICK s \in Step : s = NextStep
      BY <2>4
    <3>2. s = lastStep + 1 /\ lastStep \in Int
      BY <3>1, BoundsAssumption, NextStepIsFree DEF IndInv, TypeOK, Step, NoStep
    <3>3. ledger[s].state = "absent" /\ s # NoStep
      BY <3>2, BoundsAssumption DEF IndInv, SequenceAhead, Step, NoStep
    <3>4. stepOf'[o] = s /\ \A q \in Op \ {o} : stepOf'[q] = stepOf[q]
      BY <2>4, <3>1 DEF IndInv, TypeOK
    <3>5. Status(o)' = "fresh" /\ Status(o) = "fresh"
      BY <2>2, <2>4, <3>3, <3>4 DEF Status
    <3>6. \A q \in Op \ {o} : Status(q)' = Status(q)
      BY <2>2, <3>4, StatusKept
    <3> QED
      BY <2>2, <3>5, <3>6, AbstractStutter
  <2> QED
    BY <1>2, <2>1, <2>3, <2>4 DEF AllocateStep
<1>3. CASE Begin(a) \/ ReclaimPreSend(a)
  <2>1. PICK o \in Op, s \in Step : HoldsRow(a, o, s)
    BY <1>3, HolderHasRow DEF Begin, ReclaimPreSend, Holding
  <2>2. UNCHANGED <<stepOf, calls, accepted>>
    BY <1>3 DEF Begin, ReclaimPreSend, platform
  <2>3. CASE UNCHANGED ledger
    BY <2>2, <2>3, QuietImplements
  <2>4. CASE /\ ledger[s].state \in Unmarked
             /\ \E row \in {Started(att[a].payload), Absent} :
                   ledger' = [ledger EXCEPT ![s] = row]
    <3>1. /\ ledger'[s].state \in Unmarked
          /\ \A t \in Step : t # s => ledger'[t] = ledger[t]
      BY <2>1, <2>4 DEF HoldsRow, Started, Absent, Unmarked
    <3> QED
      BY <2>1, <2>2, <2>4, <3>1, FreshStays DEF HoldsRow
  <2>5. ledger[s].state \in {"absent", "send_attempt_started"} => ledger[s].state \in Unmarked
    BY DEF Unmarked
  <2> QED
    BY <1>3, <2>1, <2>3, <2>4, <2>5 DEF Begin, CanBegin, ReclaimPreSend, HoldsRow
<1>4. CASE ParkUncertain(a)
  <2>1. att[a].step \in Step
    BY <1>4, HolderNamed DEF ParkUncertain, Holding
  <2>2. UNCHANGED <<stepOf, calls, accepted>>
    BY <1>4 DEF ParkUncertain, platform
  <2> QED
    BY <1>4, <2>1, <2>2, ParkImplements, QuietImplements DEF ParkUncertain
<1> QED
  BY <1>1, <1>2, <1>3, <1>4, MarkUnknownImplements, DoSendImplements,
     VerdictImplements
  DEF Sender

\* Every step maps to a step of the abstract operation or to a stutter.
LEMMA NextImplements ==
    IndInv /\ Truth /\ [Next]_vars => [Abstract!Next]_(Abstract!vars)
<1> SUFFICES ASSUME IndInv, Truth, [Next]_vars
             PROVE  Abstract!Next \/ UNCHANGED Abstract!vars
  OBVIOUS
<1>1. CASE \/ UNCHANGED vars \/ RecoveryScan \/ RecoveryStop \/ Restart
           \/ \E o \in AnnounceOp, outcome \in Outcome :
                 RecordTerminalDecision(o, outcome)
  <2>1. UNCHANGED <<stepOf, ledger, calls, accepted>>
    BY <1>1 DEF vars, store, platform, RecoveryScan, RecoveryStop, Restart,
                RecordTerminalDecision
  <2> QED
    BY <2>1, QuietImplements
<1>2. ASSUME NEW s \in Step, RecoveryPark(s)
      PROVE  Abstract!Next \/ UNCHANGED Abstract!vars
  BY <1>2, ParkImplements DEF RecoveryPark, platform
<1> QED
  BY <1>1, <1>2, SenderImplements, PlatformAcceptImplements DEF Next

\* The ledger implements OutwardOperation: senders, drains, reclaims, recovery
\* passes, decisions and restarts together are one operation that is commenced,
\* called once at most, shown, and given a single verdict.
THEOREM Implementation == Spec => ImplementsOperation
<1>1. Init => Abstract!Init
  <2> SUFFICES ASSUME Init PROVE Abstract!Init
    OBVIOUS
  <2>1. \A o \in Op : Status(o) = "fresh"
    BY DEF Init, Status
  <2> QED
    BY <2>1 DEF Init, Abstract!Init
<1>2. IndInv /\ Truth /\ [Next]_vars => [Abstract!Next]_(Abstract!vars)
  BY NextImplements
<1> QED
  BY <1>1, <1>2, TruthInvariance, PTL DEF Spec, ImplementsOperation, Abstract!Spec
=============================================================================
