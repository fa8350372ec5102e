------------------------- MODULE CommandQueueProofs -------------------------
(***************************************************************************)
(* Proofs about CommandQueue, for every number of lanes, conversations,    *)
(* messages and queues: one handler per conversation, messages of a lane   *)
(* in order unless it steers, a logical depth that is the number of        *)
(* messages a lane holds, resources that follow their entry, and a         *)
(* shutdown that settles every message.                                    *)
(*                                                                         *)
(* The invariant says where things are: which lane and queue a task        *)
(* belongs to, that no message is in two places, that a message without a  *)
(* terminal is in some place, and in which order the places of a lane are. *)
(* Its parts are stated of tables of lanes ls and of queues qs, since a    *)
(* step makes several changes to them one after the other.                 *)
(***************************************************************************)
EXTENDS CommandQueue, SequenceTheorems, InductionLemmas

Entry == [ids : SUBSET Msg, count : Nat]
Task  == [lane : Lane, entry : Entry]
Stage == {"none", "gate", "exec", "ended", "leaving"}
LaneRecord ==
    [exists : BOOLEAN, q : QId \cup {NoQueue}, pendingEntries : Seq(Entry),
     logicalDepth : Nat, isExecuting : BOOLEAN]
QueueRecord == [waiting : Seq(Task), run : Task \cup {NoTask}, stage : Stage]

Tables(ls, qs) == ls \in [Lane -> LaneRecord] /\ qs \in [QId -> QueueRecord]

Types ==
    /\ phase \in {"open", "closing", "closed"}
    /\ mode \in [Lane -> Mode]
    /\ policy \in Policies
    /\ Tables(lanes, queue)
    /\ gateWait \in Seq(QId)
    /\ debounce \in SUBSET Lane
    /\ msgs \in Seq(Lane) /\ Len(msgs) <= MaxMsg
    /\ outcome \in [Msg -> {"none", "done", "dropped", "rejected", "aborted"}]
    /\ owner \in [Msg -> {"queue", "handler", "released"}]

\* Lanes of one conversation share their queue.
Shared(ls) ==
    /\ \A l \in Lane : ls[l].exists => ls[l].q # NoQueue
    /\ \A l, k \in Lane :
          SessionOf[l] = SessionOf[k] /\ ls[l].q # NoQueue /\ ls[k].q # NoQueue
          => ls[l].q = ls[k].q

Started(qs, q) == qs[q].stage \in {"gate", "exec"}

\* The messages of entry e, of which there is one, are accepted ones of lane l.
OfLane(e, l, ms) == e.ids # {} /\ \A m \in e.ids : m \in 1 .. Len(ms) /\ ms[m] = l

\* A queue works on tasks of the lanes that refer to it.
RunHome(ls, qs, ms) ==
    \A q \in QId :
        /\ qs[q].stage # "none" => qs[q].run \in Task /\ ls[qs[q].run.lane].q = q
        /\ Started(qs, q) => OfLane(qs[q].run.entry, qs[q].run.lane, ms)

WaitHome(ls, qs, ms) ==
    \A q \in QId : \A i \in DOMAIN qs[q].waiting :
        LET t == qs[q].waiting[i]
        IN  /\ ls[t.lane].q = q
            /\ IF IsSteer(t) THEN mode[t.lane] = "steer" ELSE OfLane(t.entry, t.lane, ms)

Before(S, T) == \A m \in S, n \in T : m < n

\* The pending entries of a lane are in order.
PendingHome(ls, ms) ==
    \A l \in Lane :
        /\ \A i \in DOMAIN ls[l].pendingEntries : OfLane(ls[l].pendingEntries[i], l, ms)
        /\ \A i, j \in DOMAIN ls[l].pendingEntries :
              i < j => Before(ls[l].pendingEntries[i].ids, ls[l].pendingEntries[j].ids)

\* No message is in two places.
Apart(ls, qs) ==
    \A q \in QId : \A i \in DOMAIN qs[q].waiting : \A m \in qs[q].waiting[i].entry.ids :
        /\ \A j \in DOMAIN qs[q].waiting : m \in qs[q].waiting[j].entry.ids => i = j
        /\ Started(qs, q) => m \notin qs[q].run.entry.ids

PendingApart(ls, qs) ==
    \A l \in Lane, q \in QId :
        \A i \in DOMAIN ls[l].pendingEntries : \A m \in ls[l].pendingEntries[i].ids :
            /\ \A j \in DOMAIN qs[q].waiting : m \notin qs[q].waiting[j].entry.ids
            /\ Started(qs, q) => m \notin qs[q].run.entry.ids

\* Unless it steers, a lane's running entry comes first, then its waiting tasks
\* one after the other, then what is pending.
Ordered(ls, qs) ==
    \A q \in QId : \A i \in DOMAIN qs[q].waiting :
        LET t == qs[q].waiting[i]
        IN  mode[t.lane] # "steer" =>
            /\ \A j \in DOMAIN qs[q].waiting :
                  i < j /\ qs[q].waiting[j].lane = t.lane
                  => Before(t.entry.ids, qs[q].waiting[j].entry.ids)
            /\ Started(qs, q) /\ qs[q].run.lane = t.lane
                  => Before(qs[q].run.entry.ids, t.entry.ids)
            /\ \A j \in DOMAIN ls[t.lane].pendingEntries :
                  Before(t.entry.ids, ls[t.lane].pendingEntries[j].ids)

RunOrdered(ls, qs) ==
    \A q \in QId :
        Started(qs, q) /\ mode[qs[q].run.lane] # "steer" =>
            \A j \in DOMAIN ls[qs[q].run.lane].pendingEntries :
                Before(qs[q].run.entry.ids, ls[qs[q].run.lane].pendingEntries[j].ids)

\* Messages are collected only while a handler of the lane runs.
Collecting(ls) ==
    \A l \in Lane : ls[l].pendingEntries # <<>> /\ mode[l] # "steer" =>
        mode[l] = "collect" /\ ls[l].isExecuting

Placed(ls, qs, ms) ==
    /\ Shared(ls)
    /\ RunHome(ls, qs, ms) /\ WaitHome(ls, qs, ms) /\ PendingHome(ls, ms)
    /\ Apart(ls, qs) /\ PendingApart(ls, qs)
    /\ Ordered(ls, qs) /\ RunOrdered(ls, qs) /\ Collecting(ls)

\* The queues at the gate, each once.
AtGate(qs, gw) ==
    /\ \A i \in DOMAIN gw : qs[gw[i]].stage = "gate"
    /\ \A i, j \in DOMAIN gw : gw[i] = gw[j] => i = j

\* A lane that does not exist is blank while the queue is open; afterwards
\* nothing waits any more.
Phased ==
    /\ phase = "open" => \A l \in Lane : ~lanes[l].exists => lanes[l] = NoLane
    /\ phase # "open" =>
          /\ debounce = {} /\ gateWait = <<>>
          /\ \A l \in Lane : lanes[l].pendingEntries = <<>>
          /\ \A q \in QId : queue[q].waiting = <<>> /\ queue[q].stage # "gate"

Inside(ls, qs, m) ==
    \/ \E q \in QId : Started(qs, q) /\ m \in qs[q].run.entry.ids
    \/ \E q \in QId : \E i \in DOMAIN qs[q].waiting : m \in qs[q].waiting[i].entry.ids
    \/ \E l \in Lane : \E i \in DOMAIN ls[l].pendingEntries :
          m \in ls[l].pendingEntries[i].ids

\* Message m stands for an entry that waits.
Leads(ls, qs, m) ==
    \/ \E q \in QId : qs[q].stage = "gate" /\ Newest(qs[q].run.entry) = m
    \/ \E q \in QId : \E i \in DOMAIN qs[q].waiting :
          ~IsSteer(qs[q].waiting[i]) /\ Newest(qs[q].waiting[i].entry) = m
    \/ \E l \in Lane : \E i \in DOMAIN ls[l].pendingEntries :
          Newest(ls[l].pendingEntries[i]) = m

Located ==
    \A m \in Accepted :
        outcome[m] = "none" => phase = "open" /\ Inside(lanes, queue, m)

Resources(ls, qs, own, ms) ==
    \A m \in Msg : own[m] = "queue" <=> m \notin 1 .. Len(ms) \/ Leads(ls, qs, m)

IndInv ==
    /\ Types
    /\ Placed(lanes, queue, msgs)
    /\ AtGate(queue, gateWait)
    /\ Phased
    /\ Located
    /\ Resources(lanes, queue, owner, msgs)

-----------------------------------------------------------------------------
(* Entries.                                                                *)

\* The newest message of an entry is one of it, and no other is newer.
LEMMA NewestIs ==
  ASSUME NEW e, e.ids \in SUBSET Msg, e.ids # {}
  PROVE  Newest(e) \in e.ids /\ \A m \in e.ids : m <= Newest(e)
<1>1. e.ids \in SUBSET (0 .. MaxMsg) /\ MaxMsg \in Nat
  BY QueueAssumption DEF Msg
<1>2. \E x \in e.ids : \A y \in e.ids : x >= y
  BY <1>1, GreatestNat
<1>3. Newest(e) \in e.ids /\ \A y \in e.ids : Newest(e) >= y
  BY <1>2 DEF Newest, Max
<1> QED
  BY <1>1, <1>3

\* The oldest message of an entry is one of it.
LEMMA OldestIs ==
  ASSUME NEW S \in SUBSET Msg, S # {}
  PROVE  Min(S) \in S
<1>1. S \in SUBSET Nat
  BY QueueAssumption DEF Msg
<1>2. \E x \in S : \A y \in S : x <= y
  BY <1>1, LeastNat
<1> QED
  BY <1>2 DEF Min

\* A queue that is free exists when the model creates one.
LEMMA FreeQueue ==
  ASSUME \E q \in QId : Unused(q)
  PROVE  Min({q \in QId : Unused(q)}) \in QId /\ Unused(Min({q \in QId : Unused(q)}))
<1> DEFINE S == {q \in QId : Unused(q)}
<1>1. S \in SUBSET Nat /\ S # {}
  BY QueueAssumption DEF QId
<1>2. \E x \in S : \A y \in S : x <= y
  BY <1>1, LeastNat
<1>3. Min(S) \in S
  BY <1>2 DEF Min
<1> QED
  BY <1>3

\* The messages of a sequence of entries are those of its elements.
LEMMA MsgsOfIs ==
  ASSUME NEW es \in Seq(Entry)
  PROVE  /\ \A m : m \in MsgsOf(es) <=> \E i \in DOMAIN es : m \in es[i].ids
         /\ MsgsOf(es) \in SUBSET Msg
<1>1. \A m : m \in MsgsOf(es) <=> \E i \in DOMAIN es : m \in es[i].ids
  <2> TAKE m
  <2>1. ASSUME m \in MsgsOf(es) PROVE \E i \in DOMAIN es : m \in es[i].ids
    <3>1. PICK S \in {e.ids : e \in Range(es)} : m \in S
      BY <2>1 DEF MsgsOf
    <3>2. PICK e \in Range(es) : S = e.ids
      BY <3>1
    <3>3. PICK i \in DOMAIN es : e = es[i]
      BY <3>2 DEF Range
    <3> QED
      BY <3>1, <3>2, <3>3
  <2>2. ASSUME NEW i \in DOMAIN es, m \in es[i].ids PROVE m \in MsgsOf(es)
    <3>1. es[i] \in Range(es)
      BY DEF Range
    <3>2. es[i].ids \in {e.ids : e \in Range(es)}
      BY <3>1
    <3> QED
      BY <2>2, <3>2 DEF MsgsOf
  <2> QED
    BY <2>1, <2>2
<1>2. \A i \in DOMAIN es : es[i].ids \in SUBSET Msg
  <2>1. \A i \in DOMAIN es : es[i] \in Entry
    OBVIOUS
  <2> QED
    BY <2>1 DEF Entry
<1> QED
  BY <1>1, <1>2

\* The number of messages a sequence of entries stands for is a number.
LEMMA CountIsNat == ASSUME NEW es \in Seq(Entry) PROVE CountOf(es) \in Nat
<1> DEFINE S == DOMAIN es
           w == [i \in S |-> es[i].count]
           Fold(g, s) ==
               IF s = {} THEN 0
               ELSE es[CHOOSE x \in s : TRUE].count + g[s \ {CHOOSE x \in s : TRUE}]
           sum == CHOOSE g : g = [s \in SUBSET S |-> Fold(g, s)]
<1>1. IsFiniteSet(S) /\ w \in [S -> Nat]
  <2>1. S = 1 .. Len(es) /\ Len(es) \in Nat /\ \A i \in S : es[i] \in Entry
    OBVIOUS
  <2>2. IsFiniteSet(1 .. Len(es))
    BY <2>1, FS_Interval
  <2>3. \A i \in S : es[i].count \in Nat
    BY <2>1 DEF Entry
  <2> HIDE DEF S
  <2> QED
    BY <2>1, <2>2, <2>3
<1>2. CountOf(es) = sum[S]
  BY Zenon DEF CountOf, FoldSeq, FoldFunction, FoldFunctionOnSet, MapThenFoldSet
<1>3. PICK h : IsSum(S, w, h)
  <2> HIDE DEF S, w, Fold, sum
  <2> QED
    BY <1>1, SumExists
<1>4. \A g : \A s \in SUBSET S : Weighed(w, g, s) = Fold(g, s)
  BY DEF Weighed
<1>5. h = [s \in SUBSET S |-> Fold(h, s)]
  <2> HIDE DEF S, w, Fold
  <2> QED
    BY <1>3, <1>4 DEF IsSum
<1>6. sum = [s \in SUBSET S |-> Fold(sum, s)]
  <2> HIDE DEF Fold, S
  <2> QED
    BY <1>5
<1> HIDE DEF S, w, Fold, sum
<1>7. IsSum(S, w, sum)
  BY <1>4, <1>6 DEF IsSum
<1> QED
  BY <1>1, <1>2, <1>7, SumIsNat

\* What a coalesced entry is.
LEMMA CoalescedIs ==
  ASSUME NEW es \in Seq(Entry)
  PROVE  Coalesced(es) \in Entry /\ Coalesced(es).ids = MsgsOf(es)
  BY CountIsNat, MsgsOfIs DEF Coalesced, Entry

-----------------------------------------------------------------------------
(* What the invariant says of the properties.                              *)

\* Two handlers of a conversation would be on one queue.
LEMMA OneHandler == IndInv => OneHandlerPerSession
<1> SUFFICES ASSUME IndInv, NEW p \in QId, NEW q \in QId,
                    queue[p].stage = "exec", queue[q].stage = "exec",
                    SessionOf[queue[p].run.lane] = SessionOf[queue[q].run.lane]
             PROVE  p = q
  BY DEF OneHandlerPerSession
<1>1. /\ queue[p].run \in Task /\ lanes[queue[p].run.lane].q = p
      /\ queue[q].run \in Task /\ lanes[queue[q].run.lane].q = q
  BY DEF IndInv, Placed, RunHome
<1>2. p # NoQueue /\ q # NoQueue
  BY DEF QId, NoQueue
<1>3. queue[p].run.lane \in Lane /\ queue[q].run.lane \in Lane
  BY <1>1 DEF Task
<1> QED
  BY <1>1, <1>2, <1>3 DEF IndInv, Placed, Shared

\* What has no terminal is inside an open queue.
LEMMA Settled == IndInv => ShutdownSettlesAll
  BY DEF IndInv, Located, ShutdownSettlesAll

\* The tasks that have not started are those waiting and the one at the gate.
LEMMA NotStartedIs ==
  ASSUME Types, NEW q \in QId, queue[q].stage = "gate" => queue[q].run \in Task
  PROVE  /\ NotStarted(q) \in Seq(Task)
         /\ \A t : t \in Range(NotStarted(q)) <=>
               \/ \E i \in DOMAIN queue[q].waiting : t = queue[q].waiting[i]
               \/ queue[q].stage = "gate" /\ t = queue[q].run
<1>1. queue[q].waiting \in Seq(Task)
  BY DEF Types, Tables, QueueRecord
<1>2. CASE queue[q].stage = "gate"
  <2>1. NotStarted(q) = queue[q].waiting \o <<queue[q].run>> /\ <<queue[q].run>> \in Seq(Task)
    BY <1>2 DEF NotStarted
  <2>2. /\ NotStarted(q) \in Seq(Task)
        /\ DOMAIN NotStarted(q) = 1 .. Len(queue[q].waiting) + 1
        /\ \A i \in DOMAIN queue[q].waiting : NotStarted(q)[i] = queue[q].waiting[i]
        /\ NotStarted(q)[Len(queue[q].waiting) + 1] = queue[q].run
    BY <1>1, <2>1
  <2> QED
    BY <1>1, <1>2, <2>2, SMTT(30) DEF Range
<1>3. CASE queue[q].stage # "gate"
  <2>1. NotStarted(q) = queue[q].waiting
    BY <1>1, <1>3 DEF NotStarted
  <2> QED
    BY <1>1, <1>3, <2>1 DEF Range
<1> QED
  BY <1>2, <1>3

\* The entries of a lane that wait, by their place.
LEMMA WaitingIs ==
  ASSUME IndInv, NEW l \in Lane, NEW e
  PROVE  e \in WaitingEntries(l) <=>
           \/ \E q \in QId : queue[q].stage = "gate" /\ queue[q].run.lane = l
                             /\ e = queue[q].run.entry
           \/ \E q \in QId : \E i \in DOMAIN queue[q].waiting :
                 /\ queue[q].waiting[i].lane = l /\ ~IsSteer(queue[q].waiting[i])
                 /\ e = queue[q].waiting[i].entry
           \/ \E i \in DOMAIN lanes[l].pendingEntries : e = lanes[l].pendingEntries[i]
<1>1. \A q \in QId : queue[q].stage = "gate" =>
         queue[q].run \in Task /\ queue[q].run.entry.ids # {}
  BY DEF IndInv, Placed, RunHome, Started, OfLane
<1>2. \A q \in QId : \A t : t \in Range(NotStarted(q)) <=>
         \/ \E i \in DOMAIN queue[q].waiting : t = queue[q].waiting[i]
         \/ queue[q].stage = "gate" /\ t = queue[q].run
  BY <1>1, NotStartedIs DEF IndInv
<1> DEFINE Of(q) == {t.entry : t \in {x \in Range(NotStarted(q)) : x.lane = l}}
<1>3. e \in WaitingEntries(l) <=>
         \/ e.ids # {} /\ \E q \in QId : e \in Of(q)
         \/ e \in Range(lanes[l].pendingEntries)
  BY Zenon DEF WaitingEntries
<1>4. \A q \in QId : e \in Of(q) <=> \E t \in Range(NotStarted(q)) : t.lane = l /\ e = t.entry
  OBVIOUS
<1>5. e \in Range(lanes[l].pendingEntries) <=>
         \E i \in DOMAIN lanes[l].pendingEntries : e = lanes[l].pendingEntries[i]
  BY DEF Range
<1> HIDE DEF Of
<1>6. (e.ids # {} /\ \E q \in QId : e \in Of(q)) <=>
         \/ \E q \in QId : queue[q].stage = "gate" /\ queue[q].run.lane = l
                           /\ e = queue[q].run.entry
         \/ \E q \in QId : \E i \in DOMAIN queue[q].waiting :
               /\ queue[q].waiting[i].lane = l /\ ~IsSteer(queue[q].waiting[i])
               /\ e = queue[q].waiting[i].entry
  BY <1>1, <1>2, <1>4 DEF IsSteer
<1> QED
  BY <1>3, <1>5, <1>6

\* The order of the places is the order of the lane.
LEMMA InLaneOrder == IndInv => LaneOrder
<1> SUFFICES ASSUME IndInv, NEW l \in Lane, mode[l] # "steer",
                    NEW a \in ActiveEntries(l), NEW w \in WaitingEntries(l)
             PROVE  Newest(a) < Min(w.ids)
  BY DEF LaneOrder, InOrder
<1>1. PICK q \in QId : queue[q].stage = "exec" /\ queue[q].run.lane = l /\ a = queue[q].run.entry
  BY DEF ActiveEntries
<1>2. Started(queue, q) /\ queue[q].run \in Task /\ lanes[l].q = q /\ OfLane(a, l, msgs)
  BY <1>1 DEF IndInv, Placed, RunHome, Started
<1>3. a.ids \in SUBSET Msg /\ a.ids # {}
  BY <1>1, <1>2 DEF Task, Entry, OfLane
<1>4. w.ids \in SUBSET Msg /\ w.ids # {} /\ Before(a.ids, w.ids)
  <2>1. ASSUME NEW p \in QId, queue[p].stage = "gate", queue[p].run.lane = l
        PROVE  FALSE
    BY <1>1, <1>2, <2>1 DEF IndInv, Placed, RunHome, Started
  <2>2. ASSUME NEW p \in QId, NEW i \in DOMAIN queue[p].waiting,
               queue[p].waiting[i].lane = l, ~IsSteer(queue[p].waiting[i]),
               w = queue[p].waiting[i].entry
        PROVE  w.ids \in SUBSET Msg /\ w.ids # {} /\ Before(a.ids, w.ids)
    <3>1. queue[p].waiting[i] \in Task
      BY DEF IndInv, Types, Tables, QueueRecord
    <3>2. p = q
      BY <1>2, <2>2 DEF IndInv, Placed, WaitHome
    <3> QED
      BY <1>1, <1>2, <2>2, <3>1, <3>2 DEF IndInv, Placed, Ordered, IsSteer, Task, Entry
  <2>3. ASSUME NEW i \in DOMAIN lanes[l].pendingEntries, w = lanes[l].pendingEntries[i]
        PROVE  w.ids \in SUBSET Msg /\ w.ids # {} /\ Before(a.ids, w.ids)
    <3>1. w \in Entry /\ OfLane(w, l, msgs)
      BY <2>3 DEF IndInv, Types, Tables, LaneRecord, Placed, PendingHome
    <3> QED
      BY <1>1, <1>2, <2>3, <3>1 DEF IndInv, Placed, RunOrdered, OfLane, Entry
  <2> QED
    BY <2>1, <2>2, <2>3, WaitingIs
<1>5. Newest(a) \in a.ids /\ Min(w.ids) \in w.ids
  BY <1>3, <1>4, NewestIs, OldestIs
<1> QED
  BY <1>4, <1>5 DEF Before

\* The message that stands for an entry of a lane is one of the lane.
LEMMA Followed == IndInv => ResourcesFollowEntry
<1> SUFFICES ASSUME IndInv, NEW m \in Accepted
             PROVE  owner[m] = "queue" <=> \E e \in WaitingEntries(msgs[m]) : Newest(e) = m
  BY DEF ResourcesFollowEntry
<1>1. m \in Msg /\ msgs[m] \in Lane /\ m \in 1 .. Len(msgs)
  BY QueueAssumption DEF IndInv, Types, Accepted, Msg
<1>2. owner[m] = "queue" <=> Leads(lanes, queue, m)
  BY <1>1 DEF IndInv, Resources
<1>3. ASSUME NEW e \in WaitingEntries(msgs[m]), Newest(e) = m PROVE Leads(lanes, queue, m)
  BY <1>1, <1>3, WaitingIs DEF Leads
<1>4. ASSUME Leads(lanes, queue, m) PROVE \E e \in WaitingEntries(msgs[m]) : Newest(e) = m
  <2>1. ASSUME NEW q \in QId, queue[q].stage = "gate", Newest(queue[q].run.entry) = m
        PROVE  \E e \in WaitingEntries(msgs[m]) : Newest(e) = m
    <3>1. queue[q].run \in Task /\ OfLane(queue[q].run.entry, queue[q].run.lane, msgs)
      BY <2>1 DEF IndInv, Placed, RunHome, Started
    <3>2. m \in queue[q].run.entry.ids
      BY <2>1, <3>1, NewestIs DEF OfLane, Task, Entry
    <3>3. msgs[m] = queue[q].run.lane
      BY <3>1, <3>2 DEF OfLane
    <3>4. queue[q].run.entry \in WaitingEntries(msgs[m])
      BY <1>1, <2>1, <3>3, WaitingIs
    <3> QED
      BY <2>1, <3>4
  <2>2. ASSUME NEW q \in QId, NEW i \in DOMAIN queue[q].waiting,
               ~IsSteer(queue[q].waiting[i]), Newest(queue[q].waiting[i].entry) = m
        PROVE  \E e \in WaitingEntries(msgs[m]) : Newest(e) = m
    <3>1. queue[q].waiting[i] \in Task
      BY DEF IndInv, Types, Tables, QueueRecord
    <3>2. OfLane(queue[q].waiting[i].entry, queue[q].waiting[i].lane, msgs)
      BY <2>2 DEF IndInv, Placed, WaitHome
    <3>3. m \in queue[q].waiting[i].entry.ids
      BY <2>2, <3>1, <3>2, NewestIs DEF OfLane, Task, Entry
    <3>4. msgs[m] = queue[q].waiting[i].lane
      BY <3>2, <3>3 DEF OfLane
    <3>5. queue[q].waiting[i].entry \in WaitingEntries(msgs[m])
      BY <1>1, <2>2, <3>4, WaitingIs
    <3> QED
      BY <2>2, <3>5
  <2>3. ASSUME NEW l \in Lane, NEW i \in DOMAIN lanes[l].pendingEntries,
               Newest(lanes[l].pendingEntries[i]) = m
        PROVE  \E e \in WaitingEntries(msgs[m]) : Newest(e) = m
    <3>1. lanes[l].pendingEntries[i] \in Entry /\ OfLane(lanes[l].pendingEntries[i], l, msgs)
      BY DEF IndInv, Types, Tables, LaneRecord, Placed, PendingHome
    <3>2. m \in lanes[l].pendingEntries[i].ids
      BY <2>3, <3>1, NewestIs DEF OfLane, Entry
    <3>3. msgs[m] = l
      BY <3>1, <3>2 DEF OfLane
    <3>4. lanes[l].pendingEntries[i] \in WaitingEntries(msgs[m])
      BY <3>3, WaitingIs
    <3> QED
      BY <2>3, <3>4
  <2> QED
    BY <1>4, <2>1, <2>2, <2>3 DEF Leads
<1> QED
  BY <1>2, <1>3, <1>4

-----------------------------------------------------------------------------
(* Changes of the tables. Each lemma is about one kind of change, and says *)
(* what it leaves of Placed, of Inside and of Leads.                       *)

\* Sequence v is w, or w without its first element, up to some point.
Windows(v, w) ==
    \E k \in {0, 1} : Len(v) + k <= Len(w) /\ \A i \in DOMAIN v : v[i] = w[i + k]

\* From (ls, qs) to (ks, ps) tasks may have left queues at the front, entries
\* may have left lanes, and running entries may have ended.
Fewer(ls, qs, ks, ps) ==
    /\ \A l \in Lane :
          /\ ks[l].q = ls[l].q /\ (ks[l].exists => ls[l].exists)
          /\ \/ ks[l].pendingEntries = <<>>
             \/ /\ ks[l].pendingEntries = ls[l].pendingEntries
                /\ ks[l].isExecuting = ls[l].isExecuting \/ ks[l].isExecuting \/ mode[l] = "steer"
    /\ \A q \in QId :
          /\ ps[q].waiting = <<>> \/ Windows(ps[q].waiting, qs[q].waiting)
          /\ ps[q].stage # "none" => qs[q].stage # "none" /\ ps[q].run = qs[q].run
          /\ Started(ps, q) => Started(qs, q)

\* What is placed stays so when things leave.
LEMMA FewerPlaced ==
  ASSUME NEW ls, NEW qs, NEW ks, NEW ps, NEW ms, Tables(ls, qs), Tables(ks, ps),
         Placed(ls, qs, ms), Fewer(ls, qs, ks, ps)
  PROVE  Placed(ks, ps, ms)
<1>1. \A q \in QId : \E k \in {0, 1} : \A i \in DOMAIN ps[q].waiting :
         i + k \in DOMAIN qs[q].waiting /\ ps[q].waiting[i] = qs[q].waiting[i + k]
  <2> SUFFICES ASSUME NEW q \in QId
               PROVE  \E k \in {0, 1} : \A i \in DOMAIN ps[q].waiting :
                         i + k \in DOMAIN qs[q].waiting /\ ps[q].waiting[i] = qs[q].waiting[i + k]
    OBVIOUS
  <2>1. ps[q].waiting \in Seq(Task) /\ qs[q].waiting \in Seq(Task)
    BY DEF Tables, QueueRecord
  <2>2. CASE ps[q].waiting = <<>>
    BY <2>2
  <2>3. CASE Windows(ps[q].waiting, qs[q].waiting)
    <3>1. PICK k \in {0, 1} : /\ Len(ps[q].waiting) + k <= Len(qs[q].waiting)
                              /\ \A i \in DOMAIN ps[q].waiting :
                                    ps[q].waiting[i] = qs[q].waiting[i + k]
      BY <2>3 DEF Windows
    <3> QED
      BY <2>1, <3>1, SMTT(30)
  <2> QED
    BY <2>2, <2>3 DEF Fewer
<1>2. PICK at \in [QId -> {0, 1}] : \A q \in QId : \A i \in DOMAIN ps[q].waiting :
         /\ i + at[q] \in DOMAIN qs[q].waiting
         /\ ps[q].waiting[i] = qs[q].waiting[i + at[q]]
  <2> DEFINE P(q, k) == \A i \in DOMAIN ps[q].waiting :
         i + k \in DOMAIN qs[q].waiting /\ ps[q].waiting[i] = qs[q].waiting[i + k]
             f == [q \in QId |-> CHOOSE k \in {0, 1} : P(q, k)]
  <2>1. \A q \in QId : \E k \in {0, 1} : P(q, k)
    BY <1>1
  <2> HIDE DEF P
  <2>2. \A q \in QId : f[q] \in {0, 1} /\ P(q, f[q])
    BY <2>1
  <2> HIDE DEF f
  <2>3. f \in [QId -> {0, 1}]
    BY <2>2 DEF f
  <2> QED
    BY <2>2, <2>3 DEF P
<1>3. \A l \in Lane : \A i \in DOMAIN ks[l].pendingEntries :
         /\ i \in DOMAIN ls[l].pendingEntries
         /\ ks[l].pendingEntries[i] = ls[l].pendingEntries[i]
  BY DEF Fewer
<1>4. /\ \A l \in Lane : ks[l].q = ls[l].q
      /\ \A q \in QId : ps[q].stage # "none" => qs[q].stage # "none" /\ ps[q].run = qs[q].run
      /\ \A q \in QId : Started(ps, q) => Started(qs, q) /\ ps[q].run = qs[q].run
  BY DEF Fewer, Started
<1>5. \A q \in QId : \A i \in DOMAIN ps[q].waiting : i \in Nat /\ ps[q].waiting[i] \in Task
  BY DEF Tables, QueueRecord
<1>6. Shared(ks)
  BY DEF Placed, Shared, Fewer
<1>7. RunHome(ks, ps, ms)
  BY <1>4 DEF Placed, RunHome, Task
<1>8. WaitHome(ks, ps, ms)
  <2>1. \A q \in QId : \A i \in DOMAIN ps[q].waiting : ps[q].waiting[i].lane \in Lane
    BY <1>5 DEF Task
  <2> QED
    BY <1>2, <1>4, <2>1 DEF Placed, WaitHome
<1>9. PendingHome(ks, ms)
  BY <1>3 DEF Placed, PendingHome
<1>10. Apart(ks, ps)
  <2> SUFFICES ASSUME NEW q \in QId, NEW i \in DOMAIN ps[q].waiting,
                      NEW m \in ps[q].waiting[i].entry.ids
               PROVE  /\ \A j \in DOMAIN ps[q].waiting :
                            m \in ps[q].waiting[j].entry.ids => i = j
                      /\ Started(ps, q) => m \notin ps[q].run.entry.ids
    BY DEF Apart
  <2>1. PICK a \in DOMAIN qs[q].waiting : a = i + at[q] /\ ps[q].waiting[i] = qs[q].waiting[a]
    BY <1>2
  <2>2. ASSUME NEW j \in DOMAIN ps[q].waiting, m \in ps[q].waiting[j].entry.ids PROVE i = j
    <3>1. PICK b \in DOMAIN qs[q].waiting : b = j + at[q] /\ ps[q].waiting[j] = qs[q].waiting[b]
      BY <1>2
    <3>2. a = b
      BY <2>1, <2>2, <3>1 DEF Placed, Apart
    <3>3. at[q] \in {0, 1} /\ i \in Nat /\ j \in Nat
      BY <1>5
    <3> QED
      BY <2>1, <3>1, <3>2, <3>3
  <2>3. Started(ps, q) => m \notin ps[q].run.entry.ids
    BY <1>4, <2>1 DEF Placed, Apart
  <2> QED
    BY <2>2, <2>3
<1>11. PendingApart(ks, ps)
  BY <1>2, <1>3, <1>4 DEF Placed, PendingApart
<1>12. Ordered(ks, ps)
  <2> SUFFICES ASSUME NEW q \in QId, NEW i \in DOMAIN ps[q].waiting,
                      mode[ps[q].waiting[i].lane] # "steer"
               PROVE  LET t == ps[q].waiting[i]
                      IN  /\ \A j \in DOMAIN ps[q].waiting :
                                i < j /\ ps[q].waiting[j].lane = t.lane
                                => Before(t.entry.ids, ps[q].waiting[j].entry.ids)
                          /\ Started(ps, q) /\ ps[q].run.lane = t.lane
                                => Before(ps[q].run.entry.ids, t.entry.ids)
                          /\ \A j \in DOMAIN ks[t.lane].pendingEntries :
                                Before(t.entry.ids, ks[t.lane].pendingEntries[j].ids)
    BY DEF Ordered
  <2>1. at[q] \in {0, 1} /\ i \in Nat /\ ps[q].waiting[i].lane \in Lane
    BY <1>5 DEF Task
  <2>2. PICK a \in DOMAIN qs[q].waiting : a = i + at[q] /\ ps[q].waiting[i] = qs[q].waiting[a]
    BY <1>2
  <2> DEFINE t == qs[q].waiting[a]
  <2>3. /\ \A b \in DOMAIN qs[q].waiting :
              a < b /\ qs[q].waiting[b].lane = t.lane
              => Before(t.entry.ids, qs[q].waiting[b].entry.ids)
        /\ Started(qs, q) /\ qs[q].run.lane = t.lane => Before(qs[q].run.entry.ids, t.entry.ids)
        /\ \A j \in DOMAIN ls[t.lane].pendingEntries :
              Before(t.entry.ids, ls[t.lane].pendingEntries[j].ids)
    BY <2>2 DEF Placed, Ordered
  <2>4. ASSUME NEW j \in DOMAIN ps[q].waiting, i < j, ps[q].waiting[j].lane = t.lane
        PROVE  Before(t.entry.ids, ps[q].waiting[j].entry.ids)
    <3>1. PICK b \in DOMAIN qs[q].waiting : b = j + at[q] /\ ps[q].waiting[j] = qs[q].waiting[b]
      BY <1>2
    <3>2. j \in Nat
      BY <1>5
    <3>3. a < b
      BY <2>1, <2>2, <2>4, <3>1, <3>2
    <3> QED
      BY <2>3, <2>4, <3>1, <3>3
  <2>5. ps[q].waiting[i] = t /\ t.lane \in Lane
    BY <2>1, <2>2
  <2> HIDE DEF t
  <2>6. \A j \in DOMAIN ks[t.lane].pendingEntries :
           Before(t.entry.ids, ks[t.lane].pendingEntries[j].ids)
    BY <1>3, <2>3, <2>5
  <2> QED
    BY <1>4, <2>3, <2>4, <2>5, <2>6
<1>13. RunOrdered(ks, ps)
  <2>1. \A q \in QId : Started(ps, q) => ps[q].run \in Task
    BY <1>7 DEF RunHome, Started
  <2>2. \A q \in QId : Started(ps, q) => ps[q].run.lane \in Lane
    BY <2>1 DEF Task
  <2> SUFFICES ASSUME NEW q \in QId, Started(ps, q), mode[ps[q].run.lane] # "steer",
                      NEW j \in DOMAIN ks[ps[q].run.lane].pendingEntries
               PROVE  Before(ps[q].run.entry.ids, ks[ps[q].run.lane].pendingEntries[j].ids)
    BY DEF RunOrdered
  <2>3. PICK l \in Lane : l = ps[q].run.lane /\ l = qs[q].run.lane
    BY <1>4, <2>2
  <2>4. j \in DOMAIN ls[l].pendingEntries /\ ks[l].pendingEntries[j] = ls[l].pendingEntries[j]
    BY <1>3, <2>3
  <2>5. Started(qs, q) /\ ps[q].run = qs[q].run
    BY <1>4
  <2>6. Before(qs[q].run.entry.ids, ls[l].pendingEntries[j].ids)
    BY <2>3, <2>4, <2>5 DEF Placed, RunOrdered
  <2> QED
    BY <2>3, <2>4, <2>5, <2>6
<1>14. Collecting(ks)
  BY DEF Placed, Collecting, Fewer
<1> QED
  BY <1>6, <1>7, <1>8, <1>9, <1>10, <1>11, <1>12, <1>13, <1>14 DEF Placed

Absent(ls, qs, S) == \A m \in S : ~Inside(ls, qs, m)

\* From (ls, qs) to (ks, ps) the places gain the messages S, and S comes to lead.
Holding(ls, qs, ks, ps, S) == \A m : Inside(ks, ps, m) <=> Inside(ls, qs, m) \/ m \in S
Leading(ls, qs, ks, ps, S) == \A m : Leads(ks, ps, m) <=> Leads(ls, qs, m) \/ m \in S

Begun(qs, q, t, s) == [qs EXCEPT ![q].run = t, ![q].stage = s]
Joined(qs, q, t) == [qs EXCEPT ![q].waiting = Append(@, t)]

\* Task t comes before, or after, what waits of its lane.
Foremost(ls, qs, q, t) ==
    mode[t.lane] # "steer" =>
        /\ \A j \in DOMAIN qs[q].waiting :
              qs[q].waiting[j].lane = t.lane => Before(t.entry.ids, qs[q].waiting[j].entry.ids)
        /\ \A j \in DOMAIN ls[t.lane].pendingEntries :
              Before(t.entry.ids, ls[t.lane].pendingEntries[j].ids)

Hindmost(ls, qs, q, t) ==
    mode[t.lane] # "steer" =>
        /\ \A j \in DOMAIN qs[q].waiting :
              qs[q].waiting[j].lane = t.lane => Before(qs[q].waiting[j].entry.ids, t.entry.ids)
        /\ Started(qs, q) /\ qs[q].run.lane = t.lane => Before(qs[q].run.entry.ids, t.entry.ids)
        /\ \A j \in DOMAIN ls[t.lane].pendingEntries :
              Before(t.entry.ids, ls[t.lane].pendingEntries[j].ids)

\* An entry of lane l whose messages are nowhere starts on an idle queue.
LEMMA StartPlaced ==
  ASSUME NEW ls, NEW qs, NEW ps, NEW ms, NEW q \in QId, NEW t \in Task, NEW s \in {"gate", "exec"},
         Tables(ls, qs), Placed(ls, qs, ms), ~Started(qs, q),
         ps = Begun(qs, q, t, s),
         ls[t.lane].q = q, OfLane(t.entry, t.lane, ms),
         Absent(ls, qs, t.entry.ids), Foremost(ls, qs, q, t)
  PROVE  /\ Tables(ls, ps) /\ Placed(ls, ps, ms)
         /\ Holding(ls, qs, ls, ps, t.entry.ids)
         /\ Leading(ls, qs, ls, ps, IF s = "gate" THEN {Newest(t.entry)} ELSE {})
<1>1. /\ qs \in [QId -> QueueRecord] /\ qs[q] \in QueueRecord
      /\ ps \in [QId -> QueueRecord] /\ ps[q].run = t /\ ps[q].stage = s
      /\ \A p \in QId : ps[p].waiting = qs[p].waiting /\ (p # q => ps[p] = qs[p])
  BY ZenonT(30) DEF Tables, QueueRecord, Stage, Begun
<1>2. Started(ps, q) /\ \A p \in QId \ {q} : Started(ps, p) = Started(qs, p)
  BY <1>1 DEF Started
<1>3. Tables(ls, ps)
  BY <1>1 DEF Tables
<1> HIDE DEF Tables
<1>4. \A m : Inside(ls, ps, m) <=> Inside(ls, qs, m) \/ m \in t.entry.ids
  BY <1>1, <1>2 DEF Inside
<1>5. \A m : Leads(ls, ps, m) <=> Leads(ls, qs, m) \/ (s = "gate" /\ Newest(t.entry) = m)
  <2>1. \A p \in QId : qs[p].stage = "gate" => p # q
    BY DEF Started
  <2> QED
    BY <1>1, <2>1 DEF Leads
<1>6. RunHome(ls, ps, ms) /\ WaitHome(ls, ps, ms)
  BY <1>1, <1>2 DEF Placed, RunHome, WaitHome
<1>7. Apart(ls, ps) /\ PendingApart(ls, ps)
  <2>1. \A m \in t.entry.ids :
           /\ \A p \in QId : \A i \in DOMAIN qs[p].waiting : m \notin qs[p].waiting[i].entry.ids
           /\ \A l \in Lane : \A i \in DOMAIN ls[l].pendingEntries :
                 m \notin ls[l].pendingEntries[i].ids
    BY DEF Absent, Inside
  <2>2. Apart(ls, ps)
    BY <1>1, <1>2, <2>1 DEF Placed, Apart
  <2>3. PendingApart(ls, ps)
    BY <1>1, <1>2, <2>1 DEF Placed, PendingApart
  <2> QED
    BY <2>2, <2>3
<1>8. Ordered(ls, ps)
  <2> SUFFICES ASSUME NEW p \in QId, NEW i \in DOMAIN ps[p].waiting,
                      mode[ps[p].waiting[i].lane] # "steer"
               PROVE  LET x == ps[p].waiting[i]
                      IN  /\ \A j \in DOMAIN ps[p].waiting :
                                i < j /\ ps[p].waiting[j].lane = x.lane
                                => Before(x.entry.ids, ps[p].waiting[j].entry.ids)
                          /\ Started(ps, p) /\ ps[p].run.lane = x.lane
                                => Before(ps[p].run.entry.ids, x.entry.ids)
                          /\ \A j \in DOMAIN ls[x.lane].pendingEntries :
                                Before(x.entry.ids, ls[x.lane].pendingEntries[j].ids)
    BY Zenon DEF Ordered
  <2> DEFINE x == qs[p].waiting[i]
  <2>1. /\ Ordered(ls, qs) /\ ps[p].waiting = qs[p].waiting
        /\ i \in DOMAIN qs[p].waiting /\ mode[x.lane] # "steer"
    BY <1>1 DEF Placed
  <2>2. /\ \A j \in DOMAIN qs[p].waiting :
              i < j /\ qs[p].waiting[j].lane = x.lane
              => Before(x.entry.ids, qs[p].waiting[j].entry.ids)
        /\ Started(qs, p) /\ qs[p].run.lane = x.lane
              => Before(qs[p].run.entry.ids, x.entry.ids)
        /\ \A j \in DOMAIN ls[x.lane].pendingEntries :
              Before(x.entry.ids, ls[x.lane].pendingEntries[j].ids)
    BY <2>1, Zenon DEF Ordered
  <2>3. Started(ps, p) /\ ps[p].run.lane = x.lane => Before(ps[p].run.entry.ids, x.entry.ids)
    <3>1. CASE p = q
      BY <1>1, <2>1, <3>1 DEF Foremost
    <3>2. CASE p # q
      BY <1>1, <1>2, <2>2, <3>2
    <3> QED
      BY <3>1, <3>2
  <2> QED
    BY <2>1, <2>2, <2>3, Zenon
<1>9. RunOrdered(ls, ps)
  BY <1>1, <1>2, SMTT(30) DEF Placed, RunOrdered, Foremost
<1> QED
  BY <1>3, <1>4, <1>5, <1>6, <1>7, <1>8, <1>9 DEF Placed, Holding, Leading

\* A task joins the end of its queue.
LEMMA PushPlaced ==
  ASSUME NEW ls, NEW qs, NEW ps, NEW ms, NEW q \in QId, NEW t \in Task,
         Tables(ls, qs), Placed(ls, qs, ms),
         ps = Joined(qs, q, t), ls[t.lane].q = q,
         IF IsSteer(t) THEN mode[t.lane] = "steer" ELSE OfLane(t.entry, t.lane, ms),
         Absent(ls, qs, t.entry.ids), Hindmost(ls, qs, q, t)
  PROVE  /\ Tables(ls, ps) /\ Placed(ls, ps, ms)
         /\ Holding(ls, qs, ls, ps, t.entry.ids)
         /\ Leading(ls, qs, ls, ps, IF IsSteer(t) THEN {} ELSE {Newest(t.entry)})
<1> DEFINE w == qs[q].waiting
           n == Len(w) + 1
<1>1. /\ qs \in [QId -> QueueRecord] /\ qs[q] \in QueueRecord /\ w \in Seq(Task)
      /\ ps \in [QId -> QueueRecord]
      /\ ps[q].waiting = Append(w, t) /\ ps[q].run = qs[q].run /\ ps[q].stage = qs[q].stage
      /\ \A p \in QId : p # q => ps[p] = qs[p]
  <2>1. qs \in [QId -> QueueRecord] /\ qs[q] \in QueueRecord /\ w \in Seq(Task)
    BY DEF Tables, QueueRecord
  <2>2. Append(w, t) \in Seq(Task)
    BY <2>1
  <2>3. ps = [qs EXCEPT ![q] = [qs[q] EXCEPT !.waiting = Append(w, t)]]
    BY DEF Joined
  <2>4. [qs[q] EXCEPT !.waiting = Append(w, t)] \in QueueRecord
    BY <2>1, <2>2 DEF QueueRecord
  <2> HIDE DEF w
  <2> QED
    BY <2>1, <2>3, <2>4 DEF QueueRecord
<1>2. /\ DOMAIN ps[q].waiting = DOMAIN w \cup {n} /\ n \notin DOMAIN w
      /\ ps[q].waiting[n] = t /\ \A i \in DOMAIN w : ps[q].waiting[i] = w[i]
      /\ n \in Nat /\ \A i \in DOMAIN w : i \in Nat /\ i < n
  BY <1>1
<1>3. \A p \in QId : /\ Started(ps, p) = Started(qs, p) /\ ps[p].run = qs[p].run
                     /\ ps[p].stage = qs[p].stage
  BY <1>1 DEF Started
<1>4. Tables(ls, ps)
  BY <1>1 DEF Tables
<1> HIDE DEF w, n, Tables
<1>5. /\ \A p \in QId : p # q => ps[p].waiting = qs[p].waiting
      /\ \A p \in QId : \A i \in DOMAIN qs[p].waiting :
            i \in DOMAIN ps[p].waiting /\ ps[p].waiting[i] = qs[p].waiting[i]
      /\ \A p \in QId : \A i \in DOMAIN ps[p].waiting :
            \/ i \in DOMAIN qs[p].waiting /\ ps[p].waiting[i] = qs[p].waiting[i]
            \/ p = q /\ i = n /\ ps[p].waiting[i] = t
  BY <1>1, <1>2 DEF w
<1>6. \A m : Inside(ls, ps, m) <=> Inside(ls, qs, m) \/ m \in t.entry.ids
  BY <1>2, <1>3, <1>5 DEF Inside
<1>7. \A m : Leads(ls, ps, m) <=> Leads(ls, qs, m) \/ (~IsSteer(t) /\ Newest(t.entry) = m)
  BY <1>2, <1>3, <1>5 DEF Leads
<1>8. RunHome(ls, ps, ms) /\ RunOrdered(ls, ps)
  BY <1>3 DEF Placed, RunHome, RunOrdered
<1>9. WaitHome(ls, ps, ms)
  BY <1>5 DEF Placed, WaitHome
<1>10. Apart(ls, ps) /\ PendingApart(ls, ps)
  <2> DEFINE Free(m) ==
           /\ \A p \in QId : \A i \in DOMAIN qs[p].waiting : m \notin qs[p].waiting[i].entry.ids
           /\ \A p \in QId : Started(qs, p) => m \notin qs[p].run.entry.ids
           /\ \A l \in Lane : \A i \in DOMAIN ls[l].pendingEntries :
                 m \notin ls[l].pendingEntries[i].ids
  <2>3. \A m \in t.entry.ids : Free(m)
    BY DEF Absent, Inside
  <2>1. Apart(ls, ps)
    BY <1>2, <1>3, <1>5, <2>3 DEF Placed, Apart
  <2>2. PendingApart(ls, ps)
    BY <1>3, <1>5, <2>3 DEF Placed, PendingApart
  <2> QED
    BY <2>1, <2>2
<1>11. Ordered(ls, ps)
  <2> SUFFICES ASSUME NEW p \in QId, NEW i \in DOMAIN ps[p].waiting,
                      mode[ps[p].waiting[i].lane] # "steer"
               PROVE  LET x == ps[p].waiting[i]
                      IN  /\ \A j \in DOMAIN ps[p].waiting :
                                i < j /\ ps[p].waiting[j].lane = x.lane
                                => Before(x.entry.ids, ps[p].waiting[j].entry.ids)
                          /\ Started(ps, p) /\ ps[p].run.lane = x.lane
                                => Before(ps[p].run.entry.ids, x.entry.ids)
                          /\ \A j \in DOMAIN ls[x.lane].pendingEntries :
                                Before(x.entry.ids, ls[x.lane].pendingEntries[j].ids)
    BY Zenon DEF Ordered
  <2>1. CASE i \in DOMAIN qs[p].waiting /\ ps[p].waiting[i] = qs[p].waiting[i]
    <3> DEFINE x == qs[p].waiting[i]
    <3>1. Ordered(ls, qs) /\ mode[x.lane] # "steer"
      BY <2>1 DEF Placed
    <3>2. /\ \A j \in DOMAIN qs[p].waiting :
                i < j /\ qs[p].waiting[j].lane = x.lane
                => Before(x.entry.ids, qs[p].waiting[j].entry.ids)
          /\ Started(qs, p) /\ qs[p].run.lane = x.lane
                => Before(qs[p].run.entry.ids, x.entry.ids)
          /\ \A j \in DOMAIN ls[x.lane].pendingEntries :
                Before(x.entry.ids, ls[x.lane].pendingEntries[j].ids)
      BY <2>1, <3>1, Zenon DEF Ordered
    <3>3. \A j \in DOMAIN ps[p].waiting :
             i < j /\ ps[p].waiting[j].lane = x.lane
             => Before(x.entry.ids, ps[p].waiting[j].entry.ids)
      <4> SUFFICES ASSUME NEW j \in DOMAIN ps[p].waiting,
                          i < j, ps[p].waiting[j].lane = x.lane
                   PROVE  Before(x.entry.ids, ps[p].waiting[j].entry.ids)
        OBVIOUS
      <4>1. CASE j \in DOMAIN qs[p].waiting /\ ps[p].waiting[j] = qs[p].waiting[j]
        BY <3>2, <4>1, Zenon
      <4>2. CASE p = q /\ ps[p].waiting[j] = t
        BY <2>1, <3>1, <4>2 DEF Hindmost
      <4> QED
        BY <1>5, <4>1, <4>2, Zenon
    <3> QED
      BY <1>3, <2>1, <3>2, <3>3, Zenon
  <2>2. CASE p = q /\ i = n /\ ps[p].waiting[i] = t
    <3>1. \A j \in DOMAIN ps[p].waiting : ~(i < j)
      BY <1>2, <2>2
    <3> QED
      BY <1>3, <2>2, <3>1 DEF Hindmost
  <2>3. \/ i \in DOMAIN qs[p].waiting /\ ps[p].waiting[i] = qs[p].waiting[i]
        \/ p = q /\ i = n /\ ps[p].waiting[i] = t
    BY <1>5
  <2> QED
    BY <2>1, <2>2, <2>3
<1> QED
  BY <1>4, <1>6, <1>7, <1>8, <1>9, <1>10, <1>11 DEF Placed, Holding, Leading

\* The places of a message m, if it has any, are one.
Sole(ls, qs, m) ==
    /\ \A p, q \in QId :
          Started(qs, p) /\ m \in qs[p].run.entry.ids
          => /\ Started(qs, q) /\ m \in qs[q].run.entry.ids => p = q
             /\ \A i \in DOMAIN qs[q].waiting : m \notin qs[q].waiting[i].entry.ids
             /\ \A l \in Lane : \A i \in DOMAIN ls[l].pendingEntries :
                   m \notin ls[l].pendingEntries[i].ids
    /\ \A p, q \in QId : \A i \in DOMAIN qs[p].waiting :
          m \in qs[p].waiting[i].entry.ids
          => /\ \A j \in DOMAIN qs[q].waiting :
                   m \in qs[q].waiting[j].entry.ids => p = q /\ i = j
             /\ \A l \in Lane : \A j \in DOMAIN ls[l].pendingEntries :
                   m \notin ls[l].pendingEntries[j].ids
    /\ \A l, k \in Lane :
          \A i \in DOMAIN ls[l].pendingEntries, j \in DOMAIN ls[k].pendingEntries :
             m \in ls[l].pendingEntries[i].ids /\ m \in ls[k].pendingEntries[j].ids => l = k

\* A message belongs to one lane, and a lane to one queue.
LEMMA OnePlace ==
  ASSUME NEW ls, NEW qs, NEW ms, Tables(ls, qs), Placed(ls, qs, ms), NEW m
  PROVE  Sole(ls, qs, m)
<1>1. \A p \in QId : Started(qs, p) /\ m \in qs[p].run.entry.ids =>
         qs[p].run.lane = ms[m] /\ ls[ms[m]].q = p
  BY DEF Placed, RunHome, OfLane, Started
<1>2. \A p \in QId : \A i \in DOMAIN qs[p].waiting : m \in qs[p].waiting[i].entry.ids =>
         qs[p].waiting[i].lane = ms[m] /\ ls[ms[m]].q = p
  <2> SUFFICES ASSUME NEW p \in QId, NEW i \in DOMAIN qs[p].waiting,
                      m \in qs[p].waiting[i].entry.ids
               PROVE  qs[p].waiting[i].lane = ms[m] /\ ls[ms[m]].q = p
    OBVIOUS
  <2>1. ~IsSteer(qs[p].waiting[i])
    BY DEF IsSteer
  <2> QED
    BY <2>1 DEF Placed, WaitHome, OfLane
<1>3. \A l \in Lane : \A i \in DOMAIN ls[l].pendingEntries :
         m \in ls[l].pendingEntries[i].ids => l = ms[m]
  BY DEF Placed, PendingHome, OfLane
<1>4. Apart(ls, qs) /\ PendingApart(ls, qs)
  BY DEF Placed
<1> HIDE DEF Placed, Tables
<1>5. ASSUME NEW p \in QId, NEW q \in QId, Started(qs, p), m \in qs[p].run.entry.ids
      PROVE  /\ Started(qs, q) /\ m \in qs[q].run.entry.ids => p = q
             /\ \A i \in DOMAIN qs[q].waiting : m \notin qs[q].waiting[i].entry.ids
             /\ \A l \in Lane : \A i \in DOMAIN ls[l].pendingEntries :
                   m \notin ls[l].pendingEntries[i].ids
  BY <1>1, <1>2, <1>4, <1>5 DEF Apart, PendingApart
<1>6. ASSUME NEW p \in QId, NEW q \in QId, NEW i \in DOMAIN qs[p].waiting,
             m \in qs[p].waiting[i].entry.ids
      PROVE  /\ \A j \in DOMAIN qs[q].waiting :
                   m \in qs[q].waiting[j].entry.ids => p = q /\ i = j
             /\ \A l \in Lane : \A j \in DOMAIN ls[l].pendingEntries :
                   m \notin ls[l].pendingEntries[j].ids
  BY <1>2, <1>4, <1>6 DEF Apart, PendingApart
<1> QED
  BY <1>3, <1>5, <1>6 DEF Sole

Taken(qs, q) == [qs EXCEPT ![q].waiting = Tail(@)]

\* The first task has left queue q, the only place of its messages.
FirstTaken(ls, qs, ps, ms, q) ==
    LET t == Head(qs[q].waiting)
    IN  /\ Tables(ls, ps) /\ Placed(ls, ps, ms)
        /\ t \in Task /\ ls[t.lane].q = q
        /\ IF IsSteer(t) THEN mode[t.lane] = "steer" ELSE OfLane(t.entry, t.lane, ms)
        /\ Absent(ls, ps, t.entry.ids) /\ Foremost(ls, ps, q, t)
        /\ Holding(ls, ps, ls, qs, t.entry.ids)
        /\ Leading(ls, ps, ls, qs, IF IsSteer(t) THEN {} ELSE {Newest(t.entry)})
        /\ \A p \in QId : ps[p].run = qs[p].run /\ ps[p].stage = qs[p].stage

\* The first task leaves a queue that runs nothing.
LEMMA TakenPlaced ==
  ASSUME NEW ls, NEW qs, NEW ps, NEW ms, NEW q \in QId,
         Tables(ls, qs), Placed(ls, qs, ms), qs[q].waiting # <<>>,
         ps = Taken(qs, q)
  PROVE  FirstTaken(ls, qs, ps, ms, q)
<1> DEFINE w == qs[q].waiting
           t == Head(w)
           v == Tail(w)
<1>1. qs \in [QId -> QueueRecord] /\ qs[q] \in QueueRecord /\ w \in Seq(Task)
  BY DEF Tables, QueueRecord
<1>2. /\ v \in Seq(Task) /\ t \in Task /\ t = w[1] /\ 1 \in DOMAIN w
      /\ Len(v) + 1 = Len(w) /\ Len(w) \in Nat
      /\ \A i \in DOMAIN v : i \in Nat /\ i >= 1 /\ i + 1 \in DOMAIN w /\ v[i] = w[i + 1]
      /\ \A i \in DOMAIN w : i \in Nat /\ i # 1 => i - 1 \in DOMAIN v /\ v[i - 1] = w[i]
  BY <1>1
<1> HIDE DEF w, t, v
<1>3. ps = [qs EXCEPT ![q] = [qs[q] EXCEPT !.waiting = v]]
  BY DEF Taken, w, v
<1>4. [qs[q] EXCEPT !.waiting = v] \in QueueRecord
  BY <1>1, <1>2 DEF QueueRecord
<1>5. /\ ps \in [QId -> QueueRecord] /\ ps[q].waiting = v
      /\ \A p \in QId : /\ ps[p].run = qs[p].run /\ ps[p].stage = qs[p].stage
                        /\ p # q => ps[p] = qs[p]
  BY <1>1, <1>3, <1>4 DEF QueueRecord
<1>6. Tables(ls, ps)
  BY <1>5 DEF Tables
<1>7. Fewer(ls, qs, ls, ps)
  <2>1. \A p \in QId : ps[p].waiting = <<>> \/ Windows(ps[p].waiting, qs[p].waiting)
    <3> SUFFICES ASSUME NEW p \in QId PROVE Windows(ps[p].waiting, qs[p].waiting)
      OBVIOUS
    <3>1. CASE p = q
      <4>1. Len(v) + 1 <= Len(w) /\ \A i \in DOMAIN v : v[i] = w[i + 1]
        BY <1>2
      <4>2. Windows(v, w)
        BY <4>1 DEF Windows
      <4> QED
        BY <1>5, <3>1, <4>2 DEF w
    <3>2. CASE p # q
      <4>1. qs[p].waiting \in Seq(Task)
        BY DEF Tables, QueueRecord
      <4> QED
        BY <1>5, <3>2, <4>1 DEF Windows
    <3> QED
      BY <3>1, <3>2
  <2> QED
    BY <1>5, <2>1 DEF Fewer, Started
<1>8. Placed(ls, ps, ms)
  BY <1>6, <1>7, FewerPlaced
<1>9. ls[t.lane].q = q /\ IF IsSteer(t) THEN mode[t.lane] = "steer" ELSE OfLane(t.entry, t.lane, ms)
  BY <1>2 DEF Placed, WaitHome, w
<1>10. \A p \in QId : \A i \in DOMAIN ps[p].waiting :
          \E j \in DOMAIN qs[p].waiting :
             qs[p].waiting[j] = ps[p].waiting[i] /\ (p = q => j # 1)
  <2> SUFFICES ASSUME NEW p \in QId, NEW i \in DOMAIN ps[p].waiting
               PROVE  \E j \in DOMAIN qs[p].waiting :
                         qs[p].waiting[j] = ps[p].waiting[i] /\ (p = q => j # 1)
    OBVIOUS
  <2>1. CASE p = q
    <3>1. i \in DOMAIN v /\ i \in Nat /\ i >= 1 /\ i + 1 \in DOMAIN w /\ v[i] = w[i + 1]
      BY <1>2, <1>5, <2>1
    <3>2. i + 1 # 1
      BY <3>1
    <3> QED
      BY <1>5, <2>1, <3>1, <3>2 DEF w
  <2>2. CASE p # q
    BY <1>5, <2>2
  <2> QED
    BY <2>1, <2>2
<1>11. \A p \in QId : \A j \in DOMAIN qs[p].waiting :
          \/ p = q /\ j = 1 /\ qs[p].waiting[j] = t
          \/ \E i \in DOMAIN ps[p].waiting : qs[p].waiting[j] = ps[p].waiting[i]
  <2> SUFFICES ASSUME NEW p \in QId, NEW j \in DOMAIN qs[p].waiting
               PROVE  \/ p = q /\ j = 1 /\ qs[p].waiting[j] = t
                      \/ \E i \in DOMAIN ps[p].waiting : qs[p].waiting[j] = ps[p].waiting[i]
    OBVIOUS
  <2>1. CASE p = q /\ j # 1
    <3>1. j - 1 \in DOMAIN v /\ v[j - 1] = w[j]
      BY <1>2, <2>1 DEF w
    <3> QED
      BY <1>5, <2>1, <3>1 DEF w
  <2>2. CASE p # q
    BY <1>5, <2>2
  <2> QED
    BY <1>2, <2>1, <2>2 DEF w
<1>12. 1 \in DOMAIN qs[q].waiting /\ qs[q].waiting[1] = t
  BY <1>2 DEF w
<1>13. \A m : Inside(ls, qs, m) <=> Inside(ls, ps, m) \/ m \in t.entry.ids
  BY <1>5, <1>10, <1>11, <1>12, SMTT(30) DEF Inside, Started
<1>14. \A m : Leads(ls, qs, m) <=> Leads(ls, ps, m) \/ (~IsSteer(t) /\ Newest(t.entry) = m)
  BY <1>5, <1>10, <1>11, <1>12, SMTT(30) DEF Leads
<1>15. Absent(ls, ps, t.entry.ids)
  <2> SUFFICES ASSUME NEW m \in t.entry.ids PROVE ~Inside(ls, ps, m)
    BY DEF Absent
  <2>1. /\ \A p \in QId : Started(qs, p) => m \notin qs[p].run.entry.ids
        /\ \A l \in Lane : \A i \in DOMAIN ls[l].pendingEntries :
              m \notin ls[l].pendingEntries[i].ids
        /\ \A p \in QId : \A j \in DOMAIN qs[p].waiting :
              m \in qs[p].waiting[j].entry.ids => p = q /\ j = 1
    <3>1. Sole(ls, qs, m)
      BY OnePlace
    <3> QED
      BY <1>12, <3>1 DEF Sole
  <2> QED
    BY <1>5, <1>10, <2>1 DEF Inside, Started
<1>16. Foremost(ls, ps, q, t)
  <2> SUFFICES ASSUME mode[t.lane] # "steer"
               PROVE  /\ \A j \in DOMAIN ps[q].waiting : ps[q].waiting[j].lane = t.lane
                            => Before(t.entry.ids, ps[q].waiting[j].entry.ids)
                      /\ \A j \in DOMAIN ls[t.lane].pendingEntries :
                            Before(t.entry.ids, ls[t.lane].pendingEntries[j].ids)
    BY DEF Foremost
  <2>1. /\ \A j \in DOMAIN w : 1 < j /\ w[j].lane = t.lane => Before(t.entry.ids, w[j].entry.ids)
        /\ \A j \in DOMAIN ls[t.lane].pendingEntries :
              Before(t.entry.ids, ls[t.lane].pendingEntries[j].ids)
    BY <1>2 DEF Placed, Ordered, w
  <2>2. ASSUME NEW j \in DOMAIN v, v[j].lane = t.lane PROVE Before(t.entry.ids, v[j].entry.ids)
    <3>1. j \in Nat /\ j >= 1 /\ j + 1 \in DOMAIN w /\ v[j] = w[j + 1]
      BY <1>2
    <3>2. 1 < j + 1
      BY <3>1
    <3> QED
      BY <2>1, <2>2, <3>1, <3>2
  <2> QED
    BY <1>5, <2>1, <2>2
<1> QED
  BY <1>2, <1>5, <1>6, <1>8, <1>9, <1>13, <1>14, <1>15, <1>16 DEF w, t, v, Holding, Leading, FirstTaken

\* What stands for an entry that waits is one of its messages.
LEMMA LeadsInside ==
  ASSUME NEW ls, NEW qs, NEW ms, Tables(ls, qs), Placed(ls, qs, ms), NEW m, Leads(ls, qs, m)
  PROVE  Inside(ls, qs, m) /\ m \in 1 .. Len(ms)
<1>1. ASSUME NEW q \in QId, qs[q].stage = "gate", Newest(qs[q].run.entry) = m
      PROVE  Inside(ls, qs, m) /\ m \in 1 .. Len(ms)
  <2>1. Started(qs, q) /\ qs[q].run \in Task /\ OfLane(qs[q].run.entry, qs[q].run.lane, ms)
    BY <1>1 DEF Placed, RunHome, Started
  <2>2. m \in qs[q].run.entry.ids
    BY <1>1, <2>1, NewestIs DEF OfLane, Task, Entry
  <2> QED
    BY <2>1, <2>2 DEF Inside, OfLane
<1>2. ASSUME NEW q \in QId, NEW i \in DOMAIN qs[q].waiting, ~IsSteer(qs[q].waiting[i]),
             Newest(qs[q].waiting[i].entry) = m
      PROVE  Inside(ls, qs, m) /\ m \in 1 .. Len(ms)
  <2>1. qs[q].waiting[i] \in Task
    BY DEF Tables, QueueRecord
  <2>2. OfLane(qs[q].waiting[i].entry, qs[q].waiting[i].lane, ms)
    BY <1>2 DEF Placed, WaitHome
  <2>3. m \in qs[q].waiting[i].entry.ids
    BY <1>2, <2>1, <2>2, NewestIs DEF OfLane, Task, Entry
  <2> QED
    BY <2>2, <2>3 DEF Inside, OfLane
<1>3. ASSUME NEW l \in Lane, NEW i \in DOMAIN ls[l].pendingEntries,
             Newest(ls[l].pendingEntries[i]) = m
      PROVE  Inside(ls, qs, m) /\ m \in 1 .. Len(ms)
  <2>1. ls[l].pendingEntries[i] \in Entry /\ OfLane(ls[l].pendingEntries[i], l, ms)
    BY DEF Tables, LaneRecord, Placed, PendingHome
  <2>2. m \in ls[l].pendingEntries[i].ids
    BY <1>3, <2>1, NewestIs DEF OfLane, Entry
  <2> QED
    BY <2>1, <2>2 DEF Inside, OfLane
<1> QED
  BY <1>1, <1>2, <1>3 DEF Leads

\* Places hold accepted messages.
LEMMA InsideAccepted ==
  ASSUME NEW ls, NEW qs, NEW ms, Tables(ls, qs), Placed(ls, qs, ms), NEW m, Inside(ls, qs, m)
  PROVE  m \in 1 .. Len(ms)
<1>1. ASSUME NEW q \in QId, Started(qs, q), m \in qs[q].run.entry.ids PROVE m \in 1 .. Len(ms)
  BY <1>1 DEF Placed, RunHome, OfLane
<1>2. ASSUME NEW q \in QId, NEW i \in DOMAIN qs[q].waiting, m \in qs[q].waiting[i].entry.ids
      PROVE  m \in 1 .. Len(ms)
  <2>1. ~IsSteer(qs[q].waiting[i])
    BY <1>2 DEF IsSteer
  <2> QED
    BY <1>2, <2>1 DEF Placed, WaitHome, OfLane
<1>3. ASSUME NEW l \in Lane, NEW i \in DOMAIN ls[l].pendingEntries,
             m \in ls[l].pendingEntries[i].ids
      PROVE  m \in 1 .. Len(ms)
  BY <1>3 DEF Placed, PendingHome, OfLane
<1> QED
  BY <1>1, <1>2, <1>3 DEF Inside

\* A new message changes nothing for the others.
LEMMA MoreMessages ==
  ASSUME NEW ls, NEW qs, NEW ms \in Seq(Lane), NEW l \in Lane, Placed(ls, qs, ms)
  PROVE  Placed(ls, qs, Append(ms, l))
<1>1. \A e, k : OfLane(e, k, ms) => OfLane(e, k, Append(ms, l))
  <2> SUFFICES ASSUME NEW e, NEW k, OfLane(e, k, ms), NEW m \in e.ids
               PROVE  m \in 1 .. Len(Append(ms, l)) /\ Append(ms, l)[m] = k
    BY DEF OfLane
  <2>1. m \in 1 .. Len(ms) /\ ms[m] = k
    BY DEF OfLane
  <2> QED
    BY <2>1
<1>2. RunHome(ls, qs, Append(ms, l))
  BY <1>1 DEF Placed, RunHome
<1>3. WaitHome(ls, qs, Append(ms, l))
  BY <1>1 DEF Placed, WaitHome
<1>4. PendingHome(ls, Append(ms, l))
  BY <1>1 DEF Placed, PendingHome
<1> QED
  BY <1>2, <1>3, <1>4 DEF Placed

\* The newest message of entries in order is that of the last.
LEMMA CoalescedNewest ==
  ASSUME NEW es \in Seq(Entry), es # <<>>,
         \A i \in DOMAIN es : es[i].ids # {},
         \A i, j \in DOMAIN es : i < j => Before(es[i].ids, es[j].ids)
  PROVE  /\ Coalesced(es).ids # {}
         /\ Newest(Coalesced(es)) = Newest(es[Len(es)])
         /\ \A i \in DOMAIN es : i # Len(es) => Newest(es[i]) # Newest(es[Len(es)])
<1> DEFINE n == Len(es)
           N == Newest(es[n])
           C == Newest(Coalesced(es))
<1>1. n \in DOMAIN es /\ n \in Nat /\ \A i \in DOMAIN es : i \in Nat /\ i <= n /\ es[i] \in Entry
  OBVIOUS
<1>2. \A i \in DOMAIN es : es[i].ids \in SUBSET Msg /\ es[i].ids # {}
  BY <1>1 DEF Entry
<1>3. \A i \in DOMAIN es : Newest(es[i]) \in es[i].ids /\ \A m \in es[i].ids : m <= Newest(es[i])
  BY <1>2, NewestIs
<1>4. \A m : m \in Coalesced(es).ids <=> \E i \in DOMAIN es : m \in es[i].ids
  BY MsgsOfIs, CoalescedIs
<1>5. Coalesced(es).ids \in SUBSET Msg
  BY CoalescedIs, MsgsOfIs
<1> HIDE DEF n
<1>6. N \in Coalesced(es).ids
  BY <1>1, <1>3, <1>4
<1>7. C \in Coalesced(es).ids /\ \A m \in Coalesced(es).ids : m <= C
  BY <1>5, <1>6, NewestIs
<1>8. \A i \in DOMAIN es : i # n => \A m \in es[i].ids : m < N
  BY <1>1, <1>3 DEF Before
<1>9. Coalesced(es).ids \in SUBSET Nat
  BY <1>5 DEF Msg
<1> HIDE DEF N, C
<1>10. PICK i \in DOMAIN es : C \in es[i].ids
  BY <1>4, <1>7
<1>11. N <= C /\ N \in Nat /\ C \in Nat
  BY <1>6, <1>7, <1>9
<1>12. C <= N
  BY <1>1, <1>3, <1>8, <1>10, <1>11 DEF N
<1>13. \A k \in DOMAIN es : k # n => Newest(es[k]) # N
  <2> SUFFICES ASSUME NEW k \in DOMAIN es, k # n PROVE Newest(es[k]) < N /\ Newest(es[k]) \in Nat
    BY <1>11
  <2> QED
    BY <1>3, <1>4, <1>8, <1>9
<1> QED
  BY <1>6, <1>11, <1>12, <1>13 DEF n, N, C

Cleared(ls, l) == [ls EXCEPT ![l].pendingEntries = <<>>]
LeadsIn(es, m) == \E i \in DOMAIN es : Newest(es[i]) = m
Parted(ls, qs, ks, es) == \A m : Leads(ls, qs, m) <=> Leads(ks, qs, m) \/ LeadsIn(es, m)

\* The pending entries of lane l are in hand as task t of queue q.
TakenAs(ls, qs, ks, ms, l, q, t) ==
    /\ Tables(ks, qs) /\ Placed(ks, qs, ms)
    /\ t \in Task /\ t.lane = l /\ ~IsSteer(t) /\ OfLane(t.entry, l, ms)
    /\ Absent(ks, qs, t.entry.ids) /\ Hindmost(ks, qs, q, t)
    /\ Holding(ks, qs, ls, qs, t.entry.ids)

\* The pending entries of a lane leave it, as one.
LEMMA ClearedPlaced ==
  ASSUME NEW ls, NEW qs, NEW ks, NEW ms, NEW l \in Lane, NEW q \in QId, NEW t,
         Tables(ls, qs), Placed(ls, qs, ms), ls[l].pendingEntries # <<>>, ls[l].q = q,
         ks = Cleared(ls, l), t = EntryTask(l, Coalesced(ls[l].pendingEntries))
  PROVE  TakenAs(ls, qs, ks, ms, l, q, t) /\ Parted(ls, qs, ks, ls[l].pendingEntries)
<1> DEFINE es == ls[l].pendingEntries
           C == Coalesced(es)
<1>1. ls \in [Lane -> LaneRecord] /\ ls[l] \in LaneRecord /\ es \in Seq(Entry) /\ es # <<>>
  BY DEF Tables, LaneRecord
<1>2. /\ ks \in [Lane -> LaneRecord]
      /\ ks[l].pendingEntries = <<>> /\ \A k \in Lane : k # l => ks[k] = ls[k]
      /\ \A k \in Lane : /\ ks[k].q = ls[k].q /\ ks[k].exists = ls[k].exists
                         /\ ks[k].isExecuting = ls[k].isExecuting
  <2>1. ks = [ls EXCEPT ![l] = [ls[l] EXCEPT !.pendingEntries = <<>>]]
    BY DEF Cleared
  <2>2. <<>> \in Seq(Entry)
    OBVIOUS
  <2>3. [ls[l] EXCEPT !.pendingEntries = <<>>] \in LaneRecord
    BY <1>1, <2>2 DEF LaneRecord
  <2> QED
    BY <1>1, <2>1, <2>3 DEF LaneRecord
<1>3. Tables(ks, qs)
  BY <1>2 DEF Tables
<1>4. Fewer(ls, qs, ks, qs)
  <2>1. \A k \in Lane : k # l => ks[k].pendingEntries = ls[k].pendingEntries
    BY <1>2
  <2>2. \A p \in QId : Windows(qs[p].waiting, qs[p].waiting)
    <3> SUFFICES ASSUME NEW p \in QId PROVE Windows(qs[p].waiting, qs[p].waiting)
      OBVIOUS
    <3>1. qs[p].waiting \in Seq(Task)
      BY DEF Tables, QueueRecord
    <3> QED
      BY <3>1 DEF Windows
  <2> QED
    BY <1>2, <2>1, <2>2 DEF Fewer
<1>5. Placed(ks, qs, ms)
  BY <1>3, <1>4, FewerPlaced
<1>6. /\ \A i \in DOMAIN es : OfLane(es[i], l, ms) /\ es[i].ids # {}
      /\ \A i, j \in DOMAIN es : i < j => Before(es[i].ids, es[j].ids)
  BY DEF Placed, PendingHome, OfLane
<1>7. C \in Entry /\ \A m : m \in C.ids <=> \E i \in DOMAIN es : m \in es[i].ids
  BY <1>1, CoalescedIs, MsgsOfIs
<1>8. C.ids # {}
  BY <1>1, <1>6, CoalescedNewest
<1>0. t = EntryTask(l, C)
  OBVIOUS
<1> HIDE DEF C
<1>9. t \in Task /\ t.lane = l /\ t.entry = C /\ ~IsSteer(t)
  BY <1>0, <1>7, <1>8 DEF EntryTask, Task, IsSteer
<1>10. OfLane(C, l, ms)
  BY <1>6, <1>7, <1>8 DEF OfLane
<1> HIDE DEF es
<1>11. \A k \in Lane : \A i \in DOMAIN ks[k].pendingEntries :
          /\ k # l /\ i \in DOMAIN ls[k].pendingEntries
          /\ ks[k].pendingEntries[i] = ls[k].pendingEntries[i]
  <2>1. DOMAIN ks[l].pendingEntries = {}
    BY <1>2
  <2> QED
    BY <1>2, <2>1
<1>12. \A m : Inside(ls, qs, m) <=> Inside(ks, qs, m) \/ m \in C.ids
  BY <1>2, <1>7, <1>11 DEF Inside, es
<1>13. \A m : Leads(ls, qs, m) <=> Leads(ks, qs, m) \/ LeadsIn(es, m)
  BY <1>2, <1>11 DEF Leads, LeadsIn, es
<1>14. Absent(ks, qs, C.ids)
  <2> SUFFICES ASSUME NEW m \in C.ids PROVE ~Inside(ks, qs, m)
    BY DEF Absent
  <2>1. PICK i \in DOMAIN ls[l].pendingEntries : m \in ls[l].pendingEntries[i].ids
    BY <1>7 DEF es
  <2>2. Sole(ls, qs, m)
    BY OnePlace
  <2>3. /\ \A p \in QId : Started(qs, p) => m \notin qs[p].run.entry.ids
        /\ \A p \in QId : \A j \in DOMAIN qs[p].waiting : m \notin qs[p].waiting[j].entry.ids
        /\ \A k \in Lane : \A j \in DOMAIN ls[k].pendingEntries :
              m \in ls[k].pendingEntries[j].ids => k = l
    BY <2>1, <2>2 DEF Sole
  <2> QED
    BY <1>11, <2>3 DEF Inside
<1>15. Hindmost(ks, qs, q, t)
  <2> SUFFICES ASSUME mode[l] # "steer"
               PROVE  /\ \A j \in DOMAIN qs[q].waiting : qs[q].waiting[j].lane = l
                            => Before(qs[q].waiting[j].entry.ids, C.ids)
                      /\ Started(qs, q) /\ qs[q].run.lane = l => Before(qs[q].run.entry.ids, C.ids)
    BY <1>9, <1>11 DEF Hindmost
  <2>1. ASSUME NEW j \in DOMAIN qs[q].waiting, qs[q].waiting[j].lane = l
        PROVE  Before(qs[q].waiting[j].entry.ids, C.ids)
    <3>1. \A i \in DOMAIN es : Before(qs[q].waiting[j].entry.ids, es[i].ids)
      BY <2>1 DEF Placed, Ordered, es
    <3> QED
      BY <1>7, <3>1 DEF Before
  <2>2. ASSUME Started(qs, q), qs[q].run.lane = l PROVE Before(qs[q].run.entry.ids, C.ids)
    <3>1. \A i \in DOMAIN es : Before(qs[q].run.entry.ids, es[i].ids)
      BY <2>2 DEF Placed, RunOrdered, es
    <3> QED
      BY <1>7, <3>1 DEF Before
  <2> QED
    BY <2>1, <2>2
<1> QED
  BY <1>2, <1>3, <1>5, <1>9, <1>10, <1>12, <1>13, <1>14, <1>15 DEF es, Parted, Holding, TakenAs

\* The handler of t has not started, and its resources are with the queue.
InHand(ls, qs, own, ms, t) ==
    \A m \in Msg : own[m] = "queue" <=>
        m \notin 1 .. Len(ms) \/ Leads(ls, qs, m) \/ m = Newest(t.entry)

\* Coalescing leaves the queue the resources of the newest entry.
LEMMA CoalescedInHand ==
  ASSUME NEW ls, NEW qs, NEW ks, NEW ms, NEW own, NEW l \in Lane, NEW q \in QId,
         Tables(ls, qs), Placed(ls, qs, ms), ls[l].pendingEntries # <<>>, ls[l].q = q,
         ks = Cleared(ls, l), Resources(ls, qs, own, ms)
  PROVE  LET es == ls[l].pendingEntries
         IN  InHand(ks, qs, CoalescedOwner(es, own), ms, EntryTask(l, Coalesced(es)))
<1> DEFINE es == ls[l].pendingEntries
           C == Coalesced(es)
           n == Len(es)
<1>1. /\ Tables(ks, qs) /\ Placed(ks, qs, ms) /\ EntryTask(l, C).entry = C
      /\ OfLane(C, l, ms) /\ Absent(ks, qs, C.ids)
      /\ \A m : Leads(ls, qs, m) <=> Leads(ks, qs, m) \/ LeadsIn(es, m)
  <2>1. EntryTask(l, C).entry = C
    BY DEF EntryTask
  <2>2. TakenAs(ls, qs, ks, ms, l, q, EntryTask(l, C)) /\ Parted(ls, qs, ks, es)
    BY ClearedPlaced
  <2> QED
    BY <2>1, <2>2 DEF Parted, TakenAs
<1>2. es \in Seq(Entry) /\ es # <<>>
  BY DEF Tables, LaneRecord
<1>3. /\ \A i \in DOMAIN es : es[i].ids # {}
      /\ \A i, j \in DOMAIN es : i < j => Before(es[i].ids, es[j].ids)
  BY DEF Placed, PendingHome, OfLane
<1>4. /\ Newest(C) = Newest(es[n])
      /\ \A i \in DOMAIN es : i # n => Newest(es[i]) # Newest(es[n])
  BY <1>2, <1>3, CoalescedNewest
<1>5. \A i \in DOMAIN es : Newest(es[i]) \in C.ids
  <2>1. \A i \in DOMAIN es : es[i] \in Entry
    BY <1>2
  <2>2. \A i \in DOMAIN es : Newest(es[i]) \in es[i].ids
    BY <1>3, <2>1, NewestIs DEF Entry
  <2> QED
    BY <1>2, <2>2, MsgsOfIs, CoalescedIs
<1>6. /\ n \in DOMAIN es
      /\ \A e : e \in Range(Front(es)) <=> \E i \in DOMAIN es : i # n /\ e = es[i]
  <2>1. /\ n \in Nat /\ n >= 1 /\ DOMAIN es = 1 .. n
        /\ DOMAIN Front(es) = 1 .. (n - 1) /\ \A i \in 1 .. (n - 1) : Front(es)[i] = es[i]
    BY <1>2 DEF Front
  <2> HIDE DEF n
  <2> QED
    BY <2>1 DEF Range
<1>7. \A m \in C.ids : ~Leads(ks, qs, m) /\ m \in 1 .. Len(ms)
  BY <1>1, LeadsInside DEF Absent, OfLane
<1> DEFINE F == {Newest(e) : e \in Range(Front(es))}
<1>8. \A m : m \in F <=> \E i \in DOMAIN es : i # n /\ m = Newest(es[i])
  BY <1>6
<1> HIDE DEF es, C, n, F
<1>9. \A m \in Msg : CoalescedOwner(es, own)[m] = "queue" <=> own[m] = "queue" /\ m \notin F
  BY DEF CoalescedOwner, Release, F
<1> SUFFICES ASSUME NEW m \in Msg
             PROVE  CoalescedOwner(es, own)[m] = "queue" <=>
                       m \notin 1 .. Len(ms) \/ Leads(ks, qs, m) \/ m = Newest(C)
  BY <1>1 DEF InHand, es, C
<1>10. own[m] = "queue" <=> \/ m \notin 1 .. Len(ms) \/ Leads(ks, qs, m)
                            \/ \E i \in DOMAIN es : Newest(es[i]) = m
  BY <1>1 DEF Resources, LeadsIn
<1> QED
  BY <1>4, <1>5, <1>6, <1>7, <1>8, <1>9, <1>10

Owners == [Msg -> {"queue", "handler", "released"}]

\* The lanes are the same but for what lane l executes.
SameLanes(ls, ks, l) ==
    \A k \in Lane : /\ ks[k].q = ls[k].q /\ ks[k].exists = ls[k].exists
                    /\ ks[k].pendingEntries = ls[k].pendingEntries
                    /\ k # l => ks[k] = ls[k]

\* Task t of lane l is in the tables after the step.
Entered(ls, qs, ms, t) ==
    /\ Tables(lanes', queue') /\ gateWait' \in Seq(QId) /\ owner' \in Owners
    /\ Placed(lanes', queue', ms)
    /\ AtGate(queue', gateWait')
    /\ Resources(lanes', queue', owner', ms)
    /\ Holding(ls, qs, lanes', queue', t.entry.ids)
    /\ SameLanes(ls, lanes', t.lane)

\* Task t of lane l is in hand for queue q.
Ready(ls, qs, own, ms, q, t) ==
    /\ Tables(ls, qs) /\ gateWait \in Seq(QId) /\ own \in Owners
    /\ Placed(ls, qs, ms) /\ AtGate(qs, gateWait)
    /\ t \in Task /\ ls[t.lane].q = q /\ OfLane(t.entry, t.lane, ms)
    /\ Absent(ls, qs, t.entry.ids)
    /\ InHand(ls, qs, own, ms, t)

\* A task in hand goes through the gate.
LEMMA ThroughGate ==
  ASSUME NEW ls, NEW qs, NEW own, NEW ms, NEW q \in QId, NEW t,
         Ready(ls, qs, own, ms, q, t), ~Started(qs, q), Foremost(ls, qs, q, t),
         RunThroughGate(qs, ls, own, q, t)
  PROVE  Entered(ls, qs, ms, t)
<1>1. /\ Tables(ls, qs) /\ gateWait \in Seq(QId) /\ own \in Owners
      /\ Placed(ls, qs, ms) /\ AtGate(qs, gateWait)
      /\ t \in Task /\ ls[t.lane].q = q /\ OfLane(t.entry, t.lane, ms)
      /\ Absent(ls, qs, t.entry.ids)
      /\ InHand(ls, qs, own, ms, t)
  BY DEF Ready
<1>2. t.lane \in Lane /\ t.entry \in Entry
  BY <1>1 DEF Task
<1>3. Newest(t.entry) \in t.entry.ids /\ Newest(t.entry) \in Msg /\ Newest(t.entry) \in 1 .. Len(ms)
  BY <1>1, <1>2, NewestIs DEF Entry, OfLane
<1>4. ~Leads(ls, qs, Newest(t.entry))
  BY <1>1, <1>3, LeadsInside DEF Absent
<1>5. CASE HeldIn(qs) < maxConcurrentSessions
  <2> DEFINE ps == Begun(qs, q, t, "exec")
  <2>1. /\ queue' = ps /\ gateWait' = gateWait
        /\ lanes' = [ls EXCEPT ![t.lane].isExecuting = TRUE]
        /\ owner' = [own EXCEPT ![Newest(t.entry)] = "handler"]
    BY <1>5 DEF RunThroughGate, Begun
  <2>2. /\ Tables(ls, ps) /\ Placed(ls, ps, ms) /\ Holding(ls, qs, ls, ps, t.entry.ids)
        /\ Leading(ls, qs, ls, ps, IF "exec" = "gate" THEN {Newest(t.entry)} ELSE {})
    BY <1>1, StartPlaced
  <2>3. /\ lanes' \in [Lane -> LaneRecord] /\ SameLanes(ls, lanes', t.lane)
        /\ \A k \in Lane : lanes'[k].isExecuting \/ lanes'[k].isExecuting = ls[k].isExecuting
    <3>1. ls \in [Lane -> LaneRecord] /\ ls[t.lane] \in LaneRecord
      BY <1>1, <1>2 DEF Tables
    <3>2. [ls[t.lane] EXCEPT !.isExecuting = TRUE] \in LaneRecord
      BY <3>1 DEF LaneRecord
    <3> QED
      BY <1>2, <2>1, <3>1, <3>2 DEF LaneRecord, SameLanes
  <2>4. ps[q].stage = "exec" /\ \A p \in QId : p # q => ps[p] = qs[p]
    BY <1>1 DEF Tables, QueueRecord, Begun
  <2> HIDE DEF ps
  <2>5. Tables(lanes', queue')
    BY <2>1, <2>2, <2>3 DEF Tables
  <2>6. Fewer(ls, ps, lanes', ps)
    <3>1. \A p \in QId : Windows(ps[p].waiting, ps[p].waiting)
      <4> SUFFICES ASSUME NEW p \in QId PROVE Windows(ps[p].waiting, ps[p].waiting)
        OBVIOUS
      <4>1. ps[p].waiting \in Seq(Task)
        BY <2>2 DEF Tables, QueueRecord
      <4> QED
        BY <4>1 DEF Windows
    <3> QED
      BY <2>3, <3>1 DEF Fewer, SameLanes
  <2>7. Placed(lanes', queue', ms)
    BY <2>1, <2>2, <2>5, <2>6, FewerPlaced
  <2>8. AtGate(queue', gateWait')
    <3>1. \A i \in DOMAIN gateWait : gateWait[i] \in QId /\ gateWait[i] # q
      BY <1>1 DEF AtGate, Started
    <3> QED
      BY <1>1, <2>1, <2>4, <3>1 DEF AtGate
  <2>9. /\ \A m : Inside(lanes', ps, m) <=> Inside(ls, ps, m)
        /\ \A m : Leads(lanes', ps, m) <=> Leads(ls, ps, m)
    BY <2>3 DEF Inside, Leads, SameLanes
  <2>10. Resources(lanes', queue', owner', ms)
    <3>1. \A m \in Msg : owner'[m] = "queue" <=> own[m] = "queue" /\ m # Newest(t.entry)
      BY <1>1, <1>3, <2>1 DEF Owners
    <3>2. \A m : Leads(lanes', queue', m) <=> Leads(ls, qs, m)
      BY <2>1, <2>2, <2>9 DEF Leading
    <3> QED
      BY <1>1, <1>3, <1>4, <3>1, <3>2 DEF Resources, InHand
  <2>11. owner' \in Owners
    BY <1>1, <1>3, <2>1 DEF Owners
  <2>12. Holding(ls, qs, lanes', queue', t.entry.ids)
    BY <2>1, <2>2, <2>9 DEF Holding
  <2> QED
    BY <1>1, <2>1, <2>3, <2>5, <2>7, <2>8, <2>10, <2>11, <2>12 DEF Entered
<1>6. CASE ~(HeldIn(qs) < maxConcurrentSessions)
  <2> DEFINE ps == Begun(qs, q, t, "gate")
  <2>1. /\ queue' = ps /\ gateWait' = Append(gateWait, q) /\ lanes' = ls /\ owner' = own
    BY <1>6 DEF RunThroughGate, Begun
  <2>2. /\ Tables(ls, ps) /\ Placed(ls, ps, ms) /\ Holding(ls, qs, ls, ps, t.entry.ids)
        /\ Leading(ls, qs, ls, ps, IF "gate" = "gate" THEN {Newest(t.entry)} ELSE {})
    BY <1>1, StartPlaced
  <2>3. ps[q].stage = "gate" /\ \A p \in QId : p # q => ps[p] = qs[p]
    BY <1>1 DEF Tables, QueueRecord, Begun
  <2> HIDE DEF ps
  <2>4. AtGate(queue', gateWait')
    <3>1. \A i \in DOMAIN gateWait : gateWait[i] \in QId /\ gateWait[i] # q
      BY <1>1 DEF AtGate, Started
    <3>2. /\ DOMAIN gateWait' = DOMAIN gateWait \cup {Len(gateWait) + 1}
          /\ gateWait'[Len(gateWait) + 1] = q
          /\ \A i \in DOMAIN gateWait : gateWait'[i] = gateWait[i]
      BY <1>1, <2>1
    <3> QED
      BY <1>1, <2>1, <2>3, <3>1, <3>2 DEF AtGate
  <2>5. Resources(lanes', queue', owner', ms)
    BY <1>1, <2>1, <2>2 DEF Resources, InHand, Leading
  <2>6. gateWait' \in Seq(QId) /\ SameLanes(ls, lanes', t.lane)
    BY <1>1, <2>1 DEF SameLanes
  <2> QED
    BY <1>1, <2>1, <2>2, <2>4, <2>5, <2>6 DEF Entered
<1> QED
  BY <1>5, <1>6

\* scheduleLaneTask starts a task, or lets it wait as the last.
LEMMA Scheduled ==
  ASSUME NEW ls, NEW qs, NEW own, NEW ms, NEW q \in QId, NEW t,
         Ready(ls, qs, own, ms, q, t), Hindmost(ls, qs, q, t),
         Schedule(qs, ls, own, q, t)
  PROVE  Entered(ls, qs, ms, t)
<1>1. CASE qs[q].stage = "none" /\ qs[q].waiting = <<>>
  <2>1. RunThroughGate(qs, ls, own, q, t) /\ ~Started(qs, q)
    BY <1>1 DEF Schedule, Started
  <2>2. Foremost(ls, qs, q, t)
    BY <1>1 DEF Foremost, Hindmost
  <2> QED
    BY <2>1, <2>2, ThroughGate
<1>2. CASE ~(qs[q].stage = "none" /\ qs[q].waiting = <<>>)
  <2>1. /\ Tables(ls, qs) /\ gateWait \in Seq(QId) /\ own \in Owners
        /\ Placed(ls, qs, ms) /\ AtGate(qs, gateWait)
        /\ t \in Task /\ ls[t.lane].q = q /\ OfLane(t.entry, t.lane, ms)
        /\ Absent(ls, qs, t.entry.ids)
        /\ InHand(ls, qs, own, ms, t)
    BY DEF Ready
  <2>2. queue' = Joined(qs, q, t) /\ lanes' = ls /\ owner' = own /\ gateWait' = gateWait
    BY <1>2 DEF Schedule, Joined
  <2>3. ~IsSteer(t)
    BY <2>1 DEF IsSteer, OfLane
  <2>4. /\ Tables(ls, queue') /\ Placed(ls, queue', ms) /\ Holding(ls, qs, ls, queue', t.entry.ids)
        /\ Leading(ls, qs, ls, queue', {Newest(t.entry)})
    BY <2>1, <2>2, <2>3, PushPlaced
  <2>5. \A p \in QId : queue'[p].stage = qs[p].stage
    BY <2>1, <2>2 DEF Joined, Tables, QueueRecord
  <2>6. AtGate(queue', gateWait')
    BY <2>1, <2>2, <2>5 DEF AtGate
  <2>7. Resources(lanes', queue', owner', ms)
    BY <2>1, <2>2, <2>4 DEF Resources, InHand, Leading
  <2>8. SameLanes(ls, lanes', t.lane)
    BY <2>2 DEF SameLanes
  <2> QED
    BY <2>1, <2>2, <2>4, <2>6, <2>7, <2>8 DEF Entered
<1> QED
  BY <1>1, <1>2

-----------------------------------------------------------------------------
(* The steps.                                                              *)

Outcomes == [Msg -> {"none", "done", "dropped", "rejected", "aborted"}]
Blank(ls) == \A l \in Lane : ~ls[l].exists => ls[l] = NoLane

\* The invariant after a step, from its parts of the new tables.
LEMMA Concluded ==
  ASSUME IndInv, UNCHANGED config, phase' \in {"open", "closing", "closed"},
         Tables(lanes', queue'), gateWait' \in Seq(QId), debounce' \in SUBSET Lane,
         msgs' \in Seq(Lane), Len(msgs') <= MaxMsg, outcome' \in Outcomes, owner' \in Owners,
         Placed(lanes', queue', msgs'), AtGate(queue', gateWait'), Phased', Located',
         Resources(lanes', queue', owner', msgs')
  PROVE  IndInv'
<1>1. mode' = mode /\ policy' = policy /\ mode \in [Lane -> Mode] /\ policy \in Policies
  BY DEF config, IndInv, Types
<1>2. Types'
  BY <1>1 DEF Types, Tables, Outcomes, Owners
<1>3. Placed(lanes, queue, msgs)'
  <2>1. /\ Shared(lanes)' /\ RunHome(lanes, queue, msgs)' /\ PendingHome(lanes, msgs)'
        /\ Apart(lanes, queue)' /\ PendingApart(lanes, queue)'
    BY DEF Placed, Shared, RunHome, PendingHome, Apart, PendingApart, Started, OfLane, Before
  <2>2. WaitHome(lanes, queue, msgs)'
    BY <1>1 DEF Placed, WaitHome, OfLane, IsSteer
  <2>3. Ordered(lanes, queue)' /\ RunOrdered(lanes, queue)' /\ Collecting(lanes)'
    BY <1>1 DEF Placed, Ordered, RunOrdered, Collecting, Started, Before
  <2> QED
    BY <2>1, <2>2, <2>3 DEF Placed
<1>4. AtGate(queue, gateWait)'
  BY DEF AtGate
<1>5. Resources(lanes, queue, owner, msgs)'
  BY DEF Resources, Leads, Newest, IsSteer
<1> QED
  BY <1>2, <1>3, <1>4, <1>5 DEF IndInv

\* A step of an open queue that enters task t.
LEMMA EnteredInd ==
  ASSUME IndInv, phase' = "open", UNCHANGED config, NEW ls, NEW qs, NEW t,
         Entered(ls, qs, msgs', t), Blank(ls), t.lane \in Lane, ls[t.lane].q \in QId,
         msgs' \in Seq(Lane), Len(msgs') <= MaxMsg,
         debounce' \in SUBSET Lane, outcome' \in Outcomes,
         \A m \in 1 .. Len(msgs') :
            outcome'[m] = "none" => Inside(ls, qs, m) \/ m \in t.entry.ids
  PROVE  IndInv'
<1>1. /\ Tables(lanes', queue') /\ gateWait' \in Seq(QId) /\ owner' \in Owners
      /\ Placed(lanes', queue', msgs') /\ AtGate(queue', gateWait')
      /\ Resources(lanes', queue', owner', msgs')
      /\ Holding(ls, qs, lanes', queue', t.entry.ids) /\ SameLanes(ls, lanes', t.lane)
  BY DEF Entered
<1>2. Phased'
  <2>1. ls[t.lane].exists
    BY DEF Blank, NoLane, FreshLane, NoQueue, QId
  <2> QED
    BY <1>1, <2>1 DEF Phased, SameLanes, Blank, NoLane, FreshLane, NoQueue
<1>3. Located'
  <2>1. \A m \in 1 .. Len(msgs') : outcome'[m] = "none" => Inside(lanes', queue', m)
    BY <1>1 DEF Holding
  <2> QED
    BY <2>1 DEF Located, Accepted, Inside, Started
<1> QED
  BY <1>1, <1>2, <1>3, Concluded

WithLane(ls, l, q) == [ls EXCEPT ![l] = FreshLane(q)]
OnlyQueue(ls, l, q) ==
    \A k \in Lane : SessionOf[k] = SessionOf[l] /\ ls[k].q # NoQueue => ls[k].q = q

\* getOrCreateLane makes a lane of the conversation's queue.
LEMMA Opened ==
  ASSUME NEW ls, NEW qs, NEW ks, NEW ms, NEW l \in Lane, NEW q \in QId,
         Tables(ls, qs), Placed(ls, qs, ms), ls[l] = NoLane,
         OnlyQueue(ls, l, q), ks = WithLane(ls, l, q)
  PROVE  /\ Tables(ks, qs) /\ Placed(ks, qs, ms)
         /\ Holding(ls, qs, ks, qs, {}) /\ Leading(ls, qs, ks, qs, {})
<1>1. /\ ks \in [Lane -> LaneRecord]
      /\ ks[l].q = q /\ ks[l].pendingEntries = <<>> /\ ks[l].exists
      /\ \A k \in Lane : k # l => ks[k] = ls[k]
  <2>1. FreshLane(q) \in LaneRecord
    BY DEF FreshLane, LaneRecord
  <2> QED
    BY <2>1 DEF Tables, FreshLane, WithLane
<1>2. ls[l].q = NoQueue /\ NoQueue \notin QId /\ ls[l].pendingEntries = <<>>
  BY DEF NoLane, FreshLane, NoQueue, QId
<1>3. \A k \in Lane : /\ ks[k].pendingEntries = ls[k].pendingEntries
                      /\ k # l => ks[k].q = ls[k].q
                      /\ ks[k].pendingEntries # <<>> => ks[k] = ls[k]
  BY <1>1, <1>2
<1>4. Tables(ks, qs)
  BY <1>1 DEF Tables
<1>5. \A q2 \in QId : \A k \in Lane : ls[k].q = q2 => ks[k].q = q2
  BY <1>2, <1>3
<1>6. Shared(ks)
  BY <1>1, <1>2 DEF Placed, Shared, OnlyQueue
<1>7. RunHome(ks, qs, ms)
  <2>1. \A p \in QId : qs[p].stage # "none" => qs[p].run \in Task /\ qs[p].run.lane \in Lane
    BY DEF Placed, RunHome, Task
  <2> QED
    BY <1>5, <2>1 DEF Placed, RunHome
<1>8. WaitHome(ks, qs, ms)
  <2>1. \A p \in QId : \A i \in DOMAIN qs[p].waiting : qs[p].waiting[i] \in Task
    BY DEF Tables, QueueRecord
  <2>2. \A p \in QId : \A i \in DOMAIN qs[p].waiting : qs[p].waiting[i].lane \in Lane
    BY <2>1 DEF Task
  <2> QED
    BY <1>5, <2>2 DEF Placed, WaitHome
<1>9. PendingHome(ks, ms) /\ PendingApart(ks, qs)
  BY <1>3 DEF Placed, PendingHome, PendingApart
<1>10. Apart(ks, qs)
  BY DEF Placed, Apart
<1>11. Ordered(ks, qs)
  <2>1. \A p \in QId : \A i \in DOMAIN qs[p].waiting : qs[p].waiting[i] \in Task
    BY DEF Tables, QueueRecord
  <2>2. \A p \in QId : \A i \in DOMAIN qs[p].waiting :
           /\ qs[p].waiting[i].lane \in Lane
           /\ ks[qs[p].waiting[i].lane].pendingEntries = ls[qs[p].waiting[i].lane].pendingEntries
    BY <1>3, <2>1 DEF Task
  <2> QED
    BY <2>2 DEF Placed, Ordered
<1>12. RunOrdered(ks, qs)
  <2>1. \A p \in QId : Started(qs, p) => qs[p].run \in Task /\ qs[p].run.lane \in Lane
    BY DEF Placed, RunHome, Task, Started
  <2>2. \A p \in QId : Started(qs, p) =>
           ks[qs[p].run.lane].pendingEntries = ls[qs[p].run.lane].pendingEntries
    BY <1>3, <2>1
  <2> QED
    BY <2>2 DEF Placed, RunOrdered
<1>13. Collecting(ks)
  BY <1>3 DEF Placed, Collecting
<1>14. Holding(ls, qs, ks, qs, {}) /\ Leading(ls, qs, ks, qs, {})
  BY <1>3 DEF Holding, Leading, Inside, Leads
<1> QED
  BY <1>4, <1>6, <1>7, <1>8, <1>9, <1>10, <1>11, <1>12, <1>13, <1>14 DEF Placed

WithDepth(ls, l, n) == [ls EXCEPT ![l].logicalDepth = n]
SameButDepth(ls, ks, l) ==
    \A k \in Lane : /\ ks[k].q = ls[k].q /\ ks[k].exists = ls[k].exists
                    /\ ks[k].isExecuting = ls[k].isExecuting
                    /\ ks[k].pendingEntries = ls[k].pendingEntries
                    /\ k # l => ks[k] = ls[k]

\* Only the depth of a lane changes.
LEMMA Deepened ==
  ASSUME NEW ls, NEW qs, NEW ks, NEW ms, NEW l \in Lane, NEW n \in Nat,
         Tables(ls, qs), Placed(ls, qs, ms), ks = WithDepth(ls, l, n)
  PROVE  /\ Tables(ks, qs) /\ Placed(ks, qs, ms)
         /\ Holding(ls, qs, ks, qs, {}) /\ Leading(ls, qs, ks, qs, {})
         /\ SameButDepth(ls, ks, l)
<1>1. ls \in [Lane -> LaneRecord] /\ ls[l] \in LaneRecord
  BY DEF Tables
<1>2. [ls[l] EXCEPT !.logicalDepth = n] \in LaneRecord
  BY <1>1 DEF LaneRecord
<1>3. /\ ks \in [Lane -> LaneRecord]
      /\ \A k \in Lane : /\ ks[k].q = ls[k].q /\ ks[k].exists = ls[k].exists
                         /\ ks[k].isExecuting = ls[k].isExecuting
                         /\ ks[k].pendingEntries = ls[k].pendingEntries
                         /\ k # l => ks[k] = ls[k]
  BY <1>1, <1>2 DEF LaneRecord, WithDepth
<1>4. Tables(ks, qs)
  BY <1>3 DEF Tables
<1>5. Fewer(ls, qs, ks, qs)
  <2>1. \A p \in QId : Windows(qs[p].waiting, qs[p].waiting)
    <3> SUFFICES ASSUME NEW p \in QId PROVE Windows(qs[p].waiting, qs[p].waiting)
      OBVIOUS
    <3>1. qs[p].waiting \in Seq(Task)
      BY DEF Tables, QueueRecord
    <3> QED
      BY <3>1 DEF Windows
  <2> QED
    BY <1>3, <2>1 DEF Fewer
<1>6. Placed(ks, qs, ms)
  BY <1>4, <1>5, FewerPlaced
<1>7. Holding(ls, qs, ks, qs, {}) /\ Leading(ls, qs, ks, qs, {})
  BY <1>3 DEF Holding, Leading, Inside, Leads
<1> QED
  BY <1>3, <1>4, <1>6, <1>7 DEF SameButDepth

\* The queue of a lane is that of its conversation.
LEMMA QueueForIs ==
  ASSUME IndInv, phase = "open", NEW l \in Lane,
         lanes[l].exists \/ Lanes(SessionOf[l]) # {} \/ \E q \in QId : Unused(q)
  PROVE  /\ QueueForLane(l) \in QId
         /\ lanes[l].exists => lanes[l].q = QueueForLane(l)
         /\ OnlyQueue(lanes, l, QueueForLane(l))
<1>1. Blank(lanes) /\ Shared(lanes) /\ \A k \in Lane : lanes[k].q \in QId \cup {NoQueue}
  BY DEF IndInv, Phased, Blank, Placed, Types, Tables, LaneRecord
<1>2. \A k \in Lane : lanes[k].q # NoQueue => lanes[k].exists /\ lanes[k].q \in QId
  BY <1>1 DEF Blank, NoLane, FreshLane
<1>3. CASE lanes[l].exists
  <2>1. QueueForLane(l) = lanes[l].q
    BY <1>3 DEF QueueForLane
  <2> QED
    BY <1>1, <1>2, <1>3, <2>1 DEF Shared, OnlyQueue
<1>4. CASE ~lanes[l].exists /\ Lanes(SessionOf[l]) # {}
  <2>1. PICK o \in Lane : /\ lanes[o].exists /\ SessionOf[o] = SessionOf[l]
                          /\ QueueForLane(l) = lanes[o].q
    BY <1>4 DEF QueueForLane, Lanes
  <2> QED
    BY <1>1, <1>2, <1>4, <2>1 DEF Shared, OnlyQueue
<1>5. CASE ~lanes[l].exists /\ Lanes(SessionOf[l]) = {}
  <2>1. QueueForLane(l) = Min({q \in QId : Unused(q)})
    BY <1>5 DEF QueueForLane
  <2>2. QueueForLane(l) \in QId
    BY <1>5, <2>1, FreeQueue
  <2>3. \A k \in Lane : SessionOf[k] = SessionOf[l] => lanes[k].q = NoQueue
    BY <1>2, <1>5 DEF Lanes
  <2> QED
    BY <1>5, <2>2, <2>3 DEF OnlyQueue
<1> QED
  BY <1>3, <1>4, <1>5

\* enqueue finds or makes the lane.
LEMMA LaneFound ==
  ASSUME IndInv, phase = "open", NEW l \in Lane, NEW ls,
         lanes[l].exists \/ Lanes(SessionOf[l]) # {} \/ \E q \in QId : Unused(q),
         ls = IF lanes[l].exists THEN lanes ELSE WithLane(lanes, l, QueueForLane(l))
  PROVE  /\ Tables(ls, queue) /\ Placed(ls, queue, msgs) /\ Blank(ls)
         /\ ls[l].exists /\ ls[l].q = QueueForLane(l) /\ QueueForLane(l) \in QId
         /\ Holding(lanes, queue, ls, queue, {}) /\ Leading(lanes, queue, ls, queue, {})
<1>1. Tables(lanes, queue) /\ Placed(lanes, queue, msgs) /\ Blank(lanes)
  BY DEF IndInv, Types, Phased, Blank
<1>2. CASE lanes[l].exists
  BY <1>1, <1>2, QueueForIs DEF Holding, Leading
<1>3. CASE ~lanes[l].exists
  <2>1. ls = WithLane(lanes, l, QueueForLane(l)) /\ lanes[l] = NoLane
    BY <1>1, <1>3 DEF Blank
  <2>2. QueueForLane(l) \in QId /\ OnlyQueue(lanes, l, QueueForLane(l))
    BY QueueForIs
  <2>3. /\ Tables(ls, queue) /\ Placed(ls, queue, msgs)
        /\ Holding(lanes, queue, ls, queue, {}) /\ Leading(lanes, queue, ls, queue, {})
    BY <1>1, <2>1, <2>2, Opened
  <2>4. ls[l] = FreshLane(QueueForLane(l)) /\ \A k \in Lane : k # l => ls[k] = lanes[k]
    BY <1>1, <2>1 DEF Tables, WithLane
  <2> QED
    BY <1>1, <2>2, <2>3, <2>4 DEF Blank, FreshLane
<1> QED
  BY <1>2, <1>3

\* The lane that enqueue finds collects the message instead of running it.
Busy(l) ==
    LET ls == IF lanes[l].exists THEN lanes ELSE [lanes EXCEPT ![l] = FreshLane(QueueForLane(l))]
    IN  mode[l] \in {"collect", "steer"} /\ ls[l].isExecuting

\* A message of a lane that is not busy becomes a task.
LEMMA EnqueueTask ==
  ASSUME IndInv, NEW l \in Lane, Enqueue(l),
         ~Busy(l)
  PROVE  IndInv'
<1> DEFINE m == Len(msgs) + 1
           q == QueueForLane(l)
           ls == IF lanes[l].exists THEN lanes ELSE [lanes EXCEPT ![l] = FreshLane(q)]
           ks == [ls EXCEPT ![l].logicalDepth = @ + 1]
           e == [ids |-> {m}, count |-> 1]
           t == EntryTask(l, e)
<1>1. /\ phase = "open" /\ phase' = "open" /\ UNCHANGED config /\ Len(msgs) < MaxMsg
      /\ lanes[l].exists \/ Lanes(SessionOf[l]) # {} \/ \E p \in QId : Unused(p)
      /\ msgs' = Append(msgs, l) /\ UNCHANGED <<outcome, debounce>>
      /\ Schedule(queue, ks, owner, q, t)
  BY DEF Enqueue, Busy
<1>2. ~(mode[l] \in {"collect", "steer"} /\ ls[l].isExecuting)
  BY DEF Busy
<1> HIDE DEF ls
<1>3. /\ Tables(ls, queue) /\ Placed(ls, queue, msgs) /\ Blank(ls)
      /\ ls[l].exists /\ ls[l].q = q /\ q \in QId
      /\ Holding(lanes, queue, ls, queue, {}) /\ Leading(lanes, queue, ls, queue, {})
  BY <1>1, LaneFound DEF ls, WithLane
<1> HIDE DEF q
<1>4. PICK n \in Nat : ks = WithDepth(ls, l, n)
  <2>1. ls[l].logicalDepth + 1 \in Nat
    BY <1>3 DEF Tables, LaneRecord
  <2>2. ks = WithDepth(ls, l, ls[l].logicalDepth + 1)
    BY DEF WithDepth
  <2> QED
    BY <2>1, <2>2
<1> HIDE DEF ks
<1>5. /\ Tables(ks, queue) /\ Placed(ks, queue, msgs)
      /\ Holding(ls, queue, ks, queue, {}) /\ Leading(ls, queue, ks, queue, {})
      /\ SameButDepth(ls, ks, l)
  BY <1>3, <1>4, Deepened
<1>6. msgs \in Seq(Lane) /\ gateWait \in Seq(QId) /\ owner \in Owners /\ outcome \in Outcomes
      /\ debounce \in SUBSET Lane /\ AtGate(queue, gateWait)
      /\ mode \in [Lane -> Mode]
  BY DEF IndInv, Types, Owners, Outcomes
<1>7. Placed(ks, queue, msgs')
  BY <1>1, <1>5, <1>6, MoreMessages
<1>8. /\ m \in Nat /\ m \in Msg /\ msgs' \in Seq(Lane) /\ Len(msgs') = m /\ msgs'[m] = l
      /\ Len(msgs) \in Nat /\ m \notin 1 .. Len(msgs) /\ 1 .. m = (1 .. Len(msgs)) \cup {m}
  BY <1>1, <1>6, QueueAssumption DEF Msg
<1> HIDE DEF m
<1>9. e \in Entry /\ t \in Task /\ t.lane = l /\ t.entry = e /\ e.ids = {m}
  BY <1>8 DEF Entry, Task, EntryTask
<1> HIDE DEF e, t
<1>10. OfLane(e, l, msgs') /\ Newest(e) = m
  <2>1. OfLane(e, l, msgs')
    BY <1>8, <1>9 DEF OfLane
  <2>2. Newest(e) \in e.ids
    BY <1>8, <1>9, NewestIs
  <2> QED
    BY <1>9, <2>1, <2>2
<1>11. Absent(ks, queue, e.ids)
  <2>1. ~Inside(ks, queue, m)
    BY <1>5, <1>8, InsideAccepted
  <2> QED
    BY <1>9, <2>1 DEF Absent
<1>12. InHand(ks, queue, owner, msgs', t)
  <2>1. \A x : Leads(ks, queue, x) <=> Leads(lanes, queue, x)
    BY <1>3, <1>5 DEF Leading
  <2>2. \A x \in Msg : owner[x] = "queue" <=> x \notin 1 .. Len(msgs) \/ Leads(lanes, queue, x)
    BY DEF IndInv, Resources
  <2> SUFFICES ASSUME NEW x \in Msg
               PROVE  owner[x] = "queue" <=>
                         x \notin 1 .. Len(msgs') \/ Leads(ks, queue, x) \/ x = m
    BY <1>9, <1>10 DEF InHand
  <2>3. x \notin 1 .. Len(msgs) <=> x \notin 1 .. Len(msgs') \/ x = m
    BY <1>8
  <2> QED
    BY <2>1, <2>2, <2>3
<1>13. Ready(ks, queue, owner, msgs', q, t)
  BY <1>3, <1>5, <1>6, <1>7, <1>9, <1>10, <1>11, <1>12 DEF Ready, SameButDepth
<1>14. Hindmost(ks, queue, q, t)
  <2> SUFFICES ASSUME mode[l] # "steer"
               PROVE  /\ \A j \in DOMAIN queue[q].waiting : Before(queue[q].waiting[j].entry.ids, {m})
                      /\ Started(queue, q) => Before(queue[q].run.entry.ids, {m})
                      /\ ks[l].pendingEntries = <<>>
    BY <1>9 DEF Hindmost, Before
  <2>1. ks[l].pendingEntries = <<>>
    <3>1. Collecting(ls) /\ ls[l].pendingEntries = ks[l].pendingEntries
      BY <1>3, <1>5 DEF Placed, SameButDepth
    <3> QED
      BY <1>2, <3>1 DEF Collecting
  <2>2. \A x : Inside(ks, queue, x) => x \in 1 .. Len(msgs)
    BY <1>5, InsideAccepted
  <2>3. \A x : Inside(ks, queue, x) => x < m
    BY <1>8, <2>2 DEF m
  <2> QED
    BY <1>3, <2>1, <2>3 DEF Before, Inside
<1>15. Entered(ks, queue, msgs', t)
  BY <1>1, <1>3, <1>13, <1>14, Scheduled
<1>16. Blank(ks)
  BY <1>3, <1>5 DEF Blank, SameButDepth
<1>17. \A x \in 1 .. Len(msgs') : outcome'[x] = "none" => Inside(ks, queue, x) \/ x \in t.entry.ids
  <2>1. \A x \in 1 .. Len(msgs) : outcome[x] = "none" => Inside(lanes, queue, x)
    BY DEF IndInv, Located, Accepted
  <2> QED
    BY <1>1, <1>3, <1>5, <1>8, <1>9, <2>1 DEF Holding
<1>18. Len(msgs') <= MaxMsg
  BY <1>1, <1>8, QueueAssumption DEF Msg
<1> QED
  BY <1>1, <1>3, <1>5, <1>6, <1>8, <1>9, <1>15, <1>16, <1>17, <1>18, EnteredInd DEF SameButDepth

\* Entries of messages in order.
Line(es) ==
    /\ es \in Seq(Entry)
    /\ \A i \in DOMAIN es : es[i].ids # {}
    /\ \A i, j \in DOMAIN es : i < j => Before(es[i].ids, es[j].ids)

\* Every entry of fs is made of messages of es, and has the newest of one of them.
Within(fs, es) ==
    \A i \in DOMAIN fs :
        /\ \A m \in fs[i].ids : \E j \in DOMAIN es : m \in es[j].ids
        /\ \E j \in DOMAIN es : Newest(fs[i]) = Newest(es[j])

Shifted(fs, es, k) == \A i \in DOMAIN fs : i + k \in DOMAIN es /\ fs[i] = es[i + k]

\* A part of a line without gaps is a line.
LEMMA LinePart ==
  ASSUME NEW es, Line(es), NEW fs \in Seq(Entry), NEW k \in Nat,
         Shifted(fs, es, k)
  PROVE  Line(fs) /\ Within(fs, es)
<1>1. \A i \in DOMAIN fs : i \in Nat
  <2>1. DOMAIN fs = 1 .. Len(fs) /\ Len(fs) \in Nat
    OBVIOUS
  <2> QED
    BY <2>1
<1>2. ASSUME NEW i \in DOMAIN fs, NEW j \in DOMAIN fs, i < j PROVE Before(fs[i].ids, fs[j].ids)
  <2>1. i + k < j + k
    <3>1. i \in Nat /\ j \in Nat
      BY <1>1
    <3> QED
      BY <1>2, <3>1
  <2> QED
    BY <2>1 DEF Line, Shifted
<1>3. \A i \in DOMAIN fs : fs[i].ids # {}
  BY DEF Line, Shifted
<1>4. Within(fs, es)
  BY DEF Within, Shifted
<1> QED
  BY <1>2, <1>3, <1>4 DEF Line

\* The overflow policy leaves a line, of the messages there were.
LEMMA OverflowIs ==
  ASSUME NEW es, Line(es), es # <<>>, policy \in Policies
  PROVE  Line(Overflow(es)) /\ Within(Overflow(es), es)
<1>1. es \in Seq(Entry) /\ Len(es) \in Nat /\ Len(es) >= 1 /\ DOMAIN es = 1 .. Len(es)
  BY DEF Line
<1>2. MaxDepth \in Nat /\ MaxDepth >= 1 /\ policy \in {"drop-old", "drop-new", "summarize"}
  BY QueueAssumption
<1>3. CASE Len(es) <= MaxDepth
  BY <1>3 DEF Overflow, Within, Line
<1>4. CASE ~(Len(es) <= MaxDepth) /\ policy = "drop-old"
  <2> DEFINE a == Len(es) - MaxDepth
             fs == SubSeq(es, a + 1, Len(es))
  <2>1. Overflow(es) = fs
    BY <1>4 DEF Overflow
  <2>2. a \in Nat /\ a + 1 \in 1 .. Len(es) /\ Len(es) - a \in Nat
    BY <1>1, <1>2, <1>4
  <2>3. fs \in Seq(Entry) /\ Shifted(fs, es, a)
    BY <1>1, <2>2 DEF Shifted
  <2> HIDE DEF fs, a
  <2> QED
    BY <2>1, <2>2, <2>3, LinePart
<1>5. CASE ~(Len(es) <= MaxDepth) /\ policy = "drop-new"
  <2> DEFINE fs == Front(es)
  <2>1. Overflow(es) = fs
    BY <1>5 DEF Overflow
  <2>2. fs \in Seq(Entry) /\ Shifted(fs, es, 0)
    BY <1>1 DEF Front, Shifted
  <2> HIDE DEF fs
  <2> QED
    BY <2>1, <2>2, LinePart
<1>6. CASE ~(Len(es) <= MaxDepth) /\ policy = "summarize"
  <2> DEFINE e == [ids |-> MsgsOf(es), count |-> 1]
             C == Coalesced(es)
  <2>1. Overflow(es) = <<e>>
    BY <1>6 DEF Overflow
  <2>2. C.ids = MsgsOf(es) /\ e \in Entry /\ e.ids = MsgsOf(es)
    BY <1>1, MsgsOfIs, CoalescedIs DEF Entry
  <2>3. MsgsOf(es) # {} /\ Newest(C) = Newest(es[Len(es)])
    BY <1>1, <2>2, CoalescedNewest DEF Line
  <2>4. Newest(e) = Newest(es[Len(es)]) /\ Len(es) \in DOMAIN es
    BY <1>1, <2>2, <2>3 DEF Newest
  <2>5. \A m \in e.ids : \E j \in DOMAIN es : m \in es[j].ids
    BY <1>1, <2>2, MsgsOfIs
  <2> HIDE DEF e, C
  <2>6. Line(<<e>>)
    BY <2>2, <2>3 DEF Line
  <2>7. Within(<<e>>, es)
    BY <2>4, <2>5 DEF Within
  <2> QED
    BY <2>1, <2>6, <2>7
<1> QED
  BY <1>2, <1>3, <1>4, <1>5, <1>6

InEntries(es, m) == \E i \in DOMAIN es : m \in es[i].ids

\* The entries fs are those of es and one of message m.
Longer(es, fs, m) ==
    /\ \A x : InEntries(fs, x) <=> x = m \/ InEntries(es, x)
    /\ \A x : LeadsIn(fs, x) <=> x = m \/ LeadsIn(es, x)

\* A newer message makes a longer line.
LEMMA LineLonger ==
  ASSUME NEW es, Line(es), NEW m \in Msg, \A i \in DOMAIN es : \A x \in es[i].ids : x < m
  PROVE  LET e == [ids |-> {m}, count |-> 1]
             fs == Append(es, e)
         IN  /\ Line(fs) /\ fs # <<>> /\ Newest(e) = m
             /\ Longer(es, fs, m)
<1> DEFINE e == [ids |-> {m}, count |-> 1]
           fs == Append(es, e)
           n == Len(es) + 1
<1>1. e \in Entry /\ e.ids = {m} /\ es \in Seq(Entry)
  BY DEF Entry, Line
<1>2. Newest(e) \in e.ids
  BY <1>1, NewestIs
<1> HIDE DEF e
<1>3. /\ fs \in Seq(Entry) /\ fs # <<>> /\ DOMAIN fs = DOMAIN es \cup {n} /\ n \notin DOMAIN es
      /\ fs[n] = e /\ \A i \in DOMAIN es : fs[i] = es[i]
      /\ n \in Nat /\ \A i \in DOMAIN es : i \in Nat /\ i < n
  BY <1>1
<1> HIDE DEF fs, n
<1>4. Line(fs)
  <2>1. ASSUME NEW i \in DOMAIN fs, NEW j \in DOMAIN fs, i < j PROVE Before(fs[i].ids, fs[j].ids)
    <3>1. i \in DOMAIN es
      BY <1>3, <2>1
    <3>2. CASE j = n
      BY <1>1, <1>3, <3>1, <3>2 DEF Before
    <3>3. CASE j \in DOMAIN es
      BY <1>3, <2>1, <3>1, <3>3 DEF Line
    <3> QED
      BY <1>3, <3>2, <3>3
  <2>2. \A i \in DOMAIN fs : fs[i].ids # {}
    BY <1>1, <1>3 DEF Line
  <2> QED
    BY <1>3, <2>1, <2>2 DEF Line
<1>5. \A x : (\E i \in DOMAIN fs : x \in fs[i].ids) <=>
             x = m \/ \E i \in DOMAIN es : x \in es[i].ids
  BY <1>1, <1>3
<1>6. \A x : LeadsIn(fs, x) <=> x = m \/ LeadsIn(es, x)
  BY <1>1, <1>2, <1>3 DEF LeadsIn
<1>7. Longer(es, fs, m)
  BY <1>5, <1>6 DEF Longer, InEntries
<1> QED
  BY <1>1, <1>2, <1>3, <1>4, <1>7 DEF e, fs

\* The places other than the pending entries of lane l.
InsideBut(ls, qs, l, m) ==
    \/ \E q \in QId : Started(qs, q) /\ m \in qs[q].run.entry.ids
    \/ \E q \in QId : \E i \in DOMAIN qs[q].waiting : m \in qs[q].waiting[i].entry.ids
    \/ \E k \in Lane \ {l} : \E i \in DOMAIN ls[k].pendingEntries :
          m \in ls[k].pendingEntries[i].ids
LeadsBut(ls, qs, l, m) ==
    \/ \E q \in QId : qs[q].stage = "gate" /\ Newest(qs[q].run.entry) = m
    \/ \E q \in QId : \E i \in DOMAIN qs[q].waiting :
          ~IsSteer(qs[q].waiting[i]) /\ Newest(qs[q].waiting[i].entry) = m
    \/ \E k \in Lane \ {l} : LeadsIn(ls[k].pendingEntries, m)
OfNext(fs, es, m) == \A x : InEntries(fs, x) => x = m \/ InEntries(es, x)
OtherLanes(ls, ks, l) ==
    \A k \in Lane : /\ ks[k].q = ls[k].q /\ ks[k].exists = ls[k].exists
                    /\ k # l => ks[k] = ls[k]

WithPending(ls, l, es, n) == [ls EXCEPT ![l].pendingEntries = es, ![l].logicalDepth = n]

\* The pending entries of lane l become a line es of theirs and of the next message.
LEMMA PendingPlaced ==
  ASSUME NEW ls, NEW qs, NEW ks, NEW ms \in Seq(Lane), NEW l \in Lane, NEW es, NEW n \in Nat,
         Tables(ls, qs), Placed(ls, qs, ms), ks = WithPending(ls, l, es, n),
         Line(es),
         OfNext(es, ls[l].pendingEntries, Len(ms) + 1),
         mode[l] = "steer" \/ (mode[l] = "collect" /\ ls[l].isExecuting)
  PROVE  /\ Tables(ks, qs) /\ Placed(ks, qs, Append(ms, l))
         /\ OtherLanes(ls, ks, l) /\ ks[l].pendingEntries = es
<1> DEFINE m1 == Len(ms) + 1
           ns == Append(ms, l)
<1>1. ls \in [Lane -> LaneRecord] /\ ls[l] \in LaneRecord /\ es \in Seq(Entry)
  BY DEF Tables, Line
<1>2. /\ ks \in [Lane -> LaneRecord] /\ ks[l].pendingEntries = es
      /\ \A k \in Lane : /\ ks[k].q = ls[k].q /\ ks[k].exists = ls[k].exists
                         /\ ks[k].isExecuting = ls[k].isExecuting
                         /\ k # l => ks[k] = ls[k]
  <2>1. ks = [ls EXCEPT ![l] = [ls[l] EXCEPT !.pendingEntries = es, !.logicalDepth = n]]
    BY DEF WithPending
  <2>2. [ls[l] EXCEPT !.pendingEntries = es, !.logicalDepth = n] \in LaneRecord
    BY <1>1 DEF LaneRecord
  <2> QED
    BY <1>1, <2>1, <2>2 DEF LaneRecord
<1>3. Tables(ks, qs)
  BY <1>2 DEF Tables
<1>4. Placed(ls, qs, ns)
  BY MoreMessages
<1>5. m1 \in Nat /\ m1 \in 1 .. Len(ns) /\ ns[m1] = l /\ \A x \in 1 .. Len(ms) : x < m1
  OBVIOUS
<1>6. \A x : Inside(ls, qs, x) => x \in 1 .. Len(ms) /\ x < m1
  BY <1>5, InsideAccepted
<1> HIDE DEF m1, ns
<1>7. \A i \in DOMAIN es : \A x \in es[i].ids :
         x = m1 \/ \E j \in DOMAIN ls[l].pendingEntries : x \in ls[l].pendingEntries[j].ids
  BY DEF InEntries, OfNext, m1
<1>8. \A i \in DOMAIN es : OfLane(es[i], l, ns)
  BY <1>4, <1>5, <1>7 DEF OfLane, Placed, PendingHome, Line
<1>9. Shared(ks)
  BY <1>2 DEF Placed, Shared
<1>10. \A p \in QId : Started(qs, p) => qs[p].run \in Task /\ qs[p].run.lane \in Lane
  BY DEF Placed, RunHome, Task, Started
<1>11. \A p \in QId : \A i \in DOMAIN qs[p].waiting :
          qs[p].waiting[i] \in Task /\ qs[p].waiting[i].lane \in Lane
  <2>1. \A p \in QId : \A i \in DOMAIN qs[p].waiting : qs[p].waiting[i] \in Task
    BY DEF Tables, QueueRecord
  <2> QED
    BY <2>1 DEF Task
<1>12. RunHome(ks, qs, ns)
  <2>1. \A p \in QId : qs[p].stage # "none" => qs[p].run \in Task /\ qs[p].run.lane \in Lane
    BY DEF Placed, RunHome, Task
  <2> QED
    BY <1>2, <1>4, <2>1 DEF Placed, RunHome
<1>13. WaitHome(ks, qs, ns)
  BY <1>2, <1>4, <1>11 DEF Placed, WaitHome
<1>14. PendingHome(ks, ns)
  BY <1>2, <1>4, <1>8 DEF Placed, PendingHome, Line
<1>15. Apart(ks, qs)
  BY DEF Placed, Apart
<1>16. \A p \in QId : /\ \A j \in DOMAIN qs[p].waiting : m1 \notin qs[p].waiting[j].entry.ids
                      /\ Started(qs, p) => m1 \notin qs[p].run.entry.ids
  BY <1>5, <1>6 DEF Inside
<1>17. PendingApart(ks, qs)
  BY <1>2, <1>7, <1>16 DEF Placed, PendingApart
<1>18. Ordered(ks, qs)
  <2> SUFFICES ASSUME NEW p \in QId, NEW i \in DOMAIN qs[p].waiting,
                      mode[qs[p].waiting[i].lane] # "steer",
                      NEW j \in DOMAIN ks[qs[p].waiting[i].lane].pendingEntries,
                      NEW x \in qs[p].waiting[i].entry.ids,
                      NEW y \in ks[qs[p].waiting[i].lane].pendingEntries[j].ids
               PROVE  x < y
    BY DEF Placed, Ordered, Before
  <2>1. CASE qs[p].waiting[i].lane = l
    <3>1. x < m1
      BY <1>6 DEF Inside
    <3>2. \A b \in DOMAIN ls[l].pendingEntries : \A z \in ls[l].pendingEntries[b].ids : x < z
      BY <2>1 DEF Placed, Ordered, Before
    <3> QED
      BY <1>2, <1>7, <2>1, <3>1, <3>2
  <2>2. CASE qs[p].waiting[i].lane # l
    BY <1>2, <1>11, <2>2 DEF Placed, Ordered, Before
  <2> QED
    BY <2>1, <2>2
<1>19. RunOrdered(ks, qs)
  <2> SUFFICES ASSUME NEW p \in QId, Started(qs, p), mode[qs[p].run.lane] # "steer",
                      NEW j \in DOMAIN ks[qs[p].run.lane].pendingEntries,
                      NEW x \in qs[p].run.entry.ids,
                      NEW y \in ks[qs[p].run.lane].pendingEntries[j].ids
               PROVE  x < y
    BY DEF RunOrdered, Before
  <2>1. CASE qs[p].run.lane = l
    <3>1. x < m1
      BY <1>6 DEF Inside
    <3>2. \A b \in DOMAIN ls[l].pendingEntries : \A z \in ls[l].pendingEntries[b].ids : x < z
      BY <2>1 DEF Placed, RunOrdered, Before
    <3> QED
      BY <1>2, <1>7, <2>1, <3>1, <3>2
  <2>2. CASE qs[p].run.lane # l
    BY <1>2, <1>10, <2>2 DEF Placed, RunOrdered, Before
  <2> QED
    BY <2>1, <2>2
<1>20. Collecting(ks)
  BY <1>2 DEF Placed, Collecting
<1> QED
  BY <1>2, <1>3, <1>9, <1>12, <1>13, <1>14, <1>15, <1>17, <1>18, <1>19, <1>20 DEF Placed, ns, OtherLanes

\* Inside and Leads, lane l apart.
LEMMA ButPending ==
  ASSUME NEW ls, NEW qs, NEW l \in Lane, NEW m
  PROVE  /\ Inside(ls, qs, m) <=> InsideBut(ls, qs, l, m) \/ InEntries(ls[l].pendingEntries, m)
         /\ Leads(ls, qs, m) <=> LeadsBut(ls, qs, l, m) \/ LeadsIn(ls[l].pendingEntries, m)
  BY DEF Inside, InsideBut, InEntries, Leads, LeadsBut, LeadsIn

\* Leaders elsewhere are not of the pending entries of lane l.
LEMMA LeadsElsewhere ==
  ASSUME NEW ls, NEW qs, NEW ms, Tables(ls, qs), Placed(ls, qs, ms), NEW l \in Lane, NEW m,
         LeadsBut(ls, qs, l, m)
  PROVE  m \in 1 .. Len(ms) /\ ~InEntries(ls[l].pendingEntries, m)
<1> DEFINE ks == Cleared(ls, l)
<1>1. CASE ls[l].pendingEntries = <<>>
  <2>1. Leads(ls, qs, m)
    BY ButPending
  <2>2. m \in 1 .. Len(ms)
    BY <2>1, LeadsInside
  <2> QED
    BY <1>1, <2>2 DEF InEntries
<1>2. CASE ls[l].pendingEntries # <<>>
  <2>1. Leads(ls, qs, m)
    BY ButPending
  <2>2. m \in 1 .. Len(ms)
    BY <2>1, LeadsInside
  <2>3. /\ ks \in [Lane -> LaneRecord] /\ ks[l].pendingEntries = <<>>
        /\ \A k \in Lane : k # l => ks[k] = ls[k]
        /\ \A k \in Lane : /\ ks[k].q = ls[k].q /\ ks[k].exists = ls[k].exists
                           /\ ks[k].isExecuting = ls[k].isExecuting
    <3>1. ls \in [Lane -> LaneRecord] /\ ls[l] \in LaneRecord /\ <<>> \in Seq(Entry)
      BY DEF Tables
    <3>2. [ls[l] EXCEPT !.pendingEntries = <<>>] \in LaneRecord
      BY <3>1 DEF LaneRecord
    <3> QED
      BY <3>1, <3>2 DEF LaneRecord, Cleared
  <2> HIDE DEF ks
  <2>4. Fewer(ls, qs, ks, qs)
    <3>1. \A p \in QId : Windows(qs[p].waiting, qs[p].waiting)
      <4> SUFFICES ASSUME NEW p \in QId PROVE Windows(qs[p].waiting, qs[p].waiting)
        OBVIOUS
      <4>1. qs[p].waiting \in Seq(Task)
        BY DEF Tables, QueueRecord
      <4> QED
        BY <4>1 DEF Windows
    <3>2. \A k \in Lane : k # l => ks[k].pendingEntries = ls[k].pendingEntries
      BY <2>3
    <3> QED
      BY <2>3, <3>1, <3>2 DEF Fewer
  <2>5. Tables(ks, qs) /\ Placed(ks, qs, ms)
    <3>1. Tables(ks, qs)
      BY <2>3 DEF Tables
    <3> QED
      BY <2>4, <3>1, FewerPlaced
  <2>6. LeadsBut(ks, qs, l, m)
    BY <2>3 DEF LeadsBut
  <2>7. Leads(ks, qs, m)
    BY <2>6, ButPending
  <2>8. Inside(ks, qs, m)
    BY <2>5, <2>7, LeadsInside
  <2>9. InsideBut(ls, qs, l, m)
    <3>1. ~InEntries(ks[l].pendingEntries, m)
      BY <2>3 DEF InEntries
    <3>2. InsideBut(ks, qs, l, m)
      BY <2>8, <3>1, ButPending
    <3> QED
      BY <2>3, <3>2 DEF InsideBut
  <2>10. Sole(ls, qs, m)
    BY OnePlace
  <2>11. ~InEntries(ls[l].pendingEntries, m)
    BY <2>9, <2>10 DEF InsideBut, InEntries, Sole
  <2> QED
    BY <2>2, <2>11
<1> QED
  BY <1>1, <1>2

\* A message of a busy lane is collected, under the overflow policy.
LEMMA EnqueueCollected ==
  ASSUME IndInv, NEW l \in Lane, Enqueue(l), Busy(l)
  PROVE  IndInv'
<1> DEFINE m == Len(msgs) + 1
           old == lanes[l].pendingEntries
           e == [ids |-> {m}, count |-> 1]
           before == Append(old, e)
           after == Overflow(before)
           gone == MsgsOf(before) \ MsgsOf(after)
           freed == {Newest(x) : x \in Range(before)} \ {Newest(x) : x \in Range(after)}
           d == lanes[l].logicalDepth + 1 - Dropped(before)
           q == lanes[l].q
<1>1. lanes[l].exists /\ lanes[l].isExecuting /\ mode[l] \in {"collect", "steer"}
  <2>1. lanes \in [Lane -> LaneRecord]
    BY DEF IndInv, Types, Tables
  <2>2. CASE ~lanes[l].exists
    <3>1. [lanes EXCEPT ![l] = FreshLane(QueueForLane(l))][l].isExecuting
      BY <2>2 DEF Busy
    <3> QED
      BY <2>1, <3>1 DEF FreshLane
  <2> QED
    BY <2>2 DEF Busy
<1>2. /\ phase = "open" /\ phase' = "open" /\ UNCHANGED config /\ Len(msgs) < MaxMsg
      /\ msgs' = Append(msgs, l)
      /\ EnqueuePending(l, m, lanes)
  BY <1>1 DEF Enqueue
<1>3. /\ lanes' = [lanes EXCEPT ![l].pendingEntries = after,
                                ![l].logicalDepth = IF d < 0 THEN 0 ELSE d]
      /\ owner' = Release(owner, freed)
      /\ outcome' = Publish(outcome, gone, "dropped")
      /\ debounce' = IF mode[l] = "collect" THEN debounce \union {l} ELSE debounce \ {l}
      /\ queue' = IF mode[l] = "steer" THEN Joined(queue, q, SteerTask(l)) ELSE queue
      /\ gateWait' = gateWait
  BY <1>2 DEF EnqueuePending, Joined
<1>4. /\ Tables(lanes, queue) /\ Placed(lanes, queue, msgs) /\ AtGate(queue, gateWait)
      /\ msgs \in Seq(Lane) /\ gateWait \in Seq(QId) /\ owner \in Owners /\ outcome \in Outcomes
      /\ debounce \in SUBSET Lane /\ mode \in [Lane -> Mode] /\ policy \in Policies
      /\ Blank(lanes) /\ Resources(lanes, queue, owner, msgs)
  BY <1>2 DEF IndInv, Types, Owners, Outcomes, Phased, Blank
<1>5. /\ m \in Nat /\ m \in Msg /\ msgs' \in Seq(Lane) /\ Len(msgs') = m /\ msgs'[m] = l
      /\ Len(msgs) \in Nat /\ m \notin 1 .. Len(msgs) /\ 1 .. m = (1 .. Len(msgs)) \cup {m}
      /\ \A x \in 1 .. Len(msgs) : x < m
  BY <1>2, <1>4, QueueAssumption DEF Msg
<1>6. q \in QId
  BY <1>1, <1>4 DEF Placed, Shared, Tables, LaneRecord
<1>7. Line(old)
  BY <1>4 DEF Line, Placed, PendingHome, OfLane, Tables, LaneRecord
<1>8. \A x : InEntries(old, x) => x \in 1 .. Len(msgs)
  <2>1. \A x : InEntries(old, x) => Inside(lanes, queue, x)
    BY ButPending
  <2> QED
    BY <1>4, <2>1, InsideAccepted
<1> HIDE DEF m
<1>9. /\ Line(before) /\ before # <<>> /\ Newest(e) = m
      /\ Longer(old, before, m)
  <2>1. \A i \in DOMAIN old : \A x \in old[i].ids : x < m
    BY <1>5, <1>8 DEF InEntries
  <2> HIDE DEF old
  <2> QED
    BY <1>5, <1>7, <2>1, LineLonger
<1> HIDE DEF before
<1>10. Line(after) /\ Within(after, before)
  BY <1>4, <1>9, OverflowIs
<1> HIDE DEF after, old
<1>11. PICK n \in Nat : lanes' = WithPending(lanes, l, after, n)
  <2>1. lanes[l].logicalDepth \in Nat
    BY <1>4 DEF Tables, LaneRecord
  <2>2. Len(before) \in Nat
    BY <1>9 DEF Line
  <2>3. Dropped(before) \in Int
    BY <2>2, QueueAssumption DEF Dropped
  <2>4. (IF d < 0 THEN 0 ELSE d) \in Nat
    BY <2>1, <2>3
  <2> HIDE DEF d
  <2>5. lanes' = WithPending(lanes, l, after, IF d < 0 THEN 0 ELSE d)
    BY <1>3 DEF WithPending
  <2> QED
    BY <2>4, <2>5
<1>12. \A x : InEntries(after, x) => InEntries(before, x)
  BY <1>10 DEF Within, InEntries
<1>13. \A x : LeadsIn(after, x) => LeadsIn(before, x)
  BY <1>10 DEF Within, LeadsIn
<1>14. /\ Tables(lanes', queue) /\ Placed(lanes', queue, msgs')
       /\ OtherLanes(lanes, lanes', l) /\ lanes'[l].pendingEntries = after
  <2>1. OfNext(after, lanes[l].pendingEntries, Len(msgs) + 1)
    BY <1>9, <1>12 DEF m, old, OfNext, Longer
  <2>2. mode[l] = "steer" \/ (mode[l] = "collect" /\ lanes[l].isExecuting)
    BY <1>1
  <2> QED
    BY <1>2, <1>4, <1>10, <1>11, <2>1, <2>2, PendingPlaced
<1>15. \A x : /\ InsideBut(lanes', queue, l, x) <=> InsideBut(lanes, queue, l, x)
              /\ LeadsBut(lanes', queue, l, x) <=> LeadsBut(lanes, queue, l, x)
  BY <1>14 DEF InsideBut, LeadsBut, OtherLanes
<1>16. Resources(lanes', queue, owner', msgs')
  <2>1. /\ \A x : x \in freed <=> LeadsIn(before, x) /\ ~LeadsIn(after, x)
    <3>1. before \in Seq(Entry) /\ after \in Seq(Entry)
      BY <1>9, <1>10 DEF Line
    <3> QED
      BY <3>1 DEF LeadsIn, Range
  <2> HIDE DEF freed
  <2> SUFFICES ASSUME NEW x \in Msg
               PROVE  owner'[x] = "queue" <=> x \notin 1 .. Len(msgs') \/ Leads(lanes', queue, x)
    BY DEF Resources
  <2>2. owner'[x] = "queue" <=> owner[x] = "queue" /\ x \notin freed
    BY <1>3 DEF Release
  <2>3. owner[x] = "queue" <=>
           x \notin 1 .. Len(msgs) \/ LeadsBut(lanes, queue, l, x) \/ LeadsIn(old, x)
    BY <1>4, ButPending DEF Resources, old
  <2>4. Leads(lanes', queue, x) <=> LeadsBut(lanes, queue, l, x) \/ LeadsIn(after, x)
    BY <1>14, <1>15, ButPending
  <2>5. LeadsBut(lanes, queue, l, x) => x \in 1 .. Len(msgs) /\ ~InEntries(old, x)
    BY <1>4, LeadsElsewhere DEF old
  <2>6. LeadsIn(old, x) => InEntries(old, x)
    <3>1. old \in Seq(Entry) /\ \A i \in DOMAIN old : old[i] \in Entry /\ old[i].ids # {}
      BY <1>7 DEF Line
    <3>2. \A i \in DOMAIN old : Newest(old[i]) \in old[i].ids
      BY <3>1, NewestIs DEF Entry
    <3> QED
      BY <3>2 DEF LeadsIn, InEntries
  <2>7. LeadsIn(before, x) <=> x = m \/ LeadsIn(old, x)
    BY <1>9 DEF Longer
  <2>8. LeadsIn(after, x) => LeadsIn(before, x)
    BY <1>13
  <2>9. LeadsIn(old, x) => x \in 1 .. Len(msgs)
    BY <1>8, <2>6
  <2>10. x \notin 1 .. Len(msgs) <=> x \notin 1 .. Len(msgs') \/ x = m
    BY <1>5
  <2>11. x = m => x \notin 1 .. Len(msgs) /\ x \in 1 .. Len(msgs')
    BY <1>5
  <2>12. x \in freed <=> LeadsIn(before, x) /\ ~LeadsIn(after, x)
    BY <2>1
  <2> QED
    BY <2>2, <2>3, <2>4, <2>5, <2>6, <2>7, <2>8, <2>9, <2>10, <2>11, <2>12
<1>17. \A x \in 1 .. Len(msgs') : outcome'[x] = "none" => Inside(lanes', queue, x)
  <2> SUFFICES ASSUME NEW x \in 1 .. Len(msgs'), outcome'[x] = "none"
               PROVE  Inside(lanes', queue, x)
    OBVIOUS
  <2>1. before \in Seq(Entry) /\ after \in Seq(Entry)
    BY <1>9, <1>10 DEF Line
  <2>2. x \in Msg
    BY <1>2, <1>5, QueueAssumption DEF Msg
  <2>3. outcome[x] = "none" /\ x \notin gone
    BY <1>3, <2>2 DEF Publish
  <2>4. x \in gone <=> InEntries(before, x) /\ ~InEntries(after, x)
    BY <2>1, MsgsOfIs DEF InEntries
  <2> HIDE DEF gone
  <2>5. x \in 1 .. Len(msgs) => Inside(lanes, queue, x)
    BY <2>3 DEF IndInv, Located, Accepted
  <2>6. x = m \/ InsideBut(lanes, queue, l, x) \/ InEntries(old, x)
    BY <1>5, <2>5, ButPending DEF old
  <2>7. InsideBut(lanes', queue, l, x) \/ InEntries(lanes'[l].pendingEntries, x)
    BY <1>9, <1>14, <1>15, <2>3, <2>4, <2>6 DEF Longer
  <2> QED
    BY <2>7, ButPending
<1>18. /\ Tables(lanes', queue') /\ Placed(lanes', queue', msgs')
       /\ Resources(lanes', queue', owner', msgs') /\ AtGate(queue', gateWait')
       /\ \A x \in 1 .. Len(msgs') : outcome'[x] = "none" => Inside(lanes', queue', x)
  <2>1. CASE mode[l] # "steer"
    BY <1>3, <1>4, <1>14, <1>16, <1>17, <2>1
  <2>2. CASE mode[l] = "steer"
    <3> DEFINE t == SteerTask(l)
    <3>1. queue' = Joined(queue, q, t) /\ gateWait' = gateWait
      BY <1>3, <2>2
    <3>2. t \in Task /\ t.lane = l /\ t.entry.ids = {} /\ IsSteer(t)
      BY DEF SteerTask, Task, Entry, IsSteer
    <3> HIDE DEF t
    <3>3. lanes'[t.lane].q = q
      BY <1>14, <3>2 DEF OtherLanes
    <3>4. Absent(lanes', queue, t.entry.ids) /\ Hindmost(lanes', queue, q, t)
      BY <2>2, <3>2 DEF Absent, Hindmost
    <3>5. /\ Tables(lanes', queue') /\ Placed(lanes', queue', msgs')
          /\ Holding(lanes', queue, lanes', queue', t.entry.ids)
          /\ Leading(lanes', queue, lanes', queue', IF IsSteer(t) THEN {} ELSE {Newest(t.entry)})
      BY <1>6, <1>14, <2>2, <3>1, <3>2, <3>3, <3>4, PushPlaced
    <3>6. \A p \in QId : queue'[p].stage = queue[p].stage
      BY <1>4, <3>1 DEF Joined, Tables, QueueRecord
    <3>7. AtGate(queue', gateWait')
      BY <1>4, <3>1, <3>6 DEF AtGate
    <3>8. \A x : Leads(lanes', queue', x) <=> Leads(lanes', queue, x)
      BY <3>2, <3>5 DEF Leading
    <3>9. \A x : Inside(lanes', queue, x) => Inside(lanes', queue', x)
      BY <3>5 DEF Holding
    <3> QED
      BY <1>16, <1>17, <3>5, <3>7, <3>8, <3>9 DEF Resources
  <2> QED
    BY <2>1, <2>2
<1>19. Phased'
  BY <1>1, <1>2, <1>4, <1>14 DEF Phased, Blank, OtherLanes
<1>20. Located'
  BY <1>2, <1>18 DEF Located, Accepted, Inside, Started
<1>21. owner' \in Owners /\ outcome' \in Outcomes /\ debounce' \in SUBSET Lane
  <2>1. owner' \in Owners
    BY <1>3, <1>4 DEF Release, Owners
  <2>2. outcome' \in Outcomes
    BY <1>3, <1>4 DEF Publish, Outcomes
  <2> QED
    BY <1>3, <1>4, <2>1, <2>2
<1>22. Len(msgs') <= MaxMsg
  BY <1>2, <1>5, QueueAssumption DEF Msg
<1> QED
  BY <1>2, <1>3, <1>4, <1>5, <1>18, <1>19, <1>20, <1>21, <1>22, Concluded

\* Enqueue, either way.
LEMMA EnqueueInd == ASSUME IndInv, NEW l \in Lane, Enqueue(l) PROVE IndInv'
  BY EnqueueTask, EnqueueCollected

\* The task of queue q, which is not at the gate, is over.
RetiredTo(qs, ps, q) ==
    /\ ps \in [QId -> QueueRecord]
    /\ \A p \in QId : p # q => ps[p] = qs[p]
    /\ qs[q].stage # "gate" /\ ps[q].waiting = qs[q].waiting
    /\ ps[q].stage \in {"ended", "leaving", "none"}
    /\ ps[q].stage # "none" => qs[q].stage # "none" /\ ps[q].run = qs[q].run

\* Lanes change only in their depth and in what executes.
RestedTo(ls, ks) ==
    /\ ks \in [Lane -> LaneRecord]
    /\ \A k \in Lane : /\ ks[k].q = ls[k].q /\ ks[k].exists = ls[k].exists
                       /\ ks[k].pendingEntries = ls[k].pendingEntries
                       /\ \/ ks[k].isExecuting = ls[k].isExecuting
                          \/ mode[k] = "steer" \/ ls[k].pendingEntries = <<>>

\* The places of other messages stay.
Losing(ls, qs, ks, ps, q) ==
    /\ \A m : Inside(ks, ps, m) => Inside(ls, qs, m)
    /\ \A m : Inside(ls, qs, m) =>
          Inside(ks, ps, m) \/ (Started(qs, q) /\ m \in qs[q].run.entry.ids)

\* A task that is over leaves the order of what else there is.
LEMMA Retires ==
  ASSUME NEW ls, NEW qs, NEW ks, NEW ps, NEW ms, NEW q \in QId,
         Tables(ls, qs), Placed(ls, qs, ms), RetiredTo(qs, ps, q), RestedTo(ls, ks)
  PROVE  /\ Tables(ks, ps) /\ Placed(ks, ps, ms)
         /\ Losing(ls, qs, ks, ps, q) /\ Leading(ls, qs, ks, ps, {})
<1>1. Tables(ks, ps)
  BY DEF Tables, RetiredTo, RestedTo
<1>2. \A p \in QId : /\ ps[p].waiting = qs[p].waiting
                     /\ ps[p].stage # "none" => qs[p].stage # "none" /\ ps[p].run = qs[p].run
                     /\ Started(ps, p) => p # q /\ Started(qs, p) /\ ps[p].run = qs[p].run
                     /\ Started(qs, p) => p = q \/ (Started(ps, p) /\ ps[p].run = qs[p].run)
  BY DEF RetiredTo, Started
<1>3. \A p \in QId : (ps[p].stage = "gate" <=> qs[p].stage = "gate")
                     /\ (ps[p].stage = "gate" => ps[p].run = qs[p].run)
  BY DEF RetiredTo
<1>4. \A k \in Lane : ks[k].pendingEntries = ls[k].pendingEntries
  BY DEF RestedTo
<1>5. Fewer(ls, qs, ks, ps)
  <2>1. \A p \in QId : Windows(ps[p].waiting, qs[p].waiting)
    <3> SUFFICES ASSUME NEW p \in QId PROVE Windows(qs[p].waiting, qs[p].waiting)
      BY <1>2
    <3>1. qs[p].waiting \in Seq(Task)
      BY DEF Tables, QueueRecord
    <3> QED
      BY <3>1 DEF Windows
  <2> QED
    BY <1>2, <2>1 DEF Fewer, RestedTo
<1>6. Placed(ks, ps, ms)
  BY <1>1, <1>5, FewerPlaced
<1>7. Losing(ls, qs, ks, ps, q)
  BY <1>2, <1>4 DEF Losing, Inside
<1>8. Leading(ls, qs, ks, ps, {})
  BY <1>2, <1>3, <1>4 DEF Leading, Leads
<1> QED
  BY <1>1, <1>6, <1>7, <1>8

\* The message of a handler that has started leads no entry.
LEMMA NotLeading ==
  ASSUME NEW ls, NEW qs, NEW ms, Tables(ls, qs), Placed(ls, qs, ms), NEW q \in QId,
         qs[q].stage = "exec", NEW m \in qs[q].run.entry.ids
  PROVE  ~Leads(ls, qs, m)
<1>1. Sole(ls, qs, m) /\ Started(qs, q)
  BY OnePlace DEF Started
<1>2. ASSUME NEW p \in QId, qs[p].stage = "gate", Newest(qs[p].run.entry) = m PROVE FALSE
  <2>1. Started(qs, p) /\ qs[p].run \in Task /\ OfLane(qs[p].run.entry, qs[p].run.lane, ms)
    BY <1>2 DEF Placed, RunHome, Started
  <2>2. m \in qs[p].run.entry.ids
    BY <1>2, <2>1, NewestIs DEF OfLane, Task, Entry
  <2> QED
    BY <1>1, <1>2, <2>1, <2>2 DEF Sole
<1>3. ASSUME NEW p \in QId, NEW i \in DOMAIN qs[p].waiting, ~IsSteer(qs[p].waiting[i]),
             Newest(qs[p].waiting[i].entry) = m
      PROVE  FALSE
  <2>1. qs[p].waiting[i] \in Task
    BY DEF Tables, QueueRecord
  <2>2. OfLane(qs[p].waiting[i].entry, qs[p].waiting[i].lane, ms)
    BY <1>3 DEF Placed, WaitHome
  <2>3. m \in qs[p].waiting[i].entry.ids
    BY <1>3, <2>1, <2>2, NewestIs DEF OfLane, Task, Entry
  <2> QED
    BY <1>1, <2>3 DEF Sole
<1>4. ASSUME NEW l \in Lane, NEW i \in DOMAIN ls[l].pendingEntries,
             Newest(ls[l].pendingEntries[i]) = m
      PROVE  FALSE
  <2>1. ls[l].pendingEntries[i] \in Entry /\ OfLane(ls[l].pendingEntries[i], l, ms)
    BY DEF Tables, LaneRecord, Placed, PendingHome
  <2>2. m \in ls[l].pendingEntries[i].ids
    BY <1>4, <2>1, NewestIs DEF OfLane, Entry
  <2> QED
    BY <1>1, <2>2 DEF Sole
<1> QED
  BY <1>2, <1>3, <1>4 DEF Leads

\* TakenAs, with the resources that are left.
Emptied(ls, qs, own, ks, ms, l, q, t) ==
    /\ TakenAs(ls, qs, ks, ms, l, q, t)
    /\ InHand(ks, qs, own, ms, t) /\ own \in Owners
    /\ OtherLanes(ls, ks, l) /\ ks[l].pendingEntries = <<>>

\* coalesceQueuedEntries takes the pending entries of a lane.
LEMMA Collected ==
  ASSUME NEW ls, NEW qs, NEW ms, NEW own \in Owners, NEW l \in Lane, NEW q \in QId, NEW ks,
         NEW t, NEW wn,
         Tables(ls, qs), Placed(ls, qs, ms), ls[l].pendingEntries # <<>>, ls[l].q = q,
         Resources(ls, qs, own, ms), ks = Cleared(ls, l),
         t = EntryTask(l, Coalesced(ls[l].pendingEntries)),
         wn = CoalescedOwner(ls[l].pendingEntries, own)
  PROVE  Emptied(ls, qs, wn, ks, ms, l, q, t)
<1>1. TakenAs(ls, qs, ks, ms, l, q, t)
  BY ClearedPlaced
<1>2. InHand(ks, qs, wn, ms, t)
  BY CoalescedInHand
<1>3. wn \in Owners
  BY DEF CoalescedOwner, Release, Owners
<1>4. OtherLanes(ls, ks, l) /\ ks[l].pendingEntries = <<>>
  <2>1. ls \in [Lane -> LaneRecord] /\ ls[l] \in LaneRecord
    BY DEF Tables
  <2> QED
    BY <2>1 DEF Cleared, OtherLanes, LaneRecord
<1> QED
  BY <1>1, <1>2, <1>3, <1>4 DEF Emptied

\* The handler ends; in collect mode what is pending becomes the last task.
LEMMA FinishInd == ASSUME IndInv, NEW q \in QId, Finish(q) PROVE IndInv'
<1> DEFINE l == queue[q].run.lane
           e == queue[q].run.entry
           d == lanes[l].logicalDepth - e.count
           es == lanes[l].pendingEntries
           collect == mode[l] = "collect" /\ es # <<>>
           t == EntryTask(l, Coalesced(es))
           qs == [queue EXCEPT ![q].stage = "ended"]
<1>1. /\ queue[q].stage = "exec" /\ outcome' = Publish(outcome, e.ids, "done")
      /\ UNCHANGED <<phase, config, gateWait, debounce, msgs>>
  BY Zenon DEF Finish
<1>lanes. lanes' = [lanes EXCEPT ![l].isExecuting = FALSE,
                                 ![l].logicalDepth = IF d < 0 THEN 0 ELSE d,
                                 ![l].pendingEntries = IF collect THEN <<>> ELSE @]
  BY Zenon DEF Finish
<1>owner. owner' = IF collect THEN CoalescedOwner(es, owner) ELSE owner
  BY Zenon DEF Finish
<1>queue. queue' = [queue EXCEPT ![q].stage = "ended",
                       ![q].waiting = IF collect THEN Append(@, t) ELSE @]
  BY Zenon DEF Finish
<1>2. /\ Tables(lanes, queue) /\ Placed(lanes, queue, msgs) /\ AtGate(queue, gateWait)
      /\ msgs \in Seq(Lane) /\ gateWait \in Seq(QId) /\ owner \in Owners /\ outcome \in Outcomes
      /\ debounce \in SUBSET Lane /\ mode \in [Lane -> Mode]
      /\ Resources(lanes, queue, owner, msgs)
  BY DEF IndInv, Types, Owners, Outcomes
<1>3. /\ Started(queue, q) /\ queue[q].run \in Task /\ lanes[l].q = q
      /\ l \in Lane /\ e \in Entry
  BY <1>1, <1>2 DEF Placed, RunHome, Task, Started
<1>4. (IF d < 0 THEN 0 ELSE d) \in Nat
  BY <1>2, <1>3 DEF Tables, LaneRecord, Entry
<1> DEFINE n == IF d < 0 THEN 0 ELSE d
<1> HIDE DEF n
<1>5. outcome' \in Outcomes
  BY <1>1, <1>2 DEF Publish, Outcomes
<1>6. lanes[l].exists \/ phase # "open"
  BY <1>3 DEF IndInv, Phased, NoLane, FreshLane, NoQueue, QId
<1>7. \A m \in 1 .. Len(msgs) : outcome'[m] = "none" => outcome[m] = "none" /\ m \notin e.ids
  <2>1. \A m \in 1 .. Len(msgs) : m \in Msg
    BY <1>2, QueueAssumption DEF IndInv, Types, Msg
  <2> QED
    BY <1>1, <2>1 DEF Publish
<1>8. CASE ~collect
  <2>1. queue' = [queue EXCEPT ![q].stage = "ended", ![q].waiting = queue[q].waiting]
    BY <1>queue, <1>8, Zenon
  <2>2. RetiredTo(queue, queue', q)
    <3>1. queue \in [QId -> QueueRecord] /\ queue[q] \in QueueRecord
      BY <1>2 DEF Tables
    <3>2. [queue[q] EXCEPT !.stage = "ended", !.waiting = queue[q].waiting] \in QueueRecord
      BY <3>1 DEF QueueRecord, Stage
    <3>3. /\ queue' \in [QId -> QueueRecord] /\ \A p \in QId : p # q => queue'[p] = queue[p]
          /\ queue'[q].stage = "ended" /\ queue'[q].waiting = queue[q].waiting
          /\ queue'[q].run = queue[q].run
      BY <2>1, <3>1, <3>2 DEF QueueRecord
    <3> QED
      BY <1>1, <3>3 DEF RetiredTo
  <2>3. /\ lanes' \in [Lane -> LaneRecord] /\ \A k \in Lane : k # l => lanes'[k] = lanes[k]
        /\ lanes'[l].q = lanes[l].q /\ lanes'[l].exists = lanes[l].exists
        /\ lanes'[l].pendingEntries = lanes[l].pendingEntries
    <3>1. lanes \in [Lane -> LaneRecord] /\ lanes[l] \in LaneRecord
      BY <1>2, <1>3 DEF Tables
    <3>2. lanes' = [lanes EXCEPT ![l] = [lanes[l] EXCEPT
                       !.isExecuting = FALSE, !.logicalDepth = n, !.pendingEntries = es]]
      BY <1>lanes, <1>8, Zenon DEF n
    <3>3. [lanes[l] EXCEPT !.isExecuting = FALSE, !.logicalDepth = n, !.pendingEntries = es]
             \in LaneRecord
      BY <1>4, <3>1 DEF LaneRecord, n
    <3> QED
      BY <1>3, <3>1, <3>2, <3>3 DEF LaneRecord
  <2>4. RestedTo(lanes, lanes')
    <3>1. mode[l] = "steer" \/ es = <<>>
      BY <1>2, <1>3, <1>8 DEF Placed, Collecting
    <3> QED
      BY <1>3, <2>3, <3>1 DEF RestedTo
  <2>5. /\ Tables(lanes', queue') /\ Placed(lanes', queue', msgs)
        /\ Losing(lanes, queue, lanes', queue', q) /\ Leading(lanes, queue, lanes', queue', {})
    BY <1>2, <2>2, <2>4, Retires
  <2>6. AtGate(queue', gateWait')
    <3>1. gateWait' = gateWait /\ gateWait \in Seq(QId)
      BY <1>1, <1>2
    <3>2. /\ \A i \in DOMAIN gateWait : queue[gateWait[i]].stage = "gate"
          /\ \A i, j \in DOMAIN gateWait : gateWait[i] = gateWait[j] => i = j
      BY <1>2 DEF AtGate
    <3>3. queue[q].stage # "gate" /\ \A p \in QId : p # q => queue'[p] = queue[p]
      BY <2>2 DEF RetiredTo
    <3>4. \A i \in DOMAIN gateWait : queue'[gateWait[i]].stage = "gate"
      BY <3>1, <3>2, <3>3
    <3> QED
      BY <3>1, <3>2, <3>4 DEF AtGate
  <2>7. Resources(lanes', queue', owner', msgs)
    <3>1. owner' = owner
      BY <1>owner, <1>8, Zenon
    <3> QED
      BY <1>1, <1>2, <2>5, <3>1 DEF Resources, Leading
  <2>8. \A k \in Lane : /\ lanes'[k].exists = lanes[k].exists
                        /\ lanes'[k].pendingEntries \in {lanes[k].pendingEntries, <<>>}
    BY <1>3, <2>3
  <2>9. ASSUME phase = "open"
        PROVE  \A k \in Lane : ~lanes[k].exists => lanes'[k] = lanes[k]
    BY <1>3, <1>6, <2>3, <2>9
  <2>10. Phased'
    <3>1. phase = "open" => \A k \in Lane : ~lanes'[k].exists => lanes'[k] = NoLane
      BY <2>8, <2>9 DEF IndInv, Phased
    <3>2. phase # "open" => \A k \in Lane : lanes'[k].pendingEntries = <<>>
      BY <2>8 DEF IndInv, Phased
    <3>3. phase # "open" => \A p \in QId : queue'[p].waiting = <<>> /\ queue'[p].stage # "gate"
      BY <2>2 DEF IndInv, Phased, RetiredTo
    <3> QED
      BY <1>1, <3>1, <3>2, <3>3 DEF IndInv, Phased
  <2>11. Located'
    <3>1. \A m \in 1 .. Len(msgs) : outcome'[m] = "none" =>
             phase = "open" /\ Inside(lanes', queue', m)
      BY <1>7, <2>5 DEF IndInv, Located, Accepted, Losing
    <3> QED
      BY <1>1, <3>1 DEF Located, Accepted, Inside, Started
  <2> QED
    <3>1. owner' = owner
      BY <1>owner, <1>8, Zenon
    <3> QED
      BY <1>1, <1>2, <1>5, <2>5, <2>6, <2>7, <2>10, <2>11, <3>1, Concluded DEF IndInv, Types
<1>9. CASE collect
  <2> DEFINE ks == Cleared(lanes, l)
             own == CoalescedOwner(es, owner)
  <2>1. phase = "open"
    BY <1>3, <1>9 DEF IndInv, Phased
  <2>2. lanes[l].exists
    BY <1>6, <2>1
  <2>3. Emptied(lanes, queue, own, ks, msgs, l, q, t)
    <3>1. lanes[l].pendingEntries # <<>>
      BY <1>9
    <3> QED
      BY <1>2, <1>3, <3>1, Collected
  <2>4. /\ Tables(ks, queue) /\ Placed(ks, queue, msgs)
        /\ t \in Task /\ t.lane = l /\ ~IsSteer(t) /\ OfLane(t.entry, l, msgs)
        /\ Absent(ks, queue, t.entry.ids) /\ Hindmost(ks, queue, q, t)
        /\ Holding(ks, queue, lanes, queue, t.entry.ids)
        /\ InHand(ks, queue, own, msgs, t) /\ own \in Owners
    BY <2>3 DEF Emptied, TakenAs
  <2>5. owner' = own
    BY <1>owner, <1>9, Zenon
  <2>6. RetiredTo(queue, qs, q)
    <3>1. queue \in [QId -> QueueRecord] /\ queue[q] \in QueueRecord
      BY <1>2 DEF Tables
    <3>2. [queue[q] EXCEPT !.stage = "ended"] \in QueueRecord
      BY <3>1 DEF QueueRecord, Stage
    <3> QED
      BY <1>1, <3>1, <3>2 DEF RetiredTo, QueueRecord
  <2>7. queue' = Joined(qs, q, t)
    <3>1. queue \in [QId -> QueueRecord] /\ queue[q] \in QueueRecord
      BY <1>2 DEF Tables
    <3>2. queue' = [queue EXCEPT ![q].stage = "ended", ![q].waiting = Append(queue[q].waiting, t)]
      BY <1>queue, <1>9, Zenon
    <3>3. Joined(qs, q, t) =
             [queue EXCEPT ![q].stage = "ended", ![q].waiting = Append(queue[q].waiting, t)]
      BY <3>1 DEF Joined, QueueRecord
    <3> QED
      BY <3>2, <3>3
  <2>8. /\ lanes' \in [Lane -> LaneRecord] /\ \A k \in Lane : k # l => lanes'[k] = ks[k]
        /\ lanes'[l].q = ks[l].q /\ lanes'[l].exists = ks[l].exists
        /\ lanes'[l].pendingEntries = <<>> /\ ks[l].pendingEntries = <<>>
        /\ \A k \in Lane : ks[k].q = lanes[k].q /\ ks[k].exists = lanes[k].exists
                           /\ (k # l => ks[k] = lanes[k])
    <3>1. lanes \in [Lane -> LaneRecord] /\ lanes[l] \in LaneRecord /\ <<>> \in Seq(Entry)
      BY <1>2, <1>3 DEF Tables
    <3>2. lanes' = [lanes EXCEPT ![l] = [lanes[l] EXCEPT
                       !.isExecuting = FALSE, !.logicalDepth = n, !.pendingEntries = <<>>]]
      BY <1>lanes, <1>9, Zenon DEF n
    <3>3. [lanes[l] EXCEPT !.isExecuting = FALSE, !.logicalDepth = n, !.pendingEntries = <<>>]
             \in LaneRecord
      BY <1>4, <3>1 DEF LaneRecord, n
    <3> QED
      BY <1>3, <3>1, <3>2, <3>3 DEF LaneRecord, Cleared
  <2> HIDE DEF ks, own, qs, t
  <2>9. RestedTo(ks, lanes')
    BY <1>3, <2>8 DEF RestedTo
  <2>10. /\ Tables(lanes', qs) /\ Placed(lanes', qs, msgs)
         /\ Losing(ks, queue, lanes', qs, q) /\ Leading(ks, queue, lanes', qs, {})
    BY <2>4, <2>6, <2>9, Retires
  <2>11. Absent(lanes', qs, t.entry.ids)
    BY <2>4, <2>10 DEF Absent, Losing
  <2>12. Hindmost(lanes', qs, q, t)
    <3>1. qs[q].waiting = queue[q].waiting /\ ~Started(qs, q)
      BY <2>6 DEF RetiredTo, Started
    <3>2. lanes'[t.lane].pendingEntries = <<>>
      BY <2>4, <2>8
    <3>3. DOMAIN lanes'[t.lane].pendingEntries = {}
      BY <3>2
    <3> QED
      BY <2>4, <3>1, <3>2, <3>3 DEF Hindmost
  <2>13. lanes'[t.lane].q = q
    BY <1>3, <2>4, <2>8
  <2>14. /\ Tables(lanes', queue') /\ Placed(lanes', queue', msgs)
         /\ Holding(lanes', qs, lanes', queue', t.entry.ids)
         /\ Leading(lanes', qs, lanes', queue', IF IsSteer(t) THEN {} ELSE {Newest(t.entry)})
    BY <2>4, <2>7, <2>10, <2>11, <2>12, <2>13, PushPlaced
  <2>15. Resources(lanes', queue', owner', msgs)
    BY <2>4, <2>5, <2>10, <2>14 DEF Resources, InHand, Leading
  <2>16. AtGate(queue', gateWait')
    <3>1. \A p \in QId : queue'[p].stage = qs[p].stage
      BY <2>7, <2>10 DEF Joined, Tables, QueueRecord
    <3>2. \A p \in QId : queue[p].stage = "gate" => queue'[p].stage = "gate"
      BY <2>6, <3>1 DEF RetiredTo
    <3>3. \A i \in DOMAIN gateWait : gateWait[i] \in QId
      BY <1>2
    <3> QED
      BY <1>1, <1>2, <3>2, <3>3 DEF AtGate
  <2>17. Phased'
    BY <1>1, <1>3, <2>1, <2>2, <2>8 DEF IndInv, Phased
  <2>18. Located'
    <3>1. \A m \in 1 .. Len(msgs) : outcome'[m] = "none" => Inside(lanes', queue', m)
      <4> SUFFICES ASSUME NEW m \in 1 .. Len(msgs), outcome'[m] = "none"
                   PROVE  Inside(lanes', queue', m)
        OBVIOUS
      <4>1. Inside(lanes, queue, m) /\ m \notin e.ids
        BY <1>7 DEF IndInv, Located, Accepted
      <4>2. Inside(ks, queue, m) \/ m \in t.entry.ids
        BY <2>4, <4>1 DEF Holding
      <4>3. Inside(lanes', qs, m) \/ m \in t.entry.ids
        BY <2>10, <4>1, <4>2 DEF Losing
      <4> QED
        BY <2>14, <4>3 DEF Holding
    <3> QED
      BY <1>1, <2>1, <3>1 DEF Located, Accepted, Inside, Started
  <2> QED
    BY <1>1, <1>2, <1>5, <2>1, <2>4, <2>5, <2>14, <2>15, <2>16, <2>17, <2>18, Concluded
       DEF IndInv, Types
<1> QED
  BY <1>8, <1>9

\* Nothing but the lane records of nobody's interest changes in an open queue.
LEMMA StillInd ==
  ASSUME IndInv, phase = "open", UNCHANGED <<phase, config, msgs, outcome>>,
         Tables(lanes', queue'), gateWait' \in Seq(QId), debounce' \in SUBSET Lane,
         owner' \in Owners,
         Placed(lanes', queue', msgs), AtGate(queue', gateWait'),
         Resources(lanes', queue', owner', msgs), Blank(lanes'),
         \A m : Inside(lanes, queue, m) => Inside(lanes', queue', m)
  PROVE  IndInv'
<1>1. Phased'
  BY DEF Phased, Blank
<1>2. Located'
  <2>1. \A m \in 1 .. Len(msgs) : outcome'[m] = "none" => Inside(lanes', queue', m)
    BY DEF IndInv, Located, Accepted
  <2> QED
    BY <2>1 DEF Located, Accepted, Inside, Started
<1>3. msgs' \in Seq(Lane) /\ Len(msgs') <= MaxMsg /\ outcome' \in Outcomes
  BY DEF IndInv, Types, Outcomes
<1> QED
  BY <1>1, <1>2, <1>3, Concluded

\* A slot of the gate is free, and goes to the first that waits for one.
LEMMA GateReleaseInd == ASSUME IndInv, NEW q \in QId, GateRelease(q) PROVE IndInv'
<1> DEFINE qs == [queue EXCEPT ![q].stage = "leaving"]
<1>1. queue[q].stage = "ended" /\ UNCHANGED <<phase, config, debounce, msgs, outcome>>
  BY DEF GateRelease
<1>2. /\ Tables(lanes, queue) /\ Placed(lanes, queue, msgs) /\ AtGate(queue, gateWait)
      /\ msgs \in Seq(Lane) /\ gateWait \in Seq(QId) /\ owner \in Owners /\ outcome \in Outcomes
      /\ debounce \in SUBSET Lane /\ Resources(lanes, queue, owner, msgs)
  BY DEF IndInv, Types, Owners, Outcomes
<1>3. queue \in [QId -> QueueRecord] /\ queue[q] \in QueueRecord
  BY <1>2 DEF Tables
<1>4. /\ qs \in [QId -> QueueRecord] /\ \A p \in QId : p # q => qs[p] = queue[p]
      /\ qs[q].stage = "leaving" /\ qs[q].waiting = queue[q].waiting /\ qs[q].run = queue[q].run
  <2>1. [queue[q] EXCEPT !.stage = "leaving"] \in QueueRecord
    BY <1>3 DEF QueueRecord, Stage
  <2> QED
    BY <1>3, <2>1 DEF QueueRecord
<1>5. RetiredTo(queue, qs, q)
  BY <1>1, <1>4 DEF RetiredTo
<1>6. RestedTo(lanes, lanes)
  BY <1>2 DEF RestedTo, Tables
<1> HIDE DEF qs
<1>7. /\ Tables(lanes, qs) /\ Placed(lanes, qs, msgs)
      /\ Losing(lanes, queue, lanes, qs, q) /\ Leading(lanes, queue, lanes, qs, {})
  BY <1>2, <1>5, <1>6, Retires
<1>8. \A m : Inside(lanes, qs, m) <=> Inside(lanes, queue, m)
  BY <1>1, <1>7 DEF Losing, Started
<1>9. AtGate(qs, gateWait)
  BY <1>2, <1>5 DEF AtGate, RetiredTo
<1>10. Resources(lanes, qs, owner, msgs)
  BY <1>2, <1>7 DEF Resources, Leading
<1>11. CASE gateWait = <<>> \/ phase # "open"
  <2>1. queue' = qs /\ lanes' = lanes /\ gateWait' = gateWait /\ owner' = owner
    BY <1>11 DEF GateRelease, qs
  <2>2. Phased'
    BY <1>1, <1>5, <2>1 DEF IndInv, Phased, RetiredTo
  <2>3. Located'
    <3>1. \A m \in 1 .. Len(msgs) : outcome'[m] = "none" =>
             phase = "open" /\ Inside(lanes', queue', m)
      BY <1>1, <1>8, <2>1 DEF IndInv, Located, Accepted
    <3> QED
      BY <1>1, <3>1 DEF Located, Accepted, Inside, Started
  <2> QED
    BY <1>1, <1>2, <1>7, <1>9, <1>10, <2>1, <2>2, <2>3, Concluded DEF IndInv, Types
<1>12. CASE ~(gateWait = <<>> \/ phase # "open")
  <2> DEFINE w == Head(gateWait)
             t == queue[w].run
             N == Newest(t.entry)
  <2>1. /\ queue' = [qs EXCEPT ![w].stage = "exec"] /\ gateWait' = Tail(gateWait)
        /\ lanes' = [lanes EXCEPT ![t.lane].isExecuting = TRUE]
        /\ owner' = [owner EXCEPT ![N] = "handler"]
    BY <1>12 DEF GateRelease, qs
  <2>2. /\ w \in QId /\ 1 \in DOMAIN gateWait /\ w = gateWait[1]
        /\ gateWait' \in Seq(QId)
        /\ \A i \in DOMAIN gateWait' : /\ i \in Nat /\ i >= 1 /\ i + 1 \in DOMAIN gateWait
                                       /\ gateWait'[i] = gateWait[i + 1]
    BY <1>2, <1>12, <2>1
  <2>3. queue[w].stage = "gate" /\ w # q /\ qs[w] = queue[w] /\ qs[w].stage = "gate"
    BY <1>1, <1>2, <1>4, <2>2 DEF AtGate
  <2>4. t \in Task /\ lanes[t.lane].q = w /\ OfLane(t.entry, t.lane, msgs)
    BY <1>2, <2>2, <2>3 DEF Placed, RunHome, Started
  <2>5. t.lane \in Lane /\ t.entry \in Entry
    BY <2>4 DEF Task
  <2>6. N \in t.entry.ids /\ N \in Msg /\ N \in 1 .. Len(msgs)
    BY <2>4, <2>5, NewestIs DEF OfLane, Entry
  <2> HIDE DEF w
  <2>7. /\ queue' \in [QId -> QueueRecord] /\ \A p \in QId : p # w => queue'[p] = qs[p]
        /\ queue'[w].stage = "exec" /\ queue'[w].waiting = qs[w].waiting /\ queue'[w].run = t
    <3>1. [qs[w] EXCEPT !.stage = "exec"] \in QueueRecord
      BY <1>4, <2>2, ZenonT(30) DEF QueueRecord, Stage
    <3> QED
      BY <1>4, <2>1, <2>2, <2>3, <3>1 DEF QueueRecord
  <2> HIDE DEF t, N
  <2>8. /\ lanes' \in [Lane -> LaneRecord] /\ \A k \in Lane : k # t.lane => lanes'[k] = lanes[k]
        /\ \A k \in Lane : /\ lanes'[k].q = lanes[k].q /\ lanes'[k].exists = lanes[k].exists
                           /\ lanes'[k].pendingEntries = lanes[k].pendingEntries
                           /\ lanes'[k].isExecuting \/ lanes'[k].isExecuting = lanes[k].isExecuting
    <3>1. lanes \in [Lane -> LaneRecord] /\ lanes[t.lane] \in LaneRecord
      BY <1>2, <2>5 DEF Tables
    <3>2. [lanes[t.lane] EXCEPT !.isExecuting = TRUE] \in LaneRecord
      BY <3>1 DEF LaneRecord
    <3> QED
      BY <2>1, <2>5, <3>1, <3>2 DEF LaneRecord
  <2>9. Tables(lanes', queue')
    BY <2>7, <2>8 DEF Tables
  <2>10. \A p \in QId : /\ queue'[p].waiting = qs[p].waiting
                        /\ queue'[p].run = qs[p].run
                        /\ queue'[p].stage # "none" => qs[p].stage # "none"
                        /\ Started(queue', p) <=> Started(qs, p)
    BY <2>3, <2>7 DEF Started, t
  <2>11. Fewer(lanes, qs, lanes', queue')
    <3>1. \A p \in QId : Windows(queue'[p].waiting, qs[p].waiting)
      <4> SUFFICES ASSUME NEW p \in QId PROVE Windows(qs[p].waiting, qs[p].waiting)
        BY <2>10
      <4>1. qs[p].waiting \in Seq(Task)
        BY <1>7 DEF Tables, QueueRecord
      <4> QED
        BY <4>1 DEF Windows
    <3> QED
      BY <2>8, <2>10, <3>1 DEF Fewer
  <2>12. Placed(lanes', queue', msgs)
    BY <1>7, <2>9, <2>11, FewerPlaced
  <2>13. \A m : Inside(lanes', queue', m) <=> Inside(lanes, qs, m)
    BY <2>8, <2>10 DEF Inside
  <2>14. \A m : m # N => (Leads(lanes', queue', m) <=> Leads(lanes, qs, m))
    BY <2>3, <2>7, <2>8, <2>10 DEF Leads, t, N
  <2>15. ~Leads(lanes', queue', N)
    BY <2>2, <2>6, <2>7, <2>9, <2>12, NotLeading
  <2>16. Resources(lanes', queue', owner', msgs)
    <3>1. \A m \in Msg : owner'[m] = "queue" <=> owner[m] = "queue" /\ m # N
      BY <1>2, <2>1, <2>6 DEF Owners
    <3> QED
      BY <1>10, <2>6, <2>14, <2>15, <3>1 DEF Resources
  <2>17. AtGate(queue', gateWait')
    <3>1. \A i \in DOMAIN gateWait' : gateWait'[i] \in QId /\ gateWait'[i] # w
      BY <1>2, <2>2 DEF AtGate
    <3>2. \A i \in DOMAIN gateWait' : queue'[gateWait'[i]].stage = "gate"
      BY <1>9, <2>2, <2>7, <3>1 DEF AtGate
    <3>3. \A i, j \in DOMAIN gateWait' : gateWait'[i] = gateWait'[j] => i = j
      <4> SUFFICES ASSUME NEW i \in DOMAIN gateWait', NEW j \in DOMAIN gateWait',
                          gateWait'[i] = gateWait'[j]
                   PROVE  i = j
        OBVIOUS
      <4>1. i + 1 = j + 1
        BY <1>2, <2>2 DEF AtGate
      <4> QED
        BY <2>2, <4>1
    <3> QED
      BY <3>2, <3>3 DEF AtGate
  <2>18. Blank(lanes')
    <3>1. lanes[t.lane].exists
      BY <1>12, <2>2, <2>4, <2>5 DEF IndInv, Phased, NoLane, FreshLane, NoQueue, QId, t
    <3> QED
      BY <1>12, <2>8, <3>1 DEF IndInv, Phased, Blank
  <2>19. owner' \in Owners
    BY <1>2, <2>1, <2>6 DEF Owners
  <2>20. \A m : Inside(lanes, queue, m) => Inside(lanes', queue', m)
    BY <1>8, <2>13
  <2> QED
    BY <1>1, <1>2, <1>12, <2>2, <2>9, <2>12, <2>16, <2>17, <2>18, <2>19, <2>20, StillInd
<1> QED
  BY <1>11, <1>12

\* The queue of a session goes on to its next task, or rests.
LEMMA SessionNextInd == ASSUME IndInv, NEW q \in QId, SessionNext(q) PROVE IndInv'
<1>1. queue[q].stage = "leaving" /\ UNCHANGED <<phase, config, debounce, msgs, outcome>>
  BY DEF SessionNext
<1>2. /\ Tables(lanes, queue) /\ Placed(lanes, queue, msgs) /\ AtGate(queue, gateWait)
      /\ msgs \in Seq(Lane) /\ Len(msgs) <= MaxMsg
      /\ gateWait \in Seq(QId) /\ owner \in Owners /\ outcome \in Outcomes
      /\ debounce \in SUBSET Lane /\ Resources(lanes, queue, owner, msgs)
  BY DEF IndInv, Types, Owners, Outcomes
<1>3. queue \in [QId -> QueueRecord] /\ queue[q] \in QueueRecord /\ ~Started(queue, q)
  BY <1>1, <1>2 DEF Tables, Started
<1>4. CASE queue[q].waiting = <<>> \/ phase # "open"
  <2>1. /\ queue' = [queue EXCEPT ![q].stage = "none", ![q].run = NoTask]
        /\ lanes' = lanes /\ gateWait' = gateWait /\ owner' = owner
    BY <1>4 DEF SessionNext
  <2>2. /\ queue' \in [QId -> QueueRecord] /\ \A p \in QId : p # q => queue'[p] = queue[p]
        /\ queue'[q].stage = "none" /\ queue'[q].waiting = queue[q].waiting
    <3>1. queue' = [queue EXCEPT ![q] = [queue[q] EXCEPT !.stage = "none", !.run = NoTask]]
      BY <1>3, <2>1
    <3>2. [queue[q] EXCEPT !.stage = "none", !.run = NoTask] \in QueueRecord
      BY <1>3 DEF QueueRecord, Stage
    <3> QED
      BY <1>3, <3>1, <3>2 DEF QueueRecord
  <2>3. RetiredTo(queue, queue', q)
    BY <1>1, <2>2 DEF RetiredTo
  <2>4. RestedTo(lanes, lanes)
    BY <1>2 DEF RestedTo, Tables
  <2>5. /\ Tables(lanes, queue') /\ Placed(lanes, queue', msgs)
        /\ Losing(lanes, queue, lanes, queue', q) /\ Leading(lanes, queue, lanes, queue', {})
    BY <1>2, <2>3, <2>4, Retires
  <2>6. \A m : Inside(lanes, queue', m) <=> Inside(lanes, queue, m)
    BY <1>3, <2>5 DEF Losing
  <2>7. AtGate(queue', gateWait)
    BY <1>2, <2>3 DEF AtGate, RetiredTo
  <2>8. Resources(lanes, queue', owner, msgs)
    BY <1>2, <2>5 DEF Resources, Leading
  <2>9. Phased'
    BY <1>1, <2>1, <2>3 DEF IndInv, Phased, RetiredTo
  <2>10. Located'
    <3>1. \A m \in 1 .. Len(msgs) : outcome'[m] = "none" =>
             phase = "open" /\ Inside(lanes', queue', m)
      BY <1>1, <2>1, <2>6 DEF IndInv, Located, Accepted
    <3> QED
      BY <1>1, <3>1 DEF Located, Accepted, Inside, Started
  <2> QED
    BY <1>1, <1>2, <2>1, <2>5, <2>7, <2>8, <2>9, <2>10, Concluded DEF IndInv, Types
<1>5. CASE queue[q].waiting # <<>> /\ phase = "open"
  <2> DEFINE h == Head(queue[q].waiting)
             qs == Taken(queue, q)
             es == lanes[h.lane].pendingEntries
  <2>1. IF ~IsSteer(h) THEN RunThroughGate(qs, lanes, owner, q, h)
        ELSE IF es = <<>> THEN queue' = qs /\ UNCHANGED <<lanes, gateWait, owner>>
        ELSE RunThroughGate(qs, [lanes EXCEPT ![h.lane].pendingEntries = <<>>],
                            CoalescedOwner(es, owner), q, EntryTask(h.lane, Coalesced(es)))
    BY <1>5 DEF SessionNext, Taken
  <2>2. /\ Tables(lanes, qs) /\ Placed(lanes, qs, msgs)
        /\ h \in Task /\ lanes[h.lane].q = q
        /\ IF IsSteer(h) THEN mode[h.lane] = "steer" ELSE OfLane(h.entry, h.lane, msgs)
        /\ Absent(lanes, qs, h.entry.ids) /\ Foremost(lanes, qs, q, h)
        /\ Holding(lanes, qs, lanes, queue, h.entry.ids)
        /\ Leading(lanes, qs, lanes, queue, IF IsSteer(h) THEN {} ELSE {Newest(h.entry)})
        /\ \A p \in QId : qs[p].run = queue[p].run /\ qs[p].stage = queue[p].stage
    <3>1. FirstTaken(lanes, queue, qs, msgs, q)
      BY <1>2, <1>5, TakenPlaced
    <3> QED
      BY <3>1 DEF FirstTaken
  <2> HIDE DEF h, qs
  <2>3. AtGate(qs, gateWait) /\ ~Started(qs, q) /\ h.lane \in Lane
    <3>1. \A i \in DOMAIN gateWait : gateWait[i] \in QId
      BY <1>2
    <3> QED
      BY <1>2, <1>3, <2>2, <3>1 DEF AtGate, Started, Task
  <2>4. Blank(lanes)
    BY <1>5 DEF IndInv, Phased, Blank
  <2>5. \A m \in 1 .. Len(msgs) : outcome'[m] = "none" => Inside(lanes, qs, m) \/ m \in h.entry.ids
    BY <1>1, <2>2 DEF IndInv, Located, Accepted, Holding
  <2>6. CASE ~IsSteer(h)
    <3>1. InHand(lanes, qs, owner, msgs, h)
      BY <1>2, <2>2, <2>6 DEF InHand, Resources, Leading
    <3>2. Ready(lanes, qs, owner, msgs, q, h)
      BY <1>2, <2>2, <2>3, <2>6, <3>1 DEF Ready
    <3>3. Entered(lanes, qs, msgs, h)
      BY <2>1, <2>2, <2>3, <2>6, <3>2, ThroughGate
    <3> QED
      BY <1>1, <1>2, <1>5, <2>2, <2>3, <2>4, <2>5, <3>3, EnteredInd
  <2>7. CASE IsSteer(h)
    <3>1. \A m : Inside(lanes, queue, m) <=> Inside(lanes, qs, m)
      BY <2>2, <2>7 DEF Holding, IsSteer
    <3>2. Resources(lanes, qs, owner, msgs)
      BY <1>2, <2>2, <2>7 DEF Resources, Leading
    <3>3. CASE es = <<>>
      <4>1. queue' = qs /\ lanes' = lanes /\ gateWait' = gateWait /\ owner' = owner
        BY <2>1, <2>7, <3>3
      <4> QED
        BY <1>1, <1>2, <1>5, <2>2, <2>3, <2>4, <3>1, <3>2, <4>1, StillInd
    <3>4. CASE es # <<>>
      <4> DEFINE ks == Cleared(lanes, h.lane)
                 t == EntryTask(h.lane, Coalesced(es))
                 own == CoalescedOwner(es, owner)
      <4>1. RunThroughGate(qs, ks, own, q, t)
        BY <2>1, <2>7, <3>4 DEF Cleared
      <4>2. Emptied(lanes, qs, own, ks, msgs, h.lane, q, t)
        BY <1>2, <2>2, <2>3, <3>2, <3>4, Collected
      <4> HIDE DEF ks, t, own
      <4>3. /\ Tables(ks, qs) /\ Placed(ks, qs, msgs) /\ t \in Task /\ t.lane = h.lane
            /\ OfLane(t.entry, h.lane, msgs) /\ Absent(ks, qs, t.entry.ids)
            /\ Holding(ks, qs, lanes, qs, t.entry.ids)
            /\ InHand(ks, qs, own, msgs, t) /\ own \in Owners
            /\ OtherLanes(lanes, ks, h.lane)
        BY <4>2 DEF Emptied, TakenAs
      <4>4. ks[h.lane].q = q /\ Blank(ks)
        <5>1. lanes[h.lane].exists
          BY <2>2, <2>3, <2>4 DEF Blank, NoLane, FreshLane, NoQueue, QId
        <5> QED
          BY <2>2, <2>3, <2>4, <4>3, <5>1 DEF OtherLanes, Blank
      <4>5. Ready(ks, qs, own, msgs, q, t)
        BY <1>2, <2>3, <4>3, <4>4 DEF Ready
      <4>6. Foremost(ks, qs, q, t)
        BY <2>2, <2>7, <4>3 DEF Foremost
      <4>7. Entered(ks, qs, msgs, t)
        BY <2>3, <4>1, <4>5, <4>6, ThroughGate
      <4>8. \A m \in 1 .. Len(msgs) : outcome'[m] = "none" => Inside(ks, qs, m) \/ m \in t.entry.ids
        BY <2>5, <2>7, <4>3 DEF Holding, IsSteer
      <4> QED
        BY <1>1, <1>2, <1>5, <2>3, <4>3, <4>4, <4>7, <4>8, EnteredInd
    <3> QED
      BY <3>3, <3>4
  <2> QED
    BY <2>6, <2>7
<1> QED
  BY <1>4, <1>5

\* The debounce timer of a lane makes what is pending a task.
LEMMA DebounceFiresInd == ASSUME IndInv, NEW l \in Lane, DebounceFires(l) PROVE IndInv'
<1> DEFINE es == lanes[l].pendingEntries
           q == lanes[l].q
           ks == Cleared(lanes, l)
           t == EntryTask(l, Coalesced(es))
           own == CoalescedOwner(es, owner)
<1>1. /\ l \in debounce /\ debounce' = debounce \ {l} /\ UNCHANGED <<phase, config, msgs, outcome>>
      /\ IF lanes[l].isExecuting \/ es = <<>> THEN UNCHANGED <<lanes, queue, gateWait, owner>>
         ELSE Schedule(queue, ks, own, q, t)
  BY DEF DebounceFires, Cleared
<1>2. /\ Tables(lanes, queue) /\ Placed(lanes, queue, msgs) /\ AtGate(queue, gateWait)
      /\ msgs \in Seq(Lane) /\ Len(msgs) <= MaxMsg
      /\ gateWait \in Seq(QId) /\ owner \in Owners /\ outcome \in Outcomes
      /\ debounce' \in SUBSET Lane /\ Resources(lanes, queue, owner, msgs)
  BY <1>1 DEF IndInv, Types, Owners, Outcomes
<1>3. phase = "open" /\ Blank(lanes)
  BY <1>1 DEF IndInv, Phased, Blank
<1>4. CASE lanes[l].isExecuting \/ es = <<>>
  BY <1>1, <1>2, <1>3, <1>4, StillInd
<1>5. CASE ~(lanes[l].isExecuting \/ es = <<>>)
  <2>1. Schedule(queue, ks, own, q, t)
    BY <1>1, <1>5
  <2>2. lanes[l].exists /\ q \in QId
    <3>1. lanes[l].exists
      BY <1>3, <1>5 DEF Blank, NoLane, FreshLane
    <3> QED
      BY <1>2, <3>1 DEF Placed, Shared, Tables, LaneRecord
  <2>3. Emptied(lanes, queue, own, ks, msgs, l, q, t)
    BY <1>2, <1>5, <2>2, Collected
  <2> HIDE DEF ks, t, own
  <2>4. /\ Tables(ks, queue) /\ Placed(ks, queue, msgs) /\ t \in Task /\ t.lane = l
        /\ OfLane(t.entry, l, msgs) /\ Absent(ks, queue, t.entry.ids) /\ Hindmost(ks, queue, q, t)
        /\ Holding(ks, queue, lanes, queue, t.entry.ids)
        /\ InHand(ks, queue, own, msgs, t) /\ own \in Owners
        /\ OtherLanes(lanes, ks, l)
    BY <2>3 DEF Emptied, TakenAs
  <2>5. ks[l].q = q /\ Blank(ks)
    BY <1>3, <2>2, <2>4 DEF OtherLanes, Blank
  <2>6. Ready(ks, queue, own, msgs, q, t)
    BY <1>2, <2>4, <2>5 DEF Ready
  <2>7. Entered(ks, queue, msgs, t)
    BY <2>1, <2>2, <2>4, <2>6, Scheduled
  <2>8. \A m \in 1 .. Len(msgs) : outcome'[m] = "none" => Inside(ks, queue, m) \/ m \in t.entry.ids
    BY <1>1, <2>4 DEF IndInv, Located, Accepted, Holding
  <2> QED
    BY <1>1, <1>2, <1>3, <2>2, <2>4, <2>5, <2>7, <2>8, EnteredInd
<1> QED
  BY <1>4, <1>5

\* The record of a lane that does not exist.
LEMMA NoLaneIs ==
  /\ NoLane \in LaneRecord /\ NoLane.pendingEntries = <<>> /\ NoLane.q = NoQueue
  /\ NoLane.exists = FALSE
<1>1. <<>> \in Seq(Entry)
  OBVIOUS
<1> DEFINE f == FreshLane(NoQueue)
<1>2. f \in LaneRecord /\ f.q = NoQueue /\ f.pendingEntries = <<>>
  BY <1>1 DEF FreshLane, LaneRecord
<1> HIDE DEF f
<1>3. NoLane = [f EXCEPT !.exists = FALSE]
  BY DEF NoLane, f
<1> QED
  BY <1>2, <1>3 DEF LaneRecord

\* An idle lane is one no task is of.
LEMMA CleanupSweepInd == ASSUME IndInv, NEW l \in Lane, CleanupSweep(l) PROVE IndInv'
<1> DEFINE q == lanes[l].q
<1>1. /\ phase = "open" /\ lanes[l].exists /\ lanes[l].pendingEntries = <<>>
      /\ queue[q].stage = "none" /\ queue[q].waiting = <<>>
      /\ lanes' = [lanes EXCEPT ![l] = NoLane] /\ debounce' = debounce \ {l}
      /\ UNCHANGED <<phase, config, queue, gateWait, msgs, outcome, owner>>
  BY DEF CleanupSweep, IdleLane, Idle
<1>2. /\ Tables(lanes, queue) /\ Placed(lanes, queue, msgs) /\ AtGate(queue, gateWait)
      /\ gateWait \in Seq(QId) /\ owner \in Owners
      /\ debounce' \in SUBSET Lane /\ Resources(lanes, queue, owner, msgs)
  BY <1>1 DEF IndInv, Types, Owners
<1>3. /\ NoLane \in LaneRecord /\ NoLane.pendingEntries = <<>> /\ NoLane.q = NoQueue
      /\ NoLane.exists = FALSE
  BY NoLaneIs
<1> DEFINE ks == lanes'
<1>4. /\ ks \in [Lane -> LaneRecord] /\ ks[l] = NoLane
      /\ \A k \in Lane : k # l => ks[k] = lanes[k]
  BY <1>1, <1>2, <1>3 DEF Tables
<1> HIDE DEF ks
<1>5. Tables(ks, queue)
  BY <1>2, <1>4 DEF Tables
<1>6. \A k \in Lane : ks[k].pendingEntries = lanes[k].pendingEntries
  BY <1>1, <1>3, <1>4
<1>7. \A p \in QId : queue[p].stage # "none" =>
         queue[p].run \in Task /\ queue[p].run.lane # l /\ ks[queue[p].run.lane] = lanes[queue[p].run.lane]
  <2> SUFFICES ASSUME NEW p \in QId, queue[p].stage # "none"
               PROVE  queue[p].run \in Task /\ queue[p].run.lane # l
    BY <1>4 DEF Task
  <2>1. queue[p].run \in Task /\ lanes[queue[p].run.lane].q = p
    BY <1>2 DEF Placed, RunHome
  <2> QED
    BY <1>1, <2>1
<1>8. \A p \in QId : \A i \in DOMAIN queue[p].waiting :
         /\ queue[p].waiting[i] \in Task /\ queue[p].waiting[i].lane # l
         /\ ks[queue[p].waiting[i].lane] = lanes[queue[p].waiting[i].lane]
  <2> SUFFICES ASSUME NEW p \in QId, NEW i \in DOMAIN queue[p].waiting
               PROVE  queue[p].waiting[i] \in Task /\ queue[p].waiting[i].lane # l
    BY <1>4 DEF Task
  <2>1. queue[p].waiting[i] \in Task
    BY <1>2 DEF Tables, QueueRecord
  <2>2. lanes[queue[p].waiting[i].lane].q = p
    BY <1>2 DEF Placed, WaitHome
  <2> QED
    BY <1>1, <2>1, <2>2
<1>9. Placed(ks, queue, msgs)
  <2>1. Shared(ks)
    BY <1>2, <1>3, <1>4 DEF Placed, Shared
  <2>2. RunHome(ks, queue, msgs)
    BY <1>2, <1>7 DEF Placed, RunHome
  <2>3. WaitHome(ks, queue, msgs)
    BY <1>2, <1>8 DEF Placed, WaitHome
  <2>4. PendingHome(ks, msgs) /\ PendingApart(ks, queue)
    BY <1>2, <1>6 DEF Placed, PendingHome, PendingApart
  <2>5. Apart(ks, queue)
    BY <1>2 DEF Placed, Apart
  <2>6. Ordered(ks, queue)
    <3>1. \A p \in QId : \A i \in DOMAIN queue[p].waiting :
             ks[queue[p].waiting[i].lane].pendingEntries
                = lanes[queue[p].waiting[i].lane].pendingEntries
      BY <1>8
    <3> QED
      BY <1>2, <3>1 DEF Placed, Ordered
  <2>7. RunOrdered(ks, queue)
    BY <1>2, <1>7 DEF Placed, RunOrdered, Started
  <2>8. Collecting(ks)
    BY <1>2, <1>3, <1>4 DEF Placed, Collecting
  <2> QED
    BY <2>1, <2>2, <2>3, <2>4, <2>5, <2>6, <2>7, <2>8 DEF Placed
<1>10. \A m : Inside(lanes, queue, m) => Inside(ks, queue, m)
  BY <1>6 DEF Inside
<1>11. \A m : Leads(ks, queue, m) <=> Leads(lanes, queue, m)
  BY <1>6 DEF Leads
<1>12. Resources(ks, queue, owner, msgs)
  BY <1>2, <1>11 DEF Resources
<1>13. Blank(ks)
  BY <1>1, <1>4 DEF IndInv, Phased, Blank
<1> QED
  BY <1>1, <1>2, <1>5, <1>9, <1>10, <1>12, <1>13, StillInd DEF ks

\* What performShutdown finds: tasks not started, pending entries, handlers.
InTasks == UNION {MsgsOf([i \in 1 .. Len(NotStarted(q)) |-> NotStarted(q)[i].entry]) : q \in QId}
InLanes == UNION {MsgsOf(lanes[l].pendingEntries) : l \in {k \in Lane : lanes[k].exists}}
InHandlers == UNION {queue[q].run.entry.ids : q \in {p \in QId : queue[p].stage = "exec"}}

\* performShutdown finds every message, wherever it is.
LEMMA FindsAll ==
  ASSUME IndInv, phase = "open", NEW m
  PROVE  m \in InTasks \cup InLanes \cup InHandlers <=> Inside(lanes, queue, m)
<1>1. Types /\ Tables(lanes, queue) /\ Placed(lanes, queue, msgs)
  BY DEF IndInv, Types
<1>2. \A q \in QId : queue[q].stage = "gate" => queue[q].run \in Task
  BY <1>1 DEF Placed, RunHome
<1>3. m \in InTasks <=> \E q \in QId :
         \/ \E i \in DOMAIN queue[q].waiting : m \in queue[q].waiting[i].entry.ids
         \/ queue[q].stage = "gate" /\ m \in queue[q].run.entry.ids
  <2> DEFINE es(q) == [i \in 1 .. Len(NotStarted(q)) |-> NotStarted(q)[i].entry]
  <2>1. ASSUME NEW q \in QId
        PROVE  m \in MsgsOf(es(q)) <=>
                  \/ \E i \in DOMAIN queue[q].waiting : m \in queue[q].waiting[i].entry.ids
                  \/ queue[q].stage = "gate" /\ m \in queue[q].run.entry.ids
    <3>1. NotStarted(q) \in Seq(Task)
      BY <1>1, <1>2, NotStartedIs
    <3>2. \A t : t \in Range(NotStarted(q)) <=>
             \/ \E i \in DOMAIN queue[q].waiting : t = queue[q].waiting[i]
             \/ queue[q].stage = "gate" /\ t = queue[q].run
      BY <1>1, <1>2, NotStartedIs
    <3>3. /\ DOMAIN NotStarted(q) = 1 .. Len(NotStarted(q)) /\ Len(NotStarted(q)) \in Nat
          /\ \A i \in DOMAIN NotStarted(q) : NotStarted(q)[i] \in Task
      BY <3>1
    <3>4. es(q) \in Seq(Entry) /\ DOMAIN es(q) = DOMAIN NotStarted(q)
          /\ \A i \in DOMAIN es(q) : es(q)[i] = NotStarted(q)[i].entry
      BY <3>3 DEF Task
    <3>5. m \in MsgsOf(es(q)) <=> \E i \in DOMAIN es(q) : m \in es(q)[i].ids
      <4> HIDE DEF es
      <4> QED
        BY <3>4, MsgsOfIs
    <3>6. m \in MsgsOf(es(q)) <=> \E t \in Range(NotStarted(q)) : m \in t.entry.ids
      <4> HIDE DEF es
      <4> QED
        BY <3>4, <3>5 DEF Range
    <3> HIDE DEF es
    <3> QED
      BY <3>2, <3>6
  <2>2. m \in InTasks <=> \E q \in QId : m \in MsgsOf(es(q))
    BY DEF InTasks
  <2> HIDE DEF es
  <2> QED
    BY <2>1, <2>2
<1>4. m \in InLanes <=> \E l \in Lane : \E i \in DOMAIN lanes[l].pendingEntries :
         m \in lanes[l].pendingEntries[i].ids
  <2>1. \A l \in Lane : lanes[l].pendingEntries \in Seq(Entry)
    BY <1>1 DEF Tables, LaneRecord
  <2>2. \A l \in Lane : m \in MsgsOf(lanes[l].pendingEntries) <=>
           \E i \in DOMAIN lanes[l].pendingEntries : m \in lanes[l].pendingEntries[i].ids
    BY <2>1, MsgsOfIs
  <2>3. \A l \in Lane : ~lanes[l].exists => lanes[l].pendingEntries = <<>>
    BY DEF IndInv, Phased, NoLane, FreshLane
  <2>4. m \in InLanes <=> \E l \in Lane : lanes[l].exists /\ m \in MsgsOf(lanes[l].pendingEntries)
    BY DEF InLanes
  <2> QED
    BY <2>2, <2>3, <2>4
<1>5. m \in InHandlers <=> \E q \in QId : queue[q].stage = "exec" /\ m \in queue[q].run.entry.ids
  BY DEF InHandlers
<1> QED
  BY <1>3, <1>4, <1>5 DEF Inside, Started

\* The shutdown begins: nothing waits any more, and all is settled.
LEMMA ShutdownBeginInd == ASSUME IndInv, ShutdownBegin PROVE IndInv'
<1> DEFINE R == InTasks \cup InLanes
           S == R \cup InHandlers
<1>1. /\ phase = "open" /\ phase' = "closing" /\ UNCHANGED <<config, msgs>>
      /\ outcome' = Publish(Publish(outcome, R, "rejected"), InHandlers, "aborted")
      /\ owner' = [m \in Msg |-> IF m \in S THEN "released" ELSE owner[m]]
      /\ lanes' = [l \in Lane |-> [lanes[l] EXCEPT !.pendingEntries = <<>>]]
      /\ queue' = [q \in QId |-> [queue[q] EXCEPT !.waiting = <<>>,
                                     !.stage = IF @ = "gate" THEN "none" ELSE @]]
      /\ gateWait' = <<>> /\ debounce' = {}
  BY DEF ShutdownBegin, InTasks, InLanes, InHandlers
<1>2. \A m : m \in S <=> Inside(lanes, queue, m)
  BY <1>1, FindsAll
<1>3. /\ Tables(lanes, queue) /\ Placed(lanes, queue, msgs)
      /\ msgs \in Seq(Lane) /\ Len(msgs) <= MaxMsg /\ owner \in Owners /\ outcome \in Outcomes
      /\ Resources(lanes, queue, owner, msgs)
  BY DEF IndInv, Types, Owners, Outcomes
<1>4. phase' = "closing" /\ gateWait' = <<>> /\ debounce' = {} /\ msgs' = msgs
  BY <1>1
<1>18. Accepted = 1 .. Len(msgs) /\ Accepted \in SUBSET Msg
  BY <1>3, QueueAssumption DEF Accepted, Msg
<1>5. /\ lanes' \in [Lane -> LaneRecord]
      /\ \A l \in Lane : /\ lanes'[l].q = lanes[l].q /\ lanes'[l].exists = lanes[l].exists
                         /\ lanes'[l].pendingEntries = <<>>
  <2>1. \A l \in Lane : [lanes[l] EXCEPT !.pendingEntries = <<>>] \in LaneRecord
    <3> SUFFICES ASSUME NEW l \in Lane PROVE [lanes[l] EXCEPT !.pendingEntries = <<>>] \in LaneRecord
      OBVIOUS
    <3>1. lanes[l] \in LaneRecord /\ <<>> \in Seq(Entry)
      BY <1>3 DEF Tables
    <3> QED
      BY <3>1 DEF LaneRecord
  <2>2. \A l \in Lane : lanes[l] \in LaneRecord
    BY <1>3 DEF Tables
  <2> QED
    BY <1>1, <2>1, <2>2 DEF LaneRecord
<1>6. /\ queue' \in [QId -> QueueRecord]
      /\ \A q \in QId : /\ queue'[q].waiting = <<>> /\ queue'[q].run = queue[q].run
                        /\ queue'[q].stage = IF queue[q].stage = "gate" THEN "none" ELSE queue[q].stage
  <2> DEFINE r(q) == [queue[q] EXCEPT !.waiting = <<>>, !.stage = IF @ = "gate" THEN "none" ELSE @]
  <2>1. ASSUME NEW q \in QId
        PROVE  /\ r(q) \in QueueRecord
               /\ r(q).waiting = <<>> /\ r(q).run = queue[q].run
               /\ r(q).stage = IF queue[q].stage = "gate" THEN "none" ELSE queue[q].stage
    <3>1. queue[q] \in QueueRecord /\ <<>> \in Seq(Task)
      BY <1>3 DEF Tables
    <3> QED
      BY <3>1 DEF QueueRecord, Stage
  <2>2. queue' = [q \in QId |-> r(q)]
    BY <1>1
  <2> HIDE DEF r
  <2> QED
    BY <2>1, <2>2
<1>7. Tables(lanes', queue')
  BY <1>5, <1>6 DEF Tables
<1>8. Fewer(lanes, queue, lanes', queue')
  BY <1>5, <1>6 DEF Fewer, Started
<1>9. Placed(lanes', queue', msgs)
  BY <1>3, <1>7, <1>8, FewerPlaced
<1>10. \A m : ~Leads(lanes', queue', m)
  BY <1>5, <1>6 DEF Leads
<1>11. Resources(lanes', queue', owner', msgs)
  <2> SUFFICES ASSUME NEW m \in Msg PROVE owner'[m] = "queue" <=> m \notin 1 .. Len(msgs)
    BY <1>10 DEF Resources
  <2>1. owner'[m] = "queue" <=> ~Inside(lanes, queue, m) /\ owner[m] = "queue"
    BY <1>1, <1>2
  <2>2. owner[m] = "queue" <=> m \notin 1 .. Len(msgs) \/ Leads(lanes, queue, m)
    BY <1>3 DEF Resources
  <2>3. Leads(lanes, queue, m) => Inside(lanes, queue, m)
    BY <1>3, LeadsInside
  <2>4. Inside(lanes, queue, m) => m \in 1 .. Len(msgs)
    BY <1>3, InsideAccepted
  <2> QED
    BY <2>1, <2>2, <2>3, <2>4
<1> HIDE DEF R
<1>12. /\ outcome' \in Outcomes
       /\ \A m \in Msg : outcome'[m] = "none" => outcome[m] = "none" /\ m \notin R \cup InHandlers
  <2>1. Publish(outcome, R, "rejected") \in Outcomes
    BY <1>3 DEF Publish, Outcomes
  <2>2. \A m \in Msg : Publish(outcome, R, "rejected")[m] = "none" => outcome[m] = "none" /\ m \notin R
    BY DEF Publish
  <2> DEFINE out == Publish(outcome, R, "rejected")
  <2> HIDE DEF out
  <2>3. outcome' = Publish(out, InHandlers, "aborted")
    BY <1>1 DEF out
  <2>4. out \in Outcomes /\ \A m \in Msg : out[m] = "none" => outcome[m] = "none" /\ m \notin R
    BY <2>1, <2>2 DEF out
  <2> QED
    BY <2>3, <2>4 DEF Publish, Outcomes
<1>13. Located'
  <2>1. \A m \in 1 .. Len(msgs) : outcome'[m] # "none"
    BY <1>2, <1>12, <1>18 DEF IndInv, Located
  <2> QED
    BY <1>4, <2>1 DEF Located, Accepted
<1>14. Phased'
  BY <1>4, <1>5, <1>6 DEF Phased
<1>15. AtGate(queue', gateWait')
  BY <1>4 DEF AtGate
<1>16. owner' \in Owners
  BY <1>1, <1>3 DEF Owners
<1>17. gateWait' \in Seq(QId)
  BY <1>4
<1> QED
  BY <1>1, <1>3, <1>7, <1>9, <1>11, <1>12, <1>13, <1>14, <1>15, <1>16, <1>17, Concluded

\* The shutdown ends: the lanes are forgotten.
LEMMA ShutdownEndInd == ASSUME IndInv, ShutdownEnd PROVE IndInv'
<1>1. /\ phase = "closing" /\ phase' = "closed"
      /\ lanes' = [l \in Lane |-> [lanes[l] EXCEPT !.exists = FALSE, !.logicalDepth = 0,
                                                   !.pendingEntries = <<>>]]
      /\ UNCHANGED <<config, queue, gateWait, debounce, msgs, outcome, owner>>
  BY DEF ShutdownEnd
<1>2. /\ Tables(lanes, queue) /\ Placed(lanes, queue, msgs) /\ AtGate(queue, gateWait)
      /\ msgs \in Seq(Lane) /\ Len(msgs) <= MaxMsg /\ gateWait \in Seq(QId)
      /\ debounce \in SUBSET Lane /\ owner \in Owners /\ outcome \in Outcomes
      /\ Resources(lanes, queue, owner, msgs)
  BY DEF IndInv, Types, Owners, Outcomes
<1>3. /\ lanes' \in [Lane -> LaneRecord]
      /\ \A l \in Lane : /\ lanes'[l].q = lanes[l].q /\ lanes'[l].exists = FALSE
                         /\ lanes'[l].pendingEntries = <<>>
  <2>1. \A l \in Lane : /\ [lanes[l] EXCEPT !.exists = FALSE, !.logicalDepth = 0,
                                            !.pendingEntries = <<>>] \in LaneRecord
                        /\ lanes[l] \in LaneRecord
    <3> SUFFICES ASSUME NEW l \in Lane
                 PROVE  /\ [lanes[l] EXCEPT !.exists = FALSE, !.logicalDepth = 0,
                                            !.pendingEntries = <<>>] \in LaneRecord
                        /\ lanes[l] \in LaneRecord
      OBVIOUS
    <3>1. lanes[l] \in LaneRecord /\ <<>> \in Seq(Entry)
      BY <1>2 DEF Tables
    <3> QED
      BY <3>1 DEF LaneRecord
  <2> QED
    BY <1>1, <2>1 DEF LaneRecord
<1>4. /\ \A l \in Lane : lanes[l].pendingEntries = <<>>
      /\ \A q \in QId : queue[q].waiting = <<>>
      /\ \A m \in Accepted : outcome[m] # "none"
  BY <1>1 DEF IndInv, Phased, Located
<1>5. Tables(lanes', queue)
  BY <1>2, <1>3 DEF Tables
<1>6. Fewer(lanes, queue, lanes', queue)
  BY <1>3, <1>4 DEF Fewer
<1>7. Placed(lanes', queue, msgs)
  BY <1>2, <1>5, <1>6, FewerPlaced
<1>8. \A m : Leads(lanes', queue, m) <=> Leads(lanes, queue, m)
  BY <1>3, <1>4 DEF Leads
<1>9. Resources(lanes', queue, owner, msgs)
  BY <1>2, <1>8 DEF Resources
<1>10. Phased'
  BY <1>1, <1>3 DEF IndInv, Phased
<1>11. Located'
  BY <1>1, <1>4 DEF Located, Accepted
<1> QED
  BY <1>1, <1>2, <1>5, <1>7, <1>9, <1>10, <1>11, Concluded

-----------------------------------------------------------------------------
(* The depth of a lane: what its tasks count, and one for each pending entry. *)

CountSum(S) == MapThenSumSet(LAMBDA e : e.count, S)

\* The sum of the counts of a set of entries, as a total.
LEMMA CountSumIs ==
  ASSUME NEW S \in SUBSET Entry, IsFiniteSet(S)
  PROVE  [e \in S |-> e.count] \in [S -> Nat] /\ CountSum(S) = Total([e \in S |-> e.count], S)
<1> DEFINE w == [e \in S |-> e.count]
           Fold(g, s) ==
               IF s = {} THEN 0
               ELSE (CHOOSE x \in s : TRUE).count + g[s \ {CHOOSE x \in s : TRUE}]
           sum == CHOOSE g : g = [s \in SUBSET S |-> Fold(g, s)]
<1>1. w \in [S -> Nat]
  BY DEF Entry
<1>2. CountSum(S) = sum[S]
  BY Zenon DEF CountSum, MapThenSumSet, MapThenFoldSet
<1>3. PICK h : IsSum(S, w, h)
  <2> HIDE DEF w, Fold, sum
  <2> QED
    BY SumExists
<1>4. \A g : \A s \in SUBSET S : Weighed(w, g, s) = Fold(g, s)
  BY DEF Weighed
<1>5. h = [s \in SUBSET S |-> Fold(h, s)]
  <2> HIDE DEF w, Fold
  <2> QED
    BY <1>3, <1>4 DEF IsSum
<1>6. sum = [s \in SUBSET S |-> Fold(sum, s)]
  <2> HIDE DEF Fold
  <2> QED
    BY <1>5
<1> HIDE DEF w, Fold, sum
<1>7. IsSum(S, w, sum)
  BY <1>4, <1>6 DEF IsSum
<1>8. PICK g : IsSum(S, w, g) /\ Total(w, S) = g[S]
  BY TotalIs
<1>9. sum[S] = g[S]
  <2>1. S \in SUBSET S
    OBVIOUS
  <2> QED
    BY <1>7, <1>8, <2>1, SumRestricts
<1>10. CountSum(S) = Total(w, S)
  BY <1>2, <1>8, <1>9
<1> QED
  BY <1>1, <1>10 DEF w

\* It is a number.
LEMMA CountSumNat == ASSUME NEW S \in SUBSET Entry, IsFiniteSet(S) PROVE CountSum(S) \in Nat
<1> DEFINE w == [e \in S |-> e.count]
<1>1. w \in [S -> Nat] /\ CountSum(S) = Total(w, S)
  BY CountSumIs
<1> HIDE DEF w
<1>2. PICK g : IsSum(S, w, g) /\ Total(w, S) = g[S]
  BY TotalIs
<1> QED
  BY <1>1, <1>2, SumIsNat

\* One entry more.
LEMMA CountSumGrows ==
  ASSUME NEW S \in SUBSET Entry, IsFiniteSet(S), NEW e \in Entry, e \notin S
  PROVE  /\ IsFiniteSet(S \cup {e})
         /\ CountSum(S) \in Int /\ CountSum(S \cup {e}) = CountSum(S) + e.count
<1> DEFINE U == S \cup {e}
           v == [x \in S |-> x.count]
           w == [x \in U |-> x.count]
<1>1. IsFiniteSet(U)
  BY FS_AddElement
<1>2. U \in SUBSET Entry
  OBVIOUS
<1>3. v \in [S -> Nat] /\ CountSum(S) = Total(v, S)
  BY CountSumIs
<1>4. w \in [U -> Nat] /\ CountSum(U) = Total(w, U)
  <2> HIDE DEF U
  <2> QED
    BY <1>1, <1>2, CountSumIs
<1>5. w[e] = e.count /\ \A x \in S : v[x] = w[x]
  OBVIOUS
<1>6. v \in [S -> Int] /\ w \in [S \cup {e} -> Int]
  BY <1>3, <1>4
<1> HIDE DEF v, w
<1>7. Total(w, S \cup {e}) = Total(v, S) + w[e] /\ Total(v, S) \in Int
  BY <1>5, <1>6, TotalGrows, TotalInt, ZenonT(30)
<1> QED
  BY <1>1, <1>3, <1>4, <1>5, <1>7

\* No entries count nothing.
LEMMA CountSumEmpty == IsFiniteSet({}) /\ CountSum({}) = 0
<1>1. IsFiniteSet({}) /\ {} \in SUBSET Entry
  BY FS_EmptySet
<1> DEFINE w == [e \in {} |-> e.count]
<1>2. CountSum({}) = Total(w, {})
  BY <1>1, CountSumIs
<1>3. w \in [{} -> Int] /\ \A x \in {} : w[x] = 0
  OBVIOUS
<1> HIDE DEF w
<1> QED
  BY <1>1, <1>2, <1>3, TotalZero

\* The entries of a sequence count one each.
Singles(es) == \A i \in DOMAIN es : es[i].count = 1

\* Coalesced, they count as many as they are.
LEMMA CountOfSingles ==
  ASSUME NEW es \in Seq(Entry), Singles(es)
  PROVE  CountOf(es) = Len(es)
<1> DEFINE S == DOMAIN es
           w == [i \in S |-> es[i].count]
           Fold(g, s) ==
               IF s = {} THEN 0
               ELSE es[CHOOSE x \in s : TRUE].count + g[s \ {CHOOSE x \in s : TRUE}]
           sum == CHOOSE g : g = [s \in SUBSET S |-> Fold(g, s)]
<1>1. IsFiniteSet(S) /\ Cardinality(S) = Len(es) /\ w \in [S -> Int] /\ \A i \in S : w[i] = 1
  <2>1. S = 1 .. Len(es) /\ Len(es) \in Nat
    OBVIOUS
  <2>2. IsFiniteSet(1 .. Len(es)) /\ Cardinality(1 .. Len(es)) = Len(es)
    BY <2>1, FS_Interval
  <2>3. \A i \in S : es[i].count = 1
    BY DEF Singles
  <2> HIDE DEF S
  <2> QED
    BY <2>1, <2>2, <2>3
<1>2. CountOf(es) = sum[S]
  BY Zenon DEF CountOf, FoldSeq, FoldFunction, FoldFunctionOnSet, MapThenFoldSet
<1>3. PICK h : IsSum(S, w, h) /\ Total(w, S) = h[S]
  <2> HIDE DEF S, w, Fold, sum
  <2> QED
    BY <1>1, TotalIs
<1>4. \A g : \A s \in SUBSET S : Weighed(w, g, s) = Fold(g, s)
  BY DEF Weighed
<1>5. h = [s \in SUBSET S |-> Fold(h, s)]
  <2> HIDE DEF S, w, Fold
  <2> QED
    BY <1>3, <1>4 DEF IsSum
<1>6. sum = [s \in SUBSET S |-> Fold(sum, s)]
  <2> HIDE DEF Fold, S
  <2> QED
    BY <1>5
<1> HIDE DEF S, w, Fold, sum
<1>7. IsSum(S, w, sum)
  BY <1>4, <1>6 DEF IsSum
<1>8. sum[S] = h[S]
  <2>1. S \in SUBSET S
    OBVIOUS
  <2> QED
    BY <1>1, <1>3, <1>7, <2>1, SumRestricts
<1>9. Total(w, S) = Cardinality(S)
  BY <1>1, TotalOnes
<1> QED
  BY <1>1, <1>2, <1>3, <1>8, <1>9

\* Task t is one of lane k with entry e, and queues qs have such a task.
TaskIs(t, k, e) == t.lane = k /\ ~IsSteer(t) /\ e = t.entry
InTask(qs, k, e) ==
    \/ \E q \in QId : Started(qs, q) /\ TaskIs(qs[q].run, k, e)
    \/ \E q \in QId : \E i \in DOMAIN qs[q].waiting : TaskIs(qs[q].waiting[i], k, e)
Tasks(qs, k) == {e \in Entry : InTask(qs, k, e)}

\* Queues ps have the tasks of qs and t.
Adds(qs, ps, t) == \A k, e : InTask(ps, k, e) <=> InTask(qs, k, e) \/ TaskIs(t, k, e)
SameTasks(qs, ps) == \A k, e : InTask(ps, k, e) <=> InTask(qs, k, e)
SameDepths(ls, ks) ==
    \A k \in Lane : /\ ks[k].logicalDepth = ls[k].logicalDepth
                    /\ ks[k].pendingEntries = ls[k].pendingEntries

Balanced(ls, qs, k) ==
    /\ IsFiniteSet(Tasks(qs, k))
    /\ ls[k].logicalDepth = CountSum(Tasks(qs, k)) + Len(ls[k].pendingEntries)
    /\ Singles(ls[k].pendingEntries)
Depths(ls, qs) == \A k \in Lane : Balanced(ls, qs, k)

\* A task joins a queue.
LEMMA TaskJoined ==
  ASSUME NEW ls, NEW qs, Tables(ls, qs), NEW q \in QId, NEW t \in Task
  PROVE  Adds(qs, Joined(qs, q, t), t)
<1> DEFINE ps == Joined(qs, q, t)
           w == qs[q].waiting
           n == Len(w) + 1
<1>1. qs \in [QId -> QueueRecord] /\ qs[q] \in QueueRecord /\ w \in Seq(Task)
  BY DEF Tables, QueueRecord
<1>2. /\ ps[q].waiting = Append(w, t) /\ ps[q].run = qs[q].run /\ ps[q].stage = qs[q].stage
      /\ \A p \in QId : p # q => ps[p] = qs[p]
  BY <1>1 DEF Joined, QueueRecord
<1>3. /\ DOMAIN ps[q].waiting = DOMAIN w \cup {n}
      /\ ps[q].waiting[n] = t /\ \A i \in DOMAIN w : ps[q].waiting[i] = w[i]
  BY <1>1, <1>2
<1> HIDE DEF n, ps
<1>4. \A p \in QId : Started(ps, p) = Started(qs, p) /\ ps[p].run = qs[p].run
  BY <1>2 DEF Started
<1>5. ASSUME NEW k, NEW e
      PROVE  (\E p \in QId : \E i \in DOMAIN ps[p].waiting : TaskIs(ps[p].waiting[i], k, e)) <=>
             (\E p \in QId : \E i \in DOMAIN qs[p].waiting : TaskIs(qs[p].waiting[i], k, e))
             \/ TaskIs(t, k, e)
  <2> DEFINE A(p) == \E i \in DOMAIN ps[p].waiting : TaskIs(ps[p].waiting[i], k, e)
             B(p) == \E i \in DOMAIN qs[p].waiting : TaskIs(qs[p].waiting[i], k, e)
  <2>1. A(q) <=> B(q) \/ TaskIs(t, k, e)
    BY <1>3
  <2>2. \A p \in QId : p # q => (A(p) <=> B(p))
    BY <1>2
  <2> HIDE DEF A, B
  <2>3. (\E p \in QId : A(p)) <=> (\E p \in QId : B(p)) \/ TaskIs(t, k, e)
    BY <2>1, <2>2
  <2> QED
    BY <2>3 DEF A, B
<1>6. Adds(qs, ps, t)
  BY <1>4, <1>5 DEF Adds, InTask
<1> QED
  BY <1>6 DEF ps

\* A task starts on a queue that has none started.
LEMMA TaskBegun ==
  ASSUME NEW ls, NEW qs, Tables(ls, qs), NEW q \in QId, NEW t \in Task, NEW s \in {"gate", "exec"},
         ~Started(qs, q)
  PROVE  Adds(qs, Begun(qs, q, t, s), t)
<1> DEFINE ps == Begun(qs, q, t, s)
<1>1. qs \in [QId -> QueueRecord] /\ qs[q] \in QueueRecord
  BY DEF Tables
<1>2. /\ ps[q].waiting = qs[q].waiting /\ ps[q].run = t /\ ps[q].stage = s
      /\ \A p \in QId : p # q => ps[p] = qs[p]
  BY <1>1 DEF Begun, QueueRecord
<1> HIDE DEF ps
<1>3. \A p \in QId : ps[p].waiting = qs[p].waiting
  BY <1>2
<1>4. ASSUME NEW k, NEW e
      PROVE  (\E p \in QId : Started(ps, p) /\ TaskIs(ps[p].run, k, e)) <=>
             (\E p \in QId : Started(qs, p) /\ TaskIs(qs[p].run, k, e)) \/ TaskIs(t, k, e)
  <2> DEFINE A(p) == Started(ps, p) /\ TaskIs(ps[p].run, k, e)
             B(p) == Started(qs, p) /\ TaskIs(qs[p].run, k, e)
  <2>1. (A(q) <=> TaskIs(t, k, e)) /\ ~B(q)
    BY <1>2 DEF Started
  <2>2. \A p \in QId : p # q => (A(p) <=> B(p))
    BY <1>2 DEF Started
  <2> HIDE DEF A, B
  <2>3. (\E p \in QId : A(p)) <=> (\E p \in QId : B(p)) \/ TaskIs(t, k, e)
    BY <2>1, <2>2
  <2> QED
    BY <2>3 DEF A, B
<1>5. Adds(qs, ps, t)
  BY <1>3, <1>4 DEF Adds, InTask
<1> QED
  BY <1>5 DEF ps

\* The first task leaves its queue.
LEMMA TaskTaken ==
  ASSUME NEW ls, NEW qs, Tables(ls, qs), NEW q \in QId, qs[q].waiting # <<>>
  PROVE  Adds(Taken(qs, q), qs, Head(qs[q].waiting))
<1> DEFINE ps == Taken(qs, q)
           w == qs[q].waiting
           t == Head(w)
<1>1. qs \in [QId -> QueueRecord] /\ qs[q] \in QueueRecord /\ w \in Seq(Task)
  BY DEF Tables, QueueRecord
<1>2. /\ ps[q].waiting = Tail(w) /\ ps[q].run = qs[q].run /\ ps[q].stage = qs[q].stage
      /\ \A p \in QId : p # q => ps[p] = qs[p]
  BY <1>1 DEF Taken, QueueRecord
<1>3. /\ \A i \in DOMAIN ps[q].waiting : i + 1 \in DOMAIN w /\ ps[q].waiting[i] = w[i + 1]
      /\ \A i \in DOMAIN w : i = 1 \/ (i - 1 \in DOMAIN ps[q].waiting /\ ps[q].waiting[i - 1] = w[i])
      /\ 1 \in DOMAIN w /\ w[1] = t
  <2>1. Len(w) \in Nat /\ Len(w) > 0 /\ DOMAIN w = 1 .. Len(w)
    BY <1>1
  <2>2. Tail(w) \in Seq(Task) /\ Len(Tail(w)) = Len(w) - 1
        /\ \A i \in 1 .. Len(w) - 1 : Tail(w)[i] = w[i + 1]
    BY <1>1, <2>1
  <2>3. DOMAIN Tail(w) = 1 .. Len(w) - 1
    BY <2>2
  <2>4. t = w[1]
    BY <1>1, <2>1
  <2> HIDE DEF w, ps, t
  <2>5. \A i \in 1 .. Len(w) - 1 : i + 1 \in DOMAIN w /\ Tail(w)[i] = w[i + 1]
    BY <2>1, <2>2
  <2>6. \A i \in DOMAIN w : i = 1 \/ (i - 1 \in DOMAIN Tail(w) /\ Tail(w)[i - 1] = w[i])
    BY <2>1, <2>2, <2>3
  <2> QED
    BY <1>2, <2>1, <2>3, <2>4, <2>5, <2>6
<1> HIDE DEF ps, t
<1>4. \A p \in QId : Started(ps, p) = Started(qs, p) /\ ps[p].run = qs[p].run
  BY <1>2 DEF Started
<1>5. ASSUME NEW k, NEW e
      PROVE  (\E p \in QId : \E i \in DOMAIN qs[p].waiting : TaskIs(qs[p].waiting[i], k, e)) <=>
             (\E p \in QId : \E i \in DOMAIN ps[p].waiting : TaskIs(ps[p].waiting[i], k, e))
             \/ TaskIs(t, k, e)
  <2> DEFINE A(p) == \E i \in DOMAIN ps[p].waiting : TaskIs(ps[p].waiting[i], k, e)
             B(p) == \E i \in DOMAIN qs[p].waiting : TaskIs(qs[p].waiting[i], k, e)
  <2>1. B(q) <=> A(q) \/ TaskIs(t, k, e)
    BY <1>3
  <2>2. \A p \in QId : p # q => (A(p) <=> B(p))
    BY <1>2
  <2> HIDE DEF A, B
  <2>3. (\E p \in QId : B(p)) <=> (\E p \in QId : A(p)) \/ TaskIs(t, k, e)
    BY <2>1, <2>2
  <2> QED
    BY <2>3 DEF A, B
<1>6. Adds(ps, qs, t)
  BY <1>4, <1>5 DEF Adds, InTask
<1> QED
  BY <1>6 DEF ps, t

\* scheduleLaneTask adds its task, now or later, and leaves the depths.
LEMMA GateAdds ==
  ASSUME NEW ls, NEW qs, NEW own, Tables(ls, qs), NEW q \in QId, NEW t \in Task, ~Started(qs, q),
         RunThroughGate(qs, ls, own, q, t)
  PROVE  Adds(qs, queue', t) /\ SameDepths(ls, lanes')
<1>1. Adds(qs, Begun(qs, q, t, "exec"), t) /\ Adds(qs, Begun(qs, q, t, "gate"), t)
  BY TaskBegun
<1>2. Adds(qs, queue', t)
  BY <1>1 DEF RunThroughGate, Begun
<1>3. ls \in [Lane -> LaneRecord] /\ t.lane \in Lane
  BY DEF Tables, Task
<1>4. lanes' = ls \/ lanes' = [ls EXCEPT ![t.lane].isExecuting = TRUE]
  BY DEF RunThroughGate
<1>5. SameDepths(ls, ls) /\ SameDepths(ls, [ls EXCEPT ![t.lane].isExecuting = TRUE])
  <2>1. SameDepths(ls, ls)
    BY DEF SameDepths
  <2>2. ASSUME NEW k \in Lane
        PROVE  /\ [ls EXCEPT ![t.lane].isExecuting = TRUE][k].logicalDepth = ls[k].logicalDepth
               /\ [ls EXCEPT ![t.lane].isExecuting = TRUE][k].pendingEntries = ls[k].pendingEntries
    <3>1. ls[k] \in LaneRecord
      BY <1>3
    <3>2. CASE k = t.lane
      BY <1>3, <3>1, <3>2 DEF LaneRecord
    <3>3. CASE k # t.lane
      BY <1>3, <3>3
    <3> QED
      BY <3>2, <3>3
  <2> QED
    BY <2>1, <2>2 DEF SameDepths
<1> QED
  BY <1>2, <1>4, <1>5

LEMMA ScheduleAdds ==
  ASSUME NEW ls, NEW qs, NEW own, Tables(ls, qs), NEW q \in QId, NEW t \in Task,
         Schedule(qs, ls, own, q, t)
  PROVE  Adds(qs, queue', t) /\ SameDepths(ls, lanes')
<1>1. CASE qs[q].stage = "none" /\ qs[q].waiting = <<>>
  <2>1. ~Started(qs, q) /\ RunThroughGate(qs, ls, own, q, t)
    BY <1>1 DEF Started, Schedule
  <2> QED
    BY <2>1, GateAdds
<1>2. CASE ~(qs[q].stage = "none" /\ qs[q].waiting = <<>>)
  <2>1. queue' = Joined(qs, q, t) /\ lanes' = ls
    BY <1>2 DEF Schedule, Joined
  <2> QED
    BY <2>1, TaskJoined DEF SameDepths
<1> QED
  BY <1>1, <1>2

\* What a task more counts.
LEMMA Counted ==
  ASSUME NEW qs, NEW ps, NEW t \in Task, ~IsSteer(t), Adds(qs, ps, t), ~InTask(qs, t.lane, t.entry)
  PROVE  /\ \A k \in Lane : k # t.lane => Tasks(ps, k) = Tasks(qs, k)
         /\ IsFiniteSet(Tasks(qs, t.lane)) =>
               /\ IsFiniteSet(Tasks(ps, t.lane)) /\ CountSum(Tasks(qs, t.lane)) \in Int
               /\ CountSum(Tasks(ps, t.lane)) = CountSum(Tasks(qs, t.lane)) + t.entry.count
<1>1. \A k \in Lane : k # t.lane => Tasks(ps, k) = Tasks(qs, k)
  BY DEF Adds, TaskIs, Tasks
<1> DEFINE S == Tasks(qs, t.lane)
           e == t.entry
<1>2. e \in Entry /\ S \in SUBSET Entry /\ e \notin S
  BY DEF Task, Tasks
<1>3. Tasks(ps, t.lane) = S \cup {e}
  <2>1. \A x : TaskIs(t, t.lane, x) <=> x = e
    BY DEF TaskIs
  <2>2. \A x : InTask(ps, t.lane, x) <=> InTask(qs, t.lane, x) \/ x = e
    BY <2>1 DEF Adds
  <2> HIDE DEF e
  <2> QED
    BY <1>2, <2>2 DEF Tasks
<1>4. ASSUME IsFiniteSet(S)
      PROVE  /\ IsFiniteSet(S \cup {e}) /\ CountSum(S) \in Int
             /\ CountSum(S \cup {e}) = CountSum(S) + e.count
  <2> HIDE DEF S, e
  <2> QED
    BY <1>2, <1>4, CountSumGrows
<1> QED
  BY <1>1, <1>3, <1>4

\* A lane other than l keeps its depth and pending entries.
OthersKeep(ls, ks, l) ==
    \A k \in Lane : k # l => /\ ks[k].logicalDepth = ls[k].logicalDepth
                             /\ ks[k].pendingEntries = ls[k].pendingEntries

\* The part of its depth that a lane owes for tasks.
ForTasks(ls, l) == ls[l].logicalDepth - Len(ls[l].pendingEntries)

\* The tables stay balanced when a lane owes for the task that it gets,
LEMMA AddsBalanced ==
  ASSUME NEW ls, NEW qs, NEW ks, NEW ps, Tables(ls, qs), Tables(ks, ps), Depths(ls, qs),
         NEW t \in Task, ~IsSteer(t), Adds(qs, ps, t), ~InTask(qs, t.lane, t.entry),
         OthersKeep(ls, ks, t.lane), Singles(ks[t.lane].pendingEntries),
         ForTasks(ks, t.lane) = ForTasks(ls, t.lane) + t.entry.count
  PROVE  Depths(ks, ps)
<1>1. ASSUME NEW k \in Lane, k # t.lane PROVE Balanced(ks, ps, k)
  BY <1>1, Counted DEF Depths, Balanced, OthersKeep
<1>2. Balanced(ks, ps, t.lane)
  <2> DEFINE l == t.lane
             a == CountSum(Tasks(qs, l))
             b == CountSum(Tasks(ps, l))
  <2>1. l \in Lane /\ t.entry.count \in Nat
    BY DEF Task, Entry
  <2>2. /\ ks[l].logicalDepth \in Nat /\ ls[l].logicalDepth \in Nat
        /\ ks[l].pendingEntries \in Seq(Entry) /\ ls[l].pendingEntries \in Seq(Entry)
    BY <2>1 DEF Tables, LaneRecord
  <2>3. Len(ks[l].pendingEntries) \in Nat /\ Len(ls[l].pendingEntries) \in Nat
    BY <2>2
  <2>4. IsFiniteSet(Tasks(qs, l)) /\ ls[l].logicalDepth = a + Len(ls[l].pendingEntries)
    BY <2>1 DEF Depths, Balanced
  <2>5. IsFiniteSet(Tasks(ps, l)) /\ a \in Int /\ b = a + t.entry.count
    BY <2>4, Counted
  <2> HIDE DEF a, b
  <2>6. ks[l].logicalDepth = b + Len(ks[l].pendingEntries)
    BY <2>1, <2>2, <2>3, <2>4, <2>5 DEF ForTasks
  <2> QED
    BY <2>5, <2>6 DEF Balanced, b
<1> QED
  BY <1>1, <1>2 DEF Depths

\* or gives up for one that ends,
LEMMA LosesBalanced ==
  ASSUME NEW ls, NEW qs, NEW ks, NEW ps, Tables(ls, qs), Tables(ks, ps), Depths(ls, qs),
         NEW t \in Task, ~IsSteer(t), Adds(ps, qs, t), ~InTask(ps, t.lane, t.entry),
         OthersKeep(ls, ks, t.lane), Singles(ks[t.lane].pendingEntries),
         ForTasks(ks, t.lane) = ForTasks(ls, t.lane) - t.entry.count
  PROVE  Depths(ks, ps)
<1>1. ASSUME NEW k \in Lane, k # t.lane PROVE Balanced(ks, ps, k)
  BY <1>1, Counted DEF Depths, Balanced, OthersKeep
<1>2. Balanced(ks, ps, t.lane)
  <2> DEFINE l == t.lane
             a == CountSum(Tasks(qs, l))
             b == CountSum(Tasks(ps, l))
  <2>1. l \in Lane /\ t.entry.count \in Nat
    BY DEF Task, Entry
  <2>2. /\ ks[l].logicalDepth \in Nat /\ ls[l].logicalDepth \in Nat
        /\ ks[l].pendingEntries \in Seq(Entry) /\ ls[l].pendingEntries \in Seq(Entry)
    BY <2>1 DEF Tables, LaneRecord
  <2>3. Len(ks[l].pendingEntries) \in Nat /\ Len(ls[l].pendingEntries) \in Nat
    BY <2>2
  <2>4. IsFiniteSet(Tasks(qs, l)) /\ ls[l].logicalDepth = a + Len(ls[l].pendingEntries)
    BY <2>1 DEF Depths, Balanced
  <2>5. IsFiniteSet(Tasks(ps, l))
    <3>1. Tasks(ps, l) \in SUBSET Tasks(qs, l)
      BY DEF Adds, Tasks
    <3> QED
      BY <2>4, <3>1, FS_Subset
  <2>6. b \in Int /\ a = b + t.entry.count
    BY <2>5, Counted
  <2> HIDE DEF a, b
  <2> DEFINE x == ks[l].logicalDepth
             y == ls[l].logicalDepth
             c == Len(ks[l].pendingEntries)
             d == Len(ls[l].pendingEntries)
             n == t.entry.count
  <2>7. x - c = y - d - n
    BY DEF ForTasks
  <2>8. x \in Nat /\ y \in Nat /\ c \in Nat /\ d \in Nat /\ n \in Nat /\ b \in Int
    BY <2>1, <2>2, <2>3, <2>6
  <2>9. a = b + n /\ y = a + d
    BY <2>4, <2>6
  <2>10. ks[l].logicalDepth = b + Len(ks[l].pendingEntries)
    <3>1. x = b + c
      <4> HIDE DEF x, y, c, d, n
      <4> QED
        BY <2>7, <2>8, <2>9
    <3> QED
      BY <3>1
  <2> QED
    BY <2>5, <2>10 DEF Balanced, b
<1> QED
  BY <1>1, <1>2 DEF Depths

\* or owes the same for the same tasks.
LEMMA SameBalanced ==
  ASSUME NEW ls, NEW qs, NEW ks, NEW ps, Tables(ls, qs), Tables(ks, ps), Depths(ls, qs),
         SameTasks(qs, ps),
         \A k \in Lane : Singles(ks[k].pendingEntries) /\ ForTasks(ks, k) = ForTasks(ls, k)
  PROVE  Depths(ks, ps)
<1> SUFFICES ASSUME NEW k \in Lane PROVE Balanced(ks, ps, k)
  BY DEF Depths
<1>1. Tasks(ps, k) = Tasks(qs, k)
  BY DEF SameTasks, Tasks
<1>2. /\ ks[k].logicalDepth \in Nat /\ ls[k].logicalDepth \in Nat
      /\ ks[k].pendingEntries \in Seq(Entry) /\ ls[k].pendingEntries \in Seq(Entry)
  BY DEF Tables, LaneRecord
<1>3. Len(ks[k].pendingEntries) \in Nat /\ Len(ls[k].pendingEntries) \in Nat
  BY <1>2
<1>4. /\ IsFiniteSet(Tasks(qs, k)) /\ Tasks(qs, k) \in SUBSET Entry
      /\ ls[k].logicalDepth = CountSum(Tasks(qs, k)) + Len(ls[k].pendingEntries)
  BY DEF Depths, Balanced, Tasks
<1>5. CountSum(Tasks(qs, k)) \in Int
  BY <1>4, CountSumNat
<1> DEFINE a == CountSum(Tasks(qs, k))
<1> HIDE DEF a
<1>6. ks[k].logicalDepth = a + Len(ks[k].pendingEntries)
  <2>1. a \in Int /\ ls[k].logicalDepth = a + Len(ls[k].pendingEntries)
    BY <1>4, <1>5 DEF a
  <2>2. ForTasks(ks, k) = ForTasks(ls, k)
    OBVIOUS
  <2> QED
    BY <1>2, <1>3, <2>1, <2>2 DEF ForTasks
<1> QED
  BY <1>1, <1>4, <1>6 DEF Balanced, a

\* Messages that are nowhere are of no task.
LEMMA AbsentTask ==
  ASSUME NEW ls, NEW qs, NEW e, e.ids # {}, Absent(ls, qs, e.ids), NEW k
  PROVE  ~InTask(qs, k, e)
<1>1. PICK m \in e.ids : TRUE
  OBVIOUS
<1>2. ~Inside(ls, qs, m)
  BY DEF Absent
<1> QED
  BY <1>1, <1>2 DEF InTask, TaskIs, Inside

DepthInv == phase = "open" => Depths(lanes, queue)

\* What lane l owes for the entry that its pending ones become.
LEMMA CoalescedOwed ==
  ASSUME NEW ls, NEW qs, NEW ks, NEW ms, NEW l \in Lane, NEW q \in QId, NEW t,
         Tables(ls, qs), Placed(ls, qs, ms), Depths(ls, qs),
         ls[l].pendingEntries # <<>>, ls[l].q = q,
         ks = Cleared(ls, l), t = EntryTask(l, Coalesced(ls[l].pendingEntries))
  PROVE  /\ Tables(ks, qs) /\ t \in Task /\ t.lane = l /\ ~IsSteer(t)
         /\ ~InTask(qs, l, t.entry) /\ OthersKeep(ls, ks, l) /\ ks[l].pendingEntries = <<>>
         /\ ks[l].logicalDepth = ls[l].logicalDepth
         /\ t.entry.count = Len(ls[l].pendingEntries)
<1> DEFINE es == ls[l].pendingEntries
<1>1. /\ Tables(ks, qs) /\ t \in Task /\ t.lane = l /\ ~IsSteer(t)
      /\ OfLane(t.entry, l, ms) /\ Absent(ks, qs, t.entry.ids)
  BY ClearedPlaced DEF TakenAs
<1>2. ~InTask(qs, l, t.entry)
  BY <1>1, AbsentTask DEF OfLane
<1>3. ls \in [Lane -> LaneRecord] /\ ls[l] \in LaneRecord
  BY DEF Tables
<1>4. /\ ks[l].pendingEntries = <<>> /\ ks[l].logicalDepth = ls[l].logicalDepth
      /\ \A k \in Lane : k # l => ks[k] = ls[k]
  BY <1>3 DEF Cleared, LaneRecord
<1>5. es \in Seq(Entry) /\ Singles(es)
  BY <1>3 DEF LaneRecord, Depths, Balanced
<1> HIDE DEF es
<1>6. CountOf(es) = Len(es)
  BY <1>5, CountOfSingles
<1>7. t.entry.count = CountOf(es)
  BY DEF EntryTask, Coalesced, es
<1> QED
  BY <1>1, <1>2, <1>4, <1>6, <1>7 DEF OthersKeep, es

\* The pending entries of a lane become a task of it.
LEMMA CoalescedBalanced ==
  ASSUME NEW ls, NEW qs, NEW ks, NEW ps, NEW hs, NEW ms, NEW l \in Lane, NEW q \in QId, NEW t,
         Tables(ls, qs), Placed(ls, qs, ms), Depths(ls, qs),
         ls[l].pendingEntries # <<>>, ls[l].q = q,
         ks = Cleared(ls, l), t = EntryTask(l, Coalesced(ls[l].pendingEntries)),
         Adds(qs, ps, t), SameDepths(ks, hs), Tables(hs, ps)
  PROVE  Depths(hs, ps)
<1>1. /\ Tables(ks, qs) /\ t \in Task /\ t.lane = l /\ ~IsSteer(t)
      /\ ~InTask(qs, l, t.entry) /\ OthersKeep(ls, ks, l) /\ ks[l].pendingEntries = <<>>
      /\ ks[l].logicalDepth = ls[l].logicalDepth
      /\ t.entry.count = Len(ls[l].pendingEntries)
  BY CoalescedOwed
<1>2. OthersKeep(ls, hs, l) /\ hs[l].pendingEntries = <<>>
      /\ hs[l].logicalDepth = ls[l].logicalDepth
  BY <1>1 DEF OthersKeep, SameDepths
<1>3. Singles(hs[l].pendingEntries)
  BY <1>2 DEF Singles
<1>4. ForTasks(hs, l) = ForTasks(ls, l) + t.entry.count
  <2>1. ls[l].logicalDepth \in Nat /\ ls[l].pendingEntries \in Seq(Entry)
    BY DEF Tables, LaneRecord
  <2>2. Len(ls[l].pendingEntries) \in Nat /\ Len(hs[l].pendingEntries) = 0
    BY <1>2, <2>1
  <2> QED
    BY <1>1, <1>2, <2>1, <2>2 DEF ForTasks
<1> QED
  BY <1>1, <1>2, <1>3, <1>4, AddsBalanced

\* A message of a lane that is not busy.
LEMMA EnqueueTaskDepth ==
  ASSUME IndInv, IndInv', DepthInv, NEW l \in Lane, Enqueue(l), ~Busy(l)
  PROVE  DepthInv'
<1> DEFINE m == Len(msgs) + 1
           q == QueueForLane(l)
           ls == IF lanes[l].exists THEN lanes ELSE [lanes EXCEPT ![l] = FreshLane(q)]
           ks == [ls EXCEPT ![l].logicalDepth = @ + 1]
           e == [ids |-> {m}, count |-> 1]
           t == EntryTask(l, e)
<1>1. /\ phase = "open" /\ Len(msgs) < MaxMsg
      /\ lanes[l].exists \/ Lanes(SessionOf[l]) # {} \/ \E p \in QId : Unused(p)
      /\ Schedule(queue, ks, owner, q, t)
  BY DEF Enqueue, Busy
<1>2. Depths(lanes, queue) /\ Tables(lanes, queue) /\ Placed(lanes, queue, msgs)
  BY <1>1 DEF DepthInv, IndInv, Types
<1> HIDE DEF ls
<1>3. Tables(ls, queue) /\ Placed(ls, queue, msgs) /\ q \in QId
  BY <1>1, LaneFound DEF ls, WithLane
<1> HIDE DEF q
<1>4. SameDepths(lanes, ls)
  <2>1. CASE lanes[l].exists
    BY <2>1 DEF ls, SameDepths
  <2>2. CASE ~lanes[l].exists
    <3>1. lanes[l] = NoLane
      BY <1>1, <2>2 DEF IndInv, Phased
    <3>2. lanes[l].logicalDepth = 0 /\ lanes[l].pendingEntries = <<>>
      BY <3>1 DEF NoLane, FreshLane
    <3>3. ls = [lanes EXCEPT ![l] = FreshLane(q)] /\ lanes \in [Lane -> LaneRecord]
      BY <1>2, <2>2 DEF ls, Tables
    <3> QED
      BY <3>2, <3>3 DEF SameDepths, FreshLane
  <2> QED
    BY <2>1, <2>2
<1>5. /\ OthersKeep(ls, ks, l) /\ ks[l].pendingEntries = ls[l].pendingEntries
      /\ ks[l].logicalDepth = ls[l].logicalDepth + 1
  <2>1. ls \in [Lane -> LaneRecord] /\ ls[l] \in LaneRecord
    BY <1>3 DEF Tables
  <2> QED
    BY <2>1 DEF OthersKeep, LaneRecord
<1>6. Tables(ks, queue)
  <2>1. ls \in [Lane -> LaneRecord] /\ ls[l] \in LaneRecord
    BY <1>3 DEF Tables
  <2> DEFINE n == ls[l].logicalDepth + 1
  <2>2. n \in Nat /\ ks = [ls EXCEPT ![l] = [ls[l] EXCEPT !.logicalDepth = n]]
    BY <2>1 DEF LaneRecord
  <2> HIDE DEF n, ks
  <2>3. [ls[l] EXCEPT !.logicalDepth = n] \in LaneRecord
    BY <2>1, <2>2 DEF LaneRecord
  <2> QED
    BY <1>3, <2>1, <2>2, <2>3 DEF Tables
<1> HIDE DEF ks
<1>7. m \in Msg /\ m \notin 1 .. Len(msgs)
  BY <1>1, QueueAssumption DEF IndInv, Types, Msg
<1> HIDE DEF m
<1>8. e \in Entry /\ t \in Task /\ t.lane = l /\ t.entry = e /\ e.ids = {m} /\ ~IsSteer(t)
      /\ t.entry.count = 1
  BY <1>7 DEF Entry, Task, EntryTask, IsSteer
<1> HIDE DEF e, t
<1>9. ~InTask(queue, l, e)
  <2>1. Absent(ls, queue, e.ids)
    BY <1>3, <1>7, <1>8, InsideAccepted DEF Absent
  <2> QED
    BY <1>8, <2>1, AbsentTask
<1>10. Adds(queue, queue', t) /\ SameDepths(ks, lanes')
  BY <1>1, <1>3, <1>6, <1>8, ScheduleAdds
<1>11. Tables(lanes', queue')
  BY DEF IndInv, Types
<1>12. /\ OthersKeep(lanes, lanes', l) /\ lanes'[l].pendingEntries = lanes[l].pendingEntries
       /\ lanes'[l].logicalDepth = lanes[l].logicalDepth + 1
  BY <1>4, <1>5, <1>10 DEF OthersKeep, SameDepths
<1>13. Singles(lanes'[l].pendingEntries)
  BY <1>2, <1>12 DEF Depths, Balanced
<1>14. ForTasks(lanes', l) = ForTasks(lanes, l) + t.entry.count
  <2>1. lanes[l].logicalDepth \in Nat /\ lanes[l].pendingEntries \in Seq(Entry)
    BY <1>2 DEF Tables, LaneRecord
  <2>2. Len(lanes[l].pendingEntries) \in Nat
    BY <2>1
  <2> QED
    BY <1>8, <1>12, <2>1, <2>2 DEF ForTasks
<1>15. Depths(lanes', queue')
  BY <1>2, <1>8, <1>9, <1>10, <1>11, <1>12, <1>13, <1>14, AddsBalanced
<1> QED
  BY <1>15 DEF DepthInv

\* The overflow policy leaves single entries, and drops as many as it says.
LEMMA OverflowCounts ==
  ASSUME NEW es \in Seq(Entry), es # <<>>, Singles(es), policy \in Policies
  PROVE  Len(Overflow(es)) = Len(es) - Dropped(es) /\ Singles(Overflow(es))
<1>1. Len(es) \in Nat /\ Len(es) > 0 /\ DOMAIN es = 1 .. Len(es) /\ MaxDepth \in Nat /\ MaxDepth > 0
  BY QueueAssumption
<1>2. CASE Len(es) <= MaxDepth
  BY <1>1, <1>2 DEF Overflow, Dropped
<1>3. CASE Len(es) > MaxDepth
  <2>1. policy \in {"drop-old", "drop-new", "summarize"}
    BY QueueAssumption
  <2>2. CASE policy = "drop-old"
    <3> DEFINE k == Len(es) - MaxDepth
               fs == SubSeq(es, k + 1, Len(es))
    <3>1. Overflow(es) = fs /\ Dropped(es) = k
      BY <1>1, <1>3, <2>2, SMTT(30) DEF Overflow, Dropped
    <3>2. k \in Nat /\ k + 1 \in 1 .. Len(es)
      BY <1>1, <1>3
    <3>3. fs \in Seq(Entry) /\ Len(fs) = Len(es) - k /\ \A i \in 1 .. Len(fs) : fs[i] = es[k + i]
      <4> HIDE DEF k
      <4> QED
        BY <1>1, <3>2
    <3>4. \A i \in 1 .. Len(fs) : k + i \in 1 .. Len(es)
      <4> HIDE DEF k, fs
      <4> QED
        BY <1>1, <3>2, <3>3
    <3>5. DOMAIN fs = 1 .. Len(fs)
      BY <3>3
    <3> HIDE DEF k, fs
    <3>6. Singles(fs)
      BY <1>1, <3>3, <3>4, <3>5 DEF Singles
    <3> QED
      BY <3>1, <3>3, <3>6
  <2>3. CASE policy = "drop-new"
    <3> DEFINE fs == Front(es)
    <3>1. Overflow(es) = fs /\ Dropped(es) = 1
      BY <1>1, <1>3, <2>3 DEF Overflow, Dropped
    <3>2. Len(fs) = Len(es) - 1 /\ DOMAIN fs = 1 .. Len(es) - 1
          /\ \A i \in 1 .. Len(es) - 1 : fs[i] = es[i]
      BY <1>1 DEF Front
    <3> HIDE DEF fs
    <3>3. Singles(fs)
      BY <1>1, <3>2 DEF Singles
    <3> QED
      BY <3>1, <3>2, <3>3
  <2>4. CASE policy = "summarize"
    <3> DEFINE s == [ids |-> MsgsOf(es), count |-> 1]
    <3>1. Overflow(es) = <<s>> /\ Dropped(es) = Len(es) - 1 /\ s.count = 1
      BY <1>1, <1>3, <2>4 DEF Overflow, Dropped
    <3> HIDE DEF s
    <3>2. Len(<<s>>) = 1 /\ Singles(<<s>>)
      BY <3>1 DEF Singles
    <3> QED
      BY <1>1, <3>1, <3>2
  <2> QED
    BY <2>1, <2>2, <2>3, <2>4
<1> QED
  BY <1>1, <1>2, <1>3

\* A message of a busy lane.
LEMMA EnqueueCollectedDepth ==
  ASSUME IndInv, IndInv', DepthInv, NEW l \in Lane, Enqueue(l), Busy(l)
  PROVE  DepthInv'
<1> DEFINE m == Len(msgs) + 1
           old == lanes[l].pendingEntries
           e == [ids |-> {m}, count |-> 1]
           before == Append(old, e)
           after == Overflow(before)
           d == lanes[l].logicalDepth + 1 - Dropped(before)
           n == IF d < 0 THEN 0 ELSE d
           q == lanes[l].q
<1>1. lanes[l].exists
  <2>1. lanes \in [Lane -> LaneRecord]
    BY DEF IndInv, Types, Tables
  <2>2. CASE ~lanes[l].exists
    <3>1. [lanes EXCEPT ![l] = FreshLane(QueueForLane(l))][l].isExecuting
      BY <2>2 DEF Busy
    <3> QED
      BY <2>1, <3>1 DEF FreshLane
  <2> QED
    BY <2>2
<1>2. /\ phase = "open" /\ Len(msgs) < MaxMsg /\ EnqueuePending(l, m, lanes)
  BY <1>1 DEF Enqueue, Busy
<1>3. /\ lanes' = [lanes EXCEPT ![l].pendingEntries = after, ![l].logicalDepth = n]
      /\ queue' = IF mode[l] = "steer" THEN Joined(queue, q, SteerTask(l)) ELSE queue
  BY <1>2 DEF EnqueuePending, Joined
<1>4. /\ Depths(lanes, queue) /\ Tables(lanes, queue) /\ Placed(lanes, queue, msgs)
      /\ policy \in Policies /\ Tables(lanes', queue')
  BY <1>2 DEF DepthInv, IndInv, Types
<1>5. lanes[l].logicalDepth \in Nat /\ old \in Seq(Entry) /\ Singles(old) /\ q \in QId
      /\ lanes \in [Lane -> LaneRecord] /\ lanes[l] \in LaneRecord
  BY <1>1, <1>4 DEF Tables, LaneRecord, Depths, Balanced, Placed, Shared
<1>6. lanes[l].logicalDepth - Len(old) \in Nat
  <2> DEFINE T == Tasks(queue, l)
  <2>1. /\ IsFiniteSet(T) /\ T \in SUBSET Entry
        /\ lanes[l].logicalDepth = CountSum(T) + Len(old)
    BY <1>4 DEF Depths, Balanced, Tasks
  <2> HIDE DEF T
  <2>2. CountSum(T) \in Nat
    BY <2>1, CountSumNat
  <2>3. Len(old) \in Nat
    BY <1>5
  <2> QED
    BY <2>1, <2>2, <2>3
<1>7. before \in Seq(Entry) /\ before # <<>> /\ Singles(before) /\ Len(before) = Len(old) + 1
  <2>1. m \in Msg
    BY <1>2, QueueAssumption DEF IndInv, Types, Msg
  <2>2. e \in Entry /\ e.count = 1
    BY <2>1 DEF Entry
  <2> HIDE DEF e, old
  <2>3. /\ before \in Seq(Entry) /\ Len(before) = Len(old) + 1 /\ DOMAIN before = 1 .. Len(old) + 1
        /\ before[Len(old) + 1] = e /\ \A i \in 1 .. Len(old) : before[i] = old[i]
        /\ DOMAIN old = 1 .. Len(old) /\ Len(old) \in Nat
    BY <1>5, <2>2
  <2> HIDE DEF before
  <2>4. Singles(before)
    BY <1>5, <2>2, <2>3 DEF Singles
  <2>5. before # <<>>
    BY <2>3
  <2> QED
    BY <2>3, <2>4, <2>5
<1>8. Len(after) = Len(before) - Dropped(before) /\ Singles(after)
  <2> HIDE DEF before
  <2> QED
    BY <1>4, <1>7, OverflowCounts
<1>9. /\ OthersKeep(lanes, lanes', l) /\ lanes'[l].pendingEntries = after
      /\ lanes'[l].logicalDepth = n
  <2> HIDE DEF after, n
  <2> QED
    BY <1>3, <1>5 DEF OthersKeep, LaneRecord
<1>10. n - Len(after) = lanes[l].logicalDepth - Len(old) /\ n \in Nat /\ Len(after) \in Nat
  <2>1. after \in Seq(Entry)
    BY <1>4, <1>9 DEF Tables, LaneRecord
  <2> HIDE DEF after
  <2>2. Len(after) \in Nat
    BY <2>1
  <2> DEFINE c == Len(before)
             x == Dropped(before)
             y == lanes[l].logicalDepth
             o == Len(old)
  <2>3. c \in Nat /\ o \in Nat /\ c = o + 1 /\ Len(after) = c - x /\ y - o \in Nat /\ y \in Nat
    <3> HIDE DEF before, old
    <3> QED
      BY <1>5, <1>6, <1>7, <1>8
  <2>4. x \in Int
    BY <2>3, QueueAssumption DEF Dropped
  <2>5. n = IF y + 1 - x < 0 THEN 0 ELSE y + 1 - x
    OBVIOUS
  <2> HIDE DEF c, x, y, o, n, before, old
  <2>6. y + 1 - x = (y - o) + Len(after)
    BY <2>2, <2>3, <2>4
  <2>7. n = (y - o) + Len(after)
    BY <2>2, <2>3, <2>5, <2>6
  <2>8. n - Len(after) = y - o /\ n \in Nat
    BY <2>2, <2>3, <2>7
  <2> QED
    BY <2>2, <2>8 DEF y, o, old
<1>11. SameTasks(queue, queue')
  <2>1. CASE mode[l] = "steer"
    <3>1. SteerTask(l) \in Task /\ IsSteer(SteerTask(l))
      BY DEF SteerTask, Task, Entry, IsSteer
    <3>2. Adds(queue, queue', SteerTask(l))
      BY <1>3, <1>4, <1>5, <2>1, <3>1, TaskJoined
    <3> QED
      BY <3>1, <3>2 DEF Adds, SameTasks, TaskIs
  <2>2. CASE mode[l] # "steer"
    BY <1>3, <2>2 DEF SameTasks
  <2> QED
    BY <2>1, <2>2
<1>12. \A k \in Lane : Singles(lanes'[k].pendingEntries) /\ ForTasks(lanes', k) = ForTasks(lanes, k)
  <2> HIDE DEF after, n
  <2>1. \A k \in Lane : Singles(lanes[k].pendingEntries)
    BY <1>4 DEF Depths, Balanced
  <2>2. ForTasks(lanes', l) = ForTasks(lanes, l)
    BY <1>9, <1>10 DEF ForTasks
  <2>3. \A k \in Lane : k # l => ForTasks(lanes', k) = ForTasks(lanes, k)
    BY <1>9 DEF ForTasks, OthersKeep
  <2> QED
    BY <1>8, <1>9, <2>1, <2>2, <2>3 DEF OthersKeep
<1>13. Depths(lanes', queue')
  BY <1>4, <1>11, <1>12, SameBalanced
<1> QED
  BY <1>13 DEF DepthInv

\* A lane owes at least what a task of it counts.
LEMMA Covers ==
  ASSUME NEW ls, NEW qs, Tables(ls, qs), Depths(ls, qs), NEW l \in Lane, NEW e \in Entry,
         InTask(qs, l, e)
  PROVE  ForTasks(ls, l) \in Nat /\ e.count \in Nat /\ ForTasks(ls, l) >= e.count
<1> DEFINE T == Tasks(qs, l)
           S == T \ {e}
<1>1. IsFiniteSet(T) /\ T \in SUBSET Entry /\ e \in T /\ e.count \in Nat
  BY DEF Depths, Balanced, Tasks, Entry
<1>2. ls[l].logicalDepth = CountSum(T) + Len(ls[l].pendingEntries)
  BY DEF Depths, Balanced
<1>3. ls[l].pendingEntries \in Seq(Entry)
  BY DEF Tables, LaneRecord
<1> HIDE DEF T
<1>4. IsFiniteSet(S) /\ S \in SUBSET Entry /\ e \notin S /\ T = S \cup {e}
  BY <1>1, FS_Subset
<1> HIDE DEF S
<1>5. CountSum(S) \in Nat /\ CountSum(T) = CountSum(S) + e.count
  BY <1>4, CountSumNat, CountSumGrows
<1>6. Len(ls[l].pendingEntries) \in Nat
  BY <1>3
<1> QED
  BY <1>1, <1>2, <1>5, <1>6 DEF ForTasks

\* The started task of a queue leaves it.
LEMMA TaskEnded ==
  ASSUME NEW ls, NEW qs, NEW ms, NEW ps, Tables(ls, qs), Placed(ls, qs, ms), NEW q \in QId,
         qs[q].stage = "exec", ~Started(ps, q), \A p \in QId : ps[p].waiting = qs[p].waiting,
         \A p \in QId : p # q => ps[p] = qs[p]
  PROVE  /\ qs[q].run \in Task /\ ~IsSteer(qs[q].run) /\ Adds(ps, qs, qs[q].run)
         /\ ~InTask(ps, qs[q].run.lane, qs[q].run.entry)
         /\ InTask(qs, qs[q].run.lane, qs[q].run.entry)
<1> DEFINE t == qs[q].run
<1>1. Started(qs, q) /\ t \in Task /\ OfLane(t.entry, t.lane, ms)
  BY DEF Placed, RunHome, Started
<1>2. ~IsSteer(t)
  BY <1>1 DEF IsSteer, OfLane
<1>3. ASSUME NEW k, NEW e
      PROVE  (\E p \in QId : Started(qs, p) /\ TaskIs(qs[p].run, k, e)) <=>
             (\E p \in QId : Started(ps, p) /\ TaskIs(ps[p].run, k, e)) \/ TaskIs(t, k, e)
  <2> DEFINE A(p) == Started(ps, p) /\ TaskIs(ps[p].run, k, e)
             B(p) == Started(qs, p) /\ TaskIs(qs[p].run, k, e)
  <2>1. (B(q) <=> TaskIs(t, k, e)) /\ ~A(q)
    BY <1>1
  <2>2. \A p \in QId : p # q => (A(p) <=> B(p))
    BY DEF Started
  <2> HIDE DEF A, B, t
  <2>3. (\E p \in QId : B(p)) <=> (\E p \in QId : A(p)) \/ TaskIs(t, k, e)
    BY <2>1, <2>2
  <2> QED
    BY <2>3 DEF A, B
<1>4. Adds(ps, qs, t)
  BY <1>3 DEF Adds, InTask
<1>5. ~InTask(ps, t.lane, t.entry)
  <2>1. PICK m \in t.entry.ids : TRUE
    BY <1>1 DEF OfLane
  <2>2. Sole(ls, qs, m)
    BY OnePlace
  <2>3. \A p \in QId : Started(ps, p) => p # q /\ Started(qs, p) /\ ps[p].run = qs[p].run
    BY DEF Started
  <2> QED
    BY <1>1, <2>1, <2>2, <2>3 DEF InTask, TaskIs, Sole
<1>6. InTask(qs, t.lane, t.entry)
  BY <1>1, <1>2 DEF InTask, TaskIs
<1> QED
  BY <1>1, <1>2, <1>4, <1>5, <1>6

\* Its lane gives up what the handler's entry counts.
LEMMA FinishDepth ==
  ASSUME IndInv, IndInv', DepthInv, NEW q \in QId, Finish(q)
  PROVE  DepthInv'
<1> SUFFICES ASSUME phase = "open" PROVE Depths(lanes', queue')
  BY Zenon DEF DepthInv, Finish
<1> DEFINE r == queue[q].run
           l == r.lane
           e == r.entry
           d == lanes[l].logicalDepth - e.count
           n == IF d < 0 THEN 0 ELSE d
           es == lanes[l].pendingEntries
           collect == mode[l] = "collect" /\ es # <<>>
           t == EntryTask(l, Coalesced(es))
           qs == [queue EXCEPT ![q].stage = "ended"]
<1>1. queue[q].stage = "exec"
  BY Zenon DEF Finish
<1>lanes. lanes' = [lanes EXCEPT ![l].isExecuting = FALSE, ![l].logicalDepth = n,
                                 ![l].pendingEntries = IF collect THEN <<>> ELSE @]
  BY Zenon DEF Finish
<1>queue. queue' = [queue EXCEPT ![q].stage = "ended",
                       ![q].waiting = IF collect THEN Append(@, t) ELSE @]
  BY Zenon DEF Finish
<1>2. /\ Depths(lanes, queue) /\ Tables(lanes, queue) /\ Placed(lanes, queue, msgs)
      /\ Tables(lanes', queue')
  BY DEF DepthInv, IndInv, Types
<1>3. queue \in [QId -> QueueRecord] /\ queue[q] \in QueueRecord /\ lanes \in [Lane -> LaneRecord]
  BY <1>2 DEF Tables
<1>4. /\ qs[q].stage = "ended" /\ qs[q].waiting = queue[q].waiting
      /\ \A p \in QId : p # q => qs[p] = queue[p]
  BY <1>3 DEF QueueRecord
<1>5. ~Started(qs, q) /\ (\A p \in QId : qs[p].waiting = queue[p].waiting) /\ Tables(lanes, qs)
  <2>1. [queue[q] EXCEPT !.stage = "ended"] \in QueueRecord
    BY <1>3 DEF QueueRecord, Stage
  <2> QED
    BY <1>2, <1>3, <1>4, <2>1 DEF Started, Tables
<1>6. /\ r \in Task /\ ~IsSteer(r) /\ Adds(qs, queue, r)
      /\ ~InTask(qs, l, e) /\ InTask(queue, l, e)
  <2> HIDE DEF qs
  <2> QED
    BY <1>1, <1>2, <1>4, <1>5, TaskEnded
<1>7. l \in Lane /\ e \in Entry /\ lanes[l] \in LaneRecord
  BY <1>3, <1>6 DEF Task
<1>8. /\ es \in Seq(Entry) /\ Len(es) \in Nat /\ lanes[l].logicalDepth \in Nat /\ Singles(es)
      /\ lanes[l].q = q
  <2>1. es \in Seq(Entry) /\ lanes[l].logicalDepth \in Nat /\ Singles(es)
    BY <1>2, <1>7 DEF LaneRecord, Depths, Balanced
  <2>2. lanes[l].q = q
    BY <1>1, <1>2 DEF Placed, RunHome
  <2> QED
    BY <2>1, <2>2
<1>9. n = lanes[l].logicalDepth - e.count
  <2>1. ForTasks(lanes, l) \in Nat /\ e.count \in Nat /\ ForTasks(lanes, l) >= e.count
    BY <1>2, <1>6, <1>7, Covers
  <2>2. Len(es) \in Nat /\ lanes[l].logicalDepth \in Nat
        /\ ForTasks(lanes, l) = lanes[l].logicalDepth - Len(es)
    BY <1>8 DEF ForTasks
  <2> HIDE DEF r, l, e, es
  <2> QED
    BY <2>1, <2>2
<1>10. /\ OthersKeep(lanes, lanes', l) /\ lanes'[l].logicalDepth = n
       /\ lanes'[l].pendingEntries = IF collect THEN <<>> ELSE es
  <2> HIDE DEF n
  <2>1. lanes' = [lanes EXCEPT ![l] = [lanes[l] EXCEPT !.isExecuting = FALSE, !.logicalDepth = n,
                     !.pendingEntries = IF collect THEN <<>> ELSE es]]
    BY <1>lanes, Zenon
  <2> HIDE DEF collect
  <2> QED
    BY <1>3, <1>7, <2>1 DEF OthersKeep, LaneRecord
<1>11. e.count \in Nat
  BY <1>7 DEF Entry
<1> HIDE DEF n
<1>12. CASE ~collect
  <2>1. queue' = [queue EXCEPT ![q].stage = "ended", ![q].waiting = queue[q].waiting]
    BY <1>queue, <1>12, Zenon
  <2>2. queue' = qs
    BY <1>3, <2>1 DEF QueueRecord
  <2>3. ForTasks(lanes', l) = ForTasks(lanes, l) - e.count
    <3>1. lanes'[l].pendingEntries = es
      BY <1>10, <1>12, Zenon
    <3>2. lanes'[l].logicalDepth = lanes[l].logicalDepth - e.count
      BY <1>9, <1>10, Zenon
    <3> HIDE DEF r, l, e, es
    <3> QED
      BY <1>8, <1>11, <3>1, <3>2 DEF ForTasks, es
  <2>4. Singles(lanes'[l].pendingEntries)
    BY <1>8, <1>10, <1>12
  <2> HIDE DEF qs, r
  <2> QED
    BY <1>2, <1>6, <1>10, <2>2, <2>3, <2>4, LosesBalanced
<1>13. CASE collect
  <2> DEFINE ks == Cleared(lanes, l)
             ps == Joined(queue, q, t)
  <2>1. queue' = Joined(qs, q, t)
    <3>1. queue' = [queue EXCEPT ![q].stage = "ended", ![q].waiting = Append(queue[q].waiting, t)]
      BY <1>queue, <1>13, Zenon
    <3>2. Joined(qs, q, t) =
             [queue EXCEPT ![q].stage = "ended", ![q].waiting = Append(queue[q].waiting, t)]
      BY <1>3 DEF Joined, QueueRecord
    <3> QED
      BY <3>1, <3>2
  <2>2. /\ Tables(ks, queue) /\ t \in Task /\ t.lane = l /\ ~IsSteer(t)
        /\ ~InTask(queue, l, t.entry) /\ OthersKeep(lanes, ks, l) /\ ks[l].pendingEntries = <<>>
        /\ ks[l].logicalDepth = lanes[l].logicalDepth
    <3>1. lanes[l].pendingEntries # <<>> /\ l \in Lane /\ lanes[l].q = q
      BY <1>7, <1>8, <1>13
    <3> HIDE DEF l
    <3> QED
      BY <1>2, <3>1, CoalescedOwed
  <2> HIDE DEF qs, r
  <2>3. Adds(queue, ps, t) /\ Adds(qs, queue', t)
    <3> HIDE DEF t
    <3> QED
      BY <1>2, <1>5, <2>1, <2>2, TaskJoined
  <2>4. Tables(ks, ps)
    <3>1. Append(queue[q].waiting, t) \in Seq(Task)
      BY <1>3, <2>2 DEF QueueRecord
    <3>2. ps = [queue EXCEPT ![q] = [queue[q] EXCEPT !.waiting = Append(queue[q].waiting, t)]]
      BY DEF Joined
    <3>3. [queue[q] EXCEPT !.waiting = Append(queue[q].waiting, t)] \in QueueRecord
      BY <1>3, <3>1 DEF QueueRecord
    <3> QED
      BY <1>3, <2>2, <3>2, <3>3 DEF Tables
  <2>5. Depths(ks, ps)
    <3>1. SameDepths(ks, ks)
      BY DEF SameDepths
    <3> QED
      BY <1>2, <1>7, <1>8, <1>13, <2>3, <2>4, <3>1, CoalescedBalanced
  <2> HIDE DEF ks, ps, t
  <2>6. Adds(queue', ps, r) /\ ~InTask(queue', l, e)
    <3>1. Adds(queue', ps, r)
      BY <1>6, <2>3 DEF Adds
    <3>2. ~TaskIs(t, l, e)
      BY <1>6, <2>2 DEF TaskIs
    <3> QED
      BY <1>6, <2>3, <3>1, <3>2 DEF Adds
  <2>7. OthersKeep(ks, lanes', l) /\ Singles(lanes'[l].pendingEntries)
    BY <1>10, <1>13, <2>2 DEF OthersKeep, Singles
  <2>8. ForTasks(lanes', l) = ForTasks(ks, l) - e.count
    BY <1>8, <1>9, <1>10, <1>11, <1>13, <2>2 DEF ForTasks
  <2> QED
    BY <1>2, <1>6, <2>4, <2>5, <2>6, <2>7, <2>8, LosesBalanced
<1> QED
  BY <1>12, <1>13

\* Nothing that a lane's depth depends on changes.
LEMMA KeepsDepths ==
  ASSUME NEW ls, NEW qs, NEW ks, NEW ps, Tables(ls, qs), Tables(ks, ps), Depths(ls, qs),
         SameTasks(qs, ps), SameDepths(ls, ks)
  PROVE  Depths(ks, ps)
<1>1. \A k \in Lane : Singles(ks[k].pendingEntries) /\ ForTasks(ks, k) = ForTasks(ls, k)
  BY DEF Depths, Balanced, SameDepths, ForTasks
<1> QED
  BY <1>1, SameBalanced

\* Queues whose started and waiting tasks are the same.
LEMMA AlikeTasks ==
  ASSUME NEW qs, NEW ps,
         \A p \in QId : /\ Started(ps, p) <=> Started(qs, p)
                        /\ Started(qs, p) => ps[p].run = qs[p].run
                        /\ ps[p].waiting = qs[p].waiting
  PROVE  SameTasks(qs, ps)
  BY DEF SameTasks, InTask

\* A slot of the gate passes on.
LEMMA GateReleaseDepth ==
  ASSUME IndInv, IndInv', DepthInv, NEW q \in QId, GateRelease(q)
  PROVE  DepthInv'
<1> SUFFICES ASSUME phase = "open" PROVE Depths(lanes', queue')
  BY DEF DepthInv, GateRelease
<1> DEFINE qs == [queue EXCEPT ![q].stage = "leaving"]
<1>1. queue[q].stage = "ended"
  BY DEF GateRelease
<1>2. /\ Depths(lanes, queue) /\ Tables(lanes, queue) /\ Placed(lanes, queue, msgs)
      /\ Tables(lanes', queue') /\ AtGate(queue, gateWait) /\ gateWait \in Seq(QId)
  BY DEF DepthInv, IndInv, Types
<1>3. queue \in [QId -> QueueRecord] /\ queue[q] \in QueueRecord /\ lanes \in [Lane -> LaneRecord]
  BY <1>2 DEF Tables
<1>4. /\ qs[q].stage = "leaving" /\ qs[q].waiting = queue[q].waiting /\ qs[q].run = queue[q].run
      /\ qs \in [QId -> QueueRecord] /\ \A p \in QId : p # q => qs[p] = queue[p]
  <2>1. [queue[q] EXCEPT !.stage = "leaving"] \in QueueRecord
    BY <1>3 DEF QueueRecord, Stage
  <2> QED
    BY <1>3, <2>1 DEF QueueRecord
<1> HIDE DEF qs
<1>5. CASE gateWait = <<>>
  <2>1. queue' = qs /\ lanes' = lanes
    BY <1>5 DEF GateRelease, qs
  <2>2. \A p \in QId : /\ Started(qs, p) <=> Started(queue, p)
                       /\ Started(queue, p) => qs[p].run = queue[p].run
                       /\ qs[p].waiting = queue[p].waiting
    BY <1>1, <1>4 DEF Started
  <2>3. SameTasks(queue, qs)
    BY <2>2, AlikeTasks
  <2> QED
    BY <1>2, <2>1, <2>3, KeepsDepths DEF SameDepths
<1>6. CASE gateWait # <<>>
  <2> DEFINE w == Head(gateWait)
             t == queue[w].run
             ps == [qs EXCEPT ![w].stage = "exec"]
             ks == [lanes EXCEPT ![t.lane].isExecuting = TRUE]
  <2>1. queue' = ps /\ lanes' = ks
    BY <1>6 DEF GateRelease, qs
  <2>2. w \in QId /\ 1 \in DOMAIN gateWait /\ w = gateWait[1]
    BY <1>2, <1>6
  <2>3. queue[w].stage = "gate" /\ w # q /\ qs[w] = queue[w] /\ qs[w].stage = "gate"
    BY <1>1, <1>2, <1>4, <2>2 DEF AtGate
  <2>4. t.lane \in Lane
    BY <1>2, <2>2, <2>3 DEF Placed, RunHome, Task
  <2> HIDE DEF w, t
  <2>5. /\ \A p \in QId : p # w => ps[p] = qs[p]
        /\ ps[w].stage = "exec" /\ ps[w].waiting = qs[w].waiting /\ ps[w].run = qs[w].run
    BY <1>4, <2>2 DEF QueueRecord
  <2>6. \A p \in QId : /\ Started(ps, p) <=> Started(queue, p)
                       /\ Started(queue, p) => ps[p].run = queue[p].run
                       /\ ps[p].waiting = queue[p].waiting
    <3> HIDE DEF ps
    <3>1. ASSUME NEW p \in QId, p = w
          PROVE  Started(ps, p) /\ Started(queue, p) /\ ps[p].run = queue[p].run
                 /\ ps[p].waiting = queue[p].waiting
      BY <2>3, <2>5, <3>1 DEF Started
    <3>2. ASSUME NEW p \in QId, p # w
          PROVE  /\ Started(ps, p) <=> Started(queue, p)
                 /\ Started(queue, p) => ps[p].run = queue[p].run
                 /\ ps[p].waiting = queue[p].waiting
      BY <1>1, <1>4, <2>5, <3>2 DEF Started
    <3> QED
      BY <3>1, <3>2
  <2>7. SameTasks(queue, ps)
    <3> HIDE DEF ps
    <3> QED
      BY <2>6, AlikeTasks
  <2>8. SameDepths(lanes, ks)
    <3>1. ks = [lanes EXCEPT ![t.lane] = [lanes[t.lane] EXCEPT !.isExecuting = TRUE]]
      OBVIOUS
    <3>2. lanes[t.lane] \in LaneRecord
      BY <1>3, <2>4
    <3> QED
      BY <1>3, <2>4, <3>1, <3>2 DEF SameDepths, LaneRecord
  <2> HIDE DEF ps, ks
  <2> QED
    BY <1>2, <2>1, <2>7, <2>8, KeepsDepths
<1> QED
  BY <1>5, <1>6

\* A session queue starts its next task, if it has one.
LEMMA SessionNextDepth ==
  ASSUME IndInv, IndInv', DepthInv, NEW q \in QId, SessionNext(q)
  PROVE  DepthInv'
<1> SUFFICES ASSUME phase = "open" PROVE Depths(lanes', queue')
  BY DEF DepthInv, SessionNext
<1>1. queue[q].stage = "leaving"
  BY DEF SessionNext
<1>2. /\ Depths(lanes, queue) /\ Tables(lanes, queue) /\ Placed(lanes, queue, msgs)
      /\ Tables(lanes', queue')
  BY DEF DepthInv, IndInv, Types
<1>3. queue \in [QId -> QueueRecord] /\ queue[q] \in QueueRecord /\ ~Started(queue, q)
  BY <1>1, <1>2 DEF Tables, Started
<1>4. CASE queue[q].waiting = <<>>
  <2> DEFINE ps == [queue EXCEPT ![q].stage = "none", ![q].run = NoTask]
  <2>1. queue' = ps /\ lanes' = lanes
    BY <1>4 DEF SessionNext
  <2>2. /\ \A p \in QId : p # q => ps[p] = queue[p]
        /\ ps[q].stage = "none" /\ ps[q].waiting = queue[q].waiting
    BY <1>3 DEF QueueRecord
  <2> HIDE DEF ps
  <2>3. \A p \in QId : /\ Started(ps, p) <=> Started(queue, p)
                       /\ Started(queue, p) => ps[p].run = queue[p].run
                       /\ ps[p].waiting = queue[p].waiting
    BY <1>3, <2>2 DEF Started
  <2>4. SameTasks(queue, ps)
    BY <2>3, AlikeTasks
  <2> QED
    BY <1>2, <2>1, <2>4, KeepsDepths DEF SameDepths
<1>5. CASE queue[q].waiting # <<>>
  <2> DEFINE h == Head(queue[q].waiting)
             qs == Taken(queue, q)
             es == lanes[h.lane].pendingEntries
  <2>1. IF ~IsSteer(h) THEN RunThroughGate(qs, lanes, owner, q, h)
        ELSE IF es = <<>> THEN queue' = qs /\ UNCHANGED <<lanes, gateWait, owner>>
        ELSE RunThroughGate(qs, [lanes EXCEPT ![h.lane].pendingEntries = <<>>],
                            CoalescedOwner(es, owner), q, EntryTask(h.lane, Coalesced(es)))
    BY <1>5 DEF SessionNext, Taken
  <2>2. /\ Tables(lanes, qs) /\ Placed(lanes, qs, msgs) /\ h \in Task /\ lanes[h.lane].q = q
        /\ \A p \in QId : qs[p].run = queue[p].run /\ qs[p].stage = queue[p].stage
    <3>1. FirstTaken(lanes, queue, qs, msgs, q)
      BY <1>2, <1>3, <1>5, TakenPlaced
    <3> QED
      BY <3>1 DEF FirstTaken
  <2>3. Adds(qs, queue, h)
    BY <1>2, <1>5, TaskTaken
  <2> HIDE DEF h, qs
  <2>4. ~Started(qs, q) /\ h.lane \in Lane
    BY <1>3, <2>2 DEF Started, Task
  <2>5. CASE ~IsSteer(h)
    <3>1. Adds(qs, queue', h) /\ SameDepths(lanes, lanes')
      BY <2>1, <2>2, <2>4, <2>5, GateAdds
    <3>2. SameTasks(queue, queue')
      BY <2>3, <3>1 DEF Adds, SameTasks
    <3> QED
      BY <1>2, <3>1, <3>2, KeepsDepths
  <2>6. CASE IsSteer(h)
    <3>1. SameTasks(queue, qs)
      BY <2>3, <2>6 DEF Adds, SameTasks, TaskIs
    <3>2. Depths(lanes, qs)
      BY <1>2, <2>2, <3>1, KeepsDepths DEF SameDepths
    <3>3. CASE es = <<>>
      BY <2>1, <2>6, <3>2, <3>3
    <3>4. CASE es # <<>>
      <4> DEFINE ks == Cleared(lanes, h.lane)
                 t == EntryTask(h.lane, Coalesced(es))
                 own == CoalescedOwner(es, owner)
      <4>1. RunThroughGate(qs, ks, own, q, t)
        BY <2>1, <2>6, <3>4 DEF Cleared
      <4>2. Tables(ks, qs) /\ t \in Task
        BY <2>2, <2>4, <3>2, <3>4, CoalescedOwed
      <4>3. Adds(qs, queue', t) /\ SameDepths(ks, lanes')
        <5> HIDE DEF ks, t, own
        <5> QED
          BY <2>4, <4>1, <4>2, GateAdds
      <4> QED
        BY <1>2, <2>2, <2>4, <3>2, <3>4, <4>3, CoalescedBalanced
    <3> QED
      BY <3>3, <3>4
  <2> QED
    BY <2>5, <2>6
<1> QED
  BY <1>4, <1>5

\* The debounce timer makes what is pending a task.
LEMMA DebounceFiresDepth ==
  ASSUME IndInv, IndInv', DepthInv, NEW l \in Lane, DebounceFires(l)
  PROVE  DepthInv'
<1> SUFFICES ASSUME phase = "open" PROVE Depths(lanes', queue')
  BY DEF DepthInv, DebounceFires
<1> DEFINE es == lanes[l].pendingEntries
           q == lanes[l].q
           ks == Cleared(lanes, l)
           t == EntryTask(l, Coalesced(es))
           own == CoalescedOwner(es, owner)
<1>1. IF lanes[l].isExecuting \/ es = <<>> THEN UNCHANGED <<lanes, queue, gateWait, owner>>
      ELSE Schedule(queue, ks, own, q, t)
  BY DEF DebounceFires, Cleared
<1>2. /\ Depths(lanes, queue) /\ Tables(lanes, queue) /\ Placed(lanes, queue, msgs)
      /\ Tables(lanes', queue')
  BY DEF DepthInv, IndInv, Types
<1>3. CASE lanes[l].isExecuting \/ es = <<>>
  BY <1>1, <1>2, <1>3
<1>4. CASE ~(lanes[l].isExecuting \/ es = <<>>)
  <2>1. q \in QId
    <3>1. lanes[l].exists
      BY <1>4 DEF IndInv, Phased, NoLane, FreshLane
    <3> QED
      BY <1>2, <3>1 DEF Placed, Shared, Tables, LaneRecord
  <2>2. Tables(ks, queue) /\ t \in Task
    BY <1>2, <1>4, <2>1, CoalescedOwed
  <2>3. Adds(queue, queue', t) /\ SameDepths(ks, lanes')
    <3> HIDE DEF ks, t, own, q
    <3> QED
      BY <1>1, <1>4, <2>1, <2>2, ScheduleAdds
  <2> QED
    BY <1>2, <1>4, <2>1, <2>3, CoalescedBalanced
<1> QED
  BY <1>3, <1>4

\* The idle sweep drops a lane that owes nothing.
LEMMA CleanupSweepDepth ==
  ASSUME IndInv, IndInv', DepthInv, NEW l \in Lane, CleanupSweep(l)
  PROVE  DepthInv'
<1>1. /\ phase = "open" /\ queue[lanes[l].q].stage = "none" /\ queue[lanes[l].q].waiting = <<>>
      /\ lanes' = [lanes EXCEPT ![l] = NoLane] /\ queue' = queue
  BY DEF CleanupSweep, IdleLane, Idle
<1>2. Depths(lanes, queue) /\ Tables(lanes, queue) /\ Placed(lanes, queue, msgs)
  BY <1>1 DEF DepthInv, IndInv, Types
<1>3. lanes'[l] = NoLane /\ \A k \in Lane : k # l => lanes'[k] = lanes[k]
  BY <1>1, <1>2 DEF Tables
<1>4. NoLane.pendingEntries = <<>> /\ NoLane.logicalDepth = 0
  BY DEF NoLane, FreshLane
<1>5. Tasks(queue, l) = {}
  <2>1. ASSUME NEW p \in QId, Started(queue, p), queue[p].run.lane = l PROVE FALSE
    <3>1. lanes[l].q = p
      BY <1>2, <2>1 DEF Placed, RunHome, Started
    <3> QED
      BY <1>1, <2>1, <3>1 DEF Started
  <2>2. ASSUME NEW p \in QId, NEW i \in DOMAIN queue[p].waiting, queue[p].waiting[i].lane = l
        PROVE  FALSE
    <3>1. lanes[l].q = p
      BY <1>2, <2>2 DEF Placed, WaitHome
    <3> QED
      BY <1>1, <3>1
  <2> QED
    BY <2>1, <2>2 DEF Tasks, InTask, TaskIs
<1>6. Balanced(lanes', queue, l)
  BY <1>3, <1>4, <1>5, CountSumEmpty DEF Balanced, Singles
<1>7. \A k \in Lane : k # l => Balanced(lanes', queue, k)
  BY <1>2, <1>3 DEF Depths, Balanced
<1>8. Depths(lanes', queue')
  BY <1>1, <1>6, <1>7 DEF Depths
<1> QED
  BY <1>8 DEF DepthInv

\* No lane owes anything at first.
LEMMA InitDepth == Init => DepthInv
<1> SUFFICES ASSUME Init, NEW k \in Lane PROVE Balanced(lanes, queue, k)
  BY DEF DepthInv, Depths
<1>1. lanes[k] = NoLane /\ \A q \in QId : queue[q].waiting = <<>> /\ queue[q].stage = "none"
  BY DEF Init
<1>2. NoLane.pendingEntries = <<>> /\ NoLane.logicalDepth = 0
  BY DEF NoLane, FreshLane
<1>3. Tasks(queue, k) = {}
  BY <1>1 DEF Tasks, InTask, Started
<1> QED
  BY <1>1, <1>2, <1>3, CountSumEmpty DEF Balanced, Singles

\* Every step keeps the depths.
LEMMA NextDepth == IndInv /\ IndInv' /\ DepthInv /\ [Next]_vars => DepthInv'
<1> SUFFICES ASSUME IndInv, IndInv', DepthInv, [Next]_vars PROVE DepthInv'
  OBVIOUS
<1>1. ASSUME NEW l \in Lane, Enqueue(l) PROVE DepthInv'
  BY <1>1, EnqueueTaskDepth, EnqueueCollectedDepth
<1>2. CASE ShutdownBegin \/ ShutdownEnd
  BY <1>2 DEF ShutdownBegin, ShutdownEnd, DepthInv
<1>3. CASE UNCHANGED vars
  <2>1. phase' = phase /\ lanes' = lanes /\ queue' = queue
    BY <1>3 DEF vars
  <2>2. phase = "open" => Depths(lanes', queue')
    BY <2>1 DEF DepthInv
  <2> QED
    BY <2>1, <2>2 DEF DepthInv
<1> QED
  BY <1>1, <1>2, <1>3, DebounceFiresDepth, CleanupSweepDepth, FinishDepth, GateReleaseDepth,
     SessionNextDepth DEF Next

\* The entries of a sequence, each once and none of them in S, add one each.
LEMMA CountSumSingles ==
  ASSUME NEW S \in SUBSET Entry, IsFiniteSet(S), NEW es \in Seq(Entry), Singles(es),
         \A i \in DOMAIN es : es[i] \notin S,
         \A i, j \in DOMAIN es : es[i] = es[j] => i = j
  PROVE  CountSum(S \cup Range(es)) = CountSum(S) + Len(es)
<1> DEFINE part(n) == S \cup {es[i] : i \in {j \in DOMAIN es : j <= n}}
           Good(n) == IsFiniteSet(part(n)) /\ CountSum(part(n)) = CountSum(S) + n
           T == {n \in Nat : n <= Len(es) => Good(n)}
<1>1. Len(es) \in Nat /\ DOMAIN es = 1 .. Len(es) /\ \A i \in DOMAIN es : es[i] \in Entry
  OBVIOUS
<1>2. CountSum(S) \in Nat
  BY CountSumNat
<1>3. 0 \in T
  <2>1. part(0) = S
    BY <1>1
  <2> HIDE DEF part
  <2> QED
    BY <1>2, <2>1
<1>4. ASSUME NEW n \in T PROVE n + 1 \in T
  <2> SUFFICES ASSUME n + 1 <= Len(es) PROVE Good(n + 1)
    OBVIOUS
  <2>1. Good(n) /\ n \in Nat
    BY <1>1
  <2>2. /\ n + 1 \in DOMAIN es /\ es[n + 1] \in Entry /\ es[n + 1].count = 1
    BY <1>1, <2>1 DEF Singles
  <2>3. part(n) \in SUBSET Entry /\ es[n + 1] \notin part(n)
    BY <1>1, <2>1, <2>2
  <2>4. part(n + 1) = part(n) \cup {es[n + 1]}
    <3>1. {j \in DOMAIN es : j <= n + 1} = {j \in DOMAIN es : j <= n} \cup {n + 1}
      BY <1>1, <2>1, <2>2
    <3> QED
      BY <3>1
  <2> DEFINE e == es[n + 1]
  <2> HIDE DEF part, e
  <2>5. IsFiniteSet(part(n) \cup {e}) /\ CountSum(part(n) \cup {e}) = CountSum(part(n)) + e.count
    <3>1. e \in Entry /\ e \notin part(n) /\ IsFiniteSet(part(n))
      BY <2>1, <2>2, <2>3 DEF e
    <3> DEFINE P == part(n)
    <3>2. P \in SUBSET Entry
      BY <2>3
    <3> HIDE DEF P
    <3>3. IsFiniteSet(P \cup {e}) /\ CountSum(P \cup {e}) = CountSum(P) + e.count
      BY <3>1, <3>2, CountSumGrows DEF P
    <3> QED
      BY <3>3 DEF P
  <2>6. CountSum(part(n)) = CountSum(S) + n /\ e.count = 1
    BY <2>1, <2>2 DEF e
  <2>7. part(n + 1) = part(n) \cup {e}
    BY <2>4 DEF e
  <2>8. CountSum(part(n + 1)) = CountSum(S) + (n + 1)
    <3>1. CountSum(part(n + 1)) = CountSum(part(n)) + e.count
      BY <2>5, <2>7
    <3> QED
      BY <1>2, <2>1, <2>6, <3>1
  <2>9. IsFiniteSet(part(n + 1))
    BY <2>5, <2>7
  <2> QED
    BY <2>8, <2>9
<1>5. T = Nat
  <2> T \in SUBSET Nat
    OBVIOUS
  <2> HIDE DEF T
  <2> QED
    BY <1>3, <1>4, InductiveSet
<1>6. Good(Len(es))
  <2>1. Len(es) \in T
    BY <1>1, <1>5
  <2> HIDE DEF Good
  <2> QED
    BY <1>1, <2>1
<1>7. part(Len(es)) = S \cup Range(es)
  BY <1>1 DEF Range
<1> HIDE DEF part
<1> QED
  BY <1>6, <1>7

\* A balanced lane reports what it owes.
LEMMA DepthIs == IndInv /\ DepthInv => DepthExact
<1> SUFFICES ASSUME IndInv, DepthInv, phase = "open", NEW l \in Lane
             PROVE  lanes[l].logicalDepth =
                       MapThenSumSet(LAMBDA e : e.count, WaitingEntries(l) \union ActiveEntries(l))
  BY DEF DepthExact
<1> DEFINE es == lanes[l].pendingEntries
           S == Tasks(queue, l)
<1>1. Tables(lanes, queue) /\ Placed(lanes, queue, msgs) /\ Depths(lanes, queue)
  BY DEF DepthInv, IndInv, Types
<1>2. es \in Seq(Entry) /\ Singles(es) /\ IsFiniteSet(S) /\ S \in SUBSET Entry
      /\ lanes[l].logicalDepth = CountSum(S) + Len(es)
  BY <1>1 DEF Tables, LaneRecord, Depths, Balanced, Tasks
<1>3. /\ \A i \in DOMAIN es : es[i].ids # {}
      /\ \A i, j \in DOMAIN es : es[i] = es[j] => i = j
  <2>1. \A i \in DOMAIN es : es[i].ids # {}
    BY <1>1 DEF Placed, PendingHome, OfLane
  <2>2. \A i, j \in DOMAIN es : i < j => Before(es[i].ids, es[j].ids)
    BY <1>1 DEF Placed, PendingHome
  <2>3. \A i \in DOMAIN es : i \in Nat /\ es[i].ids \in SUBSET Nat
    <3>1. \A i \in DOMAIN es : i \in Nat /\ es[i] \in Entry
      BY <1>2
    <3> QED
      BY <3>1, QueueAssumption DEF Entry, Msg
  <2> HIDE DEF es
  <2>4. ASSUME NEW i \in DOMAIN es, NEW j \in DOMAIN es, i < j PROVE es[i] # es[j]
    <3>1. PICK m \in es[i].ids : TRUE
      BY <2>1
    <3>2. m \in Nat /\ (es[i] = es[j] => m < m)
      BY <2>2, <2>3, <2>4, <3>1 DEF Before
    <3> QED
      BY <3>2
  <2> QED
    BY <2>1, <2>3, <2>4
<1>4. \A i \in DOMAIN es : es[i] \notin S
  <2> SUFFICES ASSUME NEW i \in DOMAIN es, InTask(queue, l, es[i]) PROVE FALSE
    BY DEF Tasks
  <2>1. PICK m \in es[i].ids : TRUE
    BY <1>3
  <2> QED
    BY <1>1, <2>1 DEF Placed, PendingApart, InTask, TaskIs
<1>5. CountSum(S \cup Range(es)) = CountSum(S) + Len(es)
  <2> HIDE DEF S, es
  <2> QED
    BY <1>2, <1>3, <1>4, CountSumSingles
<1>6. WaitingEntries(l) \cup ActiveEntries(l) = S \cup Range(es)
  <2>1. \A p \in QId : Started(queue, p) =>
           queue[p].run.entry \in Entry /\ ~IsSteer(queue[p].run)
    BY <1>1 DEF Placed, RunHome, Started, OfLane, IsSteer, Task
  <2>2. \A p \in QId : \A i \in DOMAIN queue[p].waiting : queue[p].waiting[i].entry \in Entry
    <3> SUFFICES ASSUME NEW p \in QId, NEW i \in DOMAIN queue[p].waiting
                 PROVE  queue[p].waiting[i].entry \in Entry
      OBVIOUS
    <3>1. queue[p].waiting[i] \in Task
      BY <1>1 DEF Tables, QueueRecord
    <3> QED
      BY <3>1 DEF Task
  <2>3. ASSUME NEW e PROVE e \in WaitingEntries(l) \cup ActiveEntries(l) <=> e \in S \cup Range(es)
    <3>1. e \in ActiveEntries(l) <=>
             \E p \in QId : queue[p].stage = "exec" /\ queue[p].run.lane = l /\ e = queue[p].run.entry
      BY DEF ActiveEntries
    <3>2. e \in S <=>
             \/ \E p \in QId : Started(queue, p) /\ queue[p].run.lane = l /\ e = queue[p].run.entry
             \/ \E p \in QId : \E i \in DOMAIN queue[p].waiting :
                   /\ queue[p].waiting[i].lane = l /\ ~IsSteer(queue[p].waiting[i])
                   /\ e = queue[p].waiting[i].entry
      BY <2>1, <2>2 DEF Tasks, InTask, TaskIs
    <3>3. e \in Range(es) <=> \E i \in DOMAIN es : e = es[i]
      BY DEF Range
    <3> HIDE DEF S
    <3> QED
      BY <3>1, <3>2, <3>3, WaitingIs DEF Started
  <2> HIDE DEF S, es
  <2> QED
    BY <2>3
<1>7. lanes[l].logicalDepth = CountSum(WaitingEntries(l) \union ActiveEntries(l))
  <2> HIDE DEF S, es
  <2> QED
    BY <1>2, <1>5, <1>6
<1> QED
  BY <1>7 DEF CountSum

-----------------------------------------------------------------------------
(* The theorems.                                                           *)

\* Nothing is anywhere at first.
LEMMA InitInd == Init => IndInv
<1> SUFFICES ASSUME Init PROVE IndInv
  OBVIOUS
<1>1. /\ NoLane \in LaneRecord /\ NoLane.pendingEntries = <<>> /\ NoLane.q = NoQueue
      /\ NoLane.exists = FALSE
  BY NoLaneIs
<1>2. /\ lanes = [l \in Lane |-> NoLane]
      /\ queue = [q \in QId |-> [waiting |-> <<>>, run |-> NoTask, stage |-> "none"]]
  BY DEF Init
<1>3. [waiting |-> <<>>, run |-> NoTask, stage |-> "none"] \in QueueRecord
  BY DEF QueueRecord, Stage
<1>4. Tables(lanes, queue)
  BY <1>1, <1>2, <1>3 DEF Tables
<1>5. mode \in [Lane -> Mode]
  <2>1. PICK f \in [Session -> Mode] : mode = [l \in Lane |-> f[SessionOf[l]]]
    BY DEF Init
  <2>2. \A l \in Lane : SessionOf[l] \in Session
    BY DEF Session
  <2> QED
    BY <2>1, <2>2
<1>6. /\ msgs = <<>> /\ msgs \in Seq(Lane) /\ Len(msgs) = 0 /\ gateWait = <<>>
      /\ gateWait \in Seq(QId)
  BY DEF Init
<1>7. Types
  BY <1>4, <1>5, <1>6, QueueAssumption DEF Types, Init
<1>8. /\ \A l \in Lane : lanes[l] = NoLane
      /\ \A q \in QId : queue[q].waiting = <<>> /\ queue[q].stage = "none"
  BY <1>2
<1>9. Placed(lanes, queue, msgs)
  BY <1>1, <1>8 DEF Placed, Shared, RunHome, WaitHome, PendingHome, Apart, PendingApart,
                    Ordered, RunOrdered, Collecting, Started
<1>10. AtGate(queue, gateWait) /\ Phased
  BY <1>6, <1>8 DEF AtGate, Phased, Init
<1>11. Located
  BY <1>6 DEF Located, Accepted
<1>12. Resources(lanes, queue, owner, msgs)
  <2>1. \A m \in Msg : owner[m] = "queue" /\ m \notin 1 .. Len(msgs)
    BY <1>6 DEF Init, Msg
  <2> QED
    BY <2>1 DEF Resources
<1> QED
  BY <1>7, <1>9, <1>10, <1>11, <1>12 DEF IndInv

\* A step of anything else leaves the invariant.
LEMMA StutterInd == ASSUME IndInv, UNCHANGED vars PROVE IndInv'
<1>1. /\ phase' = phase /\ UNCHANGED config /\ lanes' = lanes /\ queue' = queue
      /\ gateWait' = gateWait /\ debounce' = debounce /\ msgs' = msgs
      /\ outcome' = outcome /\ owner' = owner
  BY DEF vars
<1>2. Phased' /\ Located'
  BY <1>1 DEF IndInv, Phased, Located, Accepted, Inside, Started
<1> QED
  BY <1>1, <1>2, Concluded DEF IndInv, Types, Owners, Outcomes

\* Every step keeps the invariant.
LEMMA NextInd == IndInv /\ [Next]_vars => IndInv'
  BY EnqueueInd, DebounceFiresInd, CleanupSweepInd, FinishInd, GateReleaseInd, SessionNextInd,
     ShutdownBeginInd, ShutdownEndInd, StutterInd DEF Next

\* Whatever the lanes, modes, policies and widths: tasks belong to the queue of
\* their lane's conversation, no message of enqueue is in two places or, while it
\* has no terminal, in none, and its resources follow it.
THEOREM Invariance == Spec => []IndInv
<1>1. Init => IndInv
  BY InitInd
<1>2. IndInv /\ [Next]_vars => IndInv'
  BY NextInd
<1> QED
  BY <1>1, <1>2, PTL DEF Spec

\* Two principals of one conversation never execute at the same time, whatever
\* lanes the idle sweep dropped and getOrCreateLane made again.
THEOREM OneHandlerAlways == Spec => []OneHandlerPerSession
  BY Invariance, OneHandler, PTL

\* A lane in followup or collect mode runs only messages older than those that
\* wait, through overflow, coalescing, debounce and the gate.
THEOREM LanesInOrder == Spec => []LaneOrder
  BY Invariance, InLaneOrder, PTL

\* The resources of a message are with the queue exactly while its entry waits:
\* coalesceQueuedEntries, the overflow policies and performShutdown neither
\* leak nor free them early.
THEOREM ResourcesFollow == Spec => []ResourcesFollowEntry
  BY Invariance, Followed, PTL

\* Once performShutdown has begun no accepted message lacks a terminal, whether
\* it waited, was held at the gate, was pending or was being handled.
THEOREM ShutdownSettles == Spec => []ShutdownSettlesAll
  BY Invariance, Settled, PTL

\* The depth a lane reports is the number of messages it still owes: logicalDepth
\* stays exact through the overflow policies, coalesceQueuedEntries, the debounce
\* timer and lanes that the idle sweep drops and getOrCreateLane makes again, and
\* its floor at zero is never needed.
THEOREM DepthsExact == Spec => []DepthExact
<1>1. Init => DepthInv
  BY InitDepth
<1>2. IndInv /\ IndInv' /\ DepthInv /\ [Next]_vars => DepthInv'
  BY NextDepth
<1>3. IndInv /\ DepthInv => DepthExact
  BY DepthIs
<1> QED
  BY <1>1, <1>2, <1>3, Invariance, PTL DEF Spec
=============================================================================
