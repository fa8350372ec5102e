----------------------- MODULE GraphCoordinatorProofs -----------------------
(***************************************************************************)
(* Proofs about GraphCoordinator, for any number of graphs, nodes, slots,  *)
(* retries and driver rounds: a run that is tracked is about to start, at  *)
(* work or about to be handled; runningCount misses nothing; a graph whose *)
(* nodes have ended stays as it is; the sub-agents at work stay within the *)
(* limit; and no parallel round is over while a sub-agent of it waits,     *)
(* unless a run that an earlier attempt left behind has reported to it.    *)
(*                                                                         *)
(* The slot operators form loops (a drain, the kills, the spawn passes),   *)
(* so each is first shown to keep the shared state well formed and to      *)
(* leave alone what the invariant counts in it. The second invariant is a  *)
(* balance: every slot taken is held by a sub-agent or by a job that will  *)
(* release it, and a spawn waits only while all are taken.                 *)
(***************************************************************************)
EXTENDS GraphCoordinator, InductionLemmas

-----------------------------------------------------------------------------
(* The shared state.                                                       *)

\* What may wait for a slot: a regular node, or a run a driver state asked for.
Entries ==
    {e \in [g : Graph, n : Node, kind : {"node", "turn", "par"}, init : Nat] :
        IF e.kind = "node" THEN <<e.g, e.n>> \notin Driver
                           ELSE <<e.g, e.n>> \in Driver /\ e.init # 0}

Ops == {"admit", "start", "completed", "ready", "failed", "finish", "expire", "driver", "action"}
Details == {"-", "ok", "fail", "dead", "overBudget", "spawn", "spawn_all", "complete"}
Job3 == [op : Ops, n : Nat, x : Details]

\* The jobs of a graph g in the phases ph: those of a node name one, only a
\* regular node is admitted, only a driver is initialised, and before the graph
\* is created there is nothing to be done for it.
JobsOf(ph, g) ==
    {j \in Job3 :
        /\ j.op \in {"admit", "start", "completed", "failed", "driver", "action"} => j.n \in Node
        /\ j.op = "admit" => <<g, j.n>> \notin Driver
        /\ j.op = "driver" => <<g, j.n>> \in Driver
        /\ ph[g] = "absent" => j.op = "admit"}

DriverStates == [init : Nat, mode : {"none", "turn", "par"}, known : Int, crossed : BOOLEAN]

\* Only completions of the graph stand before the first action of a driver, so
\* that nothing else happens between a start and that action.
Fronted(q) == \A j, l \in 1 .. Len(q) : l < j /\ q[j].op = "action" => q[l].op = "finish"
Actionless(q) == \A j \in 1 .. Len(q) : q[j].op # "action"

Shared ==
    [globalActiveSubAgents : Int,
     spawnQueue : Seq(Entries),
     tail       : [Graph -> Seq(Job3)],
     stagger    : [Graph -> [Node -> Int]],
     ds         : [Graph -> [Node -> DriverStates]],
     runs       : [Graph -> [Node -> Int]]]

WellFormed(ph, k) ==
    /\ k \in Shared
    /\ \A g \in Graph : k.tail[g] \in Seq(JobsOf(ph, g)) /\ Fronted(k.tail[g])
    /\ \A g \in Graph, n \in Node :
          k.ds[g][n].init # 0 => <<g, n>> \in Driver /\ ph[g] # "absent"

\* How many of the jobs q are of one of these operations on n.
Count(q, ops, n) == Cardinality({i \in 1 .. Len(q) : q[i].op \in ops /\ q[i].n = n})
\* The jobs that stand for a tracked run, and the failures still to be handled.
Pending(k, g, n) == Count(k.tail[g], {"start", "completed"}, n)
Failures(k, g, n) == Count(k.tail[g], {"failed"}, n)

\* k2 differs from k in nothing the invariant looks at.
Keeps(k, k2) ==
    \A g \in Graph, n \in Node :
        /\ Pending(k2, g, n) = Pending(k, g, n)
        /\ Failures(k2, g, n) = Failures(k, g, n)
        /\ k2.ds[g][n].init = k.ds[g][n].init

-----------------------------------------------------------------------------
(* The inductive invariant.                                                *)

NodeStatus == {"pending", "ready", "running", "completed", "failed", "skipped"}

Typed ==
    /\ phase \in [Graph -> {"absent", "open", "done"}]
    /\ status \in [Graph -> [Node -> NodeStatus]]
    /\ runIdToNode \in [Graph -> SUBSET Node]
    /\ live \in [Graph -> [Node -> Nat]]
    /\ runningCount \in [Graph -> Int]
    /\ inits \in [Graph -> [Node -> Nat]]
    /\ graphTimer \in SUBSET Graph

\* What is known of a node from whether its run is tracked.
Row(g, n) ==
    LET p == Pending(c, g, n)
        f == Failures(c, g, n)
    IN  IF n \in runIdToNode[g]
        THEN <<g, n>> \notin Driver /\ status[g][n] = "running" /\ f = 0 /\ live[g][n] + p = 1
        ELSE /\ live[g][n] = 0
             /\ <<g, n>> \notin Driver =>
                   /\ status[g][n] \in {"pending", "ready"} => p = 0 /\ f = 0
                   /\ status[g][n] = "running" => p = 0 /\ f <= 1

\* A graph that is not created yet.
Absent(g) == (\A n \in Node : status[g][n] = "pending") /\ g \notin graphTimer

\* A driver state comes from an initialize(), and the count is right.
Counted(g) ==
    LET known == Cardinality(runIdToNode[g]) + Cardinality(DriverNodes(g))
    IN  /\ \A n \in Node : c.ds[g][n].init # 0 => inits[g][n] # 0
        /\ phase[g] # "done" => /\ runningCount[g] >= known
                                /\ StartedOnce(g) => runningCount[g] = known

GraphOK(g) ==
    /\ phase[g] = "absent" => Absent(g)
    /\ Counted(g)
    /\ \A n \in Node : Row(g, n)

IndInv == Typed /\ WellFormed(phase, c) /\ \A g \in Graph : GraphOK(g)

-----------------------------------------------------------------------------
(* Counting jobs.                                                          *)

Hit(j, ops, n) == IF j.op \in ops /\ j.n = n THEN 1 ELSE 0

\* The positions of a sequence that are counted are finite in number.
LEMMA CountIsNat ==
  ASSUME NEW q \in Seq(Job3), NEW ops, NEW n
  PROVE  Count(q, ops, n) \in Nat
<1> DEFINE I == {i \in 1 .. Len(q) : q[i].op \in ops /\ q[i].n = n}
<1>1. IsFiniteSet(1 .. Len(q)) /\ I \subseteq 1 .. Len(q)
  BY FS_Interval
<1>2. IsFiniteSet(I)
  BY <1>1, FS_Subset
<1> QED
  BY <1>2, FS_CardinalityType DEF Count

\* A job at the end is counted if it is one of those.
LEMMA CountAppend ==
  ASSUME NEW q \in Seq(Job3), NEW j \in Job3, NEW ops, NEW n
  PROVE  Count(Append(q, j), ops, n) = Count(q, ops, n) + Hit(j, ops, n)
<1> DEFINE r == Append(q, j)
           I == {i \in 1 .. Len(q) : q[i].op \in ops /\ q[i].n = n}
           J == {i \in 1 .. Len(r) : r[i].op \in ops /\ r[i].n = n}
           L == Len(q) + 1
<1>1. /\ Len(q) \in Nat /\ Len(r) = L /\ r[L] = j
      /\ \A i \in 1 .. Len(q) : r[i] = q[i]
  OBVIOUS
<1>2. IsFiniteSet(I)
  <2>1. IsFiniteSet(1 .. Len(q)) /\ I \subseteq 1 .. Len(q)
    BY FS_Interval
  <2> QED
    BY <2>1, FS_Subset
<1>3. L \notin I
  BY <1>1
<1>4. J = IF j.op \in ops /\ j.n = n THEN I \cup {L} ELSE I
  <2> HIDE DEF r
  <2>1. \A i : i \in 1 .. L <=> i \in 1 .. Len(q) \/ i = L
    BY <1>1
  <2>2. \A i \in 1 .. Len(q) : i \in J <=> i \in I
    BY <1>1
  <2>3. L \in J <=> j.op \in ops /\ j.n = n
    BY <1>1
  <2>4. J \subseteq 1 .. L /\ I \subseteq 1 .. Len(q)
    BY <1>1
  <2> HIDE DEF I, J, L
  <2>5. \A i : i \in J <=> i \in I \/ (i = L /\ j.op \in ops /\ j.n = n)
    BY <2>1, <2>2, <2>3, <2>4, <1>3
  <2>6. CASE j.op \in ops /\ j.n = n
    BY <2>5, <2>6
  <2>7. CASE ~(j.op \in ops /\ j.n = n)
    BY <2>5, <2>7
  <2> QED
    BY <2>6, <2>7
<1>5. Cardinality(I) \in Nat /\ Cardinality(I \cup {L}) = Cardinality(I) + 1
  <2> HIDE DEF I, L
  <2> QED
    BY <1>2, <1>3, FS_AddElement, FS_CardinalityType
<1>6. Count(q, ops, n) = Cardinality(I) /\ Count(Append(q, j), ops, n) = Cardinality(J)
  BY DEF Count
<1> HIDE DEF I, J, L
<1> QED
  BY <1>4, <1>5, <1>6 DEF Hit

\* So is a job at the head.
LEMMA CountCons ==
  ASSUME NEW q \in Seq(Job3), NEW j \in Job3, NEW ops, NEW n
  PROVE  Count(<<j>> \o q, ops, n) = Count(q, ops, n) + Hit(j, ops, n)
<1> DEFINE r == <<j>> \o q
           I == {i \in 1 .. Len(q) : q[i].op \in ops /\ q[i].n = n}
           J == {i \in 1 .. Len(r) : r[i].op \in ops /\ r[i].n = n}
           K == {i + 1 : i \in I}
<1>1. /\ Len(q) \in Nat /\ Len(r) = Len(q) + 1 /\ r[1] = j
      /\ \A i \in 1 .. Len(q) : r[i + 1] = q[i]
  OBVIOUS
<1>2. IsFiniteSet(I) /\ I \subseteq 1 .. Len(q)
  <2>1. IsFiniteSet(1 .. Len(q)) /\ I \subseteq 1 .. Len(q)
    BY FS_Interval
  <2> QED
    BY <2>1, FS_Subset
<1>3. IsFiniteSet(K) /\ Cardinality(K) = Cardinality(I)
  <2> DEFINE f == [i \in I |-> i + 1]
  <2>1. f \in Bijection(I, K)
    <3>1. f \in [I -> K] /\ \A k \in K : \E i \in I : f[i] = k
      OBVIOUS
    <3>2. \A a, b \in I : f[a] = f[b] => a = b
      BY <1>1, <1>2
    <3> HIDE DEF f, I, K
    <3> QED
      BY <3>1, <3>2 DEF Bijection, Injection, Surjection, IsInjective
  <2> HIDE DEF I, K, f
  <2>2. ExistsBijection(I, K)
    BY <2>1 DEF ExistsBijection
  <2> QED
    BY <1>2, <2>2, FS_Bijection
<1>4. 1 \notin K
  BY <1>1, <1>2
<1>5. J = IF j.op \in ops /\ j.n = n THEN K \cup {1} ELSE K
  <2> HIDE DEF r
  <2>1. \A i : i \in J <=> i \in 1 .. Len(q) + 1 /\ r[i].op \in ops /\ r[i].n = n
    BY <1>1
  <2>2. \A i \in 2 .. Len(q) + 1 : i \in J <=> i \in K
    <3> SUFFICES ASSUME NEW i \in 2 .. Len(q) + 1 PROVE i \in J <=> i \in K
      OBVIOUS
    <3>1. i - 1 \in 1 .. Len(q) /\ (i - 1) + 1 = i /\ r[i] = q[i - 1]
      <4>1. i - 1 \in 1 .. Len(q) /\ (i - 1) + 1 = i
        BY <1>1
      <4> QED
        BY <1>1, <4>1
    <3>2. i \in J <=> i - 1 \in I
      BY <1>1, <3>1
    <3>3. i - 1 \in I => i \in K
      BY <3>1
    <3>4. i \in K => i - 1 \in I
      <4> SUFFICES ASSUME NEW b \in I, i = b + 1 PROVE i - 1 \in I
        OBVIOUS
      <4>1. b \in Nat
        BY <1>1, <1>2
      <4> QED
        BY <4>1
    <3> QED
      BY <3>2, <3>3, <3>4
  <2>3. 1 \in J <=> j.op \in ops /\ j.n = n
    BY <1>1
  <2>4. J \subseteq 1 .. Len(q) + 1 /\ K \subseteq 2 .. Len(q) + 1
    BY <1>1, <1>2
  <2>5. \A i \in 1 .. Len(q) + 1 : i = 1 \/ i \in 2 .. Len(q) + 1
    BY <1>1
  <2> HIDE DEF I, J, K
  <2>6. \A i : i \in J <=> i \in K \/ (i = 1 /\ j.op \in ops /\ j.n = n)
    <3>1. \A i \in 2 .. Len(q) + 1 : i \in 1 .. Len(q) + 1
      OBVIOUS
    <3> QED
      BY <2>2, <2>3, <2>4, <2>5, <1>4, <3>1
  <2>7. CASE j.op \in ops /\ j.n = n
    BY <2>6, <2>7
  <2>8. CASE ~(j.op \in ops /\ j.n = n)
    BY <2>6, <2>8
  <2> QED
    BY <2>7, <2>8
<1>6. Cardinality(K) \in Nat /\ Cardinality(K \cup {1}) = Cardinality(K) + 1
  <2> HIDE DEF I, K
  <2> QED
    BY <1>3, <1>4, FS_AddElement, FS_CardinalityType
<1>7. Count(q, ops, n) = Cardinality(I) /\ Count(<<j>> \o q, ops, n) = Cardinality(J)
  BY DEF Count
<1> HIDE DEF I, J, K
<1> QED
  BY <1>3, <1>5, <1>6, <1>7 DEF Hit

\* What the head counts is what is lost with it.
LEMMA CountTail ==
  ASSUME NEW q \in Seq(Job3), q # <<>>, NEW ops, NEW n
  PROVE  /\ Head(q) \in Job3 /\ Tail(q) \in Seq(Job3)
         /\ Count(q, ops, n) = Count(Tail(q), ops, n) + Hit(Head(q), ops, n)
<1>1. Head(q) \in Job3 /\ Tail(q) \in Seq(Job3)
  OBVIOUS
<1>2. q = <<Head(q)>> \o Tail(q)
  <2> DEFINE r == <<Head(q)>> \o Tail(q)
  <2>1. r \in Seq(Job3) /\ Len(r) = Len(q) /\ \A i \in 1 .. Len(q) : r[i] = q[i]
    BY <1>1
  <2> HIDE DEF r
  <2> QED
    BY <2>1
<1> DEFINE h == Head(q)
           u == Tail(q)
<1>3. h \in Job3 /\ u \in Seq(Job3) /\ q = <<h>> \o u
  BY <1>1, <1>2
<1> HIDE DEF h, u
<1>4. Count(<<h>> \o u, ops, n) = Count(u, ops, n) + Hit(h, ops, n)
  BY <1>3, CountCons
<1>5. Count(q, ops, n) = Count(u, ops, n) + Hit(h, ops, n)
  BY <1>3, <1>4
<1> QED
  BY <1>3, <1>5 DEF h, u

-----------------------------------------------------------------------------
(* Operations on the shared state.                                         *)

\* The jobs of a graph are jobs.
LEMMA JobsAreJobs ==
  ASSUME NEW ph, NEW g, NEW q \in Seq(JobsOf(ph, g))
  PROVE  q \in Seq(Job3)
<1>1. JobsOf(ph, g) \subseteq Job3
  BY DEF JobsOf
<1> QED
  BY <1>1

WithTail(k, g, q) == [k EXCEPT !.tail[g] = q]

\* The tail of g is replaced.
LEMMA NewTail ==
  ASSUME NEW ph, NEW k, WellFormed(ph, k), NEW g \in Graph, NEW q \in Seq(JobsOf(ph, g)),
         Fronted(q)
  PROVE  /\ WellFormed(ph, WithTail(k, g, q))
         /\ WithTail(k, g, q).tail[g] = q
         /\ \A h \in Graph : h # g => WithTail(k, g, q).tail[h] = k.tail[h]
         /\ WithTail(k, g, q).ds = k.ds
<1> DEFINE k2 == WithTail(k, g, q)
<1>1. k2.tail = [k.tail EXCEPT ![g] = q] /\ k2.ds = k.ds
  BY DEF WellFormed, Shared, WithTail
<1>2. k2.tail \in [Graph -> Seq(Job3)]
  BY <1>1, JobsAreJobs DEF WellFormed, Shared
<1>3. k2 \in Shared
  BY <1>1, <1>2 DEF WellFormed, Shared, WithTail
<1>4. k2.tail[g] = q /\ \A h \in Graph : h # g => k2.tail[h] = k.tail[h]
  BY <1>1 DEF WellFormed, Shared
<1>5. \A h \in Graph : k2.tail[h] \in Seq(JobsOf(ph, h)) /\ Fronted(k2.tail[h])
  BY <1>4 DEF WellFormed
<1> HIDE DEF k2
<1>6. WellFormed(ph, k2)
  BY <1>1, <1>3, <1>5 DEF WellFormed
<1> QED
  BY <1>1, <1>4, <1>6 DEF k2

Runs == {"start", "completed"}

\* k2 has the job j of g more than k.
Adds(k, k2, g, j) ==
    \A h \in Graph, n \in Node :
        /\ Pending(k2, h, n) = Pending(k, h, n) + (IF h = g THEN Hit(j, Runs, n) ELSE 0)
        /\ Failures(k2, h, n) = Failures(k, h, n) + (IF h = g THEN Hit(j, {"failed"}, n) ELSE 0)
        /\ k2.ds[h][n].init = k.ds[h][n].init

\* The counts are numbers.
LEMMA CountsAreNat ==
  ASSUME NEW ph, NEW k, WellFormed(ph, k), NEW g \in Graph, NEW n
  PROVE  Pending(k, g, n) \in Nat /\ Failures(k, g, n) \in Nat
<1>1. k.tail[g] \in Seq(Job3)
  BY DEF WellFormed, Shared
<1> QED
  BY <1>1, CountIsNat DEF Pending, Failures

\* Keeping is transitive.
LEMMA KeepsKept ==
  ASSUME NEW k1, NEW k2, NEW k3, Keeps(k1, k2), Keeps(k2, k3)
  PROVE  Keeps(k1, k3)
BY DEF Keeps

\* The tail of g has one job more.
LEMMA JobAdded ==
  ASSUME NEW ph, NEW k, WellFormed(ph, k), NEW g \in Graph, NEW j,
         NEW q \in Seq(JobsOf(ph, g)), Fronted(q),
         \A ops, n : Count(q, ops, n) = Count(k.tail[g], ops, n) + Hit(j, ops, n)
  PROVE  WellFormed(ph, WithTail(k, g, q)) /\ Adds(k, WithTail(k, g, q), g, j)
<1> DEFINE k2 == WithTail(k, g, q)
<1>1. /\ WellFormed(ph, k2) /\ k2.ds = k.ds
      /\ k2.tail[g] = q /\ \A h \in Graph : h # g => k2.tail[h] = k.tail[h]
  BY NewTail
<1> HIDE DEF k2
<1>2. ASSUME NEW h \in Graph, NEW n \in Node
      PROVE  /\ Pending(k2, h, n) = Pending(k, h, n) + (IF h = g THEN Hit(j, Runs, n) ELSE 0)
             /\ Failures(k2, h, n) = Failures(k, h, n) + (IF h = g THEN Hit(j, {"failed"}, n) ELSE 0)
  <2>1. CASE h = g
    BY <1>1, <2>1 DEF Pending, Failures, Runs
  <2>2. CASE h # g
    <3>1. Pending(k2, h, n) = Pending(k, h, n) /\ Failures(k2, h, n) = Failures(k, h, n)
      BY <1>1, <2>2 DEF Pending, Failures
    <3>2. Pending(k, h, n) \in Nat /\ Failures(k, h, n) \in Nat
      BY CountsAreNat
    <3> QED
      BY <2>2, <3>1, <3>2
  <2> QED
    BY <2>1, <2>2
<1>3. Adds(k, k2, g, j)
  BY <1>1, <1>2 DEF Adds
<1> QED
  BY <1>1, <1>3 DEF k2

\* The first action of a driver stays where it is.
LEMMA FrontedTails ==
  ASSUME NEW J, NEW q \in Seq(J), Fronted(q), NEW j \in J
  PROVE  /\ j.op # "action" => Fronted(Append(q, j))
         /\ j.op = "finish" \/ Actionless(q) => Fronted(<<j>> \o q)
         /\ q # <<>> => Fronted(Tail(q)) /\ (Head(q).op # "finish" => Actionless(Tail(q)))
<1>1. ASSUME j.op # "action" PROVE Fronted(Append(q, j))
  <2>1. /\ Len(Append(q, j)) = Len(q) + 1 /\ Len(q) \in Nat
        /\ \A i \in 1 .. Len(q) + 1 : Append(q, j)[i] = IF i = Len(q) + 1 THEN j ELSE q[i]
    OBVIOUS
  <2> DEFINE r == Append(q, j)
  <2> HIDE DEF r
  <2> QED
    BY <1>1, <2>1 DEF Fronted, r
<1>2. ASSUME j.op = "finish" \/ Actionless(q) PROVE Fronted(<<j>> \o q)
  <2>1. /\ Len(<<j>> \o q) = Len(q) + 1 /\ Len(q) \in Nat
        /\ \A i \in 1 .. Len(q) + 1 : (<<j>> \o q)[i] = IF i = 1 THEN j ELSE q[i - 1]
    OBVIOUS
  <2> DEFINE r == <<j>> \o q
  <2>2. /\ Len(r) = Len(q) + 1 /\ Len(q) \in Nat
        /\ \A i \in 1 .. Len(q) + 1 : r[i] = IF i = 1 THEN j ELSE q[i - 1]
    BY <2>1
  <2> HIDE DEF r
  <2>3. ASSUME NEW a \in 1 .. Len(r), NEW b \in 1 .. Len(r), b < a, r[a].op = "action"
        PROVE  r[b].op = "finish"
    <3>1. a - 1 \in 1 .. Len(q) /\ q[a - 1].op = "action" /\ j.op = "finish"
      BY <1>2, <2>2, <2>3 DEF Actionless
    <3>2. CASE b = 1
      BY <2>2, <3>1, <3>2
    <3>3. CASE b # 1
      <4>1. b - 1 \in 1 .. Len(q) /\ b - 1 < a - 1 /\ r[b] = q[b - 1]
        BY <2>2, <2>3, <3>3
      <4> QED
        BY <3>1, <4>1 DEF Fronted
    <3> QED
      BY <3>2, <3>3
  <2> QED
    BY <2>3 DEF Fronted, r
<1>3. ASSUME q # <<>>
      PROVE  Fronted(Tail(q)) /\ (Head(q).op # "finish" => Actionless(Tail(q)))
  <2>1. /\ Len(Tail(q)) = Len(q) - 1 /\ Len(q) \in Nat /\ Len(q) > 0 /\ Head(q) = q[1]
        /\ \A i \in 1 .. Len(q) - 1 : Tail(q)[i] = q[i + 1]
    BY <1>3
  <2> DEFINE r == Tail(q)
  <2> HIDE DEF r
  <2> QED
    BY <2>1 DEF Fronted, Actionless, r
<1> QED
  BY <1>1, <1>2, <1>3

\* Append1 adds a job at the end.
LEMMA Append1Is ==
  ASSUME NEW ph, NEW k, WellFormed(ph, k), NEW g \in Graph, NEW j \in JobsOf(ph, g),
         j.op # "action"
  PROVE  WellFormed(ph, Append1(k, g, j)) /\ Adds(k, Append1(k, g, j), g, j)
<1> DEFINE u == k.tail[g]
           J == JobsOf(ph, g)
<1>1. Append1(k, g, j) = WithTail(k, g, Append(u, j))
  BY DEF Append1, WithTail, WellFormed, Shared
<1>2. u \in Seq(J) /\ j \in J /\ u \in Seq(Job3) /\ j \in Job3
  <2>1. u \in Seq(J)
    BY DEF WellFormed
  <2>2. u \in Seq(Job3)
    BY DEF WellFormed, Shared
  <2>3. j \in Job3
    BY DEF JobsOf
  <2> QED
    BY <2>1, <2>2, <2>3
<1>3. \A ops, n : Count(Append(u, j), ops, n) = Count(u, ops, n) + Hit(j, ops, n)
  <2> HIDE DEF u, J
  <2> QED
    BY <1>2, CountAppend
<1>4. Append(u, j) \in Seq(J) /\ Fronted(Append(u, j))
  <2>1. Fronted(u)
    BY DEF WellFormed
  <2> HIDE DEF u, J
  <2>2. Append(u, j) \in Seq(J)
    BY <1>2
  <2>3. Fronted(Append(u, j))
    BY <1>2, <2>1, FrontedTails, Zenon
  <2> QED
    BY <2>2, <2>3
<1> QED
  BY <1>1, <1>3, <1>4, JobAdded

\* A job is put at the head.
LEMMA ConsIs ==
  ASSUME NEW ph, NEW k, WellFormed(ph, k), NEW g \in Graph, NEW j \in JobsOf(ph, g),
         j.op = "finish" \/ Actionless(k.tail[g]),
         NEW k2, k2 = WithTail(k, g, <<j>> \o k.tail[g])
  PROVE  WellFormed(ph, k2) /\ Adds(k, k2, g, j)
<1> DEFINE u == k.tail[g]
           J == JobsOf(ph, g)
<1>2. u \in Seq(J) /\ j \in J /\ u \in Seq(Job3) /\ j \in Job3
  <2>1. u \in Seq(J)
    BY DEF WellFormed
  <2>2. u \in Seq(Job3)
    BY DEF WellFormed, Shared
  <2>3. j \in Job3
    BY DEF JobsOf
  <2> QED
    BY <2>1, <2>2, <2>3
<1>3. \A ops, n : Count(<<j>> \o u, ops, n) = Count(u, ops, n) + Hit(j, ops, n)
  <2> HIDE DEF u, J
  <2> QED
    BY <1>2, CountCons
<1>4. <<j>> \o u \in Seq(J) /\ Fronted(<<j>> \o u)
  <2>1. Fronted(u) /\ (j.op = "finish" \/ Actionless(u))
    BY DEF WellFormed
  <2> HIDE DEF u, J
  <2> QED
    BY <1>2, <2>1, FrontedTails
<1> QED
  BY <1>3, <1>4, JobAdded

\* A job that stands for no run and no failure changes no count.
LEMMA NeutralKeeps ==
  ASSUME NEW ph, NEW k, WellFormed(ph, k), NEW k2, NEW g, NEW j, Adds(k, k2, g, j),
         j.op \notin {"start", "completed", "failed"}
  PROVE  Keeps(k, k2)
<1>1. \A n : Hit(j, Runs, n) = 0 /\ Hit(j, {"failed"}, n) = 0
  BY DEF Hit, Runs
<1>2. \A h \in Graph : \A n : Pending(k, h, n) \in Nat /\ Failures(k, h, n) \in Nat
  BY CountsAreNat
<1> QED
  BY <1>1, <1>2 DEF Adds, Keeps

\* Nothing is added to what is kept.
LEMMA KeepsThenAdds ==
  ASSUME NEW k1, NEW k2, NEW k3, NEW g, NEW j, Keeps(k1, k2), Adds(k2, k3, g, j)
  PROVE  Adds(k1, k3, g, j)
BY DEF Keeps, Adds

\* Changes outside the tails and the driver states, and of what a driver state
\* waits for, are not seen by the invariant.
LEMMA OtherFields ==
  ASSUME NEW ph, NEW k, WellFormed(ph, k), NEW k2 \in Shared, k2.tail = k.tail,
         \A g \in Graph, n \in Node : k2.ds[g][n].init = k.ds[g][n].init
  PROVE  WellFormed(ph, k2) /\ Keeps(k, k2)
<1>1. WellFormed(ph, k2)
  BY DEF WellFormed
<1>2. Keeps(k, k2)
  BY DEF Keeps, Pending, Failures
<1> QED
  BY <1>1, <1>2

\* Nodes are numbers.
LEMMA NodesAreNat == \A n \in Node : n \in Nat
BY CoordinatorAssumption DEF Node

\* The spawn function of an entry.
LEMMA ExecuteIs ==
  ASSUME NEW ph, NEW k, WellFormed(ph, k), NEW e \in Entries
  PROVE  WellFormed(ph, Execute(k, e)) /\ Keeps(k, Execute(k, e))
<1>1. e.g \in Graph /\ e.n \in Node /\ (e.kind = "node" => <<e.g, e.n>> \notin Driver)
  BY DEF Entries
<1>2. CASE e.kind = "node"
  <2> DEFINE j == Job("admit", e.n, "-")
  <2>1. e.n \in Nat
    BY <1>1, NodesAreNat
  <2>2. j \in Job3
    BY <2>1 DEF Job, Job3, Ops, Details
  <2>3. j \in JobsOf(ph, e.g) /\ j.op = "admit"
    BY <1>1, <1>2, <2>2 DEF Job, JobsOf
  <2>4. Execute(k, e) = Append1(k, e.g, j)
    BY <1>2 DEF Execute
  <2> HIDE DEF j
  <2> QED
    BY <1>1, <2>3, <2>4, Append1Is, NeutralKeeps
<1>3. CASE e.kind # "node"
  <2> DEFINE own == k.ds[e.g][e.n].init = e.init
             v == IF ~own THEN k.ds[e.g][e.n].known
                  ELSE IF e.kind = "turn" THEN 1 ELSE k.ds[e.g][e.n].known + 1
             k2 == [k EXCEPT !.runs[e.g][e.n] = @ + 1, !.ds[e.g][e.n].known = v]
  <2>1. Execute(k, e) = k2
    BY <1>1, <1>3 DEF Execute, WellFormed, Shared
  <2>2. v \in Int /\ k.ds[e.g][e.n] \in DriverStates
    BY <1>1, SMTT(30) DEF WellFormed, Shared, DriverStates
  <2> HIDE DEF v
  <2>3. k2.tail = k.tail /\ k2.ds = [k.ds EXCEPT ![e.g][e.n].known = v]
    BY DEF WellFormed, Shared
  <2>4. \A g \in Graph, n \in Node : k2.ds[g][n].init = k.ds[g][n].init
    BY <1>1, <2>2, <2>3 DEF WellFormed, Shared, DriverStates
  <2>5. k2.ds \in [Graph -> [Node -> DriverStates]]
    BY <1>1, <2>2, <2>3 DEF WellFormed, Shared, DriverStates
  <2>6. k2.runs \in [Graph -> [Node -> Int]]
    BY <1>1 DEF WellFormed, Shared
  <2>7. k2 \in Shared
    BY <2>5, <2>6 DEF WellFormed, Shared
  <2> HIDE DEF k2
  <2> QED
    <3>0. k2.tail = k.tail
      BY <2>3
    <3>1. WellFormed(ph, k2) /\ Keeps(k, k2)
      BY <2>4, <2>7, <3>0, OtherFields
    <3> QED
      BY <2>1, <3>1
<1> QED
  BY <1>2, <1>3

\* k2 is well formed and differs from k in nothing the invariant looks at.
Slots(ph, k, k2) == WellFormed(ph, k2) /\ Keeps(k, k2)

\* One such change after the other.
LEMMA SlotsSlots ==
  ASSUME NEW ph, NEW k1, NEW k2, NEW k3, Slots(ph, k1, k2), Slots(ph, k2, k3)
  PROVE  Slots(ph, k1, k3)
BY KeepsKept DEF Slots

\* Doing nothing is one.
LEMMA SlotsSame == ASSUME NEW ph, NEW k, WellFormed(ph, k) PROVE Slots(ph, k, k)
BY DEF Slots, Keeps

-----------------------------------------------------------------------------
(* The slots and the rounds of the drivers.                                *)

\* The jobs of a node that hold a slot, and the first actions of its driver.
Claims(k, g, n) == Count(k.tail[g], {"admit", "start"}, n)
Acts(k, g, n) == Count(k.tail[g], {"action"}, n)

\* The slots a node holds in the shared state, and those in use beyond them.
Pairs == Graph \X Node
Held(k, g, n) == k.runs[g][n] + Claims(k, g, n)
Weights(k) == [p \in Pairs |-> Held(k, p[1], p[2])]
Slack(k) == k.globalActiveSubAgents - Total(Weights(k), Pairs)

InLimit(k) == k.globalActiveSubAgents \in 0 .. MaxGlobalSubAgents
\* No slot is free while a spawn waits for one.
Full(k) == k.spawnQueue = <<>> \/ k.globalActiveSubAgents >= MaxGlobalSubAgents

\* The positions of the entries of a node that its attempt a asked for.
Mine(q, g, n, a) == {i \in 1 .. Len(q) : q[i].g = g /\ q[i].n = n /\ q[i].init = a}

\* No attempt after the i-th has asked for anything.
Upto(q, g, n, i) == \A j \in 1 .. Len(q) : q[j].g = g /\ q[j].n = n => q[j].init <= i

\* The entries in the queue q that the driver state d of the node asked for belong
\* to its round: one turn, or a parallel round whose entries follow each other
\* and are at the front of the queue as soon as one of them was served.
Lined(q, d, g, n) ==
    LET mine == Mine(q, g, n, d.init)
    IN  /\ \A j \in mine : q[j].kind = d.mode
        /\ d.mode = "turn" => \A j, l \in mine : j = l /\ d.known = 0
        /\ \A j, l \in mine : \A m \in 1 .. Len(q) : j <= m /\ m <= l => m \in mine
        /\ d.mode = "par" /\ d.known > 0 =>
              \A j \in mine : \A m \in 1 .. Len(q) : m <= j => m \in mine

\* What holds of a driver node that was initialised i times, when o of its runs
\* have ended and are still to be handled. The first driver state knows all runs
\* of its node; a later one may have runs of earlier ones beside it, and nothing
\* is said of its round once one of those has reported.
RoundOK(k, g, n, i, o) ==
    LET d == k.ds[g][n]
        mine == Mine(k.spawnQueue, g, n, d.init)
    IN  /\ d.init \in {0, i} /\ Upto(k.spawnQueue, g, n, i)
        /\ i = 0 => k.runs[g][n] = 0 /\ d.known = 0
        /\ i = 1 /\ d.init # 0 => k.runs[g][n] + o = d.known /\ ~d.crossed
        /\ d.init # 0 /\ ~d.crossed =>
              /\ d.mode \in {"turn", "par"}
              /\ d.mode = "turn" => d.known <= 1
              /\ Acts(k, g, n) <= 1
              /\ Acts(k, g, n) = 1 => d.known = 0 /\ d.mode = "turn" /\ mine = {}
              /\ Lined(k.spawnQueue, d, g, n)

\* The entries that the driver state of a node waits for.
Waiting(k, g, n) == Mine(k.spawnQueue, g, n, k.ds[g][n].init)

\* A parallel round of which a run is known, one having just ended.
Ongoing(k, g, n, i) ==
    LET d == k.ds[g][n]
    IN  RoundOK(k, g, n, i, 1) /\ d.init # 0 /\ ~d.crossed /\ d.mode = "par" /\ d.known > 0

\* The driver states know a number of runs, and go on knowing one.
Knows(k, k2) ==
    \A g \in Graph, n \in Node :
        /\ k2.ds[g][n].mode = k.ds[g][n].mode /\ k2.ds[g][n].crossed = k.ds[g][n].crossed
        /\ k.ds[g][n].known >= 0 => k2.ds[g][n].known >= 0
        /\ k.ds[g][n].known > 0 => k2.ds[g][n].known > 0

\* k2 comes from k by handing out slots and queueing entries, none of them of
\* the nodes X.
Served(k, k2, X) ==
    /\ Slack(k2) = Slack(k)
    /\ InLimit(k) => InLimit(k2)
    /\ Full(k) => Full(k2)
    /\ Knows(k, k2)
    /\ \A g \in Graph, n \in Node : <<g, n>> \in Driver \ X =>
          \A i \in Nat, o \in 0 .. 1 : RoundOK(k, g, n, i, o) => RoundOK(k2, g, n, i, o)

\* k2 differs from k in nothing the slots and the rounds depend on.
Alike(k, k2) ==
    /\ k2.globalActiveSubAgents = k.globalActiveSubAgents /\ k2.spawnQueue = k.spawnQueue
    /\ k2.runs = k.runs /\ k2.ds = k.ds
    /\ \A g \in Graph, n \in Node :
          Claims(k2, g, n) = Claims(k, g, n) /\ Acts(k2, g, n) = Acts(k, g, n)

\* k2 has the job j of g more than k and is the same otherwise.
Grown(k, k2, g, j) ==
    /\ k2.globalActiveSubAgents = k.globalActiveSubAgents /\ k2.spawnQueue = k.spawnQueue
    /\ k2.runs = k.runs /\ k2.ds = k.ds
    /\ \A h \in Graph, n \in Node :
          /\ Claims(k2, h, n) =
                Claims(k, h, n) + (IF h = g THEN Hit(j, {"admit", "start"}, n) ELSE 0)
          /\ Acts(k2, h, n) = Acts(k, h, n) + (IF h = g THEN Hit(j, {"action"}, n) ELSE 0)

\* Nodes and pairs are finite in number.
LEMMA PairsFinite == IsFiniteSet(Node) /\ IsFiniteSet(Graph) /\ IsFiniteSet(Pairs)
<1>1. IsFiniteSet(Node)
  BY CoordinatorAssumption, FS_Interval DEF Node
<1> QED
  BY <1>1, CoordinatorAssumption, FS_Product DEF Pairs

\* The counts are numbers.
LEMMA ClaimsAreNat ==
  ASSUME NEW k \in Shared, NEW g \in Graph, NEW n
  PROVE  Claims(k, g, n) \in Nat /\ Acts(k, g, n) \in Nat
<1>1. k.tail[g] \in Seq(Job3)
  BY DEF Shared
<1> QED
  BY <1>1, CountIsNat DEF Claims, Acts

\* The weights are numbers, and so is the slack.
LEMMA WeightsAre ==
  ASSUME NEW k \in Shared
  PROVE  /\ Weights(k) \in [Pairs -> Int] /\ Slack(k) \in Int /\ Total(Weights(k), Pairs) \in Int
         /\ \A g \in Graph, n \in Node : Weights(k)[<<g, n>>] = Held(k, g, n) /\ Held(k, g, n) \in Int
<1>1. \A g \in Graph, n \in Node : Held(k, g, n) \in Int
  <2> SUFFICES ASSUME NEW g \in Graph, NEW n \in Node PROVE Held(k, g, n) \in Int
    OBVIOUS
  <2>1. k.runs[g][n] \in Int
    BY DEF Shared
  <2>2. Claims(k, g, n) \in Nat
    BY ClaimsAreNat
  <2> QED
    BY <2>1, <2>2 DEF Held
<1>2. \A p \in Pairs : p[1] \in Graph /\ p[2] \in Node
  BY DEF Pairs
<1>3. Weights(k) \in [Pairs -> Int]
  BY <1>1, <1>2 DEF Weights
<1>4. Total(Weights(k), Pairs) \in Int
  BY <1>3, PairsFinite, TotalInt
<1>5. k.globalActiveSubAgents \in Int
  BY DEF Shared
<1> QED
  BY <1>1, <1>3, <1>4, <1>5 DEF Slack, Weights, Pairs

\* One node holds more or fewer slots, and the slots in use change.
LEMMA SlackOne ==
  ASSUME NEW k \in Shared, NEW k2 \in Shared, NEW g \in Graph, NEW n \in Node, NEW a \in Int, NEW d \in Int,
         k2.globalActiveSubAgents = k.globalActiveSubAgents + a,
         Held(k2, g, n) = Held(k, g, n) + d,
         \A h \in Graph, m \in Node : h # g \/ m # n => Held(k2, h, m) = Held(k, h, m)
  PROVE  Slack(k2) = Slack(k) + (a - d)
<1> DEFINE v == Weights(k)
           w == Weights(k2)
           p == <<g, n>>
<1>1. v \in [Pairs -> Int] /\ w \in [Pairs -> Int] /\ p \in Pairs
  BY WeightsAre DEF Pairs
<1>2. w[p] = v[p] + d /\ v[p] \in Int
  BY WeightsAre
<1>3. \A x \in Pairs : x # p => w[x] = v[x]
  <2> SUFFICES ASSUME NEW h \in Graph, NEW m \in Node, <<h, m>> # p PROVE w[<<h, m>>] = v[<<h, m>>]
    BY DEF Pairs
  <2> QED
    BY WeightsAre
<1>4. Slack(k) = k.globalActiveSubAgents - Total(v, Pairs) /\ Total(v, Pairs) \in Int
  BY WeightsAre DEF Slack
<1>5. Slack(k2) = k2.globalActiveSubAgents - Total(w, Pairs) /\ Total(w, Pairs) \in Int
  BY WeightsAre DEF Slack
<1>6. k.globalActiveSubAgents \in Int
  BY DEF Shared
<1> HIDE DEF v, w, p
<1>7. Total(w, Pairs) = Total(v, Pairs) + (w[p] - v[p])
  BY <1>1, <1>3, PairsFinite, TotalChanges
<1> QED
  BY <1>2, <1>4, <1>5, <1>6, <1>7

\* No node does.
LEMMA SlackSame ==
  ASSUME NEW k \in Shared, NEW k2 \in Shared, NEW a \in Int,
         k2.globalActiveSubAgents = k.globalActiveSubAgents + a,
         \A h \in Graph, m \in Node : Held(k2, h, m) = Held(k, h, m)
  PROVE  Slack(k2) = Slack(k) + a
<1>1. Weights(k2) = Weights(k)
  BY DEF Weights, Pairs
<1>2. Total(Weights(k), Pairs) \in Int /\ k.globalActiveSubAgents \in Int
  BY WeightsAre DEF Shared
<1> QED
  BY <1>1, <1>2 DEF Slack

\* Serving nobody, and serving one after the other.
LEMMA ServedSame == ASSUME NEW k, NEW X PROVE Served(k, k, X)
BY DEF Served, Knows

LEMMA ServedServed ==
  ASSUME NEW k1, NEW k2, NEW k3, NEW X, Served(k1, k2, X), Served(k2, k3, X)
  PROVE  Served(k1, k3, X)
<1>1. Slack(k3) = Slack(k1) /\ (InLimit(k1) => InLimit(k3)) /\ (Full(k1) => Full(k3))
  BY DEF Served
<1>2. Knows(k1, k3)
  <2> SUFFICES ASSUME NEW g \in Graph, NEW n \in Node
               PROVE  /\ k3.ds[g][n].mode = k1.ds[g][n].mode
                      /\ k3.ds[g][n].crossed = k1.ds[g][n].crossed
                      /\ k1.ds[g][n].known >= 0 => k3.ds[g][n].known >= 0
                      /\ k1.ds[g][n].known > 0 => k3.ds[g][n].known > 0
    BY DEF Knows
  <2>1. Knows(k1, k2) /\ Knows(k2, k3)
    BY DEF Served
  <2> QED
    BY <2>1 DEF Knows
<1>3. ASSUME NEW g \in Graph, NEW n \in Node, <<g, n>> \in Driver \ X, NEW i \in Nat, NEW o \in 0 .. 1,
             RoundOK(k1, g, n, i, o)
      PROVE  RoundOK(k3, g, n, i, o)
  <2>1. RoundOK(k2, g, n, i, o)
    BY <1>3 DEF Served
  <2> QED
    BY <1>3, <2>1 DEF Served
<1> QED
  BY <1>1, <1>2, <1>3 DEF Served

\* Nodes that have no driver need not be excluded.
LEMMA ServedAll ==
  ASSUME NEW k, NEW k2, NEW X, Served(k, k2, X), Driver \cap X = {}
  PROVE  Served(k, k2, {})
BY DEF Served

\* A change that touches neither slots nor rounds.
LEMMA AlikeServed ==
  ASSUME NEW k \in Shared, NEW k2 \in Shared, NEW X, Alike(k, k2)
  PROVE  Served(k, k2, X)
<1>1. \A h \in Graph, m \in Node : Held(k2, h, m) = Held(k, h, m)
  BY DEF Alike, Held
<1>2. k.globalActiveSubAgents \in Int
  BY DEF Shared
<1>3. k2.globalActiveSubAgents = k.globalActiveSubAgents + 0 /\ 0 \in Int
  BY <1>2 DEF Alike
<1>4. Slack(k2) = Slack(k) + 0
  BY <1>1, <1>3, SlackSame
<1>5. Slack(k) \in Int
  BY WeightsAre
<1>6. (InLimit(k) => InLimit(k2)) /\ (Full(k) => Full(k2)) /\ Knows(k, k2)
  BY DEF Alike, InLimit, Full, Knows
<1>7. ASSUME NEW g \in Graph, NEW n \in Node, NEW i, NEW o, RoundOK(k, g, n, i, o)
      PROVE  RoundOK(k2, g, n, i, o)
  <2>1. /\ k2.ds[g][n] = k.ds[g][n] /\ k2.spawnQueue = k.spawnQueue /\ k2.runs[g][n] = k.runs[g][n]
        /\ Acts(k2, g, n) = Acts(k, g, n)
    BY DEF Alike
  <2> QED
    BY <1>7, <2>1 DEF RoundOK
<1> QED
  BY <1>4, <1>5, <1>6, <1>7 DEF Served

LEMMA AlikeAlike ==
  ASSUME NEW k1, NEW k2, NEW k3, Alike(k1, k2), Alike(k2, k3)
  PROVE  Alike(k1, k3)
BY DEF Alike

LEMMA AlikeBack == ASSUME NEW k, NEW k2, Alike(k, k2) PROVE Alike(k2, k)
BY DEF Alike

\* So is a job more that holds no slot and is no first action.
LEMMA GrownAlike ==
  ASSUME NEW k \in Shared, NEW k2, NEW g, NEW j, Grown(k, k2, g, j),
         j.op \notin {"admit", "start", "action"}
  PROVE  Alike(k, k2)
<1>1. \A n : Hit(j, {"admit", "start"}, n) = 0 /\ Hit(j, {"action"}, n) = 0
  BY DEF Hit
<1>2. \A h \in Graph, n \in Node : Claims(k, h, n) \in Nat /\ Acts(k, h, n) \in Nat
  BY ClaimsAreNat
<1> QED
  BY <1>1, <1>2 DEF Grown, Alike

\* The tail of g is replaced by one that has a job more.
LEMMA JobGrown ==
  ASSUME NEW k \in Shared, NEW g \in Graph, NEW j, NEW q \in Seq(Job3),
         \A ops, n : Count(q, ops, n) = Count(k.tail[g], ops, n) + Hit(j, ops, n)
  PROVE  Grown(k, WithTail(k, g, q), g, j)
<1> DEFINE k2 == WithTail(k, g, q)
<1>1. /\ k2.globalActiveSubAgents = k.globalActiveSubAgents /\ k2.spawnQueue = k.spawnQueue
      /\ k2.runs = k.runs /\ k2.ds = k.ds /\ k2.tail = [k.tail EXCEPT ![g] = q]
  BY DEF WithTail, Shared
<1>2. k2.tail[g] = q /\ \A h \in Graph : h # g => k2.tail[h] = k.tail[h]
  BY <1>1 DEF Shared
<1> HIDE DEF k2
<1>3. ASSUME NEW h \in Graph, NEW n \in Node
      PROVE  /\ Claims(k2, h, n) =
                   Claims(k, h, n) + (IF h = g THEN Hit(j, {"admit", "start"}, n) ELSE 0)
             /\ Acts(k2, h, n) = Acts(k, h, n) + (IF h = g THEN Hit(j, {"action"}, n) ELSE 0)
  <2>1. CASE h = g
    BY <1>2, <2>1 DEF Claims, Acts
  <2>2. CASE h # g
    <3>1. Claims(k2, h, n) = Claims(k, h, n) /\ Acts(k2, h, n) = Acts(k, h, n)
      BY <1>2, <2>2 DEF Claims, Acts
    <3>2. Claims(k, h, n) \in Nat /\ Acts(k, h, n) \in Nat
      BY ClaimsAreNat
    <3> QED
      BY <2>2, <3>1, <3>2
  <2> QED
    BY <2>1, <2>2
<1>4. Grown(k, k2, g, j)
  BY <1>1, <1>3 DEF Grown
<1> QED
  BY <1>4 DEF k2

\* Append1 does so.
LEMMA Append1Grown ==
  ASSUME NEW k \in Shared, NEW g \in Graph, NEW j \in Job3
  PROVE  Grown(k, Append1(k, g, j), g, j)
<1> DEFINE u == k.tail[g]
           q == Append(u, j)
<1>1. Append1(k, g, j) = WithTail(k, g, q)
  BY DEF Append1, WithTail, Shared
<1>2. u \in Seq(Job3)
  BY DEF Shared
<1>3. \A ops, n : Count(q, ops, n) = Count(k.tail[g], ops, n) + Hit(j, ops, n)
  <2>1. \A ops, n : Count(q, ops, n) = Count(u, ops, n) + Hit(j, ops, n)
    <3> HIDE DEF u
    <3> QED
      BY <1>2, CountAppend
  <2> QED
    BY <2>1
<1>4. q \in Seq(Job3)
  <2> HIDE DEF u
  <2> QED
    BY <1>2
<1> HIDE DEF q
<1> QED
  BY <1>1, <1>3, <1>4, JobGrown

\* So does a job put at the head.
LEMMA ConsGrown ==
  ASSUME NEW k \in Shared, NEW g \in Graph, NEW j \in Job3
  PROVE  Grown(k, WithTail(k, g, <<j>> \o k.tail[g]), g, j)
<1> DEFINE u == k.tail[g]
           q == <<j>> \o u
<1>2. u \in Seq(Job3)
  BY DEF Shared
<1>3. \A ops, n : Count(q, ops, n) = Count(k.tail[g], ops, n) + Hit(j, ops, n)
  <2>1. \A ops, n : Count(q, ops, n) = Count(u, ops, n) + Hit(j, ops, n)
    <3> HIDE DEF u
    <3> QED
      BY <1>2, CountCons
  <2> QED
    BY <2>1
<1>4. q \in Seq(Job3)
  <2> HIDE DEF u
  <2> QED
    BY <1>2
<1>5. WithTail(k, g, <<j>> \o k.tail[g]) = WithTail(k, g, q)
  OBVIOUS
<1> HIDE DEF q
<1> QED
  BY <1>3, <1>4, <1>5, JobGrown

\* q2 is q without some of its entries.
Thins(q, q2) ==
    \E f \in [1 .. Len(q2) -> 1 .. Len(q)] :
        /\ \A j \in 1 .. Len(q2) : q2[j] = q[f[j]]
        /\ \A i, j \in 1 .. Len(q2) : i < j => f[i] < f[j]

\* Entries that are left out disturb no round.
LEMMA LinedThins ==
  ASSUME NEW q \in Seq(Entries), NEW q2 \in Seq(Entries), Thins(q, q2), NEW d, NEW g, NEW n
  PROVE  /\ \A a : Mine(q, g, n, a) = {} => Mine(q2, g, n, a) = {}
         /\ \A i : Upto(q, g, n, i) => Upto(q2, g, n, i)
         /\ Lined(q, d, g, n) => Lined(q2, d, g, n)
<1> PICK f \in [1 .. Len(q2) -> 1 .. Len(q)] :
        /\ \A j \in 1 .. Len(q2) : q2[j] = q[f[j]]
        /\ \A i, j \in 1 .. Len(q2) : i < j => f[i] < f[j]
  BY DEF Thins
<1>0. \A j \in 1 .. Len(q2) : f[j] \in 1 .. Len(q)
  OBVIOUS
<1>a. \A a : Mine(q, g, n, a) = {} => Mine(q2, g, n, a) = {}
  BY <1>0 DEF Mine
<1>u. \A i : Upto(q, g, n, i) => Upto(q2, g, n, i)
  BY <1>0 DEF Upto
<1> DEFINE M == Mine(q, g, n, d.init)
           M2 == Mine(q2, g, n, d.init)
<1>1. \A j \in 1 .. Len(q2) : f[j] \in 1 .. Len(q) /\ (j \in M2 <=> f[j] \in M)
  BY DEF Mine
<1>2. M2 \subseteq 1 .. Len(q2) /\ M \subseteq 1 .. Len(q) /\ Len(q) \in Nat /\ Len(q2) \in Nat
  BY DEF Mine
<1>3. \A i, j \in 1 .. Len(q2) : (i <= j => f[i] <= f[j]) /\ (f[i] = f[j] => i = j)
  BY <1>1, <1>2
<1>5. ASSUME Lined(q, d, g, n) PROVE Lined(q2, d, g, n)
  <2>1. /\ \A j \in M : q[j].kind = d.mode
        /\ d.mode = "turn" => \A j, l \in M : j = l /\ d.known = 0
        /\ \A j, l \in M : \A m \in 1 .. Len(q) : j <= m /\ m <= l => m \in M
        /\ d.mode = "par" /\ d.known > 0 => \A j \in M : \A m \in 1 .. Len(q) : m <= j => m \in M
    BY <1>5 DEF Lined
  <2> HIDE DEF M, M2
  <2>2. \A j \in M2 : q2[j].kind = d.mode
    BY <1>1, <1>2, <2>1
  <2>3. d.mode = "turn" => \A j, l \in M2 : j = l /\ d.known = 0
    BY <1>1, <1>2, <1>3, <2>1
  <2>4. ASSUME NEW j \in M2, NEW l \in M2, NEW m \in 1 .. Len(q2), j <= m, m <= l PROVE m \in M2
    <3>1. f[j] \in M /\ f[l] \in M /\ f[m] \in 1 .. Len(q) /\ f[j] <= f[m] /\ f[m] <= f[l]
      BY <1>1, <1>2, <1>3, <2>4
    <3> QED
      BY <1>1, <2>1, <3>1
  <2>5. ASSUME d.mode = "par", d.known > 0, NEW j \in M2, NEW m \in 1 .. Len(q2), m <= j PROVE m \in M2
    <3>1. f[j] \in M /\ f[m] \in 1 .. Len(q) /\ f[m] <= f[j]
      BY <1>1, <1>2, <1>3, <2>5
    <3> QED
      BY <1>1, <2>1, <2>5, <3>1
  <2> QED
    BY <2>2, <2>3, <2>4, <2>5 DEF Lined, M2
<1> QED
  BY <1>a, <1>u, <1>5

\* The head of a queue is left out.
LEMMA TailThins ==
  ASSUME NEW q \in Seq(Entries), q # <<>>
  PROVE  Tail(q) \in Seq(Entries) /\ Thins(q, Tail(q))
<1> DEFINE q2 == Tail(q)
           f == [j \in 1 .. Len(q2) |-> j + 1]
<1>1. q2 \in Seq(Entries) /\ Len(q) \in Nat /\ Len(q2) = Len(q) - 1 /\ Len(q2) \in Nat
  OBVIOUS
<1>2. \A j \in 1 .. Len(q2) : q2[j] = q[j + 1]
  OBVIOUS
<1> HIDE DEF q2
<1>3. f \in [1 .. Len(q2) -> 1 .. Len(q)]
  BY <1>1
<1>4. /\ \A j \in 1 .. Len(q2) : q2[j] = q[f[j]]
      /\ \A i, j \in 1 .. Len(q2) : i < j => f[i] < f[j]
  BY <1>2
<1> HIDE DEF f
<1>5. Thins(q, q2)
  BY <1>3, <1>4 DEF Thins
<1> QED
  BY <1>1, <1>5 DEF q2

\* Its rounds are not disturbed.
LEMMA TailLined ==
  ASSUME NEW q \in Seq(Entries), q # <<>>, NEW d, NEW g, NEW n, NEW i
  PROVE  /\ Mine(q, g, n, d.init) = {} => Mine(Tail(q), g, n, d.init) = {}
         /\ Upto(q, g, n, i) => Upto(Tail(q), g, n, i)
         /\ Lined(q, d, g, n) => Lined(Tail(q), d, g, n)
<1>1. Tail(q) \in Seq(Entries) /\ Thins(q, Tail(q))
  BY TailThins
<1> DEFINE u == Tail(q)
<1> HIDE DEF u
<1>2. u \in Seq(Entries) /\ Thins(q, u)
  BY <1>1 DEF u
<1>3. /\ \A a : Mine(q, g, n, a) = {} => Mine(u, g, n, a) = {}
      /\ \A b : Upto(q, g, n, b) => Upto(u, g, n, b)
      /\ Lined(q, d, g, n) => Lined(u, d, g, n)
  BY <1>2, LinedThins
<1> QED
  BY <1>3 DEF u

\* A queue is not changed.
LEMMA SameThins == ASSUME NEW q \in Seq(Entries) PROVE Thins(q, q)
<1> DEFINE f == [j \in 1 .. Len(q) |-> j]
<1>1. f \in [1 .. Len(q) -> 1 .. Len(q)]
  OBVIOUS
<1> QED
  BY <1>1 DEF Thins

\* An entry of another node joins the queue.
LEMMA LinedAppend ==
  ASSUME NEW q \in Seq(Entries), NEW e \in Entries, NEW d, NEW g, NEW n, ~(e.g = g /\ e.n = n)
  PROVE  /\ \A a : Mine(Append(q, e), g, n, a) = Mine(q, g, n, a)
         /\ \A i : Upto(q, g, n, i) => Upto(Append(q, e), g, n, i)
         /\ Lined(q, d, g, n) => Lined(Append(q, e), d, g, n)
<1> DEFINE q2 == Append(q, e)
           M == Mine(q, g, n, d.init)
           M2 == Mine(q2, g, n, d.init)
<1>1. /\ Len(q) \in Nat /\ Len(q2) = Len(q) + 1 /\ q2[Len(q) + 1] = e
      /\ \A i \in 1 .. Len(q) : q2[i] = q[i]
  OBVIOUS
<1> HIDE DEF q2
<1>2. \A i \in 1 .. Len(q) + 1 : i \in 1 .. Len(q) \/ i = Len(q) + 1
  BY <1>1
<1>a. ASSUME NEW a PROVE Mine(q2, g, n, a) = Mine(q, g, n, a)
  BY <1>1, <1>2 DEF Mine
<1>u. \A i : Upto(q, g, n, i) => Upto(q2, g, n, i)
  BY <1>1, <1>2 DEF Upto
<1>3. M2 = M
  BY <1>a
<1>4. ASSUME Lined(q, d, g, n) PROVE Lined(q2, d, g, n)
  <2>1. M \subseteq 1 .. Len(q)
    BY DEF Mine
  <2>2. \A j \in M : q2[j] = q[j] /\ j <= Len(q)
    BY <1>1, <2>1
  <2>3. /\ \A j \in M : q[j].kind = d.mode
        /\ d.mode = "turn" => \A j, l \in M : j = l /\ d.known = 0
        /\ \A j, l \in M : \A m \in 1 .. Len(q) : j <= m /\ m <= l => m \in M
        /\ d.mode = "par" /\ d.known > 0 => \A j \in M : \A m \in 1 .. Len(q) : m <= j => m \in M
    BY <1>4 DEF Lined
  <2>4. \A j \in M : \A m \in 1 .. Len(q2) : m <= j => m \in 1 .. Len(q)
    BY <1>1, <2>1
  <2> HIDE DEF M, M2
  <2>5. /\ \A j \in M2 : q2[j].kind = d.mode
        /\ d.mode = "turn" => \A j, l \in M2 : j = l /\ d.known = 0
        /\ \A j, l \in M2 : \A m \in 1 .. Len(q2) : j <= m /\ m <= l => m \in M2
        /\ d.mode = "par" /\ d.known > 0 => \A j \in M2 : \A m \in 1 .. Len(q2) : m <= j => m \in M2
    BY <1>3, <2>2, <2>3, <2>4
  <2> QED
    BY <2>5 DEF Lined, M2
<1> QED
  BY <1>a, <1>u, <1>4 DEF q2

\* The entry at the head is served: its round goes on at the front of the queue.
LEMMA LinedHead ==
  ASSUME NEW q \in Seq(Entries), q # <<>>, NEW d, NEW d2, NEW g, NEW n,
         Head(q).g = g, Head(q).n = n, Head(q).init = d.init, Lined(q, d, g, n),
         d2.mode = d.mode, d2.init = d.init
  PROVE  /\ Head(q).kind = d.mode
         /\ d.mode = "turn" => d.known = 0 /\ Mine(Tail(q), g, n, d.init) = {}
         /\ Lined(Tail(q), d2, g, n)
<1> DEFINE q2 == Tail(q)
           M == Mine(q, g, n, d.init)
           M2 == Mine(q2, g, n, d.init)
<1>1. /\ Len(q) \in Nat /\ Len(q2) = Len(q) - 1 /\ Len(q2) \in Nat /\ Head(q) = q[1]
      /\ \A j \in 1 .. Len(q2) : q2[j] = q[j + 1]
  OBVIOUS
<1> HIDE DEF q2
<1>2. 1 \in M /\ M \subseteq 1 .. Len(q) /\ M2 \subseteq 1 .. Len(q2)
  BY <1>1 DEF Mine
<1>3. \A j \in 1 .. Len(q2) : j + 1 \in 1 .. Len(q) /\ (j \in M2 <=> j + 1 \in M)
  BY <1>1 DEF Mine
<1>4. /\ \A j \in M : q[j].kind = d.mode
      /\ d.mode = "turn" => \A j, l \in M : j = l /\ d.known = 0
      /\ \A j, l \in M : \A m \in 1 .. Len(q) : j <= m /\ m <= l => m \in M
  BY DEF Lined
<1> HIDE DEF M, M2
<1>5. \A j \in M : \A m \in 1 .. Len(q) : m <= j => m \in M
  BY <1>1, <1>2, <1>4
<1>6. \A j \in M2 : \A m \in 1 .. Len(q2) : m <= j => m \in M2
  <2> SUFFICES ASSUME NEW j \in M2, NEW m \in 1 .. Len(q2), m <= j PROVE m \in M2
    OBVIOUS
  <2>1. j + 1 \in M /\ m + 1 \in 1 .. Len(q) /\ m + 1 <= j + 1
    BY <1>1, <1>2, <1>3
  <2> QED
    BY <1>3, <1>5, <2>1
<1>7. d.mode = "turn" => d.known = 0 /\ M2 = {}
  <2> SUFFICES ASSUME d.mode = "turn" PROVE d.known = 0 /\ M2 = {}
    OBVIOUS
  <2>1. \A j \in M : j = 1
    BY <1>2, <1>4
  <2>2. \A j \in M2 : FALSE
    BY <1>1, <1>2, <1>3, <2>1
  <2> QED
    BY <1>2, <1>4, <2>2
<1>8. \A j \in M2 : q2[j].kind = d2.mode
  BY <1>1, <1>2, <1>3, <1>4
<1>9. Lined(q2, d2, g, n)
  <2>1. \A j, l \in M2 : \A m \in 1 .. Len(q2) : j <= m /\ m <= l => m \in M2
    BY <1>6
  <2>2. d2.mode = "turn" => \A j, l \in M2 : j = l /\ d2.known = 0
    BY <1>7
  <2> QED
    BY <1>6, <1>8, <2>1, <2>2 DEF Lined, M2
<1> QED
  BY <1>1, <1>2, <1>4, <1>7, <1>9 DEF q2, M2

\* A run of the node of the entry e starts; its driver state knows it if it is
\* the one that asked for it.
Started(k, k2, e) ==
    LET s  == k.ds[e.g][e.n]
        s2 == k2.ds[e.g][e.n]
    IN  /\ k2.globalActiveSubAgents = k.globalActiveSubAgents /\ k2.spawnQueue = k.spawnQueue
        /\ k2.tail = k.tail
        /\ \A h \in Graph, m \in Node : h # e.g \/ m # e.n =>
              k2.runs[h][m] = k.runs[h][m] /\ k2.ds[h][m] = k.ds[h][m]
        /\ k2.runs[e.g][e.n] = k.runs[e.g][e.n] + 1
        /\ s2.init = s.init /\ s2.mode = s.mode /\ s2.crossed = s.crossed
        /\ s2.known = IF s.init # e.init THEN s.known ELSE IF e.kind = "turn" THEN 1 ELSE s.known + 1

\* What the spawn function does to slots and rounds.
LEMMA ExecuteDoes ==
  ASSUME NEW k \in Shared, NEW e \in Entries
  PROVE  /\ e.kind = "node" => Grown(k, Execute(k, e), e.g, Job("admit", e.n, "-"))
         /\ e.kind # "node" => Started(k, Execute(k, e), e)
<1>1. e.g \in Graph /\ e.n \in Node
  BY DEF Entries
<1>2. ASSUME e.kind = "node" PROVE Grown(k, Execute(k, e), e.g, Job("admit", e.n, "-"))
  <2> DEFINE j == Job("admit", e.n, "-")
  <2>1. j \in Job3
    BY <1>1, NodesAreNat DEF Job, Job3, Ops, Details
  <2>2. Execute(k, e) = Append1(k, e.g, j)
    BY <1>2 DEF Execute
  <2> HIDE DEF j
  <2>3. Grown(k, Execute(k, e), e.g, j)
    BY <1>1, <2>1, <2>2, Append1Grown
  <2> QED
    BY <2>3 DEF j
<1>3. ASSUME e.kind # "node" PROVE Started(k, Execute(k, e), e)
  <2> DEFINE s == k.ds[e.g][e.n]
             v == IF s.init # e.init THEN s.known ELSE IF e.kind = "turn" THEN 1 ELSE s.known + 1
             k2 == [k EXCEPT !.runs[e.g][e.n] = @ + 1, !.ds[e.g][e.n].known = v]
  <2>1. Execute(k, e) = k2
    BY <1>1, <1>3 DEF Execute, Shared
  <2>2. v \in Int /\ s \in DriverStates
    BY <1>1 DEF Shared, DriverStates
  <2> HIDE DEF v
  <2>3. /\ k2.globalActiveSubAgents = k.globalActiveSubAgents /\ k2.spawnQueue = k.spawnQueue
        /\ k2.tail = k.tail
        /\ k2.ds = [k.ds EXCEPT ![e.g][e.n].known = v]
        /\ k2.runs = [k.runs EXCEPT ![e.g][e.n] = @ + 1]
    BY DEF Shared
  <2> HIDE DEF k2
  <2>4. /\ k2.ds[e.g][e.n].init = s.init /\ k2.ds[e.g][e.n].mode = s.mode /\ k2.ds[e.g][e.n].known = v
        /\ k2.ds[e.g][e.n].crossed = s.crossed
        /\ k2.runs[e.g][e.n] = k.runs[e.g][e.n] + 1
    BY <1>1, <2>2, <2>3 DEF Shared, DriverStates
  <2>5. \A h \in Graph, m \in Node : h # e.g \/ m # e.n =>
           k2.runs[h][m] = k.runs[h][m] /\ k2.ds[h][m] = k.ds[h][m]
    BY <1>1, <2>3 DEF Shared
  <2> QED
    BY <2>1, <2>3, <2>4, <2>5 DEF Started, v
<1> QED
  BY <1>2, <1>3

\* The node of the entry holds a slot more.
LEMMA ExecuteHolds ==
  ASSUME NEW k \in Shared, NEW e \in Entries, NEW k2 \in Shared, k2 = Execute(k, e)
  PROVE  /\ k2.globalActiveSubAgents = k.globalActiveSubAgents /\ k2.spawnQueue = k.spawnQueue
         /\ Held(k2, e.g, e.n) = Held(k, e.g, e.n) + 1
         /\ \A h \in Graph, m \in Node : h # e.g \/ m # e.n => Held(k2, h, m) = Held(k, h, m)
         /\ \A h \in Graph, m \in Node : Acts(k2, h, m) = Acts(k, h, m)
<1>1. e.g \in Graph /\ e.n \in Node
  BY DEF Entries
<1>2. \A h \in Graph, m \in Node : /\ Claims(k, h, m) \in Nat /\ Acts(k, h, m) \in Nat
                                   /\ k.runs[h][m] \in Int
  BY ClaimsAreNat DEF Shared
<1>3. CASE e.kind = "node"
  <2> DEFINE j == Job("admit", e.n, "-")
  <2>1. Grown(k, k2, e.g, j)
    BY <1>3, ExecuteDoes
  <2>2. \A m : /\ Hit(j, {"admit", "start"}, m) = (IF m = e.n THEN 1 ELSE 0)
               /\ Hit(j, {"action"}, m) = 0
    BY DEF Hit, Job
  <2> HIDE DEF j
  <2>3. /\ k2.globalActiveSubAgents = k.globalActiveSubAgents /\ k2.spawnQueue = k.spawnQueue
        /\ k2.runs = k.runs
    BY <2>1 DEF Grown
  <2>4. \A h \in Graph, m \in Node :
           /\ Claims(k2, h, m) = Claims(k, h, m) + (IF h = e.g /\ m = e.n THEN 1 ELSE 0)
           /\ Acts(k2, h, m) = Acts(k, h, m)
    BY <1>2, <2>1, <2>2 DEF Grown
  <2> QED
    BY <1>1, <1>2, <2>3, <2>4 DEF Held
<1>4. CASE e.kind # "node"
  <2>1. Started(k, k2, e)
    BY <1>4, ExecuteDoes
  <2>2. \A h \in Graph, m \in Node : Claims(k2, h, m) = Claims(k, h, m) /\ Acts(k2, h, m) = Acts(k, h, m)
    BY <2>1 DEF Started, Claims, Acts
  <2> QED
    BY <1>1, <1>2, <2>1, <2>2 DEF Held, Started
<1> QED
  BY <1>3, <1>4

\* What the driver states know when an entry is served.
LEMMA ExecuteKnows ==
  ASSUME NEW k \in Shared, NEW e \in Entries
  PROVE  Knows(k, Execute(k, e))
<1>1. CASE e.kind = "node"
  BY <1>1, ExecuteDoes DEF Grown, Knows
<1>2. CASE e.kind # "node"
  <2>1. Started(k, Execute(k, e), e)
    BY <1>2, ExecuteDoes
  <2>2. \A h \in Graph, m \in Node : k.ds[h][m].known \in Int
    BY DEF Shared, DriverStates
  <2> DEFINE k2 == Execute(k, e)
  <2> HIDE DEF k2
  <2>3. ASSUME NEW h \in Graph, NEW m \in Node
        PROVE  /\ k2.ds[h][m].mode = k.ds[h][m].mode /\ k2.ds[h][m].crossed = k.ds[h][m].crossed
               /\ k.ds[h][m].known >= 0 => k2.ds[h][m].known >= 0
               /\ k.ds[h][m].known > 0 => k2.ds[h][m].known > 0
    <3>1. CASE h # e.g \/ m # e.n
      BY <2>1, <3>1 DEF Started, k2
    <3>2. CASE h = e.g /\ m = e.n
      BY <2>1, <2>2, <3>2, SMTT(30) DEF Started, k2
    <3> QED
      BY <3>1, <3>2
  <2> QED
    BY <2>3 DEF Knows, k2
<1> QED
  BY <1>1, <1>2

\* A round of which nothing changes but the entries of other nodes in the queue.
LEMMA RoundBeside ==
  ASSUME NEW k \in Shared, NEW k2 \in Shared, NEW g \in Graph, NEW n \in Node, NEW i, NEW o,
         RoundOK(k, g, n, i, o),
         k2.ds[g][n] = k.ds[g][n], k2.runs[g][n] = k.runs[g][n], Acts(k2, g, n) = Acts(k, g, n),
         \/ Thins(k.spawnQueue, k2.spawnQueue)
         \/ \E e \in Entries : ~(e.g = g /\ e.n = n) /\ k2.spawnQueue = Append(k.spawnQueue, e)
  PROVE  RoundOK(k2, g, n, i, o)
<1> DEFINE q == k.spawnQueue
           q2 == k2.spawnQueue
           d == k.ds[g][n]
<1>1. q \in Seq(Entries) /\ q2 \in Seq(Entries)
  BY DEF Shared
<1>2. /\ Mine(q, g, n, d.init) = {} => Mine(q2, g, n, d.init) = {}
      /\ Upto(q, g, n, i) => Upto(q2, g, n, i)
      /\ Lined(q, d, g, n) => Lined(q2, d, g, n)
  <2>1. CASE Thins(q, q2)
    BY <1>1, <2>1, LinedThins
  <2>2. CASE \E e \in Entries : ~(e.g = g /\ e.n = n) /\ q2 = Append(q, e)
    <3> PICK e \in Entries : ~(e.g = g /\ e.n = n) /\ q2 = Append(q, e)
      BY <2>2
    <3> HIDE DEF q, q2, d
    <3> QED
      BY <1>1, LinedAppend
  <2> QED
    BY <2>1, <2>2
<1> QED
  BY <1>2 DEF RoundOK

\* A slot is claimed for an entry and it is served.
LEMMA ExecServed ==
  ASSUME NEW k \in Shared, NEW k1 \in Shared, NEW e \in Entries, NEW k2 \in Shared, k2 = Execute(k1, e),
         k.globalActiveSubAgents < MaxGlobalSubAgents,
         k1.globalActiveSubAgents = k.globalActiveSubAgents + 1,
         k1.runs = k.runs, k1.ds = k.ds, k1.tail = k.tail,
         Thins(k.spawnQueue, k1.spawnQueue), Full(k) => k1.spawnQueue = <<>>
  PROVE  Served(k, k2, {<<e.g, e.n>>})
<1>1. e.g \in Graph /\ e.n \in Node
  BY DEF Entries
<1>2. /\ k2.globalActiveSubAgents = k1.globalActiveSubAgents /\ k2.spawnQueue = k1.spawnQueue
      /\ Held(k2, e.g, e.n) = Held(k1, e.g, e.n) + 1
      /\ \A h \in Graph, m \in Node : h # e.g \/ m # e.n => Held(k2, h, m) = Held(k1, h, m)
      /\ \A h \in Graph, m \in Node : Acts(k2, h, m) = Acts(k1, h, m)
  BY ExecuteHolds
<1>3. \A h \in Graph, m \in Node : Held(k1, h, m) = Held(k, h, m) /\ Acts(k1, h, m) = Acts(k, h, m)
  BY DEF Held, Claims, Acts
<1>4. k.globalActiveSubAgents \in Int /\ MaxGlobalSubAgents \in Nat
  BY CoordinatorAssumption DEF Shared
<1>5. Slack(k2) = Slack(k)
  <2>1. /\ k2.globalActiveSubAgents = k.globalActiveSubAgents + 1
        /\ Held(k2, e.g, e.n) = Held(k, e.g, e.n) + 1
        /\ \A h \in Graph, m \in Node : h # e.g \/ m # e.n => Held(k2, h, m) = Held(k, h, m)
    BY <1>1, <1>2, <1>3
  <2>2. Slack(k2) = Slack(k) + (1 - 1)
    BY <1>1, <2>1, SlackOne
  <2>3. Slack(k) \in Int
    BY WeightsAre
  <2> QED
    BY <2>2, <2>3
<1>6. (InLimit(k) => InLimit(k2)) /\ (Full(k) => Full(k2))
  BY <1>2, <1>4 DEF InLimit, Full
<1>7. Knows(k, k2)
  <2>1. Knows(k1, k2)
    BY ExecuteKnows
  <2> QED
    BY <2>1 DEF Knows
<1>8. ASSUME NEW g \in Graph, NEW n \in Node, <<g, n>> \in Driver \ {<<e.g, e.n>>},
             NEW i \in Nat, NEW o \in 0 .. 1, RoundOK(k, g, n, i, o)
      PROVE  RoundOK(k2, g, n, i, o)
  <2>1. g # e.g \/ n # e.n
    BY <1>8
  <2>2. k2.ds[g][n] = k.ds[g][n] /\ k2.runs[g][n] = k.runs[g][n]
    <3>1. CASE e.kind = "node"
      BY <3>1, ExecuteDoes DEF Grown
    <3>2. CASE e.kind # "node"
      BY <2>1, <3>2, ExecuteDoes, SMTT(30) DEF Started
    <3> QED
      BY <3>1, <3>2
  <2>3. Acts(k2, g, n) = Acts(k, g, n) /\ Thins(k.spawnQueue, k2.spawnQueue)
    BY <1>2, <1>3
  <2> QED
    BY <1>8, <2>2, <2>3, RoundBeside
<1> QED
  BY <1>5, <1>6, <1>7, <1>8 DEF Served

\* The driver state of the node knows one run more.
OneMore(k, k2, g, n) == k2.ds[g][n].known = k.ds[g][n].known + 1

\* The entry at the head of the queue is served: its own round goes on.
LEMMA HeadRound ==
  ASSUME NEW k \in Shared, NEW k1 \in Shared, k.spawnQueue # <<>>, NEW k2 \in Shared,
         k2 = Execute(k1, Head(k.spawnQueue)),
         k1.runs = k.runs, k1.ds = k.ds, k1.tail = k.tail, k1.spawnQueue = Tail(k.spawnQueue),
         NEW g, g = Head(k.spawnQueue).g, NEW n, n = Head(k.spawnQueue).n, <<g, n>> \in Driver,
         NEW i \in Nat, NEW o \in 0 .. 1, RoundOK(k, g, n, i, o)
  PROVE  /\ RoundOK(k2, g, n, i, o)
         /\ Head(k.spawnQueue).init = k.ds[g][n].init /\ ~k.ds[g][n].crossed => OneMore(k, k2, g, n)
<1> DEFINE q == k.spawnQueue
           e == Head(q)
           d == k.ds[g][n]
           d2 == k2.ds[g][n]
           r == k.runs[g][n]
           r2 == k2.runs[g][n]
<1>1. q \in Seq(Entries) /\ q # <<>>
  BY DEF Shared
<1>2. e \in Entries /\ 1 \in 1 .. Len(q) /\ e = q[1]
  BY <1>1
<1>3. g \in Graph /\ n \in Node /\ e.kind # "node" /\ e.init \in Nat /\ e.init # 0
  BY <1>2 DEF Entries
<1>5. Started(k1, k2, e)
  BY <1>2, <1>3, ExecuteDoes
<1>6. k2.spawnQueue = Tail(q) /\ Acts(k2, g, n) = Acts(k, g, n)
  BY <1>5 DEF Started, Acts
<1>7. /\ r2 = r + 1 /\ d2.init = d.init /\ d2.mode = d.mode /\ d2.crossed = d.crossed
      /\ d2.known = IF d.init # e.init THEN d.known ELSE IF e.kind = "turn" THEN 1 ELSE d.known + 1
  BY <1>5 DEF Started
<1>8. r \in Int /\ d.known \in Int /\ d.init \in Nat
  <2>1. r \in Int /\ d \in DriverStates
    BY <1>3 DEF Shared
  <2> QED
    BY <2>1 DEF DriverStates
<1>9. d.init \in {0, i} /\ e.init <= i
  <2>1. d.init \in {0, i} /\ Upto(q, g, n, i)
    BY DEF RoundOK
  <2> QED
    BY <1>2, <2>1 DEF Upto
<1>10. i # 0
  BY <1>3, <1>9
<1>12. /\ Upto(Tail(q), g, n, i)
       /\ Mine(q, g, n, d.init) = {} => Mine(Tail(q), g, n, d.init) = {}
       /\ Lined(q, d, g, n) => Lined(Tail(q), d, g, n)
  <2>1. Upto(q, g, n, i)
    BY DEF RoundOK
  <2> HIDE DEF q, d
  <2> QED
    BY <1>1, <2>1, TailLined
<1>13. CASE d.init = 0
  <2>1. RoundOK(k2, g, n, i, o)
    BY <1>6, <1>7, <1>10, <1>12, <1>13 DEF RoundOK
  <2> QED
    BY <1>3, <1>13, <2>1
<1>14. CASE d.init # 0 /\ e.init # d.init
  <2>1. i # 1
    BY <1>3, <1>9, <1>14
  <2>2. d2.known = d.known
    BY <1>7, <1>14
  <2>3. Lined(Tail(q), d, g, n) => Lined(Tail(q), d2, g, n)
    <3>1. d2.init = d.init /\ d2.mode = d.mode /\ d2.known = d.known
      BY <1>7, <2>2
    <3> HIDE DEF d, d2, q
    <3> QED
      BY <3>1 DEF Lined
  <2>4. RoundOK(k2, g, n, i, o)
    BY <1>6, <1>7, <1>10, <1>12, <2>1, <2>2, <2>3 DEF RoundOK
  <2> QED
    BY <1>14, <2>4
<1>15. CASE d.init # 0 /\ e.init = d.init /\ d.crossed
  <2>1. i # 1
    BY <1>15 DEF RoundOK
  <2>2. RoundOK(k2, g, n, i, o)
    BY <1>6, <1>7, <1>9, <1>10, <1>12, <1>15, <2>1 DEF RoundOK
  <2> QED
    BY <1>15, <2>2
<1>16. CASE d.init # 0 /\ e.init = d.init /\ ~d.crossed
  <2>1. Mine(q, g, n, d.init) # {}
    BY <1>2, <1>16 DEF Mine
  <2>2. /\ d.mode \in {"turn", "par"} /\ (i = 1 => r + o = d.known)
        /\ Acts(k, g, n) <= 1 /\ Acts(k, g, n) # 1 /\ Lined(q, d, g, n)
    BY <1>16, <2>1 DEF RoundOK
  <2>3. /\ e.kind = d.mode
        /\ d.mode = "turn" => d.known = 0 /\ Mine(Tail(q), g, n, d.init) = {}
        /\ Lined(Tail(q), d2, g, n)
    BY <1>1, <1>7, <1>16, <2>2, LinedHead
  <2>4. d2.known = d.known + 1 /\ (d2.mode = "turn" => d2.known <= 1)
    <3> HIDE DEF d, d2, e, q
    <3>1. CASE d.mode = "turn"
      BY <1>7, <1>16, <2>3, <3>1
    <3>2. CASE d.mode = "par"
      BY <1>7, <1>16, <2>3, <3>2
    <3> QED
      BY <2>2, <3>1, <3>2
  <2>5. i = 1 => r2 + o = d2.known
    <3> DEFINE x == d.known
               x2 == d2.known
    <3>1. r2 = r + 1 /\ (i = 1 => r + o = x) /\ x2 = x + 1 /\ r \in Int /\ o \in Int
      <4>1. r2 = r + 1
        BY <1>7
      <4>2. i = 1 => r + o = x
        BY <2>2
      <4>3. x2 = x + 1
        BY <2>4
      <4>4. r \in Int
        BY <1>8
      <4>5. o \in Int
        OBVIOUS
      <4> QED
        BY <4>1, <4>2, <4>3, <4>4, <4>5
    <3> HIDE DEF r, r2, x, x2
    <3>2. i = 1 => r2 + o = x2
      BY <3>1
    <3> QED
      BY <3>2 DEF x2
  <2> QED
    BY <1>6, <1>7, <1>9, <1>10, <1>12, <1>16, <2>2, <2>3, <2>4, <2>5 DEF RoundOK, OneMore
<1> QED
  BY <1>13, <1>14, <1>15, <1>16

\* The slots in use change.
LEMMA NewActive ==
  ASSUME NEW ph, NEW k, WellFormed(ph, k), NEW v \in Int
  PROVE  Slots(ph, k, [k EXCEPT !.globalActiveSubAgents = v])
<1> DEFINE k2 == [k EXCEPT !.globalActiveSubAgents = v]
<1>1. k2 \in Shared /\ k2.tail = k.tail /\ k2.ds = k.ds
  BY DEF WellFormed, Shared
<1> HIDE DEF k2
<1>2. Slots(ph, k, k2)
  BY <1>1, OtherFields DEF Slots
<1> QED
  BY <1>2 DEF k2

\* The queue changes.
LEMMA NewQueue ==
  ASSUME NEW ph, NEW k, WellFormed(ph, k), NEW q \in Seq(Entries)
  PROVE  Slots(ph, k, [k EXCEPT !.spawnQueue = q])
<1> DEFINE k2 == [k EXCEPT !.spawnQueue = q]
<1>1. k2 \in Shared /\ k2.tail = k.tail /\ k2.ds = k.ds
  BY DEF WellFormed, Shared
<1> HIDE DEF k2
<1>2. Slots(ph, k, k2)
  BY <1>1, OtherFields DEF Slots
<1> QED
  BY <1>2 DEF k2

\* A slot is claimed or the entry is queued.
LEMMA GatedSpawnIs ==
  ASSUME NEW ph, NEW k, WellFormed(ph, k), NEW e \in Entries
  PROVE  Slots(ph, k, GatedSpawn(k, e))
<1> DEFINE k1 == [k EXCEPT !.globalActiveSubAgents = k.globalActiveSubAgents + 1]
           q == Append(k.spawnQueue, e)
<1>1. k.globalActiveSubAgents + 1 \in Int /\ k.spawnQueue \in Seq(Entries)
  BY DEF WellFormed, Shared
<1>2. q \in Seq(Entries)
  BY <1>1
<1>3. Slots(ph, k, k1)
  BY <1>1, NewActive
<1>4. Slots(ph, k, [k EXCEPT !.spawnQueue = q])
  BY <1>2, NewQueue
<1>5. Slots(ph, k, Execute(k1, e))
  <2> HIDE DEF k1
  <2>1. Slots(ph, k1, Execute(k1, e))
    BY <1>3, ExecuteIs DEF Slots
  <2> QED
    BY <1>3, <2>1, SlotsSlots
<1>6. \/ GatedSpawn(k, e) = Execute(k1, e)
      \/ GatedSpawn(k, e) = [k EXCEPT !.spawnQueue = q]
  <2>1. CASE k.globalActiveSubAgents < MaxGlobalSubAgents
    BY <2>1 DEF GatedSpawn
  <2>2. CASE ~(k.globalActiveSubAgents < MaxGlobalSubAgents)
    BY <2>2 DEF GatedSpawn
  <2> QED
    BY <2>1, <2>2
<1> HIDE DEF k1, q
<1> QED
  BY <1>4, <1>5, <1>6

\* One round of a drain.
LEMMA DrainRoundIs ==
  ASSUME NEW ph, NEW k, WellFormed(ph, k)
  PROVE  Slots(ph, k, DrainRound(k))
<1>1. CASE k.spawnQueue = <<>> \/ k.globalActiveSubAgents >= MaxGlobalSubAgents
  BY <1>1, SlotsSame DEF DrainRound
<1>2. CASE ~(k.spawnQueue = <<>> \/ k.globalActiveSubAgents >= MaxGlobalSubAgents)
  <2> DEFINE e == Head(k.spawnQueue)
             rest == [k EXCEPT !.spawnQueue = Tail(k.spawnQueue)]
             k1 == [rest EXCEPT !.globalActiveSubAgents = rest.globalActiveSubAgents + 1]
  <2>1. k.spawnQueue \in Seq(Entries) /\ k.spawnQueue # <<>>
    BY <1>2 DEF WellFormed, Shared
  <2>2. e \in Entries /\ Tail(k.spawnQueue) \in Seq(Entries)
    BY <2>1
  <2>3. Slots(ph, k, rest)
    BY <2>2, NewQueue
  <2>4. \/ DrainRound(k) = rest
        \/ DrainRound(k) = Execute(k1, e)
    <3>1. CASE phase[e.g] = "done"
      BY <1>2, <3>1 DEF DrainRound
    <3>2. CASE phase[e.g] # "done"
      BY <1>2, <3>2 DEF DrainRound
    <3> QED
      BY <3>1, <3>2
  <2> HIDE DEF e, rest
  <2>5. Slots(ph, rest, k1)
    <3>1. rest.globalActiveSubAgents + 1 \in Int
      BY <2>3 DEF Slots, WellFormed, Shared
    <3> QED
      BY <2>3, <3>1, NewActive DEF Slots
  <2> HIDE DEF k1
  <2>6. Slots(ph, k1, Execute(k1, e))
    BY <2>2, <2>5, ExecuteIs DEF Slots
  <2> QED
    BY <2>3, <2>4, <2>5, <2>6, SlotsSlots
<1> QED
  BY <1>1, <1>2

\* The state with other slots in use.
LEMMA ActiveFields ==
  ASSUME NEW k \in Shared, NEW v \in Int, NEW k2, k2 = [k EXCEPT !.globalActiveSubAgents = v]
  PROVE  /\ k2 \in Shared /\ k2.globalActiveSubAgents = v /\ k2.spawnQueue = k.spawnQueue
         /\ k2.runs = k.runs /\ k2.ds = k.ds /\ k2.tail = k.tail
BY DEF Shared

\* An entry joins the queue.
LEMMA QueuedServed ==
  ASSUME NEW k \in Shared, NEW e \in Entries, ~(k.globalActiveSubAgents < MaxGlobalSubAgents),
         NEW k2 \in Shared, k2 = [k EXCEPT !.spawnQueue = Append(k.spawnQueue, e)]
  PROVE  Served(k, k2, {<<e.g, e.n>>})
<1>1. /\ k2.spawnQueue = Append(k.spawnQueue, e) /\ k2.globalActiveSubAgents = k.globalActiveSubAgents
      /\ k2.runs = k.runs /\ k2.ds = k.ds /\ k2.tail = k.tail
  BY DEF Shared
<1>2. k.globalActiveSubAgents \in Int /\ MaxGlobalSubAgents \in Nat
  BY CoordinatorAssumption DEF Shared
<1>3. Slack(k2) = Slack(k)
  <2>1. \A h \in Graph, m \in Node : Held(k2, h, m) = Held(k, h, m)
    BY <1>1 DEF Held, Claims
  <2>2. k2.globalActiveSubAgents = k.globalActiveSubAgents + 0 /\ 0 \in Int
    BY <1>1, <1>2
  <2>3. Slack(k2) = Slack(k) + 0 /\ Slack(k) \in Int
    BY <2>1, <2>2, SlackSame, WeightsAre
  <2> QED
    BY <2>3
<1>4. (InLimit(k) => InLimit(k2)) /\ (Full(k) => Full(k2)) /\ Knows(k, k2)
  BY <1>1, <1>2 DEF InLimit, Full, Knows
<1>5. ASSUME NEW g \in Graph, NEW n \in Node, <<g, n>> \in Driver \ {<<e.g, e.n>>},
             NEW i \in Nat, NEW o \in 0 .. 1, RoundOK(k, g, n, i, o)
      PROVE  RoundOK(k2, g, n, i, o)
  <2>1. ~(e.g = g /\ e.n = n)
    BY <1>5
  <2>2. k2.ds[g][n] = k.ds[g][n] /\ k2.runs[g][n] = k.runs[g][n] /\ Acts(k2, g, n) = Acts(k, g, n)
    BY <1>1 DEF Acts
  <2>3. \E x \in Entries : ~(x.g = g /\ x.n = n) /\ k2.spawnQueue = Append(k.spawnQueue, x)
    BY <1>1, <2>1
  <2> QED
    BY <1>5, <2>2, <2>3, RoundBeside
<1> QED
  BY <1>3, <1>4, <1>5 DEF Served

\* A spawn that is gated.
LEMMA GatedServed ==
  ASSUME NEW ph, NEW k, WellFormed(ph, k), NEW e \in Entries
  PROVE  Served(k, GatedSpawn(k, e), {<<e.g, e.n>>})
<1> DEFINE k1 == [k EXCEPT !.globalActiveSubAgents = k.globalActiveSubAgents + 1]
           k2 == GatedSpawn(k, e)
<1>1. k \in Shared /\ k2 \in Shared
  BY GatedSpawnIs DEF WellFormed, Slots
<1>2. CASE k.globalActiveSubAgents < MaxGlobalSubAgents
  <2>1. k2 = Execute(k1, e)
    BY <1>2 DEF GatedSpawn
  <2>2. /\ k1 \in Shared
        /\ k1.globalActiveSubAgents = k.globalActiveSubAgents + 1 /\ k1.spawnQueue = k.spawnQueue
        /\ k1.runs = k.runs /\ k1.ds = k.ds /\ k1.tail = k.tail
    <3>1. k.globalActiveSubAgents + 1 \in Int
      BY <1>1 DEF Shared
    <3> QED
      BY <1>1, <3>1, ActiveFields
  <2>3. k.spawnQueue \in Seq(Entries) /\ k.globalActiveSubAgents \in Int /\ MaxGlobalSubAgents \in Nat
    BY <1>1, CoordinatorAssumption DEF Shared
  <2>4. Thins(k.spawnQueue, k1.spawnQueue)
    BY <2>2, <2>3, SameThins
  <2>5. Full(k) => k1.spawnQueue = <<>>
    BY <1>2, <2>2, <2>3 DEF Full
  <2> HIDE DEF k1, k2
  <2>6. Served(k, k2, {<<e.g, e.n>>})
    BY <1>1, <1>2, <2>1, <2>2, <2>4, <2>5, ExecServed
  <2> QED
    BY <2>6 DEF k2
<1>3. CASE ~(k.globalActiveSubAgents < MaxGlobalSubAgents)
  <2>1. k2 = [k EXCEPT !.spawnQueue = Append(k.spawnQueue, e)]
    BY <1>3 DEF GatedSpawn
  <2> HIDE DEF k2
  <2>2. Served(k, k2, {<<e.g, e.n>>})
    BY <1>1, <1>3, <2>1, QueuedServed
  <2> QED
    BY <2>2 DEF k2
<1> QED
  BY <1>2, <1>3

\* The queue becomes thinner.
LEMMA ThinServed ==
  ASSUME NEW k \in Shared, NEW q \in Seq(Entries), Thins(k.spawnQueue, q), NEW k2 \in Shared,
         k2 = [k EXCEPT !.spawnQueue = q]
  PROVE  Served(k, k2, {})
<1>1. /\ k2.spawnQueue = q /\ k2.globalActiveSubAgents = k.globalActiveSubAgents
      /\ k2.runs = k.runs /\ k2.ds = k.ds /\ k2.tail = k.tail
  BY DEF Shared
<1>2. k.globalActiveSubAgents \in Int /\ MaxGlobalSubAgents \in Nat /\ k.spawnQueue \in Seq(Entries)
  BY CoordinatorAssumption DEF Shared
<1>3. Slack(k2) = Slack(k)
  <2>1. \A h \in Graph, m \in Node : Held(k2, h, m) = Held(k, h, m)
    BY <1>1 DEF Held, Claims
  <2>2. k2.globalActiveSubAgents = k.globalActiveSubAgents + 0 /\ 0 \in Int
    BY <1>1, <1>2
  <2>3. Slack(k2) = Slack(k) + 0 /\ Slack(k) \in Int
    BY <2>1, <2>2, SlackSame, WeightsAre
  <2> QED
    BY <2>3
<1>4. k.spawnQueue = <<>> => q = <<>>
  <2> SUFFICES ASSUME k.spawnQueue = <<>>, q # <<>> PROVE FALSE
    OBVIOUS
  <2>1. PICK f \in [1 .. Len(q) -> 1 .. Len(k.spawnQueue)] : TRUE
    BY DEF Thins
  <2>2. 1 \in 1 .. Len(q) /\ 1 .. Len(k.spawnQueue) = {}
    OBVIOUS
  <2> QED
    BY <2>1, <2>2
<1>5. (InLimit(k) => InLimit(k2)) /\ (Full(k) => Full(k2)) /\ Knows(k, k2)
  BY <1>1, <1>4 DEF InLimit, Full, Knows
<1>6. ASSUME NEW g \in Graph, NEW n \in Node, NEW i \in Nat, NEW o \in 0 .. 1, RoundOK(k, g, n, i, o)
      PROVE  RoundOK(k2, g, n, i, o)
  <2>1. k2.ds[g][n] = k.ds[g][n] /\ k2.runs[g][n] = k.runs[g][n] /\ Acts(k2, g, n) = Acts(k, g, n)
    BY <1>1 DEF Acts
  <2>2. Thins(k.spawnQueue, k2.spawnQueue)
    BY <1>1
  <2> QED
    BY <1>6, <2>1, <2>2, RoundBeside
<1> QED
  BY <1>3, <1>5, <1>6 DEF Served

\* What one round of a drain does: nothing, or the entry at the head of the queue
\* is dropped or served.
LEMMA DrainRoundCases ==
  ASSUME NEW ph, NEW k, WellFormed(ph, k), ~Full(k)
  PROVE  LET e    == Head(k.spawnQueue)
             rest == [k EXCEPT !.spawnQueue = Tail(k.spawnQueue)]
             k1   == [rest EXCEPT !.globalActiveSubAgents = k.globalActiveSubAgents + 1]
         IN  /\ k.spawnQueue \in Seq(Entries) /\ k.spawnQueue # <<>> /\ e \in Entries
             /\ k.globalActiveSubAgents < MaxGlobalSubAgents
             /\ rest \in Shared /\ k1 \in Shared
             /\ k1.globalActiveSubAgents = k.globalActiveSubAgents + 1
             /\ k1.runs = k.runs /\ k1.ds = k.ds /\ k1.tail = k.tail
             /\ k1.spawnQueue = Tail(k.spawnQueue)
             /\ DrainRound(k) = IF phase[e.g] = "done" THEN rest ELSE Execute(k1, e)
<1> DEFINE e    == Head(k.spawnQueue)
           rest == [k EXCEPT !.spawnQueue = Tail(k.spawnQueue)]
           k1   == [rest EXCEPT !.globalActiveSubAgents = k.globalActiveSubAgents + 1]
<1>1. k.spawnQueue \in Seq(Entries) /\ k.globalActiveSubAgents \in Int /\ k \in Shared
  BY DEF WellFormed, Shared
<1>2. /\ k.spawnQueue # <<>> /\ k.globalActiveSubAgents < MaxGlobalSubAgents
      /\ ~(k.spawnQueue = <<>> \/ k.globalActiveSubAgents >= MaxGlobalSubAgents)
  BY <1>1, CoordinatorAssumption DEF Full
<1>3. e \in Entries /\ Tail(k.spawnQueue) \in Seq(Entries)
  BY <1>1, <1>2
<1>4. /\ rest \in Shared /\ rest.globalActiveSubAgents = k.globalActiveSubAgents
      /\ rest.runs = k.runs /\ rest.ds = k.ds /\ rest.tail = k.tail
      /\ rest.spawnQueue = Tail(k.spawnQueue)
  BY <1>1, <1>3 DEF Shared
<1>5. /\ k1 \in Shared /\ k1.globalActiveSubAgents = k.globalActiveSubAgents + 1
      /\ k1.runs = k.runs /\ k1.ds = k.ds /\ k1.tail = k.tail /\ k1.spawnQueue = Tail(k.spawnQueue)
  <2> HIDE DEF rest
  <2>1. k.globalActiveSubAgents + 1 \in Int
    BY <1>1
  <2>2. /\ k1 \in Shared /\ k1.globalActiveSubAgents = k.globalActiveSubAgents + 1
        /\ k1.spawnQueue = rest.spawnQueue
        /\ k1.runs = rest.runs /\ k1.ds = rest.ds /\ k1.tail = rest.tail
    BY <1>4, <2>1, ActiveFields
  <2> QED
    BY <1>4, <2>2
<1>6. DrainRound(k) = IF phase[e.g] = "done" THEN rest ELSE Execute(k1, e)
  BY <1>2, <1>4 DEF DrainRound
<1> QED
  BY <1>1, <1>2, <1>3, <1>4, <1>5, <1>6

\* One round of a drain serves one or nobody, and knows one more of the round
\* that it serves.
LEMMA DrainRoundServed ==
  ASSUME NEW ph, NEW k, WellFormed(ph, k)
  PROVE  Served(k, DrainRound(k), {})
<1>1. CASE Full(k)
  <2>1. DrainRound(k) = k
    BY <1>1 DEF Full, DrainRound
  <2> QED
    BY <2>1, ServedSame
<1>2. CASE ~Full(k)
  <2> DEFINE e    == Head(k.spawnQueue)
             rest == [k EXCEPT !.spawnQueue = Tail(k.spawnQueue)]
             k1   == [rest EXCEPT !.globalActiveSubAgents = k.globalActiveSubAgents + 1]
             k2   == DrainRound(k)
  <2>1. /\ k.spawnQueue \in Seq(Entries) /\ k.spawnQueue # <<>> /\ e \in Entries
        /\ k.globalActiveSubAgents < MaxGlobalSubAgents
        /\ rest \in Shared /\ k1 \in Shared
        /\ k1.globalActiveSubAgents = k.globalActiveSubAgents + 1
        /\ k1.runs = k.runs /\ k1.ds = k.ds /\ k1.tail = k.tail
        /\ k1.spawnQueue = Tail(k.spawnQueue)
        /\ k2 = IF phase[e.g] = "done" THEN rest ELSE Execute(k1, e)
    BY <1>2, DrainRoundCases
  <2>2. k \in Shared /\ k2 \in Shared
    BY DrainRoundIs DEF Slots, WellFormed
  <2>3. Tail(k.spawnQueue) \in Seq(Entries) /\ Thins(k.spawnQueue, Tail(k.spawnQueue))
    BY <2>1, TailThins
  <2> HIDE DEF k1, k2
  <2>4. CASE phase[e.g] = "done"
    <3>1. k2 = [k EXCEPT !.spawnQueue = Tail(k.spawnQueue)]
      BY <2>1, <2>4
    <3>2. Served(k, k2, {})
      BY <2>2, <2>3, <3>1, ThinServed
    <3> QED
      BY <3>2 DEF k2
  <2>5. CASE phase[e.g] # "done"
    <3>1. k2 = Execute(k1, e)
      BY <2>1, <2>5
    <3>2. Served(k, k2, {<<e.g, e.n>>})
      BY <1>2, <2>1, <2>2, <2>3, <3>1, ExecServed
    <3>3. ASSUME NEW g \in Graph, NEW n \in Node, <<g, n>> \in Driver, NEW i \in Nat, NEW o \in 0 .. 1,
                 RoundOK(k, g, n, i, o)
          PROVE  RoundOK(k2, g, n, i, o)
      <4>1. CASE g = e.g /\ n = e.n
        <5>1. k2 = Execute(k1, Head(k.spawnQueue)) /\ g = Head(k.spawnQueue).g /\ n = Head(k.spawnQueue).n
          BY <3>1, <4>1
        <5>2. /\ k \in Shared /\ k1 \in Shared /\ k2 \in Shared /\ k.spawnQueue # <<>>
              /\ k1.runs = k.runs /\ k1.ds = k.ds /\ k1.tail = k.tail
              /\ k1.spawnQueue = Tail(k.spawnQueue)
          BY <2>1, <2>2
        <5> HIDE DEF e
        <5> QED
          BY <3>3, <5>1, <5>2, HeadRound
      <4>2. CASE ~(g = e.g /\ n = e.n)
        BY <3>2, <3>3, <4>2 DEF Served
      <4> QED
        BY <4>1, <4>2
    <3>4. Served(k, k2, {})
      BY <3>2, <3>3 DEF Served
    <3> QED
      BY <3>4 DEF k2
  <2> QED
    BY <2>4, <2>5
<1> QED
  BY <1>1, <1>2

\* The rounds f of a drain of L entries.
Drains(ph, k, f, L) ==
    /\ f[0] = k /\ Drain(k) = f[L] /\ L \in Nat
    /\ \A i \in 1 .. L : f[i] = DrainRound(f[i - 1])
    /\ \A i \in 0 .. L : Slots(ph, k, f[i]) /\ Served(k, f[i], {})

\* There are as many as entries in the queue.
LEMMA DrainLoop ==
  ASSUME NEW ph, NEW k, WellFormed(ph, k)
  PROVE  \E f : Drains(ph, k, f, Len(k.spawnQueue))
<1> DEFINE L == Len(k.spawnQueue)
           R == {r \in Shared : Slots(ph, k, r) /\ Served(k, r, {})}
           Eq(f) == f = [i \in 0 .. L |-> IF i = 0 THEN k ELSE DrainRound(f[i - 1])]
           loop == CHOOSE f : Eq(f)
           step == [i \in 1 .. L |-> [r \in R |-> DrainRound(r)]]
<1>1. L \in Nat
  BY DEF WellFormed, Shared
<1>2. k \in R
  BY SlotsSame, ServedSame DEF WellFormed
<1>3. ASSUME NEW i \in 1 .. L, NEW r \in R PROVE DrainRound(r) \in R
  <2>1. Slots(ph, k, DrainRound(r))
    BY DrainRoundIs, SlotsSlots DEF Slots
  <2>2. Served(k, DrainRound(r), {})
    BY DrainRoundServed, ServedServed DEF Slots
  <2> QED
    BY <2>1, <2>2 DEF Slots, WellFormed
<1>4. Drain(k) = loop[L]
  BY DEF Drain
<1> HIDE DEF L, R
<1>5. PICK f \in [0 .. L -> R] : Follows(f, L, k, step)
  <2>1. step \in [1 .. L -> [R -> R]]
    BY <1>3
  <2> HIDE DEF step
  <2> QED
    BY <1>1, <1>2, <2>1, RecursionSolved
<1>6. \A i \in 1 .. L : f[i] = DrainRound(f[i - 1])
  <2> SUFFICES ASSUME NEW i \in 1 .. L PROVE f[i] = DrainRound(f[i - 1])
    OBVIOUS
  <2>1. f[i - 1] \in R
    BY <1>1
  <2> QED
    BY <1>5, <2>1 DEF Follows
<1>7. Eq(f)
  <2>1. \A i \in 0 .. L : f[i] = IF i = 0 THEN k ELSE DrainRound(f[i - 1])
    <3> SUFFICES ASSUME NEW i \in 0 .. L, i # 0 PROVE f[i] = DrainRound(f[i - 1])
      BY <1>5 DEF Follows
    <3>1. i \in 1 .. L
      BY <1>1
    <3> QED
      BY <1>6, <3>1
  <2> QED
    BY <2>1
<1>8. Eq(loop)
  <2> HIDE DEF Eq
  <2> QED
    BY <1>7
<1> HIDE DEF loop
<1>9. loop[0] = k /\ \A i \in 1 .. L : loop[i] = DrainRound(loop[i - 1])
  BY <1>1, <1>8
<1> HIDE DEF Eq
<1>10. \A i \in 1 .. L : loop[i - 1] \in R => loop[i] \in R
  BY <1>3, <1>9
<1>11. \A m \in 0 .. L : loop[m] \in R
  <2> SUFFICES ASSUME NEW m \in 0 .. L PROVE loop[m] \in R
    OBVIOUS
  <2>1. m \in Nat /\ \A i \in 1 .. m : i \in 1 .. L
    BY <1>1
  <2> QED
    BY <1>2, <1>9, <1>10, <2>1, LoopStays
<1>12. \A m \in 0 .. L : Slots(ph, k, loop[m]) /\ Served(k, loop[m], {})
  BY <1>11 DEF R
<1>13. Drains(ph, k, loop, L)
  BY <1>1, <1>4, <1>9, <1>12 DEF Drains
<1> QED
  BY <1>13 DEF L

\* A drain of the queue.
LEMMA DrainIs ==
  ASSUME NEW ph, NEW k, WellFormed(ph, k)
  PROVE  Slots(ph, k, Drain(k)) /\ Served(k, Drain(k), {})
<1> DEFINE L == Len(k.spawnQueue)
<1>1. PICK f : Drains(ph, k, f, L)
  BY DrainLoop
<1> HIDE DEF L
<1>2. L \in 0 .. L
  BY <1>1 DEF Drains
<1> QED
  BY <1>1, <1>2 DEF Drains

\* What a round that finds a free slot and a spawn that waits does to the queue
\* and to the round of a driver: if one of its runs is known, nothing else is
\* served before the entries of the round.
LEMMA DrainRoundQueue ==
  ASSUME NEW ph, NEW k, WellFormed(ph, k), ~Full(k)
  PROVE  /\ k.spawnQueue \in Seq(Entries) /\ k.spawnQueue # <<>>
         /\ DrainRound(k).spawnQueue = Tail(k.spawnQueue)
         /\ \A g \in Graph, n \in Node, i \in Nat :
               <<g, n>> \in Driver /\ Ongoing(k, g, n, i) /\ Waiting(k, g, n) # {}
               => \/ DrainRound(k).ds[g][n].known = k.ds[g][n].known + 1
                  \/ /\ DrainRound(k).ds[g][n] = k.ds[g][n]
                     /\ DrainRound(k).globalActiveSubAgents < MaxGlobalSubAgents
<1> DEFINE q == k.spawnQueue
           e == Head(q)
           rest == [k EXCEPT !.spawnQueue = Tail(k.spawnQueue)]
           k1 == [rest EXCEPT !.globalActiveSubAgents = k.globalActiveSubAgents + 1]
           k2 == DrainRound(k)
<1>1. /\ q \in Seq(Entries) /\ q # <<>> /\ e \in Entries
      /\ k.globalActiveSubAgents < MaxGlobalSubAgents
      /\ rest \in Shared /\ k1 \in Shared
      /\ k1.runs = k.runs /\ k1.ds = k.ds /\ k1.tail = k.tail /\ k1.spawnQueue = Tail(q)
      /\ k2 = IF phase[e.g] = "done" THEN rest ELSE Execute(k1, e)
  BY DrainRoundCases
<1>2. k \in Shared /\ k2 \in Shared
  BY DrainRoundIs DEF Slots, WellFormed
<1>3. /\ rest.spawnQueue = Tail(q) /\ rest.ds = k.ds
      /\ rest.globalActiveSubAgents = k.globalActiveSubAgents
  BY <1>1, <1>2 DEF Shared
<1> HIDE DEF rest, k1, k2
<1>4. k2.spawnQueue = Tail(q)
  <2>1. CASE phase[e.g] = "done"
    BY <1>1, <1>3, <2>1
  <2>2. CASE phase[e.g] # "done"
    <3>1. k2 = Execute(k1, e)
      BY <1>1, <2>2
    <3>2. k2.spawnQueue = k1.spawnQueue
      BY <1>1, <1>2, <3>1, ExecuteHolds
    <3> QED
      BY <1>1, <3>2
  <2> QED
    BY <2>1, <2>2
<1>5. ASSUME NEW g \in Graph, NEW n \in Node, NEW i \in Nat, <<g, n>> \in Driver,
             Ongoing(k, g, n, i), Waiting(k, g, n) # {}
      PROVE  \/ k2.ds[g][n].known = k.ds[g][n].known + 1
             \/ k2.ds[g][n] = k.ds[g][n] /\ k2.globalActiveSubAgents < MaxGlobalSubAgents
  <2> DEFINE a == k.ds[g][n].init
  <2>0. /\ RoundOK(k, g, n, i, 1) /\ a # 0 /\ ~k.ds[g][n].crossed
        /\ k.ds[g][n].mode = "par" /\ k.ds[g][n].known > 0
    BY <1>5 DEF Ongoing
  <2>1. Lined(q, k.ds[g][n], g, n)
    BY <2>0 DEF RoundOK
  <2>2. PICK j \in Mine(q, g, n, a) : TRUE
    BY <1>5 DEF Waiting
  <2>3. j \in 1 .. Len(q) /\ 1 \in 1 .. Len(q) /\ 1 <= j
    BY <1>1, <2>2 DEF Mine
  <2>4. 1 \in Mine(q, g, n, a)
    BY <2>0, <2>1, <2>2, <2>3 DEF Lined
  <2>5. g = Head(q).g /\ n = Head(q).n /\ Head(q).init = a
    BY <1>1, <2>4 DEF Mine
  <2>6. CASE phase[e.g] = "done"
    BY <1>1, <1>3, <2>6
  <2>7. CASE phase[e.g] # "done"
    <3>1. k2 = Execute(k1, Head(k.spawnQueue)) /\ 1 \in 0 .. 1
      BY <1>1, <2>7
    <3>2. /\ k1 \in Shared /\ k1.runs = k.runs /\ k1.ds = k.ds /\ k1.tail = k.tail
          /\ k1.spawnQueue = Tail(k.spawnQueue) /\ k.spawnQueue # <<>>
          /\ g = Head(k.spawnQueue).g /\ n = Head(k.spawnQueue).n
          /\ Head(k.spawnQueue).init = k.ds[g][n].init
      BY <1>1, <2>5
    <3> HIDE DEF e, q
    <3>3. <<g, n>> \in Driver
      BY <1>5
    <3>4. ASSUME NEW l \in Nat, NEW o \in 0 .. 1, RoundOK(k, g, n, l, o)
          PROVE  Head(k.spawnQueue).init = k.ds[g][n].init /\ ~k.ds[g][n].crossed =>
                     OneMore(k, k2, g, n)
      BY <1>2, <3>1, <3>2, <3>3, <3>4, HeadRound
    <3>5. k2.ds[g][n].known = k.ds[g][n].known + 1
      BY <2>0, <3>1, <3>2, <3>4 DEF OneMore
    <3> QED
      BY <3>5
  <2> QED
    BY <2>6, <2>7
<1> QED
  BY <1>1, <1>4, <1>5 DEF k2

\* A drain leaves no slot free while a spawn waits.
LEMMA DrainFull ==
  ASSUME NEW ph, NEW k, WellFormed(ph, k)
  PROVE  Full(Drain(k))
<1> DEFINE L == Len(k.spawnQueue)
<1>a. PICK f : Drains(ph, k, f, L)
  BY DrainLoop
<1> USE <1>a DEF Drains
<1> DEFINE P(i) == Full(f[i]) \/ Len(f[i].spawnQueue) = L - i
           T == {i \in Nat : i <= L => P(i)}
<1>1. 0 \in T
  OBVIOUS
<1> HIDE DEF L
<1>2. \A i \in T : i + 1 \in T
  <2> SUFFICES ASSUME NEW i \in Nat, i + 1 <= L, P(i) PROVE P(i + 1)
    OBVIOUS
  <2>1. i \in 0 .. L /\ i + 1 \in 1 .. L /\ (i + 1) - 1 = i
    OBVIOUS
  <2>2. f[i + 1] = DrainRound(f[i])
    BY <2>1
  <2>3. WellFormed(ph, f[i])
    BY <2>1 DEF Slots
  <2>4. CASE Full(f[i])
    BY <2>2, <2>4 DEF DrainRound, Full
  <2>5. CASE ~Full(f[i])
    <3> DEFINE q == f[i].spawnQueue
    <3>1. q \in Seq(Entries) /\ q # <<>> /\ f[i + 1].spawnQueue = Tail(q)
      BY <2>2, <2>3, <2>5, DrainRoundQueue
    <3>2. Len(q) = L - i
      BY <2>5
    <3> HIDE DEF q
    <3>3. Len(Tail(q)) = L - (i + 1)
      BY <3>1, <3>2
    <3> QED
      BY <3>1, <3>3
  <2> QED
    BY <2>4, <2>5
<1>3. L \in T
  <2> HIDE DEF T
  <2>1. T = Nat
    BY <1>1, <1>2, InductiveSet DEF T
  <2> QED
    BY <2>1
<1>4. CASE Full(f[L])
  BY <1>4
<1>5. CASE Len(f[L].spawnQueue) = L - L
  <2>1. L \in 0 .. L
    OBVIOUS
  <2>2. f[L].spawnQueue \in Seq(Entries)
    BY <2>1 DEF Slots, WellFormed, Shared
  <2>3. f[L].spawnQueue = <<>>
    BY <1>5, <2>2
  <2> QED
    BY <2>3 DEF Full
<1> QED
  BY <1>3, <1>4, <1>5

\* A slot is free, and a run of a parallel round that has more than one has
\* ended: after the drain no entry of the round waits, or the round knows one more.
LEMMA DrainOwn ==
  ASSUME NEW ph, NEW k, WellFormed(ph, k), k.globalActiveSubAgents < MaxGlobalSubAgents,
         NEW g \in Graph, NEW n \in Node, <<g, n>> \in Driver, NEW i0 \in Nat, Ongoing(k, g, n, i0)
  PROVE  \/ Waiting(Drain(k), g, n) = {}
         \/ Drain(k).ds[g][n].known > k.ds[g][n].known
<1> DEFINE L == Len(k.spawnQueue)
           d(r) == r.ds[g][n]
           K == k.ds[g][n].known
           Good(r) == \/ Waiting(r, g, n) = {}
                      \/ d(r).known > K
                      \/ d(r).known = K /\ r.globalActiveSubAgents < MaxGlobalSubAgents
           R == {r \in Shared : Good(r)}
<1>0. k \in Shared /\ K \in Int
  BY DEF WellFormed, Shared, DriverStates
<1>a. PICK f : Drains(ph, k, f, L)
  BY DrainLoop
<1> USE <1>a DEF Drains
<1>1. f[0] \in R
  BY <1>0
<1> HIDE DEF L
<1>2. ASSUME NEW i \in 1 .. L, f[i - 1] \in R PROVE f[i] \in R
  <2> DEFINE r == f[i - 1]
             r2 == f[i]
  <2>1. r2 = DrainRound(r) /\ Slots(ph, k, r) /\ Served(k, r, {}) /\ Slots(ph, k, r2) /\ Good(r)
    <3>1. i - 1 \in 0 .. L /\ i \in 0 .. L
      OBVIOUS
    <3> QED
      BY <1>2, <3>1
  <2> HIDE DEF r, r2
  <2>2. WellFormed(ph, r) /\ r \in Shared /\ r2 \in Shared /\ d(r).known \in Int
    <3>1. WellFormed(ph, r) /\ r \in Shared /\ r2 \in Shared
      BY <2>1 DEF Slots, WellFormed
    <3> QED
      BY <3>1, SMTT(30) DEF Shared, DriverStates
  <2>3. Ongoing(r, g, n, i0) /\ d(r2).init = d(r).init
    <3>0. /\ RoundOK(k, g, n, i0, 1) /\ d(k).init # 0 /\ ~d(k).crossed
          /\ d(k).mode = "par" /\ d(k).known > 0 /\ 1 \in 0 .. 1
      BY DEF Ongoing
    <3>1. d(r).init = d(k).init /\ d(r2).init = d(k).init
      BY <2>1 DEF Slots, Keeps
    <3>2. d(r).mode = "par" /\ d(r).known > 0 /\ d(r).crossed = d(k).crossed
      BY <2>1, <3>0 DEF Served, Knows
    <3>3. RoundOK(r, g, n, i0, 1)
      BY <2>1, <3>0 DEF Served
    <3> QED
      BY <3>0, <3>1, <3>2, <3>3 DEF Ongoing
  <2>4. CASE Full(r)
    <3>1. r2 = r
      BY <2>1, <2>4 DEF DrainRound, Full
    <3> QED
      BY <2>1, <2>2, <3>1 DEF r2
  <2>5. CASE ~Full(r) /\ Waiting(r, g, n) = {}
    <3>1. r.spawnQueue \in Seq(Entries) /\ r.spawnQueue # <<>> /\ r2.spawnQueue = Tail(r.spawnQueue)
      BY <2>1, <2>2, <2>5, DrainRoundQueue
    <3>2. Waiting(r2, g, n) = {}
      BY <2>3, <2>5, <3>1, TailLined DEF Waiting
    <3> QED
      BY <2>2, <3>2 DEF r2
  <2>6. CASE ~Full(r) /\ Waiting(r, g, n) # {}
    <3>1. \/ d(r2).known = d(r).known + 1
          \/ d(r2) = d(r) /\ r2.globalActiveSubAgents < MaxGlobalSubAgents
      <4>1. r2 = DrainRound(r)
        BY <2>1
      <4> QED
        <5>1. \A h \in Graph, m \in Node, l \in Nat :
                 <<h, m>> \in Driver /\ Ongoing(r, h, m, l) /\ Waiting(r, h, m) # {}
                 => \/ r2.ds[h][m].known = r.ds[h][m].known + 1
                    \/ /\ r2.ds[h][m] = r.ds[h][m]
                       /\ r2.globalActiveSubAgents < MaxGlobalSubAgents
          BY <2>2, <2>6, <4>1, DrainRoundQueue
        <5> QED
          BY <2>3, <2>6, <5>1
    <3>2. d(r).known > K \/ d(r).known = K
      BY <2>1, <2>6
    <3>3. Good(r2)
      <4> HIDE DEF K
      <4>1. CASE d(r2).known = d(r).known + 1
        <5>1. d(r2).known > K
          <6> DEFINE x == d(r).known
                     y == d(r2).known
          <6>1. x \in Int /\ K \in Int /\ y = x + 1 /\ (x > K \/ x = K)
            BY <1>0, <2>2, <3>2, <4>1
          <6> HIDE DEF x, y
          <6>2. y > K
            BY <6>1
          <6> QED
            BY <6>2 DEF y
        <5> QED
          BY <5>1
      <4>2. CASE d(r2) = d(r) /\ r2.globalActiveSubAgents < MaxGlobalSubAgents
        BY <3>2, <4>2
      <4> QED
        BY <3>1, <4>1, <4>2
    <3> QED
      BY <2>2, <3>3 DEF r2
  <2> QED
    BY <2>4, <2>5, <2>6
<1>3. f[L] \in R
  <2> HIDE DEF R
  <2> QED
    BY <1>1, <1>2, LoopStays
<1>4. Full(f[L])
  BY DrainFull
<1>5. f[L].globalActiveSubAgents < MaxGlobalSubAgents => Waiting(f[L], g, n) = {}
  <2> SUFFICES ASSUME f[L].globalActiveSubAgents < MaxGlobalSubAgents
               PROVE  Waiting(f[L], g, n) = {}
    OBVIOUS
  <2>1. f[L].globalActiveSubAgents \in Int /\ MaxGlobalSubAgents \in Nat
    BY <1>3, CoordinatorAssumption DEF Shared
  <2>2. f[L].spawnQueue = <<>>
    BY <1>4, <2>1 DEF Full
  <2> QED
    BY <2>2 DEF Waiting, Mine
<1> QED
  BY <1>3, <1>5


\* A slot is given back and the queue is drained.
LEMMA ReleaseIs ==
  ASSUME NEW ph, NEW k, WellFormed(ph, k)
  PROVE  Slots(ph, k, ReleaseAndDrainQueue(k))
<1> DEFINE v == IF k.globalActiveSubAgents = 0 THEN 0 ELSE k.globalActiveSubAgents - 1
           k1 == [k EXCEPT !.globalActiveSubAgents = v]
<1>1. v \in Int
  BY DEF WellFormed, Shared
<1>2. ReleaseAndDrainQueue(k) = Drain(k1)
  BY DEF ReleaseAndDrainQueue
<1> HIDE DEF v
<1>3. Slots(ph, k, k1)
  BY <1>1, NewActive
<1> HIDE DEF k1
<1>4. Slots(ph, k1, Drain(k1))
  BY <1>3, DrainIs DEF Slots
<1> QED
  BY <1>2, <1>3, <1>4, SlotsSlots

\* The driver states know a number of runs.
Knowing(k) == \A g \in Graph, n \in Node : k.ds[g][n].known >= 0

\* The rounds of drivers, those of the nodes X aside, are as right in k2 as in k.
Rounds(k, k2, X) ==
    \A g \in Graph, n \in Node : <<g, n>> \in Driver \ X =>
        \A i \in Nat, o \in 0 .. 1 : RoundOK(k, g, n, i, o) => RoundOK(k2, g, n, i, o)

AtLeast(k, k2, a) == Slack(k2) >= Slack(k) + a

\* From k to k2 the slots held by nobody become at least a more, and what holds
\* of the limit, the queue and the rounds goes on to hold, but for the nodes X.
Shifts(k, k2, a, X) ==
    Knowing(k) => /\ Knowing(k2) /\ AtLeast(k, k2, a)
                  /\ InLimit(k) => InLimit(k2)
                  /\ Full(k) => Full(k2)
                  /\ Rounds(k, k2, X)

\* Serving is such a shift.
LEMMA ServedShifts ==
  ASSUME NEW k \in Shared, NEW k2 \in Shared, NEW X, Served(k, k2, X)
  PROVE  Shifts(k, k2, 0, X)
<1>1. AtLeast(k, k2, 0)
  <2>1. Slack(k) \in Int /\ Slack(k2) = Slack(k)
    BY WeightsAre DEF Served
  <2> QED
    BY <2>1 DEF AtLeast
<1>2. Knowing(k) => Knowing(k2)
  BY DEF Served, Knows, Knowing
<1>3. Rounds(k, k2, X) /\ (InLimit(k) => InLimit(k2)) /\ (Full(k) => Full(k2))
  BY DEF Served, Rounds
<1> QED
  BY <1>1, <1>2, <1>3 DEF Shifts

LEMMA AlikeShifts ==
  ASSUME NEW k \in Shared, NEW k2 \in Shared, NEW X, Alike(k, k2)
  PROVE  Shifts(k, k2, 0, X)
BY AlikeServed, ServedShifts

\* One shift after the other.
LEMMA ShiftsShifts ==
  ASSUME NEW k1 \in Shared, NEW k2 \in Shared, NEW k3 \in Shared, NEW a \in Int, NEW b \in Int,
         NEW s, s = a + b, NEW X, Shifts(k1, k2, a, X), Shifts(k2, k3, b, X)
  PROVE  Shifts(k1, k3, s, X)
<1> SUFFICES ASSUME Knowing(k1)
             PROVE  /\ Knowing(k3) /\ AtLeast(k1, k3, s)
                    /\ InLimit(k1) => InLimit(k3)
                    /\ Full(k1) => Full(k3)
                    /\ Rounds(k1, k3, X)
  BY DEF Shifts
<1>1. /\ Knowing(k2) /\ AtLeast(k1, k2, a) /\ Rounds(k1, k2, X)
      /\ InLimit(k1) => InLimit(k2)
      /\ Full(k1) => Full(k2)
  BY DEF Shifts
<1>2. /\ Knowing(k3) /\ AtLeast(k2, k3, b) /\ Rounds(k2, k3, X)
      /\ InLimit(k2) => InLimit(k3)
      /\ Full(k2) => Full(k3)
  BY <1>1 DEF Shifts
<1>3. AtLeast(k1, k3, s)
  <2>1. Slack(k1) \in Int /\ Slack(k2) \in Int /\ Slack(k3) \in Int
    BY WeightsAre
  <2> QED
    BY <1>1, <1>2, <2>1 DEF AtLeast
<1>4. ASSUME NEW g \in Graph, NEW n \in Node, <<g, n>> \in Driver \ X, NEW i \in Nat, NEW o \in 0 .. 1,
             RoundOK(k1, g, n, i, o)
      PROVE  RoundOK(k3, g, n, i, o)
  <2>1. RoundOK(k2, g, n, i, o)
    BY <1>1, <1>4 DEF Rounds
  <2> QED
    BY <1>2, <1>4, <2>1 DEF Rounds
<1> QED
  BY <1>1, <1>2, <1>3, <1>4 DEF Rounds

\* More nodes are excluded.
LEMMA ShiftsMore ==
  ASSUME NEW k, NEW k2, NEW a, NEW X, NEW Y, X \subseteq Y, Shifts(k, k2, a, X)
  PROVE  Shifts(k, k2, a, Y)
BY DEF Shifts, Rounds

\* A slot is given back and the queue is drained.
LEMMA ReleaseShifts ==
  ASSUME NEW ph, NEW k, WellFormed(ph, k)
  PROVE  Shifts(k, ReleaseAndDrainQueue(k), -1, {}) /\ Knows(k, ReleaseAndDrainQueue(k))
<1> DEFINE a == k.globalActiveSubAgents
           v == IF a = 0 THEN 0 ELSE a - 1
           k1 == [k EXCEPT !.globalActiveSubAgents = v]
           k2 == Drain(k1)
<1>1. a \in Int /\ v \in Int /\ v - a \in Int /\ v - a >= -1 /\ k \in Shared /\ v = a + (v - a)
  BY DEF WellFormed, Shared
<1>2. ReleaseAndDrainQueue(k) = k2
  BY DEF ReleaseAndDrainQueue
<1>3. (a \in 0 .. MaxGlobalSubAgents) => (v \in 0 .. MaxGlobalSubAgents)
  BY <1>1, CoordinatorAssumption
<1> HIDE DEF v
<1>4. Slots(ph, k, k1)
  BY <1>1, NewActive
<1>5. /\ k1 \in Shared /\ k1.globalActiveSubAgents = v /\ k1.spawnQueue = k.spawnQueue
      /\ k1.runs = k.runs /\ k1.ds = k.ds /\ k1.tail = k.tail
  BY <1>1, ActiveFields
<1> HIDE DEF k1
<1>6. Slots(ph, k1, k2) /\ Served(k1, k2, {}) /\ Full(k2) /\ k2 \in Shared
  BY <1>4, DrainIs, DrainFull DEF Slots, WellFormed
<1> HIDE DEF k2
<1>7. Knows(k, k2)
  BY <1>5, <1>6 DEF Served, Knows
<1>8. InLimit(k) => InLimit(k2)
  BY <1>3, <1>5, <1>6 DEF Served, InLimit
<1>9. Rounds(k, k2, {})
  <2>1. Rounds(k, k1, {})
    <3> SUFFICES ASSUME NEW g \in Graph, NEW n \in Node, NEW i, NEW o, RoundOK(k, g, n, i, o)
                 PROVE  RoundOK(k1, g, n, i, o)
      BY DEF Rounds
    <3>1. Acts(k1, g, n) = Acts(k, g, n)
      BY <1>5 DEF Acts
    <3> QED
      BY <1>5, <3>1 DEF RoundOK
  <2> QED
    BY <1>6, <2>1 DEF Rounds, Served
<1>10. AtLeast(k, k2, -1)
  <2>1. \A h \in Graph, m \in Node : Held(k1, h, m) = Held(k, h, m)
    BY <1>5 DEF Held, Claims
  <2>2. k1.globalActiveSubAgents = k.globalActiveSubAgents + (v - a)
    BY <1>1, <1>5
  <2> DEFINE b == v - a
  <2> HIDE DEF b
  <2>3. Slack(k1) = Slack(k) + b
    <3>1. b \in Int /\ k1.globalActiveSubAgents = k.globalActiveSubAgents + b
      BY <1>1, <2>2 DEF b
    <3> QED
      BY <1>1, <1>5, <2>1, <3>1, SlackSame
  <2>4. Slack(k2) = Slack(k1) /\ Slack(k) \in Int /\ Slack(k2) \in Int
    BY <1>1, <1>6, WeightsAre DEF Served
  <2>5. b \in Int /\ b >= -1
    BY <1>1 DEF b
  <2> QED
    BY <2>3, <2>4, <2>5 DEF AtLeast
<1>11. Knowing(k) => Knowing(k2)
  BY <1>7 DEF Knows, Knowing
<1> QED
  BY <1>2, <1>6, <1>7, <1>8, <1>9, <1>10, <1>11 DEF Shifts

\* A slot was free when the queue was drained: a parallel round that may be over
\* has no entry left in the queue.
LEMMA ReleaseOwn ==
  ASSUME NEW ph, NEW k, WellFormed(ph, k), InLimit(k),
         NEW g \in Graph, NEW n \in Node, <<g, n>> \in Driver, NEW i \in Nat, Ongoing(k, g, n, i),
         NEW k2, k2 = ReleaseAndDrainQueue(k), k2.ds[g][n].known <= 1
  PROVE  Waiting(k2, g, n) = {}
<1> DEFINE a == k.globalActiveSubAgents
           v == IF a = 0 THEN 0 ELSE a - 1
           k1 == [k EXCEPT !.globalActiveSubAgents = v]
<1>1. a \in Int /\ v \in Int /\ k \in Shared /\ v < MaxGlobalSubAgents
  BY CoordinatorAssumption DEF WellFormed, Shared, InLimit
<1>2. k2 = Drain(k1)
  BY DEF ReleaseAndDrainQueue
<1> HIDE DEF v
<1>3. Slots(ph, k, k1)
  BY <1>1, NewActive
<1>4. /\ k1 \in Shared /\ k1.globalActiveSubAgents = v /\ k1.spawnQueue = k.spawnQueue
      /\ k1.runs = k.runs /\ k1.ds = k.ds /\ k1.tail = k.tail
  BY <1>1, ActiveFields
<1> HIDE DEF k1
<1>5. Ongoing(k1, g, n, i) /\ k1.ds[g][n].known > 0
  <2>1. Acts(k1, g, n) = Acts(k, g, n)
    BY <1>4 DEF Acts
  <2> QED
    BY <1>4, <2>1 DEF RoundOK, Ongoing
<1>6. WellFormed(ph, k1) /\ WellFormed(ph, k2)
  BY <1>2, <1>3, DrainIs DEF Slots
<1>7. k1.ds[g][n] = k.ds[g][n] /\ k1.globalActiveSubAgents < MaxGlobalSubAgents
  BY <1>1, <1>4
<1>8. Waiting(k2, g, n) = {} \/ k2.ds[g][n].known > k1.ds[g][n].known
  BY <1>2, <1>5, <1>6, <1>7, DrainOwn
<1>9. k.ds[g][n].known \in Int /\ k2.ds[g][n].known \in Int
  BY <1>6, <1>1 DEF WellFormed, Shared, DriverStates
<1> QED
  BY <1>5, <1>7, <1>8, <1>9

\* r consists of some of the first i entries of q.
ThinTo(q, r, i) ==
    \E f \in [1 .. Len(r) -> 1 .. i] :
        /\ \A j \in 1 .. Len(r) : r[j] = q[f[j]]
        /\ \A l, j \in 1 .. Len(r) : l < j => f[l] < f[j]

\* The next entry is left out or kept.
LEMMA ThinMore ==
  ASSUME NEW q \in Seq(Entries), NEW r \in Seq(Entries), NEW i \in 1 .. Len(q), ThinTo(q, r, i - 1)
  PROVE  ThinTo(q, r, i) /\ ThinTo(q, Append(r, q[i]), i)
<1> PICK f \in [1 .. Len(r) -> 1 .. i - 1] :
        /\ \A j \in 1 .. Len(r) : r[j] = q[f[j]]
        /\ \A l, j \in 1 .. Len(r) : l < j => f[l] < f[j]
  BY DEF ThinTo
<1> DEFINE L == Len(r)
           r2 == Append(r, q[i])
           f2 == [j \in 1 .. L + 1 |-> IF j = L + 1 THEN i ELSE f[j]]
<1>1. L \in Nat /\ i \in Nat
  OBVIOUS
<1>2. f \in [1 .. L -> 1 .. i] /\ \A j \in 1 .. L : f[j] < i /\ f[j] \in 1 .. i
  <2>1. \A j \in 1 .. L : f[j] \in 1 .. i - 1
    OBVIOUS
  <2>2. \A x \in 1 .. i - 1 : x < i /\ x \in 1 .. i
    OBVIOUS
  <2>3. \A j \in 1 .. L : f[j] < i /\ f[j] \in 1 .. i
    BY <2>1, <2>2
  <2> QED
    BY <2>3
<1>3. ThinTo(q, r, i)
  BY <1>2 DEF ThinTo
<1>4. Len(r2) = L + 1 /\ r2[L + 1] = q[i] /\ \A j \in 1 .. L : r2[j] = r[j]
  <2>1. q[i] \in Entries
    OBVIOUS
  <2> QED
    BY <2>1
<1>5. \A j \in 1 .. L + 1 : j = L + 1 \/ (j \in 1 .. L /\ j # L + 1)
  BY <1>1
<1> HIDE DEF L, r2
<1>6. f2 \in [1 .. L + 1 -> 1 .. i]
  <2> SUFFICES ASSUME NEW j \in 1 .. L + 1 PROVE (IF j = L + 1 THEN i ELSE f[j]) \in 1 .. i
    OBVIOUS
  <2>1. i \in 1 .. i
    BY <1>1
  <2> QED
    BY <1>2, <1>5, <2>1
<1>7. \A j \in 1 .. L + 1 : f2[j] = IF j = L + 1 THEN i ELSE f[j]
  OBVIOUS
<1> HIDE DEF f2
<1>8. \A j \in 1 .. L + 1 : r2[j] = q[f2[j]]
  BY <1>4, <1>5, <1>7 DEF L
<1>9. ASSUME NEW l \in 1 .. L + 1, NEW j \in 1 .. L + 1, l < j PROVE f2[l] < f2[j]
  <2>1. l \in 1 .. L /\ l # L + 1
    BY <1>1, <1>9
  <2>2. CASE j = L + 1
    BY <1>2, <1>7, <2>1, <2>2
  <2>3. CASE j \in 1 .. L /\ j # L + 1
    <3>1. f2[l] = f[l] /\ f2[j] = f[j]
      BY <1>7, <2>1, <2>3
    <3> QED
      BY <1>9, <2>1, <2>3, <3>1 DEF L
  <2> QED
    BY <1>5, <2>2, <2>3
<1>10. ThinTo(q, r2, i)
  BY <1>4, <1>6, <1>8, <1>9 DEF ThinTo
<1> QED
  BY <1>3, <1>10 DEF r2

\* The queue without some entries is a queue.
LEMMA WithoutIs ==
  ASSUME NEW q \in Seq(Entries), NEW S
  PROVE  Without(q, S) \in Seq(Entries) /\ Thins(q, Without(q, S))
<1> DEFINE Ext(i, r) == IF <<q[i].g, q[i].n>> \in S THEN r ELSE Append(r, q[i])
<1> DEFINE L == Len(q)
           R == Seq(Entries)
           Eq(f) == f = [i \in 0 .. L |-> IF i = 0 THEN <<>> ELSE Ext(i, f[i - 1])]
           loop == CHOOSE f : Eq(f)
           step == [i \in 1 .. L |-> [r \in R |-> Ext(i, r)]]
<1>1. L \in Nat
  OBVIOUS
<1>2. <<>> \in R
  OBVIOUS
<1>3. ASSUME NEW i \in 1 .. L, NEW r \in R PROVE Ext(i, r) \in R
  <2>1. q[i] \in Entries
    OBVIOUS
  <2> QED
    BY <2>1
<1>a. ASSUME NEW i \in 1 .. L, NEW r \in R, ThinTo(q, r, i - 1) PROVE ThinTo(q, Ext(i, r), i)
  <2>1. ThinTo(q, r, i) /\ ThinTo(q, Append(r, q[i]), i)
    BY <1>a, ThinMore
  <2> QED
    BY <2>1
<1>b. ThinTo(q, <<>>, 0)
  <2> DEFINE f == [j \in 1 .. 0 |-> 1]
  <2>1. f \in [1 .. 0 -> 1 .. 0] /\ Len(<<>>) = 0 /\ \A j \in 1 .. 0 : FALSE
    OBVIOUS
  <2> DEFINE e == <<>>
  <2> HIDE DEF f, e
  <2>2. f \in [1 .. Len(e) -> 1 .. 0] /\ \A j \in 1 .. Len(e) : FALSE
    BY <2>1 DEF e
  <2>3. ThinTo(q, e, 0)
    BY <2>2 DEF ThinTo
  <2> QED
    BY <2>3 DEF e
<1>4. Without(q, S) = loop[L]
  BY DEF Without
<1> HIDE DEF L, R, Ext
<1>5. PICK f \in [0 .. L -> R] : Follows(f, L, <<>>, step)
  <2>1. step \in [1 .. L -> [R -> R]]
    BY <1>3
  <2> HIDE DEF step
  <2> QED
    BY <1>1, <1>2, <2>1, RecursionSolved
<1>6. \A i \in 1 .. L : f[i] = Ext(i, f[i - 1])
  <2> SUFFICES ASSUME NEW i \in 1 .. L PROVE f[i] = Ext(i, f[i - 1])
    OBVIOUS
  <2>1. f[i - 1] \in R
    BY <1>1
  <2> QED
    BY <1>5, <2>1 DEF Follows
<1>7. Eq(f)
  <2>1. \A i \in 0 .. L : f[i] = IF i = 0 THEN <<>> ELSE Ext(i, f[i - 1])
    <3> SUFFICES ASSUME NEW i \in 0 .. L, i # 0 PROVE f[i] = Ext(i, f[i - 1])
      BY <1>5 DEF Follows
    <3>1. i \in 1 .. L
      BY <1>1
    <3> QED
      BY <1>6, <3>1
  <2> QED
    BY <2>1
<1>8. Eq(loop)
  <2> HIDE DEF Eq
  <2> QED
    BY <1>7
<1> HIDE DEF loop
<1>9. loop[0] = <<>> /\ \A i \in 1 .. L : loop[i] = Ext(i, loop[i - 1])
  BY <1>1, <1>8
<1> HIDE DEF Eq
<1> DEFINE T == {i \in Nat : i <= L => loop[i] \in R /\ ThinTo(q, loop[i], i)}
<1>10. 0 \in T
  BY <1>2, <1>9, <1>b
<1>11. \A i \in T : i + 1 \in T
  <2> SUFFICES ASSUME NEW i \in Nat, i + 1 <= L, loop[i] \in R, ThinTo(q, loop[i], i)
               PROVE  loop[i + 1] \in R /\ ThinTo(q, loop[i + 1], i + 1)
    BY <1>1
  <2>1. i + 1 \in 1 .. L /\ (i + 1) - 1 = i
    BY <1>1
  <2>2. loop[i + 1] = Ext(i + 1, loop[i])
    BY <1>9, <2>1
  <2> DEFINE j == i + 1
             r == loop[i]
  <2>3. j \in 1 .. L /\ r \in R /\ ThinTo(q, r, j - 1)
    BY <2>1
  <2> HIDE DEF j, r
  <2>4. Ext(j, r) \in R /\ ThinTo(q, Ext(j, r), j)
    BY <1>3, <1>a, <2>3
  <2> QED
    BY <2>2, <2>4 DEF j, r
<1>12. L \in T
  <2> HIDE DEF T
  <2>1. T = Nat
    BY <1>10, <1>11, InductiveSet DEF T
  <2> QED
    BY <1>1, <2>1
<1>13. loop[L] \in R /\ ThinTo(q, loop[L], L)
  BY <1>1, <1>12
<1>14. ThinTo(q, Without(q, S), Len(q)) /\ Without(q, S) \in Seq(Entries)
  BY <1>4, <1>13 DEF R, L
<1> QED
  BY <1>14 DEF ThinTo, Thins

\* A node is sent to the pool, or its driver start joins the tail.
LEMMA SpawnNodeIs ==
  ASSUME NEW ph, NEW k, WellFormed(ph, k), NEW g \in Graph, ph[g] # "absent", NEW n \in Node
  PROVE  Slots(ph, k, SpawnNode(k, g, n)) /\ Served(k, SpawnNode(k, g, n), {})
<1>1. CASE <<g, n>> \in Driver
  <2> DEFINE j == Job("driver", n, "-")
  <2>1. n \in Nat
    BY NodesAreNat
  <2>2. j \in Job3
    BY <2>1 DEF Job, Job3, Ops, Details
  <2>3. j \in JobsOf(ph, g) /\ j.op = "driver"
    BY <1>1, <2>2 DEF Job, JobsOf
  <2>4. SpawnNode(k, g, n) = Append1(k, g, j)
    BY <1>1 DEF SpawnNode
  <2> HIDE DEF j
  <2>5. Slots(ph, k, Append1(k, g, j))
    BY <2>3, Append1Is, NeutralKeeps DEF Slots
  <2>6. k \in Shared /\ Append1(k, g, j) \in Shared
    BY <2>5 DEF Slots, WellFormed
  <2>7. Alike(k, Append1(k, g, j))
    BY <2>2, <2>3, <2>6, Append1Grown, GrownAlike
  <2>8. Served(k, Append1(k, g, j), {})
    BY <2>6, <2>7, AlikeServed
  <2> QED
    BY <2>4, <2>5, <2>8
<1>2. CASE <<g, n>> \notin Driver
  <2> DEFINE e == Entry(g, n, "node", 0)
  <2>1. e \in Entries /\ e.g = g /\ e.n = n
    BY <1>2 DEF Entry, Entries
  <2>2. SpawnNode(k, g, n) = GatedSpawn(k, e)
    BY <1>2 DEF SpawnNode
  <2> HIDE DEF e
  <2>3. Served(k, GatedSpawn(k, e), {<<g, n>>})
    BY <2>1, GatedServed
  <2>4. Served(k, GatedSpawn(k, e), {})
    <3>1. Driver \cap {<<g, n>>} = {}
      BY <1>2
    <3> QED
      BY <2>3, <3>1, ServedAll
  <2> QED
    BY <2>1, <2>2, <2>4, GatedSpawnIs
<1> QED
  BY <1>1, <1>2

\* Nodes in node order are nodes.
LEMMA InNodeOrderIs ==
  ASSUME NEW g, NEW S
  PROVE  SM(g)!InNodeOrder(S) \in Seq(Node)
<1> DEFINE Ext(i, r) == IF i \in S THEN Append(r, i) ELSE r
<1> DEFINE L == N
           R == Seq(Node)
           Eq(f) == f = [i \in 0 .. L |-> IF i = 0 THEN <<>> ELSE Ext(i, f[i - 1])]
           loop == CHOOSE f : Eq(f)
           step == [i \in 1 .. L |-> [r \in R |-> Ext(i, r)]]
<1>1. L \in Nat
  BY CoordinatorAssumption
<1>2. <<>> \in R
  OBVIOUS
<1>3. ASSUME NEW i \in 1 .. L, NEW r \in R PROVE Ext(i, r) \in R
  <2>1. i \in Node
    BY DEF Node
  <2> QED
    BY <2>1
<1>4. SM(g)!InNodeOrder(S) = loop[L]
  BY DEF SM!InNodeOrder
<1> HIDE DEF L, R, Ext
<1>5. PICK f \in [0 .. L -> R] : Follows(f, L, <<>>, step)
  <2>1. step \in [1 .. L -> [R -> R]]
    BY <1>3
  <2> HIDE DEF step
  <2> QED
    BY <1>1, <1>2, <2>1, RecursionSolved
<1>6. \A i \in 1 .. L : f[i] = Ext(i, f[i - 1])
  <2> SUFFICES ASSUME NEW i \in 1 .. L PROVE f[i] = Ext(i, f[i - 1])
    OBVIOUS
  <2>1. f[i - 1] \in R
    BY <1>1
  <2> QED
    BY <1>5, <2>1 DEF Follows
<1>7. Eq(f)
  <2>1. \A i \in 0 .. L : f[i] = IF i = 0 THEN <<>> ELSE Ext(i, f[i - 1])
    <3> SUFFICES ASSUME NEW i \in 0 .. L, i # 0 PROVE f[i] = Ext(i, f[i - 1])
      BY <1>5 DEF Follows
    <3>1. i \in 1 .. L
      BY <1>1
    <3> QED
      BY <1>6, <3>1
  <2> QED
    BY <2>1
<1>8. Eq(loop)
  <2> HIDE DEF Eq
  <2> QED
    BY <1>7
<1> HIDE DEF loop
<1>9. loop[0] = <<>> /\ \A i \in 1 .. L : loop[i] = Ext(i, loop[i - 1])
  BY <1>1, <1>8
<1> HIDE DEF Eq
<1>10. \A i \in 1 .. L : loop[i - 1] \in R => loop[i] \in R
  BY <1>3, <1>9
<1>11. loop[L] \in R
  BY <1>1, <1>2, <1>9, <1>10, LoopStays
<1> QED
  BY <1>4, <1>11 DEF R

\* A spawn pass.
LEMMA SpawnReadyNodesIs ==
  ASSUME NEW ph, NEW k, WellFormed(ph, k), NEW g \in Graph, ph[g] # "absent", NEW st,
         NEW running \in Int
  PROVE  /\ Slots(ph, k, SpawnReadyNodes(k, g, st, running))
         /\ Served(k, SpawnReadyNodes(k, g, st, running), {})
<1> DEFINE ready   == SM(g)!InNodeOrder({n \in Node : st[n] = "ready" /\ ~Queued(k, g, n)})
           room    == MaxConcurrency - running
           last    == IF room < Len(ready) THEN room ELSE Len(ready)
           toSpawn == SubSeq(ready, 1, last)
           later   == {toSpawn[i] : i \in 2 .. Len(toSpawn)}
           k1 == SpawnNode(k, g, Head(toSpawn))
           more == [n \in Node |-> IF n \in later THEN k1.stagger[g][n] + 1 ELSE k1.stagger[g][n]]
           k2 == [k1 EXCEPT !.stagger[g] = more]
<1>1. SpawnReadyNodes(k, g, st, running) =
        IF toSpawn = <<>> THEN k
        ELSE [k1 EXCEPT !.stagger[g] =
                 [n \in Node |-> IF n \in later THEN @[n] + 1 ELSE @[n]]]
  BY DEF SpawnReadyNodes
<1>2. ready \in Seq(Node)
  BY InNodeOrderIs
<1> HIDE DEF ready
<1>3. Len(ready) \in Nat /\ last \in Int /\ last <= Len(ready)
  BY <1>2, CoordinatorAssumption
<1> HIDE DEF last
<1>4. CASE toSpawn = <<>>
  BY <1>1, <1>4, SlotsSame, ServedSame
<1>5. CASE toSpawn # <<>>
  <2>1. Head(toSpawn) \in Node
    <3>1. last >= 1
      <4> SUFFICES ASSUME ~(last >= 1) PROVE FALSE
        OBVIOUS
      <4>1. 1 > last
        BY <1>3
      <4> QED
        BY <1>2, <1>3, <1>5, <4>1
    <3>2. toSpawn \in Seq(Node)
      BY <1>2, <1>3, <3>1
    <3> HIDE DEF toSpawn
    <3> QED
      BY <1>5, <3>2
  <2> HIDE DEF toSpawn
  <2>2. Slots(ph, k, k1) /\ Served(k, k1, {})
    BY <2>1, SpawnNodeIs
  <2> HIDE DEF k1, later
  <2>3. k1.stagger \in [Graph -> [Node -> Int]] /\ k1 \in Shared
    BY <2>2 DEF Slots, WellFormed, Shared
  <2>4. more \in [Node -> Int]
    BY <2>3
  <2>5. SpawnReadyNodes(k, g, st, running) = k2
    BY <1>1, <1>5, <2>3 DEF Shared
  <2> HIDE DEF more
  <2>6. /\ k2 \in Shared /\ k2.tail = k1.tail /\ k2.ds = k1.ds /\ k2.runs = k1.runs
        /\ k2.spawnQueue = k1.spawnQueue /\ k2.globalActiveSubAgents = k1.globalActiveSubAgents
    BY <2>3, <2>4 DEF Shared
  <2> HIDE DEF k2
  <2>7. Slots(ph, k1, k2)
    BY <2>2, <2>6, OtherFields DEF Slots
  <2>8. Alike(k1, k2)
    BY <2>6 DEF Alike, Claims, Acts
  <2>9. Served(k, k2, {})
    BY <2>2, <2>3, <2>6, <2>8, AlikeServed, ServedServed
  <2> QED
    BY <2>2, <2>5, <2>7, <2>9, SlotsSlots
<1> QED
  BY <1>4, <1>5

Passes(k, g, st, running, m) ==
    LET passes[i \in 0 .. m] ==
            IF i = 0 THEN k ELSE SpawnReadyNodes(passes[i - 1], g, st, running)
    IN  passes[m]

\* Spawn passes one after the other.
LEMMA PassesAre ==
  ASSUME NEW ph, NEW k, WellFormed(ph, k), NEW g \in Graph, ph[g] # "absent", NEW st,
         NEW running \in Int, NEW m \in Nat
  PROVE  /\ Slots(ph, k, Passes(k, g, st, running, m))
         /\ Served(k, Passes(k, g, st, running, m), {})
<1> DEFINE Pass(r) == SpawnReadyNodes(r, g, st, running)
           passed == Passes(k, g, st, running, m)
<1> DEFINE L == m
           R == {r \in Shared : Slots(ph, k, r) /\ Served(k, r, {})}
           Eq(f) == f = [i \in 0 .. L |-> IF i = 0 THEN k ELSE Pass(f[i - 1])]
           loop == CHOOSE f : Eq(f)
           step == [i \in 1 .. L |-> [r \in R |-> Pass(r)]]
<1>1. L \in Nat
  OBVIOUS
<1>2. k \in R
  BY SlotsSame, ServedSame DEF WellFormed
<1>3. ASSUME NEW i \in 1 .. L, NEW r \in R PROVE Pass(r) \in R
  <2>1. Slots(ph, k, Pass(r))
    BY SpawnReadyNodesIs, SlotsSlots DEF Slots
  <2>2. Served(k, Pass(r), {})
    BY SpawnReadyNodesIs, ServedServed DEF Slots
  <2> QED
    BY <2>1, <2>2 DEF Slots, WellFormed
<1>4. passed = loop[L]
  BY DEF Passes
<1> HIDE DEF L, R, Pass, passed
<1>5. PICK f \in [0 .. L -> R] : Follows(f, L, k, step)
  <2>1. step \in [1 .. L -> [R -> R]]
    BY <1>3
  <2> HIDE DEF step
  <2> QED
    BY <1>1, <1>2, <2>1, RecursionSolved
<1>6. \A i \in 1 .. L : f[i] = Pass(f[i - 1])
  <2> SUFFICES ASSUME NEW i \in 1 .. L PROVE f[i] = Pass(f[i - 1])
    OBVIOUS
  <2>1. f[i - 1] \in R
    BY <1>1
  <2> QED
    BY <1>5, <2>1 DEF Follows
<1>7. Eq(f)
  <2>1. \A i \in 0 .. L : f[i] = IF i = 0 THEN k ELSE Pass(f[i - 1])
    <3> SUFFICES ASSUME NEW i \in 0 .. L, i # 0 PROVE f[i] = Pass(f[i - 1])
      BY <1>5 DEF Follows
    <3>1. i \in 1 .. L
      BY <1>1
    <3> QED
      BY <1>6, <3>1
  <2> QED
    BY <2>1
<1>8. Eq(loop)
  <2> HIDE DEF Eq
  <2> QED
    BY <1>7
<1> HIDE DEF loop
<1>9. loop[0] = k /\ \A i \in 1 .. L : loop[i] = Pass(loop[i - 1])
  BY <1>1, <1>8
<1> HIDE DEF Eq
<1>10. \A i \in 1 .. L : loop[i - 1] \in R => loop[i] \in R
  BY <1>3, <1>9
<1>11. loop[L] \in R
  BY <1>1, <1>2, <1>9, <1>10, LoopStays
<1> QED
  BY <1>4, <1>11 DEF R, passed

\* A driver that was initialised i times, the last time for the state it has. Of
\* the first state all runs are known.
Current(k, g, n, i) ==
    LET d == k.ds[g][n]
    IN  /\ i # 0 /\ d.init = i /\ Upto(k.spawnQueue, g, n, i)
        /\ i = 1 => k.runs[g][n] = d.known /\ ~d.crossed

\* A parallel round that is being handed out: its entries are at the end of the
\* queue, and there are no others as soon as one of its runs has started.
Spread(k, g, n, i) ==
    LET d == k.ds[g][n]
        q == k.spawnQueue
        mine == Mine(q, g, n, i)
    IN  /\ Current(k, g, n, i)
        /\ ~d.crossed =>
              /\ d.mode = "par" /\ Acts(k, g, n) = 0
              /\ \A j \in mine : q[j].kind = "par"
              /\ \A j \in mine : \A m \in 1 .. Len(q) : j <= m => m \in mine
              /\ d.known > 0 => \A m \in 1 .. Len(q) : m \in mine

\* Such a round is a round.
LEMMA SpreadRound ==
  ASSUME NEW k \in Shared, NEW g \in Graph, NEW n \in Node, NEW i \in Nat, Spread(k, g, n, i)
  PROVE  RoundOK(k, g, n, i, 0)
<1> DEFINE d == k.ds[g][n]
           q == k.spawnQueue
           M == Mine(q, g, n, i)
<1>1. k.runs[g][n] \in Int /\ d.known \in Int
  BY DEF Shared, DriverStates
<1>2. /\ i # 0 /\ d.init = i /\ Upto(q, g, n, i)
      /\ i = 1 => k.runs[g][n] = d.known /\ ~d.crossed
  BY DEF Spread, Current
<1>3. ASSUME ~d.crossed
      PROVE  /\ d.mode = "par" /\ Acts(k, g, n) = 0
             /\ \A j \in M : q[j].kind = "par"
             /\ \A j \in M : \A m \in 1 .. Len(q) : j <= m => m \in M
             /\ d.known > 0 => \A m \in 1 .. Len(q) : m \in M
  BY <1>3 DEF Spread
<1>4. ~d.crossed => Lined(q, d, g, n)
  BY <1>2, <1>3 DEF Lined
<1>5. i = 1 => k.runs[g][n] + 0 = d.known
  BY <1>1, <1>2
<1> QED
  BY <1>2, <1>3, <1>4, <1>5 DEF RoundOK

\* A queue with an entry more.
LEMMA Lengthened ==
  ASSUME NEW q \in Seq(Entries), NEW e \in Entries, Upto(q, e.g, e.n, e.init)
  PROVE  LET q2 == Append(q, e)
         IN  /\ Len(q) \in Nat /\ Len(q2) = Len(q) + 1 /\ q2[Len(q) + 1] = e
             /\ \A j \in 1 .. Len(q) : q2[j] = q[j]
             /\ \A j \in 1 .. Len(q) + 1 : j \in 1 .. Len(q) \/ j = Len(q) + 1
             /\ Mine(q2, e.g, e.n, e.init) = Mine(q, e.g, e.n, e.init) \cup {Len(q) + 1}
             /\ Mine(q, e.g, e.n, e.init) \subseteq 1 .. Len(q)
             /\ Upto(q2, e.g, e.n, e.init)
<1> DEFINE q2 == Append(q, e)
<1>1. /\ Len(q) \in Nat /\ Len(q2) = Len(q) + 1 /\ q2[Len(q) + 1] = e
      /\ \A j \in 1 .. Len(q) : q2[j] = q[j]
  OBVIOUS
<1> HIDE DEF q2
<1>2. \A j \in 1 .. Len(q) + 1 : j \in 1 .. Len(q) \/ j = Len(q) + 1
  BY <1>1
<1>3. /\ Mine(q2, e.g, e.n, e.init) = Mine(q, e.g, e.n, e.init) \cup {Len(q) + 1}
      /\ Mine(q, e.g, e.n, e.init) \subseteq 1 .. Len(q)
  BY <1>1, <1>2 DEF Mine
<1>4. e.init \in Nat
  BY DEF Entries
<1>5. Upto(q2, e.g, e.n, e.init)
  BY <1>1, <1>2, <1>4 DEF Upto
<1> QED
  BY <1>1, <1>2, <1>3, <1>5 DEF q2

\* What a driver asks for starts at once.
LEMMA AskedStarts ==
  ASSUME NEW k \in Shared, NEW e \in Entries, e.kind # "node",
         k.globalActiveSubAgents < MaxGlobalSubAgents, Current(k, e.g, e.n, e.init),
         e.init = 1 /\ e.kind = "turn" => k.ds[e.g][e.n].known = 0,
         NEW k2, k2 = GatedSpawn(k, e)
  PROVE  LET d  == k.ds[e.g][e.n]
             d2 == k2.ds[e.g][e.n]
         IN  /\ Current(k2, e.g, e.n, e.init) /\ k2.spawnQueue = k.spawnQueue
             /\ d2.mode = d.mode /\ d2.crossed = d.crossed
             /\ d2.known = IF e.kind = "turn" THEN 1 ELSE d.known + 1
             /\ Acts(k2, e.g, e.n) = Acts(k, e.g, e.n)
<1> DEFINE g == e.g
           n == e.n
           d == k.ds[g][n]
           d2 == k2.ds[g][n]
           k1 == [k EXCEPT !.globalActiveSubAgents = k.globalActiveSubAgents + 1]
           r == k.runs[g][n]
           r2 == k2.runs[g][n]
<1>1. g \in Graph /\ n \in Node
  BY DEF Entries
<1>2. k2 = Execute(k1, e)
  BY DEF GatedSpawn
<1>3. k1 \in Shared /\ k1.spawnQueue = k.spawnQueue /\ k1.runs = k.runs /\ k1.ds = k.ds /\ k1.tail = k.tail
  <2>1. k.globalActiveSubAgents + 1 \in Int
    BY DEF Shared
  <2> QED
    BY <2>1, ActiveFields
<1> HIDE DEF k1
<1>4. Started(k1, k2, e)
  BY <1>2, <1>3, ExecuteDoes
<1>5. e.init # 0 /\ d.init = e.init /\ Upto(k.spawnQueue, g, n, e.init)
  BY DEF Current
<1>6. /\ k2.spawnQueue = k.spawnQueue /\ k2.tail = k.tail /\ r2 = r + 1
      /\ d2.init = d.init /\ d2.mode = d.mode /\ d2.crossed = d.crossed
      /\ d2.known = IF e.kind = "turn" THEN 1 ELSE d.known + 1
  BY <1>3, <1>4, <1>5 DEF Started
<1>7. Acts(k2, g, n) = Acts(k, g, n)
  BY <1>6 DEF Acts
<1>8. e.init = 1 => r2 = d2.known /\ ~d2.crossed
  <2> SUFFICES ASSUME e.init = 1 PROVE r2 = d2.known /\ ~d2.crossed
    OBVIOUS
  <2>1. r = d.known /\ ~d.crossed
    BY DEF Current
  <2>2. CASE e.kind = "turn"
    <3>1. r = 0
      BY <2>1, <2>2
    <3>2. d2.known = 1
      BY <1>6, <2>2
    <3>3. r2 = 1
      BY <1>6, <3>1
    <3> QED
      BY <1>6, <2>1, <3>2, <3>3
  <2>3. CASE e.kind # "turn"
    <3>1. d2.known = d.known + 1
      BY <1>6, <2>3
    <3> QED
      BY <1>6, <2>1, <3>1
  <2> QED
    BY <2>2, <2>3
<1>9. Current(k2, g, n, e.init)
  BY <1>5, <1>6, <1>8 DEF Current
<1> QED
  BY <1>6, <1>7, <1>9

\* Or it joins the queue.
LEMMA AskedWaits ==
  ASSUME NEW k \in Shared, NEW e \in Entries,
         ~(k.globalActiveSubAgents < MaxGlobalSubAgents), Current(k, e.g, e.n, e.init),
         NEW k2, k2 = GatedSpawn(k, e)
  PROVE  /\ Current(k2, e.g, e.n, e.init) /\ k2.spawnQueue = Append(k.spawnQueue, e)
         /\ k2.ds[e.g][e.n] = k.ds[e.g][e.n] /\ Acts(k2, e.g, e.n) = Acts(k, e.g, e.n)
<1> DEFINE q2 == Append(k.spawnQueue, e)
<1>1. k2 = [k EXCEPT !.spawnQueue = q2]
  BY DEF GatedSpawn
<1>2. k2.spawnQueue = q2 /\ k2.ds = k.ds /\ k2.runs = k.runs /\ k2.tail = k.tail
  BY <1>1 DEF Shared
<1>3. Acts(k2, e.g, e.n) = Acts(k, e.g, e.n)
  BY <1>2 DEF Acts
<1>4. Upto(q2, e.g, e.n, e.init)
  <2>1. k.spawnQueue \in Seq(Entries) /\ Upto(k.spawnQueue, e.g, e.n, e.init)
    BY DEF Shared, Current
  <2> QED
    BY <2>1, Lengthened
<1>5. Current(k2, e.g, e.n, e.init)
  BY <1>2, <1>4 DEF Current
<1> QED
  BY <1>2, <1>3, <1>5

\* The next of its sub-agents is sent to the pool.
LEMMA SpreadMore ==
  ASSUME NEW ph, NEW k, WellFormed(ph, k), NEW e \in Entries, e.kind = "par", Full(k),
         Spread(k, e.g, e.n, e.init)
  PROVE  Spread(GatedSpawn(k, e), e.g, e.n, e.init)
<1> DEFINE g == e.g
           n == e.n
           d == k.ds[g][n]
           q == k.spawnQueue
           k2 == GatedSpawn(k, e)
<1>1. g \in Graph /\ n \in Node
  BY DEF Entries
<1>2. k \in Shared /\ q \in Seq(Entries) /\ k.globalActiveSubAgents \in Int /\ MaxGlobalSubAgents \in Nat
  BY CoordinatorAssumption DEF WellFormed, Shared
<1>3. Current(k, g, n, e.init) /\ Upto(q, g, n, e.init)
  BY DEF Spread, Current
<1>4. CASE k.globalActiveSubAgents < MaxGlobalSubAgents
  <2>1. q = <<>>
    BY <1>2, <1>4 DEF Full
  <2>2. /\ Current(k2, g, n, e.init) /\ k2.spawnQueue = q
        /\ k2.ds[g][n].mode = d.mode /\ k2.ds[g][n].crossed = d.crossed
        /\ Acts(k2, g, n) = Acts(k, g, n)
    BY <1>2, <1>3, <1>4, AskedStarts
  <2> HIDE DEF k2
  <2>3. Len(k2.spawnQueue) = 0 /\ \A m \in 1 .. Len(k2.spawnQueue) : FALSE
    BY <2>1, <2>2
  <2>4. \A m \in Mine(k2.spawnQueue, g, n, e.init) : FALSE
    BY <2>3 DEF Mine
  <2>5. ~d.crossed => d.mode = "par" /\ Acts(k, g, n) = 0
    BY DEF Spread
  <2>6. Spread(k2, g, n, e.init)
    BY <2>2, <2>3, <2>4, <2>5 DEF Spread
  <2> QED
    BY <2>6 DEF k2
<1>5. CASE ~(k.globalActiveSubAgents < MaxGlobalSubAgents)
  <2> DEFINE q2 == Append(q, e)
             M == Mine(q, g, n, e.init)
             M2 == Mine(q2, g, n, e.init)
  <2>1. /\ Current(k2, g, n, e.init) /\ k2.spawnQueue = q2
        /\ k2.ds[g][n] = d /\ Acts(k2, g, n) = Acts(k, g, n)
    BY <1>2, <1>3, <1>5, AskedWaits
  <2>3. /\ Len(q) \in Nat /\ Len(q2) = Len(q) + 1 /\ q2[Len(q) + 1] = e
        /\ \A j \in 1 .. Len(q) : q2[j] = q[j]
        /\ \A j \in 1 .. Len(q) + 1 : j \in 1 .. Len(q) \/ j = Len(q) + 1
        /\ M2 = M \cup {Len(q) + 1} /\ M \subseteq 1 .. Len(q)
    BY <1>2, <1>3, Lengthened
  <2> HIDE DEF k2, q2, M2
  <2>4. ASSUME ~d.crossed
        PROVE  /\ d.mode = "par" /\ Acts(k, g, n) = 0
               /\ \A j \in M : q[j].kind = "par"
               /\ \A j \in M : \A m \in 1 .. Len(q) : j <= m => m \in M
               /\ d.known > 0 => \A m \in 1 .. Len(q) : m \in M
    BY <2>4 DEF Spread
  <2> HIDE DEF M
  <2>5. ASSUME ~d.crossed
        PROVE  /\ \A j \in M2 : q2[j].kind = "par"
               /\ d.known > 0 => \A m \in 1 .. Len(q2) : m \in M2
    BY <2>3, <2>4, <2>5
  <2>7. ASSUME ~d.crossed, NEW j \in M2, NEW m \in 1 .. Len(q2), j <= m PROVE m \in M2
    <3>1. CASE m = Len(q) + 1
      BY <2>3, <3>1
    <3>2. CASE m \in 1 .. Len(q)
      <4>1. j \in M
        BY <2>3, <2>7, <3>2
      <4> QED
        BY <2>3, <2>4, <2>7, <3>2, <4>1
    <3> QED
      BY <2>3, <3>1, <3>2
  <2>11. Spread(k2, g, n, e.init)
    BY <2>1, <2>4, <2>5, <2>7 DEF Spread, M2
  <2> QED
    BY <2>11 DEF k2
<1> QED
  BY <1>4, <1>5

\* A driver that waits for nothing.
Idle(k, g, n, i) ==
    LET d == k.ds[g][n]
    IN  /\ Current(k, g, n, i)
        /\ ~d.crossed => /\ d.mode = "turn" /\ d.known = 0
                         /\ Acts(k, g, n) = 0 /\ Mine(k.spawnQueue, g, n, i) = {}

\* It asks for one sub-agent.
LEMMA TurnAsked ==
  ASSUME NEW ph, NEW k, WellFormed(ph, k), NEW e \in Entries, e.kind = "turn",
         Idle(k, e.g, e.n, e.init)
  PROVE  RoundOK(GatedSpawn(k, e), e.g, e.n, e.init, 0)
<1> DEFINE g == e.g
           n == e.n
           i == e.init
           d == k.ds[g][n]
           q == k.spawnQueue
           k2 == GatedSpawn(k, e)
           d2 == k2.ds[g][n]
<1>1. g \in Graph /\ n \in Node /\ i \in Nat
  BY DEF Entries
<1>2. k \in Shared /\ q \in Seq(Entries) /\ k.globalActiveSubAgents \in Int /\ k2 \in Shared
  BY GatedSpawnIs DEF WellFormed, Shared, Slots
<1>3. /\ Current(k, g, n, i) /\ Upto(q, g, n, i) /\ (i = 1 => ~d.crossed)
      /\ ~d.crossed => /\ d.mode = "turn" /\ d.known = 0
                       /\ Acts(k, g, n) = 0 /\ Mine(q, g, n, i) = {}
  BY DEF Idle, Current
<1>r. ASSUME Current(k2, g, n, i),
             ~d2.crossed => /\ d2.mode = "turn" /\ d2.known <= 1 /\ Acts(k2, g, n) = 0
                            /\ Lined(k2.spawnQueue, d2, g, n)
      PROVE  RoundOK(k2, g, n, i, 0)
  <2>1. k2.runs[g][n] \in Int
    BY <1>1, <1>2 DEF Shared
  <2>2. /\ i # 0 /\ d2.init = i /\ Upto(k2.spawnQueue, g, n, i)
        /\ i = 1 => k2.runs[g][n] = d2.known /\ ~d2.crossed
    BY <1>r DEF Current
  <2>3. i = 1 => k2.runs[g][n] + 0 = d2.known
    BY <2>1, <2>2
  <2> HIDE DEF k2
  <2> QED
    BY <1>r, <2>2, <2>3 DEF RoundOK
<1>4. CASE k.globalActiveSubAgents < MaxGlobalSubAgents
  <2>1. /\ Current(k2, g, n, i) /\ k2.spawnQueue = q
        /\ d2.mode = d.mode /\ d2.crossed = d.crossed /\ d2.known = 1
        /\ Acts(k2, g, n) = Acts(k, g, n)
    BY <1>2, <1>3, <1>4, AskedStarts
  <2> HIDE DEF k2
  <2>2. d2.init = i
    BY <2>1 DEF Current
  <2>3. ~d2.crossed => Lined(q, d2, g, n)
    BY <1>3, <2>1, <2>2 DEF Lined
  <2> QED
    BY <1>3, <1>r, <2>1, <2>3 DEF k2
<1>5. CASE ~(k.globalActiveSubAgents < MaxGlobalSubAgents)
  <2> DEFINE q2 == Append(q, e)
             M2 == Mine(q2, g, n, i)
  <2>1. Current(k2, g, n, i) /\ k2.spawnQueue = q2 /\ d2 = d /\ Acts(k2, g, n) = Acts(k, g, n)
    BY <1>2, <1>3, <1>5, AskedWaits
  <2>3. /\ Len(q) \in Nat /\ Len(q2) = Len(q) + 1 /\ q2[Len(q) + 1] = e
        /\ M2 = Mine(q, g, n, i) \cup {Len(q) + 1}
    BY <1>2, <1>3, Lengthened
  <2> HIDE DEF k2, q2, M2
  <2>4. d.init = i
    BY <1>3 DEF Current
  <2>5. ASSUME ~d.crossed PROVE Lined(q2, d, g, n)
    <3>1. M2 = {Len(q) + 1} /\ d.mode = "turn" /\ d.known = 0
      BY <1>3, <2>3, <2>5
    <3>2. \A j \in M2 : q2[j].kind = "turn"
      BY <2>3, <3>1
    <3>3. \A j, l \in M2 : \A m \in 1 .. Len(q2) : j <= m /\ m <= l => m \in M2
      BY <2>3, <3>1
    <3> HIDE DEF d
    <3> QED
      BY <2>4, <3>1, <3>2, <3>3 DEF Lined, M2
  <2> QED
    BY <1>3, <1>r, <2>1, <2>5 DEF k2
<1> QED
  BY <1>4, <1>5

FanOut(k, e, m) ==
    LET spawned[i \in 0 .. m] == IF i = 0 THEN k ELSE GatedSpawn(spawned[i - 1], e)
    IN  spawned[m]

\* A driver asks for such a sub-agent.
Asked(k, e) == e.kind = "par" /\ Full(k) /\ Spread(k, e.g, e.n, e.init)

\* The sub-agents of a parallel round are sent to the pool.
LEMMA FanOutIs ==
  ASSUME NEW ph, NEW k, WellFormed(ph, k), NEW e \in Entries, NEW m \in Nat
  PROVE  /\ Slots(ph, k, FanOut(k, e, m)) /\ Served(k, FanOut(k, e, m), {<<e.g, e.n>>})
         /\ Asked(k, e) => Spread(FanOut(k, e, m), e.g, e.n, e.init)
<1> DEFINE out == FanOut(k, e, m)
<1> DEFINE L == m
           R == {r \in Shared : /\ Slots(ph, k, r) /\ Served(k, r, {<<e.g, e.n>>})
                                /\ Asked(k, e) => Spread(r, e.g, e.n, e.init)}
           Eq(f) == f = [i \in 0 .. L |-> IF i = 0 THEN k ELSE GatedSpawn(f[i - 1], e)]
           loop == CHOOSE f : Eq(f)
           step == [i \in 1 .. L |-> [r \in R |-> GatedSpawn(r, e)]]
<1>1. L \in Nat
  OBVIOUS
<1>2. k \in R
  BY SlotsSame, ServedSame DEF WellFormed, Asked
<1>3. ASSUME NEW i \in 1 .. L, NEW r \in R PROVE GatedSpawn(r, e) \in R
  <2>1. Slots(ph, k, GatedSpawn(r, e))
    BY GatedSpawnIs, SlotsSlots DEF Slots
  <2>2. Served(k, GatedSpawn(r, e), {<<e.g, e.n>>})
    BY GatedServed, ServedServed DEF Slots
  <2>3. Asked(k, e) => Spread(GatedSpawn(r, e), e.g, e.n, e.init)
    <3> SUFFICES ASSUME Asked(k, e) PROVE Spread(GatedSpawn(r, e), e.g, e.n, e.init)
      OBVIOUS
    <3>1. WellFormed(ph, r) /\ Full(r) /\ Spread(r, e.g, e.n, e.init)
      BY DEF Slots, Served, Asked
    <3> QED
      BY <3>1, SpreadMore DEF Asked
  <2> QED
    BY <2>1, <2>2, <2>3 DEF Slots, WellFormed
<1>4. out = loop[L]
  BY DEF FanOut
<1> HIDE DEF L, R, out
<1>5. PICK f \in [0 .. L -> R] : Follows(f, L, k, step)
  <2>1. step \in [1 .. L -> [R -> R]]
    BY <1>3
  <2> HIDE DEF step
  <2> QED
    BY <1>1, <1>2, <2>1, RecursionSolved
<1>6. \A i \in 1 .. L : f[i] = GatedSpawn(f[i - 1], e)
  <2> SUFFICES ASSUME NEW i \in 1 .. L PROVE f[i] = GatedSpawn(f[i - 1], e)
    OBVIOUS
  <2>1. f[i - 1] \in R
    BY <1>1
  <2> QED
    BY <1>5, <2>1 DEF Follows
<1>7. Eq(f)
  <2>1. \A i \in 0 .. L : f[i] = IF i = 0 THEN k ELSE GatedSpawn(f[i - 1], e)
    <3> SUFFICES ASSUME NEW i \in 0 .. L, i # 0 PROVE f[i] = GatedSpawn(f[i - 1], e)
      BY <1>5 DEF Follows
    <3>1. i \in 1 .. L
      BY <1>1
    <3> QED
      BY <1>6, <3>1
  <2> QED
    BY <2>1
<1>8. Eq(loop)
  <2> HIDE DEF Eq
  <2> QED
    BY <1>7
<1> HIDE DEF loop
<1>9. loop[0] = k /\ \A i \in 1 .. L : loop[i] = GatedSpawn(loop[i - 1], e)
  BY <1>1, <1>8
<1> HIDE DEF Eq
<1>10. \A i \in 1 .. L : loop[i - 1] \in R => loop[i] \in R
  BY <1>3, <1>9
<1>11. loop[L] \in R
  BY <1>1, <1>2, <1>9, <1>10, LoopStays
<1> QED
  BY <1>4, <1>11 DEF R, out

\* What the kills of tracked runs change: completions of such runs are added.
Kills(k, k2, g) ==
    \A h \in Graph, n \in Node :
        /\ h # g \/ n \notin runIdToNode[g] => Pending(k2, h, n) = Pending(k, h, n)
        /\ Failures(k2, h, n) = Failures(k, h, n)
        /\ k2.ds[h][n].init = k.ds[h][n].init

\* The kill of one of them.
LEMMA KillIs ==
  ASSUME NEW ph, NEW k, WellFormed(ph, k), NEW g \in Graph, ph[g] # "absent",
         NEW i \in Node, i \in runIdToNode[g]
  PROVE  LET k2 == Append1(ReleaseAndDrainQueue(k), g, Job("completed", i, "fail"))
         IN  WellFormed(ph, k2) /\ Kills(k, k2, g)
<1> DEFINE j == Job("completed", i, "fail")
           k1 == ReleaseAndDrainQueue(k)
           k2 == Append1(k1, g, j)
<1>1. i \in Nat
  BY NodesAreNat
<1>2. j \in Job3
  BY <1>1 DEF Job, Job3, Ops, Details
<1>3. j \in JobsOf(ph, g) /\ j.op = "completed" /\ j.n = i
  BY <1>2 DEF Job, JobsOf
<1>4. Slots(ph, k, k1)
  BY ReleaseIs
<1> HIDE DEF j, k1
<1>5. WellFormed(ph, k2) /\ Adds(k1, k2, g, j)
  BY <1>3, <1>4, Append1Is DEF Slots
<1>6. Adds(k, k2, g, j)
  BY <1>4, <1>5, KeepsThenAdds DEF Slots
<1> HIDE DEF k2
<1>7. ASSUME NEW h \in Graph, NEW n \in Node
      PROVE  /\ h # g \/ n \notin runIdToNode[g] => Pending(k2, h, n) = Pending(k, h, n)
             /\ Failures(k2, h, n) = Failures(k, h, n)
             /\ k2.ds[h][n].init = k.ds[h][n].init
  <2>1. Pending(k, h, n) \in Nat /\ Failures(k, h, n) \in Nat
    BY CountsAreNat
  <2>2. Hit(j, {"failed"}, n) = 0 /\ (n # i => Hit(j, Runs, n) = 0)
    BY <1>3 DEF Hit
  <2> QED
    BY <1>6, <2>1, <2>2 DEF Adds
<1> QED
  BY <1>5, <1>7 DEF Kills, k2, k1, j

\* At most one sub-agent works under a tracked run and none under another.
Lives(g) ==
    /\ live[g] \in [Node -> Int]
    /\ \A n \in Node : live[g][n] \in {0, 1} /\ (live[g][n] = 1 => n \in runIdToNode[g])

\* It gives its slot back.
LEMMA KillShifts ==
  ASSUME NEW ph, NEW k, WellFormed(ph, k), NEW g \in Graph, ph[g] # "absent", Lives(g), NEW i \in Node,
         NEW k2, k2 = IF i \in runIdToNode[g] /\ live[g][i] > 0
                      THEN Append1(ReleaseAndDrainQueue(k), g, Job("completed", i, "fail"))
                      ELSE k
  PROVE  Shifts(k, k2, -live[g][i], {})
<1>1. k \in Shared
  BY DEF WellFormed
<1>2. CASE live[g][i] = 0
  <2>1. k2 = k
    BY <1>2
  <2>2. Shifts(k, k, 0, {})
    BY <1>1, ServedSame, ServedShifts
  <2> QED
    BY <1>2, <2>1, <2>2
<1>3. CASE live[g][i] = 1
  <2> DEFINE j == Job("completed", i, "fail")
             k1 == ReleaseAndDrainQueue(k)
  <2>1. k2 = Append1(k1, g, j) /\ i \in runIdToNode[g]
    BY <1>3 DEF Lives
  <2>2. j \in Job3 /\ j.op \notin {"admit", "start", "action"}
    BY NodesAreNat DEF Job, Job3, Ops, Details
  <2>3. WellFormed(ph, k2)
    BY <2>1, KillIs
  <2>4. k1 \in Shared /\ k2 \in Shared /\ Shifts(k, k1, -1, {})
    BY <2>3, ReleaseIs, ReleaseShifts DEF WellFormed, Slots
  <2> HIDE DEF j, k1
  <2>5. Alike(k1, k2)
    BY <2>1, <2>2, <2>4, Append1Grown, GrownAlike
  <2>6. Shifts(k1, k2, 0, {})
    BY <2>4, <2>5, AlikeShifts
  <2>7. -1 \in Int /\ 0 \in Int /\ -1 = -1 + 0
    OBVIOUS
  <2>8. Shifts(k, k2, -1, {})
    BY <1>1, <2>4, <2>6, <2>7, ShiftsShifts
  <2> QED
    BY <1>3, <2>8
<1> QED
  BY <1>2, <1>3 DEF Lives

\* The kills of all of them.
LEMMA KillTrackedIs ==
  ASSUME NEW ph, NEW k, WellFormed(ph, k), NEW g \in Graph, ph[g] # "absent"
  PROVE  /\ WellFormed(ph, KillTracked(k, g)) /\ Kills(k, KillTracked(k, g), g)
         /\ Lives(g) => Shifts(k, KillTracked(k, g), -Total(live[g], Node), {})
<1> DEFINE Kill(i, r) == IF i \in runIdToNode[g] /\ live[g][i] > 0
                         THEN Append1(ReleaseAndDrainQueue(r), g, Job("completed", i, "fail"))
                         ELSE r
<1> DEFINE L == N
           R == {r \in Shared : WellFormed(ph, r) /\ Kills(k, r, g)}
           Eq(f) == f = [i \in 0 .. L |-> IF i = 0 THEN k ELSE Kill(i, f[i - 1])]
           loop == CHOOSE f : Eq(f)
           step == [i \in 1 .. L |-> [r \in R |-> Kill(i, r)]]
<1>1. L \in Nat
  BY CoordinatorAssumption
<1>2. k \in R
  BY DEF WellFormed, Kills
<1>3. ASSUME NEW i \in 1 .. L, NEW r \in R PROVE Kill(i, r) \in R
  <2>1. i \in Node
    BY DEF Node
  <2>2. CASE i \in runIdToNode[g] /\ live[g][i] > 0
    <3> DEFINE r2 == Append1(ReleaseAndDrainQueue(r), g, Job("completed", i, "fail"))
    <3>1. WellFormed(ph, r2) /\ Kills(r, r2, g)
      BY <2>1, <2>2, KillIs
    <3>2. Kill(i, r) = r2
      BY <2>2
    <3> HIDE DEF r2, Kill
    <3>3. Kills(k, r2, g)
      BY <3>1 DEF Kills
    <3> QED
      BY <3>1, <3>2, <3>3 DEF WellFormed
  <2>3. CASE ~(i \in runIdToNode[g] /\ live[g][i] > 0)
    BY <2>3
  <2> QED
    BY <2>2, <2>3
<1>a. ASSUME Lives(g), NEW i \in 1 .. L, NEW r \in R PROVE Shifts(r, Kill(i, r), -live[g][i], {})
  <2>1. i \in Node /\ WellFormed(ph, r)
    BY DEF Node
  <2> DEFINE r2 == Kill(i, r)
  <2>2. r2 = IF i \in runIdToNode[g] /\ live[g][i] > 0
             THEN Append1(ReleaseAndDrainQueue(r), g, Job("completed", i, "fail")) ELSE r
    OBVIOUS
  <2> HIDE DEF r2
  <2>3. Shifts(r, r2, -live[g][i], {})
    BY <1>a, <2>1, <2>2, KillShifts
  <2> QED
    BY <2>3 DEF r2
<1>b. L = N /\ Node = 1 .. L /\ IsFiniteSet(Node)
  BY PairsFinite DEF Node
<1>4. KillTracked(k, g) = loop[L]
  BY DEF KillTracked
<1> HIDE DEF L, R, Kill
<1>5. PICK f \in [0 .. L -> R] : Follows(f, L, k, step)
  <2>1. step \in [1 .. L -> [R -> R]]
    BY <1>3
  <2> HIDE DEF step
  <2> QED
    BY <1>1, <1>2, <2>1, RecursionSolved
<1>6. \A i \in 1 .. L : f[i] = Kill(i, f[i - 1])
  <2> SUFFICES ASSUME NEW i \in 1 .. L PROVE f[i] = Kill(i, f[i - 1])
    OBVIOUS
  <2>1. f[i - 1] \in R
    BY <1>1
  <2> QED
    BY <1>5, <2>1 DEF Follows
<1>7. Eq(f)
  <2>1. \A i \in 0 .. L : f[i] = IF i = 0 THEN k ELSE Kill(i, f[i - 1])
    <3> SUFFICES ASSUME NEW i \in 0 .. L, i # 0 PROVE f[i] = Kill(i, f[i - 1])
      BY <1>5 DEF Follows
    <3>1. i \in 1 .. L
      BY <1>1
    <3> QED
      BY <1>6, <3>1
  <2> QED
    BY <2>1
<1>8. Eq(loop)
  <2> HIDE DEF Eq
  <2> QED
    BY <1>7
<1> HIDE DEF loop
<1>9. loop[0] = k /\ \A i \in 1 .. L : loop[i] = Kill(i, loop[i - 1])
  BY <1>1, <1>8
<1> HIDE DEF Eq
<1>10. \A i \in 1 .. L : loop[i - 1] \in R => loop[i] \in R
  BY <1>3, <1>9
<1>11. loop[L] \in R
  BY <1>1, <1>2, <1>9, <1>10, LoopStays
<1>12. ASSUME Lives(g) PROVE Shifts(k, loop[L], -Total(live[g], Node), {})
  <2> DEFINE done(i) == [n \in Node |-> IF n <= i THEN live[g][n] ELSE 0]
             Good(i) == loop[i] \in R /\ Shifts(k, loop[i], -Total(done(i), Node), {})
             T == {i \in Nat : i <= L => Good(i)}
  <2>0. live[g] \in [Node -> Int] /\ \A n \in Node : n \in Nat
    BY <1>12, NodesAreNat DEF Lives
  <2>1. \A i \in Nat : done(i) \in [Node -> Int] /\ Total(done(i), Node) \in Int
    <3> SUFFICES ASSUME NEW i \in Nat PROVE done(i) \in [Node -> Int] /\ Total(done(i), Node) \in Int
      OBVIOUS
    <3>1. done(i) \in [Node -> Int]
      BY <2>0
    <3> HIDE DEF done
    <3> QED
      BY <1>b, <3>1, TotalInt
  <2>2. 0 \in T
    <3>1. \A n \in Node : done(0)[n] = 0
      BY <1>b
    <3>2. Total(done(0), Node) = 0
      <4> HIDE DEF done
      <4> QED
        BY <1>b, <2>1, <3>1, TotalZero
    <3>3. k \in Shared
      BY DEF WellFormed
    <3>4. Shifts(k, k, 0, {})
      BY <3>3, ServedSame, ServedShifts
    <3> HIDE DEF done
    <3> QED
      BY <1>2, <1>9, <3>2, <3>4
  <2>3. \A i \in T : i + 1 \in T
    <3> SUFFICES ASSUME NEW i \in Nat, i + 1 <= L, Good(i) PROVE Good(i + 1)
      BY <1>1
    <3> DEFINE j == i + 1
               r == loop[i]
               a == Total(done(i), Node)
               b == Total(done(j), Node)
    <3>1. j \in 1 .. L /\ j - 1 = i /\ j \in Node /\ j \in Nat
      BY <1>1, <1>b
    <3>2. loop[j] = Kill(j, r) /\ r \in R /\ loop[j] \in R
      BY <1>9, <1>10, <3>1
    <3>3. Shifts(r, loop[j], -live[g][j], {})
      BY <1>12, <1>a, <3>1, <3>2
    <3>4. /\ done(j)[j] = live[g][j] /\ done(i)[j] = 0
          /\ \A n \in Node : n # j => done(j)[n] = done(i)[n]
      BY <2>0, <3>1
    <3>5. a \in Int /\ b \in Int /\ live[g][j] \in Int
      BY <2>0, <2>1, <3>1
    <3>6. b = a + live[g][j]
      <4> DEFINE v == done(i)
                 w == done(j)
      <4>1. v \in [Node -> Int] /\ w \in [Node -> Int] /\ \A n \in Node : n # j => w[n] = v[n]
        BY <2>1, <3>1, <3>4
      <4>2. v[j] = 0 /\ w[j] = live[g][j] /\ a = Total(v, Node) /\ b = Total(w, Node)
        BY <3>4
      <4>0. IsFiniteSet(Node) /\ j \in Node
        BY <1>b, <3>1
      <4> HIDE DEF v, w, a, b, j
      <4>3. Total(w, Node) = Total(v, Node) + (w[j] - v[j])
        BY <4>0, <4>1, TotalChanges
      <4> QED
        BY <3>5, <4>2, <4>3
    <3>7. k \in Shared /\ r \in Shared /\ loop[j] \in Shared
      BY <3>2 DEF R, WellFormed
    <3>8. Shifts(k, r, -a, {})
      OBVIOUS
    <3> DEFINE x == live[g][j]
    <3> HIDE DEF a, b, x, done, r, j
    <3>9. -a \in Int /\ -x \in Int /\ -b = -a + -x
      BY <3>5, <3>6 DEF x
    <3>10. Shifts(k, loop[j], -b, {})
      BY <3>3, <3>7, <3>8, <3>9, ShiftsShifts DEF x
    <3> QED
      BY <3>2, <3>10 DEF j, b
  <2>4. L \in T
    <3> HIDE DEF T
    <3>1. T = Nat
      BY <2>2, <2>3, InductiveSet DEF T
    <3> QED
      BY <1>1, <3>1
  <2>5. done(L) = live[g]
    <3>1. \A n \in Node : n <= L
      BY <1>1, <1>b
    <3> QED
      BY <2>0, <3>1
  <2> HIDE DEF done
  <2> QED
    BY <1>1, <2>4, <2>5
<1> QED
  BY <1>4, <1>11, <1>12 DEF R

\* Driver states are replaced: those of g at once, by ones without initialize(),
\* or that of one node.
LEMMA NewDrivers ==
  ASSUME NEW ph, NEW k, WellFormed(ph, k), NEW k2 \in Shared, k2.tail = k.tail,
         \A g \in Graph, n \in Node :
            k2.ds[g][n].init # 0 => <<g, n>> \in Driver /\ ph[g] # "absent"
  PROVE  /\ WellFormed(ph, k2)
         /\ \A g \in Graph, n \in Node : /\ Pending(k2, g, n) = Pending(k, g, n)
                                         /\ Failures(k2, g, n) = Failures(k, g, n)
<1>1. WellFormed(ph, k2)
  BY DEF WellFormed
<1>2. ASSUME NEW g \in Graph, NEW n \in Node
      PROVE Pending(k2, g, n) = Pending(k, g, n) /\ Failures(k2, g, n) = Failures(k, g, n)
  BY DEF Pending, Failures
<1> QED
  BY <1>1, <1>2

\* k2 has the counts of k and no driver state of g.
Undriven(k, k2, g) ==
    \A h \in Graph, n \in Node :
        /\ Pending(k2, h, n) = Pending(k, h, n)
        /\ Failures(k2, h, n) = Failures(k, h, n)
        /\ k2.ds[h][n].init = IF h = g THEN 0 ELSE k.ds[h][n].init

ClearDrivers(k, g, rn) == [k EXCEPT !.runs[g] = rn, !.ds[g] = [n \in Node |-> NoDriver]]

\* All driver states of g are dropped.
LEMMA DriversGone ==
  ASSUME NEW ph, NEW k, WellFormed(ph, k), NEW g \in Graph, NEW rn \in [Node -> Int]
  PROVE  /\ WellFormed(ph, ClearDrivers(k, g, rn))
         /\ Undriven(k, ClearDrivers(k, g, rn), g)
<1> DEFINE k2 == ClearDrivers(k, g, rn)
<1>1. NoDriver \in DriverStates /\ NoDriver.init = 0
  BY DEF NoDriver, DriverStates
<1>2. /\ k2.tail = k.tail /\ k2.runs = [k.runs EXCEPT ![g] = rn]
      /\ k2.ds = [k.ds EXCEPT ![g] = [n \in Node |-> NoDriver]]
  BY DEF WellFormed, Shared, ClearDrivers
<1>3. k2.runs \in [Graph -> [Node -> Int]] /\ k2.ds \in [Graph -> [Node -> DriverStates]]
  BY <1>1, <1>2 DEF WellFormed, Shared
<1>4. k2 \in Shared
  BY <1>3 DEF WellFormed, Shared, ClearDrivers
<1> HIDE DEF k2
<1>5. \A h \in Graph, n \in Node : k2.ds[h][n].init = IF h = g THEN 0 ELSE k.ds[h][n].init
  BY <1>1, <1>2 DEF WellFormed, Shared
<1>6. \A h \in Graph, n \in Node :
         k2.ds[h][n].init # 0 => <<h, n>> \in Driver /\ ph[h] # "absent"
  BY <1>5 DEF WellFormed
<1>7. k2.tail = k.tail
  BY <1>2
<1>8. WellFormed(ph, k2) /\ Undriven(k, k2, g)
  BY <1>4, <1>5, <1>6, <1>7, NewDrivers DEF Undriven
<1> QED
  BY <1>8 DEF k2

\* KillDriven and NoDriversLeft do so.
LEMMA KillDrivenIs ==
  ASSUME NEW ph, NEW k, WellFormed(ph, k), NEW g \in Graph
  PROVE  WellFormed(ph, KillDriven(k, g)) /\ Undriven(k, KillDriven(k, g), g)
<1> DEFINE rn == [n \in Node |-> k.runs[g][n] - k.ds[g][n].known]
<1>1. rn \in [Node -> Int]
  BY DEF WellFormed, Shared, DriverStates
<1>2. KillDriven(k, g) = ClearDrivers(k, g, rn)
  BY DEF KillDriven, WellFormed, Shared, ClearDrivers
<1> HIDE DEF rn
<1> QED
  BY <1>1, <1>2, DriversGone

\* The driver maps are cleared.
LEMMA NoDriversLeftIs ==
  ASSUME NEW ph, NEW k, WellFormed(ph, k), NEW g \in Graph
  PROVE  WellFormed(ph, NoDriversLeft(k, g)) /\ Undriven(k, NoDriversLeft(k, g), g)
<1> DEFINE rn == [n \in Node |-> 0]
<1>1. rn \in [Node -> Int]
  OBVIOUS
<1>2. NoDriversLeft(k, g) = ClearDrivers(k, g, rn)
  BY DEF NoDriversLeft, WellFormed, Shared, ClearDrivers
<1> HIDE DEF rn
<1> QED
  BY <1>1, <1>2, DriversGone

\* k2 has the counts of k, and the driver state of n in g has this init.
Redriven(k, k2, g, n, init) ==
    \A h \in Graph, m \in Node :
        /\ Pending(k2, h, m) = Pending(k, h, m)
        /\ Failures(k2, h, m) = Failures(k, h, m)
        /\ k2.ds[h][m].init = IF h = g /\ m = n THEN init ELSE k.ds[h][m].init

WithDriver(k, g, n, d) == [k EXCEPT !.ds[g][n] = d]
WithRuns(k, g, n, v) == [k EXCEPT !.runs[g][n] = v]

\* One driver state is replaced.
LEMMA OneDriver ==
  ASSUME NEW ph, NEW k, WellFormed(ph, k), NEW g \in Graph, NEW n \in Node,
         NEW d \in DriverStates, d.init # 0 => <<g, n>> \in Driver /\ ph[g] # "absent"
  PROVE  /\ WellFormed(ph, WithDriver(k, g, n, d))
         /\ Redriven(k, WithDriver(k, g, n, d), g, n, d.init)
<1> DEFINE k2 == WithDriver(k, g, n, d)
<1>2. /\ k2.tail = k.tail
      /\ k2.ds = [k.ds EXCEPT ![g][n] = d]
  BY DEF WellFormed, Shared, WithDriver
<1>3. k2.ds \in [Graph -> [Node -> DriverStates]]
  BY <1>2 DEF WellFormed, Shared
<1>4. k2 \in Shared
  BY <1>3 DEF WellFormed, Shared, WithDriver
<1> HIDE DEF k2
<1>5. \A h \in Graph, m \in Node :
         k2.ds[h][m].init = IF h = g /\ m = n THEN d.init ELSE k.ds[h][m].init
  BY <1>2 DEF WellFormed, Shared
<1>6. \A h \in Graph, m \in Node :
         k2.ds[h][m].init # 0 => <<h, m>> \in Driver /\ ph[h] # "absent"
  BY <1>5 DEF WellFormed
<1>7. k2.tail = k.tail
  BY <1>2
<1>8. WellFormed(ph, k2) /\ Redriven(k, k2, g, n, d.init)
  BY <1>4, <1>5, <1>6, <1>7, NewDrivers DEF Redriven
<1> QED
  BY <1>8 DEF k2

\* The state of a driver that has ended is dropped.
LEMMA NoDriver1Is ==
  ASSUME NEW ph, NEW k, WellFormed(ph, k), NEW g \in Graph, NEW n \in Node
  PROVE  WellFormed(ph, NoDriver1(k, g, n)) /\ Redriven(k, NoDriver1(k, g, n), g, n, 0)
<1>1. NoDriver \in DriverStates /\ NoDriver.init = 0
  BY DEF NoDriver, DriverStates
<1>2. NoDriver1(k, g, n) = WithDriver(k, g, n, NoDriver)
  BY DEF NoDriver1, WithDriver
<1> HIDE DEF NoDriver
<1> QED
  BY <1>1, <1>2, OneDriver

\* What a driver waits for changes.
LEMMA NewWait ==
  ASSUME NEW ph, NEW k, WellFormed(ph, k), NEW g \in Graph, NEW n \in Node,
         NEW d \in DriverStates, d.init = k.ds[g][n].init
  PROVE  Slots(ph, k, WithDriver(k, g, n, d))
<1>1. d.init # 0 => <<g, n>> \in Driver /\ ph[g] # "absent"
  BY DEF WellFormed
<1>2. WellFormed(ph, WithDriver(k, g, n, d)) /\ Redriven(k, WithDriver(k, g, n, d), g, n, d.init)
  BY <1>1, OneDriver
<1> QED
  BY <1>2 DEF Slots, Keeps, Redriven

\* A tail put back changes nothing.
LEMMA SameTail ==
  ASSUME NEW ph, NEW k, WellFormed(ph, k), NEW g \in Graph
  PROVE  WithTail(k, g, k.tail[g]) = k
BY DEF WithTail, WellFormed, Shared

\* The job that completes a graph.
LEMMA FinishJob ==
  ASSUME NEW g, phase[g] = "open"
  PROVE  Job("finish", 0, "-") \in JobsOf(phase, g) /\ Job("finish", 0, "-").op = "finish"
<1>1. Job("finish", 0, "-") \in Job3
  BY DEF Job, Job3, Ops, Details
<1> QED
  BY <1>1 DEF Job, JobsOf

\* Joining sequences of jobs.
LEMMA Joined ==
  ASSUME NEW J, NEW u \in Seq(J), NEW f \in J, NEW j \in J
  PROVE  /\ (<<>> \o <<>>) \o u = u
         /\ (<<f>> \o <<>>) \o u = <<f>> \o u
         /\ (<<>> \o <<j>>) \o u = <<j>> \o u
         /\ (<<f>> \o <<j>>) \o u = <<f>> \o (<<j>> \o u)
<1>1. <<>> \o <<>> = <<>> /\ <<f>> \o <<>> = <<f>> /\ <<>> \o <<j>> = <<j>>
  OBVIOUS
<1>2. <<>> \o u = u
  OBVIOUS
<1>3. (<<f>> \o <<j>>) \o u = <<f>> \o (<<j>> \o u)
  <2> DEFINE a == (<<f>> \o <<j>>) \o u
             b == <<f>> \o (<<j>> \o u)
  <2>1. a \in Seq(J) /\ b \in Seq(J) /\ Len(a) = Len(u) + 2 /\ Len(b) = Len(u) + 2
    OBVIOUS
  <2>2. \A i \in 1 .. Len(u) + 2 : a[i] = b[i]
    OBVIOUS
  <2> HIDE DEF a, b
  <2>3. a = b
    BY <2>1, <2>2
  <2> QED
    BY <2>3 DEF a, b
<1> QED
  BY <1>1, <1>2, <1>3

\* A checkpoint without continuations.
LEMMA PersistNone ==
  ASSUME NEW k, WellFormed(phase, k), NEW g \in Graph, NEW st
  PROVE  Slots(phase, k, Persist(k, g, st, <<>>)) /\ Alike(k, Persist(k, g, st, <<>>))
<1> DEFINE u == k.tail[g]
           f == Job("finish", 0, "-")
           J == JobsOf(phase, g)
<1>1. u \in Seq(J)
  BY DEF WellFormed
<1>2. CASE phase[g] = "open" /\ SM(g)!IsTerminal(st)
  <2>1. f \in J /\ f.op = "finish"
    BY <1>2, FinishJob
  <2>2. Persist(k, g, st, <<>>) = WithTail(k, g, (<<f>> \o <<>>) \o u)
    BY <1>2 DEF Persist, WithTail, WellFormed, Shared
  <2> HIDE DEF f, J
  <2>3. (<<f>> \o <<>>) \o u = <<f>> \o u
    BY <1>1, <2>1, Joined
  <2> DEFINE k2 == WithTail(k, g, <<f>> \o u)
  <2>4. WellFormed(phase, k2) /\ Adds(k, k2, g, f)
    BY <2>1, ConsIs DEF J
  <2>5. Slots(phase, k, k2)
    BY <2>1, <2>4, NeutralKeeps DEF Slots
  <2>6. Alike(k, k2)
    <3>1. k \in Shared /\ f \in Job3
      BY <2>1 DEF WellFormed, J, JobsOf
    <3>2. Grown(k, k2, g, f)
      BY <3>1, ConsGrown
    <3> QED
      BY <2>1, <3>1, <3>2, GrownAlike
  <2> QED
    BY <2>2, <2>3, <2>5, <2>6
<1>3. CASE ~(phase[g] = "open" /\ SM(g)!IsTerminal(st))
  <2>1. Persist(k, g, st, <<>>) = WithTail(k, g, (<<>> \o <<>>) \o u)
    BY <1>3 DEF Persist, WithTail, WellFormed, Shared
  <2> HIDE DEF J
  <2>2. (<<>> \o <<>>) \o u = u
    <3> HIDE DEF u
    <3> QED
      BY <1>1
  <2>3. WithTail(k, g, u) = k
    BY SameTail
  <2>4. Alike(k, k)
    BY DEF Alike
  <2> QED
    BY <2>1, <2>2, <2>3, <2>4, SlotsSame
<1> QED
  BY <1>2, <1>3

\* A checkpoint with one continuation.
LEMMA PersistOne ==
  ASSUME NEW k, WellFormed(phase, k), NEW g \in Graph, NEW st, NEW j \in JobsOf(phase, g),
         Actionless(k.tail[g])
  PROVE  LET k2 == Persist(k, g, st, <<j>>)
         IN  WellFormed(phase, k2) /\ Adds(k, k2, g, j) /\ Grown(k, k2, g, j)
<1> DEFINE u == k.tail[g]
           f == Job("finish", 0, "-")
           J == JobsOf(phase, g)
           k1 == WithTail(k, g, <<j>> \o u)
<1>1. u \in Seq(J) /\ j \in J
  BY DEF WellFormed
<1>2. WellFormed(phase, k1) /\ Adds(k, k1, g, j)
  BY ConsIs
<1>g. k \in Shared /\ Grown(k, k1, g, j)
  <2>1. k \in Shared /\ j \in Job3
    BY DEF WellFormed, JobsOf
  <2> QED
    BY <2>1, ConsGrown
<1>3. CASE phase[g] = "open" /\ SM(g)!IsTerminal(st)
  <2>1. f \in J /\ f.op = "finish"
    BY <1>3, FinishJob
  <2>2. Persist(k, g, st, <<j>>) = WithTail(k, g, (<<f>> \o <<j>>) \o u)
    BY <1>3 DEF Persist, WithTail, WellFormed, Shared
  <2> HIDE DEF f, J
  <2>3. (<<f>> \o <<j>>) \o u = <<f>> \o (<<j>> \o u)
    <3> HIDE DEF u
    <3> QED
      BY <1>1, <2>1, Joined
  <2>4. k1.tail[g] = <<j>> \o u
    <3>1. <<j>> \o u \in Seq(J) /\ Fronted(<<j>> \o u)
      <4>1. Fronted(u) /\ Actionless(u)
        BY DEF WellFormed
      <4> HIDE DEF u
      <4> QED
        BY <1>1, <4>1, FrontedTails
    <3> DEFINE q == <<j>> \o u
    <3>2. q \in Seq(JobsOf(phase, g)) /\ Fronted(q) /\ k1 = WithTail(k, g, q)
      BY <3>1 DEF J
    <3> HIDE DEF q, k1
    <3>3. k1.tail[g] = q
      BY <3>2, NewTail
    <3> QED
      BY <3>3 DEF q
  <2> DEFINE k2 == WithTail(k1, g, <<f>> \o k1.tail[g])
  <2>5. WellFormed(phase, k2) /\ Adds(k1, k2, g, f)
    <3> HIDE DEF k1
    <3> QED
      BY <1>2, <2>1, ConsIs DEF J
  <2>6. Keeps(k1, k2)
    <3> HIDE DEF k1, k2
    <3> QED
      BY <1>2, <2>1, <2>5, NeutralKeeps
  <2>7. k2 = WithTail(k, g, <<f>> \o (<<j>> \o u))
    BY <2>4 DEF WithTail, WellFormed, Shared
  <2>8. Adds(k, k2, g, j)
    <3> HIDE DEF k1, k2
    <3> QED
      BY <1>2, <2>6 DEF Adds, Keeps
  <2>9. Grown(k, k2, g, j)
    <3>1. k1 \in Shared /\ f \in Job3
      BY <1>2, <2>1 DEF WellFormed, J, JobsOf
    <3> HIDE DEF k1
    <3>2. Grown(k1, k2, g, f)
      BY <3>1, ConsGrown
    <3> HIDE DEF k2
    <3>3. Alike(k1, k2)
      BY <2>1, <3>1, <3>2, GrownAlike
    <3> QED
      BY <1>g, <3>3 DEF Grown, Alike
  <2> HIDE DEF k2
  <2> QED
    BY <2>2, <2>3, <2>5, <2>7, <2>8, <2>9
<1>4. CASE ~(phase[g] = "open" /\ SM(g)!IsTerminal(st))
  <2>1. Persist(k, g, st, <<j>>) = WithTail(k, g, (<<>> \o <<j>>) \o u)
    BY <1>4 DEF Persist, WithTail, WellFormed, Shared
  <2> HIDE DEF J
  <2>2. (<<>> \o <<j>>) \o u = <<j>> \o u
    <3> HIDE DEF u
    <3> QED
      BY <1>1, Joined
  <2> QED
    BY <1>2, <1>g, <2>1, <2>2
<1> QED
  BY <1>3, <1>4

\* The job at the head of a tail is taken.
LEMMA PoppedIs ==
  ASSUME WellFormed(phase, c), NEW g \in Graph, c.tail[g] # <<>>
  PROVE  /\ Arg(g) \in JobsOf(phase, g)
         /\ WellFormed(phase, Popped(g)) /\ Adds(Popped(g), c, g, Arg(g))
         /\ Grown(Popped(g), c, g, Arg(g))
         /\ Arg(g).op # "finish" => Actionless(Popped(g).tail[g])
<1> DEFINE u == c.tail[g]
           J == JobsOf(phase, g)
           k == WithTail(c, g, Tail(u))
<1>1. u \in Seq(J) /\ u \in Seq(Job3) /\ u # <<>>
  <2>1. u \in Seq(J)
    BY DEF WellFormed
  <2>2. u \in Seq(Job3)
    BY DEF WellFormed, Shared
  <2> QED
    BY <2>1, <2>2
<1>2. Popped(g) = k
  BY DEF Popped, WithTail, WellFormed, Shared
<1>3. /\ Head(u) \in J /\ Tail(u) \in Seq(J) /\ Fronted(Tail(u))
      /\ Head(u).op # "finish" => Actionless(Tail(u))
  <2>1. Fronted(u)
    BY DEF WellFormed
  <2> HIDE DEF u, J
  <2>2. Head(u) \in J /\ Tail(u) \in Seq(J)
    BY <1>1
  <2> QED
    BY <1>1, <2>1, <2>2, FrontedTails
<1>4. /\ WellFormed(phase, k) /\ k.ds = c.ds
      /\ k.tail[g] = Tail(u) /\ \A h \in Graph : h # g => k.tail[h] = c.tail[h]
  <2> DEFINE q == Tail(u)
  <2>1. q \in Seq(JobsOf(phase, g)) /\ Fronted(q) /\ k = WithTail(c, g, q)
    BY <1>3
  <2> HIDE DEF q, k, J
  <2>2. /\ WellFormed(phase, k) /\ k.ds = c.ds
        /\ k.tail[g] = q /\ \A h \in Graph : h # g => k.tail[h] = c.tail[h]
    BY <2>1, NewTail
  <2> QED
    BY <2>2 DEF q
<1>5. \A ops, n : Count(u, ops, n) = Count(Tail(u), ops, n) + Hit(Head(u), ops, n)
  <2> HIDE DEF u
  <2> QED
    BY <1>1, CountTail
<1> HIDE DEF k, J
<1>6. ASSUME NEW h \in Graph, NEW n \in Node
      PROVE  /\ Pending(c, h, n) = Pending(k, h, n) + (IF h = g THEN Hit(Head(u), Runs, n) ELSE 0)
             /\ Failures(c, h, n) = Failures(k, h, n) + (IF h = g THEN Hit(Head(u), {"failed"}, n) ELSE 0)
  <2>1. CASE h = g
    BY <1>4, <1>5, <2>1 DEF Pending, Failures, Runs
  <2>2. CASE h # g
    <3>1. Pending(k, h, n) = Pending(c, h, n) /\ Failures(k, h, n) = Failures(c, h, n)
      BY <1>4, <2>2 DEF Pending, Failures
    <3>2. Pending(k, h, n) \in Nat /\ Failures(k, h, n) \in Nat
      BY <1>4, CountsAreNat
    <3> QED
      BY <2>2, <3>1, <3>2
  <2> QED
    BY <2>1, <2>2
<1>7. Adds(k, c, g, Head(u))
  BY <1>4, <1>6 DEF Adds
<1>8. Grown(k, c, g, Head(u))
  <2>1. WithTail(k, g, u) = c
    BY DEF k, WithTail, WellFormed, Shared
  <2>2. k \in Shared
    BY <1>4 DEF WellFormed
  <2>3. \A ops, n : Count(u, ops, n) = Count(k.tail[g], ops, n) + Hit(Head(u), ops, n)
    BY <1>4, <1>5
  <2> HIDE DEF u
  <2>4. Grown(k, WithTail(k, g, u), g, Head(u))
    BY <1>1, <2>2, <2>3, JobGrown
  <2> QED
    BY <2>1, <2>4
<1> QED
  BY <1>2, <1>3, <1>4, <1>7, <1>8 DEF Arg, J

-----------------------------------------------------------------------------
(* What the other operations do to slots and rounds.                       *)

\* The slot a job holds.
Slot(j) == IF j.op \in {"admit", "start"} THEN 1 ELSE 0

\* A job joins or leaves a tail.
LEMMA GrownShifts ==
  ASSUME NEW k \in Shared, NEW k2 \in Shared, NEW g \in Graph, NEW j, Grown(k, k2, g, j),
         j.op \in {"admit", "start"} => j.n \in Node
  PROVE  /\ Shifts(k, k2, 0 - Slot(j), IF j.op = "action" THEN {<<g, j.n>>} ELSE {})
         /\ Shifts(k2, k, Slot(j), {})
<1> DEFINE cl(m) == Hit(j, {"admit", "start"}, m)
           ac(m) == Hit(j, {"action"}, m)
<1>1. \A h \in Graph, m \in Node : /\ Claims(k, h, m) \in Nat /\ Acts(k, h, m) \in Nat
                                   /\ Claims(k2, h, m) \in Nat /\ Acts(k2, h, m) \in Nat
                                   /\ k.runs[h][m] \in Int
  BY ClaimsAreNat DEF Shared
<1>2. \A m : cl(m) \in {0, 1} /\ ac(m) \in {0, 1} /\ (ac(m) = 1 => j.op = "action" /\ j.n = m)
  BY DEF Hit
<1>3. /\ k2.globalActiveSubAgents = k.globalActiveSubAgents /\ k2.spawnQueue = k.spawnQueue
      /\ k2.runs = k.runs /\ k2.ds = k.ds
  BY DEF Grown
<1>4. \A h \in Graph, m \in Node :
         /\ Claims(k2, h, m) = Claims(k, h, m) + (IF h = g THEN cl(m) ELSE 0)
         /\ Acts(k2, h, m) = Acts(k, h, m) + (IF h = g THEN ac(m) ELSE 0)
  BY DEF Grown
<1>5. k.globalActiveSubAgents \in Int
  BY DEF Shared
<1>6. Slack(k2) = Slack(k) - Slot(j)
  <2>1. CASE j.op \in {"admit", "start"}
    <3> DEFINE n == j.n
    <3>1. n \in Node /\ Slot(j) = 1 /\ cl(n) = 1 /\ \A m : m # n => cl(m) = 0
      BY <2>1 DEF Slot, Hit
    <3> HIDE DEF cl, ac, n
    <3>2. Held(k2, g, n) = Held(k, g, n) + 1
      BY <1>1, <1>3, <1>4, <3>1 DEF Held
    <3>3. \A h \in Graph, m \in Node : h # g \/ m # n => Held(k2, h, m) = Held(k, h, m)
      <4> SUFFICES ASSUME NEW h \in Graph, NEW m \in Node, h # g \/ m # n
                   PROVE  Held(k2, h, m) = Held(k, h, m)
        OBVIOUS
      <4>1. Claims(k2, h, m) = Claims(k, h, m)
        BY <1>1, <1>4, <3>1
      <4> QED
        BY <1>3, <4>1 DEF Held
    <3>4. k2.globalActiveSubAgents = k.globalActiveSubAgents + 0 /\ 0 \in Int /\ 1 \in Int
      BY <1>3, <1>5
    <3>5. Slack(k2) = Slack(k) + (0 - 1) /\ Slack(k) \in Int
      BY <3>1, <3>2, <3>3, <3>4, SlackOne, WeightsAre
    <3> QED
      BY <3>1, <3>5
  <2>2. CASE j.op \notin {"admit", "start"}
    <3>1. Slot(j) = 0 /\ \A m : cl(m) = 0
      BY <2>2 DEF Slot, Hit
    <3> HIDE DEF cl, ac
    <3>2. \A h \in Graph, m \in Node : Held(k2, h, m) = Held(k, h, m)
      <4> SUFFICES ASSUME NEW h \in Graph, NEW m \in Node PROVE Held(k2, h, m) = Held(k, h, m)
        OBVIOUS
      <4>1. Claims(k2, h, m) = Claims(k, h, m)
        BY <1>1, <1>4, <3>1
      <4> QED
        BY <1>3, <4>1 DEF Held
    <3>3. k2.globalActiveSubAgents = k.globalActiveSubAgents + 0 /\ 0 \in Int
      BY <1>3, <1>5
    <3>4. Slack(k2) = Slack(k) + 0 /\ Slack(k) \in Int
      BY <3>2, <3>3, SlackSame, WeightsAre
    <3> QED
      BY <3>1, <3>4
  <2> QED
    BY <2>1, <2>2
<1>7. AtLeast(k, k2, 0 - Slot(j)) /\ AtLeast(k2, k, Slot(j))
  <2>1. Slack(k) \in Int /\ Slack(k2) \in Int /\ Slot(j) \in Int
    BY WeightsAre DEF Slot
  <2> QED
    BY <1>6, <2>1 DEF AtLeast
<1>8. /\ InLimit(k) <=> InLimit(k2)
      /\ Full(k) <=> Full(k2)
      /\ Knowing(k) <=> Knowing(k2)
  BY <1>3 DEF InLimit, Full, Knowing
<1> DEFINE X == IF j.op = "action" THEN {<<g, j.n>>} ELSE {}
<1> HIDE DEF cl, ac
<1>9. Rounds(k, k2, X)
  <2> SUFFICES ASSUME NEW h \in Graph, NEW m \in Node, <<h, m>> \notin X, NEW i, NEW o,
                      RoundOK(k, h, m, i, o)
               PROVE  RoundOK(k2, h, m, i, o)
    BY DEF Rounds
  <2>1. h # g \/ ac(m) = 0
    BY <1>2
  <2>2. Acts(k2, h, m) = Acts(k, h, m)
    BY <1>1, <1>4, <2>1
  <2> QED
    BY <1>3, <2>2 DEF RoundOK
<1>10. Rounds(k2, k, {})
  <2> SUFFICES ASSUME NEW h \in Graph, NEW m \in Node, NEW i, NEW o, RoundOK(k2, h, m, i, o)
               PROVE  RoundOK(k, h, m, i, o)
    BY DEF Rounds
  <2> DEFINE a == Acts(k, h, m)
             a2 == Acts(k2, h, m)
  <2>1. a \in Nat /\ a2 \in Nat /\ (a2 = a \/ a2 = a + 1)
    <3>1. a \in Nat /\ a2 \in Nat
      BY <1>1
    <3>2. ac(m) = 0 \/ ac(m) = 1
      BY <1>2
    <3>3. a2 = a + (IF h = g THEN ac(m) ELSE 0)
      BY <1>4
    <3> HIDE DEF a, a2
    <3> QED
      BY <3>1, <3>2, <3>3
  <2> HIDE DEF a, a2
  <2>2. (a2 = 0 => a = 0) /\ (a2 <= 1 => a <= 1) /\ (a2 <= 1 /\ a = 1 => a2 = 1)
    BY <2>1
  <2> QED
    BY <1>3, <2>2 DEF RoundOK, a, a2
<1> QED
  BY <1>7, <1>8, <1>9, <1>10 DEF Shifts

\* Runs and driver states of the nodes X change, and nothing else.
LEMMA Rewritten ==
  ASSUME NEW k \in Shared, NEW k2 \in Shared, NEW a, NEW X,
         k2.globalActiveSubAgents = k.globalActiveSubAgents, k2.spawnQueue = k.spawnQueue,
         k2.tail = k.tail,
         \A h \in Graph, m \in Node : <<h, m>> \notin X =>
            k2.ds[h][m] = k.ds[h][m] /\ k2.runs[h][m] = k.runs[h][m],
         Knowing(k) => Knowing(k2) /\ AtLeast(k, k2, a)
  PROVE  Shifts(k, k2, a, X)
<1>1. (InLimit(k) => InLimit(k2)) /\ (Full(k) => Full(k2))
  BY DEF InLimit, Full
<1>2. Rounds(k, k2, X)
  <2> SUFFICES ASSUME NEW h \in Graph, NEW m \in Node, <<h, m>> \notin X, NEW i, NEW o,
                      RoundOK(k, h, m, i, o)
               PROVE  RoundOK(k2, h, m, i, o)
    BY DEF Rounds
  <2>1. /\ Acts(k2, h, m) = Acts(k, h, m) /\ k2.ds[h][m] = k.ds[h][m]
        /\ k2.runs[h][m] = k.runs[h][m]
    BY DEF Acts
  <2> QED
    BY <2>1 DEF RoundOK
<1> QED
  BY <1>1, <1>2 DEF Shifts

\* The rounds that were excluded are right too.
LEMMA ShiftsAll ==
  ASSUME NEW k, NEW k2, NEW a, NEW X, Shifts(k, k2, a, X),
         \A g \in Graph, n \in Node : <<g, n>> \in Driver \cap X =>
            \A i \in Nat, o \in 0 .. 1 : RoundOK(k, g, n, i, o) => RoundOK(k2, g, n, i, o)
  PROVE  Shifts(k, k2, a, {})
BY DEF Shifts, Rounds

\* One driver state is replaced.
LEMMA DriverShifts ==
  ASSUME NEW k \in Shared, NEW g \in Graph, NEW n \in Node, NEW d \in DriverStates, d.known >= 0
  PROVE  Shifts(k, WithDriver(k, g, n, d), 0, {<<g, n>>})
<1> DEFINE k2 == WithDriver(k, g, n, d)
<1>1. /\ k2.globalActiveSubAgents = k.globalActiveSubAgents /\ k2.spawnQueue = k.spawnQueue
      /\ k2.tail = k.tail /\ k2.runs = k.runs /\ k2.ds = [k.ds EXCEPT ![g][n] = d]
  BY DEF Shared, WithDriver
<1>2. k2.ds \in [Graph -> [Node -> DriverStates]]
  BY <1>1 DEF Shared
<1>3. k2 \in Shared
  BY <1>2 DEF Shared, WithDriver
<1> HIDE DEF k2
<1>4. \A h \in Graph, m \in Node : k2.ds[h][m] = IF h = g /\ m = n THEN d ELSE k.ds[h][m]
  BY <1>1 DEF Shared
<1>5. Knowing(k) => Knowing(k2)
  <2> SUFFICES ASSUME Knowing(k), NEW h \in Graph, NEW m \in Node PROVE k2.ds[h][m].known >= 0
    BY DEF Knowing
  <2>1. CASE h = g /\ m = n
    BY <1>4, <2>1
  <2>2. CASE ~(h = g /\ m = n)
    BY <1>4, <2>2 DEF Knowing
  <2> QED
    BY <2>1, <2>2
<1>6. AtLeast(k, k2, 0)
  <2>1. \A h \in Graph, m \in Node : Held(k2, h, m) = Held(k, h, m)
    BY <1>1 DEF Held, Claims
  <2>2. k.globalActiveSubAgents \in Int
    BY DEF Shared
  <2>3. k2.globalActiveSubAgents = k.globalActiveSubAgents + 0 /\ 0 \in Int
    BY <1>1, <2>2
  <2>4. Slack(k2) = Slack(k) + 0 /\ Slack(k) \in Int
    BY <1>3, <2>1, <2>3, SlackSame, WeightsAre
  <2> QED
    BY <2>4 DEF AtLeast
<1>7. \A h \in Graph, m \in Node : <<h, m>> \notin {<<g, n>>} =>
         k2.ds[h][m] = k.ds[h][m] /\ k2.runs[h][m] = k.runs[h][m]
  BY <1>1, <1>4
<1>8. Shifts(k, k2, 0, {<<g, n>>})
  BY <1>1, <1>3, <1>5, <1>6, <1>7, Rewritten
<1> QED
  BY <1>8 DEF k2

\* The number of runs of one driver changes.
LEMMA RunsShifts ==
  ASSUME NEW k \in Shared, NEW g \in Graph, NEW n \in Node, NEW v \in Int, NEW a, a = k.runs[g][n] - v
  PROVE  Shifts(k, WithRuns(k, g, n, v), a, {<<g, n>>})
<1> DEFINE k2 == WithRuns(k, g, n, v)
<1>1. /\ k2.globalActiveSubAgents = k.globalActiveSubAgents /\ k2.spawnQueue = k.spawnQueue
      /\ k2.tail = k.tail /\ k2.ds = k.ds /\ k2.runs = [k.runs EXCEPT ![g][n] = v]
  BY DEF Shared, WithRuns
<1>2. k2.runs \in [Graph -> [Node -> Int]]
  BY <1>1 DEF Shared
<1>3. k2 \in Shared
  BY <1>2 DEF Shared, WithRuns
<1> HIDE DEF k2
<1>4. \A h \in Graph, m \in Node : k2.runs[h][m] = IF h = g /\ m = n THEN v ELSE k.runs[h][m]
  BY <1>1 DEF Shared
<1>5. Knowing(k) => Knowing(k2)
  BY <1>1 DEF Knowing
<1>6. AtLeast(k, k2, a)
  <2>1. \A h \in Graph, m \in Node : Claims(k2, h, m) = Claims(k, h, m)
    BY <1>1 DEF Claims
  <2>2. \A h \in Graph, m \in Node : h # g \/ m # n => Held(k2, h, m) = Held(k, h, m)
    BY <1>4, <2>1 DEF Held
  <2>3. k.runs[g][n] \in Int /\ k.globalActiveSubAgents \in Int
    BY DEF Shared
  <2> DEFINE d == v - k.runs[g][n]
  <2>4. Held(k2, g, n) = Held(k, g, n) + d
    <3>1. Claims(k, g, n) \in Nat
      BY ClaimsAreNat
    <3> QED
      BY <1>4, <2>1, <2>3, <3>1 DEF Held
  <2>5. d \in Int /\ a = 0 - d
    BY <2>3
  <2> HIDE DEF d
  <2>6. k2.globalActiveSubAgents = k.globalActiveSubAgents + 0 /\ 0 \in Int
    BY <1>1, <2>3
  <2>7. Slack(k2) = Slack(k) + (0 - d) /\ Slack(k) \in Int
    BY <1>3, <2>2, <2>4, <2>5, <2>6, SlackOne, WeightsAre
  <2> QED
    BY <2>5, <2>7 DEF AtLeast
<1>7. \A h \in Graph, m \in Node : <<h, m>> \notin {<<g, n>>} =>
         k2.ds[h][m] = k.ds[h][m] /\ k2.runs[h][m] = k.runs[h][m]
  BY <1>1, <1>4
<1>8. Shifts(k, k2, a, {<<g, n>>})
  BY <1>1, <1>3, <1>5, <1>6, <1>7, Rewritten
<1> QED
  BY <1>8 DEF k2

\* All driver states of g are dropped.
LEMMA ClearShifts ==
  ASSUME NEW ph, NEW k, WellFormed(ph, k), NEW g \in Graph, NEW rn \in [Node -> Int], NEW a,
         \A n \in Node : k.runs[g][n] = 0 /\ k.ds[g][n].known = 0 => rn[n] = 0,
         Knowing(k) => AtLeast(k, ClearDrivers(k, g, rn), a)
  PROVE  Shifts(k, ClearDrivers(k, g, rn), a, {})
<1> DEFINE k2 == ClearDrivers(k, g, rn)
           X == {g} \X Node
<1>1. k \in Shared /\ k2 \in Shared
  BY DriversGone DEF WellFormed
<1>2. /\ k2.globalActiveSubAgents = k.globalActiveSubAgents /\ k2.spawnQueue = k.spawnQueue
      /\ k2.tail = k.tail /\ k2.runs = [k.runs EXCEPT ![g] = rn]
      /\ k2.ds = [k.ds EXCEPT ![g] = [n \in Node |-> NoDriver]]
  BY <1>1 DEF Shared, ClearDrivers
<1>3. AtLeast(k, k2, a) \/ ~Knowing(k)
  OBVIOUS
<1> HIDE DEF k2
<1>4. \A h \in Graph, m \in Node : h # g => k2.ds[h][m] = k.ds[h][m] /\ k2.runs[h][m] = k.runs[h][m]
  BY <1>1, <1>2 DEF Shared
<1>5. \A m \in Node : k2.ds[g][m] = NoDriver /\ k2.runs[g][m] = rn[m]
  BY <1>1, <1>2 DEF Shared
<1>6. NoDriver.init = 0 /\ NoDriver.known = 0
  BY DEF NoDriver
<1> HIDE DEF NoDriver
<1>7. Knowing(k) => Knowing(k2)
  <2> SUFFICES ASSUME Knowing(k), NEW h \in Graph, NEW m \in Node PROVE k2.ds[h][m].known >= 0
    BY DEF Knowing
  <2>1. CASE h = g
    BY <1>5, <1>6, <2>1
  <2>2. CASE h # g
    BY <1>4, <2>2 DEF Knowing
  <2> QED
    BY <2>1, <2>2
<1>8. \A h \in Graph, m \in Node : <<h, m>> \notin X =>
         k2.ds[h][m] = k.ds[h][m] /\ k2.runs[h][m] = k.runs[h][m]
  BY <1>4
<1>9. Shifts(k, k2, a, X)
  <2> HIDE DEF X
  <2> QED
    BY <1>1, <1>2, <1>3, <1>7, <1>8, Rewritten
<1>10. ASSUME NEW h \in Graph, NEW m \in Node, <<h, m>> \in Driver \cap X,
              NEW i \in Nat, NEW o \in 0 .. 1, RoundOK(k, h, m, i, o)
       PROVE  RoundOK(k2, h, m, i, o)
  <2>1. h = g /\ Acts(k2, h, m) = Acts(k, h, m)
    BY <1>2, <1>10 DEF Acts
  <2>2. k2.ds[h][m].init = 0 /\ k2.ds[h][m].known = 0 /\ k2.runs[h][m] = rn[m]
    BY <1>5, <1>6, <2>1
  <2>3. i = 0 => k.runs[g][m] = 0 /\ k.ds[g][m].known = 0
    BY <1>10, <2>1 DEF RoundOK
  <2> QED
    BY <1>2, <1>10, <2>1, <2>2, <2>3 DEF RoundOK
<1>11. Shifts(k, k2, a, {})
  <2> HIDE DEF X
  <2> QED
    BY <1>9, <1>10, ShiftsAll
<1> QED
  BY <1>11 DEF k2

\* The runs the driver states know are killed; their slots stay taken.
LEMMA KillDrivenShifts ==
  ASSUME NEW ph, NEW k, WellFormed(ph, k), NEW g \in Graph
  PROVE  Shifts(k, KillDriven(k, g), 0, {})
<1> DEFINE rn == [n \in Node |-> k.runs[g][n] - k.ds[g][n].known]
           k2 == ClearDrivers(k, g, rn)
<1>1. \A n \in Node : k.runs[g][n] \in Int /\ k.ds[g][n].known \in Int
  BY DEF WellFormed, Shared, DriverStates
<1>2. rn \in [Node -> Int] /\ \A n \in Node : rn[n] = k.runs[g][n] - k.ds[g][n].known
  BY <1>1
<1>3. KillDriven(k, g) = k2
  BY DEF KillDriven, WellFormed, Shared, ClearDrivers
<1> HIDE DEF rn
<1>4. k \in Shared /\ k2 \in Shared
  BY <1>2, DriversGone DEF WellFormed
<1>5. /\ k2.globalActiveSubAgents = k.globalActiveSubAgents
      /\ k2.tail = k.tail /\ k2.runs = [k.runs EXCEPT ![g] = rn]
  BY <1>4 DEF Shared, ClearDrivers
<1> HIDE DEF k2
<1>6. ASSUME Knowing(k) PROVE AtLeast(k, k2, 0)
  <2> DEFINE v == Weights(k)
             w == Weights(k2)
  <2>1. /\ v \in [Pairs -> Int] /\ w \in [Pairs -> Int]
        /\ Total(v, Pairs) \in Int /\ Total(w, Pairs) \in Int
    BY <1>4, WeightsAre
  <2>2. ASSUME NEW h \in Graph, NEW m \in Node PROVE Held(k2, h, m) <= Held(k, h, m)
    <3>1. Claims(k2, h, m) = Claims(k, h, m) /\ Claims(k, h, m) \in Nat
      BY <1>4, <1>5, ClaimsAreNat DEF Claims
    <3>2. k2.runs[h][m] = IF h = g THEN rn[m] ELSE k.runs[h][m]
      BY <1>4, <1>5 DEF Shared
    <3>3. k.runs[h][m] \in Int /\ k2.runs[h][m] \in Int /\ k2.runs[h][m] <= k.runs[h][m]
      <4>1. k.runs[h][m] \in Int /\ k2.runs[h][m] \in Int
        BY <1>4 DEF Shared
      <4>2. CASE h = g
        <5>1. k.ds[g][m].known >= 0
          BY <1>6 DEF Knowing
        <5> QED
          BY <1>1, <1>2, <3>2, <4>1, <4>2, <5>1
      <4>3. CASE h # g
        BY <3>2, <4>1, <4>3
      <4> QED
        BY <4>1, <4>2, <4>3
    <3> QED
      BY <3>1, <3>3 DEF Held
  <2>3. \A p \in Pairs : w[p] <= v[p]
    <3> SUFFICES ASSUME NEW h \in Graph, NEW m \in Node PROVE w[<<h, m>>] <= v[<<h, m>>]
      BY DEF Pairs
    <3>1. w[<<h, m>>] = Held(k2, h, m) /\ v[<<h, m>>] = Held(k, h, m)
      BY <1>4, WeightsAre
    <3> QED
      BY <2>2, <3>1
  <2>4. Slack(k) = k.globalActiveSubAgents - Total(v, Pairs)
    BY DEF Slack
  <2>5. Slack(k2) = k.globalActiveSubAgents - Total(w, Pairs)
    BY <1>5 DEF Slack
  <2>6. k.globalActiveSubAgents \in Int
    BY <1>4 DEF Shared
  <2> HIDE DEF v, w
  <2>7. Total(w, Pairs) <= Total(v, Pairs)
    BY <2>1, <2>3, PairsFinite, TotalMonotone
  <2> QED
    BY <2>1, <2>4, <2>5, <2>6, <2>7 DEF AtLeast
<1>7. \A n \in Node : k.runs[g][n] = 0 /\ k.ds[g][n].known = 0 => rn[n] = 0
  BY <1>2
<1>8. Shifts(k, ClearDrivers(k, g, rn), 0, {})
  BY <1>2, <1>6, <1>7, ClearShifts DEF k2
<1> QED
  BY <1>3, <1>8 DEF k2

\* The runs of the drivers of a graph, as a total.
LEMMA DriverRunsAre ==
  ASSUME NEW k \in Shared, NEW g \in Graph
  PROVE  DriverRuns(k, g) = Total(k.runs[g], Node) /\ DriverRuns(k, g) \in Int
<1>1. DriverRuns(k, g) = Total(k.runs[g], Node)
  BY Zenon DEF DriverRuns, MapThenSumSet, MapThenFoldSet, Total, IsSum, Weighed
<1>2. k.runs[g] \in [Node -> Int]
  BY DEF Shared
<1> QED
  BY <1>1, <1>2, PairsFinite, TotalInt

\* The driver maps are cleared: their runs are nobody's from now on.
LEMMA NoDriversLeftShifts ==
  ASSUME NEW ph, NEW k, WellFormed(ph, k), NEW g \in Graph
  PROVE  Shifts(k, NoDriversLeft(k, g), DriverRuns(k, g), {})
<1> DEFINE rn == [n \in Node |-> 0]
           k2 == ClearDrivers(k, g, rn)
           a == DriverRuns(k, g)
<1>1. rn \in [Node -> Int] /\ \A n \in Node : rn[n] = 0
  OBVIOUS
<1>2. NoDriversLeft(k, g) = k2
  BY DEF NoDriversLeft, WellFormed, Shared, ClearDrivers
<1> HIDE DEF rn
<1>3. k \in Shared /\ k2 \in Shared
  BY <1>1, DriversGone DEF WellFormed
<1>4. /\ k2.globalActiveSubAgents = k.globalActiveSubAgents
      /\ k2.tail = k.tail /\ k2.runs = [k.runs EXCEPT ![g] = rn]
  BY <1>3 DEF Shared, ClearDrivers
<1>5. a = Total(k.runs[g], Node) /\ a \in Int
  BY <1>3, DriverRunsAre
<1> HIDE DEF k2, a
<1>6. AtLeast(k, k2, a)
  <2> DEFINE w == Weights(k)
             v == Weights(k2)
             h == k.runs[g]
  <2>1. /\ v \in [Pairs -> Int] /\ w \in [Pairs -> Int]
        /\ Total(v, Pairs) \in Int /\ Total(w, Pairs) \in Int
    BY <1>3, WeightsAre
  <2>2. h \in [Node -> Int]
    BY <1>3 DEF Shared
  <2>3. ASSUME NEW x \in Graph, NEW m \in Node
        PROVE  Held(k, x, m) = Held(k2, x, m) + IF x = g THEN h[m] ELSE 0
    <3>1. Claims(k2, x, m) = Claims(k, x, m) /\ Claims(k, x, m) \in Nat
      BY <1>3, <1>4, ClaimsAreNat DEF Claims
    <3>2. k2.runs[x][m] = IF x = g THEN 0 ELSE k.runs[x][m]
      BY <1>1, <1>3, <1>4 DEF Shared
    <3>3. k.runs[x][m] \in Int
      BY <1>3 DEF Shared
    <3>4. CASE x = g
      BY <3>1, <3>2, <3>3, <3>4 DEF Held
    <3>5. CASE x # g
      BY <3>1, <3>2, <3>3, <3>5 DEF Held
    <3> QED
      BY <3>4, <3>5
  <2>4. RowMore(v, w, Graph, Node, g, h)
    <3> SUFFICES ASSUME NEW x \in Graph, NEW m \in Node
                 PROVE  w[<<x, m>>] = v[<<x, m>>] + IF x = g THEN h[m] ELSE 0
      BY DEF RowMore
    <3>1. v[<<x, m>>] = Held(k2, x, m) /\ w[<<x, m>>] = Held(k, x, m)
      BY <1>3, WeightsAre
    <3> QED
      BY <2>3, <3>1
  <2>5. Slack(k) = k.globalActiveSubAgents - Total(w, Pairs)
    BY DEF Slack
  <2>6. Slack(k2) = k.globalActiveSubAgents - Total(v, Pairs)
    BY <1>4 DEF Slack
  <2>7. k.globalActiveSubAgents \in Int
    BY <1>3 DEF Shared
  <2>8. a = Total(h, Node)
    BY <1>5
  <2> HIDE DEF v, w, h
  <2>9. Total(w, Pairs) = Total(v, Pairs) + Total(h, Node)
    <3>1. IsFiniteSet(Node) /\ IsFiniteSet(Pairs) /\ Pairs = Graph \X Node
      BY PairsFinite DEF Pairs
    <3>2. v \in [Pairs -> Int] /\ w \in [Pairs -> Int]
      BY <2>1
    <3> QED
      BY <2>2, <2>4, <3>1, <3>2, TotalRow
  <2> QED
    BY <1>5, <2>1, <2>5, <2>6, <2>7, <2>8, <2>9 DEF AtLeast
<1>7. \A n \in Node : k.runs[g][n] = 0 /\ k.ds[g][n].known = 0 => rn[n] = 0
  BY <1>1
<1>8. Shifts(k, ClearDrivers(k, g, rn), a, {})
  BY <1>1, <1>6, <1>7, ClearShifts DEF k2
<1> QED
  BY <1>2, <1>8 DEF k2, a

-----------------------------------------------------------------------------
(* What the state machine's methods do to the statuses of a graph.         *)

Statuses == [Node -> NodeStatus]

\* Nodes that wait may become ready or skipped, nothing else changes.
Moved(st, tt) ==
    \A n \in Node : tt[n] = st[n] \/ (st[n] \in {"pending", "ready"} /\ tt[n] \in {"ready", "skipped"})

CascadeStates == [queue : Seq(Node), visited : SUBSET Node, status : Statuses]

\* One round of the cascade.
LEMMA CascadeRoundIs ==
  ASSUME NEW g, NEW r \in CascadeStates
  PROVE  /\ SM(g)!CascadeRound(r) \in CascadeStates
         /\ Moved(r.status, SM(g)!CascadeRound(r).status)
<1> DEFINE n == Head(r.queue)
           seen == r.visited \cup {n}
           next == [r EXCEPT !.queue = Tail(r.queue), !.visited = seen]
           more == SM(g)!InNodeOrder(SM(g)!Dependents(Deps[g], n) \ seen)
           skip == [next EXCEPT !.status[n] = "skipped", !.queue = next.queue \o more]
           wake == [next EXCEPT !.status[n] = "ready"]
           new == SM(g)!CascadeRound(r)
<1>1. CASE r.queue = <<>>
  BY <1>1 DEF SM!CascadeRound, Moved
<1>2. CASE r.queue # <<>>
  <2>1. n \in Node /\ Tail(r.queue) \in Seq(Node) /\ r.visited \in SUBSET Node /\ r.status \in Statuses
    BY <1>2 DEF CascadeStates
  <2>2. more \in Seq(Node)
    BY InNodeOrderIs
  <2>3. \/ new = next
        \/ r.status[n] \in {"pending", "ready"} /\ (new = skip \/ new = wake)
    <3> HIDE DEF more
    <3>1. CASE n \in r.visited \/ r.status[n] \notin {"pending", "ready"}
      BY <1>2, <3>1 DEF SM!CascadeRound
    <3>2. CASE ~(n \in r.visited \/ r.status[n] \notin {"pending", "ready"}) /\ SM(g)!MustSkip(r.status, n)
      <4>1. new = skip
        BY <1>2, <3>2 DEF SM!CascadeRound, more, CascadeStates
      <4> QED
        BY <3>2, <4>1
    <3>3. CASE ~(n \in r.visited \/ r.status[n] \notin {"pending", "ready"}) /\ ~SM(g)!MustSkip(r.status, n)
      <4>1. CASE OnFailure = "continue" /\ SM(g)!IsBarrierSatisfied(r.status, n)
        BY <1>2, <3>3, <4>1 DEF SM!CascadeRound
      <4>2. CASE ~(OnFailure = "continue" /\ SM(g)!IsBarrierSatisfied(r.status, n))
        BY <1>2, <3>3, <4>2 DEF SM!CascadeRound
      <4> QED
        BY <4>1, <4>2
    <3> QED
      BY <3>1, <3>2, <3>3
  <2> HIDE DEF n, more, new
  <2>4. next \in CascadeStates /\ next.status = r.status
    BY <2>1 DEF CascadeStates
  <2>5. ASSUME r.status[n] \in {"pending", "ready"}
        PROVE  /\ skip \in CascadeStates /\ wake \in CascadeStates
               /\ skip.status = [r.status EXCEPT ![n] = "skipped"]
               /\ wake.status = [r.status EXCEPT ![n] = "ready"]
    <3>0. next.queue \in Seq(Node)
      BY <2>4 DEF CascadeStates
    <3>1. next.queue \o more \in Seq(Node)
      <4> HIDE DEF next
      <4> QED
        BY <2>2, <3>0
    <3> QED
      BY <2>1, <2>4, <3>1 DEF CascadeStates, Statuses, NodeStatus
  <2> HIDE DEF next, skip, wake
  <2>6. ASSUME new = next PROVE new \in CascadeStates /\ Moved(r.status, new.status)
    BY <2>4, <2>6 DEF Moved
  <2>7. ASSUME r.status[n] \in {"pending", "ready"}, new = skip \/ new = wake
        PROVE  new \in CascadeStates /\ Moved(r.status, new.status)
    <3>1. new \in CascadeStates
      BY <2>5, <2>7
    <3>2. \A m \in Node : m # n => new.status[m] = r.status[m]
      BY <2>1, <2>5, <2>7 DEF Statuses
    <3>3. new.status[n] \in {"ready", "skipped"}
      BY <2>1, <2>5, <2>7 DEF Statuses
    <3> QED
      BY <2>7, <3>1, <3>2, <3>3 DEF Moved
  <2> QED
    BY <2>3, <2>6, <2>7 DEF new
<1> QED
  BY <1>1, <1>2

\* Moves add up to a move.
LEMMA MovedMoved ==
  ASSUME NEW s1, NEW s2, NEW s3, Moved(s1, s2), Moved(s2, s3)
  PROVE  Moved(s1, s3)
BY DEF Moved

\* The cascade from x.
LEMMA CascadeIs ==
  ASSUME NEW g, NEW st \in Statuses, NEW x
  PROVE  /\ SM(g)!CascadeFailure(st, x) \in Statuses
         /\ Moved(st, SM(g)!CascadeFailure(st, x))
<1> DEFINE a == [queue |-> SM(g)!InNodeOrder(SM(g)!Dependents(Deps[g], x)), visited |-> {}, status |-> st]
<1> DEFINE L == N * N
           R == {r \in CascadeStates : Moved(st, r.status)}
           Eq(f) == f = [i \in 0 .. L |-> IF i = 0 THEN a ELSE SM(g)!CascadeRound(f[i - 1])]
           loop == CHOOSE f : Eq(f)
           step == [i \in 1 .. L |-> [r \in R |-> SM(g)!CascadeRound(r)]]
<1>1. L \in Nat
  BY CoordinatorAssumption
<1>2. a \in R
  <2>1. SM(g)!InNodeOrder(SM(g)!Dependents(Deps[g], x)) \in Seq(Node)
    BY InNodeOrderIs
  <2> QED
    BY <2>1 DEF CascadeStates, Moved
<1>3. ASSUME NEW i \in 1 .. L, NEW r \in R PROVE SM(g)!CascadeRound(r) \in R
  <2>1. /\ SM(g)!CascadeRound(r) \in CascadeStates
        /\ Moved(r.status, SM(g)!CascadeRound(r).status)
    BY CascadeRoundIs
  <2> QED
    BY <2>1, MovedMoved
<1>4. SM(g)!CascadeFailure(st, x) = loop[L].status
  BY DEF SM!CascadeFailure
<1> HIDE DEF L, R, a
<1>5. PICK f \in [0 .. L -> R] : Follows(f, L, a, step)
  <2>1. step \in [1 .. L -> [R -> R]]
    BY <1>3
  <2> HIDE DEF step
  <2> QED
    BY <1>1, <1>2, <2>1, RecursionSolved
<1>6. \A i \in 1 .. L : f[i] = SM(g)!CascadeRound(f[i - 1])
  <2> SUFFICES ASSUME NEW i \in 1 .. L PROVE f[i] = SM(g)!CascadeRound(f[i - 1])
    OBVIOUS
  <2>1. f[i - 1] \in R
    BY <1>1
  <2> QED
    BY <1>5, <2>1 DEF Follows
<1>7. Eq(f)
  <2>1. \A i \in 0 .. L : f[i] = IF i = 0 THEN a ELSE SM(g)!CascadeRound(f[i - 1])
    <3> SUFFICES ASSUME NEW i \in 0 .. L, i # 0 PROVE f[i] = SM(g)!CascadeRound(f[i - 1])
      BY <1>5 DEF Follows
    <3>1. i \in 1 .. L
      BY <1>1
    <3> QED
      BY <1>6, <3>1
  <2> QED
    BY <2>1
<1>8. Eq(loop)
  <2> HIDE DEF Eq
  <2> QED
    BY <1>7
<1> HIDE DEF loop
<1>9. loop[0] = a /\ \A i \in 1 .. L : loop[i] = SM(g)!CascadeRound(loop[i - 1])
  BY <1>1, <1>8
<1> HIDE DEF Eq
<1>10. \A i \in 1 .. L : loop[i - 1] \in R => loop[i] \in R
  BY <1>3, <1>9
<1>11. loop[L] \in R
  BY <1>1, <1>2, <1>9, <1>10, LoopStays
<1> QED
  BY <1>4, <1>11 DEF R, CascadeStates

\* The barriers of the dependents of n.
LEMMA EvaluateIs ==
  ASSUME NEW g, NEW st \in Statuses, NEW n
  PROVE  SM(g)!EvaluateBarriers(st, n) \in Statuses /\ Moved(st, SM(g)!EvaluateBarriers(st, n))
<1> DEFINE P(m) == n \in Deps[g][m] /\ st[m] = "pending" /\ SM(g)!IsBarrierSatisfied(st, m)
           tt == SM(g)!EvaluateBarriers(st, n)
<1>1. tt = [m \in Node |-> IF P(m) THEN "ready" ELSE st[m]]
  BY DEF SM!EvaluateBarriers, SM!Node, Node
<1>2. \A m : P(m) => st[m] = "pending"
  OBVIOUS
<1> HIDE DEF P, tt
<1>3. tt \in Statuses
  BY <1>1 DEF Statuses, NodeStatus
<1>4. \A m \in Node : tt[m] = st[m] \/ (st[m] = "pending" /\ tt[m] = "ready")
  BY <1>1, <1>2
<1> QED
  BY <1>3, <1>4 DEF Moved, tt

\* n leaves the status "running" for one in S; others may move.
Leaves(st, tt, n, S) ==
    /\ tt \in Statuses /\ tt[n] \in S
    /\ \A m \in Node : m # n =>
          tt[m] = st[m] \/ (st[m] \in {"pending", "ready"} /\ tt[m] \in {"ready", "skipped"})

\* A node that runs fails: it is retried or has failed.
LEMMA FailedIs ==
  ASSUME NEW g, status[g] \in Statuses, NEW n \in Node, NEW x
  PROVE  /\ status[g][n] # "running" => Failed(g, n, x) = status[g]
         /\ status[g][n] = "running" => Leaves(status[g], Failed(g, n, x), n, {"ready", "failed"})
<1>1. CASE status[g][n] # "running"
  BY <1>1 DEF Failed
<1>2. CASE status[g][n] = "running" /\ Retried(g, n, x)
  <2>1. Failed(g, n, x) = [status[g] EXCEPT ![n] = "ready"]
    BY <1>2 DEF Failed
  <2> QED
    BY <1>2, <2>1 DEF Leaves, Statuses, NodeStatus
<1>3. CASE status[g][n] = "running" /\ ~Retried(g, n, x)
  <2> DEFINE st == [status[g] EXCEPT ![n] = "failed"]
             s2 == SM(g)!CascadeFailure(st, n)
             s3 == SM(g)!EvaluateBarriers(s2, n)
  <2>1. Failed(g, n, x) = s3
    BY <1>3 DEF Failed
  <2>2. st \in Statuses /\ st[n] = "failed" /\ \A m \in Node : m # n => st[m] = status[g][m]
    BY DEF Statuses, NodeStatus
  <2> HIDE DEF st
  <2>3. s2 \in Statuses /\ Moved(st, s2)
    BY <2>2, CascadeIs
  <2> HIDE DEF s2
  <2>4. s3 \in Statuses /\ Moved(s2, s3)
    BY <2>3, EvaluateIs
  <2> HIDE DEF s3
  <2>5. Moved(st, s3)
    BY <2>3, <2>4, MovedMoved
  <2>6. s3[n] = "failed"
    BY <2>2, <2>5 DEF Moved
  <2> QED
    BY <1>3, <2>1, <2>2, <2>4, <2>5, <2>6 DEF Leaves, Moved
<1> QED
  BY <1>1, <1>2, <1>3

\* A node that runs completes.
LEMMA CompletedIs ==
  ASSUME NEW g, status[g] \in Statuses, NEW n \in Node
  PROVE  /\ status[g][n] # "running" => Completed(g, n) = status[g]
         /\ status[g][n] = "running" => Leaves(status[g], Completed(g, n), n, {"completed"})
<1>1. CASE status[g][n] # "running"
  BY <1>1 DEF Completed
<1>2. CASE status[g][n] = "running"
  <2> DEFINE st == [status[g] EXCEPT ![n] = "completed"]
             s3 == SM(g)!EvaluateBarriers(st, n)
  <2>1. Completed(g, n) = s3
    BY <1>2 DEF Completed
  <2>2. st \in Statuses /\ st[n] = "completed" /\ \A m \in Node : m # n => st[m] = status[g][m]
    BY DEF Statuses, NodeStatus
  <2> HIDE DEF st
  <2>4. s3 \in Statuses /\ Moved(st, s3)
    BY <2>2, EvaluateIs
  <2> HIDE DEF s3
  <2>6. s3[n] = "completed"
    BY <2>2, <2>4 DEF Moved
  <2> QED
    BY <1>2, <2>1, <2>2, <2>4, <2>6 DEF Leaves, Moved
<1> QED
  BY <1>1, <1>2

-----------------------------------------------------------------------------
(* Steps and the invariant.                                                *)

\* A graph is as it was if its part of the state is.
LEMMA SameGraph ==
  ASSUME NEW h \in Graph, GraphOK(h),
         phase'[h] = phase[h], status'[h] = status[h], runIdToNode'[h] = runIdToNode[h],
         live'[h] = live[h], runningCount'[h] = runningCount[h], inits'[h] = inits[h],
         h \in graphTimer' => h \in graphTimer \/ phase[h] # "absent",
         \A n \in Node : /\ Pending(c', h, n) = Pending(c, h, n)
                         /\ Failures(c', h, n) = Failures(c, h, n)
                         /\ c'.ds[h][n].init = c.ds[h][n].init
  PROVE  GraphOK(h)'
<1>1. (phase[h] = "absent" => Absent(h))'
  BY DEF GraphOK, Absent
<1>2. DriverNodes(h)' = DriverNodes(h)
  BY DEF DriverNodes
<1>3. StartedOnce(h)' <=> StartedOnce(h)
  BY DEF StartedOnce
<1>4. Counted(h)'
  BY <1>2, <1>3 DEF GraphOK, Counted
<1>5. ASSUME NEW n \in Node PROVE Row(h, n)'
  <2>1. Row(h, n)
    BY DEF GraphOK
  <2> QED
    BY <2>1 DEF Row
<1> QED
  BY <1>1, <1>4, <1>5 DEF GraphOK

\* Nothing the invariant looks at changes.
LEMMA QuietInd ==
  ASSUME IndInv, Slots(phase, c, c'), graphTimer' \subseteq graphTimer,
         UNCHANGED <<phase, status, runIdToNode, live, runningCount, inits>>
  PROVE  IndInv'
<1>1. Typed'
  BY DEF IndInv, Typed
<1>2. WellFormed(phase, c)'
  BY DEF Slots
<1>3. ASSUME NEW h \in Graph PROVE GraphOK(h)'
  <2>1. GraphOK(h) /\ (h \in graphTimer' => h \in graphTimer)
    BY DEF IndInv
  <2>2. \A n \in Node : /\ Pending(c', h, n) = Pending(c, h, n)
                        /\ Failures(c', h, n) = Failures(c, h, n)
                        /\ c'.ds[h][n].init = c.ds[h][n].init
    BY DEF Slots, Keeps
  <2> QED
    BY <2>1, <2>2, SameGraph
<1> QED
  BY <1>1, <1>2, <1>3 DEF IndInv

\* Popping a job that is not counted changes nothing.
LEMMA PoppedQuiet ==
  ASSUME WellFormed(phase, c), NEW g \in Graph, NEW op, Next1(g, op),
         op \notin {"start", "completed", "failed"}
  PROVE  /\ Arg(g) \in JobsOf(phase, g) /\ Arg(g).op = op
         /\ Slots(phase, c, Popped(g))
<1>1. c.tail[g] # <<>> /\ Arg(g).op = op
  BY DEF Next1, Arg
<1>2. /\ Arg(g) \in JobsOf(phase, g)
      /\ WellFormed(phase, Popped(g)) /\ Adds(Popped(g), c, g, Arg(g))
  BY <1>1, PoppedIs
<1>3. Keeps(Popped(g), c)
  BY <1>1, <1>2, NeutralKeeps
<1>4. Keeps(c, Popped(g))
  BY <1>3 DEF Keeps
<1> QED
  BY <1>1, <1>2, <1>4 DEF Slots

\* A neutral job is appended.
LEMMA AppendQuiet ==
  ASSUME NEW ph, NEW k, WellFormed(ph, k), NEW g \in Graph, ph[g] # "absent",
         NEW op \in {"ready", "finish", "expire"}, NEW n \in Nat
  PROVE  /\ Job(op, n, "-") \in JobsOf(ph, g) /\ Job(op, n, "-").op = op
         /\ Slots(ph, k, Append1(k, g, Job(op, n, "-")))
<1> DEFINE j == Job(op, n, "-")
<1>1. j \in Job3 /\ j.op = op
  BY DEF Job, Job3, Ops, Details
<1>2. j \in JobsOf(ph, g)
  BY <1>1 DEF JobsOf
<1> HIDE DEF j
<1>3. Slots(ph, k, Append1(k, g, j))
  BY <1>1, <1>2, Append1Is, NeutralKeeps DEF Slots
<1> QED
  BY <1>1, <1>2, <1>3 DEF j

\* The timers and the spawn passes.
LEMMA StaggerInd == ASSUME IndInv, NEW g \in Graph, NEW n \in Node, StaggerTimer(g, n) PROVE IndInv'
<1> DEFINE v == [c.stagger[g] EXCEPT ![n] = c.stagger[g][n] - 1]
           k == [c EXCEPT !.stagger[g] = v]
<1>0. WellFormed(phase, c) /\ c \in Shared
  BY DEF IndInv, WellFormed
<1>1. v \in [Node -> Int]
  BY <1>0 DEF Shared
<1>2. [c EXCEPT !.stagger[g][n] = @ - 1] = k
  BY <1>0 DEF Shared
<1> HIDE DEF v
<1>3. k \in Shared /\ k.tail = c.tail /\ k.ds = c.ds
  BY <1>0, <1>1 DEF Shared
<1>4. c' = IF phase[g] # "done" /\ status[g][n] = "ready" THEN SpawnNode(k, g, n) ELSE k
  BY <1>2 DEF StaggerTimer
<1> HIDE DEF k
<1>5. Slots(phase, c, k)
  BY <1>0, <1>3, OtherFields DEF Slots
<1>6. Slots(phase, c, c')
  <2>1. CASE phase[g] # "done" /\ status[g][n] = "ready"
    <3>1. phase[g] # "absent"
      BY <2>1 DEF IndInv, GraphOK, Absent
    <3>2. Slots(phase, k, SpawnNode(k, g, n))
      BY <1>5, <3>1, SpawnNodeIs DEF Slots
    <3> QED
      BY <1>4, <1>5, <2>1, <3>2, SlotsSlots
  <2>2. CASE ~(phase[g] # "done" /\ status[g][n] = "ready")
    BY <1>4, <1>5, <2>2
  <2> QED
    BY <2>1, <2>2
<1> QED
  BY <1>6, QuietInd DEF StaggerTimer, timers, history

\* The pass of a retry timer joins the tail.
LEMMA RetryInd == ASSUME IndInv, NEW g \in Graph, NEW n \in Node, RetryTimer(g, n) PROVE IndInv'
<1>1. WellFormed(phase, c)
  BY DEF IndInv
<1>2. Slots(phase, c, c')
  <2>1. CASE ~Terminal(g) /\ status[g][n] = "ready"
    <3>1. phase[g] # "absent"
      BY <2>1 DEF IndInv, GraphOK, Absent
    <3>2. c' = Append1(c, g, Job("ready", 1, "-"))
      BY <2>1 DEF RetryTimer
    <3> QED
      BY <1>1, <3>1, <3>2, AppendQuiet
  <2>2. CASE ~(~Terminal(g) /\ status[g][n] = "ready")
    <3>1. c' = c
      BY <2>2 DEF RetryTimer
    <3> QED
      BY <1>1, <3>1, SlotsSame
  <2> QED
    BY <2>1, <2>2
<1> QED
  BY <1>2, QuietInd DEF RetryTimer, history

\* The timeout of a graph joins its tail.
LEMMA TimeoutInd == ASSUME IndInv, NEW g \in Graph, GraphTimeout(g) PROVE IndInv'
<1>1. WellFormed(phase, c) /\ phase[g] # "absent"
  BY DEF IndInv, GraphOK, Absent, GraphTimeout
<1>2. Slots(phase, c, c')
  BY <1>1, AppendQuiet DEF GraphTimeout
<1> QED
  BY <1>2, QuietInd DEF GraphTimeout

\* A run of no map ends.
LEMMA UntrackedInd == ASSUME IndInv, NEW g \in Graph, UntrackedEnds(g) PROVE IndInv'
<1>1. Slots(phase, c, c')
  BY SlotsSame DEF IndInv, UntrackedEnds
<1> QED
  BY <1>1, QuietInd DEF UntrackedEnds, timers, history

\* Spawn passes.
LEMMA ReadyPassInd == ASSUME IndInv, NEW g \in Graph, ReadyPass(g) PROVE IndInv'
<1> DEFINE k0 == IF Arg(g).x = "overBudget" THEN Append1(Popped(g), g, Job("expire", 0, "-"))
                                            ELSE Popped(g)
           m == Arg(g).n
<1>0. WellFormed(phase, c) /\ runningCount[g] \in Int
  BY DEF IndInv, Typed
<1>1. /\ Arg(g) \in JobsOf(phase, g) /\ Arg(g).op = "ready"
      /\ Slots(phase, c, Popped(g))
  BY <1>0, PoppedQuiet DEF ReadyPass
<1>2. phase[g] # "absent" /\ m \in Nat
  BY <1>1 DEF JobsOf, Job3
<1>3. Slots(phase, c, k0)
  <2>1. Slots(phase, Popped(g), Append1(Popped(g), g, Job("expire", 0, "-")))
    BY <1>1, <1>2, AppendQuiet DEF Slots
  <2> QED
    BY <1>1, <2>1, SlotsSlots
<1>4. c' = Passes(k0, g, status[g], runningCount[g], m)
  BY DEF ReadyPass, Passes
<1> HIDE DEF k0, m
<1>5. Slots(phase, k0, c')
  BY <1>0, <1>2, <1>3, <1>4, PassesAre DEF Slots
<1>6. Slots(phase, c, c')
  BY <1>3, <1>5, SlotsSlots
<1> QED
  BY <1>6, QuietInd DEF ReadyPass, timers, history

\* A node whose counts are what they were, and that moves at most.
LEMMA RowStays ==
  ASSUME NEW g, NEW m, Row(g, m), m \in runIdToNode'[g] <=> m \in runIdToNode[g],
         live'[g][m] = live[g][m],
         Pending(c', g, m) = Pending(c, g, m), Failures(c', g, m) = Failures(c, g, m),
         \/ status'[g][m] = status[g][m]
         \/ status[g][m] \in {"pending", "ready"} /\ status'[g][m] \in {"ready", "skipped"}
  PROVE  Row(g, m)'
<1>1. CASE m \in runIdToNode[g]
  BY <1>1 DEF Row
<1>2. CASE m \notin runIdToNode[g]
  BY <1>2 DEF Row
<1> QED
  BY <1>1, <1>2

\* A step of g leaves the other graphs alone: their variables, and their part
\* of the shared state.
Beside(g) ==
    \A h \in Graph : h # g =>
        /\ phase'[h] = phase[h] /\ status'[h] = status[h] /\ runIdToNode'[h] = runIdToNode[h]
        /\ live'[h] = live[h] /\ runningCount'[h] = runningCount[h] /\ inits'[h] = inits[h]
        /\ h \in graphTimer' => h \in graphTimer
Aside(g) ==
    \A h \in Graph : h # g =>
        \A n \in Node : /\ Pending(c', h, n) = Pending(c, h, n)
                        /\ Failures(c', h, n) = Failures(c, h, n)
                        /\ c'.ds[h][n].init = c.ds[h][n].init

\* So the invariant follows from what it says of g.
LEMMA StepOf ==
  ASSUME IndInv, NEW g \in Graph, Beside(g), Aside(g), Typed', WellFormed(phase', c'), GraphOK(g)'
  PROVE  IndInv'
<1>1. ASSUME NEW h \in Graph PROVE GraphOK(h)'
  <2>1. CASE h = g
    BY <2>1
  <2>2. CASE h # g
    <3>1. GraphOK(h)
      BY DEF IndInv
    <3> QED
      BY <2>2, <3>1, SameGraph DEF Beside, Aside
  <2> QED
    BY <2>1, <2>2
<1> QED
  BY <1>1 DEF IndInv

\* The tracked runs and the driver nodes of a graph can be counted.
LEMMA Finite ==
  ASSUME IndInv, NEW g \in Graph
  PROVE  /\ IsFiniteSet(runIdToNode[g]) /\ Cardinality(runIdToNode[g]) \in Nat
         /\ IsFiniteSet(DriverNodes(g)) /\ Cardinality(DriverNodes(g)) \in Nat
<1>1. IsFiniteSet(Node)
  BY CoordinatorAssumption, FS_Interval DEF Node
<1>2. runIdToNode[g] \subseteq Node /\ DriverNodes(g) \subseteq Node
  BY DEF IndInv, Typed, DriverNodes
<1>3. IsFiniteSet(runIdToNode[g]) /\ IsFiniteSet(DriverNodes(g))
  BY <1>1, <1>2, FS_Subset
<1> QED
  BY <1>3, FS_CardinalityType

\* The count follows what it counts.
LEMMA CountFollows ==
  ASSUME IndInv, NEW g \in Graph, NEW d \in Int,
         runningCount'[g] = runningCount[g] + d, phase'[g] = phase[g], inits'[g] = inits[g],
         Cardinality(runIdToNode'[g]) + Cardinality(DriverNodes(g)') =
            Cardinality(runIdToNode[g]) + Cardinality(DriverNodes(g)) + d,
         \A n \in Node : c'.ds[g][n].init # 0 => c.ds[g][n].init # 0
  PROVE  Counted(g)'
<1> DEFINE a == Cardinality(runIdToNode[g]) + Cardinality(DriverNodes(g))
           b == Cardinality(runIdToNode'[g]) + Cardinality(DriverNodes(g)')
<1>1. a \in Nat
  BY Finite
<1>2. /\ \A n \in Node : c.ds[g][n].init # 0 => inits[g][n] # 0
      /\ phase[g] # "done" => /\ runningCount[g] >= a
                              /\ StartedOnce(g) => runningCount[g] = a
  BY DEF IndInv, GraphOK, Counted
<1>3. StartedOnce(g)' <=> StartedOnce(g)
  BY DEF StartedOnce
<1>4. b = a + d /\ runningCount[g] \in Int
  BY DEF IndInv, Typed
<1>5. Counted(g)' <=> /\ \A n \in Node : c'.ds[g][n].init # 0 => inits'[g][n] # 0
                      /\ phase'[g] # "done" => /\ runningCount'[g] >= b
                                               /\ StartedOnce(g)' => runningCount'[g] = b
  BY DEF Counted
<1> HIDE DEF a, b
<1> QED
  BY <1>1, <1>2, <1>3, <1>4, <1>5

\* What the job at the head of a tail says of its node.
LEMMA HeadIs ==
  ASSUME IndInv, NEW g \in Graph, NEW op, Next1(g, op)
  PROVE  /\ Arg(g) \in JobsOf(phase, g) /\ Arg(g).op = op /\ Arg(g).n \in Nat
         /\ op \in {"admit", "start", "completed", "failed", "driver", "action"} => Arg(g).n \in Node
         /\ op = "admit" => <<g, Arg(g).n>> \notin Driver
         /\ op = "driver" => <<g, Arg(g).n>> \in Driver
         /\ op # "admit" => phase[g] # "absent"
         /\ WellFormed(phase, Popped(g)) /\ Adds(Popped(g), c, g, Arg(g))
         /\ op # "finish" => Actionless(Popped(g).tail[g])
<1>1. c.tail[g] # <<>> /\ Arg(g).op = op
  BY DEF Next1, Arg
<1>2. /\ Arg(g) \in JobsOf(phase, g)
      /\ WellFormed(phase, Popped(g)) /\ Adds(Popped(g), c, g, Arg(g))
      /\ Arg(g).op # "finish" => Actionless(Popped(g).tail[g])
  BY <1>1, PoppedIs DEF IndInv
<1> QED
  BY <1>1, <1>2 DEF JobsOf, Job3

\* A job of a node.
LEMMA NodeJob ==
  ASSUME NEW ph, NEW g, ph[g] # "absent", NEW n \in Node,
         NEW op \in {"start", "completed", "failed", "action"}, NEW x \in Details
  PROVE  /\ Job(op, n, x) \in JobsOf(ph, g) /\ Job(op, n, x).op = op /\ Job(op, n, x).n = n
<1>1. n \in Nat
  BY NodesAreNat
<1>2. Job(op, n, x) \in Job3
  BY <1>1 DEF Job, Job3, Ops
<1> QED
  BY <1>2 DEF Job, JobsOf

\* admitRegularNode.
LEMMA AdmitInd == ASSUME IndInv, NEW g \in Graph, Admit(g) PROVE IndInv'
<1> DEFINE n == Arg(g).n
<1>1. /\ n \in Node /\ <<g, n>> \notin Driver /\ Slots(phase, c, Popped(g))
      /\ Actionless(Popped(g).tail[g])
  BY HeadIs, PoppedQuiet DEF Admit, IndInv
<1>2. CASE status[g][n] = "ready"
  <2> DEFINE j == Job("start", n, "-")
  <2>1. /\ status' = [status EXCEPT ![g][n] = "running"]
        /\ runIdToNode' = [runIdToNode EXCEPT ![g] = @ \union {n}]
        /\ runningCount' = [runningCount EXCEPT ![g] = @ + 1]
        /\ c' = Persist(Popped(g), g, status'[g], <<j>>)
        /\ UNCHANGED <<phase, live, graphTimer, inits>>
    BY <1>2 DEF Admit, timers, history
  <2> HIDE DEF n
  <2>2. phase[g] # "absent"
    BY <1>1, <1>2 DEF IndInv, GraphOK, Absent
  <2>3. "-" \in Details
    BY DEF Details
  <2>4. j \in JobsOf(phase, g) /\ j.op = "start" /\ j.n = n
    BY <1>1, <2>2, <2>3, NodeJob
  <2> HIDE DEF j
  <2>5. WellFormed(phase, c') /\ Adds(c, c', g, j)
    <3>1. WellFormed(phase, c') /\ Adds(Popped(g), c', g, j)
      BY <1>1, <2>1, <2>4, PersistOne DEF Slots
    <3> QED
      BY <1>1, <3>1, KeepsThenAdds DEF Slots
  <2>6. \A m : Hit(j, {"failed"}, m) = 0 /\ Hit(j, Runs, m) = IF m = n THEN 1 ELSE 0
    BY <2>4 DEF Hit, Runs
  <2>7. \A h \in Graph : \A m : Pending(c, h, m) \in Nat /\ Failures(c, h, m) \in Nat
    BY CountsAreNat DEF IndInv
  <2>8. ASSUME NEW h \in Graph, NEW m \in Node
        PROVE  /\ Failures(c', h, m) = Failures(c, h, m)
               /\ c'.ds[h][m].init = c.ds[h][m].init
               /\ Pending(c', h, m) = Pending(c, h, m) + IF h = g /\ m = n THEN 1 ELSE 0
    BY <2>5, <2>6, <2>7 DEF Adds
  <2>9. Typed'
    BY <1>1, <2>1 DEF IndInv, Typed, NodeStatus
  <2>10. Beside(g) /\ Aside(g)
    <3>1. Beside(g)
      BY <2>1 DEF Beside, IndInv, Typed
    <3>2. Aside(g)
      BY <2>7, <2>8 DEF Aside
    <3> QED
      BY <3>1, <3>2
  <2>11. n \notin runIdToNode[g] /\ live[g][n] = 0 /\ Pending(c, g, n) = 0 /\ Failures(c, g, n) = 0
    <3>1. Row(g, n)
      BY <1>1 DEF IndInv, GraphOK
    <3> QED
      BY <1>1, <1>2, <3>1 DEF Row
  <2>12. runIdToNode'[g] = runIdToNode[g] \cup {n} /\ runningCount'[g] = runningCount[g] + 1
    BY <2>1 DEF IndInv, Typed
  <2>13. Counted(g)'
    <3>1. DriverNodes(g)' = DriverNodes(g)
      BY <2>8 DEF DriverNodes
    <3>2. Cardinality(runIdToNode'[g]) = Cardinality(runIdToNode[g]) + 1
      BY <2>11, <2>12, Finite, FS_AddElement, ZenonT(30)
    <3>3. Cardinality(runIdToNode[g]) \in Nat /\ Cardinality(DriverNodes(g)) \in Nat
      BY Finite
    <3>4. \A m \in Node : c'.ds[g][m].init # 0 => c.ds[g][m].init # 0
      BY <2>8
    <3>5. Cardinality(runIdToNode'[g]) + Cardinality(DriverNodes(g)') =
            Cardinality(runIdToNode[g]) + Cardinality(DriverNodes(g)) + 1
      BY <3>1, <3>2, <3>3
    <3>6. phase'[g] = phase[g] /\ inits'[g] = inits[g] /\ 1 \in Int
      BY <2>1
    <3> QED
      BY <2>12, <3>4, <3>5, <3>6, CountFollows
  <2>14. ASSUME NEW m \in Node PROVE Row(g, m)'
    <3>1. CASE m = n
      <4>1. status'[g][n] = "running" /\ n \in runIdToNode'[g] /\ live'[g][n] = 0
        BY <1>1, <2>1, <2>11, <2>12 DEF IndInv, Typed
      <4>2. Pending(c', g, n) = 1 /\ Failures(c', g, n) = 0
        BY <1>1, <2>8, <2>11
      <4> QED
        BY <1>1, <3>1, <4>1, <4>2 DEF Row
    <3>2. CASE m # n
      <4>1. status'[g][m] = status[g][m] /\ live'[g][m] = live[g][m]
        BY <2>1, <3>2 DEF IndInv, Typed
      <4>2. m \in runIdToNode'[g] <=> m \in runIdToNode[g]
        BY <2>12, <3>2
      <4>3. Pending(c', g, m) = Pending(c, g, m) /\ Failures(c', g, m) = Failures(c, g, m)
        BY <2>7, <2>8, <3>2
      <4>4. Row(g, m)
        BY DEF IndInv, GraphOK
      <4> QED
        BY <4>1, <4>2, <4>3, <4>4, RowStays
    <3> QED
      BY <3>1, <3>2
  <2>15. GraphOK(g)'
    BY <2>1, <2>2, <2>13, <2>14 DEF GraphOK
  <2> QED
    BY <2>1, <2>5, <2>9, <2>10, <2>15, StepOf
<1>3. CASE status[g][n] # "ready"
  <2> DEFINE k == ReleaseAndDrainQueue(Popped(g))
  <2>1. /\ c' = Persist(k, g, status[g], <<>>)
        /\ UNCHANGED <<phase, status, runIdToNode, live, runningCount, inits, graphTimer>>
    BY <1>3 DEF Admit, timers, history
  <2>2. Slots(phase, Popped(g), k)
    BY <1>1, ReleaseIs DEF Slots
  <2> HIDE DEF k
  <2>3. Slots(phase, k, c')
    BY <2>1, <2>2, PersistNone DEF Slots
  <2>4. Slots(phase, c, c')
    BY <1>1, <2>2, <2>3, SlotsSlots
  <2> QED
    BY <2>1, <2>4, QuietInd
<1> QED
  BY <1>2, <1>3

Ended == {"completed", "failed", "skipped"}

\* A start or a completion is taken from the tail, and what follows for its node.
LEMMA RunJobTaken ==
  ASSUME IndInv, NEW g \in Graph, NEW op \in Runs, Next1(g, op), NEW n, n = Arg(g).n
  PROVE  /\ n \in Node /\ phase[g] # "absent" /\ WellFormed(phase, Popped(g))
         /\ \A h \in Graph, m \in Node :
               /\ Pending(Popped(g), h, m) \in Nat
               /\ Pending(c, h, m) = Pending(Popped(g), h, m) + IF h = g /\ m = n THEN 1 ELSE 0
               /\ Failures(Popped(g), h, m) = Failures(c, h, m)
               /\ Popped(g).ds[h][m].init = c.ds[h][m].init
         /\ n \in runIdToNode[g] =>
               /\ <<g, n>> \notin Driver /\ status[g][n] = "running" /\ live[g][n] = 0
               /\ Pending(Popped(g), g, n) = 0 /\ Failures(c, g, n) = 0
         /\ n \notin runIdToNode[g] =>
               live[g][n] = 0 /\ (<<g, n>> \in Driver \/ status[g][n] \in Ended)
<1> DEFINE j == Arg(g)
           k == Popped(g)
<1>1. n \in Node /\ phase[g] # "absent" /\ WellFormed(phase, k) /\ Adds(k, c, g, j) /\ j.op = op
  BY HeadIs DEF Runs
<1>2. \A m : Hit(j, {"failed"}, m) = 0 /\ Hit(j, Runs, m) = IF m = n THEN 1 ELSE 0
  BY <1>1 DEF Hit, Runs
<1>3. \A h \in Graph : \A m : Pending(k, h, m) \in Nat /\ Failures(k, h, m) \in Nat
  BY <1>1, CountsAreNat
<1> HIDE DEF j, k
<1>4. ASSUME NEW h \in Graph, NEW m \in Node
      PROVE  /\ Pending(k, h, m) \in Nat
             /\ Pending(c, h, m) = Pending(k, h, m) + IF h = g /\ m = n THEN 1 ELSE 0
             /\ Failures(k, h, m) = Failures(c, h, m)
             /\ k.ds[h][m].init = c.ds[h][m].init
  BY <1>1, <1>2, <1>3 DEF Adds
<1>5. Pending(c, g, n) = Pending(k, g, n) + 1 /\ Pending(k, g, n) \in Nat
  BY <1>1, <1>4
<1>6. Row(g, n) /\ live[g][n] \in Nat /\ status[g][n] \in NodeStatus
  BY <1>1 DEF IndInv, GraphOK, Typed
<1>7. n \in runIdToNode[g] =>
         /\ <<g, n>> \notin Driver /\ status[g][n] = "running" /\ live[g][n] = 0
         /\ Pending(k, g, n) = 0 /\ Failures(c, g, n) = 0
  BY <1>5, <1>6 DEF Row
<1>8. n \notin runIdToNode[g] =>
         live[g][n] = 0 /\ (<<g, n>> \in Driver \/ status[g][n] \in Ended)
  BY <1>5, <1>6 DEF Row, NodeStatus, Ended
<1> QED
  BY <1>1, <1>4, <1>7, <1>8 DEF k

\* An ended node that is not tracked has no counts to keep, nor has a driver.
LEMMA RowFree ==
  ASSUME NEW g, NEW n, n \notin runIdToNode'[g], live'[g][n] = 0,
         <<g, n>> \in Driver \/ status'[g][n] \in Ended
  PROVE  Row(g, n)'
BY DEF Row, Ended

\* The sub-agent of a node starts.
LEMMA StartInd == ASSUME IndInv, NEW g \in Graph, Start(g) PROVE IndInv'
<1> DEFINE n == Arg(g).n
<1>0. c' = Popped(g)
  BY DEF Start
<1>1. /\ n \in Node /\ phase[g] # "absent" /\ WellFormed(phase, c')
      /\ \A h \in Graph, m \in Node :
            /\ Pending(c', h, m) \in Nat
            /\ Pending(c, h, m) = Pending(c', h, m) + IF h = g /\ m = n THEN 1 ELSE 0
            /\ Failures(c', h, m) = Failures(c, h, m)
            /\ c'.ds[h][m].init = c.ds[h][m].init
      /\ n \in runIdToNode[g] =>
            /\ <<g, n>> \notin Driver /\ status[g][n] = "running" /\ live[g][n] = 0
            /\ Pending(c', g, n) = 0 /\ Failures(c, g, n) = 0
      /\ n \notin runIdToNode[g] =>
            live[g][n] = 0 /\ (<<g, n>> \in Driver \/ status[g][n] \in Ended)
  <2>1. Next1(g, "start") /\ "start" \in Runs
    BY DEF Start, Runs
  <2> QED
    BY <1>0, <2>1, RunJobTaken
<1>2. /\ UNCHANGED <<phase, status, runIdToNode, runningCount, inits, graphTimer>>
      /\ live' = IF n \in runIdToNode[g] THEN [live EXCEPT ![g][n] = @ + 1] ELSE live
  BY DEF Start, timers, history
<1> HIDE DEF n
<1>3. Typed'
  BY <1>2 DEF IndInv, Typed
<1>4. Beside(g)
  BY <1>2 DEF Beside, IndInv, Typed
<1>5. Aside(g)
  BY <1>1 DEF Aside
<1>6. Counted(g)'
  <2>1. DriverNodes(g)' = DriverNodes(g)
    BY <1>1 DEF DriverNodes
  <2>2. StartedOnce(g)' <=> StartedOnce(g)
    BY <1>2 DEF StartedOnce
  <2>3. Counted(g)
    BY DEF IndInv, GraphOK
  <2> QED
    BY <1>1, <1>2, <2>1, <2>2, <2>3 DEF Counted
<1>7. ASSUME NEW m \in Node PROVE Row(g, m)'
  <2>1. CASE m = n /\ n \in runIdToNode[g]
    <3>1. live'[g][n] = 1
      BY <1>1, <1>2, <2>1 DEF IndInv, Typed
    <3> QED
      BY <1>1, <1>2, <2>1, <3>1 DEF Row
  <2>2. CASE m = n /\ n \notin runIdToNode[g]
    BY <1>1, <1>2, <2>2, RowFree
  <2>3. CASE m # n
    <3>1. live'[g][m] = live[g][m]
      BY <1>2, <2>3 DEF IndInv, Typed
    <3>2. Pending(c', g, m) = Pending(c, g, m) /\ Failures(c', g, m) = Failures(c, g, m)
      BY <1>1, <2>3
    <3>3. Row(g, m)
      BY DEF IndInv, GraphOK
    <3> QED
      BY <1>2, <3>1, <3>2, <3>3, RowStays
  <2> QED
    BY <2>1, <2>2, <2>3
<1>8. GraphOK(g)'
  BY <1>1, <1>2, <1>6, <1>7 DEF GraphOK
<1> QED
  BY <1>1, <1>2, <1>3, <1>4, <1>5, <1>8, StepOf

\* A set without one of its elements, or as it is.
LEMMA RemoveTracked ==
  ASSUME IndInv, NEW g \in Graph, NEW n, runIdToNode'[g] = runIdToNode[g] \ {n},
         \A m \in Node : c'.ds[g][m].init = c.ds[g][m].init,
         phase'[g] = phase[g], inits'[g] = inits[g],
         runningCount'[g] = runningCount[g] - IF n \in runIdToNode[g] THEN 1 ELSE 0
  PROVE  Counted(g)'
<1> DEFINE d == IF n \in runIdToNode[g] THEN -1 ELSE 0
<1>1. DriverNodes(g)' = DriverNodes(g)
  BY DEF DriverNodes
<1>2. /\ IsFiniteSet(runIdToNode[g]) /\ Cardinality(runIdToNode[g]) \in Nat
      /\ Cardinality(DriverNodes(g)) \in Nat
  BY Finite
<1>3. Cardinality(runIdToNode'[g]) = Cardinality(runIdToNode[g]) + d
  <2>1. CASE n \in runIdToNode[g]
    BY <1>2, <2>1, FS_RemoveElement
  <2>2. CASE n \notin runIdToNode[g]
    <3>1. runIdToNode'[g] = runIdToNode[g]
      BY <2>2
    <3>2. d = 0 /\ Cardinality(runIdToNode'[g]) = Cardinality(runIdToNode[g])
      BY <2>2, <3>1, Zenon
    <3> HIDE DEF d
    <3> QED
      BY <1>2, <3>2
  <2> QED
    BY <2>1, <2>2
<1>4. d \in Int /\ runningCount[g] \in Int
  BY DEF IndInv, Typed
<1>5. runningCount'[g] = runningCount[g] + d
  BY <1>4
<1>6. Cardinality(runIdToNode'[g]) + Cardinality(DriverNodes(g)') =
        Cardinality(runIdToNode[g]) + Cardinality(DriverNodes(g)) + d
  BY <1>1, <1>2, <1>3, <1>4
<1>7. \A m \in Node : c'.ds[g][m].init # 0 => c.ds[g][m].init # 0
  OBVIOUS
<1> HIDE DEF d
<1> QED
  BY <1>4, <1>5, <1>6, <1>7, CountFollows

\* The runner refuses.
LEMMA StartRejectedInd == ASSUME IndInv, NEW g \in Graph, StartRejected(g) PROVE IndInv'
<1> DEFINE n == Arg(g).n
           k == ReleaseAndDrainQueue(Popped(g))
           j == Job("failed", n, "-")
<1>1. /\ n \in Node /\ phase[g] # "absent" /\ WellFormed(phase, Popped(g))
      /\ \A h \in Graph, m \in Node :
            /\ Pending(Popped(g), h, m) \in Nat
            /\ Pending(c, h, m) = Pending(Popped(g), h, m) + IF h = g /\ m = n THEN 1 ELSE 0
            /\ Failures(Popped(g), h, m) = Failures(c, h, m)
            /\ Popped(g).ds[h][m].init = c.ds[h][m].init
      /\ n \in runIdToNode[g] =>
            /\ <<g, n>> \notin Driver /\ status[g][n] = "running" /\ live[g][n] = 0
            /\ Pending(Popped(g), g, n) = 0 /\ Failures(c, g, n) = 0
      /\ n \notin runIdToNode[g] =>
            live[g][n] = 0 /\ (<<g, n>> \in Driver \/ status[g][n] \in Ended)
  <2>1. Next1(g, "start") /\ "start" \in Runs
    BY DEF StartRejected, Runs
  <2> QED
    BY <2>1, RunJobTaken
<1>2. /\ UNCHANGED <<phase, status, live, inits, graphTimer>>
      /\ runIdToNode' = [runIdToNode EXCEPT ![g] = @ \ {n}]
      /\ runningCount' = IF n \in runIdToNode[g] THEN [runningCount EXCEPT ![g] = @ - 1]
                                                 ELSE runningCount
      /\ c' = Append1(k, g, j)
  BY DEF StartRejected, timers
<1> HIDE DEF n
<1>3. j \in JobsOf(phase, g) /\ j.op = "failed" /\ j.n = n
  <2>1. "-" \in Details
    BY DEF Details
  <2> QED
    BY <1>1, <2>1, NodeJob
<1>4. Slots(phase, Popped(g), k)
  BY <1>1, ReleaseIs
<1> HIDE DEF k, j
<1>5. WellFormed(phase, c') /\ Adds(Popped(g), c', g, j)
  <2>1. WellFormed(phase, c') /\ Adds(k, c', g, j)
    BY <1>2, <1>3, <1>4, Append1Is DEF Slots
  <2> QED
    BY <1>4, <2>1, KeepsThenAdds DEF Slots
<1>6. \A m : Hit(j, Runs, m) = 0 /\ Hit(j, {"failed"}, m) = IF m = n THEN 1 ELSE 0
  BY <1>3 DEF Hit, Runs
<1>7. \A h \in Graph : \A m : Failures(c, h, m) \in Nat
  BY CountsAreNat DEF IndInv
<1>8. ASSUME NEW h \in Graph, NEW m \in Node
      PROVE  /\ c'.ds[h][m].init = c.ds[h][m].init
             /\ Pending(c', h, m) = Pending(Popped(g), h, m)
             /\ Failures(c', h, m) = Failures(c, h, m) + IF h = g /\ m = n THEN 1 ELSE 0
  BY <1>1, <1>5, <1>6, <1>7 DEF Adds
<1>9. Typed'
  BY <1>1, <1>2 DEF IndInv, Typed
<1>10. Beside(g)
  BY <1>2 DEF Beside, IndInv, Typed
<1>11. Aside(g)
  BY <1>1, <1>7, <1>8 DEF Aside
<1>12. /\ runIdToNode'[g] = runIdToNode[g] \ {n}
       /\ runningCount'[g] = runningCount[g] - IF n \in runIdToNode[g] THEN 1 ELSE 0
  BY <1>2 DEF IndInv, Typed
<1>13. Counted(g)'
  <2>1. phase'[g] = phase[g] /\ inits'[g] = inits[g]
    BY <1>2
  <2>2. \A m \in Node : c'.ds[g][m].init = c.ds[g][m].init
    BY <1>8
  <2> QED
    BY <1>12, <2>1, <2>2, RemoveTracked
<1>14. ASSUME NEW m \in Node PROVE Row(g, m)'
  <2>1. CASE m = n /\ n \in runIdToNode[g]
    <3>1. Pending(c', g, n) = 0 /\ Failures(c', g, n) = 1
      BY <1>1, <1>8, <2>1
    <3> QED
      BY <1>1, <1>2, <1>12, <2>1, <3>1 DEF Row
  <2>2. CASE m = n /\ n \notin runIdToNode[g]
    BY <1>1, <1>2, <1>12, <2>2, RowFree
  <2>3. CASE m # n
    <3>1. Pending(c', g, m) = Pending(c, g, m) /\ Failures(c', g, m) = Failures(c, g, m)
      BY <1>1, <1>7, <1>8, <2>3
    <3>2. m \in runIdToNode'[g] <=> m \in runIdToNode[g]
      BY <1>12, <2>3
    <3>3. Row(g, m)
      BY DEF IndInv, GraphOK
    <3>4. status' = status /\ live' = live
      BY <1>2
    <3> QED
      BY <3>1, <3>2, <3>3, <3>4, RowStays
  <2> QED
    BY <2>1, <2>2, <2>3
<1>15. GraphOK(g)'
  BY <1>1, <1>2, <1>13, <1>14 DEF GraphOK
<1> QED
  BY <1>2, <1>5, <1>9, <1>10, <1>11, <1>15, StepOf

\* A run that is tracked ends, with its slot given back.
LEMMA RunEndsInd ==
  ASSUME IndInv, NEW g \in Graph, NEW n \in Node, NEW x \in Outcome, RunEnds(g, n, x)
  PROVE  IndInv'
<1> DEFINE k == ReleaseAndDrainQueue(c)
           j == Job("completed", n, x)
<1>1. /\ UNCHANGED <<phase, status, runIdToNode, runningCount, inits, graphTimer>>
      /\ live[g][n] > 0 /\ live' = [live EXCEPT ![g][n] = @ - 1]
      /\ c' = Append1(k, g, j)
  BY DEF RunEnds, timers, history
<1>2. /\ n \in runIdToNode[g] /\ <<g, n>> \notin Driver /\ status[g][n] = "running"
      /\ live[g][n] = 1 /\ Pending(c, g, n) = 0 /\ Failures(c, g, n) = 0
  <2>1. Row(g, n) /\ live[g][n] \in Nat /\ Pending(c, g, n) \in Nat
    BY CountsAreNat DEF IndInv, GraphOK, Typed
  <2> QED
    BY <1>1, <2>1 DEF Row
<1>3. phase[g] # "absent" /\ WellFormed(phase, c)
  BY <1>2 DEF IndInv, GraphOK, Absent
<1>4. j \in JobsOf(phase, g) /\ j.op = "completed" /\ j.n = n
  <2>1. x \in Details
    BY DEF Details, Outcome
  <2> QED
    BY <1>3, <2>1, NodeJob
<1>5. Slots(phase, c, k)
  BY <1>3, ReleaseIs
<1> HIDE DEF k, j
<1>6. WellFormed(phase, c') /\ Adds(c, c', g, j)
  <2>1. WellFormed(phase, c') /\ Adds(k, c', g, j)
    BY <1>1, <1>4, <1>5, Append1Is DEF Slots
  <2> QED
    BY <1>5, <2>1, KeepsThenAdds DEF Slots
<1>7. \A m : Hit(j, {"failed"}, m) = 0 /\ Hit(j, Runs, m) = IF m = n THEN 1 ELSE 0
  BY <1>4 DEF Hit, Runs
<1>8. \A h \in Graph : \A m : Pending(c, h, m) \in Nat /\ Failures(c, h, m) \in Nat
  BY <1>3, CountsAreNat
<1>9. ASSUME NEW h \in Graph, NEW m \in Node
      PROVE  /\ c'.ds[h][m].init = c.ds[h][m].init
             /\ Failures(c', h, m) = Failures(c, h, m)
             /\ Pending(c', h, m) = Pending(c, h, m) + IF h = g /\ m = n THEN 1 ELSE 0
  BY <1>6, <1>7, <1>8 DEF Adds
<1>10. Typed'
  BY <1>1 DEF IndInv, Typed
<1>11. Beside(g)
  BY <1>1 DEF Beside, IndInv, Typed
<1>12. Aside(g)
  BY <1>8, <1>9 DEF Aside
<1>13. Counted(g)'
  <2>1. DriverNodes(g)' = DriverNodes(g)
    BY <1>9 DEF DriverNodes
  <2>2. StartedOnce(g)' <=> StartedOnce(g)
    BY <1>1 DEF StartedOnce
  <2>3. Counted(g)
    BY DEF IndInv, GraphOK
  <2> QED
    BY <1>1, <1>9, <2>1, <2>2, <2>3 DEF Counted
<1>14. ASSUME NEW m \in Node PROVE Row(g, m)'
  <2>1. CASE m = n
    <3>1. live'[g][n] = 0
      BY <1>1, <1>2 DEF IndInv, Typed
    <3>2. Pending(c', g, n) = 1 /\ Failures(c', g, n) = 0
      BY <1>2, <1>9
    <3> QED
      BY <1>1, <1>2, <2>1, <3>1, <3>2 DEF Row
  <2>2. CASE m # n
    <3>1. live'[g][m] = live[g][m]
      BY <1>1, <2>2 DEF IndInv, Typed
    <3>2. Pending(c', g, m) = Pending(c, g, m) /\ Failures(c', g, m) = Failures(c, g, m)
      BY <1>8, <1>9, <2>2
    <3>3. Row(g, m)
      BY DEF IndInv, GraphOK
    <3>4. status' = status /\ runIdToNode' = runIdToNode
      BY <1>1
    <3> QED
      BY <3>1, <3>2, <3>3, <3>4, RowStays
  <2> QED
    BY <2>1, <2>2
<1>15. GraphOK(g)'
  BY <1>1, <1>3, <1>13, <1>14 DEF GraphOK
<1> QED
  BY <1>1, <1>6, <1>10, <1>11, <1>12, <1>15, StepOf

\* A spawn pass as the continuation of a transition.
LEMMA ReadyJob ==
  ASSUME NEW ph, NEW g, ph[g] # "absent", NEW m \in Nat, NEW x \in {"-", "overBudget"}
  PROVE  Job("ready", m, x) \in JobsOf(ph, g) /\ Job("ready", m, x).op = "ready"
<1>1. Job("ready", m, x) \in Job3
  BY DEF Job, Job3, Ops, Details
<1> QED
  BY <1>1 DEF Job, JobsOf

\* handleSubAgentCompleted.
LEMMA CompletedInd == ASSUME IndInv, NEW g \in Graph, SubAgentCompleted(g) PROVE IndInv'
<1> DEFINE n == Arg(g).n
           x == Arg(g).x
<1>1. /\ n \in Node /\ phase[g] # "absent" /\ WellFormed(phase, Popped(g))
      /\ \A h \in Graph, m \in Node :
            /\ Pending(Popped(g), h, m) \in Nat
            /\ Pending(c, h, m) = Pending(Popped(g), h, m) + IF h = g /\ m = n THEN 1 ELSE 0
            /\ Failures(Popped(g), h, m) = Failures(c, h, m)
            /\ Popped(g).ds[h][m].init = c.ds[h][m].init
      /\ n \in runIdToNode[g] =>
            /\ <<g, n>> \notin Driver /\ status[g][n] = "running" /\ live[g][n] = 0
            /\ Pending(Popped(g), g, n) = 0 /\ Failures(c, g, n) = 0
      /\ n \notin runIdToNode[g] =>
            live[g][n] = 0 /\ (<<g, n>> \in Driver \/ status[g][n] \in Ended)
  <2>1. Next1(g, "completed") /\ "completed" \in Runs
    BY DEF SubAgentCompleted, Runs
  <2> QED
    BY <2>1, RunJobTaken
<1>2. UNCHANGED <<phase, live, inits, graphTimer>> /\ Actionless(Popped(g).tail[g])
  <2>1. Next1(g, "completed") /\ "completed" # "finish"
    BY DEF SubAgentCompleted
  <2>2. Actionless(Popped(g).tail[g])
    BY <2>1, HeadIs
  <2> QED
    BY <2>2 DEF SubAgentCompleted, timers
<1>3. Slots(phase, Popped(g), c')
  <2>1. CASE n \notin runIdToNode[g]
    <3>1. c' = Persist(Popped(g), g, status[g], <<>>)
      BY <2>1 DEF SubAgentCompleted
    <3> QED
      BY <1>1, <3>1, PersistNone
  <2>2. CASE n \in runIdToNode[g]
    <3> DEFINE st == status'[g]
               cascade == IF x # "ok" /\ NewlyReady(g, n, st) # {} THEN 1 ELSE 0
               j1 == Job("ready", cascade + 1, "-")
               j2 == Job("ready", cascade, "overBudget")
    <3>1. \/ c' = Persist(Popped(g), g, st, <<>>)
          \/ c' = Persist(Popped(g), g, st, <<j1>>)
          \/ c' = Persist(Popped(g), g, st, <<j2>>)
      BY <2>2 DEF SubAgentCompleted
    <3>2. cascade \in Nat /\ cascade + 1 \in Nat
      OBVIOUS
    <3> HIDE DEF cascade, st
    <3>3. j1 \in JobsOf(phase, g) /\ j1.op = "ready" /\ j2 \in JobsOf(phase, g) /\ j2.op = "ready"
      BY <1>1, <3>2, ReadyJob
    <3> HIDE DEF j1, j2
    <3>4. ASSUME NEW j, j \in JobsOf(phase, g), j.op = "ready", c' = Persist(Popped(g), g, st, <<j>>)
          PROVE  Slots(phase, Popped(g), c')
      <4>1. WellFormed(phase, c') /\ Adds(Popped(g), c', g, j)
        BY <1>1, <1>2, <3>4, PersistOne
      <4> QED
        BY <1>1, <3>4, <4>1, NeutralKeeps DEF Slots
    <3>5. c' = Persist(Popped(g), g, st, <<>>) => Slots(phase, Popped(g), c')
      BY <1>1, PersistNone
    <3> QED
      BY <3>1, <3>3, <3>4, <3>5
  <2> QED
    BY <2>1, <2>2
<1>4. /\ runIdToNode' = [runIdToNode EXCEPT ![g] = @ \ {n}]
      /\ runningCount' = IF n \in runIdToNode[g] THEN [runningCount EXCEPT ![g] = @ - 1]
                                                 ELSE runningCount
  <2>1. CASE n \in runIdToNode[g]
    BY <2>1 DEF SubAgentCompleted
  <2>2. CASE n \notin runIdToNode[g]
    BY <2>2 DEF SubAgentCompleted, IndInv, Typed
  <2> QED
    BY <2>1, <2>2
<1>5. \E st \in Statuses :
         /\ status' = [status EXCEPT ![g] = st]
         /\ n \in runIdToNode[g] => Leaves(status[g], st, n, {"ready", "failed", "completed"})
         /\ n \notin runIdToNode[g] => st = status[g]
  <2>0. status[g] \in Statuses /\ status \in [Graph -> Statuses]
    BY DEF IndInv, Typed, Statuses
  <2>1. CASE n \in runIdToNode[g] /\ x = "ok"
    <3>1. status' = [status EXCEPT ![g] = Completed(g, n)]
      BY <2>1 DEF SubAgentCompleted
    <3>2. Leaves(status[g], Completed(g, n), n, {"completed"})
      BY <1>1, <2>0, <2>1, CompletedIs
    <3>3. Completed(g, n) \in Statuses /\ Leaves(status[g], Completed(g, n), n, {"ready", "failed", "completed"})
      BY <3>2 DEF Leaves
    <3> QED
      BY <2>1, <3>1, <3>3
  <2>2. CASE n \in runIdToNode[g] /\ x # "ok"
    <3>1. status' = [status EXCEPT ![g] = Failed(g, n, x)]
      BY <2>2 DEF SubAgentCompleted
    <3>2. Leaves(status[g], Failed(g, n, x), n, {"ready", "failed"})
      BY <1>1, <2>0, <2>2, FailedIs
    <3>3. Failed(g, n, x) \in Statuses /\ Leaves(status[g], Failed(g, n, x), n, {"ready", "failed", "completed"})
      BY <3>2 DEF Leaves
    <3> QED
      BY <2>2, <3>1, <3>3
  <2>3. CASE n \notin runIdToNode[g]
    <3>1. status' = status
      BY <2>3 DEF SubAgentCompleted
    <3>2. status' = [status EXCEPT ![g] = status[g]]
      BY <2>0, <3>1
    <3> QED
      BY <2>0, <2>3, <3>2
  <2> QED
    BY <2>1, <2>2, <2>3
<1> HIDE DEF n, x
<1>6. PICK st \in Statuses :
         /\ status' = [status EXCEPT ![g] = st]
         /\ n \in runIdToNode[g] => Leaves(status[g], st, n, {"ready", "failed", "completed"})
         /\ n \notin runIdToNode[g] => st = status[g]
  BY <1>5
<1>7. WellFormed(phase, c') /\ Keeps(Popped(g), c')
  BY <1>3 DEF Slots
<1>8. ASSUME NEW h \in Graph, NEW m \in Node
      PROVE  /\ Pending(c', h, m) \in Nat
             /\ Pending(c, h, m) = Pending(c', h, m) + IF h = g /\ m = n THEN 1 ELSE 0
             /\ Failures(c', h, m) = Failures(c, h, m)
             /\ c'.ds[h][m].init = c.ds[h][m].init
  BY <1>1, <1>7 DEF Keeps
<1>9. Typed'
  BY <1>2, <1>4, <1>6 DEF IndInv, Typed, Statuses
<1>10. Beside(g)
  BY <1>2, <1>4, <1>6 DEF Beside, IndInv, Typed
<1>11. Aside(g)
  BY <1>8 DEF Aside
<1>12. /\ runIdToNode'[g] = runIdToNode[g] \ {n} /\ status'[g] = st
       /\ runningCount'[g] = runningCount[g] - IF n \in runIdToNode[g] THEN 1 ELSE 0
  BY <1>4, <1>6 DEF IndInv, Typed
<1>13. Counted(g)'
  <2>1. phase'[g] = phase[g] /\ inits'[g] = inits[g]
    BY <1>2
  <2>2. \A m \in Node : c'.ds[g][m].init = c.ds[g][m].init
    BY <1>8
  <2> QED
    BY <1>12, <2>1, <2>2, RemoveTracked
<1>14. ASSUME NEW m \in Node PROVE Row(g, m)'
  <2>1. CASE m = n /\ n \in runIdToNode[g]
    <3>1. Pending(c', g, n) = 0 /\ Failures(c', g, n) = 0
      BY <1>1, <1>7, <1>8, <2>1 DEF Keeps
    <3>2. status'[g][n] \in {"ready", "failed", "completed"}
      BY <1>6, <1>12, <2>1 DEF Leaves
    <3> QED
      BY <1>1, <1>2, <1>12, <2>1, <3>1, <3>2 DEF Row
  <2>2. CASE m = n /\ n \notin runIdToNode[g]
    BY <1>1, <1>2, <1>6, <1>12, <2>2, RowFree
  <2>3. CASE m # n
    <3>1. Pending(c', g, m) = Pending(c, g, m) /\ Failures(c', g, m) = Failures(c, g, m)
      BY <1>8, <2>3
    <3>2. m \in runIdToNode'[g] <=> m \in runIdToNode[g]
      BY <1>12, <2>3
    <3>3. Row(g, m)
      BY DEF IndInv, GraphOK
    <3>4. \/ status'[g][m] = status[g][m]
          \/ status[g][m] \in {"pending", "ready"} /\ status'[g][m] \in {"ready", "skipped"}
      BY <1>6, <1>12, <2>3 DEF Leaves
    <3>5. live' = live
      BY <1>2
    <3> QED
      BY <3>1, <3>2, <3>3, <3>4, <3>5, RowStays
  <2> QED
    BY <2>1, <2>2, <2>3
<1>15. GraphOK(g)'
  BY <1>1, <1>2, <1>13, <1>14 DEF GraphOK
<1> QED
  BY <1>2, <1>7, <1>9, <1>10, <1>11, <1>15, StepOf

\* markNodeFailed of the coordinator.
LEMMA FailedInd == ASSUME IndInv, NEW g \in Graph, NodeFailed(g) PROVE IndInv'
<1> DEFINE n == Arg(g).n
           j == Arg(g)
           k == Persist(Popped(g), g, status'[g], <<>>)
<1>1. /\ n \in Node /\ phase[g] # "absent" /\ WellFormed(phase, Popped(g))
      /\ Adds(Popped(g), c, g, j) /\ j.op = "failed"
  <2>1. Next1(g, "failed")
    BY DEF NodeFailed
  <2>2. /\ Arg(g).op = "failed" /\ WellFormed(phase, Popped(g)) /\ Adds(Popped(g), c, g, Arg(g))
        /\ Arg(g) \in JobsOf(phase, g)
    BY <2>1, HeadIs
  <2>3. Arg(g).n \in Node /\ phase[g] # "absent"
    BY <2>2 DEF JobsOf
  <2> QED
    BY <2>2, <2>3
<1>2. /\ UNCHANGED <<phase, runIdToNode, live, runningCount, inits, graphTimer>>
      /\ status' = [status EXCEPT ![g] = Failed(g, n, "fail")]
      /\ c' = k \/ c' = Append1(k, g, Job("ready", 1, "-"))
  BY DEF NodeFailed, history
<1>3. Slots(phase, Popped(g), c')
  <2>1. Slots(phase, Popped(g), k)
    BY <1>1, PersistNone
  <2> HIDE DEF k
  <2>2. Slots(phase, k, Append1(k, g, Job("ready", 1, "-")))
    BY <1>1, <2>1, AppendQuiet DEF Slots
  <2> QED
    BY <1>2, <2>1, <2>2, SlotsSlots
<1>4. \A m : Hit(j, Runs, m) = 0 /\ Hit(j, {"failed"}, m) = IF m = n THEN 1 ELSE 0
  BY <1>1 DEF Hit, Runs
<1>5. WellFormed(phase, c') /\ Keeps(Popped(g), c')
  BY <1>3 DEF Slots
<1>6. \A h \in Graph : \A m : Pending(c', h, m) \in Nat /\ Failures(c', h, m) \in Nat
  BY <1>5, CountsAreNat
<1>7. status[g] \in Statuses /\ status \in [Graph -> Statuses]
  BY DEF IndInv, Typed, Statuses
<1> DEFINE st == Failed(g, n, "fail")
<1>8. /\ status[g][n] # "running" => st = status[g]
      /\ status[g][n] = "running" => Leaves(status[g], st, n, {"ready", "failed"})
  BY <1>1, <1>7, FailedIs
<1> HIDE DEF n, j, k, st
<1>9. ASSUME NEW h \in Graph, NEW m \in Node
      PROVE  /\ Pending(c', h, m) = Pending(c, h, m)
             /\ Failures(c, h, m) = Failures(c', h, m) + IF h = g /\ m = n THEN 1 ELSE 0
             /\ c'.ds[h][m].init = c.ds[h][m].init
  BY <1>1, <1>4, <1>5, <1>6 DEF Adds, Keeps
<1>10. st \in Statuses /\ status'[g] = st
  <2>1. st \in Statuses
    BY <1>7, <1>8 DEF Leaves
  <2> QED
    BY <1>2, <1>7, <2>1 DEF st
<1>11. Typed'
  BY <1>2, <1>10 DEF IndInv, Typed, Statuses, st
<1>12. Beside(g)
  BY <1>2, <1>7 DEF Beside
<1>13. Aside(g)
  BY <1>6, <1>9 DEF Aside
<1>14. Counted(g)'
  <2>1. DriverNodes(g)' = DriverNodes(g)
    BY <1>9 DEF DriverNodes
  <2>2. StartedOnce(g)' <=> StartedOnce(g)
    BY <1>2 DEF StartedOnce
  <2>3. Counted(g)
    BY DEF IndInv, GraphOK
  <2>4. UNCHANGED <<phase, runIdToNode, runningCount, inits>>
    BY <1>2
  <2> QED
    BY <1>9, <2>1, <2>2, <2>3, <2>4 DEF Counted
<1>15. ASSUME NEW m \in Node PROVE Row(g, m)'
  <2>1. UNCHANGED <<runIdToNode, live>>
    BY <1>2
  <2>2. Row(g, m)
    BY DEF IndInv, GraphOK
  <2>3. CASE m = n
    <3>1. /\ Failures(c, g, n) = Failures(c', g, n) + 1 /\ Failures(c', g, n) \in Nat
          /\ Pending(c', g, n) = Pending(c, g, n)
      BY <1>1, <1>6, <1>9
    <3>2. n \notin runIdToNode[g] /\ live[g][n] = 0
      BY <2>2, <2>3, <3>1 DEF Row
    <3>3. CASE <<g, n>> \in Driver
      BY <2>1, <2>3, <3>2, <3>3, RowFree
    <3>4. CASE <<g, n>> \notin Driver /\ status[g][n] = "running"
      <4>1. Pending(c, g, n) = 0 /\ Failures(c', g, n) = 0
        BY <2>2, <2>3, <3>1, <3>2, <3>4 DEF Row
      <4>2. status'[g][n] \in {"ready", "failed"}
        BY <1>8, <1>10, <3>4 DEF Leaves
      <4> QED
        BY <2>1, <2>3, <3>1, <3>2, <4>1, <4>2 DEF Row
    <3>5. CASE <<g, n>> \notin Driver /\ status[g][n] # "running"
      <4>1. status[g][n] \in Ended
        <5>1. status[g][n] \in NodeStatus
          BY <1>1, <1>7 DEF Statuses
        <5> QED
          BY <2>2, <2>3, <3>1, <3>2, <3>5, <5>1 DEF Row, NodeStatus, Ended
      <4>2. status'[g][n] \in Ended
        BY <1>8, <1>10, <3>5, <4>1
      <4> QED
        BY <2>1, <2>3, <3>2, <4>2, RowFree
    <3> QED
      BY <3>3, <3>4, <3>5
  <2>4. CASE m # n
    <3>1. Pending(c', g, m) = Pending(c, g, m) /\ Failures(c', g, m) = Failures(c, g, m)
      BY <1>6, <1>9, <2>4
    <3>2. \/ status'[g][m] = status[g][m]
          \/ status[g][m] \in {"pending", "ready"} /\ status'[g][m] \in {"ready", "skipped"}
      BY <1>8, <1>10, <2>4 DEF Leaves
    <3> QED
      BY <2>1, <2>2, <3>1, <3>2, RowStays
  <2> QED
    BY <2>3, <2>4
<1>16. GraphOK(g)'
  BY <1>1, <1>2, <1>14, <1>15 DEF GraphOK
<1>17. phase' = phase
  BY <1>2
<1> QED
  BY <1>5, <1>11, <1>12, <1>13, <1>16, <1>17, StepOf

\* Fewer graphs are absent.
LEMMA Created ==
  ASSUME NEW ph, NEW ph2, NEW k, WellFormed(ph, k),
         \A h \in Graph : ph2[h] = "absent" => ph[h] = "absent"
  PROVE  WellFormed(ph2, k)
<1>1. ASSUME NEW h \in Graph PROVE k.tail[h] \in Seq(JobsOf(ph2, h))
  <2>1. JobsOf(ph, h) \subseteq JobsOf(ph2, h)
    BY DEF JobsOf
  <2>2. k.tail[h] \in Seq(JobsOf(ph, h))
    BY DEF WellFormed
  <2> DEFINE A == JobsOf(ph, h)
             B == JobsOf(ph2, h)
             u == k.tail[h]
  <2>3. u \in Seq(A) /\ A \subseteq B
    BY <2>1, <2>2
  <2> HIDE DEF A, B, u
  <2>4. u \in Seq(B)
    BY <2>3
  <2> QED
    BY <2>4 DEF u, B
<1> QED
  BY <1>1 DEF WellFormed

\* handleGraphCompletion.
LEMMA FinishInd == ASSUME IndInv, NEW g \in Graph, Finish(g) PROVE IndInv'
<1>1. phase[g] # "absent" /\ Slots(phase, c, Popped(g))
  BY HeadIs, PoppedQuiet DEF Finish, IndInv
<1>2. CASE ~Terminal(g) \/ phase[g] = "done"
  <2>1. c' = Popped(g) /\ UNCHANGED <<phase, status, runIdToNode, live, runningCount, inits, graphTimer>>
    BY <1>2 DEF Finish, timers, history
  <2> QED
    BY <1>1, <2>1, QuietInd
<1>3. CASE ~(~Terminal(g) \/ phase[g] = "done")
  <2>1. /\ phase' = [phase EXCEPT ![g] = "done"]
        /\ graphTimer' = graphTimer \ {g}
        /\ c' = NoDriversLeft(Popped(g), g)
        /\ UNCHANGED <<status, runIdToNode, live, runningCount, inits>>
    BY <1>3 DEF Finish, history
  <2>2. WellFormed(phase, c') /\ Undriven(Popped(g), c', g)
    BY <1>1, <2>1, NoDriversLeftIs DEF Slots
  <2>3. phase'[g] = "done" /\ \A h \in Graph : h # g => phase'[h] = phase[h]
    BY <2>1 DEF IndInv, Typed
  <2>4. WellFormed(phase', c')
    BY <2>2, <2>3, Created
  <2>5. ASSUME NEW h \in Graph, NEW m \in Node
        PROVE  /\ Pending(c', h, m) = Pending(c, h, m)
               /\ Failures(c', h, m) = Failures(c, h, m)
               /\ c'.ds[h][m].init = IF h = g THEN 0 ELSE c.ds[h][m].init
    BY <1>1, <2>2 DEF Slots, Keeps, Undriven
  <2>6. Typed'
    BY <2>1 DEF IndInv, Typed
  <2>7. Beside(g)
    BY <2>1, <2>3 DEF Beside
  <2>8. Aside(g)
    BY <2>5 DEF Aside
  <2>9. Counted(g)'
    BY <2>3, <2>5 DEF Counted
  <2>10. ASSUME NEW m \in Node PROVE Row(g, m)'
    <3>1. Row(g, m)
      BY DEF IndInv, GraphOK
    <3>2. UNCHANGED <<status, runIdToNode, live>>
      BY <2>1
    <3>3. Pending(c', g, m) = Pending(c, g, m) /\ Failures(c', g, m) = Failures(c, g, m)
      BY <2>5
    <3> QED
      BY <3>1, <3>2, <3>3, RowStays
  <2>11. GraphOK(g)'
    BY <2>3, <2>9, <2>10 DEF GraphOK
  <2> QED
    BY <2>4, <2>6, <2>7, <2>8, <2>11, StepOf
<1> QED
  BY <1>2, <1>3

\* A graph is killed: nothing of it is tracked any more, and what was has ended.
LEMMA KilledInd ==
  ASSUME IndInv, NEW g \in Graph, Killed(g), phase[g] # "absent", WellFormed(phase, c'),
         UNCHANGED <<phase, inits, graphTimer>>,
         NEW k, Kills(c, k, g), Undriven(k, c', g)
  PROVE  IndInv'
<1>1. /\ status' = [status EXCEPT ![g] = KilledStatus(g)]
      /\ runIdToNode' = [runIdToNode EXCEPT ![g] = {}]
      /\ live' = [live EXCEPT ![g] = [n \in Node |-> 0]]
      /\ runningCount' = [runningCount EXCEPT ![g] = 0]
  BY DEF Killed
<1>2. ASSUME NEW h \in Graph, NEW m \in Node
      PROVE  /\ h # g \/ m \notin runIdToNode[g] => Pending(c', h, m) = Pending(c, h, m)
             /\ Failures(c', h, m) = Failures(c, h, m)
             /\ c'.ds[h][m].init = IF h = g THEN 0 ELSE c.ds[h][m].init
  BY DEF Kills, Undriven
<1>3. status \in [Graph -> Statuses] /\ status[g] \in Statuses
  BY DEF IndInv, Typed, Statuses
<1>4. /\ KilledStatus(g) \in Statuses
      /\ \A m \in Node :
            /\ status[g][m] \in {"pending", "ready"} => KilledStatus(g)[m] = "skipped"
            /\ status[g][m] = "running" /\ m \in runIdToNode[g] => KilledStatus(g)[m] \in Ended
            /\ \/ KilledStatus(g)[m] \in Ended
               \/ KilledStatus(g)[m] = status[g][m]
  BY <1>3 DEF KilledStatus, Statuses, NodeStatus, Ended
<1>5. Typed'
  BY <1>1, <1>4 DEF IndInv, Typed, Statuses
<1>6. Beside(g)
  BY <1>1 DEF Beside, IndInv, Typed
<1>7. Aside(g)
  BY <1>2 DEF Aside
<1>8. /\ status'[g] = KilledStatus(g) /\ runIdToNode'[g] = {} /\ runningCount'[g] = 0
      /\ \A m \in Node : live'[g][m] = 0
  BY <1>1 DEF IndInv, Typed
<1>9. Counted(g)'
  <2>1. DriverNodes(g)' = {}
    BY <1>2 DEF DriverNodes
  <2>2. Cardinality(runIdToNode'[g]) + Cardinality(DriverNodes(g)') = 0
    BY <1>8, <2>1, FS_EmptySet
  <2> QED
    BY <1>2, <1>8, <2>2 DEF Counted
<1>10. ASSUME NEW m \in Node PROVE Row(g, m)'
  <2>1. Row(g, m) /\ status[g][m] \in NodeStatus
    BY <1>3 DEF IndInv, GraphOK, Statuses
  <2>2. m \notin runIdToNode'[g] /\ live'[g][m] = 0
    BY <1>8
  <2>3. CASE m \in runIdToNode[g]
    <3>1. status'[g][m] \in Ended
      BY <1>4, <1>8, <2>1, <2>3 DEF Row
    <3> QED
      BY <2>2, <3>1, RowFree
  <2>4. CASE m \notin runIdToNode[g] /\ (<<g, m>> \in Driver \/ status'[g][m] \in Ended)
    BY <2>2, <2>4, RowFree
  <2>5. CASE m \notin runIdToNode[g] /\ <<g, m>> \notin Driver /\ status'[g][m] \notin Ended
    <3>1. status'[g][m] = status[g][m]
      BY <1>4, <1>8, <2>5
    <3>2. Pending(c', g, m) = Pending(c, g, m) /\ Failures(c', g, m) = Failures(c, g, m)
      BY <1>2, <2>5
    <3>3. live'[g][m] = live[g][m] /\ (m \in runIdToNode'[g] <=> m \in runIdToNode[g])
      BY <2>1, <2>2, <2>5 DEF Row
    <3> QED
      BY <2>1, <3>1, <3>2, <3>3, RowStays
  <2> QED
    BY <2>3, <2>4, <2>5
<1>11. GraphOK(g)'
  BY <1>9, <1>10 DEF GraphOK
<1> QED
  BY <1>5, <1>6, <1>7, <1>11, StepOf

\* A spent budget or a timeout.
LEMMA ExpireInd == ASSUME IndInv, NEW g \in Graph, Expire(g) PROVE IndInv'
<1> DEFINE k1 == KillTracked(Popped(g), g)
           k2 == KillDriven(k1, g)
<1>1. phase[g] # "absent" /\ Slots(phase, c, Popped(g))
  BY HeadIs, PoppedQuiet DEF Expire, IndInv
<1>2. /\ Killed(g) /\ UNCHANGED <<phase, inits, graphTimer>>
      /\ c' = Persist(k2, g, KilledStatus(g), <<>>)
  BY DEF Expire, timers, history
<1>3. WellFormed(phase, k1) /\ Kills(Popped(g), k1, g)
  BY <1>1, KillTrackedIs DEF Slots
<1> HIDE DEF k1
<1>4. WellFormed(phase, k2) /\ Undriven(k1, k2, g)
  BY <1>3, KillDrivenIs
<1> HIDE DEF k2
<1>5. Slots(phase, k2, c')
  BY <1>2, <1>4, PersistNone
<1>6. Kills(c, k1, g)
  BY <1>1, <1>3 DEF Kills, Slots, Keeps
<1>7. Undriven(k1, c', g)
  BY <1>4, <1>5 DEF Undriven, Slots, Keeps
<1>8. WellFormed(phase, c')
  BY <1>5 DEF Slots
<1> QED
  BY <1>1, <1>2, <1>6, <1>7, <1>8, KilledInd

\* cancelGraphRun.
LEMMA CancelInd == ASSUME IndInv, NEW g \in Graph, Cancel(g) PROVE IndInv'
<1> DEFINE k0 == KillTracked(c, g)
           k1 == KillDriven(k0, g)
           q == Without(k1.spawnQueue, {g} \X Node)
           k2 == [k1 EXCEPT !.spawnQueue = q]
           k3 == NoDriversLeft(k2, g)
<1>1. phase[g] = "open" /\ WellFormed(phase, c)
  BY DEF Cancel, IndInv
<1>2. /\ Killed(g) /\ UNCHANGED <<phase, inits, graphTimer>>
      /\ c' = Append1(k3, g, Job("finish", 0, "-"))
  BY DEF Cancel, timers
<1>3. WellFormed(phase, k0) /\ Kills(c, k0, g)
  BY <1>1, KillTrackedIs
<1> HIDE DEF k0
<1>4. WellFormed(phase, k1) /\ Undriven(k0, k1, g)
  BY <1>3, KillDrivenIs
<1> HIDE DEF k1
<1>5. q \in Seq(Entries)
  BY <1>4, WithoutIs DEF WellFormed, Shared
<1> HIDE DEF q
<1>6. Slots(phase, k1, k2)
  BY <1>4, <1>5, NewQueue
<1> HIDE DEF k2
<1>7. WellFormed(phase, k3) /\ Undriven(k2, k3, g)
  BY <1>6, NoDriversLeftIs DEF Slots
<1> HIDE DEF k3
<1>8. Slots(phase, k3, c')
  BY <1>1, <1>2, <1>7, AppendQuiet
<1>9. Undriven(k0, c', g)
  BY <1>4, <1>6, <1>7, <1>8 DEF Undriven, Slots, Keeps
<1>10. WellFormed(phase, c') /\ phase[g] # "absent"
  BY <1>1, <1>8 DEF Slots
<1> QED
  BY <1>2, <1>3, <1>9, <1>10, KilledInd

\* A graph is created.
LEMMA RunInd == ASSUME IndInv, NEW g \in Graph, Run(g) PROVE IndInv'
<1> DEFINE st == [n \in Node |-> IF Deps[g][n] = {} THEN "ready" ELSE "pending"]
<1>1. /\ phase[g] = "absent" /\ phase' = [phase EXCEPT ![g] = "open"]
      /\ status' = [status EXCEPT ![g] = st] /\ graphTimer' = graphTimer \union {g}
      /\ c' = SpawnReadyNodes(c, g, st, 0)
      /\ UNCHANGED <<runIdToNode, live, runningCount, inits>>
  BY DEF Run, history
<1>2. st \in Statuses /\ \A n \in Node : st[n] \in {"ready", "pending"}
  BY DEF Statuses, NodeStatus
<1> HIDE DEF st
<1>3. phase'[g] = "open" /\ \A h \in Graph : h # g => phase'[h] = phase[h]
  BY <1>1 DEF IndInv, Typed
<1>4. WellFormed(phase', c)
  <2>1. \A h \in Graph : phase'[h] = "absent" => phase[h] = "absent"
    BY <1>3
  <2>2. WellFormed(phase, c)
    BY DEF IndInv
  <2> QED
    BY <2>1, <2>2, Created
<1>5. Slots(phase', c, c')
  <2>1. phase'[g] # "absent" /\ 0 \in Int
    BY <1>3
  <2>2. Slots(phase', c, SpawnReadyNodes(c, g, st, 0))
    BY <1>4, <2>1, SpawnReadyNodesIs
  <2> QED
    BY <1>1, <2>2
<1>6. ASSUME NEW h \in Graph, NEW m \in Node
      PROVE  /\ Pending(c', h, m) = Pending(c, h, m) /\ Failures(c', h, m) = Failures(c, h, m)
             /\ c'.ds[h][m].init = c.ds[h][m].init
  BY <1>5 DEF Slots, Keeps
<1>7. Typed'
  BY <1>1, <1>2 DEF IndInv, Typed, Statuses
<1>8. Beside(g)
  BY <1>1, <1>3 DEF Beside, IndInv, Typed
<1>9. Aside(g)
  BY <1>6 DEF Aside
<1>10. Counted(g)'
  <2>1. DriverNodes(g)' = DriverNodes(g)
    BY <1>6 DEF DriverNodes
  <2>2. StartedOnce(g)' <=> StartedOnce(g)
    BY <1>1 DEF StartedOnce
  <2>3. Counted(g) /\ phase[g] # "done"
    BY <1>1 DEF IndInv, GraphOK
  <2>4. UNCHANGED <<runIdToNode, runningCount, inits>>
    BY <1>1
  <2> QED
    BY <1>6, <2>1, <2>2, <2>3, <2>4 DEF Counted
<1>11. ASSUME NEW m \in Node PROVE Row(g, m)'
  <2>1. Row(g, m) /\ status[g][m] = "pending"
    BY <1>1 DEF IndInv, GraphOK, Absent
  <2>2. status'[g][m] \in {"ready", "pending"}
    BY <1>1, <1>2 DEF IndInv, Typed
  <2>3. UNCHANGED <<runIdToNode, live>>
    BY <1>1
  <2> QED
    BY <1>6, <2>1, <2>2, <2>3, RowStays
<1>12. GraphOK(g)'
  BY <1>3, <1>10, <1>11 DEF GraphOK
<1>13. WellFormed(phase', c')
  BY <1>5 DEF Slots
<1> QED
  BY <1>7, <1>8, <1>9, <1>12, <1>13, StepOf

\* A driver node is not tracked.
LEMMA DriverRow ==
  ASSUME IndInv, NEW g \in Graph, NEW n \in Node, <<g, n>> \in Driver
  PROVE  n \notin runIdToNode[g] /\ live[g][n] = 0
BY DEF IndInv, GraphOK, Row

\* What a driver may ask for.
LEMMA ActionsAre == \A t, a : a \in DriverActions(t) => a \in Details
BY DEF DriverActions, Details

\* startDriverNode.
LEMMA StartDriverInd == ASSUME IndInv, NEW g \in Graph, StartDriver(g) PROVE IndInv'
<1> DEFINE n == Arg(g).n
           st == [status[g] EXCEPT ![n] = IF @ = "ready" THEN "running" ELSE @]
           d == NewDriver(inits[g][n] + 1)
           k == WithDriver(Popped(g), g, n, d)
<1>1. /\ n \in Node /\ <<g, n>> \in Driver /\ phase[g] # "absent"
      /\ Slots(phase, c, Popped(g)) /\ Actionless(Popped(g).tail[g])
  <2>1. Next1(g, "driver")
    BY DEF StartDriver
  <2> QED
    BY <2>1, HeadIs, PoppedQuiet DEF IndInv
<1>2. /\ inits' = [inits EXCEPT ![g][n] = @ + 1] /\ status' = [status EXCEPT ![g] = st]
      /\ runningCount' = [runningCount EXCEPT ![g] = @ + 1]
      /\ UNCHANGED <<phase, runIdToNode, live, graphTimer>>
  BY DEF StartDriver, timers
<1>3. PICK a : a \in Details /\ c' = Persist(k, g, st, <<Job("action", n, a)>>)
  <2>1. PICK a \in DriverActions(turns[g][n]) : c' = Persist(k, g, st, <<Job("action", n, a)>>)
    BY DEF StartDriver, WithDriver
  <2> QED
    BY <2>1, ActionsAre
<1>4. status \in [Graph -> Statuses] /\ status[g] \in Statuses /\ inits \in [Graph -> [Node -> Nat]]
  BY DEF IndInv, Typed, Statuses
<1>5. st \in Statuses /\ \A m \in Node : m # n => st[m] = status[g][m]
  BY <1>1, <1>4 DEF Statuses, NodeStatus
<1>6. d \in DriverStates /\ d.init # 0
  BY <1>1, <1>4 DEF DriverStates, NewDriver
<1> HIDE DEF n, st, d
<1>7. /\ WellFormed(phase, k) /\ Redriven(Popped(g), k, g, n, d.init)
      /\ Actionless(k.tail[g])
  <2>1. WellFormed(phase, k) /\ Redriven(Popped(g), k, g, n, d.init)
    BY <1>1, <1>6, OneDriver DEF Slots
  <2>2. k.tail = Popped(g).tail
    BY <1>1 DEF Slots, WellFormed, Shared, WithDriver
  <2> QED
    BY <1>1, <2>1, <2>2
<1> DEFINE j == Job("action", n, a)
<1>8. j \in JobsOf(phase, g) /\ j.op = "action"
  BY <1>1, <1>3, NodeJob
<1> HIDE DEF j, k
<1>9. Slots(phase, k, c')
  <2>1. WellFormed(phase, c') /\ Adds(k, c', g, j)
    BY <1>3, <1>7, <1>8, PersistOne DEF j
  <2> QED
    BY <1>7, <1>8, <2>1, NeutralKeeps DEF Slots
<1>10. ASSUME NEW h \in Graph, NEW m \in Node
       PROVE  /\ Pending(c', h, m) = Pending(c, h, m) /\ Failures(c', h, m) = Failures(c, h, m)
              /\ c'.ds[h][m].init = IF h = g /\ m = n THEN d.init ELSE c.ds[h][m].init
  BY <1>1, <1>7, <1>9 DEF Slots, Keeps, Redriven
<1>11. Typed'
  BY <1>1, <1>2, <1>4, <1>5 DEF IndInv, Typed, Statuses
<1>12. Beside(g)
  BY <1>2 DEF Beside, IndInv, Typed
<1>13. Aside(g)
  BY <1>10 DEF Aside
<1>14. /\ runningCount'[g] = runningCount[g] + 1 /\ runningCount[g] \in Int
       /\ inits'[g][n] = inits[g][n] + 1 /\ inits[g][n] \in Nat
       /\ \A m \in Node : m # n => inits'[g][m] = inits[g][m]
       /\ status'[g] = st
  BY <1>1, <1>2, <1>4 DEF IndInv, Typed
<1>15. Counted(g)'
  <2> DEFINE a1 == Cardinality(runIdToNode[g])
             b1 == Cardinality(DriverNodes(g))
             b2 == Cardinality(DriverNodes(g)')
  <2>1. DriverNodes(g)' = DriverNodes(g) \cup {n}
    BY <1>1, <1>6, <1>10 DEF DriverNodes
  <2>2. a1 \in Nat /\ b1 \in Nat /\ IsFiniteSet(DriverNodes(g))
    BY Finite
  <2>3. b2 = IF n \in DriverNodes(g) THEN b1 ELSE b1 + 1
    BY <2>1, <2>2, FS_AddElement
  <2>4. /\ \A m \in Node : c.ds[g][m].init # 0 => inits[g][m] # 0
        /\ phase[g] # "done" => /\ runningCount[g] >= a1 + b1
                                /\ StartedOnce(g) => runningCount[g] = a1 + b1
    BY DEF IndInv, GraphOK, Counted
  <2>5. \A m \in Node : c'.ds[g][m].init # 0 => inits'[g][m] # 0
    BY <1>6, <1>10, <1>14, <2>4
  <2>6. StartedOnce(g)' => StartedOnce(g) /\ n \notin DriverNodes(g)
    <3> SUFFICES ASSUME StartedOnce(g)' PROVE StartedOnce(g) /\ n \notin DriverNodes(g)
      OBVIOUS
    <3>1. \A m \in Node : inits'[g][m] <= 1
      BY DEF StartedOnce
    <3>2. inits[g][n] = 0
      BY <1>1, <1>14, <3>1
    <3>3. \A m \in Node : inits[g][m] <= 1
      BY <1>14, <3>1, <3>2
    <3>4. n \notin DriverNodes(g)
      BY <1>1, <2>4, <3>2 DEF DriverNodes
    <3> QED
      BY <3>3, <3>4 DEF StartedOnce
  <2>7. phase' = phase /\ runIdToNode' = runIdToNode
    BY <1>2
  <2>8. phase[g] # "done" => /\ runningCount'[g] >= a1 + b2
                             /\ StartedOnce(g)' => runningCount'[g] = a1 + b2
    <3> HIDE DEF a1, b1, b2
    <3> QED
      BY <1>14, <2>2, <2>3, <2>4, <2>6
  <2> QED
    BY <2>5, <2>7, <2>8 DEF Counted
<1>16. ASSUME NEW m \in Node PROVE Row(g, m)'
  <2>1. UNCHANGED <<runIdToNode, live>>
    BY <1>2
  <2>2. CASE m = n
    BY <1>1, <2>1, <2>2, DriverRow, RowFree
  <2>3. CASE m # n
    <3>1. Row(g, m) /\ status'[g][m] = status[g][m]
      BY <1>5, <1>14, <2>3 DEF IndInv, GraphOK
    <3> QED
      BY <1>10, <2>1, <3>1, RowStays
  <2> QED
    BY <2>2, <2>3
<1>17. GraphOK(g)'
  BY <1>1, <1>2, <1>15, <1>16 DEF GraphOK
<1>18. WellFormed(phase', c')
  BY <1>2, <1>9 DEF Slots
<1> QED
  BY <1>11, <1>12, <1>13, <1>17, <1>18, StepOf

\* A driver node ends: its state is dropped, with a job for what is left to do.
LEMMA LeavesInd ==
  ASSUME IndInv, NEW g \in Graph, NEW n \in Node, n \in DriverNodes(g), NEW st \in Statuses,
         DriverLeaves(g, n, st),
         UNCHANGED <<phase, runIdToNode, live, inits, graphTimer>>,
         st = status[g] \/ Leaves(status[g], st, n, NodeStatus),
         NEW k, Slots(phase, c, k), NEW k2, Redriven(k, k2, g, n, 0),
         NEW j, WellFormed(phase, k2), WellFormed(phase, c'), Adds(k2, c', g, j),
         j.op \notin Runs, j.op = "failed" => j.n = n
  PROVE  IndInv'
<1>1. <<g, n>> \in Driver /\ phase[g] # "absent"
  BY DEF IndInv, WellFormed, DriverNodes
<1>2. /\ status' = [status EXCEPT ![g] = st]
      /\ runningCount' = [runningCount EXCEPT ![g] = @ - 1]
  BY DEF DriverLeaves
<1>3. \A m : Hit(j, Runs, m) = 0 /\ (m # n => Hit(j, {"failed"}, m) = 0)
  BY DEF Hit, Runs
<1>4. \A h \in Graph : \A m : Pending(k2, h, m) \in Nat /\ Failures(k2, h, m) \in Nat
  BY CountsAreNat
<1>5. ASSUME NEW h \in Graph, NEW m \in Node
      PROVE  /\ Pending(c', h, m) = Pending(c, h, m)
             /\ h # g \/ m # n => Failures(c', h, m) = Failures(c, h, m)
             /\ c'.ds[h][m].init = IF h = g /\ m = n THEN 0 ELSE c.ds[h][m].init
  <2>1. Pending(k2, h, m) = Pending(c, h, m) /\ Failures(k2, h, m) = Failures(c, h, m)
    BY DEF Slots, Keeps, Redriven
  <2>2. c'.ds[h][m].init = IF h = g /\ m = n THEN 0 ELSE c.ds[h][m].init
    BY DEF Slots, Keeps, Redriven, Adds
  <2>3. /\ Pending(c', h, m) = Pending(k2, h, m)
        /\ h # g \/ m # n => Failures(c', h, m) = Failures(k2, h, m)
    BY <1>3, <1>4 DEF Adds
  <2> QED
    BY <2>1, <2>2, <2>3
<1>6. Typed'
  BY <1>2 DEF IndInv, Typed, Statuses
<1>7. Beside(g)
  BY <1>2 DEF Beside, IndInv, Typed
<1>8. Aside(g)
  BY <1>5 DEF Aside
<1>9. Counted(g)'
  <2>1. DriverNodes(g)' = DriverNodes(g) \ {n}
    BY <1>5 DEF DriverNodes
  <2>2. /\ Cardinality(runIdToNode[g]) \in Nat /\ Cardinality(DriverNodes(g)) \in Nat
        /\ IsFiniteSet(DriverNodes(g))
    BY Finite
  <2>3. Cardinality(DriverNodes(g)') = Cardinality(DriverNodes(g)) - 1
    BY <2>1, <2>2, FS_RemoveElement
  <2>4. runningCount'[g] = runningCount[g] - 1 /\ runningCount[g] \in Int
    BY <1>2 DEF IndInv, Typed
  <2>5. runningCount'[g] = runningCount[g] + (-1) /\ -1 \in Int
    BY <2>4
  <2>6. Cardinality(runIdToNode'[g]) + Cardinality(DriverNodes(g)') =
           Cardinality(runIdToNode[g]) + Cardinality(DriverNodes(g)) + (-1)
    BY <2>2, <2>3
  <2>7. \A m \in Node : c'.ds[g][m].init # 0 => c.ds[g][m].init # 0
    BY <1>5
  <2>8. phase'[g] = phase[g] /\ inits'[g] = inits[g]
    OBVIOUS
  <2> QED
    BY <2>5, <2>6, <2>7, <2>8, CountFollows
<1>10. ASSUME NEW m \in Node PROVE Row(g, m)'
  <2>1. CASE m = n
    BY <1>1, <2>1, DriverRow, RowFree
  <2>2. CASE m # n
    <3>1. Row(g, m) /\ status'[g] = st
      BY <1>2 DEF IndInv, GraphOK, Typed
    <3>2. \/ status'[g][m] = status[g][m]
          \/ status[g][m] \in {"pending", "ready"} /\ status'[g][m] \in {"ready", "skipped"}
      BY <2>2, <3>1 DEF Leaves
    <3> QED
      BY <1>5, <2>2, <3>1, <3>2, RowStays
  <2> QED
    BY <2>1, <2>2
<1>11. GraphOK(g)'
  BY <1>1, <1>9, <1>10 DEF GraphOK
<1> QED
  BY <1>6, <1>7, <1>8, <1>11, StepOf

\* The node has no state any more, and its failure is still to be handled.
LEMMA LeavesFailing ==
  ASSUME IndInv, NEW g \in Graph, NEW n \in Node, n \in DriverNodes(g),
         DriverLeaves(g, n, status[g]), NEW k, Slots(phase, c, k),
         c' = Append1(NoDriver1(k, g, n), g, Job("failed", n, "-")),
         UNCHANGED <<phase, runIdToNode, live, inits, graphTimer>>
  PROVE  IndInv'
<1> DEFINE j == Job("failed", n, "-")
           k2 == NoDriver1(k, g, n)
<1>1. phase[g] # "absent" /\ status[g] \in Statuses /\ "-" \in Details
  BY DEF IndInv, WellFormed, DriverNodes, Typed, Statuses, Details
<1>2. j \in JobsOf(phase, g) /\ j.op = "failed" /\ j.n = n
  BY <1>1, NodeJob
<1>3. WellFormed(phase, k2) /\ Redriven(k, k2, g, n, 0)
  BY NoDriver1Is DEF Slots
<1> HIDE DEF j, k2
<1>4. WellFormed(phase, Append1(k2, g, j)) /\ Adds(k2, Append1(k2, g, j), g, j)
  BY <1>2, <1>3, Append1Is
<1>5. c' = Append1(k2, g, j)
  BY DEF j, k2
<1>6. WellFormed(phase, c') /\ Adds(k2, c', g, j)
  BY <1>4, <1>5
<1>7. j.op \notin Runs
  BY <1>2 DEF Runs
<1> QED
  BY <1>1, <1>2, <1>3, <1>6, <1>7, LeavesInd

\* The node has no state any more, and a job that stands for no run and no
\* failure joins the tail.
LEMMA LeavesQuietly ==
  ASSUME IndInv, NEW g \in Graph, NEW n \in Node, n \in DriverNodes(g), NEW st \in Statuses,
         DriverLeaves(g, n, st), st = status[g] \/ Leaves(status[g], st, n, NodeStatus),
         NEW k, Slots(phase, c, k), NEW k2, WellFormed(phase, k2), Redriven(k, k2, g, n, 0),
         NEW op \in {"ready", "finish", "expire"}, NEW i \in Nat,
         c' = Append1(k2, g, Job(op, i, "-")),
         UNCHANGED <<phase, runIdToNode, live, inits, graphTimer>>
  PROVE  IndInv'
<1> DEFINE j == Job(op, i, "-")
<1>1. phase[g] # "absent"
  BY DEF IndInv, WellFormed, DriverNodes
<1>2. j \in JobsOf(phase, g) /\ j.op = op
  BY <1>1, AppendQuiet
<1> HIDE DEF j
<1>3. WellFormed(phase, Append1(k2, g, j)) /\ Adds(k2, Append1(k2, g, j), g, j)
  BY <1>2, Append1Is
<1>4. c' = Append1(k2, g, j)
  BY DEF j
<1>5. WellFormed(phase, c') /\ Adds(k2, c', g, j)
  BY <1>3, <1>4
<1>6. j.op \notin Runs /\ j.op # "failed"
  BY <1>2 DEF Runs
<1> QED
  BY <1>2, <1>5, <1>6, LeavesInd

\* The same for the job of Settled.
LEMMA LeavesSettled ==
  ASSUME IndInv, NEW g \in Graph, NEW n \in Node, n \in DriverNodes(g), NEW st \in Statuses,
         DriverLeaves(g, n, st), st = status[g] \/ Leaves(status[g], st, n, NodeStatus),
         NEW k, Slots(phase, c, k), NEW k2, WellFormed(phase, k2), Redriven(k, k2, g, n, 0),
         c' = Settled(k2, g, st),
         UNCHANGED <<phase, runIdToNode, live, inits, graphTimer>>
  PROVE  IndInv'
<1>1. \/ c' = Append1(k2, g, Job("finish", 0, "-"))
      \/ c' = Append1(k2, g, Job("ready", 1, "-"))
  BY DEF Settled
<1>2. CASE c' = Append1(k2, g, Job("finish", 0, "-"))
  BY <1>2, LeavesQuietly
<1>3. CASE c' = Append1(k2, g, Job("ready", 1, "-"))
  BY <1>3, LeavesQuietly
<1> QED
  BY <1>1, <1>2, <1>3

\* What a driver node that completes does to its graph.
LEMMA DriverCompletes ==
  ASSUME IndInv, NEW g \in Graph, NEW n \in Node
  PROVE  /\ Completed(g, n) \in Statuses /\ Failed(g, n, "fail") \in Statuses
         /\ \/ Completed(g, n) = status[g]
            \/ Leaves(status[g], Completed(g, n), n, NodeStatus)
         /\ \/ Failed(g, n, "fail") = status[g]
            \/ Leaves(status[g], Failed(g, n, "fail"), n, NodeStatus)
<1>1. status[g] \in Statuses
  BY DEF IndInv, Typed, Statuses
<1>2. /\ Completed(g, n) = status[g] \/ Leaves(status[g], Completed(g, n), n, {"completed"})
      /\ \/ Failed(g, n, "fail") = status[g]
         \/ Leaves(status[g], Failed(g, n, "fail"), n, {"ready", "failed"})
  BY <1>1, CompletedIs, FailedIs
<1> QED
  BY <1>1, <1>2 DEF Leaves, NodeStatus

\* It keeps its output.
LEMMA LeavesCompleted ==
  ASSUME IndInv, NEW g \in Graph, NEW n \in Node, n \in DriverNodes(g),
         DriverLeaves(g, n, Completed(g, n)), NEW k, Slots(phase, c, k),
         c' = Settled(NoDriver1(k, g, n), g, Completed(g, n)),
         UNCHANGED <<phase, runIdToNode, live, inits, graphTimer>>
  PROVE  IndInv'
<1> DEFINE st == Completed(g, n)
           k2 == NoDriver1(k, g, n)
<1>1. st \in Statuses /\ (st = status[g] \/ Leaves(status[g], st, n, NodeStatus))
  BY DriverCompletes
<1>2. WellFormed(phase, k2) /\ Redriven(k, k2, g, n, 0)
  BY NoDriver1Is DEF Slots
<1>3. DriverLeaves(g, n, st) /\ c' = Settled(k2, g, st)
  OBVIOUS
<1> HIDE DEF st, k2
<1> QED
  BY <1>1, <1>2, <1>3, LeavesSettled

\* The three edits of a driver state: a parallel round starts, a round is over,
\* a round goes on with v runs.
ParRound(k, g, n) ==
    WithDriver(k, g, n, DriverState(k.ds[g][n].init, "par", 0, k.ds[g][n].crossed))
OverRound(k, g, n, b) == WithDriver(k, g, n, DriverState(k.ds[g][n].init, "turn", 0, b))
KeptRound(k, g, n, v, b) ==
    WithDriver(k, g, n, DriverState(k.ds[g][n].init, k.ds[g][n].mode, v, b))

\* What they put for a driver state is one.
LEMMA ParEdited ==
  ASSUME NEW s \in DriverStates
  PROVE  DriverState(s.init, "par", 0, s.crossed) \in DriverStates
BY DEF DriverStates, DriverState

LEMMA DriverEdited ==
  ASSUME NEW s \in DriverStates, NEW v \in Int, NEW b \in BOOLEAN
  PROVE  /\ DriverState(s.init, "turn", 0, b) \in DriverStates
         /\ DriverState(s.init, s.mode, v, b) \in DriverStates
BY DEF DriverStates, DriverState

\* executeDriverAction.
LEMMA ExecInd ==
  ASSUME IndInv, NEW g \in Graph, NEW n \in Node, n \in DriverNodes(g),
         NEW k, Slots(phase, c, k), NEW a, ExecuteDriverAction(k, g, n, a),
         UNCHANGED <<phase, runIdToNode, live, inits, graphTimer>>
  PROVE  IndInv'
<1> DEFINE e(kind) == Entry(g, n, kind, k.ds[g][n].init)
           w == ParRound(k, g, n)
           d == DriverState(k.ds[g][n].init, "par", 0, k.ds[g][n].crossed)
<1>1. \/ /\ c' = GatedSpawn(k, e("turn")) \/ c' = FanOut(w, e("par"), Fan)
         /\ UNCHANGED <<status, runningCount>>
      \/ DriverLeaves(g, n, Completed(g, n)) /\ c' = Settled(NoDriver1(k, g, n), g, Completed(g, n))
      \/ DriverLeaves(g, n, status[g]) /\ c' = Append1(NoDriver1(k, g, n), g, Job("failed", n, "-"))
  BY DEF ExecuteDriverAction, FanOut, ParRound, WithDriver
<1>2. WellFormed(phase, k) /\ k.ds[g][n] \in DriverStates
  BY DEF Slots, WellFormed, Shared
<1>3. e("turn") \in Entries /\ e("par") \in Entries
  <2>1. k.ds[g][n].init # 0 /\ k.ds[g][n].init \in Nat
    BY <1>2 DEF Slots, Keeps, DriverNodes, DriverStates
  <2>2. <<g, n>> \in Driver
    BY <1>2, <2>1 DEF WellFormed
  <2> QED
    BY <2>1, <2>2 DEF Entry, Entries
<1>4. w = WithDriver(k, g, n, d) /\ d \in DriverStates /\ d.init = k.ds[g][n].init
  <2>1. d \in DriverStates
    BY <1>2, ParEdited
  <2> QED
    BY <2>1 DEF ParRound, DriverState
<1>5. Fan \in Nat
  BY CoordinatorAssumption
<1> DEFINE e1 == e("turn")
           e2 == e("par")
<1> HIDE DEF d
<1>6. Slots(phase, k, w)
  <2>1. Slots(phase, k, WithDriver(k, g, n, d))
    BY <1>2, <1>4, NewWait
  <2> QED
    BY <1>4, <2>1
<1>7. Slots(phase, c, GatedSpawn(k, e1)) /\ Slots(phase, c, FanOut(w, e2, Fan))
  <2> HIDE DEF e1, e2, w
  <2>1. e1 \in Entries /\ e2 \in Entries
    BY <1>3 DEF e1, e2
  <2>2. Slots(phase, k, GatedSpawn(k, e1))
    BY <1>2, <2>1, GatedSpawnIs
  <2>3. Slots(phase, w, FanOut(w, e2, Fan))
    BY <1>5, <1>6, <2>1, FanOutIs DEF Slots
  <2> QED
    BY <1>6, <2>2, <2>3, SlotsSlots
<1> HIDE DEF w
<1>8. CASE /\ c' = GatedSpawn(k, e("turn")) \/ c' = FanOut(w, e("par"), Fan)
           /\ UNCHANGED <<status, runningCount>>
  <2>1. Slots(phase, c, c')
    BY <1>7, <1>8
  <2> QED
    BY <1>8, <2>1, QuietInd
<1>9. CASE /\ DriverLeaves(g, n, Completed(g, n))
           /\ c' = Settled(NoDriver1(k, g, n), g, Completed(g, n))
  BY <1>9, LeavesCompleted
<1>10. CASE /\ DriverLeaves(g, n, status[g])
            /\ c' = Append1(NoDriver1(k, g, n), g, Job("failed", n, "-"))
  BY <1>10, LeavesFailing
<1> QED
  BY <1>1, <1>8, <1>9, <1>10

\* The first action of a driver.
LEMMA DriverActionInd == ASSUME IndInv, NEW g \in Graph, DriverAction(g) PROVE IndInv'
<1> DEFINE n == Arg(g).n
           x == Arg(g).x
<1>1. WellFormed(phase, c) /\ Next1(g, "action")
  BY DEF IndInv, DriverAction
<1>2. Arg(g) \in JobsOf(phase, g) /\ Arg(g).op = "action" /\ Slots(phase, c, Popped(g))
  BY <1>1, PoppedQuiet
<1>3. n \in Node
  BY <1>2 DEF JobsOf
<1>4. UNCHANGED <<phase, runIdToNode, live, inits, graphTimer>>
  BY DEF DriverAction, timers
<1>5. CASE n \in DriverNodes(g)
  <2>1. ExecuteDriverAction(Popped(g), g, n, x)
    BY <1>5 DEF DriverAction
  <2> HIDE DEF n, x
  <2> QED
    BY <1>2, <1>3, <1>4, <1>5, <2>1, ExecInd
<1>6. CASE n \notin DriverNodes(g)
  <2>1. c' = Popped(g) /\ UNCHANGED <<status, runningCount>>
    BY <1>6 DEF DriverAction
  <2> QED
    BY <1>2, <1>4, <2>1, QuietInd
<1> QED
  BY <1>5, <1>6

\* The runs of a driver are not seen by the invariant.
LEMMA NewRuns ==
  ASSUME NEW ph, NEW k, WellFormed(ph, k), NEW g \in Graph, NEW n \in Node, NEW v \in Int
  PROVE  Slots(ph, k, WithRuns(k, g, n, v))
<1> DEFINE k2 == WithRuns(k, g, n, v)
<1>1. k2 \in Shared /\ k2.tail = k.tail /\ k2.ds = k.ds
  BY DEF WellFormed, Shared, WithRuns
<1> HIDE DEF k2
<1>2. WellFormed(ph, k2) /\ Keeps(k, k2)
  BY <1>1, OtherFields
<1> QED
  BY <1>2 DEF Slots, k2

\* handleDriverTurnCompleted.
LEMMA TurnInd ==
  ASSUME IndInv, NEW g \in Graph, NEW n \in Node, n \in DriverNodes(g), NEW own \in BOOLEAN,
         NEW k, Slots(phase, c, k), DriverTurnCompleted(k, g, n, own),
         UNCHANGED <<phase, runIdToNode, live, inits, graphTimer>>
  PROVE  IndInv'
<1> DEFINE s == k.ds[g][n]
           left == IF s.mode = "par" THEN s.known - (IF own THEN 1 ELSE 0) ELSE 0
           b == s.crossed \/ ~own
           kept == KeptRound(k, g, n, left, b)
           over == OverRound(k, g, n, b)
<1>1. \/ (c' = kept \/ c' = over) /\ UNCHANGED <<status, runningCount>>
      \/ \E a : ExecuteDriverAction(over, g, n, a)
      \/ DriverLeaves(g, n, status[g]) /\ c' = Append1(NoDriver1(k, g, n), g, Job("expire", 0, "-"))
      \/ DriverLeaves(g, n, status[g]) /\ c' = Append1(NoDriver1(k, g, n), g, Job("failed", n, "-"))
      \/ DriverLeaves(g, n, Completed(g, n)) /\ c' = Settled(NoDriver1(k, g, n), g, Completed(g, n))
  BY DEF DriverTurnCompleted, KeptRound, OverRound, WithDriver
<1>2. WellFormed(phase, k) /\ k \in Shared /\ s \in DriverStates
  BY DEF Slots, WellFormed, Shared
<1>3. left \in Int /\ b \in BOOLEAN
  BY <1>2 DEF DriverStates
<1> HIDE DEF left, b
<1>4. Slots(phase, c, kept) /\ Slots(phase, c, over)
  <2> DEFINE vd == DriverState(s.init, s.mode, left, b)
             od == DriverState(s.init, "turn", 0, b)
  <2>1. /\ kept = WithDriver(k, g, n, vd) /\ vd \in DriverStates
        /\ over = WithDriver(k, g, n, od) /\ od \in DriverStates
    BY <1>2, <1>3, DriverEdited DEF KeptRound, OverRound
  <2>2. vd.init = k.ds[g][n].init /\ od.init = k.ds[g][n].init
    BY DEF DriverState
  <2> HIDE DEF vd, od
  <2>3. Slots(phase, k, WithDriver(k, g, n, vd)) /\ Slots(phase, k, WithDriver(k, g, n, od))
    BY <1>2, <2>1, <2>2, NewWait
  <2> QED
    BY <2>1, <2>3, SlotsSlots
<1> HIDE DEF kept, over, s
<1>6. CASE (c' = kept \/ c' = over) /\ UNCHANGED <<status, runningCount>>
  <2>1. Slots(phase, c, c')
    BY <1>4, <1>6
  <2> QED
    BY <1>6, <2>1, QuietInd
<1>7. CASE \E a : ExecuteDriverAction(over, g, n, a)
  BY <1>4, <1>7, ExecInd
<1>8. CASE /\ DriverLeaves(g, n, status[g])
           /\ c' = Append1(NoDriver1(k, g, n), g, Job("expire", 0, "-"))
  <2>1. status[g] \in Statuses
    BY DEF IndInv, Typed, Statuses
  <2>2. WellFormed(phase, NoDriver1(k, g, n)) /\ Redriven(k, NoDriver1(k, g, n), g, n, 0)
    BY <1>2, NoDriver1Is
  <2> QED
    BY <1>8, <2>1, <2>2, LeavesQuietly
<1>9. CASE /\ DriverLeaves(g, n, status[g])
           /\ c' = Append1(NoDriver1(k, g, n), g, Job("failed", n, "-"))
  BY <1>9, LeavesFailing
<1>10. CASE /\ DriverLeaves(g, n, Completed(g, n))
            /\ c' = Settled(NoDriver1(k, g, n), g, Completed(g, n))
  BY <1>10, LeavesCompleted
<1> QED
  BY <1>1, <1>6, <1>7, <1>8, <1>9, <1>10

\* A run of a driver ends.
LEMMA DriverRunEndsInd ==
  ASSUME IndInv, NEW g \in Graph, NEW n \in Node, NEW own \in BOOLEAN, DriverRunEnds(g, n, own)
  PROVE  IndInv'
<1> DEFINE k0 == WithRuns(c, g, n, c.runs[g][n] - 1)
           k == ReleaseAndDrainQueue(k0)
<1>1. /\ \/ n \in DriverNodes(g) /\ DriverTurnCompleted(k, g, n, own)
         \/ c' = k /\ UNCHANGED <<status, runningCount>>
      /\ UNCHANGED <<phase, runIdToNode, live, inits, graphTimer>>
  BY DEF DriverRunEnds, WithRuns, timers
<1>2. WellFormed(phase, c) /\ c.runs[g][n] - 1 \in Int
  BY DEF IndInv, WellFormed, Shared
<1>3. Slots(phase, c, k0)
  BY <1>2, NewRuns
<1> HIDE DEF k0
<1>4. Slots(phase, c, k)
  <2>1. Slots(phase, k0, k)
    BY <1>3, ReleaseIs DEF Slots
  <2> QED
    BY <1>3, <2>1, SlotsSlots
<1> HIDE DEF k
<1>5. CASE n \in DriverNodes(g) /\ DriverTurnCompleted(k, g, n, own)
  BY <1>1, <1>4, <1>5, TurnInd
<1>6. CASE c' = k /\ UNCHANGED <<status, runningCount>>
  <2>1. Slots(phase, c, c')
    BY <1>4, <1>6
  <2> QED
    BY <1>1, <1>6, <2>1, QuietInd
<1> QED
  BY <1>1, <1>5, <1>6

\* handleDriverTimeout.
LEMMA DriverTimeoutInd ==
  ASSUME IndInv, NEW g \in Graph, NEW n \in Node, DriverTimeout(g, n)
  PROVE  IndInv'
<1> DEFINE k1 == WithRuns(c, g, n, c.runs[g][n] - c.ds[g][n].known)
           k2 == WithDriver(k1, g, n, NoDriver)
           q == Without(k2.spawnQueue, {<<g, n>>})
           k3 == [k2 EXCEPT !.spawnQueue = q]
<1>1. PICK st \in {Failed(g, n, "fail"), Completed(g, n)} :
        DriverLeaves(g, n, st) /\ c' = Settled(k3, g, st)
  BY DEF DriverTimeout, WithRuns, WithDriver
<1>2. n \in DriverNodes(g) /\ UNCHANGED <<phase, runIdToNode, live, inits, graphTimer>>
  BY DEF DriverTimeout, timers
<1>3. WellFormed(phase, c) /\ c.runs[g][n] - c.ds[g][n].known \in Int
  BY DEF IndInv, WellFormed, Shared, DriverStates
<1>4. Slots(phase, c, k1)
  BY <1>3, NewRuns
<1> HIDE DEF k1
<1>5. WellFormed(phase, k2) /\ Redriven(k1, k2, g, n, 0)
  <2>1. k2 = NoDriver1(k1, g, n)
    BY DEF NoDriver1, WithDriver
  <2> HIDE DEF k2
  <2> QED
    BY <1>4, <2>1, NoDriver1Is DEF Slots
<1> HIDE DEF k2
<1>6. q \in Seq(Entries)
  BY <1>5, WithoutIs DEF WellFormed, Shared
<1> HIDE DEF q
<1>7. Slots(phase, k2, k3)
  BY <1>5, <1>6, NewQueue
<1> HIDE DEF k3
<1>8. WellFormed(phase, k3) /\ Redriven(k1, k3, g, n, 0)
  BY <1>5, <1>7 DEF Slots, Keeps, Redriven
<1>9. st \in Statuses /\ (st = status[g] \/ Leaves(status[g], st, n, NodeStatus))
  BY <1>1, DriverCompletes
<1> QED
  BY <1>1, <1>2, <1>4, <1>8, <1>9, LeavesSettled

-----------------------------------------------------------------------------
(* The theorems.                                                           *)

\* Nothing is counted in an empty tail.
LEMMA CountEmpty == \A ops, n : Count(<<>>, ops, n) = 0
<1> SUFFICES ASSUME NEW ops, NEW n PROVE Count(<<>>, ops, n) = 0
  OBVIOUS
<1>1. {i \in 1 .. Len(<<>>) : <<>>[i].op \in ops /\ <<>>[i].n = n} = {}
  OBVIOUS
<1> QED
  BY <1>1, FS_EmptySet DEF Count

\* The initial state.
LEMMA InitInd == ASSUME Init PROVE IndInv
<1>1. /\ c.tail = [g \in Graph |-> <<>>] /\ c.spawnQueue = <<>> /\ c.globalActiveSubAgents = 0
      /\ c.ds = [g \in Graph |-> [n \in Node |-> NoDriver]]
  BY DEF Init
<1>2. NoDriver \in DriverStates /\ NoDriver.init = 0
  BY DEF NoDriver, DriverStates
<1>3. Typed
  BY DEF Init, Typed, NodeStatus
<1>4. c \in Shared
  <2>1. /\ c.tail \in [Graph -> Seq(Job3)] /\ c.spawnQueue \in Seq(Entries)
        /\ c.ds \in [Graph -> [Node -> DriverStates]]
    BY <1>1, <1>2
  <2>2. c = [globalActiveSubAgents |-> 0, spawnQueue |-> c.spawnQueue, tail |-> c.tail,
             stagger |-> [g \in Graph |-> [n \in Node |-> 0]], ds |-> c.ds,
             runs |-> [g \in Graph |-> [n \in Node |-> 0]]]
    BY DEF Init
  <2>3. [g \in Graph |-> [n \in Node |-> 0]] \in [Graph -> [Node -> Int]]
    OBVIOUS
  <2> QED
    BY <2>1, <2>2, <2>3 DEF Shared
<1>5. ASSUME NEW g \in Graph, NEW n \in Node
      PROVE  c.ds[g][n].init = 0 /\ Pending(c, g, n) = 0 /\ Failures(c, g, n) = 0
  <2>1. c.tail[g] = <<>> /\ c.ds[g][n].init = 0
    BY <1>1, <1>2
  <2> QED
    BY <2>1, CountEmpty DEF Pending, Failures
<1>6. WellFormed(phase, c)
  <2>1. \A g \in Graph : c.tail[g] = <<>> /\ <<>> \in Seq(JobsOf(phase, g))
    BY <1>1
  <2>2. Fronted(<<>>)
    BY DEF Fronted
  <2> QED
    BY <1>4, <1>5, <2>1, <2>2 DEF WellFormed
<1>7. ASSUME NEW g \in Graph PROVE GraphOK(g)
  <2>1. DriverNodes(g) = {} /\ runIdToNode[g] = {}
    BY <1>5 DEF DriverNodes, Init
  <2>2. Cardinality({}) = 0
    BY FS_EmptySet
  <2>3. Counted(g)
    BY <1>5, <2>1, <2>2 DEF Counted, Init
  <2>4. \A n \in Node : Row(g, n)
    BY <1>5, <2>1 DEF Row, Init
  <2>5. Absent(g)
    BY DEF Absent, Init
  <2> QED
    BY <2>3, <2>4, <2>5 DEF GraphOK
<1> QED
  BY <1>3, <1>6, <1>7 DEF IndInv

\* Every action of the coordinator.
LEMMA NextInd == ASSUME IndInv, Next PROVE IndInv'
<1> PICK g \in Graph :
      \/ Run(g) \/ TailStep(g) \/ GraphTimeout(g) \/ Cancel(g) \/ UntrackedEnds(g)
      \/ \E n \in Node : \/ RunStep(g, n) \/ StaggerTimer(g, n) \/ RetryTimer(g, n)
                         \/ DriverTimeout(g, n)
  BY DEF Next
<1>1. CASE Run(g)
  BY <1>1, RunInd
<1>2. CASE TailStep(g)
  BY <1>2, AdmitInd, StartInd, StartRejectedInd, CompletedInd, ReadyPassInd, FailedInd, FinishInd,
     ExpireInd, StartDriverInd, DriverActionInd DEF TailStep
<1>3. CASE GraphTimeout(g)
  BY <1>3, TimeoutInd
<1>4. CASE Cancel(g)
  BY <1>4, CancelInd
<1>5. CASE UntrackedEnds(g)
  BY <1>5, UntrackedInd
<1>6. ASSUME NEW n \in Node, RunStep(g, n) PROVE IndInv'
  BY <1>6, RunEndsInd, DriverRunEndsInd DEF RunStep
<1>7. ASSUME NEW n \in Node, StaggerTimer(g, n) \/ RetryTimer(g, n) \/ DriverTimeout(g, n)
      PROVE  IndInv'
  BY <1>7, StaggerInd, RetryInd, DriverTimeoutInd
<1> QED
  BY <1>1, <1>2, <1>3, <1>4, <1>5, <1>6, <1>7

\* The invariant holds of every behaviour: the rows of all nodes, the counts of
\* all graphs and the form of tails, queue and driver states, whatever order the
\* jobs, timers, ends of runs, cancels and timeouts come in.
THEOREM Invariance == Spec => []IndInv
<1>1. Init => IndInv
  BY InitInd
<1>2. IndInv /\ [Next]_vars => IndInv'
  <2>1. ASSUME IndInv, UNCHANGED vars PROVE IndInv'
    <3>1. UNCHANGED <<phase, status, runIdToNode, live, runningCount, inits, graphTimer, c>>
      BY <2>1 DEF vars
    <3>2. Slots(phase, c, c')
      BY <2>1, <3>1, SlotsSame DEF IndInv
    <3> QED
      BY <2>1, <3>1, <3>2, QuietInd
  <2> QED
    BY <2>1, NextInd
<1> QED
  BY <1>1, <1>2, PTL DEF Spec

\* Behind every entry of runIdToNode there is one run that is about to start, at
\* work, or ended with its completion still in the tail: no cancel, timeout,
\* refused start or drain of the queue loses one or handles one twice.
THEOREM TrackedAlive == Spec => []TrackedIsAlive
<1>1. IndInv => TrackedIsAlive
  <2> SUFFICES ASSUME IndInv, NEW g \in Graph, NEW n \in Node, n \in runIdToNode[g]
               PROVE  live[g][n] + Cardinality(Jobs(g, {"start", "completed"}, n)) = 1
    BY DEF TrackedIsAlive
  <2>1. Row(g, n)
    BY DEF IndInv, GraphOK
  <2>2. Cardinality(Jobs(g, {"start", "completed"}, n)) = Pending(c, g, n)
    BY DEF Jobs, Pending, Count
  <2> QED
    BY <2>1, <2>2 DEF Row
<1> QED
  BY <1>1, Invariance, PTL

\* runningCount never misses a tracked run or a driver node of a graph that goes
\* on, and is exact as long as no driver of it was initialised twice: the limit
\* spawnReadyNodes computes from it is never too generous.
THEOREM CountsExact == Spec => []RunningCountExact
<1>1. IndInv => RunningCountExact
  BY DEF IndInv, GraphOK, Counted, RunningCountExact
<1> QED
  BY <1>1, Invariance, PTL

-----------------------------------------------------------------------------
(* Graphs that have ended.                                                 *)

AllEnded(g) == \A n \in Node : status[g][n] \in Ended

\* isTerminal, said of the node states.
LEMMA TerminalIs == ASSUME NEW g PROVE Terminal(g) <=> AllEnded(g)
BY DEF Terminal, AllEnded, Ended, SM!IsTerminal, SM!Terminal, SM!Node, Node

\* A step gives g the status st, which is the old one if g has ended.
Gives(g, st) == status' = [status EXCEPT ![g] = st] /\ (AllEnded(g) => st = status[g])

\* Such a step changes no graph that has ended.
LEMMA GivesEnded ==
  ASSUME IndInv, NEW g \in Graph, NEW st, Gives(g, st), NEW h \in Graph, AllEnded(h)
  PROVE  status'[h] = status[h]
BY DEF Gives, IndInv, Typed

\* A node that has ended neither fails nor completes.
LEMMA EndedNode ==
  ASSUME NEW g, NEW n \in Node, AllEnded(g), NEW x
  PROVE  Failed(g, n, x) = status[g] /\ Completed(g, n) = status[g]
BY DEF AllEnded, Ended, Failed, Completed

\* A driver node that ends.
LEMMA LeavesEnded ==
  ASSUME NEW g \in Graph, NEW n \in Node, NEW st, DriverLeaves(g, n, st),
         st \in {status[g], Completed(g, n), Failed(g, n, "fail")}
  PROVE  Gives(g, st)
BY EndedNode DEF DriverLeaves, Gives

\* A driver's action.
LEMMA ExecEnded ==
  ASSUME NEW g \in Graph, NEW n \in Node, NEW k, NEW a, ExecuteDriverAction(k, g, n, a)
  PROVE  status' = status \/ \E st : Gives(g, st)
<1>1. status' = status \/ DriverLeaves(g, n, Completed(g, n)) \/ DriverLeaves(g, n, status[g])
  BY DEF ExecuteDriverAction
<1> QED
  BY <1>1, LeavesEnded

\* A kill skips and fails only what has not ended.
LEMMA KilledEnded == ASSUME IndInv, NEW g \in Graph, Killed(g) PROVE Gives(g, KilledStatus(g))
<1>1. status' = [status EXCEPT ![g] = KilledStatus(g)]
  BY DEF Killed
<1>2. ASSUME AllEnded(g) PROVE KilledStatus(g) = status[g]
  <2>1. status[g] \in Statuses
    BY DEF IndInv, Typed, Statuses
  <2>2. KilledStatus(g) = [n \in Node |-> status[g][n]]
    BY <1>2 DEF KilledStatus, AllEnded, Ended
  <2> QED
    BY <2>1, <2>2 DEF Statuses
<1> QED
  BY <1>1, <1>2 DEF Gives

\* The jobs of a tail.
LEMMA TailEnded ==
  ASSUME IndInv, NEW g \in Graph, TailStep(g)
  PROVE  status' = status \/ \E st : Gives(g, st)
<1> DEFINE n == Arg(g).n
<1>0. /\ status[g] \in Statuses
      /\ \A op \in {"admit", "completed", "failed", "driver", "action"} : Next1(g, op) => n \in Node
  BY HeadIs DEF IndInv, Typed, Statuses
<1>1. CASE Admit(g)
  <2>1. CASE status[g][n] = "ready"
    <3> DEFINE st == [status[g] EXCEPT ![n] = "running"]
    <3>1. status' = [status EXCEPT ![g] = st]
      BY <1>1, <2>1 DEF Admit
    <3>2. n \in Node
      BY <1>0, <1>1 DEF Admit
    <3>3. ~AllEnded(g)
      BY <2>1, <3>2 DEF AllEnded, Ended
    <3> QED
      BY <3>1, <3>3 DEF Gives
  <2> QED
    BY <1>1, <2>1 DEF Admit
<1>2. CASE Start(g) \/ StartRejected(g) \/ ReadyPass(g) \/ Finish(g)
  BY <1>2 DEF Start, StartRejected, ReadyPass, Finish
<1>3. CASE SubAgentCompleted(g)
  <2>1. \/ status' = status
        \/ status' = [status EXCEPT ![g] = Completed(g, n)]
        \/ status' = [status EXCEPT ![g] = Failed(g, n, Arg(g).x)]
    BY <1>3 DEF SubAgentCompleted
  <2>2. n \in Node
    BY <1>0, <1>3 DEF SubAgentCompleted
  <2> HIDE DEF n
  <2> QED
    BY <2>1, <2>2, EndedNode DEF Gives
<1>4. CASE NodeFailed(g)
  <2>1. status' = [status EXCEPT ![g] = Failed(g, n, "fail")]
    BY <1>4 DEF NodeFailed
  <2>2. n \in Node
    BY <1>0, <1>4 DEF NodeFailed
  <2> HIDE DEF n
  <2> QED
    BY <2>1, <2>2, EndedNode DEF Gives
<1>5. CASE Expire(g)
  BY <1>5, KilledEnded DEF Expire
<1>6. CASE StartDriver(g)
  <2> DEFINE st == [status[g] EXCEPT ![n] = IF @ = "ready" THEN "running" ELSE @]
  <2>1. status' = [status EXCEPT ![g] = st]
    BY <1>6 DEF StartDriver
  <2>2. n \in Node
    BY <1>0, <1>6 DEF StartDriver
  <2>3. ASSUME AllEnded(g) PROVE st = status[g]
    <3>1. status[g][n] # "ready"
      BY <2>2, <2>3 DEF AllEnded, Ended
    <3> QED
      BY <1>0, <2>2, <3>1 DEF Statuses
  <2> QED
    BY <2>1, <2>3 DEF Gives
<1>7. CASE DriverAction(g)
  <2>1. \/ status' = status
        \/ ExecuteDriverAction(Popped(g), g, n, Arg(g).x)
    BY <1>7 DEF DriverAction
  <2>2. n \in Node
    BY <1>0, <1>7 DEF DriverAction
  <2> HIDE DEF n
  <2> QED
    BY <2>1, <2>2, ExecEnded
<1> QED
  BY <1>1, <1>2, <1>3, <1>4, <1>5, <1>6, <1>7 DEF TailStep

\* Runs, timers, cancels and the creation of graphs.
LEMMA NextEnded ==
  ASSUME IndInv, Next, NEW h \in Graph, AllEnded(h)
  PROVE  status'[h] = status[h]
<1> PICK g \in Graph :
      \/ Run(g) \/ TailStep(g) \/ GraphTimeout(g) \/ Cancel(g) \/ UntrackedEnds(g)
      \/ \E n \in Node : \/ RunStep(g, n) \/ StaggerTimer(g, n) \/ RetryTimer(g, n)
                         \/ DriverTimeout(g, n)
  BY DEF Next
<1> SUFFICES status' = status \/ \E st : Gives(g, st)
  BY GivesEnded
<1>1. CASE Run(g)
  <2>1. \A n \in Node : status[g][n] = "pending"
    BY <1>1 DEF Run, IndInv, GraphOK, Absent
  <2>2. 1 \in Node
    BY CoordinatorAssumption DEF Node
  <2>3. ~AllEnded(g)
    BY <2>1, <2>2 DEF AllEnded, Ended
  <2>4. PICK st : status' = [status EXCEPT ![g] = st]
    BY <1>1 DEF Run
  <2> QED
    BY <2>3, <2>4 DEF Gives
<1>2. CASE TailStep(g)
  BY <1>2, TailEnded
<1>3. CASE Cancel(g)
  BY <1>3, KilledEnded DEF Cancel
<1>4. CASE GraphTimeout(g) \/ UntrackedEnds(g)
  BY <1>4 DEF GraphTimeout, UntrackedEnds
<1>5. ASSUME NEW n \in Node, StaggerTimer(g, n) \/ RetryTimer(g, n) PROVE status' = status
  BY <1>5 DEF StaggerTimer, RetryTimer
<1>6. ASSUME NEW n \in Node, DriverTimeout(g, n) PROVE \E st : Gives(g, st)
  <2>1. PICK st \in {Failed(g, n, "fail"), Completed(g, n)} : DriverLeaves(g, n, st)
    BY <1>6 DEF DriverTimeout
  <2> QED
    BY <2>1, LeavesEnded
<1>7. ASSUME NEW n \in Node, RunStep(g, n) PROVE status' = status \/ \E st : Gives(g, st)
  <2>1. CASE \E x \in Outcome : RunEnds(g, n, x)
    BY <2>1 DEF RunEnds
  <2>2. CASE \E own \in BOOLEAN : DriverRunEnds(g, n, own)
    <3>1. PICK own \in BOOLEAN : DriverRunEnds(g, n, own)
      BY <2>2
    <3>2. status' = status \/ \E k : DriverTurnCompleted(k, g, n, own)
      BY <3>1 DEF DriverRunEnds
    <3>3. ASSUME NEW k, DriverTurnCompleted(k, g, n, own)
          PROVE  status' = status \/ \E st : Gives(g, st)
      <4>1. \/ status' = status
            \/ \E k2, a : ExecuteDriverAction(k2, g, n, a)
            \/ DriverLeaves(g, n, status[g]) \/ DriverLeaves(g, n, Completed(g, n))
        BY <3>3 DEF DriverTurnCompleted
      <4> QED
        BY <4>1, ExecEnded, LeavesEnded
    <3> QED
      BY <3>2, <3>3
  <2> QED
    BY <1>7, <2>1, <2>2 DEF RunStep
<1> QED
  BY <1>1, <1>2, <1>3, <1>4, <1>5, <1>6, <1>7

\* A graph whose nodes have all ended stays as it is: no late completion, timer,
\* queued spawn, driver start, kill or timeout brings a node back.
THEOREM EndedForGood == Spec => EndedStaysEnded
<1>1. IndInv /\ [Next]_vars => [\A g \in Graph : Terminal(g) => status'[g] = status[g]]_vars
  <2>1. ASSUME IndInv, Next, NEW g \in Graph, Terminal(g) PROVE status'[g] = status[g]
    BY <2>1, TerminalIs, NextEnded
  <2> QED
    BY <2>1
<1> QED
  BY <1>1, Invariance, PTL DEF Spec, EndedStaysEnded

-----------------------------------------------------------------------------
(* The invariant of the slots and the rounds.                              *)

\* The sub-agents at work that the tables lv and un hold.
LiveTable(lv) == [p \in Pairs |-> lv[p[1]][p[2]]]
Owing(lv, un) == Total(LiveTable(lv), Pairs) + Total(un, Graph)

\* Every sub-agent at work outside the shared state has a slot that nothing in it
\* holds; the limit is kept; no slot is free while a spawn waits; and the round of
\* every driver is right.
SlotInv ==
    /\ untracked \in [Graph -> Int]
    /\ Owing(live, untracked) <= Slack(c)
    /\ InLimit(c) /\ Full(c) /\ Knowing(c)
    /\ \A g \in Graph, n \in Node :
          <<g, n>> \in Driver => RoundOK(c, g, n, inits[g][n], 0)

LEMMA LiveTableIs ==
  ASSUME NEW lv \in [Graph -> [Node -> Int]]
  PROVE  /\ LiveTable(lv) \in [Pairs -> Int] /\ Total(LiveTable(lv), Pairs) \in Int
         /\ \A g \in Graph, n \in Node : <<g, n>> \in Pairs /\ LiveTable(lv)[<<g, n>>] = lv[g][n]
<1> DEFINE w == LiveTable(lv)
<1>1. w \in [Pairs -> Int]
  BY DEF LiveTable, Pairs
<1>2. \A g \in Graph, n \in Node : <<g, n>> \in Pairs /\ w[<<g, n>>] = lv[g][n]
  BY DEF LiveTable, Pairs
<1> HIDE DEF w
<1>3. Total(w, Pairs) \in Int
  BY <1>1, PairsFinite, TotalInt
<1> QED
  BY <1>1, <1>2, <1>3 DEF w

\* These are numbers.
LEMMA OwingIs ==
  ASSUME NEW lv \in [Graph -> [Node -> Int]], NEW un \in [Graph -> Int]
  PROVE  /\ Owing(lv, un) \in Int /\ Total(un, Graph) \in Int
<1>1. Total(LiveTable(lv), Pairs) \in Int
  BY LiveTableIs
<1>2. Total(un, Graph) \in Int
  BY PairsFinite, TotalInt
<1> QED
  BY <1>1, <1>2 DEF Owing

\* The runs of one node change.
LEMMA OwingLive ==
  ASSUME NEW lv \in [Graph -> [Node -> Int]], NEW lw \in [Graph -> [Node -> Int]],
         NEW un \in [Graph -> Int], NEW g \in Graph, NEW n \in Node, NEW d \in Int,
         lw[g][n] = lv[g][n] + d,
         \A h \in Graph, m \in Node : h # g \/ m # n => lw[h][m] = lv[h][m]
  PROVE  Owing(lw, un) = Owing(lv, un) + d
<1> DEFINE v == LiveTable(lv)
           w == LiveTable(lw)
           p == <<g, n>>
<1>1. /\ v \in [Pairs -> Int] /\ w \in [Pairs -> Int] /\ p \in Pairs
      /\ Total(v, Pairs) \in Int /\ Total(w, Pairs) \in Int
      /\ v[p] = lv[g][n] /\ w[p] = lw[g][n] /\ lv[g][n] \in Int
  BY LiveTableIs
<1>2. \A x \in Pairs : x # p => w[x] = v[x]
  <2> SUFFICES ASSUME NEW h \in Graph, NEW m \in Node, <<h, m>> # p
               PROVE  w[<<h, m>>] = v[<<h, m>>]
    BY DEF Pairs
  <2>1. w[<<h, m>>] = lw[h][m] /\ v[<<h, m>>] = lv[h][m]
    BY LiveTableIs
  <2> QED
    BY <2>1
<1>3. Total(un, Graph) \in Int
  BY OwingIs
<1>4. Owing(lv, un) = Total(v, Pairs) + Total(un, Graph)
  BY DEF Owing
<1>5. Owing(lw, un) = Total(w, Pairs) + Total(un, Graph)
  BY DEF Owing
<1>6. IsFiniteSet(Pairs)
  BY PairsFinite
<1> HIDE DEF v, w, p
<1>7. Total(w, Pairs) = Total(v, Pairs) + (w[p] - v[p])
  <2>1. v \in [Pairs -> Int] /\ w \in [Pairs -> Int] /\ p \in Pairs
    BY <1>1
  <2> QED
    BY <1>2, <1>6, <2>1, TotalChanges, SMTT(30)
<1> QED
  BY <1>1, <1>3, <1>4, <1>5, <1>7

\* The runs of no map change.
LEMMA OwingUntracked ==
  ASSUME NEW lv \in [Graph -> [Node -> Int]], NEW un \in [Graph -> Int], NEW g \in Graph,
         NEW d \in Int, NEW uw \in [Graph -> Int], uw[g] = un[g] + d,
         \A h \in Graph : h # g => uw[h] = un[h]
  PROVE  Owing(lv, uw) = Owing(lv, un) + d
<1>1. uw[g] = un[g] + d /\ un[g] \in Int
  OBVIOUS
<1>2. IsFiniteSet(Graph)
  BY PairsFinite
<1>3. Total(uw, Graph) = Total(un, Graph) + (uw[g] - un[g])
  BY <1>2, TotalChanges
<1>4. Total(un, Graph) \in Int /\ Total(LiveTable(lv), Pairs) \in Int
  BY OwingIs, LiveTableIs
<1> QED
  BY <1>1, <1>3, <1>4 DEF Owing

\* The runs of a graph are killed.
LEMMA OwingKilled ==
  ASSUME NEW lv \in [Graph -> [Node -> Int]], NEW un \in [Graph -> Int], NEW g \in Graph,
         NEW lw, lw = [lv EXCEPT ![g] = [n \in Node |-> 0]]
  PROVE  /\ lw \in [Graph -> [Node -> Int]] /\ Total(lv[g], Node) \in Int
         /\ Owing(lw, un) = Owing(lv, un) - Total(lv[g], Node)
<1> DEFINE w == LiveTable(lv)
           v == LiveTable(lw)
           h == lv[g]
<1>0. /\ lw \in [Graph -> [Node -> Int]]
      /\ \A x \in Graph, m \in Node : lw[x][m] = IF x = g THEN 0 ELSE lv[x][m]
  OBVIOUS
<1>1. /\ v \in [Pairs -> Int] /\ w \in [Pairs -> Int]
      /\ Total(v, Pairs) \in Int /\ Total(w, Pairs) \in Int
  BY <1>0, LiveTableIs
<1>2. h \in [Node -> Int]
  OBVIOUS
<1>3. RowMore(v, w, Graph, Node, g, h)
  <2> SUFFICES ASSUME NEW x \in Graph, NEW m \in Node
               PROVE  w[<<x, m>>] = v[<<x, m>>] + IF x = g THEN h[m] ELSE 0
    BY DEF RowMore
  <2>1. lw \in [Graph -> [Node -> Int]] /\ lv[x][m] \in Int
    BY <1>0
  <2>2. v[<<x, m>>] = lw[x][m]
    BY <2>1, LiveTableIs
  <2>3. w[<<x, m>>] = lv[x][m]
    BY LiveTableIs
  <2> QED
    BY <1>0, <2>1, <2>2, <2>3
<1>4. Owing(lv, un) = Total(w, Pairs) + Total(un, Graph)
  BY DEF Owing
<1>5. Owing(lw, un) = Total(v, Pairs) + Total(un, Graph)
  BY DEF Owing
<1>6. IsFiniteSet(Node) /\ IsFiniteSet(Pairs) /\ Pairs = Graph \X Node
  BY PairsFinite DEF Pairs
<1>7. Total(un, Graph) \in Int
  BY OwingIs
<1> HIDE DEF v, w
<1>8. Total(w, Pairs) = Total(v, Pairs) + Total(h, Node)
  <2> HIDE DEF h
  <2> QED
    BY <1>1, <1>2, <1>3, <1>6, TotalRow
<1>9. Total(h, Node) \in Int
  BY <1>2, <1>6, TotalInt
<1> QED
  BY <1>0, <1>1, <1>4, <1>5, <1>7, <1>8, <1>9

\* A step that shifts the slots by a and hands a more of them to sub-agents.
LEMMA SlotStep ==
  ASSUME IndInv, IndInv', SlotInv, NEW a \in Int, NEW X, Shifts(c, c', a, X),
         untracked' \in [Graph -> Int],
         Owing(live', untracked') <= Owing(live, untracked) + a,
         \A g \in Graph, n \in Node : <<g, n>> \in Driver \ X => inits'[g][n] = inits[g][n],
         \A g \in Graph, n \in Node : <<g, n>> \in Driver \cap X =>
            RoundOK(c', g, n, inits'[g][n], 0)
  PROVE  SlotInv'
<1>1. /\ Knowing(c') /\ AtLeast(c, c', a) /\ InLimit(c') /\ Full(c') /\ Rounds(c, c', X)
  BY DEF SlotInv, Shifts
<1>2. c \in Shared /\ c' \in Shared /\ inits \in [Graph -> [Node -> Nat]]
  BY DEF IndInv, WellFormed, Typed
<1>3. Owing(live', untracked') <= Slack(c')
  <2>1. live \in [Graph -> [Node -> Int]] /\ live' \in [Graph -> [Node -> Int]]
    BY DEF IndInv, Typed
  <2>2. untracked \in [Graph -> Int]
    BY DEF SlotInv
  <2>3. Owing(live, untracked) \in Int /\ Owing(live', untracked') \in Int
    BY <2>1, <2>2, OwingIs
  <2>4. Slack(c) \in Int /\ Slack(c') \in Int
    BY <1>2, WeightsAre
  <2>5. Slack(c') >= Slack(c) + a /\ Owing(live, untracked) <= Slack(c)
    BY <1>1 DEF AtLeast, SlotInv
  <2> QED
    BY <2>3, <2>4, <2>5
<1>4. ASSUME NEW g \in Graph, NEW n \in Node, <<g, n>> \in Driver
      PROVE  RoundOK(c', g, n, inits'[g][n], 0)
  <2>1. CASE <<g, n>> \in X
    BY <1>4, <2>1
  <2>2. CASE <<g, n>> \notin X
    <3>1. inits'[g][n] = inits[g][n] /\ inits[g][n] \in Nat
      BY <1>2, <1>4, <2>2
    <3>2. RoundOK(c, g, n, inits[g][n], 0)
      BY <1>4, <3>1 DEF SlotInv
    <3>3. RoundOK(c', g, n, inits[g][n], 0)
      BY <1>1, <1>4, <2>2, <3>1, <3>2 DEF Rounds
    <3> QED
      BY <3>1, <3>3
  <2> QED
    BY <2>1, <2>2
<1> QED
  BY <1>1, <1>3, <1>4 DEF SlotInv

\* One that starts no driver.
LEMMA SlotShift ==
  ASSUME IndInv, IndInv', SlotInv, NEW a \in Int, Shifts(c, c', a, {}),
         untracked' \in [Graph -> Int], UNCHANGED inits,
         Owing(live', untracked') <= Owing(live, untracked) + a
  PROVE  SlotInv'
<1> DEFINE X == {}
<1>1. Shifts(c, c', a, X) /\ \A g, n : <<g, n>> \notin X
  OBVIOUS
<1> HIDE DEF X
<1> QED
  BY <1>1, SlotStep

\* One that leaves the sub-agents alone as well.
LEMMA SlotServe ==
  ASSUME IndInv, IndInv', SlotInv, Shifts(c, c', 0, {}), UNCHANGED <<live, untracked, inits>>
  PROVE  SlotInv'
<1>1. live \in [Graph -> [Node -> Int]] /\ untracked \in [Graph -> Int]
  BY DEF IndInv, Typed, SlotInv
<1>2. Owing(live, untracked) \in Int
  BY <1>1, OwingIs
<1>3. Owing(live', untracked') <= Owing(live, untracked) + 0 /\ 0 \in Int
  BY <1>2
<1> QED
  BY <1>1, <1>3, SlotShift

\* A shift after or before one that keeps the slots.
LEMMA ShiftsThen ==
  ASSUME NEW k1 \in Shared, NEW k2 \in Shared, NEW k3 \in Shared, NEW a \in Int, NEW X,
         Shifts(k1, k2, a, X), Shifts(k2, k3, 0, X)
  PROVE  Shifts(k1, k3, a, X)
<1>1. 0 \in Int /\ a = a + 0
  OBVIOUS
<1> QED
  BY <1>1, ShiftsShifts

LEMMA ShiftsAfter ==
  ASSUME NEW k1 \in Shared, NEW k2 \in Shared, NEW k3 \in Shared, NEW a \in Int, NEW X,
         Shifts(k1, k2, 0, X), Shifts(k2, k3, a, X)
  PROVE  Shifts(k1, k3, a, X)
<1>1. 0 \in Int /\ a = 0 + a
  OBVIOUS
<1> QED
  BY <1>1, ShiftsShifts

LEMMA ShiftsSame == ASSUME NEW k \in Shared, NEW X PROVE Shifts(k, k, 0, X)
BY ServedSame, ServedShifts

\* Jobs that hold no slot and are no first action.
QuietJobs == {j \in Job3 : j.op \notin {"admit", "start", "action"}}

\* Such a job joins a tail.
LEMMA AppendShifts ==
  ASSUME NEW k \in Shared, NEW g \in Graph, NEW j \in QuietJobs, NEW X
  PROVE  Append1(k, g, j) \in Shared /\ Shifts(k, Append1(k, g, j), 0, X)
<1> DEFINE k2 == Append1(k, g, j)
<1>1. j \in Job3 /\ j.op \notin {"admit", "start", "action"}
  BY DEF QuietJobs
<1>2. k2 \in Shared
  <2> DEFINE q == Append(k.tail[g], j)
  <2>1. q \in Seq(Job3)
    BY <1>1 DEF Shared
  <2>2. k2 = WithTail(k, g, q)
    BY DEF Append1, WithTail, Shared
  <2> HIDE DEF q, k2
  <2> QED
    BY <2>1, <2>2 DEF WithTail, Shared
<1>3. Grown(k, k2, g, j)
  BY <1>1, Append1Grown
<1> HIDE DEF k2
<1>4. Alike(k, k2)
  BY <1>1, <1>3, GrownAlike
<1>5. Shifts(k, k2, 0, X)
  BY <1>2, <1>4, AlikeShifts
<1> QED
  BY <1>2, <1>5 DEF k2

\* The jobs the operations add.
LEMMA QuietJobsAre ==
  /\ Job("finish", 0, "-") \in QuietJobs /\ Job("expire", 0, "-") \in QuietJobs
  /\ Job("ready", 1, "-") \in QuietJobs
  /\ \A n \in Node, x \in {"-", "ok", "fail", "dead"} :
        Job("failed", n, x) \in QuietJobs /\ Job("completed", n, x) \in QuietJobs
<1>1. Node \subseteq Nat
  BY NodesAreNat
<1> QED
  BY <1>1 DEF Job, Job3, Ops, Details, QuietJobs

\* The head of a tail is taken, with its slot.
LEMMA PoppedShifts ==
  ASSUME IndInv, NEW g \in Graph, NEW op, Next1(g, op)
  PROVE  /\ WellFormed(phase, Popped(g)) /\ Popped(g) \in Shared /\ c \in Shared
         /\ Shifts(c, Popped(g), IF op \in {"admit", "start"} THEN 1 ELSE 0, {})
<1>1. WellFormed(phase, c) /\ c.tail[g] # <<>> /\ Arg(g).op = op
  BY DEF IndInv, Next1, Arg
<1>2. /\ Arg(g) \in JobsOf(phase, g) /\ WellFormed(phase, Popped(g))
      /\ Grown(Popped(g), c, g, Arg(g))
  BY <1>1, PoppedIs
<1>3. c \in Shared /\ Popped(g) \in Shared
  BY <1>1, <1>2 DEF WellFormed
<1>4. Arg(g).op \in {"admit", "start"} => Arg(g).n \in Node
  BY <1>2 DEF JobsOf
<1>5. Slot(Arg(g)) = IF op \in {"admit", "start"} THEN 1 ELSE 0
  BY <1>1 DEF Slot
<1>6. Shifts(c, Popped(g), Slot(Arg(g)), {})
  BY <1>2, <1>3, <1>4, GrownShifts
<1> QED
  BY <1>2, <1>3, <1>5, <1>6

\* A graph is created.
LEMMA RunSlots ==
  ASSUME IndInv, IndInv', SlotInv, NEW g \in Graph, Run(g)
  PROVE  SlotInv'
<1> DEFINE st == [n \in Node |-> IF Deps[g][n] = {} THEN "ready" ELSE "pending"]
<1>1. /\ phase' = [phase EXCEPT ![g] = "open"] /\ phase[g] = "absent"
      /\ c' = SpawnReadyNodes(c, g, st, 0)
      /\ UNCHANGED <<live, untracked, inits>>
  BY DEF Run, history
<1> HIDE DEF st
<1>2. phase'[g] = "open" /\ \A h \in Graph : phase'[h] = "absent" => phase[h] = "absent"
  BY <1>1 DEF IndInv, Typed
<1>3. WellFormed(phase, c) /\ c \in Shared /\ c' \in Shared
  BY DEF IndInv, WellFormed
<1>4. WellFormed(phase', c)
  BY <1>2, <1>3, Created
<1>5. phase'[g] # "absent" /\ 0 \in Int
  BY <1>2
<1>6. Served(c, SpawnReadyNodes(c, g, st, 0), {})
  BY <1>4, <1>5, SpawnReadyNodesIs
<1>7. Shifts(c, c', 0, {})
  BY <1>1, <1>3, <1>6, ServedShifts
<1> QED
  BY <1>1, <1>7, SlotServe

\* A stagger timer strikes.
LEMMA StaggerSlots ==
  ASSUME IndInv, IndInv', SlotInv, NEW g \in Graph, NEW n \in Node, StaggerTimer(g, n)
  PROVE  SlotInv'
<1> DEFINE v == [c.stagger[g] EXCEPT ![n] = c.stagger[g][n] - 1]
           k == [c EXCEPT !.stagger[g] = v]
<1>0. WellFormed(phase, c) /\ c \in Shared /\ c' \in Shared
  BY DEF IndInv, WellFormed
<1>1. v \in [Node -> Int]
  BY <1>0 DEF Shared
<1>2. [c EXCEPT !.stagger[g][n] = @ - 1] = k
  BY <1>0 DEF Shared
<1> HIDE DEF v
<1>3. /\ k \in Shared /\ k.tail = c.tail /\ k.ds = c.ds /\ k.runs = c.runs
      /\ k.spawnQueue = c.spawnQueue /\ k.globalActiveSubAgents = c.globalActiveSubAgents
  BY <1>0, <1>1 DEF Shared
<1>4. /\ c' = IF phase[g] # "done" /\ status[g][n] = "ready" THEN SpawnNode(k, g, n) ELSE k
      /\ UNCHANGED <<live, untracked, inits>>
  BY <1>2 DEF StaggerTimer, history
<1> HIDE DEF k
<1>5. WellFormed(phase, k) /\ Alike(c, k)
  <2>1. Slots(phase, c, k)
    BY <1>0, <1>3, OtherFields DEF Slots
  <2> QED
    BY <1>3, <2>1 DEF Slots, Alike, Claims, Acts
<1>6. Shifts(c, k, 0, {})
  BY <1>0, <1>3, <1>5, AlikeShifts
<1>7. Shifts(c, c', 0, {})
  <2>1. CASE phase[g] # "done" /\ status[g][n] = "ready"
    <3>1. phase[g] # "absent"
      BY <2>1 DEF IndInv, GraphOK, Absent
    <3>2. Served(k, c', {})
      BY <1>4, <1>5, <2>1, <3>1, SpawnNodeIs
    <3>3. Shifts(k, c', 0, {}) /\ 0 \in Int
      BY <1>0, <1>3, <3>2, ServedShifts
    <3> QED
      BY <1>0, <1>3, <1>6, <3>3, ShiftsThen
  <2>2. CASE ~(phase[g] # "done" /\ status[g][n] = "ready")
    BY <1>4, <1>6, <2>2
  <2> QED
    BY <2>1, <2>2
<1> QED
  BY <1>4, <1>7, SlotServe

\* A retry timer strikes.
LEMMA RetrySlots ==
  ASSUME IndInv, IndInv', SlotInv, NEW g \in Graph, NEW n \in Node, RetryTimer(g, n)
  PROVE  SlotInv'
<1>0. c \in Shared
  BY DEF IndInv, WellFormed
<1>1. UNCHANGED <<live, untracked, inits>>
  BY DEF RetryTimer, history
<1>2. Shifts(c, c', 0, {})
  <2>1. c' = Append1(c, g, Job("ready", 1, "-")) \/ c' = c
    BY DEF RetryTimer
  <2>2. Shifts(c, Append1(c, g, Job("ready", 1, "-")), 0, {})
    BY <1>0, AppendShifts, QuietJobsAre
  <2>3. Shifts(c, c, 0, {})
    BY <1>0, ShiftsSame
  <2> QED
    BY <2>1, <2>2, <2>3
<1> QED
  BY <1>1, <1>2, SlotServe

\* A graph's time is up.
LEMMA TimeoutSlots ==
  ASSUME IndInv, IndInv', SlotInv, NEW g \in Graph, GraphTimeout(g)
  PROVE  SlotInv'
<1>1. c' = Append1(c, g, Job("expire", 0, "-")) /\ UNCHANGED <<live, untracked, inits>>
  BY DEF GraphTimeout
<1>2. c \in Shared
  BY DEF IndInv, WellFormed
<1>3. Shifts(c, c', 0, {})
  BY <1>1, <1>2, QuietJobsAre, AppendShifts
<1> QED
  BY <1>1, <1>3, SlotServe

\* A sub-agent nobody knows ends; its slot is not given back.
LEMMA UntrackedSlots ==
  ASSUME IndInv, IndInv', SlotInv, NEW g \in Graph, UntrackedEnds(g)
  PROVE  SlotInv'
<1>1. c' = c /\ UNCHANGED <<live, inits>> /\ untracked' = [untracked EXCEPT ![g] = @ - 1]
  BY DEF UntrackedEnds, history
<1>2. c \in Shared /\ live \in [Graph -> [Node -> Int]] /\ untracked \in [Graph -> Int]
  BY DEF IndInv, WellFormed, Typed, SlotInv
<1>3. /\ untracked' \in [Graph -> Int] /\ untracked'[g] = untracked[g] + (-1) /\ -1 \in Int
      /\ \A h \in Graph : h # g => untracked'[h] = untracked[h]
  BY <1>1, <1>2
<1>4. Owing(live, untracked') = Owing(live, untracked) + (-1)
  BY <1>2, <1>3, OwingUntracked
<1>5. Owing(live, untracked) \in Int
  BY <1>2, OwingIs
<1>6. Owing(live', untracked') <= Owing(live, untracked) + 0 /\ 0 \in Int
  BY <1>1, <1>4, <1>5
<1>7. Shifts(c, c', 0, {})
  BY <1>1, <1>2, ShiftsSame
<1> QED
  BY <1>1, <1>3, <1>6, <1>7, SlotShift

\* Spawn passes.
LEMMA ReadyPassSlots ==
  ASSUME IndInv, IndInv', SlotInv, NEW g \in Graph, ReadyPass(g)
  PROVE  SlotInv'
<1> DEFINE k0 == IF Arg(g).x = "overBudget" THEN Append1(Popped(g), g, Job("expire", 0, "-"))
                                            ELSE Popped(g)
           m == Arg(g).n
<1>0. WellFormed(phase, c) /\ runningCount[g] \in Int /\ Next1(g, "ready") /\ c' \in Shared
  BY DEF IndInv, Typed, ReadyPass, WellFormed
<1>1. /\ WellFormed(phase, Popped(g)) /\ Popped(g) \in Shared /\ c \in Shared
      /\ Shifts(c, Popped(g), 0, {})
  BY <1>0, PoppedShifts
<1>2. phase[g] # "absent" /\ m \in Nat
  <2>1. Arg(g) \in JobsOf(phase, g) /\ Arg(g).op = "ready"
    BY <1>0, PoppedQuiet
  <2> QED
    BY <2>1 DEF JobsOf, Job3
<1>3. WellFormed(phase, k0) /\ k0 \in Shared /\ Shifts(Popped(g), k0, 0, {})
  <2>1. WellFormed(phase, Append1(Popped(g), g, Job("expire", 0, "-")))
    BY <1>1, <1>2, AppendQuiet DEF Slots
  <2>2. Shifts(Popped(g), Append1(Popped(g), g, Job("expire", 0, "-")), 0, {})
    BY <1>1, QuietJobsAre, AppendShifts
  <2>3. Shifts(Popped(g), Popped(g), 0, {})
    BY <1>1, ShiftsSame
  <2> QED
    BY <1>1, <2>1, <2>2, <2>3 DEF WellFormed
<1>4. /\ c' = Passes(k0, g, status[g], runningCount[g], m)
      /\ UNCHANGED <<live, untracked, inits>>
  BY DEF ReadyPass, Passes, history
<1> HIDE DEF k0, m
<1>5. Served(k0, c', {})
  BY <1>0, <1>2, <1>3, <1>4, PassesAre
<1>6. Shifts(k0, c', 0, {}) /\ 0 \in Int
  BY <1>0, <1>3, <1>5, ServedShifts
<1>7. Shifts(Popped(g), c', 0, {})
  BY <1>0, <1>1, <1>3, <1>6, ShiftsThen
<1>8. Shifts(c, c', 0, {})
  BY <1>0, <1>1, <1>6, <1>7, ShiftsThen
<1> QED
  BY <1>4, <1>8, SlotServe

\* A slot that was held is given back.
LEMMA SlotBack ==
  ASSUME NEW k, NEW k1, WellFormed(phase, k1), k \in Shared, Shifts(k, k1, 1, {})
  PROVE  LET k2 == ReleaseAndDrainQueue(k1)
         IN  WellFormed(phase, k2) /\ k2 \in Shared /\ Shifts(k, k2, 0, {})
<1> DEFINE k2 == ReleaseAndDrainQueue(k1)
<1>1. WellFormed(phase, k2) /\ Shifts(k1, k2, -1, {})
  BY ReleaseIs, ReleaseShifts DEF Slots
<1> HIDE DEF k2
<1>2. k1 \in Shared /\ k2 \in Shared
  BY <1>1 DEF WellFormed
<1>3. 1 \in Int /\ -1 \in Int /\ 0 = 1 + (-1)
  OBVIOUS
<1>4. Shifts(k, k2, 0, {})
  BY <1>1, <1>2, <1>3, ShiftsShifts
<1> QED
  BY <1>1, <1>2, <1>4 DEF k2

\* A checkpoint without continuations, or with one.
LEMMA PersistShifts ==
  ASSUME NEW k, WellFormed(phase, k), NEW g \in Graph, NEW st, NEW X
  PROVE  /\ WellFormed(phase, Persist(k, g, st, <<>>)) /\ Persist(k, g, st, <<>>) \in Shared
         /\ Shifts(k, Persist(k, g, st, <<>>), 0, X)
<1> DEFINE k2 == Persist(k, g, st, <<>>)
<1>1. WellFormed(phase, k2) /\ Alike(k, k2)
  BY PersistNone DEF Slots
<1> HIDE DEF k2
<1>2. k \in Shared /\ k2 \in Shared
  BY <1>1 DEF WellFormed
<1>3. Shifts(k, k2, 0, X)
  BY <1>1, <1>2, AlikeShifts
<1> QED
  BY <1>1, <1>2, <1>3 DEF k2

LEMMA PersistShifts1 ==
  ASSUME NEW k, WellFormed(phase, k), NEW g \in Graph, NEW st, NEW j \in JobsOf(phase, g),
         j.op \notin {"admit", "start", "action"}, Actionless(k.tail[g])
  PROVE  /\ WellFormed(phase, Persist(k, g, st, <<j>>)) /\ Persist(k, g, st, <<j>>) \in Shared
         /\ Shifts(k, Persist(k, g, st, <<j>>), 0, {})
<1> DEFINE k2 == Persist(k, g, st, <<j>>)
<1>1. WellFormed(phase, k2) /\ Grown(k, k2, g, j)
  BY PersistOne
<1> HIDE DEF k2
<1>2. k \in Shared /\ k2 \in Shared
  BY <1>1 DEF WellFormed
<1>3. Alike(k, k2)
  BY <1>1, <1>2, GrownAlike
<1>4. Shifts(k, k2, 0, {})
  BY <1>2, <1>3, AlikeShifts
<1> QED
  BY <1>1, <1>2, <1>4 DEF k2

\* admitRegularNode: the slot passes to the start, or is given back.
LEMMA AdmitSlots ==
  ASSUME IndInv, IndInv', SlotInv, NEW g \in Graph, Admit(g)
  PROVE  SlotInv'
<1> DEFINE n == Arg(g).n
           k == Popped(g)
           j == Job("start", n, "-")
<1>1. Next1(g, "admit") /\ UNCHANGED <<live, untracked, inits>>
  BY DEF Admit, history
<1>2. /\ WellFormed(phase, k) /\ k \in Shared /\ c \in Shared
      /\ Shifts(c, k, 1, {})
  BY <1>1, PoppedShifts
<1>3. c' \in Shared /\ Actionless(k.tail[g])
  <2>1. "admit" # "finish"
    OBVIOUS
  <2> QED
    BY <1>1, <2>1, HeadIs DEF IndInv, WellFormed
<1>4. Shifts(c, c', 0, {})
  <2>1. CASE status[g][n] = "ready"
    <3>1. c' = Persist(k, g, status'[g], <<j>>)
      BY <2>1 DEF Admit
    <3>2. j \in JobsOf(phase, g) /\ j.op = "start" /\ j.n = n /\ n \in Node
      <4>1. n \in Node
        BY <1>1, HeadIs
      <4>2. phase[g] # "absent" /\ "-" \in Details
        BY <2>1, <4>1 DEF IndInv, GraphOK, Absent, Details
      <4> HIDE DEF n
      <4> QED
        BY <4>1, <4>2, NodeJob
    <3> HIDE DEF j, k, n
    <3>3. Grown(k, c', g, j)
      BY <1>2, <1>3, <3>1, <3>2, PersistOne
    <3>4. Slot(j) = 1 /\ j.op # "action"
      BY <3>2 DEF Slot
    <3>5. Shifts(k, c', -1, {})
      <4>1. Shifts(k, c', 0 - Slot(j), {})
        BY <1>2, <1>3, <3>2, <3>3, <3>4, GrownShifts
      <4>2. 0 - Slot(j) = -1
        BY <3>4
      <4> QED
        BY <4>1, <4>2
    <3>6. 1 \in Int /\ -1 \in Int /\ 0 = 1 + (-1)
      OBVIOUS
    <3> QED
      BY <1>2, <1>3, <3>5, <3>6, ShiftsShifts
  <2>2. CASE status[g][n] # "ready"
    <3> DEFINE k2 == ReleaseAndDrainQueue(k)
    <3>1. c' = Persist(k2, g, status[g], <<>>)
      BY <2>2 DEF Admit
    <3> HIDE DEF k
    <3>2. WellFormed(phase, k2) /\ k2 \in Shared /\ Shifts(c, k2, 0, {})
      BY <1>2, SlotBack
    <3> HIDE DEF k2
    <3>3. Shifts(k2, c', 0, {}) /\ 0 \in Int
      BY <3>1, <3>2, PersistShifts
    <3> QED
      BY <1>2, <1>3, <3>2, <3>3, ShiftsThen
  <2> QED
    BY <2>1, <2>2
<1> QED
  BY <1>1, <1>4, SlotServe

\* The slot passes to the sub-agent, tracked or not.
LEMMA StartSlots ==
  ASSUME IndInv, IndInv', SlotInv, NEW g \in Graph, Start(g)
  PROVE  SlotInv'
<1> DEFINE n == Arg(g).n
<1>1. Next1(g, "start") /\ UNCHANGED inits /\ c' = Popped(g)
  BY DEF Start, history
<1>2. Shifts(c, c', 1, {}) /\ 1 \in Int
  BY <1>1, PoppedShifts
<1>3. n \in Node
  BY <1>1, HeadIs
<1>4. /\ live \in [Graph -> [Node -> Int]] /\ live' \in [Graph -> [Node -> Int]]
      /\ untracked \in [Graph -> Int]
  BY DEF IndInv, Typed, SlotInv
<1>5. /\ untracked' \in [Graph -> Int]
      /\ Owing(live', untracked') = Owing(live, untracked) + 1
  <2>1. CASE n \in runIdToNode[g]
    <3>1. live' = [live EXCEPT ![g][n] = @ + 1] /\ untracked' = untracked
      BY <2>1 DEF Start
    <3> HIDE DEF n
    <3>2. /\ live'[g][n] = live[g][n] + 1
          /\ \A h \in Graph, m \in Node : h # g \/ m # n => live'[h][m] = live[h][m]
      BY <1>3, <1>4, <3>1
    <3>3. Owing(live', untracked) = Owing(live, untracked) + 1
      BY <1>2, <1>3, <1>4, <3>2, OwingLive
    <3> QED
      BY <1>4, <3>1, <3>3
  <2>2. CASE n \notin runIdToNode[g]
    <3>1. untracked' = [untracked EXCEPT ![g] = @ + 1] /\ live' = live
      BY <2>2 DEF Start
    <3>2. /\ untracked' \in [Graph -> Int] /\ untracked'[g] = untracked[g] + 1
          /\ \A h \in Graph : h # g => untracked'[h] = untracked[h]
      BY <1>4, <3>1
    <3>3. Owing(live, untracked') = Owing(live, untracked) + 1
      BY <1>2, <1>4, <3>2, OwingUntracked
    <3> QED
      BY <3>1, <3>2, <3>3
  <2> QED
    BY <2>1, <2>2
<1>6. Owing(live', untracked') <= Owing(live, untracked) + 1
  <2>1. Owing(live, untracked) \in Int
    BY <1>4, OwingIs
  <2> QED
    BY <1>5, <2>1
<1> QED
  BY <1>1, <1>2, <1>5, <1>6, SlotShift

\* The runner refuses.
LEMMA StartRejectedSlots ==
  ASSUME IndInv, IndInv', SlotInv, NEW g \in Graph, StartRejected(g)
  PROVE  SlotInv'
<1> DEFINE n == Arg(g).n
           k == Popped(g)
           k2 == ReleaseAndDrainQueue(k)
           j == Job("failed", n, "-")
<1>1. /\ Next1(g, "start") /\ UNCHANGED <<live, untracked, inits>>
      /\ c' = Append1(k2, g, j)
  BY DEF StartRejected
<1>2. /\ WellFormed(phase, k) /\ c \in Shared /\ Shifts(c, k, 1, {})
  BY <1>1, PoppedShifts
<1>3. j \in QuietJobs
  <2>1. n \in Node
    BY <1>1, HeadIs
  <2> QED
    BY <2>1, QuietJobsAre
<1> HIDE DEF j, k
<1>4. k2 \in Shared /\ Shifts(c, k2, 0, {})
  BY <1>2, SlotBack
<1> HIDE DEF k2
<1>5. c' \in Shared /\ Shifts(k2, c', 0, {}) /\ 0 \in Int
  BY <1>1, <1>3, <1>4, AppendShifts
<1>6. Shifts(c, c', 0, {})
  BY <1>2, <1>4, <1>5, ShiftsThen
<1> QED
  BY <1>1, <1>6, SlotServe

\* A tracked run ends.
LEMMA RunEndsSlots ==
  ASSUME IndInv, IndInv', SlotInv, NEW g \in Graph, NEW n \in Node, NEW x \in Outcome, RunEnds(g, n, x)
  PROVE  SlotInv'
<1> DEFINE k2 == ReleaseAndDrainQueue(c)
           j == Job("completed", n, x)
<1>1. /\ UNCHANGED <<untracked, inits>> /\ live' = [live EXCEPT ![g][n] = @ - 1]
      /\ c' = Append1(k2, g, j)
  BY DEF RunEnds, history
<1>2. j \in QuietJobs
  BY QuietJobsAre DEF Outcome
<1>3. WellFormed(phase, c) /\ c \in Shared /\ c' \in Shared
  BY DEF IndInv, WellFormed
<1> HIDE DEF j
<1>4. k2 \in Shared /\ Shifts(c, k2, -1, {}) /\ -1 \in Int
  <2>1. WellFormed(phase, k2)
    BY <1>3, ReleaseIs DEF Slots
  <2>2. Shifts(c, k2, -1, {})
    BY <1>3, ReleaseShifts
  <2> QED
    BY <2>1, <2>2 DEF WellFormed
<1> HIDE DEF k2
<1>5. Shifts(k2, c', 0, {})
  BY <1>1, <1>2, <1>4, AppendShifts
<1>6. Shifts(c, c', -1, {})
  BY <1>3, <1>4, <1>5, ShiftsThen
<1>7. /\ live \in [Graph -> [Node -> Int]] /\ live' \in [Graph -> [Node -> Int]]
      /\ untracked \in [Graph -> Int]
  BY DEF IndInv, Typed, SlotInv
<1>8. /\ live'[g][n] = live[g][n] + (-1)
      /\ \A h \in Graph, m \in Node : h # g \/ m # n => live'[h][m] = live[h][m]
  BY <1>1, <1>7
<1>9. Owing(live', untracked) = Owing(live, untracked) + (-1)
  BY <1>4, <1>7, <1>8, OwingLive
<1>10. Owing(live, untracked) \in Int
  BY <1>7, OwingIs
<1>11. Owing(live', untracked') <= Owing(live, untracked) + (-1)
  BY <1>1, <1>9, <1>10
<1> QED
  BY <1>1, <1>4, <1>6, <1>7, <1>11, SlotShift

\* handleSubAgentCompleted.
LEMMA CompletedSlots ==
  ASSUME IndInv, IndInv', SlotInv, NEW g \in Graph, SubAgentCompleted(g)
  PROVE  SlotInv'
<1> DEFINE k == Popped(g)
           st == status'[g]
           cascade == IF Arg(g).x # "ok" /\ NewlyReady(g, Arg(g).n, st) # {} THEN 1 ELSE 0
<1>1. /\ Next1(g, "completed") /\ UNCHANGED <<live, untracked, inits>>
      /\ \/ c' = Persist(k, g, status[g], <<>>)
         \/ c' = Persist(k, g, st, IF SM(g)!IsTerminal(st) THEN <<>>
                                   ELSE <<Job("ready", cascade + 1, "-")>>)
         \/ c' = Persist(k, g, st, <<Job("ready", cascade, "overBudget")>>)
  BY DEF SubAgentCompleted
<1>2. /\ WellFormed(phase, k) /\ k \in Shared /\ c \in Shared /\ Shifts(c, k, 0, {})
  BY <1>1, PoppedShifts
<1>3. phase[g] # "absent" /\ Actionless(k.tail[g])
  <2>1. "completed" # "finish" /\ "completed" # "admit"
    OBVIOUS
  <2> QED
    BY <1>1, <2>1, HeadIs
<1>4. cascade \in Nat /\ cascade + 1 \in Nat
  OBVIOUS
<1>5. \/ \E s : c' = Persist(k, g, s, <<>>)
      \/ \E m \in Nat, x \in {"-", "overBudget"} : c' = Persist(k, g, st, <<Job("ready", m, x)>>)
  BY <1>1, <1>4
<1> HIDE DEF k, cascade, st
<1>6. Shifts(k, c', 0, {}) /\ 0 \in Int /\ c' \in Shared
  <2>1. CASE \E s : c' = Persist(k, g, s, <<>>)
    BY <1>2, <2>1, PersistShifts
  <2>2. CASE \E m \in Nat, x \in {"-", "overBudget"} : c' = Persist(k, g, st, <<Job("ready", m, x)>>)
    <3> PICK m \in Nat, x \in {"-", "overBudget"} : c' = Persist(k, g, st, <<Job("ready", m, x)>>)
      BY <2>2
    <3>1. Job("ready", m, x) \in JobsOf(phase, g) /\ Job("ready", m, x).op = "ready"
      BY <1>3, ReadyJob
    <3> QED
      BY <1>2, <1>3, <3>1, PersistShifts1
  <2> QED
    BY <1>5, <2>1, <2>2
<1>7. Shifts(c, c', 0, {})
  BY <1>2, <1>6, ShiftsThen
<1> QED
  BY <1>1, <1>7, SlotServe

\* markNodeFailed.
LEMMA FailedSlots ==
  ASSUME IndInv, IndInv', SlotInv, NEW g \in Graph, NodeFailed(g)
  PROVE  SlotInv'
<1> DEFINE k == Popped(g)
           k2 == Persist(k, g, status'[g], <<>>)
           j == Job("ready", 1, "-")
<1>1. /\ Next1(g, "failed") /\ UNCHANGED <<live, untracked, inits>>
      /\ c' = Append1(k2, g, j) \/ c' = k2
  BY DEF NodeFailed, history
<1>2. /\ WellFormed(phase, k) /\ k \in Shared /\ c \in Shared /\ Shifts(c, k, 0, {})
  BY <1>1, PoppedShifts
<1>3. j \in QuietJobs
  BY QuietJobsAre
<1> HIDE DEF k, j
<1>4. k2 \in Shared /\ Shifts(k, k2, 0, {}) /\ 0 \in Int
  BY <1>2, PersistShifts
<1> HIDE DEF k2
<1>5. c' \in Shared /\ Shifts(k2, c', 0, {})
  BY <1>1, <1>3, <1>4, AppendShifts, ShiftsSame
<1>6. Shifts(c, k2, 0, {})
  BY <1>2, <1>4, ShiftsThen
<1>7. Shifts(c, c', 0, {})
  BY <1>2, <1>4, <1>5, <1>6, ShiftsThen
<1> QED
  BY <1>1, <1>7, SlotServe

\* At most one sub-agent works under a tracked run, and none under another.
LEMMA LivesAre == ASSUME IndInv, NEW g \in Graph PROVE Lives(g)
<1>1. live[g] \in [Node -> Int] /\ \A n \in Node : live[g][n] \in Nat
  BY DEF IndInv, Typed
<1>2. ASSUME NEW n \in Node
      PROVE  live[g][n] \in {0, 1} /\ (live[g][n] = 1 => n \in runIdToNode[g])
  <2>1. Row(g, n) /\ WellFormed(phase, c)
    BY DEF IndInv, GraphOK
  <2>2. Pending(c, g, n) \in Nat
    BY <2>1, CountsAreNat
  <2>3. IF n \in runIdToNode[g] THEN live[g][n] + Pending(c, g, n) = 1 ELSE live[g][n] = 0
    BY <2>1 DEF Row
  <2> QED
    BY <1>1, <2>2, <2>3
<1> QED
  BY <1>1, <1>2 DEF Lives

\* handleGraphCompletion.
LEMMA FinishSlots ==
  ASSUME IndInv, IndInv', SlotInv, NEW g \in Graph, Finish(g)
  PROVE  SlotInv'
<1> DEFINE k == Popped(g)
           d == DriverRuns(k, g)
<1>1. Next1(g, "finish") /\ UNCHANGED <<live, inits>>
  BY DEF Finish, history
<1>2. /\ WellFormed(phase, k) /\ k \in Shared /\ c \in Shared /\ Shifts(c, k, 0, {})
  BY <1>1, PoppedShifts
<1>3. CASE ~Terminal(g) \/ phase[g] = "done"
  <2>1. c' = k /\ untracked' = untracked
    BY <1>3 DEF Finish
  <2> QED
    BY <1>1, <1>2, <2>1, SlotServe
<1>4. CASE ~(~Terminal(g) \/ phase[g] = "done")
  <2>1. /\ untracked' = [untracked EXCEPT ![g] = @ + DriverRuns(c, g)]
        /\ c' = NoDriversLeft(k, g)
    BY <1>4 DEF Finish
  <2>2. k.runs = c.runs
    BY <1>2 DEF Popped, Shared
  <2>3. DriverRuns(c, g) = d /\ d \in Int
    <3> HIDE DEF k
    <3>1. DriverRuns(c, g) = Total(c.runs[g], Node)
      BY <1>2, DriverRunsAre
    <3>2. d = Total(k.runs[g], Node) /\ d \in Int
      BY <1>2, DriverRunsAre
    <3> QED
      BY <2>2, <3>1, <3>2
  <2> HIDE DEF k
  <2>4. Shifts(k, c', d, {})
    BY <1>2, <2>1, NoDriversLeftShifts
  <2> HIDE DEF d
  <2>5. c' \in Shared
    BY DEF IndInv, WellFormed
  <2>6. Shifts(c, c', d, {})
    BY <1>2, <2>3, <2>4, <2>5, ShiftsAfter
  <2>7. live \in [Graph -> [Node -> Int]] /\ untracked \in [Graph -> Int]
    BY DEF IndInv, Typed, SlotInv
  <2>8. /\ untracked' \in [Graph -> Int] /\ untracked'[g] = untracked[g] + d
        /\ \A h \in Graph : h # g => untracked'[h] = untracked[h]
    BY <2>1, <2>3, <2>7
  <2>9. Owing(live, untracked') = Owing(live, untracked) + d
    BY <2>3, <2>7, <2>8, OwingUntracked
  <2>10. Owing(live, untracked) \in Int
    BY <2>7, OwingIs
  <2>11. Owing(live', untracked') <= Owing(live, untracked) + d
    BY <1>1, <2>3, <2>9, <2>10
  <2> QED
    BY <1>1, <2>3, <2>6, <2>8, <2>11, SlotShift
<1> QED
  BY <1>3, <1>4

\* The kills of a graph's runs give back the slots of those that are tracked.
LEMMA KillsShift ==
  ASSUME IndInv, NEW g \in Graph, phase[g] # "absent", NEW k, WellFormed(phase, k)
  PROVE  LET k2 == KillDriven(KillTracked(k, g), g)
         IN  /\ WellFormed(phase, k2) /\ k2 \in Shared
             /\ Shifts(k, k2, -Total(live[g], Node), {}) /\ Total(live[g], Node) \in Int
<1> DEFINE k1 == KillTracked(k, g)
           k2 == KillDriven(k1, g)
           t == -Total(live[g], Node)
<1>1. Lives(g)
  BY LivesAre
<1>2. WellFormed(phase, k1) /\ Shifts(k, k1, t, {})
  BY <1>1, KillTrackedIs
<1> HIDE DEF k1
<1>3. WellFormed(phase, k2) /\ Shifts(k1, k2, 0, {})
  BY <1>2, KillDrivenIs, KillDrivenShifts
<1> HIDE DEF k2
<1>4. k \in Shared /\ k1 \in Shared /\ k2 \in Shared
  BY <1>2, <1>3 DEF WellFormed
<1>5. Total(live[g], Node) \in Int /\ t \in Int
  <2>1. live[g] \in [Node -> Int] /\ IsFiniteSet(Node)
    BY PairsFinite DEF IndInv, Typed
  <2>2. Total(live[g], Node) \in Int
    BY <2>1, TotalInt
  <2> QED
    BY <2>2
<1> HIDE DEF t
<1>6. Shifts(k, k2, t, {})
  BY <1>2, <1>3, <1>4, <1>5, ShiftsThen
<1> QED
  BY <1>3, <1>4, <1>5, <1>6 DEF k1, k2, t

\* Their sub-agents are gone.
LEMMA KilledOwes ==
  ASSUME IndInv, SlotInv, NEW g \in Graph, Killed(g)
  PROVE  /\ live' \in [Graph -> [Node -> Int]]
         /\ Owing(live', untracked) = Owing(live, untracked) - Total(live[g], Node)
<1>1. live' = [live EXCEPT ![g] = [n \in Node |-> 0]]
  BY DEF Killed
<1>2. live \in [Graph -> [Node -> Int]] /\ untracked \in [Graph -> Int]
  BY DEF IndInv, Typed, SlotInv
<1> QED
  BY <1>1, <1>2, OwingKilled

\* handleBudgetExceeded and handleGraphTimeout.
LEMMA ExpireSlots ==
  ASSUME IndInv, IndInv', SlotInv, NEW g \in Graph, Expire(g)
  PROVE  SlotInv'
<1> DEFINE k == Popped(g)
           k2 == KillDriven(KillTracked(k, g), g)
           t == Total(live[g], Node)
<1>1. /\ Next1(g, "expire") /\ Killed(g) /\ UNCHANGED <<untracked, inits>>
      /\ c' = Persist(k2, g, KilledStatus(g), <<>>)
  BY DEF Expire, history
<1>2. /\ WellFormed(phase, k) /\ k \in Shared /\ c \in Shared /\ Shifts(c, k, 0, {})
  BY <1>1, PoppedShifts
<1>3. phase[g] # "absent"
  <2>1. Arg(g) \in JobsOf(phase, g) /\ Arg(g).op = "expire"
    BY <1>1, HeadIs
  <2> QED
    BY <2>1 DEF JobsOf
<1> HIDE DEF k
<1>4. WellFormed(phase, k2) /\ k2 \in Shared /\ Shifts(k, k2, -t, {}) /\ t \in Int
  BY <1>2, <1>3, KillsShift
<1> HIDE DEF k2, t
<1>5. c' \in Shared /\ Shifts(k2, c', 0, {})
  BY <1>1, <1>4, PersistShifts
<1> DEFINE a == -t
<1>6. a \in Int /\ Shifts(k, k2, a, {})
  BY <1>4
<1>7. Owing(live', untracked) = Owing(live, untracked) - t
  BY <1>1, KilledOwes DEF t
<1>8. live \in [Graph -> [Node -> Int]] /\ untracked \in [Graph -> Int]
  BY DEF IndInv, Typed, SlotInv
<1>9. Owing(live, untracked) \in Int
  BY <1>8, OwingIs
<1>10. Owing(live', untracked') <= Owing(live, untracked) + a
  BY <1>1, <1>4, <1>7, <1>9
<1> HIDE DEF a
<1>11. Shifts(k, c', a, {})
  BY <1>2, <1>4, <1>5, <1>6, ShiftsThen
<1>12. Shifts(c, c', a, {})
  BY <1>2, <1>5, <1>6, <1>11, ShiftsAfter
<1> QED
  BY <1>1, <1>6, <1>8, <1>10, <1>12, SlotShift

\* cancelGraphRun.
LEMMA CancelSlots ==
  ASSUME IndInv, IndInv', SlotInv, NEW g \in Graph, Cancel(g)
  PROVE  SlotInv'
<1> DEFINE k1 == KillDriven(KillTracked(c, g), g)
           q == Without(k1.spawnQueue, {g} \X Node)
           k2 == [k1 EXCEPT !.spawnQueue = q]
           k3 == NoDriversLeft(k2, g)
           t == Total(live[g], Node)
           d == DriverRuns(k2, g)
           j == Job("finish", 0, "-")
<1>1. /\ phase[g] = "open" /\ Killed(g) /\ UNCHANGED inits
      /\ untracked' = [untracked EXCEPT ![g] = @ + DriverRuns(k1, g)]
      /\ c' = Append1(k3, g, j)
  BY DEF Cancel
<1>2. WellFormed(phase, c) /\ c \in Shared /\ j \in QuietJobs
  BY QuietJobsAre DEF IndInv, WellFormed
<1>3. WellFormed(phase, k1) /\ k1 \in Shared /\ Shifts(c, k1, -t, {}) /\ t \in Int
  BY <1>1, <1>2, KillsShift
<1> HIDE DEF k1, t, j
<1>4. q \in Seq(Entries) /\ Thins(k1.spawnQueue, q)
  <2>1. k1.spawnQueue \in Seq(Entries)
    BY <1>3 DEF Shared
  <2> QED
    BY <2>1, WithoutIs
<1> HIDE DEF q
<1>5. WellFormed(phase, k2) /\ k2 \in Shared /\ Shifts(k1, k2, 0, {})
  <2>1. WellFormed(phase, k2)
    BY <1>3, <1>4, NewQueue DEF Slots
  <2>2. k2 \in Shared
    BY <2>1 DEF WellFormed
  <2>3. Served(k1, k2, {})
    BY <1>3, <1>4, <2>2, ThinServed
  <2> QED
    BY <1>3, <2>1, <2>2, <2>3, ServedShifts
<1>6. k2.runs = k1.runs
  BY <1>3 DEF Shared
<1> HIDE DEF k2
<1>7. DriverRuns(k1, g) = d /\ d \in Int
  <2>1. DriverRuns(k1, g) = Total(k1.runs[g], Node)
    BY <1>3, DriverRunsAre
  <2>2. d = Total(k2.runs[g], Node) /\ d \in Int
    BY <1>5, DriverRunsAre
  <2> QED
    BY <1>6, <2>1, <2>2
<1>8. WellFormed(phase, k3) /\ k3 \in Shared /\ Shifts(k2, k3, d, {})
  BY <1>5, NoDriversLeftIs, NoDriversLeftShifts DEF WellFormed
<1> HIDE DEF k3, d
<1>9. c' \in Shared /\ Shifts(k3, c', 0, {})
  BY <1>1, <1>2, <1>8, AppendShifts
<1> DEFINE a == -t
           s == a + d
<1>10. a \in Int /\ Shifts(c, k1, a, {}) /\ s \in Int /\ s = a + d
  BY <1>3, <1>7
<1>11. live \in [Graph -> [Node -> Int]] /\ untracked \in [Graph -> Int]
  BY DEF IndInv, Typed, SlotInv
<1>12. Owing(live', untracked) = Owing(live, untracked) - t /\ live' \in [Graph -> [Node -> Int]]
  BY <1>1, KilledOwes DEF t
<1>13. /\ untracked' \in [Graph -> Int] /\ untracked'[g] = untracked[g] + d
       /\ \A h \in Graph : h # g => untracked'[h] = untracked[h]
  BY <1>1, <1>7, <1>11
<1>14. Owing(live', untracked') = Owing(live', untracked) + d
  BY <1>7, <1>11, <1>12, <1>13, OwingUntracked
<1>15. Owing(live, untracked) \in Int
  BY <1>11, OwingIs
<1>16. Owing(live', untracked') <= Owing(live, untracked) + s
  BY <1>3, <1>7, <1>12, <1>14, <1>15
<1> HIDE DEF a, s
<1>17. Shifts(c, k2, a, {})
  BY <1>2, <1>3, <1>5, <1>10, ShiftsThen
<1>18. Shifts(c, k3, s, {})
  BY <1>2, <1>5, <1>7, <1>8, <1>10, <1>17, ShiftsShifts
<1>19. Shifts(c, c', s, {})
  BY <1>2, <1>8, <1>9, <1>10, <1>18, ShiftsThen
<1> QED
  BY <1>1, <1>10, <1>13, <1>16, <1>19, SlotShift

\* Nothing is out of line where nothing waits.
LEMMA LinedNone ==
  ASSUME NEW q, NEW d, NEW g, NEW n, Mine(q, g, n, d.init) = {}
  PROVE  Lined(q, d, g, n)
BY DEF Lined

\* A driver that waits for nothing is in order.
LEMMA IdleRound ==
  ASSUME NEW k \in Shared, NEW g \in Graph, NEW n \in Node, NEW i \in Nat, Idle(k, g, n, i)
  PROVE  RoundOK(k, g, n, i, 0)
<1>1. k.runs[g][n] \in Int /\ Acts(k, g, n) \in Nat
  BY ClaimsAreNat DEF Shared
<1>2. /\ i # 0 /\ k.ds[g][n].init = i /\ Upto(k.spawnQueue, g, n, i)
      /\ i = 1 => k.runs[g][n] + 0 = k.ds[g][n].known /\ ~k.ds[g][n].crossed
  BY <1>1 DEF Idle, Current
<1>3. ASSUME ~k.ds[g][n].crossed
      PROVE  /\ k.ds[g][n].mode = "turn" /\ k.ds[g][n].known = 0 /\ Acts(k, g, n) = 0
             /\ Mine(k.spawnQueue, g, n, i) = {} /\ Lined(k.spawnQueue, k.ds[g][n], g, n)
  BY <1>2, <1>3, LinedNone DEF Idle
<1> QED
  BY <1>2, <1>3 DEF RoundOK

\* So is one without a state.
LEMMA GoneRound ==
  ASSUME NEW k, NEW g, NEW n, NEW o, NEW i, i # 0, k.ds[g][n].init = 0,
         Upto(k.spawnQueue, g, n, i)
  PROVE  RoundOK(k, g, n, i, o)
BY DEF RoundOK

\* The fields of a state with one driver state replaced.
LEMMA WithDriverIs ==
  ASSUME NEW k \in Shared, NEW g \in Graph, NEW n \in Node, NEW d \in DriverStates
  PROVE  LET k2 == WithDriver(k, g, n, d)
         IN  /\ k2 \in Shared /\ k2.ds[g][n] = d /\ k2.runs = k.runs /\ k2.tail = k.tail
             /\ k2.spawnQueue = k.spawnQueue
             /\ k2.globalActiveSubAgents = k.globalActiveSubAgents
<1> DEFINE k2 == WithDriver(k, g, n, d)
<1>1. /\ k2.runs = k.runs /\ k2.tail = k.tail /\ k2.spawnQueue = k.spawnQueue
      /\ k2.globalActiveSubAgents = k.globalActiveSubAgents /\ k2.ds = [k.ds EXCEPT ![g][n] = d]
  BY DEF WithDriver, Shared
<1>2. k2.ds \in [Graph -> [Node -> DriverStates]] /\ k2.ds[g][n] = d
  BY <1>1 DEF Shared
<1>3. k2 \in Shared
  BY <1>2 DEF WithDriver, Shared
<1> QED
  BY <1>1, <1>2, <1>3

\* The state of a driver is dropped and a job joins the tail.
LEMMA DropShifts ==
  ASSUME NEW k \in Shared, NEW g \in Graph, NEW n \in Node, NEW j \in QuietJobs,
         NEW k2, k2 = Append1(NoDriver1(k, g, n), g, j),
         NEW i \in Nat, i # 0, Upto(k.spawnQueue, g, n, i)
  PROVE  /\ k2 \in Shared /\ Shifts(k, k2, 0, {<<g, n>>}) /\ RoundOK(k2, g, n, i, 0)
<1> DEFINE k1 == WithDriver(k, g, n, NoDriver)
           X == {<<g, n>>}
<1>1. k2 = Append1(k1, g, j)
  BY DEF NoDriver1, WithDriver
<1>2. NoDriver \in DriverStates /\ NoDriver.init = 0 /\ NoDriver.known = 0 /\ NoDriver.known >= 0
  BY DEF NoDriver, DriverStates
<1> HIDE DEF NoDriver
<1>3. /\ Shifts(k, k1, 0, X) /\ k1 \in Shared /\ k1.ds[g][n] = NoDriver
      /\ k1.spawnQueue = k.spawnQueue
  BY <1>2, DriverShifts, WithDriverIs
<1> HIDE DEF k1, X
<1>4. k2 \in Shared /\ Shifts(k1, k2, 0, X) /\ 0 \in Int
  BY <1>1, <1>3, AppendShifts
<1>5. Shifts(k, k2, 0, X)
  BY <1>3, <1>4, ShiftsThen
<1>6. k2.ds = k1.ds /\ k2.spawnQueue = k1.spawnQueue
  BY <1>1, <1>3 DEF Append1, Shared
<1>7. RoundOK(k2, g, n, i, 0)
  BY <1>2, <1>3, <1>6, GoneRound
<1> QED
  BY <1>4, <1>5, <1>7 DEF X

\* A driver whose state exists was started.
LEMMA DriverStarted ==
  ASSUME IndInv, NEW g \in Graph, NEW n \in Node, n \in DriverNodes(g)
  PROVE  <<g, n>> \in Driver /\ inits[g][n] \in Nat /\ inits[g][n] # 0
BY DEF IndInv, WellFormed, DriverNodes, GraphOK, Counted, Typed

\* A tail without first actions.
LEMMA NoActs ==
  ASSUME NEW k, NEW g, NEW n, Actionless(k.tail[g])
  PROVE  Acts(k, g, n) = 0
<1>1. {l \in 1 .. Len(k.tail[g]) : k.tail[g][l].op \in {"action"} /\ k.tail[g][l].n = n} = {}
  BY DEF Actionless
<1> QED
  BY <1>1, FS_EmptySet DEF Acts, Count

\* startDriverNode: the first action of a driver joins the tail.
LEMMA StartDriverSlots ==
  ASSUME IndInv, IndInv', SlotInv, NEW g \in Graph, StartDriver(g)
  PROVE  SlotInv'
<1> DEFINE n == Arg(g).n
           k == Popped(g)
           d == NewDriver(inits[g][n] + 1)
           k2 == WithDriver(k, g, n, d)
           st == [status[g] EXCEPT ![n] = IF @ = "ready" THEN "running" ELSE @]
           X == {<<g, n>>}
<1>1. /\ Next1(g, "driver") /\ UNCHANGED <<live, untracked>>
      /\ inits' = [inits EXCEPT ![g][n] = @ + 1]
  BY DEF StartDriver
<1>2. PICK a \in DriverActions(turns[g][n]) : c' = Persist(k2, g, st, <<Job("action", n, a)>>)
  BY DEF StartDriver, WithDriver
<1> DEFINE j == Job("action", n, a)
<1>3. /\ WellFormed(phase, k) /\ k \in Shared /\ c \in Shared /\ Shifts(c, k, 0, {})
  BY <1>1, PoppedShifts
<1>4. /\ Arg(g) \in JobsOf(phase, g) /\ Arg(g).op = "driver" /\ Actionless(k.tail[g])
  <2>1. "driver" # "finish"
    OBVIOUS
  <2> QED
    BY <1>1, <2>1, HeadIs
<1>5. n \in Node /\ <<g, n>> \in Driver /\ phase[g] # "absent"
  BY <1>4 DEF JobsOf
<1>6. j \in JobsOf(phase, g) /\ j.op = "action" /\ j.n = n
  <2>1. a \in Details
    BY ActionsAre
  <2> HIDE DEF n
  <2> QED
    BY <1>5, <2>1, NodeJob
<1>7. inits[g][n] \in Nat /\ live \in [Graph -> [Node -> Int]] /\ untracked \in [Graph -> Int]
  BY <1>5 DEF IndInv, Typed, SlotInv
<1>8. /\ d \in DriverStates /\ d.known >= 0 /\ d.known = 0 /\ d.mode = "turn"
      /\ d.init = inits[g][n] + 1 /\ d.crossed = FALSE
  BY <1>7 DEF NewDriver, DriverStates
<1> HIDE DEF d
<1>9. \A h \in Graph, m \in Node :
         inits'[h][m] = IF h = g /\ m = n THEN inits[g][n] + 1 ELSE inits[h][m]
  BY <1>1, <1>5 DEF IndInv, Typed
<1>a. inits'[g][n] = inits[g][n] + 1
  BY <1>5, <1>9
<1> HIDE DEF n, k, j, st
<1>10. WellFormed(phase, k2)
  BY <1>3, <1>5, <1>8, OneDriver
<1>11. /\ k2 \in Shared /\ k2.ds[g][n] = d /\ k2.runs = k.runs /\ k2.tail = k.tail
       /\ k2.spawnQueue = k.spawnQueue
  BY <1>3, <1>5, <1>8, WithDriverIs
<1>12. Shifts(k, k2, 0, X)
  BY <1>3, <1>5, <1>8, DriverShifts
<1> HIDE DEF k2
<1>13. Grown(k2, c', g, j) /\ c' \in Shared
  <2>1. c' = Persist(k2, g, st, <<j>>)
    BY <1>2 DEF j
  <2> QED
    BY <1>4, <1>6, <1>10, <1>11, <2>1, PersistOne DEF WellFormed
<1>14. Shifts(k2, c', 0, X) /\ 0 \in Int
  <2>1. Slot(j) = 0
    BY <1>6 DEF Slot
  <2>2. 0 - Slot(j) = 0
    BY <2>1
  <2>3. Shifts(k2, c', 0 - Slot(j), X)
    BY <1>6, <1>11, <1>13, GrownShifts
  <2> QED
    BY <2>2, <2>3
<1>15. Shifts(c, c', 0, X)
  <2>1. Shifts(c, k, 0, X)
    BY <1>3, ShiftsMore
  <2> HIDE DEF X
  <2>2. Shifts(c, k2, 0, X)
    BY <1>3, <1>11, <1>12, <1>14, <2>1, ShiftsThen
  <2> QED
    BY <1>3, <1>11, <1>13, <1>14, <2>2, ShiftsThen
<1>16. RoundOK(c', g, n, inits[g][n] + 1, 0)
  <2> DEFINE i == inits[g][n]
  <2>1. RoundOK(c, g, n, i, 0)
    BY <1>5 DEF SlotInv
  <2>2. RoundOK(k, g, n, i, 0)
    <3>1. Rounds(c, k, {}) /\ 0 \in 0 .. 1
      BY <1>3 DEF Shifts, SlotInv
    <3> QED
      BY <1>5, <1>7, <2>1, <3>1 DEF Rounds
  <2> HIDE DEF i
  <2>3. i \in Nat /\ Upto(k.spawnQueue, g, n, i) /\ (i = 0 => k.runs[g][n] = 0)
    BY <1>7, <2>2 DEF RoundOK, i
  <2>4. c'.ds = k2.ds /\ c'.runs = k.runs /\ c'.spawnQueue = k.spawnQueue
    BY <1>11, <1>13 DEF Grown
  <2>5. Mine(k.spawnQueue, g, n, i + 1) = {} /\ Upto(k.spawnQueue, g, n, i + 1)
    <3>1. k.spawnQueue \in Seq(Entries)
      BY <1>3 DEF Shared
    <3>2. \A l \in 1 .. Len(k.spawnQueue) : k.spawnQueue[l] \in Entries
      BY <3>1
    <3>3. \A e \in Entries : e.init \in Nat
      BY DEF Entries
    <3> QED
      BY <2>3, <3>2, <3>3 DEF Mine, Upto
  <2>6. Acts(c', g, n) = 1
    <3>1. Acts(k2, g, n) = 0
      BY <1>4, <1>11, NoActs
    <3>2. Hit(j, {"action"}, n) = 1
      BY <1>6 DEF Hit
    <3>3. Acts(c', g, n) = Acts(k2, g, n) + Hit(j, {"action"}, n)
      BY <1>5, <1>13 DEF Grown
    <3> QED
      BY <3>1, <3>2, <3>3
  <2>7. c'.ds[g][n] = d /\ d.init = i + 1
    BY <1>8, <1>11, <2>4 DEF i
  <2>8. Lined(c'.spawnQueue, d, g, n) /\ Mine(c'.spawnQueue, g, n, d.init) = {}
    BY <2>4, <2>5, <2>7, LinedNone
  <2>9. i + 1 = 1 => c'.runs[g][n] + 0 = d.known
    BY <1>8, <2>3, <2>4
  <2>10. i + 1 # 0 /\ Upto(c'.spawnQueue, g, n, i + 1)
    BY <2>3, <2>4, <2>5
  <2>11. d.mode = "turn" /\ d.known = 0 /\ ~d.crossed
    BY <1>8
  <2>12. RoundOK(c', g, n, i + 1, 0)
    <3> HIDE DEF d
    <3> QED
      BY <2>6, <2>7, <2>8, <2>9, <2>10, <2>11 DEF RoundOK
  <2> QED
    BY <2>12 DEF i
<1>17. \A h \in Graph, m \in Node : <<h, m>> \in Driver \ X => inits'[h][m] = inits[h][m]
  BY <1>9
<1>18. ASSUME NEW h \in Graph, NEW m \in Node, <<h, m>> \in Driver \cap X
       PROVE  RoundOK(c', h, m, inits'[h][m], 0)
  <2>1. h = g /\ m = n
    BY <1>18
  <2> QED
    BY <1>16, <2>1, <1>a
<1>19. Owing(live', untracked') <= Owing(live, untracked) + 0
  <2>1. Owing(live, untracked) \in Int
    BY <1>7, OwingIs
  <2> QED
    BY <1>1, <2>1
<1>20. untracked' \in [Graph -> Int]
  BY <1>1, <1>7
<1> HIDE DEF X
<1> QED
  BY <1>14, <1>15, <1>17, <1>18, <1>19, <1>20, SlotStep

\* The round of n in g is right in k.
Own(k, g, n) == RoundOK(k, g, n, inits[g][n], 0)

\* executeDriverAction of a driver that waits for nothing.
LEMMA ExecSlots ==
  ASSUME IndInv, IndInv', NEW g \in Graph, NEW n \in Node, n \in DriverNodes(g),
         NEW k, Slots(phase, c, k), Full(k), Idle(k, g, n, inits[g][n]),
         NEW a, ExecuteDriverAction(k, g, n, a)
  PROVE  Shifts(k, c', 0, {<<g, n>>}) /\ Own(c', g, n)
<1> DEFINE e(kind) == Entry(g, n, kind, k.ds[g][n].init)
           w == ParRound(k, g, n)
           d == DriverState(k.ds[g][n].init, "par", 0, k.ds[g][n].crossed)
           X == {<<g, n>>}
           i == inits[g][n]
<1>1. \/ c' = GatedSpawn(k, e("turn"))
      \/ c' = FanOut(w, e("par"), Fan)
      \/ c' = Settled(NoDriver1(k, g, n), g, Completed(g, n))
      \/ c' = Append1(NoDriver1(k, g, n), g, Job("failed", n, "-"))
  BY DEF ExecuteDriverAction, FanOut, ParRound, WithDriver
<1>2. WellFormed(phase, k) /\ k \in Shared /\ k.ds[g][n] \in DriverStates /\ c' \in Shared
  <2>1. WellFormed(phase, k)
    BY DEF Slots
  <2>2. k \in Shared
    BY <2>1 DEF WellFormed
  <2>3. k.ds[g][n] \in DriverStates
    BY <2>2 DEF Shared
  <2>4. c' \in Shared
    BY DEF IndInv, WellFormed
  <2> QED
    BY <2>1, <2>2, <2>3, <2>4
<1>3. e("turn") \in Entries /\ e("par") \in Entries
  <2>1. k.ds[g][n].init # 0 /\ k.ds[g][n].init \in Nat
    BY <1>2 DEF Slots, Keeps, DriverNodes, DriverStates
  <2>2. <<g, n>> \in Driver
    BY <1>2, <2>1 DEF WellFormed
  <2> QED
    BY <2>1, <2>2 DEF Entry, Entries
<1>4. w = WithDriver(k, g, n, d) /\ d \in DriverStates
  BY <1>2, ParEdited DEF ParRound
<1>5. /\ d.init = k.ds[g][n].init /\ d.mode = "par" /\ d.known = 0 /\ d.known >= 0
      /\ d.crossed = k.ds[g][n].crossed
  BY DEF DriverState
<1>a. /\ i \in Nat /\ i # 0 /\ Idle(k, g, n, i) /\ k.ds[g][n].init = i
      /\ Upto(k.spawnQueue, g, n, i)
  BY DriverStarted DEF Idle, Current
<1> DEFINE e1 == e("turn")
           e2 == e("par")
<1>6. /\ e1.g = g /\ e1.n = n /\ e1.kind = "turn" /\ e1.init = k.ds[g][n].init
      /\ e2.g = g /\ e2.n = n /\ e2.kind = "par" /\ e2.init = k.ds[g][n].init
  BY DEF Entry
<1> HIDE DEF d, w, e1, e2, i
<1>7. CASE c' = GatedSpawn(k, e("turn"))
  <2>1. c' = GatedSpawn(k, e1) /\ e1 \in Entries
    BY <1>3, <1>7 DEF e1
  <2>2. Served(k, c', X)
    BY <1>2, <1>6, <2>1, GatedServed
  <2>3. Shifts(k, c', 0, X)
    BY <1>2, <2>2, ServedShifts
  <2>4. RoundOK(c', g, n, i, 0)
    <3>1. Idle(k, e1.g, e1.n, e1.init)
      BY <1>6, <1>a
    <3>2. RoundOK(c', e1.g, e1.n, e1.init, 0)
      BY <1>2, <1>6, <2>1, <3>1, TurnAsked
    <3> QED
      BY <1>6, <1>a, <3>2
  <2> QED
    BY <2>3, <2>4 DEF Own, i
<1>8. CASE c' = FanOut(w, e("par"), Fan)
  <2>1. c' = FanOut(w, e2, Fan) /\ e2 \in Entries /\ Fan \in Nat
    BY <1>3, <1>8, CoordinatorAssumption DEF e2
  <2>2. /\ w \in Shared /\ w.ds[g][n] = d /\ w.runs = k.runs /\ w.tail = k.tail
        /\ w.spawnQueue = k.spawnQueue /\ w.globalActiveSubAgents = k.globalActiveSubAgents
    BY <1>2, <1>4, WithDriverIs
  <2>3. WellFormed(phase, w)
    BY <1>2, <1>4, <1>5, NewWait DEF Slots
  <2>4. Shifts(k, w, 0, X) /\ 0 \in Int
    BY <1>2, <1>4, <1>5, DriverShifts
  <2>5. Served(w, c', X) /\ (Asked(w, e2) => Spread(c', g, n, e2.init))
    BY <1>6, <2>1, <2>3, FanOutIs
  <2>6. Shifts(w, c', 0, X)
    BY <1>2, <2>2, <2>5, ServedShifts
  <2>7. Shifts(k, c', 0, X)
    <3> HIDE DEF X
    <3> QED
      BY <1>2, <2>2, <2>4, <2>6, ShiftsThen
  <2>8. RoundOK(c', g, n, i, 0)
    <3>1. /\ i = 1 => k.runs[g][n] = k.ds[g][n].known /\ ~k.ds[g][n].crossed
          /\ ~k.ds[g][n].crossed => /\ k.ds[g][n].known = 0 /\ Acts(k, g, n) = 0
                                    /\ Mine(k.spawnQueue, g, n, i) = {}
      BY <1>a DEF Idle, Current
    <3>2. Acts(w, g, n) = Acts(k, g, n)
      BY <2>2 DEF Acts
    <3>3. Current(w, g, n, i)
      BY <1>5, <1>a, <2>2, <3>1 DEF Current
    <3>4. ~d.crossed => /\ d.mode = "par" /\ Acts(w, g, n) = 0 /\ d.known = 0
                        /\ Mine(w.spawnQueue, g, n, i) = {}
      BY <1>5, <2>2, <3>1, <3>2
    <3>5. Spread(w, g, n, i)
      BY <2>2, <3>3, <3>4 DEF Spread
    <3>6. Full(w)
      BY <2>2 DEF Full
    <3>7. Spread(c', g, n, i)
      BY <1>6, <1>a, <2>5, <3>5, <3>6 DEF Asked
    <3> QED
      BY <1>2, <1>a, <3>7, SpreadRound
  <2> QED
    BY <2>7, <2>8 DEF Own, i
<1>9. CASE \E j \in QuietJobs : c' = Append1(NoDriver1(k, g, n), g, j)
  <2> PICK j \in QuietJobs : c' = Append1(NoDriver1(k, g, n), g, j)
    BY <1>9
  <2>1. Shifts(k, c', 0, {<<g, n>>}) /\ RoundOK(c', g, n, i, 0)
    BY <1>2, <1>a, DropShifts
  <2> QED
    BY <2>1 DEF Own, i
<1>10. ASSUME \/ c' = Settled(NoDriver1(k, g, n), g, Completed(g, n))
              \/ c' = Append1(NoDriver1(k, g, n), g, Job("failed", n, "-"))
       PROVE  \E j \in QuietJobs : c' = Append1(NoDriver1(k, g, n), g, j)
  <2>1. Job("finish", 0, "-") \in QuietJobs /\ Job("ready", 1, "-") \in QuietJobs
    BY QuietJobsAre
  <2>2. Job("failed", n, "-") \in QuietJobs
    BY QuietJobsAre
  <2> QED
    BY <1>10, <2>1, <2>2 DEF Settled
<1> QED
  BY <1>1, <1>7, <1>8, <1>9, <1>10

\* A step of a driver node that leaves the sub-agents alone.
LEMMA SlotDriver ==
  ASSUME IndInv, IndInv', SlotInv, NEW g \in Graph, NEW n \in Node, NEW a \in Nat,
         Shifts(c, c', a, {<<g, n>>}), UNCHANGED <<live, untracked, inits>>,
         <<g, n>> \in Driver => Own(c', g, n)
  PROVE  SlotInv'
<1> DEFINE X == {<<g, n>>}
<1>1. live \in [Graph -> [Node -> Int]] /\ untracked \in [Graph -> Int]
  BY DEF IndInv, Typed, SlotInv
<1>2. Owing(live, untracked) \in Int
  BY <1>1, OwingIs
<1>3. Owing(live', untracked') <= Owing(live, untracked) + a /\ a \in Int
  BY <1>2
<1>4. \A h \in Graph, m \in Node : <<h, m>> \in Driver \cap X =>
         RoundOK(c', h, m, inits'[h][m], 0)
  <2> SUFFICES ASSUME NEW h \in Graph, NEW m \in Node, <<h, m>> \in Driver \cap X
               PROVE  RoundOK(c', h, m, inits'[h][m], 0)
    OBVIOUS
  <2>1. h = g /\ m = n
    OBVIOUS
  <2> QED
    BY <2>1 DEF Own
<1> HIDE DEF X
<1>5. Shifts(c, c', a, X)
  BY DEF X
<1> QED
  BY <1>1, <1>3, <1>4, <1>5, SlotStep

\* The first action of a driver.
LEMMA DriverActionSlots ==
  ASSUME IndInv, IndInv', SlotInv, NEW g \in Graph, DriverAction(g)
  PROVE  SlotInv'
<1> DEFINE n == Arg(g).n
           x == Arg(g).x
           k == Popped(g)
           X == {<<g, n>>}
<1>1. Next1(g, "action") /\ UNCHANGED <<live, untracked, inits>>
  BY DEF DriverAction
<1>2. /\ WellFormed(phase, k) /\ k \in Shared /\ c \in Shared /\ c' \in Shared /\ Shifts(c, k, 0, {})
  BY <1>1, PoppedShifts DEF IndInv, WellFormed
<1>3. n \in Node
  BY <1>1, HeadIs
<1>4. CASE n \notin DriverNodes(g)
  <2>1. c' = k
    BY <1>4 DEF DriverAction
  <2> QED
    BY <1>1, <1>2, <2>1, SlotServe
<1>5. CASE n \in DriverNodes(g)
  <2>1. ExecuteDriverAction(k, g, n, x)
    BY <1>5 DEF DriverAction
  <2>2. Slots(phase, c, k) /\ Full(k)
    <3>1. WellFormed(phase, c)
      BY DEF IndInv
    <3>2. Slots(phase, c, k)
      BY <1>1, <3>1, PoppedQuiet
    <3> QED
      BY <1>2, <3>2 DEF Shifts, SlotInv
  <2>3. <<g, n>> \in Driver /\ inits[g][n] \in Nat /\ inits[g][n] # 0
    BY <1>3, <1>5, DriverStarted
  <2>4. Idle(k, g, n, inits[g][n])
    <3> DEFINE i == inits[g][n]
               s == c.ds[g][n]
    <3>1. RoundOK(c, g, n, i, 0) /\ s.init # 0
      BY <1>3, <1>5, <2>3 DEF SlotInv, DriverNodes
    <3>2. Grown(k, c, g, Arg(g)) /\ Arg(g).op = "action"
      BY <1>1, PoppedIs DEF IndInv, Next1, Arg
    <3>3. Acts(c, g, n) = Acts(k, g, n) + 1
      <4>1. Hit(Arg(g), {"action"}, n) = 1
        BY <3>2 DEF Hit
      <4> HIDE DEF n, k
      <4>2. Acts(c, g, n) = Acts(k, g, n) + Hit(Arg(g), {"action"}, n)
        BY <1>3, <3>2 DEF Grown
      <4> QED
        BY <4>1, <4>2
    <3> HIDE DEF n, k, i
    <3>4. Acts(k, g, n) \in Nat /\ c.runs[g][n] \in Int
      BY <1>2, <1>3, ClaimsAreNat DEF Shared
    <3>5. /\ s.init = i /\ Upto(c.spawnQueue, g, n, i)
          /\ i = 1 => c.runs[g][n] + 0 = s.known /\ ~s.crossed
      BY <3>1 DEF RoundOK
    <3>6. ~s.crossed =>
             /\ Acts(c, g, n) <= 1
             /\ Acts(c, g, n) = 1 => s.known = 0 /\ s.mode = "turn" /\ Mine(c.spawnQueue, g, n, i) = {}
      BY <3>1, <3>5 DEF RoundOK
    <3>7. k.ds = c.ds /\ k.runs = c.runs /\ k.spawnQueue = c.spawnQueue
      BY <3>2 DEF Grown
    <3>8. ~s.crossed => Acts(k, g, n) = 0 /\ Acts(c, g, n) = 1
      BY <3>3, <3>4, <3>6
    <3>9. Current(k, g, n, i)
      BY <2>3, <3>4, <3>5, <3>7 DEF Current, i
    <3>10. Idle(k, g, n, i)
      BY <3>6, <3>7, <3>8, <3>9 DEF Idle
    <3> QED
      BY <3>10 DEF i
  <2> HIDE DEF n, k, x
  <2>5. Shifts(k, c', 0, {<<g, n>>}) /\ Own(c', g, n)
    BY <1>3, <1>5, <2>1, <2>2, <2>4, ExecSlots
  <2>6. Shifts(c, k, 0, X) /\ 0 \in Int
    BY <1>2, ShiftsMore
  <2>7. Shifts(c, c', 0, {<<g, n>>})
    <3>1. Shifts(k, c', 0, X)
      BY <2>5
    <3> HIDE DEF X
    <3>2. Shifts(c, c', 0, X)
      BY <1>2, <2>6, <3>1, ShiftsThen
    <3> QED
      BY <3>2 DEF X
  <2> QED
    BY <1>1, <1>3, <2>5, <2>7, SlotDriver
<1> QED
  BY <1>4, <1>5

\* What is known of a driver one of whose runs has just ended. The run is one of
\* the first state, or perhaps of an earlier one; if it was the last one of an
\* undisturbed round, nothing of the round waits for a slot.
Ending(k, g, n, i, own) ==
    LET d == k.ds[g][n]
    IN  /\ RoundOK(k, g, n, i, 1) /\ d.init # 0
        /\ i = 1 => own
        /\ own /\ ~d.crossed =>
              d.known > 0 /\ (d.known <= 1 => Mine(k.spawnQueue, g, n, i) = {})

\* Such a round is over when no run is left, and its driver then waits for nothing.
LEMMA EndingIdle ==
  ASSUME NEW k \in Shared, NEW g \in Graph, NEW n \in Node, NEW i \in Nat, NEW own \in BOOLEAN,
         Ending(k, g, n, i, own), own, ~k.ds[g][n].crossed, k.ds[g][n].known <= 1
  PROVE  /\ Acts(k, g, n) = 0 /\ Mine(k.spawnQueue, g, n, i) = {}
         /\ i = 1 => k.runs[g][n] = 0
<1>1. Acts(k, g, n) \in Nat /\ k.runs[g][n] \in Int /\ k.ds[g][n].known \in Int
  BY ClaimsAreNat DEF Shared, DriverStates
<1>2. /\ i = 1 => k.runs[g][n] + 1 = k.ds[g][n].known
      /\ Acts(k, g, n) <= 1 /\ (Acts(k, g, n) = 1 => k.ds[g][n].known = 0)
      /\ k.ds[g][n].known > 0 /\ Mine(k.spawnQueue, g, n, i) = {}
  BY DEF Ending, RoundOK
<1> QED
  BY <1>1, <1>2

\* handleDriverTurnCompleted.
LEMMA TurnSlots ==
  ASSUME IndInv, IndInv', NEW g \in Graph, NEW n \in Node, n \in DriverNodes(g), NEW own \in BOOLEAN,
         NEW k, Slots(phase, c, k), Full(k), DriverTurnCompleted(k, g, n, own),
         Ending(k, g, n, inits[g][n], own)
  PROVE  Shifts(k, c', 0, {<<g, n>>}) /\ Own(c', g, n)
<1> DEFINE s == k.ds[g][n]
           left == IF s.mode = "par" THEN s.known - (IF own THEN 1 ELSE 0) ELSE 0
           b == s.crossed \/ ~own
           kept == KeptRound(k, g, n, left, b)
           over == OverRound(k, g, n, b)
           v == DriverState(s.init, s.mode, left, b)
           d == DriverState(s.init, "turn", 0, b)
           X == {<<g, n>>}
           i == inits[g][n]
<1>1. \/ left > 0 /\ c' = kept
      \/ ~(left > 0) /\ c' = over
      \/ left = 0 /\ \E a : ExecuteDriverAction(over, g, n, a)
      \/ c' = Append1(NoDriver1(k, g, n), g, Job("expire", 0, "-"))
      \/ c' = Append1(NoDriver1(k, g, n), g, Job("failed", n, "-"))
      \/ c' = Settled(NoDriver1(k, g, n), g, Completed(g, n))
  BY DEF DriverTurnCompleted, KeptRound, OverRound, WithDriver
<1>2. WellFormed(phase, k) /\ k \in Shared
  BY DEF Slots, WellFormed
<1>3. c' \in Shared /\ c \in Shared
  BY DEF IndInv, WellFormed
<1>4. s \in DriverStates /\ s.known \in Int /\ s.crossed \in BOOLEAN
  BY <1>2 DEF Shared, DriverStates
<1>5. left \in Int /\ b \in BOOLEAN
  BY <1>4
<1>a. /\ i \in Nat /\ i # 0 /\ s.init = i /\ Upto(k.spawnQueue, g, n, i)
      /\ Ending(k, g, n, i, own) /\ RoundOK(k, g, n, i, 1)
      /\ i = 1 => ~b /\ k.runs[g][n] + 1 = s.known
  BY DriverStarted DEF Ending, RoundOK
<1>b. left > 0 => s.mode = "par" /\ (own => left = s.known - 1)
  BY <1>4
<1>c. ~b /\ ~(left > 0) => own /\ ~s.crossed /\ s.known <= 1
  <2>1. ~s.crossed => (s.mode = "turn" => s.known <= 1) /\ s.mode \in {"turn", "par"}
    BY <1>a DEF RoundOK
  <2> QED
    BY <1>4, <2>1
<1>d. ~b => own /\ ~s.crossed
  OBVIOUS
<1> HIDE DEF left, b, i
<1>6. /\ kept = WithDriver(k, g, n, v) /\ over = WithDriver(k, g, n, d)
      /\ v \in DriverStates /\ d \in DriverStates
  <2>1. v \in DriverStates /\ d \in DriverStates
    BY <1>4, <1>5, DriverEdited
  <2> QED
    BY <2>1 DEF KeptRound, OverRound
<1>7. /\ v.init = s.init /\ v.mode = s.mode /\ v.known = left /\ v.crossed = b
      /\ d.init = s.init /\ d.mode = "turn" /\ d.known = 0 /\ d.known >= 0 /\ d.crossed = b
  BY DEF DriverState
<1> HIDE DEF v, d, kept, over
<1>8. CASE left > 0 /\ c' = kept
  <2>1. c' = WithDriver(k, g, n, v) /\ v.known >= 0
    BY <1>5, <1>6, <1>7, <1>8
  <2>2. Shifts(k, c', 0, X)
    BY <1>2, <1>6, <2>1, DriverShifts
  <2>3. /\ c'.ds[g][n] = v /\ c'.runs = k.runs /\ c'.tail = k.tail
        /\ c'.spawnQueue = k.spawnQueue
    BY <1>2, <1>6, <2>1, WithDriverIs
  <2>4. s.mode = "par" /\ (own => left = s.known - 1) /\ left > 0
    BY <1>8, <1>b
  <2>5. k.runs[g][n] \in Int /\ Acts(k, g, n) \in Nat /\ Acts(c', g, n) = Acts(k, g, n)
    BY <1>2, <2>3, ClaimsAreNat DEF Shared, Acts
  <2>6. i = 1 => c'.runs[g][n] + 0 = v.known /\ ~v.crossed
    BY <1>4, <1>7, <1>a, <1>d, <2>3, <2>4, <2>5
  <2>7. ASSUME ~b PROVE Acts(c', g, n) = 0 /\ Lined(c'.spawnQueue, v, g, n)
    <3>1. own /\ ~s.crossed /\ s.known > 0
      BY <1>a, <1>d, <2>7 DEF Ending
    <3>2. /\ Acts(k, g, n) <= 1 /\ (Acts(k, g, n) = 1 => s.known = 0)
          /\ Lined(k.spawnQueue, s, g, n)
      BY <1>a, <3>1 DEF RoundOK
    <3>3. Lined(k.spawnQueue, v, g, n)
      BY <1>7, <2>4, <3>1, <3>2 DEF Lined
    <3> QED
      BY <1>4, <2>3, <2>5, <3>1, <3>2, <3>3
  <2>8. v.init = i /\ v.mode = "par" /\ v.crossed = b
    BY <1>7, <1>a, <2>4
  <2>9. RoundOK(c', g, n, i, 0)
    BY <1>a, <2>3, <2>6, <2>7, <2>8 DEF RoundOK
  <2> QED
    BY <2>2, <2>9 DEF Own, i
<1>9. Shifts(k, over, 0, X)
  BY <1>2, <1>6, <1>7, DriverShifts
<1>10. /\ over \in Shared /\ over.ds[g][n] = d /\ over.runs = k.runs /\ over.tail = k.tail
       /\ over.spawnQueue = k.spawnQueue
       /\ over.globalActiveSubAgents = k.globalActiveSubAgents
  BY <1>2, <1>6, WithDriverIs
<1>11. ASSUME ~(left > 0) PROVE Idle(over, g, n, i)
  <2>1. ASSUME ~b PROVE /\ Acts(k, g, n) = 0 /\ Mine(k.spawnQueue, g, n, i) = {}
                        /\ i = 1 => k.runs[g][n] = 0
    <3>1. own /\ ~k.ds[g][n].crossed /\ k.ds[g][n].known <= 1
      BY <1>11, <1>c, <2>1
    <3> QED
      BY <1>2, <1>a, <3>1, EndingIdle
  <2>2. Acts(over, g, n) = Acts(k, g, n)
    BY <1>10 DEF Acts
  <2>3. Current(over, g, n, i)
    BY <1>7, <1>10, <1>a, <2>1 DEF Current
  <2> QED
    BY <1>7, <1>10, <2>1, <2>2, <2>3 DEF Idle
<1>12. CASE ~(left > 0) /\ c' = over
  <2>1. RoundOK(over, g, n, i, 0)
    BY <1>10, <1>11, <1>12, <1>a, IdleRound
  <2> QED
    BY <1>9, <1>12, <2>1 DEF Own, i
<1>13. CASE left = 0 /\ \E a : ExecuteDriverAction(over, g, n, a)
  <2>1. Slots(phase, c, over)
    <3>1. Slots(phase, k, over)
      BY <1>2, <1>6, <1>7, NewWait
    <3> QED
      BY <3>1, SlotsSlots
  <2>2. Full(over)
    BY <1>10 DEF Full
  <2>3. Idle(over, g, n, inits[g][n])
    BY <1>5, <1>11, <1>13 DEF i
  <2>4. Shifts(over, c', 0, {<<g, n>>}) /\ Own(c', g, n)
    BY <1>13, <2>1, <2>2, <2>3, ExecSlots
  <2>5. Shifts(k, c', 0, X)
    <3>1. Shifts(over, c', 0, X) /\ 0 \in Int
      BY <2>4
    <3> HIDE DEF X
    <3> QED
      BY <1>2, <1>3, <1>9, <1>10, <3>1, ShiftsThen
  <2> QED
    BY <2>4, <2>5
<1>14. ASSUME \/ c' = Append1(NoDriver1(k, g, n), g, Job("expire", 0, "-"))
              \/ c' = Append1(NoDriver1(k, g, n), g, Job("failed", n, "-"))
              \/ c' = Settled(NoDriver1(k, g, n), g, Completed(g, n))
       PROVE  \E j \in QuietJobs : c' = Append1(NoDriver1(k, g, n), g, j)
  <2>1. /\ Job("finish", 0, "-") \in QuietJobs /\ Job("ready", 1, "-") \in QuietJobs
        /\ Job("expire", 0, "-") \in QuietJobs
    BY QuietJobsAre
  <2>2. Job("failed", n, "-") \in QuietJobs
    BY QuietJobsAre
  <2> QED
    BY <1>14, <2>1, <2>2 DEF Settled
<1>15. CASE \E j \in QuietJobs : c' = Append1(NoDriver1(k, g, n), g, j)
  <2> PICK j \in QuietJobs : c' = Append1(NoDriver1(k, g, n), g, j)
    BY <1>15
  <2>1. Shifts(k, c', 0, {<<g, n>>}) /\ RoundOK(c', g, n, i, 0)
    BY <1>2, <1>a, DropShifts
  <2> QED
    BY <2>1 DEF Own, i
<1> QED
  BY <1>1, <1>8, <1>12, <1>13, <1>14, <1>15

\* The state with the runs of one node replaced.
LEMMA WithRunsIs ==
  ASSUME NEW k \in Shared, NEW g \in Graph, NEW n \in Node, NEW v \in Int
  PROVE  LET k2 == WithRuns(k, g, n, v)
         IN  /\ k2 \in Shared /\ k2.runs[g][n] = v /\ k2.ds = k.ds /\ k2.tail = k.tail
             /\ k2.spawnQueue = k.spawnQueue
             /\ k2.globalActiveSubAgents = k.globalActiveSubAgents
<1> DEFINE k2 == WithRuns(k, g, n, v)
<1>1. /\ k2.ds = k.ds /\ k2.tail = k.tail /\ k2.spawnQueue = k.spawnQueue
      /\ k2.globalActiveSubAgents = k.globalActiveSubAgents /\ k2.runs = [k.runs EXCEPT ![g][n] = v]
  BY DEF WithRuns, Shared
<1>2. k2.runs \in [Graph -> [Node -> Int]] /\ k2.runs[g][n] = v
  BY <1>1 DEF Shared
<1>3. k2 \in Shared
  BY <1>2 DEF WithRuns, Shared
<1> QED
  BY <1>1, <1>2, <1>3

\* A run of a driver ends.
LEMMA DriverRunEndsSlots ==
  ASSUME IndInv, IndInv', SlotInv, NEW g \in Graph, NEW n \in Node, NEW own \in BOOLEAN,
         DriverRunEnds(g, n, own)
  PROVE  SlotInv'
<1> DEFINE u == c.runs[g][n] - 1
           k0 == WithRuns(c, g, n, u)
           k == ReleaseAndDrainQueue(k0)
           X == {<<g, n>>}
<1>1. /\ \/ n \in DriverNodes(g) /\ DriverTurnCompleted(k, g, n, own)
         \/ n \notin DriverNodes(g) /\ c' = k
      /\ UNCHANGED <<live, untracked, inits>>
      /\ c.runs[g][n] > 0
      /\ IF own THEN c.ds[g][n].known > 0 ELSE c.runs[g][n] > c.ds[g][n].known
  BY DEF DriverRunEnds, WithRuns
<1>2. /\ WellFormed(phase, c) /\ c \in Shared /\ c' \in Shared
      /\ c.runs[g][n] \in Int /\ u \in Int /\ 1 = c.runs[g][n] - u
  <2>1. WellFormed(phase, c) /\ c \in Shared /\ c' \in Shared
    BY DEF IndInv, WellFormed
  <2>2. c.runs[g][n] \in Int
    BY <2>1 DEF Shared
  <2> QED
    BY <2>1, <2>2
<1> HIDE DEF u
<1>3. Slots(phase, c, k0)
  BY <1>2, NewRuns
<1>4. /\ k0 \in Shared /\ k0.runs[g][n] = u /\ k0.ds = c.ds /\ k0.tail = c.tail
      /\ k0.spawnQueue = c.spawnQueue /\ k0.globalActiveSubAgents = c.globalActiveSubAgents
  BY <1>2, WithRunsIs
<1>5. Shifts(c, k0, 1, X)
  BY <1>2, RunsShifts
<1> HIDE DEF k0
<1>6. Slots(phase, c, k) /\ WellFormed(phase, k0) /\ k \in Shared
  <2>1. Slots(phase, k0, k) /\ WellFormed(phase, k0)
    BY <1>3, ReleaseIs DEF Slots
  <2> QED
    BY <1>3, <2>1, SlotsSlots DEF Slots, WellFormed
<1>7. Shifts(k0, k, -1, {}) /\ Knows(k0, k)
  BY <1>6, ReleaseShifts
<1>8. Shifts(c, k, 0, X)
  <2>1. Shifts(k0, k, -1, X)
    BY <1>7, ShiftsMore
  <2>2. 1 \in Int /\ -1 \in Int /\ 0 = 1 + (-1)
    OBVIOUS
  <2> HIDE DEF X, k
  <2> QED
    BY <1>2, <1>4, <1>5, <1>6, <2>1, <2>2, ShiftsShifts
<1>9. InLimit(k0) /\ Full(k)
  <2>1. Knowing(c) /\ InLimit(c) /\ Full(c)
    BY DEF SlotInv
  <2> HIDE DEF k
  <2> QED
    BY <1>5, <1>8, <2>1 DEF Shifts
<1>a. Rounds(k0, k, {}) /\ 0 \in 0 .. 1 /\ 1 \in 0 .. 1
  <2>1. Knowing(k0)
    BY <1>4 DEF Knowing, SlotInv
  <2> QED
    BY <1>7, <2>1 DEF Shifts
<1>10. CASE n \notin DriverNodes(g)
  <2>1. c' = k
    BY <1>1, <1>10
  <2> HIDE DEF k
  <2>2. c.ds[g][n].init = 0 /\ k.ds[g][n].init = 0
    BY <1>6, <1>10 DEF DriverNodes, Slots, Keeps
  <2>3. ASSUME <<g, n>> \in Driver PROVE Own(c', g, n)
    <3>1. inits[g][n] \in Nat /\ RoundOK(c, g, n, inits[g][n], 0)
      BY <2>3 DEF SlotInv, IndInv, Typed
    <3>2. inits[g][n] # 0 /\ Upto(c.spawnQueue, g, n, inits[g][n])
      BY <1>1, <1>2, <3>1 DEF RoundOK
    <3>3. RoundOK(k0, g, n, inits[g][n], 0)
      BY <1>4, <2>2, <3>2, GoneRound
    <3> QED
      BY <1>a, <2>1, <2>3, <3>1, <3>3 DEF Rounds, Own
  <2>4. Shifts(c, c', 0, {<<g, n>>}) /\ 0 \in Nat
    BY <1>8, <2>1
  <2> QED
    BY <1>1, <2>3, <2>4, SlotDriver
<1>11. CASE n \in DriverNodes(g)
  <2>1. DriverTurnCompleted(k, g, n, own)
    BY <1>1, <1>11
  <2>2. <<g, n>> \in Driver /\ inits[g][n] \in Nat /\ inits[g][n] # 0
    BY <1>11, DriverStarted
  <2>3. Ending(k, g, n, inits[g][n], own)
    <3> DEFINE i == inits[g][n]
    <3>1. i \in Nat /\ i # 0 /\ RoundOK(c, g, n, i, 0) /\ c.ds[g][n].init # 0
      BY <1>11, <2>2 DEF SlotInv, DriverNodes
    <3> HIDE DEF i
    <3>2. i = 1 => c.runs[g][n] + 0 = c.ds[g][n].known
      BY <3>1 DEF RoundOK
    <3>3. i = 1 => own /\ u + 1 = c.ds[g][n].known
      BY <1>1, <1>2, <3>2
    <3>4. RoundOK(k0, g, n, i, 1)
      <4>1. Acts(k0, g, n) = Acts(c, g, n)
        BY <1>4 DEF Acts
      <4>2. i = 1 => k0.runs[g][n] + 1 = k0.ds[g][n].known
        BY <1>4, <3>3
      <4> QED
        BY <1>4, <3>1, <4>1, <4>2 DEF RoundOK
    <3>5. RoundOK(k, g, n, i, 1)
      <4> HIDE DEF k
      <4> QED
        BY <1>a, <2>2, <3>1, <3>4 DEF Rounds
    <3>6. /\ k.ds[g][n].init # 0 /\ k.ds[g][n].mode = k0.ds[g][n].mode
          /\ k.ds[g][n].crossed = k0.ds[g][n].crossed
          /\ own => k0.ds[g][n].known > 0 /\ k.ds[g][n].known > 0
      <4> HIDE DEF k
      <4> QED
        BY <1>1, <1>4, <1>6, <1>7, <3>1 DEF Knows, Slots, Keeps
    <3>7. ASSUME own, ~k.ds[g][n].crossed, k.ds[g][n].known <= 1
          PROVE  Mine(k.spawnQueue, g, n, i) = {}
      <4>1. k.ds[g][n].init = i
        BY <3>5, <3>6 DEF RoundOK
      <4>2. CASE k0.ds[g][n].mode = "par"
        <5>1. Ongoing(k0, g, n, i)
          BY <1>4, <3>1, <3>4, <3>6, <3>7, <4>2 DEF Ongoing
        <5>2. Waiting(k, g, n) = {}
          BY <1>6, <1>9, <2>2, <3>1, <3>7, <5>1, ReleaseOwn
        <5> HIDE DEF k
        <5> QED
          BY <4>1, <5>2 DEF Waiting
      <4>3. CASE k0.ds[g][n].mode = "turn"
        <5> HIDE DEF k
        <5>1. k.ds[g][n].known # 0
          BY <1>6, <3>6, <3>7 DEF Shared, DriverStates
        <5>2. Lined(k.spawnQueue, k.ds[g][n], g, n) /\ k.ds[g][n].mode = "turn"
          BY <3>5, <3>6, <3>7, <4>3 DEF RoundOK
        <5> QED
          BY <4>1, <5>1, <5>2 DEF Lined
      <4>4. k0.ds[g][n].mode \in {"turn", "par"}
        BY <1>4, <3>1, <3>4, <3>6, <3>7 DEF RoundOK
      <4> QED
        BY <4>2, <4>3, <4>4
    <3> HIDE DEF k
    <3>8. Ending(k, g, n, i, own)
      BY <3>3, <3>5, <3>6, <3>7 DEF Ending
    <3> QED
      BY <3>8 DEF i
  <2> HIDE DEF k
  <2>4. Shifts(k, c', 0, {<<g, n>>}) /\ Own(c', g, n)
    BY <1>6, <1>9, <1>11, <2>1, <2>3, TurnSlots
  <2>5. Shifts(c, c', 0, X) /\ 0 \in Nat
    <3>1. Shifts(k, c', 0, X) /\ 0 \in Int
      BY <2>4
    <3> HIDE DEF X
    <3> QED
      BY <1>2, <1>6, <1>8, <3>1, ShiftsThen
  <2> QED
    BY <1>1, <2>4, <2>5, SlotDriver
<1> QED
  BY <1>10, <1>11

\* handleDriverTimeout: the runs of the round are killed and leave their slots.
LEMMA DriverTimeoutSlots ==
  ASSUME IndInv, IndInv', SlotInv, NEW g \in Graph, NEW n \in Node, DriverTimeout(g, n)
  PROVE  SlotInv'
<1> DEFINE a == c.ds[g][n].known
           u == c.runs[g][n] - a
           k1 == WithRuns(c, g, n, u)
           k2 == WithDriver(k1, g, n, NoDriver)
           q == Without(k2.spawnQueue, {<<g, n>>})
           k3 == [k2 EXCEPT !.spawnQueue = q]
           X == {<<g, n>>}
<1>1. PICK st : c' = Settled(k3, g, st)
  BY DEF DriverTimeout, WithRuns, WithDriver
<1>2. n \in DriverNodes(g) /\ UNCHANGED <<live, untracked, inits>>
  BY DEF DriverTimeout
<1>3. c \in Shared /\ c' \in Shared /\ c.runs[g][n] \in Int /\ a \in Int
  BY DEF IndInv, WellFormed, Shared, DriverStates
<1>4. a \in Nat
  BY <1>3 DEF SlotInv, Knowing
<1> HIDE DEF a
<1>5. u \in Int /\ a = c.runs[g][n] - u
  BY <1>3
<1> HIDE DEF u
<1>6. k1 \in Shared /\ k1.spawnQueue = c.spawnQueue
  BY <1>3, <1>5, WithRunsIs
<1>7. Shifts(c, k1, a, X)
  BY <1>3, <1>5, RunsShifts
<1> HIDE DEF k1
<1>8. NoDriver \in DriverStates /\ NoDriver.init = 0 /\ NoDriver.known >= 0
  BY DEF NoDriver, DriverStates
<1>9. k2 \in Shared /\ k2.ds[g][n] = NoDriver /\ k2.spawnQueue = c.spawnQueue
  BY <1>6, <1>8, WithDriverIs
<1>10. Shifts(k1, k2, 0, X)
  BY <1>6, <1>8, DriverShifts
<1> HIDE DEF k2
<1>11. q \in Seq(Entries) /\ Thins(k2.spawnQueue, q)
  <2>1. k2.spawnQueue \in Seq(Entries)
    BY <1>9 DEF Shared
  <2> QED
    BY <2>1, WithoutIs
<1> HIDE DEF q
<1>12. k3 \in Shared /\ k3.ds = k2.ds
  BY <1>9, <1>11 DEF Shared
<1>a. Served(k2, k3, {})
  BY <1>9, <1>11, <1>12, ThinServed
<1>13. Shifts(k2, k3, 0, X)
  <2>1. Served(k2, k3, {})
    BY <1>a
  <2> HIDE DEF k3
  <2>2. Shifts(k2, k3, 0, {})
    BY <1>9, <1>12, <2>1, ServedShifts
  <2> QED
    BY <2>2, ShiftsMore
<1> HIDE DEF k3
<1>14. PICK j \in QuietJobs : c' = Append1(k3, g, j)
  <2>1. Job("finish", 0, "-") \in QuietJobs /\ Job("ready", 1, "-") \in QuietJobs
    BY QuietJobsAre
  <2> QED
    BY <1>1, <2>1 DEF Settled
<1>15. Shifts(k3, c', 0, X)
  BY <1>12, <1>14, AppendShifts
<1>16. Shifts(c, c', a, X)
  <2> HIDE DEF X
  <2>1. Shifts(c, k2, a, X) /\ a \in Int
    BY <1>3, <1>6, <1>7, <1>9, <1>10, ShiftsThen
  <2>2. Shifts(c, k3, a, X)
    BY <1>3, <1>9, <1>12, <1>13, <2>1, ShiftsThen
  <2> QED
    BY <1>3, <1>12, <1>15, <2>1, <2>2, ShiftsThen
<1>17. c'.ds = k3.ds /\ c'.spawnQueue = k3.spawnQueue
  BY <1>12, <1>14 DEF Append1, Shared
<1>18. Own(c', g, n)
  <2> DEFINE i == inits[g][n]
  <2>1. i \in Nat /\ i # 0 /\ <<g, n>> \in Driver /\ 0 \in 0 .. 1
    BY <1>2, DriverStarted
  <2>2. Upto(c.spawnQueue, g, n, i)
    BY <2>1 DEF SlotInv, RoundOK
  <2> HIDE DEF i
  <2>3. RoundOK(k2, g, n, i, 0)
    BY <1>8, <1>9, <2>1, <2>2, GoneRound
  <2>4. RoundOK(k3, g, n, i, 0)
    BY <1>a, <2>1, <2>3 DEF Served
  <2>5. Upto(k3.spawnQueue, g, n, i)
    BY <2>4 DEF RoundOK
  <2>6. c'.ds[g][n].init = 0
    BY <1>8, <1>9, <1>12, <1>17
  <2>7. RoundOK(c', g, n, i, 0)
    BY <1>17, <2>1, <2>5, <2>6, GoneRound
  <2> QED
    BY <2>7 DEF Own, i
<1> QED
  BY <1>2, <1>4, <1>16, <1>18, SlotDriver

\* No sub-agent runs and no spawn waits in the beginning.
LEMMA InitSlots == ASSUME Init PROVE SlotInv
<1>1. /\ c.tail = [g \in Graph |-> <<>>] /\ c.spawnQueue = <<>> /\ c.globalActiveSubAgents = 0
      /\ c.ds = [g \in Graph |-> [n \in Node |-> NoDriver]]
      /\ c.runs = [g \in Graph |-> [n \in Node |-> 0]]
  BY DEF Init
<1>2. /\ live = [g \in Graph |-> [n \in Node |-> 0]] /\ untracked = [g \in Graph |-> 0]
      /\ inits = [g \in Graph |-> [n \in Node |-> 0]]
  BY DEF Init
<1>3. NoDriver.init = 0 /\ NoDriver.known = 0
  BY DEF NoDriver
<1>4. c \in Shared
  BY InitInd DEF IndInv, WellFormed
<1>5. ASSUME NEW g \in Graph, NEW n \in Node
      PROVE  /\ c.runs[g][n] = 0 /\ Claims(c, g, n) = 0 /\ Acts(c, g, n) = 0
             /\ Upto(c.spawnQueue, g, n, 0)
  <2>1. c.tail[g] = <<>> /\ c.runs[g][n] = 0
    BY <1>1
  <2>2. Claims(c, g, n) = 0 /\ Acts(c, g, n) = 0
    BY <2>1, CountEmpty DEF Claims, Acts
  <2>3. Upto(<<>>, g, n, 0)
    BY DEF Upto
  <2> QED
    BY <1>1, <2>1, <2>2, <2>3
<1>6. \A g \in Graph, n \in Node : c.ds[g][n] = NoDriver
  BY <1>1
<1>7. Slack(c) = 0
  <2>1. \A g \in Graph, n \in Node : Held(c, g, n) = 0
    BY <1>5 DEF Held
  <2>2. \A p \in Pairs : Weights(c)[p] = 0
    BY <2>1 DEF Weights, Pairs
  <2>3. Weights(c) \in [Pairs -> Int]
    BY <1>4, WeightsAre
  <2>4. Total(Weights(c), Pairs) = 0
    BY <2>2, <2>3, PairsFinite, TotalZero
  <2> QED
    BY <1>1, <2>4 DEF Slack
<1>8. Owing(live, untracked) = 0
  <2>1. LiveTable(live) \in [Pairs -> Int] /\ \A p \in Pairs : LiveTable(live)[p] = 0
    BY <1>2 DEF LiveTable, Pairs
  <2>2. Total(LiveTable(live), Pairs) = 0
    BY <2>1, PairsFinite, TotalZero
  <2>3. untracked \in [Graph -> Int] /\ \A g \in Graph : untracked[g] = 0
    BY <1>2
  <2>4. Total(untracked, Graph) = 0
    BY <2>3, PairsFinite, TotalZero
  <2> QED
    BY <2>2, <2>4 DEF Owing
<1>9. untracked \in [Graph -> Int]
  BY <1>2
<1>10. InLimit(c) /\ Full(c)
  BY <1>1, CoordinatorAssumption DEF InLimit, Full
<1>11. Knowing(c)
  BY <1>3, <1>6 DEF Knowing
<1>12. ASSUME NEW g \in Graph, NEW n \in Node PROVE RoundOK(c, g, n, inits[g][n], 0)
  <2>1. inits[g][n] = 0
    BY <1>2
  <2> QED
    BY <1>3, <1>5, <1>6, <2>1 DEF RoundOK
<1> QED
  BY <1>7, <1>8, <1>9, <1>10, <1>11, <1>12 DEF SlotInv

\* Every action of the coordinator keeps the slots and the rounds.
LEMMA NextSlots == ASSUME IndInv, IndInv', SlotInv, Next PROVE SlotInv'
<1> PICK g \in Graph :
      \/ Run(g) \/ TailStep(g) \/ GraphTimeout(g) \/ Cancel(g) \/ UntrackedEnds(g)
      \/ \E n \in Node : \/ RunStep(g, n) \/ StaggerTimer(g, n) \/ RetryTimer(g, n)
                         \/ DriverTimeout(g, n)
  BY DEF Next
<1>1. CASE Run(g)
  BY <1>1, RunSlots
<1>2. CASE TailStep(g)
  BY <1>2, AdmitSlots, StartSlots, StartRejectedSlots, CompletedSlots, ReadyPassSlots, FailedSlots,
     FinishSlots, ExpireSlots, StartDriverSlots, DriverActionSlots DEF TailStep
<1>3. CASE GraphTimeout(g)
  BY <1>3, TimeoutSlots
<1>4. CASE Cancel(g)
  BY <1>4, CancelSlots
<1>5. CASE UntrackedEnds(g)
  BY <1>5, UntrackedSlots
<1>6. ASSUME NEW n \in Node, RunStep(g, n) PROVE SlotInv'
  BY <1>6, RunEndsSlots, DriverRunEndsSlots DEF RunStep
<1>7. ASSUME NEW n \in Node, StaggerTimer(g, n) \/ RetryTimer(g, n) \/ DriverTimeout(g, n)
      PROVE  SlotInv'
  BY <1>7, StaggerSlots, RetrySlots, DriverTimeoutSlots
<1> QED
  BY <1>1, <1>2, <1>3, <1>4, <1>5, <1>6, <1>7

\* The account of the slots and the rounds holds of every behaviour, whatever is
\* queued, drained, cancelled, killed or timed out: gatedSpawn and
\* releaseAndDrainQueue never leave a slot free while a spawn waits for one.
THEOREM SlotsInvariant == Spec => []SlotInv
<1>1. Init => SlotInv
  BY InitSlots
<1>2. IndInv /\ IndInv' /\ SlotInv /\ [Next]_vars => SlotInv'
  <2>1. ASSUME IndInv, IndInv', SlotInv, UNCHANGED vars PROVE SlotInv'
    <3>1. UNCHANGED <<live, untracked, inits, c>>
      BY <2>1 DEF vars
    <3>2. Shifts(c, c, 0, {})
      BY <2>1, ShiftsSame DEF IndInv, WellFormed
    <3>3. Shifts(c, c', 0, {})
      BY <3>1, <3>2
    <3> QED
      BY <2>1, <3>1, <3>3, SlotServe
  <2> QED
    BY <2>1, NextSlots
<1> QED
  BY <1>1, <1>2, Invariance, PTL DEF Spec

\* The runs of both kinds that the maps of all graphs hold, as a table.
AtWorkTable == [p \in Graph \X Node |-> live[p[1]][p[2]] + c.runs[p[1]][p[2]]]

\* The sum of AtWork is the total of that table.
LEMMA AtWorkIs ==
  ASSUME c \in Shared, live \in [Graph -> [Node -> Int]]
  PROVE  /\ AtWorkTable \in [Pairs -> Int]
         /\ AtWork = Total(AtWorkTable, Pairs) + Total(untracked, Graph)
<1> DEFINE S == Graph \X Node
           w == AtWorkTable
           F(p) == live[p[1]][p[2]] + c.runs[p[1]][p[2]]
           Fold(g, s) ==
               IF s = {} THEN 0
               ELSE F(CHOOSE x \in s : TRUE) + g[s \ {CHOOSE x \in s : TRUE}]
           sum == CHOOSE g : g = [s \in SUBSET S |-> Fold(g, s)]
<1>1. w \in [S -> Int] /\ \A p \in S : w[p] = F(p)
  BY DEF AtWorkTable, Shared
<1>2. AtWork = sum[S] + Total(untracked, Graph)
  BY Zenon DEF AtWork, Sum, MapThenSumSet, MapThenFoldSet, Total, IsSum, Weighed
<1>3. IsFiniteSet(S)
  BY PairsFinite DEF Pairs
<1> HIDE DEF w, F, S
<1>4. PICK h : IsSum(S, w, h)
  <2> HIDE DEF Fold, sum
  <2> QED
    BY <1>1, <1>3, SumExists
<1>5. \A g : \A s \in SUBSET S : Weighed(w, g, s) = Fold(g, s)
  BY <1>1 DEF Weighed
<1>6. h = [s \in SUBSET S |-> Fold(h, s)]
  <2> HIDE DEF Fold
  <2> QED
    BY <1>4, <1>5 DEF IsSum
<1>7. sum = [s \in SUBSET S |-> Fold(sum, s)]
  <2> HIDE DEF Fold
  <2> QED
    BY <1>6
<1> HIDE DEF Fold, sum
<1>8. IsSum(S, w, sum)
  BY <1>5, <1>7 DEF IsSum
<1>9. PICK g : IsSum(S, w, g) /\ Total(w, S) = g[S]
  BY <1>1, <1>3, TotalIs
<1>10. sum[S] = g[S]
  <2>1. S \in SUBSET S
    OBVIOUS
  <2> QED
    BY <1>1, <1>3, <1>8, <1>9, <2>1, SumRestricts
<1>11. AtWork = Total(w, S) + Total(untracked, Graph)
  BY <1>2, <1>9, <1>10
<1> QED
  BY <1>1, <1>11 DEF w, S, Pairs

\* Every sub-agent at work holds a slot.
LEMMA AtWorkHolds ==
  ASSUME IndInv, SlotInv PROVE AtWork <= c.globalActiveSubAgents
<1>1. /\ c \in Shared /\ live \in [Graph -> [Node -> Int]] /\ untracked \in [Graph -> Int]
      /\ c.globalActiveSubAgents \in Int
  BY DEF IndInv, Typed, WellFormed, Shared, SlotInv
<1> DEFINE a == AtWorkTable
           l == LiveTable(live)
           w == Weights(c)
           v == [p \in Pairs |-> l[p] + w[p]]
<1>2. a \in [Pairs -> Int] /\ AtWork = Total(a, Pairs) + Total(untracked, Graph)
  BY <1>1, AtWorkIs
<1>3. l \in [Pairs -> Int] /\ Total(l, Pairs) \in Int
  BY <1>1, LiveTableIs
<1>4. w \in [Pairs -> Int] /\ Total(w, Pairs) \in Int
  BY <1>1, WeightsAre
<1>5. \A p \in Pairs : a[p] <= l[p] + w[p]
  <2> SUFFICES ASSUME NEW g \in Graph, NEW n \in Node
               PROVE  a[<<g, n>>] <= l[<<g, n>>] + w[<<g, n>>]
    BY DEF Pairs
  <2>1. l[<<g, n>>] = live[g][n] /\ live[g][n] \in Int
    BY <1>1, LiveTableIs
  <2>2. w[<<g, n>>] = c.runs[g][n] + Claims(c, g, n)
    BY <1>1, WeightsAre DEF Held
  <2>3. Claims(c, g, n) \in Nat /\ c.runs[g][n] \in Int
    BY <1>1, ClaimsAreNat DEF Shared
  <2>4. a[<<g, n>>] = live[g][n] + c.runs[g][n]
    BY DEF AtWorkTable
  <2> QED
    BY <2>1, <2>2, <2>3, <2>4
<1> HIDE DEF a, l, w
<1>6. v \in [Pairs -> Int] /\ \A p \in Pairs : v[p] = l[p] + w[p]
  BY <1>3, <1>4
<1> HIDE DEF v
<1>7. Total(v, Pairs) = Total(l, Pairs) + Total(w, Pairs)
  BY <1>3, <1>4, <1>6, PairsFinite, TotalAdds
<1>8. \A p \in Pairs : a[p] <= v[p]
  BY <1>5, <1>6
<1>9. Total(a, Pairs) <= Total(v, Pairs)
  BY <1>2, <1>6, <1>8, PairsFinite, TotalMonotone
<1>10. Total(l, Pairs) + Total(untracked, Graph) <= c.globalActiveSubAgents - Total(w, Pairs)
  BY DEF SlotInv, Owing, Slack, l, w
<1>11. Total(untracked, Graph) \in Int /\ Total(a, Pairs) \in Int
  <2>1. Total(untracked, Graph) \in Int
    BY <1>1, OwingIs
  <2>2. Total(a, Pairs) \in Int
    BY <1>2, PairsFinite, TotalInt
  <2> QED
    BY <2>1, <2>2
<1> DEFINE tv == Total(v, Pairs)
           tl == Total(l, Pairs)
           tw == Total(w, Pairs)
           ta == Total(a, Pairs)
           tu == Total(untracked, Graph)
<1> HIDE DEF tv, tl, tw, ta, tu
<1>12. /\ tv = tl + tw /\ ta <= tv /\ tl + tu <= c.globalActiveSubAgents - tw
       /\ tu \in Int /\ ta \in Int /\ tl \in Int /\ tw \in Int /\ AtWork = ta + tu
  BY <1>2, <1>3, <1>4, <1>7, <1>9, <1>10, <1>11 DEF tv, tl, tw, ta, tu
<1> QED
  BY <1>1, <1>12

\* The slots of gatedSpawn and releaseAndDrainQueue bound the sub-agents: every
\* one at work, also a run whose graph was cancelled, timed out or has ended
\* without it, is counted in globalActiveSubAgents, which stays within
\* maxGlobalSubAgents.
THEOREM LimitKept == Spec => []WithinLimit
<1>1. IndInv /\ SlotInv => WithinLimit
  <2> SUFFICES ASSUME IndInv, SlotInv PROVE WithinLimit
    OBVIOUS
  <2>1. c.globalActiveSubAgents <= MaxGlobalSubAgents
    BY DEF SlotInv, InLimit
  <2> QED
    BY <2>1, AtWorkHolds DEF WithinLimit
<1> QED
  BY <1>1, Invariance, SlotsInvariant, PTL

\* A parallel round of spawn_all goes on while one of its sub-agents waits for a
\* slot: handleDriverTurnCompleted, which gives the slot back and drains the
\* queue first, never takes the end of the runs already started for the end of
\* the round.  In a retry this holds until a run that an earlier attempt left
\* behind reports, since the handler does not ask which attempt a run is of.
THEOREM RoundsComplete == Spec => []RoundComplete
<1>1. IndInv /\ SlotInv => RoundComplete
  <2> SUFFICES ASSUME IndInv, SlotInv, NEW i \in 1 .. Len(c.spawnQueue),
                      c.spawnQueue[i].kind = "par",
                      c.spawnQueue[i].init = c.ds[c.spawnQueue[i].g][c.spawnQueue[i].n].init,
                      \/ c.spawnQueue[i].init = 1
                      \/ ~c.ds[c.spawnQueue[i].g][c.spawnQueue[i].n].crossed
               PROVE  c.ds[c.spawnQueue[i].g][c.spawnQueue[i].n].mode = "par"
    BY DEF RoundComplete
  <2> DEFINE q == c.spawnQueue
             e == q[i]
             g == e.g
             n == e.n
  <2>1. q \in Seq(Entries) /\ e \in Entries
    BY DEF IndInv, WellFormed, Shared
  <2>2. g \in Graph /\ n \in Node /\ <<g, n>> \in Driver /\ e.init # 0
    BY <2>1 DEF Entries
  <2>3. RoundOK(c, g, n, inits[g][n], 0) /\ c.ds[g][n].init # 0
    BY <2>2 DEF SlotInv
  <2>4. e.init = c.ds[g][n].init /\ (e.init = 1 \/ ~c.ds[g][n].crossed)
    OBVIOUS
  <2>5. i \in Mine(q, g, n, c.ds[g][n].init)
    BY <2>4 DEF Mine
  <2> HIDE DEF q, e, g, n
  <2>6. ~c.ds[g][n].crossed
    BY <2>3, <2>4 DEF RoundOK
  <2>7. Lined(q, c.ds[g][n], g, n)
    BY <2>3, <2>6 DEF RoundOK, q
  <2>8. q[i].kind = c.ds[g][n].mode
    BY <2>5, <2>7 DEF Lined
  <2> QED
    BY <2>8 DEF q, e, g, n
<1> QED
  BY <1>1, Invariance, SlotsInvariant, PTL

\* A spawn waits only while every slot is taken: each release hands its slot on
\* before anything else happens, also when entries of ended graphs are passed
\* over.
THEOREM NoIdleSlot == Spec => []Full(c)
<1>1. SlotInv => Full(c)
  BY DEF SlotInv
<1> QED
  BY <1>1, SlotsInvariant, PTL
=============================================================================
