----------------------- MODULE GraphStateMachineProofs -----------------------
(***************************************************************************)
(* Proofs about GraphStateMachine, for every graph, barrier mode, failure  *)
(* policy and number of retries: a node that was started had its barrier   *)
(* met, a node that was skipped had no hope, no node is left waiting for   *)
(* nothing outside the partial barrier modes, and a graph is accepted      *)
(* exactly if it has no cycle, in an order that respects its dependencies. *)
(*                                                                         *)
(* The cascade is a loop, so most of the work is the invariant of its      *)
(* rounds: what they keep of the statuses, which nodes are still queued,   *)
(* and that N * N rounds empty the queue. So is the sort: its rounds keep  *)
(* the nodes that are free to start either sorted or queued.               *)
(***************************************************************************)
EXTENDS GraphStateMachine, InductionLemmas

Lost == {"failed", "skipped"}

-----------------------------------------------------------------------------
(* Sequences of nodes.                                                     *)

Listed(s, m) == \E i \in 1 .. Len(s) : s[i] = m

\* No node is listed twice.
NoRepeat(s) == \A i, j \in 1 .. Len(s) : s[i] = s[j] => i = j

\* InNodeOrder lists the nodes of S, each once, and at most N.
LEMMA InNodeOrderIs ==
  ASSUME NEW S \in SUBSET Node
  PROVE  /\ InNodeOrder(S) \in Seq(S)
         /\ Len(InNodeOrder(S)) <= N
         /\ \A m \in S : Listed(InNodeOrder(S), m)
         /\ NoRepeat(InNodeOrder(S))
<1> DEFINE Ext(s, i) == IF i \in S THEN Append(s, i) ELSE s
           step == [i \in 1 .. N |-> [s \in Seq(Node) |-> Ext(s, i)]]
           Eq(f) == f = [i \in 0 .. N |-> IF i = 0 THEN <<>> ELSE Ext(f[i - 1], i)]
           upTo == CHOOSE f : Eq(f)
<1>1. N \in Nat /\ N # 0 /\ 1 .. N = Node
  BY NAssumption DEF Node
<1>2. InNodeOrder(S) = upTo[N]
  BY DEF InNodeOrder
<1>3. ASSUME NEW i \in 1 .. N, NEW s \in Seq(Node) PROVE Ext(s, i) \in Seq(Node)
  <2>1. i \in Node
    BY <1>1
  <2> QED
    BY <2>1
<1> HIDE DEF Ext
<1>4. PICK f \in [0 .. N -> Seq(Node)] : Unfolds(f, N, <<>>, step)
  <2>1. step \in [1 .. N -> [Seq(Node) -> Seq(Node)]]
    BY <1>3
  <2>2. <<>> \in Seq(Node)
    OBVIOUS
  <2> HIDE DEF step
  <2> QED
    BY <1>1, <2>1, <2>2, RecursionExists
<1>5. Eq(f)
  <2>1. \A i \in 1 .. N : f[i - 1] \in Seq(Node)
    BY <1>1
  <2>2. \A i \in 1 .. N : step[i][f[i - 1]] = Ext(f[i - 1], i)
    BY <2>1
  <2>3. \A i \in 0 .. N : f[i] = IF i = 0 THEN <<>> ELSE step[i][f[i - 1]]
    BY <1>4 DEF Unfolds
  <2> HIDE DEF step
  <2>4. \A i \in 0 .. N : f[i] = IF i = 0 THEN <<>> ELSE Ext(f[i - 1], i)
    <3> SUFFICES ASSUME NEW i \in 0 .. N, i # 0 PROVE f[i] = Ext(f[i - 1], i)
      BY <2>3
    <3>1. i \in 1 .. N
      BY <1>1
    <3> QED
      BY <2>2, <2>3, <3>1
  <2> QED
    BY <2>4
<1>6. Eq(upTo)
  <2> HIDE DEF Eq
  <2> QED
    BY <1>5
<1> HIDE DEF upTo
<1>7. upTo = [i \in 0 .. N |-> IF i = 0 THEN <<>> ELSE Ext(upTo[i - 1], i)]
  BY <1>6
<1>8. upTo[0] = <<>> /\ \A i \in 1 .. N : upTo[i] = Ext(upTo[i - 1], i)
  BY <1>1, <1>7
<1> HIDE DEF Eq
<1> DEFINE Good(i) == /\ upTo[i] \in Seq(S) /\ Len(upTo[i]) <= i
                      /\ \A m \in S : m <= i => Listed(upTo[i], m)
                      /\ \A j \in 1 .. Len(upTo[i]) : upTo[i][j] <= i
                      /\ NoRepeat(upTo[i])
           T == {i \in Nat : i <= N => Good(i)}
<1>9. 0 \in T
  <2>1. upTo[0] \in Seq(S) /\ Len(upTo[0]) = 0
    BY <1>8
  <2>2. \A m \in S : ~(m <= 0)
    BY DEF Node
  <2>3. NoRepeat(upTo[0]) /\ \A j \in 1 .. Len(upTo[0]) : upTo[0][j] <= 0
    BY <2>1 DEF NoRepeat
  <2> QED
    BY <2>1, <2>2, <2>3
<1>10. \A i \in T : i + 1 \in T
  <2> SUFFICES ASSUME NEW i \in Nat, i + 1 <= N, Good(i) PROVE Good(i + 1)
    <3> HIDE DEF Good
    <3> QED
      BY <1>1
  <2> DEFINE s == upTo[i]
             t == upTo[i + 1]
  <2>1. t = IF i + 1 \in S THEN Append(s, i + 1) ELSE s
    <3>1. i + 1 \in 1 .. N /\ (i + 1) - 1 = i
      BY <1>1
    <3> QED
      BY <1>8, <3>1 DEF Ext
  <2>2. s \in Seq(S) /\ Len(s) \in Nat /\ Len(s) <= i /\ \A m \in S : m <= i => Listed(s, m)
    OBVIOUS
  <2>0. (\A j \in 1 .. Len(s) : s[j] <= i) /\ NoRepeat(s)
    OBVIOUS
  <2>a. \A j \in 1 .. Len(s) : s[j] \in Nat
    <3>1. \A j \in 1 .. Len(s) : s[j] \in S
      BY <2>2
    <3>2. \A m \in S : m \in Nat
      BY DEF Node
    <3> QED
      BY <3>1, <3>2
  <2> HIDE DEF s, t
  <2>3. CASE i + 1 \in S
    <3>1. /\ t \in Seq(S) /\ Len(t) = Len(s) + 1 /\ t[Len(s) + 1] = i + 1
          /\ \A j \in 1 .. Len(s) : t[j] = s[j]
      BY <2>1, <2>2, <2>3
    <3>2. \A m : Listed(s, m) => Listed(t, m)
      BY <2>2, <3>1 DEF Listed
    <3>3. Listed(t, i + 1)
      BY <2>2, <3>1 DEF Listed
    <3>4. \A m \in S : m <= i + 1 => Listed(t, m)
      BY <2>2, <3>2, <3>3 DEF Node
    <3>5. \A j \in 1 .. Len(s) : s[j] \in Nat /\ s[j] <= i
      BY <2>0, <2>a
    <3>6. \A j \in 1 .. Len(t) : j \in 1 .. Len(s) \/ j = Len(s) + 1
      BY <2>2, <3>1
    <3>7. \A j \in 1 .. Len(t) : t[j] <= i + 1
      BY <3>1, <3>5, <3>6
    <3>8. NoRepeat(t)
      <4>1. \A j \in 1 .. Len(s) : t[j] # i + 1
        BY <3>1, <3>5
      <4> QED
        BY <2>0, <3>1, <3>6, <4>1 DEF NoRepeat
    <3> QED
      BY <2>2, <3>1, <3>4, <3>7, <3>8 DEF t
  <2>4. CASE i + 1 \notin S
    <3>1. \A m \in S : m <= i + 1 => Listed(t, m)
      BY <2>1, <2>2, <2>4 DEF Node
    <3>2. \A j \in 1 .. Len(s) : s[j] \in Nat /\ s[j] <= i + 1
      BY <2>0, <2>a
    <3> QED
      BY <2>0, <2>1, <2>2, <2>4, <3>1, <3>2 DEF t
  <2> QED
    BY <2>3, <2>4
<1>11. T = Nat
  <2> HIDE DEF T
  <2> T \in SUBSET Nat
    BY DEF T
  <2> QED
    BY <1>9, <1>10, InductiveSet
<1>12. Good(N)
  <2>1. N \in T
    BY <1>1, <1>11
  <2>2. N <= N
    BY <1>1
  <2> HIDE DEF Good
  <2> QED
    BY <2>1, <2>2
<1>13. \A m \in S : m <= N
  BY DEF Node
<1> QED
  BY <1>2, <1>12, <1>13

-----------------------------------------------------------------------------
(* Barriers.  Statuses are functions st from Node to NodeStatus.           *)

Statuses == [Node -> NodeStatus]
Shaped == deps \in [Node -> SUBSET Node] /\ barrier \in [Node -> Barriers]

\* The barrier of n is met by dependencies that have all ended.
Meets(st, n) ==
    /\ \A d \in deps[n] : st[d] \in Terminal
    /\ Suffice(n, CountDeps(st, n, {"completed"}), Cardinality(deps[n]))

LostDeps(st, n) == {d \in deps[n] : st[d] \in Lost}

\* Too many dependencies of n are lost.
Hopeless(st, n) ==
    /\ LostDeps(st, n) # {}
    /\ onFailure = "continue" =>
          ~ Suffice(n, Cardinality(deps[n] \ LostDeps(st, n)), Cardinality(deps[n]))

\* What has ended stays as it is; what is lost stays lost.
KeepsEnded(st, tt) == \A d \in Node : st[d] \in Terminal => tt[d] = st[d]
KeepsLost(st, tt) == \A d \in Node : st[d] \in Lost => tt[d] \in Lost

\* The dependencies of a node, and any part of them, are finite in number.
LEMMA DepsFinite ==
  ASSUME Shaped, NEW n \in Node, NEW D \in SUBSET deps[n]
  PROVE  /\ IsFiniteSet(D) /\ Cardinality(D) \in Nat /\ Cardinality(deps[n]) \in Nat
         /\ Cardinality(D) <= Cardinality(deps[n])
         /\ Cardinality(D) = Cardinality(deps[n]) => D = deps[n]
         /\ Cardinality(D) = 0 <=> D = {}
<1>1. deps[n] \in SUBSET Node
  BY DEF Shaped
<1>2. IsFiniteSet(Node)
  BY NAssumption, FS_Interval DEF Node
<1>3. IsFiniteSet(deps[n])
  BY <1>1, <1>2, FS_Subset
<1>4. IsFiniteSet(D)
  BY <1>3, FS_Subset
<1>5. Cardinality(D) <= Cardinality(deps[n]) /\ (Cardinality(deps[n]) = Cardinality(D) => deps[n] = D)
  BY <1>3, FS_Subset
<1> QED
  BY <1>3, <1>4, <1>5, FS_CardinalityType, FS_EmptySet

\* All dependencies of n are in the states S exactly if as many are as there are.
LEMMA CountAll ==
  ASSUME Shaped, NEW n \in Node, NEW st, NEW S
  PROVE  /\ CountDeps(st, n, S) \in Nat /\ Cardinality(deps[n]) \in Nat
         /\ CountDeps(st, n, S) <= Cardinality(deps[n])
         /\ CountDeps(st, n, S) = Cardinality(deps[n]) <=> \A d \in deps[n] : st[d] \in S
         /\ CountDeps(st, n, S) = 0 <=> \A d \in deps[n] : st[d] \notin S
<1> DEFINE D == {d \in deps[n] : st[d] \in S}
<1>1. D \in SUBSET deps[n] /\ CountDeps(st, n, S) = Cardinality(D)
  BY DEF CountDeps
<1>2. D = deps[n] <=> \A d \in deps[n] : st[d] \in S
  OBVIOUS
<1>3. D = {} <=> \A d \in deps[n] : st[d] \notin S
  OBVIOUS
<1> HIDE DEF D
<1>4. /\ Cardinality(D) \in Nat /\ Cardinality(deps[n]) \in Nat
      /\ Cardinality(D) <= Cardinality(deps[n])
      /\ Cardinality(D) = Cardinality(deps[n]) => D = deps[n]
      /\ Cardinality(D) = 0 <=> D = {}
  BY <1>1, DepsFinite
<1> QED
  BY <1>1, <1>2, <1>3, <1>4

\* The modes there are.
LEMMA Modes ==
  ASSUME Shaped, NEW n \in Node
  PROVE  barrier[n] \in {"all", "majority", "best-effort"}
  BY BarriersAssumption DEF Shaped

\* What each mode asks for.
LEMMA SufficeIs ==
  ASSUME Shaped, NEW n \in Node, NEW k, NEW total
  PROVE  Suffice(n, k, total) <=>
            \/ barrier[n] = "all" /\ k = total
            \/ barrier[n] = "majority" /\ k > total - k
            \/ barrier[n] = "best-effort" /\ k > 0
<1>1. CASE barrier[n] = "all"
  BY <1>1 DEF Suffice
<1>2. CASE barrier[n] = "majority"
  BY <1>2 DEF Suffice
<1>3. CASE barrier[n] = "best-effort"
  BY <1>3 DEF Suffice
<1> QED
  BY <1>1, <1>2, <1>3, Modes

\* isBarrierSatisfied says that the barrier is met.
LEMMA SatisfiedMeets ==
  ASSUME Shaped, NEW n \in Node, NEW st \in Statuses, deps[n] # {}, IsBarrierSatisfied(st, n)
  PROVE  Meets(st, n)
<1> DEFINE done == CountDeps(st, n, {"completed"})
           ended == CountDeps(st, n, Terminal)
           total == Cardinality(deps[n])
<1>1. /\ done \in Nat /\ total \in Nat /\ done <= total
      /\ done = total => \A d \in deps[n] : st[d] \in {"completed"}
      /\ ended = total => \A d \in deps[n] : st[d] \in Terminal
  BY CountAll
<1>2. total # 0
  <2>1. deps[n] \in SUBSET deps[n]
    OBVIOUS
  <2> QED
    BY <2>1, DepsFinite
<1>3. \/ barrier[n] = "all" /\ done = total
      \/ barrier[n] = "majority" /\ ended = total /\ 2 * done > total
      \/ barrier[n] = "best-effort" /\ ended = total /\ done >= 1
  BY <1>2 DEF IsBarrierSatisfied
<1>4. "completed" \in Terminal
  BY DEF Terminal
<1> HIDE DEF done, ended, total
<1>5. \A d \in deps[n] : st[d] \in Terminal
  BY <1>1, <1>3, <1>4
<1>6. Suffice(n, done, total)
  BY <1>1, <1>3, SufficeIs
<1> QED
  BY <1>5, <1>6 DEF Meets, done, total

\* Whatever the mode, the barrier is satisfied when all have completed.
LEMMA AllCompleted ==
  ASSUME Shaped, NEW n \in Node, NEW st, \A d \in deps[n] : st[d] = "completed"
  PROVE  IsBarrierSatisfied(st, n)
<1>1. \A d \in deps[n] : st[d] \in {"completed"} /\ st[d] \in Terminal
  BY DEF Terminal
<1>2. /\ CountDeps(st, n, {"completed"}) = Cardinality(deps[n])
      /\ CountDeps(st, n, Terminal) = Cardinality(deps[n])
      /\ Cardinality(deps[n]) \in Nat
  BY <1>1, CountAll
<1> QED
  BY <1>2, Modes DEF IsBarrierSatisfied

\* A barrier that is met stays so.
LEMMA MeetsKept ==
  ASSUME Shaped, NEW n \in Node, NEW st, NEW tt, Meets(st, n), KeepsEnded(st, tt)
  PROVE  Meets(tt, n)
<1>1. \A d \in deps[n] : tt[d] = st[d]
  BY DEF Shaped, Meets, KeepsEnded
<1>2. {d \in deps[n] : tt[d] \in {"completed"}} = {d \in deps[n] : st[d] \in {"completed"}}
  BY <1>1
<1>3. CountDeps(tt, n, {"completed"}) = CountDeps(st, n, {"completed"})
  BY <1>2 DEF CountDeps
<1> QED
  BY <1>1, <1>3 DEF Meets

\* A mode does not ask for fewer when more are missing.
LEMMA SufficeGrows ==
  ASSUME Shaped, NEW n \in Node, NEW j \in Nat, NEW k \in Nat, NEW total \in Nat,
         j <= k, k <= total, Suffice(n, j, total)
  PROVE  Suffice(n, k, total)
  BY SufficeIs

\* What has no hope does not get it.
LEMMA HopelessKept ==
  ASSUME Shaped, NEW n \in Node, NEW st, NEW tt, Hopeless(st, n), KeepsLost(st, tt)
  PROVE  Hopeless(tt, n)
<1> DEFINE A == deps[n] \ LostDeps(st, n)
           B == deps[n] \ LostDeps(tt, n)
<1>1. LostDeps(st, n) \in SUBSET LostDeps(tt, n)
  BY DEF LostDeps, Shaped, KeepsLost
<1>2. LostDeps(tt, n) # {}
  BY <1>1 DEF Hopeless
<1>3. B \in SUBSET A /\ A \in SUBSET deps[n] /\ B \in SUBSET deps[n]
  BY <1>1
<1> HIDE DEF A, B
<1>4. /\ IsFiniteSet(A) /\ Cardinality(A) \in Nat /\ Cardinality(B) \in Nat
      /\ Cardinality(A) <= Cardinality(deps[n]) /\ Cardinality(deps[n]) \in Nat
  BY <1>3, DepsFinite
<1>5. Cardinality(B) <= Cardinality(A)
  BY <1>3, <1>4, FS_Subset
<1>6. Suffice(n, Cardinality(B), Cardinality(deps[n])) => Suffice(n, Cardinality(A), Cardinality(deps[n]))
  BY <1>4, <1>5, SufficeGrows
<1> QED
  BY <1>2, <1>6 DEF Hopeless, A, B

\* The cascade skips what has no hope.
LEMMA SkipHopeless ==
  ASSUME Shaped, NEW n \in Node, NEW st \in Statuses, deps[n] # {}, MustSkip(st, n),
         onFailure \in Policies
  PROVE  Hopeless(st, n)
<1> DEFINE total == Cardinality(deps[n])
           best == CountDeps(st, n, Active \cup {"completed"})
<1>1. onFailure \in {"fail-fast", "continue"}
  BY PoliciesAssumption
<1>2. \A d \in deps[n] : st[d] \in Active \cup {"completed"} <=> st[d] \notin Lost
  BY DEF Shaped, Statuses, NodeStatus, Terminal, Active, Lost
<1>3. CASE onFailure = "fail-fast"
  <2>1. CountDeps(st, n, {"failed", "skipped"}) > 0
    BY <1>3 DEF MustSkip, HasFailedOrSkippedDep
  <2>2. CountDeps(st, n, {"failed", "skipped"}) # 0
    BY <2>1
  <2>3. \E d \in deps[n] : st[d] \in {"failed", "skipped"}
    BY <2>2, CountAll
  <2> QED
    BY <1>3, <2>3 DEF Hopeless, LostDeps, Lost
<1>4. CASE onFailure = "continue"
  <2>1. IsBarrierUnsatisfiable(st, n)
    BY <1>4 DEF MustSkip
  <2>2. /\ best \in Nat /\ total \in Nat /\ best <= total
        /\ best = total <=> \A d \in deps[n] : st[d] \in Active \cup {"completed"}
    BY CountAll
  <2>3. total # 0
    <3>1. deps[n] \in SUBSET deps[n]
      OBVIOUS
    <3> QED
      BY <3>1, DepsFinite
  <2>4. \/ barrier[n] = "all" /\ best < total
        \/ barrier[n] = "majority" /\ 2 * best <= total
        \/ barrier[n] = "best-effort" /\ best = 0
    BY <2>1, Modes DEF IsBarrierUnsatisfiable
  <2>5. deps[n] \ LostDeps(st, n) = {d \in deps[n] : st[d] \in Active \cup {"completed"}}
    BY <1>2 DEF LostDeps
  <2>6. Cardinality(deps[n] \ LostDeps(st, n)) = best
    BY <2>5 DEF CountDeps
  <2> HIDE DEF best, total
  <2>7. best # total
    BY <2>2, <2>3, <2>4
  <2>8. LostDeps(st, n) # {}
    BY <1>2, <2>2, <2>7 DEF LostDeps
  <2>9. ~ Suffice(n, best, total)
    BY <2>2, <2>4, SufficeIs
  <2> QED
    BY <2>6, <2>8, <2>9 DEF Hopeless, total
<1> QED
  BY <1>1, <1>3, <1>4

-----------------------------------------------------------------------------
(* Changes of the statuses.                                                *)

FanIn == {m \in Node : deps[m] # {}}
Begun == {"ready", "running", "completed", "failed"}

\* Every node that was started meets its barrier; every skipped one is hopeless.
Fit(st) == \A n \in FanIn : st[n] \in Begun => Meets(st, n)
AllHopeless(st) == \A n \in Node : st[n] = "skipped" => Hopeless(st, n)

\* From st to tt nodes that had not started became ready or were skipped.
Moved(st, tt) ==
    \A d \in Node : \/ tt[d] = st[d]
                    \/ st[d] \in {"pending", "ready"} /\ tt[d] \in {"ready", "skipped"}

\* Nodes may start whose barrier is met.
LEMMA FitKept ==
  ASSUME Shaped, NEW st, NEW tt, Fit(st), KeepsEnded(st, tt),
         \A n \in FanIn : tt[n] \in Begun => st[n] \in Begun \/ Meets(st, n)
  PROVE  Fit(tt)
<1> SUFFICES ASSUME NEW n \in FanIn, tt[n] \in Begun PROVE Meets(tt, n)
  BY DEF Fit
<1>1. n \in Node /\ Meets(st, n)
  BY DEF Fit, FanIn
<1> QED
  BY <1>1, MeetsKept

\* Nodes may be skipped that have no hope.
LEMMA HopelessStay ==
  ASSUME Shaped, NEW st, NEW tt, AllHopeless(st), KeepsLost(st, tt),
         \A n \in Node : tt[n] = "skipped" => st[n] = "skipped" \/ Hopeless(st, n)
  PROVE  AllHopeless(tt)
<1> SUFFICES ASSUME NEW n \in Node, tt[n] = "skipped" PROVE Hopeless(tt, n)
  BY DEF AllHopeless
<1>1. Hopeless(st, n)
  BY DEF AllHopeless
<1> QED
  BY <1>1, HopelessKept

\* Nodes that move leave what has ended.
LEMMA MovedKeeps ==
  ASSUME NEW st \in Statuses, NEW tt \in Statuses, Moved(st, tt)
  PROVE  KeepsEnded(st, tt) /\ KeepsLost(st, tt)
  BY DEF Moved, KeepsEnded, KeepsLost, Terminal, Lost

-----------------------------------------------------------------------------
(* One round of cascadeFailure.                                            *)

CState == [queue : Seq(FanIn), visited : SUBSET Node, status : Statuses]

Skips(c, n) == n \notin c.visited /\ c.status[n] \in {"pending", "ready"} /\ MustSkip(c.status, n)
Readies(c, n) == c.status[n] \in {"pending", "ready"} /\ IsBarrierSatisfied(c.status, n)

\* Node n is taken from the queue, and skipped, made ready or left alone.
RoundOf(c, n, r) ==
    /\ r \in CState /\ r.visited = c.visited \cup {n}
    /\ \/ /\ Skips(c, n) /\ r.status = [c.status EXCEPT ![n] = "skipped"]
          /\ r.queue = Tail(c.queue) \o InNodeOrder(Dependents(deps, n) \ r.visited)
       \/ /\ ~Skips(c, n) /\ r.queue = Tail(c.queue)
          /\ \/ r.status = c.status
             \/ Readies(c, n) /\ r.status = [c.status EXCEPT ![n] = "ready"]

\* A node has the dependents it has.
LEMMA DependentsFanIn ==
  ASSUME Shaped, NEW n \in Node, NEW S
  PROVE  /\ Dependents(deps, n) \ S \in SUBSET Node
         /\ InNodeOrder(Dependents(deps, n) \ S) \in Seq(FanIn)
         /\ Len(InNodeOrder(Dependents(deps, n) \ S)) <= N
<1>1. Dependents(deps, n) \ S \in SUBSET Node /\ Dependents(deps, n) \ S \in SUBSET FanIn
  BY DEF Dependents, FanIn
<1> DEFINE D == Dependents(deps, n) \ S
<1> HIDE DEF D
<1>2. InNodeOrder(D) \in Seq(D) /\ Len(InNodeOrder(D)) <= N
  BY <1>1, InNodeOrderIs DEF D
<1>3. \A s \in Seq(D) : s \in Seq(FanIn)
  BY <1>1 DEF D
<1> QED
  BY <1>1, <1>2, <1>3 DEF D

\* What a round of the loop does.
LEMMA RoundIs ==
  ASSUME Shaped, NEW c \in CState, c.queue # <<>>
  PROVE  Head(c.queue) \in FanIn /\ RoundOf(c, Head(c.queue), CascadeRound(c))
<1> DEFINE n == Head(c.queue)
           seen == c.visited \cup {n}
           w == InNodeOrder(Dependents(deps, n) \ seen)
           next == [c EXCEPT !.queue = Tail(c.queue), !.visited = seen]
<1>1. c.queue \in Seq(FanIn) /\ c.visited \in SUBSET Node /\ c.status \in Statuses
  BY DEF CState
<1>2. n \in FanIn /\ n \in Node /\ Tail(c.queue) \in Seq(FanIn)
  <2>1. n \in FanIn /\ Tail(c.queue) \in Seq(FanIn)
    BY <1>1
  <2> QED
    BY <2>1 DEF FanIn
<1>3. CascadeRound(c) =
         IF n \in c.visited \/ c.status[n] \notin {"pending", "ready"} THEN next
         ELSE IF MustSkip(c.status, n)
              THEN [next EXCEPT !.status[n] = "skipped", !.queue = @ \o w]
         ELSE IF onFailure = "continue" /\ IsBarrierSatisfied(c.status, n)
              THEN [next EXCEPT !.status[n] = "ready"]
         ELSE next
  BY DEF CascadeRound
<1>4. w \in Seq(FanIn)
  BY <1>2, DependentsFanIn
<1>5. seen \in SUBSET Node
  BY <1>1, <1>2
<1> HIDE DEF n, seen, w
<1>6. /\ next \in CState /\ next.queue = Tail(c.queue) /\ next.visited = seen
      /\ next.status = c.status
  BY <1>1, <1>2, <1>5 DEF CState
<1> HIDE DEF next
<1>7. ASSUME NEW s \in {"ready", "skipped"}
      PROVE  [c.status EXCEPT ![n] = s] \in Statuses
  BY <1>1, <1>2, <1>7 DEF Statuses, NodeStatus, Active, Terminal
<1>8. CASE n \in c.visited \/ c.status[n] \notin {"pending", "ready"}
  BY <1>2, <1>3, <1>6, <1>8 DEF RoundOf, Skips, n, seen
<1>9. CASE ~(n \in c.visited \/ c.status[n] \notin {"pending", "ready"}) /\ MustSkip(c.status, n)
  <2> DEFINE r == [next EXCEPT !.status[n] = "skipped", !.queue = @ \o w]
  <2>1. CascadeRound(c) = r
    BY <1>3, <1>9
  <2>2. Tail(c.queue) \o w \in Seq(FanIn)
    BY <1>2, <1>4
  <2>3. [c.status EXCEPT ![n] = "skipped"] \in Statuses
    BY <1>7
  <2>4. /\ r \in CState /\ r.queue = Tail(c.queue) \o w /\ r.visited = seen
        /\ r.status = [c.status EXCEPT ![n] = "skipped"]
    BY <1>6, <2>2, <2>3 DEF CState
  <2> HIDE DEF r
  <2>5. Skips(c, n)
    BY <1>9 DEF Skips
  <2> QED
    BY <1>2, <2>1, <2>4, <2>5 DEF RoundOf, n, seen, w
<1>10. CASE ~(n \in c.visited \/ c.status[n] \notin {"pending", "ready"}) /\ ~MustSkip(c.status, n)
  <2>1. CASE onFailure = "continue" /\ IsBarrierSatisfied(c.status, n)
    <3> DEFINE r == [next EXCEPT !.status[n] = "ready"]
    <3>1. CascadeRound(c) = r
      BY <1>3, <1>10, <2>1
    <3>2. [c.status EXCEPT ![n] = "ready"] \in Statuses
      BY <1>7
    <3>3. /\ r \in CState /\ r.queue = Tail(c.queue) /\ r.visited = seen
          /\ r.status = [c.status EXCEPT ![n] = "ready"]
      BY <1>6, <3>2 DEF CState
    <3> HIDE DEF r
    <3>4. ~Skips(c, n) /\ Readies(c, n)
      BY <1>10, <2>1 DEF Skips, Readies
    <3> QED
      BY <1>2, <3>1, <3>3, <3>4 DEF RoundOf, n, seen
  <2>2. CASE ~(onFailure = "continue" /\ IsBarrierSatisfied(c.status, n))
    <3>1. CascadeRound(c) = next /\ ~Skips(c, n)
      BY <1>3, <1>10, <2>2 DEF Skips
    <3> QED
      BY <1>2, <1>6, <3>1 DEF RoundOf, n, seen
  <2> QED
    BY <2>1, <2>2
<1> QED
  BY <1>8, <1>9, <1>10

\* A round leaves a state of the loop.
LEMMA RoundState == ASSUME Shaped, NEW c \in CState PROVE CascadeRound(c) \in CState
<1>1. CASE c.queue = <<>>
  BY <1>1 DEF CascadeRound
<1>2. CASE c.queue # <<>>
  BY <1>2, RoundIs DEF RoundOf
<1> QED
  BY <1>1, <1>2

-----------------------------------------------------------------------------
(* What the rounds keep.                                                   *)

\* A round moves nodes that had not started, as far as their barriers allow.
LEMMA RoundMoves ==
  ASSUME Shaped, onFailure \in Policies, NEW c \in CState, NEW n \in FanIn, NEW r, RoundOf(c, n, r)
  PROVE  /\ Moved(c.status, r.status)
         /\ Fit(c.status) => Fit(r.status)
         /\ AllHopeless(c.status) => AllHopeless(r.status)
<1>1. c.status \in Statuses /\ r.status \in Statuses /\ n \in Node /\ deps[n] # {}
  BY DEF CState, RoundOf, FanIn
<1>2. CASE Skips(c, n) /\ r.status = [c.status EXCEPT ![n] = "skipped"]
  <2>1. r.status[n] = "skipped" /\ \A d \in Node : d # n => r.status[d] = c.status[d]
    BY <1>1, <1>2 DEF Statuses
  <2>2. c.status[n] \in {"pending", "ready"} /\ Hopeless(c.status, n)
    BY <1>1, <1>2, SkipHopeless DEF Skips
  <2>3. Moved(c.status, r.status)
    BY <2>1, <2>2 DEF Moved
  <2>4. KeepsEnded(c.status, r.status) /\ KeepsLost(c.status, r.status)
    BY <1>1, <2>3, MovedKeeps
  <2>5. \A m \in FanIn : r.status[m] \in Begun => c.status[m] \in Begun
    BY <2>1 DEF Begun, FanIn
  <2>6. \A m \in Node : r.status[m] = "skipped" => c.status[m] = "skipped" \/ Hopeless(c.status, m)
    BY <2>1, <2>2
  <2> QED
    BY <2>3, <2>4, <2>5, <2>6, FitKept, HopelessStay
<1>3. CASE r.status = c.status
  BY <1>3 DEF Moved
<1>4. CASE Readies(c, n) /\ r.status = [c.status EXCEPT ![n] = "ready"]
  <2>1. r.status[n] = "ready" /\ \A d \in Node : d # n => r.status[d] = c.status[d]
    BY <1>1, <1>4 DEF Statuses
  <2>2. c.status[n] \in {"pending", "ready"} /\ Meets(c.status, n)
    BY <1>1, <1>4, SatisfiedMeets DEF Readies
  <2>3. Moved(c.status, r.status)
    BY <2>1, <2>2 DEF Moved
  <2>4. KeepsEnded(c.status, r.status) /\ KeepsLost(c.status, r.status)
    BY <1>1, <2>3, MovedKeeps
  <2>5. \A m \in FanIn : r.status[m] \in Begun => c.status[m] \in Begun \/ Meets(c.status, m)
    BY <2>1, <2>2 DEF FanIn
  <2>6. \A m \in Node : r.status[m] = "skipped" => c.status[m] = "skipped"
    BY <2>1
  <2> QED
    BY <2>3, <2>4, <2>5, <2>6, FitKept, HopelessStay
<1> QED
  BY <1>2, <1>3, <1>4 DEF RoundOf

\* The nodes whose dependents were queued since the statuses were st.
Pushed(st, c) == {n \in Node : st[n] # "skipped" /\ c.status[n] = "skipped"}

\* After i rounds the nodes queued so far are at most N for each that pushed.
Bounded(st, c, i) == c.queue = <<>> \/ Len(c.queue) + i <= N * (1 + Cardinality(Pushed(st, c)))

\* Sets of nodes are finite.
LEMMA NodesFinite ==
  ASSUME NEW S \in SUBSET Node
  PROVE  IsFiniteSet(S) /\ Cardinality(S) \in Nat /\ Cardinality(S) <= N
<1>1. IsFiniteSet(Node) /\ Cardinality(Node) = N
  BY NAssumption, FS_Interval DEF Node
<1> QED
  BY <1>1, FS_Subset, FS_CardinalityType

\* A round keeps the bound.
LEMMA RoundBounded ==
  ASSUME Shaped, NEW st \in Statuses, NEW c \in CState, NEW n \in FanIn, NEW r, RoundOf(c, n, r),
         c.queue # <<>>, Moved(st, c.status), NEW i \in Nat, Bounded(st, c, i)
  PROVE  Bounded(st, r, i + 1)
<1> DEFINE P == Pushed(st, c)
           Q == Pushed(st, r)
           p == Cardinality(P)
<1>1. /\ c.queue \in Seq(FanIn) /\ c.visited \in SUBSET Node /\ c.status \in Statuses
      /\ r.queue \in Seq(FanIn) /\ r.visited \in SUBSET Node /\ r.status \in Statuses
      /\ n \in Node /\ r.visited = c.visited \cup {n}
  BY DEF CState, RoundOf, FanIn
<1>2. /\ Tail(c.queue) \in Seq(FanIn) /\ Len(Tail(c.queue)) = Len(c.queue) - 1
      /\ Len(c.queue) \in Nat /\ N \in Nat
  BY <1>1, NAssumption
<1>3. P \in SUBSET Node /\ Q \in SUBSET Node
  BY <1>1 DEF Pushed
<1>4. IsFiniteSet(P) /\ IsFiniteSet(Q) /\ p \in Nat /\ Cardinality(Q) \in Nat
  BY <1>3, NodesFinite
<1>5. Len(c.queue) + i <= N * (1 + p)
  BY DEF Bounded
<1>6. CASE Skips(c, n)
  <2>1. /\ r.status = [c.status EXCEPT ![n] = "skipped"]
        /\ r.queue = Tail(c.queue) \o InNodeOrder(Dependents(deps, n) \ r.visited)
    BY <1>6 DEF RoundOf
  <2>2. n \notin c.visited /\ c.status[n] \in {"pending", "ready"}
    BY <1>6 DEF Skips
  <2>3. r.status[n] = "skipped" /\ \A d \in Node : d # n => r.status[d] = c.status[d]
    BY <1>1, <2>1 DEF Statuses
  <2>4. st[n] # "skipped"
    BY <1>1, <2>2 DEF Moved
  <2>5. Q = P \cup {n} /\ n \notin P
    BY <1>1, <2>2, <2>3, <2>4 DEF Pushed
  <2>6. Cardinality(Q) = p + 1
    BY <1>4, <2>5, FS_AddElement
  <2> DEFINE w == InNodeOrder(Dependents(deps, n) \ r.visited)
  <2>7. w \in Seq(FanIn) /\ Len(w) <= N
    BY <1>1, DependentsFanIn
  <2> HIDE DEF w, p
  <2>8. Len(r.queue) = Len(c.queue) - 1 + Len(w) /\ Len(w) \in Nat
    BY <1>2, <2>1, <2>7 DEF w
  <2>9. N * (1 + (p + 1)) = N * (1 + p) + N
    BY <1>2, <1>4
  <2>10. Len(r.queue) + (i + 1) <= N * (1 + Cardinality(Q))
    <3> DEFINE B == N * (1 + p)
    <3>1. B \in Nat
      BY <1>2, <1>4
    <3> HIDE DEF B
    <3>2. N * (1 + Cardinality(Q)) = B + N
      BY <2>6, <2>9 DEF B
    <3>3. Len(c.queue) + i <= B
      BY <1>5 DEF B
    <3> DEFINE L == Len(c.queue)
               W == Len(w)
               M == Len(r.queue)
               K == N * (1 + Cardinality(Q))
    <3>4. L \in Nat /\ W \in Nat /\ W <= N /\ M = L - 1 + W /\ K = B + N /\ L + i <= B /\ N \in Nat
      BY <1>2, <2>7, <2>8, <3>2, <3>3
    <3> HIDE DEF L, W, M, K
    <3>5. M + (i + 1) <= K
      BY <3>1, <3>4
    <3> QED
      BY <3>5 DEF M, K
  <2> QED
    BY <2>10 DEF Bounded
<1>7. CASE ~Skips(c, n)
  <2>1. r.queue = Tail(c.queue) /\ Len(r.queue) + (i + 1) = Len(c.queue) + i
    <3>1. r.queue = Tail(c.queue)
      BY <1>7 DEF RoundOf
    <3>2. Len(r.queue) = Len(c.queue) - 1
      BY <1>2, <3>1
    <3> DEFINE L == Len(c.queue)
    <3>3. L \in Nat /\ Len(r.queue) = L - 1
      BY <1>2, <3>2
    <3> HIDE DEF L
    <3>4. Len(r.queue) + (i + 1) = L + i
      BY <3>3
    <3> QED
      BY <3>1, <3>4 DEF L
  <2>2. Q = P
    <3>1. /\ \A d \in Node : d # n => r.status[d] = c.status[d]
          /\ r.status[n] = "skipped" <=> c.status[n] = "skipped"
      BY <1>1, <1>7 DEF RoundOf, Readies, Statuses
    <3> QED
      BY <1>1, <3>1 DEF Pushed
  <2> QED
    BY <1>5, <2>1, <2>2 DEF Bounded
<1> QED
  BY <1>6, <1>7

\* The failure policy or the barriers leave no partial success.
Modest == onFailure = "fail-fast" \/ \A n \in Node : barrier[n] = "all"

\* A dependency of n is lost.
HasLost(st, n) == \E d \in deps[n] : st[d] \in Lost

\* While the cascade runs: the queue holds nodes with a lost dependency, a
\* visited node waits no more, and a waiting node with a lost dependency is
\* queued.
Sweeping(c) ==
    /\ \A i \in 1 .. Len(c.queue) : HasLost(c.status, c.queue[i])
    /\ \A m \in c.visited : c.status[m] # "pending"
    /\ \A m \in Node : c.status[m] = "pending" /\ HasLost(c.status, m) => Listed(c.queue, m)

\* A node with a lost dependency is skipped.
LEMMA ModestSkips ==
  ASSUME Shaped, Modest, NEW st \in Statuses, NEW n \in Node, HasLost(st, n)
  PROVE  MustSkip(st, n)
<1> DEFINE best == CountDeps(st, n, Active \cup {"completed"})
           bad == CountDeps(st, n, {"failed", "skipped"})
<1>1. PICK d \in deps[n] : st[d] \in Lost
  BY DEF HasLost
<1>2. d \in deps[n] /\ st[d] \in {"failed", "skipped"} /\ st[d] \notin Active \cup {"completed"}
  BY <1>1 DEF Lost, Active
<1>3. bad \in Nat /\ bad # 0
  BY <1>2, CountAll
<1>4. best \in Nat /\ Cardinality(deps[n]) \in Nat /\ best < Cardinality(deps[n])
  BY <1>2, CountAll
<1> HIDE DEF best, bad
<1>5. HasFailedOrSkippedDep(st, n)
  BY <1>3 DEF HasFailedOrSkippedDep, bad
<1>6. barrier[n] = "all" => IsBarrierUnsatisfiable(st, n)
  BY <1>4 DEF IsBarrierUnsatisfiable, best
<1> QED
  BY <1>5, <1>6 DEF MustSkip, Modest

\* A round sweeps on.
LEMMA RoundSweeps ==
  ASSUME Shaped, Modest, NEW c \in CState, c.queue # <<>>, NEW n, n = Head(c.queue), n \in FanIn,
         NEW r, RoundOf(c, n, r), Sweeping(c)
  PROVE  Sweeping(r)
<1> DEFINE v == Tail(c.queue)
<1>1. /\ c.queue \in Seq(FanIn) /\ c.visited \in SUBSET Node /\ c.status \in Statuses
      /\ r.queue \in Seq(FanIn) /\ r.visited \in SUBSET Node /\ r.status \in Statuses
      /\ n \in Node /\ r.visited = c.visited \cup {n}
  BY DEF CState, RoundOf, FanIn
<1>2. /\ v \in Seq(FanIn) /\ Len(v) \in Nat /\ 1 \in 1 .. Len(c.queue) /\ c.queue[1] = n
      /\ \A i \in 1 .. Len(v) : i + 1 \in 1 .. Len(c.queue) /\ v[i] = c.queue[i + 1]
      /\ \A i \in 1 .. Len(c.queue) : i # 1 => i - 1 \in 1 .. Len(v) /\ v[i - 1] = c.queue[i]
  BY <1>1
<1> HIDE DEF v
<1>3. /\ \A i \in 1 .. Len(v) : HasLost(c.status, v[i])
      /\ HasLost(c.status, n)
      /\ \A m : Listed(c.queue, m) => m = n \/ Listed(v, m)
  <2>1. \A i \in 1 .. Len(v) : HasLost(c.status, v[i])
    BY <1>2 DEF Sweeping
  <2>2. HasLost(c.status, n)
    BY <1>2 DEF Sweeping
  <2>3. \A m : Listed(c.queue, m) => m = n \/ Listed(v, m)
    <3> SUFFICES ASSUME NEW m, NEW i \in 1 .. Len(c.queue), c.queue[i] = m, m # n
                 PROVE  Listed(v, m)
      BY DEF Listed
    <3>1. i # 1
      BY <1>2
    <3> QED
      BY <1>2, <3>1 DEF Listed
  <2> QED
    BY <2>1, <2>2, <2>3
<1>4. MustSkip(c.status, n)
  BY <1>1, <1>3, ModestSkips
<1>5. CASE Skips(c, n)
  <2> DEFINE D == Dependents(deps, n) \ r.visited
             w == InNodeOrder(D)
  <2>1. r.status = [c.status EXCEPT ![n] = "skipped"] /\ r.queue = v \o w
    BY <1>5 DEF RoundOf, v
  <2>2. r.status[n] = "skipped" /\ \A d \in Node : d # n => r.status[d] = c.status[d]
    BY <1>1, <2>1 DEF Statuses
  <2>3. D \in SUBSET Node
    BY <1>1, DependentsFanIn
  <2> HIDE DEF D
  <2>4. w \in Seq(D) /\ \A m \in D : Listed(w, m)
    BY <2>3, InNodeOrderIs
  <2> HIDE DEF w
  <2>5. Len(w) \in Nat /\ \A i \in 1 .. Len(w) : w[i] \in D
    BY <2>4
  <2>6. /\ Len(r.queue) = Len(v) + Len(w)
        /\ \A i \in 1 .. Len(r.queue) :
              r.queue[i] = IF i <= Len(v) THEN v[i] ELSE w[i - Len(v)]
    BY <1>2, <2>1, <2>4
  <2>7. \A m \in D : n \in deps[m] /\ m \notin r.visited /\ m \in Node
    BY DEF D, Dependents
  <2>8. \A m \in Node : HasLost(c.status, m) => HasLost(r.status, m)
    BY <1>1, <2>2 DEF HasLost, Shaped, Lost
  <2>9. \A m \in D : HasLost(r.status, m)
    BY <2>2, <2>7 DEF HasLost, Lost
  <2>10. \A i \in 1 .. Len(r.queue) : HasLost(r.status, r.queue[i])
    <3> SUFFICES ASSUME NEW i \in 1 .. Len(r.queue) PROVE HasLost(r.status, r.queue[i])
      OBVIOUS
    <3>1. CASE i <= Len(v)
      <4>1. i \in 1 .. Len(v) /\ r.queue[i] = v[i]
        BY <1>2, <2>6, <3>1
      <4>2. v[i] \in Node
        BY <1>2, <4>1 DEF FanIn
      <4> QED
        BY <1>3, <2>8, <4>1, <4>2
    <3>2. CASE ~(i <= Len(v))
      <4>1. i - Len(v) \in 1 .. Len(w) /\ r.queue[i] = w[i - Len(v)]
        BY <1>2, <2>5, <2>6, <3>2
      <4> QED
        BY <2>5, <2>9, <4>1
    <3> QED
      BY <3>1, <3>2
  <2>11. \A m \in r.visited : r.status[m] # "pending"
    BY <1>1, <2>2 DEF Sweeping
  <2>12. ASSUME NEW m \in Node, r.status[m] = "pending", HasLost(r.status, m)
         PROVE  Listed(r.queue, m)
    <3>1. m # n /\ c.status[m] = "pending" /\ m \notin r.visited
      BY <2>2, <2>11, <2>12
    <3>2. CASE n \in deps[m]
      <4>1. m \in D
        BY <3>1, <3>2 DEF D, Dependents
      <4>2. PICK i \in 1 .. Len(w) : w[i] = m
        BY <2>4, <4>1 DEF Listed
      <4> DEFINE j == Len(v) + i
      <4>3. j \in 1 .. (Len(v) + Len(w)) /\ ~(j <= Len(v)) /\ j - Len(v) = i
        BY <1>2, <2>5
      <4> HIDE DEF j
      <4>4. j \in 1 .. Len(r.queue) /\ r.queue[j] = w[i]
        BY <2>6, <4>3
      <4> QED
        BY <4>2, <4>4 DEF Listed
    <3>3. CASE n \notin deps[m]
      <4>1. HasLost(c.status, m)
        BY <2>2, <2>12, <3>3 DEF HasLost, Shaped
      <4>2. Listed(v, m)
        BY <1>3, <3>1, <4>1 DEF Sweeping
      <4>3. PICK i \in 1 .. Len(v) : v[i] = m
        BY <4>2 DEF Listed
      <4>4. i \in 1 .. Len(r.queue) /\ r.queue[i] = v[i]
        BY <1>2, <2>5, <2>6
      <4> QED
        BY <4>3, <4>4 DEF Listed
    <3> QED
      BY <3>2, <3>3
  <2> QED
    BY <2>10, <2>11, <2>12 DEF Sweeping
<1>6. CASE ~Skips(c, n)
  <2>1. c.status[n] # "pending"
    BY <1>4, <1>6 DEF Skips, Sweeping
  <2>2. r.queue = v
    BY <1>6 DEF RoundOf, v
  <2>3. /\ \A d \in Node : d # n => r.status[d] = c.status[d]
        /\ r.status[n] # "pending" /\ (r.status[n] \in Lost <=> c.status[n] \in Lost)
    BY <1>1, <1>6, <2>1 DEF RoundOf, Readies, Statuses, Lost
  <2>4. \A d \in Node : r.status[d] \in Lost <=> c.status[d] \in Lost
    BY <2>3
  <2>5. \A m \in Node : HasLost(r.status, m) <=> HasLost(c.status, m)
    BY <2>4 DEF HasLost, Shaped
  <2>6. \A i \in 1 .. Len(r.queue) : HasLost(r.status, r.queue[i])
    <3>1. \A i \in 1 .. Len(v) : v[i] \in Node
      BY <1>2 DEF FanIn
    <3> QED
      BY <1>3, <2>2, <2>5, <3>1
  <2>7. \A m \in r.visited : r.status[m] # "pending"
    BY <1>1, <2>3 DEF Sweeping
  <2>8. \A m \in Node : r.status[m] = "pending" /\ HasLost(r.status, m) => Listed(r.queue, m)
    BY <1>3, <2>2, <2>3, <2>5 DEF Sweeping
  <2> QED
    BY <2>6, <2>7, <2>8 DEF Sweeping
<1> QED
  BY <1>5, <1>6

-----------------------------------------------------------------------------
(* cascadeFailure as a whole.                                              *)

\* Only f may be a lost dependency of a waiting node.
CleanBut(st, f) ==
    \A m \in Node : st[m] = "pending" => \A d \in deps[m] : st[d] \in Lost => d = f

\* No waiting node has a lost dependency.
Clean(st) == \A m \in Node : st[m] = "pending" => ~HasLost(st, m)

\* The rounds of the loop from the statuses st, node f having failed.
Begins(st, f) == [queue |-> InNodeOrder(Dependents(deps, f)), visited |-> {}, status |-> st]
IsRounds(st, f, g) ==
    g = [i \in 0 .. N * N |-> IF i = 0 THEN Begins(st, f) ELSE CascadeRound(g[i - 1])]

\* The state before the first round is one.
LEMMA BeginsState ==
  ASSUME Shaped, NEW st \in Statuses, NEW f \in Node
  PROVE  /\ Begins(st, f) \in CState /\ Begins(st, f).status = st
         /\ Begins(st, f).queue = InNodeOrder(Dependents(deps, f)) /\ Begins(st, f).visited = {}
         /\ Len(Begins(st, f).queue) <= N
<1>1. Dependents(deps, f) = Dependents(deps, f) \ {}
  OBVIOUS
<1>2. /\ InNodeOrder(Dependents(deps, f)) \in Seq(FanIn)
      /\ Len(InNodeOrder(Dependents(deps, f))) <= N
  BY <1>1, DependentsFanIn
<1> QED
  BY <1>2 DEF Begins, CState

\* The rounds are those of a function there is.
LEMMA RoundsExist ==
  ASSUME Shaped, NEW st \in Statuses, NEW f \in Node
  PROVE  \E g : IsRounds(st, f, g) /\ CascadeFailure(st, f) = g[N * N].status
<1> DEFINE a == Begins(st, f)
           step == [i \in 1 .. N * N |-> [c \in CState |-> CascadeRound(c)]]
           h == CHOOSE g : IsRounds(st, f, g)
<1>1. a \in CState
  BY BeginsState
<1>2. CascadeFailure(st, f) = h[N * N].status
  BY DEF CascadeFailure, IsRounds, Begins
<1>3. N * N \in Nat
  BY NAssumption
<1>4. PICK g \in [0 .. N * N -> CState] : Unfolds(g, N * N, a, step)
  <2>1. step \in [1 .. N * N -> [CState -> CState]]
    BY RoundState
  <2> DEFINE K == N * N
  <2>2. K \in Nat /\ step \in [1 .. K -> [CState -> CState]]
    BY <1>3, <2>1
  <2> HIDE DEF step, K, a
  <2>3. \E g \in [0 .. K -> CState] : Unfolds(g, K, a, step)
    BY <1>1, <2>2, RecursionExists
  <2> QED
    BY <2>3 DEF K
<1>5. IsRounds(st, f, g)
  <2> DEFINE K == N * N
  <2>1. K \in Nat /\ g \in [0 .. K -> CState]
    BY <1>3
  <2>2. \A i \in 0 .. K : g[i] = IF i = 0 THEN a ELSE step[i][g[i - 1]]
    BY <1>4 DEF Unfolds
  <2>3. \A i \in 1 .. K : \A c \in CState : step[i][c] = CascadeRound(c)
    OBVIOUS
  <2> HIDE DEF K, a, step
  <2>4. \A i \in 0 .. K : g[i] = IF i = 0 THEN a ELSE CascadeRound(g[i - 1])
    <3> SUFFICES ASSUME NEW i \in 0 .. K, i # 0 PROVE g[i] = CascadeRound(g[i - 1])
      BY <2>2
    <3>0. i \in 1 .. K /\ i - 1 \in 0 .. K
      BY <2>1
    <3>1. i \in 1 .. K /\ g[i - 1] \in CState
      BY <2>1, <3>0
    <3> QED
      BY <2>2, <2>3, <3>1
  <2>5. g = [i \in 0 .. K |-> IF i = 0 THEN a ELSE CascadeRound(g[i - 1])]
    BY <2>1, <2>4
  <2> QED
    BY <2>5 DEF IsRounds, K, a
<1>6. IsRounds(st, f, h)
  BY <1>5
<1> HIDE DEF h
<1> QED
  BY <1>2, <1>6

\* What holds after i rounds.
Going(st, c, i) ==
    /\ c \in CState
    /\ Moved(st, c.status)
    /\ Fit(c.status)
    /\ AllHopeless(st) => AllHopeless(c.status)
    /\ Bounded(st, c, i)

\* It goes on so.
LEMMA RoundGoes ==
  ASSUME Shaped, onFailure \in Policies, NEW st \in Statuses, NEW c, NEW i \in Nat, Going(st, c, i)
  PROVE  Going(st, CascadeRound(c), i + 1)
<1> DEFINE r == CascadeRound(c)
<1>1. c \in CState /\ Moved(st, c.status) /\ Fit(c.status) /\ Bounded(st, c, i)
  BY DEF Going
<1>2. CASE c.queue = <<>>
  <2>1. r = c
    BY <1>2 DEF CascadeRound
  <2>2. Bounded(st, r, i + 1)
    BY <1>2, <2>1 DEF Bounded
  <2> HIDE DEF r
  <2> QED
    BY <2>1, <2>2 DEF Going, r
<1>3. CASE c.queue # <<>>
  <2> DEFINE n == Head(c.queue)
  <2>1. n \in FanIn /\ RoundOf(c, n, r)
    BY <1>1, <1>3, RoundIs
  <2> HIDE DEF n, r
  <2>2. /\ Moved(c.status, r.status) /\ Fit(r.status)
        /\ AllHopeless(c.status) => AllHopeless(r.status)
    BY <1>1, <2>1, RoundMoves
  <2>3. Bounded(st, r, i + 1)
    BY <1>1, <1>3, <2>1, RoundBounded
  <2>4. Moved(st, r.status)
    BY <1>1, <2>2 DEF Moved
  <2>5. r \in CState
    BY <2>1 DEF RoundOf
  <2> QED
    BY <2>2, <2>3, <2>4, <2>5 DEF Going, r
<1> QED
  BY <1>2, <1>3

\* The queue is empty after N * N rounds.
LEMMA QueueEmpties ==
  ASSUME Shaped, NEW st \in Statuses, NEW f \in Node, st[f] = "failed", NEW c, Going(st, c, N * N)
  PROVE  c.queue = <<>>
<1> SUFFICES ASSUME c.queue # <<>> PROVE FALSE
  OBVIOUS
<1> DEFINE P == Pushed(st, c)
           p == Cardinality(P)
           L == Len(c.queue)
<1>1. c \in CState /\ Moved(st, c.status) /\ L + N * N <= N * (1 + p)
  BY DEF Going, Bounded
<1>2. L \in Nat /\ L # 0
  <2>1. c.queue \in Seq(FanIn)
    BY <1>1 DEF CState
  <2> QED
    BY <2>1
<1>3. f \notin P /\ P \in SUBSET Node
  BY <1>1 DEF Moved, Pushed
<1>4. IsFiniteSet(P) /\ p \in Nat
  BY <1>3, NodesFinite
<1>5. Cardinality(P \cup {f}) = p + 1
  BY <1>3, <1>4, FS_AddElement
<1>6. Cardinality(P \cup {f}) <= N
  BY <1>3, NodesFinite
<1> HIDE DEF P, p, L
<1>7. 1 + p <= N /\ N \in Nat
  BY <1>4, <1>5, <1>6, NAssumption
<1>8. N * (1 + p) <= N * N
  BY <1>4, <1>7, SMTT(30)
<1> DEFINE A == N * (1 + p)
           B == N * N
<1>9. A \in Nat /\ B \in Nat /\ L + B <= A /\ A <= B
  BY <1>1, <1>4, <1>7, <1>8
<1> HIDE DEF A, B
<1> QED
  BY <1>2, <1>9

\* cascadeFailure moves nodes as far as their barriers allow, and, where there
\* is no partial success, leaves no node waiting for what is lost.
LEMMA CascadeIs ==
  ASSUME Shaped, onFailure \in Policies, NEW st \in Statuses, NEW f \in Node, st[f] = "failed",
         Fit(st)
  PROVE  /\ CascadeFailure(st, f) \in Statuses
         /\ Moved(st, CascadeFailure(st, f))
         /\ Fit(CascadeFailure(st, f))
         /\ AllHopeless(st) => AllHopeless(CascadeFailure(st, f))
         /\ Modest /\ CleanBut(st, f) => Clean(CascadeFailure(st, f))
<1>1. PICK g : IsRounds(st, f, g) /\ CascadeFailure(st, f) = g[N * N].status
  BY RoundsExist
<1> DEFINE K == N * N
           a == Begins(st, f)
<1>2. K \in Nat /\ N \in Nat
  BY NAssumption
<1>3. \A i \in 0 .. K : g[i] = IF i = 0 THEN a ELSE CascadeRound(g[i - 1])
  BY <1>1 DEF IsRounds
<1>4. g[0] = a /\ \A i \in Nat : i + 1 <= K => g[i + 1] = CascadeRound(g[i])
  <2> HIDE DEF K, a
  <2>1. g[0] = a
    BY <1>2, <1>3
  <2>2. ASSUME NEW i \in Nat, i + 1 <= K PROVE g[i + 1] = CascadeRound(g[i])
    <3>1. i + 1 \in 0 .. K /\ i + 1 # 0 /\ (i + 1) - 1 = i
      BY <1>2, <2>2
    <3> QED
      BY <1>3, <3>1
  <2> QED
    BY <2>1, <2>2
<1>5. /\ a \in CState /\ a.status = st /\ a.visited = {}
      /\ a.queue = InNodeOrder(Dependents(deps, f)) /\ Len(a.queue) <= N
  BY BeginsState
<1> HIDE DEF a
<1>6. Going(st, a, 0)
  <2>1. Moved(st, a.status) /\ Fit(a.status)
    BY <1>5 DEF Moved
  <2>2. Pushed(st, a) = {}
    BY <1>5 DEF Pushed
  <2>3. Cardinality(Pushed(st, a)) = 0
    BY <2>2, FS_EmptySet
  <2>4. Len(a.queue) \in Nat
    <3>1. a.queue \in Seq(FanIn)
      BY <1>5 DEF CState
    <3> QED
      BY <3>1
  <2>5. Bounded(st, a, 0)
    BY <1>2, <1>5, <2>3, <2>4 DEF Bounded
  <2> QED
    BY <1>5, <2>1, <2>5 DEF Going
<1> DEFINE T == {i \in Nat : i <= K => Going(st, g[i], i)}
<1>7. T = Nat
  <2>1. 0 \in T
    BY <1>4, <1>6
  <2>2. ASSUME NEW i \in T PROVE i + 1 \in T
    <3> SUFFICES ASSUME i + 1 <= K PROVE Going(st, g[i + 1], i + 1)
      OBVIOUS
    <3>1. i \in Nat /\ Going(st, g[i], i)
      BY <1>2
    <3> QED
      BY <1>4, <3>1, RoundGoes
  <2> HIDE DEF T
  <2>3. T \in SUBSET Nat
    BY DEF T
  <2> QED
    BY <2>1, <2>2, <2>3, InductiveSet
<1> HIDE DEF K
<1>8. \A i \in Nat : i <= K => Going(st, g[i], i)
  BY <1>7
<1>9. Going(st, g[K], K) /\ CascadeFailure(st, f) = g[K].status
  <2>1. K <= K
    BY <1>2
  <2> QED
    BY <1>1, <1>2, <1>8, <2>1 DEF K
<1>10. ASSUME Modest, CleanBut(st, f) PROVE Clean(g[K].status)
  <2>1. Sweeping(a)
    <3> DEFINE D == Dependents(deps, f)
    <3>1. D \in SUBSET Node /\ \A m \in Node : m \in D <=> f \in deps[m]
      BY DEF Dependents
    <3> HIDE DEF D
    <3>2. a.queue \in Seq(D) /\ \A m \in D : Listed(a.queue, m)
      BY <1>5, <3>1, InNodeOrderIs DEF D
    <3>3. \A i \in 1 .. Len(a.queue) : a.queue[i] \in D
      BY <3>2
    <3>4. \A m \in D : HasLost(st, m)
      BY <3>1 DEF HasLost, Lost
    <3>5. \A m \in Node : st[m] = "pending" /\ HasLost(st, m) => Listed(a.queue, m)
      BY <1>10, <3>1, <3>2 DEF CleanBut, HasLost
    <3> QED
      BY <1>5, <3>3, <3>4, <3>5 DEF Sweeping
  <2> DEFINE U == {i \in Nat : i <= K => Sweeping(g[i])}
  <2>2. U = Nat
    <3>1. 0 \in U
      BY <1>4, <2>1
    <3>2. ASSUME NEW i \in U PROVE i + 1 \in U
      <4> SUFFICES ASSUME i + 1 <= K PROVE Sweeping(g[i + 1])
        OBVIOUS
      <4>1. i \in Nat /\ i <= K
        BY <1>2
      <4>2. Sweeping(g[i]) /\ g[i] \in CState /\ g[i + 1] = CascadeRound(g[i])
        BY <1>4, <1>8, <4>1 DEF Going
      <4>3. CASE g[i].queue = <<>>
        BY <4>2, <4>3 DEF CascadeRound
      <4>4. CASE g[i].queue # <<>>
        <5>1. Head(g[i].queue) \in FanIn /\ RoundOf(g[i], Head(g[i].queue), g[i + 1])
          BY <4>2, <4>4, RoundIs
        <5> QED
          BY <1>10, <4>2, <4>4, <5>1, RoundSweeps
      <4> QED
        BY <4>3, <4>4
    <3> HIDE DEF U
    <3>3. U \in SUBSET Nat
      BY DEF U
    <3> QED
      BY <3>1, <3>2, <3>3, InductiveSet
  <2>3. Sweeping(g[K])
    <3>1. K \in U /\ K <= K
      BY <1>2, <2>2
    <3> QED
      BY <3>1
  <2>4. g[K].queue = <<>>
    BY <1>9, QueueEmpties DEF K
  <2>5. \A m : ~Listed(g[K].queue, m)
    BY <2>4 DEF Listed
  <2> QED
    BY <2>3, <2>5 DEF Sweeping, Clean
<1> QED
  BY <1>9, <1>10 DEF Going, CState

-----------------------------------------------------------------------------
(* evaluateBarriers and the invariant.                                     *)

\* Every waiting node waits for one that has not ended.
Flowing(st) == \A m \in Node : st[m] = "pending" => \E d \in deps[m] : st[d] \in Active

IndInv ==
    /\ TypeOK
    /\ phase # "running" => \A n \in Node : status[n] = "pending"
    /\ phase = "running" => Fit(status)
    /\ ~cancelled => AllHopeless(status)
    /\ phase = "running" /\ Modest => Clean(status) /\ Flowing(status)

\* evaluateBarriers makes nodes ready whose barrier is met.
LEMMA EvaluateIs ==
  ASSUME Shaped, NEW st \in Statuses, NEW n \in Node, Fit(st), NEW tt, tt = EvaluateBarriers(st, n)
  PROVE  /\ tt \in Statuses /\ Moved(st, tt) /\ Fit(tt)
         /\ AllHopeless(st) => AllHopeless(tt)
         /\ \A m \in Node : tt[m] = "pending" =>
               st[m] = "pending" /\ (n \in deps[m] => ~IsBarrierSatisfied(st, m))
         /\ \A m \in Node : tt[m] = st[m] \/ (st[m] = "pending" /\ tt[m] = "ready")
<1>1. \A m \in Node : tt[m] = IF n \in deps[m] /\ st[m] = "pending" /\ IsBarrierSatisfied(st, m)
                              THEN "ready" ELSE st[m]
  BY DEF EvaluateBarriers
<1>2. tt \in Statuses
  <2>1. tt = [m \in Node |-> tt[m]]
    BY DEF EvaluateBarriers
  <2>2. \A m \in Node : tt[m] \in NodeStatus
    BY <1>1 DEF Statuses, NodeStatus, Active
  <2> QED
    BY <2>1, <2>2 DEF Statuses
<1>3. \A m \in Node : tt[m] = st[m] \/ (st[m] = "pending" /\ tt[m] = "ready")
  BY <1>1
<1>4. Moved(st, tt)
  BY <1>3 DEF Moved
<1>5. KeepsEnded(st, tt) /\ KeepsLost(st, tt)
  BY <1>2, <1>4, MovedKeeps
<1>6. \A m \in FanIn : tt[m] \in Begun => st[m] \in Begun \/ Meets(st, m)
  <2> SUFFICES ASSUME NEW m \in FanIn, tt[m] # st[m] PROVE Meets(st, m)
    OBVIOUS
  <2>1. m \in Node /\ deps[m] # {} /\ IsBarrierSatisfied(st, m)
    BY <1>1 DEF FanIn
  <2> QED
    BY <2>1, SatisfiedMeets
<1>7. Fit(tt)
  BY <1>5, <1>6, FitKept
<1>8. AllHopeless(st) => AllHopeless(tt)
  BY <1>3, <1>5, HopelessStay
<1> QED
  BY <1>1, <1>2, <1>3, <1>4, <1>7, <1>8

\* The configuration is one of the machine.
LEMMA TypeShaped == TypeOK => Shaped /\ status \in Statuses /\ onFailure \in Policies
  BY DEF TypeOK, Shaped, Statuses

\* The invariant after a step of a running graph.
LEMMA Concluded ==
  ASSUME phase' = "running", UNCHANGED config, TypeOK', Fit(status'),
         ~cancelled' => AllHopeless(status'),
         Modest => Clean(status') /\ Flowing(status')
  PROVE  IndInv'
<1>1. deps' = deps /\ barrier' = barrier /\ onFailure' = onFailure
  BY DEF config
<1>2. Fit(status)'
  BY <1>1 DEF Fit, FanIn, Begun, Meets, Suffice, CountDeps
<1>3. (~cancelled => AllHopeless(status))'
  BY <1>1 DEF AllHopeless, Hopeless, LostDeps, Suffice
<1>4. (Modest => Clean(status) /\ Flowing(status))'
  BY <1>1 DEF Modest, Clean, Flowing, HasLost
<1> QED
  BY <1>2, <1>3, <1>4 DEF IndInv

\* No node is started or lost at first.
LEMMA InitInd == Init => IndInv
<1> SUFFICES ASSUME Init PROVE IndInv
  OBVIOUS
<1>1. TypeOK
  <2>1. onFailure \in Policies
    BY PoliciesAssumption DEF Init
  <2>2. "all" \in Barriers /\ MaxRetries \in Nat /\ MaxRestarts \in Nat
    BY BarriersAssumption, RetriesAssumption
  <2>3. barrier \in [Node -> Barriers] /\ retriesRemaining \in [Node -> 0 .. MaxRetries]
        /\ status \in [Node -> NodeStatus] /\ restarts \in 0 .. MaxRestarts
    BY <2>2 DEF Init, NodeStatus, Active
  <2> QED
    BY <2>1, <2>3 DEF TypeOK, Init
<1> QED
  BY <1>1 DEF Init, IndInv, AllHopeless

\* A new graph starts its roots.
LEMMA CreateInd == ASSUME IndInv, Create PROVE IndInv'
<1>1. phase = "submitted" /\ UNCHANGED <<deps, cancelled, restarts>> /\ TypeOK
  BY DEF Create, IndInv
<1>2. CASE Accepted(deps)
  <2>1. /\ phase' = "running" /\ barrier' \in FanInBarriers /\ onFailure' \in Policies
        /\ \E r \in 0 .. MaxRetries : retriesRemaining' = [n \in Node |-> r]
        /\ status' = [n \in Node |-> IF deps[n] = {} THEN "ready" ELSE "pending"]
    BY <1>2 DEF Create
  <2>2. \A n \in Node : /\ deps[n] = {} => status'[n] = "ready"
                        /\ deps[n] # {} => status'[n] = "pending"
    BY <2>1
  <2>3. TypeOK'
    <3>1. status' \in [Node -> NodeStatus]
      BY <2>1 DEF NodeStatus, Active
    <3> QED
      BY <1>1, <2>1, <3>1 DEF TypeOK, FanInBarriers
  <2>4. Fit(status)'
    BY <1>1, <2>2 DEF Fit, FanIn, Begun
  <2>5. AllHopeless(status)'
    BY <2>2 DEF AllHopeless
  <2>6. \A d \in Node : status'[d] \in {"ready", "pending"}
    BY <2>2
  <2>7. Clean(status)'
    BY <1>1, <2>6 DEF Clean, HasLost, Lost, TypeOK
  <2>8. Flowing(status)'
    BY <1>1, <2>2, <2>6 DEF Flowing, Active, TypeOK
  <2> QED
    BY <2>1, <2>3, <2>4, <2>5, <2>7, <2>8 DEF IndInv
<1>3. CASE ~Accepted(deps)
  <2>1. phase' = "rejected" /\ UNCHANGED <<barrier, onFailure, status, retriesRemaining>>
    BY <1>3 DEF Create
  <2>2. \A n \in Node : status'[n] = "pending"
    BY <1>1, <2>1 DEF IndInv
  <2>3. TypeOK'
    BY <1>1, <2>1 DEF TypeOK
  <2> QED
    BY <2>1, <2>2, <2>3 DEF IndInv, AllHopeless
<1> QED
  BY <1>2, <1>3

\* A change of nodes that have not ended, none of which starts to wait.
LEMMA OpenChange ==
  ASSUME IndInv, phase = "running", phase' = "running", UNCHANGED <<config, cancelled>>, TypeOK',
         \A d \in Node : \/ status'[d] = status[d]
                         \/ status[d] \in {"ready", "running"} /\ status'[d] \in {"ready", "running"}
  PROVE  IndInv'
<1>1. Shaped /\ status \in Statuses /\ status' \in Statuses
  BY TypeShaped DEF IndInv, TypeOK, Statuses
<1>2. KeepsEnded(status, status') /\ KeepsLost(status, status')
  BY DEF KeepsEnded, KeepsLost, Terminal, Lost
<1>3. Fit(status')
  <2>1. \A n \in FanIn : status'[n] \in Begun => status[n] \in Begun
    BY DEF FanIn, Begun
  <2> QED
    BY <1>1, <1>2, <2>1, FitKept DEF IndInv
<1>4. ~cancelled' => AllHopeless(status')
  <2>1. \A n \in Node : status'[n] = "skipped" => status[n] = "skipped"
    OBVIOUS
  <2> QED
    BY <1>1, <1>2, <2>1, HopelessStay DEF IndInv
<1>5. ASSUME Modest PROVE Clean(status') /\ Flowing(status')
  <2>1. Clean(status) /\ Flowing(status)
    BY <1>5 DEF IndInv
  <2>2. \A d \in Node : /\ status'[d] = "pending" => status[d] = "pending"
                        /\ status'[d] \in Lost => status[d] \in Lost
                        /\ status[d] \in Active => status'[d] \in Active
    BY DEF Lost, Active
  <2> QED
    BY <1>1, <2>1, <2>2 DEF Clean, Flowing, HasLost, Shaped
<1> QED
  BY <1>3, <1>4, <1>5, Concluded DEF config

\* markNodeRunning starts a ready node.
LEMMA RunningInd == ASSUME IndInv, NEW n \in Node, MarkNodeRunning(n) PROVE IndInv'
<1>1. /\ phase = "running" /\ phase' = "running" /\ status[n] = "ready"
      /\ status' = [status EXCEPT ![n] = "running"]
      /\ UNCHANGED <<config, phase, retriesRemaining, cancelled, restarts>>
  BY DEF MarkNodeRunning
<1>2. TypeOK /\ status \in [Node -> NodeStatus]
  BY DEF IndInv, TypeOK
<1>3. status' \in [Node -> NodeStatus]
  BY <1>1, <1>2 DEF NodeStatus, Active
<1>4. TypeOK'
  BY <1>1, <1>2, <1>3 DEF TypeOK, config
<1>5. \A d \in Node : \/ status'[d] = status[d]
                      \/ status[d] \in {"ready", "running"} /\ status'[d] \in {"ready", "running"}
  BY <1>1, <1>2
<1> QED
  BY <1>1, <1>4, <1>5, OpenChange

\* A restart puts what ran back to ready.
LEMMA RestoreInd == ASSUME IndInv, Restore PROVE IndInv'
<1>1. /\ phase = "running" /\ phase' = "running" /\ restarts < MaxRestarts /\ restarts' = restarts + 1
      /\ status' = [n \in Node |-> IF status[n] = "running" THEN "ready" ELSE status[n]]
      /\ UNCHANGED <<config, phase, retriesRemaining, cancelled>>
  BY DEF Restore
<1>2. TypeOK /\ status \in [Node -> NodeStatus]
  BY DEF IndInv, TypeOK
<1>3. status' \in [Node -> NodeStatus]
  BY <1>1, <1>2 DEF NodeStatus, Active
<1>4. restarts' \in 0 .. MaxRestarts
  BY <1>1, <1>2, RetriesAssumption DEF TypeOK
<1>5. TypeOK'
  BY <1>1, <1>2, <1>3, <1>4 DEF TypeOK, config
<1>6. \A d \in Node : \/ status'[d] = status[d]
                      \/ status[d] \in {"ready", "running"} /\ status'[d] \in {"ready", "running"}
  BY <1>1, <1>2
<1> QED
  BY <1>1, <1>5, <1>6, OpenChange

\* A running node ends: its own barrier was met and nobody else changes.
LEMMA EndOfRun ==
  ASSUME Shaped, NEW st \in Statuses, NEW n \in Node, st[n] = "running", Fit(st),
         NEW e \in {"completed", "failed"}, NEW tt, tt = [st EXCEPT ![n] = e]
  PROVE  /\ tt \in Statuses /\ Fit(tt) /\ tt[n] = e
         /\ AllHopeless(st) => AllHopeless(tt)
         /\ \A m \in Node \ {n} : tt[m] = st[m]
<1>1. tt[n] = e /\ \A m \in Node \ {n} : tt[m] = st[m]
  BY DEF Statuses
<1>2. tt \in Statuses
  BY DEF Statuses, NodeStatus, Terminal
<1>3. KeepsEnded(st, tt) /\ KeepsLost(st, tt)
  BY <1>1 DEF KeepsEnded, KeepsLost, Terminal, Lost
<1>4. \A m \in FanIn : tt[m] \in Begun => st[m] \in Begun
  BY <1>1 DEF FanIn, Begun
<1>5. \A m \in Node : tt[m] = "skipped" => st[m] = "skipped"
  BY <1>1
<1> QED
  BY <1>1, <1>2, <1>3, <1>4, <1>5, FitKept, HopelessStay

\* markNodeCompleted: a waiting node that is not made ready still waits for
\* another one, for all its dependencies would have completed otherwise.
LEMMA CompletedInd == ASSUME IndInv, NEW n \in Node, MarkNodeCompleted(n) PROVE IndInv'
<1> DEFINE st == [status EXCEPT ![n] = "completed"]
           tt == EvaluateBarriers(st, n)
<1>1. /\ phase = "running" /\ phase' = "running" /\ status[n] = "running" /\ status' = tt
      /\ UNCHANGED <<config, phase, retriesRemaining, cancelled, restarts>>
  BY DEF MarkNodeCompleted
<1>2. TypeOK /\ Shaped /\ status \in Statuses /\ Fit(status) /\ (~cancelled => AllHopeless(status))
  BY <1>1, TypeShaped DEF IndInv
<1>3. /\ st \in Statuses /\ Fit(st) /\ st[n] = "completed"
      /\ AllHopeless(status) => AllHopeless(st)
      /\ \A m \in Node \ {n} : st[m] = status[m]
  BY <1>1, <1>2, EndOfRun
<1> HIDE DEF st
<1>4. /\ tt \in Statuses /\ Fit(tt) /\ (AllHopeless(st) => AllHopeless(tt))
      /\ \A m \in Node : tt[m] = "pending" =>
            st[m] = "pending" /\ (n \in deps[m] => ~IsBarrierSatisfied(st, m))
      /\ \A m \in Node : tt[m] = st[m] \/ (st[m] = "pending" /\ tt[m] = "ready")
  BY <1>2, <1>3, EvaluateIs
<1> HIDE DEF tt
<1>5. ASSUME Modest PROVE Clean(tt) /\ Flowing(tt)
  <2>1. Clean(status) /\ Flowing(status)
    BY <1>1, <1>5 DEF IndInv
  <2>2. \A d \in Node : tt[d] \in Lost => status[d] \in Lost
    BY <1>1, <1>3, <1>4 DEF Lost
  <2>3. \A d \in Node : tt[d] = "pending" => status[d] = "pending" /\ d # n
    BY <1>1, <1>3, <1>4
  <2>4. Clean(tt)
    BY <1>2, <2>1, <2>2, <2>3 DEF Clean, HasLost, Shaped
  <2>5. ASSUME NEW m \in Node, tt[m] = "pending", \A d \in deps[m] : tt[d] \notin Active
        PROVE  FALSE
    <3>1. deps[m] \in SUBSET Node
      BY <1>2 DEF Shaped
    <3>2. \A d \in deps[m] : tt[d] = "completed"
      BY <1>4, <2>4, <2>5, <3>1 DEF Clean, HasLost, Lost, Statuses, NodeStatus, Active, Terminal
    <3>3. \A d \in deps[m] : st[d] = "completed"
      BY <1>4, <3>1, <3>2
    <3>4. IsBarrierSatisfied(st, m)
      BY <1>2, <3>3, AllCompleted
    <3>5. n \notin deps[m]
      BY <1>4, <2>5, <3>4
    <3>6. PICK d \in deps[m] : status[d] \in Active
      BY <2>1, <2>3, <2>5 DEF Flowing
    <3>7. st[d] = status[d]
      BY <1>3, <3>1, <3>5, <3>6
    <3> QED
      BY <3>3, <3>6, <3>7 DEF Active
  <2> QED
    BY <2>4, <2>5 DEF Flowing
<1>6. TypeOK'
  BY <1>1, <1>2, <1>4 DEF TypeOK, config, Statuses
<1> QED
  BY <1>1, <1>2, <1>3, <1>4, <1>5, <1>6, Concluded DEF config

\* markNodeFailed: without retries left the node fails, and the cascade skips
\* the nodes that waited for it.
LEMMA FailedInd ==
  ASSUME IndInv, NEW n \in Node, NEW terminal \in BOOLEAN, MarkNodeFailed(n, terminal)
  PROVE  IndInv'
<1>1. /\ phase = "running" /\ phase' = "running" /\ status[n] = "running"
      /\ UNCHANGED <<config, phase, cancelled, restarts>>
  BY DEF MarkNodeFailed
<1>2. /\ TypeOK /\ Shaped /\ status \in Statuses /\ Fit(status) /\ (~cancelled => AllHopeless(status))
      /\ onFailure \in Policies
  BY <1>1, TypeShaped DEF IndInv
<1>3. CASE retriesRemaining[n] > 0 /\ ~terminal
  <2>1. /\ status' = [status EXCEPT ![n] = "ready"]
        /\ retriesRemaining' = [retriesRemaining EXCEPT ![n] = @ - 1]
    BY <1>3 DEF MarkNodeFailed
  <2>2. status' \in [Node -> NodeStatus]
    BY <1>2, <2>1 DEF Statuses, NodeStatus, Active
  <2>3. retriesRemaining' \in [Node -> 0 .. MaxRetries]
    BY <1>2, <1>3, <2>1, RetriesAssumption DEF TypeOK
  <2>4. TypeOK'
    BY <1>1, <1>2, <2>2, <2>3 DEF TypeOK, config
  <2>5. \A d \in Node : \/ status'[d] = status[d]
                        \/ status[d] \in {"ready", "running"} /\ status'[d] \in {"ready", "running"}
    BY <1>1, <1>2, <2>1 DEF Statuses
  <2> QED
    BY <1>1, <2>4, <2>5, OpenChange
<1>4. CASE ~(retriesRemaining[n] > 0 /\ ~terminal)
  <2> DEFINE st == [status EXCEPT ![n] = "failed"]
             ct == CascadeFailure(st, n)
             tt == EvaluateBarriers(ct, n)
  <2>1. status' = tt /\ UNCHANGED retriesRemaining
    BY <1>4 DEF MarkNodeFailed
  <2>2. /\ st \in Statuses /\ Fit(st) /\ st[n] = "failed"
        /\ AllHopeless(status) => AllHopeless(st)
        /\ \A m \in Node \ {n} : st[m] = status[m]
    BY <1>1, <1>2, EndOfRun
  <2> HIDE DEF st
  <2>3. /\ ct \in Statuses /\ Moved(st, ct) /\ Fit(ct) /\ (AllHopeless(st) => AllHopeless(ct))
        /\ Modest /\ CleanBut(st, n) => Clean(ct)
    BY <1>2, <2>2, CascadeIs
  <2> HIDE DEF ct
  <2>4. /\ tt \in Statuses /\ Fit(tt) /\ (AllHopeless(ct) => AllHopeless(tt))
        /\ \A m \in Node : tt[m] = ct[m] \/ (ct[m] = "pending" /\ tt[m] = "ready")
    BY <1>2, <2>3, EvaluateIs
  <2> HIDE DEF tt
  <2>5. ASSUME Modest PROVE Clean(tt) /\ Flowing(tt)
    <3>1. Clean(status) /\ Flowing(status) /\ deps \in [Node -> SUBSET Node]
      BY <1>1, <1>2, <2>5 DEF IndInv, Shaped
    <3>2. CleanBut(st, n)
      BY <1>1, <2>2, <3>1 DEF Clean, CleanBut, HasLost
    <3>3. Clean(ct)
      BY <2>3, <2>5, <3>2
    <3>4. Clean(tt)
      BY <2>4, <3>1, <3>3 DEF Clean, HasLost, Lost
    <3>5. \A d \in Node : status[d] \in Active => tt[d] \in Active \cup Lost
      BY <1>1, <2>2, <2>3, <2>4 DEF Moved, Active, Lost
    <3>6. \A m \in Node : tt[m] = "pending" => status[m] = "pending"
      BY <1>1, <2>2, <2>3, <2>4 DEF Moved
    <3>7. Flowing(tt)
      BY <3>1, <3>4, <3>5, <3>6 DEF Flowing, Clean, HasLost
    <3> QED
      BY <3>4, <3>7
  <2>6. TypeOK'
    BY <1>1, <1>2, <2>1, <2>4 DEF TypeOK, config, Statuses
  <2> QED
    BY <1>1, <1>2, <2>1, <2>2, <2>3, <2>4, <2>5, <2>6, Concluded DEF config
<1> QED
  BY <1>3, <1>4

\* cancel leaves no node waiting.
LEMMA CancelInd == ASSUME IndInv, Cancel PROVE IndInv'
<1>1. /\ phase = "running" /\ phase' = "running" /\ cancelled' = TRUE
      /\ status' = [n \in Node |-> IF status[n] \in {"pending", "ready"} THEN "skipped" ELSE status[n]]
      /\ UNCHANGED <<config, phase, retriesRemaining, restarts>>
  BY DEF Cancel
<1>2. TypeOK /\ Shaped /\ status \in Statuses /\ Fit(status)
  BY <1>1, TypeShaped DEF IndInv
<1>3. \A n \in Node : /\ status[n] \in {"pending", "ready"} => status'[n] = "skipped"
                      /\ status[n] \notin {"pending", "ready"} => status'[n] = status[n]
  BY <1>1
<1>4. status' \in Statuses
  <2>1. \A n \in Node : (IF status[n] \in {"pending", "ready"} THEN "skipped" ELSE status[n]) \in NodeStatus
    BY <1>2 DEF Statuses, NodeStatus, Terminal
  <2> QED
    BY <1>1, <2>1 DEF Statuses
<1>5. TypeOK'
  BY <1>1, <1>2, <1>4 DEF TypeOK, config, Statuses
<1>6. Fit(status')
  <2>1. KeepsEnded(status, status')
    BY <1>3 DEF KeepsEnded, Terminal
  <2>2. \A n \in FanIn : status'[n] \in Begun => status[n] \in Begun
    BY <1>3 DEF FanIn, Begun
  <2> QED
    BY <1>2, <2>1, <2>2, FitKept
<1>7. \A n \in Node : status'[n] # "pending"
  BY <1>3
<1>8. Clean(status') /\ Flowing(status')
  BY <1>7 DEF Clean, Flowing
<1> QED
  BY <1>1, <1>5, <1>6, <1>8, Concluded

-----------------------------------------------------------------------------
(* The theorems.                                                           *)

\* IndInv is an invariant: every method of the state machine keeps it.
THEOREM Invariance == Spec => []IndInv
<1>1. Init => IndInv
  BY InitInd
<1>2. IndInv /\ [Next]_vars => IndInv'
  <2>1. ASSUME IndInv, UNCHANGED vars PROVE IndInv'
    BY <2>1 DEF vars, config, IndInv, TypeOK, Fit, FanIn, Begun, Meets, Suffice, CountDeps,
                AllHopeless, Hopeless, LostDeps, Modest, Clean, HasLost, Flowing
  <2>2. ASSUME IndInv, Next PROVE IndInv'
    BY <2>2, CreateInd, RunningInd, CompletedInd, FailedInd, CancelInd, RestoreInd DEF Next
  <2> QED
    BY <2>1, <2>2
<1> QED
  BY <1>1, <1>2, PTL DEF Spec

\* The state machine keeps its types: no retry counter goes below zero and no
\* node leaves the six states.
THEOREM TypesHold == Spec => []TypeOK
<1>1. IndInv => TypeOK
  BY DEF IndInv
<1> QED
  BY <1>1, Invariance, PTL

\* Whatever failed, was cancelled or was restored, isBarrierSatisfied and the
\* cascade start a node only when all its dependencies have ended and enough of
\* them have completed, and that remains so.
THEOREM BarriersHeld == Spec => []StartedMeetsBarrier
<1>1. IndInv => StartedMeetsBarrier
  <2> SUFFICES ASSUME IndInv, phase = "running", NEW n \in Node, status[n] \in Begun, deps[n] # {}
               PROVE  Meets(status, n)
    BY DEF StartedMeetsBarrier, Meets, Begun
  <2> QED
    BY DEF IndInv, Fit, FanIn
<1> QED
  BY <1>1, Invariance, PTL

\* cascadeFailure skips no node that could still run: under "fail-fast" it has a
\* lost dependency, under "continue" its barrier is out of reach.
THEOREM SkipsHopeless == Spec => []SkippedIsHopeless
<1>1. IndInv => SkippedIsHopeless
  BY DEF IndInv, AllHopeless, Hopeless, LostDeps, Lost, SkippedIsHopeless
<1> QED
  BY <1>1, Invariance, PTL

\* Under "fail-fast", and under "continue" with barriers "all", the cascade
\* leaves no node waiting for dependencies that have all ended; so the stall of
\* the partial barrier modes is the only one.
THEOREM StallsConfined == Spec => []StallsOnlyInModes
<1>1. IndInv => StallsOnlyInModes
  <2> SUFFICES ASSUME IndInv, ~(onFailure = "continue" /\ \E n \in Node : barrier[n] # "all")
               PROVE  NoStalledNode
    BY DEF StallsOnlyInModes
  <2>1. onFailure \in {"fail-fast", "continue"}
    BY PoliciesAssumption DEF IndInv, TypeOK
  <2>2. Modest
    BY <2>1 DEF Modest
  <2> QED
    BY <2>2 DEF IndInv, Flowing, NoStalledNode
<1> QED
  BY <1>1, Invariance, PTL

-----------------------------------------------------------------------------
(* The validation of a graph.  D stands for any dependencies.              *)

Dependencies == [Node -> SUBSET Node]

\* What two lists have together, and a list without its head.
LEMMA ListConcat ==
  ASSUME NEW s \in Seq(Node), NEW t \in Seq(Node)
  PROVE  /\ s \o t \in Seq(Node)
         /\ \A m : Listed(s \o t, m) <=> Listed(s, m) \/ Listed(t, m)
         /\ NoRepeat(s) /\ NoRepeat(t) /\ (\A m : ~(Listed(s, m) /\ Listed(t, m))) => NoRepeat(s \o t)
<1> DEFINE r == s \o t
           a == Len(s)
           b == Len(t)
<1>1. /\ r \in Seq(Node) /\ a \in Nat /\ b \in Nat /\ Len(r) = a + b
      /\ \A i \in 1 .. a + b : r[i] = IF i <= a THEN s[i] ELSE t[i - a]
  OBVIOUS
<1> HIDE DEF r, a, b
<1>2. \A i \in 1 .. Len(r) : \/ i \in 1 .. a /\ r[i] = s[i]
                             \/ i - a \in 1 .. b /\ r[i] = t[i - a]
  BY <1>1
<1>3. \A i \in 1 .. a : i \in 1 .. Len(r) /\ r[i] = s[i]
  BY <1>1
<1>4. \A i \in 1 .. b : i + a \in 1 .. Len(r) /\ r[i + a] = t[i]
  <2> SUFFICES ASSUME NEW i \in 1 .. b PROVE i + a \in 1 .. Len(r) /\ r[i + a] = t[i]
    OBVIOUS
  <2>1. i + a \in 1 .. a + b /\ ~(i + a <= a) /\ (i + a) - a = i
    BY <1>1
  <2> QED
    BY <1>1, <2>1
<1>5. \A m : Listed(r, m) <=> Listed(s, m) \/ Listed(t, m)
  <2>1. ASSUME NEW m, Listed(r, m) PROVE Listed(s, m) \/ Listed(t, m)
    BY <1>2, <2>1 DEF Listed, a, b
  <2>2. ASSUME NEW m, Listed(s, m) PROVE Listed(r, m)
    BY <1>3, <2>2 DEF Listed, a
  <2>3. ASSUME NEW m, Listed(t, m) PROVE Listed(r, m)
    BY <1>4, <2>3 DEF Listed, b
  <2> QED
    BY <2>1, <2>2, <2>3
<1>6. ASSUME NoRepeat(s), NoRepeat(t), \A m : ~(Listed(s, m) /\ Listed(t, m)) PROVE NoRepeat(r)
  <2> SUFFICES ASSUME NEW i \in 1 .. Len(r), NEW j \in 1 .. Len(r), r[i] = r[j] PROVE i = j
    BY DEF NoRepeat
  <2>1. \A x \in 1 .. a, y \in 1 .. b : s[x] # t[y]
    BY <1>6 DEF Listed, a, b
  <2>2. CASE i \in 1 .. a /\ r[i] = s[i] /\ j \in 1 .. a /\ r[j] = s[j]
    BY <1>6, <2>2 DEF NoRepeat, a
  <2>3. CASE i - a \in 1 .. b /\ r[i] = t[i - a] /\ j - a \in 1 .. b /\ r[j] = t[j - a]
    <3>1. i - a = j - a
      BY <1>6, <2>3 DEF NoRepeat, b
    <3> QED
      BY <1>1, <3>1
  <2> QED
    BY <1>2, <2>1, <2>2, <2>3
<1> QED
  BY <1>1, <1>5, <1>6 DEF r

LEMMA ListTail ==
  ASSUME NEW s \in Seq(Node), s # <<>>, NoRepeat(s)
  PROVE  /\ Tail(s) \in Seq(Node) /\ NoRepeat(Tail(s)) /\ Head(s) \in Node /\ Listed(s, Head(s))
         /\ \A m : Listed(Tail(s), m) <=> Listed(s, m) /\ m # Head(s)
<1> DEFINE t == Tail(s)
           a == Len(s)
<1>1. /\ t \in Seq(Node) /\ a \in Nat /\ a # 0 /\ Len(t) = a - 1 /\ Head(s) = s[1] /\ Head(s) \in Node
      /\ \A i \in 1 .. a - 1 : t[i] = s[i + 1]
  OBVIOUS
<1> HIDE DEF t, a
<1>2. Listed(s, Head(s))
  BY <1>1 DEF Listed, a
<1>3. \A i \in 1 .. Len(t) : i + 1 \in 1 .. a /\ t[i] = s[i + 1] /\ i + 1 # 1
  BY <1>1
<1>4. \A i \in 1 .. a : i # 1 => i - 1 \in 1 .. Len(t) /\ t[i - 1] = s[i]
  <2> SUFFICES ASSUME NEW i \in 1 .. a, i # 1 PROVE i - 1 \in 1 .. Len(t) /\ t[i - 1] = s[i]
    OBVIOUS
  <2>1. i - 1 \in 1 .. a - 1 /\ (i - 1) + 1 = i
    BY <1>1
  <2> QED
    BY <1>1, <2>1
<1>5. NoRepeat(t)
  <2> SUFFICES ASSUME NEW i \in 1 .. Len(t), NEW j \in 1 .. Len(t), t[i] = t[j] PROVE i = j
    BY DEF NoRepeat
  <2>1. i + 1 = j + 1
    BY <1>3 DEF NoRepeat, a
  <2> QED
    BY <1>1, <2>1
<1>6. \A i \in 1 .. a : s[i] = s[1] => i = 1
  BY <1>1 DEF NoRepeat, a
<1>7. ASSUME NEW m, Listed(t, m) PROVE Listed(s, m) /\ m # Head(s)
  BY <1>1, <1>3, <1>6, <1>7 DEF Listed, a
<1>8. ASSUME NEW m, Listed(s, m), m # Head(s) PROVE Listed(t, m)
  BY <1>1, <1>4, <1>8 DEF Listed, a
<1> QED
  BY <1>1, <1>2, <1>5, <1>7, <1>8 DEF t

LEMMA ListAppend ==
  ASSUME NEW s \in Seq(Node), NEW n \in Node
  PROVE  /\ Append(s, n) \in Seq(Node) /\ Len(Append(s, n)) = Len(s) + 1
         /\ Append(s, n)[Len(s) + 1] = n /\ \A i \in 1 .. Len(s) : Append(s, n)[i] = s[i]
         /\ \A m : Listed(Append(s, n), m) <=> Listed(s, m) \/ m = n
         /\ NoRepeat(s) /\ ~Listed(s, n) => NoRepeat(Append(s, n))
<1> DEFINE t == Append(s, n)
           a == Len(s)
<1>1. /\ t \in Seq(Node) /\ a \in Nat /\ Len(t) = a + 1 /\ t[a + 1] = n
      /\ \A i \in 1 .. a : t[i] = s[i]
  OBVIOUS
<1> HIDE DEF t, a
<1>2. \A i \in 1 .. Len(t) : i \in 1 .. a \/ i = a + 1
  BY <1>1
<1>3. \A i \in 1 .. a + 1 : i \in 1 .. Len(t)
  BY <1>1
<1>4. a + 1 \in 1 .. Len(t) /\ \A i \in 1 .. a : i \in 1 .. Len(t)
  BY <1>1
<1>5. \A m : Listed(t, m) <=> Listed(s, m) \/ m = n
  <2>1. ASSUME NEW m, Listed(t, m) PROVE Listed(s, m) \/ m = n
    BY <1>1, <1>2, <2>1 DEF Listed, a
  <2>2. ASSUME NEW m, Listed(s, m) \/ m = n PROVE Listed(t, m)
    BY <1>1, <1>4, <2>2 DEF Listed, a
  <2> QED
    BY <2>1, <2>2
<1>6. ASSUME NoRepeat(s), ~Listed(s, n) PROVE NoRepeat(t)
  <2>1. \A i \in 1 .. a : t[i] # n
    BY <1>1, <1>6 DEF Listed, a
  <2> QED
    BY <1>1, <1>2, <1>6, <2>1 DEF NoRepeat, a
<1> QED
  BY <1>1, <1>5, <1>6 DEF t, a

SortState == [queue : Seq(Node), sorted : Seq(Node), inDegree : [Node -> Int]]

SortBegin(D) ==
    [queue    |-> InNodeOrder({n \in Node : D[n] = {}}),
     sorted   |-> <<>>,
     inDegree |-> [n \in Node |-> Cardinality(D[n])]]

\* The nodes sorted so far.
Sorted(k) == {m \in Node : Listed(k.sorted, m)}

\* Every node of the list comes after the nodes it depends on.
Ordered(D, s) ==
    \A j \in 1 .. Len(s) : \A d \in D[s[j]] : \E l \in 1 .. Len(s) : l < j /\ s[l] = d

\* What holds between two rounds of the sort: the nodes whose dependencies are
\* all sorted are those sorted or queued, each of them once; the degrees count
\* the dependencies that are missing.
Sorting(D, k) ==
    /\ k \in SortState
    /\ NoRepeat(k.queue) /\ NoRepeat(k.sorted)
    /\ \A m : ~(Listed(k.queue, m) /\ Listed(k.sorted, m))
    /\ \A m \in Node : k.inDegree[m] = Cardinality(D[m] \ Sorted(k))
    /\ \A m \in Node : Listed(k.queue, m) \/ Listed(k.sorted, m) <=> D[m] \subseteq Sorted(k)
    /\ Ordered(D, k.sorted)

\* InNodeOrder lists exactly the nodes of S.
LEMMA NodeList ==
  ASSUME NEW S \in SUBSET Node
  PROVE  /\ InNodeOrder(S) \in Seq(Node) /\ NoRepeat(InNodeOrder(S))
         /\ \A m : Listed(InNodeOrder(S), m) <=> m \in S
<1> DEFINE o == InNodeOrder(S)
<1>1. o \in Seq(S) /\ NoRepeat(o) /\ \A m \in S : Listed(o, m)
  BY InNodeOrderIs
<1> HIDE DEF o
<1>2. \A i \in 1 .. Len(o) : o[i] \in S
  BY <1>1
<1>3. o \in Seq(Node)
  BY <1>1
<1>4. \A m : Listed(o, m) => m \in S
  BY <1>2 DEF Listed
<1> QED
  BY <1>1, <1>3, <1>4 DEF o

\* Dependencies are finite in number.
LEMMA MissingFinite ==
  ASSUME NEW D \in Dependencies, NEW m \in Node, NEW S
  PROVE  /\ IsFiniteSet(D[m] \ S) /\ Cardinality(D[m] \ S) \in Nat
         /\ Cardinality(D[m] \ S) = 0 <=> D[m] \subseteq S
<1>1. IsFiniteSet(Node)
  BY NAssumption, FS_Interval DEF Node
<1>2. D[m] \ S \in SUBSET Node
  BY DEF Dependencies
<1>3. IsFiniteSet(D[m] \ S)
  BY <1>1, <1>2, FS_Subset
<1>4. Cardinality(D[m] \ S) = 0 <=> D[m] \ S = {}
  BY <1>3, FS_EmptySet
<1>5. Cardinality(D[m] \ S) \in Nat
  BY <1>3, FS_CardinalityType
<1>6. D[m] \ S = {} <=> D[m] \subseteq S
  OBVIOUS
<1> QED
  BY <1>3, <1>4, <1>5, <1>6

\* It holds in the beginning.
LEMMA SortBegins ==
  ASSUME NEW D \in Dependencies
  PROVE  Sorting(D, SortBegin(D)) /\ SortBegin(D).sorted = <<>>
<1> DEFINE S == {n \in Node : D[n] = {}}
           q == InNodeOrder(S)
           g == [n \in Node |-> Cardinality(D[n])]
           k == SortBegin(D)
<1>1. q \in Seq(Node) /\ NoRepeat(q) /\ \A m : Listed(q, m) <=> m \in S
  BY NodeList
<1>4. k.queue = q /\ k.sorted = <<>> /\ k.inDegree = g
  BY DEF SortBegin
<1>5. g \in [Node -> Int]
  <2>1. \A m \in Node : Cardinality(D[m] \ {}) \in Nat /\ D[m] \ {} = D[m]
    BY MissingFinite
  <2> QED
    BY <2>1
<1>6. k \in SortState
  BY <1>1, <1>5 DEF SortBegin, SortState
<1> HIDE DEF q, g, k
<1>7. \A m : ~Listed(<<>>, m)
  BY DEF Listed
<1>8. Sorted(k) = {}
  BY <1>4, <1>7 DEF Sorted
<1>9. NoRepeat(<<>>) /\ Ordered(D, <<>>)
  BY DEF NoRepeat, Ordered
<1>10. \A m \in Node : k.inDegree[m] = Cardinality(D[m] \ Sorted(k))
  <2>1. \A m \in Node : D[m] \ {} = D[m]
    OBVIOUS
  <2> QED
    BY <1>4, <1>8, <2>1 DEF g
<1>11. \A m \in Node : Listed(k.queue, m) \/ Listed(k.sorted, m) <=> D[m] \subseteq Sorted(k)
  BY <1>1, <1>4, <1>7, <1>8
<1>12. NoRepeat(k.queue) /\ NoRepeat(k.sorted) /\ Ordered(D, k.sorted)
  BY <1>1, <1>4, <1>9
<1>13. \A m : ~(Listed(k.queue, m) /\ Listed(k.sorted, m))
  BY <1>4, <1>7
<1> QED
  BY <1>4, <1>6, <1>10, <1>11, <1>12, <1>13 DEF Sorting, k

\* A round keeps it, and sorts a node if one is queued.
LEMMA SortRoundIs ==
  ASSUME NEW D \in Dependencies, NEW k, Sorting(D, k), k.queue # <<>>
  PROVE  Sorting(D, SortRound(D, k)) /\ Len(SortRound(D, k).sorted) = Len(k.sorted) + 1
<1> DEFINE r == SortRound(D, k)
           q == k.queue
           s == k.sorted
           n == Head(q)
           g == [m \in Node |-> IF n \in D[m] THEN k.inDegree[m] - 1 ELSE k.inDegree[m]]
           S == {m \in Dependents(D, n) : g[m] = 0}
           o == InNodeOrder(S)
           A == Sorted(k)
           B == Sorted(r)
<1>1. /\ q \in Seq(Node) /\ s \in Seq(Node) /\ k.inDegree \in [Node -> Int] /\ q # <<>>
      /\ NoRepeat(q) /\ NoRepeat(s) /\ Ordered(D, s)
  BY DEF Sorting, SortState
<1>2. /\ \A m : ~(Listed(q, m) /\ Listed(s, m))
      /\ \A m \in Node : k.inDegree[m] = Cardinality(D[m] \ A)
      /\ \A m \in Node : Listed(q, m) \/ Listed(s, m) <=> D[m] \subseteq A
  BY DEF Sorting
<1>3. /\ Tail(q) \in Seq(Node) /\ NoRepeat(Tail(q)) /\ n \in Node /\ Listed(q, n)
      /\ \A m : Listed(Tail(q), m) <=> Listed(q, m) /\ m # n
  BY <1>1, ListTail
<1>4. g \in [Node -> Int]
  BY <1>1
<1>5. S \in SUBSET Node
  BY DEF Dependents
<1>6. r = [queue |-> Tail(q) \o o, sorted |-> Append(s, n), inDegree |-> g]
  BY DEF SortRound
<1>8. o \in Seq(Node) /\ NoRepeat(o) /\ \A m : Listed(o, m) <=> m \in S
  <2> HIDE DEF S
  <2> QED
    BY <1>5, NodeList
<1>9. \A m \in Node : m \in S <=> n \in D[m] /\ g[m] = 0
  BY DEF Dependents
<1> HIDE DEF o, S
<1>10. r.queue = Tail(q) \o o /\ r.sorted = Append(s, n) /\ r.inDegree = g
  BY <1>6
<1> HIDE DEF r, n, q, s
<1>11. /\ r.sorted \in Seq(Node) /\ Len(r.sorted) = Len(s) + 1 /\ r.sorted[Len(s) + 1] = n
       /\ \A i \in 1 .. Len(s) : r.sorted[i] = s[i]
       /\ \A m : Listed(r.sorted, m) <=> Listed(s, m) \/ m = n
       /\ ~Listed(s, n) => NoRepeat(r.sorted)
  BY <1>1, <1>3, <1>10, ListAppend
<1>12. B = A \cup {n}
  BY <1>3, <1>11 DEF Sorted, s
<1>13. n \notin A /\ ~Listed(s, n)
  BY <1>2, <1>3 DEF Sorted, s
<1> HIDE DEF A, B
<1>14. \A m \in Node : g[m] = Cardinality(D[m] \ B)
  <2> SUFFICES ASSUME NEW m \in Node PROVE g[m] = Cardinality(D[m] \ B)
    OBVIOUS
  <2>1. k.inDegree[m] = Cardinality(D[m] \ A) /\ IsFiniteSet(D[m] \ A)
    BY <1>2, MissingFinite
  <2>2. D[m] \ B = (D[m] \ A) \ {n}
    BY <1>12
  <2>3. Cardinality((D[m] \ A) \ {n}) =
          IF n \in D[m] \ A THEN Cardinality(D[m] \ A) - 1 ELSE Cardinality(D[m] \ A)
    BY <2>1, FS_RemoveElement
  <2>4. n \in D[m] \ A <=> n \in D[m]
    BY <1>13
  <2> QED
    BY <2>1, <2>2, <2>3, <2>4
<1>15. \A m \in Node : g[m] = 0 <=> D[m] \subseteq B
  BY <1>14, MissingFinite
<1> HIDE DEF g
<1>16. \A m \in Node : m \in S <=> n \in D[m] /\ D[m] \subseteq B
  BY <1>9, <1>15
<1>17. \A m : m \in S => m \in Node /\ ~Listed(q, m) /\ ~Listed(s, m)
  <2> SUFFICES ASSUME NEW m \in S PROVE m \in Node /\ ~Listed(q, m) /\ ~Listed(s, m)
    OBVIOUS
  <2>1. m \in Node
    BY <1>5
  <2>2. ~(D[m] \subseteq A)
    BY <1>13, <1>16, <2>1
  <2> QED
    BY <1>2, <2>1, <2>2
<1>18. /\ r.queue \in Seq(Node) /\ NoRepeat(r.queue)
       /\ \A m : Listed(r.queue, m) <=> (Listed(q, m) /\ m # n) \/ m \in S
  <2>1. \A m : ~(Listed(Tail(q), m) /\ Listed(o, m))
    BY <1>3, <1>8, <1>17
  <2>2. /\ r.queue \in Seq(Node) /\ NoRepeat(r.queue)
        /\ \A m : Listed(r.queue, m) <=> Listed(Tail(q), m) \/ Listed(o, m)
    <3> DEFINE u == Tail(q)
    <3>1. /\ u \in Seq(Node) /\ o \in Seq(Node) /\ NoRepeat(u) /\ NoRepeat(o)
          /\ \A m : ~(Listed(u, m) /\ Listed(o, m))
      BY <1>3, <1>8, <2>1
    <3> HIDE DEF u
    <3>2. /\ u \o o \in Seq(Node) /\ NoRepeat(u \o o)
          /\ \A m : Listed(u \o o, m) <=> Listed(u, m) \/ Listed(o, m)
      BY <3>1, ListConcat
    <3> QED
      BY <1>10, <3>2 DEF u
  <2> QED
    BY <1>3, <1>8, <2>2
<1>19. r \in SortState
  <2>1. r = [queue |-> r.queue, sorted |-> r.sorted, inDegree |-> g]
    BY <1>6, <1>10
  <2> QED
    BY <1>4, <1>11, <1>18, <2>1 DEF SortState
<1>20. \A m : ~(Listed(r.queue, m) /\ Listed(r.sorted, m))
  <2>1. ~(n \in S)
    BY <1>3, <1>17
  <2> QED
    BY <1>2, <1>11, <1>17, <1>18, <2>1
<1>21. \A m \in Node : Listed(r.queue, m) \/ Listed(r.sorted, m) <=> D[m] \subseteq B
  <2> SUFFICES ASSUME NEW m \in Node
               PROVE  Listed(r.queue, m) \/ Listed(r.sorted, m) <=> D[m] \subseteq B
    OBVIOUS
  <2>1. Listed(r.queue, m) \/ Listed(r.sorted, m) <=> D[m] \subseteq A \/ m \in S
    BY <1>2, <1>3, <1>11, <1>18
  <2>2. D[m] \subseteq B <=> D[m] \subseteq A \/ (n \in D[m] /\ D[m] \subseteq B)
    BY <1>12
  <2> QED
    BY <1>16, <2>1, <2>2
<1>22. Ordered(D, r.sorted)
  <2> DEFINE t == r.sorted
  <2>0. Len(s) \in Nat
    BY <1>1
  <2> SUFFICES ASSUME NEW j \in 1 .. Len(t), NEW d \in D[t[j]]
               PROVE  \E l \in 1 .. Len(t) : l < j /\ t[l] = d
    BY DEF Ordered
  <2>1. \A l \in 1 .. Len(s) : l \in 1 .. Len(t) /\ t[l] = s[l]
    BY <1>11, <2>0
  <2>2. CASE j \in 1 .. Len(s)
    <3>1. d \in D[s[j]]
      BY <1>11, <2>2
    <3>2. PICK l \in 1 .. Len(s) : l < j /\ s[l] = d
      BY <1>1, <2>2, <3>1 DEF Ordered
    <3> QED
      BY <2>1, <3>2
  <2>3. CASE j = Len(s) + 1
    <3>1. d \in D[n]
      BY <1>11, <2>3
    <3>2. D[n] \subseteq A
      BY <1>2, <1>3
    <3>3. Listed(s, d)
      BY <3>1, <3>2 DEF A, Sorted, s
    <3>4. PICK l \in 1 .. Len(s) : s[l] = d
      BY <3>3 DEF Listed
    <3>5. l < j
      BY <2>0, <2>3, <3>4
    <3> QED
      BY <2>1, <3>4, <3>5
  <2>4. j \in 1 .. Len(s) \/ j = Len(s) + 1
    BY <1>11, <2>0
  <2> QED
    BY <2>2, <2>3, <2>4
<1>23. Sorting(D, r)
  BY <1>10, <1>11, <1>13, <1>14, <1>18, <1>19, <1>20, <1>21, <1>22 DEF Sorting, B
<1> QED
  BY <1>11, <1>23 DEF r, s

IsSort(D, g) == g = [i \in 0 .. N |-> IF i = 0 THEN SortBegin(D) ELSE SortRound(D, g[i - 1])]

\* The rounds of the sort.
LEMMA SortExists ==
  ASSUME NEW D \in Dependencies
  PROVE  \E g : IsSort(D, g) /\ TopologicalSort(D) = g[N].sorted
<1> DEFINE R == {k \in SortState : Sorting(D, k)}
           a == SortBegin(D)
           step == [i \in 1 .. N |-> [k \in R |-> SortRound(D, k)]]
           h == CHOOSE g : IsSort(D, g)
<1>1. TopologicalSort(D) = h[N].sorted
  BY DEF TopologicalSort, IsSort, SortBegin
<1>2. a \in R /\ N \in Nat
  BY SortBegins, NAssumption DEF Sorting
<1>3. \A k \in R : SortRound(D, k) \in R
  <2> SUFFICES ASSUME NEW k, Sorting(D, k) PROVE Sorting(D, SortRound(D, k))
    BY DEF Sorting
  <2>1. CASE k.queue = <<>>
    BY <2>1 DEF SortRound
  <2>2. CASE k.queue # <<>>
    BY <2>2, SortRoundIs
  <2> QED
    BY <2>1, <2>2
<1> HIDE DEF R, a
<1>4. step \in [1 .. N -> [R -> R]]
  BY <1>3
<1>5. \A i \in 1 .. N : \A k \in R : step[i][k] = SortRound(D, k)
  OBVIOUS
<1> HIDE DEF step
<1>6. PICK g \in [0 .. N -> R] : Unfolds(g, N, a, step)
  BY <1>2, <1>4, RecursionExists
<1>7. \A i \in 0 .. N : g[i] = IF i = 0 THEN a ELSE SortRound(D, g[i - 1])
  <2>1. \A i \in 0 .. N : g[i] = IF i = 0 THEN a ELSE step[i][g[i - 1]]
    BY <1>6 DEF Unfolds
  <2> SUFFICES ASSUME NEW i \in 0 .. N, i # 0 PROVE g[i] = SortRound(D, g[i - 1])
    BY <2>1
  <2>2. i \in 1 .. N /\ i - 1 \in 0 .. N
    BY <1>2
  <2> QED
    BY <1>5, <1>6, <2>1, <2>2
<1>8. g = [i \in 0 .. N |-> IF i = 0 THEN a ELSE SortRound(D, g[i - 1])]
  BY <1>6, <1>7
<1>9. IsSort(D, g)
  BY <1>8 DEF IsSort, a
<1>10. IsSort(D, h)
  BY <1>9
<1> HIDE DEF h
<1> QED
  BY <1>1, <1>10

\* The sort returns every node after those it depends on, and stops early only
\* when each node that is left depends on another one that is.
LEMMA SortIs ==
  ASSUME NEW D \in Dependencies
  PROVE  \E k : /\ TopologicalSort(D) = k.sorted /\ Sorting(D, k)
                /\ Len(k.sorted) = N \/ k.queue = <<>>
<1>1. PICK g : IsSort(D, g) /\ TopologicalSort(D) = g[N].sorted
  BY SortExists
<1>2. N \in Nat
  BY NAssumption
<1>3. \A i \in 0 .. N : g[i] = IF i = 0 THEN SortBegin(D) ELSE SortRound(D, g[i - 1])
  BY <1>1 DEF IsSort
<1> DEFINE Good(i) == Sorting(D, g[i]) /\ (Len(g[i].sorted) = i \/ g[i].queue = <<>>)
           T == {i \in Nat : i <= N => Good(i)}
<1>4. 0 \in T
  <2>1. g[0] = SortBegin(D)
    BY <1>2, <1>3
  <2>2. Len(<<>>) = 0
    OBVIOUS
  <2>3. Good(0)
    BY <2>1, <2>2, SortBegins
  <2> HIDE DEF Good
  <2> QED
    BY <2>3
<1>5. \A i \in T : i + 1 \in T
  <2> SUFFICES ASSUME NEW i \in Nat, i + 1 <= N, Good(i) PROVE Good(i + 1)
    <3> HIDE DEF Good
    <3> QED
      BY <1>2
  <2>1. g[i + 1] = SortRound(D, g[i])
    <3>1. i + 1 \in 0 .. N /\ i + 1 # 0 /\ (i + 1) - 1 = i
      BY <1>2
    <3> QED
      BY <1>3, <3>1
  <2>2. CASE g[i].queue = <<>>
    <3>1. g[i + 1] = g[i]
      BY <2>1, <2>2 DEF SortRound
    <3> QED
      BY <2>2, <3>1
  <2>3. CASE g[i].queue # <<>>
    BY <2>1, <2>3, SortRoundIs
  <2> QED
    BY <2>2, <2>3
<1>6. T = Nat
  <2> HIDE DEF T
  <2> T \in SUBSET Nat
    BY DEF T
  <2> QED
    BY <1>4, <1>5, InductiveSet
<1>7. Good(N)
  <2>1. N \in T /\ N <= N
    BY <1>2, <1>6
  <2> HIDE DEF Good
  <2> QED
    BY <2>1
<1> QED
  BY <1>1, <1>7

\* The nodes reached over at most i more dependencies.
IsReach(D, f) ==
    f = [i \in 0 .. N |->
            IF i = 0 THEN D
            ELSE [n \in Node |-> f[i - 1][n] \cup UNION {f[i - 1][m] : m \in D[n]}]]

LEMMA ReachIs ==
  ASSUME NEW D \in Dependencies
  PROVE  \E f : /\ Reached(D) = f[N] /\ f[0] = D
                /\ \A i \in 1 .. N : \A n \in Node : \A x :
                      x \in f[i][n] <=> x \in f[i - 1][n] \/ \E m \in D[n] : x \in f[i - 1][m]
<1> DEFINE R == Dependencies
           Ext(v) == [n \in Node |-> v[n] \cup UNION {v[m] : m \in D[n]}]
           step == [i \in 1 .. N |-> [v \in R |-> Ext(v)]]
           h == CHOOSE f : IsReach(D, f)
<1>1. Reached(D) = h[N]
  BY DEF Reached, IsReach
<1>2. N \in Nat
  BY NAssumption
<1>3. \A v \in R : Ext(v) \in R
  <2> SUFFICES ASSUME NEW v \in R, NEW n \in Node, NEW x \in v[n] \cup UNION {v[m] : m \in D[n]}
               PROVE  x \in Node
    BY DEF Dependencies
  <2> QED
    BY DEF Dependencies
<1> HIDE DEF R, Ext
<1>4. step \in [1 .. N -> [R -> R]]
  BY <1>3
<1>5. \A i \in 1 .. N : \A v \in R : step[i][v] = Ext(v)
  OBVIOUS
<1> HIDE DEF step
<1>6. PICK f \in [0 .. N -> R] : Unfolds(f, N, D, step)
  <2>1. D \in R
    BY DEF R
  <2> QED
    BY <1>2, <1>4, <2>1, RecursionExists
<1>7. \A i \in 0 .. N : f[i] = IF i = 0 THEN D ELSE Ext(f[i - 1])
  <2>1. \A i \in 0 .. N : f[i] = IF i = 0 THEN D ELSE step[i][f[i - 1]]
    BY <1>6 DEF Unfolds
  <2> SUFFICES ASSUME NEW i \in 0 .. N, i # 0 PROVE f[i] = Ext(f[i - 1])
    BY <2>1
  <2>2. i \in 1 .. N /\ i - 1 \in 0 .. N
    BY <1>2
  <2> QED
    BY <1>5, <1>6, <2>1, <2>2
<1>8. f = [i \in 0 .. N |-> IF i = 0 THEN D ELSE Ext(f[i - 1])]
  BY <1>6, <1>7
<1>9. IsReach(D, f)
  BY <1>8 DEF IsReach, Ext
<1>10. IsReach(D, h)
  BY <1>9
<1> HIDE DEF h
<1>11. \A i \in 0 .. N : h[i] = IF i = 0 THEN D ELSE Ext(h[i - 1])
  BY <1>10 DEF IsReach, Ext
<1>12. h[0] = D /\ \A i \in 1 .. N : h[i] = Ext(h[i - 1])
  BY <1>2, <1>11
<1>13. ASSUME NEW i \in 1 .. N, NEW n \in Node, NEW x
       PROVE  x \in h[i][n] <=> x \in h[i - 1][n] \/ \E m \in D[n] : x \in h[i - 1][m]
  <2> DEFINE v == h[i - 1]
  <2>1. h[i] = Ext(v)
    BY <1>12
  <2> HIDE DEF v
  <2>2. h[i][n] = v[n] \cup UNION {v[m] : m \in D[n]}
    BY <2>1 DEF Ext
  <2>3. x \in UNION {v[m] : m \in D[n]} <=> \E m \in D[n] : x \in v[m]
    BY Zenon
  <2> QED
    BY <2>2, <2>3 DEF v
<1> QED
  BY <1>1, <1>12, <1>13

\* A complete sort lists every node.
LEMMA SortComplete ==
  ASSUME NEW s \in Seq(Node), NoRepeat(s), Len(s) = N
  PROVE  \A m \in Node : Listed(s, m)
<1>1. N \in Nat /\ IsFiniteSet(Node) /\ Cardinality(Node) = N /\ 1 .. N = Node
  BY NAssumption, FS_Interval DEF Node
<1> SUFFICES ASSUME NEW m \in Node, ~Listed(s, m) PROVE FALSE
  OBVIOUS
<1> DEFINE P == Node \ {m}
           f == [i \in Node |-> s[i]]
<1>2. IsFiniteSet(P) /\ Cardinality(P) = N - 1
  BY <1>1, FS_RemoveElement
<1>3. Cardinality(P) < Cardinality(Node)
  BY <1>1, <1>2
<1>4. f \in [Node -> P]
  <2>1. \A i \in Node : s[i] \in Node /\ s[i] # m
    BY <1>1 DEF Listed
  <2> QED
    BY <2>1
<1> HIDE DEF P, f
<1>5. \E x, y \in Node : x # y /\ f[x] = f[y]
  BY <1>1, <1>2, <1>3, <1>4, FS_PigeonHole
<1>6. PICK x, y \in Node : x # y /\ s[x] = s[y]
  BY <1>5 DEF f
<1> QED
  BY <1>1, <1>6 DEF NoRepeat

\* A graph that is sorted completely has no cycle.
LEMMA SortedAcyclic ==
  ASSUME NEW D \in Dependencies, NEW s \in Seq(Node), NoRepeat(s), Len(s) = N, Ordered(D, s)
  PROVE  Acyclic(D)
<1>1. PICK f : /\ Reached(D) = f[N] /\ f[0] = D
               /\ \A i \in 1 .. N : \A n \in Node : \A x :
                     x \in f[i][n] <=> x \in f[i - 1][n] \/ \E m \in D[n] : x \in f[i - 1][m]
  BY ReachIs
<1>2. N \in Nat /\ 1 .. N = Node
  BY NAssumption DEF Node
<1>3. \A j \in Node : s[j] \in Node
  BY <1>2
<1> DEFINE Early(j, x) == \E l \in Node : l < j /\ s[l] = x
           Good(i) == \A j \in Node : \A x \in f[i][s[j]] : Early(j, x)
           T == {i \in Nat : i <= N => Good(i)}
<1>4. \A j \in Node : \A d \in D[s[j]] : Early(j, d)
  BY <1>2 DEF Ordered
<1>5. 0 \in T
  BY <1>1, <1>4
<1>6. \A j, l \in Node : \A x : l < j /\ Early(l, x) => Early(j, x)
  <2> SUFFICES ASSUME NEW j \in Node, NEW l \in Node, NEW x, l < j, Early(l, x) PROVE Early(j, x)
    OBVIOUS
  <2>1. PICK k \in Node : k < l /\ s[k] = x
    OBVIOUS
  <2>2. k < j
    BY <2>1 DEF Node
  <2> QED
    BY <2>1, <2>2
<1>7. \A i \in T : i + 1 \in T
  <2> SUFFICES ASSUME NEW i \in Nat, i + 1 <= N, Good(i), NEW j \in Node, NEW x \in f[i + 1][s[j]]
               PROVE  Early(j, x)
    <3> HIDE DEF Early
    <3> QED
      BY <1>2
  <2>1. i + 1 \in 1 .. N /\ (i + 1) - 1 = i
    BY <1>2
  <2>2. x \in f[i][s[j]] \/ \E m \in D[s[j]] : x \in f[i][m]
    BY <1>1, <1>3, <2>1
  <2>3. CASE x \in f[i][s[j]]
    BY <2>3
  <2>4. ASSUME NEW m \in D[s[j]], x \in f[i][m] PROVE Early(j, x)
    <3>1. PICK l \in Node : l < j /\ s[l] = m
      BY <1>4
    <3>2. Early(l, x)
      BY <2>4, <3>1
    <3> HIDE DEF Early
    <3> QED
      BY <1>6, <3>1, <3>2
  <2> QED
    BY <2>2, <2>3, <2>4
<1>8. T = Nat
  <2> HIDE DEF T
  <2> T \in SUBSET Nat
    BY DEF T
  <2> QED
    BY <1>5, <1>7, InductiveSet
<1>9. Good(N)
  <2>1. N \in T /\ N <= N
    BY <1>2, <1>8
  <2> HIDE DEF Good
  <2> QED
    BY <2>1
<1> SUFFICES ASSUME NEW n \in Node, n \in f[N][n] PROVE FALSE
  BY <1>1 DEF Acyclic
<1>10. PICK j \in Node : s[j] = n
  BY <1>2, SortComplete DEF Listed
<1>11. PICK l \in Node : l < j /\ s[l] = n
  BY <1>9, <1>10
<1>12. l = j
  BY <1>2, <1>10, <1>11 DEF NoRepeat
<1> QED
  BY <1>11, <1>12 DEF Node

\* In a graph without a cycle no set of nodes has dependencies of its own for
\* each of its nodes: a walk through it would come back after N steps.
LEMMA AcyclicGrounded ==
  ASSUME NEW D \in Dependencies, Acyclic(D), NEW U \in SUBSET Node, U # {}
  PROVE  \E m \in U : D[m] \cap U = {}
<1> SUFFICES ASSUME \A m \in U : \E d \in U : d \in D[m] PROVE FALSE
  OBVIOUS
<1>1. PICK f : /\ Reached(D) = f[N] /\ f[0] = D
               /\ \A i \in 1 .. N : \A n \in Node : \A x :
                     x \in f[i][n] <=> x \in f[i - 1][n] \/ \E m \in D[n] : x \in f[i - 1][m]
  BY ReachIs
<1>2. N \in Nat /\ IsFiniteSet(Node) /\ Cardinality(Node) = N
  BY NAssumption, FS_Interval DEF Node
<1> DEFINE go(m) == CHOOSE d \in U : d \in D[m]
           step == [i \in 1 .. N |-> [m \in U |-> go(m)]]
<1>3. \A m \in U : go(m) \in U /\ go(m) \in D[m]
  OBVIOUS
<1> HIDE DEF go
<1>4. step \in [1 .. N -> [U -> U]] /\ \A i \in 1 .. N : \A m \in U : step[i][m] = go(m)
  BY <1>3
<1>5. PICK u \in U : TRUE
  OBVIOUS
<1> HIDE DEF step
<1>6. PICK w \in [0 .. N -> U] : Follows(w, N, u, step)
  BY <1>2, <1>4, <1>5, RecursionSolved
<1>7. \A i \in 0 .. N : i + 1 <= N => w[i + 1] \in D[w[i]]
  <2> SUFFICES ASSUME NEW i \in 0 .. N, i + 1 <= N PROVE w[i + 1] \in D[w[i]]
    OBVIOUS
  <2>1. i + 1 \in 1 .. N /\ (i + 1) - 1 = i
    BY <1>2
  <2>2. w[i + 1] = step[i + 1][w[i]]
    BY <1>6, <2>1 DEF Follows
  <2>3. w[i] \in U
    BY <1>6
  <2> QED
    BY <1>3, <1>4, <2>1, <2>2, <2>3
<1> DEFINE Near(i) == \A a, b \in 0 .. N : a < b /\ b <= a + (i + 1) => w[b] \in f[i][w[a]]
           T == {i \in Nat : i <= N => Near(i)}
<1>8. 0 \in T
  <2> SUFFICES ASSUME NEW a \in 0 .. N, NEW b \in 0 .. N, a < b, b <= a + (0 + 1)
               PROVE  w[b] \in f[0][w[a]]
    OBVIOUS
  <2>1. b = a + 1 /\ a + 1 <= N
    BY <1>2
  <2> QED
    BY <1>1, <1>7, <2>1
<1>9. \A i \in T : i + 1 \in T
  <2> SUFFICES ASSUME NEW i \in Nat, i + 1 <= N, Near(i), NEW a \in 0 .. N, NEW b \in 0 .. N,
                      a < b, b <= a + ((i + 1) + 1)
               PROVE  w[b] \in f[i + 1][w[a]]
    <3>1. \A i \in Nat : i + 1 <= N => i <= N
      BY <1>2
    <3> QED
      BY <3>1
  <2>1. i + 1 \in 1 .. N /\ (i + 1) - 1 = i
    BY <1>2
  <2>2. w[a] \in Node /\ a + 1 <= N
    BY <1>2, <1>6
  <2>3. w[b] \in f[i][w[a]] \/ (\E m \in D[w[a]] : w[b] \in f[i][m]) => w[b] \in f[i + 1][w[a]]
    BY <1>1, <2>1, <2>2
  <2>4. CASE b <= a + (i + 1)
    BY <2>3, <2>4
  <2>5. CASE ~(b <= a + (i + 1))
    <3>1. a + 1 \in 0 .. N /\ a + 1 < b /\ b <= (a + 1) + (i + 1)
      BY <1>2, <2>2, <2>5
    <3>2. w[b] \in f[i][w[a + 1]]
      BY <3>1
    <3>3. w[a + 1] \in D[w[a]]
      BY <1>7, <2>2
    <3> QED
      BY <2>3, <3>2, <3>3
  <2> QED
    BY <2>4, <2>5
<1>10. T = Nat
  <2> HIDE DEF T
  <2> T \in SUBSET Nat
    BY DEF T
  <2> QED
    BY <1>8, <1>9, InductiveSet
<1>11. Near(N)
  <2>1. N \in T /\ N <= N
    BY <1>2, <1>10
  <2> HIDE DEF Near
  <2> QED
    BY <2>1
<1>12. \E x, y \in 0 .. N : x # y /\ w[x] = w[y]
  <2>1. IsFiniteSet(U) /\ Cardinality(U) <= N /\ Cardinality(U) \in Nat
    BY <1>2, FS_Subset, FS_CardinalityType
  <2>2. IsFiniteSet(0 .. N) /\ Cardinality(0 .. N) = N + 1
    BY <1>2, FS_Interval
  <2>3. Cardinality(U) < Cardinality(0 .. N)
    BY <1>2, <2>1, <2>2
  <2> QED
    BY <1>6, <2>1, <2>2, <2>3, FS_PigeonHole
<1>13. PICK a, b \in 0 .. N : a < b /\ w[a] = w[b]
  <2>1. PICK x, y \in 0 .. N : x # y /\ w[x] = w[y]
    BY <1>12
  <2>2. x < y \/ y < x
    BY <1>2, <2>1
  <2> QED
    BY <2>1, <2>2
<1>14. b <= a + (N + 1)
  BY <1>2, <1>13
<1>15. w[b] \in f[N][w[a]] /\ w[a] \in Node
  BY <1>6, <1>11, <1>13, <1>14
<1> QED
  BY <1>1, <1>13, <1>15 DEF Acyclic

\* Accepted is exactly the absence of a cycle, and the sort is then in order.
LEMMA AcceptedIs ==
  ASSUME NEW D \in Dependencies
  PROVE  /\ Accepted(D) <=> Acyclic(D)
         /\ Accepted(D) => \A i, j \in Node : TopologicalSort(D)[i] \in D[TopologicalSort(D)[j]] => i < j
<1>1. PICK k : /\ TopologicalSort(D) = k.sorted /\ Sorting(D, k)
               /\ Len(k.sorted) = N \/ k.queue = <<>>
  BY SortIs
<1> DEFINE s == k.sorted
<1>2. /\ s \in Seq(Node) /\ NoRepeat(s) /\ Ordered(D, s)
      /\ \A m \in Node : Listed(k.queue, m) \/ Listed(s, m) <=> D[m] \subseteq Sorted(k)
  BY <1>1 DEF Sorting, SortState
<1>3. N \in Nat /\ 1 .. N = Node /\ IsFiniteSet(Node) /\ Cardinality(Node) = N
  BY NAssumption, FS_Interval DEF Node
<1>4. ASSUME Accepted(D) PROVE Len(s) = N
  BY <1>1, <1>4 DEF Accepted
<1> HIDE DEF s
<1>5. ASSUME Accepted(D) PROVE Acyclic(D)
  BY <1>2, <1>4, <1>5, SortedAcyclic
<1>6. ASSUME Accepted(D), NEW i \in Node, NEW j \in Node, s[i] \in D[s[j]] PROVE i < j
  <2>1. Len(s) = N
    BY <1>4, <1>6
  <2>2. PICK l \in Node : l < j /\ s[l] = s[i]
    BY <1>2, <1>3, <1>6, <2>1 DEF Ordered
  <2>3. l = i
    BY <1>2, <1>3, <2>1, <2>2 DEF NoRepeat
  <2> QED
    BY <2>2, <2>3
<1>7. ASSUME Acyclic(D) PROVE Accepted(D)
  <2>1. \A n \in Node : n \notin D[n]
    <3> SUFFICES ASSUME NEW n \in Node PROVE n \notin D[n]
      OBVIOUS
    <3>1. {n} \in SUBSET Node /\ {n} # {}
      OBVIOUS
    <3>2. \E m \in {n} : D[m] \cap {n} = {}
      BY <1>7, <3>1, AcyclicGrounded
    <3> QED
      BY <3>2
  <2>2. Len(s) = N
    <3> SUFFICES ASSUME Len(s) # N PROVE FALSE
      OBVIOUS
    <3>1. k.queue = <<>>
      BY <1>1 DEF s
    <3> DEFINE U == Node \ Sorted(k)
    <3>2. U = {}
      <4> SUFFICES ASSUME U # {} PROVE FALSE
        OBVIOUS
      <4>1. PICK m \in U : D[m] \cap U = {}
        BY <1>7, AcyclicGrounded
      <4>2. D[m] \subseteq Sorted(k)
        BY <4>1 DEF Dependencies
      <4>3. ~Listed(<<>>, m)
        BY DEF Listed
      <4>4. Listed(s, m)
        BY <1>2, <3>1, <4>2, <4>3
      <4> QED
        BY <4>4 DEF Sorted, s
    <3>3. \A m \in Node : Listed(s, m)
      BY <3>2 DEF Sorted, s
    <3> DEFINE L == Len(s)
               f == [i \in 1 .. L |-> s[i]]
    <3>4. L \in Nat /\ \A i \in 1 .. L : s[i] \in Node
      BY <1>2
    <3>5. f \in Bijection(1 .. L, Node)
      <4>1. f \in [1 .. L -> Node]
        BY <3>4
      <4>2. \A i, j \in 1 .. L : f[i] = f[j] => i = j
        BY <1>2 DEF NoRepeat
      <4>3. \A m \in Node : \E i \in 1 .. L : f[i] = m
        BY <3>3 DEF Listed
      <4> QED
        BY <4>1, <4>2, <4>3 DEF Bijection, Injection, Surjection, IsInjective
    <3>6. ExistsBijection(1 .. L, Node)
      BY <3>5 DEF ExistsBijection
    <3> HIDE DEF L, f
    <3>7. IsFiniteSet(1 .. L) /\ Cardinality(1 .. L) = L
      BY <3>4, FS_Interval
    <3>8. Cardinality(Node) = L
      BY <3>6, <3>7, FS_Bijection
    <3> QED
      BY <1>3, <3>8 DEF L
  <2> QED
    BY <1>1, <2>1, <2>2 DEF Accepted, s
<1> QED
  BY <1>1, <1>5, <1>6, <1>7 DEF s

\* validateAndSortGraph accepts a submitted graph exactly if its dependencies
\* have no cycle, and the order it returns puts every node after the nodes it
\* depends on, for every number of nodes and every set of dependencies.
THEOREM ValidationHolds == Spec => ValidationExact
<1>1. IndInv => deps \in Dependencies
  BY DEF IndInv, TypeOK, Dependencies
<1> DEFINE Validates ==
             phase = "submitted" /\ phase' # "submitted" =>
                /\ phase' = "running" <=> Acyclic(deps)
                /\ phase' = "running" =>
                      LET order == TopologicalSort(deps)
                      IN  \A i, j \in Node : order[i] \in deps[order[j]] => i < j
<1>2. IndInv /\ [Next]_vars => [Validates]_vars
  <2> SUFFICES ASSUME IndInv, Next, phase = "submitted", phase' # "submitted" PROVE Validates
    OBVIOUS
  <2>1. Create
    BY DEF Next, MarkNodeRunning, MarkNodeCompleted, MarkNodeFailed, Cancel, Restore
  <2>2. phase' = "running" <=> Accepted(deps)
    BY <2>1 DEF Create
  <2> QED
    BY <1>1, <2>2, AcceptedIs
<1> QED
  BY <1>2, Invariance, PTL DEF Spec, ValidationExact
=============================================================================
