--------------------------- MODULE InductionLemmas ---------------------------
(***************************************************************************)
(* Induction over the natural numbers in a form the provers can apply: on  *)
(* the set of the numbers with a property instead of on the property.      *)
(* With it, the sum a fold computes over a finite set of weights is shown  *)
(* to exist and to be a natural number.                                    *)
(***************************************************************************)
EXTENDS Integers, FiniteSets, FiniteSetTheorems, WellFoundedInduction, TLAPS

\* Every non-empty set of natural numbers has a least element.
LEMMA LeastNat ==
  ASSUME NEW T \in SUBSET Nat, T # {}
  PROVE  \E x \in T : \A y \in T : x <= y
<1>1. IsWellFoundedOn(OpToRel(<, Nat), Nat)
  BY NatLessThanWellFounded
<1>2. PICK x \in T : \A y \in T : <<y, x>> \notin OpToRel(<, Nat)
  BY <1>1, WFMin
<1>3. \A y \in T : ~ (y < x)
  BY <1>2 DEF OpToRel
<1> QED
  BY <1>3

\* A set of natural numbers with 0 and every successor is all of them.
LEMMA InductiveSet ==
  ASSUME NEW T \in SUBSET Nat, 0 \in T, \A n \in T : n + 1 \in T
  PROVE  T = Nat
<1> SUFFICES ASSUME Nat \ T # {} PROVE FALSE
  OBVIOUS
<1>1. PICK x \in Nat \ T : \A y \in Nat \ T : x <= y
  BY LeastNat
<1>2. x - 1 \in Nat /\ x - 1 \in T
  BY <1>1
<1> QED
  BY <1>2

\* Every finite non-empty set of natural numbers has a greatest element.
LEMMA GreatestNat ==
  ASSUME NEW b \in Nat, NEW T \in SUBSET (0 .. b), T # {}
  PROVE  \E x \in T : \A y \in T : x >= y
<1> DEFINE U == {b - y : y \in T}
<1>1. U \in SUBSET Nat /\ U # {}
  <2>1. \A y \in T : b - y \in Nat
    OBVIOUS
  <2>2. U # {}
    OBVIOUS
  <2> QED
    BY <2>1, <2>2
<1>2. PICK u \in U : \A v \in U : u <= v
  BY <1>1, LeastNat
<1>3. PICK x \in T : u = b - x
  BY <1>2
<1>4. \A y \in T : b - x <= b - y
  BY <1>2, <1>3
<1> QED
  BY <1>3, <1>4

-----------------------------------------------------------------------------
(* Sums.  Weighed(w, g, s) is the equation of the fold of w over s.         *)

Weighed(w, g, s) ==
    IF s = {} THEN 0
    ELSE w[CHOOSE x \in s : TRUE] + g[s \ {CHOOSE x \in s : TRUE}]

IsSum(S, w, g) == g = [s \in SUBSET S |-> Weighed(w, g, s)]

\* The subset one element smaller that the equation refers to.
LEMMA OneLess ==
  ASSUME NEW S, IsFiniteSet(S), NEW s \in SUBSET S, s # {}
  PROVE  LET x == CHOOSE x \in s : TRUE
         IN  /\ x \in S /\ s \ {x} \in SUBSET S
             /\ Cardinality(s) \in Nat /\ Cardinality(s \ {x}) = Cardinality(s) - 1
<1> DEFINE x == CHOOSE x \in s : TRUE
<1>1. x \in s
  OBVIOUS
<1>2. IsFiniteSet(s)
  BY FS_Subset
<1> HIDE DEF x
<1>3. Cardinality(s \ {x}) = Cardinality(s) - 1 /\ Cardinality(s) \in Nat
  BY <1>1, <1>2, FS_RemoveElement, FS_CardinalityType
<1> QED
  BY <1>1, <1>3 DEF x

\* A solution of the equation on all subsets exists.
LEMMA SumExists ==
  ASSUME NEW S, IsFiniteSet(S), NEW w
  PROVE  \E g : IsSum(S, w, g)
<1> DEFINE Small(n) == {s \in SUBSET S : Cardinality(s) <= n}
           Solved(n, g) == g = [s \in Small(n) |-> Weighed(w, g, s)]
           T == {n \in Nat : \E g : Solved(n, g)}
<1>1. 0 \in T
  <2> DEFINE g == [s \in Small(0) |-> 0]
  <2>1. \A s \in Small(0) : s = {}
    <3> SUFFICES ASSUME NEW s \in Small(0), s # {} PROVE FALSE
      OBVIOUS
    <3>1. Cardinality(s) \in Nat /\ Cardinality(s) <= 0 /\ IsFiniteSet(s)
      BY OneLess, FS_Subset
    <3> QED
      BY <3>1, FS_EmptySet
  <2>2. Solved(0, g)
    BY <2>1 DEF Weighed
  <2> QED
    BY <2>2
<1>2. \A n \in T : n + 1 \in T
  <2> SUFFICES ASSUME NEW n \in T PROVE n + 1 \in T
    OBVIOUS
  <2>1. PICK g : Solved(n, g)
    OBVIOUS
  <2> DEFINE h == [s \in Small(n + 1) |-> Weighed(w, g, s)]
  <2>2. \A s \in Small(n) : s \in Small(n + 1) /\ h[s] = g[s]
    <3> SUFFICES ASSUME NEW s \in Small(n) PROVE s \in Small(n + 1) /\ h[s] = g[s]
      OBVIOUS
    <3>1. IsFiniteSet(s) /\ Cardinality(s) \in Nat
      BY FS_Subset, FS_CardinalityType
    <3>2. s \in Small(n + 1)
      BY <3>1
    <3>3. g[s] = Weighed(w, g, s)
      BY <2>1
    <3> QED
      BY <3>2, <3>3
  <2>3. \A s \in Small(n + 1) : Weighed(w, g, s) = Weighed(w, h, s)
    <3> SUFFICES ASSUME NEW s \in Small(n + 1), s # {}
                 PROVE  Weighed(w, g, s) = Weighed(w, h, s)
      BY DEF Weighed
    <3>1. s \ {CHOOSE x \in s : TRUE} \in Small(n)
      BY OneLess
    <3> HIDE DEF h, Small
    <3> QED
      BY <2>2, <3>1 DEF Weighed
  <2>4. h = [s \in Small(n + 1) |-> h[s]] /\ \A s \in Small(n + 1) : h[s] = Weighed(w, g, s)
    OBVIOUS
  <2> HIDE DEF Small, h
  <2>5. Solved(n + 1, h)
    BY <2>3, <2>4
  <2> HIDE DEF Solved
  <2> QED
    BY <2>5
<1>3. T = Nat
  <2> HIDE DEF T
  <2> T \in SUBSET Nat
    BY DEF T
  <2> QED
    BY <1>1, <1>2, InductiveSet
<1>4. PICK g : Solved(Cardinality(S), g)
  BY <1>3, FS_CardinalityType
<1>5. Small(Cardinality(S)) = SUBSET S
  BY FS_Subset
<1> QED
  BY <1>4, <1>5 DEF IsSum

\* Every solution has natural numbers for values.
LEMMA SumIsNat ==
  ASSUME NEW S, IsFiniteSet(S), NEW w \in [S -> Nat],
         NEW g, IsSum(S, w, g)
  PROVE  g[S] \in Nat
<1>0. g[{}] = 0
  <2>1. g[{}] = Weighed(w, g, {})
    BY DEF IsSum
  <2> QED
    BY <2>1 DEF Weighed
<1> DEFINE T == {n \in Nat : \A s \in SUBSET S : Cardinality(s) <= n => g[s] \in Nat}
<1>1. 0 \in T
  <2> SUFFICES ASSUME NEW s \in SUBSET S, Cardinality(s) <= 0 PROVE g[s] \in Nat
    OBVIOUS
  <2>1. s = {}
    BY OneLess, FS_Subset, FS_EmptySet, FS_CardinalityType
  <2> QED
    BY <1>0, <2>1
<1>2. \A n \in T : n + 1 \in T
  <2> SUFFICES ASSUME NEW n \in Nat, NEW s \in SUBSET S, Cardinality(s) <= n + 1,
                      \A r \in SUBSET S : Cardinality(r) <= n => g[r] \in Nat
               PROVE  g[s] \in Nat
    OBVIOUS
  <2>1. CASE s = {}
    BY <1>0, <2>1
  <2>2. CASE s # {}
    <3> DEFINE x == CHOOSE x \in s : TRUE
    <3>1. x \in S /\ s \ {x} \in SUBSET S /\ Cardinality(s \ {x}) <= n
      BY <2>2, OneLess
    <3>2. g[s] = Weighed(w, g, s)
      BY DEF IsSum
    <3>3. g[s] = w[x] + g[s \ {x}]
      BY <2>2, <3>2 DEF Weighed
    <3> HIDE DEF x
    <3>4. g[s \ {x}] \in Nat
      BY <3>1
    <3> QED
      BY <3>1, <3>3, <3>4
  <2> QED
    BY <2>1, <2>2
<1>3. T = Nat
  <2> HIDE DEF T
  <2> T \in SUBSET Nat
    BY DEF T
  <2> QED
    BY <1>1, <1>2, InductiveSet
<1>4. Cardinality(S) \in Nat
  BY FS_CardinalityType
<1>5. \A s \in SUBSET S : Cardinality(s) <= Cardinality(S) => g[s] \in Nat
  BY <1>3, <1>4
<1> QED
  BY <1>4, <1>5

-----------------------------------------------------------------------------
(* Functions defined by recursion on 0 .. n, from a by the steps step[i].    *)

Unfolds(f, n, a, step) == f = [i \in 0 .. n |-> IF i = 0 THEN a ELSE step[i][f[i - 1]]]

\* Such a function exists when the steps stay within a set R.
LEMMA RecursionExists ==
  ASSUME NEW n \in Nat, NEW R, NEW a \in R, NEW step \in [1 .. n -> [R -> R]]
  PROVE  \E f \in [0 .. n -> R] : Unfolds(f, n, a, step)
<1> DEFINE Solved(k) == \E f \in [0 .. k -> R] : Unfolds(f, k, a, step)
           T == {k \in Nat : k <= n => Solved(k)}
<1>1. 0 \in T
  <2> DEFINE f == [i \in 0 .. 0 |-> a]
  <2>1. f \in [0 .. 0 -> R] /\ Unfolds(f, 0, a, step)
    BY DEF Unfolds
  <2> QED
    BY <2>1
<1>2. \A k \in T : k + 1 \in T
  <2> SUFFICES ASSUME NEW k \in Nat, k + 1 <= n, NEW f \in [0 .. k -> R], Unfolds(f, k, a, step)
               PROVE  Solved(k + 1)
    OBVIOUS
  <2> DEFINE g == [i \in 0 .. k + 1 |-> IF i = k + 1 THEN step[k + 1][f[k]] ELSE f[i]]
  <2>1. step[k + 1][f[k]] \in R
    <3>1. step[k + 1] \in [R -> R] /\ f[k] \in R
      OBVIOUS
    <3> QED
      BY <3>1
  <2>2. g \in [0 .. k + 1 -> R]
    BY <2>1
  <2>3. \A i \in 0 .. k + 1 : g[i] = IF i = 0 THEN a ELSE step[i][g[i - 1]]
    <3> SUFFICES ASSUME NEW i \in 0 .. k + 1
                 PROVE  g[i] = IF i = 0 THEN a ELSE step[i][g[i - 1]]
      OBVIOUS
    <3>1. CASE i = k + 1
      <4>1. i # 0 /\ i - 1 = k /\ g[k] = f[k]
        BY <3>1
      <4> QED
        BY <3>1, <4>1
    <3>2. CASE i # k + 1
      <4>1. i \in 0 .. k /\ g[i] = f[i] /\ (i # 0 => i - 1 \in 0 .. k /\ g[i - 1] = f[i - 1])
        BY <3>2
      <4>2. f[i] = IF i = 0 THEN a ELSE step[i][f[i - 1]]
        BY <4>1 DEF Unfolds
      <4> QED
        BY <4>1, <4>2
    <3> QED
      BY <3>1, <3>2
  <2> HIDE DEF g
  <2>4. Unfolds(g, k + 1, a, step)
    BY <2>2, <2>3 DEF Unfolds
  <2> QED
    BY <2>2, <2>4
<1>3. T = Nat
  <2> HIDE DEF T
  <2> T \in SUBSET Nat
    BY DEF T
  <2> QED
    BY <1>1, <1>2, InductiveSet
<1> QED
  BY <1>3

Follows(f, n, a, step) == f[0] = a /\ \A i \in 1 .. n : f[i] = step[i][f[i - 1]]

\* The recursion, value by value.
LEMMA RecursionSolved ==
  ASSUME NEW n \in Nat, NEW R, NEW a \in R, NEW step \in [1 .. n -> [R -> R]]
  PROVE  \E f \in [0 .. n -> R] : Follows(f, n, a, step)
<1>1. PICK f \in [0 .. n -> R] : Unfolds(f, n, a, step)
  BY RecursionExists
<1>2. \A i \in 0 .. n : f[i] = IF i = 0 THEN a ELSE step[i][f[i - 1]]
  BY <1>1 DEF Unfolds
<1>3. Follows(f, n, a, step)
  BY <1>2 DEF Follows
<1> QED
  BY <1>3

\* A loop that starts in R and whose rounds keep it there stays in R.
LEMMA LoopStays ==
  ASSUME NEW n \in Nat, NEW R, NEW h, h[0] \in R,
         \A i \in 1 .. n : h[i - 1] \in R => h[i] \in R
  PROVE  h[n] \in R
<1> DEFINE T == {i \in Nat : i <= n => h[i] \in R}
<1>1. 0 \in T
  OBVIOUS
<1>2. \A i \in T : i + 1 \in T
  <2> SUFFICES ASSUME NEW i \in Nat, i + 1 <= n, h[i] \in R PROVE h[i + 1] \in R
    OBVIOUS
  <2>1. i + 1 \in 1 .. n /\ (i + 1) - 1 = i
    OBVIOUS
  <2> QED
    BY <2>1
<1>3. T = Nat
  <2> HIDE DEF T
  <2> T \in SUBSET Nat
    BY DEF T
  <2> QED
    BY <1>1, <1>2, InductiveSet
<1> QED
  BY <1>3

-----------------------------------------------------------------------------
(* Totals of integer weights.                                                *)

Total(w, S) == (CHOOSE g : IsSum(S, w, g))[S]

\* A property of subsets that holds of the empty one and of each of which it
\* holds without its chosen element holds of the whole set.
LEMMA SubsetsInduct ==
  ASSUME NEW S, IsFiniteSet(S), NEW T \in SUBSET (SUBSET S), {} \in T,
         \A s \in SUBSET S : s # {} /\ s \ {CHOOSE x \in s : TRUE} \in T => s \in T
  PROVE  S \in T
<1> DEFINE I == {n \in Nat : \A s \in SUBSET S : Cardinality(s) <= n => s \in T}
<1>1. 0 \in I
  <2> SUFFICES ASSUME NEW s \in SUBSET S, Cardinality(s) <= 0 PROVE s \in T
    OBVIOUS
  <2>1. s = {}
    BY OneLess, FS_Subset, FS_EmptySet, FS_CardinalityType
  <2> QED
    BY <2>1
<1>2. \A n \in I : n + 1 \in I
  <2> SUFFICES ASSUME NEW n \in Nat, NEW s \in SUBSET S, Cardinality(s) <= n + 1,
                      \A r \in SUBSET S : Cardinality(r) <= n => r \in T
               PROVE  s \in T
    OBVIOUS
  <2>1. CASE s = {}
    BY <2>1
  <2>2. CASE s # {}
    <3> DEFINE x == CHOOSE x \in s : TRUE
    <3>1. x \in S /\ s \ {x} \in SUBSET S /\ Cardinality(s \ {x}) <= n
      BY <2>2, OneLess
    <3> QED
      BY <2>2, <3>1
  <2> QED
    BY <2>1, <2>2
<1>3. I = Nat
  <2> HIDE DEF I
  <2> I \in SUBSET Nat
    BY DEF I
  <2> QED
    BY <1>1, <1>2, InductiveSet
<1>4. Cardinality(S) \in Nat
  BY FS_CardinalityType
<1> QED
  BY <1>3, <1>4

\* What a solution says of a subset.
LEMMA SumUnfolds ==
  ASSUME NEW S, NEW w, NEW g, IsSum(S, w, g)
  PROVE  /\ g[{}] = 0
         /\ \A s \in SUBSET S : s # {} =>
               LET x == CHOOSE x \in s : TRUE
               IN  x \in s /\ s \ {x} \in SUBSET S /\ g[s] = w[x] + g[s \ {x}]
<1>1. \A s \in SUBSET S : g[s] = Weighed(w, g, s)
  BY DEF IsSum
<1>2. g[{}] = 0
  BY <1>1 DEF Weighed
<1>3. ASSUME NEW s \in SUBSET S, s # {}
      PROVE  LET x == CHOOSE x \in s : TRUE
             IN  x \in s /\ s \ {x} \in SUBSET S /\ g[s] = w[x] + g[s \ {x}]
  <2>1. g[s] = Weighed(w, g, s)
    BY <1>1
  <2> QED
    BY <1>3, <2>1 DEF Weighed
<1> QED
  BY <1>2, <1>3

\* The total is the value of a solution.
LEMMA TotalIs ==
  ASSUME NEW S, IsFiniteSet(S), NEW w
  PROVE  \E g : IsSum(S, w, g) /\ Total(w, S) = g[S]
<1>1. \E g : IsSum(S, w, g)
  BY SumExists
<1> DEFINE h == CHOOSE g : IsSum(S, w, g)
<1>2. IsSum(S, w, h)
  BY <1>1
<1>3. Total(w, S) = h[S]
  BY DEF Total
<1> HIDE DEF h
<1> QED
  BY <1>2, <1>3

\* It is an integer.
LEMMA TotalInt ==
  ASSUME NEW S, IsFiniteSet(S), NEW w \in [S -> Int]
  PROVE  Total(w, S) \in Int
<1>1. PICK g : IsSum(S, w, g) /\ Total(w, S) = g[S]
  BY TotalIs
<1> DEFINE T == {s \in SUBSET S : g[s] \in Int}
<1>2. {} \in T
  BY <1>1, SumUnfolds
<1>3. ASSUME NEW s \in SUBSET S, s # {}, s \ {CHOOSE x \in s : TRUE} \in T PROVE s \in T
  <2> DEFINE x == CHOOSE x \in s : TRUE
  <2>1. x \in s /\ s \ {x} \in SUBSET S /\ g[s] = w[x] + g[s \ {x}]
    BY <1>1, <1>3, SumUnfolds
  <2>2. g[s \ {x}] \in Int
    BY <1>3
  <2> HIDE DEF x
  <2> QED
    BY <2>1, <2>2
<1>4. S \in T
  <2>1. T \in SUBSET (SUBSET S)
    OBVIOUS
  <2> HIDE DEF T
  <2> QED
    BY <1>2, <1>3, <2>1, SubsetsInduct
<1> QED
  BY <1>1, <1>4

\* One weight changes.
LEMMA TotalChanges ==
  ASSUME NEW S, IsFiniteSet(S), NEW v \in [S -> Int], NEW w \in [S -> Int], NEW a \in S,
         \A x \in S : x # a => w[x] = v[x]
  PROVE  Total(w, S) = Total(v, S) + (w[a] - v[a])
<1>1. PICK g : IsSum(S, v, g) /\ Total(v, S) = g[S]
  BY TotalIs
<1>2. PICK h : IsSum(S, w, h) /\ Total(w, S) = h[S]
  BY TotalIs
<1> DEFINE T == {s \in SUBSET S :
                    g[s] \in Int /\ h[s] = g[s] + IF a \in s THEN w[a] - v[a] ELSE 0}
<1>3. {} \in T
  <2>1. g[{}] = 0 /\ h[{}] = 0
    BY <1>1, <1>2, SumUnfolds
  <2> QED
    BY <2>1
<1>4. ASSUME NEW s \in SUBSET S, s # {}, s \ {CHOOSE x \in s : TRUE} \in T PROVE s \in T
  <2> DEFINE x == CHOOSE x \in s : TRUE
  <2>1. x \in s /\ s \ {x} \in SUBSET S /\ g[s] = v[x] + g[s \ {x}] /\ h[s] = w[x] + h[s \ {x}]
    <3>1. x \in s /\ s \ {x} \in SUBSET S /\ g[s] = v[x] + g[s \ {x}]
      BY <1>1, <1>4, SumUnfolds
    <3>2. h[s] = w[x] + h[s \ {x}]
      BY <1>2, <1>4, SumUnfolds
    <3> QED
      BY <3>1, <3>2
  <2>2. /\ g[s \ {x}] \in Int
        /\ h[s \ {x}] = g[s \ {x}] + IF a \in s \ {x} THEN w[a] - v[a] ELSE 0
    BY <1>4
  <2> HIDE DEF x
  <2>3. x \in S /\ v[x] \in Int /\ w[x] \in Int /\ v[a] \in Int /\ w[a] \in Int
    BY <2>1
  <2>4. CASE x = a
    BY <2>1, <2>2, <2>3, <2>4
  <2>5. CASE x # a
    BY <2>1, <2>2, <2>3, <2>5
  <2> QED
    BY <2>4, <2>5
<1>5. S \in T
  <2>1. T \in SUBSET (SUBSET S)
    OBVIOUS
  <2> HIDE DEF T
  <2> QED
    BY <1>3, <1>4, <2>1, SubsetsInduct
<1> QED
  BY <1>1, <1>2, <1>5

\* Smaller weights have a smaller total.
LEMMA TotalMonotone ==
  ASSUME NEW S, IsFiniteSet(S), NEW v \in [S -> Int], NEW w \in [S -> Int],
         \A x \in S : w[x] <= v[x]
  PROVE  Total(w, S) <= Total(v, S)
<1>1. PICK g : IsSum(S, v, g) /\ Total(v, S) = g[S]
  BY TotalIs
<1>2. PICK h : IsSum(S, w, h) /\ Total(w, S) = h[S]
  BY TotalIs
<1> DEFINE T == {s \in SUBSET S : g[s] \in Int /\ h[s] \in Int /\ h[s] <= g[s]}
<1>3. {} \in T
  <2>1. g[{}] = 0 /\ h[{}] = 0
    BY <1>1, <1>2, SumUnfolds
  <2> QED
    BY <2>1
<1>4. ASSUME NEW s \in SUBSET S, s # {}, s \ {CHOOSE x \in s : TRUE} \in T PROVE s \in T
  <2> DEFINE x == CHOOSE x \in s : TRUE
  <2>1. x \in s /\ s \ {x} \in SUBSET S /\ g[s] = v[x] + g[s \ {x}] /\ h[s] = w[x] + h[s \ {x}]
    <3>1. x \in s /\ s \ {x} \in SUBSET S /\ g[s] = v[x] + g[s \ {x}]
      BY <1>1, <1>4, SumUnfolds
    <3>2. h[s] = w[x] + h[s \ {x}]
      BY <1>2, <1>4, SumUnfolds
    <3> QED
      BY <3>1, <3>2
  <2>2. g[s \ {x}] \in Int /\ h[s \ {x}] \in Int /\ h[s \ {x}] <= g[s \ {x}]
    BY <1>4
  <2> HIDE DEF x
  <2>3. x \in S /\ v[x] \in Int /\ w[x] \in Int /\ w[x] <= v[x]
    BY <2>1
  <2> QED
    BY <2>1, <2>2, <2>3
<1>5. S \in T
  <2>1. T \in SUBSET (SUBSET S)
    OBVIOUS
  <2> HIDE DEF T
  <2> QED
    BY <1>3, <1>4, <2>1, SubsetsInduct
<1> QED
  BY <1>1, <1>2, <1>5

\* The total of sums is the sum of the totals.
LEMMA TotalAdds ==
  ASSUME NEW S, IsFiniteSet(S), NEW v \in [S -> Int], NEW w \in [S -> Int],
         NEW u \in [S -> Int], \A x \in S : u[x] = v[x] + w[x]
  PROVE  Total(u, S) = Total(v, S) + Total(w, S)
<1>1. PICK g : IsSum(S, v, g) /\ Total(v, S) = g[S]
  BY TotalIs
<1>2. PICK h : IsSum(S, w, h) /\ Total(w, S) = h[S]
  BY TotalIs
<1>3. PICK f : IsSum(S, u, f) /\ Total(u, S) = f[S]
  BY TotalIs
<1> DEFINE T == {s \in SUBSET S : g[s] \in Int /\ h[s] \in Int /\ f[s] = g[s] + h[s]}
<1>4. {} \in T
  <2>1. g[{}] = 0 /\ h[{}] = 0 /\ f[{}] = 0
    BY <1>1, <1>2, <1>3, SumUnfolds
  <2> QED
    BY <2>1
<1>5. ASSUME NEW s \in SUBSET S, s # {}, s \ {CHOOSE x \in s : TRUE} \in T PROVE s \in T
  <2> DEFINE x == CHOOSE x \in s : TRUE
  <2>1. /\ x \in s /\ s \ {x} \in SUBSET S
        /\ g[s] = v[x] + g[s \ {x}] /\ h[s] = w[x] + h[s \ {x}] /\ f[s] = u[x] + f[s \ {x}]
    <3>1. x \in s /\ s \ {x} \in SUBSET S /\ g[s] = v[x] + g[s \ {x}]
      BY <1>1, <1>5, SumUnfolds
    <3>2. h[s] = w[x] + h[s \ {x}]
      BY <1>2, <1>5, SumUnfolds
    <3>3. f[s] = u[x] + f[s \ {x}]
      BY <1>3, <1>5, SumUnfolds
    <3> QED
      BY <3>1, <3>2, <3>3
  <2>2. g[s \ {x}] \in Int /\ h[s \ {x}] \in Int /\ f[s \ {x}] = g[s \ {x}] + h[s \ {x}]
    BY <1>5
  <2> HIDE DEF x
  <2>3. x \in S /\ v[x] \in Int /\ w[x] \in Int /\ u[x] = v[x] + w[x]
    BY <2>1
  <2> QED
    BY <2>1, <2>2, <2>3
<1>6. S \in T
  <2>1. T \in SUBSET (SUBSET S)
    OBVIOUS
  <2> HIDE DEF T
  <2> QED
    BY <1>4, <1>5, <2>1, SubsetsInduct
<1> QED
  BY <1>1, <1>2, <1>3, <1>6

\* The table w has the row h more than v, at a.
RowMore(v, w, A, B, a, h) ==
    \A x \in A, y \in B : w[<<x, y>>] = v[<<x, y>>] + (IF x = a THEN h[y] ELSE 0)

\* The weights of one row of a table change.
LEMMA TotalRow ==
  ASSUME NEW A, NEW B, NEW P, P = A \X B, IsFiniteSet(B), IsFiniteSet(P), NEW a \in A,
         NEW h \in [B -> Int], NEW v \in [P -> Int], NEW w \in [P -> Int],
         RowMore(v, w, A, B, a, h)
  PROVE  Total(w, P) = Total(v, P) + Total(h, B)
<1> DEFINE part(s) == [p \in P |-> v[p] + IF p[1] = a /\ p[2] \in s THEN h[p[2]] ELSE 0]
<1>1. PICK g : IsSum(B, h, g) /\ Total(h, B) = g[B]
  BY TotalIs
<1>2. \A s \in SUBSET B : part(s) \in [P -> Int]
  OBVIOUS
<1>3. Total(v, P) \in Int
  BY TotalInt
<1> DEFINE T == {s \in SUBSET B : g[s] \in Int /\ Total(part(s), P) = Total(v, P) + g[s]}
<1>4. {} \in T
  <2>1. g[{}] = 0
    BY <1>1, SumUnfolds
  <2>2. part({}) = v
    OBVIOUS
  <2> HIDE DEF part
  <2> QED
    BY <1>3, <2>1, <2>2
<1>5. ASSUME NEW s \in SUBSET B, s # {}, s \ {CHOOSE x \in s : TRUE} \in T PROVE s \in T
  <2> DEFINE x == CHOOSE x \in s : TRUE
             r == s \ {x}
  <2>1. x \in s /\ r \in SUBSET B /\ g[s] = h[x] + g[r]
    BY <1>1, <1>5, SumUnfolds
  <2>2. g[r] \in Int /\ Total(part(r), P) = Total(v, P) + g[r]
    BY <1>5
  <2>3. x \notin r /\ \A y : y # x => (y \in r <=> y \in s)
    OBVIOUS
  <2> HIDE DEF x, r
  <2>4. /\ <<a, x>> \in P /\ h[x] \in Int /\ v[<<a, x>>] \in Int
        /\ \A p \in P : p # <<a, x>> => part(s)[p] = part(r)[p]
        /\ part(s)[<<a, x>>] = v[<<a, x>>] + h[x] /\ part(r)[<<a, x>>] = v[<<a, x>>]
    BY <2>1, <2>3
  <2>5. part(s) \in [P -> Int] /\ part(r) \in [P -> Int]
    BY <1>2, <2>1
  <2> DEFINE ps == part(s)
             pr == part(r)
  <2> HIDE DEF part
  <2>6. Total(ps, P) = Total(pr, P) + (ps[<<a, x>>] - pr[<<a, x>>])
    <3>1. IsFiniteSet(P)
      OBVIOUS
    <3> DEFINE q == <<a, x>>
    <3>2. /\ ps \in [P -> Int] /\ pr \in [P -> Int] /\ q \in P
          /\ \A p \in P : p # q => ps[p] = pr[p]
      BY <2>4, <2>5
    <3> HIDE DEF ps, pr, q
    <3>3. Total(ps, P) = Total(pr, P) + (ps[q] - pr[q])
      BY <3>1, <3>2, TotalChanges
    <3> QED
      BY <3>3 DEF q
  <2> QED
    BY <1>3, <2>1, <2>2, <2>4, <2>6
<1>6. B \in T
  <2>1. T \in SUBSET (SUBSET B)
    OBVIOUS
  <2> HIDE DEF T
  <2> QED
    BY <1>4, <1>5, <2>1, SubsetsInduct
<1>7. part(B) = w
  BY DEF RowMore
<1> HIDE DEF part
<1>8. Total(w, P) = Total(v, P) + g[B]
  BY <1>6, <1>7
<1> QED
  BY <1>1, <1>8

\* Weights of zero have no total.
LEMMA TotalZero ==
  ASSUME NEW S, IsFiniteSet(S), NEW w \in [S -> Int], \A x \in S : w[x] = 0
  PROVE  Total(w, S) = 0
<1>1. PICK g : IsSum(S, w, g) /\ Total(w, S) = g[S]
  BY TotalIs
<1> DEFINE T == {s \in SUBSET S : g[s] = 0}
<1>2. {} \in T
  BY <1>1, SumUnfolds
<1>3. ASSUME NEW s \in SUBSET S, s # {}, s \ {CHOOSE x \in s : TRUE} \in T PROVE s \in T
  <2> DEFINE x == CHOOSE x \in s : TRUE
  <2>1. x \in s /\ s \ {x} \in SUBSET S /\ g[s] = w[x] + g[s \ {x}]
    BY <1>1, <1>3, SumUnfolds
  <2>2. g[s \ {x}] = 0
    BY <1>3
  <2> HIDE DEF x
  <2> QED
    BY <2>1, <2>2
<1>4. S \in T
  <2>1. T \in SUBSET (SUBSET S)
    OBVIOUS
  <2> HIDE DEF T
  <2> QED
    BY <1>2, <1>3, <2>1, SubsetsInduct
<1> QED
  BY <1>1, <1>4

\* Weights of one count the elements.
LEMMA TotalOnes ==
  ASSUME NEW S, IsFiniteSet(S), NEW w \in [S -> Int], \A x \in S : w[x] = 1
  PROVE  Total(w, S) = Cardinality(S)
<1>1. PICK g : IsSum(S, w, g) /\ Total(w, S) = g[S]
  BY TotalIs
<1> DEFINE T == {s \in SUBSET S : g[s] = Cardinality(s)}
<1>2. {} \in T
  BY <1>1, SumUnfolds, FS_EmptySet
<1>3. ASSUME NEW s \in SUBSET S, s # {}, s \ {CHOOSE x \in s : TRUE} \in T PROVE s \in T
  <2> DEFINE x == CHOOSE x \in s : TRUE
  <2>1. x \in s /\ s \ {x} \in SUBSET S /\ g[s] = w[x] + g[s \ {x}]
    BY <1>1, <1>3, SumUnfolds
  <2>2. g[s \ {x}] = Cardinality(s \ {x})
    BY <1>3
  <2>3. Cardinality(s) \in Nat /\ Cardinality(s \ {x}) = Cardinality(s) - 1
    BY <1>3, OneLess
  <2> HIDE DEF x
  <2> QED
    BY <2>1, <2>2, <2>3
<1>4. S \in T
  <2>1. T \in SUBSET (SUBSET S)
    OBVIOUS
  <2> HIDE DEF T
  <2> QED
    BY <1>2, <1>3, <2>1, SubsetsInduct
<1> QED
  BY <1>1, <1>4

\* Within a set the total of a part is that of the weights of the part.
Masked(w, S, s) == [x \in S |-> IF x \in s THEN w[x] ELSE 0]

LEMMA SumMasked ==
  ASSUME NEW S, IsFiniteSet(S), NEW w \in [S -> Int], NEW g, IsSum(S, w, g),
         NEW r \in SUBSET S
  PROVE  g[r] = Total(Masked(w, S, r), S)
<1>1. \A s \in SUBSET S : Masked(w, S, s) \in [S -> Int]
  BY DEF Masked
<1> DEFINE T == {s \in SUBSET r : g[s] = Total(Masked(w, S, s), S)}
<1>2. {} \in T
  <2>1. \A x \in S : Masked(w, S, {})[x] = 0
    BY DEF Masked
  <2>2. Total(Masked(w, S, {}), S) = 0
    BY <1>1, <2>1, TotalZero
  <2>3. g[{}] = 0
    BY SumUnfolds
  <2> QED
    BY <2>2, <2>3
<1>3. ASSUME NEW s \in SUBSET r, s # {}, s \ {CHOOSE x \in s : TRUE} \in T PROVE s \in T
  <2> DEFINE x == CHOOSE x \in s : TRUE
             u == s \ {x}
             v == Masked(w, S, s)
             o == Masked(w, S, u)
  <2>0. s \in SUBSET S
    OBVIOUS
  <2>1. x \in s /\ u \in SUBSET S /\ g[s] = w[x] + g[u]
    BY <1>3, <2>0, SumUnfolds
  <2>2. g[u] = Total(o, S)
    BY <1>3
  <2>3. x \notin u /\ \A y : y # x => (y \in u <=> y \in s)
    OBVIOUS
  <2> HIDE DEF x, u
  <2>4. v[x] = w[x] /\ o[x] = 0 /\ x \in S /\ \A y \in S : y # x => v[y] = o[y]
    BY <2>1, <2>3 DEF Masked
  <2>5. v \in [S -> Int] /\ o \in [S -> Int]
    BY <1>1, <2>0, <2>1
  <2> HIDE DEF v, o
  <2>6. Total(v, S) = Total(o, S) + (v[x] - o[x])
    BY <2>4, <2>5, TotalChanges
  <2>7. Total(o, S) \in Int /\ w[x] \in Int
    BY <2>4, <2>5, TotalInt
  <2>8. g[s] = Total(v, S)
    BY <2>1, <2>2, <2>4, <2>6, <2>7
  <2> QED
    BY <2>8 DEF v
<1>4. r \in T
  <2>1. T \in SUBSET (SUBSET r)
    OBVIOUS
  <2>2. IsFiniteSet(r)
    BY FS_Subset
  <2> HIDE DEF T
  <2> QED
    BY <1>2, <1>3, <2>1, <2>2, SubsetsInduct
<1> QED
  BY <1>4

\* The total of a part, whether or not it is taken for one.
LEMMA SumRestricts ==
  ASSUME NEW U, NEW S \in SUBSET U, IsFiniteSet(S), NEW w, NEW v, NEW g, NEW h,
         IsSum(U, w, g), IsSum(S, v, h), \A x \in S : v[x] = w[x]
  PROVE  h[S] = g[S]
<1> DEFINE T == {s \in SUBSET S : g[s] = h[s]}
<1>1. {} \in T
  <2>1. g[{}] = 0 /\ h[{}] = 0
    BY SumUnfolds
  <2> QED
    BY <2>1
<1>2. ASSUME NEW s \in SUBSET S, s # {}, s \ {CHOOSE x \in s : TRUE} \in T PROVE s \in T
  <2> DEFINE x == CHOOSE x \in s : TRUE
  <2>0. s \in SUBSET U
    OBVIOUS
  <2>1. x \in s /\ h[s] = v[x] + h[s \ {x}]
    BY <1>2, SumUnfolds
  <2>2. g[s] = w[x] + g[s \ {x}]
    <3>1. \A r \in SUBSET U : r # {} =>
             LET y == CHOOSE y \in r : TRUE
             IN  y \in r /\ r \ {y} \in SUBSET U /\ g[r] = w[y] + g[r \ {y}]
      BY SumUnfolds
    <3> QED
      BY <1>2, <2>0, <3>1
  <2>3. g[s \ {x}] = h[s \ {x}]
    BY <1>2
  <2> HIDE DEF x
  <2> QED
    BY <2>1, <2>2, <2>3
<1>3. S \in T
  <2>1. T \in SUBSET (SUBSET S)
    OBVIOUS
  <2> HIDE DEF T
  <2> QED
    BY <1>1, <1>2, <2>1, SubsetsInduct
<1> QED
  BY <1>3

\* One element more.
LEMMA TotalGrows ==
  ASSUME NEW S, IsFiniteSet(S), NEW a, a \notin S, NEW w \in [S \cup {a} -> Int],
         NEW v \in [S -> Int], \A x \in S : v[x] = w[x]
  PROVE  Total(w, S \cup {a}) = Total(v, S) + w[a]
<1> DEFINE U == S \cup {a}
<1>0. IsFiniteSet(U)
  BY FS_AddElement
<1>1. S \in SUBSET U /\ U \in SUBSET U /\ a \in U
  OBVIOUS
<1>2. w \in [U -> Int] /\ \A x : x \in U <=> x \in S \/ x = a
  OBVIOUS
<1> HIDE DEF U
<1>3. PICK g : IsSum(U, w, g) /\ Total(w, U) = g[U]
  BY <1>0, TotalIs
<1>4. PICK h : IsSum(S, v, h) /\ Total(v, S) = h[S]
  BY TotalIs
<1>5. h[S] = g[S]
  BY <1>1, <1>3, <1>4, SumRestricts
<1> DEFINE m == Masked(w, U, U)
           o == Masked(w, U, S)
<1>6. g[U] = Total(m, U)
  BY <1>0, <1>1, <1>2, <1>3, SumMasked
<1>6a. g[S] = Total(o, U)
  BY <1>0, <1>1, <1>2, <1>3, SumMasked
<1>7. /\ m \in [U -> Int] /\ o \in [U -> Int] /\ m[a] = w[a] /\ o[a] = 0
      /\ \A x \in U : x # a => m[x] = o[x]
  BY <1>1, <1>2 DEF Masked
<1> HIDE DEF m, o
<1>8. Total(m, U) = Total(o, U) + (m[a] - o[a])
  BY <1>0, <1>1, <1>7, TotalChanges
<1>9. Total(o, U) \in Int /\ w[a] \in Int
  BY <1>0, <1>1, <1>2, <1>7, TotalInt
<1>10. Total(w, U) = Total(v, S) + w[a]
  BY <1>3, <1>4, <1>5, <1>6, <1>6a, <1>7, <1>8, <1>9
<1> QED
  BY <1>10 DEF U
=============================================================================
