------------------------- MODULE Footprints_proofs -------------------------
(***************************************************************************)
(* The weighted median of calibration.py and the estimate of plan.py, for  *)
(* samples of any number and figures of any size.                          *)
(*                                                                         *)
(* The library states induction and recursion for operators.  Both are     *)
(* stated here for sets and functions instead, from the least-element      *)
(* principle, so that the provers can use them.                            *)
(***************************************************************************)
EXTENDS Footprints, FunctionTheorems, FiniteSetTheorems, SequenceTheorems,
        WellFoundedInduction, TLAPS

-----------------------------------------------------------------------------
(* Induction and recursion.                                                *)

\* A set of natural numbers that is not empty has a least element.
LEMMA LeastElement ==
  ASSUME NEW S \in SUBSET Nat, S # {}
  PROVE  \E m \in S : \A n \in S : m <= n
<1> DEFINE R == OpToRel(<, Nat)
<1>1. \E m \in S : \A n \in S : ~(<<n, m>> \in R)
  BY NatLessThanWellFounded, WFMin, Zenon
<1>2. \A m, n \in Nat : n < m => <<n, m>> \in R
  BY DEF OpToRel
<1>3. PICK m \in S : \A n \in S : ~(<<n, m>> \in R)
  BY <1>1
<1>4. ASSUME NEW n \in S PROVE m <= n
  <2>1. ~(n < m)
    BY <1>2, <1>3, Zenon
  <2> QED BY <2>1
<1> HIDE DEF R
<1> QED BY <1>4

\* A set that has 0, and each number's successor up to N, has every number up to N.
LEMMA UpTo ==
  ASSUME NEW N \in Nat, NEW S, 0 \in S, \A n \in 0..N - 1 : n \in S => n + 1 \in S
  PROVE  0..N \subseteq S
<1> DEFINE Missed == {n \in 0..N : n \notin S}
<1> SUFFICES ASSUME Missed # {} PROVE FALSE
  OBVIOUS
<1>1. PICK m \in Missed : \A n \in Missed : m <= n
  <2>1. Missed \in SUBSET Nat
    OBVIOUS
  <2> HIDE DEF Missed
  <2> QED BY <2>1, LeastElement
<1>2. m # 0 /\ m - 1 \in 0..N - 1 /\ m - 1 \notin Missed
  BY <1>1
<1>3. m - 1 \in S /\ (m - 1) + 1 = m
  BY <1>2
<1> QED BY <1>1, <1>2, <1>3

\* f starts at v0 and goes on by its steps.
Steps(f, N, v0, step) == f[0] = v0 /\ \A n \in 1..N : f[n] = step[n][f[n - 1]]

\* A first value and steps define a function on 0..N.
LEMMA Recursion ==
  ASSUME NEW N \in Nat, NEW V, NEW v0 \in V, NEW step \in [1..N -> [V -> V]]
  PROVE  \E f \in [0..N -> V] : Steps(f, N, v0, step)
<1> DEFINE S == {m \in 0..N : \E f \in [0..m -> V] : Steps(f, m, v0, step)}
<1>1. 0 \in S
  <2> DEFINE c == [i \in 0..0 |-> v0]
  <2>1. c \in [0..0 -> V] /\ Steps(c, 0, v0, step)
    BY DEF Steps
  <2> HIDE DEF c
  <2> QED BY <2>1
<1>2. ASSUME NEW m \in 0..N - 1, m \in S PROVE m + 1 \in S
  <2>1. PICK f \in [0..m -> V] : Steps(f, m, v0, step)
    BY <1>2
  <2> DEFINE v == step[m + 1][f[m]]
             g == [i \in 0..m + 1 |-> IF i <= m THEN f[i] ELSE v]
  <2>2. v \in V
    BY <2>1
  <2> HIDE DEF v
  <2>3. g \in [0..m + 1 -> V]
    BY <2>1, <2>2
  <2>4. g[0] = v0
    BY <2>1 DEF Steps
  <2>5. ASSUME NEW n \in 1..m + 1 PROVE g[n] = step[n][g[n - 1]]
    <3>1. CASE n <= m
      BY <2>1, <2>5, <3>1 DEF Steps
    <3>2. CASE n = m + 1
      BY <2>1, <2>5, <3>2 DEF v
    <3> QED BY <2>5, <3>1, <3>2
  <2> HIDE DEF g
  <2>6. m + 1 \in 0..N /\ Steps(g, m + 1, v0, step)
    BY <2>4, <2>5 DEF Steps
  <2> QED BY <2>3, <2>6
<1>3. N \in S
  <2> HIDE DEF S
  <2>1. 0..N \subseteq S
    BY <1>1, <1>2, UpTo
  <2> QED BY <2>1
<1> QED BY <1>3

-----------------------------------------------------------------------------
(* Weights of samples.                                                     *)

LEMMA WeightOfNat ==
  ASSUME NEW s, NEW I, IsFiniteSet(I)
  PROVE  WeightOf(s, I) \in Nat
<1>1. {i \in I : s[i].source = "health"} \in SUBSET I
  OBVIOUS
<1>2. /\ IsFiniteSet({i \in I : s[i].source = "health"})
      /\ Cardinality({i \in I : s[i].source = "health"}) \in Nat
      /\ Cardinality(I) \in Nat
  BY <1>1, FS_Subset, FS_CardinalityType
<1> QED BY <1>2 DEF WeightOf

\* The weight of disjoint sets of places is the sum of theirs.
LEMMA WeightOfSplit ==
  ASSUME NEW s, NEW I, NEW J, IsFiniteSet(I), IsFiniteSet(J), I \intersect J = {}
  PROVE  WeightOf(s, I \union J) = WeightOf(s, I) + WeightOf(s, J)
<1> DEFINE H(K) == {i \in K : s[i].source = "health"}
<1>1. H(I \union J) = H(I) \union H(J) /\ H(I) \intersect H(J) = {}
  OBVIOUS
<1>2. H(I) \in SUBSET I /\ H(J) \in SUBSET J
  OBVIOUS
<1>3. IsFiniteSet(H(I)) /\ IsFiniteSet(H(J))
  <2> HIDE DEF H
  <2> QED BY <1>2, FS_Subset
<1>4. WeightOf(s, I \union J) = Cardinality(I \union J) + Cardinality(H(I \union J))
      /\ WeightOf(s, I) = Cardinality(I) + Cardinality(H(I))
      /\ WeightOf(s, J) = Cardinality(J) + Cardinality(H(J))
  BY DEF WeightOf
<1> HIDE DEF H
<1>5. Cardinality(I \union J) = Cardinality(I) + Cardinality(J)
  <2>1. Cardinality(I \union J) = Cardinality(I) + Cardinality(J) - Cardinality(I \intersect J)
    BY FS_Union
  <2>2. Cardinality(I) \in Nat /\ Cardinality(J) \in Nat
    BY FS_CardinalityType
  <2>3. Cardinality(I \intersect J) = 0
    BY FS_EmptySet, Zenon
  <2> QED BY <2>1, <2>2, <2>3
<1>6. Cardinality(H(I \union J)) = Cardinality(H(I)) + Cardinality(H(J))
  <2>1. Cardinality(H(I) \union H(J))
          = Cardinality(H(I)) + Cardinality(H(J)) - Cardinality(H(I) \intersect H(J))
    BY <1>3, FS_Union
  <2>2. Cardinality(H(I)) \in Nat /\ Cardinality(H(J)) \in Nat
    BY <1>3, FS_CardinalityType
  <2>3. Cardinality(H(I) \intersect H(J)) = 0
    BY <1>1, FS_EmptySet, Zenon
  <2>4. Cardinality(H(I \union J)) = Cardinality(H(I) \union H(J))
    BY <1>1, Zenon
  <2> QED BY <2>1, <2>2, <2>3, <2>4
<1>7. /\ Cardinality(I) \in Nat /\ Cardinality(J) \in Nat
      /\ Cardinality(H(I)) \in Nat /\ Cardinality(H(J)) \in Nat
  BY <1>3, FS_CardinalityType
<1> QED BY <1>4, <1>5, <1>6, <1>7

LEMMA WeightOfPart ==
  ASSUME NEW s, NEW I, NEW J, IsFiniteSet(J), I \subseteq J
  PROVE  WeightOf(s, I) <= WeightOf(s, J)
<1>1. IsFiniteSet(I) /\ IsFiniteSet(J \ I)
  BY FS_Subset
<1>2. J = I \union (J \ I) /\ I \intersect (J \ I) = {}
  OBVIOUS
<1>3. WeightOf(s, J) = WeightOf(s, I) + WeightOf(s, J \ I)
  BY <1>1, <1>2, WeightOfSplit
<1> QED BY <1>1, <1>3, WeightOfNat

\* p has the samples of s at the places D, moved by w to one place each.
Moves(w, D, s, p) ==
  /\ w \in [D -> D]
  /\ \A i, j \in D : w[i] = w[j] => i = j
  /\ \A i \in D : p[i] = s[w[i]]

LEMMA SameCardinality ==
  ASSUME NEW D, NEW w \in [D -> D], NEW I \in SUBSET D, IsFiniteSet(I),
         \A i, j \in D : w[i] = w[j] => i = j
  PROVE  Cardinality({w[i] : i \in I}) = Cardinality(I)
<1> DEFINE J == {w[i] : i \in I}
           f == [i \in I |-> w[i]]
<1>1. f \in Bijection(I, J)
  BY DEF Bijection, Injection, Surjection, IsInjective
<1> HIDE DEF f, J
<1>2. ExistsBijection(I, J)
  BY <1>1 DEF ExistsBijection
<1>3. Cardinality(J) = Cardinality(I)
  BY <1>2, FS_Bijection
<1> QED BY <1>3 DEF J

\* Moving the samples keeps their weight.
LEMMA WeightOfMoved ==
  ASSUME NEW D, IsFiniteSet(D), NEW s, NEW p, NEW w, Moves(w, D, s, p), NEW I \in SUBSET D
  PROVE  WeightOf(p, I) = WeightOf(s, {w[i] : i \in I})
<1>0. w \in [D -> D] /\ (\A i, j \in D : w[i] = w[j] => i = j) /\ \A i \in D : p[i] = s[w[i]]
  BY DEF Moves
<1> DEFINE H == {i \in I : p[i].source = "health"}
           J == {w[i] : i \in I}
           HJ == {j \in J : s[j].source = "health"}
<1>1. HJ = {w[i] : i \in H} /\ H \in SUBSET D
  BY <1>0
<1>2. Cardinality(HJ) = Cardinality(H)
  <2>1. IsFiniteSet(H)
    BY <1>1, FS_Subset
  <2> HIDE DEF H, HJ
  <2> QED BY <1>0, <1>1, <2>1, SameCardinality
<1>3. Cardinality(J) = Cardinality(I)
  BY <1>0, FS_Subset, SameCardinality
<1> QED BY <1>2, <1>3 DEF WeightOf

\* The running sum of _weighted_median is the weight of the samples passed.
LEMMA AccumulatedSteps ==
  ASSUME NEW T, NEW s \in Seq(T)
  PROVE  /\ Accumulated(s)[0] = 0
         /\ \A n \in 1..Len(s) : Accumulated(s)[n] = Accumulated(s)[n - 1] + Weight(s[n])
<1> DEFINE N == Len(s)
           step == [n \in 1..N |-> [x \in Nat |-> x + Weight(s[n])]]
<1>1. N \in Nat /\ 0 \in Nat /\ step \in [1..N -> [Nat -> Nat]]
  BY DEF Weight
<1>2. PICK f \in [0..N -> Nat] : Steps(f, N, 0, step)
  <2> HIDE DEF step, N
  <2> QED BY <1>1, Recursion
<1>3. f[0] = 0 /\ \A n \in 1..N : f[n] = f[n - 1] + Weight(s[n])
  <2>1. f[0] = 0
    BY <1>2 DEF Steps
  <2>2. ASSUME NEW n \in 1..N PROVE f[n] = f[n - 1] + Weight(s[n])
    <3>1. f[n - 1] \in Nat
      <4>1. N \in Nat
        OBVIOUS
      <4>2. n - 1 \in 0..N
        BY <4>1
      <4> HIDE DEF step, N
      <4> QED BY <4>2
    <3>2. f[n] = step[n][f[n - 1]]
      BY <1>2 DEF Steps
    <3>3. step[n][f[n - 1]] = f[n - 1] + Weight(s[n])
      BY <3>1
    <3> QED BY <3>2, <3>3
  <2> QED BY <2>1, <2>2
<1>4. f = [n \in 0..N |-> IF n = 0 THEN 0 ELSE f[n - 1] + Weight(s[n])]
  BY <1>1, <1>3
<1> DEFINE acc == Accumulated(s)
<1>5. acc = [n \in 0..N |-> IF n = 0 THEN 0 ELSE acc[n - 1] + Weight(s[n])]
  BY <1>4 DEF Accumulated
<1> HIDE DEF acc
<1>6. acc[0] = 0 /\ \A n \in 1..N : acc[n] = acc[n - 1] + Weight(s[n])
  BY <1>1, <1>5
<1> QED BY <1>6 DEF acc

LEMMA AccumulatedIsWeight ==
  ASSUME NEW T, NEW s \in Seq(T), NEW n \in 0..Len(s)
  PROVE  Accumulated(s)[n] = WeightOf(s, 1..n)
<1> DEFINE S == {m \in 0..Len(s) : Accumulated(s)[m] = WeightOf(s, 1..m)}
<1>1. 0 \in S
  <2>1. 1..0 = {} /\ {i \in 1..0 : s[i].source = "health"} = {}
    OBVIOUS
  <2>2. Cardinality({}) = 0
    BY FS_EmptySet, Zenon
  <2>3. WeightOf(s, 1..0) = 0
    BY <2>1, <2>2 DEF WeightOf
  <2> QED BY <2>3, AccumulatedSteps
<1>2. ASSUME NEW m \in 0..Len(s) - 1, m \in S PROVE m + 1 \in S
  <2>1. 1..m + 1 = (1..m) \union {m + 1} /\ (1..m) \intersect {m + 1} = {}
    OBVIOUS
  <2>2. IsFiniteSet(1..m) /\ IsFiniteSet({m + 1}) /\ Cardinality({m + 1}) = 1
    <3>1. 1 \in Int /\ m \in Int
      OBVIOUS
    <3>2. IsFiniteSet(1..m)
      BY <3>1, FS_Interval
    <3> QED BY <3>2, FS_Singleton, Zenon
  <2>3. WeightOf(s, 1..m + 1) = WeightOf(s, 1..m) + WeightOf(s, {m + 1})
    BY <2>1, <2>2, WeightOfSplit
  <2>4. WeightOf(s, {m + 1}) = Weight(s[m + 1])
    <3>1. CASE s[m + 1].source = "health"
      <4>1. {i \in {m + 1} : s[i].source = "health"} = {m + 1}
        BY <3>1
      <4>2. WeightOf(s, {m + 1}) = Cardinality({m + 1}) + Cardinality({m + 1})
        BY <4>1 DEF WeightOf
      <4> QED BY <2>2, <3>1, <4>2 DEF Weight
    <3>2. CASE s[m + 1].source # "health"
      <4>1. {i \in {m + 1} : s[i].source = "health"} = {}
        BY <3>2
      <4>2. Cardinality({i \in {m + 1} : s[i].source = "health"}) = 0
        BY <4>1, FS_EmptySet, Zenon
      <4> QED BY <2>2, <3>2, <4>2 DEF WeightOf, Weight
    <3> QED BY <3>1, <3>2
  <2>5. m + 1 \in 1..Len(s) /\ (m + 1) - 1 = m
    OBVIOUS
  <2>6. Accumulated(s)[m + 1] = Accumulated(s)[m] + Weight(s[m + 1])
    BY <2>5, AccumulatedSteps
  <2> QED BY <1>2, <2>3, <2>4, <2>5, <2>6
<1>3. n \in S
  <2> HIDE DEF S
  <2> QED BY <1>1, <1>2, UpTo
<1> QED BY <1>3

-----------------------------------------------------------------------------
(* Sorting.                                                                *)

\* w has the places 1..n, each once, by what a has there.
Orders(a, n, w) ==
  /\ \A i \in 1..n : w[i] \in 1..n
  /\ \A i, j \in 1..n : w[i] = w[j] => i = j
  /\ \A i \in 1..n - 1 : a[w[i]] <= a[w[i + 1]]

\* An order of n places and one place more have an order: the new place goes before the
\* first that has more.
LEMMA Insertion ==
  ASSUME NEW n \in Nat, NEW a, \A i \in 1..n + 1 : a[i] \in Nat, NEW w, Orders(a, n, w)
  PROVE  \E v : Orders(a, n + 1, v)
<1> DEFINE After == {i \in 1..n + 1 : i # n + 1 => a[w[i]] > a[n + 1]}
<1>1. PICK first \in After : \A i \in After : first <= i
  <2>1. After \in SUBSET Nat /\ After # {}
    OBVIOUS
  <2> HIDE DEF After
  <2> QED BY <2>1, LeastElement
<1>2. \A i \in 1..n : i < first => a[w[i]] <= a[n + 1]
  <2> SUFFICES ASSUME NEW i \in 1..n, i < first PROVE a[w[i]] <= a[n + 1]
    OBVIOUS
  <2>1. first \in 1..n + 1
    OBVIOUS
  <2>2. i \notin After
    BY <1>1, <2>1
  <2>3. w[i] \in 1..n + 1
    BY DEF Orders
  <2> QED BY <2>2, <2>3
<1>3. PICK k \in 1..n + 1 : /\ k # n + 1 => a[w[k]] > a[n + 1]
                            /\ \A i \in 1..n : i < k => a[w[i]] <= a[n + 1]
  BY <1>2
<1> HIDE DEF After
<1> DEFINE v == [i \in 1..n + 1 |-> IF i < k THEN w[i] ELSE IF i = k THEN n + 1 ELSE w[i - 1]]
<1>4. /\ \A i \in 1..n + 1 : i < k => v[i] = w[i]
      /\ v[k] = n + 1
      /\ \A i \in 1..n + 1 : i > k => v[i] = w[i - 1]
  OBVIOUS
<1> HIDE DEF v
<1>6. \A i \in 1..n : w[i] \in 1..n
  BY DEF Orders
<1>5. ASSUME NEW i \in 1..n + 1 PROVE v[i] \in 1..n + 1
  <2>1. CASE i < k
    BY <1>4, <1>6, <2>1
  <2>2. CASE i = k
    BY <1>4, <2>2
  <2>3. CASE i > k
    <3>1. i - 1 \in 1..n
      BY <2>3
    <3> QED BY <1>4, <1>6, <2>3, <3>1
  <2> QED BY <2>1, <2>2, <2>3
<1>7. ASSUME NEW i \in 1..n + 1, NEW j \in 1..n + 1, v[i] = v[j] PROVE i = j
  <2>1. CASE i = k \/ j = k
    BY <1>2, <1>4, <1>6, <1>7, <2>1
  <2>2. CASE i < k /\ j < k
    BY <1>4, <1>7, <2>2 DEF Orders
  <2>3. CASE i > k /\ j > k
    <3>1. w[i - 1] = w[j - 1] /\ i - 1 \in 1..n /\ j - 1 \in 1..n
      BY <1>4, <1>7, <2>3
    <3>2. i - 1 = j - 1
      BY <3>1 DEF Orders
    <3> QED BY <3>2
  <2>4. CASE i < k /\ j > k
    <3>1. w[i] = w[j - 1] /\ i \in 1..n /\ j - 1 \in 1..n
      BY <1>4, <1>7, <2>4
    <3>2. i = j - 1
      BY <3>1 DEF Orders
    <3> QED BY <1>2, <2>4, <3>2
  <2>5. CASE i > k /\ j < k
    <3>1. w[i - 1] = w[j] /\ i - 1 \in 1..n /\ j \in 1..n
      BY <1>4, <1>7, <2>5
    <3>2. i - 1 = j
      BY <3>1 DEF Orders
    <3> QED BY <1>2, <2>5, <3>2
  <2> QED BY <1>2, <2>1, <2>2, <2>3, <2>4, <2>5
<1>8. ASSUME NEW i \in 1..(n + 1) - 1 PROVE a[v[i]] <= a[v[i + 1]]
  <2>0. i \in 1..n /\ i \in 1..n + 1 /\ i + 1 \in 1..n + 1 /\ (i + 1) - 1 = i
    BY <1>8
  <2>1. CASE i + 1 < k
    <3>1. v[i] = w[i] /\ v[i + 1] = w[i + 1] /\ i + 1 \in 1..n
      BY <1>2, <1>4, <2>0, <2>1
    <3>2. i \in 1..n - 1
      BY <3>1
    <3> QED BY <3>1, <3>2 DEF Orders
  <2>2. CASE i + 1 = k
    <3>1. v[i] = w[i] /\ v[i + 1] = n + 1 /\ i < k
      BY <1>2, <1>4, <2>0, <2>2
    <3> QED BY <1>3, <2>0, <3>1
  <2>3. CASE i = k
    <3>1. v[i] = n + 1 /\ v[i + 1] = w[k] /\ k # n + 1
      BY <1>2, <1>4, <2>0, <2>3
    <3>2. w[k] \in 1..n + 1 /\ n + 1 \in 1..n + 1
      BY <1>6, <2>0, <2>3
    <3> QED BY <1>3, <3>1, <3>2
  <2>4. CASE i > k
    <3>1. v[i] = w[i - 1] /\ v[i + 1] = w[i] /\ i - 1 \in 1..n - 1 /\ (i - 1) + 1 = i
      BY <1>2, <1>4, <2>0, <2>4
    <3> QED BY <3>1 DEF Orders
  <2> QED BY <1>2, <2>0, <2>1, <2>2, <2>3, <2>4
<1> QED BY <1>5, <1>7, <1>8 DEF Orders

\* Natural numbers at 1..N have an order.
LEMMA OrderExists ==
  ASSUME NEW N \in Nat, NEW a, \A i \in 1..N : a[i] \in Nat
  PROVE  \E w \in [1..N -> 1..N] : Orders(a, N, w)
<1> DEFINE S == {n \in 0..N : \E w : Orders(a, n, w)}
<1>1. 0 \in S
  <2>1. Orders(a, 0, << >>)
    BY DEF Orders
  <2> QED BY <2>1
<1>2. ASSUME NEW n \in 0..N - 1, n \in S PROVE n + 1 \in S
  <2>1. PICK w : Orders(a, n, w)
    BY <1>2
  <2>2. n \in Nat /\ \A i \in 1..n + 1 : a[i] \in Nat
    OBVIOUS
  <2>3. \E v : Orders(a, n + 1, v)
    BY <2>1, <2>2, Insertion
  <2> QED BY <2>3
<1>3. N \in S
  <2> HIDE DEF S
  <2>1. 0..N \subseteq S
    BY <1>1, <1>2, UpTo
  <2> QED BY <2>1
<1>4. PICK w : Orders(a, N, w)
  BY <1>3
<1> DEFINE v == [i \in 1..N |-> w[i]]
<1>5. v \in [1..N -> 1..N] /\ Orders(a, N, v)
  BY <1>4 DEF Orders
<1> HIDE DEF v
<1> QED BY <1>5

\* What never falls from one place to the next never falls.
LEMMA Monotone ==
  ASSUME NEW N \in Nat, NEW b \in [1..N -> Nat], \A i \in 1..N - 1 : b[i] <= b[i + 1],
         NEW i \in 1..N, NEW j \in 1..N, i <= j
  PROVE  b[i] <= b[j]
<1> DEFINE S == {d \in 0..j - i : b[i] <= b[i + d]}
<1>1. 0 \in S
  OBVIOUS
<1>2. ASSUME NEW d \in 0..(j - i) - 1, d \in S PROVE d + 1 \in S
  <2>1. i + d \in 1..N - 1 /\ i + (d + 1) = (i + d) + 1 /\ d + 1 \in 0..j - i
    OBVIOUS
  <2>2. b[i] <= b[i + d] /\ b[i + d] <= b[(i + d) + 1]
    BY <1>2, <2>1
  <2>3. b[i] \in Nat /\ b[i + d] \in Nat /\ b[(i + d) + 1] \in Nat
    BY <2>1
  <2>4. b[i] <= b[i + (d + 1)]
    BY <2>1, <2>2, <2>3
  <2> QED BY <2>1, <2>4
<1>3. j - i \in S
  <2> HIDE DEF S
  <2>1. j - i \in Nat
    OBVIOUS
  <2>2. 0..j - i \subseteq S
    BY <1>1, <1>2, <2>1, UpTo
  <2> QED BY <2>1, <2>2
<1>4. b[i] <= b[i + (j - i)] /\ i + (j - i) = j
  BY <1>3
<1> QED BY <1>4

-----------------------------------------------------------------------------
(* The median.                                                             *)

\* Sorted(s) has the samples of s, each once, the lightest first.
LEMMA SortedMoves ==
  ASSUME NEW T, NEW s \in Seq(T), \A i \in 1..Len(s) : s[i].mb \in Nat
  PROVE  /\ Sorted(s) \in Seq(T) /\ Len(Sorted(s)) = Len(s)
         /\ \E w : /\ Moves(w, 1..Len(s), s, Sorted(s))
                   /\ \A i \in 1..Len(s) - 1 : s[w[i]].mb <= s[w[i + 1]].mb
<1> DEFINE N == Len(s)
           a == [i \in 1..N |-> s[i].mb]
           w == CHOOSE w \in [1..N -> 1..N] : Sorts(s, w)
<1>1. N \in Nat /\ \A i \in 1..N : a[i] \in Nat
  OBVIOUS
<1>2. PICK v \in [1..N -> 1..N] : Orders(a, N, v)
  <2> HIDE DEF a, N
  <2> QED BY <1>1, OrderExists
<1>3. Sorts(s, v)
  <2>1. ASSUME NEW i \in 1..N - 1 PROVE s[v[i]].mb <= s[v[i + 1]].mb
    <3>1. i \in 1..N /\ i + 1 \in 1..N
      BY <1>1
    <3>2. v[i] \in 1..N /\ v[i + 1] \in 1..N
      BY <1>2, <3>1 DEF Orders
    <3>3. a[v[i]] <= a[v[i + 1]]
      BY <1>2 DEF Orders
    <3> QED BY <3>2, <3>3
  <2> QED BY <1>2, <2>1 DEF Orders, Sorts
<1>4. w \in [1..N -> 1..N] /\ Sorts(s, w)
  <2> HIDE DEF N
  <2> QED BY <1>3
<1>5. Sorted(s) = [i \in 1..N |-> s[w[i]]]
  BY DEF Sorted
<1> HIDE DEF w
<1>6. ASSUME NEW i \in 1..N PROVE s[w[i]] \in T
  <2>1. w[i] \in 1..N
    BY <1>4
  <2> QED BY <2>1
<1>7. Sorted(s) \in [1..N -> T]
  BY <1>5, <1>6
<1>8. Sorted(s) \in Seq(T) /\ Len(Sorted(s)) = N
  <2> HIDE DEF N
  <2> QED BY <1>1, <1>7
<1> QED BY <1>4, <1>5, <1>8 DEF Sorts, Moves

\* In a sequence that never falls, the place where the sum of the weights first reaches
\* half of them all has a median.
LEMMA HalfwayIsMedian ==
  ASSUME NEW T, NEW p \in Seq(T), p # << >>, \A i \in 1..Len(p) : p[i].mb \in Nat,
         \A i \in 1..Len(p) - 1 : p[i].mb <= p[i + 1].mb,
         NEW k \in 1..Len(p),
         2 * Accumulated(p)[k] >= Accumulated(p)[Len(p)],
         \A j \in 1..Len(p) : 2 * Accumulated(p)[j] >= Accumulated(p)[Len(p)] => k <= j
  PROVE  IsMedian(p[k].mb, p)
<1> DEFINE N == Len(p)
           W(i, j) == WeightOf(p, i..j)
           below == {i \in 1..N : p[i].mb < p[k].mb}
           above == {i \in 1..N : p[i].mb > p[k].mb}
<1>1. N \in Nat /\ k \in 0..N /\ k - 1 \in 0..N /\ N \in 0..N
  OBVIOUS
<1>2. /\ Accumulated(p)[k] = W(1, k) /\ Accumulated(p)[k - 1] = W(1, k - 1)
      /\ Accumulated(p)[N] = W(1, N)
  BY <1>1, AccumulatedIsWeight
<1>3. \A i, j \in 1..N : i <= j => p[i].mb <= p[j].mb
  <2> DEFINE b == [i \in 1..N |-> p[i].mb]
  <2>1. b \in [1..N -> Nat]
    OBVIOUS
  <2>2. \A i \in 1..N - 1 : b[i] <= b[i + 1]
    BY <1>1
  <2>3. \A i, j \in 1..N : i <= j => b[i] <= b[j]
    <3> HIDE DEF b, N
    <3> QED BY <1>1, <2>1, <2>2, Monotone
  <2> QED BY <2>3
<1>4. below \subseteq 1..k - 1 /\ above \subseteq k + 1..N
  <2> SUFFICES ASSUME NEW i \in 1..N
               PROVE  (i \in below => i \in 1..k - 1) /\ (i \in above => i \in k + 1..N)
    OBVIOUS
  <2>1. p[i].mb \in Nat /\ p[k].mb \in Nat /\ N \in Nat
    OBVIOUS
  <2>2. (k <= i => p[k].mb <= p[i].mb) /\ (i <= k => p[i].mb <= p[k].mb)
    BY <1>3
  <2> QED BY <2>1, <2>2
<1>5. \A i, j \in Int : IsFiniteSet(i..j)
  BY FS_Interval
<1>6. IsFiniteSet(1..k - 1) /\ IsFiniteSet(1..k) /\ IsFiniteSet(k + 1..N) /\ IsFiniteSet(1..N)
  <2>1. 1 \in Int /\ k \in Int /\ k - 1 \in Int /\ k + 1 \in Int /\ N \in Int
    BY <1>1
  <2> QED BY <1>5, <2>1
<1>7. /\ W(1, k - 1) \in Nat /\ W(1, k) \in Nat /\ W(k + 1, N) \in Nat /\ W(1, N) \in Nat
      /\ WeightOf(p, below) <= W(1, k - 1) /\ WeightOf(p, above) <= W(k + 1, N)
      /\ WeightOf(p, below) \in Nat /\ WeightOf(p, above) \in Nat
  <2>1. IsFiniteSet(below) /\ IsFiniteSet(above)
    <3> HIDE DEF below, above
    <3> QED BY <1>4, <1>6, FS_Subset
  <2> HIDE DEF below, above
  <2> QED BY <1>4, <1>6, <2>1, WeightOfNat, WeightOfPart
<1>8. W(1, N) = W(1, k) + W(k + 1, N)
  <2>1. 1..N = (1..k) \union (k + 1..N) /\ (1..k) \intersect (k + 1..N) = {}
    BY <1>1
  <2>2. WeightOf(p, (1..k) \union (k + 1..N)) = W(1, k) + W(k + 1, N)
    BY <1>6, <2>1, WeightOfSplit
  <2> QED BY <2>1, <2>2
<1>9. 2 * W(1, k - 1) <= W(1, N)
  <2>1. CASE k = 1
    <3>1. Accumulated(p)[k - 1] = 0
      BY <2>1, AccumulatedSteps
    <3> HIDE DEF W, N
    <3> QED BY <1>2, <1>7, <3>1
  <2>2. CASE k # 1
    <3>1. k - 1 \in 1..N /\ ~(k <= k - 1)
      BY <2>2
    <3>2. ~(2 * Accumulated(p)[k - 1] >= Accumulated(p)[N])
      BY <3>1
    <3> HIDE DEF W, N
    <3> QED BY <1>2, <1>7, <3>2
  <2> QED BY <2>1, <2>2
<1>10. 2 * W(1, k) >= W(1, N)
  BY <1>2
<1>11. /\ 2 * WeightOf(p, below) <= W(1, N) /\ 2 * WeightOf(p, above) <= W(1, N)
  <2> HIDE DEF W, N, below, above
  <2> QED BY <1>7, <1>8, <1>9, <1>10
<1> QED BY <1>11 DEF IsMedian

LEMMA MovedPlaces ==
  ASSUME NEW D, NEW w, {w[i] : i \in D} = D, NEW A \in SUBSET D, NEW B \in SUBSET D,
         \A i \in D : i \in A <=> w[i] \in B
  PROVE  {w[i] : i \in A} = B
  OBVIOUS

\* Moving the samples keeps a median one.
LEMMA MedianMoved ==
  ASSUME NEW D, IsFiniteSet(D), NEW s, NEW p, 1..Len(s) = D, 1..Len(p) = D,
         NEW w, Moves(w, D, s, p), NEW m, IsMedian(m, p)
  PROVE  IsMedian(m, s)
<1> DEFINE Image(I) == {w[i] : i \in I}
<1>0. w \in [D -> D] /\ (\A i, j \in D : w[i] = w[j] => i = j) /\ \A i \in D : p[i] = s[w[i]]
  BY DEF Moves
<1>1. Image(D) = D
  <2>1. D \in SUBSET D
    OBVIOUS
  <2>2. Cardinality(Image(D)) = Cardinality(D)
    BY <1>0, <2>1, SameCardinality
  <2>3. Image(D) \in SUBSET D
    BY <1>0
  <2> HIDE DEF Image
  <2> QED BY <2>2, <2>3, FS_Subset
<1>2. ASSUME NEW I \in SUBSET D PROVE WeightOf(p, I) = WeightOf(s, Image(I))
  BY WeightOfMoved
<1>3. \A i \in D : w[i] \in D /\ p[i].mb = s[w[i]].mb
  BY <1>0
<1>4. /\ Image({i \in D : p[i].mb < m}) = {i \in D : s[i].mb < m}
      /\ Image({i \in D : p[i].mb > m}) = {i \in D : s[i].mb > m}
  <2> DEFINE A == {i \in D : p[i].mb < m}
             B == {i \in D : s[i].mb < m}
             C == {i \in D : p[i].mb > m}
             E == {i \in D : s[i].mb > m}
  <2>1. A \in SUBSET D /\ B \in SUBSET D /\ C \in SUBSET D /\ E \in SUBSET D
    OBVIOUS
  <2>2. \A i \in D : (i \in A <=> w[i] \in B) /\ (i \in C <=> w[i] \in E)
    BY <1>3
  <2> HIDE DEF A, B, C, E
  <2>3. Image(A) = B /\ Image(C) = E
    BY <1>1, <2>1, <2>2, MovedPlaces
  <2> QED BY <2>3 DEF A, B, C, E
<1>5. /\ WeightOf(p, {i \in D : p[i].mb < m}) = WeightOf(s, {i \in D : s[i].mb < m})
      /\ WeightOf(p, {i \in D : p[i].mb > m}) = WeightOf(s, {i \in D : s[i].mb > m})
      /\ WeightOf(p, D) = WeightOf(s, D)
  <2>1. {i \in D : p[i].mb < m} \in SUBSET D /\ {i \in D : p[i].mb > m} \in SUBSET D
        /\ D \in SUBSET D
    OBVIOUS
  <2> HIDE DEF Image
  <2> QED BY <1>1, <1>2, <1>4, <2>1
<1>6. \E i \in D : s[i].mb = m
  <2>1. PICK i \in D : p[i].mb = m
    BY DEF IsMedian
  <2>2. w[i] \in D /\ s[w[i]].mb = m
    BY <1>3, <2>1
  <2> QED BY <2>2
<1> QED BY <1>5, <1>6 DEF IsMedian

\* What _weighted_median returns for any samples that are not empty is a sample with at
\* most half of the weight below it and at most half above it, however weights tie.
THEOREM WeightedMedianIsMedian ==
  ASSUME NEW T, NEW s \in Seq(T), s # << >>, \A i \in 1..Len(s) : s[i].mb \in Nat
  PROVE  IsMedian(WeightedMedian(s), s)
<1> DEFINE N == Len(s)
           p == Sorted(s)
           acc == Accumulated(p)
           halfway == {i \in 1..Len(p) : 2 * acc[i] >= acc[Len(p)]}
           k == CHOOSE i \in halfway : \A j \in halfway : i <= j
<1>1. p \in Seq(T) /\ Len(p) = N
  BY SortedMoves
<1>2. PICK w : Moves(w, 1..N, s, p) /\ \A i \in 1..N - 1 : s[w[i]].mb <= s[w[i + 1]].mb
  BY SortedMoves
<1> HIDE DEF p
<1>3. N \in Nat /\ N # 0
  OBVIOUS
<1>4. /\ \A i \in 1..Len(p) : p[i].mb \in Nat
      /\ \A i \in 1..Len(p) - 1 : p[i].mb <= p[i + 1].mb
  <2>1. \A i \in 1..N : w[i] \in 1..N /\ p[i] = s[w[i]]
    BY <1>2 DEF Moves
  <2>2. \A i \in 1..N : p[i].mb \in Nat
    BY <2>1
  <2>3. \A i \in 1..N - 1 : i \in 1..N /\ i + 1 \in 1..N
    BY <1>3
  <2>4. \A i \in 1..N - 1 : p[i].mb <= p[i + 1].mb
    BY <1>2, <2>1, <2>3
  <2> QED BY <1>1, <2>2, <2>4
<1>5. halfway \in SUBSET Nat /\ halfway # {}
  <2>1. Len(p) \in 1..Len(p) /\ Len(p) \in 0..Len(p)
    BY <1>1, <1>3
  <2>2. acc[Len(p)] \in Nat
    <3>1. 1 \in Int /\ Len(p) \in Int
      BY <1>1
    <3>2. IsFiniteSet(1..Len(p))
      BY <3>1, FS_Interval
    <3>3. acc[Len(p)] = WeightOf(p, 1..Len(p))
      BY <1>1, <2>1, AccumulatedIsWeight
    <3> QED BY <3>2, <3>3, WeightOfNat
  <2>3. Len(p) \in halfway
    <3> HIDE DEF acc
    <3> QED BY <2>1, <2>2
  <2>4. halfway \in SUBSET 1..Len(p) /\ 1..Len(p) \in SUBSET Nat
    OBVIOUS
  <2> HIDE DEF halfway
  <2> QED BY <2>3, <2>4
<1>6. k \in halfway /\ \A j \in halfway : k <= j
  <2>1. \E i \in halfway : \A j \in halfway : i <= j
    <3> HIDE DEF halfway
    <3> QED BY <1>5, LeastElement
  <2> HIDE DEF halfway
  <2> QED BY <2>1
<1>7. WeightedMedian(s) = p[k].mb
  BY DEF WeightedMedian, p
<1> HIDE DEF k
<1>8. k \in 1..Len(p) /\ 2 * acc[k] >= acc[Len(p)]
      /\ \A j \in 1..Len(p) : 2 * acc[j] >= acc[Len(p)] => k <= j
  BY <1>6
<1>9. p # << >>
  BY <1>1, <1>3
<1>10. IsMedian(p[k].mb, p)
  BY <1>1, <1>4, <1>8, <1>9, HalfwayIsMedian
<1>11. IsMedian(p[k].mb, s)
  <2>1. 1 \in Int /\ N \in Int
    OBVIOUS
  <2>2. IsFiniteSet(1..N) /\ 1..Len(p) = 1..N
    BY <1>1, <2>1, FS_Interval
  <2> QED BY <1>2, <1>10, <2>2, MedianMoved
<1> QED BY <1>7, <1>11

\* The median is the weight of one of the samples, and there is none without samples.
LEMMA MedianIsSample ==
  ASSUME NEW T, NEW s \in Seq(T), \A i \in 1..Len(s) : s[i].mb \in Nat
  PROVE  /\ s = << >> => WeightedMedian(s) = None
         /\ s # << >> => /\ WeightedMedian(s) \in Nat /\ WeightedMedian(s) # None
                         /\ \E i \in 1..Len(s) : s[i].mb = WeightedMedian(s)
<1>1. s = << >> => WeightedMedian(s) = None
  BY DEF WeightedMedian
<1>2. ASSUME s # << >> PROVE \E i \in 1..Len(s) : s[i].mb = WeightedMedian(s)
  <2>1. IsMedian(WeightedMedian(s), s)
    BY <1>2, WeightedMedianIsMedian
  <2> QED BY <2>1 DEF IsMedian
<1> QED BY <1>1, <1>2, NoFigureIsNoNat

\* The samples of a host are samples.
LEMMA FreshOf ==
  ASSUME NEW T, NEW s \in Seq(T), NEW h
  PROVE  Fresh(s, h) \in Seq({x \in T : x.host = h})
<1> DEFINE N == Len(s)
           V == Seq({x \in T : x.host = h})
           step == [n \in 1..N |-> [x \in V |-> IF s[n].host = h THEN Append(x, s[n]) ELSE x]]
<1>1. N \in Nat /\ << >> \in V
  OBVIOUS
<1>2. step \in [1..N -> [V -> V]]
  <2> SUFFICES ASSUME NEW n \in 1..N, NEW x \in V
               PROVE  (IF s[n].host = h THEN Append(x, s[n]) ELSE x) \in V
    OBVIOUS
  <2>1. s[n] \in T
    OBVIOUS
  <2>2. CASE s[n].host = h
    <3>1. s[n] \in {y \in T : y.host = h}
      BY <2>1, <2>2
    <3> QED BY <2>2, <3>1
  <2>3. CASE s[n].host # h
    BY <2>3
  <2> QED BY <2>2, <2>3
<1>3. PICK f \in [0..N -> V] : Steps(f, N, << >>, step)
  <2> HIDE DEF step, N, V
  <2> QED BY <1>1, <1>2, Recursion
<1>4. f[0] = << >>
  BY <1>3 DEF Steps
<1>5. ASSUME NEW n \in 1..N
      PROVE  f[n] = IF s[n].host = h THEN Append(f[n - 1], s[n]) ELSE f[n - 1]
  <2>1. f[n - 1] \in V
    <3>1. n - 1 \in 0..N
      BY <1>1
    <3> HIDE DEF step, N, V
    <3> QED BY <3>1
  <2>2. f[n] = step[n][f[n - 1]]
    BY <1>3 DEF Steps
  <2> HIDE DEF V, N
  <2> QED BY <2>1, <2>2
<1> HIDE DEF step
<1> DEFINE Of(g) == [n \in 0..N |->
                       IF n = 0 THEN << >>
                       ELSE IF s[n].host = h THEN Append(g[n - 1], s[n]) ELSE g[n - 1]]
           kept == CHOOSE g : g = Of(g)
<1>6. f = Of(f)
  <2>1. f \in [0..N -> V]
    OBVIOUS
  <2>2. \A n \in 0..N : n # 0 => n \in 1..N
    BY <1>1
  <2>3. \A n \in 0..N : f[n] = Of(f)[n]
    <3> HIDE DEF V, N
    <3> QED BY <1>4, <1>5, <2>2
  <2> HIDE DEF V, N
  <2> QED BY <2>1, <2>3
<1>7. kept = Of(kept)
  <2> HIDE DEF Of
  <2> QED BY <1>6
<1>8. Fresh(s, h) = kept[N]
  BY DEF Fresh
<1> HIDE DEF kept
<1> DEFINE S == {n \in 0..N : kept[n] \in V}
<1>9. 0 \in S
  <2>1. kept[0] = << >> /\ 0 \in 0..N
    BY <1>1, <1>7
  <2> HIDE DEF V
  <2> QED BY <1>1, <2>1
<1>10. ASSUME NEW n \in 0..N - 1, n \in S PROVE n + 1 \in S
  <2>1. n + 1 \in 0..N /\ n + 1 \in 1..N /\ n + 1 # 0 /\ (n + 1) - 1 = n
    BY <1>1
  <2>2. kept[n + 1] = IF s[n + 1].host = h THEN Append(kept[n], s[n + 1]) ELSE kept[n]
    <3> HIDE DEF N
    <3> QED BY <1>7, <2>1
  <2>3. kept[n] \in V /\ s[n + 1] \in T
    BY <1>10, <2>1
  <2>4. CASE s[n + 1].host = h
    <3>1. s[n + 1] \in {x \in T : x.host = h}
      BY <2>3, <2>4
    <3>2. kept[n + 1] \in V
      BY <2>2, <2>3, <2>4, <3>1
    <3> QED BY <2>1, <3>2
  <2>5. CASE s[n + 1].host # h
    BY <2>1, <2>2, <2>3, <2>5
  <2> QED BY <2>4, <2>5
<1>11. N \in S
  <2> HIDE DEF S
  <2>1. 0..N \subseteq S
    <3> HIDE DEF N
    <3> QED BY <1>1, <1>9, <1>10, UpTo
  <2> QED BY <1>1, <2>1
<1> QED BY <1>8, <1>11

-----------------------------------------------------------------------------
(* The estimate.                                                           *)

LEMMA ProductsGrow ==
  ASSUME NEW m \in Nat, NEW n \in Nat, NEW k \in Nat, m <= n
  PROVE  k * m \in Nat /\ k * n \in Nat /\ k * m <= k * n
<1>1. n - m \in Nat /\ k * (n - m) \in Nat /\ k * n = k * m + k * (n - m)
  OBVIOUS
<1> QED BY <1>1

\* Rounding moves by half at most.
LEMMA RoundedNear ==
  ASSUME NEW n \in Nat, NEW d \in Nat \ {0}
  PROVE  /\ Rounded(n, d) \in Nat
         /\ 2 * (d * Rounded(n, d)) <= 2 * n + d
         /\ 2 * n <= 2 * (d * Rounded(n, d)) + d
<1> DEFINE a == 2 * n + d
           b == 2 * d
           q == a \div b
<1>1. a \in Nat /\ b \in Nat \ {0}
  OBVIOUS
<1>2. q \in Nat /\ b * q <= a /\ a < b * q + b
  <2> HIDE DEF a, b
  <2> QED BY <1>1
<1>3. b * q = 2 * (d * q)
  BY <1>2
<1>4. d * q \in Nat
  BY <1>2
<1>5. Rounded(n, d) = q
  BY DEF Rounded
<1> HIDE DEF q
<1> QED BY <1>2, <1>3, <1>4, <1>5

\* What is rounded stays on its side of every whole number.
LEMMA RoundedKeepsOrder ==
  ASSUME NEW n \in Nat, NEW m \in Nat
  PROVE  /\ Rounded(n, 100) \in Nat
         /\ n <= 100 * m => Rounded(n, 100) <= m
         /\ 100 * m <= n => m <= Rounded(n, 100)
  BY DEF Rounded

\* The files and the cache are rounded to a tenth of a MB: by half of one at most.
LEMMA TenthsNear ==
  ASSUME NEW bytes \in Nat
  PROVE  /\ Tenths(bytes) \in Nat
         /\ 2 * (Megabyte * Tenths(bytes)) <= 2 * (10 * bytes) + Megabyte
         /\ 2 * (10 * bytes) <= 2 * (Megabyte * Tenths(bytes)) + Megabyte
  BY MegabytePositive, RoundedNear DEF Tenths

\* A component that is known.
Known(c) == c.source \in {"declared", "computed"} /\ c.mb \in Nat

\* A cost that is finite, and all zero when it is unknown.
Closed(e) == e.high <= 10 * Huge /\ (e.confidence = "unknown" => e.low = 0 /\ e.high = 0)

\* A cost that contains what is expected, and the peak on top of it.
Contains(e, mb, peak) == e.low <= mb /\ mb + peak <= e.high

LEMMA FailClosedOf ==
  ASSUME NEW low \in Nat, NEW high \in Nat, NEW confidence, confidence # "unknown",
         NEW mb \in Nat, NEW peak \in Nat, low <= 100 * mb, 100 * (mb + peak) <= high
  PROVE  LET e == FailClosed(low, high, confidence)
         IN /\ Closed(e)
            /\ e.confidence \in {confidence, "unknown"}
            /\ e.confidence # "unknown" => Contains(e, mb, peak) /\ high <= 1000 * Huge
<1>1. CASE low <= 1000 * Huge /\ high <= 1000 * Huge
  <2>1. FailClosed(low, high, confidence)
          = Cost(Rounded(low, 100), Rounded(high, 100), confidence)
    BY <1>1 DEF FailClosed
  <2>2. Rounded(low, 100) <= mb
    BY RoundedKeepsOrder
  <2>3. mb + peak <= Rounded(high, 100)
    BY RoundedKeepsOrder
  <2>4. Rounded(high, 100) <= 10 * Huge
    BY <1>1, HugeIsNat, RoundedKeepsOrder
  <2> QED BY <1>1, <2>1, <2>2, <2>3, <2>4 DEF Cost, Closed, Contains
<1>2. CASE ~(low <= 1000 * Huge /\ high <= 1000 * Huge)
  BY <1>2, HugeIsNat DEF FailClosed, Cost, Closed
<1> QED BY <1>1, <1>2

LEMMA PeakNat ==
  ASSUME NEW f \in Figures
  PROVE  Peak(f) \in Nat
  BY DEF Figures, Peak

\* What a median makes of the estimate.
LEMMA MeasuredOf ==
  ASSUME NEW f \in Figures, NEW median \in Nat
  PROVE  LET e == Measured(f, median)
         IN /\ Closed(e)
            /\ e.confidence \in {"measured", "unknown"}
            /\ e.confidence # "unknown" => Contains(e, median, Peak(f))
<1> DEFINE low == (100 - Band.measured) * median
           high == (100 + Band.measured) * median + 100 * Peak(f)
<1>1. Peak(f) \in Nat
  BY PeakNat
<1>2. /\ low \in Nat /\ high \in Nat
      /\ low <= 100 * median /\ 100 * (median + Peak(f)) <= high
  BY <1>1 DEF Band
<1>3. Measured(f, median) = FailClosed(low, high, "measured")
  BY DEF Measured
<1> HIDE DEF low, high
<1>4. "measured" # "unknown"
  OBVIOUS
<1> QED BY <1>1, <1>2, <1>3, <1>4, FailClosedOf

\* The weight of the files, as declared or as sized.
WeightsOf(f) ==
  IF f.weights # None THEN Megabyte * f.weights
  ELSE 10 * (f.model + IF f.mmproj = None THEN 0 ELSE f.mmproj)

\* The tokens of the context that the runtime takes.
ContextOf(f) == IF f.flags # << >> THEN f.flags[Len(f.flags)] ELSE f.ctx

\* A footprint that stands for one in tenths of a byte, rounded to a tenth of a MB.
Near(mb, exact) ==
  /\ exact \in Nat
  /\ 2 * (Megabyte * mb) <= 2 * exact + Megabyte
  /\ 2 * exact <= 2 * (Megabyte * mb) + Megabyte

\* Weights, cache and overhead are unknown, or known for a configuration that starts; or
\* the cache is infinite.
LEMMA ComponentsOf ==
  ASSUME NEW f \in Figures
  PROVE  /\ \/ WeightsComponent(f) = Unknown
            \/ /\ Known(WeightsComponent(f)) /\ Near(WeightsComponent(f).mb, WeightsOf(f))
               /\ f.weights = None => f.model \notin {None, Missing} /\ f.mmproj # Missing
         /\ \/ KvComponent(f) = Unknown
            \/ /\ Known(KvComponent(f))
               /\ \/ KvComponent(f) = Component(Infinite, "declared")
                  \/ Near(KvComponent(f).mb, 10 * (f.kvPerToken * ContextOf(f)))
               /\ IF f.flags # << >> THEN f.flags[Len(f.flags)] # 0 ELSE f.ctx # None
         /\ Known(OverheadComponent(f))
<1>1. /\ f.weights \in Nat \union {None} /\ f.model \in Nat \union {None, Missing}
      /\ f.mmproj \in Nat \union {None, Missing} /\ f.kvPerToken \in Nat \union {None}
      /\ f.flags \in Seq(Nat) /\ f.ctx \in Nat \union {None}
      /\ f.overhead \in Nat \union {None}
  BY DEF Figures
<1>2. \/ WeightsComponent(f) = Unknown
      \/ /\ Known(WeightsComponent(f)) /\ Near(WeightsComponent(f).mb, WeightsOf(f))
         /\ f.weights = None => f.model \notin {None, Missing} /\ f.mmproj # Missing
  <2>1. CASE f.weights # None
    <3>1. WeightsComponent(f) = Component(f.weights, "declared") /\ f.weights \in Nat
      BY <1>1, <2>1 DEF WeightsComponent
    <3>2. WeightsOf(f) = Megabyte * f.weights /\ Megabyte * f.weights \in Nat
      BY <2>1, <3>1, MegabytePositive DEF WeightsOf
    <3>3. Near(f.weights, WeightsOf(f))
      BY <3>2, MegabytePositive DEF Near
    <3> QED BY <2>1, <3>1, <3>3 DEF Component, Known
  <2>2. CASE f.weights = None /\ f.model \notin {None, Missing} /\ f.mmproj # Missing
    <3> DEFINE bytes == f.model + IF f.mmproj = None THEN 0 ELSE f.mmproj
    <3>1. WeightsComponent(f) = Component(Tenths(bytes), "computed")
      BY <2>2 DEF WeightsComponent
    <3>2. WeightsOf(f) = 10 * bytes /\ bytes \in Nat
      BY <1>1, <2>2 DEF WeightsOf
    <3> HIDE DEF bytes
    <3>3. Tenths(bytes) \in Nat /\ Near(Tenths(bytes), WeightsOf(f))
      BY <3>2, TenthsNear DEF Near
    <3> QED BY <2>2, <3>1, <3>3 DEF Component, Known
  <2>3. CASE f.weights = None /\ ~(f.model \notin {None, Missing} /\ f.mmproj # Missing)
    BY <2>3 DEF WeightsComponent
  <2> QED BY <2>1, <2>2, <2>3
<1>3. \/ KvComponent(f) = Unknown
      \/ /\ Known(KvComponent(f))
         /\ \/ KvComponent(f) = Component(Infinite, "declared")
            \/ Near(KvComponent(f).mb, 10 * (f.kvPerToken * ContextOf(f)))
         /\ IF f.flags # << >> THEN f.flags[Len(f.flags)] # 0 ELSE f.ctx # None
  <2>1. CASE f.kvPerToken = None \/ Context(f) = None
    BY <2>1 DEF KvComponent
  <2>2. CASE f.kvPerToken # None /\ Context(f) # None
    <3> DEFINE bytes == f.kvPerToken * Context(f)
    <3>1. f.flags # << >> => f.flags[Len(f.flags)] \in Nat
      BY <1>1
    <3>2. /\ Context(f) = ContextOf(f) /\ Context(f) \in Nat
          /\ IF f.flags # << >> THEN f.flags[Len(f.flags)] # 0 ELSE f.ctx # None
      BY <1>1, <2>2, <3>1 DEF CtxSize, Context, ContextOf
    <3>3. KvComponent(f)
            = Component(IF bytes <= Huge THEN Tenths(bytes) ELSE Infinite, "declared")
      BY <2>2 DEF KvComponent
    <3>4. bytes \in Nat /\ bytes = f.kvPerToken * ContextOf(f)
      BY <1>1, <2>2, <3>2
    <3> HIDE DEF bytes
    <3>5. CASE bytes <= Huge
      <4>1. Tenths(bytes) \in Nat /\ Near(Tenths(bytes), 10 * bytes)
        BY <3>4, TenthsNear DEF Near
      <4> QED BY <3>2, <3>3, <3>4, <3>5, <4>1 DEF Component, Known
    <3>6. CASE ~(bytes <= Huge)
      <4>1. Infinite \in Nat
        BY HugeIsNat DEF Infinite
      <4> QED BY <3>2, <3>3, <3>6, <4>1 DEF Component, Known
    <3> QED BY <3>5, <3>6
  <2> QED BY <2>1, <2>2
<1>4. Known(OverheadComponent(f))
  BY <1>1 DEF OverheadComponent, Component, Known, LlamacppOverhead, GenericOverhead
<1> QED BY <1>2, <1>3, <1>4

\* The bounds of a known component are around it.
LEMMA BoundsOf ==
  ASSUME NEW c, Known(c)
  PROVE  LowOf(c) \in Nat /\ HighOf(c) \in Nat /\ LowOf(c) <= 100 * c.mb /\ 100 * c.mb <= HighOf(c)
<1>1. c.mb \in Nat /\ Band[c.source] \in {20, 35}
  BY DEF Known, Band
<1> QED BY <1>1 DEF LowOf, HighOf

\* What an estimate has to contain: to a tenth of a MB.
Covers(e, exact, peak) ==
  /\ Megabyte * e.low <= exact + Megabyte
  /\ exact + Megabyte * peak <= Megabyte * e.high + Megabyte

\* Two roundings move a sum by a tenth of a MB at most.
LEMMA NearCovers ==
  ASSUME NEW w \in Nat, NEW k \in Nat, NEW o \in Nat, NEW x, NEW y, Near(w, x), Near(k, y),
         NEW e, NEW peak \in Nat, e.low \in Nat, e.high \in Nat, Contains(e, w + k + o, peak)
  PROVE  Covers(e, x + y + Megabyte * o, peak)
<1>0. Megabyte \in Nat
  BY MegabytePositive
<1>1. Megabyte * e.low <= Megabyte * (w + k + o)
  BY <1>0, ProductsGrow DEF Contains
<1>2. Megabyte * (w + k + o + peak) <= Megabyte * e.high
  BY <1>0, ProductsGrow DEF Contains
<1>3. /\ Megabyte * (w + k + o) = Megabyte * w + Megabyte * k + Megabyte * o
      /\ Megabyte * (w + k + o + peak)
           = Megabyte * w + Megabyte * k + Megabyte * o + Megabyte * peak
  BY <1>0
<1>4. /\ Megabyte * w \in Nat /\ Megabyte * k \in Nat /\ Megabyte * o \in Nat
      /\ Megabyte * peak \in Nat /\ Megabyte * e.low \in Nat /\ Megabyte * e.high \in Nat
  BY <1>0
<1> QED BY <1>0, <1>1, <1>2, <1>3, <1>4 DEF Near, Covers

\* What the components make of the estimate.
LEMMA DecomposedOf ==
  ASSUME NEW f \in Figures
  PROVE  LET e == Decomposed(f)
         IN /\ Closed(e)
            /\ e.confidence \in {"declared", "computed", "unknown"}
            /\ e.confidence # "unknown"
                 => /\ Starts(f)
                    /\ Covers(e, WeightsOf(f) + 10 * (f.kvPerToken * ContextOf(f))
                                   + Megabyte * OverheadComponent(f).mb, Peak(f))
<1> DEFINE e == Decomposed(f)
           w == WeightsComponent(f)
           k == KvComponent(f)
           o == OverheadComponent(f)
           confidence == Worse(w.source, Worse(k.source, o.source))
<1>1. Known(o) /\ Peak(f) \in Nat
  BY ComponentsOf, PeakNat
<1>2. CASE w = Unknown \/ k = Unknown
  <2>1. confidence = "unknown"
    <3>1. w.source \in {"declared", "computed", "unknown"}
          /\ k.source \in {"declared", "computed", "unknown"}
          /\ o.source \in {"declared", "computed"}
      BY ComponentsOf DEF Known, Unknown, Component
    <3>2. w.source = "unknown" \/ k.source = "unknown"
      BY <1>2 DEF Unknown, Component
    <3> HIDE DEF w, k, o
    <3> QED BY <3>1, <3>2 DEF Worse, Ranks
  <2>2. e = Cost(0, 0, "unknown")
    BY <2>1 DEF Decomposed
  <2> HIDE DEF e
  <2>3. Closed(e) /\ e.confidence = "unknown"
    BY <2>2, HugeIsNat DEF Closed, Cost
  <2> QED BY <2>3 DEF e
<1>3. CASE w # Unknown /\ k # Unknown
  <2> DEFINE low == LowOf(w) + LowOf(k) + LowOf(o)
             high == HighOf(w) + HighOf(k) + HighOf(o) + 100 * Peak(f)
             mb == w.mb + k.mb + o.mb
             x == WeightsOf(f)
             y == 10 * (f.kvPerToken * ContextOf(f))
  <2>1. /\ Known(w) /\ Near(w.mb, x) /\ Known(k) /\ Starts(f)
        /\ k = Component(Infinite, "declared") \/ Near(k.mb, y)
    BY <1>3, ComponentsOf DEF Starts
  <2>2. confidence \in {"declared", "computed"}
    <3>1. {w.source, k.source, o.source} \subseteq {"declared", "computed"}
      BY <1>1, <2>1 DEF Known
    <3> HIDE DEF w, k, o
    <3> QED BY <3>1 DEF Worse, Ranks
  <2>3. e = FailClosed(low, high, confidence)
    BY <2>2 DEF Decomposed
  <2>4. /\ low \in Nat /\ high \in Nat /\ mb \in Nat /\ HighOf(k) <= high
        /\ low <= 100 * mb /\ 100 * (mb + Peak(f)) <= high
        /\ w.mb \in Nat /\ k.mb \in Nat /\ o.mb \in Nat
    <3> HIDE DEF w, k, o
    <3>1. /\ LowOf(w) \in Nat /\ HighOf(w) \in Nat /\ LowOf(w) <= 100 * w.mb
          /\ 100 * w.mb <= HighOf(w) /\ w.mb \in Nat
      BY <2>1, BoundsOf DEF Known
    <3>2. /\ LowOf(k) \in Nat /\ HighOf(k) \in Nat /\ LowOf(k) <= 100 * k.mb
          /\ 100 * k.mb <= HighOf(k) /\ k.mb \in Nat
      BY <2>1, BoundsOf DEF Known
    <3>3. /\ LowOf(o) \in Nat /\ HighOf(o) \in Nat /\ LowOf(o) <= 100 * o.mb
          /\ 100 * o.mb <= HighOf(o) /\ o.mb \in Nat
      BY <1>1, BoundsOf DEF Known
    <3> QED BY <1>1, <3>1, <3>2, <3>3
  <2>5. confidence # "unknown"
    BY <2>2
  <2>6. k = Component(Infinite, "declared") => high > 1000 * Huge
    <3>1. k = Component(Infinite, "declared") => HighOf(k) = 120 * Infinite
      BY DEF HighOf, Component, Band
    <3> HIDE DEF high, k
    <3> QED BY <2>4, <3>1, HugeIsNat DEF Infinite
  <2> HIDE DEF low, high, confidence, e, w, k, o
  <2>7. /\ Closed(e) /\ e.confidence \in {confidence, "unknown"}
        /\ e.confidence # "unknown" => Contains(e, mb, Peak(f)) /\ high <= 1000 * Huge
    BY <1>1, <2>3, <2>4, <2>5, FailClosedOf
  <2>8. e.low \in Nat /\ e.high \in Nat
    BY <2>3, <2>4, RoundedKeepsOrder DEF FailClosed, Cost
  <2>9. ASSUME e.confidence # "unknown" PROVE Covers(e, x + y + Megabyte * o.mb, Peak(f))
    <3>1. Near(k.mb, y)
      BY <2>1, <2>4, <2>6, <2>7, <2>9, HugeIsNat
    <3> HIDE DEF x, y
    <3> QED BY <1>1, <2>1, <2>4, <2>7, <2>8, <2>9, <3>1, NearCovers
  <2>10. /\ Closed(e) /\ e.confidence \in {"declared", "computed", "unknown"}
         /\ e.confidence # "unknown"
              => Starts(f) /\ Covers(e, x + y + Megabyte * o.mb, Peak(f))
    BY <2>1, <2>2, <2>7, <2>9
  <2> QED BY <2>10 DEF e, o
<1> QED BY <1>2, <1>3
=============================================================================
