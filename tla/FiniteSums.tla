----------------------------- MODULE FiniteSums -----------------------------
(***************************************************************************)
(* Induction and sums over finite sets, as the proofs need them: a sum is  *)
(* that of MapThenSumSet, which takes the elements one by one.             *)
(***************************************************************************)
EXTENDS Integers, FiniteSets, FiniteSetsExt, FiniteSetTheorems, TLAPS

\* Every set of natural numbers that is not empty has a least one.
LEMMA LeastNat ==
    ASSUME NEW T \in SUBSET Nat, T # {}
    PROVE  \E n \in T : \A m \in T : n <= m
<1>1. \A m, n \in Nat : <<m, n>> \in OpToRel(<, Nat) <=> m < n
  BY DEF OpToRel
<1>2. \E R : IsWellFoundedOn(R, Nat) /\ \A m, n \in Nat : <<m, n>> \in R <=> m < n
  BY <1>1, NatLessThanWellFounded, Zenon
<1>3. PICK R : IsWellFoundedOn(R, Nat) /\ \A m, n \in Nat : <<m, n>> \in R <=> m < n
  BY <1>2
<1>4. IsWellFoundedOn(R, Nat) /\ T \subseteq Nat
  BY <1>3
<1>5. PICK n \in T : \A m \in T : ~(<<m, n>> \in R)
  BY <1>4, WFMin
<1>6. \A m \in T : m \in Nat /\ n \in Nat /\ ~(m < n)
  BY <1>3, <1>4, <1>5, Zenon
<1>. QED  BY <1>6

\* Of the subsets of a finite set in a family that is not empty one has no
\* other of the family in it.
LEMMA LeastSubset ==
    ASSUME NEW S, IsFiniteSet(S), NEW T \in SUBSET (SUBSET S), T # {}
    PROVE  \E U \in T : \A V \in T : V \subseteq U => V = U
<1>. DEFINE R == StrictSubsetOrdering(S)
<1>1. IsWellFoundedOn(R, SUBSET S)
  BY FS_StrictSubsetOrderingWellFounded, FS_FiniteSubsetsOfFinite
<1>2. \A U, V \in SUBSET S : <<V, U>> \in R <=> V \subseteq U /\ V # U
  BY DEF StrictSubsetOrdering
<1>. HIDE DEF R
<1>3. PICK U \in T : \A V \in T : ~(<<V, U>> \in R)
  BY <1>1, WFMin
<1>. QED  BY <1>2, <1>3

----------------------------------------------------------------------------
\* The element that a sum takes first.
First(s) == CHOOSE x \in s : TRUE

\* i gives the sum of f over every subset of S.
IsSum(i, f, S) ==
    i = [s \in SUBSET S |-> IF s = {} THEN 0 ELSE f[First(s)] + i[s \ {First(s)}]]

LEMMA FirstFact ==
    ASSUME NEW S, NEW s \in SUBSET S, s # {}
    PROVE  First(s) \in s /\ s \ {First(s)} \in SUBSET S
BY DEF First

Adds(i, f, S) ==
    \A s \in SUBSET S : i[s] = IF s = {} THEN 0 ELSE f[First(s)] + i[s \ {First(s)}]

LEMMA SumStep ==
    ASSUME NEW S, NEW f, NEW i, IsSum(i, f, S)
    PROVE  Adds(i, f, S)
<1>. SUFFICES ASSUME NEW s \in SUBSET S
              PROVE  i[s] = IF s = {} THEN 0 ELSE f[First(s)] + i[s \ {First(s)}]
  BY DEF Adds
<1>. DEFINE sum == [t \in SUBSET S |-> IF t = {} THEN 0 ELSE f[First(t)] + i[t \ {First(t)}]]
<1>1. i = sum
  BY DEF IsSum
<1>2. sum[s] = IF s = {} THEN 0 ELSE f[First(s)] + i[s \ {First(s)}]
  OBVIOUS
<1>. HIDE DEF sum
<1>3. i[s] = sum[s]
  BY <1>1
<1>. QED  BY <1>2, <1>3

\* There is a sum over every finite set.
LEMMA SumExists ==
    ASSUME NEW S, IsFiniteSet(S), NEW f
    PROVE  \E i : IsSum(i, f, S)
<1>. DEFINE Upto(i, n) == \A s \in SUBSET S : Cardinality(s) <= n =>
                            i[s] = IF s = {} THEN 0 ELSE f[First(s)] + i[s \ {First(s)}]
            Has(n) == \E i : Upto(i, n)
            T == {n \in Nat : ~Has(n)}
<1>1. \A s \in SUBSET S : /\ Cardinality(s) \in Nat /\ (Cardinality(s) = 0 <=> s = {})
                          /\ Cardinality(s) <= Cardinality(S)
  BY FS_Subset, FS_CardinalityType, FS_EmptySet
<1>2. \A s \in SUBSET S : s # {} =>
         /\ First(s) \in s /\ s \ {First(s)} \in SUBSET S
         /\ Cardinality(s \ {First(s)}) = Cardinality(s) - 1
  BY FS_Subset, FS_RemoveElement, FirstFact
<1>3. Has(0)
  <2>1. Upto([s \in SUBSET S |-> 0], 0)
    BY <1>1
  <2>. QED  BY <2>1
<1>4. ASSUME NEW n \in Nat, Has(n) PROVE Has(n + 1)
  <2>1. PICK i : Upto(i, n)
    BY <1>4
  <2>. DEFINE j == [s \in SUBSET S |-> IF s = {} THEN 0 ELSE f[First(s)] + i[s \ {First(s)}]]
  <2>2. \A s \in SUBSET S : Cardinality(s) <= n => j[s] = i[s]
    BY <2>1
  <2>3. ASSUME NEW s \in SUBSET S, Cardinality(s) <= n + 1, s # {}
        PROVE  j[s \ {First(s)}] = i[s \ {First(s)}]
    <3>1. Cardinality(s \ {First(s)}) <= n /\ s \ {First(s)} \in SUBSET S
      BY <1>1, <1>2, <2>3
    <3>. QED  BY <2>2, <3>1
  <2>4. Upto(j, n + 1)
    BY <2>3
  <2>. QED  BY <2>4
<1>. HIDE DEF Has
<1>5. T = {}
  <2>1. SUFFICES ASSUME T # {} PROVE FALSE
    OBVIOUS
  <2>2. PICK n \in T : \A m \in T : n <= m
    BY <2>1, LeastNat
  <2>3. n \in Nat /\ ~Has(n) /\ n # 0
    BY <1>3, <2>2
  <2>4. n - 1 \in Nat /\ n - 1 \notin T
    BY <2>2, <2>3
  <2>5. Has(n - 1) /\ (n - 1) + 1 = n
    BY <2>3, <2>4
  <2>. QED  BY <1>4, <2>3, <2>4, <2>5
<1>6. Has(Cardinality(S))
  BY <1>1, <1>5
<1>. USE DEF Has
<1>7. PICK i : Upto(i, Cardinality(S))
  BY <1>6
<1>. DEFINE j == [s \in SUBSET S |-> i[s]]
<1>8. ASSUME NEW s \in SUBSET S
      PROVE  j[s] = IF s = {} THEN 0 ELSE f[First(s)] + j[s \ {First(s)}]
  BY <1>1, <1>2, <1>7
<1>9. IsSum(j, f, S)
  BY <1>8 DEF IsSum
<1>. QED  BY <1>9

\* Sums of functions that agree on S are the same.
LEMMA SumEqual ==
    ASSUME NEW S, NEW f, NEW g, NEW i, IsSum(i, f, S), \A x \in S : f[x] = g[x]
    PROVE  IsSum(i, g, S)
<1>1. \A s \in SUBSET S : s # {} => f[First(s)] = g[First(s)]
  BY FirstFact
<1>. QED  BY <1>1 DEF IsSum

\* A sum of integers is an integer, and one of natural numbers is natural.
LEMMA SumType ==
    ASSUME NEW S, IsFiniteSet(S), NEW f, NEW i, IsSum(i, f, S), NEW Num \in {Int, Nat},
           \A x \in S : f[x] \in Num
    PROVE  i[S] \in Num
<1>. DEFINE T == {s \in SUBSET S : i[s] \notin Num}
<1>1. T = {}
  <2>1. SUFFICES ASSUME T # {} PROVE FALSE
    OBVIOUS
  <2>2. PICK s \in T : \A t \in T : t \subseteq s => t = s
    <3>1. T \in SUBSET (SUBSET S)
      OBVIOUS
    <3>. HIDE DEF T
    <3>. QED  BY <2>1, <3>1, LeastSubset
  <2>3. i[s] = IF s = {} THEN 0 ELSE f[First(s)] + i[s \ {First(s)}]
    <3>1. Adds(i, f, S)
      BY SumStep
    <3>. QED  BY <2>2, <3>1 DEF Adds
  <2>4. s # {}
    BY <2>2, <2>3
  <2>5. First(s) \in s /\ First(s) \in S /\ s \ {First(s)} \in SUBSET S
    BY <2>2, <2>4, FirstFact
  <2>6. i[s \ {First(s)}] \in Num
    BY <2>2, <2>5
  <2>. QED  BY <2>2, <2>3, <2>4, <2>5, <2>6
<1>. QED  BY <1>1

LEMMA SumNat ==
    ASSUME NEW S, IsFiniteSet(S), NEW f, NEW i, IsSum(i, f, S), \A x \in S : f[x] \in Nat
    PROVE  i[S] \in Nat
<1>. DEFINE Num == Nat
<1>1. Num \in {Int, Nat} /\ \A x \in S : f[x] \in Num
  OBVIOUS
<1>. HIDE DEF Num
<1>2. i[S] \in Num
  BY <1>1, SumType
<1>. QED  BY <1>2 DEF Num

LEMMA SumInt ==
    ASSUME NEW S, IsFiniteSet(S), NEW f, NEW i, IsSum(i, f, S), \A x \in S : f[x] \in Int
    PROVE  i[S] \in Int
<1>. DEFINE Num == Int
<1>1. Num \in {Int, Nat} /\ \A x \in S : f[x] \in Num
  OBVIOUS
<1>. HIDE DEF Num
<1>2. i[S] \in Num
  BY <1>1, SumType
<1>. QED  BY <1>2 DEF Num

\* Nothing but zeros adds up to zero.
LEMMA SumZero ==
    ASSUME NEW S, IsFiniteSet(S), NEW f, NEW i, IsSum(i, f, S), \A x \in S : f[x] = 0
    PROVE  i[S] = 0
<1>. DEFINE T == {s \in SUBSET S : i[s] # 0}
<1>1. T = {}
  <2>1. SUFFICES ASSUME T # {} PROVE FALSE
    OBVIOUS
  <2>2. PICK s \in T : \A t \in T : t \subseteq s => t = s
    <3>1. T \in SUBSET (SUBSET S)
      OBVIOUS
    <3>. HIDE DEF T
    <3>. QED  BY <2>1, <3>1, LeastSubset
  <2>3. i[s] = IF s = {} THEN 0 ELSE f[First(s)] + i[s \ {First(s)}]
    <3>1. Adds(i, f, S)
      BY SumStep
    <3>. QED  BY <2>2, <3>1 DEF Adds
  <2>4. First(s) \in s /\ First(s) \in S /\ s \ {First(s)} \in SUBSET S
    BY <2>2, <2>3, FirstFact
  <2>5. i[s \ {First(s)}] = 0
    BY <2>2, <2>4
  <2>. QED  BY <2>2, <2>3, <2>4, <2>5
<1>. QED  BY <1>1

\* A function that gives d more for one element has a sum that is d more.
LEMMA SumChange ==
    ASSUME NEW S, IsFiniteSet(S), NEW f, NEW g, NEW i, NEW j,
           IsSum(i, f, S), IsSum(j, g, S), NEW a \in S, NEW d \in Int,
           \A x \in S : f[x] \in Int /\ g[x] = IF x = a THEN f[x] + d ELSE f[x]
    PROVE  j[S] = i[S] + d
<1>. DEFINE Right(s) == /\ i[s] \in Int
                        /\ j[s] = IF a \in s THEN i[s] + d ELSE i[s]
            T == {s \in SUBSET S : ~Right(s)}
<1>1. T = {}
  <2>1. SUFFICES ASSUME T # {} PROVE FALSE
    OBVIOUS
  <2>2. PICK s \in T : \A t \in T : t \subseteq s => t = s
    <3>1. T \in SUBSET (SUBSET S)
      OBVIOUS
    <3>. HIDE DEF T
    <3>. QED  BY <2>1, <3>1, LeastSubset
  <2>. DEFINE x == First(s)
              r == s \ {First(s)}
  <2>3. /\ i[s] = IF s = {} THEN 0 ELSE f[x] + i[r]
        /\ j[s] = IF s = {} THEN 0 ELSE g[x] + j[r]
    <3>1. s \in SUBSET S
      BY <2>2
    <3>. HIDE DEF T
    <3>2. Adds(i, f, S) /\ Adds(j, g, S)
      BY SumStep
    <3>. QED  BY <3>1, <3>2 DEF Adds
  <2>4. s # {}
    BY <2>2, <2>3
  <2>5. x \in s /\ x \in S /\ r \in SUBSET S /\ r # s /\ (a \in r <=> a \in s /\ a # x)
    BY <2>2, <2>4, FirstFact
  <2>6. Right(r)
    BY <2>2, <2>5
  <2>7. /\ f[x] \in Int /\ i[r] \in Int /\ d \in Int
        /\ g[x] = IF x = a THEN f[x] + d ELSE f[x]
    BY <2>5, <2>6
  <2>. HIDE DEF x, r
  <2>8. Right(s)
    <3>1. CASE x = a
      BY <2>3, <2>4, <2>5, <2>6, <2>7, <3>1
    <3>2. CASE x # a
      BY <2>3, <2>4, <2>5, <2>6, <2>7, <3>2
    <3>. QED  BY <3>1, <3>2
  <2>. QED  BY <2>2, <2>8
<1>. QED  BY <1>1

\* A sum over a subset is that of the sum over the whole.
LEMMA SumWithin ==
    ASSUME NEW S, IsFiniteSet(S), NEW f, NEW i, IsSum(i, f, S),
           NEW M, M \subseteq S, NEW j, IsSum(j, f, M)
    PROVE  j[M] = i[M]
<1>. DEFINE T == {s \in SUBSET M : j[s] # i[s]}
<1>1. T = {}
  <2>1. SUFFICES ASSUME T # {} PROVE FALSE
    OBVIOUS
  <2>2. PICK s \in T : \A t \in T : t \subseteq s => t = s
    <3>1. T \in SUBSET (SUBSET M) /\ IsFiniteSet(M)
      BY FS_Subset
    <3>. HIDE DEF T
    <3>. QED  BY <2>1, <3>1, LeastSubset
  <2>3. s \in SUBSET M /\ s \in SUBSET S /\ j[s] # i[s]
    BY <2>2
  <2>4. Adds(i, f, S) /\ Adds(j, f, M)
    <3>. HIDE DEF T
    <3>. QED  BY SumStep
  <2>5. /\ i[s] = IF s = {} THEN 0 ELSE f[First(s)] + i[s \ {First(s)}]
        /\ j[s] = IF s = {} THEN 0 ELSE f[First(s)] + j[s \ {First(s)}]
    BY <2>3, <2>4 DEF Adds
  <2>6. s # {}
    BY <2>3, <2>5
  <2>7. First(s) \in s /\ s \ {First(s)} \in SUBSET M
    BY <2>3, <2>6, FirstFact
  <2>8. j[s \ {First(s)}] = i[s \ {First(s)}]
    BY <2>2, <2>7
  <2>. QED  BY <2>3, <2>5, <2>6, <2>8
<1>. QED  BY <1>1

\* It does not matter which element is taken first.
LEMMA SumWithout ==
    ASSUME NEW S, IsFiniteSet(S), NEW f, NEW i, IsSum(i, f, S), \A x \in S : f[x] \in Nat
    PROVE  \A s \in SUBSET S : /\ i[s] \in Nat
                               /\ \A k \in s : i[s] = i[s \ {k}] + f[k]
<1>. DEFINE Right(s) == i[s] \in Nat /\ \A k \in s : i[s] = i[s \ {k}] + f[k]
            T == {s \in SUBSET S : ~Right(s)}
<1>1. T = {}
  <2>1. SUFFICES ASSUME T # {} PROVE FALSE
    OBVIOUS
  <2>2. PICK s \in T : \A t \in T : t \subseteq s => t = s
    <3>1. T \in SUBSET (SUBSET S)
      OBVIOUS
    <3>. HIDE DEF T
    <3>. QED  BY <2>1, <3>1, LeastSubset
  <2>3. s \in SUBSET S /\ ~Right(s)
    BY <2>2
  <2>4. Adds(i, f, S)
    <3>. HIDE DEF T
    <3>. QED  BY SumStep
  <2>5. i[s] = IF s = {} THEN 0 ELSE f[First(s)] + i[s \ {First(s)}]
    BY <2>3, <2>4 DEF Adds
  <2>. DEFINE x == First(s)
              r == s \ {x}
  <2>6. s # {}
    BY <2>3, <2>5
  <2>7. x \in s /\ x \in S /\ r \in SUBSET S
    BY <2>3, <2>6, FirstFact
  <2>8. i[s] = f[x] + i[r]
    BY <2>5, <2>6
  <2>. HIDE DEF x
  <2>9. \A t \in SUBSET S : t \subseteq s /\ t # s => Right(t)
    BY <2>2
  <2>10. Right(r)
    BY <2>7, <2>9
  <2>11. i[r] \in Nat /\ f[x] \in Nat /\ i[s] \in Nat
    BY <2>7, <2>8, <2>10
  <2>12. ASSUME NEW k \in s, k # x PROVE i[s] = i[s \ {k}] + f[k]
    <3>. DEFINE t == s \ {k}
                u == r \ {k}
    <3>1. t \in SUBSET S /\ Right(t) /\ x \in t /\ k \in r /\ u \in SUBSET S /\ Right(u)
      BY <2>3, <2>7, <2>9, <2>12
    <3>2. i[t] = i[u] + f[x]
      <4>1. t \ {x} = u
        OBVIOUS
      <4>. HIDE DEF t, u
      <4>. QED  BY <3>1, <4>1
    <3>3. i[r] = i[u] + f[k]
      BY <2>10, <3>1
    <3>4. i[u] \in Nat /\ f[k] \in Nat
      BY <2>3, <3>1
    <3>. HIDE DEF t, u, r
    <3>5. i[s] = i[t] + f[k]
      BY <2>8, <2>11, <3>2, <3>3, <3>4
    <3>. QED  BY <3>5 DEF t
  <2>13. i[s] = i[s \ {x}] + f[x]
    BY <2>8, <2>11
  <2>. QED  BY <2>3, <2>11, <2>12, <2>13
<1>. QED  BY <1>1

----------------------------------------------------------------------------
(***************************************************************************)
(* Recursion over the numbers to n: b, then what G makes of it.            *)
(***************************************************************************)
Recurs(f, b, G, n) == f[0] = b /\ \A i \in 1..n : f[i] = G[<<i, f[i - 1]>>]

LEMMA RecursionExists ==
    ASSUME NEW n, n \in Nat, NEW V, NEW b, b \in V, NEW G, G \in [(1..n) \X V -> V]
    PROVE  \E f \in [0..n -> V] : Recurs(f, b, G, n)
<1>. DEFINE Has(m) == \E f \in [0..m -> V] : Recurs(f, b, G, m)
            T == {m \in Nat : m <= n /\ ~Has(m)}
<1>1. Has(0)
  <2>1. [i \in 0..0 |-> b] \in [0..0 -> V] /\ Recurs([i \in 0..0 |-> b], b, G, 0)
    BY DEF Recurs
  <2>. QED  BY <2>1
<1>2. ASSUME NEW m \in Nat, m + 1 <= n, Has(m) PROVE Has(m + 1)
  <2>1. PICK f \in [0..m -> V] : Recurs(f, b, G, m)
    BY <1>2
  <2>. DEFINE g == [i \in 0..m + 1 |-> IF i = m + 1 THEN G[<<m + 1, f[m]>>] ELSE f[i]]
  <2>2. m + 1 \in 1..n /\ f[m] \in V
    BY <1>2, <2>1
  <2>3. G[<<m + 1, f[m]>>] \in V
    BY <2>2
  <2>4. g \in [0..m + 1 -> V]
    BY <2>1, <2>3
  <2>5. Recurs(g, b, G, m + 1)
    <3>1. g[0] = b
      BY <2>1 DEF Recurs
    <3>2. ASSUME NEW i \in 1..m + 1 PROVE g[i] = G[<<i, g[i - 1]>>]
      <4>1. CASE i = m + 1
        BY <4>1
      <4>2. CASE i # m + 1
        <5>1. i \in 1..m /\ i - 1 \in 0..m
          BY <4>2
        <5>. QED  BY <2>1, <4>2, <5>1 DEF Recurs
      <4>. QED  BY <4>1, <4>2
    <3>. QED  BY <3>1, <3>2 DEF Recurs
  <2>. QED  BY <2>4, <2>5
<1>. HIDE DEF Has
<1>3. T = {}
  <2>1. SUFFICES ASSUME T # {} PROVE FALSE
    OBVIOUS
  <2>2. PICK m \in T : \A k \in T : m <= k
    BY <2>1, LeastNat
  <2>3. m \in Nat /\ m <= n /\ ~Has(m) /\ m # 0
    BY <1>1, <2>2
  <2>4. m - 1 \in Nat /\ m - 1 \notin T /\ m - 1 <= n
    BY <2>2, <2>3
  <2>5. Has(m - 1) /\ (m - 1) + 1 = m
    BY <2>3, <2>4
  <2>. QED  BY <1>2, <2>3, <2>4, <2>5
<1>4. Has(n)
  BY <1>3
<1>. QED  BY <1>4 DEF Has

\* Induction: a set with 0 and, with a number below n, the next one has all of them.
LEMMA UpTo ==
    ASSUME NEW n, n \in Nat, NEW P, 0 \in P, \A m \in 0..n - 1 : m \in P => m + 1 \in P
    PROVE  \A m \in 0..n : m \in P
<1>. DEFINE T == {m \in 0..n : m \notin P}
<1>1. SUFFICES ASSUME T # {} PROVE FALSE
  OBVIOUS
<1>2. PICK m \in T : \A k \in T : m <= k
  <2>1. T \in SUBSET Nat /\ T # {}
    BY <1>1
  <2>. HIDE DEF T
  <2>. QED  BY <2>1, LeastNat
<1>3. m \in 0..n /\ m \notin P /\ m # 0
  BY <1>2
<1>4. m - 1 \in 0..n - 1 /\ m - 1 \notin T
  <2>1. m \in Int /\ m - 1 \in 0..n - 1 /\ ~(m <= m - 1)
    BY <1>3
  <2>. QED  BY <1>2, <2>1
<1>5. m - 1 \in P /\ (m - 1) + 1 = m
  BY <1>3, <1>4
<1>. QED  BY <1>3, <1>4, <1>5

----------------------------------------------------------------------------
(***************************************************************************)
(* Recursion over the subsets of S: b for the empty one, and of another    *)
(* what G makes of the rest and the element that last chooses.             *)
(***************************************************************************)
TakesLast(f, b, G, last, S) ==
    \A s \in SUBSET S : f[s] = IF s = {} THEN b ELSE G[<<f[s \ {last[s]}], last[s]>>]

LEMMA SubsetRecursion ==
    ASSUME NEW S, IsFiniteSet(S), NEW last, \A s \in SUBSET S : s # {} => last[s] \in s,
           NEW V, NEW b, b \in V, NEW G, G \in [V \X S -> V]
    PROVE  \E f \in [SUBSET S -> V] : TakesLast(f, b, G, last, S)
<1>. DEFINE Step(i, s) == IF s = {} THEN b ELSE G[<<i[s \ {last[s]}], last[s]>>]
            Upto(i, n) == \A s \in SUBSET S : Cardinality(s) <= n => i[s] = Step(i, s)
            Has(n) == \E i \in [SUBSET S -> V] : Upto(i, n)
            T == {n \in Nat : ~Has(n)}
<1>1. \A s \in SUBSET S : /\ Cardinality(s) \in Nat /\ (Cardinality(s) = 0 <=> s = {})
                          /\ Cardinality(s) <= Cardinality(S)
  BY FS_Subset, FS_CardinalityType, FS_EmptySet
<1>2. \A s \in SUBSET S : s # {} =>
         /\ last[s] \in s /\ s \ {last[s]} \in SUBSET S
         /\ Cardinality(s \ {last[s]}) = Cardinality(s) - 1
  BY FS_Subset, FS_RemoveElement
<1>3. Has(0)
  <2>1. [s \in SUBSET S |-> b] \in [SUBSET S -> V] /\ Upto([s \in SUBSET S |-> b], 0)
    BY <1>1
  <2>. QED  BY <2>1
<1>4. ASSUME NEW n \in Nat, Has(n) PROVE Has(n + 1)
  <2>1. PICK i \in [SUBSET S -> V] : Upto(i, n)
    BY <1>4
  <2>. DEFINE j == [s \in SUBSET S |-> Step(i, s)]
  <2>2. \A s \in SUBSET S : Cardinality(s) <= n => j[s] = i[s]
    BY <2>1
  <2>3. ASSUME NEW s \in SUBSET S, Cardinality(s) <= n + 1, s # {}
        PROVE  j[s \ {last[s]}] = i[s \ {last[s]}]
    <3>1. Cardinality(s \ {last[s]}) <= n /\ s \ {last[s]} \in SUBSET S
      BY <1>1, <1>2, <2>3
    <3>. QED  BY <2>2, <3>1
  <2>4. Upto(j, n + 1)
    BY <2>3
  <2>5. j \in [SUBSET S -> V]
    <3>1. \A s \in SUBSET S : Step(i, s) \in V
      BY <1>2
    <3>. HIDE DEF Step
    <3>. QED  BY <3>1
  <2>. HIDE DEF j
  <2>. QED  BY <2>4, <2>5
<1>. HIDE DEF Has
<1>5. T = {}
  <2>1. SUFFICES ASSUME T # {} PROVE FALSE
    OBVIOUS
  <2>2. PICK n \in T : \A m \in T : n <= m
    BY <2>1, LeastNat
  <2>3. n \in Nat /\ ~Has(n) /\ n # 0
    BY <1>3, <2>2
  <2>4. n - 1 \in Nat /\ n - 1 \notin T
    BY <2>2, <2>3
  <2>5. Has(n - 1) /\ (n - 1) + 1 = n
    BY <2>3, <2>4
  <2>. QED  BY <1>4, <2>3, <2>4, <2>5
<1>6. Has(Cardinality(S))
  BY <1>1, <1>5
<1>7. PICK i \in [SUBSET S -> V] : Upto(i, Cardinality(S))
  BY <1>6 DEF Has
<1>8. TakesLast(i, b, G, last, S)
  BY <1>1, <1>7 DEF TakesLast
<1>. QED  BY <1>7, <1>8

OrderOn(s, R) ==
    /\ \A a, b \in s : <<a, a>> \notin R /\ (a # b => <<a, b>> \in R \/ <<b, a>> \in R)
    /\ \A a, b, c \in s : <<a, b>> \in R /\ <<b, c>> \in R => <<a, c>> \in R

\* A finite set in order has a last element: what follows it least is what
\* follows nothing.
LEMMA LastOfOrder ==
    ASSUME NEW s, IsFiniteSet(s), s # {}, NEW R, OrderOn(s, R)
    PROVE  \E k \in s : \A l \in s \ {k} : <<l, k>> \in R
<1>. DEFINE Leads(a, b) == <<a, b>> \in R
            After(k) == {l \in s : Leads(k, l)}
            T == {After(k) : k \in s}
<1>1. /\ \A a, b \in s : ~Leads(a, a) /\ (a # b => Leads(a, b) \/ Leads(b, a))
      /\ \A a, b, c \in s : Leads(a, b) /\ Leads(b, c) => Leads(a, c)
  BY DEF OrderOn
<1>. HIDE DEF Leads
<1>2. PICK U \in T : \A V \in T : V \subseteq U => V = U
  <2>1. T \in SUBSET (SUBSET s) /\ T # {}
    OBVIOUS
  <2>2. \A X \in SUBSET (SUBSET s) : X # {} => \E U \in X : \A V \in X : V \subseteq U => V = U
    BY LeastSubset
  <2>. HIDE DEF T
  <2>. QED  BY <2>1, <2>2
<1>3. PICK k \in s : U = After(k)
  BY <1>2
<1>4. ASSUME NEW l \in s \ {k} PROVE Leads(l, k)
  <2>1. SUFFICES ASSUME Leads(k, l) PROVE FALSE
    BY <1>1
  <2>2. After(l) \subseteq After(k)
    BY <1>1, <2>1
  <2>3. After(l) = After(k)
    BY <1>2, <1>3, <2>2
  <2>. QED  BY <1>1, <2>1, <2>3
<1>. QED  BY <1>4 DEF Leads
=============================================================================
