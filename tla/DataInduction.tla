---------------------------- MODULE DataInduction ----------------------------
(***************************************************************************)
(* Induction over natural numbers and what follows from it for finite sets *)
(* and sequences, in terms of sets in place of predicates: "the set of     *)
(* those for which it holds" takes the place of the parameter P(_) that    *)
(* the theorems of the library have and no prover here can instantiate.    *)
(***************************************************************************)
EXTENDS Integers, SequencesExt, FunctionTheorems, FiniteSetTheorems, WellFoundedInduction, TLAPS
-----------------------------------------------------------------------------
(* Natural numbers *)

\* Every set of natural numbers with a member has a smallest one.
LEMMA SmallestExists ==
  ASSUME NEW T, T \subseteq Nat, T # {}
  PROVE  \E n \in T : \A k \in T : n <= k
  <1> DEFINE R == OpToRel(<, Nat)
  <1>1. \E n \in T : \A k \in T : ~(<<k, n>> \in R)
    BY NatLessThanWellFounded, WFMin
  <1>2. ASSUME NEW n \in Nat, NEW k \in Nat, ~(<<k, n>> \in R)
        PROVE  n <= k
    BY <1>2 DEF OpToRel
  <1> HIDE DEF R
  <1>3. \A n \in T : \A k \in T : ~(<<k, n>> \in R) => n <= k
    BY <1>2
  <1> QED
    BY <1>1, <1>3, Zenon

\* Induction: T is the set of those for which it holds.
LEMMA NatInductionSet ==
  ASSUME NEW T, 0 \in T, \A n \in Nat : n \in T => n + 1 \in T
  PROVE  Nat \subseteq T
  <1> SUFFICES ASSUME Nat \ T # {} PROVE FALSE
    OBVIOUS
  <1>1. PICK n \in Nat \ T : \A k \in Nat \ T : n <= k
    BY SmallestExists
  <1>2. n # 0 /\ n - 1 \in Nat
    BY <1>1
  <1>3. n - 1 \in T
    BY <1>1, <1>2
  <1> QED
    BY <1>1, <1>2, <1>3

\* A set of integers with a lower bound has a least member.
LEMMA LeastExists ==
  ASSUME NEW T, T \subseteq Int, T # {}, NEW low \in Int, \A k \in T : low <= k
  PROVE  \E n \in T : \A k \in T : n <= k
  <1> DEFINE U == {k - low : k \in T}
  <1>1. U \subseteq Nat /\ U # {}
    <2>1. \A k \in T : k - low \in Nat
      OBVIOUS
    <2> QED
      BY <2>1
  <1>2. PICK u \in U : \A v \in U : u <= v
    BY <1>1, SmallestExists
  <1>3. PICK n \in T : u = n - low
    OBVIOUS
  <1>4. ASSUME NEW k \in T PROVE n <= k
    <2>1. u <= k - low
      BY <1>2
    <2> QED
      BY <1>3, <2>1
  <1> QED
    BY <1>4

\* A set of integers with an upper bound has a greatest member.
LEMMA GreatestExists ==
  ASSUME NEW T, T \subseteq Int, T # {}, NEW high \in Int, \A k \in T : k <= high
  PROVE  \E n \in T : \A k \in T : k <= n
  <1> DEFINE U == {high - k : k \in T}
  <1>1. U \subseteq Nat /\ U # {}
    <2>1. \A k \in T : high - k \in Nat
      OBVIOUS
    <2> QED
      BY <2>1
  <1>2. PICK u \in U : \A v \in U : u <= v
    BY <1>1, SmallestExists
  <1>3. PICK n \in T : u = high - n
    OBVIOUS
  <1>4. ASSUME NEW k \in T PROVE k <= n
    <2>1. u <= high - k
      BY <1>2
    <2> QED
      BY <1>3, <2>1
  <1> QED
    BY <1>4

\* Finitely many integers have a common upper bound.
LEMMA BoundExists ==
  ASSUME NEW n \in Nat, NEW f \in [1 .. n -> Int]
  PROVE  \E bound \in Int : \A i \in 1 .. n : f[i] <= bound
  <1> DEFINE T == {k \in Nat : \E bound \in Int : \A i \in 1 .. n : i <= k => f[i] <= bound}
  <1>1. 0 \in T
    BY 0 \in Int
  <1>2. ASSUME NEW k \in Nat, k \in T
        PROVE  k + 1 \in T
    <2>1. PICK bound \in Int : \A i \in 1 .. n : i <= k => f[i] <= bound
      BY <1>2
    <2> DEFINE more == IF k + 1 \in 1 .. n /\ bound < f[k + 1] THEN f[k + 1] ELSE bound
    <2>2. more \in Int
      BY <2>1
    <2>3. ASSUME NEW i \in 1 .. n, i <= k + 1
          PROVE  f[i] <= more
      <3>1. CASE i = k + 1
        BY <2>1, <3>1
      <3>2. CASE i <= k
        BY <2>1, <3>2
      <3> QED
        BY <2>3, <3>1, <3>2
    <2> HIDE DEF more
    <2>4. \E b \in Int : \A i \in 1 .. n : i <= k + 1 => f[i] <= b
      BY <2>2, <2>3
    <2> QED
      BY <2>4, k + 1 \in Nat
  <1> HIDE DEF T
  <1>3. n \in T
    BY <1>1, <1>2, NatInductionSet
  <1> QED
    BY <1>3 DEF T
-----------------------------------------------------------------------------
(* Folds *)

\* Max of a set of indices is one of them, and none is larger.
LEMMA MaxIndex ==
  ASSUME NEW n \in Nat, NEW s \in SUBSET (1 .. n), s # {}
  PROVE  /\ Max(s) \in s
         /\ \A i \in s : i <= Max(s)
  <1>1. \E m \in s : \A i \in s : i <= m
    <2>1. s \subseteq Int /\ n \in Int /\ \A i \in s : i <= n
      OBVIOUS
    <2> QED
      BY <2>1, GreatestExists
  <1>2. \E m \in s : \A i \in s : m >= i
    BY <1>1
  <1> QED
    BY <1>2 DEF Max

\* What FoldLeft(LAMBDA v, e : F[v][e], base, seq) asks of the function that it
\* folds with, for a sequence of n elements.
Folds(g, F, base, n, seq) ==
  \A s \in SUBSET (1 .. n) :
    g[s] = IF s = {} THEN base ELSE F[g[s \ {Max(s)}]][seq[Max(s)]]

\* The recursion of FoldLeft is well founded: there is a function that meets
\* it, whatever is folded.
LEMMA FoldExists ==
  ASSUME NEW V, NEW base \in V, NEW E, NEW F \in [V -> [E -> V]],
         NEW n \in Nat, NEW seq \in [1 .. n -> E]
  PROVE  \E g \in [SUBSET (1 .. n) -> V] : Folds(g, F, base, n, seq)
  <1> DEFINE Meets(g, k) ==
               \A s \in SUBSET (1 .. k) :
                 g[s] = IF s = {} THEN base ELSE F[g[s \ {Max(s)}]][seq[Max(s)]]
             T == {k \in Nat : k <= n => \E g \in [SUBSET (1 .. k) -> V] : Meets(g, k)}
  <1>1. 0 \in T
    <2> DEFINE g == [s \in SUBSET (1 .. 0) |-> base]
    <2>1. g \in [SUBSET (1 .. 0) -> V] /\ \A s \in SUBSET (1 .. 0) : s = {}
      OBVIOUS
    <2>2. Meets(g, 0)
      BY <2>1
    <2> HIDE DEF g
    <2> QED
      BY <2>1, <2>2
  <1>2. ASSUME NEW k \in Nat, k \in T
        PROVE  k + 1 \in T
    <2> SUFFICES ASSUME k + 1 <= n
                 PROVE  \E g \in [SUBSET (1 .. k + 1) -> V] : Meets(g, k + 1)
      <3>1. k + 1 \in Nat
        OBVIOUS
      <3> HIDE DEF Meets
      <3> QED
        BY <3>1
    <2>0. k <= n
      OBVIOUS
    <2> HIDE DEF Meets
    <2>1. PICK f \in [SUBSET (1 .. k) -> V] : Meets(f, k)
      BY <1>2, <2>0
    <2> USE DEF Meets
    <2> DEFINE g == [s \in SUBSET (1 .. k + 1) |->
                       IF k + 1 \in s THEN F[f[s \ {k + 1}]][seq[k + 1]] ELSE f[s]]
    <2>2. \A s \in SUBSET (1 .. k + 1) : s \ {k + 1} \in SUBSET (1 .. k)
      OBVIOUS
    <2>3. \A s \in SUBSET (1 .. k + 1) : k + 1 \notin s => s \in SUBSET (1 .. k)
      OBVIOUS
    <2>4. g \in [SUBSET (1 .. k + 1) -> V]
      <3>1. ASSUME NEW s \in SUBSET (1 .. k + 1) PROVE g[s] \in V
        <4>1. seq[k + 1] \in E
          OBVIOUS
        <4>2. CASE k + 1 \in s
          <5>1. f[s \ {k + 1}] \in V
            BY <2>2
          <5> QED
            BY <4>1, <4>2, <5>1
        <4>3. CASE k + 1 \notin s
          BY <2>3, <4>3
        <4> QED
          BY <4>2, <4>3
      <3> QED
        BY <3>1
    <2>5. ASSUME NEW s \in SUBSET (1 .. k + 1)
          PROVE  g[s] = IF s = {} THEN base ELSE F[g[s \ {Max(s)}]][seq[Max(s)]]
      <3>1. CASE k + 1 \in s
        <4>1. Max(s) = k + 1
          <5>1. Max(s) \in s /\ \A i \in s : i <= Max(s)
            BY <3>1, MaxIndex, k + 1 \in Nat
          <5>2. Max(s) \in 1 .. k + 1 /\ k + 1 <= Max(s)
            BY <3>1, <5>1
          <5>3. \A m \in 1 .. k + 1 : k + 1 <= m => m = k + 1
            OBVIOUS
          <5> QED
            BY <5>2, <5>3, Zenon
        <4>2. g[s] = F[f[s \ {k + 1}]][seq[k + 1]]
          BY <3>1
        <4>3. s \ {k + 1} \in SUBSET (1 .. k + 1) /\ k + 1 \notin s \ {k + 1}
          OBVIOUS
        <4>4. g[s \ {k + 1}] = f[s \ {k + 1}]
          BY <4>3
        <4> HIDE DEF g
        <4> QED
          BY <3>1, <4>1, <4>2, <4>4
      <3>2. CASE k + 1 \notin s
        <4>1. s \in SUBSET (1 .. k)
          BY <2>3, <3>2
        <4>2. g[s] = f[s]
          BY <3>2
        <4>3. s \ {Max(s)} \in SUBSET (1 .. k + 1) /\ k + 1 \notin s \ {Max(s)}
          BY <3>2
        <4>4. g[s \ {Max(s)}] = f[s \ {Max(s)}]
          BY <4>3
        <4>5. f[s] = IF s = {} THEN base ELSE F[f[s \ {Max(s)}]][seq[Max(s)]]
          BY <2>1, <4>1
        <4> HIDE DEF g
        <4> QED
          BY <4>2, <4>4, <4>5
      <3> QED
        BY <3>1, <3>2
    <2> HIDE DEF g
    <2> QED
      BY <2>4, <2>5
  <1> HIDE DEF T, Meets
  <1>3. n \in T
    BY <1>1, <1>2, NatInductionSet
  <1>4. n <= n => \E g \in [SUBSET (1 .. n) -> V] : Meets(g, n)
    BY <1>3, Zenon DEF T
  <1>5. n <= n
    OBVIOUS
  <1>6. PICK g \in [SUBSET (1 .. n) -> V] : Meets(g, n)
    BY <1>4, <1>5, Zenon
  <1> QED
    BY <1>6 DEF Meets, Folds

\* The last step of the recursion of FoldLeft on the first k indices.
LEMMA Indices ==
  ASSUME NEW n \in Nat, NEW k \in 1 .. n
  PROVE  /\ 1 .. k # {} /\ (1 .. k) \in SUBSET (1 .. n)
         /\ Max(1 .. k) = k
         /\ (1 .. k) \ {k} = 1 .. (k - 1)
  <1>1. 1 .. k # {} /\ (1 .. k) \in SUBSET (1 .. n) /\ k \in 1 .. k
    OBVIOUS
  <1>2. Max(1 .. k) \in 1 .. k /\ k <= Max(1 .. k)
    BY <1>1, MaxIndex
  <1>3. \A m \in 1 .. k : k <= m => m = k
    OBVIOUS
  <1>4. Max(1 .. k) = k
    BY <1>2, <1>3, Zenon
  <1>5. (1 .. k) \ {k} = 1 .. (k - 1)
    OBVIOUS
  <1> QED
    BY <1>1, <1>4, <1>5
-----------------------------------------------------------------------------
(* Loops *)

\* What a loop asks of a function f: it goes on from x to next[x] until it
\* stops, with the result out[x].
Loops(f, D, stop, out, next) ==
  f = [x \in D |-> IF x \in stop THEN out[x] ELSE f[next[x]]]

\* There is such a function if a number gets smaller on the way.
LEMMA LoopExists ==
  ASSUME NEW D, NEW stop, NEW out, NEW next \in [D -> D],
         NEW most \in Nat, NEW left \in [D -> 0 .. most],
         \A x \in D : x \notin stop => left[next[x]] < left[x]
  PROVE  \E f : Loops(f, D, stop, out, next)
  <1> DEFINE V == {out[x] : x \in D}
             Meets(f, k) == \A x \in D : left[x] < k =>
                              f[x] = IF x \in stop THEN out[x] ELSE f[next[x]]
             T == {k \in Nat : \E f \in [D -> V] : Meets(f, k)}
  <1>0. \A x \in D : left[x] \in Nat /\ left[x] <= most /\ next[x] \in D
    OBVIOUS
  <1>1. 0 \in T
    <2> DEFINE f == [x \in D |-> out[x]]
    <2>1. f \in [D -> V]
      OBVIOUS
    <2> HIDE DEF f
    <2>2. Meets(f, 0)
      BY <1>0
    <2> QED
      BY <2>1, <2>2
  <1>2. ASSUME NEW k \in Nat, k \in T PROVE k + 1 \in T
    <2>1. PICK f \in [D -> V] : Meets(f, k)
      BY <1>2
    <2> DEFINE g == [x \in D |-> IF x \in stop THEN out[x] ELSE f[next[x]]]
    <2>2. g \in [D -> V]
      BY <1>0
    <2>3. \A x \in D : g[x] = IF x \in stop THEN out[x] ELSE f[next[x]]
      OBVIOUS
    <2> HIDE DEF g
    <2>4. \A x \in D : left[x] < k => g[x] = f[x]
      BY <2>1, <2>3
    <2>5. ASSUME NEW x \in D, left[x] < k + 1
          PROVE  g[x] = IF x \in stop THEN out[x] ELSE g[next[x]]
      <3>1. x \notin stop => left[next[x]] < k
        BY <1>0, <2>5
      <3> QED
        BY <1>0, <2>3, <2>4, <3>1
    <2>6. Meets(g, k + 1)
      BY <2>5
    <2> HIDE DEF Meets
    <2> QED
      BY <2>2, <2>6, k + 1 \in Nat
  <1> HIDE DEF T
  <1>3. most + 1 \in T
    BY <1>1, <1>2, NatInductionSet
  <1>4. PICK f \in [D -> V] : Meets(f, most + 1)
    BY <1>3 DEF T
  <1>5. \A x \in D : f[x] = IF x \in stop THEN out[x] ELSE f[next[x]]
    BY <1>0, <1>4
  <1>6. f = [x \in D |-> IF x \in stop THEN out[x] ELSE f[next[x]]]
    BY <1>5
  <1> QED
    BY <1>6 DEF Loops
-----------------------------------------------------------------------------
(* Sorting *)

\* s lists every member of U once; the first n are in the order of their keys.
Enumerates(s, U) ==
  /\ s \in [1 .. Cardinality(U) -> U]
  /\ \A i, j \in 1 .. Cardinality(U) : i # j => s[i] # s[j]

Ascending(s, n, key) == \A i, j \in 1 .. n : i < j => key[s[i]] <= key[s[j]]

\* Any finite set can be listed in the order of its members' keys.
LEMMA SortedExists ==
  ASSUME NEW S, IsFiniteSet(S), NEW key \in [S -> Nat]
  PROVE  \E s : Enumerates(s, S) /\ Ascending(s, Cardinality(S), key)
  <1> DEFINE T == {n \in Nat : \A U \in SUBSET S :
                     Cardinality(U) = n => \E s : Enumerates(s, U) /\ Ascending(s, n, key)}
  <1>0. \A U \in SUBSET S : IsFiniteSet(U) /\ Cardinality(U) \in Nat
    BY FS_Subset, FS_CardinalityType
  <1>1. 0 \in T
    <2>1. ASSUME NEW U \in SUBSET S, Cardinality(U) = 0
          PROVE  \E s : Enumerates(s, U) /\ Ascending(s, 0, key)
      <3> DEFINE s == [i \in 1 .. 0 |-> i]
      <3>1. s \in [1 .. 0 -> U]
        OBVIOUS
      <3> HIDE DEF s
      <3>2. Enumerates(s, U) /\ Ascending(s, 0, key)
        BY <2>1, <3>1 DEF Enumerates, Ascending
      <3> QED
        BY <3>2
    <2> QED
      BY <2>1
  <1>2. ASSUME NEW n \in Nat, n \in T
        PROVE  n + 1 \in T
    <2> SUFFICES ASSUME NEW U \in SUBSET S, Cardinality(U) = n + 1
                 PROVE  \E s : Enumerates(s, U) /\ Ascending(s, n + 1, key)
      <3>1. n + 1 \in Nat
        OBVIOUS
      <3> QED
        BY <3>1
    <2>1. U # {}
      BY FS_EmptySet
    <2>2. \E x \in U : \A y \in U : key[x] <= key[y]
      <3> DEFINE keys == {key[y] : y \in U}
      <3>1. keys \subseteq Nat /\ keys # {}
        BY <2>1
      <3> HIDE DEF keys
      <3>2. PICK m \in keys : \A k \in keys : m <= k
        BY <3>1, SmallestExists
      <3> USE DEF keys
      <3>3. PICK x \in U : m = key[x]
        OBVIOUS
      <3>4. ASSUME NEW y \in U PROVE key[x] <= key[y]
        BY <3>2, <3>3
      <3> QED
        BY <3>4
    <2>3. PICK x \in U : \A y \in U : key[x] <= key[y]
      BY <2>2
    <2> DEFINE R == U \ {x}
    <2>4. R \in SUBSET S /\ Cardinality(R) = n
      BY <1>0, FS_RemoveElement
    <2>5. PICK r : Enumerates(r, R) /\ Ascending(r, n, key)
      BY <1>2, <2>4
    <2>6. r \in [1 .. n -> R] /\ \A i, j \in 1 .. n : i # j => r[i] # r[j]
      BY <2>4, <2>5 DEF Enumerates
    <2> DEFINE s == [i \in 1 .. n + 1 |-> IF i = 1 THEN x ELSE r[i - 1]]
    <2>7. \A i \in 2 .. n + 1 : i - 1 \in 1 .. n /\ s[i] = r[i - 1] /\ s[i] \in R
      BY <2>6
    <2>8. 1 \in 1 .. n + 1 /\ s[1] = x
      OBVIOUS
    <2>9. \A i \in 1 .. n + 1 : i = 1 \/ i \in 2 .. n + 1
      OBVIOUS
    <2>10. s \in [1 .. n + 1 -> U]
      BY <2>6
    <2> HIDE DEF s
    <2>11. Enumerates(s, U)
      <3>1. ASSUME NEW i \in 1 .. n + 1, NEW j \in 1 .. n + 1, i # j
            PROVE  s[i] # s[j]
        <4>1. CASE i = 1
          BY <2>7, <2>8, <2>9, <3>1, <4>1
        <4>2. CASE j = 1
          BY <2>7, <2>8, <2>9, <3>1, <4>2
        <4>3. CASE i \in 2 .. n + 1 /\ j \in 2 .. n + 1
          BY <2>6, <2>7, <3>1, <4>3
        <4> QED
          BY <2>9, <4>1, <4>2, <4>3
      <3> QED
        BY <2>10, <3>1 DEF Enumerates
    <2>12. Ascending(s, n + 1, key)
      <3>1. ASSUME NEW i \in 1 .. n + 1, NEW j \in 1 .. n + 1, i < j
            PROVE  key[s[i]] <= key[s[j]]
        <4>1. CASE i = 1
          BY <2>3, <2>8, <2>10, <4>1
        <4>2. CASE i # 1
          <5>1. i \in 2 .. n + 1 /\ j \in 2 .. n + 1 /\ i - 1 < j - 1
            BY <3>1, <4>2
          <5> QED
            BY <2>5, <2>7, <5>1 DEF Ascending
        <4> QED
          BY <4>1, <4>2
      <3> QED
        BY <3>1 DEF Ascending
    <2> QED
      BY <2>11, <2>12
  <1> HIDE DEF T
  <1>3. Cardinality(S) \in T
    BY <1>0, <1>1, <1>2, NatInductionSet
  <1> QED
    BY <1>3 DEF T

\* An enumeration of a finite set leaves nothing out.
LEMMA EnumerationIsOnto ==
  ASSUME NEW S, IsFiniteSet(S), NEW s, Enumerates(s, S)
  PROVE  \A x \in S : \E i \in 1 .. Cardinality(S) : s[i] = x
  <1> DEFINE n == Cardinality(S)
             R == {s[i] : i \in 1 .. n}
  <1>1. n \in Nat /\ s \in [1 .. n -> S]
    BY FS_CardinalityType DEF Enumerates
  <1>2. s \in [1 .. n -> R] /\ \A i, j \in 1 .. n : s[i] = s[j] => i = j
    BY <1>1 DEF Enumerates
  <1>3. s \in Bijection(1 .. n, R)
    <2>1. \A x \in R : \E i \in 1 .. n : s[i] = x
      OBVIOUS
    <2> HIDE DEF R
    <2> QED
      BY <1>2, <2>1, Fun_IsBij
  <1>4. Cardinality(R) = n
    BY <1>1, <1>3, FS_CountingElements DEF ExistsBijection
  <1>5. R \subseteq S
    BY <1>1
  <1>6. R = S
    BY <1>4, <1>5, FS_Subset
  <1> QED
    BY <1>6
=============================================================================
