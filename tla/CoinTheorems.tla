---------------------------- MODULE CoinTheorems ----------------------------
(***************************************************************************)
(* Facts the proofs about coins share: sums over any finite set of keys    *)
(* (SumFunction of the community modules), accounts, the trees that hold   *)
(* them, credits that fit, and a block of transactions applied one by one. *)
(* The provers cannot instantiate an induction theorem, so each induction  *)
(* over a set is an argument about a smallest counterexample.              *)
(***************************************************************************)
EXTENDS StateTrie, TLAPS, FiniteSetTheorems, NaturalsInduction, WellFoundedInduction

-----------------------------------------------------------------------------
(***************************************************************************)
(* Sums.                                                                   *)
(***************************************************************************)
\* A nonempty set of naturals has a least member.
LEMMA LeastNat ==
    ASSUME NEW T, T \subseteq Nat, T # {}
    PROVE  \E m \in T : \A n \in T : m <= n
<1> DEFINE R == OpToRel(<, Nat)
<1>1. \E m \in T : \A n \in T : ~(<<n, m>> \in R)
  BY NatLessThanWellFounded, WFMin
<1>2. \A m, n \in Nat : n < m => <<n, m>> \in R
  BY DEF OpToRel
<1>. HIDE DEF R
<1>3. PICK m \in T : \A n \in T : ~(<<n, m>> \in R)
  BY <1>1
<1>4. ASSUME NEW n \in T
      PROVE  m <= n
  <2>1. m \in Nat /\ n \in Nat
    OBVIOUS
  <2>2. ~(n < m)
    BY <1>2, <1>3, <2>1
  <2>. QED
    BY <2>1, <2>2
<1>. QED
  BY <1>4

\* A nonempty collection of subsets of a finite set has a member with no smaller
\* one inside it.
LEMMA LeastSubset ==
    ASSUME NEW S, IsFiniteSet(S), NEW T, T \subseteq SUBSET S, T # {}
    PROVE  \E m \in T : \A t \in SUBSET m : t \in T => t = m
<1> DEFINE C == {Cardinality(t) : t \in T}
<1>1. \A t \in T : IsFiniteSet(t) /\ Cardinality(t) \in Nat
  BY FS_Subset, FS_CardinalityType
<1>2. C \subseteq Nat /\ C # {}
  BY <1>1
<1>3. PICK c \in C : \A d \in C : c <= d
  <2>. HIDE DEF C
  <2>. QED
    BY <1>2, LeastNat
<1>4. PICK m \in T : Cardinality(m) = c
  BY <1>3
<1>5. ASSUME NEW t \in SUBSET m, t \in T
      PROVE  t = m
  <2>1. Cardinality(t) <= Cardinality(m) /\ (Cardinality(m) = Cardinality(t) => m = t)
    BY <1>1, FS_Subset
  <2>2. Cardinality(m) <= Cardinality(t)
    BY <1>3, <1>4, <1>5
  <2>. QED
    BY <1>1, <1>5, <2>1, <2>2
<1>. QED
  BY <1>5

-----------------------------------------------------------------------------
\* The element the fold takes next.
Pick(s) == CHOOSE x \in s : TRUE

\* h gives the sum of f over every subset of S, element by element.
SumsOf(h, f, S) ==
    h = [s \in SUBSET S |-> IF s = {} THEN 0 ELSE f[Pick(s)] + h[s \ {Pick(s)}]]

\* SumFunctionOnSet is the value of such a function at the whole set.
LEMMA SumByDefinition ==
    ASSUME NEW f, NEW S
    PROVE  SumFunctionOnSet(f, S) = (CHOOSE h : SumsOf(h, f, S))[S]
  BY DEF SumFunctionOnSet, FoldFunctionOnSet, MapThenFoldSet, SumsOf, Pick

\* Over a finite set there is one.  Smallest counterexample: a size up to which
\* the sums cannot be tabulated although they can up to the size below it.
LEMMA SumsExist ==
    ASSUME NEW f, NEW S, IsFiniteSet(S)
    PROVE  \E h : SumsOf(h, f, S)
<1> DEFINE N == Cardinality(S)
           Small(n) == {s \in SUBSET S : Cardinality(s) <= n}
           Next(h, s) == IF s = {} THEN 0 ELSE f[Pick(s)] + h[s \ {Pick(s)}]
           Table(h, n) == h = [s \in Small(n) |-> Next(h, s)]
           T == {n \in 0..N : ~ \E h : Table(h, n)}
<1>1. N \in Nat /\ \A s \in SUBSET S : IsFiniteSet(s) /\ Cardinality(s) \in Nat /\ Cardinality(s) <= N
  BY FS_Subset, FS_CardinalityType
<1>2. Small(N) = SUBSET S
  BY <1>1
<1>3. \A s \in SUBSET S : s # {} => /\ Pick(s) \in s
                                   /\ s \ {Pick(s)} \in SUBSET S
                                   /\ Cardinality(s \ {Pick(s)}) = Cardinality(s) - 1
  <2>1. ASSUME NEW s \in SUBSET S, s # {}
        PROVE  Pick(s) \in s
    BY <2>1 DEF Pick
  <2>. QED
    BY <2>1, <1>1, FS_RemoveElement
<1>4. T = {}
  <2>1. ASSUME T # {}
        PROVE  FALSE
    <3>1. PICK n \in T : \A k \in T : n <= k
      <4>1. T \subseteq Nat
        BY <1>1
      <4>. HIDE DEF T
      <4>. QED
        BY <2>1, <4>1, LeastNat
    <3>2. n \in 0..N /\ n \in Nat
      BY <3>1, <1>1
    <3>3. CASE n = 0
      <4> DEFINE h == [s \in Small(0) |-> 0]
      <4>1. \A s \in Small(0) : s = {}
        BY <1>1, FS_EmptySet
      <4>2. h = [s \in Small(0) |-> Next(h, s)]
        <5>1. \A s \in Small(0) : Next(h, s) = 0
          BY <4>1
        <5>. HIDE DEF Next, Small
        <5>. QED
          BY <5>1
      <4>. HIDE DEF h, Next, Small
      <4>. QED
        BY <4>2, <3>1, <3>3
    <3>4. CASE n # 0
      <4>1. n - 1 \in 0..N /\ n - 1 < n
        BY <3>2, <3>4, <1>1
      <4>2. n - 1 \notin T
        <5>. HIDE DEF T
        <5>. QED
          BY <3>1, <4>1, <3>2
      <4>3. PICK g : Table(g, n - 1)
        BY <4>1, <4>2
      <4> DEFINE h == [s \in Small(n) |-> Next(g, s)]
      <4>4. ASSUME NEW s \in Small(n - 1)
            PROVE  s \in Small(n) /\ h[s] = g[s]
        <5>1. s \in Small(n)
          BY <1>1, <3>2
        <5>2. g[s] = Next(g, s)
          <6>. HIDE DEF Next, Small
          <6>1. g = [t \in Small(n - 1) |-> Next(g, t)]
            BY <4>3
          <6>. QED
            BY <6>1
        <5>. QED
          BY <5>1, <5>2
      <4>5. ASSUME NEW s \in Small(n)
            PROVE  Next(h, s) = Next(g, s)
        <5>1. CASE s = {}
          BY <5>1
        <5>2. CASE s # {}
          <6>1. s \ {Pick(s)} \in Small(n - 1)
            BY <5>2, <1>1, <1>3, <3>2
          <6>2. h[s \ {Pick(s)}] = g[s \ {Pick(s)}]
            BY <6>1, <4>4
          <6>. HIDE DEF h, Small
          <6>. QED
            BY <6>2
        <5>. QED
          BY <5>1, <5>2
      <4>6. h = [s \in Small(n) |-> Next(h, s)]
        <5> DEFINE k == [s \in Small(n) |-> Next(h, s)]
        <5>1. \A s \in Small(n) : h[s] = k[s]
          BY <4>5
        <5>. HIDE DEF Next, Small
        <5>. QED
          BY <5>1
      <4>. HIDE DEF h, Next, Small
      <4>. QED
        BY <4>6, <3>1
    <3>. QED
      BY <3>3, <3>4
  <2>. QED
    BY <2>1
<1>5. PICK h : Table(h, N)
  <2>. HIDE DEF Table, N
  <2>1. N \in 0..N
    BY <1>1
  <2>. QED
    BY <1>4, <2>1
<1>6. h = [s \in SUBSET S |-> Next(h, s)]
  <2>. HIDE DEF Next, Small
  <2>. QED
    BY <1>2, <1>5
<1>. QED
  BY <1>6 DEF SumsOf

\* h tabulates the sums of f over the subsets of S.
Adds(h, f, S) ==
    /\ h[{}] = 0
    /\ \A s \in SUBSET S : s # {} => h[s] = f[Pick(s)] + h[s \ {Pick(s)}]

\* SumFunctionOnSet is the last entry of such a table.
LEMMA SumsAre ==
    ASSUME NEW f, NEW S, IsFiniteSet(S)
    PROVE  \E h : SumFunctionOnSet(f, S) = h[S] /\ Adds(h, f, S)
<1> DEFINE h == CHOOSE h : SumsOf(h, f, S)
<1>1. SumsOf(h, f, S)
  BY SumsExist
<1>2. SumFunctionOnSet(f, S) = h[S]
  BY SumByDefinition
<1>. HIDE DEF h
<1>3. h = [s \in SUBSET S |-> IF s = {} THEN 0 ELSE f[Pick(s)] + h[s \ {Pick(s)}]]
  BY <1>1 DEF SumsOf
<1>4. \A s \in SUBSET S : h[s] = IF s = {} THEN 0 ELSE f[Pick(s)] + h[s \ {Pick(s)}]
  BY <1>3, Zenon
<1>5. Adds(h, f, S)
  BY <1>4 DEF Adds
<1>. QED
  BY <1>2, <1>5

\* Two tables of sums of the same values agree.
LEMMA SumsAgree ==
    ASSUME NEW f, NEW g, NEW S, IsFiniteSet(S), \A x \in S : f[x] = g[x],
           NEW h, Adds(h, f, S), NEW k, Adds(k, g, S)
    PROVE  h[S] = k[S]
<1> DEFINE T == {s \in SUBSET S : h[s] # k[s]}
<1>1. ASSUME T # {}
      PROVE  FALSE
  <2>1. PICK m \in T : \A t \in SUBSET m : t \in T => t = m
    <3>1. T \subseteq SUBSET S
      OBVIOUS
    <3>. HIDE DEF T
    <3>. QED
      BY <1>1, <3>1, LeastSubset
  <2>2. m # {}
    BY <2>1 DEF Adds
  <2>3. Pick(m) \in m /\ Pick(m) \in S /\ m \ {Pick(m)} \in SUBSET S
    BY <2>1, <2>2 DEF Pick
  <2>4. h[m \ {Pick(m)}] = k[m \ {Pick(m)}]
    <3>1. m \ {Pick(m)} # m /\ m \ {Pick(m)} \in SUBSET m
      BY <2>3
    <3>. QED
      BY <2>1, <2>3, <3>1
  <2>5. h[m] = f[Pick(m)] + h[m \ {Pick(m)}] /\ k[m] = g[Pick(m)] + k[m \ {Pick(m)}]
    BY <2>1, <2>2 DEF Adds
  <2>6. f[Pick(m)] = g[Pick(m)]
    BY <2>3
  <2>. QED
    BY <2>1, <2>4, <2>5, <2>6
<1>. QED
  BY <1>1

\* The sum depends only on the values that are added up.
LEMMA SumSame ==
    ASSUME NEW f, NEW g, NEW S, IsFiniteSet(S), \A x \in S : f[x] = g[x]
    PROVE  SumFunctionOnSet(f, S) = SumFunctionOnSet(g, S)
<1>1. PICK h : SumFunctionOnSet(f, S) = h[S] /\ Adds(h, f, S)
  BY SumsAre
<1>2. PICK k : SumFunctionOnSet(g, S) = k[S] /\ Adds(k, g, S)
  BY SumsAre
<1>. QED
  BY <1>1, <1>2, SumsAgree

\* The sum over nothing.
LEMMA SumEmpty == \A f : SumFunctionOnSet(f, {}) = 0
<1>. SUFFICES ASSUME NEW f PROVE SumFunctionOnSet(f, {}) = 0
  OBVIOUS
<1>1. PICK h : SumFunctionOnSet(f, {}) = h[{}] /\ Adds(h, f, {})
  BY SumsAre, FS_EmptySet
<1>. QED
  BY <1>1 DEF Adds

\* A table of sums can be taken apart at any element.
LEMMA AddsAnyOrder ==
    ASSUME NEW f, NEW S, IsFiniteSet(S), \A x \in S : f[x] \in Int,
           NEW h, Adds(h, f, S)
    PROVE  \A s \in SUBSET S : h[s] \in Int /\ \A a \in s : h[s] = f[a] + h[s \ {a}]
<1> DEFINE Good(s) == h[s] \in Int /\ \A a \in s : h[s] = f[a] + h[s \ {a}]
           T == {s \in SUBSET S : ~Good(s)}
<1>1. ASSUME T # {}
      PROVE  FALSE
  <2>1. PICK m \in T : \A t \in SUBSET m : t \in T => t = m
    <3>1. T \subseteq SUBSET S
      OBVIOUS
    <3>. HIDE DEF T
    <3>. QED
      BY <1>1, <3>1, LeastSubset
  <2> DEFINE p == Pick(m)
  <2>2. m \in SUBSET S /\ m # {}
    <3>1. Good({})
      BY DEF Adds
    <3>2. m \in SUBSET S /\ ~Good(m)
      BY <2>1
    <3>. HIDE DEF Good
    <3>. QED
      BY <3>1, <3>2
  <2>3. p \in m /\ m \in SUBSET S /\ h[m] = f[p] + h[m \ {p}]
    <3>1. h[m] = f[Pick(m)] + h[m \ {Pick(m)}]
      BY <2>2 DEF Adds
    <3>2. Pick(m) \in m
      BY <2>2 DEF Pick
    <3>. QED
      BY <2>2, <3>1, <3>2
  <2>. HIDE DEF p
  <2>4. \A t \in SUBSET m : t # m => Good(t)
    <3>. HIDE DEF Good
    <3>1. \A t \in SUBSET m : t \in SUBSET S
      BY <2>3
    <3>. QED
      BY <2>1, <3>1
  <2>5. h[m] \in Int
    <3>1. m \ {p} # m /\ m \ {p} \in SUBSET m /\ f[p] \in Int
      BY <2>3
    <3>2. h[m \ {p}] \in Int
      BY <2>4, <3>1
    <3>. QED
      BY <2>3, <3>1, <3>2
  <2>6. ASSUME NEW a \in m
        PROVE  h[m] = f[a] + h[m \ {a}]
    <3>1. CASE a = p
      BY <3>1, <2>3
    <3>2. CASE a # p
      <4>1. PICK t : t = (m \ {p}) \ {a} /\ t = (m \ {a}) \ {p}
        OBVIOUS
      <4>2. t \in SUBSET m /\ t # m
        BY <4>1, <2>3
      <4>3. h[t] \in Int
        BY <4>2, <2>4
      <4>4. h[m \ {p}] = f[a] + h[t]
        <5>1. a \in m \ {p} /\ m \ {p} \in SUBSET m /\ m \ {p} # m
          BY <3>2, <2>3
        <5>. QED
          BY <5>1, <2>4, <4>1
      <4>5. h[m \ {a}] = f[p] + h[t]
        <5>1. p \in m \ {a} /\ m \ {a} \in SUBSET m /\ m \ {a} # m
          BY <3>2, <2>3
        <5>. QED
          BY <5>1, <2>4, <4>1
      <4>6. f[a] \in Int /\ f[p] \in Int
        BY <2>3
      <4>. QED
        BY <2>3, <4>3, <4>4, <4>5, <4>6
    <3>. QED
      BY <3>1, <3>2
  <2>. QED
    BY <2>1, <2>5, <2>6
<1>. QED
  BY <1>1

\* A sum of integers is an integer and can be taken apart at any key.
LEMMA SumRemove ==
    ASSUME NEW f, NEW S, IsFiniteSet(S), \A x \in S : f[x] \in Int
    PROVE  /\ SumFunctionOnSet(f, S) \in Int
           /\ \A a \in S : SumFunctionOnSet(f, S) = f[a] + SumFunctionOnSet(f, S \ {a})
<1>1. PICK h : SumFunctionOnSet(f, S) = h[S] /\ Adds(h, f, S)
  BY SumsAre
<1>2. S \in SUBSET S
  OBVIOUS
<1>3. h[S] \in Int /\ \A a \in S : h[S] = f[a] + h[S \ {a}]
  BY <1>1, <1>2, AddsAnyOrder
<1>4. ASSUME NEW a \in S
      PROVE  SumFunctionOnSet(f, S \ {a}) = h[S \ {a}]
  <2>1. IsFiniteSet(S \ {a})
    BY FS_RemoveElement
  <2>2. PICK k : SumFunctionOnSet(f, S \ {a}) = k[S \ {a}] /\ Adds(k, f, S \ {a})
    BY <2>1, SumsAre
  <2>3. Adds(h, f, S \ {a})
    BY <1>1 DEF Adds
  <2>. QED
    BY <2>1, <2>2, <2>3, SumsAgree
<1>. QED
  BY <1>1, <1>3, <1>4

-----------------------------------------------------------------------------
\* Larger summands give a larger sum.
LEMMA SumMonotone ==
    ASSUME NEW f, NEW g, NEW S, IsFiniteSet(S),
           \A x \in S : f[x] \in Int /\ g[x] \in Int /\ f[x] <= g[x]
    PROVE  SumFunctionOnSet(f, S) <= SumFunctionOnSet(g, S)
<1> DEFINE P(s) == SumFunctionOnSet(f, s) <= SumFunctionOnSet(g, s)
           T == {s \in SUBSET S : ~P(s)}
<1>1. ASSUME T # {}
      PROVE  FALSE
  <2>1. PICK m \in T : \A t \in SUBSET m : t \in T => t = m
    <3>1. T \subseteq SUBSET S
      OBVIOUS
    <3>. HIDE DEF T
    <3>. QED
      BY <1>1, <3>1, LeastSubset
  <2>2. m \in SUBSET S /\ ~P(m)
    BY <2>1
  <2>3. PICK a : a \in m
    <3>1. P({})
      BY SumEmpty
    <3>. HIDE DEF P
    <3>. QED
      BY <2>2, <3>1
  <2>4. P(m \ {a})
    <3>1. m \ {a} \in SUBSET m /\ m \ {a} # m /\ m \ {a} \in SUBSET S
      BY <2>2, <2>3
    <3>. HIDE DEF P
    <3>. QED
      BY <2>1, <3>1
  <2>5. /\ SumFunctionOnSet(f, m) = f[a] + SumFunctionOnSet(f, m \ {a})
        /\ SumFunctionOnSet(g, m) = g[a] + SumFunctionOnSet(g, m \ {a})
        /\ SumFunctionOnSet(f, m \ {a}) \in Int /\ SumFunctionOnSet(g, m \ {a}) \in Int
    <3>1. IsFiniteSet(m) /\ IsFiniteSet(m \ {a})
      BY <2>2, FS_Subset, FS_RemoveElement
    <3>2. \A x \in m : f[x] \in Int /\ g[x] \in Int
      BY <2>2
    <3>3. \A x \in m \ {a} : f[x] \in Int /\ g[x] \in Int
      BY <3>2
    <3>4. /\ SumFunctionOnSet(f, m) = f[a] + SumFunctionOnSet(f, m \ {a})
          /\ SumFunctionOnSet(g, m) = g[a] + SumFunctionOnSet(g, m \ {a})
      BY <2>3, <3>1, <3>2, SumRemove
    <3>5. SumFunctionOnSet(f, m \ {a}) \in Int /\ SumFunctionOnSet(g, m \ {a}) \in Int
      BY <3>1, <3>3, SumRemove
    <3>. QED
      BY <3>4, <3>5
  <2>6. f[a] \in Int /\ g[a] \in Int /\ f[a] <= g[a]
    BY <2>2, <2>3
  <2>. QED
    BY <2>2, <2>4, <2>5, <2>6
<1>2. S \in SUBSET S
  OBVIOUS
<1>3. P(S)
  <2>. HIDE DEF P
  <2>. QED
    BY <1>1, <1>2
<1>. QED
  BY <1>3

\* The sum of zeros.
LEMMA SumOfZeros ==
    ASSUME NEW f, NEW S, IsFiniteSet(S), \A x \in S : f[x] = 0
    PROVE  SumFunctionOnSet(f, S) = 0
<1> DEFINE T == {s \in SUBSET S : SumFunctionOnSet(f, s) # 0}
<1>1. ASSUME T # {}
      PROVE  FALSE
  <2>1. PICK m \in T : \A t \in SUBSET m : t \in T => t = m
    <3>1. T \subseteq SUBSET S
      OBVIOUS
    <3>. HIDE DEF T
    <3>. QED
      BY <1>1, <3>1, LeastSubset
  <2>2. m \in SUBSET S /\ SumFunctionOnSet(f, m) # 0
    BY <2>1
  <2>3. PICK a : a \in m
    BY <2>2, SumEmpty
  <2>4. SumFunctionOnSet(f, m \ {a}) = 0
    <3>1. m \ {a} \in SUBSET m /\ m \ {a} # m /\ m \ {a} \in SUBSET S
      BY <2>2, <2>3
    <3>. QED
      BY <2>1, <3>1
  <2>5. SumFunctionOnSet(f, m) = f[a] + SumFunctionOnSet(f, m \ {a})
    <3>1. IsFiniteSet(m)
      BY <2>2, FS_Subset
    <3>2. \A x \in m : f[x] \in Int
      BY <2>2
    <3>. QED
      BY <2>3, <3>1, <3>2, SumRemove
  <2>6. f[a] = 0
    BY <2>2, <2>3
  <2>. QED
    BY <2>2, <2>4, <2>5, <2>6
<1>. QED
  BY <1>1

\* A sum of naturals is one, and none of them exceeds it.
LEMMA SumNat ==
    ASSUME NEW f, NEW S, IsFiniteSet(S), \A x \in S : f[x] \in Nat
    PROVE  /\ SumFunctionOnSet(f, S) \in Nat
           /\ \A a \in S : f[a] <= SumFunctionOnSet(f, S)
<1>1. ASSUME NEW R, R \subseteq S
      PROVE  SumFunctionOnSet(f, R) \in Nat
  <2> DEFINE z == [x \in R |-> 0]
  <2>1. IsFiniteSet(R) /\ \A x \in R : f[x] \in Nat
    BY <1>1, FS_Subset
  <2>2. SumFunctionOnSet(z, R) = 0
    BY <2>1, SumOfZeros
  <2>3. SumFunctionOnSet(f, R) \in Int
    BY <2>1, SumRemove
  <2>4. \A x \in R : z[x] \in Int /\ f[x] \in Int /\ z[x] <= f[x]
    BY <2>1
  <2>. HIDE DEF z
  <2>5. SumFunctionOnSet(z, R) <= SumFunctionOnSet(f, R)
    BY <2>1, <2>4, SumMonotone
  <2>. QED
    BY <2>2, <2>3, <2>5
<1>2. ASSUME NEW a \in S
      PROVE  f[a] <= SumFunctionOnSet(f, S)
  <2>1. SumFunctionOnSet(f, S) = f[a] + SumFunctionOnSet(f, S \ {a})
    BY SumRemove
  <2>2. SumFunctionOnSet(f, S \ {a}) \in Nat /\ f[a] \in Nat
    BY <1>1
  <2>. QED
    BY <2>1, <2>2
<1>. QED
  BY <1>1, <1>2

\* Writing one entry of a function changes the sum by the difference.
LEMMA SumWrite ==
    ASSUME NEW f, IsFiniteSet(DOMAIN f), \A x \in DOMAIN f : f[x] \in Int,
           NEW a, NEW v \in Int,
           NEW g, g = [x \in DOMAIN f \cup {a} |-> IF x = a THEN v ELSE f[x]]
    PROVE  SumFunction(g) = SumFunction(f) - (IF a \in DOMAIN f THEN f[a] ELSE 0) + v
<1> DEFINE R == DOMAIN f \ {a}
<1>1. DOMAIN g = DOMAIN f \cup {a} /\ g[a] = v /\ \A x \in R : g[x] = f[x]
  OBVIOUS
<1>2. IsFiniteSet(DOMAIN g) /\ IsFiniteSet(R)
  BY <1>1, FS_AddElement, FS_RemoveElement
<1>3. \A x \in DOMAIN g : g[x] \in Int
  OBVIOUS
<1>4. SumFunctionOnSet(g, DOMAIN g) = g[a] + SumFunctionOnSet(g, DOMAIN g \ {a})
  <2>1. PICK D : D = DOMAIN g
    OBVIOUS
  <2>2. IsFiniteSet(D) /\ (\A x \in D : g[x] \in Int) /\ a \in D
    BY <1>1, <1>2, <1>3, <2>1
  <2>3. SumFunctionOnSet(g, D) = g[a] + SumFunctionOnSet(g, D \ {a})
    BY <2>2, SumRemove
  <2>. QED
    BY <2>1, <2>3
<1>5. DOMAIN g \ {a} = R
  BY <1>1
<1>6. SumFunctionOnSet(g, R) = SumFunctionOnSet(f, R)
  BY <1>1, <1>2, SumSame
<1>7. SumFunctionOnSet(f, R) \in Int
  BY <1>2, SumRemove
<1>8. SumFunction(g) = v + SumFunctionOnSet(f, R)
  BY <1>1, <1>4, <1>5, <1>6 DEF SumFunction
<1>9. CASE a \in DOMAIN f
  <2>1. SumFunction(f) = f[a] + SumFunctionOnSet(f, R)
    BY <1>9, SumRemove DEF SumFunction
  <2>2. f[a] \in Int
    BY <1>9
  <2>. HIDE DEF R
  <2>. QED
    BY <1>7, <1>8, <1>9, <2>1, <2>2
<1>10. CASE a \notin DOMAIN f
  <2>1. SumFunction(f) = SumFunctionOnSet(f, R)
    <3>1. R = DOMAIN f
      BY <1>10
    <3>. QED
      BY <3>1 DEF SumFunction
  <2>. HIDE DEF R
  <2>. QED
    BY <1>7, <1>8, <1>10, <2>1
<1>. QED
  BY <1>9, <1>10

\* Two sums over the same keys are added key by key.
LEMMA SumPlus ==
    ASSUME NEW f, NEW g, NEW h, NEW S, IsFiniteSet(S),
           \A x \in S : f[x] \in Int /\ g[x] \in Int /\ h[x] = f[x] + g[x]
    PROVE  SumFunctionOnSet(h, S) = SumFunctionOnSet(f, S) + SumFunctionOnSet(g, S)
<1> DEFINE Wrong(s) == SumFunctionOnSet(h, s) # SumFunctionOnSet(f, s) + SumFunctionOnSet(g, s)
           T == {s \in SUBSET S : Wrong(s)}
<1>1. ASSUME T # {}
      PROVE  FALSE
  <2>1. PICK m \in T : \A t \in SUBSET m : t \in T => t = m
    <3>1. T \subseteq SUBSET S
      OBVIOUS
    <3>. HIDE DEF T
    <3>. QED
      BY <1>1, <3>1, LeastSubset
  <2>2. m \in SUBSET S /\ Wrong(m)
    BY <2>1
  <2>3. PICK a : a \in m
    <3>1. ASSUME m = {} PROVE FALSE
      <4>1. SumFunctionOnSet(f, m) = 0 /\ SumFunctionOnSet(g, m) = 0 /\ SumFunctionOnSet(h, m) = 0
        BY <3>1, SumEmpty
      <4>. QED
        BY <2>2, <4>1
    <3>. QED
      BY <3>1
  <2>4. ~Wrong(m \ {a})
    <3>1. m \ {a} \in SUBSET m /\ m \ {a} # m /\ m \ {a} \in SUBSET S
      BY <2>2, <2>3
    <3>. QED
      BY <2>1, <3>1
  <2>5. IsFiniteSet(m) /\ IsFiniteSet(m \ {a})
    BY <2>2, FS_Subset
  <2>6. \A x \in m : f[x] \in Int /\ g[x] \in Int /\ h[x] \in Int
    BY <2>2
  <2>7. /\ SumFunctionOnSet(f, m) = f[a] + SumFunctionOnSet(f, m \ {a})
        /\ SumFunctionOnSet(f, m \ {a}) \in Int
    BY <2>3, <2>5, <2>6, SumRemove
  <2>8. /\ SumFunctionOnSet(g, m) = g[a] + SumFunctionOnSet(g, m \ {a})
        /\ SumFunctionOnSet(g, m \ {a}) \in Int
    BY <2>3, <2>5, <2>6, SumRemove
  <2>9. SumFunctionOnSet(h, m) = h[a] + SumFunctionOnSet(h, m \ {a})
    BY <2>3, <2>5, <2>6, SumRemove
  <2>10. f[a] \in Int /\ g[a] \in Int /\ h[a] = f[a] + g[a]
    BY <2>2, <2>3
  <2>. QED
    BY <2>2, <2>4, <2>7, <2>8, <2>9, <2>10
<1>. QED
  BY <1>1

\* A sum is the sum over some of the keys and the sum over the others.
LEMMA SumSplit ==
    ASSUME NEW f, NEW S, IsFiniteSet(S), \A x \in S : f[x] \in Int, NEW R \in SUBSET S
    PROVE  SumFunctionOnSet(f, S) = SumFunctionOnSet(f, R) + SumFunctionOnSet(f, S \ R)
<1> DEFINE Q == S \ R
           Wrong(s) == SumFunctionOnSet(f, Q \cup s)
                         # SumFunctionOnSet(f, s) + SumFunctionOnSet(f, Q)
           T == {s \in SUBSET R : Wrong(s)}
<1>0. IsFiniteSet(R) /\ IsFiniteSet(Q) /\ Q \subseteq S
  BY FS_Subset
<1>1. SumFunctionOnSet(f, Q) \in Int
  BY <1>0, SumRemove
<1>2. Q \cup R = S /\ \A x \in R : x \notin Q
  OBVIOUS
<1>. HIDE DEF Q
<1>3. ASSUME T # {}
      PROVE  FALSE
  <2>1. PICK m \in T : \A t \in SUBSET m : t \in T => t = m
    <3>1. T \subseteq SUBSET R
      OBVIOUS
    <3>. HIDE DEF T
    <3>. QED
      BY <1>0, <1>3, <3>1, LeastSubset
  <2>2. m \in SUBSET R /\ Wrong(m)
    BY <2>1
  <2>3. PICK a : a \in m
    <3>1. ASSUME m = {} PROVE FALSE
      <4>1. Q \cup m = Q /\ SumFunctionOnSet(f, m) = 0
        BY <3>1, SumEmpty
      <4>. QED
        BY <1>1, <2>2, <4>1
    <3>. QED
      BY <3>1
  <2>. DEFINE less == m \ {a}
              more == Q \cup m
  <2>4. ~Wrong(less)
    <3>1. less \in SUBSET m /\ less # m /\ less \in SUBSET R
      BY <2>2, <2>3
    <3>. QED
      BY <2>1, <3>1
  <2>5. more \ {a} = Q \cup less /\ a \in more /\ more \in SUBSET S
    BY <1>0, <1>2, <2>2, <2>3
  <2>6. IsFiniteSet(m) /\ IsFiniteSet(less) /\ IsFiniteSet(more)
    BY <1>0, <2>2, <2>5, FS_Subset
  <2>7. SumFunctionOnSet(f, m) = f[a] + SumFunctionOnSet(f, less)
    BY <2>2, <2>3, <2>6, SumRemove
  <2>8. SumFunctionOnSet(f, more) = f[a] + SumFunctionOnSet(f, more \ {a})
    BY <2>5, <2>6, SumRemove
  <2>9. SumFunctionOnSet(f, less) \in Int /\ f[a] \in Int
    BY <2>2, <2>3, <2>6, SumRemove
  <2>10. SumFunctionOnSet(f, more) = f[a] + (SumFunctionOnSet(f, less) + SumFunctionOnSet(f, Q))
    BY <2>4, <2>5, <2>8
  <2>11. SumFunctionOnSet(f, more) # SumFunctionOnSet(f, m) + SumFunctionOnSet(f, Q)
    BY <2>2
  <2>. HIDE DEF less, more
  <2>. QED
    BY <1>1, <2>7, <2>9, <2>10, <2>11
<1>4. R \notin T
  BY <1>3
<1>. QED
  BY <1>2, <1>4 DEF Q

\* Fewer naturals have a smaller sum.
LEMMA SumSubset ==
    ASSUME NEW f, NEW S, IsFiniteSet(S), \A x \in S : f[x] \in Nat, NEW R \in SUBSET S
    PROVE  /\ SumFunctionOnSet(f, R) \in Nat
           /\ SumFunctionOnSet(f, R) <= SumFunctionOnSet(f, S)
<1>1. SumFunctionOnSet(f, S) = SumFunctionOnSet(f, R) + SumFunctionOnSet(f, S \ R)
  BY SumSplit
<1>2. IsFiniteSet(R) /\ IsFiniteSet(S \ R)
  BY FS_Subset
<1>3. SumFunctionOnSet(f, R) \in Nat
  BY <1>2, SumNat
<1>4. SumFunctionOnSet(f, S \ R) \in Nat
  BY <1>2, SumNat
<1>. QED
  BY <1>1, <1>3, <1>4

\* Keys without a value add nothing.
LEMMA SumExtend ==
    ASSUME NEW f, NEW S, IsFiniteSet(S), \A x \in S : f[x] \in Int,
           NEW R \in SUBSET S, \A x \in S \ R : f[x] = 0
    PROVE  SumFunctionOnSet(f, S) = SumFunctionOnSet(f, R)
<1>1. SumFunctionOnSet(f, S) = SumFunctionOnSet(f, R) + SumFunctionOnSet(f, S \ R)
  BY SumSplit
<1>2. IsFiniteSet(R) /\ IsFiniteSet(S \ R)
  BY FS_Subset
<1>3. SumFunctionOnSet(f, R) \in Int
  BY <1>2, SumRemove
<1>4. SumFunctionOnSet(f, S \ R) = 0
  BY <1>2, SumOfZeros
<1>. QED
  BY <1>1, <1>3, <1>4

\* Shares that are each at most in proportion to a weight are so together.
LEMMA SumProportional ==
    ASSUME NEW f, NEW w, NEW S, IsFiniteSet(S), NEW all \in Nat, NEW whole \in Nat,
           \A x \in S : f[x] \in Nat /\ w[x] \in Nat /\ f[x] * all <= whole * w[x]
    PROVE  SumFunctionOnSet(f, S) * all <= whole * SumFunctionOnSet(w, S)
<1> DEFINE Wrong(s) == ~(SumFunctionOnSet(f, s) * all <= whole * SumFunctionOnSet(w, s))
           T == {s \in SUBSET S : Wrong(s)}
<1>1. ASSUME T # {}
      PROVE  FALSE
  <2>1. PICK m \in T : \A t \in SUBSET m : t \in T => t = m
    <3>1. T \subseteq SUBSET S
      OBVIOUS
    <3>. HIDE DEF T
    <3>. QED
      BY <1>1, <3>1, LeastSubset
  <2>2. m \in SUBSET S /\ Wrong(m)
    BY <2>1
  <2>3. PICK a : a \in m
    BY <2>2, SumEmpty
  <2>4. ~Wrong(m \ {a})
    <3>1. m \ {a} \in SUBSET m /\ m \ {a} # m /\ m \ {a} \in SUBSET S
      BY <2>2, <2>3
    <3>. QED
      BY <2>1, <3>1
  <2>5. IsFiniteSet(m) /\ IsFiniteSet(m \ {a})
    BY <2>2, FS_Subset
  <2>6. \A x \in m : f[x] \in Nat /\ w[x] \in Nat
    BY <2>2
  <2>7. PICK F \in Nat, rest \in Nat, fa \in Nat :
           /\ SumFunctionOnSet(f, m) = F /\ SumFunctionOnSet(f, m \ {a}) = rest /\ f[a] = fa
           /\ F = fa + rest
    <3>1. SumFunctionOnSet(f, m) = f[a] + SumFunctionOnSet(f, m \ {a})
      BY <2>3, <2>5, <2>6, SumRemove
    <3>2. SumFunctionOnSet(f, m \ {a}) \in Nat /\ f[a] \in Nat
      BY <2>3, <2>5, <2>6, SumNat
    <3>. QED
      BY <3>1, <3>2
  <2>8. PICK W \in Nat, left \in Nat, wa \in Nat :
           /\ SumFunctionOnSet(w, m) = W /\ SumFunctionOnSet(w, m \ {a}) = left /\ w[a] = wa
           /\ W = wa + left
    <3>1. SumFunctionOnSet(w, m) = w[a] + SumFunctionOnSet(w, m \ {a})
      BY <2>3, <2>5, <2>6, SumRemove
    <3>2. SumFunctionOnSet(w, m \ {a}) \in Nat /\ w[a] \in Nat
      BY <2>3, <2>5, <2>6, SumNat
    <3>. QED
      BY <3>1, <3>2
  <2>9. fa * all <= whole * wa /\ rest * all <= whole * left
    BY <2>2, <2>3, <2>4, <2>7, <2>8
  <2>10. ~(F * all <= whole * W)
    BY <2>2, <2>7, <2>8
  <2>11. F * all = fa * all + rest * all /\ whole * W = whole * wa + whole * left
    BY <2>7, <2>8
  <2>12. /\ fa * all \in Int /\ rest * all \in Int /\ whole * wa \in Int /\ whole * left \in Int
    OBVIOUS
  <2>. QED
    BY <2>9, <2>10, <2>11, <2>12
<1>. QED
  BY <1>1

-----------------------------------------------------------------------------
(***************************************************************************)
(* Accounts.                                                               *)
(***************************************************************************)
\* The coins an account holds: what it can spend and what it has staked.
Coins(acc) == acc.balance + acc.staked

\* The fields of an account are numbers.
LEMMA AccountFields ==
    ASSUME NEW acc \in Account
    PROVE  /\ acc.balance \in U64 /\ acc.staked \in U64 /\ acc.nonce \in Nat /\ acc.tier \in Tier
           /\ acc.balance \in Nat /\ acc.staked \in Nat
<1>1. acc.balance \in U64 /\ acc.staked \in U64 /\ acc.nonce \in Nat /\ acc.tier \in Tier
  BY DEF Account
<1>. QED
  BY <1>1, WidthAssumption DEF U64

\* A fresh account has no coins.
LEMMA FreshAccount == NewAccount \in Account /\ Coins(NewAccount) = 0
  BY WidthAssumption DEF NewAccount, Account, U64, Tier, Coins

\* Loading an account, stored or not, gives one.
LEMMA LoadedAccount ==
    ASSUME NEW f, IsAccountMap(f), NEW a
    PROVE  get_or_create_account(f, a) \in Account
  BY FreshAccount DEF get_or_create_account, IsAccountMap

\* An account whose numbers are set anew within u64 is one.
LEMMA RevisedAccount ==
    ASSUME NEW acc \in Account, NEW b \in U64, NEW s \in U64, NEW n \in Nat, NEW new,
           new \in {Revised(acc, b, s, n), update_validator_tier(Revised(acc, b, s, n))}
    PROVE  new \in Account /\ new.balance = b /\ new.staked = s /\ new.nonce = n
<1>1. Revised(acc, b, s, n) \in Account
  BY DEF Revised, Account
<1>2. from_staked_balance(s) \in Tier
  BY DEF from_staked_balance, Tier
<1>3. update_validator_tier(Revised(acc, b, s, n))
        = [balance |-> b, staked |-> s, nonce |-> n, tier |-> from_staked_balance(s)]
  BY DEF update_validator_tier, Revised
<1>. QED
  BY <1>1, <1>2, <1>3 DEF Revised, Account

\* Saving an account keeps the tree a tree and moves the total by the difference.
LEMMA SavedAccount ==
    ASSUME NEW f, IsAccountMap(f), NEW a \in Address, NEW acc \in Account
    PROVE  /\ IsAccountMap(save_account(f, a, acc))
           /\ TotalBalance(f) \in Nat
           /\ TotalBalance(save_account(f, a, acc))
                = TotalBalance(f) - Coins(get_or_create_account(f, a)) + Coins(acc)
<1> DEFINE g == save_account(f, a, acc)
           F == [x \in DOMAIN f |-> f[x].balance + f[x].staked]
           v == acc.balance + acc.staked
           G == [x \in DOMAIN g |-> g[x].balance + g[x].staked]
<1>1. g = [x \in DOMAIN f \cup {a} |-> IF x = a THEN acc ELSE f[x]]
  BY DEF save_account
<1>2. IsAccountMap(g)
  BY <1>1 DEF IsAccountMap
<1>3. \A x \in DOMAIN f : f[x] \in Account
  BY DEF IsAccountMap
<1>4. \A x \in DOMAIN f : f[x].balance + f[x].staked \in Nat
  BY <1>3, AccountFields
<1>5. DOMAIN F = DOMAIN f /\ \A x \in DOMAIN F : F[x] \in Nat /\ F[x] \in Int
  BY <1>4
<1>6. IsFiniteSet(DOMAIN F)
  BY <1>5, AddressAssumption, FS_Subset DEF IsAccountMap
<1>7. v \in Int /\ Coins(acc) = v
  BY AccountFields DEF Coins
<1>8. G = [x \in DOMAIN F \cup {a} |-> IF x = a THEN v ELSE F[x]]
  BY <1>1, <1>5
<1>9. TotalBalance(f) = SumFunction(F) /\ TotalBalance(g) = SumFunction(G)
  BY DEF TotalBalance
<1>10. Coins(get_or_create_account(f, a)) = IF a \in DOMAIN F THEN F[a] ELSE 0
  BY <1>5, FreshAccount DEF Coins, get_or_create_account
<1>. HIDE DEF F, G, v
<1>11. SumFunction(F) \in Nat
  BY <1>5, <1>6, SumNat DEF SumFunction
<1>12. SumFunction(G) = SumFunction(F) - (IF a \in DOMAIN F THEN F[a] ELSE 0) + v
  BY <1>5, <1>6, <1>7, <1>8, SumWrite
<1>. HIDE DEF g
<1>13. TotalBalance(g) = TotalBalance(f) - Coins(get_or_create_account(f, a)) + Coins(acc)
  BY <1>7, <1>9, <1>10, <1>12
<1>. QED
  BY <1>2, <1>9, <1>11, <1>13 DEF g

\* A credit that fits.
LEMMA CreditedAccount ==
    ASSUME NEW acc \in Account, NEW n \in Nat, acc.balance + n \in U64
    PROVE  LET new == Credited(acc, n) IN
           /\ new \in Account /\ new.balance = acc.balance + n
           /\ new.staked = acc.staked /\ new.nonce = acc.nonce
           /\ Coins(new) = Coins(acc) + n
<1>1. Credited(acc, n) = [balance |-> acc.balance + n, staked |-> acc.staked,
                          nonce |-> acc.nonce, tier |-> acc.tier]
  BY DEF Credited, Account
<1>. QED
  BY <1>1, AccountFields DEF Account, Coins

\* The total runs over all addresses as well: an account not stored holds nothing.
LEMMA TotalOverAddresses ==
    ASSUME NEW f, IsAccountMap(f)
    PROVE  LET H == [x \in Address |-> Coins(get_or_create_account(f, x))] IN
           /\ \A x \in Address : H[x] \in Nat
           /\ TotalBalance(f) = SumFunctionOnSet(H, Address)
<1> DEFINE H == [x \in Address |-> Coins(get_or_create_account(f, x))]
           F == [x \in DOMAIN f |-> f[x].balance + f[x].staked]
<1>1. \A x \in Address : H[x] \in Nat /\ H[x] \in Int
  BY LoadedAccount, AccountFields DEF Coins
<1>2. DOMAIN f \in SUBSET Address
  BY DEF IsAccountMap
<1>3. \A x \in Address \ DOMAIN f : H[x] = 0
  BY FreshAccount DEF get_or_create_account
<1>4. \A x \in DOMAIN f : F[x] = H[x]
  BY <1>2 DEF Coins, get_or_create_account
<1>5. TotalBalance(f) = SumFunctionOnSet(F, DOMAIN f)
  BY DEF TotalBalance, SumFunction
<1>6. IsFiniteSet(DOMAIN f)
  BY <1>2, AddressAssumption, FS_Subset
<1>. HIDE DEF F, H
<1>7. SumFunctionOnSet(F, DOMAIN f) = SumFunctionOnSet(H, DOMAIN f)
  BY <1>4, <1>6, SumSame
<1>8. SumFunctionOnSet(H, Address) = SumFunctionOnSet(H, DOMAIN f)
  BY <1>1, <1>2, <1>3, AddressAssumption, SumExtend
<1>. QED
  BY <1>1, <1>5, <1>7, <1>8 DEF H

\* No account holds more than all together.
LEMMA HoldingBound ==
    ASSUME NEW f, IsAccountMap(f), NEW a \in Address
    PROVE  LET acc == get_or_create_account(f, a) IN
           /\ TotalBalance(f) \in Nat
           /\ Coins(acc) <= TotalBalance(f)
           /\ acc.balance <= TotalBalance(f) /\ acc.staked <= TotalBalance(f)
<1> DEFINE H == [x \in Address |-> Coins(get_or_create_account(f, x))]
           acc == get_or_create_account(f, a)
<1>1. /\ \A x \in Address : H[x] \in Nat
      /\ TotalBalance(f) = SumFunctionOnSet(H, Address)
  BY TotalOverAddresses
<1>2. H[a] = Coins(acc)
  OBVIOUS
<1>. HIDE DEF H
<1>3. TotalBalance(f) \in Nat /\ H[a] <= TotalBalance(f)
  BY <1>1, AddressAssumption, SumNat
<1>4. acc \in Account
  BY LoadedAccount
<1>. HIDE DEF acc
<1>5. acc.balance \in Nat /\ acc.staked \in Nat /\ Coins(acc) = acc.balance + acc.staked
  BY <1>4, AccountFields DEF Coins
<1>6. /\ Coins(acc) <= TotalBalance(f) /\ acc.balance <= TotalBalance(f)
      /\ acc.staked <= TotalBalance(f)
  BY <1>2, <1>3, <1>5
<1>. QED
  BY <1>3, <1>6 DEF acc

-----------------------------------------------------------------------------
(***************************************************************************)
(* Loops of credits.                                                       *)
(***************************************************************************)
\* C is a finite set of credits to addresses.
IsCredits(C) == IsFiniteSet(C) /\ \A c \in C : c.to \in Address /\ c.amount \in Nat

\* Some of a set of credits are a set of credits.
LEMMA CreditsSubset ==
    ASSUME NEW C, IsCredits(C), NEW D \in SUBSET C
    PROVE  IsCredits(D)
<1>1. IsFiniteSet(D)
  BY FS_Subset DEF IsCredits
<1>. QED
  BY <1>1 DEF IsCredits

\* The total of a set of credits can be read off a larger one.
LEMMA AmountWithin ==
    ASSUME NEW C, IsCredits(C), NEW D \in SUBSET C
    PROVE  LET A == [c \in C |-> c.amount] IN
           /\ \A c \in C : A[c] = c.amount /\ A[c] \in Nat
           /\ TotalAmount(D) = SumFunctionOnSet(A, D)
<1> DEFINE A == [c \in C |-> c.amount]
           B == [c \in D |-> c.amount]
<1>1. \A c \in C : A[c] = c.amount /\ A[c] \in Nat
  BY DEF IsCredits
<1>2. TotalAmount(D) = SumFunctionOnSet(B, D)
  BY DEF TotalAmount, SumFunction
<1>3. \A c \in D : B[c] = A[c]
  OBVIOUS
<1>4. IsFiniteSet(D)
  BY FS_Subset DEF IsCredits
<1>. HIDE DEF A, B
<1>5. SumFunctionOnSet(B, D) = SumFunctionOnSet(A, D)
  BY <1>3, <1>4, SumSame
<1>. QED
  BY <1>1, <1>2, <1>5 DEF A

\* Totals of credits are naturals; fewer credits have a smaller total.
LEMMA AmountSubset ==
    ASSUME NEW C, IsCredits(C), NEW D \in SUBSET C
    PROVE  TotalAmount(D) \in Nat /\ TotalAmount(C) \in Nat /\ TotalAmount(D) <= TotalAmount(C)
<1> DEFINE A == [c \in C |-> c.amount]
<1>1. \A c \in C : A[c] \in Nat
  BY DEF IsCredits
<1>2. TotalAmount(D) = SumFunctionOnSet(A, D)
  BY AmountWithin
<1>3. TotalAmount(C) = SumFunctionOnSet(A, C)
  BY DEF TotalAmount, SumFunction
<1>. HIDE DEF A
<1>4. IsFiniteSet(C)
  BY DEF IsCredits
<1>5. SumFunctionOnSet(A, D) \in Nat /\ SumFunctionOnSet(A, D) <= SumFunctionOnSet(A, C)
  BY <1>1, <1>4, SumSubset
<1>6. SumFunctionOnSet(A, C) \in Nat
  BY <1>1, <1>4, SumNat
<1>. QED
  BY <1>2, <1>3, <1>5, <1>6

\* One credit can be taken out of the total.
LEMMA AmountRemove ==
    ASSUME NEW C, IsCredits(C), NEW c \in C
    PROVE  TotalAmount(C) = c.amount + TotalAmount(C \ {c})
<1> DEFINE A == [d \in C |-> d.amount]
           D == C \ {c}
<1>1. (\A d \in C : A[d] \in Int) /\ A[c] = c.amount
  BY DEF IsCredits
<1>2. TotalAmount(D) = SumFunctionOnSet(A, D)
  BY AmountWithin
<1>3. TotalAmount(C) = SumFunctionOnSet(A, C)
  BY DEF TotalAmount, SumFunction
<1>. HIDE DEF A
<1>4. SumFunctionOnSet(A, C) = A[c] + SumFunctionOnSet(A, C \ {c})
  BY <1>1, SumRemove DEF IsCredits
<1>. QED
  BY <1>1, <1>2, <1>3, <1>4

\* No credits, no amount.
LEMMA AmountEmpty == TotalAmount({}) = 0
  BY SumEmpty DEF TotalAmount, SumFunction

\* What the addresses receive adds up to the credits.
LEMMA GroupByReceiver ==
    ASSUME NEW C, IsCredits(C)
    PROVE  SumFunctionOnSet([x \in Address |-> TotalTo(C, x)], Address) = TotalAmount(C)
<1> DEFINE R(D) == [x \in Address |-> TotalTo(D, x)]
           Wrong(D) == SumFunctionOnSet(R(D), Address) # TotalAmount(D)
           T == {D \in SUBSET C : Wrong(D)}
<1>1. ASSUME T # {}
      PROVE  FALSE
  <2>1. PICK m \in T : \A t \in SUBSET m : t \in T => t = m
    <3>1. T \subseteq SUBSET C
      OBVIOUS
    <3>. HIDE DEF T
    <3>. QED
      BY <1>1, <3>1, LeastSubset DEF IsCredits
  <2>2. m \in SUBSET C /\ Wrong(m)
    BY <2>1
  <2>3. IsCredits(m)
    BY <2>2, CreditsSubset
  <2>4. PICK c : c \in m
    <3>1. ASSUME m = {} PROVE FALSE
      <4>1. TotalAmount(m) = 0
        BY <3>1, AmountEmpty
      <4>2. ASSUME NEW x \in Address PROVE R(m)[x] = 0
        <5>1. {d \in m : d.to = x} = {}
          BY <3>1
        <5>. QED
          BY <5>1, AmountEmpty DEF TotalTo
      <4>3. SumFunctionOnSet(R(m), Address) = 0
        <5>. DEFINE Rm == R(m)
        <5>1. \A x \in Address : Rm[x] = 0
          BY <4>2
        <5>. HIDE DEF Rm
        <5>2. SumFunctionOnSet(Rm, Address) = 0
          BY <5>1, AddressAssumption, SumOfZeros
        <5>. QED
          BY <5>2 DEF Rm
      <4>. QED
        BY <2>2, <4>1, <4>3
    <3>. QED
      BY <3>1
  <2>. DEFINE less == m \ {c}
              a == c.to
              G == R(m)
              F == R(less)
  <2>5. SumFunctionOnSet(F, Address) = TotalAmount(less)
    <3>1. less \in SUBSET m /\ less # m /\ less \in SUBSET C
      BY <2>2, <2>4
    <3>. QED
      BY <2>1, <3>1
  <2>6. a \in Address /\ c.amount \in Nat
    BY <2>3, <2>4 DEF IsCredits
  <2>7. IsCredits(less) /\ less \in SUBSET m
    BY <2>3, CreditsSubset
  <2>8. ASSUME NEW x \in Address PROVE G[x] \in Int /\ F[x] \in Int
    <3>1. {d \in m : d.to = x} \in SUBSET m /\ {d \in less : d.to = x} \in SUBSET less
      OBVIOUS
    <3>2. TotalTo(m, x) \in Nat
      BY <2>3, <3>1, AmountSubset DEF TotalTo
    <3>3. TotalTo(less, x) \in Nat
      BY <2>7, <3>1, AmountSubset DEF TotalTo
    <3>. QED
      BY <3>2, <3>3
  <2>9. ASSUME NEW x \in Address, x # a PROVE G[x] = F[x]
    <3>1. {d \in m : d.to = x} = {d \in less : d.to = x}
      BY <2>9
    <3>. QED
      BY <3>1 DEF TotalTo
  <2>10. G[a] = c.amount + F[a]
    <3>. DEFINE D == {d \in m : d.to = a}
    <3>1. D \ {c} = {d \in less : d.to = a} /\ c \in D /\ D \in SUBSET m
      BY <2>4
    <3>2. IsCredits(D)
      BY <2>3, <3>1, CreditsSubset
    <3>3. TotalTo(m, a) = TotalAmount(D) /\ TotalTo(less, a) = TotalAmount(D \ {c})
      BY <3>1 DEF TotalTo
    <3>. HIDE DEF D
    <3>4. TotalAmount(D) = c.amount + TotalAmount(D \ {c})
      BY <3>1, <3>2, AmountRemove
    <3>. QED
      BY <2>6, <3>3, <3>4
  <2>11. TotalAmount(m) = c.amount + TotalAmount(less)
    BY <2>3, <2>4, AmountRemove
  <2>12. SumFunctionOnSet(G, Address) # TotalAmount(m)
    BY <2>2
  <2>13. TotalAmount(less) \in Nat
    BY <2>7, AmountSubset
  <2>. HIDE DEF G, F, a, less
  <2>14. /\ SumFunctionOnSet(G, Address) = G[a] + SumFunctionOnSet(G, Address \ {a})
         /\ SumFunctionOnSet(F, Address) = F[a] + SumFunctionOnSet(F, Address \ {a})
    <3>1. IsFiniteSet(Address) /\ \A x \in Address : G[x] \in Int
      BY <2>8, AddressAssumption
    <3>2. IsFiniteSet(Address) /\ \A x \in Address : F[x] \in Int
      BY <2>8, AddressAssumption
    <3>3. SumFunctionOnSet(G, Address) = G[a] + SumFunctionOnSet(G, Address \ {a})
      BY <2>6, <3>1, SumRemove
    <3>4. SumFunctionOnSet(F, Address) = F[a] + SumFunctionOnSet(F, Address \ {a})
      BY <2>6, <3>2, SumRemove
    <3>. QED
      BY <3>3, <3>4
  <2>15. /\ SumFunctionOnSet(G, Address \ {a}) = SumFunctionOnSet(F, Address \ {a})
         /\ SumFunctionOnSet(F, Address \ {a}) \in Int
    <3>1. IsFiniteSet(Address \ {a})
      BY AddressAssumption, FS_Subset
    <3>. QED
      BY <2>8, <2>9, <3>1, SumSame, SumRemove
  <2>16. F[a] \in Int
    BY <2>6, <2>8
  <2>. QED
    BY <2>5, <2>6, <2>10, <2>11, <2>12, <2>13, <2>14, <2>15, <2>16
<1>2. C \notin T
  BY <1>1
<1>. QED
  BY <1>2

\* A loop of credits that leaves the coins inside u64 in all is completed, and
\* adds exactly its credits.
LEMMA CreditAllTotals ==
    ASSUME NEW f, IsAccountMap(f), NEW C, IsCredits(C),
           TotalBalance(f) + TotalAmount(C) <= MaxU64
    PROVE  /\ CreditAll(f, C).ok
           /\ IsAccountMap(CreditAll(f, C).accts)
           /\ TotalBalance(CreditAll(f, C).accts) = TotalBalance(f) + TotalAmount(C)
           /\ \A x : get_or_create_account(CreditAll(f, C).accts, x).nonce
                       = get_or_create_account(f, x).nonce
<1> DEFINE upTo(c) == {d \in C : Precedes(d, c)}
           fits(c) == get_or_create_account(f, c.to).balance + TotalTo(upTo(c), c.to) \in U64
           done == {c \in C : \A d \in upTo(c) : fits(d)}
           paid == {c.to : c \in C}
           P == [x \in Address |-> TotalTo(C, x)]
           g == [x \in DOMAIN f \cup paid |->
                   IF x \in paid THEN Credited(get_or_create_account(f, x), TotalTo(C, x))
                   ELSE f[x]]
<1>1. ASSUME NEW a \in Address, NEW D \in SUBSET C
      PROVE  /\ TotalTo(D, a) \in Nat
             /\ get_or_create_account(f, a).balance + TotalTo(D, a) \in U64
  <2>. DEFINE E == {d \in D : d.to = a}
  <2>1. E \in SUBSET C
    OBVIOUS
  <2>2. TotalAmount(E) \in Nat /\ TotalAmount(C) \in Nat /\ TotalAmount(E) <= TotalAmount(C)
    BY <2>1, AmountSubset
  <2>3. TotalTo(D, a) = TotalAmount(E)
    BY DEF TotalTo
  <2>4. get_or_create_account(f, a).balance \in Nat
    BY LoadedAccount, AccountFields
  <2>5. TotalBalance(f) \in Nat /\ get_or_create_account(f, a).balance <= TotalBalance(f)
    BY HoldingBound
  <2>. HIDE DEF E
  <2>. QED
    BY <2>2, <2>3, <2>4, <2>5, WidthAssumption DEF U64
<1>2. done = C
  <2>1. ASSUME NEW d \in C PROVE fits(d)
    <3>1. d.to \in Address /\ upTo(d) \in SUBSET C
      BY DEF IsCredits
    <3>. HIDE DEF upTo
    <3>. QED
      BY <1>1, <3>1
  <2>. HIDE DEF fits
  <2>. QED
    BY <2>1
<1>3. CreditAll(f, C).ok /\ CreditAll(f, C).accts = g
  <2>. DEFINE h == [x \in DOMAIN f \cup {c.to : c \in done} |->
                      IF x \in {c.to : c \in done}
                      THEN Credited(get_or_create_account(f, x), TotalTo(done, x))
                      ELSE f[x]]
              full == done = C
  <2>1. CreditAll(f, C) = [ok |-> full, accts |-> h]
    BY DEF CreditAll
  <2>2. full = TRUE
    BY <1>2
  <2>. HIDE DEF done
  <2>3. h = g
    BY <1>2, Zenon
  <2>. HIDE DEF full, h
  <2>4. CreditAll(f, C).ok = full /\ CreditAll(f, C).accts = h
    BY <2>1
  <2>. QED
    BY <2>2, <2>3, <2>4
<1>4. paid \subseteq Address
  BY DEF IsCredits
<1>5. ASSUME NEW x \in Address
      PROVE  /\ get_or_create_account(g, x) \in Account
             /\ Coins(get_or_create_account(g, x)) = Coins(get_or_create_account(f, x)) + P[x]
             /\ get_or_create_account(g, x).nonce = get_or_create_account(f, x).nonce
             /\ P[x] \in Nat
  <2>. DEFINE acc == get_or_create_account(f, x)
              n == TotalTo(C, x)
  <2>1. acc \in Account /\ n \in Nat /\ acc.balance + n \in U64
    BY <1>1, LoadedAccount
  <2>2. P[x] = n
    OBVIOUS
  <2>3. CASE x \in paid
    <3>1. get_or_create_account(g, x) = Credited(acc, n)
      BY <2>3 DEF get_or_create_account
    <3>. HIDE DEF acc, n, g, P
    <3>. QED
      BY <2>1, <2>2, <3>1, CreditedAccount DEF acc
  <2>4. CASE x \notin paid
    <3>1. get_or_create_account(g, x) = acc
      BY <2>4 DEF get_or_create_account
    <3>2. {c \in C : c.to = x} = {}
      BY <2>4
    <3>3. n = 0
      BY <3>2, AmountEmpty DEF TotalTo
    <3>4. Coins(acc) \in Nat
      BY <2>1, AccountFields DEF Coins
    <3>. HIDE DEF n, g, P
    <3>. QED
      BY <2>1, <2>2, <3>1, <3>3, <3>4
  <2>. QED
    BY <2>3, <2>4
<1>6. IsAccountMap(g)
  <2>1. \A x \in DOMAIN g : g[x] \in Account
    <3>1. DOMAIN g \subseteq Address
      BY <1>4 DEF IsAccountMap
    <3>2. \A x \in DOMAIN g : get_or_create_account(g, x) = g[x]
      BY DEF get_or_create_account
    <3>. HIDE DEF g
    <3>. QED
      BY <1>5, <3>1, <3>2
  <2>2. DOMAIN g \subseteq Address /\ g = [x \in DOMAIN g |-> g[x]]
    BY <1>4 DEF IsAccountMap
  <2>. HIDE DEF g
  <2>. QED
    BY <2>1, <2>2 DEF IsAccountMap
<1>7. \A x : get_or_create_account(g, x).nonce = get_or_create_account(f, x).nonce
  <2>1. ASSUME NEW x, x \notin Address
        PROVE  get_or_create_account(g, x) = get_or_create_account(f, x)
    BY <1>4, <2>1 DEF get_or_create_account, IsAccountMap
  <2>. QED
    BY <1>5, <2>1
<1>. HIDE DEF g
<1>8. TotalBalance(g) = TotalBalance(f) + TotalAmount(C)
  <2>. DEFINE F == [x \in Address |-> Coins(get_or_create_account(f, x))]
              G == [x \in Address |-> Coins(get_or_create_account(g, x))]
  <2>1. /\ \A x \in Address : F[x] \in Nat
        /\ TotalBalance(f) = SumFunctionOnSet(F, Address)
    BY TotalOverAddresses
  <2>2. TotalBalance(g) = SumFunctionOnSet(G, Address)
    BY <1>6, TotalOverAddresses
  <2>3. \A x \in Address : F[x] \in Int /\ P[x] \in Int /\ G[x] = F[x] + P[x]
    <3>. HIDE DEF P
    <3>. QED
      BY <1>5, <2>1
  <2>4. SumFunctionOnSet(P, Address) = TotalAmount(C)
    BY GroupByReceiver
  <2>. HIDE DEF F, G, P
  <2>5. SumFunctionOnSet(G, Address) = SumFunctionOnSet(F, Address) + SumFunctionOnSet(P, Address)
    <3>1. IsFiniteSet(Address)
      BY AddressAssumption
    <3>. QED
      BY <2>3, <3>1, SumPlus
  <2>. QED
    BY <2>1, <2>2, <2>4, <2>5
<1>. QED
  BY <1>3, <1>6, <1>7, <1>8

\* m makes the entries K of the tree p into credits, one for one.
PaysEntries(m, p, K) ==
    /\ IsFiniteSet(K)
    /\ \A k \in K : m[k].to \in Address /\ m[k].amount = p[k] /\ p[k] \in Nat
    /\ \A j \in K : \A k \in K : m[j] = m[k] => j = k

\* Credits made one for one from the entries of a tree add up to the entries.
LEMMA CreditsOfEntries ==
    ASSUME NEW m, NEW p, NEW K, PaysEntries(m, p, K)
    PROVE  LET C == {m[k] : k \in K} IN
           IsCredits(C) /\ TotalAmount(C) = SumFunctionOnSet(p, K)
<1>. USE DEF PaysEntries
<1> DEFINE Img(s) == {m[k] : k \in s}
           Right(s) == IsFiniteSet(Img(s)) /\ TotalAmount(Img(s)) = SumFunctionOnSet(p, s)
           T == {s \in SUBSET K : ~Right(s)}
<1>1. ASSUME T # {}
      PROVE  FALSE
  <2>1. PICK s \in T : \A t \in SUBSET s : t \in T => t = s
    <3>1. T \subseteq SUBSET K
      OBVIOUS
    <3>. HIDE DEF T
    <3>. QED
      BY <1>1, <3>1, LeastSubset
  <2>2. s \in SUBSET K /\ ~Right(s)
    BY <2>1
  <2>3. PICK a : a \in s
    <3>1. ASSUME s = {} PROVE FALSE
      <4>1. Img(s) = {} /\ SumFunctionOnSet(p, s) = 0
        BY <3>1, SumEmpty
      <4>2. IsFiniteSet(Img(s)) /\ TotalAmount(Img(s)) = 0
        BY <4>1, AmountEmpty, FS_EmptySet
      <4>. QED
        BY <2>2, <4>1, <4>2
    <3>. QED
      BY <3>1
  <2>. DEFINE less == s \ {a}
              D == Img(less)
              C == Img(s)
              c == m[a]
  <2>4. IsFiniteSet(D) /\ TotalAmount(D) = SumFunctionOnSet(p, less)
    <3>1. less \in SUBSET s /\ less # s /\ less \in SUBSET K
      BY <2>2, <2>3
    <3>2. Right(less)
      BY <2>1, <3>1
    <3>. QED
      BY <3>2
  <2>5. C = D \cup {c} /\ c \in C
    BY <2>3
  <2>6. C \ {c} = D
    <3>1. c \notin D
      BY <2>2, <2>3
    <3>. HIDE DEF C, D, c
    <3>. QED
      BY <2>5, <3>1
  <2>7. IsFiniteSet(C)
    <3>. HIDE DEF C, D, c
    <3>. QED
      BY <2>4, <2>5, FS_AddElement
  <2>8. IsCredits(C)
    <3>1. \A d \in C : d.to \in Address /\ d.amount \in Nat
      BY <2>2
    <3>. HIDE DEF C
    <3>. QED
      BY <2>7, <3>1 DEF IsCredits
  <2>9. TotalAmount(C) = c.amount + TotalAmount(D)
    <3>. HIDE DEF C, D, c
    <3>1. TotalAmount(C) = c.amount + TotalAmount(C \ {c})
      BY <2>5, <2>8, AmountRemove
    <3>. QED
      BY <2>6, <3>1
  <2>10. SumFunctionOnSet(p, s) = p[a] + SumFunctionOnSet(p, less)
    <3>1. IsFiniteSet(s) /\ \A k \in s : p[k] \in Int
      BY <2>2, FS_Subset
    <3>. QED
      BY <2>3, <3>1, SumRemove
  <2>11. c.amount = p[a]
    BY <2>2, <2>3
  <2>12. TotalAmount(C) = SumFunctionOnSet(p, s)
    <3>. HIDE DEF C, D, c, less
    <3>. QED
      BY <2>4, <2>9, <2>10, <2>11
  <2>. QED
    BY <2>2, <2>7, <2>12
<1>2. Right(K)
  <2>1. K \notin T
    BY <1>1
  <2>. QED
    BY <2>1
<1>3. \A c \in Img(K) : c.to \in Address /\ c.amount \in Nat
  OBVIOUS
<1>4. IsCredits(Img(K))
  <2>. DEFINE C == Img(K)
  <2>1. IsFiniteSet(C) /\ \A c \in C : c.to \in Address /\ c.amount \in Nat
    BY <1>2, <1>3
  <2>. HIDE DEF C
  <2>2. IsCredits(C)
    BY <2>1 DEF IsCredits
  <2>. QED
    BY <2>2 DEF C
<1>. QED
  BY <1>2, <1>4

-----------------------------------------------------------------------------
(***************************************************************************)
(* Credits and fees that fit.                                              *)
(***************************************************************************)
\* credit_account of coins that fit.
LEMMA CreditTotals ==
    ASSUME NEW f, IsAccountMap(f), NEW a \in Address, NEW n \in Nat,
           TotalBalance(f) + n <= MaxU64
    PROVE  LET r == credit_account(f, a, n) IN
           r.ok /\ TotalBalance(r.accts) = TotalBalance(f) + n
<1> DEFINE acc == get_or_create_account(f, a)
           new == Credited(acc, n)
           g == save_account(f, a, new)
<1>1. acc \in Account
  BY LoadedAccount
<1>2. TotalBalance(f) \in Nat /\ acc.balance <= TotalBalance(f)
  BY HoldingBound
<1>3. acc.balance + n \in U64
  <2>. HIDE DEF acc
  <2>. QED
    BY <1>1, <1>2, WidthAssumption, AccountFields DEF U64
<1>4. credit_account(f, a, n) = Ok(g)
  BY <1>3 DEF credit_account
<1>5. new \in Account /\ Coins(new) = Coins(acc) + n /\ Coins(acc) \in Nat
  <2>. HIDE DEF acc
  <2>. QED
    BY <1>1, <1>3, CreditedAccount, AccountFields DEF Coins
<1>. HIDE DEF new
<1>6. TotalBalance(g) = TotalBalance(f) - Coins(acc) + Coins(new)
  BY <1>5, SavedAccount
<1>. HIDE DEF g, acc
<1>7. TotalBalance(g) = TotalBalance(f) + n
  BY <1>2, <1>5, <1>6
<1>. QED
  BY <1>4, <1>7 DEF Ok

\* A fee whose treasury share fits.
LEMMA FeeSplitTotals ==
    ASSUME NEW f, IsAccountMap(f), NEW fee \in Nat,
           TotalBalance(f) + fee \div 10 <= MaxU64
    PROVE  LET r == apply_fee_split(f, fee) IN
           r.ok /\ TotalBalance(r.accts) = TotalBalance(f) + fee \div 10
<1>1. PICK n \in Nat : n = fee \div 10
  OBVIOUS
<1>2. TotalBalance(f) \in Nat
  BY HoldingBound, TreasuryAssumption
<1>3. CASE n > 0
  <2>1. apply_fee_split(f, fee) = credit_account(f, Treasury, n)
    BY <1>1, <1>3 DEF apply_fee_split
  <2>2. TotalBalance(f) + n <= MaxU64
    BY <1>1
  <2>3. LET r == credit_account(f, Treasury, n) IN
        r.ok /\ TotalBalance(r.accts) = TotalBalance(f) + n
    BY <2>2, TreasuryAssumption, CreditTotals
  <2>. QED
    BY <1>1, <2>1, <2>3
<1>4. CASE ~(n > 0)
  <2>1. apply_fee_split(f, fee) = Ok(f) /\ n = 0
    BY <1>1, <1>4 DEF apply_fee_split
  <2>. QED
    BY <1>1, <1>2, <2>1 DEF Ok
<1>. QED
  BY <1>3, <1>4

-----------------------------------------------------------------------------
(***************************************************************************)
(* Blocks: ApplyAll, a fold over the indices of a sequence, is reached     *)
(* transaction by transaction.                                             *)
(***************************************************************************)
\* The largest of some indices is one of them.
LEMMA LargestIndex ==
    ASSUME NEW k \in Nat, NEW s \in SUBSET (1..k), s # {}
    PROVE  Max(s) \in s
<1> DEFINE T == {k - x : x \in s}
<1>1. T \subseteq Nat /\ T # {}
  <2>1. \A x \in 1..k : k - x \in Nat
    OBVIOUS
  <2>2. T \subseteq Nat
    BY <2>1
  <2>. QED
    BY <2>2
<1>2. PICK m \in T : \A n \in T : m <= n
  <2>. HIDE DEF T
  <2>. QED
    BY <1>1, LeastNat
<1>3. PICK x \in s : m = k - x
  OBVIOUS
<1>4. \A y \in s : x >= y
  <2>1. ASSUME NEW y \in s PROVE x >= y
    <3>1. k - y \in T
      OBVIOUS
    <3>2. k - x <= k - y
      BY <1>2, <1>3, <3>1
    <3>. QED
      BY <3>2
  <2>. QED
    BY <2>1
<1>. QED
  BY <1>4 DEF Max

\* The largest of the first i indices is i.
LEMMA LastIndex ==
    ASSUME NEW i \in Nat, i # 0
    PROVE  Max(1..i) = i /\ (1..i) \ {i} = 1..(i - 1)
<1>1. i \in 1..i /\ \A y \in 1..i : i >= y
  OBVIOUS
<1>2. \A x \in 1..i : (\A y \in 1..i : x >= y) => x = i
  BY <1>1
<1>3. Max(1..i) = i
  BY <1>1, <1>2 DEF Max
<1>4. (1..i) \ {i} = 1..(i - 1)
  OBVIOUS
<1>. QED
  BY <1>3, <1>4

\* A transaction returns Ok or Err.
LEMMA TransactionReturns ==
    ASSUME NEW f, NEW tx
    PROVE  LET r == apply_transaction(f, tx) IN
           r.ok \in BOOLEAN /\ r = [ok |-> r.ok, accts |-> r.accts]
<1> DEFINE Returns(r) == r.ok \in BOOLEAN /\ r = [ok |-> r.ok, accts |-> r.accts]
<1>1. \A g : Returns(Ok(g)) /\ Returns(Err(g))
  BY DEF Ok, Err
<1>2. \A g, a, n : Returns(credit_account(g, a, n))
  <2>. HIDE DEF Returns
  <2>. QED
    BY <1>1 DEF credit_account
<1>3. \A g, n : Returns(apply_fee_split(g, n))
  <2>. HIDE DEF Returns
  <2>. QED
    BY <1>1, <1>2 DEF apply_fee_split
<1>. HIDE DEF Returns
<1>4. Returns(apply_transfer(f, tx))
  BY <1>1, <1>3 DEF apply_transfer
<1>5. Returns(apply_stake_lock(f, tx))
  BY <1>1, <1>3 DEF apply_stake_lock
<1>6. Returns(apply_stake_unlock(f, tx))
  BY <1>1, <1>3 DEF apply_stake_unlock
<1>7. Returns(apply_fee_only(f, tx))
  BY <1>1, <1>3 DEF apply_fee_only
<1>8. Returns(apply_transaction(f, tx))
  BY <1>4, <1>5, <1>6, <1>7 DEF apply_transaction
<1>. QED
  BY <1>8 DEF Returns

\* g[i] is what the first i of the transactions return, for i up to n.
Partial(g, f, txs, n) ==
    /\ g[0] = Ok(f)
    /\ \A i \in 1..n : g[i] = ApplyNext(g[i - 1], txs[i])

\* h is the fold's table, over every subset of the indices 1..k.
FoldTable(h, f, txs, k) ==
    h = [s \in SUBSET (1..k) |-> IF s = {} THEN Ok(f) ELSE ApplyNext(h[s \ {Max(s)}], txs[Max(s)])]

\* ApplyAll is the last entry of such a table.
LEMMA ApplyAllByDefinition ==
    ASSUME NEW f, NEW k \in Nat, NEW txs, DOMAIN txs = 1..k
    PROVE  ApplyAll(f, txs) = (CHOOSE h : FoldTable(h, f, txs, k))[1..k]
  BY DEF ApplyAll, FoldLeft, MapThenFoldSet, FoldTable

\* There is a table.  Smallest counterexample: a size up to which the subsets
\* cannot be tabulated although they can up to the size below it.
LEMMA FoldTableExists ==
    ASSUME NEW f, NEW k \in Nat, NEW txs
    PROVE  \E h : FoldTable(h, f, txs, k)
<1> DEFINE S == 1..k
           Small(n) == {s \in SUBSET S : Cardinality(s) <= n}
           Entry(h, s) == IF s = {} THEN Ok(f) ELSE ApplyNext(h[s \ {Max(s)}], txs[Max(s)])
           Table(h, n) == h = [s \in Small(n) |-> Entry(h, s)]
           T == {n \in 0..k : ~ \E h : Table(h, n)}
<1>0. IsFiniteSet(S) /\ Cardinality(S) = k
  BY FS_Interval
<1>1. \A s \in SUBSET S : IsFiniteSet(s) /\ Cardinality(s) \in Nat /\ Cardinality(s) <= k
  <2>. HIDE DEF S
  <2>. QED
    BY <1>0, FS_Subset, FS_CardinalityType
<1>2. Small(k) = SUBSET S
  BY <1>1
<1>3. \A s \in SUBSET S : s # {} => /\ s \ {Max(s)} \in SUBSET S
                                   /\ Cardinality(s \ {Max(s)}) = Cardinality(s) - 1
  <2>1. ASSUME NEW s \in SUBSET S, s # {}
        PROVE  Max(s) \in s
    BY <2>1, LargestIndex
  <2>. HIDE DEF S
  <2>. QED
    BY <2>1, <1>1, FS_RemoveElement
<1>. HIDE DEF S
<1>4. T = {}
  <2>1. ASSUME T # {}
        PROVE  FALSE
    <3>1. PICK n \in T : \A j \in T : n <= j
      <4>1. T \subseteq Nat
        OBVIOUS
      <4>. HIDE DEF T
      <4>. QED
        BY <2>1, <4>1, LeastNat
    <3>2. n \in 0..k /\ n \in Nat
      BY <3>1
    <3>3. CASE n = 0
      <4> DEFINE h == [s \in Small(0) |-> Ok(f)]
      <4>1. \A s \in Small(0) : s = {}
        BY <1>1, FS_EmptySet
      <4>2. h = [s \in Small(0) |-> Entry(h, s)]
        <5>1. \A s \in Small(0) : Entry(h, s) = Ok(f)
          BY <4>1
        <5>. HIDE DEF Entry, Small
        <5>. QED
          BY <5>1
      <4>. HIDE DEF h, Entry, Small
      <4>. QED
        BY <4>2, <3>1, <3>3
    <3>4. CASE n # 0
      <4>1. n - 1 \in 0..k /\ n - 1 < n
        BY <3>2, <3>4
      <4>2. n - 1 \notin T
        <5>. HIDE DEF T
        <5>. QED
          BY <3>1, <4>1, <3>2
      <4>3. PICK g : Table(g, n - 1)
        BY <4>1, <4>2
      <4> DEFINE h == [s \in Small(n) |-> Entry(g, s)]
      <4>4. ASSUME NEW s \in Small(n - 1)
            PROVE  s \in Small(n) /\ h[s] = g[s]
        <5>1. s \in Small(n)
          BY <1>1, <3>2
        <5>2. g[s] = Entry(g, s)
          <6>. HIDE DEF Entry, Small
          <6>1. g = [t \in Small(n - 1) |-> Entry(g, t)]
            BY <4>3
          <6>. QED
            BY <6>1
        <5>. QED
          BY <5>1, <5>2
      <4>5. ASSUME NEW s \in Small(n)
            PROVE  Entry(h, s) = Entry(g, s)
        <5>1. CASE s = {}
          BY <5>1
        <5>2. CASE s # {}
          <6>1. s \ {Max(s)} \in Small(n - 1)
            BY <5>2, <1>1, <1>3, <3>2
          <6>2. h[s \ {Max(s)}] = g[s \ {Max(s)}]
            BY <6>1, <4>4
          <6>. HIDE DEF h, Small
          <6>. QED
            BY <6>2
        <5>. QED
          BY <5>1, <5>2
      <4>6. h = [s \in Small(n) |-> Entry(h, s)]
        <5> DEFINE e == [s \in Small(n) |-> Entry(h, s)]
        <5>1. \A s \in Small(n) : h[s] = e[s]
          BY <4>5
        <5>. HIDE DEF Entry, Small
        <5>. QED
          BY <5>1
      <4>. HIDE DEF h, Entry, Small
      <4>. QED
        BY <4>6, <3>1
    <3>. QED
      BY <3>3, <3>4
  <2>. QED
    BY <2>1
<1>5. PICK h : Table(h, k)
  <2>. HIDE DEF Table
  <2>1. k \in 0..k
    OBVIOUS
  <2>. QED
    BY <1>4, <2>1
<1>6. h = [s \in SUBSET S |-> Entry(h, s)]
  <2>. HIDE DEF Entry, Small
  <2>. QED
    BY <1>2, <1>5
<1>. QED
  BY <1>6 DEF FoldTable, S

\* Induction up to k, over the set of the indices a statement holds for.
LEMMA UpTo ==
    ASSUME NEW k \in Nat, NEW S, 0 \in S, \A i \in 1..k : i - 1 \in S => i \in S
    PROVE  \A i \in 0..k : i \in S
<1> DEFINE T == {i \in 0..k : i \notin S}
<1>1. ASSUME T # {} PROVE FALSE
  <2>1. PICK i \in T : \A j \in T : i <= j
    <3>1. T \subseteq Nat
      OBVIOUS
    <3>. HIDE DEF T
    <3>. QED
      BY <1>1, <3>1, LeastNat
  <2>2. i \in 0..k /\ i \notin S /\ i # 0
    OBVIOUS
  <2>3. i - 1 \in 0..k /\ ~(i <= i - 1) /\ i \in 1..k
    BY <2>2
  <2>4. i - 1 \notin T
    <3>. HIDE DEF T
    <3>. QED
      BY <2>1, <2>3
  <2>. QED
    BY <2>2, <2>3, <2>4
<1>. QED
  BY <1>1

\* The entries of a table at the first i indices, for i up to k.
LEMMA TablePrefixes ==
    ASSUME NEW f, NEW k \in Nat, NEW txs, NEW h, FoldTable(h, f, txs, k)
    PROVE  \E g : Partial(g, f, txs, k) /\ g[k] = h[1..k]
<1>1. h[{}] = Ok(f)
  BY DEF FoldTable
<1>2. ASSUME NEW i \in 1..k
      PROVE  h[1..i] = ApplyNext(h[1..(i - 1)], txs[i])
  <2>1. 1..i \in SUBSET (1..k) /\ 1..i # {} /\ i \in Nat /\ i # 0
    OBVIOUS
  <2>2. Max(1..i) = i /\ (1..i) \ {i} = 1..(i - 1)
    BY <2>1, LastIndex
  <2>3. PICK s : s = 1..i
    OBVIOUS
  <2>4. h[s] = ApplyNext(h[s \ {Max(s)}], txs[Max(s)])
    BY <2>1, <2>3 DEF FoldTable
  <2>. QED
    BY <2>2, <2>3, <2>4
<1>3. PICK g : g = [i \in 0..k |-> h[1..i]]
  OBVIOUS
<1>4. 1..0 = {} /\ 0 \in 0..k /\ k \in 0..k /\ \A i \in 1..k : i \in 0..k /\ i - 1 \in 0..k
  OBVIOUS
<1>5. g[0] = Ok(f) /\ g[k] = h[1..k]
  BY <1>1, <1>3, <1>4
<1>6. \A i \in 1..k : g[i] = ApplyNext(g[i - 1], txs[i])
  BY <1>2, <1>3, <1>4
<1>. QED
  BY <1>5, <1>6 DEF Partial

\* ApplyAll is reached transaction by transaction.
LEMMA ApplyAllByPartial ==
    ASSUME NEW f, NEW k \in Nat, NEW txs, DOMAIN txs = 1..k
    PROVE  \E g : Partial(g, f, txs, k) /\ ApplyAll(f, txs) = g[k]
<1> DEFINE H == CHOOSE h : FoldTable(h, f, txs, k)
<1>1. FoldTable(H, f, txs, k)
  BY FoldTableExists
<1>2. ApplyAll(f, txs) = H[1..k]
  BY ApplyAllByDefinition
<1>. HIDE DEF H
<1>. QED
  BY <1>1, <1>2, TablePrefixes

\* Transaction by transaction one arrives at ApplyAll.
LEMMA ApplyAllIsPartial ==
    ASSUME NEW f, NEW k \in Nat, NEW txs, DOMAIN txs = 1..k, NEW g, Partial(g, f, txs, k)
    PROVE  ApplyAll(f, txs) = g[k]
<1>1. PICK h : Partial(h, f, txs, k) /\ ApplyAll(f, txs) = h[k]
  BY ApplyAllByPartial
<1> DEFINE S == {i \in 0..k : h[i] = g[i]}
<1>2. 0 \in S
  BY <1>1 DEF Partial
<1>3. \A i \in 1..k : i - 1 \in S => i \in S
  BY <1>1 DEF Partial
<1>4. k \in 0..k
  OBVIOUS
<1>5. k \in S
  <2>. HIDE DEF S
  <2>. QED
    BY <1>2, <1>3, <1>4, UpTo
<1>. QED
  BY <1>1, <1>5
=============================================================================
