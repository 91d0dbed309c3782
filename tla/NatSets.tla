------------------------------ MODULE NatSets ------------------------------
(***************************************************************************)
(* Induction over the naturals, stated about sets so that it can be cited  *)
(* for any property: the property is the set of the numbers that have it.  *)
(* With it: division and remainder, and the lists of module Ordered.       *)
(***************************************************************************)
EXTENDS Integers, Ordered, WellFoundedInduction, FiniteSetTheorems, TLAPS

\* A set of naturals that is not empty has a least member.
LEMMA LeastNat ==
  ASSUME NEW T \in SUBSET Nat, T # {}
  PROVE  \E x \in T : \A y \in T : x <= y
<1> DEFINE R == {ss \in Nat \X Nat : ss[1] < ss[2]}
<1>0. IsWellFoundedOn(R, Nat)
  BY NatLessThanWellFounded DEF OpToRel
<1> HIDE DEF R
<1>1. PICK x \in T : \A y \in T : ~(<<y, x>> \in R)
  BY <1>0, WFMin
<1>2. \A y \in T : ~(y < x)
  BY <1>1 DEF R
<1>3. QED
  BY <1>2

\* A set that holds 0 and with each number the next holds every number.
LEMMA SetInduction ==
  ASSUME NEW S, 0 \in S, \A n \in Nat : n \in S => n + 1 \in S
  PROVE  \A n \in Nat : n \in S
<1> DEFINE T == {n \in Nat : n \notin S}
<1>1. SUFFICES ASSUME T # {} PROVE FALSE
  OBVIOUS
<1>2. PICK x \in T : \A y \in T : x <= y
  BY <1>1, LeastNat
<1>3. x - 1 \in Nat /\ x - 1 \notin T
  BY <1>2
<1>4. QED
  BY <1>2, <1>3

\* A set of naturals with an upper bound, not empty, has a greatest member.
LEMMA GreatestNat ==
  ASSUME NEW T \in SUBSET Nat, T # {}, NEW b \in Nat, \A x \in T : x <= b
  PROVE  \E m \in T : \A x \in T : x <= m
<1> DEFINE U == {u \in Nat : \A x \in T : x <= u}
<1>1. b \in U
  OBVIOUS
<1>2. PICK m \in U : \A u \in U : m <= u
  BY <1>1, LeastNat
<1>3. m \in T
  <2>1. SUFFICES ASSUME m \notin T PROVE FALSE
    OBVIOUS
  <2>a. PICK t \in T : TRUE
    OBVIOUS
  <2>b. \A x \in T : x \in Nat /\ x <= m /\ x # m
    BY <2>1
  <2>2. m > 0 /\ \A x \in T : x <= m - 1
    BY <2>a, <2>b
  <2>3. m - 1 \in U
    BY <2>2
  <2>4. QED
    BY <1>2, <2>3
<1>4. QED
  BY <1>2, <1>3

\* A definition by recursion over 0 .. N has a solution.
LEMMA RecursionHasSolution ==
  ASSUME NEW V, NEW a \in V, NEW N \in Nat, NEW G \in [1 .. N -> [V -> V]]
  PROVE  \E f \in [0 .. N -> V] : f[0] = a /\ \A k \in 1 .. N : f[k] = G[k][f[k - 1]]
<1> DEFINE Solves(f, m) == f[0] = a /\ \A k \in 1 .. m : f[k] = G[k][f[k - 1]]
           S == {m \in Nat : m <= N => \E f \in [0 .. m -> V] : Solves(f, m)}
<1>1. 0 \in S
  <2>1. [k \in 0 .. 0 |-> a] \in [0 .. 0 -> V] /\ Solves([k \in 0 .. 0 |-> a], 0)
    OBVIOUS
  <2>2. QED
    BY <2>1
<1>2. ASSUME NEW m \in Nat, m \in S
      PROVE  m + 1 \in S
  <2>1. SUFFICES ASSUME m + 1 <= N
                 PROVE  \E g \in [0 .. m + 1 -> V] : Solves(g, m + 1)
    OBVIOUS
  <2>2. PICK f \in [0 .. m -> V] : Solves(f, m)
    BY <1>2, <2>1
  <2> DEFINE g == [k \in 0 .. m + 1 |-> IF k = m + 1 THEN G[m + 1][f[m]] ELSE f[k]]
  <2>3. m + 1 \in 1 .. N /\ f[m] \in V /\ G[m + 1][f[m]] \in V
    BY <2>1
  <2>4. g \in [0 .. m + 1 -> V]
    BY <2>3
  <2>5. /\ g[m + 1] = G[m + 1][f[m]]
        /\ \A k \in 0 .. m : g[k] = f[k]
    OBVIOUS
  <2> HIDE DEF g
  <2>6. g[0] = a
    BY <2>2, <2>5
  <2>7. ASSUME NEW k \in 1 .. m + 1
        PROVE  g[k] = G[k][g[k - 1]]
    <3>1. CASE k = m + 1
      BY <2>5, <3>1
    <3>2. CASE k # m + 1
      <4>1. k \in 1 .. m /\ k \in 0 .. m /\ k - 1 \in 0 .. m
        BY <3>2
      <4>2. QED
        BY <2>2, <2>5, <4>1
    <3>3. QED
      BY <3>1, <3>2
  <2>8. QED
    BY <2>4, <2>6, <2>7
<1>3. \A m \in Nat : m \in S
  <2> HIDE DEF S
  <2>1. QED
    BY <1>1, <1>2, SetInduction
<1>4. QED
  BY <1>3

-----------------------------------------------------------------------------
(* Quotient and remainder.                                                 *)

\* Every number is a multiple of b and a remainder.
LEMMA DivisionExists ==
  ASSUME NEW b \in Nat, b > 0
  PROVE  \A a \in Nat : \E q \in Nat, r \in 0 .. b - 1 : a = b * q + r
<1> DEFINE S == {a \in Nat : \E q \in Nat, r \in 0 .. b - 1 : a = b * q + r}
<1>1. 0 \in S
  <2>1. 0 = b * 0 + 0 /\ 0 \in 0 .. b - 1
    OBVIOUS
  <2>2. QED
    BY <2>1
<1>2. ASSUME NEW a \in Nat, a \in S PROVE a + 1 \in S
  <2>1. PICK q \in Nat, r \in 0 .. b - 1 : a = b * q + r
    BY <1>2
  <2>2. CASE r + 1 < b
    <3>1. a + 1 = b * q + (r + 1) /\ r + 1 \in 0 .. b - 1
      BY <2>1, <2>2
    <3>2. QED
      BY <3>1
  <2>3. CASE r + 1 = b
    <3>1. b * (q + 1) = b * q + b
      OBVIOUS
    <3>2. a + 1 = b * (q + 1) + 0 /\ 0 \in 0 .. b - 1 /\ q + 1 \in Nat
      BY <2>1, <2>3, <3>1
    <3> DEFINE p == q + 1
    <3> HIDE DEF p
    <3>3. p \in Nat /\ a + 1 = b * p + 0 /\ 0 \in 0 .. b - 1
      BY <3>2 DEF p
    <3>4. QED
      BY <3>3
  <2>4. QED
    BY <2>2, <2>3
<1>3. \A a \in Nat : a \in S
  <2> HIDE DEF S
  <2>1. QED
    BY <1>1, <1>2, SetInduction
<1>4. QED
  BY <1>3

\* Only one multiple and one remainder do.
LEMMA DivisionUnique ==
  ASSUME NEW b \in Nat, b > 0, NEW q \in Nat, NEW r \in 0 .. b - 1
  PROVE  /\ (b * q + r) % b = r /\ (b * q + r) \div b = q
         /\ b * q + r \in Nat /\ b * q \in Nat
  OBVIOUS

\* The remainder and its quotient.
LEMMA Division ==
  ASSUME NEW b \in Nat, b > 0, NEW a \in Nat
  PROVE  /\ a % b \in 0 .. b - 1 /\ a \div b \in Nat
         /\ a = b * (a \div b) + (a % b)
<1>1. PICK q \in Nat, r \in 0 .. b - 1 : a = b * q + r
  BY DivisionExists
<1>2. a % b = r /\ a \div b = q
  BY <1>1, DivisionUnique
<1>3. QED
  BY <1>1, <1>2

\* The remainder of a sum with a multiple of b.
LEMMA ModMultiple ==
  ASSUME NEW b \in Nat, b > 0, NEW q \in Nat, NEW a \in Nat
  PROVE  (b * q + a) % b = a % b
<1>1. PICK p \in Nat, r \in 0 .. b - 1 : a = b * p + r
  BY DivisionExists
<1>2. b * q + a = b * (q + p) + r /\ q + p \in Nat
  BY <1>1
<1>3. (b * q + a) % b = r /\ a % b = r
  BY <1>1, <1>2, DivisionUnique
<1>4. QED
  BY <1>3

\* The remainder of a sum depends on the remainders.
LEMMA ModSum ==
  ASSUME NEW b \in Nat, b > 0, NEW a \in Nat, NEW c \in Nat
  PROVE  ((a % b) + c) % b = (a + c) % b
<1>1. PICK q \in Nat, r \in 0 .. b - 1 : a = b * q + r
  BY DivisionExists
<1>2. a % b = r
  BY <1>1, DivisionUnique
<1>3. a + c = b * q + (r + c) /\ r + c \in Nat
  BY <1>1
<1>4. (a + c) % b = (r + c) % b
  <2> DEFINE d == r + c
  <2> HIDE DEF d
  <2>1. d \in Nat /\ a + c = b * q + d
    BY <1>3 DEF d
  <2>2. (b * q + d) % b = d % b
    BY <2>1, ModMultiple
  <2>3. QED
    BY <2>1, <2>2 DEF d
<1>5. QED
  BY <1>2, <1>4

\* A remainder by a multiple of b keeps the remainder by b.
LEMMA ModMod ==
  ASSUME NEW b \in Nat, b > 0, NEW m \in Nat, m > 0, m % b = 0, NEW a \in Nat, NEW c \in Nat
  PROVE  ((a % m) + c) % b = (a + c) % b
<1>1. PICK q \in Nat, r \in 0 .. m - 1 : a = m * q + r
  BY DivisionExists
<1>2. a % m = r
  BY <1>1, DivisionUnique
<1>3. PICK p \in Nat, s \in 0 .. b - 1 : m = b * p + s
  BY DivisionExists
<1>4. s = 0
  BY <1>3, DivisionUnique
<1>5. m = b * p
  BY <1>3, <1>4
<1>6. m * q = b * (p * q) /\ p * q \in Nat
  BY <1>5
<1>7. a + c = b * (p * q) + (r + c) /\ r + c \in Nat
  BY <1>1, <1>6
<1>8. (a + c) % b = (r + c) % b
  <2> DEFINE d == r + c
             e == p * q
  <2> HIDE DEF d, e
  <2>1. d \in Nat /\ e \in Nat /\ a + c = b * e + d
    BY <1>6, <1>7 DEF d, e
  <2>2. (b * e + d) % b = d % b
    BY <2>1, ModMultiple
  <2>3. QED
    BY <2>1, <2>2 DEF d
<1>9. QED
  BY <1>2, <1>8

\* Two numbers less than b apart have different remainders.
LEMMA ModWindow ==
  ASSUME NEW b \in Nat, b > 0, NEW a \in Nat, NEW c \in Nat, a < c, c < a + b
  PROVE  a % b # c % b
<1>1. PICK p \in Nat, r \in 0 .. b - 1 : a = b * p + r
  BY DivisionExists
<1>2. PICK q \in Nat, s \in 0 .. b - 1 : c = b * q + s
  BY DivisionExists
<1>3. a % b = r /\ c % b = s
  BY <1>1, <1>2, DivisionUnique
<1>4. SUFFICES ASSUME r = s PROVE FALSE
  BY <1>3
<1>5. b * p < b * q /\ b * q < b * p + b
  BY <1>1, <1>2, <1>4
<1>6. CASE q <= p
  <2>1. q = p \/ b * p >= b * q + b
    BY <1>6
  <2>2. QED
    BY <1>5, <2>1
<1>7. CASE p < q
  <2>1. b * q >= b * p + b
    BY <1>7
  <2>2. QED
    BY <1>5, <2>1
<1>8. QED
  BY <1>6, <1>7

\* The distance of two counters, from their remainders.
LEMMA ModDistance ==
  ASSUME NEW m \in Nat, m > 0, NEW a \in Nat, NEW c \in Nat, a <= c, c < a + m
  PROVE  /\ ((c % m) + m - (a % m)) % m = c - a
         /\ c % m >= a % m => (c % m) - (a % m) = c - a
<1>1. PICK p \in Nat, r \in 0 .. m - 1 : a = m * p + r
  BY DivisionExists
<1>2. PICK q \in Nat, s \in 0 .. m - 1 : c = m * q + s
  BY DivisionExists
<1>3. a % m = r /\ c % m = s
  BY <1>1, <1>2, DivisionUnique
<1>4. c - a \in 0 .. m - 1 /\ c - a = m * q - m * p + s - r
  BY <1>1, <1>2
<1>5. q = p \/ q = p + 1
  <2>1. CASE q < p
    <3>1. m * p >= m * q + m
      BY <2>1
    <3>2. QED
      BY <1>4, <3>1
  <2>2. CASE q > p + 1
    <3>1. m * q >= m * (p + 1) + m /\ m * (p + 1) = m * p + m
      BY <2>2
    <3>2. QED
      BY <1>4, <3>1
  <2>3. QED
    BY <2>1, <2>2
<1>6. CASE q = p
  <2>1. c - a = s - r /\ s >= r
    BY <1>4, <1>6
  <2>2. s + m - r = m * 1 + (s - r) /\ s - r \in 0 .. m - 1
    BY <2>1
  <2>3. (s + m - r) % m = s - r
    BY <2>2, DivisionUnique
  <2>4. QED
    BY <1>3, <2>1, <2>3
<1>7. CASE q = p + 1
  <2>1. m * q = m * p + m
    BY <1>7
  <2>2. c - a = s + m - r /\ s < r
    BY <1>4, <2>1
  <2>3. s + m - r \in 0 .. m - 1 /\ s + m - r = m * 0 + (s + m - r)
    BY <2>2
  <2>4. (s + m - r) % m = s + m - r
    BY <2>3, DivisionUnique
  <2>5. QED
    BY <1>3, <2>2, <2>4
<1>8. QED
  BY <1>5, <1>6, <1>7
-----------------------------------------------------------------------------
(* Lists in increasing order.                                              *)

Increasing(f, n) == \A i, k \in 1 .. n : i < k => f[i] < f[k]

\* Every finite set of positive numbers can be listed in ascending order.
LEMMA AscendingExists ==
  \A N \in Nat : \A S \in SUBSET (1 .. N) :
    /\ IsFiniteSet(S) /\ Cardinality(S) \in Nat
    /\ \E f \in [1 .. Cardinality(S) -> S] : Increasing(f, Cardinality(S))
<1> DEFINE Listed(S) == /\ IsFiniteSet(S) /\ Cardinality(S) \in Nat
                        /\ \E f \in [1 .. Cardinality(S) -> S] : Increasing(f, Cardinality(S))
           Good == {N \in Nat : \A S \in SUBSET (1 .. N) : Listed(S)}
<1>1. 0 \in Good
  <2>1. Listed({})
    <3>1. IsFiniteSet({}) /\ Cardinality({}) = 0
      BY FS_EmptySet
    <3> DEFINE f == [i \in 1 .. 0 |-> 0]
               n == Cardinality({})
    <3> HIDE DEF n
    <3>2. f \in [1 .. 0 -> {}] /\ Increasing(f, 0)
      BY DEF Increasing
    <3> HIDE DEF f
    <3>3. n = 0 /\ n \in Nat
      BY <3>1 DEF n
    <3>4. f \in [1 .. n -> {}] /\ Increasing(f, n)
      BY <3>2, <3>3
    <3>5. \E h \in [1 .. n -> {}] : Increasing(h, n)
      BY <3>4
    <3>6. QED
      BY <3>1, <3>3, <3>5 DEF n
  <2>2. \A S \in SUBSET (1 .. 0) : S = {}
    OBVIOUS
  <2> HIDE DEF Listed
  <2>3. QED
    BY <2>1, <2>2
<1>2. ASSUME NEW N \in Nat, N \in Good
      PROVE  N + 1 \in Good
  <2>1. ASSUME NEW S \in SUBSET (1 .. N + 1)
        PROVE  Listed(S)
    <3> DEFINE T == S \ {N + 1}
    <3>1. T \in SUBSET (1 .. N)
      OBVIOUS
    <3>2. IsFiniteSet(T) /\ Cardinality(T) \in Nat
      BY <1>2, <3>1
    <3>3. PICK f \in [1 .. Cardinality(T) -> T] : Increasing(f, Cardinality(T))
      BY <1>2, <3>1
    <3>4. CASE N + 1 \notin S
      <4>1. T = S
        BY <3>4
      <4>2. QED
        BY <3>2, <3>3, <4>1
    <3>5. CASE N + 1 \in S
      <4> DEFINE n == Cardinality(T)
                 g == [k \in 1 .. n + 1 |-> IF k = n + 1 THEN N + 1 ELSE f[k]]
      <4>1. S = T \cup {N + 1} /\ N + 1 \notin T
        BY <3>5
      <4>2. IsFiniteSet(S) /\ Cardinality(S) = n + 1
        <5> HIDE DEF T
        <5>1. QED
          BY <3>2, <4>1, FS_AddElement
      <4>3. n \in Nat /\ n + 1 \in Nat /\ \A k \in 1 .. n + 1 : k = n + 1 \/ k \in 1 .. n
        BY <3>2, SMTT(30)
      <4>4. \A k \in 1 .. n : f[k] \in T /\ f[k] \in S /\ f[k] < N + 1
        <5>1. \A x \in T : x \in S /\ x < N + 1
          BY <3>1
        <5> HIDE DEF T, n
        <5>2. \A k \in 1 .. n : f[k] \in T
          BY <3>3 DEF n
        <5>3. QED
          BY <5>1, <5>2
      <4>5. /\ g \in [1 .. n + 1 -> S]
            /\ \A k \in 1 .. n + 1 : g[k] = IF k = n + 1 THEN N + 1 ELSE f[k]
        <5> HIDE DEF T, n
        <5>1. QED
          BY <3>5, <4>3, <4>4
      <4> HIDE DEF g
      <4>6. Increasing(f, n)
        BY <3>3
      <4> HIDE DEF n, T
      <4>7. ASSUME NEW i \in 1 .. n + 1, NEW k \in 1 .. n + 1, i < k
            PROVE  g[i] < g[k]
        <5>1. i \in 1 .. n /\ i # n + 1
          BY <4>3, <4>7
        <5>2. CASE k = n + 1
          BY <4>4, <4>5, <5>1, <5>2
        <5>3. CASE k # n + 1
          BY <4>3, <4>5, <4>6, <4>7, <5>1, <5>3 DEF Increasing
        <5>4. QED
          BY <5>2, <5>3
      <4>8. Increasing(g, n + 1)
        BY <4>7 DEF Increasing
      <4>9. QED
        BY <4>2, <4>3, <4>5, <4>8
    <3>6. QED
      BY <3>4, <3>5
  <2> HIDE DEF Listed
  <2>2. QED
    BY <2>1
<1> HIDE DEF Good
<1>3. \A N \in Nat : N \in Good
  BY <1>1, <1>2, SetInduction
<1>4. QED
  BY <1>3 DEF Good

\* The list of a set of positive numbers holds its elements, each of them and
\* in order.
LEMMA AscendingFacts ==
  ASSUME NEW N \in Nat, NEW S \in SUBSET (1 .. N)
  PROVE  /\ Ascending(S) \in [1 .. Cardinality(S) -> S]
         /\ Cardinality(S) \in 0 .. N
         /\ Ascending(S) \in Seq(S) /\ Len(Ascending(S)) = Cardinality(S)
         /\ Increasing(Ascending(S), Cardinality(S))
         /\ \A x \in S : \E i \in 1 .. Cardinality(S) : Ascending(S)[i] = x
<1> DEFINE n == Cardinality(S)
           f == Ascending(S)
<1>1. n \in Nat /\ IsFiniteSet(S)
  BY AscendingExists
<1>2. \E h \in [1 .. n -> S] : Increasing(h, n)
  BY AscendingExists
<1>3. f \in [1 .. n -> S] /\ Increasing(f, n)
  BY <1>2 DEF Ascending, Increasing
<1>4. n <= N
  <2>1. IsFiniteSet(1 .. N) /\ Cardinality(1 .. N) = N
    <3>1. IsFiniteSet(1 .. N) /\ Cardinality(1 .. N) = IF 1 > N THEN 0 ELSE N - 1 + 1
      BY FS_Interval
    <3>2. QED
      BY <3>1
  <2>2. Cardinality(S) <= Cardinality(1 .. N)
    BY <2>1, FS_Subset
  <2>3. QED
    BY <2>1, <2>2
<1> HIDE DEF f, n
<1>5. f \in Seq(S) /\ Len(f) = n
  BY <1>1, <1>3
<1>6. \A x \in S : \E i \in 1 .. n : f[i] = x
  <2>1. \A i, k \in 1 .. n : f[i] = f[k] => i = k
    <3>1. \A i \in 1 .. n : f[i] \in Int
      <4>1. \A x \in S : x \in Int
        OBVIOUS
      <4>2. QED
        BY <1>3, <4>1
    <3>2. QED
      BY <1>1, <1>3, <3>1 DEF Increasing
  <2>2. f \in Injection(1 .. n, S)
    BY <1>3, <2>1 DEF Injection, IsInjective
  <2>3. Cardinality(1 .. n) = n
    <3>1. Cardinality(1 .. n) = IF 1 > n THEN 0 ELSE n - 1 + 1
      BY <1>1, FS_Interval
    <3>2. QED
      BY <1>1, <3>1
  <2>4. f \in Surjection(1 .. n, S)
    BY <1>1, <2>2, <2>3, FS_Injection DEF n
  <2>5. QED
    BY <2>4 DEF Surjection
<1>7. QED
  BY <1>1, <1>3, <1>4, <1>5, <1>6 DEF f, n

\* t is the elements of s at the positions of S, in their order.
Picks(t, s, S) ==
  \E f \in [1 .. Len(t) -> S] :
    /\ \A i \in 1 .. Len(t) : t[i] = s[f[i]]
    /\ \A i, k \in 1 .. Len(t) : i < k => f[i] < f[k]
    /\ \A x \in S : \E i \in 1 .. Len(t) : f[i] = x

\* What is kept of a list: elements of it, in its order, and everything at the
\* positions that are kept.
LEMMA KeptFacts ==
  ASSUME NEW T, NEW s \in Seq(T), NEW S \in SUBSET (1 .. Len(s))
  PROVE  /\ Kept(s, S) \in Seq(T) /\ Len(Kept(s, S)) \in 0 .. Len(s)
         /\ Picks(Kept(s, S), s, S)
<1> DEFINE n == Cardinality(S)
           f == Ascending(S)
           K == [i \in 1 .. n |-> s[f[i]]]
<1>1. Len(s) \in Nat
  OBVIOUS
<1>2. /\ f \in [1 .. n -> S] /\ n \in 0 .. Len(s) /\ Increasing(f, n)
      /\ \A x \in S : \E i \in 1 .. n : f[i] = x
  BY <1>1, AscendingFacts
<1>3. Kept(s, S) = K
  BY DEF Kept
<1> HIDE DEF f, n
<1>4. \A i \in 1 .. n : s[f[i]] \in T
  <2>1. \A x \in S : s[x] \in T
    OBVIOUS
  <2>2. QED
    BY <1>2, <2>1
<1>5. K \in Seq(T) /\ Len(K) = n /\ \A i \in 1 .. n : K[i] = s[f[i]]
  BY <1>1, <1>2, <1>4
<1> HIDE DEF K
<1>6. Picks(K, s, S)
  BY <1>2, <1>5 DEF Increasing, Picks
<1>7. QED
  BY <1>2, <1>3, <1>5, <1>6

=============================================================================
