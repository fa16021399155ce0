-------------------------------- MODULE Numbers --------------------------------
(***************************************************************************)
(* Quotients, and induction and recursion over the natural numbers in a    *)
(* form the provers can use: about sets and functions, where the library's *)
(* theorems are about operators.                                           *)
(***************************************************************************)
EXTENDS Integers, FiniteSetsExt, WellFoundedInduction, TLAPS

\* A set of natural numbers has a least element.
LEMMA MinIn ==
  ASSUME NEW S \in SUBSET Nat, S # {}
  PROVE  Min(S) \in S /\ \A y \in S : Min(S) <= y
<1>1. PICK x \in S : \A y \in S : <<y, x>> \notin OpToRel(<, Nat)
  BY NatLessThanWellFounded, WFMin
<1>2. \A y \in S : ~(y < x)
  BY <1>1 DEF OpToRel
<1>3. \A y \in S : x <= y
  BY <1>2
<1> QED BY <1>3 DEF Min

\* A set that holds 0 and the successor of each of its numbers holds them all.
LEMMA SetInduction ==
  ASSUME NEW S, 0 \in S, \A n \in Nat : n \in S => n + 1 \in S
  PROVE  Nat \subseteq S
<1> DEFINE Out == Nat \ S
<1> SUFFICES ASSUME Out # {} PROVE FALSE
  OBVIOUS
<1>1. Out \in SUBSET Nat
  OBVIOUS
<1>2. PICK m : m = Min(Out)
  OBVIOUS
<1>3. m \in Out /\ \A y \in Out : m <= y
  BY <1>1, <1>2, MinIn
<1>4. m \in Nat /\ m # 0
  BY <1>3
<1>5. m - 1 \in Nat /\ m - 1 \in S
  BY <1>3, <1>4
<1>6. (m - 1) + 1 \in S
  BY <1>5
<1> QED BY <1>3, <1>4, <1>6

-----------------------------------------------------------------------------
(* Functions defined by recursion. F gives the value at n + 1 from n + 1   *)
(* and the value at n.                                                     *)

Recursive(g, n, s, F) == g[0] = s /\ \A k \in 0 .. n - 1 : g[k + 1] = F[<<k + 1, g[k]>>]

Steps(S, F) == \A k \in Nat : \A x \in S : F[<<k, x>>] \in S

LEMMA RecursiveAgree ==
  ASSUME NEW F, NEW s, NEW n \in Nat, NEW m \in Nat, n <= m,
         NEW g, NEW h, Recursive(g, n, s, F), Recursive(h, m, s, F)
  PROVE  g[n] = h[n]
<1> DEFINE Same == {k \in Nat : k <= n => g[k] = h[k]}
<1>1. 0 \in Same
  BY DEF Recursive
<1>2. ASSUME NEW k \in Nat, k \in Same PROVE k + 1 \in Same
  <2> SUFFICES ASSUME k + 1 <= n PROVE g[k + 1] = h[k + 1]
    OBVIOUS
  <2>1. k \in 0 .. n - 1 /\ k \in 0 .. m - 1 /\ g[k] = h[k]
    BY <1>2
  <2> QED BY <2>1 DEF Recursive
<1>3. n \in Same
  <2> HIDE DEF Same
  <2> QED BY <1>1, <1>2, SetInduction
<1> QED BY <1>3

LEMMA RecursiveUpTo ==
  ASSUME NEW S, NEW s \in S, NEW F, Steps(S, F),
         NEW n \in Nat
  PROVE  \E g \in [0 .. n -> S] : Recursive(g, n, s, F)
<1> DEFINE Good == {m \in Nat : \E g \in [0 .. m -> S] : Recursive(g, m, s, F)}
<1>1. 0 \in Good
  <2> DEFINE g == [k \in 0 .. 0 |-> s]
  <2>1. g \in [0 .. 0 -> S] /\ Recursive(g, 0, s, F)
    BY DEF Recursive
  <2> QED BY <2>1
<1>2. ASSUME NEW m \in Nat, m \in Good PROVE m + 1 \in Good
  <2>1. PICK g \in [0 .. m -> S] : Recursive(g, m, s, F)
    BY <1>2
  <2> DEFINE h == [k \in 0 .. m + 1 |-> IF k <= m THEN g[k] ELSE F[<<m + 1, g[m]>>]]
  <2>2. F[<<m + 1, g[m]>>] \in S
    <3>1. m + 1 \in Nat /\ g[m] \in S
      OBVIOUS
    <3> QED BY <3>1 DEF Steps
  <2>3. h \in [0 .. m + 1 -> S]
    BY <2>2
  <2>4. \A k \in 0 .. m : h[k] = g[k]
    OBVIOUS
  <2>5. h[m + 1] = F[<<m + 1, g[m]>>]
    OBVIOUS
  <2>6. Recursive(h, m + 1, s, F)
    <3>1. h[0] = s
      BY <2>1, <2>4 DEF Recursive
    <3>2. ASSUME NEW k \in 0 .. m PROVE h[k + 1] = F[<<k + 1, h[k]>>]
      <4>1. CASE k = m BY <4>1, <2>4, <2>5
      <4>2. CASE k # m
        <5>1. k \in 0 .. m - 1 /\ k + 1 \in 0 .. m
          BY <4>2
        <5>2. g[k + 1] = F[<<k + 1, g[k]>>]
          BY <5>1, <2>1 DEF Recursive
        <5> QED BY <5>1, <5>2, <2>4
      <4> QED BY <4>1, <4>2
    <3> HIDE DEF h
    <3> QED BY <3>1, <3>2 DEF Recursive
  <2> QED BY <2>3, <2>6
<1>3. n \in Good
  <2> HIDE DEF Good
  <2> QED BY <1>1, <1>2, SetInduction
<1> QED BY <1>3

\* There is a function that satisfies the recursive definition.
LEMMA RecursionExists ==
  ASSUME NEW S, NEW s \in S, NEW F, Steps(S, F)
  PROVE  \E g \in [Nat -> S] : g[0] = s /\ \A n \in Nat : g[n + 1] = F[<<n + 1, g[n]>>]
<1> DEFINE P(n) == CHOOSE g \in [0 .. n -> S] : Recursive(g, n, s, F)
           g == [n \in Nat |-> P(n)[n]]
<1>1. ASSUME NEW n \in Nat PROVE P(n) \in [0 .. n -> S] /\ Recursive(P(n), n, s, F)
  BY RecursiveUpTo
<1>2. ASSUME NEW n \in Nat PROVE g[n] \in S /\ g[n] = P(n)[n]
  <2>1. P(n) \in [0 .. n -> S]
    BY <1>1
  <2> HIDE DEF P
  <2> QED BY <2>1
<1>3. g[0] = s
  BY <1>1, <1>2 DEF Recursive
<1>4. ASSUME NEW n \in Nat PROVE g[n + 1] = F[<<n + 1, g[n]>>]
  <2> HIDE DEF P
  <2>1. n + 1 \in Nat /\ n <= n + 1 /\ n \in 0 .. (n + 1) - 1
    OBVIOUS
  <2>2. Recursive(P(n), n, s, F) /\ Recursive(P(n + 1), n + 1, s, F)
    BY <1>1, <2>1
  <2>3. P(n)[n] = P(n + 1)[n]
    BY <2>1, <2>2, RecursiveAgree
  <2>4. P(n + 1)[n + 1] = F[<<n + 1, P(n + 1)[n]>>]
    BY <2>1, <2>2 DEF Recursive
  <2> QED BY <2>1, <2>3, <2>4, <1>2
<1>5. g \in [Nat -> S]
  BY <1>2
<1> HIDE DEF g
<1> QED BY <1>3, <1>4, <1>5

\* The same up to a bound.
LEMMA BoundedInduction ==
  ASSUME NEW N \in Nat, NEW S, 0 \in S, \A n \in 0 .. N - 1 : n \in S => n + 1 \in S
  PROVE  0 .. N \subseteq S
<1> DEFINE P == {n \in Nat : n <= N => n \in S}
<1>1. 0 \in P
  OBVIOUS
<1>2. ASSUME NEW n \in Nat, n \in P PROVE n + 1 \in P
  BY <1>2
<1>3. Nat \subseteq P
  <2> HIDE DEF P
  <2> QED BY <1>1, <1>2, SetInduction
<1> QED BY <1>3

\* A loop of N turns: F gives the value after turn k from k and the value before it.
Loops(S, N, F) == \A k \in 1 .. N : \A e \in S : F[<<k, e>>] \in S

LEMMA LoopExists ==
  ASSUME NEW S, NEW s \in S, NEW N \in Nat, NEW F, Loops(S, N, F)
  PROVE  \E g \in [0 .. N -> S] :
           g[0] = s /\ \A k \in 1 .. N : g[k] = F[<<k, g[k - 1]>>]
<1> DEFINE G == [p \in Nat \X S |-> IF p[1] \in 1 .. N THEN F[p] ELSE p[2]]
<1>1. ASSUME NEW k \in Nat, NEW x \in S
      PROVE  G[<<k, x>>] = IF k \in 1 .. N THEN F[<<k, x>>] ELSE x
  OBVIOUS
<1>2. Steps(S, G)
  <2> HIDE DEF G
  <2> QED BY <1>1 DEF Steps, Loops
<1>3. PICK g \in [0 .. N -> S] : Recursive(g, N, s, G)
  <2> HIDE DEF G
  <2> QED BY <1>2, RecursiveUpTo
<1>4. ASSUME NEW k \in 0 .. N, k # 0 PROVE g[k] = F[<<k, g[k - 1]>>]
  <2>1. k - 1 \in 0 .. N - 1 /\ (k - 1) + 1 = k /\ k \in 1 .. N /\ k \in Nat
    BY <1>4
  <2>2. g[k] = G[<<k, g[k - 1]>>] /\ g[k - 1] \in S
    <3> HIDE DEF G
    <3> QED BY <1>3, <2>1 DEF Recursive
  <2> HIDE DEF G
  <2> QED BY <1>1, <2>1, <2>2
<1>5. g[0] = s
  BY <1>3 DEF Recursive
<1> QED BY <1>4, <1>5

-----------------------------------------------------------------------------
(* Arithmetic.                                                             *)

LEMMA TimesGrows ==
  ASSUME NEW w \in Nat, NEW a \in Int, NEW b \in Int, a <= b
  PROVE  w * a <= w * b
OBVIOUS

LEMMA Distributes ==
  ASSUME NEW w \in Int, NEW a \in Int, NEW b \in Int
  PROVE  w * (a + b) = w * a + w * b /\ w * (a - b) = w * a - w * b /\ w * a \in Int
OBVIOUS

LEMMA Associates ==
  ASSUME NEW a \in Int, NEW b \in Int, NEW c \in Int
  PROVE  a * (b * c) = (a * b) * c /\ a * b = b * a /\ a * b \in Int
OBVIOUS

LEMMA Quotient ==
  ASSUME NEW a \in Int, NEW b \in Nat \ {0}
  PROVE  /\ a \div b \in Int /\ a % b \in 0 .. b - 1
         /\ a = b * (a \div b) + (a % b)
         /\ a >= 0 => a \div b >= 0
OBVIOUS

LEMMA QuotientUnique ==
  ASSUME NEW b \in Nat \ {0}, NEW q \in Int, NEW r \in 0 .. b - 1
  PROVE  (b * q + r) \div b = q /\ (b * q + r) % b = r
<1> DEFINE a == b * q + r
           p == a \div b
           s == a % b
<1>1. a \in Int /\ b * q \in Int
  OBVIOUS
<1>2. p \in Int /\ s \in 0 .. b - 1 /\ a = b * p + s /\ b * p \in Int
  BY <1>1, Quotient
<1> HIDE DEF p, s
<1>3. ~(p <= q - 1)
  <2> SUFFICES ASSUME p <= q - 1 PROVE FALSE
    OBVIOUS
  <2>1. b * p <= b * (q - 1) /\ b * (q - 1) = b * q - b
    BY <1>2, TimesGrows
  <2> QED BY <1>1, <1>2, <2>1
<1>4. ~(q <= p - 1)
  <2> SUFFICES ASSUME q <= p - 1 PROVE FALSE
    OBVIOUS
  <2>1. b * q <= b * (p - 1) /\ b * (p - 1) = b * p - b
    BY <1>2, TimesGrows
  <2> QED BY <1>1, <1>2, <2>1
<1>5. p = q
  BY <1>2, <1>3, <1>4
<1> QED BY <1>1, <1>2, <1>5 DEF p, s

\* Below a product, the quotient is below the other factor.
LEMMA QuotientBelow ==
  ASSUME NEW b \in Nat \ {0}, NEW m \in Nat, NEW a \in Nat, a < b * m
  PROVE  a \div b \in 0 .. m - 1
<1> DEFINE q == a \div b
<1>0. a \in Int /\ a >= 0
  OBVIOUS
<1>1. q \in Int /\ q >= 0 /\ a % b \in 0 .. b - 1 /\ a = b * q + (a % b)
  BY <1>0, Quotient
<1> HIDE DEF q
<1>2. ~(m <= q)
  <2> SUFFICES ASSUME m <= q PROVE FALSE
    OBVIOUS
  <2>1. b * m <= b * q /\ b * m \in Int /\ b * q \in Int
    BY <1>1, TimesGrows
  <2> QED BY <1>1, <2>1
<1> QED BY <1>1, <1>2 DEF q

\* And so is what a quotient below it and a rest make.
LEMMA BelowProduct ==
  ASSUME NEW b \in Nat \ {0}, NEW m \in Nat, NEW q \in 0 .. m - 1, NEW r \in 0 .. b - 1
  PROVE  b * q + r \in Nat /\ b * q + r < b * m
<1>1. b * (q + 1) <= b * m
  BY TimesGrows
<1>2. b * (q + 1) = b * q + b /\ b * q \in Nat /\ b * m \in Int
  OBVIOUS
<1> QED BY <1>1, <1>2

LEMMA TwoQuotients ==
  ASSUME NEW b \in Nat \ {0}, NEW c \in Nat \ {0}, NEW a \in Int
  PROVE  a \div (b * c) = (a \div b) \div c
<1> DEFINE p == a \div b
           s == a % b
           q == p \div c
           t == p % c
           r == b * t + s
<1>1. p \in Int /\ s \in 0 .. b - 1 /\ a = b * p + s
  BY Quotient
<1> HIDE DEF p, s
<1>2. q \in Int /\ t \in 0 .. c - 1 /\ p = c * q + t
  BY <1>1, Quotient
<1> HIDE DEF q, t
<1>3. r \in Nat /\ r < b * c
  BY <1>1, <1>2, BelowProduct
<1>4. a = (b * c) * q + r
  <2>1. b * p = b * (c * q) + b * t
    BY <1>2, Distributes, c * q \in Int
  <2>2. b * (c * q) = (b * c) * q
    BY <1>2, Associates
  <2>3. b * t \in Int /\ (b * c) * q \in Int
    BY <1>2
  <2> QED BY <1>1, <2>1, <2>2, <2>3
<1> HIDE DEF r
<1>5. b * c \in Nat \ {0} /\ r \in 0 .. (b * c) - 1
  BY <1>3
<1>6. a \div (b * c) = q
  BY <1>2, <1>4, <1>5, QuotientUnique
<1> QED BY <1>6 DEF p, q
=============================================================================
