-------------------------- MODULE StrategiesProofs --------------------------
(***************************************************************************)
(* The invariants of Strategies, for every pool, every weight, any hash of *)
(* the virtual nodes, any window and any transactions.                     *)
(*                                                                         *)
(* The loops of the strategies are recursive functions of the turn.  That  *)
(* such a function exists is the lemma Recursion, and what holds after     *)
(* every turn follows by Climb, an induction over a set of turns.  The     *)
(* folds of a sum and of a walk are unfolded once, by functions that show  *)
(* one element at a time.                                                  *)
(***************************************************************************)
EXTENDS Strategies, FiniteSetTheorems, TLAPS

USE StrategiesAssumption

-----------------------------------------------------------------------------
(* Induction and recursion over numbers, stated with sets and functions.   *)

LEMMA LeastNumber ==
  ASSUME NEW T \in SUBSET Nat, T # {}
  PROVE  \E m \in T : \A k \in T : m <= k
<1> DEFINE R == OpToRel(<, Nat)
<1>1. IsWellFoundedOn(R, Nat) BY NatLessThanWellFounded
<1>2. \A x, y \in Nat : x < y => <<x, y>> \in R BY DEF OpToRel
<1> HIDE DEF R
<1>3. PICK x \in T : \A y \in T : ~ (<<y, x>> \in R) BY <1>1, WFMin
<1>4. \A y \in T : ~ (y < x) BY <1>2, <1>3
<1> QED BY <1>4

LEMMA Climb ==
  ASSUME NEW m \in Nat, NEW n \in Nat, NEW T, m \in T,
         \A k \in m..(n - 1) : k \in T => k + 1 \in T
  PROVE  \A k \in m..n : k \in T
<1> DEFINE S == {k \in m..n : k \notin T}
<1>1. SUFFICES ASSUME S # {} PROVE FALSE
  OBVIOUS
<1>2. S \in SUBSET Nat OBVIOUS
<1>3. PICK k \in S : \A j \in S : k <= j BY <1>1, <1>2, LeastNumber
<1>4. k \in m..n /\ k # m OBVIOUS
<1>5. k - 1 \in m..(n - 1) /\ k - 1 \notin S BY <1>3, <1>4
<1>6. k - 1 \in T BY <1>5
<1>7. (k - 1) + 1 \in T BY <1>5, <1>6
<1> QED BY <1>4, <1>7

\* A function that starts with a and goes on with F exists.
Continues(F, m, n, V) == \A k \in (m + 1)..n : \A v \in V : F[<<k, v>>] \in V
Runs(f, F, m, n, a) == \A k \in m..n : f[k] = IF k = m THEN a ELSE F[<<k, f[k - 1]>>]
Within(f, m, n, V) == DOMAIN f = m..n /\ f = [k \in m..n |-> f[k]] /\ \A k \in m..n : f[k] \in V

LEMMA Recursion ==
  ASSUME NEW m \in Nat, NEW n \in Nat, NEW V, NEW a \in V, NEW F, Continues(F, m, n, V)
  PROVE  \E f : Runs(f, F, m, n, a) /\ Within(f, m, n, V)
<1> DEFINE Run(g, j) == /\ g[m] = a
                        /\ \A k \in (m + 1)..j : g[k] = F[<<k, g[k - 1]>>] /\ g[k] \in V
           T == {j \in Nat : \E g : Run(g, j)}
<1>1. m \in T
  <2> DEFINE g == [k \in m..m |-> a]
  <2>1. Run(g, m) OBVIOUS
  <2> QED BY <2>1
<1>2. ASSUME NEW j \in m..(n - 1), j \in T PROVE j + 1 \in T
  <2>1. PICK g : Run(g, j) BY <1>2
  <2> DEFINE h == [k \in m..(j + 1) |-> IF k = j + 1 THEN F[<<j + 1, g[j]>>] ELSE g[k]]
  <2>2. h[m] = a BY <2>1
  <2>3. g[j] \in V
    <3>1. CASE j = m BY <2>1, <3>1
    <3>2. CASE j # m
      <4>1. j \in (m + 1)..j BY <3>2
      <4> QED BY <2>1, <4>1
    <3> QED BY <3>1, <3>2
  <2>4. F[<<j + 1, g[j]>>] \in V
    <3>1. j + 1 \in (m + 1)..n OBVIOUS
    <3> QED BY <2>3, <3>1 DEF Continues
  <2>5. \A k \in (m + 1)..(j + 1) : h[k] = F[<<k, h[k - 1]>>] /\ h[k] \in V
    <3> TAKE k \in (m + 1)..(j + 1)
    <3>1. CASE k = j + 1
      <4>1. h[k] = F[<<j + 1, g[j]>>] /\ h[k - 1] = g[j] BY <3>1
      <4> QED BY <2>4, <3>1, <4>1
    <3>2. CASE k # j + 1
      <4>1. k \in (m + 1)..j /\ h[k] = g[k] /\ h[k - 1] = g[k - 1] BY <3>2
      <4> QED BY <2>1, <4>1
    <3> QED BY <3>1, <3>2
  <2> HIDE DEF h
  <2>6. Run(h, j + 1) BY <2>2, <2>5
  <2>7. \E e : Run(e, j + 1) BY <2>6
  <2>8. j + 1 \in Nat OBVIOUS
  <2> HIDE DEF Run
  <2> QED BY <2>7, <2>8
<1> HIDE DEF T
<1>3. \A j \in m..n : j \in T BY <1>1, <1>2, Climb
<1>4. \E g : Run(g, n)
  <2>1. CASE m <= n
    <3>1. n \in T BY <1>3, <2>1
    <3> QED BY <3>1 DEF T
  <2>2. CASE ~(m <= n)
    <3>1. Run([k \in m..m |-> a], n) BY <2>2
    <3> QED BY <3>1
  <2> QED BY <2>1, <2>2
<1>5. PICK g : Run(g, n) BY <1>4
<1> DEFINE f == [k \in m..n |-> g[k]]
<1>6. \A k \in m..n : /\ f[k] = IF k = m THEN a ELSE F[<<k, f[k - 1]>>]
                      /\ f[k] \in V
  <2> TAKE k \in m..n
  <2>1. CASE k = m BY <1>5, <2>1
  <2>2. CASE k # m
    <3>1. k \in (m + 1)..n /\ f[k] = g[k] /\ f[k - 1] = g[k - 1] BY <2>2
    <3>2. g[k] = F[<<k, g[k - 1]>>] /\ g[k] \in V BY <1>5, <3>1
    <3> QED BY <2>2, <3>1, <3>2
  <2> QED BY <2>1, <2>2
<1>7. DOMAIN f = m..n /\ f = [k \in m..n |-> f[k]] OBVIOUS
<1> HIDE DEF f
<1>8. Runs(f, F, m, n, a) /\ Within(f, m, n, V) BY <1>6, <1>7 DEF Runs, Within
<1> QED BY <1>8

\* A function that goes on with F keeps its values.
LEMMA Stays ==
  ASSUME NEW m \in Nat, NEW n \in Nat, NEW V, NEW F, Continues(F, m, n, V), NEW c, c[m] \in V,
         \A k \in (m + 1)..n : c[k - 1] \in V => c[k] = F[<<k, c[k - 1]>>]
  PROVE  \A k \in m..n : c[k] \in V
<1> DEFINE T == {k \in Nat : c[k] \in V}
<1>1. m \in T OBVIOUS
<1>2. \A k \in m..(n - 1) : k \in T => k + 1 \in T
  <2> TAKE k \in m..(n - 1)
  <2>1. k + 1 \in (m + 1)..n /\ (k + 1) - 1 = k OBVIOUS
  <2>2. c[k] \in V => c[k + 1] = F[<<k + 1, c[k]>>] BY <2>1
  <2> QED BY <2>1, <2>2 DEF Continues
<1> HIDE DEF T
<1>3. \A k \in m..n : k \in T BY <1>1, <1>2, Climb
<1> QED BY <1>3 DEF T

LEMMA IntervalSize ==
  ASSUME NEW n \in Nat
  PROVE  IsFiniteSet(1..n) /\ Cardinality(1..n) = n
<1>1. 1 \in Int /\ n \in Int OBVIOUS
<1>2. IsFiniteSet(1..n) /\ Cardinality(1..n) = IF 1 > n THEN 0 ELSE n - 1 + 1
  BY ONLY <1>1, FS_Interval
<1> QED BY <1>2

-----------------------------------------------------------------------------
(* Metrics.                                                                *)

LEMMA AtMostNat ==
  ASSUME NEW a \in Nat, NEW b \in Nat
  PROVE  AtMost(a, b) \in Nat /\ AtMost(a, b) <= a
BY DEF AtMost

LEMMA Product ==
  ASSUME NEW n \in Nat, NEW a \in Int, NEW b \in Int, a <= b
  PROVE  n * a \in Int /\ n * b \in Int /\ n * a <= n * b
OBVIOUS

\* n \div d by its two inequalities.
LEMMA Quotient ==
  ASSUME NEW n \in Nat, NEW d \in Nat \ {0}
  PROVE  n \div d \in Nat /\ d * (n \div d) <= n /\ n < d * (n \div d) + d
<1>1. d \in Nat /\ d > 0 OBVIOUS
<1>2. n \div d \in Int BY <1>1
<1>3. d * (n \div d) <= n BY <1>1
<1>4. n < d * (n \div d) + d BY <1>1
<1>5. n \div d >= 0 BY <1>1
<1> QED BY <1>2, <1>3, <1>4, <1>5

LEMMA QuotientIs ==
  ASSUME NEW n \in Nat, NEW d \in Nat \ {0}, NEW q \in Nat, d * q <= n, n < d * q + d
  PROVE  n \div d = q
<1> DEFINE p == n \div d
<1>1. p \in Nat /\ d * p <= n /\ n < d * p + d BY Quotient
<1> HIDE DEF p
<1>2. ASSUME p < q PROVE FALSE
  <2>1. d * (p + 1) <= d * q BY <1>1, <1>2
  <2>2. d * (p + 1) = d * p + d /\ d * p \in Nat /\ d * q \in Nat BY <1>1
  <2> QED BY <1>1, <2>1, <2>2
<1>3. ASSUME q < p PROVE FALSE
  <2>1. d * (q + 1) <= d * p BY <1>1, <1>3
  <2>2. d * (q + 1) = d * q + d /\ d * p \in Nat /\ d * q \in Nat BY <1>1
  <2> QED BY <1>1, <2>1, <2>2
<1> QED BY <1>1, <1>2, <1>3 DEF p

LEMMA RoundedNat ==
  ASSUME NEW n \in Nat, NEW d \in Nat \ {0}
  PROVE  Rounded(n, d) \in Nat
<1>1. 2 * n + d \in Nat /\ 2 * d \in Nat \ {0} OBVIOUS
<1> QED BY ONLY <1>1, Quotient DEF Rounded

\* A window's transactions.
Windows == {h \in Seq(Outcomes) : Len(h) <= HistoryLimit}

LEMMA TotalLatencyNat ==
  ASSUME NEW h \in Seq(Outcomes)
  PROVE  TotalLatency(h) \in Nat
<1> DEFINE n == Len(h)
           body(f) == [i \in 0..n |-> IF i = 0 THEN 0 ELSE f[i - 1] + h[i].latency]
           c == CHOOSE f : f = body(f)
           F == [p \in (1..n) \X Nat |-> p[2] + h[p[1]].latency]
<1>1. n \in Nat /\ \A i \in 1..n : h[i].latency \in Nat
  <2>1. \A i \in 1..n : h[i] \in Outcomes OBVIOUS
  <2> QED BY <2>1
<1>2. \A k \in 1..n : \A v \in Nat : F[<<k, v>>] = v + h[k].latency OBVIOUS
<1> HIDE DEF n, F
<1>3. Continues(F, 0, n, Nat)
  <2>1. ASSUME NEW k \in (0 + 1)..n, NEW v \in Nat PROVE F[<<k, v>>] \in Nat
    <3>1. k \in 1..n BY <1>1
    <3>2. F[<<k, v>>] = v + h[k].latency /\ h[k].latency \in Nat BY <1>1, <1>2, <3>1
    <3> QED BY <3>2
  <2> QED BY <2>1 DEF Continues
<1>4. \E f : f = body(f)
  <2>1. PICK f : Runs(f, F, 0, n, 0) /\ Within(f, 0, n, Nat)
    <3>1. 0 \in Nat OBVIOUS
    <3> QED BY ONLY <1>1, <1>3, <3>1, Recursion
  <2>2. \A k \in 0..n : f[k] = IF k = 0 THEN 0 ELSE f[k - 1] + h[k].latency
    <3> TAKE k \in 0..n
    <3>1. f[k] = IF k = 0 THEN 0 ELSE F[<<k, f[k - 1]>>] BY <2>1 DEF Runs
    <3>2. CASE k # 0
      <4>1. k \in 1..n /\ k - 1 \in 0..n BY <1>1, <3>2
      <4>2. f[k - 1] \in Nat BY <2>1, <4>1 DEF Within
      <4> QED BY <1>2, <3>1, <3>2, <4>1, <4>2
    <3> QED BY <3>1, <3>2
  <2>3. f = body(f) BY <2>1, <2>2 DEF Within
  <2> QED BY <2>3
<1>5. c = body(c) BY <1>4
<1>6. TotalLatency(h) = c[n]
  <2> USE DEF n
  <2> QED BY ONLY TRUE DEF TotalLatency
<1> HIDE DEF c
<1>7. c[0] = 0 /\ \A k \in 1..n : c[k] = c[k - 1] + h[k].latency
  <2>1. \A k \in 0..n : body(c)[k] = IF k = 0 THEN 0 ELSE c[k - 1] + h[k].latency OBVIOUS
  <2> HIDE DEF body
  <2>2. \A k \in 0..n : c[k] = IF k = 0 THEN 0 ELSE c[k - 1] + h[k].latency BY <1>5, <2>1
  <2> QED BY <1>1, <2>2
<1>8. \A k \in 0..n : c[k] \in Nat
  <2>1. 0 \in Nat /\ c[0] \in Nat BY <1>7
  <2>2. \A k \in (0 + 1)..n : c[k - 1] \in Nat => c[k] = F[<<k, c[k - 1]>>]
    <3> TAKE k \in (0 + 1)..n
    <3>1. k \in 1..n BY <1>1
    <3> QED BY <1>2, <1>7, <3>1
  <2> QED BY ONLY <1>1, <1>3, <2>1, <2>2, Stays
<1>9. n \in 0..n BY <1>1
<1> QED BY <1>6, <1>8, <1>9

LEMMA ErrorsFacts ==
  ASSUME NEW h \in Seq(Outcomes)
  PROVE  Errors(h) \in 0..Len(h)
<1> DEFINE E == {i \in DOMAIN h : h[i].error}
<1>1. Len(h) \in Nat /\ E \in SUBSET (1..Len(h)) OBVIOUS
<1>2. IsFiniteSet(1..Len(h)) /\ Cardinality(1..Len(h)) = Len(h) BY <1>1, IntervalSize
<1>3. IsFiniteSet(E) /\ Cardinality(E) <= Len(h) BY <1>1, <1>2, FS_Subset
<1>4. Cardinality(E) \in Nat BY <1>3, FS_CardinalityType
<1> QED BY <1>1, <1>3, <1>4 DEF Errors

LEMMA AverageLatencyNat ==
  ASSUME NEW h \in Seq(Outcomes)
  PROVE  AverageLatency(h) \in Nat
<1>1. CASE h = << >> BY <1>1 DEF AverageLatency
<1>2. CASE h # << >>
  <2>1. 100 * TotalLatency(h) \in Nat /\ Len(h) \in Nat \ {0} BY <1>2, TotalLatencyNat
  <2>2. Rounded(100 * TotalLatency(h), Len(h)) \in Nat BY ONLY <2>1, RoundedNat
  <2> QED BY <1>2, <2>2 DEF AverageLatency
<1> QED BY <1>1, <1>2

LEMMA ErrorRateNat ==
  ASSUME NEW h \in Seq(Outcomes)
  PROVE  ErrorRate(h) \in Nat
<1>1. CASE h = << >> BY <1>1 DEF ErrorRate
<1>2. CASE h # << >>
  <2>1. Len(h) \in Nat \ {0} BY <1>2
  <2>2. 10000 * Errors(h) \in Nat BY <2>1, ErrorsFacts
  <2>3. Rounded(10000 * Errors(h), Len(h)) \in Nat BY ONLY <2>1, <2>2, RoundedNat
  <2> QED BY <1>2, <2>3 DEF ErrorRate
<1> QED BY <1>1, <1>2

\* A window that holds nothing but errors has an error rate of 100 %, one
\* without an error of 0 %.
LEMMA AllErrors ==
  ASSUME NEW h \in Seq(Outcomes), h # << >>, Errors(h) = Len(h)
  PROVE  ErrorRate(h) = 10000
<1> DEFINE n == Len(h)
<1>1. n \in Nat \ {0} OBVIOUS
<1>2. ErrorRate(h) = (2 * (10000 * n) + n) \div (2 * n) BY DEF ErrorRate, Rounded
<1> HIDE DEF n
<1>3. /\ 2 * (10000 * n) + n \in Nat /\ 2 * n \in Nat \ {0}
      /\ (2 * n) * 10000 <= 2 * (10000 * n) + n
      /\ 2 * (10000 * n) + n < (2 * n) * 10000 + 2 * n
  BY <1>1
<1>4. 10000 \in Nat OBVIOUS
<1>5. (2 * (10000 * n) + n) \div (2 * n) = 10000 BY ONLY <1>3, <1>4, QuotientIs
<1> QED BY <1>2, <1>5

LEMMA NoErrors ==
  ASSUME NEW h \in Seq(Outcomes), Errors(h) = 0
  PROVE  ErrorRate(h) = 0
<1>1. CASE h = << >> BY <1>1 DEF ErrorRate
<1>2. CASE h # << >>
  <2> DEFINE n == Len(h)
  <2>1. n \in Nat \ {0} BY <1>2
  <2>2. ErrorRate(h) = (2 * (10000 * 0) + n) \div (2 * n) BY <1>2 DEF ErrorRate, Rounded
  <2> HIDE DEF n
  <2>3. /\ 2 * (10000 * 0) + n \in Nat /\ 2 * n \in Nat \ {0}
        /\ (2 * n) * 0 <= 2 * (10000 * 0) + n
        /\ 2 * (10000 * 0) + n < (2 * n) * 0 + 2 * n
    BY <2>1
  <2>4. 0 \in Nat OBVIOUS
  <2>5. (2 * (10000 * 0) + n) \div (2 * n) = 0 BY ONLY <2>3, <2>4, QuotientIs
  <2> QED BY <2>2, <2>5
<1> QED BY <1>1, <1>2

LEMMA CalculateScoreRange ==
  ASSUME NEW l \in Nat, NEW e \in Nat, NEW a \in Nat
  PROVE  CalculateScore(l, e, a) \in 0..100
<1> DEFINE penalty == AtMost(40000, l) + 5 * e + 1000 * AtMost(30, 5 * a)
<1>1. AtMost(40000, l) \in Nat /\ AtMost(30, 5 * a) \in Nat BY DEF AtMost
<1>2. penalty \in Nat BY <1>1
<1>3. CalculateScore(l, e, a) = AtLeast(0, (2 * (100000 - penalty) + 1000) \div (2 * 1000))
  BY DEF CalculateScore, Rounded
<1> HIDE DEF penalty
<1>4. 2 * (100000 - penalty) + 1000 = 201000 - 2 * penalty /\ 2 * 1000 = 2000 BY <1>2
<1> DEFINE q == (201000 - 2 * penalty) \div 2000
<1>5. q \in Int /\ q <= 100 BY <1>2
<1>6. CalculateScore(l, e, a) = AtLeast(0, q) BY <1>3, <1>4
<1> HIDE DEF q
<1>7. AtLeast(0, q) \in 0..100 BY ONLY <1>5 DEF AtLeast
<1> QED BY <1>6, <1>7

\* The errors of a backend that always fails cost more than any latency.
LEMMA ErrorsOutweighLatency ==
  ASSUME NEW l \in Nat, NEW k \in Nat, NEW a \in Nat
  PROVE  CalculateScore(l, 10000, a) < CalculateScore(k, 0, a)
<1> DEFINE x == AtMost(40000, l)
           y == AtMost(40000, k)
           z == AtMost(30, 5 * a)
           p == x + 5 * 10000 + 1000 * z
           q == y + 5 * 0 + 1000 * z
<1>1. x \in Nat /\ x <= 40000
  <2>1. 40000 \in Nat OBVIOUS
  <2> QED BY ONLY <2>1, l \in Nat, AtMostNat
<1>2. y \in Nat /\ y <= 40000
  <2>1. 40000 \in Nat OBVIOUS
  <2> QED BY ONLY <2>1, k \in Nat, AtMostNat
<1>3. z \in Nat /\ z <= 30
  <2>1. 30 \in Nat /\ 5 * a \in Nat OBVIOUS
  <2> QED BY ONLY <2>1, AtMostNat
<1>4. CalculateScore(l, 10000, a) = AtLeast(0, (2 * (100000 - p) + 1000) \div (2 * 1000))
  BY DEF CalculateScore, Rounded
<1>5. CalculateScore(k, 0, a) = AtLeast(0, (2 * (100000 - q) + 1000) \div (2 * 1000))
  BY DEF CalculateScore, Rounded
<1> HIDE DEF x, y, z
<1>6. p = x + 50000 + 1000 * z BY ONLY <1>1, <1>2, <1>3
<1>7. q = y + 1000 * z BY ONLY <1>1, <1>2, <1>3
<1> HIDE DEF p, q
<1>8. p \in Nat BY ONLY <1>1, <1>2, <1>3, <1>6
<1>9. q \in Nat BY ONLY <1>1, <1>2, <1>3, <1>7
<1>10. p >= q + 10000 BY ONLY <1>1, <1>2, <1>3, <1>6, <1>7
<1>11. q <= 70000 BY ONLY <1>1, <1>2, <1>3, <1>7
<1> DEFINE u == (2 * (100000 - p) + 1000) \div (2 * 1000)
           v == (2 * (100000 - q) + 1000) \div (2 * 1000)
<1>12. u \in Int /\ v \in Int BY ONLY <1>8, <1>9
<1>13. v >= 30 BY ONLY <1>9, <1>11
<1>14. u < v BY ONLY <1>8, <1>9, <1>10
<1> HIDE DEF u, v
<1>15. AtLeast(0, u) < AtLeast(0, v) BY ONLY <1>12, <1>13, <1>14 DEF AtLeast
<1> QED BY <1>4, <1>5, <1>15 DEF u, v

-----------------------------------------------------------------------------
(* The pool and the lists of candidates.                                   *)

LEMMA PlaceFacts ==
  ASSUME NEW b \in Members
  PROVE  Place[b] \in 1..Len(Pool) /\ Pool[Place[b]] = b
<1>1. DOMAIN Pool = 1..Len(Pool) OBVIOUS
<1>2. \E i \in DOMAIN Pool : Pool[i] = b BY DEF Members
<1>3. Place[b] = CHOOSE i \in DOMAIN Pool : Pool[i] = b BY DEF Place
<1> QED BY <1>1, <1>2, <1>3

LEMMA CandidateFacts ==
  ASSUME NEW list \in Candidates
  PROVE  /\ list \in Seq(Members) /\ Len(list) \in 1..Len(Pool) /\ DOMAIN list = 1..Len(list)
         /\ \A i \in 1..Len(list) : list[i] \in Members
         /\ \A i, j \in 1..Len(list) : i < j => Place[list[i]] < Place[list[j]]
<1>1. PICK n \in 1..Len(Pool) : list \in [1..n -> Members]
  <2>1. DOMAIN Pool = 1..Len(Pool) OBVIOUS
  <2>2. \E n \in DOMAIN Pool : list \in [1..n -> Members] BY DEF Candidates
  <2> QED BY <2>1, <2>2
<1>2. n \in Nat /\ list \in Seq(Members) /\ Len(list) = n /\ DOMAIN list = 1..n BY <1>1
<1>3. \A i, j \in DOMAIN list : i < j => Place[list[i]] < Place[list[j]] BY DEF Candidates
<1> QED BY <1>1, <1>2, <1>3

-----------------------------------------------------------------------------
(* Weighted round robin: the divisor and the highest weight.               *)

Positive == Nat \ {0}
Weighted(w, list) ==
  list # << >> /\ list \in Seq(Members) /\ \A i \in 1..Len(list) : w[list[i]] \in Positive

\* d divides n, as the existence of the quotient.
Divides(d, n) == n % d = 0

LEMMA DividesIs ==
  ASSUME NEW d \in Positive, NEW n \in Nat
  PROVE  Divides(d, n) <=> \E q \in Nat : n = d * q
<1>1. d \in Nat \ {0} BY DEF Positive
<1>2. PICK q \in Nat, r \in Nat : n = d * q + r /\ r < d /\ n % d = r
  <2> DEFINE t == n \div d
             s == n % d
  <2>1. t \in Nat /\ s \in Nat /\ n = d * t + s /\ s < d BY ONLY <1>1, n \in Nat
  <2>2. n % d = s OBVIOUS
  <2> HIDE DEF t, s
  <2> QED BY <2>1, <2>2
<1>3. ASSUME n % d = 0 PROVE \E p \in Nat : n = d * p
  <2>1. n = d * q BY <1>1, <1>2, <1>3
  <2> QED BY <2>1
<1>4. ASSUME NEW p \in Nat, n = d * p PROVE r = 0
  <2>1. p = q
    <3>1. d * p \in Nat /\ d * q \in Nat /\ d * p = d * q + r BY <1>1, <1>2, <1>4
    <3>2. d * q <= n /\ n < d * q + d BY <1>1, <1>2
    <3>3. n \div d = q BY ONLY <1>1, <3>2, n \in Nat, q \in Nat, QuotientIs
    <3>4. d * p <= n /\ n < d * p + d BY <1>1, <1>4
    <3>5. n \div d = p BY ONLY <1>1, <3>4, n \in Nat, p \in Nat, QuotientIs
    <3> QED BY <3>3, <3>5
  <2>2. d * q \in Nat /\ d * q = d * q + r BY <1>1, <1>2, <1>4, <2>1
  <2> DEFINE x == d * q
  <2>3. x \in Nat /\ x = x + r BY <2>2
  <2> HIDE DEF x
  <2> QED BY ONLY <2>3, r \in Nat
<1> QED BY <1>2, <1>3, <1>4 DEF Divides

\* What divides b divides a and the remainder of a by b alike.
LEMMA DividesSum ==
  ASSUME NEW d \in Positive, NEW a \in Nat, NEW b \in Nat, NEW r \in Nat, NEW t \in Nat,
         a = b * t + r, Divides(d, b)
  PROVE  Divides(d, a) <=> Divides(d, r)
<1>1. d \in Nat \ {0} BY DEF Positive
<1>2. PICK u \in Nat : b = d * u BY DividesIs
<1>3. b * t = d * (u * t) /\ u * t \in Nat BY <1>1, <1>2
<1> DEFINE x == u * t
<1>4. x \in Nat /\ a = d * x + r BY <1>3
<1> HIDE DEF x
<1>5. ASSUME Divides(d, r) PROVE Divides(d, a)
  <2>1. PICK v \in Nat : r = d * v BY <1>5, DividesIs
  <2>2. x + v \in Nat /\ a = d * (x + v) BY <1>1, <1>4, <2>1
  <2>3. \E q \in Nat : a = d * q BY <2>2
  <2> QED BY <2>3, DividesIs
<1>6. ASSUME Divides(d, a) PROVE Divides(d, r)
  <2>1. PICK v \in Nat : a = d * v BY <1>6, DividesIs
  <2>2. r = d * (v - x) /\ v - x \in Int BY <1>1, <1>4, <2>1
  <2>3. v - x \in Nat
    <3> DEFINE y == v - x
    <3> HIDE DEF y
    <3>1. ASSUME y <= -1 PROVE FALSE
      <4>1. d * y <= d * (-1) BY <1>1, <2>2, <3>1, Product DEF y
      <4>2. d * (-1) = -d BY <1>1
      <4> QED BY <1>1, <2>2, <4>1, <4>2 DEF y
    <3> QED BY <2>2, <3>1 DEF y
  <2>4. \E q \in Nat : r = d * q BY <2>2, <2>3
  <2> QED BY <2>4, DividesIs
<1> QED BY <1>5, <1>6

\* The common divisors of two numbers do not change in a turn of Euclid's loop.
LEMMA CommonDivisors ==
  ASSUME NEW d \in Positive, NEW a \in Nat, NEW b \in Positive
  PROVE  (Divides(d, a) /\ Divides(d, b)) <=> (Divides(d, b) /\ Divides(d, a % b))
<1>1. b \in Nat \ {0} BY DEF Positive
<1> DEFINE t == a \div b
           r == a % b
<1>2. t \in Nat /\ r \in Nat /\ a = b * t + r BY <1>1
<1> HIDE DEF t, r
<1>3. ASSUME Divides(d, b) PROVE Divides(d, a) <=> Divides(d, r)
  <2>1. b \in Nat BY <1>1
  <2> QED BY ONLY <1>2, <1>3, <2>1, d \in Positive, a \in Nat, DividesSum
<1> QED BY <1>3 DEF r

\* The turns of Euclid's loop.
EuclidTurn(p) == IF p[2] = 0 THEN p ELSE <<p[2], p[1] % p[2]>>

\* Gcd is the first number of the last of these turns.
LEMMA GcdTurns ==
  ASSUME NEW a \in Positive, NEW b \in Nat
  PROVE  \E c : /\ Gcd(a, b) = c[b][1]
                /\ c[0] = <<a, b>>
                /\ \A k \in 1..b : c[k] = EuclidTurn(c[k - 1])
                /\ \A k \in 0..b : c[k] \in Positive \X Nat
<1> DEFINE V == Positive \X Nat
           turn(p) == IF p[2] = 0 THEN p ELSE <<p[2], p[1] % p[2]>>
           body(f) == [k \in 0..b |->
                         IF k = 0 THEN <<a, b>>
                         ELSE LET p == f[k - 1] IN IF p[2] = 0 THEN p ELSE <<p[2], p[1] % p[2]>>]
           c == CHOOSE f : f = body(f)
           F == [q \in (1..b) \X V |-> turn(q[2])]
<1>1. \A p \in V : turn(p) \in V
  <2> TAKE p \in V
  <2>1. p[1] \in Nat /\ p[2] \in Nat BY DEF Positive
  <2>2. CASE p[2] # 0
    <3>1. p[1] % p[2] \in Nat BY <2>1, <2>2
    <3> QED BY <2>1, <2>2, <3>1 DEF Positive
  <2> QED BY <2>2
<1>2. \A k \in 1..b : \A p \in V : F[<<k, p>>] = turn(p) OBVIOUS
<1>3. <<a, b>> \in V OBVIOUS
<1>4. \A f : \A k \in 0..b : body(f)[k] = IF k = 0 THEN <<a, b>> ELSE turn(f[k - 1]) OBVIOUS
<1>5. \A f : DOMAIN body(f) = 0..b /\ body(f) = [k \in 0..b |-> body(f)[k]] OBVIOUS
<1>6. Gcd(a, b) = c[b][1] BY ONLY TRUE DEF Gcd
<1>7. \A p : turn(p) = EuclidTurn(p) BY DEF EuclidTurn
<1> HIDE DEF F, V, turn, body
<1>8. Continues(F, 0, b, V)
  <2>1. ASSUME NEW k \in (0 + 1)..b, NEW p \in V PROVE F[<<k, p>>] \in V
    <3>1. k \in 1..b OBVIOUS
    <3> QED BY <1>1, <1>2, <3>1
  <2> QED BY <2>1 DEF Continues
<1>9. PICK f : Runs(f, F, 0, b, <<a, b>>) /\ Within(f, 0, b, V)
  <2>1. 0 \in Nat /\ b \in Nat OBVIOUS
  <2> QED BY ONLY <1>3, <1>8, <2>1, Recursion
<1>10. f = body(f)
  <2>1. \A k \in 0..b : f[k] = body(f)[k]
    <3> TAKE k \in 0..b
    <3>1. f[k] = IF k = 0 THEN <<a, b>> ELSE F[<<k, f[k - 1]>>] BY <1>9 DEF Runs
    <3>2. CASE k # 0
      <4>1. k \in 1..b /\ k - 1 \in 0..b BY <3>2
      <4>2. f[k - 1] \in V BY <1>9, <4>1 DEF Within
      <4> QED BY <1>2, <1>4, <3>1, <3>2, <4>1, <4>2
    <3> QED BY <1>4, <3>1, <3>2
  <2>2. f = [k \in 0..b |-> f[k]] BY <1>9 DEF Within
  <2> QED BY <1>5, <2>1, <2>2
<1>11. c = body(c) BY <1>10
<1> HIDE DEF c
<1>12. \A k \in 0..b : c[k] = IF k = 0 THEN <<a, b>> ELSE turn(c[k - 1]) BY <1>4, <1>11
<1>13. \A k \in 0..b : c[k] \in V
  <2>1. 0 \in 0..b /\ 0 \in Nat /\ b \in Nat OBVIOUS
  <2>2. c[0] \in V BY <1>3, <1>12, <2>1
  <2>3. \A k \in (0 + 1)..b : c[k - 1] \in V => c[k] = F[<<k, c[k - 1]>>]
    <3> TAKE k \in (0 + 1)..b
    <3>1. k \in 1..b /\ k \in 0..b /\ k # 0 OBVIOUS
    <3> QED BY <1>2, <1>12, <3>1
  <2> QED BY ONLY <1>8, <2>1, <2>2, <2>3, Stays
<1>14. 0 \in 0..b OBVIOUS
<1>15. c[0] = <<a, b>> BY <1>12, <1>14
<1>16. \A k \in 1..b : c[k] = EuclidTurn(c[k - 1])
  <2>1. \A k \in 1..b : k \in 0..b /\ k # 0 OBVIOUS
  <2> QED BY <1>12, <1>7, <2>1
<1> QED BY <1>6, <1>13, <1>15, <1>16 DEF V

\* Euclid's loop finds the greatest common divisor: its divisors are the
\* common ones, and b turns bring the remainder to 0.
LEMMA GcdDivisors ==
  ASSUME NEW a \in Positive, NEW b \in Nat
  PROVE  /\ Gcd(a, b) \in Positive
         /\ \A d \in Positive : Divides(d, Gcd(a, b)) <=> (Divides(d, a) /\ Divides(d, b))
<1>1. PICK c : /\ Gcd(a, b) = c[b][1]
               /\ c[0] = <<a, b>>
               /\ \A k \in 1..b : c[k] = EuclidTurn(c[k - 1])
               /\ \A k \in 0..b : c[k] \in Positive \X Nat
  BY GcdTurns
<1> DEFINE T == {k \in Nat : /\ c[k][2] <= b - k
                             /\ \A d \in Positive :
                                  (Divides(d, c[k][1]) /\ Divides(d, c[k][2]))
                                    <=> (Divides(d, a) /\ Divides(d, b))}
<1>2. 0 \in T
  <2>1. c[0][1] = a /\ c[0][2] = b BY <1>1
  <2> QED BY <2>1
<1>3. \A k \in 0..(b - 1) : k \in T => k + 1 \in T
  <2> TAKE k \in 0..(b - 1)
  <2> HAVE k \in T
  <2>1. k \in 0..b /\ k + 1 \in 1..b /\ (k + 1) - 1 = k /\ k + 1 \in Nat OBVIOUS
  <2>2. c[k] \in Positive \X Nat /\ c[k + 1] = EuclidTurn(c[k]) BY <1>1, <2>1
  <2> DEFINE x == c[k][1]
             y == c[k][2]
  <2>3. /\ y <= b - k
        /\ \A d \in Positive : (Divides(d, x) /\ Divides(d, y)) <=> (Divides(d, a) /\ Divides(d, b))
    OBVIOUS
  <2>4. x \in Positive /\ y \in Nat BY <2>2
  <2>5. CASE y = 0
    <3>1. c[k + 1][1] = x /\ c[k + 1][2] = y BY <2>2, <2>5 DEF EuclidTurn
    <3>2. y <= b - (k + 1) BY <2>1, <2>5
    <3> HIDE DEF x, y
    <3> QED BY <2>1, <2>3, <3>1, <3>2
  <2>6. CASE y # 0
    <3>1. c[k + 1][1] = y /\ c[k + 1][2] = x % y BY <2>2, <2>6 DEF EuclidTurn
    <3> HIDE DEF x, y
    <3>2. x \in Nat /\ y \in Nat \ {0} /\ y \in Positive BY <2>4, <2>6 DEF Positive
    <3>3. x % y \in Nat /\ x % y <= y - 1 BY <3>2
    <3>4. x % y <= b - (k + 1) BY <2>1, <2>3, <3>2, <3>3
    <3>5. \A d \in Positive : (Divides(d, x) /\ Divides(d, y))
                                <=> (Divides(d, y) /\ Divides(d, x % y))
      BY <3>2, CommonDivisors
    <3> QED BY <2>1, <2>3, <3>1, <3>4, <3>5
  <2> QED BY <2>5, <2>6
<1> HIDE DEF T
<1>4. b \in T
  <2>1. 0 \in Nat /\ b \in 0..b OBVIOUS
  <2>2. \A k \in 0..b : k \in T BY ONLY <1>2, <1>3, <2>1, b \in Nat, Climb
  <2> QED BY <2>1, <2>2
<1>5. c[b] \in Positive \X Nat
  <2>1. b \in 0..b OBVIOUS
  <2> QED BY <1>1, <2>1
<1>6. c[b][2] = 0
  <2>1. c[b][2] <= b - b /\ c[b][2] \in Nat BY <1>4, <1>5 DEF T
  <2> QED BY <2>1
<1>7. \A d \in Positive : Divides(d, 0)
  <2> TAKE d \in Positive
  <2>1. d \in Nat /\ 0 \in Nat /\ 0 = d * 0 BY DEF Positive
  <2> QED BY <2>1, DividesIs
<1>8. \A d \in Positive : (Divides(d, c[b][1]) /\ Divides(d, c[b][2]))
                            <=> (Divides(d, a) /\ Divides(d, b))
  BY <1>4 DEF T
<1> QED BY <1>1, <1>5, <1>6, <1>7, <1>8

\* The divisor of the weights is divided by exactly the divisors that all of
\* them have.
LEMMA DivisorDivides ==
  ASSUME NEW w, NEW list, Weighted(w, list)
  PROVE  /\ GcdOfWeights(w, list) \in Positive
         /\ \A d \in Positive :
              Divides(d, GcdOfWeights(w, list)) <=> \A i \in 1..Len(list) : Divides(d, w[list[i]])
<1> DEFINE n == Len(list)
           body(f) == [i \in 1..n |-> IF i = 1 THEN w[list[1]] ELSE Gcd(f[i - 1], w[list[i]])]
           c == CHOOSE f : f = body(f)
           F == [p \in (2..n) \X Positive |-> Gcd(p[2], w[list[p[1]]])]
<1>1. n \in Nat /\ 1 \in 1..n /\ n \in 1..n BY DEF Weighted
<1>2. \A k \in 1..n : w[list[k]] \in Positive /\ w[list[k]] \in Nat BY DEF Weighted, Positive
<1>3. \A k \in 2..n : \A v \in Positive : F[<<k, v>>] = Gcd(v, w[list[k]]) OBVIOUS
<1>4. \A f : \A k \in 1..n :
        body(f)[k] = IF k = 1 THEN w[list[1]] ELSE Gcd(f[k - 1], w[list[k]]) OBVIOUS
<1>5. \A f : DOMAIN body(f) = 1..n /\ body(f) = [k \in 1..n |-> body(f)[k]] OBVIOUS
<1>6. GcdOfWeights(w, list) = c[n] BY ONLY TRUE DEF GcdOfWeights
<1> HIDE DEF n, F, body
<1>7. w[list[1]] \in Positive /\ 1 \in Nat BY <1>1, <1>2
<1>8. Continues(F, 1, n, Positive)
  <2>1. ASSUME NEW k \in (1 + 1)..n, NEW v \in Positive PROVE F[<<k, v>>] \in Positive
    <3>1. k \in 2..n /\ k \in 1..n BY <1>1
    <3>2. Gcd(v, w[list[k]]) \in Positive BY <1>2, <3>1, GcdDivisors
    <3> QED BY <1>3, <3>1, <3>2
  <2> QED BY <2>1 DEF Continues
<1>9. \E f : f = body(f)
  <2>1. PICK f : Runs(f, F, 1, n, w[list[1]]) /\ Within(f, 1, n, Positive)
    BY ONLY <1>1, <1>7, <1>8, Recursion
  <2>2. \A k \in 1..n : f[k] = body(f)[k]
    <3> TAKE k \in 1..n
    <3>1. f[k] = IF k = 1 THEN w[list[1]] ELSE F[<<k, f[k - 1]>>] BY <2>1 DEF Runs
    <3>2. CASE k # 1
      <4>1. k \in 2..n /\ k - 1 \in 1..n BY <1>1, <3>2
      <4>2. f[k - 1] \in Positive BY <2>1, <4>1 DEF Within
      <4> QED BY <1>3, <1>4, <3>1, <3>2, <4>1, <4>2
    <3> QED BY <1>4, <3>1, <3>2
  <2>3. f = [k \in 1..n |-> f[k]] BY <2>1 DEF Within
  <2>4. f = body(f) BY <1>5, <2>2, <2>3
  <2> QED BY <2>4
<1>10. c = body(c) BY <1>9
<1> HIDE DEF c
<1>11. \A k \in 1..n : c[k] = IF k = 1 THEN w[list[1]] ELSE Gcd(c[k - 1], w[list[k]])
  BY <1>4, <1>10
<1> DEFINE T == {k \in Nat : /\ c[k] \in Positive
                             /\ \A d \in Positive :
                                  Divides(d, c[k]) <=> \A i \in 1..k : Divides(d, w[list[i]])}
<1>12. 1 \in T
  <2>1. c[1] = w[list[1]] BY <1>1, <1>11
  <2>2. 1..1 = {1} OBVIOUS
  <2> QED BY <1>7, <2>1, <2>2
<1>13. \A k \in 1..(n - 1) : k \in T => k + 1 \in T
  <2> TAKE k \in 1..(n - 1)
  <2> HAVE k \in T
  <2>1. k + 1 \in Nat /\ k + 1 \in 1..n /\ k + 1 # 1 /\ (k + 1) - 1 = k BY <1>1
  <2>2. c[k + 1] = Gcd(c[k], w[list[k + 1]]) BY <1>11, <2>1
  <2>3. /\ c[k + 1] \in Positive
        /\ \A d \in Positive :
             Divides(d, c[k + 1]) <=> (Divides(d, c[k]) /\ Divides(d, w[list[k + 1]]))
    <3> DEFINE a == c[k]
               b == w[list[k + 1]]
    <3>1. a \in Positive /\ b \in Nat BY <1>2, <2>1
    <3> HIDE DEF a, b
    <3>2. /\ Gcd(a, b) \in Positive
          /\ \A d \in Positive : Divides(d, Gcd(a, b)) <=> (Divides(d, a) /\ Divides(d, b))
      BY <3>1, GcdDivisors
    <3> QED BY <2>2, <3>2 DEF a, b
  <2>4. 1..(k + 1) = (1..k) \cup {k + 1} BY <2>1
  <2>5. \A d \in Positive :
          Divides(d, c[k + 1]) <=> \A i \in 1..(k + 1) : Divides(d, w[list[i]])
    BY <2>3, <2>4
  <2> QED BY <2>1, <2>3, <2>5
<1> HIDE DEF T
<1>14. n \in T
  <2>1. 1 \in Nat OBVIOUS
  <2>2. \A k \in 1..n : k \in T BY ONLY <1>1, <1>12, <1>13, <2>1, Climb
  <2> QED BY <1>1, <2>2
<1> QED BY <1>6, <1>14 DEF T, n

\* The quotient of an exact division, and that a divisor is no larger.
LEMMA DividesItself ==
  ASSUME NEW d \in Positive, NEW n \in Positive, Divides(d, n)
  PROVE  d <= n /\ n \div d \in Positive /\ n = d * (n \div d) /\ Divides(d, d)
<1>1. d \in Nat \ {0} /\ n \in Nat /\ n # 0 BY DEF Positive
<1>2. PICK q \in Nat : n = d * q BY <1>1, DividesIs
<1>3. q # 0 BY <1>1, <1>2
<1>4. q \in Positive BY <1>3 DEF Positive
<1>5. d * 1 <= d * q
  <2>1. d \in Nat /\ 1 \in Int /\ q \in Int /\ 1 <= q BY <1>1, <1>3
  <2> QED BY ONLY <2>1, Product
<1>6. d <= n BY <1>1, <1>2, <1>5
<1>7. n \div d = q
  <2>1. d * q <= n /\ n < d * q + d BY <1>1, <1>2
  <2> QED BY ONLY <1>1, <2>1, q \in Nat, QuotientIs
<1>8. d = d * 1 /\ 1 \in Nat BY <1>1
<1>9. Divides(d, d) BY <1>1, <1>8, DividesIs
<1> QED BY <1>2, <1>4, <1>6, <1>7, <1>9

\* Every weight is a multiple of the divisor that the loops over gcd in
\* weightedRoundRobin.js compute, and the divisor is the greatest number of
\* which they all are.
THEOREM GreatestDivisor ==
  ASSUME NEW w, NEW list, Weighted(w, list)
  PROVE  LET g == GcdOfWeights(w, list) IN
         /\ g \in Positive
         /\ \A i \in 1..Len(list) : /\ w[list[i]] % g = 0
                                    /\ w[list[i]] \div g \in Positive
                                    /\ w[list[i]] = g * (w[list[i]] \div g)
         /\ g = Max({d \in 1..w[Head(list)] : \A b \in ToSet(list) : w[b] % d = 0})
<1> DEFINE g == GcdOfWeights(w, list)
           n == Len(list)
           D == {d \in 1..w[Head(list)] : \A b \in ToSet(list) : w[b] % d = 0}
<1>1. n \in Nat /\ 1 \in 1..n /\ DOMAIN list = 1..n /\ Head(list) = list[1] BY DEF Weighted
<1>2. \A i \in 1..n : w[list[i]] \in Positive BY DEF Weighted
<1>3. /\ g \in Positive
      /\ \A d \in Positive : Divides(d, g) <=> \A i \in 1..n : Divides(d, w[list[i]])
  BY DivisorDivides
<1>4. ToSet(list) = {list[i] : i \in 1..n} BY <1>1 DEF ToSet
<1> HIDE DEF g, n
<1>5. D = {d \in 1..w[list[1]] : \A i \in 1..n : Divides(d, w[list[i]])}
  BY <1>1, <1>4 DEF Divides
<1> HIDE DEF D
<1>6. Divides(g, g)
  <2>1. g \in Nat /\ 1 \in Nat /\ g = g * 1 BY <1>3 DEF Positive
  <2> QED BY <1>3, <2>1, DividesIs
<1>7. \A i \in 1..n : Divides(g, w[list[i]]) BY <1>3, <1>6
<1>8. \A i \in 1..n : /\ g <= w[list[i]] /\ w[list[i]] \div g \in Positive
                      /\ w[list[i]] = g * (w[list[i]] \div g)
  BY <1>2, <1>3, <1>7, DividesItself
<1>9. g \in D
  <2>1. g \in Nat /\ g # 0 /\ w[list[1]] \in Nat /\ g <= w[list[1]]
    BY <1>1, <1>2, <1>3, <1>8 DEF Positive
  <2>2. g \in 1..w[list[1]] BY <2>1
  <2> QED BY <1>5, <1>7, <2>2
<1>10. \A d \in D : d \in Nat /\ d <= g
  <2> TAKE d \in D
  <2>1. d \in Positive
    <3>1. d \in 1..w[list[1]] BY <1>5
    <3>2. w[list[1]] \in Nat BY <1>1, <1>2 DEF Positive
    <3> QED BY <3>1, <3>2 DEF Positive
  <2>2. \A i \in 1..n : Divides(d, w[list[i]]) BY <1>5
  <2>3. Divides(d, g) BY <1>3, <2>1, <2>2
  <2>4. d <= g BY <1>3, <2>1, <2>3, DividesItself
  <2> QED BY <2>1, <2>4 DEF Positive
<1>11. g \in Nat BY <1>3 DEF Positive
<1>12. Max(D) = g
  <2>1. \E x \in D : \A y \in D : x >= y BY <1>9, <1>10, <1>11
  <2>2. Max(D) \in D /\ \A y \in D : Max(D) >= y BY <2>1 DEF Max
  <2>3. Max(D) \in Nat /\ Max(D) <= g /\ Max(D) >= g BY <1>9, <1>10, <2>2
  <2> QED BY <1>11, <2>3
<1>13. \A i \in 1..n : w[list[i]] % g = 0 BY <1>7 DEF Divides
<1> QED BY <1>3, <1>8, <1>12, <1>13 DEF g, n, D

\* The highest weight is the weight of some candidate.
LEMMA HighestWeight ==
  ASSUME NEW w, NEW list, Weighted(w, list)
  PROVE  /\ MaxWeight(w, list) \in Positive
         /\ \E m \in 1..Len(list) : w[list[m]] = MaxWeight(w, list)
         /\ \A i \in 1..Len(list) : w[list[i]] <= MaxWeight(w, list)
<1> DEFINE n == Len(list)
           T == {k \in Nat : \E i \in 1..n : \A j \in 1..k : w[list[j]] <= w[list[i]]}
           S == {w[list[i]] : i \in 1..n}
<1>1. n \in Nat /\ 1 \in 1..n /\ n \in 1..n /\ DOMAIN list = 1..n BY DEF Weighted
<1>2. \A i \in 1..n : w[list[i]] \in Nat BY DEF Weighted, Positive
<1>3. MaxWeight(w, list) = Max(S) BY <1>1 DEF MaxWeight
<1>4. 1 \in T
  <2>1. \A j \in 1..1 : w[list[j]] <= w[list[1]] BY <1>1, <1>2
  <2> QED BY <1>1, <2>1
<1> HIDE DEF n
<1>5. \A k \in 1..(n - 1) : k \in T => k + 1 \in T
  <2> TAKE k \in 1..(n - 1)
  <2> HAVE k \in T
  <2>1. PICK i \in 1..n : \A j \in 1..k : w[list[j]] <= w[list[i]] OBVIOUS
  <2>2. k + 1 \in Nat /\ k + 1 \in 1..n BY <1>1
  <2>3. CASE w[list[k + 1]] <= w[list[i]]
    <3>1. \A j \in 1..(k + 1) : w[list[j]] <= w[list[i]]
      <4> TAKE j \in 1..(k + 1)
      <4>1. j = k + 1 \/ j \in 1..k OBVIOUS
      <4> QED BY <2>1, <2>3, <4>1
    <3> QED BY <2>2, <3>1
  <2>4. CASE ~(w[list[k + 1]] <= w[list[i]])
    <3>1. \A j \in 1..(k + 1) : w[list[j]] <= w[list[k + 1]]
      <4> TAKE j \in 1..(k + 1)
      <4>1. j \in 1..n /\ (j = k + 1 \/ j \in 1..k) BY <1>1, <2>2
      <4>2. w[list[j]] \in Nat /\ w[list[i]] \in Nat /\ w[list[k + 1]] \in Nat
        BY <1>2, <2>2, <4>1
      <4>3. CASE j = k + 1 BY <4>2, <4>3
      <4>4. CASE j \in 1..k
        <5>1. w[list[j]] <= w[list[i]] BY <2>1, <4>4
        <5> QED BY <2>4, <4>2, <5>1
      <4> QED BY <4>1, <4>3, <4>4
    <3> QED BY <2>2, <3>1
  <2> QED BY <2>3, <2>4
<1> HIDE DEF T
<1>6. n \in T
  <2>1. 1 \in Nat OBVIOUS
  <2>2. \A k \in 1..n : k \in T BY ONLY <1>1, <1>4, <1>5, <2>1, Climb
  <2> QED BY <1>1, <2>2
<1>7. PICK i \in 1..n : \A j \in 1..n : w[list[j]] <= w[list[i]] BY <1>6 DEF T
<1>8. \E x \in S : \A y \in S : x >= y
  <2>1. w[list[i]] \in S OBVIOUS
  <2>2. \A y \in S : w[list[i]] >= y BY <1>2, <1>7
  <2> QED BY <2>1, <2>2
<1> HIDE DEF S
<1>9. Max(S) \in S /\ \A y \in S : Max(S) >= y BY <1>8 DEF Max
<1> USE DEF S
<1>10. PICK m \in 1..n : w[list[m]] = Max(S) BY <1>9
<1>11. \A j \in 1..n : w[list[j]] <= Max(S) BY <1>2, <1>9, <1>10
<1>12. Max(S) \in Positive BY <1>10 DEF Weighted, n
<1> HIDE DEF S
<1> QED BY <1>3, <1>10, <1>11, <1>12 DEF n

-----------------------------------------------------------------------------
(* Weighted round robin: the walk.                                         *)

\* The states between two turns of the loop over a list: the level has not
\* risen above the one it started from, or above the top.
Walk(list, from, top) ==
  {s \in [index : 0..(Len(list) - 1), weight : Nat] : s.weight <= from \/ s.weight <= top}

LEMMA LoweredFacts ==
  ASSUME NEW level \in Nat, NEW g \in Positive, NEW top \in Positive
  PROVE  /\ Lowered(level, g, top) \in Nat
         /\ Lowered(level, g, top) = top \/ Lowered(level, g, top) <= level - 1
BY DEF Lowered, Positive

LEMMA TurnFacts ==
  ASSUME NEW w, NEW list, Weighted(w, list), NEW i \in Nat, NEW level \in Nat, NEW s,
         s.index + 1 = i, s.weight = level
  PROVE  /\ Turn(w, list, s) = [index |-> i % Len(list), weight |-> Turn(w, list, s).weight]
         /\ Turn(w, list, s).weight \in Nat
         /\ i % Len(list) # 0 => Turn(w, list, s).weight = level
         /\ \/ Turn(w, list, s).weight = level /\ i % Len(list) # 0
            \/ Turn(w, list, s).weight <= level - 1
            \/ Turn(w, list, s).weight = MaxWeight(w, list)
<1> DEFINE n == Len(list)
           l == Lowered(level, GcdOfWeights(w, list), MaxWeight(w, list))
<1>1. GcdOfWeights(w, list) \in Positive /\ MaxWeight(w, list) \in Positive
  BY DivisorDivides, HighestWeight
<1>2. l \in Nat /\ (l = MaxWeight(w, list) \/ l <= level - 1) BY ONLY <1>1, level \in Nat, LoweredFacts
<1>3. Turn(w, list, s) = [index |-> i % n, weight |-> IF i % n = 0 THEN l ELSE level]
  BY DEF Turn
<1> HIDE DEF l, n
<1>4. CASE i % n = 0 BY <1>2, <1>3, <1>4 DEF n
<1>5. CASE i % n # 0 BY <1>2, <1>3, <1>5 DEF n
<1> QED BY <1>4, <1>5

LEMMA TurnWalks ==
  ASSUME NEW w, NEW list, Weighted(w, list), NEW from \in Nat,
         NEW s \in Walk(list, from, MaxWeight(w, list))
  PROVE  /\ Turn(w, list, s) \in Walk(list, from, MaxWeight(w, list))
         /\ s.index # Len(list) - 1 =>
              Turn(w, list, s) = [index |-> s.index + 1, weight |-> s.weight]
         /\ s.index = Len(list) - 1 =>
              /\ Turn(w, list, s).index = 0
              /\ \/ Turn(w, list, s).weight <= s.weight - 1
                 \/ Turn(w, list, s).weight = MaxWeight(w, list)
<1> DEFINE n == Len(list)
           i == s.index + 1
           level == s.weight
           t == Turn(w, list, s)
           top == MaxWeight(w, list)
<1>1. n \in Nat \ {0} BY DEF Weighted
<1>2. s.index \in 0..(n - 1) /\ i \in Nat /\ level \in Nat /\ (level <= from \/ level <= top)
  BY <1>1 DEF Walk
<1>3. top \in Nat BY HighestWeight DEF Positive
<1>4. /\ t = [index |-> i % n, weight |-> t.weight] /\ t.weight \in Nat
      /\ i % n # 0 => t.weight = level
      /\ \/ t.weight = level /\ i % n # 0
         \/ t.weight <= level - 1
         \/ t.weight = top
  <2>1. s.index + 1 = i /\ s.weight = level /\ i \in Nat /\ level \in Nat BY <1>2
  <2> HIDE DEF i, level
  <2> QED BY ONLY <2>1, Weighted(w, list), TurnFacts
<1> HIDE DEF t, top, n, level
<1>5. CASE s.index = n - 1
  <2>1. i % n = 0 BY <1>1, <1>2, <1>5
  <2>2. t.index = 0 /\ (t.weight <= level - 1 \/ t.weight = top) BY <1>4, <2>1
  <2>3. t.weight <= from \/ t.weight <= top BY ONLY <1>2, <1>3, <1>4, <2>2, from \in Nat
  <2>4. 0 \in 0..(n - 1) BY <1>1
  <2>5. t \in Walk(list, from, top) BY <1>4, <2>1, <2>3, <2>4 DEF Walk, n
  <2> QED BY <1>1, <1>2, <1>5, <2>2, <2>5 DEF t, top, n, level
<1>6. CASE s.index # n - 1
  <2>1. i < n /\ i # 0 /\ i \in 0..(n - 1) BY <1>1, <1>2, <1>6
  <2>2. i % n = i
    <3> HIDE DEF i
    <3> QED BY ONLY <1>1, <2>1
  <2>3. t = [index |-> i, weight |-> level] BY <1>4, <2>1, <2>2
  <2>4. t \in Walk(list, from, top) BY <1>2, <2>1, <2>3 DEF Walk, n
  <2> QED BY <1>6, <2>3, <2>4 DEF t, top, n, level
<1> QED BY <1>5, <1>6

Onward(w, list, s) == IF Selected(w, list, s) THEN s ELSE Turn(w, list, s)

\* The states of the loop, as a function.
LEMMA WalkExists ==
  ASSUME NEW w, NEW list, Weighted(w, list), NEW from, from.index + 1 \in Nat,
         from.weight \in Nat, NEW n, n = Len(list) * (from.weight + 2)
  PROVE  \E c : /\ c[1] = Turn(w, list, from)
                /\ \A k \in 2..n : c[k] = Onward(w, list, c[k - 1])
                /\ \A k \in 1..n : c[k] \in Walk(list, from.weight, MaxWeight(w, list))
                /\ WrrSelect(w, list, from) =
                     IF Selected(w, list, c[n]) THEN c[n] ELSE Unselected
<1> DEFINE V == Walk(list, from.weight, MaxWeight(w, list))
           first == Turn(w, list, from)
           body(f) == [k \in 1..(Len(list) * (from.weight + 2)) |->
                         IF k = 1 THEN Turn(w, list, from)
                         ELSE LET s == f[k - 1]
                              IN  IF Selected(w, list, s) THEN s ELSE Turn(w, list, s)]
           c == CHOOSE f : f = body(f)
           F == [p \in (2..n) \X V |-> Onward(w, list, p[2])]
<1>1. n \in Nat /\ 1 \in 1..n /\ 1 \in Nat
  <2>1. Len(list) \in Nat \ {0} BY DEF Weighted
  <2>2. from.weight + 2 \in Nat \ {0} OBVIOUS
  <2> HIDE DEF V
  <2>3. Len(list) * (from.weight + 2) \in Nat BY <2>1, <2>2
  <2>4. Len(list) * (from.weight + 2) >= 1 BY <2>1, <2>2
  <2> QED BY <2>3, <2>4
<1>2. first \in V
  <2> DEFINE i == from.index + 1
             level == from.weight
             m == Len(list)
  <2>1. i \in Nat /\ level \in Nat /\ m \in Nat \ {0} BY DEF Weighted
  <2>2. i % m \in 0..(m - 1) BY <2>1
  <2>3. MaxWeight(w, list) \in Nat BY HighestWeight DEF Positive
  <2>4. /\ first = [index |-> i % m, weight |-> first.weight] /\ first.weight \in Nat
        /\ i % m # 0 => first.weight = level
        /\ \/ first.weight = level /\ i % m # 0
           \/ first.weight <= level - 1
           \/ first.weight = MaxWeight(w, list)
    <3>1. from.index + 1 = i /\ from.weight = level OBVIOUS
    <3> HIDE DEF i, level
    <3> QED BY <2>1, <3>1, TurnFacts
  <2> HIDE DEF first, i, m
  <2>5. first.weight <= level \/ first.weight <= MaxWeight(w, list)
    <3> DEFINE x == first.weight
               top == MaxWeight(w, list)
    <3>1. x \in Nat /\ (x = level \/ x <= level - 1 \/ x = top) BY <2>4
    <3> HIDE DEF x, top, level
    <3>2. x <= level \/ x <= top BY ONLY <2>1, <2>3, <3>1 DEF top
    <3> QED BY <3>2 DEF x, top
  <2> QED BY <2>2, <2>4, <2>5 DEF Walk, m
<1>3. \A s \in V : Onward(w, list, s) \in V
  <2> TAKE s \in V
  <2>1. Turn(w, list, s) \in V BY TurnWalks
  <2> QED BY <2>1 DEF Onward
<1>4. \A k \in 2..n : \A s \in V : F[<<k, s>>] = Onward(w, list, s) OBVIOUS
<1>5. \A f : \A k \in 1..n :
        body(f)[k] = IF k = 1 THEN first ELSE Onward(w, list, f[k - 1])
  BY DEF Onward
<1>6. \A f : DOMAIN body(f) = 1..n /\ body(f) = [k \in 1..n |-> body(f)[k]] OBVIOUS
<1>7. WrrSelect(w, list, from) = IF Selected(w, list, c[n]) THEN c[n] ELSE Unselected
  BY ONLY n = Len(list) * (from.weight + 2) DEF WrrSelect
<1> HIDE DEF V, F, body, first
<1>8. Continues(F, 1, n, V)
  <2>1. ASSUME NEW k \in (1 + 1)..n, NEW s \in V PROVE F[<<k, s>>] \in V
    <3>1. k \in 2..n BY <1>1
    <3> QED BY <1>3, <1>4, <3>1
  <2> QED BY <2>1 DEF Continues
<1>9. \E f : f = body(f)
  <2>1. PICK f : Runs(f, F, 1, n, first) /\ Within(f, 1, n, V)
    BY ONLY <1>1, <1>2, <1>8, Recursion
  <2>2. \A k \in 1..n : f[k] = body(f)[k]
    <3> TAKE k \in 1..n
    <3>1. f[k] = IF k = 1 THEN first ELSE F[<<k, f[k - 1]>>] BY <2>1 DEF Runs
    <3>2. CASE k # 1
      <4>1. k \in 2..n /\ k - 1 \in 1..n BY <1>1, <3>2
      <4>2. f[k - 1] \in V BY <2>1, <4>1 DEF Within
      <4> QED BY <1>4, <1>5, <3>1, <3>2, <4>1, <4>2
    <3> QED BY <1>5, <3>1, <3>2
  <2>3. f = [k \in 1..n |-> f[k]] BY <2>1 DEF Within
  <2>4. f = body(f) BY <1>6, <2>2, <2>3
  <2> QED BY <2>4
<1>10. c = body(c) BY <1>9
<1> HIDE DEF c
<1>11. \A k \in 1..n : c[k] = IF k = 1 THEN first ELSE Onward(w, list, c[k - 1])
  BY <1>5, <1>10
<1>12. c[1] = first /\ \A k \in 2..n : c[k] = Onward(w, list, c[k - 1])
  <2>1. \A k \in 2..n : k \in 1..n /\ k # 1 BY <1>1
  <2> QED BY <1>1, <1>11, <2>1
<1>13. \A k \in 1..n : c[k] \in V
  <2>1. c[1] \in V BY <1>2, <1>12
  <2>2. \A k \in (1 + 1)..n : c[k - 1] \in V => c[k] = F[<<k, c[k - 1]>>]
    <3> TAKE k \in (1 + 1)..n
    <3>1. k \in 2..n BY <1>1
    <3> QED BY <1>4, <1>12, <3>1
  <2> QED BY ONLY <1>1, <1>8, <2>1, <2>2, Stays
<1> QED BY <1>7, <1>12, <1>13 DEF V, first

\* How many turns are left, at most, before a backend at place m + 1 with the
\* highest weight is reached at a level that is not above it.
TurnsLeft(n, top, m, s) ==
  IF s.weight > top THEN n * (s.weight - top) + (n - 1 - s.index) + n
  ELSE IF s.index < m THEN m - s.index ELSE n - s.index + m

LEMMA TurnsLeftPositive ==
  ASSUME NEW n \in Nat \ {0}, NEW top \in Nat, NEW m \in 0..(n - 1),
         NEW s \in [index : 0..(n - 1), weight : Nat]
  PROVE  TurnsLeft(n, top, m, s) \in Nat \ {0}
<1>1. s.index \in 0..(n - 1) /\ s.weight \in Nat OBVIOUS
<1>2. CASE s.weight > top
  <2> DEFINE d == s.weight - top
  <2>1. d \in Nat BY <1>1, <1>2
  <2>2. n * d \in Nat BY <2>1
  <2>3. TurnsLeft(n, top, m, s) = n * d + (n - 1 - s.index) + n BY <1>2 DEF TurnsLeft
  <2> HIDE DEF d
  <2> QED BY <1>1, <2>2, <2>3
<1>3. CASE ~(s.weight > top)
  <2>1. TurnsLeft(n, top, m, s) = IF s.index < m THEN m - s.index ELSE n - s.index + m
    BY <1>3 DEF TurnsLeft
  <2> QED BY <1>1, <2>1
<1> QED BY <1>2, <1>3

LEMMA Nearer ==
  ASSUME NEW n \in Nat \ {0}, NEW top \in Nat, NEW m \in 0..(n - 1),
         NEW s \in [index : 0..(n - 1), weight : Nat],
         NEW t \in [index : 0..(n - 1), weight : Nat],
         s.index # n - 1 => t = [index |-> s.index + 1, weight |-> s.weight],
         s.index = n - 1 =>
           t.index = 0 /\ (t.weight <= s.weight - 1 \/ t.weight = top),
         ~(s.index = m /\ s.weight <= top), ~(t.index = m /\ t.weight <= top)
  PROVE  TurnsLeft(n, top, m, t) <= TurnsLeft(n, top, m, s) - 1
<1>1. /\ s.index \in 0..(n - 1) /\ s.weight \in Nat /\ t.index \in 0..(n - 1) /\ t.weight \in Nat
  OBVIOUS
<1> DEFINE d == s.weight - top
           e == t.weight - top
<1>2. d \in Int /\ e \in Int /\ n * d \in Int /\ n * e \in Int BY <1>1
<1>3. TurnsLeft(n, top, m, s) = IF d > 0 THEN n * d + (n - 1 - s.index) + n
                                ELSE IF s.index < m THEN m - s.index ELSE n - s.index + m
  BY <1>1 DEF TurnsLeft
<1>4. TurnsLeft(n, top, m, t) = IF e > 0 THEN n * e + (n - 1 - t.index) + n
                                ELSE IF t.index < m THEN m - t.index ELSE n - t.index + m
  BY <1>1 DEF TurnsLeft
<1>5. d > 0 => n * d >= n
  <2>1. n \in Nat /\ 1 \in Int /\ d \in Int BY <1>1
  <2> HIDE DEF d
  <2>2. ASSUME 1 <= d PROVE n * 1 <= n * d BY ONLY <2>1, <2>2, Product
  <2>3. n * 1 = n BY <2>1
  <2> QED BY <2>1, <2>2, <2>3
<1>6. s.weight <= top <=> d <= 0 BY <1>1
<1>7. t.weight <= top <=> e <= 0 BY <1>1
<1>8. CASE s.index # n - 1
  <2>1. t.index = s.index + 1 /\ e = d BY <1>8
  <2> HIDE DEF d, e
  <2>2. CASE d > 0 BY <1>1, <1>2, <1>3, <1>4, <2>1, <2>2
  <2>3. CASE ~(d > 0)
    <3>1. s.index # m /\ t.index # m BY <1>2, <1>6, <1>7, <2>1, <2>3
    <3> QED BY <1>1, <1>2, <1>3, <1>4, <2>1, <2>3, <3>1
  <2> QED BY <2>2, <2>3
<1>9. CASE s.index = n - 1
  <2>1. t.index = 0 /\ (e <= d - 1 \/ e = 0) BY <1>1, <1>9
  <2>2. n * (d - 1) = n * d - n /\ n * (d - 1) \in Int
    <3> HIDE DEF d
    <3> QED BY <1>2
  <2>3. e <= d - 1 => n * e <= n * (d - 1)
    <3>1. d - 1 \in Int BY <1>2
    <3> HIDE DEF d, e
    <3> QED BY <1>2, <3>1
  <2> HIDE DEF d, e
  <2>4. CASE e > 0
    <3>1. e <= d - 1 /\ d > 0 BY <1>2, <2>1, <2>4
    <3>2. n * e <= n * d - n BY <2>2, <2>3, <3>1
    <3>3. TurnsLeft(n, top, m, s) = n * d + n
      <4>1. TurnsLeft(n, top, m, s) = n * d + (n - 1 - s.index) + n BY <1>3, <3>1
      <4>2. (n - 1) - s.index = 0 BY <1>9
      <4> QED BY <1>2, <4>1, <4>2
    <3>4. TurnsLeft(n, top, m, t) = n * e + (n - 1) + n BY <1>1, <1>4, <2>1, <2>4
    <3> QED BY <1>1, <1>2, <3>2, <3>3, <3>4
  <2>5. CASE ~(e > 0)
    <3>1. m # 0 /\ TurnsLeft(n, top, m, t) = m BY <1>1, <1>2, <1>4, <1>7, <2>1, <2>5
    <3>2. CASE d > 0
      <4>1. TurnsLeft(n, top, m, s) = n * d + (n - 1 - s.index) + n BY <1>3, <3>2
      <4>2. (n - 1) - s.index = 0 /\ n * d >= n BY <1>5, <1>9, <3>2
      <4> DEFINE a == n * d
      <4>3. a \in Int /\ a >= n /\ TurnsLeft(n, top, m, s) = a + 0 + n BY <1>2, <4>1, <4>2
      <4> HIDE DEF a
      <4> QED BY <3>1, <4>3
    <3>3. CASE ~(d > 0)
      <4>1. s.index # m BY <1>2, <1>6, <3>3
      <4> QED BY <1>1, <1>2, <1>3, <1>9, <3>1, <3>3, <4>1
    <3> QED BY <3>2, <3>3
  <2> QED BY <2>4, <2>5
<1> QED BY <1>8, <1>9

\* The loop ends: with each turn that selects nothing fewer turns are left.
LEMMA WalkEnds ==
  ASSUME NEW w, NEW list, Weighted(w, list), NEW from, from.index + 1 \in Nat,
         from.weight \in Nat
  PROVE  /\ WrrSelect(w, list, from) # Unselected
         /\ WrrSelect(w, list, from) \in Walk(list, from.weight, MaxWeight(w, list))
<1> DEFINE n == Len(list)
           top == MaxWeight(w, list)
           level == from.weight
           N == n * (level + 2)
<1>1. n \in Nat \ {0} /\ level \in Nat BY DEF Weighted
<1>2. top \in Nat BY HighestWeight DEF Positive
<1>3. PICK j \in 1..n : w[list[j]] = top BY HighestWeight
<1> DEFINE m == j - 1
<1>4. m \in 0..(n - 1) /\ m + 1 = j BY <1>1
<1>5. PICK c : /\ c[1] = Turn(w, list, from)
               /\ \A k \in 2..N : c[k] = Onward(w, list, c[k - 1])
               /\ \A k \in 1..N : c[k] \in Walk(list, level, top)
               /\ WrrSelect(w, list, from) =
                    IF Selected(w, list, c[N]) THEN c[N] ELSE Unselected
  BY WalkExists
<1> DEFINE L == n * level
<1>6. N \in Nat /\ L \in Nat /\ N = L + 2 * n
  <2>1. n * (level + 2) = n * level + 2 * n /\ n * level \in Nat BY <1>1
  <2> QED BY <1>1, <2>1
<1>7. 1 \in 1..N /\ N \in 1..N
  <2> HIDE DEF N, L, n
  <2> QED BY ONLY <1>1, <1>6
<1>8. \A s \in Walk(list, level, top) :
        s.index = m /\ s.weight <= top => Selected(w, list, s)
  BY <1>3, <1>4 DEF Selected
<1>9. \A s \in Walk(list, level, top) :
        /\ Turn(w, list, s) \in Walk(list, level, top)
        /\ s.index # n - 1 => Turn(w, list, s) = [index |-> s.index + 1, weight |-> s.weight]
        /\ s.index = n - 1 =>
             Turn(w, list, s).index = 0
             /\ (Turn(w, list, s).weight <= s.weight - 1 \/ Turn(w, list, s).weight = top)
  BY <1>1, TurnWalks
<1>10. \A s \in Walk(list, level, top) :
        s \in [index : 0..(n - 1), weight : Nat] /\ (s.weight <= level \/ s.weight <= top)
  BY DEF Walk
<1>11. \A d \in Nat : d <= level => n * d <= L
  <2>1. ASSUME NEW d \in Nat, d <= level PROVE n * d <= n * level
    <3>1. n \in Nat /\ d \in Int /\ level \in Int BY <1>1
    <3> HIDE DEF n, level
    <3> QED BY ONLY <2>1, <3>1, Product
  <2> QED BY <2>1
<1> HIDE DEF n, top, level, m, N, L
<1> DEFINE T == {k \in 1..N : Selected(w, list, c[k]) \/ TurnsLeft(n, top, m, c[k]) <= N - k}
<1>12. 1 \in T
  <2>1. 1 \in 1..N BY <1>7
  <2> DEFINE s == c[1]
  <2>2. s \in [index : 0..(n - 1), weight : Nat] /\ (s.weight <= level \/ s.weight <= top)
    BY <1>5, <1>10, <2>1
  <2> HIDE DEF s
  <2>3. L \in Nat /\ s.index \in 0..(n - 1) /\ s.weight \in Nat BY <1>6, <2>2
  <2>4. TurnsLeft(n, top, m, s) <= N - 1
    <3>1. CASE s.weight > top
      <4> DEFINE d == s.weight - top
      <4>1. d \in Nat /\ d <= level BY <1>1, <1>2, <2>2, <2>3, <3>1
      <4>2. TurnsLeft(n, top, m, s) = n * d + (n - 1 - s.index) + n BY <3>1 DEF TurnsLeft
      <4> HIDE DEF d
      <4>3. n * d <= L /\ n * d \in Nat
        <5>1. n * d <= L BY ONLY <1>11, <4>1
        <5>2. n * d \in Nat BY ONLY <1>1, <4>1
        <5> QED BY <5>1, <5>2
      <4> DEFINE a == n * d
      <4> HIDE DEF a
      <4> QED BY <1>1, <1>6, <2>3, <4>2, <4>3 DEF a
    <3>2. CASE ~(s.weight > top)
      <4>1. TurnsLeft(n, top, m, s) = IF s.index < m THEN m - s.index ELSE n - s.index + m
        BY <3>2 DEF TurnsLeft
      <4>2. CASE s.index = m
        <5>1. TurnsLeft(n, top, m, s) = n BY <1>1, <1>4, <4>1, <4>2
        <5> QED BY ONLY <1>1, <1>6, <5>1
      <4>3. CASE s.index # m BY ONLY <1>1, <1>4, <1>6, <2>3, <4>1, <4>3
      <4> QED BY <4>2, <4>3
    <3> QED BY <3>1, <3>2
  <2> QED BY <2>1, <2>4 DEF s
<1>13. \A k \in 1..(N - 1) : k \in T => k + 1 \in T
  <2> TAKE k \in 1..(N - 1)
  <2> HAVE k \in T
  <2>1. k \in 1..N /\ k + 1 \in 1..N /\ k + 1 \in 2..N /\ (k + 1) - 1 = k BY <1>6
  <2> DEFINE s == c[k]
             t == c[k + 1]
  <2>2. s \in Walk(list, level, top) /\ t \in Walk(list, level, top) /\ t = Onward(w, list, s)
    BY <1>5, <2>1
  <2>3. Selected(w, list, s) \/ TurnsLeft(n, top, m, s) <= N - k OBVIOUS
  <2> HIDE DEF s, t
  <2>4. CASE Selected(w, list, s)
    <3>1. t = s BY <2>2, <2>4 DEF Onward
    <3> QED BY <2>1, <2>4, <3>1 DEF t
  <2>5. CASE ~Selected(w, list, s) /\ ~Selected(w, list, t)
    <3>1. t = Turn(w, list, s) BY <2>2, <2>5 DEF Onward
    <3>2. ~(s.index = m /\ s.weight <= top) /\ ~(t.index = m /\ t.weight <= top)
      BY <1>8, <2>2, <2>5
    <3>3. /\ s \in [index : 0..(n - 1), weight : Nat] /\ t \in [index : 0..(n - 1), weight : Nat]
          /\ s.index # n - 1 => t = [index |-> s.index + 1, weight |-> s.weight]
          /\ s.index = n - 1 =>
               t.index = 0 /\ (t.weight <= s.weight - 1 \/ t.weight = top)
      BY <1>9, <1>10, <2>2, <3>1
    <3>4. TurnsLeft(n, top, m, t) <= TurnsLeft(n, top, m, s) - 1
      BY ONLY <1>1, <1>2, <1>4, <3>2, <3>3, Nearer
    <3>5. TurnsLeft(n, top, m, t) \in Nat /\ TurnsLeft(n, top, m, s) \in Nat
      BY <1>1, <1>2, <1>4, <3>3, TurnsLeftPositive
    <3>6. TurnsLeft(n, top, m, t) <= N - (k + 1) BY <1>6, <2>1, <2>3, <2>5, <3>4, <3>5
    <3> QED BY <2>1, <3>6 DEF t
  <2>6. CASE Selected(w, list, t) BY <2>1, <2>6 DEF t
  <2> QED BY <2>4, <2>5, <2>6
<1> HIDE DEF T
<1>14. N \in T
  <2>1. 1 \in Nat /\ N \in 1..N BY <1>7
  <2>2. \A k \in 1..N : k \in T BY ONLY <1>6, <1>12, <1>13, <2>1, Climb
  <2> QED BY <2>1, <2>2
<1>15. Selected(w, list, c[N])
  <2>1. N \in 1..N BY <1>7
  <2>2. c[N] \in [index : 0..(n - 1), weight : Nat] BY <1>5, <1>10, <2>1
  <2>3. TurnsLeft(n, top, m, c[N]) \in Nat \ {0} BY <1>1, <1>2, <1>4, <2>2, TurnsLeftPositive
  <2>4. Selected(w, list, c[N]) \/ TurnsLeft(n, top, m, c[N]) <= N - N BY <1>14 DEF T
  <2> QED BY <1>6, <2>3, <2>4
<1>16. c[N] \in Walk(list, level, top)
  <2>1. N \in 1..N BY <1>7
  <2> QED BY <1>5, <2>1
<1>17. c[N].index \in Nat BY <1>10, <1>16
<1>18. c[N] # Unselected BY <1>17 DEF Unselected
<1> QED BY <1>5, <1>15, <1>16, <1>18 DEF level, top

-----------------------------------------------------------------------------
(* The inductive invariant.                                                *)

\* A window is a sequence of recorded transactions that is never too long, and
\* what the strategies keep between calls is in range; the level was once the
\* weight of some backend, or 1.
IInv ==
  /\ algorithm \in Algorithms
  /\ index \in 0..(Len(Pool) - 1)
  /\ wrr \in [index : -1..(Len(Pool) - 1), weight : Nat]
  /\ \E x \in WeightsEver \cup {1} : wrr.weight <= x
  /\ weight \in [Members -> WeightsEver]
  /\ connections \in [Members -> 0..MaxConnections]
  /\ history \in [Members -> Windows]
  /\ changes \in 0..MaxChanges

LEMMA PoolFacts ==
  /\ Len(Pool) \in Nat \ {0} /\ DOMAIN Pool = 1..Len(Pool)
  /\ WeightsEver \subseteq Nat /\ InitWeight \in [Members -> WeightsEver]
<1>1. Len(Pool) \in Nat \ {0} /\ DOMAIN Pool = 1..Len(Pool) OBVIOUS
<1>2. WeightsEver \subseteq Nat BY DEF WeightsEver
<1>3. \A b \in Members : InitWeight[b] \in WeightsEver BY DEF WeightsEver
<1>4. InitWeight \in [Members -> WeightsEver] BY <1>3
<1> QED BY <1>1, <1>2, <1>4

LEMMA InitIInv == Init => IInv
<1> SUFFICES ASSUME Init PROVE IInv
  OBVIOUS
<1>1. index \in 0..(Len(Pool) - 1) BY PoolFacts DEF Init
<1>2. wrr \in [index : -1..(Len(Pool) - 1), weight : Nat] BY PoolFacts DEF Init
<1>3. \E x \in WeightsEver \cup {1} : wrr.weight <= x
  <2>1. 1 \in WeightsEver \cup {1} /\ wrr.weight <= 1 BY DEF Init
  <2> QED BY <2>1
<1>4. connections \in [Members -> 0..MaxConnections] BY DEF Init
<1>5. history \in [Members -> Windows]
  <2>1. << >> \in Windows BY DEF Windows
  <2> QED BY <2>1 DEF Init
<1>6. algorithm \in Algorithms /\ weight \in [Members -> WeightsEver] /\ changes \in 0..MaxChanges
  BY PoolFacts DEF Init
<1> QED BY <1>1, <1>2, <1>3, <1>4, <1>5, <1>6 DEF IInv

\* The score of a backend, whatever its window and its connections.
LEMMA ScoreRange ==
  ASSUME IInv, NEW b \in Members, NEW trial
  PROVE  Score(b, trial) \in 0..100
<1>1. history[b] \in Seq(Outcomes) /\ connections[b] \in Nat BY DEF IInv, Windows
<1>2. AverageLatency(history[b]) \in Nat /\ ErrorRate(history[b]) \in Nat
  BY <1>1, AverageLatencyNat, ErrorRateNat
<1>3. CalculateScore(AverageLatency(history[b]), ErrorRate(history[b]), connections[b]) \in 0..100
  BY ONLY <1>1, <1>2, CalculateScoreRange
<1> QED BY <1>3 DEF Score

\* Scaling a weight by a score of at most 100 % and rounding does not raise it.
LEMMA ScaledDown ==
  ASSUME NEW x \in Nat, NEW s \in 0..100
  PROVE  Rounded(x * s, 100) \in Nat /\ Rounded(x * s, 100) <= x
<1>1. x * s \in Nat OBVIOUS
<1>2. x * s <= x * 100
  <2>1. s \in Int /\ s <= 100 /\ 100 \in Int OBVIOUS
  <2> QED BY ONLY <2>1, x \in Nat, Product
<1> DEFINE a == x * s
           q == Rounded(a, 100)
<1>3. a \in Nat /\ a <= 100 * x BY <1>1, <1>2
<1>4. 100 \in Nat \ {0} OBVIOUS
<1> HIDE DEF a
<1>5. q \in Nat BY ONLY <1>3, <1>4, RoundedNat
<1>6. q <= x
  <2>1. q = (2 * a + 100) \div 200 BY DEF Rounded
  <2> HIDE DEF q
  <2> QED BY ONLY <1>3, <2>1, x \in Nat
<1> QED BY <1>5, <1>6 DEF a

LEMMA DynamicWeightFacts ==
  ASSUME IInv, NEW b \in Members, NEW trial
  PROVE  /\ DynamicWeight(b, trial) \in Positive
         /\ \E x \in WeightsEver \cup {1} : DynamicWeight(b, trial) <= x
<1> DEFINE x == StaticWeight(b)
           s == Score(b, trial)
           r == Rounded(x * s, 100)
<1>1. weight[b] \in Nat /\ weight[b] \in WeightsEver BY PoolFacts DEF IInv
<1>2. x \in Nat /\ x >= 1 /\ x \in {1, weight[b]} BY <1>1 DEF StaticWeight, AtLeast
<1>3. s \in 0..100 BY ScoreRange
<1>4. DynamicWeight(b, trial) = AtLeast(1, r) BY DEF DynamicWeight
<1> HIDE DEF x, s
<1>5. r \in Nat /\ r <= x BY ONLY <1>2, <1>3, ScaledDown
<1> HIDE DEF r
<1>6. AtLeast(1, r) \in Positive /\ AtLeast(1, r) <= x BY ONLY <1>2, <1>5 DEF AtLeast, Positive
<1>7. x \in WeightsEver \cup {1} BY <1>1, <1>2
<1> QED BY <1>4, <1>6, <1>7

LEMMA VirtualPoolWeighted ==
  ASSUME IInv, NEW list \in Candidates, NEW trial
  PROVE  /\ Weighted(VirtualPool(trial), list)
         /\ \E x \in WeightsEver \cup {1} : MaxWeight(VirtualPool(trial), list) <= x
<1> DEFINE w == VirtualPool(trial)
<1>1. /\ list \in Seq(Members) /\ Len(list) \in 1..Len(Pool) /\ DOMAIN list = 1..Len(list)
      /\ \A i \in 1..Len(list) : list[i] \in Members
  BY CandidateFacts
<1>2. \A b \in Members : w[b] = DynamicWeight(b, trial) BY DEF VirtualPool
<1>3. \A i \in 1..Len(list) : /\ w[list[i]] \in Positive
                              /\ \E x \in WeightsEver \cup {1} : w[list[i]] <= x
  BY <1>1, <1>2, DynamicWeightFacts
<1> HIDE DEF w
<1>4. list # << >> BY <1>1
<1>5. Weighted(w, list) BY <1>1, <1>3, <1>4 DEF Weighted
<1>6. PICK m \in 1..Len(list) : w[list[m]] = MaxWeight(w, list) BY <1>5, HighestWeight
<1>7. \E x \in WeightsEver \cup {1} : MaxWeight(w, list) <= x BY <1>3, <1>6
<1> QED BY <1>5, <1>7 DEF w

\* What a selection of weighted round robin leaves behind is in range again.
LEMMA SelectionFacts ==
  ASSUME IInv, NEW list \in Candidates, NEW trial, NEW s,
         s = WrrSelect(VirtualPool(trial), list, wrr)
  PROVE  /\ s # Unselected
         /\ s \in [index : 0..(Len(list) - 1), weight : Nat]
         /\ s \in [index : -1..(Len(Pool) - 1), weight : Nat]
         /\ \E x \in WeightsEver \cup {1} : s.weight <= x
<1> DEFINE w == VirtualPool(trial)
<1>1. Weighted(w, list) /\ \E x \in WeightsEver \cup {1} : MaxWeight(w, list) <= x
  BY VirtualPoolWeighted
<1>2. wrr.index + 1 \in Nat /\ wrr.weight \in Nat
  <2>1. wrr.index \in -1..(Len(Pool) - 1) /\ wrr.weight \in Nat BY DEF IInv
  <2>2. Len(Pool) \in Nat BY PoolFacts
  <2> QED BY ONLY <2>1, <2>2
<1>3. Len(list) \in 1..Len(Pool) BY CandidateFacts
<1> HIDE DEF w
<1>4. s # Unselected /\ s \in Walk(list, wrr.weight, MaxWeight(w, list))
  <2>1. s = WrrSelect(w, list, wrr) BY DEF w
  <2> QED BY <1>1, <1>2, <2>1, WalkEnds
<1>5. /\ s \in [index : 0..(Len(list) - 1), weight : Nat]
      /\ s.weight <= wrr.weight \/ s.weight <= MaxWeight(w, list)
  BY <1>4 DEF Walk
<1>6. \E x \in WeightsEver \cup {1} : s.weight <= x
  <2>1. MaxWeight(w, list) \in Nat /\ wrr.weight \in Nat /\ s.weight \in Nat
    BY <1>1, <1>2, <1>5, HighestWeight DEF Positive
  <2>2. \A x \in WeightsEver \cup {1} : x \in Nat BY PoolFacts
  <2>3. PICK x \in WeightsEver \cup {1} : wrr.weight <= x BY DEF IInv
  <2>4. PICK y \in WeightsEver \cup {1} : MaxWeight(w, list) <= y BY <1>1
  <2>5. x \in Nat /\ y \in Nat BY <2>2
  <2>6. s.weight <= x \/ s.weight <= y
    <3> DEFINE top == MaxWeight(w, list)
               level == wrr.weight
               now == s.weight
    <3>1. now <= level \/ now <= top BY <1>5
    <3>2. top \in Nat /\ level \in Nat /\ now \in Nat /\ level <= x /\ top <= y
      BY <2>1, <2>3, <2>4
    <3> HIDE DEF top, level, now
    <3>3. now <= x \/ now <= y BY ONLY <2>5, <3>1, <3>2
    <3> QED BY <3>3 DEF now
  <2> QED BY <2>6
<1>7. s \in [index : -1..(Len(Pool) - 1), weight : Nat]
  <2>1. 0..(Len(list) - 1) \subseteq -1..(Len(Pool) - 1) BY <1>3, PoolFacts
  <2> QED BY <1>5, <2>1
<1> QED BY <1>4, <1>5, <1>6, <1>7

\* A window that takes a transaction, or loses its oldest, is a window.
LEMMA WindowFacts ==
  ASSUME NEW h \in Windows
  PROVE  /\ \A t \in Outcomes : RecordedIn(h, t) \in Windows
         /\ h # << >> => Tail(h) \in Windows
<1>1. h \in Seq(Outcomes) /\ Len(h) \in Nat /\ Len(h) <= HistoryLimit BY DEF Windows
<1>2. h # << >> => Tail(h) \in Windows
  <2>1. h # << >> => Tail(h) \in Seq(Outcomes) /\ Len(Tail(h)) = Len(h) - 1 BY <1>1
  <2> QED BY <1>1, <2>1 DEF Windows
<1>3. ASSUME NEW t \in Outcomes PROVE RecordedIn(h, t) \in Windows
  <2> DEFINE g == Append(h, t)
  <2>1. g \in Seq(Outcomes) /\ Len(g) = Len(h) + 1 BY <1>1
  <2> HIDE DEF g
  <2>2. Tail(g) \in Seq(Outcomes) /\ Len(Tail(g)) = Len(g) - 1
    <3>1. Len(g) # 0 BY <1>1, <2>1
    <3> QED BY ONLY <2>1, <3>1
  <2>3. RecordedIn(h, t) = IF Len(g) > HistoryLimit THEN Tail(g) ELSE g BY DEF RecordedIn, g
  <2>4. CASE Len(g) > HistoryLimit BY <1>1, <2>1, <2>2, <2>3, <2>4 DEF Windows
  <2>5. CASE ~(Len(g) > HistoryLimit) BY <1>1, <2>1, <2>3, <2>5 DEF Windows
  <2> QED BY <2>4, <2>5
<1> QED BY <1>2, <1>3

\* A request that is counted stays within the bound on connections.
LEMMA ConnectFacts ==
  ASSUME IInv, Room, NEW b, Connect(b)
  PROVE  connections' \in [Members -> 0..MaxConnections]
<1>1. \A c \in Members : connections[c] \in 0..MaxConnections /\ connections[c] < MaxConnections
  BY DEF IInv, Room
<1>2. \A c \in Members : connections[c] + 1 \in 0..MaxConnections BY <1>1
<1>3. connections \in [Members -> 0..MaxConnections] BY DEF IInv
<1>4. connections' = [connections EXCEPT ![b] = connections[b] + 1] BY DEF Connect
<1> QED BY <1>2, <1>3, <1>4

LEMMA StepIInv == IInv /\ [Next]_vars => IInv'
<1> SUFFICES ASSUME IInv, [Next]_vars PROVE IInv'
  OBVIOUS
<1>1. ASSUME NEW list \in Candidates, RoundRobin(list) PROVE IInv'
  <2>1. connections' \in [Members -> 0..MaxConnections] BY <1>1, ConnectFacts DEF RoundRobin
  <2>2. index' \in 0..(Len(Pool) - 1)
    <3> DEFINE n == Len(list)
    <3>1. n \in 1..Len(Pool) /\ Len(Pool) \in Nat BY CandidateFacts, PoolFacts
    <3>2. index \in Nat BY PoolFacts DEF IInv
    <3>3. index' = (index + 1) % n BY <1>1 DEF RoundRobin, NextIndex
    <3> HIDE DEF n
    <3>4. (index + 1) % n \in 0..(n - 1) BY ONLY <3>1, <3>2
    <3> QED BY ONLY <3>1, <3>3, <3>4
  <2> QED BY <1>1, <2>1, <2>2 DEF RoundRobin, IInv
<1>2. ASSUME NEW list \in Candidates, IpHash(list) PROVE IInv'
  <2>1. connections' \in [Members -> 0..MaxConnections] BY <1>2, ConnectFacts DEF IpHash
  <2> QED BY <1>2, <2>1 DEF IpHash, IInv
<1>3. ASSUME NEW list \in Candidates, ConsistentHash(list) PROVE IInv'
  <2>1. connections' \in [Members -> 0..MaxConnections] BY <1>3, ConnectFacts DEF ConsistentHash
  <2> QED BY <1>3, <2>1 DEF ConsistentHash, IInv
<1>4. ASSUME NEW list \in Candidates, NEW trial, WeightedRoundRobin(list, trial) PROVE IInv'
  <2> DEFINE s == WrrSelect(VirtualPool(trial), list, wrr)
  <2>1. /\ s \in [index : -1..(Len(Pool) - 1), weight : Nat]
        /\ \E x \in WeightsEver \cup {1} : s.weight <= x
    BY SelectionFacts
  <2>2. /\ Room /\ Connect(list[s.index + 1]) /\ wrr' = s
        /\ UNCHANGED <<algorithm, index, weight, history, changes>>
    BY <1>4 DEF WeightedRoundRobin
  <2> HIDE DEF s
  <2>3. connections' \in [Members -> 0..MaxConnections] BY <2>2, ConnectFacts
  <2> QED BY <2>1, <2>2, <2>3 DEF IInv
<1>5. ASSUME NEW list \in Candidates, NEW trial, LeastConnections(list, trial) PROVE IInv'
  <2>1. connections' \in [Members -> 0..MaxConnections]
    BY <1>5, ConnectFacts DEF LeastConnections
  <2> QED BY <1>5, <2>1 DEF LeastConnections, IInv
<1>6. ASSUME NEW b \in Members, Release(b) PROVE IInv'
  <2>1. connections' \in [Members -> 0..MaxConnections]
    <3>1. connections[b] \in 0..MaxConnections BY DEF IInv
    <3>2. connections[b] - 1 \in 0..MaxConnections BY <1>6, <3>1 DEF Release
    <3> QED BY <1>6, <3>2 DEF Release, IInv
  <2> QED BY <1>6, <2>1 DEF Release, IInv
<1>7. ASSUME NEW b \in Members, Age(b) PROVE IInv'
  <2>1. history' \in [Members -> Windows] BY <1>7, WindowFacts DEF Age, IInv
  <2> QED BY <1>7, <2>1 DEF Age, IInv
<1>8. ASSUME NEW b \in Members, NEW t \in Outcomes, RecordTransaction(b, t) PROVE IInv'
  <2>1. history' \in [Members -> Windows]
    <3>1. RecordedIn(history[b], t) \in Windows BY WindowFacts DEF IInv
    <3> QED BY <1>8, <3>1 DEF RecordTransaction, IInv
  <2> QED BY <1>8, <2>1 DEF RecordTransaction, IInv
<1>9. ASSUME NEW a \in Algorithms, SetAlgorithm(a) PROVE IInv'
  BY <1>9 DEF SetAlgorithm, IInv
<1>10. ASSUME NEW b \in Members, NEW w \in Weights, SetWeight(b, w) PROVE IInv'
  <2>1. weight' \in [Members -> WeightsEver] BY <1>10 DEF SetWeight, IInv, WeightsEver
  <2>2. changes' \in 0..MaxChanges BY <1>10 DEF SetWeight, IInv
  <2> QED BY <1>10, <2>1, <2>2 DEF SetWeight, IInv
<1>11. CASE UNCHANGED vars BY <1>11 DEF vars, IInv
<1> QED BY <1>1, <1>2, <1>3, <1>4, <1>5, <1>6, <1>7, <1>8, <1>9, <1>10, <1>11 DEF Next

\* The invariant above holds in every state of every behaviour.
THEOREM Invariance == Spec => []IInv
BY InitIInv, StepIInv, PTL DEF Spec

\* Type correctness: indices, level, connections, windows and scores stay in
\* their ranges, whatever lists, weights and transactions the calls meet.
THEOREM TypeCorrect == Spec => []TypeOK
<1>1. IInv => TypeOK
  <2> SUFFICES ASSUME IInv PROVE TypeOK
    OBVIOUS
  <2>1. \E x \in WeightsEver \cup {1} : wrr.weight \in 0..x
    <3>1. PICK x \in WeightsEver \cup {1} : wrr.weight <= x BY DEF IInv
    <3>2. x \in Nat /\ wrr.weight \in Nat BY PoolFacts DEF IInv
    <3>3. wrr.weight \in 0..x BY <3>1, <3>2
    <3> QED BY <3>3
  <2>2. \A b \in Members : Len(history[b]) <= HistoryLimit /\ Score(b, {}) \in 0..100
    <3>1. \A b \in Members : Len(history[b]) <= HistoryLimit BY DEF IInv, Windows
    <3>2. \A b \in Members : Score(b, {}) \in 0..100 BY ScoreRange
    <3> QED BY <3>1, <3>2
  <2> QED BY <2>1, <2>2 DEF IInv, TypeOK
<1> QED BY <1>1, Invariance, PTL

\* The loop of weighted round robin ends with a selection, from any level and
\* index that an earlier list, earlier weights or earlier scores have left.
THEOREM SelectionsEnd == Spec => []SelectionEnds
<1>1. IInv => SelectionEnds
  <2> SUFFICES ASSUME IInv, NEW list \in Candidates, NEW trial
               PROVE  WrrSelect(VirtualPool(trial), list, wrr) # Unselected
    BY DEF SelectionEnds
  <2> QED BY SelectionFacts
<1> QED BY <1>1, Invariance, PTL

\* A backend that always fails scores below one that never does, over any
\* windows with any latencies, while their connections are the same in number.
THEOREM FailuresBelow == Spec => []FailuresRankBelow
<1>1. IInv => FailuresRankBelow
  <2> SUFFICES ASSUME IInv, NEW bad \in Members, NEW good \in Members,
                      history[bad] # << >>, Errors(history[bad]) = Len(history[bad]),
                      Errors(history[good]) = 0, connections[bad] = connections[good]
               PROVE  Score(bad, {}) < Score(good, {})
    BY DEF FailuresRankBelow
  <2>1. history[bad] \in Seq(Outcomes) /\ history[good] \in Seq(Outcomes) BY DEF IInv, Windows
  <2>2. ErrorRate(history[bad]) = 10000
    <3> DEFINE h == history[bad]
    <3>1. h \in Seq(Outcomes) /\ h # << >> /\ Errors(h) = Len(h) BY <2>1
    <3> HIDE DEF h
    <3>2. ErrorRate(h) = 10000 BY <3>1, AllErrors
    <3> QED BY <3>2 DEF h
  <2>3. ErrorRate(history[good]) = 0 BY <2>1, NoErrors
  <2>4. AverageLatency(history[bad]) \in Nat /\ AverageLatency(history[good]) \in Nat
    BY <2>1, AverageLatencyNat
  <2>5. connections[bad] \in Nat BY DEF IInv
  <2>6. CalculateScore(AverageLatency(history[bad]), 10000, connections[bad])
          < CalculateScore(AverageLatency(history[good]), 0, connections[bad])
    BY ONLY <2>4, <2>5, ErrorsOutweighLatency
  <2> QED BY <2>2, <2>3, <2>6 DEF Score
<1> QED BY <1>1, Invariance, PTL

-----------------------------------------------------------------------------
(* Round robin: the indices of as many picks as there are candidates.      *)

LEMMA RemainderFacts ==
  ASSUME NEW a \in Nat, NEW n \in Nat \ {0}
  PROVE  /\ a % n \in 0..(n - 1) /\ (a % n) % n = a % n
         /\ (a + 1) % n = IF a % n = n - 1 THEN 0 ELSE (a % n) + 1
<1> DEFINE q == a \div n
           r == a % n
<1>1. r \in 0..(n - 1) OBVIOUS
<1>2. q \in Nat BY Quotient
<1>3. a = n * q + r OBVIOUS
<1>4. r % n = r
  <2> HIDE DEF r
  <2>1. n \in Nat /\ n > 0 /\ r \in Nat /\ r < n BY <1>1
  <2> QED BY ONLY <2>1
<1> DEFINE b == a + 1
<1>5. b \in Nat /\ b = n * (b \div n) + (b % n)
  <2>1. b \in Nat OBVIOUS
  <2> HIDE DEF b
  <2> QED BY <2>1
<1>6. b % n = IF r = n - 1 THEN 0 ELSE r + 1
  <2> DEFINE p == n * q
  <2>1. p \in Nat /\ b = p + r + 1 BY <1>1, <1>2, <1>3
  <2> HIDE DEF q, r, b
  <2>2. CASE r = n - 1
    <3>1. q + 1 \in Nat /\ n * (q + 1) = p + n BY <1>2
    <3>2. n * (q + 1) <= b /\ b < n * (q + 1) + n
      <4> HIDE DEF p
      <4> QED BY <2>1, <2>2, <3>1
    <3>3. b \div n = q + 1 BY ONLY <1>5, <3>1, <3>2, n \in Nat \ {0}, QuotientIs
    <3>4. b = (p + n) + (b % n) BY <1>5, <3>1, <3>3
    <3>5. b = p + n
      <4> HIDE DEF p
      <4> QED BY <2>1, <2>2
    <3>6. b % n \in Int BY <1>5
    <3> DEFINE e == b % n
    <3>7. b = (p + n) + e /\ e \in Int BY <3>4, <3>6
    <3> HIDE DEF p, e
    <3>8. e = 0 BY ONLY <2>1, <3>5, <3>7, n \in Nat \ {0}
    <3> QED BY <2>2, <3>8 DEF e
  <2>3. CASE r # n - 1
    <3>1. n * q <= b /\ b < n * q + n
      <4>1. p <= b /\ b < p + n
        <5> HIDE DEF p
        <5> QED BY <1>1, <2>1, <2>3
      <4> QED BY <4>1
    <3>2. b \div n = q BY ONLY <1>2, <1>5, <3>1, n \in Nat \ {0}, QuotientIs
    <3>3. b = p + (b % n) BY <1>5, <3>2
    <3>4. b % n \in Int BY <1>5
    <3> HIDE DEF p
    <3> QED BY <1>1, <2>1, <2>3, <3>3, <3>4
  <2> QED BY <2>2, <2>3
<1> QED BY <1>1, <1>4, <1>6

\* The remainder after k turns, without division.
Wrapped(r, k, n) == IF r + (k - 1) < n THEN r + (k - 1) ELSE r + (k - 1) - n

LEMMA RotationEven ==
  ASSUME NEW list \in Candidates, NEW i \in Nat, NEW n, n = Len(list), NEW c, c[1] = i,
         \A k \in 2..n : c[k] = NextIndex(c[k - 1], n)
  PROVE  {AtIndex(list, c[k]) : k \in 1..n} = ToSet(list)
<1>1. n \in Nat \ {0} /\ 1 \in 1..n /\ DOMAIN list = 1..n BY CandidateFacts
<1> DEFINE r == i % n
           T == {k \in Nat : c[k] \in Nat /\ c[k] % n = Wrapped(r, k, n)}
<1>2. r \in 0..(n - 1) BY <1>1, RemainderFacts
<1>3. 1 \in T BY <1>2 DEF Wrapped
<1>4. \A k \in 1..(n - 1) : k \in T => k + 1 \in T
  <2> TAKE k \in 1..(n - 1)
  <2> HAVE k \in T
  <2> DEFINE a == c[k]
             b == c[k + 1]
  <2>1. k + 1 \in 2..n /\ (k + 1) - 1 = k /\ k + 1 \in Nat BY <1>1
  <2>2. b = (a + 1) % n BY <2>1 DEF NextIndex
  <2>3. a \in Nat /\ a % n = Wrapped(r, k, n) OBVIOUS
  <2> HIDE DEF a, b, r
  <2>4. a + 1 \in Nat BY <2>3
  <2>5. b \in 0..(n - 1) /\ b % n = b BY <1>1, <2>2, <2>4, RemainderFacts
  <2>6. b = IF a % n = n - 1 THEN 0 ELSE (a % n) + 1 BY <1>1, <2>2, <2>3, RemainderFacts
  <2> DEFINE x == Wrapped(r, k, n)
  <2>7. x = IF r + (k - 1) < n THEN r + (k - 1) ELSE r + (k - 1) - n BY DEF Wrapped
  <2>8. b = IF x = n - 1 THEN 0 ELSE x + 1 BY <2>3, <2>6
  <2> HIDE DEF x
  <2>9. b = Wrapped(r, k + 1, n)
    <3>1. Wrapped(r, k + 1, n) = IF r + k < n THEN r + k ELSE r + k - n BY <1>2 DEF Wrapped
    <3> QED BY ONLY <1>1, <1>2, <2>7, <2>8, <3>1, k \in 1..(n - 1)
  <2>10. b \in Nat /\ b % n = Wrapped(r, k + 1, n) BY <1>1, <2>5, <2>9
  <2> QED BY ONLY <2>1, <2>10 DEF T, b
<1> HIDE DEF T
<1>5. \A k \in 1..n : k \in T
  <2>1. 1 \in Nat /\ n \in Nat BY <1>1
  <2> QED BY ONLY <1>3, <1>4, <2>1, Climb
<1>6. \A k \in 1..n : AtIndex(list, c[k]) = list[Wrapped(r, k, n) + 1]
  BY <1>5 DEF T, AtIndex
<1> HIDE DEF r
<1>7. \A k \in 1..n : Wrapped(r, k, n) + 1 \in 1..n BY <1>1, <1>2 DEF Wrapped
<1>8. \A j \in 1..n : \E k \in 1..n : Wrapped(r, k, n) + 1 = j
  <2> TAKE j \in 1..n
  <2>1. CASE j > r
    <3>1. j - r \in 1..n /\ Wrapped(r, j - r, n) + 1 = j BY <1>1, <1>2, <2>1 DEF Wrapped
    <3> QED BY <3>1
  <2>2. CASE ~(j > r)
    <3>1. j - r + n \in 1..n /\ Wrapped(r, j - r + n, n) + 1 = j
      BY <1>1, <1>2, <2>2 DEF Wrapped
    <3> QED BY <3>1
  <2> QED BY <2>1, <2>2
<1>9. ToSet(list) = {list[j] : j \in 1..n} BY <1>1 DEF ToSet
<1> QED BY <1>6, <1>7, <1>8, <1>9

\* Round robin takes every candidate once in as many picks as there are
\* candidates, from any index that a list of another length has left.
THEOREM RotationsEven == Spec => []EvenRotation
<1>1. IInv => EvenRotation
  <2> SUFFICES ASSUME IInv PROVE EvenRotation
    OBVIOUS
  <2>1. index \in Nat BY PoolFacts DEF IInv
  <2> DEFINE body(list, f) == [k \in 1..Len(list) |->
                                 IF k = 1 THEN index ELSE NextIndex(f[k - 1], Len(list))]
             at(list) == CHOOSE f : f = body(list, f)
  <2>2. ASSUME NEW list \in Candidates
        PROVE  {AtIndex(list, at(list)[k]) : k \in 1..Len(list)} = ToSet(list)
    <3> DEFINE n == Len(list)
               c == at(list)
               F == [q \in (2..n) \X Nat |-> NextIndex(q[2], n)]
    <3>1. n \in Nat \ {0} /\ n \in Nat /\ 1 \in 1..n /\ 1 \in Nat BY CandidateFacts
    <3>2. \A k \in 2..n : \A a \in Nat : F[<<k, a>>] = NextIndex(a, n) OBVIOUS
    <3>3. \A a \in Nat : NextIndex(a, n) \in Nat BY <3>1 DEF NextIndex
    <3>4. \A f : \A k \in 1..n :
            body(list, f)[k] = IF k = 1 THEN index ELSE NextIndex(f[k - 1], n)
      OBVIOUS
    <3>5. \A f : body(list, f) = [k \in 1..n |-> body(list, f)[k]] OBVIOUS
    <3> HIDE DEF F, n, body
    <3>6. Continues(F, 1, n, Nat)
      <4>1. ASSUME NEW k \in (1 + 1)..n, NEW a \in Nat PROVE F[<<k, a>>] \in Nat
        <5>1. k \in 2..n BY <3>1
        <5> QED BY <3>2, <3>3, <5>1
      <4> QED BY <4>1 DEF Continues
    <3>7. PICK f : Runs(f, F, 1, n, index) /\ Within(f, 1, n, Nat)
      BY ONLY <2>1, <3>1, <3>6, Recursion
    <3>8. \A k \in 1..n : f[k] = body(list, f)[k]
      <4> TAKE k \in 1..n
      <4>1. f[k] = IF k = 1 THEN index ELSE F[<<k, f[k - 1]>>] BY <3>7 DEF Runs
      <4>2. CASE k # 1
        <5>1. k \in 2..n /\ k - 1 \in 1..n BY <3>1, <4>2
        <5>2. f[k - 1] \in Nat BY <3>7, <5>1 DEF Within
        <5> QED BY <3>2, <3>4, <4>1, <4>2, <5>1, <5>2
      <4> QED BY <3>4, <4>1, <4>2
    <3>9. f = body(list, f) BY <3>5, <3>7, <3>8 DEF Within
    <3>10. c = body(list, c) BY <3>9
    <3> HIDE DEF c
    <3>11. c[1] = index BY <3>1, <3>4, <3>10
    <3>12. \A k \in 2..n : c[k] = NextIndex(c[k - 1], n)
      <4>1. \A k \in 2..n : k \in 1..n /\ k # 1 BY <3>1
      <4> QED BY <3>4, <3>10, <4>1
    <3>13. n = Len(list) BY DEF n
    <3>14. {AtIndex(list, c[k]) : k \in 1..n} = ToSet(list)
      BY ONLY <2>1, <3>11, <3>12, <3>13, list \in Candidates, RotationEven
    <3> QED BY <3>14 DEF n, c
  <2> QED BY ONLY <2>2 DEF EvenRotation
<1> QED BY <1>1, Invariance, PTL

-----------------------------------------------------------------------------
(* Consistent hashing: the virtual nodes that are pushed on the ring.      *)

Nodes == [hash : Nat, backendId : Members, vnode : Nat]

\* The virtual nodes of one backend, and those of a list, as sets.
NodesOf(b, hash) ==
  {[hash |-> hash[<<b, k - 1>>], backendId |-> b, vnode |-> k - 1] :
     k \in 1..(VnodesPerWeight * AtLeast(1, weight[b]))}
NodesIn(list, hash) == {x \in Nodes : \E b \in ToSet(list) : x \in NodesOf(b, hash)}

LEMMA Joined ==
  ASSUME NEW S, NEW s \in Seq(S), NEW t \in Seq(S)
  PROVE  s \o t \in Seq(S) /\ ToSet(s \o t) = ToSet(s) \cup ToSet(t)
<1> DEFINE m == Len(s)
           n == Len(t)
           u == s \o t
<1>1. m \in Nat /\ n \in Nat /\ DOMAIN s = 1..m /\ DOMAIN t = 1..n OBVIOUS
<1>2. u \in Seq(S) /\ Len(u) = m + n /\ DOMAIN u = 1..(m + n) OBVIOUS
<1>3. \A i \in 1..(m + n) : u[i] = IF i <= m THEN s[i] ELSE t[i - m] OBVIOUS
<1> HIDE DEF m, n, u
<1>4. ASSUME NEW x \in ToSet(u) PROVE x \in ToSet(s) \cup ToSet(t)
  <2>1. PICK i \in 1..(m + n) : x = u[i] BY <1>2 DEF ToSet
  <2>2. CASE i <= m
    <3>1. i \in 1..m /\ x = s[i] BY <1>3, <2>1, <2>2
    <3> QED BY <1>1, <3>1 DEF ToSet
  <2>3. CASE ~(i <= m)
    <3>1. i - m \in 1..n /\ x = t[i - m] BY <1>1, <1>3, <2>1, <2>3
    <3> QED BY <1>1, <3>1 DEF ToSet
  <2> QED BY <2>2, <2>3
<1>5. ASSUME NEW x \in ToSet(s) PROVE x \in ToSet(u)
  <2>1. PICK i \in 1..m : x = s[i] BY <1>1 DEF ToSet
  <2>2. i \in 1..(m + n) /\ i <= m BY <1>1
  <2>3. x = u[i] BY <1>3, <2>1, <2>2
  <2> QED BY <1>2, <2>2, <2>3 DEF ToSet
<1>6. ASSUME NEW x \in ToSet(t) PROVE x \in ToSet(u)
  <2>1. PICK i \in 1..n : x = t[i] BY <1>1 DEF ToSet
  <2>2. i + m \in 1..(m + n) /\ ~(i + m <= m) /\ (i + m) - m = i BY <1>1
  <2>3. x = u[i + m] BY <1>3, <2>1, <2>2
  <2> QED BY <1>2, <2>2, <2>3 DEF ToSet
<1> QED BY <1>2, <1>4, <1>5, <1>6 DEF u

\* FlattenSeq keeps the elements of all its sequences.
LEMMA Flattened ==
  ASSUME NEW S, NEW seqs \in Seq(Seq(S)), seqs # << >>
  PROVE  /\ FlattenSeq(seqs) \in Seq(S)
         /\ \A x : x \in ToSet(FlattenSeq(seqs)) <=>
                     \E i \in 1..Len(seqs) : x \in ToSet(seqs[i])
<1> DEFINE n == Len(seqs)
           V == Seq(S)
           body(f) == [i \in 1..n |-> IF i = 1 THEN seqs[i] ELSE f[i - 1] \o seqs[i]]
           c == CHOOSE f : f = body(f)
           F == [p \in (2..n) \X V |-> p[2] \o seqs[p[1]]]
<1>1. n \in Nat /\ 1 \in 1..n /\ n \in 1..n /\ 1 \in Nat /\ n # 0 OBVIOUS
<1>2. \A k \in 1..n : seqs[k] \in V OBVIOUS
<1>3. \A k \in 2..n : \A v \in V : F[<<k, v>>] = v \o seqs[k] OBVIOUS
<1>4. \A f : \A k \in 1..n : body(f)[k] = IF k = 1 THEN seqs[k] ELSE f[k - 1] \o seqs[k]
  OBVIOUS
<1>5. \A f : body(f) = [k \in 1..n |-> body(f)[k]] OBVIOUS
<1>6. FlattenSeq(seqs) = c[n]
  <2>1. FlattenSeq(seqs) = IF n = 0 THEN seqs ELSE c[n] BY ONLY TRUE DEF FlattenSeq
  <2> QED BY <1>1, <2>1
<1> HIDE DEF n, V, F, body
<1>7. \A u, v \in V : u \o v \in V /\ ToSet(u \o v) = ToSet(u) \cup ToSet(v)
  BY Joined DEF V
<1>8. seqs[1] \in V BY <1>1, <1>2
<1>9. Continues(F, 1, n, V)
  <2>1. ASSUME NEW k \in (1 + 1)..n, NEW v \in V PROVE F[<<k, v>>] \in V
    <3>1. k \in 2..n /\ k \in 1..n BY <1>1
    <3> QED BY <1>2, <1>3, <1>7, <3>1
  <2> QED BY <2>1 DEF Continues
<1>10. PICK f : Runs(f, F, 1, n, seqs[1]) /\ Within(f, 1, n, V)
  BY ONLY <1>1, <1>8, <1>9, Recursion
<1>11. \A k \in 1..n : f[k] = body(f)[k]
  <2> TAKE k \in 1..n
  <2>1. f[k] = IF k = 1 THEN seqs[1] ELSE F[<<k, f[k - 1]>>] BY <1>10 DEF Runs
  <2>2. CASE k # 1
    <3>1. k \in 2..n /\ k - 1 \in 1..n BY <1>1, <2>2
    <3>2. f[k - 1] \in V BY <1>10, <3>1 DEF Within
    <3>3. f[k] = F[<<k, f[k - 1]>>] BY <2>1, <2>2
    <3>4. F[<<k, f[k - 1]>>] = f[k - 1] \o seqs[k] BY <1>3, <3>1, <3>2
    <3> QED BY <1>4, <2>2, <3>3, <3>4
  <2> QED BY <1>4, <2>1, <2>2
<1>12. f = body(f) BY <1>5, <1>10, <1>11 DEF Within
<1>13. c = body(c) BY <1>12
<1> HIDE DEF c
<1>14. \A k \in 1..n : c[k] = IF k = 1 THEN seqs[k] ELSE c[k - 1] \o seqs[k] BY <1>4, <1>13
<1> DEFINE T == {k \in Nat : /\ c[k] \in V
                             /\ \A x : x \in ToSet(c[k]) <=>
                                         \E i \in 1..k : x \in ToSet(seqs[i])}
<1>15. 1 \in T
  <2>1. c[1] = seqs[1] BY <1>1, <1>14
  <2>2. \A x : x \in ToSet(c[1]) <=> \E i \in 1..1 : x \in ToSet(seqs[i]) BY <2>1
  <2> QED BY <1>8, <2>1, <2>2
<1>16. \A k \in 1..(n - 1) : k \in T => k + 1 \in T
  <2> TAKE k \in 1..(n - 1)
  <2> HAVE k \in T
  <2>1. k + 1 \in 1..n /\ k + 1 # 1 /\ (k + 1) - 1 = k /\ k + 1 \in Nat BY <1>1
  <2>2. c[k + 1] = c[k] \o seqs[k + 1] BY <1>14, <2>1
  <2>3. c[k] \in V /\ seqs[k + 1] \in V BY <1>2, <2>1
  <2>4. c[k + 1] \in V /\ ToSet(c[k + 1]) = ToSet(c[k]) \cup ToSet(seqs[k + 1])
    BY <1>7, <2>2, <2>3
  <2>5. \A i \in 1..(k + 1) : i \in 1..k \/ i = k + 1 OBVIOUS
  <2>6. \A i \in 1..k : i \in 1..(k + 1) OBVIOUS
  <2>7. k + 1 \in 1..(k + 1) OBVIOUS
  <2>8. ASSUME NEW x
        PROVE  x \in ToSet(c[k + 1]) <=> \E i \in 1..(k + 1) : x \in ToSet(seqs[i])
    <3>1. x \in ToSet(c[k]) <=> \E i \in 1..k : x \in ToSet(seqs[i]) OBVIOUS
    <3>2. x \in ToSet(c[k + 1]) <=> x \in ToSet(c[k]) \/ x \in ToSet(seqs[k + 1]) BY <2>4
    <3> QED BY <2>5, <2>6, <2>7, <3>1, <3>2
  <2> QED BY <2>1, <2>4, <2>8
<1> HIDE DEF T
<1>17. \A k \in 1..n : k \in T BY ONLY <1>1, <1>15, <1>16, Climb
<1>18. n \in T BY <1>1, <1>17
<1> QED BY <1>6, <1>18 DEF T, V, n

LEMMA VnodesFacts ==
  ASSUME IInv, NEW b \in Members, NEW hash \in Hashes, NEW n,
         n = VnodesPerWeight * AtLeast(1, weight[b])
  PROVE  /\ Vnodes(b, hash, n) \in Seq(Nodes)
         /\ ToSet(Vnodes(b, hash, n)) = NodesOf(b, hash)
         /\ NodesOf(b, hash) # {}
<1> DEFINE s == Vnodes(b, hash, n)
           a == AtLeast(1, weight[b])
<1>1. weight[b] \in WeightsEver /\ weight[b] \in Nat BY PoolFacts DEF IInv
<1>2. a \in Nat \ {0} BY <1>1 DEF AtLeast
<1>3. n \in Nat /\ 1 \in 1..n
  <2> HIDE DEF a
  <2>1. VnodesPerWeight * a \in Nat \ {0} BY <1>2
  <2>2. n = VnodesPerWeight * a BY DEF a
  <2> QED BY <2>1, <2>2
<1>4. \A k \in 1..n : hash[<<b, k - 1>>] \in Nat
  <2> TAKE k \in 1..n
  <2>1. k - 1 \in 0..(n - 1) BY <1>3
  <2>2. k - 1 \in VnodeIndices BY <1>1, <2>1 DEF VnodeIndices
  <2>3. hash \in [Members \X VnodeIndices -> Nat] OBVIOUS
  <2> QED BY <2>2, <2>3
<1>5. s = [k \in 1..n |-> [hash |-> hash[<<b, k - 1>>], backendId |-> b, vnode |-> k - 1]]
  BY DEF Vnodes
<1>6. \A k \in 1..n : s[k] \in Nodes
  <2> TAKE k \in 1..n
  <2>1. hash[<<b, k - 1>>] \in Nat /\ k - 1 \in Nat BY <1>3, <1>4
  <2>2. s[k] = [hash |-> hash[<<b, k - 1>>], backendId |-> b, vnode |-> k - 1] BY <1>5
  <2> HIDE DEF s
  <2> QED BY <2>1, <2>2 DEF Nodes
<1>7. s = [k \in 1..n |-> s[k]] BY <1>5
<1>8. \A k \in 1..n :
        s[k] = [hash |-> hash[<<b, k - 1>>], backendId |-> b, vnode |-> k - 1]
  BY <1>5
<1> HIDE DEF s
<1>9. s \in Seq(Nodes) /\ DOMAIN s = 1..n
  <2>1. s \in [1..n -> Nodes] BY <1>6, <1>7
  <2>2. n \in Nat BY <1>3
  <2> QED BY ONLY <2>1, <2>2
<1>10. ToSet(s) = NodesOf(b, hash)
  <2>1. ToSet(s) = {s[k] : k \in 1..n} BY <1>9 DEF ToSet
  <2> DEFINE g(k) == [hash |-> hash[<<b, k - 1>>], backendId |-> b, vnode |-> k - 1]
  <2>2. NodesOf(b, hash) = {g(k) : k \in 1..n} BY DEF NodesOf
  <2>3. \A k \in 1..n : s[k] = g(k) BY <1>8
  <2> HIDE DEF g
  <2>4. {s[k] : k \in 1..n} = {g(k) : k \in 1..n} BY <2>3
  <2> QED BY <2>1, <2>2, <2>4
<1>11. s[1] \in ToSet(s) BY <1>3, <1>9 DEF ToSet
<1> QED BY <1>9, <1>10, <1>11 DEF s

LEMMA PushedFacts ==
  ASSUME IInv, NEW list \in Candidates, NEW hash \in Hashes
  PROVE  /\ Pushed(list, weight, hash) \in Seq(Nodes)
         /\ ToSet(Pushed(list, weight, hash)) = NodesIn(list, hash)
         /\ NodesIn(list, hash) # {}
<1> DEFINE n == Len(list)
           seqs == [i \in 1..n |->
                      Vnodes(list[i], hash, VnodesPerWeight * AtLeast(1, weight[list[i]]))]
           s == FlattenSeq(seqs)
<1>1. /\ n \in Nat \ {0} /\ DOMAIN list = 1..n /\ 1 \in 1..n
      /\ \A i \in 1..n : list[i] \in Members
  BY CandidateFacts
<1>2. Pushed(list, weight, hash) = s BY <1>1 DEF Pushed
<1>3. \A i \in 1..n : /\ seqs[i] \in Seq(Nodes) /\ ToSet(seqs[i]) = NodesOf(list[i], hash)
                      /\ NodesOf(list[i], hash) # {}
  BY <1>1, VnodesFacts
<1>4. seqs \in Seq(Seq(Nodes)) /\ Len(seqs) = n /\ seqs # << >>
  <2>1. seqs = [i \in 1..n |-> seqs[i]] OBVIOUS
  <2> HIDE DEF seqs, n
  <2>2. seqs \in [1..n -> Seq(Nodes)] BY <1>3, <2>1
  <2> QED BY <1>1, <2>2
<1>5. ToSet(list) = {list[i] : i \in 1..n} BY <1>1 DEF ToSet
<1> HIDE DEF seqs, n
<1>6. s \in Seq(Nodes) /\ \A x : x \in ToSet(s) <=> \E i \in 1..n : x \in ToSet(seqs[i])
  <2>1. /\ s \in Seq(Nodes)
        /\ \A x : x \in ToSet(s) <=> \E i \in 1..Len(seqs) : x \in ToSet(seqs[i])
    BY <1>4, Flattened
  <2> QED BY <1>4, <2>1
<1> HIDE DEF s
<1>7. ToSet(s) \subseteq Nodes BY <1>6 DEF ToSet
<1>8. \A x : x \in ToSet(s) <=> \E b \in ToSet(list) : x \in NodesOf(b, hash)
  BY <1>3, <1>5, <1>6
<1>9. ToSet(s) = NodesIn(list, hash) BY <1>7, <1>8 DEF NodesIn
<1>10. ToSet(s) # {} BY <1>1, <1>3, <1>6
<1> QED BY <1>2, <1>6, <1>9, <1>10

-----------------------------------------------------------------------------
(* Consistent hashing: the order of the ring.                              *)

\* Hash, place in the pool and index order all virtual nodes.
LEMMA BeforeOrders ==
  /\ \A x \in Nodes : ~Before(x, x)
  /\ \A x, y \in Nodes : x = y \/ Before(x, y) \/ Before(y, x)
  /\ \A x, y, z \in Nodes : Before(x, y) /\ Before(y, z) => Before(x, z)
  /\ \A x, y \in Nodes : Before(x, y) => x.hash <= y.hash
<1>1. \A b \in Members : Place[b] \in Nat /\ Pool[Place[b]] = b
  <2>1. \A b \in Members : Place[b] \in 1..Len(Pool) /\ Pool[Place[b]] = b BY PlaceFacts
  <2> QED BY <2>1, PoolFacts
<1>2. \A x \in Nodes : /\ x.hash \in Nat /\ x.vnode \in Nat
                       /\ Place[x.backendId] \in Nat /\ x.backendId = Pool[Place[x.backendId]]
                       /\ x = [hash |-> x.hash, backendId |-> x.backendId, vnode |-> x.vnode]
  BY <1>1 DEF Nodes
<1>3. \A x \in Nodes : ~Before(x, x) BY <1>2 DEF Before
<1>4. ASSUME NEW x \in Nodes, NEW y \in Nodes, ~Before(x, y), ~Before(y, x) PROVE x = y
  <2>1. x.hash = y.hash BY <1>2, <1>4 DEF Before
  <2>2. Place[x.backendId] = Place[y.backendId] BY <1>2, <1>4, <2>1 DEF Before
  <2>3. x.backendId = y.backendId BY <1>2, <2>2
  <2>4. x.vnode = y.vnode BY <1>2, <1>4, <2>1, <2>3 DEF Before
  <2> QED BY <1>2, <2>1, <2>3, <2>4
<1>5. ASSUME NEW x \in Nodes, NEW y \in Nodes, NEW z \in Nodes, Before(x, y), Before(y, z)
      PROVE  Before(x, z)
  <2> DEFINE i == Place[x.backendId]
             j == Place[y.backendId]
             k == Place[z.backendId]
  <2>1. /\ x.hash \in Nat /\ y.hash \in Nat /\ z.hash \in Nat /\ i \in Nat /\ j \in Nat
        /\ k \in Nat /\ x.vnode \in Nat /\ y.vnode \in Nat /\ z.vnode \in Nat
    BY <1>2
  <2>2. \/ x.hash < y.hash
        \/ x.hash = y.hash /\ i < j
        \/ x.hash = y.hash /\ x.backendId = y.backendId /\ x.vnode < y.vnode
    BY <1>5 DEF Before
  <2>3. \/ y.hash < z.hash
        \/ y.hash = z.hash /\ j < k
        \/ y.hash = z.hash /\ y.backendId = z.backendId /\ y.vnode < z.vnode
    BY <1>5 DEF Before
  <2>4. x.backendId = y.backendId => i = j OBVIOUS
  <2>5. y.backendId = z.backendId => j = k OBVIOUS
  <2> HIDE DEF i, j, k
  <2>6. \/ x.hash < z.hash
        \/ x.hash = z.hash /\ i < k
        \/ x.hash = z.hash /\ x.backendId = z.backendId /\ x.vnode < z.vnode
    <3>1. CASE x.hash < y.hash \/ y.hash < z.hash BY ONLY <2>1, <2>2, <2>3, <3>1
    <3>2. CASE ~(x.hash < y.hash \/ y.hash < z.hash)
      <4>1. x.hash = y.hash /\ y.hash = z.hash BY ONLY <2>2, <2>3, <3>2
      <4>2. i < j \/ (x.backendId = y.backendId /\ x.vnode < y.vnode) BY ONLY <2>2, <3>2
      <4>3. j < k \/ (y.backendId = z.backendId /\ y.vnode < z.vnode) BY ONLY <2>3, <3>2
      <4> QED BY ONLY <2>1, <2>4, <2>5, <4>1, <4>2, <4>3
    <3> QED BY <3>1, <3>2
  <2> QED BY <2>6 DEF Before, i, k
<1>6. \A x, y \in Nodes : Before(x, y) => x.hash <= y.hash BY <1>2 DEF Before
<1> QED BY <1>3, <1>4, <1>5, <1>6

\* No entry of the ring is before an earlier one.
Ordered(ring) == \A i, j \in 1..Len(ring) : i < j => ~Before(ring[j], ring[i])

\* The entries before a virtual node are the first ones of an ordered ring.
LEMMA FirstOnes ==
  ASSUME NEW ring \in Seq(Nodes), Ordered(ring), NEW v \in Nodes, NEW p,
         p = Cardinality({i \in DOMAIN ring : Before(ring[i], v)})
  PROVE  p \in 0..Len(ring) /\ \A i \in 1..Len(ring) : Before(ring[i], v) <=> i <= p
<1> DEFINE n == Len(ring)
           Q == {i \in 1..n : Before(ring[i], v)}
<1>1. n \in Nat /\ DOMAIN ring = 1..n /\ \A i \in 1..n : ring[i] \in Nodes OBVIOUS
<1>2. p = Cardinality(Q) BY <1>1
<1> HIDE DEF n
<1>3. \A i, j \in 1..n : j \in Q /\ i < j => i \in Q
  <2> TAKE i, j \in 1..n
  <2> HAVE j \in Q /\ i < j
  <2>1. ring[i] \in Nodes /\ ring[j] \in Nodes /\ Before(ring[j], v) BY <1>1
  <2>2. ~Before(ring[j], ring[i]) BY DEF Ordered, n
  <2>3. Before(ring[i], v) BY <2>1, <2>2, BeforeOrders
  <2> QED BY <2>3
<1>4. PICK m \in 0..n : Q = 1..m
  <2> DEFINE R == {k \in Nat : k >= 1 /\ (k = n + 1 \/ k \in 1..n \ Q)}
  <2>1. n + 1 \in R /\ R \in SUBSET Nat BY <1>1
  <2>2. PICK k \in R : \A j \in R : k <= j BY <2>1, LeastNumber
  <2>3. k \in 1..(n + 1) BY <1>1
  <2>4. \A j \in 1..n : j < k => j \in Q
    <3> TAKE j \in 1..n
    <3> HAVE j < k
    <3>1. j \notin R BY <2>2, <2>3
    <3> QED BY <1>1, <3>1
  <2>5. \A j \in 1..n : j \in Q => j < k
    <3> TAKE j \in 1..n
    <3> HAVE j \in Q
    <3>1. CASE k = n + 1 BY <1>1, <3>1
    <3>2. CASE k # n + 1
      <4>1. k \in 1..n /\ k \notin Q BY <3>2
      <4>2. ~(k < j) BY <1>3, <4>1
      <4>3. k # j BY <4>1
      <4> QED BY <1>1, <4>1, <4>2, <4>3
    <3> QED BY <3>1, <3>2
  <2>6. k - 1 \in 0..n BY <1>1, <2>3
  <2>7. Q \subseteq 1..n OBVIOUS
  <2> HIDE DEF Q, R
  <2>8. Q = 1..(k - 1)
    <3>1. ASSUME NEW j \in Q PROVE j \in 1..(k - 1) BY <1>1, <2>3, <2>5, <2>7
    <3>2. ASSUME NEW j \in 1..(k - 1) PROVE j \in Q
      <4>1. j \in 1..n /\ j < k BY <1>1, <2>3
      <4> QED BY <2>4, <4>1
    <3> QED BY <3>1, <3>2
  <2> QED BY <2>6, <2>8
<1>5. m \in Nat BY <1>1
<1>6. Cardinality(1..m) = m BY <1>5, IntervalSize
<1>7. p = m BY <1>2, <1>4, <1>6
<1>8. \A i \in 1..n : Before(ring[i], v) <=> i \in 1..m BY <1>4
<1>9. \A i \in 1..n : i \in 1..m <=> i <= m BY <1>1, <1>5
<1>10. p \in 0..n /\ \A i \in 1..n : Before(ring[i], v) <=> i <= p BY <1>7, <1>8, <1>9
<1> QED BY <1>10 DEF n

\* Inserting keeps the order and adds nothing but the new entry.
LEMMA InsertedFacts ==
  ASSUME NEW ring \in Seq(Nodes), Ordered(ring), NEW v \in Nodes
  PROVE  /\ Inserted(ring, v) \in Seq(Nodes) /\ Len(Inserted(ring, v)) = Len(ring) + 1
         /\ Ordered(Inserted(ring, v)) /\ ToSet(Inserted(ring, v)) = ToSet(ring) \cup {v}
<1> DEFINE n == Len(ring)
           p == Cardinality({i \in DOMAIN ring : Before(ring[i], v)})
           r == Inserted(ring, v)
           a == SubSeq(ring, 1, p)
           d == SubSeq(ring, p + 1, n)
           u == a \o <<v>>
<1>1. n \in Nat /\ DOMAIN ring = 1..n /\ \A i \in 1..n : ring[i] \in Nodes OBVIOUS
<1>2. p \in 0..n /\ \A i \in 1..n : Before(ring[i], v) <=> i <= p BY FirstOnes
<1>3. r = u \o d
  <2>1. (p + 1) - 1 = p BY <1>1, <1>2
  <2> HIDE DEF p
  <2>2. InsertAt(ring, p + 1, v) = SubSeq(ring, 1, (p + 1) - 1) \o <<v>> \o SubSeq(ring, p + 1, Len(ring))
    BY DEF InsertAt
  <2>3. r = InsertAt(ring, p + 1, v) BY DEF Inserted, p
  <2> HIDE DEF r
  <2> QED BY <2>1, <2>2, <2>3
<1> HIDE DEF p, r
<1>4. a \in Seq(Nodes) /\ Len(a) = p /\ \A i \in 1..p : a[i] = ring[i]
  BY <1>1, <1>2
<1>5. d \in Seq(Nodes) /\ Len(d) = n - p /\ \A i \in 1..(n - p) : d[i] = ring[i + p]
  <2>1. p + 1 \in 1..(n + 1) /\ \A i \in (p + 1)..n : ring[i] \in Nodes BY <1>1, <1>2
  <2>2. d = [i \in 1..(n - (p + 1) + 1) |-> ring[i + (p + 1) - 1]] BY <1>1, <1>2
  <2>3. n - (p + 1) + 1 = n - p /\ n - p \in Nat BY <1>1, <1>2
  <2>4. \A i \in 1..(n - p) : i + (p + 1) - 1 = i + p /\ i + p \in 1..n BY <1>1, <1>2
  <2> HIDE DEF d, n
  <2>5. d = [i \in 1..(n - p) |-> ring[i + p]] BY <2>2, <2>3, <2>4
  <2>6. d \in [1..(n - p) -> Nodes] BY <1>1, <2>4, <2>5
  <2>7. d \in Seq(Nodes) /\ Len(d) = n - p
    <3> DEFINE q == n - p
    <3>1. q \in Nat /\ d \in [1..q -> Nodes] BY <2>3, <2>6
    <3> HIDE DEF q
    <3>2. d \in Seq(Nodes) /\ Len(d) = q BY ONLY <3>1
    <3> QED BY <3>2 DEF q
  <2> QED BY <2>5, <2>7
<1> HIDE DEF a, d, n
<1>6. u \in Seq(Nodes) /\ Len(u) = p + 1 /\ \A i \in 1..(p + 1) : u[i] = IF i <= p THEN ring[i] ELSE v
  <2>1. <<v>> \in Seq(Nodes) /\ Len(<<v>>) = 1 OBVIOUS
  <2>2. p \in Nat BY <1>1, <1>2
  <2>3. u \in Seq(Nodes) /\ Len(u) = p + 1 BY <1>4, <2>1, <2>2
  <2>4. ASSUME NEW i \in 1..(p + 1) PROVE u[i] = IF i <= p THEN ring[i] ELSE v
    <3>1. CASE i <= p BY <1>4, <2>1, <2>2, <3>1
    <3>2. CASE ~(i <= p)
      <4>1. i = p + 1 BY <2>2, <3>2
      <4>2. u[p + 1] = v BY <1>4, <2>1, <2>2
      <4> QED BY <3>2, <4>1, <4>2
    <3> QED BY <3>1, <3>2
  <2> QED BY <2>3, <2>4
<1> HIDE DEF u
<1>7. r \in Seq(Nodes) /\ Len(r) = n + 1
  <2>1. Len(u) + Len(d) = n + 1 BY <1>1, <1>2, <1>5, <1>6
  <2>2. u \in Seq(Nodes) /\ d \in Seq(Nodes) BY <1>5, <1>6
  <2>3. u \o d \in Seq(Nodes) /\ Len(u \o d) = Len(u) + Len(d) BY ONLY <2>2
  <2> QED BY <1>3, <2>1, <2>3
<1>8. \A i \in 1..(n + 1) :
        r[i] = IF i <= p THEN ring[i] ELSE IF i = p + 1 THEN v ELSE ring[i - 1]
  <2> TAKE i \in 1..(n + 1)
  <2>1. CASE i <= p + 1
    <3>1. i \in 1..(p + 1) /\ p + 1 \in Nat BY <1>1, <1>2, <2>1
    <3>2. r[i] = u[i] BY <1>3, <1>5, <1>6, <3>1
    <3> QED BY <1>1, <1>2, <1>6, <3>1, <3>2
  <2>2. CASE ~(i <= p + 1)
    <3>1. i - (p + 1) \in 1..(n - p) /\ (i - (p + 1)) + p = i - 1 BY <1>1, <1>2, <2>2
    <3>2. r[i] = d[i - (p + 1)] BY <1>1, <1>2, <1>3, <1>5, <1>6, <2>2, <3>1
    <3>3. d[i - (p + 1)] = ring[i - 1] BY <1>5, <3>1
    <3> QED BY <1>1, <1>2, <2>2, <3>2, <3>3
  <2> QED BY <2>1, <2>2
<1>9. Ordered(r)
  <2> SUFFICES ASSUME NEW i \in 1..(n + 1), NEW j \in 1..(n + 1), i < j
               PROVE  ~Before(r[j], r[i])
    BY <1>7 DEF Ordered
  <2>1. \A k, l \in 1..n : k < l => ~Before(ring[l], ring[k]) BY DEF Ordered, n
  <2>2. \A k \in 1..n : k <= p => Before(ring[k], v) BY <1>2
  <2>3. \A k \in 1..n : ~(k <= p) => ~Before(ring[k], v) BY <1>2
  <2>4. CASE j <= p
    <3>1. i \in 1..n /\ j \in 1..n /\ i <= p BY <1>1, <1>2, <2>4
    <3> QED BY <1>8, <2>1, <2>4, <3>1
  <2>5. CASE j = p + 1
    <3>1. i \in 1..n /\ i <= p /\ ~(j <= p) BY <1>1, <1>2, <2>5
    <3>2. r[i] = ring[i] /\ r[j] = v /\ ring[i] \in Nodes BY <1>1, <1>8, <2>5, <3>1
    <3>3. Before(ring[i], v) BY <2>2, <3>1
    <3> QED BY <3>2, <3>3, BeforeOrders
  <2>6. CASE j > p + 1
    <3>1. j - 1 \in 1..n /\ ~(j <= p) /\ j # p + 1 /\ ~(j - 1 <= p) BY <1>1, <1>2, <2>6
    <3>2. r[j] = ring[j - 1] BY <1>8, <3>1
    <3>3. CASE i <= p
      <4>1. i \in 1..n /\ i < j - 1 /\ r[i] = ring[i] BY <1>1, <1>2, <1>8, <2>6, <3>3
      <4> QED BY <2>1, <3>1, <3>2, <4>1
    <3>4. CASE i = p + 1
      <4>1. r[i] = v BY <1>1, <1>2, <1>8, <3>4
      <4> QED BY <2>3, <3>1, <3>2, <4>1
    <3>5. CASE i > p + 1
      <4>1. i - 1 \in 1..n /\ i - 1 < j - 1 /\ ~(i <= p) /\ i # p + 1 BY <1>1, <1>2, <3>5
      <4>2. r[i] = ring[i - 1] BY <1>8, <4>1
      <4> QED BY <2>1, <3>1, <3>2, <4>1, <4>2
    <3>6. i <= p \/ i = p + 1 \/ i > p + 1 BY <1>1, <1>2
    <3> QED BY <3>3, <3>4, <3>5, <3>6
  <2>7. j <= p \/ j = p + 1 \/ j > p + 1 BY <1>1, <1>2
  <2> QED BY <2>4, <2>5, <2>6, <2>7
<1>10. ToSet(r) = ToSet(ring) \cup {v}
  <2>1. DOMAIN r = 1..(n + 1) BY <1>7
  <2>2. ASSUME NEW x \in ToSet(r) PROVE x \in ToSet(ring) \cup {v}
    <3>1. PICK i \in 1..(n + 1) : x = r[i] BY <2>1 DEF ToSet
    <3>2. CASE i <= p
      <4>1. i \in 1..n /\ x = ring[i] BY <1>1, <1>2, <1>8, <3>1, <3>2
      <4> QED BY <1>1, <4>1 DEF ToSet
    <3>3. CASE i = p + 1 BY <1>1, <1>2, <1>8, <3>1, <3>3
    <3>4. CASE i > p + 1
      <4>1. i - 1 \in 1..n /\ ~(i <= p) /\ i # p + 1 BY <1>1, <1>2, <3>4
      <4>2. x = ring[i - 1] BY <1>8, <3>1, <4>1
      <4> QED BY <1>1, <4>1, <4>2 DEF ToSet
    <3>5. i <= p \/ i = p + 1 \/ i > p + 1 BY <1>1, <1>2
    <3> QED BY <3>2, <3>3, <3>4, <3>5
  <2>3. v \in ToSet(r)
    <3>1. p + 1 \in 1..(n + 1) /\ ~(p + 1 <= p) BY <1>1, <1>2
    <3>2. v = r[p + 1] BY <1>8, <3>1
    <3> QED BY <2>1, <3>1, <3>2 DEF ToSet
  <2>4. ASSUME NEW x \in ToSet(ring) PROVE x \in ToSet(r)
    <3>1. PICK i \in 1..n : x = ring[i] BY <1>1 DEF ToSet
    <3>2. CASE i <= p
      <4>1. i \in 1..(n + 1) /\ x = r[i] BY <1>1, <1>8, <3>1, <3>2
      <4> QED BY <2>1, <4>1 DEF ToSet
    <3>3. CASE ~(i <= p)
      <4>1. i + 1 \in 1..(n + 1) /\ ~(i + 1 <= p) /\ i + 1 # p + 1 /\ (i + 1) - 1 = i
        BY <1>1, <1>2, <3>3
      <4>2. x = r[i + 1] BY <1>8, <3>1, <4>1
      <4> QED BY <2>1, <4>1, <4>2 DEF ToSet
    <3> QED BY <3>2, <3>3
  <2> QED BY <2>2, <2>3, <2>4
<1> QED BY <1>7, <1>9, <1>10 DEF r, n

\* Sorting puts the virtual nodes in order and keeps them all.
LEMMA SortedFacts ==
  ASSUME NEW nodes \in Seq(Nodes)
  PROVE  /\ Sorted(nodes) \in Seq(Nodes) /\ Len(Sorted(nodes)) = Len(nodes)
         /\ Ordered(Sorted(nodes)) /\ ToSet(Sorted(nodes)) = ToSet(nodes)
<1> DEFINE n == Len(nodes)
           V == {ring \in Seq(Nodes) : Ordered(ring)}
           body(f) == [k \in 0..n |-> IF k = 0 THEN << >> ELSE Inserted(f[k - 1], nodes[k])]
           c == CHOOSE f : f = body(f)
           F == [p \in (1..n) \X V |-> Inserted(p[2], nodes[p[1]])]
<1>1. n \in Nat /\ 0 \in Nat /\ 0 \in 0..n /\ n \in 0..n OBVIOUS
<1>2. \A k \in 1..n : nodes[k] \in Nodes OBVIOUS
<1>3. DOMAIN nodes = 1..n OBVIOUS
<1>4. \A k \in 1..n : \A v \in V : F[<<k, v>>] = Inserted(v, nodes[k]) OBVIOUS
<1>5. \A f : \A k \in 0..n :
        body(f)[k] = IF k = 0 THEN << >> ELSE Inserted(f[k - 1], nodes[k])
  OBVIOUS
<1>6. \A f : body(f) = [k \in 0..n |-> body(f)[k]] OBVIOUS
<1>7. Sorted(nodes) = c[n] BY ONLY TRUE DEF Sorted
<1>8. << >> \in V /\ Len(<< >>) = 0 /\ ToSet(<< >>) = {} BY DEF Ordered, ToSet
<1>9. \A v \in V : v \in Seq(Nodes) /\ Ordered(v) OBVIOUS
<1>10. \A v \in V, x \in Nodes : /\ Inserted(v, x) \in V /\ Len(Inserted(v, x)) = Len(v) + 1
                                 /\ ToSet(Inserted(v, x)) = ToSet(v) \cup {x}
  BY InsertedFacts
<1> HIDE DEF n, V, F, body
<1>11. Continues(F, 0, n, V)
  <2>1. ASSUME NEW k \in (0 + 1)..n, NEW v \in V PROVE F[<<k, v>>] \in V
    <3>1. k \in 1..n BY <1>1
    <3> QED BY <1>2, <1>4, <1>10, <3>1
  <2> QED BY <2>1 DEF Continues
<1>12. PICK f : Runs(f, F, 0, n, << >>) /\ Within(f, 0, n, V)
  BY ONLY <1>1, <1>8, <1>11, Recursion
<1>13. \A k \in 0..n : f[k] = body(f)[k]
  <2> TAKE k \in 0..n
  <2>1. f[k] = IF k = 0 THEN << >> ELSE F[<<k, f[k - 1]>>] BY <1>12 DEF Runs
  <2>2. CASE k # 0
    <3>1. k \in 1..n /\ k - 1 \in 0..n BY <1>1, <2>2
    <3>2. f[k - 1] \in V BY <1>12, <3>1 DEF Within
    <3> QED BY <1>4, <1>5, <2>1, <2>2, <3>1, <3>2
  <2> QED BY <1>5, <2>1, <2>2
<1>14. f = body(f) BY <1>6, <1>12, <1>13 DEF Within
<1>15. c = body(c) BY <1>14
<1> HIDE DEF c
<1>16. \A k \in 0..n : c[k] = IF k = 0 THEN << >> ELSE Inserted(c[k - 1], nodes[k])
  BY <1>5, <1>15
<1> DEFINE T == {k \in Nat : /\ c[k] \in V /\ Len(c[k]) = k
                             /\ ToSet(c[k]) = {nodes[i] : i \in 1..k}}
<1>17. 0 \in T
  <2>1. c[0] = << >> BY <1>1, <1>16
  <2> QED BY <1>8, <2>1
<1>18. \A k \in 0..(n - 1) : k \in T => k + 1 \in T
  <2> TAKE k \in 0..(n - 1)
  <2> HAVE k \in T
  <2>1. k + 1 \in 0..n /\ k + 1 \in 1..n /\ k + 1 # 0 /\ (k + 1) - 1 = k /\ k + 1 \in Nat
    BY <1>1
  <2>2. c[k + 1] = Inserted(c[k], nodes[k + 1]) BY <1>16, <2>1
  <2>3. /\ c[k + 1] \in V /\ Len(c[k + 1]) = k + 1
        /\ ToSet(c[k + 1]) = {nodes[i] : i \in 1..k} \cup {nodes[k + 1]}
    BY <1>2, <1>10, <2>1, <2>2
  <2>4. {nodes[i] : i \in 1..k} \cup {nodes[k + 1]} = {nodes[i] : i \in 1..(k + 1)}
    <3>1. \A i \in 1..(k + 1) : i \in 1..k \/ i = k + 1 OBVIOUS
    <3>2. (\A i \in 1..k : i \in 1..(k + 1)) /\ k + 1 \in 1..(k + 1) OBVIOUS
    <3> QED BY <3>1, <3>2
  <2> QED BY <2>1, <2>3, <2>4
<1> HIDE DEF T
<1>19. \A k \in 0..n : k \in T BY ONLY <1>1, <1>17, <1>18, Climb
<1>20. n \in T BY <1>1, <1>19
<1>21. c[n] \in V /\ Len(c[n]) = n /\ ToSet(c[n]) = {nodes[i] : i \in 1..n} BY <1>20 DEF T
<1>22. ToSet(nodes) = {nodes[i] : i \in 1..n} BY <1>3 DEF ToSet
<1> QED BY <1>7, <1>9, <1>21, <1>22 DEF n

\* The ring of a list holds its virtual nodes and nothing else, in order.
LEMMA RingFacts ==
  ASSUME IInv, NEW list \in Candidates, NEW hash \in Hashes, NEW ring,
         ring = BuildRing(list, weight, hash)
  PROVE  /\ ring \in Seq(Nodes) /\ Len(ring) \in Nat \ {0} /\ Ordered(ring)
         /\ ToSet(ring) = NodesIn(list, hash)
<1> DEFINE s == Pushed(list, weight, hash)
<1>1. s \in Seq(Nodes) /\ ToSet(s) = NodesIn(list, hash) /\ NodesIn(list, hash) # {}
  BY PushedFacts
<1>2. ring = Sorted(s) BY DEF BuildRing
<1> HIDE DEF s
<1>3. ring \in Seq(Nodes) /\ Ordered(ring) /\ ToSet(ring) = NodesIn(list, hash)
  BY <1>1, <1>2, SortedFacts
<1>4. ring # << >>
  <2>1. ToSet(<< >>) = {} BY DEF ToSet
  <2> QED BY <1>1, <1>3, <2>1
<1>5. Len(ring) \in Nat \ {0} BY <1>3, <1>4
<1> QED BY <1>3, <1>5

LEMMA HashesRise ==
  ASSUME NEW ring \in Seq(Nodes), Ordered(ring)
  PROVE  /\ \A i \in 1..Len(ring) : ring[i] \in Nodes /\ ring[i].hash \in Nat
         /\ \A i, j \in 1..Len(ring) : i <= j => ring[i].hash <= ring[j].hash
<1>1. \A i \in 1..Len(ring) : ring[i] \in Nodes OBVIOUS
<1>2. \A i \in 1..Len(ring) : ring[i].hash \in Nat BY <1>1 DEF Nodes
<1>3. ASSUME NEW i \in 1..Len(ring), NEW j \in 1..Len(ring), i <= j
      PROVE  ring[i].hash <= ring[j].hash
  <2>1. CASE i = j BY <1>2, <2>1
  <2>2. CASE i # j
    <3>1. i < j BY <1>3, <2>2
    <3>2. ~Before(ring[j], ring[i]) BY <3>1 DEF Ordered
    <3>3. ~(ring[j].hash < ring[i].hash) BY <3>2 DEF Before
    <3> QED BY <1>2, <3>3
  <2> QED BY <2>1, <2>2
<1> QED BY <1>1, <1>2, <1>3

-----------------------------------------------------------------------------
(* Consistent hashing: the binary search.                                  *)

\* The states of a search: what is below the range is below the target, what
\* is above the range is not, and the result is the entry above the range.
Search(ring, target) ==
  {s \in [low : 1..(Len(ring) + 1), high : 0..Len(ring), result : 1..Len(ring)] :
     /\ s.low <= s.high + 1
     /\ \A i \in 1..Len(ring) : i < s.low => ring[i].hash < target
     /\ \A i \in 1..Len(ring) : i > s.high => ring[i].hash >= target
     /\ s.high < Len(ring) => s.result = s.high + 1}

LEMMA HalvedFacts ==
  ASSUME NEW ring \in Seq(Nodes), Ordered(ring), NEW target \in Nat,
         NEW s \in Search(ring, target)
  PROVE  /\ Halved(ring, target, s) \in Search(ring, target)
         /\ s.low > s.high => Halved(ring, target, s) = s
         /\ s.low <= s.high =>
              Halved(ring, target, s).high - Halved(ring, target, s).low <= s.high - s.low - 1
<1> DEFINE n == Len(ring)
           mid == (s.low + s.high) \div 2
           t == Halved(ring, target, s)
<1>1. n \in Nat OBVIOUS
<1>2. /\ s \in [low : 1..(n + 1), high : 0..n, result : 1..n] /\ s.low <= s.high + 1
      /\ \A i \in 1..n : i < s.low => ring[i].hash < target
      /\ \A i \in 1..n : i > s.high => ring[i].hash >= target
      /\ s.high < n => s.result = s.high + 1
  BY DEF Search
<1>3. s.low \in 1..(n + 1) /\ s.high \in 0..n /\ s.result \in 1..n BY <1>2
<1>4. /\ \A i \in 1..n : ring[i].hash \in Nat
      /\ \A i, j \in 1..n : i <= j => ring[i].hash <= ring[j].hash
  BY HashesRise
<1>5. CASE s.low > s.high
  <2>1. t = s BY <1>5 DEF Halved
  <2> QED BY <1>3, <1>5, <2>1
<1>6. CASE s.low <= s.high
  <2>1. mid \in Int /\ s.low <= mid /\ mid <= s.high
    <3> DEFINE l == s.low
               h == s.high
    <3>1. l \in Int /\ h \in Int /\ l <= h BY <1>3, <1>6
    <3> HIDE DEF l, h
    <3>2. (l + h) \div 2 \in Int /\ l <= (l + h) \div 2 /\ (l + h) \div 2 <= h BY ONLY <3>1
    <3> QED BY <3>2 DEF l, h
  <2>2. t = IF ring[mid].hash >= target THEN [s EXCEPT !.high = mid - 1, !.result = mid]
            ELSE [s EXCEPT !.low = mid + 1]
    BY <1>3, <1>6 DEF Halved
  <2> HIDE DEF mid, t, n
  <2>3. mid \in 1..n BY <1>1, <1>3, <2>1
  <2>4. CASE ring[mid].hash >= target
    <3>1. t = [s EXCEPT !.high = mid - 1, !.result = mid] BY <2>2, <2>4
    <3>2. t = [low |-> s.low, high |-> mid - 1, result |-> mid] BY <1>2, <3>1
    <3>3. t.low = s.low /\ t.high = mid - 1 /\ t.result = mid BY <3>2
    <3>4. mid - 1 \in 0..n /\ s.low <= (mid - 1) + 1 /\ mid = (mid - 1) + 1
      BY <1>1, <1>3, <2>1, <2>3
    <3>5. \A i \in 1..n : i > mid - 1 => ring[i].hash >= target
      <4> TAKE i \in 1..n
      <4> HAVE i > mid - 1
      <4>1. mid <= i BY <2>3
      <4>2. ring[mid].hash <= ring[i].hash BY <1>4, <2>3, <4>1
      <4>3. ring[mid].hash \in Nat /\ ring[i].hash \in Nat BY <1>4, <2>3
      <4> QED BY <2>4, <4>2, <4>3
    <3>6. t \in [low : 1..(n + 1), high : 0..n, result : 1..n] BY <1>3, <2>3, <3>2, <3>4
    <3>7. t \in Search(ring, target)
      <4>1. t.low <= t.high + 1 /\ t.result = t.high + 1 BY <3>3, <3>4
      <4>2. \A i \in 1..n : i < t.low => ring[i].hash < target BY <1>2, <3>3
      <4>3. \A i \in 1..n : i > t.high => ring[i].hash >= target BY <3>3, <3>5
      <4> QED BY <3>6, <4>1, <4>2, <4>3 DEF Search, n
    <3>8. t.high - t.low <= s.high - s.low - 1 BY <1>3, <2>1, <3>3
    <3> QED BY <1>3, <1>6, <3>7, <3>8 DEF t
  <2>5. CASE ~(ring[mid].hash >= target)
    <3>1. t = [s EXCEPT !.low = mid + 1] BY <2>2, <2>5
    <3>2. t = [low |-> mid + 1, high |-> s.high, result |-> s.result] BY <1>2, <3>1
    <3>3. t.low = mid + 1 /\ t.high = s.high /\ t.result = s.result BY <3>2
    <3>4. mid + 1 \in 1..(n + 1) /\ mid + 1 <= s.high + 1 BY <1>1, <1>3, <2>1, <2>3
    <3>5. \A i \in 1..n : i < mid + 1 => ring[i].hash < target
      <4> TAKE i \in 1..n
      <4> HAVE i < mid + 1
      <4>1. i <= mid BY <2>3
      <4>2. ring[i].hash <= ring[mid].hash BY <1>4, <2>3, <4>1
      <4>3. ring[mid].hash \in Nat /\ ring[i].hash \in Nat BY <1>4, <2>3
      <4> QED BY <2>5, <4>2, <4>3
    <3>6. t \in [low : 1..(n + 1), high : 0..n, result : 1..n] BY <1>3, <3>2, <3>4
    <3>7. t \in Search(ring, target)
      <4>1. t.low <= t.high + 1 /\ (t.high < n => t.result = t.high + 1) BY <1>2, <3>3, <3>4
      <4>2. \A i \in 1..n : i < t.low => ring[i].hash < target BY <3>3, <3>5
      <4>3. \A i \in 1..n : i > t.high => ring[i].hash >= target BY <1>2, <3>3
      <4> QED BY <3>6, <4>1, <4>2, <4>3 DEF Search, n
    <3>8. t.high - t.low <= s.high - s.low - 1 BY <1>3, <2>1, <3>3
    <3> QED BY <1>3, <1>6, <3>7, <3>8 DEF t
  <2> QED BY <2>4, <2>5
<1>7. s.low > s.high \/ s.low <= s.high BY <1>3
<1> QED BY <1>5, <1>6, <1>7

\* What the search returns: the first entry at or above the target, or the
\* first of all when there is none.
LEMMA SearchFinds ==
  ASSUME NEW ring \in Seq(Nodes), Len(ring) \in Nat \ {0}, Ordered(ring), NEW target \in Nat
  PROVE  /\ FindRingIndex(ring, target) \in 1..Len(ring)
         /\ (\A i \in 1..Len(ring) : ring[i].hash < target) => FindRingIndex(ring, target) = 1
         /\ (\E i \in 1..Len(ring) : ring[i].hash >= target) =>
              /\ ring[FindRingIndex(ring, target)].hash >= target
              /\ \A i \in 1..Len(ring) :
                   i < FindRingIndex(ring, target) => ring[i].hash < target
<1> DEFINE n == Len(ring)
           V == Search(ring, target)
           start == [low |-> 1, high |-> Len(ring), result |-> 1]
           body(f) == [k \in 0..Len(ring) |->
                         IF k = 0 THEN [low |-> 1, high |-> Len(ring), result |-> 1]
                         ELSE Halved(ring, target, f[k - 1])]
           c == CHOOSE f : f = body(f)
           F == [p \in (1..n) \X V |-> Halved(ring, target, p[2])]
           found == FindRingIndex(ring, target)
<1>1. n \in Nat /\ 0 \in Nat /\ 0 \in 0..n /\ n \in 0..n /\ n \in 1..n /\ 1 \in 1..n OBVIOUS
<1>2. /\ \A i \in 1..n : ring[i].hash \in Nat
      /\ \A i, j \in 1..n : i <= j => ring[i].hash <= ring[j].hash
  BY HashesRise
<1>3. start \in V
  <2>1. start \in [low : 1..(n + 1), high : 0..n, result : 1..n] BY <1>1
  <2>2. start.low = 1 /\ start.high = n OBVIOUS
  <2>3. \A i \in 1..n : ~(i < 1) /\ ~(i > n) BY <1>1
  <2> HIDE DEF start
  <2>4. start.low <= start.high + 1 /\ ~(start.high < n) BY <1>1, <2>2
  <2> QED BY <2>1, <2>2, <2>3, <2>4 DEF Search
<1>4. \A s \in V : /\ Halved(ring, target, s) \in V
                   /\ s.low > s.high => Halved(ring, target, s) = s
                   /\ s.low <= s.high =>
                        Halved(ring, target, s).high - Halved(ring, target, s).low
                          <= s.high - s.low - 1
  BY HalvedFacts
<1>5. \A s \in V : /\ s.low \in 1..(n + 1) /\ s.high \in 0..n /\ s.result \in 1..n
                   /\ s.low <= s.high + 1
                   /\ \A i \in 1..n : i < s.low => ring[i].hash < target
                   /\ \A i \in 1..n : i > s.high => ring[i].hash >= target
                   /\ s.high < n => s.result = s.high + 1
  BY DEF Search
<1>6. \A k \in 1..n : \A s \in V : F[<<k, s>>] = Halved(ring, target, s) OBVIOUS
<1>7. \A f : \A k \in 0..n : body(f)[k] = IF k = 0 THEN start ELSE Halved(ring, target, f[k - 1])
  OBVIOUS
<1>8. \A f : body(f) = [k \in 0..n |-> body(f)[k]] OBVIOUS
<1>9. found = IF target > ring[n].hash THEN 1 ELSE c[n].result BY ONLY TRUE DEF FindRingIndex
<1>10. start.low = 1 /\ start.high = n OBVIOUS
<1> HIDE DEF n, V, F, body, start, found
<1>11. Continues(F, 0, n, V)
  <2>1. ASSUME NEW k \in (0 + 1)..n, NEW s \in V PROVE F[<<k, s>>] \in V
    <3>1. k \in 1..n BY <1>1
    <3> QED BY <1>4, <1>6, <3>1
  <2> QED BY <2>1 DEF Continues
<1>12. PICK f : Runs(f, F, 0, n, start) /\ Within(f, 0, n, V)
  BY ONLY <1>1, <1>3, <1>11, Recursion
<1>13. \A k \in 0..n : f[k] = body(f)[k]
  <2> TAKE k \in 0..n
  <2>1. f[k] = IF k = 0 THEN start ELSE F[<<k, f[k - 1]>>] BY <1>12 DEF Runs
  <2>2. CASE k # 0
    <3>1. k \in 1..n /\ k - 1 \in 0..n BY <1>1, <2>2
    <3>2. f[k - 1] \in V BY <1>12, <3>1 DEF Within
    <3> QED BY <1>6, <1>7, <2>1, <2>2, <3>1, <3>2
  <2> QED BY <1>7, <2>1, <2>2
<1>14. f = body(f) BY <1>8, <1>12, <1>13 DEF Within
<1>15. c = body(c) BY <1>14
<1> HIDE DEF c
<1>16. \A k \in 0..n : c[k] = IF k = 0 THEN start ELSE Halved(ring, target, c[k - 1])
  BY <1>7, <1>15
<1> DEFINE T == {k \in Nat : /\ c[k] \in V
                             /\ c[k].low > c[k].high \/ c[k].high - c[k].low <= n - 1 - k}
<1>17. 0 \in T
  <2>1. c[0] = start BY <1>1, <1>16
  <2>2. start.high - start.low <= n - 1 - 0 BY <1>1, <1>10
  <2> QED BY <1>3, <2>1, <2>2
<1>18. \A k \in 0..(n - 1) : k \in T => k + 1 \in T
  <2> TAKE k \in 0..(n - 1)
  <2> HAVE k \in T
  <2>1. k + 1 \in 0..n /\ k + 1 # 0 /\ (k + 1) - 1 = k /\ k + 1 \in Nat BY <1>1
  <2> DEFINE s == c[k]
             t == c[k + 1]
  <2>2. t = Halved(ring, target, s) BY <1>16, <2>1
  <2>3. s \in V /\ (s.low > s.high \/ s.high - s.low <= n - 1 - k) OBVIOUS
  <2> HIDE DEF s, t
  <2>4. t \in V BY <1>4, <2>2, <2>3
  <2>5. s.low \in Int /\ s.high \in Int /\ t.low \in Int /\ t.high \in Int BY <1>5, <2>3, <2>4
  <2>6. t.low > t.high \/ t.high - t.low <= n - 1 - (k + 1)
    <3>1. CASE s.low > s.high
      <4>1. t = s BY <1>4, <2>2, <2>3, <3>1
      <4> QED BY <3>1, <4>1
    <3>2. CASE ~(s.low > s.high)
      <4>1. s.low <= s.high BY <2>5, <3>2
      <4>2. t.high - t.low <= s.high - s.low - 1 BY <1>4, <2>2, <2>3, <4>1
      <4>3. s.high - s.low <= n - 1 - k BY <2>3, <3>2
      <4> QED BY <1>1, <2>5, <4>2, <4>3
    <3> QED BY <3>1, <3>2
  <2> QED BY <2>1, <2>4, <2>6 DEF t
<1> HIDE DEF T
<1>19. \A k \in 0..n : k \in T BY ONLY <1>1, <1>17, <1>18, Climb
<1> DEFINE e == c[n]
<1>20. e \in V /\ (e.low > e.high \/ e.high - e.low <= n - 1 - n)
  <2>1. n \in T BY <1>1, <1>19
  <2> QED BY <2>1 DEF T
<1>21. found = IF target > ring[n].hash THEN 1 ELSE e.result BY <1>9
<1> HIDE DEF e
<1>22. e.low \in 1..(n + 1) /\ e.high \in 0..n /\ e.result \in 1..n /\ e.low <= e.high + 1
  BY <1>5, <1>20
<1>23. e.low = e.high + 1 BY <1>1, <1>20, <1>22
<1>24. CASE target > ring[n].hash
  <2>1. found = 1 BY <1>21, <1>24
  <2>2. \A i \in 1..n : ~(ring[i].hash >= target)
    <3> TAKE i \in 1..n
    <3>1. ring[i].hash <= ring[n].hash /\ ring[i].hash \in Nat /\ ring[n].hash \in Nat
      BY <1>1, <1>2
    <3> QED BY <1>24, <3>1
  <2> QED BY <1>1, <2>1, <2>2 DEF n, found
<1>25. CASE ~(target > ring[n].hash)
  <2>1. found = e.result BY <1>21, <1>25
  <2>2. ring[n].hash \in Nat /\ ring[n].hash >= target BY <1>1, <1>2, <1>25
  <2>3. e.high < n
    <3>1. e.high = n => n < e.low BY <1>1, <1>23
    <3>2. ~(n < e.low)
      <4>1. n < e.low => ring[n].hash < target BY <1>1, <1>5, <1>20
      <4> QED BY <2>2, <4>1
    <3> QED BY <1>1, <1>22, <3>1, <3>2
  <2>4. e.result = e.high + 1 BY <1>5, <1>20, <2>3
  <2>5. found \in 1..n /\ found = e.low /\ found > e.high BY <1>1, <1>22, <1>23, <2>1, <2>4
  <2>6. ring[found].hash >= target BY <1>5, <1>20, <2>5
  <2>7. \A i \in 1..n : i < found => ring[i].hash < target BY <1>5, <1>20, <2>5
  <2>8. ~(\A i \in 1..n : ring[i].hash < target)
    <3>1. ~(ring[n].hash < target) BY <2>2
    <3> QED BY <1>1, <3>1
  <2> QED BY <2>5, <2>6, <2>7, <2>8 DEF n, found
<1> QED BY <1>24, <1>25

\* The search returns the owner's place by its definition.
THEOREM OwnersClockwise == Spec => []OwnerClockwise
<1>1. IInv => OwnerClockwise
  <2> DEFINE Ahead(ring, key) == {i \in DOMAIN ring : ring[i].hash >= key}
  <2> SUFFICES ASSUME IInv, NEW list \in Candidates, NEW hash \in Hashes, NEW ring,
                      ring = BuildRing(list, weight, hash), NEW key \in Keys, NEW ahead,
                      ahead = Ahead(ring, key)
               PROVE  FindRingIndex(ring, key) = IF ahead = {} THEN 1 ELSE Min(ahead)
    <3>1. ASSUME IInv,
                 \A list \in Candidates, hash \in Hashes : \A key \in Keys :
                   FindRingIndex(BuildRing(list, weight, hash), key)
                     = IF Ahead(BuildRing(list, weight, hash), key) = {} THEN 1
                       ELSE Min(Ahead(BuildRing(list, weight, hash), key))
          PROVE  OwnerClockwise
      BY <3>1 DEF OwnerClockwise
    <3> HIDE DEF Ahead
    <3> QED BY <3>1
  <2> DEFINE n == Len(ring)
             found == FindRingIndex(ring, key)
  <2>1. ring \in Seq(Nodes) /\ n \in Nat \ {0} /\ Ordered(ring) BY RingFacts
  <2>2. key \in Nat OBVIOUS
  <2>3. /\ found \in 1..n
        /\ (\A i \in 1..n : ring[i].hash < key) => found = 1
        /\ (\E i \in 1..n : ring[i].hash >= key) =>
             ring[found].hash >= key /\ \A i \in 1..n : i < found => ring[i].hash < key
    BY <2>1, <2>2, SearchFinds
  <2>4. DOMAIN ring = 1..n BY <2>1
  <2>5. \A i \in 1..n : ring[i].hash \in Nat BY <2>1, HashesRise
  <2> HIDE DEF n, found
  <2>6. ahead = {i \in 1..n : ring[i].hash >= key} BY <2>4
  <2>7. CASE ahead = {}
    <3>1. \A i \in 1..n : ring[i].hash < key BY <2>2, <2>5, <2>6, <2>7
    <3> QED BY <2>3, <2>7, <3>1 DEF found
  <2>8. CASE ahead # {}
    <3>1. \E i \in 1..n : ring[i].hash >= key BY <2>6, <2>8
    <3>2. found \in ahead BY <2>3, <2>6, <3>1
    <3>3. \A i \in ahead : found <= i
      <4> TAKE i \in ahead
      <4>1. i \in 1..n /\ ring[i].hash >= key BY <2>6
      <4>2. ~(i < found) BY <2>2, <2>3, <2>5, <3>1, <4>1
      <4> QED BY <2>1, <2>3, <4>1, <4>2
    <3>4. \A i \in ahead : i \in Int BY <2>6
    <3>5. Min(ahead) \in ahead /\ \A i \in ahead : Min(ahead) <= i BY <3>2, <3>3 DEF Min
    <3>6. Min(ahead) = found
      <4>1. Min(ahead) <= found /\ found <= Min(ahead) BY <3>2, <3>3, <3>5
      <4>2. Min(ahead) \in Int /\ found \in Int BY <3>2, <3>4, <3>5
      <4> QED BY ONLY <4>1, <4>2
    <3> QED BY <2>8, <3>6 DEF found
  <2> QED BY <2>7, <2>8
<1> QED BY <1>1, Invariance, PTL

\* The owner of a key among a set of virtual nodes: none is before it of those
\* at or above the key, or, when there are none, of them all.
First(x, S, key) ==
  /\ x \in S
  /\ (\E y \in S : y.hash >= key) => x.hash >= key /\ \A y \in S : y.hash >= key => ~Before(y, x)
  /\ (\A y \in S : y.hash < key) => \A y \in S : ~Before(y, x)

LEMMA OwnerFirst ==
  ASSUME NEW ring \in Seq(Nodes), Len(ring) \in Nat \ {0}, Ordered(ring), NEW key \in Nat
  PROVE  First(ring[FindRingIndex(ring, key)], ToSet(ring), key)
<1> DEFINE n == Len(ring)
           found == FindRingIndex(ring, key)
           x == ring[found]
           S == ToSet(ring)
<1>1. n \in Nat \ {0} /\ DOMAIN ring = 1..n OBVIOUS
<1>2. /\ found \in 1..n
      /\ (\A i \in 1..n : ring[i].hash < key) => found = 1
      /\ (\E i \in 1..n : ring[i].hash >= key) =>
           ring[found].hash >= key /\ \A i \in 1..n : i < found => ring[i].hash < key
  BY SearchFinds
<1>3. \A i \in 1..n : ring[i] \in Nodes /\ ring[i].hash \in Nat BY HashesRise
<1>4. \A i, j \in 1..n : i < j => ~Before(ring[j], ring[i]) BY DEF Ordered
<1>5. \A i \in 1..n : ~Before(ring[i], ring[i]) BY <1>3, BeforeOrders
<1>6. \A y : y \in S <=> \E i \in 1..n : y = ring[i] BY <1>1 DEF ToSet
<1> HIDE DEF n, found, S
<1>7. x \in S BY <1>2, <1>6
<1>8. ASSUME \E y \in S : y.hash >= key
      PROVE  x.hash >= key /\ \A y \in S : y.hash >= key => ~Before(y, x)
  <2>1. \E i \in 1..n : ring[i].hash >= key BY <1>6, <1>8
  <2>2. x.hash >= key /\ \A i \in 1..n : i < found => ring[i].hash < key BY <1>2, <2>1
  <2>3. ASSUME NEW y \in S, y.hash >= key PROVE ~Before(y, x)
    <3>1. PICK i \in 1..n : y = ring[i] BY <1>6
    <3>2. ~(i < found) BY <1>3, <2>2, <2>3, <3>1
    <3>3. CASE i = found BY <1>5, <3>1, <3>3
    <3>4. CASE i # found
      <4>1. found < i BY <1>2, <3>2, <3>4
      <4> QED BY <1>2, <1>4, <3>1, <4>1
    <3> QED BY <3>3, <3>4
  <2> QED BY <2>2, <2>3
<1>9. ASSUME \A y \in S : y.hash < key, NEW y \in S PROVE ~Before(y, x)
  <2>1. found = 1 BY <1>2, <1>6, <1>9
  <2>2. PICK i \in 1..n : y = ring[i] BY <1>6
  <2>3. CASE i = 1 BY <1>5, <2>1, <2>2, <2>3
  <2>4. CASE i # 1
    <3>1. 1 < i /\ 1 \in 1..n BY <1>1, <2>4
    <3> QED BY <1>4, <2>1, <2>2, <3>1
  <2> QED BY <2>3, <2>4
<1> QED BY <1>7, <1>8, <1>9 DEF First, S, found

\* An owner that stays in a smaller set of virtual nodes stays the owner.
LEMMA FirstStays ==
  ASSUME NEW S \in SUBSET Nodes, NEW R \in SUBSET S, NEW key \in Nat,
         NEW x, First(x, S, key), x \in R, NEW z, First(z, R, key)
  PROVE  x = z
<1>1. x \in Nodes /\ z \in Nodes /\ z \in S /\ z \in R BY DEF First
<1>2. \A y \in S : y.hash \in Nat BY DEF Nodes
<1>3. CASE \E y \in S : y.hash >= key
  <2>1. x.hash >= key /\ \A y \in S : y.hash >= key => ~Before(y, x) BY <1>3 DEF First
  <2>2. z.hash >= key /\ \A y \in R : y.hash >= key => ~Before(y, z) BY <2>1 DEF First
  <2>3. ~Before(z, x) /\ ~Before(x, z) BY <1>1, <2>1, <2>2
  <2> QED BY <1>1, <2>3, BeforeOrders
<1>4. CASE ~(\E y \in S : y.hash >= key)
  <2>1. \A y \in S : y.hash < key BY <1>2, <1>4
  <2>2. ~Before(z, x) BY <1>1, <2>1 DEF First
  <2>3. ~Before(x, z) BY <2>1 DEF First
  <2> QED BY <1>1, <2>2, <2>3, BeforeOrders
<1> QED BY <1>3, <1>4

\* A backend that leaves the candidates, or comes back, takes no key from one
\* that stays to another that stays, whatever the hash and the weights are.
THEOREM KeysStay == Spec => []OnlyOwnKeysMove
<1>1. IInv => OnlyOwnKeysMove
  <2> SUFFICES ASSUME IInv, NEW list \in Candidates, NEW hash \in Hashes,
                      NEW rest \in Candidates, NEW b \in Members,
                      b \notin ToSet(rest), ToSet(list) = ToSet(rest) \cup {b},
                      NEW key \in Keys
               PROVE  OwnerIn(BuildRing(list, weight, hash), key)
                        \in {b, OwnerIn(BuildRing(rest, weight, hash), key)}
    BY DEF OnlyOwnKeysMove
  <2> DEFINE ring == BuildRing(list, weight, hash)
             smaller == BuildRing(rest, weight, hash)
             x == ring[FindRingIndex(ring, key)]
             z == smaller[FindRingIndex(smaller, key)]
  <2>1. /\ ring \in Seq(Nodes) /\ Len(ring) \in Nat \ {0} /\ Ordered(ring)
        /\ ToSet(ring) = NodesIn(list, hash)
    BY RingFacts
  <2>2. /\ smaller \in Seq(Nodes) /\ Len(smaller) \in Nat \ {0} /\ Ordered(smaller)
        /\ ToSet(smaller) = NodesIn(rest, hash)
    BY RingFacts
  <2>3. key \in Nat OBVIOUS
  <2>4. OwnerIn(ring, key) = x.backendId /\ OwnerIn(smaller, key) = z.backendId BY DEF OwnerIn
  <2> HIDE DEF ring, smaller
  <2>5. First(x, NodesIn(list, hash), key) BY <2>1, <2>3, OwnerFirst
  <2>6. First(z, NodesIn(rest, hash), key) BY <2>2, <2>3, OwnerFirst
  <2> HIDE DEF x, z
  <2>7. NodesIn(list, hash) \in SUBSET Nodes BY DEF NodesIn
  <2>8. NodesIn(rest, hash) \in SUBSET NodesIn(list, hash) BY DEF NodesIn
  <2>9. CASE x \in NodesIn(rest, hash)
    <3>1. x = z BY <2>3, <2>5, <2>6, <2>7, <2>8, <2>9, FirstStays
    <3> QED BY <2>4, <3>1 DEF ring, smaller
  <2>10. CASE x \notin NodesIn(rest, hash)
    <3>1. x \in Nodes /\ \E d \in ToSet(list) : x \in NodesOf(d, hash) BY <2>5 DEF First, NodesIn
    <3>2. x \in NodesOf(b, hash) BY <2>10, <3>1 DEF NodesIn
    <3>3. PICK k \in 1..(VnodesPerWeight * AtLeast(1, weight[b])) :
            x = [hash |-> hash[<<b, k - 1>>], backendId |-> b, vnode |-> k - 1]
      BY <3>2 DEF NodesOf
    <3>4. x.backendId = b BY <3>3
    <3> QED BY <2>4, <3>4 DEF ring, smaller
  <2> QED BY <2>9, <2>10
<1> QED BY <1>1, Invariance, PTL

-----------------------------------------------------------------------------
(* Weighted round robin: the shares.  The walk goes down the layers, from    *)
(* the highest to the lowest and through the list in each; a round of it     *)
(* selects a candidate in as many layers as its weight has divisors.         *)

HIDE StrategiesAssumption

\* The layer of a level: how many times the divisor fits into it, rounded up.
\* Level 0, where a walk may be left, takes every candidate like layer 1.
Layer(level, g) == IF level = 0 THEN 1 ELSE (level - 1) \div g + 1

\* A weight of v divisors reaches a level if v reaches its layer, and lowering
\* a level of the last layer starts the next round.
LEMMA LayerFacts ==
  ASSUME NEW level \in Nat, NEW g \in Positive
  PROVE  /\ Layer(level, g) \in Positive
         /\ \A v \in Positive : g * v >= level <=> v >= Layer(level, g)
         /\ Layer(level, g) = 1 <=> level - g <= 0
<1>1. g \in Nat \ {0} BY DEF Positive
<1>2. CASE level = 0
  <2>1. Layer(level, g) = 1 BY <1>2 DEF Layer
  <2>2. \A v \in Positive : g * v >= 0 /\ v >= 1
    <3> TAKE v \in Positive
    <3>1. v \in Nat \ {0} BY DEF Positive
    <3>2. g * v \in Nat BY <1>1, <3>1
    <3> QED BY <3>1, <3>2
  <2> QED BY <1>1, <1>2, <2>1, <2>2 DEF Positive
<1>3. CASE level # 0
  <2> DEFINE q == (level - 1) \div g
  <2>1. level - 1 \in Nat BY <1>3
  <2>2. q \in Nat /\ g * q <= level - 1 /\ level - 1 < g * q + g BY ONLY <1>1, <2>1, Quotient
  <2>3. Layer(level, g) = q + 1 BY <1>3 DEF Layer
  <2> HIDE DEF q
  <2>4. q + 1 \in Positive BY <2>2 DEF Positive
  <2>5. \A v \in Positive : g * v >= level <=> v >= q + 1
    <3> TAKE v \in Positive
    <3>1. v \in Nat \ {0} BY DEF Positive
    <3>2. ASSUME v >= q + 1 PROVE g * v >= level
      <4>1. g * (q + 1) <= g * v
        <5>1. g \in Nat /\ q + 1 \in Int /\ v \in Int /\ q + 1 <= v BY <1>1, <2>2, <3>1, <3>2
        <5> QED BY ONLY <5>1, Product
      <4>2. g * (q + 1) = g * q + g BY <1>1, <2>2
      <4>3. g * v \in Nat /\ g * q \in Nat BY <1>1, <2>2, <3>1
      <4> QED BY <1>1, <2>2, <4>1, <4>2, <4>3
    <3>3. ASSUME v <= q PROVE g * v < level
      <4>1. g * v <= g * q
        <5>1. g \in Nat /\ q \in Int /\ v \in Int BY <1>1, <2>2, <3>1
        <5> QED BY ONLY <5>1, <3>3, Product
      <4>2. g * v \in Nat /\ g * q \in Nat BY <1>1, <2>2, <3>1
      <4> QED BY <1>1, <2>2, <4>1, <4>2
    <3>4. g * v \in Nat BY <1>1, <3>1
    <3> QED BY <2>2, <3>1, <3>2, <3>3, <3>4
  <2>6. q = 0 <=> level - g <= 0
    <3>1. ASSUME q = 0 PROVE level - g <= 0
      <4>1. g * q = 0 BY <1>1, <3>1
      <4> QED BY <1>1, <2>2, <4>1
    <3>2. ASSUME q >= 1 PROVE level - g > 0
      <4>1. g * 1 <= g * q
        <5>1. g \in Nat /\ 1 \in Int /\ q \in Int BY <1>1, <2>2
        <5> QED BY ONLY <5>1, <3>2, Product
      <4>2. g * 1 = g /\ g * q \in Nat BY <1>1, <2>2
      <4> QED BY <1>1, <2>2, <4>1, <4>2
    <3>3. level - g \in Int BY <1>1
    <3> QED BY <2>2, <3>1, <3>2, <3>3
  <2>7. q + 1 = 1 <=> q = 0 BY <2>2
  <2> QED BY <2>3, <2>4, <2>5, <2>6, <2>7
<1> QED BY <1>2, <1>3

\* The next level is one layer further down, or at the top.
LEMMA LayerLowered ==
  ASSUME NEW level \in Nat, NEW g \in Positive, NEW m \in Positive
  PROVE  /\ Layer(level, g) = 1 => Layer(Lowered(level, g, g * m), g) = m
         /\ Layer(level, g) # 1 => Layer(Lowered(level, g, g * m), g) = Layer(level, g) - 1
<1>1. g \in Nat \ {0} /\ m \in Nat \ {0} BY DEF Positive
<1>2. Layer(level, g) = 1 <=> level - g <= 0 BY LayerFacts
<1>3. ASSUME Layer(level, g) = 1 PROVE Layer(Lowered(level, g, g * m), g) = m
  <2>1. Lowered(level, g, g * m) = g * m BY <1>2, <1>3 DEF Lowered
  <2> DEFINE t == g * m
             r == g * (m - 1)
  <2>2. t \in Nat /\ r \in Nat /\ t = r + g BY <1>1
  <2>3. m - 1 \in Nat BY <1>1
  <2>4. t # 0 /\ t - 1 \in Nat /\ r <= t - 1 /\ t - 1 < r + g
    <3> HIDE DEF t, r
    <3> QED BY <1>1, <2>2
  <2>5. (t - 1) \div g = m - 1
    <3> HIDE DEF t
    <3>1. g * (m - 1) <= t - 1 /\ t - 1 < g * (m - 1) + g BY <2>4
    <3> QED BY ONLY <1>1, <2>3, <2>4, <3>1, QuotientIs
  <2> HIDE DEF t, r
  <2>6. Layer(t, g) = m - 1 + 1 BY <2>4, <2>5 DEF Layer
  <2>7. m - 1 + 1 = m BY <1>1
  <2> QED BY <2>1, <2>6, <2>7 DEF t
<1>4. ASSUME Layer(level, g) # 1
      PROVE  Layer(Lowered(level, g, g * m), g) = Layer(level, g) - 1
  <2>1. ~(level - g <= 0) BY <1>2, <1>4
  <2>2. Lowered(level, g, g * m) = level - g BY <2>1 DEF Lowered
  <2>3. level - g \in Nat /\ level - g # 0 /\ level # 0 /\ level - 1 \in Nat BY <1>1, <2>1
  <2> DEFINE q == (level - 1) \div g
  <2>4. q \in Nat /\ g * q <= level - 1 /\ level - 1 < g * q + g BY ONLY <1>1, <2>3, Quotient
  <2>5. Layer(level, g) = q + 1 BY <2>3 DEF Layer
  <2> HIDE DEF q
  <2>6. q # 0 /\ q - 1 \in Nat BY <1>4, <2>4, <2>5
  <2>7. (level - g - 1) \div g = q - 1
    <3> DEFINE p == level - g - 1
    <3>1. p \in Nat BY <1>1, <2>3
    <3>2. g * (q - 1) = g * q - g /\ g * q \in Nat BY <1>1, <2>4
    <3>3. g * (q - 1) <= p /\ p < g * (q - 1) + g
      <4>1. g * (q - 1) <= p BY <1>1, <2>4, <3>2
      <4>2. p < g * (q - 1) + g BY <1>1, <2>4, <3>2
      <4> QED BY <4>1, <4>2
    <3> HIDE DEF p
    <3>4. p \div g = q - 1 BY ONLY <1>1, <2>6, <3>1, <3>3, QuotientIs
    <3> QED BY <3>4 DEF p
  <2>8. Layer(level - g, g) = q - 1 + 1 BY <2>3, <2>7 DEF Layer
  <2> QED BY <2>2, <2>4, <2>5, <2>8
<1> QED BY <1>3, <1>4

\* Where a walk stands: the layer of its level and the place in the list.  The
\* walk goes down the layers and through the list in each of them; Picks are
\* the places in a round where it selects.
Spot(s, g) == <<Layer(s.weight, g), s.index + 1>>
NextSpot(x, n, m) == IF x[2] < n THEN <<x[1], x[2] + 1>>
                     ELSE IF x[1] = 1 THEN <<m, 1>> ELSE <<x[1] - 1, 1>>
Share(w, list, i) == w[list[i]] \div GcdOfWeights(w, list)
Picks(w, list) == {p \in Positive \X (1..Len(list)) : p[1] <= Share(w, list, p[2])}

\* A turn of the loop moves to the next place of the round.
LEMMA TurnSpot ==
  ASSUME NEW w, NEW list, Weighted(w, list), NEW m \in Positive,
         MaxWeight(w, list) = GcdOfWeights(w, list) * m,
         NEW s, NEW i \in 1..Len(list), s.index + 1 \in Nat, s.weight \in Nat,
         i % Len(list) = (s.index + 1) % Len(list)
  PROVE  Spot(Turn(w, list, s), GcdOfWeights(w, list)) =
           NextSpot(<<Layer(s.weight, GcdOfWeights(w, list)), i>>, Len(list), m)
<1> DEFINE n == Len(list)
           g == GcdOfWeights(w, list)
           next == (s.index + 1) % n
           level == s.weight
           t == Turn(w, list, s)
<1>1. n \in Nat \ {0} /\ g \in Positive BY DivisorDivides DEF Weighted
<1>2. t = [index |-> next, weight |-> IF next = 0 THEN Lowered(level, g, g * m) ELSE level]
  BY DEF Turn
<1>3. next = i % n OBVIOUS
<1>4. Spot(t, g) = <<Layer(t.weight, g), t.index + 1>> BY DEF Spot
<1> DEFINE x == <<Layer(level, g), i>>
<1>5. x[1] = Layer(level, g) /\ x[2] = i OBVIOUS
<1>6. level \in Nat /\ i \in 1..n OBVIOUS
<1>7. /\ Layer(level, g) = 1 => Layer(Lowered(level, g, g * m), g) = m
      /\ Layer(level, g) # 1 => Layer(Lowered(level, g, g * m), g) = Layer(level, g) - 1
  BY <1>1, <1>6, LayerLowered
<1> HIDE DEF n, g, next, level, t, x
<1>8. CASE i < n
  <2>1. i % n = i /\ i # 0 BY ONLY <1>1, <1>6, <1>8
  <2>2. t.index = i /\ t.weight = level BY <1>2, <1>3, <2>1
  <2>3. NextSpot(x, n, m) = <<Layer(level, g), i + 1>> BY <1>5, <1>8 DEF NextSpot
  <2> QED BY <1>4, <2>2, <2>3 DEF x, n, g, level, t
<1>9. CASE ~(i < n)
  <2>1. i = n BY <1>1, <1>6, <1>9
  <2>2. i % n = 0 BY ONLY <1>1, <2>1
  <2>3. t.index = 0 /\ t.weight = Lowered(level, g, g * m) BY <1>2, <1>3, <2>2
  <2>4. t.index + 1 = 1 BY <2>3
  <2>5. NextSpot(x, n, m) = IF Layer(level, g) = 1 THEN <<m, 1>> ELSE <<Layer(level, g) - 1, 1>>
    BY <1>5, <1>9 DEF NextSpot
  <2> QED BY <1>4, <1>7, <2>3, <2>4, <2>5 DEF x, n, g, level, t
<1> QED BY <1>8, <1>9

\* The turn selects where the place is one of the picks.
LEMMA SelectedSpot ==
  ASSUME NEW w, NEW list, Weighted(w, list), NEW s \in [index : 0..(Len(list) - 1), weight : Nat]
  PROVE  Selected(w, list, s) <=> Spot(s, GcdOfWeights(w, list)) \in Picks(w, list)
<1> DEFINE n == Len(list)
           g == GcdOfWeights(w, list)
           i == s.index + 1
           level == s.weight
           v == w[list[i]] \div g
<1>1. n \in Nat \ {0} /\ g \in Positive BY DivisorDivides DEF Weighted
<1>2. s.index \in 0..(n - 1) /\ level \in Nat /\ i \in 1..n BY <1>1
<1>3. v \in Positive /\ w[list[i]] = g * v BY <1>2, GreatestDivisor
<1>4. Layer(level, g) \in Positive /\ (g * v >= level <=> v >= Layer(level, g))
  BY <1>1, <1>2, <1>3, LayerFacts
<1>5. Selected(w, list, s) <=> g * v >= level BY <1>3 DEF Selected
<1>6. Spot(s, g) = <<Layer(level, g), i>> BY DEF Spot
<1>7. Share(w, list, i) = v BY DEF Share
<1> HIDE DEF n, g, i, level, v
<1>8. Spot(s, g) \in Picks(w, list) <=> Layer(level, g) <= v
  BY <1>2, <1>4, <1>6, <1>7 DEF Picks, n
<1>9. Layer(level, g) <= v <=> v >= Layer(level, g) BY <1>3, <1>4 DEF Positive
<1> QED BY <1>4, <1>5, <1>8, <1>9 DEF g

\* y comes after x in a round.
Ahead(x, y) == y[1] < x[1] \/ (y[1] = x[1] /\ y[2] > x[2])

\* On the way from x to y the walk passes no place of U: either y lies ahead
\* in the same round, or the round ends and y lies at the top of the next.
Reaches(U, x, y) ==
  \/ Ahead(x, y) /\ \A q \in U : Ahead(x, q) => q = y \/ Ahead(y, q)
  \/ \A q \in U : ~Ahead(x, q) /\ (q = y \/ Ahead(y, q))

\* Moving on by one place leaves no pick out.
LEMMA NextSpotReached ==
  ASSUME NEW n \in Positive, NEW m \in Positive, NEW U \in SUBSET (Positive \X (1..n)),
         \A q \in U : q[1] <= m, NEW x \in Positive \X (1..n)
  PROVE  NextSpot(x, n, m) \in Positive \X (1..n) /\ Reaches(U, x, NextSpot(x, n, m))
<1> DEFINE y == NextSpot(x, n, m)
<1>1. n \in Nat \ {0} /\ m \in Nat \ {0} BY DEF Positive
<1>2. x[1] \in Nat \ {0} /\ x[2] \in 1..n BY DEF Positive
<1>3. \A q \in U : /\ q = <<q[1], q[2]>> /\ q[1] \in Nat \ {0} /\ q[1] <= m
                   /\ q[2] \in Nat /\ q[2] >= 1 /\ q[2] <= n
  <2> TAKE q \in U
  <2>1. q \in Positive \X (1..n) OBVIOUS
  <2>2. q[2] \in 1..n BY <2>1
  <2> QED BY <1>1, <2>1, <2>2 DEF Positive
<1>4. CASE x[2] < n
  <2>1. y = <<x[1], x[2] + 1>> BY <1>4 DEF NextSpot
  <2>2. y[1] = x[1] /\ y[2] = x[2] + 1 BY <2>1
  <2> HIDE DEF y
  <2>3. y \in Positive \X (1..n) BY <1>1, <1>2, <1>4, <2>1
  <2>4. Ahead(x, y) BY <1>2, <2>2 DEF Ahead
  <2>5. \A q \in U : Ahead(x, q) => q = y \/ Ahead(y, q)
    <3> TAKE q \in U
    <3> HAVE Ahead(x, q)
    <3>1. q[1] < x[1] \/ (q[1] = x[1] /\ q[2] > x[2]) BY DEF Ahead
    <3>2. CASE q[1] = y[1] /\ q[2] = y[2] BY <1>3, <2>1, <2>2, <3>2
    <3>3. CASE ~(q[1] = y[1] /\ q[2] = y[2])
      <4>1. q[1] < y[1] \/ (q[1] = y[1] /\ q[2] > y[2]) BY <1>2, <1>3, <2>2, <3>1, <3>3
      <4> QED BY <4>1 DEF Ahead
    <3> QED BY <3>2, <3>3
  <2> QED BY <2>3, <2>4, <2>5 DEF Reaches, y
<1>5. CASE ~(x[2] < n) /\ x[1] # 1
  <2>1. y = <<x[1] - 1, 1>> BY <1>5 DEF NextSpot
  <2>2. y[1] = x[1] - 1 /\ y[2] = 1 BY <2>1
  <2> HIDE DEF y
  <2>3. x[1] - 1 \in Positive /\ 1 \in 1..n BY <1>1, <1>2, <1>5 DEF Positive
  <2>4. y \in Positive \X (1..n) BY <2>1, <2>3
  <2>5. Ahead(x, y) BY <1>2, <2>2 DEF Ahead
  <2>6. \A q \in U : Ahead(x, q) => q = y \/ Ahead(y, q)
    <3> TAKE q \in U
    <3> HAVE Ahead(x, q)
    <3>1. q[1] < x[1] \/ (q[1] = x[1] /\ q[2] > x[2]) BY DEF Ahead
    <3>2. CASE q[1] = y[1] /\ q[2] = y[2] BY <1>3, <2>1, <2>2, <3>2
    <3>3. CASE ~(q[1] = y[1] /\ q[2] = y[2])
      <4>1. q[1] < y[1] \/ (q[1] = y[1] /\ q[2] > y[2])
        BY <1>1, <1>2, <1>3, <1>5, <2>2, <3>1, <3>3
      <4> QED BY <4>1 DEF Ahead
    <3> QED BY <3>2, <3>3
  <2> QED BY <2>4, <2>5, <2>6 DEF Reaches, y
<1>6. CASE ~(x[2] < n) /\ x[1] = 1
  <2>1. y = <<m, 1>> BY <1>6 DEF NextSpot
  <2>2. y[1] = m /\ y[2] = 1 BY <2>1
  <2> HIDE DEF y
  <2>3. y \in Positive \X (1..n) BY <1>1, <2>1
  <2>4. \A q \in U : ~Ahead(x, q) /\ (q = y \/ Ahead(y, q))
    <3> TAKE q \in U
    <3>1. ~(q[1] < x[1] \/ (q[1] = x[1] /\ q[2] > x[2])) BY <1>1, <1>2, <1>3, <1>6
    <3>2. CASE q[1] = y[1] /\ q[2] = y[2] BY <1>3, <2>1, <2>2, <3>1, <3>2 DEF Ahead
    <3>3. CASE ~(q[1] = y[1] /\ q[2] = y[2])
      <4>1. q[1] < y[1] \/ (q[1] = y[1] /\ q[2] > y[2]) BY <1>1, <1>3, <2>2, <3>3
      <4> QED BY <3>1, <4>1 DEF Ahead
    <3> QED BY <3>2, <3>3
  <2> QED BY <2>3, <2>4 DEF Reaches, y
<1> QED BY <1>4, <1>5, <1>6

\* Neither do two moves, if the place between them is no pick.
LEMMA ReachesOn ==
  ASSUME NEW n \in Nat, NEW U \in SUBSET (Positive \X (1..n)), NEW x \in Positive \X (1..n),
         NEW p \in Positive \X (1..n), NEW y \in Positive \X (1..n),
         Reaches(U, x, p), p \notin U, Reaches(U, p, y)
  PROVE  Reaches(U, x, y)
<1>1. Ahead(x, p) /\ Ahead(p, y) => Ahead(x, y)
  <2>1. /\ x[1] \in Nat /\ p[1] \in Nat /\ y[1] \in Nat
        /\ x[2] \in Int /\ p[2] \in Int /\ y[2] \in Int BY DEF Positive
  <2> QED BY <2>1 DEF Ahead
<1>2. \A q \in U : q # p OBVIOUS
<1> QED BY <1>1, <1>2 DEF Reaches

\* The layers of a round: as many as the highest weight has divisors.
LEMMA Layers ==
  ASSUME NEW w, NEW list, Weighted(w, list)
  PROVE  \E m \in Positive : /\ MaxWeight(w, list) = GcdOfWeights(w, list) * m
                             /\ \A i \in 1..Len(list) : Share(w, list, i) <= m
                             /\ \A q \in Picks(w, list) : q[1] <= m
<1> DEFINE n == Len(list)
           g == GcdOfWeights(w, list)
<1>1. PICK j \in 1..n : w[list[j]] = MaxWeight(w, list) BY HighestWeight
<1>2. \A i \in 1..n : w[list[i]] <= MaxWeight(w, list) BY HighestWeight
<1>3. \A i \in 1..n : Share(w, list, i) \in Positive /\ w[list[i]] = g * Share(w, list, i)
  BY GreatestDivisor DEF Share
<1>4. g \in Nat \ {0} BY DivisorDivides DEF Positive
<1> DEFINE m == Share(w, list, j)
<1>5. m \in Positive /\ MaxWeight(w, list) = g * m BY <1>1, <1>3
<1> HIDE DEF n, g, m
<1>6. ASSUME NEW i \in 1..n PROVE Share(w, list, i) <= m
  <2> DEFINE v == Share(w, list, i)
  <2>1. v \in Nat /\ m \in Nat /\ g * v <= g * m BY <1>2, <1>3, <1>5 DEF Positive
  <2> HIDE DEF v
  <2>2. ASSUME m + 1 <= v PROVE FALSE
    <3>1. g * (m + 1) <= g * v
      <4>1. g \in Nat /\ m + 1 \in Int /\ v \in Int BY <1>4, <2>1
      <4> QED BY ONLY <4>1, <2>2, Product
    <3>2. g * (m + 1) = g * m + g /\ g * m \in Nat /\ g * v \in Nat BY <1>4, <2>1
    <3> QED BY <1>4, <2>1, <3>1, <3>2
  <2> QED BY <2>1, <2>2 DEF v
<1>7. \A q \in Picks(w, list) : q[1] <= m
  <2> TAKE q \in Picks(w, list)
  <2>1. q[1] \in Positive /\ q[2] \in 1..n /\ q[1] <= Share(w, list, q[2]) BY DEF Picks, n
  <2>2. Share(w, list, q[2]) <= m /\ Share(w, list, q[2]) \in Positive BY <1>3, <1>6, <2>1
  <2> QED BY <1>5, <2>1, <2>2 DEF Positive
<1> QED BY <1>5, <1>6, <1>7 DEF n, g

\* A selection goes from one pick to the next and leaves none out.
LEMMA SelectReaches ==
  ASSUME NEW w, NEW list, Weighted(w, list), NEW from, from.index + 1 \in Nat,
         from.weight \in Nat, NEW i \in 1..Len(list),
         i % Len(list) = (from.index + 1) % Len(list)
  PROVE  LET y == Spot(WrrSelect(w, list, from), GcdOfWeights(w, list))
         IN  /\ y \in Picks(w, list)
             /\ Reaches(Picks(w, list), <<Layer(from.weight, GcdOfWeights(w, list)), i>>, y)
<1> DEFINE n == Len(list)
           g == GcdOfWeights(w, list)
           U == Picks(w, list)
           N == n * (from.weight + 2)
           x == <<Layer(from.weight, g), i>>
           S == [index : 0..(n - 1), weight : Nat]
<1>1. PICK m \in Positive : MaxWeight(w, list) = g * m /\ \A q \in U : q[1] <= m BY Layers
<1>2. n \in Nat \ {0} /\ n \in Positive /\ g \in Positive BY DivisorDivides DEF Weighted, Positive
<1>3. PICK c : /\ c[1] = Turn(w, list, from)
               /\ \A k \in 2..N : c[k] = Onward(w, list, c[k - 1])
               /\ \A k \in 1..N : c[k] \in Walk(list, from.weight, MaxWeight(w, list))
               /\ WrrSelect(w, list, from) =
                    IF Selected(w, list, c[N]) THEN c[N] ELSE Unselected
  BY WalkExists
<1>4. \A k \in 1..N : c[k] \in S BY <1>3 DEF Walk
<1>5. N \in Nat /\ 1 \in 1..N /\ N \in 1..N
  <2>1. N = n * from.weight + 2 * n /\ n * from.weight \in Nat BY <1>2
  <2> DEFINE a == n * from.weight
  <2>2. a \in Nat /\ N = a + 2 * n BY <2>1
  <2> HIDE DEF a, N
  <2> QED BY <1>2, <2>2
<1>6. U \in SUBSET (Positive \X (1..n)) BY DEF Picks
<1>7. x \in Positive \X (1..n) BY <1>2, LayerFacts
<1>8. ASSUME NEW s \in S PROVE Spot(s, g) \in Positive \X (1..n)
  <2>1. s.weight \in Nat /\ s.index + 1 \in 1..n BY <1>2
  <2>2. Layer(s.weight, g) \in Positive BY <1>2, <2>1, LayerFacts
  <2> QED BY <2>1, <2>2 DEF Spot
<1>9. \A p \in Positive \X (1..n) : Reaches(U, p, NextSpot(p, n, m))
  BY <1>1, <1>2, <1>6, NextSpotReached
<1>10. ASSUME NEW s \in S PROVE Spot(Turn(w, list, s), g) = NextSpot(Spot(s, g), n, m)
  <2> DEFINE j == s.index + 1
  <2>1. j \in 1..n /\ j \in Nat /\ s.weight \in Nat /\ j % n = (s.index + 1) % n BY <1>2
  <2>2. Spot(s, g) = <<Layer(s.weight, g), j>> BY DEF Spot
  <2> HIDE DEF j
  <2>3. s.index + 1 \in Nat BY <1>2
  <2>4. Spot(Turn(w, list, s), g) = NextSpot(<<Layer(s.weight, g), j>>, n, m)
    BY <1>1, <2>1, <2>3, TurnSpot
  <2> QED BY <2>2, <2>4
<1>11. Spot(c[1], g) = NextSpot(x, n, m) BY <1>1, <1>3, TurnSpot
<1>12. \A s \in S : Selected(w, list, s) <=> Spot(s, g) \in U BY SelectedSpot
<1>13. Weighted(w, list) /\ from.index + 1 \in Nat /\ from.weight \in Nat OBVIOUS
<1> HIDE DEF n, g, U, N, x, S
<1> DEFINE T == {k \in 1..N : Reaches(U, x, Spot(c[k], g))}
<1>14. 1 \in T BY <1>5, <1>7, <1>9, <1>11
<1>15. \A k \in 1..(N - 1) : k \in T => k + 1 \in T
  <2> TAKE k \in 1..(N - 1)
  <2> HAVE k \in T
  <2>1. k \in 1..N /\ k + 1 \in 1..N /\ k + 1 \in 2..N /\ (k + 1) - 1 = k BY <1>5
  <2>2. c[k] \in S /\ c[k + 1] \in S /\ c[k + 1] = Onward(w, list, c[k]) BY <1>3, <1>4, <2>1
  <2>3. Reaches(U, x, Spot(c[k], g)) OBVIOUS
  <2>4. CASE Selected(w, list, c[k])
    <3>1. c[k + 1] = c[k] BY <2>2, <2>4 DEF Onward
    <3> QED BY <2>1, <2>3, <3>1
  <2>5. CASE ~Selected(w, list, c[k])
    <3>1. c[k + 1] = Turn(w, list, c[k]) BY <2>2, <2>5 DEF Onward
    <3> DEFINE p == Spot(c[k], g)
               y == Spot(c[k + 1], g)
    <3>2. y = NextSpot(p, n, m) BY <1>10, <2>2, <3>1
    <3>3. p \in Positive \X (1..n) /\ y \in Positive \X (1..n) BY <1>8, <2>2
    <3>4. p \notin U BY <1>12, <2>2, <2>5
    <3> HIDE DEF p
    <3>5. Reaches(U, p, y) BY <1>9, <3>2, <3>3
    <3>6. Reaches(U, x, p) BY <2>3 DEF p
    <3> HIDE DEF y
    <3>7. n \in Nat BY <1>2
    <3>8. Reaches(U, x, y) BY ONLY <1>6, <1>7, <3>3, <3>4, <3>5, <3>6, <3>7, ReachesOn
    <3> QED BY <2>1, <3>8 DEF y
  <2> QED BY <2>4, <2>5
<1> HIDE DEF T
<1>16. N \in T
  <2>1. 1 \in Nat /\ N \in 1..N BY <1>5
  <2>2. \A k \in 1..N : k \in T BY ONLY <1>5, <1>14, <1>15, <2>1, Climb
  <2> QED BY <2>1, <2>2
<1>17. WrrSelect(w, list, from) # Unselected BY <1>13, WalkEnds
<1>18. Selected(w, list, c[N]) /\ WrrSelect(w, list, from) = c[N] BY <1>3, <1>17
<1>19. Spot(c[N], g) \in U BY <1>4, <1>5, <1>12, <1>18
<1>20. Reaches(U, x, Spot(c[N], g)) BY <1>16 DEF T
<1> QED BY <1>18, <1>19, <1>20 DEF U, x, g

\* The picks of a round that are still to come.
Rest(U, x) == {q \in U : Ahead(x, q)}

\* A selection takes one pick from those left, or begins the next round.
LEMMA RestOne ==
  ASSUME NEW n \in Nat, NEW U \in SUBSET (Positive \X (1..n)), IsFiniteSet(U),
         NEW x \in Positive \X (1..n), NEW y \in U, Reaches(U, x, y)
  PROVE  /\ Cardinality(U) \in Nat \ {0} /\ Cardinality(Rest(U, x)) \in 0..Cardinality(U)
         /\ Cardinality(Rest(U, y)) = IF Cardinality(Rest(U, x)) = 0 THEN Cardinality(U) - 1
                                      ELSE Cardinality(Rest(U, x)) - 1
<1>1. /\ IsFiniteSet(Rest(U, x)) /\ Cardinality(Rest(U, x)) <= Cardinality(U)
  BY FS_Subset DEF Rest
<1>2. Cardinality(U) \in Nat /\ Cardinality(Rest(U, x)) \in Nat /\ Cardinality(U) # 0
  BY <1>1, FS_CardinalityType, FS_EmptySet
<1>3. Cardinality(Rest(U, x)) = 0 <=> Rest(U, x) = {} BY <1>1, FS_EmptySet
<1>4. ~Ahead(y, y) /\ y \in Positive \X (1..n)
  <2>1. y \in Positive \X (1..n) OBVIOUS
  <2>2. y[1] \in Nat /\ y[2] \in Int BY <2>1 DEF Positive
  <2> QED BY <2>1, <2>2 DEF Ahead
<1>5. CASE Ahead(x, y) /\ \A q \in U : Ahead(x, q) => q = y \/ Ahead(y, q)
  <2>1. \A q \in U : Ahead(y, q) => Ahead(x, q)
    <3> TAKE q \in U
    <3>1. q \in Positive \X (1..n) OBVIOUS
    <3>2. /\ x[1] \in Nat /\ q[1] \in Nat /\ y[1] \in Nat
          /\ x[2] \in Int /\ q[2] \in Int /\ y[2] \in Int BY <1>4, <3>1 DEF Positive
    <3> QED BY <1>5, <3>2 DEF Ahead
  <2>2. Rest(U, y) = Rest(U, x) \ {y} BY <1>4, <1>5, <2>1 DEF Rest
  <2>3. y \in Rest(U, x) BY <1>5 DEF Rest
  <2>4. Cardinality(Rest(U, y)) = Cardinality(Rest(U, x)) - 1
    BY <1>1, <2>2, <2>3, FS_RemoveElement
  <2>5. Cardinality(Rest(U, x)) # 0 BY <1>3, <2>3
  <2> QED BY <1>1, <1>2, <2>4, <2>5
<1>6. CASE \A q \in U : ~Ahead(x, q) /\ (q = y \/ Ahead(y, q))
  <2>1. Rest(U, x) = {} /\ Rest(U, y) = U \ {y} BY <1>4, <1>6 DEF Rest
  <2>2. Cardinality(Rest(U, y)) = Cardinality(U) - 1 BY <2>1, FS_RemoveElement
  <2> QED BY <1>1, <1>2, <1>3, <2>1, <2>2
<1> QED BY <1>5, <1>6 DEF Reaches

\* A sum over a finite set, one element after the other.
WeightSum(w, S) == MapThenSumSet(LAMBDA b : w[b], S)
Sums(f, w, S) == /\ WeightSum(w, S) = f[S]
                 /\ f[{}] = 0
                 /\ \A B \in SUBSET S : B # {} => \E x \in B : f[B] = w[x] + f[B \ {x}]

\* The unfolding of the sum exists for every finite set.
LEMMA SumExists ==
  ASSUME NEW w, NEW S, IsFiniteSet(S)
  PROVE  \E f : Sums(f, w, S)
<1> DEFINE one(s) == CHOOSE x \in s : TRUE
           rest(s) == s \ {one(s)}
           step(f, s) == IF s = {} THEN 0 ELSE w[one(s)] + f[rest(s)]
           body(f) == [s \in SUBSET S |->
                         IF s = {} THEN 0
                         ELSE LET x == CHOOSE x \in s : TRUE IN w[x] + f[s \ {x}]]
           c == CHOOSE f : f = body(f)
           n == Cardinality(S)
           Good(f, m) == \A s \in SUBSET S : Cardinality(s) <= m => f[s] = step(f, s)
           T == {m \in Nat : \E f : Good(f, m)}
<1>1. WeightSum(w, S) = c[S] BY ONLY TRUE DEF WeightSum, MapThenSumSet, MapThenFoldSet
<1>2. \A f : body(f) = [s \in SUBSET S |-> step(f, s)] OBVIOUS
<1>3. \A f : DOMAIN body(f) = SUBSET S /\ \A s \in SUBSET S : body(f)[s] = step(f, s) BY <1>2
<1>4. \A s \in SUBSET S : s # {} =>
        /\ one(s) \in s /\ rest(s) \in SUBSET S /\ Cardinality(rest(s)) = Cardinality(s) - 1
  <2> TAKE s \in SUBSET S
  <2> HAVE s # {}
  <2>1. one(s) \in s OBVIOUS
  <2>2. IsFiniteSet(s) BY FS_Subset
  <2> HIDE DEF one
  <2> QED BY <2>1, <2>2, FS_RemoveElement
<1>5. n \in Nat BY FS_CardinalityType
<1>6. \A s \in SUBSET S : Cardinality(s) \in 0..n /\ (Cardinality(s) = 0 <=> s = {})
  <2> TAKE s \in SUBSET S
  <2>1. IsFiniteSet(s) /\ Cardinality(s) <= n BY FS_Subset
  <2>2. Cardinality(s) \in Nat /\ (Cardinality(s) = 0 <=> s = {})
    BY <2>1, FS_CardinalityType, FS_EmptySet
  <2> HIDE DEF n
  <2> QED BY <1>5, <2>1, <2>2
<1>7. \A f, h : \A s \in SUBSET S : (s # {} => f[rest(s)] = h[rest(s)]) => step(f, s) = step(h, s)
  OBVIOUS
<1>8. \A f : step(f, {}) = 0 OBVIOUS
<1>9. \A f : \A s : s # {} => step(f, s) = w[one(s)] + f[s \ {one(s)}] OBVIOUS
<1> HIDE DEF one, rest, step, body, n
<1>10. 0 \in T
  <2> DEFINE h == [s \in SUBSET S |-> 0]
  <2>1. \A s \in SUBSET S : h[s] = 0 OBVIOUS
  <2> HIDE DEF h
  <2>2. ASSUME NEW s \in SUBSET S, Cardinality(s) <= 0 PROVE h[s] = step(h, s)
    <3>1. s = {} BY <1>6, <2>2
    <3> QED BY <1>8, <2>1, <3>1
  <2>3. Good(h, 0) BY <2>2
  <2> HIDE DEF Good
  <2> QED BY <2>3
<1>11. \A m \in 0..(n - 1) : m \in T => m + 1 \in T
  <2> TAKE m \in 0..(n - 1)
  <2> HAVE m \in T
  <2>1. PICK f : Good(f, m) OBVIOUS
  <2> DEFINE h == [s \in SUBSET S |-> IF Cardinality(s) <= m THEN f[s] ELSE step(f, s)]
  <2>2. \A s \in SUBSET S : Cardinality(s) <= m => h[s] = f[s] OBVIOUS
  <2>3. \A s \in SUBSET S : Cardinality(s) <= m + 1 => h[s] = step(f, s)
    <3> TAKE s \in SUBSET S
    <3> HAVE Cardinality(s) <= m + 1
    <3>1. CASE Cardinality(s) <= m BY <2>1, <2>2, <3>1
    <3>2. CASE ~(Cardinality(s) <= m) BY <3>2
    <3> QED BY <3>1, <3>2
  <2> HIDE DEF h
  <2>4. \A s \in SUBSET S : Cardinality(s) <= m + 1 => step(f, s) = step(h, s)
    <3> TAKE s \in SUBSET S
    <3> HAVE Cardinality(s) <= m + 1
    <3>1. s # {} => f[rest(s)] = h[rest(s)]
      <4> HAVE s # {}
      <4>1. rest(s) \in SUBSET S /\ Cardinality(rest(s)) = Cardinality(s) - 1 BY <1>4
      <4>2. Cardinality(s) \in Nat BY <1>6
      <4>3. m \in Nat BY <1>5
      <4>4. Cardinality(rest(s)) <= m BY <4>1, <4>2, <4>3
      <4> QED BY <2>2, <4>1, <4>4
    <3> QED BY <1>7, <3>1
  <2>5. Good(h, m + 1) BY <2>3, <2>4
  <2>6. m + 1 \in Nat BY <1>5
  <2> HIDE DEF Good
  <2> QED BY <2>5, <2>6
<1>12. PICK f : Good(f, n)
  <2>1. 0 \in Nat /\ n \in 0..n BY <1>5
  <2> HIDE DEF T
  <2>2. \A m \in 0..n : m \in T BY ONLY <1>5, <1>10, <1>11, <2>1, Climb
  <2>3. n \in T BY <2>1, <2>2
  <2> QED BY <2>3 DEF T
<1>13. c = body(c)
  <2> DEFINE e == [s \in SUBSET S |-> f[s]]
  <2>1. \A s \in SUBSET S : e[s] = step(f, s) BY <1>6, <1>12
  <2>2. \A s \in SUBSET S : step(f, s) = step(e, s) BY <1>4, <1>7
  <2>3. \A s \in SUBSET S : e[s] = body(e)[s] BY <1>3, <2>1, <2>2
  <2>4. DOMAIN e = SUBSET S /\ e = [s \in SUBSET S |-> e[s]] OBVIOUS
  <2> HIDE DEF e
  <2>5. body(e) = [s \in SUBSET S |-> body(e)[s]] BY <1>2, <1>3
  <2>6. e = body(e) BY <2>3, <2>4, <2>5
  <2> QED BY <2>6
<1> HIDE DEF c
<1>14. \A s \in SUBSET S : c[s] = step(c, s) BY <1>3, <1>13
<1>15. c[{}] = 0
  <2>1. {} \in SUBSET S OBVIOUS
  <2> QED BY <1>8, <1>14, <2>1
<1>16. \A B \in SUBSET S : B # {} => \E x \in B : c[B] = w[x] + c[B \ {x}]
  <2> TAKE B \in SUBSET S
  <2> HAVE B # {}
  <2>1. one(B) \in B BY <1>4
  <2>2. c[B] = w[one(B)] + c[B \ {one(B)}] BY <1>14, <1>9
  <2> QED BY <2>1, <2>2
<1>17. Sums(c, w, S) BY <1>1, <1>15, <1>16 DEF Sums
<1> QED BY <1>17

\* The layers in which one candidate is picked.
LEMMA ColumnSize ==
  ASSUME NEW n \in Nat, NEW i \in 1..n, NEW v \in Nat, NEW C,
         C = {p \in Positive \X (1..n) : p[2] = i /\ p[1] <= v}
  PROVE  IsFiniteSet(C) /\ Cardinality(C) = v
<1> DEFINE f == [c \in 1..v |-> <<c, i>>]
<1>1. \A c \in 1..v : f[c] \in C /\ f[c][1] = c BY DEF Positive
<1>2. \A p \in C : p[1] \in 1..v /\ p = <<p[1], i>> BY DEF Positive
<1>3. \A p \in C : f[p[1]] = p BY <1>2
<1>4. f \in [1..v -> C] BY <1>1
<1> HIDE DEF f
<1>5. f \in Surjection(1..v, C) BY <1>2, <1>3, <1>4 DEF Surjection
<1>6. f \in Injection(1..v, C) BY <1>1, <1>4 DEF Injection, IsInjective
<1>7. IsFiniteSet(1..v) /\ Cardinality(1..v) = v BY IntervalSize
<1> QED BY <1>5, <1>6, <1>7, FS_Surjection

\* No candidate is in the list twice.
Injective(list) == \A i, j \in 1..Len(list) : list[i] = list[j] => i = j

\* A round has as many picks as the weights add up to, over their divisor.
LEMMA RoundSize ==
  ASSUME NEW w, NEW list, Weighted(w, list), Injective(list)
  PROVE  /\ IsFiniteSet(Picks(w, list))
         /\ WeightSum(w, ToSet(list)) \div GcdOfWeights(w, list)
              = Cardinality(Picks(w, list))
<1> DEFINE n == Len(list)
           g == GcdOfWeights(w, list)
           S == ToSet(list)
           U == Picks(w, list)
           Of(B) == {p \in U : list[p[2]] \in B}
<1>1. n \in Nat \ {0} /\ DOMAIN list = 1..n BY DEF Weighted
<1>2. S = {list[i] : i \in 1..n} BY <1>1 DEF ToSet
<1>3. IsFiniteSet(S)
  <2> DEFINE h == [i \in 1..n |-> list[i]]
  <2>1. h \in Surjection(1..n, S) BY <1>2 DEF Surjection
  <2>2. IsFiniteSet(1..n) BY <1>1, IntervalSize
  <2> HIDE DEF h
  <2> QED BY <2>1, <2>2, FS_Surjection
<1>4. g \in Nat \ {0} BY DivisorDivides DEF Positive
<1>5. \A i \in 1..n : Share(w, list, i) \in Nat /\ w[list[i]] = g * Share(w, list, i)
  BY GreatestDivisor DEF Share, Positive
<1>6. \A p \in U : p \in Positive \X (1..n) /\ p[1] <= Share(w, list, p[2]) BY DEF Picks
<1>7. \A p \in Positive \X (1..n) : p \in U <=> p[1] <= Share(w, list, p[2]) BY DEF Picks
<1>8. \A i, j \in 1..n : list[i] = list[j] => i = j BY DEF Injective
<1>9. PICK f : Sums(f, w, S)
  <2> HIDE DEF S
  <2> QED BY <1>3, SumExists
<1>10. /\ WeightSum(w, S) = f[S] /\ f[{}] = 0
       /\ \A B \in SUBSET S : B # {} => \E x \in B : f[B] = w[x] + f[B \ {x}]
  BY <1>9 DEF Sums
<1>11. Cardinality(S) \in Nat BY <1>3, FS_CardinalityType
<1>12. Of({}) = {} OBVIOUS
<1> DEFINE T == {k \in Nat : \A B \in SUBSET S : Cardinality(B) = k =>
                               IsFiniteSet(Of(B)) /\ f[B] = g * Cardinality(Of(B))}
<1> HIDE DEF n, g, S, U
<1>13. 0 \in T
  <2>1. ASSUME NEW B \in SUBSET S, Cardinality(B) = 0
        PROVE  IsFiniteSet(Of(B)) /\ f[B] = g * Cardinality(Of(B))
    <3>1. B = {}
      <4>1. IsFiniteSet(B) BY <1>3, FS_Subset
      <4> QED BY <2>1, <4>1, FS_EmptySet
    <3>2. Of(B) = {} BY <1>12, <3>1
    <3>3. IsFiniteSet(Of(B)) /\ Cardinality(Of(B)) = 0 BY <3>2, FS_EmptySet
    <3>4. g * 0 = 0 BY <1>4
    <3> QED BY <1>10, <3>1, <3>3, <3>4
  <2> QED BY <2>1
<1>14. \A k \in 0..(Cardinality(S) - 1) : k \in T => k + 1 \in T
  <2> TAKE k \in 0..(Cardinality(S) - 1)
  <2> HAVE k \in T
  <2>1. ASSUME NEW B \in SUBSET S, Cardinality(B) = k + 1
        PROVE  IsFiniteSet(Of(B)) /\ f[B] = g * Cardinality(Of(B))
    <3>1. IsFiniteSet(B) BY <1>3, FS_Subset
    <3>2. B # {}
      <4>1. k + 1 # 0 BY <1>11
      <4> QED BY <2>1, <3>1, <4>1, FS_EmptySet
    <3>3. PICK x \in B : f[B] = w[x] + f[B \ {x}] BY <1>10, <3>2
    <3> DEFINE A == B \ {x}
    <3>4. A \in SUBSET S /\ Cardinality(A) = k
      <4>1. Cardinality(A) = Cardinality(B) - 1 BY <3>1, FS_RemoveElement
      <4> QED BY <1>11, <2>1, <4>1
    <3>5. IsFiniteSet(Of(A)) /\ f[A] = g * Cardinality(Of(A)) BY <3>4
    <3>6. PICK i \in 1..n : list[i] = x BY <1>2
    <3> DEFINE v == Share(w, list, i)
               C == {p \in Positive \X (1..n) : p[2] = i /\ p[1] <= v}
    <3>7. v \in Nat /\ w[x] = g * v BY <1>5, <3>6
    <3>8. IsFiniteSet(C) /\ Cardinality(C) = v
      <4> HIDE DEF v
      <4>1. n \in Nat BY <1>1
      <4> QED BY <3>7, <4>1, ColumnSize
    <3>9. Of(B) = Of(A) \cup C /\ Of(A) \cap C = {}
      <4>1. \A p \in C : p \in U /\ list[p[2]] = x BY <1>7, <3>6
      <4>2. \A p \in U : list[p[2]] = x => p \in C
        <5> TAKE p \in U
        <5> HAVE list[p[2]] = x
        <5>1. p \in Positive \X (1..n) /\ p[1] <= Share(w, list, p[2]) BY <1>6
        <5>2. p[2] \in 1..n BY <5>1
        <5>3. p[2] = i BY <1>8, <3>6, <5>2
        <5> QED BY <5>1, <5>3
      <4> HIDE DEF C
      <4> QED BY <4>1, <4>2
    <3> HIDE DEF A, C, v, Of
    <3>10. IsFiniteSet(Of(B)) /\ Cardinality(Of(B)) = Cardinality(Of(A)) + v
      <4>1. /\ IsFiniteSet(Of(A) \cup C)
            /\ Cardinality(Of(A) \cup C) =
                 Cardinality(Of(A)) + Cardinality(C) - Cardinality(Of(A) \cap C)
        BY <3>5, <3>8, FS_Union
      <4>2. Cardinality(Of(A) \cap C) = 0 BY <3>9, FS_EmptySet
      <4>3. Cardinality(Of(A)) \in Nat BY <3>5, FS_CardinalityType
      <4> QED BY <3>7, <3>8, <3>9, <4>1, <4>2, <4>3
    <3>11. f[B] = g * v + g * Cardinality(Of(A)) BY <3>3, <3>5, <3>7 DEF A
    <3> DEFINE a == Cardinality(Of(A))
    <3>12. a \in Nat BY <3>5, FS_CardinalityType
    <3>13. f[B] = g * v + g * a /\ Cardinality(Of(B)) = a + v BY <3>10, <3>11
    <3> HIDE DEF a
    <3>14. g * (a + v) = g * v + g * a BY <1>4, <3>7, <3>12
    <3> QED BY <3>10, <3>13, <3>14
  <2>2. k + 1 \in Nat BY <1>11
  <2> HIDE DEF Of
  <2> QED BY <2>1, <2>2
<1>15. Of(S) = U
  <2>1. \A p \in U : list[p[2]] \in S
    <3> TAKE p \in U
    <3>1. p[2] \in 1..n BY <1>6
    <3> QED BY <1>2, <3>1
  <2> QED BY <2>1
<1> HIDE DEF T, Of
<1>16. Cardinality(S) \in T
  <2>1. 0 \in Nat /\ Cardinality(S) \in 0..Cardinality(S) BY <1>11
  <2>2. \A k \in 0..Cardinality(S) : k \in T BY ONLY <1>11, <1>13, <1>14, <2>1, Climb
  <2> QED BY <2>1, <2>2
<1>17. IsFiniteSet(U) /\ f[S] = g * Cardinality(U) BY <1>15, <1>16 DEF T
<1> DEFINE u == Cardinality(U)
<1>18. u \in Nat /\ f[S] = g * u BY <1>17, FS_CardinalityType
<1> HIDE DEF u
<1>19. g * u \in Nat /\ g * u <= g * u /\ g * u < g * u + g
  <2> DEFINE a == g * u
  <2>1. a \in Nat BY <1>4, <1>18
  <2> HIDE DEF a
  <2>2. a <= a /\ a < a + g BY <1>4, <2>1
  <2> QED BY <2>1, <2>2 DEF a
<1>20. (g * u) \div g = u
  <2> DEFINE a == g * u
  <2>1. a \in Nat /\ g * u <= a /\ a < g * u + g BY <1>19
  <2> HIDE DEF a
  <2>2. a \div g = u BY ONLY <1>4, <1>18, <2>1, QuotientIs
  <2> QED BY <2>2 DEF a
<1>21. WeightSum(w, S) \div g = u BY <1>10, <1>18, <1>20
<1> QED BY <1>17, <1>21 DEF S, g, U, u

\* A bounded set of numbers has a maximum, and Max is it.
LEMMA GreatestNumber ==
  ASSUME NEW n \in Nat, NEW S \in SUBSET (1..n), S # {}
  PROVE  Max(S) \in S /\ \A y \in S : y <= Max(S)
<1> DEFINE U == {u \in Nat : \A y \in S : y <= u}
<1>1. n \in U OBVIOUS
<1>2. PICK m \in U : \A u \in U : m <= u
  <2>1. U \in SUBSET Nat /\ U # {} BY <1>1
  <2> HIDE DEF U
  <2> QED BY ONLY <2>1, LeastNumber
<1>3. m \in S
  <2> SUFFICES ASSUME m \notin S PROVE FALSE
    OBVIOUS
  <2>1. PICK x \in S : TRUE OBVIOUS
  <2>2. \A y \in S : y \in Nat /\ y <= m /\ y # m /\ y <= m - 1 BY <1>2
  <2>3. m - 1 \in Nat BY <2>1, <2>2
  <2>4. m - 1 \in U BY <2>2, <2>3
  <2> QED BY <1>2, <2>4
<1>4. \A y \in S : m >= y BY <1>2
<1>5. \E x \in S : \A y \in S : x >= y BY <1>3, <1>4
<1>6. Max(S) \in S /\ \A y \in S : Max(S) >= y BY <1>5 DEF Max
<1>7. \A y \in S : y \in Nat OBVIOUS
<1> QED BY <1>6, <1>7

\* The walk of Proportional, one pick after the other.
WalkOf(w, list, from, n) ==
  FoldLeft(LAMBDA t, k : Append(t, WrrSelect(w, list, t[k])), <<from>>, [k \in 1..n |-> k])
Unfolds(f, w, list, from, n) ==
  /\ WalkOf(w, list, from, n) = f[n]
  /\ f[0] = <<from>>
  /\ \A k \in 1..n : f[k] = Append(f[k - 1], WrrSelect(w, list, f[k - 1][k]))

\* The unfolding of the walk exists for every number of picks.
LEMMA PicksExist ==
  ASSUME NEW w, NEW list, NEW from, NEW n \in Nat
  PROVE  \E f : Unfolds(f, w, list, from, n)
<1> DEFINE seq == [k \in 1..n |-> k]
           rest(s) == s \ {Max(s)}
           step(f, s) == IF s = {} THEN <<from>>
                         ELSE Append(f[rest(s)], WrrSelect(w, list, f[rest(s)][seq[Max(s)]]))
           body(f) == [s \in SUBSET DOMAIN seq |->
                         IF s = {} THEN <<from>>
                         ELSE LET x == Max(s)
                              IN  Append(f[s \ {x}], WrrSelect(w, list, f[s \ {x}][seq[x]]))]
           c == CHOOSE f : f = body(f)
           Good(f, m) == \A s \in SUBSET (1..n) : Cardinality(s) <= m => f[s] = step(f, s)
           T == {m \in Nat : \E f : Good(f, m)}
<1>1. WalkOf(w, list, from, n) = c[DOMAIN seq]
  BY ONLY TRUE DEF WalkOf, FoldLeft, MapThenFoldSet
<1>2. DOMAIN seq = 1..n /\ \A k \in 1..n : seq[k] = k OBVIOUS
<1>3. \A f : body(f) = [s \in SUBSET (1..n) |-> step(f, s)] BY <1>2
<1>4. \A f : DOMAIN body(f) = SUBSET (1..n) /\ \A s \in SUBSET (1..n) : body(f)[s] = step(f, s)
  BY <1>3
<1>5. \A s \in SUBSET (1..n) : s # {} =>
        rest(s) \in SUBSET (1..n) /\ Cardinality(rest(s)) = Cardinality(s) - 1
  <2> TAKE s \in SUBSET (1..n)
  <2> HAVE s # {}
  <2>1. Max(s) \in s BY GreatestNumber
  <2>2. IsFiniteSet(s) BY IntervalSize, FS_Subset
  <2> QED BY <2>1, <2>2, FS_RemoveElement
<1>6. \A s \in SUBSET (1..n) : Cardinality(s) \in 0..n /\ (Cardinality(s) = 0 <=> s = {})
  <2> TAKE s \in SUBSET (1..n)
  <2>1. IsFiniteSet(1..n) /\ Cardinality(1..n) = n BY IntervalSize
  <2>2. IsFiniteSet(s) /\ Cardinality(s) <= Cardinality(1..n) BY <2>1, FS_Subset
  <2>3. Cardinality(s) \in Nat /\ (Cardinality(s) = 0 <=> s = {})
    BY <2>2, FS_CardinalityType, FS_EmptySet
  <2> QED BY <2>2, <2>3, <2>1
<1>7. \A f, h : \A s \in SUBSET (1..n) :
         (s # {} => f[rest(s)] = h[rest(s)]) => step(f, s) = step(h, s)
  OBVIOUS
<1>8. \A f : step(f, {}) = <<from>> OBVIOUS
<1>9. \A f : \A k \in 1..n :
         step(f, 1..k) = Append(f[1..(k - 1)], WrrSelect(w, list, f[1..(k - 1)][k]))
  <2> TAKE f
  <2> TAKE k \in 1..n
  <2>1. 1..k \in SUBSET (1..n) /\ 1..k # {} /\ k \in 1..k OBVIOUS
  <2>2. Max(1..k) \in 1..k /\ k <= Max(1..k) BY <2>1, GreatestNumber
  <2>3. Max(1..k) = k BY <2>2
  <2>4. (1..k) \ {k} = 1..(k - 1) OBVIOUS
  <2> QED BY <1>2, <2>1, <2>3, <2>4
<1> HIDE DEF seq, rest, step, body
<1>10. 0 \in T
  <2> DEFINE h == [s \in SUBSET (1..n) |-> <<from>>]
  <2>1. \A s \in SUBSET (1..n) : h[s] = <<from>> OBVIOUS
  <2> HIDE DEF h
  <2>2. ASSUME NEW s \in SUBSET (1..n), Cardinality(s) <= 0 PROVE h[s] = step(h, s)
    <3>1. s = {} BY <1>6, <2>2
    <3> QED BY <1>8, <2>1, <3>1
  <2>3. Good(h, 0) BY <2>2
  <2> HIDE DEF Good
  <2> QED BY <2>3
<1>11. \A m \in 0..(n - 1) : m \in T => m + 1 \in T
  <2> TAKE m \in 0..(n - 1)
  <2> HAVE m \in T
  <2>1. PICK f : Good(f, m) OBVIOUS
  <2> DEFINE h == [s \in SUBSET (1..n) |-> IF Cardinality(s) <= m THEN f[s] ELSE step(f, s)]
  <2>2. \A s \in SUBSET (1..n) : Cardinality(s) <= m => h[s] = f[s] OBVIOUS
  <2>3. \A s \in SUBSET (1..n) : Cardinality(s) <= m + 1 => h[s] = step(f, s)
    <3> TAKE s \in SUBSET (1..n)
    <3> HAVE Cardinality(s) <= m + 1
    <3>1. CASE Cardinality(s) <= m BY <2>1, <2>2, <3>1
    <3>2. CASE ~(Cardinality(s) <= m) BY <3>2
    <3> QED BY <3>1, <3>2
  <2> HIDE DEF h
  <2>4. \A s \in SUBSET (1..n) : Cardinality(s) <= m + 1 => step(f, s) = step(h, s)
    <3> TAKE s \in SUBSET (1..n)
    <3> HAVE Cardinality(s) <= m + 1
    <3>1. s # {} => f[rest(s)] = h[rest(s)]
      <4> HAVE s # {}
      <4>1. rest(s) \in SUBSET (1..n) /\ Cardinality(rest(s)) = Cardinality(s) - 1 BY <1>5
      <4>2. Cardinality(s) \in Nat BY <1>6
      <4>3. Cardinality(rest(s)) <= m BY <4>1, <4>2
      <4> QED BY <2>2, <4>1, <4>3
    <3> QED BY <1>7, <3>1
  <2>5. Good(h, m + 1) BY <2>3, <2>4
  <2>6. m + 1 \in Nat OBVIOUS
  <2> HIDE DEF Good
  <2> QED BY <2>5, <2>6
<1>12. PICK f : Good(f, n)
  <2>1. 0 \in Nat /\ n \in 0..n OBVIOUS
  <2> HIDE DEF T
  <2>2. \A m \in 0..n : m \in T BY ONLY <1>10, <1>11, <2>1, n \in Nat, Climb
  <2>3. n \in T BY <2>1, <2>2
  <2> QED BY <2>3 DEF T
<1>13. c = body(c)
  <2> DEFINE e == [s \in SUBSET (1..n) |-> f[s]]
  <2>1. \A s \in SUBSET (1..n) : e[s] = step(f, s) BY <1>6, <1>12
  <2>2. \A s \in SUBSET (1..n) : step(f, s) = step(e, s) BY <1>5, <1>7
  <2>3. \A s \in SUBSET (1..n) : e[s] = body(e)[s] BY <1>4, <2>1, <2>2
  <2>4. DOMAIN e = SUBSET (1..n) /\ e = [s \in SUBSET (1..n) |-> e[s]] OBVIOUS
  <2> HIDE DEF e
  <2>5. body(e) = [s \in SUBSET (1..n) |-> body(e)[s]] BY <1>3, <1>4
  <2>6. e = body(e) BY <2>3, <2>4, <2>5
  <2> QED BY <2>6
<1> HIDE DEF c
<1>14. \A s \in SUBSET (1..n) : c[s] = step(c, s) BY <1>4, <1>13
<1> DEFINE g == [k \in 0..n |-> c[1..k]]
<1>15. g[0] = <<from>>
  <2>1. 1..0 = {} /\ {} \in SUBSET (1..n) OBVIOUS
  <2> QED BY <1>8, <1>14, <2>1
<1>16. \A k \in 1..n : g[k] = Append(g[k - 1], WrrSelect(w, list, g[k - 1][k]))
  <2> TAKE k \in 1..n
  <2>1. 1..k \in SUBSET (1..n) /\ k \in 0..n /\ k - 1 \in 0..n OBVIOUS
  <2>2. g[k] = c[1..k] /\ g[k - 1] = c[1..(k - 1)] BY <2>1
  <2>3. c[1..k] = step(c, 1..k) BY <1>14, <2>1
  <2> QED BY <1>9, <2>2, <2>3
<1>17. g[n] = c[DOMAIN seq] BY <1>2
<1> HIDE DEF g
<1>18. Unfolds(g, w, list, from, n) BY <1>1, <1>15, <1>16, <1>17 DEF Unfolds
<1> QED BY <1>18

\* What a walk leaves between calls, and a sequence of them in which each is
\* selected from the one before.
States == [index : -1..(Len(Pool) - 1), weight : Nat]
Follows(t, w, list, from, n) ==
  /\ t \in Seq(States) /\ Len(t) = n + 1 /\ t[1] = from
  /\ \A k \in 1..n : /\ t[k + 1] = WrrSelect(w, list, t[k])
                     /\ t[k + 1].index \in 0..(Len(list) - 1)

\* The walk is such a sequence.
LEMMA WalkFollows ==
  ASSUME NEW w, NEW list, Weighted(w, list), Len(list) \in 1..Len(Pool), NEW from \in States,
         NEW n \in Nat
  PROVE  Follows(WalkOf(w, list, from, n), w, list, from, n)
<1>1. PICK f : Unfolds(f, w, list, from, n) BY PicksExist
<1>2. /\ WalkOf(w, list, from, n) = f[n] /\ f[0] = <<from>>
      /\ \A k \in 1..n : f[k] = Append(f[k - 1], WrrSelect(w, list, f[k - 1][k]))
  BY <1>1 DEF Unfolds
<1>3. \A s \in States : /\ WrrSelect(w, list, s) \in States
                        /\ WrrSelect(w, list, s).index \in 0..(Len(list) - 1)
  <2> TAKE s \in States
  <2>1. Len(Pool) \in Nat \ {0} BY PoolFacts
  <2>2. s.index + 1 \in Nat /\ s.weight \in Nat BY <2>1 DEF States
  <2>3. WrrSelect(w, list, s) \in Walk(list, s.weight, MaxWeight(w, list)) BY <2>2, WalkEnds
  <2> DEFINE y == WrrSelect(w, list, s)
  <2>4. y \in [index : 0..(Len(list) - 1), weight : Nat] BY <2>3 DEF Walk
  <2> HIDE DEF y
  <2>5. y.index \in 0..(Len(list) - 1) /\ y.weight \in Nat
        /\ y = [index |-> y.index, weight |-> y.weight]
    BY <2>4
  <2>6. y.index \in -1..(Len(Pool) - 1) BY <2>1, <2>5
  <2>7. y \in States BY <2>5, <2>6 DEF States
  <2> QED BY <2>5, <2>7 DEF y
<1> DEFINE T == {k \in Nat : Follows(f[k], w, list, from, k)}
<1>4. 0 \in T
  <2>1. f[0] = <<from>> BY <1>2
  <2>2. f[0] \in Seq(States) /\ Len(f[0]) = 0 + 1 /\ f[0][1] = from BY <2>1
  <2>3. 1..0 = {} OBVIOUS
  <2> QED BY <2>2, <2>3 DEF Follows
<1>5. \A k \in 0..(n - 1) : k \in T => k + 1 \in T
  <2> TAKE k \in 0..(n - 1)
  <2> HAVE k \in T
  <2> DEFINE s == f[k]
             y == WrrSelect(w, list, s[k + 1])
  <2>1. k + 1 \in 1..n /\ (k + 1) - 1 = k /\ k + 1 \in Nat OBVIOUS
  <2>2. f[k + 1] = Append(s, y) BY <1>2, <2>1
  <2>3. /\ s \in Seq(States) /\ Len(s) = k + 1 /\ s[1] = from
        /\ \A j \in 1..k : /\ s[j + 1] = WrrSelect(w, list, s[j])
                           /\ s[j + 1].index \in 0..(Len(list) - 1)
    BY DEF Follows
  <2> HIDE DEF s
  <2>4. s[k + 1] \in States
    <3>1. k + 1 \in 1..Len(s) BY <2>1, <2>3
    <3> QED BY <2>3, <3>1
  <2>5. y \in States /\ y.index \in 0..(Len(list) - 1) BY <1>3, <2>4
  <2>6. y = WrrSelect(w, list, s[k + 1]) OBVIOUS
  <2> HIDE DEF y
  <2> DEFINE u == Append(s, y)
  <2>7. u \in Seq(States) /\ Len(u) = (k + 1) + 1 BY <2>1, <2>3, <2>5
  <2>8. \A j \in 1..(k + 1) : u[j] = s[j] BY <2>1, <2>3
  <2>9. u[(k + 1) + 1] = y BY <2>1, <2>3
  <2> HIDE DEF u
  <2>10. u[1] = from BY <2>1, <2>3, <2>8
  <2>11. \A j \in 1..(k + 1) : /\ u[j + 1] = WrrSelect(w, list, u[j])
                               /\ u[j + 1].index \in 0..(Len(list) - 1)
    <3> TAKE j \in 1..(k + 1)
    <3>1. CASE j = k + 1
      <4>1. u[j + 1] = y /\ u[j] = s[k + 1] BY <2>8, <2>9, <3>1
      <4> QED BY <2>5, <2>6, <4>1
    <3>2. CASE j # k + 1
      <4>1. j \in 1..k /\ j + 1 \in 1..(k + 1) BY <3>2
      <4>2. u[j + 1] = s[j + 1] /\ u[j] = s[j] BY <2>8, <4>1
      <4> QED BY <2>3, <4>1, <4>2
    <3> QED BY <3>1, <3>2
  <2>12. Follows(u, w, list, from, k + 1) BY <2>7, <2>10, <2>11 DEF Follows
  <2> QED BY <2>1, <2>2, <2>12 DEF u
<1> HIDE DEF T
<1>6. n \in T
  <2>1. 0 \in Nat /\ n \in 0..n OBVIOUS
  <2>2. \A k \in 0..n : k \in T BY ONLY <1>4, <1>5, <2>1, n \in Nat, Climb
  <2> QED BY <2>1, <2>2
<1> QED BY <1>2, <1>6 DEF T

\* How many picks a round has left after k selections, when it had r left
\* before them and each round has n.
Left(r, k, n) == IF k <= r THEN r - k ELSE r - k + n

\* Left falls by one, and is different for the picks of one round.
LEMMA LeftFacts ==
  ASSUME NEW n \in Nat, NEW r \in 0..n
  PROVE  /\ Left(r, 0, n) = r
         /\ \A k \in 1..n :
              Left(r, k, n) = IF Left(r, k - 1, n) = 0 THEN n - 1 ELSE Left(r, k - 1, n) - 1
         /\ \A k, l \in 1..n : Left(r, k, n) = Left(r, l, n) => k = l
BY DEF Left

\* x goes from pick to pick of U and leaves none out; it makes each once.
Rounds(x, U, total) == \A k \in 1..total : x[k] \in U /\ Reaches(U, x[k - 1], x[k])
OnceEach(x, U, total) == /\ \A k, l \in 1..total : x[k] = x[l] => k = l
                         /\ \A p \in U : \E k \in 1..total : x[k] = p

\* As many selections as a round has picks make every pick of it once.
LEMMA RoundPicked ==
  ASSUME NEW n \in Nat, NEW U \in SUBSET (Positive \X (1..n)), IsFiniteSet(U),
         NEW total \in Nat, total = Cardinality(U), NEW x, x[0] \in Positive \X (1..n),
         Rounds(x, U, total)
  PROVE  OnceEach(x, U, total)
<1> USE DEF Rounds, OnceEach
<1> DEFINE r(k) == Cardinality(Rest(U, x[k]))
           T == {k \in Nat : r(k) = Left(r(0), k, total)}
<1>1. \A k \in 0..total : x[k] \in Positive \X (1..n)
  <2> TAKE k \in 0..total
  <2>1. CASE k = 0 BY <2>1
  <2>2. CASE k # 0
    <3>1. k \in 1..total BY <2>2
    <3> QED BY <3>1
  <2> QED BY <2>1, <2>2
<1>2. \A k \in 1..total : r(k - 1) \in 0..total
                          /\ r(k) = IF r(k - 1) = 0 THEN total - 1 ELSE r(k - 1) - 1
  <2> TAKE k \in 1..total
  <2> DEFINE a == x[k - 1]
             b == x[k]
  <2>1. k - 1 \in 0..total OBVIOUS
  <2>2. a \in Positive \X (1..n) /\ b \in U /\ Reaches(U, a, b) BY <1>1, <2>1
  <2> HIDE DEF a, b
  <2>3. /\ Cardinality(Rest(U, a)) \in 0..Cardinality(U)
        /\ Cardinality(Rest(U, b)) = IF Cardinality(Rest(U, a)) = 0 THEN Cardinality(U) - 1
                                     ELSE Cardinality(Rest(U, a)) - 1
    BY <2>2, RestOne
  <2> QED BY <2>3 DEF a, b
<1>3. CASE total = 0
  <2>1. U = {} BY <1>3, FS_EmptySet
  <2> QED BY <1>3, <2>1
<1>4. CASE total # 0
  <2> HIDE DEF r
  <2>1. r(0) \in 0..total
    <3>1. 1 \in 1..total BY <1>4
    <3>2. r(1 - 1) \in 0..total BY <1>2, <3>1
    <3> QED BY <3>2
  <2>2. 0 \in T BY <2>1, LeftFacts
  <2>3. \A k \in 0..(total - 1) : k \in T => k + 1 \in T
    <3> TAKE k \in 0..(total - 1)
    <3> HAVE k \in T
    <3>1. k + 1 \in 1..total /\ (k + 1) - 1 = k /\ k + 1 \in Nat OBVIOUS
    <3>2. r(k + 1) = IF r(k) = 0 THEN total - 1 ELSE r(k) - 1 BY <1>2, <3>1
    <3>3. Left(r(0), k + 1, total) = IF Left(r(0), k, total) = 0 THEN total - 1
                                     ELSE Left(r(0), k, total) - 1
      <4>1. \A j \in 1..total : Left(r(0), j, total) =
              IF Left(r(0), j - 1, total) = 0 THEN total - 1 ELSE Left(r(0), j - 1, total) - 1
        BY <2>1, LeftFacts
      <4> QED BY <3>1, <4>1
    <3> QED BY <3>1, <3>2, <3>3
  <2> HIDE DEF T
  <2>4. \A k \in 0..total : k \in T
    <3>1. 0 \in Nat OBVIOUS
    <3> QED BY ONLY <2>2, <2>3, <3>1, total \in Nat, Climb
  <2>5. \A k \in 1..total : r(k) = Left(r(0), k, total)
    <3>1. \A k \in 1..total : k \in 0..total OBVIOUS
    <3> QED BY <2>4, <3>1 DEF T
  <2>6. \A k, l \in 1..total : x[k] = x[l] => k = l
    <3>1. \A k, l \in 1..total : x[k] = x[l] => r(k) = r(l) BY DEF r
    <3>2. \A k, l \in 1..total : Left(r(0), k, total) = Left(r(0), l, total) => k = l
      BY <2>1, LeftFacts
    <3> QED BY <2>5, <3>1, <3>2
  <2> DEFINE f == [k \in 1..total |-> x[k]]
  <2>7. f \in Injection(1..total, U) BY <2>6 DEF Injection, IsInjective
  <2>8. \A k \in 1..total : f[k] = x[k] OBVIOUS
  <2> HIDE DEF f
  <2>9. Cardinality(1..total) = Cardinality(U) BY IntervalSize
  <2>10. f \in Surjection(1..total, U) BY <2>7, <2>9, FS_Injection
  <2>11. \A p \in U : \E k \in 1..total : f[k] = p BY <2>10 DEF Surjection
  <2> QED BY <2>6, <2>8, <2>11
<1> QED BY <1>3, <1>4

\* The selections of a place.
Picked(t, total, i) == {k \in 2..(total + 1) : t[k].index = i - 1}

\* Each candidate is picked as often as its share of the weights says.
LEMMA SharesPicked ==
  ASSUME NEW w, NEW list, Weighted(w, list), Injective(list), NEW from,
         from.index + 1 \in Nat, from.weight \in Nat, NEW total \in Nat,
         total = Cardinality(Picks(w, list)), NEW t, Follows(t, w, list, from, total),
         NEW j \in 1..Len(list)
  PROVE  Cardinality(Picked(t, total, j)) = Share(w, list, j)
<1> DEFINE n == Len(list)
           g == GcdOfWeights(w, list)
           U == Picks(w, list)
           v == Share(w, list, j)
           z == (from.index + 1) % n
           i == IF z = 0 THEN n ELSE z
           x == [k \in 0..total |-> IF k = 0 THEN <<Layer(from.weight, g), i>>
                                    ELSE Spot(t[k + 1], g)]
           K == {k \in 2..(total + 1) : t[k].index = j - 1}
<1>1. n \in Nat \ {0} /\ g \in Positive BY DivisorDivides DEF Weighted
<1>2. i \in 1..n /\ i % n = z
  <2>1. z \in 0..(n - 1) BY <1>1
  <2>2. CASE z = 0
    <3>1. n % n = 0 BY <1>1
    <3> QED BY <1>1, <2>2, <3>1
  <2>3. CASE z # 0
    <3> DEFINE y == z
    <3>1. y \in 0..(n - 1) /\ y # 0 /\ i = y BY <2>1, <2>3
    <3> HIDE DEF y, z, n, i
    <3>2. y % n = y BY <1>1, <3>1
    <3>3. y \in 1..n BY <1>1, <3>1
    <3> QED BY <3>1, <3>2, <3>3 DEF y
  <2> QED BY <2>2, <2>3
<1>3. /\ t \in Seq(States) /\ Len(t) = total + 1 /\ t[1] = from
      /\ \A k \in 1..total : /\ t[k + 1] = WrrSelect(w, list, t[k])
                             /\ t[k + 1].index \in 0..(n - 1)
  BY DEF Follows
<1>4. \A k \in 1..(total + 1) : t[k].weight \in Nat
  <2>1. \A k \in 1..(total + 1) : t[k] \in States BY <1>3
  <2> QED BY <2>1 DEF States
<1>5. /\ x[0] = <<Layer(from.weight, g), i>>
      /\ \A k \in 1..total : x[k] = Spot(t[k + 1], g)
  OBVIOUS
<1>6. x[0] \in Positive \X (1..n)
  <2>1. Layer(from.weight, g) \in Positive BY <1>1, LayerFacts
  <2> HIDE DEF x, i
  <2> QED BY <1>2, <1>5, <2>1
<1>7. Weighted(w, list) /\ from.index + 1 \in Nat /\ from.weight \in Nat OBVIOUS
<1>8. IsFiniteSet(U) /\ total = Cardinality(U) /\ U \in SUBSET (Positive \X (1..n))
  BY RoundSize DEF Picks
<1> HIDE DEF x, i
<1>9. \A k \in 1..total : x[k] \in U /\ Reaches(U, x[k - 1], x[k])
  <2> TAKE k \in 1..total
  <2>1. t[k + 1] = WrrSelect(w, list, t[k]) /\ x[k] = Spot(t[k + 1], g) BY <1>3, <1>5
  <2>2. CASE k = 1
    <3>1. t[k] = from /\ x[k - 1] = <<Layer(from.weight, g), i>> BY <1>3, <1>5, <2>2
    <3>2. /\ Spot(WrrSelect(w, list, from), g) \in U
          /\ Reaches(U, <<Layer(from.weight, g), i>>, Spot(WrrSelect(w, list, from), g))
      BY <1>2, <1>7, SelectReaches
    <3> QED BY <2>1, <3>1, <3>2
  <2>3. CASE k # 1
    <3>1. k - 1 \in 1..total /\ (k - 1) + 1 = k /\ k \in 1..(total + 1) BY <2>3
    <3> DEFINE s == t[k]
               l == s.index + 1
    <3>2. s.index \in 0..(n - 1) /\ s.weight \in Nat BY <1>3, <1>4, <3>1
    <3>3. l \in 1..n /\ l \in Nat /\ l % n = (s.index + 1) % n BY <1>1, <3>2
    <3>4. x[k - 1] = <<Layer(s.weight, g), l>> BY <1>5, <3>1 DEF Spot
    <3>5. t[k + 1] = WrrSelect(w, list, s) BY <2>1
    <3> HIDE DEF s
    <3>6. s.index + 1 \in Nat BY <3>3
    <3> HIDE DEF l
    <3>7. /\ Spot(WrrSelect(w, list, s), g) \in U
          /\ Reaches(U, <<Layer(s.weight, g), l>>, Spot(WrrSelect(w, list, s), g))
      BY <1>7, <3>2, <3>3, <3>6, SelectReaches
    <3> QED BY <2>1, <3>4, <3>5, <3>7
  <2> QED BY <2>2, <2>3
<1>10. v \in Positive /\ v \in Nat BY GreatestDivisor DEF Share, Positive
<1>11. \A p \in U : p[1] \in Nat /\ p[1] >= 1 /\ p[2] \in 1..n /\ p[1] <= Share(w, list, p[2])
  BY DEF Picks, Positive
<1>12. \A c \in 1..v : <<c, j>> \in U BY DEF Picks, Positive
<1>13. \A k \in 1..total : x[k] = <<Layer(t[k + 1].weight, g), t[k + 1].index + 1>>
  BY <1>5 DEF Spot
<1> HIDE DEF n, g, U, v, K
<1>14. n \in Nat BY <1>1
<1>15. Rounds(x, U, total) BY <1>9 DEF Rounds
<1>16. OnceEach(x, U, total) BY <1>6, <1>8, <1>14, <1>15, RoundPicked
<1>17. /\ \A k, l \in 1..total : x[k] = x[l] => k = l
       /\ \A p \in U : \E k \in 1..total : x[k] = p
  BY <1>16 DEF OnceEach
<1> DEFINE h == [k \in K |-> x[k - 1][1]]
<1>18. \A k \in 2..(total + 1) : k - 1 \in 1..total /\ (k - 1) + 1 = k OBVIOUS
<1>19. \A k \in K : k \in 2..(total + 1) /\ t[k].index = j - 1 BY DEF K
<1>20. \A k \in K : x[k - 1] \in U /\ x[k - 1][2] = j
  <2> TAKE k \in K
  <2>1. k - 1 \in 1..total /\ (k - 1) + 1 = k BY <1>18, <1>19
  <2>2. x[k - 1][2] = t[k].index + 1 BY <1>13, <2>1
  <2>3. x[k - 1][2] = j BY <1>19, <2>2, <1>14
  <2> QED BY <1>9, <2>1, <2>3
<1>21. \A k \in K : h[k] \in 1..v /\ x[k - 1] = <<h[k], j>>
  <2> TAKE k \in K
  <2> DEFINE p == x[k - 1]
  <2>1. p \in U /\ p[2] = j /\ h[k] = p[1] BY <1>20
  <2>2. p = <<p[1], p[2]>> BY <1>8, <2>1
  <2>3. p[1] \in Nat /\ p[1] >= 1 /\ p[1] <= v BY <1>11, <2>1 DEF v
  <2> HIDE DEF p, h
  <2>4. h[k] \in 1..v BY <1>10, <2>1, <2>3
  <2> QED BY <2>1, <2>2, <2>4 DEF p
<1>22. h \in [K -> 1..v] BY <1>21
<1> HIDE DEF h
<1>23. \A k, l \in K : h[k] = h[l] => k = l
  <2> TAKE k, l \in K
  <2> HAVE h[k] = h[l]
  <2>1. x[k - 1] = x[l - 1] BY <1>21
  <2>2. k - 1 \in 1..total /\ l - 1 \in 1..total /\ k \in Nat /\ l \in Nat BY <1>18, <1>19
  <2>3. k - 1 = l - 1 BY <1>17, <2>1, <2>2
  <2> QED BY <2>2, <2>3
<1>24. \A c \in 1..v : \E k \in K : h[k] = c
  <2> TAKE c \in 1..v
  <2>1. PICK l \in 1..total : x[l] = <<c, j>> BY <1>12, <1>17
  <2>2. t[l + 1].index + 1 = j BY <1>13, <2>1
  <2>3. l + 1 \in 2..(total + 1) /\ (l + 1) - 1 = l OBVIOUS
  <2>4. t[l + 1].index = j - 1
    <3>1. t[l + 1].index \in 0..(n - 1) BY <1>3
    <3> DEFINE y == t[l + 1].index
    <3>2. y \in 0..(n - 1) /\ y + 1 = j BY <2>2, <3>1
    <3> HIDE DEF y
    <3>3. y = j - 1 BY <1>14, <3>2
    <3> QED BY <3>3 DEF y
  <2>5. l + 1 \in K BY <2>3, <2>4 DEF K
  <2>6. x[l] = <<h[l + 1], j>> BY <1>21, <2>3, <2>5
  <2>7. h[l + 1] = c BY <2>1, <2>6
  <2> QED BY <2>5, <2>7
<1>25. h \in Surjection(K, 1..v) BY <1>22, <1>24 DEF Surjection
<1>26. h \in Injection(K, 1..v) BY <1>22, <1>23 DEF Injection, IsInjective
<1>27. IsFiniteSet(1..v) /\ Cardinality(1..v) = v BY <1>10, IntervalSize
<1>28. Cardinality(K) = v BY <1>25, <1>26, <1>27, FS_Injection
<1> QED BY <1>28 DEF K, v, Picked

\* What Proportional says of a list and its weights.
Divisor(w, list) == Max({d \in 1..w[Head(list)] : \A b \in ToSet(list) : w[b] % d = 0})
Total(w, list) == WeightSum(w, ToSet(list)) \div Divisor(w, list)
ProportionalOf(w, list) ==
  \A i \in DOMAIN list :
    Cardinality(Picked(WalkOf(w, list, wrr, Total(w, list)), Total(w, list), i))
      = w[list[i]] \div Divisor(w, list)

\* For every list of candidates and every set of backends on trial.
LEMMA ListProportional ==
  ASSUME IInv, NEW list \in Candidates, NEW trial
  PROVE  ProportionalOf(VirtualPool(trial), list)
<1> DEFINE w == VirtualPool(trial)
           g == Divisor(w, list)
           total == Total(w, list)
<1>1. Weighted(w, list) BY VirtualPoolWeighted
<1>2. /\ Len(list) \in 1..Len(Pool) /\ DOMAIN list = 1..Len(list)
      /\ \A k \in 1..Len(list) : list[k] \in Members
      /\ \A k, l \in 1..Len(list) : k < l => Place[list[k]] < Place[list[l]]
  BY CandidateFacts
<1>3. Injective(list)
  <2>1. ASSUME NEW k \in 1..Len(list), NEW l \in 1..Len(list), list[k] = list[l], k < l
        PROVE FALSE
    <3>1. Place[list[k]] < Place[list[l]] BY <1>2, <2>1
    <3>2. Place[list[k]] \in Int BY <1>2, PlaceFacts
    <3> QED BY <2>1, <3>1, <3>2
  <2>2. ASSUME NEW k \in 1..Len(list), NEW l \in 1..Len(list), list[k] = list[l]
        PROVE k = l
    <3>1. k \in Int /\ l \in Int /\ (k < l \/ l < k \/ k = l) BY <1>2
    <3> QED BY <2>1, <2>2, <3>1
  <2> QED BY <2>2 DEF Injective
<1> HIDE DEF w
<1>4. g = GcdOfWeights(w, list) BY <1>1, GreatestDivisor DEF Divisor
<1>5. IsFiniteSet(Picks(w, list)) /\ total = Cardinality(Picks(w, list))
  BY <1>1, <1>3, <1>4, RoundSize DEF Total
<1>6. total \in Nat BY <1>5, FS_CardinalityType
<1>7. wrr \in States BY DEF IInv, States
<1>8. wrr.index + 1 \in Nat /\ wrr.weight \in Nat
  <2>1. Len(Pool) \in Nat BY PoolFacts
  <2> QED BY <1>7, <2>1 DEF States
<1> DEFINE t == WalkOf(w, list, wrr, total)
<1>9. Follows(t, w, list, wrr, total) BY <1>1, <1>2, <1>6, <1>7, WalkFollows
<1> HIDE DEF t
<1> HIDE DEF g, total
<1>10. ASSUME NEW i \in 1..Len(list) PROVE Cardinality(Picked(t, total, i)) = w[list[i]] \div g
  <2>1. Cardinality(Picked(t, total, i)) = Share(w, list, i)
    BY <1>1, <1>3, <1>5, <1>6, <1>8, <1>9, SharesPicked
  <2> QED BY <1>4, <2>1 DEF Share
<1>11. ProportionalOf(w, list) BY <1>2, <1>10 DEF ProportionalOf, t, g, total
<1> QED BY <1>11 DEF w

\* Weighted round robin gives every candidate its share of the picks, from any
\* level and index that earlier calls have left behind: a selection goes to the
\* next pick of a round that goes down the levels, and leaves none out.
THEOREM SharesProportional == Spec => []Proportional
<1>1. IInv => Proportional
  <2> SUFFICES ASSUME IInv, NEW list \in Candidates,
                      NEW w \in {VirtualPool({}), VirtualPool(ToSet(list))}
               PROVE  LET g == Max({d \in 1..w[Head(list)] : \A b \in ToSet(list) : w[b] % d = 0})
                          total == MapThenSumSet(LAMBDA b : w[b], ToSet(list)) \div g
                          walk == FoldLeft(LAMBDA t, k : Append(t, WrrSelect(w, list, t[k])),
                                           <<wrr>>, [k \in 1..total |-> k])
                      IN  \A i \in DOMAIN list :
                            Cardinality({k \in 2..(total + 1) : walk[k].index = i - 1})
                              = w[list[i]] \div g
    BY DEF Proportional
  <2>1. PICK trial : w = VirtualPool(trial) OBVIOUS
  <2>2. ProportionalOf(w, list) BY <2>1, ListProportional
  <2> QED BY <2>2 DEF ProportionalOf, Divisor, Total, WalkOf, WeightSum, Picked
<1> QED BY <1>1, Invariance, PTL
=============================================================================
