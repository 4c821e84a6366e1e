--------------------------- MODULE DetectorProofs ---------------------------
(***************************************************************************)
(* The properties of Detector for every client: any number of requests,    *)
(* any number of windows, any rates.                                       *)
(*                                                                         *)
(* `Settled' is what carries FlagsOnlyRises: the variance that a window    *)
(* brings in covers every rate up to the window's own.  It holds because   *)
(* of the constants of evaluateWindows (0.3 and 0.7 against a threshold of *)
(* 3), which the proof uses as linear bounds.                              *)
(***************************************************************************)
EXTENDS Detector, TLAPS

USE DetectorAssumption

\* No rate up to that of the last window is an outlier.
Settled == ewma # 0 => \A r \in 0..rate : ~IsOutlier(r - ewma, variance)

\* A window of just four quarters may be found short once, so the age is
\* bounded by the phase.
Aged == age <= 4 + phase

IInv == TypeOK /\ Aged /\ Settled

-----------------------------------------------------------------------------
(* Arithmetic.                                                             *)

\* A rate is a natural number, whatever the window's length.
LEMMA RateNat ==
  ASSUME NEW n \in Nat, NEW quarters \in 1..6 PROVE RateOf(n, quarters) \in Nat
<1>1. CASE quarters = 1 BY <1>1 DEF RateOf
<1>2. CASE quarters = 2 BY <1>2 DEF RateOf
<1>3. CASE quarters = 3 BY <1>3 DEF RateOf
<1>4. CASE quarters = 4 BY <1>4 DEF RateOf
<1>5. CASE quarters = 5 BY <1>5 DEF RateOf
<1>6. CASE quarters = 6 BY <1>6 DEF RateOf
<1> QED BY <1>1, <1>2, <1>3, <1>4, <1>5, <1>6

\* A square is a natural number and, of an integer, no less than it.
LEMMA Square == ASSUME NEW i \in Int PROVE i * i \in Nat /\ i <= i * i
<1>1. CASE i <= 0 BY <1>1
<1>2. CASE i > 0 BY <1>2
<1> QED BY <1>1, <1>2

\* Squares of naturals are ordered like the naturals.
LEMMA SquareMonotone ==
  ASSUME NEW a \in Nat, NEW b \in Nat, a <= b PROVE a * a <= b * b
<1>1. a * a <= a * b BY SMT
<1>2. a * b <= b * b BY SMT
<1> QED BY <1>1, <1>2

\* The mean moves at least three tenths of the way to the new rate.
LEMMA SmoothedBound ==
  ASSUME NEW mean \in Nat, NEW r \in Nat
  PROVE  /\ Smoothed(mean, r) \in Nat
         /\ 10 * Smoothed(mean, r) >= 3 * r + 7 * mean - 4
         /\ mean # 0 => Smoothed(mean, r) # 0
BY DEF Smoothed

\* The variance takes in at least 0.21 of the squared deviation.
LEMMA SpreadBound ==
  ASSUME NEW v \in Nat, NEW d \in Int
  PROVE  /\ Spread(v, d) \in Nat
         /\ 10000 * Spread(v, d) >= 21 * (d * d) - 4999
<1>1. d * d \in Nat BY Square
<1> DEFINE s == d * d
<1>2. Spread(v, d) = (7000 * v + 21 * s + 5000) \div 10000
  BY DEF Spread
<1>3. s \in Nat BY <1>1
<1> HIDE DEF s
<1>4. /\ (7000 * v + 21 * s + 5000) \div 10000 \in Nat
      /\ 10000 * ((7000 * v + 21 * s + 5000) \div 10000) >= 21 * s - 4999
  BY <1>3
<1> QED BY <1>2, <1>4 DEF s

\* An outlier's squared deviation is at least 897 times the variance.
LEMMA OutlierBound ==
  ASSUME NEW diff \in Int, NEW v \in Nat, IsOutlier(diff, v)
  PROVE  diff > 0 /\ diff * diff >= 897 * AtLeast(100, v)
<1> DEFINE m == AtLeast(100, v) s == diff * diff
<1>1. m \in Nat \ {0} BY DEF AtLeast
<1>2. s \in Nat BY Square
<1>3. diff > 0 /\ s \div m >= 897
  <2>1. s \div m \in Int BY <1>1, <1>2
  <2>2. s \div m > 897 \/ s \div m = 897 BY DEF IsOutlier
  <2>3. diff > 0 BY DEF IsOutlier
  <2> QED BY <2>1, <2>2, <2>3
<1> HIDE DEF m, s
<1>4. s >= 897 * m
  <2> DEFINE q == s \div m
  <2>1. q \in Int /\ m * q <= s BY <1>1, <1>2, SMT
  <2>2. q >= 897 BY <1>3
  <2> HIDE DEF q
  <2>3. m * q >= m * 897 BY <1>1, <2>1, <2>2, SMT
  <2> QED BY <1>1, <1>2, <2>1, <2>3
<1> QED BY <1>3, <1>4 DEF m, s

\* After a window of rate `last' the mean and the variance have moved so far
\* that no rate up to it is an outlier.
LEMMA LaterSettles ==
  ASSUME NEW mean \in Nat, NEW v \in Nat, NEW last \in Nat, NEW r \in 0..last
  PROVE  ~IsOutlier(r - Smoothed(mean, last), Spread(v, last - mean))
<1> DEFINE d == last - mean
           e == Smoothed(mean, last)
           w == Spread(v, d)
           m == AtLeast(100, w)
           diff == r - e
<1>1. d \in Int /\ e \in Nat /\ w \in Nat
  <2>1. d \in Int /\ e \in Nat BY SmoothedBound
  <2> HIDE DEF d, e
  <2> QED BY <2>1, SpreadBound
<1>2. 10 * e >= 3 * last + 7 * mean - 4 /\ 10000 * w >= 21 * (d * d) - 4999
  <2>1. 10 * e >= 3 * last + 7 * mean - 4 BY SmoothedBound
  <2>2. d \in Int BY <1>1
  <2> HIDE DEF d
  <2>3. 10000 * Spread(v, d) >= 21 * (d * d) - 4999 BY <2>2, SpreadBound
  <2> QED BY <2>1, <2>3 DEF w
<1>3. diff \in Int /\ 10 * diff <= 7 * d + 4
  BY <1>1, <1>2
<1> SUFFICES ASSUME IsOutlier(diff, w) PROVE FALSE
  OBVIOUS
<1>4. diff > 0 /\ diff * diff >= 897 * m
  BY <1>1, <1>3, OutlierBound
<1>5. m \in Nat /\ m >= 100 /\ m >= w
  BY <1>1 DEF AtLeast
<1> HIDE DEF d, e, w, m, diff
<1>6. d >= 1
  BY <1>1, <1>3, <1>4
<1>7. d * d \in Nat /\ d <= d * d
  BY <1>1, Square
<1>8. (10 * diff) * (10 * diff) <= (7 * d + 4) * (7 * d + 4)
  <2>1. 10 * diff \in Nat /\ 7 * d + 4 \in Nat BY <1>1, <1>3, <1>4, <1>6
  <2> QED BY <2>1, <1>3, SquareMonotone
<1>9. 100 * (diff * diff) <= 49 * (d * d) + 56 * d + 16
  <2>1. (10 * diff) * (10 * diff) = 100 * (diff * diff) BY <1>3
  <2>2. (7 * d + 4) * (7 * d + 4) = 49 * (d * d) + 56 * d + 16 BY <1>1
  <2> QED BY <2>1, <2>2, <1>8
<1>10. diff * diff \in Nat BY <1>3, Square
<1> DEFINE D == d * d S == diff * diff
<1>11. D \in Nat /\ S \in Nat /\ d <= D /\ S >= 897 * m /\ 100 * S <= 49 * D + 56 * d + 16
       /\ 10000 * w >= 21 * D - 4999
  BY <1>2, <1>4, <1>7, <1>9, <1>10
<1> HIDE DEF D, S
<1> QED BY <1>1, <1>5, <1>11

-----------------------------------------------------------------------------
(* The invariant.                                                          *)

LEMMA InitIInv == Init => IInv
<1> SUFFICES ASSUME Init PROVE IInv
  OBVIOUS
<1>1. TypeOK
  <2>1. known \in BOOLEAN /\ flagged \in BOOLEAN BY DEF Init
  <2> QED BY <2>1 DEF Init, TypeOK, LongestWindow
<1>2. Aged /\ Settled BY DEF Init, Aged, Settled
<1> QED BY <1>1, <1>2 DEF IInv

\* The window that is evaluated leaves a baseline of natural numbers.
LEMMA EvaluateTypes ==
  ASSUME IInv, Evaluate PROVE TypeOK' /\ Aged' /\ RateOf(count, age + 1) \in Nat
<1> DEFINE r == RateOf(count, age + 1)
<1>1. age + 1 \in 1..6 /\ count \in Nat
  BY DEF IInv, TypeOK, Aged, Evaluate
<1>2. r \in Nat BY <1>1, RateNat
<1>3. rate' = r /\ (FirstWindow(r) \/ LaterWindow(r))
  BY DEF Evaluate, EvaluateWindows
<1> HIDE DEF r
<1>4. ewma' \in Nat /\ variance' \in Nat
  <2>1. CASE FirstWindow(r) BY <2>1, <1>2 DEF FirstWindow, AtLeast
  <2>2. CASE LaterWindow(r)
    <3>1. ewma \in Nat /\ variance \in Nat /\ r - ewma \in Int BY <1>2 DEF IInv, TypeOK
    <3> QED BY <2>2, <1>2, <3>1, SmoothedBound, SpreadBound DEF LaterWindow
  <2> QED BY <1>3, <2>1, <2>2
<1>5. flagged' \in BOOLEAN /\ penalties' \in Nat
  <2>1. CASE FirstWindow(r) BY <2>1 DEF FirstWindow, IInv, TypeOK
  <2>2. CASE LaterWindow(r)
    <3>1. flagged' \in BOOLEAN BY <2>2 DEF LaterWindow
    <3>2. penalties' \in Nat BY <2>2 DEF LaterWindow, IInv, TypeOK
    <3> QED BY <3>1, <3>2
  <2> QED BY <1>3, <2>1, <2>2
<1>6. /\ known' \in BOOLEAN /\ count' \in Nat /\ age' \in 0..LongestWindow /\ phase' \in 0..1
      /\ rate' \in Nat /\ requests' \in Nat /\ windows' \in Nat /\ age' <= 4 + phase'
  BY <1>2, <1>3 DEF IInv, TypeOK, Evaluate, EvaluateWindows, LongestWindow
<1> QED BY <1>2, <1>4, <1>5, <1>6 DEF TypeOK, Aged, r

\* It is settled: a first window is the mean itself, a later one has widened
\* the spread.
LEMMA EvaluateSettles == ASSUME IInv, Evaluate PROVE Settled'
<1> DEFINE r == RateOf(count, age + 1)
<1>1. r \in Nat BY EvaluateTypes
<1>2. rate' = r /\ (FirstWindow(r) \/ LaterWindow(r))
  BY DEF Evaluate, EvaluateWindows
<1>3. ewma \in Nat /\ variance \in Nat BY DEF IInv, TypeOK
<1> HIDE DEF r
<1> SUFFICES ASSUME NEW s \in 0..r PROVE ~IsOutlier(s - ewma', variance')
  BY <1>2 DEF Settled
<1>4. CASE FirstWindow(r)
  BY <1>4, <1>1 DEF FirstWindow, IsOutlier
<1>5. CASE LaterWindow(r)
  BY <1>5, <1>1, <1>3, LaterSettles DEF LaterWindow
<1> QED BY <1>2, <1>4, <1>5

\* Every step preserves the invariant.
THEOREM StepIInv == IInv /\ [Next]_vars => IInv'
<1> SUFFICES ASSUME IInv, [Next]_vars PROVE IInv'
  OBVIOUS
<1>1. CASE RecordRequest
  BY <1>1 DEF RecordRequest, IInv, TypeOK, Aged, Settled, LongestWindow
<1>2. CASE Pass
  <2>1. TypeOK' /\ Aged'
    BY <1>2 DEF Pass, IInv, TypeOK, Aged, LongestWindow, WindowQuarters
  <2>2. Settled'
    BY <1>2 DEF Pass, IInv, Settled
  <2> QED BY <2>1, <2>2 DEF IInv
<1>3. CASE Evaluate
  BY <1>3, EvaluateTypes, EvaluateSettles DEF IInv
<1>4. CASE UNCHANGED vars
  BY <1>4 DEF vars, IInv, TypeOK, Aged, Settled
<1> QED BY <1>1, <1>2, <1>3, <1>4 DEF Next

\* anomalyDetector.js's records keep their types, and no window is longer
\* than three timer periods.
THEOREM TypeCorrect == Spec => []TypeOK
<1>1. IInv => TypeOK BY DEF IInv
<1> QED BY <1>1, InitIInv, StepIInv, PTL DEF Spec

\* evaluateWindows sets a client's baseline once: rounding never takes an
\* ewma that is set back to the 0 that stands for none.
THEOREM BaselinesKept == Spec => BaselineKept
<1>1. IInv /\ [Next]_vars => [ewma # 0 => ewma' # 0]_vars
  <2> SUFFICES ASSUME IInv, Next, ewma # 0 PROVE ewma' # 0
    BY DEF vars
  <2>1. CASE RecordRequest \/ Pass
    BY <2>1 DEF RecordRequest, Pass
  <2>2. CASE Evaluate
    <3>1. LaterWindow(RateOf(count, age + 1))
      BY <2>2 DEF Evaluate, EvaluateWindows, FirstWindow
    <3> QED BY <2>2, <3>1, EvaluateTypes, SmoothedBound DEF LaterWindow, IInv, TypeOK
  <2> QED BY <2>1, <2>2 DEF Next
<1> QED BY <1>1, InitIInv, StepIInv, PTL DEF Spec, BaselineKept

\* The anomaly condition of evaluateWindows only ever meets a rate above the
\* last window's, for every history of rates.
THEOREM FlagsAreRises == Spec => FlagsOnlyRises
<1>1. IInv /\ [Next]_vars => [Evaluate /\ flagged' => rate' > rate]_vars
  <2> SUFFICES ASSUME IInv, Evaluate, flagged' PROVE rate' > rate
    OBVIOUS
  <2> DEFINE r == RateOf(count, age + 1)
  <2>1. r \in Nat /\ rate' = r BY EvaluateTypes DEF Evaluate, EvaluateWindows
  <2>2. LaterWindow(r) BY DEF Evaluate, EvaluateWindows, FirstWindow
  <2> HIDE DEF r
  <2>3. ewma # 0 /\ IsOutlier(r - ewma, variance) BY <2>2 DEF LaterWindow
  <2>4. r \notin 0..rate BY <2>3 DEF IInv, Settled
  <2> QED BY <2>1, <2>4 DEF IInv, TypeOK
<1> QED BY <1>1, InitIInv, StepIInv, PTL DEF Spec, FlagsOnlyRises
=============================================================================
