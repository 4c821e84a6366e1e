------------------------------ MODULE Detector ------------------------------
(***************************************************************************)
(* The anomaly detector's baseline of one client: requests are counted in  *)
(* a window, a timer turns full windows into a rate, and a rate far above  *)
(* the smoothed mean is flagged.                                           *)
(*                                                                         *)
(* Clients do not influence each other, so one is enough.  Time runs in    *)
(* quarters of the window of 10 s; the timer fires every second quarter    *)
(* and evaluates a window of at least four, and because timers jitter by   *)
(* milliseconds a window of just four may be found short and judged two    *)
(* later.  Rates are in hundredths of a request per minute, the variance   *)
(* in hundredths, as the code rounds both; the z-score test is exact.      *)
(***************************************************************************)
EXTENDS Integers

CONSTANTS
  AutoEnforce,        \* config.security.anomaly.autoEnforce
  MaxRequests,        \* bound: requests of the client
  MaxWindows          \* bound: windows evaluated

ASSUME DetectorAssumption ==
  AutoEnforce \in BOOLEAN /\ MaxRequests \in Nat /\ MaxWindows \in Nat

VARIABLES
  known,              \* the client has an entry in ipStats
  ewma, variance,     \* its baseline; ewma = 0 until the first window
  count, age,         \* windowCount, and quarters since windowStart
  phase,              \* quarters since the timer fired: 0 or 1
  rate, flagged,      \* the last window evaluated, and whether it was flagged
  penalties,          \* penalties applied to the client
  requests, windows   \* so far

vars == <<known, ewma, variance, count, age, phase, rate, flagged, penalties,
          requests, windows>>

WindowQuarters == 4
LongestWindow == 6

Init ==
  /\ known = FALSE /\ ewma = 0 /\ variance = 100
  /\ count = 0 /\ age = 0 /\ phase \in 0..1
  /\ rate = 0 /\ flagged = FALSE /\ penalties = 0
  /\ requests = 0 /\ windows = 0

-----------------------------------------------------------------------------
(* The arithmetic of evaluateWindows.                                      *)

AtLeast(a, b) == IF a < b THEN b ELSE a

\* Requests per minute, in hundredths: 24 windows of one quarter to a minute.
RateOf(n, quarters) == (n * 2400) \div quarters

\* Mutant: truncated to whole requests.
Smoothed_Whole(mean, r) == 100 * ((3 * r + 7 * mean) \div 1000)

\* round(0.3 * rate + 0.7 * ewma), both in hundredths
Smoothed(mean, r) == (3 * r + 7 * mean + 5) \div 10

\* Mutant: the deviation is left out.
Spread_Decays(v, diff) == (7 * v + 5) \div 10

\* Mutant: the deviation enters with its sign.
Spread_Signed(v, diff) == (70 * v + 21 * diff + 50) \div 100

\* round(0.7 * (variance + 0.3 * diff^2))
Spread(v, diff) == (7000 * v + 21 * diff * diff + 5000) \div 10000

\* The z-score, rounded to hundredths, is at least 3: diff^2 is at least
\* 2.995^2 variances, compared without leaving the integers.
IsOutlier(diff, v) ==
  LET m == AtLeast(100, v)
      q == (diff * diff) \div m
  IN  /\ diff > 0
      /\ q > 897 \/ (q = 897 /\ 400 * ((diff * diff) % m) >= m)

VolumeFloor == 1500   \* 15 requests per minute

-----------------------------------------------------------------------------

\* The middleware, for a request that the rate limiter let through.
RecordRequest ==
  /\ requests < MaxRequests
  /\ requests' = requests + 1
  /\ known' = TRUE
  /\ count' = count + 1
  /\ age' = IF known THEN age ELSE 0
  /\ UNCHANGED <<ewma, variance, phase, rate, flagged, penalties, windows>>

\* The first window only sets the baseline.
FirstWindow(r) ==
  /\ ewma = 0
  /\ ewma' = r /\ variance' = AtLeast(100, r \div 5)
  /\ flagged' = FALSE /\ UNCHANGED penalties

LaterWindow(r) ==
  /\ ewma # 0
  /\ ewma' = Smoothed(ewma, r) /\ variance' = Spread(variance, r - ewma)
  /\ flagged' = (IsOutlier(r - ewma, variance) /\ r >= VolumeFloor)
  /\ penalties' = penalties + (IF flagged' /\ AutoEnforce THEN 1 ELSE 0)

\* evaluateWindows, for a window of `quarters'
EvaluateWindows(quarters) ==
  LET r == RateOf(count, quarters) IN
  /\ windows < MaxWindows /\ windows' = windows + 1
  /\ rate' = r
  /\ FirstWindow(r) \/ LaterWindow(r)
  /\ count' = 0 /\ age' = 0

\* A quarter passes without the timer, or with the timer and a window that is
\* short, or found short.
Pass ==
  /\ phase' = 1 - phase
  /\ age' = IF known THEN age + 1 ELSE 0
  /\ phase = 0 \/ ~known \/ age + 1 <= WindowQuarters
  /\ UNCHANGED <<known, ewma, variance, count, rate, flagged, penalties, requests, windows>>

\* A quarter passes, the timer fires and the window is long enough.
Evaluate ==
  /\ phase = 1 /\ known /\ age + 1 >= WindowQuarters
  /\ phase' = 0
  /\ EvaluateWindows(age + 1)
  /\ UNCHANGED <<known, requests>>

Next == RecordRequest \/ Pass \/ Evaluate

Spec == Init /\ [][Next]_vars

-----------------------------------------------------------------------------
(* Properties.                                                             *)

\* The baseline's fields are natural numbers and no window is longer than
\* three timer periods.
TypeOK ==
  /\ known \in BOOLEAN /\ ewma \in Nat /\ variance \in Nat
  /\ count \in Nat /\ age \in 0..LongestWindow /\ phase \in 0..1
  /\ rate \in Nat /\ flagged \in BOOLEAN /\ penalties \in Nat
  /\ requests \in Nat /\ windows \in Nat

\* A client's baseline is set once.  The code takes an ewma of 0 for "no
\* baseline yet", and an idle client's ewma decays; the rounding stops it at
\* 0.01, so a client that comes back is compared with its old baseline and
\* its burst is not taken for a new one.
BaselineKept == [][ewma # 0 => ewma' # 0]_vars

\* A flagged window is a rise: its rate is above the window's before it.
\* Steady traffic is never flagged, and a burst that goes on at the same rate
\* is flagged, and penalised, once: the variance it brought in covers it.
FlagsOnlyRises == [][Evaluate /\ flagged' => rate' > rate]_vars
=============================================================================
