------------------------- MODULE RateLimiterProofs -------------------------
(***************************************************************************)
(* The invariants of RateLimiter, for every limit, penalty, window and     *)
(* wait, any number of requests, penalties, flushes and lost links.        *)
(*                                                                         *)
(* The argument is one of accounts.  A history bucket p that is charged k  *)
(* shares per tick has, at time n, the worth Worth(p, k, n, r, s): what it *)
(* holds, the refill since its last charge, and what r rewound ticks have  *)
(* credited twice, less what the live bucket may still gain at the full    *)
(* rate before a penalty of time s begins.  The live bucket never holds    *)
(* more than the worth of its history at its own lastRefill.               *)
(***************************************************************************)
EXTENDS RateLimiter, FiniteSetTheorems, TLAPS

USE LimiterAssumption, LinkAssumption

Request == [now : Nat, held : BOOLEAN, capacity : {Capacity, PenaltyCapacity}]
History == [tokens : Int, lastRefill : Nat]
Live == {Absent} \cup [tokens : 0..(Capacity * Window), lastRefill : Nat]

\* The oldest reading that an evaluation may still use at time t.
First(q, t) == IF q = << >> THEN t ELSE q[1].now
Oldest == First(queue, clock)

Worth(p, k, n, r, s) ==
  p.tokens + k * (n - p.lastRefill) + Capacity * r - (Capacity - k) * AtLeast(0, s - n)

\* No evaluation with a reading of at least m fills bucket b beyond the worth
\* of p.  A bucket that is absent will be full, with k or, for a reading that
\* is not newer than s, with the configured capacity.
Covers(p, k, b, r, m, s) ==
  IF b = Absent
  THEN /\ k * Window <= Worth(p, k, m, r, s)
       /\ m <= s => Capacity * Window <= Worth(p, k, m, r, s)
  ELSE b.tokens <= Worth(p, k, b.lastRefill, r, s)

Solvent(p, k, r) == p.tokens <= k * Window /\ p.tokens >= -(Capacity * r)

\* The books h of a store whose rewound ticks are r: held says whether a
\* penalty is in force, and s when it began.
Sound(h, r, m, held, s) ==
  /\ h.bucket \in Live /\ h.ideal \in History /\ h.penal \in History
  /\ Solvent(h.ideal, Capacity, r) /\ Solvent(h.penal, PenaltyCapacity, r)
  /\ Covers(h.ideal, Capacity, h.bucket, r, m, 0)
  /\ held => \/ h.penal.tokens = PenaltyCapacity * Window /\ h.penal.lastRefill <= s
             \/ Covers(h.penal, PenaltyCapacity, h.bucket, r, m, s)

\* A request q that waits at time t.
Waiting(q, t, held, s) ==
  /\ q.now <= t
  /\ q.capacity = IF q.held THEN PenaltyCapacity ELSE Capacity
  /\ held /\ q.now > s => q.held

InOrder(q, t, held, s) ==
  /\ q \in Seq(Request)
  /\ \A i \in 1..Len(q) : Waiting(q[i], t, held, s)
  /\ \A i, j \in 1..Len(q) : i <= j => q[i].now <= q[j].now
  /\ q # << >> => t - q[1].now <= MaxWait

\* No bucket is from the future, and Redis keeps its own long enough.
Dated ==
  /\ \A s \in Stores : bucket[s] # Absent => bucket[s].lastRefill <= clock
  /\ bucket["redis"] # Absent => bucket["redis"].lastRefill + Window + Slack <= expires

\* How far back a reading of n puts a bucket.
Rewinds(b, n) == IF b = Absent THEN 0 ELSE AtLeast(0, b.lastRefill - n)

\* A lost link lets Redis be rewound by one wait, at once or when the oldest
\* request is sent again; memory is rewound by the queue of an ended link.
Limited ==
  /\ rewound["redis"] + Rewinds(bucket["redis"], Oldest) <= MaxWait * link.drops
  /\ rewound["memory"] <= (IF link.status = "end" THEN MaxWait ELSE 0)
  /\ link.status = "end" => queue = << >>

Typed ==
  /\ clock \in 0..MaxTime /\ link \in Link /\ expires \in Nat
  /\ penalty \in {NoPenalty} \cup Nat
  /\ rewound \in [Stores -> Nat] /\ since \in 0..clock
  /\ bucket \in [Stores -> Live]
  /\ ideal \in [Stores -> History] /\ penal \in [Stores -> History]

IInv ==
  /\ Typed /\ Dated /\ Limited /\ InOrder(queue, clock, Held, since)
  /\ \A s \in Stores : Sound(Books(s), rewound[s], Oldest, Held, since)

-----------------------------------------------------------------------------
(* Arithmetic.                                                             *)

LEMMA TimesMonotone ==
  ASSUME NEW k \in Nat, NEW a \in Int, NEW b \in Int, a <= b
  PROVE  k * a <= k * b
OBVIOUS

LEMMA TimesDifference ==
  ASSUME NEW k \in Int, NEW a \in Int, NEW b \in Int
  PROVE  k * a \in Int /\ k * (a - b) = k * a - k * b
OBVIOUS

LEMMA AtLeastInt ==
  ASSUME NEW a \in Int, NEW b \in Int
  PROVE  AtLeast(a, b) \in Int /\ AtLeast(a, b) >= a /\ AtLeast(a, b) >= b
BY DEF AtLeast

\* Worth grows by k per tick, and by Capacity per tick up to s.
LEMMA WorthGrows ==
  ASSUME NEW p \in History, NEW k \in Nat, k <= Capacity, NEW r \in Nat, NEW s \in Nat,
         NEW m \in Int, NEW n \in Int, m <= n
  PROVE  /\ Worth(p, k, m, r, s) \in Int
         /\ Worth(p, k, m, r, s) + k * (n - m) <= Worth(p, k, n, r, s)
         /\ n <= s => Worth(p, k, m, r, s) + Capacity * (n - m) <= Worth(p, k, n, r, s)
<1> DEFINE x == AtLeast(0, s - m)
           y == AtLeast(0, s - n)
           d == Capacity - k
<1>1. p.tokens \in Int /\ p.lastRefill \in Int BY DEF History
<1>2. x \in Int /\ y \in Int /\ y <= x /\ (n <= s => x - y = n - m) BY DEF AtLeast
<1>3. d \in Nat BY DEF d
<1>4. Worth(p, k, m, r, s) = p.tokens + k * (m - p.lastRefill) + Capacity * r - d * x
  BY DEF Worth
<1>5. Worth(p, k, n, r, s) = p.tokens + k * (n - p.lastRefill) + Capacity * r - d * y
  BY DEF Worth
<1> HIDE DEF x, y, d
<1>6. k * (n - p.lastRefill) = k * (m - p.lastRefill) + k * (n - m) BY <1>1
<1>7. d * y <= d * x /\ d * (x - y) = d * x - d * y BY <1>2, <1>3, TimesMonotone, TimesDifference
<1>8. /\ k * (n - p.lastRefill) \in Int /\ k * (m - p.lastRefill) \in Int /\ k * (n - m) \in Int
      /\ Capacity * r \in Int /\ d * x \in Int /\ d * y \in Int
  BY <1>1, <1>2, <1>3
<1>9. n <= s => d * (n - m) = d * x - d * y BY <1>2, <1>7
<1>10. d * (n - m) = Capacity * (n - m) - k * (n - m) BY DEF d
<1>11. Capacity * (n - m) \in Int OBVIOUS
<1>12. Worth(p, k, m, r, s) \in Int BY <1>1, <1>4, <1>8
<1>13. Worth(p, k, m, r, s) + k * (n - m) <= Worth(p, k, n, r, s)
  BY <1>1, <1>4, <1>5, <1>6, <1>7, <1>8
<1>14. n <= s => Worth(p, k, m, r, s) + Capacity * (n - m) <= Worth(p, k, n, r, s)
  BY <1>1, <1>4, <1>5, <1>6, <1>8, <1>9, <1>10, <1>11
<1> QED BY <1>12, <1>13, <1>14

LEMMA WorthInt ==
  ASSUME NEW p \in History, NEW k \in Nat, k <= Capacity, NEW r \in Nat, NEW s \in Nat,
         NEW n \in Nat
  PROVE  Worth(p, k, n, r, s) \in Int
<1>1. n <= n OBVIOUS
<1>2. n \in Int OBVIOUS
<1> QED BY <1>1, <1>2, WorthGrows

\* A reading that is older by d ticks rewinds as many, and their credit makes
\* up for it.
LEMMA WorthRewound ==
  ASSUME NEW p \in History, NEW k \in Nat, k <= Capacity, NEW r \in Nat, NEW s \in Nat,
         NEW m \in Int, NEW n \in Int, n <= m
  PROVE  Worth(p, k, m, r, s) <= Worth(p, k, n, r + (m - n), s)
<1> DEFINE x == AtLeast(0, s - m)
           y == AtLeast(0, s - n)
           d == Capacity - k
<1>1. p.tokens \in Int /\ p.lastRefill \in Int BY DEF History
<1>2. x \in Int /\ y \in Int /\ y - x <= m - n BY DEF AtLeast
<1>3. d \in Nat BY DEF d
<1>4. Worth(p, k, m, r, s) = p.tokens + k * (m - p.lastRefill) + Capacity * r - d * x
  BY DEF Worth
<1>5. Worth(p, k, n, r + (m - n), s)
        = p.tokens + k * (n - p.lastRefill) + Capacity * (r + (m - n)) - d * y
  BY DEF Worth
<1> HIDE DEF x, y, d
<1>6. k * (m - p.lastRefill) = k * (n - p.lastRefill) + k * (m - n) BY <1>1
<1>7. Capacity * (r + (m - n)) = Capacity * r + Capacity * (m - n) OBVIOUS
<1>8. d * (y - x) <= d * (m - n) /\ d * (y - x) = d * y - d * x
  BY <1>2, <1>3, TimesMonotone, TimesDifference
<1>9. d * (m - n) = Capacity * (m - n) - k * (m - n) BY DEF d
<1>10. /\ k * (n - p.lastRefill) \in Int /\ k * (m - p.lastRefill) \in Int /\ k * (m - n) \in Int
       /\ Capacity * r \in Int /\ d * x \in Int /\ d * y \in Int /\ Capacity * (m - n) \in Int
       /\ d * (m - n) \in Int
  BY <1>1, <1>2, <1>3
<1> QED BY <1>1, <1>4, <1>5, <1>6, <1>7, <1>8, <1>9, <1>10

-----------------------------------------------------------------------------
(* Evaluations.                                                            *)

LEMMA LiveBuckets ==
  ASSUME NEW b \in Live
  PROVE  b # Absent => /\ b.tokens \in Nat /\ b.tokens <= Capacity * Window
                       /\ b.lastRefill \in Nat
<1>1. Capacity * Window \in Nat OBVIOUS
<1> QED BY <1>1 DEF Live

\* What a bucket holds when it is read is within the capacity it is read with
\* and within what elapsed; it is never a debt.
LEMMA FilledBounds ==
  ASSUME NEW b \in Live, NEW c \in {Capacity, PenaltyCapacity}, NEW n \in Nat
  PROVE  /\ Filled(b, c, n) \in Nat /\ Filled(b, c, n) <= c * Window
         /\ c * Window <= Capacity * Window
         /\ b # Absent => Filled(b, c, n) <= b.tokens + c * AtLeast(0, n - b.lastRefill)
<1>1. c \in Nat /\ c <= Capacity OBVIOUS
<1>2. c * Window \in Nat /\ Window * c \in Nat /\ c * Window = Window * c BY <1>1
<1>3. Window * c <= Window * Capacity BY <1>1, TimesMonotone
<1>4. CASE b = Absent BY <1>1, <1>2, <1>3, <1>4 DEF Filled
<1>5. CASE b # Absent
  <2> DEFINE e == AtLeast(0, n - b.lastRefill)
  <2>1. b.tokens \in Nat /\ b.lastRefill \in Nat BY <1>5, LiveBuckets
  <2>2. e \in Nat BY <2>1 DEF AtLeast
  <2>3. Filled(b, c, n) = AtMost(c * Window, b.tokens + e * c) BY <1>5 DEF Filled
  <2> HIDE DEF e
  <2>4. e * c \in Nat /\ e * c = c * e BY <1>1, <2>2
  <2>5. Filled(b, c, n) \in Nat /\ Filled(b, c, n) <= c * Window
        /\ Filled(b, c, n) <= b.tokens + c * e
    BY <1>2, <2>1, <2>3, <2>4 DEF AtMost
  <2> QED BY <1>2, <1>3, <2>5 DEF e
<1> QED BY <1>4, <1>5

LEMMA EvaluatedLive ==
  ASSUME NEW b \in Live, NEW c \in {Capacity, PenaltyCapacity}, NEW n \in Nat
  PROVE  /\ Evaluated(b, c, n) \in Live /\ Evaluated(b, c, n) # Absent
         /\ Evaluated(b, c, n).lastRefill = n
         /\ Evaluated(b, c, n).tokens \in Nat
         /\ Evaluated(b, c, n).tokens <= Filled(b, c, n)
         /\ Allows(b, c, n) => Evaluated(b, c, n).tokens = Filled(b, c, n) - Window
<1>1. /\ Filled(b, c, n) \in Nat /\ Filled(b, c, n) <= Capacity * Window
      /\ Capacity * Window \in Nat
  <2>1. c * Window \in Nat /\ Capacity * Window \in Nat OBVIOUS
  <2> QED BY <2>1, FilledBounds
<1> DEFINE t == Filled(b, c, n) - (IF Allows(b, c, n) THEN Window ELSE 0)
<1>2. t \in 0..(Capacity * Window) /\ t <= Filled(b, c, n)
      /\ (Allows(b, c, n) => t = Filled(b, c, n) - Window)
  BY <1>1 DEF Allows
<1>3. Evaluated(b, c, n) = [tokens |-> t, lastRefill |-> n] BY DEF Evaluated
<1> HIDE DEF t
<1>4. Evaluated(b, c, n) \in Live BY <1>2, <1>3 DEF Live
<1>5. Evaluated(b, c, n) # Absent BY <1>3 DEF Absent
<1> QED BY <1>1, <1>2, <1>3, <1>4, <1>5

LEMMA AbsentBucket == Absent.tokens = -1 /\ Absent.lastRefill = -1
BY DEF Absent

\* The books of an absent bucket and of one that is present.
LEMMA CoversFull ==
  ASSUME NEW p \in History, NEW k \in Nat, k <= Capacity, NEW r \in Nat, NEW s \in Nat,
         NEW m \in Nat, NEW b \in Live, Covers(p, k, b, r, m, s),
         NEW c \in {Capacity, PenaltyCapacity}, NEW n \in Nat, m <= n, c <= k \/ n <= s,
         NEW v, v = r + Rewinds(b, n)
  PROVE  Filled(b, c, n) <= Worth(p, k, n, v, s)
<1> DEFINE w(x, y) == Worth(p, k, x, y, s)
<1>1. c \in Nat /\ c <= Capacity /\ k * Window \in Nat /\ c * Window \in Nat
      /\ Capacity * Window \in Nat
  OBVIOUS
<1>2. Filled(b, c, n) \in Nat /\ Filled(b, c, n) <= c * Window /\ c * Window <= Capacity * Window
      /\ (b # Absent => Filled(b, c, n) <= b.tokens + c * AtLeast(0, n - b.lastRefill))
  BY FilledBounds
<1>3. \A x \in Nat, y \in Nat : w(x, y) \in Int BY WorthInt
<1>4. CASE b = Absent
  <2>1. v = r BY <1>4 DEF Rewinds
  <2>2. w(m, r) <= w(n, r)
    <3>1. w(m, r) + k * (n - m) <= w(n, r) BY WorthGrows
    <3>2. k * (n - m) \in Nat OBVIOUS
    <3> HIDE DEF w
    <3> QED BY <1>3, <3>1, <3>2
  <2>3. k * Window <= w(m, r) /\ (m <= s => Capacity * Window <= w(m, r))
    BY <1>4 DEF Covers
  <2>4. CASE c <= k
    <3>1. c * Window <= k * Window
      <4>1. Window * c <= Window * k BY <2>4, <1>1, TimesMonotone
      <4> QED BY <4>1, <1>1
    <3> HIDE DEF w
    <3> QED BY <1>1, <1>2, <1>3, <2>1, <2>2, <2>3, <3>1 DEF w
  <2>5. CASE n <= s
    <3>1. m <= s BY <2>5
    <3> HIDE DEF w
    <3> QED BY <1>1, <1>2, <1>3, <2>1, <2>2, <2>3, <3>1 DEF w
  <2> QED BY <2>4, <2>5
<1>5. CASE b # Absent
  <2> DEFINE l == b.lastRefill
  <2>1. b.tokens \in Nat /\ l \in Nat BY <1>5, LiveBuckets
  <2>2. b.tokens <= w(l, r) BY <1>5 DEF Covers
  <2> HIDE DEF l
  <2>3. CASE l <= n
    <3>1. Rewinds(b, n) = 0 /\ AtLeast(0, n - l) = n - l
      BY <1>5, <2>1, <2>3 DEF Rewinds, AtLeast, l
    <3>2. Filled(b, c, n) <= b.tokens + c * (n - l) BY <1>2, <1>5, <3>1 DEF l
    <3>3. w(l, r) + c * (n - l) <= w(n, r)
      <4>1. w(l, r) + k * (n - l) <= w(n, r) BY <2>1, <2>3, WorthGrows, SMTT(20)
      <4>2. n <= s => w(l, r) + Capacity * (n - l) <= w(n, r)
        BY <2>1, <2>3, WorthGrows, SMTT(20)
      <4>3. n - l \in Nat BY <2>1, <2>3
      <4>4. /\ c * (n - l) \in Nat /\ k * (n - l) \in Nat /\ Capacity * (n - l) \in Nat
            /\ c * (n - l) <= Capacity * (n - l) /\ (c <= k => c * (n - l) <= k * (n - l))
        <5>1. (n - l) * c <= (n - l) * Capacity /\ (c <= k => (n - l) * c <= (n - l) * k)
          BY <1>1, <4>3, TimesMonotone
        <5> QED BY <1>1, <4>3, <5>1
      <4>5. w(l, r) \in Int /\ w(n, r) \in Int BY <1>3, <2>1
      <4> HIDE DEF w
      <4> QED BY <4>1, <4>2, <4>4, <4>5
    <3>4. w(l, r) \in Int /\ w(n, r) \in Int /\ c * (n - l) \in Int BY <1>1, <1>3, <2>1
    <3>5. w(n, r) = Worth(p, k, n, v, s) BY <3>1
    <3> HIDE DEF w
    <3> QED BY <1>2, <2>1, <2>2, <3>2, <3>3, <3>4, <3>5
  <2>4. CASE n < l
    <3>1. Rewinds(b, n) = l - n /\ AtLeast(0, n - l) = 0
      BY <1>5, <2>1, <2>4 DEF Rewinds, AtLeast, l
    <3>2. Filled(b, c, n) <= b.tokens BY <1>1, <1>2, <1>5, <2>1, <3>1 DEF l
    <3>3. w(l, r) <= w(n, r + (l - n)) BY <2>1, <2>4, WorthRewound
    <3>4. w(l, r) \in Int /\ w(n, r + (l - n)) \in Int BY <1>3, <2>1, <2>4
    <3>5. w(n, r + (l - n)) = Worth(p, k, n, v, s) BY <3>1
    <3> HIDE DEF w
    <3> QED BY <1>2, <2>1, <2>2, <3>2, <3>3, <3>4, <3>5
  <2> QED BY <2>1, <2>3, <2>4
<1> QED BY <1>4, <1>5

\* A history that has not been charged is worth a full bucket.
LEMMA FreshStart ==
  ASSUME NEW p \in History, NEW k \in Nat, k <= Capacity, NEW r \in Nat, NEW s \in Nat,
         NEW n \in Nat, s <= n, p.tokens = k * Window, p.lastRefill <= n
  PROVE  k * Window <= Worth(p, k, n, r, s)
<1>1. p.lastRefill \in Nat BY DEF History
<1>2. AtLeast(0, s - n) = 0 BY DEF AtLeast
<1>3. n - p.lastRefill \in Nat BY <1>1
<1>4. Worth(p, k, n, r, s) = k * Window + k * (n - p.lastRefill) + Capacity * r - (Capacity - k) * 0
  BY <1>2 DEF Worth
<1>5. k * (n - p.lastRefill) \in Nat /\ Capacity * r \in Nat /\ (Capacity - k) * 0 = 0
      /\ k * Window \in Nat
  BY <1>3
<1> QED BY <1>4, <1>5

\* A history is charged for a grant: it stays solvent, and covers what the
\* grant leaves of f.
LEMMA SpentCovers ==
  ASSUME NEW p \in History, NEW k \in Nat, k <= Capacity, NEW r \in Nat, NEW s \in Nat,
         NEW n \in Nat, k = Capacity \/ s <= n, p.tokens <= k * Window,
         NEW f \in Nat, f <= k * Window, Window <= f, f <= Worth(p, k, n, r, s)
  PROVE  /\ Spent(p, k, n) \in History /\ Solvent(Spent(p, k, n), k, r)
         /\ f - Window <= Worth(Spent(p, k, n), k, n, r, s)
<1> DEFINE l == p.lastRefill
           e == AtLeast(0, n - l)
           t == AtMost(k * Window, p.tokens + e * k)
           a == Spent(p, k, n)
           g == (Capacity - k) * AtLeast(0, s - n)
<1>1. p.tokens \in Int /\ l \in Nat BY DEF History
<1>2. k * Window \in Nat /\ Capacity * r \in Nat OBVIOUS
<1>3. e \in Nat /\ (l <= n => e = n - l) /\ (n < l => e = 0) BY <1>1 DEF AtLeast
<1>4. e * k \in Nat /\ e * k = k * e BY <1>3
<1>5. t \in Int /\ t <= k * Window /\ t <= p.tokens + e * k /\ (t = k * Window \/ t = p.tokens + e * k)
  BY <1>1, <1>2, <1>4 DEF AtMost
<1>6. a.tokens = t - Window /\ a.lastRefill = AtLeast(l, n) /\ a \in History
  <2>1. a = [tokens |-> t - Window, lastRefill |-> AtLeast(l, n)] BY DEF Spent
  <2>2. AtLeast(l, n) \in Nat BY <1>1 DEF AtLeast
  <2>3. t - Window \in Int BY <1>5
  <2> HIDE DEF t
  <2> QED BY <2>1, <2>2, <2>3 DEF History
<1>7. g = 0
  <2>1. CASE k = Capacity
    <3>1. AtLeast(0, s - n) \in Int BY AtLeastInt
    <3> QED BY <2>1, <3>1
  <2>2. CASE s <= n
    <3>1. AtLeast(0, s - n) = 0 BY <2>2 DEF AtLeast
    <3> QED BY <3>1
  <2> QED BY <2>1, <2>2
<1>8. Worth(p, k, n, r, s) = p.tokens + k * (n - l) + Capacity * r - g BY DEF Worth
<1>9. Worth(a, k, n, r, s) = t - Window + k * (n - AtLeast(l, n)) + Capacity * r - g
  BY <1>6 DEF Worth
<1> HIDE DEF t, g, a, e, l
<1>10. f <= p.tokens + k * (n - l) + Capacity * r BY <1>1, <1>2, <1>7, <1>8
<1>11. CASE l <= n
  <2>1. AtLeast(l, n) = n /\ k * (n - n) = 0 BY <1>1, <1>11 DEF AtLeast
  <2>2. k * (n - l) = k * e BY <1>3, <1>11
  <2>3. f <= t + Capacity * r BY <1>1, <1>2, <1>4, <1>5, <1>10, <2>2
  <2>4. Worth(a, k, n, r, s) = t - Window + Capacity * r BY <1>2, <1>5, <1>7, <1>9, <2>1
  <2>5. Solvent(a, k, r) BY <1>2, <1>5, <1>6, <2>3 DEF Solvent
  <2>6. f - Window <= Worth(a, k, n, r, s) BY <1>2, <1>5, <2>3, <2>4
  <2> QED BY <1>6, <2>5, <2>6 DEF a
<1>12. CASE n < l
  <2>1. AtLeast(l, n) = l BY <1>1, <1>12 DEF AtLeast
  <2>2. e * k = 0 BY <1>3, <1>12
  <2>3. t = p.tokens BY <1>1, <1>2, <1>5, <2>2
  <2>4. k * (n - l) \in Int /\ k * (n - l) <= 0
    <3>1. n - l \in Int /\ n - l <= 0 BY <1>1, <1>12
    <3>2. k * (n - l) <= k * 0 BY <3>1, TimesMonotone
    <3> QED BY <3>1, <3>2
  <2>5. Worth(a, k, n, r, s) = t - Window + k * (n - l) + Capacity * r
    BY <1>2, <1>5, <1>7, <1>9, <2>1, <2>4
  <2>6. Solvent(a, k, r) BY <1>1, <1>2, <1>5, <1>6, <1>10, <2>3, <2>4 DEF Solvent
  <2>7. f - Window <= Worth(a, k, n, r, s) BY <1>1, <1>2, <1>10, <2>3, <2>4, <2>5
  <2> QED BY <1>6, <2>6, <2>7 DEF a
<1> QED BY <1>1, <1>11, <1>12

LEMMA SolventLater ==
  ASSUME NEW p \in History, NEW k \in Nat, NEW r \in Nat, NEW v \in Nat, r <= v,
         Solvent(p, k, r)
  PROVE  Solvent(p, k, v)
<1>1. p.tokens \in Int BY DEF History
<1>2. Capacity * r <= Capacity * v /\ Capacity * r \in Nat /\ Capacity * v \in Nat
  BY TimesMonotone
<1> QED BY <1>1, <1>2 DEF Solvent

\* As readings grow older no further back, an account keeps its cover.
LEMMA CoversLater ==
  ASSUME NEW p \in History, NEW k \in Nat, k <= Capacity, NEW r \in Nat, NEW s \in Nat,
         NEW v \in Nat, r <= v,
         NEW m \in Nat, NEW n \in Nat, m <= n, NEW b \in Live, Covers(p, k, b, r, m, s)
  PROVE  Covers(p, k, b, v, n, s)
<1>1. \A x \in Nat : /\ Worth(p, k, x, r, s) \in Int /\ Worth(p, k, x, v, s) \in Int
                     /\ Worth(p, k, x, r, s) <= Worth(p, k, x, v, s)
  <2> TAKE x \in Nat
  <2>1. Worth(p, k, x, r, s) \in Int /\ Worth(p, k, x, v, s) \in Int
    BY WorthInt
  <2> DEFINE y == p.tokens + k * (x - p.lastRefill)
             z == (Capacity - k) * AtLeast(0, s - x)
  <2>2. Worth(p, k, x, r, s) = y + Capacity * r - z
        /\ Worth(p, k, x, v, s) = y + Capacity * v - z
    BY DEF Worth
  <2>3. y \in Int /\ z \in Int
    <3>1. p.tokens \in Int /\ p.lastRefill \in Nat BY DEF History
    <3>2. AtLeast(0, s - x) \in Int BY AtLeastInt
    <3>3. k * (x - p.lastRefill) \in Int BY <3>1
    <3>4. (Capacity - k) * AtLeast(0, s - x) \in Int BY <3>2
    <3> QED BY <3>1, <3>3, <3>4
  <2>4. Capacity * r <= Capacity * v /\ Capacity * r \in Nat /\ Capacity * v \in Nat
    BY TimesMonotone
  <2> HIDE DEF y, z
  <2> QED BY <2>1, <2>2, <2>3, <2>4
<1>2. CASE b = Absent
  <2>1. Worth(p, k, m, v, s) + k * (n - m) <= Worth(p, k, n, v, s) BY WorthGrows
  <2>2. k * (n - m) \in Nat OBVIOUS
  <2>3. Worth(p, k, m, r, s) <= Worth(p, k, n, v, s) BY <1>1, <2>1, <2>2
  <2>4. k * Window \in Nat /\ Capacity * Window \in Nat OBVIOUS
  <2>5. k * Window <= Worth(p, k, m, r, s)
        /\ (m <= s => Capacity * Window <= Worth(p, k, m, r, s))
    BY <1>2 DEF Covers
  <2>6. n <= s => m <= s OBVIOUS
  <2>7. k * Window <= Worth(p, k, n, v, s)
        /\ (n <= s => Capacity * Window <= Worth(p, k, n, v, s))
    BY <1>1, <2>3, <2>4, <2>5, <2>6
  <2> QED BY <1>2, <2>7 DEF Covers
<1>3. CASE b # Absent
  <2>1. b.tokens \in Nat /\ b.lastRefill \in Nat BY <1>3, LiveBuckets
  <2>2. b.tokens <= Worth(p, k, b.lastRefill, r, s) BY <1>3 DEF Covers
  <2>3. b.tokens <= Worth(p, k, b.lastRefill, v, s) BY <1>1, <2>1, <2>2
  <2> QED BY <1>3, <2>3 DEF Covers
<1> QED BY <1>2, <1>3

\* A bucket that has been idle for a window may be forgotten.
LEMMA CoversForgotten ==
  ASSUME NEW p \in History, NEW k \in Nat, k <= Capacity, NEW r \in Nat, NEW s \in Nat,
         NEW o \in Nat, NEW m \in Nat,
         NEW b \in Live, b # Absent, Covers(p, k, b, r, o, s), b.lastRefill + Window <= m
  PROVE  Covers(p, k, Absent, r, m, s)
<1> DEFINE l == b.lastRefill
<1>1. b.tokens \in Nat /\ l \in Nat BY LiveBuckets
<1>2. b.tokens <= Worth(p, k, l, r, s) BY DEF Covers
<1> HIDE DEF l
<1>3. l <= m /\ m - l \in Nat /\ Window <= m - l BY <1>1 DEF l
<1>4. Worth(p, k, l, r, s) + k * (m - l) <= Worth(p, k, m, r, s) BY <1>1, <1>3, WorthGrows
<1>5. m <= s => Worth(p, k, l, r, s) + Capacity * (m - l) <= Worth(p, k, m, r, s)
  BY <1>1, <1>3, WorthGrows
<1>6. k * Window <= k * (m - l) /\ Capacity * Window <= Capacity * (m - l)
  BY <1>3, TimesMonotone
<1>7. /\ k * Window \in Nat /\ k * (m - l) \in Nat
      /\ Capacity * Window \in Nat /\ Capacity * (m - l) \in Nat
  BY <1>3
<1>8. Worth(p, k, l, r, s) \in Int /\ Worth(p, k, m, r, s) \in Int
  BY <1>1, WorthInt
<1>9. k * Window <= Worth(p, k, m, r, s) BY <1>1, <1>2, <1>4, <1>6, <1>7, <1>8
<1>10. m <= s => Capacity * Window <= Worth(p, k, m, r, s)
  BY <1>1, <1>2, <1>5, <1>6, <1>7, <1>8
<1> QED BY <1>9, <1>10 DEF Covers

-----------------------------------------------------------------------------
(* Decisions.                                                              *)

LEMMA RequestTypes ==
  ASSUME NEW q \in Request
  PROVE  q.now \in Nat /\ q.held \in BOOLEAN /\ q.capacity \in {Capacity, PenaltyCapacity}
BY DEF Request

\* One decision keeps the books of its store sound, whatever penalty began
\* since the request arrived.
LEMMA SoundDecide ==
  ASSUME NEW h, NEW r \in Nat, NEW m \in Nat, since \in Nat, NEW answered,
         Sound(h, r, m, Held, since),
         NEW q \in Request, Waiting(q, clock, Held, since), m <= q.now,
         NEW v, v = r + Rewinds(h.bucket, q.now)
  PROVE  /\ Sound(Decide(h, q, answered), v, m, Held, since)
         /\ Decide(h, q, answered).bucket # Absent /\ Decide(h, q, answered).bucket.lastRefill = q.now
<1> DEFINE b == h.bucket
           n == q.now
           c == q.capacity
           f == Filled(b, c, n)
           granted == answered /\ Allows(b, c, n)
           d == Decide(h, q, answered)
<1>1. n \in Nat /\ c \in {Capacity, PenaltyCapacity} BY RequestTypes
<1>2. b \in Live /\ h.ideal \in History /\ h.penal \in History BY DEF Sound
<1>3. Rewinds(b, n) \in Nat /\ v \in Nat /\ r <= v
  <2>1. CASE b = Absent BY <2>1 DEF Rewinds
  <2>2. CASE b # Absent
    <3>1. b.lastRefill \in Nat BY <1>2, <2>2, LiveBuckets
    <3>2. AtLeast(0, b.lastRefill - n) \in Nat BY <1>1, <3>1 DEF AtLeast
    <3> QED BY <2>2, <3>2 DEF Rewinds
  <2> QED BY <2>1, <2>2
<1>4. f \in Nat /\ f <= c * Window /\ f <= Capacity * Window
  <2>1. c * Window \in Nat /\ Capacity * Window \in Nat BY <1>1
  <2> QED BY <1>1, <1>2, <2>1, FilledBounds
<1>5. granted => Window <= f BY <1>4 DEF Allows
<1>6. /\ d.bucket = Evaluated(b, c, n)
      /\ d.ideal = IF granted THEN Spent(h.ideal, Capacity, n) ELSE h.ideal
      /\ d.penal = IF granted /\ UnderPenalty(q) THEN Spent(h.penal, PenaltyCapacity, n)
                   ELSE h.penal
  BY DEF Decide
<1>7. /\ d.bucket \in Live /\ d.bucket # Absent /\ d.bucket.lastRefill = n
      /\ d.bucket.tokens \in Nat /\ d.bucket.tokens <= f
      /\ granted => d.bucket.tokens = f - Window
  <2> HIDE DEF b, n, c, d
  <2>1. /\ Evaluated(b, c, n) \in Live /\ Evaluated(b, c, n) # Absent
        /\ Evaluated(b, c, n).lastRefill = n
        /\ Evaluated(b, c, n).tokens \in Nat
        /\ Evaluated(b, c, n).tokens <= Filled(b, c, n)
        /\ Allows(b, c, n) => Evaluated(b, c, n).tokens = Filled(b, c, n) - Window
    <3>1. b \in Live /\ c \in {Capacity, PenaltyCapacity} /\ n \in Nat BY <1>1, <1>2
    <3> QED BY ONLY <3>1, EvaluatedLive
  <2> QED BY <1>6, <2>1
<1>8. Capacity \in Nat /\ PenaltyCapacity \in Nat /\ PenaltyCapacity <= Capacity OBVIOUS
<1>9. c <= Capacity BY <1>1
<1>10. d.ideal \in History /\ Solvent(d.ideal, Capacity, v)
       /\ Covers(d.ideal, Capacity, d.bucket, v, m, 0)
  <2>1. Covers(h.ideal, Capacity, b, r, m, 0) /\ Solvent(h.ideal, Capacity, r) BY DEF Sound
  <2>2. f <= Worth(h.ideal, Capacity, n, v, 0)
    <3>1. /\ h.ideal \in History /\ b \in Live /\ n \in Nat /\ c \in {Capacity, PenaltyCapacity}
          /\ Capacity \in Nat /\ Capacity <= Capacity /\ r \in Nat /\ 0 \in Nat /\ m \in Nat
          /\ Covers(h.ideal, Capacity, b, r, m, 0) /\ m <= n /\ c <= Capacity
          /\ v = r + Rewinds(b, n)
      BY <1>1, <1>2, <1>9, <2>1
    <3> HIDE DEF b, n, c
    <3> QED BY ONLY <3>1, CoversFull DEF f
  <2> HIDE DEF f, b, n, c, d, granted
  <2>3. Worth(h.ideal, Capacity, n, v, 0) \in Int
    <3>1. 0 \in Nat /\ Capacity <= Capacity OBVIOUS
    <3> QED BY <1>1, <1>2, <1>3, <3>1, WorthInt
  <2>4. CASE granted
    <3>1. h.ideal.tokens <= Capacity * Window BY <2>1 DEF Solvent
    <3>2. Window <= f BY <1>5, <2>4
    <3>3. /\ Spent(h.ideal, Capacity, n) \in History
          /\ Solvent(Spent(h.ideal, Capacity, n), Capacity, v)
          /\ f - Window <= Worth(Spent(h.ideal, Capacity, n), Capacity, n, v, 0)
      <4>1. /\ h.ideal \in History /\ n \in Nat /\ v \in Nat /\ f \in Nat
            /\ Capacity \in Nat /\ Capacity <= Capacity /\ 0 \in Nat
            /\ f <= Capacity * Window /\ f <= Worth(h.ideal, Capacity, n, v, 0)
        BY <1>1, <1>2, <1>3, <1>4, <2>2
      <4> QED BY ONLY <4>1, <3>1, <3>2, SpentCovers
    <3> QED BY <1>6, <1>7, <2>4, <3>3 DEF Covers
  <2>5. CASE ~granted
    <3>1. Solvent(h.ideal, Capacity, v) BY <1>2, <1>3, <1>8, <2>1, SolventLater
    <3>2. d.bucket.tokens <= Worth(h.ideal, Capacity, n, v, 0) BY <1>4, <1>7, <2>2, <2>3
    <3> QED BY <1>2, <1>6, <1>7, <2>5, <3>1, <3>2 DEF Covers
  <2> QED BY <2>4, <2>5
<1>11. d.penal \in History /\ Solvent(d.penal, PenaltyCapacity, v)
       /\ (Held => \/ d.penal.tokens = PenaltyCapacity * Window /\ d.penal.lastRefill <= since
                   \/ Covers(d.penal, PenaltyCapacity, d.bucket, v, m, since))
  <2> DEFINE k == PenaltyCapacity
             p == h.penal
             fresh == p.tokens = k * Window /\ p.lastRefill <= since
  <2>1. Solvent(p, k, r) /\ (Held => fresh \/ Covers(p, k, b, r, m, since)) BY DEF Sound
  <2>2. Solvent(p, k, v) BY <1>2, <1>3, <1>8, <2>1, SolventLater
  <2>3. /\ n <= clock /\ (Held /\ n > since => q.held)
        /\ c = IF q.held THEN PenaltyCapacity ELSE Capacity
    BY DEF Waiting
  <2>4. Held => c <= k \/ n <= since BY <1>1, <2>3
  <2>5. ASSUME Held, Covers(p, k, b, r, m, since)
        PROVE  f <= Worth(p, k, n, v, since)
    <3>1. c <= k \/ n <= since BY <2>4, <2>5
    <3>2. /\ p \in History /\ b \in Live /\ n \in Nat /\ c \in {Capacity, PenaltyCapacity}
          /\ k \in Nat /\ k <= Capacity /\ r \in Nat /\ since \in Nat /\ m \in Nat
          /\ Covers(p, k, b, r, m, since) /\ m <= n /\ v = r + Rewinds(b, n)
      BY <1>1, <1>2, <1>8, <2>5
    <3> HIDE DEF b, n, c, p, k
    <3> QED BY ONLY <3>1, <3>2, CoversFull DEF f
  <2> HIDE DEF f, b, n, c, d, granted, p
  <2>6. p \in History BY <1>2 DEF p
  <2>7. CASE granted /\ UnderPenalty(q)
    <3>1. Held /\ q.held /\ since <= n
      <4>1. n >= since /\ Held /\ q.held BY <2>7 DEF UnderPenalty, n
      <4> QED BY <1>1, <4>1
    <3>2. c = k BY <2>3, <3>1
    <3>3. f <= Worth(p, k, n, v, since)
      <4>1. CASE fresh
        <5>1. k * Window <= Worth(p, k, n, v, since)
          <6>1. p.lastRefill \in Nat BY <2>6 DEF History
          <6>2. p.lastRefill <= n BY <1>1, <3>1, <4>1, <6>1
          <6> QED BY <1>1, <1>3, <1>8, <2>6, <3>1, <4>1, <6>2, FreshStart
        <5>2. Worth(p, k, n, v, since) \in Int /\ k * Window \in Nat
          BY <1>1, <1>3, <1>8, <2>6, WorthInt
        <5> HIDE DEF k
        <5> QED BY <1>4, <3>2, <5>1, <5>2
      <4> QED BY <2>1, <2>5, <3>1, <4>1
    <3>4. p.tokens <= k * Window /\ f <= k * Window /\ Window <= f
      BY <1>4, <1>5, <2>2, <2>7, <3>2 DEF Solvent
    <3>5. /\ Spent(p, k, n) \in History /\ Solvent(Spent(p, k, n), k, v)
          /\ f - Window <= Worth(Spent(p, k, n), k, n, v, since)
      BY <1>1, <1>3, <1>4, <1>8, <2>6, <3>1, <3>3, <3>4, SpentCovers
    <3>6. d.penal = Spent(p, k, n) /\ d.bucket.tokens = f - Window
      BY <1>6, <1>7, <2>7 DEF p
    <3>7. Covers(d.penal, k, d.bucket, v, m, since) BY <1>7, <3>5, <3>6 DEF Covers
    <3> QED BY <3>5, <3>6, <3>7
  <2>8. CASE ~(granted /\ UnderPenalty(q))
    <3>1. d.penal = p BY <1>6, <2>8 DEF p
    <3>2. ASSUME Held, Covers(p, k, b, r, m, since)
          PROVE  Covers(d.penal, k, d.bucket, v, m, since)
      <4>1. f <= Worth(p, k, n, v, since) BY <2>5, <3>2
      <4>2. Worth(p, k, n, v, since) \in Int BY <1>1, <1>3, <1>8, <2>6, WorthInt
      <4>3. d.bucket.tokens <= Worth(p, k, n, v, since) BY <1>4, <1>7, <4>1, <4>2
      <4> QED BY <1>7, <3>1, <4>3 DEF Covers
    <3> QED BY <2>1, <2>2, <2>6, <3>1, <3>2
  <2> QED BY <2>7, <2>8
<1> QED BY <1>3, <1>7, <1>10, <1>11 DEF Sound

LEMMA LeastNumber ==
  ASSUME NEW T \in SUBSET Nat, T # {}
  PROVE  \E m \in T : \A k \in T : m <= k
<1> DEFINE R == OpToRel(<, Nat)
<1>1. IsWellFoundedOn(R, Nat) BY NatLessThanWellFounded
<1>2. \A x, y \in Nat : x < y => <<x, y>> \in R BY DEF OpToRel
<1> HIDE DEF R
<1>3. PICK x \in T : \A y \in T : ~ (<<y, x>> \in R) BY <1>1, WFMin
<1>4. \A y \in T : ~ (y < x) BY <1>2, <1>3
<1> QED BY <1>4

\* Induction over the numbers, stated with a set.
LEMMA SetInduction ==
  ASSUME NEW S, 0 \in S, \A n \in Nat : n \in S => n + 1 \in S
  PROVE  Nat \subseteq S
<1> DEFINE T == {n \in Nat : n \notin S}
<1>1. SUFFICES ASSUME T # {} PROVE FALSE
  OBVIOUS
<1>2. PICK m \in T : \A k \in T : m <= k BY <1>1, LeastNumber
<1>3. m \in Nat \ {0} OBVIOUS
<1>4. m - 1 \in Nat /\ m - 1 \notin T BY <1>2, <1>3
<1>5. m - 1 \in S BY <1>4
<1> QED BY <1>4, <1>5

\* The books after each of the requests, as a function.
LEMMA AfterSteps ==
  ASSUME NEW s, NEW qs, NEW answered, Len(qs) \in Nat
  PROVE  \E a : /\ a[0] = Books(s)
                /\ \A k \in 1..Len(qs) : a[k] = Decide(a[k - 1], qs[k], answered)
                /\ After(s, qs, answered) = a[Len(qs)]
<1> DEFINE N == Len(qs)
           Run(g, n) == /\ g[0] = Books(s)
                        /\ \A k \in 1..n : g[k] = Decide(g[k - 1], qs[k], answered)
           T == {n \in Nat : \E g : Run(g, n)}
           body(g) == [k \in 0..N |-> IF k = 0 THEN Books(s) ELSE Decide(g[k - 1], qs[k], answered)]
           a == CHOOSE g : g = body(g)
<1>1. 0 \in T
  <2> DEFINE g == [k \in 0..0 |-> Books(s)]
  <2>1. Run(g, 0) OBVIOUS
  <2> QED BY <2>1
<1>2. ASSUME NEW n \in Nat, n \in T PROVE n + 1 \in T
  <2>1. PICK g : Run(g, n) BY <1>2
  <2> DEFINE h == [k \in 0..(n + 1) |-> IF k = n + 1 THEN Decide(g[n], qs[n + 1], answered) ELSE g[k]]
  <2>2. h[0] = Books(s) BY <2>1
  <2>3. \A k \in 1..(n + 1) : h[k] = Decide(h[k - 1], qs[k], answered)
    <3> TAKE k \in 1..(n + 1)
    <3>1. CASE k = n + 1
      <4>1. h[k] = Decide(g[n], qs[n + 1], answered) /\ h[k - 1] = g[n] BY <3>1
      <4> QED BY <3>1, <4>1
    <3>2. CASE k # n + 1
      <4>1. k \in 1..n /\ h[k] = g[k] /\ h[k - 1] = g[k - 1] BY <3>2
      <4>2. g[k] = Decide(g[k - 1], qs[k], answered) BY <2>1, <4>1
      <4> QED BY <4>1, <4>2
    <3> QED BY <3>1, <3>2
  <2> HIDE DEF h
  <2>4. Run(h, n + 1) BY <2>2, <2>3
  <2>5. \E e : Run(e, n + 1) BY <2>4
  <2> QED BY <2>5
<1> HIDE DEF T
<1>3. N \in T BY <1>1, <1>2, SetInduction
<1>4. PICK g : Run(g, N) BY <1>3 DEF T
<1> DEFINE f == [k \in 0..N |-> g[k]]
<1>5. f = body(f)
  <2>1. \A k \in 0..N : f[k] = IF k = 0 THEN Books(s) ELSE Decide(f[k - 1], qs[k], answered)
    <3> TAKE k \in 0..N
    <3>1. CASE k = 0 BY <1>4, <3>1
    <3>2. CASE k # 0
      <4>1. k \in 1..N /\ f[k] = g[k] /\ f[k - 1] = g[k - 1] BY <3>2
      <4>2. g[k] = Decide(g[k - 1], qs[k], answered) BY <1>4, <4>1
      <4> QED BY <3>2, <4>1, <4>2
    <3> QED BY <3>1, <3>2
  <2> QED BY <2>1
<1>6. a = body(a) BY <1>5
<1>7. After(s, qs, answered) = a[N] BY DEF After
<1> HIDE DEF a
<1>8. a[0] = Books(s)
  <2>1. 0 \in 0..N OBVIOUS
  <2>2. body(a)[0] = Books(s) BY <2>1
  <2> QED BY <1>6, <2>2
<1>9. \A k \in 1..N : a[k] = Decide(a[k - 1], qs[k], answered)
  <2> TAKE k \in 1..N
  <2>1. k \in 0..N /\ k # 0 OBVIOUS
  <2>2. body(a)[k] = Decide(a[k - 1], qs[k], answered) BY <2>1
  <2> QED BY <1>6, <2>2
<1> QED BY <1>7, <1>8, <1>9

LEMMA AfterOne ==
  ASSUME NEW s, NEW q, NEW answered
  PROVE  After(s, <<q>>, answered) = Decide(Books(s), q, answered)
<1>1. Len(<<q>>) = 1 /\ <<q>>[1] = q OBVIOUS
<1> DEFINE qs == <<q>>
<1> HIDE DEF qs
<1>2. PICK a : /\ a[0] = Books(s)
               /\ \A k \in 1..Len(qs) : a[k] = Decide(a[k - 1], qs[k], answered)
               /\ After(s, qs, answered) = a[Len(qs)]
  <2>1. Len(qs) \in Nat BY <1>1 DEF qs
  <2> QED BY <2>1, AfterSteps
<1>3. Len(qs) = 1 /\ qs[1] = q BY <1>1 DEF qs
<1>4. a[1] = Decide(a[1 - 1], qs[1], answered) BY <1>2, <1>3
<1> QED BY <1>2, <1>3, <1>4 DEF qs

LEMMA DecideRewinds ==
  ASSUME NEW h, NEW q, NEW answered, h.rewound \in Nat
  PROVE  Decide(h, q, answered).rewound = h.rewound + Rewinds(h.bucket, q.now)
<1>1. CASE h.bucket = Absent BY <1>1 DEF Decide, Rewinds
<1>2. CASE h.bucket # Absent BY <1>2 DEF Decide, Rewinds
<1> QED BY <1>1, <1>2

LEMMA RewindsNat ==
  ASSUME NEW b \in Live, NEW n \in Nat
  PROVE  Rewinds(b, n) \in Nat
<1>1. CASE b = Absent BY <1>1 DEF Rewinds
<1>2. CASE b # Absent
  <2>1. b.lastRefill \in Nat BY <1>2, LiveBuckets
  <2>2. AtLeast(0, b.lastRefill - n) \in Nat BY <2>1 DEF AtLeast
  <2> QED BY <1>2, <2>2 DEF Rewinds
<1> QED BY <1>1, <1>2

\* The same, with what the decision adds to what was rewound.
LEMMA SoundDecided ==
  ASSUME NEW h, NEW m \in Nat, since \in Nat, NEW answered,
         h.rewound \in Nat, Sound(h, h.rewound, m, Held, since),
         NEW q \in Request, Waiting(q, clock, Held, since), m <= q.now
  PROVE  LET d == Decide(h, q, answered) IN
         /\ d.rewound = h.rewound + Rewinds(h.bucket, q.now)
         /\ Sound(d, d.rewound, m, Held, since)
         /\ d.bucket # Absent /\ d.bucket.lastRefill = q.now
<1> DEFINE r == h.rewound
           v == Decide(h, q, answered).rewound
<1>1. v = r + Rewinds(h.bucket, q.now) BY DecideRewinds
<1>2. r \in Nat /\ Sound(h, r, m, Held, since) /\ m \in Nat /\ since \in Nat OBVIOUS
<1>3. q \in Request /\ Waiting(q, clock, Held, since) /\ m <= q.now OBVIOUS
<1> HIDE DEF r, v
<1>4. Sound(Decide(h, q, answered), v, m, Held, since)
  BY ONLY <1>1, <1>2, <1>3, SoundDecide
<1>5. /\ Decide(h, q, answered).bucket # Absent
      /\ Decide(h, q, answered).bucket.lastRefill = q.now
  BY ONLY <1>1, <1>2, <1>3, SoundDecide
<1> QED BY <1>1, <1>4, <1>5 DEF r, v

\* A bucket that is present is covered whatever reading comes next.
LEMMA SoundPresent ==
  ASSUME NEW h, NEW r, NEW m, NEW o, NEW held, NEW s, Sound(h, r, m, held, s),
         h.bucket # Absent
  PROVE  Sound(h, r, o, held, s)
BY DEF Sound, Covers

\* A later reading rewinds no further, and one that is not older not at all.
LEMMA RewindsLater ==
  ASSUME NEW b \in Live, NEW m \in Nat, NEW n \in Nat, m <= n
  PROVE  /\ Rewinds(b, n) <= Rewinds(b, m)
         /\ b # Absent /\ b.lastRefill <= n => Rewinds(b, n) = 0
         /\ b # Absent /\ b.lastRefill <= n => Rewinds(b, m) <= n - m
<1>1. CASE b = Absent BY <1>1 DEF Rewinds
<1>2. CASE b # Absent
  <2>1. b.lastRefill \in Nat BY <1>2, LiveBuckets
  <2> QED BY <1>2, <2>1 DEF Rewinds, AtLeast
<1> QED BY <1>1, <1>2

LEMMA AfterNone ==
  ASSUME NEW s, NEW answered
  PROVE  After(s, << >>, answered) = Books(s)
<1> DEFINE qs == << >>
<1>1. Len(qs) = 0 OBVIOUS
<1> HIDE DEF qs
<1>2. \E a : a[0] = Books(s) /\ After(s, qs, answered) = a[Len(qs)]
  <2>1. Len(qs) \in Nat BY <1>1
  <2> QED BY <2>1, AfterSteps
<1> QED BY <1>1, <1>2 DEF qs

\* Requests are decided, answered or not, in the order of their readings: the
\* oldest may rewind the bucket, the others do not.
LEMMA SoundAfter ==
  ASSUME NEW s, NEW answered, NEW m \in Nat, since \in Nat,
         rewound[s] \in Nat, Sound(Books(s), rewound[s], m, Held, since),
         NEW qs \in Seq(Request), qs # << >>,
         \A i \in 1..Len(qs) : Waiting(qs[i], clock, Held, since) /\ m <= qs[i].now,
         \A i, j \in 1..Len(qs) : i <= j => qs[i].now <= qs[j].now
  PROVE  LET h == After(s, qs, answered) IN
         /\ h.rewound = rewound[s] + Rewinds(bucket[s], qs[1].now)
         /\ h.rewound \in Nat /\ Sound(h, h.rewound, m, Held, since)
         /\ h.bucket # Absent /\ h.bucket.lastRefill = qs[Len(qs)].now
<1> DEFINE R == rewound[s] + Rewinds(bucket[s], qs[1].now)
           Good(h, k) == /\ h.rewound = R /\ Sound(h, R, m, Held, since)
                         /\ h.bucket # Absent /\ h.bucket.lastRefill = qs[k].now
<1>1. Len(qs) \in Nat /\ 1 \in 1..Len(qs) OBVIOUS
<1>2. PICK a : /\ a[0] = Books(s)
               /\ \A k \in 1..Len(qs) : a[k] = Decide(a[k - 1], qs[k], answered)
               /\ After(s, qs, answered) = a[Len(qs)]
  BY <1>1, AfterSteps
<1>3. \A k \in 1..Len(qs) : /\ qs[k] \in Request /\ qs[k].now \in Nat
                            /\ Waiting(qs[k], clock, Held, since) /\ m <= qs[k].now
  <2> TAKE k \in 1..Len(qs)
  <2>1. qs[k] \in Request OBVIOUS
  <2> QED BY <2>1, RequestTypes
<1>4. bucket[s] \in Live /\ Books(s).bucket = bucket[s] /\ Books(s).rewound = rewound[s]
  BY DEF Sound, Books
<1>5. R \in Nat
  <2>1. Rewinds(bucket[s], qs[1].now) \in Nat BY <1>1, <1>3, <1>4, RewindsNat
  <2> QED BY <2>1
<1> HIDE DEF R
<1> DEFINE S == {k \in Nat : k + 1 <= Len(qs) => Good(a[k + 1], k + 1)}
<1>6. 0 \in S
  <2> DEFINE h == Books(s)
             q == qs[1]
  <2>1. a[0 + 1] = Decide(h, q, answered)
    <3>1. a[1] = Decide(a[1 - 1], qs[1], answered) BY <1>1, <1>2
    <3> QED BY <1>2, <3>1
  <2>2. h.rewound \in Nat /\ h.rewound = rewound[s] /\ h.bucket = bucket[s] BY <1>4
  <2>3. /\ Sound(h, rewound[s], m, Held, since) /\ q \in Request
        /\ Waiting(q, clock, Held, since) /\ m <= q.now
    BY <1>1, <1>3
  <2>4. R = rewound[s] + Rewinds(h.bucket, q.now) BY <2>2 DEF R
  <2> HIDE DEF h, q
  <2>5. /\ Decide(h, q, answered).rewound = h.rewound + Rewinds(h.bucket, q.now)
        /\ Sound(Decide(h, q, answered), Decide(h, q, answered).rewound, m, Held, since)
        /\ Decide(h, q, answered).bucket # Absent
        /\ Decide(h, q, answered).bucket.lastRefill = q.now
    BY <2>2, <2>3, SoundDecided
  <2>6. Decide(h, q, answered).rewound = R BY <2>2, <2>4, <2>5
  <2> QED BY <2>1, <2>5, <2>6 DEF q
<1>7. ASSUME NEW n \in Nat, n \in S PROVE n + 1 \in S
  <2>1. SUFFICES ASSUME (n + 1) + 1 <= Len(qs) PROVE Good(a[(n + 1) + 1], (n + 1) + 1)
    OBVIOUS
  <2> DEFINE k == (n + 1) + 1
             h == a[n + 1]
             q == qs[k]
  <2>2. n + 1 \in 1..Len(qs) /\ k \in 1..Len(qs) /\ n + 1 <= k /\ k - 1 = n + 1
    BY <1>1, <2>1
  <2>3. Good(h, n + 1) BY <1>1, <1>7, <2>2
  <2>4. a[k] = Decide(h, q, answered) BY <1>2, <2>2
  <2>5. qs[n + 1].now <= q.now /\ qs[n + 1].now \in Nat /\ q.now \in Nat BY <1>3, <2>2
  <2>6. q \in Request /\ Waiting(q, clock, Held, since) /\ m <= q.now BY <1>3, <2>2
  <2> HIDE DEF h, q, k
  <2>7. Rewinds(h.bucket, q.now) = 0
    <3>1. h.bucket \in Live BY <2>3 DEF Sound
    <3> QED BY <2>3, <2>5, <3>1, RewindsLater
  <2>8. h.rewound = R /\ Sound(h, R, m, Held, since) BY <2>3
  <2>9. /\ Decide(h, q, answered).rewound = h.rewound + Rewinds(h.bucket, q.now)
        /\ Sound(Decide(h, q, answered), Decide(h, q, answered).rewound, m, Held, since)
        /\ Decide(h, q, answered).bucket # Absent
        /\ Decide(h, q, answered).bucket.lastRefill = q.now
    BY <1>5, <2>6, <2>8, SoundDecided
  <2>10. Decide(h, q, answered).rewound = R BY <1>5, <2>7, <2>8, <2>9
  <2>11. Good(a[k], k) BY <2>4, <2>9, <2>10 DEF q
  <2> QED BY <2>11 DEF k
<1> HIDE DEF S
<1>8. Len(qs) - 1 \in S
  <2>1. Nat \subseteq S BY <1>6, <1>7, SetInduction
  <2> QED BY <1>1, <2>1
<1>9. Good(a[Len(qs)], Len(qs))
  <2>1. (Len(qs) - 1) + 1 = Len(qs) BY <1>1
  <2> QED BY <1>1, <1>8, <2>1 DEF S
<1> QED BY <1>2, <1>5, <1>9 DEF R

-----------------------------------------------------------------------------
(* The queue.                                                              *)

LEMMA QueueEmpty ==
  ASSUME NEW t, NEW held, NEW s
  PROVE  InOrder(<< >>, t, held, s) /\ First(<< >>, t) = t
BY DEF InOrder, First

LEMMA QueueFirst ==
  ASSUME NEW q, NEW t \in Nat, NEW held, NEW s, InOrder(q, t, held, s)
  PROVE  /\ First(q, t) \in Nat /\ First(q, t) <= t /\ t - First(q, t) <= MaxWait
         /\ Len(q) \in Nat
         /\ \A i \in 1..Len(q) : q[i] \in Request /\ First(q, t) <= q[i].now
<1>1. q \in Seq(Request) /\ Len(q) \in Nat BY DEF InOrder
<1>2. CASE q = << >> BY <1>1, <1>2 DEF First
<1>3. CASE q # << >>
  <2>1. 1 \in 1..Len(q) BY <1>1, <1>3
  <2>2. q[1] \in Request BY <1>1, <2>1
  <2>3. q[1].now \in Nat BY <2>2, RequestTypes
  <2>4. q[1].now <= t /\ t - q[1].now <= MaxWait
    BY <1>3, <2>1 DEF InOrder, Waiting
  <2>5. \A i \in 1..Len(q) : q[i] \in Request /\ q[1].now <= q[i].now
    <3> TAKE i \in 1..Len(q)
    <3>1. q[i] \in Request BY <1>1
    <3>2. 1 <= i OBVIOUS
    <3> QED BY <2>1, <3>1, <3>2 DEF InOrder
  <2> QED BY <1>1, <1>3, <2>3, <2>4, <2>5 DEF First
<1> QED BY <1>2, <1>3

\* Time passes, and a penalty may end.
LEMMA QueueLater ==
  ASSUME NEW q, NEW t \in Nat, NEW u \in Nat, t <= u, NEW held \in BOOLEAN, NEW g \in BOOLEAN,
         g => held, NEW s, InOrder(q, t, held, s), q # << >> => u - q[1].now <= MaxWait
  PROVE  InOrder(q, u, g, s) /\ First(q, t) <= First(q, u)
<1>1. q \in Seq(Request) BY DEF InOrder
<1>2. \A i \in 1..Len(q) : Waiting(q[i], u, g, s)
  <2> TAKE i \in 1..Len(q)
  <2>1. q[i] \in Request BY <1>1
  <2>2. q[i].now \in Nat BY <2>1, RequestTypes
  <2>3. Waiting(q[i], t, held, s) BY DEF InOrder
  <2> QED BY <2>2, <2>3 DEF Waiting
<1>3. First(q, t) <= First(q, u)
  <2>1. CASE q = << >> BY <2>1 DEF First
  <2>2. CASE q # << >>
    <3>1. First(q, t) = q[1].now /\ First(q, u) = q[1].now BY <2>2 DEF First
    <3>2. First(q, t) \in Nat BY QueueFirst
    <3> QED BY <3>1, <3>2
  <2> QED BY <2>1, <2>2
<1> QED BY <1>1, <1>2, <1>3 DEF InOrder

\* Every request that waits when a penalty begins is older than the penalty.
LEMMA QueuePenalized ==
  ASSUME NEW q, NEW t \in Nat, NEW held, NEW g, NEW s, InOrder(q, t, held, s)
  PROVE  InOrder(q, t, g, t)
<1>1. q \in Seq(Request) BY DEF InOrder
<1>2. \A i \in 1..Len(q) : Waiting(q[i], t, g, t)
  <2> TAKE i \in 1..Len(q)
  <2>1. q[i] \in Request BY <1>1
  <2>2. q[i].now \in Nat BY <2>1, RequestTypes
  <2>3. Waiting(q[i], t, held, s) BY DEF InOrder
  <2>4. q[i].now <= t /\ ~(q[i].now > t) BY <2>2, <2>3 DEF Waiting
  <2> QED BY <2>3, <2>4 DEF Waiting
<1> QED BY <1>2 DEF InOrder

LEMMA QueueAppend ==
  ASSUME NEW q, NEW t \in Nat, NEW held, NEW s, InOrder(q, t, held, s),
         NEW c \in Request, c.now = t, Waiting(c, t, held, s)
  PROVE  InOrder(Append(q, c), t, held, s) /\ First(Append(q, c), t) = First(q, t)
<1> DEFINE r == Append(q, c)
<1>1. q \in Seq(Request) /\ Len(q) \in Nat BY DEF InOrder
<1>2. r \in Seq(Request) /\ Len(r) = Len(q) + 1 /\ r # << >> BY <1>1
<1>3. \A i \in 1..Len(q) : r[i] = q[i] /\ q[i] \in Request BY <1>1
<1>4. r[Len(q) + 1] = c BY <1>1
<1> HIDE DEF r
<1>5. \A i \in 1..Len(r) : i \in 1..Len(q) \/ i = Len(q) + 1 BY <1>1, <1>2
<1>6. \A i \in 1..Len(r) : Waiting(r[i], t, held, s)
  <2> TAKE i \in 1..Len(r)
  <2>1. CASE i \in 1..Len(q) BY <1>3, <2>1 DEF InOrder
  <2>2. CASE i = Len(q) + 1 BY <1>4, <2>2
  <2> QED BY <1>5, <2>1, <2>2
<1>7. \A i, j \in 1..Len(r) : i <= j => r[i].now <= r[j].now
  <2> TAKE i, j \in 1..Len(r)
  <2> HAVE i <= j
  <2>1. CASE j \in 1..Len(q)
    <3>1. i \in 1..Len(q) BY <1>1, <1>2, <2>1
    <3> QED BY <1>3, <2>1, <3>1 DEF InOrder
  <2>2. CASE j = Len(q) + 1
    <3>1. r[j].now = t BY <1>4, <2>2
    <3>2. r[i].now <= t BY <1>6 DEF Waiting
    <3> QED BY <3>1, <3>2
  <2> QED BY <1>5, <2>1, <2>2
<1>8. t - r[1].now <= MaxWait /\ First(r, t) = First(q, t)
  <2>1. CASE q = << >>
    <3>1. r[1] = c BY <1>4, <2>1
    <3> QED BY <1>2, <2>1, <3>1 DEF First
  <2>2. CASE q # << >>
    <3>1. 1 \in 1..Len(q) BY <1>1, <2>2
    <3>2. r[1] = q[1] BY <1>3, <3>1
    <3> QED BY <1>2, <2>2, <3>2 DEF First, InOrder
  <2> QED BY <2>1, <2>2
<1> QED BY <1>2, <1>6, <1>7, <1>8 DEF InOrder, r

LEMMA QueueTail ==
  ASSUME NEW q, NEW t \in Nat, NEW held, NEW s, InOrder(q, t, held, s), q # << >>
  PROVE  /\ InOrder(Tail(q), t, held, s) /\ First(q, t) <= First(Tail(q), t)
         /\ Head(q) \in Request /\ Head(q).now = First(q, t) /\ Waiting(Head(q), t, held, s)
<1> DEFINE r == Tail(q)
<1>1. q \in Seq(Request) /\ Len(q) \in Nat /\ 1 \in 1..Len(q) BY DEF InOrder
<1>2. r \in Seq(Request) /\ Len(r) = Len(q) - 1 BY <1>1
<1>3. \A i \in 1..Len(r) : i + 1 \in 1..Len(q) /\ r[i] = q[i + 1] BY <1>1, <1>2
<1>4. Head(q) = q[1] /\ q[1] \in Request BY <1>1
<1>5. First(q, t) = q[1].now /\ q[1].now \in Nat BY <1>4, RequestTypes DEF First
<1> HIDE DEF r
<1>6. \A i \in 1..Len(r) : Waiting(r[i], t, held, s) BY <1>3 DEF InOrder
<1>7. \A i, j \in 1..Len(r) : i <= j => r[i].now <= r[j].now
  <2> TAKE i, j \in 1..Len(r)
  <2> HAVE i <= j
  <2>1. i + 1 \in 1..Len(q) /\ j + 1 \in 1..Len(q) /\ i + 1 <= j + 1 BY <1>3
  <2>2. q[i + 1].now <= q[j + 1].now BY <2>1 DEF InOrder
  <2> QED BY <1>3, <2>2
<1>8. Waiting(q[1], t, held, s) /\ t - q[1].now <= MaxWait BY <1>1 DEF InOrder
<1>9. r # << >> => t - r[1].now <= MaxWait /\ q[1].now <= r[1].now
  <2> HAVE r # << >>
  <2>1. 1 \in 1..Len(r) BY <1>1, <1>2
  <2>2. r[1] = q[1 + 1] /\ 1 + 1 \in 1..Len(q) BY <1>3, <2>1
  <2>3. q[1].now <= q[1 + 1].now BY <1>1, <2>2 DEF InOrder
  <2>4. q[1 + 1].now \in Nat BY <1>1, <2>2, RequestTypes
  <2> QED BY <1>5, <1>8, <2>2, <2>3, <2>4
<1>10. q[1].now <= t BY <1>8 DEF Waiting
<1>11. First(q, t) <= First(r, t)
  <2>1. CASE r = << >> BY <1>5, <1>10, <2>1 DEF First
  <2>2. CASE r # << >> BY <1>5, <1>9, <2>2 DEF First
  <2> QED BY <2>1, <2>2
<1> QED BY <1>2, <1>4, <1>5, <1>6, <1>7, <1>8, <1>9, <1>11 DEF InOrder, r

-----------------------------------------------------------------------------
(* Books that change without a decision.                                   *)

\* Time passes, requests leave, a penalty ends.
LEMMA SoundLater ==
  ASSUME NEW h, NEW r \in Nat, NEW v \in Nat, r <= v, NEW m \in Nat, NEW n \in Nat, m <= n,
         NEW s \in Nat, NEW held \in BOOLEAN, NEW g \in BOOLEAN, g => held,
         Sound(h, r, m, held, s),
         NEW e, e.bucket = h.bucket, e.ideal = h.ideal, e.penal = h.penal
  PROVE  Sound(e, v, n, g, s)
<1>1. h.bucket \in Live /\ h.ideal \in History /\ h.penal \in History BY DEF Sound
<1>2. /\ Capacity \in Nat /\ Capacity <= Capacity /\ 0 \in Nat
      /\ PenaltyCapacity \in Nat /\ PenaltyCapacity <= Capacity
  OBVIOUS
<1>3. Solvent(h.ideal, Capacity, v) /\ Solvent(h.penal, PenaltyCapacity, v)
  <2>1. Solvent(h.ideal, Capacity, r) /\ Solvent(h.penal, PenaltyCapacity, r) BY DEF Sound
  <2> QED BY <1>1, <1>2, <2>1, SolventLater
<1>4. Covers(h.ideal, Capacity, h.bucket, v, n, 0)
  <2>1. Covers(h.ideal, Capacity, h.bucket, r, m, 0) BY DEF Sound
  <2> QED BY <1>1, <1>2, <2>1, CoversLater
<1>5. Covers(h.penal, PenaltyCapacity, h.bucket, r, m, s)
      => Covers(h.penal, PenaltyCapacity, h.bucket, v, n, s)
  BY <1>1, <1>2, CoversLater
<1> QED BY <1>1, <1>3, <1>4, <1>5 DEF Sound

\* An idle bucket is forgotten.
LEMMA SoundForgotten ==
  ASSUME NEW h, NEW r \in Nat, NEW o \in Nat, NEW m \in Nat, NEW s \in Nat, NEW held,
         Sound(h, r, o, held, s), h.bucket # Absent, h.bucket.lastRefill + Window <= m,
         NEW e, e.bucket = Absent, e.ideal = h.ideal, e.penal = h.penal
  PROVE  Sound(e, r, m, held, s)
<1>1. h.bucket \in Live /\ h.ideal \in History /\ h.penal \in History /\ Absent \in Live
  BY DEF Sound, Live
<1>2. /\ Capacity \in Nat /\ Capacity <= Capacity /\ 0 \in Nat
      /\ PenaltyCapacity \in Nat /\ PenaltyCapacity <= Capacity
  OBVIOUS
<1>3. Covers(h.ideal, Capacity, Absent, r, m, 0)
  <2>1. Covers(h.ideal, Capacity, h.bucket, r, o, 0) BY DEF Sound
  <2> QED BY <1>1, <1>2, <2>1, CoversForgotten
<1>4. Covers(h.penal, PenaltyCapacity, h.bucket, r, o, s)
      => Covers(h.penal, PenaltyCapacity, Absent, r, m, s)
  BY <1>1, <1>2, CoversForgotten
<1> QED BY <1>1, <1>3, <1>4 DEF Sound

LEMMA FullHistory ==
  ASSUME NEW k \in Nat, NEW t \in Nat, NEW r \in Nat
  PROVE  /\ Full(k, t) \in History /\ Full(k, t).tokens = k * Window
         /\ Full(k, t).lastRefill = t /\ Solvent(Full(k, t), k, r)
<1>1. k * Window \in Nat /\ Capacity * r \in Nat OBVIOUS
<1> QED BY <1>1 DEF Full, History, Solvent

\* A penalty begins: its history is new.
LEMMA SoundPenalized ==
  ASSUME NEW h, NEW r \in Nat, NEW m, NEW s, NEW held, NEW t \in Nat, NEW g,
         Sound(h, r, m, held, s),
         NEW e, e.bucket = h.bucket, e.ideal = h.ideal, e.penal = Full(PenaltyCapacity, t)
  PROVE  Sound(e, r, m, g, t)
<1>1. /\ e.penal \in History /\ e.penal.tokens = PenaltyCapacity * Window
      /\ e.penal.lastRefill = t /\ Solvent(e.penal, PenaltyCapacity, r)
  BY FullHistory
<1>2. e.penal.lastRefill <= t BY <1>1
<1> QED BY <1>1, <1>2 DEF Sound

\* The database is emptied: both histories start at the oldest reading.
LEMMA SoundFlushed ==
  ASSUME NEW t \in Nat, NEW s \in Nat, NEW held, NEW r \in Nat,
         NEW e, e.bucket = Absent, e.ideal = Full(Capacity, t),
         e.penal = Full(PenaltyCapacity, t)
  PROVE  Sound(e, r, t, held, s)
<1>1. /\ e.penal \in History /\ e.penal.tokens = PenaltyCapacity * Window
      /\ e.penal.lastRefill = t /\ Solvent(e.penal, PenaltyCapacity, r)
      /\ e.ideal \in History /\ e.ideal.tokens = Capacity * Window
      /\ e.ideal.lastRefill = t /\ Solvent(e.ideal, Capacity, r)
  BY FullHistory
<1>2. Capacity \in Nat /\ PenaltyCapacity \in Nat /\ PenaltyCapacity <= Capacity OBVIOUS
<1>3. Capacity * Window <= Worth(e.ideal, Capacity, t, r, 0)
  <2>1. e.ideal.tokens = Capacity * Window /\ e.ideal.lastRefill <= t BY <1>1
  <2> QED BY <1>1, <1>2, <2>1, FreshStart
<1>4. Covers(e.ideal, Capacity, e.bucket, r, t, 0) BY <1>3 DEF Covers
<1>5. CASE t <= s
  <2>1. e.penal.lastRefill <= s BY <1>1, <1>5
  <2> QED BY <1>1, <1>4, <2>1 DEF Sound, Live
<1>6. CASE s < t
  <2>1. PenaltyCapacity * Window <= Worth(e.penal, PenaltyCapacity, t, r, s)
    <3>1. s <= t /\ e.penal.lastRefill <= t BY <1>1, <1>6
    <3> QED BY <1>1, <1>2, <3>1, FreshStart
  <2>2. ~(t <= s) BY <1>6
  <2>3. Covers(e.penal, PenaltyCapacity, e.bucket, r, t, s) BY <2>1, <2>2 DEF Covers
  <2> QED BY <1>1, <1>4, <2>3 DEF Sound, Live
<1> QED BY <1>5, <1>6

-----------------------------------------------------------------------------
(* The steps.                                                              *)

\* A link with other fields is a link.
LEMMA LinkStatusWith ==
  ASSUME NEW l \in Link, NEW x \in LinkStatus
  PROVE  [l EXCEPT !.status = x] \in Link
BY DEF Link

LEMMA LinkFlagWith ==
  ASSUME NEW l \in Link, NEW y \in BOOLEAN
  PROVE  [l EXCEPT !.useMemoryFallback = y] \in Link
BY DEF Link

LEMMA LinkBothWith ==
  ASSUME NEW l \in Link, NEW x \in LinkStatus, NEW y \in BOOLEAN
  PROVE  [l EXCEPT !.status = x, !.useMemoryFallback = y] \in Link
BY DEF Link

LEMMA LinkAttemptsWith ==
  ASSUME NEW l \in Link, NEW x \in LinkStatus, NEW a \in 0..MaxReconnects
  PROVE  [l EXCEPT !.status = x, !.attempts = a] \in Link
BY DEF Link

LEMMA LinkDropsWith ==
  ASSUME NEW l \in Link, NEW y \in BOOLEAN, NEW d \in 0..MaxDrops
  PROVE  [l EXCEPT !.useMemoryFallback = y, !.drops = d] \in Link
BY DEF Link

\* A link that closes is redialled or given up, and no loss is forgotten.
LEMMA LinkClosed ==
  ASSUME NEW l \in Link
  PROVE  Closed(l) \in Link /\ Closed(l).drops = l.drops
<1>1. "end" \in LinkStatus /\ "reconnecting" \in LinkStatus BY DEF LinkStatus
<1>2. CASE l.attempts = MaxReconnects
  <2>1. [l EXCEPT !.status = "end", !.useMemoryFallback = TRUE] \in Link
    BY <1>1, LinkBothWith
  <2>2. Closed(l) = [l EXCEPT !.status = "end", !.useMemoryFallback = TRUE]
    BY <1>2 DEF Closed
  <2>3. [l EXCEPT !.status = "end", !.useMemoryFallback = TRUE].drops = l.drops BY DEF Link
  <2> QED BY <2>1, <2>2, <2>3
<1>3. CASE l.attempts # MaxReconnects
  <2> DEFINE a == l.attempts + 1
  <2>1. a \in 0..MaxReconnects
    <3>1. l.attempts \in 0..MaxReconnects BY DEF Link
    <3> QED BY <1>3, <3>1
  <2>2. Closed(l) = [l EXCEPT !.status = "reconnecting", !.attempts = a]
    BY <1>3 DEF Closed
  <2> HIDE DEF a
  <2>3. [l EXCEPT !.status = "reconnecting", !.attempts = a] \in Link
    BY <1>1, <2>1, LinkAttemptsWith
  <2>4. [l EXCEPT !.status = "reconnecting", !.attempts = a].drops = l.drops BY DEF Link
  <2> QED BY <2>2, <2>3, <2>4
<1> QED BY <1>2, <1>3

\* Every loss is counted.
LEMMA LinkDrops ==
  ASSUME NEW l \in Link, NEW m, Drops(l, m)
  PROVE  m \in Link /\ l.drops \in Nat /\ m.drops = l.drops + 1 /\ l.status # "end"
<1>1. PICK error \in BOOLEAN :
        m = Closed([l EXCEPT !.useMemoryFallback = @ \/ error, !.drops = @ + 1])
  BY DEF Drops
<1> DEFINE f == l.useMemoryFallback \/ error
           d == l.drops + 1
           k == [l EXCEPT !.useMemoryFallback = @ \/ error, !.drops = @ + 1]
<1>2. d \in 0..MaxDrops /\ l.drops \in Nat
  <2>1. l.drops < MaxDrops BY DEF Drops
  <2>2. l.drops \in 0..MaxDrops BY DEF Link
  <2> QED BY <2>1, <2>2
<1>3. f \in BOOLEAN OBVIOUS
<1>4. k = [l EXCEPT !.useMemoryFallback = f, !.drops = d] BY Zenon
<1>5. k.drops = d BY DEF Link
<1> HIDE DEF f, d
<1>6. [l EXCEPT !.useMemoryFallback = f, !.drops = d] \in Link BY <1>2, <1>3, LinkDropsWith
<1>7. k \in Link BY <1>4, <1>6
<1> HIDE DEF k
<1>8. m = Closed(k) BY <1>1 DEF k
<1>9. m \in Link /\ m.drops = d BY <1>5, <1>7, <1>8, LinkClosed
<1>10. l.status # "end" BY DEF Drops
<1> QED BY <1>2, <1>9, <1>10 DEF d

\* A link that has ended stays so, and no loss is forgotten.
LEMMA LinkTypes ==
  ASSUME NEW l \in Link, NEW m,
         Opens(l, m) \/ Readies(l, m) \/ Redials(l, m) \/ Refuses(l, m) \/ Drops(l, m)
  PROVE  m \in Link /\ l.status # "end" /\ l.drops \in Nat /\ m.drops \in Nat /\ l.drops <= m.drops
<1>1. l.drops \in Nat BY DEF Link
<1>2. CASE Opens(l, m)
  <2>1. "connect" \in LinkStatus BY DEF LinkStatus
  <2>2. [l EXCEPT !.status = "connect", !.useMemoryFallback = FALSE] \in Link
    BY <2>1, LinkBothWith
  <2>3. m = [l EXCEPT !.status = "connect", !.useMemoryFallback = FALSE] /\ l.status # "end"
    BY <1>2 DEF Opens
  <2>4. m.drops = l.drops BY <2>3 DEF Link
  <2> QED BY <1>1, <2>2, <2>3, <2>4
<1>3. CASE Readies(l, m)
  <2>1. "ready" \in LinkStatus /\ 0 \in 0..MaxReconnects BY DEF LinkStatus
  <2>2. [l EXCEPT !.status = "ready", !.attempts = 0] \in Link
    BY <2>1, LinkAttemptsWith
  <2>3. m = [l EXCEPT !.status = "ready", !.attempts = 0] /\ l.status # "end"
    BY <1>3 DEF Readies
  <2>4. m.drops = l.drops BY <2>3 DEF Link
  <2> QED BY <1>1, <2>2, <2>3, <2>4
<1>4. CASE Redials(l, m)
  <2>1. "connecting" \in LinkStatus BY DEF LinkStatus
  <2>2. [l EXCEPT !.status = "connecting"] \in Link BY <2>1, LinkStatusWith
  <2>3. m = [l EXCEPT !.status = "connecting"] /\ l.status # "end" BY <1>4 DEF Redials
  <2>4. m.drops = l.drops BY <2>3 DEF Link
  <2> QED BY <1>1, <2>2, <2>3, <2>4
<1>5. CASE Refuses(l, m)
  <2> DEFINE k == [l EXCEPT !.useMemoryFallback = TRUE]
  <2>1. k \in Link BY LinkFlagWith
  <2>2. k.drops = l.drops BY DEF Link
  <2> HIDE DEF k
  <2>3. m = Closed(k) /\ l.status # "end" BY <1>5 DEF Refuses, k
  <2> QED BY <1>1, <2>1, <2>2, <2>3, LinkClosed
<1>6. CASE Drops(l, m) BY <1>1, <1>6, LinkDrops
<1> QED BY <1>2, <1>3, <1>4, <1>5, <1>6

\* What every step needs of the invariant.
LEMMA InvariantFacts ==
  ASSUME IInv
  PROVE  /\ clock \in Nat /\ clock <= MaxTime /\ MaxTime \in Nat /\ since \in Nat /\ since <= clock
         /\ expires \in Nat /\ Held \in BOOLEAN /\ link \in Link /\ link.drops \in Nat
         /\ InOrder(queue, clock, Held, since)
         /\ Oldest \in Nat /\ Oldest <= clock /\ clock - Oldest <= MaxWait
         /\ \A s \in Stores : /\ rewound[s] \in Nat /\ bucket[s] \in Live
                              /\ Sound(Books(s), rewound[s], Oldest, Held, since)
         /\ "redis" \in Stores /\ "memory" \in Stores
<1>1. clock \in Nat /\ clock <= MaxTime /\ MaxTime \in Nat /\ since \in Nat /\ since <= clock
      /\ expires \in Nat /\ link \in Link
  BY DEF IInv, Typed
<1>2. Held \in BOOLEAN BY DEF Held
<1>3. InOrder(queue, clock, Held, since) BY DEF IInv
<1>4. Oldest \in Nat /\ Oldest <= clock /\ clock - Oldest <= MaxWait
  BY <1>1, <1>3, QueueFirst DEF Oldest
<1>5. link.drops \in Nat BY <1>1 DEF Link
<1>6. \A s \in Stores : /\ rewound[s] \in Nat /\ bucket[s] \in Live
                        /\ Sound(Books(s), rewound[s], Oldest, Held, since)
  BY DEF IInv, Typed
<1>7. "redis" \in Stores /\ "memory" \in Stores BY DEF Stores
<1> QED BY <1>1, <1>2, <1>3, <1>4, <1>5, <1>6, <1>7

LEMMA BooksFields ==
  ASSUME NEW s
  PROVE  /\ Books(s).bucket = bucket[s] /\ Books(s).ideal = ideal[s]
         /\ Books(s).penal = penal[s] /\ Books(s).rewound = rewound[s]
BY DEF Books

\* A step that writes the books of one store.
LEMMA WrittenBooks ==
  ASSUME IInv, NEW s \in Stores, NEW h, Write(s, h), h.rewound \in Nat,
         Sound(h, h.rewound, Oldest', Held, since),
         since' = since, Held' = Held, Oldest' \in Nat, Oldest <= Oldest'
  PROVE  /\ bucket' \in [Stores -> Live] /\ ideal' \in [Stores -> History]
         /\ penal' \in [Stores -> History] /\ rewound' \in [Stores -> Nat]
         /\ bucket'[s] = h.bucket /\ rewound'[s] = h.rewound
         /\ \A t \in Stores : t # s => bucket'[t] = bucket[t] /\ rewound'[t] = rewound[t]
         /\ \A t \in Stores : Sound(Books(t)', rewound'[t], Oldest', Held', since')
<1>1. h.bucket \in Live /\ h.ideal \in History /\ h.penal \in History BY DEF Sound
<1>2. /\ bucket \in [Stores -> Live] /\ ideal \in [Stores -> History]
      /\ penal \in [Stores -> History] /\ rewound \in [Stores -> Nat]
  BY DEF IInv, Typed
<1>3. /\ bucket' \in [Stores -> Live] /\ ideal' \in [Stores -> History]
      /\ penal' \in [Stores -> History] /\ rewound' \in [Stores -> Nat]
      /\ bucket'[s] = h.bucket /\ ideal'[s] = h.ideal /\ penal'[s] = h.penal
      /\ rewound'[s] = h.rewound
      /\ \A t \in Stores : t # s => /\ bucket'[t] = bucket[t] /\ ideal'[t] = ideal[t]
                                    /\ penal'[t] = penal[t] /\ rewound'[t] = rewound[t]
  BY <1>1, <1>2 DEF Write
<1>4. ASSUME NEW t \in Stores PROVE Sound(Books(t)', rewound'[t], Oldest', Held', since')
  <2>1. CASE t = s
    <3>1. /\ Books(t)'.bucket = h.bucket /\ Books(t)'.ideal = h.ideal
          /\ Books(t)'.penal = h.penal
      BY <1>3, <2>1 DEF Books
    <3>2. Sound(Books(t)', h.rewound, Oldest', Held, since) BY <3>1 DEF Sound
    <3> QED BY <1>3, <2>1, <3>2
  <2>2. CASE t # s
    <3>1. /\ Books(t)'.bucket = Books(t).bucket /\ Books(t)'.ideal = Books(t).ideal
          /\ Books(t)'.penal = Books(t).penal /\ rewound'[t] = rewound[t]
      BY <1>3, <2>2 DEF Books
    <3>2. /\ rewound[t] \in Nat /\ rewound[t] <= rewound[t] /\ since \in Nat
          /\ Oldest \in Nat /\ Oldest' \in Nat /\ Oldest <= Oldest'
          /\ Held \in BOOLEAN /\ (Held => Held)
          /\ Sound(Books(t), rewound[t], Oldest, Held, since)
      BY InvariantFacts
    <3>3. Sound(Books(t)', rewound[t], Oldest', Held, since)
      BY ONLY <3>1, <3>2, SoundLater
    <3> QED BY <3>1, <3>3
  <2> QED BY <2>1, <2>2
<1> QED BY <1>3, <1>4

\* A step that leaves the books alone.
LEMMA SameBooks ==
  ASSUME IInv, UNCHANGED <<bucket, ideal, penal, rewound, since>>, Held' = Held, Oldest' = Oldest
  PROVE  \A s \in Stores : Sound(Books(s)', rewound'[s], Oldest', Held', since')
<1>1. \A s \in Stores : Books(s)' = Books(s) /\ rewound'[s] = rewound[s] BY DEF Books
<1> QED BY <1>1 DEF IInv

LEMMA InitIInv == Init => IInv
<1> SUFFICES ASSUME Init PROVE IInv
  OBVIOUS
<1>1. Absent \in Live /\ 0 \in Nat BY DEF Live
<1>2. /\ Full(Capacity, 0) \in History /\ Full(PenaltyCapacity, 0) \in History
  BY FullHistory
<1>3. link \in Link /\ link.drops = 0 /\ link.status # "end"
  <2>1. \A x \in LinkStatus, y \in BOOLEAN, a \in 0..MaxReconnects, d \in 0..MaxDrops :
          [status |-> x, useMemoryFallback |-> y, attempts |-> a, drops |-> d] \in Link
    BY DEF Link
  <2>2. 0 \in 0..MaxReconnects /\ 0 \in 0..MaxDrops
        /\ "connecting" \in LinkStatus /\ "none" \in LinkStatus
    BY DEF LinkStatus
  <2>3. [status |-> "connecting", useMemoryFallback |-> FALSE, attempts |-> 0, drops |-> 0] \in Link
    BY <2>1, <2>2, Zenon
  <2>4. [status |-> "none", useMemoryFallback |-> TRUE, attempts |-> 0, drops |-> 0] \in Link
    BY <2>1, <2>2, Zenon
  <2>5. link.drops = 0 /\ link.status # "end" BY DEF Init, InitLinks
  <2> QED BY <2>3, <2>4, <2>5 DEF Init, InitLinks
<1>4. \A s \in Stores : bucket[s] = Absent /\ rewound[s] = 0 BY DEF Init
<1>5. "redis" \in Stores /\ "memory" \in Stores BY DEF Stores
<1>6. Typed BY <1>1, <1>2, <1>3 DEF Init, Typed
<1>7. Dated BY <1>4, <1>5 DEF Dated
<1>8. InOrder(queue, clock, Held, since) /\ Oldest = 0
  BY QueueEmpty DEF Init, Oldest
<1>9. Limited
  <2>1. Rewinds(bucket["redis"], Oldest) = 0 BY <1>4, <1>5 DEF Rewinds
  <2> QED BY <1>3, <1>4, <1>5, <2>1 DEF Limited
<1>10. since = 0 BY DEF Init
<1>11. \A s \in Stores : Sound(Books(s), 0, 0, Held, 0)
  <2> TAKE s \in Stores
  <2>1. Books(s).bucket = Absent /\ Books(s).ideal = Full(Capacity, 0)
        /\ Books(s).penal = Full(PenaltyCapacity, 0)
    BY DEF Init, Books
  <2> QED BY <1>1, <2>1, SoundFlushed
<1>12. \A s \in Stores : Sound(Books(s), rewound[s], Oldest, Held, since)
  BY <1>4, <1>8, <1>10, <1>11
<1> QED BY <1>6, <1>7, <1>8, <1>9, <1>12 DEF IInv

LEMMA ReadingWaits ==
  ASSUME IInv
  PROVE  /\ Reading \in Request /\ Reading.now = clock
         /\ Waiting(Reading, clock, Held, since)
<1>1. clock \in Nat /\ Held \in BOOLEAN BY InvariantFacts
<1>2. Reading.now = clock /\ Reading.held = Held
      /\ Reading.capacity = IF Held THEN PenaltyCapacity ELSE Capacity
  BY DEF Reading
<1>3. Reading \in Request
  <2>1. (IF Held THEN PenaltyCapacity ELSE Capacity) \in {Capacity, PenaltyCapacity} OBVIOUS
  <2> HIDE DEF Held
  <2> QED BY <1>1, <2>1 DEF Reading, Request
<1>4. Waiting(Reading, clock, Held, since)
  <2>1. Reading.now <= clock BY <1>1, <1>2
  <2> QED BY <1>2, <2>1 DEF Waiting
<1> QED BY <1>2, <1>3, <1>4

\* Requests are decided in memory; what is rewound is within one wait, and
\* nothing is when the requests have only just arrived.
LEMMA MemoryBooks ==
  ASSUME IInv, NEW qs \in Seq(Request), qs # << >>, DecideAll("memory", qs),
         \A i \in 1..Len(qs) : Waiting(qs[i], clock, Held, since) /\ Oldest <= qs[i].now,
         \A i, j \in 1..Len(qs) : i <= j => qs[i].now <= qs[j].now,
         clock' = clock, since' = since, Held' = Held,
         Oldest' \in Nat, Oldest <= Oldest'
  PROVE  /\ bucket' \in [Stores -> Live] /\ ideal' \in [Stores -> History]
         /\ penal' \in [Stores -> History] /\ rewound' \in [Stores -> Nat]
         /\ bucket'["redis"] = bucket["redis"] /\ rewound'["redis"] = rewound["redis"]
         /\ rewound'["memory"] <= rewound["memory"] + (clock - qs[1].now)
         /\ \A s \in Stores : bucket'[s] # Absent => bucket'[s].lastRefill <= clock'
         /\ \A s \in Stores : Sound(Books(s)', rewound'[s], Oldest', Held', since')
<1> DEFINE h == After("memory", qs, TRUE)
<1>1. /\ clock \in Nat /\ since \in Nat /\ rewound["memory"] \in Nat /\ Oldest \in Nat
      /\ bucket["memory"] \in Live /\ "memory" \in Stores /\ "redis" \in Stores
      /\ Sound(Books("memory"), rewound["memory"], Oldest, Held, since)
  BY InvariantFacts
<1>2. /\ h.rewound = rewound["memory"] + Rewinds(bucket["memory"], qs[1].now)
      /\ h.rewound \in Nat /\ Sound(h, h.rewound, Oldest', Held, since)
      /\ h.bucket # Absent /\ h.bucket.lastRefill = qs[Len(qs)].now
  <2>1. /\ qs \in Seq(Request) /\ qs # << >>
        /\ \A i \in 1..Len(qs) : Waiting(qs[i], clock, Held, since) /\ Oldest <= qs[i].now
        /\ \A i, j \in 1..Len(qs) : i <= j => qs[i].now <= qs[j].now
    OBVIOUS
  <2>2. /\ h.rewound = rewound["memory"] + Rewinds(bucket["memory"], qs[1].now)
        /\ h.rewound \in Nat /\ Sound(h, h.rewound, Oldest, Held, since)
        /\ h.bucket # Absent /\ h.bucket.lastRefill = qs[Len(qs)].now
    BY ONLY <1>1, <2>1, SoundAfter
  <2> HIDE DEF h
  <2>3. Sound(h, h.rewound, Oldest', Held, since) BY <2>2, SoundPresent
  <2> QED BY <2>2, <2>3
<1>3. Write("memory", h) BY DEF DecideAll
<1> HIDE DEF h
<1>4. /\ bucket' \in [Stores -> Live] /\ ideal' \in [Stores -> History]
      /\ penal' \in [Stores -> History] /\ rewound' \in [Stores -> Nat]
      /\ bucket'["memory"] = h.bucket /\ rewound'["memory"] = h.rewound
      /\ \A t \in Stores : t # "memory" => bucket'[t] = bucket[t] /\ rewound'[t] = rewound[t]
      /\ \A t \in Stores : Sound(Books(t)', rewound'[t], Oldest', Held', since')
  BY <1>1, <1>2, <1>3, WrittenBooks
<1>5. Len(qs) \in Nat /\ 1 \in 1..Len(qs) /\ Len(qs) \in 1..Len(qs) OBVIOUS
<1>6. qs[1].now \in Nat /\ qs[1].now <= clock /\ qs[Len(qs)].now <= clock
  BY <1>5, RequestTypes DEF Waiting
<1>7. Rewinds(bucket["memory"], qs[1].now) <= clock - qs[1].now
  <2>1. bucket["memory"] # Absent => bucket["memory"].lastRefill <= clock
    BY <1>1 DEF IInv, Dated
  <2>2. bucket["memory"] # Absent =>
          Rewinds(bucket["memory"], qs[1].now) <= clock - qs[1].now
    BY <1>1, <1>6, <2>1, RewindsLater
  <2>3. bucket["memory"] = Absent => Rewinds(bucket["memory"], qs[1].now) = 0 BY DEF Rewinds
  <2> QED BY <1>1, <1>6, <2>2, <2>3
<1>8. rewound'["memory"] <= rewound["memory"] + (clock - qs[1].now)
  <2>1. Rewinds(bucket["memory"], qs[1].now) \in Nat BY <1>1, <1>6, RewindsNat
  <2> QED BY <1>1, <1>2, <1>4, <1>6, <1>7, <2>1
<1>9. \A s \in Stores : bucket'[s] # Absent => bucket'[s].lastRefill <= clock'
  BY <1>2, <1>4, <1>6 DEF IInv, Dated
<1>10. "redis" # "memory" OBVIOUS
<1> QED BY <1>1, <1>4, <1>8, <1>9, <1>10

LEMMA ArriveIInv == IInv /\ Arrive => IInv'
<1> SUFFICES ASSUME IInv, Arrive PROVE IInv'
  OBVIOUS
<1>1. /\ clock \in Nat /\ since \in Nat /\ Oldest \in Nat /\ Oldest <= clock
      /\ InOrder(queue, clock, Held, since)
      /\ rewound["redis"] \in Nat /\ rewound["memory"] \in Nat
      /\ "redis" \in Stores /\ "memory" \in Stores
  BY InvariantFacts
<1>2. /\ clock' = clock /\ link' = link /\ expires' = expires /\ since' = since
      /\ penalty' = IF Held THEN penalty ELSE NoPenalty
  BY DEF Arrive
<1>3. Held' = Held BY <1>2 DEF Held, NoPenalty
<1>4. Reading \in Request /\ Reading.now = clock /\ Waiting(Reading, clock, Held, since)
  BY ReadingWaits
<1>5. /\ clock' \in 0..MaxTime /\ link' \in Link /\ expires' \in Nat
      /\ penalty' \in {NoPenalty} \cup Nat /\ since' \in 0..clock'
  BY <1>2 DEF IInv, Typed
<1>6. CASE queue' = Append(queue, Reading) /\ UNCHANGED books /\ link.status # "end"
  <2>1. InOrder(queue', clock', Held', since') /\ Oldest' = Oldest
    <3>1. InOrder(Append(queue, Reading), clock, Held, since)
          /\ First(Append(queue, Reading), clock) = First(queue, clock)
      BY <1>1, <1>4, QueueAppend
    <3> QED BY <1>2, <1>3, <1>6, <3>1 DEF Oldest
  <2>2. bucket' = bucket /\ ideal' = ideal /\ penal' = penal /\ rewound' = rewound
    BY <1>6 DEF books, Write
  <2>3. Typed' BY <1>5, <2>2 DEF IInv, Typed
  <2>4. Dated' BY <1>2, <2>1, <2>2 DEF IInv, Dated
  <2>5. Limited' BY <1>2, <1>6, <2>1, <2>2 DEF IInv, Limited
  <2>6. \A s \in Stores : Sound(Books(s)', rewound'[s], Oldest', Held', since')
    BY <1>2, <1>3, <2>1, <2>2, SameBooks
  <2> QED BY <2>1, <2>3, <2>4, <2>5, <2>6 DEF IInv
<1>7. CASE DecideAll("memory", <<Reading>>) /\ queue' = queue
  <2>1. InOrder(queue', clock', Held', since') /\ Oldest' = Oldest
    BY <1>1, <1>2, <1>3, <1>7 DEF Oldest
  <2> DEFINE qs == <<Reading>>
  <2>2. qs \in Seq(Request) /\ qs # << >> /\ qs[1] = Reading
        /\ \A i \in 1..Len(qs) : qs[i] = Reading
    BY <1>4
  <2>3. \A i \in 1..Len(qs) : Waiting(qs[i], clock, Held, since) /\ Oldest <= qs[i].now
    BY <1>1, <1>4, <2>2
  <2>4. \A i, j \in 1..Len(qs) : i <= j => qs[i].now <= qs[j].now
    BY <1>1, <1>4, <2>2
  <2>5. DecideAll("memory", qs) BY <1>7
  <2> HIDE DEF qs
  <2>6. Oldest' \in Nat /\ Oldest <= Oldest' BY <1>1, <2>1
  <2>7. /\ bucket' \in [Stores -> Live] /\ ideal' \in [Stores -> History]
        /\ penal' \in [Stores -> History] /\ rewound' \in [Stores -> Nat]
        /\ bucket'["redis"] = bucket["redis"] /\ rewound'["redis"] = rewound["redis"]
        /\ rewound'["memory"] <= rewound["memory"] + (clock - qs[1].now)
        /\ \A s \in Stores : bucket'[s] # Absent => bucket'[s].lastRefill <= clock'
        /\ \A s \in Stores : Sound(Books(s)', rewound'[s], Oldest', Held', since')
    BY <1>2, <1>3, <2>2, <2>3, <2>4, <2>5, <2>6, MemoryBooks
  <2>8. Typed' BY <1>5, <2>7 DEF Typed
  <2>9. Dated' BY <1>2, <2>7 DEF IInv, Dated
  <2>10. Limited'
    <3>1. rewound'["memory"] <= rewound["memory"] BY <1>1, <1>4, <2>2, <2>7
    <3>2. rewound'["memory"] \in Nat BY <1>1, <2>7
    <3>3. rewound'["memory"] <= (IF link.status = "end" THEN MaxWait ELSE 0)
      BY <1>1, <3>1, <3>2 DEF IInv, Limited
    <3> QED BY <1>2, <1>7, <2>1, <2>7, <3>3 DEF IInv, Limited
  <2> QED BY <2>1, <2>7, <2>8, <2>9, <2>10 DEF IInv
<1> QED BY <1>6, <1>7 DEF Arrive

\* The requests that wait, or the oldest of them, are evaluated in Redis.
LEMMA RedisBooks ==
  ASSUME IInv, queue # << >>, NEW k \in 1..Len(queue), NEW answered,
         Write("redis", After("redis", SubSeq(queue, 1, k), answered)),
         clock' = clock, since' = since, Held' = Held,
         Oldest' \in Nat, Oldest <= Oldest'
  PROVE  /\ bucket' \in [Stores -> Live] /\ ideal' \in [Stores -> History]
         /\ penal' \in [Stores -> History] /\ rewound' \in [Stores -> Nat]
         /\ bucket'["memory"] = bucket["memory"] /\ rewound'["memory"] = rewound["memory"]
         /\ rewound'["redis"] = rewound["redis"] + Rewinds(bucket["redis"], Oldest)
         /\ rewound'["redis"] \in Nat
         /\ bucket'["redis"] # Absent /\ bucket'["redis"].lastRefill = queue[k].now
         /\ queue[k].now \in Nat /\ queue[k].now <= clock
         /\ \A s \in Stores : Sound(Books(s)', rewound'[s], Oldest', Held', since')
<1> DEFINE qs == SubSeq(queue, 1, k)
           h == After("redis", qs, answered)
<1>1. /\ clock \in Nat /\ since \in Nat /\ rewound["redis"] \in Nat /\ Oldest \in Nat
      /\ "memory" \in Stores /\ "redis" \in Stores
      /\ Sound(Books("redis"), rewound["redis"], Oldest, Held, since)
      /\ InOrder(queue, clock, Held, since)
  BY InvariantFacts
<1>2. queue \in Seq(Request) /\ Len(queue) \in Nat BY <1>1 DEF InOrder
<1>3. /\ qs \in Seq(Request) /\ Len(qs) = k /\ qs # << >>
      /\ \A i \in 1..k : qs[i] = queue[i] /\ i \in 1..Len(queue)
  BY <1>2
<1> HIDE DEF qs
<1>4. \A i \in 1..Len(qs) : Waiting(qs[i], clock, Held, since) /\ Oldest <= qs[i].now
  <2>1. \A i \in 1..Len(queue) : Waiting(queue[i], clock, Held, since) BY <1>1 DEF InOrder
  <2>2. \A i \in 1..Len(queue) : Oldest <= queue[i].now BY <1>1, QueueFirst DEF Oldest
  <2> QED BY <1>3, <2>1, <2>2
<1>5. \A i, j \in 1..Len(qs) : i <= j => qs[i].now <= qs[j].now
  BY <1>1, <1>3 DEF InOrder
<1>6. qs[1].now = Oldest /\ qs[Len(qs)].now = queue[k].now
  <2>1. 1 \in 1..k /\ k \in 1..k OBVIOUS
  <2> QED BY <1>3, <2>1 DEF Oldest, First
<1>7. /\ h.rewound = rewound["redis"] + Rewinds(bucket["redis"], Oldest)
      /\ h.rewound \in Nat /\ Sound(h, h.rewound, Oldest', Held, since)
      /\ h.bucket # Absent /\ h.bucket.lastRefill = queue[k].now
  <2>1. /\ h.rewound = rewound["redis"] + Rewinds(bucket["redis"], qs[1].now)
        /\ h.rewound \in Nat /\ Sound(h, h.rewound, Oldest, Held, since)
        /\ h.bucket # Absent /\ h.bucket.lastRefill = qs[Len(qs)].now
    <3>1. qs \in Seq(Request) /\ qs # << >> BY <1>3
    <3> QED BY ONLY <1>1, <1>4, <1>5, <3>1, SoundAfter
  <2> HIDE DEF h
  <2>2. Sound(h, h.rewound, Oldest', Held, since) BY <2>1, SoundPresent
  <2> QED BY <1>6, <2>1, <2>2
<1>8. Write("redis", h) BY DEF qs
<1> HIDE DEF h
<1>9. /\ bucket' \in [Stores -> Live] /\ ideal' \in [Stores -> History]
      /\ penal' \in [Stores -> History] /\ rewound' \in [Stores -> Nat]
      /\ bucket'["redis"] = h.bucket /\ rewound'["redis"] = h.rewound
      /\ \A t \in Stores : t # "redis" => bucket'[t] = bucket[t] /\ rewound'[t] = rewound[t]
      /\ \A t \in Stores : Sound(Books(t)', rewound'[t], Oldest', Held', since')
  BY <1>1, <1>7, <1>8, WrittenBooks
<1>10. queue[k] \in Request /\ Waiting(queue[k], clock, Held, since)
  BY <1>1, <1>2 DEF InOrder
<1>11. queue[k].now \in Nat /\ queue[k].now <= clock BY <1>10, RequestTypes DEF Waiting
<1>12. "memory" # "redis" OBVIOUS
<1> QED BY <1>1, <1>7, <1>9, <1>11, <1>12

LEMMA AnswerIInv == IInv /\ Answer => IInv'
<1> SUFFICES ASSUME IInv, Answer PROVE IInv'
  OBVIOUS
<1>1. /\ clock \in Nat /\ since \in Nat /\ Oldest \in Nat /\ Oldest <= clock
      /\ "redis" \in Stores /\ "memory" \in Stores /\ link.drops \in Nat
      /\ InOrder(queue, clock, Held, since)
  BY InvariantFacts
<1>2. /\ clock' = clock /\ link' = link /\ since' = since /\ penalty' = penalty
      /\ queue # << >> /\ queue' = Tail(queue) /\ expires' = clock + Window + Slack
      /\ Write("redis", After("redis", <<Head(queue)>>, TRUE))
      /\ link.status # "end"
  BY DEF Answer, DecideAll
<1>3. Held' = Held BY <1>2 DEF Held
<1>4. /\ InOrder(Tail(queue), clock, Held, since)
      /\ First(queue, clock) <= First(Tail(queue), clock)
  BY <1>1, <1>2, QueueTail
<1>5. Oldest <= Oldest' /\ Oldest' \in Nat
  <2>1. First(Tail(queue), clock) \in Nat BY <1>1, <1>4, QueueFirst
  <2> QED BY <1>2, <1>4, <2>1 DEF Oldest
<1>6. 1 \in 1..Len(queue) /\ <<Head(queue)>> = SubSeq(queue, 1, 1) /\ queue[1].now = Oldest
  <2>1. queue \in Seq(Request) /\ Len(queue) \in Nat /\ Len(queue) # 0 BY <1>1, <1>2 DEF InOrder
  <2>2. queue[1].now = Oldest BY <1>2 DEF Oldest, First
  <2>3. SubSeq(queue, 1, 1) = <<queue[1]>> /\ Head(queue) = queue[1]
    <3> DEFINE x == SubSeq(queue, 1, 1)
    <3>1. x \in Seq(Request) /\ Len(x) = 1 /\ x[1] = queue[1] BY <2>1
    <3> HIDE DEF x
    <3>2. x = <<queue[1]>> BY <3>1
    <3> QED BY <1>2, <2>1, <3>2 DEF x
  <2> QED BY <2>1, <2>2, <2>3
<1>7. /\ bucket' \in [Stores -> Live] /\ ideal' \in [Stores -> History]
      /\ penal' \in [Stores -> History] /\ rewound' \in [Stores -> Nat]
      /\ bucket'["memory"] = bucket["memory"] /\ rewound'["memory"] = rewound["memory"]
      /\ rewound'["redis"] = rewound["redis"] + Rewinds(bucket["redis"], Oldest)
      /\ rewound'["redis"] \in Nat
      /\ bucket'["redis"] # Absent /\ bucket'["redis"].lastRefill = Oldest
      /\ \A s \in Stores : Sound(Books(s)', rewound'[s], Oldest', Held', since')
  <2>1. Write("redis", After("redis", SubSeq(queue, 1, 1), TRUE))
    BY <1>2, <1>6
  <2> QED BY <1>2, <1>3, <1>5, <1>6, <2>1, RedisBooks
<1>8. Typed'
  <2>1. clock + Window + Slack \in Nat BY <1>1
  <2> QED BY <1>1, <1>2, <1>7, <2>1 DEF IInv, Typed
<1>9. Dated'
  <2>1. bucket'["redis"].lastRefill + Window + Slack <= expires' BY <1>1, <1>2, <1>7
  <2>2. \A s \in Stores : s = "redis" \/ s = "memory" BY DEF Stores
  <2>3. \A s \in Stores : bucket'[s] # Absent => bucket'[s].lastRefill <= clock'
    BY <1>1, <1>2, <1>7, <2>2 DEF IInv, Dated
  <2> QED BY <2>1, <2>3 DEF Dated
<1>10. Limited'
  <2>1. bucket'["redis"] \in Live BY <1>1, <1>7
  <2>2. Rewinds(bucket'["redis"], Oldest') = 0
    BY <1>1, <1>5, <1>7, <2>1, RewindsLater
  <2> QED BY <1>2, <1>7, <2>2 DEF IInv, Limited
<1>11. InOrder(queue', clock', Held', since') BY <1>2, <1>3, <1>4
<1> QED BY <1>7, <1>8, <1>9, <1>10, <1>11 DEF IInv

LEMMA AnswerLostIInv == IInv /\ AnswerLost => IInv'
<1> SUFFICES ASSUME IInv, AnswerLost PROVE IInv'
  OBVIOUS
<1>1. /\ clock \in Nat /\ since \in Nat /\ Oldest \in Nat /\ Oldest <= clock
      /\ clock - Oldest <= MaxWait /\ link \in Link
      /\ "redis" \in Stores /\ "memory" \in Stores
      /\ InOrder(queue, clock, Held, since)
  BY InvariantFacts
<1>2. PICK k \in 1..Len(queue) : Write("redis", After("redis", SubSeq(queue, 1, k), FALSE))
  BY DEF AnswerLost
<1>3. /\ clock' = clock /\ since' = since /\ penalty' = penalty /\ queue' = queue
      /\ expires' = clock + Window + Slack
      /\ Drops(link, link') /\ link'.status # "end" /\ link.status # "end"
  BY DEF AnswerLost
<1>4. Held' = Held /\ Oldest' = Oldest BY <1>3 DEF Held, Oldest
<1>5. queue # << >>
  <2>1. Len(queue) # 0 BY <1>2
  <2> QED BY <2>1
<1>6. /\ bucket' \in [Stores -> Live] /\ ideal' \in [Stores -> History]
      /\ penal' \in [Stores -> History] /\ rewound' \in [Stores -> Nat]
      /\ bucket'["memory"] = bucket["memory"] /\ rewound'["memory"] = rewound["memory"]
      /\ rewound'["redis"] = rewound["redis"] + Rewinds(bucket["redis"], Oldest)
      /\ rewound'["redis"] \in Nat
      /\ bucket'["redis"] # Absent /\ bucket'["redis"].lastRefill = queue[k].now
      /\ queue[k].now \in Nat /\ queue[k].now <= clock
      /\ \A s \in Stores : Sound(Books(s)', rewound'[s], Oldest', Held', since')
  <2>1. Oldest' \in Nat /\ Oldest <= Oldest' BY <1>1, <1>4
  <2> QED BY <1>2, <1>3, <1>4, <1>5, <2>1, RedisBooks
<1>7. link' \in Link /\ link.drops \in Nat /\ link'.drops = link.drops + 1
  BY <1>1, <1>3, LinkDrops
<1>8. Typed'
  <2>1. clock + Window + Slack \in Nat BY <1>1
  <2> QED BY <1>3, <1>6, <1>7, <2>1 DEF IInv, Typed
<1>9. Dated'
  <2>1. bucket'["redis"].lastRefill + Window + Slack <= expires' BY <1>1, <1>3, <1>6
  <2>2. \A s \in Stores : s = "redis" \/ s = "memory" BY DEF Stores
  <2>3. \A s \in Stores : bucket'[s] # Absent => bucket'[s].lastRefill <= clock'
    BY <1>1, <1>3, <1>6, <2>2 DEF IInv, Dated
  <2> QED BY <2>1, <2>3 DEF Dated
<1>10. Limited'
  <2>1. bucket'["redis"] \in Live BY <1>1, <1>6
  <2>2. Rewinds(bucket'["redis"], Oldest) <= clock - Oldest
    BY <1>1, <1>6, <2>1, RewindsLater
  <2>3. Rewinds(bucket'["redis"], Oldest) \in Nat BY <1>1, <2>1, RewindsNat
  <2>4. rewound'["redis"] <= MaxWait * link.drops BY <1>6 DEF IInv, Limited
  <2>5. MaxWait * link'.drops = MaxWait * link.drops + MaxWait /\ MaxWait * link.drops \in Nat
    BY <1>7
  <2>6. rewound'["redis"] + Rewinds(bucket'["redis"], Oldest') <= MaxWait * link'.drops
    BY <1>1, <1>4, <1>6, <2>2, <2>3, <2>4, <2>5
  <2> QED BY <1>3, <1>6, <2>6 DEF IInv, Limited
<1>11. InOrder(queue', clock', Held', since') BY <1>1, <1>3, <1>4
<1> QED BY <1>6, <1>8, <1>9, <1>10, <1>11 DEF IInv

LEMMA LinkStepIInv == IInv /\ LinkStep => IInv'
<1> SUFFICES ASSUME IInv, LinkStep PROVE IInv'
  OBVIOUS
<1>1. /\ clock \in Nat /\ since \in Nat /\ Oldest \in Nat /\ Oldest <= clock
      /\ clock - Oldest <= MaxWait
      /\ InOrder(queue, clock, Held, since)
      /\ "redis" \in Stores /\ "memory" \in Stores
      /\ rewound["redis"] \in Nat /\ rewound["memory"] \in Nat /\ bucket["redis"] \in Live
  BY InvariantFacts
<1>2. /\ clock' = clock /\ expires' = expires /\ since' = since /\ penalty' = penalty
  BY DEF LinkStep, counters
<1>3. Held' = Held BY <1>2 DEF Held
<1>4. /\ link' \in Link /\ link.status # "end" /\ link.drops \in Nat /\ link'.drops \in Nat
      /\ link.drops <= link'.drops
  <2>1. link \in Link BY DEF IInv, Typed
  <2>2. \/ Opens(link, link') \/ Readies(link, link') \/ Redials(link, link')
        \/ Refuses(link, link') \/ Drops(link, link')
    BY DEF LinkStep
  <2> QED BY <2>1, <2>2, LinkTypes
<1>5. /\ clock' \in 0..MaxTime /\ expires' \in Nat
      /\ penalty' \in {NoPenalty} \cup Nat /\ since' \in 0..clock'
  BY <1>2 DEF IInv, Typed
<1>6. /\ rewound["redis"] + Rewinds(bucket["redis"], Oldest) <= MaxWait * link'.drops
      /\ rewound["memory"] = 0
  <2>1. MaxWait * link.drops <= MaxWait * link'.drops BY <1>4, TimesMonotone
  <2>2. Rewinds(bucket["redis"], Oldest) \in Nat BY <1>1, RewindsNat
  <2>3. MaxWait * link.drops \in Nat /\ MaxWait * link'.drops \in Nat BY <1>4
  <2>4. rewound["redis"] + Rewinds(bucket["redis"], Oldest) <= MaxWait * link.drops
        /\ rewound["memory"] <= 0
    BY <1>4 DEF IInv, Limited
  <2> QED BY <1>1, <2>1, <2>2, <2>3, <2>4
<1>7. CASE link'.status # "end"
  <2>1. queue' = queue /\ bucket' = bucket /\ ideal' = ideal /\ penal' = penal
        /\ rewound' = rewound
    BY <1>7 DEF LinkStep, books
  <2>2. InOrder(queue', clock', Held', since') /\ Oldest' = Oldest
    BY <1>1, <1>2, <1>3, <2>1 DEF Oldest
  <2>3. Typed' BY <1>4, <1>5, <2>1 DEF IInv, Typed
  <2>4. Dated' BY <1>2, <2>1 DEF IInv, Dated
  <2>5. Limited' BY <1>6, <1>7, <2>1, <2>2 DEF Limited
  <2>6. \A s \in Stores : Sound(Books(s)', rewound'[s], Oldest', Held', since')
    BY <1>2, <1>3, <2>1, <2>2, SameBooks
  <2> QED BY <2>2, <2>3, <2>4, <2>5, <2>6 DEF IInv
<1>8. CASE link'.status = "end"
  <2>1. DecideAll("memory", queue) /\ queue' = << >> BY <1>8 DEF LinkStep
  <2>2. InOrder(queue', clock', Held', since') /\ Oldest' = clock
    BY <1>2, <2>1, QueueEmpty DEF Oldest
  <2>3. Oldest' \in Nat /\ Oldest <= Oldest' BY <1>1, <2>2
  <2>4. /\ bucket' \in [Stores -> Live] /\ ideal' \in [Stores -> History]
        /\ penal' \in [Stores -> History] /\ rewound' \in [Stores -> Nat]
        /\ bucket'["redis"] = bucket["redis"] /\ rewound'["redis"] = rewound["redis"]
        /\ rewound'["memory"] <= MaxWait
        /\ \A s \in Stores : bucket'[s] # Absent => bucket'[s].lastRefill <= clock'
        /\ \A s \in Stores : Sound(Books(s)', rewound'[s], Oldest', Held', since')
    <3>1. CASE queue # << >>
      <4>1. queue \in Seq(Request) BY <1>1 DEF InOrder
      <4>2. \A i \in 1..Len(queue) : Waiting(queue[i], clock, Held, since) /\ Oldest <= queue[i].now
        BY <1>1, QueueFirst DEF InOrder, Oldest
      <4>3. \A i, j \in 1..Len(queue) : i <= j => queue[i].now <= queue[j].now
        BY <1>1 DEF InOrder
      <4>4. queue[1].now = Oldest BY <3>1 DEF Oldest, First
      <4>5. /\ bucket' \in [Stores -> Live] /\ ideal' \in [Stores -> History]
            /\ penal' \in [Stores -> History] /\ rewound' \in [Stores -> Nat]
            /\ bucket'["redis"] = bucket["redis"] /\ rewound'["redis"] = rewound["redis"]
            /\ rewound'["memory"] <= rewound["memory"] + (clock - queue[1].now)
            /\ \A s \in Stores : bucket'[s] # Absent => bucket'[s].lastRefill <= clock'
            /\ \A s \in Stores : Sound(Books(s)', rewound'[s], Oldest', Held', since')
        BY <1>2, <1>3, <2>1, <2>3, <3>1, <4>1, <4>2, <4>3, MemoryBooks
      <4>6. rewound'["memory"] <= MaxWait
        <5>1. rewound'["memory"] \in Nat BY <1>1, <4>5
        <5> QED BY <1>1, <1>6, <4>4, <4>5, <5>1
      <4> QED BY <4>5, <4>6
    <3>2. CASE queue = << >>
      <4>1. Write("memory", Books("memory")) BY <2>1, <3>2, AfterNone DEF DecideAll
      <4>2. /\ bucket \in [Stores -> Live] /\ ideal \in [Stores -> History]
            /\ penal \in [Stores -> History] /\ rewound \in [Stores -> Nat]
        BY DEF IInv, Typed
      <4>3. bucket' = bucket /\ ideal' = ideal /\ penal' = penal /\ rewound' = rewound
        BY <1>1, <4>1, <4>2, BooksFields DEF Write
      <4>4. Oldest' = Oldest BY <2>2, <3>2 DEF Oldest, First
      <4>5. \A s \in Stores : Sound(Books(s)', rewound'[s], Oldest', Held', since')
        BY <1>2, <1>3, <4>3, <4>4, SameBooks
      <4>6. \A s \in Stores : bucket'[s] # Absent => bucket'[s].lastRefill <= clock'
        BY <1>2, <4>3 DEF IInv, Dated
      <4> QED BY <1>6, <4>2, <4>3, <4>5, <4>6
    <3> QED BY <3>1, <3>2
  <2>5. Typed' BY <1>4, <1>5, <2>4 DEF Typed
  <2>6. Dated' BY <1>2, <2>4 DEF IInv, Dated
  <2>7. Limited'
    <3>1. Rewinds(bucket["redis"], Oldest') <= Rewinds(bucket["redis"], Oldest)
      BY <1>1, <2>3, RewindsLater
    <3>2. Rewinds(bucket["redis"], Oldest') \in Nat /\ Rewinds(bucket["redis"], Oldest) \in Nat
      BY <1>1, <2>3, RewindsNat
    <3>3. MaxWait * link'.drops \in Nat BY <1>4
    <3>4. rewound'["redis"] + Rewinds(bucket'["redis"], Oldest') <= MaxWait * link'.drops
      BY <1>1, <1>6, <2>4, <3>1, <3>2, <3>3
    <3> QED BY <1>8, <2>1, <2>4, <3>4 DEF Limited
  <2> QED BY <2>2, <2>4, <2>5, <2>6, <2>7 DEF IInv
<1> QED BY <1>7, <1>8

LEMMA ApplyPenaltyIInv == IInv /\ ApplyPenalty => IInv'
<1> SUFFICES ASSUME IInv, ApplyPenalty PROVE IInv'
  OBVIOUS
<1>1. /\ clock \in Nat /\ since \in Nat /\ since <= clock /\ Oldest \in Nat
      /\ InOrder(queue, clock, Held, since)
      /\ \A s \in Stores : /\ rewound[s] \in Nat
                           /\ Sound(Books(s), rewound[s], Oldest, Held, since)
  BY InvariantFacts
<1>2. /\ clock' = clock /\ link' = link /\ queue' = queue /\ bucket' = bucket
      /\ expires' = expires /\ ideal' = ideal /\ rewound' = rewound
      /\ penalty' = clock + PenaltyTime
  BY DEF ApplyPenalty
<1>3. Held' BY <1>1, <1>2 DEF Held, NoPenalty
<1>4. Oldest' = Oldest BY <1>2 DEF Oldest
<1>5. clock + PenaltyTime \in Nat BY <1>1
<1>6. Dated' /\ Limited' BY <1>2, <1>4 DEF IInv, Dated, Limited
<1>7. CASE Held
  <2>1. penal' = penal /\ since' = since BY <1>7 DEF ApplyPenalty
  <2>2. Typed' BY <1>1, <1>2, <1>5, <2>1 DEF IInv, Typed
  <2>3. Held' = Held BY <1>3, <1>7 DEF Held
  <2>4. InOrder(queue', clock', Held', since') BY <1>1, <1>2, <2>1, <2>3
  <2>5. \A s \in Stores : Sound(Books(s)', rewound'[s], Oldest', Held', since')
    BY <1>2, <1>4, <2>1, <2>3, SameBooks
  <2> QED BY <1>6, <2>2, <2>4, <2>5 DEF IInv
<1>8. CASE ~Held
  <2>1. penal' = [s \in Stores |-> Full(PenaltyCapacity, clock)] /\ since' = clock
    BY <1>8 DEF ApplyPenalty
  <2>2. Typed'
    <3>1. Full(PenaltyCapacity, clock) \in History BY <1>1, FullHistory
    <3>2. clock \in 0..clock BY <1>1
    <3> QED BY <1>2, <1>5, <2>1, <3>1, <3>2 DEF IInv, Typed
  <2>3. InOrder(queue', clock', Held', since') BY <1>1, <1>2, <2>1, QueuePenalized
  <2>4. \A s \in Stores : /\ Books(s)'.bucket = Books(s).bucket
                          /\ Books(s)'.ideal = Books(s).ideal
                          /\ Books(s)'.penal = Full(PenaltyCapacity, clock)
    BY <1>2, <2>1 DEF Books
  <2>5. \A s \in Stores : Sound(Books(s)', rewound'[s], Oldest', Held', since')
    <3> TAKE s \in Stores
    <3>1. Sound(Books(s)', rewound[s], Oldest, Held', clock)
      BY <1>1, <2>4, SoundPenalized
    <3> QED BY <1>2, <1>4, <2>1, <3>1
  <2> QED BY <1>6, <2>2, <2>3, <2>5 DEF IInv
<1> QED BY <1>7, <1>8

LEMMA CleanupIInv == IInv /\ Cleanup => IInv'
<1> SUFFICES ASSUME IInv, Cleanup PROVE IInv'
  OBVIOUS
<1> DEFINE b == bucket["memory"]
           idle == b # Absent /\ clock - b.lastRefill > EvictAfter
           r == rewound["memory"]
<1>1. /\ clock \in Nat /\ since \in Nat /\ r \in Nat /\ Oldest \in Nat
      /\ clock - Oldest <= MaxWait /\ Held \in BOOLEAN /\ b \in Live
      /\ InOrder(queue, clock, Held, since)
      /\ Sound(Books("memory"), r, Oldest, Held, since)
  BY InvariantFacts
<1>2. /\ clock' = clock /\ link' = link /\ queue' = queue /\ expires' = expires
      /\ ideal' = ideal /\ penal' = penal /\ rewound' = rewound /\ since' = since
      /\ bucket' = [bucket EXCEPT !["memory"] = IF idle THEN Absent ELSE b]
      /\ penalty' = IF clock > penalty THEN NoPenalty ELSE penalty
  BY DEF Cleanup
<1>3. penalty \in {NoPenalty} \cup Nat BY DEF IInv, Typed
<1>4. Held' = Held BY <1>1, <1>2, <1>3 DEF Held, NoPenalty
<1>5. Oldest' = Oldest BY <1>2 DEF Oldest
<1>6. bucket \in [Stores -> Live] /\ "redis" \in Stores /\ "memory" \in Stores
      /\ "redis" # "memory"
  BY DEF IInv, Typed, Stores
<1>7. bucket'["redis"] = bucket["redis"] /\ bucket'["memory"] = IF idle THEN Absent ELSE b
  BY <1>2, <1>6
<1>8. Absent \in Live BY DEF Live
<1>9. bucket' \in [Stores -> Live] BY <1>1, <1>2, <1>6, <1>8
<1>10. Typed' BY <1>2, <1>3, <1>9 DEF IInv, Typed
<1>11. Dated' /\ Limited'
  <2>1. \A s \in Stores : s = "redis" \/ s = "memory" BY DEF Stores
  <2>2. \A s \in Stores : bucket'[s] # Absent => bucket'[s] = bucket[s] BY <1>7, <2>1
  <2> QED BY <1>2, <1>5, <1>7, <2>2 DEF IInv, Dated, Limited
<1>12. InOrder(queue', clock', Held', since') BY <1>1, <1>2, <1>4
<1>13. Books("redis")' = Books("redis") BY <1>2, <1>7 DEF Books
<1>14. Sound(Books("memory")', r, Oldest, Held, since)
  <2>1. Books("memory").bucket = b /\ Books("memory")'.bucket = bucket'["memory"]
        /\ Books("memory")'.ideal = Books("memory").ideal
        /\ Books("memory")'.penal = Books("memory").penal
    BY <1>2 DEF Books
  <2>2. CASE idle
    <3>1. b.lastRefill + Window <= Oldest
      <4>1. b.lastRefill \in Nat BY <1>1, <2>2, LiveBuckets
      <4> QED BY <1>1, <2>2, <4>1
    <3>2. Books("memory")'.bucket = Absent BY <1>7, <2>1, <2>2
    <3>3. Books("memory").bucket # Absent /\ Books("memory").bucket.lastRefill + Window <= Oldest
      BY <2>1, <2>2, <3>1
    <3> QED BY <1>1, <2>1, <3>2, <3>3, SoundForgotten
  <2>3. CASE ~idle
    <3>1. Books("memory")'.bucket = Books("memory").bucket BY <1>7, <2>1, <2>3
    <3> QED BY <1>1, <2>1, <3>1 DEF Sound
  <2> QED BY <2>2, <2>3
<1>15. \A s \in Stores : Sound(Books(s)', rewound'[s], Oldest', Held', since')
  <2>1. Sound(Books("redis")', rewound'["redis"], Oldest', Held', since')
    BY <1>2, <1>4, <1>5, <1>6, <1>13 DEF IInv
  <2>2. Sound(Books("memory")', rewound'["memory"], Oldest', Held', since')
    BY <1>2, <1>4, <1>5, <1>14
  <2> QED BY <2>1, <2>2 DEF Stores
<1> QED BY <1>10, <1>11, <1>12, <1>15 DEF IInv

LEMMA FlushDbIInv == IInv /\ FlushDb => IInv'
<1> SUFFICES ASSUME IInv, FlushDb PROVE IInv'
  OBVIOUS
<1> DEFINE r == rewound["redis"]
<1>1. /\ clock \in Nat /\ since \in Nat /\ Oldest \in Nat /\ Oldest <= clock
      /\ InOrder(queue, clock, Held, since) /\ r \in Nat /\ bucket["redis"] \in Live
      /\ link.drops \in Nat
  BY InvariantFacts
<1>2. Oldest = IF queue = << >> THEN clock ELSE Head(queue).now
  <2>1. CASE queue = << >> BY <2>1 DEF Oldest, First
  <2>2. CASE queue # << >> BY <1>1, <2>2, QueueTail DEF Oldest
  <2> QED BY <2>1, <2>2
<1>3. /\ clock' = clock /\ link' = link /\ queue' = queue /\ expires' = expires
      /\ penalty' = penalty /\ rewound' = rewound /\ since' = since
      /\ bucket' = [bucket EXCEPT !["redis"] = Absent]
      /\ ideal' = [ideal EXCEPT !["redis"] = Full(Capacity, Oldest)]
      /\ penal' = [penal EXCEPT !["redis"] = Full(PenaltyCapacity, Oldest)]
  BY <1>2 DEF FlushDb
<1>4. Held' = Held /\ Oldest' = Oldest BY <1>3 DEF Held, Oldest
<1>5. bucket \in [Stores -> Live] /\ ideal \in [Stores -> History] /\ penal \in [Stores -> History]
      /\ "redis" \in Stores /\ "memory" \in Stores /\ "redis" # "memory"
  BY DEF IInv, Typed, Stores
<1>6. /\ Absent \in Live /\ Full(Capacity, Oldest) \in History
      /\ Full(PenaltyCapacity, Oldest) \in History
  BY <1>1, FullHistory DEF Live
<1>7. /\ bucket' \in [Stores -> Live] /\ ideal' \in [Stores -> History]
      /\ penal' \in [Stores -> History]
      /\ bucket'["redis"] = Absent /\ bucket'["memory"] = bucket["memory"]
      /\ ideal'["redis"] = Full(Capacity, Oldest) /\ ideal'["memory"] = ideal["memory"]
      /\ penal'["redis"] = Full(PenaltyCapacity, Oldest) /\ penal'["memory"] = penal["memory"]
  BY <1>3, <1>5, <1>6
<1>8. Typed' BY <1>3, <1>7 DEF IInv, Typed
<1>9. Dated'
  <2>1. \A s \in Stores : s = "redis" \/ s = "memory" BY DEF Stores
  <2>2. \A s \in Stores : bucket'[s] # Absent => bucket'[s] = bucket[s] BY <1>7, <2>1
  <2> QED BY <1>3, <1>7, <2>2 DEF IInv, Dated
<1>10. Limited'
  <2>1. Rewinds(bucket'["redis"], Oldest') = 0 BY <1>7 DEF Rewinds
  <2>2. Rewinds(bucket["redis"], Oldest) \in Nat BY <1>1, RewindsNat
  <2>3. MaxWait * link.drops \in Nat BY <1>1
  <2>4. r + Rewinds(bucket["redis"], Oldest) <= MaxWait * link.drops BY DEF IInv, Limited
  <2>5. r + Rewinds(bucket'["redis"], Oldest') <= MaxWait * link.drops
    BY <1>1, <2>1, <2>2, <2>3, <2>4
  <2> QED BY <1>3, <2>5 DEF IInv, Limited
<1>11. InOrder(queue', clock', Held', since') BY <1>1, <1>3, <1>4
<1>12. Books("memory")' = Books("memory") BY <1>3, <1>7 DEF Books
<1>13. Sound(Books("redis")', r, Oldest, Held, since)
  <2>1. /\ Books("redis")'.bucket = Absent /\ Books("redis")'.ideal = Full(Capacity, Oldest)
        /\ Books("redis")'.penal = Full(PenaltyCapacity, Oldest)
    BY <1>7 DEF Books
  <2> QED BY <1>1, <2>1, SoundFlushed
<1>14. \A s \in Stores : Sound(Books(s)', rewound'[s], Oldest', Held', since')
  <2>1. Sound(Books("redis")', rewound'["redis"], Oldest', Held', since')
    BY <1>3, <1>4, <1>13
  <2>2. Sound(Books("memory")', rewound'["memory"], Oldest', Held', since')
    BY <1>3, <1>4, <1>5, <1>12 DEF IInv
  <2> QED BY <2>1, <2>2 DEF Stores
<1> QED BY <1>8, <1>9, <1>10, <1>11, <1>14 DEF IInv

LEMMA TickIInv == IInv /\ Tick => IInv'
<1> SUFFICES ASSUME IInv, Tick PROVE IInv'
  OBVIOUS
<1> DEFINE b == bucket["redis"]
           r == rewound["redis"]
<1>1. /\ clock \in Nat /\ MaxTime \in Nat /\ since \in Nat /\ since <= clock
      /\ expires \in Nat /\ Oldest \in Nat /\ Held \in BOOLEAN /\ b \in Live /\ r \in Nat
      /\ InOrder(queue, clock, Held, since) /\ link.drops \in Nat
      /\ \A s \in Stores : /\ rewound[s] \in Nat /\ bucket[s] \in Live
                           /\ Sound(Books(s), rewound[s], Oldest, Held, since)
  BY InvariantFacts
<1>2. /\ clock < MaxTime /\ clock' = clock + 1 /\ link' = link /\ queue' = queue
      /\ expires' = expires /\ penalty' = penalty /\ ideal' = ideal /\ penal' = penal
      /\ rewound' = rewound /\ since' = since
      /\ queue # << >> => clock - Head(queue).now < MaxWait
      /\ bucket' = IF clock' >= expires THEN [bucket EXCEPT !["redis"] = Absent] ELSE bucket
  BY DEF Tick
<1>3. penalty \in {NoPenalty} \cup Nat BY DEF IInv, Typed
<1>4. Held' \in BOOLEAN /\ (Held' => Held) BY <1>1, <1>2, <1>3 DEF Held, NoPenalty
<1>5. queue # << >> => clock' - queue[1].now <= MaxWait
  <2> HAVE queue # << >>
  <2>1. Head(queue) \in Request /\ Head(queue).now = First(queue, clock) BY <1>1, QueueTail
  <2>2. Oldest = queue[1].now /\ Oldest = First(queue, clock) BY DEF Oldest, First
  <2> QED BY <1>1, <1>2, <2>1, <2>2
<1>6. InOrder(queue', clock', Held', since') /\ Oldest <= Oldest'
  <2>1. clock' \in Nat /\ clock <= clock' BY <1>1, <1>2
  <2>2. InOrder(queue, clock', Held', since) /\ First(queue, clock) <= First(queue, clock')
    BY <1>1, <1>4, <1>5, <2>1, QueueLater
  <2> QED BY <1>2, <2>2 DEF Oldest
<1>7. Oldest' \in Nat /\ clock' - Oldest' <= MaxWait
  <2>1. clock' \in Nat BY <1>1, <1>2
  <2> QED BY <1>6, <2>1, QueueFirst DEF Oldest
<1>8. bucket \in [Stores -> Live] /\ "redis" \in Stores /\ "memory" \in Stores
      /\ "redis" # "memory"
  BY DEF IInv, Typed, Stores
<1>9. bucket'["memory"] = bucket["memory"]
      /\ bucket'["redis"] = IF clock' >= expires THEN Absent ELSE b
  BY <1>2, <1>8
<1>10. bucket' \in [Stores -> Live]
  <2>1. Absent \in Live BY DEF Live
  <2> QED BY <1>2, <1>8, <2>1
<1>11. Typed'
  <2>1. clock' \in 0..MaxTime /\ since' \in 0..clock' BY <1>1, <1>2
  <2> QED BY <1>2, <1>10, <2>1 DEF IInv, Typed
<1>12. b # Absent => b.lastRefill \in Nat /\ b.lastRefill + Window + Slack <= expires
  BY <1>1, LiveBuckets DEF IInv, Dated
<1>13. Dated'
  <2>1. \A s \in Stores : s = "redis" \/ s = "memory" BY DEF Stores
  <2>2. \A s \in Stores : bucket'[s] # Absent => bucket'[s] = bucket[s] BY <1>9, <2>1
  <2>3. \A s \in Stores : bucket[s] # Absent =>
          bucket[s].lastRefill \in Nat /\ bucket[s].lastRefill <= clock
    BY <1>1, LiveBuckets DEF IInv, Dated
  <2>4. \A s \in Stores : bucket'[s] # Absent => bucket'[s].lastRefill <= clock'
    BY <1>1, <1>2, <2>2, <2>3
  <2> QED BY <1>2, <1>8, <1>12, <2>2, <2>4 DEF Dated
<1>14. Limited'
  <2>1. Rewinds(bucket'["redis"], Oldest') <= Rewinds(b, Oldest)
        /\ Rewinds(bucket'["redis"], Oldest') \in Nat /\ Rewinds(b, Oldest) \in Nat
    <3>1. Rewinds(b, Oldest') <= Rewinds(b, Oldest) BY <1>1, <1>6, <1>7, RewindsLater
    <3>2. Rewinds(b, Oldest') \in Nat /\ Rewinds(b, Oldest) \in Nat BY <1>1, <1>7, RewindsNat
    <3>3. Rewinds(Absent, Oldest') = 0 BY DEF Rewinds
    <3> QED BY <1>9, <3>1, <3>2, <3>3
  <2>2. r + Rewinds(b, Oldest) <= MaxWait * link.drops /\ MaxWait * link.drops \in Nat
    BY <1>1 DEF IInv, Limited
  <2>3. r + Rewinds(bucket'["redis"], Oldest') <= MaxWait * link.drops BY <1>1, <2>1, <2>2
  <2> QED BY <1>2, <2>3 DEF IInv, Limited
<1>15. ASSUME NEW s \in Stores,
              NEW e, e.bucket = bucket[s], e.ideal = ideal[s], e.penal = penal[s]
       PROVE  Sound(e, rewound[s], Oldest', Held', since)
  <2>1. /\ rewound[s] \in Nat /\ rewound[s] <= rewound[s] /\ since \in Nat
        /\ Oldest \in Nat /\ Oldest' \in Nat /\ Oldest <= Oldest'
        /\ Held \in BOOLEAN /\ Held' \in BOOLEAN /\ (Held' => Held)
        /\ Sound(Books(s), rewound[s], Oldest, Held, since)
    BY <1>1, <1>4, <1>6, <1>7
  <2>2. e.bucket = Books(s).bucket /\ e.ideal = Books(s).ideal /\ e.penal = Books(s).penal
    BY <1>15, BooksFields
  <2> QED BY ONLY <2>1, <2>2, SoundLater
<1>16. Sound(Books("memory")', rewound["memory"], Oldest', Held', since)
  <2>1. /\ Books("memory")'.bucket = bucket["memory"]
        /\ Books("memory")'.ideal = ideal["memory"] /\ Books("memory")'.penal = penal["memory"]
    BY <1>2, <1>9 DEF Books
  <2> QED BY <1>8, <1>15, <2>1
<1>17. Sound(Books("redis")', r, Oldest', Held', since)
  <2>1. /\ Books("redis")'.bucket = bucket'["redis"]
        /\ Books("redis")'.ideal = ideal["redis"] /\ Books("redis")'.penal = penal["redis"]
    BY <1>2 DEF Books
  <2> DEFINE e == [bucket |-> b, ideal |-> ideal["redis"], penal |-> penal["redis"]]
  <2>2. e.bucket = b /\ e.ideal = ideal["redis"] /\ e.penal = penal["redis"] OBVIOUS
  <2> HIDE DEF e
  <2>3. Sound(e, r, Oldest', Held', since) BY <1>8, <1>15, <2>2
  <2>4. CASE b # Absent /\ clock' >= expires
    <3>1. b.lastRefill + Window <= Oldest'
      <4> DEFINE l == b.lastRefill
                 u == clock'
                 o == Oldest'
      <4>1. l \in Nat /\ l + Window + Slack <= expires BY <1>12, <2>4
      <4>2. u \in Nat
        <5>1. clock + 1 \in Nat BY <1>1
        <5> QED BY <1>2, <5>1
      <4>3. o \in Nat /\ u - o <= MaxWait BY <1>7
      <4>4. expires <= u BY <1>1, <2>4, <4>2
      <4> HIDE DEF l, u, o
      <4>5. l + Window <= o BY <1>1, <4>1, <4>2, <4>3, <4>4
      <4> QED BY <4>5 DEF l, o
    <3>2. Books("redis")'.bucket = Absent BY <1>9, <2>1, <2>4
    <3>3. e.bucket # Absent /\ e.bucket.lastRefill + Window <= Oldest' BY <2>2, <2>4, <3>1
    <3> QED BY <1>1, <1>7, <2>1, <2>2, <2>3, <3>2, <3>3, SoundForgotten
  <2>5. CASE ~(b # Absent /\ clock' >= expires)
    <3>1. Books("redis")'.bucket = b BY <1>9, <2>1, <2>5
    <3> QED BY <2>1, <2>2, <2>3, <3>1 DEF Sound
  <2> QED BY <2>4, <2>5
<1>18. \A s \in Stores : Sound(Books(s)', rewound'[s], Oldest', Held', since')
  BY <1>2, <1>16, <1>17 DEF Stores
<1> QED BY <1>6, <1>11, <1>13, <1>14, <1>18 DEF IInv

\* No step unsettles the books of either store.
THEOREM StepIInv == IInv /\ [Next]_vars => IInv'
<1> SUFFICES ASSUME IInv, [Next]_vars PROVE IInv'
  OBVIOUS
<1>1. CASE Arrive BY <1>1, ArriveIInv
<1>2. CASE Answer BY <1>2, AnswerIInv
<1>3. CASE AnswerLost BY <1>3, AnswerLostIInv
<1>4. CASE LinkStep BY <1>4, LinkStepIInv
<1>5. CASE ApplyPenalty BY <1>5, ApplyPenaltyIInv
<1>6. CASE Cleanup BY <1>6, CleanupIInv
<1>7. CASE FlushDb BY <1>7, FlushDbIInv
<1>8. CASE Tick BY <1>8, TickIInv
<1>9. CASE UNCHANGED vars
  <2>1. /\ clock' = clock /\ link' = link /\ queue' = queue /\ bucket' = bucket
        /\ expires' = expires /\ penalty' = penalty /\ ideal' = ideal /\ penal' = penal
        /\ rewound' = rewound /\ since' = since
    BY <1>9 DEF vars
  <2>2. Held' = Held /\ Oldest' = Oldest BY <2>1 DEF Held, Oldest
  <2>3. \A s \in Stores : Sound(Books(s)', rewound'[s], Oldest', Held', since')
    BY <2>1, <2>2, SameBooks
  <2>4. Typed' /\ Dated' /\ Limited' /\ InOrder(queue', clock', Held', since')
    BY <2>1, <2>2 DEF IInv, Typed, Dated, Limited
  <2> QED BY <2>3, <2>4 DEF IInv
<1> QED BY <1>1, <1>2, <1>3, <1>4, <1>5, <1>6, <1>7, <1>8, <1>9 DEF Next

\* The invariant holds in every reachable state.
THEOREM Invariance == Spec => []IInv
<1>1. Init => IInv BY InitIInv
<1>2. IInv /\ [Next]_vars => IInv' BY StepIInv
<1> QED BY <1>1, <1>2, PTL DEF Spec

-----------------------------------------------------------------------------
(* The results.                                                            *)

\* A bucket never holds a debt or more than its capacity, and no request that
\* waits has a reading of the clock from the future.
THEOREM TypeCorrect == Spec => []TypeOK
<1>1. IInv => TypeOK
  <2> SUFFICES ASSUME IInv PROVE TypeOK
    OBVIOUS
  <2>1. /\ clock \in Nat /\ clock <= MaxTime /\ MaxTime \in Nat /\ Oldest \in Nat
        /\ Oldest <= clock /\ InOrder(queue, clock, Held, since)
    BY InvariantFacts
  <2>2. \A s \in Stores : bucket[s] \in Bucket
    <3> TAKE s \in Stores
    <3>1. bucket[s] \in Live BY DEF IInv, Typed
    <3>2. bucket[s] # Absent => bucket[s].lastRefill \in Nat /\ bucket[s].lastRefill <= MaxTime
      <4> HAVE bucket[s] # Absent
      <4>1. bucket[s].lastRefill \in Nat BY <3>1, LiveBuckets
      <4>2. bucket[s].lastRefill <= clock BY DEF IInv, Dated
      <4> QED BY <2>1, <4>1, <4>2
    <3>3. CASE bucket[s] = Absent BY <3>3 DEF Bucket
    <3>4. CASE bucket[s] # Absent
      <4>1. bucket[s] \in [tokens : 0..(Capacity * Window), lastRefill : Nat]
        BY <3>1, <3>4 DEF Live
      <4>2. bucket[s].lastRefill \in 0..MaxTime BY <2>1, <3>2, <3>4
      <4>3. bucket[s] \in [tokens : 0..(Capacity * Window), lastRefill : 0..MaxTime]
        BY <4>1, <4>2
      <4> QED BY <4>3 DEF Bucket
    <3> QED BY <3>3, <3>4
  <2>3. bucket \in [Stores -> Bucket]
    <3>1. bucket \in [Stores -> Live] BY DEF IInv, Typed
    <3> QED BY <2>2, <3>1
  <2>4. \A i \in DOMAIN queue :
          queue[i].now <= clock /\ queue[i].capacity \in {Capacity, PenaltyCapacity}
    <3> TAKE i \in DOMAIN queue
    <3>1. queue \in Seq(Request) /\ i \in 1..Len(queue) BY <2>1 DEF InOrder
    <3>2. queue[i] \in Request BY <3>1
    <3>3. Waiting(queue[i], clock, Held, since) BY <2>1, <3>1 DEF InOrder
    <3> QED BY <3>2, <3>3, RequestTypes DEF Waiting
  <2> QED BY <2>3, <2>4 DEF IInv, Typed, TypeOK
<1> QED BY <1>1, Invariance, PTL

\* What a store has rewound bounds its excess.
LEMMA Excess ==
  ASSUME IInv
  PROVE  /\ ideal["redis"].tokens >= -(Capacity * (MaxWait * link.drops))
         /\ ideal["memory"].tokens >= -(Capacity * MaxWait)
         /\ penal["redis"].tokens >= -(Capacity * (MaxWait * link.drops))
         /\ penal["memory"].tokens >= -(Capacity * MaxWait)
<1>1. ASSUME NEW s \in Stores, NEW n \in Nat, rewound[s] <= n
      PROVE  ideal[s].tokens >= -(Capacity * n) /\ penal[s].tokens >= -(Capacity * n)
  <2>1. rewound[s] \in Nat /\ Sound(Books(s), rewound[s], Oldest, Held, since)
    BY InvariantFacts
  <2>2. /\ ideal[s] \in History /\ penal[s] \in History
        /\ Solvent(ideal[s], Capacity, rewound[s])
        /\ Solvent(penal[s], PenaltyCapacity, rewound[s])
    BY <2>1, BooksFields DEF Sound
  <2>3. Capacity \in Nat /\ PenaltyCapacity \in Nat OBVIOUS
  <2>4. Solvent(ideal[s], Capacity, n) /\ Solvent(penal[s], PenaltyCapacity, n)
    BY <1>1, <2>1, <2>2, <2>3, SolventLater
  <2> QED BY <2>4 DEF Solvent
<1>2. "redis" \in Stores /\ "memory" \in Stores /\ link.drops \in Nat
      /\ Oldest \in Nat /\ rewound["redis"] \in Nat /\ bucket["redis"] \in Live
  BY InvariantFacts
<1>3. MaxWait * link.drops \in Nat BY <1>2
<1>4. rewound["redis"] <= MaxWait * link.drops
  <2>1. Rewinds(bucket["redis"], Oldest) \in Nat BY <1>2, RewindsNat
  <2>2. rewound["redis"] + Rewinds(bucket["redis"], Oldest) <= MaxWait * link.drops
    BY DEF IInv, Limited
  <2> QED BY <1>2, <1>3, <2>1, <2>2
<1>5. rewound["memory"] <= MaxWait
  <2>1. rewound["memory"] \in Nat BY InvariantFacts
  <2> QED BY <2>1 DEF IInv, Limited
<1>6. MaxWait \in Nat OBVIOUS
<1> QED BY <1>1, <1>2, <1>3, <1>4, <1>5, <1>6

\* Neither store ever grants more than one full bucket and the refill, beyond
\* what is credited twice: in Redis one wait for every lost link, in memory
\* one wait.
THEOREM BudgetsKept == Spec => []WithinBudget
<1>1. IInv => WithinBudget BY Excess DEF WithinBudget
<1> QED BY <1>1, Invariance, PTL

\* The same for the requests of one penalty and its lower capacity.
THEOREM PenaltiesBite == Spec => []PenaltyBites
<1>1. IInv => PenaltyBites BY Excess DEF PenaltyBites
<1> QED BY <1>1, Invariance, PTL

LEMMA RoundedUp ==
  ASSUME NEW c \in Nat \ {0}, NEW d \in Nat \ {0}
  PROVE  (d + c - 1) \div c \in Nat /\ d <= c * ((d + c - 1) \div c)
<1> DEFINE n == d + c - 1
           k == n \div c
<1>1. n \in Nat OBVIOUS
<1> HIDE DEF n
<1>2. k \in Nat /\ c * k <= n /\ n < c * (k + 1) BY <1>1
<1> HIDE DEF k
<1>3. c * (k + 1) = c * k + c /\ c * k \in Nat BY <1>2
<1> QED BY <1>1, <1>2, <1>3 DEF n, k

\* A refused client that waits as long as it is told is let through.
THEOREM RetriesHonest == Spec => []RetryAfterHonest
<1>1. IInv => RetryAfterHonest
  <2> SUFFICES ASSUME IInv, NEW s \in Stores, NEW c \in {Capacity, PenaltyCapacity},
                      ~Allows(bucket[s], c, clock)
               PROVE  Allows(Evaluated(bucket[s], c, clock), c,
                             clock + RetryAfter(bucket[s], c, clock))
    BY DEF RetryAfterHonest
  <2> DEFINE b == bucket[s]
             f == Filled(b, c, clock)
             e == Evaluated(b, c, clock)
             r == RetryAfter(b, c, clock)
  <2>1. clock \in Nat /\ b \in Live BY InvariantFacts DEF IInv, Typed
  <2>2. c \in Nat \ {0} /\ c * Window \in Nat OBVIOUS
  <2>3. f \in Nat /\ f < Window
    <3>1. f \in Nat BY <2>1, FilledBounds
    <3> QED BY <3>1 DEF Allows
  <2>4. e = [tokens |-> f, lastRefill |-> clock] /\ e # Absent
    <3>1. e = [tokens |-> f - 0, lastRefill |-> clock] BY DEF Evaluated
    <3>2. f - 0 = f BY <2>3
    <3>3. e.tokens = f BY <3>1, <3>2
    <3>4. e # Absent
      <4> HIDE DEF e, f
      <4> QED BY <2>3, <3>3, AbsentBucket
    <3> QED BY <3>1, <3>2, <3>4
  <2> DEFINE d == Window - f
  <2>5. d \in Nat \ {0} BY <2>3
  <2>6. r = (d + c - 1) \div c BY DEF RetryAfter
  <2> HIDE DEF d
  <2>7. r \in Nat /\ d <= c * r
    <3> HIDE DEF r
    <3> QED BY <2>2, <2>5, <2>6, RoundedUp
  <2> HIDE DEF f, e, r, b
  <2>8. Filled(e, c, clock + r) = AtMost(c * Window, f + r * c)
    <3>1. AtLeast(0, (clock + r) - clock) = r BY <2>1, <2>7 DEF AtLeast
    <3> QED BY <2>4, <3>1 DEF Filled
  <2>9. Window <= c * Window
    <3>1. Window * 1 <= Window * c BY <2>2, TimesMonotone
    <3> QED BY <3>1, <2>2
  <2>10. Window <= f + r * c /\ r * c \in Nat
    <3>1. r * c = c * r /\ r * c \in Nat BY <2>2, <2>7
    <3> QED BY <2>3, <2>7, <3>1 DEF d
  <2>11. Filled(e, c, clock + r) >= Window BY <2>2, <2>3, <2>8, <2>9, <2>10 DEF AtMost
  <2> QED BY <2>11 DEF Allows, e, r, b
<1> QED BY <1>1, Invariance, PTL
=============================================================================
