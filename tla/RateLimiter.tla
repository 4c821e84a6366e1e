---------------------------- MODULE RateLimiter ----------------------------
(***************************************************************************)
(* The token bucket of one client, kept in Redis or in the gateway's own   *)
(* memory.  The middleware reads the client's capacity and the clock and   *)
(* awaits Redis; the answer comes after other requests have been decided,  *)
(* after the link has been lost and redialled, or not at all, and then the *)
(* same capacity and clock reading are used on the bucket in memory.       *)
(*                                                                         *)
(* Tokens are counted in shares of 1/Window, so that capacity / windowMs   *)
(* tokens per millisecond are `capacity' shares per tick: a request costs  *)
(* Window shares and a full bucket holds capacity * Window.                *)
(*                                                                         *)
(* `ideal', `penal' and `rewound' are history: for each store a bucket     *)
(* that nothing rewinds, evicts or replaces, holding what the limit, and   *)
(* the penalty since it began, would still allow, and the ticks by which   *)
(* older readings have put the live bucket's lastRefill back.              *)
(***************************************************************************)
EXTENDS RedisLink

CONSTANTS
  Capacity,           \* config.security.rateLimit.maxRequests
  Window,             \* config.security.rateLimit.windowMs, in ticks
  PenaltyCapacity,    \* maxRequests of a penalty
  PenaltyTime,        \* its duration
  Slack,              \* the 60 s that a key outlives its window
  EvictAfter,         \* idle time of an evicted memory bucket
  MaxWait,            \* ticks in which the link is redialled or given up
  MaxTime,            \* bound: the clock
  MaxRequests,        \* bound: requests of the client
  MaxOthers           \* bound: cache flushes and penalties in a behaviour

ASSUME LimiterAssumption ==
  /\ Capacity \in Nat \ {0} /\ Window \in Nat \ {0} /\ PenaltyCapacity \in Nat \ {0}
  /\ PenaltyCapacity <= Capacity /\ PenaltyTime \in Nat \ {0}
  /\ MaxWait \in Nat /\ Slack \in Nat /\ MaxWait <= Slack
  /\ EvictAfter \in Nat /\ Window + MaxWait <= EvictAfter + 1
  /\ {MaxTime, MaxRequests, MaxOthers} \subseteq Nat

VARIABLES
  clock,              \* Date.now()
  link,               \* the connection to Redis
  queue,              \* evaluations that await Redis, in order
  bucket,             \* bucket["redis"], bucket["memory"]
  expires,            \* when the Redis key expires
  penalty,            \* expiresAt of the client's penalty, NoPenalty without
  arrived, others,    \* requests, and flushes and penalties, so far
  ideal, penal, rewound,         \* history
  since               \* history: when the penalty in force began

vars == <<clock, link, queue, bucket, expires, penalty, arrived, others,
          ideal, penal, rewound, since>>
counters == <<arrived, others>>

Stores == {"redis", "memory"}
Absent == [tokens |-> -1, lastRefill |-> -1]
NoPenalty == -1
Full(c, t) == [tokens |-> c * Window, lastRefill |-> t]

Init ==
  /\ clock = 0 /\ link \in InitLinks /\ queue = << >>
  /\ bucket = [s \in Stores |-> Absent] /\ expires = 0
  /\ penalty = NoPenalty
  /\ arrived = 0 /\ others = 0
  /\ ideal = [s \in Stores |-> Full(Capacity, 0)]
  /\ penal = [s \in Stores |-> Full(PenaltyCapacity, 0)]
  /\ rewound = [s \in Stores |-> 0] /\ since = 0

-----------------------------------------------------------------------------
(* One evaluation: the Lua script and evalTokenBucketMemory are the same   *)
(* arithmetic.                                                             *)

AtLeast(a, b) == IF a < b THEN b ELSE a
AtMost(a, b) == IF a > b THEN b ELSE a

\* Mutant: the bucket is not capped.
Filled_Uncapped(b, c, now) ==
  IF b = Absent THEN c * Window ELSE b.tokens + AtLeast(0, now - b.lastRefill) * c

\* Mutant: it is capped at the configured capacity, not the request's.
Filled_ConfigCap(b, c, now) ==
  IF b = Absent THEN c * Window
  ELSE AtMost(Capacity * Window, b.tokens + AtLeast(0, now - b.lastRefill) * c)

\* The shares in a bucket when a request with capacity c reads it at `now'.
Filled(b, c, now) ==
  IF b = Absent THEN c * Window
  ELSE AtMost(c * Window, b.tokens + AtLeast(0, now - b.lastRefill) * c)

Allows(b, c, now) == Filled(b, c, now) >= Window

\* Mutant: a refusal is charged too.
Evaluated_Always(b, c, now) == [tokens |-> Filled(b, c, now) - Window, lastRefill |-> now]

Evaluated(b, c, now) ==
  [tokens |-> Filled(b, c, now) - (IF Allows(b, c, now) THEN Window ELSE 0),
   lastRefill |-> now]

\* Mutant: rounded down.
RetryAfter_Floor(b, c, now) == (Window - Filled(b, c, now)) \div c

\* retryAfterMs of a refusal: ceil(missing / refillRate)
RetryAfter(b, c, now) == (Window - Filled(b, c, now) + c - 1) \div c

-----------------------------------------------------------------------------
(* What an evaluation in a store does, history included: h is the record   *)
(* of the store's bucket and its history, q the request at its await.      *)

Held == penalty # NoPenalty /\ clock < penalty

\* The penalty in force when q is decided was in force when it arrived.
UnderPenalty(q) == Held /\ q.held /\ q.now >= since

\* What the limit allows less one request, c per window.
Spent(a, c, now) ==
  [tokens |-> AtMost(c * Window, a.tokens + AtLeast(0, now - a.lastRefill) * c) - Window,
   lastRefill |-> AtLeast(a.lastRefill, now)]

Books(s) == [bucket |-> bucket[s], ideal |-> ideal[s], penal |-> penal[s],
             rewound |-> rewound[s]]

\* A decision that is not answered lets nobody in.
Decide(h, q, answered) ==
  LET granted == answered /\ Allows(h.bucket, q.capacity, q.now) IN
  [bucket |-> Evaluated(h.bucket, q.capacity, q.now),
   ideal |-> IF granted THEN Spent(h.ideal, Capacity, q.now) ELSE h.ideal,
   penal |-> IF granted /\ UnderPenalty(q) THEN Spent(h.penal, PenaltyCapacity, q.now) ELSE h.penal,
   rewound |-> IF h.bucket = Absent THEN h.rewound
               ELSE h.rewound + AtLeast(0, h.bucket.lastRefill - q.now)]

\* The books of store s when the requests qs are decided, one after the other.
After(s, qs, answered) ==
  LET after[k \in 0..Len(qs)] ==
        IF k = 0 THEN Books(s) ELSE Decide(after[k - 1], qs[k], answered)
  IN  after[Len(qs)]

Write(s, h) ==
  /\ bucket' = [bucket EXCEPT ![s] = h.bucket]
  /\ ideal' = [ideal EXCEPT ![s] = h.ideal]
  /\ penal' = [penal EXCEPT ![s] = h.penal]
  /\ rewound' = [rewound EXCEPT ![s] = h.rewound]

DecideAll(s, qs) == Write(s, After(s, qs, TRUE))

books == <<bucket, ideal, penal, rewound>>

-----------------------------------------------------------------------------
(* The middleware.                                                         *)

\* What the middleware reads before its await; an expired penalty is deleted.
Reading ==
  [now |-> clock, held |-> Held,
   capacity |-> IF Held THEN PenaltyCapacity ELSE Capacity]

\* With the flag set but a client at hand the request still goes to Redis,
\* where a client that is redialling keeps it and one that has ended refuses.
AsksRedis == IsActive(link) /\ link.status # "none"

Arrive ==
  /\ arrived < MaxRequests
  /\ arrived' = arrived + 1
  /\ penalty' = IF Held THEN penalty ELSE NoPenalty
  /\ IF AsksRedis /\ link.status # "end"
     THEN queue' = Append(queue, Reading) /\ UNCHANGED books
     ELSE DecideAll("memory", <<Reading>>) /\ UNCHANGED queue
  /\ UNCHANGED <<clock, link, expires, others, since>>

\* Redis runs the script for the oldest request and its answer arrives.
Answer ==
  /\ link.status = "ready" /\ queue # << >>
  /\ DecideAll("redis", <<Head(queue)>>)
  /\ queue' = Tail(queue)
  /\ expires' = clock + Window + Slack
  /\ UNCHANGED <<clock, link, penalty, counters, since>>

\* The link is lost when some of the scripts it was sent, the oldest first,
\* have run and not been answered.  Once the link is ready the client sends all
\* of them again: they are charged twice, and the oldest puts lastRefill back.
\* The bucket of a link that has ended is never read again.
AnswerLost ==
  /\ link.status = "ready"
  /\ Drops(link, link') /\ link'.status # "end"
  /\ \E k \in 1..Len(queue) : Write("redis", After("redis", SubSeq(queue, 1, k), FALSE))
  /\ expires' = clock + Window + Slack
  /\ UNCHANGED <<clock, queue, penalty, counters, since>>

\* The link changes.  When it ends every waiting evaluation fails, and its
\* request is decided in memory.
LinkStep ==
  /\ \/ Opens(link, link') \/ Readies(link, link') \/ Redials(link, link')
     \/ Refuses(link, link') \/ Drops(link, link')
  /\ IF link'.status = "end"
     THEN DecideAll("memory", queue) /\ queue' = << >>
     ELSE UNCHANGED <<queue, books>>
  /\ UNCHANGED <<clock, expires, penalty, counters, since>>

-----------------------------------------------------------------------------
(* Beside the requests.                                                    *)

\* applyPenalty, called by the anomaly detector
ApplyPenalty ==
  /\ others < MaxOthers
  /\ others' = others + 1
  /\ penalty' = clock + PenaltyTime
  /\ IF Held THEN UNCHANGED <<penal, since>>
     ELSE penal' = [s \in Stores |-> Full(PenaltyCapacity, clock)] /\ since' = clock
  /\ UNCHANGED <<clock, link, queue, bucket, expires, arrived, ideal, rewound>>

\* The five-minute sweep of idle memory buckets and expired penalties.
Cleanup ==
  /\ bucket' = [bucket EXCEPT !["memory"] =
                  IF @ # Absent /\ clock - @.lastRefill > EvictAfter THEN Absent ELSE @]
  /\ penalty' = IF clock > penalty THEN NoPenalty ELSE penalty
  /\ UNCHANGED <<clock, link, queue, expires, counters, ideal, penal, rewound, since>>

\* DELETE /api/cache empties the whole database, token buckets included.  The
\* history starts afresh at the reading of the oldest request that waits.
FlushDb ==
  LET from == IF queue = << >> THEN clock ELSE Head(queue).now IN
  /\ link.status = "ready" /\ others < MaxOthers
  /\ others' = others + 1
  /\ bucket' = [bucket EXCEPT !["redis"] = Absent]
  /\ ideal' = [ideal EXCEPT !["redis"] = Full(Capacity, from)]
  /\ penal' = [penal EXCEPT !["redis"] = Full(PenaltyCapacity, from)]
  /\ UNCHANGED <<clock, link, queue, expires, penalty, arrived, rewound, since>>

\* Time passes, and Redis forgets an expired key.
Tick ==
  /\ clock < MaxTime
  /\ queue # << >> => clock - Head(queue).now < MaxWait
  /\ clock' = clock + 1
  /\ bucket' = IF clock' >= expires THEN [bucket EXCEPT !["redis"] = Absent] ELSE bucket
  /\ UNCHANGED <<link, queue, expires, penalty, counters, ideal, penal, rewound, since>>

Next ==
  \/ Arrive \/ Answer \/ AnswerLost \/ LinkStep
  \/ ApplyPenalty \/ Cleanup \/ FlushDb \/ Tick

Spec == Init /\ [][Next]_vars /\ WF_vars(Answer) /\ WF_vars(LinkStep /\ ~Drops(link, link'))

-----------------------------------------------------------------------------
(* Properties.                                                             *)

Bucket == {Absent} \cup [tokens : 0..(Capacity * Window), lastRefill : 0..MaxTime]

\* A bucket never holds a debt or more than its capacity, and every
\* evaluation that waits has a reading of the clock that is not newer than now.
TypeOK ==
  /\ clock \in 0..MaxTime /\ link \in Link /\ expires \in Nat
  /\ bucket \in [Stores -> Bucket]
  /\ penalty \in {NoPenalty} \cup Nat
  /\ \A i \in DOMAIN queue :
       queue[i].now <= clock /\ queue[i].capacity \in {Capacity, PenaltyCapacity}
  /\ rewound \in [Stores -> Nat] /\ since \in 0..clock

\* In any stretch of time each store grants no more than one full bucket and
\* the refill of that stretch, whatever penalties came and went, however late
\* Redis answered, and although keys expire and buckets are evicted, but for
\* the time that is credited twice when a late reading puts lastRefill back.
\* That is at most one wait for every lost link in Redis, which then runs
\* again what it had run, and one wait in memory, for what an ended link
\* leaves to it.
WithinBudget ==
  /\ ideal["redis"].tokens >= -(Capacity * (MaxWait * link.drops))
  /\ ideal["memory"].tokens >= -(Capacity * MaxWait)

\* The same for the requests that arrive and are decided under one penalty,
\* and its capacity: a penalty bites at once, however full the live bucket was
\* and whatever arrived before it and is decided in between.
PenaltyBites ==
  /\ penal["redis"].tokens >= -(Capacity * (MaxWait * link.drops))
  /\ penal["memory"].tokens >= -(Capacity * MaxWait)

\* A refused client that waits as long as it is told is let through, if
\* nothing else happens to its bucket.
RetryAfterHonest ==
  \A s \in Stores, c \in {Capacity, PenaltyCapacity} :
    ~Allows(bucket[s], c, clock) =>
      Allows(Evaluated(bucket[s], c, clock), c, clock + RetryAfter(bucket[s], c, clock))

\* No request waits for ever: Redis answers it, or the link is given up and
\* memory decides.
Decided == queue # << >> ~> queue = << >>
=============================================================================
