------------------------------ MODULE Lifecycle -----------------------------
(***************************************************************************)
(* The life of the process: its listeners, the responses in flight, the    *)
(* analytics that record them, and the shutdown that each SIGTERM or       *)
(* SIGINT starts: stop the timers, stop listening, wait for the plain HTTP *)
(* connections, close Redis, close MongoDB, exit with code 0 - or exit     *)
(* with code 1 when the deadline comes first.                              *)
(*                                                                         *)
(* Timers fire at their time: the clock waits for those that are due.      *)
(***************************************************************************)
EXTENDS Analytics

CONSTANTS
  Deadline,           \* ticks in the 10000 ms of gracefulShutdown
  MaxRequests,        \* bound: requests
  MaxSignals          \* bound: signals

ASSUME LifecycleAssumption == Deadline \in Nat \ {0} /\ {MaxRequests, MaxSignals} \subseteq Nat

VARIABLES
  exit,               \* the exit code, or "alive"
  https,              \* the TLS listener
  listening,          \* the HTTP server accepts connections
  open,               \* open[l]: connections of listener l with a request
  arrived,            \* requests so far
  closing,            \* closing[s]: the shutdown that signal s began
  deadline            \* when the first of their timers fires, 0 before

process == <<exit, https, listening, open, arrived, closing, deadline>>
vars == <<clock, database, worker, due, recorded, process>>

Listeners == {"http", "https"}
Signals == 1..MaxSignals
Stages == {"none", "server", "cache", "database"}

\* The callback of listen: both timers run, and TLS is off, has no
\* certificate to read, or is about to listen.
Init ==
  /\ InitAnalytics
  /\ exit = "alive" /\ https \in {"none", "opening"} /\ listening = TRUE
  /\ open = [l \in Listeners |-> 0] /\ arrived = 0
  /\ closing = [s \in Signals |-> "none"] /\ deadline = 0

\* The TLS port is taken over, or in use: an error event without a handler,
\* hence an uncaught exception.
HttpsOpens ==
  /\ https = "opening"
  /\ \/ https' = "up" /\ UNCHANGED exit
     \/ exit' = "1" /\ UNCHANGED https
  /\ UNCHANGED <<clock, database, worker, due, recorded, listening, open, arrived, closing, deadline>>

Accepts(l) == IF l = "http" THEN listening ELSE https = "up"

Arrive(l) ==
  /\ arrived < MaxRequests /\ Accepts(l)
  /\ arrived' = arrived + 1 /\ open' = [open EXCEPT ![l] = @ + 1]
  /\ UNCHANGED <<clock, database, worker, due, recorded, exit, https, listening, closing, deadline>>

\* The response finishes and is recorded; the connection ends, or its client
\* sends the next request on it, whether the server still listens or not.
Finish(l) ==
  /\ open[l] > 0
  /\ RecordTransaction
  /\ \/ open' = [open EXCEPT ![l] = @ - 1] /\ UNCHANGED arrived
     \/ arrived < MaxRequests /\ arrived' = arrived + 1 /\ UNCHANGED open
  /\ UNCHANGED <<clock, mode, aggregates, worker, due, exit, https, listening, closing, deadline>>

\* The client closes its connection first: no `finish', nothing is recorded.
Leave(l) ==
  /\ open[l] > 0 /\ open' = [open EXCEPT ![l] = @ - 1]
  /\ UNCHANGED <<clock, database, worker, due, recorded, exit, https, listening, arrived, closing, deadline>>

-----------------------------------------------------------------------------
(* Shutdown.                                                               *)

\* gracefulShutdown: only the HTTP server is closed.
Signal(s) ==
  /\ closing[s] = "none" /\ \A r \in 1..(s - 1) : closing[r] # "none"
  /\ clock + Deadline <= MaxTime
  /\ closing' = [closing EXCEPT ![s] = "server"]
  /\ due' = Stopped /\ listening' = FALSE
  /\ deadline' = IF deadline = 0 THEN clock + Deadline ELSE deadline
  /\ UNCHANGED <<clock, database, worker, recorded, exit, https, open, arrived>>

\* Mutant: the server closes without waiting for the responses in flight.
Drained_Always == TRUE

Drained == open["http"] = 0

\* The `close' event, for every callback that waits for it.
ServerCloses ==
  /\ Drained /\ \E s \in Signals : closing[s] = "server"
  /\ closing' = [s \in Signals |-> IF closing[s] = "server" THEN "cache" ELSE closing[s]]
  /\ UNCHANGED <<clock, database, worker, due, recorded, exit, https, listening, open, arrived, deadline>>

\* cacheService.close() returns, then analyticsDb.close(), each after its
\* answer or its error, and the process exits.
CacheCloses(s) ==
  /\ closing[s] = "cache" /\ closing' = [closing EXCEPT ![s] = "database"]
  /\ UNCHANGED <<clock, database, worker, due, recorded, exit, https, listening, open, arrived, deadline>>

DatabaseCloses(s) ==
  /\ closing[s] = "database" /\ exit' = "0"
  /\ UNCHANGED <<clock, database, worker, due, recorded, https, listening, open, arrived, closing, deadline>>

DeadlinePasses ==
  /\ deadline > 0 /\ clock = deadline /\ exit' = "1"
  /\ UNCHANGED <<clock, database, worker, due, recorded, https, listening, open, arrived, closing, deadline>>

Tick ==
  /\ clock < MaxTime /\ clock \notin {due, deadline} \ {0}
  /\ clock' = clock + 1
  /\ UNCHANGED <<database, worker, due, recorded, process>>

-----------------------------------------------------------------------------

Analyse == (Connect \/ WriteLands \/ IntervalFires \/ Aggregate \/ Replace) /\ UNCHANGED process

Next ==
  /\ exit = "alive"
  /\ \/ HttpsOpens \/ Analyse \/ ServerCloses \/ DeadlinePasses \/ Tick
     \/ \E l \in Listeners : Arrive(l) \/ Finish(l) \/ Leave(l)
     \/ \E s \in Signals : Signal(s) \/ CacheCloses(s) \/ DatabaseCloses(s)

\* The event loop runs the timers that are due, and time goes on.
Spec ==
  /\ Init /\ [][Next]_vars
  /\ WF_vars(exit = "alive" /\ (Tick \/ DeadlinePasses \/ (IntervalFires /\ UNCHANGED process)))

-----------------------------------------------------------------------------
(* Properties.                                                             *)

Documents == [bucket : 0..Bucket(MaxTime), count : 0..MaxRequests]
Recorded(T) == Among(recorded, T)
CountOf(b) == {aggregates[i].count : i \in {j \in DOMAIN aggregates : aggregates[j].bucket = b}}

\* The arrays never exceed their capacity, a minute has one aggregate, and
\* the worker's flag is up exactly while its one rollup awaits MongoDB.
TypeOK ==
  /\ clock \in 0..MaxTime /\ mode \in Modes /\ due \in clock..Stopped
  /\ Range(logs) \cup Range(writes) \subseteq 0..clock
  /\ Range(aggregates) \cup Range(rollups) \subseteq Documents
  /\ mode = "memory" => Len(logs) <= MaxLogs /\ Len(aggregates) <= MaxAggregates
  /\ \A b \in 0..Bucket(MaxTime) : Cardinality({i \in DOMAIN aggregates : aggregates[i].bucket = b}) <= 1
  /\ Len(rollups) = IF running THEN 1 ELSE 0
  /\ exit \in {"alive", "0", "1"} /\ https \in {"none", "opening", "up"} /\ listening \in BOOLEAN
  /\ open \in [Listeners -> 0..MaxRequests] /\ arrived \in 0..MaxRequests
  /\ closing \in [Signals -> Stages] /\ deadline \in 0..MaxTime

\* No aggregate counts more responses than its minute has seen.  In memory
\* one that is not evicted counts, once its minute is over, at least those
\* that finished one interval before the end (the last MaxLogs of them).
AggregateAccurate ==
  \A b \in 0..Bucket(MaxTime) :
    /\ \A n \in CountOf(b) : n <= Recorded(Times(b))
    /\ LET settled == Recorded({t \in Times(b) : t + Interval \in Times(b)})
       IN mode = "memory" /\ deadline = 0 /\ Bucket(clock) \in (b + 1)..(b + MaxAggregates - 1)
          /\ settled > 0
          => \E n \in CountOf(b) : n >= settled \/ n >= MaxLogs

\* A later rollup of a minute never takes a response back, whatever is
\* evicted from the log in between and however late MongoDB answers.
CountsGrow ==
  [][\A b \in 0..Bucket(MaxTime) : \A n \in CountOf(b) :
       \A k \in CountOf(b)' : k >= n]_vars

\* index.js:19, "Waits for in-flight requests to complete", of a shutdown that
\* "Exits with code 0" (line 21).  Violated: over TLS it does not wait.
InFlightComplete == exit = "0" => \A l \in Listeners : open[l] = 0

\* What is left of it: a signal ends the process within the deadline, and with
\* code 0 only when no request over plain HTTP is cut off.
ShutdownEnds ==
  (closing # [s \in Signals |-> "none"]) ~>
    (exit = "1" \/ (exit = "0" /\ open["http"] = 0))
=============================================================================
