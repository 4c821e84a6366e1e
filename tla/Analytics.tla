----------------------------- MODULE Analytics ------------------------------
(***************************************************************************)
(* The analytics of the gateway: the collector that logs every finished    *)
(* response, the database manager (MongoDB, or two arrays in memory when   *)
(* the first connection fails), and the worker that every ten seconds      *)
(* rolls the logs of the current minute up into one aggregate.             *)
(*                                                                         *)
(* A log is its timestamp and an aggregate the number of logs it stands    *)
(* for; latencies, status codes and bytes are summed alongside and kept in *)
(* the same document.  In memory a rollup is one step.  With MongoDB the   *)
(* writes, the aggregation and the replacement are answered later, in any  *)
(* order, and may fail with or without effect.                             *)
(***************************************************************************)
EXTENDS Naturals, FiniteSets, SequencesExt

CONSTANTS
  Minute,             \* ticks in 60000 ms
  Interval,           \* ticks in intervalMs
  MaxLogs,            \* capacity of memoryLogs
  MaxAggregates,      \* capacity of memoryAggregates
  MaxTime             \* bound: the clock

ASSUME AnalyticsAssumption ==
  /\ {Minute, Interval, MaxLogs, MaxAggregates} \subseteq Nat \ {0}
  /\ MaxTime \in Nat /\ Interval < Minute

VARIABLES
  clock,              \* Date.now()
  mode,               \* what the database manager writes to
  logs,               \* request_logs, the oldest first
  writes,             \* logs whose insertion MongoDB has not answered
  aggregates,         \* analytics_aggregates
  rollups,            \* rollups that await MongoDB
  running,            \* the worker's flag
  due,                \* when its interval fires next, Stopped if cleared
  recorded            \* history: the logs handed to insertOne, in order

database == <<mode, logs, writes, aggregates>>
worker == <<rollups, running>>

Modes == {"disabled", "connecting", "memory", "mongo"}
Stopped == MaxTime + Interval + 1
Bucket(t) == t \div Minute
Times(b) == {t \in 0..MaxTime : Bucket(t) = b}

InitAnalytics ==
  /\ clock = 0 /\ mode \in {"disabled", "connecting"}
  /\ logs = << >> /\ writes = << >> /\ aggregates = << >>
  /\ rollups = << >> /\ running = FALSE /\ due = Interval
  /\ recorded = << >>

-----------------------------------------------------------------------------
(* The database manager.                                                   *)

\* The one attempt to connect ends, and with it the choice of the store.
Connect ==
  /\ mode = "connecting" /\ mode' \in {"memory", "mongo"}
  /\ UNCHANGED <<clock, logs, writes, aggregates, worker, due, recorded>>

IsActive == mode \in {"memory", "mongo"}

\* Mutant: a full array drops what is new, not what is old.
Capped_Newest(s, capacity) == IF Len(s) > capacity THEN Front(s) ELSE s

\* Mutant: the array is not capped.
Capped_Never(s, capacity) == s

Capped(s, capacity) == IF Len(s) > capacity THEN Tail(s) ELSE s

\* The collector's insertOne for a response that finishes now.
RecordTransaction ==
  /\ logs' = IF mode = "memory" THEN Capped(Append(logs, clock), MaxLogs) ELSE logs
  /\ writes' = IF mode = "mongo" THEN Append(writes, clock) ELSE writes
  /\ recorded' = IF IsActive THEN Append(recorded, clock) ELSE recorded

\* MongoDB answers an insertion; one that fails is logged and forgotten.
WriteLands ==
  \E i \in DOMAIN writes :
    /\ writes' = RemoveAt(writes, i)
    /\ logs' \in {logs, Append(logs, writes[i])}
    /\ UNCHANGED <<clock, mode, aggregates, worker, due, recorded>>

\* findIndex by timeBucket, then replace or push; replaceOne with upsert.
Upserted(s, doc) ==
  IF \E i \in DOMAIN s : s[i].bucket = doc.bucket
  THEN [i \in DOMAIN s |-> IF s[i].bucket = doc.bucket THEN doc ELSE s[i]]
  ELSE Append(s, doc)

\* aggregateLogs and the $match stage.
Among(s, T) == Cardinality({i \in DOMAIN s : s[i] \in T})
Counted(b) == Among(logs, Times(b))

-----------------------------------------------------------------------------
(* The worker.                                                             *)

InMemory(doc) ==
  /\ aggregates' = IF doc.count > 0 THEN Capped(Upserted(aggregates, doc), MaxAggregates)
                   ELSE aggregates
  /\ UNCHANGED worker

\* Mutant: a rollup begins although the last one has not ended.
MayRun_Overlapping == IsActive

MayRun == IsActive /\ ~running

\* runRollup up to its first await.
RunRollup ==
  \/ ~MayRun /\ UNCHANGED <<aggregates, worker>>
  \/ MayRun /\ mode = "memory"
     /\ InMemory([bucket |-> Bucket(clock), count |-> Counted(Bucket(clock))])
  \/ MayRun /\ mode = "mongo" /\ running' = TRUE
     /\ rollups' = Append(rollups, [bucket |-> Bucket(clock), count |-> 0])
     /\ UNCHANGED aggregates

IntervalFires ==
  /\ clock = due /\ due' = due + Interval
  /\ RunRollup
  /\ UNCHANGED <<clock, mode, logs, writes, recorded>>

Ends(i) == rollups' = RemoveAt(rollups, i) /\ running' = FALSE

\* The aggregation is run; if it finds nothing or fails, the rollup ends.
Aggregate ==
  \E i \in DOMAIN rollups :
    /\ rollups[i].count = 0
    /\ \/ /\ Counted(rollups[i].bucket) > 0
          /\ rollups' = [rollups EXCEPT ![i].count = Counted(rollups[i].bucket)]
          /\ UNCHANGED running
       \/ Ends(i)
    /\ UNCHANGED <<clock, database, due, recorded>>

\* replaceOne is run, or fails, and the rollup ends.
Replace ==
  \E i \in DOMAIN rollups :
    /\ rollups[i].count > 0
    /\ aggregates' \in {aggregates, Upserted(aggregates, rollups[i])}
    /\ Ends(i)
    /\ UNCHANGED <<clock, mode, logs, writes, due, recorded>>
=============================================================================
