------------------------------- MODULE Cache -------------------------------
(***************************************************************************)
(* The response cache for one URL: the middleware that looks it up and     *)
(* stores what the backend answered, the service with its two stores       *)
(* (Redis, and memory while the fallback is on), and the routes that purge *)
(* it.                                                                     *)
(*                                                                         *)
(* Every use of Redis is a command that waits in `queue' for its answer;   *)
(* between the command and the answer other requests run, the link is lost *)
(* and redialled (the commands are sent again) or given up (they fail).    *)
(* What fails is swallowed by cacheService.js: a lookup counts as a miss,  *)
(* a store or a purge as done.                                             *)
(*                                                                         *)
(* Requests for the same URL are alike, so they are counted, not named.    *)
(***************************************************************************)
EXTENDS RedisLink, FiniteSets

CONSTANTS
  TTL,                \* config.cache.ttl
  MaxWait,            \* ticks in which the link is redialled or given up
  MaxTime,            \* bound: the clock
  MaxRequests,        \* bound: requests
  MaxPurges           \* bound: purges

ASSUME CacheAssumption == TTL \in Nat \ {0} /\ {MaxWait, MaxTime, MaxRequests, MaxPurges} \subseteq Nat

VARIABLES
  clock,              \* Date.now()
  link,               \* the connection to Redis
  queue,              \* commands that await Redis, in order
  store,              \* store["redis"], store["memory"]: the URL's entry
  inflight,           \* misses whose response is intercepted
  arrived, hits, misses, bypasses,     \* requests, and the statistics
  lost,               \* misses whose client left before the end
  stored, purges,     \* entries and purges so far
  purged              \* purged[s]: entries written before the last purge of s

vars == <<clock, link, queue, store, inflight, arrived, hits, misses, bypasses,
          lost, stored, purges, purged>>
stats == <<arrived, hits, misses, bypasses, lost>>
purging == <<purges, purged>>

Stores == {"redis", "memory"}
Nothing == [id |-> 0, born |-> 0, expires |-> 0]
Kinds == {"get", "set", "keys", "del", "flushdb"}
\* `id' is the entry of a set, and for the commands of a purge the last entry
\* written before it began.
Command(kind, id) == [kind |-> kind, id |-> id, at |-> clock]

Init ==
  /\ clock = 0 /\ link \in InitLinks /\ queue = << >>
  /\ store = [s \in Stores |-> Nothing]
  /\ inflight = 0 /\ arrived = 0 /\ hits = 0 /\ misses = 0 /\ bypasses = 0
  /\ lost = 0 /\ stored = 0 /\ purges = 0
  /\ purged = [s \in Stores |-> 0]

-----------------------------------------------------------------------------
(* The middleware.                                                         *)

\* Mutant: the entry in memory is served without a look at its expiry.
Live_Unchecked(e) == e # Nothing

\* get() in memory: an entry past its expiry is deleted, not served.
Live(e) == e # Nothing /\ clock <= e.expires

MemoryLookup ==
  /\ link.useMemoryFallback
  /\ \/ /\ Live(store["memory"])
        /\ hits' = hits + 1 /\ UNCHANGED <<store, inflight>>
     \/ /\ ~Live(store["memory"])
        /\ store' = [store EXCEPT !["memory"] = Nothing]
        /\ inflight' = inflight + 1 /\ UNCHANGED hits
  /\ UNCHANGED <<queue, bypasses>>

\* Mutant: the lookup asks Redis whatever the state of its link.
RedisLookup_Unguarded ==
  /\ queue' = Append(queue, Command("get", 0))
  /\ UNCHANGED <<store, inflight, hits, bypasses>>

RedisLookup ==
  /\ link.status = "ready" /\ ~link.useMemoryFallback
  /\ queue' = Append(queue, Command("get", 0))
  /\ UNCHANGED <<store, inflight, hits, bypasses>>

\* No cache, or a request that may not be cached: another method, an API
\* path, no-cache.
Bypass ==
  /\ bypasses' = bypasses + 1
  /\ UNCHANGED <<queue, store, inflight, hits>>

Request ==
  /\ arrived < MaxRequests
  /\ arrived' = arrived + 1
  /\ MemoryLookup \/ RedisLookup \/ Bypass
  /\ UNCHANGED <<clock, link, misses, lost, stored, purging>>

\* set(): to the store that is active when the response ends.
Store(id) ==
  IF link.useMemoryFallback
  THEN /\ store' = [store EXCEPT !["memory"] =
                      [id |-> id, born |-> clock, expires |-> clock + TTL]]
       /\ UNCHANGED queue
  ELSE /\ queue' = IF link.status = "ready" THEN Append(queue, Command("set", id))
                   ELSE queue
       /\ UNCHANGED store

\* The intercepted res.end; only a 200 is stored, and nobody awaits it.
End ==
  /\ inflight > 0
  /\ inflight' = inflight - 1 /\ misses' = misses + 1
  /\ \/ UNCHANGED <<store, queue, stored>>
     \/ stored' = stored + 1 /\ Store(stored + 1)
  /\ UNCHANGED <<clock, link, arrived, hits, bypasses, lost, purging>>

\* The client leaves and the response never ends: nothing is counted.
Leave ==
  /\ inflight > 0
  /\ inflight' = inflight - 1 /\ lost' = lost + 1
  /\ UNCHANGED <<clock, link, queue, store, arrived, hits, misses, bypasses, stored, purging>>

-----------------------------------------------------------------------------
(* The purges: DELETE /api/cache and DELETE /api/cache/invalidate.         *)

\* KEYS, to be followed by DEL, or FLUSHDB; in memory at once.
Purge ==
  /\ purges < MaxPurges /\ purges' = purges + 1
  /\ \/ /\ link.useMemoryFallback
        /\ store' = [store EXCEPT !["memory"] = Nothing]
        /\ purged' = [purged EXCEPT !["memory"] = stored]
        /\ UNCHANGED queue
     \/ /\ link.status = "ready" /\ ~link.useMemoryFallback
        /\ \E kind \in {"keys", "flushdb"} : queue' = Append(queue, Command(kind, stored))
        /\ UNCHANGED <<store, purged>>
  /\ UNCHANGED <<clock, link, inflight, stats, stored>>

-----------------------------------------------------------------------------
(* Redis.                                                                  *)

Entry(c) == [id |-> c.id, born |-> c.at, expires |-> clock + TTL]

\* The entry in Redis after command c.
Executed(c) ==
  CASE c.kind = "set" -> Entry(c)
    [] c.kind \in {"del", "flushdb"} -> Nothing
    [] OTHER -> store["redis"]

Cached == store["redis"] # Nothing

\* Mutant: the keys that were found are not deleted.
Continued_NoDelete(c) == Tail(queue)

\* A KEYS that has found something goes on with a DEL.
Continued(c) ==
  IF c.kind = "keys" /\ Cached
  THEN Append(Tail(queue), Command("del", c.id)) ELSE Tail(queue)

Completes(c) == c.kind \in {"del", "flushdb"} \/ (c.kind = "keys" /\ Continued(c) = Tail(queue))

\* Redis runs the oldest command and its answer arrives.
Answer ==
  LET c == Head(queue) IN
  /\ link.status = "ready" /\ queue # << >>
  /\ store' = [store EXCEPT !["redis"] = Executed(c)]
  /\ queue' = Continued(c)
  /\ hits' = IF c.kind = "get" /\ Cached THEN hits + 1 ELSE hits
  /\ inflight' = IF c.kind = "get" /\ ~Cached THEN inflight + 1 ELSE inflight
  /\ purged' = IF Completes(c) /\ c.id > purged["redis"]
               THEN [purged EXCEPT !["redis"] = c.id] ELSE purged
  /\ UNCHANGED <<clock, link, arrived, misses, bypasses, lost, stored, purges>>

\* The link is lost when some of the commands it was sent, the oldest first,
\* have run and not been answered: the client will send all of them again.  The
\* last of them that writes, the i-th, decides what the entry is meanwhile.
AnswerLost ==
  /\ link.status = "ready"
  /\ Drops(link, link') /\ link'.status # "end"
  /\ \E i \in DOMAIN queue : store' = [store EXCEPT !["redis"] = Executed(queue[i])]
  /\ UNCHANGED <<clock, queue, inflight, stats, stored, purging>>

\* Mutant: a failed lookup is forgotten.
Failed_Forgotten == 0

\* Lookups that fail with the link: each goes on as a miss.
Failed == Cardinality({i \in DOMAIN queue : queue[i].kind = "get"})

LinkStep ==
  /\ \/ Opens(link, link') \/ Readies(link, link') \/ Redials(link, link')
     \/ Refuses(link, link') \/ Drops(link, link')
  /\ IF link'.status = "end"
     THEN queue' = << >> /\ inflight' = inflight + Failed
     ELSE UNCHANGED <<queue, inflight>>
  /\ UNCHANGED <<clock, store, stats, stored, purging>>

Tick ==
  /\ clock < MaxTime
  /\ queue # << >> => clock - Head(queue).at < MaxWait
  /\ clock' = clock + 1
  /\ store' = IF clock' >= store["redis"].expires
              THEN [store EXCEPT !["redis"] = Nothing] ELSE store
  /\ UNCHANGED <<link, queue, inflight, stats, stored, purging>>

Next ==
  \/ Request \/ End \/ Leave \/ Purge
  \/ Answer \/ AnswerLost \/ LinkStep \/ Tick

Spec == Init /\ [][Next]_vars /\ WF_vars(Answer) /\ WF_vars(LinkStep /\ ~Drops(link, link'))

-----------------------------------------------------------------------------
(* Properties.                                                             *)

Entries == [id : 0..MaxRequests, born : 0..MaxTime, expires : 0..(MaxTime + TTL)]

\* Commands wait only while there is a link that may still answer them.
TypeOK ==
  /\ clock \in 0..MaxTime /\ link \in Link
  /\ store \in [Stores -> Entries] /\ purged \in [Stores -> 0..MaxRequests]
  /\ \A i \in DOMAIN queue : queue[i] \in [kind : Kinds, id : 0..MaxRequests, at : 0..clock]
  /\ queue # << >> => link.status \notin {"none", "end"}
  /\ {inflight, arrived, hits, misses, bypasses, lost, stored} \subseteq 0..MaxRequests
  /\ purges \in 0..MaxPurges

\* No hit is older than the TTL, measured from the end of the response that
\* was stored, however often the stores have been switched; in Redis the time
\* a store waited for the link is added, since the key's life starts late.
HitFresh ==
  [][hits' # hits =>
       IF queue' = queue THEN clock - store["memory"].born <= TTL
       ELSE clock - store["redis"].born <= TTL + MaxWait]_vars

\* When a purge of a store has been carried out, nothing is left there, nor
\* ever comes back, that was written before the purge began: neither a store
\* that was still waiting for Redis nor one that is sent a second time.
PurgeComplete ==
  \A s \in Stores : store[s] # Nothing => store[s].id > purged[s]

\* Every request is counted once, as a hit, a miss or a bypass, unless it is
\* still being looked up or answered or its client has left.
Accounted ==
  arrived = hits + misses + bypasses + lost + inflight
            + Cardinality({i \in DOMAIN queue : queue[i].kind = "get"})

\* A lookup never holds its request for ever: Redis answers, or the link is
\* given up and the request goes on to the backend.
LookupEnds ==
  (\E i \in DOMAIN queue : queue[i].kind = "get") ~>
    ~(\E i \in DOMAIN queue : queue[i].kind = "get")
=============================================================================
