# A specification of SentinelADC

SentinelADC is a layer-7 application delivery controller: an Express
application that filters HTTP requests, caches and rate-limits them, and
proxies them to a pool of backends it health-checks. This directory specifies
in TLA+ the pool and the proxy over it, the load-balancing strategies, the rate
limiter, the anomaly detector, the response cache, and the analytics with the
process's start and shutdown: TLC checks small instances, and TLAPS proves the
safety properties of all of them for every instance.

Everything in the gateway runs on Node's event loop. A synchronous function is
therefore atomic, and whatever interleaves does so at an `await`, a timer or an
event: the actions of the modules are exactly these synchronous runs.

## 1. The system

Paths are relative to `src/src/`.

| Component | State | Operations | Hard because |
|---|---|---|---|
| Backend pool, `config/backends.js` | one mutable object per backend: `healthy`, `status`, `activeConnections`, `weight`, `adminDisabled`, `drainStartTime`, `onDrainComplete` | none of its own; four modules write it | no writer knows of the others |
| Circuit breaker, `resilience/` | per backend `state`, `consecutiveFailures`, `probeCount`, `lastStateChange` | `canExecute`, `recordSuccess`, `recordFailure`, `reset`, reset-all | asking it changes it; fed by traffic and checks at once |
| Health store and monitor, `health/` | statistics and a sliding window of 20 checks per backend; the interval timer | `checkAll` every 5 s, `recordResult`, the override route | a verdict arrives after an await |
| Drain manager, `admin/`, `api/adminRoutes.js` | a timer per drain; the callback on the pool object | `drainBackend`, `undrainBackend`, `completeDrain`, the deadline | deadline, callback and undrain race |
| Routing engine, `routing/routingEngine.js` | the current strategy | `getHealthyBackends`, `selectBackend`, `setAlgorithm` | its filter takes the breakers' probe slots |
| Strategies, `routing/strategies/` | indices of the round robins | `select` | indices outlive the pool they were computed for |
| Reverse proxy, `proxy/` | fields on each request: `_attempts`, `_failedBackends`, `_backendId`; listeners on its response | the router, `proxyRes` and `error` hooks, the retry | client, upstream and backoff are concurrent |
| Metrics, `metrics/` | the last 100 transactions of a minute per backend | `recordTransaction`, `getBackendMetrics`, `calculateScore` | the score feeds back into the strategies |
| Rate limiter, `security/rateLimiter.js` | buckets in Redis and in memory, penalties | the middleware, the Lua script, cleanup | failover between the two stores |
| Anomaly detector, `security/anomalyDetector.js` | EWMA and variance per IP | `recordRequest`, `evaluateWindows` | drifting windows |
| Filters: `ipBlocklist`, `headerValidator`, WAF, JWT | the blocklist | one middleware each | their order |
| Cache, `cache/` | entries in Redis or in memory, statistics | lookup, interception of the response, purge | asynchronous store against purge; failover |
| Analytics, `analytics/` | request logs, one-minute aggregates | collect, `runRollup` every 10 s | late logs, overlapping runs |
| Lifecycle, `index.js`, `app.js` | two servers, timers | start, `gracefulShutdown` | a 10 s deadline against open responses |
| Instrumentation, dashboard, mock backends, benchmarks | none the gateway decides on | | |

How they interact. A proxied request passes the middleware of `app.js` in
order; the proxy library calls the router, which asks the routing engine, which
asks every healthy backend's breaker. The `proxyRes` and `error` hooks report
to the breaker. The health monitor reports each check first to the health
store and then to the breaker. Breaker, health store, drain manager and the
override route each write `healthy` and `status` of the same pool object. The
drain manager hangs a callback on the object, which the proxy calls when the
connection count reaches zero. Anomalies become penalties of the rate limiter,
which shares the cache's Redis client.

What makes each part correct:

* breaker: it trips exactly at its threshold, admits no more than the
  configured probes while on trial, and no trial hangs;
* pool fields: `healthy` and `status` agree whatever the order of writers;
* override: nothing but the documented paths brings a backend back;
* drain: it always has something to wait for, it ends, and unless by its
  deadline only when no client is left;
* proxy: a request that is not idempotent is sent once, an idempotent one at
  most three times, nobody is answered twice, everybody is answered, every
  connection counted is released once, and retries avoid failed backends;
* strategies: every selection ends, shares follow the weights, keys keep their
  owner on the ring, and a failing backend never scores above a working one;
* rate limiter: a bucket never grants more than its capacity and refill, a
  penalty bites at once, and a refusal says honestly when to come back;
* detector: the baseline is not forgotten, and only a rise is an anomaly;
* cache: a purged entry stays purged, no hit is stale, no lookup hangs;
* analytics: a minute's aggregate is right and never shrinks;
* lifecycle: a signal ends the process, cleanly only if nobody is cut off.

## 2. The modules

| Module | Contents |
|---|---|
| `BackendNode` | One pool member as a record, and each synchronous method of breaker, health store, drain manager, override and connection count as an operator from the record before to the record after. No variables. |
| `BackendPool` | The pool as a state machine: live traffic, monitor, administrator and timers interleaved. Requests are counted per backend. |
| `Gateway` | The proxy: each request with its attempts, backoff, failed backends and response listeners, over the same records. It implements `BackendPool` and `ProxyContract`. |
| `ProxyContract` | The promise of the proxy about a request, without backends or timing. |
| `MCGateway` | The symmetry set for TLC. |
| `Strategies` | The five selections with what they keep from call to call, the score, the weight and algorithm routes. |
| `MCStrategies` | A pool, its weights and a ring hash for TLC. |
| `RedisLink` | The connection to Redis and the fallback flag, as operators on a record; shared by the next and by `Cache`. |
| `RateLimiter` | One client's token bucket in Redis and in memory. |
| `Detector` | One client's windows, baseline and flags. |
| `Cache` | One URL's entry in Redis and in memory, the commands on their way, the purges. |
| `Analytics` | The database manager and the rollup worker; actions, no specification of its own. |
| `Lifecycle` | The process: listeners, responses in flight, signals and shutdown, composed with `Analytics`. |
| `BackendNodeProofs` | Lemmas: every method of `BackendNode` keeps a record good. Used by the next two. |
| `BackendPoolProofs`, `GatewayProofs`, `StrategiesProofs`, `RateLimiterProofs`, `DetectorProofs`, `CacheProofs`, `LifecycleProofs` | The theorems about each. |

### BackendNode and BackendPool

`node[b]` joins the pool object of `b`, its breaker and its health statistics.
A method of the code is an operator of the same name (`RecordFailure`,
`UpdateBackendHealthState`, `CompleteDrain`, ...) and a handler composes them in
the order of its calls: `CheckPassed` is `RecordSuccess(RecordResult(n, TRUE))`.

`canExecute` answers and also takes a probe slot, so it is two operators:
`CanExecute`, the answer, and `TakeProbe`, the record afterwards.
`getHealthyBackends` calls it on every backend in rotation; `HealthyBackends`
is what it returns and `AfterFilter` the pool it leaves behind, whichever
backend is then chosen.

`Dispatch` is the router, `PollStatus` is `GET /api/status`,
`UpstreamSuccess`/`UpstreamFailure` are the reports of the hooks, `Release` the
decrement listeners of one response, `StartChecks` and `HealthCheckPassed`/
`HealthCheckFailed` are the two sides of the await in `checkBackend`, and the
`Admin...` actions are the routes. `inflight[b]` counts attempts that may still
report; it is not `activeConnections`, because a client's departure decrements
the one and not the other.

Abstractions. Clocks: `cooled` stands for "cooldownMs have passed since
lastStateChange", `deadline` for a pending drain timer, and the actions
`Cooldown` and `DrainTimer` let the time come at any moment. Counters stop at
the largest value the code compares them with (`Bump`): the thresholds are only
ever compared with `>=` and `>`. Latencies, uptime, `lastError`, security log
events and `totalChecks` decide nothing and are left out. A backend has one
check at a time: the default timeout of a check (3 s) is below the interval (5 s).

### Gateway and ProxyContract

A request is a record: where it is (`phase`), its fields on `req`
(`attempts`, `backend`, `failedBackends`), whether its response is `open` and
has `headersSent`, and for each attempt the backend that the listeners it hung
on the response will decrement. Listeners of an attempt that starts after the
response has closed never run, so none is recorded. `finish` and `close` each
call the same closure, whose `decremented` flag lets one of them through:
`RunListeners` releases each waiting attempt once.

`ClientClose` can happen at any time while the response is open, in
mid-backoff too, and the attempt or retry under way goes on. The strategy is an
arbitrary choice among the candidates. Four details are the proxy library's
and are modelled by what the code relies on: an upstream reports at most one
response and then possibly an error; an attempt without a client may end
silently (`Abandon`); a body may end after any response; a request for which the
router returns no backend is left `unrouted`, about which nothing is claimed
(the library decides what the client sees).

`Pool == INSTANCE BackendPool WITH inflight <- Inflight`: the attempts in flight
at `b` are the requests that are sent to or streaming from it. Health checks,
commands and timers are the pool's own actions, so the two modules cannot
disagree about them; `PoolSpec` says that the proxy's actions are pool steps
too.

### Strategies

In `Gateway` the strategy picks any candidate; here the pick is the code's and
what `Gateway` determines is arbitrary: each call gets any nonempty part of the
pool in the pool's order, and any part of that may be on trial (unhealthy, so
that its score is 0). `index` and `wrr` are the fields of the round robins,
which the factory keeps while another strategy is in use; the hash strategies
keep nothing. A loop is a recursive function of the turn with a bound on its
turns, which the proofs show to be enough: Euclid's in `Gcd`, the `while (true)`
of the weighted round robin in `WrrSelect`, the binary search in
`FindRingIndex`. A weighted selection that does not end within its bound is
`Unselected`, and `SelectionEnds` says there is none. The ring is built by
inserting one virtual node after the other; the sort of the code is by hash and
stable, so equal hashes are in the order of the pushes, which is the order of
the pool. Latencies and error rates are integers in hundredths, as the code
rounds them. MD5 is a parameter: `Hashes` is a set of functions from a backend
and a virtual node's index to numbers, collisions included.

### RedisLink, RateLimiter and Cache

`cacheService.js` owns one ioredis client and the flag `useMemoryFallback`, and
the rate limiter reads both. `RedisLink` has the client's statuses, which are
the library's, and the three handlers that write the flag, which are the code's:
`connect` clears it, an error sets it, `retryStrategy` sets it when it gives up.
A command is in `queue` until it is answered. ioredis pipelines
commands, and whatever is unanswered when the link is lost it sends again once the
link is ready, in the same order and even if it has run: in `AnswerLost` any
number of the commands in the queue, the oldest first, have run without an answer.
In `Cache` only the last of these that writes decides what the entry is, which
is why a command of the queue is chosen there and not a prefix. A link that ends
fails them all, and each goes on as its `catch` says.

In `RateLimiter` the middleware reads clock and capacity (`Reading`) and awaits
Redis; on failure the same reading is used in memory. Tokens are counted in
shares of 1/`Window`, which makes the refill exact. `ideal` and `penal` are
history: buckets which nothing rewinds, evicts or replaces, charged with what
was granted (a script whose answer is lost grants nothing), `penal` only with what arrived and was decided since the penalty in
force began, which is `since`; `rewound` is the time credited twice. When a link
ends, every request that waits is decided in memory in one handler each:
`After` folds the books of the store over them. In `Cache`, requests for one
URL are alike and counted; entries are numbered as they are written, which is
what `PurgeComplete` compares. A purge by pattern is `KEYS` and then `DEL`, two
commands; a flush is one.

### Detector

Clients do not influence each other, so there is one. Time runs in quarters of
the 10 s window; the 5 s timer fires every second one, and a window of exactly
four quarters may be found a few milliseconds short. `RecordRequest` is the
middleware, `Evaluate` is `evaluateWindows` for this client, with rates,
variance and z-score in hundredths as the code rounds them.

### Analytics and Lifecycle

A log is its timestamp, an aggregate its minute and its count: the other sums
are in the same document and move with it. `recorded` is history: the times of
all responses that were logged, to compare the counts with. In memory a rollup
is one step; with MongoDB `RunRollup`, `Aggregate` and `Replace` are the runs
between its awaits, and `WriteLands` is an insertion that is answered.
`Lifecycle` adds the two listeners, the open connections of each, and one
shutdown per signal: `Signal`, `ServerCloses`, `CacheCloses`, `DatabaseCloses`,
or `DeadlinePasses`. The clock waits for a timer that is due. A client that
closes its connection before the response has finished (`Leave`) is not recorded:
the collector listens for `finish`.

## 3. The runs

| Run | Instance | What it shows |
|---|---|---|
| `pool` | 1 backend, threshold 3, 2 probes, window 2, 2 in flight, fair | `TypeOK`; `BreakerCoherent`; `StatusCoherent`; `DrainArmed`; `DispatchThroughBreaker`; `CleanDrain`; `OverrideHolds`; `TrialEnds`; `DrainEnds` |
| `gateway` | 2 requests, 2 backends, 2 retries, threshold 2; drain, undrain and override | `TypeOK`; `ConnectionsCounted`; `QuietWhenDrained`; `ContractSpec` |
| `gateway_retries` | 1 request, 3 backends, 2 retries, threshold 1; checks, drain, reset and polls, fair | `RetryElsewhere`; `PoolSpec`; `Answered` |
| `strategies` | 3 backends, weights 3, 2, 1 and 0 or 4 by the administrator, windows of 1 transaction | `TypeOK`; `SelectionEnds`; `Proportional`; `EvenRotation`; `OwnerClockwise`; `OnlyOwnKeysMove`; `FailuresRankBelow` |
| `rate_limiter` | capacity 2 per 2 ticks, penalty capacity 1, a wait of 2 ticks, 4 requests in 5 ticks, 1 lost link, 1 penalty or flush, fair | `TypeOK`; `WithinBudget`; `PenaltyBites`; `RetryAfterHonest`; `Decided` |
| `detector` | 12 requests, 5 windows | `TypeOK`; `BaselineKept`; `FlagsOnlyRises` |
| `cache` | TTL 1, 3 requests, 2 purges, 1 lost link, 3 ticks, fair | `TypeOK`; `PurgeComplete`; `Accounted`; `HitFresh`; `LookupEnds` |
| `lifecycle` | minutes of 2 ticks, a rollup per tick, 2 logs and 2 aggregates in memory, 3 requests, 2 signals, 4 ticks, fair | `TypeOK`; `AggregateAccurate`; `CountsGrow`; `ShutdownEnds` |
| `drained_gets_request` | 1 backend, only drains | violated: `DrainedGetsNoRequest` |
| `open_without_trial` | 1 backend, nobody administers | violated: `OpenGetsTrial` |
| `tls_cut_off` | 1 request, 1 signal | violated: `InFlightComplete` |
| `connection_leak` | 1 request, 2 backends, no other handler | violated: `IdleIsZero` |

Bounds. Backends do not influence each other in `BackendPool` except through
the filter, the reset of all and the listeners of one response, and the theorems
hold for any number of them: one backend is enough for TLC, with thresholds
that leave room for states between 0 and the limit, and a probe limit above one.
`MaxInflight` bounds outstanding attempts and connections; two are enough for a
connection that stays behind when another ends. In `Gateway`, two requests
share a backend and its breaker while `MaxRetries = 2` is the code's own value;
`MaxOthers` bounds health checks and commands per behaviour, `Handlers` says
which of them take part in a run. `MaxInflight` is above the number of attempts
there can be (`InflightAssumption`), so it is never reached there. The
runs of `Gateway` stop when every request is over, so they do not check for
deadlock. Symmetry is used where no liveness is checked: no definition tells
two backends or two requests apart.

`strategies`: three backends are the fewest with which a list can lose a member
and still be a list to rotate, and whose weights have a level in the middle; a
weight of 0 and one above all the others are the two that change the walk. The
properties range over every list, trial set and ring in every state, so few
transactions are enough to vary the score. The hash collides across backends and
leaves gaps between its values and above them, with a key in each kind of place.
`rate_limiter`: two tokens and a penalty of one tell the capacities apart, and five
ticks let a bucket fill up, expire and be evicted. With a wait of two ticks and
four requests, two scripts with different readings run without an answer before
the one lost link and run again after it, or (the redialling having failed) are
decided in memory with old readings: in this instance all four histories do go
below 0, the two of Redis and the two of memory, so no excess that `WithinBudget`
and `PenaltyBites` allow is there in vain. `detector`: five windows are the first, one that decays, a burst, a
steady one and one more; twelve requests in a window exceed the floor of 15 per
minute many times. They are too few for an idle client's mean to decay to where
rounding stops it, near 0.01: that `BaselineKept` holds there too is what the
theorem `BaselinesKept` adds. `cache`: a store before, between and after two purges, one of
them split by a lost link. `lifecycle`: two minutes that are over and one that
is not, a log and an aggregate that are evicted, two overlapping shutdowns. The
bounds `MaxTime`, `MaxRequests`, `MaxOthers`, `MaxPurges`, `MaxDrops`,
`MaxRecorded`, `MaxChanges`, `MaxWindows` and `MaxSignals` end every behaviour
of these runs, and an exited process stops, so none checks for deadlock.

Assumed of the numbers. `RateLimiter`: a link is redialled or given up within
`MaxWait`, at most the 60 s by which a key outlives its window, and an idle
bucket is evicted no earlier than it is full. `Analytics`: the rollup's interval
is below a minute. The code's defaults have all three. Its floating-point
arithmetic is taken as exact.

Fairness. `BackendPool!FairSpec` assumes only that a drain timer that was armed
fires. `TrialEnds` states its own premise, `ChecksRun`: `setInterval` keeps
starting checks and every check ends (the fetch is aborted after its timeout);
a probe slot whose request never reports is then freed by the next verdict.
The full `BackendPool!Fairness`, which adds dashboard polls and cooldowns, is
assumed only by `UnattendedSpec`, the pool nobody administers, in the run
`open_without_trial`. Nothing is assumed of clients, upstreams or the
administrator. `Gateway!Fairness`: an attempt that has been sent gets a response
or the proxy timeout, and a backoff ends. It says nothing of the end of a body.
`RateLimiter` and `Cache`: a ready link answers, and a link that is not ready
moves on, since ioredis redials by a timer until it gives up; losing a link is
not part of it. `Lifecycle`: time passes and timers fire when they are due;
nothing is assumed of responses, Redis or MongoDB, which is why there is a
deadline. `Strategies` and `Detector` state no liveness: that a loop ends is
`SelectionEnds`, a property of a state.

### What the code does otherwise

* `DrainedGetsNoRequest`. `updateBackendHealthState` does not know of drains.
  A check that passes during or after a drain writes `healthy = true`, and the
  next request goes to the backend under maintenance
  (`connectionDrainManager.js:10` says none does).
* `OpenGetsTrial`. Tripping clears `healthy`, and `getHealthyBackends` asks
  `canExecute` only where `healthy` is set: without a passed check or an
  administrator an OPEN breaker never sees that its cooldown is over. A trial
  exists only on a backend that something else has put back into rotation.
* `IdleIsZero`. A client that leaves during the backoff does not stop the retry;
  the router counts a connection on a response whose events are over. The count
  stays up for ever: least-connections avoids the backend and a later drain of it
  ends by its deadline. `ConnectionsCounted` is the half that does hold.
* `InFlightComplete`. The header of `index.js` promises that shutdown stops
  accepting connections and waits for the requests in flight before it exits
  with code 0 (lines 18, 19 and 21). `gracefulShutdown` closes the HTTP server
  only: the TLS listener goes on accepting, and its requests are cut off by
  `process.exit(0)`. `ShutdownEnds` and `CleanExit` are what is left for plain
  HTTP.

Two more disagreements with what the repository says have no run of their own.
`transitionTo(CLOSED)` writes `healthy = true` without looking at
`adminDisabled`: with the breaker open, a passed check keeps the override in the
store and undoes it in the breaker one line later, although
`healthRoutes.js:89` calls the override sticky. `OverrideHolds` names this
transition and an undrain as exceptions, and TLAPS proves that they are the
only ones. And `analyticsDb.js:10` says that the memory store takes over when the
MongoDB connection "fails or drops": the code does so only when the first attempt
to connect fails (`Connect`); when an established connection drops, `mode` stays
and each write fails on its own.

Three more observations are visible in the model and are not claimed as
divergences: a success recorded in OPEN closes the breaker without a trial; a
status poll can take the trial's only probe slot; and after three failed checks
one passed check is enough to rejoin, through the last rules of
`updateBackendHealthState`, so the rejoin threshold of two decides nothing.

Further observations, made while writing the later modules: behaviour that no
document of the repository excludes, and with which the properties are stated.

Strategies. A weight of 0 is taken as 1: such a backend keeps getting traffic.
`Proportional` is about one list: round robin with the exclusion of retries can
meet the same index of a shorter list again and again. Among backends that fail
every transaction the faster one scores higher.

Rate limiter. A reading that is older than the bucket winds `lastRefill` back, and
the time in between is credited twice. In memory the queue of an ended link has
such readings; in Redis the scripts that had run when a link was lost, and run
again: with two of them the second pass sets `lastRefill` back to the first
reading, and the second reading is credited once more. `WithinBudget` states the
excess, one `MaxWait` of refill for each lost link and one for the ended one.
Redis and memory each hold a full bucket, so a failover gives a client a second
budget. With the fallback flag set and a client that is redialling, the limiter
still sends its command there and waits. Penalties are keyed by `req.ip`,
buckets by `getClientIp`. A flush of the cache drops the token buckets.

Detector. `securityRoutes.js` uses `anomalyDetector` without importing it, so its
anomaly routes answer 500 and the setters they call are unreachable. `ipStats`
is never evicted. A burst that goes on is flagged once. A client that was idle
for long has a baseline of 0.01, and a few requests are an anomaly.

Cache. A response that was in flight during a purge is stored after it, and an
entry in the store that was not active survives it: `PurgeComplete` is about one
store and what was written before. Misses of clients that left are not counted.
Errors of a purge are swallowed and reported as success. Binary bodies pass
through `toString('utf8')`.

Analytics. What is logged after the last rollup of a minute is in no aggregate.
The log in memory holds 1000 documents, which also caps the counts derived from
it. A `replaceOne` that MongoDB carries out after the client has given it up is not
modelled: a write that fails has no effect.

Lifecycle. A TLS port in use ends the process by an uncaught exception. A second signal
neither shortens nor prolongs the wait for the first deadline.

## 4. The proofs

Every theorem is about the module's `Spec` and holds for all values of its
constants under the assumptions they are declared with (`NodeAssumption`,
`PoolAssumption`, ...: counts and times are natural numbers, thresholds positive,
and the relations between times named above). `InflightAssumption` is used by
`ImplementsPool` only.
In each module `IInv` is an inductive invariant, `StepIInv` says that every step
preserves it, and the others follow.

| Module | Theorem | Statement |
|---|---|---|
| `BackendPoolProofs` | `TypeCorrect` | `[]TypeOK` |
| | `BreakersCoherent`, `StatusesCoherent`, `DrainsArmed` | `[]BreakerCoherent`, `[]StatusCoherent`, `[]DrainArmed` |
| | `DispatchesThroughBreaker`, `DrainsClean`, `OverridesHold` | `DispatchThroughBreaker`, `CleanDrain`, `OverrideHolds` |
| `GatewayProofs` | `TypeCorrect` | `[]TypeOK` |
| | `CountsCover` | `[]ConnectionsCounted` |
| | `DrainsAreQuiet`, `RetriesGoElsewhere` | `QuietWhenDrained`, `RetryElsewhere` |
| | `ImplementsContract` | `ContractSpec`: the proxy implements `ProxyContract` |
| | `ImplementsPool` | `PoolSpec`: every handler is a step of `BackendPool` |
| `StrategiesProofs` | `TypeCorrect`, `SelectionsEnd`, `FailuresBelow` | `[]TypeOK`, `[]SelectionEnds`, `[]FailuresRankBelow` |
| | `SharesProportional` | `[]Proportional` |
| | `GreatestDivisor` | the loops over `gcd` compute the greatest common divisor of the weights |
| | `RotationsEven`, `OwnersClockwise`, `KeysStay` | `[]EvenRotation`, `[]OwnerClockwise`, `[]OnlyOwnKeysMove` |
| `RateLimiterProofs` | `TypeCorrect` | `[]TypeOK` |
| | `BudgetsKept`, `PenaltiesBite`, `RetriesHonest` | `[]WithinBudget`, `[]PenaltyBites`, `[]RetryAfterHonest` |
| `DetectorProofs` | `TypeCorrect`, `BaselinesKept`, `FlagsAreRises` | `[]TypeOK`, `BaselineKept`, `FlagsOnlyRises` |
| `CacheProofs` | `PurgesComplete`, `HitsAreFresh` | `[]PurgeComplete`, `HitFresh` |
| | `RequestsAccounted`, `TypeCorrect` | `[]Accounted`, `[]TypeOK` |
| `LifecycleProofs` | `CleanExit` | the process exits with 0 only if no plain request is open |
| | `ExitInTime` | a process that has been signalled is never alive past its deadline |
| | `TypeCorrect`, `AggregatesAccurate`, `CountsNeverShrink` | `[]TypeOK`, `[]AggregateAccurate`, `CountsGrow` |

### The pool

The argument. `IInv` says that every record is `Good`: it has its type and
satisfies `BreakerOK`, `StatusOK` and `DrainOK`. Separately these are not
inductive. `StatusOK` needs the type of the record, the type of `probeCount`
needs `CanExecute`, and that a failure in HALF_OPEN may reopen the breaker
without comparing the count relies on `BreakerOK`: outside CLOSED the count is
already at the threshold. `DrainOK` must say that a deadline implies a callback
and a callback a start time, or a health check that overwrites `draining` would
lose track of what is armed. One lemma per method of the code shows that the
method keeps a record good, three lemmas lift this to one written record, to
the filter over the whole pool and to a rewritten pool (all in
`BackendNodeProofs`), and `StepIInv` has one case per action.

The three action properties follow from one classification, `StepQuiet`: at each
backend a step adds no connection, completes no drain with a connection left
and brings no overridden backend back except by closing a breaker, or it is that
backend's drain timer, undrain or dispatch. Each theorem then looks at the three
exceptions.

### The proxy

`IInv` joins `ReqInv`, about each request (the phase fixes what may be answered,
sent and attempted, and an open request listens at its backend), `GoodPool` from
the pool's proofs, and `Covered`: the listeners registered at a backend are a
finite set no larger than its connection count. `Covered` is needed because a
release subtracts the number of listeners of one response, which is right only
if they were all counted; it is an inequality because the count may stay too
high (`IdleIsZero`). Adding or removing one request's listeners changes a
cardinality by what the handler adds to or subtracts from the count. The pool
methods that do not touch connections are summed up once (`Steady`), so that
`Covered` and `QuietWhenDrained` need not look at each. `ContractSpec` needs
`ReqInv` only: `StepContract` maps every action to a step of `ProxyContract` or
to a stutter.

`PoolSpec` needs all of it. The router is `Dispatch`, or `PollStatus` when nobody
is left to send to; a report of an upstream is `UpstreamSuccess` or
`UpstreamFailure`; the end of a response is `Release` with the number of
listeners of each backend, or, when none waits, `UpstreamEnd` or a stutter; the
other handlers are the pool's own actions. `Joins`, `Leaves` and `Stays` say how
the number of requests at a backend, which stands for `inflight`, changes when one
request moves. `Dispatch` and `Release` are bounded by `MaxInflight`, so the
invariant is joined by `Tallied`: no connection count is above the number of
attempts that have been sent, because each is counted at most once. So everything
that is proved of the pool, from `BreakersCoherent` to `OverridesHold`, holds
under the named requests of the gateway too.

### The strategies

Loops. A recursive function needs a proof that it exists before its equations can
be used. The lemma `Recursion` gives it for any step function `F`: the partial
solutions up to each turn agree and join to one. What holds after every turn then
follows by `Climb`, an induction over a set of turns instead of a predicate,
from the least element of a set of numbers.

`IInv` types the fields: the indices in the range of the pool (of which every
list is a part), the level below some weight there ever was, the windows within
their length. The score is between 0 and 100, so a dynamic weight is at least 1
and at most the static one (`ScaledDown`), and errors cost at least 50 points
against at most 40 for latency (`ErrorsOutweighLatency`).

`SelectionEnds`: the divisor is positive and divides nothing to below 1
(`DivisorDivides`), so the level falls by at least one with each pass.
`TurnsLeft` is the distance from an index and a level to the heaviest backend: if
the level is above every weight, passes down to the top and one pass more,
otherwise at most one pass. `Nearer` shows that a turn that selects nobody
decreases it, and the `Len(list) * (level + 2)` turns are more than it can be at
the start.

`Proportional`: the loop of Euclid keeps the common divisors of its pair
(`EuclidTurn`), so the divisor is the greatest one and every weight a multiple of
it. Rounded up to multiples of the divisor the levels are layers (`Layer`): a
turn goes on through the list and from its end down one layer, from the lowest
back to the highest (`TurnSpot`), and selects where the weight is at least the
layer times the divisor (`SelectedSpot`). The places where it selects are the
picks of a round; there are as many as the weights add up to over the divisor
(`RoundSize`), and a candidate has its weight over the divisor of them. From any
place, also one between two rounds that a longer list has left behind, a
selection goes to the next pick and leaves none out (`SelectReaches`). So the
number of picks that the round still has falls by one with each selection and
starts again from the whole (`RestOne`): over as many selections as a round has
picks it never has the same value twice, all picks are different, and each is made
exactly once (`RoundPicked`). The theorem thus needs no walk that starts at the top
of a round, only what `IInv` says of the index and the level.

`EvenRotation`: after k picks the index is congruent to the first plus k
(`RemainderFacts`), so as many picks as the list is long visit every index once.

The ring. `Before` is a strict total order on the virtual nodes of one list,
because a list has no backend twice (`BeforeOrders`). Inserting at the number of
smaller nodes keeps a sequence ordered and adds one node to its set
(`InsertedFacts`), so `RingFacts`: the ring is ordered and holds the nodes of its
list and nothing else. The invariant of the binary search is that everything
below `low` is before the key and everything above `high` is not, with `result`
the entry after `high`; as the range shrinks with every turn (`HalvedFacts`), it
is empty at the end (`SearchFinds`). With that the owner is the first node
clockwise in a set, and a first of a set remains the first of any part that still
contains it (`FirstStays`), from which `OnlyOwnKeysMove` follows without looking
at positions.

### The rate limiter

An argument of accounts. A history bucket has, at any time, a worth: what it
holds, the refill since its last charge, and what rewinding has credited twice;
for the bucket of a penalty less what the live bucket could still gain at the
full rate before the penalty began. `Sound` says that the live bucket never holds
more than the worth of its histories at its own `lastRefill`, or, if it is
absent, that a bucket made from the oldest reading that may still come will not.
Worth grows with time by at least what a bucket is refilled
(`WorthGrows`), so whatever a decision can grant its histories can pay for, and
none is overdrawn by more than the rewound time is worth.

How much is rewound is `Limited`. The readings that wait are in order (`InOrder`)
and none is older than `MaxWait`. Of the requests that are decided in one go only
the first can therefore rewind a bucket (`SoundAfter`), and by no more than
`MaxWait`. In Redis the first time a script runs rewinds nothing, but after
`AnswerLost` the bucket may be ahead of the oldest request, which will be sent
again: `Limited` counts this pending rewind (`Rewinds`) with what has been rewound,
and charges both to the number of lost links, `link.drops`. Each decision that
follows turns pending into rewound without a change of the sum. In memory no
reading is late until the link ends, once. `Dated` says that a key that expires,
or an idle bucket that is evicted, would have been full.
`MaxWait <= Slack` and `Window + MaxWait <= EvictAfter + 1` are needed there and
nowhere else.

### Detector, cache, analytics and shutdown

`Detector`: with `ewma >= 1` the rounded mean is at least 1, hence not 0. For a
flag, `Settled` says that no rate up to the last window's is an outlier to the
mean and variance that window left behind. `Cache`: `Ordered` says that commands
wait in the order they were issued, that a store waiting behind a purge is of a
later entry, and that no waiting store is older than the last completed purge;
`Punctual`, that the oldest has waited no longer than `MaxWait`. From the first
follows what a store that is sent twice cannot undo, from the second when an
entry in Redis expires. `Lifecycle`: a shutdown past its first stage means that
the HTTP server has closed, after which it accepts nothing (`HttpClosed`), a
shutdown that has begun has armed its deadline (`Armed`), and the clock does not
pass it (`InTime`).

`Accounted` needs `Books` of the cache: the lookups are the `get` commands in the
queue, whose number changes by one with each command sent or answered; a link
that has ended has none, so a failing link loses no request from the books.

The analytics' `Books` are counts of times in a set (`Among(s, T)`). Every log is
of a response (`Conserved`), every count is of responses (`Backed`), behind a
count that may still be replaced stand at least as many logs (`Kept`), and the
rollup that awaits MongoDB counts no fewer than what it will replace (`Ahead`):
from these four follows `CountsGrow`. In memory the log holds the whole of the
current minute or is full (`Complete`), and what is older than one interval has
been rolled up (`Rolled`): from these follows `AggregateAccurate`. `Arranged` says
that both arrays are in the order of time, so what `shift` evicts is the oldest.
For `TypeOK`, `Traffic` says that open and recorded responses together are no
more than the requests that have arrived.

### Only model-checked

The liveness properties `TrialEnds`, `DrainEnds`, `Answered`, `Decided`,
`LookupEnds` and `ShutdownEnds`, of which the first two theorems of
`LifecycleProofs` are the safe half: the provers do not reason about fairness.
Every invariant and every action property of the runs that pass is proved. The
four properties that the code violates are shown by their counterexamples.

## 5. What could come next

1. The order of the filters in `app.js`: that a refused request reaches neither
   cache nor backend.
2. Several gateway processes over one Redis: the buckets and the cache are
   shared, breakers and penalties are not.

## 6. Not modelled

* IP blocklist, header validation, WAF and JWT: each looks at one request, keeps
  nothing but a set of addresses and is decided by patterns and signatures.
* Request instrumentation, logging, tracing, header rewriting (`proxyUtils.js`)
  and configuration parsing: no decision of the gateway depends on them.
* The dashboard, the mock backends and the benchmarks: they are not part of the
  gateway.
* Of the detector, the setters behind the routes that cannot be reached and the
  list of recent events; of the analytics, the three routes that only read; of
  the lifecycle, the building of the Express app, which ends before it starts.
