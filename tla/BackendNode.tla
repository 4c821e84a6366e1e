---------------------------- MODULE BackendNode ----------------------------
(***************************************************************************)
(* One member of the backend pool and everything the gateway keeps about   *)
(* it.  Four modules of the gateway write the same pool object: the        *)
(* circuit breaker (resilience/circuitBreakerManager.js), the health store *)
(* (health/healthStore.js), the drain manager                              *)
(* (admin/connectionDrainManager.js) and the admin override                *)
(* (health/healthRoutes.js).  Each of their methods is synchronous, so it  *)
(* is an operator from the record before the call to the record after it;  *)
(* a handler that calls several methods composes the operators.            *)
(*                                                                         *)
(* Time: `cooled' says that cooldownMs has passed since lastStateChange;   *)
(* `deadline' says that a drain timer is pending and `drainStartTime' that *)
(* the field is set (by a drain, until an undrain).  Counters stop at the  *)
(* largest value the code compares them with (Bump), which no condition in *)
(* the code can tell from counting on.                                     *)
(***************************************************************************)
EXTENDS Integers, Sequences

CONSTANTS
  Backends,           \* identifiers of the pool's members
  BreakerEnabled,     \* config.security.circuitBreaker.enabled
  FailureThreshold,   \* consecutive failures that trip the breaker
  HalfOpenMaxProbes,  \* trial requests admitted per HALF_OPEN period
  HistoryLimit        \* health checks kept in the sliding window

ASSUME NodeAssumption ==
  /\ BreakerEnabled \in BOOLEAN
  /\ FailureThreshold \in Nat \ {0}
  /\ HalfOpenMaxProbes \in Nat \ {0}
  /\ HistoryLimit \in Nat \ {0}

CircuitState == {"CLOSED", "OPEN", "HALF_OPEN"}
Status == {"healthy", "degraded", "unhealthy", "draining", "offline"}

RemoveAfter == 3      \* failed checks in a row that remove a backend
RejoinAfter == 2      \* passed checks in a row that let it rejoin

Node ==
  [ healthy : BOOLEAN, status : Status, adminDisabled : BOOLEAN,
    activeConnections : Nat,
    \* the breaker
    state : CircuitState, consecutiveFailures : 0..FailureThreshold,
    probeCount : 0..HalfOpenMaxProbes, cooled : BOOLEAN,
    \* the health statistics
    failedChecks : 0..RemoveAfter, passedChecks : 0..RejoinAfter,
    checks : Seq(BOOLEAN),
    \* the drain: when it started, its timer, the callback on the pool object
    drainStartTime : BOOLEAN, deadline : BOOLEAN, onDrainComplete : BOOLEAN ]

InitNode ==
  [ healthy |-> TRUE, status |-> "healthy", adminDisabled |-> FALSE,
    activeConnections |-> 0,
    state |-> "CLOSED", consecutiveFailures |-> 0,
    probeCount |-> 0, cooled |-> FALSE,
    failedChecks |-> 0, passedChecks |-> 0, checks |-> << >>,
    drainStartTime |-> FALSE, deadline |-> FALSE, onDrainComplete |-> FALSE ]

Bump(n, limit) == IF n < limit THEN n + 1 ELSE n

-----------------------------------------------------------------------------
(* The circuit breaker.                                                    *)

\* What a breaker in each state writes into the pool object's status.
StatusFor == [CLOSED |-> "healthy", OPEN |-> "unhealthy", HALF_OPEN |-> "degraded"]

TransitionTo(n, s) ==
  IF n.state = s THEN n
  ELSE [n EXCEPT !.state = s, !.cooled = FALSE,
                 !.healthy = (s = "CLOSED"), !.status = StatusFor[s]]

CanExecute(n) ==
  \/ ~BreakerEnabled
  \/ n.state = "CLOSED"
  \/ n.state = "OPEN" /\ n.cooled
  \/ n.state = "HALF_OPEN" /\ n.probeCount < HalfOpenMaxProbes

\* Mutant: the probe counter is not advanced in HALF_OPEN.
TakeProbe_Uncounted(n) ==
  IF ~BreakerEnabled \/ n.state # "OPEN" \/ ~CanExecute(n) THEN n
  ELSE [TransitionTo(n, "HALF_OPEN") EXCEPT !.probeCount = 1]

\* The record after a call of canExecute: an answer of true in OPEN or
\* HALF_OPEN takes a probe slot, whether or not a request follows.
TakeProbe(n) ==
  IF ~BreakerEnabled \/ n.state = "CLOSED" \/ ~CanExecute(n) THEN n
  ELSE IF n.state = "OPEN"
  THEN [TransitionTo(n, "HALF_OPEN") EXCEPT !.probeCount = 1]
  ELSE [n EXCEPT !.probeCount = @ + 1]

RecordSuccess(n) ==
  IF ~BreakerEnabled THEN n
  ELSE TransitionTo([n EXCEPT !.consecutiveFailures = 0], "CLOSED")

\* Mutant: a failure in HALF_OPEN is counted but does not trip again.
RecordFailure_NoRetrip(n) ==
  LET m == [n EXCEPT !.consecutiveFailures = Bump(@, FailureThreshold)]
  IN  IF ~BreakerEnabled THEN n
      ELSE IF n.state = "CLOSED" /\ m.consecutiveFailures >= FailureThreshold
      THEN TransitionTo(m, "OPEN")
      ELSE m

RecordFailure(n) ==
  LET m == [n EXCEPT !.consecutiveFailures = Bump(@, FailureThreshold)]
  IN  IF ~BreakerEnabled THEN n
      ELSE IF \/ n.state = "HALF_OPEN"
              \/ n.state = "CLOSED" /\ m.consecutiveFailures >= FailureThreshold
           THEN TransitionTo(m, "OPEN")
           ELSE m

\* Mutant: the manual reset leaves the failure count.
Reset_KeepsCount(n) == TransitionTo(n, "CLOSED")

\* The manual reset does not look at BreakerEnabled.
Reset(n) == [TransitionTo(n, "CLOSED") EXCEPT !.consecutiveFailures = 0]

-----------------------------------------------------------------------------
(* The health store.                                                       *)

\* Mutant: the window is one check too long.
Slide_OffByOne(checks, success) ==
  LET longer == Append(checks, success)
  IN  IF Len(longer) > HistoryLimit + 1 THEN Tail(longer) ELSE longer

Slide(checks, success) ==
  LET longer == Append(checks, success)
  IN  IF Len(longer) > HistoryLimit THEN Tail(longer) ELSE longer

\* successRate < 90 over the window
LowSuccessRate(checks) ==
  10 * Len(SelectSeq(checks, LAMBDA passed : passed)) < 9 * Len(checks)

\* Mutant: the override is not looked at.
UpdateBackendHealthState_NotSticky(n) ==
  IF n.failedChecks >= RemoveAfter
  THEN [n EXCEPT !.healthy = FALSE, !.status = "unhealthy"]
  ELSE [n EXCEPT !.healthy = TRUE,
                 !.status = IF n.failedChecks > 0 THEN "degraded" ELSE "healthy"]

\* Mutant: removal from the pool forgets the displayed status.
UpdateBackendHealthState_StaleStatus(n) ==
  IF n.adminDisabled \/ n.failedChecks >= RemoveAfter
  THEN [n EXCEPT !.healthy = FALSE]
  ELSE [n EXCEPT !.healthy = TRUE,
                 !.status = IF n.failedChecks > 0 THEN "degraded" ELSE "healthy"]

UpdateBackendHealthState(n) ==
  IF n.adminDisabled
  THEN [n EXCEPT !.healthy = FALSE, !.status = "unhealthy"]
  ELSE IF n.failedChecks >= RemoveAfter
  THEN [n EXCEPT !.healthy = FALSE, !.status = "unhealthy"]
  ELSE IF n.passedChecks >= RejoinAfter /\ ~n.healthy
  THEN [n EXCEPT !.healthy = TRUE, !.status = "healthy"]
  ELSE IF n.failedChecks > 0 \/ LowSuccessRate(n.checks)
  THEN [n EXCEPT !.healthy = (n.failedChecks < RemoveAfter), !.status = "degraded"]
  ELSE [n EXCEPT !.healthy = TRUE, !.status = "healthy"]

RecordResult(n, success) ==
  UpdateBackendHealthState(
    [n EXCEPT !.failedChecks = IF success THEN 0 ELSE Bump(@, RemoveAfter),
              !.passedChecks = IF success THEN Bump(@, RejoinAfter) ELSE 0,
              !.checks = Slide(@, success)])

\* One completed health check: the store first, then the breaker.
CheckPassed(n) == RecordSuccess(RecordResult(n, TRUE))
CheckFailed(n) == RecordFailure(RecordResult(n, FALSE))

\* POST /api/health/:id/override
Override(n, healthy) ==
  [n EXCEPT !.adminDisabled = ~healthy, !.healthy = healthy,
            !.status = IF healthy THEN "healthy" ELSE "unhealthy",
            !.failedChecks = IF healthy THEN 0 ELSE RemoveAfter,
            !.passedChecks = IF healthy THEN RejoinAfter ELSE 0]

-----------------------------------------------------------------------------
(* The drain manager and the connection count it watches.                  *)

CompleteDrain(n) ==
  [n EXCEPT !.deadline = FALSE, !.onDrainComplete = FALSE,
            !.status = "offline", !.healthy = FALSE]

\* Mutant: no deadline is set.
DrainBackend_NoDeadline(n) ==
  LET m == [n EXCEPT !.healthy = FALSE, !.status = "draining",
                     !.drainStartTime = TRUE]
  IN  IF n.status = "draining" THEN n
      ELSE IF n.activeConnections = 0 THEN CompleteDrain(m)
      ELSE [m EXCEPT !.onDrainComplete = TRUE]

DrainBackend(n) ==
  LET m == [n EXCEPT !.healthy = FALSE, !.status = "draining",
                     !.drainStartTime = TRUE]
  IN  IF n.status = "draining" THEN n
      ELSE IF n.activeConnections = 0 THEN CompleteDrain(m)
      ELSE [m EXCEPT !.deadline = TRUE, !.onDrainComplete = TRUE]

\* The timer fires: it completes the drain, or finds the status changed.
DrainDeadline(n) ==
  IF n.status = "draining" THEN CompleteDrain(n)
  ELSE [n EXCEPT !.deadline = FALSE]

UndrainBackend(n) ==
  [n EXCEPT !.deadline = FALSE, !.onDrainComplete = FALSE,
            !.drainStartTime = FALSE,
            !.status = "healthy", !.healthy = TRUE]

Connect(n) == [n EXCEPT !.activeConnections = @ + 1]

\* Mutant: the callback is not called when the last connection goes.
Disconnect_NoCallback(n, k) ==
  [n EXCEPT !.activeConnections =
     IF n.activeConnections > k THEN n.activeConnections - k ELSE 0]

\* Mutant: the callback completes the drain at any release.
Disconnect_AnyRelease(n, k) ==
  LET m == [n EXCEPT !.activeConnections =
              IF n.activeConnections > k THEN n.activeConnections - k ELSE 0]
  IN  IF k > 0 /\ n.onDrainComplete /\ n.status = "draining"
      THEN CompleteDrain(m) ELSE m

\* k connections released one after the other by one response event; the
\* callback runs when the count reaches zero.
Disconnect(n, k) ==
  LET left == IF n.activeConnections > k THEN n.activeConnections - k ELSE 0
      m    == [n EXCEPT !.activeConnections = left]
  IN  IF k > 0 /\ left = 0 /\ n.onDrainComplete /\ n.status = "draining"
      THEN CompleteDrain(m)
      ELSE m

-----------------------------------------------------------------------------
(* RoutingEngine.getHealthyBackends over the whole pool.  The short-circuit *)
(* && means that canExecute runs, and may take a probe slot, on every      *)
(* healthy backend, whichever of them is selected afterwards.              *)
HealthyBackends(nodes) ==
  {b \in Backends : nodes[b].healthy /\ CanExecute(nodes[b])}

AfterFilter(nodes) ==
  [b \in Backends |-> IF nodes[b].healthy THEN TakeProbe(nodes[b]) ELSE nodes[b]]

-----------------------------------------------------------------------------
(* What must hold of a record, whichever handlers have written it.         *)

\* A breaker is CLOSED exactly while the failures since the last success or
\* reset are below the threshold, and HALF_OPEN only with a probe taken:
\* every path that clears the counter (recordSuccess, reset) closes the
\* breaker and every path that reaches the threshold opens it.
BreakerOK(n) ==
  /\ n.state = "CLOSED" <=> n.consecutiveFailures < FailureThreshold
  /\ n.state = "HALF_OPEN" => n.probeCount \in 1..HalfOpenMaxProbes

\* The two fields that four modules write never disagree: a backend in
\* rotation is shown healthy or degraded, one out of rotation is not shown
\* healthy, and degraded out of rotation means a breaker on trial.
StatusOK(n) ==
  /\ n.healthy => n.status \in {"healthy", "degraded"}
  /\ n.status = "healthy" => n.healthy
  /\ n.status = "degraded" /\ ~n.healthy => n.state = "HALF_OPEN"

\* A draining backend is always waiting for something that will come: it
\* has open connections, the callback that notices the last one, and a
\* pending deadline.
DrainOK(n) ==
  /\ n.status = "draining" =>
       n.activeConnections > 0 /\ n.deadline /\ n.onDrainComplete
  /\ n.deadline => n.onDrainComplete
  /\ n.onDrainComplete => n.drainStartTime
=============================================================================
