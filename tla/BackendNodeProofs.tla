------------------------- MODULE BackendNodeProofs --------------------------
(***************************************************************************)
(* What each method of the breaker, the health store and the drain manager *)
(* does to a pool member's record, for every threshold and window.  `Good' *)
(* collects what holds of one record and one lemma per method shows that   *)
(* the method keeps it; `Quiet' is what most methods do not do.  The       *)
(* proofs about the pool and about the proxy both rest on these lemmas.    *)
(***************************************************************************)
EXTENDS BackendNode, TLAPS

USE NodeAssumption

Good(n) ==
  /\ n \in Node /\ Len(n.checks) <= HistoryLimit
  /\ BreakerOK(n) /\ StatusOK(n) /\ DrainOK(n)

-----------------------------------------------------------------------------
(* The methods of the circuit breaker.                                     *)

\* A transition writes the breaker and the two pool fields; it is sound
\* whenever the failure count already agrees with the new state.
LEMMA TransitionToGood ==
  ASSUME NEW n \in Node, Len(n.checks) <= HistoryLimit, StatusOK(n), DrainOK(n),
         NEW s \in {"CLOSED", "OPEN"},
         s = "CLOSED" <=> n.consecutiveFailures < FailureThreshold
  PROVE  Good(TransitionTo(n, s))
<1>1. CASE n.state = s
  BY <1>1 DEF Good, TransitionTo, BreakerOK
<1>2. CASE n.state # s /\ s = "CLOSED"
  BY <1>2 DEF Good, Node, CircuitState, Status, TransitionTo, StatusFor,
              BreakerOK, StatusOK, DrainOK
<1>3. CASE n.state # s /\ s = "OPEN"
  BY <1>3 DEF Good, Node, CircuitState, Status, TransitionTo, StatusFor,
              BreakerOK, StatusOK, DrainOK
<1> QED BY <1>1, <1>2, <1>3

\* A success clears the count and closes the breaker, from any state.
LEMMA RecordSuccessGood ==
  ASSUME NEW n, Good(n) PROVE Good(RecordSuccess(n))
<1> DEFINE m == [n EXCEPT !.consecutiveFailures = 0]
<1>1. m \in Node /\ Len(m.checks) <= HistoryLimit /\ StatusOK(m) /\ DrainOK(m)
  BY DEF Good, Node, StatusOK, DrainOK
<1>2. m.consecutiveFailures < FailureThreshold
  BY DEF Good, Node
<1> QED BY <1>1, <1>2, TransitionToGood DEF RecordSuccess

\* The manual reset does the same, in the other order.
LEMMA ResetGood ==
  ASSUME NEW n, Good(n) PROVE Good(Reset(n))
<1>1. CASE n.state = "CLOSED"
  BY <1>1 DEF Good, Node, Reset, TransitionTo, BreakerOK, StatusOK, DrainOK
<1>2. CASE n.state # "CLOSED"
  <2> DEFINE m == [n EXCEPT !.state = "CLOSED", !.cooled = FALSE,
                            !.healthy = TRUE, !.status = "healthy",
                            !.consecutiveFailures = 0]
  <2>1. Reset(n) = m
    BY <1>2 DEF Good, Node, Reset, TransitionTo, StatusFor
  <2>2. 0 \in 0..FailureThreshold
    OBVIOUS
  <2>3. m \in Node /\ m.checks = n.checks
    BY <2>2 DEF Good, Node, CircuitState, Status
  <2>4. BreakerOK(m) /\ StatusOK(m) /\ DrainOK(m)
    BY DEF Good, Node, BreakerOK, StatusOK, DrainOK
  <2> QED BY <2>1, <2>3, <2>4 DEF Good
<1> QED BY <1>1, <1>2

\* A failure trips the breaker exactly when the count says so, or again
\* from HALF_OPEN, where the count is already at the threshold.
LEMMA RecordFailureGood ==
  ASSUME NEW n, Good(n) PROVE Good(RecordFailure(n))
<1> DEFINE m == [n EXCEPT !.consecutiveFailures = Bump(@, FailureThreshold)]
<1>1. /\ m \in Node /\ Len(m.checks) <= HistoryLimit
      /\ StatusOK(m) /\ DrainOK(m)
      /\ m.state = n.state /\ m.probeCount = n.probeCount
      /\ m.consecutiveFailures >= n.consecutiveFailures
  BY SMTT(20) DEF Good, Node, Bump, StatusOK, DrainOK
<1>2. CASE ~BreakerEnabled
  BY <1>2 DEF RecordFailure
<1>3. CASE /\ BreakerEnabled
           /\ \/ n.state = "HALF_OPEN"
              \/ n.state = "CLOSED" /\ m.consecutiveFailures >= FailureThreshold
  <2>1. ~(m.consecutiveFailures < FailureThreshold)
    BY <1>1, <1>3 DEF Good, Node, BreakerOK
  <2>2. Good(TransitionTo(m, "OPEN"))
    BY <1>1, <2>1, TransitionToGood
  <2> QED BY <1>3, <2>2 DEF RecordFailure
<1>4. CASE /\ BreakerEnabled
           /\ ~ \/ n.state = "HALF_OPEN"
                \/ n.state = "CLOSED" /\ m.consecutiveFailures >= FailureThreshold
  <2>1. BreakerOK(m)
    BY <1>1, <1>4 DEF Good, Node, BreakerOK
  <2> QED BY <1>1, <1>4, <2>1 DEF Good, RecordFailure
<1> QED BY <1>2, <1>3, <1>4

\* canExecute opens a trial with its first probe and never takes a slot
\* beyond HalfOpenMaxProbes.
LEMMA TakeProbeGood ==
  ASSUME NEW n, Good(n) PROVE Good(TakeProbe(n))
<1>1. CASE ~BreakerEnabled \/ n.state = "CLOSED" \/ ~CanExecute(n)
  BY <1>1 DEF TakeProbe
<1>2. CASE BreakerEnabled /\ CanExecute(n) /\ n.state = "OPEN"
  <2> DEFINE m == [n EXCEPT !.state = "HALF_OPEN", !.cooled = FALSE,
                            !.healthy = FALSE, !.status = "degraded",
                            !.probeCount = 1]
  <2>1. TakeProbe(n) = m
    BY <1>2 DEF Good, Node, TakeProbe, TransitionTo, StatusFor
  <2>2. 1 \in 0..HalfOpenMaxProbes
    OBVIOUS
  <2>3. m \in Node /\ m.checks = n.checks
    BY <2>2 DEF Good, Node, CircuitState, Status
  <2>4. BreakerOK(m) /\ StatusOK(m) /\ DrainOK(m)
    BY <1>2 DEF Good, Node, BreakerOK, StatusOK, DrainOK
  <2> QED BY <2>1, <2>3, <2>4 DEF Good
<1>3. CASE BreakerEnabled /\ CanExecute(n) /\ n.state = "HALF_OPEN"
  BY <1>3 DEF Good, Node, TakeProbe, CanExecute, BreakerOK, StatusOK, DrainOK
<1> QED BY <1>1, <1>2, <1>3 DEF Good, Node, CircuitState

-----------------------------------------------------------------------------
(* The methods of the health store.                                        *)

\* The sliding window never outgrows HistoryLimit.
LEMMA SlideType ==
  ASSUME NEW checks \in Seq(BOOLEAN), Len(checks) <= HistoryLimit,
         NEW success \in BOOLEAN
  PROVE  Slide(checks, success) \in Seq(BOOLEAN) /\ Len(Slide(checks, success)) <= HistoryLimit
<1> DEFINE longer == Append(checks, success)
<1>1. longer \in Seq(BOOLEAN) /\ Len(longer) = Len(checks) + 1
  OBVIOUS
<1>2. CASE Len(longer) > HistoryLimit
  <2>1. Tail(longer) \in Seq(BOOLEAN) /\ Len(Tail(longer)) = Len(longer) - 1
    BY <1>1, longer # << >>
  <2> QED BY <1>1, <1>2, <2>1 DEF Slide
<1>3. CASE ~(Len(longer) > HistoryLimit)
  BY <1>1, <1>3 DEF Slide
<1> QED BY <1>2, <1>3

\* Whatever rule applies, the two pool fields are written together.
LEMMA UpdateGood ==
  ASSUME NEW n \in Node, Len(n.checks) <= HistoryLimit, BreakerOK(n),
         n.deadline => n.onDrainComplete, n.onDrainComplete => n.drainStartTime
  PROVE  Good(UpdateBackendHealthState(n))
<1>1. \E healthy \in BOOLEAN, status \in {"healthy", "degraded", "unhealthy"} :
        /\ UpdateBackendHealthState(n) =
             [n EXCEPT !.healthy = healthy, !.status = status]
        /\ healthy <=> status # "unhealthy"
  <2>1. CASE n.adminDisabled \/ n.failedChecks >= RemoveAfter
    <3>1. UpdateBackendHealthState(n) =
            [n EXCEPT !.healthy = FALSE, !.status = "unhealthy"]
      BY <2>1 DEF UpdateBackendHealthState
    <3> QED BY <3>1
  <2>2. CASE /\ ~n.adminDisabled /\ ~(n.failedChecks >= RemoveAfter)
             /\ n.passedChecks >= RejoinAfter /\ ~n.healthy
    <3>1. UpdateBackendHealthState(n) =
            [n EXCEPT !.healthy = TRUE, !.status = "healthy"]
      BY <2>2 DEF UpdateBackendHealthState
    <3> QED BY <3>1
  <2>3. CASE /\ ~n.adminDisabled /\ ~(n.failedChecks >= RemoveAfter)
             /\ ~(n.passedChecks >= RejoinAfter /\ ~n.healthy)
             /\ n.failedChecks > 0 \/ LowSuccessRate(n.checks)
    <3>1. n.failedChecks < RemoveAfter
      BY <2>3 DEF Node, RemoveAfter
    <3>2. UpdateBackendHealthState(n) =
            [n EXCEPT !.healthy = TRUE, !.status = "degraded"]
      BY <2>3, <3>1 DEF UpdateBackendHealthState
    <3> QED BY <3>2
  <2>4. CASE /\ ~n.adminDisabled /\ ~(n.failedChecks >= RemoveAfter)
             /\ ~(n.passedChecks >= RejoinAfter /\ ~n.healthy)
             /\ ~(n.failedChecks > 0 \/ LowSuccessRate(n.checks))
    <3>1. UpdateBackendHealthState(n) =
            [n EXCEPT !.healthy = TRUE, !.status = "healthy"]
      BY <2>4 DEF UpdateBackendHealthState
    <3> QED BY <3>1
  <2> QED BY <2>1, <2>2, <2>3, <2>4
<1>2. PICK healthy \in BOOLEAN, status \in {"healthy", "degraded", "unhealthy"} :
        /\ UpdateBackendHealthState(n) =
             [n EXCEPT !.healthy = healthy, !.status = status]
        /\ healthy <=> status # "unhealthy"
  BY <1>1
<1> QED BY <1>2 DEF Good, Node, Status, BreakerOK, StatusOK, DrainOK

\* The statistics and the override change fields of the record within
\* their types.
LEMMA StatisticsType ==
  ASSUME NEW n \in Node, NEW f \in 0..RemoveAfter, NEW p \in 0..RejoinAfter,
         NEW c \in Seq(BOOLEAN)
  PROVE  [n EXCEPT !.failedChecks = f, !.passedChecks = p, !.checks = c] \in Node
BY DEF Node

LEMMA OverrideType ==
  ASSUME NEW n \in Node, NEW d \in BOOLEAN, NEW h \in BOOLEAN, NEW s \in Status,
         NEW f \in 0..RemoveAfter, NEW p \in 0..RejoinAfter
  PROVE  [n EXCEPT !.adminDisabled = d, !.healthy = h, !.status = s,
                   !.failedChecks = f, !.passedChecks = p] \in Node
BY DEF Node

\* recordResult: the statistics, then the rules.
LEMMA RecordResultGood ==
  ASSUME NEW n, Good(n), NEW success \in BOOLEAN
  PROVE  Good(RecordResult(n, success))
<1> DEFINE m == [n EXCEPT
      !.failedChecks = IF success THEN 0 ELSE Bump(@, RemoveAfter),
      !.passedChecks = IF success THEN Bump(@, RejoinAfter) ELSE 0,
      !.checks = Slide(@, success)]
<1>1. n.checks \in Seq(BOOLEAN) /\ Len(n.checks) <= HistoryLimit
  BY DEF Good, Node
<1>2. Slide(n.checks, success) \in Seq(BOOLEAN)
      /\ Len(Slide(n.checks, success)) <= HistoryLimit
  BY <1>1, SlideType
<1>3. /\ m \in Node /\ Len(m.checks) <= HistoryLimit /\ BreakerOK(m)
      /\ m.deadline => m.onDrainComplete
      /\ m.onDrainComplete => m.drainStartTime
  <2>1. /\ (IF success THEN 0 ELSE Bump(n.failedChecks, RemoveAfter)) \in 0..RemoveAfter
        /\ (IF success THEN Bump(n.passedChecks, RejoinAfter) ELSE 0) \in 0..RejoinAfter
    BY DEF Good, Node, Bump, RemoveAfter, RejoinAfter
  <2>2. m \in Node
    BY <1>2, <2>1, StatisticsType DEF Good
  <2>3. m.checks = Slide(n.checks, success)
    BY DEF Good, Node
  <2>4. BreakerOK(m) /\ (m.deadline => m.onDrainComplete)
                    /\ (m.onDrainComplete => m.drainStartTime)
    BY DEF Good, Node, BreakerOK, DrainOK
  <2> QED BY <1>2, <2>2, <2>3, <2>4
<1> QED BY <1>3, UpdateGood DEF RecordResult

\* The override writes both pool fields and leaves drain and breaker alone.
LEMMA OverrideGood ==
  ASSUME NEW n, Good(n), NEW healthy \in BOOLEAN
  PROVE  Good(Override(n, healthy))
<1> DEFINE m == Override(n, healthy)
<1>1. m \in Node /\ Len(m.checks) <= HistoryLimit
  <2>1. /\ (~healthy) \in BOOLEAN
        /\ (IF healthy THEN "healthy" ELSE "unhealthy") \in Status
        /\ (IF healthy THEN 0 ELSE RemoveAfter) \in 0..RemoveAfter
        /\ (IF healthy THEN RejoinAfter ELSE 0) \in 0..RejoinAfter
    BY DEF Status, RemoveAfter, RejoinAfter
  <2>2. m \in Node
    BY <2>1, OverrideType, Zenon DEF Good, Override
  <2>3. m.checks = n.checks
    BY DEF Good, Node, Override
  <2> QED BY <2>2, <2>3 DEF Good
<1>2. BreakerOK(m)
  BY DEF Good, Node, Override, BreakerOK
<1>3. StatusOK(m) /\ DrainOK(m)
  BY DEF Good, Node, Override, StatusOK, DrainOK
<1> QED BY <1>1, <1>2, <1>3 DEF Good

-----------------------------------------------------------------------------
(* The methods of the drain manager and the connection count.              *)

\* completeDrain disarms the drain and needs nothing of the status before.
LEMMA CompleteDrainGood ==
  ASSUME NEW n \in Node, Len(n.checks) <= HistoryLimit, BreakerOK(n)
  PROVE  Good(CompleteDrain(n))
BY DEF Good, Node, Status, CompleteDrain, BreakerOK, StatusOK, DrainOK

\* drainBackend either completes at once or arms both the callback and the
\* timer.
LEMMA DrainBackendGood ==
  ASSUME NEW n, Good(n) PROVE Good(DrainBackend(n))
<1> DEFINE m == [n EXCEPT !.healthy = FALSE, !.status = "draining",
                          !.drainStartTime = TRUE]
<1>1. m \in Node /\ Len(m.checks) <= HistoryLimit /\ BreakerOK(m)
  BY DEF Good, Node, Status, BreakerOK
<1>2. CASE n.status = "draining"
  BY <1>2 DEF DrainBackend
<1>3. CASE n.status # "draining" /\ n.activeConnections = 0
  BY <1>1, <1>3, CompleteDrainGood DEF DrainBackend
<1>4. CASE n.status # "draining" /\ n.activeConnections # 0
  <2> DEFINE d == [n EXCEPT !.healthy = FALSE, !.status = "draining",
                            !.drainStartTime = TRUE, !.deadline = TRUE,
                            !.onDrainComplete = TRUE]
  <2>1. DrainBackend(n) = d
    BY <1>4 DEF Good, Node, DrainBackend
  <2>2. d \in Node /\ Len(d.checks) <= HistoryLimit
    BY DEF Good, Node, Status
  <2>3. BreakerOK(d) /\ StatusOK(d) /\ DrainOK(d)
    BY <1>4 DEF Good, Node, BreakerOK, StatusOK, DrainOK
  <2> QED BY <2>1, <2>2, <2>3 DEF Good
<1> QED BY <1>2, <1>3, <1>4

\* The timer completes the drain or finds it superseded.
LEMMA DrainDeadlineGood ==
  ASSUME NEW n, Good(n) PROVE Good(DrainDeadline(n))
<1>1. CASE n.status = "draining"
  BY <1>1, CompleteDrainGood DEF Good, DrainDeadline
<1>2. CASE n.status # "draining"
  BY <1>2 DEF Good, Node, DrainDeadline, BreakerOK, StatusOK, DrainOK
<1> QED BY <1>1, <1>2

\* undrainBackend disarms the drain and restores both pool fields.
LEMMA UndrainBackendGood ==
  ASSUME NEW n, Good(n) PROVE Good(UndrainBackend(n))
BY DEF Good, Node, Status, UndrainBackend, BreakerOK, StatusOK, DrainOK

\* A new connection only raises the count.
LEMMA ConnectGood ==
  ASSUME NEW n, Good(n) PROVE Good(Connect(n))
BY SMTT(20) DEF Good, Node, Connect, BreakerOK, StatusOK, DrainOK

\* The last connection of a draining backend completes the drain: DrainOK
\* has the callback in place, and the count cannot skip zero.
LEMMA DisconnectGood ==
  ASSUME NEW n, Good(n), NEW k \in Nat PROVE Good(Disconnect(n, k))
<1> DEFINE left == IF n.activeConnections > k THEN n.activeConnections - k ELSE 0
           m    == [n EXCEPT !.activeConnections = left]
<1>1. left \in Nat
  BY DEF Good, Node
<1>2. m \in Node /\ Len(m.checks) <= HistoryLimit /\ BreakerOK(m)
  BY <1>1 DEF Good, Node, BreakerOK
<1>3. CASE k > 0 /\ left = 0 /\ n.onDrainComplete /\ n.status = "draining"
  BY <1>2, <1>3, CompleteDrainGood DEF Disconnect
<1>4. CASE ~(k > 0 /\ left = 0 /\ n.onDrainComplete /\ n.status = "draining")
  <2>1. n.status = "draining" => left > 0
    BY <1>4 DEF Good, Node, DrainOK
  <2>2. StatusOK(m) /\ DrainOK(m)
    BY <2>1 DEF Good, Node, StatusOK, DrainOK
  <2> QED BY <1>2, <1>4, <2>2 DEF Good, Disconnect
<1> QED BY <1>3, <1>4

-----------------------------------------------------------------------------
(* Pools of records.                                                       *)

GoodPool(f) == f \in [Backends -> Node] /\ \A b \in Backends : Good(f[b])

\* A pool is good if each of its records is.
LEMMA EachGood ==
  ASSUME NEW f, f = [b \in Backends |-> f[b]], \A b \in Backends : Good(f[b])
  PROVE  GoodPool(f)
BY DEF Good, GoodPool

\* A handler that writes one record keeps the pool good if its method does.
LEMMA OneGood ==
  ASSUME NEW f, GoodPool(f), NEW b \in Backends, NEW m, Good(m)
  PROVE  GoodPool([f EXCEPT ![b] = m])
BY DEF GoodPool, Good

\* getHealthyBackends takes its probe slots all over the pool.
LEMMA FilterGood ==
  ASSUME NEW f, GoodPool(f)
  PROVE  GoodPool(AfterFilter(f))
<1>1. \A b \in Backends : Good(AfterFilter(f)[b])
  BY TakeProbeGood DEF GoodPool, AfterFilter
<1>2. AfterFilter(f) = [b \in Backends |-> AfterFilter(f)[b]]
  BY DEF AfterFilter
<1> QED BY <1>1, <1>2, EachGood

-----------------------------------------------------------------------------
(* What most methods do not do: the action properties of the pool and of   *)
(* the proxy speak of one record before and after a step.                  *)

\* The override holds from n to m.
Held(n, m) ==
  n.adminDisabled /\ ~n.healthy /\ m.adminDisabled /\ m.healthy =>
    n.state # "CLOSED" /\ m.state = "CLOSED"

\* A drain that completes from n to m leaves no connection.
Clean(n, m) ==
  n.status = "draining" /\ m.status = "offline" => m.activeConnections = 0

Quiet(n, m) ==
  Held(n, m) /\ Clean(n, m) /\ ~(m.activeConnections > n.activeConnections)

\* The four methods of the breaker bring a backend back into rotation only
\* with a transition to CLOSED, and never complete a drain.
LEMMA BreakerQuiet ==
  ASSUME NEW n \in Node
  PROVE  /\ Quiet(n, RecordSuccess(n)) /\ Quiet(n, RecordFailure(n))
         /\ Quiet(n, Reset(n)) /\ Quiet(n, TakeProbe(n))
<1>1. Quiet(n, RecordSuccess(n))
  BY DEF Quiet, Held, Clean, Node, RecordSuccess, TransitionTo, StatusFor
<1>2. Quiet(n, RecordFailure(n))
  BY DEF Quiet, Held, Clean, Node, RecordFailure, TransitionTo, StatusFor
<1>3. Quiet(n, Reset(n))
  BY DEF Quiet, Held, Clean, Node, Reset, TransitionTo, StatusFor
<1>4. Quiet(n, TakeProbe(n))
  BY DEF Quiet, Held, Clean, Node, TakeProbe, TransitionTo, StatusFor
<1> QED BY <1>1, <1>2, <1>3, <1>4

\* A check evaluates the rules, where the override comes first, and then
\* tells the breaker.
LEMMA CheckQuiet ==
  ASSUME NEW n, Good(n)
  PROVE  Quiet(n, CheckPassed(n)) /\ Quiet(n, CheckFailed(n))
<1>1. ASSUME NEW success \in BOOLEAN
      PROVE  /\ RecordResult(n, success) \in Node
             /\ RecordResult(n, success).activeConnections = n.activeConnections
             /\ RecordResult(n, success).state = n.state
             /\ RecordResult(n, success).adminDisabled = n.adminDisabled
             /\ RecordResult(n, success).status # "offline"
             /\ n.adminDisabled => ~RecordResult(n, success).healthy
  <2> DEFINE m == [n EXCEPT
        !.failedChecks = IF success THEN 0 ELSE Bump(@, RemoveAfter),
        !.passedChecks = IF success THEN Bump(@, RejoinAfter) ELSE 0,
        !.checks = Slide(@, success)]
  <2>1. RecordResult(n, success) = UpdateBackendHealthState(m)
    BY DEF RecordResult
  <2>2. RecordResult(n, success) \in Node
    BY RecordResultGood DEF Good
  <2>3. /\ m.activeConnections = n.activeConnections /\ m.state = n.state
        /\ m.adminDisabled = n.adminDisabled
        /\ DOMAIN m = DOMAIN n
    BY DEF Good, Node
  <2> HIDE DEF m
  <2>4. /\ UpdateBackendHealthState(m).activeConnections = m.activeConnections
        /\ UpdateBackendHealthState(m).state = m.state
        /\ UpdateBackendHealthState(m).adminDisabled = m.adminDisabled
        /\ UpdateBackendHealthState(m).status # "offline"
        /\ m.adminDisabled => ~UpdateBackendHealthState(m).healthy
    BY <2>3 DEF Good, Node, UpdateBackendHealthState
  <2> QED BY <2>1, <2>2, <2>3, <2>4
<1>2. Quiet(n, CheckPassed(n))
  <2> DEFINE m == RecordResult(n, TRUE)
  <2>1. /\ m \in Node /\ m.activeConnections = n.activeConnections
        /\ m.state = n.state /\ m.adminDisabled = n.adminDisabled
        /\ m.status # "offline" /\ (n.adminDisabled => ~m.healthy)
    BY <1>1
  <2> HIDE DEF m
  <2>2. Quiet(n, RecordSuccess(m))
    BY <2>1 DEF Quiet, Held, Clean, Good, Node, RecordSuccess, TransitionTo, StatusFor
  <2> QED BY <2>2 DEF CheckPassed, m
<1>3. Quiet(n, CheckFailed(n))
  <2> DEFINE m == RecordResult(n, FALSE)
  <2>1. /\ m \in Node /\ m.activeConnections = n.activeConnections
        /\ m.state = n.state /\ m.adminDisabled = n.adminDisabled
        /\ m.status # "offline" /\ (n.adminDisabled => ~m.healthy)
    BY <1>1
  <2> HIDE DEF m
  <2>2. Quiet(n, RecordFailure(m))
    BY <2>1 DEF Quiet, Held, Clean, Good, Node, RecordFailure, TransitionTo, StatusFor
  <2> QED BY <2>2 DEF CheckFailed, m
<1> QED BY <1>2, <1>3

\* The other handlers that write a record: the override to unhealthy clears
\* `healthy', a drain completes with the last connection.
LEMMA OthersQuiet ==
  ASSUME NEW n, Good(n)
  PROVE  /\ Quiet(n, n)
         /\ Quiet(n, [n EXCEPT !.cooled = TRUE])
         /\ \A healthy \in BOOLEAN : Quiet(n, Override(n, healthy))
         /\ Quiet(n, DrainBackend(n))
         /\ \A k \in Nat : Quiet(n, Disconnect(n, k))
<1>1. Quiet(n, n)
  BY DEF Quiet, Held, Clean, Good, Node
<1>2. Quiet(n, [n EXCEPT !.cooled = TRUE])
  BY DEF Quiet, Held, Clean, Good, Node
<1>3. \A healthy \in BOOLEAN : Quiet(n, Override(n, healthy))
  BY DEF Quiet, Held, Clean, Good, Node, Override
<1>4. Quiet(n, DrainBackend(n))
  BY DEF Quiet, Held, Clean, Good, Node, DrainBackend, CompleteDrain
<1>5. \A k \in Nat : Quiet(n, Disconnect(n, k))
  BY DEF Quiet, Held, Clean, Good, Node, Disconnect, CompleteDrain
<1> QED BY <1>1, <1>2, <1>3, <1>4, <1>5
=============================================================================
