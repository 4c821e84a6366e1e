------------------------- MODULE BackendPoolProofs -------------------------
(***************************************************************************)
(* The invariants of BackendPool, for every pool, threshold and window.    *)
(* They are proved together: `Good' (BackendNodeProofs) collects what      *)
(* holds of one backend, the lemmas there show that each method keeps it,  *)
(* and the step theorem here has one case per action.                      *)
(***************************************************************************)
EXTENDS BackendPool, BackendNodeProofs, TLAPS

IInv ==
  /\ GoodPool(node)
  /\ inflight \in [Backends -> Nat]
  /\ checking \in [Backends -> BOOLEAN]

USE NodeAssumption, PoolAssumption

-----------------------------------------------------------------------------
(* The steps.                                                              *)

\* The invariant survives every step.
THEOREM StepIInv == IInv /\ [Next]_vars => IInv'
<1> SUFFICES ASSUME IInv, [Next]_vars PROVE IInv'
  OBVIOUS
<1>1. ASSUME NEW b \in Backends, Dispatch(b) PROVE IInv'
  <2> DEFINE f == AfterFilter(node)
  <2>1. GoodPool(f)
    BY FilterGood DEF IInv
  <2>2. Good(Connect(f[b]))
    BY <2>1, ConnectGood DEF GoodPool
  <2>3. node' = [f EXCEPT ![b] = Connect(f[b])]
    BY <1>1 DEF Dispatch
  <2> HIDE DEF f
  <2>4. GoodPool(node')
    BY <2>1, <2>2, <2>3, OneGood
  <2>5. inflight' \in [Backends -> Nat] /\ checking' = checking
    BY <1>1 DEF Dispatch, IInv
  <2> QED BY <2>4, <2>5 DEF IInv
<1>2. CASE PollStatus
  BY <1>2, FilterGood DEF PollStatus, IInv
<1>3. ASSUME NEW b \in Backends, UpstreamSuccess(b) PROVE IInv'
  <2>1. Good(RecordSuccess(node[b]))
    BY RecordSuccessGood DEF IInv, GoodPool
  <2> QED BY <1>3, <2>1, OneGood DEF UpstreamSuccess, IInv
<1>4. ASSUME NEW b \in Backends, UpstreamFailure(b) PROVE IInv'
  <2>1. Good(RecordFailure(node[b]))
    BY RecordFailureGood DEF IInv, GoodPool
  <2>2. inflight' \in [Backends -> Nat]
    BY <1>4 DEF UpstreamFailure, Ended, IInv
  <2> QED BY <1>4, <2>1, <2>2, OneGood DEF UpstreamFailure, IInv
<1>5. ASSUME NEW b \in Backends, UpstreamEnd(b) PROVE IInv'
  BY <1>5 DEF UpstreamEnd, Ended, IInv
<1>6. ASSUME NEW k \in [Backends -> 0..MaxInflight], Release(k) PROVE IInv'
  <2>1. \A b \in Backends : Good(Disconnect(node[b], k[b]))
    BY DisconnectGood DEF IInv, GoodPool
  <2>2. GoodPool(node')
    BY <1>6, <2>1, EachGood DEF Release
  <2>3. inflight' \in [Backends -> Nat]
    BY <1>6 DEF Release, Ended, IInv
  <2> QED BY <1>6, <2>2, <2>3 DEF Release, IInv
<1>7. CASE StartChecks
  BY <1>7 DEF StartChecks, IInv
<1>8. ASSUME NEW b \in Backends, HealthCheckPassed(b) PROVE IInv'
  <2>1. Good(CheckPassed(node[b]))
    BY RecordResultGood, RecordSuccessGood DEF CheckPassed, IInv, GoodPool
  <2> QED BY <1>8, <2>1, OneGood DEF HealthCheckPassed, IInv
<1>9. ASSUME NEW b \in Backends, HealthCheckFailed(b) PROVE IInv'
  <2>1. Good(CheckFailed(node[b]))
    BY RecordResultGood, RecordFailureGood DEF CheckFailed, IInv, GoodPool
  <2> QED BY <1>9, <2>1, OneGood DEF HealthCheckFailed, IInv
<1>10. ASSUME NEW b \in Backends, NEW healthy \in BOOLEAN, AdminOverride(b, healthy)
       PROVE IInv'
  <2>1. Good(Override(node[b], healthy))
    BY OverrideGood DEF IInv, GoodPool
  <2> QED BY <1>10, <2>1, OneGood DEF AdminOverride, IInv
<1>11. ASSUME NEW b \in Backends, AdminDrain(b) PROVE IInv'
  <2>1. Good(DrainBackend(node[b]))
    BY DrainBackendGood DEF IInv, GoodPool
  <2> QED BY <1>11, <2>1, OneGood DEF AdminDrain, IInv
<1>12. ASSUME NEW b \in Backends, AdminUndrain(b) PROVE IInv'
  <2>1. Good(UndrainBackend(node[b]))
    BY UndrainBackendGood DEF IInv, GoodPool
  <2> QED BY <1>12, <2>1, OneGood DEF AdminUndrain, IInv
<1>13. ASSUME NEW bs, AdminReset(bs) PROVE IInv'
  <2>1. \A b \in Backends : Good(IF b \in bs THEN Reset(node[b]) ELSE node[b])
    BY ResetGood DEF IInv, GoodPool
  <2>2. GoodPool(node')
    BY <1>13, <2>1, EachGood DEF AdminReset
  <2> QED BY <1>13, <2>2 DEF AdminReset, IInv
<1>14. ASSUME NEW b \in Backends, Cooldown(b) PROVE IInv'
  <2> DEFINE m == [node[b] EXCEPT !.cooled = TRUE]
  <2>1. Good(m)
    BY ZenonT(30) DEF IInv, GoodPool, Good, Node, BreakerOK, StatusOK, DrainOK
  <2>2. node' = [node EXCEPT ![b] = m]
    BY <1>14 DEF Cooldown
  <2> HIDE DEF m
  <2>3. GoodPool(node')
    BY <2>1, <2>2, OneGood DEF IInv
  <2> QED BY <1>14, <2>3 DEF Cooldown, IInv
<1>15. ASSUME NEW b \in Backends, DrainTimer(b) PROVE IInv'
  <2>1. Good(DrainDeadline(node[b]))
    BY DrainDeadlineGood DEF IInv, GoodPool
  <2> QED BY <1>15, <2>1, OneGood DEF DrainTimer, IInv
<1>16. CASE UNCHANGED vars
  BY <1>16 DEF vars, IInv
<1> QED
  BY <1>1, <1>2, <1>3, <1>4, <1>5, <1>6, <1>7, <1>8, <1>9, <1>10, <1>11,
     <1>12, <1>13, <1>14, <1>15, <1>16
  DEF Next, Traffic, Monitor, Admin, Clock

\* Every backend starts good.
LEMMA InitIInv == Init => IInv
<1> SUFFICES ASSUME Init PROVE IInv
  OBVIOUS
<1>1. InitNode \in Node /\ Len(InitNode.checks) <= HistoryLimit
  <2>1. /\ 0 \in 0..FailureThreshold /\ 0 \in 0..HalfOpenMaxProbes
        /\ 0 \in 0..RemoveAfter /\ 0 \in 0..RejoinAfter
        /\ << >> \in Seq(BOOLEAN) /\ Len(<< >>) <= HistoryLimit
    BY DEF RemoveAfter, RejoinAfter
  <2> QED BY <2>1 DEF InitNode, Node, CircuitState, Status
<1>2. BreakerOK(InitNode) /\ StatusOK(InitNode) /\ DrainOK(InitNode)
  BY DEF InitNode, BreakerOK, StatusOK, DrainOK
<1> QED BY <1>1, <1>2 DEF Init, IInv, GoodPool, Good

\* The inductive invariant holds for ever.
THEOREM Invariance == Spec => []IInv
BY InitIInv, StepIInv, PTL DEF Spec

\* Type correctness: counters stay within the thresholds, the window within
\* HistoryLimit, and no connection count goes below zero.
THEOREM TypeCorrect == Spec => []TypeOK
<1>1. IInv => TypeOK
  BY DEF IInv, GoodPool, Good, TypeOK
<1> QED BY <1>1, Invariance, PTL

\* The breaker's state and its failure count agree on every path that
\* writes either (recordSuccess, recordFailure, canExecute, reset).
THEOREM BreakersCoherent == Spec => []BreakerCoherent
<1>1. IInv => BreakerCoherent
  BY DEF IInv, GoodPool, Good, BreakerCoherent
<1> QED BY <1>1, Invariance, PTL

\* The four writers of `healthy' and `status' never leave them in
\* disagreement.
THEOREM StatusesCoherent == Spec => []StatusCoherent
<1>1. IInv => StatusCoherent
  BY DEF IInv, GoodPool, Good, StatusCoherent
<1> QED BY <1>1, Invariance, PTL

\* No drain waits for a connection that has already gone.
THEOREM DrainsArmed == Spec => []DrainArmed
<1>1. IInv => DrainArmed
  BY DEF IInv, GoodPool, Good, DrainArmed
<1> QED BY <1>1, Invariance, PTL

\* A step is quiet at b, or it is the drain timer, an undrain, or a dispatch.
LEMMA StepQuiet ==
  ASSUME IInv, [Next]_vars, NEW b \in Backends
  PROVE  \/ Quiet(node[b], node'[b])
         \/ DrainTimer(b) \/ AdminUndrain(b) \/ Dispatch(b)
<1>0. Good(node[b]) /\ node[b] \in Node /\ Quiet(node[b], node[b])
  BY OthersQuiet DEF IInv, GoodPool
<1> DEFINE OneWritten(c, m) == node' = [node EXCEPT ![c] = m]
<1>a. ASSUME NEW c \in Backends, NEW m, OneWritten(c, m),
             c = b => Quiet(node[b], m)
      PROVE  Quiet(node[b], node'[b])
  <2>1. CASE c = b
    BY <1>a, <2>1 DEF IInv, GoodPool
  <2>2. CASE c # b
    BY <1>a, <2>2, <1>0 DEF IInv, GoodPool
  <2> QED BY <2>1, <2>2
<1>b. Quiet(node[b], AfterFilter(node)[b])
  BY <1>0, BreakerQuiet DEF AfterFilter
<1>1. ASSUME NEW c \in Backends, Dispatch(c), c # b PROVE Quiet(node[b], node'[b])
  <2>1. node'[b] = AfterFilter(node)[b]
    BY <1>1 DEF Dispatch, AfterFilter
  <2> QED BY <2>1, <1>b
<1>2. CASE PollStatus
  BY <1>2, <1>b DEF PollStatus
<1>3. ASSUME NEW c \in Backends, UpstreamSuccess(c) PROVE Quiet(node[b], node'[b])
  BY <1>3, <1>a, <1>0, BreakerQuiet DEF UpstreamSuccess
<1>4. ASSUME NEW c \in Backends, UpstreamFailure(c) PROVE Quiet(node[b], node'[b])
  BY <1>4, <1>a, <1>0, BreakerQuiet DEF UpstreamFailure
<1>5. ASSUME NEW k \in [Backends -> 0..MaxInflight], Release(k)
      PROVE  Quiet(node[b], node'[b])
  <2>1. node'[b] = Disconnect(node[b], k[b]) /\ k[b] \in Nat
    BY <1>5 DEF Release
  <2> QED BY <2>1, <1>0, OthersQuiet
<1>6. ASSUME NEW c \in Backends, HealthCheckPassed(c) PROVE Quiet(node[b], node'[b])
  BY <1>6, <1>a, <1>0, CheckQuiet DEF HealthCheckPassed
<1>7. ASSUME NEW c \in Backends, HealthCheckFailed(c) PROVE Quiet(node[b], node'[b])
  BY <1>7, <1>a, <1>0, CheckQuiet DEF HealthCheckFailed
<1>8. ASSUME NEW c \in Backends, NEW healthy \in BOOLEAN, AdminOverride(c, healthy)
      PROVE  Quiet(node[b], node'[b])
  BY <1>8, <1>a, <1>0, OthersQuiet DEF AdminOverride
<1>9. ASSUME NEW c \in Backends, AdminDrain(c) PROVE Quiet(node[b], node'[b])
  BY <1>9, <1>a, <1>0, OthersQuiet DEF AdminDrain
<1>10. ASSUME NEW c \in Backends, AdminUndrain(c), c # b
       PROVE  Quiet(node[b], node'[b])
  BY <1>10, <1>a DEF AdminUndrain
<1>11. ASSUME NEW bs, AdminReset(bs) PROVE Quiet(node[b], node'[b])
  BY <1>11, <1>0, BreakerQuiet DEF AdminReset
<1>12. ASSUME NEW c \in Backends, Cooldown(c) PROVE Quiet(node[b], node'[b])
  <2> DEFINE m == [node[c] EXCEPT !.cooled = TRUE]
  <2>1. node' = [node EXCEPT ![c] = m]
    BY <1>12 DEF Cooldown
  <2>2. c = b => Quiet(node[b], m)
    BY <1>0, OthersQuiet
  <2> HIDE DEF m
  <2> QED BY <2>1, <2>2, <1>a
<1>13. ASSUME NEW c \in Backends, DrainTimer(c), c # b
       PROVE  Quiet(node[b], node'[b])
  BY <1>13, <1>a DEF DrainTimer
<1>14. CASE UNCHANGED node
  BY <1>14, <1>0
<1> QED
  BY <1>1, <1>2, <1>3, <1>4, <1>5, <1>6, <1>7, <1>8, <1>9, <1>10, <1>11,
     <1>12, <1>13, <1>14
  DEF Next, Traffic, Monitor, Admin, Clock, vars, UpstreamEnd, StartChecks

\* A connection is added only by a dispatch, and that only to a backend
\* whose breaker has just let it through.
THEOREM DispatchesThroughBreaker == Spec => DispatchThroughBreaker
<1>1. IInv /\ [Next]_vars =>
        [\A b \in Backends : BreakerEnabled /\ Connected(b) =>
           \/ node[b].state = "CLOSED"
           \/ node[b].state = "OPEN" /\ node[b].cooled /\ node'[b].probeCount = 1
           \/ /\ node[b].state = "HALF_OPEN"
              /\ node'[b].probeCount = node[b].probeCount + 1]_vars
  <2> SUFFICES ASSUME IInv, [Next]_vars, NEW b \in Backends,
                      BreakerEnabled, Connected(b)
               PROVE  \/ node[b].state = "CLOSED"
                      \/ /\ node[b].state = "OPEN" /\ node[b].cooled
                         /\ node'[b].probeCount = 1
                      \/ /\ node[b].state = "HALF_OPEN"
                         /\ node'[b].probeCount = node[b].probeCount + 1
    OBVIOUS
  <2>1. node[b] \in Node
    BY DEF IInv, GoodPool
  <2>2. ~Quiet(node[b], node'[b])
    BY DEF Quiet, Connected
  <2>3. CASE DrainTimer(b)
    BY <2>1, <2>3 DEF IInv, GoodPool, DrainTimer, DrainDeadline, CompleteDrain, Connected, Node
  <2>4. CASE AdminUndrain(b)
    BY <2>1, <2>4 DEF IInv, GoodPool, AdminUndrain, UndrainBackend, Connected, Node
  <2>5. CASE Dispatch(b)
    <3>1. node[b].healthy /\ CanExecute(node[b])
      BY <2>5 DEF Dispatch, HealthyBackends
    <3>2. node'[b] = Connect(TakeProbe(node[b]))
      BY <2>5, <3>1 DEF Dispatch, AfterFilter
    <3> QED
      BY <2>1, <3>1, <3>2
      DEF Node, Connect, TakeProbe, CanExecute, TransitionTo
  <2> QED BY <2>2, <2>3, <2>4, <2>5, StepQuiet
<1> QED BY <1>1, Invariance, PTL DEF Spec, DispatchThroughBreaker

\* A drain completes with no connection left, unless its deadline passes:
\* the callback runs when the count has reached zero, and no other handler
\* writes `offline' over `draining'.
THEOREM DrainsClean == Spec => CleanDrain
<1>1. IInv /\ [Next]_vars =>
        [\A b \in Backends :
           node[b].status = "draining" /\ node'[b].status = "offline" =>
             node'[b].activeConnections = 0 \/ DrainTimer(b)]_vars
  <2> SUFFICES ASSUME IInv, [Next]_vars, NEW b \in Backends,
                      node[b].status = "draining", node'[b].status = "offline"
               PROVE  node'[b].activeConnections = 0 \/ DrainTimer(b)
    OBVIOUS
  <2>1. node[b] \in Node
    BY DEF IInv, GoodPool
  <2>2. CASE Quiet(node[b], node'[b])
    BY <2>2 DEF Quiet, Clean
  <2>3. ~AdminUndrain(b)
    BY <2>1, ZenonT(30) DEF IInv, GoodPool, AdminUndrain, UndrainBackend, Node
  <2>4. ~Dispatch(b)
    BY <2>1 DEF IInv, GoodPool, StatusOK, Good, Dispatch, HealthyBackends
  <2> QED BY <2>2, <2>3, <2>4, StepQuiet
<1> QED BY <1>1, Invariance, PTL DEF Spec, CleanDrain

\* An override to unhealthy survives every handler except an undrain and the
\* closing of a breaker that was not CLOSED.
THEOREM OverridesHold == Spec => OverrideHolds
<1>1. IInv /\ [Next]_vars =>
        [\A b \in Backends :
           /\ node[b].adminDisabled /\ ~node[b].healthy
           /\ node'[b].adminDisabled /\ node'[b].healthy
           => \/ node[b].state # "CLOSED" /\ node'[b].state = "CLOSED"
              \/ AdminUndrain(b)]_vars
  <2> SUFFICES ASSUME IInv, [Next]_vars, NEW b \in Backends,
                      node[b].adminDisabled, ~node[b].healthy,
                      node'[b].adminDisabled, node'[b].healthy
               PROVE  \/ node[b].state # "CLOSED" /\ node'[b].state = "CLOSED"
                      \/ AdminUndrain(b)
    OBVIOUS
  <2>1. node[b] \in Node
    BY DEF IInv, GoodPool
  <2>2. CASE Quiet(node[b], node'[b])
    BY <2>2 DEF Quiet, Held
  <2>3. ~DrainTimer(b)
    BY <2>1, ZenonT(30) DEF IInv, GoodPool, DrainTimer, DrainDeadline, CompleteDrain, Node
  <2>4. ~Dispatch(b)
    BY DEF Dispatch, HealthyBackends
  <2> QED BY <2>2, <2>3, <2>4, StepQuiet
<1> QED BY <1>1, Invariance, PTL DEF Spec, OverrideHolds
=============================================================================
