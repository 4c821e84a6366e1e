---------------------------- MODULE BackendPool ----------------------------
(***************************************************************************)
(* The pool of backends as its writers see it.  Live traffic, the health   *)
(* monitor, the administrator and the drain timers run interleaved on the  *)
(* event loop and all write the same pool objects; every action is one     *)
(* synchronous run of a handler.                                           *)
(*                                                                         *)
(* Requests are counted, not named: inflight[b] is the number of attempts  *)
(* sent to b whose upstream may still report an outcome.  It is not        *)
(* activeConnections, which the code decrements when the client's response *)
(* ends: after a client disconnects an upstream may still report.  Module  *)
(* Gateway names the requests and implements this specification.           *)
(***************************************************************************)
EXTENDS BackendNode

CONSTANT
  MaxInflight         \* bound: outstanding attempts and connections per backend

ASSUME PoolAssumption == MaxInflight \in Nat \ {0}

VARIABLES
  node,               \* node[b]: the record of backend b
  inflight,           \* inflight[b]: attempts at b with an outcome to come
  checking            \* checking[b]: a health check of b awaits its fetch

vars == <<node, inflight, checking>>

TypeOK ==
  /\ node \in [Backends -> Node]
  /\ \A b \in Backends : Len(node[b].checks) <= HistoryLimit
  /\ inflight \in [Backends -> Nat]
  /\ checking \in [Backends -> BOOLEAN]

Init ==
  /\ node = [b \in Backends |-> InitNode]
  /\ inflight = [b \in Backends |-> 0]
  /\ checking = [b \in Backends |-> FALSE]

-----------------------------------------------------------------------------
Ended(b) == [inflight EXCEPT ![b] = @ - 1]

(* Live traffic.                                                           *)

\* selectBackend picks b and the router counts the connection.
Dispatch(b) ==
  /\ b \in HealthyBackends(node)
  /\ inflight[b] < MaxInflight /\ node[b].activeConnections < MaxInflight
  /\ node' = [AfterFilter(node) EXCEPT ![b] = Connect(@)]
  /\ inflight' = [inflight EXCEPT ![b] = @ + 1]
  /\ UNCHANGED checking

\* GET /api/status lists the healthy backends and sends nothing upstream.
PollStatus ==
  /\ node' = AfterFilter(node)
  /\ UNCHANGED <<inflight, checking>>

\* The upstream of an attempt reports: a response below 400 or at least 500
\* (the attempt goes on until the body ends), or a socket error or timeout
\* (it is over).
UpstreamSuccess(b) ==
  /\ inflight[b] > 0
  /\ node' = [node EXCEPT ![b] = RecordSuccess(@)]
  /\ UNCHANGED <<inflight, checking>>

UpstreamFailure(b) ==
  /\ inflight[b] > 0
  /\ node' = [node EXCEPT ![b] = RecordFailure(@)]
  /\ inflight' \in {inflight, Ended(b)}
  /\ UNCHANGED checking

\* An attempt ends without a word to the breaker: its body is complete, or
\* it is dropped after the client went away.
UpstreamEnd(b) ==
  /\ inflight[b] > 0
  /\ inflight' = Ended(b)
  /\ UNCHANGED <<node, checking>>

\* The response of a request finishes or closes: the decrement listeners of
\* its attempts run, k[b] of them for backend b.
Release(k) ==
  /\ \E b \in Backends : k[b] > 0
  /\ \A b \in Backends : k[b] <= node[b].activeConnections
  /\ node' = [b \in Backends |-> Disconnect(node[b], k[b])]
  /\ \/ UNCHANGED inflight
     \/ \E b \in Backends : inflight[b] > 0 /\ inflight' = Ended(b)
  /\ UNCHANGED checking

(* Health monitor.                                                         *)

\* checkAll runs checkBackend on the whole pool; a backend whose previous
\* check still awaits is checked once at a time (timeout below interval).
StartChecks ==
  /\ checking' = [b \in Backends |-> TRUE]
  /\ UNCHANGED <<node, inflight>>

\* The await in checkBackend ends: a 2xx answer, or anything else, a timeout
\* included.
HealthCheckPassed(b) ==
  /\ checking[b]
  /\ checking' = [checking EXCEPT ![b] = FALSE]
  /\ node' = [node EXCEPT ![b] = CheckPassed(@)]
  /\ UNCHANGED inflight

HealthCheckFailed(b) ==
  /\ checking[b]
  /\ checking' = [checking EXCEPT ![b] = FALSE]
  /\ node' = [node EXCEPT ![b] = CheckFailed(@)]
  /\ UNCHANGED inflight

HealthCheck(b) == HealthCheckPassed(b) \/ HealthCheckFailed(b)

(* Administrator.                                                          *)

AdminOverride(b, healthy) ==
  /\ node' = [node EXCEPT ![b] = Override(@, healthy)]
  /\ UNCHANGED <<inflight, checking>>

AdminDrain(b) ==
  /\ node' = [node EXCEPT ![b] = DrainBackend(@)]
  /\ UNCHANGED <<inflight, checking>>

AdminUndrain(b) ==
  /\ node' = [node EXCEPT ![b] = UndrainBackend(@)]
  /\ UNCHANGED <<inflight, checking>>

\* Reset one breaker, or all of them in one handler.
AdminReset(bs) ==
  /\ node' = [b \in Backends |-> IF b \in bs THEN Reset(node[b]) ELSE node[b]]
  /\ UNCHANGED <<inflight, checking>>

(* Time.                                                                   *)

Cooldown(b) ==
  /\ node[b].state = "OPEN" /\ ~node[b].cooled
  /\ node' = [node EXCEPT ![b].cooled = TRUE]
  /\ UNCHANGED <<inflight, checking>>

DrainTimer(b) ==
  /\ node[b].deadline
  /\ node' = [node EXCEPT ![b] = DrainDeadline(@)]
  /\ UNCHANGED <<inflight, checking>>

-----------------------------------------------------------------------------
Traffic ==
  \/ PollStatus
  \/ \E b \in Backends :
       Dispatch(b) \/ UpstreamSuccess(b) \/ UpstreamFailure(b) \/ UpstreamEnd(b)
  \/ \E k \in [Backends -> 0..MaxInflight] : Release(k)

Monitor ==
  \/ StartChecks
  \/ \E b \in Backends : HealthCheckPassed(b) \/ HealthCheckFailed(b)

Admin ==
  \/ \E b \in Backends :
       \/ \E healthy \in BOOLEAN : AdminOverride(b, healthy)
       \/ AdminDrain(b)
       \/ AdminUndrain(b)
       \/ AdminReset({b})
  \/ AdminReset(Backends)

Clock == \E b \in Backends : Cooldown(b) \/ DrainTimer(b)

Next == Traffic \/ Monitor \/ Admin \/ Clock

Spec == Init /\ [][Next]_vars

\* The drain timers fire.  Nothing else is needed for a drain to end.
FairSpec == Spec /\ \A b \in Backends : WF_vars(DrainTimer(b))

\* setInterval keeps starting checks and every check ends (its fetch is
\* aborted after the timeout).
ChecksRun ==
  WF_vars(StartChecks) /\ \A b \in Backends : WF_vars(HealthCheck(b))

\* All of them, with cooldowns that pass and a dashboard that polls.
Fairness ==
  /\ ChecksRun /\ WF_vars(PollStatus)
  /\ \A b \in Backends : WF_vars(Cooldown(b)) /\ WF_vars(DrainTimer(b))

\* The gateway on its own, with no administrator at work, and with one whose
\* only command is to drain.
UnattendedSpec == Init /\ [][Traffic \/ Monitor \/ Clock]_vars /\ Fairness

MaintenanceSpec ==
  Init /\ [][Traffic \/ Monitor \/ Clock \/ \E b \in Backends : AdminDrain(b)]_vars

-----------------------------------------------------------------------------
(* Invariants.                                                             *)

\* A breaker's state and its failure count always agree.
BreakerCoherent == \A b \in Backends : BreakerOK(node[b])

\* The rotation flag and the displayed status always agree.
StatusCoherent == \A b \in Backends : StatusOK(node[b])

\* No drain waits for something that will not come.
DrainArmed == \A b \in Backends : DrainOK(node[b])

(* Action properties.                                                      *)

Connected(b) == node'[b].activeConnections > node[b].activeConnections

\* A request goes to a backend only through its breaker: a CLOSED one, or
\* one of the at most HalfOpenMaxProbes slots of a trial that began when
\* the cooldown was over.
DispatchThroughBreaker ==
  [][\A b \in Backends : BreakerEnabled /\ Connected(b) =>
       \/ node[b].state = "CLOSED"
       \/ node[b].state = "OPEN" /\ node[b].cooled /\ node'[b].probeCount = 1
       \/ /\ node[b].state = "HALF_OPEN"
          /\ node'[b].probeCount = node[b].probeCount + 1]_vars

\* A drain completes with no connection left, unless its deadline passes.
CleanDrain ==
  [][\A b \in Backends :
       node[b].status = "draining" /\ node'[b].status = "offline" =>
         node'[b].activeConnections = 0 \/ DrainTimer(b)]_vars

\* An override to unhealthy survives every handler except an undrain and the
\* closing of a breaker that was not CLOSED.
OverrideHolds ==
  [][\A b \in Backends :
       /\ node[b].adminDisabled /\ ~node[b].healthy
       /\ node'[b].adminDisabled /\ node'[b].healthy
       => \/ node[b].state # "CLOSED" /\ node'[b].state = "CLOSED"
          \/ AdminUndrain(b)]_vars

(* Liveness.                                                               *)

\* While checks run, a trial never hangs: a probe slot whose request never
\* reports (a 4xx, an aborted client, a status poll) is freed by the next
\* health check.
TrialEnds == ChecksRun =>
  \A b \in Backends : node[b].state = "HALF_OPEN" ~> node[b].state # "HALF_OPEN"

\* A drain ends by its deadline at the latest, with no help from a check,
\* the administrator or its clients.
DrainEnds ==
  \A b \in Backends : node[b].status = "draining" ~> node[b].status # "draining"

-----------------------------------------------------------------------------
(* What the repository says of the pool and the code does not do: each is  *)
(* the property of a run that must find it violated.                       *)

\* connectionDrainManager.js:10, "Stops assigning NEW incoming requests to
\* the draining backend": no request is connected to a backend between a
\* drain and an undrain.
DrainedGetsNoRequest ==
  [][\A b \in Backends : node[b].drainStartTime => ~Connected(b)]_vars

\* ARCHITECTURE.md:72, "After a 15s cooldown, HALF_OPEN state allows a trial
\* probe": an OPEN breaker does not stay OPEN for ever while getHealthyBackends
\* keeps being called.
OpenGetsTrial ==
  \A b \in Backends : node[b].state = "OPEN" ~> node[b].state # "OPEN"

=============================================================================
