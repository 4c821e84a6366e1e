------------------------------ MODULE Gateway ------------------------------
(***************************************************************************)
(* The reverse proxy over the backend pool: the life of each request from  *)
(* the router to the end of its response, interleaved with the health      *)
(* monitor, the administrator and the timers that write the same pool.     *)
(*                                                                         *)
(* proxyMiddleware.js runs in the callbacks of the proxy library: the      *)
(* router when an attempt starts, the proxyRes and error hooks when the    *)
(* upstream reacts, and the decrement listeners on the response's finish   *)
(* and close events.  Each is one action.  Between them the client may go  *)
(* away (ClientClose): the response is closed, its listeners have run, and *)
(* the attempt or the retry that is under way goes on.                     *)
(***************************************************************************)
EXTENDS BackendNode, FiniteSets

CONSTANTS
  Requests,           \* identifiers of the client requests
  MaxRetries,         \* MAX_RETRIES, retries of an idempotent request
  MaxInflight,        \* bound of the pool's counters, never reached here
  None,               \* no backend (an absent req._backendId)
  Handlers,           \* bound: which other handlers run beside the traffic
  MaxOthers           \* bound: health checks and commands in a behaviour

ASSUME GatewayAssumption ==
  /\ MaxRetries \in Nat
  /\ None \notin Backends
  /\ MaxInflight \in Nat \ {0} /\ MaxOthers \in Nat
  /\ Handlers \subseteq {"check", "poll", "override", "drain", "undrain", "reset"}

\* Every attempt of every request fits in the pool's counters.
ASSUME InflightAssumption ==
  /\ IsFiniteSet(Requests)
  /\ Cardinality(Requests) * (MaxRetries + 1) <= MaxInflight

VARIABLES
  node,               \* node[b]: the pool's record of backend b
  checking,           \* checking[b]: a health check of b awaits its fetch
  req,                \* req[r]: the request and its response
  others              \* the health checks and commands so far

vars == <<node, checking, req, others>>

Attempts == 1..(MaxRetries + 1)

\* Where a request is: not arrived; an attempt sent, its response streaming;
\* waiting to retry; without a backend to go to (unrouted); answered 502;
\* cut off after the headers (stalled); nothing left to happen (over).
Phase == {"new", "sent", "streaming", "backoff", "unrouted", "failed",
          "stalled", "over"}

Request ==
  [ phase : Phase,
    idempotent : BOOLEAN,                    \* GET, HEAD or OPTIONS
    attempts : 0..(MaxRetries + 1),          \* req._attempts
    backend : Backends \cup {None},          \* req._backendId
    failedBackends : SUBSET Backends,        \* req._failedBackends
    open : BOOLEAN,                          \* res neither finished nor closed
    headersSent : BOOLEAN,                   \* res.headersSent
    listeners : [Attempts -> Backends \cup {None}],
                      \* the backend that an attempt's listener on res, if it
                      \* still waits, will decrement
    \* history: attempts sent upstream, answers written to an open response
    sends : Nat, answers : Nat ]

NewRequest ==
  [ phase |-> "new", idempotent |-> TRUE, attempts |-> 0, backend |-> None,
    failedBackends |-> {}, open |-> FALSE, headersSent |-> FALSE,
    listeners |-> [a \in Attempts |-> None], sends |-> 0, answers |-> 0 ]

TypeOK ==
  /\ node \in [Backends -> Node]
  /\ checking \in [Backends -> BOOLEAN]
  /\ req \in [Requests -> Request]
  /\ others \in 0..MaxOthers

Init ==
  /\ node = [b \in Backends |-> InitNode]
  /\ checking = [b \in Backends |-> FALSE]
  /\ req = [r \in Requests |-> NewRequest]
  /\ others = 0

-----------------------------------------------------------------------------
(* The pool this specification implements: an attempt counts as in flight  *)
(* while its upstream may still report.                                    *)

AtBackend(b) ==
  {r \in Requests : /\ req[r].backend = b
                    /\ req[r].phase \in {"sent", "streaming"}}

Inflight == [b \in Backends |-> Cardinality(AtBackend(b))]

Pool == INSTANCE BackendPool WITH inflight <- Inflight

-----------------------------------------------------------------------------
(* The router: selectBackend prefers the backends that have not failed     *)
(* this request and any strategy picks one of the candidates; the router   *)
(* counts the connection and hangs its decrement on the response, where it *)
(* never runs if the response has closed already.  q is the request at the *)
(* call.                                                                   *)

\* Mutant: backends that failed the request are not excluded.
Candidates_NoExclusion(q) == HealthyBackends(node)

Candidates(q) ==
  LET healthy == HealthyBackends(node)
      fresh   == healthy \ q.failedBackends
  IN  IF fresh = {} THEN healthy ELSE fresh

\* Mutant: the router forgets to count the connection.
Route_Uncounted(r, q) ==
  \E b \in Candidates(q) :
    /\ node' = AfterFilter(node)
    /\ req' = [req EXCEPT ![r] = [q EXCEPT !.phase = "sent", !.backend = b,
                                           !.sends = @ + 1]]

Route(r, q) ==
  \/ /\ Candidates(q) = {}
     /\ req' = [req EXCEPT ![r] = [q EXCEPT !.phase = "unrouted"]]
     /\ node' = AfterFilter(node)
  \/ \E b \in Candidates(q) :
       /\ node' = [AfterFilter(node) EXCEPT ![b] = Connect(@)]
       /\ req' = [req EXCEPT ![r] =
                    [q EXCEPT !.phase = "sent", !.backend = b,
                              !.listeners[q.attempts] = IF q.open THEN b ELSE None,
                              !.sends = @ + 1]]

\* proxyMiddlewareWithRetry
Arrive(r) ==
  /\ req[r].phase = "new"
  /\ \E idempotent \in BOOLEAN :
       Route(r, [req[r] EXCEPT !.idempotent = idempotent,
                               !.attempts = 1, !.open = TRUE])
  /\ UNCHANGED <<checking, others>>

\* The end of the backoff in handleProxyError: the request goes through the
\* proxy again, whatever has become of its client.
Retry(r) ==
  /\ req[r].phase = "backoff"
  /\ Route(r, req[r])
  /\ UNCHANGED <<checking, others>>

\* The proxyRes hook; the library then writes the headers and pipes the body.
UpstreamResponse(r) ==
  LET q == req[r] IN
  /\ q.phase = "sent"
  /\ \/ node' = [node EXCEPT ![q.backend] = RecordFailure(@)]   \* >= 500
     \/ node' = [node EXCEPT ![q.backend] = RecordSuccess(@)]   \* < 400
     \/ UNCHANGED node                                          \* 4xx
  /\ req' = [req EXCEPT ![r].phase = "streaming",
                        ![r].headersSent = q.open,
                        ![r].answers = IF q.open THEN @ + 1 ELSE @]
  /\ UNCHANGED <<checking, others>>

\* Mutants: one retry too many; a retry after the headers were sent.
Retryable_OneMore(q) ==
  q.idempotent /\ q.attempts <= MaxRetries + 1 /\ ~q.headersSent

Retryable_MidBody(q) == q.idempotent /\ q.attempts <= MaxRetries

\* The error hook, handleProxyError up to its await: a refused or reset
\* connection, a proxy timeout, or a socket error in mid-body.
Retryable(q) == q.idempotent /\ q.attempts <= MaxRetries /\ ~q.headersSent

\* Mutant: exhausted retries end without a 502.
FailedAttempt_Silent(q) ==
  IF Retryable(q)
  THEN [q EXCEPT !.phase = "backoff", !.attempts = @ + 1, !.backend = None,
                 !.failedBackends = @ \cup {q.backend}]
  ELSE [q EXCEPT !.phase = "stalled"]

FailedAttempt(q) ==
  LET e == [q EXCEPT !.failedBackends = @ \cup {q.backend}]
  IN  IF Retryable(q)
      THEN [e EXCEPT !.phase = "backoff", !.attempts = @ + 1, !.backend = None]
      ELSE IF q.headersSent THEN [e EXCEPT !.phase = "stalled"]
      ELSE [e EXCEPT !.phase = "failed", !.headersSent = q.open,
                     !.answers = IF q.open THEN @ + 1 ELSE @]

UpstreamError(r) ==
  LET q == req[r] IN
  /\ q.phase \in {"sent", "streaming"}
  /\ node' = [node EXCEPT ![q.backend] = RecordFailure(@)]
  /\ req' = [req EXCEPT ![r] = FailedAttempt(q)]
  /\ UNCHANGED <<checking, others>>

\* The decrement listeners of every attempt run when the response ends.
Closed(q) == [q EXCEPT !.open = FALSE, !.listeners = [a \in Attempts |-> None]]

WaitingFor(q, b) == {a \in Attempts : q.listeners[a] = b}

\* Mutant: finish and close both decrement.
RunListeners_Twice(q) ==
  node' = [b \in Backends |->
             Disconnect(node[b], 2 * Cardinality(WaitingFor(q, b)))]

RunListeners(q) ==
  node' = [b \in Backends |-> Disconnect(node[b], Cardinality(WaitingFor(q, b)))]

\* The response is complete: the upstream's body, or the 502.
Finish(r) ==
  LET q == req[r] IN
  /\ q.open /\ q.phase \in {"streaming", "failed"}
  /\ RunListeners(q)
  /\ req' = [req EXCEPT ![r] = [Closed(q) EXCEPT !.phase = "over"]]
  /\ UNCHANGED <<checking, others>>

\* The client goes away; the upstream attempt or the backoff goes on.
ClientClose(r) ==
  LET q == req[r] IN
  /\ q.open
  /\ RunListeners(q)
  /\ req' = [req EXCEPT ![r] =
       [Closed(q) EXCEPT !.phase = IF @ \in {"unrouted", "failed", "stalled"}
                                   THEN "over" ELSE @]]
  /\ UNCHANGED <<checking, others>>

\* With the client gone the library drops the attempt, or its body ends with
\* nobody to read it; a request that ended without a client is over as well.
Abandon(r) ==
  /\ ~req[r].open
  /\ req[r].phase \in {"sent", "streaming", "unrouted", "failed", "stalled"}
  /\ req' = [req EXCEPT ![r].phase = "over"]
  /\ UNCHANGED <<node, checking, others>>

-----------------------------------------------------------------------------
(* Everything else that writes the pool, as in BackendPool.                *)

Counted ==
  /\ others < MaxOthers /\ others' = others + 1
  /\ UNCHANGED req
  /\ \/ \E b \in Backends :
          \/ "check" \in Handlers /\ Pool!HealthCheckPassed(b)
          \/ "check" \in Handlers /\ Pool!HealthCheckFailed(b)
          \/ "override" \in Handlers /\ \E healthy \in BOOLEAN :
               Pool!AdminOverride(b, healthy)
          \/ "drain" \in Handlers /\ Pool!AdminDrain(b)
          \/ "undrain" \in Handlers /\ Pool!AdminUndrain(b)
          \/ "reset" \in Handlers /\ Pool!AdminReset({b})
     \/ "reset" \in Handlers /\ Pool!AdminReset(Backends)

Uncounted ==
  /\ UNCHANGED <<req, others>>
  /\ \/ "poll" \in Handlers /\ Pool!PollStatus
     \/ "check" \in Handlers /\ Pool!StartChecks
     \/ \E b \in Backends : Pool!Cooldown(b) \/ Pool!DrainTimer(b)

Traffic ==
  \E r \in Requests :
    \/ Arrive(r) \/ Retry(r)
    \/ UpstreamResponse(r) \/ UpstreamError(r)
    \/ Finish(r) \/ ClientClose(r) \/ Abandon(r)

Next == Traffic \/ Counted \/ Uncounted

Spec == Init /\ [][Next]_vars

\* The upstream answers or the proxy timeout ends the attempt; setTimeout ends
\* the backoff.
Reaction(r) == req[r].phase = "sent" /\ (UpstreamResponse(r) \/ UpstreamError(r))

Fairness == \A r \in Requests : WF_vars(Reaction(r)) /\ WF_vars(Retry(r))

FairSpec == Spec /\ Fairness

-----------------------------------------------------------------------------
(* Invariants.                                                             *)

\* The listeners that will still decrement backend b.
Listeners(b) ==
  {ra \in Requests \X Attempts : req[ra[1]].listeners[ra[2]] = b}

\* The connection count of a backend never falls below the listeners that
\* will decrement it, whatever the order of retries, errors, finishes and
\* closes: Math.max in decrement never hides a double release.
ConnectionsCounted ==
  \A b \in Backends : node[b].activeConnections >= Cardinality(Listeners(b))

(* Action properties.                                                      *)

\* A drain that completes before its deadline leaves no client with an
\* attempt at the backend, streaming or not.
QuietWhenDrained ==
  [][\A b \in Backends :
       /\ node[b].status = "draining" /\ node'[b].status = "offline"
       /\ ~Pool!DrainTimer(b)
       => \A r \in Requests : ~(req'[r].open /\ req'[r].backend = b)]_vars

\* A retry returns to a backend that failed the request only if every other
\* backend is out of rotation or has its breaker tripped.
RetryElsewhere ==
  [][\A r \in Requests :
       /\ req'[r].sends > req[r].sends
       /\ req'[r].backend \in req[r].failedBackends
       => \A b \in Backends \ req[r].failedBackends :
            ~node[b].healthy \/ node[b].state # "CLOSED"]_vars

(* Liveness.                                                               *)

\* A request that reaches a backend gets an answer after finitely many
\* failed attempts, unless its client leaves or no backend is left to try.
Answered ==
  \A r \in Requests :
    req[r].phase = "sent" ~>
      \/ req[r].answers > 0
      \/ ~req[r].open
      \/ req[r].phase = "unrouted"

(* What the code does, as the pool and as a proxy.                         *)

\* Every handler changes the pool, the attempts in flight and the pending
\* checks as BackendPool allows, so its invariants hold of the gateway.
PoolSpec == Pool!Spec

\* The proxy keeps the promise to its clients and upstreams.
Contract == INSTANCE ProxyContract WITH
  MaxAttempts <- MaxRetries + 1,
  call <- [r \in Requests |->
             [begun |-> req[r].phase # "new", idempotent |-> req[r].idempotent,
              open |-> req[r].open, sends |-> req[r].sends,
              answers |-> req[r].answers]]

ContractSpec == Contract!Spec

-----------------------------------------------------------------------------
\* leastConnections.js:17, "Increment on routing, decrement on res
\* finish/close": when every request is over no connection is counted.
IdleIsZero ==
  (\A r \in Requests : req[r].phase = "over") =>
    \A b \in Backends : node[b].activeConnections = 0
=============================================================================
