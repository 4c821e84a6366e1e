---------------------------- MODULE GatewayProofs ---------------------------
(***************************************************************************)
(* What holds of the proxy for any number of requests, backends and        *)
(* retries: it implements ProxyContract and BackendPool, its connection    *)
(* counts cover the listeners that will release them, a drain that         *)
(* completes has no client left, and retries go elsewhere.                 *)
(*                                                                         *)
(* The invariant has three parts: the requests (`ReqOK'), the records of   *)
(* the pool (`GoodPool', from BackendNodeProofs) and what relates the two  *)
(* (`Covered').  The first alone carries the contract; the pool needs them *)
(* all, and that its counters stay below their bound (`Tallied').          *)
(***************************************************************************)
EXTENDS Gateway, BackendNodeProofs, FiniteSetTheorems

USE NodeAssumption, GatewayAssumption

-----------------------------------------------------------------------------
(* The requests.                                                           *)

\* Before its answer a request has no headers; while an attempt is out it
\* has been sent once per attempt, in backoff once less; and as long as its
\* client is there the attempt at its backend has a listener waiting.
ReqOK(q) ==
  /\ q.answers \in 0..1
  /\ q.phase = "new" => ~q.open /\ q.sends = 0 /\ q.backend = None
  /\ q.phase \in {"new", "sent", "backoff", "unrouted"} => q.answers = 0 /\ ~q.headersSent
  /\ q.phase = "streaming" /\ ~q.headersSent => q.answers = 0 /\ ~q.open
  /\ q.phase \in {"sent", "streaming"} =>
       q.backend \in Backends /\ q.attempts \in Attempts /\ q.sends = q.attempts
  /\ q.phase = "backoff" =>
       /\ q.idempotent /\ q.backend = None
       /\ q.attempts \in 2..(MaxRetries + 1) /\ q.sends = q.attempts - 1
  /\ q.open /\ q.backend # None =>
       q.attempts \in Attempts /\ q.listeners[q.attempts] = q.backend

ReqInv == req \in [Requests -> Request] /\ \A r \in Requests : ReqOK(req[r])

\* A handler writes one request.
LEMMA OneRequest ==
  ASSUME ReqInv, NEW r \in Requests, NEW q \in Request, ReqOK(q),
         req' = [req EXCEPT ![r] = q]
  PROVE  ReqInv'
BY DEF ReqInv, ReqOK

\* The request after the router has run: unrouted, or sent to one of the
\* backends, its listener hung on a response that is open.
Unrouted(q) == [q EXCEPT !.phase = "unrouted"]

SentTo(q, b) == [q EXCEPT !.phase = "sent", !.backend = b,
                          !.listeners[q.attempts] = IF q.open THEN b ELSE None,
                          !.sends = @ + 1]

\* A request as the router gets it, from its client or after a backoff.
Routable(q) ==
  /\ q \in Request /\ q.attempts \in Attempts /\ q.backend = None
  /\ q.answers = 0 /\ ~q.headersSent /\ q.sends = q.attempts - 1

LEMMA UnroutedOK ==
  ASSUME NEW q, Routable(q)
  PROVE  Unrouted(q) \in Request /\ ReqOK(Unrouted(q))
BY DEF Routable, Unrouted, Request, Phase, ReqOK

LEMMA SentOK ==
  ASSUME NEW q, Routable(q), NEW b \in Backends
  PROVE  SentTo(q, b) \in Request /\ ReqOK(SentTo(q, b))
<1> DEFINE l == [q.listeners EXCEPT ![q.attempts] = IF q.open THEN b ELSE None]
           s == [q EXCEPT !.phase = "sent", !.backend = b, !.listeners = l,
                          !.sends = q.sends + 1]
<1>2. l \in [Attempts -> Backends \cup {None}] /\ (q.open => l[q.attempts] = b)
  BY DEF Routable, Request
<1>3. s \in Request
  <2>1. q \in Request /\ q.sends + 1 \in Nat /\ b \in Backends \cup {None} /\ "sent" \in Phase
    BY DEF Routable, Request, Phase
  <2> HIDE DEF l
  <2> QED BY <1>2, <2>1 DEF Request
<1>4. /\ s.phase = "sent" /\ s.backend = b /\ s.open = q.open
      /\ s.attempts = q.attempts /\ s.listeners = l /\ s.sends = q.attempts
      /\ s.answers = 0 /\ s.headersSent = q.headersSent
  BY DEF Routable, Request, Attempts
<1>5. ReqOK(s)
  <2> HIDE DEF s, l
  <2> QED BY <1>2, <1>4 DEF Routable, ReqOK
<1>6. s = SentTo(q, b)
  BY DEF Routable, SentTo, Request
<1> QED BY <1>3, <1>5, <1>6

\* The requests that proxyMiddlewareWithRetry and the retry hand to it.
Arriving(r, idempotent) ==
  [req[r] EXCEPT !.idempotent = idempotent, !.attempts = 1, !.open = TRUE]

LEMMA ArrivingRoutable ==
  ASSUME ReqInv, NEW r \in Requests, NEW idempotent \in BOOLEAN, req[r].phase = "new"
  PROVE  Routable(Arriving(r, idempotent))
<1>1. req[r] \in Request /\ ReqOK(req[r]) /\ 1 \in Attempts /\ 1 \in 0..(MaxRetries + 1)
  BY DEF ReqInv, Attempts
<1>2. Arriving(r, idempotent) \in Request
  BY <1>1 DEF Request, Arriving
<1> QED BY <1>1, <1>2 DEF ReqOK, Request, Arriving, Routable

LEMMA RetryRoutable ==
  ASSUME ReqInv, NEW r \in Requests, req[r].phase = "backoff"
  PROVE  Routable(req[r])
BY DEF ReqInv, ReqOK, Request, Attempts, Routable

\* Two updates within the types of the fields.
LEMMA BackoffType ==
  ASSUME NEW e \in Request, NEW a \in 0..(MaxRetries + 1)
  PROVE  [e EXCEPT !.phase = "backoff", !.attempts = a, !.backend = None] \in Request
BY DEF Request, Phase

LEMMA AnswerType ==
  ASSUME NEW e \in Request, NEW p \in Phase, NEW h \in BOOLEAN, NEW a \in Nat
  PROVE  [e EXCEPT !.phase = p, !.headersSent = h, !.answers = a] \in Request
BY DEF Request

\* The proxyRes hook, the error hook and the end of a response.
Answering(q) ==
  [q EXCEPT !.phase = "streaming", !.headersSent = q.open,
            !.answers = IF q.open THEN @ + 1 ELSE @]

LEMMA AnsweringOK ==
  ASSUME NEW q \in Request, ReqOK(q), q.phase = "sent"
  PROVE  Answering(q) \in Request /\ ReqOK(Answering(q))
<1>1. q.answers = 0 /\ ~q.headersSent
  BY DEF ReqOK
<1>2. Answering(q) = [q EXCEPT !.phase = "streaming", !.headersSent = q.open,
                               !.answers = IF q.open THEN 1 ELSE 0]
  BY <1>1 DEF Answering, Request
<1>3. Answering(q) \in Request
  <2> DEFINE a == IF q.open THEN 1 ELSE 0
  <2>1. a \in Nat /\ "streaming" \in Phase /\ q.open \in BOOLEAN
    BY DEF Request, Phase
  <2> HIDE DEF a
  <2> QED BY <1>2, <2>1 DEF Request, a
<1>4. ReqOK(Answering(q))
  BY <1>2 DEF Request, ReqOK
<1> QED BY <1>3, <1>4

LEMMA FailedAttemptOK ==
  ASSUME NEW q \in Request, ReqOK(q), q.phase \in {"sent", "streaming"}
  PROVE  FailedAttempt(q) \in Request /\ ReqOK(FailedAttempt(q))
<1> DEFINE e == [q EXCEPT !.failedBackends = @ \cup {q.backend}]
<1>1. q.backend \in Backends /\ q.attempts \in Attempts /\ q.sends = q.attempts
  BY DEF ReqOK
<1>2. /\ e \in Request /\ ReqOK(e)
      /\ e.phase = q.phase /\ e.backend = q.backend /\ e.open = q.open
      /\ e.attempts = q.attempts /\ e.sends = q.sends /\ e.answers = q.answers
      /\ e.headersSent = q.headersSent /\ e.idempotent = q.idempotent
  BY <1>1 DEF Request, ReqOK
<1>3. CASE Retryable(q)
  <2> DEFINE a == q.attempts + 1
             m == [e EXCEPT !.phase = "backoff", !.attempts = a, !.backend = None]
  <2>1. a \in 0..(MaxRetries + 1) /\ a \in 2..(MaxRetries + 1) /\ q.answers = 0
    BY <1>1, <1>3 DEF Retryable, Attempts, ReqOK
  <2>2. FailedAttempt(q) = m
    BY <1>2, <1>3 DEF FailedAttempt, Request
  <2>3. m \in Request
    BY <1>2, <2>1, BackoffType
  <2>4. ReqOK(m)
    <3>1. /\ m.phase = "backoff" /\ m.attempts = a /\ m.backend = None
          /\ m.answers = 0 /\ m.sends = a - 1 /\ m.headersSent = q.headersSent
          /\ m.idempotent = q.idempotent
      BY <1>1, <1>2, <2>1 DEF Request, Attempts
    <3> HIDE DEF m, e, a
    <3> QED BY <1>3, <2>1, <3>1 DEF ReqOK, Retryable
  <2> QED BY <2>2, <2>3, <2>4
<1>4. CASE ~Retryable(q) /\ q.headersSent
  <2> DEFINE m == [e EXCEPT !.phase = "stalled"]
  <2>1. m \in Request /\ ReqOK(m)
    <3> HIDE DEF e
    <3>1. m \in Request
      BY <1>2 DEF Request, Phase
    <3>2. ReqOK(m)
      BY <1>1, <1>2, <1>4 DEF Request, ReqOK
    <3> QED BY <3>1, <3>2
  <2> QED BY <1>4, <2>1 DEF FailedAttempt
<1>5. CASE ~Retryable(q) /\ ~q.headersSent
  <2> DEFINE a == IF q.open THEN 1 ELSE 0
             m == [e EXCEPT !.phase = "failed", !.headersSent = q.open, !.answers = a]
  <2>1. q.answers = 0 /\ a \in 0..1 /\ a \in Nat /\ q.open \in BOOLEAN /\ "failed" \in Phase
    BY <1>5 DEF ReqOK, Request, Phase
  <2>2. FailedAttempt(q) =
          [e EXCEPT !.phase = "failed", !.headersSent = q.open,
                    !.answers = IF q.open THEN @ + 1 ELSE @]
    BY <1>5 DEF FailedAttempt
  <2>3. (IF q.open THEN e.answers + 1 ELSE e.answers) = a
    BY <1>2, <2>1
  <2>4. FailedAttempt(q) = m
    <3> HIDE DEF a, e
    <3> QED BY <1>2, <2>2, <2>3 DEF Request
  <2>5. m \in Request
    <3> HIDE DEF a, e
    <3> QED BY <1>2, <2>1, AnswerType
  <2>6. ReqOK(m)
    <3>1. /\ m.phase = "failed" /\ m.answers = a /\ m.open = q.open
          /\ m.backend = q.backend /\ m.attempts = q.attempts
          /\ m.listeners = e.listeners
      BY <1>2 DEF Request
    <3> HIDE DEF m, e, a
    <3> QED BY <1>1, <1>2, <2>1, <3>1 DEF ReqOK
  <2> QED BY <2>4, <2>5, <2>6
<1> QED BY <1>3, <1>4, <1>5

LEMMA ClosedOK ==
  ASSUME NEW q \in Request, ReqOK(q), q.open
  PROVE  /\ Closed(q) \in Request /\ ReqOK(Closed(q))
         /\ [Closed(q) EXCEPT !.phase = "over"] \in Request
         /\ ReqOK([Closed(q) EXCEPT !.phase = "over"])
<1> DEFINE m == Closed(q)
<1>1. m \in Request /\ ReqOK(m) /\ m.answers \in 0..1 /\ ~m.open
  BY DEF Closed, Request, ReqOK
<1> HIDE DEF m
<1>2. [m EXCEPT !.phase = "over"] \in Request /\ ReqOK([m EXCEPT !.phase = "over"])
  BY <1>1 DEF Request, Phase, ReqOK
<1> QED BY <1>1, <1>2 DEF m

LEMMA OverOK ==
  ASSUME NEW q \in Request, ReqOK(q), ~q.open
  PROVE  [q EXCEPT !.phase = "over"] \in Request /\ ReqOK([q EXCEPT !.phase = "over"])
BY DEF Request, Phase, ReqOK

-----------------------------------------------------------------------------
(* What each action does to the requests, and to them alone.               *)

\* The router leaves a routable request unrouted or sent.
LEMMA RouteWrites ==
  ASSUME NEW r \in Requests, NEW q, Route(r, q)
  PROVE  \/ req' = [req EXCEPT ![r] = Unrouted(q)]
         \/ \E b \in Backends : req' = [req EXCEPT ![r] = SentTo(q, b)]
<1>1. Candidates(q) \subseteq Backends
  BY DEF Candidates, HealthyBackends
<1> QED BY <1>1 DEF Route, Unrouted, SentTo

LEMMA ResponseWrites ==
  ASSUME ReqInv, NEW r \in Requests, UpstreamResponse(r)
  PROVE  req[r].phase = "sent" /\ req' = [req EXCEPT ![r] = Answering(req[r])]
BY DEF UpstreamResponse, Answering, ReqInv, Request

LEMMA CloseWrites ==
  ASSUME ReqInv, NEW r \in Requests, Finish(r) \/ ClientClose(r)
  PROVE  /\ req[r].open
         /\ \/ req' = [req EXCEPT ![r] = Closed(req[r])]
            \/ req' = [req EXCEPT ![r] = [Closed(req[r]) EXCEPT !.phase = "over"]]
BY DEF Finish, ClientClose, Closed, ReqInv, Request

LEMMA AbandonWrites ==
  ASSUME ReqInv, NEW r \in Requests, Abandon(r)
  PROVE  ~req[r].open /\ req' = [req EXCEPT ![r] = [req[r] EXCEPT !.phase = "over"]]
BY DEF Abandon, ReqInv, Request

\* Every step keeps the requests as they should be.
LEMMA StepReqInv == ReqInv /\ [Next]_vars => ReqInv'
<1> SUFFICES ASSUME ReqInv, [Next]_vars PROVE ReqInv'
  OBVIOUS
<1>a. \A r \in Requests : req[r] \in Request /\ ReqOK(req[r])
  BY DEF ReqInv
<1>b. ASSUME NEW r \in Requests, NEW q, Routable(q), Route(r, q) PROVE ReqInv'
  <2>1. CASE req' = [req EXCEPT ![r] = Unrouted(q)]
    BY <1>b, <2>1, UnroutedOK, OneRequest
  <2>2. ASSUME NEW b \in Backends, req' = [req EXCEPT ![r] = SentTo(q, b)] PROVE ReqInv'
    BY <1>b, <2>2, SentOK, OneRequest
  <2> QED BY <1>b, <2>1, <2>2, RouteWrites
<1>1. ASSUME NEW r \in Requests, Arrive(r) PROVE ReqInv'
  <2>1. PICK idempotent \in BOOLEAN : Route(r, Arriving(r, idempotent))
    BY <1>1 DEF Arrive, Arriving
  <2> QED BY <1>1, <2>1, <1>b, ArrivingRoutable DEF Arrive
<1>2. ASSUME NEW r \in Requests, Retry(r) PROVE ReqInv'
  BY <1>2, <1>b, RetryRoutable DEF Retry
<1>3. ASSUME NEW r \in Requests, UpstreamResponse(r) PROVE ReqInv'
  BY <1>3, <1>a, ResponseWrites, AnsweringOK, OneRequest
<1>4. ASSUME NEW r \in Requests, UpstreamError(r) PROVE ReqInv'
  BY <1>4, <1>a, FailedAttemptOK, OneRequest DEF UpstreamError
<1>5. ASSUME NEW r \in Requests, Finish(r) \/ ClientClose(r) PROVE ReqInv'
  BY <1>5, <1>a, CloseWrites, ClosedOK, OneRequest
<1>6. ASSUME NEW r \in Requests, Abandon(r) PROVE ReqInv'
  BY <1>6, <1>a, AbandonWrites, OverOK, OneRequest
<1>7. CASE UNCHANGED req
  BY <1>7 DEF ReqInv
<1> QED
  BY <1>1, <1>2, <1>3, <1>4, <1>5, <1>6, <1>7
  DEF Next, Traffic, Counted, Uncounted, vars

LEMMA InitReqInv == Init => ReqInv
<1> SUFFICES ASSUME Init PROVE ReqInv
  OBVIOUS
<1>1. NewRequest \in Request
  BY DEF NewRequest, Request, Phase
<1>2. ReqOK(NewRequest)
  BY DEF NewRequest, ReqOK
<1> QED BY <1>1, <1>2 DEF Init, ReqInv

-----------------------------------------------------------------------------
(* The refinement of ProxyContract: Arrive is Receive, a retry is Resend,  *)
(* a response or the last 502 is Answer while the client is there, the end *)
(* of a response is End, and everything else is a stutter.                 *)

\* The contract's view of a request.
Seen(q) ==
  [begun |-> q.phase # "new", idempotent |-> q.idempotent, open |-> q.open,
   sends |-> q.sends, answers |-> q.answers]

View == [r \in Requests |-> Seen(req[r])]

CallType ==
  [begun : BOOLEAN, idempotent : BOOLEAN, open : BOOLEAN, sends : Nat, answers : Nat]

\* A handler that writes one request changes the view of that one.
LEMMA OneSeen ==
  ASSUME ReqInv, NEW r \in Requests, NEW q, req' = [req EXCEPT ![r] = q]
  PROVE  View' = [View EXCEPT ![r] = Seen(q)]
BY DEF View, ReqInv

\* The view of a request that has begun, field by field.
Begun(i, o, s, a) ==
  [begun |-> TRUE, idempotent |-> i, open |-> o, sends |-> s, answers |-> a]

LEMMA SeenBegun ==
  ASSUME NEW m, m.phase # "new"
  PROVE  Seen(m) = Begun(m.idempotent, m.open, m.sends, m.answers)
<1>1. (m.phase # "new") = TRUE
  OBVIOUS
<1> QED BY <1>1, Zenon DEF Seen, Begun

\* The contract's actions, from a change of one view.
LEMMA Receives ==
  ASSUME NEW r \in Requests, NEW i \in BOOLEAN, NEW s \in {0, 1},
         ~View[r].begun, View' = [View EXCEPT ![r] = Begun(i, TRUE, s, 0)]
  PROVE  Contract!Receive(r)
<1>1. s \in 0..1
  OBVIOUS
<1> QED BY <1>1, Zenon DEF Contract!Receive, View, Seen, Begun

LEMMA ResendsFrom ==
  ASSUME NEW r \in Requests, View[r].idempotent, View[r].answers = 0,
         View[r].sends \in 1..(MaxRetries + 1 - 1),
         View' = [View EXCEPT ![r] = [View[r] EXCEPT !.sends = View[r].sends + 1]]
  PROVE  Contract!Resend(r)
<1> DEFINE A == View[r].idempotent
           B == View[r].answers = 0
           C == View[r].sends \in 1..(MaxRetries + 1 - 1)
           D == View' = [View EXCEPT ![r].sends = @ + 1]
<1>1. A /\ B /\ C /\ D
  OBVIOUS
<1>2. Contract!Resend(r) <=> (A /\ B /\ C /\ D)
  BY SMT DEF Contract!Resend, View, Seen
<1> QED BY <1>1, <1>2

LEMMA Resends ==
  ASSUME NEW r \in Requests, NEW o \in BOOLEAN, NEW s \in 1..(MaxRetries + 1 - 1),
         View[r] = Begun(TRUE, o, s, 0),
         View' = [View EXCEPT ![r] = Begun(TRUE, o, s + 1, 0)]
  PROVE  Contract!Resend(r)
<1> DEFINE e == View[r]
           f == Begun(TRUE, o, s + 1, 0)
<1>1. /\ e \in CallType /\ e.begun = TRUE /\ e.idempotent = TRUE
      /\ e.open = o /\ e.sends = s /\ e.answers = 0
  BY DEF Begun, CallType
<1>2. /\ f \in CallType /\ f.begun = TRUE /\ f.idempotent = TRUE
      /\ f.open = o /\ f.sends = s + 1 /\ f.answers = 0
  BY DEF Begun, CallType
<1>3. [e EXCEPT !.sends = e.sends + 1] = f
  <2> HIDE DEF e, f
  <2> QED BY <1>1, <1>2 DEF CallType
<1>4. /\ View[r].idempotent /\ View[r].answers = 0
      /\ View[r].sends \in 1..(MaxRetries + 1 - 1)
  BY <1>1
<1>5. View' = [View EXCEPT ![r] = [View[r] EXCEPT !.sends = View[r].sends + 1]]
  BY <1>3
<1> QED BY <1>4, <1>5, ResendsFrom

LEMMA Answers ==
  ASSUME NEW r \in Requests, NEW i \in BOOLEAN, NEW s \in Nat,
         View[r] = Begun(i, TRUE, s, 0),
         View' = [View EXCEPT ![r] = Begun(i, TRUE, s, 1)]
  PROVE  Contract!Answer(r)
<1> DEFINE e == View[r]
           f == Begun(i, TRUE, s, 1)
<1>1. /\ e \in CallType /\ e.begun = TRUE /\ e.idempotent = i
      /\ e.open = TRUE /\ e.sends = s /\ e.answers = 0
  BY DEF Begun, CallType
<1>2. /\ f \in CallType /\ f.begun = TRUE /\ f.idempotent = i
      /\ f.open = TRUE /\ f.sends = s /\ f.answers = 1
  BY DEF Begun, CallType
<1>3. [e EXCEPT !.answers = 1] = f
  <2> HIDE DEF e, f
  <2> QED BY <1>1, <1>2 DEF CallType
<1>4. View[r].open /\ View[r].answers = 0
  BY <1>1
<1>5. View' = [View EXCEPT ![r] = [View[r] EXCEPT !.answers = 1]]
  BY <1>3
<1> QED BY <1>4, <1>5, Zenon DEF Contract!Answer, View, Seen

LEMMA Ends ==
  ASSUME NEW r \in Requests, NEW i \in BOOLEAN, NEW s \in Nat, NEW a \in Nat,
         View[r] = Begun(i, TRUE, s, a),
         View' = [View EXCEPT ![r] = Begun(i, FALSE, s, a)]
  PROVE  Contract!End(r)
<1> DEFINE e == View[r]
           f == Begun(i, FALSE, s, a)
<1>1. /\ e \in CallType /\ e.begun = TRUE /\ e.idempotent = i
      /\ e.open = TRUE /\ e.sends = s /\ e.answers = a
  BY DEF Begun, CallType
<1>2. /\ f \in CallType /\ f.begun = TRUE /\ f.idempotent = i
      /\ f.open = FALSE /\ f.sends = s /\ f.answers = a
  BY DEF Begun, CallType
<1>3. [e EXCEPT !.open = FALSE] = f
  <2> HIDE DEF e, f
  <2> QED BY <1>1, <1>2 DEF CallType
<1>4. View[r].open
  BY <1>1
<1>5. View' = [View EXCEPT ![r] = [View[r] EXCEPT !.open = FALSE]]
  BY <1>3
<1> QED BY <1>4, <1>5, Zenon DEF Contract!End, View, Seen

LEMMA Stutters ==
  ASSUME NEW r \in Requests, View' = [View EXCEPT ![r] = View[r]]
  PROVE  View' = View
BY DEF View

\* Only the last failed attempt changes the view, by the 502.
LEMMA FailedSeen ==
  ASSUME NEW q \in Request, ReqOK(q), q.phase \in {"sent", "streaming"}
  PROVE  LET m == FailedAttempt(q) IN
         /\ m.phase # "new" /\ m.idempotent = q.idempotent /\ m.open = q.open
         /\ m.sends = q.sends
         /\ (q.open /\ q.answers = 0 /\ m.answers = 1) \/ m.answers = q.answers
<1>1. ~q.headersSent => q.answers = 0
  BY DEF ReqOK
<1> QED BY <1>1 DEF FailedAttempt, Request

\* An answer that is written is the contract's Answer, and otherwise nothing
\* is seen.
LEMMA AnswerSeen ==
  ASSUME NEW r \in Requests, NEW q \in Request, NEW m, View[r] = Seen(q),
         q.phase # "new", m.phase # "new", m.idempotent = q.idempotent,
         m.open = q.open, m.sends = q.sends,
         (q.open /\ q.answers = 0 /\ m.answers = 1) \/ m.answers = q.answers,
         View' = [View EXCEPT ![r] = Seen(m)]
  PROVE  Contract!Answer(r) \/ View' = View
<1>1. /\ View[r] = Begun(q.idempotent, q.open, q.sends, q.answers)
      /\ View' = [View EXCEPT ![r] = Begun(q.idempotent, q.open, q.sends, m.answers)]
  BY SeenBegun, Zenon
<1>2. CASE m.answers = q.answers
  <2>1. View' = [View EXCEPT ![r] = View[r]]
    BY <1>1, <1>2
  <2> QED BY <2>1, Stutters
<1>3. CASE q.open /\ q.answers = 0 /\ m.answers = 1
  <2>1. q.idempotent \in BOOLEAN /\ q.sends \in Nat /\ q.open = TRUE
    BY <1>3 DEF Request
  <2>2. /\ View[r] = Begun(q.idempotent, TRUE, q.sends, 0)
        /\ View' = [View EXCEPT ![r] = Begun(q.idempotent, TRUE, q.sends, 1)]
    BY <1>1, <1>3, <2>1, Zenon
  <2> QED BY <2>1, <2>2, Answers, Zenon
<1> QED BY <1>2, <1>3

THEOREM StepContract == ReqInv /\ [Next]_vars => [Contract!Next]_View
<1> SUFFICES ASSUME ReqInv, [Next]_vars PROVE Contract!Next \/ View' = View
  OBVIOUS
<1>a. \A r \in Requests : req[r] \in Request /\ ReqOK(req[r]) /\ View[r] = Seen(req[r])
  BY DEF ReqInv, View
<1>b. \A r \in Requests :
        Contract!Receive(r) \/ Contract!Resend(r) \/ Contract!Answer(r) \/ Contract!End(r)
        => Contract!Next
  BY DEF Contract!Next
<1>1. ASSUME NEW r \in Requests, Arrive(r) PROVE Contract!Receive(r)
  <2>1. PICK idempotent \in BOOLEAN : Route(r, Arriving(r, idempotent))
    BY <1>1, Zenon DEF Arrive, Arriving
  <2> DEFINE q == Arriving(r, idempotent)
  <2>2. /\ q \in Request /\ q.idempotent = idempotent /\ q.open = TRUE
        /\ q.sends = 0 /\ q.answers = 0
    <3>1. req[r] \in Request /\ req[r].sends = 0 /\ req[r].answers = 0
      BY <1>1, <1>a DEF Arrive, ReqOK
    <3>2. q \in Request
      BY <1>1, ArrivingRoutable, Zenon DEF Arrive, Routable
    <3> QED BY <3>1, <3>2 DEF Arriving, Request
  <2>3. ~View[r].begun
    <3>1. (req[r].phase # "new") = FALSE /\ View[r] = Seen(req[r])
      BY <1>1, <1>a DEF Arrive
    <3>2. Seen(req[r]).begun = (req[r].phase # "new")
      BY Zenon DEF Seen
    <3> QED BY <3>1, <3>2
  <2>4. CASE req' = [req EXCEPT ![r] = Unrouted(q)]
    <3>1. /\ Unrouted(q).phase # "new" /\ Unrouted(q).idempotent = idempotent
          /\ Unrouted(q).open = TRUE /\ Unrouted(q).sends = 0 /\ Unrouted(q).answers = 0
      BY <2>2 DEF Unrouted, Request
    <3> HIDE DEF q
    <3>2. Seen(Unrouted(q)) = Begun(idempotent, TRUE, 0, 0)
      BY <3>1, SeenBegun, Zenon
    <3>3. View' = [View EXCEPT ![r] = Begun(idempotent, TRUE, 0, 0)]
      BY <2>4, <3>2, OneSeen
    <3> QED BY <2>3, <3>3, Receives, Zenon
  <2>5. ASSUME NEW b \in Backends, req' = [req EXCEPT ![r] = SentTo(q, b)]
        PROVE  Contract!Receive(r)
    <3>1. /\ SentTo(q, b).phase # "new" /\ SentTo(q, b).idempotent = idempotent
          /\ SentTo(q, b).open = TRUE /\ SentTo(q, b).sends = 1 /\ SentTo(q, b).answers = 0
      <4> HIDE DEF q
      <4> QED BY <2>2 DEF SentTo, Request
    <3> HIDE DEF q
    <3>2. Seen(SentTo(q, b)) = Begun(idempotent, TRUE, 1, 0)
      BY <3>1, SeenBegun, Zenon
    <3>3. View' = [View EXCEPT ![r] = Begun(idempotent, TRUE, 1, 0)]
      BY <2>5, <3>2, OneSeen
    <3> QED BY <2>3, <3>3, Receives, Zenon
  <2> QED BY <2>1, <2>4, <2>5, RouteWrites
<1>2. ASSUME NEW r \in Requests, Retry(r)
      PROVE  Contract!Resend(r) \/ View' = View
  <2> DEFINE q == req[r]
  <2>1. /\ q \in Request /\ q.idempotent = TRUE /\ q.answers = 0 /\ q.phase = "backoff"
        /\ q.sends \in 1..(MaxRetries + 1 - 1) /\ q.sends \in Nat /\ q.open \in BOOLEAN
    BY <1>2, <1>a DEF Retry, ReqOK, Request
  <2>2. View[r] = Begun(TRUE, q.open, q.sends, 0)
    BY <1>a, <2>1, SeenBegun, Zenon
  <2>3. \/ req' = [req EXCEPT ![r] = Unrouted(q)]
        \/ \E b \in Backends : req' = [req EXCEPT ![r] = SentTo(q, b)]
    BY <1>2, RouteWrites DEF Retry
  <2> HIDE DEF q
  <2>4. CASE req' = [req EXCEPT ![r] = Unrouted(q)]
    <3>1. /\ Unrouted(q).phase # "new" /\ Unrouted(q).idempotent = TRUE
          /\ Unrouted(q).open = q.open /\ Unrouted(q).sends = q.sends
          /\ Unrouted(q).answers = 0
      BY <2>1 DEF Unrouted, Request
    <3>2. Seen(Unrouted(q)) = View[r]
      BY <2>2, <3>1, SeenBegun, Zenon
    <3>3. View' = [View EXCEPT ![r] = View[r]]
      BY <2>4, <3>2, OneSeen
    <3> QED BY <3>3, Stutters
  <2>5. ASSUME NEW b \in Backends, req' = [req EXCEPT ![r] = SentTo(q, b)]
        PROVE  Contract!Resend(r)
    <3>1. /\ SentTo(q, b).phase # "new" /\ SentTo(q, b).idempotent = TRUE
          /\ SentTo(q, b).open = q.open /\ SentTo(q, b).sends = q.sends + 1
          /\ SentTo(q, b).answers = 0
      BY <2>1 DEF SentTo, Request
    <3>2. Seen(SentTo(q, b)) = Begun(TRUE, q.open, q.sends + 1, 0)
      BY <3>1, SeenBegun, Zenon
    <3>3. View' = [View EXCEPT ![r] = Begun(TRUE, q.open, q.sends + 1, 0)]
      BY <2>5, <3>2, OneSeen
    <3> QED BY <2>1, <2>2, <3>3, Resends, Zenon
  <2> QED BY <2>3, <2>4, <2>5
<1>3. ASSUME NEW r \in Requests, UpstreamResponse(r)
      PROVE  Contract!Answer(r) \/ View' = View
  <2> DEFINE q == req[r]
             m == Answering(q)
  <2>1. /\ q \in Request /\ q.phase # "new" /\ q.answers = 0 /\ View[r] = Seen(q)
    BY <1>3, <1>a, ResponseWrites DEF ReqOK
  <2>2. View' = [View EXCEPT ![r] = Seen(m)]
    BY <1>3, ResponseWrites, OneSeen
  <2>3. /\ m.phase # "new" /\ m.idempotent = q.idempotent /\ m.open = q.open
        /\ m.sends = q.sends
        /\ (q.open /\ q.answers = 0 /\ m.answers = 1) \/ m.answers = q.answers
    BY <2>1 DEF Answering, Request
  <2> HIDE DEF q, m
  <2> QED BY <2>1, <2>2, <2>3, AnswerSeen, Zenon
<1>4. ASSUME NEW r \in Requests, UpstreamError(r)
      PROVE  Contract!Answer(r) \/ View' = View
  <2> DEFINE q == req[r]
             m == FailedAttempt(q)
  <2>1. /\ q \in Request /\ ReqOK(q) /\ q.phase \in {"sent", "streaming"}
        /\ q.phase # "new" /\ View[r] = Seen(q)
    BY <1>4, <1>a DEF UpstreamError
  <2>2. View' = [View EXCEPT ![r] = Seen(m)]
    BY <1>4, OneSeen DEF UpstreamError
  <2>3. /\ m.phase # "new" /\ m.idempotent = q.idempotent /\ m.open = q.open
        /\ m.sends = q.sends
        /\ (q.open /\ q.answers = 0 /\ m.answers = 1) \/ m.answers = q.answers
    BY <2>1, FailedSeen
  <2> HIDE DEF q, m
  <2> QED BY <2>1, <2>2, <2>3, AnswerSeen, Zenon
<1>5. ASSUME NEW r \in Requests, Finish(r) \/ ClientClose(r) PROVE Contract!End(r)
  <2> DEFINE q == req[r]
  <2>1. /\ q \in Request /\ q.phase # "new" /\ View[r] = Seen(q)
        /\ q.idempotent \in BOOLEAN /\ q.open = TRUE /\ q.sends \in Nat
        /\ q.answers \in Nat
    BY <1>5, <1>a, CloseWrites DEF ReqOK, Request
  <2>2. PICK m : /\ m = Closed(q) \/ m = [Closed(q) EXCEPT !.phase = "over"]
                 /\ req' = [req EXCEPT ![r] = m]
    BY <1>5, CloseWrites
  <2>3. /\ m.phase # "new" /\ m.idempotent = q.idempotent /\ m.open = FALSE
        /\ m.sends = q.sends /\ m.answers = q.answers
    BY <2>1, <2>2 DEF Closed, Request
  <2>4. View' = [View EXCEPT ![r] = Seen(m)]
    BY <2>2, OneSeen
  <2> HIDE DEF q
  <2>5. View[r] = Begun(q.idempotent, TRUE, q.sends, q.answers)
    BY <2>1, SeenBegun, Zenon
  <2>6. Seen(m) = Begun(q.idempotent, FALSE, q.sends, q.answers)
    BY <2>3, SeenBegun, Zenon
  <2>7. View' = [View EXCEPT ![r] = Begun(q.idempotent, FALSE, q.sends, q.answers)]
    BY <2>4, <2>6
  <2> QED BY <2>1, <2>5, <2>7, Ends, Zenon
<1>6. ASSUME NEW r \in Requests, Abandon(r) PROVE View' = View
  <2> DEFINE q == req[r]
             m == [q EXCEPT !.phase = "over"]
  <2>1. q \in Request /\ q.phase # "new"
    BY <1>6, <1>a DEF Abandon
  <2>2. /\ m.phase # "new" /\ m.idempotent = q.idempotent /\ m.open = q.open
        /\ m.sends = q.sends /\ m.answers = q.answers
    BY <2>1 DEF Request
  <2>3. View' = [View EXCEPT ![r] = Seen(m)]
    BY <1>6, AbandonWrites, OneSeen
  <2>4. View[r] = Seen(q)
    BY <1>a
  <2> HIDE DEF q, m
  <2>5. Seen(m) = Seen(q)
    BY <2>1, <2>2, SeenBegun, Zenon
  <2> QED BY <2>3, <2>4, <2>5 DEF View
<1>7. CASE UNCHANGED req
  BY <1>7 DEF View
<1> QED
  BY <1>1, <1>2, <1>3, <1>4, <1>5, <1>6, <1>7, <1>b
  DEF Next, Traffic, Counted, Uncounted, vars

\* At the start the contract has received nothing.
LEMMA InitContract == Init => Contract!Init
<1> SUFFICES ASSUME Init PROVE Contract!Init
  OBVIOUS
<1> DEFINE c == [begun |-> FALSE, idempotent |-> TRUE, open |-> FALSE,
                 sends |-> 0, answers |-> 0]
<1>1. ASSUME NEW q, q = NewRequest PROVE Seen(q) = c
  <2>1. /\ (q.phase # "new") = FALSE /\ q.idempotent = TRUE /\ q.open = FALSE
        /\ q.sends = 0 /\ q.answers = 0
    BY <1>1 DEF NewRequest
  <2> QED BY <2>1, Zenon DEF Seen
<1>2. \A r \in Requests : Seen(req[r]) = c
  BY <1>1 DEF Init
<1> QED BY <1>2, Zenon DEF Contract!Init, Seen

\* The proxy keeps its contract with every client and upstream, for any
\* number of requests, backends and retries and whatever the pool does:
\* one send of a request that is not idempotent, MaxRetries + 1 of one that
\* is, at most one answer, and nothing sent after it.
THEOREM ImplementsContract == Spec => ContractSpec
<1>1. Init => Contract!Init
  BY InitContract
<1>2. ReqInv /\ [Next]_vars => [Contract!Next]_View
  BY StepContract
<1>3. Spec => []ReqInv
  BY InitReqInv, StepReqInv, PTL DEF Spec
<1>4. Spec => Contract!Init /\ [][Contract!Next]_View
  BY <1>1, <1>2, <1>3, PTL DEF Spec
<1>5. Contract!Init /\ [][Contract!Next]_View => ContractSpec
  BY PTL DEF ContractSpec, Contract!Spec, View, Seen
<1> QED BY <1>4, <1>5
-----------------------------------------------------------------------------
(* The pool under the proxy.                                               *)

\* From n to m the record stays good, no connection comes or goes and a drain
\* completes only without one.
Steady(n, m) ==
  Good(m) /\ m.activeConnections = n.activeConnections /\ Clean(n, m)

\* Everything but Connect and Disconnect leaves the connection count alone.
LEMMA BreakerSteady ==
  ASSUME NEW n, Good(n)
  PROVE  /\ Steady(n, n) /\ Steady(n, TakeProbe(n)) /\ Steady(n, Reset(n))
         /\ Steady(n, RecordSuccess(n)) /\ Steady(n, RecordFailure(n))
         /\ Steady(n, [n EXCEPT !.cooled = TRUE])
<1>1. n \in Node
  BY DEF Good
<1>2. TakeProbe(n).activeConnections = n.activeConnections
  BY <1>1 DEF Node, TakeProbe, TransitionTo
<1>3. Reset(n).activeConnections = n.activeConnections
  BY <1>1 DEF Node, Reset, TransitionTo
<1>4. RecordSuccess(n).activeConnections = n.activeConnections
  BY <1>1 DEF Node, RecordSuccess, TransitionTo
<1>5. RecordFailure(n).activeConnections = n.activeConnections
  BY <1>1 DEF Node, RecordFailure, TransitionTo
<1>6. Steady(n, [n EXCEPT !.cooled = TRUE])
  BY DEF Steady, Clean, Good, Node, BreakerOK, StatusOK, DrainOK
<1>7. /\ Clean(n, n) /\ Clean(n, TakeProbe(n)) /\ Clean(n, Reset(n))
      /\ Clean(n, RecordSuccess(n)) /\ Clean(n, RecordFailure(n))
  BY <1>1, BreakerQuiet, OthersQuiet DEF Quiet
<1> QED
  BY <1>2, <1>3, <1>4, <1>5, <1>6, <1>7, TakeProbeGood, ResetGood, RecordSuccessGood,
     RecordFailureGood DEF Steady

LEMMA CheckSteady ==
  ASSUME NEW n, Good(n)
  PROVE  Steady(n, CheckPassed(n)) /\ Steady(n, CheckFailed(n))
<1>1. ASSUME NEW success \in BOOLEAN
      PROVE  /\ Good(RecordResult(n, success))
             /\ RecordResult(n, success).activeConnections = n.activeConnections
  <2> DEFINE m == [n EXCEPT
        !.failedChecks = IF success THEN 0 ELSE Bump(@, RemoveAfter),
        !.passedChecks = IF success THEN Bump(@, RejoinAfter) ELSE 0,
        !.checks = Slide(@, success)]
  <2>1. m.activeConnections = n.activeConnections /\ DOMAIN m = DOMAIN n
    BY DEF Good, Node
  <2>2. RecordResult(n, success) = UpdateBackendHealthState(m)
    BY DEF RecordResult
  <2> HIDE DEF m
  <2>3. UpdateBackendHealthState(m).activeConnections = m.activeConnections
    BY <2>1 DEF Good, Node, UpdateBackendHealthState
  <2> QED BY <2>1, <2>2, <2>3, RecordResultGood
<1>2. ASSUME NEW m, Good(m), m.activeConnections = n.activeConnections
      PROVE  /\ Good(RecordSuccess(m)) /\ Good(RecordFailure(m))
             /\ RecordSuccess(m).activeConnections = n.activeConnections
             /\ RecordFailure(m).activeConnections = n.activeConnections
  BY <1>2, BreakerSteady DEF Steady
<1>3. /\ Good(CheckPassed(n)) /\ CheckPassed(n).activeConnections = n.activeConnections
      /\ Good(CheckFailed(n)) /\ CheckFailed(n).activeConnections = n.activeConnections
  BY <1>1, <1>2 DEF CheckPassed, CheckFailed
<1> QED BY <1>3, CheckQuiet DEF Steady, Quiet

LEMMA AdminSteady ==
  ASSUME NEW n, Good(n)
  PROVE  /\ \A healthy \in BOOLEAN : Steady(n, Override(n, healthy))
         /\ Steady(n, DrainBackend(n)) /\ Steady(n, UndrainBackend(n))
         /\ Good(DrainDeadline(n))
         /\ DrainDeadline(n).activeConnections = n.activeConnections
<1>1. n \in Node
  BY DEF Good
<1>2. \A healthy \in BOOLEAN : Steady(n, Override(n, healthy))
  <2>1. ASSUME NEW healthy \in BOOLEAN
        PROVE  Override(n, healthy).activeConnections = n.activeConnections
    BY <1>1 DEF Node, Override
  <2> QED BY <2>1, OverrideGood, OthersQuiet DEF Steady, Quiet
<1>3. DrainBackend(n).activeConnections = n.activeConnections
  BY <1>1 DEF Node, DrainBackend, CompleteDrain
<1>4. /\ UndrainBackend(n).activeConnections = n.activeConnections
      /\ Clean(n, UndrainBackend(n))
  BY <1>1 DEF Node, UndrainBackend, Clean
<1>5. DrainDeadline(n).activeConnections = n.activeConnections
  BY <1>1 DEF Node, DrainDeadline, CompleteDrain
<1> QED
  BY <1>2, <1>3, <1>4, <1>5, DrainBackendGood, UndrainBackendGood, DrainDeadlineGood,
     OthersQuiet DEF Steady, Quiet

\* The same of the whole pool, but for the deadline of a drain, which
\* completes it with the connections that are left.
SteadyPool ==
  /\ GoodPool(node')
  /\ \A b \in Backends :
       /\ node'[b].activeConnections = node[b].activeConnections
       /\ Clean(node[b], node'[b]) \/ Pool!DrainTimer(b)

LEMMA EachSteady ==
  ASSUME NEW f, node' = f, f = [b \in Backends |-> f[b]],
         \A b \in Backends : Steady(node[b], f[b])
  PROVE  SteadyPool
<1>1. \A b \in Backends : Good(f[b])
  BY DEF Steady
<1> QED BY <1>1, EachGood DEF SteadyPool, Steady

LEMMA OneSteady ==
  ASSUME GoodPool(node), NEW b \in Backends, NEW m, Steady(node[b], m),
         node' = [node EXCEPT ![b] = m]
  PROVE  SteadyPool
<1>1. GoodPool(node')
  BY OneGood DEF Steady
<1>2. \A c \in Backends : Steady(node[c], node[c])
  BY BreakerSteady DEF GoodPool
<1> QED BY <1>1, <1>2 DEF SteadyPool, GoodPool, Steady

LEMMA FilterSteady ==
  ASSUME GoodPool(node)
  PROVE  GoodPool(AfterFilter(node)) /\ \A b \in Backends : Steady(node[b], AfterFilter(node)[b])
<1>1. ASSUME NEW b \in Backends PROVE Steady(node[b], AfterFilter(node)[b])
  <2>1. Good(node[b])
    BY Zenon DEF GoodPool
  <2>2. AfterFilter(node)[b] = IF node[b].healthy THEN TakeProbe(node[b]) ELSE node[b]
    BY DEF AfterFilter
  <2> QED BY <2>1, <2>2, BreakerSteady
<1> QED BY <1>1, FilterGood

\* The monitor, the administrator and the timers.
LEMMA OthersSteady ==
  ASSUME GoodPool(node), Counted \/ Uncounted
  PROVE  SteadyPool
<1>a. \A b \in Backends : Good(node[b])
  BY Zenon DEF GoodPool
<1>b. ASSUME UNCHANGED node PROVE SteadyPool
  BY <1>a, <1>b, BreakerSteady DEF SteadyPool, GoodPool, Steady
<1>1. ASSUME NEW b \in Backends, Pool!HealthCheckPassed(b) PROVE SteadyPool
  <2>1. node' = [node EXCEPT ![b] = CheckPassed(node[b])]
    BY <1>1 DEF Pool!HealthCheckPassed, Pool!CheckPassed, CheckPassed,
       Pool!RecordSuccess, RecordSuccess, Pool!RecordResult, RecordResult,
       Pool!TransitionTo, TransitionTo, Pool!StatusFor, StatusFor, Pool!Bump, Bump,
       Pool!Slide, Slide, Pool!UpdateBackendHealthState, UpdateBackendHealthState,
       Pool!LowSuccessRate, LowSuccessRate, Pool!RemoveAfter, RemoveAfter,
       Pool!RejoinAfter, RejoinAfter
  <2> QED BY <1>a, <2>1, CheckSteady, OneSteady
<1>2. ASSUME NEW b \in Backends, Pool!HealthCheckFailed(b) PROVE SteadyPool
  <2>a. Pool!CheckFailed(node[b]) = CheckFailed(node[b])
    BY DEF Pool!CheckFailed, CheckFailed,
       Pool!RecordFailure, RecordFailure, Pool!RecordResult, RecordResult,
       Pool!TransitionTo, TransitionTo, Pool!StatusFor, StatusFor, Pool!Bump, Bump,
       Pool!Slide, Slide, Pool!UpdateBackendHealthState, UpdateBackendHealthState,
       Pool!LowSuccessRate, LowSuccessRate, Pool!RemoveAfter, RemoveAfter,
       Pool!RejoinAfter, RejoinAfter
  <2>1. node' = [node EXCEPT ![b] = CheckFailed(node[b])]
    BY <1>2, <2>a DEF Pool!HealthCheckFailed
  <2>2. Steady(node[b], CheckFailed(node[b]))
    BY <1>a, CheckSteady
  <2> QED BY <2>1, <2>2, OneSteady
<1>3. ASSUME NEW b \in Backends, NEW healthy \in BOOLEAN, Pool!AdminOverride(b, healthy)
      PROVE SteadyPool
  <2>1. node' = [node EXCEPT ![b] = Override(node[b], healthy)]
    BY <1>3 DEF Pool!AdminOverride, Pool!Override, Override, Pool!RemoveAfter,
       RemoveAfter, Pool!RejoinAfter, RejoinAfter
  <2> QED BY <1>a, <2>1, AdminSteady, OneSteady
<1>4. ASSUME NEW b \in Backends, Pool!AdminDrain(b) PROVE SteadyPool
  <2>1. node' = [node EXCEPT ![b] = DrainBackend(node[b])]
    BY <1>4 DEF Pool!AdminDrain, Pool!DrainBackend, DrainBackend, Pool!CompleteDrain,
       CompleteDrain
  <2> QED BY <1>a, <2>1, AdminSteady, OneSteady
<1>5. ASSUME NEW b \in Backends, Pool!AdminUndrain(b) PROVE SteadyPool
  <2>1. node' = [node EXCEPT ![b] = UndrainBackend(node[b])]
    BY <1>5 DEF Pool!AdminUndrain, Pool!UndrainBackend, UndrainBackend
  <2> QED BY <1>a, <2>1, AdminSteady, OneSteady
<1>6. ASSUME NEW bs, Pool!AdminReset(bs) PROVE SteadyPool
  <2> DEFINE f == [b \in Backends |-> IF b \in bs THEN Reset(node[b]) ELSE node[b]]
  <2>a. ASSUME NEW n PROVE Pool!Reset(n) = Reset(n)
    BY DEF Pool!Reset, Reset, Pool!TransitionTo, TransitionTo, Pool!StatusFor, StatusFor
  <2>1. node' = f
    BY <1>6, <2>a, Zenon DEF Pool!AdminReset
  <2>2. ASSUME NEW b \in Backends PROVE Steady(node[b], f[b])
    <3>1. f[b] = IF b \in bs THEN Reset(node[b]) ELSE node[b]
      OBVIOUS
    <3>2. Good(node[b])
      BY <1>a
    <3> HIDE DEF f
    <3> QED BY <3>1, <3>2, BreakerSteady
  <2>3. f = [b \in Backends |-> f[b]]
    OBVIOUS
  <2> HIDE DEF f
  <2> QED BY <2>1, <2>2, <2>3, EachSteady
<1>7. ASSUME Pool!PollStatus PROVE SteadyPool
  <2>a. ASSUME NEW n PROVE Pool!TakeProbe(n) = TakeProbe(n)
    BY DEF Pool!TakeProbe, TakeProbe, Pool!CanExecute, CanExecute,
       Pool!TransitionTo, TransitionTo, Pool!StatusFor, StatusFor
  <2>1. node' = AfterFilter(node)
    BY <1>7, <2>a, Zenon DEF Pool!PollStatus, Pool!AfterFilter, AfterFilter
  <2> QED BY <2>1, FilterSteady DEF SteadyPool, Steady
<1>8. ASSUME NEW b \in Backends, Pool!Cooldown(b) PROVE SteadyPool
  <2>1. node' = [node EXCEPT ![b] = [node[b] EXCEPT !.cooled = TRUE]]
    BY <1>8 DEF Pool!Cooldown
  <2> QED BY <1>a, <2>1, BreakerSteady, OneSteady
<1>9. ASSUME NEW b \in Backends, Pool!DrainTimer(b) PROVE SteadyPool
  <2>1. node' = [node EXCEPT ![b] = DrainDeadline(node[b])]
    BY <1>9 DEF Pool!DrainTimer, Pool!DrainDeadline, DrainDeadline, Pool!CompleteDrain,
       CompleteDrain
  <2>2. Good(DrainDeadline(node[b]))
        /\ DrainDeadline(node[b]).activeConnections = node[b].activeConnections
    BY <1>a, AdminSteady
  <2>3. GoodPool(node')
    BY <2>1, <2>2, OneGood
  <2>4. \A c \in Backends : Steady(node[c], node[c])
    BY <1>a, BreakerSteady
  <2> QED BY <1>9, <2>1, <2>2, <2>3, <2>4 DEF SteadyPool, GoodPool, Steady
<1>10. CASE Pool!StartChecks
  BY <1>b, <1>10 DEF Pool!StartChecks
<1> QED
  BY <1>1, <1>2, <1>3, <1>4, <1>5, <1>6, <1>7, <1>8, <1>9, <1>10
  DEF Counted, Uncounted
-----------------------------------------------------------------------------
(* The listeners and the connection counts.                                *)

IsCovered(b) ==
  /\ IsFiniteSet(Listeners(b))
  /\ node[b].activeConnections >= Cardinality(Listeners(b))

Covered == \A b \in Backends : IsCovered(b)

IInv ==
  /\ ReqInv /\ GoodPool(node) /\ Covered
  /\ checking \in [Backends -> BOOLEAN] /\ others \in 0..MaxOthers

\* Listeners go and the count stays.
LEMMA FewerListeners ==
  ASSUME NEW b \in Backends, GoodPool(node), IsCovered(b), Listeners(b)' \subseteq Listeners(b),
         node'[b].activeConnections = node[b].activeConnections
  PROVE  IsCovered(b)'
<1>1. /\ IsFiniteSet(Listeners(b)') /\ Cardinality(Listeners(b)') <= Cardinality(Listeners(b))
  BY FS_Subset DEF IsCovered
<1>2. Cardinality(Listeners(b)') \in Nat /\ Cardinality(Listeners(b)) \in Nat
  BY <1>1, FS_CardinalityType DEF IsCovered
<1>3. node[b].activeConnections \in Nat
  BY DEF GoodPool, Good, Node
<1> QED BY <1>1, <1>2, <1>3 DEF IsCovered

\* Connect counts the one listener that the router hangs on the response.
LEMMA OneMoreListener ==
  ASSUME NEW b \in Backends, GoodPool(node), IsCovered(b), NEW x,
         Listeners(b)' \subseteq Listeners(b) \cup {x},
         node'[b].activeConnections = node[b].activeConnections + 1
  PROVE  IsCovered(b)'
<1> DEFINE L == Listeners(b)
           M == Listeners(b) \cup {x}
<1>1. IsFiniteSet(M) /\ Cardinality(M) <= Cardinality(L) + 1 /\ Cardinality(L) \in Nat
  <2>1. IsFiniteSet(L) /\ Cardinality(L) \in Nat
    BY FS_CardinalityType DEF IsCovered
  <2>2. /\ IsFiniteSet(M)
        /\ Cardinality(M) = IF x \in L THEN Cardinality(L) ELSE Cardinality(L) + 1
    <3> HIDE DEF L
    <3> QED BY <2>1, FS_AddElement DEF L
  <2> HIDE DEF L, M
  <2> QED BY <2>1, <2>2
<1>2. IsFiniteSet(L') /\ Cardinality(L') <= Cardinality(M)
  <2> HIDE DEF L, M
  <2>1. L' \subseteq M
    BY DEF L, M
  <2> QED BY <1>1, <2>1, FS_Subset
<1>3. Cardinality(L') \in Nat /\ Cardinality(M) \in Nat
  BY <1>1, <1>2, FS_CardinalityType
<1>4. node[b].activeConnections \in Nat
  BY DEF GoodPool, Good, Node
<1> QED BY <1>1, <1>2, <1>3, <1>4 DEF IsCovered

\* The end of a response releases as many connections as listeners of it.
LEMMA ResponseListeners ==
  ASSUME NEW b \in Backends, NEW r \in Requests, IsFiniteSet(Listeners(b))
  PROVE  LET W == WaitingFor(req[r], b)
             T == {ra \in Listeners(b) : ra[1] = r}
         IN  /\ IsFiniteSet(T) /\ IsFiniteSet(W)
             /\ Cardinality(W) \in Nat /\ Cardinality(T) \in Nat
             /\ Cardinality(W) <= Cardinality(T)
<1> DEFINE W == WaitingFor(req[r], b)
           T == {ra \in Listeners(b) : ra[1] = r}
           f == [ra \in T |-> ra[2]]
<1>1. IsFiniteSet(T)
  BY FS_Subset
<1>2. f \in Surjection(T, W)
  <2>1. ASSUME NEW ra \in T PROVE f[ra] \in W
    BY DEF Listeners, WaitingFor
  <2>2. ASSUME NEW a \in W PROVE \E ra \in T : f[ra] = a
    <3>1. <<r, a>> \in T
      BY DEF Listeners, WaitingFor
    <3>2. f[<<r, a>>] = a
      BY <3>1
    <3> QED BY <3>1, <3>2
  <2> QED BY <2>1, <2>2 DEF Surjection
<1>3. IsFiniteSet(W) /\ Cardinality(W) <= Cardinality(T)
  BY <1>1, <1>2, FS_Surjection
<1> QED BY <1>1, <1>3, FS_CardinalityType

LEMMA ListenersRun ==
  ASSUME NEW b \in Backends, NEW r \in Requests, GoodPool(node), IsCovered(b),
         Listeners(b)' \subseteq {ra \in Listeners(b) : ra[1] # r},
         node'[b].activeConnections =
           Disconnect(node[b], Cardinality(WaitingFor(req[r], b))).activeConnections
  PROVE  IsCovered(b)'
<1> DEFINE L == Listeners(b)
           k == Cardinality(WaitingFor(req[r], b))
           T == {ra \in L : ra[1] = r}
           D == L \ T
<1>1. IsFiniteSet(L) /\ Cardinality(L) \in Nat /\ node[b].activeConnections >= Cardinality(L)
  BY FS_CardinalityType DEF IsCovered
<1>2. IsFiniteSet(T) /\ k \in Nat /\ Cardinality(T) \in Nat /\ k <= Cardinality(T)
  BY <1>1, ResponseListeners
<1>3. /\ IsFiniteSet(D) /\ Cardinality(D) = Cardinality(L) - Cardinality(T)
      /\ Cardinality(D) \in Nat
  <2>1. L \cap T = T
    OBVIOUS
  <2>2. IsFiniteSet(D) /\ Cardinality(D) = Cardinality(L) - Cardinality(L \cap T)
    BY <1>1, FS_Difference
  <2> QED BY <2>1, <2>2, FS_CardinalityType
<1>4. IsFiniteSet(L') /\ Cardinality(L') <= Cardinality(D) /\ Cardinality(L') \in Nat
  <2>1. L' \subseteq D
    OBVIOUS
  <2> HIDE DEF L, D
  <2> QED BY <1>3, <2>1, FS_Subset, FS_CardinalityType
<1>5. /\ node[b].activeConnections \in Nat
      /\ node'[b].activeConnections =
           IF node[b].activeConnections > k THEN node[b].activeConnections - k ELSE 0
  <2>1. node[b] \in Node
    BY DEF GoodPool
  <2> HIDE DEF k
  <2>2. Disconnect(node[b], k).activeConnections =
          IF node[b].activeConnections > k THEN node[b].activeConnections - k ELSE 0
    BY <2>1 DEF Node, Disconnect, CompleteDrain
  <2> QED BY <2>1, <2>2 DEF Node, k
<1> HIDE DEF k, T, D, L
<1>6. node'[b].activeConnections >= Cardinality(L')
  BY <1>1, <1>2, <1>3, <1>4, <1>5
<1> QED BY <1>4, <1>6 DEF IsCovered, L

-----------------------------------------------------------------------------
(* What each step does to the pool.                                        *)

PoolKept ==
  /\ GoodPool(node') /\ Covered'
  /\ \A b \in Backends : Clean(node[b], node'[b]) \/ Pool!DrainTimer(b)

\* The listeners after a handler has written one request.
LEMMA OneListeners ==
  ASSUME ReqInv, NEW r \in Requests, NEW q, req' = [req EXCEPT ![r] = q],
         NEW b \in Backends
  PROVE  Listeners(b)' = {ra \in Requests \X Attempts :
                            /\ ra[1] # r => ra \in Listeners(b)
                            /\ ra[1] = r => q.listeners[ra[2]] = b}
<1>1. \A s \in Requests : req'[s] = IF s = r THEN q ELSE req[s]
  BY DEF ReqInv
<1> QED BY <1>1 DEF Listeners

LEMMA SameListeners ==
  ASSUME ReqInv, NEW r \in Requests, NEW q, req' = [req EXCEPT ![r] = q],
         q.listeners = req[r].listeners, NEW b \in Backends
  PROVE  Listeners(b)' \subseteq Listeners(b)
BY OneListeners DEF Listeners

LEMMA SteadyKept ==
  ASSUME IInv, SteadyPool, \A b \in Backends : Listeners(b)' \subseteq Listeners(b)
  PROVE  PoolKept
<1>1. ASSUME NEW b \in Backends PROVE IsCovered(b)'
  BY <1>1, FewerListeners DEF IInv, Covered, SteadyPool
<1> QED BY <1>1 DEF PoolKept, SteadyPool, Covered

LEMMA RouteKept ==
  ASSUME IInv, NEW r \in Requests, NEW q, Routable(q),
         q.listeners = req[r].listeners, Route(r, q)
  PROVE  PoolKept
<1>a. ReqInv /\ GoodPool(node) /\ GoodPool(AfterFilter(node))
      /\ \A b \in Backends : Steady(node[b], AfterFilter(node)[b]) /\ IsCovered(b)
  BY FilterSteady DEF IInv, Covered
<1>1. CASE node' = AfterFilter(node) /\ req' = [req EXCEPT ![r] = Unrouted(q)]
  <2>1. Unrouted(q).listeners = q.listeners
    BY DEF Unrouted, Routable, Request
  <2>2. \A b \in Backends : Listeners(b)' \subseteq Listeners(b)
    BY <1>1, <1>a, <2>1, SameListeners
  <2>3. SteadyPool
    BY <1>1, <1>a DEF SteadyPool, Steady
  <2> QED BY <2>2, <2>3, SteadyKept
<1>2. ASSUME NEW b \in Backends, node' = [AfterFilter(node) EXCEPT ![b] = Connect(@)],
             req' = [req EXCEPT ![r] = SentTo(q, b)]
      PROVE  PoolKept
  <2> DEFINE n == AfterFilter(node)[b]
  <2>1. Good(n) /\ n.activeConnections = node[b].activeConnections /\ Clean(node[b], n)
    BY <1>a DEF Steady
  <2>2. /\ Good(Connect(n)) /\ Connect(n).activeConnections = node[b].activeConnections + 1
        /\ Clean(node[b], Connect(n))
    <3> HIDE DEF n
    <3>1. n.status = "offline" => n.status = Connect(n).status
      BY <2>1 DEF Good, Node, Connect
    <3>2. /\ Connect(n).activeConnections = n.activeConnections + 1
          /\ Connect(n).status = n.status
      BY <2>1 DEF Good, Node, Connect
    <3>3. ~(node[b].status = "draining" /\ n.status = "offline")
      <4>1. node[b] \in Node
        BY <1>a DEF GoodPool
      <4> QED BY <4>1 DEF n, AfterFilter, TakeProbe, TransitionTo, StatusFor, Node
    <3> QED BY <2>1, <3>2, <3>3, ConnectGood DEF Clean
  <2>3. GoodPool(node')
    BY <1>2, <1>a, <2>2, OneGood
  <2>4. /\ node'[b] = Connect(n)
        /\ \A c \in Backends : c # b => node'[c] = AfterFilter(node)[c]
    BY <1>2, <1>a DEF GoodPool
  <2>5. \A c \in Backends : Clean(node[c], node'[c])
    BY <1>a, <2>2, <2>4 DEF Steady
  <2> DEFINE l == SentTo(q, b).listeners
  <2>6. \A a \in Attempts : a # q.attempts => l[a] = req[r].listeners[a]
    BY DEF SentTo, Routable, Request
  <2>7. l[q.attempts] \in {b, None}
    BY DEF SentTo, Routable, Request
  <2>8. None \notin Backends
    OBVIOUS
  <2>9. ASSUME NEW c \in Backends, c # b PROVE IsCovered(c)'
    <3>1. Listeners(c)' \subseteq Listeners(c)
      <4> HIDE DEF l
      <4> QED BY <1>2, <1>a, <2>6, <2>7, <2>8, <2>9, OneListeners DEF Listeners, l
    <3>2. node'[c].activeConnections = node[c].activeConnections
      BY <1>a, <2>4, <2>9 DEF Steady
    <3> QED BY <1>a, <3>1, <3>2, FewerListeners
  <2>10. IsCovered(b)'
    <3>1. Listeners(b)' \subseteq Listeners(b) \cup {<<r, q.attempts>>}
      <4> HIDE DEF l
      <4> QED BY <1>2, <1>a, <2>6, OneListeners DEF Listeners, l
    <3>2. node'[b].activeConnections = node[b].activeConnections + 1
      BY <2>2, <2>4
    <3> QED BY <1>a, <3>1, <3>2, OneMoreListener
  <2> QED BY <2>3, <2>5, <2>9, <2>10 DEF PoolKept, Covered
<1>3. \/ node' = AfterFilter(node) /\ req' = [req EXCEPT ![r] = Unrouted(q)]
      \/ \E b \in Backends : /\ node' = [AfterFilter(node) EXCEPT ![b] = Connect(@)]
                             /\ req' = [req EXCEPT ![r] = SentTo(q, b)]
  <2>1. Candidates(q) \subseteq Backends
    BY DEF Candidates, HealthyBackends
  <2> QED BY <2>1, Zenon DEF Route, Unrouted, SentTo
<1> QED BY <1>1, <1>2, <1>3

LEMMA CloseKept ==
  ASSUME IInv, NEW r \in Requests, Finish(r) \/ ClientClose(r)
  PROVE  PoolKept
<1> DEFINE k(b) == Cardinality(WaitingFor(req[r], b))
<1>a. ReqInv /\ GoodPool(node) /\ \A b \in Backends : Good(node[b]) /\ IsCovered(b)
  BY DEF IInv, Covered, GoodPool
<1>1. node' = [b \in Backends |-> Disconnect(node[b], k(b))]
  BY DEF Finish, ClientClose, RunListeners
<1>2. ASSUME NEW b \in Backends PROVE k(b) \in Nat
  <2>1. IsFiniteSet(Listeners(b))
    BY <1>a DEF IsCovered
  <2> QED BY <2>1, ResponseListeners
<1>3. ASSUME NEW b \in Backends
      PROVE  Good(Disconnect(node[b], k(b))) /\ Clean(node[b], Disconnect(node[b], k(b)))
  <2>1. k(b) \in Nat /\ Good(node[b])
    BY <1>a, <1>2
  <2> HIDE DEF k
  <2> QED BY <2>1, DisconnectGood, OthersQuiet DEF Quiet
<1>4. \A b \in Backends : node'[b] = Disconnect(node[b], k(b))
  BY <1>1
<1>5. GoodPool(node')
  <2> HIDE DEF k
  <2>1. node' = [b \in Backends |-> node'[b]]
    BY <1>1
  <2>2. \A b \in Backends : Good(node'[b])
    BY <1>3, <1>4
  <2> QED BY <2>1, <2>2, EachGood
<1>6. PICK m : /\ m.listeners = [a \in Attempts |-> None]
               /\ req' = [req EXCEPT ![r] = m]
  <2>1. req[r] \in Request
    BY <1>a DEF ReqInv
  <2>2. /\ Closed(req[r]).listeners = [a \in Attempts |-> None]
        /\ [Closed(req[r]) EXCEPT !.phase = "over"].listeners = [a \in Attempts |-> None]
    BY <2>1 DEF Closed, Request
  <2> QED BY <1>a, <2>2, CloseWrites
<1>7. ASSUME NEW b \in Backends PROVE IsCovered(b)'
  <2>1. Listeners(b)' \subseteq {ra \in Listeners(b) : ra[1] # r}
    <3>1. \A a \in Attempts : req'[r].listeners[a] # b
      BY <1>6, <1>a DEF ReqInv
    <3>2. \A s \in Requests : s # r => req'[s] = req[s]
      BY <1>6, <1>a DEF ReqInv
    <3> QED BY <3>1, <3>2 DEF Listeners
  <2>2. node'[b].activeConnections = Disconnect(node[b], k(b)).activeConnections
    BY <1>4
  <2> QED BY <1>a, <2>1, <2>2, ListenersRun
<1> QED BY <1>3, <1>4, <1>5, <1>7 DEF PoolKept, Covered

LEMMA StepPool == IInv /\ [Next]_vars => PoolKept
<1> SUFFICES ASSUME IInv, [Next]_vars PROVE PoolKept
  OBVIOUS
<1>a. ReqInv /\ GoodPool(node) /\ \A b \in Backends : Good(node[b])
  BY DEF IInv, GoodPool
<1>b. \A r \in Requests : req[r] \in Request /\ ReqOK(req[r])
  BY <1>a DEF ReqInv
<1>c. ASSUME UNCHANGED req PROVE \A b \in Backends : Listeners(b)' \subseteq Listeners(b)
  BY <1>c DEF Listeners
<1>d. ASSUME UNCHANGED node PROVE SteadyPool
  BY <1>a, <1>d, BreakerSteady DEF SteadyPool, Steady
<1>1. ASSUME NEW r \in Requests, Arrive(r) PROVE PoolKept
  <2>1. PICK idempotent \in BOOLEAN : Route(r, Arriving(r, idempotent))
    BY <1>1, Zenon DEF Arrive, Arriving
  <2>2. Routable(Arriving(r, idempotent))
    BY <1>1, <1>a, ArrivingRoutable, Zenon DEF Arrive
  <2>3. Arriving(r, idempotent).listeners = req[r].listeners
    BY <1>b DEF Arriving, Request
  <2> QED BY <2>1, <2>2, <2>3, RouteKept, Zenon
<1>2. ASSUME NEW r \in Requests, Retry(r) PROVE PoolKept
  BY <1>2, <1>a, RetryRoutable, RouteKept DEF Retry
<1>3. ASSUME NEW r \in Requests, UpstreamResponse(r) PROVE PoolKept
  <2>1. req[r].phase = "sent" /\ req' = [req EXCEPT ![r] = Answering(req[r])]
    BY <1>3, <1>a, ResponseWrites
  <2>2. Answering(req[r]).listeners = req[r].listeners
    BY <1>b DEF Answering, Request
  <2>3. SteadyPool
    <3>1. req[r].backend \in Backends
      BY <1>b, <2>1 DEF ReqOK
    <3> DEFINE b == req[r].backend
    <3>2. \/ node' = [node EXCEPT ![b] = RecordFailure(node[b])]
          \/ node' = [node EXCEPT ![b] = RecordSuccess(node[b])]
          \/ UNCHANGED node
      BY <1>3 DEF UpstreamResponse
    <3>3. Steady(node[b], RecordFailure(node[b])) /\ Steady(node[b], RecordSuccess(node[b]))
      BY <1>a, <3>1, BreakerSteady
    <3> HIDE DEF b
    <3>4. b \in Backends
      BY <3>1 DEF b
    <3> QED BY <1>a, <1>d, <3>2, <3>3, <3>4, OneSteady
  <2> QED BY <1>a, <2>1, <2>2, <2>3, SameListeners, SteadyKept
<1>4. ASSUME NEW r \in Requests, UpstreamError(r) PROVE PoolKept
  <2> DEFINE b == req[r].backend
  <2>1. /\ b \in Backends /\ node' = [node EXCEPT ![b] = RecordFailure(node[b])]
        /\ req' = [req EXCEPT ![r] = FailedAttempt(req[r])]
    BY <1>4, <1>b DEF UpstreamError, ReqOK
  <2>2. FailedAttempt(req[r]).listeners = req[r].listeners
    BY <1>b DEF FailedAttempt, Request
  <2>3. Steady(node[b], RecordFailure(node[b]))
    BY <1>a, <2>1, BreakerSteady
  <2>4. SteadyPool
    BY <1>a, <2>1, <2>3, OneSteady
  <2> QED BY <1>a, <2>1, <2>2, <2>4, SameListeners, SteadyKept
<1>5. ASSUME NEW r \in Requests, Finish(r) \/ ClientClose(r) PROVE PoolKept
  BY <1>5, CloseKept
<1>6. ASSUME NEW r \in Requests, Abandon(r) PROVE PoolKept
  <2>1. req' = [req EXCEPT ![r] = [req[r] EXCEPT !.phase = "over"]] /\ UNCHANGED node
    BY <1>6, <1>a, AbandonWrites DEF Abandon
  <2>2. [req[r] EXCEPT !.phase = "over"].listeners = req[r].listeners
    BY <1>b DEF Request
  <2> QED BY <1>a, <1>d, <2>1, <2>2, SameListeners, SteadyKept
<1>7. CASE Counted \/ Uncounted
  <2>1. UNCHANGED req
    BY <1>7 DEF Counted, Uncounted
  <2>2. SteadyPool
    BY <1>7, <1>a, OthersSteady
  <2> QED BY <1>c, <2>1, <2>2, SteadyKept
<1>8. CASE UNCHANGED vars
  BY <1>8, <1>c, <1>d, SteadyKept DEF vars
<1> QED BY <1>1, <1>2, <1>3, <1>4, <1>5, <1>6, <1>7, <1>8 DEF Next, Traffic

LEMMA StepIInv == IInv /\ [Next]_vars => IInv'
<1> SUFFICES ASSUME IInv, [Next]_vars PROVE IInv'
  OBVIOUS
<1>1. ReqInv' /\ PoolKept
  BY StepReqInv, StepPool DEF IInv
<1>a. Traffic => UNCHANGED <<checking, others>>
  BY Zenon DEF Traffic, Arrive, Retry, UpstreamResponse, UpstreamError, Finish,
     ClientClose, Abandon
<1>2. checking' \in [Backends -> BOOLEAN]
  <2>0. checking \in [Backends -> BOOLEAN]
    BY DEF IInv
  <2>1. ASSUME UNCHANGED checking PROVE checking' \in [Backends -> BOOLEAN]
    BY <2>0, <2>1
  <2>2. CASE Counted
    <3>1. \/ UNCHANGED checking
          \/ \E b \in Backends : checking' = [checking EXCEPT ![b] = FALSE]
      BY <2>2 DEF Counted, Pool!HealthCheckPassed, Pool!HealthCheckFailed,
         Pool!AdminOverride, Pool!AdminDrain, Pool!AdminUndrain, Pool!AdminReset
    <3> QED BY <2>0, <3>1
  <2>3. CASE Uncounted
    <3>1. \/ UNCHANGED checking
          \/ checking' = [b \in Backends |-> TRUE]
      BY <2>3 DEF Uncounted, Pool!PollStatus, Pool!StartChecks, Pool!Cooldown,
         Pool!DrainTimer
    <3>2. CASE checking' = [b \in Backends |-> TRUE]
      BY <3>2, Zenon
    <3> QED BY <2>1, <3>1, <3>2
  <2> QED BY <1>a, <2>1, <2>2, <2>3 DEF Next, vars
<1>3. others' \in 0..MaxOthers
  <2>1. \/ others' = others
        \/ others < MaxOthers /\ others' = others + 1
    <3>1. Counted => others < MaxOthers /\ others' = others + 1
      BY DEF Counted
    <3>2. Uncounted => others' = others
      BY DEF Uncounted
    <3>3. UNCHANGED vars => others' = others
      BY DEF vars
    <3> QED BY <1>a, <3>1, <3>2, <3>3 DEF Next
  <2> QED BY <2>1 DEF IInv
<1> QED BY <1>1, <1>2, <1>3 DEF IInv, PoolKept

LEMMA InitIInv == Init => IInv
<1> SUFFICES ASSUME Init PROVE IInv
  OBVIOUS
<1>1. Good(InitNode) /\ InitNode.activeConnections = 0
  BY DEF Good, InitNode, Node, CircuitState, Status, RemoveAfter, RejoinAfter,
         BreakerOK, StatusOK, DrainOK
<1>2. GoodPool(node)
  BY <1>1 DEF Init, GoodPool, Good
<1>3. ASSUME NEW b \in Backends PROVE IsCovered(b)
  <2>1. Listeners(b) = {}
    BY DEF Init, NewRequest, Listeners
  <2>2. node[b].activeConnections = 0
    BY <1>1 DEF Init
  <2> QED BY <2>1, <2>2, FS_EmptySet DEF IsCovered
<1> QED BY <1>2, <1>3, InitReqInv DEF IInv, Covered, Init

-----------------------------------------------------------------------------
(* The theorems.                                                           *)

LEMMA Invariance == Spec => []IInv
BY InitIInv, StepIInv, PTL DEF Spec

\* The state of the gateway keeps its types: what the proxy hooks, the
\* router and the retries write for one request, and what they and every
\* other handler write into the shared pool.
THEOREM TypeCorrect == Spec => []TypeOK
<1>1. IInv => TypeOK
  BY DEF IInv, ReqInv, GoodPool, TypeOK
<1> QED BY <1>1, Invariance, PTL

\* The connection counts that leastConnections.js increments and the finish
\* and close listeners decrement cover the listeners that still wait, for
\* any number of requests and retries, and whatever drains, resets,
\* overrides and checks do in between.
THEOREM CountsCover == Spec => []ConnectionsCounted
<1>1. IInv => ConnectionsCounted
  BY Zenon DEF IInv, Covered, IsCovered, ConnectionsCounted
<1> QED BY <1>1, Invariance, PTL

\* A drain that connectionDrainManager.js completes before its deadline
\* leaves no open response with an attempt at the backend.
THEOREM DrainsAreQuiet == Spec => QuietWhenDrained
<1> DEFINE A == \A b \in Backends :
                  /\ node[b].status = "draining" /\ node'[b].status = "offline"
                  /\ ~Pool!DrainTimer(b)
                  => \A r \in Requests : ~(req'[r].open /\ req'[r].backend = b)
<1>1. ASSUME IInv, [Next]_vars PROVE A
  <2>1. PoolKept /\ ReqInv'
    BY <1>1, StepPool, StepReqInv DEF IInv
  <2>2. SUFFICES ASSUME NEW b \in Backends, NEW r \in Requests,
                        node[b].status = "draining", node'[b].status = "offline",
                        ~Pool!DrainTimer(b), req'[r].open, req'[r].backend = b
                 PROVE  FALSE
    OBVIOUS
  <2>3. node'[b].activeConnections = 0 /\ IsCovered(b)'
    BY <2>1, <2>2 DEF PoolKept, Clean, Covered
  <2>4. Listeners(b)' = {}
    <3>1. IsFiniteSet(Listeners(b)') /\ Cardinality(Listeners(b)') <= 0
      BY <2>3 DEF IsCovered
    <3>2. Cardinality(Listeners(b)') = 0
      BY <3>1, FS_CardinalityType
    <3> QED BY <3>1, <3>2, FS_EmptySet
  <2>5. <<r, req'[r].attempts>> \in Listeners(b)'
    BY <2>1, <2>2 DEF ReqInv, ReqOK, Listeners
  <2> QED BY <2>4, <2>5
<1>2. Spec => [][A]_vars
  BY <1>1, Invariance, PTL DEF Spec
<1> QED BY <1>2 DEF QuietWhenDrained

\* A retry goes to a backend that failed the request only when every backend
\* that has not is out of rotation or has its breaker tripped: the exclusion
\* in selectBackend and the choice of proxyMiddleware.js agree.
THEOREM RetriesGoElsewhere == Spec => RetryElsewhere
<1> DEFINE A == \A r \in Requests :
                  /\ req'[r].sends > req[r].sends
                  /\ req'[r].backend \in req[r].failedBackends
                  => \A b \in Backends \ req[r].failedBackends :
                       ~node[b].healthy \/ node[b].state # "CLOSED"
<1>1. ASSUME IInv, [Next]_vars PROVE A
  <2> SUFFICES ASSUME NEW s \in Requests, req'[s].sends > req[s].sends,
                      req'[s].backend \in req[s].failedBackends,
                      NEW c \in Backends \ req[s].failedBackends
               PROVE  ~node[c].healthy \/ node[c].state # "CLOSED"
    OBVIOUS
  <2>a. ReqInv /\ req \in [Requests -> Request]
    BY <1>1 DEF IInv, ReqInv
  <2>b. \A r \in Requests : req[r] \in Request /\ ReqOK(req[r]) /\ req[r].sends \in Nat
    BY <2>a DEF ReqInv, Request
  <2>c. ASSUME NEW r \in Requests, NEW m, req' = [req EXCEPT ![r] = m],
               m.sends = req[r].sends
        PROVE  FALSE
    BY <2>a, <2>b, <2>c
  <2>d. ASSUME NEW r \in Requests, NEW q, Routable(q), Route(r, q),
               q.sends = req[r].sends, q.failedBackends = req[r].failedBackends
        PROVE  ~node[c].healthy \/ node[c].state # "CLOSED"
    <3>1. PICK b \in Candidates(q) : req' = [req EXCEPT ![r] = SentTo(q, b)]
      <4>1. CASE req' = [req EXCEPT ![r] = Unrouted(q)]
        <5>1. Unrouted(q).sends = q.sends
          BY <2>d DEF Unrouted, Routable, Request
        <5> QED BY <2>c, <2>d, <4>1, <5>1
      <4>2. \/ req' = [req EXCEPT ![r] = Unrouted(q)]
            \/ \E b \in Candidates(q) : req' = [req EXCEPT ![r] = SentTo(q, b)]
        BY <2>d, Zenon DEF Route, Unrouted, SentTo
      <4> QED BY <4>1, <4>2
    <3>2. s = r
      BY <2>a, <2>b, <3>1
    <3>3. req'[s].backend = b
      BY <2>a, <2>d, <3>1, <3>2 DEF SentTo, Routable, Request
    <3>4. c \notin HealthyBackends(node)
      BY <2>d, <3>1, <3>2, <3>3 DEF Candidates
    <3> QED BY <3>4 DEF HealthyBackends, CanExecute
  <2>1. ASSUME NEW r \in Requests, Arrive(r) PROVE ~node[c].healthy \/ node[c].state # "CLOSED"
    <3>1. PICK idempotent \in BOOLEAN : Route(r, Arriving(r, idempotent))
      BY <2>1, Zenon DEF Arrive, Arriving
    <3>2. Routable(Arriving(r, idempotent))
      BY <2>1, <2>a, ArrivingRoutable, Zenon DEF Arrive
    <3>3. /\ Arriving(r, idempotent).sends = req[r].sends
          /\ Arriving(r, idempotent).failedBackends = req[r].failedBackends
      BY <2>b DEF Arriving, Request
    <3> QED BY <2>d, <3>1, <3>2, <3>3, Zenon
  <2>2. ASSUME NEW r \in Requests, Retry(r) PROVE ~node[c].healthy \/ node[c].state # "CLOSED"
    BY <2>2, <2>a, <2>d, RetryRoutable DEF Retry
  <2>3. ASSUME NEW r \in Requests, UpstreamResponse(r) PROVE FALSE
    <3>1. Answering(req[r]).sends = req[r].sends
      BY <2>b DEF Answering, Request
    <3> QED BY <2>3, <2>a, <2>c, <3>1, ResponseWrites
  <2>4. ASSUME NEW r \in Requests, UpstreamError(r) PROVE FALSE
    <3>1. FailedAttempt(req[r]).sends = req[r].sends
      BY <2>b DEF FailedAttempt, Request
    <3> QED BY <2>4, <2>c, <3>1 DEF UpstreamError
  <2>5. ASSUME NEW r \in Requests, Finish(r) \/ ClientClose(r) PROVE FALSE
    <3>1. /\ Closed(req[r]).sends = req[r].sends
          /\ [Closed(req[r]) EXCEPT !.phase = "over"].sends = req[r].sends
      BY <2>b DEF Closed, Request
    <3> QED BY <2>5, <2>a, <2>c, <3>1, CloseWrites
  <2>6. ASSUME NEW r \in Requests, Abandon(r) PROVE FALSE
    <3>1. [req[r] EXCEPT !.phase = "over"].sends = req[r].sends
      BY <2>b DEF Request
    <3> QED BY <2>6, <2>a, <2>c, <3>1, AbandonWrites
  <2>7. CASE UNCHANGED req
    BY <2>7, <2>b
  <2> QED
    BY <1>1, <2>1, <2>2, <2>3, <2>4, <2>5, <2>6, <2>7
    DEF Next, Traffic, Counted, Uncounted, vars
<1>2. Spec => [][A]_vars
  BY <1>1, Invariance, PTL DEF Spec
<1> QED BY <1>2 DEF RetryElsewhere

-----------------------------------------------------------------------------
(* The refinement of BackendPool.  The router is Dispatch, or PollStatus   *)
(* when nobody is left to send to; a report of an upstream is one of       *)
(* UpstreamSuccess and UpstreamFailure; the listeners of a response are    *)
(* Release; an attempt that ends in silence is UpstreamEnd; and the other  *)
(* handlers are the pool's own actions.                                    *)

\* The methods of the instance are the gateway's.
LEMMA SameMethods ==
  ASSUME NEW n
  PROVE  /\ Pool!CanExecute(n) = CanExecute(n) /\ Pool!TakeProbe(n) = TakeProbe(n)
         /\ Pool!RecordSuccess(n) = RecordSuccess(n)
         /\ Pool!RecordFailure(n) = RecordFailure(n)
         /\ Pool!Connect(n) = Connect(n)
         /\ \A k : Pool!Disconnect(n, k) = Disconnect(n, k)
<1>1. Pool!CanExecute(n) = CanExecute(n)
  BY DEF Pool!CanExecute, CanExecute
<1>2. \A s : Pool!TransitionTo(n, s) = TransitionTo(n, s)
  BY DEF Pool!TransitionTo, TransitionTo, Pool!StatusFor, StatusFor
<1>3. Pool!TakeProbe(n) = TakeProbe(n)
  BY <1>1, <1>2 DEF Pool!TakeProbe, TakeProbe
<1>4. Pool!RecordSuccess(n) = RecordSuccess(n)
  BY DEF Pool!RecordSuccess, RecordSuccess, Pool!TransitionTo, TransitionTo,
         Pool!StatusFor, StatusFor
<1>5. Pool!RecordFailure(n) = RecordFailure(n)
  BY DEF Pool!RecordFailure, RecordFailure, Pool!TransitionTo, TransitionTo,
         Pool!StatusFor, StatusFor, Pool!Bump, Bump
<1>6. Pool!Connect(n) = Connect(n)
  BY DEF Pool!Connect, Connect
<1>7. ASSUME NEW k PROVE Pool!Disconnect(n, k) = Disconnect(n, k)
  BY DEF Pool!Disconnect, Disconnect, Pool!CompleteDrain, CompleteDrain
<1> QED BY <1>1, <1>3, <1>4, <1>5, <1>6, <1>7

LEMMA SameFilter ==
  /\ Pool!AfterFilter(node) = AfterFilter(node)
  /\ Pool!HealthyBackends(node) = HealthyBackends(node)
BY SameMethods, Zenon DEF Pool!AfterFilter, AfterFilter, Pool!HealthyBackends, HealthyBackends

-----------------------------------------------------------------------------
(* The attempts in flight.                                                 *)

CountsAt(q, b) == q.backend = b /\ q.phase \in {"sent", "streaming"}

LEMMA AtFinite ==
  ASSUME NEW b \in Backends
  PROVE  /\ IsFiniteSet(AtBackend(b)) /\ Cardinality(AtBackend(b)) \in Nat
         /\ Inflight[b] = Cardinality(AtBackend(b)) /\ Inflight[b] \in Nat
<1>1. AtBackend(b) \subseteq Requests
  BY DEF AtBackend
<1>2. IsFiniteSet(AtBackend(b))
  BY <1>1, InflightAssumption, FS_Subset
<1>3. Inflight[b] = Cardinality(AtBackend(b))
  BY Zenon DEF Inflight
<1> QED BY <1>2, <1>3, FS_CardinalityType

\* A handler that writes one request moves that one.
LEMMA OneMoves ==
  ASSUME ReqInv, NEW r \in Requests, NEW q, req' = [req EXCEPT ![r] = q], NEW b \in Backends
  PROVE  AtBackend(b)' = {s \in Requests : IF s = r THEN CountsAt(q, b) ELSE s \in AtBackend(b)}
<1>1. \A s \in Requests : req'[s] = IF s = r THEN q ELSE req[s]
  BY DEF ReqInv
<1> QED BY <1>1 DEF AtBackend, CountsAt

LEMMA Stays ==
  ASSUME ReqInv, NEW r \in Requests, NEW q, req' = [req EXCEPT ![r] = q],
         \A b \in Backends : CountsAt(q, b) <=> CountsAt(req[r], b)
  PROVE  Inflight' = Inflight
<1>1. ASSUME NEW b \in Backends PROVE AtBackend(b)' = AtBackend(b)
  BY <1>1, OneMoves DEF AtBackend, CountsAt
<1> QED BY <1>1, Zenon DEF Inflight

\* An attempt begins: there was room for it, since its request was nowhere.
LEMMA Joins ==
  ASSUME ReqInv, NEW r \in Requests, NEW q, req' = [req EXCEPT ![r] = q],
         NEW b \in Backends, CountsAt(q, b), \A c \in Backends : ~CountsAt(req[r], c)
  PROVE  /\ Inflight' = [Inflight EXCEPT ![b] = Inflight[b] + 1]
         /\ Inflight[b] < Cardinality(Requests)
<1>0. r \notin AtBackend(b) /\ AtBackend(b) \subseteq Requests
  BY DEF AtBackend, CountsAt
<1>1. r \notin AtBackend(b) /\ AtBackend(b)' = AtBackend(b) \cup {r}
  <2>1. AtBackend(b)' = {s \in Requests : IF s = r THEN CountsAt(q, b) ELSE s \in AtBackend(b)}
    BY OneMoves
  <2> QED BY <1>0, <2>1
<1>2. ASSUME NEW c \in Backends, c # b PROVE AtBackend(c)' = AtBackend(c)
  BY <1>2, OneMoves DEF AtBackend, CountsAt
<1>3. Cardinality(AtBackend(b)') = Inflight[b] + 1
  BY <1>1, AtFinite, FS_AddElement
<1>4. \A c \in Backends : Inflight'[c] = IF c = b THEN Inflight[b] + 1 ELSE Inflight[c]
  BY <1>2, <1>3 DEF Inflight
<1>5. Inflight' = [Inflight EXCEPT ![b] = Inflight[b] + 1]
  BY <1>4 DEF Inflight
<1>6. Inflight[b] < Cardinality(Requests)
  <2>1. AtBackend(b) \cup {r} \subseteq Requests
    BY DEF AtBackend
  <2>2. Cardinality(AtBackend(b) \cup {r}) <= Cardinality(Requests)
    BY <2>1, InflightAssumption, FS_Subset
  <2>3. Inflight[b] + 1 <= Cardinality(Requests) /\ Inflight[b] \in Nat
    BY <1>1, <1>3, <2>2, AtFinite
  <2> QED BY <2>3, InflightAssumption, FS_CardinalityType
<1> QED BY <1>5, <1>6

LEMMA Leaves ==
  ASSUME ReqInv, NEW r \in Requests, NEW q, req' = [req EXCEPT ![r] = q],
         NEW b \in Backends, CountsAt(req[r], b), \A c \in Backends : ~CountsAt(q, c)
  PROVE  Inflight' = Pool!Ended(b) /\ Inflight[b] > 0
<1>0. r \in AtBackend(b) /\ AtBackend(b) \subseteq Requests
  BY DEF AtBackend, CountsAt
<1>1. r \in AtBackend(b) /\ AtBackend(b)' = AtBackend(b) \ {r}
  <2>1. AtBackend(b)' = {s \in Requests : IF s = r THEN CountsAt(q, b) ELSE s \in AtBackend(b)}
    BY OneMoves
  <2> QED BY <1>0, <2>1
<1>2. ASSUME NEW c \in Backends, c # b PROVE AtBackend(c)' = AtBackend(c)
  BY <1>2, OneMoves DEF AtBackend, CountsAt
<1>3. Cardinality(AtBackend(b)') = Inflight[b] - 1
  <2>1. IsFiniteSet(AtBackend(b)) /\ Inflight[b] = Cardinality(AtBackend(b))
    BY AtFinite
  <2>2. Cardinality(AtBackend(b) \ {r}) = Cardinality(AtBackend(b)) - 1
    BY <1>1, <2>1, FS_RemoveElement
  <2> QED BY <1>1, <2>1, <2>2
<1>4. \A c \in Backends : Inflight'[c] = IF c = b THEN Inflight[b] - 1 ELSE Inflight[c]
  BY <1>2, <1>3 DEF Inflight
<1>5. Inflight' = [Inflight EXCEPT ![b] = Inflight[b] - 1]
  BY <1>4 DEF Inflight
<1>6. Inflight[b] > 0
  BY <1>1, AtFinite, FS_EmptySet
<1> QED BY <1>5, <1>6 DEF Pool!Ended

-----------------------------------------------------------------------------
(* The bound.  A connection is counted once per attempt sent, so no count  *)
(* is above the number of attempts there can be.                           *)

Sent == {ra \in Requests \X Attempts : ra[2] <= req[ra[1]].sends}

Tallied == \A b \in Backends : node[b].activeConnections <= Cardinality(Sent)

LEMMA AttemptsFit ==
  /\ IsFiniteSet(Requests \X Attempts)
  /\ Cardinality(Requests \X Attempts) <= MaxInflight
  /\ Cardinality(Requests) <= MaxInflight
<1>1. IsFiniteSet(Requests) /\ Cardinality(Requests) \in Nat
  BY InflightAssumption, FS_CardinalityType
<1>2. IsFiniteSet(Attempts) /\ Cardinality(Attempts) = MaxRetries + 1
  BY FS_Interval DEF Attempts
<1>3. /\ IsFiniteSet(Requests \X Attempts)
      /\ Cardinality(Requests \X Attempts) = Cardinality(Requests) * (MaxRetries + 1)
  BY <1>1, <1>2, FS_Product
<1>4. Cardinality(Requests) <= Cardinality(Requests) * (MaxRetries + 1)
  <2> DEFINE n == Cardinality(Requests)
  <2>1. n \in Nat /\ MaxRetries \in Nat /\ n * MaxRetries \in Nat
    BY <1>1
  <2>2. n * (MaxRetries + 1) = n * MaxRetries + n
    BY <2>1
  <2> QED BY <2>1, <2>2
<1> QED BY <1>1, <1>3, <1>4, InflightAssumption

LEMMA SentFinite ==
  /\ IsFiniteSet(Sent) /\ Cardinality(Sent) \in Nat /\ Cardinality(Sent) <= MaxInflight
<1>1. Sent \subseteq Requests \X Attempts
  BY DEF Sent
<1>2. /\ IsFiniteSet(Sent) /\ Cardinality(Sent) <= Cardinality(Requests \X Attempts)
  BY <1>1, AttemptsFit, FS_Subset
<1> QED BY <1>2, AttemptsFit, FS_CardinalityType

\* Nothing is sent and no connection is added.
LEMMA TallyStays ==
  ASSUME ReqInv, Tallied, NEW r \in Requests, NEW q, req' = [req EXCEPT ![r] = q],
         q.sends = req[r].sends,
         \A b \in Backends : node'[b].activeConnections <= node[b].activeConnections,
         GoodPool(node), GoodPool(node')
  PROVE  Tallied'
<1>1. \A s \in Requests : req'[s].sends = req[s].sends
  BY DEF ReqInv
<1>2. Sent' = Sent
  BY <1>1 DEF Sent
<1>3. ASSUME NEW b \in Backends
      PROVE  node'[b].activeConnections \in Nat /\ node[b].activeConnections \in Nat
  BY DEF GoodPool, Good, Node
<1> QED BY <1>2, <1>3, SentFinite DEF Tallied

\* One attempt is sent, and one connection is counted.
LEMMA TallyGrows ==
  ASSUME ReqInv, Tallied, NEW r \in Requests, NEW q, req' = [req EXCEPT ![r] = q],
         q.sends \in Attempts, req[r].sends = q.sends - 1,
         \A b \in Backends : node'[b].activeConnections <= node[b].activeConnections + 1,
         GoodPool(node), GoodPool(node')
  PROVE  Tallied' /\ Cardinality(Sent) < MaxInflight
<1>1. \A s \in Requests : req'[s].sends = IF s = r THEN q.sends ELSE req[s].sends
  BY DEF ReqInv
<1>2. q.sends \in Nat
  BY DEF Attempts
<1>3. <<r, q.sends>> \notin Sent /\ <<r, q.sends>> \in Requests \X Attempts
  BY <1>2 DEF Sent
<1>4. Sent' = Sent \cup {<<r, q.sends>>}
  <2>1. ASSUME NEW s \in Requests, NEW a \in Attempts
        PROVE  <<s, a>> \in Sent' <=> <<s, a>> \in Sent \cup {<<r, q.sends>>}
    BY <1>1, <1>2, <2>1 DEF Sent, Attempts
  <2> QED BY <1>3, <2>1 DEF Sent
<1>5. Cardinality(Sent') = Cardinality(Sent) + 1
  BY <1>3, <1>4, SentFinite, FS_AddElement
<1>6. Cardinality(Sent') <= MaxInflight
  <2>1. Sent' \subseteq Requests \X Attempts
    BY DEF Sent
  <2>2. Cardinality(Sent') <= Cardinality(Requests \X Attempts)
    BY <2>1, AttemptsFit, FS_Subset
  <2> QED BY <1>5, <2>2, SentFinite, AttemptsFit, FS_CardinalityType
<1>7. ASSUME NEW b \in Backends
      PROVE  node'[b].activeConnections \in Nat /\ node[b].activeConnections \in Nat
  BY DEF GoodPool, Good, Node
<1> QED BY <1>5, <1>6, <1>7, SentFinite DEF Tallied

-----------------------------------------------------------------------------
(* Every handler as a step of the pool.                                    *)

PoolVars == <<node, Inflight, checking>>

Refines == Tallied' /\ (Pool!Next \/ UNCHANGED PoolVars)

LEMMA RouteRefines ==
  ASSUME IInv, Tallied, NEW r \in Requests, NEW q, Routable(q),
         q.listeners = req[r].listeners, q.sends = req[r].sends, Route(r, q),
         UNCHANGED checking, \A c \in Backends : ~CountsAt(req[r], c)
  PROVE  Refines
<1>a. /\ ReqInv /\ GoodPool(node) /\ GoodPool(node')
      /\ \A b \in Backends : Steady(node[b], AfterFilter(node)[b])
  BY RouteKept, FilterSteady DEF IInv, PoolKept
<1>b. GoodPool(AfterFilter(node))
  BY <1>a, FilterSteady
<1>1. CASE node' = AfterFilter(node) /\ req' = [req EXCEPT ![r] = Unrouted(q)]
  <2>1. Unrouted(q).phase = "unrouted" /\ Unrouted(q).sends = req[r].sends
    BY DEF Unrouted, Routable, Request
  <2>2. Tallied'
    <3>1. \A b \in Backends : node'[b].activeConnections <= node[b].activeConnections
      <4>1. ASSUME NEW b \in Backends
            PROVE  node'[b].activeConnections = node[b].activeConnections
                   /\ node[b].activeConnections \in Nat
        BY <1>1, <1>a DEF Steady, GoodPool, Good, Node
      <4> QED BY <4>1
    <3> QED BY <1>1, <1>a, <2>1, <3>1, TallyStays
  <2>3. Inflight' = Inflight
    BY <1>1, <1>a, <2>1, Stays DEF CountsAt
  <2>4. Pool!PollStatus
    BY <1>1, <2>3, SameFilter DEF Pool!PollStatus
  <2> QED BY <2>2, <2>4 DEF Refines, Pool!Next, Pool!Traffic
<1>2. ASSUME NEW b \in HealthyBackends(node),
             node' = [AfterFilter(node) EXCEPT ![b] = Connect(AfterFilter(node)[b])],
             req' = [req EXCEPT ![r] = SentTo(q, b)]
      PROVE  Refines
  <2>1. b \in Backends
    BY DEF HealthyBackends
  <2> DEFINE m == SentTo(q, b)
  <2>2. /\ m.phase = "sent" /\ m.backend = b
        /\ m.sends \in Attempts /\ req[r].sends = m.sends - 1
    BY DEF SentTo, Routable, Request, Attempts
  <2>3. ASSUME NEW c \in Backends
        PROVE  node'[c].activeConnections <= node[c].activeConnections + 1
    <3>1. /\ AfterFilter(node)[c].activeConnections = node[c].activeConnections
          /\ node[c].activeConnections \in Nat /\ AfterFilter(node)[c] \in Node
      BY <1>a DEF Steady, GoodPool, Good, Node
    <3>2. node'[c] = IF c = b THEN Connect(AfterFilter(node)[c]) ELSE AfterFilter(node)[c]
      BY <1>2, <1>b DEF GoodPool
    <3>3. Connect(AfterFilter(node)[c]).activeConnections
            = AfterFilter(node)[c].activeConnections + 1
      BY <3>1 DEF Connect, Node
    <3> QED BY <3>1, <3>2, <3>3
  <2> HIDE DEF m
  <2>4. Tallied' /\ Cardinality(Sent) < MaxInflight
    BY <1>2, <1>a, <2>2, <2>3, TallyGrows DEF m
  <2>5. /\ Inflight' = [Inflight EXCEPT ![b] = Inflight[b] + 1]
        /\ Inflight[b] < Cardinality(Requests)
    <3>1. CountsAt(m, b)
      BY <2>2 DEF CountsAt
    <3> QED BY <1>2, <1>a, <2>1, <3>1, Joins DEF m
  <2>6. Inflight[b] < MaxInflight
    BY <2>1, <2>5, AtFinite, AttemptsFit, InflightAssumption, FS_CardinalityType
  <2>7. node[b].activeConnections < MaxInflight
    <3>1. node[b].activeConnections \in Nat
      BY <1>a, <2>1 DEF GoodPool, Good, Node
    <3> QED BY <2>1, <2>4, <3>1, SentFinite DEF Tallied
  <2>8. Pool!Dispatch(b)
    <3>1. node' = [Pool!AfterFilter(node) EXCEPT ![b] = Pool!Connect(Pool!AfterFilter(node)[b])]
      BY <1>2, SameFilter, SameMethods
    <3> QED BY <2>5, <2>6, <2>7, <3>1, SameFilter DEF Pool!Dispatch
  <2> QED BY <2>1, <2>4, <2>8 DEF Refines, Pool!Next, Pool!Traffic
<1>3. \/ node' = AfterFilter(node) /\ req' = [req EXCEPT ![r] = Unrouted(q)]
      \/ \E b \in HealthyBackends(node) :
           /\ node' = [AfterFilter(node) EXCEPT ![b] = Connect(AfterFilter(node)[b])]
           /\ req' = [req EXCEPT ![r] = SentTo(q, b)]
  <2>1. Candidates(q) \subseteq HealthyBackends(node)
    BY DEF Candidates
  <2> QED BY <2>1, Zenon DEF Route, Unrouted, SentTo
<1> QED BY <1>1, <1>2, <1>3

\* A report of an upstream that leaves the connections alone.
LEMMA ReportTally ==
  ASSUME IInv, Tallied, NEW r \in Requests, NEW m, req' = [req EXCEPT ![r] = m],
         m.sends = req[r].sends, SteadyPool
  PROVE  Tallied'
<1>1. ASSUME NEW b \in Backends
      PROVE  node'[b].activeConnections <= node[b].activeConnections
  BY <1>1 DEF IInv, SteadyPool, GoodPool, Good, Node
<1> QED BY <1>1, TallyStays DEF IInv, SteadyPool

LEMMA ResponseRefines ==
  ASSUME IInv, Tallied, NEW r \in Requests, UpstreamResponse(r)
  PROVE  Refines
<1> DEFINE b == req[r].backend
           m == Answering(req[r])
<1>a. ReqInv /\ GoodPool(node) /\ req[r] \in Request /\ ReqOK(req[r])
  BY DEF IInv, ReqInv
<1>1. req[r].phase = "sent" /\ req' = [req EXCEPT ![r] = m] /\ b \in Backends
  BY <1>a, ResponseWrites DEF ReqOK
<1>2. m.phase = "streaming" /\ m.backend = b /\ m.sends = req[r].sends
  BY <1>a DEF Answering, Request
<1>3. \/ node' = [node EXCEPT ![b] = RecordFailure(node[b])]
      \/ node' = [node EXCEPT ![b] = RecordSuccess(node[b])]
      \/ UNCHANGED node
  BY DEF UpstreamResponse
<1>4. Inflight[b] > 0
  <2>1. r \in AtBackend(b)
    BY <1>1 DEF AtBackend
  <2> HIDE DEF b
  <2> QED BY <1>1, <2>1, AtFinite, FS_EmptySet
<1>5. UNCHANGED checking
  BY DEF UpstreamResponse
<1>6. Good(node[b]) /\ Steady(node[b], RecordFailure(node[b])) /\ Steady(node[b], RecordSuccess(node[b]))
  BY <1>a, <1>1, BreakerSteady DEF GoodPool
<1> HIDE DEF b, m
<1>7. Inflight' = Inflight
  <2>1. \A c \in Backends : CountsAt(m, c) <=> CountsAt(req[r], c)
    BY <1>1, <1>2 DEF CountsAt, b
  <2> QED BY <1>a, <1>1, <2>1, Stays
<1>8. SteadyPool
  <2>1. CASE UNCHANGED node
    BY <1>a, <2>1, BreakerSteady DEF SteadyPool, Steady, GoodPool
  <2> QED BY <1>a, <1>1, <1>3, <1>6, <2>1, OneSteady
<1>9. Tallied'
  BY <1>1, <1>2, <1>8, ReportTally
<1>10. Pool!UpstreamFailure(b) \/ Pool!UpstreamSuccess(b) \/ UNCHANGED PoolVars
  <2>1. CASE node' = [node EXCEPT ![b] = RecordFailure(node[b])]
    BY <1>4, <1>5, <1>7, <2>1, SameMethods DEF Pool!UpstreamFailure
  <2>2. CASE node' = [node EXCEPT ![b] = RecordSuccess(node[b])]
    BY <1>4, <1>5, <1>7, <2>2, SameMethods DEF Pool!UpstreamSuccess
  <2>3. CASE UNCHANGED node
    BY <1>5, <1>7, <2>3 DEF PoolVars
  <2> QED BY <1>3, <2>1, <2>2, <2>3
<1> QED BY <1>1, <1>9, <1>10 DEF Refines, Pool!Next, Pool!Traffic

LEMMA ErrorRefines ==
  ASSUME IInv, Tallied, NEW r \in Requests, UpstreamError(r)
  PROVE  Refines
<1> DEFINE b == req[r].backend
           m == FailedAttempt(req[r])
<1>a. ReqInv /\ GoodPool(node) /\ req[r] \in Request /\ ReqOK(req[r])
  BY DEF IInv, ReqInv
<1>1. /\ req[r].phase \in {"sent", "streaming"} /\ b \in Backends
      /\ node' = [node EXCEPT ![b] = RecordFailure(node[b])]
      /\ req' = [req EXCEPT ![r] = m] /\ UNCHANGED checking
  BY <1>a DEF UpstreamError, ReqOK
<1>2. m.phase \in {"backoff", "stalled", "failed"} /\ m.sends = req[r].sends
  BY <1>a DEF FailedAttempt, Request
<1>3. Steady(node[b], RecordFailure(node[b]))
  BY <1>a, <1>1, BreakerSteady DEF GoodPool
<1>4. CountsAt(req[r], b) /\ \A c \in Backends : ~CountsAt(m, c)
  BY <1>1, <1>2 DEF CountsAt
<1> HIDE DEF b, m
<1>5. Inflight' = Pool!Ended(b) /\ Inflight[b] > 0
  BY <1>a, <1>1, <1>4, Leaves
<1>6. Tallied'
  BY <1>a, <1>1, <1>2, <1>3, OneSteady, ReportTally
<1>7. Pool!UpstreamFailure(b)
  BY <1>1, <1>5, SameMethods DEF Pool!UpstreamFailure
<1> QED BY <1>1, <1>6, <1>7 DEF Refines, Pool!Next, Pool!Traffic

\* An attempt that leaves is over for the pool too, or nothing has happened.
LEMMA SilentRefines ==
  ASSUME Tallied', UNCHANGED <<node, checking>>,
         \/ Inflight' = Inflight
         \/ \E b \in Backends : Inflight[b] > 0 /\ Inflight' = Pool!Ended(b)
  PROVE  Refines
<1>1. CASE Inflight' = Inflight
  BY <1>1 DEF Refines, PoolVars
<1>2. ASSUME NEW b \in Backends, Inflight[b] > 0, Inflight' = Pool!Ended(b) PROVE Refines
  BY <1>2 DEF Refines, Pool!UpstreamEnd, Pool!Next, Pool!Traffic
<1> QED BY <1>1, <1>2

\* Where the request goes when its response ends or it is abandoned.
LEMMA EndMoves ==
  ASSUME ReqInv, NEW r \in Requests, NEW m, req' = [req EXCEPT ![r] = m],
         \/ m.phase = req[r].phase /\ m.backend = req[r].backend
         \/ m.phase = "over"
  PROVE  \/ Inflight' = Inflight
         \/ \E b \in Backends : Inflight[b] > 0 /\ Inflight' = Pool!Ended(b)
<1>1. CASE m.phase = req[r].phase /\ m.backend = req[r].backend
  <2>1. \A b \in Backends : CountsAt(m, b) <=> CountsAt(req[r], b)
    BY <1>1 DEF CountsAt
  <2> QED BY <2>1, Stays
<1>2. CASE m.phase = "over" /\ \A c \in Backends : ~CountsAt(req[r], c)
  BY <1>2, Stays DEF CountsAt
<1>3. ASSUME m.phase = "over", NEW c \in Backends, CountsAt(req[r], c)
      PROVE  Inflight[c] > 0 /\ Inflight' = Pool!Ended(c)
  <2>1. \A b \in Backends : ~CountsAt(m, b)
    BY <1>3 DEF CountsAt
  <2> QED BY <1>3, <2>1, Leaves
<1> QED BY <1>1, <1>2, <1>3

\* What Finish and ClientClose make of the request.
LEMMA CloseMoves ==
  ASSUME ReqInv, NEW r \in Requests, Finish(r) \/ ClientClose(r)
  PROVE  \E m : /\ req' = [req EXCEPT ![r] = m] /\ m.sends = req[r].sends
                /\ \/ m.phase = req[r].phase /\ m.backend = req[r].backend
                   \/ m.phase = "over"
<1>1. req[r] \in Request
  BY DEF ReqInv
<1> DEFINE c == Closed(req[r])
           o == [c EXCEPT !.phase = "over"]
<1>2. PICK m : (m = c \/ m = o) /\ req' = [req EXCEPT ![r] = m]
  BY CloseWrites
<1>3. /\ c.phase = req[r].phase /\ c.backend = req[r].backend /\ c.sends = req[r].sends
      /\ o.phase = "over" /\ o.sends = req[r].sends
  BY <1>1 DEF Closed, Request
<1> HIDE DEF c, o
<1> QED BY <1>2, <1>3

LEMMA CloseRefines ==
  ASSUME IInv, Tallied, NEW r \in Requests, Finish(r) \/ ClientClose(r)
  PROVE  Refines
<1> DEFINE k(b) == Cardinality(WaitingFor(req[r], b))
           K == [b \in Backends |-> k(b)]
<1>a. /\ ReqInv /\ GoodPool(node) /\ GoodPool(node') /\ \A b \in Backends : IsCovered(b)
  BY CloseKept DEF IInv, Covered, PoolKept
<1>b. \A b \in Backends : Good(node[b]) /\ node[b] \in Node /\ node[b].activeConnections \in Nat
  BY <1>a DEF GoodPool, Good, Node
<1>1. node' = [b \in Backends |-> Disconnect(node[b], k(b))] /\ UNCHANGED checking
  BY DEF Finish, ClientClose, RunListeners
<1>2. ASSUME NEW b \in Backends
      PROVE  k(b) \in Nat /\ k(b) <= node[b].activeConnections /\ k(b) <= MaxInflight
  <2> DEFINE T == {ra \in Listeners(b) : ra[1] = r}
  <2>1. IsFiniteSet(Listeners(b)) /\ node[b].activeConnections >= Cardinality(Listeners(b))
    BY <1>a DEF IsCovered
  <2>2. k(b) \in Nat /\ Cardinality(T) \in Nat /\ k(b) <= Cardinality(T)
    BY <2>1, ResponseListeners
  <2>3. Cardinality(T) <= Cardinality(Listeners(b)) /\ Cardinality(Listeners(b)) \in Nat
    <3>1. T \subseteq Listeners(b)
      OBVIOUS
    <3> HIDE DEF T
    <3> QED BY <2>1, <3>1, FS_Subset, FS_CardinalityType
  <2>4. node[b].activeConnections <= Cardinality(Sent)
    BY DEF Tallied
  <2> HIDE DEF k, T
  <2> QED BY <1>b, <2>1, <2>2, <2>3, <2>4, SentFinite
<1>3. ASSUME NEW b \in Backends
      PROVE  /\ node'[b].activeConnections <= node[b].activeConnections
             /\ k(b) = 0 => node'[b] = node[b]
  <2>1. k(b) \in Nat /\ node'[b] = Disconnect(node[b], k(b))
    BY <1>1, <1>2
  <2>2. ASSUME NEW n \in Node, NEW i \in Nat
        PROVE  /\ Disconnect(n, i).activeConnections <= n.activeConnections
               /\ i = 0 => Disconnect(n, i) = n
    <3> DEFINE left == IF n.activeConnections > i THEN n.activeConnections - i ELSE 0
               m    == [n EXCEPT !.activeConnections = left]
    <3>1. left \in Nat /\ left <= n.activeConnections /\ (i = 0 => left = n.activeConnections)
      BY DEF Node
    <3>2. m.activeConnections = left /\ CompleteDrain(m).activeConnections = left
      BY DEF Node, CompleteDrain
    <3>3. \/ Disconnect(n, i) = m
          \/ i > 0 /\ Disconnect(n, i) = CompleteDrain(m)
      BY DEF Disconnect
    <3>4. left = n.activeConnections => m = n
      BY DEF Node
    <3> HIDE DEF left, m
    <3> QED BY <3>1, <3>2, <3>3, <3>4
  <2> HIDE DEF k
  <2> QED BY <1>b, <2>1, <2>2
<1>4. PICK m : /\ req' = [req EXCEPT ![r] = m] /\ m.sends = req[r].sends
               /\ \/ m.phase = req[r].phase /\ m.backend = req[r].backend
                  \/ m.phase = "over"
  BY <1>a, CloseMoves
<1>5. Tallied'
  BY <1>a, <1>3, <1>4, TallyStays
<1>6. \/ Inflight' = Inflight
      \/ \E b \in Backends : Inflight[b] > 0 /\ Inflight' = Pool!Ended(b)
  BY <1>a, <1>4, EndMoves
<1>7. CASE \A b \in Backends : k(b) = 0
  <2> HIDE DEF k
  <2>1. node' = node
    <3>1. \A b \in Backends : node'[b] = node[b]
      BY <1>3, <1>7
    <3> QED BY <1>a, <3>1 DEF GoodPool
  <2> QED BY <1>1, <1>5, <1>6, <2>1, SilentRefines
<1>8. CASE \E b \in Backends : k(b) > 0
  <2> HIDE DEF k
  <2>1. K \in [Backends -> 0..MaxInflight]
    BY <1>2
  <2>2. \A b \in Backends : K[b] = k(b)
    OBVIOUS
  <2>3. node' = [b \in Backends |-> Pool!Disconnect(node[b], K[b])]
    BY <1>1, <2>2, SameMethods, Zenon
  <2>4. (\E b \in Backends : K[b] > 0) /\ \A b \in Backends : K[b] <= node[b].activeConnections
    BY <1>2, <1>8, <2>2
  <2> HIDE DEF K
  <2>5. Pool!Release(K)
    BY <1>1, <1>6, <2>3, <2>4 DEF Pool!Release
  <2> QED BY <1>5, <2>1, <2>5 DEF Refines, Pool!Next, Pool!Traffic
<1>9. ASSUME NEW b \in Backends PROVE k(b) = 0 \/ k(b) > 0
  <2>1. k(b) \in Nat
    BY <1>2
  <2> HIDE DEF k
  <2> QED BY <2>1
<1> QED BY <1>7, <1>8, <1>9

LEMMA AbandonRefines ==
  ASSUME IInv, Tallied, NEW r \in Requests, Abandon(r)
  PROVE  Refines
<1> DEFINE m == [req[r] EXCEPT !.phase = "over"]
<1>a. ReqInv /\ GoodPool(node) /\ req[r] \in Request
  BY DEF IInv, ReqInv
<1>1. req' = [req EXCEPT ![r] = m] /\ UNCHANGED <<node, checking>>
  BY <1>a, AbandonWrites DEF Abandon
<1>2. m.phase = "over" /\ m.sends = req[r].sends
  BY <1>a DEF Request
<1> HIDE DEF m
<1>3. SteadyPool
  BY <1>a, <1>1, BreakerSteady DEF SteadyPool, Steady, GoodPool
<1> QED BY <1>a, <1>1, <1>2, <1>3, ReportTally, EndMoves, SilentRefines

LEMMA OthersRefine ==
  ASSUME IInv, Tallied, Counted \/ Uncounted
  PROVE  Refines
<1>1. UNCHANGED req /\ SteadyPool
  BY OthersSteady DEF IInv, Counted, Uncounted
<1>2. Tallied'
  <2>1. Sent' = Sent
    BY <1>1 DEF Sent
  <2> QED BY <1>1, <2>1 DEF Tallied, SteadyPool
<1>3. Pool!Next
  BY Zenon DEF Counted, Uncounted, Pool!Next, Pool!Traffic, Pool!Monitor, Pool!Admin, Pool!Clock
<1> QED BY <1>2, <1>3 DEF Refines

LEMMA StepPoolSpec == IInv /\ Tallied /\ [Next]_vars => Refines
<1> SUFFICES ASSUME IInv, Tallied, [Next]_vars PROVE Refines
  OBVIOUS
<1>a. ReqInv /\ \A r \in Requests : req[r] \in Request /\ ReqOK(req[r])
  BY DEF IInv, ReqInv
<1>1. ASSUME NEW r \in Requests, Arrive(r) PROVE Refines
  <2>1. PICK idempotent \in BOOLEAN : Route(r, Arriving(r, idempotent))
    BY <1>1, Zenon DEF Arrive, Arriving
  <2>2. Routable(Arriving(r, idempotent))
    BY <1>1, <1>a, ArrivingRoutable, Zenon DEF Arrive
  <2>3. /\ Arriving(r, idempotent).listeners = req[r].listeners
        /\ Arriving(r, idempotent).sends = req[r].sends
    BY <1>a DEF Arriving, Request
  <2>4. UNCHANGED checking /\ \A c \in Backends : ~CountsAt(req[r], c)
    BY <1>1 DEF Arrive, CountsAt
  <2> QED BY <2>1, <2>2, <2>3, <2>4, RouteRefines, Zenon
<1>2. ASSUME NEW r \in Requests, Retry(r) PROVE Refines
  <2>1. UNCHANGED checking /\ \A c \in Backends : ~CountsAt(req[r], c)
    BY <1>2 DEF Retry, CountsAt
  <2>2. Route(r, req[r]) /\ Routable(req[r])
    BY <1>2, <1>a, RetryRoutable DEF Retry
  <2> QED BY <2>1, <2>2, RouteRefines, Zenon
<1>3. CASE UNCHANGED vars
  <2>1. UNCHANGED <<node, checking, Inflight, Sent>>
    BY <1>3 DEF vars, Inflight, AtBackend, Sent
  <2> QED BY <2>1 DEF Refines, PoolVars, Tallied
<1> QED
  BY <1>1, <1>2, <1>3, ResponseRefines, ErrorRefines, CloseRefines, AbandonRefines,
     OthersRefine DEF Next, Traffic

LEMMA InitPool == Init => Pool!Init /\ Tallied
<1> SUFFICES ASSUME Init PROVE Pool!Init /\ Tallied
  OBVIOUS
<1>1. ASSUME NEW b \in Backends PROVE Cardinality(AtBackend(b)) = 0
  <2>1. AtBackend(b) = {}
    BY DEF Init, NewRequest, AtBackend
  <2> QED BY <2>1, FS_EmptySet
<1>2. Inflight = [b \in Backends |-> 0]
  BY <1>1, Zenon DEF Inflight
<1>3. node = [b \in Backends |-> Pool!InitNode]
  BY DEF Init, InitNode, Pool!InitNode
<1>4. Tallied
  <2>1. ASSUME NEW b \in Backends PROVE node[b].activeConnections <= Cardinality(Sent)
    <3>1. node[b].activeConnections = 0
      BY DEF Init, InitNode
    <3>2. 0 <= Cardinality(Sent)
      BY SentFinite
    <3> QED BY <3>1, <3>2
  <2> QED BY <2>1 DEF Tallied
<1> QED BY <1>2, <1>3, <1>4 DEF Init, Pool!Init

\* The proxy with every other handler implements the pool: each router call,
\* hook, listener, retry and timer writes the pool objects of
\* config/backends.js as an action of BackendPool allows, for any number of
\* requests, backends and retries.
THEOREM ImplementsPool == Spec => PoolSpec
<1>1. IInv /\ Tallied /\ [Next]_vars => Tallied' /\ [Pool!Next]_PoolVars
  BY StepPoolSpec DEF Refines
<1>2. Spec => [](IInv /\ Tallied)
  BY <1>1, InitIInv, InitPool, StepIInv, PTL DEF Spec
<1>3. Spec => Pool!Init /\ [][Pool!Next]_PoolVars
  BY <1>1, <1>2, InitPool, PTL DEF Spec
<1>4. Pool!Init /\ [][Pool!Next]_PoolVars => PoolSpec
  BY PTL DEF PoolSpec, Pool!Spec, Pool!vars, PoolVars
<1> QED BY <1>3, <1>4
=============================================================================
