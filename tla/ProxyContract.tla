--------------------------- MODULE ProxyContract ---------------------------
(***************************************************************************)
(* What the proxy promises about each request, without backends, breakers  *)
(* or timing: a request that is not idempotent is sent upstream at most    *)
(* once and an idempotent one at most MaxAttempts times; a client gets at  *)
(* most one answer, and nothing is sent upstream for a request that has    *)
(* been answered.  Module Gateway implements it.                           *)
(***************************************************************************)
EXTENDS Naturals

CONSTANTS
  Requests,
  MaxAttempts

VARIABLE call       \* call[r]: what an observer of the proxy sees of r

Call == [begun : BOOLEAN, idempotent : BOOLEAN, open : BOOLEAN,
         sends : 0..MaxAttempts, answers : 0..1]

Init ==
  call = [r \in Requests |->
            [begun |-> FALSE, idempotent |-> TRUE, open |-> FALSE,
             sends |-> 0, answers |-> 0]]

\* The request arrives and is sent to a backend, if there is one.
Receive(r) ==
  /\ ~call[r].begun
  /\ \E idempotent \in BOOLEAN, sends \in 0..1 :
       call' = [call EXCEPT ![r] =
                  [begun |-> TRUE, idempotent |-> idempotent, open |-> TRUE,
                   sends |-> sends, answers |-> 0]]

Resend(r) ==
  /\ call[r].idempotent /\ call[r].answers = 0
  /\ call[r].sends \in 1..(MaxAttempts - 1)
  /\ call' = [call EXCEPT ![r].sends = @ + 1]

Answer(r) ==
  /\ call[r].open /\ call[r].answers = 0
  /\ call' = [call EXCEPT ![r].answers = 1]

\* The response is complete or the client has left.
End(r) ==
  /\ call[r].open
  /\ call' = [call EXCEPT ![r].open = FALSE]

Next == \E r \in Requests : Receive(r) \/ Resend(r) \/ Answer(r) \/ End(r)

Spec == Init /\ [][Next]_call
=============================================================================
