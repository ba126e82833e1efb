---------------------------- MODULE BoundedCall ----------------------------
(***************************************************************************)
(* What one call of a File Tunnel client promises its host, with no HTTP   *)
(* in it: the call ends within the configured timeout, and a definite      *)
(* answer is true of the server.  "ambiguous" is every ending (timeout,    *)
(* broken connection, unreadable payload) after which the host cannot know *)
(* whether the server acted.                                               *)
(***************************************************************************)
EXTENDS Naturals

CONSTANT Timeout      \* the request timeout given to the client, in ticks

VARIABLES answer,     \* what the host has been told so far
          elapsed,    \* ticks since the host made the call
          effect      \* what the server did with the request

vars == <<answer, elapsed, effect>>

Answers == {"pending", "value", "refused", "ambiguous"}
Effects == {"none", "applied", "refused"}

Init ==
  /\ answer = "pending"
  /\ elapsed = 0
  /\ effect = "none"

\* The server acts at most once, and possibly after the host stopped waiting.
Act ==
  /\ effect = "none"
  /\ effect' \in {"applied", "refused"}
  /\ UNCHANGED <<answer, elapsed>>

\* Time passes for a waiting host, never beyond the timeout.
Wait ==
  /\ answer = "pending"
  /\ elapsed < Timeout
  /\ elapsed' = elapsed + 1
  /\ UNCHANGED <<answer, effect>>

\* The host is answered: with a definite answer only if it is true.
Answer ==
  /\ answer = "pending"
  /\ answer' \in Answers \ {"pending"}
  /\ answer' = "value" => effect = "applied"
  /\ answer' = "refused" => effect = "refused"
  /\ UNCHANGED <<elapsed, effect>>

Next == Act \/ Wait \/ Answer

Spec == Init /\ [][Next]_vars /\ WF_vars(Wait \/ Answer)

=============================================================================
