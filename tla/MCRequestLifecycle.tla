------------------------ MODULE MCRequestLifecycle ------------------------
(***************************************************************************)
(* RequestLifecycle for TLC: the groups of clients the runs compare.  The  *)
(* configurations take a timeout of three ticks, a connect timeout below   *)
(* it, two chunks each way, and a clock that runs past twice the timeout,  *)
(* so that a call that outlives it is seen to.                             *)
(***************************************************************************)
EXTENDS RequestLifecycle
\* Clients with one deadline for the whole call.
WholeCallSdks == {"rust", "typescript", "swift"}
=============================================================================
