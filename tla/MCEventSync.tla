---------------------------- MODULE MCEventSync ----------------------------
(***************************************************************************)
(* EventSync for TLC: five events, two sockets and one failed snapshot, so *)
(* that a skip can be noticed while a snapshot for an earlier one is on    *)
(* its way, and the host can miss events between two sockets.              *)
(***************************************************************************)
EXTENDS EventSync

MCSequenceNumbers == 1..5
=============================================================================
