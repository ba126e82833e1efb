-------------------------- MODULE MCFpConformance --------------------------
(***************************************************************************)
(* FpConformance for TLC: every file of two lines of up to five            *)
(* characters, or of four where a file that is masked wrongly is wanted.   *)
(***************************************************************************)
EXTENDS FpConformance
=============================================================================
