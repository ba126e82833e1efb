------------------------- MODULE MCTransferSession -------------------------
(***************************************************************************)
(* TransferSession for TLC: every client, every kind of key.               *)
(***************************************************************************)
EXTENDS TransferSession
AllSdks == {"rust", "typescript", "dart", "java", "swift"}
AllKeys == {"absent", "empty", "text"}
=============================================================================
