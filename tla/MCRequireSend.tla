--------------------------- MODULE MCRequireSend ---------------------------
(* Two local variables and a field that ends like one of them. *)
EXTENDS RequireSend
MCLastPart == [x \in {"self.e"} |-> "e"]
=============================================================================
