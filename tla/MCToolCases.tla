---------------------------- MODULE MCToolCases ----------------------------
(***************************************************************************)
(* ToolCases for TLC: the more cases a tool starts from, the fewer edits.  *)
(***************************************************************************)
EXTENDS ToolCases

MCMaxAltered == [t \in Tool |-> CASE t = "acceptance" -> 3 [] t \in {"related_claims", "nenrin"} -> 1 [] OTHER -> 2]
=============================================================================
