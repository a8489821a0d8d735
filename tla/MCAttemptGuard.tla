--------------------------- MODULE MCAttemptGuard ---------------------------
(***************************************************************************)
(* Small instances of AttemptGuard for TLC: one tool, an argument that     *)
(* binds and one that does not.                                            *)
(***************************************************************************)
EXTENDS AttemptGuard

CONSTANTS t1, a1, x1

MCUnbindable == {<<t1, x1>>}
=============================================================================
