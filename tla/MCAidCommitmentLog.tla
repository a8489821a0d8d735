------------------------ MODULE MCAidCommitmentLog -------------------------
(***************************************************************************)
(* Small instances of AidCommitmentLog for TLC.                            *)
(***************************************************************************)
EXTENDS AidCommitmentLog
=============================================================================
