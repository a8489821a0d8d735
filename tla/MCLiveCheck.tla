---------------------------- MODULE MCLiveCheck ----------------------------
(***************************************************************************)
(* Small instances of LiveCheck for TLC.                                   *)
(***************************************************************************)
EXTENDS LiveCheck
=============================================================================
