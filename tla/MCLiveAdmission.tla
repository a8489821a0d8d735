--------------------------- MODULE MCLiveAdmission --------------------------
(***************************************************************************)
(* Small instances of LiveAdmission for TLC.                               *)
(***************************************************************************)
EXTENDS LiveAdmission

\* No hint, the mode the referee derives, one it does not, and no mode at all.
MCHint == {None, "embedded_fixture", "cached_prior", "some_other_word"}
=============================================================================
