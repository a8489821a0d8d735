--------------------------- MODULE MCConformance ---------------------------
(***************************************************************************)
(* Small instances of Conformance for TLC: a trusted verifier, the actor   *)
(* and a key nobody vouches for.                                           *)
(***************************************************************************)
EXTENDS Conformance, TLC

CONSTANTS e1, e2

\* The two envelopes are interchangeable.
MCSymmetry == Permutations({e1, e2})
=============================================================================
