------------------------ MODULE MCFederationAdapter ------------------------
(***************************************************************************)
(* FederationAdapter for TLC: two targets, three actions, two verdicts.    *)
(***************************************************************************)
EXTENDS FederationAdapter

MCActions == {[name |-> "pay", target |-> "t1"], [name |-> "pay", target |-> "t2"],
              [name |-> "pay", target |-> "invalid"]}
=============================================================================
