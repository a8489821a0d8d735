-------------------------- MODULE GovernedDispatch --------------------------
(***************************************************************************)
(* What a runtime with a verdict component promises: an action is only     *)
(* dispatched to the target it names itself, and only while an accepted    *)
(* verdict on exactly that action, really issued by the pinned issuer, is  *)
(* no older than the window.                                               *)
(***************************************************************************)
EXTENDS Naturals

CONSTANTS Actions, Targets, Accepted, Window, Horizon

VARIABLES
  now,        \* the time
  verdicts,   \* what the issuer has issued: action, verdict, when
  dispatched  \* what the runtime has dispatched: action, target, when

Init == now = 0 /\ verdicts = {} /\ dispatched = {}

Tick == now < Horizon /\ now' = now + 1 /\ UNCHANGED <<verdicts, dispatched>>

Issue ==
  /\ \E a \in Actions, v \in {"approve", "deny"} :
       verdicts' = verdicts \union {[action |-> a, verdict |-> v, when |-> now]}
  /\ UNCHANGED <<now, dispatched>>

Dispatch ==
  /\ \E v \in verdicts :
       /\ v.verdict \in Accepted
       /\ now <= v.when + Window
       /\ v.action.target \in Targets
       /\ dispatched' = dispatched \union {[action |-> v.action, target |-> v.action.target, when |-> now]}
  /\ UNCHANGED <<now, verdicts>>

Next == Tick \/ Issue \/ Dispatch

Spec == Init /\ [][Next]_<<now, verdicts, dispatched>>
=============================================================================
