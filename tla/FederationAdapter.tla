------------------------- MODULE FederationAdapter -------------------------
(***************************************************************************)
(* integrations/federation-port/invinoveritas-verdict/adapter.ts: check()  *)
(* of the verdict component, between an issuer whose clock may be ahead    *)
(* and a runtime that keeps the result and dispatches on it later.         *)
(***************************************************************************)
EXTENDS Naturals, FiniteSets

CONSTANTS
  Actions,    \* records with a name and a target, which may be absent or invalid
  Targets,    \* the valid targets
  Accepted,   \* config.accept_verdicts
  MaxAge,     \* config.max_age_s
  Skew,       \* how far the issuer's clock may be ahead of the runtime's
  Declared,   \* config.declared_target, "none" if it is not set
  Horizon,    \* the last instant
  MaxIssued   \* verdicts issued

ASSUME ClockAssumption == MaxAge \in Nat /\ Skew \in Nat /\ Horizon \in Nat /\ MaxIssued \in Nat
ASSUME TargetAssumption == \A a \in Actions : a.target \in Targets \union {"absent", "invalid"}

VARIABLES
  now,         \* the runtime's clock
  issued,      \* the verdict events the issuer signed, with the time they were
  input,       \* what the runtime last handed to check()
  output,      \* what it returned: a status per claim, and valid_until
  dispatched   \* the actions dispatched, where to and when

vars == <<now, issued, input, output, dispatched>>

Claim == {"authentic", "covers", "permits", "target"}

\* The ways in which presented bytes are not an event of the issuer.
Defect == {"none", "malformed_fields", "id", "key", "kind", "signature"}

All(status) == [c \in Claim |-> status]

-----------------------------------------------------------------------------
\* (mutant) A verdict lapses at its last instant.
ExpiresEarly(e) == e.created_at + MaxAge - 1
Expires(e) == e.created_at + MaxAge

\* (mutant) The target is where the customer declared it to be.
TargetStatusDeclared(i) ==
  IF i.action.target \in Targets /\ Declared = i.action.target THEN "established" ELSE "not_established"
\* The runtime's target wins over the declared one.
TargetStatus(i) ==
  LET dispatch == IF i.target # "none" THEN i.target ELSE Declared
  IN  IF i.action.target \in Targets /\ i.action.target = dispatch THEN "established" ELSE "not_established"

Permits(i, t) ==
  IF i.event.verdict \in Accepted /\ t <= i.event.created_at + MaxAge THEN "established" ELSE "not_established"

Claims(i, t) ==
  IF i.form = "empty" THEN All("not_established")
  ELSE IF i.form \in {"not_json", "not_event"} THEN All("failed")
  ELSE IF i.defect # "none" THEN All("not_established")
  ELSE IF ~i.content_json THEN All("failed")
  ELSE LET covers == i.event.action = i.action IN
       [authentic |-> "established",
        covers |-> IF covers THEN "established" ELSE "not_established",
        permits |-> IF covers THEN Permits(i, t) ELSE "not_established",
        target |-> IF covers THEN TargetStatus(i) ELSE "not_established"]

\* valid_until is there when permission is established; 0 stands for none.
Result(i, t) ==
  [claims |-> Claims(i, t),
   valid_until |-> IF Claims(i, t)["permits"] = "established" THEN Expires(i.event) ELSE 0]

-----------------------------------------------------------------------------
NoInput == [form |-> "empty", target |-> "none"]

Init ==
  /\ now = 0
  /\ issued = {}
  /\ input = NoInput
  /\ output = [claims |-> All("not_established"), valid_until |-> 0]
  /\ dispatched = {}

Tick ==
  /\ now < Horizon
  /\ now' = now + 1
  /\ UNCHANGED <<issued, input, output, dispatched>>

\* The issuer signs a verdict on an action, dated by its own clock.
Issue ==
  /\ Cardinality(issued) < MaxIssued
  /\ \E a \in Actions, v \in {"approve", "deny"}, s \in 0..Skew :
       issued' = issued \union {[action |-> a, verdict |-> v, created_at |-> now + s, when |-> now]}
  /\ UNCHANGED <<now, input, output, dispatched>>

\* The runtime calls check() with the bytes presented for an action. A runtime
\* of v0 names no target ("none").
CheckWith(i) ==
  /\ input' = i
  /\ output' = Result(i, now)
  /\ UNCHANGED <<now, issued, dispatched>>

CheckNothing == \E f \in {"empty", "not_json", "not_event"} : CheckWith([form |-> f, target |-> "none"])

CheckEvent ==
  \E e \in issued, a \in Actions, t \in Targets \union {"none"}, d \in Defect, j \in BOOLEAN :
    CheckWith([form |-> "event", event |-> e, action |-> a, target |-> t, defect |-> d, content_json |-> j])

\* The runtime dispatches the action it had checked, when every claim it asked
\* for is established and the result has not lapsed; it may do so again.
Dispatch ==
  /\ output.claims = All("established")
  /\ now <= output.valid_until
  /\ dispatched' = dispatched \union
       {[action |-> input.action, target |-> IF input.target # "none" THEN input.target ELSE Declared, when |-> now]}
  /\ UNCHANGED <<now, issued, input, output>>

Next == Tick \/ Issue \/ CheckNothing \/ CheckEvent \/ Dispatch

Spec == Init /\ [][Next]_vars

-----------------------------------------------------------------------------
(* Properties *)

\* Every variable has its type.
TypeOK ==
  /\ now \in 0..Horizon
  /\ Cardinality(issued) <= MaxIssued
  /\ output.claims \in [Claim -> {"established", "not_established", "failed"}]
  /\ output.valid_until \in 0..(Horizon + Skew + MaxAge)

\* The runtime with this component keeps the promise of GovernedDispatch: a
\* verdict is good for max_age_s, and for as much longer as the issuer's clock
\* was ahead, because freshness is bounded above only.
Governed == INSTANCE GovernedDispatch WITH
  Window <- MaxAge + Skew,
  verdicts <- {[action |-> e.action, verdict |-> e.verdict, when |-> e.when] : e \in issued}

ImplementsGoverned == Governed!Spec

\* A result that is kept is one a new check() would give: exactly until
\* valid_until, the same claims are established for the same input.
KeptIsCurrent ==
  (input.form = "event" /\ output.valid_until > 0) =>
    ((now <= output.valid_until) <=> (Result(input, now) = output))
=============================================================================
