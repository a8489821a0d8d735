----------------------------- MODULE LiveCheck -----------------------------
(***************************************************************************)
(* adapters/live_check.py: run() against a live endpoint whose anchor goes *)
(* through its life while the referee looks: the governance block is       *)
(* fetched first, the anchor's state later (or it came with the block),    *)
(* the suites are reported, and the board's row is replaced by that of the *)
(* next run. What the admission suite rests on is the subject of           *)
(* LiveAdmission; here it is one of its outcomes.                          *)
(*                                                                         *)
(* An endpoint that says "confirmed", or names an external clock, tells    *)
(* the truth about itself; its other status words are CONSTANT Words. The  *)
(* referee looks for words inside a status, so of each of them it matters  *)
(* whether "confirmed" is in it and whether an in-flight word is.          *)
(***************************************************************************)
EXTENDS Integers

CONSTANTS
  Words,       \* status words of an anchor that is submitted and not confirmed
  Containing,  \* those with "confirmed" in them: "unconfirmed", "not_confirmed"
  Marking,     \* those with a word for an anchor in flight in them
  NoTime,      \* a time that is not known
  MaxTime      \* bound: the clock

ASSUME LiveAssumption == MaxTime \in Nat \ {0} /\ NoTime \notin Int

\* What is known of the words that are spelled out in run().
ASSUME WordAssumption ==
  /\ Containing \subseteq Words /\ Marking \subseteq Words
  /\ Words \intersect {"confirmed", "unconfirmed"} \subseteq Containing
  /\ Words \intersect {"submitted", "pending", "not_submitted", "unconfirmed", "unreachable"}
       \subseteq Marking
  /\ Containing \intersect {"", "submitted", "pending", "not_submitted", "unreachable"} = {}

Time == 1..MaxTime
TimeOrNone == Time \union {NoTime}

States == {"pass", "fail", "pending", "not_provided", "not_assessable",
           "unverified_here"}
Suites == {"canonical_envelope", "admission_invariant", "anchoring_existence",
           "anchoring_precedence", "chain_invariant"}

\* What an anchor endpoint answers.
Anchor == [status : Words \union {"not_submitted", "confirmed", "unreachable", ""},
           block_time : TimeOrNone, external : BOOLEAN,
           precedence : {"true", "false", "unspecified"}]
NoAnchor == [status |-> "absent"]
AtUrl    == [status |-> "at_url"]

VARIABLES
  kind,       \* the endpoint's clock: "ots", "onchain" or "internal" (its own)
  slot,       \* where its anchor is: "url", "inline" or "undeclared"
  now,        \* the clock
  submitted,  \* when the commitment was submitted to the anchor
  forward,    \* was that before the outcome
  precedence, \* the flag the endpoint publishes with the anchor
  block,      \* when the external clock confirmed it
  outcome,    \* when the terminal outcome happened
  declared,   \* terminal_outcome_time in the mapping
  board_pc,   \* where run() stands
  anchor_ep,  \* the anchor as found in the governance block
  suites,     \* the suites reported so far by this run
  row         \* the last finished run: its suites and overall

worldVars == <<kind, slot, now, submitted, forward, precedence, block, outcome, declared>>
boardVars == <<worldVars, board_pc, anchor_ep, suites, row>>

NoRow == [overall |-> "none"]

BoardTypeOK ==
  /\ kind \in {"ots", "onchain", "internal"}
  /\ slot \in {"url", "inline", "undeclared"}
  /\ now \in Time
  /\ submitted \in TimeOrNone
  /\ forward \in BOOLEAN
  /\ precedence \in {"true", "false", "unspecified"}
  /\ block \in TimeOrNone
  /\ outcome \in TimeOrNone
  /\ declared \in TimeOrNone
  /\ board_pc \in {"idle", "anchor", "conclude"}
  /\ anchor_ep \in Anchor \union {NoAnchor, AtUrl}
  /\ suites \in [Suites -> States \union {"unset"}]
  /\ row # NoRow => /\ row.suites \in [Suites -> States]
                    /\ row.overall \in {"pass", "fail", "partial"}

BoardInit ==
  /\ kind \in {"ots", "onchain", "internal"}
  /\ slot \in {"url", "inline", "undeclared"}
  /\ now = 1
  /\ submitted = NoTime
  /\ forward = FALSE
  /\ precedence = "unspecified"
  /\ block = NoTime
  /\ outcome = NoTime
  /\ declared = NoTime
  /\ board_pc = "idle"
  /\ anchor_ep = NoAnchor
  /\ suites = [s \in Suites |-> "unset"]
  /\ row = NoRow

-----------------------------------------------------------------------------
(* The endpoint and its clock *)

refereeVars == <<board_pc, anchor_ep, suites, row>>

Tick ==
  /\ now < MaxTime
  /\ now' = now + 1
  /\ UNCHANGED <<kind, slot, submitted, forward, precedence, block, outcome, declared,
                 refereeVars>>

\* A forward stamp may be marked as one; a backfilled one may be marked too.
Submit(marked) ==
  /\ submitted = NoTime
  /\ submitted' = now
  /\ forward' = (outcome = NoTime)
  /\ precedence' = IF ~marked THEN "unspecified"
                   ELSE IF outcome = NoTime THEN "true" ELSE "false"
  /\ UNCHANGED <<kind, slot, now, block, outcome, declared, refereeVars>>

Confirm ==
  /\ kind # "internal"
  /\ submitted # NoTime
  /\ block = NoTime
  /\ block' = now
  /\ UNCHANGED <<kind, slot, now, submitted, forward, precedence, outcome, declared,
                 refereeVars>>

Outcome ==
  /\ outcome = NoTime
  /\ outcome' = now
  /\ UNCHANGED <<kind, slot, now, submitted, forward, precedence, block, declared,
                 refereeVars>>

\* The mapping is given the time of the outcome.
DeclareOutcome ==
  /\ outcome # NoTime
  /\ declared = NoTime
  /\ board_pc = "idle"
  /\ declared' = outcome
  /\ UNCHANGED <<kind, slot, now, submitted, forward, precedence, block, outcome,
                 refereeVars>>

\* What the anchor endpoint answers now; an on-chain anchor never says a word,
\* an endpoint with a clock of its own stamps what it is given.
Answer(word) ==
  [status |-> IF kind # "ots" THEN ""
              ELSE IF block # NoTime THEN "confirmed"
              ELSE IF submitted # NoTime THEN word ELSE "not_submitted",
   block_time |-> IF kind = "internal" THEN submitted ELSE block,
   external |-> kind # "internal",
   precedence |-> precedence]

Unreachable == [status |-> "unreachable", block_time |-> NoTime,
                external |-> FALSE, precedence |-> "unspecified"]

-----------------------------------------------------------------------------
(* run(mapping) *)

\* canonical_envelope: recomputed and equal or not, or not exposed.
Canonical == {"pass", "fail", "not_provided"}
AdmissionCode == {"pass", "fail", "unverified_here"}

FetchGovernance(canonical, admission) ==
  /\ board_pc = "idle"
  /\ anchor_ep' \in IF slot = "undeclared" THEN {NoAnchor}
                    ELSE IF slot = "url" THEN {AtUrl}
                    ELSE IF submitted = NoTime THEN {NoAnchor}
                    ELSE {Answer(w) : w \in Words}
  /\ suites' = [s \in Suites |-> IF s = "canonical_envelope" THEN canonical
                                 ELSE IF s = "admission_invariant" THEN admission
                                 ELSE "unset"]
  /\ board_pc' = "anchor"
  /\ UNCHANGED <<worldVars, row>>

\* any(w in st for w in ("submitted", "pending", ...))
InFlight(a) == a.status \in Marking \union {"not_submitted", "unreachable"}

\* "confirmed" in st
SaysConfirmed(a) == a.status \in Containing \union {"confirmed"}

\* (mutant) Any time stamp will do, whoever made it.
ConfirmedAnyClock(a) ==
  \/ SaysConfirmed(a)
  \/ a.block_time # NoTime /\ ~InFlight(a)

Confirmed(a) ==
  \/ SaysConfirmed(a)
  \/ a.block_time # NoTime /\ ~InFlight(a) /\ a.external

\* (mutant) A backfilled stamp is not told apart.
PrecedenceAnyStamp(a) ==
  IF ~Confirmed(a) THEN "pending"
  ELSE IF a.block_time # NoTime /\ declared # NoTime
       THEN IF a.block_time < declared THEN "pass" ELSE "fail"
  ELSE "pass"

\* (mutant) What cannot be determined fails.
PrecedenceUndeterminedFails(a) ==
  IF ~Confirmed(a) THEN "pending"
  ELSE IF a.precedence = "false" THEN "fail"
  ELSE IF a.block_time # NoTime /\ declared # NoTime
       THEN IF a.block_time < declared THEN "pass" ELSE "fail"
  ELSE IF a.precedence = "true" THEN "pass" ELSE "fail"

Precedence(a) ==
  IF ~Confirmed(a) THEN "pending"
  ELSE IF a.precedence = "false" THEN "fail"
  ELSE IF a.block_time # NoTime /\ declared # NoTime
       THEN IF a.block_time < declared THEN "pass" ELSE "fail"
  ELSE IF a.precedence = "true" THEN "pass" ELSE "pending"

Existence(a) == IF Confirmed(a) THEN "pass" ELSE "pending"

Report(existence, precedes) ==
  /\ suites' = [suites EXCEPT !["anchoring_existence"] = existence,
                              !["anchoring_precedence"] = precedes]
  /\ board_pc' = "conclude"
  /\ UNCHANGED <<worldVars, anchor_ep, row>>

\* No anchor in the block: an endpoint without the slot fails, one that left
\* it empty on this call is pending.
AnchorAbsent ==
  /\ board_pc = "anchor"
  /\ anchor_ep = NoAnchor
  /\ IF slot = "undeclared" THEN Report("fail", "not_assessable")
                            ELSE Report("pending", "pending")

\* The anchor is in the block, or fetched now; that may fail.
AnchorInline ==
  /\ board_pc = "anchor"
  /\ anchor_ep \in Anchor
  /\ Report(Existence(anchor_ep), Precedence(anchor_ep))

FetchAnchor(a) ==
  /\ board_pc = "anchor"
  /\ anchor_ep = AtUrl
  /\ Report(Existence(a), Precedence(a))

\* chain_invariant: the two references are equal or not, or not both exposed.
ChainStates == {"pass", "fail", "not_provided"}

\* (mutant) What is not broken passes.
OverallNotFailed(ss) ==
  IF \E s \in Suites : ss[s] = "fail" THEN "fail" ELSE "pass"

Overall(ss) ==
  IF \A s \in Suites : ss[s] = "pass" THEN "pass"
  ELSE IF \E s \in Suites : ss[s] = "fail" THEN "fail" ELSE "partial"

Conclude(chain) ==
  /\ board_pc = "conclude"
  /\ LET all == [suites EXCEPT !["chain_invariant"] = chain] IN
       row' = [suites |-> all, overall |-> Overall(all)]
  /\ suites' = [s \in Suites |-> "unset"]
  /\ anchor_ep' = NoAnchor
  /\ board_pc' = "idle"
  /\ UNCHANGED worldVars

-----------------------------------------------------------------------------
World == \/ Tick
         \/ \E marked \in BOOLEAN : Submit(marked)
         \/ Confirm
         \/ Outcome
         \/ DeclareOutcome

Referee == \/ \E c \in Canonical, m \in AdmissionCode : FetchGovernance(c, m)
           \/ AnchorAbsent
           \/ AnchorInline
           \/ \E a \in {Answer(w) : w \in Words} \union {Unreachable} : FetchAnchor(a)
           \/ \E c \in ChainStates : Conclude(c)

BoardNext == World \/ Referee

BoardSpec == BoardInit /\ [][BoardNext]_boardVars

-----------------------------------------------------------------------------
(* Properties *)

\* The endpoint has words for an anchor in flight that contain "confirmed", and
\* has one to say them of: run() takes such a word for a confirmation.
Misread == kind = "ots" /\ submitted # NoTime /\ Containing # {}

\* What a row of the board says is so, by whatever grammar the endpoint has and
\* however the block, the outcome, the mapping's knowledge of it and the two
\* fetches of run() interleaved: the commitment exists only when an external
\* clock confirmed it, or when the endpoint's word for one that was submitted is
\* misread (InFlightIsNotExistence shows that this happens, against the comment
\* in run()); it came first only if it was submitted before the outcome, misread
\* or not; and the row passes as a whole only with nothing left unchecked.
PassIsOrdered ==
  row # NoRow =>
    /\ row.suites["anchoring_existence"] = "pass" => block # NoTime \/ Misread
    /\ row.suites["anchoring_precedence"] = "pass" => (block # NoTime \/ Misread) /\ forward
    /\ row.overall = "pass" =>
         (block # NoTime \/ Misread) /\ forward /\ row.suites["admission_invariant"] = "pass"

\* A row that says the commitment came too late is never followed by one that
\* says it came first: what a later run learns (a confirmation, the time of the
\* outcome) may settle what was pending and never clears a failure.
LateIsFinal ==
  [][ /\ row # NoRow
      /\ row.suites["anchoring_precedence"] = "fail"
      => row'.suites["anchoring_precedence"] # "pass" ]_row

\* Comment in run(): "existence is confirmed when the mechanism says so
\* explicitly ... OR when a real EXTERNAL block time is populated and no status
\* word marks it still in flight"; "unconfirmed" is one of those words.
InFlightIsNotExistence ==
  row # NoRow /\ row.suites["anchoring_existence"] = "pass" => block # NoTime
=============================================================================
