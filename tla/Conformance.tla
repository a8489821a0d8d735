---------------------------- MODULE Conformance ----------------------------
(***************************************************************************)
(* The conformance bar: a governed run (an action is proposed, judged by a *)
(* signed verdict, the verdict is stamped by an external clock, the action *)
(* is executed) is written down as a portable fixture, the fixture may be  *)
(* edited, and two checkers written independently, verifier.py and         *)
(* tools/independent_checker_js/verify.js, each evaluate the five joined   *)
(* suites in order; run_conformance.py / .js hold the verdict against the  *)
(* fixture's declared expectation.                                         *)
(*                                                                         *)
(* Hashes and signatures are terms over what they cover; only the holder   *)
(* of a trusted key signs with it. A stamp is made of a verdict that       *)
(* exists (generate_fixtures.py stamps the id of the signed event).        *)
(***************************************************************************)
EXTENDS Integers, FiniteSets

CONSTANTS
  Key,       \* signing keys
  Trusted,   \* trust_policy.independent_verifier_pubkeys
  Actor,     \* the actor's key
  Envelope,  \* canonical envelopes
  Absent,    \* a field that is not there
  MaxTime,   \* bound: the clock
  MaxSigned, \* bound: verdicts signed in the run
  MaxStamps, \* bound: stamps made in the run
  MaxEdits   \* bound: edits made to the fixture

ASSUME KeyAssumption ==
  /\ Trusted \subseteq Key
  /\ Actor \in Key \ Trusted
  /\ Absent \notin Key \union Int

ASSUME ConformanceBounds ==
  MaxTime \in Nat /\ MaxSigned \in Nat /\ MaxStamps \in Nat /\ MaxEdits \in Nat

Time == 0..MaxTime

sha256(e)        == <<"sha256", e>>
Hash             == {sha256(e) : e \in Envelope}
action_ref(hh)   == <<"act", hh>>
Ref              == {action_ref(hh) : hh \in Hash} \union {Absent}

\* A field that is not there is not an action reference.
ASSUME TermAssumption == \A hh \in Hash : action_ref(hh) # Absent

\* nostr_event_id over the signed fields; content is the bound artifact_hash.
event_id(k, hh)  == <<"id", k, hh>>
sign(k, i)       == <<"sig", k, i>>

EventId == {event_id(k, hh) : k \in Key, hh \in Hash}
Event   == [pubkey : Key, content : Hash, id : EventId,
            sig : {sign(k, i) : k \in Key, i \in EventId}]

\* sign_admission(): the event key k signs over envelope hash hh.
Signed(k, hh) == [pubkey |-> k, content |-> hh, id |-> event_id(k, hh),
                  sig |-> sign(k, event_id(k, hh))]

NoAnchor == [commitment_digest |-> Absent]
Anchor == [commitment_digest : EventId, block_time : Time \union {Absent},
           terminal_outcome_time : Time, precedence : {"false", "unspecified"}]

Suites == {"canonical_envelope", "chain_invariant", "admission_invariant",
           "anchoring_existence", "anchoring_precedence"}
Order  == <<"canonical_envelope", "chain_invariant", "admission_invariant",
            "anchoring_existence", "anchoring_precedence">>

ok == "ok"
Raised == "raised"
Unset == "unset"
NotAssessable == "not_assessable"

\* The failure codes, and what a generated fixture may declare (ok: "pass").
Codes == {"envelope_hash_mismatch", "chain_join_failed",
          "admission_signature_invalid", "verdict_binding_failed",
          "admission_not_independent", "key_different_but_identity_unproven",
          "ordering_unanchored", "anchor_commitment_mismatch",
          "existence_only_anchor", "late_commitment"}

Fixture == [bytes : Envelope, expected_envelope_hash : Hash,
            pre_hash : Hash, pre_ref : Ref, actor : Key \union {Absent},
            executed_hash : Hash, term_ref : Ref, term_time : Time,
            event : Event, anchor : Anchor \union {NoAnchor},
            expected : Codes \union {ok}]

Checker == {"py", "js"}

VARIABLES
  now,       \* the clock
  proposed,  \* the pre-action record's envelope, or Absent
  verdicts,  \* verdicts signed so far, with the time
  stamps,    \* external stamps made so far: event id and block time
  outcome,   \* time of the terminal outcome, or Absent
  fx,        \* the fixture, or Absent
  edits,     \* edits made to it
  pos,       \* per checker: number of suites evaluated
  suites,    \* per checker: the code reported for each suite
  reason,    \* per checker: failure_reason (ok: overall_pass), Unset or Raised
  bar        \* per checker: did its runner accept the fixture

runVars   == <<now, proposed, verdicts, stamps, outcome>>
fxVars    == <<fx, edits>>
checkVars == <<pos, suites, reason, bar>>
vars      == <<runVars, fxVars, checkVars>>

TypeOK ==
  /\ now \in Time
  /\ proposed \in Envelope \union {Absent}
  /\ verdicts \in SUBSET [event : Event, time : Time]
  /\ stamps \in SUBSET [id : EventId, time : Time]
  /\ outcome \in Time \union {Absent}
  /\ fx \in Fixture \union {Absent}
  /\ edits \in 0..MaxEdits
  /\ pos \in [Checker -> 0..5]
  /\ suites \in [Checker -> [Suites -> Codes \union {ok, NotAssessable, Unset}]]
  /\ reason \in [Checker -> Codes \union {ok, Unset, Raised}]
  /\ bar \in [Checker -> {"open", "met", "not_met"}]

Init ==
  /\ now = 0
  /\ proposed = Absent
  /\ verdicts = {}
  /\ stamps = {}
  /\ outcome = Absent
  /\ fx = Absent
  /\ edits = 0
  /\ pos = [c \in Checker |-> 0]
  /\ suites = [c \in Checker |-> [s \in Suites |-> Unset]]
  /\ reason = [c \in Checker |-> Unset]
  /\ bar = [c \in Checker |-> "open"]

-----------------------------------------------------------------------------
(* The governed run *)

Tick ==
  /\ fx = Absent
  /\ now < MaxTime
  /\ now' = now + 1
  /\ UNCHANGED <<proposed, verdicts, stamps, outcome, fxVars, checkVars>>

Propose(e) ==
  /\ proposed = Absent
  /\ proposed' = e
  /\ UNCHANGED <<now, verdicts, stamps, outcome, fxVars, checkVars>>

SignVerdict(k, e) ==
  /\ fx = Absent
  /\ proposed # Absent
  /\ Cardinality(verdicts) < MaxSigned
  /\ verdicts' = verdicts \union {[event |-> Signed(k, sha256(e)), time |-> now]}
  /\ UNCHANGED <<now, proposed, stamps, outcome, fxVars, checkVars>>

Stamp(v) ==
  /\ fx = Absent
  /\ Cardinality(stamps) < MaxStamps
  /\ stamps' = stamps \union {[id |-> v.event.id, time |-> now]}
  /\ UNCHANGED <<now, proposed, verdicts, outcome, fxVars, checkVars>>

Execute ==
  /\ proposed # Absent
  /\ outcome = Absent
  /\ outcome' = now
  /\ UNCHANGED <<now, proposed, verdicts, stamps, fxVars, checkVars>>

-----------------------------------------------------------------------------
(* The fixture *)

\* anchor_layer(): a stamp of the verdict, beside the time of the outcome.
AnchorOf(st, precedence) ==
  [commitment_digest |-> st.id, block_time |-> st.time,
   terminal_outcome_time |-> outcome, precedence |-> precedence]

\* canonical_envelope_layer(), chain_layer(), admission_layer() and an anchor.
Layers(v, anchor, expected) ==
  LET hh == sha256(proposed) IN
  [bytes |-> proposed, expected_envelope_hash |-> hh,
   pre_hash |-> hh, pre_ref |-> action_ref(hh), actor |-> Actor,
   executed_hash |-> hh, term_ref |-> action_ref(hh), term_time |-> outcome,
   event |-> v.event, anchor |-> anchor, expected |-> expected]

StampsOf(v, when) ==
  {st \in stamps : /\ st.id = v.event.id
                   /\ IF when = "before" THEN st.time < outcome
                                         ELSE st.time >= outcome}

\* main(): the verdict each kind of fixture is made with.
Admits(v, expected) ==
  CASE expected = "verdict_binding_failed" ->
         v.event.pubkey \in Trusted /\ v.event.content # sha256(proposed)
    [] expected = "admission_not_independent" ->
         v.event = Signed(Actor, sha256(proposed))
    [] expected = "key_different_but_identity_unproven" ->
         /\ v.event.pubkey \notin Trusted \union {Actor}
         /\ v.event.content = sha256(proposed)
    [] OTHER ->
         v.event.pubkey \in Trusted /\ v.event.content = sha256(proposed)

\* main(): and the anchor; negative_existence_only_anchor.json is the one
\* fixture kept by hand.
Anchors(v, expected) ==
  CASE expected = "ordering_unanchored"   -> {NoAnchor}
    [] expected = "late_commitment"       ->
         {AnchorOf(st, "unspecified") : st \in StampsOf(v, "after")}
    [] expected = "existence_only_anchor" ->
         {AnchorOf(st, "false") : st \in StampsOf(v, "before")}
    [] OTHER ->
         {AnchorOf(st, "unspecified") : st \in StampsOf(v, "before")}

Generated == {ok, "verdict_binding_failed", "admission_not_independent",
              "key_different_but_identity_unproven", "late_commitment",
              "ordering_unanchored", "existence_only_anchor"}

Generate(v, expected) ==
  /\ fx = Absent
  /\ outcome # Absent
  /\ Admits(v, expected)
  /\ \E a \in Anchors(v, expected) : fx' = Layers(v, a, expected)
  /\ edits' = 0
  /\ UNCHANGED <<runVars, checkVars>>

\* What one edit by somebody without a trusted key can make of fixture f: a
\* field is changed or dropped, or the verdict is replaced by another event
\* (one of the run's, or one signed with a key of the editor's own).
Variants(f) ==
  {[f EXCEPT !.bytes = e] : e \in Envelope}
  \union {[f EXCEPT !.expected_envelope_hash = hh] : hh \in Hash}
  \union {[f EXCEPT !.pre_hash = hh] : hh \in Hash}
  \union {[f EXCEPT !.executed_hash = hh] : hh \in Hash}
  \union {[f EXCEPT !.pre_ref = r] : r \in Ref}
  \union {[f EXCEPT !.term_ref = r] : r \in Ref}
  \union {[f EXCEPT !.actor = k] : k \in Key \union {Absent}}
  \union {[f EXCEPT !.event.content = hh] : hh \in Hash}
  \union {[f EXCEPT !.event.pubkey = k] : k \in Key}
  \union {[f EXCEPT !.event = v.event] : v \in verdicts}
  \union {[f EXCEPT !.event = Signed(k, hh)] : k \in Key \ Trusted, hh \in Hash}
  \union {[f EXCEPT !.anchor = a] :
            a \in {NoAnchor} \union
                  (IF f.anchor = NoAnchor THEN {}
                   ELSE {[f.anchor EXCEPT !.commitment_digest = f.event.id]}
                        \union {[f.anchor EXCEPT !.block_time = t] :
                                  t \in Time \union {Absent}}
                        \union {[f.anchor EXCEPT !.terminal_outcome_time = t] :
                                  t \in Time})}

Edit(f) ==
  /\ edits < MaxEdits
  /\ pos = [c \in Checker |-> 0]
  /\ f # fx
  /\ fx' = f
  /\ edits' = edits + 1
  /\ UNCHANGED <<runVars, checkVars>>

-----------------------------------------------------------------------------
(* verifier.py *)

EnvelopeHash == sha256(fx.bytes)

PyCanonical ==
  IF EnvelopeHash = fx.expected_envelope_hash THEN ok ELSE "envelope_hash_mismatch"

\* The three comparisons short-circuit; an absent action_ref is a KeyError.
PyChain ==
  IF fx.pre_hash # EnvelopeHash \/ fx.executed_hash # EnvelopeHash
  THEN "chain_join_failed"
  ELSE IF Absent \in {fx.pre_ref, fx.term_ref} THEN Raised
  ELSE IF fx.pre_ref = fx.term_ref THEN ok ELSE "chain_join_failed"

\* _event_signature_valid()
SignatureValid(ev) ==
  ev.id = event_id(ev.pubkey, ev.content) /\ ev.sig = sign(ev.pubkey, ev.id)

\* (mutant) The signer is looked up in the trust policy before the actor's key.
PyAdmissionNoActor ==
  IF fx.actor = Absent THEN Raised
  ELSE IF ~SignatureValid(fx.event) THEN "admission_signature_invalid"
  ELSE IF fx.event.content # EnvelopeHash THEN "verdict_binding_failed"
  ELSE IF fx.event.pubkey \notin Trusted THEN "key_different_but_identity_unproven"
  ELSE IF fx.event.pubkey = fx.actor THEN "admission_not_independent"
  ELSE ok

PyAdmission ==
  IF fx.actor = Absent THEN Raised
  ELSE IF ~SignatureValid(fx.event) THEN "admission_signature_invalid"
  ELSE IF fx.event.content # EnvelopeHash THEN "verdict_binding_failed"
  ELSE IF fx.event.pubkey = fx.actor THEN "admission_not_independent"
  ELSE IF fx.event.pubkey \notin Trusted THEN "key_different_but_identity_unproven"
  ELSE ok

\* (mutant) Any anchor will do, whatever it commits to.
PyExistenceAnyAnchor ==
  IF fx.anchor = NoAnchor THEN "ordering_unanchored" ELSE ok

PyExistence ==
  IF fx.anchor = NoAnchor THEN "ordering_unanchored"
  ELSE IF fx.anchor.commitment_digest # fx.event.id THEN "anchor_commitment_mismatch"
  ELSE ok

PyPrecedence ==
  IF PyExistence # ok THEN NotAssessable
  ELSE IF fx.anchor.precedence = "false" THEN "existence_only_anchor"
  ELSE IF fx.anchor.block_time = Absent THEN Raised
  ELSE IF fx.anchor.block_time >= fx.anchor.terminal_outcome_time
       THEN "late_commitment" ELSE ok

-----------------------------------------------------------------------------
(* verify.js: a field that is not there is undefined, equal to itself and to *)
(* nothing else, and not >= anything.                                        *)

JsCanonical ==
  IF EnvelopeHash = fx.expected_envelope_hash THEN ok ELSE "envelope_hash_mismatch"

JsChain ==
  IF /\ fx.pre_hash = EnvelopeHash
     /\ fx.executed_hash = EnvelopeHash
     /\ fx.pre_ref = fx.term_ref
  THEN ok ELSE "chain_join_failed"

JsAdmission ==
  IF ~SignatureValid(fx.event) THEN "admission_signature_invalid"
  ELSE IF fx.event.content # EnvelopeHash THEN "verdict_binding_failed"
  ELSE IF fx.event.pubkey = fx.actor THEN "admission_not_independent"
  ELSE IF fx.event.pubkey \notin Trusted THEN "key_different_but_identity_unproven"
  ELSE ok

JsExistence ==
  IF fx.anchor = NoAnchor THEN "ordering_unanchored"
  ELSE IF fx.anchor.commitment_digest # fx.event.id THEN "anchor_commitment_mismatch"
  ELSE ok

\* (mutant) An anchor accepted at the time of the outcome is early enough.
JsPrecedenceAtOutcome ==
  IF JsExistence # ok THEN NotAssessable
  ELSE IF fx.anchor.precedence = "false" THEN "existence_only_anchor"
  ELSE IF fx.anchor.block_time = Absent THEN ok
  ELSE IF fx.anchor.block_time > fx.anchor.terminal_outcome_time
       THEN "late_commitment" ELSE ok

JsPrecedence ==
  IF JsExistence # ok THEN NotAssessable
  ELSE IF fx.anchor.precedence = "false" THEN "existence_only_anchor"
  ELSE IF fx.anchor.block_time = Absent THEN ok
  ELSE IF fx.anchor.block_time >= fx.anchor.terminal_outcome_time
       THEN "late_commitment" ELSE ok

-----------------------------------------------------------------------------
Code(c, s) ==
  CASE s = "canonical_envelope"   -> IF c = "py" THEN PyCanonical  ELSE JsCanonical
    [] s = "chain_invariant"      -> IF c = "py" THEN PyChain      ELSE JsChain
    [] s = "admission_invariant"  -> IF c = "py" THEN PyAdmission  ELSE JsAdmission
    [] s = "anchoring_existence"  -> IF c = "py" THEN PyExistence  ELSE JsExistence
    [] s = "anchoring_precedence" -> IF c = "py" THEN PyPrecedence ELSE JsPrecedence

\* One suite; an exception ends the checker and its runner.
CheckSuite(c) ==
  /\ fx # Absent
  /\ reason[c] = Unset
  /\ pos[c] < 5
  /\ LET s == Order[pos[c] + 1] IN
       IF Code(c, s) = Raised
       THEN reason' = [reason EXCEPT ![c] = Raised] /\ UNCHANGED <<pos, suites>>
       ELSE /\ suites' = [suites EXCEPT ![c][s] = Code(c, s)]
            /\ pos' = [pos EXCEPT ![c] = @ + 1]
            /\ UNCHANGED reason
  /\ UNCHANGED <<runVars, fxVars, bar>>

Broken(c) == {s \in Suites : suites[c][s] \in Codes}

\* failure_reason: the first hard failure in the order of the suites.
FirstFail(c) ==
  LET bad == {i \in 1..5 : Order[i] \in Broken(c)}
  IN  IF bad = {} THEN ok
      ELSE suites[c][Order[CHOOSE i \in bad : \A j \in bad : i <= j]]

Conclude(c) ==
  /\ pos[c] = 5
  /\ reason[c] = Unset
  /\ reason' = [reason EXCEPT ![c] = FirstFail(c)]
  /\ UNCHANGED <<runVars, fxVars, pos, suites, bar>>

\* overall_pass: every suite passed, so one that was not assessable is no pass.
OverallPass(c) == reason[c] \notin {Unset, Raised} /\ \A s \in Suites : suites[c][s] = ok

\* The runner's three tests, in its order.
MeetsBar(c) ==
  /\ OverallPass(c) = (fx.expected = ok)
  /\ fx.expected # ok => /\ reason[c] = fx.expected
                         /\ Cardinality(Broken(c)) = 1

Judge(c) ==
  /\ reason[c] \notin {Unset, Raised}
  /\ bar[c] = "open"
  /\ bar' = [bar EXCEPT ![c] = IF MeetsBar(c) THEN "met" ELSE "not_met"]
  /\ UNCHANGED <<runVars, fxVars, pos, suites, reason>>

-----------------------------------------------------------------------------
Run ==
  \/ Tick
  \/ \E e \in Envelope : Propose(e) \/ \E k \in Key : SignVerdict(k, e)
  \/ \E v \in verdicts : Stamp(v)
  \/ Execute

Holder ==
  \/ \E v \in verdicts, x \in Generated : Generate(v, x)
  \/ fx # Absent /\ \E f \in Variants(fx) : Edit(f)

\* The Python job runs first; the two share nothing but the fixture.
Turn(c) == c = "js" => reason["py"] = Raised \/ bar["py"] # "open"

Check ==
  \E c \in Checker : Turn(c) /\ (CheckSuite(c) \/ Conclude(c) \/ Judge(c))

Next == Run \/ Holder \/ Check

Spec == Init /\ [][Next]_vars

-----------------------------------------------------------------------------
(* Properties *)

\* README: "The receipt chain proves what ran. The admission record proves a
\* party that isn't the actor approved it. The anchor proves the approval came
\* first." For a fixture whose two declared inputs are true (the anchor point
\* is one the clock gave for this verdict, and the outcome's time is the
\* outcome's), whatever else was edited: if either checker lets it pass, then a
\* trusted party signed this envelope in the run, and before the outcome.
PassMeansGoverned ==
  \A c \in Checker :
    ( /\ OverallPass(c)
      /\ [id |-> fx.anchor.commitment_digest, time |-> fx.anchor.block_time] \in stamps
      /\ fx.anchor.terminal_outcome_time = outcome )
    => \E v \in verdicts :
         /\ v.event.pubkey \in Trusted
         /\ v.event.content = sha256(fx.bytes)
         /\ v.time < outcome

\* A fixture as generated meets the bar in both languages: it fails where it
\* says, nowhere else, and the positive one passes, wherever in the run the
\* verdict, the stamp and the outcome fell.
GeneratedMeetsBar ==
  edits = 0 => \A c \in Checker : reason[c] # Raised /\ bar[c] # "not_met"

\* Where both checkers return, they agree on every suite and on the reason.
CheckersAgree ==
  reason["py"] \notin {Unset, Raised} /\ reason["js"] \notin {Unset, Raised}
  => suites["py"] = suites["js"] /\ reason["py"] = reason["js"]

=============================================================================
