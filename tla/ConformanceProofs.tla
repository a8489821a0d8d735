------------------------- MODULE ConformanceProofs -------------------------
(***************************************************************************)
(* What a pass under verifier.py or verify.js proves of the governed run,  *)
(* that the two checkers agree, and that a generated fixture meets the bar:*)
(* for all keys, envelopes, clocks, runs and edits.                        *)
(***************************************************************************)
EXTENDS Conformance, FiniteSetTheorems, TLAPS

-----------------------------------------------------------------------------
(* The inductive invariant *)

\* The run: a fixture is written after the outcome of a proposed action.
RunInv ==
  /\ now \in Time
  /\ proposed \in Envelope \union {Absent}
  /\ outcome \in Time \union {Absent}
  /\ outcome # Absent => proposed # Absent
  /\ fx # Absent => outcome # Absent

\* A verdict is an event somebody signed over an envelope.
VerdictInv ==
  \A v \in verdicts :
    /\ v \in [event : Event, time : Time]
    /\ v.time <= now
    /\ \E k \in Key, e \in Envelope : v.event = Signed(k, sha256(e))

\* A stamp is one of a verdict that existed by then.
StampInv ==
  \A st \in stamps :
    /\ st \in [id : EventId, time : Time]
    /\ \E v \in verdicts : v.event.id = st.id /\ v.time <= st.time

\* A fixture nobody edited is one main() writes, for the verdict and the anchor of
\* its kind.
GenInv ==
  /\ edits \in 0..MaxEdits
  /\ fx \in Fixture \union {Absent}
  /\ edits = 0 /\ fx # Absent =>
       \E v \in verdicts, x \in Generated :
         /\ Admits(v, x)
         /\ \E a \in Anchors(v, x) : fx = Layers(v, a, x)

ShapeInv ==
  /\ pos \in [Checker -> 0..5]
  /\ suites \in [Checker -> [Suites -> Codes \union {ok, NotAssessable, Unset}]]
  /\ reason \in [Checker -> Codes \union {ok, Unset, Raised}]
  /\ bar \in [Checker -> {"open", "met", "not_met"}]

\* What a checker has reported is its own code for the fixture as it is now.
CheckInv ==
  \A c \in Checker :
    /\ pos[c] # 0 => fx # Absent
    /\ reason[c] # Unset => pos[c] # 0
    /\ \A i \in 1..5 : i <= pos[c] => /\ suites[c][Order[i]] = Code(c, Order[i])
                                      /\ Code(c, Order[i]) # Raised
    /\ reason[c] \notin {Unset, Raised} => pos[c] = 5 /\ reason[c] = FirstFail(c)
    /\ bar[c] # "open" => reason[c] \notin {Unset, Raised}

IInv == RunInv /\ VerdictInv /\ StampInv /\ GenInv /\ ShapeInv /\ CheckInv /\ GeneratedMeetsBar

-----------------------------------------------------------------------------
(* Terms and suites *)

\* An event id names the key and the hash it covers, and a hash its envelope.
LEMMA TermsDiffer ==
  /\ \A k, l, g, h : event_id(k, g) = event_id(l, h) => k = l /\ g = h
  /\ \A e, f : sha256(e) = sha256(f) => e = f
BY DEF event_id, sha256

\* What sign_admission() makes is an event, and its signature is valid.
LEMMA SignedEvent ==
  ASSUME NEW k \in Key, NEW h \in Hash
  PROVE  /\ Signed(k, h) \in Event
         /\ Signed(k, h).pubkey = k
         /\ Signed(k, h).content = h
         /\ Signed(k, h).id = event_id(k, h)
         /\ SignatureValid(Signed(k, h))
<1>1. event_id(k, h) \in EventId
  BY DEF EventId
<1>2. sign(k, event_id(k, h)) \in {sign(l, i) : l \in Key, i \in EventId}
  BY <1>1
<1>3. QED BY <1>1, <1>2 DEF Signed, Event, SignatureValid

\* The order of the suites.
LEMMA OrderFacts ==
  /\ Order[1] = "canonical_envelope" /\ Order[2] = "chain_invariant"
  /\ Order[3] = "admission_invariant" /\ Order[4] = "anchoring_existence"
  /\ Order[5] = "anchoring_precedence"
  /\ \A i \in 1..5 : Order[i] \in Suites
  /\ \A i, j \in 1..5 : Order[i] = Order[j] => i = j
  /\ \A s \in Suites : \E i \in 1..5 : s = Order[i]
<1>1. /\ Order[1] = "canonical_envelope" /\ Order[2] = "chain_invariant"
      /\ Order[3] = "admission_invariant" /\ Order[4] = "anchoring_existence"
      /\ Order[5] = "anchoring_precedence"
  BY DEF Order
<1>2. \A i \in 1..5 : i = 1 \/ i = 2 \/ i = 3 \/ i = 4 \/ i = 5
  OBVIOUS
<1>3. /\ \A i \in 1..5 : Order[i] \in Suites
      /\ \A i, j \in 1..5 : Order[i] = Order[j] => i = j
  BY <1>1, <1>2 DEF Suites
<1>4. 1 \in 1..5 /\ 2 \in 1..5 /\ 3 \in 1..5 /\ 4 \in 1..5 /\ 5 \in 1..5
  OBVIOUS
<1>5. \A s \in Suites : \E i \in 1..5 : s = Order[i]
  BY <1>1, <1>4, Zenon DEF Suites
<1>6. QED BY <1>1, <1>3, <1>5

\* The code of each suite, by checker.
LEMMA CodeOf ==
  ASSUME NEW c \in Checker
  PROVE  /\ Code(c, "canonical_envelope") = (IF c = "py" THEN PyCanonical ELSE JsCanonical)
         /\ Code(c, "chain_invariant") = (IF c = "py" THEN PyChain ELSE JsChain)
         /\ Code(c, "admission_invariant") = (IF c = "py" THEN PyAdmission ELSE JsAdmission)
         /\ Code(c, "anchoring_existence") = (IF c = "py" THEN PyExistence ELSE JsExistence)
         /\ Code(c, "anchoring_precedence") = (IF c = "py" THEN PyPrecedence ELSE JsPrecedence)
BY DEF Code

\* A suite fails with one of the failure codes, passes, is not assessable, or raises;
\* the first one never raises.
LEMMA CodeType ==
  ASSUME NEW c \in Checker
  PROVE  /\ \A s \in Suites : Code(c, s) \in Codes \union {ok, NotAssessable, Raised}
         /\ Code(c, "canonical_envelope") # Raised
         /\ Raised \notin Codes \union {ok, NotAssessable, Unset}
<1>1. /\ PyCanonical \in {ok, "envelope_hash_mismatch"}
      /\ JsCanonical \in {ok, "envelope_hash_mismatch"}
  BY DEF PyCanonical, JsCanonical
<1>2. PyChain \in {ok, Raised, "chain_join_failed"} /\ JsChain \in {ok, "chain_join_failed"}
  BY DEF PyChain, JsChain
<1>3. /\ PyAdmission \in Codes \union {ok, Raised}
      /\ JsAdmission \in Codes \union {ok}
  BY DEF PyAdmission, JsAdmission, Codes
<1>4. /\ PyExistence \in {ok, "ordering_unanchored", "anchor_commitment_mismatch"}
      /\ JsExistence \in {ok, "ordering_unanchored", "anchor_commitment_mismatch"}
  BY DEF PyExistence, JsExistence
<1>5. /\ PyPrecedence \in {ok, NotAssessable, Raised, "existence_only_anchor", "late_commitment"}
      /\ JsPrecedence \in {ok, NotAssessable, "existence_only_anchor", "late_commitment"}
  BY DEF PyPrecedence, JsPrecedence
<1>6. Raised \notin Codes \union {ok, NotAssessable, Unset}
  BY DEF Raised, Codes, ok, NotAssessable, Unset
<1>7. Code(c, "canonical_envelope") # Raised
  BY <1>1, CodeOf DEF Raised, ok
<1>8. \A s \in Suites : Code(c, s) \in Codes \union {ok, NotAssessable, Raised}
  BY <1>1, <1>2, <1>3, <1>4, <1>5, CodeOf DEF Suites, Codes
<1>9. QED BY <1>6, <1>7, <1>8

\* Where verifier.py does not raise, verify.js reports the same code.
LEMMA SameCode ==
  ASSUME NEW s \in Suites, Code("py", s) # Raised
  PROVE  Code("py", s) = Code("js", s)
<1>1. "py" \in Checker /\ "js" \in Checker /\ "py" # "js"
  BY DEF Checker
<1>2. PyCanonical = JsCanonical /\ PyExistence = JsExistence
  BY DEF PyCanonical, JsCanonical, PyExistence, JsExistence
<1>3. PyChain # Raised => PyChain = JsChain
  BY DEF PyChain, JsChain
<1>4. PyAdmission # Raised => PyAdmission = JsAdmission
  BY DEF PyAdmission, JsAdmission
<1>5. PyPrecedence # Raised => PyPrecedence = JsPrecedence
  BY <1>2 DEF PyPrecedence, JsPrecedence
<1>6. QED BY <1>1, <1>2, <1>3, <1>4, <1>5, CodeOf DEF Suites

\* failure_reason is ok when nothing is broken, the code of the suite when one is,
\* and a failure code when some are.
LEMMA FirstFailType ==
  ASSUME NEW c \in Checker
  PROVE  FirstFail(c) \in Codes \union {ok}
<1> DEFINE bad == {i \in 1..5 : Order[i] \in Broken(c)}
<1>1. CASE bad = {}
  BY <1>1 DEF FirstFail
<1>2. CASE bad # {}
  <2> DEFINE P(i) == i \in bad /\ \A j \in bad : i <= j
  <2>1. \E i : P(i)
    <3>1. \A i \in bad : i = 1 \/ i = 2 \/ i = 3 \/ i = 4 \/ i = 5
      OBVIOUS
    <3> HIDE DEF bad
    <3>2. \/ 1 \in bad \/ 2 \in bad \/ 3 \in bad \/ 4 \in bad \/ 5 \in bad
      BY <1>2, <3>1
    <3>3. QED BY <3>1, <3>2
  <2> DEFINE m == CHOOSE i \in bad : \A j \in bad : i <= j
  <2>2. m \in bad
    BY <2>1
  <2>3. FirstFail(c) = suites[c][Order[m]]
    BY <1>2 DEF FirstFail
  <2>4. Order[m] \in Broken(c)
    BY <2>2
  <2>5. QED BY <2>3, <2>4 DEF Broken
<1>3. QED BY <1>1, <1>2

\* One broken suite gives the reason.
LEMMA OneBroken ==
  ASSUME NEW c \in Checker, NEW n \in 1..5, Broken(c) = {Order[n]}
  PROVE  /\ FirstFail(c) = suites[c][Order[n]]
         /\ Cardinality(Broken(c)) = 1
<1> DEFINE bad == {i \in 1..5 : Order[i] \in Broken(c)}
<1>1. bad = {n}
  BY OrderFacts
<1>2. (CHOOSE i \in {n} : \A j \in {n} : i <= j) = n
  OBVIOUS
<1>3. FirstFail(c) = suites[c][Order[CHOOSE i \in {n} : \A j \in {n} : i <= j]]
  BY <1>1 DEF FirstFail
<1>4. Cardinality({Order[n]}) = 1
  BY FS_Singleton
<1>5. QED BY <1>2, <1>3, <1>4

-----------------------------------------------------------------------------
(* What the invariant says *)

\* A checker that concluded reported its code for every suite.
LEMMA Reported ==
  ASSUME IInv, NEW c \in Checker, reason[c] \notin {Unset, Raised}
  PROVE  /\ reason[c] = FirstFail(c)
         /\ \A s \in Suites : suites[c][s] = Code(c, s) /\ Code(c, s) # Raised
<1>1. pos[c] = 5 /\ reason[c] = FirstFail(c)
  BY DEF IInv, CheckInv
<1>2. \A i \in 1..5 : i <= pos[c]
  BY <1>1
<1>3. \A i \in 1..5 : suites[c][Order[i]] = Code(c, Order[i]) /\ Code(c, Order[i]) # Raised
  BY <1>2 DEF IInv, CheckInv
<1>4. QED BY <1>1, <1>3, OrderFacts

\* A pass of either checker: a valid signature by a trusted key that is not the
\* actor's over the hash of these bytes, and an anchor of it that is early enough.
LEMMA PassFields ==
  ASSUME IInv, NEW c \in Checker, OverallPass(c)
  PROVE  /\ SignatureValid(fx.event)
         /\ fx.event.content = EnvelopeHash
         /\ fx.event.pubkey \in Trusted
         /\ fx.anchor.commitment_digest = fx.event.id
         /\ fx.anchor.block_time = Absent \/ ~(fx.anchor.block_time >= fx.anchor.terminal_outcome_time)
<1>1. \A s \in Suites : Code(c, s) = ok
  BY Reported DEF OverallPass
<1>2. /\ (IF c = "py" THEN PyAdmission ELSE JsAdmission) = ok
      /\ (IF c = "py" THEN PyExistence ELSE JsExistence) = ok
      /\ (IF c = "py" THEN PyPrecedence ELSE JsPrecedence) = ok
  BY <1>1, CodeOf DEF Suites
<1>3. SignatureValid(fx.event) /\ fx.event.content = EnvelopeHash /\ fx.event.pubkey \in Trusted
  BY <1>2 DEF PyAdmission, JsAdmission, ok, Raised
<1>4. fx.anchor.commitment_digest = fx.event.id
  BY <1>2 DEF PyExistence, JsExistence, ok
<1>5. fx.anchor.block_time = Absent \/ ~(fx.anchor.block_time >= fx.anchor.terminal_outcome_time)
  BY <1>2 DEF PyPrecedence, JsPrecedence, ok, Raised, NotAssessable
<1>6. QED BY <1>3, <1>4, <1>5

\* So a pass proves that a trusted party signed this envelope before the outcome.
LEMMA Governed == IInv => PassMeansGoverned
<1> SUFFICES ASSUME IInv, NEW c \in Checker, OverallPass(c),
                    [id |-> fx.anchor.commitment_digest, time |-> fx.anchor.block_time] \in stamps,
                    fx.anchor.terminal_outcome_time = outcome
             PROVE  \E v \in verdicts : /\ v.event.pubkey \in Trusted
                                        /\ v.event.content = sha256(fx.bytes)
                                        /\ v.time < outcome
  BY DEF PassMeansGoverned
<1> DEFINE st == [id |-> fx.anchor.commitment_digest, time |-> fx.anchor.block_time]
<1>1. /\ SignatureValid(fx.event)
      /\ fx.event.content = EnvelopeHash
      /\ fx.event.pubkey \in Trusted
      /\ fx.anchor.commitment_digest = fx.event.id
      /\ fx.anchor.block_time = Absent \/ ~(fx.anchor.block_time >= fx.anchor.terminal_outcome_time)
  BY PassFields
<1>2. /\ st \in [id : EventId, time : Time]
      /\ \E v \in verdicts : v.event.id = st.id /\ v.time <= st.time
  BY DEF IInv, StampInv
<1>3. st.time \in Time /\ st.time = fx.anchor.block_time /\ st.id = fx.event.id
  BY <1>1, <1>2
<1> HIDE DEF st
<1>4. PICK v \in verdicts : v.event.id = st.id /\ v.time <= st.time
  BY <1>2
<1>5. v.time \in Time /\ \E k \in Key, e \in Envelope : v.event = Signed(k, sha256(e))
  BY DEF IInv, VerdictInv
<1>6. PICK k \in Key, e \in Envelope : v.event = Signed(k, sha256(e))
  BY <1>5
<1>7. v.event.pubkey = k /\ v.event.content = sha256(e) /\ v.event.id = event_id(k, sha256(e))
  BY <1>6 DEF Signed
<1>8. fx.event.id = event_id(fx.event.pubkey, fx.event.content)
  BY <1>1 DEF SignatureValid
<1>9. k = fx.event.pubkey /\ sha256(e) = fx.event.content
  <2>1. event_id(k, sha256(e)) = event_id(fx.event.pubkey, fx.event.content)
    BY <1>3, <1>4, <1>7, <1>8
  <2>2. QED BY <2>1 DEF event_id
<1>10. outcome \in Time
  <2>1. outcome \in Time \union {Absent} /\ (fx # Absent => outcome # Absent)
    BY DEF IInv, RunInv
  <2>2. pos[c] # 0
    BY DEF IInv, CheckInv, OverallPass
  <2>3. fx # Absent
    BY <2>2 DEF IInv, CheckInv
  <2>4. QED BY <2>1, <2>3
<1>11. ~(st.time >= outcome)
  <2>1. st.time # Absent
    BY <1>3, KeyAssumption DEF Time
  <2>2. QED BY <1>1, <1>3, <2>1
<1>12. v.time < outcome
  BY <1>3, <1>4, <1>5, <1>10, <1>11, ConformanceBounds DEF Time
<1>13. QED BY <1>1, <1>7, <1>9, <1>12 DEF EnvelopeHash

\* Where both checkers return, they agree.
LEMMA Agree == IInv => CheckersAgree
<1> SUFFICES ASSUME IInv, reason["py"] \notin {Unset, Raised}, reason["js"] \notin {Unset, Raised}
             PROVE  suites["py"] = suites["js"] /\ reason["py"] = reason["js"]
  BY DEF CheckersAgree
<1>1. "py" \in Checker /\ "js" \in Checker
  BY DEF Checker
<1>2. \A s \in Suites : suites["py"][s] = suites["js"][s]
  BY <1>1, Reported, SameCode
<1>3. suites["py"] = suites["js"]
  <2>1. \A c \in Checker : suites[c] \in [Suites -> Codes \union {ok, NotAssessable, Unset}]
    BY DEF IInv, ShapeInv
  <2>2. QED BY <1>1, <1>2, <2>1
<1>4. FirstFail("py") = FirstFail("js")
  BY <1>3 DEF FirstFail, Broken
<1>5. reason["py"] = FirstFail("py") /\ reason["js"] = FirstFail("js")
  BY <1>1, Reported
<1>6. QED BY <1>3, <1>4, <1>5

-----------------------------------------------------------------------------
(* Generated fixtures *)

\* The anchors a fixture is made with: none, or a stamp of the verdict beside the
\* outcome.
LEMMA AnchorFacts ==
  ASSUME IInv, outcome \in Time, NEW v \in verdicts, NEW x \in Generated, NEW a \in Anchors(v, x)
  PROVE  IF x = "ordering_unanchored" THEN a = NoAnchor
         ELSE /\ a # NoAnchor
              /\ a \in Anchor
              /\ a.commitment_digest = v.event.id
              /\ a.block_time \in Time
              /\ a.terminal_outcome_time = outcome
              /\ a.precedence = (IF x = "existence_only_anchor" THEN "false" ELSE "unspecified")
              /\ IF x = "late_commitment" THEN a.block_time >= outcome
                                          ELSE ~(a.block_time >= outcome)
<1>1. CASE x = "ordering_unanchored"
  BY <1>1 DEF Anchors
<1>2. CASE x # "ordering_unanchored"
  <2> DEFINE when == IF x = "late_commitment" THEN "after" ELSE "before"
             p == IF x = "existence_only_anchor" THEN "false" ELSE "unspecified"
  <2>1. \E st \in StampsOf(v, when) : a = AnchorOf(st, p)
    <3>1. CASE x = "late_commitment"
      BY <1>2, <3>1 DEF Anchors
    <3>2. CASE x = "existence_only_anchor"
      BY <1>2, <3>2 DEF Anchors
    <3>3. CASE x # "late_commitment" /\ x # "existence_only_anchor"
      BY <1>2, <3>3 DEF Anchors
    <3>4. QED BY <3>1, <3>2, <3>3
  <2>2. PICK st \in StampsOf(v, when) : a = AnchorOf(st, p)
    BY <2>1
  <2>3. st \in stamps /\ st.id = v.event.id /\ (IF when = "before" THEN st.time < outcome ELSE st.time >= outcome)
    BY DEF StampsOf
  <2>4. st.id \in EventId /\ st.time \in Time
    BY <2>3 DEF IInv, StampInv
  <2>5. /\ a.commitment_digest = st.id /\ a.block_time = st.time
        /\ a.terminal_outcome_time = outcome /\ a.precedence = p
        /\ a = [commitment_digest |-> st.id, block_time |-> st.time,
                terminal_outcome_time |-> outcome, precedence |-> p]
    BY <2>2 DEF AnchorOf
  <2>6. a # NoAnchor
    <3>1. "block_time" \in DOMAIN a
      BY <2>5
    <3>2. "block_time" \notin DOMAIN NoAnchor
      BY DEF NoAnchor
    <3>3. QED BY <3>1, <3>2
  <2>7. p \in {"false", "unspecified"}
    OBVIOUS
  <2>8. a \in Anchor
    <3> HIDE DEF p
    <3> QED BY <2>4, <2>5, <2>7 DEF Anchor
  <2>9. IF x = "late_commitment" THEN st.time >= outcome ELSE ~(st.time >= outcome)
    <3>1. IF x = "late_commitment" THEN st.time >= outcome ELSE st.time < outcome
      BY <2>3
    <3>2. QED BY <2>4, <3>1, ConformanceBounds DEF Time
  <2>10. QED BY <1>2, <2>3, <2>4, <2>5, <2>6, <2>8, <2>9
<1>3. QED BY <1>1, <1>2

\* The verdicts a fixture is made with.
LEMMA VerdictFacts ==
  ASSUME IInv, NEW v \in verdicts, NEW x \in Generated, Admits(v, x)
  PROVE  /\ v.event \in Event /\ SignatureValid(v.event)
         /\ x = "verdict_binding_failed" => v.event.content # sha256(proposed)
         /\ x # "verdict_binding_failed" => v.event.content = sha256(proposed)
         /\ x = "admission_not_independent" => v.event.pubkey = Actor
         /\ x = "key_different_but_identity_unproven" => v.event.pubkey \notin Trusted \union {Actor}
         /\ x \notin {"admission_not_independent", "key_different_but_identity_unproven"} =>
              v.event.pubkey \in Trusted /\ v.event.pubkey # Actor
<1>1. v \in [event : Event, time : Time] /\ \E k \in Key, e \in Envelope : v.event = Signed(k, sha256(e))
  BY DEF IInv, VerdictInv
<1>2. PICK k \in Key, e \in Envelope : v.event = Signed(k, sha256(e))
  BY <1>1
<1>3. v.event \in Event /\ SignatureValid(v.event)
  <2>1. sha256(e) \in Hash
    BY DEF Hash
  <2>2. QED BY <1>2, <2>1, SignedEvent
<1>4. CASE x = "verdict_binding_failed"
  BY <1>3, <1>4, KeyAssumption DEF Admits
<1>5. CASE x = "admission_not_independent"
  <2>1. v.event = Signed(Actor, sha256(proposed))
    BY <1>5 DEF Admits
  <2>2. QED BY <1>3, <1>5, <2>1 DEF Signed
<1>6. CASE x = "key_different_but_identity_unproven"
  BY <1>3, <1>6 DEF Admits
<1>7. CASE x \notin {"verdict_binding_failed", "admission_not_independent", "key_different_but_identity_unproven"}
  BY <1>3, <1>7, KeyAssumption DEF Admits
<1>8. QED BY <1>4, <1>5, <1>6, <1>7

\* The codes of a fixture nobody edited, the same in both languages: it fails in the
\* suite it was made for, and passes the others.
LEMMA GeneratedCodes ==
  ASSUME IInv, edits = 0, fx # Absent, NEW c \in Checker
  PROVE  \E x \in Generated :
           /\ fx.expected = x
           /\ Code(c, "canonical_envelope") = ok
           /\ Code(c, "chain_invariant") = ok
           /\ Code(c, "admission_invariant") =
                (IF x \in {"verdict_binding_failed", "admission_not_independent",
                           "key_different_but_identity_unproven"} THEN x ELSE ok)
           /\ Code(c, "anchoring_existence") = (IF x = "ordering_unanchored" THEN x ELSE ok)
           /\ Code(c, "anchoring_precedence") =
                (IF x = "ordering_unanchored" THEN NotAssessable
                 ELSE IF x \in {"late_commitment", "existence_only_anchor"} THEN x ELSE ok)
<1>1. outcome \in Time
  BY DEF IInv, RunInv
<1>2. PICK v \in verdicts, x \in Generated :
        /\ Admits(v, x)
        /\ \E a \in Anchors(v, x) : fx = Layers(v, a, x)
  BY DEF IInv, GenInv
<1>3. PICK a \in Anchors(v, x) : fx = Layers(v, a, x)
  BY <1>2
<1>4. /\ fx.bytes = proposed /\ fx.expected_envelope_hash = sha256(proposed)
      /\ fx.pre_hash = sha256(proposed) /\ fx.executed_hash = sha256(proposed)
      /\ fx.pre_ref = action_ref(sha256(proposed)) /\ fx.term_ref = action_ref(sha256(proposed))
      /\ fx.actor = Actor /\ fx.event = v.event /\ fx.anchor = a /\ fx.expected = x
  BY <1>3 DEF Layers
<1>5. EnvelopeHash = sha256(proposed)
  BY <1>4 DEF EnvelopeHash
<1>6. PyCanonical = ok /\ JsCanonical = ok
  BY <1>4, <1>5 DEF PyCanonical, JsCanonical
<1>7. action_ref(sha256(proposed)) # Absent
  <2>1. proposed \in Envelope
    BY DEF IInv, RunInv
  <2>2. sha256(proposed) \in Hash
    BY <2>1 DEF Hash
  <2>3. QED BY <2>2, TermAssumption
<1>8. PyChain = ok /\ JsChain = ok
  BY <1>4, <1>5, <1>7 DEF PyChain, JsChain
<1>9. Actor # Absent
  BY KeyAssumption
<1> DEFINE adm == IF x \in {"verdict_binding_failed", "admission_not_independent",
                            "key_different_but_identity_unproven"} THEN x ELSE ok
           ex  == IF x = "ordering_unanchored" THEN x ELSE ok
           pre == IF x = "ordering_unanchored" THEN NotAssessable
                  ELSE IF x \in {"late_commitment", "existence_only_anchor"} THEN x ELSE ok
<1>10. PyAdmission = adm /\ JsAdmission = adm
  <2>1. /\ SignatureValid(v.event)
        /\ x = "verdict_binding_failed" => v.event.content # sha256(proposed)
        /\ x # "verdict_binding_failed" => v.event.content = sha256(proposed)
        /\ x = "admission_not_independent" => v.event.pubkey = Actor
        /\ x = "key_different_but_identity_unproven" => v.event.pubkey \notin Trusted \union {Actor}
        /\ x \notin {"admission_not_independent", "key_different_but_identity_unproven"} =>
             v.event.pubkey \in Trusted /\ v.event.pubkey # Actor
    BY <1>2, VerdictFacts
  <2>2. QED BY <1>4, <1>5, <1>9, <2>1 DEF PyAdmission, JsAdmission
<1>11. IF x = "ordering_unanchored" THEN a = NoAnchor
       ELSE /\ a # NoAnchor
            /\ a.commitment_digest = v.event.id
            /\ a.block_time \in Time
            /\ a.terminal_outcome_time = outcome
            /\ a.precedence = (IF x = "existence_only_anchor" THEN "false" ELSE "unspecified")
            /\ IF x = "late_commitment" THEN a.block_time >= outcome
                                        ELSE ~(a.block_time >= outcome)
  BY <1>1, AnchorFacts
<1>12. PyExistence = ex /\ JsExistence = ex
  BY <1>4, <1>11 DEF PyExistence, JsExistence
<1>13. PyPrecedence = pre /\ JsPrecedence = pre
  <2>1. CASE x = "ordering_unanchored"
    BY <1>12, <2>1 DEF PyPrecedence, JsPrecedence, ok
  <2>2. CASE x # "ordering_unanchored"
    <3>1. a.block_time # Absent
      BY <1>11, <2>2, KeyAssumption DEF Time
    <3>2. CASE x = "existence_only_anchor"
      BY <1>4, <1>11, <1>12, <3>2 DEF PyPrecedence, JsPrecedence
    <3>3. CASE x = "late_commitment"
      BY <1>4, <1>11, <1>12, <3>1, <3>3 DEF PyPrecedence, JsPrecedence
    <3>4. CASE x # "existence_only_anchor" /\ x # "late_commitment"
      BY <1>4, <1>11, <1>12, <2>2, <3>1, <3>4 DEF PyPrecedence, JsPrecedence
    <3>5. QED BY <3>2, <3>3, <3>4
  <2>3. QED BY <2>1, <2>2
<1>14. QED BY <1>4, <1>6, <1>8, <1>10, <1>12, <1>13, CodeOf

\* So it meets the bar.
LEMMA GeneratedBar ==
  ASSUME IInv, edits = 0, NEW c \in Checker
  PROVE  /\ fx # Absent => \A s \in Suites : Code(c, s) # Raised
         /\ reason[c] \notin {Unset, Raised} => MeetsBar(c)
<1>1. fx # Absent => \A s \in Suites : Code(c, s) # Raised
  BY GeneratedCodes DEF Suites, Generated, Raised, ok, NotAssessable
<1>2. ASSUME reason[c] \notin {Unset, Raised} PROVE MeetsBar(c)
  <2>1. fx # Absent
    BY <1>2 DEF IInv, CheckInv
  <2>2. PICK x \in Generated :
          /\ fx.expected = x
          /\ Code(c, "canonical_envelope") = ok
          /\ Code(c, "chain_invariant") = ok
          /\ Code(c, "admission_invariant") =
               (IF x \in {"verdict_binding_failed", "admission_not_independent",
                          "key_different_but_identity_unproven"} THEN x ELSE ok)
          /\ Code(c, "anchoring_existence") = (IF x = "ordering_unanchored" THEN x ELSE ok)
          /\ Code(c, "anchoring_precedence") =
               (IF x = "ordering_unanchored" THEN NotAssessable
                ELSE IF x \in {"late_commitment", "existence_only_anchor"} THEN x ELSE ok)
    BY <2>1, GeneratedCodes
  <2>3. reason[c] = FirstFail(c) /\ \A s \in Suites : suites[c][s] = Code(c, s)
    BY <1>2, Reported
  <2>4. Broken(c) = {s \in Suites : Code(c, s) \in Codes}
    BY <2>3 DEF Broken
  <2>5. CASE x = ok
    <3>1. \A s \in Suites : suites[c][s] = ok
      BY <2>2, <2>3, <2>5 DEF Suites, ok
    <3>2. OverallPass(c)
      BY <1>2, <3>1 DEF OverallPass
    <3>3. QED BY <2>2, <2>5, <3>2, Zenon DEF MeetsBar
  <2>6. CASE x # ok
    <3>1. PICK n \in 1..5 : Broken(c) = {Order[n]} /\ Code(c, Order[n]) = x
      <4>1. CASE x \in {"verdict_binding_failed", "admission_not_independent",
                        "key_different_but_identity_unproven"}
        <5>1. Broken(c) = {"admission_invariant"} /\ Code(c, "admission_invariant") = x
          BY <2>2, <2>4, <4>1 DEF Suites, Codes, ok
        <5>2. QED BY <5>1, OrderFacts
      <4>2. CASE x = "ordering_unanchored"
        <5>1. Broken(c) = {"anchoring_existence"} /\ Code(c, "anchoring_existence") = x
          BY <2>2, <2>4, <4>2 DEF Suites, Codes, ok, NotAssessable
        <5>2. QED BY <5>1, OrderFacts
      <4>3. CASE x \in {"late_commitment", "existence_only_anchor"}
        <5>1. Broken(c) = {"anchoring_precedence"} /\ Code(c, "anchoring_precedence") = x
          BY <2>2, <2>4, <4>3 DEF Suites, Codes, ok
        <5>2. QED BY <5>1, OrderFacts
      <4>4. QED BY <2>6, <4>1, <4>2, <4>3 DEF Generated
    <3>2. FirstFail(c) = suites[c][Order[n]] /\ Cardinality(Broken(c)) = 1
      BY <3>1, OneBroken
    <3>3. Order[n] \in Suites
      BY OrderFacts
    <3>4. reason[c] = x
      BY <2>3, <3>1, <3>2, <3>3
    <3>5. ~OverallPass(c)
      BY <2>3, <2>6, <3>1, <3>3 DEF OverallPass
    <3>6. OverallPass(c) = (fx.expected = ok)
      <4>1. OverallPass(c) = FALSE
        BY <3>5 DEF OverallPass
      <4>2. (fx.expected = ok) = FALSE
        BY <2>2, <2>6
      <4>3. QED BY <4>1, <4>2, Zenon
    <3>7. QED BY <2>2, <3>2, <3>4, <3>6, Zenon DEF MeetsBar
  <2>7. QED BY <2>5, <2>6
<1>3. QED BY <1>1, <1>2

-----------------------------------------------------------------------------
(* Types of fixtures *)

\* A generated fixture is one.
LEMMA LayersType ==
  ASSUME IInv, outcome # Absent, NEW v \in verdicts, NEW x \in Generated, Admits(v, x),
         NEW a \in Anchors(v, x)
  PROVE  Layers(v, a, x) \in Fixture
<1>1. outcome \in Time /\ proposed \in Envelope
  BY DEF IInv, RunInv
<1>2. sha256(proposed) \in Hash /\ action_ref(sha256(proposed)) \in Ref
  BY <1>1 DEF Hash, Ref
<1>3. v.event \in Event
  BY VerdictFacts
<1>4. a \in Anchor \union {NoAnchor}
  BY <1>1, AnchorFacts
<1>5. x \in Codes \union {ok} /\ Actor \in Key
  BY KeyAssumption DEF Generated, Codes
<1>6. QED BY <1>1, <1>2, <1>3, <1>4, <1>5 DEF Layers, Fixture

\* So is an edited one.
LEMMA VariantsType ==
  ASSUME IInv, NEW f \in Fixture, NEW g \in Variants(f)
  PROVE  g \in Fixture
<1>1. CASE g \in {[f EXCEPT !.bytes = e] : e \in Envelope}
  BY <1>1 DEF Fixture
<1>2. CASE \/ g \in {[f EXCEPT !.expected_envelope_hash = hh] : hh \in Hash}
           \/ g \in {[f EXCEPT !.pre_hash = hh] : hh \in Hash}
           \/ g \in {[f EXCEPT !.executed_hash = hh] : hh \in Hash}
  BY <1>2 DEF Fixture
<1>3. CASE \/ g \in {[f EXCEPT !.pre_ref = r] : r \in Ref}
           \/ g \in {[f EXCEPT !.term_ref = r] : r \in Ref}
           \/ g \in {[f EXCEPT !.actor = k] : k \in Key \union {Absent}}
  BY <1>3 DEF Fixture
<1>4. ASSUME NEW ev \in Event, g = [f EXCEPT !.event = ev] PROVE g \in Fixture
  BY <1>4 DEF Fixture
<1>5. CASE g \in {[f EXCEPT !.event.content = hh] : hh \in Hash}
  <2>1. PICK hh \in Hash : g = [f EXCEPT !.event = [f.event EXCEPT !.content = hh]]
    BY <1>5
  <2>2. [f.event EXCEPT !.content = hh] \in Event
    BY DEF Fixture, Event
  <2>3. QED BY <1>4, <2>1, <2>2
<1>6. CASE g \in {[f EXCEPT !.event.pubkey = k] : k \in Key}
  <2>1. PICK k \in Key : g = [f EXCEPT !.event = [f.event EXCEPT !.pubkey = k]]
    BY <1>6
  <2>2. [f.event EXCEPT !.pubkey = k] \in Event
    BY DEF Fixture, Event
  <2>3. QED BY <1>4, <2>1, <2>2
<1>7. CASE g \in {[f EXCEPT !.event = v.event] : v \in verdicts}
  <2>1. \A v \in verdicts : v.event \in Event
    BY DEF IInv, VerdictInv
  <2>2. QED BY <1>4, <1>7, <2>1
<1>8. CASE g \in {[f EXCEPT !.event = Signed(k, hh)] : k \in Key \ Trusted, hh \in Hash}
  <2>1. \A k \in Key, hh \in Hash : Signed(k, hh) \in Event
    BY SignedEvent
  <2>2. QED BY <1>4, <1>8, <2>1
<1>9. ASSUME NEW a \in Anchor \union {NoAnchor}, g = [f EXCEPT !.anchor = a] PROVE g \in Fixture
  BY <1>9 DEF Fixture
<1> DEFINE A == {NoAnchor} \union
                (IF f.anchor = NoAnchor THEN {}
                 ELSE {[f.anchor EXCEPT !.commitment_digest = f.event.id]}
                      \union {[f.anchor EXCEPT !.block_time = t] : t \in Time \union {Absent}}
                      \union {[f.anchor EXCEPT !.terminal_outcome_time = t] : t \in Time})
<1>10. A \subseteq Anchor \union {NoAnchor}
  <2>1. CASE f.anchor = NoAnchor
    BY <2>1
  <2>2. CASE f.anchor # NoAnchor
    <3>1. f.anchor \in Anchor /\ f.event.id \in EventId
      BY <2>2 DEF Fixture, Event
    <3>2. /\ [f.anchor EXCEPT !.commitment_digest = f.event.id] \in Anchor
          /\ \A t \in Time \union {Absent} : [f.anchor EXCEPT !.block_time = t] \in Anchor
          /\ \A t \in Time : [f.anchor EXCEPT !.terminal_outcome_time = t] \in Anchor
      BY <3>1 DEF Anchor
    <3>3. QED BY <3>2
  <2>3. QED BY <2>1, <2>2
<1>11. CASE g \in {[f EXCEPT !.anchor = a] : a \in A}
  <2> HIDE DEF A
  <2> QED BY <1>9, <1>10, <1>11
<1>12. QED BY <1>1, <1>2, <1>3, <1>5, <1>6, <1>7, <1>8, <1>11 DEF Variants

-----------------------------------------------------------------------------
(* Steps *)

\* The checkers look at nothing but the fixture.
LEMMA CodeSame ==
  ASSUME fx' = fx
  PROVE  \A c, s : Code(c, s)' = Code(c, s)
<1>1. EnvelopeHash' = EnvelopeHash
  BY DEF EnvelopeHash
<1>2. /\ PyCanonical' = PyCanonical /\ JsCanonical' = JsCanonical
      /\ PyChain' = PyChain /\ JsChain' = JsChain
      /\ PyAdmission' = PyAdmission /\ JsAdmission' = JsAdmission
      /\ PyExistence' = PyExistence /\ JsExistence' = JsExistence
  BY <1>1 DEF PyCanonical, JsCanonical, PyChain, JsChain, PyAdmission, JsAdmission,
              PyExistence, JsExistence
<1>3. PyPrecedence' = PyPrecedence /\ JsPrecedence' = JsPrecedence
  BY <1>2 DEF PyPrecedence, JsPrecedence
<1>4. QED BY <1>2, <1>3 DEF Code

\* A step of the run: once there is a fixture, neither the action nor its outcome,
\* its verdicts or its stamps change.
LEMMA RunKeeps ==
  ASSUME IInv, UNCHANGED <<fxVars, checkVars>>, RunInv', VerdictInv', StampInv',
         fx # Absent => UNCHANGED <<proposed, outcome, stamps, verdicts>>
  PROVE  IInv'
<1>1. UNCHANGED <<fx, edits, pos, suites, reason, bar>>
  BY DEF fxVars, checkVars
<1>2. GenInv'
  BY <1>1 DEF IInv, GenInv, Admits, Anchors, AnchorOf, StampsOf, Layers, Fixture
<1>3. ShapeInv' /\ GeneratedMeetsBar'
  BY <1>1 DEF IInv, ShapeInv, GeneratedMeetsBar
<1>4. \A c \in Checker : FirstFail(c)' = FirstFail(c)
  BY <1>1 DEF FirstFail, Broken
<1>5. CheckInv'
  BY <1>1, <1>4, CodeSame DEF IInv, CheckInv
<1>6. QED BY <1>2, <1>3, <1>5 DEF IInv

\* Time passes, an action is proposed, a verdict is signed and stamped, the action
\* is executed.
LEMMA RunStepInv == IInv /\ Run => IInv'
<1> SUFFICES ASSUME IInv, Run PROVE IInv'
  OBVIOUS
<1>0. RunInv /\ VerdictInv /\ StampInv
  BY DEF IInv
<1>1. CASE Tick
  <2>1. /\ fx = Absent /\ now < MaxTime /\ now' = now + 1
        /\ UNCHANGED <<proposed, verdicts, stamps, outcome, fxVars, checkVars>> /\ fx' = fx
    BY <1>1 DEF Tick, fxVars
  <2>2. RunInv'
    BY <1>0, <2>1, ConformanceBounds DEF RunInv, Time
  <2>3. VerdictInv' /\ StampInv'
    <3>1. \A v \in verdicts : v.time \in Time
      BY <1>0 DEF VerdictInv
    <3>2. now \in Nat
      BY <1>0 DEF RunInv, Time
    <3>3. \A v \in verdicts : v.time <= now'
      BY <1>0, <2>1, <3>1, <3>2 DEF VerdictInv, Time
    <3>4. QED BY <1>0, <2>1, <3>3 DEF VerdictInv, StampInv
  <2>4. QED BY <2>1, <2>2, <2>3, RunKeeps
<1>2. ASSUME NEW e \in Envelope, Propose(e) PROVE IInv'
  <2>1. /\ proposed = Absent /\ proposed' = e /\ fx' = fx
        /\ UNCHANGED <<now, verdicts, stamps, outcome, fxVars, checkVars>>
    BY <1>2 DEF Propose, fxVars
  <2>2. outcome = Absent /\ fx = Absent
    BY <1>0, <2>1 DEF RunInv
  <2>3. RunInv' /\ VerdictInv' /\ StampInv'
    BY <1>0, <2>1, <2>2 DEF RunInv, VerdictInv, StampInv
  <2>4. QED BY <2>1, <2>2, <2>3, RunKeeps
<1>3. ASSUME NEW e \in Envelope, NEW k \in Key, SignVerdict(k, e) PROVE IInv'
  <2> DEFINE n == [event |-> Signed(k, sha256(e)), time |-> now]
  <2>1. /\ fx = Absent /\ fx' = fx /\ verdicts' = verdicts \union {n}
        /\ UNCHANGED <<now, proposed, stamps, outcome, fxVars, checkVars>>
    BY <1>3 DEF SignVerdict, fxVars
  <2>2. Signed(k, sha256(e)) \in Event
    <3>1. sha256(e) \in Hash
      BY DEF Hash
    <3>2. QED BY <3>1, SignedEvent
  <2>3. now \in Time /\ now <= now
    BY <1>0 DEF RunInv, Time
  <2>4. n \in [event : Event, time : Time] /\ n.time <= now /\ n.event = Signed(k, sha256(e))
    BY <2>2, <2>3
  <2> HIDE DEF n
  <2>5. VerdictInv'
    BY <1>0, <2>1, <2>4 DEF VerdictInv
  <2>6. RunInv' /\ StampInv'
    BY <1>0, <2>1 DEF RunInv, StampInv
  <2>7. QED BY <2>1, <2>5, <2>6, RunKeeps
<1>4. ASSUME NEW v \in verdicts, Stamp(v) PROVE IInv'
  <2> DEFINE n == [id |-> v.event.id, time |-> now]
  <2>1. /\ fx = Absent /\ fx' = fx /\ stamps' = stamps \union {n}
        /\ UNCHANGED <<now, proposed, verdicts, outcome, fxVars, checkVars>>
    BY <1>4 DEF Stamp, fxVars
  <2>2. v.event.id \in EventId /\ v.time <= now /\ now \in Time
    BY <1>0 DEF RunInv, VerdictInv, Event
  <2>3. n \in [id : EventId, time : Time] /\ v.event.id = n.id /\ v.time <= n.time
    BY <2>2
  <2> HIDE DEF n
  <2>4. StampInv'
    BY <1>0, <2>1, <2>3 DEF StampInv
  <2>5. RunInv' /\ VerdictInv'
    BY <1>0, <2>1 DEF RunInv, VerdictInv
  <2>6. QED BY <2>1, <2>4, <2>5, RunKeeps
<1>5. CASE Execute
  <2>1. /\ proposed # Absent /\ outcome = Absent /\ outcome' = now /\ fx' = fx
        /\ UNCHANGED <<now, proposed, verdicts, stamps, fxVars, checkVars>>
    BY <1>5 DEF Execute, fxVars
  <2>2. fx = Absent
    BY <1>0, <2>1 DEF RunInv
  <2>3. RunInv' /\ VerdictInv' /\ StampInv'
    BY <1>0, <2>1, <2>2 DEF RunInv, VerdictInv, StampInv
  <2>4. QED BY <2>1, <2>2, <2>3, RunKeeps
<1>6. QED BY <1>1, <1>2, <1>3, <1>4, <1>5 DEF Run

\* The fixture is another one, before a checker looked at it.
LEMMA NewFixture ==
  ASSUME IInv, \A c \in Checker : pos[c] = 0, UNCHANGED <<runVars, checkVars>>, GenInv',
         outcome # Absent
  PROVE  IInv'
<1>1. UNCHANGED <<now, proposed, verdicts, stamps, outcome, pos, suites, reason, bar>>
  BY DEF runVars, checkVars
<1>2. \A c \in Checker : reason[c] = Unset /\ bar[c] = "open"
  BY DEF IInv, CheckInv
<1>3. RunInv' /\ VerdictInv' /\ StampInv' /\ ShapeInv'
  BY <1>1 DEF IInv, RunInv, VerdictInv, StampInv, ShapeInv
<1>4. GeneratedMeetsBar'
  BY <1>1, <1>2 DEF GeneratedMeetsBar, Raised, Unset
<1>5. CheckInv'
  <2>1. \A c \in Checker : pos'[c] = 0 /\ reason'[c] = Unset /\ bar'[c] = "open"
    BY <1>1, <1>2
  <2>2. \A i \in 1..5 : ~(i <= 0)
    OBVIOUS
  <2>3. QED BY <2>1, <2>2 DEF CheckInv
<1>6. QED BY <1>3, <1>4, <1>5 DEF IInv

\* A fixture is generated.
LEMMA GenerateInv ==
  ASSUME IInv, NEW v \in verdicts, NEW x \in Generated, Generate(v, x)
  PROVE  IInv'
<1>1. /\ fx = Absent /\ outcome # Absent /\ Admits(v, x) /\ edits' = 0
      /\ UNCHANGED <<runVars, checkVars>>
  BY DEF Generate
<1>2. PICK a \in Anchors(v, x) : fx' = Layers(v, a, x)
  BY DEF Generate
<1>3. UNCHANGED <<now, proposed, verdicts, stamps, outcome>>
  BY <1>1 DEF runVars
<1>4. fx' \in Fixture
  BY <1>1, <1>2, LayersType
<1>5. Admits(v, x)' /\ a \in Anchors(v, x)' /\ fx' = Layers(v, a, x)' /\ v \in verdicts'
  BY <1>1, <1>2, <1>3 DEF Admits, Anchors, AnchorOf, StampsOf, Layers
<1>6. GenInv'
  <2>1. edits' \in 0..MaxEdits
    BY <1>1, ConformanceBounds
  <2>2. fx' \in (Fixture \union {Absent})'
    BY <1>4 DEF Fixture
  <2>3. QED BY <1>5, <2>1, <2>2 DEF GenInv
<1>7. \A c \in Checker : pos[c] = 0
  BY <1>1 DEF IInv, CheckInv
<1>8. QED BY <1>1, <1>6, <1>7, NewFixture

\* It is edited.
LEMMA EditInv ==
  ASSUME IInv, fx # Absent, NEW f \in Variants(fx), Edit(f)
  PROVE  IInv'
<1>1. /\ edits < MaxEdits /\ pos = [c \in Checker |-> 0] /\ fx' = f /\ edits' = edits + 1
      /\ UNCHANGED <<runVars, checkVars>>
  BY DEF Edit
<1>2. fx \in Fixture /\ edits \in 0..MaxEdits
  BY DEF IInv, GenInv
<1>3. f \in Fixture
  BY <1>2, VariantsType
<1>4. edits' \in 0..MaxEdits /\ edits' # 0
  BY <1>1, <1>2, ConformanceBounds
<1>5. GenInv'
  BY <1>1, <1>3, <1>4 DEF GenInv, Fixture
<1>6. outcome # Absent
  BY DEF IInv, RunInv
<1>7. \A c \in Checker : pos[c] = 0
  BY <1>1
<1>8. QED BY <1>1, <1>5, <1>6, <1>7, NewFixture

\* A checker leaves the run and the fixture alone.
LEMMA CheckerKeeps ==
  ASSUME IInv, UNCHANGED <<runVars, fxVars>>, ShapeInv', CheckInv', GeneratedMeetsBar'
  PROVE  IInv'
<1>1. UNCHANGED <<now, proposed, verdicts, stamps, outcome, fx, edits>>
  BY DEF runVars, fxVars
<1>2. RunInv' /\ VerdictInv' /\ StampInv'
  BY <1>1 DEF IInv, RunInv, VerdictInv, StampInv
<1>3. GenInv'
  BY <1>1 DEF IInv, GenInv, Admits, Anchors, AnchorOf, StampsOf, Layers, Fixture
<1>4. QED BY <1>2, <1>3 DEF IInv

\* A checker evaluates its next suite, or raises in it.
LEMMA CheckSuiteInv ==
  ASSUME IInv, NEW c \in Checker, CheckSuite(c)
  PROVE  IInv'
<1> DEFINE n == pos[c] + 1
           s == Order[n]
<1>1. fx # Absent /\ reason[c] = Unset /\ pos[c] < 5 /\ UNCHANGED <<runVars, fxVars, bar>> /\ fx' = fx
  BY DEF CheckSuite, fxVars
<1>2. \/ /\ Code(c, s) = Raised
         /\ reason' = [reason EXCEPT ![c] = Raised] /\ UNCHANGED <<pos, suites>>
      \/ /\ Code(c, s) # Raised
         /\ suites' = [suites EXCEPT ![c][s] = Code(c, s)]
         /\ pos' = [pos EXCEPT ![c] = @ + 1]
         /\ UNCHANGED reason
  BY DEF CheckSuite
<1>3. /\ ShapeInv /\ CheckInv /\ GeneratedMeetsBar
      /\ pos \in [Checker -> 0..5] /\ pos[c] \in 0..5
  BY DEF IInv, ShapeInv
<1>4. n \in 1..5 /\ n = pos[c] + 1
  BY <1>1, <1>3
<1> HIDE DEF n
<1>5. s \in Suites /\ Code(c, s) \in Codes \union {ok, NotAssessable, Raised}
  BY <1>4, OrderFacts, CodeType
<1>6. CASE Code(c, s) = Raised
  <2>1. reason' = [reason EXCEPT ![c] = Raised] /\ UNCHANGED <<pos, suites, bar>>
    BY <1>1, <1>2, <1>6
  <2>2. pos[c] # 0
    <3>1. n # 1
      BY <1>6, OrderFacts, CodeType
    <3>2. QED BY <1>3, <1>4, <3>1
  <2>3. ShapeInv'
    BY <1>3, <2>1 DEF ShapeInv
  <2>4. /\ reason'[c] = Raised
        /\ \A d \in Checker : d # c => reason'[d] = reason[d]
    BY <1>3, <2>1 DEF ShapeInv
  <2>5. \A d \in Checker : FirstFail(d)' = FirstFail(d)
    BY <2>1 DEF FirstFail, Broken
  <2>6. bar[c] = "open"
    BY <1>1, <1>3 DEF CheckInv
  <2>7. CheckInv'
    <3> SUFFICES ASSUME NEW d \in Checker
                 PROVE  /\ pos'[d] # 0 => fx' # Absent
                        /\ reason'[d] # Unset => pos'[d] # 0
                        /\ \A i \in 1..5 : i <= pos'[d] =>
                             suites'[d][Order[i]] = Code(d, Order[i])' /\ Code(d, Order[i])' # Raised
                        /\ reason'[d] \notin {Unset, Raised} => pos'[d] = 5 /\ reason'[d] = FirstFail(d)'
                        /\ bar'[d] # "open" => reason'[d] \notin {Unset, Raised}
      BY DEF CheckInv
    <3>1. \A i \in 1..5 : Code(d, Order[i])' = Code(d, Order[i])
      BY <1>1, CodeSame
    <3>2. CASE d = c
      BY <1>1, <1>3, <2>1, <2>2, <2>4, <2>6, <3>1, <3>2 DEF CheckInv
    <3>3. CASE d # c
      BY <1>1, <1>3, <2>1, <2>4, <2>5, <3>1, <3>3 DEF CheckInv
    <3>4. QED BY <3>2, <3>3
  <2>8. edits # 0
    BY <1>1, <1>5, <1>6, GeneratedBar
  <2>9. GeneratedMeetsBar'
    BY <1>1, <2>8 DEF GeneratedMeetsBar, fxVars
  <2>10. QED BY <1>1, <2>3, <2>7, <2>9, CheckerKeeps
<1>7. CASE Code(c, s) # Raised
  <2>1. /\ suites' = [suites EXCEPT ![c][s] = Code(c, s)]
        /\ pos' = [pos EXCEPT ![c] = @ + 1]
        /\ UNCHANGED <<reason, bar>>
    BY <1>1, <1>2, <1>7
  <2>2. /\ pos'[c] = n
        /\ \A d \in Checker : d # c => pos'[d] = pos[d]
        /\ pos' \in [Checker -> 0..5]
    BY <1>3, <1>4, <2>1
  <2>3. /\ suites' \in [Checker -> [Suites -> Codes \union {ok, NotAssessable, Unset}]]
        /\ suites'[c][s] = Code(c, s)
        /\ \A z \in Suites : z # s => suites'[c][z] = suites[c][z]
        /\ \A d \in Checker : d # c => suites'[d] = suites[d]
    <3> HIDE DEF s
    <3> QED BY <1>3, <1>5, <1>7, <2>1 DEF ShapeInv
  <2>4. ShapeInv'
    BY <1>3, <2>1, <2>2, <2>3 DEF ShapeInv
  <2>5. CheckInv'
    <3> SUFFICES ASSUME NEW d \in Checker
                 PROVE  /\ pos'[d] # 0 => fx' # Absent
                        /\ reason'[d] # Unset => pos'[d] # 0
                        /\ \A i \in 1..5 : i <= pos'[d] =>
                             suites'[d][Order[i]] = Code(d, Order[i])' /\ Code(d, Order[i])' # Raised
                        /\ reason'[d] \notin {Unset, Raised} => pos'[d] = 5 /\ reason'[d] = FirstFail(d)'
                        /\ bar'[d] # "open" => reason'[d] \notin {Unset, Raised}
      BY DEF CheckInv
    <3>1. \A i \in 1..5 : Code(d, Order[i])' = Code(d, Order[i])
      BY <1>1, CodeSame
    <3>2. CASE d = c
      <4>1. \A i \in 1..5 : i <= n =>
              suites'[c][Order[i]] = Code(c, Order[i]) /\ Code(c, Order[i]) # Raised
        <5> TAKE i \in 1..5
        <5> HAVE i <= n
        <5>1. CASE i = n
          BY <1>7, <2>3, <5>1
        <5>2. CASE i # n
          <6>1. Order[i] \in Suites /\ Order[i] # s
            BY <1>4, <5>2, OrderFacts
          <6>2. i <= pos[c]
            BY <1>3, <1>4, <5>2
          <6>3. QED BY <1>3, <2>3, <6>1, <6>2 DEF CheckInv
        <5>3. QED BY <5>1, <5>2
      <4>2. reason'[c] = Unset /\ bar'[c] = "open"
        BY <1>1, <1>3, <2>1 DEF CheckInv
      <4>3. QED BY <1>1, <2>2, <3>1, <3>2, <4>1, <4>2
    <3>3. CASE d # c
      <4>1. pos'[d] = pos[d] /\ suites'[d] = suites[d] /\ reason'[d] = reason[d] /\ bar'[d] = bar[d]
        BY <2>1, <2>2, <2>3, <3>3
      <4>2. FirstFail(d)' = FirstFail(d)
        BY <4>1 DEF FirstFail, Broken
      <4>3. QED BY <1>1, <1>3, <3>1, <4>1, <4>2 DEF CheckInv
    <3>4. QED BY <3>2, <3>3
  <2>6. GeneratedMeetsBar'
    BY <1>1, <1>3, <2>1 DEF GeneratedMeetsBar, fxVars
  <2>7. QED BY <1>1, <2>4, <2>5, <2>6, CheckerKeeps
<1>8. QED BY <1>6, <1>7

\* A checker concludes with the first hard failure.
LEMMA ConcludeInv ==
  ASSUME IInv, NEW c \in Checker, Conclude(c)
  PROVE  IInv'
<1>1. /\ pos[c] = 5 /\ reason[c] = Unset /\ reason' = [reason EXCEPT ![c] = FirstFail(c)]
      /\ UNCHANGED <<runVars, fxVars, pos, suites, bar>> /\ fx' = fx /\ edits' = edits
  BY DEF Conclude, fxVars
<1>2. FirstFail(c) \in Codes \union {ok}
  BY FirstFailType
<1>3. FirstFail(c) \notin {Unset, Raised}
  BY <1>2 DEF Codes, ok, Unset, Raised
<1>4. /\ ShapeInv'
      /\ reason'[c] = FirstFail(c)
      /\ \A d \in Checker : d # c => reason'[d] = reason[d]
  BY <1>1, <1>2 DEF IInv, ShapeInv
<1>5. \A d \in Checker : FirstFail(d)' = FirstFail(d)
  BY <1>1 DEF FirstFail, Broken
<1>6. CheckInv'
  <2>1. \A d \in Checker, i \in 1..5 : Code(d, Order[i])' = Code(d, Order[i])
    BY <1>1, CodeSame
  <2>2. \A d \in Checker : reason'[d] \in {reason[d], FirstFail(d)}
    BY <1>4
  <2>3. ASSUME NEW d \in Checker
        PROVE  /\ pos'[d] # 0 => fx' # Absent
               /\ reason'[d] # Unset => pos'[d] # 0
               /\ \A i \in 1..5 : i <= pos'[d] =>
                    suites'[d][Order[i]] = Code(d, Order[i])' /\ Code(d, Order[i])' # Raised
               /\ reason'[d] \notin {Unset, Raised} => pos'[d] = 5 /\ reason'[d] = FirstFail(d)'
               /\ bar'[d] # "open" => reason'[d] \notin {Unset, Raised}
    <3>1. CASE d = c
      BY <1>1, <1>3, <1>4, <1>5, <2>1, <3>1 DEF IInv, CheckInv
    <3>2. CASE d # c
      BY <1>1, <1>4, <1>5, <2>1, <3>2 DEF IInv, CheckInv
    <3>3. QED BY <3>1, <3>2
  <2>4. QED BY <2>3 DEF CheckInv
<1>7. GeneratedMeetsBar'
  BY <1>1, <1>3, <1>4 DEF IInv, GeneratedMeetsBar
<1>8. QED BY <1>1, <1>4, <1>6, <1>7, CheckerKeeps

\* A runner holds the result against the fixture's expectation.
LEMMA JudgeInv ==
  ASSUME IInv, NEW c \in Checker, Judge(c)
  PROVE  IInv'
<1>1. /\ reason[c] \notin {Unset, Raised}
      /\ bar' = [bar EXCEPT ![c] = IF MeetsBar(c) THEN "met" ELSE "not_met"]
      /\ UNCHANGED <<runVars, fxVars, pos, suites, reason>> /\ fx' = fx /\ edits' = edits
  BY DEF Judge, fxVars
<1>2. /\ ShapeInv'
      /\ bar'[c] = (IF MeetsBar(c) THEN "met" ELSE "not_met")
      /\ \A d \in Checker : d # c => bar'[d] = bar[d]
  BY <1>1 DEF IInv, ShapeInv
<1>3. \A d \in Checker : FirstFail(d)' = FirstFail(d)
  BY <1>1 DEF FirstFail, Broken
<1>4. CheckInv'
  <2>1. \A d \in Checker, i \in 1..5 : Code(d, Order[i])' = Code(d, Order[i])
    BY <1>1, CodeSame
  <2>2. \A d \in Checker : bar'[d] # "open" => reason'[d] \notin {Unset, Raised}
    BY <1>1, <1>2 DEF IInv, CheckInv
  <2>3. QED BY <1>1, <1>3, <2>1, <2>2 DEF IInv, CheckInv
<1>5. GeneratedMeetsBar'
  <2>1. edits = 0 => bar'[c] = "met"
    BY <1>1, <1>2, GeneratedBar
  <2>2. QED BY <1>1, <1>2, <2>1 DEF IInv, GeneratedMeetsBar
<1>6. QED BY <1>1, <1>2, <1>4, <1>5, CheckerKeeps

-----------------------------------------------------------------------------
(* Theorems *)

\* Nothing is proposed, written or checked.
LEMMA InitInv == Init => IInv
<1> SUFFICES ASSUME Init PROVE IInv
  OBVIOUS
<1>1. RunInv /\ VerdictInv /\ StampInv
  BY ConformanceBounds DEF Init, RunInv, VerdictInv, StampInv, Time
<1>2. GenInv
  BY ConformanceBounds DEF Init, GenInv
<1>3. ShapeInv
  BY DEF Init, ShapeInv
<1>4. \A c \in Checker : pos[c] = 0 /\ reason[c] = Unset /\ bar[c] = "open"
  BY DEF Init
<1>5. CheckInv
  <2>1. \A i \in 1..5 : ~(i <= 0)
    OBVIOUS
  <2>2. QED BY <1>4, <2>1 DEF CheckInv
<1>6. GeneratedMeetsBar
  BY <1>4 DEF GeneratedMeetsBar, Unset, Raised
<1>7. QED BY <1>1, <1>2, <1>3, <1>5, <1>6 DEF IInv

\* Every step, of the run, of the fixture's holder or of a checker.
LEMMA NextInv == IInv /\ [Next]_vars => IInv'
<1> SUFFICES ASSUME IInv, [Next]_vars PROVE IInv'
  OBVIOUS
<1>1. CASE Run
  BY <1>1, RunStepInv
<1>2. CASE Holder
  BY <1>2, GenerateInv, EditInv DEF Holder
<1>3. CASE Check
  BY <1>3, CheckSuiteInv, ConcludeInv, JudgeInv DEF Check
<1>4. CASE UNCHANGED vars
  <2>1. UNCHANGED <<runVars, fxVars, checkVars>>
    BY <1>4 DEF vars
  <2>2. RunInv' /\ VerdictInv' /\ StampInv'
    BY <2>1 DEF IInv, RunInv, VerdictInv, StampInv, runVars, fxVars
  <2>3. QED BY <2>1, <2>2, RunKeeps DEF runVars
<1>5. QED BY <1>1, <1>2, <1>3, <1>4 DEF Next

\* The invariant of every run, fixture and check.
LEMMA Invariant == Spec => []IInv
<1>1. QED BY InitInv, NextInv, PTL DEF Spec

\* Verdicts, stamps, fixtures (edited ones too) and reports have the form the two
\* checkers read.
THEOREM TypeCorrect == Spec => []TypeOK
<1>1. IInv => TypeOK
  BY DEF IInv, RunInv, VerdictInv, StampInv, GenInv, ShapeInv, TypeOK
<1>2. QED BY <1>1, Invariant, PTL

\* The claim of the project's README: a fixture either checker lets pass, edited by
\* whomever, with an anchor point the clock gave and the time of the outcome, proves
\* that a trusted party signed this envelope before the outcome.
THEOREM PassProvesGovernance == Spec => []PassMeansGoverned
<1>1. QED BY Governed, Invariant, PTL

\* verifier.py and verify.js agree wherever both return, on edited fixtures too.
THEOREM CheckersAlwaysAgree == Spec => []CheckersAgree
<1>1. QED BY Agree, Invariant, PTL

\* What generate_fixtures.py writes meets the bar in both languages.
THEOREM GeneratedFixturesMeetTheBar == Spec => []GeneratedMeetsBar
<1>1. IInv => GeneratedMeetsBar
  BY DEF IInv
<1>2. QED BY <1>1, Invariant, PTL

=============================================================================
