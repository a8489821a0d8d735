----------------------------- MODULE ToolCases -----------------------------
(***************************************************************************)
(* The checkers under tools/ and examples/ that are functions of their     *)
(* input files. The files of one of them are made by their issuer, right   *)
(* or wrong, altered in some places on the way, and checked.               *)
(***************************************************************************)
EXTENDS Integers, ClaimCheckers
Acceptance == INSTANCE AcceptanceRecord
Receipt    == INSTANCE ReceiptCases
Mandate    == INSTANCE Mandates
Procedure  == INSTANCE ProcedureManifest
Bundle     == INSTANCE Nenrin
TimeStamp  == INSTANCE TsaSig
Work       == INSTANCE WorkAcceptance
Log        == INSTANCE LogChecks
Mesh       == INSTANCE MeshSync
Bound      == INSTANCE BindingChecks
Pattern    == INSTANCE PatternStatement
Approval   == INSTANCE Approvals

CONSTANT MaxAltered  \* alterations of one case, for each tool

Tool == {"acceptance", "related_claims", "proof_chain", "issuer_run", "submission",
         "receipt", "statement_log", "mandate", "procedure", "nenrin", "time_stamp", "work",
         "composed", "sequence", "continuity", "entry", "mesh", "scan", "pair", "refs",
         "pattern", "approval"}

ASSUME AlteredAssumption == MaxAltered \in [Tool -> Nat]

VARIABLES
  tool,    \* the checker
  case,    \* its input files
  altered, \* alterations made
  report   \* exit code and lines; exit -1 before the check

toolVars == <<tool, case, altered, report>>

-----------------------------------------------------------------------------
(* What issuers make. *)

Claims == {[form |-> "null", pairs |-> {}], [form |-> "other", pairs |-> {}],
           [form |-> "object", pairs |-> {<<"verdict", "approve">>}],
           [form |-> "object", pairs |-> {<<"verdict", "reject">>, <<"verified_at", "1">>}],
           [form |-> "object", pairs |-> {<<"verified_at", "1">>}],
           [form |-> "object", pairs |-> {<<"note", "n">>}]}

Deciding(v, t) == [Payload EXCEPT !.decision_ref = "d1", !.verdict = v, !.verified_at = t]
Inner(p) == {Issue(p, Deciding(v, t)) : v \in {"approve", "reject"}, t \in {"1", "TRUE"}}

Comparing(r, k, ref) == [Payload EXCEPT !.result = r, !.claims_hash = k.pairs, !.related_ref = ref]
Summing(ref, s, l) == [Payload EXCEPT !.related_ref = ref, !.summary = s, !.label = l]

\* Outer proofs: the issuer records any result, of any of its claims, about
\* any of the proofs, under either envelope.
RelatedGenuine ==
  {[outer |-> Issue(p, Comparing(r, k, ref)),
    inner |-> [supplied |-> s, record |-> i], claims |-> k,
    profile |-> p, inner_profile |-> Nip01Profile, complete |-> co] :
     p \in Profiles, k \in Claims, i \in Inner(Nip01Profile), s \in BOOLEAN, co \in BOOLEAN,
     ref \in {"none", "d1", "d2"},
     r \in {"not_supplied", "missing_proof", "unverifiable_proof", "matched", "mismatched", "other"}}

ChainGenuine ==
  {[outer |-> Issue(Nip01Profile, Summing(ref, s, l)),
    inner |-> [supplied |-> TRUE, record |-> i]] :
     ref \in {"none", "d1", "d2"}, l \in {"bound", "asserted"}, i \in Inner(Nip01Profile),
     s \in {{}} \union {SummaryOf(j) : j \in Inner(Nip01Profile)}}

\* An attested run over two proofs of one issuer, in a repository with a third.
Attested(p, pay) ==
  LET files == [profile |-> p, a |-> IF p.envelope = "jws-eddsa" THEN IssueLabelled(p, pay) ELSE Issue(p, pay),
                b |-> Issue(p, [pay EXCEPT !.artifact = "report", !.note = "none"]), stray |-> Issue(p, Payload)]
      run == [schema |-> "v1", commit_exists |-> TRUE, unchanged |-> TRUE, checker |-> "vantage_limitation",
              files |-> files, hashes |-> [f \in DOMAIN files \ {"stray"} |-> files[f]], argv |-> {"a", "b"}, argv_ok |-> TRUE, passes_profile |-> TRUE,
              declared |-> TRUE, https |-> TRUE, exit |-> 0, output |-> {}]
  IN  [run EXCEPT !.exit = Rerun(run), !.output = Output(run)]

RunGenuine ==
  {Attested(p, pay) :
     p \in Profiles,
     pay \in {[Payload EXCEPT !.note = n, !.source = s, !.policy = v] :
                n \in {"note-agent", "none"}, s \in {"agent", "other"}, v \in {"v20", "v99"}}}

SubmissionGenuine ==
  {[form |-> "object", extra |-> FALSE, type |-> "v0", digest |-> d, attempt |-> "a1", sent_at |-> t,
    key |-> k, by |-> k, signed |-> <<d, "a1", t, k>>, expected |-> e, now |-> n] :
     d \in {"q1", "q2"}, t \in 1..4, k \in {"requester", "stranger"}, e \in {"none", "q1"}, n \in {1, 3}}

Genuine(t) ==
  CASE t = "acceptance"     -> {Acceptance!Genuine}
    [] t = "related_claims" -> RelatedGenuine
    [] t = "proof_chain"    -> ChainGenuine
    [] t = "issuer_run"     -> RunGenuine
    [] t = "submission"     -> SubmissionGenuine
    [] t = "receipt"        -> Receipt!Vectors
    [] t = "statement_log"  -> Receipt!Logs
    [] t = "mandate"        -> Mandate!Genuine
    [] t = "procedure"      -> Procedure!Genuine
    [] t = "nenrin"         -> Bundle!Genuine
    [] t = "time_stamp"     -> TimeStamp!Genuine
    [] t = "work"           -> Work!Genuine
    [] t = "composed"       -> Log!EnvelopeGenuine
    [] t = "sequence"       -> Log!SequenceGenuine
    [] t = "continuity"     -> Log!ChainGenuine
    [] t = "entry"          -> Log!EntryGenuine
    [] t = "mesh"           -> Mesh!Vectors
    [] t = "scan"           -> Bound!ScanGenuine
    [] t = "pair"           -> Bound!PairGenuine
    [] t = "refs"           -> Bound!RefsGenuine
    [] t = "pattern"        -> Pattern!Genuine
    [] t = "approval"       -> Approval!Genuine

-----------------------------------------------------------------------------
(* How they are altered on the way. *)

Replaced(c, f, S) == {[c EXCEPT ![f] = v] : v \in S}

\* Members of a payload changed under the old seal.
Reworded(r) ==
  {[r EXCEPT !.payload.result = "matched"], [r EXCEPT !.payload.verdict = "approve"],
   [r EXCEPT !.payload.verdict = "reject"], [r EXCEPT !.payload.related_ref = "d1"],
   [r EXCEPT !.payload.declared = {}], [r EXCEPT !.payload.comparison = "eq-v2"], [r EXCEPT !.payload.label = "bound"]}

RelatedEdits(c) ==
  Replaced(c, "outer", Damaged(c.outer) \union Reworded(c.outer))
  \union Replaced(c, "claims", Claims \union {[form |-> "object", pairs |-> {<<"verified_at", "TRUE">>}]})
  \union {[c EXCEPT !.inner.record = r] : r \in Damaged(c.inner.record) \union Reworded(c.inner.record)}
  \union Replaced(c, "profile", {[c.profile EXCEPT !.keys = {"stranger"}], [c.profile EXCEPT !.members = FALSE]})

ChainEdits(c) ==
  Replaced(c, "outer", Damaged(c.outer) \union Reworded(c.outer))
  \union {[c EXCEPT !.inner.record = r] : r \in Damaged(c.inner.record) \union Reworded(c.inner.record)}

\* The repository moves on: files change, the checker does, or the attestation.
RunEdits(c) ==
  {[c EXCEPT !.files["a"] = r] : r \in Damaged(c.files["a"])}
  \union {[c EXCEPT !.files["profile"].keys = {}], [c EXCEPT !.hashes["a"] = c.files["stray"]],
          [c EXCEPT !.commit_exists = FALSE], [c EXCEPT !.unchanged = FALSE], [c EXCEPT !.checker = "other"],
          [c EXCEPT !.argv = {"b", "stray"}], [c EXCEPT !.passes_profile = FALSE], [c EXCEPT !.argv_ok = FALSE],
          [c EXCEPT !.declared = FALSE], [c EXCEPT !.https = FALSE], [c EXCEPT !.schema = "v0"],
          [c EXCEPT !.exit = 0], [c EXCEPT !.exit = 2]}
  \union {[c EXCEPT !.files = [f \in DOMAIN c.files \ {g} |-> c.files[f]]] : g \in {"b"} \intersect DOMAIN c.files}

SubmissionEdits(c) ==
  Replaced(c, "digest", {"q1", "bad"}) \union Replaced(c, "attempt", {"a2", "bad"})
  \union Replaced(c, "sent_at", 0..5) \union Replaced(c, "key", {"requester", "bad"})
  \union Replaced(c, "by", {"requester", "bad"}) \union Replaced(c, "form", {"other"})
  \union Replaced(c, "type", {"other"}) \union Replaced(c, "extra", {TRUE})

Edits(t, c) ==
  CASE t = "acceptance"     -> Acceptance!Edits(c)
    [] t = "related_claims" -> RelatedEdits(c)
    [] t = "proof_chain"    -> ChainEdits(c)
    [] t = "issuer_run"     -> RunEdits(c)
    [] t = "submission"     -> SubmissionEdits(c)
    [] t = "receipt"        -> Receipt!Altered(c)
    [] t = "statement_log"  -> Receipt!LogEdits(c)
    [] t = "mandate"        -> Mandate!Edits(c)
    [] t = "procedure"      -> Procedure!Edits(c)
    [] t = "nenrin"         -> Bundle!Edits(c)
    [] t = "time_stamp"     -> TimeStamp!Edits(c)
    [] t = "work"           -> Work!Edits(c)
    [] t = "composed"       -> Log!EnvelopeEdits(c)
    [] t = "sequence"       -> Log!SequenceEdits(c)
    [] t = "continuity"     -> Log!ChainEdits(c)
    [] t = "entry"          -> Log!EntryEdits(c)
    [] t = "mesh"           -> Mesh!Edits(c)
    [] t = "scan"           -> Bound!ScanEdits(c)
    [] t = "pair"           -> Bound!PairEdits(c)
    [] t = "refs"           -> Bound!RefsEdits(c)
    [] t = "pattern"        -> Pattern!Edits(c)
    [] t = "approval"       -> Approval!Edits(c)

-----------------------------------------------------------------------------
AcceptanceExit(result) == CASE result = "verified" -> 0 [] result = "malformed" -> 1 [] OTHER -> 2

\* One word, and whether it is among those that accept.
Says(word, accepting) == [exit |-> IF word \in accepting THEN 0 ELSE 1, lines |-> {<<"result", word>>}]

Verdict(t, c) ==
  CASE t = "acceptance" ->
         LET r == Acceptance!CheckCase(c)
         IN  [exit |-> AcceptanceExit(r.result), lines |-> {<<r.result, x>> : x \in r.conditions \union {r.disposition}}]
    [] t = "related_claims" -> [exit |-> RelatedExit(c), lines |-> RelatedClaims(c)]
    [] t = "proof_chain" -> [exit |-> Exit(CheckChain(c)), lines |-> CheckChain(c)]
    [] t = "issuer_run" -> [exit |-> Exit(IssuerRun(c)), lines |-> IssuerRun(c)]
    [] t = "submission" ->
         LET reason == VerifyCommitment(c, c.expected, c.now)
         IN  Says(reason, {"verified"})
    [] t = "receipt" -> Says(Receipt!evaluate(c).link.result, {"linked"})
    [] t = "statement_log" -> Says(IF Receipt!log_ok(c.log) THEN "ok" ELSE "broken", {"ok"})
    [] t = "mandate" -> Says(Mandate!check(c), {"consented_and_settled"})
    [] t = "procedure" -> Says(Procedure!evaluate(c).verdict, {"RESULT"})
    [] t = "nenrin" -> [exit |-> IF Bundle!verdict(Bundle!verify(c)) = "accepted" THEN 0 ELSE 1, lines |-> Bundle!verify(c)]
    [] t = "time_stamp" -> Says(TimeStamp!evaluate(c.tok, c.anchors, c.t), {"verified"})
    [] t = "work" -> [exit |-> IF Work!check(c).problems = {} THEN 0 ELSE 1, lines |-> Work!check(c).problems]
    [] t = "composed" ->
         [exit |-> IF Log!check(c).verdict /\ ~Log!tamper_demo(c).verdict THEN 0 ELSE 1, lines |-> Log!check(c).lines]
    [] t = "sequence" -> Says(IF Log!run(c) /\ \A d \in Log!demos(c) : ~Log!run(d) THEN "PASS" ELSE "FAIL", {"PASS"})
    [] t = "continuity" -> [exit |-> Log!ContinuityExit(c), lines |-> {}]
    [] t = "entry" -> [exit |-> Log!EntryExit(c), lines |-> {}]
    [] t = "mesh" -> Says(Mesh!run(c), {"CONVERGED", "CONFORMANT"})
    [] t = "scan" -> Says(IF Bound!check_decision(c) = {} THEN Bound!subject_bound(c).verdict ELSE "FAIL", {"NO_FINDING"})
    [] t = "pair" ->
         LET e == Bound!evaluate(c)
         IN  [exit |-> IF e.outcome = "AUTHORIZED" THEN 0 ELSE 1, lines |-> {<<e.outcome, r>> : r \in e.reasons}]
    [] t = "refs" -> Bound!RefsVerdict(c)
    [] t = "pattern" -> [exit |-> IF Pattern!check(c) = {} THEN 0 ELSE 1, lines |-> Pattern!check(c)]
    [] t = "approval" -> Says(Approval!Reading(c), {"approved"})

ToolInit ==
  /\ tool \in Tool
  /\ case \in Genuine(tool)
  /\ altered = 0
  /\ report = [exit |-> -1, lines |-> {}]

Alter ==
  /\ report.exit = -1 /\ altered < MaxAltered[tool]
  /\ case' \in Edits(tool, case) \ {case}
  /\ altered' = altered + 1
  /\ UNCHANGED <<tool, report>>

Check ==
  /\ report.exit = -1
  /\ report' = Verdict(tool, case)
  /\ UNCHANGED <<tool, case, altered>>

ToolNext == Alter \/ Check

ToolSpec == ToolInit /\ [][ToolNext]_toolVars

-----------------------------------------------------------------------------
(* Properties *)

Checked(t) == tool = t /\ report.exit # -1
Passed(t) == tool = t /\ report.exit = 0

\* Every variable has its type.
ToolTypeOK ==
  /\ tool \in Tool
  /\ altered \in 0..MaxAltered[tool]
  /\ report.exit \in {-1, 0, 1, 2}

\* Several vectors' changes in one acceptance case are reported as their
\* hand-written expectations compose: the earliest stage that stops decides,
\* no condition of the last stage hides another, and an ill-formed member adds
\* no mismatch of its own.
VectorsCompose ==
  (Checked("acceptance") /\ case.record # "r2" /\ "cp-reused" \notin case.delegation["counterparty"]
   /\ (case.signing.kid # "cp-1" => case.jwks = Acceptance!JWKS))
     => Acceptance!CheckCase(case).conditions = Acceptance!Expected(Acceptance!Applied(case))

\* An acceptance is verified only as the counterparty's, about the receipt it
\* was made for: nothing the issuer signed with its own secret is, under
\* whatever kid, party or delegation, as long as the trust material lists its
\* key, nor the acceptance of another receipt with the same terms and outcome.
AcceptanceSound ==
  Passed("acceptance") => case.signing.by # "issuer" /\ case.names = case.record

\* The payload a record's issuer sealed, whatever it shows now.
Meant(r) == r.sealed[3]

\* The comparison recorded by the outer proof is so, exactly, of the very proof
\* it references, and nothing is passed of a proof that is not held.
RestatementSound(c) ==
  LET outer == Meant(c.outer)
      inner == Meant(c.inner.record)
  IN  c.claims.form = "object" /\ outer.result # "missing_proof" =>
        /\ c.inner.supplied
        /\ outer.result \in {"matched", "mismatched"} =>
             /\ outer.related_ref = inner.decision_ref
             /\ (outer.result = "matched") <=> \A x \in c.claims.pairs : inner[x[1]] = x[2]

\* The sentence in the outer proof restates every field of the inner one.
ChainSound(c) ==
  /\ Meant(c.outer).related_ref = Meant(c.inner.record).decision_ref
  /\ Meant(c.outer).summary = SummaryOf([c.inner.record EXCEPT !.payload = Meant(c.inner.record)])

\* Every input the attestation names and the run reads has the note that
\* follows from its own signed fields.
NotesSound(c) ==
  \A f \in c.argv \intersect DOMAIN c.hashes :
    LET p == Meant(c.hashes[f]) IN
    /\ c.hashes[f].payload = p
    /\ IF p.artifact \in Irreversible
       THEN p.source \in DOMAIN NoteTable[p.policy] /\ p.note = NoteTable[p.policy][p.source]
       ELSE p.note = "none"

\* Signed by the requester it names, no further ahead than the skew.
CommitmentSound(c) ==
  /\ c.signed = Body(c) /\ c.by = c.key
  /\ c.expected \in {"none", c.digest}
  /\ c.sent_at \in 1..(c.now + MaxFutureSkew)

\* What a checker passes is true of the records as their issuers sealed them,
\* whatever was altered, swapped or mistaken in between: check() of
\* related_claims, check_chain(), the re-run of issuer_run, verify().
PassIsTrue ==
  /\ Passed("related_claims") => case.outer.payload = Meant(case.outer) /\ RestatementSound(case)
  /\ Passed("proof_chain") => case.outer.payload = Meant(case.outer) /\ ChainSound(case)
  /\ Passed("issuer_run") => NotesSound(case)
  /\ Passed("submission") => CommitmentSound(case)

\* A link, a consented payment, a log of statements or a procedure's result is
\* accepted only if it is so of what the parties signed and the chain recorded:
\* evaluate() of receipt_check.py, check() of mandate_check.py, log_ok() of
\* statement.py, evaluate() of the procedure manifest, verify_approval_v2().
AcceptedIsSo ==
  /\ Passed("receipt") => Receipt!LinkSound(case)
  /\ Passed("statement_log") => Receipt!LogSound(case)
  /\ Passed("mandate") => Mandate!Sound(case)
  /\ Passed("procedure") => Procedure!Sound(case)
  /\ Passed("approval") => Approval!Sound(case)

\* Accepted work is backed by what its parties signed and by the instants the
\* time stamps leave open, rounded or not: verify() of nenrin_cleanroom.py,
\* check() of war_check.py, evaluate() of tsa_sig.py. A receipt nobody signed,
\* behind the others, changes no line of verify(): it neither hides an execution
\* nor makes an equivocation of one.
WorkIsBacked ==
  /\ Passed("nenrin") => Bundle!Sound(case)
  /\ Passed("time_stamp") => TimeStamp!Sound(case)
  /\ Passed("work") => Work!Sound(case)
  /\ Checked("nenrin") => Bundle!StrayIgnored(case)

\* What was logged is shown whole: a sequence, a chain of entries, an entry or a
\* mesh of nodes passes only if nothing of it was left out, reordered or
\* rewritten: run() of check_sequence_integrity.py, check_sequence(), assess(),
\* per_origin(), check() of the pattern statement; and a signer's line of check_composed_envelope.py that says
\* PASS says so of that signer whatever else the envelope holds.
LogIsWhole ==
  /\ Checked("composed") => Log!EnvelopeSound(case)
  /\ Passed("sequence") => Log!SequenceSound(case)
  /\ Passed("continuity") => Log!ContinuitySound(case)
  /\ Passed("entry") => Log!EntrySound(case)
  /\ Passed("mesh") => Mesh!Sound(case)
  /\ Passed("pattern") => Pattern!Sound(case)

\* What one record is bound to is what its parties meant: the documents a scan
\* speaks of hold the one used, a payment carries the verdict it ran under, and
\* references name each event once: subject_bound(), evaluate() of the payment
\* pair, canonicalize() and check_positive().
BindingHolds ==
  /\ Checked("scan") => Bound!ScanSound(case)
  /\ Checked("pair") => Bound!PairSound(case)
  /\ Checked("refs") => Bound!RefsSound(case)

=============================================================================
