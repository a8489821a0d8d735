--------------------------- MODULE ClaimCheckers ---------------------------
(***************************************************************************)
(* The checkers of what one signed proof says, of itself or of another:    *)
(* tools/related_claims_check.py, tools/proof_chain_check.py,              *)
(* tools/vantage_limitation_check.py and, over the last one's runs,        *)
(* tools/issuer_run_check.py. Each is a function of its input files.       *)
(***************************************************************************)
EXTENDS Envelopes

\* The payload of a proof. "none" stands for a member that is null or absent.
Payload ==
  [object |-> TRUE, schema |-> "prefixed", policy |-> "v20", artifact |-> "trade", source |-> "agent",
   note |-> "note-agent", declared |-> {"vantage", "claims"},
   result |-> "matched", claims_hash |-> {}, comparison |-> "eq-v1", related_ref |-> "none",
   label |-> "bound", summary |-> {}, decision_ref |-> "d0", verdict |-> "approve", verified_at |-> "1"]

Unread == [Payload EXCEPT !.declared = {}, !.result = "none", !.related_ref = "none", !.decision_ref = "none",
                          !.verdict = "none", !.verified_at = "none", !.policy = "none", !.artifact = "none",
                          !.note = "none", !.comparison = "none"]
\* v.get("payload") or {}
ReadBy(r, p) == IF VerifyEnvelope(r, p).read THEN r.payload ELSE Unread

-----------------------------------------------------------------------------
(* related_claims_check: the claims file is null, not an object, or a set   *)
(* of key-value pairs; "TRUE" is a boolean, "accent" not printable ASCII.   *)

Allowed == {"verdict", "verified_at"}
InGrammar(claims) == \A c \in claims : c[2] \notin {"TRUE", "accent"}

\* (mutant) Values are compared with ==, for which true equals 1.
ExpectedResultLoose(claims, inner) ==
  IF \A c \in claims : inner[c[1]] = c[2] \/ {inner[c[1]], c[2]} = {"1", "TRUE"} THEN "matched" ELSE "mismatched"
ExpectedResult(claims, inner) ==
  IF \A c \in claims : inner[c[1]] # "none" /\ inner[c[1]] = c[2] THEN "matched" ELSE "mismatched"

\* A referenced proof that is not held refuses only if the set is complete.
NotHeld(c) == IF c.complete THEN Line(FALSE, "held") ELSE Cannot("held")

Compare(c, outer) ==
  IF c.inner.supplied = FALSE THEN NotHeld(c)
  ELSE LET inner == ReadBy(c.inner.record, c.inner_profile) IN
       Line(VerifyEnvelope(c.inner.record, c.inner_profile).valid, "inner proof")
       \union Line(outer.related_ref = inner.decision_ref, "identity")
       \union Line(ExpectedResult(c.claims.pairs, inner) = outer.result, "recomputed")

Unverifiable(c, outer) ==
  Line(outer.related_ref = "none", "nothing bound")
  \union IF c.inner.supplied = FALSE THEN NotHeld(c)
         ELSE Line(~VerifyEnvelope(c.inner.record, c.inner_profile).valid, "really fails")

RelatedClaims(c) ==
  LET valid == VerifyEnvelope(c.outer, c.profile).valid
      outer == ReadBy(c.outer, c.profile)
      known == outer.comparison = "eq-v1"
  IN  Line(valid, "outer proof")
      \union
      IF "claims" \notin outer.declared THEN Cannot("declares the fields")
      ELSE Line(outer.result \in {"not_supplied", "missing_proof", "unverifiable_proof", "matched", "mismatched"}, "result")
           \union
           IF c.claims.form = "null"
           THEN Line(outer.result = "not_supplied" /\ outer.claims_hash = {}, "no claims")
           ELSE IF c.claims.form # "object" \/ c.claims.pairs = {} \/ \E x \in c.claims.pairs : x[1] \notin Allowed
           THEN Line(FALSE, "grammar")
           ELSE (IF InGrammar(c.claims.pairs) THEN Line(c.claims.pairs = outer.claims_hash, "hash") ELSE Cannot("hash"))
                \union (IF known THEN {} ELSE Cannot("version"))
                \union
                CASE ~known -> {}
                  [] known /\ outer.result = "missing_proof" -> Line(outer.related_ref = "none", "nothing bound")
                  [] known /\ outer.result = "unverifiable_proof" -> Unverifiable(c, outer)
                  [] known /\ outer.result \in {"matched", "mismatched"} -> Compare(c, outer)
                  [] OTHER -> Line(FALSE, "comparison outcome")

-----------------------------------------------------------------------------
(* proof_chain_check: always the built-in issuer. The summary is the parsed *)
(* sentence, a set of field-value pairs, or {} when it is not the sentence. *)

SummaryOf(r) == {<<"decision_ref", r.payload.decision_ref>>, <<"event_id", r.sealed>>,
                 <<"verdict", r.payload.verdict>>, <<"verified_at", r.payload.verified_at>>,
                 <<"policy", r.payload.policy>>}

CompareClaim(outer, inner) ==
  IF outer.summary = {} THEN Cannot("sentence")
  ELSE UNION {Line(s \in SummaryOf(inner), s[1]) : s \in outer.summary}

CheckLabel(outer) ==
  Line(outer.label = IF outer.related_ref # "none" THEN "bound" ELSE "asserted", "label")

CheckChain(c) ==
  LET o == VerifyProof(c.outer)
      i == VerifyProof(c.inner.record)
      outer == c.outer.payload
      inner == c.inner.record.payload
  IN  Line(o.valid, "outer proof") \union Line(i.valid, "inner proof")
      \union
      IF ~o.read \/ ~i.read THEN Cannot("payloads")
      ELSE CheckLabel(outer)
           \union IF outer.related_ref = "none" THEN Cannot("reference")
                  ELSE Line(outer.related_ref = inner.decision_ref, "reference")
                       \union CompareClaim(outer, c.inner.record)

-----------------------------------------------------------------------------
(* vantage_limitation_check *)

Irreversible == {"trade"}
NoteTable == [v20 |-> [agent |-> "note-agent", operator |-> "note-operator"]]

Wording(p) ==
  IF p.policy \notin DOMAIN NoteTable THEN Cannot("wording")
  ELSE IF p.source \notin DOMAIN NoteTable[p.policy] THEN Line(FALSE, "source class")
  ELSE Line(p.note = NoteTable[p.policy][p.source], "wording")

Vantage(r, profile) ==
  LET p == ReadBy(r, profile) IN
  Line(VerifyEnvelope(r, profile).valid, "proof")
  \union Line("vantage" \in p.declared, "declared")
  \union IF p.artifact \notin Irreversible THEN Line(p.note = "none", "absent")
         ELSE Line(p.note # "none", "present") \union Wording(p)

\* main: the worst over the files, a failure over what cannot be established.
VantageExit(rs, profile) ==
  IF ~ProfileOk(profile) THEN 2
  ELSE LET exits == {Exit(Vantage(r, profile)) : r \in rs}
       IN  IF 1 \in exits THEN 1 ELSE IF 2 \in exits THEN 2 ELSE 0

RelatedExit(c) ==
  IF ~ProfileOk(c.profile) \/ ~ProfileOk(c.inner_profile) THEN 2 ELSE Exit(RelatedClaims(c))

-----------------------------------------------------------------------------
(* issuer_run_check: an attestation that a vantage check passed, re-run on  *)
(* the repository as it is now. Output is the report the re-run prints.     *)

Rerun(c) == VantageExit({c.files[f] : f \in c.argv}, c.files["profile"])
Output(c) == {Vantage(c.files[f], c.files["profile"]) : f \in c.argv}

FileLines(c) ==
  UNION {IF f \notin DOMAIN c.files THEN Cannot(f) ELSE Line(c.files[f] = c.hashes[f], f) : f \in DOMAIN c.hashes}

RerunLines(c) ==
  Line(Rerun(c) = c.exit, "exit") \union Line(Output(c) = c.output, "output") \union Line(c.exit = 0, "pass")

IssuerRun(c) ==
  IF c.schema # "v1" THEN Line(FALSE, "schema")
  ELSE IF ~c.commit_exists THEN Cannot("commit")
  ELSE Line(c.unchanged, "unchanged")
       \union
       IF c.checker # "vantage_limitation" THEN Line(FALSE, "checker")
       ELSE FileLines(c)
            \union IF ~c.argv_ok THEN Line(FALSE, "argv")
                   ELSE (IF c.passes_profile THEN {} ELSE Line(FALSE, "argv profile"))
            \union IF ~c.argv_ok \/ Statuses(FileLines(c)) # {"PASS"} THEN {}
                   ELSE RerunLines(c) \union Line(c.declared, "declarations") \union Line(c.https, "published")
-----------------------------------------------------------------------------
(* verify_submission_commitment: the first test that fails is the reason.   *)

MaxFutureSkew == 2  \* MAX_FUTURE_SKEW_S, 300 seconds, in the model's time

Body(o) == <<o.digest, o.attempt, o.sent_at, o.key>>

SignatureOk(o) == o.by = o.key /\ o.signed = Body(o)

VerifyCommitment(o, expected, now) ==
  IF o.form # "object" THEN "not_an_object"
  ELSE IF o.extra THEN "unknown_fields"
  ELSE IF o.type # "v0" THEN "wrong_type_or_version"
  ELSE IF o.digest = "bad" THEN "bad_request_digest"
  ELSE IF o.attempt = "bad" THEN "bad_attempt_id"
  ELSE IF o.sent_at <= 0 THEN "bad_sent_at"
  ELSE IF o.key = "bad" THEN "bad_requester_pubkey"
  ELSE IF o.by = "bad" THEN "bad_sig_format"
  ELSE IF expected # "none" /\ o.digest # expected THEN "request_digest_mismatch"
  ELSE IF o.sent_at > now + MaxFutureSkew THEN "sent_at_in_the_future"
  ELSE IF ~SignatureOk(o) THEN "bad_signature"
  ELSE "verified"
=============================================================================
