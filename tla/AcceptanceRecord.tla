-------------------------- MODULE AcceptanceRecord --------------------------
(***************************************************************************)
(* tools/acceptance_record_check.py over the cases that                    *)
(* examples/acceptance-record-cold/build_vectors.py makes: one genuine     *)
(* acceptance, changed in one place by each vector, here in several.       *)
(***************************************************************************)
EXTENDS Naturals

\* The two receipts: same terms, same outcome, issued one after the other.
Record(r) == [id |-> r, issuer |-> "issuer", issuer_kid |-> "iss-1", terms |-> "t1",
              outcome |-> "o1", outcome_at |-> IF r = "r2" THEN 4 ELSE 2]

\* A key is who holds the secret; "weak" is a point of small or mixed order.
JWKS == [k \in {"iss-1", "cp-1", "cp-reused"} |-> IF k = "cp-1" THEN "counterparty" ELSE "issuer"]
Keyed(key) == [JWKS EXCEPT !["cp-1"] = key]
Delegation == [counterparty |-> {"cp-1"}, issuer |-> {"iss-1"}]
Delegating(kids) == [Delegation EXCEPT !.counterparty = kids]

\* acc-accepted-verified. Times: 2 is the outcome of r1, 0 is ill-formed.
Genuine ==
  [present |-> TRUE, envelope |-> "ok", signing |-> [kid |-> "cp-1", by |-> "counterparty"],
   object |-> TRUE, version |-> "v0", party |-> "counterparty", disposition |-> "accepted",
   terms |-> "t1", outcome |-> "o1", names |-> "r1", at |-> 3,
   record |-> "r1", jwks |-> JWKS, complete |-> FALSE, delegation |-> Delegation]

\* What one vector changes, and the result its author wrote down by hand.
Vector(field, value, result, conditions) ==
  [field |-> field, value |-> value, result |-> result, conditions |-> conditions]

Signed(k, sk) == [kid |-> k, by |-> sk]
Invalid == {"acceptance_member_invalid"}

Vectors ==
  LET malformed(f, v, c) == Vector(f, v, "malformed", {c})
      invalid(f, v) == Vector(f, v, "malformed", Invalid)
  IN {Vector("disposition", "rejected", "verified", {}),
      Vector("present", FALSE, "no_record", {}),
      Vector("at", 2, "verified", {}),
      Vector("complete", TRUE, "verified", {}),
      Vector("delegation", Delegating({}), "unknown", {"acceptance_authority_unresolved"}),
      Vector("party", "blank", "unknown", {"acceptance_authority_unresolved"}),
      Vector("signing", Signed("cp-9", "other"), "key_unresolved", {}),
      Vector("jwks", Keyed("weak"), "key_unresolved", {}),
      Vector("jwks", Keyed("none"), "key_unresolved", {}),
      malformed("signing", Signed("cp-1", "other"), "signature_invalid"),
      malformed("signing", Signed("cp-1", "nobody"), "signature_invalid"),
      malformed("party", "absent", "confirming_party_absent"),
      malformed("signing", Signed("iss-1", "issuer"), "acceptance_signer_is_issuer"),
      malformed("signing", Signed("cp-reused", "issuer"), "acceptance_signer_is_issuer"),
      malformed("party", "issuer", "acceptance_signer_is_issuer"),
      malformed("terms", "t2", "acceptance_terms_digest_mismatch"),
      malformed("outcome", "o2", "acceptance_outcome_digest_mismatch"),
      malformed("at", 1, "acceptance_precedes_outcome"),
      malformed("names", "r2", "acceptance_record_digest_mismatch"),
      invalid("envelope", "no_kid"), invalid("envelope", "not_eddsa"), invalid("envelope", "not_base64url"),
      invalid("object", FALSE), invalid("version", "other"), invalid("disposition", "not_responded"),
      invalid("party", "not_string"), invalid("terms", "not_hex"), invalid("names", "absent"), invalid("at", 0),
      invalid("record", "ill_formed")}

\* Changes of the relying party's own material that no vector makes: another
\* receipt is checked, or the reused key is delegated to the counterparty.
Other == {[field |-> "record", value |-> "r2"],
          [field |-> "delegation", value |-> Delegating({"cp-1", "cp-reused"})]}

-----------------------------------------------------------------------------
\* _resolve_kid: a kid that is not listed, or listed with an unusable key.
Resolves(k, c) == k \in DOMAIN c.jwks /\ c.jwks[k] \notin {"none", "weak"}

PartiesOf(k, c) == {p \in DOMAIN c.delegation : k \in c.delegation[p]}

When(failed, name) == IF failed THEN {name} ELSE {}

BadMembers(c) ==
  When(c.version # "v0", "version") \union When(c.party = "not_string", "party")
  \union When(c.disposition \notin {"accepted", "rejected", "disputed"}, "disposition")
  \union When(c.terms = "not_hex", "terms") \union When(c.outcome = "not_hex", "outcome")
  \union When(c.names = "absent", "names") \union When(c.at = 0, "at")
  \union When(c.record = "ill_formed", "record")

\* (mutant) The same key is the same kid.
SignerIsIssuerKid(c) ==
  LET rec == Record(c.record) IN
  \/ c.signing.kid = rec.issuer_kid
  \/ c.party = rec.issuer
  \/ rec.issuer \in PartiesOf(c.signing.kid, c)
SignerIsIssuer(c) ==
  LET rec == Record(c.record) IN
  \/ c.signing.kid = rec.issuer_kid
  \/ Resolves(rec.issuer_kid, c) /\ c.jwks[rec.issuer_kid] = c.jwks[c.signing.kid]
  \/ c.party = rec.issuer
  \/ rec.issuer \in PartiesOf(c.signing.kid, c)

\* (mutant) An ill-formed digest is a mismatch too.
DigestConditionsAll(c, bad) ==
  When(c.names # Record(c.record).id, "acceptance_record_digest_mismatch")
  \union When(c.terms # Record(c.record).terms, "acceptance_terms_digest_mismatch")
  \union When(c.outcome # Record(c.record).outcome, "acceptance_outcome_digest_mismatch")
DigestConditions(c, bad) ==
  When("names" \notin bad /\ c.names # Record(c.record).id, "acceptance_record_digest_mismatch")
  \union When("terms" \notin bad /\ c.terms # Record(c.record).terms, "acceptance_terms_digest_mismatch")
  \union When("outcome" \notin bad /\ c.outcome # Record(c.record).outcome, "acceptance_outcome_digest_mismatch")

Conditions(c) ==
  LET bad == BadMembers(c) IN
  When(c.party = "absent", "confirming_party_absent")
  \union When(bad # {}, "acceptance_member_invalid")
  \union IF "record" \in bad THEN {}
         ELSE When(SignerIsIssuer(c), "acceptance_signer_is_issuer")
              \union DigestConditions(c, bad)
              \union When("at" \notin bad /\ c.at < Record(c.record).outcome_at, "acceptance_precedes_outcome")

Report(result, conditions, disposition) ==
  [result |-> result, conditions |-> conditions, disposition |-> disposition]

\* The relying party's refusal, when the material is complete, is no result.
KeyUnresolved(c) == Report("key_unresolved", {}, "none")

CheckCase(c) ==
  IF ~c.present THEN Report("no_record", {}, "not_responded")
  ELSE IF c.envelope # "ok" THEN Report("malformed", Invalid, "none")
  ELSE IF ~Resolves(c.signing.kid, c) THEN KeyUnresolved(c)
  ELSE IF c.signing.by # c.jwks[c.signing.kid] THEN Report("malformed", {"signature_invalid"}, "none")
  ELSE IF ~c.object THEN Report("malformed", Invalid, "none")
  ELSE IF Conditions(c) # {} THEN Report("malformed", Conditions(c), "none")
  ELSE IF c.party \notin PartiesOf(c.signing.kid, c)
       THEN Report("unknown", {"acceptance_authority_unresolved"}, c.disposition)
  ELSE Report("verified", {}, c.disposition)

\* The changes that can be made to a case: a vector's, where nothing was
\* changed yet, or one of the relying party's material.
Edits(c) ==
  {[c EXCEPT ![v.field] = v.value] : v \in {w \in Vectors : c[w.field] = Genuine[w.field]}}
  \union {[c EXCEPT ![o.field] = o.value] : o \in Other}

\* The vectors whose change a case carries.
Applied(c) == {v \in Vectors : c[v.field] = v.value}

\* What a case with several defects deserves: the earliest stage that any of
\* them stops in decides, and within the last one every condition is reported,
\* those that take the record as input only if the record is well-formed.
Stages == <<{"present"}, {"envelope"}, {"jwks", "signing"}, {"object"}>>
Stopped(S, i) == {v \in S : v.field \in Stages[i] /\ v.result # "verified"
                            /\ v.conditions # {"acceptance_signer_is_issuer"}}
Expected(S) ==
  LET stops == {i \in DOMAIN Stages : Stopped(S, i) # {}}
      first == CHOOSE i \in stops : \A j \in stops : i <= j
      found == (UNION {v.conditions : v \in S}) \ {"acceptance_authority_unresolved"}
      needRecord == {"acceptance_signer_is_issuer", "acceptance_record_digest_mismatch",
                     "acceptance_terms_digest_mismatch", "acceptance_outcome_digest_mismatch",
                     "acceptance_precedes_outcome"}
  IN  IF stops # {}
      THEN IF \E v \in Stopped(S, first) : v.result = "key_unresolved" THEN {}
           ELSE UNION {v.conditions : v \in Stopped(S, first)}
      ELSE IF found = {} THEN UNION {v.conditions : v \in S}
      ELSE IF \E v \in S : v.field = "record" THEN found \ needRecord ELSE found

=============================================================================
