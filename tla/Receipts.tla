------------------------------ MODULE Receipts ------------------------------
(***************************************************************************)
(* The receipts of examples/x402-receipt-authorization-commitment and      *)
(* x402-receipt-private-opening: what a signature covers, what a salted    *)
(* commitment opens to, and what a verifier finds. A hash is the term it   *)
(* hashes, a signature who made it over what.                              *)
(***************************************************************************)
EXTENDS Naturals, FiniteSets

\* A commitment is <<>> when the field is empty, <<"cut">> when it is not 32
\* bytes, and otherwise the tuple of what it commits to.
Commitment(method, asset, authorizer, nonce, salt) == <<method, asset, authorizer, nonce, salt>>

Signature(by, over) == [by |-> by, over |-> over]

RECEIPT_FIELDS(version) ==
  {"version", "payer", "transaction"}
  \union IF version = 2 THEN {"authorizationMethod", "authorizationCommitment"} ELSE {}

eip712_digest(payload, types) == [f \in RECEIPT_FIELDS(types) |-> payload[f]]

\* What an ES256K signature covers: the header and the whole payload.
jws_digest(kid, payload) == [kid |-> kid, body |-> payload]

\* Recovery from another digest gives an address, of no one.
recover_address(sig, digest) ==
  IF sig.by = "none" THEN "none" ELSE IF sig.over = digest THEN sig.by ELSE "unrelated"

Rejected(reason) == [receipt |-> "rejected", reason |-> reason, signer |-> "none"]
Valid(signer) == [receipt |-> "valid", reason |-> "none", signer |-> signer]

CheckEip712(r, authorized) ==
  LET signer == recover_address(r.signature, eip712_digest(r.payload, r.payload.version))
  IN  IF r.shape = "no_payload" THEN Rejected("payload_missing")
      ELSE IF r.payload.version \notin {1, 2} THEN Rejected("unsupported_version")
      ELSE IF r.shape = "issued_at" THEN Rejected("payload_field_type")
      ELSE IF ~r.encoded THEN Rejected("signature_encoding")
      ELSE IF signer = "none" THEN Rejected("signature_invalid")
      ELSE IF signer \notin authorized.eip712 THEN Rejected("signer_not_authorized")
      ELSE Valid(signer)

CheckJws(r, authorized) ==
  IF r.duplicated THEN Rejected("jws_payload_duplicated")
  ELSE IF ~r.encoded THEN Rejected("signature_encoding")
  ELSE IF r.alg # "ES256K" THEN Rejected("unsupported_alg")
  ELSE IF r.payload.version \notin {1, 2} THEN Rejected("unsupported_version")
  ELSE IF r.kid \notin DOMAIN authorized.jws THEN Rejected("kid_unresolved")
  ELSE IF recover_address(r.signature, jws_digest(r.kid, r.payload)) # authorized.jws[r.kid] THEN Rejected("signature_invalid")
  ELSE Valid(authorized.jws[r.kid])

check_receipt(r, authorized) ==
  CASE r.format = "eip712" -> CheckEip712(r, authorized)
    [] r.format = "jws"    -> CheckJws(r, authorized)
    [] OTHER               -> Rejected("unsupported_format")

\* With --live, and in check_result, whoever signed is taken as authorized.
CheckUnpinned(r) ==
  LET signer == IF r.payload.version \in {1, 2}
                THEN recover_address(r.signature, eip712_digest(r.payload, r.payload.version)) ELSE "none"
  IN  check_receipt(r, [eip712 |-> {signer} \ {"none"}, jws |-> <<>>])

-----------------------------------------------------------------------------
NoLink(result, detail) == [result |-> result, detail |-> detail, nonce |-> "none", transaction |-> "none"]

Opens(p, salt, asset, cands) ==
  {c \in cands.set : Commitment(p.authorizationMethod, asset, p.payer, c.nonce, salt) = p.authorizationCommitment}

\* cands: whether the candidate set was obtained, and the set of [nonce, tx].
link(p, salt, asset, cands) ==
  LET none == p.authorizationMethod = "" /\ p.authorizationCommitment = <<>>
      one == (p.authorizationMethod = "") # (p.authorizationCommitment = <<>>)
      matches == Opens(p, salt, asset, cands)
  IN  IF p.version # 2 THEN NoLink("not_attempted", "no_commitment")
      ELSE IF one THEN NoLink("malformed", "one_of_method_and_commitment")
      ELSE IF none THEN NoLink("not_attempted", "no_commitment")
      ELSE IF p.authorizationMethod # "eip3009" THEN NoLink("not_attempted", "unsupported_method")
      ELSE IF p.authorizationCommitment = <<"cut">> THEN NoLink("malformed", "commitment_encoding")
      ELSE IF salt = "none" THEN NoLink("not_attempted", "salt_not_held")
      ELSE IF asset = "none" THEN NoLink("not_attempted", "asset_not_held")
      ELSE IF p.payer = "not_an_address" THEN NoLink("not_attempted", "payer_not_an_eip3009_authorizer")
      ELSE IF ~cands.obtained THEN NoLink("incomplete", "candidate_set_unobtainable")
      ELSE IF Cardinality(matches) # 1 THEN NoLink("no_match", "matches")
      ELSE LET m == CHOOSE c \in matches : TRUE
           IN  [result |-> IF p.transaction \notin {"", m.tx} THEN "inconsistent" ELSE "linked",
                detail |-> "", nonce |-> m.nonce, transaction |-> m.tx]

evaluate(vec) ==
  LET rec == check_receipt(vec.receipt, vec.authorized)
  IN  [receipt |-> rec.receipt, reason |-> rec.reason,
       link |-> IF rec.receipt = "valid" THEN link(vec.receipt.payload, vec.salt, vec.asset, vec.candidates)
                ELSE NoLink("none", "none")]

-----------------------------------------------------------------------------
(* The statement about a privately opened receipt. facts: what was read of *)
(* the payer's settlements, a set of [nonce, tx, status, read, to].         *)

\* The link of commitment.py: a member that is not hex of its length raises
\* Malformed, a method that is not implemented NotAttempted, both as soon as
\* there is a nonce to try.
holder_link(p, opening, nonces) ==
  LET hits == Opens(p, opening.salt, opening.asset, [set |-> nonces])
  IN  CASE p.authorizationCommitment \in {<<>>, <<"cut">>} -> "malformed"
        [] p.authorizationCommitment \notin {<<>>, <<"cut">>} /\ nonces # {} /\ p.authorizationMethod # "eip3009" -> "raises"
        [] OTHER -> CASE Cardinality(hits) = 1 -> "linked" [] Cardinality(hits) = 0 -> "no_match" [] OTHER -> "ambiguous"

\* assess catches Malformed only.
assess(p, opening, rater, wallets, facts) ==
  LET r == holder_link(p, opening, facts.nonces)
      s == CHOOSE x \in Opens(p, opening.salt, opening.asset, [set |-> facts.nonces]) : TRUE
  IN  IF p.payer # rater THEN "payer_is_not_rater"
      ELSE IF ~facts.available THEN "incomplete_check"
      ELSE IF r = "raises" THEN "raises"
      ELSE IF r # "linked" THEN "no_settlement"
      ELSE IF s.status # 1 THEN "no_settlement"
      ELSE IF ~s.read THEN "incomplete_check"
      ELSE IF s.to \intersect wallets = {} THEN "payto_not_bound_to_agent"
      ELSE "opens_to_settlement"

Body(st) == [f \in DOMAIN st \ {"signature"} |-> st[f]]

make_statement(receipt, result, rater, agent, read_at, seq, prev, verifier) ==
  LET st == [type |-> "opening/1", receipt |-> receipt, rater |-> rater, agent |-> agent, result |-> result,
             read_at |-> read_at, seq |-> seq, prev |-> prev, verifier |-> verifier,
             signature |-> Signature("none", {})]
  IN  [st EXCEPT !.signature = Signature(verifier, Body(st))]

signature_ok(st) == st.signature.by = st.verifier /\ st.signature.over = Body(st)

ReadAtOk(st) == st.type = "opening/1" /\ st.read_at # <<>>

\* (mutant) A challenger that cannot read the chain refutes.
OutcomeRefutes(again, result) ==
  CASE again = "raises" -> "raises"
    [] again = result   -> "upheld"
    [] OTHER            -> "refuted"
Outcome(again, result) ==
  CASE again = "incomplete_check" -> "incomplete"
    [] again = "raises"           -> "raises"
    [] again = result /\ again # "incomplete_check" -> "upheld"
    [] OTHER                      -> "refuted"

\* facts.canonical: the challenger's hash of the block the statement names,
\* <<>> when it was not obtained.
challenge(st, receipt, opening, wallets, facts) ==
  IF ~signature_ok(st) THEN "bad_signature"
  ELSE IF st.receipt # receipt THEN "not_bound"
  ELSE IF ~ReadAtOk(st) THEN "unanchored"
  ELSE IF facts.canonical = <<>> THEN "incomplete"
  ELSE IF facts.canonical # st.read_at THEN "reorged"
  ELSE Outcome(assess(receipt.payload, opening, st.rater, wallets, facts), st.result)

\* Append-only: numbers run from 0 and each statement names the one before.
log_ok(statements) ==
  \A i \in DOMAIN statements :
    /\ statements[i].seq = i - 1
    /\ statements[i].prev = IF i = 1 THEN <<>> ELSE <<statements[i - 1]>>
    /\ signature_ok(statements[i])

grounded_pairs(statements, trusted) ==
  {<<s.rater, s.agent>> : s \in {s \in statements : /\ s.result = "opens_to_settlement"
                                                    /\ s.verifier \in trusted
                                                    /\ signature_ok(s) /\ ReadAtOk(s)}}
=============================================================================
