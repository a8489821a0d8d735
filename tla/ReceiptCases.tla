---------------------------- MODULE ReceiptCases ----------------------------
(***************************************************************************)
(* The receipts of build_receipt_vectors.py and the statement logs of      *)
(* x402-receipt-private-opening/build_vectors.py, as they are made and as  *)
(* they are altered. What the seller, or the verifier, really signed is    *)
(* kept in "signed".                                                       *)
(***************************************************************************)
EXTENDS Receipts, Sequences

payload(version, transaction, method, commitment) ==
  [version |-> version, payer |-> "payer", transaction |-> transaction,
   authorizationMethod |-> method, authorizationCommitment |-> commitment]

commit_to(nonce, authorizer) == Commitment("eip3009", "usdc", authorizer, nonce, "sa")

eip712(p, key, types) ==
  [format |-> "eip712", shape |-> "ok", encoded |-> TRUE, payload |-> p, duplicated |-> FALSE, alg |-> "none",
   kid |-> "none", signature |-> Signature(key, eip712_digest(p, types))]

jws(p, key) ==
  [format |-> "jws", shape |-> "ok", encoded |-> TRUE, payload |-> p, duplicated |-> FALSE, alg |-> "ES256K",
   kid |-> "kid1", signature |-> Signature(key, jws_digest("kid1", p))]

Candidates == {[nonce |-> "a", tx |-> "ta"], [nonce |-> "b", tx |-> "tb"]}

vec(receipt, p, key, types) ==
  [receipt |-> receipt, authorized |-> [eip712 |-> {"seller"}, jws |-> [kid1 |-> "seller"]],
   salt |-> "sa", asset |-> "usdc", candidates |-> [obtained |-> TRUE, set |-> Candidates],
   signed |-> [payload |-> p, by |-> key, types |-> types]]

\* With no transaction, method or commitment, a commitment cut short, one to a
\* nonce that was never used, and one of another authorizer.
Transactions == {"", "ta", "tb"}
Methods == {"", "eip3009", "permit2"}
Commitments == {<<>>, <<"cut">>, commit_to("a", "payer"), commit_to("absent", "payer"), commit_to("a", "other")}

Payloads == {payload(v, t, m, c) : v \in {1, 2}, t \in Transactions, m \in Methods, c \in Commitments}

Vectors ==
  {vec(eip712(p, k, t), p, k, t) : p \in Payloads, k \in {"seller", "stranger"}, t \in {1, 2}}
  \union {vec(jws(p, k), p, k, 2) : p \in Payloads, k \in {"seller", "stranger"}}

Altered(v) ==
  {[v EXCEPT !.receipt.payload.authorizationCommitment = commit_to("b", "payer")], [v EXCEPT !.receipt.payload.transaction = "tb"],
   [v EXCEPT !.receipt.payload.version = 2], [v EXCEPT !.receipt.payload.version = 3],
   [v EXCEPT !.receipt.payload.payer = "not_an_address"], [v EXCEPT !.receipt.signature.by = "none"],
   [v EXCEPT !.receipt.encoded = FALSE], [v EXCEPT !.receipt.shape = "no_payload"], [v EXCEPT !.receipt.shape = "issued_at"],
   [v EXCEPT !.receipt.format = "other"], [v EXCEPT !.receipt.duplicated = TRUE], [v EXCEPT !.receipt.alg = "none"],
   [v EXCEPT !.receipt.kid = "kid2"], [v EXCEPT !.salt = "sb"], [v EXCEPT !.salt = "none"], [v EXCEPT !.asset = "none"],
   [v EXCEPT !.asset = "other"], [v EXCEPT !.candidates.set = {}], [v EXCEPT !.candidates.obtained = FALSE],
   [v EXCEPT !.candidates.set = @ \union {[nonce |-> "a", tx |-> "tb"]}]}

\* A link rests on a payload the authorized seller signed with the commitment
\* in it, opens to one consumed nonce, and the transaction, if named, is that
\* nonce's.
LinkSound(v) ==
  LET p == v.signed.payload
      a == {c \in v.candidates.set : c.nonce = p.authorizationCommitment[4]}
  IN  /\ v.signed.by = "seller" /\ v.signed.types = 2 /\ v.receipt.payload = p
      /\ p.authorizationCommitment[3] = p.payer
      /\ Cardinality(a) = 1
      /\ p.transaction = "" \/ [nonce |-> p.authorizationCommitment[4], tx |-> p.transaction] \in a

-----------------------------------------------------------------------------
(* Statement logs *)

Stated(agent, result, seq, prev, verifier) ==
  make_statement("receipt", result, "rater", agent, <<"head">>, seq, prev, verifier)

S0 == Stated("agent7", "opens_to_settlement", 0, <<>>, "verifier")
S1(result) == Stated("agent7", result, 1, <<S0>>, "verifier")
S2(result) == Stated("agent9", "opens_to_settlement", 2, <<S1(result)>>, "verifier")
Log(result) == <<S0, S1(result), S2(result)>>

Logs == {[log |-> Log(r), signed |-> Log(r)] : r \in {"opens_to_settlement", "no_settlement"}}

Swapped(log, i, j) == [log EXCEPT ![i] = log[j], ![j] = log[i]]
Forged(log, i) == Stated("agent9", "opens_to_settlement", i - 1, IF i = 1 THEN <<>> ELSE <<log[i - 1]>>, "stranger")

LogEdits(c) ==
  LET n == Len(c.log) IN
  {[c EXCEPT !.log = SubSeq(@, 1, i - 1) \o SubSeq(@, i + 1, n)] : i \in 1..n}
  \union {[c EXCEPT !.log = Swapped(@, i, j)] : i, j \in 1..n}
  \union {[c EXCEPT !.log[i].result = r] : i \in 1..n, r \in {"opens_to_settlement", "no_settlement"}}
  \union {[c EXCEPT !.log[i].agent = "agent9"] : i \in 1..n}
  \union {[c EXCEPT !.log[i].seq = i - 1] : i \in 1..n}
  \union {[c EXCEPT !.log[i].prev = IF i = 1 THEN <<>> ELSE <<c.log[i - 1]>>] : i \in 1..n}
  \union {[c EXCEPT !.log[i] = Forged(c.log, i)] : i \in 1..n}
  \union {[c EXCEPT !.log[i].type = "opening/0"] : i \in 1..n}

PairsOf(log) == grounded_pairs({log[i] : i \in DOMAIN log}, {"verifier"})

\* What counts was stated by the trusted verifier, and a log of its statements
\* alone that holds together is the beginning of the log it wrote.
LogSound(c) ==
  /\ PairsOf(c.log) \subseteq PairsOf(c.signed)
  /\ (\A i \in DOMAIN c.log : c.log[i].verifier = "verifier") =>
       Len(c.log) <= Len(c.signed) /\ c.log = SubSeq(c.signed, 1, Len(c.log))
=============================================================================
