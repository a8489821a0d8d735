------------------------------ MODULE Mandates ------------------------------
(***************************************************************************)
(* examples/x402-receipt-ap2-mandate: check() of mandate_check.py over the  *)
(* bundles of build_vectors.py. A signed token is who signed it and what it *)
(* carries; what the parties really signed is kept in "signed".             *)
(***************************************************************************)
EXTENDS Naturals, FiniteSets

R == INSTANCE Receipts

cart(payTo, max) == [id |-> "cart", network |-> "base", scheme |-> "exact", asset |-> "usdc", payTo |-> payTo, max |-> max]

cart_mandate(contents, signed, by) == [contents |-> contents, merchant |-> [by |-> by, cart_hash |-> signed]]

pm_contents(value, nonce) ==
  [id |-> "cart", network |-> "base", scheme |-> "exact", from |-> "payer", to |-> "shop", value |-> value, nonce |-> nonce]

\* The issuer vouches for the user's key, which signs the credential and the
\* hashes of the cart mandate and of the payment.
consent(cm, pmc, issuer, signer) ==
  LET cred == [by |-> issuer, cnf |-> "user"]
  IN  [cred |-> cred, kb |-> [by |-> signer, sd_hash |-> cred, data |-> {cm, pmc}]]

receipt(nonce) ==
  [payer |-> "payer", method |-> "eip3009", commitment |-> R!Commitment("eip3009", "usdc", "payer", nonce, "salt")]

settlement(nonce, to, amount) == [nonce |-> nonce, status |-> 1, read |-> TRUE, to |-> to, amount |-> amount]

\* Two settlements of the payer; n3 is never consumed.
Chain == [available |-> TRUE, nonces |-> {settlement("n1", "shop", 2), settlement("n2", "shop", 2)}]

bundle(c, signed, value, nonce, rec, issuer, signer) ==
  LET cm == cart_mandate(c, signed, "merchant")
      pmc == pm_contents(value, nonce)
  IN  [cm |-> cm, pmc |-> pmc, auth |-> consent(cm, pmc, issuer, signer), receipt |-> receipt(rec), salt |-> "salt",
       chain |-> Chain, shape |-> "ok", signed |-> [user |-> IF signer = "user" THEN {cm, pmc} ELSE {}, merchant |-> signed]]

Genuine ==
  {bundle(cart(to, max), IF same THEN cart(to, max) ELSE cart(to, 1), v, n, r, i, u) :
     to \in {"shop", "other"}, max \in {1, 2}, same \in BOOLEAN, v \in {1, 2}, n \in {"n1", "n3"}, r \in {"n1", "n2"},
     i \in {"issuer", "stranger"}, u \in {"user", "stranger"}}

Edits(b) ==
  {[b EXCEPT !.cm.contents.max = 3], [b EXCEPT !.cm.contents.payTo = "thief"], [b EXCEPT !.cm.merchant.by = "stranger"],
   [b EXCEPT !.cm.merchant.cart_hash = b.cm.contents, !.cm.merchant.by = "stranger"],
   [b EXCEPT !.pmc.to = "thief"], [b EXCEPT !.pmc.value = 1], [b EXCEPT !.pmc.nonce = "n2"], [b EXCEPT !.pmc.id = "other"],
   [b EXCEPT !.auth.kb.data = {b.cm, b.pmc}, !.auth.kb.by = "stranger"],
   [b EXCEPT !.auth.cred.cnf = "stranger", !.auth.cred.by = "stranger"],
   [b EXCEPT !.receipt = receipt("n1")], [b EXCEPT !.receipt.payer = "other"], [b EXCEPT !.salt = "other"],
   [b EXCEPT !.receipt.method = "permit2"], [b EXCEPT !.shape = "bad"],
   [b EXCEPT !.chain.available = FALSE], [b EXCEPT !.chain.nonces = {}]}
  \union {[b EXCEPT !.chain.nonces = {IF s.nonce = "n1" THEN t ELSE s : s \in @}] :
            t \in {settlement("n1", "shop", 1), settlement("n1", "other", 2), [settlement("n1", "shop", 2) EXCEPT !.status = 0],
                   [settlement("n1", "shop", 2) EXCEPT !.read = FALSE]}}

-----------------------------------------------------------------------------
jwt_verify(token, key) == token.by = key

ConsentValid(b) ==
  /\ jwt_verify(b.auth.cred, "issuer")
  /\ jwt_verify(b.auth.kb, b.auth.cred.cnf)
  /\ b.auth.kb.sd_hash = b.auth.cred

\* (mutant) The payment's own id is not compared with the cart's, and the
\* payment is not among the hashes.
ConsentBoundCart(b) == b.cm \in b.auth.kb.data
ConsentBound(b) == b.cm \in b.auth.kb.data /\ b.pmc \in b.auth.kb.data /\ b.pmc.id = b.cm.contents.id

TermsOk(b) ==
  LET req == b.cm.contents
  IN  b.pmc.network = req.network /\ b.pmc.scheme = req.scheme /\ b.pmc.to = req.payTo /\ b.pmc.value <= req.max

ThisAuthorization(b) ==
  /\ b.receipt.payer = b.pmc.from
  /\ b.receipt.method = "eip3009"
  /\ R!Commitment("eip3009", b.cm.contents.asset, b.receipt.payer, b.pmc.nonce, b.salt) = b.receipt.commitment

check(b) ==
  LET s == {x \in b.chain.nonces : x.nonce = b.pmc.nonce /\ x.status = 1}
  IN  IF b.shape # "ok" THEN "malformed"
      ELSE IF ~ConsentValid(b) THEN "consent_invalid"
      ELSE IF ~ConsentBound(b) THEN "consent_not_bound"
      ELSE IF ~jwt_verify(b.cm.merchant, "merchant") \/ b.cm.merchant.cart_hash # b.cm.contents THEN "cart_not_merchant_signed"
      ELSE IF ~TermsOk(b) THEN "terms_mismatch"
      ELSE IF ~ThisAuthorization(b) THEN "receipt_not_this_authorization"
      ELSE IF ~b.chain.available THEN "incomplete_check"
      ELSE IF s = {} THEN "no_settlement"
      ELSE IF \E x \in s : ~x.read THEN "incomplete_check"
      ELSE IF ~\E x \in s : x.to = b.pmc.to /\ x.amount = b.pmc.value THEN "settlement_terms_mismatch"
      ELSE "consented_and_settled"

\* The user signed this very cart and payment, the merchant this very cart, and
\* the chain shows one transfer of no more than the cart's price to the cart's
\* payee, under the nonce the receipt commits to.
Sound(b) ==
  /\ {b.cm, b.pmc} \subseteq b.signed.user
  /\ b.signed.merchant = b.cm.contents
  /\ \E x \in b.chain.nonces : /\ x.status = 1 /\ x.to = b.cm.contents.payTo /\ x.amount <= b.cm.contents.max
                               /\ b.receipt.commitment[4] = x.nonce
=============================================================================
