--------------------------- MODULE MCReceiptLink ---------------------------
(***************************************************************************)
(* ReceiptLink for TLC: receipts of one seller about one payer, who makes  *)
(* at most two payments, one to a wallet of the agent, which one of two    *)
(* transactions settles on each fork.                                      *)
(***************************************************************************)
EXTENDS ReceiptLink

Genuine == Commitment("eip3009", "usdc", "payer", "n1", "s1")

Paid(version, tx, method, commitment) ==
  [version |-> version, payer |-> "payer", transaction |-> tx, authorizationMethod |-> method,
   authorizationCommitment |-> commitment]

Receipt(p, sig) == [format |-> "eip712", shape |-> "ok", encoded |-> TRUE, payload |-> p, signature |-> sig]
Signed(p) == Receipt(p, Signature("seller", eip712_digest(p, p.version)))

Plain == Paid(2, "", "eip3009", Genuine)

MCHeld ==
  {[receipt |-> Signed(Plain), salt |-> s, asset |-> "usdc"] : s \in {"s1", "s2"}}
  \union {[receipt |-> r, salt |-> "s1", asset |-> "usdc"] :
            r \in {Signed(Paid(2, "t9", "eip3009", Genuine)),
                   Receipt(Plain, Signature("none", <<>>))}}

MCPayments == {[nonce |-> "n1", tx |-> "t1", to |-> "w1"], [nonce |-> "n1", tx |-> "t9", to |-> "w1"],
               [nonce |-> "n2", tx |-> "t2", to |-> "w2"]}
=============================================================================
