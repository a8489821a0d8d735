------------------------------ MODULE Approvals ------------------------------
(***************************************************************************)
(* examples/musubi-approver-v2: a third party's approval of an action under *)
(* a contract that pins its approvers, verified by verify_approval_v2.py    *)
(* over the contracts and approvals of build_vectors.py. A digest is the    *)
(* term it hashes, a key its holder.                                        *)
(***************************************************************************)
EXTENDS Naturals, Sequences

Pin(name, key, actions) == [name |-> name, key |-> key, actions |-> actions]

\* Contracts between the same parties, with other terms, other approvers, none.
Contract(expiry, approvers) == [id |-> "c1", expiry |-> expiry, approvers |-> approvers, signatures |-> "ab"]

Contracts ==
  {Contract(e, a) : e \in {1, 2},
     a \in {<<>>, <<Pin("inv", "approver", {"emit"})>>,
            <<Pin("inv", "approver", {"emit"}), Pin("inv", "forger", {"emit", "pay"})>>,
            <<Pin("other", "approver", {"pay"}), Pin("inv", "approver", {"emit"})>>,
            <<Pin("inv", "bad", {"emit"})>>}}

\* (mutant) The approval names the contract and not its terms.
contract_sha256Id(contract) == <<contract.id>>

\* Everything but the parties' signatures.
contract_sha256(contract) == <<contract.id, contract.expiry, contract.approvers>>

approval_v2_bytes(contract, e, key) ==
  <<contract_sha256(contract), e.action, key, e.valid_until, e.nonce, e.single_use>>

policy_reading(contract) == IF contract.approvers = <<>> THEN "approval_self_asserted" ELSE "pinned"

\* approval(): signed by whoever holds sk, in the name of the approver's key.
approval(contract, sk, action, approver) ==
  LET e == [form |-> "object", by |-> "approver", action |-> action, approver |-> approver, valid_until |-> 1,
            nonce |-> "n1", single_use |-> "true"]
  IN  [entry |-> e, sig |-> [by |-> sk, over |-> approval_v2_bytes(contract, e, "approver")]]

Malformed(e) == e.action = "bad" \/ e.valid_until = 99 \/ e.nonce = "bad" \/ e.single_use = "bad"

\* The first pinned approver of the name the entry gives decides.
verify_approval_v2(contract, a) ==
  LET e == a.entry
      named == {i \in DOMAIN contract.approvers : contract.approvers[i].name = e.approver}
      pin == contract.approvers[CHOOSE i \in named : \A j \in named : i <= j]
  IN  IF e.form # "object" \/ e.by # "approver" THEN "not_an_approver_approval"
      ELSE IF Malformed(e) THEN "malformed"
      ELSE IF named = {} THEN "approver_not_pinned"
      ELSE IF e.action \notin pin.actions THEN "action_not_permitted_for_approver"
      ELSE IF pin.key = "bad" \/ a.sig.by = "bad" THEN "malformed_key_or_signature"
      ELSE IF a.sig # [by |-> pin.key, over |-> approval_v2_bytes(contract, e, pin.key)] THEN "bad_signature"
      ELSE "approved"

\* An entry, or only the contract to be read; what was approved is kept aside.
Reading(c) == IF c.supplied THEN verify_approval_v2(c.contract, c.approval) ELSE policy_reading(c.contract)

Genuine ==
  {[contract |-> k, approved |-> k, supplied |-> s, approval |-> approval(k, by, action, name)] :
     k \in Contracts, s \in BOOLEAN, by \in {"approver", "forger"}, action \in {"emit", "pay"}, name \in {"inv", "other"}}

Edits(c) ==
  {[c EXCEPT !.contract = k] : k \in Contracts}
  \union {[c EXCEPT !.contract.signatures = "none"], [c EXCEPT !.approval.entry.form = "text"],
          [c EXCEPT !.approval.entry.by = "party"], [c EXCEPT !.approval.entry.nonce = "bad"],
          [c EXCEPT !.approval.entry.nonce = "n2"], [c EXCEPT !.approval.entry.valid_until = 2],
          [c EXCEPT !.approval.entry.valid_until = 99], [c EXCEPT !.approval.entry.single_use = "false"],
          [c EXCEPT !.approval.entry.action = "pay"], [c EXCEPT !.approval.entry.approver = "other"],
          [c EXCEPT !.approval.sig.by = "bad"]}

\* An approval counts only for the contract it was given for, terms and approvers
\* included, with nothing of it changed, and by the holder of a key that this
\* contract pins for the action.
Sound(c) ==
  LET e == c.approval.entry
  IN  /\ [c.contract EXCEPT !.signatures = "ab"] = c.approved
      /\ \E i \in DOMAIN c.contract.approvers :
           /\ c.contract.approvers[i].key = c.approval.sig.by
           /\ e.action \in c.contract.approvers[i].actions
      /\ <<e.action, e.valid_until, e.nonce, e.single_use>> =
           <<c.approval.sig.over[2], c.approval.sig.over[4], c.approval.sig.over[5], c.approval.sig.over[6]>>
=============================================================================
