---------------------------- MODULE BindingChecks ----------------------------
(***************************************************************************)
(* Checkers that bind one record to another: a scan to the documents a      *)
(* decision used (examples/scan-subject-binding), a payment to a verdict    *)
(* (examples/resolution-payment-pair-v0), and attestation references to the *)
(* events they name (examples/erc-8337-attestation-refs). A hash is the     *)
(* term it hashes; a signature is who made it and over what.                *)
(***************************************************************************)
EXTENDS Naturals, FiniteSets
LOCAL INSTANCE SequencesExt

-----------------------------------------------------------------------------
(* A scan and its subject. Documents are numbers, in the order of their     *)
(* hashes; 5 is the insertion that the published scanner finds.             *)

A == {1, 2, 3, 4}
B == A \union {5}
Poisoned == {5}

leaf(d) == <<d>>
Interior(l, r) == <<l, r>>
Leaves(docs) == [i \in 1..Cardinality(docs) |-> leaf(CHOOSE d \in docs : Cardinality({x \in docs : x < d}) = i - 1)]

\* The largest power of two below n.
Split(n) == CHOOSE k \in {2^j : j \in 0..n} : k < n /\ n <= 2 * k

\* The tree over leaves lo to hi.
mth(leaves) ==
  LET t[p \in (1..Len(leaves)) \X (1..Len(leaves))] ==
        LET k == Split(p[2] - p[1] + 1)
        IN  IF p[1] = p[2] THEN leaves[p[1]] ELSE Interior(t[<<p[1], p[1] + k - 1>>], t[<<p[1] + k, p[2]>>])
  IN  t[<<1, Len(leaves)>>]

root(docs) == mth(Leaves(docs))

\* Siblings on the way up from leaf m, the lowest first.
path(leaves, m) ==
  LET siblings[p \in (1..Len(leaves)) \X (1..Len(leaves))] ==
        LET k == Split(p[2] - p[1] + 1)
            left == <<p[1], p[1] + k - 1>>
            right == <<p[1] + k, p[2]>>
        IN  CASE p[1] = p[2] -> <<>>
              [] p[1] # p[2] /\ m <= left[2] -> Append(siblings[left], mth(SubSeq(leaves, right[1], right[2])))
              [] p[1] # p[2] /\ m > left[2] -> Append(siblings[right], mth(SubSeq(leaves, left[1], left[2])))
  IN  siblings[<<1, Len(leaves)>>]

\* Trailing zero bits of a positive number.
Zeros(n) == CHOOSE k \in 0..n : n % 2^k = 0 /\ n % 2^(k + 1) # 0

\* One sibling: fn and sn are the positions of the node and of the last node.
Climb(st, p) ==
  IF st.sn = 0 THEN [st EXCEPT !.ok = FALSE]
  ELSE IF st.fn % 2 = 1 \/ st.fn = st.sn
  THEN LET up == 2^(IF st.fn % 2 = 1 THEN 1 ELSE Zeros(st.fn) + 1)
       IN  [st EXCEPT !.r = Interior(p, @), !.fn = @ \div up, !.sn = @ \div up]
  ELSE [st EXCEPT !.r = Interior(@, p), !.fn = @ \div 2, !.sn = @ \div 2]

verify_inclusion(proof, want) ==
  /\ proof.index < proof.tree_size
  /\ LET end == FoldLeft(Climb, [fn |-> proof.index, sn |-> proof.tree_size - 1, r |-> proof.leaf, ok |-> TRUE], proof.path)
     IN  end.ok /\ end.sn = 0 /\ end.r = want

\* The documents of a corpus that match the query best, best first.
retrieve(corpus, k) ==
  LET ranked == SelectSeq(<<5, 1, 4, 3, 2>>, LAMBDA d : d \in corpus)
  IN  SubSeq(ranked, 1, k)

inclusion(corpus, d) ==
  LET i == CHOOSE i \in DOMAIN Leaves(corpus) : Leaves(corpus)[i] = leaf(d)
  IN  [leaf |-> leaf(d), index |-> i - 1, tree_size |-> Cardinality(corpus), path |-> path(Leaves(corpus), i)]

decision(corpus, k) ==
  LET ret == retrieve(corpus, k)
  IN  [k |-> k, retrieved |-> ret, effective |-> root(ToSet(ret)), corpus_root |-> root(corpus),
       proofs |-> {inclusion(corpus, ret[i]) : i \in DOMAIN ret}, answer |-> ret[1]]

manifest(corpus, subject, scanner, semantics, result) ==
  LET body == [merkle_root |-> root(corpus),
               scan |-> [result |-> result, subject |-> subject, scanner |-> scanner, semantics |-> semantics]]
  IN  [body |-> body, sig |-> [by |-> "issuer", over |-> body]]

\* Subject <<>> is no subject_digest.
ScanGenuine ==
  {[corpus |-> c, decision |-> decision(c, k), manifest |-> manifest(c, s, n, m, r)] :
     c \in {A, B}, k \in {1, 2}, s \in {<<>>, root(A), root(B), root({1}), root({5})},
     n \in {"opaque", "toy"}, m \in {"recordwise", "statistical"}, r \in {"clean", "found"}}

toy_scan(docs) == docs \intersect Poisoned

check_decision(c) ==
  LET d == c.decision
      ret == retrieve(c.corpus, d.k)
  IN  {f \in {"signature", "root", "corpus_root", "retrieval", "effective", "answer"} :
         CASE f = "signature" -> c.manifest.sig # [by |-> "issuer", over |-> c.manifest.body]
           [] f = "root" -> c.manifest.body.merkle_root # root(c.corpus)
           [] f = "corpus_root" -> d.corpus_root # root(c.corpus)
           [] f = "retrieval" -> ret # d.retrieved
           [] f = "effective" -> d.effective # root(ToSet(d.retrieved))
           [] f = "answer" -> ret[1] # d.answer}

\* (mutant) The proofs are read for their leaves and not verified.
ProvedClaimed(c) == {p.leaf : p \in c.decision.proofs}
Proved(c) == {p.leaf : p \in {q \in c.decision.proofs : verify_inclusion(q, c.manifest.body.scan.subject)}}

subject_bound(c) ==
  LET s == c.manifest.body.scan
      d == c.decision
      consumed == {leaf(x) : x \in ToSet(d.retrieved)}
      own == s.subject = d.effective
      whole == s.subject = root(c.corpus) /\ s.subject = d.corpus_root
      graded(docs) ==
        CASE s.scanner = "toy" -> [verdict |-> IF toy_scan(docs) # {} THEN "CONTRADICTED" ELSE "NO_FINDING", grade |-> "REPRODUCED"]
          [] s.scanner # "toy" -> [verdict |-> "NO_FINDING", grade |-> "AUTHENTICATED_REPORT"]
      none(verdict) == [verdict |-> verdict, grade |-> "none"]
  IN  IF s.result # "clean" THEN none("NOT_VALID")
      ELSE IF s.subject = <<>> \/ d.k # 1 \/ Len(d.retrieved) # 1 THEN none("CANNOT_ESTABLISH")
      ELSE IF own THEN graded(ToSet(d.retrieved))
      ELSE IF whole /\ s.semantics = "recordwise" /\ consumed \subseteq Proved(c) THEN graded(c.corpus)
      ELSE none("CANNOT_ESTABLISH")

\* Other proofs of the same document, a proof of another, or of an interior
\* node taken for a leaf of a smaller tree.
OtherProofs(c, p) ==
  {[p EXCEPT !.index = i] : i \in 0..5} \union {[p EXCEPT !.tree_size = n] : n \in 1..6}
  \union {[p EXCEPT !.path = Reverse(@)], [p EXCEPT !.path = Append(@, leaf(2))], [p EXCEPT !.leaf = leaf(9)]}
  \union {[p EXCEPT !.path = Tail(@)] : x \in {1} \intersect DOMAIN p.path}
  \union {[leaf |-> mth(SubSeq(Leaves(c.corpus), 1, 2)), index |-> 0, tree_size |-> 2,
           path |-> <<mth(SubSeq(Leaves(c.corpus), 3, Cardinality(c.corpus)))>>]}

ScanEdits(c) ==
  UNION {{[c EXCEPT !.decision.proofs = (@ \ {p}) \union {q}] : q \in OtherProofs(c, p)} : p \in c.decision.proofs}
  \union {[c EXCEPT !.decision.retrieved = <<d>>] : d \in {2, 9}}
  \union {[c EXCEPT !.decision.effective = root({1})], [c EXCEPT !.decision.proofs = {}], [c EXCEPT !.decision.k = 1],
          [c EXCEPT !.manifest.body.scan.subject = c.decision.corpus_root], [c EXCEPT !.manifest.body.scan.result = "clean"],
          [c EXCEPT !.manifest.sig.by = "stranger", !.manifest.sig.over = c.manifest.body]}

\* A finding-free verdict is about a signed, clean scan of a set that holds the
\* document used, and a reproduced one is true of that document.
ScanSound(c) ==
  subject_bound(c).verdict = "NO_FINDING" =>
    LET s == c.manifest.body.scan
        used == ToSet(c.decision.retrieved)
    IN  /\ s.result = "clean"
        /\ \/ s.subject = c.decision.effective
           \/ s.subject = root(c.corpus) /\ used \subseteq c.corpus /\ s.semantics = "recordwise"
        /\ check_decision(c) = {} =>
             /\ c.manifest.sig.over.scan = s
             /\ \E docs \in {used, c.corpus} : s.subject = root(docs) /\ used \subseteq docs
             /\ subject_bound(c).grade = "REPRODUCED" => used \intersect Poisoned = {}

-----------------------------------------------------------------------------
(* A payment and the verdict it ran under. The decision reference is the    *)
(* verdict and the arguments it was given over.                             *)

Policy(declared, on) == [declared |-> declared, on |-> on]
Args(policy) == [token |-> "usdc", from |-> "payer", to |-> "payee", amount |-> 1, policy |-> policy]

Verdict(verdict, args, by) ==
  LET content == [verdict |-> verdict, args_hash |-> args, decision_ref |-> <<verdict, args>>]
  IN  [by |-> by, content |-> content, sealed |-> content]

AuthUsed(from, nonce) == [address |-> "usdc", topic |-> "auth", from |-> from, to |-> "none", amount |-> 0, nonce |-> nonce]
Transfer(from, to, n) == [address |-> "usdc", topic |-> "transfer", from |-> from, to |-> to, amount |-> n, nonce |-> <<>>]

synthetic(verdict, carried, policy) ==
  LET ev == Verdict(verdict, Args(policy), "issuer")
  IN  [args |-> Args(policy), event |-> ev, have |-> TRUE, status |-> 1,
       logs |-> {AuthUsed("payer", IF carried THEN ev.content.decision_ref ELSE <<>>), Transfer("payer", "payee", 1)}]

PairGenuine ==
  {synthetic(v, n, p) : v \in {"approve", "reject"}, n \in BOOLEAN, p \in {Policy(FALSE, {}), Policy(TRUE, {}), Policy(TRUE, {"approve"})}}

verify_proof(ev, key) == ev.by = key /\ ev.sealed = ev.content

Auths(c) == {l \in c.logs : l.address = c.args.token /\ l.topic = "auth"}

covers(c) ==
  LET k == c.event.content
  IN  /\ verify_proof(c.event, "issuer")
      /\ k.decision_ref = <<k.verdict, k.args_hash>>
      /\ k.args_hash = c.args
      /\ c.status = 1
      /\ \E l \in Auths(c) : l.from = c.args.from
      /\ \E l \in c.logs : l.address = c.args.token /\ l.topic = "transfer" /\ l.from = c.args.from
                             /\ l.to = c.args.to /\ l.amount = c.args.amount

\* (mutant) The verdict's time before the block's is taken for the binding.
carriedLater(c) == Auths(c) # {}
carried(c) == \E l \in Auths(c) : l.nonce = c.event.content.decision_ref

Outcome(outcome, reasons) == [outcome |-> outcome, reasons |-> reasons]

\* The edges of a covered payment that are missing.
Missing(c) ==
  {r \in {"payment_does_not_carry_verdict", "execution_policy_not_committed"} :
     CASE r = "payment_does_not_carry_verdict" -> ~carried(c)
       [] r = "execution_policy_not_committed" -> ~c.args.policy.declared}

evaluate(c) ==
  CASE ~c.have -> Outcome("UNRESOLVED", {"evidence_unavailable"})
    [] c.have /\ ~covers(c) -> Outcome("UNRESOLVED", {"verdict_does_not_cover_payment"})
    [] c.have /\ covers(c) ->
         IF Missing(c) = {} /\ c.event.content.verdict \notin c.args.policy.on
         THEN Outcome("UNAUTHORIZED", {"executed_on_verdict_outside_policy"})
         ELSE Outcome(IF Missing(c) = {} THEN "AUTHORIZED" ELSE "UNRESOLVED", Missing(c))

PairEdits(c) ==
  {[c EXCEPT !.args.amount = 2], [c EXCEPT !.args.policy = Policy(TRUE, {"approve"})], [c EXCEPT !.args.to = "other"],
   [c EXCEPT !.event.content.verdict = "approve"],
   [c EXCEPT !.event = Verdict("approve", c.args, "stranger")], [c EXCEPT !.have = FALSE], [c EXCEPT !.status = 0],
   [c EXCEPT !.logs = @ \union {AuthUsed("other", c.event.content.decision_ref)}],
   [c EXCEPT !.logs = {l \in @ : l.topic # "auth"}], [c EXCEPT !.logs = {[l EXCEPT !.address = "fake"] : l \in @}],
   [c EXCEPT !.logs = {l \in @ : l.topic # "transfer"} \union {Transfer("payer", "other", 1)}]}

\* Decided either way, the payment is of the arguments the issuer signed its
\* verdict over, policy included, the payer authorized it, and a nonce used in
\* the transaction commits to the verdict. The payer's authorization and the
\* nonce are one when the transaction used one authorization; check.py:8 says
\* they always are ("the receipt's AuthorizationUsed nonce equals V's
\* decision_ref"), but line 63 looks at every authorization of the token, and
\* another account's may carry it. An undecided payment the issuer's verdict
\* covers names every edge it lacks: its policy was not among the arguments
\* signed, and no nonce commits to the verdict, each exactly when it is named.
PairSound(c) ==
  LET k == c.event.sealed
      e == evaluate(c)
      nonces == {l.nonce : l \in {m \in c.logs : m.address = k.args_hash.token /\ m.topic = "auth"}}
      payer == {l \in c.logs : l.address = k.args_hash.token /\ l.topic = "auth" /\ l.from = k.args_hash.from}
  IN  /\ e.outcome \in {"AUTHORIZED", "UNAUTHORIZED"} =>
           /\ c.event.by = "issuer" /\ k.args_hash = c.args
           /\ Transfer(k.args_hash.from, k.args_hash.to, k.args_hash.amount) \in c.logs
           /\ (e.outcome = "AUTHORIZED") <=> (k.verdict \in k.args_hash.policy.on)
           /\ payer # {} /\ <<k.verdict, k.args_hash>> \in nonces
           /\ Cardinality(Auths(c)) = 1 => \A l \in payer : l.nonce = <<k.verdict, k.args_hash>>
      /\ e.outcome = "UNRESOLVED" /\ e.reasons \intersect {"evidence_unavailable", "verdict_does_not_cover_payment"} = {} =>
           /\ c.event.by = "issuer" /\ payer # {}
           /\ ("payment_does_not_carry_verdict" \in e.reasons) <=> (<<k.verdict, k.args_hash>> \notin nonces)
           /\ ("execution_policy_not_committed" \in e.reasons) <=> ~k.args_hash.policy.declared

-----------------------------------------------------------------------------
(* Attestation references. An event's content is the number of its decision *)
(* and a remark; its id is the hash of author and content.                  *)

Event(by, d) == [pubkey |-> by, content |-> [decision |-> d, remark |-> "a"],
                 sig |-> [by |-> by, over |-> <<by, [decision |-> d, remark |-> "a"]>>], id |-> <<by, [decision |-> d, remark |-> "a"]>>]
Ref(ev, url) == [decision_ref |-> ev.content.decision, event_id |-> ev.id, pubkey |-> ev.pubkey, verify_url |-> url]
Events == {Event("v1", 1), Event("v1", 2), Event("v2", 3), Event("v2", 1)}

\* The first of each event and key, without its URL, by decision reference;
\* those with equal references stay in the order they came.
canonicalize(raw) ==
  LET key(i) == <<raw[i].event_id, raw[i].pubkey>>
      kept == {i \in DOMAIN raw : \A j \in 1..(i - 1) : key(j) # key(i)}
      before(i, j) == raw[i].decision_ref < raw[j].decision_ref \/ (raw[i].decision_ref = raw[j].decision_ref /\ i < j)
      entry(i) == [decision_ref |-> raw[i].decision_ref, event_id |-> raw[i].event_id, pubkey |-> raw[i].pubkey]
  IN  [n \in 1..Cardinality(kept) |-> entry(CHOOSE i \in kept : Cardinality({j \in kept : before(j, i)}) = n - 1)]

verify_signature(ev) == ev.id = <<ev.pubkey, ev.content>> /\ ev.sig = [by |-> ev.pubkey, over |-> ev.id]

recompute_decision_ref(ev) == ev.content.decision

classify_authority(pubkey, trusted, valid) ==
  CASE ~valid -> "structurally_invalid"
    [] valid /\ pubkey \in trusted -> "valid_and_authorized"
    [] valid /\ pubkey \notin trusted -> "structurally_valid_zero_authority"

EntryOk(e, events) == \E ev \in events : ev.id = e.event_id /\ verify_signature(ev) /\ recompute_decision_ref(ev) = e.decision_ref

check_positive(c) ==
  LET entries == canonicalize(c.raw)
  IN  entries = c.canonical /\ \A i \in DOMAIN entries : EntryOk(entries[i], c.events)

\* Reversed, with the first and last repeated, the references must come out the same.
check_negative_shuffle_and_duplicate(c) ==
  canonicalize(Reverse(c.raw) \o <<c.raw[1], c.raw[Len(c.raw)]>>) = canonicalize(c.raw)

RefsVerdict(c) ==
  LET named(e) == {ev \in c.events : ev.id = e.event_id}
      found == {e \in ToSet(canonicalize(c.raw)) : named(e) # {}}
  IN  [exit |-> IF check_positive(c) /\ check_negative_shuffle_and_duplicate(c) THEN 0 ELSE 1,
       lines |-> {<<e.event_id, classify_authority(e.pubkey, {"v1"}, \A ev \in named(e) : verify_signature(ev))>> : e \in found}]

RefsGenuine ==
  {LET raw == [i \in 1..3 |-> Ref(evs[i], urls[i])]
   IN  [raw |-> raw, canonical |-> canonicalize(raw), events |-> Events] :
     evs \in [1..3 -> Events], urls \in {<<"u", "u", "u">>, <<"u", "w", "u">>}}

RefsEdits(c) ==
  {[c EXCEPT !.raw = Reverse(@)], [c EXCEPT !.raw = Append(@, @[1])], [c EXCEPT !.canonical = Reverse(@)], [c EXCEPT !.raw[1].verify_url = "x"],
   [c EXCEPT !.raw[1].decision_ref = 3], [c EXCEPT !.raw = Append(@, [@[1] EXCEPT !.decision_ref = 2])], [c EXCEPT !.raw[1].pubkey = "v1"],
   [c EXCEPT !.canonical = canonicalize(c.raw)], [c EXCEPT !.events = @ \ {Event("v1", 1)}],
   [c EXCEPT !.events = {IF e.id = Event("v1", 1).id THEN [e EXCEPT !.content.decision = 3] ELSE e : e \in @}],
   [c EXCEPT !.events = {IF e.id = Event("v2", 3).id THEN [e EXCEPT !.sig.by = "v1"] ELSE e : e \in @}]}

\* An entry's identity, and what the author of an event signed.
Identity(e) == <<e.event_id, e.pubkey>>
SignedBy(id) == id[1]
SignedDecision(id) == id[2].decision

\* What passes names each event and key once, and the event's author signed the
\* decision the entry states. The author is the entry's key when no reference
\* names the event under another: then a line that calls it authorized says so
\* of the one who signed. README.md:21 promises it always ("the signature
\* verifies against the entry's pubkey"), but verify_signature() takes the
\* event's own pubkey and classify_authority() the entry's. The order the
\* references came in shows in the result only between equal decisions, or
\* entries of one event that contradict each other.
RefsSound(c) ==
  LET named(id) == {c.raw[i].pubkey : i \in {j \in DOMAIN c.raw : c.raw[j].event_id = id}}
  IN
  /\ RefsVerdict(c).exit = 0 =>
       /\ IsInjective([i \in DOMAIN c.canonical |-> Identity(c.canonical[i])])
       /\ {Identity(c.canonical[i]) : i \in DOMAIN c.canonical} = {Identity(c.raw[i]) : i \in DOMAIN c.raw}
       /\ \A i \in DOMAIN c.canonical : LET id == c.canonical[i].event_id IN
            /\ SignedDecision(id) = c.canonical[i].decision_ref
            /\ \E ev \in c.events : ev.id = id /\ ev.pubkey = SignedBy(id) /\ ev.sig.by = SignedBy(id) /\ ev.sig.over = id
  /\ \A x \in RefsVerdict(c).lines :
       x[2] = "valid_and_authorized" /\ named(x[1]) = {SignedBy(x[1])} =>
         SignedBy(x[1]) = "v1" /\ \E ev \in c.events : ev.id = x[1] /\ ev.sig.by = "v1" /\ ev.sig.over = x[1]
  /\ canonicalize(Reverse(c.raw)) = canonicalize(c.raw)
     \/ \E i, j \in DOMAIN c.raw : i # j /\ (c.raw[i].decision_ref = c.raw[j].decision_ref) # (c.raw[i].event_id = c.raw[j].event_id /\ c.raw[i].pubkey = c.raw[j].pubkey)
=============================================================================
