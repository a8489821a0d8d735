------------------------------- MODULE Nenrin -------------------------------
(***************************************************************************)
(* examples/nenrin-cleanroom-verifier: verify() of nenrin_cleanroom.py. A   *)
(* record has a body, the id stated for it and a signature: who signed      *)
(* which body. The id of a body is the body.                                *)
(***************************************************************************)
EXTENDS Integers, Sequences

NULL == -2  \* a bound that is absent
BAD  == -1  \* a time that is not of the form

Elements(s) == {s[i] : i \in DOMAIN s}
Refuse(code) == {<<"refuse", code>>}
Find(code) == {<<"find", code>>}
When(condition, lines) == IF condition THEN lines ELSE {}

-----------------------------------------------------------------------------
\* Only a did:key resolves offline.
did_key(id) == id \in {"caller", "prov", "wit", "stranger"}

sig_verifies(signer, sig, preimage) == did_key(signer) /\ sig = <<signer, preimage>>

recomputes(rec) == rec.id = rec.body

instant(t) == t # BAD

bound_ok(t) == t = NULL \/ instant(t)

in_window(g, t) == (g.nb = NULL \/ g.nb <= t) /\ (g.na = NULL \/ t <= g.na)

\* absent, or the digest of an action; "malformed" and "unknown" are neither.
action_binding(rec, action) == rec.binding \in {"absent", action}

actions_equal(a, b) == a # "none" /\ a = b

\* What the receipt and the intent have in common: rec is bound to the grant,
\* at time t, by a provider, before the two actions are compared.
Bound(grant, rec, t) ==
  /\ recomputes(grant) /\ recomputes(rec)
  /\ rec.body.grant_ref = grant.body
  /\ instant(t) /\ bound_ok(grant.body.nb) /\ bound_ok(grant.body.na)
  /\ grant.body.provider \in {"none", rec.body.provider}
  /\ in_window(grant.body, t)

PairBound(grant, rec) ==
  /\ action_binding(grant, grant.body.action) /\ action_binding(rec, rec.body.action)
  /\ Bound(grant, rec, rec.body.at)

pair_check(grant, rec) == PairBound(grant, rec) /\ actions_equal(grant.body.action, rec.body.action)

GrantFindings(grant) ==
  When(grant.body.provider = "none", Find("open_grant"))
  \union When(grant.body.provider = grant.body.caller, Find("self_authorized"))

-----------------------------------------------------------------------------
\* Step 0.
Identity(b) ==
  LET records == b.obs \o b.grant \o b.intent \o b.receipts
  IN  IF b.task = "none" THEN Refuse("task_id_missing") \union When(records # <<>>, Refuse("task_id_mismatch"))
      ELSE When(\E i \in DOMAIN records : records[i].body.task # b.task, Refuse("task_id_mismatch"))

\* Step 1, rules R1 and R2: the witness stands apart and signed, and so did the
\* party that delegates.
ObservationOk(o, sigs) ==
  LET hop == o.body.hop IN
  /\ o.body.witness \notin {hop.from, hop.to}
  /\ recomputes(o)
  /\ sigs => sig_verifies(o.body.witness, o.sig, o.body) /\ sig_verifies(hop.from, o.edge, <<o.body.task, hop>>)

\* R3: the hops are numbered from 0 without a gap, each after one of the last.
ChainOk(obs) ==
  LET seqs == {o.body.hop.seq : o \in obs}
  IN  /\ \A s \in seqs : \A i \in 0..s : i \in seqs
      /\ \A s \in seqs : s >= 0
      /\ \A o \in obs : IF o.body.hop.seq = 0 THEN o.body.prev = <<>>
                        ELSE \E p \in obs : p.body.hop.seq = o.body.hop.seq - 1 /\ o.body.prev = <<p.body>>

Delegation(b) ==
  LET obs == Elements(b.obs)
  IN  IF obs = {} /\ "obs" \notin b.malformed THEN Find("no_delegation_observations")
      ELSE When("obs" \in b.malformed \/ \E o \in obs : ~ObservationOk(o, b.sigs), Refuse("delegation_observation_invalid"))
           \union When(~ChainOk(obs), Refuse("delegation_chain_broken"))
           \union When(\E o, p \in obs : o.body.hop.seq = p.body.hop.seq /\ o.body.verdict # p.body.verdict, Find("witness_disagreement"))

-----------------------------------------------------------------------------
\* The ids of the receipts the granted provider signed for this grant.
Authentic(b) ==
  LET g == b.grant[1] IN
  {x.id : x \in {y \in Elements(b.receipts) :
                   /\ y.body.grant_ref = g.id /\ y.body.provider = g.body.provider
                   /\ recomputes(y)
                   /\ b.sigs => sig_verifies(g.body.provider, y.sig, y.body)}}

Pair(b) == b.grant # <<>> /\ b.receipts # <<>>

\* The receipt the bundle comes down to, as its body: at most one.
Reconciled(b) == IF Pair(b) /\ b.grant[1].body.provider # "none" /\ \E x \in Authentic(b) : Authentic(b) = {x}
                 THEN Authentic(b) ELSE {}

\* (mutant) A receipt behind the first is held against the grant unsigned.
CountsUnsigned(b, x) == TRUE
\* The receipts behind the first count when they are signed.
Counts(b, x) ==
  LET g == b.grant[1]
  IN  b.sigs => sig_verifies(g.body.caller, g.sig, g.body) /\ sig_verifies(x.body.provider, x.sig, x.body)

\* Step 2. The first receipt is the one presented.
Execution(b) ==
  LET g == b.grant[1]
      first == b.receipts[1]
      caller_ok == b.sigs => sig_verifies(g.body.caller, g.sig, g.body)
      signed(x) == b.sigs => sig_verifies(x.body.provider, x.sig, x.body)
      others == {x \in Elements(b.receipts) \ {first} : Counts(b, x)}
  IN  When({"grant", "receipt"} \intersect b.malformed # {}, Refuse("execution_invalid"))
      \union
      IF b.grant = <<>> /\ b.receipts = <<>> THEN Find("no_execution_records")
      ELSE IF ~Pair(b) THEN Refuse("execution_incomplete_pair")
      ELSE When(PairBound(g, first), GrantFindings(g))
           \union When(\E x \in {first} \union others : ~pair_check(g, x), Refuse("execution_invalid"))
           \union When(~caller_ok \/ ~signed(first), Refuse("execution_signature_invalid"))
           \union (IF g.body.provider = "none" \/ Authentic(b) = {} THEN Refuse("execution_unreconciled")
                   ELSE When(Reconciled(b) = {}, Refuse("execution_equivocation")))

\* Step 3.
Preflight(b) ==
  LET g == b.grant[1]
      n == b.intent[1]
      bound == action_binding(n, n.body.action) /\ Bound(g, n, n.body.at)
  IN  When("intent" \in b.malformed, Refuse("preflight_invalid"))
      \union
      IF b.intent = <<>> THEN {}
      ELSE IF b.grant = <<>> THEN Refuse("preflight_without_grant")
      ELSE When(bound, GrantFindings(g))
           \union When(~bound \/ ~actions_equal(g.body.action, n.body.action), Refuse("preflight_invalid"))
           \union When(b.sigs /\ ~sig_verifies(n.body.provider, n.sig, n.body), Refuse("preflight_signature_invalid"))
           \union When(\E x \in Reconciled(b) : n.body.action # x.action, Find("declared_executed_divergence"))

\* Step 4.
Evidence(b) ==
  LET E == IF Reconciled(b) # {} THEN (CHOOSE x \in Reconciled(b) : TRUE).evidence ELSE b.receipts[1].body.evidence
  IN  IF b.receipts = <<>> THEN {}
      ELSE CASE E = "none" -> Find("no_evidence_bound")
             [] E = "ref"  -> Find("evidence_bound_unchecked")
             [] OTHER      -> Refuse("evidence_invalid")

\* Step 5. A link is a receipt's body.
Linkage(b) ==
  LET links == UNION {Elements(o.body.link) : o \in Elements(b.obs)}
  IN  IF (b.obs = <<>> /\ "obs" \notin b.malformed) \/ Reconciled(b) = {} THEN {}
      ELSE IF links = {} THEN Find("no_digest_link")
      ELSE When(links # Reconciled(b), Refuse("linkage_receipt_mismatch"))

verify(b) == Identity(b) \union Delegation(b) \union Execution(b) \union Preflight(b) \union Evidence(b) \union Linkage(b)

verdict(lines) == IF \E x \in lines : x[1] = "refuse" THEN "refused" ELSE "accepted"

-----------------------------------------------------------------------------
(* Bundles as their parties make them, and as they are altered. *)

Signed(by, body) == [body |-> body, id |-> body, sig |-> <<by, body>>, binding |-> "absent"]

Grants == {Signed("caller", [task |-> "t", caller |-> "caller", provider |-> p, action |-> "a", nb |-> nb, na |-> 2]) :
             p \in {"prov", "caller", "none"}, nb \in {1, NULL}}

Made(g, by, action, at, evidence) ==
  Signed(by, [task |-> "t", grant_ref |-> g.body, provider |-> by, action |-> action, at |-> at, evidence |-> evidence])

Observed(seq, from, to, prev, link) ==
  LET hop == [seq |-> seq, from |-> from, to |-> to]
      body == [task |-> "t", hop |-> hop, witness |-> "wit", prev |-> prev, verdict |-> "ok", link |-> link]
  IN  [body |-> body, id |-> body, sig |-> <<"wit", body>>, binding |-> "absent", edge |-> <<from, <<"t", hop>>>>]

Hops(link) == LET o == Observed(0, "caller", "prov", <<>>, <<>>) IN <<o, Observed(1, "prov", "stranger", <<o.body>>, link)>>

Genuine ==
  UNION {UNION {{[task |-> "t", sigs |-> s, obs |-> o, grant |-> <<g>>, receipts |-> rs, intent |-> n, malformed |-> {}] :
           s \in BOOLEAN, o \in {<<>>, Hops(<<>>), Hops(<<rs[1].body>>)}, n \in {<<>>, <<Made(g, "prov", "a", 1, "none")>>}} :
           rs \in {<<Made(g, "prov", a, at, "ref")>> : a \in {"a", "b"}, at \in {2, 3}}
                  \union {<<Made(g, "prov", "a", 1, "none"), Made(g, "prov", "a", 2, "none")>>}} : g \in Grants}

\* A record changed under the old signature, with or without its id, or made
\* by a stranger.
Tampered(rec) ==
  UNION {{[rec EXCEPT !.body = x], [rec EXCEPT !.body = x, !.id = x], [rec EXCEPT !.body = x, !.id = x, !.sig = <<"stranger", x>>]} :
           x \in {[rec.body EXCEPT !.task = "u"], rec.body}
                 \union (IF "action" \in DOMAIN rec.body THEN {[rec.body EXCEPT !.action = "b"], [rec.body EXCEPT !.action = "none"], [rec.body EXCEPT !.provider = "stranger"]} ELSE {})
                 \union (IF "at" \in DOMAIN rec.body THEN {[rec.body EXCEPT !.at = 1], [rec.body EXCEPT !.at = BAD]} ELSE {})
                 \union (IF "evidence" \in DOMAIN rec.body THEN {[rec.body EXCEPT !.evidence = "odd"]} ELSE {})
                 \union (IF "na" \in DOMAIN rec.body THEN {[rec.body EXCEPT !.na = NULL], [rec.body EXCEPT !.na = BAD]} ELSE {})
                 \union (IF "hop" \in DOMAIN rec.body THEN {[rec.body EXCEPT !.hop.seq = 2], [rec.body EXCEPT !.witness = "caller"], [rec.body EXCEPT !.verdict = "bad"]} ELSE {})}
  \union {[rec EXCEPT !.binding = x] : x \in {"a", "b", "malformed"}}

Edits(b) ==
  UNION {LET i == Len(b[f]) IN
         {[b EXCEPT ![f] = SubSeq(@, 1, i - 1) \o <<x>>] : x \in Tampered(b[f][i])}
           \union {[b EXCEPT ![f] = SubSeq(@, 1, i - 1)]}
           \union {[b EXCEPT ![f] = Append(@, x)] : x \in IF f \in {"obs", "receipts"} THEN Tampered(b[f][i]) ELSE {}} :
         f \in {g \in {"obs", "grant", "receipts", "intent"} : b[g] # <<>>}}
  \union {[b EXCEPT !.receipts = <<b.receipts[Len(b.receipts)]>> \o @] : i \in DOMAIN b.receipts}
  \union {[b EXCEPT !.malformed = {f}] : f \in {"obs", "grant", "receipt", "intent"}}
  \union {[b EXCEPT !.task = x] : x \in {"none", "u"}}

-----------------------------------------------------------------------------
\* An accepted bundle with a grant: its caller signed the grant, the provider
\* it names signed one receipt for it and no other in the bundle, of the very
\* action, inside the window; what the intent and the witnesses signed agrees.
Sound(b) ==
  (b.sigs /\ b.grant # <<>>) =>
    LET g == b.grant[1].sig[2]
        own == {x.sig[2] : x \in {y \in Elements(b.receipts) : y.sig[1] = g.provider /\ y.body = y.sig[2]}}
    IN  /\ b.grant[1].sig[1] = g.caller /\ b.grant[1].body = g /\ g.task = b.task
        /\ \E r \in own : /\ own = {r}
                          /\ r.grant_ref = g /\ r.action = g.action /\ r.task = b.task
                          /\ (g.nb = NULL \/ g.nb <= r.at) /\ (g.na = NULL \/ r.at <= g.na)
                          /\ \A o \in Elements(b.obs) : /\ o.sig[1] = o.sig[2].witness
                                                        /\ o.sig[2].link \in {<<>>, <<r>>}
                                                        /\ o.edge = <<o.sig[2].hop.from, <<b.task, o.sig[2].hop>>>>
        /\ \A n \in Elements(b.intent) : n.sig[1] = g.provider /\ n.sig[2].action = g.action

\* A receipt that nobody signed, sent along behind the others, changes nothing.
StrayIgnored(b) ==
  (b.sigs /\ b.receipts # <<>>) =>
    \A action \in {"a", "b"} :
      LET body == [b.receipts[1].body EXCEPT !.action = action, !.task = b.task]
          stray == [body |-> body, id |-> body, sig |-> <<"nobody", body>>, binding |-> "absent"]
      IN  verify([b EXCEPT !.receipts = Append(@, stray)]) = verify(b)
=============================================================================
