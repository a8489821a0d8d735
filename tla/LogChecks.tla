------------------------------ MODULE LogChecks ------------------------------
(***************************************************************************)
(* The checkers that recompute a log or an envelope from its own bytes:     *)
(* examples/sequence-integrity-recompute, composed-envelope-recompute,      *)
(* ledger-chain-continuity and ledger-recompute. A hash is the tuple of     *)
(* what is hashed; a signature is who made it and over what.                *)
(***************************************************************************)
EXTENDS Naturals, FiniteSets
LOCAL INSTANCE SequencesExt

-----------------------------------------------------------------------------
(* Envelopes with several signers (check_composed_envelope.py). A key file  *)
(* maps key ids to keys; a key is named after its holder.                   *)

JwksFiles == <<[file |-> "agentoracle", keys |-> [k \in {"k1"} |-> "oracle"]],
               [file |-> "agenttrust", keys |-> [k \in {"k2"} |-> "trust"]]>>

\* Files are read in order, and a key id met again takes the later key.
load_jwks(files) ==
  LET last(kid) == CHOOSE n \in DOMAIN files :
                     kid \in DOMAIN files[n].keys /\ \A m \in (n + 1)..Len(files) : kid \notin DOMAIN files[m].keys
  IN  [kid \in UNION {DOMAIN files[n].keys : n \in DOMAIN files} |->
         [key |-> files[last(kid)].keys[kid], origin |-> files[last(kid)].file]]

sign(kid, by, payload) == [kid |-> kid, alg |-> "EdDSA", by |-> by, over |-> payload]

envelope(payload) ==
  [payload |-> payload, canonical |-> TRUE, signatures |-> {sign("k1", "oracle", payload), sign("k2", "trust", payload)}]

\* (mutant) The key is looked up and its algorithm read, but the signature is
\* taken over whatever the signer signed.
SignatureOkDetached(s, env, keys) == s.alg = "EdDSA" /\ s.kid \in DOMAIN keys /\ s.by = keys[s.kid].key
SignatureOk(s, env, keys) ==
  s.alg = "EdDSA" /\ s.kid \in DOMAIN keys /\ s.by = keys[s.kid].key /\ s.over = env.payload

\* Each signature has a line of its own; with no signature there is none to fail.
check(c) ==
  LET keys == load_jwks(c.jwks)
      ok(s) == SignatureOk(s, c.env, keys)
      origin(s) == IF s.alg = "EdDSA" /\ s.kid \in DOMAIN keys THEN keys[s.kid].origin ELSE "kid-not-found"
  IN  [verdict |-> c.env.canonical /\ \A s \in c.env.signatures : ok(s),
       lines |-> {<<"signature", s.kid, origin(s), IF ok(s) THEN "PASS" ELSE "FAIL">> : s \in c.env.signatures}]

tamper_demo(c) == check([c EXCEPT !.env.payload = 0, !.env.canonical = FALSE])

EnvelopeGenuine == {[env |-> envelope(1), jwks |-> JwksFiles]}

SignatureEdits(env) ==
  UNION {{[env EXCEPT !.signatures = (@ \ {s}) \union {t}] :
            t \in {[s EXCEPT !.by = "stranger"], [s EXCEPT !.kid = "k2"], [s EXCEPT !.kid = "k9"], [s EXCEPT !.alg = "none"]}}
         : s \in env.signatures}
  \union {[env EXCEPT !.signatures = @ \ {s}] : s \in env.signatures}
  \union {[env EXCEPT !.payload = 9], [env EXCEPT !.canonical = FALSE],
          [env EXCEPT !.payload = 9, !.signatures = {[s EXCEPT !.over = 9, !.by = "stranger"] : s \in @}]}

EnvelopeEdits(c) ==
  {[c EXCEPT !.env = e] : e \in SignatureEdits(c.env)}
  \union {[c EXCEPT !.jwks = Append(@, [file |-> "presidio", keys |-> [k \in {"k1"} |-> "presidio"]])],
          [c EXCEPT !.jwks = <<[file |-> "earlier", keys |-> [k \in {"k1"} |-> "stranger"]]>> \o @],
          [c EXCEPT !.jwks = Tail(@)]}

\* Every signer counted is the holder of the key its own file published, over
\* this payload; a passing line says so of that signer whatever the others do.
EnvelopeSound(c) ==
  \A x \in check(c).lines : x[4] = "PASS" =>
    \E s \in c.env.signatures, n \in DOMAIN c.jwks :
      s.kid = x[2] /\ c.jwks[n].file = x[3] /\ s.kid \in DOMAIN c.jwks[n].keys
        /\ s.by = c.jwks[n].keys[s.kid] /\ s.over = c.env.payload

-----------------------------------------------------------------------------
(* The log of envelopes: its tree heads and inclusion proofs                *)
(* (build_sequence_fixture.py), and their recomputation                     *)
(* (check_sequence_integrity.py).                                           *)

leaf_hash(leaf) == <<leaf>>
node_hash(l, r) == <<l, r>>

\* One level up: neighbours are paired and the last of an odd number is kept.
Above(level) ==
  [i \in 1..((Len(level) + 1) \div 2) |->
     IF 2 * i <= Len(level) THEN node_hash(level[2 * i - 1], level[2 * i]) ELSE level[2 * i - 1]]

build_tree(leaves) ==
  LET level[n \in 1..Len(leaves)] == IF n = 1 THEN leaves ELSE Above(level[n - 1])
  IN  [root |-> level[Len(leaves)][1], levels |-> level]

build_root(leaves) == build_tree(leaves).root

\* The sibling at each level that has one.
inclusion_proof(levels, index) ==
  LET step(level, i) ==
        CASE i % 2 = 0 /\ i + 1 < Len(level) -> [position |-> "right", sibling |-> level[i + 2]]
          [] i % 2 = 1 -> [position |-> "left", sibling |-> level[i]]
          [] OTHER -> [position |-> "none", sibling |-> <<>>]
      steps == [n \in DOMAIN levels |-> step(levels[n], index \div 2^(n - 1))]
  IN  SelectSeq(steps, LAMBDA s : s.position # "none")

apply_inclusion(leaf, proof) ==
  FoldLeft(LAMBDA h, s : IF s.position = "right" THEN node_hash(h, s.sibling) ELSE node_hash(s.sibling, h), leaf, proof)

\* Seven envelopes were logged, the n-th at time n; heads after four and seven.
Logged == [n \in 1..7 |-> [envelope_hash |-> n, at |-> n]]
Hashes(leaves) == [n \in DOMAIN leaves |-> leaf_hash(leaves[n])]

make_sth(leaves, by) ==
  LET payload == [root_hash |-> build_root(Hashes(leaves)), tree_size |-> Len(leaves)]
  IN  [payload |-> payload, kid |-> "log", by |-> by, over |-> payload]

\* The files of main(). The earlier head may be of another past: two leaves in
\* another order, or one replaced.
Pasts == {SubSeq(Logged, 1, 4), <<Logged[1], Logged[3], Logged[2], Logged[4]>>, <<Logged[5], Logged[2], Logged[3], Logged[4]>>}

SequenceGenuine ==
  {[jwks |-> JwksFiles, log_keys |-> [k \in {"log"} |-> "log"], leaves |-> Logged,
    entries |-> [n \in 1..5 |-> envelope(Logged[n].envelope_hash)],
    sth1 |-> make_sth(past, "log"), sth2 |-> make_sth(Logged, "log"),
    proofs |-> [n \in 1..7 |-> inclusion_proof(build_tree(Hashes(Logged)).levels, n - 1)],
    signed |-> {past, Logged}] : past \in Pasts}

verify_envelope(env, keys) ==
  [ok |-> env.canonical /\ \A s \in env.signatures : SignatureOk(s, env, keys), hash |-> env.payload]

verify_sth(sth, keys) == sth.kid \in DOMAIN keys /\ sth.by = keys[sth.kid] /\ sth.over = sth.payload

\* The leaves that have an envelope on file commit to it.
EntriesOk(c) ==
  \A n \in DOMAIN c.leaves \intersect DOMAIN c.entries :
    LET v == verify_envelope(c.entries[n], load_jwks(c.jwks)) IN v.ok /\ c.leaves[n].envelope_hash = v.hash

\* (mutant) The earlier head is trusted to be of a prefix.
RootsOkLast(c) ==
  LET two == c.sth2.payload IN Len(c.leaves) = two.tree_size /\ build_root(Hashes(c.leaves)) = two.root_hash
RootsOk(c) ==
  LET one == c.sth1.payload
      two == c.sth2.payload
  IN  /\ Len(c.leaves) >= one.tree_size
      /\ build_root(Hashes(SubSeq(c.leaves, 1, one.tree_size))) = one.root_hash
      /\ Len(c.leaves) = two.tree_size
      /\ build_root(Hashes(c.leaves)) = two.root_hash

InclusionOk(c) ==
  \A n \in DOMAIN c.proofs :
    /\ n <= Len(c.leaves)
    /\ apply_inclusion(leaf_hash(c.leaves[n]), c.proofs[n]) = c.sth2.payload.root_hash

run(c) == EntriesOk(c) /\ verify_sth(c.sth1, c.log_keys) /\ verify_sth(c.sth2, c.log_keys) /\ RootsOk(c) /\ InclusionOk(c)

\* The two demonstrations: leaves two and three exchanged, leaf five dropped.
Exchanged(s, i) == [s EXCEPT ![i] = s[i + 1], ![i + 1] = s[i]]
demos(c) == {[c EXCEPT !.leaves = Exchanged(@, 2)], [c EXCEPT !.leaves = RemoveAt(@, 5)]}

SequenceEdits(c) ==
  {[c EXCEPT !.leaves = Exchanged(@, i)] : i \in 1..(Len(c.leaves) - 1)}
  \union {[c EXCEPT !.leaves = RemoveAt(@, i)] : i \in DOMAIN c.leaves}
  \union {[c EXCEPT !.leaves[i] = l] : i \in DOMAIN c.leaves, l \in {[envelope_hash |-> 9, at |-> 1], Logged[1]}}
  \union {[c EXCEPT !.leaves = Append(@, Logged[7])],
          [c EXCEPT !.sth1 = c.sth2], [c EXCEPT !.sth2 = c.sth1], [c EXCEPT !.sth1.kid = "k9"],
          [c EXCEPT !.sth1 = make_sth(SubSeq(c.leaves, 1, 3), "stranger")], [c EXCEPT !.sth2 = make_sth(c.leaves, "stranger")],
          [c EXCEPT !.sth2.payload = make_sth(c.leaves, "log").payload], [c EXCEPT !.sth1.payload.tree_size = 3],
          [c EXCEPT !.proofs = [n \in 1..3 |-> c.proofs[n]]], [c EXCEPT !.proofs[1] = c.proofs[2]],
          [c EXCEPT !.entries = [n \in 1..2 |-> c.entries[n]]]}
  \union {[c EXCEPT !.entries[2] = e] : e \in SignatureEdits(c.entries[2]) \union {c.entries[1]}}

\* A sequence that passes is one the log signed, in its order and no shorter,
\* and the log signed no other past of it under the earlier head; and whoever
\* signed an envelope on file holds the key it names and signed that payload.
\* How many signed is not part of it: check_sequence_integrity.py:12 speaks of
\* "2 or 3 independent signers", but verify_envelope() counts none, and an
\* envelope without signatures passes.
SequenceSound(c) ==
  /\ c.leaves \in c.signed
  /\ SubSeq(c.leaves, 1, c.sth1.payload.tree_size) \in c.signed
  /\ \A n \in DOMAIN c.entries \intersect DOMAIN c.leaves :
       /\ c.entries[n].payload = c.leaves[n].envelope_hash
       /\ \A s \in c.entries[n].signatures :
            /\ s.over = c.leaves[n].envelope_hash
            /\ \E f \in DOMAIN c.jwks : s.kid \in DOMAIN c.jwks[f].keys /\ s.by = c.jwks[f].keys[s.kid]

-----------------------------------------------------------------------------
(* The chain of ledger entries (check_chain_continuity.py).                 *)

content_hash(record) == <<record>>
head_hash(content, prev) == <<content, prev>>

entry(n, record, prev) ==
  [entry |-> n, record |-> record,
   chain |-> [prev |-> prev, content |-> content_hash(record), head |-> head_hash(content_hash(record), prev)]]

Ledger ==
  LET chain[n \in 1..5] == entry(n, n, IF n = 1 THEN <<>> ELSE chain[n - 1].chain.head) IN chain

ChainGenuine == {[files |-> SubSeq(Ledger, i, j)] : i \in 1..3, j \in 3..5}

\* Files in the order of their entry numbers, equal numbers in file order.
Sorted(files) ==
  LET before(i, j) == files[i].entry < files[j].entry \/ (files[i].entry = files[j].entry /\ i < j)
  IN  [k \in DOMAIN files |-> files[CHOOSE i \in DOMAIN files : Cardinality({j \in DOMAIN files : before(j, i)}) = k - 1]]

\* (mutant) The link to the preceding entry is compared only with its number.
prev_link_okNumber(entries, i) == i = 1 \/ entries[i].entry = entries[i - 1].entry + 1
prev_link_ok(entries, i) == i = 1 \/ entries[i].chain.prev = entries[i - 1].chain.head

sound(entries, i) ==
  LET e == entries[i]
  IN  /\ content_hash(e.record) = e.chain.content
      /\ prev_link_ok(entries, i)
      /\ head_hash(e.chain.content, e.chain.prev) = e.chain.head

check_sequence(entries) == \A i \in DOMAIN entries : sound(entries, i)

\* With its second entry left out the sequence must fail at the seam.
ContinuityExit(c) ==
  LET entries == Sorted(c.files)
  IN  CASE Len(entries) < 3 -> 2
        [] Len(entries) >= 3 -> IF check_sequence(entries) /\ ~prev_link_ok(RemoveAt(entries, 2), 2) THEN 0 ELSE 1

Resealed(e) == [e EXCEPT !.chain.content = content_hash(e.record), !.chain.head = head_hash(content_hash(e.record), e.chain.prev)]

ChainEdits(c) ==
  {[c EXCEPT !.files = RemoveAt(@, i)] : i \in DOMAIN c.files}
  \union UNION {{[c EXCEPT !.files[i].record = 9], [c EXCEPT !.files[i] = Resealed([@ EXCEPT !.record = 9])],
                 [c EXCEPT !.files[i].chain.content = <<9>>], [c EXCEPT !.files[i].entry = 1], [c EXCEPT !.files[i].entry = 4],
                 [c EXCEPT !.files[i] = Resealed([@ EXCEPT !.chain.prev = <<>>])]} : i \in DOMAIN c.files}
  \union {[c EXCEPT !.files[i] = Resealed([@ EXCEPT !.chain.prev = c.files[i - 1].chain.head])] : i \in 2..Len(c.files)}
  \union {[c EXCEPT !.files = Append(@, c.files[i])] : i \in DOMAIN c.files}

\* The head of the last entry stands for every record shown, in that order; if
\* it is a head the ledger published, the records are the ledger's own, without
\* a gap, whatever the entries are numbered.
ContinuitySound(c) ==
  LET entries == Sorted(c.files)
      n == Len(entries)
      last == entries[n].chain.head
  IN  /\ last = FoldLeft(LAMBDA h, e : head_hash(content_hash(e.record), h), entries[1].chain.prev, entries)
      /\ \A k \in 1..5 : last = Ledger[k].chain.head => n <= k /\ \A i \in 1..n : entries[i].record = Ledger[k - n + i].record

-----------------------------------------------------------------------------
(* One ledger entry as the relay served it (recompute_entry.py). The event  *)
(* id is the hash of its author and content.                                *)

Content == [kind |-> "verdict_proof", artifact |-> "a", verifier |-> "iv", record |-> "r", record_sha256 |-> "r", text |-> 0]

nostr_event_id(ev) == <<ev.pubkey, ev.content>>

Seal(by, content) == [pubkey |-> by, content |-> content, id |-> <<by, content>>, sig |-> [by |-> by, over |-> <<by, content>>]]

vector(by, content) == [event |-> Seal(by, content), event_id |-> <<by, content>>, digest |-> <<by, content>>]

EntryGenuine ==
  {[first |-> vector(by, [Content EXCEPT !.kind = k, !.verifier = v]), second |-> vector("iv", [Content EXCEPT !.kind = "ledger_record"])] :
     by \in {"iv", "stranger"}, v \in {"iv", "stranger"}, k \in {"verdict_proof", "ledger_record", "unknown"}}

ContentBinding(ev) ==
  CASE ev.content.kind = "verdict_proof" -> ev.content.artifact # "short" /\ ev.content.verifier = ev.pubkey /\ ev.pubkey = "iv"
    [] ev.content.kind = "ledger_record" -> ev.content.record = ev.content.record_sha256
    [] OTHER -> FALSE

assess(v) ==
  LET ev == v.event
      id == nostr_event_id(ev)
  IN  /\ id = ev.id /\ id = v.event_id
      /\ ev.sig = [by |-> ev.pubkey, over |-> id] /\ ev.pubkey = "iv"
      /\ ContentBinding(ev)
      /\ v.digest = id

\* Both vectors are sound, and the first with a letter changed is not.
EntryExit(c) ==
  IF assess(c.first) /\ assess(c.second) /\ ~assess([c.first EXCEPT !.event.content.text = @ + 1]) THEN 0 ELSE 1

EntryEdits(c) ==
  LET v == c.first
      other == v.event.content
      reworded == {[other EXCEPT !.record = "r2"], [other EXCEPT !.record = "r2", !.record_sha256 = "r2"],
                   [other EXCEPT !.artifact = "short"], [other EXCEPT !.verifier = "iv"], [other EXCEPT !.kind = "ledger_record"]}
  IN  {[c EXCEPT !.first = w] :
         w \in {[v EXCEPT !.event.content = k] : k \in reworded}
               \union {[v EXCEPT !.event = [Seal("iv", k) EXCEPT !.sig.by = v.event.sig.by, !.sig.over = v.event.sig.over],
                                 !.event_id = <<"iv", k>>, !.digest = <<"iv", k>>] : k \in reworded}
               \union {[v EXCEPT !.event.pubkey = "iv"], [v EXCEPT !.digest = c.second.digest], [v EXCEPT !.event_id = c.second.event_id],
                       [c.second EXCEPT !.digest = v.digest]}}

\* The published key sealed the very content shown, and that is what was anchored.
EntrySound(c) ==
  \A v \in {c.first, c.second} :
    /\ v.event.sig = [by |-> "iv", over |-> v.digest]
    /\ v.digest = <<"iv", v.event.content>>
    /\ v.event.content.kind = "ledger_record" => v.event.content.record = v.event.content.record_sha256
=============================================================================
