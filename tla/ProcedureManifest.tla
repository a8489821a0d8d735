------------------------- MODULE ProcedureManifest -------------------------
(***************************************************************************)
(* examples/procedure-manifest-v003: evaluate() of an acquisition package  *)
(* (check.py) and the packages build.py makes. Whoever attested a record   *)
(* is in "by"; an altered record is attested by nobody.                    *)
(***************************************************************************)
EXTENDS Integers, Sequences, FiniteSets

Terms == {"authorized", "binding", "unique", "scope"}
Unknown == [t \in Terms |-> "cannot_establish"]
MinOf(S) == CHOOSE x \in S : \A y \in S : x <= y
Elements(s) == {s[i] : i \in DOMAIN s}

-----------------------------------------------------------------------------
(* build.py: a run of up to two attempts. core of a claim is what the       *)
(* ordering log records of it; proof is the claim's position there.         *)

claim(attempt, request, at) ==
  [run |-> "n1", attempt |-> attempt, request |-> request, at |-> at, profile |-> "bip340", proof |-> 0, by |-> "provider"]

claim_core(c) == <<"claim", c.run, c.attempt, c.request>>
Dispute(nonce) == <<"dispute_commitment", nonce>>

\* The dispute is committed at position pos among the claims.
OrderingLog(claims, pos, by) ==
  LET refs == [i \in DOMAIN claims |-> claim_core(claims[i])]
  IN  [there |-> TRUE, chained |-> TRUE, head |-> TRUE, by |-> by,
       entries |-> SubSeq(refs, 1, pos) \o <<Dispute("n1")>> \o SubSeq(refs, pos + 1, Len(refs))]

Proven(claims, pos) == [i \in DOMAIN claims |-> [claims[i] EXCEPT !.proof = IF i <= pos THEN i ELSE i + 1]]

terminal(c, status, output, scope) ==
  [claim |-> c, status |-> status, output |-> output, scope |-> scope, by |-> "provider"]

Full == {"criteria", "evidence"}

manifest(allowed, max) == [profile |-> "bip340", allowed |-> allowed, max |-> max]

\* The run is that of the dispute with a nonce; n1 is the one committed.
pkg(nonce, allowed, max, cores, pos, outcomes) ==
  LET claims == [i \in DOMAIN cores |-> [cores[i] EXCEPT !.run = nonce]]
      cs == Proven(claims, pos)
  IN  [manifest |-> manifest(allowed, max), dispute |-> nonce, committed |-> "n1", claims |-> cs,
       terminals |-> [i \in DOMAIN outcomes |-> terminal(cs[outcomes[i][1]], outcomes[i][2], outcomes[i][3], Full)],
       log |-> OrderingLog(claims, pos, "anchor"), receipt |-> <<>>]

Runs == {<<claim(0, "q", 1)>>, <<claim(0, "q", 1), claim(1, "q", 2)>>, <<claim(0, "q", 1), claim(0, "wrong", 2)>>,
         <<claim(0, "wrong", 1)>>, <<>>}

\* Results of the attempts, in the order they were attested.
Outcomes(n) ==
  {<<>>} \union (IF n = 0 THEN {} ELSE {<<<<1, s, o>>>> : s \in {"RESULT"}, o \in {"PASS"}}
                                       \union {<<<<1, s, "none">>>> : s \in {"UNRESOLVED", "NO_RESULT"}}
                                       \union {<<<<1, "RESULT", "PASS">>, <<1, "RESULT", "FAIL">>>>})
  \union IF n < 2 THEN {} ELSE {<<<<1, s, "none">>, <<2, "RESULT", "PASS">>>> : s \in {"UNRESOLVED", "NO_RESULT"}}
                               \union {<<<<2, "RESULT", "PASS">>>>}

\* What a manifest lets retry.
Policies == {{}, {"ATTESTED_NO_RESULT"}, {"ATTESTED_NO_RESULT", "TERMINAL_UNRESOLVED"}}

Packages(r) ==
  {pkg(d, a, m, r, pos, o) : d \in {"n1", "n2"}, a \in Policies, m \in {1, 2}, pos \in 0..Len(r), o \in Outcomes(Len(r))}

\* A package of the admission chain, with a receipt or none.
admission(x) == [pkg("n1", {}, 1, <<>>, 0, <<>>) EXCEPT !.manifest.profile = "chain", !.receipt = x]
Receipts == {<<>>, <<TRUE, "q">>, <<TRUE, "wrong">>, <<FALSE, "q">>}

Genuine == (UNION {Packages(r) : r \in Runs}) \union {admission(x) : x \in Receipts}

\* A record changed in its favour is attested by nobody.
Rebound(c) == [c EXCEPT !.request = "q", !.by = "nobody"]
Passing(t) == [t EXCEPT !.output = "PASS", !.by = "nobody"]

Without(s, i) == SubSeq(s, 1, i - 1) \o SubSeq(s, i + 1, Len(s))

\* Records are left out, repeated, altered or attested by another; the log is
\* not there or vouched for by the provider; the dispute is made up again.
Edits(p) ==
  {[p EXCEPT !.claims = Without(@, i)] : i \in DOMAIN p.claims}
  \union {[p EXCEPT !.terminals = Without(@, i)] : i \in DOMAIN p.terminals}
  \union {[p EXCEPT !.terminals = Append(@, @[i])] : i \in DOMAIN p.terminals}
  \union {[p EXCEPT !.claims[i].by = "requester"] : i \in DOMAIN p.claims}
  \union {[p EXCEPT !.claims[i] = Rebound(@)] : i \in DOMAIN p.claims}
  \union {[p EXCEPT !.terminals[i] = Passing(@)] : i \in DOMAIN p.terminals}
  \union {[p EXCEPT !.terminals[i].scope = {"criteria"}] : i \in DOMAIN p.terminals}
  \union {[p EXCEPT !.log.there = FALSE], [p EXCEPT !.log.by = "provider"], [p EXCEPT !.log.chained = FALSE],
          [p EXCEPT !.dispute = "n2"], [p EXCEPT !.dispute = "n2", !.committed = "n2"], [p EXCEPT !.manifest.max = 1]}

-----------------------------------------------------------------------------
(* check.py                                                                 *)

sig_ok(record, key) == record.by = key

\* A receipt is whether it hashes to its receipt_hash, and its request.
admission_receipt_recomputes(receipt) == receipt[1]

\* run_id is derived from the manifest and the package's dispute_id.
ClaimValid(p, c) == /\ c.run = p.dispute
                    /\ c.attempt < p.manifest.max
                    /\ c.profile = p.manifest.profile
                    /\ sig_ok(c, "provider")

ordering(p, claims) ==
  LET entries == p.log.entries
      dseq == {i \in DOMAIN entries : entries[i] = Dispute(p.committed)}
      own(c) == c.proof \in DOMAIN entries /\ entries[c.proof] = claim_core(c)
      cseq == {c.proof : c \in claims}
  IN  IF ~p.log.there THEN "cannot_establish"
      ELSE IF ~p.log.chained THEN "cannot_establish"
      ELSE IF ~p.log.head \/ ~sig_ok(p.log, "anchor") THEN "cannot_establish"
      ELSE IF dseq = {} THEN "cannot_establish"
      ELSE IF \E c \in claims : ~own(c) THEN "cannot_establish"
      ELSE IF \E x \in cseq : \A d \in dseq : d > x THEN "false"
      ELSE "true"

finish(state, terms, output) ==
  [state |-> state, terms |-> terms,
   verdict |-> IF (\A t \in Terms : terms[t] = "true") /\ output # "none" THEN "RESULT" ELSE "UNRESOLVED",
   output |-> output]

\* The admission chain has no slots authorized in advance.
EvaluateChain(p) ==
  IF p.receipt = <<>> THEN finish("AUTHORIZED", [Unknown EXCEPT !["authorized"] = "false"], "none")
  ELSE finish(IF admission_receipt_recomputes(p.receipt) THEN "CLAIMED" ELSE "AUTHORIZED",
              [Unknown EXCEPT !["binding"] = IF p.receipt = <<TRUE, "q">> THEN "true" ELSE "false"], "none")

\* The claims are taken in the order of their attempts, those of one attempt as
\* they come; valid are the positions of the valid ones.
Before(p, i, j) ==
  \/ p.claims[i].attempt < p.claims[j].attempt
  \/ p.claims[i].attempt = p.claims[j].attempt /\ i < j

Later(p, valid, i) == {j \in valid : Before(p, i, j)}

terminals_for(p, c) == {i \in DOMAIN p.terminals : p.terminals[i].claim = c /\ sig_ok(p.terminals[i], "provider")}
Distinct(p, c) == {<<p.terminals[i].status, p.terminals[i].output>> : i \in terminals_for(p, c)}
Conflict(distinct) == \E d, e \in distinct : d # e

\* (mutant) A claim without a terminal opens the next attempt as well: the
\* caller's timeout is taken for an absence.
ContinuesTimeout(p, valid, i) ==
  LET distinct == Distinct(p, p.claims[i])
  IN  /\ ~Conflict(distinct) /\ \A d \in distinct : d[1] = "NO_RESULT"
      /\ "ATTESTED_NO_RESULT" \in p.manifest.allowed \/ Later(p, valid, i) = {}

\* An attested NO_RESULT opens the next attempt if the manifest committed that;
\* anything else ends the run.
Continues(p, valid, i) ==
  LET distinct == Distinct(p, p.claims[i])
  IN  /\ distinct # {} /\ ~Conflict(distinct) /\ \A d \in distinct : d[1] = "NO_RESULT"
      /\ "ATTESTED_NO_RESULT" \in p.manifest.allowed \/ Later(p, valid, i) = {}

Granted(auth) == [Unknown EXCEPT !["authorized"] = auth]

\* The terminal t of the claim c decides.
Decided(c, t, auth) ==
  finish("TERMINAL_" \o t.status,
         [Granted(auth) EXCEPT !["unique"] = "true", !["binding"] = IF c.request = "q" THEN "true" ELSE "false",
                               !["scope"] = IF Full \subseteq t.scope THEN "true" ELSE "false"],
         IF t.status = "UNRESOLVED" THEN "none" ELSE t.output)

Walk(p, valid, auth) ==
  LET ends == {i \in valid : ~Continues(p, valid, i)}
      k == CHOOSE i \in ends : \A j \in ends \ {i} : Before(p, i, j)
      distinct == Distinct(p, p.claims[k])
      t == p.terminals[MinOf(terminals_for(p, p.claims[k]))]
      granted == IF Later(p, valid, k) # {} THEN "false" ELSE auth
  IN  IF ends = {} THEN finish("ATTESTED_NO_RESULT", Granted(auth), "none")
      ELSE IF Conflict(distinct) THEN finish("EQUIVOCATION", [Granted(auth) EXCEPT !["unique"] = "false"], "none")
      ELSE IF distinct = {} THEN finish("CLAIMED", Granted(granted), "none")
      ELSE IF t.status = "NO_RESULT" THEN finish("ATTESTED_NO_RESULT", Granted(granted), "none")
      ELSE Decided(p.claims[k], t, granted)

evaluate(p) ==
  LET valid == {i \in DOMAIN p.claims : ClaimValid(p, p.claims[i])}
      auth == IF p.dispute # p.committed THEN "false" ELSE ordering(p, {p.claims[i] : i \in valid})
      refused == Granted("false")
  IN  IF p.manifest.profile = "chain" THEN EvaluateChain(p)
      ELSE IF p.manifest.allowed \ {"ATTESTED_NO_RESULT"} # {} THEN finish("FORMATION_REFUSED", refused, "none")
      ELSE IF valid = {} THEN finish("AUTHORIZED", refused, "none")
      ELSE IF \E i, j \in valid : p.claims[i] # p.claims[j] /\ p.claims[i].attempt = p.claims[j].attempt
        THEN finish("EQUIVOCATION", refused, "none")
      ELSE Walk(p, valid, auth)

-----------------------------------------------------------------------------
\* The provider attested that claim b came to nothing, which the manifest lets
\* retry.
AttestedAbsence(p, b) ==
  /\ "ATTESTED_NO_RESULT" \in p.manifest.allowed
  /\ \E j \in DOMAIN p.terminals :
       p.terminals[j].claim = b /\ p.terminals[j].status = "NO_RESULT" /\ p.terminals[j].by = "provider"

\* The package has every claim that the ordering log records, as the provider
\* attested it.
NothingWithheld(p) ==
  \A e \in Elements(p.log.entries) :
    e[1] = "claim" => \E b \in Elements(p.claims) : claim_core(b) = e /\ b.by = "provider"

\* A package with a result: the provider attested it for one of the claims it
\* made of the committed request, whose dispute the anchor recorded before the
\* claim, with the whole scope, and every earlier attempt in the package ended
\* in an attested absence that the manifest lets retry. README.md:25 (C20)
\* promises more: attempt k+1 only after an attested NO_RESULT for attempt k.
\* That holds of a package that withholds no claim of the ordering log. The
\* walk of check.py:195 goes over the valid claims it is given, so a package
\* that leaves out attempt 0's claim has its attempt 1 authorized.
Sound(p) ==
  \E i \in DOMAIN p.terminals :
    LET t == p.terminals[i]
        c == t.claim
        at(e) == {j \in DOMAIN p.log.entries : p.log.entries[j] = e}
        Earlier(k) == {b \in Elements(p.claims) : b.attempt = k /\ b.by = "provider"}
    IN  /\ t.by = "provider" /\ t.status = "RESULT" /\ t.output = evaluate(p).output /\ t.scope = Full
        /\ c \in Elements(p.claims) /\ c.by = "provider" /\ c.request = "q" /\ c.run = "n1"
        /\ p.log.by = "anchor"
        /\ \E d \in at(Dispute("n1")), e \in at(claim_core(c)) : d < e
        /\ \A k \in 0..(c.attempt - 1) :
             /\ \A b \in Earlier(k) : AttestedAbsence(p, b)
             /\ NothingWithheld(p) => Earlier(k) # {}
        /\ \A j \in DOMAIN p.terminals :
             (p.terminals[j].claim = c /\ p.terminals[j].by = "provider") => p.terminals[j].output = t.output
=============================================================================
