--------------------------- MODULE WorkAcceptance ---------------------------
(***************************************************************************)
(* examples/work-acceptance-record-cold/war_check.py: check() of a signed  *)
(* record of work against its criteria. A hash is what was hashed; times   *)
(* are in half milliseconds, so that what a time-stamp token can say and a *)
(* stated time, which has whole milliseconds, cannot is in the model.      *)
(***************************************************************************)
EXTENDS Integers, Sequences, FiniteSets

Tsa == INSTANCE TsaSig

Sec == 8    \* half milliseconds in a (short) second
BAD == -1   \* a time that is not of the form, or no calendar date
Elements(s) == {s[i] : i \in DOMAIN s}
When(condition, code) == IF condition THEN {code} ELSE {}

\* (mutant) The commitment's time is rounded down like the reference.
MsUpDown(x) == 2 * (x \div 2)
MsUp(x) == 2 * ((x + 1) \div 2)
MsDown(x) == 2 * (x \div 2)

-----------------------------------------------------------------------------
(* Keys, by the id they are listed under; "bad" does not decode.            *)

Ids(in) == {in.keys[i].id : i \in DOMAIN in.keys}
Listed(in, id) == Cardinality({i \in DOMAIN in.keys : in.keys[i].id = id})
Dup(in) == {id \in Ids(in) : Listed(in, id) > 1}
Dec(in, id) == IF id \notin Ids(in) THEN "none"
               ELSE in.keys[CHOOSE i \in DOMAIN in.keys : in.keys[i].id = id /\ \A j \in 1..i - 1 : in.keys[j].id # id].key

key_ok(key) == key # "weak"

\* Step 2.
SigningKeyRejected(in) == in.r.key_id \in Dup(in) \/ Dec(in, in.r.key_id) = "bad" \/ ~key_ok(Dec(in, in.r.key_id))

SignatureValid(in) ==
  /\ ~SigningKeyRejected(in)
  /\ Dec(in, in.r.key_id) # "none"
  /\ in.sig.key_id = in.r.key_id
  /\ in.sig.value = <<Dec(in, in.r.key_id), in.r>>

KeyProblems(in) ==
  When(Dup(in) # {} \/ SigningKeyRejected(in), "KEY_REJECTED")
  \union When(~SigningKeyRejected(in) /\ ~SignatureValid(in), "SIGNATURE_INVALID")
  \union When(in.r.checker.key_id # in.r.key_id, "CHECKER_NOT_SIGNER")

-----------------------------------------------------------------------------
\* Step 4. Of two results with one id the last is compared.
Got(results) ==
  LET last(id) == CHOOSE i \in DOMAIN results : results[i].id = id /\ \A j \in DOMAIN results : results[j].id = id => j <= i
  IN  {<<x.id, results[last(x.id)].required>> : x \in Elements(results)}

CriteriaProblems(in) ==
  IF in.doc = <<>> THEN {}
  ELSE IF in.doc[1] # in.r.criteria THEN {"CRITERIA_HASH_MISMATCH"}
  ELSE When(in.doc[1].form # "ok" \/ Got(in.r.results) # in.doc[1].required, "CRITERIA_RESULTS_MISMATCH")

-----------------------------------------------------------------------------
(* Steps 5, 6 and 9: time. A token is in canonical base64 and a cms, whose  *)
(* content is a hash, a time and the accuracy of the time.                  *)

Info(token) == token[1].cms.econtent

\* The imprint is a SHA-256 over this.
Imprints(token, what) == token # <<>> /\ token[1].canonical /\ Info(token).oid = "sha256" /\ Info(token).imprint = what

ReceiptTimestamp(in) == IF in.rtok = <<>> THEN "none" ELSE IF Imprints(in.rtok, in.r) THEN "imprint_match" ELSE "imprint_mismatch"

TsaSignature(in, token) ==
  IF ~token[1].canonical THEN IF in.anchors = <<>> THEN "not_evaluated" ELSE "failed"
  ELSE IF in.anchors # <<>> /\ Info(token).gen = BAD THEN "failed"
  ELSE Tsa!evaluate(token[1].cms, in.anchors, 1 + Info(token).gen \div Sec)

Usable(in) == Imprints(in.ctok, in.r.criteria) /\ Info(in.ctok).gen # BAD

\* The latest the criteria may have been committed, the earliest the record
\* may have been made.
Commitment(in) == IF Usable(in) THEN MsUp(Info(in.ctok).gen) + Info(in.ctok).acc ELSE in.r.committed_at
Reference(in) ==
  LET covering == ReceiptTimestamp(in) = "imprint_match" /\ Info(in.rtok).gen # BAD
      token == MsDown(Info(in.rtok).gen - Info(in.rtok).acc)
  IN  IF covering /\ token < in.r.issued THEN token ELSE in.r.issued

Unreadable(in) == in.r.issued = BAD \/ (~Usable(in) /\ in.r.committed_at = BAD)

CommittedBefore(in) == ~Unreadable(in) /\ Commitment(in) < Reference(in)

TimeProblems(in) ==
  LET stated == in.r.committed_at IN
  When(Usable(in) /\ (stated = BAD \/ stated \div Sec # Info(in.ctok).gen \div Sec), "CRITERIA_TIME_MISMATCH")
  \union When(in.ctok # <<>> /\ ~Imprints(in.ctok, in.r.criteria), "CRITERIA_TIMESTAMP_MISMATCH")
  \union When(Unreadable(in), "RECEIPT_TIME_UNREADABLE")
  \union When(~Unreadable(in) /\ ~CommittedBefore(in), "CRITERIA_COMMITTED_AFTER_CHECK")

-----------------------------------------------------------------------------
\* Step 8. What the parties' names and keys say of independence.
Collision(in) ==
  LET pk == in.r.producer.key_id
      ck == in.r.checker.key_id
  IN  pk # "none" /\ (pk = ck \/ (pk \in Ids(in) /\ ck \in Ids(in) /\ Dec(in, pk) # "bad" /\ Dec(in, pk) = Dec(in, ck)))

PartyKeys(in) == {in.r.producer.key_id, in.r.checker.key_id} \ {"none"}

KeyRule(in) ==
  LET pk == in.r.producer.key_id IN
  \/ \E k \in PartyKeys(in) : Dec(in, k) = "bad" \/ k \in Dup(in)
  \/ /\ in.r.independence = "independent"
     /\ \/ \E k \in PartyKeys(in) : k = "" \/ Listed(in, k) # 1
        \/ in.relying # <<>> /\ pk # "none" /\ Dec(in, pk) \notin in.relying[1] \ {"bad"}

Derived(in) ==
  IF in.r.producer.name \in {"none", "unspecified"} THEN "undeclared"
  ELSE IF in.r.producer.name = in.r.checker.name \/ Collision(in) \/ KeyRule(in) THEN "self-checked"
  ELSE "independent"

IndependenceProblems(in) ==
  When(\E k \in PartyKeys(in) : Dec(in, k) = "bad", "KEY_REJECTED")
  \union When(Collision(in), "KEY_COLLISION")
  \union When(Derived(in) # in.r.independence, "INDEPENDENCE_INCONSISTENT")

\* Step 7.
Verdict(results) ==
  LET req == {x.result : x \in {y \in Elements(results) : y.required}}
  IN  IF "fail" \in req THEN "fail" ELSE IF req \subseteq {"pass"} THEN "pass" ELSE "incomplete"

VerdictProblems(in) ==
  When(\E x \in Elements(in.r.results) : x.result \notin {"pass", "fail", "not-evaluated", "error"}, "RESULT_VOCABULARY")
  \union When(Verdict(in.r.results) # in.r.verdict, "VERDICT_MISMATCH")

Warnings(in) ==
  When(~Usable(in), "CRITERIA_COMMITMENT_UNVERIFIED")
  \union When(in.r.independence = "self-checked", "SELF_CHECKED")
  \union When(Derived(in) = "undeclared", "PRODUCER_UNDECLARED")

Refused(in) == ~in.types \/ in.r.schema # "1.2"

check(in) ==
  IF Refused(in) THEN [problems |-> {"refused"}, warnings |-> {}, before |-> FALSE, tsa |-> {}]
  ELSE [problems |-> KeyProblems(in) \union CriteriaProblems(in) \union TimeProblems(in)
                     \union IndependenceProblems(in) \union VerdictProblems(in),
        warnings |-> Warnings(in), before |-> CommittedBefore(in),
        tsa |-> {<<f, TsaSignature(in, in[f])>> : f \in {g \in {"ctok", "rtok"} : in[g] # <<>>}}]

-----------------------------------------------------------------------------
(* Records as they are made: build_extra.py edits one and signs it again.   *)

Doc == [form |-> "ok", required |-> {<<"c1", TRUE>>, <<"c2", FALSE>>}]
OtherDoc == [form |-> "ok", required |-> {}]
Result(id, required, result) == [id |-> id, required |-> required, result |-> result]

R0 == [schema |-> "1.2", key_id |-> "kc", checker |-> [name |-> "ada", key_id |-> "kc"], producer |-> [name |-> "bob", key_id |-> "kp"],
       criteria |-> Doc, committed_at |-> 8, results |-> <<Result("c1", TRUE, "pass"), Result("c2", FALSE, "fail")>>,
       issued |-> 18, independence |-> "independent", verdict |-> "pass"]

Stamp(imprint, gen, acc, key) ==
  LET signer == IF key = "tsa" THEN Tsa!Tsa ELSE Tsa!Fake("inter")
  IN  <<[canonical |-> TRUE, cms |-> Tsa!Token([oid |-> "sha256", imprint |-> imprint, gen |-> gen, acc |-> acc], <<signer, Tsa!Inter>>, signer, key)]>>

resign(in, r) == [in EXCEPT !.r = r, !.sig = [key_id |-> r.key_id, value |-> <<"checker", r>>], !.rtok = <<>>]

Genuine ==
  {resign([types |-> TRUE, r |-> R0, sig |-> [key_id |-> "kc", value |-> <<"checker", R0>>], doc |-> d, rtok |-> <<>>, ctok |-> c,
           keys |-> <<[id |-> "kc", key |-> "checker"], [id |-> "kp", key |-> "producer"]>>, anchors |-> held[1], relying |-> held[2]], R0) :
     d \in {<<>>, <<Doc>>}, c \in {<<>>} \union {Stamp(Doc, g, acc, "tsa") : g \in {9, 15}, acc \in {0, 3}},
     held \in {<<<<>>, <<>>>>, <<<<Tsa!Root>>, <<>>>>, <<<<>>, <<{"producer"}>>>>, <<<<>>, <<{}>>>>}}

\* The checker states something else, and signs it.
Restated(r) ==
  {[r EXCEPT !.results[1].result = x] : x \in {"not-evaluated", "fail", "odd"}} \union {[r EXCEPT !.verdict = "fail"]}
  \union {[r EXCEPT !.results = <<Result("c1", TRUE, "fail")>> \o @], [r EXCEPT !.results[1].required = FALSE]}
  \union {[r EXCEPT !.committed_at = x] : x \in {16, BAD}} \union {[r EXCEPT !.issued = x] : x \in {16, 24, BAD}}
  \union {[r EXCEPT !.independence = x] : x \in {"self-checked", "undeclared"}}
  \union {[r EXCEPT !.producer.name = x] : x \in {"ada", "none"}} \union {[r EXCEPT !.producer.key_id = x] : x \in {"kc", "none", "k3", ""}}
  \union {[r EXCEPT !.checker.key_id = "kp"], [r EXCEPT !.criteria = OtherDoc], [r EXCEPT !.schema = "9"], [r EXCEPT !.key_id = "k3"]}

Edits(in) ==
  {resign(in, r) : r \in Restated(in.r)}
  \union {[in EXCEPT !.r = r] : r \in Restated(in.r)}
  \union {[in EXCEPT !.rtok = Stamp(x, g, acc, "tsa")] : x \in {in.r, R0}, g \in {15, 17, 20}, acc \in {0, 1}}
  \union {[in EXCEPT !.ctok = Stamp(x, g, 0, "rogue")] : x \in {in.r.criteria, OtherDoc}, g \in {9, BAD}}
  \union {[in EXCEPT !.ctok = t] : t \in {<<[x EXCEPT !.canonical = FALSE]>> : x \in Elements(in.ctok)}
                                        \union {<<[x EXCEPT !.cms.econtent.oid = "sha384"]>> : x \in Elements(in.ctok)}}
  \union {[in EXCEPT !.doc = <<OtherDoc>>], [in EXCEPT !.types = FALSE], [in EXCEPT !.sig.key_id = "kp"],
          [in EXCEPT !.sig.value = <<"producer", in.r>>]}
  \union {[in EXCEPT !.keys[2].key = k] : k \in {"checker", "bad"}} \union {[in EXCEPT !.keys[1].key = k] : k \in {"weak", "bad", "producer"}}
  \union {[in EXCEPT !.keys = Append(@, [id |-> i, key |-> "producer"])] : i \in {"kc", "kp", "k3"}}

-----------------------------------------------------------------------------
\* A record without a problem: the checker it names signed it; its verdict
\* follows from one result for each criterion of the document, if that is
\* there; the criteria were committed before it was made at whatever instants
\* the tokens leave open; one who calls itself independent has another name
\* and another key than the producer, one the relying party knows.
Sound(in) ==
  LET r == in.sig.value[2]
      signer == in.sig.value[1]
      once == \A i, j \in DOMAIN r.results : r.results[i].id = r.results[j].id => i = j
  IN  /\ in.r = r
      /\ \E i \in DOMAIN in.keys : in.keys[i] = [id |-> r.checker.key_id, key |-> signer]
      /\ (in.doc # <<>> /\ once) =>
           /\ \A c \in in.doc[1].required : \E x \in Elements(r.results) : <<x.id, x.required>> = c
           /\ r.verdict = "pass" <=> \A c \in in.doc[1].required :
                                       c[2] => \E x \in Elements(r.results) : x.id = c[1] /\ x.result = "pass"
      /\ Usable(in) => LET latest == Info(in.ctok).gen + Info(in.ctok).acc
                       IN  /\ latest < r.issued
                           /\ Imprints(in.rtok, r) /\ Info(in.rtok).gen # BAD => latest < Info(in.rtok).gen - Info(in.rtok).acc
      /\ (r.independence = "independent") =>
           /\ r.producer.name # r.checker.name
           /\ r.producer.key_id # "none" => \E i \in DOMAIN in.keys :
                /\ in.keys[i].id = r.producer.key_id /\ in.keys[i].key # signer
                /\ in.relying # <<>> => in.keys[i].key \in in.relying[1]
=============================================================================
