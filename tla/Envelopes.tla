----------------------------- MODULE Envelopes -----------------------------
(***************************************************************************)
(* Signed records as the checkers read them: verify_proof of               *)
(* _bip340_nostr.py, the issuer profiles of tools/issuer_profile.py and    *)
(* the PASS / FAIL / CANNOT_ESTABLISH lines the tools print.               *)
(* A hash is the term hashed, a signature who made it over which term.     *)
(***************************************************************************)
EXTENDS Naturals, FiniteSets

\* A report is a set of lines; the exit code is that of its worst line.
Line(ok, name) == {<<IF ok THEN "PASS" ELSE "FAIL", name>>}
Cannot(name) == {<<"CANNOT_ESTABLISH", name>>}
Statuses(report) == {l[1] : l \in report}
Exit(report) == IF "FAIL" \in Statuses(report) THEN 1
                ELSE IF "CANNOT_ESTABLISH" \in Statuses(report) THEN 2 ELSE 0

\* A record of either envelope: who it names as signer, its kind and payload;
\* the term its id and signature were made over, and the secret that made it.
Sealed(envelope, key, kind, payload) ==
  [envelope |-> envelope, complete |-> TRUE, key |-> key, kind |-> kind, payload |-> payload,
   sealed |-> <<key, kind, payload>>, by |-> key]

IdOk(r) == r.sealed = <<r.key, r.kind, r.payload>>
SigOk(r) == r.by = r.key

\* nip01: every test is made, and the payload is handed on even if one fails.
VerifyNip01(r, p) ==
  IF r.envelope # "nip01-schnorr" \/ ~r.complete THEN [valid |-> FALSE, read |-> FALSE]
  ELSE [valid |-> /\ IdOk(r) /\ SigOk(r) /\ r.key \in p.keys
                  /\ r.kind \in p.kinds
                  /\ p.prefixed => r.payload.object /\ r.payload.schema = "prefixed",
        read |-> r.payload.object]

\* jws: the first failed test stops, with no payload; a kid may be a label.
VerifyJws(r, p) ==
  LET kid == IF r.key \in DOMAIN p.labels THEN p.labels[r.key] ELSE r.key
      ok == /\ r.envelope = "jws-eddsa" /\ r.complete
            /\ r.kind = "EdDSA"
            /\ kid \in p.keys
            /\ IdOk(r) /\ r.by = kid
            /\ r.payload.object
  IN  [valid |-> ok, read |-> ok]

VerifyEnvelope(r, p) ==
  IF p.envelope = "nip01-schnorr" THEN VerifyNip01(r, p) ELSE VerifyJws(r, p)

\* load_profile: what a profile file must be before anything is checked.
ProfileOk(p) ==
  /\ p.schema = "v1"
  /\ p.envelope \in {"nip01-schnorr", "jws-eddsa"}
  /\ p.keys # {}
  /\ DOMAIN p.labels # {} => p.envelope = "jws-eddsa" /\ \A a \in DOMAIN p.labels : p.labels[a] \in p.keys
  /\ p.members

\* The published key of invinoveritas, and a second issuer with a JWKS label.
Nip01Profile == [schema |-> "v1", envelope |-> "nip01-schnorr", keys |-> {"ivv"}, labels |-> <<>>,
                 kinds |-> {"30078"}, prefixed |-> TRUE, members |-> TRUE]
JwsProfile == [schema |-> "v1", envelope |-> "jws-eddsa", keys |-> {"second"},
               labels |-> [main |-> "second"], kinds |-> {}, prefixed |-> FALSE, members |-> TRUE]
Profiles == {Nip01Profile, JwsProfile}

\* verify_proof is the nip01 path with the published key.
VerifyProof(r) == VerifyNip01(r, Nip01Profile)

KindOf(p) == IF p.envelope = "jws-eddsa" THEN "EdDSA" ELSE "30078"
\* A record its own issuer sealed.
Issue(p, payload) ==
  LET key == CHOOSE k \in p.keys : TRUE IN Sealed(p.envelope, key, KindOf(p), payload)
\* Sealed under the label: the header names it, the listed key signs.
IssueLabelled(p, payload) ==
  [Issue(p, payload) EXCEPT !.key = "main", !.sealed = <<"main", KindOf(p), payload>>]

\* A record altered after it was sealed.
Damaged(r) ==
  {[r EXCEPT !.complete = FALSE], [r EXCEPT !.key = "stranger"], [r EXCEPT !.by = "stranger"],
   [r EXCEPT !.kind = "other"], [r EXCEPT !.payload.object = FALSE],
   [Sealed(r.envelope, "stranger", r.kind, r.payload) EXCEPT !.complete = TRUE]}
=============================================================================
