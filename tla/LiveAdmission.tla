---------------------------- MODULE LiveAdmission ---------------------------
(***************************************************************************)
(* adapters/live_check.py, the admission half of run(): which signatures   *)
(* of a governance block the referee verifies itself (JWS legs or co-      *)
(* signers over the hash), the claim level it displays for them, the cross *)
(* check of the producer's evidence-mode hint, and the admission verdict   *)
(* on the primary signer, in the order the code has them.                  *)
(*                                                                         *)
(* A signature is who made it and over what, the envelope hash or the JWS  *)
(* signing input; it verifies under its maker's key and over that message  *)
(* only.                                                                   *)
(***************************************************************************)
EXTENDS Integers, Sequences, FiniteSets

CONSTANTS
  Key,         \* verification keys
  Trust,       \* trust_policy.independent_verifier_pubkeys
  Actor,       \* mapping actor_pubkey, or None
  None,        \* an absent key, signature, hint or JWS
  Hint,        \* producer hints that occur (None included)
  PubkeyHash,  \* what a co-signer's pubkey_hash may be
  MaxCo,       \* bound: co-signers of a block
  MaxLegs      \* bound: signature legs of a JWS

ASSUME AdmissionAssumption ==
  /\ Trust \subseteq Key
  /\ None \notin Key
  /\ Actor \in Key \union {None}
  /\ PubkeyHash \subseteq {"absent", "match", "mismatch"}
  /\ MaxCo \in Nat
  /\ MaxLegs \in Nat

Sig == [by : Key, over : {"hash", "jws"}]
Scheme == {"bip340", "nostr-event", "ed25519", "unknown"}

\* None is told apart from every signature and from every admission code.
ASSUME NoneAssumption == None \notin Sig /\ None # "pass" /\ None \notin Scheme

\* The primary's: "other" is over a message that is not about this envelope. Under
\* the nostr-event scheme it is the event's, by the event's own author; the block
\* states its pubkey and hash beside the event.
PrimarySig == [by : Key, over : {"hash", "jws", "other"}]

UpTo(n, S) == UNION {[1..k -> S] : k \in 0..n}

CoSigner == [pubkey : Key \union {None}, sig : Sig \union {None},
             sig_scheme : Scheme \union {None}, pubkey_hash : PubkeyHash]

\* legs <<>>: the response carries no JWS; nacl: PyNaCl is there to use.
Block == [scheme : Scheme, pubkey : Key \union {None}, sig : PrimarySig,
          co : UpTo(MaxCo, CoSigner), legs : UpTo(MaxLegs, Sig),
          payload_ok : BOOLEAN, hint : Hint, nacl : BOOLEAN]

Modes == {"embedded_fixture", "pinned_registry", "external_resolution", "cached_prior"}
\* evidence_mode: a mode, or "<mode>_unverifiable".
Mode(m)         == [mode |-> m, verifiable |-> TRUE]
Unverifiable(m) == [mode |-> m, verifiable |-> FALSE]

Claims == {"admission_multisig_unverifiable", "admission_independent",
           "admission_multisig_recomputable"}

Rank(claim) == CASE claim = "admission_multisig_unverifiable" -> 0
                 [] claim = "admission_independent"           -> 1
                 [] claim = "admission_multisig_recomputable" -> 2

VARIABLES
  gov,              \* the governance block, None before it is fetched
  pc,               \* where run() stands
  pos,              \* position in the loop over legs or co-signers
  legs_ok,          \* JWS legs verified so far
  verified_pubkeys, \* keys they verified under
  co_verified,      \* co-signers verified over the envelope hash
  audit,            \* the audit record, None before it is made
  admission         \* the admission suite: code, "pass" or "unverified_here"

vars == <<gov, pc, pos, legs_ok, verified_pubkeys, co_verified, audit, admission>>

CrossChecks == {"producer_hint_missing", "producer_hint_unverifiable",
                "producer_hint_matches_referee", "producer_hint_contradicts_referee"}

Audit == [claim_level : Claims, verified : Nat, declared : Nat, used_jws : BOOLEAN,
          failed : Nat, key_hash : {"verified", "mismatch", "n/a"},
          evidence_mode : [mode : Modes, verifiable : BOOLEAN],
          cross_check : CrossChecks, holds : BOOLEAN]

TypeOK ==
  /\ gov # None => /\ gov.scheme \in Scheme
                   /\ gov.pubkey \in Key \union {None}
                   /\ gov.sig \in PrimarySig
                   /\ gov.co \in Seq(CoSigner)
                   /\ gov.legs \in Seq(Sig)
                   /\ gov.payload_ok \in BOOLEAN
                   /\ gov.hint \in Hint
                   /\ gov.nacl \in BOOLEAN
  /\ pc \in {"fetch", "jws", "co", "audit", "verdict", "done"}
  /\ pos \in 1..(MaxCo + MaxLegs + 1)
  /\ legs_ok \in 0..MaxLegs
  /\ verified_pubkeys \in SUBSET Key
  /\ co_verified \in 0..MaxCo
  /\ audit \in Audit \union {None}
  /\ admission \in {None, "pass", "unverified_here", "admission_signature_invalid",
                    "key_different_but_identity_unproven", "admission_not_independent"}

Init ==
  /\ gov = None
  /\ pc = "fetch"
  /\ pos = 1
  /\ legs_ok = 0
  /\ verified_pubkeys = {}
  /\ co_verified = 0
  /\ audit = None
  /\ admission = None

-----------------------------------------------------------------------------
\* The block is obtained; without PyNaCl, or without legs, no JWS is looked at.
Fetch(g) ==
  /\ pc = "fetch"
  /\ gov' = g
  /\ pc' = IF g.legs # <<>> /\ g.nacl THEN "jws" ELSE "co"
  /\ UNCHANGED <<pos, legs_ok, verified_pubkeys, co_verified, audit, admission>>

Candidates == ({gov.pubkey} \union {gov.co[i].pubkey : i \in DOMAIN gov.co}) \ {None}

\* _verify_jws_legs(): one leg, tried under every candidate key.
VerifyLeg ==
  /\ pc = "jws"
  /\ pos <= Len(gov.legs)
  /\ LET s == gov.legs[pos] IN
       IF s.over = "jws" /\ s.by \in Candidates
       THEN /\ legs_ok' = legs_ok + 1
            /\ verified_pubkeys' = verified_pubkeys \union {s.by}
       ELSE UNCHANGED <<legs_ok, verified_pubkeys>>
  /\ pos' = pos + 1
  /\ UNCHANGED <<gov, pc, co_verified, audit, admission>>

\* The legs count only when the payload decodes to the canonical bytes.
EndLegs ==
  /\ pc = "jws"
  /\ pos > Len(gov.legs)
  /\ pc' = IF gov.payload_ok THEN "audit" ELSE "co"
  /\ pos' = 1
  /\ UNCHANGED <<gov, legs_ok, verified_pubkeys, co_verified, audit, admission>>

used_jws == gov.legs # <<>> /\ gov.nacl /\ gov.payload_ok

\* _verify_admission(scheme, hash, k, s, event): True, False or None. The event
\* of the nostr-event scheme is the primary's; a co-signer has none. An event is
\* checked against its own id and its own pubkey, neither the hash nor k.
VerifyAdmission(scheme, k, s, event) ==
  CASE scheme = "unknown" -> "false"
    [] scheme = "nostr-event" ->
         IF event /\ s.over \in {"hash", "other"} THEN "true" ELSE "false"
    [] scheme = "ed25519" /\ ~gov.nacl -> "none"
    [] OTHER -> IF k # None /\ s.over = "hash" /\ s.by = k THEN "true" ELSE "false"

\* (mutant) A co-signer is credited for the key it embeds.
VerifyCoByKey ==
  /\ pc = "co"
  /\ pos <= Len(gov.co)
  /\ LET c == gov.co[pos] IN
       co_verified' = co_verified + IF c.pubkey # None THEN 1 ELSE 0
  /\ pos' = pos + 1
  /\ UNCHANGED <<gov, pc, legs_ok, verified_pubkeys, audit, admission>>

\* A co-signer's own scheme, or the block's.
SchemeOf(c) == IF c.sig_scheme # None THEN c.sig_scheme ELSE gov.scheme

\* One co-signer, over the envelope hash.
VerifyCo ==
  /\ pc = "co"
  /\ pos <= Len(gov.co)
  /\ LET c == gov.co[pos] IN
       co_verified' = co_verified +
         IF /\ c.pubkey # None
            /\ c.sig # None
            /\ VerifyAdmission(SchemeOf(c), c.pubkey, c.sig, FALSE) = "true" THEN 1 ELSE 0
  /\ pos' = pos + 1
  /\ UNCHANGED <<gov, pc, legs_ok, verified_pubkeys, audit, admission>>

EndCo ==
  /\ pc = "co"
  /\ pos > Len(gov.co)
  /\ pc' = "audit"
  /\ UNCHANGED <<gov, pos, legs_ok, verified_pubkeys, co_verified, audit, admission>>

\* The primary is counted as verified here, before its signature is looked at.
verified      == IF used_jws THEN legs_ok ELSE 1 + co_verified
total_signers == IF used_jws THEN Len(gov.legs) ELSE 1 + Len(gov.co)

base_claim == IF total_signers > 1 /\ verified >= total_signers
              THEN "admission_multisig_recomputable" ELSE "admission_independent"

KeyHashes(what) == {i \in DOMAIN gov.co : /\ gov.co[i].pubkey # None
                                          /\ gov.co[i].pubkey_hash = what}

key_hash == IF KeyHashes("mismatch") # {} THEN "mismatch"
            ELSE IF KeyHashes("match") # {} THEN "verified" ELSE "n/a"

\* Co-signers named in failed_or_unavailable_signer_ids.
FailedSigners ==
  {i \in DOMAIN gov.co :
     IF used_jws THEN gov.co[i].pubkey \notin verified_pubkeys
                 ELSE verified < total_signers /\ gov.co[i].pubkey = None}

key_recomputed == gov.pubkey # None

\* (mutant) On a contradiction the row falls back whatever it was before.
ClassifyRaises ==
  IF gov.hint = None
  THEN [cross_check |-> "producer_hint_missing",
        evidence_mode |-> Mode("embedded_fixture"), claim_level |-> base_claim]
  ELSE IF gov.hint \notin Modes
  THEN [cross_check |-> "producer_hint_unverifiable",
        evidence_mode |-> Mode("embedded_fixture"), claim_level |-> base_claim]
  ELSE LET contract == gov.hint = "embedded_fixture" /\ key_recomputed IN
    IF contract
    THEN [cross_check |-> "producer_hint_matches_referee",
          evidence_mode |-> Mode("embedded_fixture"),
          claim_level |-> "admission_multisig_recomputable"]
    ELSE [cross_check |-> "producer_hint_contradicts_referee",
          evidence_mode |-> Unverifiable(gov.hint), claim_level |-> base_claim]

\* classify_evidence_mode(): the derived mode is embedded_fixture, and nothing
\* external was fetched, so every other declared mode's contract is unmet.
Classify ==
  IF gov.hint = None
  THEN [cross_check |-> "producer_hint_missing",
        evidence_mode |-> Mode("embedded_fixture"), claim_level |-> base_claim]
  ELSE IF gov.hint \notin Modes
  THEN [cross_check |-> "producer_hint_unverifiable",
        evidence_mode |-> Mode("embedded_fixture"), claim_level |-> base_claim]
  ELSE LET contract == gov.hint = "embedded_fixture" /\ key_recomputed
           fallback == IF key_recomputed THEN "admission_independent"
                                         ELSE "admission_multisig_unverifiable"
       IN
    IF contract
    THEN [cross_check |-> "producer_hint_matches_referee",
          evidence_mode |-> Mode("embedded_fixture"), claim_level |-> base_claim]
    ELSE [cross_check |-> "producer_hint_contradicts_referee",
          evidence_mode |-> Unverifiable(gov.hint),
          claim_level |-> IF Rank(fallback) <= Rank(base_claim)
                          THEN fallback ELSE base_claim]

MakeAudit ==
  /\ pc = "audit"
  /\ audit' = [claim_level |-> Classify.claim_level,
               verified |-> verified, declared |-> total_signers,
               used_jws |-> used_jws, failed |-> Cardinality(FailedSigners),
               key_hash |-> key_hash, evidence_mode |-> Classify.evidence_mode,
               cross_check |-> Classify.cross_check,
               holds |-> /\ key_recomputed
                         /\ verified <= total_signers
                         /\ Classify.cross_check # "producer_hint_contradicts_referee"]
  /\ pc' = "verdict"
  /\ UNCHANGED <<gov, pos, legs_ok, verified_pubkeys, co_verified, admission>>

sig_valid ==
  IF used_jws /\ gov.pubkey \in verified_pubkeys THEN "true"
  ELSE VerifyAdmission(gov.scheme, gov.pubkey, gov.sig, TRUE)

\* (mutant) A JWS that verified at all vouches for the primary.
AdmissionAnyLeg ==
  IF used_jws /\ legs_ok > 0 THEN "pass"
  ELSE IF sig_valid = "none" THEN "unverified_here"
  ELSE IF sig_valid = "false" THEN "admission_signature_invalid"
  ELSE IF Trust # {} /\ gov.pubkey \notin Trust THEN "key_different_but_identity_unproven"
  ELSE IF gov.pubkey = Actor THEN "admission_not_independent"
  ELSE "pass"

Admission ==
  IF sig_valid = "none" THEN "unverified_here"
  ELSE IF sig_valid = "false" THEN "admission_signature_invalid"
  ELSE IF Trust # {} /\ gov.pubkey \notin Trust THEN "key_different_but_identity_unproven"
  ELSE IF gov.pubkey = Actor THEN "admission_not_independent"
  ELSE "pass"

Verdict ==
  /\ pc = "verdict"
  /\ admission' = Admission
  /\ pc' = "done"
  /\ UNCHANGED <<gov, pos, legs_ok, verified_pubkeys, co_verified, audit>>

Next ==
  \/ pc = "fetch" /\ \E g \in Block : Fetch(g)
  \/ VerifyLeg
  \/ EndLegs
  \/ VerifyCo
  \/ EndCo
  \/ MakeAudit
  \/ Verdict

Spec == Init /\ [][Next]_vars

-----------------------------------------------------------------------------
(* Properties *)

\* A signature in the block by key k over a message that commits to the
\* envelope: the hash, or the JWS input of a payload that is the canonical bytes.
SignedBy(k) ==
  \/ gov.sig = [by |-> k, over |-> "hash"]
  \/ \E i \in DOMAIN gov.co : gov.co[i].sig = [by |-> k, over |-> "hash"]
  \/ gov.payload_ok /\ \E i \in DOMAIN gov.legs :
       gov.legs[i] = [by |-> k, over |-> "jws"]

\* The block carries an event that somebody signed, and its pubkey or its hash
\* is not that event's.
EventApart ==
  /\ gov.scheme = "nostr-event"
  /\ gov.sig.over \in {"hash", "other"}
  /\ gov.sig.by # gov.pubkey \/ gov.sig.over = "other"

\* What a pass rests on, on either path to it and whatever the co-signers, the
\* hint and the legs are: a signature in the block by the primary, who is not the
\* actor and, where independent verifiers are declared, is one of them. One case
\* is excepted, and adapters/README.md:53 promises it too ("a valid signature over
\* the envelope hash by a key in your independent_verifier_pubkeys"): an event is
\* verified under its own id and key (live_check.py:212) and compared neither with
\* the hash nor with the key, which adapters/invinoveritas.mapping.json:7-8 take
\* from the block. The row passes then on any signed event.
PassIsSigned ==
  admission = "pass" =>
    /\ SignedBy(gov.pubkey) \/ EventApart
    /\ gov.pubkey # Actor
    /\ Trust # {} => gov.pubkey \in Trust

\* Can a signature over the hash be verified here under this scheme?
Supported(scheme) == scheme = "bip340" \/ (scheme = "ed25519" /\ gov.nacl)

PrimaryVerifiable ==
  \/ gov.scheme = "nostr-event" /\ gov.sig.over \in {"hash", "other"}
  \/ Supported(gov.scheme) /\ gov.pubkey # None /\ gov.sig = [by |-> gov.pubkey, over |-> "hash"]

CoVerifiable(c) ==
  Supported(SchemeOf(c)) /\ c.pubkey # None /\ c.sig = [by |-> c.pubkey, over |-> "hash"]

\* Signers of the block that the referee can re-verify as it is, each under its
\* own scheme: the primary, as 0, and the co-signers; with legs that count, the legs.
VerifiableSigners ==
  IF used_jws
  THEN {i \in DOMAIN gov.legs : gov.legs[i].over = "jws" /\ gov.legs[i].by \in Candidates}
  ELSE {i \in {0} : PrimaryVerifiable} \union {i \in DOMAIN gov.co : CoVerifiable(gov.co[i])}

\* A row shows the multi-signer level only when every signature it counts was
\* re-verified, and it counts all it declares; or it counts one too many, the
\* primary's, which is counted before it is looked at (live_check.py:368), and the
\* admission suite of the same row reports that one as invalid or unverified.
MultisigEarned ==
  pc = "done" /\ audit.claim_level = "admission_multisig_recomputable" =>
    /\ audit.declared > 1
    /\ audit.verified = audit.declared
    /\ \/ audit.verified = Cardinality(VerifiableSigners)
       \/ /\ audit.verified = Cardinality(VerifiableSigners) + 1
          /\ admission \in {"admission_signature_invalid", "unverified_here"}

\* "A producer hint is disclosure, never control flow": with a hint the row
\* shows no more than it would without one, and no evidence mode but the one
\* the referee derived, or that mode marked unverifiable.
HintNeverHelps ==
  pc \in {"verdict", "done"} =>
    /\ Rank(audit.claim_level) <= Rank(base_claim)
    /\ audit.evidence_mode \in {Mode("embedded_fixture"), Unverifiable(gov.hint)}

=============================================================================
