---------------------------- MODULE LiveProofs ----------------------------
(***************************************************************************)
(* The two halves of run() in adapters/live_check.py. The admission half:  *)
(* what its verdict is worth for every set of keys, trust policy, mapping, *)
(* hint and block of any size. The anchoring half: what a row of the board *)
(* is worth for every clock, every interleaving of the endpoint with the   *)
(* two fetches of run() and any number of runs.                            *)
(***************************************************************************)
EXTENDS LiveAdmission, LiveCheck, FiniteSetTheorems, TLAPS

OkLeg(i) == gov.legs[i].over = "jws" /\ gov.legs[i].by \in Candidates

OkCo(i) == /\ gov.co[i].pubkey # None
           /\ gov.co[i].sig # None
           /\ VerifyAdmission(SchemeOf(gov.co[i]), gov.co[i].pubkey, gov.co[i].sig, FALSE) = "true"

\* The legs, and the co-signers, up to position n that verify.
LegsTo(n) == {i \in 1..n : OkLeg(i)}
CosTo(n)  == {i \in 1..n : OkCo(i)}

LegSigners == {k \in Key : \E i \in DOMAIN gov.legs :
                             gov.legs[i] = [by |-> k, over |-> "jws"]}

\* After the fetch there is a block.
GovInv == pc # "fetch" => gov \in Block

\* What the counters hold at each place of run().
CountInv ==
  /\ pc = "fetch" => gov = None /\ pos = 1 /\ legs_ok = 0 /\ co_verified = 0
                     /\ verified_pubkeys = {}
  /\ pc = "jws" => /\ gov.legs # <<>> /\ gov.nacl
                   /\ pos \in 1..(Len(gov.legs) + 1)
                   /\ legs_ok = Cardinality(LegsTo(pos - 1))
                   /\ co_verified = 0
  /\ pc = "co" => /\ ~used_jws
                  /\ pos \in 1..(Len(gov.co) + 1)
                  /\ co_verified = Cardinality(CosTo(pos - 1))
  /\ pc \in {"audit", "verdict", "done"} =>
       IF used_jws THEN legs_ok = Cardinality(LegsTo(Len(gov.legs)))
                   ELSE co_verified = Cardinality(CosTo(Len(gov.co)))

\* A key a leg verified under signed one.
KeysInv == pc # "fetch" => verified_pubkeys \subseteq LegSigners

\* The audit record is made of the counters as they still are.
AuditInv ==
  pc \in {"verdict", "done"} =>
    /\ audit.claim_level = Classify.claim_level
    /\ audit.evidence_mode = Classify.evidence_mode
    /\ audit.verified = verified
    /\ audit.declared = total_signers

VerdictInv ==
  /\ pc # "done" => admission = None
  /\ pc = "done" => admission = Admission

IInv == TypeOK /\ GovInv /\ CountInv /\ KeysInv /\ AuditInv /\ VerdictInv

-----------------------------------------------------------------------------
(* The block and what is counted in it *)

\* The members of a set of positions of a loop are finitely many, at most as
\* many as the positions, and the next one makes one more.
LEMMA CountStep ==
  ASSUME NEW n \in Nat, NEW S, S \subseteq 1..n
  PROVE  /\ IsFiniteSet(S)
         /\ Cardinality(S) \in 0..n
         /\ Cardinality(S \union {n + 1}) = Cardinality(S) + 1
<1>1. IsFiniteSet(1..n) /\ Cardinality(1..n) = n
  <2>1. IsFiniteSet(1..n) /\ Cardinality(1..n) = IF 1 > n THEN 0 ELSE n - 1 + 1
    BY FS_Interval
  <2> QED BY <2>1
<1>2. IsFiniteSet(S) /\ Cardinality(S) <= n
  BY <1>1, FS_Subset
<1>3. Cardinality(S) \in Nat
  BY <1>2, FS_CardinalityType
<1>4. n + 1 \notin S
  OBVIOUS
<1>5. Cardinality(S \union {n + 1}) = Cardinality(S) + 1
  BY <1>2, <1>4, FS_AddElement
<1> QED BY <1>2, <1>3, <1>5

\* A bounded sequence is one, and no longer than its bound.
LEMMA UpToSeq ==
  ASSUME NEW n \in Nat, NEW S, NEW s \in UpTo(n, S)
  PROVE  /\ s \in Seq(S)
         /\ Len(s) \in 0..n
         /\ DOMAIN s = 1..Len(s)
<1>1. PICK k \in 0..n : s \in [1..k -> S]
  BY DEF UpTo
<1>2. k \in Nat
  BY <1>1
<1>3. s \in Seq(S) /\ Len(s) = k
  BY <1>1, <1>2
<1> QED BY <1>1, <1>3

\* The fields of the block that run() reads, as load and fetch leave them.
LEMMA BlockFields ==
  ASSUME NEW g \in Block
  PROVE  /\ g.scheme \in Scheme
         /\ g.pubkey \in Key \union {None}
         /\ g.sig \in PrimarySig
         /\ g.co \in Seq(CoSigner) /\ Len(g.co) \in 0..MaxCo /\ DOMAIN g.co = 1..Len(g.co)
         /\ g.legs \in Seq(Sig) /\ Len(g.legs) \in 0..MaxLegs
         /\ DOMAIN g.legs = 1..Len(g.legs)
         /\ g.payload_ok \in BOOLEAN
         /\ g.hint \in Hint
         /\ g.nacl \in BOOLEAN
<1>1. g.co \in UpTo(MaxCo, CoSigner) /\ g.legs \in UpTo(MaxLegs, Sig)
  BY DEF Block
<1>2. MaxCo \in Nat /\ MaxLegs \in Nat
  BY AdmissionAssumption
<1>3. g.co \in Seq(CoSigner) /\ Len(g.co) \in 0..MaxCo /\ DOMAIN g.co = 1..Len(g.co)
  BY <1>1, <1>2, UpToSeq
<1>4. /\ g.legs \in Seq(Sig) /\ Len(g.legs) \in 0..MaxLegs
      /\ DOMAIN g.legs = 1..Len(g.legs)
  BY <1>1, <1>2, UpToSeq
<1>5. /\ g.scheme \in Scheme
      /\ g.pubkey \in Key \union {None}
      /\ g.sig \in PrimarySig
      /\ g.payload_ok \in BOOLEAN
      /\ g.hint \in Hint
      /\ g.nacl \in BOOLEAN
  BY DEF Block
<1> QED BY <1>3, <1>4, <1>5

\* A co-signer is credited for its own signature over the hash, under its own
\* scheme, and for nothing else: under nostr-event it has no event to check.
LEMMA CreditedCo ==
  ASSUME gov \in Block, NEW i \in DOMAIN gov.co
  PROVE  OkCo(i) <=> CoVerifiable(gov.co[i])
<1>1. gov.co \in Seq(CoSigner) /\ gov.scheme \in Scheme
  BY BlockFields
<1> DEFINE c == gov.co[i]
<1>2. c \in CoSigner
  BY <1>1
<1>3. c.pubkey \in Key \union {None} /\ c.sig \in Sig \union {None} /\ c.sig_scheme \in Scheme \union {None}
  BY <1>2 DEF CoSigner
<1> HIDE DEF c
<1>4. CASE c.sig = None \/ c.pubkey = None
  <2>1. c.pubkey \in Key => [by |-> c.pubkey, over |-> "hash"] \in Sig
    BY DEF Sig
  <2> QED BY <1>3, <1>4, <2>1, NoneAssumption DEF OkCo, CoVerifiable, c
<1>5. CASE c.sig # None /\ c.pubkey # None
  <2>1. c.sig \in Sig
    BY <1>3, <1>5
  <2>2. c.sig = [by |-> c.pubkey, over |-> "hash"] <=> c.sig.by = c.pubkey /\ c.sig.over = "hash"
    BY <2>1 DEF Sig
  <2>3. SchemeOf(c) \in Scheme
    BY <1>1, <1>3 DEF SchemeOf
  <2>4. VerifyAdmission(SchemeOf(c), c.pubkey, c.sig, FALSE) = "true" <=>
          Supported(SchemeOf(c)) /\ c.sig.by = c.pubkey /\ c.sig.over = "hash"
    BY <1>5, <2>3 DEF VerifyAdmission, Supported, Scheme
  <2> QED BY <1>5, <2>2, <2>4 DEF OkCo, CoVerifiable, c
<1> QED BY <1>4, <1>5

\* What the audit record shows is of the type it should be, and a level above
\* admission_independent is shown only where the counts alone earn it.
LEMMA ClassifyFacts ==
  ASSUME gov \in Block
  PROVE  /\ Classify.claim_level \in Claims
         /\ Classify.cross_check \in CrossChecks
         /\ Classify.evidence_mode \in [mode : Modes, verifiable : BOOLEAN]
         /\ Rank(Classify.claim_level) <= Rank(base_claim)
         /\ Classify.evidence_mode \in {Mode("embedded_fixture"), Unverifiable(gov.hint)}
         /\ Classify.claim_level = "admission_multisig_recomputable" =>
              base_claim = "admission_multisig_recomputable"
<1> DEFINE b == base_claim
<1>1. b \in {"admission_multisig_recomputable", "admission_independent"}
  BY DEF base_claim
<1>2. Rank(b) \in Nat /\ Rank("admission_independent") <= Rank(b)
                      /\ Rank("admission_multisig_unverifiable") <= Rank(b)
  BY <1>1 DEF Rank
<1>3. "embedded_fixture" \in Modes
  BY DEF Modes
<1> HIDE DEF b
<1>4. CASE gov.hint = None
  BY <1>1, <1>2, <1>3, <1>4 DEF Classify, b, Claims, CrossChecks, Mode
<1>5. CASE gov.hint # None /\ gov.hint \notin Modes
  BY <1>1, <1>2, <1>3, <1>5 DEF Classify, b, Claims, CrossChecks, Mode
<1>6. CASE gov.hint # None /\ gov.hint \in Modes /\ gov.hint = "embedded_fixture" /\ key_recomputed
  BY <1>1, <1>2, <1>3, <1>6 DEF Classify, b, Claims, CrossChecks, Mode
<1>7. CASE gov.hint # None /\ gov.hint \in Modes /\ ~(gov.hint = "embedded_fixture" /\ key_recomputed)
  <2> DEFINE f == IF key_recomputed THEN "admission_independent"
                                    ELSE "admission_multisig_unverifiable"
  <2>1. f \in {"admission_independent", "admission_multisig_unverifiable"} /\ Rank(f) <= Rank(b)
    BY <1>2
  <2>2. Classify = [cross_check |-> "producer_hint_contradicts_referee",
                    evidence_mode |-> Unverifiable(gov.hint),
                    claim_level |-> f]
    BY <1>7, <2>1 DEF Classify, b
  <2> HIDE DEF f
  <2> QED BY <1>1, <1>2, <1>7, <2>1, <2>2 DEF Claims, CrossChecks, Unverifiable, b
<1> QED BY <1>4, <1>5, <1>6, <1>7

\* The verdict reads the block and the counters only.
LEMMA Unmoved ==
  ASSUME UNCHANGED <<gov, legs_ok, verified_pubkeys, co_verified>>
  PROVE  /\ used_jws' = used_jws
         /\ verified' = verified
         /\ total_signers' = total_signers
         /\ Classify' = Classify
         /\ Admission' = Admission
         /\ LegSigners' = LegSigners
         /\ \A n : LegsTo(n)' = LegsTo(n) /\ CosTo(n)' = CosTo(n)
<1>1. used_jws' = used_jws
  BY DEF used_jws
<1>3. verified' = verified
  BY <1>1 DEF verified
<1>4. total_signers' = total_signers
  BY <1>1 DEF total_signers
<1>5. base_claim' = base_claim
  BY <1>3, <1>4 DEF base_claim
<1>6. Classify' = Classify
  BY <1>5 DEF Classify, key_recomputed
<1>7. sig_valid' = sig_valid
  BY <1>1 DEF sig_valid, VerifyAdmission
<1>8. Admission' = Admission
  BY <1>7 DEF Admission
<1>9. LegSigners' = LegSigners
  BY DEF LegSigners
<1>10. \A n : LegsTo(n)' = LegsTo(n) /\ CosTo(n)' = CosTo(n)
  BY DEF LegsTo, CosTo, OkLeg, OkCo, SchemeOf, Candidates, VerifyAdmission
<1> QED BY <1>1, <1>3, <1>4, <1>6, <1>8, <1>9, <1>10

-----------------------------------------------------------------------------
(* The steps of run() *)

\* run() starts with nothing fetched and nothing counted.
LEMMA InitIInv == Init => IInv
<1> SUFFICES ASSUME Init PROVE IInv
  OBVIOUS
<1>1. TypeOK
  BY AdmissionAssumption DEF Init, TypeOK
<1> QED BY <1>1 DEF Init, IInv, GovInv, CountInv, KeysInv, AuditInv, VerdictInv

\* A fetched block starts the loop over its legs, or the one over co-signers.
LEMMA FetchStep ==
  ASSUME IInv, NEW g \in Block, Fetch(g)
  PROVE  IInv'
<1>1. gov' \in Block /\ gov' = g
  BY DEF Fetch
<1>3. pc' = IF g.legs # <<>> /\ g.nacl THEN "jws" ELSE "co"
  BY DEF Fetch
<1>4. /\ pos' = 1 /\ legs_ok' = 0 /\ co_verified' = 0 /\ verified_pubkeys' = {}
      /\ audit' = audit /\ admission' = None
  BY DEF Fetch, IInv, CountInv, VerdictInv
<1>5. /\ g.co \in Seq(CoSigner) /\ Len(g.co) \in 0..MaxCo
      /\ g.legs \in Seq(Sig) /\ Len(g.legs) \in 0..MaxLegs
  BY BlockFields
<1>6. TypeOK'
  <2>1. /\ g.scheme \in Scheme /\ g.pubkey \in Key \union {None} /\ g.sig \in PrimarySig
        /\ g.payload_ok \in BOOLEAN /\ g.hint \in Hint /\ g.nacl \in BOOLEAN
    BY BlockFields
  <2>2. audit' \in Audit \union {None}
    BY <1>4 DEF IInv, TypeOK
  <2> QED BY <1>1, <1>3, <1>4, <1>5, <2>1, <2>2, AdmissionAssumption DEF TypeOK
<1>7. LegsTo(0)' = {} /\ CosTo(0)' = {}
  BY DEF LegsTo, CosTo
<1>8. Cardinality({}) = 0
  BY FS_EmptySet
<1>9. (pos - 1)' = 0
  BY <1>4
<1>10. CountInv'
  <2>1. CASE pc' = "jws"
    <3>1. gov'.legs # <<>> /\ gov'.nacl /\ pos' \in 1..(Len(gov'.legs) + 1)
      BY <1>1, <1>3, <1>4, <1>5, <2>1
    <3>2. legs_ok' = Cardinality(LegsTo(pos - 1)')
      BY <1>4, <1>7, <1>8, <1>9 DEF LegsTo
    <3> QED BY <1>4, <2>1, <3>1, <3>2 DEF CountInv
  <2>2. CASE pc' = "co"
    <3>1. ~used_jws' /\ pos' \in 1..(Len(gov'.co) + 1)
      BY <1>1, <1>3, <1>4, <1>5, <2>2 DEF used_jws
    <3>2. co_verified' = Cardinality(CosTo(pos - 1)')
      BY <1>4, <1>7, <1>8, <1>9 DEF CosTo
    <3> QED BY <1>4, <2>2, <3>1, <3>2 DEF CountInv
  <2> QED BY <1>3, <2>1, <2>2
<1> QED BY <1>1, <1>3, <1>4, <1>6, <1>10 DEF IInv, GovInv, KeysInv, AuditInv, VerdictInv

\* The block stays well formed under the steps that do not replace it.
LEMMA TypeStep ==
  ASSUME IInv, gov' = gov,
         pc' \in {"fetch", "jws", "co", "audit", "verdict", "done"},
         pos' \in 1..(MaxCo + MaxLegs + 1),
         legs_ok' \in 0..MaxLegs,
         verified_pubkeys' \in SUBSET Key,
         co_verified' \in 0..MaxCo,
         audit' \in Audit \union {None},
         admission' \in {None, "pass", "unverified_here", "admission_signature_invalid",
                         "key_different_but_identity_unproven", "admission_not_independent"}
  PROVE  TypeOK'
BY DEF IInv, TypeOK

\* A leg adds one to the count, and its maker to the keys, when it verifies under
\* a candidate key over the signing input.
LEMMA VerifyLegStep ==
  ASSUME IInv, VerifyLeg
  PROVE  IInv'
<1>1. pc = "jws" /\ pc' = "jws" /\ gov' = gov /\ gov \in Block
  BY DEF VerifyLeg, IInv, GovInv
<1>2. UNCHANGED <<co_verified, audit, admission>> /\ pos' = pos + 1
  BY DEF VerifyLeg
<1>3. /\ gov.legs # <<>> /\ gov.nacl /\ pos \in 1..Len(gov.legs)
      /\ legs_ok = Cardinality(LegsTo(pos - 1)) /\ co_verified = 0 /\ admission = None
  <2>1. pos \in 1..(Len(gov.legs) + 1) /\ pos <= Len(gov.legs)
    BY <1>1 DEF VerifyLeg, IInv, CountInv
  <2>2. Len(gov.legs) \in Nat
    BY <1>1, BlockFields
  <2> QED BY <1>1, <2>1, <2>2 DEF IInv, CountInv, VerdictInv
<1>4. /\ gov.legs \in Seq(Sig) /\ Len(gov.legs) \in 0..MaxLegs /\ DOMAIN gov.legs = 1..Len(gov.legs)
  BY <1>1, BlockFields
<1>5. LegsTo(pos - 1) \subseteq 1..(pos - 1) /\ pos - 1 \in Nat /\ pos - 1 + 1 = pos
  BY <1>3, <1>4 DEF LegsTo
<1>6. Cardinality(LegsTo(pos - 1)) \in 0..(pos - 1) /\
      Cardinality(LegsTo(pos - 1) \union {pos}) = Cardinality(LegsTo(pos - 1)) + 1
  <2> DEFINE n == pos - 1  S == LegsTo(pos - 1)
  <2>1. n \in Nat /\ n + 1 = pos /\ S \subseteq 1..n
    BY <1>5
  <2> HIDE DEF n, S
  <2>2. Cardinality(S) \in 0..n /\ Cardinality(S \union {n + 1}) = Cardinality(S) + 1
    BY <2>1, CountStep
  <2>3. Cardinality(S) \in 0..n /\ Cardinality(S \union {pos}) = Cardinality(S) + 1
    BY <2>1, <2>2
  <2> QED BY <2>3 DEF n, S
<1>7. \A n : LegsTo(n)' = LegsTo(n)
  BY <1>1 DEF LegsTo, OkLeg, Candidates
<1>8. (pos - 1)' = pos
  BY <1>2, <1>3, <1>4
<1>9. LegsTo(pos - 1)' = LegsTo(pos)
  BY <1>1, <1>8 DEF LegsTo, OkLeg, Candidates
<1>10. gov.legs[pos] \in Sig
  BY <1>3, <1>4
<1>11. legs_ok' = Cardinality(LegsTo(pos)) /\ verified_pubkeys' \subseteq LegSigners
  <2>0. verified_pubkeys \subseteq LegSigners
    BY <1>1 DEF IInv, KeysInv
  <2>1. CASE OkLeg(pos)
    <3>1. /\ legs_ok' = legs_ok + 1
          /\ verified_pubkeys' = verified_pubkeys \union {gov.legs[pos].by}
      BY <2>1 DEF VerifyLeg, OkLeg
    <3>2. LegsTo(pos) = LegsTo(pos - 1) \union {pos}
      <4>1. 1..pos = 1..(pos - 1) \union {pos}
        BY <1>3, <1>4
      <4> QED BY <2>1, <4>1 DEF LegsTo
    <3>3. gov.legs[pos].by \in Key /\ gov.legs[pos].over = "jws"
      BY <1>10, <2>1 DEF Sig, OkLeg
    <3>4. gov.legs[pos] = [by |-> gov.legs[pos].by, over |-> "jws"]
      BY <1>10, <3>3 DEF Sig
    <3>5. gov.legs[pos].by \in LegSigners
      BY <1>3, <1>4, <3>3, <3>4 DEF LegSigners
    <3> QED BY <1>3, <1>6, <2>0, <3>1, <3>2, <3>5
  <2>2. CASE ~OkLeg(pos)
    <3>1. legs_ok' = legs_ok /\ verified_pubkeys' = verified_pubkeys
      BY <2>2 DEF VerifyLeg, OkLeg
    <3>2. LegsTo(pos) = LegsTo(pos - 1)
      <4>1. 1..pos = 1..(pos - 1) \union {pos}
        BY <1>3, <1>4
      <4> QED BY <2>2, <4>1 DEF LegsTo
    <3> QED BY <1>3, <2>0, <3>1, <3>2
  <2> QED BY <2>1, <2>2
<1>12. legs_ok' \in 0..MaxLegs
  <2>1. LegsTo(pos) \subseteq 1..pos /\ pos \in Nat
    BY <1>3, <1>4 DEF LegsTo
  <2>2. Cardinality(LegsTo(pos)) \in 0..pos
    BY <2>1, CountStep
  <2> QED BY <1>3, <1>4, <1>11, <2>2, AdmissionAssumption
<1>13. TypeOK'
  <2>1. verified_pubkeys' \in SUBSET Key
    BY <1>11 DEF LegSigners
  <2>2. pos' \in 1..(MaxCo + MaxLegs + 1)
    BY <1>2, <1>3, <1>4, AdmissionAssumption
  <2>3. /\ co_verified' \in 0..MaxCo /\ audit' \in Audit \union {None}
        /\ admission' \in {None, "pass", "unverified_here", "admission_signature_invalid",
                           "key_different_but_identity_unproven", "admission_not_independent"}
    BY <1>2 DEF IInv, TypeOK
  <2> QED BY <1>1, <1>12, <2>1, <2>2, <2>3, TypeStep
<1>14. CountInv'
  <2>1. pos' \in 1..(Len(gov.legs) + 1)
    BY <1>2, <1>3, <1>4
  <2> QED BY <1>1, <1>2, <1>3, <1>9, <1>11, <2>1 DEF CountInv
<1>15. KeysInv' /\ GovInv'
  BY <1>1, <1>11 DEF KeysInv, GovInv, LegSigners
<1> QED BY <1>1, <1>2, <1>3, <1>13, <1>14, <1>15 DEF IInv, AuditInv, VerdictInv

\* When the payload is not the canonical bytes, the loop over co-signers starts
\* from nothing; otherwise every leg was counted.
LEMMA EndLegsStep ==
  ASSUME IInv, EndLegs
  PROVE  IInv'
<1>1. /\ pc = "jws" /\ UNCHANGED <<gov, legs_ok, verified_pubkeys, co_verified>>
      /\ gov \in Block
      /\ pc' = (IF gov.payload_ok THEN "audit" ELSE "co") /\ pos' = 1
      /\ audit' = audit /\ admission' = None
  BY DEF EndLegs, IInv, GovInv, VerdictInv
<1>2. gov.legs # <<>> /\ gov.nacl /\ pos = Len(gov.legs) + 1
  <2>1. pos \in 1..(Len(gov.legs) + 1) /\ pos > Len(gov.legs)
    BY <1>1 DEF EndLegs, IInv, CountInv
  <2>2. Len(gov.legs) \in Nat
    BY <1>1, BlockFields
  <2> QED BY <1>1, <2>1, <2>2 DEF IInv, CountInv
<1>3. legs_ok = Cardinality(LegsTo(Len(gov.legs))) /\ co_verified = 0
  <2>1. pos - 1 = Len(gov.legs)
    BY <1>1, <1>2, BlockFields
  <2> QED BY <1>1, <2>1 DEF IInv, CountInv
<1>4. used_jws' = used_jws /\ used_jws = gov.payload_ok
  BY <1>1, <1>2, BlockFields DEF used_jws
<1>5. TypeOK'
  <2>1. /\ pc' \in {"fetch", "jws", "co", "audit", "verdict", "done"}
        /\ pos' \in 1..(MaxCo + MaxLegs + 1)
    BY <1>1, AdmissionAssumption
  <2>2. /\ legs_ok' \in 0..MaxLegs /\ verified_pubkeys' \in SUBSET Key
        /\ co_verified' \in 0..MaxCo /\ audit' \in Audit \union {None}
    BY <1>1 DEF IInv, TypeOK
  <2> QED BY <1>1, <2>1, <2>2, TypeStep
<1>6. CountInv'
  <2>1. CASE pc' = "audit"
    <3>1. gov.payload_ok
      BY <1>1, <2>1
    <3>2. used_jws'
      BY <1>4, <3>1
    <3>3. legs_ok' = Cardinality(LegsTo(Len(gov.legs))')
      BY <1>1, <1>3 DEF LegsTo, OkLeg, Candidates
    <3> QED BY <1>1, <2>1, <3>2, <3>3 DEF CountInv
  <2>2. CASE pc' = "co"
    <3>1. ~gov.payload_ok
      BY <1>1, <2>2
    <3>2. ~used_jws'
      BY <1>4, <3>1
    <3>3. CosTo(pos - 1)' = {}
      BY <1>1 DEF CosTo
    <3>4. co_verified' = Cardinality(CosTo(pos - 1)')
      BY <1>1, <1>3, <3>3, FS_EmptySet
    <3>5. pos' \in 1..(Len(gov.co) + 1)
      BY <1>1, BlockFields
    <3> QED BY <1>1, <2>2, <3>2, <3>4, <3>5 DEF CountInv
  <2> QED BY <1>1, <2>1, <2>2
<1>7. KeysInv' /\ GovInv'
  BY <1>1 DEF IInv, KeysInv, GovInv, LegSigners
<1> QED BY <1>1, <1>5, <1>6, <1>7 DEF IInv, AuditInv, VerdictInv

\* A co-signer adds one to the count when its own signature verifies.
LEMMA VerifyCoStep ==
  ASSUME IInv, VerifyCo
  PROVE  IInv'
<1>1. pc = "co" /\ pc' = "co" /\ gov' = gov /\ gov \in Block /\ admission' = None
  BY DEF VerifyCo, IInv, GovInv, VerdictInv
<1>2. UNCHANGED <<legs_ok, verified_pubkeys, audit>> /\ pos' = pos + 1
  BY DEF VerifyCo
<1>3. ~used_jws /\ pos \in 1..Len(gov.co) /\ co_verified = Cardinality(CosTo(pos - 1))
  <2>1. pos \in 1..(Len(gov.co) + 1) /\ pos <= Len(gov.co)
    BY <1>1 DEF VerifyCo, IInv, CountInv
  <2>2. Len(gov.co) \in Nat
    BY <1>1, BlockFields
  <2> QED BY <1>1, <2>1, <2>2 DEF IInv, CountInv
<1>4. Len(gov.co) \in 0..MaxCo
  BY <1>1, BlockFields
<1>5. CosTo(pos - 1) \subseteq 1..(pos - 1) /\ pos - 1 \in Nat /\ pos - 1 + 1 = pos
  BY <1>3, <1>4 DEF CosTo
<1>6. Cardinality(CosTo(pos - 1)) \in 0..(pos - 1) /\
      Cardinality(CosTo(pos - 1) \union {pos}) = Cardinality(CosTo(pos - 1)) + 1
  <2> DEFINE n == pos - 1  S == CosTo(pos - 1)
  <2>1. n \in Nat /\ n + 1 = pos /\ S \subseteq 1..n
    BY <1>5
  <2> HIDE DEF n, S
  <2>2. Cardinality(S) \in 0..n /\ Cardinality(S \union {n + 1}) = Cardinality(S) + 1
    BY <2>1, CountStep
  <2>3. Cardinality(S) \in 0..n /\ Cardinality(S \union {pos}) = Cardinality(S) + 1
    BY <2>1, <2>2
  <2> QED BY <2>3 DEF n, S
<1>7. (pos - 1)' = pos
  BY <1>2, <1>3, <1>4
<1>8. CosTo(pos - 1)' = CosTo(pos)
  BY <1>1, <1>7 DEF CosTo, OkCo, SchemeOf, VerifyAdmission
<1>9. 1..pos = 1..(pos - 1) \union {pos}
  BY <1>3, <1>4
<1>10. co_verified' = Cardinality(CosTo(pos))
  <2>1. CASE OkCo(pos)
    <3>1. co_verified' = co_verified + 1
      BY <2>1 DEF VerifyCo, OkCo
    <3>2. CosTo(pos) = CosTo(pos - 1) \union {pos}
      BY <1>9, <2>1 DEF CosTo
    <3> QED BY <1>3, <1>6, <3>1, <3>2
  <2>2. CASE ~OkCo(pos)
    <3>1. co_verified' = co_verified + 0
      BY <2>2 DEF VerifyCo, OkCo
    <3>2. CosTo(pos) = CosTo(pos - 1)
      BY <1>9, <2>2 DEF CosTo
    <3> QED BY <1>3, <1>6, <3>1, <3>2
  <2> QED BY <2>1, <2>2
<1>11. co_verified' \in 0..MaxCo
  <2>1. CosTo(pos) \subseteq 1..pos /\ pos \in Nat
    BY <1>3, <1>4 DEF CosTo
  <2>2. Cardinality(CosTo(pos)) \in 0..pos
    BY <2>1, CountStep
  <2> QED BY <1>3, <1>4, <1>10, <2>2, AdmissionAssumption
<1>12. TypeOK'
  <2>1. pos' \in 1..(MaxCo + MaxLegs + 1)
    BY <1>2, <1>3, <1>4, AdmissionAssumption
  <2>2. /\ legs_ok' \in 0..MaxLegs /\ verified_pubkeys' \in SUBSET Key
        /\ audit' \in Audit \union {None}
    BY <1>2 DEF IInv, TypeOK
  <2> QED BY <1>1, <1>11, <2>1, <2>2, TypeStep
<1>13. CountInv'
  <2>1. pos' \in 1..(Len(gov.co) + 1)
    BY <1>2, <1>3, <1>4
  <2>2. ~used_jws'
    BY <1>1, <1>3 DEF used_jws
  <2> QED BY <1>1, <1>8, <1>10, <2>1, <2>2 DEF CountInv
<1>14. KeysInv' /\ GovInv'
  BY <1>1, <1>2 DEF IInv, KeysInv, GovInv, LegSigners
<1> QED BY <1>1, <1>12, <1>13, <1>14 DEF IInv, AuditInv, VerdictInv

\* After the last co-signer all of them were counted.
LEMMA EndCoStep ==
  ASSUME IInv, EndCo
  PROVE  IInv'
<1>1. /\ pc = "co" /\ pc' = "audit"
      /\ UNCHANGED <<gov, pos, legs_ok, verified_pubkeys, co_verified, audit, admission>>
      /\ gov \in Block
  BY DEF EndCo, IInv, GovInv
<1>2. ~used_jws /\ co_verified = Cardinality(CosTo(Len(gov.co)))
  <2>1. pos \in 1..(Len(gov.co) + 1) /\ pos > Len(gov.co)
    BY <1>1 DEF EndCo, IInv, CountInv
  <2>2. Len(gov.co) \in Nat
    BY <1>1, BlockFields
  <2>3. pos - 1 = Len(gov.co)
    BY <2>1, <2>2
  <2> QED BY <1>1, <2>3 DEF IInv, CountInv
<1>3. TypeOK'
  BY <1>1 DEF IInv, TypeOK
<1>4. CountInv'
  <2>1. ~used_jws'
    BY <1>1, <1>2 DEF used_jws
  <2>2. co_verified' = Cardinality(CosTo(Len(gov.co))')
    BY <1>1, <1>2 DEF CosTo, OkCo, SchemeOf, VerifyAdmission
  <2> QED BY <1>1, <2>1, <2>2 DEF CountInv
<1> QED BY <1>1, <1>3, <1>4 DEF IInv, GovInv, KeysInv, LegSigners, AuditInv, VerdictInv

\* The audit record is made from the block and the counters, once.
LEMMA MakeAuditStep ==
  ASSUME IInv, MakeAudit
  PROVE  IInv'
<1>1. /\ pc = "audit" /\ pc' = "verdict"
      /\ UNCHANGED <<gov, pos, legs_ok, verified_pubkeys, co_verified, admission>>
      /\ gov \in Block
  BY DEF MakeAudit, IInv, GovInv
<1>2. /\ audit' = [claim_level |-> Classify.claim_level,
                   verified |-> verified, declared |-> total_signers,
                   used_jws |-> used_jws, failed |-> Cardinality(FailedSigners),
                   key_hash |-> key_hash, evidence_mode |-> Classify.evidence_mode,
                   cross_check |-> Classify.cross_check,
                   holds |-> /\ key_recomputed
                             /\ verified <= total_signers
                             /\ Classify.cross_check # "producer_hint_contradicts_referee"]
  BY DEF MakeAudit
<1>3. audit' \in Audit
  <2>1. /\ Classify.claim_level \in Claims /\ Classify.cross_check \in CrossChecks
        /\ Classify.evidence_mode \in [mode : Modes, verifiable : BOOLEAN]
    BY <1>1, ClassifyFacts
  <2>2. Len(gov.co) \in Nat /\ Len(gov.legs) \in Nat /\ DOMAIN gov.co = 1..Len(gov.co)
    BY <1>1, BlockFields
  <2>3. legs_ok \in Nat /\ co_verified \in Nat
    BY AdmissionAssumption DEF IInv, TypeOK
  <2>4. verified \in Nat /\ total_signers \in Nat
    BY <2>2, <2>3 DEF verified, total_signers
  <2>5. Cardinality(FailedSigners) \in Nat
    <3>1. FailedSigners \subseteq 1..Len(gov.co)
      BY <2>2 DEF FailedSigners
    <3>2. Cardinality(FailedSigners) \in 0..Len(gov.co)
      BY <2>2, <3>1, CountStep
    <3> QED BY <2>2, <3>2
  <2>6. used_jws \in BOOLEAN
    BY DEF used_jws
  <2>7. key_hash \in {"verified", "mismatch", "n/a"}
    BY DEF key_hash
  <2> DEFINE h == /\ key_recomputed
                  /\ verified <= total_signers
                  /\ Classify.cross_check # "producer_hint_contradicts_referee"
  <2>8. h \in BOOLEAN
    OBVIOUS
  <2> HIDE DEF h
  <2>9. audit' = [claim_level |-> Classify.claim_level,
                   verified |-> verified, declared |-> total_signers,
                   used_jws |-> used_jws, failed |-> Cardinality(FailedSigners),
                   key_hash |-> key_hash, evidence_mode |-> Classify.evidence_mode,
                   cross_check |-> Classify.cross_check, holds |-> h]
    BY <1>2 DEF h
  <2> QED BY <2>1, <2>4, <2>5, <2>6, <2>7, <2>8, <2>9 DEF Audit
<1>4. /\ audit'.claim_level = Classify.claim_level
      /\ audit'.evidence_mode = Classify.evidence_mode
      /\ audit'.verified = verified
      /\ audit'.declared = total_signers
  BY <1>2
<1>5. AuditInv'
  BY <1>1, <1>4, Unmoved DEF AuditInv
<1>6. TypeOK'
  BY <1>1, <1>3 DEF IInv, TypeOK
<1>7. CountInv'
  <2>1. IF used_jws THEN legs_ok = Cardinality(LegsTo(Len(gov.legs)))
                    ELSE co_verified = Cardinality(CosTo(Len(gov.co)))
    BY <1>1 DEF IInv, CountInv
  <2>2. used_jws' = used_jws
    BY <1>1 DEF used_jws
  <2>3. LegsTo(Len(gov.legs))' = LegsTo(Len(gov.legs))
    BY <1>1 DEF LegsTo, OkLeg, Candidates
  <2>4. CosTo(Len(gov.co))' = CosTo(Len(gov.co))
    BY <1>1 DEF CosTo, OkCo, SchemeOf, VerifyAdmission
  <2> QED BY <1>1, <2>1, <2>2, <2>3, <2>4 DEF CountInv
<1> QED BY <1>1, <1>5, <1>6, <1>7 DEF IInv, GovInv, KeysInv, LegSigners, VerdictInv

\* The verdict reads the primary's signature and the trust policy.
LEMMA VerdictStep ==
  ASSUME IInv, Verdict
  PROVE  IInv'
<1>1. /\ pc = "verdict" /\ pc' = "done" /\ admission' = Admission
      /\ UNCHANGED <<gov, pos, legs_ok, verified_pubkeys, co_verified, audit>>
      /\ gov \in Block
  BY DEF Verdict, IInv, GovInv
<1>2. TypeOK'
  <2>1. Admission \in {"pass", "unverified_here", "admission_signature_invalid",
                      "key_different_but_identity_unproven", "admission_not_independent"}
    BY DEF Admission
  <2> QED BY <1>1, <2>1 DEF IInv, TypeOK
<1>3. VerdictInv'
  BY <1>1, Unmoved DEF VerdictInv
<1>4. AuditInv'
  BY <1>1, Unmoved DEF IInv, AuditInv
<1>5. CountInv'
  <2>1. IF used_jws THEN legs_ok = Cardinality(LegsTo(Len(gov.legs)))
                    ELSE co_verified = Cardinality(CosTo(Len(gov.co)))
    BY <1>1 DEF IInv, CountInv
  <2>2. used_jws' = used_jws
    BY <1>1 DEF used_jws
  <2>3. LegsTo(Len(gov.legs))' = LegsTo(Len(gov.legs))
    BY <1>1 DEF LegsTo, OkLeg, Candidates
  <2>4. CosTo(Len(gov.co))' = CosTo(Len(gov.co))
    BY <1>1 DEF CosTo, OkCo, SchemeOf, VerifyAdmission
  <2> QED BY <1>1, <2>1, <2>2, <2>3, <2>4 DEF CountInv
<1> QED BY <1>1, <1>2, <1>3, <1>4, <1>5 DEF IInv, GovInv, KeysInv, LegSigners

\* Every step of run() keeps what the places of run() rest on.
LEMMA NextIInv == IInv /\ [Next]_vars => IInv'
<1> SUFFICES ASSUME IInv, [Next]_vars PROVE IInv'
  OBVIOUS
<1>1. CASE \E g \in Block : Fetch(g)
  BY <1>1, FetchStep
<1>2. CASE VerifyLeg
  BY <1>2, VerifyLegStep
<1>3. CASE EndLegs
  BY <1>3, EndLegsStep
<1>4. CASE VerifyCo
  BY <1>4, VerifyCoStep
<1>5. CASE EndCo
  BY <1>5, EndCoStep
<1>6. CASE MakeAudit
  BY <1>6, MakeAuditStep
<1>7. CASE Verdict
  BY <1>7, VerdictStep
<1>8. CASE UNCHANGED vars
  <2>1. /\ UNCHANGED <<gov, pc, pos, legs_ok, verified_pubkeys, co_verified, audit, admission>>
    BY <1>8 DEF vars
  <2>2. TypeOK'
    BY <2>1 DEF IInv, TypeOK
  <2>3. CountInv'
    <3>1. used_jws' = used_jws
      BY <2>1 DEF used_jws
    <3>2. LegsTo(Len(gov.legs))' = LegsTo(Len(gov.legs)) /\ LegsTo(pos - 1)' = LegsTo(pos - 1)
      BY <2>1 DEF LegsTo, OkLeg, Candidates
    <3>3. CosTo(Len(gov.co))' = CosTo(Len(gov.co)) /\ CosTo(pos - 1)' = CosTo(pos - 1)
      BY <2>1 DEF CosTo, OkCo, SchemeOf, VerifyAdmission
    <3> QED BY <2>1, <3>1, <3>2, <3>3 DEF IInv, CountInv
  <2>4. AuditInv' /\ VerdictInv'
    BY <2>1, Unmoved DEF IInv, AuditInv, VerdictInv
  <2> QED BY <2>1, <2>2, <2>3, <2>4 DEF IInv, GovInv, KeysInv, LegSigners
<1> QED BY <1>1, <1>2, <1>3, <1>4, <1>5, <1>6, <1>7, <1>8 DEF Next

\* run() keeps the invariant from its start to its row.
LEMMA Invariant == Spec => []IInv
BY InitIInv, NextIInv, PTL DEF Spec

-----------------------------------------------------------------------------
(* What the row shows *)

\* The counters, the audit record and the admission code of run() keep their
\* types, whatever block the endpoint returns.
THEOREM TypeCorrect == Spec => []TypeOK
<1>1. IInv => TypeOK
  BY DEF IInv
<1> QED BY <1>1, Invariant, PTL

\* An admission that passes is signed by the primary over the envelope's hash or
\* over the signing input of a payload that is its canonical bytes, on either path
\* to it and under every mapping; or it rests on a signed event whose id and key
\* _verify_admission does not compare with the block's.
THEOREM PassNeedsSignature == Spec => []PassIsSigned
<1>1. IInv => PassIsSigned
  <2> SUFFICES ASSUME IInv, admission = "pass"
               PROVE  (SignedBy(gov.pubkey) \/ EventApart) /\ gov.pubkey # Actor
                        /\ (Trust # {} => gov.pubkey \in Trust)
    BY DEF PassIsSigned
  <2>1. pc = "done" /\ Admission = "pass"
    BY NoneAssumption DEF IInv, VerdictInv
  <2>2. gov \in Block /\ verified_pubkeys \subseteq LegSigners
    BY <2>1 DEF IInv, GovInv, KeysInv
  <2>3. /\ sig_valid # "none" /\ sig_valid # "false"
        /\ gov.pubkey # Actor /\ (Trust # {} => gov.pubkey \in Trust)
    BY <2>1 DEF Admission
  <2>4. CASE used_jws /\ gov.pubkey \in verified_pubkeys
    <3>1. gov.pubkey \in LegSigners /\ gov.payload_ok
      BY <2>2, <2>4 DEF used_jws
    <3> QED BY <2>3, <3>1 DEF SignedBy, LegSigners
  <2>5. CASE ~(used_jws /\ gov.pubkey \in verified_pubkeys)
    <3>1. VerifyAdmission(gov.scheme, gov.pubkey, gov.sig, TRUE) \notin {"none", "false"}
      BY <2>3, <2>5 DEF sig_valid
    <3>2. gov.sig \in PrimarySig /\ gov.scheme \in Scheme
      BY <2>2, BlockFields
    <3>3. \/ gov.sig.by = gov.pubkey /\ gov.sig.over = "hash"
          \/ gov.scheme = "nostr-event" /\ gov.sig.over \in {"hash", "other"}
      BY <3>1, <3>2 DEF VerifyAdmission, Scheme
    <3>4. CASE gov.sig.by = gov.pubkey /\ gov.sig.over = "hash"
      <4>1. gov.sig = [by |-> gov.pubkey, over |-> "hash"]
        BY <3>2, <3>4 DEF PrimarySig
      <4> QED BY <2>3, <4>1 DEF SignedBy
    <3>5. CASE ~(gov.sig.by = gov.pubkey /\ gov.sig.over = "hash")
      BY <2>3, <3>3, <3>5 DEF EventApart
    <3> QED BY <3>4, <3>5
  <2> QED BY <2>4, <2>5
<1> QED BY <1>1, Invariant, PTL

\* Where no leg stands for it, the primary's signature verifies unless the
\* admission suite says that it does not, or that it was not verified.
LEMMA PrimaryReported ==
  ASSUME gov \in Block, ~used_jws,
         Admission \notin {"admission_signature_invalid", "unverified_here"}
  PROVE  PrimaryVerifiable
<1>1. sig_valid \notin {"none", "false"}
  BY DEF Admission
<1>2. VerifyAdmission(gov.scheme, gov.pubkey, gov.sig, TRUE) \notin {"none", "false"}
  BY <1>1 DEF sig_valid
<1>3. gov.sig \in PrimarySig /\ gov.scheme \in Scheme
  BY BlockFields
<1>4. CASE gov.scheme = "nostr-event"
  BY <1>2, <1>4 DEF VerifyAdmission, PrimaryVerifiable
<1>5. CASE gov.scheme # "nostr-event"
  <2>1. Supported(gov.scheme) /\ gov.pubkey # None /\ gov.sig.by = gov.pubkey /\ gov.sig.over = "hash"
    BY <1>2, <1>3, <1>5 DEF VerifyAdmission, Supported, Scheme
  <2>2. gov.sig = [by |-> gov.pubkey, over |-> "hash"]
    BY <1>3, <2>1 DEF PrimarySig
  <2> QED BY <2>1, <2>2 DEF PrimaryVerifiable
<1> QED BY <1>4, <1>5

\* The multi-signer level of a row is earned: the signers it counts are more than
\* one, all it declares, and exactly those of the block that verify, each under its
\* own scheme; or one more, the primary, and then the row says that the primary's
\* signature is invalid or was not verified.
THEOREM MultisigIsEarned == Spec => []MultisigEarned
<1>1. IInv => MultisigEarned
  <2> SUFFICES ASSUME IInv, pc = "done",
                      audit.claim_level = "admission_multisig_recomputable"
               PROVE  /\ audit.declared > 1
                      /\ audit.verified = audit.declared
                      /\ \/ audit.verified = Cardinality(VerifiableSigners)
                         \/ /\ audit.verified = Cardinality(VerifiableSigners) + 1
                            /\ admission \in {"admission_signature_invalid", "unverified_here"}
    BY DEF MultisigEarned
  <2>2. gov \in Block /\ admission = Admission
    BY DEF IInv, GovInv, VerdictInv
  <2>3. /\ audit.claim_level = Classify.claim_level
        /\ audit.verified = verified /\ audit.declared = total_signers
    BY DEF IInv, AuditInv
  <2>4. base_claim = "admission_multisig_recomputable"
    BY <2>2, <2>3, ClassifyFacts
  <2>5. total_signers > 1 /\ verified >= total_signers
    BY <2>4 DEF base_claim
  <2>6. /\ Len(gov.co) \in Nat /\ DOMAIN gov.co = 1..Len(gov.co)
        /\ Len(gov.legs) \in Nat /\ DOMAIN gov.legs = 1..Len(gov.legs)
    BY <2>2, BlockFields
  <2>7. /\ verified \in 0..total_signers
        /\ \/ verified = Cardinality(VerifiableSigners)
           \/ /\ verified = Cardinality(VerifiableSigners) + 1
              /\ Admission \in {"admission_signature_invalid", "unverified_here"}
    <3>1. CASE used_jws
      <4>1. verified = Cardinality(LegsTo(Len(gov.legs))) /\ total_signers = Len(gov.legs)
        BY <3>1 DEF IInv, CountInv, verified, total_signers
      <4>2. VerifiableSigners = LegsTo(Len(gov.legs))
        BY <2>6, <3>1 DEF VerifiableSigners, LegsTo, OkLeg
      <4>3. LegsTo(Len(gov.legs)) \subseteq 1..Len(gov.legs)
        BY DEF LegsTo
      <4>4. Cardinality(LegsTo(Len(gov.legs))) \in 0..Len(gov.legs)
        BY <2>6, <4>3, CountStep
      <4> QED BY <4>1, <4>2, <4>4
    <3>2. CASE ~used_jws
      <4> DEFINE C == CosTo(Len(gov.co))
      <4>1. verified = 1 + Cardinality(C) /\ total_signers = 1 + Len(gov.co)
        BY <3>2 DEF IInv, CountInv, verified, total_signers
      <4>2. VerifiableSigners = {i \in {0} : PrimaryVerifiable} \union C
        BY <2>2, <2>6, <3>2, CreditedCo DEF VerifiableSigners, CosTo
      <4>3. C \subseteq 1..Len(gov.co)
        BY DEF CosTo
      <4> HIDE DEF C
      <4>4. IsFiniteSet(C) /\ Cardinality(C) \in 0..Len(gov.co)
        BY <2>6, <4>3, CountStep
      <4>5. 0 \notin C
        BY <2>6, <4>3
      <4>6. verified = Cardinality(C) + 1 /\ verified \in 0..total_signers
        BY <2>6, <4>1, <4>4
      <4>7. CASE PrimaryVerifiable
        <5>1. VerifiableSigners = C \union {0}
          BY <4>2, <4>7
        <5>2. Cardinality(VerifiableSigners) = Cardinality(C) + 1
          BY <4>4, <4>5, <5>1, FS_AddElement
        <5> QED BY <4>6, <5>2
      <4>8. CASE ~PrimaryVerifiable
        <5>1. VerifiableSigners = C
          BY <4>2, <4>8
        <5>2. Admission \in {"admission_signature_invalid", "unverified_here"}
          BY <2>2, <3>2, <4>8, PrimaryReported
        <5> QED BY <4>6, <5>1, <5>2
      <4> QED BY <4>7, <4>8
    <3> QED BY <3>1, <3>2
  <2>8. total_signers \in Nat
    BY <2>6 DEF total_signers
  <2>9. verified = total_signers
    BY <2>5, <2>7, <2>8
  <2> QED BY <2>2, <2>3, <2>5, <2>7, <2>9
<1> QED BY <1>1, Invariant, PTL

\* No producer hint, known or not, raises the level classify_evidence_mode()
\* shows, or makes it show a mode the referee did not derive as verified.
THEOREM HintsNeverHelp == Spec => []HintNeverHelps
<1>1. IInv => HintNeverHelps
  BY ClassifyFacts DEF IInv, GovInv, AuditInv, HintNeverHelps
<1> QED BY <1>1, Invariant, PTL

-----------------------------------------------------------------------------
(* The board: the inductive invariant *)

\* The commitment is confirmed, or the endpoint's word for it is misread.
Existent == block # NoTime \/ Misread

PlainInv ==
  /\ kind \in {"ots", "onchain", "internal"}
  /\ slot \in {"url", "inline", "undeclared"}
  /\ board_pc \in {"idle", "anchor", "conclude"}
  /\ precedence \in {"true", "false", "unspecified"}
  /\ forward \in BOOLEAN

\* The endpoint's own story: what is confirmed was submitted before, only a clock of
\* others confirms, and the mapping declares the outcome that happened.
ClockInv ==
  /\ now \in Time
  /\ submitted \in TimeOrNone
  /\ block \in TimeOrNone
  /\ outcome \in TimeOrNone
  /\ declared \in TimeOrNone
  /\ submitted # NoTime => submitted <= now
  /\ outcome # NoTime => outcome <= now
  /\ block # NoTime => submitted # NoTime /\ submitted <= block /\ kind # "internal"
  /\ declared # NoTime => declared = outcome

\* A stamp that is not a forward one came no earlier than the outcome, and a flag is
\* published with a stamp and tells the truth about it.
StampInv ==
  /\ submitted # NoTime /\ ~forward => outcome # NoTime /\ outcome <= submitted
  /\ precedence # "unspecified" => submitted # NoTime
  /\ precedence = "true" => forward

\* What an answer of the anchor, an old one too, still says of the endpoint.
Truthful(a) ==
  /\ a.precedence # "unspecified" => precedence = a.precedence
  /\ Confirmed(a) /\ a.block_time # NoTime => block = a.block_time
  /\ Confirmed(a) => Existent

AnchorInv ==
  /\ anchor_ep \in Anchor \union {NoAnchor, AtUrl}
  /\ anchor_ep \in Anchor => Truthful(anchor_ep)

\* The commitment came too late, and will have.
Late ==
  \/ precedence = "false"
  \/ block # NoTime /\ declared # NoTime /\ declared <= block

\* What suites, of a run or of a row, say of the anchor.
Sound(ss) ==
  /\ ss["anchoring_existence"] = "pass" => Existent
  /\ ss["anchoring_precedence"] = "pass" => Existent /\ forward
  /\ ss["anchoring_precedence"] = "fail" => Late

SuitesInv ==
  /\ suites \in [Suites -> States \union {"unset"}]
  /\ board_pc # "idle" => /\ suites["canonical_envelope"] \in States
                    /\ suites["admission_invariant"] \in States
  /\ board_pc = "conclude" => /\ suites["anchoring_existence"] \in States
                        /\ suites["anchoring_precedence"] \in States
                        /\ Sound(suites)

RowInv ==
  row # NoRow =>
    /\ row.suites \in [Suites -> States]
    /\ row.overall \in {"pass", "fail", "partial"}
    /\ Sound(row.suites)
    /\ row.overall = "pass" => \A s \in Suites : row.suites[s] = "pass"

\* The run under way will not clear a failure on the board.
FinalInv ==
  row # NoRow /\ row.suites["anchoring_precedence"] = "fail" =>
    /\ board_pc = "anchor" /\ anchor_ep \in Anchor => Precedence(anchor_ep) # "pass"
    /\ board_pc = "conclude" => suites["anchoring_precedence"] # "pass"

BoardInv == PlainInv /\ ClockInv /\ StampInv /\ AnchorInv /\ SuitesInv /\ RowInv /\ FinalInv

-----------------------------------------------------------------------------
(* Answers *)

\* An answer of the anchor has the form the referee reads.
LEMMA AnswerType ==
  ASSUME PlainInv, ClockInv, NEW w \in Words
  PROVE  Answer(w) \in Anchor
<1>1. Answer(w).status \in Words \union {"not_submitted", "confirmed", "unreachable", ""}
  BY DEF Answer
<1>2. (IF kind = "internal" THEN submitted ELSE block) \in TimeOrNone
  BY DEF ClockInv
<1>3. (kind # "internal") \in BOOLEAN
  OBVIOUS
<1>4. QED BY <1>1, <1>2, <1>3 DEF Answer, Anchor, PlainInv

\* It says what is so when it is given: only an endpoint on a clock of others has a
\* confirmation to show, and it shows the time of the block.
LEMMA AnswerTruthful ==
  ASSUME PlainInv, ClockInv, NEW w \in Words
  PROVE  Truthful(Answer(w))
<1> DEFINE a == Answer(w)
<1>1. /\ a.status = (IF kind # "ots" THEN ""
                      ELSE IF block # NoTime THEN "confirmed"
                      ELSE IF submitted # NoTime THEN w ELSE "not_submitted")
      /\ a.block_time = (IF kind = "internal" THEN submitted ELSE block)
      /\ a.precedence = precedence
  BY DEF Answer
<1>2. a.external = (kind # "internal")
  BY DEF Answer
<1> HIDE DEF a
<1>3. a.external => kind # "internal"
  BY <1>2, Zenon
<1>4. Confirmed(a) => kind # "internal"
  BY <1>1, <1>3, WordAssumption DEF Confirmed, SaysConfirmed, PlainInv
<1>5. Confirmed(a) => Existent
  BY <1>1, <1>4, WordAssumption DEF Confirmed, SaysConfirmed, Existent, Misread, PlainInv
<1>6. QED BY <1>1, <1>4, <1>5 DEF Truthful, a

\* An anchor that cannot be reached confirms nothing.
LEMMA UnreachableTruthful == Truthful(Unreachable) /\ Precedence(Unreachable) = "pending"
<1>1. ~Confirmed(Unreachable)
  BY WordAssumption DEF Unreachable, Confirmed, SaysConfirmed, InFlight
<1>2. Unreachable.precedence = "unspecified"
  BY DEF Unreachable
<1>3. QED BY <1>1, <1>2 DEF Truthful, Precedence

\* Where run() passes precedence, the commitment was submitted before the outcome.
LEMMA PassMeans ==
  ASSUME ClockInv, StampInv, PlainInv, NEW a, Truthful(a), Precedence(a) = "pass"
  PROVE  Existent /\ forward
<1>1. Confirmed(a) /\ a.precedence # "false"
  BY DEF Precedence
<1>2. Existent
  BY <1>1 DEF Truthful
<1>3. CASE a.block_time # NoTime /\ declared # NoTime
  <2>0. block = a.block_time
    BY <1>1, <1>3 DEF Truthful
  <2>1. block < declared
    BY <1>1, <1>3, <2>0 DEF Precedence
  <2>2. /\ submitted # NoTime
        /\ ~(outcome # NoTime /\ outcome <= submitted)
    BY <1>3, <2>0, <2>1, LiveAssumption DEF ClockInv, TimeOrNone, Time
  <2>3. forward
    BY <2>2, Zenon DEF StampInv
  <2>4. QED BY <1>2, <2>3
<1>4. CASE ~(a.block_time # NoTime /\ declared # NoTime)
  <2>1. a.precedence = "true"
    BY <1>1, <1>4 DEF Precedence
  <2>2. precedence = "true"
    BY <2>1 DEF Truthful
  <2>3. forward
    BY <2>2, Zenon DEF StampInv
  <2>4. QED BY <1>2, <2>3
<1>5. QED BY <1>3, <1>4

\* Where it fails precedence, the commitment came too late.
LEMMA FailMeans ==
  ASSUME ClockInv, NEW a, Truthful(a), Precedence(a) = "fail"
  PROVE  Late
<1>1. Confirmed(a)
  BY DEF Precedence
<1>2. CASE a.precedence = "false"
  BY <1>2 DEF Truthful, Late
<1>3. CASE a.precedence # "false"
  <2>1. a.block_time # NoTime /\ declared # NoTime /\ ~(a.block_time < declared)
    BY <1>1, <1>3 DEF Precedence
  <2>2. block = a.block_time
    BY <1>1, <2>1 DEF Truthful
  <2>3. QED BY <2>1, <2>2, LiveAssumption DEF Late, ClockInv, TimeOrNone, Time
<1>4. QED BY <1>2, <1>3

\* A commitment that came too late does not pass, whatever the anchor says now.
LEMMA LateStays ==
  ASSUME PlainInv, ClockInv, Late, NEW w \in Words
  PROVE  Precedence(Answer(w)) # "pass"
<1> DEFINE a == Answer(w)
<1>1. /\ a.block_time = (IF kind = "internal" THEN submitted ELSE block)
      /\ a.precedence = precedence
  BY DEF Answer
<1> HIDE DEF a
<1>2. CASE precedence = "false"
  BY <1>1, <1>2 DEF Precedence, a
<1>3. CASE block # NoTime /\ declared # NoTime /\ declared <= block
  <2>1. a.block_time = block
    BY <1>1, <1>3 DEF ClockInv
  <2>2. ~(block < declared)
    BY <1>3, LiveAssumption DEF ClockInv, TimeOrNone, Time
  <2>3. QED BY <1>3, <2>1, <2>2 DEF Precedence, a
<1>4. QED BY <1>2, <1>3 DEF Late

-----------------------------------------------------------------------------
(* The endpoint's steps *)

\* What no step of the endpoint undoes.
Settled ==
  /\ kind' = kind
  /\ submitted # NoTime => /\ submitted' = submitted
                           /\ precedence' = precedence
                           /\ forward' = forward
  /\ block # NoTime => block' = block
  /\ declared # NoTime => declared' = declared
  /\ board_pc # "idle" => declared' = declared

\* What was settled stays so: answers stay true, a row stays sound.
LEMMA SettledKeeps ==
  ASSUME BoardInv, Settled, ClockInv', StampInv', PlainInv', UNCHANGED refereeVars
  PROVE  BoardInv'
<1>1. UNCHANGED <<board_pc, anchor_ep, suites, row>>
  BY DEF refereeVars
<1>2. \A a : Confirmed(a) <=> Confirmed(a)'
  BY DEF Confirmed, SaysConfirmed, InFlight
<1>3. Late => Late'
  <2>1. precedence = "false" => precedence' = "false"
    BY DEF BoardInv, StampInv, Settled
  <2>2. QED BY <2>1 DEF Late, Settled
<1>5. /\ Existent => Existent'
      /\ Existent /\ forward => Existent' /\ forward'
  <2>1. Existent => submitted # NoTime
    BY DEF BoardInv, ClockInv, Existent, Misread
  <2>2. submitted # NoTime => forward' = forward
    BY DEF Settled
  <2>3. Existent => Existent'
    BY DEF Settled, Existent, Misread
  <2>4. QED BY <2>1, <2>2, <2>3
<1>4. \A a : Truthful(a) => Truthful(a)'
  <2> TAKE a
  <2>1. a.precedence # "unspecified" /\ precedence = a.precedence => precedence' = precedence
    BY DEF BoardInv, StampInv, Settled
  <2>2. QED BY <1>5, <2>1 DEF Truthful, Settled, Confirmed, SaysConfirmed, InFlight
<1>7. \A ss : Sound(ss) => Sound(ss)'
  BY <1>3, <1>5, Zenon DEF Sound
<1>8. AnchorInv'
  BY <1>1, <1>4 DEF BoardInv, AnchorInv
<1>9. SuitesInv' /\ RowInv'
  <2>1. SuitesInv'
    BY <1>1, <1>7 DEF BoardInv, SuitesInv
  <2>2. RowInv'
    BY <1>1, <1>7 DEF BoardInv, RowInv
  <2>3. QED BY <2>1, <2>2
<1>10. FinalInv'
  <2>1. board_pc # "idle" => Precedence(anchor_ep)' = Precedence(anchor_ep)
    BY <1>1 DEF Settled, Precedence, Confirmed, SaysConfirmed, InFlight
  <2>2. QED BY <1>1, <2>1 DEF BoardInv, FinalInv
<1>11. QED BY <1>8, <1>9, <1>10 DEF BoardInv

\* A step of the endpoint keeps the invariant.
LEMMA WorldInv == BoardInv /\ World => BoardInv'
<1> SUFFICES ASSUME BoardInv, World PROVE BoardInv'
  OBVIOUS
<1>0. PlainInv /\ ClockInv /\ StampInv
  BY DEF BoardInv
<1>1. CASE Tick
  <2>1. UNCHANGED <<kind, slot, submitted, forward, precedence, block, outcome, declared, refereeVars, board_pc>>
        /\ now < MaxTime /\ now' = now + 1
    BY <1>1 DEF Tick, refereeVars
  <2>2. ClockInv'
    BY <1>0, <2>1, LiveAssumption DEF ClockInv, TimeOrNone, Time
  <2>3. PlainInv' /\ StampInv' /\ Settled
    BY <1>0, <2>1, Zenon DEF PlainInv, StampInv, Settled
  <2>4. QED BY <2>1, <2>2, <2>3, SettledKeeps
<1>2. ASSUME NEW marked \in BOOLEAN, Submit(marked) PROVE BoardInv'
  <2>1. /\ UNCHANGED <<kind, slot, now, block, outcome, declared, refereeVars, board_pc>>
        /\ submitted = NoTime /\ submitted' = now
    BY <1>2 DEF Submit, refereeVars
  <2>2. forward' = (outcome = NoTime)
    BY <1>2 DEF Submit
  <2>3. \/ precedence' = "unspecified"
        \/ precedence' = "true" /\ outcome = NoTime
        \/ precedence' = "false"
    BY <1>2 DEF Submit
  <2>4. ClockInv'
    BY <1>0, <2>1, LiveAssumption DEF ClockInv, TimeOrNone, Time
  <2>5. submitted' # NoTime /\ (outcome # NoTime => outcome <= submitted')
    BY <1>0, <2>1, LiveAssumption DEF ClockInv, Time
  <2>6. StampInv'
    <3>1. ~forward' => outcome # NoTime
      BY <2>2, Zenon
    <3>2. precedence' = "true" => outcome = NoTime
      BY <2>3
    <3>3. outcome = NoTime => forward'
      BY <2>2, Zenon
    <3>4. outcome' = outcome
      BY <2>1
    <3>5. QED BY <2>5, <3>1, <3>2, <3>3, <3>4, Zenon DEF StampInv
  <2>7. PlainInv'
    <3>1. forward' \in BOOLEAN
      BY <2>2
    <3>2. QED BY <1>0, <2>1, <2>3, <3>1 DEF PlainInv
  <2>8. Settled
    BY <2>1 DEF Settled
  <2>9. QED BY <2>1, <2>4, <2>6, <2>7, <2>8, SettledKeeps
<1>3. CASE Confirm
  <2>1. /\ UNCHANGED <<kind, slot, now, submitted, forward, precedence, outcome, declared, refereeVars, board_pc>>
        /\ kind # "internal" /\ submitted # NoTime /\ block = NoTime /\ block' = now
    BY <1>3 DEF Confirm, refereeVars
  <2>2. ClockInv'
    BY <1>0, <2>1, LiveAssumption DEF ClockInv, TimeOrNone, Time
  <2>3. PlainInv' /\ StampInv' /\ Settled
    BY <1>0, <2>1, Zenon DEF PlainInv, StampInv, Settled
  <2>4. QED BY <2>1, <2>2, <2>3, SettledKeeps
<1>4. CASE Outcome
  <2>1. /\ UNCHANGED <<kind, slot, now, submitted, forward, precedence, block, declared, refereeVars, board_pc>>
        /\ outcome = NoTime /\ outcome' = now
    BY <1>4 DEF Outcome, refereeVars
  <2>2. ClockInv'
    BY <1>0, <2>1, LiveAssumption DEF ClockInv, TimeOrNone, Time
  <2>3. PlainInv' /\ StampInv' /\ Settled
    BY <1>0, <2>1, Zenon DEF PlainInv, StampInv, Settled
  <2>4. QED BY <2>1, <2>2, <2>3, SettledKeeps
<1>5. CASE DeclareOutcome
  <2>1. /\ UNCHANGED <<kind, slot, now, submitted, forward, precedence, block, outcome, refereeVars, board_pc>>
        /\ declared = NoTime /\ board_pc = "idle" /\ declared' = outcome
    BY <1>5 DEF DeclareOutcome, refereeVars
  <2>2. ClockInv'
    BY <1>0, <2>1 DEF ClockInv
  <2>3. PlainInv' /\ StampInv' /\ Settled
    BY <1>0, <2>1, Zenon DEF PlainInv, StampInv, Settled
  <2>4. QED BY <2>1, <2>2, <2>3, SettledKeeps
<1>6. QED BY <1>1, <1>2, <1>3, <1>4, <1>5 DEF World

-----------------------------------------------------------------------------
(* The referee's steps *)

\* A step of the referee leaves the endpoint alone, and with it what answers and
\* rows are worth.
LEMMA WorldSame ==
  ASSUME UNCHANGED worldVars, BoardInv, board_pc' \in {"idle", "anchor", "conclude"}
  PROVE  /\ PlainInv' /\ ClockInv' /\ StampInv'
         /\ Late' <=> Late
         /\ \A ss : Sound(ss) => Sound(ss)'
         /\ \A a : Truthful(a) => Truthful(a)'
         /\ \A a : Precedence(a)' = Precedence(a)
<1>1. UNCHANGED <<kind, slot, now, submitted, forward, precedence, block, outcome, declared>>
  BY DEF worldVars
<1>2. PlainInv' /\ StampInv'
  BY <1>1, Zenon DEF BoardInv, PlainInv, StampInv
<1>3. ClockInv'
  BY <1>1 DEF BoardInv, ClockInv
<1>4. Late' <=> Late
  BY <1>1 DEF Late
<1>5. \A ss : Sound(ss) => Sound(ss)'
  BY <1>1, <1>4, Zenon DEF Sound, Existent, Misread
<1>6. \A a : Truthful(a) => Truthful(a)'
  BY <1>1 DEF Truthful, Confirmed, SaysConfirmed, InFlight, Existent, Misread
<1>7. \A a : Precedence(a)' = Precedence(a)
  BY <1>1 DEF Precedence, Confirmed, SaysConfirmed, InFlight
<1>8. QED BY <1>2, <1>3, <1>4, <1>5, <1>6, <1>7

\* No anchor in the block, and one that is to be fetched, are not answers.
LEMMA NotAnswers == NoAnchor \notin Anchor /\ AtUrl \notin Anchor
<1>1. \A a \in Anchor : "block_time" \in DOMAIN a
  BY DEF Anchor
<1>2. "block_time" \notin DOMAIN NoAnchor /\ "block_time" \notin DOMAIN AtUrl
  BY DEF NoAnchor, AtUrl
<1>3. QED BY <1>1, <1>2

\* run() fetches the governance block, with or without the anchor in it.
LEMMA FetchGovernanceInv ==
  ASSUME BoardInv, NEW c \in Canonical, NEW m \in AdmissionCode, FetchGovernance(c, m)
  PROVE  BoardInv'
<1>1. UNCHANGED <<worldVars, row>> /\ board_pc = "idle" /\ board_pc' = "anchor"
  BY DEF FetchGovernance
<1>2. anchor_ep' = NoAnchor \/ anchor_ep' = AtUrl \/ \E w \in Words : anchor_ep' = Answer(w)
  BY DEF FetchGovernance
<1>3. suites' = [s \in Suites |-> IF s = "canonical_envelope" THEN c
                                  ELSE IF s = "admission_invariant" THEN m
                                  ELSE "unset"]
  BY DEF FetchGovernance
<1>4. /\ PlainInv' /\ ClockInv' /\ StampInv'
      /\ \A ss : Sound(ss) => Sound(ss)'
      /\ \A a : Truthful(a) => Truthful(a)'
      /\ \A a : Precedence(a)' = Precedence(a)
  BY <1>1, WorldSame
<1>5. AnchorInv'
  <2>1. anchor_ep' \in Anchor \union {NoAnchor, AtUrl}
    BY <1>2, AnswerType DEF BoardInv
  <2>2. anchor_ep' \in Anchor => Truthful(anchor_ep')
    BY <1>2, AnswerTruthful, NotAnswers DEF BoardInv
  <2>3. anchor_ep' \in Anchor => Truthful(anchor_ep)'
    BY <1>1, <2>2 DEF Truthful, worldVars, Confirmed, SaysConfirmed, InFlight, Existent, Misread
  <2>4. QED BY <2>1, <2>3 DEF AnchorInv, Anchor, TimeOrNone, Time, NoAnchor, AtUrl
<1>6. SuitesInv'
  <2>1. c \in States /\ m \in States
    BY DEF Canonical, AdmissionCode, States
  <2>2. QED BY <1>1, <1>3, <2>1 DEF SuitesInv, Suites
<1>7. RowInv'
  BY <1>1, <1>4 DEF BoardInv, RowInv
<1>8. FinalInv'
  <2> SUFFICES ASSUME row # NoRow, row.suites["anchoring_precedence"] = "fail", anchor_ep' \in Anchor
               PROVE  Precedence(anchor_ep') # "pass"
    <3>1. Precedence(anchor_ep)' = Precedence(anchor_ep')
      BY <1>1 DEF Precedence, worldVars, Confirmed, SaysConfirmed, InFlight
    <3>2. QED BY <1>1, <3>1 DEF FinalInv, Anchor, TimeOrNone, Time, NoRow
  <2>1. Late
    BY DEF BoardInv, RowInv, Sound
  <2>2. QED BY <1>2, <2>1, LateStays, NotAnswers DEF BoardInv
<1>9. QED BY <1>4, <1>5, <1>6, <1>7, <1>8 DEF BoardInv

\* run() reports the two suites about the anchor: what it reports is so, and does
\* not clear a failure on the board.
LEMMA ReportInv ==
  ASSUME BoardInv, board_pc = "anchor", NEW e \in States, NEW p \in States, Report(e, p),
         e = "pass" => Existent,
         p = "pass" => Existent /\ forward,
         p = "fail" => Late,
         row # NoRow /\ row.suites["anchoring_precedence"] = "fail" => p # "pass"
  PROVE  BoardInv'
<1>1. UNCHANGED <<worldVars, anchor_ep, row>> /\ board_pc' = "conclude"
  BY DEF Report
<1>2. suites' = [suites EXCEPT !["anchoring_existence"] = e, !["anchoring_precedence"] = p]
  BY DEF Report
<1>3. /\ PlainInv' /\ ClockInv' /\ StampInv'
      /\ \A ss : Sound(ss) => Sound(ss)'
      /\ \A a : Truthful(a) => Truthful(a)'
  BY <1>1, WorldSame
<1>4. /\ suites' \in [Suites -> States \union {"unset"}]
      /\ suites'["anchoring_existence"] = e /\ suites'["anchoring_precedence"] = p
      /\ suites'["canonical_envelope"] = suites["canonical_envelope"]
      /\ suites'["admission_invariant"] = suites["admission_invariant"]
  BY <1>2 DEF BoardInv, SuitesInv, Suites
<1>5. Sound(suites')
  BY <1>4, Zenon DEF Sound
<1>6. Sound(suites)'
  <2>1. UNCHANGED <<kind, submitted, precedence, block, declared, forward>>
    BY <1>1 DEF worldVars
  <2>2. QED BY <1>5, <2>1, Zenon DEF Sound, Late, Existent, Misread
<1>7. SuitesInv'
  BY <1>1, <1>4, <1>6 DEF BoardInv, SuitesInv
<1>8. AnchorInv'
  BY <1>1, <1>3 DEF BoardInv, AnchorInv
<1>9. RowInv'
  BY <1>1, <1>3 DEF BoardInv, RowInv
<1>10. FinalInv'
  BY <1>1, <1>4 DEF FinalInv
<1>11. QED BY <1>3, <1>7, <1>8, <1>9, <1>10 DEF BoardInv

\* An answer of the anchor is reported.
LEMMA AnswerReported ==
  ASSUME BoardInv, board_pc = "anchor", NEW a, Truthful(a), Report(Existence(a), Precedence(a)),
         row # NoRow /\ row.suites["anchoring_precedence"] = "fail" => Precedence(a) # "pass"
  PROVE  BoardInv'
<1>1. Existence(a) \in States /\ Precedence(a) \in States
  BY DEF Existence, Precedence, States
<1>2. Existence(a) = "pass" => Existent
  BY DEF Existence, Truthful
<1>3. Precedence(a) = "pass" => Existent /\ forward
  BY PassMeans DEF BoardInv
<1>4. Precedence(a) = "fail" => Late
  BY FailMeans DEF BoardInv
<1>5. QED BY <1>1, <1>2, <1>3, <1>4, ReportInv

\* There is no anchor in the block.
LEMMA AnchorAbsentInv == BoardInv /\ AnchorAbsent => BoardInv'
<1> SUFFICES ASSUME BoardInv, AnchorAbsent PROVE BoardInv'
  OBVIOUS
<1>1. board_pc = "anchor" /\ (Report("fail", "not_assessable") \/ Report("pending", "pending"))
  BY DEF AnchorAbsent
<1>2. "fail" \in States /\ "not_assessable" \in States /\ "pending" \in States
  BY DEF States
<1>3. QED BY <1>1, <1>2, ReportInv

\* The anchor that came with the block is read, which may be out of date by now.
LEMMA AnchorInlineInv == BoardInv /\ AnchorInline => BoardInv'
<1> SUFFICES ASSUME BoardInv, AnchorInline PROVE BoardInv'
  OBVIOUS
<1>1. board_pc = "anchor" /\ anchor_ep \in Anchor /\ Report(Existence(anchor_ep), Precedence(anchor_ep))
  BY DEF AnchorInline
<1>2. Truthful(anchor_ep)
  BY <1>1 DEF BoardInv, AnchorInv
<1>3. row # NoRow /\ row.suites["anchoring_precedence"] = "fail" => Precedence(anchor_ep) # "pass"
  BY <1>1 DEF BoardInv, FinalInv
<1>4. QED BY <1>1, <1>2, <1>3, AnswerReported

\* The anchor is fetched, or cannot be.
LEMMA FetchAnchorInv ==
  ASSUME BoardInv, NEW a \in {Answer(w) : w \in Words} \union {Unreachable}, FetchAnchor(a)
  PROVE  BoardInv'
<1>1. board_pc = "anchor" /\ Report(Existence(a), Precedence(a))
  BY DEF FetchAnchor
<1>2. Truthful(a)
  BY AnswerTruthful, UnreachableTruthful DEF BoardInv
<1>3. row # NoRow /\ row.suites["anchoring_precedence"] = "fail" => Precedence(a) # "pass"
  <2> SUFFICES ASSUME row # NoRow, row.suites["anchoring_precedence"] = "fail"
               PROVE  Precedence(a) # "pass"
    OBVIOUS
  <2>1. Late
    BY DEF BoardInv, RowInv, Sound
  <2>2. QED BY <2>1, LateStays, UnreachableTruthful DEF BoardInv
<1>4. QED BY <1>1, <1>2, <1>3, AnswerReported

\* The row of the run replaces the one on the board.
LEMMA ConcludeInv ==
  ASSUME BoardInv, NEW c \in ChainStates, Conclude(c)
  PROVE  BoardInv'
<1> DEFINE all == [suites EXCEPT !["chain_invariant"] = c]
<1>1. UNCHANGED worldVars /\ board_pc = "conclude" /\ board_pc' = "idle" /\ anchor_ep' = NoAnchor
  BY DEF Conclude
<1>2. row' = [suites |-> all, overall |-> Overall(all)] /\ suites' = [s \in Suites |-> "unset"]
  BY DEF Conclude
<1>3. /\ PlainInv' /\ ClockInv' /\ StampInv'
      /\ \A ss : Sound(ss) => Sound(ss)'
  BY <1>1, WorldSame
<1>4. c \in States
  BY DEF ChainStates, States
<1>5. /\ all \in [Suites -> States]
      /\ all["anchoring_existence"] = suites["anchoring_existence"]
      /\ all["anchoring_precedence"] = suites["anchoring_precedence"]
  <2>1. suites \in [Suites -> States \union {"unset"}]
    BY DEF BoardInv, SuitesInv
  <2>2. \A s \in Suites : s # "chain_invariant" => suites[s] \in States
    BY <1>1 DEF BoardInv, SuitesInv, Suites
  <2>3. QED BY <1>4, <2>1, <2>2 DEF Suites
<1>6. Sound(all)
  BY <1>1, <1>5, Zenon DEF BoardInv, SuitesInv, Sound
<1>7. /\ Overall(all) \in {"pass", "fail", "partial"}
      /\ Overall(all) = "pass" => \A s \in Suites : all[s] = "pass"
  BY DEF Overall
<1>8. row'.suites = all /\ row'.overall = Overall(all)
  BY <1>2
<1> HIDE DEF all
<1>9. RowInv'
  <2>1. Sound(row.suites)'
    <3>1. Sound(row'.suites)
      BY <1>6, <1>8
    <3>2. UNCHANGED <<kind, submitted, precedence, block, declared, forward>>
      BY <1>1 DEF worldVars
    <3>3. QED BY <3>1, <3>2, Zenon DEF Sound, Late, Existent, Misread
  <2>2. QED BY <1>5, <1>7, <1>8, <2>1 DEF RowInv
<1>10. SuitesInv'
  BY <1>1, <1>2 DEF SuitesInv
<1>11. AnchorInv'
  BY <1>1, NotAnswers DEF AnchorInv, Anchor, TimeOrNone, Time, NoAnchor, AtUrl
<1>12. FinalInv'
  BY <1>1 DEF FinalInv
<1>13. QED BY <1>3, <1>9, <1>10, <1>11, <1>12 DEF BoardInv

-----------------------------------------------------------------------------
(* Theorems about the board *)

\* Nothing was looked at yet.
LEMMA BoardInitially == ASSUME BoardInit PROVE BoardInv
<1>1. PlainInv /\ StampInv
  BY Zenon DEF BoardInit, PlainInv, StampInv
<1>2. ClockInv
  BY LiveAssumption DEF BoardInit, ClockInv, TimeOrNone, Time
<1>3. AnchorInv
  BY NotAnswers DEF BoardInit, AnchorInv
<1>4. SuitesInv /\ RowInv /\ FinalInv
  BY DEF BoardInit, SuitesInv, RowInv, FinalInv
<1>5. QED BY <1>1, <1>2, <1>3, <1>4 DEF BoardInv

\* Every step, of the endpoint or of the referee, keeps the invariant.
LEMMA BoardStep == BoardInv /\ [BoardNext]_boardVars => BoardInv'
<1> SUFFICES ASSUME BoardInv, [BoardNext]_boardVars PROVE BoardInv'
  OBVIOUS
<1>1. CASE World
  BY <1>1, WorldInv
<1>2. CASE Referee
  BY <1>2, FetchGovernanceInv, AnchorAbsentInv, AnchorInlineInv, FetchAnchorInv, ConcludeInv DEF Referee
<1>3. CASE UNCHANGED boardVars
  <2>1. UNCHANGED worldVars /\ UNCHANGED refereeVars /\ board_pc' = board_pc
    BY <1>3 DEF boardVars, refereeVars
  <2>2. Settled
    BY <2>1, Zenon DEF worldVars, Settled
  <2>3. PlainInv' /\ ClockInv' /\ StampInv'
    BY <2>1, WorldSame DEF BoardInv, PlainInv
  <2>4. QED BY <2>1, <2>2, <2>3, SettledKeeps
<1>4. QED BY <1>1, <1>2, <1>3 DEF BoardNext

\* The invariant of every history of the endpoint and its runs.
LEMMA BoardInvariant == BoardSpec => []BoardInv
<1>1. BoardInit => BoardInv
  BY BoardInitially
<1>2. QED BY <1>1, BoardStep, PTL DEF BoardSpec

\* Times, answers, suites and rows are what their names say, whatever words the
\* endpoint uses.
THEOREM RowsAreTyped == BoardSpec => []BoardTypeOK
<1>1. BoardInv => BoardTypeOK
  BY DEF BoardInv, PlainInv, ClockInv, AnchorInv, SuitesInv, RowInv, BoardTypeOK
<1>2. QED BY <1>1, BoardInvariant, PTL

\* What a row of the board says is so, for every endpoint and whatever its words: a
\* commitment that came first was submitted before the outcome, and one that exists
\* was confirmed by a clock of others, unless the endpoint is one whose words for an
\* anchor in flight contain "confirmed".
THEOREM RowsAreOrdered == BoardSpec => []PassIsOrdered
<1>1. BoardInv => PassIsOrdered
  <2> SUFFICES ASSUME BoardInv, row # NoRow
               PROVE  /\ row.suites["anchoring_existence"] = "pass" => Existent
                      /\ row.suites["anchoring_precedence"] = "pass" => Existent /\ forward
                      /\ row.overall = "pass" =>
                           Existent /\ forward /\ row.suites["admission_invariant"] = "pass"
    BY DEF PassIsOrdered, Existent
  <2>1. /\ row.suites["anchoring_existence"] = "pass" => Existent
        /\ row.suites["anchoring_precedence"] = "pass" => Existent /\ forward
    BY Zenon DEF BoardInv, RowInv, Sound
  <2>2. row.overall = "pass" => /\ row.suites["anchoring_precedence"] = "pass"
                                /\ row.suites["admission_invariant"] = "pass"
    BY DEF BoardInv, RowInv, Suites
  <2>3. QED BY <2>1, <2>2, Zenon
<1>2. QED BY <1>1, BoardInvariant, PTL

\* A row that says the commitment came too late is never followed by one that says
\* it came first, whatever words the endpoint uses and whatever it says later.
THEOREM LateRowsAreFinal == BoardSpec => LateIsFinal
<1>1. BoardInv /\ [BoardNext]_boardVars =>
        [ /\ row # NoRow
          /\ row.suites["anchoring_precedence"] = "fail"
          => row'.suites["anchoring_precedence"] # "pass" ]_row
  <2> SUFFICES ASSUME BoardInv, BoardNext, row' # row, row # NoRow,
                      row.suites["anchoring_precedence"] = "fail"
               PROVE  row'.suites["anchoring_precedence"] # "pass"
    BY DEF boardVars
  <2>1. PICK c \in ChainStates : Conclude(c)
    BY DEF BoardNext, World, Tick, Submit, Confirm, Outcome, DeclareOutcome, refereeVars,
           Referee, FetchGovernance, AnchorAbsent, AnchorInline, FetchAnchor, Report
  <2> DEFINE all == [suites EXCEPT !["chain_invariant"] = c]
  <2>2. row' = [suites |-> all, overall |-> Overall(all)] /\ board_pc = "conclude"
    BY <2>1 DEF Conclude
  <2>3. row'.suites = all
    BY <2>2
  <2>4. all["anchoring_precedence"] = suites["anchoring_precedence"]
    BY DEF BoardInv, SuitesInv, Suites
  <2>5. QED BY <2>2, <2>3, <2>4 DEF BoardInv, FinalInv
<1>2. QED BY <1>1, BoardInvariant, PTL DEF BoardSpec, LateIsFinal
=============================================================================
