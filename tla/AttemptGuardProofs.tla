------------------------- MODULE AttemptGuardProofs -------------------------
(***************************************************************************)
(* What the guard of decision_record_per_attempt.py and verify_chain()     *)
(* guarantee for every set of tools and arguments, every number of steps   *)
(* and attempts, and every edit of a copy of the log.                      *)
(***************************************************************************)
EXTENDS AttemptGuard, SequenceTheorems, FiniteSetTheorems, TLAPS

-----------------------------------------------------------------------------
(* The inductive invariant *)

\* The digest in the prev field of record i is that of the records before it.
ChainedAt(s, i) ==
  /\ Len(s[i].prev) = i - 1
  /\ \A j \in 1..(i - 1) : s[i].prev[j] = s[j].body

RecordsChain == \A i \in 1..Len(records) : ChainedAt(records, i)

\* No record has an attempt_id that is still to be given.
IdsSpent ==
  \A i \in 1..Len(records) :
    /\ records[i].body.attempt_id[1] <= step
    /\ records[i].body.attempt_id[1] = step => records[i].body.attempt_id[2] < call_index

\* verify_chain() has a head that was kept, or none; what it has walked over is
\* chained, and prev is the digest of it.
VerifyInv ==
  /\ head.n = 0 \/ head \in KeptHeads
  /\ pc # "idle" => pos <= Len(log) + 1 /\ \A i \in 1..(pos - 1) : ChainedAt(log, i)
  /\ pc = "loop" => /\ Len(prev) = pos - 1
                    /\ \A j \in 1..(pos - 1) : prev[j] = log[j].body
  /\ pc = "true" => pos = Len(log) + 1 /\ HeadOK

IInv ==
  /\ TypeOK
  /\ RecordsChain
  /\ IdsSpent
  /\ AttemptIdsUnique
  /\ CountsFromLog
  /\ KeptHeadsHold
  /\ VerifyInv

-----------------------------------------------------------------------------
(* Records and digests *)

\* The fields of a log's records.
LEMMA RecFields ==
  ASSUME NEW s \in Seq(Rec), NEW i \in 1..Len(s)
  PROVE  /\ s[i] \in Rec
         /\ s[i].body \in Body
         /\ s[i].prev \in Digest
         /\ s[i].body.attempt_id \in Nat \X Nat
         /\ s[i].body.allowed \in BOOLEAN
<1>1. s[i] \in Rec
  BY ElementOfSeq
<1>2. s[i].body \in Body /\ s[i].prev \in Digest
  BY <1>1 DEF Rec
<1>3. QED BY <1>1, <1>2 DEF Body

\* A record's digest is the one before it and its own body.
LEMMA DigestOf ==
  ASSUME NEW r \in Rec
  PROVE  /\ h(r) \in Digest
         /\ Len(h(r)) = Len(r.prev) + 1
         /\ \A j \in 1..Len(r.prev) : h(r)[j] = r.prev[j]
         /\ h(r)[Len(r.prev) + 1] = r.body
BY AppendProperties DEF h, Rec, Digest

\* The tip of a log is a digest, and that of its last record if there is one.
LEMMA TipType ==
  ASSUME NEW s \in Seq(Rec)
  PROVE  Tip(s) \in Digest
<1>1. CASE s = <<>>
  BY <1>1, EmptySeq DEF Tip, NoDigest, Digest
<1>2. CASE s # <<>>
  <2>1. Len(s) \in 1..Len(s)
    BY <1>2, EmptySeq
  <2>2. QED BY <1>2, <2>1, RecFields, DigestOf DEF Tip
<1>3. QED BY <1>1, <1>2

\* The digest of a chained record is the bodies up to it.
LEMMA DigestIsBodies ==
  ASSUME NEW s \in Seq(Rec), NEW i \in 1..Len(s), ChainedAt(s, i)
  PROVE  /\ Len(h(s[i])) = i
         /\ \A j \in 1..i : h(s[i])[j] = s[j].body
<1>1. s[i] \in Rec /\ i \in Nat
  BY RecFields
<1>2. Len(h(s[i])) = (i - 1) + 1
  BY <1>1, DigestOf DEF ChainedAt
<1>3. \A j \in 1..(i - 1) : h(s[i])[j] = s[j].body
  BY <1>1, DigestOf DEF ChainedAt
<1>4. h(s[i])[(i - 1) + 1] = s[i].body
  BY <1>1, DigestOf DEF ChainedAt
<1>5. QED BY <1>1, <1>2, <1>3, <1>4

\* Two chained logs with the same digest at a position are the same up to it:
\* there is one log for a head.
LEMMA OneLogPerHead ==
  ASSUME NEW s \in Seq(Rec), NEW t \in Seq(Rec), NEW n \in 1..Len(s), n \in 1..Len(t),
         \A i \in 1..n : ChainedAt(s, i) /\ ChainedAt(t, i),
         h(s[n]) = h(t[n])
  PROVE  \A i \in 1..n : s[i] = t[i]
<1>1. \A j \in 1..n : s[j].body = t[j].body
  BY DigestIsBodies
<1> TAKE i \in 1..n
<1>2. i \in 1..Len(s) /\ i \in 1..Len(t)
  OBVIOUS
<1>3. /\ s[i] \in Rec /\ t[i] \in Rec
      /\ s[i].prev \in Seq(Body) /\ t[i].prev \in Seq(Body)
  BY <1>2, RecFields DEF Digest
<1>4. Len(s[i].prev) = i - 1 /\ Len(t[i].prev) = i - 1
  BY DEF ChainedAt
<1>5. \A j \in 1..(i - 1) : s[i].prev[j] = t[i].prev[j]
  <2> TAKE j \in 1..(i - 1)
  <2>1. j \in 1..n
    BY <1>2
  <2>2. QED BY <1>1, <2>1 DEF ChainedAt
<1>6. s[i].prev = t[i].prev
  BY <1>3, <1>4, <1>5, SeqEqual
<1>7. QED BY <1>1, <1>3, <1>6 DEF Rec

-----------------------------------------------------------------------------
(* The guard *)

\* One record is appended for an attempt, with the next attempt_id, the tip as
\* its prev, and an execution or a denial to go with it.
Recorded(r) ==
  /\ r \in Rec
  /\ r.body.attempt_id = <<step, call_index>>
  /\ r.prev = Tip(records)
  /\ records' = Append(records, r)
  /\ step' = step
  /\ call_index' = call_index + 1
  /\ attempts' = attempts + 1
  /\ \/ r.body.allowed /\ executions' = executions + 1 /\ raised' = raised
     \/ ~r.body.allowed /\ executions' = executions /\ raised' = raised \union {Len(records) + 1}
  /\ UNCHANGED <<kept, logVars, verifyVars>>

\* The record _decide() makes is one.
LEMMA DecidedType ==
  ASSUME TypeOK, NEW t \in Tool, NEW a \in Arg, NEW b \in BOOLEAN, NEW x \in {"binding", "policy"}
  PROVE  /\ Decided(t, a, b, x) \in Rec
         /\ Decided(t, a, b, x).body.attempt_id = <<step, call_index>>
         /\ Decided(t, a, b, x).body.allowed = b
         /\ Decided(t, a, b, x).prev = Tip(records)
<1>1. Tip(records) \in Digest
  BY TipType DEF TypeOK
<1> DEFINE body == [attempt_id |-> <<step, call_index>>, tool |-> t, args |-> a,
                    preimage |-> <<t, a>>, allowed |-> b, reason |-> x]
<1>2. body \in Body
  BY DEF TypeOK, Body
<1>3. Decided(t, a, b, x) = [body |-> body, prev |-> Tip(records)]
  BY DEF Decided
<1>4. body.attempt_id = <<step, call_index>> /\ body.allowed = b
  OBVIOUS
<1> HIDE DEF body
<1>5. QED BY <1>1, <1>2, <1>3, <1>4 DEF Rec

\* A guarded call that leaves a record leaves one as above.
LEMMA CallRecords ==
  ASSUME TypeOK, NEW t \in Tool, NEW a \in Arg,
         CallUnbound(t, a) \/ CallDenied(t, a) \/ CallAllowed(t, a)
  PROVE  \E r \in Rec : Recorded(r)
<1>1. CASE CallUnbound(t, a)
  <2> DEFINE r == Decided(t, a, FALSE, "binding")
  <2>1. r \in Rec /\ r.body.attempt_id = <<step, call_index>> /\ ~r.body.allowed /\ r.prev = Tip(records)
    BY DecidedType
  <2> HIDE DEF r
  <2>2. Recorded(r)
    BY <1>1, <2>1 DEF CallUnbound, Attempt, Recorded, r
  <2>3. QED BY <2>1, <2>2
<1>2. CASE CallDenied(t, a)
  <2> DEFINE r == Decided(t, a, FALSE, "policy")
  <2>1. r \in Rec /\ r.body.attempt_id = <<step, call_index>> /\ ~r.body.allowed /\ r.prev = Tip(records)
    BY DecidedType
  <2> HIDE DEF r
  <2>2. Recorded(r)
    BY <1>2, <2>1 DEF CallDenied, Attempt, Recorded, r
  <2>3. QED BY <2>1, <2>2
<1>3. CASE CallAllowed(t, a)
  <2> DEFINE r == Decided(t, a, TRUE, "policy")
  <2>1. r \in Rec /\ r.body.attempt_id = <<step, call_index>> /\ r.body.allowed /\ r.prev = Tip(records)
    BY DecidedType
  <2> HIDE DEF r
  <2>2. Recorded(r)
    BY <1>3, <2>1 DEF CallAllowed, Attempt, Recorded, r
  <2>3. QED BY <2>1, <2>2
<1>4. QED BY <1>1, <1>2, <1>3

\* The log after an append.
LEMMA RecordsAfter ==
  ASSUME TypeOK, NEW r \in Rec, records' = Append(records, r)
  PROVE  /\ Len(records) \in Nat
         /\ records' \in Seq(Rec)
         /\ Len(records') = Len(records) + 1
         /\ \A i \in 1..Len(records) : records'[i] = records[i]
         /\ records'[Len(records) + 1] = r
BY AppendProperties, LenProperties DEF TypeOK

\* What verify_chain() knows is about the copy of the log and the head it was
\* given: a step of the guard cannot disturb it, as heads stay kept.
LEMMA VerifyFrame ==
  ASSUME VerifyInv, UNCHANGED <<logVars, verifyVars>>, kept \subseteq kept'
  PROVE  VerifyInv'
<1>1. KeptHeads \subseteq KeptHeads'
  BY DEF KeptHeads
<1>2. UNCHANGED <<log, edits, head, pc, pos, prev>>
  BY DEF logVars, verifyVars
<1>3. HeadOK' = HeadOK
  BY <1>2 DEF HeadOK
<1>4. QED BY <1>1, <1>2, <1>3 DEF VerifyInv, ChainedAt

\* A recorded attempt keeps the chain, the ids, the counts and the kept heads.
LEMMA RecordedInv ==
  ASSUME IInv, NEW r \in Rec, Recorded(r)
  PROVE  IInv'
<1> DEFINE n == Len(records)
<1>0. TypeOK /\ records \in Seq(Rec)
  BY DEF IInv, TypeOK
<1>1. /\ n \in Nat
      /\ records' \in Seq(Rec)
      /\ Len(records') = n + 1
      /\ \A i \in 1..n : records'[i] = records[i]
      /\ records'[n + 1] = r
  BY <1>0, RecordsAfter DEF Recorded
<1>2. TypeOK'
  <2>0. /\ step' = step /\ call_index' = call_index + 1 /\ attempts' = attempts + 1
        /\ executions' = executions \/ executions' = executions + 1
        /\ raised' = raised \/ raised' = raised \union {n + 1}
    BY Zenon DEF Recorded
  <2>1. step' \in Nat /\ call_index' \in Nat /\ executions' \in Nat /\ attempts' \in Nat
    BY <1>0, <2>0 DEF TypeOK
  <2>a. raised \in SUBSET Nat /\ n + 1 \in Nat
    BY <1>0, <1>1 DEF TypeOK
  <2>b. raised' \in SUBSET Nat
    BY <2>0, <2>a, Zenon
  <2>2. UNCHANGED <<kept, log, edits, head, pc, pos, prev>>
    BY DEF Recorded, logVars, verifyVars
  <2>3. QED BY <1>0, <1>1, <2>1, <2>b, <2>2 DEF TypeOK
<1>3. RecordsChain'
  <2> SUFFICES ASSUME NEW i \in 1..(n + 1) PROVE ChainedAt(records', i)
    BY <1>1 DEF RecordsChain, ChainedAt
  <2>1. CASE i \in 1..n
    <3>1. ChainedAt(records, i)
      BY <2>1 DEF IInv, RecordsChain
    <3>2. \A j \in 1..i : records'[j] = records[j]
      BY <1>1, <2>1
    <3>3. QED BY <2>1, <3>1, <3>2 DEF ChainedAt
  <2>2. CASE i = n + 1
    <3>1. records'[i].prev = Tip(records)
      BY <1>1, <2>2 DEF Recorded
    <3>2. CASE n = 0
      <4>1. records = <<>>
        BY <1>0, <3>2, EmptySeq
      <4>2. Len(Tip(records)) = 0
        BY <4>1 DEF Tip, NoDigest
      <4>3. QED BY <2>2, <3>1, <3>2, <4>2 DEF ChainedAt
    <3>3. CASE n # 0
      <4>1. n \in 1..n /\ records # <<>>
        BY <1>0, <1>1, <3>3, EmptySeq
      <4>2. Tip(records) = h(records[n]) /\ ChainedAt(records, n)
        BY <4>1 DEF Tip, IInv, RecordsChain
      <4>3. Len(Tip(records)) = n /\ \A j \in 1..n : Tip(records)[j] = records[j].body
        BY <1>0, <4>1, <4>2, DigestIsBodies
      <4>4. QED BY <1>1, <2>2, <3>1, <4>3 DEF ChainedAt
    <3>4. QED BY <3>2, <3>3
  <2>3. QED BY <1>1, <2>1, <2>2
<1>4. IdsSpent'
  <2> SUFFICES ASSUME NEW i \in 1..(n + 1)
               PROVE  /\ records'[i].body.attempt_id[1] <= step
                      /\ records'[i].body.attempt_id[1] = step => records'[i].body.attempt_id[2] < call_index + 1
    BY <1>1 DEF IdsSpent, Recorded
  <2>1. CASE i \in 1..n
    <3>1. records[i].body.attempt_id \in Nat \X Nat
      BY <1>0, <2>1, RecFields
    <3>2. /\ records[i].body.attempt_id[1] <= step
          /\ records[i].body.attempt_id[1] = step => records[i].body.attempt_id[2] < call_index
      BY <2>1 DEF IInv, IdsSpent
    <3>3. records'[i] = records[i] /\ call_index \in Nat
      BY <1>0, <1>1, <2>1 DEF TypeOK
    <3>4. records[i].body.attempt_id[2] \in Nat
      BY <3>1
    <3>5. QED BY <3>2, <3>3, <3>4
  <2>2. CASE i = n + 1
    BY <1>0, <1>1, <2>2 DEF Recorded, TypeOK
  <2>3. QED BY <1>1, <2>1, <2>2
<1>5. AttemptIdsUnique'
  <2>1. \A i \in 1..n : records[i].body.attempt_id # <<step, call_index>>
    <3> TAKE i \in 1..n
    <3>1. records[i].body.attempt_id \in Nat \X Nat
      BY <1>0, RecFields
    <3>2. QED BY <1>0, <3>1 DEF IInv, IdsSpent, TypeOK
  <2> SUFFICES ASSUME NEW i \in 1..(n + 1), NEW j \in 1..(n + 1),
                      records'[i].body.attempt_id = records'[j].body.attempt_id
               PROVE  i = j
    BY <1>1 DEF AttemptIdsUnique
  <2>2. \A k \in 1..(n + 1) : k \in 1..n \/ k = n + 1
    BY <1>1
  <2>3. r.body.attempt_id = <<step, call_index>>
    BY DEF Recorded
  <2>4. CASE i \in 1..n /\ j \in 1..n
    BY <1>1, <2>4 DEF IInv, AttemptIdsUnique
  <2>5. CASE i = n + 1 /\ j \in 1..n
    BY <1>1, <2>1, <2>3, <2>5
  <2>6. CASE i \in 1..n /\ j = n + 1
    BY <1>1, <2>1, <2>3, <2>6
  <2>7. QED BY <2>2, <2>4, <2>5, <2>6
<1>6. CountsFromLog'
  <2>1. IsFiniteSet(AllowedRecords) /\ n + 1 \notin AllowedRecords
    <3>1. IsFiniteSet(1..n)
      BY <1>1, FS_Interval
    <3>2. AllowedRecords \subseteq 1..n /\ n + 1 \notin 1..n
      BY <1>1 DEF AllowedRecords
    <3>3. QED BY <3>1, <3>2, FS_Subset
  <2>2. 1..(n + 1) = (1..n) \union {n + 1}
    BY <1>1
  <2>3. CASE r.body.allowed
    <3>1. AllowedRecords' = AllowedRecords \union {n + 1}
      BY <1>1, <2>2, <2>3 DEF AllowedRecords
    <3>2. Cardinality(AllowedRecords') = Cardinality(AllowedRecords) + 1
      BY <2>1, <3>1, FS_AddElement
    <3>3. executions' = executions + 1 /\ raised' = raised /\ kept' = kept
      BY <2>3 DEF Recorded
    <3>4. (1..Len(records'))  \ AllowedRecords' = (1..n) \ AllowedRecords
      BY <1>1, <2>1, <2>2, <3>1
    <3>5. QED BY <3>2, <3>3, <3>4 DEF IInv, CountsFromLog
  <2>4. CASE ~r.body.allowed
    <3>1. AllowedRecords' = AllowedRecords
      BY <1>1, <2>2, <2>4 DEF AllowedRecords
    <3>2. executions' = executions /\ raised' = raised \union {n + 1} /\ kept' = kept
      BY <2>4 DEF Recorded
    <3>3. (1..Len(records'))  \ AllowedRecords' = ((1..n) \ AllowedRecords) \union {n + 1}
      BY <1>1, <2>1, <2>2, <3>1
    <3>4. QED BY <3>1, <3>2, <3>3 DEF IInv, CountsFromLog
  <2>5. QED BY <2>3, <2>4
<1>7. KeptHeadsHold'
  <2> SUFFICES ASSUME NEW o \in kept
               PROVE  /\ o.record <= o.head.n
                      /\ o.head.n <= n + 1
                      /\ o.head.tip = h(records'[o.head.n])
    BY <1>1 DEF KeptHeadsHold, Recorded
  <2>1. o.head.n \in Nat /\ o.record \in Nat
    BY <1>0 DEF TypeOK, ChainHead
  <2>2. o.record <= o.head.n /\ o.head.n <= n /\ o.head.tip = h(records[o.head.n])
    BY DEF IInv, KeptHeadsHold
  <2>3. o.record \in 1..n
    BY DEF IInv, CountsFromLog
  <2>4. QED BY <1>1, <2>1, <2>2, <2>3
<1>8. VerifyInv'
  BY VerifyFrame DEF IInv, Recorded
<1>9. QED BY <1>2, <1>3, <1>4, <1>5, <1>6, <1>7, <1>8 DEF IInv

\* A new step: every id given so far is of an earlier one.
LEMMA NewStepInv == IInv /\ NewStep => IInv'
<1> SUFFICES ASSUME IInv, NewStep PROVE IInv'
  OBVIOUS
<1>1. /\ step' = step + 1 /\ call_index' = 0
      /\ UNCHANGED <<records, executions, attempts, raised, kept>>
      /\ UNCHANGED <<log, edits, head, pc, pos, prev>>
      /\ UNCHANGED <<logVars, verifyVars>>
  BY DEF NewStep, logVars, verifyVars
<1>2. TypeOK'
  BY <1>1 DEF IInv, TypeOK
<1>3. IdsSpent'
  <2> SUFFICES ASSUME NEW i \in 1..Len(records)
               PROVE  records[i].body.attempt_id[1] < step + 1
    BY <1>1, RecFields DEF IdsSpent, IInv, TypeOK
  <2>1. records[i].body.attempt_id \in Nat \X Nat
    BY RecFields DEF IInv, TypeOK
  <2>2. QED BY <2>1 DEF IInv, IdsSpent, TypeOK
<1>4. VerifyInv'
  BY <1>1, VerifyFrame DEF IInv
<1>5. QED
  BY <1>1, <1>2, <1>3, <1>4
  DEF IInv, RecordsChain, ChainedAt, AttemptIdsUnique, CountsFromLog, AllowedRecords, KeptHeadsHold

\* A call that raises before it is decided leaves no record; an index may be spent.
LEMMA RaisesInv ==
  ASSUME IInv, NEW t, NEW a, PolicyRaises(t, a) \/ SnapshotRaises(t, a)
  PROVE  IInv'
<1>1. /\ call_index' = call_index \/ call_index' = call_index + 1
      /\ attempts' = attempts + 1
      /\ UNCHANGED <<step, records, executions, raised, kept>>
      /\ UNCHANGED <<log, edits, head, pc, pos, prev>>
      /\ UNCHANGED <<logVars, verifyVars>>
  BY DEF PolicyRaises, SnapshotRaises, Attempt, logVars, verifyVars
<1>2. TypeOK'
  BY <1>1 DEF IInv, TypeOK
<1>3. IdsSpent'
  <2> SUFFICES ASSUME NEW i \in 1..Len(records)
               PROVE  /\ records[i].body.attempt_id[1] <= step
                      /\ records[i].body.attempt_id[1] = step => records[i].body.attempt_id[2] < call_index'
    BY <1>1 DEF IdsSpent
  <2>1. records[i].body.attempt_id \in Nat \X Nat
    BY RecFields DEF IInv, TypeOK
  <2>2. QED BY <1>1, <2>1 DEF IInv, IdsSpent, TypeOK
<1>4. VerifyInv'
  BY <1>1, VerifyFrame DEF IInv
<1>5. QED
  BY <1>1, <1>2, <1>3, <1>4
  DEF IInv, RecordsChain, ChainedAt, AttemptIdsUnique, CountsFromLog, AllowedRecords, KeptHeadsHold

\* Whoever catches a denial keeps the head of the log as it stands, which the
\* denied record is in.
LEMMA ObserveInv ==
  ASSUME IInv, NEW k \in raised, Observe(k)
  PROVE  IInv'
<1> DEFINE n == Len(records)
           o == [record |-> k, head |-> CurrentHead]
<1>1. /\ kept' = kept \union {o} /\ raised' = raised \ {k}
      /\ UNCHANGED <<step, call_index, records, executions, attempts>>
      /\ UNCHANGED <<log, edits, head, pc, pos, prev>>
      /\ UNCHANGED <<logVars, verifyVars>>
  BY DEF Observe, logVars, verifyVars
<1>2. n \in Nat /\ k \in 1..n /\ records # <<>> /\ records \in Seq(Rec)
  <2>1. records \in Seq(Rec) /\ n \in Nat
    BY LenProperties DEF IInv, TypeOK
  <2>2. k \in 1..n
    BY DEF IInv, CountsFromLog
  <2>3. QED BY <2>1, <2>2, EmptySeq
<1>3. CurrentHead = [n |-> n, tip |-> h(records[n])] /\ CurrentHead \in ChainHead
  <2>1. CurrentHead = [n |-> n, tip |-> h(records[n])]
    BY <1>2 DEF CurrentHead, Tip
  <2>2. h(records[n]) \in Digest
    BY <1>2, RecFields, DigestOf
  <2>3. QED BY <1>2, <2>1, <2>2 DEF ChainHead
<1>4. o.record = k /\ o.head = CurrentHead /\ o \in [record : Nat, head : ChainHead]
  BY <1>2, <1>3
<1> HIDE DEF o
<1>5. TypeOK'
  <2>1. kept' \in SUBSET [record : Nat, head : ChainHead] /\ raised' \in SUBSET Nat
    BY <1>1, <1>4 DEF IInv, TypeOK
  <2>2. QED BY <1>1, <2>1 DEF IInv, TypeOK
<1>6. CountsFromLog'
  <2>1. AllowedRecords' = AllowedRecords
    BY <1>1 DEF AllowedRecords
  <2>2. {x.record : x \in kept'} = {x.record : x \in kept} \union {k}
    BY <1>1, <1>4
  <2>3. raised' \union {x.record : x \in kept'} = raised \union {x.record : x \in kept}
    BY <1>1, <2>2
  <2>4. QED BY <1>1, <2>1, <2>3 DEF IInv, CountsFromLog
<1>7. KeptHeadsHold'
  <2> SUFFICES ASSUME NEW x \in kept'
               PROVE  x.record <= x.head.n /\ x.head.n <= n /\ x.head.tip = h(records[x.head.n])
    BY <1>1 DEF KeptHeadsHold
  <2>1. CASE x \in kept
    BY <2>1 DEF IInv, KeptHeadsHold
  <2>2. CASE x = o
    BY <1>2, <1>3, <1>4, <2>2
  <2>3. QED BY <1>1, <2>1, <2>2
<1>8. VerifyInv'
  BY <1>1, VerifyFrame DEF IInv
<1>9. QED
  BY <1>1, <1>5, <1>6, <1>7, <1>8 DEF IInv, RecordsChain, ChainedAt, IdsSpent, AttemptIdsUnique

\* Every step of the guard keeps the invariant.
LEMMA GuardInv == IInv /\ Guard => IInv'
<1> SUFFICES ASSUME IInv, Guard PROVE IInv'
  OBVIOUS
<1>1. ASSUME NEW t \in Tool, NEW a \in Arg, CallUnbound(t, a) \/ CallDenied(t, a) \/ CallAllowed(t, a)
      PROVE  IInv'
  BY <1>1, CallRecords, RecordedInv DEF IInv
<1>2. QED BY <1>1, NewStepInv, RaisesInv, ObserveInv DEF Guard

-----------------------------------------------------------------------------
(* The copy of the log *)

\* Removing a record from a log leaves a log.
LEMMA WithoutType ==
  ASSUME NEW s \in Seq(Rec), NEW i \in 1..Len(s)
  PROVE  Without(s, i) \in Seq(Rec)
<1>1. SubSeq(s, 1, i - 1) \in Seq(Rec)
  <2>1. \A j \in 1..(i - 1) : s[j] \in Rec
    BY ElementOfSeq
  <2>2. QED BY <2>1, SubSeqProperties
<1>2. SubSeq(s, i + 1, Len(s)) \in Seq(Rec)
  <2>1. \A j \in (i + 1)..Len(s) : s[j] \in Rec
    BY ElementOfSeq
  <2>2. QED BY <2>1, SubSeqProperties
<1>3. QED BY <1>1, <1>2, ConcatProperties DEF Without

\* The copy may become any log while nobody verifies it.
LEMMA CopyInv ==
  ASSUME IInv, pc = "idle", log' \in Seq(Rec), edits' \in 0..MaxEdits,
         UNCHANGED <<guardVars, verifyVars>>
  PROVE  IInv'
<1>1. /\ UNCHANGED <<step, call_index, records, executions, attempts, raised, kept>>
      /\ UNCHANGED <<head, pc, pos, prev>>
  BY DEF guardVars, verifyVars
<1>2. TypeOK'
  BY <1>1 DEF IInv, TypeOK
<1>3. KeptHeads' = KeptHeads
  BY <1>1 DEF KeptHeads
<1>4. VerifyInv'
  BY <1>1, <1>3 DEF IInv, VerifyInv
<1>5. QED
  BY <1>1, <1>2, <1>4
  DEF IInv, RecordsChain, ChainedAt, IdsSpent, AttemptIdsUnique, CountsFromLog, AllowedRecords, KeptHeadsHold

\* An edit leaves a log behind, so it keeps the invariant.
LEMMA EditedInv ==
  ASSUME IInv, NEW s \in Seq(Rec), Edited(s)
  PROVE  IInv'
<1>1. edits' \in 0..MaxEdits
  BY GuardAssumption DEF IInv, TypeOK, Edited
<1>2. QED BY <1>1, CopyInv DEF Edited

\* Copying the log, and every way of editing the copy, keep the invariant.
LEMMA HolderInv == IInv /\ Holder => IInv'
<1> SUFFICES ASSUME IInv, Holder PROVE IInv'
  OBVIOUS
<1>0. log \in Seq(Rec) /\ Len(log) \in Nat
  BY LenProperties DEF IInv, TypeOK
<1>1. CASE Copy
  <2>1. records \in Seq(Rec) /\ 0 \in 0..MaxEdits
    BY GuardAssumption DEF IInv, TypeOK
  <2>2. QED BY <1>1, <2>1, CopyInv DEF Copy
<1>2. ASSUME NEW i \in 1..Len(log), NEW r \in Rec PROVE [log EXCEPT ![i] = r] \in Seq(Rec)
  BY <1>0, ExceptSeq
<1>3. ASSUME NEW i \in 1..Len(log), DropRecord(i) PROVE IInv'
  BY <1>0, <1>3, WithoutType, EditedInv DEF DropRecord
<1>4. ASSUME NEW i \in 1..Len(log), SwapRecords(i) PROVE IInv'
  <2>1. i + 1 \in 1..Len(log)
    BY <1>0, <1>4 DEF SwapRecords
  <2> DEFINE g == [log EXCEPT ![i] = log[i + 1]]
  <2>2. g \in Seq(Rec) /\ Len(g) = Len(log)
    BY <1>0, <2>1, RecFields, ExceptSeq
  <2>3. [g EXCEPT ![i + 1] = log[i]] \in Seq(Rec)
    BY <1>0, <2>1, <2>2, RecFields, ExceptSeq
  <2>4. [log EXCEPT ![i] = log[i + 1], ![i + 1] = log[i]] = [g EXCEPT ![i + 1] = log[i]]
    OBVIOUS
  <2>5. QED BY <1>4, <2>3, <2>4, EditedInv DEF SwapRecords
<1>5. ASSUME NEW i \in 1..Len(log), NEW b \in Body,
             Edited([log EXCEPT ![i] = [log[i] EXCEPT !.body = b]])
      PROVE  IInv'
  <2>1. log[i] \in Rec
    BY <1>0, RecFields
  <2>2. [log[i] EXCEPT !.body = b] \in Rec
    BY <2>1 DEF Rec
  <2>3. QED BY <1>2, <1>5, <2>2, EditedInv
<1>6. ASSUME NEW i \in 1..Len(log), NEW a \in Arg, AlterArgs(i, a) PROVE IInv'
  <2>1. log[i].body \in Body
    BY <1>0, RecFields
  <2>2. [log[i].body EXCEPT !.args = a] \in Body
    BY <2>1 DEF Body
  <2>3. [log EXCEPT ![i].body.args = a]
          = [log EXCEPT ![i] = [log[i] EXCEPT !.body = [log[i].body EXCEPT !.args = a]]]
    OBVIOUS
  <2>4. QED BY <1>5, <1>6, <2>2, <2>3 DEF AlterArgs
<1>7. ASSUME NEW i \in 1..Len(log), FlipAllowed(i) PROVE IInv'
  <2>1. log[i].body \in Body
    BY <1>0, RecFields
  <2> DEFINE b == ~log[i].body.allowed
  <2>2. b \in BOOLEAN
    OBVIOUS
  <2>3. [log EXCEPT ![i].body.allowed = ~@]
          = [log EXCEPT ![i] = [log[i] EXCEPT !.body = [log[i].body EXCEPT !.allowed = b]]]
    OBVIOUS
  <2> HIDE DEF b
  <2>4. [log[i].body EXCEPT !.allowed = b] \in Body
    BY <2>1, <2>2 DEF Body
  <2>5. QED BY <1>5, <1>7, <2>3, <2>4 DEF FlipAllowed
<1>8. ASSUME NEW i \in 1..Len(log), Relink(i) PROVE IInv'
  <2> DEFINE p == IF i = 1 THEN NoDigest ELSE h(log[i - 1])
  <2>1. p \in Digest
    <3>1. i # 1 => i - 1 \in 1..Len(log)
      BY <1>0
    <3>2. QED BY <1>0, <3>1, RecFields, DigestOf, EmptySeq DEF NoDigest, Digest
  <2>2. Edited([log EXCEPT ![i].prev = p])
    BY <1>8 DEF Relink
  <2> HIDE DEF p
  <2>3. [log[i] EXCEPT !.prev = p] \in Rec
    <3>1. log[i] \in Rec
      BY <1>0, RecFields
    <3>2. QED BY <2>1, <3>1 DEF Rec
  <2>4. [log EXCEPT ![i].prev = p] = [log EXCEPT ![i] = [log[i] EXCEPT !.prev = p]]
    OBVIOUS
  <2>5. QED BY <1>2, <2>2, <2>3, <2>4, EditedInv
<1>9. QED BY <1>1, <1>3, <1>4, <1>6, <1>7, <1>8 DEF Holder

-----------------------------------------------------------------------------
(* verify_chain() *)

\* A step of verify_chain() leaves the guard and the copy alone.
LEMMA VerifierFrame ==
  ASSUME IInv, UNCHANGED <<guardVars, logVars>>, VerifyInv',
         head' \in ChainHead, pc' \in {"idle", "loop", "true", "false"},
         pos' \in Nat \ {0}, prev' \in Digest
  PROVE  IInv'
<1>1. UNCHANGED <<step, call_index, records, executions, attempts, raised, kept, log, edits>>
  BY DEF guardVars, logVars
<1>2. TypeOK'
  BY <1>1 DEF IInv, TypeOK
<1>3. QED
  BY <1>1, <1>2
  DEF IInv, RecordsChain, ChainedAt, IdsSpent, AttemptIdsUnique, CountsFromLog, AllowedRecords, KeptHeadsHold

\* Every step of verify_chain() keeps the invariant.
LEMMA VerifierInv == IInv /\ Verifier => IInv'
<1> SUFFICES ASSUME IInv, Verifier PROVE IInv'
  OBVIOUS
<1>0. /\ log \in Seq(Rec) /\ Len(log) \in Nat
      /\ pos \in Nat /\ pos >= 1 /\ prev \in Digest /\ head \in ChainHead /\ VerifyInv
  BY LenProperties DEF IInv, TypeOK
<1>1. ASSUME NEW hd \in KeptHeads \union {NoHead}, Begin(hd) PROVE IInv'
  <2>1. /\ head' = hd /\ pc' = "loop" /\ pos' = 1 /\ prev' = NoDigest
        /\ UNCHANGED <<guardVars, logVars>> /\ UNCHANGED <<log, kept>>
    BY <1>1 DEF Begin, guardVars, logVars
  <2>2. KeptHeads' = KeptHeads
    BY <2>1 DEF KeptHeads
  <2>3. NoDigest \in Digest /\ Len(NoDigest) = 0
    BY EmptySeq DEF NoDigest, Digest
  <2>4. NoHead \in ChainHead /\ NoHead.n = 0
    BY <2>3 DEF NoHead, ChainHead
  <2>5. hd \in ChainHead
    BY <2>4 DEF KeptHeads, IInv, TypeOK
  <2>6. VerifyInv'
    BY <1>0, <2>1, <2>2, <2>3, <2>4 DEF VerifyInv
  <2>7. QED BY <2>1, <2>3, <2>5, <2>6, VerifierFrame
<1>2. ASSUME CheckRecord PROVE IInv'
  <2>1. /\ UNCHANGED <<guardVars, logVars>> /\ UNCHANGED <<log, kept, head>>
        /\ pc = "loop" /\ pos \in 1..Len(log)
    BY <1>0, <1>2 DEF CheckRecord, guardVars, logVars
  <2>2. KeptHeads' = KeptHeads
    BY <2>1 DEF KeptHeads
  <2>3. CASE log[pos].prev = prev /\ PreimageOK(log[pos].body)
    <3>1. pc' = "loop" /\ prev' = h(log[pos]) /\ pos' = pos + 1
      BY <1>2, <2>1, <2>3 DEF CheckRecord
    <3>2. ChainedAt(log, pos)
      BY <1>0, <2>1, <2>3 DEF ChainedAt, VerifyInv
    <3>3. Len(prev') = pos /\ \A j \in 1..pos : prev'[j] = log[j].body
      BY <1>0, <2>1, <3>1, <3>2, DigestIsBodies
    <3>4. \A i \in 1..pos : ChainedAt(log, i)
      BY <1>0, <2>1, <3>2 DEF VerifyInv
    <3>5. \A i \in 1..pos : ChainedAt(log', i)
      BY <2>1, <3>4
    <3>6. VerifyInv'
      BY <1>0, <2>1, <2>2, <3>1, <3>3, <3>5 DEF VerifyInv
    <3>7. h(log[pos]) \in Digest
      BY <1>0, <2>1, RecFields, DigestOf
    <3>8. QED BY <1>0, <2>1, <3>1, <3>6, <3>7, VerifierFrame
  <2>4. CASE ~(log[pos].prev = prev /\ PreimageOK(log[pos].body))
    <3>1. pc' = "false" /\ UNCHANGED <<prev, pos>>
      BY <1>2, <2>1, <2>4 DEF CheckRecord
    <3>2. VerifyInv'
      BY <1>0, <2>1, <2>2, <3>1 DEF VerifyInv, ChainedAt
    <3>3. QED BY <1>0, <2>1, <3>1, <3>2, VerifierFrame
  <2>5. QED BY <2>3, <2>4
<1>3. ASSUME CheckHead PROVE IInv'
  <2>1. /\ UNCHANGED <<guardVars, logVars>> /\ UNCHANGED <<log, kept, head, pos, prev>>
        /\ pc = "loop" /\ pos > Len(log)
        /\ (pc' = "true" /\ HeadOK) \/ pc' = "false"
    BY <1>3 DEF CheckHead, guardVars, logVars
  <2>2. KeptHeads' = KeptHeads /\ HeadOK' = HeadOK
    BY <2>1 DEF KeptHeads, HeadOK
  <2>3. VerifyInv'
    BY <1>0, <2>1, <2>2 DEF VerifyInv, ChainedAt
  <2>4. QED BY <1>0, <2>1, <2>3, VerifierFrame
<1>4. QED BY <1>1, <1>2, <1>3 DEF Verifier

-----------------------------------------------------------------------------
(* Theorems *)

\* The initial state: no record, no head, nothing verified.
LEMMA InitInv == Init => IInv
<1> SUFFICES ASSUME Init PROVE IInv
  OBVIOUS
<1>1. <<>> \in Seq(Rec) /\ Len(records) = 0 /\ NoDigest \in Digest
  BY EmptySeq DEF Init, NoDigest, Digest
<1>2. NoHead \in ChainHead /\ NoHead.n = 0
  BY <1>1 DEF NoHead, ChainHead
<1>3. TypeOK
  BY <1>1, <1>2, GuardAssumption DEF Init, TypeOK
<1>4. CountsFromLog
  <2>1. AllowedRecords = {} /\ 1..Len(records) = {}
    BY <1>1 DEF AllowedRecords
  <2>2. QED BY <2>1, FS_EmptySet DEF CountsFromLog, Init
<1>5. RecordsChain /\ IdsSpent /\ AttemptIdsUnique
  BY <1>1 DEF RecordsChain, IdsSpent, AttemptIdsUnique
<1>6. KeptHeadsHold /\ VerifyInv
  BY <1>2 DEF Init, KeptHeadsHold, VerifyInv
<1>7. QED BY <1>3, <1>4, <1>5, <1>6 DEF IInv

\* The invariant holds throughout: the guard runs, the copy is edited and verified
\* in any order.
LEMMA Invariant == Spec => []IInv
<1>1. IInv /\ [Next]_vars => IInv'
  <2> SUFFICES ASSUME IInv, [Next]_vars PROVE IInv'
    OBVIOUS
  <2>1. CASE UNCHANGED vars
    <3>1. UNCHANGED <<guardVars, logVars, verifyVars>>
      BY <2>1 DEF vars
    <3>2. VerifyInv'
      BY <3>1, VerifyFrame DEF IInv, guardVars
    <3>3. QED BY <3>1, <3>2, VerifierFrame DEF IInv, TypeOK, verifyVars
  <2>2. QED BY <2>1, GuardInv, HolderInv, VerifierInv DEF Next
<1>2. QED BY <1>1, InitInv, PTL DEF Spec

\* Every variable has its type.
THEOREM TypeCorrect == Spec => []TypeOK
<1>1. IInv => TypeOK
  BY DEF IInv
<1>2. QED BY <1>1, Invariant, PTL

\* attempt_id names one record: whatever calls raised, were denied, or were made
\* by tool bodies, and however often new_step() reset the counter.
THEOREM IdsAreUnique == Spec => []AttemptIdsUnique
<1>1. IInv => AttemptIdsUnique
  BY DEF IInv
<1>2. QED BY <1>1, Invariant, PTL

\* executions is the number of records with allowed = true, and the denied records
\* are those raised or observed: the log alone gives the counts.
THEOREM CountsAreFromLog == Spec => []CountsFromLog
<1>1. IInv => CountsFromLog
  BY DEF IInv
<1>2. QED BY <1>1, Invariant, PTL

\* A head kept with a denial stays the head of a prefix of the guard's log, with
\* the denied record in it, however late the denial was caught.
THEOREM KeptHeadsAreOfTheLog == Spec => []KeptHeadsHold
<1>1. IInv => KeptHeadsHold
  BY DEF IInv
<1>2. QED BY <1>1, Invariant, PTL

\* verify_chain(log, head) = True with a head the guard gave out means the log is
\* the guard's own up to that head, whatever edits the copy went through.
THEOREM VerifiedLogIsGenuine == Spec => []VerifiedIsGenuine
<1>1. IInv => VerifiedIsGenuine
  <2> SUFFICES ASSUME IInv, pc = "true"
               PROVE  \A i \in 1..head.n : i <= Len(log) /\ log[i] = records[i]
    BY DEF VerifiedIsGenuine
  <2>1. /\ log \in Seq(Rec) /\ Len(log) \in Nat /\ records \in Seq(Rec) /\ Len(records) \in Nat
        /\ head.n \in Nat
    BY LenProperties DEF IInv, TypeOK, ChainHead
  <2>2. CASE head.n = 0
    BY <2>1, <2>2
  <2>3. CASE head.n # 0
    <3>1. PICK o \in kept : o.head = head
      BY <2>3 DEF IInv, VerifyInv, KeptHeads
    <3>2. head.n <= Len(records) /\ head.tip = h(records[head.n])
      BY <3>1 DEF IInv, KeptHeadsHold
    <3>3. Len(log) >= head.n /\ h(log[head.n]) = head.tip
      BY <2>3 DEF IInv, VerifyInv, HeadOK
    <3>4. \A i \in 1..head.n : ChainedAt(log, i) /\ ChainedAt(records, i)
      BY <2>1, <3>2, <3>3 DEF IInv, VerifyInv, RecordsChain
    <3>5. head.n \in 1..Len(log) /\ head.n \in 1..Len(records)
      BY <2>1, <2>3, <3>2, <3>3
    <3>6. \A i \in 1..head.n : log[i] = records[i]
      <4>1. h(log[head.n]) = h(records[head.n])
        BY <3>2, <3>3
      <4>2. QED BY <2>1, <3>4, <3>5, <4>1, OneLogPerHead
    <3>7. QED BY <2>1, <3>3, <3>6
  <2>4. QED BY <2>2, <2>3
<1>2. QED BY <1>1, Invariant, PTL
=============================================================================
