----------------------------- MODULE ToolProofs -----------------------------
(***************************************************************************)
(* What the single-shot tools guarantee for every input: check() of        *)
(* session_chain_check.py for every ledger, every edited log file and      *)
(* every set of external heads, and ten tools of ToolCases after any       *)
(* number of alterations of what they read.                                *)
(***************************************************************************)
EXTENDS SessionChain, ToolCases, SequenceTheorems, FiniteSetTheorems, WellFoundedInduction, TLAPS

-----------------------------------------------------------------------------
(* Hashes *)

\* sha256 as modelled: equal content hashes are of equal records.
LEMMA ContentHashInjective ==
  ASSUME NEW r, NEW s, content_hash(r) = content_hash(s)
  PROVE  r = s
BY DEF content_hash

\* Equal head hashes are of equal contents chained onto equal heads.
LEMMA HeadHashInjective ==
  ASSUME NEW c, NEW p, NEW d, NEW q, head_hash(c, p) = head_hash(d, q)
  PROVE  c = d /\ p = q
BY DEF head_hash

-----------------------------------------------------------------------------
(* Types *)

\* A chained entry is an entry, given room for its head hash.
LEMMA ChainedType ==
  ASSUME NEW n \in Nat, NEW r \in Record, NEW p \in HeadHash,
         head_hash(content_hash(r), p) \in HeadHash
  PROVE  Chained(n, r, p) \in Entry
BY DEF Chained, Entry, ContentHash

\* What the fields of a log's entries are.
LEMMA EntryFields ==
  ASSUME NEW s \in Seq(Entry), NEW i \in 1..Len(s)
  PROVE  /\ s[i] \in Entry
         /\ s[i].entry \in Nat
         /\ s[i].record \in Record
         /\ s[i].content_hash \in ContentHash
         /\ s[i].prev_head_hash \in HeadHash
         /\ s[i].head_hash \in HeadHash
<1>1. s[i] \in Entry
  BY ElementOfSeq
<1>2. QED BY <1>1 DEF Entry

\* Removing a position from a log leaves a log.
LEMMA WithoutType ==
  ASSUME NEW s \in Seq(Entry), NEW i \in 1..Len(s)
  PROVE  Without(s, i) \in Seq(Entry)
<1>1. SubSeq(s, 1, i - 1) \in Seq(Entry)
  <2>1. \A j \in 1..(i - 1) : s[j] \in Entry
    BY ElementOfSeq
  <2>2. QED BY <2>1, SubSeqProperties
<1>2. SubSeq(s, i + 1, Len(s)) \in Seq(Entry)
  <2>1. \A j \in (i + 1)..Len(s) : s[j] \in Entry
    BY ElementOfSeq
  <2>2. QED BY <2>1, SubSeqProperties
<1>3. QED BY <1>1, <1>2, ConcatProperties DEF Without

\* The tip the writer appends to is a head hash.
LEMMA TipType == TypeOK => Tip \in HeadHash
<1> SUFFICES ASSUME TypeOK PROVE Tip \in HeadHash
  OBVIOUS
<1>1. CASE ledger = <<>>
  BY <1>1, HashAssumption DEF Tip
<1>2. CASE ledger # <<>>
  <2>1. Len(ledger) \in 1..Len(ledger)
    BY <1>2, EmptySeq DEF TypeOK
  <2>2. ledger[Len(ledger)] \in Entry
    BY <2>1, ElementOfSeq DEF TypeOK
  <2>3. QED BY <1>2, <2>2 DEF Tip, Entry
<1>3. QED BY <1>1, <1>2

\* The writer's actions keep the types.
LEMMA WriterType == TypeOK /\ Writer => TypeOK'
<1> SUFFICES ASSUME TypeOK, Writer PROVE TypeOK'
  OBVIOUS
<1> USE DEF TypeOK
<1>1. ASSUME NEW r \in Record, AppendEntry(r) PROVE TypeOK'
  <2>1. Chained(Len(ledger) + 1, r, Tip) \in Entry
    BY <1>1, TipType, ChainedType, LenProperties DEF AppendEntry
  <2>2. ledger' \in Seq(Entry)
    BY <1>1, <2>1, AppendProperties DEF AppendEntry
  <2>3. QED BY <1>1, <2>2 DEF AppendEntry, checkVars
<1>2. ASSUME NEW a \in 1..Len(ledger), NEW b \in a..Len(ledger), Export(a, b)
      PROVE  TypeOK'
  <2>1. \A j \in a..b : ledger[j] \in Entry
    BY ElementOfSeq
  <2>2. file' \in Seq(Entry)
    BY <1>2, <2>1, SubSeqProperties DEF Export
  <2>3. QED BY <1>2, <2>2, BoundAssumption DEF Export, checkVars
<1>3. ASSUME NEW f \in Seq(Entry), Edited(f) PROVE TypeOK'
  BY <1>3, BoundAssumption DEF Edited, checkVars
<1>4. ASSUME NEW i \in 1..Len(file), NEW e \in Entry
      PROVE  [file EXCEPT ![i] = e] \in Seq(Entry)
  BY <1>4, ExceptSeq
<1>5. ASSUME NEW i \in 1..Len(file) PROVE file[i] \in Entry
  BY <1>5, ElementOfSeq
<1>6. ASSUME NEW i \in 1..Len(file), DropEntry(i) PROVE TypeOK'
  BY <1>3, <1>6, WithoutType DEF DropEntry
<1>7. ASSUME NEW i \in 1..Len(file), SwapEntries(i) PROVE TypeOK'
  <2>1. i + 1 \in 1..Len(file)
    BY <1>7, LenProperties DEF SwapEntries
  <2> DEFINE g == [file EXCEPT ![i] = file[i + 1]]
  <2>2. g \in Seq(Entry) /\ Len(g) = Len(file)
    BY <1>5, <2>1, ExceptSeq
  <2>3. [g EXCEPT ![i + 1] = file[i]] \in Seq(Entry)
    BY <1>5, <2>1, <2>2, ExceptSeq
  <2>4. [file EXCEPT ![i] = file[i + 1], ![i + 1] = file[i]]
          = [g EXCEPT ![i + 1] = file[i]]
    OBVIOUS
  <2>5. QED BY <1>3, <1>7, <2>3, <2>4 DEF SwapEntries
<1>8. ASSUME NEW i \in 1..Len(file), NEW r \in Record, AlterRecord(i, r)
      PROVE  TypeOK'
  <2>1. [file[i] EXCEPT !.record = r] \in Entry
    BY <1>5 DEF Entry
  <2>2. [file EXCEPT ![i].record = r]
          = [file EXCEPT ![i] = [file[i] EXCEPT !.record = r]]
    OBVIOUS
  <2>3. QED BY <1>3, <1>4, <1>8, <2>1, <2>2 DEF AlterRecord
<1>9. ASSUME NEW i \in 1..Len(file), NEW n \in 0..MaxEntries, Renumber(i, n)
      PROVE  TypeOK'
  <2>0. n \in Nat
    BY BoundAssumption
  <2>1. [file[i] EXCEPT !.entry = n] \in Entry
    BY <1>5, <2>0 DEF Entry
  <2>2. [file EXCEPT ![i].entry = n]
          = [file EXCEPT ![i] = [file[i] EXCEPT !.entry = n]]
    OBVIOUS
  <2>3. QED BY <1>3, <1>4, <1>9, <2>1, <2>2 DEF Renumber
<1>10. ASSUME NEW i \in 1..Len(file), Relink(i) PROVE TypeOK'
  <2> DEFINE p == IF i = 1 THEN file[1].prev_head_hash ELSE file[i - 1].head_hash
  <2>1. i # 1 => i - 1 \in 1..Len(file)
    BY LenProperties
  <2>2. p \in HeadHash /\ file[i].entry \in Nat /\ file[i].record \in Record
    BY <1>5, <2>1 DEF Entry
  <2>3. Chained(file[i].entry, file[i].record, p) \in Entry
    BY <1>10, <2>2, ChainedType DEF Relink
  <2>4. QED BY <1>3, <1>4, <1>10, <2>3 DEF Relink
<1>11. QED
  BY <1>1, <1>2, <1>6, <1>7, <1>8, <1>9, <1>10 DEF Writer

\* The checker's actions keep the types.
LEMMA CheckerType ==
  ASSUME TypeOK,
         \/ LoadLog
         \/ \E H \in SUBSET (LedgerHeads \union ExtraHeads) : LoadHeads(H)
         \/ Checker
  PROVE  TypeOK'
<1> USE DEF TypeOK, ledgerVars
<1>1. CASE LoadLog
  BY <1>1 DEF LoadLog
<1>2. ASSUME NEW H \in SUBSET (LedgerHeads \union ExtraHeads), LoadHeads(H)
      PROVE  TypeOK'
  <2>1. LedgerHeads \subseteq ExternalHead
    <3> SUFFICES ASSUME NEW n \in 1..Len(ledger)
                 PROVE  [entry |-> n, head_hash |-> ledger[n].head_hash]
                          \in ExternalHead
      BY DEF LedgerHeads
    <3> QED BY EntryFields DEF ExternalHead
  <2>2. H \in SUBSET ExternalHead
    BY <2>1, BoundAssumption
  <2> HIDE DEF TypeOK
  <2>a. ledger \in Seq(Entry) /\ file \in Seq(Entry) /\ entries \in Seq(Entry)
        /\ edits \in 0..MaxEdits /\ prev \in HeadHash
    BY DEF TypeOK
  <2>b. /\ UNCHANGED <<ledger, file, edits, entries>>
        /\ supplied' = H /\ todo' = H /\ pos' = 1 /\ why' = {}
    BY <1>2 DEF LoadHeads
  <2>c. anchored' \in BOOLEAN
    BY <1>2 DEF LoadHeads
  <2>3. CASE entries = <<>>
    <3>1. pc' = "done" /\ result' = CANNOT /\ prev' = prev
      BY <1>2, <2>3 DEF LoadHeads
    <3>2. QED BY <2>2, <2>a, <2>b, <2>c, <3>1 DEF TypeOK
  <2>4. CASE entries # <<>>
    <3>1. 1 \in 1..Len(entries)
      BY <2>4, <2>a, EmptySeq
    <3>2. entries[1].prev_head_hash \in HeadHash
      BY <2>a, <3>1, EntryFields
    <3>3. pc' = "chain" /\ result' = None /\ prev' = entries[1].prev_head_hash
      BY <1>2, <2>4 DEF LoadHeads
    <3>4. QED BY <2>2, <2>a, <2>b, <2>c, <3>2, <3>3 DEF TypeOK
  <2>5. QED BY <2>3, <2>4
<1>3. CASE CheckEntry
  <2>1. pos \in 1..Len(entries)
    BY <1>3, LenProperties DEF CheckEntry
  <2>2. EntryReasons(pos) \subseteq ChainReasons
    BY DEF EntryReasons
  <2>3. entries[pos].head_hash \in HeadHash
    BY <2>1, EntryFields
  <2>4. QED BY <1>3, <2>2, <2>3 DEF CheckEntry
<1>4. CASE EndChain
  BY <1>4 DEF EndChain
<1>5. ASSUME NEW h \in todo, CheckHead(h) PROVE TypeOK'
  <2>1. HeadReason(h) \subseteq HeadReasons
    BY DEF HeadReason, HeadReasons
  <2>2. anchored' \in BOOLEAN
    BY <1>5 DEF CheckHead, Attaches
  <2>3. QED BY <1>5, <2>1, <2>2 DEF CheckHead
<1>6. CASE Conclude
  BY <1>6 DEF Conclude
<1>7. QED BY <1>1, <1>2, <1>3, <1>4, <1>5, <1>6 DEF Checker

\* Every step keeps the types.
LEMMA TypeStep == TypeOK /\ [Next]_vars => TypeOK'
<1> SUFFICES ASSUME TypeOK, [Next]_vars PROVE TypeOK'
  OBVIOUS
<1>1. CASE Next
  BY <1>1, WriterType, CheckerType DEF Next
<1>2. CASE UNCHANGED vars
  BY <1>2 DEF vars, ledgerVars, checkVars, TypeOK
<1>3. QED BY <1>1, <1>2

\* The initial state is of the right types.
LEMMA TypeInit == Init => TypeOK
<1> SUFFICES ASSUME Init PROVE TypeOK
  OBVIOUS
<1>1. anchored \in BOOLEAN
  BY DEF Init
<1>2. /\ ledger = <<>> /\ file = <<>> /\ entries = <<>> /\ edits = 0 /\ pos = 1
      /\ supplied = {} /\ todo = {} /\ why = {} /\ prev = Genesis
      /\ pc = "idle" /\ result = None
  BY DEF Init
<1>3. <<>> \in Seq(Entry)
  BY EmptySeq
<1>4. 0 \in 0..MaxEdits
  BY BoundAssumption
<1>5. QED BY <1>1, <1>2, <1>3, <1>4, HashAssumption DEF TypeOK

\* Type correctness of the checker and the log it is run on.
THEOREM TypeCorrect == Spec => []TypeOK
BY TypeInit, TypeStep, PTL DEF Spec

-----------------------------------------------------------------------------
(* The ledger *)

\* What a step does to the three parts of the state the invariants relate.
LEMMA StepFrame ==
  ASSUME TypeOK, WalkInv, [Next]_vars
  PROVE  \/ (\E r \in Record : AppendEntry(r)) /\ UNCHANGED <<entries, pos>>
         \/ UNCHANGED ledger /\ pos' = 1
         \/ CheckEntry /\ UNCHANGED <<ledger, entries>>
         \/ UNCHANGED <<ledger, entries, pos>>
<1> USE DEF ledgerVars, checkVars
<1>1. CASE \E r \in Record : AppendEntry(r)
  BY <1>1 DEF AppendEntry
<1>2. CASE \E a \in 1..Len(ledger) : \E b \in a..Len(ledger) : Export(a, b)
  BY <1>2 DEF Export
<1>3. CASE \E i \in 1..Len(file) : DropEntry(i) \/ SwapEntries(i) \/ Relink(i)
                                     \/ (\E r \in Record : AlterRecord(i, r))
                                     \/ (\E n \in 0..MaxEntries : Renumber(i, n))
  BY <1>3 DEF DropEntry, SwapEntries, Relink, AlterRecord, Renumber, Edited
<1>4. CASE LoadLog
  BY <1>4 DEF LoadLog, WalkInv
<1>5. CASE \E H \in SUBSET (LedgerHeads \union ExtraHeads) : LoadHeads(H)
  BY <1>5 DEF LoadHeads
<1>6. CASE CheckEntry
  BY <1>6 DEF CheckEntry
<1>7. CASE EndChain \/ Conclude \/ \E h \in todo : CheckHead(h)
  BY <1>7 DEF EndChain, Conclude, CheckHead
<1>8. CASE UNCHANGED vars
  BY <1>8 DEF vars
<1>9. QED
  BY <1>1, <1>2, <1>3, <1>4, <1>5, <1>6, <1>7, <1>8 DEF Next, Writer, Checker

\* What appending does to the ledger.
LEMMA Appended ==
  ASSUME TypeOK, NEW r \in Record, AppendEntry(r)
  PROVE  /\ Len(ledger') = Len(ledger) + 1
         /\ \A n \in 1..Len(ledger) : ledger'[n] = ledger[n]
         /\ ledger'[Len(ledger) + 1] = Chained(Len(ledger) + 1, r, Tip)
         /\ Len(ledger) \in Nat
<1>1. Chained(Len(ledger) + 1, r, Tip) \in Entry
  BY TipType, ChainedType, LenProperties DEF AppendEntry, TypeOK
<1>2. QED BY <1>1, AppendProperties, LenProperties DEF AppendEntry, TypeOK

\* The ledger stays numbered and chained.
LEMMA LedgerStep ==
  ASSUME TypeOK, LedgerInv, WalkInv, [Next]_vars
  PROVE  LedgerInv'
<1>1. CASE UNCHANGED ledger
  BY <1>1 DEF LedgerInv
<1>2. ASSUME NEW r \in Record, AppendEntry(r) PROVE LedgerInv'
  <2> DEFINE L == Len(ledger)
  <2>1. SUFFICES ASSUME NEW n \in 1..(L + 1)
                 PROVE  /\ ledger'[n].entry = n
                        /\ ledger'[n].content_hash = content_hash(ledger'[n].record)
                        /\ ledger'[n].head_hash =
                             head_hash(ledger'[n].content_hash,
                                       ledger'[n].prev_head_hash)
                        /\ ledger'[n].prev_head_hash =
                             IF n = 1 THEN Genesis ELSE ledger'[n - 1].head_hash
    BY <1>2, Appended DEF LedgerInv
  <2>2. CASE n \in 1..L
    <3>1. ledger'[n] = ledger[n]
      BY <1>2, <2>2, Appended
    <3>2. n # 1 => ledger'[n - 1] = ledger[n - 1]
      BY <1>2, <2>2, Appended
    <3>3. QED BY <2>2, <3>1, <3>2 DEF LedgerInv
  <2>3. CASE n = L + 1
    <3>1. ledger'[n] = Chained(n, r, Tip)
      BY <1>2, <2>3, Appended
    <3>2. Tip = IF n = 1 THEN Genesis ELSE ledger'[n - 1].head_hash
      <4>1. CASE ledger = <<>>
        BY <2>3, <4>1, EmptySeq DEF Tip
      <4>2. CASE ledger # <<>>
        <5>1. L \in 1..L
          BY <4>2, EmptySeq DEF TypeOK
        <5>2. ledger'[n - 1] = ledger[L] /\ n # 1
          BY <1>2, <2>3, <5>1, Appended
        <5>3. QED BY <4>2, <5>2 DEF Tip
      <4>3. QED BY <4>1, <4>2
    <3>3. QED BY <3>1, <3>2 DEF Chained
  <2>4. QED BY <1>2, <2>2, <2>3, Appended
<1>3. QED BY <1>1, <1>2, StepFrame DEF CheckEntry

-----------------------------------------------------------------------------
(* Two chains that share a head *)

\* An entry's two hashes recompute from its own fields.
Recomputes(e) ==
  /\ e.content_hash = content_hash(e.record)
  /\ e.head_hash = head_hash(e.content_hash, e.prev_head_hash)

\* Entries that share their head hash share all that it hashes.
LEMMA SharedHead ==
  ASSUME NEW e, NEW f, Recomputes(e), Recomputes(f), e.head_hash = f.head_hash
  PROVE  /\ e.record = f.record
         /\ e.content_hash = f.content_hash
         /\ e.prev_head_hash = f.prev_head_hash
<1>1. head_hash(e.content_hash, e.prev_head_hash)
        = head_hash(f.content_hash, f.prev_head_hash)
  BY DEF Recomputes
<1>2. e.content_hash = f.content_hash /\ e.prev_head_hash = f.prev_head_hash
  BY <1>1, HeadHashInjective
<1>3. content_hash(e.record) = content_hash(f.record)
  BY <1>2 DEF Recomputes
<1>4. QED BY <1>2, <1>3, ContentHashInjective

\* Heads of a chain are not Genesis.
LEMMA HeadNotGenesis ==
  ASSUME NEW e \in Entry, Recomputes(e)
  PROVE  e.head_hash # Genesis
BY HashAssumption DEF Recomputes, Entry

Alike(e, f) ==
  /\ e.record = f.record
  /\ e.content_hash = f.content_hash
  /\ e.prev_head_hash = f.prev_head_hash
  /\ e.head_hash = f.head_hash

\* One step of the argument: logs E and L share a head at i and n, and where
\* they share one at i - 1 and n - 1 they are alike from there back. Then they
\* are alike from i and n back; L cannot end (at Genesis) before E does.
LEMMA ShareBack ==
  ASSUME NEW E \in Seq(Entry), NEW L \in Seq(Entry),
         NEW i \in 1..Len(E), NEW n \in 1..Len(L),
         \A j \in 1..i : /\ Recomputes(E[j])
                         /\ j > 1 => E[j].prev_head_hash = E[j - 1].head_hash,
         Recomputes(L[n]),
         L[n].prev_head_hash = IF n = 1 THEN Genesis ELSE L[n - 1].head_hash,
         E[i].head_hash = L[n].head_hash,
         i > 1 /\ n > 1 /\ E[i - 1].head_hash = L[n - 1].head_hash =>
           /\ i - 1 <= n - 1
           /\ \A d \in 0..(i - 2) : Alike(E[i - 1 - d], L[n - 1 - d])
  PROVE  /\ i <= n
         /\ \A d \in 0..(i - 1) : Alike(E[i - d], L[n - d])
<1>1. Alike(E[i], L[n])
  BY SharedHead DEF Alike
<1>2. CASE i = 1
  BY <1>1, <1>2
<1>3. CASE i > 1
  <2>1. E[i - 1].head_hash = L[n].prev_head_hash
    BY <1>1, <1>3 DEF Alike
  <2>2. i - 1 \in 1..Len(E) /\ i - 1 \in 1..i
    BY <1>3
  <2>3. E[i - 1].head_hash # Genesis
    BY <2>2, HeadNotGenesis, ElementOfSeq
  <2>4. n > 1
    BY <2>1, <2>3
  <2>5. E[i - 1].head_hash = L[n - 1].head_hash
    BY <2>1, <2>4
  <2>6. /\ i - 1 <= n - 1
        /\ \A d \in 0..(i - 2) : Alike(E[i - 1 - d], L[n - 1 - d])
    BY <1>3, <2>4, <2>5
  <2>7. ASSUME NEW d \in 0..(i - 1) PROVE Alike(E[i - d], L[n - d])
    <3>1. CASE d = 0
      BY <1>1, <3>1
    <3>2. CASE d # 0
      <4>1. d - 1 \in 0..(i - 2)
        BY <3>2
      <4>2. Alike(E[i - 1 - (d - 1)], L[n - 1 - (d - 1)])
        BY <2>6, <4>1
      <4>3. i - 1 - (d - 1) = i - d /\ n - 1 - (d - 1) = n - d
        OBVIOUS
      <4>4. QED BY <4>2, <4>3
    <3>3. QED BY <3>1, <3>2
  <2>8. QED BY <2>6, <2>7
<1>4. QED BY <1>2, <1>3

\* A shared head keeps meaning a shared past, whether the ledger grows or
\* the first loop moves on.
LEMMA MatchStep ==
  ASSUME TypeOK, TypeOK', LedgerInv, LedgerInv', MatchInv, WalkInv, [Next]_vars
  PROVE  MatchInv'
<1>1. CASE UNCHANGED <<ledger, entries, pos>>
  <2>1. ASSUME NEW k PROVE LinkedUpTo(k)' <=> LinkedUpTo(k)
    BY <1>1 DEF LinkedUpTo, LinkedAt
  <2>2. ASSUME NEW i, NEW n PROVE SameButNumber(i, n)' <=> SameButNumber(i, n)
    BY <1>1 DEF SameButNumber
  <2>3. QED BY <1>1, <2>1, <2>2 DEF MatchInv
<1>2. CASE pos' = 1
  <2>1. \A i \in 1..(pos' - 1) : FALSE
    BY <1>2
  <2>2. QED BY <2>1 DEF MatchInv
<1>3. ASSUME /\ entries' = entries
             /\ \A n \in 1..Len(ledger) : ledger'[n] = ledger[n]
             /\ Len(ledger') >= Len(ledger),
             NEW i \in 1..Len(entries), NEW n \in Nat, n \in 1..Len(ledger'),
             LinkedUpTo(i), entries[i].head_hash = ledger'[n].head_hash,
             i > 1 /\ n > 1 => i - 1 \in 1..(pos - 1) /\ n - 1 \in 1..Len(ledger)
      PROVE  /\ i <= n
             /\ \A d \in 0..(i - 1) : SameButNumber(i - d, n - d)'
  <2> DEFINE E == entries
             L == ledger'
  <2>1. i \in 1..Len(E)
    OBVIOUS
  <2>2. \A j \in 1..i : /\ Recomputes(E[j])
                        /\ j > 1 => E[j].prev_head_hash = E[j - 1].head_hash
    BY <1>3 DEF LinkedUpTo, LinkedAt, Recomputes
  <2>3. /\ Recomputes(L[n])
        /\ L[n].prev_head_hash = IF n = 1 THEN Genesis ELSE L[n - 1].head_hash
    BY <1>3 DEF LedgerInv, Recomputes
  <2>4. ASSUME i > 1, n > 1, E[i - 1].head_hash = L[n - 1].head_hash
        PROVE  /\ i - 1 <= n - 1
               /\ \A d \in 0..(i - 2) : Alike(E[i - 1 - d], L[n - 1 - d])
    <3>1. i - 1 \in 1..(pos - 1) /\ n - 1 \in 1..Len(ledger)
      BY <1>3, <2>4
    <3>2. L[n - 1] = ledger[n - 1]
      BY <1>3, <3>1
    <3>3. LinkedUpTo(i - 1)
      BY <1>3 DEF LinkedUpTo
    <3>4. /\ i - 1 <= n - 1
          /\ \A d \in 0..((i - 1) - 1) : SameButNumber((i - 1) - d, (n - 1) - d)
      BY <2>4, <3>1, <3>2, <3>3 DEF MatchInv
    <3>5. ASSUME NEW d \in 0..(i - 2)
          PROVE  Alike(E[i - 1 - d], L[n - 1 - d])
      <4>1. SameButNumber((i - 1) - d, (n - 1) - d)
        BY <3>4
      <4>2. (n - 1) - d \in 1..Len(ledger)
        BY <3>1, <3>4
      <4>3. QED BY <1>3, <4>1, <4>2 DEF SameButNumber, Alike
    <3>6. QED BY <3>4, <3>5
  <2>5. E \in Seq(Entry) /\ L \in Seq(Entry)
    BY DEF TypeOK
  <2>6. E[i].head_hash = L[n].head_hash
    BY <1>3
  <2> HIDE DEF E, L
  <2>7. /\ i <= n
        /\ \A d \in 0..(i - 1) : Alike(E[i - d], L[n - d])
    <3>1. n \in 1..Len(L)
      BY <1>3 DEF L
    <3>2. QED
      BY <2>1, <2>2, <2>3, <2>4, <2>5, <2>6, <3>1, ShareBack
  <2>8. QED BY <1>3, <2>7 DEF Alike, SameButNumber, E, L
<1>4. ASSUME NEW r \in Record, AppendEntry(r), UNCHANGED <<entries, pos>>
      PROVE  MatchInv'
  <2>1. /\ Len(ledger') = Len(ledger) + 1
        /\ \A n \in 1..Len(ledger) : ledger'[n] = ledger[n]
        /\ Len(ledger) \in Nat
    BY <1>4, Appended
  <2>2. Len(entries) \in Nat /\ pos \in Nat /\ pos' - 1 = pos - 1 /\ pos - 1 <= Len(entries)
    BY <1>4, LenProperties DEF WalkInv, TypeOK
  <2>3. SUFFICES ASSUME NEW i \in 1..(pos' - 1), NEW n \in 1..Len(ledger'),
                        LinkedUpTo(i)',
                        entries'[i].head_hash = ledger'[n].head_hash
                 PROVE  /\ i <= n
                        /\ \A d \in 0..(i - 1) : SameButNumber(i - d, n - d)'
    BY DEF MatchInv
  <2>a. i \in 1..(pos - 1)
    BY <2>2
  <2>b. n \in Nat /\ n \in 1..Len(ledger')
    BY <2>1
  <2>4. LinkedUpTo(i)
    BY <1>4, <2>3 DEF LinkedUpTo, LinkedAt
  <2>5. i > 1 /\ n > 1 => i - 1 \in 1..(pos - 1) /\ n - 1 \in 1..Len(ledger)
    BY <1>4, <2>1, <2>2, <2>a, <2>b
  <2>6. i \in 1..Len(entries)
    BY <2>2, <2>a
  <2>7. /\ entries' = entries
        /\ Len(ledger') >= Len(ledger)
        /\ \A m \in 1..Len(ledger) : ledger'[m] = ledger[m]
        /\ entries[i].head_hash = ledger'[n].head_hash
    BY <1>4, <2>1, <2>3
  <2>8. QED BY <1>3, <2>3, <2>b, <2>4, <2>5, <2>6, <2>7
<1>5. ASSUME CheckEntry, UNCHANGED <<ledger, entries>>
      PROVE  MatchInv'
  <2>1. Len(ledger) \in Nat /\ Len(ledger') = Len(ledger)
    BY <1>5, LenProperties DEF TypeOK
  <2>2. Len(entries) \in Nat /\ pos \in Nat /\ pos' - 1 = pos /\ pos <= Len(entries)
    BY <1>5, LenProperties DEF WalkInv, TypeOK, CheckEntry
  <2>3. SUFFICES ASSUME NEW i \in 1..(pos' - 1), NEW n \in 1..Len(ledger'),
                        LinkedUpTo(i)',
                        entries'[i].head_hash = ledger'[n].head_hash
                 PROVE  /\ i <= n
                        /\ \A d \in 0..(i - 1) : SameButNumber(i - d, n - d)'
    BY DEF MatchInv
  <2>a. i \in 1..(pos)
    BY <2>2
  <2>b. n \in Nat /\ n \in 1..Len(ledger')
    BY <2>1
  <2>4. LinkedUpTo(i)
    BY <1>5, <2>3 DEF LinkedUpTo, LinkedAt
  <2>5. i > 1 /\ n > 1 => i - 1 \in 1..(pos - 1) /\ n - 1 \in 1..Len(ledger)
    BY <1>5, <2>1, <2>2, <2>a, <2>b
  <2>6. i \in 1..Len(entries)
    BY <2>2, <2>a
  <2>7. /\ entries' = entries
        /\ Len(ledger') >= Len(ledger)
        /\ \A m \in 1..Len(ledger) : ledger'[m] = ledger[m]
        /\ entries[i].head_hash = ledger'[n].head_hash
    BY <1>5, <2>1, <2>3
  <2>8. QED BY <1>3, <2>3, <2>b, <2>4, <2>5, <2>6, <2>7
<1>6. QED BY <1>1, <1>2, <1>4, <1>5, StepFrame

\* Numbers of linked entries go up by one from the first.
LEMMA NumberStep ==
  ASSUME TypeOK, TypeOK', NumberInv, WalkInv, [Next]_vars
  PROVE  NumberInv'
<1>1. CASE UNCHANGED <<entries, pos>>
  <2>1. ASSUME NEW k PROVE LinkedUpTo(k)' <=> LinkedUpTo(k)
    BY <1>1 DEF LinkedUpTo, LinkedAt
  <2>2. QED BY <1>1, <2>1 DEF NumberInv, first
<1>2. CASE pos' = 1
  <2>1. \A i \in 1..(pos' - 1) : FALSE
    BY <1>2
  <2>2. QED BY <2>1 DEF NumberInv
<1>3. ASSUME CheckEntry, UNCHANGED entries PROVE NumberInv'
  <2>1. pos' - 1 = pos /\ pos \in 1..Len(entries)
    BY <1>3, LenProperties DEF CheckEntry, TypeOK
  <2>2. SUFFICES ASSUME NEW i \in 1..pos, LinkedUpTo(i)
                 PROVE  entries[i].entry = first + i - 1
    BY <1>3, <2>1 DEF NumberInv, LinkedUpTo, LinkedAt, first
  <2>3. CASE i = 1
    <3>1. entries[1].entry \in Nat
      BY <2>1, EntryFields DEF TypeOK
    <3>2. QED BY <2>3, <3>1 DEF first
  <2>4. CASE i > 1
    <3>1. i - 1 \in 1..(pos - 1) /\ LinkedUpTo(i - 1)
      BY <2>1, <2>2, <2>4 DEF LinkedUpTo
    <3>2. entries[i - 1].entry = first + (i - 1) - 1
      BY <3>1 DEF NumberInv
    <3>3. entries[i].entry = entries[i - 1].entry + 1
      BY <2>2, <2>4 DEF LinkedUpTo, LinkedAt
    <3>4. first \in Nat
      BY <2>1, EntryFields DEF TypeOK, first
    <3>5. QED BY <3>2, <3>3, <3>4
  <2>5. QED BY <2>3, <2>4
<1>4. QED BY <1>1, <1>2, <1>3, StepFrame

-----------------------------------------------------------------------------
(* The loops *)

\* A linked log numbers its entries first, first + 1, ..., last.
LEMMA Numbered ==
  ASSUME TypeOK, NumberInv, WellChained, entries # <<>>, pos = Len(entries) + 1
  PROVE  /\ Len(entries) \in Nat \ {0}
         /\ first \in Nat
         /\ last = first + Len(entries) - 1
         /\ \A i \in 1..Len(entries) : entries[i].entry = first + i - 1
<1>1. Len(entries) \in Nat \ {0}
  BY EmptySeq DEF TypeOK
<1>2. first \in Nat
  BY <1>1, EntryFields DEF TypeOK, first
<1>3. \A i \in 1..Len(entries) : entries[i].entry = first + i - 1
  BY <1>1 DEF NumberInv, LinkedUpTo, WellChained
<1>4. QED BY <1>1, <1>2, <1>3 DEF last

\* The first loop finds nothing wrong with an entry exactly when it is linked.
LEMMA NoReasonIffLinked ==
  ASSUME TypeOK, NEW i \in 1..Len(entries),
         prev = IF i = 1 THEN entries[1].prev_head_hash
                         ELSE entries[i - 1].head_hash
  PROVE  EntryReasons(i) = {} <=> LinkedAt(i)
<1> DEFINE e == entries[i]
           A == i > 1 /\ e.entry # entries[i - 1].entry + 1
           B == content_hash(e.record) # e.content_hash
           C == e.prev_head_hash # prev
           D == head_hash(e.content_hash, e.prev_head_hash) # e.head_hash
<1>1. "not_consecutive" \in EntryReasons(i) <=> A
  BY DEF EntryReasons, ChainReasons
<1>2. "content_hash" \in EntryReasons(i) <=> B
  BY DEF EntryReasons, ChainReasons
<1>3. "link" \in EntryReasons(i) <=> C
  BY DEF EntryReasons, ChainReasons
<1>4. "head_hash" \in EntryReasons(i) <=> D
  BY DEF EntryReasons, ChainReasons
<1>5. EntryReasons(i) \subseteq {"not_consecutive", "content_hash", "link", "head_hash"}
  BY DEF EntryReasons, ChainReasons
<1>6. EntryReasons(i) = {} <=> ~A /\ ~B /\ ~C /\ ~D
  BY <1>1, <1>2, <1>3, <1>4, <1>5
<1>7. C <=> i > 1 /\ e.prev_head_hash # entries[i - 1].head_hash
  OBVIOUS
<1>8. QED BY <1>6, <1>7 DEF LinkedAt

\* The second loop notes a contradiction exactly for the heads that contradict,
\* and that it cannot compare exactly the heads that precede the log.
LEMMA ReasonIffContradicts ==
  ASSUME TypeOK, NumberInv, WellChained, entries # <<>>,
         pos = Len(entries) + 1, NEW h \in ExternalHead
  PROVE  /\ HeadReason(h) \cap Contradictions # {} <=> Contradicts(h)
         /\ "cannot_compare" \in HeadReason(h) <=> Precedes(h)
<1>1. /\ Len(entries) \in Nat \ {0}
      /\ first \in Nat
      /\ last = first + Len(entries) - 1
      /\ \A i \in 1..Len(entries) : entries[i].entry = first + i - 1
  BY Numbered
<1>2. h.entry \in Nat
  BY DEF ExternalHead
<1>9. InLog(h.entry) <=> h.entry \in first..last
  <2>1. ASSUME h.entry \in first..last PROVE InLog(h.entry)
    <3>1. /\ h.entry - first + 1 \in 1..Len(entries)
          /\ h.entry = first + (h.entry - first + 1) - 1
      BY <1>1, <1>2, <2>1
    <3>2. QED BY <1>1, <3>1 DEF InLog
  <2>2. ASSUME InLog(h.entry) PROVE h.entry \in first..last
    BY <1>1, <1>2, <2>2 DEF InLog
  <2>3. QED BY <2>1, <2>2
<1>10. last \in Nat /\ last >= first
  BY <1>1
<1>3. CASE h.entry > last
  <2>1. HeadReason(h) = {"truncated"}
    BY <1>3 DEF HeadReason
  <2>2. Contradicts(h) /\ ~Precedes(h)
    BY <1>1, <1>2, <1>3, <1>10 DEF Contradicts, Precedes
  <2>3. QED BY <2>1, <2>2 DEF Contradictions
<1>4. CASE ~(h.entry > last) /\ InLog(h.entry) /\ ~ByEntry(h.entry, h.head_hash)
  <2>1. HeadReason(h) = {"equivocation"}
    BY <1>4 DEF HeadReason
  <2>2. Contradicts(h) /\ ~Precedes(h)
    BY <1>1, <1>2, <1>4, <1>9 DEF Contradicts, InLog, ByEntry, Precedes
  <2>3. QED BY <2>1, <2>2 DEF Contradictions
<1>5. CASE ~(h.entry > last) /\ InLog(h.entry) /\ ByEntry(h.entry, h.head_hash)
  <2>1. h.entry # first - 1
    BY <1>1, <1>5 DEF InLog
  <2>2. HeadReason(h) = {}
    BY <1>5, <2>1 DEF HeadReason
  <2>3. PICK k \in 1..Len(entries) : entries[k].entry = h.entry
                                     /\ entries[k].head_hash = h.head_hash
    BY <1>5 DEF ByEntry
  <2>4. \A i \in 1..Len(entries) : entries[i].entry = h.entry => i = k
    BY <1>1, <2>3
  <2>5. ~Contradicts(h)
    BY <1>5, <2>1, <2>3, <2>4 DEF Contradicts
  <2>6. ~Precedes(h)
    BY <1>1, <1>2, <1>5, <1>9 DEF Precedes
  <2>7. QED BY <2>2, <2>5, <2>6
<1>6. CASE ~(h.entry > last) /\ ~InLog(h.entry) /\ h.entry = first - 1
  <2>1. HeadReason(h) = IF Attaches(h) THEN {} ELSE {"unattached"}
    BY <1>6 DEF HeadReason
  <2>2. Contradicts(h) <=> ~Attaches(h)
    BY <1>6 DEF Contradicts, Attaches, InLog
  <2>3. ~Precedes(h)
    BY <1>1, <1>2, <1>6 DEF Precedes
  <2>4. QED BY <2>1, <2>2, <2>3 DEF Contradictions
<1>7. CASE ~(h.entry > last) /\ ~InLog(h.entry) /\ h.entry # first - 1
  <2>1. HeadReason(h) = {"cannot_compare"}
    BY <1>7 DEF HeadReason
  <2>2. ~Contradicts(h)
    BY <1>7 DEF Contradicts, InLog
  <2>3. Precedes(h)
    BY <1>1, <1>2, <1>7, <1>9, <1>10 DEF Precedes
  <2>4. QED BY <2>1, <2>2, <2>3 DEF Contradictions
<1>8. QED BY <1>3, <1>4, <1>5, <1>6, <1>7

\* The verdict depends on the loaded log and heads only.
LEMMA VerdictFrame ==
  ASSUME UNCHANGED <<entries, supplied>>
  PROVE  /\ ReferenceVerdict' = ReferenceVerdict
         /\ WellChained' <=> WellChained
         /\ \A h : Attaches(h)' <=> Attaches(h)
         /\ \A h : Contradicts(h)' <=> Contradicts(h)
         /\ \A h : Precedes(h)' <=> Precedes(h)
         /\ \A k : LinkedUpTo(k)' <=> LinkedUpTo(k)
<1> USE DEF LinkedAt, first, last
<1>1. WellChained' <=> WellChained
  BY DEF WellChained
<1>2. \A h : Attaches(h)' <=> Attaches(h)
  BY DEF Attaches
<1>3. \A h : Contradicts(h)' <=> Contradicts(h)
  BY DEF Contradicts
<1>4. \A k : LinkedUpTo(k)' <=> LinkedUpTo(k)
  BY DEF LinkedUpTo
<1>5. \A n : InLog(n)' <=> InLog(n)
  BY DEF InLog
<1>6. ReferenceVerdict' = ReferenceVerdict
  BY <1>1, <1>3, <1>5 DEF ReferenceVerdict
<1>7. \A h : Precedes(h)' <=> Precedes(h)
  BY DEF Precedes
<1>8. QED BY <1>1, <1>2, <1>3, <1>4, <1>6, <1>7

\* Every step of check() keeps what the loops have established.
LEMMA WalkStep ==
  ASSUME IInv, TypeOK', [Next]_vars
  PROVE  WalkInv'
<1>0. TypeOK /\ NumberInv /\ WalkInv
  BY DEF IInv
<1> USE DEF ledgerVars, checkVars
<1>1. CASE UNCHANGED checkVars
  BY <1>0, <1>1, VerdictFrame DEF WalkInv
<1>2. CASE LoadLog
  <2>1. pc' = "loaded" /\ pos' = 1 /\ result' = None
    BY <1>0, <1>2 DEF LoadLog, WalkInv
  <2>2. Len(entries') \in Nat
    BY LenProperties DEF TypeOK
  <2>3. QED BY <2>1, <2>2 DEF WalkInv
<1>3. ASSUME NEW H \in SUBSET (LedgerHeads \union ExtraHeads), LoadHeads(H)
      PROVE  WalkInv'
  <2>1. /\ supplied' = H /\ todo' = H /\ pos' = 1 /\ why' = {}
        /\ entries' = entries
    BY <1>3 DEF LoadHeads
  <2>2. ~anchored'
    BY <1>3 DEF LoadHeads
  <2>3. Len(entries') \in Nat
    BY LenProperties DEF TypeOK
  <2>4. CASE entries = <<>>
    <3>1. pc' = "done" /\ result' = CANNOT
      BY <1>3, <2>4 DEF LoadHeads
    <3>2. ReferenceVerdict' = CANNOT
      BY <2>1, <2>4 DEF ReferenceVerdict
    <3>3. QED BY <2>1, <2>3, <2>4, <3>1, <3>2 DEF WalkInv, PASS, CANNOT
  <2>5. CASE entries # <<>>
    <3>1. pc' = "chain" /\ result' = None /\ prev' = entries[1].prev_head_hash
      BY <1>3, <2>5 DEF LoadHeads
    <3>2. LinkedUpTo(pos - 1)'
      BY <2>1 DEF LinkedUpTo
    <3>3. QED BY <2>1, <2>2, <2>3, <2>5, <3>1, <3>2 DEF WalkInv
  <2>6. QED BY <2>4, <2>5
<1>4. CASE CheckEntry
  <2>1. /\ pc = "chain" /\ pc' = "chain" /\ pos \in 1..Len(entries)
        /\ pos' = pos + 1 /\ Len(entries) \in Nat
        /\ why' = why \union EntryReasons(pos)
        /\ prev' = entries[pos].head_hash
        /\ UNCHANGED <<entries, supplied, todo, result>>
    BY <1>0, <1>4, LenProperties DEF CheckEntry, TypeOK
  <2>2. ~anchored'
    BY <1>0, <1>4, <2>1 DEF CheckEntry, WalkInv
  <2>3. EntryReasons(pos) = {} <=> LinkedAt(pos)
    BY <1>0, <2>1, NoReasonIffLinked DEF WalkInv
  <2>4. LinkedUpTo(pos) <=> LinkedUpTo(pos - 1) /\ LinkedAt(pos)
    BY <2>1 DEF LinkedUpTo
  <2>5. why' = {} <=> LinkedUpTo(pos)
    BY <1>0, <2>1, <2>3, <2>4 DEF WalkInv
  <2>7. pos' - 1 = pos
    BY <2>1
  <2>8. LinkedUpTo(pos - 1)' <=> LinkedUpTo(pos)
    BY <2>1, <2>7 DEF LinkedUpTo, LinkedAt
  <2>9. /\ pos' <= Len(entries') + 1 /\ pos' # 1
        /\ prev' = entries'[pos' - 1].head_hash
    BY <2>1, <2>7
  <2>10. entries' # <<>> /\ result' = None /\ todo' = supplied'
    BY <1>0, <2>1 DEF WalkInv
  <2>11. QED BY <2>1, <2>2, <2>5, <2>8, <2>9, <2>10 DEF WalkInv
<1>5. CASE EndChain
  <2>1. /\ pc = "chain" /\ Len(entries) \in Nat /\ pos = Len(entries) + 1
        /\ entries # <<>> /\ todo = supplied /\ result = None
        /\ UNCHANGED <<entries, supplied, pos, todo, why>>
    BY <1>0, <1>5, LenProperties DEF EndChain, TypeOK, WalkInv
  <2>2. ~anchored'
    BY <1>0, <1>5, <2>1 DEF EndChain, WalkInv
  <2>3. why = {} <=> WellChained
    <3>1. pos - 1 = Len(entries)
      BY <2>1
    <3>2. QED BY <1>0, <2>1, <3>1 DEF WalkInv, LinkedUpTo, WellChained
  <2>4. CASE why # {}
    <3>1. pc' = "done" /\ result' = FAIL
      BY <1>5, <2>4 DEF EndChain
    <3>2. ReferenceVerdict = FAIL
      BY <2>1, <2>3, <2>4 DEF ReferenceVerdict
    <3>3. ReferenceVerdict' = FAIL
      BY <2>1, <3>2, VerdictFrame
    <3>4. QED BY <2>1, <3>1, <3>3 DEF WalkInv, FAIL, PASS
  <2>5. CASE why = {}
    <3>1. pc' = "heads" /\ result' = None
      BY <1>5, <2>1, <2>5 DEF EndChain
    <3>2. WellChained'
      BY <2>1, <2>3, <2>5, VerdictFrame
    <3>3. supplied' \ todo' = {}
      BY <2>1
    <3>4. why' \cap Contradictions = {} /\ "cannot_compare" \notin why'
      BY <2>1, <2>5
    <3>5. QED BY <2>1, <2>2, <3>1, <3>2, <3>3, <3>4 DEF WalkInv
  <2>6. QED BY <2>4, <2>5
<1>6. ASSUME NEW h \in todo, CheckHead(h) PROVE WalkInv'
  <2>1. /\ pc = "heads" /\ pc' = "heads" /\ todo' = todo \ {h}
        /\ why' = why \union HeadReason(h)
        /\ UNCHANGED <<entries, supplied, pos, result>>
    BY <1>6 DEF CheckHead
  <2>2. /\ entries # <<>> /\ result = None /\ pos = Len(entries) + 1
        /\ WellChained /\ todo \subseteq supplied
        /\ why \cap Contradictions # {} <=>
             \E g \in supplied \ todo : Contradicts(g)
    BY <1>0, <2>1 DEF WalkInv
  <2>3. h \in ExternalHead
    BY <1>0 DEF TypeOK
  <2>4. /\ HeadReason(h) \cap Contradictions # {} <=> Contradicts(h)
        /\ "cannot_compare" \in HeadReason(h) <=> Precedes(h)
    BY <1>0, <2>2, <2>3, ReasonIffContradicts
  <2>5. supplied' \ todo' = (supplied \ todo) \union {h}
    BY <2>1, <2>2
  <2>6. why' \cap Contradictions # {} <=>
          \E g \in supplied' \ todo' : Contradicts(g)
    BY <2>1, <2>2, <2>4, <2>5
  <2>7. anchored' <=> \E g \in supplied' \ todo' : Attaches(g)
    <3>1. anchored <=> \E g \in supplied \ todo : Attaches(g)
      BY <1>0, <2>1 DEF WalkInv
    <3>2. anchored' <=> anchored \/ Attaches(h)
      BY <1>6 DEF CheckHead
    <3>3. QED BY <2>5, <3>1, <3>2
  <2>8. WellChained' /\ (\A g : Contradicts(g)' <=> Contradicts(g))
        /\ (\A g : Attaches(g)' <=> Attaches(g))
        /\ (\A g : Precedes(g)' <=> Precedes(g))
    BY <2>1, <2>2, VerdictFrame
  <2>9. anchored' <=> \E g \in supplied' \ todo' : Attaches(g)'
    BY <2>7, <2>8
  <2>10. why' \cap Contradictions # {} <=>
           \E g \in supplied' \ todo' : Contradicts(g)'
    BY <2>6, <2>8
  <2>11. /\ entries' # <<>> /\ result' = None /\ pos' = Len(entries') + 1
         /\ todo' \subseteq supplied' /\ pos' <= Len(entries') + 1
    BY <1>0, <2>1, <2>2, LenProperties DEF TypeOK
  <2>13. "cannot_compare" \in why' <=>
           \E g \in supplied' \ todo' : Precedes(g)'
    <3>1. "cannot_compare" \in why <=> \E g \in supplied \ todo : Precedes(g)
      BY <1>0, <2>1 DEF WalkInv
    <3>2. "cannot_compare" \in why' <=>
            \E g \in supplied' \ todo' : Precedes(g)
      BY <2>1, <2>4, <2>5, <3>1
    <3>3. QED BY <2>8, <3>2
  <2>12. QED BY <2>1, <2>8, <2>9, <2>10, <2>11, <2>13 DEF WalkInv
<1>7. CASE Conclude
  <2>1. /\ pc = "heads" /\ pc' = "done" /\ todo = {}
        /\ UNCHANGED <<entries, supplied, pos, anchored, why>>
        /\ result' = IF why \cap Contradictions # {} THEN FAIL
                     ELSE IF Comparable = {} THEN CANNOT ELSE PASS
    BY <1>7 DEF Conclude
  <2>2. /\ entries # <<>> /\ pos = Len(entries) + 1 /\ WellChained
        /\ why \cap Contradictions # {} <=> \E g \in supplied : Contradicts(g)
    BY <1>0, <2>1 DEF WalkInv
  <2>3. anchored <=> \E g \in supplied : Attaches(g)
    BY <1>0, <2>1 DEF WalkInv
  <2>4. result' = ReferenceVerdict
    BY <2>1, <2>2 DEF ReferenceVerdict, Comparable
  <2>5. result' = ReferenceVerdict'
    BY <2>1, <2>4, VerdictFrame
  <2>6. anchored' <=> \E g \in supplied' : Attaches(g)'
    BY <2>1, <2>3, VerdictFrame
  <2>7. pos' = Len(entries') + 1 /\ pos' <= Len(entries') + 1
    BY <1>0, <2>1, <2>2, LenProperties DEF TypeOK
  <2>8. "cannot_compare" \in why' <=> \E g \in supplied' : Precedes(g)'
    <3>1. "cannot_compare" \in why <=> \E g \in supplied : Precedes(g)
      BY <1>0, <2>1 DEF WalkInv
    <3>2. QED BY <2>1, <3>1, VerdictFrame
  <2>9. QED BY <2>1, <2>5, <2>6, <2>7, <2>8 DEF WalkInv
<1>8. CASE Writer
  <2>1. UNCHANGED checkVars
    BY <1>8 DEF Writer, AppendEntry, Export, DropEntry, SwapEntries, AlterRecord,
                Renumber, Relink, Edited
  <2>2. QED BY <1>1, <2>1
<1>9. CASE UNCHANGED vars
  BY <1>1, <1>9 DEF vars
<1>10. QED
  BY <1>2, <1>3, <1>4, <1>5, <1>6, <1>7, <1>8, <1>9 DEF Next, Checker

-----------------------------------------------------------------------------
(* The theorems *)

\* The invariant is inductive.
THEOREM Invariance == Spec => []IInv
<1>1. Init => IInv
  <2> SUFFICES ASSUME Init PROVE IInv
    OBVIOUS
  <2>1. TypeOK
    BY TypeInit
  <2>2. ledger = <<>> /\ entries = <<>> /\ pos = 1 /\ pc = "idle" /\ result = None
    BY DEF Init
  <2>3. LedgerInv /\ MatchInv /\ NumberInv
    BY <2>2, EmptySeq DEF LedgerInv, MatchInv, NumberInv
  <2>4. WalkInv
    BY <2>2, EmptySeq DEF WalkInv
  <2>5. QED BY <2>1, <2>3, <2>4 DEF IInv
<1>2. IInv /\ [Next]_vars => IInv'
  <2> SUFFICES ASSUME IInv, [Next]_vars PROVE IInv'
    OBVIOUS
  <2>0. TypeOK /\ LedgerInv /\ MatchInv /\ NumberInv /\ WalkInv
    BY DEF IInv
  <2>1. TypeOK'
    BY <2>0, TypeStep
  <2>2. LedgerInv'
    BY <2>0, LedgerStep
  <2>3. MatchInv'
    BY <2>0, <2>1, <2>2, MatchStep
  <2>4. NumberInv'
    BY <2>0, <2>1, NumberStep
  <2>5. WalkInv'
    BY <2>1, WalkStep
  <2>6. QED BY <2>1, <2>2, <2>3, <2>4, <2>5 DEF IInv
<1>3. QED BY <1>1, <1>2, PTL DEF Spec

\* Against a linked log, the heads that contradict it are exactly the ones that
\* do not precede it and that it does not match.
LEMMA ContradictsIffUnmatched ==
  ASSUME TypeOK, NumberInv, WellChained, entries # <<>>,
         pos = Len(entries) + 1, NEW h \in ExternalHead
  PROVE  /\ Contradicts(h) <=> ~Matched(h) /\ ~Precedes(h)
         /\ Precedes(h) => ~Matched(h)
         /\ InLog(h.entry) /\ ~Contradicts(h) <=> ByEntry(h.entry, h.head_hash)
<1>1. /\ Len(entries) \in Nat \ {0}
      /\ first \in Nat
      /\ last = first + Len(entries) - 1
      /\ \A i \in 1..Len(entries) : entries[i].entry = first + i - 1
  BY Numbered
<1>2. h.entry \in Nat
  BY DEF ExternalHead
<1>3. \A i \in 1..Len(entries) : entries[i].entry = h.entry => i = h.entry - first + 1
  BY <1>1, <1>2
<1> DEFINE k == h.entry - first + 1
<1>4. CASE h.entry \in first..last
  <2>1. k \in 1..Len(entries) /\ entries[k].entry = h.entry
    BY <1>1, <1>2, <1>4
  <2>2. ~Attaches(h) /\ ~Precedes(h) /\ ~(h.entry > last) /\ h.entry # first - 1
    BY <1>1, <1>2, <1>4 DEF Attaches, Precedes
  <2> HIDE DEF k
  <2>3. \A i \in 1..Len(entries) : entries[i].entry = h.entry => i = k
    BY <1>3 DEF k
  <2>4. ByEntry(h.entry, h.head_hash) <=> entries[k].head_hash = h.head_hash
    BY <2>1, <2>3 DEF ByEntry
  <2>5. Contradicts(h) <=> entries[k].head_hash # h.head_hash
    BY <2>1, <2>2, <2>3 DEF Contradicts
  <2>6. InLog(h.entry)
    BY <2>1 DEF InLog
  <2>7. QED BY <2>2, <2>4, <2>5, <2>6 DEF Matched
<1>5. CASE h.entry \notin first..last
  <2>1. ~InLog(h.entry) /\ ~ByEntry(h.entry, h.head_hash)
    BY <1>1, <1>2, <1>5 DEF InLog, ByEntry
  <2>2. h.entry > last \/ h.entry < first
    BY <1>1, <1>2, <1>5
  <2>3. \A i \in 1..Len(entries) : entries[i].entry # h.entry
    BY <2>1 DEF InLog
  <2>4. Contradicts(h) <=>
          h.entry > last \/ (h.entry = first - 1 /\ ~Attaches(h))
    BY <2>3 DEF Contradicts, Attaches
  <2>5. Matched(h) <=> Attaches(h)
    BY <2>1 DEF Matched
  <2>6. QED BY <1>1, <1>2, <2>1, <2>2, <2>4, <2>5 DEF Attaches, Precedes
<1>6. QED BY <1>4, <1>5

\* check() returns the documented verdict, in whatever order the heads come; a
\* PASS leaves unmatched only the heads that precede the log, and says so.
THEOREM VerdictCorrect == Spec => []VerdictIsReference
<1>1. IInv => VerdictIsReference
  <2> SUFFICES ASSUME IInv, pc = "done"
               PROVE  /\ result = DocumentedVerdict
                      /\ result = PASS =>
                           /\ \A h \in supplied : Matched(h) \/ Precedes(h)
                           /\ "cannot_compare" \in why <=>
                                \E h \in supplied : ~Matched(h)
                           /\ anchored = (\E h \in supplied : h.entry = first - 1)
    BY DEF VerdictIsReference
  <2>0. TypeOK /\ NumberInv /\ WalkInv
    BY DEF IInv
  <2>1. result = ReferenceVerdict
    BY <2>0 DEF WalkInv
  <2>2. ASSUME entries # <<>>, WellChained, NEW h \in supplied
        PROVE  /\ Contradicts(h) <=> ~Matched(h) /\ ~Precedes(h)
               /\ Precedes(h) => ~Matched(h)
               /\ InLog(h.entry) /\ ~Contradicts(h) <=>
                    ByEntry(h.entry, h.head_hash)
    <3>1. pos = Len(entries) + 1 /\ h \in ExternalHead
      BY <2>0, <2>2 DEF WalkInv, TypeOK
    <3>2. QED BY <2>0, <2>2, <3>1, ContradictsIffUnmatched
  <2>3. ReferenceVerdict = DocumentedVerdict
    <3>1. CASE entries = <<>> \/ ~WellChained
      BY <3>1 DEF ReferenceVerdict, DocumentedVerdict
    <3>2. CASE entries # <<>> /\ WellChained
      <4>1. (\E h \in supplied : Contradicts(h)) <=>
              \E h \in supplied : ~Matched(h) /\ ~Precedes(h)
        BY <2>2, <3>2
      <4>2. ASSUME \A h \in supplied : ~Contradicts(h)
            PROVE  (\E h \in supplied : InLog(h.entry)) <=>
                     \E h \in supplied : ByEntry(h.entry, h.head_hash)
        BY <2>2, <3>2, <4>2
      <4>3. QED BY <3>2, <4>1, <4>2 DEF ReferenceVerdict, DocumentedVerdict
    <3>3. QED BY <3>1, <3>2
  <2>4. ASSUME result = PASS
        PROVE  /\ \A h \in supplied : Matched(h) \/ Precedes(h)
               /\ "cannot_compare" \in why <=> \E h \in supplied : ~Matched(h)
               /\ anchored = (\E h \in supplied : h.entry = first - 1)
    <3>1. anchored <=> \E h \in supplied : Attaches(h)
      BY <2>0, <2>4 DEF WalkInv
    <3>2. /\ entries # <<>> /\ WellChained
          /\ \A h \in supplied : ~Contradicts(h)
      BY <2>1, <2>4 DEF ReferenceVerdict, PASS, FAIL, CANNOT
    <3>3. \A h \in supplied : Attaches(h) <=> h.entry = first - 1
      BY <3>2 DEF Contradicts, Attaches
    <3>4. anchored \in BOOLEAN
      BY <2>0 DEF TypeOK
    <3>5. anchored = (\E h \in supplied : h.entry = first - 1)
      BY <3>1, <3>3, <3>4
    <3>6. \A h \in supplied : Matched(h) <=> ~Precedes(h)
      BY <2>2, <3>2
    <3>7. "cannot_compare" \in why <=> \E h \in supplied : Precedes(h)
      BY <2>0, <2>4 DEF WalkInv
    <3>8. "cannot_compare" \in why <=> \E h \in supplied : ~Matched(h)
      BY <3>6, <3>7
    <3>9. QED BY <3>5, <3>6, <3>8
  <2>5. QED BY <2>1, <2>3, <2>4
<1>2. QED BY <1>1, Invariance, PTL

\* PASS against a head saved off the ledger: up to that head, the log the
\* checker was given is the ledger.
THEOREM PassSound == Spec => []PassMatchesLedger
<1>1. IInv => PassMatchesLedger
  <2> SUFFICES ASSUME IInv, result = PASS, NEW h \in supplied \cap LedgerHeads,
                      h.entry >= first
               PROVE  AgreesUpTo(h.entry)
    BY DEF PassMatchesLedger
  <2>0. TypeOK /\ LedgerInv /\ MatchInv /\ NumberInv /\ WalkInv
    BY DEF IInv
  <2>1. pc = "done"
    BY <2>0 DEF WalkInv, TypeOK, None, PASS
  <2>2. ReferenceVerdict = PASS /\ pos = Len(entries) + 1
    <3>1. ReferenceVerdict = PASS
      BY <2>0, <2>1 DEF WalkInv
    <3>2. entries # <<>>
      BY <3>1 DEF ReferenceVerdict, PASS, CANNOT
    <3>3. QED BY <2>0, <2>1, <3>1, <3>2 DEF WalkInv
  <2>3. entries # <<>> /\ WellChained /\ ~Contradicts(h)
    BY <2>2 DEF ReferenceVerdict, PASS, FAIL, CANNOT
  <2>4. /\ Len(entries) \in Nat \ {0}
        /\ first \in Nat
        /\ last = first + Len(entries) - 1
        /\ \A i \in 1..Len(entries) : entries[i].entry = first + i - 1
    BY <2>0, <2>2, <2>3, Numbered
  <2>5. PICK n \in 1..Len(ledger) :
          h = [entry |-> n, head_hash |-> ledger[n].head_hash]
    BY DEF LedgerHeads
  <2>6. h.entry = n /\ h.head_hash = ledger[n].head_hash /\ n \in Nat
    BY <2>5
  <2> DEFINE i == n - first + 1
  <2>7. i \in 1..Len(entries)
    BY <2>3, <2>4, <2>6 DEF Contradicts
  <2>8. entries[i].entry = n /\ entries[i].head_hash = ledger[n].head_hash
    BY <2>3, <2>4, <2>6, <2>7 DEF Contradicts
  <2>9. LinkedUpTo(i)
    BY <2>3, <2>7 DEF LinkedUpTo, WellChained
  <2>10. /\ i <= n
         /\ \A d \in 0..(i - 1) : SameButNumber(i - d, n - d)
    <3>1. i \in 1..(pos - 1)
      BY <2>2, <2>4, <2>7
    <3> HIDE DEF i
    <3>2. QED BY <2>0, <2>8, <2>9, <3>1 DEF MatchInv
  <2>11. ASSUME NEW m \in first..n
         PROVE  /\ m - first + 1 \in 1..Len(entries)
                /\ entries[m - first + 1] = ledger[m]
    <3> DEFINE d == n - m
    <3>1. d \in 0..(i - 1) /\ i - d = m - first + 1 /\ n - d = m
      BY <2>4, <2>6
    <3>2. m - first + 1 \in 1..Len(entries) /\ m \in 1..Len(ledger)
      BY <2>4, <2>7, <2>10
    <3>3. SameButNumber(m - first + 1, m)
      BY <2>10, <3>1
    <3>4. entries[m - first + 1].entry = ledger[m].entry
      <4>1. entries[m - first + 1].entry = first + (m - first + 1) - 1
        BY <2>4, <3>2
      <4>2. first + (m - first + 1) - 1 = m
        BY <2>4, <3>2
      <4>3. ledger[m].entry = m
        BY <2>0, <3>2 DEF LedgerInv
      <4>4. QED BY <4>1, <4>2, <4>3
    <3>5. entries[m - first + 1] \in Entry /\ ledger[m] \in Entry
      BY <2>0, <3>2, EntryFields DEF TypeOK
    <3>6. QED BY <3>2, <3>3, <3>4, <3>5 DEF SameButNumber, Entry
  <2>12. first >= 1
    BY <2>4, <2>6, <2>10
  <2>13. QED BY <2>6, <2>11, <2>12 DEF AgreesUpTo
<1>2. QED BY <1>1, Invariance, PTL

\* An unedited segment of the ledger, checked against heads no newer than it,
\* is never refused.
THEOREM NoFalseAlarm == Spec => []GenuineNeverFails
<1>1. IInv => GenuineNeverFails
  <2> SUFFICES ASSUME IInv, pc = "done", entries # <<>>,
                      \A i \in 1..Len(entries) :
                        /\ first + i - 1 \in 1..Len(ledger)
                        /\ entries[i] = ledger[first + i - 1],
                      \A h \in supplied : h \in LedgerHeads /\ h.entry <= last
               PROVE  result # FAIL
    BY DEF GenuineNeverFails
  <2>0. TypeOK /\ LedgerInv /\ WalkInv
    BY DEF IInv
  <2>1. Len(entries) \in Nat \ {0} /\ first \in Nat
    <3>1. Len(entries) \in Nat \ {0}
      BY <2>0, EmptySeq DEF TypeOK
    <3>2. QED BY <2>0, <3>1, EntryFields DEF TypeOK, first
  <2>2. \A i \in 1..Len(entries) : entries[i].entry = first + i - 1
    BY <2>0 DEF LedgerInv
  <2>3. WellChained
    <3> SUFFICES ASSUME NEW i \in 1..Len(entries) PROVE LinkedAt(i)
      BY DEF WellChained
    <3>1. entries[i] = ledger[first + i - 1] /\ first + i - 1 \in 1..Len(ledger)
      OBVIOUS
    <3>2. Recomputes(entries[i])
      BY <2>0, <3>1 DEF LedgerInv, Recomputes
    <3>3. ASSUME i > 1
          PROVE  /\ entries[i].entry = entries[i - 1].entry + 1
                 /\ entries[i].prev_head_hash = entries[i - 1].head_hash
      <4>1. i - 1 \in 1..Len(entries)
        BY <2>1, <3>3
      <4>2. entries[i - 1] = ledger[(first + i - 1) - 1]
        BY <2>1, <4>1
      <4>3. first + i - 1 # 1
        BY <2>1, <3>1, <4>1
      <4>4. entries[i].prev_head_hash = entries[i - 1].head_hash
        BY <2>0, <3>1, <4>2, <4>3 DEF LedgerInv
      <4>5. entries[i].entry = first + i - 1
        BY <2>2
      <4>6. entries[i - 1].entry = first + (i - 1) - 1
        BY <2>2, <4>1
      <4>7. QED BY <2>1, <4>4, <4>5, <4>6
    <3>4. QED BY <3>2, <3>3 DEF LinkedAt, Recomputes
  <2>4. ASSUME NEW h \in supplied PROVE ~Contradicts(h)
    <3>1. PICK n \in 1..Len(ledger) :
            h = [entry |-> n, head_hash |-> ledger[n].head_hash]
      BY DEF LedgerHeads
    <3>2. h.entry = n /\ h.head_hash = ledger[n].head_hash /\ n \in Nat /\ n <= last
      BY <3>1
    <3>3. ~(h.entry > last)
      <4>1. last \in Nat
        BY <2>0, <2>1, EntryFields DEF TypeOK, last
      <4>2. QED BY <3>2, <4>1
    <3>4. \A i \in 1..Len(entries) :
            entries[i].entry = h.entry => entries[i].head_hash = h.head_hash
      BY <2>2, <3>2
    <3>5. ASSUME h.entry = first - 1
          PROVE  h.head_hash = entries[1].prev_head_hash
      <4>1. entries[1] = ledger[first] /\ first \in 1..Len(ledger)
        BY <2>1
      <4>2. first # 1 /\ n = first - 1
        BY <2>1, <3>2, <3>5
      <4>3. QED BY <2>0, <3>2, <4>1, <4>2 DEF LedgerInv
    <3>6. QED BY <3>3, <3>4, <3>5 DEF Contradicts
  <2>5. result = ReferenceVerdict
    BY <2>0 DEF WalkInv
  <2>6. QED BY <2>3, <2>4, <2>5 DEF ReferenceVerdict, PASS, FAIL, CANNOT
<1>2. QED BY <1>1, Invariance, PTL

-----------------------------------------------------------------------------
(* The acceptance record *)

\* What an alteration never reaches, tool by tool.
IsAcceptance(c) ==
  /\ c = [f \in DOMAIN Acceptance!Genuine |-> c[f]]
  /\ "iss-1" \in DOMAIN c.jwks /\ c.jwks["iss-1"] = "issuer"

AcceptanceField == {"present", "envelope", "signing", "object", "version", "party", "disposition", "terms",
                    "outcome", "names", "at", "record", "jwks", "complete", "delegation"}

\* The members of an acceptance case, as the vectors of the record are built.
LEMMA AcceptanceFields == DOMAIN Acceptance!Genuine = AcceptanceField
BY DEF Acceptance!Genuine, AcceptanceField

\* The case every vector starts from lists the key of the issuer.
LEMMA GenuineAcceptance == IsAcceptance(Acceptance!Genuine)
<1>1. Acceptance!Genuine.jwks = Acceptance!JWKS
  BY DEF Acceptance!Genuine
<1>2. Acceptance!Genuine = [f \in AcceptanceField |-> Acceptance!Genuine[f]]
  BY DEF Acceptance!Genuine, AcceptanceField
<1>3. QED BY <1>1, <1>2, AcceptanceFields DEF IsAcceptance, Acceptance!JWKS

\* No vector takes the issuer's key from the trust material.
LEMMA VectorKeepsIssuer ==
  ASSUME NEW v \in Acceptance!Vectors \union Acceptance!Other
  PROVE  v.field = "jwks" => "iss-1" \in DOMAIN v.value /\ v.value["iss-1"] = "issuer"
<1>1. \A k : "iss-1" \in DOMAIN Acceptance!Keyed(k) /\ Acceptance!Keyed(k)["iss-1"] = "issuer"
  BY DEF Acceptance!Keyed, Acceptance!JWKS
<1>2. v.field # "jwks" \/ \E k : v.value = Acceptance!Keyed(k)
  BY DEF Acceptance!Vectors, Acceptance!Vector, Acceptance!Other
<1>3. QED BY <1>1, <1>2

\* No vector, however many came before it, takes the issuer's key from the trust
\* material.
LEMMA AlteredAcceptance ==
  ASSUME NEW c, IsAcceptance(c), NEW d \in Acceptance!Edits(c)
  PROVE  IsAcceptance(d)
<1>1. PICK v \in Acceptance!Vectors \union Acceptance!Other : d = [c EXCEPT ![v.field] = v.value]
  BY DEF Acceptance!Edits
<1>2. v.field = "jwks" => "iss-1" \in DOMAIN v.value /\ v.value["iss-1"] = "issuer"
  BY VectorKeepsIssuer
<1>3. c = [f \in AcceptanceField |-> c[f]] /\ "jwks" \in AcceptanceField
  BY AcceptanceFields DEF IsAcceptance, AcceptanceField
<1>4. d = [f \in AcceptanceField |-> d[f]] /\ (d.jwks = c.jwks \/ (v.field = "jwks" /\ d.jwks = v.value))
  BY <1>1, <1>3
<1>5. QED BY <1>2, <1>4, AcceptanceFields DEF IsAcceptance

\* check of the acceptance record says verified only of what another than the
\* issuer signed, about the receipt it names.
LEMMA VerifiedAcceptance ==
  ASSUME NEW c, IsAcceptance(c), Acceptance!CheckCase(c).result = "verified"
  PROVE  c.signing.by # "issuer" /\ c.names = c.record
BY DEF IsAcceptance, Acceptance!CheckCase, Acceptance!Report, Acceptance!Conditions,
       Acceptance!When, Acceptance!SignerIsIssuer, Acceptance!Record, Acceptance!Resolves,
       Acceptance!DigestConditions, Acceptance!KeyUnresolved

\* The tool exits 0 only where the record is verified.
LEMMA VerdictAcceptance ==
  ASSUME NEW c, Verdict("acceptance", c).exit = 0
  PROVE  Acceptance!CheckCase(c).result = "verified"
<1>1. Verdict("acceptance", c).exit = AcceptanceExit(Acceptance!CheckCase(c).result)
  BY DEF Verdict
<1>2. QED BY <1>1 DEF AcceptanceExit

-----------------------------------------------------------------------------
(* Submission commitments *)

IsSubmission(c) == {"sent_at", "now"} \subseteq DOMAIN c /\ c.sent_at \in Int /\ c.now \in Int

\* A submission is sent and read at some instant.
LEMMA GenuineSubmission == ASSUME NEW c \in SubmissionGenuine PROVE IsSubmission(c)
BY DEF SubmissionGenuine, IsSubmission

\* However the commitment is altered, it is sent and read at some instant.
LEMMA AlteredSubmission ==
  ASSUME NEW c, IsSubmission(c), NEW d \in SubmissionEdits(c)
  PROVE  IsSubmission(d)
<1>1. PICK f, v : d = [c EXCEPT ![f] = v] /\ f # "now" /\ (f = "sent_at" => v \in Int)
  BY DEF SubmissionEdits, Replaced
<1>2. QED BY <1>1 DEF IsSubmission

\* verify() exits 0 only for a commitment its requester signed whole, within the skew.
LEMMA VerdictSubmission ==
  ASSUME NEW c, IsSubmission(c), Verdict("submission", c).exit = 0
  PROVE  CommitmentSound(c)
<1>1. PICK w : w = VerifyCommitment(c, c.expected, c.now)
  OBVIOUS
<1>2. Verdict("submission", c).exit = IF w = "verified" THEN 0 ELSE 1
  <2>1. Verdict("submission", c) = Says(w, {"verified"})
    BY <1>1 DEF Verdict
  <2>2. QED BY <2>1 DEF Says
<1>3. w = "verified"
  BY <1>2
<1>4. QED BY <1>1, <1>3 DEF VerifyCommitment, CommitmentSound, SignatureOk, IsSubmission, MaxFutureSkew

-----------------------------------------------------------------------------
(* Reports *)

\* A report every line of which passes.
Clean(R) == \A l \in R : l[1] # "FAIL" /\ l[1] # "CANNOT_ESTABLISH"

\* The exit code of a report is 0 exactly where none of its lines fails or is
\* left open.
LEMMA ExitZero ==
  ASSUME NEW R
  PROVE  Exit(R) \in {0, 1, 2} /\ (Exit(R) = 0 <=> Clean(R))
<1>1. \A x : x \in Statuses(R) <=> \E l \in R : x = l[1]
  BY DEF Statuses
<1>2. QED BY <1>1 DEF Clean, Exit

\* A report passes exactly where its parts do.
LEMMA CleanParts ==
  ASSUME NEW R, NEW S
  PROVE  Clean(R \union S) <=> Clean(R) /\ Clean(S)
BY DEF Clean

\* A report of what cannot be established never passes.
LEMMA NotCannot == ASSUME NEW n PROVE ~Clean(Cannot(n))
<1>1. <<"CANNOT_ESTABLISH", n>> \in Cannot(n) /\ <<"CANNOT_ESTABLISH", n>>[1] = "CANNOT_ESTABLISH"
  BY DEF Cannot
<1>2. QED BY <1>1 DEF Clean

\* A profile under which a valid record is one whose payload is read.
Reads(p) == p.envelope = "nip01-schnorr" => p.prefixed

\* Under a profile that reads its records, a valid envelope shows what its
\* issuer sealed, and that is what verify_envelope hands on.
LEMMA ValidIsRead ==
  ASSUME NEW r, NEW p, Reads(p), VerifyEnvelope(r, p).valid
  PROVE  /\ r.sealed = <<r.key, r.kind, r.payload>> /\ Meant(r) = r.payload
         /\ ReadBy(r, p) = r.payload
<1>1. r.sealed = <<r.key, r.kind, r.payload>>
  BY DEF VerifyEnvelope, VerifyNip01, VerifyJws, IdOk
<1>2. VerifyEnvelope(r, p).read
  BY DEF VerifyEnvelope, VerifyNip01, VerifyJws, Reads
<1>3. QED BY <1>1, <1>2 DEF Meant, ReadBy
-----------------------------------------------------------------------------
(* Related claims *)

IsRelated(c) ==
  /\ {"outer", "inner", "claims", "profile", "inner_profile", "complete"} \subseteq DOMAIN c
  /\ "envelope" \in DOMAIN c.profile /\ "prefixed" \in DOMAIN c.profile /\ Reads(c.profile) /\ Reads(c.inner_profile)
  /\ \A x \in c.claims.pairs : x[2] # "none"

\* Both profiles of the repository read their records.
LEMMA ProfilesRead ==
  ASSUME NEW p \in Profiles
  PROVE  Reads(p) /\ "envelope" \in DOMAIN p /\ "prefixed" \in DOMAIN p
BY DEF Profiles, Reads, Nip01Profile, JwsProfile

\* No claim of a declared list is of a member without a value.
LEMMA ClaimsSay ==
  ASSUME NEW k \in Claims \union {[form |-> "object", pairs |-> {<<"verified_at", "TRUE">>}]}
  PROVE  \A x \in k.pairs : x[2] # "none"
BY DEF Claims

\* A case of related claims reads its records and names values.
LEMMA GenuineRelated == ASSUME NEW c \in RelatedGenuine PROVE IsRelated(c)
<1>1. PICK p \in Profiles, k \in Claims :
        /\ {"outer", "inner", "claims", "profile", "inner_profile", "complete"} \subseteq DOMAIN c
        /\ c.profile = p /\ c.inner_profile = Nip01Profile /\ c.claims = k
  BY DEF RelatedGenuine
<1>2. Reads(Nip01Profile)
  BY ProfilesRead DEF Profiles
<1>3. QED BY <1>1, <1>2, ProfilesRead, ClaimsSay DEF IsRelated

\* It does so still, however it was altered.
LEMMA AlteredRelated ==
  ASSUME NEW c, IsRelated(c), NEW d \in RelatedEdits(c)
  PROVE  IsRelated(d)
<1>1. CASE \E v : d = [c EXCEPT !["outer"] = v]
  BY <1>1 DEF IsRelated
<1>2. CASE \E k \in Claims \union {[form |-> "object", pairs |-> {<<"verified_at", "TRUE">>}]} : d = [c EXCEPT !["claims"] = k]
  BY <1>2, ClaimsSay DEF IsRelated
<1>3. CASE \E r : d = [c EXCEPT !.inner.record = r]
  BY <1>3 DEF IsRelated
<1>4. CASE \E p : d = [c EXCEPT !["profile"] = p] /\ p \in {[c.profile EXCEPT !.keys = {"stranger"}], [c.profile EXCEPT !.members = FALSE]}
  <2>1. PICK p : d = [c EXCEPT !["profile"] = p] /\ p \in {[c.profile EXCEPT !.keys = {"stranger"}], [c.profile EXCEPT !.members = FALSE]}
    BY <1>4
  <2>2. "envelope" \in DOMAIN p /\ "prefixed" \in DOMAIN p /\ p.envelope = c.profile.envelope /\ p.prefixed = c.profile.prefixed
    BY <2>1 DEF IsRelated
  <2>3. Reads(p)
    BY <2>2 DEF IsRelated, Reads
  <2>4. QED BY <2>1, <2>2, <2>3 DEF IsRelated
<1>5. QED BY <1>1, <1>2, <1>3, <1>4 DEF RelatedEdits, Replaced
\* What check() of related_claims compares is what it says it compares.
LEMMA ComparedClaims ==
  ASSUME NEW c, IsRelated(c), NEW outer, Clean(Compare(c, outer))
  PROVE  /\ c.inner.supplied
         /\ outer.related_ref = Meant(c.inner.record).decision_ref
         /\ ExpectedResult(c.claims.pairs, Meant(c.inner.record)) = outer.result
<1>1. ~(c.inner.supplied = FALSE)
  <2> SUFFICES ASSUME c.inner.supplied = FALSE PROVE FALSE
    OBVIOUS
  <2>1. Clean(NotHeld(c))
    BY DEF Compare
  <2>2. QED BY <2>1 DEF NotHeld, Line, Cannot, Clean
<1>2. PICK in : in = ReadBy(c.inner.record, c.inner_profile)
  OBVIOUS
<1> DEFINE A == Line(VerifyEnvelope(c.inner.record, c.inner_profile).valid, "inner proof")
           B == Line(outer.related_ref = ReadBy(c.inner.record, c.inner_profile).decision_ref, "identity")
           C == Line(ExpectedResult(c.claims.pairs, ReadBy(c.inner.record, c.inner_profile)) = outer.result, "recomputed")
<1>3. Clean(A) /\ Clean(B) /\ Clean(C)
  <2>1. Compare(c, outer) = A \union B \union C
    BY <1>1 DEF Compare
  <2> HIDE DEF A, B, C
  <2>2. QED BY <2>1, CleanParts
<1>4. VerifyEnvelope(c.inner.record, c.inner_profile).valid
  BY <1>3 DEF Clean, Line
<1>5. outer.related_ref = in.decision_ref /\ ExpectedResult(c.claims.pairs, in) = outer.result
  BY <1>2, <1>3 DEF Clean, Line
<1>6. in = Meant(c.inner.record)
  BY <1>2, <1>4, ValidIsRead DEF IsRelated
<1>7. QED BY <1>1, <1>5, <1>6
\* check() of related_claims passes only what is so of the sealed records.
LEMMA VerdictRelated ==
  ASSUME NEW c, IsRelated(c), Verdict("related_claims", c).exit = 0
  PROVE  c.outer.payload = Meant(c.outer) /\ RestatementSound(c)
<1>1. Clean(RelatedClaims(c))
  <2>1. RelatedExit(c) = 0
    BY DEF Verdict
  <2>2. QED BY <2>1, ExitZero DEF RelatedExit
<1> DEFINE outer == ReadBy(c.outer, c.profile)
           known == outer.comparison = "eq-v1"
           illegal == c.claims.form # "object" \/ c.claims.pairs = {} \/ \E x \in c.claims.pairs : x[1] \notin Allowed
           V == Line(VerifyEnvelope(c.outer, c.profile).valid, "outer proof")
           L == Line(outer.result \in {"not_supplied", "missing_proof", "unverifiable_proof", "matched", "mismatched"}, "result")
           O == Line(outer.result = "not_supplied" /\ outer.claims_hash = {}, "no claims")
           H == IF InGrammar(c.claims.pairs) THEN Line(c.claims.pairs = outer.claims_hash, "hash") ELSE Cannot("hash")
           N == IF known THEN {} ELSE Cannot("version")
           K == CASE ~known -> {}
                  [] known /\ outer.result = "missing_proof" -> Line(outer.related_ref = "none", "nothing bound")
                  [] known /\ outer.result = "unverifiable_proof" -> Unverifiable(c, outer)
                  [] known /\ outer.result \in {"matched", "mismatched"} -> Compare(c, outer)
                  [] OTHER -> Line(FALSE, "comparison outcome")
           D == IF illegal THEN Line(FALSE, "grammar") ELSE H \union N \union K
           R == IF "claims" \notin outer.declared THEN Cannot("declares the fields")
                ELSE L \union IF c.claims.form = "null" THEN O ELSE D
<1>2. RelatedClaims(c) = V \union R
  BY DEF RelatedClaims
<1>3. Clean(V) /\ Clean(R)
  <2> HIDE DEF V, R
  <2>1. QED BY <1>1, <1>2, CleanParts
<1>4. VerifyEnvelope(c.outer, c.profile).valid
  BY <1>3 DEF Clean, Line
<1>5. outer = c.outer.payload /\ outer = Meant(c.outer)
  BY <1>4, ValidIsRead DEF IsRelated
<1>6. ASSUME c.claims.form = "object", outer.result # "missing_proof"
      PROVE  /\ c.inner.supplied
             /\ outer.result \in {"matched", "mismatched"} =>
                  /\ outer.related_ref = Meant(c.inner.record).decision_ref
                  /\ outer.result = ExpectedResult(c.claims.pairs, Meant(c.inner.record))
  <2>1. "claims" \in outer.declared
    <3> HIDE DEF L, O, D, outer
    <3>1. QED BY <1>3, NotCannot
  <2>2. Clean(D) /\ Clean(L)
    <3>1. R = L \union D
      <4> HIDE DEF L, O, D, outer
      <4>1. QED BY <1>6, <2>1
    <3> HIDE DEF R, L, D
    <3>2. QED BY <1>3, <3>1, CleanParts
  <2>3. ~illegal
    <3> HIDE DEF illegal, H, N, K
    <3>1. QED BY <2>2 DEF Clean, Line
  <2>4. Clean(N) /\ Clean(K)
    <3> HIDE DEF illegal, H, N, K
    <3>1. QED BY <2>2, <2>3, CleanParts
  <2>5. known
    <3> HIDE DEF known
    <3>1. QED BY <2>4, NotCannot
  <2>6. CASE outer.result = "unverifiable_proof"
    <3>1. K = Unverifiable(c, outer)
      <4> HIDE DEF outer
      <4>1. QED BY <2>5, <2>6
    <3>2. ~(c.inner.supplied = FALSE)
      <4> SUFFICES ASSUME c.inner.supplied = FALSE PROVE FALSE
        OBVIOUS
      <4>1. Clean(NotHeld(c))
        <5> HIDE DEF outer
        <5> DEFINE U == Line(outer.related_ref = "none", "nothing bound")
        <5>1. K = U \union NotHeld(c)
          <6> HIDE DEF K
          <6>1. QED BY <3>1 DEF Unverifiable
        <5> HIDE DEF U, K
        <5>2. QED BY <2>4, <5>1, CleanParts
      <4>2. QED BY <4>1 DEF NotHeld, Line, Cannot, Clean
    <3>3. QED BY <2>6, <3>2
  <2>7. CASE outer.result \in {"matched", "mismatched"}
    <3>1. K = Compare(c, outer)
      <4> HIDE DEF outer
      <4>1. QED BY <2>5, <2>7
    <3> HIDE DEF outer, K
    <3>2. QED BY <2>4, <3>1, ComparedClaims
  <2>8. CASE outer.result \notin {"unverifiable_proof", "matched", "mismatched"}
    <3>1. K = Line(FALSE, "comparison outcome")
      <4> HIDE DEF outer
      <4>1. QED BY <1>6, <2>5, <2>8
    <3> HIDE DEF K
    <3>2. QED BY <2>4, <3>1 DEF Clean, Line
  <2>9. QED BY <2>6, <2>7, <2>8
<1>7. \A inner : ExpectedResult(c.claims.pairs, inner) = IF \A x \in c.claims.pairs : inner[x[1]] = x[2] THEN "matched" ELSE "mismatched"
  BY DEF IsRelated, ExpectedResult
<1> HIDE DEF outer, R, V
<1>8. QED BY <1>5, <1>6, <1>7 DEF RestatementSound
-----------------------------------------------------------------------------
(* Proof chains *)

IsSealed(r) == {"payload", "sealed"} \subseteq DOMAIN r /\ "summary" \in DOMAIN r.payload

IsChain(c) ==
  /\ {"outer", "inner"} \subseteq DOMAIN c /\ "record" \in DOMAIN c.inner
  /\ IsSealed(c.outer) /\ IsSealed(c.inner.record)
  /\ c.outer.payload.summary = {} \/ \E r : c.outer.payload.summary = SummaryOf(r)

\* Neither damage nor other words under the old seal change the summary of a record.
LEMMA SummaryStays ==
  ASSUME NEW r, IsSealed(r), NEW x \in Damaged(r) \union Reworded(r)
  PROVE  IsSealed(x) /\ x.payload.summary = r.payload.summary
<1>1. CASE x \in Reworded(r)
  BY <1>1 DEF Reworded, IsSealed
<1>2. CASE x \in Damaged(r)
  <2>1. CASE x = [Sealed(r.envelope, "stranger", r.kind, r.payload) EXCEPT !.complete = TRUE]
    BY <2>1 DEF Sealed, IsSealed
  <2>2. CASE x # [Sealed(r.envelope, "stranger", r.kind, r.payload) EXCEPT !.complete = TRUE]
    BY <1>2, <2>2 DEF Damaged, IsSealed
  <2>3. QED BY <2>1, <2>2
<1>3. QED BY <1>1, <1>2

\* An issued record shows the payload it was issued with.
LEMMA IssuedIs ==
  ASSUME NEW p, NEW y
  PROVE  /\ Issue(p, y).payload = y
         /\ {"payload", "sealed"} \subseteq DOMAIN Issue(p, y)
BY DEF Issue, Sealed

\* The outer proof of a chain restates a record, or nothing.
LEMMA GenuineChain == ASSUME NEW c \in ChainGenuine PROVE IsChain(c)
<1>a. PICK ref \in {"none", "d1", "d2"}, l \in {"bound", "asserted"}, i \in Inner(Nip01Profile),
           s \in {{}} \union {SummaryOf(j) : j \in Inner(Nip01Profile)} :
        c = [outer |-> Issue(Nip01Profile, Summing(ref, s, l)), inner |-> [supplied |-> TRUE, record |-> i]]
  BY DEF ChainGenuine
<1>b. s = {} \/ \E r : s = SummaryOf(r)
  BY <1>a
<1>1. /\ {"outer", "inner"} \subseteq DOMAIN c /\ "record" \in DOMAIN c.inner
      /\ c.outer = Issue(Nip01Profile, Summing(ref, s, l)) /\ c.inner.record = i
  BY <1>a
<1>2. Summing(ref, s, l).summary = s /\ "summary" \in DOMAIN Summing(ref, s, l)
  BY DEF Summing, Payload
<1>3. IsSealed(i)
  <2>1. PICK y : i = Issue(Nip01Profile, y) /\ "summary" \in DOMAIN y
    <3>1. \A v, t : "summary" \in DOMAIN Deciding(v, t)
      BY DEF Deciding, Payload
    <3>2. QED BY <3>1 DEF Inner
  <2>2. QED BY <2>1, IssuedIs DEF IsSealed
<1>4. QED BY <1>b, <1>1, <1>2, <1>3, IssuedIs DEF IsChain, IsSealed

\* It does so still, however the two records were altered.
LEMMA AlteredChain ==
  ASSUME NEW c, IsChain(c), NEW d \in ChainEdits(c)
  PROVE  IsChain(d)
<1>1. CASE \E x \in Damaged(c.outer) \union Reworded(c.outer) : d = [c EXCEPT !["outer"] = x]
  BY <1>1, SummaryStays DEF IsChain
<1>2. CASE \E x \in Damaged(c.inner.record) \union Reworded(c.inner.record) : d = [c EXCEPT !.inner.record = x]
  BY <1>2, SummaryStays DEF IsChain
<1>3. QED BY <1>1, <1>2 DEF ChainEdits, Replaced

\* A summary that claims nothing false claims everything: it names each field once.
LEMMA SummariesAgree ==
  ASSUME NEW r, NEW q, SummaryOf(r) \subseteq SummaryOf(q)
  PROVE  SummaryOf(r) = SummaryOf(q)
BY DEF SummaryOf

\* check_chain() passes only a sentence that restates every field of the inner proof.
LEMMA VerdictChain ==
  ASSUME NEW c, IsChain(c), Verdict("proof_chain", c).exit = 0
  PROVE  c.outer.payload = Meant(c.outer) /\ ChainSound(c)
<1>1. Clean(CheckChain(c))
  <2>1. Exit(CheckChain(c)) = 0
    BY DEF Verdict
  <2>2. QED BY <2>1, ExitZero
<1> DEFINE o == VerifyProof(c.outer)
           i == VerifyProof(c.inner.record)
           outer == c.outer.payload
           inner == c.inner.record.payload
           A == Line(o.valid, "outer proof")
           B == Line(i.valid, "inner proof")
           L == CheckLabel(outer)
           F == Line(outer.related_ref = inner.decision_ref, "reference")
           S == CompareClaim(outer, c.inner.record)
           R == IF ~o.read \/ ~i.read THEN Cannot("payloads")
                ELSE L \union IF outer.related_ref = "none" THEN Cannot("reference") ELSE F \union S
<1>2. Clean(A) /\ Clean(B) /\ Clean(R)
  <2>1. CheckChain(c) = A \union B \union R
    BY DEF CheckChain
  <2> HIDE DEF A, B, R
  <2>2. QED BY <1>1, <2>1, CleanParts
<1>3. o.valid /\ i.valid
  BY <1>2 DEF Clean, Line
<1>4. /\ c.outer.sealed = <<c.outer.key, c.outer.kind, c.outer.payload>>
      /\ c.inner.record.sealed = <<c.inner.record.key, c.inner.record.kind, c.inner.record.payload>>
  BY <1>3 DEF VerifyProof, VerifyNip01, IdOk
<1>5. Meant(c.outer) = outer /\ Meant(c.inner.record) = inner
  BY <1>4 DEF Meant
<1>6. Clean(F) /\ Clean(S)
  <2>1. o.read /\ i.read
    <3> HIDE DEF L, F, S, o, i
    <3>1. QED BY <1>2, NotCannot
  <2>2. Clean(IF outer.related_ref = "none" THEN Cannot("reference") ELSE F \union S)
    <3> HIDE DEF L, F, S, o, i
    <3>1. QED BY <1>2, <2>1, CleanParts
  <2>3. QED
    <3> HIDE DEF F, S
    <3>1. QED BY <2>2, NotCannot, CleanParts
<1>7. outer.related_ref = inner.decision_ref
  BY <1>6 DEF Clean, Line
<1>8. outer.summary # {} /\ \A s \in outer.summary : s \in SummaryOf(c.inner.record)
  <2>1. outer.summary # {}
    BY <1>6, NotCannot DEF CompareClaim
  <2>2. S = UNION {Line(s \in SummaryOf(c.inner.record), s[1]) : s \in outer.summary}
    BY <2>1 DEF CompareClaim
  <2>3. ASSUME NEW s \in outer.summary PROVE s \in SummaryOf(c.inner.record)
    <3> SUFFICES ASSUME s \notin SummaryOf(c.inner.record) PROVE FALSE
      OBVIOUS
    <3>1. Line(s \in SummaryOf(c.inner.record), s[1]) = {<<"FAIL", s[1]>>}
      BY DEF Line
    <3>2. <<"FAIL", s[1]>> \in S
      BY <2>2, <3>1
    <3> HIDE DEF S
    <3>3. QED BY <1>6, <3>2 DEF Clean
  <2>4. QED BY <2>1, <2>3
<1>9. outer.summary = SummaryOf(c.inner.record)
  BY <1>8, SummariesAgree DEF IsChain
<1>10. SummaryOf([c.inner.record EXCEPT !.payload = Meant(c.inner.record)]) = SummaryOf(c.inner.record)
  BY <1>5 DEF SummaryOf, IsChain, IsSealed
<1>11. QED BY <1>5, <1>7, <1>9, <1>10 DEF ChainSound
-----------------------------------------------------------------------------
(* Issuer runs *)

IsRun(c) ==
  /\ {"files", "hashes"} \subseteq DOMAIN c /\ "profile" \in DOMAIN c.files /\ "a" \in DOMAIN c.hashes
  /\ {"envelope", "prefixed"} \subseteq DOMAIN c.files["profile"] /\ Reads(c.files["profile"])

\* An attested run has its profile, and a hash of its first input.
LEMMA GenuineRun == ASSUME NEW c \in RunGenuine PROVE IsRun(c)
<1>1. PICK p \in Profiles : \E pay : c = Attested(p, pay)
  BY DEF RunGenuine
<1>a. PICK pay : c = Attested(p, pay)
  BY <1>1
<1> DEFINE files == [profile |-> p, a |-> IF p.envelope = "jws-eddsa" THEN IssueLabelled(p, pay) ELSE Issue(p, pay),
                     b |-> Issue(p, [pay EXCEPT !.artifact = "report", !.note = "none"]),
                     stray |-> Issue(p, Payload)]
           hashes == [f \in DOMAIN files \ {"stray"} |-> files[f]]
<1>2. "profile" \in DOMAIN files /\ files["profile"] = p /\ "a" \in DOMAIN hashes
  OBVIOUS
<1>3. c.files = files /\ c.hashes = hashes /\ {"files", "hashes"} \subseteq DOMAIN c
  <2> HIDE DEF files, hashes
  <2>1. QED BY <1>a DEF Attested, files, hashes
<1> HIDE DEF files, hashes
<1>4. QED BY <1>2, <1>3, ProfilesRead DEF IsRun

\* It has them still, however far the repository moved on.
LEMMA AlteredRun ==
  ASSUME NEW c, IsRun(c), NEW d \in RunEdits(c)
  PROVE  IsRun(d)
<1>1. CASE \E r : d = [c EXCEPT !.files["a"] = r]
  BY <1>1 DEF IsRun
<1>2. CASE d = [c EXCEPT !.files["profile"].keys = {}]
  BY <1>2 DEF IsRun, Reads
<1>3. CASE d = [c EXCEPT !.hashes["a"] = c.files["stray"]]
  BY <1>3 DEF IsRun
<1>4. CASE d \in {[c EXCEPT !.commit_exists = FALSE], [c EXCEPT !.unchanged = FALSE], [c EXCEPT !.checker = "other"],
                  [c EXCEPT !.argv = {"b", "stray"}], [c EXCEPT !.passes_profile = FALSE], [c EXCEPT !.argv_ok = FALSE],
                  [c EXCEPT !.declared = FALSE], [c EXCEPT !.https = FALSE], [c EXCEPT !.schema = "v0"],
                  [c EXCEPT !.exit = 0], [c EXCEPT !.exit = 2]}
  BY <1>4 DEF IsRun
<1>5. CASE \E g \in {"b"} : d = [c EXCEPT !.files = [f \in DOMAIN c.files \ {g} |-> c.files[f]]]
  BY <1>5 DEF IsRun
<1>6. QED BY <1>1, <1>2, <1>3, <1>4, <1>5 DEF RunEdits
\* A clean vantage report is about the payload that was sealed, and its note.
LEMMA VantageIs ==
  ASSUME NEW r, NEW p, Reads(p), Clean(Vantage(r, p))
  PROVE  /\ r.payload = Meant(r)
         /\ IF r.payload.artifact \in Irreversible
            THEN r.payload.source \in DOMAIN NoteTable[r.payload.policy] /\ r.payload.note = NoteTable[r.payload.policy][r.payload.source]
            ELSE r.payload.note = "none"
<1> DEFINE y == ReadBy(r, p)
           V == Line(VerifyEnvelope(r, p).valid, "proof")
           D == Line("vantage" \in y.declared, "declared")
           N == Line(y.note = "none", "absent")
           Q == Line(y.note # "none", "present")
           R == IF y.artifact \notin Irreversible THEN N ELSE Q \union Wording(y)
<1>1. Clean(V) /\ Clean(R)
  <2>1. Vantage(r, p) = V \union D \union R
    BY DEF Vantage
  <2> HIDE DEF V, D, R
  <2>2. QED BY <2>1, CleanParts
<1>2. VerifyEnvelope(r, p).valid
  BY <1>1 DEF Clean, Line
<1>3. y = r.payload /\ r.payload = Meant(r)
  BY <1>2, ValidIsRead
<1>4. CASE y.artifact \notin Irreversible
  <2>1. Clean(N)
    BY <1>1, <1>4
  <2>2. y.note = "none"
    BY <2>1 DEF Clean, Line
  <2>3. QED BY <1>3, <1>4, <2>2
<1>5. CASE y.artifact \in Irreversible
  <2> HIDE DEF y, Q
  <2>1. Clean(Wording(y))
    BY <1>1, <1>5, CleanParts
  <2>2. y.policy \in DOMAIN NoteTable
    BY <2>1, NotCannot DEF Wording
  <2>3. y.source \in DOMAIN NoteTable[y.policy]
    BY <2>1, <2>2 DEF Wording, Clean, Line
  <2>4. y.note = NoteTable[y.policy][y.source]
    BY <2>1, <2>2, <2>3 DEF Wording, Clean, Line
  <2>5. QED BY <1>3, <1>5, <2>3, <2>4
<1>6. QED BY <1>4, <1>5

\* The re-run of issuer_run passes only notes that follow from the signed fields.
LEMMA VerdictRun ==
  ASSUME NEW c, IsRun(c), Verdict("issuer_run", c).exit = 0
  PROVE  NotesSound(c)
<1>1. Clean(IssuerRun(c))
  <2>1. Exit(IssuerRun(c)) = 0
    BY DEF Verdict
  <2>2. QED BY <2>1, ExitZero
<1> DEFINE F == FileLines(c)
           U == Line(c.unchanged, "unchanged")
           P == IF c.passes_profile THEN {} ELSE Line(FALSE, "argv profile")
           E == RerunLines(c) \union Line(c.declared, "declarations") \union Line(c.https, "published")
           G == IF ~c.argv_ok \/ Statuses(F) # {"PASS"} THEN {} ELSE E
           A == IF ~c.argv_ok THEN Line(FALSE, "argv") ELSE P \union G
<1>2. c.schema = "v1" /\ c.commit_exists
  BY <1>1, NotCannot DEF IssuerRun, Clean, Line
<1>3. c.checker = "vantage_limitation"
  <2> SUFFICES ASSUME c.checker # "vantage_limitation" PROVE FALSE
    OBVIOUS
  <2>1. IssuerRun(c) = U \union Line(FALSE, "checker")
    BY <1>2 DEF IssuerRun
  <2>2. <<"FAIL", "checker">> \in Line(FALSE, "checker")
    BY DEF Line
  <2>3. ~Clean(Line(FALSE, "checker"))
    BY <2>2 DEF Clean, Line
  <2> DEFINE W == Line(FALSE, "checker")
  <2> HIDE DEF U, W
  <2>4. QED BY <1>1, <2>1, <2>3, CleanParts DEF W
<1>4. IssuerRun(c) = U \union (F \union A)
  BY <1>2, <1>3 DEF IssuerRun
<1>5. Clean(F) /\ Clean(A)
  <2> HIDE DEF U, F, A
  <2>1. QED BY <1>1, <1>4, CleanParts
<1>6. c.argv_ok
  <2> HIDE DEF P, G
  <2>1. QED BY <1>5 DEF Clean, Line
<1>7. \A f \in DOMAIN c.hashes : f \in DOMAIN c.files /\ c.files[f] = c.hashes[f]
  <2> SUFFICES ASSUME NEW f \in DOMAIN c.hashes PROVE f \in DOMAIN c.files /\ c.files[f] = c.hashes[f]
    OBVIOUS
  <2>1. f \in DOMAIN c.files
    <3> SUFFICES ASSUME f \notin DOMAIN c.files PROVE FALSE
      OBVIOUS
    <3>1. <<"CANNOT_ESTABLISH", f>> \in F
      BY DEF FileLines, Cannot
    <3> HIDE DEF F
    <3>2. QED BY <1>5, <3>1 DEF Clean
  <2>2. c.files[f] = c.hashes[f]
    <3> SUFFICES ASSUME c.files[f] # c.hashes[f] PROVE FALSE
      OBVIOUS
    <3>1. <<"FAIL", f>> \in F
      BY <2>1 DEF FileLines, Line
    <3> HIDE DEF F
    <3>2. QED BY <1>5, <3>1 DEF Clean
  <2>3. QED BY <2>1, <2>2
<1>8. Statuses(F) = {"PASS"}
  <2>1. F = {<<"PASS", f>> : f \in DOMAIN c.hashes}
    <3>1. \A f \in DOMAIN c.hashes :
            (IF f \notin DOMAIN c.files THEN Cannot(f) ELSE Line(c.files[f] = c.hashes[f], f)) = {<<"PASS", f>>}
      BY <1>7 DEF Line
    <3>2. QED BY <3>1 DEF FileLines
  <2>2. "a" \in DOMAIN c.hashes
    BY DEF IsRun
  <2> HIDE DEF F
  <2>3. \A x : x \in Statuses(F) <=> \E l \in F : x = l[1]
    BY DEF Statuses
  <2>4. \A l \in F : l[1] = "PASS"
    BY <2>1
  <2>5. <<"PASS", "a">> \in F
    BY <2>1, <2>2
  <2>6. \A x : x \in Statuses(F) <=> x = "PASS"
    BY <2>3, <2>4, <2>5
  <2>7. QED BY <2>6
<1>9. Clean(RerunLines(c))
  <2>1. A = P \union E
    <3> HIDE DEF F, P, E
    <3>1. QED BY <1>6, <1>8
  <2> HIDE DEF A, P
  <2>2. Clean(E)
    BY <1>5, <2>1, CleanParts
  <2>3. QED BY <2>2, CleanParts
<1>10. Rerun(c) = 0
  <2> DEFINE X == Line(Rerun(c) = c.exit, "exit")
             Y == Line(Output(c) = c.output, "output")
             Z == Line(c.exit = 0, "pass")
  <2>1. RerunLines(c) = X \union Y \union Z
    BY DEF RerunLines
  <2>2. Clean(X) /\ Clean(Z)
    <3> HIDE DEF X, Y, Z
    <3>1. QED BY <1>9, <2>1, CleanParts
  <2>3. QED BY <2>2 DEF Clean, Line
<1>11. \A f \in c.argv : Clean(Vantage(c.files[f], c.files["profile"]))
  <2> SUFFICES ASSUME NEW f \in c.argv PROVE Clean(Vantage(c.files[f], c.files["profile"]))
    OBVIOUS
  <2>1. PICK x : x = Exit(Vantage(c.files[f], c.files["profile"]))
    OBVIOUS
  <2>2. x \in {Exit(Vantage(r, c.files["profile"])) : r \in {c.files[g] : g \in c.argv}}
    BY <2>1
  <2>3. x # 1 /\ x # 2
    BY <1>10, <2>2 DEF Rerun, VantageExit
  <2>4. QED BY <2>1, <2>3, ExitZero
<1>12. ASSUME NEW f \in c.argv \intersect DOMAIN c.hashes
       PROVE  LET p == Meant(c.hashes[f]) IN
              /\ c.hashes[f].payload = p
              /\ IF p.artifact \in Irreversible
                 THEN p.source \in DOMAIN NoteTable[p.policy] /\ p.note = NoteTable[p.policy][p.source]
                 ELSE p.note = "none"
  <2>1. Clean(Vantage(c.hashes[f], c.files["profile"]))
    BY <1>7, <1>11
  <2>2. Reads(c.files["profile"])
    BY DEF IsRun
  <2>3. QED BY <2>1, <2>2, VantageIs
<1>13. QED BY <1>12 DEF NotesSound

-----------------------------------------------------------------------------
(* Mandates *)

\* A bundle's parts, and what is true of its signatures whatever is altered.
IsMandate(b) ==
  /\ {"cm", "pmc", "auth", "receipt", "salt", "chain", "shape", "signed"} \subseteq DOMAIN b
  /\ {"contents", "merchant"} \subseteq DOMAIN b.cm /\ {"by", "cart_hash"} \subseteq DOMAIN b.cm.merchant
  /\ {"cred", "kb"} \subseteq DOMAIN b.auth /\ {"by", "cnf"} \subseteq DOMAIN b.auth.cred
  /\ {"by", "sd_hash", "data"} \subseteq DOMAIN b.auth.kb
  /\ b.auth.cred.by = "issuer" => b.auth.cred.cnf = "user"
  /\ b.auth.kb.by = "user" => b.auth.kb.data = b.signed.user
  /\ b.cm.merchant.by = "merchant" => b.cm.merchant.cart_hash = b.signed.merchant

\* A bundle as its parties signed it.
LEMMA GenuineMandate == ASSUME NEW b \in Mandate!Genuine PROVE IsMandate(b)
<1>1. PICK c, s, v, n, r, i, u : b = Mandate!bundle(c, s, v, n, r, i, u)
  BY DEF Mandate!Genuine
<1>2. PICK cm, pmc : cm = Mandate!cart_mandate(c, s, "merchant") /\ pmc = Mandate!pm_contents(v, n)
  OBVIOUS
<1>3. /\ {"cm", "pmc", "auth", "receipt", "salt", "chain", "shape", "signed"} \subseteq DOMAIN b
      /\ b.cm = cm /\ b.auth = Mandate!consent(cm, pmc, i, u)
      /\ b.signed.merchant = s /\ (u = "user" => b.signed.user = {cm, pmc})
  BY <1>1, <1>2 DEF Mandate!bundle
<1>4. /\ {"cred", "kb"} \subseteq DOMAIN b.auth /\ {"by", "cnf"} \subseteq DOMAIN b.auth.cred
      /\ {"by", "sd_hash", "data"} \subseteq DOMAIN b.auth.kb
      /\ b.auth.cred.cnf = "user" /\ b.auth.kb.by = u /\ b.auth.kb.data = {cm, pmc}
  BY <1>3 DEF Mandate!consent
<1>5. /\ {"contents", "merchant"} \subseteq DOMAIN b.cm /\ {"by", "cart_hash"} \subseteq DOMAIN b.cm.merchant
      /\ b.cm.merchant.cart_hash = s
  BY <1>2, <1>3 DEF Mandate!cart_mandate
<1>6. QED BY <1>3, <1>4, <1>5 DEF IsMandate

\* No alteration makes a signature of a party one over something else.
LEMMA AlteredMandate ==
  ASSUME NEW b, IsMandate(b), NEW d \in Mandate!Edits(b)
  PROVE  IsMandate(d)
<1>1. CASE d \in {[b EXCEPT !.cm.contents.max = 3], [b EXCEPT !.cm.contents.payTo = "thief"]}
  BY <1>1 DEF IsMandate
<1>2. CASE d = [b EXCEPT !.cm.merchant.by = "stranger"]
  BY <1>2 DEF IsMandate
<1>3. CASE d = [b EXCEPT !.cm.merchant.cart_hash = b.cm.contents, !.cm.merchant.by = "stranger"]
  BY <1>3 DEF IsMandate
<1>4. CASE d = [b EXCEPT !.auth.kb.data = {b.cm, b.pmc}, !.auth.kb.by = "stranger"]
  BY <1>4 DEF IsMandate
<1>5. CASE d = [b EXCEPT !.auth.cred.cnf = "stranger", !.auth.cred.by = "stranger"]
  BY <1>5 DEF IsMandate
<1>6. CASE \E v : \/ d = [b EXCEPT !.pmc = v] \/ d = [b EXCEPT !.receipt = v]
                  \/ d = [b EXCEPT !.salt = v] \/ d = [b EXCEPT !.shape = v] \/ d = [b EXCEPT !.chain = v]
  BY <1>6 DEF IsMandate
<1>7. QED BY <1>1, <1>2, <1>3, <1>4, <1>5, <1>6 DEF Mandate!Edits

\* check() of mandate_check.py says consented_and_settled only of what the
\* merchant and the user signed and the chain settled.
LEMMA VerdictMandate ==
  ASSUME NEW b, IsMandate(b), Verdict("mandate", b).exit = 0
  PROVE  Mandate!Sound(b)
<1>1. PICK w : w = Mandate!check(b)
  OBVIOUS
<1>2. w = "consented_and_settled"
  <2>1. Verdict("mandate", b) = Says(w, {"consented_and_settled"})
    BY <1>1 DEF Verdict
  <2>2. QED BY <2>1 DEF Says
<1>3. /\ Mandate!ConsentValid(b) /\ Mandate!ConsentBound(b) /\ Mandate!TermsOk(b)
      /\ Mandate!ThisAuthorization(b) /\ Mandate!jwt_verify(b.cm.merchant, "merchant")
      /\ b.cm.merchant.cart_hash = b.cm.contents
      /\ \E x \in b.chain.nonces : x.nonce = b.pmc.nonce /\ x.status = 1 /\ x.to = b.pmc.to /\ x.amount = b.pmc.value
  BY <1>1, <1>2 DEF Mandate!check
<1>4. b.receipt.commitment[4] = b.pmc.nonce
  BY <1>3 DEF Mandate!ThisAuthorization, Mandate!R!Commitment
<1>5. {b.cm, b.pmc} \subseteq b.signed.user /\ b.signed.merchant = b.cm.contents
  BY <1>3 DEF IsMandate, Mandate!ConsentValid, Mandate!ConsentBound, Mandate!jwt_verify
<1>6. QED BY <1>3, <1>4, <1>5 DEF Mandate!Sound, Mandate!TermsOk
-----------------------------------------------------------------------------
(* The least of a set of numbers. *)

\* A set of positions that is not empty has a least one: what min() and the
\* first match of a loop return.
LEMMA LeastExists ==
  ASSUME NEW S \in SUBSET Nat, S # {}
  PROVE  \E i \in S : \A j \in S : i <= j
<1>1. PICK i \in S : \A j \in S : ~(<<j, i>> \in OpToRel(<, Nat))
  BY NatLessThanWellFounded, WFMin, Zenon
<1>2. \A j \in S : ~(j < i)
  BY <1>1 DEF OpToRel
<1>3. QED BY <1>2

-----------------------------------------------------------------------------
(* Approvals *)

IsContract(k) == k = [id |-> k.id, expiry |-> k.expiry, approvers |-> k.approvers, signatures |-> k.signatures]

IsApproval(c) ==
  /\ {"contract", "approved", "supplied", "approval"} \subseteq DOMAIN c
  /\ IsContract(c.contract) /\ c.approved \in Approval!Contracts
  /\ DOMAIN c.contract.approvers \subseteq Nat
  /\ {"entry", "sig"} \subseteq DOMAIN c.approval /\ {"by", "over"} \subseteq DOMAIN c.approval.sig
  /\ c.approval.sig.over[1] = Approval!contract_sha256(c.approved)

\* A contract has its members, and names its approvers in an order.
LEMMA ContractsAre ==
  ASSUME NEW k \in Approval!Contracts
  PROVE  IsContract(k) /\ DOMAIN k.approvers \subseteq Nat /\ k.signatures = "ab"
<1>1. PICK e \in {1, 2}, a \in
            {<<>>, <<Approval!Pin("inv", "approver", {"emit"})>>,
            <<Approval!Pin("inv", "approver", {"emit"}), Approval!Pin("inv", "forger", {"emit", "pay"})>>,
            <<Approval!Pin("other", "approver", {"pay"}), Approval!Pin("inv", "approver", {"emit"})>>,
            <<Approval!Pin("inv", "bad", {"emit"})>>} : k = Approval!Contract(e, a)
  BY DEF Approval!Contracts
<1>2. DOMAIN a \subseteq Nat
  BY <1>1
<1>3. QED BY <1>1, <1>2 DEF Approval!Contract, IsContract

\* An approval signs the digest of the contract that was approved.
LEMMA GenuineApproval == ASSUME NEW c \in Approval!Genuine PROVE IsApproval(c)
<1>1. PICK k \in Approval!Contracts, s \in BOOLEAN, by \in {"approver", "forger"}, action \in {"emit", "pay"}, name \in {"inv", "other"} :
        c = [contract |-> k, approved |-> k, supplied |-> s, approval |-> Approval!approval(k, by, action, name)]
  BY DEF Approval!Genuine
<1>2. PICK a : a = Approval!approval(k, by, action, name)
  OBVIOUS
<1>3. {"entry", "sig"} \subseteq DOMAIN a /\ {"by", "over"} \subseteq DOMAIN a.sig
      /\ a.sig.over[1] = Approval!contract_sha256(k)
  BY <1>2 DEF Approval!approval, Approval!approval_v2_bytes
<1>4. {"contract", "approved", "supplied", "approval"} \subseteq DOMAIN c /\ c.contract = k /\ c.approved = k /\ c.approval = a
  BY <1>1, <1>2
<1>5. QED BY <1>3, <1>4, ContractsAre DEF IsApproval

\* It signs that digest still, whichever contract it is shown with.
LEMMA AlteredApproval ==
  ASSUME NEW c, IsApproval(c), NEW d \in Approval!Edits(c)
  PROVE  IsApproval(d)
<1>1. CASE \E k \in Approval!Contracts : d = [c EXCEPT !.contract = k]
  BY <1>1, ContractsAre DEF IsApproval
<1>2. CASE d = [c EXCEPT !.contract.signatures = "none"]
  <2>1. DOMAIN c.contract = {"id", "expiry", "approvers", "signatures"}
    BY DEF IsApproval, IsContract
  <2>2. QED BY <1>2, <2>1 DEF IsApproval, IsContract
<1>3. CASE \E v : d = [c EXCEPT !.approval.entry = v]
  BY <1>3 DEF IsApproval
<1>4. CASE d = [c EXCEPT !.approval.sig.by = "bad"]
  BY <1>4 DEF IsApproval
<1>5. QED BY <1>1, <1>2, <1>3, <1>4 DEF Approval!Edits

\* verify_approval_v2() approves only the contract its approver signed.
LEMMA VerdictApproval ==
  ASSUME NEW c, IsApproval(c), Verdict("approval", c).exit = 0
  PROVE  Approval!Sound(c)
<1> DEFINE e == c.approval.entry
           named == {i \in DOMAIN c.contract.approvers : c.contract.approvers[i].name = e.approver}
           least == CHOOSE i \in named : \A j \in named : i <= j
           pin == c.contract.approvers[least]
<1>1. PICK w : w = Approval!Reading(c)
  OBVIOUS
<1>2. w = "approved"
  <2>1. Verdict("approval", c) = Says(w, {"approved"})
    BY <1>1 DEF Verdict
  <2>2. QED BY <2>1 DEF Says
<1>3. Approval!verify_approval_v2(c.contract, c.approval) = "approved"
  BY <1>1, <1>2 DEF Approval!Reading, Approval!policy_reading
<1>4. /\ named # {} /\ e.action \in pin.actions
      /\ c.approval.sig = [by |-> pin.key, over |-> Approval!approval_v2_bytes(c.contract, e, pin.key)]
  BY <1>3 DEF Approval!verify_approval_v2
<1>5. least \in named
  <2>1. named \in SUBSET Nat
    BY DEF IsApproval
  <2> HIDE DEF named
  <2>2. \E i \in named : \A j \in named : i <= j
    BY <1>4, <2>1, LeastExists
  <2>3. QED BY <2>2
<1>6. least \in DOMAIN c.contract.approvers
  BY <1>5
<1> HIDE DEF least, named
<1>7. c.approval.sig.by = pin.key /\ c.approval.sig.over = Approval!approval_v2_bytes(c.contract, e, pin.key)
  BY <1>4
<1>8. PICK o : o = c.approval.sig.over
  OBVIOUS
<1>9. o[1] = Approval!contract_sha256(c.contract) /\ <<e.action, e.valid_until, e.nonce, e.single_use>> = <<o[2], o[4], o[5], o[6]>>
  BY <1>7, <1>8 DEF Approval!approval_v2_bytes
<1>10. Approval!contract_sha256(c.contract) = Approval!contract_sha256(c.approved)
  BY <1>8, <1>9 DEF IsApproval
<1>11. [c.contract EXCEPT !.signatures = "ab"] = c.approved
  <2>1. /\ c.contract.id = c.approved.id /\ c.contract.expiry = c.approved.expiry
        /\ c.contract.approvers = c.approved.approvers
    BY <1>10 DEF Approval!contract_sha256
  <2>2. IsContract(c.approved) /\ IsContract(c.contract) /\ c.approved.signatures = "ab"
    BY ContractsAre DEF IsApproval
  <2>3. QED BY <2>1, <2>2 DEF IsContract
<1>12. QED BY <1>4, <1>6, <1>7, <1>8, <1>9, <1>11 DEF Approval!Sound
-----------------------------------------------------------------------------
(* Receipts *)

PayloadField == {"version", "payer", "transaction", "authorizationMethod", "authorizationCommitment"}

\* The signature of a receipt is over what its signer was given, in the format it has.
IsReceipt(v) ==
  /\ {"receipt", "authorized", "salt", "asset", "candidates", "signed"} \subseteq DOMAIN v
  /\ {"format", "shape", "encoded", "payload", "duplicated", "alg", "kid", "signature"} \subseteq DOMAIN v.receipt
  /\ {"by", "over"} \subseteq DOMAIN v.receipt.signature
  /\ {"obtained", "set"} \subseteq DOMAIN v.candidates
  /\ DOMAIN v.receipt.payload = PayloadField /\ v.receipt.payload = [f \in PayloadField |-> v.receipt.payload[f]]
  /\ v.signed.payload = [f \in PayloadField |-> v.signed.payload[f]]
  /\ v.signed.types \in {1, 2}
  /\ v.authorized.eip712 = {"seller"} /\ v.authorized.jws = [kid1 |-> "seller"]
  /\ v.receipt.signature.by \in {v.signed.by, "none"}
  /\ v.receipt.format = "eip712" => v.receipt.signature.over = Receipt!eip712_digest(v.signed.payload, v.signed.types)
  /\ v.receipt.format = "jws" => v.signed.types = 2 /\ v.receipt.signature.over = Receipt!jws_digest("kid1", v.signed.payload)
  /\ \A c \in v.candidates.set : c = [nonce |-> c.nonce, tx |-> c.tx]

\* Every payload of a receipt has the same five members.
LEMMA PayloadsAre ==
  ASSUME NEW p \in Receipt!Payloads
  PROVE  DOMAIN p = PayloadField /\ p = [f \in PayloadField |-> p[f]]
<1>1. \A v, t, m, c : /\ DOMAIN Receipt!payload(v, t, m, c) = PayloadField
                      /\ Receipt!payload(v, t, m, c) = [f \in PayloadField |-> Receipt!payload(v, t, m, c)[f]]
  BY DEF Receipt!payload, PayloadField
<1>2. \E v, t, m, c : p = Receipt!payload(v, t, m, c)
  BY DEF Receipt!Payloads
<1>3. QED BY <1>1, <1>2

\* A vector is signed over the payload its signer was given.
LEMMA GenuineReceipt == ASSUME NEW v \in Receipt!Vectors PROVE IsReceipt(v)
<1>1. PICK p, k, t, r :
        /\ p \in Receipt!Payloads /\ t \in {1, 2} /\ v = Receipt!vec(r, p, k, t)
        /\ r = Receipt!eip712(p, k, t) \/ (r = Receipt!jws(p, k) /\ t = 2)
  <2>1. CASE v \in {Receipt!vec(Receipt!eip712(p, k, t), p, k, t) : p \in Receipt!Payloads, k \in {"seller", "stranger"}, t \in {1, 2}}
    BY <2>1
  <2>2. CASE v \in {Receipt!vec(Receipt!jws(p, k), p, k, 2) : p \in Receipt!Payloads, k \in {"seller", "stranger"}}
    BY <2>2
  <2>3. QED BY <2>1, <2>2 DEF Receipt!Vectors
<1>2. /\ {"receipt", "authorized", "salt", "asset", "candidates", "signed"} \subseteq DOMAIN v
      /\ v.receipt = r /\ v.signed.payload = p /\ v.signed.by = k /\ v.signed.types = t
      /\ v.authorized.eip712 = {"seller"} /\ v.authorized.jws = [kid1 |-> "seller"]
      /\ {"obtained", "set"} \subseteq DOMAIN v.candidates /\ v.candidates.set = Receipt!Candidates
  BY <1>1 DEF Receipt!vec
<1>3. \A c \in Receipt!Candidates : c = [nonce |-> c.nonce, tx |-> c.tx]
  BY DEF Receipt!Candidates
<1>4. /\ {"format", "shape", "encoded", "payload", "duplicated", "alg", "kid", "signature"} \subseteq DOMAIN r
      /\ {"by", "over"} \subseteq DOMAIN r.signature /\ r.payload = p /\ r.signature.by = k
      /\ r.format = "eip712" => r.signature.over = Receipt!eip712_digest(p, t)
      /\ r.format = "jws" => t = 2 /\ r.signature.over = Receipt!jws_digest("kid1", p)
  BY <1>1 DEF Receipt!eip712, Receipt!jws, Receipt!Signature
<1>5. QED BY <1>1, <1>2, <1>3, <1>4, PayloadsAre DEF IsReceipt

\* No alteration of a receipt reaches the signature it carries.
LEMMA AlteredReceipt ==
  ASSUME NEW v, IsReceipt(v), NEW d \in Receipt!Altered(v)
  PROVE  IsReceipt(d)
<1>1. CASE \E f \in PayloadField : \E x : d = [v EXCEPT !.receipt.payload[f] = x]
  BY <1>1 DEF IsReceipt
<1>2. CASE d = [v EXCEPT !.receipt.signature.by = "none"]
  BY <1>2 DEF IsReceipt
<1>3. CASE d = [v EXCEPT !.receipt.format = "other"]
  BY <1>3 DEF IsReceipt
<1>4. CASE \E f \in {"encoded", "shape", "duplicated", "alg", "kid"} : \E x : d = [v EXCEPT !.receipt[f] = x]
  BY <1>4 DEF IsReceipt
<1>5. CASE \E f \in {"salt", "asset"} : \E x : d = [v EXCEPT ![f] = x]
  BY <1>5 DEF IsReceipt
<1>6. CASE \/ d = [v EXCEPT !.candidates.set = {}] \/ d = [v EXCEPT !.candidates.obtained = FALSE]
           \/ d = [v EXCEPT !.candidates.set = @ \union {[nonce |-> "a", tx |-> "tb"]}]
  BY <1>6 DEF IsReceipt
<1>7. QED BY <1>1, <1>2, <1>3, <1>4, <1>5, <1>6 DEF Receipt!Altered, PayloadField

\* What an authorized signer of a receipt that has a commitment signed is the whole payload.
LEMMA SignedWhole ==
  ASSUME NEW v, IsReceipt(v), Receipt!check_receipt(v.receipt, v.authorized).receipt = "valid", v.receipt.payload.version = 2
  PROVE  v.signed.by = "seller" /\ v.signed.types = 2 /\ v.receipt.payload = v.signed.payload
<1> DEFINE r == v.receipt
           p == v.receipt.payload
           q == v.signed.payload
<1>1. CASE r.format = "eip712"
  <2>1. Receipt!CheckEip712(r, v.authorized).receipt = "valid"
    BY <1>1 DEF Receipt!check_receipt
  <2>2. Receipt!recover_address(r.signature, Receipt!eip712_digest(p, p.version)) \in v.authorized.eip712
    BY <2>1 DEF Receipt!CheckEip712, Receipt!Rejected
  <2>3. r.signature.by = "seller" /\ r.signature.over = Receipt!eip712_digest(p, 2)
    BY <2>2 DEF Receipt!recover_address, IsReceipt
  <2>4. Receipt!eip712_digest(p, 2) = Receipt!eip712_digest(q, v.signed.types)
    BY <1>1, <2>3 DEF IsReceipt
  <2>5. Receipt!RECEIPT_FIELDS(2) = PayloadField
    BY DEF Receipt!RECEIPT_FIELDS, PayloadField
  <2>6. "authorizationMethod" \notin Receipt!RECEIPT_FIELDS(1)
    BY DEF Receipt!RECEIPT_FIELDS
  <2>7. \A t, y : DOMAIN Receipt!eip712_digest(y, t) = Receipt!RECEIPT_FIELDS(t)
    BY DEF Receipt!eip712_digest
  <2>8. v.signed.types = 2
    <3>1. Receipt!RECEIPT_FIELDS(v.signed.types) = PayloadField
      BY <2>4, <2>5, <2>7
    <3>2. QED BY <3>1, <2>6 DEF PayloadField, IsReceipt
  <2>9. \A f \in PayloadField : p[f] = q[f]
    BY <2>4, <2>5, <2>8 DEF Receipt!eip712_digest
  <2>10. p = q
    BY <2>9 DEF IsReceipt
  <2>11. QED BY <2>3, <2>8, <2>10 DEF IsReceipt
<1>2. CASE r.format = "jws"
  <2>1. Receipt!CheckJws(r, v.authorized).receipt = "valid"
    BY <1>2 DEF Receipt!check_receipt
  <2>2. r.kid \in DOMAIN v.authorized.jws /\ Receipt!recover_address(r.signature, Receipt!jws_digest(r.kid, p)) = v.authorized.jws[r.kid]
    BY <2>1 DEF Receipt!CheckJws, Receipt!Rejected
  <2>3. v.authorized.jws[r.kid] = "seller"
    BY <2>2 DEF IsReceipt
  <2>4. r.signature.by = "seller" /\ r.signature.over = Receipt!jws_digest(r.kid, p)
    BY <2>2, <2>3 DEF Receipt!recover_address
  <2>5. v.signed.types = 2 /\ Receipt!jws_digest("kid1", q) = Receipt!jws_digest(r.kid, p)
    BY <1>2, <2>4 DEF IsReceipt
  <2>6. p = q
    BY <2>5 DEF Receipt!jws_digest
  <2>7. QED BY <2>4, <2>5, <2>6 DEF IsReceipt
<1>3. CASE r.format \notin {"eip712", "jws"}
  BY <1>3 DEF Receipt!check_receipt, Receipt!Rejected
<1>4. QED BY <1>1, <1>2, <1>3

\* evaluate() of receipt_check.py says linked only where the seller signed a
\* commitment that opens to one payment of the payer.
LEMMA VerdictReceipt ==
  ASSUME NEW v, IsReceipt(v), Verdict("receipt", v).exit = 0
  PROVE  Receipt!LinkSound(v)
<1> DEFINE p == v.receipt.payload
           M == Receipt!Opens(p, v.salt, v.asset, v.candidates)
           m == CHOOSE c \in M : TRUE
<1>1. PICK w : w = Receipt!evaluate(v).link.result
  OBVIOUS
<1>2. w = "linked"
  <2>1. Verdict("receipt", v) = Says(w, {"linked"})
    BY <1>1 DEF Verdict
  <2>2. QED BY <2>1 DEF Says
<1>3. /\ Receipt!check_receipt(v.receipt, v.authorized).receipt = "valid"
      /\ Receipt!link(p, v.salt, v.asset, v.candidates).result = "linked"
  BY <1>1, <1>2 DEF Receipt!evaluate, Receipt!NoLink
<1>4. p.version = 2 /\ Receipt!Cardinality(M) = 1 /\ p.transaction \in {"", m.tx}
  BY <1>3 DEF Receipt!link, Receipt!NoLink
<1>5. v.signed.by = "seller" /\ v.signed.types = 2 /\ p = v.signed.payload
  BY <1>3, <1>4, SignedWhole
<1>6. M # {}
  <2>1. \A S : Receipt!Cardinality(S) = Cardinality(S)
    BY DEF Cardinality, Receipt!Cardinality
  <2> HIDE DEF M
  <2>2. Cardinality(M) = 1
    BY <1>4, <2>1
  <2>3. Cardinality({}) = 0
    BY FS_EmptySet
  <2>4. QED BY <2>2, <2>3
<1>7. m \in M
  <2> HIDE DEF M
  <2>1. QED BY <1>6
<1>8. \A c \in v.candidates.set : c \in M <=> <<p.authorizationMethod, v.asset, p.payer, c.nonce, v.salt>> = p.authorizationCommitment
  BY DEF Receipt!Opens, Receipt!Commitment
<1>9. M \subseteq v.candidates.set
  BY DEF Receipt!Opens
<1> HIDE DEF M, m
<1>10. p.authorizationCommitment = <<p.authorizationMethod, v.asset, p.payer, m.nonce, v.salt>> /\ m \in v.candidates.set
  BY <1>7, <1>8, <1>9
<1>11. p.authorizationCommitment[3] = p.payer /\ p.authorizationCommitment[4] = m.nonce
  BY <1>10
<1>12. {c \in v.candidates.set : c.nonce = p.authorizationCommitment[4]} = M
  <2>1. \A c \in v.candidates.set : c \in M <=> c.nonce = m.nonce
    BY <1>8, <1>10
  <2>2. QED BY <1>9, <1>11, <2>1
<1>13. m = [nonce |-> m.nonce, tx |-> m.tx]
  BY <1>10 DEF IsReceipt
<1>14. p.transaction = "" \/ [nonce |-> p.authorizationCommitment[4], tx |-> p.transaction] \in M
  BY <1>4, <1>7, <1>11, <1>13
<1>15. QED BY <1>4, <1>5, <1>11, <1>12, <1>14 DEF Receipt!LinkSound
-----------------------------------------------------------------------------
(* Statement logs *)

StatementField == {"type", "receipt", "rater", "agent", "result", "read_at", "seq", "prev", "verifier", "signature"}

IsStatement(s, signed) ==
  /\ DOMAIN s = StatementField /\ s = [f \in StatementField |-> s[f]]
  /\ s.signature = Receipt!Signature(s.signature.by, s.signature.over)
  /\ s.signature.by = "verifier" => \E k \in 1..3 : s.signature.over = Receipt!Body(signed[k])

IsLog(c) ==
  /\ {"log", "signed"} \subseteq DOMAIN c
  /\ \E r : c.signed = Receipt!Log(r)
  /\ \E S : c.log \in Seq(S) /\ \A s \in S : IsStatement(s, c.signed)

\* A statement is signed by its verifier over all its other members.
LEMMA StatedIs ==
  ASSUME NEW agent, NEW res, NEW seq, NEW prv, NEW verifier, NEW s,
         s = Receipt!Stated(agent, res, seq, prv, verifier)
  PROVE  /\ DOMAIN s = StatementField /\ s = [f \in StatementField |-> s[f]]
         /\ s.signature = Receipt!Signature(verifier, Receipt!Body(s))
         /\ s.signature.by = verifier /\ s.signature.over = Receipt!Body(s)
         /\ s.seq = seq /\ s.verifier = verifier
<1> DEFINE st == [type |-> "opening/1", receipt |-> "receipt", rater |-> "rater", agent |-> agent, result |-> res,
                  read_at |-> <<"head">>, seq |-> seq, prev |-> prv, verifier |-> verifier,
                  signature |-> Receipt!Signature("none", {})]
<1>1. s = [st EXCEPT !.signature = Receipt!Signature(verifier, Receipt!Body(st))]
  BY DEF Receipt!Stated, Receipt!make_statement
<1>2. DOMAIN st = StatementField /\ st.seq = seq /\ st.verifier = verifier
  BY DEF StatementField
<1> HIDE DEF st
<1>3. /\ DOMAIN s = StatementField /\ s = [f \in StatementField |-> s[f]]
      /\ s.signature = Receipt!Signature(verifier, Receipt!Body(st))
      /\ \A f \in StatementField \ {"signature"} : s[f] = st[f]
  BY <1>1, <1>2 DEF StatementField
<1>4. Receipt!Body(s) = Receipt!Body(st)
  BY <1>2, <1>3 DEF Receipt!Body
<1>5. QED BY <1>2, <1>3, <1>4 DEF StatementField, Receipt!Signature

IsWritten(l) ==
  /\ Len(l) = 3 /\ DOMAIN l = 1..3 /\ l = <<l[1], l[2], l[3]>>
  /\ \A k \in 1..3 : /\ DOMAIN l[k] = StatementField /\ l[k] = [f \in StatementField |-> l[k][f]]
                     /\ l[k].seq = k - 1 /\ IsStatement(l[k], l)
                     /\ l[k].signature = Receipt!Signature("verifier", Receipt!Body(l[k]))

\* The log of a verifier is three statements in sequence, each its own.
LEMMA LogIs ==
  ASSUME NEW r, NEW l, l = Receipt!Log(r)
  PROVE  IsWritten(l)
<1>1. Len(l) = 3 /\ DOMAIN l = 1..3 /\ l[1] = Receipt!S0 /\ l[2] = Receipt!S1(r) /\ l[3] = Receipt!S2(r) /\ l = <<l[1], l[2], l[3]>>
  BY DEF Receipt!Log
<1>2. \A k \in 1..3 : \E agent, res, prv : l[k] = Receipt!Stated(agent, res, k - 1, prv, "verifier")
  <2>1. \E agent, res, prv : l[1] = Receipt!Stated(agent, res, 0, prv, "verifier")
    BY <1>1 DEF Receipt!S0
  <2>2. \E agent, res, prv : l[2] = Receipt!Stated(agent, res, 1, prv, "verifier")
    BY <1>1 DEF Receipt!S1
  <2>3. \E agent, res, prv : l[3] = Receipt!Stated(agent, res, 2, prv, "verifier")
    BY <1>1 DEF Receipt!S2
  <2>4. QED BY <2>1, <2>2, <2>3
<1>3. ASSUME NEW k \in 1..3
      PROVE  /\ DOMAIN l[k] = StatementField /\ l[k] = [f \in StatementField |-> l[k][f]]
             /\ l[k].seq = k - 1 /\ IsStatement(l[k], l)
             /\ l[k].signature = Receipt!Signature("verifier", Receipt!Body(l[k]))
  <2>1. PICK agent, res, prv : l[k] = Receipt!Stated(agent, res, k - 1, prv, "verifier")
    BY <1>2
  <2>2. /\ DOMAIN l[k] = StatementField /\ l[k] = [f \in StatementField |-> l[k][f]]
        /\ l[k].signature = Receipt!Signature("verifier", Receipt!Body(l[k]))
        /\ l[k].signature.by = "verifier" /\ l[k].signature.over = Receipt!Body(l[k])
        /\ l[k].seq = k - 1
    BY <2>1, StatedIs
  <2>3. IsStatement(l[k], l)
    BY <2>2 DEF IsStatement
  <2>4. QED BY <2>2, <2>3
<1>4. QED BY <1>1, <1>3 DEF IsWritten

\* Every log starts as its verifier wrote it.
LEMMA GenuineLog == ASSUME NEW c \in Receipt!Logs PROVE IsLog(c)
<1>1. PICK r : c = [log |-> Receipt!Log(r), signed |-> Receipt!Log(r)]
  BY DEF Receipt!Logs
<1>2. PICK l : l = Receipt!Log(r)
  OBVIOUS
<1>3. {"log", "signed"} \subseteq DOMAIN c /\ c.log = l /\ c.signed = l
  BY <1>1, <1>2
<1>4. l \in Seq({l[1], l[2], l[3]}) /\ \A s \in {l[1], l[2], l[3]} : IsStatement(s, l)
  <2>1. l = <<l[1], l[2], l[3]>>
    BY <1>2, LogIs DEF IsWritten
  <2>2. IsStatement(l[1], l) /\ IsStatement(l[2], l) /\ IsStatement(l[3], l)
    <3>1. \A k \in 1..3 : IsStatement(l[k], l)
      BY <1>2, LogIs DEF IsWritten
    <3>2. QED BY <3>1
  <2>3. PICK x, y, z : x = l[1] /\ y = l[2] /\ z = l[3]
    OBVIOUS
  <2>4. <<x, y, z>> \in Seq({x, y, z})
    OBVIOUS
  <2>5. QED BY <2>1, <2>2, <2>3, <2>4
<1>5. QED BY <1>2, <1>3, <1>4 DEF IsLog

\* One statement of a log is replaced.
LEMMA ReplacedStatement ==
  ASSUME NEW c, IsLog(c), NEW i \in 1..Len(c.log), NEW e, IsStatement(e, c.signed), NEW d, d = [c EXCEPT !.log[i] = e]
  PROVE  IsLog(d)
<1>1. PICK S : c.log \in Seq(S) /\ \A s \in S : IsStatement(s, c.signed)
  BY DEF IsLog
<1>2. d.log = [c.log EXCEPT ![i] = e] /\ d.signed = c.signed /\ DOMAIN d = DOMAIN c
  BY DEF IsLog
<1>3. d.log \in Seq(S \union {e})
  BY <1>1, <1>2
<1>4. QED BY <1>1, <1>2, <1>3 DEF IsLog

\* A signature of the verifier is over one of the three statements it wrote,
\* however the log was altered.
LEMMA AlteredLog ==
  ASSUME NEW c, IsLog(c), NEW d \in Receipt!LogEdits(c)
  PROVE  IsLog(d)
<1> DEFINE n == Len(c.log)
<1>1. PICK S : c.log \in Seq(S) /\ \A s \in S : IsStatement(s, c.signed)
  BY DEF IsLog
<1>2. n \in Nat /\ DOMAIN c.log = 1..n /\ \A i \in 1..n : c.log[i] \in S /\ IsStatement(c.log[i], c.signed)
  BY <1>1
<1>3. CASE \E i \in 1..n : d = [c EXCEPT !.log = SubSeq(@, 1, i - 1) \o SubSeq(@, i + 1, n)]
  <2>1. PICK i \in 1..n : d = [c EXCEPT !.log = SubSeq(@, 1, i - 1) \o SubSeq(@, i + 1, n)]
    BY <1>3
  <2>2. SubSeq(c.log, 1, i - 1) \in Seq(S) /\ SubSeq(c.log, i + 1, n) \in Seq(S)
    BY <1>1, <1>2
  <2>3. d.log \in Seq(S) /\ d.signed = c.signed /\ DOMAIN d = DOMAIN c
    BY <2>1, <2>2 DEF IsLog
  <2>4. QED BY <1>1, <2>3 DEF IsLog
<1>4. CASE \E i, j \in 1..n : d = [c EXCEPT !.log = Receipt!Swapped(@, i, j)]
  <2>1. PICK i, j \in 1..n : d = [c EXCEPT !.log = Receipt!Swapped(@, i, j)]
    BY <1>4
  <2>2. d.log = Receipt!Swapped(c.log, i, j) /\ d.signed = c.signed /\ DOMAIN d = DOMAIN c
    BY <2>1 DEF IsLog
  <2>3. d.log \in Seq(S)
    BY <1>1, <1>2, <2>2 DEF Receipt!Swapped
  <2>4. QED BY <1>1, <2>2, <2>3 DEF IsLog
<1>5. CASE \E i \in 1..n : \E f \in StatementField \ {"signature"} : \E x : d = [c EXCEPT !.log[i][f] = x]
  <2>1. PICK i \in 1..n : \E f \in StatementField \ {"signature"} : \E x : d = [c EXCEPT !.log[i][f] = x]
    BY <1>5
  <2>2. PICK f \in StatementField \ {"signature"} : \E x : d = [c EXCEPT !.log[i][f] = x]
    BY <2>1
  <2>3. PICK x : d = [c EXCEPT !.log[i][f] = x]
    BY <2>2
  <2>4. PICK e : e = [c.log[i] EXCEPT ![f] = x]
    OBVIOUS
  <2>5. d = [c EXCEPT !.log[i] = e]
    BY <2>3, <2>4
  <2>6. IsStatement(e, c.signed)
    <3>1. IsStatement(c.log[i], c.signed)
      BY <1>2
    <3>2. DOMAIN e = StatementField /\ e = [g \in StatementField |-> e[g]]
      BY <2>4, <3>1 DEF IsStatement
    <3>3. e.signature = c.log[i].signature
      BY <2>4, <3>1 DEF IsStatement, StatementField
    <3>4. QED BY <3>1, <3>2, <3>3 DEF IsStatement
  <2>7. QED BY <2>5, <2>6, ReplacedStatement
<1>6. CASE \E i \in 1..n : d = [c EXCEPT !.log[i] = Receipt!Forged(c.log, i)]
  <2>1. PICK i \in 1..n : d = [c EXCEPT !.log[i] = Receipt!Forged(c.log, i)]
    BY <1>6
  <2>2. PICK e : e = Receipt!Forged(c.log, i)
    OBVIOUS
  <2>3. IsStatement(e, c.signed)
    BY <2>2, StatedIs DEF IsStatement, Receipt!Forged
  <2>4. QED BY <2>1, <2>2, <2>3, ReplacedStatement
<1>7. QED
  <2> DEFINE A == {[c EXCEPT !.log = SubSeq(@, 1, i - 1) \o SubSeq(@, i + 1, n)] : i \in 1..n}
             B == {[c EXCEPT !.log = Receipt!Swapped(@, i, j)] : i, j \in 1..n}
             C == {[c EXCEPT !.log[i].result = r] : i \in 1..n, r \in {"opens_to_settlement", "no_settlement"}}
             D == {[c EXCEPT !.log[i].agent = "agent9"] : i \in 1..n}
             E == {[c EXCEPT !.log[i].seq = i - 1] : i \in 1..n}
             F == {[c EXCEPT !.log[i].prev = IF i = 1 THEN <<>> ELSE <<c.log[i - 1]>>] : i \in 1..n}
             G == {[c EXCEPT !.log[i] = Receipt!Forged(c.log, i)] : i \in 1..n}
             H == {[c EXCEPT !.log[i].type = "opening/0"] : i \in 1..n}
  <2>1. Receipt!LogEdits(c) = A \union B \union C \union D \union E \union F \union G \union H
    BY DEF Receipt!LogEdits
  <2>2. CASE d \in A
    BY <1>3, <2>2
  <2>3. CASE d \in B
    BY <1>4, <2>3
  <2>4. CASE d \in C
    <3>1. PICK i \in 1..n, r \in {"opens_to_settlement", "no_settlement"} : d = [c EXCEPT !.log[i].result = r]
      BY <2>4
    <3>2. "result" \in StatementField \ {"signature"} /\ d = [c EXCEPT !.log[i]["result"] = r]
      BY <3>1 DEF StatementField
    <3>3. QED BY <1>5, <3>2
  <2>5. CASE d \in D \/ d \in E
    BY <1>5, <2>5 DEF StatementField
  <2>6. CASE d \in F
    BY <1>5, <2>6 DEF StatementField
  <2>7. CASE d \in G
    BY <1>6, <2>7
  <2>8. CASE d \in H
    BY <1>5, <2>8 DEF StatementField
  <2> HIDE DEF A, B, C, D, E, F, G, H
  <2>9. QED BY <2>1, <2>2, <2>3, <2>4, <2>5, <2>6, <2>7, <2>8

\* A statement in the trusted verifier's name whose signature holds is one it made.
LEMMA VerifierStated ==
  ASSUME NEW c, IsLog(c), NEW s, IsStatement(s, c.signed), Receipt!signature_ok(s), s.verifier = "verifier"
  PROVE  \E k \in 1..3 : s = c.signed[k]
<1>1. PICK r : c.signed = Receipt!Log(r)
  BY DEF IsLog
<1>2. s.signature.by = "verifier" /\ s.signature.over = Receipt!Body(s)
  BY DEF Receipt!signature_ok
<1>3. PICK k \in 1..3 : s.signature.over = Receipt!Body(c.signed[k])
  BY <1>2 DEF IsStatement
<1>4. PICK q : q = c.signed[k]
  OBVIOUS
<1>5. /\ DOMAIN q = StatementField /\ q = [f \in StatementField |-> q[f]]
      /\ q.signature = Receipt!Signature("verifier", Receipt!Body(q))
  <2>1. IsWritten(c.signed)
    BY <1>1, LogIs
  <2>2. QED BY <1>4, <2>1 DEF IsWritten
<1>6. DOMAIN s = StatementField /\ s = [f \in StatementField |-> s[f]] /\ s.signature = q.signature
  BY <1>2, <1>3, <1>4, <1>5 DEF IsStatement
<1>7. \A f \in StatementField \ {"signature"} : s[f] = q[f]
  BY <1>2, <1>3, <1>4, <1>5, <1>6 DEF Receipt!Body
<1>8. \A f \in StatementField : s[f] = q[f]
  BY <1>6, <1>7
<1>9. s = q
  BY <1>5, <1>6, <1>8
<1>10. QED BY <1>4, <1>9

\* log_ok() of statement.py holds only for what the verifier wrote, in its order.
LEMMA VerdictLog ==
  ASSUME NEW c, IsLog(c), Verdict("statement_log", c).exit = 0
  PROVE  Receipt!LogSound(c)
<1>1. Receipt!log_ok(c.log)
  <2>1. PICK w : w = IF Receipt!log_ok(c.log) THEN "ok" ELSE "broken"
    OBVIOUS
  <2>2. Verdict("statement_log", c) = Says(w, {"ok"})
    BY <2>1 DEF Verdict
  <2>3. w = "ok"
    BY <2>2 DEF Says
  <2>4. QED BY <2>1, <2>3
<1>2. PICK S : c.log \in Seq(S) /\ \A s \in S : IsStatement(s, c.signed)
  BY DEF IsLog
<1>3. PICK r : c.signed = Receipt!Log(r)
  BY DEF IsLog
<1>4. Len(c.log) \in Nat /\ DOMAIN c.log = 1..Len(c.log) /\ \A i \in DOMAIN c.log : IsStatement(c.log[i], c.signed)
  BY <1>2
<1>5. \A i \in DOMAIN c.log : c.log[i].seq = i - 1 /\ Receipt!signature_ok(c.log[i])
  BY <1>1 DEF Receipt!log_ok
<1>6. /\ Len(c.signed) = 3 /\ DOMAIN c.signed = 1..3 /\ c.signed = <<c.signed[1], c.signed[2], c.signed[3]>>
      /\ \A k \in 1..3 : c.signed[k].seq = k - 1
  <2>1. IsWritten(c.signed)
    BY <1>3, LogIs
  <2>2. QED BY <2>1 DEF IsWritten
<1>7. \A i \in DOMAIN c.log : c.log[i].verifier = "verifier" => i \in 1..3 /\ c.log[i] = c.signed[i]
  <2> SUFFICES ASSUME NEW i \in DOMAIN c.log, c.log[i].verifier = "verifier"
               PROVE  i \in 1..3 /\ c.log[i] = c.signed[i]
    OBVIOUS
  <2>1. PICK k \in 1..3 : c.log[i] = c.signed[k]
    BY <1>4, <1>5, VerifierStated
  <2>2. i - 1 = k - 1
    BY <1>5, <1>6, <2>1
  <2>3. i = k
    BY <1>4, <2>2
  <2>4. QED BY <2>1, <2>3
<1>8. Receipt!PairsOf(c.log) \subseteq Receipt!PairsOf(c.signed)
  <2> SUFFICES ASSUME NEW x \in Receipt!PairsOf(c.log) PROVE x \in Receipt!PairsOf(c.signed)
    OBVIOUS
  <2>1. PICK i \in DOMAIN c.log :
          /\ x = <<c.log[i].rater, c.log[i].agent>> /\ c.log[i].result = "opens_to_settlement" /\ c.log[i].verifier = "verifier"
          /\ Receipt!signature_ok(c.log[i]) /\ Receipt!ReadAtOk(c.log[i])
    BY DEF Receipt!PairsOf, Receipt!grounded_pairs
  <2>2. i \in DOMAIN c.signed /\ c.log[i] = c.signed[i]
    BY <1>6, <1>7, <2>1
  <2>3. QED BY <2>1, <2>2 DEF Receipt!PairsOf, Receipt!grounded_pairs
<1>9. ASSUME \A i \in DOMAIN c.log : c.log[i].verifier = "verifier"
      PROVE  Len(c.log) <= Len(c.signed) /\ c.log = SubSeq(c.signed, 1, Len(c.log))
  <2>1. \A i \in 1..Len(c.log) : i \in 1..3 /\ c.log[i] = c.signed[i]
    BY <1>4, <1>7, <1>9
  <2>2. Len(c.log) <= 3
    BY <1>4, <2>1
  <2>3. c.signed \in Seq({c.signed[1], c.signed[2], c.signed[3]})
    <3>1. PICK x, y, z : x = c.signed[1] /\ y = c.signed[2] /\ z = c.signed[3]
      OBVIOUS
    <3>2. <<x, y, z>> \in Seq({x, y, z})
      OBVIOUS
    <3>3. QED BY <1>6, <3>1, <3>2
  <2>4. PICK q : q = SubSeq(c.signed, 1, Len(c.log))
    OBVIOUS
  <2>5. q \in Seq({c.signed[1], c.signed[2], c.signed[3]}) /\ Len(q) = Len(c.log) /\ \A i \in 1..Len(c.log) : q[i] = c.signed[i]
    BY <1>4, <1>6, <2>2, <2>3, <2>4
  <2>6. q = c.log
    <3>1. DOMAIN q = DOMAIN c.log
      BY <1>4, <2>5
    <3>2. \A i \in 1..Len(c.log) : q[i] = c.log[i]
      BY <2>1, <2>5
    <3>3. QED BY <1>2, <1>4, <2>5, <3>1, <3>2, SeqEqual
  <2>7. QED BY <1>6, <2>2, <2>4, <2>6
<1>10. QED BY <1>8, <1>9 DEF Receipt!LogSound
-----------------------------------------------------------------------------
(* Procedure manifests *)

IsClaim(c, nonce) ==
  /\ {"run", "attempt", "request", "profile", "proof", "by"} \subseteq DOMAIN c
  /\ c.run = nonce /\ c.profile = "bip340" /\ c.attempt \in Nat

IsTerminal(t) ==
  /\ {"claim", "status", "output", "scope", "by"} \subseteq DOMAIN t
  /\ t.status \in {"RESULT", "UNRESOLVED", "NO_RESULT"}
  /\ t.scope \in {Procedure!Full, {"criteria"}}

IsEntry(e) == e = Procedure!Dispute("n1") \/ e[1] = "claim"

Claimed(s) == \E nonce, C : s \in Seq(C) /\ \A c \in C : IsClaim(c, nonce)
Terminals(s) == \E T : s \in Seq(T) /\ \A t \in T : IsTerminal(t)
Ordered(s) == \E E : s \in Seq(E) /\ \A e \in E : IsEntry(e)

\* A log that records a claim of an attempt records one of every attempt before it.
FromFirst(s) ==
  \A i \in DOMAIN s : s[i][1] = "claim" =>
    \A k \in 0..(s[i][3] - 1) : \E j \in DOMAIN s : s[j][1] = "claim" /\ s[j][3] = k

IsPackage(p) ==
  /\ {"manifest", "dispute", "committed", "claims", "terminals", "log", "receipt"} \subseteq DOMAIN p
  /\ {"profile", "allowed", "max"} \subseteq DOMAIN p.manifest /\ p.manifest.max \in Nat
  /\ {"there", "chained", "head", "by", "entries"} \subseteq DOMAIN p.log
  /\ Claimed(p.claims) /\ Terminals(p.terminals) /\ Ordered(p.log.entries)
  /\ FromFirst(p.log.entries)

IsCore(c) == \E nonce : IsClaim(c, nonce)

\* Every attempt of a run but the first follows the one before it.
Attempts(s) ==
  \A i \in 1..Len(s) : \A k \in 0..(s[i].attempt - 1) : \E j \in 1..Len(s) : s[j].attempt = k

\* The claims of every run name an attempt and one profile, from attempt 0 on.
LEMMA RunsAre ==
  ASSUME NEW s \in Procedure!Runs
  PROVE  Len(s) \in Nat /\ Attempts(s) /\ \E C : s \in Seq(C) /\ \A c \in C : IsCore(c)
<1>1. \A a \in Nat : \A q, at : IsCore(Procedure!claim(a, q, at))
  BY DEF IsCore, IsClaim, Procedure!claim
<1>2. PICK x, y, z, u : /\ x = Procedure!claim(0, "q", 1) /\ y = Procedure!claim(1, "q", 2)
                        /\ z = Procedure!claim(0, "wrong", 2) /\ u = Procedure!claim(0, "wrong", 1)
  OBVIOUS
<1>3. s \in {<<x>>, <<x, y>>, <<x, z>>, <<u>>, <<>>}
  BY <1>2 DEF Procedure!Runs
<1>4. s \in Seq({x, y, z, u}) /\ Len(s) \in Nat
  <2>1. <<x>> \in Seq({x, y, z, u}) /\ <<u>> \in Seq({x, y, z, u}) /\ <<>> \in Seq({x, y, z, u})
    OBVIOUS
  <2>2. <<x, y>> \in Seq({x, y, z, u}) /\ <<x, z>> \in Seq({x, y, z, u})
    OBVIOUS
  <2>3. s \in Seq({x, y, z, u})
    BY <1>3, <2>1, <2>2
  <2>4. QED BY <2>3
<1>5. Attempts(s)
  <2>1. x.attempt = 0 /\ y.attempt = 1 /\ z.attempt = 0 /\ u.attempt = 0
    BY <1>2 DEF Procedure!claim
  <2>2. CASE s = <<x>> \/ s = <<u>> \/ s = <<x, z>>
    <3>1. \A i \in 1..Len(s) : s[i].attempt = 0
      BY <2>1, <2>2
    <3>2. QED BY <3>1 DEF Attempts
  <2>3. CASE s = <<x, y>>
    <3>1. Len(s) = 2 /\ s[1].attempt = 0 /\ s[2].attempt = 1
      BY <2>1, <2>3
    <3>2. QED BY <3>1 DEF Attempts
  <2>4. CASE s = <<>>
    BY <2>4 DEF Attempts
  <2>5. QED BY <1>3, <2>2, <2>3, <2>4
<1>6. QED BY <1>1, <1>2, <1>4, <1>5

IsOutcome(x) == x[2] \in {"RESULT", "UNRESOLVED", "NO_RESULT"}

\* Every attested outcome has one of three statuses.
LEMMA OutcomesAre ==
  ASSUME NEW n, NEW o \in Procedure!Outcomes(n)
  PROVE  \E O : o \in Seq(O) /\ \A x \in O : IsOutcome(x)
<1>1. CASE o = <<>>
  <2>1. o \in Seq({}) /\ \A x \in {} : IsOutcome(x)
    BY <1>1
  <2>2. QED BY <2>1
<1>2. CASE \E x : o = <<x>> /\ IsOutcome(x)
  <2>1. PICK x : o = <<x>> /\ IsOutcome(x)
    BY <1>2
  <2>2. o \in Seq({x}) /\ \A y \in {x} : IsOutcome(y)
    BY <2>1
  <2>3. QED BY <2>2
<1>3. CASE \E x, y : o = <<x, y>> /\ IsOutcome(x) /\ IsOutcome(y)
  <2>1. PICK x, y : o = <<x, y>> /\ IsOutcome(x) /\ IsOutcome(y)
    BY <1>3
  <2>2. o \in Seq({x, y}) /\ \A z \in {x, y} : IsOutcome(z)
    BY <2>1
  <2>3. QED BY <2>2
<1>4. o = <<>> \/ (\E x : o = <<x>> /\ IsOutcome(x)) \/ (\E x, y : o = <<x, y>> /\ IsOutcome(x) /\ IsOutcome(y))
  <2>1. \A i, s, r : s \in {"RESULT", "UNRESOLVED", "NO_RESULT"} => IsOutcome(<<i, s, r>>)
    BY DEF IsOutcome
  <2> DEFINE A == {<<<<1, s, "PASS">>>> : s \in {"RESULT"}}
             B == {<<<<1, s, "none">>>> : s \in {"UNRESOLVED", "NO_RESULT"}}
             C == {<<<<1, "RESULT", "PASS">>, <<1, "RESULT", "FAIL">>>>}
             D == {<<<<1, s, "none">>, <<2, "RESULT", "PASS">>>> : s \in {"UNRESOLVED", "NO_RESULT"}}
             E == {<<<<2, "RESULT", "PASS">>>>}
  <2>2. o \in {<<>>} \/ o \in A \/ o \in B \/ o \in C \/ o \in D \/ o \in E
    BY DEF Procedure!Outcomes
  <2>3. CASE o \in A \/ o \in B \/ o \in E
    BY <2>1, <2>3
  <2>4. CASE o \in C \/ o \in D
    BY <2>1, <2>4
  <2> HIDE DEF A, B, C, D, E
  <2>5. QED BY <2>2, <2>3, <2>4
<1>5. QED BY <1>1, <1>2, <1>3, <1>4

\* Two sequences one after the other.
LEMMA OneAfterOther ==
  ASSUME NEW T, NEW d \in Seq(T), NEW b \in Seq(T)
  PROVE  /\ DOMAIN (d \o b) = 1..(Len(d) + Len(b))
         /\ \A i \in 1..Len(d) : (d \o b)[i] = d[i]
         /\ \A i \in 1..Len(b) : (d \o b)[Len(d) + i] = b[i]
<1>1. PICK e : e = d \o b
  OBVIOUS
<1>2. /\ e \in Seq(T) /\ Len(e) = Len(d) + Len(b)
      /\ \A i \in 1..Len(d) + Len(b) : e[i] = IF i <= Len(d) THEN d[i] ELSE b[i - Len(d)]
  BY <1>1, ConcatProperties
<1>3. Len(b) \in Nat /\ Len(d) \in Nat
  OBVIOUS
<1>4. DOMAIN e = 1..(Len(d) + Len(b))
  BY <1>2, <1>3
<1>5. ASSUME NEW i \in 1..Len(d) PROVE e[i] = d[i]
  <2>1. i \in 1..Len(d) + Len(b) /\ i <= Len(d)
    BY <1>3
  <2>2. QED BY <1>2, <2>1
<1>6. ASSUME NEW i \in 1..Len(b) PROVE e[Len(d) + i] = b[i]
  <2>1. Len(d) + i \in 1..Len(d) + Len(b) /\ ~(Len(d) + i <= Len(d)) /\ (Len(d) + i) - Len(d) = i
    BY <1>3
  <2>2. QED BY <1>2, <2>1
<1>7. QED BY <1>1, <1>4, <1>5, <1>6

\* The log in which the dispute follows the first place records.
PutIn(r, place, D) == SubSeq(r, 1, place) \o <<D>> \o SubSeq(r, place + 1, Len(r))

\* Where the records of a log stand when the dispute is put in after place of them.
LEMMA LogPlaces ==
  ASSUME NEW S, NEW r \in Seq(S), NEW place \in 0..Len(r), NEW D
  PROVE  /\ DOMAIN PutIn(r, place, D) = 1..(Len(r) + 1)
         /\ \A i \in 1..place : PutIn(r, place, D)[i] = r[i]
         /\ PutIn(r, place, D)[place + 1] = D
         /\ \A i \in (place + 1)..Len(r) : PutIn(r, place, D)[i + 1] = r[i]
<1>1. Len(r) \in Nat /\ place \in Nat /\ place <= Len(r)
  OBVIOUS
<1>2. PICK a, b : a = SubSeq(r, 1, place) /\ b = SubSeq(r, place + 1, Len(r))
  OBVIOUS
<1>3. /\ a \in Seq(S) /\ Len(a) = place /\ \A i \in 1..place : a[i] = r[i]
      /\ b \in Seq(S) /\ Len(b) = Len(r) - place /\ \A i \in 1..Len(b) : b[i] = r[place + i]
  BY <1>1, <1>2
<1>4. PICK d : d = a \o <<D>>
  OBVIOUS
<1>5. d \in Seq(S \union {D}) /\ Len(d) = place + 1 /\ d[place + 1] = D /\ \A i \in 1..place : d[i] = r[i]
  <2>1. PICK T : T = S \union {D}
    OBVIOUS
  <2>2. PICK x : x = <<D>>
    OBVIOUS
  <2>3. a \in Seq(T) /\ x \in Seq(T) /\ Len(x) = 1 /\ x[1] = D
    BY <1>3, <2>1, <2>2
  <2>4. d = a \o x
    BY <1>4, <2>2
  <2>5. d \in Seq(T) /\ Len(d) = Len(a) + Len(x)
    BY <2>3, <2>4, ConcatProperties
  <2>6. (\A i \in 1..Len(a) : d[i] = a[i]) /\ (\A i \in 1..Len(x) : d[Len(a) + i] = x[i])
    <3>1. a \in Seq(T)
      BY <2>3
    <3>2. x \in Seq(T)
      BY <2>3
    <3>3. (\A i \in 1..Len(a) : (a \o x)[i] = a[i]) /\ (\A i \in 1..Len(x) : (a \o x)[Len(a) + i] = x[i])
      BY <3>1, <3>2, OneAfterOther
    <3>4. QED BY <2>4, <3>3, Zenon
  <2>7. QED BY <1>1, <1>3, <2>1, <2>3, <2>5, <2>6
<1>6. PICK T : d \in Seq(T) /\ b \in Seq(T)
  <2>1. b \in Seq(S \union {D})
    BY <1>3
  <2>2. QED BY <1>5, <2>1
<1>7. PICK es : es = d \o b
  OBVIOUS
<1>8. /\ DOMAIN es = 1..(Len(d) + Len(b))
      /\ \A i \in 1..Len(d) : es[i] = d[i]
      /\ \A i \in 1..Len(b) : es[Len(d) + i] = b[i]
  BY <1>6, <1>7, OneAfterOther
<1>9. DOMAIN es = 1..(Len(r) + 1)
  <2>1. Len(d) + Len(b) = Len(r) + 1
    BY <1>1, <1>3, <1>5
  <2>2. QED BY <1>8, <2>1
<1>10. (\A i \in 1..place : es[i] = r[i]) /\ es[place + 1] = D
  <2>1. place + 1 \in 1..Len(d) /\ \A i \in 1..place : i \in 1..Len(d)
    BY <1>1, <1>5
  <2>2. QED BY <1>5, <1>8, <2>1
<1>11. ASSUME NEW i \in (place + 1)..Len(r) PROVE es[i + 1] = r[i]
  <2>1. i - place \in 1..Len(b) /\ Len(d) + (i - place) = i + 1 /\ place + (i - place) = i
    BY <1>1, <1>3, <1>5
  <2>2. es[Len(d) + (i - place)] = b[i - place] /\ b[i - place] = r[place + (i - place)]
    BY <1>3, <1>8, <2>1
  <2>3. QED BY <2>1, <2>2
<1>12. es = PutIn(r, place, D)
  BY <1>2, <1>4, <1>7 DEF PutIn
<1>13. QED BY <1>9, <1>10, <1>11, <1>12

\* A package of build.py: one run, attested terminals and an ordering log with
\* no dispute but the committed one.
LEMMA PackageIs ==
  ASSUME NEW nonce, NEW allowed, NEW max \in Nat, NEW C, NEW cores \in Seq(C), NEW place \in 0..Len(cores),
         \A c \in C : IsCore(c), Attempts(cores), NEW O, NEW outcomes \in Seq(O), \A x \in O : IsOutcome(x),
         NEW p, p = Procedure!pkg(nonce, allowed, max, cores, place, outcomes)
  PROVE  IsPackage(p)
<1> DEFINE claims == [i \in DOMAIN cores |-> [cores[i] EXCEPT !.run = nonce]]
           cs == Procedure!Proven(claims, place)
           ts == [i \in DOMAIN outcomes |-> Procedure!terminal(cs[outcomes[i][1]], outcomes[i][2], outcomes[i][3], Procedure!Full)]
           refs == [i \in DOMAIN claims |-> Procedure!claim_core(claims[i])]
           es == SubSeq(refs, 1, place) \o <<Procedure!Dispute("n1")>> \o SubSeq(refs, place + 1, Len(refs))
<1>1. /\ {"manifest", "dispute", "committed", "claims", "terminals", "log", "receipt"} \subseteq DOMAIN p
      /\ p.manifest = Procedure!manifest(allowed, max) /\ p.claims = cs /\ p.terminals = ts
      /\ p.log = Procedure!OrderingLog(claims, place, "anchor")
  <2> HIDE DEF cs, claims
  <2>1. QED BY DEF Procedure!pkg, cs, claims
<1>2. {"profile", "allowed", "max"} \subseteq DOMAIN p.manifest /\ p.manifest.max \in Nat
  BY <1>1 DEF Procedure!manifest
<1>3. {"there", "chained", "head", "by", "entries"} \subseteq DOMAIN p.log /\ p.log.entries = es
  <2> HIDE DEF claims
  <2>1. p.log = Procedure!OrderingLog(claims, place, "anchor")
    BY <1>1
  <2>2. PICK k : k = claims
    OBVIOUS
  <2>3. PICK l : l = Procedure!OrderingLog(k, place, "anchor")
    OBVIOUS
  <2>4. /\ {"there", "chained", "head", "by", "entries"} \subseteq DOMAIN l
        /\ l.entries = LET q == [i \in DOMAIN k |-> Procedure!claim_core(k[i])]
                        IN  SubSeq(q, 1, place) \o <<Procedure!Dispute("n1")>> \o SubSeq(q, place + 1, Len(q))
    BY <2>3 DEF Procedure!OrderingLog
  <2>5. QED BY <2>1, <2>2, <2>3, <2>4
<1>4. Len(cores) \in Nat /\ DOMAIN cores = 1..Len(cores) /\ DOMAIN claims = 1..Len(cores) /\ \A i \in 1..Len(cores) : IsCore(cores[i])
  OBVIOUS
<1>5. Claimed(cs)
  <2>1. cs = [i \in DOMAIN claims |-> [claims[i] EXCEPT !.proof = IF i <= place THEN i ELSE i + 1]]
    BY DEF Procedure!Proven
  <2>2. \A i \in 1..Len(cores) : IsClaim(claims[i], nonce)
    BY <1>4 DEF IsCore, IsClaim
  <2> HIDE DEF claims
  <2>3. \A i \in 1..Len(cores) : IsClaim(cs[i], nonce)
    <3> SUFFICES ASSUME NEW i \in 1..Len(cores) PROVE IsClaim(cs[i], nonce)
      OBVIOUS
    <3>1. PICK x : cs[i] = [claims[i] EXCEPT !.proof = x]
      BY <1>4, <2>1
    <3> HIDE DEF cs
    <3>2. QED BY <2>2, <3>1 DEF IsClaim
  <2>4. DOMAIN cs = 1..Len(cores)
    BY <1>4, <2>1
  <2>5. cs = [i \in 1..Len(cores) |-> cs[i]]
    BY <1>4, <2>1
  <2> HIDE DEF cs
  <2>6. cs \in Seq({cs[i] : i \in 1..Len(cores)})
    BY <1>4, <2>4, <2>5
  <2>7. \A c \in {cs[i] : i \in 1..Len(cores)} : IsClaim(c, nonce)
    BY <2>3
  <2>8. QED BY <2>6, <2>7 DEF Claimed
<1>6. Terminals(ts)
  <2>1. Len(outcomes) \in Nat /\ DOMAIN outcomes = 1..Len(outcomes) /\ \A i \in 1..Len(outcomes) : IsOutcome(outcomes[i])
    OBVIOUS
  <2>2. \A i \in 1..Len(outcomes) : IsTerminal(ts[i])
    <3> SUFFICES ASSUME NEW i \in 1..Len(outcomes) PROVE IsTerminal(ts[i])
      OBVIOUS
    <3>1. PICK x, y : ts[i] = Procedure!terminal(x, outcomes[i][2], y, Procedure!Full)
      <4> HIDE DEF cs
      <4>1. QED BY <2>1
    <3> HIDE DEF ts
    <3>2. QED BY <2>1, <3>1 DEF IsTerminal, Procedure!terminal, IsOutcome
  <2>3. ts = [i \in 1..Len(outcomes) |-> ts[i]]
    <3> HIDE DEF cs
    <3>1. QED BY <2>1
  <2> HIDE DEF ts
  <2>4. ts \in Seq({ts[i] : i \in 1..Len(outcomes)})
    BY <2>1, <2>3
  <2>5. QED BY <2>2, <2>4 DEF Terminals
<1>7. Ordered(es)
  <2>1. \A i \in 1..Len(cores) : IsEntry(refs[i])
    <3> HIDE DEF claims
    <3>1. QED BY <1>4 DEF IsEntry, Procedure!claim_core
  <2>2. refs = [i \in 1..Len(cores) |-> refs[i]]
    <3> HIDE DEF claims
    <3>1. QED BY <1>4
  <2> DEFINE R == {refs[i] : i \in 1..Len(cores)}
  <2>3. \A e \in R \union {Procedure!Dispute("n1")} : IsEntry(e)
    <3> HIDE DEF refs
    <3>1. QED BY <2>1 DEF IsEntry
  <2> HIDE DEF refs
  <2>4. refs \in Seq(R) /\ Len(refs) = Len(cores)
    BY <1>4, <2>2
  <2> HIDE DEF R
  <2>5. SubSeq(refs, 1, place) \in Seq(R) /\ SubSeq(refs, place + 1, Len(refs)) \in Seq(R)
    BY <1>4, <2>4
  <2>6. es \in Seq(R \union {Procedure!Dispute("n1")})
    BY <2>5
  <2> HIDE DEF es
  <2>7. QED BY <2>3, <2>6 DEF Ordered
<1>9. FromFirst(es)
  <2>1. \A i \in 1..Len(cores) : refs[i][1] = "claim" /\ refs[i][3] = cores[i].attempt
    <3>1. \A i \in 1..Len(cores) : claims[i].attempt = cores[i].attempt
      BY <1>4 DEF IsCore, IsClaim
    <3> HIDE DEF claims
    <3>2. QED BY <1>4, <3>1 DEF Procedure!claim_core
  <2>2. PICK D : D = Procedure!Dispute("n1")
    OBVIOUS
  <2>3. D[1] # "claim"
    BY <2>2 DEF Procedure!Dispute
  <2>4. refs \in Seq({refs[i] : i \in 1..Len(cores)}) /\ Len(refs) = Len(cores)
    <3>1. refs = [i \in 1..Len(cores) |-> refs[i]]
      <4> HIDE DEF claims
      <4>1. QED BY <1>4
    <3> HIDE DEF refs
    <3>2. QED BY <1>4, <3>1
  <2> HIDE DEF refs
  <2>5. PICK r : r = refs
    OBVIOUS
  <2>6. /\ r \in Seq({r[i] : i \in 1..Len(cores)}) /\ Len(r) = Len(cores)
        /\ es = SubSeq(r, 1, place) \o <<D>> \o SubSeq(r, place + 1, Len(r))
    BY <2>2, <2>4, <2>5
  <2> HIDE DEF es
  <2>7. /\ DOMAIN es = 1..(Len(cores) + 1)
        /\ \A i \in 1..place : es[i] = r[i]
        /\ es[place + 1] = D
        /\ \A i \in (place + 1)..Len(cores) : es[i + 1] = r[i]
    <3>1. PICK S : S = {r[i] : i \in 1..Len(cores)}
      OBVIOUS
    <3>2. r \in Seq(S) /\ place \in 0..Len(r)
      BY <2>6, <3>1
    <3>3. /\ DOMAIN es = 1..(Len(r) + 1)
          /\ \A i \in 1..place : es[i] = r[i]
          /\ es[place + 1] = D
          /\ \A i \in (place + 1)..Len(r) : es[i + 1] = r[i]
      <4>1. r \in Seq(S)
        BY <3>2
      <4>2. place \in 0..Len(r)
        BY <3>2
      <4>3. es = PutIn(r, place, D)
        BY <2>6 DEF PutIn
      <4>4. QED BY <4>1, <4>2, <4>3, LogPlaces
    <3>4. QED BY <2>6, <3>3
  <2>8. \A j \in 1..Len(cores) : \E i \in DOMAIN es : es[i] = r[j]
    <3>1. \A j \in 1..Len(cores) : j \in 1..place \/ (j \in (place + 1)..Len(cores) /\ j + 1 \in DOMAIN es)
      BY <1>4, <2>7
    <3>2. \A j \in 1..place : j \in DOMAIN es
      BY <1>4, <2>7
    <3>3. QED BY <2>7, <3>1, <3>2
  <2>9. \A i \in DOMAIN es : es[i] = D \/ \E j \in 1..Len(cores) : es[i] = r[j]
    <3>1. \A i \in DOMAIN es : i \in 1..place \/ i = place + 1 \/ i - 1 \in (place + 1)..Len(cores)
      BY <1>4, <2>7
    <3>2. \A i \in DOMAIN es : i - 1 \in (place + 1)..Len(cores) => es[i] = r[i - 1] /\ i - 1 \in 1..Len(cores)
      BY <1>4, <2>7
    <3>3. \A i \in 1..place : i \in 1..Len(cores)
      BY <1>4
    <3>4. QED BY <2>7, <3>1, <3>2, <3>3
  <2>10. ASSUME NEW i \in DOMAIN es, es[i][1] = "claim", NEW k \in 0..(es[i][3] - 1)
         PROVE  \E j \in DOMAIN es : es[j][1] = "claim" /\ es[j][3] = k
    <3>1. PICK m \in 1..Len(cores) : es[i] = r[m]
      BY <2>3, <2>9, <2>10
    <3>2. PICK n \in 1..Len(cores) : cores[n].attempt = k
      BY <2>1, <2>5, <2>10, <3>1 DEF Attempts
    <3>3. QED BY <2>1, <2>5, <2>8, <3>2
  <2>11. QED BY <2>10 DEF FromFirst
<1> HIDE DEF claims, cs, ts, refs, es
<1>8. QED BY <1>1, <1>2, <1>3, <1>5, <1>6, <1>7, <1>9 DEF IsPackage

\* Every package that build.py makes is of that form.
LEMMA GenuinePackage == ASSUME NEW p \in Procedure!Genuine PROVE IsPackage(p)
<1>1. CASE \E s \in Procedure!Runs : \E n, a : \E m \in {1, 2} : \E place \in 0..Len(s) : \E o \in Procedure!Outcomes(Len(s)) :
              p = Procedure!pkg(n, a, m, s, place, o)
  <2>1. PICK s \in Procedure!Runs : \E n, a : \E m \in {1, 2} : \E place \in 0..Len(s) : \E o \in Procedure!Outcomes(Len(s)) :
              p = Procedure!pkg(n, a, m, s, place, o)
    BY <1>1
  <2>2. PICK n, a : \E m \in {1, 2} : \E place \in 0..Len(s) : \E o \in Procedure!Outcomes(Len(s)) :
              p = Procedure!pkg(n, a, m, s, place, o)
    BY <2>1
  <2>3. PICK m \in {1, 2} : \E place \in 0..Len(s) : \E o \in Procedure!Outcomes(Len(s)) : p = Procedure!pkg(n, a, m, s, place, o)
    BY <2>2
  <2>4. PICK place \in 0..Len(s) : \E o \in Procedure!Outcomes(Len(s)) : p = Procedure!pkg(n, a, m, s, place, o)
    BY <2>3
  <2>5. PICK o \in Procedure!Outcomes(Len(s)) : p = Procedure!pkg(n, a, m, s, place, o)
    BY <2>4
  <2>6. PICK C : s \in Seq(C) /\ Attempts(s) /\ \A c \in C : IsCore(c)
    BY RunsAre
  <2>7. PICK O : o \in Seq(O) /\ \A x \in O : IsOutcome(x)
    BY OutcomesAre
  <2>8. QED BY <2>5, <2>6, <2>7, PackageIs
<1>2. CASE \E x : p = Procedure!admission(x)
  <2>1. PICK x : p = Procedure!admission(x)
    BY <1>2
  <2>2. PICK q : q = Procedure!pkg("n1", {}, 1, <<>>, 0, <<>>)
    OBVIOUS
  <2>3. IsPackage(q)
    <3>1. PICK e : e = <<>>
      OBVIOUS
    <3>2. PICK z : z = {}
      OBVIOUS
    <3>3. e \in Seq(z) /\ 0 \in 0..Len(e) /\ (\A c \in z : IsCore(c)) /\ (\A y \in z : IsOutcome(y)) /\ 1 \in Nat
          /\ Attempts(e)
      BY <3>1, <3>2 DEF Attempts
    <3>4. q = Procedure!pkg("n1", z, 1, e, 0, e)
      BY <2>2, <3>1, <3>2
    <3>5. QED BY <3>3, <3>4, PackageIs
  <2>4. p = [q EXCEPT !.manifest.profile = "chain", !.receipt = x]
    BY <2>1, <2>2 DEF Procedure!admission
  <2>5. QED BY <2>3, <2>4 DEF IsPackage
<1>3. QED
  <2>1. (\E s \in Procedure!Runs : p \in Procedure!Packages(s)) \/ \E x : p = Procedure!admission(x)
    <3>1. p \in UNION {Procedure!Packages(s) : s \in Procedure!Runs} \/ p \in {Procedure!admission(x) : x \in Procedure!Receipts}
      BY DEF Procedure!Genuine
    <3>2. CASE p \in UNION {Procedure!Packages(s) : s \in Procedure!Runs}
      BY <3>2
    <3>3. CASE p \in {Procedure!admission(x) : x \in Procedure!Receipts}
      BY <3>3
    <3>4. QED BY <3>1, <3>2, <3>3
  <2>2. ASSUME NEW s \in Procedure!Runs, p \in Procedure!Packages(s)
        PROVE  IsPackage(p)
    <3>1. \E n, a : \E m \in {1, 2} : \E place \in 0..Len(s) : \E o \in Procedure!Outcomes(Len(s)) : p = Procedure!pkg(n, a, m, s, place, o)
      <4>1. \E d \in {"n1", "n2"}, a \in Procedure!Policies, m \in {1, 2}, place \in 0..Len(s), o \in Procedure!Outcomes(Len(s)) :
              p = Procedure!pkg(d, a, m, s, place, o)
        BY <2>2 DEF Procedure!Packages
      <4>2. QED BY <4>1
    <3>2. QED BY <1>1, <3>1
  <2>3. QED BY <1>2, <2>1, <2>2

\* One record of a sequence left out, repeated or replaced.
LEMMA OneLess ==
  ASSUME NEW S, NEW s \in Seq(S), NEW i \in DOMAIN s
  PROVE  Procedure!Without(s, i) \in Seq(S) /\ Append(s, s[i]) \in Seq(S)
<1>1. Len(s) \in Nat /\ i \in 1..Len(s) /\ s[i] \in S
  OBVIOUS
<1>2. SubSeq(s, 1, i - 1) \in Seq(S) /\ SubSeq(s, i + 1, Len(s)) \in Seq(S)
  BY <1>1
<1>3. QED BY <1>1, <1>2 DEF Procedure!Without

\* One record of a sequence replaced.
LEMMA OneOther ==
  ASSUME NEW S, NEW s \in Seq(S), NEW i \in DOMAIN s, NEW x
  PROVE  [s EXCEPT ![i] = x] \in Seq(S \union {x})
OBVIOUS

\* The claims of a package stay claims of one run, whoever attests them.
LEMMA ClaimsAltered ==
  ASSUME NEW s, Claimed(s), NEW i \in DOMAIN s
  PROVE  /\ Claimed(Procedure!Without(s, i))
         /\ Claimed([s EXCEPT ![i].by = "requester"])
         /\ Claimed([s EXCEPT ![i] = Procedure!Rebound(@)])
<1>1. PICK nonce, C : s \in Seq(C) /\ \A c \in C : IsClaim(c, nonce)
  BY DEF Claimed
<1>2. IsClaim(s[i], nonce)
  BY <1>1
<1>3. Claimed(Procedure!Without(s, i))
  BY <1>1, OneLess DEF Claimed
<1>4. PICK x, y : x = [s[i] EXCEPT !.by = "requester"] /\ y = Procedure!Rebound(s[i])
  OBVIOUS
<1>5. IsClaim(x, nonce) /\ IsClaim(y, nonce)
  BY <1>2, <1>4 DEF IsClaim, Procedure!Rebound
<1>6. Claimed([s EXCEPT ![i] = x]) /\ Claimed([s EXCEPT ![i] = y])
  <2>1. /\ [s EXCEPT ![i] = x] \in Seq(C \union {x}) /\ \A c \in C \union {x} : IsClaim(c, nonce)
        /\ [s EXCEPT ![i] = y] \in Seq(C \union {y}) /\ \A c \in C \union {y} : IsClaim(c, nonce)
    BY <1>1, <1>5, OneOther
  <2>2. QED BY <2>1 DEF Claimed
<1>7. [s EXCEPT ![i].by = "requester"] = [s EXCEPT ![i] = x] /\ [s EXCEPT ![i] = Procedure!Rebound(@)] = [s EXCEPT ![i] = y]
  BY <1>4
<1>8. QED BY <1>3, <1>6, <1>7

\* The terminals of a package stay terminals, with the whole scope or a part.
LEMMA TerminalsAltered ==
  ASSUME NEW s, Terminals(s), NEW i \in DOMAIN s
  PROVE  /\ Terminals(Procedure!Without(s, i)) /\ Terminals(Append(s, s[i]))
         /\ Terminals([s EXCEPT ![i].scope = {"criteria"}])
         /\ Terminals([s EXCEPT ![i] = Procedure!Passing(@)])
<1>1. PICK T : s \in Seq(T) /\ \A t \in T : IsTerminal(t)
  BY DEF Terminals
<1>2. IsTerminal(s[i])
  BY <1>1
<1>3. Terminals(Procedure!Without(s, i)) /\ Terminals(Append(s, s[i]))
  BY <1>1, OneLess DEF Terminals
<1>4. PICK x, y : x = [s[i] EXCEPT !.scope = {"criteria"}] /\ y = Procedure!Passing(s[i])
  OBVIOUS
<1>5. IsTerminal(x) /\ IsTerminal(y)
  BY <1>2, <1>4 DEF IsTerminal, Procedure!Passing
<1>6. Terminals([s EXCEPT ![i] = x]) /\ Terminals([s EXCEPT ![i] = y])
  <2>1. /\ [s EXCEPT ![i] = x] \in Seq(T \union {x}) /\ \A t \in T \union {x} : IsTerminal(t)
        /\ [s EXCEPT ![i] = y] \in Seq(T \union {y}) /\ \A t \in T \union {y} : IsTerminal(t)
    BY <1>1, <1>5, OneOther
  <2>2. QED BY <2>1 DEF Terminals
<1>7. [s EXCEPT ![i].scope = {"criteria"}] = [s EXCEPT ![i] = x] /\ [s EXCEPT ![i] = Procedure!Passing(@)] = [s EXCEPT ![i] = y]
  BY <1>4
<1>8. QED BY <1>3, <1>6, <1>7

\* No alteration of a package adds a dispute to its log or another run to its claims.
LEMMA AlteredPackage ==
  ASSUME NEW p, IsPackage(p), NEW d \in Procedure!Edits(p)
  PROVE  IsPackage(d)
<1>1. CASE \E s : d = [p EXCEPT !.claims = s] /\ Claimed(s)
  BY <1>1 DEF IsPackage
<1>2. CASE \E s : d = [p EXCEPT !.terminals = s] /\ Terminals(s)
  BY <1>2 DEF IsPackage
<1>3. CASE d \in {[p EXCEPT !.log.there = FALSE], [p EXCEPT !.log.by = "provider"], [p EXCEPT !.log.chained = FALSE]}
  BY <1>3 DEF IsPackage
<1>4. CASE d \in {[p EXCEPT !.dispute = "n2"], [p EXCEPT !.dispute = "n2", !.committed = "n2"], [p EXCEPT !.manifest.max = 1]}
  <2>1. CASE d = [p EXCEPT !.dispute = "n2"]
    BY <2>1 DEF IsPackage
  <2>2. CASE d = [p EXCEPT !.dispute = "n2", !.committed = "n2"]
    BY <2>2 DEF IsPackage
  <2>3. CASE d = [p EXCEPT !.manifest.max = 1]
    BY <2>3 DEF IsPackage
  <2>4. QED BY <1>4, <2>1, <2>2, <2>3
<1> DEFINE A == {[p EXCEPT !.claims = Procedure!Without(@, i)] : i \in DOMAIN p.claims}
           B == {[p EXCEPT !.terminals = Procedure!Without(@, i)] : i \in DOMAIN p.terminals}
           C == {[p EXCEPT !.terminals = Append(@, @[i])] : i \in DOMAIN p.terminals}
           D == {[p EXCEPT !.claims[i].by = "requester"] : i \in DOMAIN p.claims}
           E == {[p EXCEPT !.claims[i] = Procedure!Rebound(@)] : i \in DOMAIN p.claims}
           F == {[p EXCEPT !.terminals[i] = Procedure!Passing(@)] : i \in DOMAIN p.terminals}
           G == {[p EXCEPT !.terminals[i].scope = {"criteria"}] : i \in DOMAIN p.terminals}
           H == {[p EXCEPT !.log.there = FALSE], [p EXCEPT !.log.by = "provider"], [p EXCEPT !.log.chained = FALSE],
                 [p EXCEPT !.dispute = "n2"], [p EXCEPT !.dispute = "n2", !.committed = "n2"], [p EXCEPT !.manifest.max = 1]}
<1>5. Procedure!Edits(p) = A \union B \union C \union D \union E \union F \union G \union H
  BY DEF Procedure!Edits
<1>6. CASE d \in A
  <2>1. PICK i \in DOMAIN p.claims : d = [p EXCEPT !.claims = Procedure!Without(@, i)]
    BY <1>6
  <2>2. Claimed(Procedure!Without(p.claims, i)) /\ d = [p EXCEPT !.claims = Procedure!Without(p.claims, i)]
    BY <2>1, ClaimsAltered DEF IsPackage
  <2>3. QED BY <1>1, <2>2
<1>7. CASE d \in B
  <2>1. PICK i \in DOMAIN p.terminals : d = [p EXCEPT !.terminals = Procedure!Without(@, i)]
    BY <1>7
  <2>2. Terminals(Procedure!Without(p.terminals, i)) /\ d = [p EXCEPT !.terminals = Procedure!Without(p.terminals, i)]
    BY <2>1, TerminalsAltered DEF IsPackage
  <2>3. QED BY <1>2, <2>2
<1>8. CASE d \in C
  <2>1. PICK i \in DOMAIN p.terminals : d = [p EXCEPT !.terminals = Append(@, @[i])]
    BY <1>8
  <2>2. Terminals(Append(p.terminals, p.terminals[i])) /\ d = [p EXCEPT !.terminals = Append(p.terminals, p.terminals[i])]
    BY <2>1, TerminalsAltered DEF IsPackage
  <2>3. QED BY <1>2, <2>2
<1>9. CASE d \in D
  <2>1. PICK i \in DOMAIN p.claims : d = [p EXCEPT !.claims[i].by = "requester"]
    BY <1>9
  <2>2. PICK s : s = [p.claims EXCEPT ![i].by = "requester"]
    OBVIOUS
  <2>3. Claimed(s)
    BY <2>2, ClaimsAltered DEF IsPackage
  <2>4. d = [p EXCEPT !.claims = s]
    BY <2>1, <2>2
  <2>5. QED BY <1>1, <2>3, <2>4
<1>10. CASE d \in E
  <2>1. PICK i \in DOMAIN p.claims : d = [p EXCEPT !.claims[i] = Procedure!Rebound(@)]
    BY <1>10
  <2>2. PICK s : s = [p.claims EXCEPT ![i] = Procedure!Rebound(@)]
    OBVIOUS
  <2>3. Claimed(s)
    BY <2>2, ClaimsAltered DEF IsPackage
  <2>4. d = [p EXCEPT !.claims = s]
    BY <2>1, <2>2
  <2>5. QED BY <1>1, <2>3, <2>4
<1>11. CASE d \in F
  <2>1. PICK i \in DOMAIN p.terminals : d = [p EXCEPT !.terminals[i] = Procedure!Passing(@)]
    BY <1>11
  <2>2. PICK s : s = [p.terminals EXCEPT ![i] = Procedure!Passing(@)]
    OBVIOUS
  <2>3. Terminals(s)
    BY <2>2, TerminalsAltered DEF IsPackage
  <2>4. d = [p EXCEPT !.terminals = s]
    BY <2>1, <2>2
  <2>5. QED BY <1>2, <2>3, <2>4
<1>12. CASE d \in G
  <2>1. PICK i \in DOMAIN p.terminals : d = [p EXCEPT !.terminals[i].scope = {"criteria"}]
    BY <1>12
  <2>2. PICK s : s = [p.terminals EXCEPT ![i].scope = {"criteria"}]
    OBVIOUS
  <2>3. Terminals(s)
    BY <2>2, TerminalsAltered DEF IsPackage
  <2>4. d = [p EXCEPT !.terminals = s]
    BY <2>1, <2>2
  <2>5. QED BY <1>2, <2>3, <2>4
<1>13. CASE d \in H
  BY <1>3, <1>4, <1>13
<1> HIDE DEF A, B, C, D, E, F, G, H
<1>14. QED BY <1>5, <1>6, <1>7, <1>8, <1>9, <1>10, <1>11, <1>12, <1>13
\* finish() says RESULT only with every term established and an output.
LEMMA ResultIs ==
  ASSUME NEW state, NEW terms, NEW output, Procedure!finish(state, terms, output).verdict = "RESULT"
  PROVE  output # "none" /\ \A t \in Procedure!Terms : terms[t] = "true"
<1>1. ~(output # "none" /\ \A t \in Procedure!Terms : terms[t] = "true")
        => Procedure!finish(state, terms, output).verdict = "UNRESOLVED"
  BY DEF Procedure!finish
<1>2. QED BY <1>1

\* A terminal that decides with RESULT is one for the committed request, with
\* the whole scope, under an established authorization.
LEMMA DecidedIs ==
  ASSUME NEW c, NEW t, NEW auth, Procedure!Decided(c, t, auth).verdict = "RESULT"
  PROVE  /\ auth = "true" /\ c.request = "q" /\ Procedure!Full \subseteq t.scope
         /\ t.status # "UNRESOLVED" /\ Procedure!Decided(c, t, auth).output = t.output
<1> DEFINE w == "TERMINAL_" \o t.status
           bound == IF c.request = "q" THEN "true" ELSE "false"
           whole == IF Procedure!Full \subseteq t.scope THEN "true" ELSE "false"
           terms == [Procedure!Granted(auth) EXCEPT !["unique"] = "true", !["binding"] = bound, !["scope"] = whole]
           output == IF t.status = "UNRESOLVED" THEN "none" ELSE t.output
<1>1. Procedure!Decided(c, t, auth) = Procedure!finish(w, terms, output)
  BY DEF Procedure!Decided
<1>2. Procedure!Granted(auth) = [x \in Procedure!Terms |-> IF x = "authorized" THEN auth ELSE "cannot_establish"]
  BY DEF Procedure!Granted, Procedure!Unknown
<1> HIDE DEF w, bound, whole
<1>3. terms["authorized"] = auth /\ terms["binding"] = bound /\ terms["scope"] = whole
  BY <1>2 DEF Procedure!Terms
<1> HIDE DEF terms, output
<1>4. output # "none" /\ \A x \in Procedure!Terms : terms[x] = "true"
  BY <1>1, ResultIs
<1>5. auth = "true" /\ bound = "true" /\ whole = "true"
  BY <1>3, <1>4 DEF Procedure!Terms
<1>6. t.status # "UNRESOLVED" /\ output = t.output
  BY <1>4 DEF output
<1>7. Procedure!finish(w, terms, output).output = output
  BY DEF Procedure!finish
<1>8. QED BY <1>1, <1>5, <1>6, <1>7 DEF bound, whole

\* The sort of evaluate() has a first among the claims at which the walk may end.
LEMMA FirstEnd ==
  ASSUME NEW p, IsPackage(p), NEW S \in SUBSET (DOMAIN p.claims), S # {}
  PROVE  \E i \in S : \A j \in S \ {i} : Procedure!Before(p, i, j)
<1>1. \A i \in DOMAIN p.claims : i \in Nat /\ p.claims[i].attempt \in Nat
  BY DEF IsPackage, Claimed, IsClaim
<1> DEFINE A == {p.claims[i].attempt : i \in S}
<1>2. A \in SUBSET Nat /\ A # {}
  BY <1>1
<1>3. PICK a \in A : \A b \in A : a <= b
  BY <1>2, LeastExists
<1> DEFINE F == {i \in S : p.claims[i].attempt = a}
<1>4. F \in SUBSET Nat /\ F # {}
  BY <1>1, <1>3
<1>5. PICK i \in F : \A j \in F : i <= j
  BY <1>4, LeastExists
<1>6. \A j \in S \ {i} : p.claims[i].attempt < p.claims[j].attempt \/ (p.claims[i].attempt = p.claims[j].attempt /\ i < j)
  <2> TAKE j \in S \ {i}
  <2>1. p.claims[j].attempt \in A /\ a <= p.claims[j].attempt /\ i \in S /\ p.claims[i].attempt = a /\ i # j
    BY <1>3, <1>5
  <2>2. CASE p.claims[j].attempt = a
    <3>1. j \in F
      BY <2>2
    <3>2. i <= j /\ i \in Nat /\ j \in Nat
      BY <1>1, <1>5, <3>1
    <3>3. QED BY <2>1, <2>2, <3>2
  <2>3. CASE p.claims[j].attempt # a
    <3>1. p.claims[j].attempt \in Nat /\ a \in Nat
      BY <1>1, <2>1
    <3>2. QED BY <2>1, <2>3, <3>1
  <2>4. QED BY <2>2, <2>3
<1>7. QED BY <1>5, <1>6 DEF Procedure!Before

OrderedTrue(p, claims) ==
  /\ p.log.by = "anchor"
  /\ \A c \in claims : /\ c.proof \in DOMAIN p.log.entries /\ p.log.entries[c.proof] = Procedure!claim_core(c)
                       /\ \E d \in DOMAIN p.log.entries : p.log.entries[d] = Procedure!Dispute(p.committed) /\ ~(d > c.proof)

\* ordering() is true only under a head the anchor signed, with every claim at
\* its own position, none before every dispute.
LEMMA OrderingIs ==
  ASSUME NEW p, NEW claims, Procedure!ordering(p, claims) = "true"
  PROVE  OrderedTrue(p, claims)
<1> DEFINE written == p.log.entries
           dseq == {i \in DOMAIN written : written[i] = Procedure!Dispute(p.committed)}
           own(c) == c.proof \in DOMAIN written /\ written[c.proof] = Procedure!claim_core(c)
           cseq == {c.proof : c \in claims}
<1>1. /\ Procedure!sig_ok(p.log, "anchor") /\ ~(\E c \in claims : ~own(c))
      /\ ~(\E x \in cseq : \A d \in dseq : d > x)
  BY DEF Procedure!ordering
<1>2. p.log.by = "anchor"
  BY <1>1 DEF Procedure!sig_ok
<1>3. \A c \in claims : \E d \in dseq : ~(d > c.proof)
  BY <1>1
<1>4. QED BY <1>1, <1>2, <1>3 DEF OrderedTrue

\* The committed dispute is the one in the log, before the claim.
LEMMA DisputeFirst ==
  ASSUME NEW p, IsPackage(p), NEW claims, OrderedTrue(p, claims), NEW c \in claims
  PROVE  /\ p.committed = "n1"
         /\ \E d, e \in DOMAIN p.log.entries : /\ p.log.entries[d] = Procedure!Dispute("n1")
                                               /\ p.log.entries[e] = Procedure!claim_core(c) /\ d < e
<1>1. PICK d \in DOMAIN p.log.entries : p.log.entries[d] = Procedure!Dispute(p.committed) /\ ~(d > c.proof)
  BY DEF OrderedTrue
<1>2. c.proof \in DOMAIN p.log.entries /\ p.log.entries[c.proof] = Procedure!claim_core(c)
  BY DEF OrderedTrue
<1>3. \A i \in DOMAIN p.log.entries : i \in Nat /\ IsEntry(p.log.entries[i])
  BY DEF IsPackage, Ordered
<1>4. Procedure!Dispute(p.committed)[1] = "dispute_commitment" /\ Procedure!Dispute(p.committed)[2] = p.committed
  BY DEF Procedure!Dispute
<1>5. Procedure!Dispute("n1")[2] = "n1" /\ Procedure!claim_core(c)[1] = "claim"
  BY DEF Procedure!Dispute, Procedure!claim_core
<1>6. Procedure!Dispute(p.committed) = Procedure!Dispute("n1")
  BY <1>1, <1>3, <1>4 DEF IsEntry
<1>7. p.committed = "n1"
  BY <1>4, <1>5, <1>6
<1>8. d # c.proof
  BY <1>1, <1>2, <1>4, <1>5
<1>9. d < c.proof
  BY <1>1, <1>2, <1>3, <1>8
<1>10. QED BY <1>1, <1>2, <1>6, <1>7, <1>9

\* What a walk that ends in a result went through, with the claim at k and the terminal at m.
Walked(p, valid, auth, k, m) ==
  /\ k \in valid /\ p.claims[k].request = "q" /\ auth = "true"
  /\ \A i \in valid : p.claims[i].attempt < p.claims[k].attempt => Procedure!Continues(p, valid, i)
  /\ m \in Procedure!terminals_for(p, p.claims[k]) /\ ~Procedure!Conflict(Procedure!Distinct(p, p.claims[k]))
  /\ Procedure!Full \subseteq p.terminals[m].scope /\ p.terminals[m].status \notin {"UNRESOLVED", "NO_RESULT"}
  /\ Procedure!Walk(p, valid, auth).output = p.terminals[m].output

\* The loop of evaluate() ends in a result only past attempts that opened the
\* next one, at a terminal without a rival.
LEMMA WalkIs ==
  ASSUME NEW p, IsPackage(p), NEW valid \in SUBSET (DOMAIN p.claims), NEW auth,
         Procedure!Walk(p, valid, auth).verdict = "RESULT"
  PROVE  \E k, m : Walked(p, valid, auth, k, m)
<1> DEFINE ends == {i \in valid : ~Procedure!Continues(p, valid, i)}
           k == CHOOSE i \in ends : \A j \in ends \ {i} : Procedure!Before(p, i, j)
           distinct == Procedure!Distinct(p, p.claims[k])
           T == Procedure!terminals_for(p, p.claims[k])
           m == Procedure!MinOf(T)
           granted == IF Procedure!Later(p, valid, k) # {} THEN "false" ELSE auth
           W == Procedure!Walk(p, valid, auth)
<1>1. \A s, x : Procedure!finish(s, x, "none").verdict # "RESULT"
  BY ResultIs
<1>2. /\ ends # {} /\ ~Procedure!Conflict(distinct) /\ distinct # {} /\ p.terminals[m].status # "NO_RESULT"
      /\ W = Procedure!Decided(p.claims[k], p.terminals[m], granted)
  BY <1>1 DEF Procedure!Walk
<1>3. k \in ends /\ \A j \in ends \ {k} : Procedure!Before(p, k, j)
  <2>1. \E i \in ends : \A j \in ends \ {i} : Procedure!Before(p, i, j)
    BY <1>2, FirstEnd
  <2> HIDE DEF ends
  <2>2. QED BY <2>1
<1>4. m \in T
  <2>1. T \in SUBSET Nat
    BY DEF Procedure!terminals_for, IsPackage, Terminals
  <2>2. T # {}
    BY <1>2 DEF Procedure!Distinct
  <2> HIDE DEF T
  <2>3. \E x \in T : \A y \in T : x <= y
    BY <2>1, <2>2, LeastExists
  <2>4. QED BY <2>3 DEF Procedure!MinOf
<1> HIDE DEF k, T, distinct, m, granted
<1>5. /\ granted = "true" /\ p.claims[k].request = "q" /\ Procedure!Full \subseteq p.terminals[m].scope
      /\ p.terminals[m].status # "UNRESOLVED" /\ W.output = p.terminals[m].output
  <2> HIDE DEF W
  <2>1. Procedure!Decided(p.claims[k], p.terminals[m], granted).verdict = "RESULT"
    BY <1>2 DEF W
  <2>2. QED BY <1>2, <2>1, DecidedIs
<1>6. auth = "true"
  BY <1>5 DEF granted
<1>7. \A i \in valid : p.claims[i].attempt < p.claims[k].attempt => Procedure!Continues(p, valid, i)
  <2> SUFFICES ASSUME NEW i \in valid, p.claims[i].attempt < p.claims[k].attempt, ~Procedure!Continues(p, valid, i)
               PROVE  FALSE
    OBVIOUS
  <2>1. i \in ends /\ k \in valid
    BY <1>3
  <2>2. p.claims[i].attempt \in Nat /\ p.claims[k].attempt \in Nat
    BY <2>1 DEF IsPackage, Claimed, IsClaim
  <2>3. i # k
    BY <2>2
  <2>4. Procedure!Before(p, k, i)
    BY <1>3, <2>1, <2>3
  <2>5. QED BY <2>2, <2>4 DEF Procedure!Before
<1>8. Walked(p, valid, auth, k, m)
  BY <1>2, <1>3, <1>4, <1>5, <1>6, <1>7 DEF Walked, T, distinct
<1>9. QED BY <1>8

\* evaluate() of the procedure manifest has a RESULT only if it is Sound.
LEMMA VerdictProcedure ==
  ASSUME NEW p, IsPackage(p), Verdict("procedure", p).exit = 0
  PROVE  Procedure!Sound(p)
<1> DEFINE valid == {i \in DOMAIN p.claims : Procedure!ClaimValid(p, p.claims[i])}
           claims == {p.claims[i] : i \in valid}
           auth == IF p.dispute # p.committed THEN "false" ELSE Procedure!ordering(p, claims)
           W == Procedure!Walk(p, valid, auth)
           at(e) == {j \in DOMAIN p.log.entries : p.log.entries[j] = e}
<1>1. PICK w : w = Procedure!evaluate(p).verdict
  OBVIOUS
<1>2. w = "RESULT"
  <2>1. Verdict("procedure", p) = Says(w, {"RESULT"})
    BY <1>1 DEF Verdict
  <2>2. QED BY <2>1 DEF Says
<1>3. \A s, x : Procedure!finish(s, x, "none").verdict # "RESULT"
  BY ResultIs
<1>4. Procedure!EvaluateChain(p).verdict # "RESULT"
  BY <1>3 DEF Procedure!EvaluateChain
<1>5. Procedure!evaluate(p) = W /\ W.verdict = "RESULT"
  <2>1. Procedure!evaluate(p).verdict = "RESULT"
    BY <1>1, <1>2
  <2>2. Procedure!evaluate(p) = W
    BY <1>3, <1>4, <2>1 DEF Procedure!evaluate
  <2>3. QED BY <2>1, <2>2
<1> HIDE DEF W
<1>6. PICK k, m : Walked(p, valid, auth, k, m)
  <2> HIDE DEF auth
  <2>1. valid \in SUBSET (DOMAIN p.claims)
    OBVIOUS
  <2> HIDE DEF valid
  <2>2. QED BY <1>5, <2>1, WalkIs DEF W
<1>7. PICK c : c = p.claims[k]
  OBVIOUS
<1>8. PICK t : t = p.terminals[m]
  OBVIOUS
<1>9. k \in DOMAIN p.claims /\ Procedure!ClaimValid(p, c) /\ c.request = "q" /\ auth = "true" /\ c \in claims
  BY <1>6, <1>7 DEF Walked
<1>10. m \in DOMAIN p.terminals /\ t.claim = c /\ t.by = "provider"
  BY <1>6, <1>7, <1>8 DEF Walked, Procedure!terminals_for, Procedure!sig_ok
<1>11. t.status = "RESULT" /\ t.output = Procedure!evaluate(p).output /\ t.scope = Procedure!Full
  <2>1. IsTerminal(t)
    BY <1>8, <1>10 DEF IsPackage, Terminals
  <2>2. /\ Procedure!Full \subseteq t.scope /\ t.status \notin {"UNRESOLVED", "NO_RESULT"} /\ W.output = t.output
    BY <1>6, <1>8 DEF Walked, W
  <2>3. QED BY <1>5, <2>1, <2>2 DEF IsTerminal, Procedure!Full
<1>12. p.dispute = p.committed /\ Procedure!ordering(p, claims) = "true"
  BY <1>9
<1>13. OrderedTrue(p, claims)
  <2> HIDE DEF claims
  <2>1. QED BY <1>12, OrderingIs
<1>14. /\ p.log.by = "anchor" /\ p.committed = "n1"
       /\ \E d \in at(Procedure!Dispute("n1")), e \in at(Procedure!claim_core(c)) : d < e
  <2> HIDE DEF claims
  <2>1. p.log.by = "anchor"
    BY <1>13 DEF OrderedTrue
  <2>2. /\ p.committed = "n1"
        /\ \E d, e \in DOMAIN p.log.entries : /\ p.log.entries[d] = Procedure!Dispute("n1")
                                              /\ p.log.entries[e] = Procedure!claim_core(c) /\ d < e
    BY <1>9, <1>13, DisputeFirst
  <2>3. QED BY <2>1, <2>2
<1>15. c.by = "provider" /\ c.run = "n1" /\ c \in Procedure!Elements(p.claims)
  BY <1>7, <1>9, <1>12, <1>14 DEF Procedure!ClaimValid, Procedure!sig_ok, Procedure!Elements
<1>16. ASSUME NEW b \in Procedure!Elements(p.claims), b.attempt < c.attempt, b.by = "provider"
       PROVE  Procedure!AttestedAbsence(p, b)
  <2>1. PICK i \in DOMAIN p.claims : b = p.claims[i]
    BY DEF Procedure!Elements
  <2>2. PICK nonce, C : p.claims \in Seq(C) /\ \A x \in C : IsClaim(x, nonce)
    BY DEF IsPackage, Claimed
  <2>3. b.run = c.run /\ b.profile = c.profile /\ b.attempt \in Nat /\ c.attempt \in Nat
    BY <1>7, <1>9, <2>1, <2>2 DEF IsClaim
  <2>4. Procedure!ClaimValid(p, b)
    BY <1>9, <1>16, <2>3 DEF Procedure!ClaimValid, Procedure!sig_ok, IsPackage
  <2>5. i \in valid
    BY <2>1, <2>4
  <2>6. Procedure!Continues(p, valid, i)
    <3> HIDE DEF valid
    <3>1. QED BY <1>6, <1>7, <1>16, <2>1, <2>5 DEF Walked
  <2>7. k \in Procedure!Later(p, valid, i)
    BY <1>6, <1>7, <1>16, <2>1 DEF Walked, Procedure!Later, Procedure!Before
  <2> HIDE DEF valid
  <2>8. /\ "ATTESTED_NO_RESULT" \in p.manifest.allowed
        /\ Procedure!Distinct(p, b) # {} /\ \A d \in Procedure!Distinct(p, b) : d[1] = "NO_RESULT"
    BY <2>1, <2>6, <2>7 DEF Procedure!Continues
  <2>9. PICK j \in Procedure!terminals_for(p, b) : TRUE
    BY <2>8 DEF Procedure!Distinct
  <2>10. p.terminals[j].status = "NO_RESULT"
    <3>1. PICK d : d = <<p.terminals[j].status, p.terminals[j].output>>
      OBVIOUS
    <3>2. d \in Procedure!Distinct(p, b)
      BY <2>9, <3>1 DEF Procedure!Distinct
    <3>3. d[1] = "NO_RESULT" /\ d[1] = p.terminals[j].status
      BY <2>8, <3>1, <3>2
    <3>4. QED BY <3>3
  <2>11. QED BY <2>8, <2>9, <2>10 DEF Procedure!terminals_for, Procedure!sig_ok, Procedure!AttestedAbsence
<1>17. ASSUME NEW j \in DOMAIN p.terminals, p.terminals[j].claim = c, p.terminals[j].by = "provider"
       PROVE  p.terminals[j].output = t.output
  <2>1. j \in Procedure!terminals_for(p, c) /\ m \in Procedure!terminals_for(p, c)
    BY <1>10, <1>8, <1>17 DEF Procedure!terminals_for, Procedure!sig_ok
  <2>2. PICK d, e : d = <<p.terminals[j].status, p.terminals[j].output>> /\ e = <<t.status, t.output>>
    OBVIOUS
  <2>3. d \in Procedure!Distinct(p, c) /\ e \in Procedure!Distinct(p, c)
    BY <1>8, <2>1, <2>2 DEF Procedure!Distinct
  <2>4. ~Procedure!Conflict(Procedure!Distinct(p, c))
    BY <1>6, <1>7 DEF Walked
  <2>5. d = e
    BY <2>3, <2>4 DEF Procedure!Conflict
  <2>6. QED BY <2>2, <2>5
<1>18. ASSUME Procedure!NothingWithheld(p), NEW a \in 0..(c.attempt - 1)
       PROVE  \E b \in Procedure!Elements(p.claims) : b.attempt = a /\ b.by = "provider"
  <2>1. PICK e \in DOMAIN p.log.entries : p.log.entries[e] = Procedure!claim_core(c)
    BY <1>14
  <2>2. p.log.entries[e][1] = "claim" /\ p.log.entries[e][3] = c.attempt
    BY <2>1 DEF Procedure!claim_core
  <2>3. PICK f \in DOMAIN p.log.entries : p.log.entries[f][1] = "claim" /\ p.log.entries[f][3] = a
    BY <1>18, <2>2 DEF IsPackage, FromFirst
  <2>4. PICK b \in Procedure!Elements(p.claims) : Procedure!claim_core(b) = p.log.entries[f] /\ b.by = "provider"
    <3>1. p.log.entries[f] \in Procedure!Elements(p.log.entries)
      BY DEF Procedure!Elements
    <3>2. QED BY <1>18, <2>3, <3>1 DEF Procedure!NothingWithheld
  <2>5. Procedure!claim_core(b)[3] = b.attempt
    BY DEF Procedure!claim_core
  <2>6. QED BY <2>3, <2>4, <2>5
<1> HIDE DEF valid, claims, auth
<1>19. ASSUME NEW a \in 0..(c.attempt - 1)
       PROVE  /\ \A b \in {b \in Procedure!Elements(p.claims) : b.attempt = a /\ b.by = "provider"} :
                   Procedure!AttestedAbsence(p, b)
              /\ Procedure!NothingWithheld(p) =>
                   {b \in Procedure!Elements(p.claims) : b.attempt = a /\ b.by = "provider"} # {}
  <2>1. c.attempt \in Nat
    BY <1>7, <1>9 DEF IsPackage, Claimed, IsClaim
  <2>2. a < c.attempt
    BY <2>1
  <2>3. QED BY <1>16, <1>18, <2>2
<1>20. QED
  BY <1>8, <1>9, <1>10, <1>11, <1>14, <1>15, <1>17, <1>19 DEF Procedure!Sound

-----------------------------------------------------------------------------
(* Every tool *)

\* What no alteration reaches, and that a report of success is the tool's own.
ToolInv ==
  /\ tool = "acceptance" => IsAcceptance(case)
  /\ tool = "related_claims" => IsRelated(case)
  /\ tool = "proof_chain" => IsChain(case)
  /\ tool = "issuer_run" => IsRun(case)
  /\ tool = "submission" => IsSubmission(case)
  /\ tool = "receipt" => IsReceipt(case)
  /\ tool = "statement_log" => IsLog(case)
  /\ tool = "mandate" => IsMandate(case)
  /\ tool = "procedure" => IsPackage(case)
  /\ tool = "approval" => IsApproval(case)
  /\ report.exit = 0 => report = Verdict(tool, case)

\* A case as it was made has what its tool relies on, and no report yet.
LEMMA ToolInitially == ToolInit => ToolInv
<1> SUFFICES ASSUME ToolInit PROVE ToolInv
  OBVIOUS
<1>1. report.exit # 0 /\ case \in Genuine(tool)
  BY DEF ToolInit
<1>2. tool = "acceptance" => IsAcceptance(case)
  <2> SUFFICES ASSUME tool = "acceptance" PROVE IsAcceptance(case)
    OBVIOUS
  <2>1. case = Acceptance!Genuine
    BY <1>1 DEF Genuine
  <2>2. QED BY <2>1, GenuineAcceptance
<1>3. tool = "related_claims" => IsRelated(case)
  <2> SUFFICES ASSUME tool = "related_claims" PROVE IsRelated(case)
    OBVIOUS
  <2>1. case \in RelatedGenuine
    BY <1>1 DEF Genuine
  <2>2. QED BY <2>1, GenuineRelated
<1>4. tool = "proof_chain" => IsChain(case)
  <2> SUFFICES ASSUME tool = "proof_chain" PROVE IsChain(case)
    OBVIOUS
  <2>1. case \in ChainGenuine
    BY <1>1 DEF Genuine
  <2>2. QED BY <2>1, GenuineChain
<1>5. tool = "issuer_run" => IsRun(case)
  <2> SUFFICES ASSUME tool = "issuer_run" PROVE IsRun(case)
    OBVIOUS
  <2>1. case \in RunGenuine
    BY <1>1 DEF Genuine
  <2>2. QED BY <2>1, GenuineRun
<1>6. tool = "submission" => IsSubmission(case)
  <2> SUFFICES ASSUME tool = "submission" PROVE IsSubmission(case)
    OBVIOUS
  <2>1. case \in SubmissionGenuine
    BY <1>1 DEF Genuine
  <2>2. QED BY <2>1, GenuineSubmission
<1>7. tool = "receipt" => IsReceipt(case)
  <2> SUFFICES ASSUME tool = "receipt" PROVE IsReceipt(case)
    OBVIOUS
  <2>1. case \in Receipt!Vectors
    BY <1>1 DEF Genuine
  <2>2. QED BY <2>1, GenuineReceipt
<1>8. tool = "statement_log" => IsLog(case)
  <2> SUFFICES ASSUME tool = "statement_log" PROVE IsLog(case)
    OBVIOUS
  <2>1. case \in Receipt!Logs
    BY <1>1 DEF Genuine
  <2>2. QED BY <2>1, GenuineLog
<1>9. tool = "mandate" => IsMandate(case)
  <2> SUFFICES ASSUME tool = "mandate" PROVE IsMandate(case)
    OBVIOUS
  <2>1. case \in Mandate!Genuine
    BY <1>1 DEF Genuine
  <2>2. QED BY <2>1, GenuineMandate
<1>10. tool = "procedure" => IsPackage(case)
  <2> SUFFICES ASSUME tool = "procedure" PROVE IsPackage(case)
    OBVIOUS
  <2>1. case \in Procedure!Genuine
    BY <1>1 DEF Genuine
  <2>2. QED BY <2>1, GenuinePackage
<1>11. tool = "approval" => IsApproval(case)
  <2> SUFFICES ASSUME tool = "approval" PROVE IsApproval(case)
    OBVIOUS
  <2>1. case \in Approval!Genuine
    BY <1>1 DEF Genuine
  <2>2. QED BY <2>1, GenuineApproval
<1>12. QED BY <1>1, <1>2, <1>3, <1>4, <1>5, <1>6, <1>7, <1>8, <1>9, <1>10, <1>11 DEF ToolInv

\* Neither an alteration nor the check itself reaches what a tool relies on.
LEMMA ToolStep == ToolInv /\ [ToolNext]_toolVars => ToolInv'
<1> SUFFICES ASSUME ToolInv, [ToolNext]_toolVars PROVE ToolInv'
  OBVIOUS
<1>1. CASE Alter
  <2>1. tool' = tool /\ report' = report /\ report.exit = -1 /\ case' \in Edits(tool, case)
    BY <1>1 DEF Alter
  <2>2. tool = "acceptance" => IsAcceptance(case')
    <3> SUFFICES ASSUME tool = "acceptance" PROVE IsAcceptance(case')
      OBVIOUS
    <3>1. case' \in Acceptance!Edits(case)
      BY <2>1 DEF Edits
    <3>2. QED BY <3>1, AlteredAcceptance DEF ToolInv
  <2>3. tool = "related_claims" => IsRelated(case')
    <3> SUFFICES ASSUME tool = "related_claims" PROVE IsRelated(case')
      OBVIOUS
    <3>1. case' \in RelatedEdits(case)
      BY <2>1 DEF Edits
    <3>2. QED BY <3>1, AlteredRelated DEF ToolInv
  <2>4. tool = "proof_chain" => IsChain(case')
    <3> SUFFICES ASSUME tool = "proof_chain" PROVE IsChain(case')
      OBVIOUS
    <3>1. case' \in ChainEdits(case)
      BY <2>1 DEF Edits
    <3>2. QED BY <3>1, AlteredChain DEF ToolInv
  <2>5. tool = "issuer_run" => IsRun(case')
    <3> SUFFICES ASSUME tool = "issuer_run" PROVE IsRun(case')
      OBVIOUS
    <3>1. case' \in RunEdits(case)
      BY <2>1 DEF Edits
    <3>2. QED BY <3>1, AlteredRun DEF ToolInv
  <2>6. tool = "submission" => IsSubmission(case')
    <3> SUFFICES ASSUME tool = "submission" PROVE IsSubmission(case')
      OBVIOUS
    <3>1. case' \in SubmissionEdits(case)
      BY <2>1 DEF Edits
    <3>2. QED BY <3>1, AlteredSubmission DEF ToolInv
  <2>7. tool = "receipt" => IsReceipt(case')
    <3> SUFFICES ASSUME tool = "receipt" PROVE IsReceipt(case')
      OBVIOUS
    <3>1. case' \in Receipt!Altered(case)
      BY <2>1 DEF Edits
    <3>2. QED BY <3>1, AlteredReceipt DEF ToolInv
  <2>8. tool = "statement_log" => IsLog(case')
    <3> SUFFICES ASSUME tool = "statement_log" PROVE IsLog(case')
      OBVIOUS
    <3>1. case' \in Receipt!LogEdits(case)
      BY <2>1 DEF Edits
    <3>2. QED BY <3>1, AlteredLog DEF ToolInv
  <2>9. tool = "mandate" => IsMandate(case')
    <3> SUFFICES ASSUME tool = "mandate" PROVE IsMandate(case')
      OBVIOUS
    <3>1. case' \in Mandate!Edits(case)
      BY <2>1 DEF Edits
    <3>2. QED BY <3>1, AlteredMandate DEF ToolInv
  <2>10. tool = "procedure" => IsPackage(case')
    <3> SUFFICES ASSUME tool = "procedure" PROVE IsPackage(case')
      OBVIOUS
    <3>1. case' \in Procedure!Edits(case)
      BY <2>1 DEF Edits
    <3>2. QED BY <3>1, AlteredPackage DEF ToolInv
  <2>11. tool = "approval" => IsApproval(case')
    <3> SUFFICES ASSUME tool = "approval" PROVE IsApproval(case')
      OBVIOUS
    <3>1. case' \in Approval!Edits(case)
      BY <2>1 DEF Edits
    <3>2. QED BY <3>1, AlteredApproval DEF ToolInv
  <2>12. QED BY <2>1, <2>2, <2>3, <2>4, <2>5, <2>6, <2>7, <2>8, <2>9, <2>10, <2>11 DEF ToolInv
<1>2. CASE Check
  BY <1>2 DEF Check, ToolInv
<1>3. CASE UNCHANGED toolVars
  BY <1>3 DEF toolVars, ToolInv
<1>4. QED BY <1>1, <1>2, <1>3 DEF ToolNext

\* The invariant holds after any number of alterations.
LEMMA ToolAlways == ToolSpec => []ToolInv
BY ToolInitially, ToolStep, PTL DEF ToolSpec

\* However many vectors' changes a case has had, nothing that the issuer signed
\* itself and nothing about another receipt is verified by the acceptance check.
THEOREM AcceptancesAreSound == ToolSpec => []AcceptanceSound
<1>1. ToolInv => AcceptanceSound
  BY VerdictAcceptance, VerifiedAcceptance DEF ToolInv, AcceptanceSound, Passed
<1>2. QED BY <1>1, ToolAlways, PTL

\* What check() of related_claims, check_chain(), the re-run of issuer_run and
\* verify() of a submission pass is true of the records as they were sealed,
\* after any number of alterations.
THEOREM PassesAreTrue == ToolSpec => []PassIsTrue
<1>1. ToolInv => PassIsTrue
  BY VerdictRelated, VerdictChain, VerdictRun, VerdictSubmission DEF ToolInv, PassIsTrue, Passed
<1>2. QED BY <1>1, ToolAlways, PTL

\* What evaluate() of receipt_check.py, log_ok() of statement.py, check() of
\* mandate_check.py, evaluate() of the procedure manifest and
\* verify_approval_v2() accept is so of what the parties signed and the chain
\* recorded, after any number of alterations.
THEOREM AcceptedAreSo == ToolSpec => []AcceptedIsSo
<1>1. ToolInv => AcceptedIsSo
  BY VerdictReceipt, VerdictLog, VerdictMandate, VerdictProcedure, VerdictApproval DEF ToolInv, AcceptedIsSo, Passed
<1>2. QED BY <1>1, ToolAlways, PTL

=============================================================================
