----------------------- MODULE AidCommitmentLogProofs -----------------------
(***************************************************************************)
(* What the files of examples/aid-commitment-log/build.py are worth for    *)
(* every window, every clock and any number of commands that die between   *)
(* or in the middle of their writes.                                       *)
(***************************************************************************)
EXTENDS AidCommitmentLog, SequenceTheorems, TLAPS

-----------------------------------------------------------------------------
(* The inductive invariant *)

\* A log as it is written: not empty, and a chain.
LogOK(l) ==
  /\ l \in Seq(LogEntry)
  /\ l # <<>>
  /\ \A i \in 1..Len(l) :
       /\ l[i].prev = (IF i = 1 THEN None ELSE l[i - 1].head)
       /\ l[i].head = head_of(l[i].content, l[i].prev)
       /\ l[i].tag = l[1].tag
       /\ l[i].supersedes = (IF i = 1 THEN None ELSE l[1].content)

Content == Digest \union EnvelopeFile \union Seq(LogEntry) \union StateFile \union {None, Torn}

DiskInv ==
  /\ disk \in [Files -> Content]
  /\ \A f \in {"document", "facet-1", "facet-2"} : Readable(f) => disk[f] \in Digest
  /\ \A f \in {"envelope-1", "envelope-2"} : Readable(f) => disk[f] \in EnvelopeFile
  /\ Readable("log") => LogOK(log)
  /\ Readable("state") => state \in StateFile

\* What is left of the writes w after the first k.
Rest(w, k) == [i \in 1..(Len(w) - k) |-> w[i + k]]

StartWrites(d, t) ==
  << File("document", d), File("facet-1", d), File("envelope-1", Envelope(d)),
     File("log", << Entry(1, t, d, None, None) >>),
     File("state", [until |-> t + Until, d1 |-> d, d2 |-> None]) >>

\* start() has made k of its writes: there is no state file yet, and the files it
\* has written are those of the digest the state will name.
StartMode(k) ==
  \E d \in Digest, t \in Time :
    /\ todo = Rest(StartWrites(d, t), k)
    /\ disk["state"] = None
    /\ k >= 2 => disk["facet-1"] = d
    /\ k >= 3 => disk["envelope-1"] = Envelope(d)
    /\ k >= 4 => log = << Entry(1, t, d, None, None) >>

NextEntry(d) == Entry(2, Prev.tag, d, state.d1, Prev.head)

\* supersede() has made k of its writes: the state names no second facet yet, the
\* log to be written is the one on disk and one entry more.
SupersedeMode(k) ==
  \E d \in Digest :
    /\ Readable("state")
    /\ Readable("log")
    /\ state.d2 = None
    /\ k <= 2 => todo = Rest(Writes(d, NextEntry(d)), k)
    /\ k = 3 => todo = << File("state", [state EXCEPT !.d2 = d]) >>
    /\ k >= 1 => disk["facet-2"] = d
    /\ k >= 2 => disk["envelope-2"] = Envelope(d)
    /\ k >= 3 => Last(log).content = d

UpgradeWrites == [i \in 1..3 |-> File(<<"envelope-1", "envelope-2", "log">>[i], None)]

\* upgrade() is through with k of its files, and done says whether a pending proof
\* was met in them.
UpgradeMode(k) ==
  /\ Readable("state")
  /\ todo = Rest(UpgradeWrites, k)
  /\ done /\ k >= 1 => (Readable("envelope-1") => disk["envelope-1"].status = "confirmed")
  /\ done /\ k >= 2 => (Readable("envelope-2") => disk["envelope-2"].status = "confirmed")

RunInv ==
  \/ todo = <<>>
  \/ \E k \in 0..4 : StartMode(k)
  \/ \E k \in 0..3 : SupersedeMode(k)
  \/ \E k \in 0..2 : UpgradeMode(k)

PlainInv ==
  /\ now \in Time
  /\ done \in BOOLEAN
  /\ said \in {"nothing", "ALL CONFIRMED", "some proofs still pending"}
  /\ deaths \in 0..MaxDeaths

IInv == PlainInv /\ DiskInv /\ StateIsLast /\ ConfirmedIsAnchored /\ RunInv

-----------------------------------------------------------------------------
(* Logs *)

\* The type of what the commands make.
LEMMA EntryType ==
  ASSUME NEW n \in 1..2, NEW t \in Time, NEW d \in Digest, NEW s \in Digest \union {None},
         NEW p \in HeadHash \union {None}
  PROVE  /\ Entry(n, t, d, s, p) \in LogEntry
         /\ Entry(n, t, d, s, p).tag = t
         /\ Entry(n, t, d, s, p).content = d
         /\ Entry(n, t, d, s, p).supersedes = s
         /\ Entry(n, t, d, s, p).prev = p
         /\ Entry(n, t, d, s, p).head = head_of(d, p)
         /\ Entry(n, t, d, s, p).status = "pending"
<1>1. head_of(d, p) \in HeadHash
  <2>1. (IF p = None THEN <<>> ELSE p.covers) \in Seq(Digest)
    BY EmptySeq DEF HeadHash
  <2>2. Append(IF p = None THEN <<>> ELSE p.covers, d) \in Seq(Digest)
    BY <2>1, AppendProperties
  <2>3. QED BY <2>2 DEF head_of, HeadHash
<1>2. QED BY <1>1 DEF Entry, LogEntry, Proof

\* The log start() writes is a chain.
LEMMA FirstLogOK ==
  ASSUME NEW d \in Digest, NEW t \in Time
  PROVE  LET l == << Entry(1, t, d, None, None) >>
         IN  LogOK(l) /\ Len(l) = 1 /\ l[1].content = d /\ l[1].status = "pending"
<1> DEFINE e == Entry(1, t, d, None, None)
<1>1. e \in LogEntry /\ e.content = d /\ e.supersedes = None /\ e.prev = None
      /\ e.head = head_of(d, None) /\ e.status = "pending"
  <2>1. 1 \in 1..2 /\ None \in Digest \union {None} /\ None \in HeadHash \union {None}
    OBVIOUS
  <2>2. \A n \in 1..2 : \A x \in Digest \union {None} : \A p \in HeadHash \union {None} :
          LET y == Entry(n, t, d, x, p) IN
          /\ y \in LogEntry /\ y.content = d /\ y.supersedes = x /\ y.prev = p
          /\ y.head = head_of(d, p) /\ y.status = "pending"
    BY EntryType
  <2>3. QED BY <2>1, <2>2
<1> HIDE DEF e
<1>2. <<e>> \in Seq(LogEntry) /\ Len(<<e>>) = 1 /\ <<e>>[1] = e /\ <<e>> # <<>>
  BY <1>1
<1>3. LogOK(<<e>>)
  BY <1>1, <1>2 DEF LogOK
<1>4. QED BY <1>1, <1>2, <1>3 DEF e

\* The first and the last entry of a log.
LEMMA LogEnds ==
  ASSUME NEW l, LogOK(l)
  PROVE  /\ Len(l) \in Nat /\ 1 \in 1..Len(l) /\ Len(l) \in 1..Len(l)
         /\ DOMAIN l = 1..Len(l)
         /\ l[1] \in LogEntry
         /\ Last(l) = l[Len(l)]
         /\ Last(l) \in LogEntry
         /\ \A i \in 1..Len(l) : l[i] \in LogEntry
<1>1. l \in Seq(LogEntry) /\ Len(l) \in Nat /\ Len(l) # 0 /\ DOMAIN l = 1..Len(l)
  BY EmptySeq, LenProperties DEF LogOK
<1>2. \A i \in 1..Len(l) : l[i] \in LogEntry
  BY <1>1, ElementOfSeq
<1>3. QED BY <1>1, <1>2 DEF Last

\* An entry chained to the last one, over the same tag and superseding the first,
\* leaves a chain: however long the log has become.
LEMMA AppendLogOK ==
  ASSUME NEW l, LogOK(l), NEW d \in Digest,
         NEW e, e = Entry(2, Last(l).tag, d, l[1].content, Last(l).head)
  PROVE  /\ LogOK(Append(l, e))
         /\ Len(Append(l, e)) = Len(l) + 1
         /\ \A i \in 1..Len(l) : Append(l, e)[i] = l[i]
         /\ Append(l, e)[Len(l) + 1] = e
         /\ Last(Append(l, e)) = e
         /\ e.content = d /\ e.status = "pending" /\ e \in LogEntry
<1> DEFINE n == Len(l)
           m == Append(l, e)
<1>1. n \in Nat /\ n >= 1 /\ l[1] \in LogEntry /\ Last(l) = l[n] /\ l[n] \in LogEntry /\ l \in Seq(LogEntry)
  BY LogEnds DEF LogOK
<1>2. l[n].tag \in Time /\ l[n].head \in HeadHash /\ l[1].content \in Digest
  BY <1>1 DEF LogEntry
<1>3. /\ e \in LogEntry /\ e.tag = l[n].tag /\ e.content = d /\ e.supersedes = l[1].content
      /\ e.prev = l[n].head /\ e.head = head_of(d, e.prev) /\ e.status = "pending"
  BY <1>1, <1>2, EntryType
<1>4. /\ m \in Seq(LogEntry) /\ m # <<>> /\ Len(m) = n + 1
      /\ \A i \in 1..n : m[i] = l[i]
      /\ m[n + 1] = e
  BY <1>1, <1>3, AppendProperties
<1>5. Last(m) = e
  BY <1>1, <1>4 DEF Last
<1>6. LogOK(m)
  <2> SUFFICES ASSUME NEW i \in 1..(n + 1)
               PROVE  /\ m[i].prev = (IF i = 1 THEN None ELSE m[i - 1].head)
                      /\ m[i].head = head_of(m[i].content, m[i].prev)
                      /\ m[i].tag = m[1].tag
                      /\ m[i].supersedes = (IF i = 1 THEN None ELSE m[1].content)
    BY <1>4 DEF LogOK
  <2>1. m[1] = l[1]
    BY <1>1, <1>4
  <2>2. CASE i \in 1..n
    <3>1. m[i] = l[i] /\ (i # 1 => m[i - 1] = l[i - 1])
      BY <1>1, <1>4, <2>2
    <3>2. QED BY <2>1, <2>2, <3>1 DEF LogOK
  <2>3. CASE i = n + 1
    <3>1. m[i] = e /\ m[i - 1] = l[n] /\ i # 1
      BY <1>1, <1>4, <2>3
    <3>2. l[n].tag = l[1].tag
      BY <1>1 DEF LogOK
    <3>3. QED BY <1>3, <2>1, <3>1, <3>2
  <2>4. QED BY <1>1, <2>2, <2>3
<1>7. QED BY <1>3, <1>4, <1>5, <1>6

\* The same entry, other than in the status of its anchor.
SameEntry(x, y) == [x EXCEPT !.status = "pending"] = [y EXCEPT !.status = "pending"]

\* _complete() touches nothing but the status of a proof.
LEMMA CompleteFields ==
  ASSUME NEW x \in LogEntry \union EnvelopeFile, NEW t
  PROVE  /\ x \in EnvelopeFile => Complete(x, t) \in EnvelopeFile /\ Complete(x, t).digest = x.digest
         /\ x \in LogEntry =>
              /\ Complete(x, t) \in LogEntry
              /\ Complete(x, t).tag = x.tag
              /\ Complete(x, t).content = x.content
              /\ Complete(x, t).supersedes = x.supersedes
              /\ Complete(x, t).head = x.head
              /\ Complete(x, t).prev = x.prev
              /\ SameEntry(Complete(x, t), x)
         /\ Complete(x, t).status = "confirmed" => x.status = "confirmed" \/ t \in confirmed
<1>1. CASE x \in EnvelopeFile
  BY <1>1 DEF Complete, EnvelopeFile, LogEntry, Proof, SameEntry
<1>2. CASE x \in LogEntry
  BY <1>2 DEF Complete, LogEntry, EnvelopeFile, Proof, SameEntry
<1>3. QED BY <1>1, <1>2

Completed(l, m) == m = [i \in DOMAIN l |-> Complete(l[i], l[i].head)]

\* A log whose proofs were completed is the chain it was.
LEMMA CompleteLogOK ==
  ASSUME NEW l, LogOK(l), NEW m, Completed(l, m)
  PROVE  /\ LogOK(m)
         /\ Len(m) = Len(l)
         /\ \A i \in 1..Len(l) :
              /\ m[i].content = l[i].content
              /\ m[i].head = l[i].head
              /\ m[i].status = "confirmed" => l[i].status = "confirmed" \/ l[i].head \in confirmed
              /\ SameEntry(m[i], l[i])
<1>1. Len(l) \in Nat /\ 1 \in 1..Len(l) /\ DOMAIN l = 1..Len(l) /\ \A i \in 1..Len(l) : l[i] \in LogEntry
  BY LogEnds
<1>2. \A i \in 1..Len(l) : m[i] = Complete(l[i], l[i].head)
  BY <1>1 DEF Completed
<1>3. \A i \in 1..Len(l) :
        /\ m[i] \in LogEntry
        /\ m[i].tag = l[i].tag
        /\ m[i].content = l[i].content
        /\ m[i].supersedes = l[i].supersedes
        /\ m[i].head = l[i].head
        /\ m[i].prev = l[i].prev
        /\ m[i].status = "confirmed" => l[i].status = "confirmed" \/ l[i].head \in confirmed
        /\ SameEntry(m[i], l[i])
  BY <1>1, <1>2, CompleteFields
<1>4. m \in Seq(LogEntry) /\ Len(m) = Len(l) /\ m # <<>>
  <2>1. m \in [1..Len(l) -> LogEntry]
    BY <1>1, <1>3 DEF Completed
  <2>2. QED BY <1>1, <2>1
<1>5. LogOK(m)
  <2> SUFFICES ASSUME NEW i \in 1..Len(l)
               PROVE  /\ m[i].prev = (IF i = 1 THEN None ELSE m[i - 1].head)
                      /\ m[i].head = head_of(m[i].content, m[i].prev)
                      /\ m[i].tag = m[1].tag
                      /\ m[i].supersedes = (IF i = 1 THEN None ELSE m[1].content)
    BY <1>4 DEF LogOK
  <2>1. i # 1 => i - 1 \in 1..Len(l)
    BY <1>1
  <2>2. /\ l[i].prev = (IF i = 1 THEN None ELSE l[i - 1].head)
        /\ l[i].head = head_of(l[i].content, l[i].prev)
        /\ l[i].tag = l[1].tag
        /\ l[i].supersedes = (IF i = 1 THEN None ELSE l[1].content)
    BY DEF LogOK
  <2>3. /\ m[i].prev = l[i].prev /\ m[i].head = l[i].head /\ m[i].content = l[i].content
        /\ m[i].tag = l[i].tag /\ m[i].supersedes = l[i].supersedes
        /\ m[1].tag = l[1].tag /\ m[1].content = l[1].content
    BY <1>1, <1>3
  <2>4. i # 1 => m[i - 1].head = l[i - 1].head
    BY <1>3, <2>1
  <2>5. QED BY <2>2, <2>3, <2>4
<1>6. QED BY <1>3, <1>4, <1>5

-----------------------------------------------------------------------------
(* Writes *)

\* Making one of the writes that are left leaves the others.
LEMMA RestStep ==
  ASSUME NEW S, NEW w \in Seq(S), NEW k \in 0..(Len(w) - 1)
  PROVE  /\ Rest(w, k) # <<>>
         /\ Head(Rest(w, k)) = w[k + 1]
         /\ Tail(Rest(w, k)) = Rest(w, k + 1)
         /\ Rest(w, Len(w)) = <<>>
<1>0. Len(w) \in Nat /\ k \in Nat
  BY LenProperties
<1>1. ASSUME NEW j \in 0..Len(w)
      PROVE  /\ Rest(w, j) \in Seq(S) /\ Len(Rest(w, j)) = Len(w) - j
             /\ \A i \in 1..(Len(w) - j) : Rest(w, j)[i] = w[i + j]
  <2>1. \A i \in 1..(Len(w) - j) : w[i + j] \in S
    BY <1>0, ElementOfSeq
  <2>2. Rest(w, j) \in [1..(Len(w) - j) -> S]
    BY <2>1 DEF Rest
  <2>3. Len(w) - j \in Nat
    BY <1>0
  <2>4. QED BY <2>2, <2>3 DEF Rest
<1>2. Rest(w, Len(w)) = <<>>
  BY <1>0, <1>1, EmptySeq
<1>3. k \in 0..Len(w) /\ k + 1 \in 0..Len(w) /\ Len(w) - k >= 1
  BY <1>0
<1>4. Rest(w, k) \in Seq(S) /\ Len(Rest(w, k)) = Len(w) - k /\ Rest(w, k) # <<>>
  BY <1>0, <1>1, <1>3, EmptySeq
<1>5. Head(Rest(w, k)) = w[k + 1]
  BY <1>0, <1>1, <1>3, <1>4
<1>6. Tail(Rest(w, k)) = Rest(w, k + 1)
  <2>1. /\ Tail(Rest(w, k)) \in Seq(S) /\ Len(Tail(Rest(w, k))) = Len(w) - (k + 1)
        /\ \A i \in 1..(Len(w) - (k + 1)) : Tail(Rest(w, k))[i] = Rest(w, k)[i + 1]
    BY <1>0, <1>4, HeadTailProperties
  <2>2. \A i \in 1..(Len(w) - (k + 1)) : Tail(Rest(w, k))[i] = Rest(w, k + 1)[i]
    <3> TAKE i \in 1..(Len(w) - (k + 1))
    <3>1. i + 1 \in 1..(Len(w) - k) /\ (i + 1) + k = i + (k + 1)
      BY <1>0
    <3>2. QED BY <1>1, <1>3, <2>1, <3>1
  <2>3. QED BY <1>1, <1>3, <2>1, <2>2, SeqEqual
<1>7. QED BY <1>2, <1>4, <1>5, <1>6

Pending == [file : Files, value : Content]

\* The five writes of start(), each of the content its file has.
LEMMA StartList ==
  ASSUME NEW d \in Digest, NEW t \in Time
  PROVE  LET w == StartWrites(d, t)
             s == [until |-> t + Until, d1 |-> d, d2 |-> None]
         IN  /\ w \in Seq(Pending) /\ Len(w) = 5
             /\ w[1] = File("document", d) /\ w[2] = File("facet-1", d)
             /\ w[3] = File("envelope-1", Envelope(d))
             /\ w[4] = File("log", << Entry(1, t, d, None, None) >>)
             /\ w[5] = File("state", s)
             /\ s \in StateFile /\ Envelope(d) \in EnvelopeFile
<1> DEFINE s == [until |-> t + Until, d1 |-> d, d2 |-> None]
           l == << Entry(1, t, d, None, None) >>
<1>1. s \in StateFile
  BY LogAssumption DEF StateFile, Time
<1>2. Envelope(d) \in EnvelopeFile
  BY DEF Envelope, EnvelopeFile, Proof
<1>3. l \in Seq(LogEntry)
  BY FirstLogOK DEF LogOK
<1> DEFINE w1 == File("document", d)
           w2 == File("facet-1", d)
           w3 == File("envelope-1", Envelope(d))
           w4 == File("log", l)
           w5 == File("state", s)
<1> HIDE DEF s, l
<1>4. w1 \in Pending /\ w2 \in Pending /\ w3 \in Pending /\ w4 \in Pending /\ w5 \in Pending
  BY <1>1, <1>2, <1>3 DEF File, Pending, Files, Content
<1>5. StartWrites(d, t) = <<w1, w2, w3, w4, w5>>
  BY DEF StartWrites, s, l
<1> HIDE DEF w1, w2, w3, w4, w5
<1>6. /\ <<w1, w2, w3, w4, w5>> \in Seq(Pending) /\ Len(<<w1, w2, w3, w4, w5>>) = 5
      /\ <<w1, w2, w3, w4, w5>>[1] = w1 /\ <<w1, w2, w3, w4, w5>>[2] = w2
      /\ <<w1, w2, w3, w4, w5>>[3] = w3 /\ <<w1, w2, w3, w4, w5>>[4] = w4
      /\ <<w1, w2, w3, w4, w5>>[5] = w5
  BY <1>4
<1>7. QED BY <1>1, <1>2, <1>5, <1>6 DEF w1, w2, w3, w4, w5, s, l

\* The four writes of supersede().
LEMMA SupersedeList ==
  ASSUME NEW d \in Digest, DiskInv, StateIsLast, Readable("state"), Readable("log")
  PROVE  LET w == Writes(d, NextEntry(d))
             s == [state EXCEPT !.d2 = d]
             l == Append(log, NextEntry(d))
         IN  /\ w \in Seq(Pending) /\ Len(w) = 4
             /\ w[1] = File("facet-2", d)
             /\ w[2] = File("envelope-2", Envelope(d))
             /\ w[3] = File("log", l)
             /\ w[4] = File("state", s)
             /\ s \in StateFile /\ s.d1 = state.d1 /\ s.d2 = d
             /\ Envelope(d) \in EnvelopeFile
             /\ LogOK(l) /\ Len(l) = Len(log) + 1 /\ Last(l).content = d
             /\ \A i \in 1..Len(log) : l[i] = log[i]
             /\ l[Len(log) + 1].status = "pending"
<1> DEFINE s == [state EXCEPT !.d2 = d]
           l == Append(log, NextEntry(d))
<1>1. s \in StateFile /\ s.d1 = state.d1 /\ s.d2 = d
  BY DEF DiskInv, StateFile
<1>2. Envelope(d) \in EnvelopeFile
  BY DEF Envelope, EnvelopeFile, Proof
<1>3. LogOK(log) /\ log[1].content = state.d1
  BY DEF DiskInv, StateIsLast
<1>4. NextEntry(d) = Entry(2, Last(log).tag, d, log[1].content, Last(log).head)
  BY <1>3 DEF NextEntry, Prev
<1>5. /\ LogOK(l) /\ Len(l) = Len(log) + 1 /\ Last(l).content = d
      /\ \A i \in 1..Len(log) : l[i] = log[i]
      /\ l[Len(log) + 1].status = "pending"
  BY <1>3, <1>4, AppendLogOK
<1> DEFINE w1 == File("facet-2", d)
           w2 == File("envelope-2", Envelope(d))
           w3 == File("log", l)
           w4 == File("state", s)
<1> HIDE DEF s, l
<1>6. w1 \in Pending /\ w2 \in Pending /\ w3 \in Pending /\ w4 \in Pending
  <2>1. l \in Seq(LogEntry)
    BY <1>5 DEF LogOK
  <2>2. QED BY <1>1, <1>2, <2>1 DEF File, Pending, Files, Content
<1>7. Writes(d, NextEntry(d)) = <<w1, w2, w3, w4>>
  BY DEF Writes, s, l
<1> HIDE DEF w1, w2, w3, w4
<1>8. /\ <<w1, w2, w3, w4>> \in Seq(Pending) /\ Len(<<w1, w2, w3, w4>>) = 4
      /\ <<w1, w2, w3, w4>>[1] = w1 /\ <<w1, w2, w3, w4>>[2] = w2
      /\ <<w1, w2, w3, w4>>[3] = w3 /\ <<w1, w2, w3, w4>>[4] = w4
  BY <1>6
<1>9. QED BY <1>1, <1>2, <1>5, <1>7, <1>8 DEF w1, w2, w3, w4, s, l

\* The three files of upgrade(), none of them with a content of its own.
LEMMA UpgradeList ==
  /\ UpgradeWrites \in Seq(Pending) /\ Len(UpgradeWrites) = 3
  /\ UpgradeWrites[1] = File("envelope-1", None)
  /\ UpgradeWrites[2] = File("envelope-2", None)
  /\ UpgradeWrites[3] = File("log", None)
<1>1. /\ UpgradeWrites[1] = File("envelope-1", None)
      /\ UpgradeWrites[2] = File("envelope-2", None)
      /\ UpgradeWrites[3] = File("log", None)
  BY DEF UpgradeWrites
<1>2. \A f \in Files : File(f, None) \in Pending
  BY DEF File, Pending, Content
<1>3. \A i \in 1..3 : <<"envelope-1", "envelope-2", "log">>[i] \in Files
  BY DEF Files
<1>4. UpgradeWrites \in [1..3 -> Pending]
  BY <1>2, <1>3 DEF UpgradeWrites
<1>5. UpgradeWrites \in Seq(Pending) /\ Len(UpgradeWrites) = 3
  <2>1. \A n \in Nat : \A f \in [1..n -> Pending] : f \in Seq(Pending) /\ Len(f) = n
    OBVIOUS
  <2>2. QED BY <1>4, <2>1
<1>6. QED BY <1>1, <1>5

-----------------------------------------------------------------------------
(* Steps *)

\* What a file may be written with.
Fits(f, v) ==
  \/ v = Torn
  \/ f \in {"document", "facet-1", "facet-2"} /\ v \in Digest
  \/ f \in {"envelope-1", "envelope-2"} /\ v \in EnvelopeFile
  \/ f = "log" /\ LogOK(v)
  \/ f = "state" /\ v \in StateFile

\* One file is written, or cut off: the disk keeps its types, and every other file
\* is as it was.
LEMMA DiskWrite ==
  ASSUME DiskInv, NEW f \in Files, NEW v, Fits(f, v), disk' = [disk EXCEPT ![f] = v]
  PROVE  /\ DiskInv'
         /\ disk'[f] = v
         /\ \A g \in Files : g # f => disk'[g] = disk[g]
         /\ v # Torn => Readable(f)'
<1>1. v \in Content /\ (v # Torn => v # None)
  BY FileAssumption DEF Fits, Content, LogOK
<1>2. /\ disk' \in [Files -> Content]
      /\ disk'[f] = v
      /\ \A g \in Files : g # f => disk'[g] = disk[g]
  BY <1>1 DEF DiskInv
<1>3. \A g \in {"document", "facet-1", "facet-2"} : Readable(g)' => disk'[g] \in Digest
  BY <1>2 DEF DiskInv, Fits, Readable, Files
<1>4. \A g \in {"envelope-1", "envelope-2"} : Readable(g)' => disk'[g] \in EnvelopeFile
  BY <1>2 DEF DiskInv, Fits, Readable, Files
<1>5. Readable("log")' => LogOK(log')
  BY <1>2 DEF DiskInv, Fits, Readable, Files, log
<1>6. Readable("state")' => state' \in StateFile
  BY <1>2 DEF DiskInv, Fits, Readable, Files, state
<1>7. v # Torn => Readable(f)'
  BY <1>1, <1>2 DEF Readable
<1>8. DiskInv'
  BY <1>2, <1>3, <1>4, <1>5, <1>6 DEF DiskInv, LogOK, log
<1>9. QED BY <1>2, <1>7, <1>8

\* Proofs stay anchored when one file is written with anchored ones.
LEMMA AnchorWrite ==
  ASSUME DiskInv, ConfirmedIsAnchored, NEW f \in Files, NEW v, Fits(f, v),
         disk' = [disk EXCEPT ![f] = v], confirmed' = confirmed,
         f \in {"envelope-1", "envelope-2"} /\ v # Torn /\ v.status = "confirmed" => v.digest \in confirmed,
         f = "log" /\ v # Torn => \A i \in DOMAIN v : v[i].status = "confirmed" => v[i].head \in confirmed
  PROVE  ConfirmedIsAnchored'
<1>1. /\ disk'[f] = v
      /\ \A g \in Files : g # f => disk'[g] = disk[g]
  BY DiskWrite
<1>2. \A g \in {"envelope-1", "envelope-2"} :
        Readable(g)' /\ disk'[g].status = "confirmed" => disk'[g].digest \in confirmed
  BY <1>1 DEF Readable, ConfirmedIsAnchored, Files
<1>3. Readable("log")' => \A i \in DOMAIN log' : log'[i].status = "confirmed" => log'[i].head \in confirmed
  BY <1>1 DEF Readable, ConfirmedIsAnchored, Files, log
<1>4. QED BY <1>2, <1>3 DEF ConfirmedIsAnchored

\* While start() runs, one of its writes is next, and it has a content.
LEMMA StartNext ==
  ASSUME NEW k \in 0..4, NEW d \in Digest, NEW t \in Time, todo = Rest(StartWrites(d, t), k)
  PROVE  /\ todo # <<>>
         /\ Head(todo) = StartWrites(d, t)[k + 1]
         /\ Tail(todo) = Rest(StartWrites(d, t), k + 1)
         /\ k = 4 => Tail(todo) = <<>>
<1> DEFINE w == StartWrites(d, t)
<1>1. w \in Seq(Pending) /\ Len(w) = 5
  BY StartList
<1> HIDE DEF w
<1>2. /\ Rest(w, k) # <<>>
      /\ Head(Rest(w, k)) = w[k + 1]
      /\ Tail(Rest(w, k)) = Rest(w, k + 1)
      /\ Rest(w, 5) = <<>>
  <2>1. k \in 0..(Len(w) - 1)
    BY <1>1
  <2>2. QED BY <1>1, <2>1, RestStep, Zenon
<1>3. k = 4 => k + 1 = 5
  OBVIOUS
<1>4. QED BY <1>2, <1>3 DEF w

\* start() makes its next write.
LEMMA StartWriteInv ==
  ASSUME IInv, NEW k \in 0..4, StartMode(k), Write
  PROVE  IInv'
<1>1. PICK d \in Digest, t \in Time :
        /\ todo = Rest(StartWrites(d, t), k)
        /\ disk["state"] = None
        /\ k >= 2 => disk["facet-1"] = d
        /\ k >= 3 => disk["envelope-1"] = Envelope(d)
        /\ k >= 4 => log = << Entry(1, t, d, None, None) >>
  BY DEF StartMode
<1> DEFINE w == StartWrites(d, t)
           l == << Entry(1, t, d, None, None) >>
           s == [until |-> t + Until, d1 |-> d, d2 |-> None]
<1>2. /\ w[1] = File("document", d) /\ w[2] = File("facet-1", d)
      /\ w[3] = File("envelope-1", Envelope(d))
      /\ w[4] = File("log", l)
      /\ w[5] = File("state", s)
      /\ s \in StateFile /\ Envelope(d) \in EnvelopeFile
  BY StartList
<1>3. LogOK(l) /\ Len(l) = 1 /\ l[1].content = d /\ l[1].status = "pending" /\ DOMAIN l = 1..1
  BY FirstLogOK, LogEnds
<1>4. s.d1 = d /\ s.d2 = None /\ Envelope(d).digest = d /\ Envelope(d).status = "pending"
  BY DEF Envelope
<1> HIDE DEF w, l, s
<1>5. /\ Head(todo) = w[k + 1] /\ todo' = Rest(w, k + 1) /\ (k = 4 => todo' = <<>>)
      /\ disk' = [disk EXCEPT ![w[k + 1].file] = w[k + 1].value]
      /\ UNCHANGED <<now, done, said, confirmed, deaths>>
  BY <1>1, StartNext DEF w, Write
<1>6. k = 0 \/ k = 1 \/ k = 2 \/ k = 3 \/ k = 4
  OBVIOUS
<1>7. w[k + 1].file \in Files /\ Fits(w[k + 1].file, w[k + 1].value)
  BY <1>2, <1>3, <1>6 DEF File, Files, Fits
<1>8. /\ DiskInv'
      /\ disk'[w[k + 1].file] = w[k + 1].value
      /\ \A g \in Files : g # w[k + 1].file => disk'[g] = disk[g]
  BY <1>5, <1>7, DiskWrite DEF IInv
<1>9. ConfirmedIsAnchored'
  <2>1. w[k + 1].file \in {"envelope-1", "envelope-2"} /\ w[k + 1].value # Torn
          /\ w[k + 1].value.status = "confirmed" => w[k + 1].value.digest \in confirmed
    BY <1>2, <1>4, <1>6 DEF File
  <2>2. w[k + 1].file = "log" /\ w[k + 1].value # Torn =>
          \A i \in DOMAIN w[k + 1].value :
            w[k + 1].value[i].status = "confirmed" => w[k + 1].value[i].head \in confirmed
    BY <1>2, <1>3, <1>6 DEF File
  <2>3. QED BY <1>5, <1>7, <2>1, <2>2, AnchorWrite DEF IInv
<1>10. PlainInv'
  BY <1>5 DEF IInv, PlainInv
<1>11. CASE k \in 0..3
  <2>1. w[k + 1].file # "state" /\ disk'["state"] = None
    BY <1>1, <1>2, <1>6, <1>8, <1>11 DEF File, Files
  <2>2. StateIsLast'
    BY <2>1 DEF StateIsLast, Readable
  <2>3. StartMode(k + 1)'
    <3>1. k + 1 >= 2 => disk'["facet-1"] = d
      BY <1>1, <1>2, <1>6, <1>8, <1>11 DEF File, Files
    <3>2. k + 1 >= 3 => disk'["envelope-1"] = Envelope(d)
      BY <1>1, <1>2, <1>6, <1>8, <1>11 DEF File, Files
    <3>3. k + 1 >= 4 => log' = l
      BY <1>1, <1>2, <1>6, <1>8, <1>11 DEF File, Files, log
    <3>4. QED BY <1>5, <2>1, <3>1, <3>2, <3>3 DEF StartMode, w, l
  <2>4. RunInv'
    BY <1>11, <2>3 DEF RunInv
  <2>5. QED BY <1>8, <1>9, <1>10, <2>2, <2>4 DEF IInv
<1>12. CASE k = 4
  <2>1. /\ disk'["state"] = s /\ disk'["facet-1"] = d /\ disk'["envelope-1"] = Envelope(d)
        /\ disk'["log"] = l
    BY <1>1, <1>2, <1>8, <1>12 DEF File, Files, log, l
  <2>2. d # None /\ Envelope(d) # None /\ l # None
    BY <1>2, <1>3, FileAssumption DEF LogOK
  <2>3. StateIsLast'
    BY <1>3, <1>4, <2>1, <2>2 DEF StateIsLast, state, log
  <2>4. RunInv'
    BY <1>5, <1>12 DEF RunInv
  <2>5. QED BY <1>8, <1>9, <1>10, <2>3, <2>4 DEF IInv
<1>13. QED BY <1>11, <1>12

\* While supersede() runs and its log is still to be written, one of its writes is
\* next.
LEMMA SupersedeNext ==
  ASSUME DiskInv, StateIsLast, Readable("state"), Readable("log"),
         NEW k \in 0..2, NEW d \in Digest, todo = Rest(Writes(d, NextEntry(d)), k)
  PROVE  /\ todo # <<>>
         /\ Head(todo) = Writes(d, NextEntry(d))[k + 1]
         /\ Tail(todo) = Rest(Writes(d, NextEntry(d)), k + 1)
         /\ k = 2 => Tail(todo) = << Writes(d, NextEntry(d))[4] >>
<1> DEFINE w == Writes(d, NextEntry(d))
<1>1. w \in Seq(Pending) /\ Len(w) = 4
  BY SupersedeList
<1> HIDE DEF w
<1>2. /\ Rest(w, k) # <<>>
      /\ Head(Rest(w, k)) = w[k + 1]
      /\ Tail(Rest(w, k)) = Rest(w, k + 1)
  <2>1. k \in 0..(Len(w) - 1)
    BY <1>1
  <2>2. QED BY <1>1, <2>1, RestStep, Zenon
<1>3. Rest(w, 3) = << w[4] >>
  BY <1>1 DEF Rest
<1>4. k = 2 => k + 1 = 3
  OBVIOUS
<1>5. QED BY <1>2, <1>3, <1>4 DEF w

\* supersede() writes the facet, its envelope or the log: the state stays the
\* commit point.
LEMMA SupersedeWriteInv ==
  ASSUME IInv, NEW k \in 0..2, SupersedeMode(k), Write
  PROVE  IInv'
<1>1. PICK d \in Digest :
        /\ Readable("state")
        /\ Readable("log")
        /\ state.d2 = None
        /\ todo = Rest(Writes(d, NextEntry(d)), k)
        /\ k >= 1 => disk["facet-2"] = d
        /\ k >= 2 => disk["envelope-2"] = Envelope(d)
  BY DEF SupersedeMode
<1> DEFINE w == Writes(d, NextEntry(d))
           l == Append(log, NextEntry(d))
           s == [state EXCEPT !.d2 = d]
<1>2. /\ w[1] = File("facet-2", d) /\ w[2] = File("envelope-2", Envelope(d))
      /\ w[3] = File("log", l) /\ w[4] = File("state", s)
      /\ Envelope(d) \in EnvelopeFile
      /\ LogOK(l) /\ Len(l) = Len(log) + 1 /\ Last(l).content = d
      /\ \A i \in 1..Len(log) : l[i] = log[i]
      /\ l[Len(log) + 1].status = "pending"
  BY <1>1, SupersedeList DEF IInv
<1>3. Envelope(d).digest = d /\ Envelope(d).status = "pending"
  BY DEF Envelope
<1>4. LogOK(log) /\ DOMAIN log = 1..Len(log) /\ Len(log) \in Nat /\ 1 \in 1..Len(log) /\ DOMAIN l = 1..Len(l)
  BY <1>1, <1>2, LogEnds DEF IInv, DiskInv
<1> HIDE DEF w, l, s
<1>5. /\ Head(todo) = w[k + 1] /\ todo' = Rest(w, k + 1) /\ (k = 2 => todo' = <<w[4]>>)
      /\ disk' = [disk EXCEPT ![w[k + 1].file] = w[k + 1].value]
      /\ UNCHANGED <<now, done, said, confirmed, deaths>>
  BY <1>1, SupersedeNext DEF w, Write, IInv
<1>6. k = 0 \/ k = 1 \/ k = 2
  OBVIOUS
<1>7. w[k + 1].file \in Files /\ Fits(w[k + 1].file, w[k + 1].value)
  BY <1>2, <1>6 DEF File, Files, Fits
<1>8. /\ DiskInv'
      /\ disk'[w[k + 1].file] = w[k + 1].value
      /\ \A g \in Files : g # w[k + 1].file => disk'[g] = disk[g]
  BY <1>5, <1>7, DiskWrite DEF IInv
<1>9. \A i \in DOMAIN l : l[i].status = "confirmed" => l[i].head \in confirmed
  <2> SUFFICES ASSUME NEW i \in 1..(Len(log) + 1), l[i].status = "confirmed"
               PROVE  l[i].head \in confirmed
    BY <1>2, <1>4
  <2>1. i \in 1..Len(log)
    BY <1>2, <1>4
  <2>2. QED BY <1>1, <1>2, <1>4, <2>1 DEF IInv, ConfirmedIsAnchored
<1>10. ConfirmedIsAnchored'
  <2>1. w[k + 1].file \in {"envelope-1", "envelope-2"} /\ w[k + 1].value # Torn
          /\ w[k + 1].value.status = "confirmed" => w[k + 1].value.digest \in confirmed
    BY <1>2, <1>3, <1>6 DEF File
  <2>2. w[k + 1].file = "log" /\ w[k + 1].value # Torn =>
          \A i \in DOMAIN w[k + 1].value :
            w[k + 1].value[i].status = "confirmed" => w[k + 1].value[i].head \in confirmed
    <3>1. w[k + 1].file = "log" => w[k + 1].value = l
      BY <1>2, <1>6 DEF File
    <3>2. QED BY <1>9, <3>1
  <2>3. QED BY <1>5, <1>7, <2>1, <2>2, AnchorWrite DEF IInv
<1>11. PlainInv'
  BY <1>5 DEF IInv, PlainInv
<1>12. /\ disk'["state"] = disk["state"] /\ disk'["facet-1"] = disk["facet-1"]
       /\ disk'["envelope-1"] = disk["envelope-1"]
  BY <1>2, <1>6, <1>8 DEF File, Files
<1>13. k # 2 => disk'["log"] = disk["log"]
  BY <1>2, <1>6, <1>8 DEF File, Files
<1>14. k = 2 => disk'["log"] = l
  BY <1>2, <1>8 DEF File
<1>15. Readable("log")' /\ disk'["log"][1].content = state.d1
  <2>1. log[1].content = state.d1 /\ l[1] = log[1]
    BY <1>1, <1>2, <1>4 DEF IInv, StateIsLast
  <2>2. l # None /\ l # Torn
    BY <1>2, FileAssumption DEF LogOK
  <2>3. QED BY <1>1, <1>13, <1>14, <2>1, <2>2 DEF Readable, log
<1>16. StateIsLast'
  BY <1>1, <1>12, <1>15 DEF IInv, StateIsLast, Readable, log, state
<1>17. (k >= 0 => disk'["facet-2"] = d) /\ (k >= 1 => disk'["envelope-2"] = Envelope(d))
  BY <1>1, <1>2, <1>6, <1>8 DEF File, Files
<1>18. SupersedeMode(k + 1)'
  <2>1. Readable("state")' /\ state' = state
    BY <1>1, <1>12 DEF Readable, state
  <2>2. CASE k \in 0..1
    <3>1. log' = log
      BY <1>13, <2>2 DEF log
    <3>2. Writes(d, NextEntry(d))' = w
      BY <2>1, <3>1 DEF w, Writes, NextEntry, Prev
    <3>3. todo' = Rest(Writes(d, NextEntry(d))', k + 1)
      BY <1>5, <3>2
    <3>4. k + 1 <= 2 /\ k + 1 # 3 /\ ~(k + 1 >= 3)
      BY <2>2
    <3>5. QED BY <1>1, <1>15, <1>17, <2>1, <3>3, <3>4 DEF SupersedeMode
  <2>3. CASE k = 2
    <3>1. log' = l
      BY <1>14, <2>3 DEF log
    <3>2. todo' = << File("state", [state' EXCEPT !.d2 = d]) >>
      BY <1>2, <1>5, <2>1, <2>3 DEF s
    <3>3. QED BY <1>1, <1>2, <1>15, <1>17, <2>1, <2>3, <3>1, <3>2 DEF SupersedeMode
  <2>4. QED BY <1>6, <2>2, <2>3
<1>19. RunInv'
  <2>1. k + 1 \in 0..3
    BY <1>6
  <2>2. QED BY <1>18, <2>1 DEF RunInv
<1>20. QED BY <1>8, <1>10, <1>11, <1>16, <1>19 DEF IInv

\* supersede() saves the state, and its facet becomes the one in force.
LEMMA SupersedeCommitInv ==
  ASSUME IInv, SupersedeMode(3), Write
  PROVE  IInv'
<1>1. PICK d \in Digest :
        /\ Readable("state")
        /\ Readable("log")
        /\ todo = << File("state", [state EXCEPT !.d2 = d]) >>
        /\ disk["facet-2"] = d
        /\ disk["envelope-2"] = Envelope(d)
        /\ Last(log).content = d
  BY DEF SupersedeMode
<1> DEFINE s == [state EXCEPT !.d2 = d]
<1>2. s \in StateFile /\ s.d1 = state.d1 /\ s.d2 = d
  BY <1>1, SupersedeList DEF IInv
<1> HIDE DEF s
<1>3. Head(todo) = File("state", s) /\ Tail(todo) = <<>>
  BY <1>1 DEF s
<1>4. disk' = [disk EXCEPT !["state"] = s] /\ todo' = <<>> /\ UNCHANGED <<now, done, said, confirmed, deaths>>
  <2>1. Head(todo).file = "state" /\ Head(todo).value = s
    BY <1>3 DEF File
  <2>2. QED BY <1>3, <2>1, Zenon DEF Write
<1>5. "state" \in Files /\ Fits("state", s)
  BY <1>2 DEF Files, Fits
<1>6. DiskInv' /\ disk'["state"] = s /\ \A g \in Files : g # "state" => disk'[g] = disk[g]
  BY <1>4, <1>5, DiskWrite DEF IInv
<1>7. ConfirmedIsAnchored'
  BY <1>4, <1>5, AnchorWrite DEF IInv
<1>8. StateIsLast'
  <2>1. /\ disk'["facet-1"] = disk["facet-1"] /\ disk'["envelope-1"] = disk["envelope-1"]
        /\ disk'["log"] = disk["log"] /\ disk'["facet-2"] = disk["facet-2"]
        /\ disk'["envelope-2"] = disk["envelope-2"]
    BY <1>6 DEF Files
  <2>2. Envelope(d).digest = d
    BY DEF Envelope
  <2>3. QED BY <1>1, <1>2, <1>6, <2>1, <2>2 DEF IInv, StateIsLast, Readable, log, state
<1>9. QED BY <1>4, <1>6, <1>7, <1>8 DEF IInv, PlainInv, RunInv

\* While upgrade() runs, one of its files is next.
LEMMA UpgradeNext ==
  ASSUME NEW k \in 0..2, UpgradeMode(k)
  PROVE  /\ todo # <<>>
         /\ Head(todo) = UpgradeWrites[k + 1]
         /\ Head(todo).value = None
         /\ Tail(todo) = Rest(UpgradeWrites, k + 1)
         /\ k = 2 => Tail(todo) = <<>>
<1>1. UpgradeWrites \in Seq(Pending) /\ Len(UpgradeWrites) = 3 /\ k \in 0..(Len(UpgradeWrites) - 1)
  BY UpgradeList
<1>2. todo = Rest(UpgradeWrites, k)
  BY DEF UpgradeMode
<1>3. /\ todo # <<>>
      /\ Head(todo) = UpgradeWrites[k + 1]
      /\ Tail(todo) = Rest(UpgradeWrites, k + 1)
      /\ Rest(UpgradeWrites, Len(UpgradeWrites)) = <<>>
  BY <1>1, <1>2, RestStep, Zenon
<1>4. k = 2 => k + 1 = Len(UpgradeWrites)
  BY <1>1
<1>5. UpgradeWrites[k + 1].value = None
  <2>1. k = 0 \/ k = 1 \/ k = 2
    OBVIOUS
  <2>2. QED BY <2>1, UpgradeList DEF File
<1>6. QED BY <1>3, <1>4, <1>5

\* What a running command is about to do: start() and supersede() write a content,
\* the one before there is a state and the other before the state names its facet;
\* upgrade() has no content of its own.
LEMMA RunningHead ==
  ASSUME IInv, todo # <<>>
  PROVE  \/ /\ Head(todo).value # None /\ Head(todo).file \in Files
            /\ disk["state"] = None
         \/ /\ Head(todo).value # None
            /\ Head(todo).file \in {"facet-2", "envelope-2", "log", "state"}
            /\ Readable("state") /\ state.d2 = None
         \/ \E k \in 0..2 :
              /\ UpgradeMode(k)
              /\ Head(todo) = UpgradeWrites[k + 1]
              /\ Tail(todo) = Rest(UpgradeWrites, k + 1)
              /\ k = 2 => Tail(todo) = <<>>
<1>1. ASSUME NEW k \in 0..4, StartMode(k)
      PROVE  Head(todo).value # None /\ Head(todo).file \in Files /\ disk["state"] = None
  <2>1. PICK d \in Digest, t \in Time : todo = Rest(StartWrites(d, t), k) /\ disk["state"] = None
    BY <1>1 DEF StartMode
  <2> DEFINE w == StartWrites(d, t)
             l == << Entry(1, t, d, None, None) >>
             s == [until |-> t + Until, d1 |-> d, d2 |-> None]
  <2>2. /\ w[1] = File("document", d) /\ w[2] = File("facet-1", d)
        /\ w[3] = File("envelope-1", Envelope(d)) /\ w[4] = File("log", l)
        /\ w[5] = File("state", s)
        /\ Envelope(d) \in EnvelopeFile /\ s \in StateFile /\ LogOK(l)
    BY StartList, FirstLogOK
  <2>a. d # None /\ Envelope(d) # None /\ s # None /\ l # None
    <3> HIDE DEF w, l, s
    <3> QED BY <2>2, FileAssumption DEF LogOK
  <2>3. Head(todo) = w[k + 1]
    BY <2>1, StartNext
  <2> HIDE DEF w, l, s
  <2>4. k = 0 \/ k = 1 \/ k = 2 \/ k = 3 \/ k = 4
    OBVIOUS
  <2>5. QED BY <2>1, <2>2, <2>a, <2>3, <2>4 DEF File, Files
<1>2. ASSUME NEW k \in 0..3, SupersedeMode(k)
      PROVE  /\ Head(todo).value # None
             /\ Head(todo).file \in {"facet-2", "envelope-2", "log", "state"}
             /\ Readable("state") /\ state.d2 = None
  <2>1. PICK d \in Digest :
          /\ Readable("state")
          /\ Readable("log")
          /\ state.d2 = None
          /\ k <= 2 => todo = Rest(Writes(d, NextEntry(d)), k)
          /\ k = 3 => todo = << File("state", [state EXCEPT !.d2 = d]) >>
    BY <1>2 DEF SupersedeMode
  <2> DEFINE w == Writes(d, NextEntry(d))
             l == Append(log, NextEntry(d))
             s == [state EXCEPT !.d2 = d]
  <2>2. /\ w[1] = File("facet-2", d) /\ w[2] = File("envelope-2", Envelope(d))
        /\ w[3] = File("log", l) /\ w[4] = File("state", s)
        /\ Envelope(d) \in EnvelopeFile /\ s \in StateFile /\ LogOK(l)
    BY <2>1, SupersedeList DEF IInv
  <2>a. d # None /\ Envelope(d) # None /\ s # None /\ l # None
    <3> HIDE DEF w, l, s
    <3> QED BY <2>2, FileAssumption DEF LogOK
  <2>3. CASE k \in 0..2
    <3>1. Head(todo) = w[k + 1]
      BY <2>1, <2>3, SupersedeNext DEF IInv
    <3> HIDE DEF w, l, s
    <3>2. k = 0 \/ k = 1 \/ k = 2
      BY <2>3
    <3>3. QED BY <2>1, <2>2, <2>a, <3>1, <3>2 DEF File
  <2>4. CASE k = 3
    <3> HIDE DEF w, l
    <3>1. Head(todo) = File("state", s)
      BY <2>1, <2>4
    <3> HIDE DEF s
    <3>2. QED BY <2>1, <2>2, <2>a, <3>1 DEF File
  <2>5. QED BY <2>3, <2>4
<1>3. ASSUME NEW k \in 0..2, UpgradeMode(k)
      PROVE  /\ Head(todo) = UpgradeWrites[k + 1]
             /\ Tail(todo) = Rest(UpgradeWrites, k + 1)
             /\ k = 2 => Tail(todo) = <<>>
  BY <1>3, UpgradeNext
<1>4. QED BY <1>1, <1>2, <1>3 DEF IInv, RunInv

\* A command dies, or gives up on a file it cannot read; the file it was writing may
\* be cut off, and no file the state vouches for is lost.
LEMMA DieInv ==
  ASSUME IInv, todo # <<>>, todo' = <<>>,
         \/ disk' = disk
         \/ disk' = [disk EXCEPT ![Head(todo).file] = Torn],
         UNCHANGED <<now, done, said, confirmed>>, deaths' \in 0..MaxDeaths
  PROVE  IInv'
<1>1. PlainInv' /\ RunInv'
  BY DEF IInv, PlainInv, RunInv
<1>2. CASE disk' = disk
  BY <1>1, <1>2 DEF IInv, DiskInv, StateIsLast, ConfirmedIsAnchored, LogOK, Readable, log, state
<1>3. CASE disk' = [disk EXCEPT ![Head(todo).file] = Torn]
  <2> DEFINE f == Head(todo).file
  <2>1. \/ disk["state"] = None /\ f \in Files
        \/ f \in {"facet-2", "envelope-2", "log", "state"} /\ state.d2 = None
        \/ f \in {"envelope-1", "envelope-2", "log"}
    <3>1. \A k \in 0..2 : UpgradeWrites[k + 1].file \in {"envelope-1", "envelope-2", "log"}
      BY UpgradeList DEF File
    <3>2. QED BY <3>1, RunningHead
  <2>2. f \in Files /\ Fits(f, Torn)
    BY <2>1 DEF Files, Fits
  <2> HIDE DEF f
  <2>3. /\ DiskInv' /\ disk'[f] = Torn
        /\ \A g \in Files : g # f => disk'[g] = disk[g]
    BY <1>3, <2>2, DiskWrite DEF IInv, f
  <2>4. ConfirmedIsAnchored'
    BY <1>3, <2>2, AnchorWrite DEF IInv, f
  <2>5. \A g \in Files : disk'[g] = disk[g] \/ (g = f /\ disk'[g] = Torn)
    BY <2>3
  <2>6. StateIsLast'
    BY <2>1, <2>3, <2>5, LogAssumption DEF IInv, StateIsLast, Readable, log, state, Files
  <2>7. QED BY <1>1, <2>3, <2>4, <2>6 DEF IInv
<1>4. QED BY <1>2, <1>3

\* A step on a file without a content of its own is upgrade()'s.
LEMMA UpgradeStep ==
  ASSUME IInv, NEW f \in Files, Step(f), Head(todo).value = None
  PROVE  \E k \in 0..2 :
           /\ UpgradeMode(k)
           /\ f = <<"envelope-1", "envelope-2", "log">>[k + 1]
           /\ todo' = Rest(UpgradeWrites, k + 1)
           /\ k = 2 => todo' = <<>>
<1>1. PICK k \in 0..2 :
        /\ UpgradeMode(k)
        /\ Head(todo) = UpgradeWrites[k + 1]
        /\ Tail(todo) = Rest(UpgradeWrites, k + 1)
        /\ k = 2 => Tail(todo) = <<>>
  BY RunningHead DEF Step
<1>2. UpgradeWrites[k + 1].file = <<"envelope-1", "envelope-2", "log">>[k + 1]
  BY UpgradeList DEF File
<1>3. QED BY <1>1, <1>2 DEF Step

\* Which file upgrade() is at.
LEMMA UpgradeFile ==
  ASSUME NEW f \in Files, NEW k \in 0..2, f = <<"envelope-1", "envelope-2", "log">>[k + 1]
  PROVE  (k = 0 /\ f = "envelope-1") \/ (k = 1 /\ f = "envelope-2") \/ (k = 2 /\ f = "log")
OBVIOUS

\* upgrade() meets no envelope, and goes on.
LEMMA SkipAbsentInv == IInv /\ SkipAbsent => IInv'
<1> SUFFICES ASSUME IInv, SkipAbsent PROVE IInv'
  OBVIOUS
<1>1. PICK f \in {"envelope-1", "envelope-2"} : Step(f) /\ disk[f] = None /\ Head(todo).value = None
  BY DEF SkipAbsent
<1>2. UNCHANGED <<now, disk, done, said, confirmed, deaths>>
  BY DEF SkipAbsent
<1>3. f \in Files
  BY DEF Files
<1>4. PICK k \in 0..2 : /\ UpgradeMode(k)
                       /\ f = <<"envelope-1", "envelope-2", "log">>[k + 1]
                       /\ todo' = Rest(UpgradeWrites, k + 1)
  BY <1>1, <1>3, UpgradeStep
<1>5. (k = 0 /\ f = "envelope-1") \/ (k = 1 /\ f = "envelope-2")
  BY <1>4
<1>6. UpgradeMode(k + 1)'
  BY <1>1, <1>2, <1>4, <1>5 DEF UpgradeMode, Readable
<1>7. RunInv'
  BY <1>5, <1>6 DEF RunInv
<1>8. PlainInv' /\ DiskInv'
  BY <1>2 DEF IInv, PlainInv, DiskInv, LogOK, Readable, log, state
<1>9. StateIsLast'
  BY <1>2 DEF IInv, StateIsLast, Readable, log, state
<1>10. ConfirmedIsAnchored'
  BY <1>2 DEF IInv, ConfirmedIsAnchored, Readable, log
<1>11. QED
  BY <1>7, <1>8, <1>9, <1>10 DEF IInv

\* upgrade() completes the proof in an envelope.
LEMMA UpgradeEnvelopeInv ==
  ASSUME IInv, NEW f \in {"envelope-1", "envelope-2"}, UpgradeEnvelope(f)
  PROVE  IInv'
<1> DEFINE v == Complete(disk[f], disk[f].digest)
<1>1. /\ disk' = [disk EXCEPT ![f] = v] /\ Readable(f) /\ Step(f) /\ Head(todo).value = None
      /\ UNCHANGED <<now, said, confirmed, deaths>>
  BY DEF UpgradeEnvelope
<1>2. done' = (done /\ disk'[f].status = "confirmed")
  BY DEF UpgradeEnvelope
<1>3. f \in Files /\ disk[f] \in EnvelopeFile
  BY <1>1 DEF Files, IInv, DiskInv
<1>4. /\ v \in EnvelopeFile /\ v.digest = disk[f].digest
      /\ v.status = "confirmed" => v.digest \in confirmed
  <2>1. /\ v \in EnvelopeFile /\ v.digest = disk[f].digest
        /\ v.status = "confirmed" => disk[f].status = "confirmed" \/ disk[f].digest \in confirmed
    BY <1>3, CompleteFields
  <2>2. disk[f].status = "confirmed" => disk[f].digest \in confirmed
    BY <1>1 DEF IInv, ConfirmedIsAnchored
  <2>3. QED BY <2>1, <2>2
<1> HIDE DEF v
<1>5. Fits(f, v)
  BY <1>4 DEF Fits
<1>6. DiskInv' /\ disk'[f] = v /\ \A g \in Files : g # f => disk'[g] = disk[g]
  BY <1>1, <1>3, <1>5, DiskWrite DEF IInv
<1>7. ConfirmedIsAnchored'
  BY <1>1, <1>3, <1>4, <1>5, AnchorWrite DEF IInv
<1>8. v # None
  BY <1>4, FileAssumption
<1>9. /\ disk'["state"] = disk["state"] /\ disk'["facet-1"] = disk["facet-1"]
      /\ disk'["facet-2"] = disk["facet-2"] /\ disk'["log"] = disk["log"]
  BY <1>6 DEF Files
<1>10. \A g \in {"envelope-1", "envelope-2"} :
         (Readable(g)' => Readable(g) /\ disk'[g].digest = disk[g].digest) /\ (disk[g] # None => disk'[g] # None)
  BY <1>1, <1>4, <1>6, <1>8 DEF Readable, Files
<1>11. StateIsLast'
  BY <1>9, <1>10 DEF IInv, StateIsLast, Readable, log, state
<1>12. PICK k \in 0..2 : /\ UpgradeMode(k)
                        /\ f = <<"envelope-1", "envelope-2", "log">>[k + 1]
                        /\ todo' = Rest(UpgradeWrites, k + 1)
  BY <1>1, <1>3, UpgradeStep
<1>13. (k = 0 /\ f = "envelope-1") \/ (k = 1 /\ f = "envelope-2")
  BY <1>12
<1>14. UpgradeMode(k + 1)'
  <2>1. Readable("state")'
    BY <1>9, <1>12 DEF UpgradeMode, Readable
  <2>2. done' => done /\ disk'[f].status = "confirmed"
    BY <1>2, Zenon
  <2>3. done' /\ k + 1 >= 1 => (Readable("envelope-1")' => disk'["envelope-1"].status = "confirmed")
    <3>1. CASE k = 0
      BY <1>13, <2>2, <3>1
    <3>2. CASE k = 1
      <4>1. disk'["envelope-1"] = disk["envelope-1"]
        BY <1>6, <1>13, <3>2 DEF Files
      <4>2. done => (Readable("envelope-1") => disk["envelope-1"].status = "confirmed")
        BY <1>12, <3>2 DEF UpgradeMode
      <4>3. QED BY <2>2, <4>1, <4>2 DEF Readable
    <3>3. QED BY <1>13, <3>1, <3>2
  <2>4. done' /\ k + 1 >= 2 => (Readable("envelope-2")' => disk'["envelope-2"].status = "confirmed")
    BY <1>13, <2>2
  <2>5. QED BY <1>12, <2>1, <2>3, <2>4 DEF UpgradeMode
<1>15. RunInv'
  BY <1>13, <1>14 DEF RunInv
<1>16. PlainInv'
  <2>1. done' \in BOOLEAN
    BY <1>2
  <2>2. QED BY <1>1, <2>1 DEF IInv, PlainInv
<1>17. QED BY <1>6, <1>7, <1>11, <1>15, <1>16 DEF IInv

\* upgrade() completes the proofs in the log, and ends.
LEMMA UpgradeLogInv == IInv /\ UpgradeLog => IInv'
<1> SUFFICES ASSUME IInv, UpgradeLog PROVE IInv'
  OBVIOUS
<1> DEFINE v == [i \in DOMAIN log |-> Complete(log[i], log[i].head)]
<1>1. /\ disk' = [disk EXCEPT !["log"] = v] /\ Readable("log") /\ Step("log") /\ Head(todo).value = None
      /\ UNCHANGED <<now, confirmed, deaths>>
      /\ said' \in {"ALL CONFIRMED", "some proofs still pending"}
  BY DEF UpgradeLog
<1>2. done' = Done(v)
  BY DEF UpgradeLog
<1>3. LogOK(log)
  BY <1>1 DEF IInv, DiskInv
<1>4. /\ LogOK(v) /\ Len(v) = Len(log)
      /\ \A i \in 1..Len(log) :
           /\ v[i].content = log[i].content
           /\ v[i].head = log[i].head
           /\ v[i].status = "confirmed" => log[i].status = "confirmed" \/ log[i].head \in confirmed
  <2>1. Completed(log, v)
    BY DEF Completed
  <2> HIDE DEF v
  <2>2. QED BY <1>3, <2>1, CompleteLogOK
<1> HIDE DEF v
<1>5. /\ Len(log) \in Nat /\ 1 \in 1..Len(log) /\ Len(log) \in 1..Len(log)
      /\ DOMAIN log = 1..Len(log) /\ DOMAIN v = 1..Len(log)
      /\ Last(log) = log[Len(log)] /\ Last(v) = v[Len(log)]
  BY <1>3, <1>4, LogEnds
<1>6. \A i \in DOMAIN v : v[i].status = "confirmed" => v[i].head \in confirmed
  BY <1>1, <1>4, <1>5 DEF IInv, ConfirmedIsAnchored
<1>7. "log" \in Files /\ Fits("log", v)
  BY <1>4 DEF Files, Fits
<1>8. DiskInv' /\ disk'["log"] = v /\ \A g \in Files : g # "log" => disk'[g] = disk[g]
  BY <1>1, <1>7, DiskWrite DEF IInv
<1>9. ConfirmedIsAnchored'
  BY <1>1, <1>6, <1>7, AnchorWrite DEF IInv
<1>10. v # None
  BY <1>4, FileAssumption DEF LogOK
<1>11. /\ disk'["state"] = disk["state"] /\ disk'["facet-1"] = disk["facet-1"]
       /\ disk'["facet-2"] = disk["facet-2"] /\ disk'["envelope-1"] = disk["envelope-1"]
       /\ disk'["envelope-2"] = disk["envelope-2"]
  BY <1>8 DEF Files
<1>12. v[1].content = log[1].content /\ Last(v).content = Last(log).content
  BY <1>4, <1>5
<1>13. StateIsLast'
  BY <1>1, <1>8, <1>10, <1>11, <1>12 DEF IInv, StateIsLast, Readable, log, state
<1>14. RunInv'
  <2>1. \A f \in Files : Step(f) /\ Head(todo).value = None =>
          \E k \in 0..2 : /\ f = <<"envelope-1", "envelope-2", "log">>[k + 1]
                          /\ k = 2 => todo' = <<>>
    BY UpgradeStep
  <2>2. \A f \in Files, j \in 0..2 :
          f = <<"envelope-1", "envelope-2", "log">>[j + 1] =>
            (j = 0 /\ f = "envelope-1") \/ (j = 1 /\ f = "envelope-2") \/ (j = 2 /\ f = "log")
    BY UpgradeFile
  <2>3. \A f \in Files : Step(f) /\ Head(todo).value = None =>
          f = "envelope-1" \/ f = "envelope-2" \/ todo' = <<>>
    BY <2>1, <2>2
  <2>4. todo' = <<>>
    BY <1>1, <1>7, <2>3
  <2>5. QED BY <2>4 DEF RunInv
<1>15. PlainInv'
  <2>1. done' \in BOOLEAN
    BY <1>2 DEF Done
  <2>2. QED BY <1>1, <2>1 DEF IInv, PlainInv
<1>16. QED BY <1>8, <1>9, <1>13, <1>14, <1>15 DEF IInv

-----------------------------------------------------------------------------
(* The invariant holds *)

\* No file, no command.
LEMMA InitInv == Init => IInv
<1> SUFFICES ASSUME Init PROVE IInv
  OBVIOUS
<1>1. \A f \in Files : disk[f] = None
  BY DEF Init
<1>2. \A f \in Files : ~Readable(f)
  BY <1>1 DEF Readable
<1>3. DiskInv
  BY <1>2 DEF Init, DiskInv, Content, Files
<1>4. StateIsLast /\ ConfirmedIsAnchored
  BY <1>2 DEF StateIsLast, ConfirmedIsAnchored, Files
<1>5. PlainInv
  BY LogAssumption DEF Init, PlainInv, Time
<1>6. QED BY <1>3, <1>4, <1>5 DEF Init, IInv, RunInv

\* Time passes, or a block takes a digest: the commands do not notice.
LEMMA QuietInv ==
  ASSUME IInv, UNCHANGED <<disk, todo, done, said, deaths>>, now' \in Time,
         confirmed \subseteq confirmed'
  PROVE  IInv'
<1>1. PlainInv'
  BY DEF IInv, PlainInv
<1>2. DiskInv' /\ StateIsLast'
  BY DEF IInv, DiskInv, StateIsLast, LogOK, Readable, log, state
<1>3. ConfirmedIsAnchored'
  BY DEF IInv, ConfirmedIsAnchored, Readable, log
<1>4. \A k \in 0..4 : StartMode(k) => StartMode(k)'
  BY DEF StartMode, log
<1>5. \A k \in 0..3 : SupersedeMode(k) => SupersedeMode(k)'
  BY DEF SupersedeMode, Readable, Writes, NextEntry, Prev, log, state
<1>6. \A k \in 0..2 : UpgradeMode(k) => UpgradeMode(k)'
  BY DEF UpgradeMode, Readable
<1>7. RunInv'
  BY <1>4, <1>5, <1>6 DEF IInv, RunInv
<1>8. QED BY <1>1, <1>2, <1>3, <1>7 DEF IInv

\* None of the writes is made yet.
LEMMA RestZero ==
  ASSUME NEW S, NEW w \in Seq(S)
  PROVE  Rest(w, 0) = w
<1>1. Len(w) \in Nat /\ w \in [1..Len(w) -> S]
  BY LenProperties
<1>2. \A i \in 1..Len(w) : i + 0 = i
  OBVIOUS
<1>3. QED BY <1>1, <1>2 DEF Rest

\* A command begins: the files are as they were.
LEMMA BeginInv ==
  ASSUME IInv, UNCHANGED <<now, disk, confirmed, deaths>>, done' \in BOOLEAN,
         said' \in {"nothing", "ALL CONFIRMED", "some proofs still pending"}, RunInv'
  PROVE  IInv'
<1>1. PlainInv'
  BY DEF IInv, PlainInv
<1>2. DiskInv' /\ StateIsLast'
  BY DEF IInv, DiskInv, StateIsLast, LogOK, Readable, log, state
<1>3. ConfirmedIsAnchored'
  BY DEF IInv, ConfirmedIsAnchored, Readable, log
<1>4. QED BY <1>1, <1>2, <1>3 DEF IInv

\* start() is run.
LEMMA StartInv == IInv /\ Start => IInv'
<1> SUFFICES ASSUME IInv, Start PROVE IInv'
  OBVIOUS
<1> DEFINE d == [facet |-> 1, at |-> now]
<1>1. d \in Digest /\ now \in Time
  BY DEF IInv, PlainInv, Digest
<1>2. /\ todo' = StartWrites(d, now) /\ disk["state"] = None
      /\ UNCHANGED <<now, disk, done, said, confirmed, deaths>>
  BY DEF Start, StartWrites
<1> HIDE DEF d
<1>3. StartWrites(d, now) = Rest(StartWrites(d, now), 0)
  BY <1>1, StartList, RestZero
<1>4. StartMode(0)'
  <2>1. todo' = Rest(StartWrites(d, now), 0) /\ disk'["state"] = None
    BY <1>2, <1>3
  <2>2. ~(0 >= 2) /\ ~(0 >= 3) /\ ~(0 >= 4)
    OBVIOUS
  <2>3. QED BY <1>1, <2>1, <2>2 DEF StartMode
<1>5. RunInv'
  BY <1>4 DEF RunInv
<1>6. QED
  BY <1>2, <1>5, BeginInv DEF IInv, PlainInv

\* supersede() is run.
LEMMA SupersedeInv == IInv /\ Supersede => IInv'
<1> SUFFICES ASSUME IInv, Supersede PROVE IInv'
  OBVIOUS
<1>1. PICK d \in Digest : d = [facet |-> 2, at |-> now]
  BY DEF IInv, PlainInv, Digest
<1>2. /\ todo' = Writes(d, NextEntry(d)) /\ Readable("state") /\ Readable("log") /\ state.d2 = None
      /\ UNCHANGED <<now, disk, done, said, confirmed, deaths>>
  BY <1>1 DEF Supersede, CanSupersede, NextEntry
<1>3. Writes(d, NextEntry(d)) = Rest(Writes(d, NextEntry(d)), 0)
  <2>1. Writes(d, NextEntry(d)) \in Seq(Pending)
    BY <1>1, <1>2, SupersedeList DEF IInv
  <2>2. QED BY <2>1, RestZero
<1>4. SupersedeMode(0)'
  <2>1. Readable("state")' /\ Readable("log")' /\ state' = state /\ log' = log
    BY <1>2 DEF Readable, state, log
  <2>2. Writes(d, NextEntry(d))' = Writes(d, NextEntry(d))
    BY <2>1 DEF Writes, NextEntry, Prev
  <2>3. todo' = Rest(Writes(d, NextEntry(d))', 0)
    BY <1>2, <1>3, <2>2
  <2>4. ~(0 >= 1) /\ ~(0 >= 2) /\ ~(0 >= 3) /\ 0 # 3
    OBVIOUS
  <2>5. QED BY <1>1, <1>2, <2>1, <2>3, <2>4 DEF SupersedeMode
<1>5. RunInv'
  BY <1>4 DEF RunInv
<1>6. QED
  BY <1>2, <1>5, BeginInv DEF IInv, PlainInv

\* upgrade() is run.
LEMMA UpgradeInv == IInv /\ Upgrade => IInv'
<1> SUFFICES ASSUME IInv, Upgrade PROVE IInv'
  OBVIOUS
<1>1. /\ todo' = UpgradeWrites /\ Readable("state") /\ said' = "nothing"
      /\ UNCHANGED <<now, disk, confirmed, deaths>>
  BY DEF Upgrade, UpgradeWrites
<1>2. done' = TRUE
  BY DEF Upgrade
<1>3. todo' = Rest(UpgradeWrites, 0)
  BY <1>1, UpgradeList, RestZero
<1>4. UpgradeMode(0)'
  BY <1>1, <1>3 DEF UpgradeMode, Readable
<1>5. RunInv'
  BY <1>4 DEF RunInv
<1>6. done' \in BOOLEAN
  BY <1>2
<1>7. QED BY <1>1, <1>5, <1>6, BeginInv

\* A file is written, by start() or by supersede().
LEMMA WriteInv == IInv /\ Write => IInv'
<1> SUFFICES ASSUME IInv, Write PROVE IInv'
  OBVIOUS
<1>1. todo # <<>> /\ Head(todo).value # None
  BY DEF Write
<1>2. ASSUME NEW k \in 0..3, SupersedeMode(k) PROVE IInv'
  <2>1. CASE k \in 0..2
    BY <1>2, <2>1, SupersedeWriteInv
  <2>2. CASE k = 3
    BY <1>2, <2>2, SupersedeCommitInv
  <2>3. QED BY <2>1, <2>2
<1>3. QED BY <1>1, <1>2, StartWriteInv, UpgradeNext DEF IInv, RunInv

\* Every step of Next keeps the invariant.
LEMMA NextInv == IInv /\ [Next]_vars => IInv'
<1> SUFFICES ASSUME IInv, [Next]_vars PROVE IInv'
  OBVIOUS
<1>1. CASE Tick
  <2>1. now \in Time
    BY DEF IInv, PlainInv
  <2>2. now' \in Time
    BY <1>1, <2>1, LogAssumption DEF Tick, Time
  <2>3. QED BY <1>1, <2>2, QuietInv DEF Tick
<1>2. ASSUME NEW x \in Stamped, Confirm(x) PROVE IInv'
  BY <1>2, QuietInv DEF Confirm, IInv, PlainInv
<1>3. CASE Start
  BY <1>3, StartInv
<1>4. CASE Supersede
  BY <1>4, SupersedeInv
<1>5. CASE Upgrade
  BY <1>5, UpgradeInv
<1>6. CASE Write
  BY <1>6, WriteInv
<1>7. CASE SkipAbsent
  BY <1>7, SkipAbsentInv
<1>8. ASSUME NEW f \in {"envelope-1", "envelope-2"}, UpgradeEnvelope(f) PROVE IInv'
  BY <1>8, UpgradeEnvelopeInv
<1>9. CASE UpgradeLog
  BY <1>9, UpgradeLogInv
<1>10. CASE Die(None) \/ (todo # <<>> /\ Die(Head(todo).file))
  <2>1. /\ todo # <<>> /\ todo' = <<>> /\ UNCHANGED <<now, done, said, confirmed>>
        /\ disk' = disk \/ disk' = [disk EXCEPT ![Head(todo).file] = Torn]
    BY <1>10 DEF Die
  <2>2. deaths \in 0..MaxDeaths
    BY DEF IInv, PlainInv
  <2>3. deaths < MaxDeaths /\ deaths' = deaths + 1
    BY <1>10 DEF Die
  <2>4. deaths' \in 0..MaxDeaths
    BY <2>2, <2>3, LogAssumption
  <2>5. QED BY <2>1, <2>4, DieInv
<1>11. CASE Unreadable
  <2>1. /\ todo # <<>> /\ todo' = <<>> /\ disk' = disk
        /\ UNCHANGED <<now, done, said, confirmed>> /\ deaths' \in 0..MaxDeaths
    BY <1>11 DEF Unreadable, IInv, PlainInv
  <2>2. QED BY <2>1, DieInv
<1>12. CASE UNCHANGED vars
  BY <1>12, QuietInv DEF vars, IInv, PlainInv
<1>13. QED
  BY <1>1, <1>2, <1>3, <1>4, <1>5, <1>6, <1>7, <1>8, <1>9, <1>10, <1>11, <1>12 DEF Next

\* The invariant of every run of the commands.
LEMMA Invariant == Spec => []IInv
<1>1. QED BY InitInv, NextInv, PTL DEF Spec

-----------------------------------------------------------------------------
(* Theorems *)

\* What is left of a list of writes is for files there are.
LEMMA RestFiles ==
  ASSUME NEW w \in Seq(Pending), NEW k \in 0..Len(w)
  PROVE  \A i \in DOMAIN Rest(w, k) : Rest(w, k)[i].file \in Files
<1>1. Len(w) \in Nat
  BY LenProperties
<1>2. \A i \in 1..(Len(w) - k) : w[i + k] \in Pending
  BY <1>1, ElementOfSeq
<1>3. DOMAIN Rest(w, k) = 1..(Len(w) - k) /\ \A i \in 1..(Len(w) - k) : Rest(w, k)[i] = w[i + k]
  BY DEF Rest
<1>4. QED BY <1>2, <1>3 DEF Pending

\* So is whatever a running command has still to write.
LEMMA TodoFiles == IInv => \A i \in DOMAIN todo : todo[i].file \in Files
<1> SUFFICES ASSUME IInv PROVE \A i \in DOMAIN todo : todo[i].file \in Files
  OBVIOUS
<1>1. CASE todo = <<>>
  BY <1>1
<1>2. ASSUME NEW k \in 0..4, StartMode(k) PROVE \A i \in DOMAIN todo : todo[i].file \in Files
  <2>1. PICK d \in Digest, t \in Time : todo = Rest(StartWrites(d, t), k)
    BY <1>2 DEF StartMode
  <2> DEFINE w == StartWrites(d, t)
  <2>2. w \in Seq(Pending) /\ Len(w) = 5
    BY StartList
  <2> HIDE DEF w
  <2>3. k \in 0..Len(w)
    BY <2>2
  <2>4. QED BY <2>1, <2>2, <2>3, RestFiles, Zenon DEF w
<1>3. ASSUME NEW k \in 0..3, SupersedeMode(k) PROVE \A i \in DOMAIN todo : todo[i].file \in Files
  <2>1. PICK d \in Digest :
          /\ Readable("state")
          /\ Readable("log")
          /\ k <= 2 => todo = Rest(Writes(d, NextEntry(d)), k)
          /\ k = 3 => todo = << File("state", [state EXCEPT !.d2 = d]) >>
    BY <1>3 DEF SupersedeMode
  <2> DEFINE w == Writes(d, NextEntry(d))
             s == [state EXCEPT !.d2 = d]
  <2>2. w \in Seq(Pending) /\ Len(w) = 4
    BY <2>1, SupersedeList DEF IInv
  <2>3. CASE k <= 2
    <3>1. todo = Rest(w, k)
      BY <2>1, <2>3
    <3> HIDE DEF w
    <3>2. k \in 0..Len(w)
      BY <2>2
    <3>3. QED BY <2>2, <3>1, <3>2, RestFiles, Zenon
  <2>4. CASE k = 3
    <3>1. todo = << File("state", s) >>
      BY <2>1, <2>4
    <3> HIDE DEF s
    <3>2. QED BY <3>1 DEF File, Files
  <2>5. QED BY <2>3, <2>4
<1>4. ASSUME NEW k \in 0..2, UpgradeMode(k) PROVE \A i \in DOMAIN todo : todo[i].file \in Files
  <2>1. todo = Rest(UpgradeWrites, k)
    BY <1>4 DEF UpgradeMode
  <2>2. UpgradeWrites \in Seq(Pending) /\ k \in 0..Len(UpgradeWrites)
    BY UpgradeList
  <2>3. QED BY <2>1, <2>2, RestFiles, Zenon
<1>5. QED BY <1>1, <1>2, <1>3, <1>4 DEF IInv, RunInv

\* Every file that can be read has the content its name promises, and every
\* command writes only files of the log directory.
THEOREM TypeCorrect == Spec => []TypeOK
<1>1. IInv => TypeOK
  BY TodoFiles DEF IInv, PlainInv, DiskInv, LogOK, TypeOK
<1>2. QED BY <1>1, Invariant, PTL

\* Whatever start, supersede and upgrade were interrupted at and run again after,
\* the log that can be read is a chain.
THEOREM LogIsAChain == Spec => []ChainHolds
<1>1. IInv => ChainHolds
  <2> SUFFICES ASSUME IInv, Readable("log") PROVE ChainHolds
    BY DEF ChainHolds
  <2>1. LogOK(log)
    BY DEF IInv, DiskInv
  <2>2. DOMAIN log = 1..Len(log)
    BY <2>1, LogEnds
  <2>3. QED BY <2>1, <2>2 DEF ChainHolds, LogOK
<1>2. QED BY <1>1, Invariant, PTL

\* The state file is the commit point of start and of supersede: what it names is
\* on disk, in the facet, in its envelope and in the log.
THEOREM StateIsTheCommitPoint == Spec => []StateIsLast
<1>1. IInv => StateIsLast
  BY DEF IInv
<1>2. QED BY <1>1, Invariant, PTL

\* _complete() marks a proof confirmed only when its own target is in a block.
THEOREM ConfirmedProofsAreAnchored == Spec => []ConfirmedIsAnchored
<1>1. IInv => ConfirmedIsAnchored
  BY DEF IInv
<1>2. QED BY <1>1, Invariant, PTL

\* Once there is a state, the log is replaced in two ways: supersede() adds an
\* entry, upgrade() completes the proofs in it.
LEMMA LogChanges ==
  ASSUME IInv, Next, Readable("state"), Readable("log"), Readable("log")'
  PROVE  \/ log' = log
         \/ \E d \in Digest : log' = Append(log, NextEntry(d))
         \/ Completed(log, log')
<1>1. CASE Write
  <2>1. todo # <<>> /\ Head(todo).value # None
    BY <1>1 DEF Write
  <2>2. disk' = [disk EXCEPT ![Head(todo).file] = Head(todo).value]
    BY <1>1 DEF Write
  <2>3. PICK k \in 0..3 : SupersedeMode(k)
    BY <2>1, UpgradeNext DEF IInv, RunInv, StartMode, Readable
  <2>4. PICK d \in Digest :
          /\ k <= 2 => todo = Rest(Writes(d, NextEntry(d)), k)
          /\ k = 3 => todo = << File("state", [state EXCEPT !.d2 = d]) >>
    BY <2>3 DEF SupersedeMode
  <2> DEFINE w == Writes(d, NextEntry(d))
             l == Append(log, NextEntry(d))
             s == [state EXCEPT !.d2 = d]
  <2>5. /\ w[1] = File("facet-2", d) /\ w[2] = File("envelope-2", Envelope(d))
        /\ w[3] = File("log", l)
    BY SupersedeList DEF IInv
  <2>6. CASE k \in 0..2
    <3>1. Head(todo) = w[k + 1]
      BY <2>4, <2>6, SupersedeNext DEF IInv
    <3> HIDE DEF w, l, s
    <3>2. k = 0 \/ k = 1 \/ k = 2
      BY <2>6
    <3>3. \/ Head(todo).file # "log"
          \/ Head(todo).file = "log" /\ Head(todo).value = l
      BY <2>5, <3>1, <3>2 DEF File
    <3>4. log' = log \/ log' = l
      BY <2>2, <3>3 DEF IInv, DiskInv, Files, log
    <3>5. QED BY <3>4 DEF l
  <2>7. CASE k = 3
    <3> HIDE DEF w, l
    <3>1. Head(todo) = File("state", s)
      BY <2>4, <2>7
    <3> HIDE DEF s
    <3>2. Head(todo).file # "log"
      BY <3>1 DEF File
    <3>3. log' = log
      BY <2>2, <3>2 DEF IInv, DiskInv, Files, log
    <3>4. QED BY <3>3
  <2>8. QED BY <2>6, <2>7
<1>2. CASE UpgradeLog
  BY <1>2 DEF UpgradeLog, Completed, IInv, DiskInv, Files, log
<1>3. ASSUME NEW f \in {"envelope-1", "envelope-2"}, UpgradeEnvelope(f) PROVE log' = log
  BY <1>3 DEF UpgradeEnvelope, IInv, DiskInv, Files, log
<1>4. CASE Die(None) \/ (todo # <<>> /\ Die(Head(todo).file))
  <2>1. disk' = disk \/ disk' = [disk EXCEPT ![Head(todo).file] = Torn]
    BY <1>4 DEF Die
  <2>2. QED BY <2>1 DEF IInv, DiskInv, Files, log, Readable
<1>5. CASE Tick \/ Start \/ Supersede \/ Upgrade \/ SkipAbsent \/ Unreadable \/ \E x \in Stamped : Confirm(x)
  BY <1>5 DEF Tick, Start, Supersede, Upgrade, SkipAbsent, Unreadable, Confirm, log
<1>6. QED BY <1>1, <1>2, <1>3, <1>4, <1>5 DEF Next

\* Once start has finished, no command drops an entry of the log or changes one
\* other than in the status of its anchor, interrupted or not.
THEOREM LogGrowsOnly == Spec => LogOnlyGrows
<1>1. IInv /\ [Next]_vars =>
        [ Readable("state") /\ Readable("log") /\ Readable("log")' =>
          /\ Len(log) <= Len(log')
          /\ \A i \in DOMAIN log :
               [log'[i] EXCEPT !.status = "pending"] = [log[i] EXCEPT !.status = "pending"] ]_vars
  <2> SUFFICES ASSUME IInv, Next, Readable("state"), Readable("log"), Readable("log")'
               PROVE  /\ Len(log) <= Len(log')
                      /\ \A i \in DOMAIN log : SameEntry(log'[i], log[i])
    BY DEF SameEntry
  <2>1. LogOK(log) /\ Len(log) \in Nat /\ DOMAIN log = 1..Len(log)
    BY LogEnds DEF IInv, DiskInv
  <2>2. CASE log' = log
    BY <2>1, <2>2 DEF SameEntry
  <2>3. CASE \E d \in Digest : log' = Append(log, NextEntry(d))
    <3>1. PICK d \in Digest : log' = Append(log, NextEntry(d))
      BY <2>3
    <3> DEFINE l == Append(log, NextEntry(d))
    <3>2. Len(l) = Len(log) + 1 /\ \A i \in 1..Len(log) : l[i] = log[i]
      BY SupersedeList DEF IInv
    <3> HIDE DEF l
    <3>3. log' = l
      BY <3>1 DEF l
    <3>4. QED BY <2>1, <3>2, <3>3 DEF SameEntry
  <2>4. CASE Completed(log, log')
    <3>1. Len(log') = Len(log) /\ \A i \in 1..Len(log) : SameEntry(log'[i], log[i])
      BY <2>1, <2>4, CompleteLogOK
    <3>2. QED BY <2>1, <3>1
  <2>5. QED BY <2>2, <2>3, <2>4, LogChanges
<1>2. QED BY <1>1, Invariant, PTL DEF Spec, LogOnlyGrows

\* When upgrade() ends with ALL CONFIRMED, every proof in the log and in the
\* envelopes there are is confirmed: nothing was left pending in a file it had
\* already gone over.
THEOREM AllConfirmedIsTrue == Spec => AllConfirmedIsAll
<1>0. 2 >= 1 /\ 2 >= 2
  OBVIOUS
<1>1. IInv /\ [Next]_vars =>
        [ said # said' /\ said' = "ALL CONFIRMED" =>
          /\ \A i \in DOMAIN log' : log'[i].status = "confirmed"
          /\ \A f \in {"envelope-1", "envelope-2"} :
               Readable(f)' => disk'[f].status = "confirmed" ]_said
  <2> SUFFICES ASSUME IInv, Next, said # said', said' = "ALL CONFIRMED"
               PROVE  /\ \A i \in DOMAIN log' : log'[i].status = "confirmed"
                      /\ \A f \in {"envelope-1", "envelope-2"} :
                           Readable(f)' => disk'[f].status = "confirmed"
    BY DEF vars
  <2>1. UpgradeLog
    BY DEF Next, Tick, Confirm, Start, Supersede, Upgrade, Write, SkipAbsent, UpgradeEnvelope,
           Die, Unreadable
  <2> DEFINE v == [i \in DOMAIN log |-> Complete(log[i], log[i].head)]
  <2>2. /\ Step("log") /\ Head(todo).value = None
        /\ disk' = [disk EXCEPT !["log"] = v]
    BY <2>1 DEF UpgradeLog
  <2>3. Done(v)
    <3>1. said' = IF Done(v) THEN "ALL CONFIRMED" ELSE "some proofs still pending"
      BY <2>1 DEF UpgradeLog
    <3>2. "ALL CONFIRMED" # "some proofs still pending"
      OBVIOUS
    <3>3. QED BY <3>1, <3>2
  <2> HIDE DEF v
  <2>4. "log" \in Files /\ disk'["log"] = v /\ \A g \in Files : g # "log" => disk'[g] = disk[g]
    BY <2>2 DEF IInv, DiskInv, Files
  <2>5. done /\ \A i \in DOMAIN v : v[i].status = "confirmed"
    BY <2>3 DEF Done
  <2>6. UpgradeMode(2)
    <3>1. \A f \in Files : Step(f) /\ Head(todo).value = None =>
            \E k \in 0..2 : UpgradeMode(k) /\ f = <<"envelope-1", "envelope-2", "log">>[k + 1]
      BY UpgradeStep
    <3>2. \A f \in Files, j \in 0..2 :
            f = <<"envelope-1", "envelope-2", "log">>[j + 1] =>
              (j = 0 /\ f = "envelope-1") \/ (j = 1 /\ f = "envelope-2") \/ (j = 2 /\ f = "log")
      BY UpgradeFile
    <3>3. \A f \in Files : Step(f) /\ Head(todo).value = None =>
            f = "envelope-1" \/ f = "envelope-2" \/ UpgradeMode(2)
      <4>1. SUFFICES ASSUME NEW f \in Files, Step(f), Head(todo).value = None
                     PROVE  f = "envelope-1" \/ f = "envelope-2" \/ UpgradeMode(2)
        OBVIOUS
      <4>2. PICK k \in 0..2 : UpgradeMode(k) /\ f = <<"envelope-1", "envelope-2", "log">>[k + 1]
        BY <3>1, <4>1
      <4>3. (k = 0 /\ f = "envelope-1") \/ (k = 1 /\ f = "envelope-2") \/ (k = 2 /\ f = "log")
        BY <3>2, <4>2
      <4>4. QED BY <4>2, <4>3
    <3>4. QED BY <2>2, <2>4, <3>3
  <2>7. \A f \in {"envelope-1", "envelope-2"} : Readable(f) => disk[f].status = "confirmed"
    <3>1. /\ Readable("envelope-1") => disk["envelope-1"].status = "confirmed"
          /\ Readable("envelope-2") => disk["envelope-2"].status = "confirmed"
      BY <1>0, <2>5, <2>6, Zenon DEF UpgradeMode
    <3>2. QED BY <3>1
  <2>8. \A f \in {"envelope-1", "envelope-2"} : disk'[f] = disk[f]
    BY <2>4 DEF Files
  <2>9. QED BY <2>4, <2>5, <2>7, <2>8 DEF Readable, log
<1>2. QED BY <1>1, Invariant, PTL DEF Spec, AllConfirmedIsAll
=============================================================================
