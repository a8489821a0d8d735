---------------------------- MODULE SessionChain ----------------------------
(***************************************************************************)
(* tools/session_chain_check.py: the fail-closed check of an append-only,  *)
(* hash-chained session history, run against a log file that somebody      *)
(* other than the checker wrote, and against heads that observers saved.   *)
(*                                                                         *)
(* The ledger's writer appends entries; a segment of the ledger is put in  *)
(* a file, which may be edited afterwards in the ways the repository's own *)
(* vectors edit it (examples/session-chain-vectors/make_and_run.py); the   *)
(* checker loads the log, then the heads, and walks both loops of check(). *)
(*                                                                         *)
(* A hash is modelled by the term it hashes: sha256 is taken to be free of *)
(* collisions, and Genesis, the first entry's prev_head_hash, to be the    *)
(* hash of nothing.                                                        *)
(***************************************************************************)
EXTENDS Integers, Sequences, FiniteSets

CONSTANTS
  Record,     \* what an entry can carry
  Genesis,    \* prev_head_hash of the ledger's first entry
  HeadHash,   \* the head hashes that can occur (Genesis included)
  ExtraHeads, \* external heads that may be supplied beside the ledger's own
  MaxEntries, \* bound: length of the ledger
  MaxEdits    \* bound: edits made to one log file

(***************************************************************************)
(* content_hash = sha256(canonical JSON of the record);                    *)
(* head_hash = sha256(content_hash "|" prev_head_hash).                    *)
(***************************************************************************)
content_hash(r) == <<"content", r>>
head_hash(c, p) == <<"head", c, p>>

ContentHash == {content_hash(r) : r \in Record}

Entry == [entry : Nat, record : Record, content_hash : ContentHash,
          prev_head_hash : HeadHash, head_hash : HeadHash]

ExternalHead == [entry : Nat, head_hash : HeadHash]

ASSUME HashAssumption ==
  /\ Genesis \in HeadHash
  /\ \A c \in ContentHash, p \in HeadHash : head_hash(c, p) # Genesis

ASSUME BoundAssumption ==
  /\ MaxEntries \in Nat
  /\ MaxEdits \in Nat
  /\ ExtraHeads \subseteq ExternalHead

VARIABLES
  ledger,   \* the writer's append-only ledger; entry n is ledger[n]
  file,     \* the log file: a segment of the ledger, possibly edited
  edits,    \* how many edits the file went through
  entries,  \* check(): the log it loaded
  supplied, \* check(): the external heads it loaded
  pc,       \* where check() stands
  pos,      \* check(): position of the first loop
  prev,     \* check(): the head the next entry has to link to
  todo,     \* check(): heads the second loop has still to visit
  why,      \* check(): kinds of the reasons collected
  anchored, \* check(): lower_anchored
  result    \* check(): what it returned

ledgerVars == <<ledger, file, edits>>
checkVars  == <<entries, supplied, pc, pos, prev, todo, why, anchored, result>>
vars       == <<ledgerVars, checkVars>>

PASS   == "PASS"
FAIL   == "FAIL"
CANNOT == "CANNOT_ESTABLISH"
None   == "none"

ChainReasons == {"not_consecutive", "content_hash", "link", "head_hash"}
HeadReasons  == {"truncated", "equivocation", "unattached", "cannot_compare"}

\* (mutant) The message for a segment that does not attach lacks the word.
ContradictionsNoAttach == {"truncated", "equivocation"}

\* Reasons whose message contains "truncated" or "equivocation": the one for
\* a segment that does not attach does too.
Contradictions == {"truncated", "equivocation", "unattached"}

LedgerHeads == {[entry |-> n, head_hash |-> ledger[n].head_hash] :
                  n \in 1..Len(ledger)}

TypeOK ==
  /\ ledger \in Seq(Entry)
  /\ file \in Seq(Entry)
  /\ edits \in 0..MaxEdits
  /\ entries \in Seq(Entry)
  /\ supplied \in SUBSET ExternalHead
  /\ pc \in {"idle", "loaded", "chain", "heads", "done"}
  /\ pos \in Nat \ {0}
  /\ prev \in HeadHash
  /\ todo \in SUBSET ExternalHead
  /\ why \in SUBSET (ChainReasons \union HeadReasons)
  /\ anchored \in BOOLEAN
  /\ result \in {None, PASS, FAIL, CANNOT}

Init ==
  /\ ledger = <<>>
  /\ file = <<>>
  /\ edits = 0
  /\ entries = <<>>
  /\ supplied = {}
  /\ pc = "idle"
  /\ pos = 1
  /\ prev = Genesis
  /\ todo = {}
  /\ why = {}
  /\ anchored = FALSE
  /\ result = None

-----------------------------------------------------------------------------
(* The writer and the log file *)

\* An entry chained onto head p by the rule both hashes obey.
Chained(n, r, p) ==
  [entry |-> n, record |-> r, content_hash |-> content_hash(r),
   prev_head_hash |-> p, head_hash |-> head_hash(content_hash(r), p)]

Tip == IF ledger = <<>> THEN Genesis ELSE ledger[Len(ledger)].head_hash

\* The ledger's writer appends record r.
AppendEntry(r) ==
  /\ Len(ledger) < MaxEntries
  /\ head_hash(content_hash(r), Tip) \in HeadHash
  /\ ledger' = Append(ledger, Chained(Len(ledger) + 1, r, Tip))
  /\ UNCHANGED <<file, edits, checkVars>>

\* Entries a to b of the ledger are exported to a fresh log file.
Export(a, b) ==
  /\ pc = "idle"
  /\ file' = SubSeq(ledger, a, b)
  /\ edits' = 0
  /\ UNCHANGED <<ledger, checkVars>>

\* One edit of the file that leaves every other entry as it is.
Edited(f) ==
  /\ pc = "idle"
  /\ edits < MaxEdits
  /\ file' = f
  /\ edits' = edits + 1
  /\ UNCHANGED <<ledger, checkVars>>

Without(s, i) == SubSeq(s, 1, i - 1) \o SubSeq(s, i + 1, Len(s))

\* An entry is removed: from the middle (splice_259) or the end (truncate_*).
DropEntry(i) == Edited(Without(file, i))

\* Two neighbours change places (reorder_258_259).
SwapEntries(i) ==
  /\ i < Len(file)
  /\ Edited([file EXCEPT ![i] = file[i + 1], ![i + 1] = file[i]])

\* A record is altered and its hashes are left as they were (tamper_260).
AlterRecord(i, r) ==
  /\ r # file[i].record
  /\ Edited([file EXCEPT ![i].record = r])

\* An entry gets another number (full_rewrite renumbers 260.. to 259..).
Renumber(i, n) ==
  /\ n # file[i].entry
  /\ Edited([file EXCEPT ![i].entry = n])

\* An entry is chained anew, its hashes recomputed from its record onto the
\* entry before it (forged_relink, full_rewrite); the first one keeps its prev.
Relink(i) ==
  LET p == IF i = 1 THEN file[1].prev_head_hash ELSE file[i - 1].head_hash
  IN  /\ head_hash(content_hash(file[i].record), p) \in HeadHash
      /\ Chained(file[i].entry, file[i].record, p) # file[i]
      /\ Edited([file EXCEPT ![i] = Chained(file[i].entry, file[i].record, p)])

-----------------------------------------------------------------------------
(* check(entries, external_heads) *)

\* main(): the log file is read first ...
LoadLog ==
  /\ pc = "idle"
  /\ entries' = file
  /\ pc' = "loaded"
  /\ UNCHANGED <<ledgerVars, supplied, pos, prev, todo, why, anchored, result>>

\* ... and the heads file after it: heads that observers saved off the ledger,
\* or of something else. An empty log is CANNOT_ESTABLISH at once; otherwise
\* prev starts as the first entry's own prev_head_hash, taken as given.
LoadHeads(H) ==
  /\ pc = "loaded"
  /\ supplied' = H
  /\ todo' = H
  /\ pos' = 1
  /\ why' = {}
  /\ anchored' = FALSE
  /\ IF entries = <<>>
     THEN pc' = "done" /\ result' = CANNOT /\ prev' = prev
     ELSE pc' = "chain" /\ result' = None /\ prev' = entries[1].prev_head_hash
  /\ UNCHANGED <<ledgerVars, entries>>

\* (mutant) Nothing compares prev_head_hash with the head before.
EntryReasonsNoLink(i) ==
  LET e == entries[i] IN
  {k \in ChainReasons :
    CASE k = "not_consecutive" -> i > 1 /\ e.entry # entries[i - 1].entry + 1
      [] k = "content_hash"    -> content_hash(e.record) # e.content_hash
      [] k = "link"            -> FALSE
      [] k = "head_hash"       ->
           head_hash(e.content_hash, e.prev_head_hash) # e.head_hash}

\* What the first loop finds wrong with the entry at position i.
EntryReasons(i) ==
  LET e == entries[i] IN
  {k \in ChainReasons :
    CASE k = "not_consecutive" -> i > 1 /\ e.entry # entries[i - 1].entry + 1
      [] k = "content_hash"    -> content_hash(e.record) # e.content_hash
      [] k = "link"            -> e.prev_head_hash # prev
      [] k = "head_hash"       ->
           head_hash(e.content_hash, e.prev_head_hash) # e.head_hash}

\* One iteration of the loop over the entries.
CheckEntry ==
  /\ pc = "chain"
  /\ pos <= Len(entries)
  /\ why' = why \union EntryReasons(pos)
  /\ prev' = entries[pos].head_hash
  /\ pos' = pos + 1
  /\ UNCHANGED <<ledgerVars, entries, supplied, pc, todo, anchored, result>>

\* Any reason found so far is FAIL; else the heads are compared.
EndChain ==
  /\ pc = "chain"
  /\ pos > Len(entries)
  /\ IF why # {} THEN pc' = "done" /\ result' = FAIL
                 ELSE pc' = "heads" /\ result' = result
  /\ UNCHANGED <<ledgerVars, entries, supplied, pos, prev, todo, why, anchored>>

first == entries[1].entry
last  == entries[Len(entries)].entry

\* by_entry[n] = hh, and n in by_entry.
ByEntry(n, hh) == \E i \in 1..Len(entries) :
                    entries[i].entry = n /\ entries[i].head_hash = hh
InLog(n)       == \E i \in 1..Len(entries) : entries[i].entry = n

Attaches(h) == h.entry = first - 1 /\ h.head_hash = entries[1].prev_head_hash

\* (mutant) A head for the log's own last entry counts as beyond its end.
HeadReasonOffByOne(h) ==
  IF h.entry >= last THEN {"truncated"}
  ELSE IF InLog(h.entry) /\ ~ByEntry(h.entry, h.head_hash) THEN {"equivocation"}
  ELSE IF h.entry = first - 1 THEN IF Attaches(h) THEN {} ELSE {"unattached"}
  ELSE IF ~InLog(h.entry) THEN {"cannot_compare"}
  ELSE {}

\* (mutant) A head that matches is noted among the reasons as well.
HeadReasonNotesMatch(h) ==
  IF h.entry > last THEN {"truncated"}
  ELSE IF InLog(h.entry) /\ ~ByEntry(h.entry, h.head_hash) THEN {"equivocation"}
  ELSE IF h.entry = first - 1 THEN IF Attaches(h) THEN {} ELSE {"unattached"}
  ELSE IF ~InLog(h.entry) THEN {"cannot_compare"}
  ELSE {"matched"}

\* What the second loop notes about external head h.
HeadReason(h) ==
  IF h.entry > last THEN {"truncated"}
  ELSE IF InLog(h.entry) /\ ~ByEntry(h.entry, h.head_hash) THEN {"equivocation"}
  ELSE IF h.entry = first - 1 THEN IF Attaches(h) THEN {} ELSE {"unattached"}
  ELSE IF ~InLog(h.entry) THEN {"cannot_compare"}
  ELSE {}

\* One iteration of the loop over the heads; the list's order is not fixed.
CheckHead(h) ==
  /\ pc = "heads"
  /\ why' = why \union HeadReason(h)
  /\ anchored' = (anchored \/ Attaches(h))
  /\ todo' = todo \ {h}
  /\ UNCHANGED <<ledgerVars, entries, supplied, pc, pos, prev, result>>

Comparable == {h \in supplied : InLog(h.entry)}

\* check() returns.
Conclude ==
  /\ pc = "heads"
  /\ todo = {}
  /\ pc' = "done"
  /\ result' = IF why \cap Contradictions # {} THEN FAIL
               ELSE IF Comparable = {} THEN CANNOT ELSE PASS
  /\ UNCHANGED <<ledgerVars, entries, supplied, pos, prev, todo, why, anchored>>

-----------------------------------------------------------------------------
Writer ==
  \/ \E r \in Record : AppendEntry(r)
  \/ \E a \in 1..Len(ledger) : \E b \in a..Len(ledger) : Export(a, b)
  \/ \E i \in 1..Len(file) :
       \/ DropEntry(i)
       \/ SwapEntries(i)
       \/ \E r \in Record : AlterRecord(i, r)
       \/ \E n \in 0..MaxEntries : Renumber(i, n)
       \/ Relink(i)

Checker ==
  \/ CheckEntry
  \/ EndChain
  \/ \E h \in todo : CheckHead(h)
  \/ Conclude

Next ==
  \/ Writer
  \/ LoadLog
  \/ \E H \in SUBSET (LedgerHeads \union ExtraHeads) : LoadHeads(H)
  \/ Checker

Spec == Init /\ [][Next]_vars
-----------------------------------------------------------------------------
(* Properties *)

\* The log check() was given is the ledger from its first entry to entry n.
AgreesUpTo(n) ==
  /\ first >= 1
  /\ \A m \in first..n :
       /\ m - first + 1 \in 1..Len(entries)
       /\ entries[m - first + 1] = ledger[m]

\* What PASS is worth: for every head an observer saved off the ledger and
\* supplied, at or after the log's first entry, the log is the ledger entry by
\* entry (numbers, records and hashes) from its first entry up to that head,
\* whatever was done to the file and whatever other heads were supplied.
PassMatchesLedger ==
  result = PASS => \A h \in supplied \cap LedgerHeads :
                     h.entry >= first => AgreesUpTo(h.entry)

\* No false alarm: an unedited segment of the ledger, checked against heads of
\* the ledger, is refused only when a head was saved after the segment was
\* exported (then check() calls the log truncated).
GenuineNeverFails ==
  ( /\ pc = "done"
    /\ entries # <<>>
    /\ \A i \in 1..Len(entries) :
         first + i - 1 \in 1..Len(ledger) /\ entries[i] = ledger[first + i - 1]
    /\ \A h \in supplied : h \in LedgerHeads /\ h.entry <= last )
  => result # FAIL

\* The whole of check() without its loops: how entries and heads have to relate.
LinkedAt(i) ==
  /\ entries[i].content_hash = content_hash(entries[i].record)
  /\ entries[i].head_hash = head_hash(entries[i].content_hash,
                                      entries[i].prev_head_hash)
  /\ i > 1 => /\ entries[i].entry = entries[i - 1].entry + 1
              /\ entries[i].prev_head_hash = entries[i - 1].head_hash

WellChained == \A i \in 1..Len(entries) : LinkedAt(i)

Contradicts(h) ==
  \/ h.entry > last
  \/ \E i \in 1..Len(entries) : /\ entries[i].entry = h.entry
                                /\ entries[i].head_hash # h.head_hash
  \/ h.entry = first - 1 /\ h.head_hash # entries[1].prev_head_hash

ReferenceVerdict ==
  IF entries = <<>> THEN CANNOT
  ELSE IF ~WellChained \/ \E h \in supplied : Contradicts(h) THEN FAIL
  ELSE IF \E h \in supplied : InLog(h.entry) THEN PASS
  ELSE CANNOT

\* The log holds head h at h's entry, or attaches to it.
Matched(h) == ByEntry(h.entry, h.head_hash) \/ Attaches(h)

\* Head h lies more than one entry before the log: there is nothing in the log
\* to compare it with.
Precedes(h) == h.entry < first - 1

\* What the module's documentation promises of a result: PASS only when "every
\* supplied external head is matched by the log at that entry", which leaves
\* the heads that precede the log open.
DocumentedVerdict ==
  IF entries = <<>> THEN CANNOT
  ELSE IF ~WellChained \/ \E h \in supplied : ~Matched(h) /\ ~Precedes(h)
       THEN FAIL
  ELSE IF \E h \in supplied : ByEntry(h.entry, h.head_hash) THEN PASS
  ELSE CANNOT

\* Whatever the order of the heads, and although a reason noted in one
\* iteration is only looked at after the loops, check() returns the documented
\* verdict. A PASS means that every supplied head is matched by the log, but
\* for the ones that precede it: these are compared with nothing, where line 16
\* says "every supplied external head is matched", and the reasons then say so
\* ("cannot compare"). A head that precedes the log changes no verdict, and a
\* PASS claims that the segment attaches to the history before it exactly when
\* a supplied head says so.
VerdictIsReference ==
  pc = "done" =>
    /\ result = DocumentedVerdict
    /\ result = PASS =>
         /\ \A h \in supplied : Matched(h) \/ Precedes(h)
         /\ "cannot_compare" \in why <=> \E h \in supplied : ~Matched(h)
         /\ anchored = (\E h \in supplied : h.entry = first - 1)

-----------------------------------------------------------------------------
(* The inductive invariant behind them *)

\* The ledger is numbered from 1 and chained from Genesis.
LedgerInv ==
  \A n \in 1..Len(ledger) :
    /\ ledger[n].entry = n
    /\ ledger[n].content_hash = content_hash(ledger[n].record)
    /\ ledger[n].head_hash = head_hash(ledger[n].content_hash,
                                       ledger[n].prev_head_hash)
    /\ ledger[n].prev_head_hash =
         IF n = 1 THEN Genesis ELSE ledger[n - 1].head_hash

LinkedUpTo(k) == \A i \in 1..k : LinkedAt(i)

\* Entries i of the log and n of the ledger are the same, but for the number,
\* which no hash covers.
SameButNumber(i, n) ==
  /\ entries[i].record = ledger[n].record
  /\ entries[i].content_hash = ledger[n].content_hash
  /\ entries[i].prev_head_hash = ledger[n].prev_head_hash
  /\ entries[i].head_hash = ledger[n].head_hash

\* A head that a linked entry shares with the ledger makes the log the ledger
\* from there back to the log's first entry.
MatchInv ==
  \A i \in 1..(pos - 1), n \in 1..Len(ledger) :
    LinkedUpTo(i) /\ entries[i].head_hash = ledger[n].head_hash =>
      /\ i <= n
      /\ \A d \in 0..(i - 1) : SameButNumber(i - d, n - d)

\* Linked entries are numbered consecutively.
NumberInv ==
  \A i \in 1..(pos - 1) :
    LinkedUpTo(i) => entries[i].entry = first + i - 1

\* What the loops have established where they stand.
WalkInv ==
  /\ pos <= Len(entries) + 1
  /\ pc \in {"idle", "loaded"} => pos = 1 /\ result = None
  /\ pc = "chain" =>
       /\ entries # <<>>
       /\ result = None
       /\ todo = supplied
       /\ ~anchored
       /\ prev = IF pos = 1 THEN entries[1].prev_head_hash
                            ELSE entries[pos - 1].head_hash
       /\ why = {} <=> LinkedUpTo(pos - 1)
  /\ pc = "heads" =>
       /\ entries # <<>>
       /\ result = None
       /\ pos = Len(entries) + 1
       /\ WellChained
       /\ todo \subseteq supplied
       /\ why \cap Contradictions # {} <=>
            \E h \in supplied \ todo : Contradicts(h)
       /\ anchored <=> \E h \in supplied \ todo : Attaches(h)
       /\ "cannot_compare" \in why <=> \E h \in supplied \ todo : Precedes(h)
  /\ pc = "done" =>
       /\ result = ReferenceVerdict
       /\ entries # <<>> => pos = Len(entries) + 1
       /\ result = PASS =>
            /\ anchored <=> \E h \in supplied : Attaches(h)
            /\ "cannot_compare" \in why <=> \E h \in supplied : Precedes(h)

IInv == TypeOK /\ LedgerInv /\ MatchInv /\ NumberInv /\ WalkInv

-----------------------------------------------------------------------------
=============================================================================
