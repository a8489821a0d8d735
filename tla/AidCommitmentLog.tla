-------------------------- MODULE AidCommitmentLog -------------------------
(***************************************************************************)
(* examples/aid-commitment-log/build.py: an issuer's commitment log kept   *)
(* in files. start issues facet 1 as entry 1, supersede replaces it as     *)
(* entry 2 once its window is over, upgrade completes the OpenTimestamps   *)
(* proofs. Every command writes several files, one after the other, and    *)
(* may die before, between or in the middle of the writes.                 *)
(*                                                                         *)
(* A digest is which facet it is of and when that was issued (the content  *)
(* carries issuedAt); a head is the digests it covers. Commands are run one*)
(* at a time.                                                              *)
(***************************************************************************)
EXTENDS Integers, Sequences, SequencesExt

CONSTANTS
  Until,    \* from t0 to the end of the subject window, the margin included
  None,     \* no file, no digest, no head
  Torn,     \* a file that was cut off while it was written
  MaxTime,  \* bound: the clock
  MaxDeaths \* bound: commands that die

ASSUME LogAssumption ==
  Until \in Nat /\ MaxTime \in Nat /\ MaxDeaths \in Nat /\ None # Torn

Time   == 0..MaxTime
Digest == [facet : {1, 2}, at : Time]
Files  == {"document", "facet-1", "envelope-1", "facet-2", "envelope-2", "log", "state"}
Proof  == {"pending", "confirmed"}

\* What the files hold.
HeadHash     == [covers : Seq(Digest)]
LogEntry     == [position : 1..2, tag : Time, content : Digest,
                 supersedes : Digest \union {None}, head : HeadHash,
                 prev : HeadHash \union {None}, status : Proof]
EnvelopeFile == [digest : Digest, status : Proof]
StateFile    == [until : Nat, d1 : Digest, d2 : Digest \union {None}]

\* None and Torn are not the contents of a file.
ASSUME FileAssumption ==
  \A x \in {None, Torn} : /\ x \notin Digest
                          /\ x \notin EnvelopeFile
                          /\ x \notin Seq(LogEntry)
                          /\ x \notin StateFile

VARIABLES
  now,        \* the clock
  disk,       \* the files: None, Torn or what they hold
  todo,       \* files the running command has still to write, and with what
              \* (None: its own contents, proofs completed)
  done,       \* upgrade: nothing pending was met so far
  said,       \* the line the last upgrade ended with
  confirmed,  \* digests and heads in a Bitcoin block
  deaths      \* commands that died

vars == <<now, disk, todo, done, said, confirmed, deaths>>

Readable(f) == disk[f] \notin {None, Torn}
log   == disk["log"]
state == disk["state"]

TypeOK ==
  /\ now \in Time
  /\ \A f \in {"document", "facet-1", "facet-2"} : Readable(f) => disk[f] \in Digest
  /\ \A f \in {"envelope-1", "envelope-2"} : Readable(f) => disk[f] \in EnvelopeFile
  /\ Readable("log") => log \in Seq(LogEntry)
  /\ Readable("state") => state \in StateFile
  /\ \A i \in DOMAIN todo : todo[i].file \in Files
  /\ done \in BOOLEAN
  /\ said \in {"nothing", "ALL CONFIRMED", "some proofs still pending"}
  /\ deaths \in 0..MaxDeaths

Init ==
  /\ now = 0
  /\ disk = [f \in Files |-> None]
  /\ todo = <<>>
  /\ done = TRUE
  /\ said = "nothing"
  /\ confirmed = {}
  /\ deaths = 0

Tick == /\ now < MaxTime
        /\ now' = now + 1
        /\ UNCHANGED <<disk, todo, done, said, confirmed, deaths>>

\* A block may take whatever a proof on disk was submitted for.
Stamped == {disk[f].digest : f \in {g \in {"envelope-1", "envelope-2"} : Readable(g)}}
           \union (IF Readable("log") THEN {log[i].head : i \in DOMAIN log} ELSE {})

Confirm(d) == /\ d \in Stamped \ confirmed
              /\ confirmed' = confirmed \union {d}
              /\ UNCHANGED <<now, disk, todo, done, said, deaths>>

-----------------------------------------------------------------------------
head_of(content, prev) ==
  [covers |-> Append(IF prev = None THEN <<>> ELSE prev.covers, content)]

Entry(position, tag, content, supersedes, prev) ==
  [position |-> position, tag |-> tag, content |-> content, supersedes |-> supersedes,
   head |-> head_of(content, prev), prev |-> prev, status |-> "pending"]

File(f, v) == [file |-> f, value |-> v]
Envelope(d) == [digest |-> d, status |-> "pending"]

\* start(): refused once there is a state file, whatever it holds.
Start ==
  /\ todo = <<>>
  /\ disk["state"] = None
  /\ LET d1 == [facet |-> 1, at |-> now] IN
       todo' = << File("document", d1), File("facet-1", d1),
                  File("envelope-1", Envelope(d1)),
                  File("log", << Entry(1, now, d1, None, None) >>),
                  File("state", [until |-> now + Until, d1 |-> d1, d2 |-> None]) >>
  /\ UNCHANGED <<now, disk, done, said, confirmed, deaths>>

CanSupersede ==
  /\ todo = <<>>
  /\ \A f \in {"state", "envelope-1", "facet-1", "log"} : Readable(f)
  /\ now > state.until
  /\ state.d2 = None

\* (mutant) The state is saved first.
WritesStateFirst(d2, entry) ==
  << File("state", [state EXCEPT !.d2 = d2]), File("facet-2", d2),
     File("envelope-2", Envelope(d2)), File("log", Append(log, entry)) >>

\* (mutant) The log is made of the two entries.
WritesTwo(d2, entry) ==
  << File("facet-2", d2), File("envelope-2", Envelope(d2)),
     File("log", << log[1], entry >>), File("state", [state EXCEPT !.d2 = d2]) >>

Writes(d2, entry) ==
  << File("facet-2", d2), File("envelope-2", Envelope(d2)),
     File("log", Append(log, entry)), File("state", [state EXCEPT !.d2 = d2]) >>

\* (mutant) The new entry is chained to the first one.
PrevFirst == log[1]

\* prev: the last entry, whatever its position.
Prev == Last(log)

\* supersede(): the new entry is entry 2 by construction.
Supersede ==
  /\ CanSupersede
  /\ LET d2 == [facet |-> 2, at |-> now] IN
       todo' = Writes(d2, Entry(2, Prev.tag, d2, state.d1, Prev.head))
  /\ UNCHANGED <<now, disk, done, said, confirmed, deaths>>

\* upgrade(): the envelopes there are, then the log.
Upgrade ==
  /\ todo = <<>>
  /\ Readable("state")
  /\ todo' = [i \in 1..3 |-> File(<<"envelope-1", "envelope-2", "log">>[i], None)]
  /\ done' = TRUE
  /\ said' = "nothing"
  /\ UNCHANGED <<now, disk, confirmed, deaths>>

-----------------------------------------------------------------------------
Step(f) == todo # <<>> /\ Head(todo).file = f /\ todo' = Tail(todo)

Write ==
  /\ todo # <<>>
  /\ Head(todo).value # None
  /\ disk' = [disk EXCEPT ![Head(todo).file] = Head(todo).value]
  /\ todo' = Tail(todo)
  /\ UNCHANGED <<now, done, said, confirmed, deaths>>

\* (mutant) What was fetched for one proof is kept for the next.
CompleteAll(x, target) == IF confirmed # {} THEN [x EXCEPT !.status = "confirmed"] ELSE x

\* _complete(): a proof is confirmed once its own target is in a block.
Complete(x, target) == IF target \in confirmed THEN [x EXCEPT !.status = "confirmed"] ELSE x

SkipAbsent ==
  /\ \E f \in {"envelope-1", "envelope-2"} :
       Step(f) /\ disk[f] = None /\ Head(todo).value = None
  /\ UNCHANGED <<now, disk, done, said, confirmed, deaths>>

UpgradeEnvelope(f) ==
  /\ Step(f)
  /\ Head(todo).value = None
  /\ Readable(f)
  /\ disk' = [disk EXCEPT ![f] = Complete(@, @.digest)]
  /\ done' = (done /\ disk'[f].status = "confirmed")
  /\ UNCHANGED <<now, said, confirmed, deaths>>

\* (mutant) Only the envelopes' proofs count.
AllDone(entries) == done

\* Nothing pending, in the envelopes or in the log.
Done(entries) == done /\ \A i \in DOMAIN entries : entries[i].status = "confirmed"

UpgradeLog ==
  /\ Step("log")
  /\ Head(todo).value = None
  /\ Readable("log")
  /\ LET entries == [i \in DOMAIN log |-> Complete(log[i], log[i].head)] IN
       /\ disk' = [disk EXCEPT !["log"] = entries]
       /\ done' = Done(entries)
       /\ said' = IF Done(entries) THEN "ALL CONFIRMED" ELSE "some proofs still pending"
  /\ UNCHANGED <<now, confirmed, deaths>>

\* The command ends where it is: killed, a calendar or the explorer failing, a
\* file that cannot be read. The file it was writing may be cut off.
Die(f) ==
  /\ deaths < MaxDeaths
  /\ todo # <<>>
  /\ todo' = <<>>
  /\ disk' = IF f = None THEN disk ELSE [disk EXCEPT ![f] = Torn]
  /\ deaths' = deaths + 1
  /\ UNCHANGED <<now, done, said, confirmed>>

Unreadable ==
  /\ todo # <<>>
  /\ Head(todo).value = None
  /\ \/ disk[Head(todo).file] = Torn
     \/ Head(todo).file = "log" /\ ~Readable("log")
  /\ todo' = <<>>
  /\ UNCHANGED <<now, disk, done, said, confirmed, deaths>>

Next ==
  \/ Tick
  \/ \E d \in Stamped : Confirm(d)
  \/ Start
  \/ Supersede
  \/ Upgrade
  \/ Write
  \/ SkipAbsent
  \/ \E f \in {"envelope-1", "envelope-2"} : UpgradeEnvelope(f)
  \/ UpgradeLog
  \/ Die(None)
  \/ todo # <<>> /\ Die(Head(todo).file)
  \/ Unreadable

Spec == Init /\ [][Next]_vars

-----------------------------------------------------------------------------
(* Properties *)

\* Whatever was interrupted and run again, the log that can be read is a chain:
\* each head covers the one before it, over the same tag, and every entry after
\* the first supersedes the first.
ChainHolds ==
  Readable("log") => \A i \in DOMAIN log :
    /\ log[i].prev = (IF i = 1 THEN None ELSE log[i - 1].head)
    /\ log[i].head = head_of(log[i].content, log[i].prev)
    /\ log[i].tag = log[1].tag
    /\ log[i].supersedes = (IF i = 1 THEN None ELSE log[1].content)

\* The state file is the commit point: once it names a facet, the facet, its
\* envelope and its log entry are there and agree with it, other than files that
\* were cut off later.
StateIsLast ==
  Readable("state") =>
    /\ \A f \in {"facet-1", "envelope-1", "log"} : disk[f] # None
    /\ Readable("facet-1") => disk["facet-1"] = state.d1
    /\ Readable("envelope-1") => disk["envelope-1"].digest = state.d1
    /\ Readable("log") => log[1].content = state.d1
    /\ state.d2 # None =>
         /\ disk["facet-2"] = state.d2
         /\ Readable("envelope-2") => disk["envelope-2"].digest = state.d2
         /\ Readable("log") => Last(log).content = state.d2

\* A proof on disk is marked confirmed only when its own digest or head is in a
\* block, not when that of another file or entry is.
ConfirmedIsAnchored ==
  /\ \A f \in {"envelope-1", "envelope-2"} :
       Readable(f) /\ disk[f].status = "confirmed" => disk[f].digest \in confirmed
  /\ Readable("log") => \A i \in DOMAIN log :
       log[i].status = "confirmed" => log[i].head \in confirmed

\* When upgrade says ALL CONFIRMED no proof it found is pending.
AllConfirmedIsAll ==
  [][ said # said' /\ said' = "ALL CONFIRMED" =>
      /\ \A i \in DOMAIN log' : log'[i].status = "confirmed"
      /\ \A f \in {"envelope-1", "envelope-2"} :
           Readable(f)' => disk'[f].status = "confirmed" ]_said

\* An entry is never dropped or changed other than in the status of its anchor,
\* once start has finished.
LogOnlyGrows ==
  [][ Readable("state") /\ Readable("log") /\ Readable("log")' =>
      /\ Len(log) <= Len(log')
      /\ \A i \in DOMAIN log :
           [log'[i] EXCEPT !.status = "pending"] = [log[i] EXCEPT !.status = "pending"] ]_vars

=============================================================================
