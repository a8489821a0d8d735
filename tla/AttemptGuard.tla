---------------------------- MODULE AttemptGuard ----------------------------
(***************************************************************************)
(* examples/smolagents-mutation-after-authorization/                       *)
(* decision_record_per_attempt.py: a guard around every tool callable of   *)
(* an agent run. Each attempt, allowed or denied, leaves a hash-chained    *)
(* record before the tool body can run; a denial observation carries the   *)
(* chain head out of the log; verify_chain() later checks a log, which may *)
(* have been edited, against a head kept that way.                         *)
(*                                                                         *)
(* A digest is the sequence of everything it hashes: the record's body     *)
(* appended to the digest in its prev field (collision-free, and never the *)
(* digest of no record, for which the code has None).                      *)
(***************************************************************************)
EXTENDS Integers, Sequences, FiniteSets

CONSTANTS
  Tool,         \* names of the guarded callables
  Arg,          \* argument values, as the JCS round trip leaves them
  Unbindable,   \* pairs <<tool, arg>> that do not bind to the signature
  Raw,          \* arguments json.dumps refuses
  MaxSteps,     \* bound: steps of the run
  MaxAttempts,  \* bound: calls of guarded callables
  MaxEdits      \* bound: edits made to one copy of the log

ASSUME GuardAssumption ==
  /\ Unbindable \subseteq Tool \X (Arg \union Raw)
  /\ Arg \cap Raw = {}
  /\ MaxSteps \in Nat
  /\ MaxAttempts \in Nat
  /\ MaxEdits \in Nat

\* What a record says; preimage stands for preimage_hash over tool and args
\* (agent_id and policy_version are the same throughout a run), attempt_id for
\* the hash of step and call_index.
Body == [attempt_id : Nat \X Nat, tool : Tool, args : Arg,
         preimage : Tool \X Arg, allowed : BOOLEAN,
         reason : {"binding", "policy"}]

Digest == Seq(Body)
NoDigest == <<>>

Rec == [body : Body, prev : Digest]

\* h(record)
h(r) == Append(r.prev, r.body)

\* prev of a record appended to log s, and the tip in head().
Tip(s) == IF s = <<>> THEN NoDigest ELSE h(s[Len(s)])

VARIABLES
  step,       \* the guard's step
  call_index, \* the guard's per-step counter
  records,    \* the guard's log
  executions, \* how often a tool body was entered
  attempts,   \* history: how often a guarded callable was called
  raised,     \* denials on their way to whoever catches them (record numbers)
  kept,       \* denial observations: record number and head
  log,        \* a copy of the log, possibly edited
  edits,      \* how many edits the copy went through
  head,       \* verify_chain(): the head given to it, or NoHead
  pc,         \* verify_chain(): where it stands
  pos,        \* verify_chain(): position of its loop
  prev        \* verify_chain(): digest of the record before

guardVars  == <<step, call_index, records, executions, attempts, raised, kept>>
logVars    == <<log, edits>>
verifyVars == <<head, pc, pos, prev>>
vars       == <<guardVars, logVars, verifyVars>>

ChainHead == [n : Nat, tip : Digest]
NoHead == [n |-> 0, tip |-> NoDigest]

TypeOK ==
  /\ step \in Nat
  /\ call_index \in Nat
  /\ records \in Seq(Rec)
  /\ executions \in Nat
  /\ attempts \in Nat
  /\ raised \in SUBSET Nat
  /\ kept \in SUBSET [record : Nat, head : ChainHead]
  /\ log \in Seq(Rec)
  /\ edits \in 0..MaxEdits
  /\ head \in ChainHead
  /\ pc \in {"idle", "loop", "true", "false"}
  /\ pos \in Nat \ {0}
  /\ prev \in Digest

Init ==
  /\ step = 0
  /\ call_index = 0
  /\ records = <<>>
  /\ executions = 0
  /\ attempts = 0
  /\ raised = {}
  /\ kept = {}
  /\ log = <<>>
  /\ edits = 0
  /\ head = NoHead
  /\ pc = "idle"
  /\ pos = 1
  /\ prev = NoDigest

-----------------------------------------------------------------------------
(* The guard *)

\* (mutant) The step is not advanced, only its counter reset.
NewStepSame ==
  /\ step < MaxSteps
  /\ step' = step
  /\ call_index' = 0
  /\ UNCHANGED <<records, executions, attempts, raised, kept, logVars, verifyVars>>

\* new_step()
NewStep ==
  /\ step < MaxSteps
  /\ step' = step + 1
  /\ call_index' = 0
  /\ UNCHANGED <<records, executions, attempts, raised, kept, logVars, verifyVars>>

\* The record _decide() appends for a call of tool t with arguments a.
Decided(t, a, allowed, reason) ==
  [body |-> [attempt_id |-> <<step, call_index>>, tool |-> t, args |-> a,
             preimage |-> <<t, a>>, allowed |-> allowed, reason |-> reason],
   prev |-> Tip(records)]

Attempt ==
  /\ attempts < MaxAttempts
  /\ attempts' = attempts + 1

\* (mutant) The call is counted before the decision is looked at.
CallUnboundCounted(t, a) ==
  /\ Attempt
  /\ <<t, a>> \in Unbindable
  /\ records' = Append(records, Decided(t, a, FALSE, "binding"))
  /\ call_index' = call_index + 1
  /\ executions' = executions + 1
  /\ raised' = raised \union {Len(records) + 1}
  /\ UNCHANGED <<step, kept, logVars, verifyVars>>

\* guarded(): the arguments do not bind; the denial is recorded and raised.
CallUnbound(t, a) ==
  /\ Attempt
  /\ <<t, a>> \in Unbindable
  /\ records' = Append(records, Decided(t, a, FALSE, "binding"))
  /\ call_index' = call_index + 1
  /\ raised' = raised \union {Len(records) + 1}
  /\ UNCHANGED <<step, executions, kept, logVars, verifyVars>>

\* guarded(): the policy denies; the denial is recorded and raised.
CallDenied(t, a) ==
  /\ Attempt
  /\ <<t, a>> \notin Unbindable
  /\ records' = Append(records, Decided(t, a, FALSE, "policy"))
  /\ call_index' = call_index + 1
  /\ raised' = raised \union {Len(records) + 1}
  /\ UNCHANGED <<step, executions, kept, logVars, verifyVars>>

\* guarded(): the policy allows; recorded, counted, and the body is entered.
\* The body may call guarded tools itself: those are further calls.
CallAllowed(t, a) ==
  /\ Attempt
  /\ <<t, a>> \notin Unbindable
  /\ records' = Append(records, Decided(t, a, TRUE, "policy"))
  /\ call_index' = call_index + 1
  /\ executions' = executions + 1
  /\ UNCHANGED <<step, raised, kept, logVars, verifyVars>>

\* guarded(): the policy itself raises. The index is spent, nothing recorded.
PolicyRaises(t, a) ==
  /\ Attempt
  /\ <<t, a>> \notin Unbindable
  /\ call_index' = call_index + 1
  /\ UNCHANGED <<step, records, executions, raised, kept, logVars, verifyVars>>

\* guarded(): the snapshot of the arguments raises before anything is counted.
SnapshotRaises(t, a) ==
  /\ Attempt
  /\ UNCHANGED <<step, call_index, records, executions, raised, kept, logVars,
                 verifyVars>>

\* (mutant) The tip is the last record's own prev.
CurrentHeadStale ==
  [n |-> Len(records), tip |-> records[Len(records)].prev]

\* head()
CurrentHead == [n |-> Len(records), tip |-> Tip(records)]

\* Whoever catches the denial of record k keeps observation(record, head()).
\* Other calls may have been recorded since it was raised.
Observe(k) ==
  /\ kept' = kept \union {[record |-> k, head |-> CurrentHead]}
  /\ raised' = raised \ {k}
  /\ UNCHANGED <<step, call_index, records, executions, attempts, logVars, verifyVars>>

-----------------------------------------------------------------------------
(* The log, away from the guard *)

Copy ==
  /\ pc = "idle"
  /\ log' = records
  /\ edits' = 0
  /\ UNCHANGED <<guardVars, verifyVars>>

Edited(s) ==
  /\ pc = "idle"
  /\ edits < MaxEdits
  /\ log' = s
  /\ edits' = edits + 1
  /\ UNCHANGED <<guardVars, verifyVars>>

Without(s, i) == SubSeq(s, 1, i - 1) \o SubSeq(s, i + 1, Len(s))

\* A record is dropped, in the middle or at the end.
DropRecord(i) == Edited(Without(log, i))

\* Two records are swapped.
SwapRecords(i) ==
  /\ i < Len(log)
  /\ Edited([log EXCEPT ![i] = log[i + 1], ![i + 1] = log[i]])

\* The stored arguments are edited.
AlterArgs(i, a) ==
  /\ a # log[i].body.args
  /\ Edited([log EXCEPT ![i].body.args = a])

\* The decision is edited, which no hash of its own record covers.
FlipAllowed(i) ==
  Edited([log EXCEPT ![i].body.allowed = ~@])

\* A record's prev is recomputed from the record now before it.
Relink(i) ==
  LET p == IF i = 1 THEN NoDigest ELSE h(log[i - 1])
  IN  /\ log[i].prev # p
      /\ Edited([log EXCEPT ![i].prev = p])

-----------------------------------------------------------------------------
(* verify_chain(records, head) *)

Begin(hd) ==
  /\ pc = "idle"
  /\ head' = hd
  /\ pc' = "loop"
  /\ pos' = 1
  /\ prev' = NoDigest
  /\ UNCHANGED <<guardVars, logVars>>

PreimageOK(b) == b.preimage = <<b.tool, b.args>>

\* One iteration: a record that does not link, or whose preimage does not
\* recompute, ends the check.
CheckRecord ==
  /\ pc = "loop"
  /\ pos <= Len(log)
  /\ IF log[pos].prev = prev /\ PreimageOK(log[pos].body)
     THEN pc' = pc /\ prev' = h(log[pos]) /\ pos' = pos + 1
     ELSE pc' = "false" /\ UNCHANGED <<prev, pos>>
  /\ UNCHANGED <<guardVars, logVars, head>>

\* (mutant) Only the length is compared.
HeadOKLength == head.n = 0 \/ Len(log) >= head.n

\* No head, and the head of an empty log, require nothing more.
HeadOK == head.n = 0 \/ (Len(log) >= head.n /\ h(log[head.n]) = head.tip)

CheckHead ==
  /\ pc = "loop"
  /\ pos > Len(log)
  /\ pc' = IF HeadOK THEN "true" ELSE "false"
  /\ UNCHANGED <<guardVars, logVars, head, pos, prev>>

-----------------------------------------------------------------------------
KeptHeads == {o.head : o \in kept}

Guard ==
  \/ NewStep
  \/ \E t \in Tool :
       \/ \E a \in Arg : \/ CallUnbound(t, a)
                         \/ CallDenied(t, a)
                         \/ CallAllowed(t, a)
                         \/ PolicyRaises(t, a)
       \/ \E a \in Raw : SnapshotRaises(t, a)
  \/ \E k \in raised : Observe(k)

Holder ==
  \/ Copy
  \/ \E i \in 1..Len(log) : \/ DropRecord(i)
                            \/ SwapRecords(i)
                            \/ \E a \in Arg : AlterArgs(i, a)
                            \/ FlipAllowed(i)
                            \/ Relink(i)

Verifier ==
  \/ \E hd \in KeptHeads \union {NoHead} : Begin(hd)
  \/ CheckRecord
  \/ CheckHead

Next == Guard \/ Holder \/ Verifier

Spec == Init /\ [][Next]_vars

-----------------------------------------------------------------------------
(* Properties *)

\* attempt_id names one record of the run: neither the reset of call_index at
\* a new step nor an index spent on a call that left no record repeats one.
AttemptIdsUnique ==
  \A i, j \in 1..Len(records) :
    records[i].body.attempt_id = records[j].body.attempt_id => i = j

AllowedRecords == {i \in 1..Len(records) : records[i].body.allowed}

\* "executions = records with allowed=true" holds between any two calls, and
\* every denied record is either still on its way or observed.
CountsFromLog ==
  /\ executions = Cardinality(AllowedRecords)
  /\ (1..Len(records)) \ AllowedRecords = raised \union {o.record : o \in kept}

\* A kept head is of the log as it stands, and covers the denial it came with,
\* however late the denial was caught and whatever was recorded since.
KeptHeadsHold ==
  \A o \in kept :
    /\ o.record <= o.head.n
    /\ o.head.n <= Len(records)
    /\ o.head.tip = h(records[o.head.n])

\* What verify_chain(log, kept head) = True is worth: up to the head, the log
\* is the guard's own, whatever was done to the copy.
VerifiedIsGenuine ==
  pc = "true" =>
    \A i \in 1..head.n : i <= Len(log) /\ log[i] = records[i]

=============================================================================
