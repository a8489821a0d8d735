------------------------- MODULE BroadcastByteDiff -------------------------
(***************************************************************************)
(* tools/broadcast_byte_diff.py: the relays are asked one after the other  *)
(* for an event by its id; each answers as it likes, or not at all, and    *)
(* what it sent last within a window of messages is compared with the      *)
(* event that was meant. The run then says match, mismatch or inconclusive.*)
(***************************************************************************)
EXTENDS Integers, Sequences, SequencesExt

CONSTANTS
  Relays,  \* the relay URLs in the order they are asked, repeated or not
  Window   \* messages read from one relay

ASSUME RelayAssumption == Relays \in Seq(STRING) /\ Window \in Nat \ {0}

Urls == Range(Relays)

\* The third element of an EVENT: the event itself, one that differs in a
\* compared field, null, or something that is not an object.
Copy == {"same", "differs", "null", "scalar"}

\* A frame: an EVENT of this subscription with its copy, the end of the stored
\* events, or one that is skipped (a NOTICE, an EVENT of another subscription).
Message == Copy \union {"eose", "skipped"}

Status == {"byte_identical", "byte_mismatch", "not_found", "error"}
RunStatus == {"confirmed_match", "confirmed_mismatch", "inconclusive"}

VARIABLES
  pc,          \* "start", "connect", "recv", "compare", "aggregate" or "done"
  pos,         \* how many relays have been asked
  reads,       \* messages read from the one being asked
  found,       \* the copy it sent last, or "null"
  results,     \* result["relays"]
  run_status,  \* result["run_status"]
  exit_code,   \* what main() returns
  served       \* history: the copies each connection delivered

relayVars == <<pc, pos, reads, found, results, run_status, exit_code, served>>

RelayTypeOK ==
  /\ pc \in {"start", "connect", "recv", "compare", "aggregate", "done"}
  /\ pos \in 0..Len(Relays)
  /\ reads \in 0..Window
  /\ found \in Copy
  /\ results \in [Urls -> Status \union {"unset"}]
  /\ run_status \in RunStatus \union {"unset"}
  /\ exit_code \in {-1, 0, 1, 2}
  /\ served \in [1..Len(Relays) -> SUBSET Copy]

RelayInit ==
  /\ pc = "start"
  /\ pos = 0
  /\ reads = 0
  /\ found = "null"
  /\ results = [u \in Urls |-> "unset"]
  /\ run_status = "unset"
  /\ exit_code = -1
  /\ served = [i \in 1..Len(Relays) |-> {}]

Exit(status) == CASE status = "confirmed_match"    -> 0
                  [] status = "confirmed_mismatch" -> 1
                  [] status = "inconclusive"       -> 2

-----------------------------------------------------------------------------
\* No event with an id, or no websockets: nothing is asked.
Refuse ==
  /\ pc = "start"
  /\ pc' = "done"
  /\ run_status' = "inconclusive"
  /\ exit_code' = Exit(run_status')
  /\ UNCHANGED <<pos, reads, found, results, served>>

NextRelay == IF pos = Len(Relays) THEN "aggregate" ELSE "connect"

Begin ==
  /\ pc = "start"
  /\ pc' = NextRelay
  /\ UNCHANGED <<pos, reads, found, results, run_status, exit_code, served>>

\* The connection opens and the request is sent.
Connect ==
  /\ pc = "connect"
  /\ pc' = "recv"
  /\ reads' = 0
  /\ found' = "null"
  /\ UNCHANGED <<pos, results, run_status, exit_code, served>>

\* _check_one returns status for the relay being asked, and the loop goes on.
Return(status) ==
  /\ results' = [results EXCEPT ![Relays[pos + 1]] = status]
  /\ pos' = pos + 1
  /\ pc' = IF pos + 1 = Len(Relays) THEN "aggregate" ELSE "connect"
  /\ reads' = 0
  /\ found' = "null"
  /\ UNCHANGED <<run_status, exit_code, served>>

\* It cannot be reached, closes, times out, or sends what is not a message.
Fail ==
  /\ pc \in {"connect", "recv"}
  /\ Return("error")

\* (mutant) The window starts again with every copy.
CountedSinceCopy(m) == IF m \in Copy THEN 0 ELSE reads + 1

Counted(m) == reads + 1

Receive(m) ==
  /\ pc = "recv"
  /\ reads' = Counted(m)
  /\ found' = IF m \in Copy THEN m ELSE found
  /\ served' = IF m \in Copy THEN [served EXCEPT ![pos + 1] = @ \union {m}] ELSE served
  /\ pc' = IF m = "eose" \/ reads' = Window THEN "compare" ELSE "recv"
  /\ UNCHANGED <<pos, results, run_status, exit_code>>

\* (mutant) An absent copy has nothing that differs.
StatusOfAbsentSame(copy) ==
  CASE copy \in {"null", "same"} -> "byte_identical"
    [] copy = "differs" -> "byte_mismatch"
    [] copy = "scalar"  -> "error"

\* Field by field; what is not an object has no fields to ask for.
StatusOf(copy) == CASE copy = "null"    -> "not_found"
                    [] copy = "same"    -> "byte_identical"
                    [] copy = "differs" -> "byte_mismatch"
                    [] copy = "scalar"  -> "error"

Compare ==
  /\ pc = "compare"
  /\ Return(StatusOf(found))

\* (mutant) A relay that could not be asked counts as one that disagrees.
AggregateErrorDisagrees(rs) ==
  IF \E u \in Urls : rs[u] \in {"byte_mismatch", "error"} THEN "confirmed_mismatch"
  ELSE IF \E u \in Urls : rs[u] = "byte_identical" THEN "confirmed_match"
  ELSE "inconclusive"

Aggregate(rs) ==
  IF \E u \in Urls : rs[u] = "byte_mismatch" THEN "confirmed_mismatch"
  ELSE IF \E u \in Urls : rs[u] = "byte_identical" THEN "confirmed_match"
  ELSE "inconclusive"

Finish ==
  /\ pc = "aggregate"
  /\ pc' = "done"
  /\ run_status' = Aggregate(results)
  /\ exit_code' = Exit(run_status')
  /\ UNCHANGED <<pos, reads, found, results, served>>

RelayNext == \/ Refuse
             \/ Begin
             \/ Connect
             \/ Fail
             \/ \E m \in Message : Receive(m)
             \/ Compare
             \/ Finish

\* Opening and receiving both have a timeout, so the tool never waits forever.
RelaySpec == RelayInit /\ [][RelayNext]_relayVars /\ WF_relayVars(RelayNext)

-----------------------------------------------------------------------------
(* Properties *)

\* An exit code is earned, whatever was lost, skipped or refused on the way: 0 by
\* a relay that really delivered the event as it was meant, 1 by one that really
\* delivered a copy that differs. A run in which nobody could be asked never
\* looks like a mismatch.
ExitWitnessed ==
  /\ exit_code = 0 => \E i \in 1..Len(Relays) : "same" \in served[i]
  /\ exit_code = 1 => \E i \in 1..Len(Relays) : "differs" \in served[i]

\* "A single relay's failure doesn't fail the whole check": a relay asked once
\* that delivered the event and nothing else, to the end of its answer, makes the
\* run a match as long as no relay delivered anything else.
FailureIsolated ==
  /\ pc = "done"
  /\ \A i \in 1..Len(Relays) : served[i] \subseteq {"same"}
  /\ \E u \in Urls : results[u] = "byte_identical"
  => exit_code = 0

\* The run ends, however much the relays talk and whenever they fall silent.
Terminates == <>(pc = "done")
=============================================================================
