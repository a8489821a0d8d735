---------------------- MODULE PublishedEventProofs ----------------------
(***************************************************************************)
(* What holds of a published verdict event on either side of its relays.   *)
(* The verdict component of adapter.ts: for every set of actions and       *)
(* targets, every accepted set, max_age_s, clock skew and number of        *)
(* verdicts, a runtime that dispatches on its results implements           *)
(* GovernedDispatch, and a result it kept is one it would get again.       *)
(* tools/broadcast_byte_diff.py: for every list of relays and every window *)
(* of messages, the exit code is earned by what the relays delivered.      *)
(***************************************************************************)
EXTENDS FederationAdapter, BroadcastByteDiff, FiniteSetTheorems, TLAPS

-----------------------------------------------------------------------------
(* adapter.ts: the inductive invariant *)

\* A verdict event, and what check() may be given.
Verdict == [action : Actions, verdict : {"approve", "deny"}, created_at : Nat, when : Nat]

NothingInput == [form : {"empty", "not_json", "not_event"}, target : {"none"}]
EventInput == [form : {"event"}, event : Verdict, action : Actions,
               target : Targets \union {"none"}, defect : Defect, content_json : BOOLEAN]

\* What the issuer signed is dated between its signing and the skew after it.
IssuedInv ==
  /\ IsFiniteSet(issued)
  /\ Cardinality(issued) <= MaxIssued
  /\ issued \subseteq Verdict
  /\ \A e \in issued : e.when <= now /\ e.created_at <= e.when + Skew

\* The event last presented is one the issuer signed.
InputInv ==
  /\ input \in NothingInput \union EventInput
  /\ input.form = "event" => input \in EventInput /\ input.event \in issued

\* The result kept is that of a check of the same input at an earlier time.
OutputInv == \E t \in 0..now : output = Result(input, t)

IInv ==
  /\ now \in 0..Horizon
  /\ IssuedInv
  /\ InputInv
  /\ OutputInv

-----------------------------------------------------------------------------
(* What check() returns *)

\* A claim status is one of three, whatever is presented.
LEMMA ClaimsType ==
  ASSUME NEW i \in NothingInput \union EventInput, NEW t
  PROVE  Claims(i, t) \in [Claim -> {"established", "not_established", "failed"}]
BY DEF Claims, All, Claim, Permits, TargetStatus

\* Permission is established only for an event of the issuer on exactly the
\* action at hand, with an accepted verdict that is fresh at the time.
LEMMA PermitsMeans ==
  ASSUME NEW i \in NothingInput \union EventInput, NEW t
  PROVE  Claims(i, t)["permits"] = "established" <=>
           /\ i.form = "event"
           /\ i.defect = "none"
           /\ i.content_json
           /\ i.event.action = i.action
           /\ i.event.verdict \in Accepted
           /\ t <= i.event.created_at + MaxAge
<1>1. CASE i \in NothingInput
  BY <1>1 DEF NothingInput, Claims, All, Claim
<1>2. CASE i \in EventInput
  BY <1>2 DEF EventInput, Claims, All, Claim, Permits
<1>3. QED BY <1>1, <1>2

\* valid_until is the event's own expiry where permission is established, and 0
\* (none) elsewhere.
LEMMA ValidUntil ==
  ASSUME NEW i \in NothingInput \union EventInput, NEW t
  PROVE  /\ Result(i, t).claims = Claims(i, t)
         /\ Claims(i, t)["permits"] = "established" =>
              /\ i \in EventInput
              /\ Result(i, t).valid_until = i.event.created_at + MaxAge
         /\ Claims(i, t)["permits"] # "established" => Result(i, t).valid_until = 0
<1>1. i.form = "event" => i \in EventInput
  BY DEF NothingInput
<1>2. QED BY <1>1, PermitsMeans DEF Result, Expires

\* Between two checks of one input only freshness can change the result.
LEMMA SameClaims ==
  ASSUME NEW i \in NothingInput \union EventInput, NEW s, NEW t,
         i.event.verdict \in Accepted,
         s <= i.event.created_at + MaxAge, t <= i.event.created_at + MaxAge
  PROVE  Claims(i, s) = Claims(i, t)
BY DEF Claims, Permits

\* When every claim is established the action goes to the target it names itself.
LEMMA TargetMeans ==
  ASSUME NEW i \in EventInput, NEW t, Claims(i, t)["target"] = "established"
  PROVE  /\ i.action.target \in Targets
         /\ i.action.target = IF i.target # "none" THEN i.target ELSE Declared
BY DEF EventInput, Claims, All, Claim, TargetStatus

-----------------------------------------------------------------------------
(* Every step keeps the invariant *)

\* The initial state: nothing issued, and the result of no input.
LEMMA InitInv == Init => IInv
<1> SUFFICES ASSUME Init PROVE IInv
  OBVIOUS
<1> USE DEF Init
<1>1. now \in 0..Horizon
  BY ClockAssumption
<1>2. IssuedInv
  BY FS_EmptySet, ClockAssumption DEF IssuedInv
<1>3. InputInv
  BY DEF InputInv, NoInput, NothingInput
<1>4. OutputInv
  <2>1. Result(input, 0) = output
    BY DEF Result, Claims, NoInput, All, Claim
  <2>2. QED BY <2>1 DEF OutputInv
<1>5. QED BY <1>1, <1>2, <1>3, <1>4 DEF IInv

\* Time passes: what was issued is older, the kept result is of an earlier time.
LEMMA TickInv == IInv /\ Tick => IInv'
<1> SUFFICES ASSUME IInv, Tick PROVE IInv'
  OBVIOUS
<1> USE DEF IInv, Tick
<1>1. now \in Nat /\ now' = now + 1 /\ now' \in 0..Horizon
  BY ClockAssumption
<1>2. IssuedInv'
  BY <1>1 DEF IssuedInv, Verdict
<1>3. InputInv'
  BY DEF InputInv
<1>4. OutputInv'
  BY <1>1 DEF OutputInv
<1>5. QED BY <1>1, <1>2, <1>3, <1>4

\* The issuer signs, its clock ahead by at most the skew.
LEMMA IssueInv == IInv /\ Issue => IInv'
<1> SUFFICES ASSUME IInv, Issue PROVE IInv'
  OBVIOUS
<1> USE DEF IInv
<1>1. PICK a \in Actions, v \in {"approve", "deny"}, s \in 0..Skew :
        issued' = issued \union {[action |-> a, verdict |-> v, created_at |-> now + s, when |-> now]}
  BY DEF Issue
<1> DEFINE e == [action |-> a, verdict |-> v, created_at |-> now + s, when |-> now]
<1>2. now \in Nat /\ s \in Nat /\ s <= Skew
  BY ClockAssumption
<1>3. e \in Verdict /\ e.when = now /\ e.created_at = now + s
  BY <1>2 DEF Verdict
<1>4. IsFiniteSet(issued') /\ Cardinality(issued') <= MaxIssued
  <2>1. IsFiniteSet(issued) /\ Cardinality(issued) \in Nat /\ Cardinality(issued) < MaxIssued
    BY FS_CardinalityType DEF IssuedInv, Issue
  <2>2. IsFiniteSet(issued') /\ Cardinality(issued') <= Cardinality(issued) + 1
    BY <1>1, <2>1, FS_AddElement
  <2>3. Cardinality(issued') \in Nat
    BY <2>2, FS_CardinalityType
  <2>4. QED BY <2>1, <2>2, <2>3, ClockAssumption
<1>5. \A x \in issued' : x \in Verdict /\ x.when <= now /\ x.created_at <= x.when + Skew
  BY <1>1, <1>2, <1>3, ClockAssumption DEF IssuedInv
<1>6. IssuedInv'
  BY <1>4, <1>5 DEF IssuedInv, Issue
<1>7. InputInv'
  BY <1>1 DEF InputInv, Issue
<1>8. OutputInv'
  BY DEF OutputInv, Issue
<1>9. QED BY <1>6, <1>7, <1>8 DEF Issue

\* check() of an input the issuer's events allow.
LEMMA CheckInv ==
  ASSUME NEW i \in NothingInput \union EventInput,
         i.form = "event" => i \in EventInput /\ i.event \in issued,
         IInv, CheckWith(i)
  PROVE  IInv'
<1>1. now \in 0..now /\ now' = now
  BY ClockAssumption DEF IInv, CheckWith
<1>2. OutputInv'
  BY <1>1 DEF CheckWith, OutputInv
<1>3. IssuedInv' /\ InputInv'
  BY DEF CheckWith, IInv, IssuedInv, InputInv
<1>4. QED BY <1>1, <1>2, <1>3 DEF IInv

\* Every step of issuer, clock and runtime keeps the invariant.
LEMMA NextInv == IInv /\ [Next]_vars => IInv'
<1> SUFFICES ASSUME IInv, [Next]_vars PROVE IInv'
  OBVIOUS
<1>1. ASSUME CheckNothing PROVE IInv'
  <2>1. PICK f \in {"empty", "not_json", "not_event"} : CheckWith([form |-> f, target |-> "none"])
    BY <1>1 DEF CheckNothing
  <2>2. [form |-> f, target |-> "none"] \in NothingInput
    BY DEF NothingInput
  <2>3. QED BY <2>1, <2>2, CheckInv
<1>2. ASSUME CheckEvent PROVE IInv'
  <2>1. PICK e \in issued, a \in Actions, t \in Targets \union {"none"}, d \in Defect, j \in BOOLEAN :
          CheckWith([form |-> "event", event |-> e, action |-> a, target |-> t, defect |-> d, content_json |-> j])
    BY <1>2 DEF CheckEvent
  <2> DEFINE i == [form |-> "event", event |-> e, action |-> a, target |-> t, defect |-> d, content_json |-> j]
  <2>2. e \in Verdict
    BY DEF IInv, IssuedInv
  <2>3. i \in EventInput /\ i.event = e
    BY <2>2 DEF EventInput
  <2>4. QED BY <2>1, <2>3, CheckInv
<1>3. ASSUME Dispatch PROVE IInv'
  BY <1>3 DEF Dispatch, IInv, IssuedInv, InputInv, OutputInv
<1>4. ASSUME UNCHANGED vars PROVE IInv'
  BY <1>4 DEF vars, IInv, IssuedInv, InputInv, OutputInv
<1>5. QED BY <1>1, <1>2, <1>3, <1>4, TickInv, IssueInv DEF Next

\* The invariant holds throughout.
LEMMA Invariant == Spec => []IInv
BY InitInv, NextInv, PTL DEF Spec

-----------------------------------------------------------------------------
(* Theorems *)

\* Every variable has its type: the clock stays below the horizon, no more
\* verdicts are issued than allowed, and valid_until is never later than the
\* last verdict's expiry.
THEOREM TypeCorrect == Spec => []TypeOK
<1>1. IInv => TypeOK
  <2> SUFFICES ASSUME IInv PROVE TypeOK
    OBVIOUS
  <2>1. PICK t \in 0..now : output = Result(input, t)
    BY DEF IInv, OutputInv
  <2>2. input \in NothingInput \union EventInput
    BY DEF IInv, InputInv
  <2>3. output.claims \in [Claim -> {"established", "not_established", "failed"}]
    BY <2>1, <2>2, ClaimsType, ValidUntil
  <2>4. output.valid_until \in 0..(Horizon + Skew + MaxAge)
    <3>1. CASE Claims(input, t)["permits"] = "established"
      <4>1. input.form = "event" /\ output.valid_until = input.event.created_at + MaxAge
        BY <2>1, <2>2, <3>1, ValidUntil, PermitsMeans
      <4>2. input.event \in Verdict /\ input.event.when <= now
            /\ input.event.created_at <= input.event.when + Skew
        BY <4>1 DEF IInv, IssuedInv, InputInv
      <4>3. QED BY <4>1, <4>2, ClockAssumption DEF Verdict, IInv
    <3>2. CASE Claims(input, t)["permits"] # "established"
      BY <2>1, <2>2, <3>2, ValidUntil, ClockAssumption
    <3>3. QED BY <3>1, <3>2
  <2>5. QED BY <2>3, <2>4 DEF TypeOK, IInv, IssuedInv
<1>2. QED BY <1>1, Invariant, PTL

\* A kept result is current exactly until its valid_until: check() of the same
\* input now would return it again, and after valid_until it would not.
THEOREM KeptResultIsCurrent == Spec => []KeptIsCurrent
<1>1. IInv => KeptIsCurrent
  <2> SUFFICES ASSUME IInv, input.form = "event", output.valid_until > 0
               PROVE  (now <= output.valid_until) <=> (Result(input, now) = output)
    BY DEF KeptIsCurrent
  <2>1. PICK t \in 0..now : output = Result(input, t)
    BY DEF IInv, OutputInv
  <2>2. input \in EventInput
    BY DEF IInv, InputInv
  <2>3. Claims(input, t)["permits"] = "established"
    BY <2>1, <2>2, ValidUntil
  <2>4. /\ input.event.verdict \in Accepted
        /\ t <= input.event.created_at + MaxAge
        /\ output.valid_until = input.event.created_at + MaxAge
        /\ output.claims = Claims(input, t)
    BY <2>1, <2>2, <2>3, PermitsMeans, ValidUntil
  <2>5. ASSUME now <= output.valid_until PROVE Result(input, now) = output
    <3>1. Claims(input, now) = Claims(input, t)
      BY <2>2, <2>4, <2>5, SameClaims
    <3>2. QED BY <2>1, <3>1 DEF Result
  <2>6. ASSUME Result(input, now) = output PROVE now <= output.valid_until
    <3>1. Claims(input, now)["permits"] = "established"
      BY <2>2, <2>3, <2>4, <2>6, ValidUntil
    <3>2. QED BY <2>2, <2>4, <3>1, PermitsMeans
  <2>7. QED BY <2>5, <2>6
<1>2. QED BY <1>1, Invariant, PTL

\* A dispatch of the runtime is one GovernedDispatch allows: the verdict it rests
\* on was really issued for this action, was accepted, is no older than max_age_s
\* and the skew, and the target is the one the action names.
LEMMA DispatchGoverned == IInv /\ Dispatch => Governed!Dispatch
<1> SUFFICES ASSUME IInv, Dispatch PROVE Governed!Dispatch
  OBVIOUS
<1>1. PICK t \in 0..now : output = Result(input, t)
  BY DEF IInv, OutputInv
<1>2. input \in NothingInput \union EventInput
  BY DEF IInv, InputInv
<1>3. Claims(input, t)["permits"] = "established" /\ Claims(input, t)["target"] = "established"
  BY <1>1, <1>2, ValidUntil DEF Dispatch, All, Claim
<1>4. /\ input.form = "event"
      /\ input \in EventInput
      /\ input.event.action = input.action
      /\ input.event.verdict \in Accepted
      /\ output.valid_until = input.event.created_at + MaxAge
  BY <1>1, <1>2, <1>3, PermitsMeans, ValidUntil
<1>5. /\ input.action.target \in Targets
      /\ input.action.target = IF input.target # "none" THEN input.target ELSE Declared
  BY <1>3, <1>4, TargetMeans
<1>6. /\ input.event \in issued
      /\ input.event \in Verdict
      /\ input.event.created_at <= input.event.when + Skew
  BY <1>4 DEF IInv, IssuedInv, InputInv
<1> DEFINE v == [action |-> input.event.action, verdict |-> input.event.verdict, when |-> input.event.when]
<1>7. v \in {[action |-> e.action, verdict |-> e.verdict, when |-> e.when] : e \in issued}
  BY <1>6
<1>8. now <= v.when + (MaxAge + Skew)
  BY <1>4, <1>6, ClockAssumption DEF Dispatch, IInv, Verdict
<1>9. dispatched' = dispatched \union {[action |-> v.action, target |-> v.action.target, when |-> now]}
  BY <1>4, <1>5 DEF Dispatch
<1>10. QED
  BY <1>4, <1>5, <1>7, <1>8, <1>9 DEF Governed!Dispatch, Dispatch

\* The issuer's step is one of the abstract issuer: the verdict is dated by the
\* moment it was signed, whatever its own clock said.
LEMMA IssueGoverned == Issue => Governed!Issue
<1> SUFFICES ASSUME Issue PROVE Governed!Issue
  OBVIOUS
<1>1. PICK a \in Actions, v \in {"approve", "deny"}, s \in 0..Skew :
        issued' = issued \union {[action |-> a, verdict |-> v, created_at |-> now + s, when |-> now]}
  BY DEF Issue
<1> DEFINE x == [action |-> a, verdict |-> v, created_at |-> now + s, when |-> now]
           Abs(e) == [action |-> e.action, verdict |-> e.verdict, when |-> e.when]
<1>2. Abs(x) = [action |-> a, verdict |-> v, when |-> now]
  OBVIOUS
<1>3. issued' = issued \union {x}
  BY <1>1
<1> HIDE DEF x, Abs
<1>4. {Abs(e) : e \in issued'} = {Abs(e) : e \in issued} \union {Abs(x)}
  BY <1>3, Zenon
<1>5. {Abs(e) : e \in issued'} = {Abs(e) : e \in issued} \union {[action |-> a, verdict |-> v, when |-> now]}
  BY <1>2, <1>4
<1>6. UNCHANGED <<now, dispatched>>
  BY DEF Issue
<1>7. QED BY <1>5, <1>6 DEF Governed!Issue, Abs

\* The runtime with this component implements GovernedDispatch: check() may be
\* asked about anything, in any order and as often as wanted, its result kept and
\* used again, and nothing is dispatched that the abstract runtime would not.
THEOREM Implements == Spec => ImplementsGoverned
<1>1. Init => Governed!Init
  BY DEF Init, Governed!Init
<1>2. IInv /\ [Next]_vars => [Governed!Next]_<<now, {[action |-> e.action, verdict |-> e.verdict, when |-> e.when] : e \in issued}, dispatched>>
  <2> SUFFICES ASSUME IInv, [Next]_vars
               PROVE  [Governed!Next]_<<now, {[action |-> e.action, verdict |-> e.verdict, when |-> e.when] : e \in issued}, dispatched>>
    OBVIOUS
  <2> DEFINE abstract == <<now, {[action |-> e.action, verdict |-> e.verdict, when |-> e.when] : e \in issued}, dispatched>>
  \* A check, and a stutter, leave everything the abstract dispatcher has alone.
  <2>unseen. CheckNothing \/ CheckEvent \/ UNCHANGED vars => UNCHANGED abstract
    BY DEF CheckNothing, CheckEvent, CheckWith, vars
  <2>time. Tick => Governed!Tick
    BY DEF Tick, Governed!Tick
  <2>verdict. Issue => Governed!Next
    BY IssueGoverned DEF Governed!Next
  <2>effect. Dispatch => Governed!Next
    BY DispatchGoverned DEF Governed!Next
  <2> QED BY <2>time, <2>verdict, <2>effect, <2>unseen DEF Next, Governed!Next
<1>3. QED BY <1>1, <1>2, Invariant, PTL DEF Spec, ImplementsGoverned, Governed!Spec

-----------------------------------------------------------------------------
(* tools/broadcast_byte_diff.py: what the exit code rests on, whatever the  *)
(* relays send                                                              *)

\* A relay is being asked only while one is left, and its window is open; there
\* are no results before the first is asked.
AskingInv ==
  /\ pc \in {"connect", "recv", "compare"} => pos < Len(Relays)
  /\ pc = "recv" => reads < Window
  /\ pc = "start" => results = [u \in Urls |-> "unset"]

\* The copy about to be compared was delivered by the relay being asked, over
\* this connection: none is carried over from the relay before it.
FoundInv ==
  found # "null" => pc \in {"recv", "compare"} /\ found \in served[pos + 1]

\* A relay's status has a connection to that relay behind it.
WitnessInv ==
  \A u \in Urls :
    /\ results[u] = "byte_identical" =>
         \E i \in 1..pos : Relays[i] = u /\ "same" \in served[i]
    /\ results[u] = "byte_mismatch" =>
         \E i \in 1..pos : Relays[i] = u /\ "differs" \in served[i]

\* The exit code is that of the results, and there is none before the end.
ExitInv ==
  /\ pc # "done" => exit_code = -1
  /\ pc = "done" => run_status = Aggregate(results) /\ exit_code = Exit(run_status)

RelayInv == RelayTypeOK /\ AskingInv /\ FoundInv /\ WitnessInv /\ ExitInv

-----------------------------------------------------------------------------
(* A run of the tool *)

\* The relay at a position is one of the keys of result["relays"].
LEMMA RelayIsUrl ==
  /\ Len(Relays) \in Nat
  /\ Window \in Nat \ {0}
  /\ \A i \in 1..Len(Relays) : Relays[i] \in Urls
BY RelayAssumption DEF Urls, Range

\* What a run's status is, and the code it exits with.
LEMMA AggregateType ==
  ASSUME NEW rs
  PROVE  /\ Aggregate(rs) \in RunStatus
         /\ Exit(Aggregate(rs)) \in {0, 1, 2}
         /\ Exit(Aggregate(rs)) = 0 <=> Aggregate(rs) = "confirmed_match"
         /\ Exit(Aggregate(rs)) = 1 <=> Aggregate(rs) = "confirmed_mismatch"
BY DEF Aggregate, Exit, RunStatus

\* The initial state.
LEMMA RelayInitially == ASSUME RelayInit PROVE RelayInv
<1>1. RelayTypeOK
  BY RelayIsUrl DEF RelayInit, RelayTypeOK, Copy
<1>2. WitnessInv
  BY DEF RelayInit, WitnessInv
<1>3. QED BY <1>1, <1>2 DEF RelayInit, RelayInv, AskingInv, FoundInv, ExitInv

\* _check_one returns: the status of the relay just asked is the only one that
\* changes, and it is one this connection is a witness of.
LEMMA ReturnInv ==
  ASSUME NEW status \in Status, RelayInv, Return(status), pc \in {"connect", "recv", "compare"},
         status = "byte_identical" => "same" \in served[pos + 1],
         status = "byte_mismatch" => "differs" \in served[pos + 1]
  PROVE  RelayInv'
<1>1. /\ pos \in Nat /\ pos < Len(Relays) /\ Len(Relays) \in Nat
      /\ pos + 1 \in 1..Len(Relays)
      /\ Relays[pos + 1] \in Urls
  BY RelayIsUrl DEF RelayInv, RelayTypeOK, AskingInv
<1>2. /\ pos' = pos + 1 /\ served' = served /\ found' = "null" /\ reads' = 0
      /\ exit_code' = exit_code /\ run_status' = run_status
      /\ pc' \in {"aggregate", "connect"}
      /\ pc' = "connect" => pos' < Len(Relays)
  BY <1>1 DEF Return
<1>3. results' = [results EXCEPT ![Relays[pos + 1]] = status]
  BY DEF Return
<1>4. RelayTypeOK'
  <2>1. results' \in [Urls -> Status \union {"unset"}]
    BY <1>1, <1>3 DEF RelayInv, RelayTypeOK
  <2>2. QED BY <1>1, <1>2, <2>1, RelayIsUrl DEF RelayInv, RelayTypeOK, Copy
<1>5. WitnessInv'
  <2> SUFFICES ASSUME NEW u \in Urls
               PROVE  /\ results'[u] = "byte_identical" =>
                           \E i \in 1..pos' : Relays[i] = u /\ "same" \in served'[i]
                      /\ results'[u] = "byte_mismatch" =>
                           \E i \in 1..pos' : Relays[i] = u /\ "differs" \in served'[i]
    BY DEF WitnessInv
  <2>1. CASE u = Relays[pos + 1]
    <3>1. results'[u] = status
      BY <1>1, <1>3, <2>1 DEF RelayInv, RelayTypeOK
    <3>2. pos + 1 \in 1..pos'
      BY <1>1, <1>2
    <3>3. QED BY <1>2, <2>1, <3>1, <3>2
  <2>2. CASE u # Relays[pos + 1]
    <3>1. results'[u] = results[u]
      BY <1>1, <1>3, <2>2 DEF RelayInv, RelayTypeOK
    <3>2. \A i \in 1..pos : i \in 1..pos'
      BY <1>1, <1>2
    <3>3. QED BY <1>2, <3>1, <3>2 DEF RelayInv, WitnessInv
  <2>3. QED BY <2>1, <2>2
<1>6. QED BY <1>2, <1>4, <1>5 DEF RelayInv, AskingInv, FoundInv, ExitInv

\* A message is read: a copy replaces the one found before it.
LEMMA ReceiveInv ==
  ASSUME NEW m \in Message, RelayInv, Receive(m)
  PROVE  RelayInv'
<1>1. /\ pos \in Nat /\ pos + 1 \in 1..Len(Relays) /\ pos < Len(Relays)
      /\ reads \in Nat /\ reads < Window /\ Window \in Nat
  BY RelayIsUrl DEF RelayInv, RelayTypeOK, AskingInv, Receive
<1>2. /\ reads' = reads + 1
      /\ pc' \in {"compare", "recv"}
      /\ pc' = "recv" => reads' # Window
      /\ UNCHANGED <<pos, results, run_status, exit_code>>
  BY DEF Receive, Counted
<1>3. /\ served' \in [1..Len(Relays) -> SUBSET Copy]
      /\ \A i \in 1..Len(Relays) : served[i] \subseteq served'[i]
      /\ found' \in Copy
      /\ found' # "null" => found' \in served'[pos + 1]
  <2>1. CASE m \in Copy
    BY <1>1, <2>1 DEF Receive, RelayInv, RelayTypeOK
  <2>2. CASE m \notin Copy
    BY <2>2 DEF Receive, RelayInv, RelayTypeOK, FoundInv
  <2>3. QED BY <2>1, <2>2
<1>4. RelayTypeOK'
  BY <1>1, <1>2, <1>3 DEF RelayInv, RelayTypeOK
<1>5. WitnessInv'
  <2>1. \A i \in 1..pos : i \in 1..Len(Relays)
    BY <1>1
  <2>2. QED BY <1>2, <1>3, <2>1 DEF RelayInv, WitnessInv
<1>6. AskingInv' /\ FoundInv' /\ ExitInv'
  BY <1>1, <1>2, <1>3 DEF RelayInv, AskingInv, FoundInv, ExitInv, Receive
<1>7. QED BY <1>4, <1>5, <1>6 DEF RelayInv

\* Every step keeps the invariant.
LEMMA RelayStep == RelayInv /\ [RelayNext]_relayVars => RelayInv'
<1> SUFFICES ASSUME RelayInv, [RelayNext]_relayVars PROVE RelayInv'
  OBVIOUS
<1> USE DEF RelayInv
<1>1. CASE Refuse
  <2>1. Aggregate(results) = "inconclusive" /\ Exit("inconclusive") \in {0, 1, 2}
    BY <1>1, AggregateType DEF Refuse, AskingInv, Aggregate
  <2>2. QED
    BY <1>1, <2>1 DEF Refuse, RunStatus, RelayTypeOK, AskingInv, FoundInv, WitnessInv, ExitInv
<1>2. CASE Begin
  BY <1>2, RelayIsUrl DEF Begin, NextRelay, RelayTypeOK, AskingInv, FoundInv, WitnessInv, ExitInv
<1>3. CASE Connect
  BY <1>3, RelayIsUrl DEF Connect, RelayTypeOK, AskingInv, FoundInv, WitnessInv, ExitInv, Copy
<1>4. CASE Fail
  BY <1>4, ReturnInv DEF Fail, Status
<1>5. ASSUME NEW m \in Message, Receive(m) PROVE RelayInv'
  BY <1>5, ReceiveInv
<1>6. CASE Compare
  <2>1. /\ StatusOf(found) \in Status
        /\ StatusOf(found) = "byte_identical" => found = "same"
        /\ StatusOf(found) = "byte_mismatch" => found = "differs"
    BY DEF RelayTypeOK, Copy, StatusOf, Status
  <2>2. QED BY <1>6, <2>1, ReturnInv DEF Compare, FoundInv
<1>7. CASE Finish
  BY <1>7, AggregateType DEF Finish, RelayTypeOK, AskingInv, FoundInv, WitnessInv, ExitInv
<1>8. CASE UNCHANGED relayVars
  BY <1>8 DEF relayVars, RelayTypeOK, AskingInv, FoundInv, WitnessInv, ExitInv
<1>9. QED BY <1>1, <1>2, <1>3, <1>4, <1>5, <1>6, <1>7, <1>8 DEF RelayNext

-----------------------------------------------------------------------------
(* Theorems about the tool *)

\* The invariant holds throughout a run.
LEMMA RelayInvariant == RelaySpec => []RelayInv
<1>1. RelayInit => RelayInv
  BY RelayInitially
<1>2. QED BY <1>1, RelayStep, PTL DEF RelaySpec

\* Every variable has its type.
THEOREM RelayTypeCorrect == RelaySpec => []RelayTypeOK
<1>1. RelayInv => RelayTypeOK
  BY DEF RelayInv
<1>2. QED BY <1>1, RelayInvariant, PTL

\* main() returns 0 only when some relay delivered the event as it was meant, and
\* 1 only when some relay delivered a copy that differs; whatever was lost, late,
\* skipped or not an event on the way.
THEOREM ExitIsWitnessed == RelaySpec => []ExitWitnessed
<1>1. RelayInv => ExitWitnessed
  <2> SUFFICES ASSUME RelayInv PROVE ExitWitnessed
    OBVIOUS
  <2>1. \A i \in 1..pos : i \in 1..Len(Relays)
    BY RelayIsUrl DEF RelayInv, RelayTypeOK
  <2>2. exit_code \in {0, 1} => exit_code = Exit(Aggregate(results))
    BY DEF RelayInv, ExitInv
  <2>3. exit_code = 0 => \E u \in Urls : results[u] = "byte_identical"
    BY <2>2, AggregateType DEF Aggregate
  <2>4. exit_code = 1 => \E u \in Urls : results[u] = "byte_mismatch"
    BY <2>2, AggregateType DEF Aggregate
  <2>5. QED BY <2>1, <2>3, <2>4 DEF RelayInv, WitnessInv, ExitWitnessed
<1>2. QED BY <1>1, RelayInvariant, PTL

\* The failures of other relays never turn a match into anything else: as long as
\* nobody delivered a copy that differs, one relay whose answer was the event is
\* enough for exit code 0.
THEOREM FailuresAreIsolated == RelaySpec => []FailureIsolated
<1>1. RelayInv => FailureIsolated
  <2> SUFFICES ASSUME RelayInv,
                      pc = "done",
                      \A i \in 1..Len(Relays) : served[i] \subseteq {"same"},
                      NEW u \in Urls, results[u] = "byte_identical"
               PROVE  exit_code = 0
    BY DEF FailureIsolated
  <2>1. \A i \in 1..pos : i \in 1..Len(Relays)
    BY RelayIsUrl DEF RelayInv, RelayTypeOK
  <2>2. \A w \in Urls : results[w] # "byte_mismatch"
    BY <2>1 DEF RelayInv, WitnessInv
  <2>3. Aggregate(results) = "confirmed_match"
    BY <2>2 DEF Aggregate
  <2>4. QED BY <2>3, AggregateType DEF RelayInv, ExitInv
<1>2. QED BY <1>1, RelayInvariant, PTL
=============================================================================
