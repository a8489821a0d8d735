---------------------------- MODULE ReceiptLink ----------------------------
(***************************************************************************)
(* A receipt checked against a chain that moves while it is read:          *)
(* check_result.py reads the head from a node, the logs from an indexer    *)
(* and the state from the node again, and its signed result is re-run      *)
(* later by verify_check_result.py at the block it names. A verifier's     *)
(* statement (statement.py) is challenged later in the same way. A         *)
(* behaviour is about one result, one statement or one live check: they    *)
(* share nothing but the chain.                                            *)
(***************************************************************************)
EXTENDS Receipts, Sequences

CONSTANTS
  Held,       \* what a holder may hold: [receipt, salt, asset]
  Payments,   \* settlements that may happen: [nonce, tx, to]
  Wallets,    \* the wallets of the rated agent
  MaxBlocks, MaxReorgs, MaxTampers

ASSUME BoundsAssumption == MaxBlocks \in Nat /\ MaxReorgs \in Nat /\ MaxTampers \in Nat

VARIABLES
  chain,     \* the node's canonical chain; a block is its settlements and its fork
  index,     \* the chain as the log service has it
  reorgs,
  job,       \* the check in progress
  event,     \* the published result, NoEvent before
  statement, \* the published statement, NoStatement before
  tampers,
  verdict    \* what verify_check_result, or a challenge, said last

vars == <<chain, index, reorgs, job, event, statement, tampers, verdict>>

Hash(n) == SubSeq(chain, 1, n)
IsPrefix(s, t) == Len(s) <= Len(t) /\ SubSeq(t, 1, Len(s)) = s
Settled(c) == UNION {c[i].settles : i \in DOMAIN c}
Upto(c, n) == IF n <= Len(c) THEN SubSeq(c, 1, n) ELSE c

Issuer == "checker"
Idle == [task |-> "idle"]
NoEvent == [pubkey |-> "none"]
NoStatement == [verifier |-> "none"]

Init ==
  /\ chain = <<>> /\ index = <<>> /\ reorgs = 0
  /\ job = Idle /\ event = NoEvent /\ statement = NoStatement
  /\ tampers = 0 /\ verdict = "none"

-----------------------------------------------------------------------------
(* The chain and the log service. An authorization is used once per fork.  *)

Mine ==
  /\ Len(chain) < MaxBlocks
  /\ \E S \in {{}} \union {{p} : p \in {p \in Payments : \A q \in Settled(chain) : q.nonce # p.nonce}} :
       chain' = Append(chain, [settles |-> S, fork |-> reorgs])
  /\ UNCHANGED <<index, reorgs, job, event, statement, tampers, verdict>>

Reorg ==
  /\ reorgs < MaxReorgs
  /\ \E n \in 0..(Len(chain) - 1) : chain' = SubSeq(chain, 1, n)
  /\ reorgs' = reorgs + 1
  /\ UNCHANGED <<index, job, event, statement, tampers, verdict>>

Index ==
  /\ index # chain
  /\ index' = IF IsPrefix(index, chain) THEN SubSeq(chain, 1, Len(index) + 1) ELSE chain
  /\ UNCHANGED <<chain, reorgs, job, event, statement, tampers, verdict>>

\* What the log service answers up to block n, and whether it has the chain
\* that ends in a block.
candidates_to(n) == Settled(Upto(index, n))
Synced(hash) == IsPrefix(hash, index)

-----------------------------------------------------------------------------
(* check_result.run, read by read; out is the content it returns. number 0  *)
(* stands for no block, count 0 for no candidate set (else one more).       *)

Content(h, disclose) ==
  [result |-> "none", detail |-> "", number |-> 0, hash |-> <<>>, count |-> 0, receipt |-> h.receipt,
   nonce |-> "none", tx |-> "none", disclosed |-> disclose]

Start(task, h, disclose, at) ==
  LET rec == CheckUnpinned(h.receipt) IN
  job' = [task |-> task, held |-> h, at |-> at, synced |-> TRUE, failed |-> FALSE, nonce |-> "none",
          pc |-> IF rec.receipt = "valid" THEN "head" ELSE "done",
          out |-> IF rec.receipt = "valid" THEN Content(h, disclose)
                  ELSE [Content(h, disclose) EXCEPT !.result = "not_attempted", !.detail = "receipt_rejected"]]

CheckOnly(A) == A /\ UNCHANGED <<chain, index, reorgs, event, statement, tampers, verdict>>

BeginCheck ==
  /\ job = Idle /\ event = NoEvent /\ verdict = "none"
  /\ CheckOnly(\E h \in Held, d \in BOOLEAN : Start("check", h, d, 0))

Incomplete(detail) == [job EXCEPT !.pc = "done", !.failed = TRUE, !.out.result = "incomplete", !.out.detail = detail]

\* The number of the head and its block are read, or the read fails; a block
\* that is no longer there is a failed read too.
ReadHead ==
  /\ job.task \in {"check", "recheck"} /\ job.pc = "head"
  /\ LET n == IF job.at > 0 THEN job.at ELSE Len(chain) IN
     CheckOnly(\/ /\ n \in 1..Len(chain)
                  /\ job' = [job EXCEPT !.pc = "logs", !.out.number = n, !.out.hash = Hash(n)]
               \/ job' = Incomplete("chain_head_unobtainable"))

Linked(cands) ==
  LET lk == link(job.held.receipt.payload, job.held.salt, job.held.asset, cands)
      show == job.out.disclosed /\ lk.nonce # "none"
  IN  [job EXCEPT !.nonce = lk.nonce,
                  !.pc = IF lk.result \in {"linked", "inconsistent"} THEN "state" ELSE "done",
                  !.failed = job.failed \/ ~cands.obtained,
                  !.synced = Synced(job.out.hash),
                  !.out.count = IF cands.obtained THEN 1 + Cardinality(cands.set) ELSE 0,
                  !.out.result = lk.result, !.out.detail = lk.detail,
                  !.out.nonce = IF show THEN lk.nonce ELSE "none",
                  !.out.tx = IF show THEN lk.transaction ELSE "none"]

ReadLogs ==
  /\ job.task \in {"check", "recheck"} /\ job.pc = "logs"
  /\ CheckOnly(\E ok \in BOOLEAN :
       job' = Linked([obtained |-> ok, set |-> IF ok THEN candidates_to(job.out.number) ELSE {}]))

Used(c, nonce) == \E p \in Settled(c) : p.nonce = nonce

\* The node may not keep the state of an old block. The result stands
\* whatever authorizationState is.
ReadState ==
  /\ job.task \in {"check", "recheck"} /\ job.pc = "state"
  /\ CheckOnly(\/ job.out.number <= Len(chain) /\ job' = [job EXCEPT !.pc = "done"]
               \/ job' = [Incomplete("state_unobtainable") EXCEPT !.failed = job.failed])

\* The content is signed as an event under the checker's key.
Publish ==
  /\ job.task = "check" /\ job.pc = "done"
  /\ event' = [pubkey |-> Issuer, id |-> <<Issuer, job.out>>, sig |-> Signature(Issuer, <<Issuer, job.out>>),
               content |-> job.out, sound |-> job.synced /\ ~job.failed]
  /\ job' = Idle
  /\ UNCHANGED <<chain, index, reorgs, statement, tampers, verdict>>

-----------------------------------------------------------------------------
(* On the way the content may be altered, and signed again by another.      *)

Tamper ==
  /\ event # NoEvent /\ job = Idle /\ verdict = "none" /\ tampers < MaxTampers
  /\ tampers' = tampers + 1
  /\ \E r \in {"linked", "no_match"}, key \in {Issuer, "stranger"}, id \in BOOLEAN :
       LET c == [event.content EXCEPT !.result = r]
           e == IF id THEN <<key, c>> ELSE event.id
       IN  event' = [event EXCEPT !.content = c, !.pubkey = key, !.id = e, !.sound = FALSE,
                                  !.sig = IF key = "stranger" THEN Signature(key, e) ELSE event.sig]
  /\ UNCHANGED <<chain, index, reorgs, job, statement, verdict>>

verify_event(ev) ==
  /\ ev.id = <<ev.pubkey, ev.content>>
  /\ ev.sig = Signature(ev.pubkey, ev.id)
  /\ ev.pubkey = Issuer

\* main: without --recheck, and when no block is named, the signature decides.
Verify ==
  /\ event # NoEvent /\ job = Idle /\ verdict = "none"
  /\ verdict' = IF verify_event(event) THEN "signature_valid" ELSE "invalid"
  /\ UNCHANGED <<chain, index, reorgs, job, event, statement, tampers>>

BeginRecheck ==
  /\ event # NoEvent /\ job = Idle /\ verdict = "none" /\ verify_event(event) /\ event.content.number > 0
  /\ CheckOnly(\E h \in Held : Start("recheck", h, event.content.disclosed /\ event.content.nonce # "none", event.content.number))

\* (mutant) The result of a recheck without old state stays incomplete.
AgainIncomplete(again) == again
\* The state is read at the latest block instead.
Again(again) == [again EXCEPT !.result = "linked", !.detail = ""]

\* (mutant) The block's hash is not compared, only its number.
CompareNumber(again) ==
  LET c == event.content
  IN  IF /\ again.result = c.result /\ again.count = c.count /\ again.receipt = c.receipt
         /\ c.nonce # "none" => again.nonce = c.nonce /\ again.tx = c.tx
         /\ again.number = c.number
      THEN "agrees" ELSE "disagrees"
Compare(again) ==
  LET c == event.content
  IN  IF /\ again.result = c.result /\ again.count = c.count /\ again.receipt = c.receipt
         /\ c.nonce # "none" => again.nonce = c.nonce /\ again.tx = c.tx
         /\ again.hash = c.hash
      THEN "agrees" ELSE "disagrees"

Conclude(v) ==
  /\ verdict' = v
  /\ job' = [job EXCEPT !.pc = "said"]
  /\ UNCHANGED <<chain, index, reorgs, event, statement, tampers>>

FinishRecheck ==
  /\ job.task = "recheck" /\ job.pc = "done" /\ job.out.detail # "state_unobtainable"
  /\ Conclude(Compare(job.out))

\* The nonce is the disclosed one or is looked for again in the logs; a read
\* that fails, or finds none now, ends the program.
FallbackRecheck ==
  /\ job.task = "recheck" /\ job.pc = "done" /\ job.out.detail = "state_unobtainable"
  /\ \/ Conclude(Compare(Again(job.out)))
     \/ Conclude("raises")

EndRecheck ==
  /\ job.task = "recheck" /\ job.pc = "said"
  /\ job' = Idle /\ verdict' = "none"
  /\ UNCHANGED <<chain, index, reorgs, event, statement, tampers>>

-----------------------------------------------------------------------------
(* check_live: the latest logs, then the latest state.                      *)

Opening(h) == [salt |-> h.salt, asset |-> h.asset]

BeginLive ==
  /\ job = Idle /\ event = NoEvent /\ verdict = "none"
  /\ CheckOnly(\E h \in Held : /\ h.receipt.payload.authorizationMethod = "eip3009"
                               /\ job' = [task |-> "live", held |-> h, pc |-> "logs", nonce |-> "none"])

Exit(code) ==
  /\ verdict' = code
  /\ job' = Idle
  /\ UNCHANGED <<chain, index, reorgs, event, statement, tampers>>

ReadLiveLogs ==
  /\ job.task = "live" /\ job.pc = "logs"
  /\ LET p == job.held.receipt.payload
         r == holder_link(p, Opening(job.held), Settled(index))
         hits == Opens(p, job.held.salt, job.held.asset, [set |-> Settled(index)])
     IN  \/ Exit("exit 2")
         \/ r # "linked" /\ Exit("exit 1")
         \/ r = "linked" /\ CheckOnly(job' = [job EXCEPT !.pc = "state", !.nonce = (CHOOSE c \in hits : TRUE).nonce])

ReadLiveState ==
  /\ job.task = "live" /\ job.pc = "state"
  /\ \/ Exit("exit 2")
     \/ Exit(IF Used(chain, job.nonce) THEN "exit 0" ELSE "exit 1")

-----------------------------------------------------------------------------
(* The verifier of a private opening reads through a head of the chain; a   *)
(* wrong finding may be signed as well. The challenger reads later, through *)
(* the head the statement names or whatever there is.                       *)

Facts(c, head, available) ==
  [available |-> available, canonical |-> head,
   nonces |-> {[nonce |-> p.nonce, tx |-> p.tx, status |-> 1, read |-> TRUE, to |-> {p.to}] : p \in Settled(c)}]

Finding(h, c, available) == assess(h.receipt.payload, Opening(h), h.receipt.payload.payer, Wallets, Facts(c, <<>>, available))

State ==
  /\ statement = NoStatement /\ event = NoEvent /\ job = Idle /\ verdict = "none" /\ chain # <<>>
  /\ \E h \in Held, ok \in BOOLEAN, wrong \in BOOLEAN :
       LET found == Finding(h, Upto(index, Len(chain)), ok)
           said == IF wrong THEN "opens_to_settlement" ELSE found
       IN  /\ found # "raises"
           /\ statement' = make_statement(h.receipt, said, h.receipt.payload.payer, "agent", Hash(Len(chain)), 0, <<>>, "verifier")
           /\ job' = [task |-> "stated", held |-> h]
  /\ UNCHANGED <<chain, index, reorgs, event, tampers, verdict>>

Challenge ==
  /\ job.task \in {"stated", "challenged"}
  /\ \E ok \in BOOLEAN, pinned \in BOOLEAN :
       LET n == Len(statement.read_at)
           there == IF n <= Len(chain) THEN Hash(n) ELSE <<>>
       IN  /\ verdict' = challenge(statement, job.held.receipt, Opening(job.held), Wallets,
                                   Facts(IF pinned THEN Upto(index, n) ELSE index, there, ok))
           /\ job' = [task |-> "challenged", held |-> job.held, pinned |-> pinned, synced |-> Synced(statement.read_at)]
  /\ UNCHANGED <<chain, index, reorgs, event, statement, tampers>>

Next ==
  \/ Mine \/ Reorg \/ Index
  \/ BeginCheck \/ ReadHead \/ ReadLogs \/ ReadState \/ Publish
  \/ Tamper \/ Verify \/ BeginRecheck \/ FinishRecheck \/ FallbackRecheck \/ EndRecheck
  \/ BeginLive \/ ReadLiveLogs \/ ReadLiveState
  \/ State \/ Challenge

Spec == Init /\ [][Next]_vars

-----------------------------------------------------------------------------
(* Properties *)

\* What the receipt deserves on the chain that ends in a block.
Truth(h, hash) ==
  IF CheckUnpinned(h.receipt).receipt # "valid" THEN "not_attempted"
  ELSE link(h.receipt.payload, h.salt, h.asset, [obtained |-> TRUE, set |-> Settled(hash)]).result

Rechecked == job.task = "recheck" /\ job.pc = "said"

\* The recheck read the state now, for want of the state of the block.
FellBack == job.out.detail = "state_unobtainable"

\* The receipt names a transaction of an authorization that a block up to this
\* one settled in another: it was submitted again after a reorganisation.
Resubmitted(h, hash) ==
  \E p \in Settled(hash), q \in Payments :
    p.nonce = q.nonce /\ p.tx # q.tx /\ q.tx = h.receipt.payload.transaction

\* A published linked, no_match or inconsistent that a recheck confirms is what
\* the receipt deserves on the very chain whose block the result names, when
\* the log service had that chain during the recheck; whatever the chain, the
\* service and the publisher did during the first check. One case is excepted,
\* the code's: a recheck that fell back reports linked without comparing
\* transactions (verify_check_result.py:79), and so confirms the linked that was
\* published of a receipt whose authorization was submitted again.
AgreedIsTrue ==
  (Rechecked /\ verdict = "agrees" /\ job.synced /\ event.content.result \in {"linked", "no_match", "inconsistent"})
    => LET true == Truth(job.held, event.content.hash)
       IN  \/ event.content.result = true
           \/ FellBack /\ event.content.result = "linked" /\ true = "inconsistent" /\ Resubmitted(job.held, event.content.hash)

\* A result that was read from the whole chain is confirmed by a recheck of the
\* same receipt that could read as much, as long as the block stands: also when
\* the node no longer has the state of that block. A receipt that names another
\* transaction is left out: verify_check_result reports it as linked then.
GenuineIsConfirmed ==
  (Rechecked /\ event.sound /\ job.synced /\ ~job.failed /\ job.held.receipt = event.content.receipt
   /\ Truth(job.held, event.content.hash) = event.content.result
   /\ event.content.result # "inconsistent" /\ event.content.hash = Upto(chain, event.content.number))
    => verdict # "disagrees"

\* A challenge that reads through the block a statement names upholds it
\* exactly when it is true there, and never refutes it for what happened to
\* the chain later.
ChallengeIsFair ==
  (job.task = "challenged" /\ job.pinned /\ job.synced /\ verdict \in {"upheld", "refuted"})
    => (verdict = "upheld") <=> (statement.result = Finding(job.held, statement.read_at, TRUE))
=============================================================================
