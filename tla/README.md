# Formal models of the pre-action governance conformance suite

The repository is a suite of offline verifiers for *pre-action governance
receipts*: an action envelope is hashed, an independent party signs a verdict
bound to that hash, the signed verdict is anchored in time, and afterwards
anyone can check, from bytes alone, that what ran is what was admitted and that
the admission came first. Around that core stand checkers for logs, evidence
sets, acceptance records and broadcasts, and worked examples that feed them.
Almost every part is a function from files to a three-valued verdict. What
makes such code hard is the exactness of a chain of joins, fail-closed
behaviour when a part is missing, and the histories (appends, observers,
restarts, relays) that produce the files in the first place. The models
therefore never start from an arbitrary file: they model the history that makes
the file, the edits the repository's own vectors make, and then the checker, and
state what the checker's verdict says about that history.

## 1. Inventory

| part | state it keeps | operations | interacts with | hard behaviour | correct when |
|---|---|---|---|---|---|
| session chain check, `tools/session_chain_check.py` | position, running head, reasons, `lower_anchored` | load log, load heads, walk entries, compare heads, conclude | a public ledger that grows; observers who saved heads; a log file somebody else wrote | the log is read before the heads; no hash covers an entry's number; two loops share one list of reasons | PASS means the log is the ledger up to every head; no false alarm; order of heads does not matter |
| attempt guard, `examples/smolagents-mutation-after-authorization/decision_record_per_attempt.py` | step, call index, records, execution count | `new_step`, guarded call (unbound, denied, allowed, raising), `head`, `observation`, `verify_chain` | tool callables, a policy, whoever catches denials | late handling of a denial; exceptions halfway; edits of a copied log | ids unique, counts from the log true, a kept head pins the log |
| fixture verifier and bar, `verifier.py`, `run_conformance.py`, `generate_fixtures.py` | the five suites | `verify_fixture`, the runner's three tests, fixture generation | the governed run, the external clock, the JavaScript checker through the same bytes | order of verdict, stamp and outcome; a negative fixture must break exactly one join | a pass means a trusted verdict on this envelope before the outcome |
| independent checker, `tools/independent_checker_js/` | the same | the same in JavaScript | the same fixtures | absent fields: `undefined` against `KeyError` | agrees with the Python verifier |
| live adapter, admission, `adapters/live_check.py` 41-531 | legs and co-signers verified, claim level, audit | JWS legs, co-signers, hint cross-check, admission verdict | a governance endpoint's block; a mapping | signers are counted before the primary is looked at; hints go through the same ladder | a pass is signed; a level is earned; a hint never helps |
| live adapter, anchoring and row, `adapters/live_check.py` 533-679 | the suites, the board's row | fetch block, fetch anchor, conclude; run again | an endpoint whose anchor moves between the fetches | stale reads; status grammar; rows replaced run after run | existence and precedence are true when shown; late stays late |
| broadcast byte diff, `tools/broadcast_byte_diff.py` | position, messages read, copy found, results | connect, receive, time out, compare, aggregate | relays, over websockets | silence, repeats, garbage, timeouts after a copy | every exit code is earned; one relay's failure is its own; the run ends |
| AID commitment log, `examples/aid-commitment-log/build.py` | seven files | `start`, `supersede`, `upgrade` | calendars, Bitcoin, a clock | a command dies between or inside its writes and is run again | the log stays a chain that only grows; the state file is the commit point |
| evidence set check, `tools/evidence_set_check.py` | conditions found, counts, Merkle root | `build`, `validate`, `resolve` | a relying party that fetches content again and again | report-all validation with suppressed rules; odd promotion in the tree; a URL that changes | suppression hides nothing; the root binds the pinned entries; order and more content change nothing |
| acceptance record check, `tools/acceptance_record_check.py` | none | stages, each of which may stop the check | trust material, delegations, receipts | several defects at once in members that other conditions read; an issuer that accepts itself | verified only for an acceptance by somebody else, of this receipt |
| claim checkers, `tools/related_claims_check.py`, `vantage_limitation_check.py`, `proof_chain_check.py` | PASS, FAIL and CANNOT lines | check every claim, exit with the worst | proofs signed elsewhere, possibly not held | a missing proof must not read as a passed one; outer, inner and claims vary independently | a PASS is true of the very proof referenced |
| issuer profile and run, `tools/issuer_profile.py`, `issuer_run_check.py` | profile, attested run | resolve keys, re-run | a working tree that moves on | files, checker and tables change after the attestation | a PASS is about the files and the result that were attested |
| submission commitment, `tools/verify_submission_commitment.py` | none | early returns, one clock test | a submitted request | skew of 300 s at the boundary | a commitment is to this request, by its key, and not from the future |
| federation adapter, `integrations/federation-port/.../adapter.ts` | the result kept by the runtime | `check` | an issuer with a clock of its own; a runtime that acts until `valid_until` | a verdict accepted now and used later; age bounded above only | every dispatch is of an approved action, at its target, within the window |
| x402 receipts and private openings, `examples/x402-receipt-*` | published results, statements | `run`, `verify_check_result`, `check_live`, `assess`, `challenge`, mandate `check` | a node, a log service, a chain that grows and reorganises | three reads of two services; a re-run when old state is gone | a confirmed result is true of the block it names; a genuine one is confirmed |
| procedure manifest, `examples/procedure-manifest-v003` | none | `evaluate` | a log of records by several parties | order by the log, omitted and repeated records, retries | a RESULT is one the procedure allows |
| nenrin bundles, `examples/nenrin-cleanroom-verifier` | refusals and findings | `verify` | issuer, executor, counterparty | stray, repeated and contradicting receipts in any order | accepted work was authorized, executed and signed for |
| work acceptance record, `examples/work-acceptance-record-cold` | problems and warnings | `check`, time-stamp `evaluate` | time-stamping authorities | instants below the millisecond, rounding both ways, certificate chains | the work was committed before the reference, by independent parties |
| recomputed logs, `examples/sequence-integrity-recompute`, `ledger-*`, `composed-envelope-recompute`, `erc8309-mesh-sync`, `pattern-statement-v0` | roots, heads, counts | recompute and compare | logs that grow, nodes that serve pages, files handed out in part | omission, reordering, resealing of one entry, an odd node paired with itself, looping cursors | what passes is whole |
| bindings, `examples/scan-subject-binding`, `resolution-payment-pair-v0`, `erc-8337-attestation-refs`, `musubi-approver-v2` | none | `subject_bound`, `evaluate`, `canonicalize`, `verify_approval_v2` | scans, payments, events, contracts | inclusion proofs that state their own size; approvals replayed to other terms | a record is bound to what its parties meant |
| crypto and canonicalization, `_bip340_nostr.py`, `tools/_ed25519.py`, `tools/_rfc8785.py` | none | hash, sign, verify, canonicalize | everything | number theory and byte encodings | outside model checking; taken as ideal |
| further examples, `examples/*` | mostly none | recompute one external format each | vectors | straight-line scripts | per format |

## 2. Plan

Done, the most important behaviour first: SessionChain with its proofs,
AttemptGuard, Conformance, LiveAdmission, LiveCheck, BroadcastByteDiff,
AidCommitmentLog; then EvidenceSet, the function-like checkers of `tools/` and
`examples/` composed in ToolCases, ReceiptLink, and FederationAdapter with the
abstract specification GovernedDispatch that it implements; then proofs for
every state machine and for ten of the checkers under ToolCases (section 6). What
is left:

1. **A verdict over a log** as an abstract specification (one step from log and
   heads to PASS, FAIL or CANNOT_ESTABLISH), implemented by SessionChain and by
   `verify_chain` of AttemptGuard, with the refinement proved from the invariants
   that are there.
2. **More from the same invariants**: action properties of AttemptGuard (the
   records only grow, a kept head is never replaced) and of Conformance (a verdict
   or a stamp is never withdrawn).
3. **The submitter join** (`examples/x402-submitter-join`), a resumable
   measurement whose rows are its own commit points.

One run per question is kept; a run that shows a disagreement with a comment
gives way when a new component needs a run.

## 3. Modules

Conventions: variables and operators keep the names of the code where TLA+
allows it; `(mutant)` marks a definition that stands for a plausible bug and is
used by no specification. A hash is the term it hashes and a signature is who
made it over what, so hashes do not collide and signatures are not forged.

**SessionChain** (`tools/session_chain_check.py`; edits from
`examples/session-chain-vectors/make_and_run.py`). `ledger` is the writer's
append-only ledger, `file` the exported and possibly edited segment. The edits
(`DropEntry`, `SwapEntries`, `AlterRecord`, `Renumber`, `Relink`) are the steps
from which the repository's splice, truncate, reorder, tamper, forged re-link
and full rewrite vectors are made, in any order. `LoadLog` and `LoadHeads` are
two steps because `main` reads two files and the ledger grows in between.
`CheckEntry`, `EndChain`, `CheckHead` and `Conclude` are `check`, iteration by
iteration. Head hashes are terms of bounded depth in the runs (`HashDepth`); the
set of them is a constant of the module, so the proofs have no such bound.
Theorems are kept apart from the specifications, in the eight modules whose names
end in `Proofs`; section 6 is about them.

**AttemptGuard** (`decision_record_per_attempt.py`). One action for each exit of
a guarded call: `CallUnbound`, `CallDenied`, `CallAllowed`, `PolicyRaises`,
`SnapshotRaises`. A raised denial is caught some time later (`Observe`), with the
head of that moment. A digest is the sequence of the record bodies it covers.
`Begin`, `CheckRecord` and `CheckHead` are `verify_chain` over a copy that may
have been edited.

**Conformance** (`verifier.py`, `run_conformance.py`, `generate_fixtures.py`,
`tools/independent_checker_js/`). `Tick`, `Propose`, `SignVerdict`, `Stamp` and
`Execute` are the run; `Generate` writes any of the fixtures the generator makes
of it (and the existence-only one kept by hand); `Edit` changes or drops a
field. `Py*` and `Js*` are the five suites in each language; `CheckSuite`,
`Conclude` and `Judge` evaluate them in order, take the first failure, and apply
the runner's three tests. An absent field raises in Python and is `undefined` in
JavaScript, as each source line has it.

**LiveAdmission** (`adapters/live_check.py` 41-531). `Fetch` takes any governance
block within the bounds; `VerifyLeg`/`EndLegs` and `VerifyCo`/`EndCo` are the two
ways signers are counted; `MakeAudit` fixes claim level, hint cross-check and
audit before `Verdict` looks at the primary, which is the order of the code.
A co-signer may state a scheme of its own (`SchemeOf`), and the key and hash of
the block may be those of its event or not: the mapping of the `nostr-event`
scheme that the repository ships takes them from the block.

**LiveCheck** (`adapters/live_check.py` 245-327 and 533-679). The endpoint's
anchor is submitted, confirmed and overtaken by the outcome (`Submit`, `Confirm`,
`Outcome`, `Tick`), the mapping learns of the outcome (`DeclareOutcome`), and the
referee runs again and again (`board_pc` is where): `FetchGovernance`, then one of `AnchorAbsent`,
`AnchorInline`, `FetchAnchor`, then `Conclude`, which replaces the row. The code
looks for words inside the status, so of each status word the model knows whether
"confirmed" (`Containing`) and whether an in-flight word (`Marking`) is in it. The
admission suite is any of its outcomes here (`AdmissionCode`); LiveAdmission is
about which. Its specification is `BoardSpec`.

**BroadcastByteDiff** (`tools/broadcast_byte_diff.py`). `Connect`, `Receive`,
`Fail` and `Compare` are `_check_one`; `served` is a history variable of what a
connection delivered. The relays form a sequence in which a URL may occur twice,
as on the command line. Its specification is `RelaySpec`.

**AidCommitmentLog** (`examples/aid-commitment-log/build.py`). A command computes
what it will write (`todo`) and writes file after file; `Die` ends it before,
between or in the middle of writes, and leaves a cut-off file in the last case;
`Unreadable` is the next command finding one. Commands run one at a time.

**EvidenceSet** (`tools/evidence_set_check.py`). An issuer builds a set from up to
three sources (`Init`), the document is altered (`AlterEntry`, `DropEntry`,
`RepeatEntry`, `SwapEntries`, `AlterSet`, `Recount`), and a relying party
fetches content (`Fetch`) and checks (`Check`), in any order and repeatedly.
`Validate` has every rule with the ones it suppresses, `EvidenceRoot` the tree
with its promoted odd node, level over level (`Levels`), over leaves in the order
of `sorted()` (`Place`: how many pinned entries come before this one, at an equal
key those listed earlier, since the sort is stable), `Resolve` the three tokens. Strings are numbers in
byte order, a digest is the term it hashes.

**FederationAdapter** and **GovernedDispatch** (`adapter.ts`). GovernedDispatch is
the promise of a runtime with a verdict component, in three actions.
FederationAdapter has the issuer, whose clock may be ahead by `Skew`, `check()`
with its claims in the order of the code (`CheckNothing`, `CheckEvent`), and a
runtime that keeps the output and dispatches until `valid_until`. The refinement
maps the issued events to verdicts and takes `MaxAge + Skew` for the window:
age is bounded above only, so an issuer ahead of its time makes a verdict good
for that much longer.

**Receipts**, **ReceiptLink** (`examples/x402-receipt-authorization-commitment`,
`x402-receipt-private-opening`). Receipts holds what a signature covers, what a
commitment opens to, `evaluate()` and the statements. ReceiptLink puts them on a
chain that is extended and reorganised (`Mine`, `Reorg`) and indexed late
(`Index`): `ReadHead`, `ReadLogs`, `ReadState` and `Publish` are `check_result.py`,
`Tamper` changes what was published, `Verify`, `BeginRecheck`, `FinishRecheck`,
`FallbackRecheck` and `EndRecheck` are `verify_check_result.py` with its fallback
to the latest state, the `Live` actions are `check_live.py`, `State` and `Challenge`
are `statement.py`. A block hash is the sequence of blocks up to it.

**ToolCases** composes the checkers that are functions of their files. `ToolInit`
chooses a tool and files made by an issuer, right or wrong; `Alter` changes them
in one place, up to `MaxAltered` times; `Check` runs the tool. Each tool is a module of operators with what
its parties make (`Genuine`, from the vector builders), how it is altered
(`Edits`), the checker under its own name, and what its acceptance means
(`Sound`), stated over what was made and not over what the checker computed:

| module | source |
|---|---|
| AcceptanceRecord | `tools/acceptance_record_check.py`, `examples/acceptance-record-cold/build_vectors.py` |
| Envelopes, ClaimCheckers | `_bip340_nostr.py` (`verify_proof`), `tools/issuer_profile.py`, `related_claims_check.py`, `proof_chain_check.py`, `vantage_limitation_check.py`, `issuer_run_check.py`, `verify_submission_commitment.py` |
| ReceiptCases (over Receipts) | `build_receipt_vectors.py`, `x402-receipt-private-opening/build_vectors.py` |
| Mandates | `x402-receipt-ap2-mandate` |
| ProcedureManifest | `procedure-manifest-v003` |
| Nenrin | `nenrin-cleanroom-verifier` |
| WorkAcceptance, TsaSig | `work-acceptance-record-cold` |
| LogChecks | `composed-envelope-recompute`, `sequence-integrity-recompute`, `ledger-chain-continuity`, `ledger-recompute` |
| MeshSync | `erc8309-mesh-sync` |
| BindingChecks | `scan-subject-binding`, `resolution-payment-pair-v0`, `erc-8337-attestation-refs` |
| PatternStatement | `pattern-statement-v0` |
| Approvals | `musubi-approver-v2` |

What is abstracted there: times are ordinals (half milliseconds in
WorkAcceptance, half days in PatternStatement, so that the code's roundings and
windows remain), a signature is who made it over what, DER, JSON and base64 are
"parses" or "does not", and message texts are the reason they give.

## 4. Runs

| run | bounds | distinct states | what it shows |
|---|---|---|---|
| `session_chain` | 2 records (symmetric), ledger of 3, 3 edits, hash terms of depth 4, heads of the ledger and a foreign one, any of them before, in or after the segment | 0.36 M | `TypeOK`, `PassMatchesLedger`, `GenuineNeverFails`, `VerdictIsReference` |
| `attempt_guard` | 1 tool, 2 argument values of which one does not bind, 1 unserializable value, 2 steps, 3 calls, 2 edits | 1.4 M | `AttemptIdsUnique`, `CountsFromLog`, `KeptHeadsHold`, `VerifiedIsGenuine` |
| `conformance` | 3 keys (trusted, actor, other), 2 envelopes (symmetric), 3 clock values, 2 verdicts, 1 stamp, 1 edit | 0.52 M | `PassMeansGoverned`, `GeneratedMeetsBar`, `CheckersAgree` |
| `live_admission` | 2 keys, 1 co-signer with its own or the block's scheme, 2 legs, 4 schemes, events of the block or apart from it, hints | 10.8 M | `PassIsSigned`, `MultisigEarned`, `HintNeverHelps` |
| `live_check` | 3 clock values, 3 kinds of clock, 3 places of the anchor, 2 status words, any number of runs | 2.1 M | `PassIsOrdered`, `LateIsFinal` |
| `broadcast` | 3 connections to 2 URLs, a window of 4 messages | 0.24 M | `ExitWitnessed`, `FailureIsolated`, `Terminates` |
| `aid_log` | 4 clock values, a window of 1, 2 deaths | 0.13 M | `ChainHolds`, `StateIsLast`, `ConfirmedIsAnchored`, `AllConfirmedIsAll`, `LogOnlyGrows` |
| `evidence_set` | up to 3 of 5 entries, 2 edits, 2 fetches | 0.18 M | `SuppressionNeverHides`, `RootBinds`, `OrderNeverMatters`, `ResolutionStays` |
| `federation` | 3 actions on 2 targets, 1 verdict, maximal age 2, skew 1, 6 clock values | 0.08 M | `KeptIsCurrent`, `ImplementsGoverned` |
| `receipt_link` | 3 payments of which 2 have one authorization, 2 blocks, 1 reorganisation, 1 alteration, 4 receipts | 3.9 M | `AgreedIsTrue`, `GenuineIsConfirmed`, `ChallengeIsFair` |
| `tool_cases` | 22 tools, 2 alterations of every case (3 for acceptances, 1 where issuers make many cases) | 1.5 M | `VectorsCompose`, `AcceptanceSound`, `PassIsTrue`, `AcceptedIsSo`, `WorkIsBacked`, `LogIsWhole`, `BindingHolds` |

Why the bounds are enough. A ledger of three has a first, a middle and a last
entry, so a segment can miss history on both sides, and the full rewrite of the
vectors (drop, renumber, re-link) takes three edits. Two steps and three calls
give a reset of the call index, a denial caught after a later record, and a log
with a middle. Three clock values order verdict, stamp and outcome in every way,
equal times included; two verdicts allow a stamp of the wrong one. Two keys are
a primary and somebody else, who is also the actor. A window of four holds a
copy, a second copy, a skipped message and the end; six, the code's number, adds
longer sequences of the same kinds. Two deaths interrupt a command and its
retry. Three sources give the evidence tree an odd node, two edits change an
entry and the count or root that would give it away. Two verdict ages and a skew
of one put every dispatch before, at and after `valid_until`. Two payments and
one reorganisation are a settlement that is there, gone or replaced between two
reads; a third payment with the authorization of another is one submitted again
after the reorganisation. Two alterations change a member and what covers it, such as a record and
its hash, or a file and the statement about it. Deadlock is not checked: each of these systems may stop, a checker after
its verdict and a bounded history at its bound.

`live_check_word` shows a disagreement between the code and a line of it:
`"confirmed" in st` holds of `"unconfirmed"` (`adapters/live_check.py:618`, against
617), so an anchor in flight passes for one that exists.

Elsewhere a document promises more than the code keeps, and a property of a passing
run is about that very place. Such a property says what the code keeps, names the
case in which it falls short of the document as an explicit exception, and its
comment quotes the line. A pass of the run is then no pass of the document:

- `VerdictIsReference`: PASS with a supplied head that precedes the log and was
  compared with nothing, where the docstring says *every supplied external head is
  matched* (`tools/session_chain_check.py:16`, code at 70). The report says *cannot
  compare* exactly then.
- `AcceptedIsSo`, `Sound` of ProcedureManifest: README.md:25 (C20) has attempt k+1
  only after an attested absence for attempt k. Without the claim of attempt 0 the
  result of attempt 1 passes (`procedure-manifest-v003/check.py:195`); it does not
  with every claim of the anchored log in the package (`NothingWithheld`).
- `LogIsWhole`, `Sound` of MeshSync: rule R3 (`check_mesh_sync.py:9`, `README.md:12`)
  calls any served value that differs from the signed one a mismatch; the code
  compares only fields that are acted on. The property has R3 for a node whose other
  fields are as signed.
- `LogIsWhole`, `SequenceSound`: `check_sequence_integrity.py:12` speaks of 2 or 3
  independent signers; an envelope with an empty list of signatures passes. The
  property has every signature on file made by the key it names over that payload.
- `BindingHolds`, `RefsSound`: the signature is checked under the event's own pubkey
  and authority looked up for the entry's, against README.md:21 of
  `erc-8337-attestation-refs` (*verifies against the entry's pubkey*). An entry under
  another key is accepted, and may be called authorized.
- `BindingHolds`, `PairSound`: the payer's authorization and the nonce that carries
  the verdict may be two logs of one transaction
  (`resolution-payment-pair-v0/check.py:55`, 61, 63, against line 8).
- `AgreedIsTrue`: when the state of the block is gone, `verify_check_result.py:79`
  takes the result for `linked`, and confirms a wrong `linked` about an authorization
  that was submitted again in another transaction.
- `PassIsSigned`: an event of the `nostr-event` scheme is checked under its own id and
  key, never against the hash and pubkey of the block (`adapters/live_check.py:212`),
  which the shipped mapping takes from there
  (`adapters/invinoveritas.mapping.json:7-8`; `adapters/README.md:53` promises a
  signature over the envelope hash).
- `MultisigEarned`: the audit counts the primary as verified before it looks at it
  (`live_check.py:368`), also on rows whose primary then fails. The property allows
  this one signer on rows whose admission suite reports it.
- `PassIsOrdered`: any status word of an endpoint that contains "confirmed" is misread
  (`live_check.py:618`), of which `live_check_word` is the trace.

Seen while modelling, described here without a property of their own:

- `verify.js:267` passes a fixture with a field missing on which `verifier.py`
  raises; `verifier.py:23` says a second verifier should reach the same verdict.
- A `supersede` that died after the log and was run again appends a third entry
  with position 2 (`examples/aid-commitment-log/build.py:191`, docstring at 171).
- A policy or snapshot that raises leaves an attempt without a record, against
  *attempts = chain length* (`decision_record_per_attempt.py:91`).
- Precedence is compared with the anchor block's own outcome time, the terminal
  record's is never read (`verifier.py:122`).
- Two legs by one key count as two signers (`live_check.py:68`); an empty trust
  list passes any signer (518); with no outcome time the `precedence` flag alone
  passes (648).
- A differing copy is forgotten when the same relay sends another or fails
  afterwards (`broadcast_byte_diff.py:108`).
- The same line 79 of `verify_check_result.py` reports a genuine `inconsistent` as a
  disagreement (`GenuineIsConfirmed` leaves it out); a log service that
  lags gives a false `no_match`; an exception that is not caught exits 1, like a
  disagreement; an unpinned `challenge()` may refute a statement that was true.
- A repeated claim counts as a retry (`procedure-manifest-v003/check.py:195`).
- The last of two results with one id wins, where the comment says *one result
  each* (`work-acceptance-record-cold/war_check.py:325`); the walk to an anchor
  takes the first issuer that matches and does not go back
  (`tsa_sig.py`, `_chain`).
- An envelope with an empty list of signatures passes in the composed envelope too.
- Two references of one decision keep the order they came in
  (`erc-8337-attestation-refs/check_attestation_refs.py`).

## 5. Fairness

Only BroadcastByteDiff has a liveness property. `Terminates` needs `WF_vars(Next)`:
the tool goes on as long as it can. The code justifies it, since opening a
connection has a timeout of 5 s and every receive one of 3 s, so `Fail` is always
a way on where a relay is silent. No relay is assumed to answer. The other
checkers are loops over finite lists; their termination is not stated. A dispatch
in GovernedDispatch, a fetch or a recheck is never promised to happen, so those
specifications are safety only.

## 6. Proofs

Each theorem is about every value of the constants that satisfies the named
assumptions, which TLC evaluates on the runs. Each rests on an inductive
invariant, and one lemma per action says that the action keeps it; the invariants
were model-checked on the run's instance before they were proved.

| module | theorem | what it states |
|---|---|---|
| ToolProofs (SessionChain) | `VerdictCorrect`, `PassSound`, `NoFalseAlarm` | `VerdictIsReference`, `PassMatchesLedger`, `GenuineNeverFails` |
| ToolProofs (ToolCases) | `AcceptancesAreSound`, `PassesAreTrue`, `AcceptedAreSo` | `AcceptanceSound`, `PassIsTrue`, `AcceptedIsSo` |
| AttemptGuardProofs | `IdsAreUnique`, `CountsAreFromLog`, `KeptHeadsAreOfTheLog`, `VerifiedLogIsGenuine` | `AttemptIdsUnique`, `CountsFromLog`, `KeptHeadsHold`, `VerifiedIsGenuine` |
| ConformanceProofs | `PassProvesGovernance`, `CheckersAlwaysAgree`, `GeneratedFixturesMeetTheBar` | `PassMeansGoverned`, `CheckersAgree`, `GeneratedMeetsBar` |
| LiveProofs (LiveAdmission) | `PassNeedsSignature`, `MultisigIsEarned`, `HintsNeverHelp` | `PassIsSigned`, `MultisigEarned`, `HintNeverHelps` |
| LiveProofs (LiveCheck) | `RowsAreOrdered`, `LateRowsAreFinal` | `PassIsOrdered`, the action property `LateIsFinal` |
| PublishedEventProofs (BroadcastByteDiff) | `ExitIsWitnessed`, `FailuresAreIsolated` | `ExitWitnessed`, `FailureIsolated` |
| PublishedEventProofs (FederationAdapter) | `KeptResultIsCurrent`, `Implements` | `KeptIsCurrent`, the refinement `ImplementsGoverned` |
| AidCommitmentLogProofs | `LogIsAChain`, `StateIsTheCommitPoint`, `ConfirmedProofsAreAnchored`, `LogGrowsOnly`, `AllConfirmedIsTrue` | `ChainHolds`, `StateIsLast`, `ConfirmedIsAnchored`, the action properties `LogOnlyGrows`, `AllConfirmedIsAll` |
| EvidenceSetProofs | `SuppressionIsHarmless`, `RootsBind`, `OrderIsIrrelevant`, `ResolutionsStay` | `SuppressionNeverHides`, `RootBinds`, `OrderNeverMatters`, the action property `ResolutionStays` |
| ReceiptLinkProofs | `AgreedResultsAreTrue`, `GenuineResultsAreConfirmed`, `ChallengesAreFair` | `AgreedIsTrue`, `GenuineIsConfirmed`, `ChallengeIsFair` |

All but ReceiptLink and ToolCases, whose typing is part of their invariants, also
have a theorem of type correctness (`TypeCorrect`, `RowsAreTyped`,
`RelayTypeCorrect`). A module of proofs over two specifications extends both, so
their names differ (`Spec` and `BoardSpec`, `RelaySpec`, `ToolSpec`).

**Assumptions.** Most bound a number (it is natural) or say that a subset is one.
Beyond that: Genesis is no entry's head hash (`HashAssumption`); the values that
stand for "absent" and "cut off" are not contents of a file, signatures, keys or
times (`FileAssumption`, `NoneAssumption`, `KeyAssumption`, `TermAssumption`,
`LiveAssumption`); a relay list is a sequence of strings and the window is not
empty (`RelayAssumption`); the entries a set is built from are finitely many and
finished, and an altered member is still a value a member can have
(`PoolAssumption`, `AlteredAssumption`). That hashes are injective is never assumed:
they are terms, and injectivity is a lemma where it is needed. What is known of the
status words that the code spells out is `WordAssumption` ("unconfirmed" contains
"confirmed", "submitted" does not).

No theorem has a hypothesis beyond these. Where the code falls short of a document,
the exception is part of the property (section 4), so that the theorem covers the
configurations with the exception too and says that nothing else can go wrong in them:

- `RowsAreOrdered`: an endpoint with a word that contains "confirmed" can have a
  submitted anchor shown as existing; precedence still needs a forward stamp.
- `PassNeedsSignature`: an event that stands apart from the block passes for any
  signer, and the block's key is still not the actor's and a trusted one.
- `AgreedResultsAreTrue`: a result read partly before and partly after a
  reorganisation and signed as `linked` may be confirmed by the fallback when the
  authorization was submitted again. TLC finds the behaviour when the exception is
  taken out of `AgreedIsTrue`. It is confined to a recheck that fell back, a `linked`
  that should be `inconsistent`, and a receipt that names the other transaction.

**Why the invariants are stronger than the properties.**

*SessionChain.* `IInv = TypeOK /\ LedgerInv /\ MatchInv /\ NumberInv /\ WalkInv`,
defined at the end of SessionChain. `LedgerInv` says the ledger is numbered from 1
and chained from Genesis. `WalkInv` says what the checker's variables mean at each
of its positions; `VerdictCorrect` follows from it alone. `MatchInv` carries
`PassSound`: once a checked entry shares its head hash with a ledger entry, the
log is the ledger, but for the numbers, from there back to the log's first entry,
and the ledger reaches back at least as far. That is an induction backwards over
the log, which the provers cannot do; it is turned into an invariant of the
forward walk, where each step extends the claim by one entry (`ShareBack`, then
`MatchStep`). `NumberInv` is needed beside it because no hash covers the entry
number: it derives the numbers from the first one. The same hazard makes the
theorem say what it says: agreement *up to a genuine head*.

*AttemptGuard.* The ids are unique because every recorded id is of an earlier step
or of a call index already spent; the copy and the log agree up to a head because
a digest is the sequence of the bodies it covers, so `VerifyInv` only has to say
that what `verify_chain` has walked over is chained and that `prev` is its digest.
Nothing is assumed about the edits beyond their leaving a log: `CopyInv` lets the
copy become any log at all.

*Conformance.* `CheckInv` says that what a checker has reported so far is its own
code for the fixture as it is now; the rest is about the run (`RunInv`,
`VerdictInv`, `StampInv`) and about which fixtures `main()` writes (`GenInv`).
`CheckersAlwaysAgree` is then a suite-by-suite comparison of two pieces of code,
and `PassProvesGovernance` follows the join from the anchor's digest to an event
somebody signed, and from there to the envelope.

*LiveAdmission.* `CountInv` gives each counter its meaning at each place of `run()`:
the number of positions before `pos` that verify. `MultisigIsEarned` compares that
with the signers of the block that verify, by the cardinality lemmas of the
library; the co-signers counted are exactly those who signed the hash under their
own key and scheme (`CreditedCo`), and a primary that does not verify is reported by
the admission suite (`PrimaryReported`). `KeysInv` says that a key a leg verified under signed one,
which is what the JWS path of `PassNeedsSignature` rests on. `HintsNeverHelp` is
`ClassifyFacts`, over every branch of the ladder, for a record that `AuditInv` says
is still made of the counters as they are.

*LiveCheck.* The anchor that `run()` holds may be out of date when it is used.
`AnchorInv` says what stays true of it: what it shows as confirmed is confirmed
now or misread (`Existent`), what it shows as late is late now. `RowInv` says the same of the board's row,
and `FinalInv` that the run under way will not clear a failure that is on the board.

*BroadcastByteDiff.* `FoundInv` says that the copy about to be compared came over
this connection, which is what keeps relays apart; `WitnessInv` gives every result
a connection that served it, also when a URL occurs twice.

*AidCommitmentLog.* `RunInv` says which command is running and which of its writes
are left, so what the disk must hold already; `DiskInv` says what each readable
file holds, and `StateIsLast` and `ConfirmedIsAnchored` are part of the invariant
themselves. A death is then a step that forgets `RunInv`'s mode and may cut off one
file, and a rerun is a command that starts on what is left. The mode of `upgrade`
carries what it has found so far, from which `AllConfirmedIsTrue` follows.

*FederationAdapter.* `IssuedInv` dates every event within the skew of its signing,
`OutputInv` says that the result kept is that of a check of the same input at an
earlier time. With them every action of the adapter maps to an action of
GovernedDispatch or to a stutter.

*EvidenceSet.* The state is simple (`ReportInv`: the last report is of the document
as it still is, and of content still held) and the work is in the operators.
A root is a term, and `Under` says what a walk down from it can come to; a
leaf is under a joined level exactly if it is under one of the level below
(`UnderNode`, `RootIsOver`), whatever is promoted, so equal roots have equal leaves:
`RootsBind`. The number of levels is arbitrary. The provers cannot instantiate the
library's induction rules, so what is said of every level is said as a set of
numbers that has 0 and is closed under successor (`UpToAny`, from the least element
of its complement). `OrderIsIrrelevant` is for the exchange of two sources: `Place`
is a bijection between the pinned entries and the leaves, an exchange maps the
entries with a smaller key to as many with a smaller key, and entries with equal
keys have equal leaves, so the leaves come in the same order.
`SuppressionIsHarmless` goes rule by rule: a rule skipped because of a bad member
has another that reports this member.

*ReceiptLink.* A check is three reads of a chain that moves. `LogsRead` says what was
read: for some set of settlements the result is the link opened among them, and that
set is the one of the named block when the services were in step. `SeenInv` says of
every block hash held anywhere that it is a prefix of the chain now, or misses a
block older than the last reorganisation, and so never becomes canonical again; this
is what a recheck needs to meet either the block that was named or none. `EventInv`
says that what the issuer signed as `linked` has a payment that opens it (`Backed`),
and that a result all of whose reads were in step follows from the block it names
(`SoundRead`).

*ToolCases.* An acceptance is true after any number of alterations because for each
tool there is something no alteration reaches: what was sealed, signed by somebody
else, or recorded on the chain. `ToolInv` says that for the ten tools of the three
theorems (`IsAcceptance`, `IsRelated`, ..., `IsApproval`), and that a report of
success is the tool's own verdict on the case as it is. One lemma per tool says that
the made cases have it (`Genuine...`), one that every alteration keeps it
(`Altered...`), one that what the checker accepts is then so (`Verdict...`): the
checker's conditions lead, join by join, from what was handed in to what was made.

**Found by proving.** Every invariant treated turned out true for all
constants, but for the exceptions the properties name. The proofs also showed assumptions
the specifications had left unsaid: with `MaxTime = 0` the initial clock of
LiveCheck is no time at all, and an absent field that equals a hash term, a
signature or a file's contents breaks the types of Conformance, LiveAdmission and
AidCommitmentLog. They are stated now.

**Only model-checked.** `VectorsCompose`, `WorkIsBacked`, `LogIsWhole` and
`BindingHolds` of ToolCases. The tools behind the last three fold and filter
sequences and compute Merkle paths, pages and certificate chains by recursion over
their data (TsaSig, LogChecks, MeshSync, BindingChecks, PatternStatement), and what
such a definition computes for every input is out of the installed provers' reach;
a property with one such tool in it is checked as a whole. `VectorsCompose` compares
the acceptance checker with a table of expectations over combinations of the
repository's vectors, a finite comparison that TLC makes in full. Liveness
(`Terminates`) and ENABLED are out of reach too, and the violation run is TLC's.

## 7. Not modelled

- Hash functions, signature arithmetic, DER and canonical JSON: number theory and
  byte strings. Every model takes them as ideal, the JavaScript secp256k1 code and
  the Ed25519 code vendored in the examples too.
- Message wording, rendering, detail strings and JSON shapes that a checker refuses
  before its first decision.
- The overlap of two commands of the AID log, which would lose an update at once
  and which nothing in the repository suggests.
- The re-run of an attested related-claims check: `issuer_run_check.py:25` names two
  checkers, and ClaimCheckers re-runs the vantage one.
- Parts of modelled examples: `canon` and `leaks` of the private openings (bytes),
  the counts that the mesh check shows for contrast, the live re-reads and the
  built-in mutants of the binding checks.
- The further examples of section 1: one-off recomputations of a published digest,
  straight-line scripts, generators of byte-level vectors; and the submitter join,
  a measurement left for later.
- Vectors, fixtures, tests and CI, which were read as statements of intent.
