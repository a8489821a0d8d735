------------------------- MODULE ReceiptLinkProofs -------------------------
(***************************************************************************)
(* What a recheck of a published result, and a challenge of a statement,   *)
(* may be relied on for: whatever the receipts and the payments, however   *)
(* long the chain, however often it is reorganised and wherever the log    *)
(* service stands while each read is made.                                 *)
(***************************************************************************)
EXTENDS ReceiptLink, FiniteSetTheorems, SequenceTheorems, TLAPS

-----------------------------------------------------------------------------
(* The inductive invariant *)

Block == [settles : SUBSET Payments, fork : Nat]

\* The results and details check_result may write into a content.
Word == {"none", "linked", "no_match", "inconsistent", "not_attempted", "malformed", "incomplete"}
Detail == {"", "receipt_rejected", "chain_head_unobtainable", "state_unobtainable", "candidate_set_unobtainable",
           "matches", "no_commitment", "one_of_method_and_commitment", "unsupported_method", "commitment_encoding",
           "salt_not_held", "asset_not_held", "payer_not_an_eip3009_authorizer"}

ContentRec ==
  [result : Word, detail : Detail, number : Nat, hash : Seq(Block),
   count : {0} \union {1 + Cardinality(S) : S \in SUBSET Payments}, receipt : {h.receipt : h \in Held},
   nonce : {"none"} \union {p.nonce : p \in Payments}, tx : {"none"} \union {p.tx : p \in Payments},
   disclosed : BOOLEAN]

CheckJob ==
  [task : {"check", "recheck"}, held : Held, at : Nat, synced : BOOLEAN, failed : BOOLEAN,
   nonce : {"none"} \union {p.nonce : p \in Payments}, pc : {"head", "logs", "state", "done", "said"}, out : ContentRec]

Signer == {Issuer, "stranger"}

EventRec ==
  [pubkey : Signer, id : Signer \X ContentRec,
   sig : [by : Signer, over : Signer \X ContentRec], content : ContentRec, sound : BOOLEAN]

Checking == job.task \in {"check", "recheck"}

\* A block's fork is never newer than the last reorganisation.
Forked(c) == \A i \in 1..Len(c) : c[i].fork <= reorgs

TypeInv ==
  /\ chain \in Seq(Block) /\ Forked(chain)
  /\ index \in Seq(Block)
  /\ reorgs \in Nat
  /\ job.task \in {"idle", "check", "recheck", "live", "stated", "challenged"}
  /\ job.task = "live" => DOMAIN job = {"task", "held", "pc", "nonce"}
  /\ Checking => job \in CheckJob
  /\ event = NoEvent \/ event \in EventRec

\* A chain that was canonical once and no longer is misses a block that was mined
\* before the last reorganisation, so that it never becomes canonical again.
Dead(c) == \E i \in 1..Len(c) : c[i].fork < reorgs /\ (i > Len(chain) \/ chain[i] # c[i])

Seen(c) == Forked(c) /\ (IsPrefix(c, chain) \/ Dead(c))

SeenInv ==
  /\ Checking => Seen(job.out.hash)
  /\ event # NoEvent => Seen(event.content.hash)

Accepted(r) == CheckUnpinned(r).receipt = "valid"

\* What the logs gave: whether they were obtained, the candidates, and the link
\* that held opens among them. A read of the state only replaces its result.
Cands(ok, S) == [obtained |-> ok, set |-> S]
LinkOf(h, cands) == link(h.receipt.payload, h.salt, h.asset, cands)
Shown(disclosed, lk) == disclosed /\ lk.nonce # "none"
ReadOf(h, o, ok, S) ==
  LET lk == LinkOf(h, Cands(ok, S))
  IN  /\ o.count = IF ok THEN 1 + Cardinality(S) ELSE 0
      /\ o.nonce = IF Shown(o.disclosed, lk) THEN lk.nonce ELSE "none"
      /\ o.tx = IF Shown(o.disclosed, lk) THEN lk.transaction ELSE "none"
      /\ \/ o.result = lk.result /\ o.detail = lk.detail
         \/ o.result = "incomplete" /\ o.detail = "state_unobtainable" /\ lk.result \in {"linked", "inconsistent"}

\* Where a check stands, read by read.
HeadUnread ==
  job.pc = "head" =>
    /\ Accepted(job.held.receipt) /\ job.out.number = 0 /\ job.out.result = "none" /\ job.out.detail = ""
    /\ job.synced /\ ~job.failed
HeadFailed ==
  (job.pc # "head" /\ job.out.number = 0) =>
    /\ job.pc \in {"done", "said"} /\ job.out.result \in {"not_attempted", "incomplete"}
    /\ job.out.detail \in {"receipt_rejected", "chain_head_unobtainable"}
    /\ job.failed \/ ~Accepted(job.held.receipt)
HeadRead ==
  job.out.number > 0 => Accepted(job.held.receipt) /\ job.out.number = Len(job.out.hash)
LogsUnread ==
  job.pc = "logs" =>
    /\ job.out.number > 0 /\ job.out.result = "none" /\ job.out.detail = ""
    /\ job.synced /\ ~job.failed
StateUnread ==
  job.pc = "state" => job.out.result \in {"linked", "inconsistent"}
LogsRead ==
  (job.pc \in {"state", "done", "said"} /\ job.out.number > 0) =>
    \E S \in SUBSET Payments :
      /\ ReadOf(job.held, job.out, ~job.failed, S)
      /\ (job.synced /\ ~job.failed) => S = Settled(job.out.hash)

CheckInv ==
  Checking =>
    /\ job.out.receipt = job.held.receipt
    /\ HeadUnread /\ HeadFailed /\ HeadRead /\ LogsUnread /\ LogsRead /\ StateUnread

\* The receipt names no transaction, or the payment's.
NotAnother(p, m) == p.transaction \in {"", m.tx}

\* A signed linked stands on a receipt someone held and a payment that opens it.
Backed(c) ==
  c.result = "linked" =>
    \E h \in Held, m \in Payments :
      /\ h.receipt = c.receipt
      /\ Commitment(h.receipt.payload.authorizationMethod, h.asset, h.receipt.payload.payer, m.nonce, h.salt)
           = h.receipt.payload.authorizationCommitment
      /\ NotAnother(h.receipt.payload, m)

\* A result is sound when every read behind it was of the chain it names.
SoundRead(c) ==
  /\ Accepted(c.receipt)
  /\ \E h \in Held : h.receipt = c.receipt /\ ReadOf(h, c, TRUE, Settled(c.hash))

EventInv ==
  event # NoEvent =>
    /\ event.sig.by = Issuer => Backed(event.sig.over[2])
    /\ event.content.number > 0 => event.content.number = Len(event.content.hash)
    /\ (event.sound /\ event.content.number > 0) => SoundRead(event.content)

\* A recheck is of the event as it is, at the block it names.
RecheckInv ==
  job.task = "recheck" =>
    /\ event # NoEvent /\ verify_event(event)
    /\ job.at = event.content.number /\ job.at > 0
    /\ job.out.disclosed = (event.content.disclosed /\ event.content.nonce # "none")
    /\ job.out.number > 0 => /\ job.out.number = job.at
                             /\ job.out.hash = event.content.hash \/ Dead(event.content.hash)
    /\ job.pc = "said" =>
         \/ verdict = "raises"
         \/ verdict = Compare(IF job.out.detail = "state_unobtainable" THEN Again(job.out) ELSE job.out)

\* A statement is about the receipt and the payer of what is held.
StatementInv ==
  job.task \in {"stated", "challenged"} =>
    /\ statement.read_at \in Seq(Block)
    /\ statement.rater = job.held.receipt.payload.payer
    /\ job.held \in Held

IInv == TypeInv /\ SeenInv /\ CheckInv /\ EventInv /\ RecheckInv /\ StatementInv /\ ChallengeIsFair

-----------------------------------------------------------------------------
(* What link() returns *)

\* A result is one of link()'s words, its detail never one of check_result's own,
\* and candidates that were obtained always lead to a finding.
LEMMA LinkWord ==
  ASSUME NEW p, NEW salt, NEW asset, NEW cands
  PROVE  /\ link(p, salt, asset, cands).result \in Word \ {"none"}
         /\ link(p, salt, asset, cands).detail
              \in Detail \ {"receipt_rejected", "chain_head_unobtainable", "state_unobtainable"}
         /\ cands.obtained => link(p, salt, asset, cands).result # "incomplete"
         /\ link(p, salt, asset, cands).result \in {"linked", "no_match", "inconsistent"} => cands.obtained
BY DEF link, NoLink, Word, Detail

\* Nothing is disclosed of a receipt that was not linked.
LEMMA LinkNothing ==
  ASSUME NEW p, NEW salt, NEW asset, NEW cands,
         link(p, salt, asset, cands).result \notin {"linked", "inconsistent"}
  PROVE  link(p, salt, asset, cands).nonce = "none" /\ link(p, salt, asset, cands).transaction = "none"
BY DEF link, NoLink

\* The candidate link() takes.
Match(p, salt, asset, cands) == CHOOSE c \in Opens(p, salt, asset, cands) : TRUE

\* A link is to a candidate that opens the commitment, and it is inconsistent
\* exactly when the receipt names another transaction.
LEMMA LinkOpened ==
  ASSUME NEW p, NEW salt, NEW asset, NEW cands,
         link(p, salt, asset, cands).result \in {"linked", "inconsistent"}
  PROVE  /\ Match(p, salt, asset, cands) \in cands.set
         /\ Commitment(p.authorizationMethod, asset, p.payer, Match(p, salt, asset, cands).nonce, salt)
              = p.authorizationCommitment
         /\ link(p, salt, asset, cands).nonce = Match(p, salt, asset, cands).nonce
         /\ link(p, salt, asset, cands).transaction = Match(p, salt, asset, cands).tx
         /\ link(p, salt, asset, cands).result = "linked" <=> NotAnother(p, Match(p, salt, asset, cands))
<1> DEFINE M == Opens(p, salt, asset, cands)
           m == Match(p, salt, asset, cands)
           lk == link(p, salt, asset, cands)
<1>1. /\ Cardinality(M) = 1
      /\ lk = [result |-> IF p.transaction \notin {"", m.tx} THEN "inconsistent" ELSE "linked",
               detail |-> "", nonce |-> m.nonce, transaction |-> m.tx]
  BY DEF link, NoLink, Match
<1>2. M # {}
  <2> HIDE DEF M
  <2>1. Cardinality({}) = 0
    BY FS_EmptySet
  <2>2. Cardinality(M) = 1
    BY <1>1
  <2>3. QED BY <2>1, <2>2
<1>3. m \in M
  BY <1>2 DEF Match
<1>4. /\ m \in cands.set
      /\ Commitment(p.authorizationMethod, asset, p.payer, m.nonce, salt) = p.authorizationCommitment
  BY <1>3 DEF Opens
<1>5. /\ lk.nonce = m.nonce /\ lk.transaction = m.tx
      /\ lk.result = "linked" <=> NotAnother(p, m)
  <2> HIDE DEF m, lk
  <2> QED BY <1>1 DEF NotAnother
<1>6. QED BY <1>4, <1>5

\* Two openings of one commitment are of the same nonce, salt and asset.
LEMMA CommitmentBinds ==
  ASSUME NEW m1, NEW a1, NEW b1, NEW n1, NEW s1, NEW m2, NEW a2, NEW b2, NEW n2, NEW s2,
         Commitment(m1, a1, b1, n1, s1) = Commitment(m2, a2, b2, n2, s2)
  PROVE  n1 = n2 /\ s1 = s2 /\ a1 = a2
BY DEF Commitment

-----------------------------------------------------------------------------
(* Chains, their prefixes and what becomes of them *)

\* A block of a chain has its settlements and its fork.
LEMMA BlockAt ==
  ASSUME NEW c \in Seq(Block)
  PROVE  /\ Len(c) \in Nat /\ DOMAIN c = 1..Len(c)
         /\ \A i \in 1..Len(c) : c[i].fork \in Nat /\ c[i].settles \in SUBSET Payments
<1>1. Len(c) \in Nat /\ DOMAIN c = 1..Len(c) /\ \A i \in 1..Len(c) : c[i] \in Block
  BY LenProperties, ElementOfSeq
<1>2. \A b \in Block : b.fork \in Nat /\ b.settles \in SUBSET Payments
  BY DEF Block
<1>3. QED BY <1>1, <1>2

\* A prefix, position by position.
LEMMA PrefixElements ==
  ASSUME NEW c \in Seq(Block), NEW t \in Seq(Block)
  PROVE  IsPrefix(c, t) <=> Len(c) <= Len(t) /\ \A i \in 1..Len(c) : t[i] = c[i]
<1>1. CASE Len(c) <= Len(t)
  <2> DEFINE u == SubSeq(t, 1, Len(c))
  <2>1. u \in Seq(Block) /\ Len(u) = Len(c) /\ \A i \in 1..Len(c) : u[i] = t[i]
    BY <1>1, SubSeqProperties
  <2>2. u = c <=> \A i \in 1..Len(c) : u[i] = c[i]
    <3> HIDE DEF u
    <3> QED BY <2>1, SeqEqual
  <2>3. QED BY <1>1, <2>1, <2>2 DEF IsPrefix
<1>2. CASE ~(Len(c) <= Len(t))
  BY <1>2 DEF IsPrefix
<1>3. QED BY <1>1, <1>2

\* The log service that has the chain ending in a block answers for exactly it.
LEMMA UptoPrefix ==
  ASSUME NEW c \in Seq(Block), NEW t \in Seq(Block), IsPrefix(c, t)
  PROVE  Upto(t, Len(c)) = c
BY DEF IsPrefix, Upto

\* An answer of the log service is made of blocks.
LEMMA UptoType ==
  ASSUME NEW t \in Seq(Block), NEW n \in Nat
  PROVE  Upto(t, n) \in Seq(Block)
<1>1. CASE n <= Len(t)
  BY <1>1, SubSeqProperties DEF Upto
<1>2. CASE ~(n <= Len(t))
  BY <1>2 DEF Upto
<1>3. QED BY <1>1, <1>2

\* What settled on a chain are payments.
LEMMA SettledType ==
  ASSUME NEW c \in Seq(Block)
  PROVE  Settled(c) \in SUBSET Payments
<1>1. \A i \in DOMAIN c : c[i].settles \subseteq Payments
  BY BlockAt
<1>2. QED BY <1>1 DEF Settled

\* The block of a number the node has names the chain that ends in it.
LEMMA HashType ==
  ASSUME TypeInv, NEW n \in Nat, n <= Len(chain)
  PROVE  Hash(n) \in Seq(Block) /\ Len(Hash(n)) = n /\ IsPrefix(Hash(n), chain) /\ Forked(Hash(n))
<1>1. /\ SubSeq(chain, 1, n) \in Seq(Block) /\ Len(SubSeq(chain, 1, n)) = n
      /\ \A i \in 1..n : SubSeq(chain, 1, n)[i] = chain[i]
  BY SubSeqProperties DEF TypeInv
<1>2. \A i \in 1..n : chain[i].fork <= reorgs
  BY DEF TypeInv, Forked
<1>3. QED BY <1>1, <1>2, PrefixElements DEF TypeInv, Hash, Forked

\* A chain that was lost stays lost, and one that was canonical is or is lost:
\* a new block is marked with the fork it is mined on.
LEMMA MineSeen ==
  ASSUME TypeInv, Mine
  PROVE  /\ TypeInv'
         /\ \A c \in Seq(Block) : (Dead(c) => Dead(c)') /\ (Seen(c) => Seen(c)')
<1>1. PICK S \in SUBSET Payments : chain' = Append(chain, [settles |-> S, fork |-> reorgs])
  BY DEF Mine
<1>2. /\ chain \in Seq(Block) /\ reorgs \in Nat /\ reorgs' = reorgs /\ Len(chain) \in Nat
      /\ [settles |-> S, fork |-> reorgs] \in Block
  BY DEF Mine, TypeInv, Block
<1>3. /\ chain' \in Seq(Block) /\ Len(chain') = Len(chain) + 1
      /\ \A i \in 1..Len(chain) : chain'[i] = chain[i]
      /\ chain'[Len(chain) + 1].fork = reorgs
  BY <1>1, <1>2
<1>4. Forked(chain)'
  BY <1>2, <1>3 DEF TypeInv, Forked
<1>5. TypeInv'
  BY <1>2, <1>3, <1>4 DEF TypeInv, Mine, Checking
<1>6. ASSUME NEW c \in Seq(Block), Dead(c) PROVE Dead(c)'
  <2>1. PICK i \in 1..Len(c) : c[i].fork < reorgs /\ (i > Len(chain) \/ chain[i] # c[i])
    BY <1>6 DEF Dead
  <2>2. i > Len(chain') \/ chain'[i] # c[i]
    BY <1>2, <1>3, <2>1
  <2>3. QED BY <1>2, <2>1, <2>2 DEF Dead
<1>7. ASSUME NEW c \in Seq(Block), Seen(c) PROVE Seen(c)'
  <2>1. Forked(c)'
    BY <1>2, <1>7 DEF Seen, Forked
  <2>2. CASE IsPrefix(c, chain)
    <3>1. IsPrefix(c, chain')
      BY <1>2, <1>3, <2>2, PrefixElements
    <3>2. QED BY <2>1, <3>1 DEF Seen
  <2>3. CASE Dead(c)
    BY <1>6, <2>1, <2>3 DEF Seen
  <2>4. QED BY <1>7, <2>2, <2>3 DEF Seen
<1>8. QED BY <1>5, <1>6, <1>7

\* After a reorganisation too: what is cut off is older than it.
LEMMA ReorgSeen ==
  ASSUME TypeInv, Reorg
  PROVE  /\ TypeInv'
         /\ \A c \in Seq(Block) : (Dead(c) => Dead(c)') /\ (Seen(c) => Seen(c)')
<1>1. PICK n \in 0..(Len(chain) - 1) : chain' = SubSeq(chain, 1, n)
  BY DEF Reorg
<1>2. /\ chain \in Seq(Block) /\ reorgs \in Nat /\ reorgs' = reorgs + 1 /\ Len(chain) \in Nat
  BY DEF Reorg, TypeInv
<1>3. /\ chain' \in Seq(Block) /\ Len(chain') = n /\ n < Len(chain) /\ n \in Nat
      /\ \A i \in 1..n : chain'[i] = chain[i]
  BY <1>1, <1>2, SubSeqProperties
<1>4. Forked(chain)'
  <2>1. \A i \in 1..Len(chain) : chain[i].fork \in Nat /\ chain[i].fork <= reorgs
    BY BlockAt DEF TypeInv, Forked
  <2>2. \A i \in 1..n : chain'[i].fork <= reorgs + 1
    BY <1>2, <1>3, <2>1
  <2>3. QED BY <1>2, <1>3, <2>2 DEF Forked
<1>5. TypeInv'
  BY <1>2, <1>3, <1>4 DEF TypeInv, Reorg, Checking
<1>6. ASSUME NEW c \in Seq(Block), Dead(c) PROVE Dead(c)'
  <2>1. PICK i \in 1..Len(c) : c[i].fork < reorgs /\ (i > Len(chain) \/ chain[i] # c[i])
    BY <1>6 DEF Dead
  <2>2. i > Len(chain') \/ chain'[i] # c[i]
    BY <1>2, <1>3, <2>1
  <2>3. c[i].fork < reorgs'
    BY <1>2, <2>1, BlockAt
  <2>4. QED BY <2>1, <2>2, <2>3 DEF Dead
<1>7. ASSUME NEW c \in Seq(Block), Seen(c) PROVE Seen(c)'
  <2>1. Forked(c)'
    BY <1>2, <1>7, BlockAt DEF Seen, Forked
  <2>2. CASE IsPrefix(c, chain) /\ Len(c) <= n
    <3>1. IsPrefix(c, chain')
      BY <1>2, <1>3, <2>2, PrefixElements
    <3>2. QED BY <2>1, <3>1 DEF Seen
  <2>3. CASE Len(c) > n
    <3>1. n + 1 \in 1..Len(c) /\ c[n + 1].fork <= reorgs /\ c[n + 1].fork \in Nat
      BY <1>3, <1>7, <2>3, BlockAt DEF Seen, Forked
    <3>2. c[n + 1].fork < reorgs' /\ n + 1 > Len(chain')
      BY <1>2, <1>3, <3>1
    <3>3. QED BY <2>1, <3>1, <3>2 DEF Seen, Dead
  <2>4. CASE Dead(c)
    BY <1>6, <2>1, <2>4 DEF Seen
  <2>5. QED BY <1>3, <1>7, <2>2, <2>3, <2>4 DEF Seen
<1>8. QED BY <1>5, <1>6, <1>7

-----------------------------------------------------------------------------
(* Every step keeps the invariant *)

\* The chain and the log service move on under a check, a result or a statement:
\* only what is said of the chain itself is at stake.
LEMMA ChainStep ==
  ASSUME IInv, UNCHANGED <<job, event, statement, verdict>>, TypeInv',
         \A c \in Seq(Block) : (Dead(c) => Dead(c)') /\ (Seen(c) => Seen(c)')
  PROVE  IInv'
<1>1. Checking => job.out.hash \in Seq(Block)
  BY DEF IInv, TypeInv, CheckJob, ContentRec
<1>2. event # NoEvent => event.content.hash \in Seq(Block)
  BY DEF IInv, TypeInv, EventRec, ContentRec
<1>3. SeenInv'
  <2>1. Checking => Seen(job.out.hash) /\ (Seen(job.out.hash))'
    BY <1>1 DEF IInv, SeenInv
  <2>2. event # NoEvent => Seen(event.content.hash) /\ (Seen(event.content.hash))'
    BY <1>2 DEF IInv, SeenInv
  <2>3. QED BY <2>1, <2>2 DEF SeenInv, Checking
<1>4. CheckInv' /\ EventInv' /\ StatementInv' /\ ChallengeIsFair'
  BY ZenonT(30) DEF IInv, CheckInv, HeadUnread, HeadFailed, HeadRead, LogsUnread, LogsRead, StateUnread, Checking, EventInv, StatementInv,
         ChallengeIsFair, Finding, Facts
<1>5. RecheckInv'
  <2>1. event # NoEvent /\ Dead(event.content.hash) => (Dead(event.content.hash))'
    BY <1>2
  <2>2. QED BY <2>1 DEF IInv, RecheckInv, Compare, Again, verify_event
<1>6. QED BY <1>3, <1>4, <1>5 DEF IInv

\* Mine, Reorg and Index, and a step of something else.
LEMMA EnvironmentInv ==
  ASSUME IInv, Mine \/ Reorg \/ Index \/ UNCHANGED vars
  PROVE  IInv'
<1>1. CASE Mine
  BY <1>1, MineSeen, ChainStep DEF IInv, Mine
<1>2. CASE Reorg
  BY <1>2, ReorgSeen, ChainStep DEF IInv, Reorg
<1>3. CASE Index
  <2>1. /\ index \in Seq(Block) /\ chain \in Seq(Block) /\ index # chain
        /\ Len(index) \in Nat /\ Len(chain) \in Nat
    BY <1>3, BlockAt DEF IInv, TypeInv, Index
  <2>2. ASSUME IsPrefix(index, chain) PROVE index' \in Seq(Block)
    <3>1. Len(index) <= Len(chain) /\ \A i \in 1..Len(index) : chain[i] = index[i]
      BY <2>1, <2>2, PrefixElements
    <3>2. Len(index) # Len(chain)
      BY <2>1, <3>1, SeqEqual
    <3>3. Len(index) + 1 \in 1..Len(chain)
      BY <2>1, <3>1, <3>2
    <3>4. SubSeq(chain, 1, Len(index) + 1) \in Seq(Block)
      BY <2>1, <3>3, SubSeqProperties
    <3>5. QED BY <1>3, <2>2, <3>4 DEF Index
  <2>3. index' \in Seq(Block)
    BY <1>3, <2>1, <2>2 DEF Index
  <2>4. TypeInv'
    BY <1>3, <2>3 DEF IInv, TypeInv, Index, Forked, Checking
  <2>5. \A c \in Seq(Block) : (Dead(c) => Dead(c)') /\ (Seen(c) => Seen(c)')
    BY <1>3 DEF Index, Dead, Seen, Forked
  <2>6. QED BY <1>3, <2>4, <2>5, ChainStep DEF Index
<1>4. CASE UNCHANGED vars
  <2>1. TypeInv'
    BY <1>4 DEF IInv, TypeInv, vars, Forked, Checking
  <2>2. \A c \in Seq(Block) : (Dead(c) => Dead(c)') /\ (Seen(c) => Seen(c)')
    BY <1>4 DEF vars, Dead, Seen, Forked
  <2>3. QED BY <1>4, <2>1, <2>2, ChainStep DEF vars
<1>5. QED BY <1>1, <1>2, <1>3, <1>4

\* The empty chain is a prefix of every chain.
LEMMA EmptySeen == ASSUME TypeInv PROVE <<>> \in Seq(Block) /\ Seen(<<>>)
<1>1. <<>> \in Seq(Block) /\ Len(<<>>) = 0
  OBVIOUS
<1>2. IsPrefix(<<>>, chain)
  <2>1. chain \in Seq(Block) /\ Len(chain) \in Nat
    BY BlockAt DEF TypeInv
  <2>2. IsPrefix(<<>>, chain) <=> Len(<<>>) <= Len(chain) /\ \A i \in 1..Len(<<>>) : chain[i] = <<>>[i]
    BY <1>1, <2>1, PrefixElements
  <2>3. QED BY <1>1, <2>1, <2>2
<1>3. QED BY <1>1, <1>2 DEF Seen, Forked

\* What holds of a check that has just begun, under either program: a receipt that
\* is rejected is reported as such, of no block.
LEMMA StartInv ==
  ASSUME IInv, NEW task \in {"check", "recheck"}, NEW h \in Held, NEW d \in BOOLEAN, NEW at \in Nat,
         Start(task, h, d, at), UNCHANGED <<chain, index, reorgs, event, statement, tampers, verdict>>
  PROVE  /\ TypeInv' /\ SeenInv' /\ CheckInv' /\ EventInv' /\ StatementInv' /\ ChallengeIsFair'
         /\ job'.task = task /\ job'.at = at /\ job'.out.disclosed = d /\ job'.out.number = 0
         /\ job'.pc \in {"head", "done"}
<1> DEFINE o == IF Accepted(h.receipt) THEN Content(h, d)
                ELSE [Content(h, d) EXCEPT !.result = "not_attempted", !.detail = "receipt_rejected"]
<1>1. /\ o \in ContentRec /\ o.receipt = h.receipt /\ o.disclosed = d /\ o.number = 0 /\ o.hash = <<>>
      /\ Accepted(h.receipt) => o.result = "none" /\ o.detail = ""
      /\ ~Accepted(h.receipt) => o.result = "not_attempted" /\ o.detail = "receipt_rejected"
  BY EmptySeen DEF IInv, Content, ContentRec, Word, Detail
<1>2. job' = [task |-> task, held |-> h, at |-> at, synced |-> TRUE, failed |-> FALSE, nonce |-> "none",
              pc |-> IF Accepted(h.receipt) THEN "head" ELSE "done", out |-> o]
  BY DEF Start, Accepted
<1> HIDE DEF o
<1>3. /\ job' \in CheckJob /\ job'.task = task /\ job'.at = at /\ job'.out = o /\ job'.held = h /\ job'.synced /\ ~job'.failed
      /\ job'.pc = IF Accepted(h.receipt) THEN "head" ELSE "done"
  BY <1>1, <1>2 DEF CheckJob
<1>4. TypeInv'
  BY <1>3 DEF IInv, TypeInv, Forked, Checking
<1>5. SeenInv'
  BY <1>1, <1>3, EmptySeen, ZenonT(30) DEF IInv, SeenInv, Seen, Forked, Dead
<1>6. CheckInv'
  <2>1. HeadUnread' /\ LogsUnread' /\ StateUnread'
    BY <1>1, <1>3 DEF HeadUnread, LogsUnread, StateUnread
  <2>2. HeadFailed'
    BY <1>1, <1>3 DEF HeadFailed
  <2>3. HeadRead' /\ LogsRead'
    <3>1. job'.out.number = 0
      BY <1>1, <1>3, Zenon
    <3>2. ~(0 > 0)
      OBVIOUS
    <3>3. QED BY <3>1, <3>2, Zenon DEF HeadRead, LogsRead
  <2>4. QED BY <1>1, <1>3, <2>1, <2>2, <2>3 DEF CheckInv
<1>7. EventInv' /\ StatementInv' /\ ChallengeIsFair'
  BY <1>3 DEF IInv, EventInv, StatementInv, ChallengeIsFair
<1>8. QED BY <1>1, <1>3, <1>4, <1>5, <1>6, <1>7

\* check_result begins.
LEMMA BeginCheckInv == ASSUME IInv, BeginCheck PROVE IInv'
<1>1. PICK h \in Held, d \in BOOLEAN : Start("check", h, d, 0)
  BY DEF BeginCheck, CheckOnly
<1>2. UNCHANGED <<chain, index, reorgs, event, statement, tampers, verdict>>
  BY DEF BeginCheck, CheckOnly
<1>3. QED BY <1>1, <1>2, StartInv DEF IInv, RecheckInv

\* verify_check_result begins to recheck an event whose signature is the checker's.
LEMMA BeginRecheckInv == ASSUME IInv, BeginRecheck PROVE IInv'
<1> DEFINE d == event.content.disclosed /\ event.content.nonce # "none"
           n == event.content.number
<1>1. PICK h \in Held : Start("recheck", h, d, n)
  BY DEF BeginRecheck, CheckOnly
<1>2. /\ UNCHANGED <<chain, index, reorgs, event, statement, tampers, verdict>>
      /\ event # NoEvent /\ verify_event(event) /\ n > 0
  BY DEF BeginRecheck, CheckOnly
<1>3. n \in Nat /\ d \in BOOLEAN
  BY <1>2 DEF IInv, TypeInv, EventRec, ContentRec
<1>4. /\ TypeInv' /\ SeenInv' /\ CheckInv' /\ EventInv' /\ StatementInv' /\ ChallengeIsFair'
      /\ job'.task = "recheck" /\ job'.at = n /\ job'.out.disclosed = d /\ job'.out.number = 0
      /\ job'.pc \in {"head", "done"}
  <2> HIDE DEF d, n
  <2> QED BY <1>1, <1>2, <1>3, StartInv
<1>5. RecheckInv'
  BY <1>2, <1>4 DEF RecheckInv, verify_event
<1>6. QED BY <1>4, <1>5 DEF IInv

\* A check goes on and nothing else moves: what is left to show is about the check.
LEMMA CheckStep ==
  ASSUME IInv, Checking, job' \in CheckJob, job'.task = job.task,
         UNCHANGED <<chain, index, reorgs, event, statement, tampers, verdict>>,
         Seen(job'.out.hash), CheckInv', RecheckInv'
  PROVE  IInv'
<1>1. job'.task \in {"check", "recheck"}
  BY DEF Checking
<1>2. TypeInv'
  BY <1>1 DEF IInv, TypeInv, Forked, Checking
<1>3. SeenInv'
  BY <1>1 DEF IInv, SeenInv, Seen, Forked, Dead
<1>4. EventInv' /\ StatementInv' /\ ChallengeIsFair'
  BY <1>1 DEF IInv, EventInv, StatementInv, ChallengeIsFair
<1>5. QED BY <1>2, <1>3, <1>4 DEF IInv

\* A read that fails ends the check as incomplete; the block, if one was read, stays.
LEMMA IncompleteIs ==
  ASSUME job \in CheckJob, NEW d \in Detail
  PROVE  LET j == Incomplete(d)
         IN  /\ j \in CheckJob /\ j.task = job.task /\ j.held = job.held /\ j.at = job.at /\ j.synced = job.synced
             /\ j.failed = TRUE /\ j.pc = "done"
             /\ j.out = [job.out EXCEPT !.result = "incomplete", !.detail = d]
             /\ j.out.number = job.out.number /\ j.out.hash = job.out.hash /\ j.out.result = "incomplete"
             /\ j.out.detail = d /\ j.out.receipt = job.out.receipt /\ j.out.disclosed = job.out.disclosed
             /\ j.out.count = job.out.count /\ j.out.nonce = job.out.nonce /\ j.out.tx = job.out.tx
<1> DEFINE o == [job.out EXCEPT !.result = "incomplete", !.detail = d]
<1>1. job.out \in ContentRec
  BY DEF CheckJob
<1>2. Incomplete(d) = [job EXCEPT !.pc = "done", !.failed = TRUE, !.out = o]
  BY <1>1 DEF Incomplete, CheckJob
<1>3. /\ o \in ContentRec
      /\ o.number = job.out.number /\ o.hash = job.out.hash /\ o.result = "incomplete"
      /\ o.detail = d /\ o.receipt = job.out.receipt /\ o.disclosed = job.out.disclosed
      /\ o.count = job.out.count /\ o.nonce = job.out.nonce /\ o.tx = job.out.tx
  BY <1>1 DEF ContentRec, Word
<1> HIDE DEF o
<1>4. /\ Incomplete(d) \in CheckJob /\ Incomplete(d).task = job.task /\ Incomplete(d).held = job.held
      /\ Incomplete(d).at = job.at /\ Incomplete(d).synced = job.synced
      /\ Incomplete(d).failed = TRUE /\ Incomplete(d).pc = "done" /\ Incomplete(d).out = o
  BY <1>2, <1>3 DEF CheckJob
<1>5. QED BY <1>3, <1>4 DEF o

\* The head is read, or its read fails. In a recheck the block of that number is
\* the one the event names, or that one is gone for good.
LEMMA ReadHeadInv == ASSUME IInv, ReadHead PROVE IInv'
<1> DEFINE n == IF job.at > 0 THEN job.at ELSE Len(chain)
<1>1. /\ Checking /\ job.pc = "head" /\ job \in CheckJob /\ job.out \in ContentRec
      /\ UNCHANGED <<chain, index, reorgs, event, statement, tampers, verdict>>
  BY DEF ReadHead, CheckOnly, IInv, TypeInv, Checking, CheckJob
<1>2. /\ job.out.receipt = job.held.receipt /\ Accepted(job.held.receipt) /\ job.out.number = 0
      /\ job.out.result = "none" /\ job.out.detail = "" /\ job.synced /\ ~job.failed
  BY <1>1 DEF IInv, CheckInv, HeadUnread
<1>3. ASSUME n \in 1..Len(chain), job' = [job EXCEPT !.pc = "logs", !.out.number = n, !.out.hash = Hash(n)]
      PROVE  IInv'
  <2>1. n \in Nat /\ n > 0 /\ n <= Len(chain) /\ chain \in Seq(Block)
    BY <1>3, BlockAt DEF IInv, TypeInv
  <2>2. Hash(n) \in Seq(Block) /\ Len(Hash(n)) = n /\ IsPrefix(Hash(n), chain) /\ Forked(Hash(n))
    <3> HIDE DEF n
    <3> QED BY <2>1, HashType DEF IInv
  <2> HIDE DEF n
  <2>3. /\ job' \in CheckJob /\ job'.task = job.task /\ job'.held = job.held /\ job'.at = job.at
        /\ job'.synced = job.synced /\ job'.failed = job.failed /\ job'.pc = "logs"
        /\ job'.out.number = n /\ job'.out.hash = Hash(n) /\ job'.out.result = job.out.result
        /\ job'.out.detail = job.out.detail /\ job'.out.receipt = job.out.receipt
        /\ job'.out.disclosed = job.out.disclosed
    BY <1>1, <1>3, <2>1, <2>2 DEF CheckJob, ContentRec
  <2>4. CheckInv'
    <3>1. HeadUnread' /\ LogsRead' /\ StateUnread'
      BY <2>3 DEF HeadUnread, LogsRead, StateUnread
    <3>2. HeadFailed' /\ HeadRead'
      <4>1. Accepted(job'.held.receipt)
        BY <1>2, <2>3, Zenon
      <4>2. job'.out.number # 0 /\ job'.out.number = Len(job'.out.hash)
        BY <2>1, <2>2, <2>3
      <4>3. QED BY <4>1, <4>2, Zenon DEF HeadFailed, HeadRead
    <3>3. LogsUnread'
      BY <1>2, <2>1, <2>3 DEF LogsUnread
    <3>4. QED BY <1>2, <2>3, <3>1, <3>2, <3>3 DEF CheckInv
  <2>5. RecheckInv'
    <3> SUFFICES ASSUME job.task = "recheck" PROVE RecheckInv'
      BY <2>3 DEF RecheckInv
    <3>1. /\ event # NoEvent /\ verify_event(event) /\ job.at = event.content.number /\ job.at > 0
          /\ job.out.disclosed = (event.content.disclosed /\ event.content.nonce # "none")
      BY DEF IInv, RecheckInv
    <3>2. n = event.content.number /\ event.content.number = Len(event.content.hash)
      BY <2>1, <3>1 DEF n, IInv, EventInv
    <3>3. event.content.hash \in Seq(Block) /\ Seen(event.content.hash)
      BY <3>1 DEF IInv, SeenInv, TypeInv, EventRec, ContentRec
    <3>4. Hash(n) = event.content.hash \/ Dead(event.content.hash)
      BY <3>2, <3>3 DEF Seen, IsPrefix, Hash
    <3>5. verify_event(event)' /\ (Dead(event.content.hash) => (Dead(event.content.hash))')
      BY <1>1, <3>1 DEF verify_event, Dead
    <3>6. QED BY <1>1, <2>3, <3>1, <3>2, <3>4, <3>5 DEF RecheckInv
  <2>6. Seen(job'.out.hash)
    BY <2>2, <2>3 DEF Seen
  <2>7. QED BY <1>1, <2>3, <2>4, <2>5, <2>6, CheckStep
<1>4. ASSUME job' = Incomplete("chain_head_unobtainable")
      PROVE  IInv'
  <2>0. "chain_head_unobtainable" \in Detail
    BY DEF Detail
  <2>1. /\ job' \in CheckJob /\ job'.task = job.task /\ job'.held = job.held /\ job'.at = job.at
        /\ job'.failed = TRUE /\ job'.pc = "done"
        /\ job'.out.number = 0 /\ job'.out.hash = job.out.hash /\ job'.out.result = "incomplete"
        /\ job'.out.detail = "chain_head_unobtainable" /\ job'.out.receipt = job.out.receipt
        /\ job'.out.disclosed = job.out.disclosed
    BY <1>1, <1>2, <1>4, <2>0, IncompleteIs, Zenon
  <2>2. CheckInv'
    <3>1. ~(0 > 0)
      OBVIOUS
    <3>2. (HeadRead /\ LogsRead)'
      BY <2>1, <3>1, Zenon DEF HeadRead, LogsRead
    <3>3. (HeadUnread /\ LogsUnread /\ StateUnread)'
      BY <2>1 DEF HeadUnread, LogsUnread, StateUnread
    <3>4. HeadFailed'
      BY <2>1 DEF HeadFailed
    <3>5. QED BY <1>2, <2>1, <3>2, <3>3, <3>4 DEF CheckInv
  <2>3. RecheckInv'
    BY <1>1, <2>1 DEF IInv, RecheckInv, verify_event
  <2>4. Seen(job'.out.hash)
    BY <1>1, <2>1 DEF IInv, SeenInv
  <2>5. QED BY <1>1, <2>1, <2>2, <2>3, <2>4, CheckStep
<1>5. QED BY <1>3, <1>4 DEF ReadHead, CheckOnly

\* What the record of a check is after its logs were read.
LEMMA LinkedIs ==
  ASSUME job \in CheckJob, NEW ok \in BOOLEAN, NEW S \in SUBSET Payments, ~job.failed, TypeInv
  PROVE  LET j == Linked(Cands(ok, S))
             lk == LinkOf(job.held, Cands(ok, S))
         IN  /\ j \in CheckJob /\ j.task = job.task /\ j.held = job.held /\ j.at = job.at
             /\ j.synced = Synced(job.out.hash) /\ j.failed = ~ok
             /\ j.pc = IF lk.result \in {"linked", "inconsistent"} THEN "state" ELSE "done"
             /\ j.out.number = job.out.number /\ j.out.hash = job.out.hash /\ j.out.receipt = job.out.receipt
             /\ j.out.disclosed = job.out.disclosed /\ j.out.result = lk.result
             /\ ReadOf(job.held, j.out, ok, S)
<1> DEFINE c == Cands(ok, S)
           lk == LinkOf(job.held, c)
           show == Shown(job.out.disclosed, lk)
           o == [job.out EXCEPT !.count = IF ok THEN 1 + Cardinality(S) ELSE 0,
                                !.result = lk.result, !.detail = lk.detail,
                                !.nonce = IF show THEN lk.nonce ELSE "none",
                                !.tx = IF show THEN lk.transaction ELSE "none"]
<1>1. job.out \in ContentRec /\ c.obtained = ok /\ c.set = S
  BY DEF CheckJob, Cands
<1>2. /\ lk.result \in Word \ {"none"} /\ lk.detail \in Detail
      /\ lk.nonce \in {"none"} \union {p.nonce : p \in Payments}
      /\ lk.transaction \in {"none"} \union {p.tx : p \in Payments}
  <2>1. lk.result \in Word \ {"none"} /\ lk.detail \in Detail
    BY LinkWord DEF LinkOf
  <2>2. CASE lk.result \in {"linked", "inconsistent"}
    <3> DEFINE m == Match(job.held.receipt.payload, job.held.salt, job.held.asset, c)
    <3>1. m \in c.set /\ lk.nonce = m.nonce /\ lk.transaction = m.tx
      <4> DEFINE p == job.held.receipt.payload
                 salt == job.held.salt
                 asset == job.held.asset
      <4>1. lk = link(p, salt, asset, c) /\ m = Match(p, salt, asset, c)
        BY DEF LinkOf
      <4> HIDE DEF c, lk, m, p, salt, asset
      <4>2. link(p, salt, asset, c).result \in {"linked", "inconsistent"}
        BY <2>2, <4>1
      <4>3. QED BY <4>1, <4>2, LinkOpened
    <3>2. m \in Payments
      BY <1>1, <3>1
    <3> HIDE DEF lk, m
    <3>3. QED BY <2>1, <3>1, <3>2
  <2>3. CASE lk.result \notin {"linked", "inconsistent"}
    BY <2>1, <2>3, LinkNothing DEF LinkOf
  <2>4. QED BY <2>2, <2>3
<1>3. Synced(job.out.hash) \in BOOLEAN
  BY DEF Synced, IsPrefix
<1>4. /\ o \in ContentRec /\ o.number = job.out.number /\ o.hash = job.out.hash /\ o.receipt = job.out.receipt
      /\ o.disclosed = job.out.disclosed /\ o.result = lk.result /\ o.detail = lk.detail
      /\ o.count = (IF ok THEN 1 + Cardinality(S) ELSE 0)
      /\ o.nonce = (IF show THEN lk.nonce ELSE "none")
      /\ o.tx = (IF show THEN lk.transaction ELSE "none")
  <2> HIDE DEF lk, show
  <2> QED BY <1>1, <1>2, ZenonT(30) DEF ContentRec
<1>5. Linked(c) = [job EXCEPT !.nonce = lk.nonce,
                              !.pc = IF lk.result \in {"linked", "inconsistent"} THEN "state" ELSE "done",
                              !.failed = ~ok, !.synced = Synced(job.out.hash), !.out = o]
  <2>1. (job.failed \/ ~c.obtained) = ~ok
    BY <1>1 DEF CheckJob
  <2> DEFINE n == lk.nonce
             q == IF lk.result \in {"linked", "inconsistent"} THEN "state" ELSE "done"
             f == job.failed \/ ~c.obtained
             y == Synced(job.out.hash)
             k == IF c.obtained THEN 1 + Cardinality(c.set) ELSE 0
             v == IF show THEN lk.nonce ELSE "none"
             t == IF show THEN lk.transaction ELSE "none"
  <2>2. Linked(c) = [job EXCEPT !.nonce = n, !.pc = q, !.failed = f, !.synced = y, !.out.count = k,
                                !.out.result = lk.result, !.out.detail = lk.detail, !.out.nonce = v, !.out.tx = t]
    BY Zenon DEF Linked, LinkOf, Shown
  <2>3. k = IF ok THEN 1 + Cardinality(S) ELSE 0
    BY <1>1
  <2>4. o = [job.out EXCEPT !.count = k, !.result = lk.result, !.detail = lk.detail, !.nonce = v, !.tx = t]
    BY <2>3
  <2> HIDE DEF lk, show, c, n, q, f, y, k, v, t, o
  <2>5. Linked(c) = [job EXCEPT !.nonce = n, !.pc = q, !.failed = f, !.synced = y, !.out = o]
    BY <1>1, <2>2, <2>4 DEF CheckJob, ContentRec
  <2>6. QED BY <2>1, <2>5 DEF n, q, f, y
<1>6. ReadOf(job.held, o, ok, S)
  <2> HIDE DEF o
  <2> QED BY <1>4 DEF ReadOf
<1> HIDE DEF lk, show, o
<1>7. /\ Linked(c) \in CheckJob /\ Linked(c).task = job.task /\ Linked(c).held = job.held /\ Linked(c).at = job.at
      /\ Linked(c).synced = Synced(job.out.hash) /\ Linked(c).failed = ~ok /\ Linked(c).out = o
      /\ Linked(c).pc = IF lk.result \in {"linked", "inconsistent"} THEN "state" ELSE "done"
  BY <1>2, <1>3, <1>4, <1>5 DEF CheckJob
<1>8. QED BY <1>4, <1>6, <1>7 DEF lk

\* A recheck stays one of the same event at the same block while its reads go on.
LEMMA RecheckGoesOn ==
  ASSUME IInv, UNCHANGED <<chain, index, reorgs, event, statement, tampers, verdict>>,
         job'.task = job.task, job'.at = job.at, job'.pc # "said",
         job'.out.number = job.out.number, job'.out.hash = job.out.hash, job'.out.disclosed = job.out.disclosed
  PROVE  RecheckInv'
<1> SUFFICES ASSUME job.task = "recheck" PROVE RecheckInv'
  BY DEF RecheckInv
<1>1. /\ event # NoEvent /\ verify_event(event)
      /\ job.at = event.content.number /\ job.at > 0
      /\ job.out.disclosed = (event.content.disclosed /\ event.content.nonce # "none")
      /\ job.out.number > 0 => /\ job.out.number = job.at
                               /\ job.out.hash = event.content.hash \/ Dead(event.content.hash)
  BY DEF IInv, RecheckInv
<1>2. verify_event(event)' /\ (Dead(event.content.hash) => (Dead(event.content.hash))')
  BY <1>1 DEF verify_event, Dead
<1>3. QED BY <1>1, <1>2 DEF RecheckInv

\* The logs are read, from a service that has the chain of the block, or part of
\* it, or another one; or the read fails.
LEMMA ReadLogsInv == ASSUME IInv, ReadLogs PROVE IInv'
<1>1. /\ Checking /\ job.pc = "logs" /\ job \in CheckJob /\ job.out \in ContentRec
      /\ UNCHANGED <<chain, index, reorgs, event, statement, tampers, verdict>>
  BY DEF ReadLogs, CheckOnly, IInv, TypeInv, Checking, CheckJob
<1>2. /\ job.out.receipt = job.held.receipt /\ job.out.number > 0 /\ ~job.failed
      /\ Accepted(job.held.receipt) /\ job.out.number = Len(job.out.hash) /\ job.out.hash \in Seq(Block)
  BY <1>1 DEF IInv, CheckInv, LogsUnread, HeadRead, ContentRec
<1>3. PICK ok \in BOOLEAN :
        job' = Linked([obtained |-> ok, set |-> IF ok THEN candidates_to(job.out.number) ELSE {}])
  BY DEF ReadLogs, CheckOnly
<1>4. PICK S : S = IF ok THEN candidates_to(job.out.number) ELSE {}
  OBVIOUS
<1>5. S \in SUBSET Payments /\ ((ok /\ Synced(job.out.hash)) => S = Settled(job.out.hash))
  <2>1. index \in Seq(Block) /\ job.out.number \in Nat
    BY <1>1 DEF IInv, TypeInv, ContentRec
  <2>2. Upto(index, job.out.number) \in Seq(Block)
    BY <2>1, UptoType
  <2>3. candidates_to(job.out.number) \in SUBSET Payments
    BY <2>2, SettledType DEF candidates_to
  <2>4. Synced(job.out.hash) => Upto(index, job.out.number) = job.out.hash
    BY <1>2, <2>1, UptoPrefix DEF Synced
  <2>5. QED BY <1>4, <2>3, <2>4 DEF candidates_to
<1>6. PICK lk : lk = LinkOf(job.held, Cands(ok, S))
  OBVIOUS
<1>7. /\ job' \in CheckJob /\ job'.task = job.task /\ job'.held = job.held /\ job'.at = job.at
      /\ job'.synced = Synced(job.out.hash) /\ job'.failed = ~ok
      /\ job'.pc = IF lk.result \in {"linked", "inconsistent"} THEN "state" ELSE "done"
      /\ job'.out.number = job.out.number /\ job'.out.hash = job.out.hash /\ job'.out.receipt = job.out.receipt
      /\ job'.out.disclosed = job.out.disclosed /\ job'.out.result = lk.result
      /\ ReadOf(job.held, job'.out, ok, S)
  <2>1. job' = Linked(Cands(ok, S))
    BY <1>3, <1>4 DEF Cands
  <2>2. TypeInv
    BY DEF IInv
  <2>3. QED BY <1>1, <1>2, <1>5, <1>6, <2>1, <2>2, LinkedIs
<1>8. job'.pc \in {"state", "done"}
  BY <1>7
<1>9. LogsRead'
  <2>1. ReadOf(job'.held, job'.out, ~job'.failed, S)
    BY <1>7
  <2>2. (job'.synced /\ ~job'.failed) => S = Settled(job'.out.hash)
    BY <1>5, <1>7
  <2>3. QED BY <1>5, <2>1, <2>2 DEF LogsRead
<1>10. CheckInv'
  <2>1. (HeadUnread /\ LogsUnread /\ StateUnread)'
    BY <1>7, <1>8 DEF HeadUnread, LogsUnread, StateUnread
  <2>2. job'.out.number # 0
    BY <1>2, <1>7
  <2>3. HeadFailed' /\ HeadRead'
    BY <1>2, <1>7, <2>2, Zenon DEF HeadFailed, HeadRead
  <2>4. QED BY <1>2, <1>7, <1>9, <2>1, <2>3, Zenon DEF CheckInv
<1>11. RecheckInv'
  BY <1>1, <1>7, <1>8, RecheckGoesOn
<1>12. Seen(job'.out.hash)
  BY <1>1, <1>7 DEF IInv, SeenInv
<1>13. QED BY <1>1, <1>7, <1>10, <1>11, <1>12, CheckStep

\* The state is read: the result stands, or the check ends without that state.
LEMMA ReadStateInv == ASSUME IInv, ReadState PROVE IInv'
<1>1. /\ Checking /\ job.pc = "state" /\ job \in CheckJob /\ job.out \in ContentRec
      /\ UNCHANGED <<chain, index, reorgs, event, statement, tampers, verdict>>
  BY DEF ReadState, CheckOnly, IInv, TypeInv, Checking, CheckJob
<1>2. /\ job.out.receipt = job.held.receipt /\ job.out.number # 0 /\ job.out.number > 0
      /\ job.out.result \in {"linked", "inconsistent"}
      /\ Accepted(job.held.receipt) /\ job.out.number = Len(job.out.hash)
  <2>1. job.out.number # 0 /\ job.out.number \in Nat
    BY <1>1 DEF IInv, CheckInv, HeadFailed, ContentRec
  <2>2. job.out.number > 0
    BY <2>1
  <2>3. QED BY <1>1, <2>1, <2>2 DEF IInv, CheckInv, HeadRead, StateUnread
<1>3. PICK S \in SUBSET Payments :
        /\ ReadOf(job.held, job.out, ~job.failed, S)
        /\ (job.synced /\ ~job.failed) => S = Settled(job.out.hash)
  BY <1>1, <1>2 DEF IInv, CheckInv, LogsRead
<1>4. PICK lk : lk = LinkOf(job.held, Cands(~job.failed, S))
  OBVIOUS
<1>5. /\ lk.result \in {"linked", "inconsistent"}
      /\ job.out.count = IF ~job.failed THEN 1 + Cardinality(S) ELSE 0
      /\ job.out.nonce = IF Shown(job.out.disclosed, lk) THEN lk.nonce ELSE "none"
      /\ job.out.tx = IF Shown(job.out.disclosed, lk) THEN lk.transaction ELSE "none"
  BY <1>2, <1>3, <1>4 DEF ReadOf
<1>6. /\ job' \in CheckJob /\ job'.task = job.task /\ job'.held = job.held /\ job'.at = job.at
      /\ job'.synced = job.synced /\ job'.failed = job.failed /\ job'.pc = "done"
      /\ job'.out.number = job.out.number /\ job'.out.hash = job.out.hash /\ job'.out.receipt = job.out.receipt
      /\ job'.out.disclosed = job.out.disclosed /\ job'.out.count = job.out.count
      /\ job'.out.nonce = job.out.nonce /\ job'.out.tx = job.out.tx
      /\ job'.out = job.out \/ (job'.out.result = "incomplete" /\ job'.out.detail = "state_unobtainable")
  <2>1. CASE job' = [job EXCEPT !.pc = "done"]
    BY <1>1, <2>1 DEF CheckJob
  <2>2. CASE job' = [Incomplete("state_unobtainable") EXCEPT !.failed = job.failed]
    <3>1. "state_unobtainable" \in Detail
      BY DEF Detail
    <3>2. PICK j : j = Incomplete("state_unobtainable")
      OBVIOUS
    <3>3. /\ j \in CheckJob /\ j.task = job.task /\ j.held = job.held /\ j.at = job.at /\ j.synced = job.synced
          /\ j.pc = "done"
          /\ j.out.number = job.out.number /\ j.out.hash = job.out.hash /\ j.out.result = "incomplete"
          /\ j.out.detail = "state_unobtainable" /\ j.out.receipt = job.out.receipt
          /\ j.out.disclosed = job.out.disclosed
          /\ j.out.count = job.out.count /\ j.out.nonce = job.out.nonce /\ j.out.tx = job.out.tx
      BY <1>1, <3>1, <3>2, IncompleteIs, Zenon
    <3>4. job' = [j EXCEPT !.failed = job.failed]
      BY <2>2, <3>2
    <3>5. /\ job' \in CheckJob /\ job'.task = j.task /\ job'.held = j.held /\ job'.at = j.at /\ job'.synced = j.synced
          /\ job'.pc = j.pc /\ job'.out = j.out /\ job'.failed = job.failed
      BY <1>1, <3>3, <3>4 DEF CheckJob
    <3>6. QED BY <3>3, <3>5
  <2>3. QED BY <2>1, <2>2 DEF ReadState, CheckOnly
<1>7. ReadOf(job'.held, job'.out, ~job'.failed, S)
  <2>1. CASE job'.out = job.out
    BY <1>3, <1>6, <2>1
  <2>2. CASE job'.out.result = "incomplete" /\ job'.out.detail = "state_unobtainable"
    BY <1>4, <1>5, <1>6, <2>2 DEF ReadOf
  <2>3. QED BY <1>6, <2>1, <2>2
<1>8. LogsRead'
  BY <1>3, <1>6, <1>7 DEF LogsRead
<1>9. CheckInv'
  <2>1. (HeadUnread /\ LogsUnread /\ StateUnread)'
    BY <1>6 DEF HeadUnread, LogsUnread, StateUnread
  <2>2. HeadFailed' /\ HeadRead'
    BY <1>2, <1>6, Zenon DEF HeadFailed, HeadRead
  <2>3. QED BY <1>2, <1>6, <1>8, <2>1, <2>2, Zenon DEF CheckInv
<1>10. RecheckInv'
  BY <1>1, <1>6, RecheckGoesOn
<1>11. Seen(job'.out.hash)
  BY <1>1, <1>6 DEF IInv, SeenInv
<1>12. QED BY <1>1, <1>6, <1>9, <1>10, <1>11, CheckStep

\* The result is signed and published: a linked has a payment behind it, and a
\* sound result is what the whole chain it names gave.
LEMMA PublishInv == ASSUME IInv, Publish PROVE IInv'
<1>1. /\ Checking /\ job.pc = "done" /\ job \in CheckJob /\ job.out \in ContentRec /\ job.held \in Held
      /\ UNCHANGED <<chain, index, reorgs, statement, tampers, verdict>>
      /\ job' = Idle /\ job'.task = "idle"
  BY DEF Publish, IInv, TypeInv, Checking, CheckJob, Idle
<1>2. event' = [pubkey |-> Issuer, id |-> <<Issuer, job.out>>, sig |-> [by |-> Issuer, over |-> <<Issuer, job.out>>],
                content |-> job.out, sound |-> job.synced /\ ~job.failed]
  BY DEF Publish, Signature
<1>3. (job.synced /\ ~job.failed) \in BOOLEAN
  OBVIOUS
<1>4. /\ event' \in EventRec /\ event'.content = job.out /\ event'.sig.over[2] = job.out
      /\ event'.sound = (job.synced /\ ~job.failed) /\ event' # NoEvent
  <2>1. Issuer \in Signer /\ Issuer # "none"
    BY DEF Signer, Issuer
  <2>2. event'.pubkey = Issuer /\ NoEvent.pubkey = "none"
    BY <1>2 DEF NoEvent
  <2>3. QED BY <1>1, <1>2, <1>3, <2>1, <2>2 DEF EventRec
<1>5. TypeInv'
  BY <1>1, <1>4 DEF IInv, TypeInv, Forked, Checking
<1>6. SeenInv'
  BY <1>1, <1>4 DEF IInv, SeenInv, Checking, Seen, Forked, Dead
<1>7. job.out.receipt = job.held.receipt /\ HeadFailed /\ HeadRead /\ LogsRead
  BY <1>1 DEF IInv, CheckInv
<1>8. Backed(job.out)
  <2> SUFFICES ASSUME job.out.result = "linked" PROVE Backed(job.out)
    BY DEF Backed
  <2>1. job.out.number # 0 /\ job.out.number \in Nat
    BY <1>1, <1>7 DEF HeadFailed, ContentRec
  <2>2. job.out.number > 0
    BY <2>1
  <2>3. PICK S \in SUBSET Payments : ReadOf(job.held, job.out, ~job.failed, S)
    BY <1>1, <1>7, <2>2 DEF LogsRead
  <2>4. PICK p, salt, asset, c : p = job.held.receipt.payload /\ salt = job.held.salt /\ asset = job.held.asset
                                  /\ c = Cands(~job.failed, S)
    OBVIOUS
  <2>5. link(p, salt, asset, c).result = "linked" /\ c.set = S
    BY <2>3, <2>4 DEF ReadOf, LinkOf, Cands
  <2>6. PICK m : m = Match(p, salt, asset, c)
    OBVIOUS
  <2>7. /\ m \in S /\ NotAnother(p, m)
        /\ Commitment(p.authorizationMethod, asset, p.payer, m.nonce, salt) = p.authorizationCommitment
    BY <2>5, <2>6, LinkOpened
  <2>8. QED BY <1>1, <1>7, <2>4, <2>7 DEF Backed
<1>9. job.out.number > 0 => job.out.number = Len(job.out.hash) /\ Accepted(job.out.receipt)
  BY <1>7 DEF HeadRead
<1>10. ASSUME job.synced /\ ~job.failed, job.out.number > 0 PROVE SoundRead(job.out)
  <2>1. PICK S \in SUBSET Payments : /\ ReadOf(job.held, job.out, ~job.failed, S)
                                     /\ (job.synced /\ ~job.failed) => S = Settled(job.out.hash)
    BY <1>1, <1>7, <1>10 DEF LogsRead
  <2>2. (~job.failed) = TRUE /\ S = Settled(job.out.hash)
    BY <1>10, <2>1, Zenon
  <2>3. ReadOf(job.held, job.out, TRUE, Settled(job.out.hash))
    BY <2>1, <2>2
  <2>4. QED BY <1>1, <1>7, <1>9, <1>10, <2>3 DEF SoundRead
<1>11. EventInv'
  <2>1. (Backed(event.sig.over[2]))'
    BY <1>4, <1>8 DEF Backed
  <2>2. event'.content.number > 0 => event'.content.number = Len(event'.content.hash)
    BY <1>4, <1>9
  <2>3. (event'.sound /\ event'.content.number > 0) => SoundRead(event'.content)
    BY <1>4, <1>10, Zenon
  <2>4. QED BY <2>1, <2>2, <2>3 DEF EventInv, SoundRead
<1>12. CheckInv' /\ RecheckInv' /\ StatementInv' /\ ChallengeIsFair'
  BY <1>1 DEF CheckInv, Checking, RecheckInv, StatementInv, ChallengeIsFair
<1>13. QED BY <1>5, <1>6, <1>11, <1>12 DEF IInv

\* An altered content keeps the block it names; it is either under the checker's
\* old signature or under another's.
LEMMA TamperInv == ASSUME IInv, Tamper PROVE IInv'
<1>1. PICK r \in {"linked", "no_match"}, key \in {Issuer, "stranger"}, id \in BOOLEAN :
        LET c == [event.content EXCEPT !.result = r]
            e == IF id THEN <<key, c>> ELSE event.id
        IN  event' = [event EXCEPT !.content = c, !.pubkey = key, !.id = e, !.sound = FALSE,
                                   !.sig = IF key = "stranger" THEN Signature(key, e) ELSE event.sig]
  BY DEF Tamper
<1>2. /\ event \in EventRec /\ event # NoEvent /\ job = Idle /\ job.task = "idle"
      /\ UNCHANGED <<chain, index, reorgs, job, statement, verdict>>
  BY DEF Tamper, IInv, TypeInv, Idle
<1>3. PICK c, e, g : /\ c = [event.content EXCEPT !.result = r]
                     /\ e = IF id THEN <<key, c>> ELSE event.id
                     /\ g = IF key = "stranger" THEN Signature(key, e) ELSE event.sig
  OBVIOUS
<1>4. c \in ContentRec /\ c.number = event.content.number /\ c.hash = event.content.hash
  BY <1>2, <1>3 DEF EventRec, ContentRec, Word
<1>5. e \in Signer \X ContentRec
  BY <1>2, <1>3, <1>4 DEF EventRec, Signer
<1>6. g \in [by : Signer, over : Signer \X ContentRec] /\ (g.by = Issuer => g = event.sig)
  BY <1>2, <1>3, <1>5 DEF EventRec, Signer, Signature, Issuer
<1>7. event' = [event EXCEPT !.content = c, !.pubkey = key, !.id = e, !.sound = FALSE, !.sig = g]
  BY <1>1, <1>3
<1>8. event' \in EventRec /\ event'.content = c /\ event'.sig = g /\ event'.sound = FALSE
  BY <1>2, <1>4, <1>5, <1>6, <1>7 DEF EventRec, Signer
<1>9. TypeInv'
  BY <1>2, <1>8 DEF IInv, TypeInv, Forked, Checking
<1>10. SeenInv'
  BY <1>2, <1>4, <1>8 DEF IInv, SeenInv, Checking, Seen, Forked, Dead
<1>11. EventInv'
  <2>1. g.by = Issuer => Backed(g.over[2])
    BY <1>2, <1>6 DEF IInv, EventInv
  <2>2. event'.content.number > 0 => event'.content.number = Len(event'.content.hash)
    BY <1>2, <1>4, <1>8 DEF IInv, EventInv
  <2>3. event'.sig.by = Issuer => Backed(event'.sig.over[2])
    BY <1>8, <2>1
  <2>4. ~event'.sound
    BY <1>8
  <2>5. QED BY <2>2, <2>3, <2>4 DEF EventInv, Backed
<1>12. CheckInv' /\ RecheckInv' /\ StatementInv' /\ ChallengeIsFair'
  BY <1>2 DEF CheckInv, Checking, RecheckInv, StatementInv, ChallengeIsFair
<1>13. QED BY <1>9, <1>10, <1>11, <1>12 DEF IInv

\* A program ends, or check_live runs, which publishes nothing.
LEMMA QuietStep ==
  ASSUME IInv, UNCHANGED <<chain, index, reorgs, event>>,
         job' = Idle \/ (job'.task = "live" /\ DOMAIN job' = {"task", "held", "pc", "nonce"})
  PROVE  IInv'
<1>1. /\ job'.task \in {"idle", "live"}
      /\ job'.task = "live" => DOMAIN job' = {"task", "held", "pc", "nonce"}
  BY DEF Idle
<1>2. TypeInv'
  BY <1>1 DEF IInv, TypeInv, Forked, Checking
<1>3. SeenInv' /\ EventInv'
  BY <1>1 DEF IInv, SeenInv, EventInv, Checking, Seen, Forked, Dead
<1>4. CheckInv' /\ RecheckInv' /\ StatementInv' /\ ChallengeIsFair'
  BY <1>1 DEF CheckInv, Checking, RecheckInv, StatementInv, ChallengeIsFair
<1>5. QED BY <1>2, <1>3, <1>4 DEF IInv

\* The steps of verify_check_result without a recheck, of its end and of check_live.
LEMMA QuietInv ==
  ASSUME IInv, Verify \/ EndRecheck \/ BeginLive \/ ReadLiveLogs \/ ReadLiveState
  PROVE  IInv'
<1>1. CASE Verify
  BY <1>1, QuietStep DEF Verify
<1>2. CASE EndRecheck
  BY <1>2, QuietStep DEF EndRecheck
<1>3. CASE BeginLive
  <2>1. PICK h \in Held : job' = [task |-> "live", held |-> h, pc |-> "logs", nonce |-> "none"]
    BY <1>3 DEF BeginLive, CheckOnly
  <2>2. job'.task = "live" /\ DOMAIN job' = {"task", "held", "pc", "nonce"}
    BY <2>1
  <2>3. QED BY <1>3, <2>2, QuietStep DEF BeginLive, CheckOnly
<1>4. CASE ReadLiveLogs
  <2>1. job.task = "live" /\ DOMAIN job = {"task", "held", "pc", "nonce"}
    BY <1>4 DEF ReadLiveLogs, IInv, TypeInv
  <2>2. ASSUME NEW code, Exit(code) PROVE IInv'
    BY <2>2, QuietStep DEF Exit
  <2>3. ASSUME NEW n, job' = [job EXCEPT !.pc = "state", !.nonce = n], UNCHANGED <<chain, index, reorgs, event>>
        PROVE  IInv'
    <3>1. job'.task = "live" /\ DOMAIN job' = {"task", "held", "pc", "nonce"}
      BY <2>1, <2>3
    <3>2. QED BY <2>3, <3>1, QuietStep
  <2>4. QED BY <1>4, <2>2, <2>3 DEF ReadLiveLogs, CheckOnly
<1>5. CASE ReadLiveState
  <2>1. ASSUME NEW code, Exit(code) PROVE IInv'
    BY <2>1, QuietStep DEF Exit
  <2>2. QED BY <1>5, <2>1 DEF ReadLiveState
<1>6. QED BY <1>1, <1>2, <1>3, <1>4, <1>5

\* A recheck says what the comparison gives, or raises.
LEMMA ConcludeInv ==
  ASSUME IInv, job.task = "recheck", job.pc = "done", NEW v, Conclude(v),
         v = "raises" \/ v = Compare(IF job.out.detail = "state_unobtainable" THEN Again(job.out) ELSE job.out)
  PROVE  IInv'
<1>1. /\ Checking /\ job \in CheckJob
      /\ UNCHANGED <<chain, index, reorgs, event, statement, tampers>> /\ verdict' = v
  BY DEF Conclude, IInv, TypeInv, Checking
<1>2. /\ job' \in CheckJob /\ job'.task = "recheck" /\ job'.held = job.held /\ job'.at = job.at
      /\ job'.synced = job.synced /\ job'.failed = job.failed /\ job'.pc = "said" /\ job'.out = job.out
  BY <1>1 DEF Conclude, CheckJob
<1>3. TypeInv'
  BY <1>1, <1>2 DEF IInv, TypeInv, Forked, Checking
<1>4. SeenInv' /\ EventInv'
  BY <1>1, <1>2 DEF IInv, SeenInv, EventInv, Checking, Seen, Forked, Dead
<1>5. CheckInv'
  <2>1. (HeadUnread /\ LogsUnread /\ StateUnread)'
    BY <1>2 DEF HeadUnread, LogsUnread, StateUnread
  <2>2. job.out.receipt = job.held.receipt /\ HeadFailed /\ HeadRead /\ LogsRead
    BY <1>1 DEF IInv, CheckInv
  <2>3. HeadFailed' /\ HeadRead'
    BY <1>2, <2>2 DEF HeadFailed, HeadRead
  <2>4. LogsRead'
    BY <1>2, <2>2 DEF LogsRead
  <2>5. QED BY <1>2, <2>1, <2>2, <2>3, <2>4 DEF CheckInv
<1>6. RecheckInv'
  <2>1. /\ event # NoEvent /\ verify_event(event)
        /\ job.at = event.content.number /\ job.at > 0
        /\ job.out.disclosed = (event.content.disclosed /\ event.content.nonce # "none")
        /\ job.out.number > 0 => /\ job.out.number = job.at
                                 /\ job.out.hash = event.content.hash \/ Dead(event.content.hash)
    BY DEF IInv, RecheckInv
  <2>2. verify_event(event)' /\ (Dead(event.content.hash) => (Dead(event.content.hash))')
    BY <1>1, <2>1 DEF verify_event, Dead
  <2>3. verdict' = "raises" \/ verdict' = (Compare(IF job.out.detail = "state_unobtainable" THEN Again(job.out) ELSE job.out))'
    BY <1>1, <1>2 DEF Compare, Again
  <2>4. QED BY <1>1, <1>2, <2>1, <2>2, <2>3 DEF RecheckInv
<1>7. StatementInv' /\ ChallengeIsFair'
  BY <1>2 DEF StatementInv, ChallengeIsFair
<1>8. QED BY <1>3, <1>4, <1>5, <1>6, <1>7 DEF IInv

\* A recheck ends, with the state of the block or without it.
LEMMA FinishInv == ASSUME IInv, FinishRecheck \/ FallbackRecheck PROVE IInv'
<1>1. CASE FinishRecheck
  BY <1>1, ConcludeInv DEF FinishRecheck
<1>2. CASE FallbackRecheck
  BY <1>2, ConcludeInv DEF FallbackRecheck
<1>3. QED BY <1>1, <1>2

\* A verifier signs a statement about what a holder showed it.
LEMMA StateInv == ASSUME IInv, State PROVE IInv'
<1>1. PICK h \in Held, ok \in BOOLEAN, wrong \in BOOLEAN :
        LET found == Finding(h, Upto(index, Len(chain)), ok)
            said == IF wrong THEN "opens_to_settlement" ELSE found
        IN  /\ found # "raises"
            /\ statement' = make_statement(h.receipt, said, h.receipt.payload.payer, "agent", Hash(Len(chain)), 0, <<>>, "verifier")
            /\ job' = [task |-> "stated", held |-> h]
  BY DEF State
<1>2. UNCHANGED <<chain, index, reorgs, event, tampers, verdict>>
  BY DEF State
<1>3. job'.task = "stated" /\ job'.held = h
  BY <1>1
<1>4. statement'.read_at = Hash(Len(chain)) /\ statement'.rater = h.receipt.payload.payer
  BY <1>1 DEF make_statement
<1>5. Hash(Len(chain)) \in Seq(Block)
  BY BlockAt, HashType DEF IInv, TypeInv
<1>6. TypeInv'
  BY <1>2, <1>3 DEF IInv, TypeInv, Forked, Checking
<1>7. SeenInv' /\ EventInv'
  BY <1>2, <1>3 DEF IInv, SeenInv, EventInv, Checking, Seen, Forked, Dead
<1>8. CheckInv' /\ RecheckInv' /\ ChallengeIsFair'
  BY <1>3 DEF CheckInv, Checking, RecheckInv, ChallengeIsFair
<1>9. StatementInv'
  BY <1>3, <1>4, <1>5 DEF StatementInv
<1>10. QED BY <1>6, <1>7, <1>8, <1>9 DEF IInv

\* assess() does not look at the block the facts were read through, and nothing
\* that could not be read is found.
LEMMA AssessReads ==
  ASSUME NEW p, NEW o, NEW w, NEW c, NEW x, NEW y, NEW ok \in BOOLEAN
  PROVE  /\ assess(p, o, p.payer, w, Facts(c, x, ok)) = assess(p, o, p.payer, w, Facts(c, y, ok))
         /\ ~ok => assess(p, o, p.payer, w, Facts(c, x, ok)) = "incomplete_check"
<1> DEFINE F == Facts(c, x, ok)
           G == Facts(c, y, ok)
<1>1. F.nonces = G.nonces /\ F.available = ok /\ G.available = ok
  BY DEF Facts
<1> HIDE DEF F, G
<1>2. assess(p, o, p.payer, w, F) = assess(p, o, p.payer, w, G)
  BY <1>1 DEF assess
<1>3. ~ok => assess(p, o, p.payer, w, F) = "incomplete_check"
  BY <1>1 DEF assess
<1>4. QED BY <1>2, <1>3 DEF F, G

\* A challenge is decided by the comparison of two findings, never by a read that
\* failed.
LEMMA OutcomeIs ==
  ASSUME NEW again, NEW result, Outcome(again, result) \in {"upheld", "refuted"}
  PROVE  again # "incomplete_check" /\ (Outcome(again, result) = "upheld" <=> result = again)
BY DEF Outcome

\* Whatever happened to the chain since, a challenge that reads through the block
\* the statement names compares it with what is true there.
LEMMA ChallengeInv == ASSUME IInv, Challenge PROVE IInv'
<1>1. PICK ok \in BOOLEAN, pinned \in BOOLEAN :
        LET n == Len(statement.read_at)
            there == IF n <= Len(chain) THEN Hash(n) ELSE <<>>
        IN  /\ verdict' = challenge(statement, job.held.receipt, Opening(job.held), Wallets,
                                    Facts(IF pinned THEN Upto(index, n) ELSE index, there, ok))
            /\ job' = [task |-> "challenged", held |-> job.held, pinned |-> pinned, synced |-> Synced(statement.read_at)]
  BY DEF Challenge
<1>2. /\ UNCHANGED <<chain, index, reorgs, event, statement, tampers>>
      /\ job.task \in {"stated", "challenged"}
  BY DEF Challenge
<1>3. /\ job'.task = "challenged" /\ job'.held = job.held /\ job'.pinned = pinned
      /\ job'.synced = Synced(statement.read_at)
  BY <1>1
<1>4. /\ statement.read_at \in Seq(Block) /\ statement.rater = job.held.receipt.payload.payer /\ job.held \in Held
      /\ index \in Seq(Block)
  BY <1>2 DEF IInv, TypeInv, StatementInv
<1>5. TypeInv'
  BY <1>2, <1>3 DEF IInv, TypeInv, Forked, Checking
<1>6. SeenInv' /\ EventInv'
  BY <1>2, <1>3 DEF IInv, SeenInv, EventInv, Checking, Seen, Forked, Dead
<1>7. CheckInv' /\ RecheckInv' /\ StatementInv'
  BY <1>2, <1>3, <1>4 DEF CheckInv, Checking, RecheckInv, StatementInv
<1>8. ASSUME pinned, Synced(statement.read_at), verdict' \in {"upheld", "refuted"}
      PROVE  verdict' = "upheld" <=> statement.result = Finding(job.held, statement.read_at, TRUE)
  <2>1. Upto(index, Len(statement.read_at)) = statement.read_at
    BY <1>4, <1>8, UptoPrefix DEF Synced
  <2>2. PICK there : verdict' = challenge(statement, job.held.receipt, Opening(job.held), Wallets, Facts(statement.read_at, there, ok))
    BY <1>1, <1>8, <2>1
  <2>3. PICK p, o, again : /\ p = job.held.receipt.payload /\ o = Opening(job.held)
                           /\ again = assess(p, o, p.payer, Wallets, Facts(statement.read_at, there, ok))
    OBVIOUS
  <2>4. verdict' = Outcome(again, statement.result)
    BY <1>4, <1>8, <2>2, <2>3 DEF challenge
  <2>5. again # "incomplete_check" /\ (verdict' = "upheld" <=> statement.result = again)
    BY <1>8, <2>4, OutcomeIs
  <2>6. ok
    BY <2>3, <2>5, AssessReads
  <2>7. again = assess(p, o, p.payer, Wallets, Facts(statement.read_at, <<>>, ok))
    <3>1. PICK none : none = <<>>
      OBVIOUS
    <3>2. assess(p, o, p.payer, Wallets, Facts(statement.read_at, there, ok))
            = assess(p, o, p.payer, Wallets, Facts(statement.read_at, none, ok))
      BY AssessReads
    <3>3. QED BY <2>3, <3>1, <3>2, Zenon
  <2>8. again = Finding(job.held, statement.read_at, TRUE)
    BY <2>3, <2>6, <2>7 DEF Finding
  <2>9. QED BY <2>5, <2>8
<1>9. ChallengeIsFair'
  <2>1. (Finding(job.held, statement.read_at, TRUE))' = Finding(job.held, statement.read_at, TRUE)
    BY <1>2, <1>3 DEF Finding, Facts, Opening, Settled
  <2>2. QED BY <1>2, <1>3, <1>8, <2>1 DEF ChallengeIsFair
<1>10. QED BY <1>5, <1>6, <1>7, <1>9 DEF IInv

\* The first state.
LEMMA InitInv == Init => IInv
<1> SUFFICES ASSUME Init PROVE IInv
  OBVIOUS
<1>1. /\ chain = <<>> /\ index = <<>> /\ reorgs = 0 /\ job = Idle /\ event = NoEvent /\ job.task = "idle"
      /\ Len(<<>>) = 0 /\ <<>> \in Seq(Block)
  BY DEF Init, Idle
<1>2. TypeInv
  BY <1>1 DEF TypeInv, Forked, Checking
<1>3. QED BY <1>1, <1>2 DEF IInv, SeenInv, CheckInv, Checking, EventInv, RecheckInv, StatementInv, ChallengeIsFair

\* Every step keeps the invariant.
LEMMA NextInv == IInv /\ [Next]_vars => IInv'
BY EnvironmentInv, BeginCheckInv, ReadHeadInv, ReadLogsInv, ReadStateInv, PublishInv, TamperInv, BeginRecheckInv,
   FinishInv, QuietInv, StateInv, ChallengeInv DEF Next

\* The invariant holds throughout.
LEMMA Invariant == Spec => []IInv
BY InitInv, NextInv, PTL DEF Spec

-----------------------------------------------------------------------------
(* Theorems *)

\* statement.py's challenge is fair for all receipts, payments and chains: read
\* through the block the statement names, it upholds exactly the statements that
\* are true there, however the chain and the log service moved in between.
THEOREM ChallengesAreFair == Spec => []ChallengeIsFair
<1>1. IInv => ChallengeIsFair
  BY DEF IInv
<1>2. QED BY <1>1, Invariant, PTL

\* A recheck whose reads were all of the chain it names has found what the receipt
\* deserves on that chain.
LEMMA WholeRead ==
  ASSUME IInv, Rechecked, job.synced, ~job.failed, job.out.number > 0
  PROVE  /\ ReadOf(job.held, job.out, TRUE, Settled(job.out.hash))
         /\ Truth(job.held, job.out.hash) = LinkOf(job.held, Cands(TRUE, Settled(job.out.hash))).result
<1>1. job.task = "recheck" /\ job.pc = "said" /\ Checking
  BY DEF Rechecked, Checking
<1>2. Accepted(job.held.receipt) /\ LogsRead
  BY <1>1 DEF IInv, CheckInv, HeadRead
<1>3. PICK S \in SUBSET Payments : /\ ReadOf(job.held, job.out, ~job.failed, S)
                                   /\ (job.synced /\ ~job.failed) => S = Settled(job.out.hash)
  BY <1>1, <1>2 DEF LogsRead
<1>4. (~job.failed) = TRUE /\ S = Settled(job.out.hash)
  BY <1>3, Zenon
<1>5. Truth(job.held, job.out.hash) = LinkOf(job.held, Cands(TRUE, Settled(job.out.hash))).result
  BY <1>2 DEF Truth, Accepted, LinkOf, Cands
<1>6. QED BY <1>3, <1>4, <1>5

\* What a recheck compares has the block, the receipt, the count and what was
\* disclosed of its own check; only the result may be the fallback's.
LEMMA AgainIs ==
  ASSUME NEW o \in ContentRec, NEW a, a = IF o.detail = "state_unobtainable" THEN Again(o) ELSE o
  PROVE  /\ a.hash = o.hash /\ a.receipt = o.receipt /\ a.count = o.count /\ a.nonce = o.nonce /\ a.tx = o.tx
         /\ o.detail = "state_unobtainable" => a.result = "linked"
         /\ o.detail # "state_unobtainable" => a.result = o.result
BY DEF Again, ContentRec

\* What a check reads when the logs can be had, and what it finds in them.
FullRead(h, o, S) == ReadOf(h, o, TRUE, S)
FullLink(h, S) == LinkOf(h, Cands(TRUE, S))

\* What was read of the logs is the result, unless the state could not be read.
LEMMA ReadResult ==
  ASSUME NEW h, NEW o, NEW S, NEW lk, FullRead(h, o, S), lk = FullLink(h, S)
  PROVE  /\ o.detail # "state_unobtainable" => o.result = lk.result
         /\ o.detail = "state_unobtainable" => o.result = "incomplete"
         /\ o.detail = "state_unobtainable" => lk.result \in {"linked", "inconsistent"}
         /\ lk.result # "incomplete"
<1>1. lk = LinkOf(h, Cands(TRUE, S)) /\ ReadOf(h, o, TRUE, S)
  BY DEF FullRead, FullLink
<1>2. Cands(TRUE, S).obtained
  BY DEF Cands
<1>3. lk.detail # "state_unobtainable" /\ lk.result # "incomplete"
  BY <1>1, <1>2, LinkWord DEF LinkOf
<1>4. \/ o.result = lk.result /\ o.detail = lk.detail
      \/ o.result = "incomplete" /\ o.detail = "state_unobtainable" /\ lk.result \in {"linked", "inconsistent"}
  BY <1>1 DEF ReadOf
<1>5. QED BY <1>3, <1>4

\* Logs that could not be read lead to no finding, and the state is not asked for.
LEMMA ReadFailed ==
  ASSUME NEW h, NEW o, NEW S, ReadOf(h, o, FALSE, S)
  PROVE  o.result \notin {"linked", "no_match", "inconsistent"} /\ o.detail # "state_unobtainable"
<1>1. PICK lk : lk = LinkOf(h, Cands(FALSE, S))
  OBVIOUS
<1>2. ~Cands(FALSE, S).obtained
  BY DEF Cands
<1>3. lk.detail # "state_unobtainable" /\ lk.result \notin {"linked", "no_match", "inconsistent"}
  BY <1>1, <1>2, LinkWord DEF LinkOf
<1>4. \/ o.result = lk.result /\ o.detail = lk.detail
      \/ o.result = "incomplete" /\ o.detail = "state_unobtainable" /\ lk.result \in {"linked", "inconsistent"}
  BY <1>1 DEF ReadOf
<1>5. QED BY <1>3, <1>4

\* An event that passes verify_event has the content the checker signed.
LEMMA VerifiedIsBacked ==
  ASSUME IInv, event # NoEvent, verify_event(event)
  PROVE  Backed(event.content)
<1>1. event.sig = [by |-> Issuer, over |-> <<Issuer, event.content>>]
  BY DEF verify_event, Signature
<1>2. event.sig.by = Issuer /\ event.sig.over[2] = event.content
  BY <1>1
<1>3. QED BY <1>2 DEF IInv, EventInv

\* A linked that was signed for a receipt is inconsistent for whoever else opens
\* it only when the nonce settled in another transaction than the receipt names:
\* the commitment has one nonce.
LEMMA LinkedForAll ==
  ASSUME NEW h \in Held, NEW c, NEW S \in SUBSET Payments,
         Backed(c), c.result = "linked", c.receipt = h.receipt,
         LinkOf(h, Cands(TRUE, S)).result = "inconsistent"
  PROVE  \E m \in S, n \in Payments : m.nonce = n.nonce /\ m.tx # n.tx /\ n.tx = h.receipt.payload.transaction
<1>1. PICK g \in Held, n \in Payments :
        /\ g.receipt = h.receipt
        /\ Commitment(g.receipt.payload.authorizationMethod, g.asset, g.receipt.payload.payer, n.nonce, g.salt)
             = g.receipt.payload.authorizationCommitment
        /\ NotAnother(g.receipt.payload, n)
  BY DEF Backed
<1>2. PICK p, cands : p = h.receipt.payload /\ cands = Cands(TRUE, S)
  OBVIOUS
<1>3. PICK m : m = Match(p, h.salt, h.asset, cands)
  OBVIOUS
<1>4. /\ link(p, h.salt, h.asset, cands).result = "inconsistent"
      /\ LinkOf(h, Cands(TRUE, S)) = link(p, h.salt, h.asset, cands) /\ cands.set = S
  BY <1>2 DEF LinkOf, Cands
<1>5. /\ m \in S
      /\ Commitment(p.authorizationMethod, h.asset, p.payer, m.nonce, h.salt) = p.authorizationCommitment
      /\ link(p, h.salt, h.asset, cands).result = "linked" <=> NotAnother(p, m)
  BY <1>3, <1>4, LinkOpened
<1>6. Commitment(p.authorizationMethod, h.asset, p.payer, m.nonce, h.salt)
        = Commitment(p.authorizationMethod, g.asset, p.payer, n.nonce, g.salt)
  BY <1>1, <1>2, <1>5
<1>7. m.nonce = n.nonce
  BY <1>6, CommitmentBinds
<1>8. ~NotAnother(p, m) /\ NotAnother(p, n)
  BY <1>1, <1>2, <1>4, <1>5
<1>9. m.tx # n.tx /\ n.tx = p.transaction
  BY <1>8 DEF NotAnother
<1>10. QED BY <1>2, <1>5, <1>7, <1>9

\* A result that a recheck confirms is what the receipt deserves.
LEMMA AgreedLemma == ASSUME IInv PROVE AgreedIsTrue
<1> DEFINE true == Truth(job.held, event.content.hash)
<1> SUFFICES ASSUME Rechecked, verdict = "agrees", job.synced,
                    event.content.result \in {"linked", "no_match", "inconsistent"}
             PROVE  \/ event.content.result = true
                    \/ FellBack /\ event.content.result = "linked" /\ true = "inconsistent" /\ Resubmitted(job.held, event.content.hash)
  BY DEF AgreedIsTrue
<1> HIDE DEF true
<1>1. job.task = "recheck" /\ job.pc = "said" /\ Checking /\ job \in CheckJob /\ job.out \in ContentRec /\ job.held \in Held
  BY DEF Rechecked, Checking, IInv, TypeInv, CheckJob
<1>2. PICK a : a = IF job.out.detail = "state_unobtainable" THEN Again(job.out) ELSE job.out
  OBVIOUS
<1>3. event # NoEvent /\ verify_event(event) /\ Compare(a) = "agrees"
  BY <1>1, <1>2 DEF IInv, RecheckInv
<1>4. a.result = event.content.result /\ a.receipt = event.content.receipt /\ a.hash = event.content.hash
  BY <1>3 DEF Compare
<1>5. /\ a.hash = job.out.hash /\ a.receipt = job.out.receipt
      /\ job.out.detail = "state_unobtainable" => a.result = "linked"
      /\ job.out.detail # "state_unobtainable" => a.result = job.out.result
  BY <1>1, <1>2, AgainIs
<1>6. job.out.receipt = job.held.receipt /\ HeadFailed /\ LogsRead
  BY <1>1 DEF IInv, CheckInv
<1>7. job.out.number # 0 /\ job.out.number \in Nat
  BY <1>1, <1>4, <1>5, <1>6 DEF HeadFailed, ContentRec
<1>8. job.out.number > 0
  BY <1>7
<1>9. ~job.failed
  <2>1. PICK S \in SUBSET Payments : ReadOf(job.held, job.out, ~job.failed, S)
    BY <1>1, <1>6, <1>8 DEF LogsRead
  <2>2. CASE job.failed
    <3>1. (~job.failed) = FALSE
      BY <2>2
    <3>2. ReadOf(job.held, job.out, FALSE, S)
      BY <2>1, <3>1
    <3>3. job.out.result \notin {"linked", "no_match", "inconsistent"} /\ job.out.detail # "state_unobtainable"
      BY <3>2, ReadFailed
    <3>4. QED BY <1>4, <1>5, <3>3
  <2>3. QED BY <2>2
<1>10. PICK S : S = Settled(job.out.hash)
  OBVIOUS
<1>11. PICK lk : lk = LinkOf(job.held, Cands(TRUE, S))
  OBVIOUS
<1>12. ReadOf(job.held, job.out, TRUE, S) /\ Truth(job.held, job.out.hash) = lk.result
  BY <1>8, <1>9, <1>10, <1>11, WholeRead
<1>13. /\ job.out.detail # "state_unobtainable" => job.out.result = lk.result
       /\ job.out.detail = "state_unobtainable" => lk.result \in {"linked", "inconsistent"}
  <2>1. FullRead(job.held, job.out, S) /\ lk = FullLink(job.held, S)
    BY <1>11, <1>12 DEF FullRead, FullLink
  <2>2. QED BY <2>1, ReadResult
<1> USE DEF true
<1>14. CASE job.out.detail # "state_unobtainable"
  BY <1>4, <1>5, <1>12, <1>13, <1>14
<1>15. CASE job.out.detail = "state_unobtainable"
  <2>1. Backed(event.content)
    BY <1>3, VerifiedIsBacked
  <2>2. S \in SUBSET Payments
    BY <1>1, <1>10, SettledType DEF ContentRec
  <2>3. event.content.result = "linked" /\ event.content.receipt = job.held.receipt
    BY <1>4, <1>5, <1>6, <1>15
  <2>4. Truth(job.held, event.content.hash) = lk.result /\ lk.result \in {"linked", "inconsistent"}
    BY <1>4, <1>5, <1>12, <1>13, <1>15
  <2>5. CASE lk.result = "inconsistent"
    <3>1. LinkOf(job.held, Cands(TRUE, S)).result = "inconsistent"
      BY <1>11, <2>5
    <3>2. \E m \in S, n \in Payments : m.nonce = n.nonce /\ m.tx # n.tx /\ n.tx = job.held.receipt.payload.transaction
      BY <1>1, <2>1, <2>2, <2>3, <3>1, LinkedForAll
    <3>3. S = Settled(event.content.hash)
      BY <1>4, <1>5, <1>10
    <3>4. Resubmitted(job.held, event.content.hash)
      BY <3>2, <3>3 DEF Resubmitted
    <3>5. QED BY <1>15, <2>3, <2>4, <2>5, <3>4 DEF FellBack
  <2>6. QED BY <2>3, <2>4, <2>5
<1>16. QED BY <1>14, <1>15

\* A sound result whose block stands is confirmed.
LEMMA GenuineLemma == ASSUME IInv PROVE GenuineIsConfirmed
<1> SUFFICES ASSUME Rechecked, event.sound, job.synced, ~job.failed, job.held.receipt = event.content.receipt,
                    Truth(job.held, event.content.hash) = event.content.result,
                    event.content.result # "inconsistent", event.content.hash = Upto(chain, event.content.number)
             PROVE  verdict # "disagrees"
  BY DEF GenuineIsConfirmed
<1>1. job.task = "recheck" /\ job.pc = "said" /\ Checking /\ job \in CheckJob /\ job.out \in ContentRec /\ job.held \in Held
  BY DEF Rechecked, Checking, IInv, TypeInv, CheckJob
<1>2. PICK c : c = event.content
  OBVIOUS
<1>3. PICK a : a = IF job.out.detail = "state_unobtainable" THEN Again(job.out) ELSE job.out
  OBVIOUS
<1>4. /\ event # NoEvent /\ c \in ContentRec
      /\ job.at = c.number /\ job.at > 0
      /\ job.out.disclosed = (c.disclosed /\ c.nonce # "none")
      /\ job.out.number > 0 => (job.out.number = job.at /\ (job.out.hash = c.hash \/ Dead(c.hash)))
      /\ verdict = "raises" \/ verdict = Compare(a)
  BY <1>1, <1>2, <1>3 DEF IInv, TypeInv, RecheckInv, EventRec
<1>5. c.number > 0 /\ c.number = Len(c.hash) /\ SoundRead(c)
  BY <1>2, <1>4 DEF IInv, EventInv
<1>6. job.out.receipt = job.held.receipt /\ HeadFailed
  BY <1>1 DEF IInv, CheckInv
<1>7. job.out.number > 0
  <2>1. Accepted(job.held.receipt)
    BY <1>2, <1>5 DEF SoundRead
  <2>2. job.out.number # 0
    BY <1>1, <1>6, <2>1, Zenon DEF HeadFailed
  <2>3. job.out.number \in Nat
    BY <1>1 DEF ContentRec
  <2>4. QED BY <2>2, <2>3
<1>8. ~Dead(c.hash)
  <2>1. /\ c.hash \in Seq(Block) /\ chain \in Seq(Block) /\ Len(c.hash) \in Nat /\ Len(chain) \in Nat
        /\ c.hash = Upto(chain, Len(c.hash))
    BY <1>2, <1>4, <1>5, BlockAt DEF IInv, TypeInv, ContentRec
  <2>2. Len(c.hash) <= Len(chain)
    BY <2>1 DEF Upto
  <2>3. IsPrefix(c.hash, chain)
    BY <2>1, <2>2 DEF Upto, IsPrefix
  <2>4. \A i \in 1..Len(c.hash) : chain[i] = c.hash[i] /\ ~(i > Len(chain))
    BY <2>1, <2>2, <2>3, PrefixElements
  <2>5. QED BY <2>4 DEF Dead
<1>9. job.out.hash = c.hash
  BY <1>4, <1>7, <1>8
<1>10. PICK S : S = Settled(c.hash)
  OBVIOUS
<1>11. PICK lk : lk = LinkOf(job.held, Cands(TRUE, S))
  OBVIOUS
<1>12. ReadOf(job.held, job.out, TRUE, S) /\ c.result = lk.result
  BY <1>2, <1>7, <1>9, <1>10, <1>11, WholeRead
<1>13. PICK g \in Held : g.receipt = c.receipt /\ ReadOf(g, c, TRUE, S)
  BY <1>5, <1>10 DEF SoundRead
<1>14. PICK lg : lg = LinkOf(g, Cands(TRUE, S))
  OBVIOUS
<1>15. lk.result # "incomplete" /\ c.result = lg.result
  <2>1. /\ FullRead(job.held, job.out, S) /\ lk = FullLink(job.held, S)
        /\ FullRead(g, c, S) /\ lg = FullLink(g, S)
    BY <1>11, <1>12, <1>13, <1>14 DEF FullRead, FullLink
  <2>2. QED BY <1>12, <2>1, ReadResult
<1>16. /\ a.hash = job.out.hash /\ a.receipt = job.out.receipt /\ a.count = job.out.count
       /\ a.nonce = job.out.nonce /\ a.tx = job.out.tx
       /\ job.out.detail = "state_unobtainable" => a.result = "linked"
       /\ job.out.detail # "state_unobtainable" => a.result = job.out.result
  BY <1>1, <1>3, AgainIs
<1>17. a.result = c.result
  <2>1. /\ job.out.detail # "state_unobtainable" => job.out.result = lk.result
        /\ job.out.detail = "state_unobtainable" => lk.result \in {"linked", "inconsistent"}
    <3>1. FullRead(job.held, job.out, S) /\ lk = FullLink(job.held, S)
      BY <1>11, <1>12 DEF FullRead, FullLink
    <3>2. QED BY <3>1, ReadResult
  <2>2. QED BY <1>2, <1>12, <1>16, <2>1
<1>18. a.count = c.count
  BY <1>12, <1>13, <1>16 DEF ReadOf
<1>19. ASSUME c.nonce # "none" PROVE a.nonce = c.nonce /\ a.tx = c.tx
  <2>1. /\ Shown(c.disclosed, lg) /\ c.nonce = lg.nonce /\ c.tx = lg.transaction
    BY <1>13, <1>14, <1>19 DEF ReadOf
  <2>2. c.disclosed /\ lg.nonce # "none"
    BY <2>1 DEF Shown
  <2>3. lg = lk
    <3>1. PICK p, cands : p = c.receipt.payload /\ cands = Cands(TRUE, S)
      OBVIOUS
    <3>2. lg = link(p, g.salt, g.asset, cands) /\ lk = link(p, job.held.salt, job.held.asset, cands)
      BY <1>2, <1>11, <1>13, <1>14, <3>1 DEF LinkOf
    <3>3. lg.result \in {"linked", "inconsistent"}
      BY <2>2, <3>2, LinkNothing
    <3>4. lk.result \in {"linked", "inconsistent"}
      BY <1>12, <1>15, <3>3
    <3>5. Commitment(p.authorizationMethod, g.asset, p.payer, Match(p, g.salt, g.asset, cands).nonce, g.salt)
            = p.authorizationCommitment
      BY <3>2, <3>3, LinkOpened
    <3>6. Commitment(p.authorizationMethod, job.held.asset, p.payer, Match(p, job.held.salt, job.held.asset, cands).nonce, job.held.salt)
            = p.authorizationCommitment
      BY <3>2, <3>4, LinkOpened
    <3>7. g.salt = job.held.salt /\ g.asset = job.held.asset
      BY <3>5, <3>6, CommitmentBinds
    <3>8. QED BY <3>2, <3>7
  <2>4. Shown(job.out.disclosed, lk)
    BY <1>4, <1>19, <2>2, <2>3 DEF Shown
  <2>5. job.out.nonce = lk.nonce /\ job.out.tx = lk.transaction
    BY <1>11, <1>12, <2>4 DEF ReadOf
  <2>6. QED BY <1>16, <2>1, <2>3, <2>5
<1>20. a.receipt = c.receipt /\ a.hash = c.hash
  BY <1>2, <1>6, <1>9, <1>16
<1>21. Compare(a) = "agrees"
  BY <1>2, <1>17, <1>18, <1>19, <1>20 DEF Compare
<1>22. QED BY <1>4, <1>21

\* What verify_check_result --recheck confirms is true: a published linked,
\* no_match or inconsistent that it agrees with is what the receipt deserves on the
\* very chain whose block the result names. The only exception is a linked that
\* the fallback without old state repeats of a receipt whose authorization was
\* submitted again, in another transaction than the block has; nothing is assumed
\* of the payments.
THEOREM AgreedResultsAreTrue == Spec => []AgreedIsTrue
<1>1. IInv => AgreedIsTrue
  BY AgreedLemma
<1>2. QED BY <1>1, Invariant, PTL

\* And what was read soundly is confirmed as long as its block stands, also when
\* the node has no state of that block any more and whoever holds the receipt.
THEOREM GenuineResultsAreConfirmed == Spec => []GenuineIsConfirmed
<1>1. IInv => GenuineIsConfirmed
  BY GenuineLemma
<1>2. QED BY <1>1, Invariant, PTL

=============================================================================
