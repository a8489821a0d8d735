--------------------------- MODULE MCSessionChain ---------------------------
(***************************************************************************)
(* Small instances of SessionChain for TLC.                                *)
(***************************************************************************)
EXTENDS SessionChain, TLC

CONSTANTS HashDepth   \* bound: nesting of head hashes

\* Every head hash of a chain of at most HashDepth entries.
MCHeadHash ==
  LET upTo[d \in 0..HashDepth] ==
        IF d = 0 THEN {Genesis}
        ELSE {Genesis} \union
             {head_hash(c, p) : c \in ContentHash, p \in upTo[d - 1]}
  IN  upTo[HashDepth]


\* Heads that are not of the ledger: one that claims Genesis for entry 2.
MCExtraHeads == {[entry |-> 2, head_hash |-> Genesis]}

\* Records are only compared with each other.
RecordSymmetry == Permutations(Record)
=============================================================================
