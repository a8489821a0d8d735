--------------------------- MODULE MCEvidenceSet ---------------------------
(***************************************************************************)
(* Small instances of EvidenceSet for TLC: up to three of five entries.    *)
(***************************************************************************)
EXTENDS EvidenceSet

Entry(u, d, k, t) ==
  [object |-> TRUE, url |-> u, snippet |-> d, kind |-> k, at |-> t,
   pinned |-> IF d = Null THEN "false" ELSE "true", resource |-> Null,
   reason |-> IF d = Null THEN "listed" ELSE "absent"]

MCPool == {Entry(1, 1, Snippet, 1), Entry(1, 2, Snippet, 1), Entry(2, 1, Excerpt, 2),
           Entry(1, 1, FullResource, 2), Entry(2, Null, Absent, 1)}

MCAltered ==
  [object |-> {FALSE}, url |-> {Absent, 1, 2, Nul}, snippet |-> {Absent, Null, Malformed, 1, 2},
   kind |-> {Absent, Excerpt, FullResource, Malformed, Nul}, at |-> {Absent, 1, 2},
   pinned |-> {"true", "false", "bad"}, resource |-> {1, Malformed}, reason |-> {"absent", "listed"}]
=============================================================================
