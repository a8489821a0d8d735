------------------------------ MODULE MeshSync ------------------------------
(***************************************************************************)
(* examples/erc8309-mesh-sync: the three rules of check_mesh_sync.py over   *)
(* vectors of the shapes build_vectors.py makes. A node serves each of its  *)
(* namespaces as pages linked by cursors.                                   *)
(***************************************************************************)
EXTENDS Naturals, Sequences, FiniteSets, TLC

\* Pages of two records, in tokens 1, 2, ...; cursor 0 is none.
paged(recs) ==
  LET last == IF recs = <<>> THEN 1 ELSE (Len(recs) + 1) \div 2
      upTo(i) == IF 2 * i < Len(recs) THEN 2 * i ELSE Len(recs)
  IN  [start |-> 1,
       page |-> [i \in 1..last |-> [records |-> SubSeq(recs, 2 * i - 1, upTo(i)), cursor |-> IF i < last THEN i + 1 ELSE 0]]]

Produced == [A |-> <<1, 2, 3>>, B |-> <<4, 5>>]
Local == <<8, 9>>

\* Origin and a follower, with or without records of their own and without one
\* record or one namespace of the origin; and declarations of a node's fields.
Vectors ==
  {[kind |-> "convergence", origins |-> [ensboiler |-> Produced],
    nodes |-> [ensboiler |-> [A |-> paged(Produced.A), B |-> paged(Produced.B)],
               railway |-> IF full THEN [A |-> paged(a), B |-> paged(b)] ELSE [A |-> paged(a)]]] :
     full \in BOOLEAN, a \in {<<1, 2, 3>>, <<1, 2, 8>>}, b \in {<<4, 5>>, <<4, 5, 8, 9>>}}
  \union
  {[kind |-> "envelope", signed |-> s, served |-> [f \in DOMAIN s \union extra |-> IF f \in DOMAIN s THEN s[f] ELSE "Router"],
    acted_on |-> a, inert |-> i] :
     s \in {[nodeId |-> "ab"], [nodeId |-> "ab", nodeType |-> "Router"]}, extra \in {{}, {"nodeType"}, {"displayName"}},
     a \in {{"nodeId"}, {"nodeId", "nodeType"}}, i \in SUBSET {"nodeType", "displayName"}}

\* A cursor to a page already read, or to no page, ends the reading in error.
enumerate_pages(pages) ==
  LET walk[n \in 0..(Cardinality(DOMAIN pages.page) + 1)] ==
        IF n = 0 THEN [status |-> "READING", token |-> pages.start, seen |-> {}, out |-> <<>>]
        ELSE LET w == walk[n - 1]
                 next == pages.page[w.token]
             IN  IF w.status # "READING" THEN w
                 ELSE IF w.token \in w.seen \/ w.token \notin DOMAIN pages.page THEN [w EXCEPT !.status = "ERROR"]
                 ELSE [status |-> IF next.cursor = 0 THEN "COMPLETE" ELSE "READING", token |-> next.cursor,
                       seen |-> w.seen \union {w.token}, out |-> w.out \o next.records]
  IN  walk[Cardinality(DOMAIN pages.page) + 1]

\* (mutant) A reading that ended in error counts for what it got.
HoldsRead(served, ns, produced) ==
  /\ ns \in DOMAIN served
  /\ \A i \in DOMAIN produced : \E j \in DOMAIN enumerate_pages(served[ns]).out : enumerate_pages(served[ns]).out[j] = produced[i]
Holds(served, ns, produced) ==
  /\ ns \in DOMAIN served
  /\ LET read == enumerate_pages(served[ns])
     IN  /\ read.status = "COMPLETE"
         /\ \A i \in DOMAIN produced : \E j \in DOMAIN read.out : read.out[j] = produced[i]

per_origin(v) ==
  IF \A o \in DOMAIN v.origins : \A ns \in DOMAIN v.origins[o] : \A node \in DOMAIN v.nodes :
       Holds(v.nodes[node], ns, v.origins[o][ns])
  THEN "CONVERGED" ELSE "NOT_CONVERGED"

envelope(v) ==
  CASE v.acted_on \intersect v.inert # {} -> "contradictory_declaration"
    [] v.acted_on \intersect v.inert = {} ->
         IF \E f \in v.acted_on : f \notin DOMAIN v.signed \/ (f \in DOMAIN v.served /\ v.served[f] # v.signed[f])
         THEN "unsigned_or_other_value"
         ELSE IF DOMAIN v.served \subseteq DOMAIN v.signed \union v.acted_on \union v.inert THEN "CONFORMANT"
         ELSE "undeclared_served_field"

run(v) == IF v.kind = "convergence" THEN per_origin(v) ELSE envelope(v)

Edits(v) ==
  IF v.kind = "convergence"
  THEN UNION {UNION {UNION {
         {[v EXCEPT !.nodes[n][ns].page[t].cursor = k] : k \in {0, 1, 2, 7}}
         \union {[v EXCEPT !.nodes[n][ns].page[t].records = Tail(@)] : x \in {1} \intersect DOMAIN v.nodes[n][ns].page[t].records}
         \union {[v EXCEPT !.nodes[n][ns].start = 2]}
         : t \in DOMAIN v.nodes[n][ns].page} : ns \in DOMAIN v.nodes[n]} : n \in DOMAIN v.nodes}
       \union {[v EXCEPT !.origins = @ @@ ("railway" :> [A |-> Local])], [v EXCEPT !.origins["ensboiler"]["A"] = <<1, 2, 3, 6>>]}
  ELSE {[v EXCEPT !.served[f] = "Origin"] : f \in DOMAIN v.served}
       \union {[v EXCEPT !.acted_on = @ \ {f}] : f \in v.acted_on}
       \union {[v EXCEPT !.served = [f \in DOMAIN @ \ {"nodeId"} |-> @[f]]]}

-----------------------------------------------------------------------------
\* The pages a reader following cursors gets to.
Reached(pages) ==
  LET far[n \in 0..Cardinality(DOMAIN pages.page)] ==
        IF n = 0 THEN {pages.start} \intersect DOMAIN pages.page
        ELSE far[n - 1] \union ({pages.page[t].cursor : t \in far[n - 1]} \intersect DOMAIN pages.page)
  IN  far[Cardinality(DOMAIN pages.page)]

\* Fields served with another value than the signed one.
Departing(v) == {f \in DOMAIN v.served \intersect DOMAIN v.signed : v.served[f] # v.signed[f]}

\* Rule R3 as check_mesh_sync.py:9 and README.md:12 word it.
R3(v) ==
  /\ v.acted_on \subseteq DOMAIN v.signed
  /\ Departing(v) = {}
  /\ DOMAIN v.served \ DOMAIN v.signed \subseteq v.acted_on \union v.inert

\* Converged nodes serve, on pages that a reader gets to and that end, every
\* record of every origin. A conformant node keeps R3 but for the values of
\* signed fields it does not act on: with those as signed, R3 holds. Of these
\* R3 promises more than envelope() checks: "a served value differing from the
\* signed one is a MISMATCH", but only the fields of acted_on are compared.
Sound(v) ==
  IF v.kind = "convergence"
  THEN \A o \in DOMAIN v.origins : \A ns \in DOMAIN v.origins[o] : \A node \in DOMAIN v.nodes :
         LET pages == v.nodes[node][ns].page
             reached == Reached(v.nodes[node][ns])
         IN  /\ ns \in DOMAIN v.nodes[node]
             /\ \E t \in reached : pages[t].cursor = 0
             /\ \A i \in DOMAIN v.origins[o][ns] : \E t \in reached : \E j \in DOMAIN pages[t].records :
                  pages[t].records[j] = v.origins[o][ns][i]
  ELSE /\ Departing(v) \subseteq DOMAIN v.signed \ v.acted_on
       /\ R3([v EXCEPT !.served = [f \in DOMAIN @ |-> IF f \in Departing(v) THEN v.signed[f] ELSE @[f]]])
       /\ v.acted_on \intersect v.inert = {}
=============================================================================
