---------------------------- MODULE EvidenceSet ----------------------------
(***************************************************************************)
(* tools/evidence_set_check.py: an issuer builds an evidence set from the  *)
(* sources it retrieved, the document is altered on its way, and a relying *)
(* party that holds some content validates and resolves it.                *)
(***************************************************************************)
EXTENDS Integers, FiniteSets, Sequences, SequencesExt

CONSTANTS
  Pool,       \* the source entries an issuer may have retrieved
  Altered,    \* the values each member of an entry may be altered to
  MaxSources, \* entries in a set
  MaxEdits,   \* edits made to the document on its way
  MaxFetches  \* contents the relying party fetches

\* Strings are numbers in their byte order; the values below are those that
\* are not such a string, and a string with a NUL byte in it.
Null == 0
Absent == -1
Malformed == -2
Nul == 9
Excerpt == 1
FullResource == 2
Snippet == 3

Url == {1, 2}
Digest == {1, 2}
Kind == {Excerpt, FullResource, Snippet}
Time == {1, 2}
Member == {"url", "snippet", "kind", "at", "pinned", "resource", "reason", "object"}

ASSUME SizesAssumption == MaxSources \in Nat \ {0} /\ MaxEdits \in Nat /\ MaxFetches \in Nat

\* What an entry may hold; a member that is not a string is a number, too.
Value == [m \in Member |-> CASE m = "object" -> BOOLEAN
                            [] m = "pinned" -> {"true", "false", "bad"}
                            [] m = "reason" -> {"absent", "listed"}
                            [] OTHER -> Int]
SourceEntry == [url : Int, snippet : Int, kind : Int, at : Int, pinned : Value["pinned"],
                resource : Int, reason : Value["reason"], object : BOOLEAN]

ASSUME PoolAssumption == IsFiniteSet(Pool) /\ Pool \subseteq SourceEntry
ASSUME AlteredAssumption == DOMAIN Altered = Member /\ \A m \in Member : Altered[m] \subseteq Value[m]

VARIABLES
  issued,  \* the entries the issuer retrieved and built the set from
  es,      \* the evidence set as it is presented
  edits,   \* how many edits it has seen
  held,    \* the contents the relying party fetched, as <<url, digest>>
  token,   \* what resolve() returned last, "none" before
  conds    \* the conditions it reported

vars == <<issued, es, edits, held, token, conds>>

-----------------------------------------------------------------------------
(* The Merkle root over the pinned entries. A digest is the term hashed: a  *)
(* leaf is a tuple of four, a node a pair, no root is the empty tuple.      *)

SortKey(e) == <<e.url, e.snippet, e.kind, e.at>>

Less(a, b) == \E i \in 1..4 : a[i] < b[i] /\ \A j \in 1..(i-1) : a[j] = b[j]

\* (mutant) The content kind is left out of the leaf.
LeafNoKind(e) == <<e.url, e.snippet, e.at>>
Leaf(e) == <<e.url, e.snippet, e.kind, e.at>>

\* One level: neighbours are joined, an odd last node is promoted as it is.
Join(level) ==
  [i \in 1..((Len(level) + 1) \div 2) |->
     IF 2 * i <= Len(level) THEN <<level[2*i - 1], level[2*i]>> ELSE level[2*i - 1]]

Levels(leaves) ==
  LET up[n \in 0..Len(leaves)] == IF n = 0 THEN leaves ELSE Join(up[n-1])
  IN  up

MerkleRoot(leaves) == IF leaves = <<>> THEN <<>> ELSE Levels(leaves)[Len(leaves)][1]

\* The positions of the pinned entries.
Pinned(sources) == {i \in DOMAIN sources : sources[i].object /\ sources[i].pinned = "true"}

\* (mutant) In the order in which the sources are listed.
PlaceListed(sources, i) == Cardinality({j \in Pinned(sources) : j <= i})
\* Where sorted() puts the pinned entry at position i: it keeps the order of equals.
Place(sources, i) ==
  LET key(j) == SortKey(sources[j])
  IN  Cardinality({j \in Pinned(sources) : Less(key(j), key(i)) \/ (key(j) = key(i) /\ j <= i)})

Leaves(sources) ==
  [k \in 1..Cardinality(Pinned(sources)) |-> Leaf(sources[CHOOSE i \in Pinned(sources) : Place(sources, i) = k])]

EvidenceRoot(sources) == MerkleRoot(Leaves(sources))

-----------------------------------------------------------------------------
(* _check_entry: every condition of one entry, and the members that failed  *)
(* their own type or form check (every one, when it is not an object).      *)

When(failed, name) == IF failed THEN {name} ELSE {}
None(v) == v \in {Null, Absent}

BadMembers(e) ==
  IF ~e.object THEN Member
  ELSE LET bad == When(e.at \notin Time, "at")
                  \union When(e.pinned = "bad", "pinned")
                  \union When(e.url \notin Url \union {Nul}, "url")
                  \union When(~None(e.snippet) /\ e.snippet \notin Digest, "snippet")
                  \union When(~None(e.resource) /\ e.resource \notin Digest, "resource")
       IN  CASE e.pinned = "bad"   -> bad \union {"snippet", "kind"}
             [] e.pinned = "true"  -> bad \union When(e.kind \notin Kind, "kind")
             [] e.pinned = "false" -> bad \union When(e.snippet = Absent, "snippet")

EntryConditions(e) ==
  IF ~e.object THEN {"source_entry_not_object"}
  ELSE When(e.at \notin Time, "retrieved_at_not_canonical_form")
       \union When(e.pinned = "bad", "pinned_absent_or_not_boolean")
       \union When(e.url \notin Url \union {Nul}, "url_absent_or_not_string")
       \union When(Nul \in {e.url, e.snippet, e.kind, e.at}, "member_contains_nul")
       \union When(~None(e.snippet) /\ e.snippet \notin Digest, "snippet_sha256_not_lowercase_hex64")
       \union When(~None(e.resource) /\ e.resource \notin Digest, "resource_sha256_not_lowercase_hex64")
       \union When(e.kind = FullResource /\ ~None(e.resource), "resource_sha256_present_for_full_resource")
       \union
       CASE e.pinned = "bad" -> {}
         [] e.pinned = "true" ->
              When(None(e.snippet), "snippet_sha256_absent_when_pinned")
              \union When(e.kind \notin Kind, "content_kind_absent_or_invalid_when_pinned")
         [] e.pinned = "false" ->
              When(e.snippet = Absent, "snippet_sha256_member_absent")
              \union When(~None(e.snippet), "snippet_sha256_present_when_unpinned")
              \union When(~None(e.kind), "content_kind_present_when_unpinned")
              \union When(e.reason # "listed", "unpinned_reason_absent_or_invalid")

SameRetrieval(a, b) ==
  /\ a.url = b.url /\ a.at = b.at
  /\ (a.pinned = "true" /\ b.pinned = "true") =>
        LET value(v) == IF None(v) THEN Null ELSE v
        IN  value(a.snippet) = value(b.snippet) /\ value(a.kind) = value(b.kind)

Least(sources) == CHOOSE t \in {e.at : e \in Range(sources)} : \A e \in Range(sources) : t <= e.at

-----------------------------------------------------------------------------
(* validate: the conditions of (a), each skipped when a member it takes as  *)
(* input is bad; (b), the root, only if (a) reports none.                   *)

Bool(b) == IF b THEN "true" ELSE "false"
Declared(v, derived) == IF v = Absent THEN derived ELSE v

\* (mutant) Checked against the derived counts, and only if both are declared.
FullyPinnedMismatchDeclared(s, n, p) ==
  Absent \notin {s.source_count, s.pinned_count} /\ s.fully_pinned # Bool(p = n)
FullyPinnedMismatch(s, n, p) ==
  LET sc == Declared(s.source_count, n)
      pc == Declared(s.pinned_count, p)
  IN  /\ Malformed \notin {sc, pc}
      /\ s.fully_pinned \notin {"absent", Bool(pc = sc /\ sc > 0)}

SetConditions(s) ==
  LET src == s.sources
      bad == [i \in DOMAIN src |-> BadMembers(src[i])]
      n == Len(src)
      pinnedOk == \A i \in DOMAIN src : "pinned" \notin bad[i]
      p == IF pinnedOk THEN Cardinality(Pinned(src)) ELSE Malformed
      timesOk == \A i \in DOMAIN src : "at" \notin bad[i]
      comparable == {i \in DOMAIN src : bad[i] \intersect {"url", "pinned", "snippet", "kind"} = {}}
      entries == UNION {EntryConditions(src[i]) : i \in DOMAIN src}
  IN  entries
      \union When(s.source_count \notin {Absent, n}, "source_count_mismatch")
      \union When(pinnedOk /\ s.pinned_count \notin {Absent, p}, "pinned_count_mismatch")
      \union When(pinnedOk /\ p = 0 /\ s.root # <<>>, "evidence_root_present_with_no_pinned_items")
      \union When(pinnedOk /\ p > 0 /\ s.root = <<>>, "evidence_root_absent_with_pinned_items")
      \union When(FullyPinnedMismatch(s, n, p), "fully_pinned_mismatch")
      \union When(timesOk /\ s.at # Absent /\ s.at # Least(src), "set_retrieved_at_not_bytewise_least")
      \union When(timesOk /\ \E i, j \in comparable : i < j /\ SameRetrieval(src[i], src[j]),
                  "duplicate_bound_tuple")

Validate(s) ==
  IF s.form = "not_object" THEN {"evidence_set_not_object"}
  ELSE IF s.version = "not_string" THEN {"evidence_set_version_absent_or_not_string"}
  ELSE IF s.version = "other" THEN {}
  ELSE IF s.form = "not_array" THEN {"sources_not_array"}
  ELSE IF s.sources = <<>> THEN {"evidence_set_names_no_sources"}
  ELSE IF SetConditions(s) # {} THEN SetConditions(s)
  ELSE When(s.root # <<>> /\ s.root # EvidenceRoot(s.sources), "root_not_recomputable_from_sources")

-----------------------------------------------------------------------------
(* resolve *)

\* (mutant) A URL fetched with other content differs, whatever else is held.
MatchesUrlFirst(e, h) ==
  /\ e.pinned = "true"
  /\ \E c \in h : c[2] = e.snippet
  /\ \A c \in h : c[1] = e.url => c[2] = e.snippet
\* content_matches; an item that differs or is not held is no match.
Matches(e, h) == e.pinned = "true" /\ \E c \in h : c[2] = e.snippet

Resolve(s, h) ==
  IF s.form = "absent" THEN "unknown"
  ELSE IF Validate(s) # {} THEN "halt"
  ELSE IF s.version = "v1" /\ \A i \in DOMAIN s.sources : Matches(s.sources[i], h) THEN "resolved"
  ELSE "unknown"

-----------------------------------------------------------------------------
\* build: finished entries to a set; a malformed one raises.
Built(entries) ==
  [form |-> "ok", version |-> "v1", sources |-> entries,
   at |-> Least(entries), source_count |-> Len(entries),
   pinned_count |-> Cardinality(Pinned(entries)),
   fully_pinned |-> Bool(Cardinality(Pinned(entries)) = Len(entries)),
   root |-> EvidenceRoot(entries)]

Init ==
  /\ issued \in {SetToSeq(S) : S \in {T \in SUBSET Pool : Cardinality(T) \in 1..MaxSources}}
  /\ Validate(Built(issued)) = {}
  /\ es = Built(issued)
  /\ edits = 0
  /\ held = {}
  /\ token = "none"
  /\ conds = {}

Edited(s) ==
  /\ token = "none" /\ edits < MaxEdits
  /\ s # es
  /\ es' = s
  /\ edits' = edits + 1
  /\ UNCHANGED <<issued, held, token, conds>>

AlterEntry ==
  \E i \in DOMAIN es.sources, m \in Member : \E v \in Altered[m] :
    Edited([es EXCEPT !.sources[i][m] = v])

DropEntry == \E i \in DOMAIN es.sources : Edited([es EXCEPT !.sources = RemoveAt(@, i)])

RepeatEntry == \E i \in DOMAIN es.sources : Edited([es EXCEPT !.sources = Append(@, es.sources[i])])

Swap(s, i, j) == [s EXCEPT !.sources[i] = s.sources[j], !.sources[j] = s.sources[i]]

SwapEntries == \E i, j \in DOMAIN es.sources : i < j /\ Edited(Swap(es, i, j))

AlterSet ==
  \/ \E f \in {"absent", "not_object", "not_array"} : Edited([es EXCEPT !.form = f])
  \/ \E v \in {"other", "not_string"} : Edited([es EXCEPT !.version = v])
  \/ \E c \in {Absent, Malformed, 0, 1} : \/ Edited([es EXCEPT !.source_count = c])
                                          \/ Edited([es EXCEPT !.pinned_count = c])
  \/ \E f \in {"true", "false", "absent", "bad"} : Edited([es EXCEPT !.fully_pinned = f])
  \/ \E t \in {Absent, Malformed, 1, 2} : Edited([es EXCEPT !.at = t])
  \/ \E r \in {<<>>, <<Malformed>>} : Edited([es EXCEPT !.root = r])

\* Every count made to agree again with the sources, the root left alone.
Recount ==
  /\ \A e \in Range(es.sources) : e.object
  /\ es.sources # <<>>
  /\ Edited([Built(es.sources) EXCEPT !.root = es.root])

\* The relying party looks for content once the set itself was not refused.
Fetch ==
  /\ token \in {"unknown", "resolved"}
  /\ Cardinality(held) < MaxFetches
  /\ \E u \in Url, d \in Digest : held' = held \union {<<u, d>>}
  /\ UNCHANGED <<issued, es, edits, token, conds>>

Check ==
  /\ token' = Resolve(es, held)
  /\ conds' = IF es.form = "absent" THEN {} ELSE Validate(es)
  /\ UNCHANGED <<issued, es, edits, held>>

Next == AlterEntry \/ DropEntry \/ RepeatEntry \/ SwapEntries \/ AlterSet \/ Recount \/ Fetch \/ Check

Spec == Init /\ [][Next]_vars

-----------------------------------------------------------------------------
(* Properties *)

\* Every variable has its type: a report holds conditions exactly when the gate halts.
TypeOK ==
  /\ issued \in Seq(Pool)
  /\ edits \in 0..MaxEdits
  /\ held \subseteq Url \X Digest
  /\ token \in {"none", "resolved", "unknown", "halt"}
  /\ (token = "halt") <=> (conds # {})

\* What an evidence set must be, each rule stated over the whole document and
\* none of them depending on another one.
WellFormedEntry(e) ==
  /\ e.object /\ e.url \in Url /\ e.at \in Time
  /\ None(e.resource) \/ (e.resource \in Digest /\ e.kind # FullResource)
  /\ \/ e.pinned = "true" /\ e.snippet \in Digest /\ e.kind \in Kind
     \/ e.pinned = "false" /\ e.snippet = Null /\ None(e.kind) /\ e.reason = "listed"

WellFormed(s) ==
  LET src == s.sources
      pinned == {i \in DOMAIN src : src[i].pinned = "true"}
  IN  /\ src # <<>>
      /\ \A i \in DOMAIN src : WellFormedEntry(src[i])
      /\ \A i, j \in DOMAIN src :
           (i # j /\ src[i].url = src[j].url /\ src[i].at = src[j].at) =>
             {i, j} \subseteq pinned /\ SortKey(src[i]) # SortKey(src[j])
      /\ s.source_count \in {Absent, Len(src)}
      /\ s.pinned_count \in {Absent, Cardinality(pinned)}
      /\ s.fully_pinned \in {"absent", Bool(pinned = DOMAIN src)}
      /\ s.at \in {Absent, Least(src)}
      /\ s.root = EvidenceRoot(src)

\* A rule that is not evaluated because its input is bad never lets a set
\* through: validate() reports no condition for exactly the sets that satisfy
\* every rule.
SuppressionNeverHides ==
  (token # "none" /\ es.form = "ok" /\ es.version = "v1") => ((conds = {}) <=> WellFormed(es))

\* A set that is not halted and still carries the root of the issuer has the
\* issuer's pinned entries, all of them and no other, whatever was edited, and
\* it resolves only if the relying party holds the content of every one.
RootBinds ==
  (token \in {"resolved", "unknown"} /\ es.form = "ok" /\ es.version = "v1"
   /\ es.root = EvidenceRoot(issued))
    => /\ {SortKey(es.sources[i]) : i \in Pinned(es.sources)} = {SortKey(issued[i]) : i \in Pinned(issued)}
       /\ token = "resolved" => \A i \in Pinned(issued) : \E c \in held : c[2] = issued[i].snippet

\* The order in which the sources are listed changes neither the token nor the
\* conditions: evidence_root() sorts, and the rules of validate() are symmetric.
OrderNeverMatters ==
  token # "none" =>
    \A i, j \in DOMAIN es.sources : i < j =>
      Resolve(Swap(es, i, j), held) = Resolve(es, held) /\ Validate(Swap(es, i, j)) = Validate(es)

\* More held content never takes a resolution back: the digest is looked for
\* first, a URL with other content only after it.
ResolutionStays == [][token = "resolved" => token' = "resolved"]_vars
=============================================================================
