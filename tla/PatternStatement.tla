-------------------------- MODULE PatternStatement --------------------------
(***************************************************************************)
(* examples/pattern-statement-v0: a statement about one producer over some  *)
(* days, recomputed by check.py from the daily log files that build_days()  *)
(* of build_vectors.py makes. Time goes in half days, day d from 2(d - 1)   *)
(* to its cutoff 2d; 72 hours are 6. A hash is the tuple of what it hashes. *)
(***************************************************************************)
EXTENDS Integers, Sequences, FiniteSets

K1 == "k1"  \* the subject
K2 == "k2"  \* another producer
K3 == "k3"  \* never enrolled

NoTime == -99
NoRoot == <<0, 0>>
Genesis == <<>>
Grace == 6

day0(d) == 2 * (d - 1)
cutoff(d) == 2 * d

-----------------------------------------------------------------------------
(* The daily files. *)

rec(i, created, verdict, key, cosigned) ==
  [id |-> i, created |-> created, verdict |-> verdict, key |-> key, cosigned |-> cosigned]

\* Records in the order they were created; the second is co-signed or not.
Records(second) ==
  << rec(7, -6, "fail", K1, NoTime), rec(6, 0, "pass", K2, NoTime), rec(1, 0, "pass", K1, 1),
     rec(2, 1, "fail", K1, second), rec(3, 2, "pass", K1, 3), rec(5, 5, "pass", K1, NoTime) >>

state(r, cut) ==
  IF r.cosigned # NoTime /\ r.cosigned < cut /\ r.cosigned < r.created + Grace THEN "present"
  ELSE IF cut - r.created >= Grace THEN "declined" ELSE "absent"

Line(type, key, at, id, verdict, signature) ==
  [type |-> type, key |-> key, at |-> at, id |-> id, verdict |-> verdict, signature |-> signature, text |-> "jcs"]

\* Enrollments and the records of the enrolled before the cutoff of day d.
Lines(enrolls, records, d) ==
  LET known == SelectSeq(enrolls, LAMBDA e : e.at < cutoff(d))
      logged == SelectSeq(records, LAMBDA r :
                  r.created < cutoff(d) /\ \E i \in DOMAIN enrolls : enrolls[i].key = r.key /\ enrolls[i].at <= r.created)
  IN  [i \in DOMAIN known |-> Line("enrollment", known[i].key, known[i].at, 0, "none", "none")]
      \o [i \in DOMAIN logged |-> Line("record", logged[i].key, logged[i].created, logged[i].id,
                                       logged[i].verdict, state(logged[i], cutoff(d)))]

\* One level up: an odd last node is paired with itself.
Above(level) ==
  [i \in 1..((Len(level) + 1) \div 2) |-> <<level[2 * i - 1], level[IF 2 * i <= Len(level) THEN 2 * i ELSE 2 * i - 1]>>]

merkle(lines) ==
  LET leaves == [i \in DOMAIN lines |-> <<lines[i]>>]
      level[n \in 0..Len(lines)] ==
        IF n = 0 THEN leaves
        ELSE LET below == level[n - 1] IN IF Len(below) = 1 THEN below ELSE Above(below)
  IN  IF lines = <<>> THEN <<>> ELSE level[Len(lines)][1]

Number(lines, type) == Cardinality({i \in DOMAIN lines : lines[i].type = type})

log_root(header) == <<header>>

Header(d, prev, lines) ==
  [schema |-> "log", date |-> d, cutoff |-> cutoff(d), prev_root |-> prev, n_enrollments |-> Number(lines, "enrollment"),
   n_records |-> Number(lines, "record"), merkle_root |-> merkle(lines)]

\* Every day's file, chained to the one before; some are not handed out.
build_days(enrolls, records, days) ==
  LET header[d \in 0..days] ==
        IF d = 0 THEN Genesis
        ELSE Header(d, IF d = 1 THEN Genesis ELSE log_root(header[d - 1]), Lines(enrolls, records, d))
  IN  [d \in 1..days |-> [header |-> header[d], lines |-> Lines(enrolls, records, d)]]

-----------------------------------------------------------------------------
(* check.py *)

\* (mutant) The numbers of the header are not compared with the lines.
FileOkRoot(d, f) ==
  /\ f.header.schema = "log" /\ f.header.date = d /\ f.header.cutoff = day0(d) + 2
  /\ f.header.merkle_root = merkle(f.lines)
  /\ \A i \in DOMAIN f.lines : f.lines[i].text = "jcs"

FileOk(d, f) ==
  /\ f.header.schema = "log" /\ f.header.date = d /\ f.header.cutoff = day0(d) + 2
  /\ f.header.merkle_root = merkle(f.lines)
  /\ f.header.n_records = Number(f.lines, "record")
  /\ f.header.n_enrollments = Number(f.lines, "enrollment")
  /\ \A i \in DOMAIN f.lines : f.lines[i].text = "jcs"

Roots(files, d) == IF d \in DOMAIN files THEN log_root(files[d].header) ELSE NoRoot

LogProblems(files) ==
  {<<"LOG_ROOT_MISMATCH", d>> : d \in {d \in DOMAIN files : ~FileOk(d, files[d])}}
  \union {<<"LOG_CHAIN_BROKEN", d>> :
            d \in {d \in DOMAIN files : d - 1 \in DOMAIN files /\ files[d].header.prev_root # Roots(files, d - 1)}}

\* round(declined / rated, 6) in millionths, -1 with nothing to rate.
Rate(present, declined) ==
  LET rated == present + declined
  IN  IF rated = 0 THEN -1 ELSE (2000000 * declined + rated) \div (2 * rated)

\* The fields of a statement over the lines of the last file.
compute(subject, from, to, files) ==
  LET last == IF to \in DOMAIN files THEN files[to].lines ELSE <<>>
      enrolled == SelectSeq(last, LAMBDA e : e.type = "enrollment" /\ e.key = subject)
      enrolled_at == IF enrolled = <<>> THEN NoTime ELSE enrolled[1].at
      recs == {i \in DOMAIN last : /\ last[i].type = "record" /\ last[i].key = subject
                                   /\ day0(from) <= last[i].at /\ last[i].at < day0(to) + 2}
      not_measured == {d \in from..to : d \notin DOMAIN files \/ enrolled = <<>> \/ day0(d) + 2 <= enrolled_at}
      signed == [s \in {"present", "absent", "declined"} |-> Cardinality({i \in recs : last[i].signature = s})]
  IN  [log |-> [first |-> Roots(files, from), last |-> Roots(files, to)],
       measured |-> enrolled # <<>> /\ not_measured # from..to,
       not_measured_days |-> not_measured, enrolled_at |-> enrolled_at,
       counts |-> [records |-> Cardinality(recs), producer_signature |-> signed,
                   verdict |-> [v \in {last[i].verdict : i \in recs} |-> Cardinality({i \in recs : last[i].verdict = v})]],
       decline_rate |-> Rate(signed["present"], signed["declined"])]

check(c) ==
  LET s == c.statement
      fields == compute(s.subject, s.from, s.to, c.files)
  IN  IF s.schema # "v0" THEN {<<"SCHEMA", 0>>}
      ELSE LogProblems(c.files)
           \union {<<"LOG_REFERENCE_MISMATCH", 0>> : x \in {x \in {1} : s.says.log # fields.log}}
           \union {<<"STATEMENT_MISMATCH", k>> : k \in {k \in DOMAIN fields \ {"log"} : s.says[k] # fields[k]}}

-----------------------------------------------------------------------------
(* Statements made of the files handed out, and alterations of both. *)

Enrolls(at) == <<[key |-> K2, at |-> -1], [key |-> K1, at |-> at]>>

Genuine ==
  {LET made == [enrolls |-> Enrolls(at), records |-> Records(second), days |-> to]
       all == build_days(made.enrolls, made.records, to)
       files == [d \in 1..to \ dropped |-> all[d]]
   IN  [made |-> made, files |-> files,
        statement |-> [schema |-> "v0", subject |-> k, from |-> 1, to |-> to, says |-> compute(k, 1, to, files)]] :
     at \in {-1, 3}, second \in {NoTime, 6}, to \in {3, 4}, dropped \in {{}, {2}}, k \in {K1, K3}}

Without(seq, i) == SubSeq(seq, 1, i - 1) \o SubSeq(seq, i + 1, Len(seq))

\* Other lines, under the old header or one made for them.
Relined(c, d, lines) ==
  {[c EXCEPT !.files[d].lines = lines],
   [c EXCEPT !.files[d] = [header |-> Header(d, c.files[d].header.prev_root, lines), lines |-> lines]]}

FileEdits(c, d) ==
  LET lines == c.files[d].lines
  IN  UNION {Relined(c, d, Without(lines, i)) \union Relined(c, d, [lines EXCEPT ![i].signature = "present"])
             : i \in {i \in DOMAIN lines : lines[i].type = "record"}}
      \union UNION {Relined(c, d, Append(lines, lines[i])) : i \in {Len(lines)} \ {0}}
      \union {[c EXCEPT !.files[d].header.prev_root = NoRoot], [c EXCEPT !.files[d].header.n_records = @ + 1],
              [c EXCEPT !.files = [e \in DOMAIN @ \ {d} |-> @[e]]]}
      \union {[c EXCEPT !.files[d].lines[i].text = "spaced"] : i \in {1} \intersect DOMAIN lines}

StatementEdits(c) ==
  LET s == c.statement
      again == compute(s.subject, s.from, s.to, c.files)
  IN  {[c EXCEPT !.statement.says = again],
       [c EXCEPT !.statement.says = [again EXCEPT !.log = s.says.log]],
       [c EXCEPT !.statement.says.counts.records = @ + 1], [c EXCEPT !.statement.says.measured = ~@],
       [c EXCEPT !.statement.says.not_measured_days = {}], [c EXCEPT !.statement.says.decline_rate = 0],
       [c EXCEPT !.statement.says.log.first = NoRoot], [c EXCEPT !.statement.schema = "v1"],
       [c EXCEPT !.statement.subject = K2]}

Edits(c) == StatementEdits(c) \union UNION {FileEdits(c, d) : d \in {1, c.statement.to} \intersect DOMAIN c.files}

\* A consistent statement that names the log's own last root says what was made:
\* the records of its subject, their verdicts and signatures at the cutoff, and
\* when the subject enrolled; a day is measured only after that.
Sound(c) ==
  LET s == c.statement.says
      to == c.statement.to
      subject == c.statement.subject
      made == c.made
      truly == {i \in DOMAIN made.records :
                  LET r == made.records[i]
                  IN  /\ r.key = subject /\ 0 <= r.created /\ r.created < cutoff(to)
                      /\ \E j \in DOMAIN made.enrolls : made.enrolls[j].key = subject /\ made.enrolls[j].at <= r.created}
  IN  s.log.last = log_root(build_days(made.enrolls, made.records, made.days)[to].header) =>
        /\ s.counts.records = Cardinality(truly)
        /\ \A v \in DOMAIN s.counts.verdict :
             s.counts.verdict[v] = Cardinality({i \in truly : made.records[i].verdict = v})
        /\ \A w \in {"present", "absent", "declined"} :
             s.counts.producer_signature[w] = Cardinality({i \in truly : state(made.records[i], cutoff(to)) = w})
        /\ s.measured <=> \E j \in DOMAIN made.enrolls :
             made.enrolls[j].key = subject /\ \E d \in 1..to \ s.not_measured_days : made.enrolls[j].at < cutoff(d)
=============================================================================
