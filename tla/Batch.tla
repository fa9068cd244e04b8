------------------------------- MODULE Batch --------------------------------
(***************************************************************************)
(* A section run on a database (runSection of pkg/env): each query's arg   *)
(* sets, single, multiplied out (ref_each, batch) or batched (count and    *)
(* size), become statements that an adapter of pkg/db executes, in a       *)
(* transaction or not.  Worker abstracts all this to calls that succeed or *)
(* fail; here the rows are told apart.                                     *)
(***************************************************************************)
EXTENDS Integers, Sequences, FiniteSets, SequencesExt, Statement

CONSTANTS
  Setups,      (* [driver, tx, section, queries], what a section may be;    *)
               (* a query is [kind, reads, named, prepared, json, args,     *)
               (* text, quoting] with text in Statement's tokens            *)
  Counts,      (* what the count of a batch may come to                     *)
  Sizes,       (* what its size may come to; 0: not given                   *)
  Lists,       (* lengths a list of ref_each or batch may have              *)
  FirstBatch   (* documents in the first batch of a cursor of MongoDB       *)

Drivers == {"pgx", "mysql", "mssql", "cassandra", "mongodb"}

ASSUME LengthsAssumption ==
  Counts \subseteq Int /\ Sizes \subseteq Int /\ Lists \subseteq Nat /\ FirstBatch \in Nat \ {0}

(* validateTransactions: no batches and no prepared statements in one. *)
ASSUME SetupsAssumption == \A s \in Setups :
  /\ s.driver \in Drivers
  /\ s.queries \in Seq(ToSet(s.queries))
  /\ \A q \in ToSet(s.queries) :
       q.kind \in {"plain", "each", "batch"} /\ (s.tx => q.kind # "batch" /\ ~q.prepared)

VARIABLES
  setup,
  pc, qi,      (* where the section is                                      *)
  sets,        (* arg sets of the query to go, each a sequence of rows      *)
  units,       (* what the adapter has yet to send for the arg set          *)
  stmts,       (* Env.stmtCache: the queries with a prepared statement      *)
  pending,     (* rows written in the transaction                           *)
  applied,     (* rows the database holds                                   *)
  captured,    (* Env.capturedRows                                          *)
  datasets,    (* Env.env: rows by query                                    *)
  results,     (* what was reported: [query, ok, count]                     *)
  outcome,
  produced,    (* the arg sets of each query so far, in order               *)
  wanted       (* history: the rows each query was asked for                *)

batchVars == <<setup, pc, qi, sets, units, stmts, pending, applied, captured,
          datasets, results, outcome, produced, wanted>>

Query == setup.queries[qi]

InitBatch ==
  /\ setup \in Setups
  /\ pc = "begin" /\ qi = 1 /\ outcome = "running"
  /\ sets = <<>> /\ units = <<>> /\ stmts = {}
  /\ pending = <<>> /\ applied = <<>>
  /\ captured = <<>> /\ datasets = <<>> /\ results = <<>>
  /\ produced = <<>> /\ wanted = <<>>

SetDataset(q, rows) == datasets' = [x \in DOMAIN datasets \cup {q} |-> IF x = q THEN rows ELSE datasets[x]]

-----------------------------------------------------------------------------
(* Ends of the section *)

End(o) == pc' = "ended" /\ outcome' = o

Report(ok, n) == results' = Append(results, [query |-> qi, ok |-> ok, count |-> n])

(* The first error is reported and ends the section; the caller rolls back.*)
Done(n) == Len(produced[n]) - Len(sets)

Fail(n) == /\ End("failed") /\ pending' = <<>> /\ Report(FALSE, n)
           /\ UNCHANGED <<setup, qi, sets, stmts, datasets, wanted>>

-----------------------------------------------------------------------------
Begin ==
  /\ pc = "begin"
  /\ \/ pc' = "query" /\ UNCHANGED outcome
     \/ setup.tx /\ setup.driver # "cassandra" /\ End("failed")
  /\ UNCHANGED <<setup, qi, sets, units, stmts, pending, applied, captured,
                 datasets, results, produced, wanted>>

-----------------------------------------------------------------------------
(* Arg sets *)

(* Integer division in Go. *)
Quotient(a, b) == IF a >= 0 THEN a \div b ELSE -((-a) \div b)

BatchSize(count, size) == IF size <= 0 THEN count ELSE size

(* No division by zero, and no slice of negative length. *)
Fits(count, size) ==
  LET s == BatchSize(count, size) IN s > 0 /\ Quotient(count + s - 1, s) >= 0

BatchesFloor(n, count, size) == (* mutant: the last, smaller batch is forgotten *)
  [b \in 1 .. Quotient(count, BatchSize(count, size)) |->
     LET s == BatchSize(count, size) IN [k \in 1 .. s |-> <<n, (b - 1) * s + k>>]]

(* generateBatchArgs: the rows of query n in batches of size, the last one *)
(* smaller.                                                                *)
Batches(n, count, size) ==
  LET s == BatchSize(count, size)
      Remaining(b) == count - b * s
      N(b) == IF Remaining(b) < s THEN Remaining(b) ELSE s
  IN [b \in 1 .. Quotient(count + s - 1, s) |->
       [k \in 1 .. N(b - 1) |-> <<n, (b - 1) * s + k>>]]

(* GenerateArgs: every combination of the lists' elements, the last list   *)
(* fastest; without lists one arg set.                                     *)
Combinations(n, lens) ==
  LET product[k \in 1 .. Len(lens) + 1] == IF k > Len(lens) THEN 1 ELSE lens[k] * product[k + 1] IN
  [c \in 1 .. product[1] |->
     <<<<n>> \o [k \in DOMAIN lens |-> (((c - 1) \div product[k + 1]) % lens[k]) + 1]>>]

(* Arg sets of q, the n-th query, and which rows they are to hold. *)
ArgSets(n, q) ==
  CASE q.kind = "batch" ->
         {[args |-> Batches(n, cs[1], cs[2]), rows |-> {<<n, k>> : k \in 1 .. cs[1]}] :
            cs \in {cs \in Counts \X Sizes : Fits(cs[1], cs[2])}}
    [] q.kind = "each"  ->
         {[args |-> Combinations(n, l),
           rows |-> {<<n, i, j>> : i \in 1 .. l[1], j \in 1 .. l[2]}] : l \in [1 .. 2 -> Lists]}
    [] q.kind = "plain" -> {[args |-> Combinations(n, <<>>), rows |-> {<<n>>}]}

(* getOrPrepare is asked for queries that are not expanded. *)
UsePrepared(q) == q.prepared /\ q.kind = "plain"

-----------------------------------------------------------------------------
(* Statements of query q in section s *)

ShouldInline(q) ==
  ~UsePrepared(q) /\ (q.kind # "plain" \/ <<"$", 1>> \in ToSet(q.text))

(* The statement of an arg set, its bind parameters filled in. *)
Text(s, q, rows) ==
  LET args == IF q.kind = "batch" THEN BatchArgs(q, rows, s.driver)
                                  ELSE PlainArgs(q, Head(rows), s.driver)
  IN IF ShouldInline(q) THEN Inline(q.text, args, s.driver)
     ELSE IF UsePrepared(q)
       THEN Bind(TranslatePlaceholders(q.text, s.driver), Head(rows), s.driver)
       ELSE Bind(q.text, Head(rows), s.driver)

(* What an adapter sends for it, statements sent together in one unit.     *)
(* SQL and MongoDB split a batch and send row by row, Cassandra sends the  *)
(* rows in one unlogged batch; QueryContext never splits, and neither does *)
(* a transaction of Cassandra.                                             *)
SqlUnits(q, t) ==
  IF q.reads THEN <<<<t>>>> ELSE LET rows == ExpandBatchQuery(t) IN [r \in DOMAIN rows |-> <<rows[r]>>]

CassandraUnits(s, q, t) ==
  IF q.reads \/ s.tx THEN <<<<t>>>> ELSE <<ExpandBatchQuery(t)>>

MongoUnits(q, t) == SqlUnits(q, t)

Units(s, q, t) ==
  CASE s.driver = "cassandra" -> CassandraUnits(s, q, t)
    [] s.driver = "mongodb"   -> MongoUnits(q, t)
    [] OTHER                  -> SqlUnits(q, t)

(* Statements that return rows write none in CQL and MongoDB's commands.   *)
Sql(s)       == s.driver \notin {"cassandra", "mongodb"}
Writes(s, q) == ~q.reads \/ Sql(s)

(* What a part of a unit writes: nothing where the database refuses it.    *)
Effect(s, q, unit, part) ==
  FlattenSeq([k \in DOMAIN unit |->
    IF k \in part /\ Writes(s, q) /\ ~Broken(q, unit[k]) THEN RowsWritten(q, unit[k]) ELSE <<>>])

(* A batch of MongoDB of which a value holds a double quote: the escaped   *)
(* quote ends the string for findBatchGroups (batch.go:34).                *)
Misread(s, q, rows) ==
  /\ s.driver = "mongodb" /\ q.kind = "batch"
  /\ \E r \in ToSet(rows), i \in 1 .. q.args : <<Last(r), i>> \in q.quoting

(* QueryContext does not expand. *)
Splits(q, t) == q.reads \/ Expandable(t)

(* What is sent: nothing after a unit that the database refuses.           *)
Tried(s, q, rows) ==
  LET us  == Units(s, q, Text(s, q, rows))
      bad == {k \in DOMAIN us : \E t \in ToSet(us[k]) : Broken(q, t)}
  IN IF bad = {} THEN us ELSE SubSeq(us, 1, Min(bad))

Refused(q, us) == \E u \in ToSet(us) : u # <<>> /\ \A t \in ToSet(u) : Broken(q, t)

(* The templates are of the kinds the documentation shows: the statements  *)
(* an adapter makes of an arg set write its rows, and one that returns no  *)
(* rows is read as it was meant.  Of a misread batch the first rows are    *)
(* written at most, and one of the statements is refused.                  *)
ASSUME TemplatesAssumption == \A s \in Setups : \A n \in DOMAIN s.queries :
  LET q == s.queries[n] IN
  \A new \in ArgSets(n, q) : \A rows \in ToSet(new.args) :
    LET misread == Misread(s, q, rows)
        us      == Tried(s, q, rows)
        written == FlattenSeq([k \in DOMAIN us |-> Effect(s, q, us[k], DOMAIN us[k])])
    IN IF Splits(q, Text(s, q, rows))
       THEN /\ us \in Seq(ToSet(us))
            /\ \A u \in ToSet(us) : u \in Seq(ToSet(u)) /\ \A t \in ToSet(u) :
                 IF Broken(q, t) THEN misread \/ q.reads
                 ELSE Writes(s, q) => RowsWritten(q, t) \in Seq(ToSet(rows))
            /\ Writes(s, q) =>
                 written = rows \/ (misread /\ IsPrefix(written, rows) /\ Refused(q, us))
       ELSE misread

-----------------------------------------------------------------------------
(* A query starts *)

GenerateArgsKeeps(args) == (* mutant: capturedRows is not reset *)
  captured' = IF Query.kind = "batch" /\ Query.named THEN captured \o FlattenSeq(args) ELSE captured

GenerateArgs(args) ==
  captured' = IF Query.kind = "batch" /\ Query.named THEN FlattenSeq(args) ELSE captured

StartQuery ==
  /\ pc = "query" /\ qi <= Len(setup.queries)
  /\ \E new \in ArgSets(qi, Query) :
       /\ GenerateArgs(new.args)
       /\ sets' = new.args /\ produced' = Append(produced, new.args)
       /\ wanted' = Append(wanted, new.rows)
  /\ UsePrepared(Query) => Sql(setup)
  /\ stmts' = IF UsePrepared(Query) THEN stmts \cup {qi} ELSE stmts
  /\ pc' = "set"
  /\ UNCHANGED <<setup, qi, units, pending, applied, datasets, results, outcome>>

(* An expression fails, or ref_each does; the statement cannot be prepared *)
(* (by an adapter other than SQL never can).                               *)
StartFails ==
  /\ pc = "query" /\ qi <= Len(setup.queries)
  /\ \/ UNCHANGED captured
     \/ \E new \in ArgSets(qi, Query) : Query.kind = "batch" /\ captured' \in Prefixes(FlattenSeq(new.args))
  /\ Fail(0)
  /\ UNCHANGED <<units, applied, produced>>

(* Count and size without a batch to make of them, or a statement with     *)
(* fewer parts than rows: the process dies.                                *)
Panic ==
  /\ \/ /\ pc = "query" /\ qi <= Len(setup.queries) /\ Query.kind = "batch"
        /\ \E c \in Counts, s \in Sizes : ~Fits(c, s)
     \/ /\ pc = "set" /\ sets # <<>>
        /\ ~Splits(Query, Text(setup, Query, Head(sets)))
  /\ End("panicked") /\ pending' = <<>>
  /\ UNCHANGED <<setup, qi, sets, units, stmts, applied, captured, datasets, results, produced, wanted>>

StartSet ==
  /\ pc = "set" /\ sets # <<>>
  /\ Splits(Query, Text(setup, Query, Head(sets)))
  /\ units' = Tried(setup, Query, Head(sets))
  /\ pc' = "send"
  /\ UNCHANGED <<setup, qi, sets, stmts, pending, applied, captured, datasets,
                 results, outcome, produced, wanted>>

WriteThrough(rows) == (* mutant: a transaction executes on the database itself *)
  applied' = applied \o rows /\ UNCHANGED pending

(* To the transaction, or to the database at once. *)
Write(rows) ==
  IF setup.tx THEN pending' = pending \o rows /\ UNCHANGED applied
              ELSE applied' = applied \o rows /\ UNCHANGED pending

(* The database takes a unit.  A transaction of Cassandra only notes it.   *)
Send ==
  /\ pc = "send" /\ units # <<>>
  /\ \/ ~\E t \in ToSet(Head(units)) : Broken(Query, t)
     \/ setup.tx /\ setup.driver = "cassandra" /\ ~Query.reads
  /\ Write(Effect(setup, Query, Head(units), DOMAIN Head(units)))
  /\ units' = Tail(units)
  /\ UNCHANGED <<setup, pc, qi, sets, stmts, captured, datasets, results, outcome, produced, wanted>>

(* An error, before or after the statement took effect; of an unlogged     *)
(* batch any part may have.                                                *)
SendFails ==
  /\ pc = "send" /\ units # <<>>
  /\ ~(setup.tx /\ setup.driver = "cassandra" /\ ~Query.reads)
  /\ \E part \in SUBSET DOMAIN Head(units) :
       applied' = IF setup.tx THEN applied ELSE applied \o Effect(setup, Query, Head(units), part)
  /\ Fail(Done(qi))
  /\ UNCHANGED <<units, captured, produced>>

(* The rows a query returns: those it wrote, in SQL; those it finds in     *)
(* Cassandra, where it does not see its transaction's writes; and of those *)
(* it finds in MongoDB the first batch, or the reply itself for want of a  *)
(* row.                                                                    *)
SqlRows == Head(sets)
CassandraRows == applied
MongoRows ==
  LET found == applied \o pending IN
  IF found = <<>> THEN <<<<>>>> ELSE SubSeq(found, 1, IF Len(found) < FirstBatch THEN Len(found) ELSE FirstBatch)

ReadRows ==
  CASE setup.driver = "cassandra" -> CassandraRows
    [] setup.driver = "mongodb"   -> MongoRows
    [] OTHER                      -> SqlRows

(* Query keeps them under the query's name: those of the last arg set, as  *)
(* each overwrites the one before.                                         *)
EndSet ==
  /\ pc = "send" /\ units = <<>>
  /\ IF Query.reads THEN SetDataset(qi, ReadRows) ELSE UNCHANGED datasets
  /\ sets' = Tail(sets) /\ pc' = "set"
  /\ UNCHANGED <<setup, qi, units, stmts, pending, applied, captured, results, outcome, produced, wanted>>

-----------------------------------------------------------------------------
(* End of a query *)

(* A named query of the seed leaves its rows as a dataset, but a           *)
(* query_batch keeps what it returned.                                     *)
CaptureSeed ==
  LET seeds == setup.section = "seed" /\ Query.named
      rows  == FlattenSeq(produced[qi])
  IN IF seeds /\ Query.kind = "batch" /\ ~Query.reads /\ captured # <<>>
       THEN SetDataset(qi, captured) /\ captured' = <<>>
     ELSE IF seeds /\ Query.kind # "batch" /\ rows # <<>>
       THEN SetDataset(qi, rows) /\ UNCHANGED captured
     ELSE UNCHANGED <<datasets, captured>>

EndQuery ==
  /\ pc = "set" /\ sets = <<>>
  /\ CaptureSeed
  /\ Report(TRUE, Len(produced[qi]))
  /\ qi' = qi + 1 /\ pc' = "query"
  /\ UNCHANGED <<setup, sets, units, stmts, pending, applied, outcome, produced, wanted>>

(* The worker or command is through; Env.Close drops the statements.       *)
Finish ==
  /\ pc = "query" /\ qi > Len(setup.queries)
  /\ \/ End("done") /\ applied' = applied \o pending
     \/ setup.tx /\ End("failed") /\ applied' \in {applied, applied \o pending}
  /\ pending' = <<>> /\ stmts' = {}
  /\ UNCHANGED <<setup, qi, sets, units, captured, datasets, results, produced, wanted>>

NextBatch ==
  \/ Begin \/ StartQuery \/ StartFails \/ Panic \/ StartSet \/ Send \/ SendFails
  \/ EndSet \/ EndQuery \/ Finish

SpecBatch == InitBatch /\ [][NextBatch]_batchVars

-----------------------------------------------------------------------------
(* Properties *)

Written == applied \o pending
Due == UNION {wanted[n] : n \in {n \in DOMAIN wanted : Writes(setup, setup.queries[n])}}

(* A section that succeeds has written every row it was asked for once and *)
(* no other, whatever count, size, template, driver and lists were; no row *)
(* is ever written twice or with the values of another; and no statement   *)
(* of an exec query is one the database cannot read, but for a batch of    *)
(* MongoDB with a double quote in a value (convert.go:246, batch.go:34):   *)
(* that one may fail.                                                      *)
RowsOnce ==
  /\ IsInjective(Written)
  /\ ToSet(Written) \subseteq Due
  /\ outcome = "done" => ToSet(applied) = Due
  /\ pc = "send" /\ ~Query.reads /\ ~Misread(setup, Query, Head(sets)) =>
       \A u \in ToSet(units) : \A t \in ToSet(u) : ~Broken(Query, t)

(* With any driver a transaction leaves all of its rows or none, whichever *)
(* statement of it failed (docs/content/docs/configuration/queries.md:664  *)
(* for Cassandra, :671 for MongoDB).                                       *)
TxAllOrNothing ==
  setup.tx /\ applied # <<>> =>
    pc = "ended" /\ Len(wanted) = Len(setup.queries) /\ ToSet(applied) = Due

(* A dataset holds rows of its own query that are in the database, so that *)
(* a later ref_* of the seed finds what it refers to; the one of an exec   *)
(* query has all of them.                                                  *)
DatasetsWritten ==
  \A n \in {n \in DOMAIN datasets : Writes(setup, setup.queries[n])} :
    /\ ToSet(datasets[n]) \subseteq wanted[n]
    /\ outcome = "running" => ToSet(datasets[n]) \subseteq ToSet(Written)
    /\ ~setup.queries[n].reads => ToSet(datasets[n]) = wanted[n]
=============================================================================
