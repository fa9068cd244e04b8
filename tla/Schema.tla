------------------------------- MODULE Schema -------------------------------
(***************************************************************************)
(* edg init (cmd/edg/initcmd.go, pkg/schema): a database's catalog is      *)
(* inspected with the queries of its dialect, the tables are sorted so     *)
(* that referenced ones come first, and a configuration is generated,      *)
(* whose sections are then run on an empty database.                       *)
(*                                                                         *)
(* A column is [name, gen], gen saying how the database fills it: "none",  *)
(* "serial" (a sequence), "identity", "computed" or "default" (a function  *)
(* of isAutoDefault).  A foreign key is [name, table, cols, ref, refCols,  *)
(* own], own being FALSE when it references a table of another schema.     *)
(***************************************************************************)
EXTENDS Naturals, Sequences, FiniteSets, SequencesExt

CONSTANTS
  Drivers,     (* what --driver may be                                      *)
  Catalogs     (* [tables, views, columns, keys, fks]: sequences of names,  *)
               (* the columns of each, the primary key of each table        *)

Supported == {"pgx", "dsql", "mysql", "mssql", "oracle", "spanner"}

ForeignKey == [name : STRING, table : STRING, cols : Seq(STRING), ref : STRING, refCols : Seq(STRING),
               own : BOOLEAN]

NoTable == "" \* what a column without a key references

(* A catalog names each table once, and the columns a key is made of.      *)
ASSUME CatalogsAssumption ==
  \A c \in Catalogs :
    /\ c.tables \in Seq(STRING) /\ IsInjective(c.tables) /\ NoTable \notin ToSet(c.tables)
    /\ DOMAIN c.columns = ToSet(c.tables) \cup c.views
    /\ \A t \in DOMAIN c.columns : c.columns[t] \in Seq([name : STRING, gen : STRING])
    /\ \A f \in c.fks :
         /\ f \in ForeignKey /\ f.table \in ToSet(c.tables) /\ (f.own => f.ref \in ToSet(c.tables))
         /\ Len(f.cols) = Len(f.refCols) /\ f.cols # <<>>
         /\ ToSet(f.cols) \subseteq {x.name : x \in ToSet(c.columns[f.table])}

VARIABLES
  driver, catalog,
  pc,
  tables,      (* tableMap: the columns and CreateStmt found so far         *)
  tableOrder,  (* tables in the order of the catalog                        *)
  inDegree, queue, sortedTables,  (* of SortTables                          *)
  config,      (* the generated sections                                    *)
  at,          (* the next statement of the section being run               *)
  exists,      (* the database: the tables that are there,                  *)
  filled,      (* and those with rows                                       *)
  failed       (* history: sections with a failed statement                 *)

inspection == <<tables, tableOrder>>
sorting    == <<inDegree, queue, sortedTables>>
database   == <<at, exists, filled, failed>>
vars       == <<driver, catalog, pc, inspection, sorting, config, database>>

Init ==
  /\ driver \in Drivers /\ catalog \in Catalogs
  /\ pc = "tables"
  /\ tables = <<>> /\ tableOrder = <<>>
  /\ inDegree = <<>> /\ queue = <<>> /\ sortedTables = <<>>
  /\ config = [up |-> <<>>, seed |-> <<>>, deseed |-> <<>>, down |-> <<>>]
  /\ at = 1 /\ exists = {} /\ filled = {} /\ failed = {}

-----------------------------------------------------------------------------
(* Inspection *)

NoRef == [table |-> NoTable, col |-> ""]

(* Base tables only.  A driver without a dialect, like mongodb, is refused.*)
Tables ==
  /\ pc = "tables" /\ driver \in Supported
  /\ tableOrder' = catalog.tables
  /\ tables' = [t \in ToSet(catalog.tables) |-> [columns |-> <<>>, ddl |-> {}, guarded |-> FALSE]]
  /\ pc' = IF catalog.tables = <<>> THEN "failed" ELSE "columns"
  /\ UNCHANGED <<driver, catalog, sorting, config, database>>

(* What each dialect's columns query lets it take for generated. *)
PgxGenerated     == {"serial"}
MysqlGenerated   == {"serial", "identity"}
OracleGenerated  == {"serial", "identity"}
SpannerGenerated == {"computed"}

Generated ==
  CASE driver \in {"pgx", "dsql"} -> PgxGenerated
    [] driver = "mysql"   -> MysqlGenerated
    [] driver = "oracle"  -> OracleGenerated
    [] driver = "spanner" -> SpannerGenerated
    [] driver = "mssql"   -> {}

(* The rows of the columns query, those of views skipped. *)
Columns ==
  /\ pc = "columns"
  /\ tables' = [t \in DOMAIN tables |-> [tables[t] EXCEPT !.columns =
       [i \in DOMAIN catalog.columns[t] |->
          [name |-> catalog.columns[t][i].name, pk |-> FALSE, ref |-> NoRef,
           default   |-> catalog.columns[t][i].gen = "default",
           generated |-> catalog.columns[t][i].gen \in Generated]]]]
  /\ pc' = IF driver = "mysql" THEN "fks" ELSE "pks"
  /\ UNCHANGED <<driver, catalog, tableOrder, sorting, config, database>>

PrimaryKeys ==
  /\ pc = "pks"
  /\ tables' = [t \in DOMAIN tables |-> [tables[t] EXCEPT !.columns =
       [i \in DOMAIN tables[t].columns |-> [tables[t].columns[i] EXCEPT
          !.pk = @ \/ tables[t].columns[i].name \in catalog.keys[t]]]]]
  /\ pc' = "fks"
  /\ UNCHANGED <<driver, catalog, tableOrder, sorting, config, database>>

(* Rows of the foreign key queries.  PostgreSQL's joins constraints by     *)
(* name alone, Spanner's every column of a key with every one it           *)
(* references; the others go by position.                                  *)
Row(f, i, g, j) == [table |-> f.table, col |-> f.cols[i],
                    ref |-> [table |-> g.ref, col |-> g.refCols[j]]]

PgxForeignKeys ==
  UNION {UNION {{Row(f, i, g, j) : i \in DOMAIN f.cols, j \in DOMAIN g.refCols} :
                  g \in {g \in catalog.fks : g.name = f.name}} : f \in catalog.fks}

SpannerForeignKeys ==
  UNION {{Row(f, i, f, j) : i, j \in DOMAIN f.cols} : f \in catalog.fks}

MysqlForeignKeys ==
  UNION {{Row(f, i, f, i) : i \in DOMAIN f.cols} : f \in catalog.fks}

MssqlForeignKeys  == MysqlForeignKeys
OracleForeignKeys == MysqlForeignKeys

ForeignKeyRows ==
  CASE driver \in {"pgx", "dsql"} -> PgxForeignKeys
    [] driver = "spanner" -> SpannerForeignKeys
    [] driver = "mysql"   -> MysqlForeignKeys
    [] driver = "mssql"   -> MssqlForeignKeys
    [] driver = "oracle"  -> OracleForeignKeys

(* A column has one Ref: the last row that names it, in whatever order the *)
(* rows come.                                                              *)
ForeignKeys ==
  /\ pc = "fks"
  /\ LET Refs(t, c) == {r.ref : r \in {r \in ForeignKeyRows : r.table = t /\ r.col = c}}
         named == {n \in UNION {{t} \X DOMAIN tables[t].columns : t \in DOMAIN tables} :
                     Refs(n[1], tables[n[1]].columns[n[2]].name) # {}}
     IN \E last \in [named -> {r.ref : r \in ForeignKeyRows}] :
          /\ \A n \in named : last[n] \in Refs(n[1], tables[n[1]].columns[n[2]].name)
          /\ tables' = [t \in DOMAIN tables |-> [tables[t] EXCEPT !.columns =
               [i \in DOMAIN @ |-> IF <<t, i>> \in named THEN [@[i] EXCEPT !.ref = last[<<t, i>>]]
                                                        ELSE @[i]]]]
  /\ pc' = IF driver = "mssql" THEN "identity" ELSE "ddl"
  /\ UNCHANGED <<driver, catalog, tableOrder, sorting, config, database>>

(* SQL Server has a query of its own for identity columns. *)
IdentityColumns ==
  /\ pc = "identity"
  /\ tables' = [t \in DOMAIN tables |-> [tables[t] EXCEPT !.columns =
       [i \in DOMAIN tables[t].columns |-> [tables[t].columns[i] EXCEPT
          !.generated = @ \/ catalog.columns[t][i].gen \in {"serial", "identity"}]]]]
  /\ pc' = "ddl"
  /\ UNCHANGED <<driver, catalog, tableOrder, sorting, config, database>>

(* CreateStmt: the keys it declares, and whether a table that is there     *)
(* already is an error.  MySQL, Oracle and CockroachDB give it themselves. *)
NativeDDL(t) ==
  [fks |-> {f \in catalog.fks : f.table = t}, guarded |-> driver = "oracle"]

(* PostgreSQL, where SHOW CREATE TABLE is an error. *)
PgxCatalogDDL(t) == [fks |-> {f \in catalog.fks : f.table = t}, guarded |-> TRUE]

(* One FOREIGN KEY clause per column. *)
Clause(f, i) == [f EXCEPT !.cols = <<f.cols[i]>>, !.refCols = <<f.refCols[i]>>]

MssqlDDL(t) ==
  [fks |-> UNION {{Clause(f, i) : i \in DOMAIN f.cols} : f \in {f \in catalog.fks : f.table = t}},
   guarded |-> FALSE]

(* Columns and primary key only. *)
SpannerDDL(t) == [fks |-> {}, guarded |-> FALSE]

FetchDDL ==
  /\ pc = "ddl"
  /\ \E ddl \in CASE driver \in {"pgx", "dsql"} -> {[t \in DOMAIN tables |-> NativeDDL(t)],
                                                   [t \in DOMAIN tables |-> PgxCatalogDDL(t)]}
                  [] driver = "mssql"   -> {[t \in DOMAIN tables |-> MssqlDDL(t)]}
                  [] driver = "spanner" -> {[t \in DOMAIN tables |-> SpannerDDL(t)]}
                  [] OTHER              -> {[t \in DOMAIN tables |-> NativeDDL(t)]} :
       tables' = [t \in DOMAIN tables |->
                    [columns |-> tables[t].columns, ddl |-> ddl[t].fks, guarded |-> ddl[t].guarded]]
  /\ pc' = "degrees"
  /\ UNCHANGED <<driver, catalog, tableOrder, sorting, config, database>>

(* A query fails, or the driver is not supported: no configuration. *)
InspectFails ==
  /\ pc \in {"tables", "columns", "pks", "fks", "identity", "ddl"}
  /\ pc' = "failed"
  /\ UNCHANGED <<driver, catalog, inspection, sorting, config, database>>

-----------------------------------------------------------------------------
(* SortTables *)

EdgesSelf(t, r) == (* mutant: a tree's table waits for itself *)
  {i \in DOMAIN tables[t].columns : tables[t].columns[i].ref.table = r}

(* The columns for which t waits for r. *)
Edges(t, r) ==
  {i \in DOMAIN tables[t].columns : r # t /\ tables[t].columns[i].ref.table = r}

Referenced == (UNION {{c.ref.table : c \in ToSet(tables[t].columns)} : t \in DOMAIN tables}) \ {NoTable}

Degrees ==
  /\ pc = "degrees"
  /\ inDegree' = [t \in DOMAIN tables |-> Cardinality(UNION {Edges(t, r) : r \in Referenced})]
  /\ queue' \in SetToSeqs({t \in DOMAIN tables : inDegree'[t] = 0})
  /\ pc' = "sort"
  /\ UNCHANGED <<driver, catalog, inspection, sortedTables, config, database>>

(* In the order in which the tables are. *)
InOrder(ts) == \A i, j \in DOMAIN ts : i < j => \E m, n \in DOMAIN tableOrder :
                 m < n /\ tableOrder[m] = ts[i] /\ tableOrder[n] = ts[j]

(* The dependents of the first table of the queue have one edge less for   *)
(* each of their columns; those without join in the order of the tables.   *)
Dequeue ==
  /\ pc = "sort" /\ queue # <<>>
  /\ LET t == Head(queue)
         left == [d \in DOMAIN tables |-> inDegree[d] - Cardinality(Edges(d, t))]
     IN /\ sortedTables' = Append(sortedTables, t)
        /\ inDegree' = left
        /\ \E ready \in SetToSeqs({d \in DOMAIN tables : Edges(d, t) # {} /\ left[d] = 0}) :
             InOrder(ready) /\ queue' = Tail(queue) \o ready
  /\ UNCHANGED <<driver, catalog, pc, inspection, config, database>>

Cyclic ==
  /\ pc = "sort" /\ queue = <<>> /\ Len(sortedTables) # Len(tableOrder)
  /\ pc' = "cyclic"
  /\ UNCHANGED <<driver, catalog, inspection, sorting, config, database>>

-----------------------------------------------------------------------------
(* Generate *)

Up == [i \in DOMAIN sortedTables |-> [table |-> sortedTables[i], fks |-> tables[sortedTables[i]].ddl,
                                      guarded |-> tables[sortedTables[i]].guarded]]

(* Columns that need a value: not generated, without an automatic default. *)
SeedableColumns(t) == {i \in DOMAIN tables[t].columns :
                         ~tables[t].columns[i].generated /\ ~tables[t].columns[i].default}

Seed == LET kept == SelectSeq(sortedTables, LAMBDA t : SeedableColumns(t) # {}) IN
        [i \in DOMAIN kept |-> [table |-> kept[i], columns |-> SeedableColumns(kept[i])]]

Truncates == driver \in {"pgx", "dsql", "oracle"}

(* The last statement of PostgreSQL's truncation, of the first table,      *)
(* cascades.                                                               *)
Deseed ==
  LET n == Len(sortedTables) IN
  [i \in 1 .. n |-> [table |-> Reverse(sortedTables)[i],
                     cascade |-> driver \in {"pgx", "dsql"} /\ i = n]]

DownForward == [i \in DOMAIN sortedTables |-> [table |-> sortedTables[i]]] (* mutant *)

Down == [i \in DOMAIN sortedTables |-> [table |-> Reverse(sortedTables)[i]]]

Generate ==
  /\ pc = "sort" /\ queue = <<>> /\ Len(sortedTables) = Len(tableOrder)
  /\ config' = [up |-> Up, seed |-> Seed, deseed |-> Deseed, down |-> Down]
  /\ pc' = "up"
  /\ UNCHANGED <<driver, catalog, inspection, sorting, database>>

-----------------------------------------------------------------------------
(* The sections run on a database.  A failed statement ends its section.   *)

Sections == <<"up", "seed", "deseed", "down", "done">>
After(s) == Sections[(CHOOSE i \in DOMAIN Sections : Sections[i] = s) + 1]

Statement == config[pc][at]

(* Another table that is there has a key into t. *)
ReferencedBy(t, ts) ==
  \E u \in exists \cap ts : u # t /\ \E f \in tables[u].ddl : f.own /\ f.ref = t

(* CREATE TABLE: the tables it references are there; a key references all  *)
(* of a key; the table is not there.                                       *)
Creates(s) ==
  /\ \A f \in s.fks : f.own => f.ref \in exists \cup {s.table}
  /\ \A f \in s.fks : \E g \in catalog.fks : g.table = f.table /\ g.cols = f.cols
  /\ s.guarded \/ s.table \notin exists

(* TRUNCATE refuses a table with keys into it, DELETE rows with rows that  *)
(* reference them.                                                         *)
Empties(s) ==
  /\ s.table \in exists
  /\ IF Truncates THEN s.cascade \/ ~ReferencedBy(s.table, DOMAIN tables)
     ELSE ~(s.table \in filled /\ ReferencedBy(s.table, filled))

(* DROP TABLE IF EXISTS; Oracle's drops the keys into it as well. *)
Drops(s) == driver = "oracle" \/ ~ReferencedBy(s.table, DOMAIN tables)

Works(s) ==
  CASE pc = "up"     -> Creates(s)
    [] pc = "seed"   -> s.table \in exists
    [] pc = "deseed" -> Empties(s)
    [] pc = "down"   -> Drops(s)

Execute ==
  /\ pc \in DOMAIN config /\ at <= Len(config[pc]) /\ Works(Statement)
  /\ exists' = CASE pc = "up"   -> exists \cup {Statement.table}
                 [] pc = "down" -> exists \ {Statement.table}
                 [] OTHER       -> exists
  /\ filled' = CASE pc = "seed"   -> filled \cup {Statement.table}
                 [] pc = "deseed" -> IF Statement.cascade THEN {} ELSE filled \ {Statement.table}
                 [] pc = "down"   -> filled \ {Statement.table}
                 [] OTHER         -> filled
  /\ at' = at + 1
  /\ UNCHANGED <<driver, catalog, pc, inspection, sorting, config, failed>>

(* The database refuses; of an INSERT also for its made-up values.         *)
Refuse ==
  /\ pc \in DOMAIN config /\ at <= Len(config[pc])
  /\ ~Works(Statement) \/ pc = "seed"
  /\ failed' = failed \cup {pc}
  /\ pc' = After(pc) /\ at' = 1
  /\ UNCHANGED <<driver, catalog, inspection, sorting, config, exists, filled>>

SectionEnds ==
  /\ pc \in DOMAIN config /\ at > Len(config[pc])
  /\ pc' = After(pc) /\ at' = 1
  /\ UNCHANGED <<driver, catalog, inspection, sorting, config, exists, filled, failed>>

Next ==
  \/ Tables \/ Columns \/ PrimaryKeys \/ ForeignKeys \/ IdentityColumns \/ FetchDDL
  \/ InspectFails \/ Degrees \/ Dequeue \/ Cyclic \/ Generate
  \/ Execute \/ Refuse \/ SectionEnds

Spec == Init /\ [][Next]_vars

-----------------------------------------------------------------------------
(* Properties *)

(* An order in which every table comes after those its columns reference;  *)
(* a reference to a table that was not inspected has no such order.        *)
Orders ==
  {o \in SetToSeqs(DOMAIN tables) :
     \A i \in DOMAIN o : \A c \in ToSet(tables[o[i]].columns) :
       c.ref.table \in {NoTable, o[i]} \cup {o[j] : j \in 1 .. i - 1}}

(* SortTables finds such an order when there is one, whichever order the   *)
(* map of tables is walked in, and calls the tables cyclic exactly when    *)
(* there is none: self-references and several keys to one table are no     *)
(* cycles.                                                                 *)
SortExact ==
  /\ pc = "cyclic" => Orders = {}
  /\ pc = "up" => sortedTables \in Orders

(* The keys are as the inspection takes them: a column is in one of them,  *)
(* their names differ, and SQL Server's have one column.                   *)
Regular ==
  /\ \A f, g \in catalog.fks : f # g =>
       f.name # g.name /\ (f.table = g.table => ToSet(f.cols) \cap ToSet(g.cols) = {})
  /\ driver = "mssql" => \A f \in catalog.fks : Len(f.cols) = 1

(* The generated up and down run through in their order, for each dialect, *)
(* and leave no table, whatever the seed managed to insert; deseed too,    *)
(* and leaves no row, in the dialects where it deletes rows (MySQL, SQL    *)
(* Server, Spanner).  Nothing is said of deseed for PostgreSQL, DSQL and   *)
(* Oracle: their TRUNCATE refuses referenced tables, with rows or without. *)
GeneratedRuns ==
  Regular =>
    /\ "up" \notin failed /\ "down" \notin failed
    /\ ~Truncates => "deseed" \notin failed
    /\ pc = "down" /\ at = 1 /\ ~Truncates => filled = {}
    /\ pc = "done" => exists = {}
=============================================================================
