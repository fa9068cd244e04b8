----------------------------- MODULE SchemaProofs -----------------------------
(***************************************************************************)
(* For any catalogues: SortTables, Kahn's algorithm, orders the inspected  *)
(* tables exactly when they can be ordered, and the generated sections run *)
(* on a database.                                                          *)
(***************************************************************************)
EXTENDS Schema, FiniteSetTheorems, SequenceTheorems, TLAPS

-----------------------------------------------------------------------------
(* Sequences that name things once *)

LEMMA Least ==
  ASSUME NEW S \in SUBSET Nat, S # {}
  PROVE  \E i \in S : \A j \in S : ~(j < i)
<1>1. \E x \in S : \A y \in S : ~(<<y, x>> \in OpToRel(<, Nat))
  BY NatLessThanWellFounded, WFMin
<1> QED BY <1>1 DEF OpToRel

LEMMA NamedOnce ==
  ASSUME NEW T, NEW q \in Seq(T), IsInjective(q)
  PROVE  /\ ToSet(q) \subseteq T /\ IsFiniteSet(ToSet(q)) /\ Cardinality(ToSet(q)) = Len(q)
         /\ Len(q) \in Nat /\ DOMAIN q = 1 .. Len(q)
<1>1. Len(q) \in Nat /\ DOMAIN q = 1 .. Len(q) /\ q \in [1 .. Len(q) -> T]
  OBVIOUS
<1>2. IsFiniteSet(1 .. Len(q)) /\ Cardinality(1 .. Len(q)) = Len(q)
  BY <1>1, FS_Interval
<1>3. q \in Surjection(1 .. Len(q), ToSet(q))
  BY <1>1 DEF Surjection, ToSet
<1>4. q \in Injection(1 .. Len(q), ToSet(q))
  BY <1>1, <1>3 DEF Injection, Surjection, IsInjective
<1>5. IsFiniteSet(ToSet(q)) /\ Cardinality(ToSet(q)) = Cardinality(1 .. Len(q))
  BY <1>2, <1>3, <1>4, FS_Surjection
<1> QED BY <1>1, <1>2, <1>5 DEF ToSet

LEMMA AllInOrder ==
  ASSUME NEW S, IsFiniteSet(S)
  PROVE  \A q : q \in SetToSeqs(S) <=> q \in Seq(S) /\ IsInjective(q) /\ ToSet(q) = S
<1> DEFINE n == Cardinality(S)
<1>1. n \in Nat
  BY FS_CardinalityType
<1>2. IsFiniteSet(1 .. n) /\ Cardinality(1 .. n) = n
  BY <1>1, FS_Interval
<1>3. ASSUME NEW q \in SetToSeqs(S)
      PROVE  q \in Seq(S) /\ IsInjective(q) /\ ToSet(q) = S
  <2>1. q \in [1 .. n -> S] /\ \A i, j \in 1 .. n : i # j => q[i] # q[j]
    BY DEF SetToSeqs
  <2> HIDE DEF n
  <2>2. q \in Seq(S) /\ DOMAIN q = 1 .. n /\ IsInjective(q)
    BY <1>1, <2>1 DEF IsInjective
  <2>3. q \in Injection(1 .. n, S)
    BY <2>1, <2>2 DEF Injection
  <2>4. q \in Surjection(1 .. n, S)
    BY <1>2, <2>3, FS_Injection DEF n
  <2>5. ToSet(q) = S
    BY <2>1, <2>2, <2>4 DEF Surjection, ToSet
  <2> QED BY <2>2, <2>5
<1>4. ASSUME NEW q, q \in Seq(S), IsInjective(q), ToSet(q) = S
      PROVE  q \in SetToSeqs(S)
  <2>1. Len(q) = n /\ DOMAIN q = 1 .. Len(q)
    BY <1>4, NamedOnce
  <2>2. q \in [1 .. n -> S]
    BY <1>4, <2>1
  <2> QED BY <1>4, <2>1, <2>2 DEF SetToSeqs, IsInjective
<1> QED BY <1>3, <1>4

(* Two queues that share nothing, one after the other. *)
LEMMA JoinedOnce ==
  ASSUME NEW T, NEW p \in Seq(T), NEW q \in Seq(T), IsInjective(p), IsInjective(q),
         ToSet(p) \cap ToSet(q) = {}
  PROVE  /\ p \o q \in Seq(T) /\ IsInjective(p \o q)
         /\ ToSet(p \o q) = ToSet(p) \cup ToSet(q)
<1> DEFINE m == Len(p)
           n == Len(q)
<1>1. m \in Nat /\ n \in Nat /\ DOMAIN p = 1 .. m /\ DOMAIN q = 1 .. n
  OBVIOUS
<1>2. /\ p \o q \in Seq(T) /\ DOMAIN (p \o q) = 1 .. m + n
      /\ \A i \in 1 .. m + n : (p \o q)[i] = IF i <= m THEN p[i] ELSE q[i - m]
  BY <1>1, ConcatProperties
<1> DEFINE r == p \o q
<1> HIDE DEF m, n, r
<1>3. \A i \in 1 .. m : i \in 1 .. m + n /\ r[i] = p[i]
  BY <1>1, <1>2 DEF r
<1>4. \A i \in 1 .. n : i + m \in 1 .. m + n /\ r[i + m] = q[i]
  <2> SUFFICES ASSUME NEW i \in 1 .. n PROVE i + m \in 1 .. m + n /\ r[i + m] = q[i]
    OBVIOUS
  <2>1. i + m \in 1 .. m + n /\ ~(i + m <= m) /\ (i + m) - m = i
    BY <1>1
  <2>2. r[i + m] = q[(i + m) - m]
    BY <1>2, <2>1 DEF r
  <2> QED BY <2>1, <2>2
<1>5. \A i \in 1 .. m + n : i \in 1 .. m \/ (i - m \in 1 .. n /\ (i - m) + m = i)
  BY <1>1
<1>6. \A i \in 1 .. m + n : (i \in 1 .. m /\ r[i] = p[i]) \/ (i - m \in 1 .. n /\ r[i] = q[i - m] /\ (i - m) + m = i)
  <2> SUFFICES ASSUME NEW i \in 1 .. m + n, i \notin 1 .. m
               PROVE  i - m \in 1 .. n /\ r[i] = q[i - m] /\ (i - m) + m = i
    BY <1>3
  <2>1. i - m \in 1 .. n /\ (i - m) + m = i
    BY <1>5
  <2>2. r[(i - m) + m] = q[i - m]
    BY <1>4, <2>1
  <2> QED BY <2>1, <2>2
<1>7. ToSet(r) = ToSet(p) \cup ToSet(q)
  <2>1. ToSet(r) = {r[i] : i \in 1 .. m + n} /\ ToSet(p) = {p[i] : i \in 1 .. m} /\ ToSet(q) = {q[i] : i \in 1 .. n}
    BY <1>1, <1>2 DEF ToSet, r
  <2>2. \A i \in 1 .. m + n : r[i] \in {p[j] : j \in 1 .. m} \cup {q[j] : j \in 1 .. n}
    BY <1>6
  <2>3. \A i \in 1 .. m : p[i] \in {r[j] : j \in 1 .. m + n}
    BY <1>3
  <2>4. \A i \in 1 .. n : q[i] \in {r[j] : j \in 1 .. m + n}
    BY <1>4
  <2> QED BY <2>1, <2>2, <2>3, <2>4
<1>8. IsInjective(r)
  <2> SUFFICES ASSUME NEW i \in 1 .. m + n, NEW j \in 1 .. m + n, r[i] = r[j]
               PROVE  i = j
    BY <1>2 DEF IsInjective, r
  <2>1. \A x \in 1 .. m, y \in 1 .. n : p[x] # q[y]
    BY <1>1 DEF ToSet
  <2>2. CASE i \in 1 .. m /\ j \in 1 .. m
    BY <1>1, <1>3, <2>2 DEF IsInjective
  <2>3. CASE i \notin 1 .. m /\ j \notin 1 .. m
    <3>1. i - m = j - m
      BY <1>1, <1>6, <2>3 DEF IsInjective
    <3> QED BY <1>6, <2>3, <3>1
  <2>4. CASE i \in 1 .. m /\ j \notin 1 .. m
    BY <1>3, <1>6, <2>1, <2>4
  <2>5. CASE i \notin 1 .. m /\ j \in 1 .. m
    BY <1>3, <1>6, <2>1, <2>5
  <2> QED BY <2>2, <2>3, <2>4, <2>5
<1> QED BY <1>2, <1>7, <1>8 DEF r

-----------------------------------------------------------------------------
(* Inspection *)

Inspecting == {"columns", "pks", "fks", "identity", "ddl"}
Sorting    == {"degrees", "sort", "cyclic"}
Running    == {"up", "seed", "deseed", "down", "done"}

Inspected == pc \notin {"tables", "failed"}

IsTable(x)  == x = [columns |-> x.columns, ddl |-> x.ddl, guarded |-> x.guarded]
IsColumn(c) == c = [name |-> c.name, pk |-> c.pk, ref |-> c.ref, default |-> c.default,
                    generated |-> c.generated]

(* The columns of a table are those of the catalog. *)
ColumnsRead(t) ==
  /\ DOMAIN tables[t].columns = DOMAIN catalog.columns[t]
  /\ \A i \in DOMAIN catalog.columns[t] :
       IsColumn(tables[t].columns[i]) /\ tables[t].columns[i].name = catalog.columns[t][i].name

(* A column of a key references what the key does. *)
KeysRead ==
  \A f \in catalog.fks : \A i \in DOMAIN tables[f.table].columns :
    tables[f.table].columns[i].name \in ToSet(f.cols) => tables[f.table].columns[i].ref.table = f.ref

InspectInv ==
  /\ pc \in {"tables", "failed"} \cup Inspecting \cup Sorting \cup Running
  /\ catalog \in Catalogs
  /\ Inspected => /\ driver \in Supported /\ tableOrder = catalog.tables
                  /\ DOMAIN tables = ToSet(catalog.tables)
                  /\ \A t \in DOMAIN tables : IsTable(tables[t])
  /\ Inspected /\ pc # "columns" => \A t \in DOMAIN tables : ColumnsRead(t)
  /\ pc \in {"identity", "ddl"} \cup Sorting \cup Running => (Regular => KeysRead)
  /\ pc \in Sorting \cup Running =>
       (Regular => \A t \in DOMAIN tables : tables[t].ddl \subseteq {f \in catalog.fks : f.table = t})

-----------------------------------------------------------------------------
(* Sorting *)

(* The columns for which t still waits. *)
Waits(t) == {i \in DOMAIN tables[t].columns :
               tables[t].columns[i].ref.table \notin {NoTable, t} \cup ToSet(sortedTables)}

(* Every sorted table comes after those its columns reference. *)
Ordered ==
  \A i \in DOMAIN sortedTables : \A c \in ToSet(tables[sortedTables[i]].columns) :
    c.ref.table \in {NoTable, sortedTables[i]} \cup {sortedTables[j] : j \in 1 .. i - 1}

(* The degrees count the columns waited for; a table is sorted or queued   *)
(* once it waits for none.                                                 *)
SortInv ==
  /\ pc \in {"tables", "failed", "degrees"} \cup Inspecting => sortedTables = <<>>
  /\ pc \in {"sort", "cyclic"} \cup Running =>
       /\ sortedTables \in Seq(DOMAIN tables) /\ IsInjective(sortedTables)
       /\ Ordered
  /\ pc \in {"sort", "cyclic"} =>
       /\ queue \in Seq(DOMAIN tables) /\ IsInjective(queue)
       /\ ToSet(queue) \cap ToSet(sortedTables) = {}
       /\ DOMAIN inDegree = DOMAIN tables
       /\ \A t \in DOMAIN tables : /\ inDegree[t] = Cardinality(Waits(t))
                                   /\ t \in ToSet(queue) \cup ToSet(sortedTables) <=> Waits(t) = {}
  /\ pc = "cyclic" => queue = <<>> /\ ToSet(sortedTables) # DOMAIN tables
  /\ pc \in Running => ToSet(sortedTables) = DOMAIN tables

-----------------------------------------------------------------------------
(* Running what was generated *)

First(n) == {sortedTables[i] : i \in 1 .. n}

Remaining == First(Len(sortedTables) - at + 1)

(* What is there and what has rows, section by section. *)
Progress ==
  /\ pc \in {"up", "deseed", "down"} => at \in 1 .. Len(sortedTables) + 1
  /\ pc = "up" => exists = First(at - 1) /\ filled = {}
  /\ pc \in {"seed", "deseed"} => exists = DOMAIN tables /\ filled \subseteq DOMAIN tables
  /\ pc = "deseed" /\ ~Truncates => filled \subseteq Remaining
  /\ pc = "down" => /\ exists = Remaining
                    /\ at = 1 /\ ~Truncates => filled = {}
  /\ pc = "done" => exists = {}

Configured == DOMAIN config = {"up", "seed", "deseed", "down"}

Generates == config.up = Up /\ config.deseed = Deseed /\ config.down = Down

RunInv ==
  /\ Configured
  /\ pc \notin Running => exists = {} /\ filled = {} /\ failed = {} /\ at = 1
  /\ pc \in Running => Generates
  /\ pc \in Running /\ Regular =>
       /\ "up" \notin failed /\ "down" \notin failed /\ (~Truncates => "deseed" \notin failed)
       /\ Progress

LEMMA CatalogFacts ==
  ASSUME catalog \in Catalogs
  PROVE  /\ catalog.tables \in Seq(STRING) /\ IsInjective(catalog.tables)
         /\ ToSet(catalog.tables) \subseteq DOMAIN catalog.columns
         /\ \A t \in DOMAIN catalog.columns : IsFiniteSet(DOMAIN catalog.columns[t])
         /\ \A f \in catalog.fks :
              /\ f \in ForeignKey /\ f.table \in ToSet(catalog.tables)
              /\ f.own => f.ref \in ToSet(catalog.tables)
              /\ DOMAIN f.refCols = DOMAIN f.cols /\ f.cols # <<>>
              /\ ToSet(f.cols) \subseteq {x.name : x \in ToSet(catalog.columns[f.table])}
<1>1. ASSUME NEW t \in DOMAIN catalog.columns
      PROVE  IsFiniteSet(DOMAIN catalog.columns[t])
  <2>1. catalog.columns[t] \in Seq([name : STRING, gen : STRING])
    BY CatalogsAssumption
  <2>2. Len(catalog.columns[t]) \in Nat /\ DOMAIN catalog.columns[t] = 1 .. Len(catalog.columns[t])
    BY <2>1
  <2> QED BY <2>2, FS_Interval
<1>2. ASSUME NEW f \in catalog.fks
      PROVE  /\ f \in ForeignKey /\ f.table \in ToSet(catalog.tables)
             /\ f.own => f.ref \in ToSet(catalog.tables)
             /\ DOMAIN f.refCols = DOMAIN f.cols /\ f.cols # <<>>
             /\ ToSet(f.cols) \subseteq {x.name : x \in ToSet(catalog.columns[f.table])}
  <2>1. f \in ForeignKey /\ Len(f.cols) = Len(f.refCols)
    BY CatalogsAssumption
  <2>2. DOMAIN f.cols = 1 .. Len(f.cols) /\ DOMAIN f.refCols = 1 .. Len(f.refCols)
    BY <2>1 DEF ForeignKey
  <2> QED BY <2>1, <2>2, CatalogsAssumption
<1>3. /\ catalog.tables \in Seq(STRING) /\ IsInjective(catalog.tables)
      /\ ToSet(catalog.tables) \subseteq DOMAIN catalog.columns
  BY CatalogsAssumption
<1> QED BY <1>1, <1>2, <1>3

(* Each dialect's rows are of some key, and every column of a key has one. *)
LEMMA RowsOfKeys ==
  ASSUME catalog \in Catalogs, driver \in Supported, Regular
  PROVE  /\ \A r \in ForeignKeyRows : \E f \in catalog.fks :
              r.table = f.table /\ r.col \in ToSet(f.cols) /\ r.ref.table = f.ref
         /\ \A f \in catalog.fks : \A c \in ToSet(f.cols) : \E r \in ForeignKeyRows :
              r.table = f.table /\ r.col = c
<1>1. \A f \in catalog.fks : DOMAIN f.refCols = DOMAIN f.cols
  BY CatalogFacts
<1>2. \A f, g \in catalog.fks : f.name = g.name => f = g
  BY DEF Regular
<1>3. ASSUME NEW f \in catalog.fks, NEW i \in DOMAIN f.cols, NEW j
      PROVE  LET r == Row(f, i, f, j)
             IN  r.table = f.table /\ r.col = f.cols[i] /\ r.col \in ToSet(f.cols) /\ r.ref.table = f.ref
  BY DEF Row, ToSet
<1>4. CASE driver \in {"pgx", "dsql"}
  <2>1. ForeignKeyRows = PgxForeignKeys
    BY <1>4 DEF ForeignKeyRows
  <2>2. \A r \in PgxForeignKeys : \E f \in catalog.fks : \E i \in DOMAIN f.cols : \E j : r = Row(f, i, f, j)
    BY <1>2 DEF PgxForeignKeys
  <2>3. \A f \in catalog.fks : \A i \in DOMAIN f.cols : Row(f, i, f, i) \in PgxForeignKeys
    BY <1>1 DEF PgxForeignKeys
  <2> QED BY <1>3, <2>1, <2>2, <2>3 DEF ToSet
<1>5. CASE driver = "spanner"
  <2>1. ForeignKeyRows = SpannerForeignKeys
    BY <1>5 DEF ForeignKeyRows
  <2>2. \A r \in SpannerForeignKeys : \E f \in catalog.fks : \E i \in DOMAIN f.cols : \E j : r = Row(f, i, f, j)
    BY DEF SpannerForeignKeys
  <2>3. \A f \in catalog.fks : \A i \in DOMAIN f.cols : Row(f, i, f, i) \in SpannerForeignKeys
    BY DEF SpannerForeignKeys
  <2> QED BY <1>3, <2>1, <2>2, <2>3 DEF ToSet
<1>6. CASE driver \in {"mysql", "mssql", "oracle"}
  <2>1. ForeignKeyRows = MysqlForeignKeys
    BY <1>6 DEF ForeignKeyRows, MssqlForeignKeys, OracleForeignKeys
  <2>2. \A r \in MysqlForeignKeys : \E f \in catalog.fks : \E i \in DOMAIN f.cols : \E j : r = Row(f, i, f, j)
    BY DEF MysqlForeignKeys
  <2>3. \A f \in catalog.fks : \A i \in DOMAIN f.cols : Row(f, i, f, i) \in MysqlForeignKeys
    BY DEF MysqlForeignKeys
  <2> QED BY <1>3, <2>1, <2>2, <2>3 DEF ToSet
<1> QED BY <1>4, <1>5, <1>6 DEF Supported

LEMMA Tabled ==
  ASSUME NEW x, IsTable(x), NEW e
  PROVE  /\ IsTable([x EXCEPT !.columns = e]) /\ [x EXCEPT !.columns = e].columns = e
         /\ [x EXCEPT !.columns = e].ddl = x.ddl
BY DEF IsTable

LEMMA Columned ==
  ASSUME NEW c, IsColumn(c), NEW e
  PROVE  /\ IsColumn([c EXCEPT !.pk = e]) /\ [c EXCEPT !.pk = e].name = c.name
         /\ IsColumn([c EXCEPT !.ref = e]) /\ [c EXCEPT !.ref = e].name = c.name
         /\ [c EXCEPT !.ref = e].ref = e
         /\ IsColumn([c EXCEPT !.generated = e]) /\ [c EXCEPT !.generated = e].name = c.name
         /\ [c EXCEPT !.generated = e].ref = c.ref
BY DEF IsColumn

LEMMA InspectInit == Init => InspectInv
BY DEF Init, InspectInv, Inspected, Inspecting, Sorting, Running

(* Whatever leaves the inspection alone leaves its invariant. *)
LEMMA InspectKept ==
  ASSUME InspectInv, UNCHANGED <<driver, catalog, inspection>>,
         \/ pc' = pc
         \/ pc' = "failed"
         \/ pc \in Sorting \cup Running /\ pc' \in Sorting \cup Running
  PROVE  InspectInv'
<1>1. (Regular <=> Regular') /\ (KeysRead <=> KeysRead')
  BY DEF Regular, KeysRead, inspection
<1>2. \A t : ColumnsRead(t) <=> ColumnsRead(t)'
  BY DEF ColumnsRead, inspection
<1> QED BY <1>1, <1>2 DEF InspectInv, Inspected, Inspecting, Sorting, Running, inspection

LEMMA InspectTables ==
  ASSUME InspectInv, Tables
  PROVE  InspectInv'
<1>1. catalog' = catalog /\ driver' = driver /\ driver \in Supported /\ pc' \in {"failed", "columns"}
  BY DEF Tables
<1>2. /\ tableOrder' = catalog.tables /\ DOMAIN tables' = ToSet(catalog.tables)
      /\ \A t \in DOMAIN tables' : IsTable(tables'[t])
  BY DEF Tables, IsTable
<1> QED BY <1>1, <1>2 DEF InspectInv, Inspected, Inspecting, Sorting, Running

LEMMA InspectColumns ==
  ASSUME InspectInv, Columns
  PROVE  InspectInv'
<1>1. /\ catalog' = catalog /\ driver' = driver /\ tableOrder' = tableOrder
      /\ pc = "columns" /\ pc' \in {"fks", "pks"} /\ Inspected
  BY DEF Columns, Inspected
<1>2. DOMAIN tables' = DOMAIN tables
  BY DEF Columns
<1>3. ASSUME NEW t \in DOMAIN tables
      PROVE  IsTable(tables'[t]) /\ ColumnsRead(t)'
  <2> DEFINE cs == [i \in DOMAIN catalog.columns[t] |->
          [name |-> catalog.columns[t][i].name, pk |-> FALSE, ref |-> NoRef,
           default   |-> catalog.columns[t][i].gen = "default",
           generated |-> catalog.columns[t][i].gen \in Generated]]
  <2>1. tables'[t] = [tables[t] EXCEPT !.columns = cs]
    BY DEF Columns
  <2>2. IsTable(tables'[t]) /\ tables'[t].columns = cs
    <3>1. IsTable(tables[t])
      BY <1>1 DEF InspectInv
    <3> HIDE DEF cs
    <3> QED BY <2>1, <3>1, Tabled
  <2>3. \A i \in DOMAIN catalog.columns[t] : IsColumn(cs[i]) /\ cs[i].name = catalog.columns[t][i].name
    BY DEF IsColumn
  <2> HIDE DEF cs
  <2>4. DOMAIN cs = DOMAIN catalog.columns[t]
    BY DEF cs
  <2> QED BY <1>1, <2>2, <2>3, <2>4 DEF ColumnsRead
<1> QED BY <1>1, <1>2, <1>3 DEF InspectInv, Inspected, Inspecting, Sorting, Running

LEMMA InspectPrimaryKeys ==
  ASSUME InspectInv, PrimaryKeys
  PROVE  InspectInv'
<1>1. /\ catalog' = catalog /\ driver' = driver /\ tableOrder' = tableOrder
      /\ pc = "pks" /\ pc' = "fks" /\ Inspected
  BY DEF PrimaryKeys, Inspected
<1>2. DOMAIN tables' = DOMAIN tables
  BY DEF PrimaryKeys
<1>3. ASSUME NEW t \in DOMAIN tables
      PROVE  IsTable(tables'[t]) /\ ColumnsRead(t)'
  <2> DEFINE cs == [i \in DOMAIN tables[t].columns |-> [tables[t].columns[i] EXCEPT
                      !.pk = @ \/ tables[t].columns[i].name \in catalog.keys[t]]]
  <2>1. tables'[t] = [tables[t] EXCEPT !.columns = cs]
    BY DEF PrimaryKeys
  <2>2. IsTable(tables'[t]) /\ tables'[t].columns = cs
    <3>1. IsTable(tables[t])
      BY <1>1 DEF InspectInv
    <3> HIDE DEF cs
    <3> QED BY <2>1, <3>1, Tabled
  <2>3. ColumnsRead(t)
    BY <1>1 DEF InspectInv
  <2>4. \A i \in DOMAIN tables[t].columns : IsColumn(cs[i]) /\ cs[i].name = tables[t].columns[i].name
    BY <2>3, Columned DEF ColumnsRead
  <2> HIDE DEF cs
  <2>5. DOMAIN cs = DOMAIN tables[t].columns
    BY DEF cs
  <2> QED BY <1>1, <2>2, <2>3, <2>4, <2>5 DEF ColumnsRead
<1> QED BY <1>1, <1>2, <1>3 DEF InspectInv, Inspected, Inspecting, Sorting, Running

LEMMA InspectIdentity ==
  ASSUME InspectInv, IdentityColumns
  PROVE  InspectInv'
<1>1. /\ catalog' = catalog /\ driver' = driver /\ tableOrder' = tableOrder
      /\ pc = "identity" /\ pc' = "ddl" /\ Inspected
  BY DEF IdentityColumns, Inspected
<1>2. DOMAIN tables' = DOMAIN tables
  BY DEF IdentityColumns
<1>3. ASSUME NEW t \in DOMAIN tables
      PROVE  /\ IsTable(tables'[t]) /\ ColumnsRead(t)'
             /\ DOMAIN tables'[t].columns = DOMAIN tables[t].columns
             /\ \A i \in DOMAIN tables[t].columns :
                  /\ tables'[t].columns[i].name = tables[t].columns[i].name
                  /\ tables'[t].columns[i].ref = tables[t].columns[i].ref
  <2> DEFINE cs == [i \in DOMAIN tables[t].columns |-> [tables[t].columns[i] EXCEPT !.generated =
                      @ \/ catalog.columns[t][i].gen \in {"serial", "identity"}]]
  <2>1. tables'[t] = [tables[t] EXCEPT !.columns = cs]
    BY DEF IdentityColumns
  <2>2. IsTable(tables'[t]) /\ tables'[t].columns = cs
    <3>1. IsTable(tables[t])
      BY <1>1 DEF InspectInv
    <3> HIDE DEF cs
    <3> QED BY <2>1, <3>1, Tabled
  <2>3. ColumnsRead(t)
    BY <1>1 DEF InspectInv
  <2>4. \A i \in DOMAIN tables[t].columns :
          IsColumn(cs[i]) /\ cs[i].name = tables[t].columns[i].name /\ cs[i].ref = tables[t].columns[i].ref
    BY <2>3, Columned DEF ColumnsRead
  <2> HIDE DEF cs
  <2>5. DOMAIN cs = DOMAIN tables[t].columns
    BY DEF cs
  <2> QED BY <1>1, <2>2, <2>3, <2>4, <2>5 DEF ColumnsRead
<1>4. Regular' <=> Regular
  BY <1>1 DEF Regular
<1>5. KeysRead => KeysRead'
  <2>1. \A f \in catalog.fks : f.table \in DOMAIN tables
    BY <1>1, CatalogFacts DEF InspectInv
  <2> QED BY <1>1, <1>3, <2>1 DEF KeysRead
<1> QED BY <1>1, <1>2, <1>3, <1>4, <1>5 DEF InspectInv, Inspected, Inspecting, Sorting, Running

LEMMA InspectForeignKeys ==
  ASSUME InspectInv, ForeignKeys
  PROVE  InspectInv'
<1> DEFINE Refs(t, c) == {r.ref : r \in {r \in ForeignKeyRows : r.table = t /\ r.col = c}}
           named == {n \in UNION {{t} \X DOMAIN tables[t].columns : t \in DOMAIN tables} :
                       Refs(n[1], tables[n[1]].columns[n[2]].name) # {}}
<1>1. /\ catalog' = catalog /\ driver' = driver /\ tableOrder' = tableOrder
      /\ pc = "fks" /\ pc' \in {"identity", "ddl"} /\ Inspected
  BY DEF ForeignKeys, Inspected
<1>2. PICK last \in [named -> {r.ref : r \in ForeignKeyRows}] :
        /\ \A n \in named : last[n] \in Refs(n[1], tables[n[1]].columns[n[2]].name)
        /\ tables' = [t \in DOMAIN tables |-> [tables[t] EXCEPT !.columns =
             [i \in DOMAIN @ |-> IF <<t, i>> \in named THEN [@[i] EXCEPT !.ref = last[<<t, i>>]]
                                                      ELSE @[i]]]]
  BY DEF ForeignKeys
<1>3. DOMAIN tables' = DOMAIN tables
  BY <1>2
<1>4. ASSUME NEW t \in DOMAIN tables
      PROVE  /\ IsTable(tables'[t]) /\ ColumnsRead(t)'
             /\ DOMAIN tables'[t].columns = DOMAIN tables[t].columns
             /\ \A i \in DOMAIN tables[t].columns :
                  /\ tables'[t].columns[i].name = tables[t].columns[i].name
                  /\ <<t, i>> \in named => tables'[t].columns[i].ref = last[<<t, i>>]
  <2> DEFINE cs == [i \in DOMAIN tables[t].columns |->
                      IF <<t, i>> \in named THEN [tables[t].columns[i] EXCEPT !.ref = last[<<t, i>>]]
                                            ELSE tables[t].columns[i]]
  <2> HIDE DEF named
  <2>1. tables'[t] = [tables[t] EXCEPT !.columns = cs]
    BY <1>2
  <2>2. IsTable(tables'[t]) /\ tables'[t].columns = cs
    <3>1. IsTable(tables[t])
      BY <1>1 DEF InspectInv
    <3> HIDE DEF cs
    <3> QED BY <2>1, <3>1, Tabled
  <2>3. ColumnsRead(t)
    BY <1>1 DEF InspectInv
  <2>4. ASSUME NEW i \in DOMAIN tables[t].columns
        PROVE  /\ IsColumn(cs[i]) /\ cs[i].name = tables[t].columns[i].name
               /\ <<t, i>> \in named => cs[i].ref = last[<<t, i>>]
    <3>1. cs[i] = IF <<t, i>> \in named THEN [tables[t].columns[i] EXCEPT !.ref = last[<<t, i>>]]
                                        ELSE tables[t].columns[i]
      OBVIOUS
    <3>2. IsColumn(tables[t].columns[i])
      BY <2>3 DEF ColumnsRead
    <3> HIDE DEF cs
    <3>3. CASE <<t, i>> \in named
      <4>1. cs[i] = [tables[t].columns[i] EXCEPT !.ref = last[<<t, i>>]]
        BY <3>1, <3>3
      <4> DEFINE c == tables[t].columns[i]
                 e == last[<<t, i>>]
      <4>2. IsColumn(c)
        BY <3>2
      <4> HIDE DEF c, e
      <4>3. /\ IsColumn([c EXCEPT !.ref = e]) /\ [c EXCEPT !.ref = e].name = c.name
            /\ [c EXCEPT !.ref = e].ref = e
        BY <4>2, Columned
      <4> QED BY <4>1, <4>3 DEF c, e
    <3>4. CASE <<t, i>> \notin named
      BY <3>1, <3>2, <3>4
    <3> QED BY <3>3, <3>4
  <2> HIDE DEF cs
  <2>5. DOMAIN cs = DOMAIN tables[t].columns
    BY DEF cs
  <2> QED BY <1>1, <2>2, <2>3, <2>4, <2>5 DEF ColumnsRead
<1>5. Regular' <=> Regular
  BY <1>1 DEF Regular
<1>6. ASSUME Regular, NEW f \in catalog.fks, NEW i \in DOMAIN tables[f.table].columns,
             tables[f.table].columns[i].name \in ToSet(f.cols)
      PROVE  tables'[f.table].columns[i].ref.table = f.ref
  <2> DEFINE t == f.table
             c == tables[t].columns[i].name
             n == <<t, i>>
  <2>1. catalog \in Catalogs /\ driver \in Supported /\ t \in DOMAIN tables
    BY <1>1, CatalogFacts DEF InspectInv
  <2>2. PICK r \in ForeignKeyRows : r.table = t /\ r.col = c
    BY <1>6, <2>1, RowsOfKeys
  <2>3. \A x \in Refs(t, c) : x.table = f.ref
    <3> SUFFICES ASSUME NEW s \in ForeignKeyRows, s.table = t, s.col = c
                 PROVE  s.ref.table = f.ref
      OBVIOUS
    <3>1. PICK g \in catalog.fks : s.table = g.table /\ s.col \in ToSet(g.cols) /\ s.ref.table = g.ref
      BY <1>6, <2>1, RowsOfKeys
    <3>2. f = g
      BY <1>6, <3>1 DEF Regular
    <3> QED BY <3>1, <3>2
  <2>4. n \in named
    <3>1. n \in UNION {{u} \X DOMAIN tables[u].columns : u \in DOMAIN tables}
      BY <1>6, <2>1
    <3>2. r.ref \in Refs(n[1], tables[n[1]].columns[n[2]].name)
      BY <2>2
    <3> QED BY <3>1, <3>2
  <2>5. last[n] \in Refs(t, c)
    <3>1. last[n] \in Refs(n[1], tables[n[1]].columns[n[2]].name)
      BY <1>2, <2>4
    <3> QED BY <3>1
  <2> QED BY <1>4, <1>6, <2>1, <2>3, <2>4, <2>5
<1>7. Regular => KeysRead'
  <2>1. \A f \in catalog.fks : f.table \in DOMAIN tables
    BY <1>1, CatalogFacts DEF InspectInv
  <2> HIDE DEF named
  <2> QED BY <1>1, <1>4, <1>6, <2>1 DEF KeysRead
<1> HIDE DEF named
<1> QED BY <1>1, <1>3, <1>4, <1>5, <1>7 DEF InspectInv, Inspected, Inspecting, Sorting, Running

(* Each dialect's statements declare keys of the catalog. *)
LEMMA InspectFetchDDL ==
  ASSUME InspectInv, FetchDDL
  PROVE  InspectInv'
<1>1. /\ catalog' = catalog /\ driver' = driver /\ tableOrder' = tableOrder
      /\ pc = "ddl" /\ pc' = "degrees" /\ Inspected
  BY DEF FetchDDL, Inspected
<1> DEFINE Declares(t, fks) == Regular => fks \subseteq {f \in catalog.fks : f.table = t}
<1>2. \A t : Declares(t, NativeDDL(t).fks) /\ Declares(t, PgxCatalogDDL(t).fks) /\ Declares(t, SpannerDDL(t).fks)
  BY DEF NativeDDL, PgxCatalogDDL, SpannerDDL
<1>3. ASSUME driver = "mssql", NEW t
      PROVE  Declares(t, MssqlDDL(t).fks)
  <2> SUFFICES ASSUME Regular, NEW f \in catalog.fks, f.table = t, NEW i \in DOMAIN f.cols
               PROVE  Clause(f, i) = f
    BY DEF MssqlDDL
  <2>1. f \in ForeignKey /\ Len(f.cols) = 1 /\ DOMAIN f.refCols = DOMAIN f.cols
    BY <1>3, CatalogFacts DEF InspectInv, Regular
  <2>2. f.cols \in Seq(STRING) /\ f.refCols \in Seq(STRING)
    BY <2>1 DEF ForeignKey
  <2>3. DOMAIN f.cols = 1 .. 1 /\ DOMAIN f.refCols = 1 .. 1 /\ i = 1
    BY <2>1, <2>2
  <2>4. <<f.cols[i]>> = f.cols /\ <<f.refCols[i]>> = f.refCols
    BY <2>2, <2>3
  <2> QED BY <2>1, <2>4 DEF ForeignKey, Clause
<1>4. PICK ddl : /\ DOMAIN ddl = DOMAIN tables
                 /\ \A t \in DOMAIN tables : Declares(t, ddl[t].fks)
                 /\ tables' = [t \in DOMAIN tables |->
                      [columns |-> tables[t].columns, ddl |-> ddl[t].fks, guarded |-> ddl[t].guarded]]
  <2> DEFINE Native == [t \in DOMAIN tables |-> NativeDDL(t)]
             Pgx == [t \in DOMAIN tables |-> PgxCatalogDDL(t)]
             Mssql == [t \in DOMAIN tables |-> MssqlDDL(t)]
             Spanner == [t \in DOMAIN tables |-> SpannerDDL(t)]
  <2>1. PICK ddl : /\ ddl \in CASE driver \in {"pgx", "dsql"} -> {Native, Pgx}
                                [] driver = "mssql"   -> {Mssql}
                                [] driver = "spanner" -> {Spanner}
                                [] OTHER              -> {Native}
                   /\ tables' = [t \in DOMAIN tables |->
                      [columns |-> tables[t].columns, ddl |-> ddl[t].fks, guarded |-> ddl[t].guarded]]
    BY DEF FetchDDL
  <2>2. \/ ddl \in {Native, Pgx, Spanner}
        \/ driver = "mssql" /\ ddl = Mssql
    BY <2>1
  <2> QED BY <1>2, <1>3, <2>1, <2>2
<1>5. DOMAIN tables' = DOMAIN tables
  BY <1>4
<1>6. ASSUME NEW t \in DOMAIN tables
      PROVE  /\ IsTable(tables'[t]) /\ ColumnsRead(t)' /\ Declares(t, tables'[t].ddl)
             /\ tables'[t].columns = tables[t].columns
  <2>1. tables'[t] = [columns |-> tables[t].columns, ddl |-> ddl[t].fks, guarded |-> ddl[t].guarded]
    BY <1>4
  <2>2. tables'[t].columns = tables[t].columns /\ tables'[t].ddl = ddl[t].fks /\ IsTable(tables'[t])
    BY <2>1 DEF IsTable
  <2>3. ColumnsRead(t)
    BY <1>1 DEF InspectInv
  <2> QED BY <1>1, <1>4, <2>2, <2>3 DEF ColumnsRead
<1>7. Regular' <=> Regular
  BY <1>1 DEF Regular
<1>8. KeysRead => KeysRead'
  <2>1. \A f \in catalog.fks : f.table \in DOMAIN tables
    BY <1>1, CatalogFacts DEF InspectInv
  <2> QED BY <1>1, <1>6, <2>1 DEF KeysRead
<1> QED BY <1>1, <1>5, <1>6, <1>7, <1>8 DEF InspectInv, Inspected, Inspecting, Sorting, Running

LEMMA AfterRunning ==
  ASSUME pc \in {"up", "seed", "deseed", "down"}
  PROVE  /\ pc = "up"     => After(pc) = "seed"
         /\ pc = "seed"   => After(pc) = "deseed"
         /\ pc = "deseed" => After(pc) = "down"
         /\ pc = "down"   => After(pc) = "done"
<1>1. DOMAIN Sections = 1 .. 5
  BY DEF Sections
<1>2. /\ Sections[1] = "up" /\ Sections[2] = "seed" /\ Sections[3] = "deseed"
      /\ Sections[4] = "down" /\ Sections[5] = "done"
  BY DEF Sections
<1> DEFINE i == CHOOSE i \in DOMAIN Sections : Sections[i] = pc
<1>3. \E j \in DOMAIN Sections : Sections[j] = pc
  BY <1>1, <1>2
<1>4. i \in 1 .. 5 /\ Sections[i] = pc
  BY <1>1, <1>3
<1> HIDE DEF i
<1>5. /\ pc = "up"     => i = 1
      /\ pc = "seed"   => i = 2
      /\ pc = "deseed" => i = 3
      /\ pc = "down"   => i = 4
  BY <1>2, <1>4
<1>6. After(pc) = Sections[i + 1]
  BY DEF After, i
<1> QED BY <1>2, <1>5, <1>6

LEMMA ConfiguredStep ==
  ASSUME Configured, [Next]_vars
  PROVE  Configured'
<1>1. CASE Generate
  BY <1>1 DEF Generate, Configured
<1>2. CASE config' = config
  BY <1>2 DEF Configured
<1>3. Generate \/ config' = config
  BY DEF Next, vars, Tables, Columns, PrimaryKeys, ForeignKeys, IdentityColumns, FetchDDL, InspectFails,
         Degrees, Dequeue, Cyclic, Execute, Refuse, SectionEnds
<1> QED BY <1>1, <1>2, <1>3

LEMMA InspectStep ==
  ASSUME InspectInv, Configured, [Next]_vars
  PROVE  InspectInv'
<1>1. CASE Tables
  BY <1>1, InspectTables
<1>2. CASE Columns
  BY <1>2, InspectColumns
<1>3. CASE PrimaryKeys
  BY <1>3, InspectPrimaryKeys
<1>4. CASE ForeignKeys
  BY <1>4, InspectForeignKeys
<1>5. CASE IdentityColumns
  BY <1>5, InspectIdentity
<1>6. CASE FetchDDL
  BY <1>6, InspectFetchDDL
<1>7. CASE InspectFails
  BY <1>7, InspectKept DEF InspectFails
<1>8. CASE Degrees
  BY <1>8, InspectKept DEF Degrees, Sorting
<1>9. CASE Dequeue
  BY <1>9, InspectKept DEF Dequeue
<1>10. CASE Cyclic
  BY <1>10, InspectKept DEF Cyclic, Sorting
<1>11. CASE Generate
  BY <1>11, InspectKept DEF Generate, Sorting, Running
<1>12. CASE Execute
  BY <1>12, InspectKept DEF Execute
<1>13. CASE Refuse \/ SectionEnds
  <2>1. pc \in {"up", "seed", "deseed", "down"} /\ pc' = After(pc) /\ UNCHANGED <<driver, catalog, inspection>>
    BY <1>13 DEF Refuse, SectionEnds, Configured
  <2>2. pc \in Running /\ pc' \in Running
    BY <2>1, AfterRunning DEF Running
  <2> QED BY <2>1, <2>2, InspectKept
<1>14. CASE UNCHANGED vars
  BY <1>14, InspectKept DEF vars
<1> QED BY <1>1, <1>2, <1>3, <1>4, <1>5, <1>6, <1>7, <1>8, <1>9, <1>10, <1>11, <1>12, <1>13, <1>14 DEF Next

-----------------------------------------------------------------------------
(* Kahn's algorithm *)

LEMMA HeadOnce ==
  ASSUME NEW T, NEW q \in Seq(T), IsInjective(q), q # <<>>
  PROVE  /\ Head(q) \in T /\ Tail(q) \in Seq(T) /\ IsInjective(Tail(q))
         /\ Head(q) \notin ToSet(Tail(q)) /\ ToSet(q) = {Head(q)} \cup ToSet(Tail(q))
<1> DEFINE n == Len(q)
           r == Tail(q)
<1>1. n \in Nat \ {0} /\ DOMAIN q = 1 .. n /\ Head(q) = q[1] /\ Head(q) \in T
  OBVIOUS
<1>2. r \in Seq(T) /\ DOMAIN r = 1 .. n - 1 /\ \A i \in 1 .. n - 1 : r[i] = q[i + 1]
  OBVIOUS
<1> HIDE DEF n, r
<1>3. \A i \in 1 .. n - 1 : i + 1 \in 1 .. n /\ i + 1 # 1
  BY <1>1
<1>4. IsInjective(r)
  <2> SUFFICES ASSUME NEW i \in 1 .. n - 1, NEW j \in 1 .. n - 1, r[i] = r[j]
               PROVE  i = j
    BY <1>2 DEF IsInjective
  <2>1. i + 1 = j + 1
    BY <1>1, <1>2, <1>3 DEF IsInjective
  <2> QED BY <2>1
<1>5. ToSet(r) = {q[i + 1] : i \in 1 .. n - 1} /\ ToSet(q) = {q[i] : i \in 1 .. n}
  BY <1>1, <1>2 DEF ToSet
<1>6. \A i \in 1 .. n : i = 1 \/ (i - 1 \in 1 .. n - 1 /\ (i - 1) + 1 = i)
  BY <1>1
<1>7. q[1] \notin ToSet(r)
  BY <1>1, <1>3, <1>5 DEF IsInjective
<1>8. ToSet(q) = {q[1]} \cup ToSet(r)
  <2>1. \A i \in 1 .. n : q[i] \in {q[1]} \cup ToSet(r)
    BY <1>5, <1>6
  <2>2. \A i \in 1 .. n - 1 : q[i + 1] \in ToSet(q)
    BY <1>3, <1>5
  <2>3. q[1] \in ToSet(q)
    BY <1>1, <1>5
  <2> QED BY <1>5, <2>1, <2>2, <2>3
<1> QED BY <1>1, <1>2, <1>4, <1>7, <1>8 DEF r

LEMMA AppendOnce ==
  ASSUME NEW T, NEW q \in Seq(T), IsInjective(q), NEW t \in T \ ToSet(q)
  PROVE  /\ Append(q, t) \in Seq(T) /\ IsInjective(Append(q, t))
         /\ ToSet(Append(q, t)) = ToSet(q) \cup {t}
         /\ DOMAIN Append(q, t) = 1 .. Len(q) + 1 /\ Append(q, t)[Len(q) + 1] = t
         /\ \A i \in DOMAIN q : Append(q, t)[i] = q[i]
<1> DEFINE n == Len(q)
           r == Append(q, t)
<1>1. n \in Nat /\ DOMAIN q = 1 .. n
  OBVIOUS
<1>2. r \in Seq(T) /\ DOMAIN r = 1 .. n + 1 /\ r[n + 1] = t /\ \A i \in 1 .. n : r[i] = q[i]
  OBVIOUS
<1> HIDE DEF n, r
<1>3. \A i \in 1 .. n + 1 : i \in 1 .. n \/ i = n + 1
  BY <1>1
<1>4. ToSet(r) = {r[i] : i \in 1 .. n + 1} /\ ToSet(q) = {q[i] : i \in 1 .. n}
  BY <1>1, <1>2 DEF ToSet
<1>5. IsInjective(r)
  BY <1>1, <1>2, <1>3, <1>4 DEF IsInjective
<1>6. 1 .. n \subseteq 1 .. n + 1 /\ n + 1 \in 1 .. n + 1
  BY <1>1
<1>7. ToSet(r) = ToSet(q) \cup {t}
  BY <1>2, <1>3, <1>4, <1>6
<1> QED BY <1>1, <1>2, <1>5, <1>7 DEF n, r

LEMMA SortFacts ==
  ASSUME InspectInv, pc \in Sorting \cup Running
  PROVE  /\ IsFiniteSet(DOMAIN tables) /\ Cardinality(DOMAIN tables) = Len(tableOrder)
         /\ NoTable \notin DOMAIN tables
         /\ \A t \in DOMAIN tables : IsFiniteSet(DOMAIN tables[t].columns)
<1>1. /\ catalog \in Catalogs /\ DOMAIN tables = ToSet(catalog.tables) /\ tableOrder = catalog.tables
      /\ \A t \in DOMAIN tables : ColumnsRead(t)
  BY DEF InspectInv, Inspected, Sorting, Running
<1>2. catalog.tables \in Seq(STRING) /\ IsInjective(catalog.tables) /\ NoTable \notin ToSet(catalog.tables)
  BY <1>1, CatalogsAssumption
<1>3. \A t \in DOMAIN tables : DOMAIN tables[t].columns = DOMAIN catalog.columns[t]
                               /\ IsFiniteSet(DOMAIN catalog.columns[t])
  BY <1>1, CatalogFacts DEF ColumnsRead
<1> QED BY <1>1, <1>2, <1>3, NamedOnce

LEMMA SortDegrees ==
  ASSUME InspectInv, SortInv, Degrees
  PROVE  SortInv'
<1> DEFINE T == DOMAIN tables
<1>1. /\ pc = "degrees" /\ pc' = "sort" /\ tables' = tables /\ sortedTables = <<>> /\ sortedTables' = <<>>
  BY DEF Degrees, inspection, SortInv
<1>2. /\ IsFiniteSet(T) /\ NoTable \notin T /\ \A t \in T : IsFiniteSet(DOMAIN tables[t].columns)
  BY <1>1, SortFacts DEF Sorting
<1>3. ToSet(sortedTables') = {} /\ DOMAIN sortedTables' = {}
  BY <1>1 DEF ToSet
<1>4. ASSUME NEW t \in T
      PROVE  UNION {Edges(t, r) : r \in Referenced} = Waits(t)' /\ IsFiniteSet(Waits(t)')
  <2>1. Waits(t)' = {i \in DOMAIN tables[t].columns : tables[t].columns[i].ref.table \notin {NoTable, t}}
    BY <1>1, <1>3 DEF Waits
  <2>2. IsFiniteSet(Waits(t)')
    BY <1>2, <2>1, FS_Subset
  <2>3. \A r \in Referenced : Edges(t, r) \subseteq Waits(t)'
    <3>1. NoTable \notin Referenced
      BY DEF Referenced
    <3> QED BY <2>1, <3>1 DEF Edges
  <2>4. ASSUME NEW i \in Waits(t)'
        PROVE  i \in UNION {Edges(t, r) : r \in Referenced}
    <3> DEFINE r == tables[t].columns[i].ref.table
    <3>1. i \in DOMAIN tables[t].columns /\ r # NoTable /\ r # t
      BY <2>1, <2>4
    <3>2. tables[t].columns[i] \in ToSet(tables[t].columns)
      BY <3>1 DEF ToSet
    <3>3. r \in Referenced
      <4>1. r \in {c.ref.table : c \in ToSet(tables[t].columns)}
        BY <3>2
      <4>2. r \in UNION {{c.ref.table : c \in ToSet(tables[u].columns)} : u \in DOMAIN tables}
        BY <4>1
      <4> QED BY <3>1, <4>2 DEF Referenced
    <3>4. i \in Edges(t, r)
      BY <3>1 DEF Edges
    <3> QED BY <3>3, <3>4
  <2> QED BY <2>2, <2>3, <2>4
<1>5. /\ DOMAIN inDegree' = T
      /\ \A t \in T : inDegree'[t] = Cardinality(Waits(t)')
  <2>1. inDegree' = [t \in T |-> Cardinality(UNION {Edges(t, r) : r \in Referenced})]
    BY DEF Degrees
  <2> QED BY <1>4, <2>1
<1>6. \A t \in T : inDegree'[t] = 0 <=> Waits(t)' = {}
  BY <1>4, <1>5, FS_EmptySet
<1> DEFINE S == {t \in T : inDegree'[t] = 0}
<1>7. queue' \in SetToSeqs(S) /\ IsFiniteSet(S)
  BY <1>2, FS_Subset DEF Degrees
<1>8. queue' \in Seq(S) /\ IsInjective(queue') /\ ToSet(queue') = S
  <2> HIDE DEF S
  <2> QED BY <1>7, AllInOrder
<1>9. queue' \in Seq(T)
  BY <1>8
<1>10. sortedTables' \in Seq(T) /\ IsInjective(sortedTables') /\ Ordered'
  BY <1>1, <1>3 DEF Ordered, IsInjective
<1>11. \A t \in T : t \in ToSet(queue') \cup ToSet(sortedTables') <=> Waits(t)' = {}
  BY <1>3, <1>6, <1>8
<1> QED BY <1>1, <1>3, <1>5, <1>8, <1>9, <1>10, <1>11 DEF SortInv, Inspecting, Running

LEMMA SortDequeue ==
  ASSUME InspectInv, SortInv, Dequeue
  PROVE  SortInv'
<1> DEFINE T == DOMAIN tables
           t == Head(queue)
           left == [d \in T |-> inDegree[d] - Cardinality(Edges(d, t))]
           R == {d \in T : Edges(d, t) # {} /\ left[d] = 0}
<1>1. /\ pc = "sort" /\ pc' = "sort" /\ tables' = tables /\ queue # <<>>
      /\ sortedTables' = Append(sortedTables, t) /\ inDegree' = left
  BY DEF Dequeue, inspection
<1>2. PICK ready \in SetToSeqs(R) : queue' = Tail(queue) \o ready
  BY DEF Dequeue
<1>3. /\ sortedTables \in Seq(T) /\ IsInjective(sortedTables) /\ Ordered
      /\ queue \in Seq(T) /\ IsInjective(queue) /\ ToSet(queue) \cap ToSet(sortedTables) = {}
      /\ \A d \in T : /\ inDegree[d] = Cardinality(Waits(d))
                      /\ d \in ToSet(queue) \cup ToSet(sortedTables) <=> Waits(d) = {}
  BY <1>1 DEF SortInv
<1>4. /\ IsFiniteSet(T) /\ NoTable \notin T /\ \A d \in T : IsFiniteSet(DOMAIN tables[d].columns)
  BY <1>1, SortFacts DEF Sorting
<1>5. /\ t \in T /\ t \notin ToSet(sortedTables) /\ Tail(queue) \in Seq(T) /\ IsInjective(Tail(queue))
      /\ t \notin ToSet(Tail(queue)) /\ ToSet(queue) = {t} \cup ToSet(Tail(queue))
  BY <1>1, <1>3, HeadOnce
<1>6. /\ sortedTables' \in Seq(T) /\ IsInjective(sortedTables')
      /\ ToSet(sortedTables') = ToSet(sortedTables) \cup {t}
      /\ DOMAIN sortedTables' = 1 .. Len(sortedTables) + 1 /\ sortedTables'[Len(sortedTables) + 1] = t
      /\ \A i \in DOMAIN sortedTables : sortedTables'[i] = sortedTables[i]
  BY <1>1, <1>3, <1>5, AppendOnce
<1>7. ASSUME NEW d \in T
      PROVE  /\ Edges(d, t) \subseteq Waits(d) /\ Waits(d)' = Waits(d) \ Edges(d, t)
             /\ left[d] = Cardinality(Waits(d)') /\ (left[d] = 0 <=> Waits(d)' = {})
  <2>1. Edges(d, t) \subseteq Waits(d)
    BY <1>4, <1>5 DEF Edges, Waits
  <2>2. Waits(d)' = {i \in DOMAIN tables[d].columns :
                       tables[d].columns[i].ref.table \notin {NoTable, d} \cup ToSet(sortedTables) \cup {t}}
    BY <1>1, <1>6 DEF Waits
  <2>3. Waits(d)' = Waits(d) \ Edges(d, t)
    BY <2>2 DEF Edges, Waits
  <2>4. IsFiniteSet(Waits(d)) /\ IsFiniteSet(Waits(d)')
    <3>1. Waits(d) \subseteq DOMAIN tables[d].columns
      BY DEF Waits
    <3>2. Waits(d)' \subseteq DOMAIN tables[d].columns
      BY <2>2
    <3> QED BY <1>4, <3>1, <3>2, FS_Subset
  <2>5. Cardinality(Waits(d)') = Cardinality(Waits(d)) - Cardinality(Edges(d, t))
    <3>1. IsFiniteSet(Edges(d, t)) /\ Waits(d) \cap Edges(d, t) = Edges(d, t)
      BY <2>1, <2>4, FS_Subset
    <3> QED BY <2>3, <2>4, <3>1, FS_Difference
  <2>6. left[d] = inDegree[d] - Cardinality(Edges(d, t))
    OBVIOUS
  <2> HIDE DEF left
  <2>7. left[d] = Cardinality(Waits(d)')
    BY <1>3, <2>5, <2>6
  <2> QED BY <2>1, <2>3, <2>4, <2>7, FS_EmptySet
<1> HIDE DEF left, t
<1>8. ready \in Seq(R) /\ IsInjective(ready) /\ ToSet(ready) = R
  <2>1. IsFiniteSet(R)
    BY <1>4, FS_Subset
  <2> HIDE DEF R
  <2> QED BY <1>2, <2>1, AllInOrder
<1>9. ready \in Seq(T)
  BY <1>8
<1>10. \A d \in R : d \notin ToSet(queue) /\ d \notin ToSet(sortedTables)
  BY <1>3, <1>7
<1>11. /\ queue' \in Seq(T) /\ IsInjective(queue') /\ ToSet(queue') = ToSet(Tail(queue)) \cup R
  <2> DEFINE rest == Tail(queue)
  <2>1. ToSet(rest) \cap ToSet(ready) = {}
    BY <1>5, <1>8, <1>10
  <2>2. rest \in Seq(T) /\ IsInjective(rest)
    BY <1>5
  <2> HIDE DEF R, T, rest
  <2>3. rest \o ready \in Seq(T) /\ IsInjective(rest \o ready) /\ ToSet(rest \o ready) = ToSet(rest) \cup ToSet(ready)
    BY <1>8, <1>9, <2>1, <2>2, JoinedOnce
  <2> QED BY <1>2, <1>8, <2>3 DEF rest
<1>12. ToSet(queue') \cap ToSet(sortedTables') = {}
  BY <1>3, <1>5, <1>6, <1>10, <1>11
<1>13. ASSUME NEW d \in T
       PROVE  d \in ToSet(queue') \cup ToSet(sortedTables') <=> Waits(d)' = {}
  <2>1. d \in ToSet(queue') \cup ToSet(sortedTables') <=> d \in ToSet(queue) \cup ToSet(sortedTables) \cup R
    BY <1>5, <1>6, <1>11
  <2>2. d \in R <=> Edges(d, t) # {} /\ Waits(d)' = {}
    BY <1>7
  <2>3. Waits(d)' = Waits(d) \ Edges(d, t) /\ Edges(d, t) \subseteq Waits(d)
    BY <1>7
  <2>4. d \in ToSet(queue) \cup ToSet(sortedTables) <=> Waits(d) = {}
    BY <1>3
  <2> HIDE DEF R
  <2> QED BY <2>1, <2>2, <2>3, <2>4
<1>14. Ordered'
  <2> DEFINE n == Len(sortedTables)
  <2>1. n \in Nat /\ DOMAIN sortedTables = 1 .. n
    BY <1>3
  <2>2. ToSet(sortedTables) = {sortedTables[j] : j \in 1 .. n}
    BY <2>1 DEF ToSet
  <2>3. ASSUME NEW i \in 1 .. n + 1, NEW c \in ToSet(tables[sortedTables'[i]].columns)
        PROVE  c.ref.table \in {NoTable, sortedTables'[i]} \cup {sortedTables'[j] : j \in 1 .. i - 1}
    <3>1. CASE i \in 1 .. n
      <4>1. sortedTables'[i] = sortedTables[i] /\ \A j \in 1 .. i - 1 : sortedTables'[j] = sortedTables[j]
        BY <1>6, <2>1, <3>1
      <4>2. c.ref.table \in {NoTable, sortedTables[i]} \cup {sortedTables[j] : j \in 1 .. i - 1}
        BY <1>3, <2>1, <2>3, <3>1, <4>1 DEF Ordered
      <4> QED BY <4>1, <4>2
    <3>2. CASE i = n + 1
      <4>1. sortedTables'[i] = t /\ i - 1 = n
        BY <1>6, <2>1, <3>2
      <4>2. Waits(t) = {}
        BY <1>3, <1>5
      <4>3. PICK k \in DOMAIN tables[t].columns : c = tables[t].columns[k]
        BY <2>3, <4>1 DEF ToSet
      <4>4. c.ref.table \in {NoTable, t} \cup ToSet(sortedTables)
        BY <4>2, <4>3 DEF Waits
      <4>5. \A j \in 1 .. n : sortedTables'[j] = sortedTables[j]
        BY <1>6, <2>1
      <4>6. c.ref.table \in {NoTable, t} \cup {sortedTables'[j] : j \in 1 .. n}
        BY <2>2, <4>4, <4>5
      <4> QED BY <4>1, <4>6
    <3> QED BY <2>1, <3>1, <3>2
  <2> QED BY <1>1, <1>6, <2>3 DEF Ordered
<1>15. DOMAIN inDegree' = T /\ \A d \in T : inDegree'[d] = Cardinality(Waits(d)')
  <2>1. DOMAIN left = T
    BY DEF left
  <2> QED BY <1>1, <1>7, <2>1
<1> QED BY <1>1, <1>6, <1>11, <1>12, <1>13, <1>14, <1>15 DEF SortInv, Inspecting, Running

(* All is sorted just when as many tables are sorted as were read. *)
LEMMA AllSorted ==
  ASSUME InspectInv, SortInv, pc \in {"sort", "cyclic"} \cup Running
  PROVE  Len(sortedTables) = Len(tableOrder) <=> ToSet(sortedTables) = DOMAIN tables
<1>1. sortedTables \in Seq(DOMAIN tables) /\ IsInjective(sortedTables)
  BY DEF SortInv
<1>2. IsFiniteSet(DOMAIN tables) /\ Cardinality(DOMAIN tables) = Len(tableOrder)
  BY SortFacts DEF Sorting
<1>3. ToSet(sortedTables) \subseteq DOMAIN tables /\ Cardinality(ToSet(sortedTables)) = Len(sortedTables)
  BY <1>1, NamedOnce
<1> QED BY <1>2, <1>3, FS_Subset

LEMMA SortStep ==
  ASSUME InspectInv, SortInv, Configured, [Next]_vars
  PROVE  SortInv'
<1> DEFINE Early == {"tables", "failed", "degrees"} \cup Inspecting
<1>1. CASE pc \in Early /\ pc' \in Early /\ sortedTables' = sortedTables
  BY <1>1 DEF SortInv, Inspecting, Running
<1>2. CASE pc \notin Early /\ pc' = pc /\ UNCHANGED <<tables, sorting>>
  <2>1. (Ordered <=> Ordered') /\ \A t : Waits(t)' = Waits(t)
    BY <1>2 DEF Ordered, Waits, sorting
  <2> QED BY <1>2, <2>1 DEF SortInv, Inspecting, Running, sorting
<1>3. CASE pc \in Running /\ pc' \in Running /\ UNCHANGED <<tables, sorting>>
  <2>1. Ordered <=> Ordered'
    BY <1>3 DEF Ordered, sorting
  <2> QED BY <1>3, <2>1 DEF SortInv, Inspecting, Running, sorting
<1>4. CASE Tables \/ Columns \/ PrimaryKeys \/ ForeignKeys \/ IdentityColumns \/ FetchDDL \/ InspectFails
  <2>1. pc \in Early /\ pc' \in Early /\ sortedTables' = sortedTables
    BY <1>4 DEF Tables, Columns, PrimaryKeys, ForeignKeys, IdentityColumns, FetchDDL, InspectFails,
                Inspecting, sorting
  <2> QED BY <1>1, <2>1
<1>5. CASE Degrees
  BY <1>5, SortDegrees
<1>6. CASE Dequeue
  BY <1>6, SortDequeue
<1>7. CASE Cyclic
  <2>1. pc = "sort" /\ pc' = "cyclic" /\ queue = <<>> /\ UNCHANGED <<tables, sorting>>
    BY <1>7 DEF Cyclic, inspection
  <2>2. ToSet(sortedTables) # DOMAIN tables
    BY <1>7, <2>1, AllSorted DEF Cyclic
  <2>3. (Ordered <=> Ordered') /\ \A t : Waits(t)' = Waits(t)
    BY <2>1 DEF Ordered, Waits, sorting
  <2> QED BY <2>1, <2>2, <2>3 DEF SortInv, Inspecting, Running, sorting
<1>8. CASE Generate
  <2>1. pc = "sort" /\ pc' = "up" /\ UNCHANGED <<tables, sorting>>
    BY <1>8 DEF Generate, inspection
  <2>2. ToSet(sortedTables) = DOMAIN tables
    BY <1>8, <2>1, AllSorted DEF Generate
  <2>3. Ordered <=> Ordered'
    BY <2>1 DEF Ordered, sorting
  <2> QED BY <2>1, <2>2, <2>3 DEF SortInv, Inspecting, Running, sorting
<1>9. CASE Execute \/ Refuse \/ SectionEnds
  <2>1. /\ pc \in {"up", "seed", "deseed", "down"} /\ pc' \in {pc, After(pc)}
        /\ UNCHANGED <<tables, sorting>>
    BY <1>9 DEF Execute, Refuse, SectionEnds, Configured, inspection
  <2>2. pc \in Running /\ pc' \in Running
    BY <2>1, AfterRunning DEF Running
  <2> QED BY <1>3, <2>1, <2>2
<1>10. CASE UNCHANGED vars
  <2>1. pc \in Early \/ pc \notin Early
    OBVIOUS
  <2> QED BY <1>1, <1>2, <1>10, <2>1 DEF vars, inspection, sorting
<1> QED BY <1>4, <1>5, <1>6, <1>7, <1>8, <1>9, <1>10 DEF Next

(* Were there an order of tables that are called cyclic, its first table   *)
(* that is not sorted would wait for nothing.                              *)
LEMMA SortedExactly ==
  ASSUME InspectInv, SortInv
  PROVE  SortExact
<1> DEFINE T == DOMAIN tables
<1>1. ASSUME pc = "cyclic", NEW o \in Orders
      PROVE  FALSE
  <2>1. /\ queue = <<>> /\ ToSet(sortedTables) # T /\ sortedTables \in Seq(T)
        /\ \A t \in T : t \in ToSet(queue) \cup ToSet(sortedTables) <=> Waits(t) = {}
    BY <1>1 DEF SortInv
  <2>2. o \in SetToSeqs(T) /\ IsFiniteSet(T)
    BY <1>1, SortFacts DEF Orders, Sorting
  <2>3. o \in Seq(T) /\ ToSet(o) = T
    BY <2>2, AllInOrder
  <2>4. ToSet(sortedTables) \subseteq T /\ ToSet(queue) = {}
    BY <2>1 DEF ToSet
  <2> DEFINE U == {i \in DOMAIN o : o[i] \notin ToSet(sortedTables)}
  <2>5. DOMAIN o = 1 .. Len(o) /\ Len(o) \in Nat
    BY <2>3
  <2>6. U # {} /\ U \in SUBSET Nat
    <3>1. PICK x \in T : x \notin ToSet(sortedTables)
      BY <2>1, <2>4
    <3>2. PICK i \in DOMAIN o : o[i] = x
      BY <2>3 DEF ToSet
    <3> QED BY <2>5, <3>1, <3>2
  <2>7. PICK i \in U : \A j \in U : ~(j < i)
    <3> HIDE DEF U
    <3> QED BY <2>6, Least
  <2>8. i \in 1 .. Len(o) /\ o[i] \in T /\ o[i] \notin ToSet(sortedTables)
    BY <2>3, <2>5, <2>7
  <2>9. \A j \in 1 .. i - 1 : o[j] \in ToSet(sortedTables)
    BY <2>5, <2>7, <2>8
  <2>10. ASSUME NEW k \in DOMAIN tables[o[i]].columns
         PROVE  tables[o[i]].columns[k].ref.table \in {NoTable, o[i]} \cup ToSet(sortedTables)
    <3>1. tables[o[i]].columns[k] \in ToSet(tables[o[i]].columns)
      BY DEF ToSet
    <3>2. tables[o[i]].columns[k].ref.table \in {NoTable, o[i]} \cup {o[j] : j \in 1 .. i - 1}
      BY <1>1, <2>5, <2>8, <3>1 DEF Orders
    <3> QED BY <2>9, <3>2
  <2>11. Waits(o[i]) = {}
    BY <2>10 DEF Waits
  <2> QED BY <2>1, <2>4, <2>8, <2>11
<1>2. ASSUME pc = "up"
      PROVE  sortedTables \in Orders
  <2>1. /\ sortedTables \in Seq(T) /\ IsInjective(sortedTables) /\ Ordered
        /\ ToSet(sortedTables) = T
    BY <1>2 DEF SortInv, Running
  <2>2. IsFiniteSet(T)
    BY <1>2, SortFacts DEF Running
  <2>3. sortedTables \in SetToSeqs(T)
    BY <2>1, <2>2, AllInOrder
  <2> QED BY <2>1, <2>3 DEF Orders, Ordered
<1> QED BY <1>1, <1>2 DEF SortExact

-----------------------------------------------------------------------------
(* The generated sections *)

LEMMA FrontGrows ==
  ASSUME sortedTables \in Seq(DOMAIN tables), IsInjective(sortedTables),
         NEW n \in 1 .. Len(sortedTables)
  PROVE  /\ First(n) = First(n - 1) \cup {sortedTables[n]} /\ sortedTables[n] \notin First(n - 1)
         /\ First(n - 1) = First(n) \ {sortedTables[n]}
<1>1. Len(sortedTables) \in Nat /\ DOMAIN sortedTables = 1 .. Len(sortedTables)
  OBVIOUS
<1>2. \A i \in 1 .. n : (i \in 1 .. n - 1 \/ i = n) /\ i \in 1 .. Len(sortedTables)
  BY <1>1
<1>3. n \in 1 .. n /\ n \notin 1 .. n - 1 /\ \A i \in 1 .. n - 1 : i \in 1 .. n /\ i # n
  BY <1>1
<1>4. First(n) = First(n - 1) \cup {sortedTables[n]}
  BY <1>2, <1>3 DEF First
<1>5. sortedTables[n] \notin First(n - 1)
  BY <1>1, <1>2, <1>3 DEF First, IsInjective
<1> QED BY <1>4, <1>5

(* The key of another table that is declared references an earlier table. *)
LEMMA KeysBehind ==
  ASSUME InspectInv, SortInv, pc \in Running, Regular,
         NEW i \in 1 .. Len(sortedTables), NEW f \in tables[sortedTables[i]].ddl, f.own
  PROVE  f.ref \in {sortedTables[i]} \cup First(i - 1)
<1> DEFINE t == sortedTables[i]
<1>1. /\ sortedTables \in Seq(DOMAIN tables) /\ Ordered
  BY DEF SortInv
<1>2. DOMAIN sortedTables = 1 .. Len(sortedTables) /\ t \in DOMAIN tables
  BY <1>1
<1>3. /\ catalog \in Catalogs /\ KeysRead /\ ColumnsRead(t) /\ DOMAIN tables = ToSet(catalog.tables)
      /\ tables[t].ddl \subseteq {g \in catalog.fks : g.table = t}
  BY <1>2 DEF InspectInv, Inspected, Running
<1>4. f \in catalog.fks /\ f.table = t
  BY <1>3
<1>5. /\ f \in ForeignKey /\ f.ref \in DOMAIN tables /\ f.cols # <<>>
      /\ ToSet(f.cols) \subseteq {x.name : x \in ToSet(catalog.columns[t])}
  BY <1>3, <1>4, CatalogFacts
<1>6. NoTable \notin DOMAIN tables
  BY SortFacts
<1>7. f.cols \in Seq(STRING) /\ 1 \in DOMAIN f.cols
  BY <1>5 DEF ForeignKey
<1>8. f.cols[1] \in ToSet(f.cols)
  BY <1>7 DEF ToSet
<1>9. PICK k \in DOMAIN catalog.columns[t] : catalog.columns[t][k].name = f.cols[1]
  BY <1>5, <1>8 DEF ToSet
<1>10. k \in DOMAIN tables[t].columns /\ tables[t].columns[k].name = f.cols[1]
  BY <1>3, <1>9 DEF ColumnsRead
<1>11. tables[t].columns[k].ref.table = f.ref
  BY <1>3, <1>4, <1>8, <1>10 DEF KeysRead
<1>12. tables[t].columns[k] \in ToSet(tables[t].columns)
  BY <1>10 DEF ToSet
<1>13. f.ref \in {NoTable, t} \cup {sortedTables[j] : j \in 1 .. i - 1}
  BY <1>1, <1>2, <1>11, <1>12 DEF Ordered
<1> QED BY <1>5, <1>6, <1>13 DEF First

(* No table of the first n has a key into the last of them, but itself. *)
LEMMA Unreferenced ==
  ASSUME InspectInv, SortInv, pc \in Running, Regular,
         NEW n \in 1 .. Len(sortedTables), NEW ts, exists \cap ts \subseteq First(n)
  PROVE  ~ReferencedBy(sortedTables[n], ts)
<1> DEFINE t == sortedTables[n]
<1> SUFFICES ASSUME NEW u \in exists \cap ts, u # t, NEW f \in tables[u].ddl, f.own, f.ref = t
             PROVE  FALSE
  BY DEF ReferencedBy
<1>1. sortedTables \in Seq(DOMAIN tables) /\ IsInjective(sortedTables)
  BY DEF SortInv
<1>2. PICK i \in 1 .. n : u = sortedTables[i]
  BY DEF First
<1>3. DOMAIN sortedTables = 1 .. Len(sortedTables) /\ Len(sortedTables) \in Nat
  BY <1>1
<1>4. i \in 1 .. n - 1 /\ i \in 1 .. Len(sortedTables)
  BY <1>2, <1>3
<1>5. f.ref \in {sortedTables[i]} \cup First(i - 1)
  BY <1>2, <1>4, KeysBehind
<1>6. First(i - 1) \subseteq First(n - 1) /\ sortedTables[i] \in First(n - 1)
  BY <1>3, <1>4 DEF First
<1>7. t \notin First(n - 1)
  BY <1>1, FrontGrows
<1> QED BY <1>5, <1>6, <1>7

LEMMA LenOfFunction ==
  ASSUME NEW n \in Nat, NEW f, f = [i \in 1 .. n |-> f[i]]
  PROVE  Len(f) = n
<1>1. f \in [1 .. n -> {f[i] : i \in 1 .. n}]
  OBVIOUS
<1>2. f \in Seq({f[i] : i \in 1 .. n})
  BY <1>1
<1> QED BY <1>1, <1>2

(* The statements in the order of the tables, or against it. *)
LEMMA SectionStatements ==
  ASSUME sortedTables \in Seq(DOMAIN tables),
         Generates
  PROVE  /\ pc = "up" => /\ Len(config[pc]) = Len(sortedTables)
                         /\ at \in 1 .. Len(sortedTables) =>
                              /\ Statement.table = sortedTables[at]
                              /\ Statement.fks = tables[sortedTables[at]].ddl
         /\ pc = "deseed" => /\ Len(config[pc]) = Len(sortedTables)
                             /\ at \in 1 .. Len(sortedTables) =>
                                  /\ Statement.table = sortedTables[Len(sortedTables) - at + 1]
                                  /\ Statement.cascade => Truncates
         /\ pc = "down" => /\ Len(config[pc]) = Len(sortedTables)
                           /\ at \in 1 .. Len(sortedTables) =>
                                Statement.table = sortedTables[Len(sortedTables) - at + 1]
<1> DEFINE n == Len(sortedTables)
<1>1. n \in Nat /\ DOMAIN sortedTables = 1 .. n
  OBVIOUS
<1>2. \A i \in 1 .. n : Reverse(sortedTables)[i] = sortedTables[n - i + 1]
  BY <1>1 DEF Reverse
<1>3. CASE pc = "up"
  <2>1. config[pc] = Up
    BY <1>3 DEF Generates
  <2>2. DOMAIN Up = 1 .. n /\ Up = [i \in 1 .. n |-> Up[i]]
    BY <1>1 DEF Up
  <2>3. Len(Up) = n
    <3> HIDE DEF n
    <3> QED BY <1>1, <2>2, LenOfFunction
  <2>4. \A i \in 1 .. n : Up[i].table = sortedTables[i] /\ Up[i].fks = tables[sortedTables[i]].ddl
    BY <1>1 DEF Up
  <2> QED BY <1>3, <2>1, <2>3, <2>4 DEF Statement
<1>4. CASE pc = "deseed"
  <2>1. config[pc] = Deseed
    BY <1>4 DEF Generates
  <2>2. Deseed = [i \in 1 .. n |-> Deseed[i]]
    BY <1>1 DEF Deseed
  <2>3. Len(Deseed) = n
    <3> HIDE DEF n
    <3> QED BY <1>1, <2>2, LenOfFunction
  <2>4. \A i \in 1 .. n : Deseed[i].table = sortedTables[n - i + 1] /\ (Deseed[i].cascade => Truncates)
    BY <1>2 DEF Deseed, Truncates
  <2> QED BY <1>4, <2>1, <2>3, <2>4 DEF Statement
<1>5. CASE pc = "down"
  <2>1. config[pc] = Down
    BY <1>5 DEF Generates
  <2>2. Down = [i \in 1 .. n |-> Down[i]]
    BY <1>1 DEF Down
  <2>3. Len(Down) = n
    <3> HIDE DEF n
    <3> QED BY <1>1, <2>2, LenOfFunction
  <2>4. \A i \in 1 .. n : Down[i].table = sortedTables[n - i + 1]
    BY <1>1, <1>2 DEF Down
  <2> QED BY <1>5, <2>1, <2>3, <2>4 DEF Statement
<1> QED BY <1>3, <1>4, <1>5

(* What the database refuses is an INSERT, or a TRUNCATE. *)
LEMMA StatementsWork ==
  ASSUME InspectInv, SortInv, RunInv, Regular, pc \in DOMAIN config, at <= Len(config[pc])
  PROVE  (pc \in {"up", "down"} \/ (pc = "deseed" /\ ~Truncates)) => Works(Statement)
<1> DEFINE n == Len(sortedTables)
           t == Statement.table
<1>1. pc \in Running /\ Progress /\ Generates
  BY DEF RunInv, Configured, Running
<1>2. /\ sortedTables \in Seq(DOMAIN tables) /\ IsInjective(sortedTables)
      /\ ToSet(sortedTables) = DOMAIN tables
  BY <1>1 DEF SortInv, Running
<1>3. n \in Nat /\ DOMAIN sortedTables = 1 .. n
  BY <1>2
<1>4. pc \in {"up", "deseed", "down"} => at \in 1 .. n
  BY <1>1, <1>2, <1>3, SectionStatements DEF Progress
<1>5. CASE pc = "up"
  <2>1. t = sortedTables[at] /\ Statement.fks = tables[t].ddl /\ exists = First(at - 1)
    BY <1>1, <1>2, <1>4, <1>5, SectionStatements DEF Progress
  <2>2. \A f \in Statement.fks : f.own => f.ref \in exists \cup {t}
    BY <1>1, <1>4, <1>5, <2>1, KeysBehind
  <2>3. t \in DOMAIN tables
    BY <1>2, <1>3, <1>4, <1>5, <2>1
  <2>4. tables[t].ddl \subseteq catalog.fks
    BY <1>1, <2>3 DEF InspectInv, Running
  <2>5. \A f \in Statement.fks : \E g \in catalog.fks : g.table = f.table /\ g.cols = f.cols
    BY <2>1, <2>4
  <2>6. t \notin exists
    BY <1>2, <1>4, <1>5, <2>1, FrontGrows
  <2> QED BY <1>5, <2>2, <2>5, <2>6 DEF Works, Creates
<1>6. CASE pc = "down"
  <2> DEFINE k == n - at + 1
  <2>1. t = sortedTables[k] /\ k \in 1 .. n /\ exists = First(k)
    BY <1>1, <1>2, <1>3, <1>4, <1>6, SectionStatements DEF Progress, Remaining
  <2>2. exists \cap DOMAIN tables \subseteq First(k)
    BY <2>1
  <2> HIDE DEF k, t
  <2>3. ~ReferencedBy(t, DOMAIN tables)
    BY <1>1, <2>1, <2>2, Unreferenced
  <2> QED BY <1>6, <2>3 DEF Works, Drops, t
<1>7. CASE pc = "deseed" /\ ~Truncates
  <2> DEFINE k == n - at + 1
  <2>1. t = sortedTables[k] /\ k \in 1 .. n /\ filled \subseteq First(k) /\ exists = DOMAIN tables
    BY <1>1, <1>2, <1>3, <1>4, <1>7, SectionStatements DEF Progress, Remaining
  <2>2. exists \cap filled \subseteq First(k)
    BY <2>1
  <2>3. t \in exists
    BY <1>2, <1>3, <2>1
  <2> HIDE DEF k, t
  <2>4. ~ReferencedBy(t, filled)
    BY <1>1, <2>1, <2>2, Unreferenced
  <2> QED BY <1>7, <2>3, <2>4 DEF Works, Empties, t
<1> QED BY <1>5, <1>6, <1>7

LEMMA RunGenerate ==
  ASSUME InspectInv, SortInv, RunInv, Generate
  PROVE  RunInv'
<1>1. /\ pc = "sort" /\ pc' = "up" /\ UNCHANGED <<driver, catalog, inspection, sorting, database>>
      /\ config' = [up |-> Up, seed |-> Seed, deseed |-> Deseed, down |-> Down]
  BY DEF Generate
<1>2. /\ exists = {} /\ filled = {} /\ failed = {} /\ at = 1
      /\ sortedTables \in Seq(DOMAIN tables)
  BY <1>1 DEF RunInv, SortInv, Running
<1>3. Len(sortedTables) \in Nat
  BY <1>2
<1>4. Up' = Up /\ Deseed' = Deseed /\ Down' = Down
  BY <1>1 DEF Up, Deseed, Down, inspection, sorting
<1>5. First(at - 1)' = {}
  BY <1>1, <1>2 DEF First, database
<1>6. Progress'
  BY <1>1, <1>2, <1>3, <1>5 DEF Progress, database, sorting
<1>7. Configured'
  BY <1>1 DEF Configured
<1>8. Generates'
  BY <1>1, <1>4 DEF Generates
<1> QED BY <1>1, <1>2, <1>6, <1>7, <1>8 DEF RunInv, Running, database

(* What the sections leave behind, while the model of the database moves. *)
LEMMA RunSections ==
  ASSUME InspectInv, SortInv, RunInv, Execute \/ Refuse \/ SectionEnds
  PROVE  RunInv'
<1> DEFINE n == Len(sortedTables)
<1>1. /\ UNCHANGED <<driver, catalog, inspection, sorting, config>>
      /\ pc \in {"up", "seed", "deseed", "down"}
  BY DEF Execute, Refuse, SectionEnds, RunInv, Configured
<1>2. pc \in Running /\ pc' \in Running
  BY <1>1, AfterRunning DEF Execute, Refuse, SectionEnds, Running
<1>3. (Regular' <=> Regular) /\ (Truncates' <=> Truncates)
  BY <1>1 DEF Regular, Truncates
<1>4. Generates /\ Generates' /\ Configured'
  <2>1. Up' = Up /\ Deseed' = Deseed /\ Down' = Down
    BY <1>1 DEF Up, Deseed, Down, inspection, sorting
  <2> QED BY <1>1, <1>2, <2>1 DEF RunInv, Configured, Generates
<1> SUFFICES ASSUME Regular
             PROVE  /\ "up" \notin failed' /\ "down" \notin failed' /\ (~Truncates => "deseed" \notin failed')
                    /\ Progress'
  BY <1>2, <1>3, <1>4 DEF RunInv
<1>5. /\ "up" \notin failed /\ "down" \notin failed /\ (~Truncates => "deseed" \notin failed)
      /\ Progress
  BY <1>2 DEF RunInv
<1>6. /\ sortedTables \in Seq(DOMAIN tables) /\ IsInjective(sortedTables)
      /\ ToSet(sortedTables) = DOMAIN tables
  BY <1>2 DEF SortInv, Running
<1>7. n \in Nat /\ DOMAIN sortedTables = 1 .. n /\ First(n) = DOMAIN tables /\ First(0) = {}
  <2>1. n \in Nat /\ DOMAIN sortedTables = 1 .. n
    BY <1>6
  <2>2. First(n) = DOMAIN tables
    BY <1>6, <2>1 DEF First, ToSet
  <2>3. 1 .. 0 = {}
    OBVIOUS
  <2>4. First(0) = {}
    BY <2>3 DEF First
  <2> QED BY <2>1, <2>2, <2>4
<1>8. /\ sortedTables' = sortedTables /\ DOMAIN tables' = DOMAIN tables
      /\ Remaining' = First(n - at' + 1) /\ First(at - 1)' = First(at' - 1)
  BY <1>1 DEF inspection, sorting, Remaining, First
<1>9. CASE Execute
  <2>1. /\ pc' = pc /\ at' = at + 1 /\ failed' = failed /\ at <= Len(config[pc])
        /\ Works(Statement)
    BY <1>9 DEF Execute
  <2>2. CASE pc = "up"
    <3>1. at \in 1 .. n /\ Statement.table = sortedTables[at]
      BY <1>4, <1>5, <1>6, <1>7, <2>1, <2>2, SectionStatements DEF Progress
    <3>2. exists' = exists \cup {sortedTables[at]} /\ filled' = filled
      BY <1>9, <2>2, <3>1 DEF Execute
    <3>3. exists' = First(at)
      BY <1>5, <1>6, <2>2, <3>1, <3>2, FrontGrows DEF Progress
    <3>4. First(at - 1)' = First(at) /\ at' \in 1 .. n + 1
      BY <1>7, <1>8, <2>1, <3>1
    <3> QED BY <1>3, <1>5, <1>8, <2>1, <2>2, <3>2, <3>3, <3>4 DEF Progress
  <2>3. CASE pc = "seed"
    <3>1. exists' = exists /\ filled' = filled \cup {Statement.table} /\ Statement.table \in exists
      BY <1>9, <2>1, <2>3 DEF Execute, Works
    <3> QED BY <1>3, <1>5, <1>8, <2>1, <2>3, <3>1 DEF Progress
  <2>4. CASE pc = "deseed"
    <3> DEFINE k == n - at + 1
    <3>1. /\ at \in 1 .. n /\ Statement.table = sortedTables[k] /\ k \in 1 .. n
          /\ Statement.cascade => Truncates
      BY <1>4, <1>5, <1>6, <1>7, <2>1, <2>4, SectionStatements DEF Progress
    <3>2. exists' = exists /\ filled' = IF Statement.cascade THEN {} ELSE filled \ {sortedTables[k]}
      BY <1>9, <2>4, <3>1 DEF Execute
    <3>3. First(k - 1) = First(k) \ {sortedTables[k]}
      <4> HIDE DEF k
      <4> QED BY <1>6, <3>1, FrontGrows
    <3>4. Remaining' = First(k - 1) /\ at' \in 1 .. n + 1 /\ Remaining = First(k)
      BY <1>7, <1>8, <2>1, <3>1 DEF Remaining
    <3>5. ~Truncates => filled' \subseteq Remaining'
      BY <1>5, <2>4, <3>1, <3>2, <3>3, <3>4 DEF Progress
    <3>6. filled' \subseteq filled
      BY <3>2
    <3> HIDE DEF k
    <3> QED BY <1>3, <1>5, <1>8, <2>1, <2>4, <3>2, <3>4, <3>5, <3>6 DEF Progress
  <2>5. CASE pc = "down"
    <3> DEFINE k == n - at + 1
    <3>1. at \in 1 .. n /\ Statement.table = sortedTables[k] /\ k \in 1 .. n
      BY <1>4, <1>5, <1>6, <1>7, <2>1, <2>5, SectionStatements DEF Progress
    <3>2. exists' = exists \ {sortedTables[k]}
      BY <1>9, <2>5, <3>1 DEF Execute
    <3>3. First(k - 1) = First(k) \ {sortedTables[k]}
      <4> HIDE DEF k
      <4> QED BY <1>6, <3>1, FrontGrows
    <3>4. Remaining' = First(k - 1) /\ at' \in 1 .. n + 1 /\ at' # 1 /\ Remaining = First(k)
      BY <1>7, <1>8, <2>1, <3>1 DEF Remaining
    <3>5. exists' = Remaining'
      BY <1>5, <2>5, <3>2, <3>3, <3>4 DEF Progress
    <3> HIDE DEF k
    <3> QED BY <1>3, <1>5, <1>8, <2>1, <2>5, <3>4, <3>5 DEF Progress
  <2>6. /\ "up" \notin failed' /\ "down" \notin failed' /\ (~Truncates => "deseed" \notin failed')
    BY <1>5, <2>1
  <2> QED BY <1>1, <2>2, <2>3, <2>4, <2>5, <2>6
<1>10. CASE Refuse \/ SectionEnds
  <2>1. /\ pc' = After(pc) /\ at' = 1 /\ exists' = exists /\ filled' = filled
    BY <1>10 DEF Refuse, SectionEnds
  <2>2. Remaining' = DOMAIN tables /\ at' \in 1 .. n + 1
    BY <1>7, <1>8, <2>1
  <2>3. /\ "up" \notin failed' /\ "down" \notin failed' /\ (~Truncates => "deseed" \notin failed')
    <3>1. CASE SectionEnds
      BY <1>5, <3>1 DEF SectionEnds
    <3>2. CASE Refuse
      <4>1. /\ failed' = failed \cup {pc} /\ pc \in DOMAIN config /\ at <= Len(config[pc])
            /\ ~Works(Statement) \/ pc = "seed"
        BY <3>2 DEF Refuse
      <4>2. pc = "seed" \/ (pc = "deseed" /\ Truncates)
        BY <1>1, <4>1, StatementsWork
      <4> QED BY <1>5, <4>1, <4>2
    <3> QED BY <1>10, <3>1, <3>2
  <2>4. pc \in {"up", "down"} \/ (pc = "deseed" /\ ~Truncates) => at > Len(config[pc])
    <3>1. CASE SectionEnds
      BY <3>1 DEF SectionEnds
    <3>2. CASE Refuse
      BY <3>2, StatementsWork DEF Refuse
    <3> QED BY <1>10, <3>1, <3>2
  <2>5. pc \in {"up", "deseed", "down"} => at \in 1 .. n + 1 /\ Len(config[pc]) = n
    BY <1>4, <1>5, <1>6, SectionStatements DEF Progress
  <2>6. pc \in {"up", "down"} \/ (pc = "deseed" /\ ~Truncates) => at = n + 1 /\ Remaining = {}
    <3> SUFFICES ASSUME pc \in {"up", "down"} \/ (pc = "deseed" /\ ~Truncates)
                 PROVE  at = n + 1 /\ Remaining = {}
      OBVIOUS
    <3>1. at = n + 1
      BY <1>7, <2>4, <2>5
    <3>2. n - at + 1 = 0
      BY <1>7, <3>1
    <3> QED BY <1>7, <3>1, <3>2 DEF Remaining
  <2>7. CASE pc = "up"
    <3>1. pc' = "seed" /\ at - 1 = n
      BY <1>7, <2>1, <2>6, <2>7, AfterRunning
    <3>2. exists = DOMAIN tables /\ filled = {}
      BY <1>5, <1>7, <2>7, <3>1 DEF Progress
    <3> QED BY <1>8, <2>1, <2>3, <3>1, <3>2 DEF Progress
  <2>8. CASE pc = "seed"
    <3>1. pc' = "deseed"
      BY <2>1, <2>8, AfterRunning
    <3>2. exists = DOMAIN tables /\ filled \subseteq DOMAIN tables
      BY <1>5, <2>8 DEF Progress
    <3> QED BY <1>8, <2>1, <2>2, <2>3, <3>1, <3>2 DEF Progress
  <2>9. CASE pc = "deseed"
    <3>1. pc' = "down"
      BY <2>1, <2>9, AfterRunning
    <3>2. exists = DOMAIN tables /\ (~Truncates => filled = {})
      BY <1>5, <2>6, <2>9 DEF Progress
    <3> QED BY <1>3, <1>8, <2>1, <2>2, <2>3, <3>1, <3>2 DEF Progress
  <2>10. CASE pc = "down"
    <3>1. pc' = "done"
      BY <2>1, <2>10, AfterRunning
    <3>2. exists = {}
      BY <1>5, <2>6, <2>10 DEF Progress
    <3> QED BY <2>1, <2>3, <3>1, <3>2 DEF Progress
  <2> QED BY <1>1, <2>7, <2>8, <2>9, <2>10
<1> QED BY <1>9, <1>10

LEMMA RunStep ==
  ASSUME InspectInv, SortInv, RunInv, [Next]_vars
  PROVE  RunInv'
<1> DEFINE Early == {"tables", "failed"} \cup Inspecting \cup Sorting
<1>1. CASE /\ Tables \/ Columns \/ PrimaryKeys \/ ForeignKeys \/ IdentityColumns \/ FetchDDL
              \/ InspectFails \/ Degrees \/ Dequeue \/ Cyclic
  <2>1. pc \notin Running /\ pc' \notin Running /\ UNCHANGED <<config, database>>
    BY <1>1 DEF Tables, Columns, PrimaryKeys, ForeignKeys, IdentityColumns, FetchDDL, InspectFails,
                Degrees, Dequeue, Cyclic, Running
  <2> QED BY <2>1 DEF RunInv, Configured, database
<1>2. CASE Generate
  BY <1>2, RunGenerate
<1>3. CASE Execute \/ Refuse \/ SectionEnds
  BY <1>3, RunSections
<1>4. CASE UNCHANGED vars
  <2>1. UNCHANGED <<driver, catalog, pc, tables, sortedTables, config, at, exists, filled, failed>>
    BY <1>4 DEF vars, inspection, sorting, database
  <2>2. /\ Up' = Up /\ Deseed' = Deseed /\ Down' = Down
        /\ (Regular' <=> Regular) /\ (Truncates' <=> Truncates) /\ First(at - 1)' = First(at - 1)
        /\ Remaining' = Remaining
    BY <2>1 DEF Up, Deseed, Down, Regular, Truncates, First, Remaining
  <2> QED BY <2>1, <2>2 DEF RunInv, Configured, Generates, Progress
<1> QED BY <1>1, <1>2, <1>3, <1>4 DEF Next

LEMMA SchemaInvariant == Spec => [](InspectInv /\ SortInv /\ RunInv)
<1>1. Init => InspectInv /\ SortInv /\ RunInv
  BY InspectInit DEF Init, SortInv, RunInv, Configured, Running
<1>2. InspectInv /\ SortInv /\ RunInv /\ [Next]_vars => InspectInv' /\ SortInv' /\ RunInv'
  BY InspectStep, SortStep, RunStep DEF RunInv
<1> QED BY <1>1, <1>2, PTL DEF Spec

(* schema.SortTables: whatever the catalogue and the order the map of      *)
(* tables is walked in, an order that puts referenced tables first is      *)
(* found when there is one, and "cyclic" is reported only when there is    *)
(* none.                                                                   *)
THEOREM SortsExactly == Spec => []SortExact
<1>1. InspectInv /\ SortInv /\ RunInv => SortExact
  BY SortedExactly
<1> QED BY <1>1, SchemaInvariant, PTL

(* The configuration edg init generates, for any catalogue of regular      *)
(* keys and whatever rows the seed inserted: up and down run through on    *)
(* the inspected database's own kind and leave no table.  So does deseed   *)
(* where it deletes rows; where it truncates (PostgreSQL, DSQL, Oracle)    *)
(* the theorem says nothing of it, and leaves it to fail.                  *)
THEOREM GeneratedConfigRuns == Spec => []GeneratedRuns
<1>1. InspectInv /\ SortInv /\ RunInv => GeneratedRuns
  <2> SUFFICES ASSUME RunInv, Regular
               PROVE  /\ "up" \notin failed /\ "down" \notin failed
                      /\ ~Truncates => "deseed" \notin failed
                      /\ pc = "down" /\ at = 1 /\ ~Truncates => filled = {}
                      /\ pc = "done" => exists = {}
    BY DEF GeneratedRuns
  <2> QED BY DEF RunInv, Running, Progress
<1> QED BY <1>1, SchemaInvariant, PTL
=============================================================================
