-------------------------------- MODULE Sync --------------------------------
(***************************************************************************)
(* The commands that write to two databases and compare them               *)
(* (cmd/edg/sync.go).  sync run and sync down take the lifecycle of the    *)
(* source, then of the target; sync verify merges two cursors that read a  *)
(* table of each page by page, while replication may still be changing the *)
(* target.                                                                 *)
(***************************************************************************)
EXTENDS Integers, Sequences, FiniteSets

CONSTANTS
  Columns,     (* the columns of the tables on each side                    *)
  Key,         (* --order-by                                                *)
  Null,        (* SQL's NULL; as a key it reads as the empty string         *)
  TextOrder,   (* the keys as strings.Compare orders them                   *)
  Number,      (* what strconv.ParseFloat makes of those it can read        *)
  NaN,         (* one of its values, neither less nor greater than any      *)
  Contents,    (* what the tables may hold: per table, per side, its rows   *)
  Options,     (* flags of verify, and the order each database sorts by     *)
  Draws,       (* random draws of: the globals, each section                *)
  Failures     (* whether databases may fail                                *)

Sides    == {"source", "target"}
Other(s) == CHOOSE o \in Sides : o # s

Sections == [run |-> <<"up", "seed">>, down |-> <<"deseed", "down">>]

ASSUME SyncAssumption ==
  /\ Columns \in [Sides -> SUBSET STRING]
  /\ \A s \in Sides : IsFiniteSet(Columns[s]) /\ Key \in Columns[s]
  /\ \A x \in {"globals", "up", "seed", "deseed", "down"} : Draws[x] \in Nat
  /\ Failures \in BOOLEAN
  /\ Null \notin {"ok", "failed"}

Keys == {TextOrder[i] : i \in DOMAIN TextOrder}

(* A total order of the keys, as a sequence. *)
Ordering == {seq \in Seq(Keys) : /\ \A k \in Keys : \E i \in DOMAIN seq : seq[i] = k
                                 /\ \A i, j \in DOMAIN seq : seq[i] = seq[j] => i = j}

(* What becomes of a row of the source on the target.                      *)
Copy(r) == [c \in Columns["target"] |-> r[c]]

Rows == UNION UNION {{c[t][s] : t \in DOMAIN c, s \in Sides} : c \in Contents}

(* --tables names at least one table; tables are finite.                   *)
ASSUME TablesAssumption ==
  /\ TextOrder \in Ordering
  /\ DOMAIN Number \subseteq Keys \ {Null} /\ \A k \in DOMAIN Number : Number[k] \in Int \cup {NaN}
  /\ \A o \in Options : o.batch \in Nat /\ \A s \in Sides : o.order[s] \in Ordering
  /\ \A c \in Contents : /\ c \in Seq([Sides -> SUBSET Rows]) /\ c # <<>>
                         /\ \A t \in DOMAIN c, s \in Sides : IsFiniteSet(c[t][s])
  /\ \A r \in Rows : r[Key] \in Keys /\ Null \notin {r, Copy(r)}

VARIABLES
  cmd,        (* "run", "down" or "verify"                                  *)
  flags,      (* of run and down: whether there is a target, its URL, a seed*)
  opt,        (* of verify                                                  *)
  pc, side,
  todo,       (* the sections left for the side                             *)
  rng,        (* draws since the generator was seeded                       *)
  done,       (* history: the sections a side went through, and its rng     *)
  content,    (* the rows of each table on each side                        *)
  moved,      (* history: the target changed while it was read              *)
  table,      (* the table being verified                                   *)
  cursor,     (* of each side: the rows of the page left, the last key, done*)
  row,        (* of each side: the row to look at, or Null                  *)
  want,       (* the sides whose cursor has to move                         *)
  reports, mismatches, result

lifecycle == <<side, todo, rng, done>>
merge     == <<table, cursor, row, want, reports, mismatches>>
vars      == <<cmd, flags, opt, pc, lifecycle, content, moved, merge, result>>

Unread == [rows |-> <<>>, last |-> {}, done |-> FALSE]

Init ==
  /\ cmd \in {"run", "down", "verify"}
  /\ IF cmd = "verify" THEN flags = [target |-> TRUE, url |-> TRUE, seed |-> FALSE]
                           /\ opt \in Options /\ content \in Contents
     ELSE flags \in [target : BOOLEAN, url : BOOLEAN, seed : BOOLEAN]
          /\ opt = Null /\ content = <<>>
  /\ pc = "start" /\ side = "source" /\ todo = <<>>
  /\ rng = 0 /\ done = [s \in Sides |-> <<>>]
  /\ moved = FALSE
  /\ table = 1 /\ cursor = [s \in Sides |-> Unread] /\ row = [s \in Sides |-> Null]
  /\ want = <<>> /\ reports = {} /\ mismatches = 0
  /\ result = Null

End(r) == pc' = "ended" /\ result' = r

-----------------------------------------------------------------------------
(* sync run, sync down *)

StartSideUnseeded(s) == (* mutant: the generator is seeded once, for the source *)
  /\ side' = s /\ pc' = "load"
  /\ rng' = IF cmd = "run" /\ flags.seed /\ s = "source" THEN 0 ELSE rng

(* The generator starts over for each side, when a seed is given. *)
StartSide(s) ==
  /\ side' = s /\ pc' = "load"
  /\ rng' = IF cmd = "run" /\ flags.seed THEN 0 ELSE rng

StartLifecycle ==
  /\ pc = "start" /\ cmd # "verify"
  /\ StartSide("source")
  /\ UNCHANGED <<cmd, flags, opt, todo, done, content, moved, merge, result>>

(* LoadConfig, the connection and NewEnv, which evaluates the globals. *)
Load ==
  /\ pc = "load"
  /\ rng' = rng + Draws["globals"]
  /\ todo' = Sections[cmd]
  /\ pc' = "section"
  /\ UNCHANGED <<cmd, flags, opt, side, done, content, moved, merge, result>>

Section ==
  /\ pc = "section" /\ todo # <<>>
  /\ done' = [done EXCEPT ![side] = Append(@, <<Head(todo), rng>>)]
  /\ rng' = rng + Draws[Head(todo)]
  /\ todo' = Tail(todo)
  /\ UNCHANGED <<cmd, flags, opt, pc, side, content, moved, merge, result>>

(* An error of the source leaves the target as it is, in sync down too. *)
SideFails ==
  /\ Failures /\ pc \in {"load", "section"} /\ (pc = "section" => todo # <<>>)
  /\ End("failed")
  /\ UNCHANGED <<cmd, flags, opt, lifecycle, content, moved, merge>>

(* The target's URL is asked for only now, when the source is done. *)
SideOver ==
  /\ pc = "section" /\ todo = <<>>
  /\ IF side = "target" \/ ~flags.target THEN End("ok") /\ UNCHANGED <<side, rng>>
     ELSE IF ~flags.url THEN End("failed") /\ UNCHANGED <<side, rng>>
     ELSE StartSide("target") /\ UNCHANGED result
  /\ UNCHANGED <<cmd, flags, opt, todo, done, content, moved, merge>>

-----------------------------------------------------------------------------
(* sync verify *)

At(seq, k)     == CHOOSE i \in DOMAIN seq : seq[i] = k
Less(seq, j, k) == At(seq, j) < At(seq, k)

(* compareKeys: as numbers when both keys are, as strings otherwise.  Keys *)
(* that are the same number compare equal ('1' and '01', or integers that  *)
(* float64 cannot tell apart), and it need not be transitive.              *)
KeyLess(j, k) ==
  IF {j, k} \subseteq DOMAIN Number
  THEN NaN \notin {Number[j], Number[k]} /\ Number[j] < Number[k]
  ELSE Less(TextOrder, j, k)

KeySame(j, k) == ~KeyLess(j, k) /\ ~KeyLess(k, j)

RowsFrom(s, last) == (* mutant: WHERE key >= last *)
  {r \in content[table][s] :
     \/ last = {}
     \/ r[Key] # Null /\ \A k \in last : k = Null \/ ~Less(opt.order[s], r[Key], k)}

(* paginatedQuery: rows after the last key, in the order of the database.  *)
(* NULL is after nothing, and everything but NULL is after the empty string*)
(* it reads as.                                                            *)
RowsAfter(s, last) ==
  {r \in content[table][s] :
     \/ last = {}
     \/ r[Key] # Null /\ \A k \in last : k = Null \/ Less(opt.order[s], k, r[Key])}

Sorted(s, q) == \A i, j \in DOMAIN q : i < j => ~Less(opt.order[s], q[j][Key], q[i][Key])

(* The first rows of a result, up to the batch size; ties in any order. *)
Pages(s, rows) ==
  LET n == IF opt.batch < Cardinality(rows) THEN opt.batch ELSE Cardinality(rows)
  IN  {q \in [1 .. n -> rows] :
         /\ \A i, j \in 1 .. n : q[i] = q[j] => i = j
         /\ Sorted(s, q)
         /\ n > 0 => \A r \in rows : r \in {q[i] : i \in 1 .. n}
                                     \/ ~Less(opt.order[s], r[Key], q[n][Key])}

(* A page is read in one query; an empty one is the end of the table. *)
FetchBatch(s) ==
  \E page \in Pages(s, RowsAfter(s, cursor[s].last)) :
    /\ row' = [row EXCEPT ![s] = IF page = <<>> THEN Null ELSE Head(page)]
    /\ cursor' = [cursor EXCEPT ![s] =
         IF page = <<>> THEN [@ EXCEPT !.done = TRUE]
         ELSE [rows |-> Tail(page), last |-> {page[Len(page)][Key]}, done |-> FALSE]]

StartVerify ==
  /\ pc = "start" /\ cmd = "verify"
  /\ pc' = "verify" /\ want' = <<"source", "target">>
  /\ UNCHANGED <<cmd, flags, opt, lifecycle, content, moved, table, cursor, row, reports, mismatches, result>>

(* rowCursor.next *)
Advance(s) ==
  /\ pc = "verify" /\ want # <<>> /\ s = Head(want)
  /\ IF cursor[s].done THEN row' = [row EXCEPT ![s] = Null] /\ UNCHANGED cursor
     ELSE IF cursor[s].rows = <<>> THEN FetchBatch(s)
     ELSE /\ row' = [row EXCEPT ![s] = Head(cursor[s].rows)]
          /\ cursor' = [cursor EXCEPT ![s].rows = Tail(@)]
  /\ want' = Tail(want)
  /\ UNCHANGED <<cmd, flags, opt, pc, lifecycle, content, moved, table, reports, mismatches, result>>

QueryFails ==
  /\ Failures /\ pc = "verify" /\ want # <<>>
  /\ cursor[Head(want)].rows = <<>> /\ ~cursor[Head(want)].done
  /\ End("failed")
  /\ UNCHANGED <<cmd, flags, opt, lifecycle, content, moved, merge>>

(* buildCompareCols: the source's columns that the target has, too. *)
CompareCols == (Columns["source"] \cap Columns["target"]) \ opt.ignored

Differing == {c \in CompareCols : row["source"][c] # row["target"][c]}

Report(kind, cols, s) ==
  /\ reports' = reports \cup {[table |-> table, key |-> row[s][Key], kind |-> kind, column |-> c] : c \in cols}
  /\ mismatches' = mismatches + Cardinality(cols)

Ahead(s) == \* no row of the other side comes before this one
  /\ row[s] # Null
  /\ row[Other(s)] # Null => KeyLess(row[s][Key], row[Other(s)][Key])

CompareBoth ==
  /\ row["source"] # Null /\ row["target"] # Null
  /\ KeySame(row["source"][Key], row["target"][Key])
  /\ Report("MISMATCH", Differing, "source")
  /\ want' = <<"source", "target">>

CompareExtraBoth == (* mutant: both cursors move on *)
  Ahead("target") /\ Report("EXTRA", {Key}, "target") /\ want' = <<"source", "target">>

CompareMissing == Ahead("source") /\ Report("MISSING", {Key}, "source") /\ want' = <<"source">>
CompareExtra   == Ahead("target") /\ Report("EXTRA", {Key}, "target") /\ want' = <<"target">>

(* One round of the merge, the loops that drain a side among them. *)
Compare ==
  /\ pc = "verify" /\ want = <<>>
  /\ CompareBoth \/ CompareMissing \/ CompareExtra
  /\ UNCHANGED <<cmd, flags, opt, pc, lifecycle, content, moved, table, cursor, row, result>>

BothOverEither == \E s \in Sides : row[s] = Null (* mutant: without the loops that drain a side *)
BothOver       == \A s \in Sides : row[s] = Null

TableVerified ==
  /\ pc = "verify" /\ want = <<>> /\ BothOver
  /\ IF table < Len(content)
     THEN /\ table' = table + 1
          /\ cursor' = [s \in Sides |-> Unread]
          /\ want' = <<"source", "target">>
          /\ UNCHANGED <<pc, result>>
     ELSE /\ End(IF mismatches > 0 THEN "failed" ELSE "ok")
          /\ UNCHANGED <<table, cursor, want>>
  /\ UNCHANGED <<cmd, flags, opt, lifecycle, content, moved, row, reports, mismatches>>

-----------------------------------------------------------------------------
(* Replication, which --wait allows for: the rows of a key on the target   *)
(* become those of the source.                                             *)
WithKey(t, s, k) == {r \in content[t][s] : r[Key] = k}

Replicate(t, k) ==
  /\ cmd = "verify" /\ opt.replicates
  /\ LET rows == {Copy(r) : r \in WithKey(t, "source", k)}
     IN  /\ WithKey(t, "target", k) # rows
         /\ content' = [content EXCEPT ![t]["target"] = (@ \ WithKey(t, "target", k)) \cup rows]
  /\ moved' = TRUE
  /\ UNCHANGED <<cmd, flags, opt, pc, lifecycle, merge, result>>

Step ==
  \/ StartLifecycle \/ Load \/ Section \/ SideFails \/ SideOver
  \/ StartVerify \/ (\E s \in Sides : Advance(s)) \/ QueryFails \/ Compare \/ TableVerified

Next == Step \/ \E t \in DOMAIN content, k \in Keys : Replicate(t, k)

(* The command runs on. *)
Spec == Init /\ [][Next]_vars /\ WF_vars(Step)

-----------------------------------------------------------------------------
(* What --order-by asks of the tables: each row has a key of its own.      *)
WellKeyed ==
  \A t \in DOMAIN content, s \in Sides :
    \A r, q \in content[t][s] : r[Key] # Null /\ (r[Key] = q[Key] => r = q)

(* Row k of a table on a side, for the columns that are compared.          *)
View(t, s, k) == {[c \in CompareCols |-> r[c]] : r \in WithKey(t, s, k)}

(* Rows of different keys are told apart: --ignore-columns leaves the key  *)
(* among the columns compared, or no two keys compare equal.               *)
KeysTold == Key \notin opt.ignored \/ \A j, k \in Keys : KeySame(j, k) => j = k

(* When verify reports nothing, each table has the same rows on both       *)
(* sides, in whatever order the databases sort, whatever keys the merge    *)
(* takes for equal, and although replication changed the target while it   *)
(* was read (cli-reference/sync.md:222).                                   *)
VerifiedAgree ==
  cmd = "verify" /\ result = "ok" /\ WellKeyed /\ KeysTold /\ opt.batch > 0 =>
    \A t \in DOMAIN content, k \in Keys : View(t, "source", k) = View(t, "target", k)

KeysOf(t) == {r[Key] : r \in content[t]["source"] \cup content[t]["target"]}

(* Both databases sort the keys there are as compareKeys does.  As theirs  *)
(* are total orders, no two of these keys compare equal.                   *)
SortedAsCompared ==
  \A t \in DOMAIN content, s \in Sides : \A j, k \in KeysOf(t) :
    Less(opt.order[s], j, k) <=> KeyLess(j, k)

(* The differences between two tables that keep still.                     *)
Difference(t, k) ==
  LET src == WithKey(t, "source", k)
      tgt == WithKey(t, "target", k)
      Rep(kind, c) == [table |-> t, key |-> k, kind |-> kind, column |-> c]
  IN  IF tgt = {} THEN {Rep("MISSING", Key) : r \in src}
      ELSE IF src = {} THEN {Rep("EXTRA", Key)}
      ELSE {Rep("MISMATCH", c) : c \in {d \in CompareCols : \E r \in src, q \in tgt : r[d] # q[d]}}

(* sync.md:220-223: of tables whose keys the databases sort as the merge   *)
(* compares them, verify reports exactly the rows one side lacks and the   *)
(* columns that differ, each once, however the pages fall.                 *)
ReportsExact ==
  /\ cmd = "verify" /\ pc = "ended" /\ (result = "failed" => mismatches > 0)
  /\ table = Len(content) /\ (\A s \in Sides : cursor[s].done)
  /\ WellKeyed /\ opt.batch > 0 /\ ~moved /\ SortedAsCompared
  => /\ reports = UNION {Difference(t, k) : t \in DOMAIN content, k \in Keys}
     /\ mismatches = Cardinality(reports)

(* The target is written only after all sections of the source, and, with  *)
(* --rng-seed, from the same random numbers (sync.md:10).                  *)
SidesInStep ==
  /\ done["target"] # <<>> => Len(done["source"]) = Len(Sections[cmd])
  /\ flags.seed /\ cmd = "run" =>
       \A i \in DOMAIN done["target"] : done["target"][i] = done["source"][i]

(* verify comes to an end: each page starts after the last one.            *)
Terminates == WellKeyed => <>(pc = "ended")
=============================================================================
