------------------------------- MODULE Stage --------------------------------
(***************************************************************************)
(* edg stage: the lifecycle sections are captured instead of executed      *)
(* (pkg/env/env_output.go) and go to files or to stdout (pkg/output).      *)
(* Writers collect rows in memory; files appear only in Flush.             *)
(***************************************************************************)
EXTENDS Naturals, Sequences, FiniteSets

CONSTANTS
  Formats,     (* what --format may say                                     *)
  Programs,    (* what a configuration may hold: per section its queries    *)
  Values,      (* what an arg may be                                        *)
  MaxRows      (* bound: rows of a query                                    *)

Known == {"sql", "json", "csv", "parquet", "stdout"}
Order == <<"up", "seed", "deseed", "down">>

ASSUME StageAssumption == MaxRows \in Nat

(* Sections are lists of queries.  NewEnv has validated that two queries   *)
(* of a section have one name only if they have none.  placeholders are    *)
(* the args that the statement names as $1, $2, ...: none of them in a     *)
(* batch that has __values__ instead.                                      *)
ASSUME ProgramsAssumption ==
  \A p \in Programs : \A n \in DOMAIN Order :
    LET qs == p[Order[n]]
    IN  /\ qs \in Seq({qs[i] : i \in DOMAIN qs})
        /\ \A i \in DOMAIN qs : qs[i].columns \in Seq({qs[i].columns[j] : j \in DOMAIN qs[i].columns})
        /\ \A i, j \in DOMAIN qs : qs[i].name = qs[j].name /\ qs[i].name # "" => i = j

VARIABLES
  format, program,
  pc, section, query,   (* where the command is                             *)
  argSets,     (* the arg sets of the query still to be added               *)
  envRows,     (* the rows of the query so far                              *)
  env,         (* datasets, by the name of their query                      *)
  buffer,      (* what the writer holds, by file                            *)
  disk,        (* the files, whole or broken off                            *)
  stdout,
  captured,    (* history: every row the sections came to, in order         *)
  outcome

position  == <<pc, section, query>>
capture   == <<argSets, envRows, env, captured>>
stageVars == <<format, program, position, capture, buffer, disk, stdout, outcome>>

InitStage ==
  /\ format \in Formats /\ program \in Programs
  /\ pc = "start" /\ section = 1 /\ query = 1
  /\ argSets = <<>> /\ envRows = <<>> /\ env = <<>>
  /\ buffer = <<>> /\ disk = <<>> /\ stdout = <<>>
  /\ captured = <<>> /\ outcome = "running"

End(o) == pc' = "ended" /\ outcome' = o

Put(f, x, y) == [z \in DOMAIN f \cup {x} |-> IF z = x THEN y ELSE f[z]]

(* ParseFormat, LoadConfig, MkdirAll, output.New, NewEnv. *)
Start ==
  /\ pc = "start"
  /\ \/ format \in Known /\ pc' = "section" /\ UNCHANGED outcome
     \/ End("failed")
  /\ UNCHANGED <<format, program, section, query, capture, buffer, disk, stdout>>

-----------------------------------------------------------------------------
(* Capturing *)

SectionQueries == program[Order[section]]
Query   == SectionQueries[query]

(* ExtractColumns: the names of named args, those of the INSERT, or col_n. *)
Columns(q) == q.columns

RowsOf(q) == [DOMAIN q.columns -> Values]

(* GenerateArgs, or the count of a batch: a query without args has one arg *)
(* set without values.                                                     *)
StartQuery ==
  /\ pc = "section" /\ query <= Len(SectionQueries)
  /\ \E n \in 0 .. MaxRows : \E rows \in [1 .. n -> RowsOf(Query)] :
       /\ Query.columns = <<>> /\ ~Query.batch => n = 1
       /\ argSets' = rows
  /\ envRows' = <<>>
  /\ pc' = "capture"
  /\ UNCHANGED <<format, program, section, query, env, captured, buffer, disk, stdout, outcome>>

(* An expression fails; in a batch after rows that were already added. *)
ArgsFail ==
  /\ pc \in {"section", "capture"} /\ query <= Len(SectionQueries)
  /\ pc = "capture" => Query.batch /\ argSets # <<>>
  /\ End("failed")
  /\ UNCHANGED <<format, program, section, query, capture, buffer, disk, stdout>>

FileByName(q) == (* mutant: without the section *)
  IF format \in {"csv", "parquet"} THEN <<q.name>> ELSE <<Order[section]>>

(* A file for each query, or one for the section. *)
File(q) == IF format \in {"csv", "parquet"} THEN <<Order[section], q.name>> ELSE <<Order[section]>>

(* resolveArgs, and inlineArgs before it: only $N is replaced.  __values__ *)
(* is expanded where batches are executed, and is written as it stands.    *)
Shown(q, args) ==
  IF format \in {"sql", "stdout"} THEN [i \in DOMAIN args \cap q.placeholders |-> args[i]] ELSE args

Entry(q, args) == [name |-> q.name, columns |-> Columns(q), args |-> Shown(q, args)]

(* Writer.Add: only sql and stdout have statements without args. *)
Add(q, args) ==
  IF format = "stdout" THEN stdout' = Append(stdout, Entry(q, args)) /\ UNCHANGED buffer
  ELSE /\ UNCHANGED stdout
       /\ IF args = <<>> /\ format # "sql" THEN UNCHANGED buffer
          ELSE buffer' = Put(buffer, File(q),
                 Append(IF File(q) \in DOMAIN buffer THEN buffer[File(q)] ELSE <<>>, Entry(q, args)))

CaptureRow ==
  /\ pc = "capture" /\ argSets # <<>>
  /\ Add(Query, Head(argSets))
  /\ argSets' = Tail(argSets)
  /\ envRows' = IF Query.batch \/ Head(argSets) # <<>> THEN Append(envRows, Head(argSets)) ELSE envRows
  /\ captured' = Append(captured, [section |-> Order[section], query |-> query, args |-> Head(argSets)])
  /\ UNCHANGED <<format, program, position, env, disk, outcome>>

StdoutFails ==
  /\ pc = "capture" /\ argSets # <<>> /\ format = "stdout"
  /\ End("failed")
  /\ UNCHANGED <<format, program, section, query, capture, buffer, disk, stdout>>

EndQueryEmpty == (* mutant: SetEnv without looking at the number of rows *)
  /\ pc = "capture" /\ argSets = <<>>
  /\ env' = Put(env, Query.name, envRows)
  /\ pc' = "section" /\ query' = query + 1
  /\ UNCHANGED <<format, program, section, argSets, envRows, captured, buffer, disk, stdout, outcome>>

(* The rows become the dataset of the query's name, as if it had run. *)
EndQuery ==
  /\ pc = "capture" /\ argSets = <<>>
  /\ env' = IF envRows = <<>> THEN env ELSE Put(env, Query.name, envRows)
  /\ pc' = "section" /\ query' = query + 1
  /\ UNCHANGED <<format, program, section, argSets, envRows, captured, buffer, disk, stdout, outcome>>

EndSection ==
  /\ pc = "section" /\ query > Len(SectionQueries)
  /\ IF section < Len(Order) THEN section' = section + 1 /\ query' = 1 /\ UNCHANGED pc
     ELSE pc' = "flush" /\ UNCHANGED <<section, query>>
  /\ UNCHANGED <<format, program, capture, buffer, disk, stdout, outcome>>

-----------------------------------------------------------------------------
(* Flush: the files in the order of a Go map, up to the first error.       *)

(* writeFile indexes each row by the columns of the file's first row.      *)
Ragged(rows) == \E i \in DOMAIN rows : Len(rows[i].args) < Len(rows[1].columns)

Flush(f) ==
  /\ pc = "flush" /\ f \in DOMAIN buffer \ DOMAIN disk
  /\ \/ /\ ~(format = "parquet" /\ Ragged(buffer[f]))
        /\ disk' = Put(disk, f, "whole") /\ UNCHANGED <<pc, outcome>>
     \/ /\ format = "parquet" /\ Ragged(buffer[f])
        /\ disk' = Put(disk, f, "part") /\ End("panic")
     \/ disk' \in {disk, Put(disk, f, "part")} /\ End("failed")
  /\ UNCHANGED <<format, program, section, query, capture, buffer, stdout>>

Flushed ==
  /\ pc = "flush" /\ DOMAIN disk = DOMAIN buffer
  /\ End("ok")
  /\ UNCHANGED <<format, program, section, query, capture, buffer, disk, stdout>>

NextStage ==
  \/ Start \/ StartQuery \/ ArgsFail \/ CaptureRow \/ StdoutFails \/ EndQuery \/ EndSection
  \/ (\E f \in DOMAIN buffer : Flush(f)) \/ Flushed

SpecStage == InitStage /\ [][NextStage]_stageVars

-----------------------------------------------------------------------------
Named == \A n \in DOMAIN Order : \A i \in DOMAIN program[Order[n]] : program[Order[n]][i].name # ""

(* The args of the entries at some places, in order.                      *)
ArgsAt(entries, places) ==
  LET args[n \in 0 .. Len(entries)] ==
        IF n = 0 THEN <<>>
        ELSE IF n \in places THEN Append(args[n - 1], entries[n].args) ELSE args[n - 1]
  IN  args[Len(entries)]

(* The rows captured for a query of a section, and those a file holds      *)
(* under a query's name.                                                   *)
PlacesFor(s, i)    == {n \in DOMAIN captured : captured[n].section = s /\ captured[n].query = i}
RowsFor(s, i)      == ArgsAt(captured, PlacesFor(s, i))
PlacesIn(f, name)  == {n \in DOMAIN buffer[f] : buffer[f][n].name = name}
Staged(f, name)    == ArgsAt(buffer[f], PlacesIn(f, name))

(* The file has whole rows of the query, not only what its statement names.*)
Shows(q) == format = "sql" => DOMAIN q.columns \subseteq q.placeholders

(* stage succeeds only with every row it generated in a file that is whole,*)
(* in order, and under the columns of its own query; and before all        *)
(* sections were captured there is no file at all.  In the sql format this *)
(* is so only of statements that name each arg as $N: of a __values__      *)
(* batch, as _examples/output/config.yaml has it, the file gets the        *)
(* statement without the rows, where stage.md:39 and 59 show both.         *)
FilesComplete ==
  /\ pc \in {"start", "section", "capture"} => disk = <<>>
  /\ outcome = "ok" /\ Named /\ format # "stdout" =>
       /\ \A f \in DOMAIN disk : disk[f] = "whole"
       /\ \A n \in DOMAIN Order : \A i \in DOMAIN program[Order[n]] :
            LET q    == program[Order[n]][i]
                f    == IF format \in {"csv", "parquet"} THEN <<Order[n], q.name>> ELSE <<Order[n]>>
                rows == RowsFor(Order[n], i)
            IN  rows # <<>> /\ (q.columns # <<>> \/ format = "sql") =>
                  /\ f \in DOMAIN disk
                  /\ Shows(q) => Staged(f, q.name) = rows
                  /\ format \in {"csv", "parquet"} => buffer[f][1].columns = q.columns

(* A later query that refers to an earlier one by its name finds rows that *)
(* were staged for that name, all of one query and in order.               *)
DatasetsStaged ==
  \A name \in DOMAIN env :
    env[name] # <<>> /\ \E n \in DOMAIN Order : \E i \in DOMAIN program[Order[n]] :
      program[Order[n]][i].name = name /\ RowsFor(Order[n], i) = env[name]
=============================================================================
