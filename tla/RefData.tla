------------------------------ MODULE RefData ------------------------------
(***************************************************************************)
(* The data an expression environment (pkg/env) draws from: datasets,      *)
(* which are reference data of the configuration or rows of a query, the   *)
(* caches and the index of ref_same, ref_perm and ref_diff, the values     *)
(* uniq has seen, and the locals of transactions.  Every worker builds an  *)
(* environment of its own, but from one request, which building writes to. *)
(*                                                                         *)
(* Go slices are modelled as references to arrays, so that sharing shows.  *)
(***************************************************************************)
EXTENDS Naturals, Sequences, FiniteSets, Functions

CONSTANTS
  Workers, Source,     (* environments: of the workers, and the one of init *)
  Refs, InitQueries,   (* names of reference datasets and of init queries   *)
  InitType,            (* the type of each init query                       *)
  RefRows,             (* the rows of each reference dataset                *)
  DbRows,              (* what a query may return: sequences of rows        *)
  Values,              (* what the expression given to uniq may yield       *)
  Locals,              (* the locals of the request's transaction           *)
  None,
  MaxCalls, MaxQueries (* bounds: calls and queries in a run                *)

Envs     == Workers \cup {Source}
Datasets == Refs \cup InitQueries
Arrays   == ({"request"} \cup Envs) \X Datasets

ASSUME RefDataAssumption ==
  /\ Source \notin Workers /\ Refs \cap InitQueries = {}
  /\ InitType \in [InitQueries -> {"query", "", "query_batch"}]

ASSUME BoundsAssumption == MaxCalls \in Nat /\ MaxQueries \in Nat

(* The rows of a dataset are told apart, for a repeated draw to show.      *)
Row == UNION ({Range(RefRows[d]) : d \in Refs} \cup {Range(s) : s \in DbRows})

ASSUME RowsAssumption ==
  /\ \A d \in Refs : RefRows[d] \in Seq(Row) /\ IsInjective(RefRows[d])
  /\ \A s \in DbRows : s \in Seq(Row) /\ IsInjective(s)
  /\ "uniq" \notin Datasets

VARIABLES
  array,     (* the rows of each array                                      *)
  data,      (* e.env: the array of each dataset, or None                   *)
  uniqIndex, oneCache, permCache, uniqSeen,  (* of each environment         *)
  compiled,  (* tx.CompiledLocals of the request: those compiled so far     *)
  todo,      (* the locals an environment has yet to compile                *)
  txLocals,  (* the locals evaluated for a transaction, or None             *)
  phase,     (* what an environment does                                    *)
  calls, queries,   (* counters for the bounds                              *)
  drawn             (* history: what ref_diff and uniq gave in this query   *)

caches   == <<uniqIndex, oneCache, permCache, uniqSeen>>
building == <<compiled, todo, txLocals>>
vars     == <<array, data, caches, building, phase, calls, queries, drawn>>

Init ==
  /\ array = [a \in Arrays |-> IF a[1] = "request" /\ a[2] \in Refs THEN RefRows[a[2]] ELSE <<>>]
  /\ data = [e \in Envs |-> [d \in Datasets |-> None]]
  /\ uniqIndex = [e \in Envs |-> 0] /\ uniqSeen = [e \in Envs |-> {}]
  /\ oneCache = [e \in Envs |-> [d \in Datasets |-> None]] /\ permCache = oneCache
  /\ compiled = {} /\ todo = [e \in Envs |-> {}]
  /\ txLocals = [e \in Envs |-> None]
  /\ phase = [e \in Envs |-> "new"]
  /\ calls = 0 /\ queries = 0
  /\ drawn = [e \in Envs |-> <<>>]

Goto(e, p) == phase' = [phase EXCEPT ![e] = p]

(* getDataset: a dataset that is missing or empty is no dataset. *)
Has(e, d)  == data[e][d] # None /\ array[data[e][d]] # <<>>
Rows(e, d) == array[data[e][d]]

(* SetEnv: the name now refers to a new array. *)
SetEnv(e, new) ==
  /\ data' = [data EXCEPT ![e] = [d \in Datasets |-> IF d \in DOMAIN new THEN <<e, d>> ELSE @[d]]]
  /\ array' = [a \in Arrays |-> IF a[1] = e /\ a[2] \in DOMAIN new THEN new[a[2]] ELSE array[a]]

-----------------------------------------------------------------------------
(* Building an environment *)

(* The init environment comes first and the workers' are built side by     *)
(* side, each in the goroutine of its worker.                              *)
MayBuild(e) == phase[e] = "new" /\ (e = Source \/ phase[Source] = "idle")

LoadReferencesShared(e) == (* mutant: SetEnv(name, rows) without slices.Clone *)
  /\ MayBuild(e)
  /\ data' = [data EXCEPT ![e] = [d \in Datasets |-> IF d \in Refs THEN <<"request", d>> ELSE @[d]]]
  /\ Goto(e, "loaded")
  /\ UNCHANGED <<array, caches, building, calls, queries, drawn>>

(* slices.Clone: a new array; the rows in it are shared, and never written. *)
LoadReferences(e) ==
  /\ MayBuild(e)
  /\ SetEnv(e, [d \in Refs |-> RefRows[d]])
  /\ Goto(e, "loaded")
  /\ UNCHANGED <<caches, building, calls, queries, drawn>>

(* compileQueries ends in CompileLocals, which gives the transaction of    *)
(* the shared request a new map and fills it.  (Go may also stop the       *)
(* process when it notices two goroutines at the map; that adds nothing.)  *)
CompileLocals(e) ==
  /\ phase[e] = "loaded"
  /\ compiled' = {} /\ todo' = [todo EXCEPT ![e] = Locals]
  /\ Goto(e, "compiling")
  /\ UNCHANGED <<array, data, caches, txLocals, calls, queries, drawn>>

CompileLocal(e) ==
  /\ phase[e] = "compiling"
  /\ \E x \in todo[e] :
       /\ compiled' = compiled \cup {x}
       /\ todo' = [todo EXCEPT ![e] = @ \ {x}]
  /\ Goto(e, IF Cardinality(todo[e]) = 1 THEN "built" ELSE "compiling")
  /\ UNCHANGED <<array, data, caches, txLocals, calls, queries, drawn>>

(* The init queries run once: each replaces the dataset of its name. *)
RunInit ==
  /\ phase[Source] = "built"
  /\ \E new \in [InitQueries -> DbRows] : SetEnv(Source, new)
  /\ Goto(Source, "idle")
  /\ UNCHANGED <<caches, building, calls, queries, drawn>>

(* Only the results of init queries whose type is spelt out as "query". *)
InitFrom(w) ==
  /\ phase[w] = "built" /\ w # Source
  /\ SetEnv(w, [d \in {q \in InitQueries : InitType[q] = "query" /\ data[Source][q] # None} |->
                  Rows(Source, d)])
  /\ Goto(w, "idle")
  /\ UNCHANGED <<caches, building, calls, queries, drawn>>

-----------------------------------------------------------------------------
(* Evaluating expressions: the args of a query, or, between queries, the   *)
(* locals of a transaction and a rollback_if.                              *)

Calls(e) ==
  /\ phase[e] \in {"idle", "args"} /\ e # Source /\ calls < MaxCalls
  /\ calls' = calls + 1
  /\ UNCHANGED <<building, queries>>

Note(e, x) == drawn' = IF phase[e] = "args" THEN [drawn EXCEPT ![e] = Append(@, x)] ELSE drawn

KeepCaches(e) == (* mutant: no deferred clearOneCache *)
  /\ uniqIndex' = [uniqIndex EXCEPT ![e] = 0]
  /\ uniqSeen' = [uniqSeen EXCEPT ![e] = {}]
  /\ UNCHANGED <<oneCache, permCache>>

(* A call that fails ends the evaluation; GenerateArgs resets all the same. *)
ResetCaches(e) ==
  /\ oneCache' = [oneCache EXCEPT ![e] = [d \in Datasets |-> None]]
  /\ uniqIndex' = [uniqIndex EXCEPT ![e] = 0]
  /\ uniqSeen' = [uniqSeen EXCEPT ![e] = {}]
  /\ UNCHANGED permCache

CallFails(e) ==
  /\ IF phase[e] = "args" THEN ResetCaches(e) ELSE UNCHANGED caches
  /\ Goto(e, "idle") /\ UNCHANGED <<array, data, drawn>>

RefSame(e, d) ==
  /\ Calls(e)
  /\ oneCache[e][d] = None /\ Has(e, d)
  /\ \E r \in Range(Rows(e, d)) : oneCache' = [oneCache EXCEPT ![e][d] = r]
  /\ UNCHANGED <<array, data, uniqIndex, permCache, uniqSeen, phase, drawn>>

RefPerm(e, d) ==
  /\ Calls(e)
  /\ permCache[e][d] = None /\ Has(e, d)
  /\ \E r \in Range(Rows(e, d)) : permCache' = [permCache EXCEPT ![e][d] = r]
  /\ UNCHANGED <<array, data, uniqIndex, oneCache, uniqSeen, phase, drawn>>

RefDiffSwapsBack(e, d) == (* mutant: reads the row it swapped away *)
  /\ Calls(e) /\ Has(e, d)
  /\ LET s == Rows(e, d)
         k == uniqIndex[e] + 1
     IN  IF k > Len(s) THEN CallFails(e) ELSE
           /\ \E i \in k .. Len(s) :
                /\ array' = [array EXCEPT ![data[e][d]] = [@ EXCEPT ![i] = s[k], ![k] = s[i]]]
                /\ Note(e, <<d, s[k]>>)
           /\ uniqIndex' = [uniqIndex EXCEPT ![e] = k]
           /\ UNCHANGED <<data, oneCache, permCache, uniqSeen, phase>>

(* A row at or after the index, swapped to it in the dataset itself.  One  *)
(* index serves all datasets, so a dataset with rows left may be beyond    *)
(* it: rand.IntN panics, and the call fails.                               *)
RefDiff(e, d) ==
  /\ Calls(e) /\ Has(e, d)
  /\ LET s == Rows(e, d)
         k == uniqIndex[e] + 1
     IN  IF k > Len(s) THEN CallFails(e) ELSE
           /\ \E i \in k .. Len(s) :
                /\ array' = [array EXCEPT ![data[e][d]] = [@ EXCEPT ![i] = s[k], ![k] = s[i]]]
                /\ Note(e, <<d, s[i]>>)
           /\ uniqIndex' = [uniqIndex EXCEPT ![e] = k]
           /\ UNCHANGED <<data, oneCache, permCache, uniqSeen, phase>>

(* uniqExpr evaluates until it meets a value it has not seen, or fails     *)
(* after so many attempts.                                                 *)
Uniq(e) ==
  /\ Calls(e)
  /\ \/ \E v \in Values \ uniqSeen[e] :
          /\ uniqSeen' = [uniqSeen EXCEPT ![e] = @ \cup {v}]
          /\ Note(e, <<"uniq", v>>)
          /\ UNCHANGED <<array, data, uniqIndex, oneCache, permCache, phase>>
     \/ uniqSeen[e] # {} /\ CallFails(e)

-----------------------------------------------------------------------------
(* A query of a worker *)

BeginArgs(e) ==
  /\ phase[e] = "idle" /\ e # Source /\ queries < MaxQueries
  /\ Goto(e, "args")
  /\ queries' = queries + 1
  /\ drawn' = [drawn EXCEPT ![e] = <<>>]
  /\ UNCHANGED <<array, data, caches, building, calls>>

(* The next row of a batch drops the rows of ref_same, and nothing else. *)
NextRow(e) ==
  /\ phase[e] = "args"
  /\ oneCache' = [oneCache EXCEPT ![e] = [d \in Datasets |-> None]]
  /\ UNCHANGED <<array, data, uniqIndex, permCache, uniqSeen, building, phase, calls, queries, drawn>>

(* The deferred calls of GenerateArgs. *)
EndArgs(e) ==
  /\ phase[e] = "args"
  /\ ResetCaches(e)
  /\ Goto(e, "sent")
  /\ UNCHANGED <<array, data, building, calls, queries, drawn>>

(* The statement fails or returns nothing, or its rows, or the args of a   *)
(* seed query, become the dataset of its name.                             *)
Result(e) ==
  /\ phase[e] = "sent"
  /\ \/ UNCHANGED <<array, data>>
     \/ \E d \in Datasets, s \in DbRows : SetEnv(e, [x \in {d} |-> s])
  /\ Goto(e, "idle")
  /\ UNCHANGED <<caches, building, calls, queries, drawn>>

(* evalLocals takes the programs of the request as they are now. *)
EvalLocals(e) ==
  /\ phase[e] = "idle" /\ e # Source /\ txLocals[e] = None /\ calls < MaxCalls
  /\ txLocals' = [txLocals EXCEPT ![e] = compiled]
  /\ calls' = calls + 1
  /\ UNCHANGED <<array, data, caches, compiled, todo, phase, queries, drawn>>

ClearLocals(e) ==
  /\ phase[e] = "idle" /\ txLocals[e] # None
  /\ txLocals' = [txLocals EXCEPT ![e] = None]
  /\ UNCHANGED <<array, data, caches, compiled, todo, phase, calls, queries, drawn>>

Build(e) == LoadReferences(e) \/ CompileLocals(e) \/ CompileLocal(e) \/ InitFrom(e)
Call(e)  == Uniq(e) \/ \E d \in Datasets : RefSame(e, d) \/ RefPerm(e, d) \/ RefDiff(e, d)
Work(e)  == BeginArgs(e) \/ NextRow(e) \/ EndArgs(e) \/ Result(e) \/ EvalLocals(e) \/ ClearLocals(e)

Next == RunInit \/ \E e \in Envs : Build(e) \/ Call(e) \/ Work(e)

Spec == Init /\ [][Next]_vars

-----------------------------------------------------------------------------
(* Types, and that the arrays of an environment are its own.               *)
TypeOK ==
  /\ data \in [Envs -> [Datasets -> Arrays \cup {None}]]
  /\ \A e \in Envs, d \in Datasets : data[e][d] \in {<<e, d>>, None}
  /\ uniqIndex \in [Envs -> 0 .. MaxCalls]
  /\ uniqSeen \in [Envs -> SUBSET Values]
  /\ compiled \subseteq Locals /\ todo \in [Envs -> SUBSET Locals]
  /\ phase \in [Envs -> {"new", "loaded", "compiling", "built", "idle", "args", "sent"}]

(* docs/content/docs/expressions/_index.md:110: within a query, over all   *)
(* the rows of a batch, ref_diff gives no row of a dataset twice and uniq  *)
(* no value, whichever calls are mixed and whatever other workers do.      *)
NoRepeats ==
  \A e \in Envs : \A i, j \in DOMAIN drawn[e] : drawn[e][i] = drawn[e][j] => i = j

(* A row that ref_same remembers is a row of the dataset as it is now:     *)
(* results replace datasets only after the cache was dropped.              *)
SameCurrent ==
  \A e \in Envs, d \in Datasets :
    oneCache[e][d] # None => Has(e, d) /\ oneCache[e][d] \in Range(Rows(e, d))

(* The swaps of ref_diff and the results of one worker never reach the     *)
(* rows another environment sees (env_lifecycle.go:36): a dataset changes  *)
(* only in a step of its environment.                                      *)
View(e) == [d \in Datasets |-> IF data[e][d] = None THEN None ELSE Rows(e, d)]
Acts(e) == phase'[e] # phase[e] \/ uniqIndex'[e] # uniqIndex[e]
Isolated == [][\A e \in Envs : View(e)' # View(e) => Acts(e)]_vars

(* env_args.go:329: evalLocals evaluates all compiled locals. *)
AllLocals == \A e \in Envs : txLocals[e] # None => txLocals[e] = Locals
=============================================================================
