------------------------------- MODULE Config -------------------------------
(***************************************************************************)
(* How a command gets its configuration and its environments: the file is  *)
(* decoded (pkg/config), the database connected, and every environment of  *)
(* the command validates the request and builds itself from it (NewEnv).   *)
(* The request is one object for all of them, and building writes to it:   *)
(* evaluated globals, the args of queries that name a row.                 *)
(***************************************************************************)
EXTENDS Include

CONSTANTS
  Setups,      (* files to load, what they say, a driver and a licence      *)
  Builtins,    (* names every environment defines                           *)
  EnvVars,     (* the variables of the process                              *)
  Patterns,    (* gofakeit patterns that exist                              *)
  Enterprise,  (* drivers that need a licence                               *)
  Workers, None

AllSections == {"up", "seed", "deseed", "down", "init", "run", "worker"}
Commands    == (AllSections \ {"init", "worker"}) \cup {"all", "validate"}

(* The environments of a command: one first, the init environment of a run,*)
(* then its workers and background workers, side by side.                  *)
Builders == {"main", "init", "background"} \cup Workers

Stages(cmd) ==
  LET running == Workers \cup {"background"}
  IN  CASE cmd = "run" -> <<{"init"}, running>>
        [] cmd = "all" -> <<{"main"}, {"init"}, running>>
        [] OTHER       -> <<{"main"}>>

Active(cmd, b) ==
  CASE b = "init"       -> {"init", "run", "worker"}
    [] b = "background" -> {"worker"}
    [] b \in Workers    -> {"run"}
    [] OTHER            -> {cmd} \cap AllSections   \* {} stands for all

(* A document is a record, as its queries are; YAML has no mapping with a  *)
(* key twice.  Weights are not negative, which nothing checks.             *)
Fields == AllSections \cup {"globals", "order", "expressions", "rows", "references", "seq",
                            "weights", "expectations"}

ASSUME DocumentsAssumption ==
  \A s \in Setups :
    LET d == s.document
    IN  /\ Fields \subseteq DOMAIN d
        /\ d.run \in Seq({d.run[i] : i \in DOMAIN d.run})
        /\ \A n \in DOMAIN d.weights : d.weights[n] \in Nat
        /\ \A i \in DOMAIN d.run : /\ "queries" \in DOMAIN d.run[i]
                                  /\ \A q \in {d.run[i].queries[j] : j \in DOMAIN d.run[i].queries} : "row" \in DOMAIN q
        /\ \A f \in AllSections \ {"run"} : \A i \in DOMAIN d[f] : "row" \in DOMAIN d[f][i]
        /\ d.order \in Seq(DOMAIN d.globals) /\ ToSet(d.order) = DOMAIN d.globals /\ IsInjective(d.order)
        /\ \A n \in DOMAIN d.globals : d.globals[n].kind = "ref" => d.globals[n].of \in DOMAIN d.globals

ASSUME WorkersAssumption == Workers \cap {"main", "init", "background"} = {}

VARIABLES
  cmd, driver, license,
  document,    (* what the files say with their includes resolved          *)
  request,     (* the decoded request, which environments share             *)
  loaded,      (* history: the request as it was decoded                    *)
  stage,       (* the environments being built: Stages(cmd)[stage]          *)
  step,        (* what a builder does next                                  *)
  global,      (* the global it is at                                       *)
  env,         (* what an environment knows                                 *)
  outcome

command == <<cmd, driver, license, document>>
vars    == <<command, includes, request, loaded, stage, step, global, env, outcome>>

Empty == [globals |-> <<>>, names |-> {}, args |-> <<>>]

Init ==
  /\ cmd \in Commands
  /\ \E s \in Setups : files = s.files /\ document = s.document /\ driver = s.driver /\ license = s.license
  /\ InitIncludes
  /\ request = None /\ loaded = None
  /\ stage = 1 /\ step = [b \in Builders |-> "idle"]
  /\ global = [b \in Builders |-> 1] /\ env = [b \in Builders |-> Empty]
  /\ outcome = "loading"

Fails == outcome' = "failed"

-----------------------------------------------------------------------------
(* Decoding *)

(* QueryArgs: a list, or a map whose names stand for positions.            *)
DecodeArgs(node) ==
  [exprs |-> [i \in DOMAIN node.entries |-> node.entries[i][2]],
   names |-> IF node.kind = "map"
             THEN [n \in {node.entries[i][1] : i \in DOMAIN node.entries} |->
                     CHOOSE i \in DOMAIN node.entries :
                       /\ node.entries[i][1] = n
                       /\ \A j \in DOMAIN node.entries : node.entries[j][1] = n => j <= i]
             ELSE None]

DecodeQuery(q)   == [q EXCEPT !.args = DecodeArgs(@)]
DecodeQueries(s) == [i \in DOMAIN s |-> DecodeQuery(s[i])]

(* RunItem: a transaction if the node has that key, a query otherwise.     *)
DecodeItem(item) == [item EXCEPT !.queries = DecodeQueries(@)]
IsTransaction(item) == item.transaction # ""
Name(item) == IF IsTransaction(item) THEN item.transaction ELSE item.queries[1].name

Decode(doc) ==
  [f \in DOMAIN doc |-> IF f = "run" THEN [i \in DOMAIN doc.run |-> DecodeItem(doc.run[i])]
                        ELSE IF f \in AllSections THEN DecodeQueries(doc[f]) ELSE doc[f]]

(* The groups of queries, those of transactions among the run's. *)
Groups(r) ==
  [s \in AllSections |->
     IF s # "run" THEN r[s]
     ELSE [p \in UNION {{i} \X DOMAIN r.run[i].queries : i \in DOMAIN r.run} |-> r.run[p[1]].queries[p[2]]]]

Values(f) == {f[x] : x \in DOMAIN f}

BadArgs(doc) == \E s \in AllSections : \E q \in Values(Groups(doc)[s]) : q.args.kind = "other"
RatePanics(doc) == \E i \in DOMAIN doc.worker : doc.worker[i].rate.times = 0

WalkIncludes ==
  /\ outcome = "loading" /\ ResolveIncludes
  /\ IF walk' = "failed" THEN Fails ELSE UNCHANGED outcome
  /\ UNCHANGED <<command, request, loaded, stage, step, global, env>>

(* Decoding; a rate of 0 times is a division by zero before                *)
(* validateWorkers can refuse it.                                          *)
LoadConfig ==
  /\ outcome = "loading" /\ walk = "done"
  /\ IF RatePanics(document) THEN outcome' = "panic" /\ UNCHANGED <<request, loaded>>
     ELSE IF ~document.parses \/ BadArgs(document) THEN Fails /\ UNCHANGED <<request, loaded>>
     ELSE /\ request' = Decode(document) /\ loaded' = request'
          /\ outcome' = IF cmd = "validate" THEN "building" ELSE "connecting"
  /\ UNCHANGED <<command, includes, stage, step, global, env>>

CheckLicense == license.signed /\ ~license.expired /\ driver \in license.drivers

Connect ==
  /\ outcome = "connecting"
  /\ \/ (driver \in Enterprise => CheckLicense) /\ outcome' = "building"
     \/ Fails   \* no URL, no licence, or the database does not answer
  /\ UNCHANGED <<command, includes, request, loaded, stage, step, global, env>>

-----------------------------------------------------------------------------
(* Validate *)

Has(active, s) == active = {} \/ s \in active
GroupsFor(r, active) == [s \in {t \in AllSections : Has(active, t)} |-> Groups(r)[s]]
SeqNames(r) == {r.seq[i].name : i \in DOMAIN r.seq}
Unique(s)   == \A i, j \in DOMAIN s : s[i] = s[j] /\ s[i] # "" => i = j

ValidRunWeights(r) ==
  DOMAIN r.weights # {} =>
    /\ \A i \in DOMAIN r.run : Name(r.run[i]) # ""
    /\ DOMAIN r.weights \subseteq {Name(r.run[i]) : i \in DOMAIN r.run}

ValidSeq(r) == "" \notin SeqNames(r) /\ Unique([i \in DOMAIN r.seq |-> r.seq[i].name])

ValidRowRefs(r, groups) ==
  \A g \in DOMAIN groups : \A i \in DOMAIN groups[g] :
    LET q == groups[g][i] IN q.row # "" => q.args.exprs = <<>> /\ q.row \in DOMAIN r.rows

ValidDuplicateNames(r, groups) ==
  /\ \A g \in DOMAIN groups : Unique([i \in DOMAIN groups[g] |-> groups[g][i].name])
  /\ Unique([i \in DOMAIN r.run |-> Name(r.run[i])])

IsBatch(q) == q.type \in {"query_batch", "exec_batch"}

ValidTransaction(tx) ==
  /\ tx.queries # <<>>
  /\ \A j \in DOMAIN tx.queries :
       LET q == tx.queries[j]
       IN  IF q.rollback_if # None
           THEN q.query = "" /\ q.name = "" /\ q.type = "" /\ q.args.exprs = <<>>
           ELSE ~IsBatch(q) /\ ~q.prepared
  /\ \A j \in DOMAIN tx.queries : tx.queries[j].name \notin DOMAIN tx.locals

ValidTransactions(r) == \A i \in DOMAIN r.run : IsTransaction(r.run[i]) => ValidTransaction(r.run[i])

ValidWorkers(r) ==
  \A i \in DOMAIN r.worker : r.worker[i].name # "" /\ r.worker[i].rate.times > 0 /\ r.worker[i].rate.interval > 0

Reserved == {"success_count", "total_errors", "error_rate", "tpm"}
ValidExpectationGlobals(r) == r.expectations # <<>> => DOMAIN r.globals \cap Reserved = {}

(* The calls of gen, env and seq_global that the source text shows. *)
Check(r, e) ==
  \A c \in e.calls : c[2] \in CASE c[1] = "gen" -> Patterns
                                [] c[1] = "env" -> EnvVars
                                [] c[1] = "seq" -> SeqNames(r)

(* Globals, count, size and rollback_if are not looked at. *)
ValidExpressions(r, groups, active) ==
  LET checked == Values(r.expressions) \cup (UNION {Values(row) : row \in Values(r.rows)})
                 \cup (UNION {UNION {Values(q.args.exprs) \cup Values(q.print) : q \in Values(groups[g])} : g \in DOMAIN groups})
                 \cup (IF Has(active, "run") THEN UNION {Values(r.run[i].locals) : i \in DOMAIN r.run} ELSE {})
  IN  \A e \in checked : Check(r, e)

Valid(r, active) ==
  LET groups == GroupsFor(r, active)
  IN  /\ Has(active, "run") => ValidRunWeights(r) /\ ValidTransactions(r)
      /\ ValidSeq(r) /\ ValidRowRefs(r, groups) /\ ValidDuplicateNames(r, groups)
      /\ Has(active, "worker") => ValidWorkers(r)
      /\ ValidExpectationGlobals(r) /\ ValidExpressions(r, groups, active)

-----------------------------------------------------------------------------
(* NewEnv, one part after the other; environments of workers interleave.   *)

At(b, s) == outcome = "building" /\ b \in Stages(cmd)[stage] /\ step[b] = s
Go(b, s) == step' = [step EXCEPT ![b] = s]

(* Without an environment a worker goes away; the command goes on. *)
Refuse(b) == Go(b, "failed")

Validate(b) ==
  /\ At(b, "idle")
  /\ IF Valid(request, Active(cmd, b)) THEN Go(b, "globals") ELSE Refuse(b)
  /\ UNCHANGED <<command, includes, request, loaded, stage, global, env, outcome>>

(* Kinds of strings: text does not compile; calc, as "500", yields a       *)
(* number, string another string, ref the global it names.                 *)
Text == {"text", "calc", "string", "ref", "fails"}

(* What a string yields as an expression. *)
Eval(v, names) ==
  CASE v.kind = "calc"   -> [kind |-> "number", of |-> ""]
    [] v.kind = "string" -> [kind |-> v.of, of |-> ""]
    [] v.kind = "ref"    -> names[v.of]
    [] OTHER             -> v

(* A value that the next environment does not evaluate again. *)
Final(v) == v.kind \notin Text \ {"text"}

CopyGlobals(b) ==
  /\ At(b, "globals")
  /\ IF DOMAIN request.globals \cap Builtins # {} THEN Refuse(b) /\ UNCHANGED env
     ELSE /\ env' = [env EXCEPT ![b] = [globals |-> request.globals, args |-> <<>>,
                                        names |-> Builtins \cup DOMAIN request.globals]]
          /\ Go(b, "global")
  /\ UNCHANGED <<command, includes, request, loaded, stage, global, outcome>>

(* The globals in the order of the document.  The string is that of the    *)
(* request, the names are those of the environment; both get the result.   *)
LoadGlobalBy(b, name) ==
  LET v == request.globals[name]
      x == Eval(v, env[b].globals)
  IN  IF v.kind \notin Text \/ v.kind = "text" THEN UNCHANGED <<request, env>>
      ELSE /\ env' = [env EXCEPT ![b].globals[name] = x]
           /\ request' = [request EXCEPT !.globals[name] = x]

LoadGlobalAnyOrder(b) == (* mutant: ranges over the map *)
  /\ At(b, "global") /\ global[b] <= Len(request.order)
  /\ LoadGlobalBy(b, request.order[Len(request.order) + 1 - global[b]])
  /\ global' = [global EXCEPT ![b] = @ + 1] /\ UNCHANGED step
  /\ UNCHANGED <<command, includes, loaded, stage, outcome>>

LoadGlobal(b) ==
  /\ At(b, "global") /\ global[b] <= Len(request.order)
  /\ LET name == request.order[global[b]]
     IN  IF request.globals[name].kind = "fails" THEN Refuse(b) /\ UNCHANGED <<request, env>>
         ELSE LoadGlobalBy(b, name) /\ UNCHANGED step
  /\ global' = [global EXCEPT ![b] = @ + 1]
  /\ UNCHANGED <<command, includes, loaded, stage, outcome>>

LoadReferences(b) ==
  /\ At(b, "global") /\ global[b] > Len(request.order)
  /\ IF request.references \cap env[b].names # {} THEN Refuse(b) /\ UNCHANGED env
     ELSE env' = [env EXCEPT ![b].names = @ \cup request.references] /\ Go(b, "expressions")
  /\ UNCHANGED <<command, includes, request, loaded, stage, global, outcome>>

Compiles(e, names) == e.compiles /\ e.uses \subseteq names

(* All names come first, so that expressions may use one another. *)
RegisterExpressions(b) ==
  /\ At(b, "expressions")
  /\ LET names == env[b].names \cup DOMAIN request.expressions
     IN  IF \/ DOMAIN request.expressions \cap env[b].names # {}
            \/ \E e \in Values(request.expressions) : ~Compiles(e, names \cup {"args"})
         THEN Refuse(b) /\ UNCHANGED env
         ELSE env' = [env EXCEPT ![b].names = names] /\ Go(b, "rows")
  /\ UNCHANGED <<command, includes, request, loaded, stage, global, outcome>>

(* compileQueries begins with the rows, of all sections: the query of the  *)
(* request gets the row's args, and keeps its row.                         *)
ExpandRow(r, q) ==
  IF q.row = "" THEN q
  ELSE [q EXCEPT !.args = [exprs |-> IF q.row \in DOMAIN r.rows THEN r.rows[q.row] ELSE <<>>, names |-> None]]

Expand(r) ==
  LET each(s) == [i \in DOMAIN s |-> ExpandRow(r, s[i])]
  IN  [f \in DOMAIN r |->
         IF f = "run" THEN [i \in DOMAIN r.run |-> [r.run[i] EXCEPT !.queries = each(@)]]
         ELSE IF f \in AllSections THEN each(r[f]) ELSE r[f]]

ExpandRows(b) ==
  /\ At(b, "rows")
  /\ request' = Expand(request) /\ Go(b, "queries")
  /\ UNCHANGED <<command, includes, loaded, stage, global, env, outcome>>

Types == {"", "query", "exec", "query_batch", "exec_batch"}

QueryCompiles(q, names) ==
  IF q.rollback_if # None THEN Compiles(q.rollback_if, names)
  ELSE /\ q.type \in Types
       /\ \A e \in Values(q.args.exprs) \cup Values(q.print) \cup {q.count, q.size} : e # None => Compiles(e, names)

ArgsOf(r) == [s \in AllSections |-> [i \in DOMAIN Groups(r)[s] |-> Groups(r)[s][i].args]]

(* Queries of every section are compiled, those not validated among them. *)
CompileQueries(b) ==
  /\ At(b, "queries")
  /\ IF /\ \A s \in AllSections : \A q \in Values(Groups(request)[s]) : QueryCompiles(q, env[b].names)
        /\ \A i \in DOMAIN request.run : \A e \in Values(request.run[i].locals) : Compiles(e, env[b].names)
     THEN env' = [env EXCEPT ![b].args = ArgsOf(request)] /\ Go(b, "built")
     ELSE Refuse(b) /\ UNCHANGED env
  /\ UNCHANGED <<command, includes, request, loaded, stage, global, outcome>>

NewEnv(b) ==
  \/ Validate(b) \/ CopyGlobals(b) \/ LoadGlobal(b) \/ LoadReferences(b)
  \/ RegisterExpressions(b) \/ ExpandRows(b) \/ CompileQueries(b)

Over(b) == step[b] \in {"built", "failed"}

StageOver ==
  /\ outcome = "building" /\ \A b \in Stages(cmd)[stage] : Over(b)
  /\ IF \E b \in Stages(cmd)[stage] \cap {"main", "init"} : step[b] = "failed"
     THEN Fails /\ UNCHANGED stage
     ELSE IF stage < Len(Stages(cmd)) THEN stage' = stage + 1 /\ UNCHANGED outcome
     ELSE outcome' = "started" /\ UNCHANGED stage
  /\ UNCHANGED <<command, includes, request, loaded, step, global, env>>

Next == WalkIncludes \/ LoadConfig \/ Connect \/ StageOver \/ \E b \in Builders : NewEnv(b)

Spec == Init /\ [][Next]_vars

-----------------------------------------------------------------------------
(* pickWeighted *)

Weight(r, i) == LET n == Name(r.run[i]) IN IF n \in DOMAIN r.weights THEN r.weights[n] ELSE 0

Cumulative(r) ==
  LET c[i \in 0 .. Len(r.run)] == IF i = 0 THEN 0 ELSE c[i - 1] + Weight(r, i)
  IN  c

Total(r)   == Cumulative(r)[Len(r.run)]
Entries(r) == {i \in DOMAIN r.run : Name(r.run[i]) \in DOMAIN r.weights}

PickWeightedInclusive(r, x) == (* mutant: r <= cumulative *)
  CHOOSE i \in Entries(r) : x <= Cumulative(r)[i] /\ \A j \in Entries(r) : j < i => x > Cumulative(r)[j]

PickWeighted(r, x) ==
  CHOOSE i \in Entries(r) : x < Cumulative(r)[i] /\ \A j \in Entries(r) : j < i => x >= Cumulative(r)[j]

-----------------------------------------------------------------------------
(* What the loaded request says on its own: the value of each global.  A   *)
(* name that comes later in the file still stands for its text.            *)
Precedes(r, m, n) == \E i, j \in DOMAIN r.order : j < i /\ r.order[j] = m /\ r.order[i] = n

Value(r, g, n) ==
  LET v == r.globals[n]
  IN  IF v.kind # "ref" THEN Eval(v, <<>>) ELSE IF Precedes(r, v.of, n) THEN g[v.of] ELSE r.globals[v.of]

Means(r, g) == DOMAIN g = DOMAIN r.globals /\ \A n \in DOMAIN g : g[n] = Value(r, g, n)

(* The environment of a command that is built first, alone. *)
First == IF cmd = "run" THEN "init" ELSE "main"

UsesRows(r) == \E s \in AllSections : \E q \in Values(Groups(r)[s]) : q.row # ""

(* The first environment knows the globals and args the file means.  What  *)
(* later environments know is the same, whatever those before or beside    *)
(* them wrote to the request, but for globals whose value is a string that *)
(* compiles again, as env('DB_BATCH_SIZE') gives one (_index.md:96-105):   *)
(* the next environment evaluates it once more.  And a later environment   *)
(* is refused only where there is such a global, or queries name rows.     *)
SameEnvironments ==
  loaded # None =>
    LET again == {n \in DOMAIN env[First].globals : ~Final(env[First].globals[n])}
    IN  \A b \in Builders :
          /\ step[b] = "built" =>
               /\ b = First => Means(loaded, env[b].globals)
               /\ DOMAIN env[b].globals = DOMAIN loaded.globals
               /\ \A n \in DOMAIN loaded.globals \ again : env[b].globals[n] = env[First].globals[n]
               /\ env[b].args = ArgsOf(Expand(loaded))
          /\ step[b] = "failed" => b = First \/ again # {} \/ UsesRows(loaded)

(* docs/content/docs/configuration/_index.md:144: from the query's         *)
(* perspective there is no difference between row and args.                *)
RowsAreArgs == \A b \in Workers : step[b] # "failed"

(* run_weights that validation accepts give each item its share of picks.  *)
Shares ==
  \A b \in Workers : step[b] = "built" /\ Total(request) > 0 =>
    \A i \in DOMAIN request.run :
      Cardinality({x \in 0 .. Total(request) - 1 : PickWeighted(request, x) = i})
        = LET n == Name(request.run[i]) IN IF n \in DOMAIN request.weights THEN request.weights[n] ELSE 0
=============================================================================
