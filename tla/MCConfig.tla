------------------------------ MODULE MCConfig ------------------------------
(* A configuration that uses every section, and variations of it that      *)
(* each break or stretch one rule.                                         *)
EXTENDS Inlining

Expr(calls, uses) == [calls |-> calls, uses |-> uses, compiles |-> TRUE]
Plain  == Expr({}, {"uniform"})
Syntax == [Plain EXCEPT !.compiles = FALSE]
Calls(kind, name) == Expr({<<kind, name>>}, {})

List(s) == [kind |-> "list", entries |-> [i \in DOMAIN s |-> <<"", s[i]>>]]
Map(s)  == [kind |-> "map", entries |-> s]

Query(n) == [name |-> n, type |-> "exec", row |-> "", args |-> List(<<Plain>>), prepared |-> FALSE,
             rollback_if |-> None, print |-> <<>>, count |-> None, size |-> None, query |-> "SQL"]
RollbackIf == [Query("") EXCEPT !.type = "", !.args = List(<<>>), !.rollback_if = Plain, !.query = ""]
Worker(n, times) == [q \in DOMAIN Query(n) \cup {"rate"} |->
                       IF q = "rate" THEN [times |-> times, interval |-> 1] ELSE Query(n)[q]]

Item(q)      == [transaction |-> "", queries |-> <<q>>, locals |-> <<>>]
Tx(n, qs, l) == [transaction |-> n, queries |-> qs, locals |-> l]

G(k)   == [kind |-> k, of |-> ""]
Ref(n) == [kind |-> "ref", of |-> n]
Str(k) == [kind |-> "string", of |-> k]

Base ==
  [parses |-> TRUE, globals |-> [a |-> G("calc"), b |-> Ref("a"), c |-> Str("text"), d |-> G("number")],
   order |-> <<"a", "b", "c", "d">>, expressions |-> [e |-> Expr({}, {"f"}), f |-> Expr({}, {"a", "args"})],
   rows |-> [r |-> <<Plain>>], references |-> {"regions"}, seq |-> <<[name |-> "ids"]>>,
   weights |-> [q |-> 2, t |-> 1], expectations |-> <<Plain>>,
   up |-> <<Query("table")>>, seed |-> <<[Query("rows") EXCEPT !.type = "exec_batch", !.count = Plain]>>,
   deseed |-> <<Query("")>>, down |-> <<Query("")>>, init |-> <<Query("accounts")>>,
   run |-> <<Item([Query("q") EXCEPT !.args = Map(<< <<"x", Plain>>, <<"y", Calls("seq", "ids")>> >>)]),
             Tx("t", <<Query("t1"), RollbackIf>>, [v |-> Plain]), Item(Query("u"))>>,
   worker |-> <<Worker("w", 1)>>]

Run(item)   == [Base EXCEPT !.run[3] = item]
Globals(f, o) == [Base EXCEPT !.globals = f, !.order = o]
Arg(e)      == [Base EXCEPT !.run[3].queries[1].args = List(<<e>>)]

Refused ==
  {[Base EXCEPT !.parses = FALSE], [Base EXCEPT !.up[1].args.kind = "other"],
   [Base EXCEPT !.weights = [nobody |-> 1]], [Base EXCEPT !.run[3].queries[1].name = ""],
   [Base EXCEPT !.seq = <<[name |-> "ids"], [name |-> "ids"]>>], [Base EXCEPT !.seq[1].name = ""],
   [Base EXCEPT !.init[1].row = "r"], [Base EXCEPT !.init[1].row = "none", !.init[1].args = List(<<>>)],
   [Base EXCEPT !.up = <<Query("x"), Query("x")>>], Run(Item(Query("t"))),
   Run(Tx("s", <<>>, <<>>)), Run(Tx("s", <<[RollbackIf EXCEPT !.query = "SQL"]>>, <<>>)),
   Run(Tx("s", <<[Query("s1") EXCEPT !.type = "query_batch"]>>, <<>>)),
   Run(Tx("s", <<[Query("s1") EXCEPT !.prepared = TRUE]>>, <<>>)),
   Run(Tx("s", <<Query("s1")>>, [s1 |-> Plain])), Run(Tx("s", <<Query("s1")>>, [v |-> Calls("gen", "no")])),
   [Base EXCEPT !.worker[1].name = ""], [Base EXCEPT !.worker[1].rate.times = 0],
   [Base EXCEPT !.worker[1].rate.interval = 0], Globals([tpm |-> G("number")], <<"tpm">>),
   Arg(Calls("gen", "no")), Arg(Calls("env", "UNSET")), Arg(Calls("seq", "no")), Arg(Syntax),
   Arg(Expr({}, {"nothing"})), Globals([uniform |-> G("number")], <<"uniform">>),
   Globals([a |-> G("fails")], <<"a">>), [Base EXCEPT !.references = {"a"}],
   [Base EXCEPT !.expressions = [uniform |-> Plain]], [Base EXCEPT !.expressions = [e |-> Syntax]],
   [Base EXCEPT !.up[1].type = "select"], [Base EXCEPT !.seed[1].count = Syntax],
   Run(Tx("s", <<[RollbackIf EXCEPT !.rollback_if = Syntax]>>, <<>>))}

WithRow == [Base EXCEPT !.run[3].queries[1].row = "r", !.run[3].queries[1].args = List(<<>>)]

Accepted ==
  {Base, WithRow, [Base EXCEPT !.weights = <<>>], [Base EXCEPT !.weights = [q |-> 0, u |-> 3, t |-> 1]],
   [Base EXCEPT !.seed[1].row = "r", !.seed[1].args = List(<<>>)], Arg(Calls("gen", "name")),
   Globals([a |-> Ref("b"), b |-> G("calc")], <<"a", "b">>), 
   Globals([a |-> Str("calc"), b |-> Ref("a"), c |-> G("calc")], <<"a", "b", "c">>),
   Globals([a |-> Str("fails"), b |-> G("calc")], <<"a", "b">>)}

Unlicensed == [signed |-> FALSE, expired |-> FALSE, drivers |-> {}]
Node(k, items) == [kind |-> k, items |-> items, of |-> ""]
File(f) == [kind |-> "include", items |-> <<>>, of |-> f]
Leaf(t) == [kind |-> "scalar", items |-> <<>>, of |-> t]
One == [main |-> Node("map", <<>>)]

(* A diamond, a file named twice, sequences in sequences and in maps, a    *)
(* root that is a directive; a cycle of two files, of one, a missing file. *)
Trees ==
  {[main |-> Node("map", <<File("a"), Node("seq", <<File("b"), Leaf("1"), File("b")>>)>>),
    a |-> Node("seq", <<File("b"), File("c")>>), b |-> Node("seq", <<Leaf("2"), Leaf("3")>>),
    c |-> Node("map", <<File("b"), Leaf("4")>>)],
   [main |-> Node("seq", <<Node("map", <<File("a")>>), File("a")>>), a |-> File("b"), b |-> Leaf("1")],
   [main |-> Node("map", <<File("a"), File("b")>>), a |-> Node("map", <<Leaf("1")>>),
    b |-> Node("seq", <<File("c"), File("a")>>), c |-> Node("map", <<Node("seq", <<File("b")>>)>>)],
   [main |-> Node("map", <<Leaf("1"), File("main")>>)],
   [main |-> Node("map", <<File("a"), Leaf("1")>>), a |-> Node("map", <<File("none")>>)]}

Setup(doc, drv, lic) == [files |-> One, document |-> doc, driver |-> drv, license |-> lic]

MCSetups ==
  {[Setup(Base, "pgx", Unlicensed) EXCEPT !.files = t] : t \in Trees} \cup
  {Setup(doc, "pgx", Unlicensed) : doc \in Refused \cup Accepted}
  \cup {Setup([Base EXCEPT !.parses = FALSE], "oracle", lic) :
          lic \in [signed : BOOLEAN, expired : BOOLEAN, drivers : {{}, {"oracle"}}]}
  \cup {Setup(Base, "oracle", lic) : lic \in {Unlicensed, [signed |-> TRUE, expired |-> FALSE, drivers |-> {"oracle"}]}}
=============================================================================
