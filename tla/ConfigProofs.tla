---------------------------- MODULE ConfigProofs ----------------------------
(***************************************************************************)
(* What the environments of a command have in common, for any file, any    *)
(* command and any number of workers: proofs of SameEnvironments and       *)
(* Shares.  And that includes are resolved to the tree the files stand     *)
(* for, for files of any number and trees of any depth: IncludesExact.     *)
(***************************************************************************)
EXTENDS Inlining, TLAPS, WellFoundedInduction, FiniteSetTheorems, SequenceTheorems

(* Steps from which an environment knows the globals, has evaluated them,  *)
(* has all its names.                                                      *)
Knows      == {"global", "expressions", "rows", "queries", "built"}
Evaluated  == Knows \ {"global"}
Registered == {"rows", "queries", "built"}
Steps      == Knows \cup {"idle", "globals", "failed"}

(* A request but for its globals. *)
WithGlobals(r, g) == [f \in DOMAIN r |-> IF f = "globals" THEN g ELSE r[f]]

Settles(r, g, n) == g[n] = Value(r, g, n)

(* A later environment evaluates some global again. *)
SomeAgain == \E n \in DOMAIN env[First].globals : ~Final(env[First].globals[n])

-----------------------------------------------------------------------------
(* The names an environment has before, with and after the references.     *)
GlobalNames(r)    == Builtins \cup DOMAIN r.globals
ReferenceNames(r) == GlobalNames(r) \cup r.references
AllNames(r)       == ReferenceNames(r) \cup DOMAIN r.expressions

Registers(r) ==
  /\ DOMAIN r.expressions \cap ReferenceNames(r) = {}
  /\ \A e \in Values(r.expressions) : Compiles(e, AllNames(r) \cup {"args"})

QueriesCompile(r, names) ==
  /\ \A s \in AllSections : \A q \in Values(Groups(r)[s]) : QueryCompiles(q, names)
  /\ \A i \in DOMAIN r.run : \A e \in Values(r.run[i].locals) : Compiles(e, names)

-----------------------------------------------------------------------------
(* The inductive invariant *)

Shapes ==
  /\ cmd \in Commands /\ stage \in DOMAIN Stages(cmd)
  /\ step \in [Builders -> Steps] /\ global \in [Builders -> Nat \ {0}]
  /\ env = [b \in Builders |-> [globals |-> env[b].globals, args |-> env[b].args, names |-> env[b].names]]
  /\ document \in {s.document : s \in Setups}

(* Nothing was decoded, and no environment begun.                          *)
NotLoaded ==
  /\ outcome \in {"loading", "failed", "panic"}
  /\ loaded = None /\ stage = 1
  /\ \A b \in Builders : step[b] = "idle" /\ global[b] = 1

(* The request is what was decoded, but for values of globals, and from    *)
(* the first environment on with the rows in place of args.                *)
RequestLike ==
  /\ loaded = Decode(document)
  /\ \/ request = WithGlobals(loaded, request.globals)
     \/ request = WithGlobals(Expand(loaded), request.globals)
  /\ DOMAIN request.globals = DOMAIN loaded.globals

(* Stages begin one after the other, when the first environment is there.  *)
InStages ==
  /\ \A b \in Builders : step[b] # "idle" => \E j \in 1 .. stage : b \in Stages(cmd)[j]
  /\ stage > 1 => step[First] = "built"
  /\ \A b \in Builders : step[b] \in {"idle", "globals"} => global[b] = 1

RowsExpanded ==
  \A b \in Builders :
    /\ step[b] \in {"queries", "built"} => request = WithGlobals(Expand(loaded), request.globals)
    /\ step[b] = "built" => env[b].args = ArgsOf(Expand(loaded))

(* The first environment evaluates the globals, in the order of the file:  *)
(* those it is past have their values, those to come their expressions.    *)
(* Later ones find those in the request, and evaluate what is not final.   *)
GlobalsInv ==
  /\ \A b \in Builders : step[b] \in Knows => DOMAIN env[b].globals = DOMAIN loaded.globals
  /\ step[First] \in {"idle", "globals"} => request.globals = loaded.globals
  /\ step[First] = "global" =>
       /\ global[First] <= Len(loaded.order) + 1
       /\ \A k \in DOMAIN loaded.order :
            IF k < global[First] THEN Settles(loaded, env[First].globals, loaded.order[k])
            ELSE env[First].globals[loaded.order[k]] = loaded.globals[loaded.order[k]]
  /\ step[First] \in Evaluated =>
       \A n \in DOMAIN loaded.globals : Settles(loaded, env[First].globals, n)
  /\ step[First] \in Knows /\ stage = 1 => env[First].globals = request.globals
  /\ step[First] \in Knows =>
       \A n \in DOMAIN loaded.globals : Final(env[First].globals[n]) =>
         /\ request.globals[n] = env[First].globals[n]
         /\ \A b \in Builders : step[b] \in Knows => env[b].globals[n] = env[First].globals[n]

(* What an environment went past without being refused holds of the file.  *)
Accepted(b) ==
  /\ step[b] \in Knows \cup {"globals"} => Valid(loaded, Active(cmd, b))
  /\ step[b] \in Knows => DOMAIN loaded.globals \cap Builtins = {}
  /\ step[b] \in Evaluated => loaded.references \cap GlobalNames(loaded) = {}
  /\ step[b] \in Registered => Registers(loaded)
  /\ step[b] = "built" => QueriesCompile(loaded, AllNames(loaded))
  /\ step[b] = "global" => env[b].names = GlobalNames(loaded)
  /\ step[b] = "expressions" => env[b].names = ReferenceNames(loaded)
  /\ step[b] \in Registered => env[b].names = AllNames(loaded)
  /\ step[b] = "failed" => b = First \/ SomeAgain

AcceptedInv == \A b \in Builders : Accepted(b)

LoadedInv ==
  /\ outcome \in {"connecting", "building", "started", "failed"}
  /\ RequestLike /\ InStages /\ RowsExpanded
  /\ GlobalsInv
  /\ ~UsesRows(loaded) => AcceptedInv

ConfigInv == Shapes /\ (NotLoaded \/ LoadedInv)

-----------------------------------------------------------------------------
(* Documents and requests *)

(* What decoding makes of a document. *)
WellFormed(r) ==
  /\ Fields \subseteq DOMAIN r /\ r = [f \in DOMAIN r |-> r[f]]
  /\ r.order \in Seq(DOMAIN r.globals) /\ ToSet(r.order) = DOMAIN r.globals /\ IsInjective(r.order)
  /\ \A n \in DOMAIN r.globals : r.globals[n].kind = "ref" => r.globals[n].of \in DOMAIN r.globals
  /\ r.run = [i \in DOMAIN r.run |-> r.run[i]]
  /\ \A i \in DOMAIN r.run :
       /\ r.run[i] = [f \in DOMAIN r.run[i] |-> r.run[i][f]] /\ "queries" \in DOMAIN r.run[i]
       /\ r.run[i].queries = [j \in DOMAIN r.run[i].queries |-> r.run[i].queries[j]]
       /\ \A j \in DOMAIN r.run[i].queries : "row" \in DOMAIN r.run[i].queries[j]
  /\ \A f \in AllSections \ {"run"} :
       /\ r[f] = [i \in DOMAIN r[f] |-> r[f][i]]
       /\ \A i \in DOMAIN r[f] : "row" \in DOMAIN r[f][i]

LEMMA FieldNames ==
  /\ "run" \in Fields /\ "globals" \in Fields /\ "order" \in Fields /\ "run" \in AllSections
  /\ AllSections \subseteq Fields /\ "globals" \notin AllSections /\ "order" \notin AllSections
  /\ "rows" \in Fields /\ "rows" \notin AllSections
  /\ "references" \in Fields /\ "references" \notin AllSections
  /\ "expressions" \in Fields /\ "expressions" \notin AllSections
  /\ "weights" \in Fields /\ "seq" \in Fields /\ "expectations" \in Fields
  /\ "worker" \in Fields
BY DEF Fields, AllSections

LEMMA DecodedQueries ==
  ASSUME NEW s, \A i \in DOMAIN s : "row" \in DOMAIN s[i]
  PROVE  /\ DecodeQueries(s) = [i \in DOMAIN DecodeQueries(s) |-> DecodeQueries(s)[i]]
         /\ \A i \in DOMAIN DecodeQueries(s) : "row" \in DOMAIN DecodeQueries(s)[i]
BY DEF DecodeQueries, DecodeQuery

LEMMA DecodedItem ==
  ASSUME NEW item, "queries" \in DOMAIN item,
         \A j \in DOMAIN item.queries : "row" \in DOMAIN item.queries[j]
  PROVE  /\ DecodeItem(item) = [f \in DOMAIN DecodeItem(item) |-> DecodeItem(item)[f]]
         /\ "queries" \in DOMAIN DecodeItem(item)
         /\ DecodeItem(item).queries = DecodeQueries(item.queries)
BY DEF DecodeItem

LEMMA Decoded ==
  ASSUME NEW s \in Setups
  PROVE  WellFormed(Decode(s.document))
<1> DEFINE d == s.document
           r == Decode(d)
<1>1. /\ Fields \subseteq DOMAIN d
      /\ \A i \in DOMAIN d.run : /\ "queries" \in DOMAIN d.run[i]
                                 /\ \A j \in DOMAIN d.run[i].queries : "row" \in DOMAIN d.run[i].queries[j]
      /\ \A f \in AllSections \ {"run"} : \A i \in DOMAIN d[f] : "row" \in DOMAIN d[f][i]
      /\ d.order \in Seq(DOMAIN d.globals) /\ ToSet(d.order) = DOMAIN d.globals /\ IsInjective(d.order)
      /\ \A n \in DOMAIN d.globals : d.globals[n].kind = "ref" => d.globals[n].of \in DOMAIN d.globals
  BY DocumentsAssumption
<1>2. /\ DOMAIN r = DOMAIN d /\ r = [f \in DOMAIN r |-> r[f]]
      /\ r.globals = d.globals /\ r.order = d.order
  BY <1>1, FieldNames DEF Decode
<1>3. r.run = [i \in DOMAIN d.run |-> DecodeItem(d.run[i])]
  BY <1>1, FieldNames DEF Decode
<1>4. ASSUME NEW f \in AllSections \ {"run"}
      PROVE  r[f] = DecodeQueries(d[f])
  BY <1>1, FieldNames DEF Decode
<1> HIDE DEF r
<1>5. ASSUME NEW i \in DOMAIN r.run
      PROVE  /\ r.run[i] = [f \in DOMAIN r.run[i] |-> r.run[i][f]] /\ "queries" \in DOMAIN r.run[i]
             /\ r.run[i].queries = [j \in DOMAIN r.run[i].queries |-> r.run[i].queries[j]]
             /\ \A j \in DOMAIN r.run[i].queries : "row" \in DOMAIN r.run[i].queries[j]
  <2>1. i \in DOMAIN d.run /\ r.run[i] = DecodeItem(d.run[i])
    BY <1>3, <1>5
  <2>2. r.run[i].queries = DecodeQueries(d.run[i].queries)
    BY <1>1, <2>1, DecodedItem
  <2>3. /\ r.run[i] = [f \in DOMAIN r.run[i] |-> r.run[i][f]] /\ "queries" \in DOMAIN r.run[i]
    BY <1>1, <2>1, DecodedItem
  <2> QED BY <1>1, <2>1, <2>2, <2>3, DecodedQueries
<1>6. ASSUME NEW f \in AllSections \ {"run"}
      PROVE  /\ r[f] = [i \in DOMAIN r[f] |-> r[f][i]]
             /\ \A i \in DOMAIN r[f] : "row" \in DOMAIN r[f][i]
  BY <1>1, <1>4, DecodedQueries
<1> QED BY <1>1, <1>2, <1>3, <1>5, <1>6 DEF WellFormed, r

-----------------------------------------------------------------------------
(* Requests that differ in their globals *)

LEMMA Kept ==
  ASSUME NEW r, Fields \subseteq DOMAIN r, NEW g
  PROVE  /\ DOMAIN WithGlobals(r, g) = DOMAIN r
         /\ \A f \in Fields \ {"globals"} : WithGlobals(r, g)[f] = r[f]
         /\ WithGlobals(r, g).globals = g
BY FieldNames DEF WithGlobals

LEMMA KeptTwice ==
  ASSUME NEW r, Fields \subseteq DOMAIN r, NEW g, NEW h
  PROVE  WithGlobals(WithGlobals(r, g), h) = WithGlobals(r, h)
BY DEF WithGlobals

LEMMA SameGroups ==
  ASSUME NEW r, NEW q, \A f \in AllSections : q[f] = r[f]
  PROVE  Groups(q) = Groups(r)
<1>1. q.run = r.run
  BY FieldNames
<1>2. [p \in UNION {{i} \X DOMAIN q.run[i].queries : i \in DOMAIN q.run} |-> q.run[p[1]].queries[p[2]]]
        = [p \in UNION {{i} \X DOMAIN r.run[i].queries : i \in DOMAIN r.run} |-> r.run[p[1]].queries[p[2]]]
  BY <1>1
<1> QED BY <1>2 DEF Groups

LEMMA SameArgs ==
  ASSUME NEW r, NEW q, \A f \in AllSections : q[f] = r[f]
  PROVE  ArgsOf(q) = ArgsOf(r)
BY SameGroups DEF ArgsOf

(* Validation looks at the names of the globals only. *)
Alike(q, r) ==
  /\ \A f \in Fields \ {"globals"} : q[f] = r[f]
  /\ DOMAIN q.globals = DOMAIN r.globals

LEMMA SameValid ==
  ASSUME NEW r, NEW q, NEW active, Alike(q, r)
  PROVE  Valid(q, active) <=> Valid(r, active)
<1>1. /\ q.run = r.run /\ q.weights = r.weights /\ q.seq = r.seq /\ q.rows = r.rows
      /\ q.worker = r.worker /\ q.expectations = r.expectations /\ q.expressions = r.expressions
      /\ DOMAIN q.globals = DOMAIN r.globals
      /\ \A f \in AllSections : q[f] = r[f]
  BY FieldNames DEF Alike
<1>2. Groups(q) = Groups(r)
  BY <1>1, SameGroups
<1>3. GroupsFor(q, active) = GroupsFor(r, active)
  BY <1>2 DEF GroupsFor
<1>4. ValidRunWeights(q) <=> ValidRunWeights(r)
  BY <1>1 DEF ValidRunWeights
<1>5. ValidTransactions(q) <=> ValidTransactions(r)
  BY <1>1 DEF ValidTransactions
<1>6. SeqNames(q) = SeqNames(r) /\ (ValidSeq(q) <=> ValidSeq(r))
  BY <1>1 DEF ValidSeq, SeqNames
<1>7. ASSUME NEW groups
      PROVE  /\ ValidRowRefs(q, groups) <=> ValidRowRefs(r, groups)
             /\ ValidDuplicateNames(q, groups) <=> ValidDuplicateNames(r, groups)
  BY <1>1 DEF ValidRowRefs, ValidDuplicateNames
<1>8. (ValidWorkers(q) <=> ValidWorkers(r)) /\ (ValidExpectationGlobals(q) <=> ValidExpectationGlobals(r))
  BY <1>1 DEF ValidWorkers, ValidExpectationGlobals
<1>9. ASSUME NEW groups
      PROVE  ValidExpressions(q, groups, active) <=> ValidExpressions(r, groups, active)
  <2>1. \A e : Check(q, e) <=> Check(r, e)
    BY <1>6 DEF Check
  <2>2. /\ Values(q.expressions) = Values(r.expressions)
        /\ (UNION {Values(row) : row \in Values(q.rows)}) = UNION {Values(row) : row \in Values(r.rows)}
        /\ (UNION {Values(q.run[i].locals) : i \in DOMAIN q.run}) = UNION {Values(r.run[i].locals) : i \in DOMAIN r.run}
    BY <1>1
  <2> QED BY <2>1, <2>2 DEF ValidExpressions
<1> QED BY <1>3, <1>4, <1>5, <1>6, <1>7, <1>8, <1>9 DEF Valid

LEMMA ExpressionsChecked ==
  ASSUME NEW r, NEW groups, NEW active
  PROVE  ValidExpressions(r, groups, active) <=>
           /\ \A e \in Values(r.expressions) \cup (UNION {Values(row) : row \in Values(r.rows)}) : Check(r, e)
           /\ \A g \in DOMAIN groups : \A q \in Values(groups[g]) :
                \A e \in Values(q.args.exprs) \cup Values(q.print) : Check(r, e)
           /\ Has(active, "run") => \A e \in UNION {Values(r.run[i].locals) : i \in DOMAIN r.run} : Check(r, e)
<1> DEFINE A == Values(r.expressions) \cup (UNION {Values(row) : row \in Values(r.rows)})
           Part(q) == Values(q.args.exprs) \cup Values(q.print)
           Of(g) == UNION {Part(q) : q \in Values(groups[g])}
           B == UNION {Of(g) : g \in DOMAIN groups}
           L == UNION {Values(r.run[i].locals) : i \in DOMAIN r.run}
           C == IF Has(active, "run") THEN L ELSE {}
<1>1. ValidExpressions(r, groups, active) <=> \A e \in A \cup B \cup C : Check(r, e)
  BY DEF ValidExpressions
<1>2. \A e : e \in B <=> \E g \in DOMAIN groups : e \in Of(g)
  OBVIOUS
<1>3. \A g, e : e \in Of(g) <=> \E q \in Values(groups[g]) : e \in Part(q)
  OBVIOUS
<1> HIDE DEF A, B, Of, L, Part
<1>4. (\A e \in B : Check(r, e)) <=> \A g \in DOMAIN groups : \A q \in Values(groups[g]) : \A e \in Part(q) : Check(r, e)
  BY <1>2, <1>3
<1>5. (\A e \in A \cup B \cup C : Check(r, e)) <=>
        (\A e \in A : Check(r, e)) /\ (\A e \in B : Check(r, e)) /\ (Has(active, "run") => \A e \in L : Check(r, e))
  OBVIOUS
<1> QED BY <1>1, <1>4, <1>5 DEF A, L, Part

LEMMA FewerSections ==
  ASSUME NEW r, NEW active, NEW fewer, \A s : Has(fewer, s) => Has(active, s), Valid(r, active)
  PROVE  Valid(r, fewer)
<1> DEFINE gs == GroupsFor(r, active)
           hs == GroupsFor(r, fewer)
<1>1. DOMAIN hs \subseteq DOMAIN gs /\ \A g \in DOMAIN hs : hs[g] = gs[g]
  BY DEF GroupsFor
<1>2. /\ Has(active, "run") => ValidRunWeights(r) /\ ValidTransactions(r)
      /\ ValidSeq(r) /\ ValidRowRefs(r, gs) /\ ValidDuplicateNames(r, gs)
      /\ Has(active, "worker") => ValidWorkers(r)
      /\ ValidExpectationGlobals(r) /\ ValidExpressions(r, gs, active)
  BY DEF Valid
<1> HIDE DEF gs, hs
<1>3. ValidRowRefs(r, hs)
  BY <1>1, <1>2 DEF ValidRowRefs
<1>4. ValidDuplicateNames(r, hs)
  <2>1. \A g \in DOMAIN hs : Unique([i \in DOMAIN hs[g] |-> hs[g][i].name])
    BY <1>1, <1>2 DEF ValidDuplicateNames
  <2> QED BY <1>2, <2>1 DEF ValidDuplicateNames
<1>5. ValidExpressions(r, hs, fewer)
  <2>1. \A g \in DOMAIN hs : Values(hs[g]) = Values(gs[g])
    BY <1>1
  <2> QED BY <1>1, <1>2, <2>1, ExpressionsChecked
<1> QED BY <1>2, <1>3, <1>4, <1>5 DEF Valid, hs

-----------------------------------------------------------------------------
(* Rows in place of args *)

LEMMA ExpandedFields ==
  ASSUME NEW r, WellFormed(r)
  PROVE  /\ DOMAIN Expand(r) = DOMAIN r /\ Fields \subseteq DOMAIN Expand(r)
         /\ \A f \in Fields \ AllSections : Expand(r)[f] = r[f]
         /\ Expand(r).globals = r.globals /\ Expand(r).order = r.order
         /\ Expand(r).rows = r.rows
BY FieldNames DEF Expand, WellFormed

LEMMA ExpandRowTwice ==
  ASSUME NEW r, NEW s, s.rows = r.rows, NEW q, "row" \in DOMAIN q
  PROVE  /\ ExpandRow(s, q) = ExpandRow(r, q)
         /\ ExpandRow(s, ExpandRow(r, q)) = ExpandRow(r, q)
<1>1. ExpandRow(s, q) = ExpandRow(r, q)
  BY DEF ExpandRow
<1>2. ExpandRow(s, ExpandRow(r, q)) = ExpandRow(r, q)
  <2> DEFINE X == [exprs |-> IF q.row \in DOMAIN r.rows THEN r.rows[q.row] ELSE <<>>, names |-> None]
             p == [q EXCEPT !.args = X]
  <2>1. CASE q.row = ""
    BY <2>1 DEF ExpandRow
  <2>2. CASE q.row # ""
    <3>1. ExpandRow(r, q) = p
      BY <2>2 DEF ExpandRow
    <3>2. p.row = q.row
      OBVIOUS
    <3>3. ExpandRow(s, p) = [p EXCEPT !.args = X]
      <4> HIDE DEF p
      <4> QED BY <2>2, <3>2 DEF ExpandRow
    <3>4. [p EXCEPT !.args = X] = p
      <4> HIDE DEF X
      <4> QED OBVIOUS
    <3> QED BY <3>1, <3>3, <3>4
  <2> QED BY <2>1, <2>2
<1> QED BY <1>1, <1>2

LEMMA ExpandedItems ==
  ASSUME NEW r, WellFormed(r)
  PROVE  /\ DOMAIN Expand(r).run = DOMAIN r.run
         /\ Expand(r).run = [i \in DOMAIN r.run |-> Expand(r).run[i]]
         /\ \A i \in DOMAIN r.run :
              Expand(r).run[i] = [r.run[i] EXCEPT !.queries =
                                    [j \in DOMAIN r.run[i].queries |-> ExpandRow(r, r.run[i].queries[j])]]
         /\ \A f \in AllSections \ {"run"} :
              Expand(r)[f] = [i \in DOMAIN r[f] |-> ExpandRow(r, r[f][i])]
<1> DEFINE each(s) == [i \in DOMAIN s |-> ExpandRow(r, s[i])]
<1>1. /\ Expand(r).run = [i \in DOMAIN r.run |-> [r.run[i] EXCEPT !.queries = each(@)]]
      /\ \A f \in AllSections \ {"run"} : Expand(r)[f] = each(r[f])
  BY FieldNames DEF Expand, WellFormed
<1> QED BY <1>1

(* Globals have no part in it, and a second time changes nothing.          *)
LEMMA ExpandAgain ==
  ASSUME NEW r, WellFormed(r), NEW s, DOMAIN s = DOMAIN r, s = [f \in DOMAIN s |-> s[f]],
         s.rows = r.rows,
         \/ \A f \in Fields \ {"globals"} : s[f] = r[f]
         \/ \A f \in Fields \ {"globals"} : s[f] = Expand(r)[f],
         \A f \in DOMAIN r \ Fields : s[f] = r[f]
  PROVE  Expand(s) = WithGlobals(Expand(r), s.globals)
<1>1. /\ DOMAIN Expand(s) = DOMAIN r /\ DOMAIN WithGlobals(Expand(r), s.globals) = DOMAIN r
      /\ Expand(s) = [f \in DOMAIN Expand(s) |-> Expand(s)[f]]
      /\ WithGlobals(Expand(r), s.globals) =
           [f \in DOMAIN WithGlobals(Expand(r), s.globals) |-> WithGlobals(Expand(r), s.globals)[f]]
  BY DEF Expand, WithGlobals
<1>2. ASSUME NEW f \in AllSections \ {"run"}
      PROVE  Expand(s)[f] = Expand(r)[f]
  <2>1. f \in DOMAIN s /\ Expand(s)[f] = [i \in DOMAIN s[f] |-> ExpandRow(s, s[f][i])]
    BY FieldNames DEF Expand, WellFormed
  <2>2. ASSUME NEW i \in DOMAIN r[f]
        PROVE  /\ ExpandRow(s, r[f][i]) = ExpandRow(r, r[f][i])
               /\ ExpandRow(s, ExpandRow(r, r[f][i])) = ExpandRow(r, r[f][i])
    <3>1. "row" \in DOMAIN r[f][i]
      BY DEF WellFormed
    <3> QED BY <3>1, ExpandRowTwice
  <2>3. Expand(r)[f] = [i \in DOMAIN r[f] |-> ExpandRow(r, r[f][i])]
    BY FieldNames DEF Expand, WellFormed
  <2>4. s[f] = r[f] \/ s[f] = Expand(r)[f]
    BY FieldNames
  <2>5. CASE s[f] = r[f]
    BY <2>1, <2>2, <2>3, <2>5
  <2>6. CASE s[f] = Expand(r)[f]
    BY <2>1, <2>2, <2>3, <2>6
  <2> QED BY <2>4, <2>5, <2>6
<1>3. Expand(s).run = Expand(r).run
  <2> DEFINE E(i) == [j \in DOMAIN r.run[i].queries |-> ExpandRow(r, r.run[i].queries[j])]
             X(i) == [r.run[i] EXCEPT !.queries = E(i)]
  <2>1. /\ "run" \in DOMAIN s
        /\ Expand(s).run = [i \in DOMAIN s.run |->
             [s.run[i] EXCEPT !.queries = [j \in DOMAIN s.run[i].queries |-> ExpandRow(s, s.run[i].queries[j])]]]
    BY FieldNames DEF Expand, WellFormed
  <2>2. /\ DOMAIN Expand(r).run = DOMAIN r.run /\ Expand(r).run = [i \in DOMAIN r.run |-> Expand(r).run[i]]
        /\ \A i \in DOMAIN r.run : Expand(r).run[i] = X(i)
    BY ExpandedItems
  <2>3. s.run = r.run \/ s.run = Expand(r).run
    BY FieldNames
  <2>4. ASSUME NEW i \in DOMAIN r.run
        PROVE  [s.run[i] EXCEPT !.queries = [j \in DOMAIN s.run[i].queries |-> ExpandRow(s, s.run[i].queries[j])]] = X(i)
    <3>1. ASSUME NEW j \in DOMAIN r.run[i].queries
          PROVE  /\ ExpandRow(s, r.run[i].queries[j]) = ExpandRow(r, r.run[i].queries[j])
                 /\ ExpandRow(s, ExpandRow(r, r.run[i].queries[j])) = ExpandRow(r, r.run[i].queries[j])
      <4>1. "row" \in DOMAIN r.run[i].queries[j]
        BY DEF WellFormed
      <4> QED BY <4>1, ExpandRowTwice
    <3>2. "queries" \in DOMAIN r.run[i]
      BY DEF WellFormed
    <3>3. CASE s.run = r.run
      BY <3>1, <3>3
    <3>4. CASE s.run = Expand(r).run
      <4>1. s.run[i] = X(i)
        BY <2>2, <3>4
      <4>2. X(i).queries = E(i)
        BY <3>2
      <4>3. [j \in DOMAIN E(i) |-> ExpandRow(s, E(i)[j])] = E(i)
        BY <3>1
      <4>4. [X(i) EXCEPT !.queries = E(i)] = X(i)
        <5> HIDE DEF E
        <5> QED OBVIOUS
      <4> HIDE DEF X, E
      <4> QED BY <4>1, <4>2, <4>3, <4>4
    <3> QED BY <2>3, <3>3, <3>4
  <2>5. DOMAIN s.run = DOMAIN r.run
    BY <2>2, <2>3
  <2> HIDE DEF X, E
  <2> QED BY <2>1, <2>2, <2>4, <2>5
<1>4. ASSUME NEW f \in DOMAIN r, f \notin AllSections
      PROVE  Expand(s)[f] = WithGlobals(Expand(r), s.globals)[f]
  <2>1. Expand(s)[f] = s[f] /\ Expand(r)[f] = r[f]
    BY <1>4, FieldNames DEF Expand
  <2> QED BY <2>1, <1>1, <1>4 DEF WithGlobals
<1>5. ASSUME NEW f \in DOMAIN r
      PROVE  Expand(s)[f] = WithGlobals(Expand(r), s.globals)[f]
  <2>1. CASE f \notin AllSections
    BY <1>4, <2>1
  <2>2. CASE f \in AllSections
    <3>1. f # "globals" /\ WithGlobals(Expand(r), s.globals)[f] = Expand(r)[f]
      BY <1>1, <2>2, FieldNames DEF WithGlobals
    <3> QED BY <1>2, <1>3, <2>2, <3>1
  <2> QED BY <2>1, <2>2
<1> QED BY <1>1, <1>5

LEMMA NoRowsToExpand ==
  ASSUME NEW r, WellFormed(r), ~UsesRows(r)
  PROVE  Expand(r) = r
<1>1. ASSUME NEW f \in AllSections \ {"run"}
      PROVE  Expand(r)[f] = r[f]
  <2>1. \A i \in DOMAIN r[f] : r[f][i].row = ""
    <3>1. Groups(r)[f] = r[f]
      BY <1>1 DEF Groups
    <3> QED BY <3>1 DEF UsesRows, Values
  <2>2. Expand(r)[f] = [i \in DOMAIN r[f] |-> ExpandRow(r, r[f][i])]
    BY FieldNames DEF Expand, WellFormed
  <2>3. \A i \in DOMAIN r[f] : ExpandRow(r, r[f][i]) = r[f][i]
    BY <2>1 DEF ExpandRow
  <2>4. r[f] = [i \in DOMAIN r[f] |-> r[f][i]]
    BY DEF WellFormed
  <2> QED BY <2>2, <2>3, <2>4
<1>2. Expand(r).run = r.run
  <2>1. ASSUME NEW i \in DOMAIN r.run
        PROVE  Expand(r).run[i] = r.run[i]
    <3>1. ASSUME NEW j \in DOMAIN r.run[i].queries
          PROVE  r.run[i].queries[j].row = ""
      <4>1. <<i, j>> \in DOMAIN Groups(r)["run"] /\ Groups(r)["run"][<<i, j>>] = r.run[i].queries[j]
        BY FieldNames DEF Groups
      <4> QED BY <4>1, FieldNames DEF UsesRows, Values
    <3>2. \A j \in DOMAIN r.run[i].queries : ExpandRow(r, r.run[i].queries[j]) = r.run[i].queries[j]
      BY <3>1 DEF ExpandRow
    <3>3. [j \in DOMAIN r.run[i].queries |-> ExpandRow(r, r.run[i].queries[j])] = r.run[i].queries
      <4>1. r.run[i].queries = [j \in DOMAIN r.run[i].queries |-> r.run[i].queries[j]]
        BY DEF WellFormed
      <4> QED BY <3>2, <4>1
    <3>4. Expand(r).run[i] = [r.run[i] EXCEPT !.queries = r.run[i].queries]
      <4>1. Expand(r).run[i] = [r.run[i] EXCEPT !.queries =
                                  [j \in DOMAIN r.run[i].queries |-> ExpandRow(r, r.run[i].queries[j])]]
        BY ExpandedItems
      <4> QED BY <3>3, <4>1
    <3>5. r.run[i] = [f \in DOMAIN r.run[i] |-> r.run[i][f]]
      BY DEF WellFormed
    <3> QED BY <3>4, <3>5
  <2>2. /\ DOMAIN Expand(r).run = DOMAIN r.run
        /\ Expand(r).run = [i \in DOMAIN r.run |-> Expand(r).run[i]]
    BY ExpandedItems
  <2>3. r.run = [i \in DOMAIN r.run |-> r.run[i]]
    BY DEF WellFormed
  <2> QED BY <2>1, <2>2, <2>3
<1>3. \A f \in DOMAIN r \ AllSections : Expand(r)[f] = r[f]
  BY FieldNames DEF Expand
<1>4. \A f \in DOMAIN r : Expand(r)[f] = r[f]
  BY <1>1, <1>2, <1>3
<1>5. DOMAIN Expand(r) = DOMAIN r /\ Expand(r) = [f \in DOMAIN Expand(r) |-> Expand(r)[f]]
  BY DEF Expand
<1>6. r = [f \in DOMAIN r |-> r[f]]
  BY DEF WellFormed
<1> QED BY <1>4, <1>5, <1>6

-----------------------------------------------------------------------------
(* Environments *)

LEMMA TheStages ==
  ASSUME cmd \in Commands
  PROVE  /\ Len(Stages(cmd)) \in Nat /\ DOMAIN Stages(cmd) = 1 .. Len(Stages(cmd))
         /\ Stages(cmd)[1] = {First} /\ First \in {"main", "init"} /\ First \in Builders
         /\ \A j \in DOMAIN Stages(cmd) : Stages(cmd)[j] \subseteq Builders
         /\ \A j \in DOMAIN Stages(cmd) : j > 1 => First \notin Stages(cmd)[j]
         /\ \A i, j \in DOMAIN Stages(cmd) : i # j => Stages(cmd)[i] \cap Stages(cmd)[j] = {}
<1> DEFINE W == Workers \cup {"background"}
<1>1. CASE cmd = "run"
  <2>1. Stages(cmd) = << {"init"}, W >>
    BY <1>1 DEF Stages
  <2>2. "init" \notin W
    BY WorkersAssumption
  <2> QED BY <1>1, <2>1, <2>2 DEF First, Builders
<1>2. CASE cmd = "all"
  <2>1. Stages(cmd) = << {"main"}, {"init"}, W >>
    BY <1>2 DEF Stages
  <2>2. "init" \notin W /\ "main" \notin W
    BY WorkersAssumption
  <2> QED BY <1>2, <2>1, <2>2 DEF First, Builders
<1>3. CASE cmd \notin {"run", "all"}
  <2>1. Stages(cmd) = << {"main"} >>
    BY <1>3 DEF Stages
  <2> QED BY <1>3, <2>1 DEF First, Builders
<1> QED BY <1>1, <1>2, <1>3

(* What a later environment validates the first one did.                   *)
LEMMA FirstIsStrictest ==
  ASSUME cmd \in Commands, NEW j \in DOMAIN Stages(cmd), j > 1, NEW b \in Stages(cmd)[j],
         NEW s, Has(Active(cmd, b), s)
  PROVE  Has(Active(cmd, First), s)
<1> DEFINE W == Workers \cup {"background"}
<1>1. CASE cmd = "run"
  <2>1. Stages(cmd) = << {"init"}, W >> /\ First = "init"
    BY <1>1 DEF Stages, First
  <2>2. b \in W
    BY <2>1
  <2>3. Active(cmd, b) \in { {"worker"}, {"run"} }
    BY <2>2, WorkersAssumption DEF Active
  <2>4. Active(cmd, First) = {"init", "run", "worker"}
    BY <2>1, WorkersAssumption DEF Active
  <2> QED BY <2>3, <2>4 DEF Has
<1>2. CASE cmd # "run"
  <2>1. Stages(cmd) = << {"main"} >> => FALSE
    OBVIOUS
  <2>2. cmd = "all" /\ First = "main"
    BY <1>2, <2>1 DEF Stages, First
  <2>3. Active(cmd, First) = {"all"} \cap AllSections
    BY <2>2, WorkersAssumption DEF Active
  <2>4. Active(cmd, First) = {}
    BY <2>3 DEF AllSections
  <2> QED BY <2>4 DEF Has
<1> QED BY <1>1, <1>2

(* Builders change nothing of the command and of what was decoded.         *)
Moves(b) ==
  /\ UNCHANGED <<command, loaded, stage, outcome>>
  /\ \A c \in Builders \ {b} : step'[c] = step[c] /\ global'[c] = global[c] /\ env'[c] = env[c]

LEMMA Unmoved ==
  ASSUME UNCHANGED <<command, loaded>>
  PROVE  /\ cmd' = cmd /\ document' = document /\ loaded' = loaded
         /\ First' = First /\ Stages(cmd)' = Stages(cmd)
         /\ UsesRows(loaded)' <=> UsesRows(loaded)
         /\ \A b : Active(cmd, b)' = Active(cmd, b)
<1>1. cmd' = cmd /\ document' = document /\ loaded' = loaded
  BY DEF command
<1>2. First' = First /\ Stages(cmd)' = Stages(cmd)
  BY <1>1 DEF First, Stages
<1>3. UsesRows(loaded)' <=> UsesRows(loaded)
  BY <1>1
<1>4. \A b : Active(cmd, b)' = Active(cmd, b)
  BY <1>1
<1> QED BY <1>1, <1>2, <1>3, <1>4

LEMMA Building ==
  ASSUME ConfigInv, NEW b, NEW s, At(b, s)
  PROVE  /\ LoadedInv /\ outcome = "building" /\ b \in Builders /\ b \in Stages(cmd)[stage] /\ step[b] = s
         /\ WellFormed(loaded)
         /\ b # First => stage > 1 /\ step[First] = "built"
         /\ b = First => stage = 1 /\ \A c \in Builders \ {b} : step[c] = "idle"
         /\ \A f \in Fields \ (AllSections \cup {"globals"}) : request[f] = loaded[f]
         /\ ~UsesRows(loaded) => request = WithGlobals(loaded, request.globals) /\ Alike(request, loaded)
<1>1. outcome = "building" /\ b \in Stages(cmd)[stage] /\ step[b] = s
  BY DEF At
<1>2. LoadedInv
  BY <1>1 DEF ConfigInv, NotLoaded
<1>3. Shapes /\ cmd \in Commands /\ stage \in DOMAIN Stages(cmd) /\ stage \in Nat /\ stage >= 1 /\ 1 \in DOMAIN Stages(cmd)
  BY TheStages DEF ConfigInv, Shapes
<1>4. b \in Builders
  BY <1>1, <1>3, TheStages
<1>5. WellFormed(loaded)
  BY <1>2, <1>3, Decoded DEF LoadedInv, RequestLike, Shapes
<1>6. b # First => stage > 1 /\ step[First] = "built"
  BY <1>1, <1>2, <1>3, TheStages DEF LoadedInv, InStages
<1>7. b = First => stage = 1 /\ \A c \in Builders \ {b} : step[c] = "idle"
  <2>1. b = First => stage = 1
    BY <1>1, <1>3, TheStages
  <2>2. \A c \in Builders : step[c] # "idle" => \E j \in 1 .. stage : c \in Stages(cmd)[j]
    BY <1>2 DEF LoadedInv, InStages
  <2>3. ASSUME stage = 1, NEW c \in Builders, step[c] # "idle"
        PROVE  c = First
    BY <1>3, <2>2, <2>3, TheStages
  <2> QED BY <2>1, <2>3
<1>8. ASSUME NEW f \in Fields \ (AllSections \cup {"globals"})
      PROVE  request[f] = loaded[f]
  <2>1. WithGlobals(loaded, request.globals)[f] = loaded[f]
    <3>1. Fields \subseteq DOMAIN loaded
      BY <1>5 DEF WellFormed
    <3> QED BY <3>1, Kept
  <2>2. WithGlobals(Expand(loaded), request.globals)[f] = loaded[f]
    BY <1>5, ExpandedFields, Kept
  <2> QED BY <1>2, <2>1, <2>2 DEF LoadedInv, RequestLike
<1>9. ASSUME ~UsesRows(loaded)
      PROVE  request = WithGlobals(loaded, request.globals) /\ Alike(request, loaded)
  <2>1. request = WithGlobals(loaded, request.globals)
    BY <1>2, <1>5, <1>9, NoRowsToExpand DEF LoadedInv, RequestLike
  <2>2. \A f \in Fields \ {"globals"} : request[f] = loaded[f]
    <3>1. Fields \subseteq DOMAIN loaded
      BY <1>5 DEF WellFormed
    <3> QED BY <2>1, <3>1, Kept
  <2> QED BY <1>2, <2>1, <2>2 DEF Alike, LoadedInv, RequestLike
<1> QED BY <1>1, <1>2, <1>4, <1>5, <1>6, <1>7, <1>8, <1>9

-----------------------------------------------------------------------------
(* What a builder's step leaves as it was *)

LEMMA InStagesKept ==
  ASSUME ConfigInv, NEW b, NEW s, At(b, s), Moves(b), step'[b] \in {"idle", "globals"} => global'[b] = 1
  PROVE  InStages'
<1>1. /\ InStages /\ b \in Builders /\ b \in Stages(cmd)[stage] /\ stage \in Nat /\ stage >= 1
      /\ b # First => step[First] = "built"
      /\ b = First => stage = 1
  BY Building, TheStages DEF LoadedInv, ConfigInv, Shapes
<1>2. /\ stage' = stage /\ cmd' = cmd /\ Stages(cmd)' = Stages(cmd) /\ First' = First
      /\ \A c \in Builders \ {b} : step'[c] = step[c] /\ global'[c] = global[c]
  BY Unmoved DEF Moves
<1>3. ASSUME NEW c \in Builders, step'[c] # "idle"
      PROVE  \E j \in 1 .. stage : c \in Stages(cmd)[j]
  BY <1>1, <1>2, <1>3 DEF InStages
<1>4. First \in Builders
  BY TheStages DEF ConfigInv, Shapes
<1>5. stage > 1 => step'[First] = "built"
  BY <1>1, <1>2, <1>4
<1>6. ASSUME NEW c \in Builders, step'[c] \in {"idle", "globals"}
      PROVE  global'[c] = 1
  BY <1>1, <1>2, <1>6 DEF InStages
<1> QED BY <1>2, <1>3, <1>5, <1>6 DEF InStages

LEMMA RequestKept ==
  ASSUME ConfigInv, NEW b, NEW s, At(b, s), Moves(b), request' = request,
         step'[b] \notin {"queries", "built"}
  PROVE  RequestLike' /\ RowsExpanded'
<1>1. RequestLike /\ RowsExpanded
  BY Building DEF LoadedInv
<1>2. loaded' = loaded /\ document' = document
      /\ \A c \in Builders \ {b} : step'[c] = step[c] /\ env'[c] = env[c]
  BY Unmoved DEF Moves
<1>3. RequestLike'
  BY <1>1, <1>2 DEF RequestLike
<1>4. RowsExpanded'
  BY <1>1, <1>2 DEF RowsExpanded
<1> QED BY <1>3, <1>4

LEMMA GlobalsKept ==
  ASSUME ConfigInv, NEW b, NEW s, At(b, s), Moves(b), request'.globals = request.globals, GlobalsInv,
         DOMAIN request.globals = DOMAIN loaded.globals,
         step'[b] \in Knows => \/ env'[b].globals = request.globals
                              \/ (b # First /\ step[b] \in Knows /\ env'[b].globals = env[b].globals),
         b = First =>
           /\ step'[b] \in {"idle", "globals", "global"} => request.globals = loaded.globals
           /\ step'[b] = "global" => global'[b] = 1
           /\ step'[b] \in Evaluated => \A n \in DOMAIN loaded.globals : Settles(loaded, request.globals, n)
  PROVE  GlobalsInv'
<1>1. /\ b \in Builders /\ First \in Builders
      /\ b # First => stage > 1 /\ step[First] = "built"
      /\ b = First => stage = 1 /\ \A c \in Builders \ {b} : step[c] = "idle"
  BY Building, TheStages DEF ConfigInv, Shapes
<1>2. loaded' = loaded /\ First' = First /\ stage' = stage /\ Builders' = Builders
      /\ \A c \in Builders \ {b} : step'[c] = step[c] /\ env'[c] = env[c] /\ global'[c] = global[c]
  BY Unmoved DEF Moves
<1>3. \A c \in Builders : step'[c] \in Knows => DOMAIN env'[c].globals = DOMAIN loaded.globals
  BY <1>2 DEF GlobalsInv
<1>4. CASE b = First
  <2>1. Len(loaded.order) \in Nat /\ DOMAIN loaded.order = 1 .. Len(loaded.order)
    BY Building DEF WellFormed
  <2>2. step'[First] \in {"idle", "globals"} => request'.globals = loaded.globals
    BY <1>4
  <2>3. step'[First] \in Knows => env'[First].globals = request.globals
    BY <1>4
  <2>4. "global" \in Knows /\ Evaluated \subseteq Knows /\ "idle" \notin Knows
    BY DEF Knows, Evaluated
  <2>5. step'[First] \in Evaluated => \A n \in DOMAIN loaded.globals : Settles(loaded, env'[First].globals, n)
    BY <1>4, <2>3, <2>4
  <2>6. step'[First] = "global" =>
          /\ global'[First] <= Len(loaded.order) + 1
          /\ \A k \in DOMAIN loaded.order :
               IF k < global'[First] THEN Settles(loaded, env'[First].globals, loaded.order[k])
               ELSE env'[First].globals[loaded.order[k]] = loaded.globals[loaded.order[k]]
    BY <1>4, <2>1, <2>3, <2>4
  <2>7. \A c \in Builders : step'[c] \in Knows => c = First
    BY <1>1, <1>2, <1>4, <2>4
  <2> QED BY <1>2, <1>3, <2>2, <2>3, <2>5, <2>6, <2>7 DEF GlobalsInv
<1>5. CASE b # First
  <2>1. step'[First] = step[First] /\ global'[First] = global[First] /\ env'[First] = env[First]
    BY <1>1, <1>2, <1>5
  <2>2. step[First] = "built" /\ "built" \in Knows /\ ~(stage = 1)
    BY <1>1, <1>5, TheStages DEF Knows, ConfigInv, Shapes
  <2>3. ASSUME NEW n \in DOMAIN loaded.globals, Final(env[First].globals[n])
        PROVE  /\ request.globals[n] = env[First].globals[n]
               /\ \A c \in Builders : step[c] \in Knows => env[c].globals[n] = env[First].globals[n]
    BY <2>2, <2>3 DEF GlobalsInv
  <2>4. ASSUME NEW n \in DOMAIN loaded.globals, Final(env[First].globals[n]), NEW c \in Builders, step'[c] \in Knows
        PROVE  env'[c].globals[n] = env[First].globals[n]
    BY <1>1, <1>2, <2>3, <2>4
  <2> QED BY <1>2, <1>3, <2>1, <2>2, <2>3, <2>4 DEF GlobalsInv
<1> QED BY <1>4, <1>5

LEMMA FirstKnows ==
  ASSUME ConfigInv, NEW b, NEW s, At(b, s)
  PROVE  /\ GlobalsInv /\ DOMAIN request.globals = DOMAIN loaded.globals
         /\ b = First /\ s \in Knows => env[b].globals = request.globals
         /\ b = First /\ s \in {"idle", "globals"} => request.globals = loaded.globals
         /\ b = First /\ s \in Evaluated =>
              \A n \in DOMAIN loaded.globals : Settles(loaded, request.globals, n)
<1>1. GlobalsInv /\ DOMAIN request.globals = DOMAIN loaded.globals /\ step[b] = s /\ (b = First => stage = 1)
  BY Building DEF LoadedInv, RequestLike
<1>2. b = First /\ s \in Knows => env[b].globals = request.globals
  BY <1>1 DEF GlobalsInv
<1>3. Evaluated \subseteq Knows
  BY DEF Evaluated
<1> QED BY <1>1, <1>2, <1>3 DEF GlobalsInv

LEMMA AcceptedKept ==
  ASSUME ConfigInv, NEW b, NEW s, At(b, s), Moves(b), AcceptedInv, Accepted(b)'
  PROVE  AcceptedInv'
<1>1. loaded' = loaded /\ cmd' = cmd /\ First' = First /\ Builders' = Builders
      /\ \A c \in Builders \ {b} : step'[c] = step[c] /\ env'[c] = env[c]
  BY Unmoved DEF Moves
<1>2. ASSUME NEW c \in Builders \ {b}
      PROVE  Accepted(c)'
  <2>1. Accepted(c)
    BY DEF AcceptedInv
  <2>2. step[c] = "failed" => First # b
    BY Building
  <2>3. step[c] = "failed" /\ SomeAgain => SomeAgain'
    BY <1>1, <2>2, TheStages DEF SomeAgain, ConfigInv, Shapes
  <2> QED BY <1>1, <2>1, <2>3 DEF Accepted
<1>4. \A c \in Builders : c = b \/ c \in Builders \ {b}
  OBVIOUS
<1> QED BY <1>2, <1>4 DEF AcceptedInv

LEMMA StillInv ==
  ASSUME ConfigInv, NEW b, NEW s, At(b, s), Moves(b), Shapes', RequestLike', InStages', RowsExpanded',
         GlobalsInv', ~UsesRows(loaded) => AcceptedInv'
  PROVE  ConfigInv'
<1>1. LoadedInv /\ outcome' = outcome /\ loaded' = loaded
  BY Building, Unmoved DEF Moves
<1> QED BY <1>1 DEF ConfigInv, LoadedInv

Record(e) == e = [globals |-> e.globals, args |-> e.args, names |-> e.names]

LEMMA ShapesKept ==
  ASSUME ConfigInv, NEW b, NEW s, At(b, s), Moves(b),
         step' = step \/ \E t \in Steps : step' = [step EXCEPT ![b] = t],
         global' = global \/ global' = [global EXCEPT ![b] = @ + 1],
         env' = env \/ \E e : Record(e) /\ env' = [env EXCEPT ![b] = e]
  PROVE  Shapes'
<1>1. Shapes /\ b \in Builders
  BY Building DEF ConfigInv
<1>2. /\ cmd' = cmd /\ stage' = stage /\ document' = document /\ Stages(cmd)' = Stages(cmd) /\ Builders' = Builders
  BY Unmoved DEF Moves
<1>3. step' \in [Builders -> Steps]
  BY <1>1 DEF Shapes
<1>4. global' \in [Builders -> Nat \ {0}]
  BY <1>1 DEF Shapes
<1>5. DOMAIN env = Builders /\ \A c \in Builders : Record(env[c])
  BY <1>1 DEF Shapes, Record
<1>6. env' = [c \in Builders |-> env'[c]] /\ \A c \in Builders : Record(env'[c])
  <2>1. CASE env' = env
    BY <1>1, <1>5, <2>1 DEF Shapes
  <2>2. ASSUME NEW e, Record(e), env' = [env EXCEPT ![b] = e]
        PROVE  env' = [c \in Builders |-> env'[c]] /\ \A c \in Builders : Record(env'[c])
    <3>1. env' = [c \in Builders |-> IF c = b THEN e ELSE env[c]]
      BY <1>5, <2>2
    <3> QED BY <1>5, <2>2, <3>1
  <2> QED BY <2>1, <2>2
<1>7. env' = [c \in Builders |-> [globals |-> env'[c].globals, args |-> env'[c].args, names |-> env'[c].names]]
  <2>1. \A c \in Builders : env'[c] = [globals |-> env'[c].globals, args |-> env'[c].args, names |-> env'[c].names]
    BY <1>6 DEF Record
  <2> QED BY <1>6, <2>1
<1> QED BY <1>1, <1>2, <1>3, <1>4, <1>7 DEF Shapes

LEMMA EnvParts ==
  ASSUME Shapes, NEW b \in Builders, NEW x
  PROVE  /\ [env[b] EXCEPT !.globals = x] = [globals |-> x, args |-> env[b].args, names |-> env[b].names]
         /\ [env[b] EXCEPT !.args = x] = [globals |-> env[b].globals, args |-> x, names |-> env[b].names]
         /\ [env[b] EXCEPT !.names = x] = [globals |-> env[b].globals, args |-> env[b].args, names |-> x]
         /\ DOMAIN env = Builders
<1> DEFINE e == env[b]
<1>1. e = [globals |-> e.globals, args |-> e.args, names |-> e.names] /\ DOMAIN env = Builders
  BY DEF Shapes
<1> HIDE DEF e
<1>2. DOMAIN e = {"globals", "args", "names"}
  BY <1>1
<1>3. /\ [e EXCEPT !.globals = x] = [globals |-> x, args |-> e.args, names |-> e.names]
      /\ [e EXCEPT !.args = x] = [globals |-> e.globals, args |-> x, names |-> e.names]
      /\ [e EXCEPT !.names = x] = [globals |-> e.globals, args |-> e.args, names |-> x]
  BY <1>1
<1> QED BY <1>1, <1>3 DEF e

-----------------------------------------------------------------------------
(* The steps of NewEnv *)

LEMMA FirstAccepted ==
  ASSUME ConfigInv, NEW b, NEW s, At(b, s), b # First, AcceptedInv
  PROVE  /\ Valid(loaded, Active(cmd, b)) /\ DOMAIN loaded.globals \cap Builtins = {}
         /\ loaded.references \cap GlobalNames(loaded) = {} /\ Registers(loaded)
         /\ QueriesCompile(loaded, AllNames(loaded))
<1>1. step[First] = "built" /\ stage > 1 /\ b \in Stages(cmd)[stage] /\ First \in Builders
      /\ cmd \in Commands /\ stage \in DOMAIN Stages(cmd)
  BY Building, TheStages DEF ConfigInv, Shapes
<1>2. Accepted(First)
  BY <1>1 DEF AcceptedInv
<1>3. Valid(loaded, Active(cmd, First))
  BY <1>1, <1>2 DEF Accepted, Knows
<1>4. \A t : Has(Active(cmd, b), t) => Has(Active(cmd, First), t)
  BY <1>1, FirstIsStrictest
<1>5. Valid(loaded, Active(cmd, b))
  BY <1>3, <1>4, FewerSections
<1> QED BY <1>1, <1>2, <1>5 DEF Accepted, Knows, Evaluated, Registered

LEMMA ValidateStep ==
  ASSUME ConfigInv, NEW b \in Builders, Validate(b)
  PROVE  ConfigInv'
<1>1. At(b, "idle") /\ Shapes /\ LoadedInv /\ step[b] = "idle"
  BY Building DEF Validate, ConfigInv
<1>2. PICK t \in {"globals", "failed"} : step' = [step EXCEPT ![b] = t]
  BY DEF Validate, Go, Refuse
<1>3. step'[b] = t /\ \A c \in Builders \ {b} : step'[c] = step[c]
  BY <1>1, <1>2 DEF Shapes
<1>4. Moves(b) /\ request' = request /\ global' = global /\ env' = env
  BY <1>3 DEF Validate, Moves
<1>5. Shapes'
  BY <1>1, <1>2, <1>4, ShapesKept DEF Steps
<1>6. InStages'
  BY <1>1, <1>4, InStagesKept DEF LoadedInv, InStages
<1>7. RequestLike' /\ RowsExpanded'
  BY <1>1, <1>3, <1>4, RequestKept
<1>8. GlobalsInv'
  <2>1. t \notin Knows /\ t \notin Evaluated
    BY DEF Knows, Evaluated
  <2> QED BY <1>1, <1>3, <1>4, <2>1, FirstKnows, GlobalsKept
<1>9. ASSUME ~UsesRows(loaded)
      PROVE  AcceptedInv'
  <2>1. AcceptedInv
    BY <1>1, <1>9 DEF LoadedInv
  <2>2. t = "globals" <=> Valid(loaded, Active(cmd, b))
    <3>1. Valid(request, Active(cmd, b)) <=> Valid(loaded, Active(cmd, b))
      BY <1>1, <1>9, Building, SameValid
    <3>2. t = "globals" <=> Valid(request, Active(cmd, b))
      <4>1. step' = [step EXCEPT ![b] = IF Valid(request, Active(cmd, b)) THEN "globals" ELSE "failed"]
        BY DEF Validate, Go, Refuse
      <4>2. step'[b] = IF Valid(request, Active(cmd, b)) THEN "globals" ELSE "failed"
        BY <1>1, <4>1 DEF Shapes
      <4> QED BY <1>3, <4>2
    <3> QED BY <3>1, <3>2
  <2>3. t = "failed" => b = First
    BY <1>1, <2>1, <2>2, FirstAccepted
  <2>4. t \notin Knows /\ t \notin Evaluated /\ t \notin Registered /\ t # "built"
    BY DEF Knows, Evaluated, Registered
  <2>5. Accepted(b)'
    BY <1>3, <1>4, <2>2, <2>3, <2>4, Unmoved DEF Accepted, Moves
  <2> QED BY <1>1, <1>4, <2>1, <2>5, AcceptedKept
<1> QED BY <1>1, <1>4, <1>5, <1>6, <1>7, <1>8, <1>9, StillInv

LEMMA RefusedStep ==
  ASSUME ConfigInv, NEW b, NEW s, At(b, s), Refuse(b),
         UNCHANGED <<command, loaded, stage, outcome, request, env>>,
         global' = global \/ global' = [global EXCEPT ![b] = @ + 1],
         ~UsesRows(loaded) => b = First \/ SomeAgain
  PROVE  ConfigInv'
<1>1. Shapes /\ LoadedInv /\ b \in Builders
  BY Building DEF ConfigInv
<1>2. step' = [step EXCEPT ![b] = "failed"]
  BY DEF Go, Refuse
<1>3. step'[b] = "failed" /\ \A c \in Builders \ {b} : step'[c] = step[c] /\ global'[c] = global[c]
  BY <1>1, <1>2 DEF Shapes
<1>4. Moves(b)
  BY <1>3 DEF Moves
<1>5. Shapes'
  BY <1>2, <1>4, ShapesKept DEF Steps
<1>6. InStages'
  BY <1>3, <1>4, InStagesKept
<1>7. RequestLike' /\ RowsExpanded'
  BY <1>3, <1>4, RequestKept
<1>8. "failed" \notin Knows /\ "failed" \notin Evaluated /\ "failed" \notin Registered
  BY DEF Knows, Evaluated, Registered
<1>9. GlobalsInv'
  BY <1>1, <1>3, <1>4, <1>8, FirstKnows, GlobalsKept
<1>10. ASSUME ~UsesRows(loaded)
       PROVE  AcceptedInv'
  <2>1. AcceptedInv
    BY <1>1, <1>10 DEF LoadedInv
  <2>2. Accepted(b)'
    BY <1>3, <1>4, <1>8, <1>10, Unmoved DEF Accepted, Moves, SomeAgain
  <2> QED BY <1>4, <2>1, <2>2, AcceptedKept
<1> QED BY <1>4, <1>5, <1>6, <1>7, <1>9, <1>10, StillInv

LEMMA CopyGlobalsStep ==
  ASSUME ConfigInv, NEW b \in Builders, CopyGlobals(b)
  PROVE  ConfigInv'
<1>1. At(b, "globals") /\ Shapes /\ LoadedInv /\ step[b] = "globals" /\ global[b] = 1
      /\ DOMAIN request.globals = DOMAIN loaded.globals
  BY Building DEF CopyGlobals, ConfigInv, LoadedInv, InStages, RequestLike
<1>2. UNCHANGED <<command, loaded, stage, outcome, request>> /\ global' = global
  BY DEF CopyGlobals
<1>3. CASE DOMAIN request.globals \cap Builtins # {}
  <2>1. Refuse(b) /\ env' = env
    BY <1>3 DEF CopyGlobals
  <2>2. ASSUME ~UsesRows(loaded)
        PROVE  b = First
    BY <1>1, <1>3, <2>2, FirstAccepted DEF LoadedInv
  <2> QED BY <1>1, <1>2, <2>1, <2>2, RefusedStep
<1>4. CASE DOMAIN request.globals \cap Builtins = {}
  <2> DEFINE e == [globals |-> request.globals, args |-> <<>>, names |-> Builtins \cup DOMAIN request.globals]
  <2>1. step' = [step EXCEPT ![b] = "global"] /\ env' = [env EXCEPT ![b] = e]
    BY <1>4 DEF CopyGlobals, Go
  <2>2. step'[b] = "global" /\ env'[b] = e
        /\ \A c \in Builders \ {b} : step'[c] = step[c] /\ env'[c] = env[c]
    BY <1>1, <2>1, EnvParts DEF Shapes
  <2>3. Moves(b)
    BY <1>2, <2>2 DEF Moves
  <2>4. Record(e) /\ e.globals = request.globals /\ e.names = GlobalNames(loaded)
    BY <1>1 DEF Record, GlobalNames
  <2> HIDE DEF e
  <2>5. Shapes'
    BY <1>1, <1>2, <2>1, <2>3, <2>4, ShapesKept DEF Steps, Knows
  <2>6. InStages'
    BY <1>1, <2>2, <2>3, InStagesKept
  <2>7. RequestLike' /\ RowsExpanded'
    BY <1>1, <1>2, <2>2, <2>3, RequestKept
  <2>8. "global" \in Knows /\ "global" \notin Evaluated /\ "global" \notin Registered
    BY DEF Knows, Evaluated, Registered
  <2>9. GlobalsInv'
    <3>1. GlobalsInv /\ (b = First => request.globals = loaded.globals)
      BY <1>1, FirstKnows
    <3>2. env'[b].globals = request.globals /\ global'[b] = 1 /\ request'.globals = request.globals
      BY <1>1, <1>2, <2>2, <2>4
    <3> QED BY <1>1, <2>2, <2>3, <2>8, <3>1, <3>2, GlobalsKept
  <2>10. ASSUME ~UsesRows(loaded)
         PROVE  AcceptedInv'
    <3>1. AcceptedInv
      BY <1>1, <2>10 DEF LoadedInv
    <3>2. Accepted(b)
      BY <3>1 DEF AcceptedInv
    <3>3. Accepted(b)'
      BY <1>1, <1>2, <1>4, <2>2, <2>4, <2>8, <3>2, Unmoved DEF Accepted
    <3> QED BY <1>1, <2>3, <3>1, <3>3, AcceptedKept
  <2> QED BY <1>1, <2>3, <2>5, <2>6, <2>7, <2>9, <2>10, StillInv
<1> QED BY <1>3, <1>4

LEMMA LoadReferencesStep ==
  ASSUME ConfigInv, NEW b \in Builders, LoadReferences(b)
  PROVE  ConfigInv'
<1>1. At(b, "global") /\ Shapes /\ LoadedInv /\ step[b] = "global" /\ global[b] > Len(request.order)
      /\ global[b] \in Nat
  BY Building DEF LoadReferences, ConfigInv, Shapes
<1>2. UNCHANGED <<command, loaded, stage, outcome, request>> /\ global' = global
  BY DEF LoadReferences
<1>3. request.order = loaded.order /\ request.references = loaded.references /\ WellFormed(loaded)
  BY <1>1, Building, FieldNames
<1>4. CASE request.references \cap env[b].names # {}
  <2>1. Refuse(b) /\ env' = env
    BY <1>4 DEF LoadReferences
  <2>2. ASSUME ~UsesRows(loaded)
        PROVE  b = First
    <3>1. AcceptedInv /\ Accepted(b)
      BY <1>1, <2>2 DEF LoadedInv, AcceptedInv
    <3>2. env[b].names = GlobalNames(loaded)
      BY <1>1, <3>1 DEF Accepted
    <3> QED BY <1>1, <1>3, <1>4, <3>1, <3>2, FirstAccepted
  <2> QED BY <1>1, <1>2, <2>1, <2>2, RefusedStep
<1>5. CASE request.references \cap env[b].names = {}
  <2> DEFINE e == [env[b] EXCEPT !.names = @ \cup request.references]
  <2>1. step' = [step EXCEPT ![b] = "expressions"] /\ env' = [env EXCEPT ![b] = e]
    BY <1>5 DEF LoadReferences, Go
  <2>2. e = [globals |-> env[b].globals, args |-> env[b].args, names |-> env[b].names \cup request.references]
    BY <1>1, EnvParts
  <2> HIDE DEF e
  <2>3. step'[b] = "expressions" /\ env'[b] = e
        /\ \A c \in Builders \ {b} : step'[c] = step[c] /\ env'[c] = env[c]
    BY <1>1, <2>1, EnvParts DEF Shapes
  <2>4. Moves(b)
    BY <1>2, <2>3 DEF Moves
  <2>5. Record(e) /\ e.globals = env[b].globals /\ e.names = env[b].names \cup request.references
    BY <2>2 DEF Record
  <2>6. Shapes'
    BY <1>1, <1>2, <2>1, <2>4, <2>5, ShapesKept DEF Steps, Knows
  <2>7. InStages'
    BY <1>1, <2>3, <2>4, InStagesKept
  <2>8. RequestLike' /\ RowsExpanded'
    BY <1>1, <1>2, <2>3, <2>4, RequestKept
  <2>9. "expressions" \in Knows /\ "expressions" \in Evaluated /\ "expressions" \notin Registered
        /\ "global" \in Knows
    BY DEF Knows, Evaluated, Registered
  <2>10. GlobalsInv'
    <3>1. GlobalsInv
      BY <1>1 DEF LoadedInv
    <3>2. env'[b].globals = env[b].globals
      BY <2>3, <2>5
    <3>3. ASSUME b = First, NEW n \in DOMAIN loaded.globals
          PROVE  Settles(loaded, request.globals, n)
      <4>1. PICK k \in DOMAIN loaded.order : loaded.order[k] = n
        BY <1>3 DEF WellFormed, ToSet
      <4>2. k < global[First]
        BY <1>1, <1>3, <3>3, <4>1 DEF WellFormed
      <4>3. Settles(loaded, env[First].globals, n)
        BY <1>1, <3>1, <3>3, <4>1, <4>2 DEF GlobalsInv
      <4> QED BY <1>1, <2>9, <3>3, <4>3, FirstKnows
    <3> QED BY <1>1, <1>2, <2>3, <2>4, <2>9, <3>1, <3>2, <3>3, FirstKnows, GlobalsKept
  <2>11. ASSUME ~UsesRows(loaded)
         PROVE  AcceptedInv'
    <3>1. AcceptedInv
      BY <1>1, <2>11 DEF LoadedInv
    <3>2. Accepted(b)
      BY <3>1 DEF AcceptedInv
    <3>3. env[b].names = GlobalNames(loaded) /\ e.names = ReferenceNames(loaded)
      BY <1>1, <1>3, <2>5, <3>2 DEF Accepted, ReferenceNames
    <3>4. Accepted(b)'
      BY <1>1, <1>2, <1>3, <1>5, <2>3, <2>9, <3>2, <3>3, Unmoved DEF Accepted
    <3> QED BY <1>1, <2>4, <3>1, <3>4, AcceptedKept
  <2> QED BY <1>1, <2>4, <2>6, <2>7, <2>8, <2>10, <2>11, StillInv
<1> QED BY <1>4, <1>5

LEMMA RegisterExpressionsStep ==
  ASSUME ConfigInv, NEW b \in Builders, RegisterExpressions(b)
  PROVE  ConfigInv'
<1> DEFINE names == env[b].names \cup DOMAIN request.expressions
           Bad == \/ DOMAIN request.expressions \cap env[b].names # {}
                  \/ \E e \in Values(request.expressions) : ~Compiles(e, names \cup {"args"})
<1>1. At(b, "expressions") /\ Shapes /\ LoadedInv /\ step[b] = "expressions"
  BY Building DEF RegisterExpressions, ConfigInv
<1>2. UNCHANGED <<command, loaded, stage, outcome, request>> /\ global' = global
  BY DEF RegisterExpressions
<1>3. request.expressions = loaded.expressions
  BY <1>1, Building, FieldNames
<1>4. \/ Bad /\ Refuse(b) /\ env' = env
      \/ ~Bad /\ env' = [env EXCEPT ![b].names = names] /\ Go(b, "rows")
  BY DEF RegisterExpressions
<1>5. ASSUME ~UsesRows(loaded)
      PROVE  /\ AcceptedInv /\ Accepted(b) /\ names = AllNames(loaded)
             /\ ~Bad <=> Registers(loaded)
  <2>1. AcceptedInv /\ Accepted(b)
    BY <1>1, <1>5 DEF LoadedInv, AcceptedInv
  <2>2. env[b].names = ReferenceNames(loaded)
    BY <1>1, <2>1 DEF Accepted
  <2> QED BY <1>3, <2>1, <2>2 DEF AllNames, Registers
<1> HIDE DEF Bad, names
<1>6. CASE Bad /\ Refuse(b) /\ env' = env
  <2>1. ASSUME ~UsesRows(loaded)
        PROVE  b = First
    BY <1>1, <1>5, <1>6, <2>1, FirstAccepted
  <2> QED BY <1>1, <1>2, <1>6, <2>1, RefusedStep
<1>7. CASE ~Bad /\ env' = [env EXCEPT ![b].names = names] /\ Go(b, "rows")
  <2> DEFINE e == [env[b] EXCEPT !.names = names]
  <2>1. step' = [step EXCEPT ![b] = "rows"] /\ env' = [env EXCEPT ![b] = e]
    BY <1>7 DEF Go
  <2>2. e = [globals |-> env[b].globals, args |-> env[b].args, names |-> names]
    BY <1>1, EnvParts
  <2> HIDE DEF e
  <2>3. step'[b] = "rows" /\ env'[b] = e
        /\ \A c \in Builders \ {b} : step'[c] = step[c] /\ env'[c] = env[c]
    BY <1>1, <2>1, EnvParts DEF Shapes
  <2>4. Moves(b)
    BY <1>2, <2>3 DEF Moves
  <2>5. Record(e) /\ e.globals = env[b].globals /\ e.names = names
    BY <2>2 DEF Record
  <2>6. Shapes'
    BY <1>1, <1>2, <2>1, <2>4, <2>5, ShapesKept DEF Steps, Knows
  <2>7. InStages'
    BY <1>1, <2>3, <2>4, InStagesKept
  <2>8. RequestLike' /\ RowsExpanded'
    BY <1>1, <1>2, <2>3, <2>4, RequestKept
  <2>9. /\ "rows" \in Knows /\ "rows" \in Evaluated /\ "rows" \in Registered
        /\ "expressions" \in Knows /\ "expressions" \in Evaluated
    BY DEF Knows, Evaluated, Registered
  <2>10. GlobalsInv'
    <3>1. env'[b].globals = env[b].globals
      BY <2>3, <2>5
    <3> QED BY <1>1, <1>2, <2>3, <2>4, <2>9, <3>1, FirstKnows, GlobalsKept
  <2>11. ASSUME ~UsesRows(loaded)
         PROVE  AcceptedInv'
    <3>1. AcceptedInv /\ Accepted(b) /\ names = AllNames(loaded) /\ Registers(loaded)
      BY <1>5, <1>7, <2>11
    <3>2. Accepted(b)'
      BY <1>1, <1>2, <2>3, <2>5, <2>9, <3>1, Unmoved DEF Accepted
    <3> QED BY <1>1, <2>4, <3>1, <3>2, AcceptedKept
  <2> QED BY <1>1, <2>4, <2>6, <2>7, <2>8, <2>10, <2>11, StillInv
<1> QED BY <1>4, <1>6, <1>7

LEMMA ExpandRowsStep ==
  ASSUME ConfigInv, NEW b \in Builders, ExpandRows(b)
  PROVE  ConfigInv'
<1>1. /\ At(b, "rows") /\ Shapes /\ LoadedInv /\ step[b] = "rows" /\ WellFormed(loaded)
      /\ RequestLike /\ RowsExpanded
  BY Building DEF ExpandRows, ConfigInv, LoadedInv
<1>2. UNCHANGED <<command, loaded, stage, outcome, env>> /\ global' = global /\ request' = Expand(request)
      /\ step' = [step EXCEPT ![b] = "queries"]
  BY DEF ExpandRows, Go
<1>3. request' = WithGlobals(Expand(loaded), request.globals)
  <2>1. /\ DOMAIN Expand(loaded) = DOMAIN loaded /\ Fields \subseteq DOMAIN loaded
        /\ Expand(loaded).rows = loaded.rows
    BY <1>1, ExpandedFields DEF WellFormed
  <2>2. \A f \in DOMAIN loaded \ Fields : Expand(loaded)[f] = loaded[f]
    BY FieldNames DEF Expand
  <2>3. ASSUME NEW r \in {loaded, Expand(loaded)}, request = WithGlobals(r, request.globals)
        PROVE  Expand(request) = WithGlobals(Expand(loaded), request.globals)
    <3>1. DOMAIN request = DOMAIN loaded /\ request = [f \in DOMAIN request |-> request[f]]
      BY <2>1, <2>3 DEF WithGlobals
    <3>2. \A f \in Fields \ {"globals"} : request[f] = r[f]
      BY <2>1, <2>3, Kept
    <3>3. request.rows = loaded.rows
      BY <2>1, <3>2, FieldNames
    <3>4. \A f \in DOMAIN loaded \ Fields : request[f] = loaded[f]
      BY <2>1, <2>2, <2>3, FieldNames DEF WithGlobals
    <3> QED BY <1>1, <3>1, <3>2, <3>3, <3>4, ExpandAgain
  <2> QED BY <1>1, <1>2, <2>3 DEF RequestLike
<1>4. request'.globals = request.globals
  BY <1>1, <1>3, ExpandedFields, Kept
<1>5. step'[b] = "queries" /\ \A c \in Builders \ {b} : step'[c] = step[c]
  BY <1>1, <1>2 DEF Shapes
<1>6. Moves(b)
  BY <1>2, <1>5 DEF Moves
<1>7. Shapes'
  BY <1>1, <1>2, <1>6, ShapesKept DEF Steps, Knows
<1>8. InStages'
  BY <1>1, <1>5, <1>6, InStagesKept
<1>9. RequestLike'
  BY <1>1, <1>2, <1>3, <1>4, Unmoved DEF RequestLike
<1>10. RowsExpanded'
  BY <1>1, <1>2, <1>3, <1>4, <1>5, Unmoved DEF RowsExpanded
<1>11. /\ "queries" \in Knows /\ "queries" \in Evaluated /\ "queries" \in Registered
       /\ "rows" \in Knows /\ "rows" \in Evaluated /\ "rows" \in Registered
  BY DEF Knows, Evaluated, Registered
<1>12. GlobalsInv'
  BY <1>1, <1>2, <1>4, <1>5, <1>6, <1>11, FirstKnows, GlobalsKept
<1>13. ASSUME ~UsesRows(loaded)
       PROVE  AcceptedInv'
  <2>1. AcceptedInv /\ Accepted(b)
    BY <1>1, <1>13 DEF LoadedInv, AcceptedInv
  <2>2. Accepted(b)'
    BY <1>1, <1>2, <1>5, <1>11, <2>1, Unmoved DEF Accepted
  <2> QED BY <1>1, <1>6, <2>1, <2>2, AcceptedKept
<1> QED BY <1>1, <1>6, <1>7, <1>8, <1>9, <1>10, <1>12, <1>13, StillInv

LEMMA CompileQueriesStep ==
  ASSUME ConfigInv, NEW b \in Builders, CompileQueries(b)
  PROVE  ConfigInv'
<1>1. /\ At(b, "queries") /\ Shapes /\ LoadedInv /\ step[b] = "queries" /\ WellFormed(loaded)
      /\ RequestLike /\ RowsExpanded
  BY Building DEF CompileQueries, ConfigInv, LoadedInv
<1>2. UNCHANGED <<command, loaded, stage, outcome, request>> /\ global' = global
  BY DEF CompileQueries
<1>3. \/ QueriesCompile(request, env[b].names) /\ env' = [env EXCEPT ![b].args = ArgsOf(request)] /\ Go(b, "built")
      \/ ~QueriesCompile(request, env[b].names) /\ Refuse(b) /\ env' = env
  BY DEF CompileQueries, QueriesCompile
<1>4. ASSUME ~UsesRows(loaded)
      PROVE  /\ AcceptedInv /\ Accepted(b)
             /\ QueriesCompile(request, env[b].names) <=> QueriesCompile(loaded, AllNames(loaded))
  <2>1. AcceptedInv /\ Accepted(b)
    BY <1>1, <1>4 DEF LoadedInv, AcceptedInv
  <2>2. env[b].names = AllNames(loaded)
    BY <1>1, <2>1 DEF Accepted, Registered
  <2>3. Alike(request, loaded)
    BY <1>1, <1>4, Building
  <2>4. Groups(request) = Groups(loaded) /\ request.run = loaded.run
    BY <2>3, SameGroups, FieldNames DEF Alike
  <2> QED BY <2>1, <2>2, <2>4 DEF QueriesCompile
<1>5. CASE ~QueriesCompile(request, env[b].names) /\ Refuse(b) /\ env' = env
  <2>1. ASSUME ~UsesRows(loaded)
        PROVE  b = First
    BY <1>1, <1>4, <1>5, <2>1, FirstAccepted
  <2> QED BY <1>1, <1>2, <1>5, <2>1, RefusedStep
<1>6. CASE QueriesCompile(request, env[b].names) /\ env' = [env EXCEPT ![b].args = ArgsOf(request)] /\ Go(b, "built")
  <2> DEFINE e == [env[b] EXCEPT !.args = ArgsOf(request)]
  <2>1. step' = [step EXCEPT ![b] = "built"] /\ env' = [env EXCEPT ![b] = e]
    BY <1>6 DEF Go
  <2>2. e = [globals |-> env[b].globals, args |-> ArgsOf(request), names |-> env[b].names]
    BY <1>1, EnvParts
  <2> HIDE DEF e
  <2>3. step'[b] = "built" /\ env'[b] = e
        /\ \A c \in Builders \ {b} : step'[c] = step[c] /\ env'[c] = env[c]
    BY <1>1, <2>1, EnvParts DEF Shapes
  <2>4. Moves(b)
    BY <1>2, <2>3 DEF Moves
  <2>5. Record(e) /\ e.globals = env[b].globals /\ e.names = env[b].names /\ e.args = ArgsOf(request)
    BY <2>2 DEF Record
  <2>6. Shapes'
    BY <1>1, <1>2, <2>1, <2>4, <2>5, ShapesKept DEF Steps, Knows
  <2>7. InStages'
    BY <1>1, <2>3, <2>4, InStagesKept
  <2>8. request = WithGlobals(Expand(loaded), request.globals)
    BY <1>1 DEF RowsExpanded
  <2>9. ArgsOf(request) = ArgsOf(Expand(loaded))
    <3>1. Fields \subseteq DOMAIN Expand(loaded)
      BY <1>1, ExpandedFields
    <3>2. \A f \in AllSections : request[f] = Expand(loaded)[f]
      BY <2>8, <3>1, Kept, FieldNames
    <3> QED BY <3>2, SameArgs
  <2>10. RequestLike'
    BY <1>1, <1>2, Unmoved DEF RequestLike
  <2>11. RowsExpanded'
    BY <1>1, <1>2, <2>3, <2>5, <2>8, <2>9, Unmoved DEF RowsExpanded
  <2>12. /\ "queries" \in Knows /\ "queries" \in Evaluated /\ "queries" \in Registered
         /\ "built" \in Knows /\ "built" \in Evaluated /\ "built" \in Registered
    BY DEF Knows, Evaluated, Registered
  <2>13. GlobalsInv'
    <3>1. env'[b].globals = env[b].globals
      BY <2>3, <2>5
    <3> QED BY <1>1, <1>2, <2>3, <2>4, <2>12, <3>1, FirstKnows, GlobalsKept
  <2>14. ASSUME ~UsesRows(loaded)
         PROVE  AcceptedInv'
    <3>1. AcceptedInv /\ Accepted(b) /\ QueriesCompile(loaded, AllNames(loaded))
      BY <1>4, <1>6, <2>14
    <3>2. Accepted(b)'
      BY <1>1, <1>2, <2>3, <2>5, <2>12, <3>1, Unmoved DEF Accepted
    <3> QED BY <1>1, <2>4, <3>1, <3>2, AcceptedKept
  <2> QED BY <1>1, <2>4, <2>6, <2>7, <2>10, <2>11, <2>13, <2>14, StillInv
<1> QED BY <1>3, <1>5, <1>6

(* Another value of a global *)
LEMMA GlobalWritten ==
  ASSUME NEW r, WellFormed(loaded), r \in {loaded, Expand(loaded)}, request = WithGlobals(r, request.globals),
         NEW n, NEW x, request' = [request EXCEPT !.globals[n] = x]
  PROVE  /\ request'.globals = [request.globals EXCEPT ![n] = x]
         /\ request' = WithGlobals(r, request'.globals)
<1> DEFINE g == [request.globals EXCEPT ![n] = x]
<1>1. Fields \subseteq DOMAIN r
  BY ExpandedFields DEF WellFormed
<1>2. "globals" \in DOMAIN request /\ DOMAIN request = DOMAIN r
  BY <1>1, FieldNames, Kept
<1>3. request' = [request EXCEPT !.globals = g]
  OBVIOUS
<1> HIDE DEF g
<1>4. request'.globals = g
  BY <1>2, <1>3
<1>5. request' = [f \in DOMAIN request |-> IF f = "globals" THEN g ELSE request[f]]
  BY <1>2, <1>3
<1>6. request' = WithGlobals(request, g)
  BY <1>5 DEF WithGlobals
<1>7. request' = WithGlobals(r, g)
  BY <1>1, <1>6, KeptTwice
<1> QED BY <1>4, <1>7 DEF g

(* What a string yields is the value it has in the file.                   *)
LEMMA Evaluates ==
  ASSUME NEW r, NEW g, NEW i, WellFormed(r), DOMAIN g = DOMAIN r.globals,
         i \in DOMAIN r.order, NEW h, NEW x,
         \A k \in DOMAIN r.order : k < i => Settles(r, g, r.order[k]),
         \A k \in DOMAIN r.order : k >= i => g[r.order[k]] = r.globals[r.order[k]],
         x = Eval(g[r.order[i]], g), g[r.order[i]].kind # "fails",
         \/ g[r.order[i]].kind \in Text \ {"text"} /\ h = [g EXCEPT ![r.order[i]] = x]
         \/ g[r.order[i]].kind \notin Text \ {"text"} /\ h = g
  PROVE  /\ \A k \in DOMAIN r.order : k <= i => Settles(r, h, r.order[k])
         /\ \A k \in DOMAIN r.order : k > i => h[r.order[k]] = g[r.order[k]]
<1> DEFINE n == r.order[i]
           v == r.globals[n]
<1>1. /\ n \in DOMAIN g /\ DOMAIN r.order = 1 .. Len(r.order) /\ Len(r.order) \in Nat
      /\ \A k, l \in DOMAIN r.order : r.order[k] \in DOMAIN g /\ (r.order[k] = r.order[l] => k = l)
  BY DEF WellFormed, IsInjective, ToSet
<1>2. \A k \in DOMAIN r.order : k # i => h[r.order[k]] = g[r.order[k]]
  BY <1>1
<1>3. \A k, j \in DOMAIN r.order : Precedes(r, r.order[j], r.order[k]) <=> j < k
  BY <1>1 DEF Precedes
<1>4. g[n] = v
  BY <1>1
<1>5. Settles(r, h, n)
  <2>1. CASE v.kind = "ref"
    <3>1. h[n] = g[v.of]
      <4>1. v.kind \in Text \ {"text"} /\ x = g[v.of]
        BY <1>4, <2>1 DEF Text, Eval
      <4> QED BY <1>1, <1>4, <4>1
    <3>2. PICK j \in DOMAIN r.order : r.order[j] = v.of
      <4>1. n \in DOMAIN r.globals /\ v.of \in DOMAIN r.globals
        BY <1>1, <2>1 DEF WellFormed
      <4>2. v.of \in ToSet(r.order)
        BY <4>1 DEF WellFormed
      <4> QED BY <4>2 DEF ToSet
    <3>3. CASE j < i
      <4>1. Value(r, h, n) = h[v.of]
        BY <1>3, <2>1, <3>2, <3>3 DEF Value
      <4> QED BY <1>1, <1>2, <3>1, <3>2, <3>3, <4>1 DEF Settles
    <3>4. CASE ~(j < i)
      <4>1. Value(r, h, n) = r.globals[v.of]
        BY <1>3, <2>1, <3>2, <3>4 DEF Value
      <4>2. g[v.of] = r.globals[v.of]
        BY <1>1, <3>2, <3>4
      <4> QED BY <3>1, <4>1, <4>2 DEF Settles
    <3> QED BY <3>3, <3>4
  <2>2. CASE v.kind \in {"calc", "string"}
    <3>1. v.kind \in Text \ {"text"} /\ v.kind # "ref"
      BY <2>2 DEF Text
    <3>2. h[n] = Eval(v, g)
      BY <1>1, <1>4, <3>1
    <3>3. Eval(v, g) = Eval(v, <<>>)
      BY <2>2 DEF Eval
    <3> QED BY <3>1, <3>2, <3>3 DEF Settles, Value
  <2>3. CASE v.kind \notin {"calc", "string", "ref"}
    <3>1. v.kind \notin Text \ {"text"}
      BY <1>4, <2>3 DEF Text
    <3>2. h[n] = v
      BY <1>4, <3>1
    <3>3. Eval(v, <<>>) = v
      BY <2>3 DEF Eval
    <3> QED BY <2>3, <3>2, <3>3 DEF Settles, Value
  <2> QED BY <2>1, <2>2, <2>3
<1>6. ASSUME NEW k \in DOMAIN r.order, k < i
      PROVE  Settles(r, h, r.order[k])
  <2> DEFINE m == r.order[k]
  <2>1. g[m] = Value(r, g, m) /\ h[m] = g[m] /\ m \in DOMAIN r.globals
    BY <1>1, <1>2, <1>6 DEF Settles
  <2>2. Value(r, h, m) = Value(r, g, m)
    <3>1. CASE r.globals[m].kind = "ref" /\ Precedes(r, r.globals[m].of, m)
      <4>1. PICK j \in DOMAIN r.order : r.order[j] = r.globals[m].of
        BY <3>1 DEF Precedes
      <4>2. j # i
        BY <1>1, <1>3, <1>6, <3>1, <4>1
      <4> QED BY <1>2, <4>1, <4>2 DEF Value
    <3>2. CASE ~(r.globals[m].kind = "ref" /\ Precedes(r, r.globals[m].of, m))
      BY <3>2 DEF Value
    <3> QED BY <3>1, <3>2
  <2> QED BY <2>1, <2>2 DEF Settles
<1> QED BY <1>1, <1>2, <1>5, <1>6

LEMMA LoadGlobalStep ==
  ASSUME ConfigInv, NEW b \in Builders, LoadGlobal(b)
  PROVE  ConfigInv'
<1> DEFINE i == global[b]
           n == request.order[i]
           v == request.globals[n]
           x == Eval(v, env[b].globals)
<1>1. /\ At(b, "global") /\ Shapes /\ LoadedInv /\ step[b] = "global" /\ WellFormed(loaded)
      /\ RequestLike /\ RowsExpanded /\ request.order = loaded.order
      /\ b # First => stage > 1 /\ step[First] = "built"
      /\ b = First => stage = 1 /\ \A c \in Builders \ {b} : step[c] = "idle"
  BY Building, FieldNames DEF LoadGlobal, ConfigInv, LoadedInv
<1>2. /\ UNCHANGED <<command, loaded, stage, outcome>> /\ global' = [global EXCEPT ![b] = @ + 1]
      /\ i <= Len(request.order)
  BY DEF LoadGlobal
<1>3. i \in DOMAIN loaded.order /\ i \in Nat /\ n = loaded.order[i] /\ n \in DOMAIN loaded.globals
  BY <1>1, <1>2 DEF Shapes, WellFormed
<1>4. \/ v.kind = "fails" /\ Refuse(b) /\ request' = request /\ env' = env
      \/ v.kind # "fails" /\ LoadGlobalBy(b, n) /\ step' = step
  BY DEF LoadGlobal
<1>5. /\ GlobalsInv /\ DOMAIN request.globals = DOMAIN loaded.globals /\ "global" \in Knows
      /\ DOMAIN env[b].globals = DOMAIN loaded.globals
      /\ b = First => env[b].globals = request.globals
      /\ b # First => \A m \in DOMAIN loaded.globals : Final(env[First].globals[m]) =>
           /\ request.globals[m] = env[First].globals[m]
           /\ \A c \in Builders : step[c] \in Knows => env[c].globals[m] = env[First].globals[m]
  <2>1. "global" \in Knows /\ "built" \in Knows
    BY DEF Knows
  <2>2. /\ GlobalsInv /\ DOMAIN request.globals = DOMAIN loaded.globals
        /\ b = First => env[b].globals = request.globals
    BY <1>1, <2>1, FirstKnows
  <2> QED BY <1>1, <2>1, <2>2 DEF GlobalsInv
<1>6. CASE v.kind = "fails" /\ Refuse(b) /\ request' = request /\ env' = env
  <2>1. ASSUME b # First
        PROVE  SomeAgain
    <3>1. ~Final(v)
      BY <1>6 DEF Final, Text
    <3>2. ~Final(env[First].globals[n])
      BY <1>3, <1>5, <2>1, <3>1
    <3>3. First \in Builders /\ step[First] = "built" /\ "built" \in Knows
      BY <1>1, <2>1, TheStages DEF Shapes, Knows
    <3>4. DOMAIN env[First].globals = DOMAIN loaded.globals
      BY <1>5, <3>3 DEF GlobalsInv
    <3> QED BY <1>3, <3>2, <3>4 DEF SomeAgain
  <2> QED BY <1>1, <1>2, <1>6, <2>1, RefusedStep
<1>7. CASE v.kind # "fails" /\ LoadGlobalBy(b, n) /\ step' = step
  <2>1. \/ v.kind \notin Text \ {"text"} /\ request' = request /\ env' = env
        \/ /\ v.kind \in Text \ {"text"}
           /\ env' = [env EXCEPT ![b].globals[n] = x] /\ request' = [request EXCEPT !.globals[n] = x]
    BY <1>7, Zenon DEF LoadGlobalBy
  <2> DEFINE e == [globals |-> [env[b].globals EXCEPT ![n] = x], args |-> env[b].args, names |-> env[b].names]
  <2>2. [env EXCEPT ![b].globals[n] = x] = [env EXCEPT ![b] = e]
    BY <1>1, EnvParts
  <2>3. Record(e) /\ e.globals = [env[b].globals EXCEPT ![n] = x] /\ e.names = env[b].names
    BY DEF Record
  <2> HIDE DEF e, x, v, n, i
  <2>4. env' = env \/ env' = [env EXCEPT ![b] = e]
    BY <2>1, <2>2
  <2>5. /\ \A c \in Builders \ {b} : env'[c] = env[c] /\ global'[c] = global[c]
        /\ env'[b].names = env[b].names /\ global'[b] = global[b] + 1
    BY <1>1, <1>2, <2>3, <2>4, EnvParts DEF Shapes
  <2>6. Moves(b)
    BY <1>2, <1>7, <2>5 DEF Moves
  <2>7. Shapes'
    BY <1>1, <1>2, <1>7, <2>3, <2>4, <2>6, ShapesKept
  <2>8. InStages'
    BY <1>1, <1>7, <2>6, InStagesKept
  <2>9. ASSUME NEW r \in {loaded, Expand(loaded)}, request = WithGlobals(r, request.globals)
        PROVE  request' = WithGlobals(r, request'.globals)
    <3>1. CASE request' = request
      BY <2>9, <3>1
    <3>2. CASE request' = [request EXCEPT !.globals[n] = x]
      BY <1>1, <2>9, <3>2, GlobalWritten
    <3> QED BY <2>1, <3>1, <3>2
  <2>10. PICK r \in {loaded, Expand(loaded)} : request = WithGlobals(r, request.globals)
    BY <1>1 DEF RequestLike
  <2>11. \/ v.kind \notin Text \ {"text"} /\ request'.globals = request.globals /\ env' = env
         \/ /\ v.kind \in Text \ {"text"} /\ request'.globals = [request.globals EXCEPT ![n] = x]
            /\ env' = [env EXCEPT ![b] = e]
    BY <1>1, <2>1, <2>2, <2>10, GlobalWritten
  <2>12. DOMAIN request'.globals = DOMAIN loaded.globals
    BY <1>1, <2>11 DEF RequestLike
  <2>13. RequestLike'
    BY <1>1, <1>2, <2>9, <2>10, <2>12, Unmoved DEF RequestLike
  <2>14. RowsExpanded'
    <3>1. ASSUME NEW c \in Builders, step'[c] \in {"queries", "built"}
          PROVE  /\ request' = WithGlobals(Expand(loaded), request'.globals)
                 /\ step'[c] = "built" => env'[c].args = ArgsOf(Expand(loaded))
      <4>1. c # b /\ step[c] = step'[c] /\ env'[c] = env[c]
        BY <1>1, <1>7, <2>5, <3>1
      <4>2. /\ request = WithGlobals(Expand(loaded), request.globals)
            /\ step'[c] = "built" => env'[c].args = ArgsOf(Expand(loaded))
        BY <1>1, <3>1, <4>1 DEF RowsExpanded
      <4> QED BY <2>9, <4>2
    <3> QED BY <1>2, <3>1, Unmoved DEF RowsExpanded
  <2>15. GlobalsInv'
    <3>1. CASE b # First
      <4>1. /\ loaded' = loaded /\ First' = First /\ stage' = stage /\ Builders' = Builders /\ step' = step
            /\ First \in Builders /\ stage \in Nat /\ ~(stage = 1)
        BY <1>1, <1>2, <1>7, <3>1, Unmoved, TheStages DEF Shapes
      <4>2. env'[First] = env[First] /\ step[First] = "built"
        BY <1>1, <2>5, <3>1, <4>1
      <4>3. \/ env'[b].globals = env[b].globals
            \/ v.kind \in Text \ {"text"} /\ env'[b].globals = [env[b].globals EXCEPT ![n] = x]
        BY <1>1, <2>3, <2>11, EnvParts
      <4>4. \A c \in Builders : step'[c] \in Knows => DOMAIN env'[c].globals = DOMAIN loaded.globals
        BY <1>5, <2>5, <4>1, <4>3 DEF GlobalsInv
      <4>5. ASSUME NEW m \in DOMAIN loaded.globals, Final(env[First].globals[m])
            PROVE  /\ request'.globals[m] = env[First].globals[m]
                   /\ \A c \in Builders : step'[c] \in Knows => env'[c].globals[m] = env[First].globals[m]
        <5>1. /\ request.globals[m] = env[First].globals[m]
              /\ \A c \in Builders : step[c] \in Knows => env[c].globals[m] = env[First].globals[m]
          BY <1>5, <3>1, <4>5
        <5>2. v.kind \in Text \ {"text"} => m # n
          BY <4>5, <5>1 DEF Final, v
        <5>3. request'.globals[m] = request.globals[m] /\ env'[b].globals[m] = env[b].globals[m]
          BY <1>5, <2>11, <4>3, <5>2
        <5> QED BY <2>5, <4>1, <5>1, <5>3
      <4>6. "built" \notin {"idle", "globals", "global"}
        OBVIOUS
      <4> QED BY <1>5, <4>1, <4>2, <4>4, <4>5, <4>6 DEF GlobalsInv
    <3>2. CASE b = First
      <4> DEFINE g == request.globals
                 h == request'.globals
      <4>1. /\ \A k \in DOMAIN loaded.order : k < i => Settles(loaded, g, loaded.order[k])
            /\ \A k \in DOMAIN loaded.order : k >= i => g[loaded.order[k]] = loaded.globals[loaded.order[k]]
            /\ DOMAIN loaded.order = 1 .. Len(loaded.order) /\ Len(loaded.order) \in Nat
        BY <1>1, <1>3, <1>5, <3>2 DEF GlobalsInv, i, WellFormed
      <4>2. /\ \A k \in DOMAIN loaded.order : k <= i => Settles(loaded, h, loaded.order[k])
            /\ \A k \in DOMAIN loaded.order : k > i => h[loaded.order[k]] = g[loaded.order[k]]
        <5>1. /\ DOMAIN g = DOMAIN loaded.globals /\ n = loaded.order[i] /\ v = g[n] /\ v.kind # "fails" /\ x = Eval(v, g)
              /\ i \in DOMAIN loaded.order
          BY <1>1, <1>3, <1>5, <1>7, <3>2 DEF RequestLike, x, v, n, i
        <5>3. \/ v.kind \in Text \ {"text"} /\ h = [g EXCEPT ![n] = x]
              \/ v.kind \notin Text \ {"text"} /\ h = g
          BY <2>11
        <5> HIDE DEF g, h
        <5>4. /\ g[loaded.order[i]].kind # "fails"
              /\ x = Eval(g[loaded.order[i]], g)
              /\ \/ g[loaded.order[i]].kind \in Text \ {"text"} /\ h = [g EXCEPT ![loaded.order[i]] = x]
                 \/ g[loaded.order[i]].kind \notin Text \ {"text"} /\ h = g
          BY <5>1, <5>3
        <5>5. /\ \A k \in DOMAIN loaded.order : k <= i => Settles(loaded, h, loaded.order[k])
              /\ \A k \in DOMAIN loaded.order : k > i => h[loaded.order[k]] = g[loaded.order[k]]
          <6>1. /\ \A k \in DOMAIN loaded.order : k < i => Settles(loaded, g, loaded.order[k])
                /\ \A k \in DOMAIN loaded.order : k >= i => g[loaded.order[k]] = loaded.globals[loaded.order[k]]
            BY <4>1
          <6>2. WellFormed(loaded) /\ DOMAIN g = DOMAIN loaded.globals /\ i \in DOMAIN loaded.order
            BY <1>1, <5>1
          <6> HIDE DEF g, h, x, i
          <6> QED BY <5>4, <6>1, <6>2, Evaluates
        <5> QED BY <5>5 DEF g, h
      <4>3. env'[b].globals = h
        <5>1. CASE env' = env /\ h = g
          BY <1>5, <3>2, <5>1
        <5>2. CASE h = [g EXCEPT ![n] = x] /\ env' = [env EXCEPT ![b] = e]
          <6>1. env'[b] = e
            BY <1>1, <5>2, EnvParts
          <6> QED BY <1>5, <2>3, <3>2, <5>2, <6>1
        <5> QED BY <2>11, <5>1, <5>2
      <4>4. \A c \in Builders : step'[c] \in Knows => c = b
        BY <1>1, <1>7, <3>2 DEF Knows
      <4>5. \A k \in DOMAIN loaded.order :
               IF k < i + 1 THEN Settles(loaded, env'[First].globals, loaded.order[k])
               ELSE env'[First].globals[loaded.order[k]] = loaded.globals[loaded.order[k]]
        BY <1>3, <3>2, <4>1, <4>2, <4>3
      <4>6. i + 1 <= Len(loaded.order) + 1 /\ global'[First] = i + 1
        BY <1>3, <2>5, <3>2, <4>1 DEF i
      <4>7. step'[First] = "global" /\ "global" \notin Evaluated
        BY <1>1, <1>7, <3>2 DEF Evaluated
      <4> HIDE DEF g, h
      <4>8. loaded' = loaded /\ First' = First /\ Builders' = Builders
        BY <1>2, Unmoved
      <4>9. env'[First].globals = request'.globals /\ DOMAIN request'.globals = DOMAIN loaded.globals
        BY <2>12, <3>2, <4>3 DEF h
      <4>10. \A c \in Builders : step'[c] \in Knows => c = First
        BY <3>2, <4>4
      <4> QED BY <4>5, <4>6, <4>7, <4>8, <4>9, <4>10 DEF GlobalsInv
    <3> QED BY <3>1, <3>2
  <2>16. ASSUME ~UsesRows(loaded)
         PROVE  AcceptedInv'
    <3>1. AcceptedInv /\ Accepted(b)
      BY <1>1, <2>16 DEF LoadedInv, AcceptedInv
    <3>2. Accepted(b)'
      BY <1>1, <1>2, <1>7, <2>5, <3>1, Unmoved DEF Accepted, Evaluated, Registered
    <3> QED BY <1>1, <2>6, <3>1, <3>2, AcceptedKept
  <2> QED BY <1>1, <2>6, <2>7, <2>8, <2>13, <2>14, <2>15, <2>16, StillInv
<1> QED BY <1>4, <1>6, <1>7

-----------------------------------------------------------------------------
(* Loading, and from stage to stage *)

LEMMA InitStep ==
  ASSUME Init
  PROVE  ConfigInv
<1>1. cmd \in Commands /\ document \in {s.document : s \in Setups} /\ outcome = "loading" /\ loaded = None
  BY DEF Init
<1>2. /\ stage = 1 /\ step = [b \in Builders |-> "idle"] /\ global = [b \in Builders |-> 1]
      /\ env = [b \in Builders |-> Empty]
  BY DEF Init
<1>3. stage \in DOMAIN Stages(cmd)
  <2>1. Len(Stages(cmd)) \in Nat /\ DOMAIN Stages(cmd) = 1 .. Len(Stages(cmd)) /\ Stages(cmd)[1] = {First}
    BY <1>1, TheStages
  <2>2. Len(Stages(cmd)) \in {1, 2, 3}
    BY DEF Stages
  <2> QED BY <1>2, <2>1, <2>2
<1>4. env = [b \in Builders |-> [globals |-> env[b].globals, args |-> env[b].args, names |-> env[b].names]]
  <2>1. Empty = [globals |-> Empty.globals, args |-> Empty.args, names |-> Empty.names]
    BY DEF Empty
  <2> QED BY <1>2, <2>1
<1>5. Shapes
  BY <1>1, <1>2, <1>3, <1>4 DEF Shapes, Steps
<1>6. NotLoaded
  BY <1>1, <1>2 DEF NotLoaded
<1> QED BY <1>5, <1>6 DEF ConfigInv

(* Steps in which no environment moves.                                    *)
Still == UNCHANGED <<command, request, loaded, step, global, env>>

LEMMA StillShapes ==
  ASSUME Shapes, Still, stage' \in DOMAIN Stages(cmd)
  PROVE  Shapes'
<1>1. cmd' = cmd /\ Stages(cmd)' = Stages(cmd)
  BY Unmoved DEF Still
<1>2. step' = step /\ global' = global /\ env' = env /\ document' = document /\ Builders' = Builders
  BY DEF Still, command
<1> QED BY <1>1, <1>2 DEF Shapes

LEMMA StillLoaded ==
  ASSUME ConfigInv, LoadedInv, Still, outcome' \in {"connecting", "building", "started", "failed"},
         stage' \in Nat, stage' >= stage, stage' > stage => step[First] = "built"
  PROVE  LoadedInv'
<1>1. /\ cmd' = cmd /\ document' = document /\ loaded' = loaded /\ First' = First /\ Stages(cmd)' = Stages(cmd)
      /\ step' = step /\ global' = global /\ env' = env /\ request' = request
  BY Unmoved DEF Still
<1>2. stage \in Nat /\ stage >= 1
  BY TheStages DEF ConfigInv, Shapes
<1>3. RequestLike' /\ RowsExpanded'
  BY <1>1 DEF LoadedInv, RequestLike, RowsExpanded
<1>4. InStages'
  <2>1. ASSUME NEW b \in Builders, step[b] # "idle"
        PROVE  \E j \in 1 .. stage' : b \in Stages(cmd)[j]
    <3>1. PICK j \in 1 .. stage : b \in Stages(cmd)[j]
      BY <2>1 DEF LoadedInv, InStages
    <3>2. j \in 1 .. stage'
      BY <1>2
    <3> QED BY <3>1, <3>2
  <2>2. stage' > 1 => step[First] = "built"
    BY <1>2 DEF LoadedInv, InStages
  <2>3. \A b \in Builders : step[b] \in {"idle", "globals"} => global[b] = 1
    BY DEF LoadedInv, InStages
  <2> QED BY <1>1, <2>1, <2>2, <2>3 DEF InStages
<1>5. GlobalsInv'
  BY <1>1, <1>2 DEF LoadedInv, GlobalsInv
<1>6. ASSUME ~UsesRows(loaded)
      PROVE  AcceptedInv'
  <2>1. ASSUME NEW b \in Builders
        PROVE  Accepted(b)'
    BY <1>1, <1>6 DEF LoadedInv, AcceptedInv, Accepted, SomeAgain
  <2> QED BY <2>1 DEF AcceptedInv
<1> QED BY <1>1, <1>3, <1>4, <1>5, <1>6 DEF LoadedInv

LEMMA LoadConfigStep ==
  ASSUME ConfigInv, LoadConfig
  PROVE  ConfigInv'
<1>1. Shapes /\ NotLoaded /\ outcome = "loading"
  BY DEF LoadConfig, ConfigInv, LoadedInv
<1>2. /\ UNCHANGED <<command, stage, step, global, env>>
      /\ \/ outcome' \in {"panic", "failed"} /\ loaded' = loaded
         \/ /\ request' = Decode(document) /\ loaded' = request'
            /\ outcome' \in {"building", "connecting"}
  BY DEF LoadConfig, Fails
<1>3. cmd' = cmd /\ document' = document /\ Builders' = Builders /\ Stages(cmd)' = Stages(cmd) /\ First' = First
  BY <1>2 DEF command, Stages, First
<1>4. Shapes'
  BY <1>1, <1>2, <1>3 DEF Shapes
<1>5. /\ \A b \in Builders : step'[b] = "idle" /\ global'[b] = 1
      /\ stage' = 1 /\ First \in Builders
  BY <1>1, <1>2, TheStages DEF NotLoaded, Shapes
<1>6. CASE outcome' \in {"panic", "failed"} /\ loaded' = loaded
  BY <1>1, <1>4, <1>5, <1>6 DEF NotLoaded, ConfigInv
<1>7. CASE request' = Decode(document) /\ loaded' = request' /\ outcome' \in {"building", "connecting"}
  <2>1. WellFormed(loaded')
    BY <1>1, <1>7, Decoded DEF Shapes
  <2>2. loaded' = WithGlobals(loaded', loaded'.globals)
    <3>1. loaded' = [f \in DOMAIN loaded' |-> loaded'[f]]
      BY <2>1 DEF WellFormed
    <3>2. \A f \in DOMAIN loaded' : loaded'[f] = IF f = "globals" THEN loaded'.globals ELSE loaded'[f]
      OBVIOUS
    <3> QED BY <3>1, <3>2 DEF WithGlobals
  <2>3. RequestLike'
    BY <1>3, <1>7, <2>2 DEF RequestLike
  <2>4. InStages'
    BY <1>5 DEF InStages
  <2>5. RowsExpanded'
    BY <1>5 DEF RowsExpanded
  <2>6. "idle" \notin Knows /\ "idle" \notin Evaluated /\ "idle" \notin Registered
    BY DEF Knows, Evaluated, Registered
  <2>7. GlobalsInv'
    BY <1>3, <1>5, <1>7, <2>6 DEF GlobalsInv
  <2>8. AcceptedInv'
    BY <1>5, <2>6 DEF AcceptedInv, Accepted
  <2> QED BY <1>4, <1>7, <2>3, <2>4, <2>5, <2>7, <2>8 DEF LoadedInv, ConfigInv
<1> QED BY <1>2, <1>6, <1>7

LEMMA StageOverStep ==
  ASSUME ConfigInv, StageOver
  PROVE  ConfigInv'
<1>1. Shapes /\ LoadedInv /\ outcome = "building" /\ \A b \in Stages(cmd)[stage] : Over(b)
  BY DEF StageOver, ConfigInv, NotLoaded
<1>2. /\ Still
      /\ \/ outcome' \in {"failed", "started"} /\ stage' = stage
         \/ /\ stage < Len(Stages(cmd)) /\ stage' = stage + 1 /\ outcome' = outcome
            /\ \A b \in Stages(cmd)[stage] \cap {"main", "init"} : step[b] # "failed"
  BY DEF StageOver, Still, Fails
<1>3. /\ stage \in Nat /\ stage >= 1 /\ DOMAIN Stages(cmd) = 1 .. Len(Stages(cmd)) /\ Len(Stages(cmd)) \in Nat
      /\ Stages(cmd)[1] = {First} /\ First \in {"main", "init"}
  BY <1>1, TheStages DEF Shapes
<1>4. stage' \in DOMAIN Stages(cmd) /\ stage' \in Nat /\ stage' >= stage
  BY <1>1, <1>2, <1>3 DEF Shapes
<1>5. stage' > stage => step[First] = "built"
  <2>1. CASE stage > 1
    BY <1>1, <2>1 DEF LoadedInv, InStages
  <2>2. CASE stage = 1
    BY <1>1, <1>2, <1>3, <2>2 DEF Over
  <2> QED BY <1>3, <2>1, <2>2
<1>6. outcome' \in {"connecting", "building", "started", "failed"}
  BY <1>1, <1>2
<1> QED BY <1>1, <1>2, <1>4, <1>5, <1>6, StillShapes, StillLoaded DEF ConfigInv

LEMMA ConfigStep ==
  ASSUME ConfigInv, [Next]_vars
  PROVE  ConfigInv'
<1>1. ASSUME UNCHANGED vars
      PROVE  ConfigInv'
  <2>1. Still /\ stage' = stage /\ outcome' = outcome
    BY <1>1 DEF vars, Still
  <2>2. Shapes'
    BY <2>1, StillShapes DEF ConfigInv, Shapes
  <2>3. CASE NotLoaded
    BY <2>1, <2>2, <2>3 DEF NotLoaded, ConfigInv, Still
  <2>4. CASE LoadedInv
    BY <2>1, <2>2, <2>4, StillLoaded, TheStages DEF ConfigInv, LoadedInv, Shapes
  <2> QED BY <2>3, <2>4 DEF ConfigInv
<1>2. ASSUME WalkIncludes
      PROVE  ConfigInv'
  <2>1. Shapes /\ NotLoaded /\ outcome = "loading"
    BY <1>2 DEF WalkIncludes, ConfigInv, LoadedInv
  <2>2. UNCHANGED <<command, request, loaded, stage, step, global, env>> /\ outcome' \in {"loading", "failed"}
    BY <1>2, <2>1 DEF WalkIncludes, Fails
  <2>3. Shapes'
    BY <2>1, <2>2, StillShapes DEF Still, Shapes
  <2>4. NotLoaded'
    BY <2>1, <2>2 DEF NotLoaded
  <2> QED BY <2>3, <2>4 DEF ConfigInv
<1>3. ASSUME Connect
      PROVE  ConfigInv'
  <2>1. Shapes /\ LoadedInv
    BY <1>3 DEF Connect, ConfigInv, NotLoaded
  <2>2. Still /\ stage' = stage /\ outcome' \in {"building", "failed"}
    BY <1>3 DEF Connect, Fails, Still
  <2>3. Shapes'
    BY <2>1, <2>2, StillShapes DEF Shapes
  <2>4. LoadedInv'
    BY <2>1, <2>2, StillLoaded, TheStages DEF Shapes
  <2> QED BY <2>3, <2>4 DEF ConfigInv
<1>4. ASSUME NEW b \in Builders, NewEnv(b)
      PROVE  ConfigInv'
  BY <1>4, ValidateStep, CopyGlobalsStep, LoadGlobalStep, LoadReferencesStep, RegisterExpressionsStep,
     ExpandRowsStep, CompileQueriesStep DEF NewEnv
<1> QED BY <1>1, <1>2, <1>3, <1>4, LoadConfigStep, StageOverStep DEF Next

-----------------------------------------------------------------------------
LEMMA SameFromInv ==
  ASSUME ConfigInv
  PROVE  SameEnvironments
<1> DEFINE again == {n \in DOMAIN env[First].globals : ~Final(env[First].globals[n])}
<1> SUFFICES ASSUME loaded # None, NEW b \in Builders
             PROVE  /\ step[b] = "built" =>
                         /\ b = First => Means(loaded, env[b].globals)
                         /\ DOMAIN env[b].globals = DOMAIN loaded.globals
                         /\ \A n \in DOMAIN loaded.globals \ again : env[b].globals[n] = env[First].globals[n]
                         /\ env[b].args = ArgsOf(Expand(loaded))
                    /\ step[b] = "failed" => b = First \/ again # {} \/ UsesRows(loaded)
  BY DEF SameEnvironments
<1>1. LoadedInv /\ Shapes
  BY DEF ConfigInv, NotLoaded
<1>2. ASSUME step[b] = "built"
      PROVE  /\ b = First => Means(loaded, env[b].globals)
             /\ DOMAIN env[b].globals = DOMAIN loaded.globals
             /\ \A n \in DOMAIN loaded.globals \ again : env[b].globals[n] = env[First].globals[n]
             /\ env[b].args = ArgsOf(Expand(loaded))
  <2>1. "built" \in Knows /\ "built" \in Evaluated
    BY DEF Knows, Evaluated
  <2>2. step[First] = "built" /\ First \in Builders
    <3>1. PICK j \in 1 .. stage : b \in Stages(cmd)[j]
      BY <1>1, <1>2 DEF LoadedInv, InStages
    <3>2. stage \in Nat /\ 1 \in DOMAIN Stages(cmd) /\ Stages(cmd)[1] = {First} /\ First \in Builders
      BY <1>1, TheStages DEF Shapes
    <3>3. CASE stage > 1
      BY <1>1, <3>2, <3>3 DEF LoadedInv, InStages
    <3>4. CASE ~(stage > 1)
      BY <1>2, <3>1, <3>2, <3>4
    <3> QED BY <3>3, <3>4
  <2>3. \A c \in {b, First} : DOMAIN env[c].globals = DOMAIN loaded.globals
    BY <1>1, <1>2, <2>1, <2>2 DEF LoadedInv, GlobalsInv
  <2>4. \A n \in DOMAIN loaded.globals : Settles(loaded, env[First].globals, n)
    BY <1>1, <2>1, <2>2 DEF LoadedInv, GlobalsInv
  <2>5. Means(loaded, env[First].globals)
    BY <2>3, <2>4 DEF Means, Settles
  <2>6. \A n \in DOMAIN loaded.globals \ again : env[b].globals[n] = env[First].globals[n]
    BY <1>1, <1>2, <2>1, <2>2, <2>3 DEF LoadedInv, GlobalsInv
  <2> QED BY <1>1, <1>2, <2>3, <2>5, <2>6 DEF LoadedInv, RowsExpanded
<1>3. ASSUME step[b] = "failed", ~UsesRows(loaded)
      PROVE  b = First \/ again # {}
  BY <1>1, <1>3 DEF LoadedInv, AcceptedInv, Accepted, SomeAgain
<1> QED BY <1>2, <1>3

(* Whatever the file says, whichever command reads it and however its      *)
(* workers interleave, the first environment knows the globals and args    *)
(* the file means, and every other one that gets built knows the same, but *)
(* for globals whose value is a string that compiles again.  Only where    *)
(* there are such globals, or queries name rows, is a later one refused.   *)
THEOREM EnvironmentsAlike == Spec => []SameEnvironments
<1>1. Init => ConfigInv
  BY InitStep
<1>2. ConfigInv /\ [Next]_vars => ConfigInv'
  BY ConfigStep
<1>3. ConfigInv => SameEnvironments
  BY SameFromInv
<1> QED BY <1>1, <1>2, <1>3, PTL DEF Spec

-----------------------------------------------------------------------------
LEMMA FirstPosition ==
  ASSUME NEW S \in SUBSET Nat, S # {}
  PROVE  \E i \in S : \A j \in S : ~(j < i)
<1>1. \E x \in S : \A y \in S : ~(<<y, x>> \in OpToRel(<, Nat))
  BY NatLessThanWellFounded, WFMin
<1> QED BY <1>1 DEF OpToRel

(* The equation SameEnvironments states has one solution, whichever        *)
(* globals name which: the file determines the value of each.              *)
THEOREM MeaningUnique ==
  ASSUME NEW r, WellFormed(r), NEW g, NEW h, Means(r, g), Means(r, h)
  PROVE  \A n \in DOMAIN r.globals : g[n] = h[n]
<1> DEFINE Differ == {i \in DOMAIN r.order : g[r.order[i]] # h[r.order[i]]}
<1>1. Len(r.order) \in Nat /\ DOMAIN r.order = 1 .. Len(r.order) /\ Differ \subseteq Nat
  BY DEF WellFormed
<1>2. Differ = {}
  <2>1. SUFFICES ASSUME Differ # {} PROVE FALSE
    OBVIOUS
  <2>2. PICK i \in Differ : \A j \in Differ : ~(j < i)
    BY <1>1, <2>1, FirstPosition
  <2> DEFINE n == r.order[i]
             v == r.globals[n]
  <2>3. n \in DOMAIN r.globals /\ g[n] = Value(r, g, n) /\ h[n] = Value(r, h, n) /\ g[n] # h[n] /\ i \in DOMAIN r.order
    BY <2>2 DEF Means, WellFormed, ToSet
  <2>4. v.kind = "ref" /\ Precedes(r, v.of, n)
    BY <2>3 DEF Value
  <2>5. PICK j, k \in DOMAIN r.order : j < k /\ r.order[j] = v.of /\ r.order[k] = n
    BY <2>4 DEF Precedes
  <2>6. j < i
    BY <2>3, <2>5 DEF WellFormed, IsInjective
  <2>7. g[v.of] = h[v.of]
    BY <2>2, <2>5, <2>6
  <2> QED BY <2>3, <2>4, <2>7 DEF Value
<1>3. ASSUME NEW n \in DOMAIN r.globals
      PROVE  \E i \in DOMAIN r.order : r.order[i] = n
  BY DEF WellFormed, ToSet
<1> QED BY <1>2, <1>3

-----------------------------------------------------------------------------
(* Weighted choice *)

(* Sums of a prefix exist, as functions that satisfy the recursion.        *)
SumsOf(c, n, w) == c \in [0 .. n -> Nat] /\ c[0] = 0 /\ \A i \in 1 .. n : c[i] = c[i - 1] + w[i]

LEMMA SumsExist ==
  ASSUME NEW n \in Nat, NEW w \in [1 .. n -> Nat]
  PROVE  \E c : SumsOf(c, n, w)
<1> DEFINE S == {m \in 0 .. n : ~\E c : SumsOf(c, m, w)}
<1>1. S \in SUBSET Nat
  OBVIOUS
<1>2. S = {}
  <2>1. SUFFICES ASSUME S # {} PROVE FALSE
    OBVIOUS
  <2>2. PICK m \in S : \A k \in S : ~(k < m)
    BY <1>1, <2>1, FirstPosition
  <2>3. m \in 0 .. n /\ m \in Nat /\ ~\E c : SumsOf(c, m, w)
    BY <2>2
  <2>4. m # 0
    <3>1. SumsOf([i \in 0 .. 0 |-> 0], 0, w)
      BY DEF SumsOf
    <3> QED BY <2>3, <3>1
  <2>5. m - 1 \in 0 .. n /\ m - 1 \notin S
    BY <2>2, <2>3, <2>4
  <2>6. PICK c : SumsOf(c, m - 1, w)
    BY <2>5
  <2> DEFINE d == [i \in 0 .. m |-> IF i = m THEN c[m - 1] + w[m] ELSE c[i]]
  <2>7. SumsOf(d, m, w)
    <3>1. m \in 1 .. n /\ w[m] \in Nat /\ c[m - 1] \in Nat /\ \A i \in 0 .. m - 1 : c[i] \in Nat
      BY <2>3, <2>4, <2>6 DEF SumsOf
    <3>2. d \in [0 .. m -> Nat] /\ d[0] = 0
      BY <2>3, <2>4, <2>6, <3>1 DEF SumsOf
    <3>3. ASSUME NEW i \in 1 .. m
          PROVE  d[i] = d[i - 1] + w[i]
      BY <2>3, <2>4, <2>6, <3>1, <3>3 DEF SumsOf
    <3> QED BY <3>2, <3>3 DEF SumsOf
  <2> QED BY <2>3, <2>7
<1>3. n \in 0 .. n
  OBVIOUS
<1> QED BY <1>2, <1>3

LEMMA SumsGrow ==
  ASSUME NEW n \in Nat, NEW w \in [1 .. n -> Nat], NEW c, SumsOf(c, n, w), NEW i \in 0 .. n, NEW j \in 0 .. n, i <= j
  PROVE  c[i] <= c[j]
<1> DEFINE S == {m \in i .. n : ~(c[i] <= c[m])}
<1>1. S \in SUBSET Nat
  OBVIOUS
<1>2. S = {}
  <2>1. SUFFICES ASSUME S # {} PROVE FALSE
    OBVIOUS
  <2>2. PICK m \in S : \A k \in S : ~(k < m)
    BY <1>1, <2>1, FirstPosition
  <2>3. m \in i .. n /\ m # i /\ m \in 1 .. n /\ m - 1 \in i .. n
    BY <2>2 DEF SumsOf
  <2>4. c[i] <= c[m - 1]
    BY <2>2, <2>3
  <2>5. c[m] = c[m - 1] + w[m] /\ w[m] \in Nat /\ c[m - 1] \in Nat /\ c[i] \in Nat
    BY <2>3 DEF SumsOf
  <2> QED BY <2>2, <2>4, <2>5
<1>3. j \in i .. n
  OBVIOUS
<1> QED BY <1>2, <1>3

(* What a request needs for its weights to make sense.                     *)
Weighted(r) ==
  /\ r.run \in Seq({r.run[i] : i \in DOMAIN r.run})
  /\ \A n \in DOMAIN r.weights : r.weights[n] \in Nat

LEMMA CumulativeSums ==
  ASSUME NEW r, Weighted(r)
  PROVE  /\ Len(r.run) \in Nat /\ DOMAIN r.run = 1 .. Len(r.run)
         /\ \A i \in DOMAIN r.run : Weight(r, i) \in Nat /\ (i \notin Entries(r) => Weight(r, i) = 0)
         /\ SumsOf(Cumulative(r), Len(r.run), [i \in 1 .. Len(r.run) |-> Weight(r, i)])
<1> DEFINE n == Len(r.run)
           w == [i \in 1 .. n |-> Weight(r, i)]
           Step(c) == [i \in 0 .. n |-> IF i = 0 THEN 0 ELSE c[i - 1] + Weight(r, i)]
<1>1. n \in Nat /\ DOMAIN r.run = 1 .. n
  BY DEF Weighted
<1>2. ASSUME NEW i \in DOMAIN r.run
      PROVE  Weight(r, i) \in Nat /\ (i \notin Entries(r) => Weight(r, i) = 0)
  BY DEF Weighted, Weight, Entries
<1>3. w \in [1 .. n -> Nat]
  BY <1>1, <1>2
<1>4. Cumulative(r) = CHOOSE c : c = Step(c)
  BY DEF Cumulative
<1> HIDE DEF n
<1>5. PICK c : SumsOf(c, n, w)
  BY <1>1, <1>3, SumsExist
<1>6. c = Step(c)
  <2>1. c \in [0 .. n -> Nat] /\ c[0] = 0
    BY <1>5 DEF SumsOf
  <2>2. ASSUME NEW i \in 0 .. n
        PROVE  c[i] = IF i = 0 THEN 0 ELSE c[i - 1] + Weight(r, i)
    BY <1>1, <1>5, <2>1 DEF SumsOf
  <2> QED BY <2>1, <2>2
<1>7. Cumulative(r) = Step(Cumulative(r))
  BY <1>4, <1>6
<1> DEFINE d == Cumulative(r)
<1> HIDE DEF d
<1>8. /\ DOMAIN d = 0 .. n /\ d = [i \in DOMAIN d |-> d[i]] /\ d[0] = 0
      /\ \A i \in 1 .. n : d[i] = d[i - 1] + w[i]
  <2>1. d = Step(d)
    BY <1>7 DEF d
  <2>2. DOMAIN d = 0 .. n /\ d = [i \in DOMAIN d |-> d[i]]
    BY <2>1
  <2>3. ASSUME NEW i \in 0 .. n
        PROVE  d[i] = IF i = 0 THEN 0 ELSE d[i - 1] + Weight(r, i)
    BY <2>1
  <2>4. d[0] = 0
    BY <1>1, <2>3
  <2>5. ASSUME NEW i \in 1 .. n
        PROVE  d[i] = d[i - 1] + w[i]
    <3>1. i \in 0 .. n /\ i # 0 /\ w[i] = Weight(r, i)
      BY <1>1
    <3> QED BY <2>3, <3>1
  <2> QED BY <2>2, <2>4, <2>5
<1>9. \A i \in 0 .. n : d[i] \in Nat
  <2> DEFINE S == {m \in 0 .. n : d[m] \notin Nat}
  <2>1. S \in SUBSET Nat
    OBVIOUS
  <2>2. SUFFICES ASSUME S # {} PROVE FALSE
    OBVIOUS
  <2>3. PICK m \in S : \A k \in S : ~(k < m)
    BY <2>1, <2>2, FirstPosition
  <2>4. m # 0 /\ m \in 1 .. n /\ m - 1 \in 0 .. n
    BY <1>1, <1>8, <2>3
  <2>5. d[m - 1] \in Nat
    BY <2>3, <2>4
  <2> QED BY <1>3, <1>8, <2>3, <2>4, <2>5
<1>10. SumsOf(d, n, w)
  BY <1>8, <1>9 DEF SumsOf
<1> QED BY <1>1, <1>2, <1>10 DEF n, d

LEMMA Share ==
  ASSUME NEW r, Weighted(r), Total(r) > 0, NEW i \in DOMAIN r.run
  PROVE  Cardinality({x \in 0 .. Total(r) - 1 : PickWeighted(r, x) = i}) = Weight(r, i)
<1> DEFINE n == Len(r.run)
           c == Cumulative(r)
           w == [k \in 1 .. n |-> Weight(r, k)]
           Picked == {x \in 0 .. Total(r) - 1 : PickWeighted(r, x) = i}
<1>1. /\ n \in Nat /\ DOMAIN r.run = 1 .. n /\ SumsOf(c, n, w) /\ w \in [1 .. n -> Nat]
      /\ \A k \in 1 .. n : w[k] = Weight(r, k) /\ (k \notin Entries(r) => w[k] = 0)
      /\ Entries(r) \subseteq 1 .. n /\ Total(r) = c[n]
  BY CumulativeSums DEF Entries, Total
<1> HIDE DEF n, c, w
<1>2. /\ \A k \in 0 .. n : c[k] \in Nat
      /\ c[0] = 0
      /\ \A k \in 1 .. n : c[k] = c[k - 1] + w[k] /\ w[k] \in Nat
  BY <1>1 DEF SumsOf
<1>3. ASSUME NEW x \in 0 .. Total(r) - 1, NEW k \in Entries(r), c[k - 1] <= x, x < c[k]
      PROVE  PickWeighted(r, x) = k
  <2> DEFINE P(m) == m \in Entries(r) /\ x < c[m] /\ \A j \in Entries(r) : j < m => x >= c[j]
  <2>1. PickWeighted(r, x) = CHOOSE m : P(m)
    BY DEF PickWeighted, c
  <2>2. \A j \in 0 .. n : j < k => x >= c[j]
    <3>1. SUFFICES ASSUME NEW j \in 0 .. n, j < k PROVE c[j] <= x
      BY <1>2
    <3>2. j <= k - 1 /\ k - 1 \in 0 .. n
      BY <1>1, <3>1
    <3>3. c[j] <= c[k - 1]
      BY <1>1, <3>1, <3>2, SumsGrow
    <3> QED BY <1>2, <1>3, <3>2, <3>3
  <2>3. P(k)
    BY <1>1, <1>3, <2>2
  <2>4. ASSUME NEW m, P(m)
        PROVE  m = k
    <3>1. m \in 1 .. n /\ k \in 1 .. n /\ c[m] \in Nat /\ c[k] \in Nat
      BY <1>1, <1>2, <2>4
    <3>2. ~(m < k)
      BY <2>2, <2>4, <3>1
    <3>3. ~(k < m)
      BY <1>3, <2>4, <3>1
    <3> QED BY <3>1, <3>2, <3>3
  <2> HIDE DEF P
  <2> QED BY <2>1, <2>3, <2>4
<1>4. ASSUME NEW x \in 0 .. Total(r) - 1
      PROVE  \E k \in Entries(r) : c[k - 1] <= x /\ x < c[k]
  <2> DEFINE S == {k \in 1 .. n : x < c[k]}
  <2>1. n \in S
    <3>1. n # 0
      BY <1>1, <1>2
    <3> QED BY <1>1, <1>2, <3>1
  <2>2. PICK k \in S : \A j \in S : ~(j < k)
    <3>1. S \in SUBSET Nat /\ S # {}
      BY <2>1
    <3> QED BY <3>1, FirstPosition
  <2>3. k \in 1 .. n /\ k - 1 \in 0 .. n /\ c[k] \in Nat /\ c[k - 1] \in Nat
    BY <1>1, <1>2, <2>2
  <2>4. c[k - 1] <= x
    <3>1. CASE k = 1
      BY <1>2, <3>1
    <3>2. CASE k # 1
      <4>1. k - 1 \in 1 .. n /\ k - 1 \notin S
        BY <1>1, <2>2, <2>3, <3>2
      <4> QED BY <2>3, <4>1
    <3> QED BY <3>1, <3>2
  <2>5. k \in Entries(r)
    <3>1. x < c[k]
      BY <2>2
    <3>2. c[k] = c[k - 1] + w[k]
      BY <1>2, <2>3
    <3>3. w[k] # 0
      BY <2>3, <2>4, <3>1, <3>2
    <3> QED BY <1>1, <2>3, <3>3
  <2> QED BY <2>2, <2>4, <2>5
<1>5. CASE i \notin Entries(r)
  <2>1. Picked = {}
    <3>1. ASSUME NEW x \in 0 .. Total(r) - 1
          PROVE  PickWeighted(r, x) # i
      BY <1>3, <1>4, <1>5
    <3> QED BY <3>1
  <2> QED BY <1>1, <1>5, <2>1, FS_EmptySet
<1>6. CASE i \in Entries(r)
  <2> DEFINE lo == c[i - 1]
             hi == c[i] - 1
  <2>1. i \in 1 .. n /\ lo \in Nat /\ c[i] \in Nat /\ c[i] = lo + w[i] /\ w[i] = Weight(r, i) /\ w[i] \in Nat
    BY <1>1, <1>2
  <2>2. c[i] <= Total(r)
    BY <1>1, <2>1, SumsGrow
  <2>3. Picked = lo .. hi
    <3>1. ASSUME NEW x \in lo .. hi
          PROVE  x \in Picked
      <4>1. x \in 0 .. Total(r) - 1 /\ c[i - 1] <= x /\ x < c[i]
        BY <1>1, <1>2, <2>1, <2>2
      <4> QED BY <1>3, <1>6, <4>1
    <3>2. ASSUME NEW x \in Picked
          PROVE  x \in lo .. hi
      <4>1. PICK k \in Entries(r) : c[k - 1] <= x /\ x < c[k]
        BY <1>4
      <4>2. k = i
        BY <1>3, <4>1
      <4> QED BY <2>1, <4>1, <4>2
    <3> QED BY <3>1, <3>2
  <2>4. lo \in Int /\ hi \in Int /\ hi = lo + w[i] - 1 /\ lo \in Nat
    BY <2>1
  <2> HIDE DEF lo, hi, Picked
  <2>5. Cardinality(lo .. hi) = IF lo > hi THEN 0 ELSE hi - lo + 1
    BY <2>4, FS_Interval
  <2>6. Cardinality(lo .. hi) = w[i]
    BY <2>1, <2>4, <2>5
  <2> QED BY <2>1, <2>3, <2>6 DEF Picked
<1> QED BY <1>5, <1>6

LEMMA RequestWeighted ==
  ASSUME ConfigInv, LoadedInv
  PROVE  Weighted(request)
<1>1. PICK s \in Setups : document = s.document
  BY DEF ConfigInv, Shapes
<1> DEFINE d == s.document
<1>2. /\ Fields \subseteq DOMAIN d /\ d.run \in Seq({d.run[i] : i \in DOMAIN d.run})
      /\ \A n \in DOMAIN d.weights : d.weights[n] \in Nat
  BY DocumentsAssumption
<1>3. /\ loaded.weights = d.weights
      /\ loaded.run = [i \in 1 .. Len(d.run) |-> DecodeItem(d.run[i])] /\ Len(d.run) \in Nat
  <2>1. loaded = Decode(d)
    BY <1>1 DEF LoadedInv, RequestLike
  <2>2. "weights" \in DOMAIN d /\ "run" \in DOMAIN d /\ "weights" # "run" /\ "weights" \notin AllSections
    BY <1>2, FieldNames DEF AllSections
  <2>3. DOMAIN d.run = 1 .. Len(d.run) /\ Len(d.run) \in Nat
    BY <1>2
  <2> HIDE DEF d
  <2> QED BY <2>1, <2>2, <2>3 DEF Decode
<1>4. WellFormed(loaded)
  BY <1>1, Decoded DEF LoadedInv, RequestLike
<1> HIDE DEF d
<1>5. request.weights = d.weights /\ (request.run = loaded.run \/ request.run = Expand(loaded).run)
  <2>1. Fields \subseteq DOMAIN loaded /\ Fields \subseteq DOMAIN Expand(loaded)
    BY <1>4, ExpandedFields DEF WellFormed
  <2>2. Expand(loaded).weights = loaded.weights
    <3>1. "weights" \in Fields \ AllSections
      BY DEF Fields, AllSections
    <3> QED BY <1>4, <3>1, ExpandedFields
  <2>3. ASSUME NEW r \in {loaded, Expand(loaded)}, request = WithGlobals(r, request.globals)
        PROVE  request.weights = r.weights /\ request.run = r.run
    <3>1. "weights" \in Fields \ {"globals"} /\ "run" \in Fields \ {"globals"}
      BY FieldNames
    <3>2. \A f \in Fields \ {"globals"} : WithGlobals(r, request.globals)[f] = r[f]
      BY <2>1, Kept
    <3> QED BY <2>3, <3>1, <3>2
  <2>4. PICK r \in {loaded, Expand(loaded)} : request = WithGlobals(r, request.globals)
    BY DEF LoadedInv, RequestLike
  <2> QED BY <1>3, <2>2, <2>3, <2>4
<1>6. request.run = [i \in 1 .. Len(d.run) |-> request.run[i]]
  <2>1. loaded.run = [i \in DOMAIN loaded.run |-> loaded.run[i]] /\ DOMAIN loaded.run = 1 .. Len(d.run)
    BY <1>3
  <2>2. Expand(loaded).run = [i \in DOMAIN loaded.run |-> Expand(loaded).run[i]]
    BY <1>4, ExpandedItems
  <2> QED BY <1>5, <2>1, <2>2
<1>7. request.run \in Seq({request.run[i] : i \in DOMAIN request.run})
  <2> DEFINE run == request.run
  <2>1. run = [i \in 1 .. Len(d.run) |-> run[i]] /\ Len(d.run) \in Nat
    BY <1>3, <1>6
  <2> HIDE DEF run
  <2>2. DOMAIN run = 1 .. Len(d.run) /\ run \in [1 .. Len(d.run) -> {run[i] : i \in DOMAIN run}]
    BY <2>1
  <2>3. run \in Seq({run[i] : i \in DOMAIN run})
    BY <2>1, <2>2
  <2> QED BY <2>3 DEF run
<1> QED BY <1>2, <1>5, <1>7 DEF Weighted, d

(* Whatever the weights, none negative, over all draws an item is picked   *)
(* as often as its weight says, and one without a weight never.            *)
THEOREM WeightsHonoured == Spec => []Shares
<1>1. Init => ConfigInv
  BY InitStep
<1>2. ConfigInv /\ [Next]_vars => ConfigInv'
  BY ConfigStep
<1>3. ConfigInv => Shares
  <2>1. SUFFICES ASSUME ConfigInv, NEW b \in Workers, step[b] = "built", Total(request) > 0, NEW i \in DOMAIN request.run
                 PROVE  Cardinality({x \in 0 .. Total(request) - 1 : PickWeighted(request, x) = i}) = Weight(request, i)
    BY DEF Shares, Weight
  <2>2. LoadedInv
    BY <2>1 DEF ConfigInv, NotLoaded, Builders
  <2> QED BY <2>1, <2>2, RequestWeighted, Share
<1> QED BY <1>1, <1>2, <1>3, PTL DEF Spec

-----------------------------------------------------------------------------
(* Includes *)

(* A sequence of whatever its elements are.                                *)
IsSeq(s) == s \in Seq(ToSet(s))

LEMMA SeqOfAny ==
  ASSUME NEW S, NEW s \in Seq(S)
  PROVE  IsSeq(s)
BY SeqOfRange DEF IsSeq, ToSet, Range

LEMMA ConcatOfAny ==
  ASSUME NEW s, NEW t, IsSeq(s), IsSeq(t)
  PROVE  IsSeq(s \o t)
<1> DEFINE S == ToSet(s) \cup ToSet(t)
<1>1. s \in Seq(S) /\ t \in Seq(S)
  BY SeqMonotonic DEF IsSeq
<1> HIDE DEF S
<1>2. s \o t \in Seq(S)
  BY <1>1, ConcatProperties
<1> QED BY <1>2, SeqOfAny

LEMMA AppendOfAny ==
  ASSUME NEW s, NEW e, IsSeq(s)
  PROVE  Append(s, e) = s \o <<e>>
<1> DEFINE S == ToSet(s) \cup {e}
<1>1. s \in Seq(S) /\ e \in S
  BY SeqMonotonic DEF IsSeq
<1> HIDE DEF S
<1> QED BY <1>1, AppendIsConcat

LEMMA OneOfAny ==
  ASSUME NEW e
  PROVE  IsSeq(<<e>>)
BY DEF IsSeq, ToSet

(* FlattenSeq, one sequence more. *)
Flattens(c, n, p) ==
  /\ c = [i \in 1 .. n |-> c[i]]
  /\ \A i \in 1 .. n : c[i] = IF i = 1 THEN p[i] ELSE c[i - 1] \o p[i]

LEMMA FlattensExist ==
  ASSUME NEW n \in Nat, NEW p
  PROVE  \E c : Flattens(c, n, p)
<1> DEFINE S == {m \in 0 .. n : ~\E c : Flattens(c, m, p)}
<1>1. S \in SUBSET Nat
  OBVIOUS
<1>2. S = {}
  <2>1. SUFFICES ASSUME S # {} PROVE FALSE
    OBVIOUS
  <2>2. PICK m \in S : \A k \in S : ~(k < m)
    BY <1>1, <2>1, FirstPosition
  <2>3. m \in 0 .. n /\ m \in Nat /\ ~\E c : Flattens(c, m, p)
    BY <2>2
  <2>4. m # 0
    <3>1. Flattens(<<>>, 0, p)
      BY DEF Flattens
    <3> QED BY <2>3, <3>1
  <2>5. m - 1 \in 0 .. n /\ m - 1 \notin S
    BY <2>2, <2>3, <2>4
  <2>6. PICK c : Flattens(c, m - 1, p)
    BY <2>5
  <2> DEFINE d == [i \in 1 .. m |-> IF i = 1 THEN p[i] ELSE c[i - 1] \o p[i]]
  <2>7. ASSUME NEW i \in 1 .. m - 1
        PROVE  d[i] = c[i]
    <3>1. c[i] = IF i = 1 THEN p[i] ELSE c[i - 1] \o p[i]
      BY <2>6 DEF Flattens
    <3>2. i \in 1 .. m
      BY <2>3
    <3> QED BY <3>1, <3>2
  <2>8. ASSUME NEW i \in 1 .. m
        PROVE  d[i] = IF i = 1 THEN p[i] ELSE d[i - 1] \o p[i]
    <3>1. d[i] = IF i = 1 THEN p[i] ELSE c[i - 1] \o p[i]
      BY <2>3
    <3>2. i # 1 => i - 1 \in 1 .. m - 1
      BY <2>3
    <3> QED BY <2>7, <3>1, <3>2
  <2>9. d = [i \in 1 .. m |-> d[i]]
    OBVIOUS
  <2> HIDE DEF d
  <2>10. Flattens(d, m, p)
    BY <2>8, <2>9 DEF Flattens
  <2> QED BY <2>3, <2>10
<1>3. n \in 0 .. n
  OBVIOUS
<1> QED BY <1>2, <1>3

LEMMA FlattensUnique ==
  ASSUME NEW n \in Nat, NEW m \in 0 .. n, NEW p, NEW q, NEW c, NEW d, Flattens(c, n, p), Flattens(d, m, q),
         \A i \in 1 .. m : p[i] = q[i]
  PROVE  \A i \in 1 .. m : c[i] = d[i]
<1> DEFINE S == {i \in 1 .. m : c[i] # d[i]}
<1>1. SUFFICES ASSUME S # {} PROVE FALSE
  OBVIOUS
<1>2. PICK i \in S : \A j \in S : ~(j < i)
  <2>1. S \in SUBSET Nat
    OBVIOUS
  <2> QED BY <1>1, <2>1, FirstPosition
<1>3. i \in 1 .. m /\ i \in 1 .. n /\ p[i] = q[i]
  BY <1>2
<1>4. c[i] = (IF i = 1 THEN p[i] ELSE c[i - 1] \o p[i]) /\ d[i] = (IF i = 1 THEN q[i] ELSE d[i - 1] \o q[i])
  BY <1>3 DEF Flattens
<1>5. i # 1 => i - 1 \in 1 .. m /\ c[i - 1] = d[i - 1]
  BY <1>2, <1>3
<1> QED BY <1>2, <1>3, <1>4, <1>5

LEMMA Flattened ==
  ASSUME NEW n \in Nat, NEW p, DOMAIN p = 1 .. n, p = [i \in DOMAIN p |-> p[i]], n > 0
  PROVE  \E c : Flattens(c, n, p) /\ FlattenSeq(p) = c[n]
<1>1. p \in Seq(ToSet(p)) /\ Len(p) = n
  <2>1. p \in [1 .. n -> ToSet(p)]
    BY DEF ToSet
  <2> QED BY <2>1
<1> DEFINE E(c) == [i \in 1 .. n |-> IF i = 1 THEN p[i] ELSE c[i - 1] \o p[i]]
           F == CHOOSE c : c = E(c)
<1>2. FlattenSeq(p) = F[n]
  BY <1>1 DEF FlattenSeq
<1>3. \E c : c = E(c)
  <2>1. PICK c : Flattens(c, n, p)
    BY FlattensExist
  <2>2. c = [i \in 1 .. n |-> c[i]] /\ \A i \in 1 .. n : c[i] = E(c)[i]
    BY <2>1 DEF Flattens
  <2>3. c = E(c)
    BY <2>2
  <2> QED BY <2>3
<1>4. F = E(F)
  BY <1>3
<1> HIDE DEF F
<1>5. Flattens(F, n, p)
  <2>1. \A i \in 1 .. n : F[i] = E(F)[i]
    BY <1>4
  <2>2. F = [i \in 1 .. n |-> F[i]]
    BY <1>4
  <2>3. \A i \in 1 .. n : F[i] = IF i = 1 THEN p[i] ELSE F[i - 1] \o p[i]
    BY <2>1
  <2> QED BY <2>2, <2>3 DEF Flattens
<1> QED BY <1>2, <1>5

LEMMA FlattenNone ==
  ASSUME NEW p, DOMAIN p = 1 .. 0, p = [i \in DOMAIN p |-> p[i]]
  PROVE  FlattenSeq(p) = <<>>
<1>1. p = <<>>
  OBVIOUS
<1> QED BY <1>1 DEF FlattenSeq

LEMMA FlattenStep ==
  ASSUME NEW n \in Nat, NEW p, NEW q,
         DOMAIN p = 1 .. n + 1, p = [i \in DOMAIN p |-> p[i]], DOMAIN q = 1 .. n, q = [i \in DOMAIN q |-> q[i]],
         \A i \in 1 .. n : p[i] = q[i], IsSeq(p[n + 1])
  PROVE  FlattenSeq(p) = FlattenSeq(q) \o p[n + 1]
<1>1. PICK c : Flattens(c, n + 1, p) /\ FlattenSeq(p) = c[n + 1]
  BY Flattened
<1>2. CASE n = 0
  <2>1. FlattenSeq(q) = <<>>
    BY <1>2, FlattenNone
  <2>2. c[n + 1] = p[n + 1]
    BY <1>1, <1>2 DEF Flattens
  <2>3. p[n + 1] = <<>> \o p[n + 1]
    BY ConcatEmptySeq DEF IsSeq
  <2> QED BY <1>1, <2>1, <2>2, <2>3
<1>3. CASE n # 0
  <2>1. PICK d : Flattens(d, n, q) /\ FlattenSeq(q) = d[n]
    BY <1>3, Flattened
  <2>2. c[n] = d[n]
    BY <1>1, <1>3, <2>1, FlattensUnique
  <2>3. c[n + 1] = c[n] \o p[n + 1]
    <3>1. n + 1 \in 1 .. n + 1 /\ n + 1 # 1 /\ n + 1 - 1 = n
      BY <1>3
    <3>2. \A i \in 1 .. n + 1 : c[i] = IF i = 1 THEN p[i] ELSE c[i - 1] \o p[i]
      BY <1>1 DEF Flattens
    <3> DEFINE k == n + 1
    <3>3. c[k] = IF k = 1 THEN p[k] ELSE c[k - 1] \o p[k]
      BY <3>1, <3>2
    <3>4. k # 1 /\ k - 1 = n /\ k = n + 1
      BY <3>1
    <3> HIDE DEF k
    <3>5. c[k] = c[n] \o p[k]
      BY <3>3, <3>4
    <3> QED BY <3>4, <3>5
  <2> QED BY <1>1, <2>1, <2>2, <2>3
<1> QED BY <1>2, <1>3

-----------------------------------------------------------------------------
(* What the walk knows.  Trees are those of files fs.                      *)
Unnamed == ""

TreesOf(fs) ==
  /\ "main" \in DOMAIN fs /\ Unnamed \notin DOMAIN fs
  /\ \A f \in DOMAIN fs : \A node \in Nodes(fs[f]) :
       /\ {"kind", "items"} \subseteq DOMAIN node
       /\ IsSeq(node.items)
       /\ {i \in ToSet(node.items) : i.kind # "include"} \subseteq Nodes(fs[f])

(* What an item stands for, and what it puts in its place.                 *)
Target(fs, i) == IF i.kind = "include" THEN fs[i.of] ELSE i

PartOf(fs, inlined, node, i) ==
  IF i.kind # "include" THEN <<inlined[i]>>
  ELSE IF node.kind = "seq" /\ fs[i.of].kind = "seq" THEN inlined[fs[i.of]].items
  ELSE <<inlined[fs[i.of]]>>

Upto(fs, inlined, node, n) == FlattenSeq([j \in 1 .. n |-> PartOf(fs, inlined, node, node.items[j])])

Known(fs, inlined, i) == (i.kind = "include" => i.of \in DOMAIN fs) /\ Target(fs, i) \in DOMAIN inlined

(* Nodes the walk has returned from, with what it made of them; each has a *)
(* higher rank than those its items stand for.                             *)
Sound(fs, inlined, rank, bound) ==
  /\ bound \in Nat
  /\ \A node \in DOMAIN inlined :
       /\ \E f \in DOMAIN fs : node \in Nodes(fs[f])
       /\ rank[node] \in Nat /\ rank[node] < bound
       /\ \A j \in DOMAIN node.items : /\ Known(fs, inlined, node.items[j])
                                       /\ rank[Target(fs, node.items[j])] < rank[node]
       /\ inlined[node] = [node EXCEPT !.items = Upto(fs, inlined, node, Len(node.items))]
       /\ IsSeq(inlined[node].items)

(* A call has put in place the items before the one it is at.              *)
CallInv(fs, inlined, f, call) ==
  /\ DOMAIN call = {"root", "node", "at", "expanded"}
  /\ f \in DOMAIN fs /\ call.node \in Nodes(fs[f])
  /\ call.at \in 1 .. Len(call.node.items) + 1
  /\ \A j \in 1 .. call.at - 1 : Known(fs, inlined, call.node.items[j])
  /\ call.expanded = Upto(fs, inlined, call.node, call.at - 1) /\ IsSeq(call.expanded)
  /\ call.root # Unnamed => f = call.root /\ call.node = fs[call.root]

AtItem(call) == call.at <= Len(call.node.items)

(* The root of the call for the item a call is at.                         *)
RootFor(fs, call, root) ==
  LET i == call.node.items[call.at] IN
  /\ i.kind = "include" => root = i.of /\ root \in DOMAIN fs
  /\ i.kind # "include" => root = Unnamed

Owner(f, root) == IF root = Unnamed THEN f ELSE root

CallFor(fs, call, root) == Frame(root, Target(fs, call.node.items[call.at]))

(* A call above another, of nodes in files f and g, is for its item.       *)
Above(fs, f, caller, g, call) ==
  LET i == caller.node.items[caller.at] IN
  /\ AtItem(caller)
  /\ call.node = Target(fs, i)
  /\ RootFor(fs, caller, call.root)
  /\ call.root = Unnamed => f = g

Stack(fs, vs, st, own, inlined) ==
  /\ IsSeq(st) /\ st # <<>> /\ st[1].root = "main"
  /\ \A k \in DOMAIN st : CallInv(fs, inlined, own[k], st[k])
  /\ \A k \in DOMAIN st : k > 1 => Above(fs, own[k - 1], st[k - 1], own[k], st[k])
  /\ \A j, k \in DOMAIN st : j < k /\ st[j].root # Unnamed => st[k].root # st[j].root
  /\ vs = {st[k].root : k \in DOMAIN st} \ {Unnamed}

WalkInv ==
  /\ files \in {s.files : s \in Setups}
  /\ \E own, inlined, rank, bound :
       Sound(files, inlined, rank, bound) /\ Stack(files, visited, frames, own, inlined)
  /\ walk = "failed" => /\ Top.at <= Len(Top.node.items)
                        /\ Child.kind = "include" /\ Child.of \notin DOMAIN files \ visited
  /\ walk = "done" => Top.at > Len(Top.node.items) /\ Len(frames) = 1

-----------------------------------------------------------------------------
LEMMA SeqFacts ==
  ASSUME NEW s, IsSeq(s)
  PROVE  Len(s) \in Nat /\ DOMAIN s = 1 .. Len(s) /\ s = [i \in DOMAIN s |-> s[i]] /\ (s # <<>> => Len(s) > 0)
BY EmptySeq DEF IsSeq

LEMMA TreesAre ==
  ASSUME NEW s \in Setups
  PROVE  TreesOf(s.files)
BY TreesAssumption, Zenon DEF TreesOf, IsSeq, Unnamed

LEMMA DepthIsNat == Depth \in Nat
BY TreesAssumption

(* The levels of a tree exist. *)
Levels(c, tree, n) ==
  /\ c = [m \in 0 .. n |-> c[m]]
  /\ c[0] = {tree}
  /\ \A m \in 1 .. n : c[m] = UNION {{i \in ToSet(node.items) : i.kind # "include"} : node \in c[m - 1]}

LEMMA LevelsExist ==
  ASSUME NEW n \in Nat, NEW tree
  PROVE  \E c : Levels(c, tree, n)
<1> DEFINE S == {m \in 0 .. n : ~\E c : Levels(c, tree, m)}
           Next1(nodes) == UNION {{i \in ToSet(node.items) : i.kind # "include"} : node \in nodes}
<1>1. S \in SUBSET Nat
  OBVIOUS
<1>2. S = {}
  <2>1. SUFFICES ASSUME S # {} PROVE FALSE
    OBVIOUS
  <2>2. PICK m \in S : \A k \in S : ~(k < m)
    BY <1>1, <2>1, FirstPosition
  <2>3. m \in 0 .. n /\ m \in Nat /\ ~\E c : Levels(c, tree, m)
    BY <2>2
  <2>4. m # 0
    <3>1. Levels([k \in 0 .. 0 |-> {tree}], tree, 0)
      BY DEF Levels
    <3> QED BY <2>3, <3>1
  <2>5. m - 1 \in 0 .. n /\ m - 1 \notin S
    BY <2>2, <2>3, <2>4
  <2>6. PICK c : Levels(c, tree, m - 1)
    BY <2>5
  <2> DEFINE d == [k \in 0 .. m |-> IF k = m THEN Next1(c[m - 1]) ELSE c[k]]
  <2>7. \A k \in 1 .. m - 1 : c[k] = Next1(c[k - 1])
    BY <2>6 DEF Levels
  <2>8. c[0] = {tree}
    BY <2>6 DEF Levels
  <2> HIDE DEF Next1
  <2>9. ASSUME NEW k \in 1 .. m
        PROVE  d[k] = Next1(d[k - 1])
    <3>1. k - 1 \in 0 .. m /\ d[k - 1] = c[k - 1]
      BY <2>3, <2>4
    <3>2. k # m => k \in 1 .. m - 1
      BY <2>3
    <3> QED BY <2>7, <3>1, <3>2
  <2>10. d[0] = {tree} /\ d = [k \in 0 .. m |-> d[k]]
    BY <2>3, <2>4, <2>8
  <2> HIDE DEF d
  <2>11. Levels(d, tree, m)
    BY <2>9, <2>10 DEF Levels, Next1
  <2> QED BY <2>3, <2>11
<1>3. n \in 0 .. n
  OBVIOUS
<1> QED BY <1>2, <1>3

LEMMA TreeLevels ==
  ASSUME NEW tree
  PROVE  \E c : Levels(c, tree, Depth) /\ Nodes(tree) = UNION {c[n] : n \in 0 .. Depth}
<1> DEFINE Next1(nodes) == UNION {{i \in ToSet(node.items) : i.kind # "include"} : node \in nodes}
           E(c) == [n \in 0 .. Depth |-> IF n = 0 THEN {tree} ELSE Next1(c[n - 1])]
           L == CHOOSE c : c = E(c)
<1>1. Nodes(tree) = UNION {L[n] : n \in 0 .. Depth}
  BY DEF Nodes
<1>2. Depth \in Nat
  BY DepthIsNat
<1>3. \E c : c = E(c)
  <2>1. PICK c : Levels(c, tree, Depth)
    BY <1>2, LevelsExist
  <2>2. c = [n \in 0 .. Depth |-> c[n]] /\ c[0] = {tree} /\ \A n \in 1 .. Depth : c[n] = Next1(c[n - 1])
    BY <2>1 DEF Levels
  <2> HIDE DEF Next1
  <2>3. \A n \in 0 .. Depth : c[n] = E(c)[n]
    BY <1>2, <2>2
  <2> QED BY <2>2, <2>3
<1> HIDE DEF Next1
<1>4. L = E(L)
  BY <1>3
<1> HIDE DEF L
<1>5. L = [n \in 0 .. Depth |-> L[n]] /\ L[0] = {tree} /\ \A n \in 1 .. Depth : L[n] = Next1(L[n - 1])
  <2>1. \A n \in 0 .. Depth : L[n] = E(L)[n]
    BY <1>4
  <2>2. L = [n \in 0 .. Depth |-> L[n]]
    BY <1>4
  <2>3. L[0] = {tree}
    BY <1>2, <2>1
  <2>4. \A n \in 1 .. Depth : n \in 0 .. Depth /\ n # 0
    BY <1>2
  <2>5. \A n \in 1 .. Depth : L[n] = Next1(L[n - 1])
    BY <2>1, <2>4
  <2> QED BY <2>2, <2>3, <2>5
<1>6. Levels(L, tree, Depth)
  BY <1>5 DEF Levels, Next1
<1> QED BY <1>1, <1>6

LEMMA RootIsNode ==
  ASSUME NEW tree
  PROVE  tree \in Nodes(tree)
<1>1. 0 \in 0 .. Depth
  BY DepthIsNat
<1> QED BY <1>1, TreeLevels DEF Levels

(* A set that is closed under going down holds the whole tree. *)
LEMMA NodesLeast ==
  ASSUME NEW tree, NEW S, tree \in S,
         \A node \in S : \A i \in ToSet(node.items) : i.kind # "include" => i \in S
  PROVE  Nodes(tree) \subseteq S
<1>1. PICK c : Levels(c, tree, Depth) /\ Nodes(tree) = UNION {c[n] : n \in 0 .. Depth}
  BY TreeLevels
<1> DEFINE Out == {n \in 0 .. Depth : ~(c[n] \subseteq S)}
<1>2. Out = {}
  <2>1. SUFFICES ASSUME Out # {} PROVE FALSE
    OBVIOUS
  <2>2. PICK n \in Out : \A k \in Out : ~(k < n)
    <3>1. Out \in SUBSET Nat
      OBVIOUS
    <3> QED BY <2>1, <3>1, FirstPosition
  <2>3. n # 0
    BY <1>1, <2>2 DEF Levels
  <2>4. n \in 1 .. Depth /\ n - 1 \in 0 .. Depth /\ n - 1 \notin Out
    BY <2>2, <2>3, DepthIsNat
  <2>5. c[n - 1] \subseteq S
    BY <2>4
  <2>6. c[n] = UNION {{i \in ToSet(node.items) : i.kind # "include"} : node \in c[n - 1]}
    BY <1>1, <2>4 DEF Levels
  <2> QED BY <2>2, <2>5, <2>6
<1> QED BY <1>1, <1>2

-----------------------------------------------------------------------------
LEMMA NodeFacts ==
  ASSUME NEW fs, TreesOf(fs), NEW f \in DOMAIN fs, NEW node \in Nodes(fs[f])
  PROVE  /\ "kind" \in DOMAIN node /\ "items" \in DOMAIN node /\ IsSeq(node.items)
         /\ Len(node.items) \in Nat /\ DOMAIN node.items = 1 .. Len(node.items)
         /\ \A j \in DOMAIN node.items : node.items[j].kind # "include" => node.items[j] \in Nodes(fs[f])
<1>1. "kind" \in DOMAIN node /\ "items" \in DOMAIN node /\ IsSeq(node.items)
  BY DEF TreesOf
<1>2. \A i \in ToSet(node.items) : i.kind # "include" => i \in Nodes(fs[f])
  BY DEF TreesOf
<1>3. \A j \in DOMAIN node.items : node.items[j] \in ToSet(node.items)
  BY DEF ToSet
<1> QED BY <1>1, <1>2, <1>3, SeqFacts

LEMMA Pushed ==
  ASSUME NEW s, IsSeq(s), NEW e
  PROVE  /\ IsSeq(Append(s, e)) /\ Append(s, e) # <<>>
         /\ Len(Append(s, e)) = Len(s) + 1 /\ DOMAIN Append(s, e) = 1 .. Len(s) + 1
         /\ \A i \in 1 .. Len(s) : Append(s, e)[i] = s[i]
         /\ Append(s, e)[Len(s) + 1] = e
<1> DEFINE S == ToSet(s) \cup {e}
<1>1. s \in Seq(S) /\ e \in S
  BY SeqMonotonic DEF IsSeq
<1> HIDE DEF S
<1>2. Append(s, e) \in Seq(S)
  BY <1>1, AppendProperties
<1>3. IsSeq(Append(s, e))
  BY <1>2, SeqOfAny
<1> QED BY <1>1, <1>3, AppendProperties, SeqFacts

LEMMA Fronted ==
  ASSUME NEW s, IsSeq(s), Len(s) > 1
  PROVE  /\ IsSeq(Front(s)) /\ Front(s) # <<>>
         /\ Len(Front(s)) = Len(s) - 1 /\ DOMAIN Front(s) = 1 .. Len(s) - 1
         /\ \A i \in 1 .. Len(s) - 1 : Front(s)[i] = s[i]
<1>1. Len(s) \in Nat /\ DOMAIN s = 1 .. Len(s)
  BY SeqFacts
<1>2. \A i \in 1 .. Len(s) - 1 : s[i] \in ToSet(s)
  BY <1>1 DEF ToSet
<1>3. /\ SubSeq(s, 1, Len(s) - 1) \in Seq(ToSet(s)) /\ Len(SubSeq(s, 1, Len(s) - 1)) = Len(s) - 1
      /\ \A i \in 1 .. Len(s) - 1 : SubSeq(s, 1, Len(s) - 1)[i] = s[i]
  <2>1. Len(s) - 1 \in Int /\ 1 \in Int /\ 1 <= Len(s) - 1 /\ Len(s) - 1 - 1 + 1 = Len(s) - 1
    BY <1>1
  <2>2. \A i \in 1 .. Len(s) - 1 : 1 + i - 1 = i
    BY <1>1
  <2> QED BY <1>2, <2>1, <2>2, SubSeqProperties
<1> DEFINE t == SubSeq(s, 1, Len(s) - 1)
<1> HIDE DEF t
<1>4. IsSeq(t) /\ Len(t) = Len(s) - 1
  BY <1>3, SeqOfAny DEF t
<1>5. DOMAIN t = 1 .. Len(s) - 1 /\ t # <<>>
  <2>1. DOMAIN t = 1 .. Len(t) /\ Len(<<>>) = 0
    BY <1>4, SeqFacts, EmptySeq
  <2> QED BY <1>1, <1>4, <2>1
<1> QED BY <1>3, <1>4, <1>5 DEF Front, t

LEMMA UptoStep ==
  ASSUME NEW fs, NEW inlined, NEW node, NEW n \in Nat,
         IsSeq(PartOf(fs, inlined, node, node.items[n + 1]))
  PROVE  Upto(fs, inlined, node, n + 1)
           = Upto(fs, inlined, node, n) \o PartOf(fs, inlined, node, node.items[n + 1])
<1> DEFINE P(j) == PartOf(fs, inlined, node, node.items[j])
           p == [j \in 1 .. n + 1 |-> P(j)]
           q == [j \in 1 .. n |-> P(j)]
<1> HIDE DEF P
<1>1. /\ DOMAIN p = 1 .. n + 1 /\ p = [j \in DOMAIN p |-> p[j]] /\ DOMAIN q = 1 .. n /\ q = [j \in DOMAIN q |-> q[j]]
      /\ \A j \in 1 .. n : p[j] = q[j]
      /\ p[n + 1] = P(n + 1)
  OBVIOUS
<1>2. IsSeq(p[n + 1])
  BY <1>1 DEF P
<1> HIDE DEF p, q
<1>3. FlattenSeq(p) = FlattenSeq(q) \o p[n + 1]
  BY <1>1, <1>2, FlattenStep
<1> QED BY <1>1, <1>3 DEF Upto, P, p, q

LEMMA UptoNone ==
  ASSUME NEW fs, NEW inlined, NEW node
  PROVE  Upto(fs, inlined, node, 0) = <<>> /\ IsSeq(<<>>)
<1>1. Upto(fs, inlined, node, 0) = <<>>
  BY FlattenNone DEF Upto
<1>2. IsSeq(<<>>)
  BY DEF IsSeq
<1> QED BY <1>1, <1>2

LEMMA UptoSame ==
  ASSUME NEW fs, NEW inlined, NEW more, NEW node, NEW n \in Nat,
         \A j \in 1 .. n : Known(fs, inlined, node.items[j]),
         \A x \in DOMAIN inlined : inlined[x] = more[x]
  PROVE  Upto(fs, inlined, node, n) = Upto(fs, more, node, n)
<1>1. ASSUME NEW j \in 1 .. n
      PROVE  PartOf(fs, inlined, node, node.items[j]) = PartOf(fs, more, node, node.items[j])
  BY DEF Known, Target, PartOf
<1>2. [j \in 1 .. n |-> PartOf(fs, inlined, node, node.items[j])] = [j \in 1 .. n |-> PartOf(fs, more, node, node.items[j])]
  BY <1>1
<1> QED BY <1>2 DEF Upto

LEMMA PartIsSeq ==
  ASSUME NEW fs, NEW inlined, NEW rank, NEW bound, Sound(fs, inlined, rank, bound),
         NEW node, NEW i, Known(fs, inlined, i)
  PROVE  IsSeq(PartOf(fs, inlined, node, i))
BY OneOfAny DEF Sound, Known, Target, PartOf

LEMMA Callee ==
  ASSUME NEW fs, TreesOf(fs), NEW inlined, NEW f, NEW call, CallInv(fs, inlined, f, call), AtItem(call),
         NEW root, RootFor(fs, call, root)
  PROVE  /\ CallInv(fs, inlined, Owner(f, root), CallFor(fs, call, root))
         /\ Above(fs, f, call, Owner(f, root), CallFor(fs, call, root))
         /\ CallFor(fs, call, root).root = root
<1> DEFINE i == call.node.items[call.at]
           g == Owner(f, root)
           new == CallFor(fs, call, root)
<1>1. f \in DOMAIN fs /\ call.node \in Nodes(fs[f]) /\ call.at \in 1 .. Len(call.node.items) + 1
  BY DEF CallInv
<1>2. Len(call.node.items) \in Nat /\ DOMAIN call.node.items = 1 .. Len(call.node.items) /\ call.at \in DOMAIN call.node.items
  BY <1>1, NodeFacts DEF AtItem
<1>3. g \in DOMAIN fs /\ Target(fs, i) \in Nodes(fs[g]) /\ (root # Unnamed => g = root /\ Target(fs, i) = fs[root])
  <2>1. CASE i.kind = "include"
    BY <2>1, RootIsNode DEF Target, RootFor, TreesOf, Owner
  <2>2. CASE i.kind # "include"
    BY <1>1, <1>2, <2>2, NodeFacts DEF Target, RootFor, Owner
  <2> QED BY <2>1, <2>2
<1>4. /\ DOMAIN new = {"root", "node", "at", "expanded"} /\ new.root = root /\ new.node = Target(fs, i)
      /\ new.at = 1 /\ new.expanded = <<>>
  BY DEF CallFor, Frame
<1> HIDE DEF new
<1>5. 1 \in 1 .. Len(new.node.items) + 1 /\ 1 .. new.at - 1 = {}
  BY <1>3, <1>4, NodeFacts
<1>6. new.expanded = Upto(fs, inlined, new.node, new.at - 1) /\ IsSeq(new.expanded)
  BY <1>4, UptoNone
<1>7. CallInv(fs, inlined, g, new)
  BY <1>3, <1>4, <1>5, <1>6 DEF CallInv
<1>8. Above(fs, f, call, g, new)
  BY <1>4 DEF Above, Owner
<1> QED BY <1>4, <1>7, <1>8 DEF new

LEMMA PushStep ==
  ASSUME NEW fs, TreesOf(fs), NEW vs, NEW st, NEW own, NEW inlined, Stack(fs, vs, st, own, inlined),
         NEW n, n = Len(st), AtItem(st[n]), NEW root,
         RootFor(fs, st[n], root), root \notin vs
  PROVE  \E owns : Stack(fs, (vs \cup {root}) \ {Unnamed},
                         Append(st, CallFor(fs, st[n], root)), owns, inlined)
<1> DEFINE g == Owner(own[n], root)
           new == CallFor(fs, st[n], root)
           sts == Append(st, new)
           owns == [k \in 1 .. n + 1 |-> IF k = n + 1 THEN g ELSE own[k]]
<1>1. IsSeq(st) /\ n \in Nat /\ n > 0 /\ DOMAIN st = 1 .. n
  BY SeqFacts DEF Stack
<1>2. CallInv(fs, inlined, own[n], st[n])
  BY <1>1 DEF Stack
<1>3. CallInv(fs, inlined, g, new) /\ Above(fs, own[n], st[n], g, new) /\ new.root = root
  BY <1>2, Callee
<1>4. /\ IsSeq(sts) /\ sts # <<>> /\ Len(sts) = n + 1 /\ DOMAIN sts = 1 .. n + 1
      /\ \A k \in 1 .. n : sts[k] = st[k]
      /\ sts[n + 1] = new
  BY <1>1, Pushed
<1>5. root # Unnamed => \A k \in 1 .. n : st[k].root # root
  BY <1>1 DEF Stack
<1>6. \A k \in 1 .. n : owns[k] = own[k]
  BY <1>1
<1>7. owns[n + 1] = g
  BY <1>1
<1> HIDE DEF g, new, sts, owns
<1>8. sts[1].root = "main"
  BY <1>1, <1>4 DEF Stack
<1>9. ASSUME NEW k \in 1 .. n + 1
      PROVE  CallInv(fs, inlined, owns[k], sts[k])
  <2>1. CASE k = n + 1
    BY <1>3, <1>4, <1>7, <2>1
  <2>2. CASE k # n + 1
    <3>1. k \in 1 .. n
      BY <1>1, <2>2
    <3> QED BY <1>1, <1>4, <1>6, <3>1 DEF Stack
  <2> QED BY <2>1, <2>2
<1>10. ASSUME NEW k \in 1 .. n + 1, k > 1
       PROVE  Above(fs, owns[k - 1], sts[k - 1], owns[k], sts[k])
  <2>1. CASE k = n + 1
    BY <1>1, <1>3, <1>4, <1>6, <1>7, <2>1
  <2>2. CASE k # n + 1
    <3>1. k \in 1 .. n /\ k - 1 \in 1 .. n
      BY <1>1, <1>10, <2>2
    <3> QED BY <1>1, <1>4, <1>6, <1>10, <3>1 DEF Stack
  <2> QED BY <2>1, <2>2
<1>11. \A j, k \in 1 .. n + 1 : j < k /\ sts[j].root # Unnamed => sts[k].root # sts[j].root
  <2>1. SUFFICES ASSUME NEW j \in 1 .. n + 1, NEW k \in 1 .. n + 1, j < k, sts[j].root # Unnamed
                 PROVE  sts[k].root # sts[j].root
    OBVIOUS
  <2>2. j \in 1 .. n
    BY <1>1, <2>1
  <2>3. CASE k = n + 1
    BY <1>3, <1>4, <1>5, <2>1, <2>2, <2>3
  <2>4. CASE k # n + 1
    <3>1. k \in 1 .. n
      BY <1>1, <2>4
    <3> QED BY <1>1, <1>4, <2>1, <2>2, <3>1 DEF Stack
  <2> QED BY <2>3, <2>4
<1>12. (vs \cup {root}) \ {Unnamed} = {sts[k].root : k \in 1 .. n + 1} \ {Unnamed}
  <2>1. vs = {st[k].root : k \in 1 .. n} \ {Unnamed}
    BY <1>1 DEF Stack
  <2>2. {sts[k].root : k \in 1 .. n + 1} = {st[k].root : k \in 1 .. n} \cup {root}
    <3>1. \A k \in 1 .. n + 1 : k \in 1 .. n \/ k = n + 1
      BY <1>1
    <3>2. n + 1 \in 1 .. n + 1 /\ \A k \in 1 .. n : k \in 1 .. n + 1
      BY <1>1
    <3> QED BY <1>3, <1>4, <3>1, <3>2
  <2> QED BY <2>1, <2>2
<1>13. Stack(fs, (vs \cup {root}) \ {Unnamed}, sts, owns, inlined)
  BY <1>4, <1>8, <1>9, <1>10, <1>11, <1>12 DEF Stack
<1> QED BY <1>13 DEF sts, new

(* The innermost call returns: its node is known then.                     *)
Grows(less, more) == DOMAIN less \subseteq DOMAIN more /\ \A x \in DOMAIN less : less[x] = more[x]

Filled(call) == [call.node EXCEPT !.items = call.expanded]

LEMMA KnownGrows ==
  ASSUME NEW fs, NEW less, NEW more, Grows(less, more), NEW i, Known(fs, less, i)
  PROVE  Known(fs, more, i)
BY DEF Grows, Known

LEMMA CallGrows ==
  ASSUME NEW fs, TreesOf(fs), NEW less, NEW more, Grows(less, more), NEW f, NEW call, CallInv(fs, less, f, call)
  PROVE  CallInv(fs, more, f, call)
<1>1. f \in DOMAIN fs /\ call.node \in Nodes(fs[f]) /\ call.at \in 1 .. Len(call.node.items) + 1
  BY DEF CallInv
<1>2. call.at - 1 \in Nat
  BY <1>1, NodeFacts
<1>3. \A j \in 1 .. call.at - 1 : Known(fs, less, call.node.items[j])
  BY DEF CallInv
<1>4. Upto(fs, less, call.node, call.at - 1) = Upto(fs, more, call.node, call.at - 1)
  BY <1>2, <1>3, UptoSame DEF Grows
<1>5. \A j \in 1 .. call.at - 1 : Known(fs, more, call.node.items[j])
  BY <1>3, KnownGrows
<1> QED BY <1>4, <1>5 DEF CallInv

LEMMA StackGrows ==
  ASSUME NEW fs, TreesOf(fs), NEW vs, NEW st, NEW own, NEW less, NEW more, Grows(less, more), Stack(fs, vs, st, own, less)
  PROVE  Stack(fs, vs, st, own, more)
<1>1. \A k \in DOMAIN st : CallInv(fs, more, own[k], st[k])
  BY CallGrows DEF Stack
<1> QED BY <1>1 DEF Stack

LEMMA ReturnKnown ==
  ASSUME NEW fs, TreesOf(fs), NEW less, NEW rank, NEW bound, Sound(fs, less, rank, bound),
         NEW f, NEW call, CallInv(fs, less, f, call), ~AtItem(call)
  PROVE  \E more, ranks, bounds :
           /\ Sound(fs, more, ranks, bounds) /\ Grows(less, more)
           /\ call.node \in DOMAIN more /\ more[call.node] = Filled(call)
<1> DEFINE x == call.node
           more == [n \in DOMAIN less \cup {x} |-> IF n \in DOMAIN less THEN less[n] ELSE Filled(call)]
           ranks == [n \in DOMAIN less \cup {x} |-> IF n \in DOMAIN less THEN rank[n] ELSE bound]
<1>1. /\ f \in DOMAIN fs /\ x \in Nodes(fs[f]) /\ Len(x.items) \in Nat /\ DOMAIN x.items = 1 .. Len(x.items)
      /\ call.at - 1 = Len(x.items) /\ "items" \in DOMAIN x
  <2>1. f \in DOMAIN fs /\ x \in Nodes(fs[f]) /\ call.at \in 1 .. Len(x.items) + 1
    BY DEF CallInv
  <2> QED BY <2>1, NodeFacts DEF AtItem
<1>2. /\ \A j \in DOMAIN x.items : Known(fs, less, x.items[j])
      /\ call.expanded = Upto(fs, less, x, Len(x.items)) /\ IsSeq(call.expanded)
  BY <1>1 DEF CallInv
<1>3. Filled(call).items = call.expanded
  BY <1>1 DEF Filled
<1>4. CASE x \in DOMAIN less
  <2>1. less[x] = Filled(call)
    BY <1>2, <1>4 DEF Sound, Filled
  <2>2. Grows(less, less)
    BY DEF Grows
  <2> QED BY <1>4, <2>1, <2>2
<1>5. CASE x \notin DOMAIN less
  <2>1. Grows(less, more) /\ DOMAIN more = DOMAIN less \cup {x} /\ more[x] = Filled(call)
    BY <1>5 DEF Grows
  <2>2. (\A n \in DOMAIN less : ranks[n] = rank[n]) /\ ranks[x] = bound
    BY <1>5
  <2> HIDE DEF more, ranks
  <2>3. bound \in Nat /\ bound + 1 \in Nat
    BY DEF Sound
  <2>4. ASSUME NEW n \in DOMAIN more
        PROVE  /\ \E g \in DOMAIN fs : n \in Nodes(fs[g])
               /\ ranks[n] \in Nat /\ ranks[n] < bound + 1
               /\ \A j \in DOMAIN n.items : Known(fs, more, n.items[j]) /\ ranks[Target(fs, n.items[j])] < ranks[n]
               /\ more[n] = [n EXCEPT !.items = Upto(fs, more, n, Len(n.items))]
               /\ IsSeq(more[n].items)
    <3>1. CASE n = x
      <4>1. Upto(fs, less, x, Len(x.items)) = Upto(fs, more, x, Len(x.items))
        BY <1>1, <1>2, <2>1, UptoSame DEF Grows
      <4>2. more[x] = [x EXCEPT !.items = Upto(fs, more, x, Len(x.items))] /\ IsSeq(more[x].items)
        BY <1>2, <1>3, <2>1, <4>1 DEF Filled
      <4>3. ASSUME NEW j \in DOMAIN x.items
            PROVE  Known(fs, more, x.items[j]) /\ ranks[Target(fs, x.items[j])] < ranks[x]
        <5>1. Known(fs, less, x.items[j])
          BY <1>2
        <5>2. Target(fs, x.items[j]) \in DOMAIN less
          BY <5>1 DEF Known
        <5>3. ranks[Target(fs, x.items[j])] < bound
          BY <2>2, <5>2 DEF Sound
        <5> QED BY <2>1, <2>2, <5>1, <5>3, KnownGrows
      <4> QED BY <1>1, <2>2, <2>3, <3>1, <4>2, <4>3
    <3>2. CASE n # x
      <4>1. n \in DOMAIN less /\ more[n] = less[n] /\ ranks[n] = rank[n]
        BY <2>1, <2>2, <3>2 DEF Grows
      <4>2. /\ \E g \in DOMAIN fs : n \in Nodes(fs[g])
            /\ rank[n] \in Nat /\ rank[n] < bound
            /\ less[n] = [n EXCEPT !.items = Upto(fs, less, n, Len(n.items))] /\ IsSeq(less[n].items)
            /\ \A j \in DOMAIN n.items : Known(fs, less, n.items[j]) /\ rank[Target(fs, n.items[j])] < rank[n]
        BY <4>1 DEF Sound
      <4>3. Len(n.items) \in Nat /\ DOMAIN n.items = 1 .. Len(n.items)
        BY <4>2, NodeFacts
      <4>4. Upto(fs, less, n, Len(n.items)) = Upto(fs, more, n, Len(n.items))
        BY <2>1, <4>2, <4>3, UptoSame DEF Grows
      <4>5. ASSUME NEW j \in DOMAIN n.items
            PROVE  Known(fs, more, n.items[j]) /\ ranks[Target(fs, n.items[j])] < ranks[n]
        <5>1. Known(fs, less, n.items[j]) /\ rank[Target(fs, n.items[j])] < rank[n]
          BY <4>2
        <5>2. Target(fs, n.items[j]) \in DOMAIN less
          BY <5>1 DEF Known
        <5>3. ranks[Target(fs, n.items[j])] = rank[Target(fs, n.items[j])]
          BY <2>2, <5>2
        <5> QED BY <2>1, <4>1, <5>1, <5>3, KnownGrows
      <4>6. rank[n] < bound + 1
        BY <2>3, <4>2
      <4> QED BY <4>1, <4>2, <4>4, <4>5, <4>6
    <3> QED BY <3>1, <3>2
  <2>5. Sound(fs, more, ranks, bound + 1)
    BY <2>3, <2>4 DEF Sound
  <2> QED BY <2>1, <2>5
<1> QED BY <1>4, <1>5

LEMMA PutIs ==
  ASSUME NEW expanded, NEW kind, NEW root, NEW node
  PROVE  Put(expanded, kind, root, node)
           = IF root # Unnamed /\ kind = "seq" /\ node.kind = "seq" THEN expanded \o node.items ELSE Append(expanded, node)
BY Zenon DEF Put, Unnamed

LEMMA PutsPart ==
  ASSUME NEW fs, TreesOf(fs), NEW inlined, NEW f, NEW g, NEW caller, NEW call,
         CallInv(fs, inlined, f, caller), Above(fs, f, caller, g, call),
         call.node \in DOMAIN inlined, inlined[call.node] = Filled(call), "kind" \in DOMAIN call.node
  PROVE  /\ Known(fs, inlined, caller.node.items[caller.at])
         /\ Put(caller.expanded, caller.node.kind, call.root, Filled(call))
              = caller.expanded \o PartOf(fs, inlined, caller.node, caller.node.items[caller.at])
<1> DEFINE i == caller.node.items[caller.at]
           e == caller.expanded
           kind == caller.node.kind
           r == Filled(call)
<1>1. IsSeq(e)
  BY DEF CallInv
<1>2. r.kind = call.node.kind
  BY DEF Filled
<1>3. /\ call.node = Target(fs, i)
      /\ i.kind = "include" => call.root = i.of /\ call.root \in DOMAIN fs
      /\ i.kind # "include" => call.root = Unnamed
  BY DEF Above, RootFor
<1>4. Append(e, r) = e \o <<r>>
  BY <1>1, AppendOfAny
<1> HIDE DEF i
<1>5. Put(e, kind, call.root, r) = IF call.root # Unnamed /\ kind = "seq" /\ r.kind = "seq" THEN e \o r.items ELSE Append(e, r)
  BY PutIs
<1>6. CASE i.kind = "include"
  <2>1. call.root = i.of /\ i.of \in DOMAIN fs /\ call.root # Unnamed /\ call.node = fs[i.of]
    BY <1>3, <1>6 DEF TreesOf, Target
  <2>2. PartOf(fs, inlined, caller.node, i) = IF kind = "seq" /\ r.kind = "seq" THEN r.items ELSE <<r>>
    BY <1>2, <1>6, <2>1 DEF PartOf
  <2> QED BY <1>3, <1>4, <1>5, <2>1, <2>2 DEF Known, i
<1>7. CASE i.kind # "include"
  <2>1. call.root = Unnamed /\ call.node = i
    BY <1>3, <1>7 DEF Target
  <2>2. PartOf(fs, inlined, caller.node, i) = <<r>>
    BY <1>7, <2>1 DEF PartOf
  <2> QED BY <1>3, <1>4, <1>5, <1>7, <2>1, <2>2 DEF Known, i
<1> QED BY <1>6, <1>7

LEMMA CallReturns ==
  ASSUME NEW fs, TreesOf(fs), NEW inlined, NEW rank, NEW bound, Sound(fs, inlined, rank, bound),
         NEW f, NEW g, NEW caller, NEW call,
         CallInv(fs, inlined, f, caller), CallInv(fs, inlined, g, call), Above(fs, f, caller, g, call),
         call.node \in DOMAIN inlined, inlined[call.node] = Filled(call),
         NEW next, DOMAIN next = DOMAIN caller, next.root = caller.root, next.node = caller.node, next.at = caller.at + 1,
         next.expanded = Put(caller.expanded, caller.node.kind, call.root, Filled(call))
  PROVE  CallInv(fs, inlined, f, next)
<1> DEFINE node == caller.node
           n == caller.at - 1
           i == node.items[caller.at]
<1>1. /\ f \in DOMAIN fs /\ node \in Nodes(fs[f]) /\ Len(node.items) \in Nat /\ caller.at \in 1 .. Len(node.items)
      /\ n \in Nat /\ caller.at = n + 1
  <2>1. f \in DOMAIN fs /\ node \in Nodes(fs[f]) /\ caller.at \in 1 .. Len(node.items) + 1
    BY DEF CallInv
  <2>2. caller.at <= Len(node.items)
    BY DEF Above, AtItem
  <2> QED BY <2>1, <2>2, NodeFacts
<1>2. "kind" \in DOMAIN call.node
  <2>1. g \in DOMAIN fs /\ call.node \in Nodes(fs[g])
    BY DEF CallInv
  <2> QED BY <2>1, NodeFacts
<1>3. Known(fs, inlined, i) /\ next.expanded = caller.expanded \o PartOf(fs, inlined, node, i)
  <2>1. /\ Known(fs, inlined, caller.node.items[caller.at])
        /\ Put(caller.expanded, caller.node.kind, call.root, Filled(call))
             = caller.expanded \o PartOf(fs, inlined, caller.node, caller.node.items[caller.at])
    BY <1>2, PutsPart
  <2> QED BY <2>1
<1>4. IsSeq(PartOf(fs, inlined, node, i))
  BY <1>3, PartIsSeq
<1>5. caller.expanded = Upto(fs, inlined, node, n) /\ IsSeq(caller.expanded) /\ \A j \in 1 .. n : Known(fs, inlined, node.items[j])
  BY DEF CallInv
<1> HIDE DEF node, n, i
<1>6. i = node.items[n + 1]
  BY <1>1 DEF i, node
<1>7. next.expanded = Upto(fs, inlined, node, n + 1)
  BY <1>1, <1>3, <1>4, <1>5, <1>6, UptoStep
<1>8. IsSeq(next.expanded)
  BY <1>3, <1>4, <1>5, ConcatOfAny
<1>9. \A j \in 1 .. n + 1 : Known(fs, inlined, node.items[j])
  BY <1>1, <1>3, <1>5, <1>6
<1>10. next.at - 1 = n + 1 /\ next.at \in 1 .. Len(node.items) + 1
  BY <1>1
<1>11. /\ DOMAIN next = {"root", "node", "at", "expanded"} /\ next.node = node
       /\ (next.root # Unnamed => f = next.root /\ node = fs[next.root])
  BY DEF CallInv, node
<1> QED BY <1>1, <1>7, <1>8, <1>9, <1>10, <1>11 DEF CallInv

Popped(st, n) ==
  [Front(st) EXCEPT ![n - 1].at = @ + 1,
                    ![n - 1].expanded = Put(@, st[n - 1].node.kind, st[n].root, Filled(st[n]))]

LEMMA PopStep ==
  ASSUME NEW fs, TreesOf(fs), NEW inlined, NEW rank, NEW bound, Sound(fs, inlined, rank, bound),
         NEW vs, NEW st, NEW own, Stack(fs, vs, st, own, inlined), NEW n, n = Len(st), n > 1,
         st[n].node \in DOMAIN inlined, inlined[st[n].node] = Filled(st[n])
  PROVE  Stack(fs, vs \ {st[n].root}, Popped(st, n), own, inlined)
<1> DEFINE m == n - 1
           sts == Popped(st, n)
           c == st[m]
<1>1. IsSeq(st) /\ n \in Nat /\ DOMAIN st = 1 .. n /\ m \in Nat /\ m > 0 /\ m \in 1 .. n /\ n \in 1 .. n
  BY SeqFacts DEF Stack
<1>2. /\ IsSeq(Front(st)) /\ Front(st) # <<>> /\ Len(Front(st)) = m /\ DOMAIN Front(st) = 1 .. m
      /\ \A k \in 1 .. m : Front(st)[k] = st[k]
  BY <1>1, Fronted
<1>3. CallInv(fs, inlined, own[m], c) /\ CallInv(fs, inlined, own[n], st[n]) /\ Above(fs, own[m], c, own[n], st[n])
  BY <1>1 DEF Stack
<1>4. DOMAIN c = {"root", "node", "at", "expanded"}
  BY <1>3 DEF CallInv
<1>5. /\ DOMAIN sts = 1 .. m /\ sts = [k \in 1 .. m |-> sts[k]]
      /\ \A k \in 1 .. m : k # m => sts[k] = st[k]
      /\ DOMAIN sts[m] = DOMAIN c /\ sts[m].root = c.root /\ sts[m].node = c.node /\ sts[m].at = c.at + 1
      /\ sts[m].expanded = Put(c.expanded, c.node.kind, st[n].root, Filled(st[n]))
  <2> DEFINE front == Front(st)
             e == Put(c.expanded, c.node.kind, st[n].root, Filled(st[n]))
             nextAt == [front EXCEPT ![m].at = @ + 1]
  <2>1. front = [k \in 1 .. m |-> front[k]] /\ front[m] = c /\ m \in DOMAIN front
    BY <1>1, <1>2, SeqFacts
  <2>2. sts = [front EXCEPT ![m].at = @ + 1, ![m].expanded = Put(@, c.node.kind, st[n].root, Filled(st[n]))]
    BY DEF Popped
  <2> HIDE DEF front, m, c
  <2>3. nextAt[m] = [c EXCEPT !.at = @ + 1] /\ DOMAIN nextAt = DOMAIN front
    BY <2>1
  <2>4. nextAt[m].expanded = c.expanded
    BY <1>4, <2>3
  <2>5. sts = [front EXCEPT ![m] = [[c EXCEPT !.at = @ + 1] EXCEPT !.expanded = e]]
    BY <2>1, <2>2, <2>3, <2>4
  <2>6. sts[m] = [[c EXCEPT !.at = @ + 1] EXCEPT !.expanded = e]
    BY <2>1, <2>5
  <2> HIDE DEF e
  <2>7. DOMAIN sts = 1 .. m /\ sts = [k \in 1 .. m |-> sts[k]] /\ \A k \in 1 .. m : k # m => sts[k] = front[k]
    BY <1>2, <2>5 DEF front
  <2>8. \A k \in 1 .. m : front[k] = st[k]
    BY <1>2 DEF front
  <2>9. /\ DOMAIN sts[m] = DOMAIN c /\ sts[m].root = c.root /\ sts[m].node = c.node /\ sts[m].at = c.at + 1
        /\ sts[m].expanded = e
    BY <1>4, <2>6
  <2> QED BY <2>7, <2>8, <2>9 DEF e
<1> HIDE DEF m, sts, c
<1>6. CallInv(fs, inlined, own[m], sts[m])
  BY <1>3, <1>5, CallReturns
<1>7. \A k \in 1 .. m : k \in 1 .. n /\ sts[k].root = st[k].root /\ sts[k].node = st[k].node
  BY <1>1, <1>5 DEF m, c
<1>8. IsSeq(sts) /\ sts # <<>>
  <2>1. sts \in [1 .. m -> ToSet(sts)]
    BY <1>5 DEF ToSet
  <2>2. sts \in Seq(ToSet(sts))
    BY <1>1, <2>1
  <2>3. 1 \in DOMAIN sts
    BY <1>1, <1>5
  <2> QED BY <2>2, <2>3 DEF IsSeq
<1>9. sts[1].root = "main"
  BY <1>1, <1>7 DEF Stack
<1>10. ASSUME NEW k \in 1 .. m
       PROVE  CallInv(fs, inlined, own[k], sts[k])
  BY <1>1, <1>5, <1>6, <1>7 DEF Stack
<1>11. ASSUME NEW k \in 1 .. m, k > 1
       PROVE  Above(fs, own[k - 1], sts[k - 1], own[k], sts[k])
  <2>1. k - 1 \in 1 .. m /\ k - 1 # m /\ k \in 1 .. n
    BY <1>1, <1>7, <1>11
  <2>2. Above(fs, own[k - 1], st[k - 1], own[k], st[k])
    BY <1>1, <1>11, <2>1 DEF Stack
  <2>3. sts[k - 1] = st[k - 1] /\ sts[k].root = st[k].root /\ sts[k].node = st[k].node
    BY <1>5, <1>7, <2>1
  <2> QED BY <2>2, <2>3 DEF Above
<1>12. \A j, k \in 1 .. m : j < k /\ sts[j].root # Unnamed => sts[k].root # sts[j].root
  BY <1>1, <1>7 DEF Stack
<1>13. vs \ {st[n].root} = {sts[k].root : k \in 1 .. m} \ {Unnamed}
  <2>1. vs = {st[k].root : k \in 1 .. n} \ {Unnamed}
    BY <1>1 DEF Stack
  <2>2. \A k \in 1 .. n : k \in 1 .. m \/ k = n
    BY <1>1 DEF m
  <2>3. ASSUME NEW k \in 1 .. m
        PROVE  st[k].root # Unnamed => st[n].root # st[k].root
    <3>1. k \in 1 .. n /\ n \in 1 .. n /\ k < n
      BY <1>1 DEF m
    <3> QED BY <1>1, <3>1 DEF Stack
  <2> QED BY <1>1, <1>7, <2>1, <2>2, <2>3
<1>14. Stack(fs, vs \ {st[n].root}, sts, own, inlined)
  BY <1>5, <1>8, <1>9, <1>10, <1>11, <1>12, <1>13 DEF Stack
<1> QED BY <1>14 DEF sts

-----------------------------------------------------------------------------
(* The steps of the walk *)

LEMMA TreesOfFiles ==
  ASSUME WalkInv
  PROVE  TreesOf(files)
BY TreesAre DEF WalkInv

LEMMA WalkInit == Init => WalkInv
<1> SUFFICES ASSUME Init PROVE WalkInv
  OBVIOUS
<1>1. files \in {s.files : s \in Setups} /\ visited = {"main"} /\ frames = <<Frame("main", files["main"])>> /\ walk = "walking"
  BY DEF Init, InitIncludes
<1>2. TreesOf(files)
  BY <1>1, TreesAre
<1> DEFINE call == Frame("main", files["main"])
           none == [x \in {} |-> x]
           own == [k \in 1 .. 1 |-> "main"]
<1>3. Sound(files, none, none, 0)
  BY DEF Sound
<1>4. "main" \in DOMAIN files /\ "main" # Unnamed
  BY <1>2 DEF TreesOf
<1>5. /\ DOMAIN call = {"root", "node", "at", "expanded"} /\ call.root = "main" /\ call.node = files["main"]
      /\ call.at = 1 /\ call.expanded = <<>>
  BY DEF Frame
<1>6. files["main"] \in Nodes(files["main"])
  BY RootIsNode
<1> HIDE DEF call, none
<1>7. call.at \in 1 .. Len(call.node.items) + 1 /\ 1 .. call.at - 1 = {} /\ call.at - 1 = 0
  BY <1>2, <1>4, <1>5, <1>6, NodeFacts
<1>8. call.expanded = Upto(files, none, call.node, call.at - 1) /\ IsSeq(call.expanded)
  BY <1>5, <1>7, UptoNone
<1>9. CallInv(files, none, "main", call)
  BY <1>4, <1>5, <1>6, <1>7, <1>8 DEF CallInv
<1>10. IsSeq(frames) /\ frames # <<>> /\ DOMAIN frames = 1 .. 1 /\ frames[1] = call
  BY <1>1, OneOfAny DEF call
<1>11. \A k \in DOMAIN frames : k = 1 /\ frames[k] = call /\ own[k] = "main"
  BY <1>10
<1>12. visited = {frames[k].root : k \in DOMAIN frames} \ {Unnamed}
  BY <1>1, <1>4, <1>5, <1>10, <1>11
<1> HIDE DEF own
<1>13. Stack(files, visited, frames, own, none)
  BY <1>5, <1>9, <1>10, <1>11, <1>12 DEF Stack
<1> QED BY <1>1, <1>3, <1>13 DEF WalkInv

LEMMA TopIs ==
  ASSUME NEW vs, NEW own, NEW inlined, Stack(files, vs, frames, own, inlined)
  PROVE  /\ Len(frames) \in DOMAIN frames /\ Top = frames[Len(frames)]
         /\ CallInv(files, inlined, own[Len(frames)], Top)
<1>1. Len(frames) \in DOMAIN frames /\ Top = frames[Len(frames)]
  BY SeqFacts DEF Stack, Top, Last
<1> QED BY <1>1 DEF Stack

LEMMA WalkLoad == WalkInv /\ LoadInclude => WalkInv'
<1> SUFFICES ASSUME WalkInv, LoadInclude PROVE WalkInv'
  OBVIOUS
<1>1. TreesOf(files)
  BY TreesOfFiles
<1>2. PICK own, inlined, rank, bound : Sound(files, inlined, rank, bound) /\ Stack(files, visited, frames, own, inlined)
  BY DEF WalkInv
<1> DEFINE n == Len(frames)
           root == Child.of
<1>3. n \in DOMAIN frames /\ Top = frames[n]
  BY <1>2, TopIs
<1>4. AtItem(frames[n]) /\ RootFor(files, frames[n], root) /\ root \notin visited /\ root \in DOMAIN files
  BY <1>3 DEF LoadInclude, Within, AtItem, RootFor, Child
<1>5. frames' = Append(frames, CallFor(files, frames[n], root))
  BY <1>3 DEF LoadInclude, CallFor, Target, Child
<1>6. visited' = (visited \cup {root}) \ {Unnamed}
  <2>1. root # Unnamed
    BY <1>1, <1>4 DEF TreesOf
  <2>2. Unnamed \notin visited
    BY <1>2 DEF Stack
  <2> QED BY <2>1, <2>2 DEF LoadInclude
<1> HIDE DEF n, root
<1>7. \E owns : Stack(files, (visited \cup {root}) \ {Unnamed}, Append(frames, CallFor(files, frames[n], root)), owns, inlined)
  BY <1>1, <1>2, <1>4, PushStep DEF n
<1>8. \E owns : Stack(files, visited', frames', owns, inlined)
  BY <1>5, <1>6, <1>7
<1>9. files' = files /\ walk' = "walking"
  BY DEF LoadInclude, Within
<1> QED BY <1>2, <1>8, <1>9 DEF WalkInv

LEMMA DescendIs == Descend => /\ Within /\ Child.kind # "include"
                              /\ frames' = Append(frames, Frame(Unnamed, Child))
                              /\ UNCHANGED <<files, visited, walk>>
BY Zenon DEF Descend, Unnamed

LEMMA WalkDescend == WalkInv /\ Descend => WalkInv'
<1> SUFFICES ASSUME WalkInv, Descend PROVE WalkInv'
  OBVIOUS
<1>1. TreesOf(files)
  BY TreesOfFiles
<1>2. PICK own, inlined, rank, bound : Sound(files, inlined, rank, bound) /\ Stack(files, visited, frames, own, inlined)
  BY DEF WalkInv
<1> DEFINE n == Len(frames)
<1>3. n \in DOMAIN frames /\ Top = frames[n]
  BY <1>2, TopIs
<1>4. AtItem(frames[n]) /\ RootFor(files, frames[n], Unnamed)
  BY <1>3, DescendIs DEF Within, AtItem, RootFor, Child
<1>5. frames' = Append(frames, CallFor(files, frames[n], Unnamed))
  BY <1>3, DescendIs DEF CallFor, Target, Child
<1>6. Unnamed \notin visited /\ visited' = (visited \cup {Unnamed}) \ {Unnamed}
  BY <1>2, DescendIs DEF Stack
<1> HIDE DEF n
<1>7. \E owns : Stack(files, (visited \cup {Unnamed}) \ {Unnamed}, Append(frames, CallFor(files, frames[n], Unnamed)), owns, inlined)
  BY <1>1, <1>2, <1>4, <1>6, PushStep DEF n
<1>8. \E owns : Stack(files, visited', frames', owns, inlined)
  BY <1>5, <1>6, <1>7
<1>9. files' = files /\ walk' = "walking"
  BY DescendIs DEF Within
<1> QED BY <1>2, <1>8, <1>9 DEF WalkInv

LEMMA WalkReturn == WalkInv /\ Return => WalkInv'
<1> SUFFICES ASSUME WalkInv, Return PROVE WalkInv'
  OBVIOUS
<1>1. TreesOf(files)
  BY TreesOfFiles
<1>2. PICK own, less, rank, bound : Sound(files, less, rank, bound) /\ Stack(files, visited, frames, own, less)
  BY DEF WalkInv
<1> DEFINE n == Len(frames)
<1>3. n \in DOMAIN frames /\ Top = frames[n] /\ CallInv(files, less, own[n], frames[n])
  BY <1>2, TopIs
<1>4. Len(Top.node.items) \in Nat /\ Top.at \in Int
  BY <1>1, <1>3, NodeFacts DEF CallInv
<1>5. n > 1 /\ ~AtItem(frames[n])
  BY <1>3, <1>4 DEF Return, AtItem
<1>6. PICK inlined, ranks, bounds :
        /\ Sound(files, inlined, ranks, bounds) /\ Grows(less, inlined)
        /\ frames[n].node \in DOMAIN inlined /\ inlined[frames[n].node] = Filled(frames[n])
  BY <1>1, <1>2, <1>3, <1>5, ReturnKnown
<1>7. Stack(files, visited, frames, own, inlined)
  BY <1>1, <1>2, <1>6, StackGrows
<1>8. Stack(files, visited \ {frames[n].root}, Popped(frames, n), own, inlined)
  BY <1>1, <1>5, <1>6, <1>7, PopStep
<1>9. visited' = visited \ {frames[n].root}
  BY <1>3 DEF Return
<1>10. frames' = Popped(frames, n)
  <2>1. IsSeq(frames)
    BY <1>2 DEF Stack
  <2>2. n \in Nat /\ n - 1 \in 1 .. n - 1
    BY <1>5, <2>1, SeqFacts
  <2>3. Len(Front(frames)) = n - 1 /\ Front(frames)[n - 1] = frames[n - 1]
    BY <1>5, <2>1, <2>2, Fronted
  <2>4. Last(Front(frames)) = frames[n - 1]
    BY <2>3 DEF Last
  <2>5. Resolved = Filled(frames[n])
    BY <1>3 DEF Resolved, Filled
  <2>6. frames' = [Front(frames) EXCEPT
                     ![n - 1].at = @ + 1,
                     ![n - 1].expanded = Put(@, frames[n - 1].node.kind, frames[n].root, Filled(frames[n]))]
    BY <1>3, <2>3, <2>4, <2>5, Zenon DEF Return
  <2> QED BY <2>6 DEF Popped
<1>11. files' = files /\ walk' = "walking"
  BY DEF Return
<1> QED BY <1>6, <1>8, <1>9, <1>10, <1>11 DEF WalkInv

LEMMA WalkStep == WalkInv /\ [Next]_vars => WalkInv'
<1> SUFFICES ASSUME WalkInv, [Next]_vars PROVE WalkInv'
  OBVIOUS
<1>1. ASSUME UNCHANGED includes
      PROVE  WalkInv'
  BY <1>1 DEF includes, WalkInv, Top, Child
<1>2. ASSUME ResolveIncludes
      PROVE  WalkInv'
  <2>1. CASE LoadInclude
    BY <2>1, WalkLoad
  <2>2. CASE IncludeFails
    BY <2>2 DEF IncludeFails, Within, WalkInv, Top, Child
  <2>3. CASE Descend
    BY <2>3, WalkDescend
  <2>4. CASE Return
    BY <2>4, WalkReturn
  <2>5. CASE IncludesResolved
    BY <2>5 DEF IncludesResolved, WalkInv, Top
  <2> QED BY <1>2, <2>1, <2>2, <2>3, <2>4, <2>5 DEF ResolveIncludes
<1>3. ResolveIncludes \/ UNCHANGED includes
  <2>1. CASE UNCHANGED vars
    BY <2>1 DEF vars
  <2>2. CASE WalkIncludes
    BY <2>2 DEF WalkIncludes
  <2>3. CASE LoadConfig \/ Connect \/ StageOver
    BY <2>3 DEF LoadConfig, Connect, StageOver
  <2>4. CASE \E b \in Builders : NewEnv(b)
    BY <2>4 DEF NewEnv, Validate, CopyGlobals, LoadGlobal, LoadReferences, RegisterExpressions, ExpandRows, CompileQueries
  <2> QED BY <2>1, <2>2, <2>3, <2>4 DEF Next
<1> QED BY <1>1, <1>2, <1>3

-----------------------------------------------------------------------------
(* What is reached *)

LEMMA IncludedBy ==
  ASSUME NEW f \in DOMAIN files, NEW node \in Nodes(files[f]), NEW i \in ToSet(node.items), i.kind = "include"
  PROVE  i.of \in Includes(f)
BY DEF Includes

LEMMA ReachedCloses ==
  ASSUME NEW f \in Reached \cap DOMAIN files
  PROVE  Includes(f) \subseteq Reached
<1>1. ASSUME NEW g \in Includes(f)
      PROVE  g \in Reached
  <2>1. g \in Names
    BY DEF Names
  <2>2. ASSUME NEW fs \in SUBSET Names, "main" \in fs, Closed(fs)
        PROVE  g \in fs
    BY <2>2 DEF Reached, Closed
  <2> QED BY <2>1, <2>2 DEF Reached
<1> QED BY <1>1

LEMMA MainReached == "main" \in Reached
BY DEF Reached, Names

(* Once the root of main is known, so are all it comes to. *)
LEMMA KnownNodes ==
  ASSUME NEW inlined, NEW rank, NEW bound, Sound(files, inlined, rank, bound), NEW node \in DOMAIN inlined,
         NEW i \in ToSet(node.items)
  PROVE  Known(files, inlined, i) /\ rank[Target(files, i)] < rank[node]
<1>1. PICK j \in DOMAIN node.items : i = node.items[j]
  BY DEF ToSet
<1> QED BY <1>1 DEF Sound

LEMMA KnownTree ==
  ASSUME NEW inlined, NEW rank, NEW bound, Sound(files, inlined, rank, bound),
         NEW f \in DOMAIN files, files[f] \in DOMAIN inlined
  PROVE  \A node \in Nodes(files[f]) : node \in DOMAIN inlined /\ rank[node] <= rank[files[f]]
<1> DEFINE S == {node \in DOMAIN inlined : rank[node] <= rank[files[f]]}
<1>1. \A node \in DOMAIN inlined : rank[node] \in Nat
  BY DEF Sound
<1>2. files[f] \in S
  BY <1>1
<1>3. ASSUME NEW node \in S, NEW i \in ToSet(node.items), i.kind # "include"
      PROVE  i \in S
  <2>1. Known(files, inlined, i) /\ rank[Target(files, i)] < rank[node]
    BY KnownNodes
  <2>2. i \in DOMAIN inlined /\ rank[i] < rank[node]
    BY <1>3, <2>1 DEF Known, Target
  <2> QED BY <1>1, <2>2
<1> HIDE DEF S
<1>4. Nodes(files[f]) \subseteq S
  BY <1>2, <1>3, NodesLeast
<1> QED BY <1>4 DEF S

LEMMA KnownIncludes ==
  ASSUME NEW inlined, NEW rank, NEW bound, Sound(files, inlined, rank, bound),
         NEW f \in DOMAIN files, files[f] \in DOMAIN inlined, NEW g \in Includes(f)
  PROVE  g \in DOMAIN files /\ files[g] \in DOMAIN inlined /\ rank[files[g]] < rank[files[f]]
<1>1. PICK node \in Nodes(files[f]) : \E i \in ToSet(node.items) : i.kind = "include" /\ g = i.of
  BY DEF Includes
<1> PICK i \in ToSet(node.items) : i.kind = "include" /\ g = i.of
  BY <1>1
<1>2. node \in DOMAIN inlined /\ rank[node] <= rank[files[f]]
  BY KnownTree
<1>3. Known(files, inlined, i) /\ rank[Target(files, i)] < rank[node]
  BY <1>2, KnownNodes
<1>4. g \in DOMAIN files /\ files[g] \in DOMAIN inlined /\ rank[files[g]] < rank[node]
  BY <1>3 DEF Known, Target
<1>5. rank[files[g]] \in Nat /\ rank[node] \in Nat /\ rank[files[f]] \in Nat
  BY <1>2, <1>4 DEF Sound
<1> QED BY <1>2, <1>4, <1>5

LEMMA ReachedIsKnown ==
  ASSUME TreesOf(files), NEW inlined, NEW rank, NEW bound, Sound(files, inlined, rank, bound),
         files["main"] \in DOMAIN inlined
  PROVE  \A f \in Reached : f \in DOMAIN files /\ files[f] \in DOMAIN inlined
<1> DEFINE S == {f \in DOMAIN files : files[f] \in DOMAIN inlined} \cap Names
<1>1. "main" \in S
  BY DEF TreesOf, Names
<1>2. Closed(S)
  <2>1. ASSUME NEW f \in S, NEW g \in Includes(f)
        PROVE  g \in S
    <3>1. g \in DOMAIN files /\ files[g] \in DOMAIN inlined
      BY KnownIncludes
    <3>2. g \in Names
      BY DEF Names
    <3> QED BY <3>1, <3>2
  <2> QED BY <2>1 DEF Closed
<1>3. S \in SUBSET Names
  OBVIOUS
<1> HIDE DEF S
<1>4. \A f \in Reached : f \in S
  BY <1>1, <1>2, <1>3 DEF Reached
<1> QED BY <1>4 DEF S

LEMMA KnownIsWellFounded ==
  ASSUME TreesOf(files), NEW inlined, NEW rank, NEW bound, Sound(files, inlined, rank, bound),
         files["main"] \in DOMAIN inlined
  PROVE  WellFounded
<1>1. \A f \in Reached : f \in DOMAIN files /\ files[f] \in DOMAIN inlined
  BY ReachedIsKnown
<1>2. ASSUME NEW fs \in SUBSET Reached, fs # {}
      PROVE  \E f \in fs : Includes(f) \cap fs = {}
  <2> DEFINE S == {rank[files[f]] : f \in fs}
  <2>1. S \in SUBSET Nat /\ S # {}
    BY <1>1, <1>2 DEF Sound
  <2>2. PICK r \in S : \A q \in S : ~(q < r)
    BY <2>1, FirstPosition
  <2>3. PICK f \in fs : r = rank[files[f]]
    BY <2>2
  <2>4. ASSUME NEW g \in Includes(f) \cap fs
        PROVE  FALSE
    <3>1. rank[files[g]] < rank[files[f]]
      BY <1>1, KnownIncludes
    <3> QED BY <2>2, <2>3, <3>1
  <2> QED BY <2>4
<1> QED BY <1>1, <1>2 DEF WellFounded

(* What the definition yields for the nodes reached is what the walk made. *)
ReachedNodes == UNION {Nodes(files[f]) : f \in Reached}

Expanded(inlined, node) == [node EXCEPT !.items = FlattenSeq([j \in DOMAIN node.items |-> PartOf(files, inlined, node, node.items[j])])]

LEMMA ReachedItems ==
  ASSUME TreesOf(files), Reached \subseteq DOMAIN files, NEW node \in ReachedNodes
  PROVE  /\ Len(node.items) \in Nat /\ DOMAIN node.items = 1 .. Len(node.items)
         /\ \A j \in DOMAIN node.items : LET i == node.items[j] IN
              /\ Target(files, i) \in ReachedNodes
              /\ i.kind = "include" => i.of \in DOMAIN files
<1>1. PICK f \in Reached : node \in Nodes(files[f])
  BY DEF ReachedNodes
<1>2. f \in DOMAIN files
  OBVIOUS
<1>3. Len(node.items) \in Nat /\ DOMAIN node.items = 1 .. Len(node.items)
      /\ \A j \in DOMAIN node.items : node.items[j].kind # "include" => node.items[j] \in Nodes(files[f])
  BY <1>1, <1>2, NodeFacts
<1>4. ASSUME NEW j \in DOMAIN node.items
      PROVE  LET i == node.items[j] IN Target(files, i) \in ReachedNodes /\ (i.kind = "include" => i.of \in DOMAIN files)
  <2> DEFINE i == node.items[j]
  <2>1. CASE i.kind = "include"
    <3>1. i \in ToSet(node.items)
      BY DEF ToSet
    <3> HIDE DEF i
    <3>2. i.of \in Includes(f)
      BY <1>1, <1>2, <2>1, <3>1, IncludedBy
    <3>3. i.of \in Reached
      BY <1>1, <1>2, <3>2, ReachedCloses
    <3>4. files[i.of] \in Nodes(files[i.of])
      BY RootIsNode
    <3>5. files[i.of] \in ReachedNodes
      BY <3>3, <3>4 DEF ReachedNodes
    <3>6. Target(files, i) \in ReachedNodes /\ i.of \in DOMAIN files
      BY <2>1, <3>3, <3>5 DEF Target
    <3> QED BY <3>6 DEF i
  <2>2. CASE i.kind # "include"
    BY <1>1, <1>3, <2>2 DEF Target, ReachedNodes
  <2> QED BY <2>1, <2>2
<1> QED BY <1>3, <1>4

LEMMA InlinedIs ==
  ASSUME TreesOf(files), NEW inlined, NEW rank, NEW bound, Sound(files, inlined, rank, bound),
         files["main"] \in DOMAIN inlined
  PROVE  Inlined[files["main"]] = inlined[files["main"]]
<1> DEFINE T == ReachedNodes
           E(k) == [node \in T |-> Expanded(k, node)]
           J == [node \in T |-> inlined[node]]
           K == CHOOSE k : k = E(k)
<1>1. \A f \in Reached : f \in DOMAIN files /\ files[f] \in DOMAIN inlined
  BY ReachedIsKnown
<1>2. \A node \in T : node \in DOMAIN inlined
  BY <1>1, KnownTree DEF ReachedNodes
<1>3. ASSUME NEW node \in T
      PROVE  /\ Len(node.items) \in Nat /\ DOMAIN node.items = 1 .. Len(node.items)
             /\ \A j \in DOMAIN node.items : /\ Target(files, node.items[j]) \in T
                                             /\ node.items[j].kind = "include" => node.items[j].of \in DOMAIN files
  BY <1>1, ReachedItems
<1>4. ASSUME NEW node \in T, NEW k
      PROVE  Expanded(k, node) = [node EXCEPT !.items = Upto(files, k, node, Len(node.items))]
  BY <1>3 DEF Expanded, Upto
<1>5. ASSUME NEW node \in T
      PROVE  inlined[node] = [node EXCEPT !.items = Upto(files, inlined, node, Len(node.items))]
  BY <1>2 DEF Sound
<1>6. K = E(K)
  <2>1. ASSUME NEW node \in T
        PROVE  inlined[node] = Expanded(J, node)
    <3>1. \A j \in 1 .. Len(node.items) : Known(files, J, node.items[j])
      BY <1>3 DEF Known
    <3>2. \A x \in DOMAIN J : J[x] = inlined[x]
      OBVIOUS
    <3> HIDE DEF J
    <3>3. Upto(files, J, node, Len(node.items)) = Upto(files, inlined, node, Len(node.items))
      BY <1>3, <3>1, <3>2, UptoSame
    <3> QED BY <1>4, <1>5, <3>3
  <2>2. J = E(J)
    BY <2>1
  <2> QED BY <2>2
<1>7. Inlined = K
  BY DEF Inlined, Expanded, PartOf, ReachedNodes
<1> HIDE DEF K
<1>8. \A node \in T : K[node] = Expanded(K, node)
  BY <1>6
<1> HIDE DEF T
<1>9. \A node \in T : rank[node] \in Nat
  BY <1>2 DEF Sound
<1> DEFINE Out == {node \in T : K[node] # inlined[node]}
<1>10. Out = {}
  <2>1. SUFFICES ASSUME Out # {} PROVE FALSE
    OBVIOUS
  <2> DEFINE S == {rank[node] : node \in Out}
  <2>2. S \in SUBSET Nat /\ S # {}
    BY <1>9, <2>1
  <2>3. PICK r \in S : \A q \in S : ~(q < r)
    BY <2>2, FirstPosition
  <2>4. PICK node \in Out : r = rank[node]
    BY <2>3
  <2> DEFINE less == [x \in T \ Out |-> inlined[x]]
  <2>5. ASSUME NEW j \in 1 .. Len(node.items)
        PROVE  Known(files, less, node.items[j])
    <3>1. j \in DOMAIN node.items /\ node \in DOMAIN inlined
      BY <1>2, <1>3, <2>4
    <3>2. rank[Target(files, node.items[j])] < rank[node]
      BY <3>1 DEF Sound
    <3>3. Target(files, node.items[j]) \in T \ Out
      BY <1>3, <2>3, <2>4, <3>1, <3>2
    <3> QED BY <1>3, <3>1, <3>3 DEF Known
  <2>6. (\A x \in DOMAIN less : less[x] = inlined[x]) /\ (\A x \in DOMAIN less : less[x] = K[x])
    OBVIOUS
  <2> HIDE DEF less
  <2>7. node \in T /\ Len(node.items) \in Nat
    BY <1>3, <2>4
  <2>8. Upto(files, less, node, Len(node.items)) = Upto(files, inlined, node, Len(node.items))
    BY <2>5, <2>6, <2>7, UptoSame
  <2>9. Upto(files, less, node, Len(node.items)) = Upto(files, K, node, Len(node.items))
    BY <2>5, <2>6, <2>7, UptoSame
  <2>10. K[node] = inlined[node]
    <3>1. K[node] = Expanded(K, node)
      BY <1>8, <2>7
    <3>2. Expanded(K, node) = [node EXCEPT !.items = Upto(files, K, node, Len(node.items))]
      BY <1>4, <2>7
    <3>3. Upto(files, K, node, Len(node.items)) = Upto(files, inlined, node, Len(node.items))
      BY <2>8, <2>9
    <3>4. inlined[node] = [node EXCEPT !.items = Upto(files, inlined, node, Len(node.items))]
      BY <1>5, <2>7
    <3> QED BY <3>1, <3>2, <3>3, <3>4
  <2> QED BY <2>4, <2>10
<1>11. files["main"] \in T
  BY MainReached, RootIsNode DEF T, ReachedNodes
<1> QED BY <1>7, <1>10, <1>11

LEMMA WalkDone == WalkInv /\ walk = "done" => WellFounded /\ Resolved = Inlined[files["main"]]
<1> SUFFICES ASSUME WalkInv, walk = "done" PROVE WellFounded /\ Resolved = Inlined[files["main"]]
  OBVIOUS
<1>1. TreesOf(files)
  BY TreesOfFiles
<1>2. PICK own, less, rank, bound : Sound(files, less, rank, bound) /\ Stack(files, visited, frames, own, less)
  BY DEF WalkInv
<1>3. Top = frames[1] /\ Top.root = "main" /\ CallInv(files, less, own[1], Top)
  BY <1>2, TopIs DEF WalkInv, Stack
<1>4. "main" # Unnamed /\ Top.node = files["main"]
  BY <1>1, <1>3 DEF CallInv, TreesOf
<1>5. Len(Top.node.items) \in Nat /\ Top.at \in Int
  BY <1>1, <1>3, NodeFacts DEF CallInv
<1>6. ~AtItem(Top)
  BY <1>5 DEF WalkInv, AtItem
<1>7. PICK inlined, ranks, bounds :
        /\ Sound(files, inlined, ranks, bounds) /\ Grows(less, inlined)
        /\ Top.node \in DOMAIN inlined /\ inlined[Top.node] = Filled(Top)
  BY <1>1, <1>2, <1>3, <1>6, ReturnKnown
<1>8. Resolved = Filled(Top)
  BY DEF Resolved, Filled
<1> QED BY <1>1, <1>4, <1>7, <1>8, KnownIsWellFounded, InlinedIs

(* The files of the calls, one includes the next.                          *)
LEMMA OwnersReached ==
  ASSUME TreesOf(files), NEW vs, NEW st, NEW own, NEW inlined, Stack(files, vs, st, own, inlined)
  PROVE  /\ \A k \in DOMAIN st : own[k] \in Reached \cap DOMAIN files
         /\ \A k \in DOMAIN st : k > 1 => own[k] = own[k - 1] \/ own[k] \in Includes(own[k - 1])
<1> DEFINE n == Len(st)
<1>1. IsSeq(st) /\ n \in Nat /\ n > 0 /\ DOMAIN st = 1 .. n
  BY SeqFacts DEF Stack
<1>2. \A k \in 1 .. n : CallInv(files, inlined, own[k], st[k])
  BY <1>1 DEF Stack
<1>3. ASSUME NEW k \in 1 .. n, k > 1
      PROVE  own[k] = own[k - 1] \/ own[k] \in Includes(own[k - 1])
  <2> DEFINE caller == st[k - 1]
             i == caller.node.items[caller.at]
  <2>1. k - 1 \in 1 .. n
    BY <1>1, <1>3
  <2>2. CallInv(files, inlined, own[k - 1], caller) /\ Above(files, own[k - 1], caller, own[k], st[k])
    BY <1>1, <1>3, <2>1 DEF Stack
  <2>3. own[k - 1] \in DOMAIN files /\ caller.node \in Nodes(files[own[k - 1]])
        /\ caller.at \in 1 .. Len(caller.node.items) + 1 /\ caller.at <= Len(caller.node.items)
    BY <2>2 DEF CallInv, Above, AtItem
  <2>4. i \in ToSet(caller.node.items)
    <3>1. caller.at \in DOMAIN caller.node.items
      BY <2>3, NodeFacts
    <3> QED BY <3>1 DEF ToSet
  <2>5. /\ i.kind = "include" => st[k].root = i.of /\ st[k].root \in DOMAIN files
        /\ i.kind # "include" => st[k].root = Unnamed
        /\ st[k].root = Unnamed => own[k - 1] = own[k]
    BY <2>2 DEF Above, RootFor
  <2> HIDE DEF i, caller
  <2>6. CASE i.kind = "include"
    <3>1. own[k] = i.of
      BY <1>2, <2>5, <2>6 DEF CallInv, TreesOf
    <3> QED BY <2>3, <2>4, <2>6, <3>1, IncludedBy
  <2>7. CASE i.kind # "include"
    BY <2>5, <2>7
  <2> QED BY <2>6, <2>7
<1>4. own[1] = "main"
  BY <1>1, <1>2 DEF Stack, CallInv, TreesOf
<1> HIDE DEF n
<1>5. \A k \in 1 .. n : own[k] \in DOMAIN files
  BY <1>2 DEF CallInv
<1> DEFINE Out == {k \in 1 .. n : own[k] \notin Reached}
<1>6. Out = {}
  <2>1. SUFFICES ASSUME Out # {} PROVE FALSE
    OBVIOUS
  <2>2. PICK k \in Out : \A j \in Out : ~(j < k)
    <3>1. Out \in SUBSET Nat
      OBVIOUS
    <3> QED BY <2>1, <3>1, FirstPosition
  <2>3. k # 1
    BY <1>4, <2>2, MainReached
  <2>4. k - 1 \in 1 .. n /\ k > 1 /\ k - 1 \notin Out
    BY <1>1, <2>2, <2>3
  <2>5. own[k - 1] \in Reached \cap DOMAIN files
    BY <1>5, <2>4
  <2> QED BY <1>3, <2>2, <2>4, <2>5, ReachedCloses
<1> QED BY <1>1, <1>3, <1>5, <1>6

LEMMA WalkFailed == WalkInv /\ walk = "failed" => ~WellFounded
<1> SUFFICES ASSUME WalkInv, walk = "failed" PROVE ~WellFounded
  OBVIOUS
<1>1. TreesOf(files)
  BY TreesOfFiles
<1>2. PICK own, inlined, rank, bound : Sound(files, inlined, rank, bound) /\ Stack(files, visited, frames, own, inlined)
  BY DEF WalkInv
<1> DEFINE n == Len(frames)
           c == Child.of
<1>3. n \in DOMAIN frames /\ Top = frames[n] /\ CallInv(files, inlined, own[n], Top)
  BY <1>2, TopIs
<1>4. n \in Nat /\ DOMAIN frames = 1 .. n
  BY <1>2, SeqFacts DEF Stack
<1>5. /\ \A k \in 1 .. n : own[k] \in Reached \cap DOMAIN files
      /\ \A k \in 1 .. n : k > 1 => own[k] = own[k - 1] \/ own[k] \in Includes(own[k - 1])
  BY <1>1, <1>2, <1>4, OwnersReached
<1>6. Top.at <= Len(Top.node.items) /\ Child.kind = "include" /\ (c \in visited \/ c \notin DOMAIN files)
  BY DEF WalkInv
<1>7. c \in Includes(own[n])
  <2>1. own[n] \in DOMAIN files /\ Top.node \in Nodes(files[own[n]]) /\ Top.at \in 1 .. Len(Top.node.items) + 1
    BY <1>3 DEF CallInv
  <2>2. Top.at \in DOMAIN Top.node.items
    BY <1>1, <1>6, <2>1, NodeFacts
  <2>3. Child \in ToSet(Top.node.items)
    BY <2>2 DEF Child, ToSet
  <2> QED BY <1>6, <2>1, <2>3, IncludedBy
<1>8. c \in Reached
  BY <1>3, <1>4, <1>5, <1>7, ReachedCloses
<1>9. CASE c \notin DOMAIN files
  BY <1>8, <1>9 DEF WellFounded
<1>10. CASE c \in visited
  <2>1. PICK j \in 1 .. n : c = frames[j].root /\ c # Unnamed
    BY <1>2, <1>4, <1>10 DEF Stack
  <2>2. own[j] = c
    BY <1>2, <1>4, <2>1 DEF Stack, CallInv
  <2> DEFINE fs == {own[k] : k \in j .. n}
  <2> HIDE DEF n, c
  <2>3. \A k \in j .. n : k \in 1 .. n
    BY <1>4
  <2>4. fs \in SUBSET Reached /\ c \in fs
    <3>1. j \in j .. n
      BY <1>4
    <3> QED BY <1>5, <2>2, <2>3, <3>1
  <2>5. ASSUME NEW f \in fs
        PROVE  Includes(f) \cap fs # {}
    <3>1. PICK k \in j .. n : f = own[k]
      OBVIOUS
    <3> DEFINE Out == {m \in k .. n : own[m] # f}
    <3>2. CASE Out = {}
      <4>1. n \in k .. n
        BY <1>4
      <4>2. own[n] = f
        BY <3>2, <4>1
      <4> QED BY <1>7, <2>4, <4>2
    <3>3. CASE Out # {}
      <4>1. PICK m \in Out : \A l \in Out : ~(l < m)
        <5>1. Out \in SUBSET Nat
          BY <1>4
        <5> QED BY <3>3, <5>1, FirstPosition
      <4>2. m # k /\ m \in k .. n
        BY <3>1, <4>1
      <4>3. m - 1 \in k .. n /\ m > 1 /\ m \in j .. n /\ m - 1 \notin Out
        BY <1>4, <4>1, <4>2
      <4>4. own[m - 1] = f /\ own[m] # f
        BY <4>1, <4>3
      <4>5. own[m] \in Includes(f)
        BY <1>5, <2>3, <4>3, <4>4
      <4> QED BY <4>3, <4>5
    <3> QED BY <3>2, <3>3
  <2> HIDE DEF fs
  <2> QED BY <2>4, <2>5 DEF WellFounded
<1> QED BY <1>6, <1>9, <1>10

(* Includes are resolved exactly when they can be, to the tree the files   *)
(* stand for.                                                              *)
THEOREM IncludesResolvedExactly == Spec => []IncludesExact
<1>1. Init => WalkInv
  BY WalkInit
<1>2. WalkInv /\ [Next]_vars => WalkInv'
  BY WalkStep
<1>3. WalkInv => IncludesExact
  BY WalkDone, WalkFailed DEF IncludesExact
<1> QED BY <1>1, <1>2, <1>3, PTL DEF Spec
=============================================================================
