---------------------------- MODULE RefDataProofs ----------------------------
(***************************************************************************)
(* For any environments, datasets and rows: no environment moves the rows  *)
(* of another, ref_same remembers current rows, and within a query neither *)
(* ref_diff nor uniq repeats itself.                                       *)
(*                                                                         *)
(* And for any counts, sizes and lists of a section's queries (Batch): its *)
(* rows are written once, those of a transaction together, and datasets    *)
(* are of rows that were.                                                  *)
(***************************************************************************)
EXTENDS RefData, Batch, SequenceTheorems, WellFoundedInduction, TLAPS

(* Each array an environment may see is its own.                           *)
TypeInv ==
  /\ array \in [Arrays -> Seq(Row)]
  /\ \A a \in Arrays : IsInjective(array[a])
  /\ data \in [Envs -> [Datasets -> Arrays \cup {None}]]
  /\ \A e \in Envs, d \in Datasets : data[e][d] \in {<<e, d>>, None}
  /\ uniqIndex \in [Envs -> Nat] /\ calls \in 0 .. MaxCalls
  /\ \A e \in Envs : uniqIndex[e] <= calls
  /\ uniqSeen \in [Envs -> SUBSET Values]
  /\ compiled \subseteq Locals /\ todo \in [Envs -> SUBSET Locals]
  /\ phase \in [Envs -> {"new", "loaded", "compiling", "built", "idle", "args", "sent"}]

(* The rows of ref_same were dropped when a dataset is replaced.           *)
Remembering == {"idle", "args"}
SameInv ==
  /\ oneCache \in [Envs -> [Datasets -> Row \cup {None}]]
  /\ \A e \in Envs, d \in Datasets :
       oneCache[e][d] # None =>
         phase[e] \in Remembering /\ Has(e, d) /\ oneCache[e][d] \in Range(Rows(e, d))

Before(e, d) == {Rows(e, d)[i] : i \in {j \in DOMAIN Rows(e, d) : j <= uniqIndex[e]}}

Drawn == (Datasets \X Row) \cup ({"uniq"} \X Values)

(* What was drawn lies before the index, where no swap reaches it.         *)
Accounted(e, x) ==
  \/ x[1] = "uniq" /\ x[2] \in uniqSeen[e]
  \/ x[1] \in Datasets /\ Has(e, x[1]) /\ x[2] \in Before(e, x[1])

DrawnInv ==
  /\ drawn \in [Envs -> Seq(Drawn)]
  /\ \A e \in Envs :
       /\ IsInjective(drawn[e])
       /\ phase[e] = "args" => \A i \in DOMAIN drawn[e] : Accounted(e, drawn[e][i])

RefDataInv == TypeInv /\ SameInv /\ DrawnInv

-----------------------------------------------------------------------------
(* A swap moves rows, adds none and drops none. *)
Swapped(s, i, k) == [s EXCEPT ![i] = s[k], ![k] = s[i]]

LEMMA Swap ==
  ASSUME NEW R, NEW s \in Seq(R), NEW i \in DOMAIN s, NEW k \in DOMAIN s
  PROVE  /\ Swapped(s, i, k) \in Seq(R) /\ DOMAIN Swapped(s, i, k) = DOMAIN s
         /\ Range(Swapped(s, i, k)) = Range(s) /\ Swapped(s, i, k)[k] = s[i]
         /\ \A j \in DOMAIN s \ {i, k} : Swapped(s, i, k)[j] = s[j]
         /\ IsInjective(s) => IsInjective(Swapped(s, i, k))
<1> DEFINE t == Swapped(s, i, k)
<1>1. DOMAIN t = DOMAIN s /\ t[k] = s[i] /\ t[i] = s[k] /\ \A j \in DOMAIN s \ {i, k} : t[j] = s[j]
  BY DEF Swapped
<1>2. t \in Seq(R)
  BY DEF Swapped
<1> HIDE DEF t
<1>3. Range(t) = Range(s)
  BY <1>1 DEF Range
<1>4. IsInjective(s) => IsInjective(t)
  BY <1>1 DEF IsInjective
<1> QED BY <1>1, <1>2, <1>3, <1>4 DEF t

-----------------------------------------------------------------------------
LEMMA RefDataInit ==
  ASSUME Init
  PROVE  RefDataInv
<1> USE DEF Init
<1>1. array \in [Arrays -> Seq(Row)] /\ \A a \in Arrays : IsInjective(array[a])
  <2>1. ASSUME NEW a \in Arrays PROVE array[a] \in Seq(Row) /\ IsInjective(array[a])
    <3>1. CASE a[1] = "request" /\ a[2] \in Refs
      BY <3>1, RowsAssumption
    <3>2. CASE ~(a[1] = "request" /\ a[2] \in Refs)
      BY <3>2 DEF IsInjective
    <3> QED BY <3>1, <3>2
  <2> QED BY <2>1
<1>2. TypeInv
  <2>1. data \in [Envs -> [Datasets -> Arrays \cup {None}]]
    OBVIOUS
  <2>2. \A e \in Envs, d \in Datasets : data[e][d] \in {<<e, d>>, None}
    OBVIOUS
  <2>3. calls \in 0 .. MaxCalls /\ uniqIndex \in [Envs -> Nat] /\ \A e \in Envs : uniqIndex[e] <= calls
    BY BoundsAssumption
  <2> QED BY <1>1, <2>1, <2>2, <2>3 DEF TypeInv
<1>3. SameInv /\ DrawnInv
  BY DEF SameInv, DrawnInv, IsInjective
<1> QED BY <1>2, <1>3 DEF RefDataInv

(* The datasets of f are the same rows in the same arrays as before.       *)
SameView(f) ==
  \A d \in Datasets :
    data'[f][d] = data[f][d] /\ (data[f][d] # None => array'[data[f][d]] = array[data[f][d]])

LEMMA SetEnvLocal ==
  ASSUME TypeInv, NEW e \in Envs, NEW new, SetEnv(e, new), NEW f \in Envs, f # e
  PROVE  SameView(f)
<1> SUFFICES ASSUME NEW d \in Datasets
             PROVE  data'[f][d] = data[f][d] /\ (data[f][d] # None => array'[data[f][d]] = array[data[f][d]])
  BY DEF SameView
<1>1. data'[f] = data[f]
  BY DEF SetEnv, TypeInv
<1>2. data[f][d] # None => data[f][d] = <<f, d>> /\ <<f, d>> \in Arrays /\ <<f, d>>[1] # e
  BY DEF TypeInv, Arrays
<1> QED BY <1>1, <1>2 DEF SetEnv

(* A dataset of one environment is replaced. *)
LEMMA SetEnvTypes ==
  ASSUME TypeInv, NEW e \in Envs, NEW new, SetEnv(e, new), DOMAIN new \subseteq Datasets,
         \A d \in DOMAIN new : new[d] \in Seq(Row) /\ IsInjective(new[d])
  PROVE  /\ array' \in [Arrays -> Seq(Row)]
         /\ \A a \in Arrays : IsInjective(array'[a])
         /\ data' \in [Envs -> [Datasets -> Arrays \cup {None}]]
         /\ \A f \in Envs, d \in Datasets : data'[f][d] \in {<<f, d>>, None}
<1> USE DEF SetEnv
<1>1. array' \in [Arrays -> Seq(Row)] /\ \A a \in Arrays : IsInjective(array'[a])
  BY DEF TypeInv
<1>2. data' \in [Envs -> [Datasets -> Arrays \cup {None}]]
  <2>1. \A d \in Datasets : <<e, d>> \in Arrays
    BY DEF Arrays
  <2> QED BY <2>1 DEF TypeInv
<1>3. \A f \in Envs, d \in Datasets : data'[f][d] \in {<<f, d>>, None}
  BY DEF TypeInv
<1> QED BY <1>1, <1>2, <1>3

LEMMA Replaces ==
  ASSUME RefDataInv, NEW e \in Envs, NEW new, SetEnv(e, new), DOMAIN new \subseteq Datasets,
         \A d \in DOMAIN new : new[d] \in Seq(Row) /\ IsInjective(new[d]),
         phase[e] \notin Remembering, NEW p \in {"loaded", "idle"}, Goto(e, p),
         UNCHANGED <<caches, building, calls, drawn>>
  PROVE  RefDataInv'
<1> USE DEF RefDataInv, caches, building
<1>1. /\ array' \in [Arrays -> Seq(Row)]
      /\ \A a \in Arrays : IsInjective(array'[a])
      /\ data' \in [Envs -> [Datasets -> Arrays \cup {None}]]
      /\ \A f \in Envs, d \in Datasets : data'[f][d] \in {<<f, d>>, None}
      /\ \A f \in Envs \ {e} : SameView(f)
  BY SetEnvTypes, SetEnvLocal
<1>2. /\ phase' \in [Envs -> {"new", "loaded", "compiling", "built", "idle", "args", "sent"}]
      /\ \A f \in Envs \ {e} : phase'[f] = phase[f]
      /\ phase'[e] # "args"
  BY DEF TypeInv, Goto
<1> HIDE DEF SetEnv, Goto
<1>3. TypeInv'
  BY <1>1, <1>2 DEF TypeInv
<1>4. SameInv'
  <2>1. \A d \in Datasets : oneCache[e][d] = None
    BY DEF SameInv
  <2>2. ASSUME NEW f \in Envs \ {e}, NEW d \in Datasets, oneCache[f][d] # None
        PROVE  Has(f, d)' /\ oneCache[f][d] \in Range(Rows(f, d))'
    <3>1. Has(f, d) /\ oneCache[f][d] \in Range(Rows(f, d))
      BY <2>2 DEF SameInv
    <3> QED BY <1>1, <3>1 DEF SameView, Has, Rows
  <2> QED BY <1>2, <2>1, <2>2 DEF SameInv
<1>5. DrawnInv'
  <2>1. ASSUME NEW f \in Envs \ {e}, NEW d \in Datasets, Has(f, d)
        PROVE  Has(f, d)' /\ Before(f, d)' = Before(f, d)
    BY <1>1, <2>1 DEF SameView, Has, Rows, Before
  <2>2. \A f \in Envs \ {e} : \A x : Accounted(f, x) => Accounted(f, x)'
    BY <2>1 DEF Accounted
  <2> QED BY <1>2, <2>2 DEF DrawnInv
<1> QED BY <1>3, <1>4, <1>5

LEMMA ReplaceSteps ==
  ASSUME RefDataInv, NEW e \in Envs,
         LoadReferences(e) \/ InitFrom(e) \/ (e = Source /\ RunInit) \/ Result(e)
  PROVE  RefDataInv'
<1> USE DEF Remembering
<1>1. CASE LoadReferences(e)
  <2>1. /\ SetEnv(e, [d \in Refs |-> RefRows[d]]) /\ Goto(e, "loaded") /\ phase[e] = "new"
        /\ UNCHANGED <<caches, building, calls, drawn>>
    BY <1>1 DEF LoadReferences, MayBuild
  <2>2. \A d \in Refs : RefRows[d] \in Seq(Row) /\ IsInjective(RefRows[d])
    BY RowsAssumption
  <2> QED BY <2>1, <2>2, Replaces DEF Datasets
<1>2. CASE InitFrom(e)
  <2> DEFINE D == {q \in InitQueries : InitType[q] = "query" /\ data[Source][q] # None}
  <2>1. /\ SetEnv(e, [d \in D |-> Rows(Source, d)]) /\ Goto(e, "idle") /\ phase[e] = "built"
        /\ UNCHANGED <<caches, building, calls, drawn>>
    BY <1>2 DEF InitFrom
  <2>2. ASSUME NEW d \in D PROVE Rows(Source, d) \in Seq(Row) /\ IsInjective(Rows(Source, d))
    <3>1. data[Source][d] \in Arrays
      BY DEF RefDataInv, TypeInv, Envs, Datasets
    <3> QED BY <3>1 DEF RefDataInv, TypeInv, Rows
  <2> QED BY <2>1, <2>2, Replaces DEF Datasets
<1>3. CASE e = Source /\ RunInit
  <2>1. PICK new \in [InitQueries -> DbRows] : SetEnv(Source, new)
    BY <1>3 DEF RunInit
  <2>2. /\ Goto(e, "idle") /\ phase[e] = "built" /\ UNCHANGED <<caches, building, calls, drawn>>
    BY <1>3 DEF RunInit
  <2>3. \A d \in InitQueries : new[d] \in Seq(Row) /\ IsInjective(new[d])
    BY RowsAssumption
  <2> QED BY <1>3, <2>1, <2>2, <2>3, Replaces DEF Datasets
<1>4. CASE Result(e)
  <2>1. Goto(e, "idle") /\ phase[e] = "sent" /\ UNCHANGED <<caches, building, calls, drawn>>
    BY <1>4 DEF Result
  <2>2. CASE \E d \in Datasets, s \in DbRows : SetEnv(e, [x \in {d} |-> s])
    <3>1. PICK d \in Datasets, s \in DbRows : SetEnv(e, [x \in {d} |-> s])
      BY <2>2
    <3>2. s \in Seq(Row) /\ IsInjective(s)
      BY RowsAssumption
    <3> QED BY <2>1, <3>1, <3>2, Replaces
  <2>3. CASE UNCHANGED <<array, data>>
    <3> USE DEF RefDataInv, caches, building
    <3>1. /\ phase' \in [Envs -> {"new", "loaded", "compiling", "built", "idle", "args", "sent"}]
          /\ \A f \in Envs \ {e} : phase'[f] = phase[f]
          /\ phase'[e] = "idle"
      BY <2>1 DEF TypeInv, Goto
    <3>2. TypeInv'
      BY <2>1, <2>3, <3>1 DEF TypeInv
    <3>3. SameInv'
      BY <2>1, <2>3, <3>1 DEF SameInv, Has, Rows
    <3>4. DrawnInv'
      BY <2>1, <2>3, <3>1 DEF DrawnInv, Has, Rows, Before, Accounted
    <3> QED BY <3>2, <3>3, <3>4
  <2> QED BY <1>4, <2>2, <2>3 DEF Result
<1> QED BY <1>1, <1>2, <1>3, <1>4

(* Steps that move neither rows nor the index. *)
LEMMA QuietSteps ==
  ASSUME RefDataInv, NEW e \in Envs,
         \/ CompileLocals(e) \/ CompileLocal(e) \/ BeginArgs(e) \/ NextRow(e) \/ EndArgs(e)
         \/ EvalLocals(e) \/ ClearLocals(e)
  PROVE  RefDataInv'
<1> DEFINE Phases == {"new", "loaded", "compiling", "built", "idle", "args", "sent"}
<1> USE DEF RefDataInv
<1>1. CASE CompileLocals(e) \/ CompileLocal(e)
  <2>1. /\ UNCHANGED <<array, data, caches, calls, drawn>>
        /\ phase[e] \notin Remembering /\ phase' \in [Envs -> Phases]
        /\ phase'[e] # "args" /\ \A f \in Envs \ {e} : phase'[f] = phase[f]
    BY <1>1 DEF CompileLocals, CompileLocal, TypeInv, Goto, Remembering
  <2>2. compiled' \subseteq Locals /\ todo' \in [Envs -> SUBSET Locals]
    BY <1>1 DEF CompileLocals, CompileLocal, TypeInv
  <2>3. TypeInv'
    BY <2>1, <2>2 DEF TypeInv, caches
  <2>4. SameInv'
    BY <2>1 DEF SameInv, Has, Rows, caches
  <2>5. DrawnInv'
    BY <2>1 DEF DrawnInv, Has, Rows, Before, Accounted, caches
  <2> QED BY <2>3, <2>4, <2>5
<1>2. CASE BeginArgs(e)
  <2>1. /\ UNCHANGED <<array, data, caches, building, calls>>
        /\ phase[e] = "idle" /\ phase' \in [Envs -> Phases] /\ phase'[e] = "args"
        /\ \A f \in Envs \ {e} : phase'[f] = phase[f]
        /\ drawn' = [drawn EXCEPT ![e] = <<>>]
    BY <1>2 DEF BeginArgs, TypeInv, Goto
  <2>2. TypeInv'
    BY <2>1 DEF TypeInv, caches, building
  <2>3. SameInv'
    BY <2>1 DEF SameInv, Has, Rows, caches, Remembering
  <2>4. DrawnInv'
    <3>1. drawn' \in [Envs -> Seq(Drawn)] /\ drawn'[e] = <<>>
      BY <2>1 DEF DrawnInv
    <3>2. \A f \in Envs \ {e} : drawn'[f] = drawn[f]
      BY <2>1 DEF DrawnInv
    <3> QED BY <2>1, <3>1, <3>2, SMTT(30) DEF DrawnInv, IsInjective, Has, Rows, Before, Accounted, caches
  <2> QED BY <2>2, <2>3, <2>4
<1>3. CASE NextRow(e)
  <2>1. /\ UNCHANGED <<array, data, uniqIndex, uniqSeen, building, phase, calls, drawn>>
        /\ oneCache' = [oneCache EXCEPT ![e] = [d \in Datasets |-> None]]
    BY <1>3 DEF NextRow
  <2>2. TypeInv'
    BY <2>1 DEF TypeInv, building
  <2>3. SameInv'
    BY <2>1 DEF SameInv, Has, Rows
  <2>4. DrawnInv'
    BY <2>1 DEF DrawnInv, Has, Rows, Before, Accounted
  <2> QED BY <2>2, <2>3, <2>4
<1>4. CASE EndArgs(e)
  <2>1. /\ UNCHANGED <<array, data, building, calls, drawn>>
        /\ oneCache' = [oneCache EXCEPT ![e] = [d \in Datasets |-> None]]
        /\ uniqIndex' = [uniqIndex EXCEPT ![e] = 0]
        /\ uniqSeen' = [uniqSeen EXCEPT ![e] = {}]
        /\ phase' = [phase EXCEPT ![e] = "sent"]
    BY <1>4 DEF EndArgs, ResetCaches, Goto
  <2>2. TypeInv'
    BY <2>1 DEF TypeInv, building
  <2>3. SameInv'
    BY <2>1 DEF SameInv, TypeInv, Has, Rows
  <2>4. DrawnInv'
    BY <2>1 DEF DrawnInv, TypeInv, Has, Rows, Before, Accounted
  <2> QED BY <2>2, <2>3, <2>4
<1>5. CASE EvalLocals(e) \/ ClearLocals(e)
  <2>1. UNCHANGED <<array, data, caches, compiled, todo, phase, drawn>> /\ calls' \in {calls, calls + 1}
        /\ calls' <= MaxCalls
    BY <1>5, BoundsAssumption DEF EvalLocals, ClearLocals, TypeInv
  <2>2. TypeInv'
    BY <2>1, BoundsAssumption DEF TypeInv, caches
  <2>3. SameInv'
    BY <2>1 DEF SameInv, Has, Rows, caches
  <2>4. DrawnInv'
    BY <2>1 DEF DrawnInv, Has, Rows, Before, Accounted, caches
  <2> QED BY <2>2, <2>3, <2>4
<1> QED BY <1>1, <1>2, <1>3, <1>4, <1>5

-----------------------------------------------------------------------------
(* A call that fails ends the evaluation, and with it the query. *)
LEMMA CallFailsKeeps ==
  ASSUME RefDataInv, NEW e \in Envs, Calls(e), CallFails(e)
  PROVE  RefDataInv'
<1> USE DEF RefDataInv
<1>1. /\ UNCHANGED <<array, data, building, drawn>>
      /\ phase' = [phase EXCEPT ![e] = "idle"] /\ phase[e] \in Remembering
      /\ calls' = calls + 1 /\ calls < MaxCalls
  BY DEF Calls, CallFails, Goto, Remembering
<1>2. \/ UNCHANGED <<oneCache, uniqIndex, uniqSeen>>
      \/ /\ oneCache' = [oneCache EXCEPT ![e] = [d \in Datasets |-> None]]
         /\ uniqIndex' = [uniqIndex EXCEPT ![e] = 0]
         /\ uniqSeen' = [uniqSeen EXCEPT ![e] = {}]
  BY DEF CallFails, ResetCaches, caches
<1>3. TypeInv'
  <2>1. calls' \in 0 .. MaxCalls
    BY <1>1, BoundsAssumption DEF TypeInv
  <2>2. uniqIndex' \in [Envs -> Nat] /\ \A f \in Envs : uniqIndex'[f] <= calls'
    <3>1. \A f \in Envs : uniqIndex'[f] \in {0, uniqIndex[f]}
      BY <1>2 DEF TypeInv
    <3>2. uniqIndex' \in [Envs -> Nat]
      BY <1>2 DEF TypeInv
    <3>3. \A f \in Envs : uniqIndex[f] \in Nat /\ uniqIndex[f] <= calls
      BY DEF TypeInv
    <3>4. calls \in Nat /\ calls' = calls + 1
      BY <1>1, BoundsAssumption DEF TypeInv
    <3> HIDE DEF RefDataInv
    <3> QED BY <3>1, <3>2, <3>3, <3>4
  <2>3. phase' \in [Envs -> {"new", "loaded", "compiling", "built", "idle", "args", "sent"}]
    BY <1>1 DEF TypeInv
  <2>4. uniqSeen' \in [Envs -> SUBSET Values]
    BY <1>2 DEF TypeInv
  <2> QED BY <1>1, <2>1, <2>2, <2>3, <2>4 DEF TypeInv, building
<1>4. SameInv'
  <2>1. /\ oneCache' \in [Envs -> [Datasets -> Row \cup {None}]]
        /\ \A f \in Envs, d \in Datasets : oneCache'[f][d] \in {oneCache[f][d], None}
    BY <1>2 DEF SameInv
  <2>2. \A f \in Envs : phase[f] \in Remembering => phase'[f] \in Remembering
    BY <1>1 DEF TypeInv, Remembering
  <2>3. \A f \in Envs, d \in Datasets : Has(f, d)' = Has(f, d) /\ Rows(f, d)' = Rows(f, d)
    BY <1>1 DEF Has, Rows
  <2> QED BY <2>1, <2>2, <2>3 DEF SameInv
<1>5. DrawnInv'
  <2>1. \A f \in Envs \ {e} : phase'[f] = phase[f] /\ uniqIndex'[f] = uniqIndex[f] /\ uniqSeen'[f] = uniqSeen[f]
    BY <1>1, <1>2 DEF TypeInv
  <2>2. phase'[e] = "idle"
    BY <1>1 DEF TypeInv
  <2>3. \A f \in Envs \ {e} : \A x : Accounted(f, x) => Accounted(f, x)'
    BY <1>1, <2>1 DEF Accounted, Has, Rows, Before
  <2> QED BY <1>1, <2>1, <2>2, <2>3 DEF DrawnInv
<1> QED BY <1>3, <1>4, <1>5

LEMMA CacheKeeps ==
  ASSUME RefDataInv, NEW e \in Envs, NEW d \in Datasets, RefSame(e, d) \/ RefPerm(e, d)
  PROVE  RefDataInv'
<1> USE DEF RefDataInv
<1>1. /\ UNCHANGED <<array, data, uniqIndex, uniqSeen, building, phase, drawn>>
      /\ phase[e] \in Remembering /\ Has(e, d)
      /\ calls' = calls + 1 /\ calls < MaxCalls
  BY DEF RefSame, RefPerm, Calls, Remembering
<1>2. \/ UNCHANGED oneCache
      \/ \E r \in Range(Rows(e, d)) : oneCache' = [oneCache EXCEPT ![e][d] = r]
  BY DEF RefSame, RefPerm
<1>3. TypeInv'
  BY <1>1, BoundsAssumption DEF TypeInv, building
<1>4. SameInv'
  <2>1. Range(Rows(e, d)) \subseteq Row
    <3>1. data[e][d] \in Arrays
      BY <1>1 DEF TypeInv, Has
    <3> QED BY <3>1 DEF TypeInv, Rows, Range
  <2>2. CASE UNCHANGED oneCache
    BY <1>1, <2>2 DEF SameInv, Has, Rows
  <2>3. CASE \E r \in Range(Rows(e, d)) : oneCache' = [oneCache EXCEPT ![e][d] = r]
    BY <1>1, <2>1, <2>3 DEF SameInv, Has, Rows
  <2> QED BY <1>2, <2>2, <2>3
<1>5. DrawnInv'
  BY <1>1 DEF DrawnInv, Has, Rows, Before, Accounted
<1> QED BY <1>3, <1>4, <1>5

(* A new draw extends a sequence without repetitions when it is not in it. *)
LEMMA NoteKeeps ==
  ASSUME DrawnInv, NEW e \in Envs, NEW x \in Drawn, Note(e, x),
         phase[e] = "args" => \A i \in DOMAIN drawn[e] : drawn[e][i] # x
  PROVE  /\ drawn' \in [Envs -> Seq(Drawn)]
         /\ \A f \in Envs : IsInjective(drawn'[f])
         /\ \A f \in Envs \ {e} : drawn'[f] = drawn[f]
         /\ phase[e] = "args" => \A i \in DOMAIN drawn'[e] : drawn'[e][i] = x \/ \E j \in DOMAIN drawn[e] : drawn'[e][i] = drawn[e][j]
<1>1. CASE phase[e] # "args"
  <2>1. drawn' = drawn
    BY <1>1 DEF Note
  <2> QED BY <1>1, <2>1 DEF DrawnInv
<1>2. CASE phase[e] = "args"
  <2>1. drawn' = [drawn EXCEPT ![e] = Append(drawn[e], x)] /\ drawn[e] \in Seq(Drawn)
    BY <1>2 DEF Note, DrawnInv
  <2>2. /\ drawn'[e] = Append(drawn[e], x) /\ drawn' \in [Envs -> Seq(Drawn)]
        /\ \A f \in Envs \ {e} : drawn'[f] = drawn[f]
    BY <2>1 DEF DrawnInv
  <2>3. /\ DOMAIN drawn[e] = 1 .. Len(drawn[e]) /\ DOMAIN drawn'[e] = 1 .. Len(drawn[e]) + 1
        /\ drawn'[e][Len(drawn[e]) + 1] = x /\ Len(drawn[e]) \in Nat
        /\ \A i \in DOMAIN drawn[e] : drawn'[e][i] = drawn[e][i]
    BY <2>1, <2>2
  <2>4. IsInjective(drawn'[e])
    <3>1. IsInjective(drawn[e])
      BY DEF DrawnInv
    <3> QED BY <1>2, <2>3, <3>1 DEF IsInjective
  <2>5. \A i \in DOMAIN drawn'[e] : drawn'[e][i] = x \/ \E j \in DOMAIN drawn[e] : drawn'[e][i] = drawn[e][j]
    BY <2>3
  <2> QED BY <2>2, <2>4, <2>5 DEF DrawnInv
<1> QED BY <1>1, <1>2

LEMMA UniqKeeps ==
  ASSUME RefDataInv, NEW e \in Envs, Uniq(e)
  PROVE  RefDataInv'
<1>1. CASE CallFails(e)
  BY <1>1, CallFailsKeeps DEF Uniq
<1>2. CASE \E v \in Values \ uniqSeen[e] :
             /\ uniqSeen' = [uniqSeen EXCEPT ![e] = @ \cup {v}]
             /\ Note(e, <<"uniq", v>>)
             /\ UNCHANGED <<array, data, uniqIndex, oneCache, permCache, phase>>
  <2>1. PICK v \in Values \ uniqSeen[e] :
             /\ uniqSeen' = [uniqSeen EXCEPT ![e] = @ \cup {v}]
             /\ Note(e, <<"uniq", v>>)
             /\ UNCHANGED <<array, data, uniqIndex, oneCache, permCache, phase>>
    BY <1>2
  <2>2. UNCHANGED building /\ calls' = calls + 1 /\ calls < MaxCalls
    BY DEF Uniq, Calls
  <2> USE DEF RefDataInv
  <2>3. /\ uniqSeen' \in [Envs -> SUBSET Values] /\ uniqSeen'[e] = uniqSeen[e] \cup {v}
        /\ \A f \in Envs \ {e} : uniqSeen'[f] = uniqSeen[f]
    BY <2>1 DEF TypeInv
  <2>4. TypeInv'
    BY <2>1, <2>2, <2>3, BoundsAssumption DEF TypeInv, building
  <2>5. SameInv'
    BY <2>1 DEF SameInv, Has, Rows
  <2>6. DrawnInv'
    <3>1. phase[e] = "args" => \A i \in DOMAIN drawn[e] : drawn[e][i] # <<"uniq", v>>
      BY RowsAssumption DEF DrawnInv, Accounted
    <3>2. /\ drawn' \in [Envs -> Seq(Drawn)]
          /\ \A f \in Envs : IsInjective(drawn'[f])
          /\ \A f \in Envs \ {e} : drawn'[f] = drawn[f]
          /\ phase[e] = "args" => \A i \in DOMAIN drawn'[e] :
               drawn'[e][i] = <<"uniq", v>> \/ \E j \in DOMAIN drawn[e] : drawn'[e][i] = drawn[e][j]
      BY <2>1, <3>1, NoteKeeps DEF Drawn
    <3>3. \A f \in Envs, x \in Drawn : Accounted(f, x) => Accounted(f, x)'
      BY <2>1, <2>3 DEF Accounted, Has, Rows, Before
    <3>4. Accounted(e, <<"uniq", v>>)'
      BY <2>3 DEF Accounted
    <3>5. \A f \in Envs : \A i \in DOMAIN drawn[f] : drawn[f][i] \in Drawn
      BY DEF DrawnInv
    <3>6. phase' = phase
      BY <2>1
    <3>7. ASSUME NEW f \in Envs, phase'[f] = "args", NEW j \in DOMAIN drawn'[f]
          PROVE  Accounted(f, drawn[f][j])'
      <4>1. \A i \in DOMAIN drawn[f] : \A x : x = drawn[f][i] => Accounted(f, x)'
        BY <3>3, <3>5, <3>6, <3>7 DEF DrawnInv
      <4>2. CASE f = e
        BY <3>2, <3>4, <3>6, <3>7, <4>1, <4>2
      <4>3. CASE f # e
        BY <3>2, <3>7, <4>1, <4>3
      <4> QED BY <4>2, <4>3
    <3> QED BY <3>2, <3>7 DEF DrawnInv
  <2> QED BY <2>4, <2>5, <2>6
<1> QED BY <1>1, <1>2 DEF Uniq

(* The row drawn moves to the index and is behind it from then on; those   *)
(* behind it before stay.                                                  *)
LEMMA RefDiffKeeps ==
  ASSUME RefDataInv, NEW e \in Envs, NEW d \in Datasets, RefDiff(e, d)
  PROVE  RefDataInv'
<1> DEFINE s == Rows(e, d)
           k == uniqIndex[e] + 1
<1> USE DEF RefDataInv
<1>1. Calls(e) /\ Has(e, d)
  BY DEF RefDiff
<1>2. CASE CallFails(e)
  BY <1>1, <1>2, CallFailsKeeps
<1>3. CASE ~CallFails(e)
  <2>1. PICK i \in k .. Len(s) :
          /\ array' = [array EXCEPT ![data[e][d]] = [@ EXCEPT ![i] = s[k], ![k] = s[i]]]
          /\ Note(e, <<d, s[i]>>)
    BY <1>3 DEF RefDiff
  <2>2. /\ uniqIndex' = [uniqIndex EXCEPT ![e] = k]
        /\ UNCHANGED <<data, oneCache, permCache, uniqSeen, phase, building>>
        /\ calls' = calls + 1 /\ calls < MaxCalls
    BY <1>3 DEF RefDiff, Calls
  <2>3. /\ data[e][d] = <<e, d>> /\ <<e, d>> \in Arrays
        /\ s \in Seq(Row) /\ IsInjective(s) /\ s = array[<<e, d>>] /\ data[e][d] # None
    BY <1>1 DEF TypeInv, Has, Rows, Arrays
  <2>4. uniqIndex[e] \in Nat /\ k \in DOMAIN s /\ i \in DOMAIN s /\ k <= i /\ k \in Nat /\ i \in Nat
    BY <2>1, <2>3 DEF TypeInv
  <2>5. PICK r \in Row : r = s[i]
    BY <2>3, <2>4
  <2> HIDE DEF s, k
  <2> DEFINE t == Swapped(s, i, k)
  <2>6. /\ t \in Seq(Row) /\ DOMAIN t = DOMAIN s /\ Range(t) = Range(s)
        /\ t[k] = r
        /\ \A j \in DOMAIN s \ {i, k} : t[j] = s[j]
        /\ IsInjective(t)
    <3>1. s \in Seq(Row) /\ i \in DOMAIN s /\ k \in DOMAIN s /\ IsInjective(s)
      BY <2>3, <2>4
    <3> HIDE DEF RefDataInv
    <3> QED BY <2>5, <3>1, Swap
  <2>7. array' = [array EXCEPT ![<<e, d>>] = t]
    BY <2>1, <2>3 DEF s, Swapped
  <2>8. t # <<>>
    BY <2>4, <2>6
  <2> HIDE DEF t
  <2>9. /\ Has(e, d)' /\ Rows(e, d)' = t
        /\ \A f \in Envs, c \in Datasets : <<f, c>> # <<e, d>> =>
             Has(f, c)' = Has(f, c) /\ (data[f][c] # None => Rows(f, c)' = Rows(f, c))
    BY <2>2, <2>3, <2>7, <2>8 DEF TypeInv, Has, Rows
  <2>10. TypeInv'
    <3>1. array' \in [Arrays -> Seq(Row)] /\ \A a \in Arrays : IsInjective(array'[a])
      BY <2>3, <2>6, <2>7 DEF TypeInv
    <3>2. calls' \in 0 .. MaxCalls /\ calls \in Nat /\ calls' = calls + 1
      BY <2>2, BoundsAssumption DEF TypeInv
    <3>3. uniqIndex' \in [Envs -> Nat] /\ \A f \in Envs : uniqIndex'[f] <= calls'
      <4>1. uniqIndex \in [Envs -> Nat] /\ \A f \in Envs : uniqIndex[f] <= calls
        BY DEF TypeInv
      <4> HIDE DEF RefDataInv
      <4> QED BY <2>2, <3>2, <4>1 DEF k
    <3> QED BY <2>2, <3>1, <3>2, <3>3 DEF TypeInv, building
  <2>11. SameInv'
    <3>1. ASSUME NEW f \in Envs, NEW c \in Datasets, oneCache[f][c] # None
          PROVE  Has(f, c)' /\ oneCache[f][c] \in Range(Rows(f, c))'
      <4>1. Has(f, c) /\ oneCache[f][c] \in Range(Rows(f, c)) /\ data[f][c] # None
        BY <3>1 DEF SameInv, Has
      <4>2. Range(Rows(f, c))' = Range(Rows(f, c))
        <5>1. CASE <<f, c>> = <<e, d>>
          <6>1. Rows(f, c) = s /\ Rows(f, c)' = t
            BY <2>9, <5>1 DEF s
          <6>2. Range(t) = Range(s)
            BY <2>6
          <6> QED BY <6>1, <6>2 DEF Range
        <5>2. CASE <<f, c>> # <<e, d>>
          BY <2>9, <4>1, <5>2 DEF Range
        <5> QED BY <5>1, <5>2
      <4> QED BY <2>9, <4>1, <4>2
    <3> QED BY <2>2, <3>1 DEF SameInv
  <2>12. \A f \in Envs, x \in Drawn : Accounted(f, x) => Accounted(f, x)'
    <3>1. ASSUME NEW f \in Envs, NEW c \in Datasets, Has(f, c)
          PROVE  Has(f, c)' /\ Before(f, c) \subseteq Before(f, c)'
      <4>1. CASE <<f, c>> = <<e, d>>
        <5>1. uniqIndex'[e] = k
          BY <2>2 DEF TypeInv
        <5>2. \A j \in DOMAIN s : j <= uniqIndex[e] => t[j] = s[j] /\ j <= k
          <6>1. \A j \in DOMAIN s : j \in Nat
            BY <2>3
          <6> QED BY <2>4, <2>6, <6>1 DEF k
        <5>3. Before(e, d) = {s[j] : j \in {l \in DOMAIN s : l <= uniqIndex[e]}}
          BY DEF Before, s
        <5>4. Before(e, d)' = {t[j] : j \in {l \in DOMAIN t : l <= k}}
          BY <2>9, <5>1 DEF Before
        <5>5. Before(e, d) \subseteq Before(e, d)'
          BY <2>6, <5>2, <5>3, <5>4
        <5> QED BY <2>9, <4>1, <5>5
      <4>2. CASE f # e
        <5>1. uniqIndex'[f] = uniqIndex[f]
          BY <2>2, <4>2 DEF TypeInv
        <5> QED BY <2>9, <3>1, <4>2, <5>1 DEF Before, Has
      <4>3. CASE f = e /\ c # d
        <5>1. uniqIndex'[e] = k
          BY <2>2 DEF TypeInv
        <5>2. Rows(f, c)' = Rows(f, c) /\ Has(f, c)'
          BY <2>9, <3>1, <4>3 DEF Has
        <5>3. Rows(f, c) \in Seq(Row)
          <6>1. data[f][c] \in Arrays
            BY <3>1 DEF TypeInv, Has
          <6> QED BY <6>1 DEF TypeInv, Rows
        <5>4. \A j \in DOMAIN Rows(f, c) : j <= uniqIndex[e] => j <= k
          BY <2>4, <5>3 DEF k
        <5> QED BY <4>3, <5>1, <5>2, <5>4 DEF Before
      <4> QED BY <4>1, <4>2, <4>3
    <3> QED BY <2>2, <3>1 DEF Accounted
  <2>13. DrawnInv'
    <3>1. <<d, r>> \in Drawn
      BY <2>3, <2>4 DEF Drawn
    <3>2. ASSUME phase[e] = "args", NEW j \in DOMAIN drawn[e]
          PROVE  drawn[e][j] # <<d, r>>
      <4>1. Accounted(e, drawn[e][j])
        BY <3>2 DEF DrawnInv
      <4>2. r \notin Before(e, d)
        <5>1. \A l \in DOMAIN s : l <= uniqIndex[e] => s[l] # s[i]
          BY <2>3, <2>4 DEF IsInjective, k
        <5>2. \A l \in DOMAIN s : l <= uniqIndex[e] => s[l] # r
          BY <2>5, <5>1
        <5> QED BY <5>2 DEF Before, s
      <4>3. d # "uniq"
        BY RowsAssumption
      <4> QED BY <4>1, <4>2, <4>3 DEF Accounted
    <3>3. /\ drawn' \in [Envs -> Seq(Drawn)]
          /\ \A f \in Envs : IsInjective(drawn'[f])
          /\ \A f \in Envs \ {e} : drawn'[f] = drawn[f]
          /\ phase[e] = "args" => \A j \in DOMAIN drawn'[e] :
               drawn'[e][j] = <<d, r>> \/ \E l \in DOMAIN drawn[e] : drawn'[e][j] = drawn[e][l]
      BY <2>1, <2>5, <3>1, <3>2, NoteKeeps
    <3>4. Accounted(e, <<d, r>>)'
      <4>1. uniqIndex'[e] = k
        BY <2>2 DEF TypeInv
      <4>2. t[k] \in Before(e, d)'
        BY <2>4, <2>6, <2>9, <4>1 DEF Before
      <4> QED BY <2>6, <2>9, <4>2 DEF Accounted
    <3>5. \A f \in Envs : \A j \in DOMAIN drawn[f] : drawn[f][j] \in Drawn
      BY DEF DrawnInv
    <3>6. phase' = phase
      BY <2>2
    <3>7. ASSUME NEW f \in Envs, phase'[f] = "args", NEW j \in DOMAIN drawn'[f]
          PROVE  Accounted(f, drawn[f][j])'
      <4>1. \A l \in DOMAIN drawn[f] : \A x : x = drawn[f][l] => Accounted(f, x)'
        BY <2>12, <3>5, <3>6, <3>7 DEF DrawnInv
      <4>2. CASE f = e
        BY <3>3, <3>4, <3>6, <3>7, <4>1, <4>2
      <4>3. CASE f # e
        BY <3>3, <3>7, <4>1, <4>3
      <4> QED BY <4>2, <4>3
    <3> QED BY <3>3, <3>7 DEF DrawnInv
  <2> QED BY <2>10, <2>11, <2>13
<1> QED BY <1>2, <1>3

-----------------------------------------------------------------------------
(* The invariant, for any number of environments and any datasets.         *)
THEOREM RefDataInvariant == Spec => []RefDataInv
<1>1. ASSUME RefDataInv, [Next]_vars
      PROVE  RefDataInv'
  <2>1. CASE UNCHANGED vars
    BY <1>1, <2>1 DEF vars, caches, building, RefDataInv, TypeInv, SameInv, DrawnInv, Has, Rows, Before, Accounted
  <2>2. CASE Next
    BY <1>1, <2>2, ReplaceSteps, QuietSteps, CacheKeeps, UniqKeeps, RefDiffKeeps
       DEF Next, Build, Call, Work, Envs
  <2> QED BY <1>1, <2>1, <2>2
<1> QED BY <1>1, RefDataInit, PTL DEF Spec

(* Types, and that each environment has arrays of its own (SetEnv clones). *)
THEOREM RefDataTypes == Spec => []TypeOK
<1>1. RefDataInv => TypeOK
  BY BoundsAssumption DEF RefDataInv, TypeInv, TypeOK
<1> QED BY <1>1, RefDataInvariant, PTL

(* ref_same never remembers a row that its dataset no longer has.          *)
THEOREM RememberedRowsAreCurrent == Spec => []SameCurrent
<1>1. RefDataInv => SameCurrent
  BY DEF RefDataInv, SameInv, SameCurrent
<1> QED BY <1>1, RefDataInvariant, PTL

(* Within a query, ref_diff repeats no row of a dataset and uniq no value. *)
THEOREM DrawsDoNotRepeat == Spec => []NoRepeats
<1>1. RefDataInv => NoRepeats
  BY DEF RefDataInv, DrawnInv, NoRepeats, IsInjective
<1> QED BY <1>1, RefDataInvariant, PTL

(* No step of one environment changes the rows another one sees: SetEnv    *)
(* clones, and ref_diff swaps within the clone (env_lifecycle.go:36).      *)
THEOREM EnvironmentsIsolated == Spec => Isolated
<1>1. RefDataInv /\ [Next]_vars => [\A e \in Envs : View(e)' # View(e) => Acts(e)]_vars
  <2> SUFFICES ASSUME RefDataInv, Next, NEW e \in Envs, ~Acts(e)
               PROVE  SameView(e)
    BY DEF SameView, View, Rows
  <2>1. TypeInv /\ phase'[e] = phase[e] /\ uniqIndex'[e] = uniqIndex[e]
    BY DEF RefDataInv, Acts
  <2>2. CASE UNCHANGED <<array, data>>
    BY <2>2 DEF SameView
  <2>3. ASSUME NEW f \in Envs, NEW new, SetEnv(f, new), NEW p \in {"loaded", "idle"}, Goto(f, p),
               phase[f] \notin {"loaded", "idle"}
        PROVE  SameView(e)
    <3>1. f # e
      BY <2>1, <2>3 DEF TypeInv, Goto
    <3> QED BY <2>1, <2>3, <3>1, SetEnvLocal
  <2>4. ASSUME NEW f \in Envs, NEW d \in Datasets, RefDiff(f, d), ~UNCHANGED <<array, data>>
        PROVE  SameView(e)
    <3>1. /\ UNCHANGED data /\ uniqIndex' = [uniqIndex EXCEPT ![f] = uniqIndex[f] + 1]
          /\ \A a \in Arrays : a # data[f][d] => array'[a] = array[a]
      BY <2>1, <2>4 DEF RefDiff, CallFails, TypeInv
    <3>2. f # e
      BY <2>1, <3>1 DEF TypeInv
    <3>3. data[f][d] \in {<<f, d>>, None} /\ Has(f, d)
      BY <2>1, <2>4 DEF TypeInv, RefDiff
    <3>4. \A c \in Datasets : data[e][c] # None =>
            data[e][c] \in Arrays /\ data[e][c] = <<e, c>> /\ data[e][c] # data[f][d]
      BY <2>1, <3>2, <3>3 DEF TypeInv, Has, Arrays
    <3> QED BY <3>1, <3>4 DEF SameView
  <2>5. CASE \E f \in Envs : LoadReferences(f) \/ InitFrom(f) \/ Result(f)
    BY <2>2, <2>3, <2>5 DEF LoadReferences, MayBuild, InitFrom, Result
  <2>6. CASE RunInit
    BY <2>3, <2>6 DEF RunInit, Envs
  <2>7. CASE \E f \in Envs, d \in Datasets : RefDiff(f, d)
    BY <2>2, <2>4, <2>7
  <2>8. CASE \E f \in Envs : \/ CompileLocals(f) \/ CompileLocal(f) \/ BeginArgs(f) \/ NextRow(f) \/ EndArgs(f)
                             \/ EvalLocals(f) \/ ClearLocals(f) \/ Uniq(f)
                             \/ \E d \in Datasets : RefSame(f, d) \/ RefPerm(f, d)
    BY <2>2, <2>8 DEF CompileLocals, CompileLocal, BeginArgs, NextRow, EndArgs, EvalLocals, ClearLocals,
                      Uniq, CallFails, RefSame, RefPerm
  <2> QED BY <2>5, <2>6, <2>7, <2>8 DEF Next, Build, Call, Work
<1> QED BY <1>1, RefDataInvariant, PTL DEF Spec, Isolated

-----------------------------------------------------------------------------
(* Sections of queries                                                     *)

(* A sequence, whatever its elements are. *)
IsSeq(s) == s \in Seq(ToSet(s))

LEMMA SeqOfAny ==
  ASSUME NEW S, NEW s \in Seq(S)
  PROVE  IsSeq(s)
BY SeqOfRange DEF IsSeq, ToSet, Range

LEMMA EmptyIsSeq == IsSeq(<<>>) /\ ToSet(<<>>) = {} /\ IsInjective(<<>>)
BY EmptySeq DEF IsSeq, ToSet, IsInjective

LEMMA FirstPosition ==
  ASSUME NEW S \in SUBSET Nat, S # {}
  PROVE  \E i \in S : \A j \in S : ~(j < i)
<1>1. \E x \in S : \A y \in S : ~(<<y, x>> \in OpToRel(<, Nat))
  BY NatLessThanWellFounded, WFMin
<1> QED BY <1>1 DEF OpToRel

(* One sequence after another repeats nothing unless either does or they   *)
(* share an element.                                                       *)
LEMMA ConcatFacts ==
  ASSUME NEW s, NEW t, IsSeq(s), IsSeq(t)
  PROVE  /\ IsSeq(s \o t) /\ ToSet(s \o t) = ToSet(s) \cup ToSet(t)
         /\ IsInjective(s \o t) <=> IsInjective(s) /\ IsInjective(t) /\ ToSet(s) \cap ToSet(t) = {}
<1> DEFINE S == ToSet(s) \cup ToSet(t)
           m == Len(s)
           n == Len(t)
           u == s \o t
<1>1. s \in Seq(S) /\ t \in Seq(S)
  BY SeqMonotonic DEF IsSeq
<1>2. m \in Nat /\ n \in Nat /\ DOMAIN s = 1 .. m /\ DOMAIN t = 1 .. n
  BY <1>1, LenProperties
<1>3. u \in Seq(S) /\ DOMAIN u = 1 .. m + n
      /\ \A i \in 1 .. m + n : u[i] = IF i <= m THEN s[i] ELSE t[i - m]
  <2> HIDE DEF S
  <2>1. u \in Seq(S) /\ Len(u) = m + n /\ \A i \in 1 .. m + n : u[i] = IF i <= m THEN s[i] ELSE t[i - m]
    BY <1>1, ConcatProperties
  <2> QED BY <2>1, LenProperties
<1>4. \A i \in 1 .. m : i \in DOMAIN u /\ u[i] = s[i]
  BY <1>2, <1>3
<1>5. \A i \in 1 .. n : i + m \in DOMAIN u /\ u[i + m] = t[i]
  <2> HIDE DEF u, m, n
  <2> SUFFICES ASSUME NEW i \in 1 .. n PROVE i + m \in DOMAIN u /\ u[i + m] = t[i]
    OBVIOUS
  <2>1. PICK k : k = i + m
    OBVIOUS
  <2>2. k \in 1 .. m + n /\ ~(k <= m) /\ k - m = i
    BY <1>2, <2>1
  <2>3. u[k] = t[k - m]
    BY <1>3, <2>2
  <2> QED BY <1>3, <2>1, <2>2, <2>3
<1>6. \A i \in DOMAIN u : (i \in 1 .. m /\ u[i] = s[i]) \/ (i - m \in 1 .. n /\ u[i] = t[i - m])
  BY <1>2, <1>3
<1>7. IsSeq(u)
  BY <1>3, SeqOfAny
<1> HIDE DEF u, m, n, S
<1>8. ToSet(u) = ToSet(s) \cup ToSet(t)
  <2>1. ToSet(u) \subseteq ToSet(s) \cup ToSet(t)
    BY <1>2, <1>6 DEF ToSet
  <2>2. ToSet(s) \subseteq ToSet(u)
    BY <1>2, <1>4 DEF ToSet
  <2>3. ToSet(t) \subseteq ToSet(u)
    BY <1>2, <1>5 DEF ToSet
  <2> QED BY <2>1, <2>2, <2>3
<1>9. ASSUME IsInjective(u)
      PROVE  IsInjective(s) /\ IsInjective(t) /\ ToSet(s) \cap ToSet(t) = {}
  <2>1. IsInjective(s)
    BY <1>2, <1>4, <1>9 DEF IsInjective
  <2>2. ASSUME NEW i \in DOMAIN t, NEW j \in DOMAIN t, t[i] = t[j] PROVE i = j
    <3>1. i + m = j + m
      BY <1>2, <1>5, <1>9, <2>2 DEF IsInjective
    <3> QED BY <1>2, <3>1
  <2>3. ASSUME NEW i \in DOMAIN s, NEW j \in DOMAIN t, s[i] = t[j] PROVE FALSE
    <3>1. i = j + m
      BY <1>2, <1>4, <1>5, <1>9, <2>3 DEF IsInjective
    <3> QED BY <1>2, <3>1
  <2> QED BY <2>1, <2>2, <2>3 DEF IsInjective, ToSet
<1>10. ASSUME IsInjective(s), IsInjective(t), ToSet(s) \cap ToSet(t) = {}
       PROVE  IsInjective(u)
  <2>1. ASSUME NEW i \in DOMAIN u, NEW j \in DOMAIN u, u[i] = u[j] PROVE i = j
    <3>1. \A a \in 1 .. m, b \in 1 .. n : s[a] # t[b]
      BY <1>2, <1>10 DEF ToSet
    <3>2. CASE i \in 1 .. m /\ u[i] = s[i]
      BY <1>2, <1>6, <1>10, <2>1, <3>1, <3>2 DEF IsInjective
    <3>3. CASE i - m \in 1 .. n /\ u[i] = t[i - m]
      <4>1. j - m \in 1 .. n /\ u[j] = t[j - m]
        BY <1>6, <2>1, <3>1, <3>3
      <4>2. i - m = j - m
        BY <1>2, <1>10, <2>1, <3>3, <4>1 DEF IsInjective
      <4>3. i \in Int /\ j \in Int
        BY <1>2, <1>3
      <4> QED BY <1>2, <4>2, <4>3
    <3> QED BY <1>6, <3>2, <3>3
  <2> QED BY <2>1 DEF IsInjective
<1> QED BY <1>7, <1>8, <1>9, <1>10 DEF u

(* FlattenSeq, one sequence more. *)
Flattens(c, n, p) ==
  /\ c = [i \in 1 .. n |-> c[i]]
  /\ \A i \in 1 .. n : c[i] = IF i = 1 THEN p[i] ELSE c[i - 1] \o p[i]

LEMMA FlattensExist ==
  ASSUME NEW n \in Nat, NEW p
  PROVE  \E c : Flattens(c, n, p)
<1> DEFINE S == {m \in 0 .. n : ~\E c : Flattens(c, m, p)}
<1>1. S \in SUBSET Nat
  OBVIOUS
<1>2. S = {}
  <2>1. SUFFICES ASSUME S # {} PROVE FALSE
    OBVIOUS
  <2>2. PICK m \in S : \A k \in S : ~(k < m)
    BY <1>1, <2>1, FirstPosition
  <2>3. m \in 0 .. n /\ m \in Nat /\ ~\E c : Flattens(c, m, p)
    BY <2>2
  <2>4. m # 0
    <3>1. Flattens(<<>>, 0, p)
      BY DEF Flattens
    <3> QED BY <2>3, <3>1
  <2>5. m - 1 \in 0 .. n /\ m - 1 \notin S
    BY <2>2, <2>3, <2>4
  <2>6. PICK c : Flattens(c, m - 1, p)
    BY <2>5
  <2> DEFINE d == [i \in 1 .. m |-> IF i = 1 THEN p[i] ELSE c[i - 1] \o p[i]]
  <2>7. ASSUME NEW i \in 1 .. m - 1
        PROVE  d[i] = c[i]
    <3>1. c[i] = IF i = 1 THEN p[i] ELSE c[i - 1] \o p[i]
      BY <2>6 DEF Flattens
    <3>2. i \in 1 .. m
      BY <2>3
    <3> QED BY <3>1, <3>2
  <2>8. ASSUME NEW i \in 1 .. m
        PROVE  d[i] = IF i = 1 THEN p[i] ELSE d[i - 1] \o p[i]
    <3>1. d[i] = IF i = 1 THEN p[i] ELSE c[i - 1] \o p[i]
      BY <2>3
    <3>2. i # 1 => i - 1 \in 1 .. m - 1
      BY <2>3
    <3> QED BY <2>7, <3>1, <3>2
  <2>9. d = [i \in 1 .. m |-> d[i]]
    OBVIOUS
  <2> HIDE DEF d
  <2>10. Flattens(d, m, p)
    BY <2>8, <2>9 DEF Flattens
  <2> QED BY <2>3, <2>10
<1>3. n \in 0 .. n
  OBVIOUS
<1> QED BY <1>2, <1>3

LEMMA FlattensUnique ==
  ASSUME NEW n \in Nat, NEW m \in 0 .. n, NEW p, NEW q, NEW c, NEW d, Flattens(c, n, p), Flattens(d, m, q),
         \A i \in 1 .. m : p[i] = q[i]
  PROVE  \A i \in 1 .. m : c[i] = d[i]
<1> DEFINE S == {i \in 1 .. m : c[i] # d[i]}
<1>1. SUFFICES ASSUME S # {} PROVE FALSE
  OBVIOUS
<1>2. PICK i \in S : \A j \in S : ~(j < i)
  <2>1. S \in SUBSET Nat
    OBVIOUS
  <2> QED BY <1>1, <2>1, FirstPosition
<1>3. i \in 1 .. m /\ i \in 1 .. n /\ p[i] = q[i]
  BY <1>2
<1>4. c[i] = (IF i = 1 THEN p[i] ELSE c[i - 1] \o p[i]) /\ d[i] = (IF i = 1 THEN q[i] ELSE d[i - 1] \o q[i])
  BY <1>3 DEF Flattens
<1>5. i # 1 => i - 1 \in 1 .. m /\ c[i - 1] = d[i - 1]
  BY <1>2, <1>3
<1> QED BY <1>2, <1>3, <1>4, <1>5

LEMMA Flattened ==
  ASSUME NEW n \in Nat, NEW p, DOMAIN p = 1 .. n, p = [i \in DOMAIN p |-> p[i]], n > 0
  PROVE  \E c : Flattens(c, n, p) /\ FlattenSeq(p) = c[n]
<1>1. p \in Seq(ToSet(p)) /\ Len(p) = n
  <2>1. p \in [1 .. n -> ToSet(p)]
    BY DEF ToSet
  <2> QED BY <2>1
<1> DEFINE E(c) == [i \in 1 .. n |-> IF i = 1 THEN p[i] ELSE c[i - 1] \o p[i]]
           F == CHOOSE c : c = E(c)
<1>2. FlattenSeq(p) = F[n]
  BY <1>1 DEF FlattenSeq
<1>3. \E c : c = E(c)
  <2>1. PICK c : Flattens(c, n, p)
    BY FlattensExist
  <2>2. c = [i \in 1 .. n |-> c[i]] /\ \A i \in 1 .. n : c[i] = E(c)[i]
    BY <2>1 DEF Flattens
  <2>3. c = E(c)
    BY <2>2
  <2> QED BY <2>3
<1>4. F = E(F)
  BY <1>3
<1> HIDE DEF F
<1>5. Flattens(F, n, p)
  <2>1. \A i \in 1 .. n : F[i] = E(F)[i]
    BY <1>4
  <2>2. F = [i \in 1 .. n |-> F[i]]
    BY <1>4
  <2>3. \A i \in 1 .. n : F[i] = IF i = 1 THEN p[i] ELSE F[i - 1] \o p[i]
    BY <2>1
  <2> QED BY <2>2, <2>3 DEF Flattens
<1> QED BY <1>2, <1>5
LEMMA FlattenNone ==
  ASSUME NEW p, DOMAIN p = 1 .. 0, p = [i \in DOMAIN p |-> p[i]]
  PROVE  FlattenSeq(p) = <<>>
<1>1. p = <<>>
  OBVIOUS
<1> QED BY <1>1 DEF FlattenSeq

LEMMA FlattenStep ==
  ASSUME NEW n \in Nat, NEW p, NEW q,
         DOMAIN p = 1 .. n + 1, p = [i \in DOMAIN p |-> p[i]], DOMAIN q = 1 .. n, q = [i \in DOMAIN q |-> q[i]],
         \A i \in 1 .. n : p[i] = q[i], IsSeq(p[n + 1])
  PROVE  FlattenSeq(p) = FlattenSeq(q) \o p[n + 1]
<1>1. PICK c : Flattens(c, n + 1, p) /\ FlattenSeq(p) = c[n + 1]
  BY Flattened
<1>2. CASE n = 0
  <2>1. FlattenSeq(q) = <<>>
    BY <1>2, FlattenNone
  <2>2. c[n + 1] = p[n + 1]
    BY <1>1, <1>2 DEF Flattens
  <2>3. p[n + 1] = <<>> \o p[n + 1]
    BY ConcatEmptySeq DEF IsSeq
  <2> QED BY <1>1, <2>1, <2>2, <2>3
<1>3. CASE n # 0
  <2>1. PICK d : Flattens(d, n, q) /\ FlattenSeq(q) = d[n]
    BY <1>3, Flattened
  <2>2. c[n] = d[n]
    BY <1>1, <1>3, <2>1, FlattensUnique
  <2>3. c[n + 1] = c[n] \o p[n + 1]
    <3>1. n + 1 \in 1 .. n + 1 /\ n + 1 # 1 /\ n + 1 - 1 = n
      BY <1>3
    <3>2. \A i \in 1 .. n + 1 : c[i] = IF i = 1 THEN p[i] ELSE c[i - 1] \o p[i]
      BY <1>1 DEF Flattens
    <3> DEFINE k == n + 1
    <3>3. c[k] = IF k = 1 THEN p[k] ELSE c[k - 1] \o p[k]
      BY <3>1, <3>2
    <3>4. k # 1 /\ k - 1 = n /\ k = n + 1
      BY <3>1
    <3> HIDE DEF k
    <3>5. c[k] = c[n] \o p[k]
      BY <3>3, <3>4
    <3> QED BY <3>4, <3>5
  <2> QED BY <1>1, <2>1, <2>2, <2>3
<1> QED BY <1>2, <1>3

-----------------------------------------------------------------------------
(* Rows in pieces: a batch in each arg set, a statement's in each unit.    *)
Pieces(p)   == IsSeq(p) /\ \A i \in DOMAIN p : IsSeq(p[i])
RowsOf(p)   == UNION {ToSet(p[i]) : i \in DOMAIN p}
Distinct(p) == \A i, j \in DOMAIN p : \A a \in DOMAIN p[i], b \in DOMAIN p[j] :
                 p[i][a] = p[j][b] => i = j /\ a = b

FirstPieces(p, m) == [i \in 1 .. m |-> p[i]]

LEMMA OnePieceMore ==
  ASSUME NEW p, Pieces(p), NEW m \in Nat, m + 1 \in DOMAIN p
  PROVE  LET q == FirstPieces(p, m) r == FirstPieces(p, m + 1) IN
         /\ RowsOf(r) = RowsOf(q) \cup ToSet(p[m + 1])
         /\ Distinct(r) <=> Distinct(q) /\ IsInjective(p[m + 1]) /\ RowsOf(q) \cap ToSet(p[m + 1]) = {}
<1> DEFINE q == FirstPieces(p, m)
           r == FirstPieces(p, m + 1)
           k == m + 1
<1>1. DOMAIN q = 1 .. m /\ DOMAIN r = 1 .. k /\ k \in DOMAIN r /\ k \notin DOMAIN q
      /\ DOMAIN r = DOMAIN q \cup {k}
  BY DEF FirstPieces
<1>2. (\A i \in DOMAIN q : q[i] = p[i] /\ r[i] = p[i]) /\ r[k] = p[k]
  BY <1>1 DEF FirstPieces
<1> HIDE DEF q, r, k
<1>3. RowsOf(r) = RowsOf(q) \cup ToSet(p[k])
  BY <1>1, <1>2 DEF RowsOf
<1>4. ASSUME Distinct(r)
      PROVE  Distinct(q) /\ IsInjective(p[k]) /\ RowsOf(q) \cap ToSet(p[k]) = {}
  <2>1. Distinct(q)
    BY <1>1, <1>2, <1>4 DEF Distinct
  <2>2. IsInjective(p[k])
    BY <1>1, <1>2, <1>4 DEF Distinct, IsInjective
  <2>3. ASSUME NEW i \in DOMAIN q, NEW a \in DOMAIN q[i], NEW b \in DOMAIN p[k], q[i][a] = p[k][b]
        PROVE  FALSE
    BY <1>1, <1>2, <1>4, <2>3 DEF Distinct
  <2> QED BY <2>1, <2>2, <2>3 DEF RowsOf, ToSet
<1>5. ASSUME Distinct(q), IsInjective(p[k]), RowsOf(q) \cap ToSet(p[k]) = {}
      PROVE  Distinct(r)
  <2>1. SUFFICES ASSUME NEW i \in DOMAIN r, NEW j \in DOMAIN r, NEW a \in DOMAIN r[i], NEW b \in DOMAIN r[j],
                        r[i][a] = r[j][b]
                 PROVE  i = j /\ a = b
    BY DEF Distinct
  <2>2. \A x \in DOMAIN q : \A c \in DOMAIN q[x] : \A d \in DOMAIN p[k] : q[x][c] # p[k][d]
    BY <1>5 DEF RowsOf, ToSet
  <2>3. CASE i \in DOMAIN q /\ j \in DOMAIN q
    BY <1>2, <1>5, <2>1, <2>3 DEF Distinct
  <2>4. CASE i = k /\ j = k
    BY <1>2, <1>5, <2>1, <2>4 DEF IsInjective
  <2>5. CASE i \in DOMAIN q /\ j = k
    BY <1>2, <2>1, <2>2, <2>5
  <2>6. CASE i = k /\ j \in DOMAIN q
    BY <1>2, <2>1, <2>2, <2>6
  <2> QED BY <1>1, <2>3, <2>4, <2>5, <2>6
<1> QED BY <1>3, <1>4, <1>5 DEF q, r, k

(* Laid end to end, they are the same rows and none comes twice. *)
LEMMA FlattenFacts ==
  ASSUME NEW p, Pieces(p)
  PROVE  /\ IsSeq(FlattenSeq(p)) /\ ToSet(FlattenSeq(p)) = RowsOf(p)
         /\ Distinct(p) <=> IsInjective(FlattenSeq(p))
<1> DEFINE n == Len(p)
           F(m) == FirstPieces(p, m)
           Right(m) == /\ IsSeq(FlattenSeq(F(m))) /\ ToSet(FlattenSeq(F(m))) = RowsOf(F(m))
                       /\ Distinct(F(m)) <=> IsInjective(FlattenSeq(F(m)))
           S == {m \in 0 .. n : ~Right(m)}
<1>1. n \in Nat /\ DOMAIN p = 1 .. n /\ p = F(n)
  <2>1. n \in Nat /\ DOMAIN p = 1 .. n /\ p \in [1 .. n -> ToSet(p)]
    BY LenProperties DEF Pieces, IsSeq
  <2> QED BY <2>1 DEF FirstPieces
<1>2. \A m \in 0 .. n : DOMAIN F(m) = 1 .. m /\ F(m) = [i \in DOMAIN F(m) |-> F(m)[i]]
  BY DEF FirstPieces
<1> HIDE DEF n
<1>3. S = {}
  <2>1. SUFFICES ASSUME S # {} PROVE FALSE
    OBVIOUS
  <2>2. PICK m \in S : \A k \in S : ~(k < m)
    <3>1. S \in SUBSET Nat
      OBVIOUS
    <3> HIDE DEF S
    <3> QED BY <2>1, <3>1, FirstPosition
  <2>3. m \in 0 .. n /\ m \in Nat /\ ~Right(m)
    BY <2>2
  <2>4. CASE m = 0
    <3>1. DOMAIN F(0) = 1 .. 0 /\ F(0) = <<>>
      BY DEF FirstPieces
    <3>2. FlattenSeq(F(0)) = <<>>
      BY <3>1 DEF FlattenSeq
    <3>3. RowsOf(F(0)) = {} /\ Distinct(F(0))
      BY <3>1 DEF RowsOf, Distinct
    <3> QED BY <2>3, <2>4, <3>2, <3>3, EmptyIsSeq
  <2>5. CASE m # 0
    <3>1. PICK k : k = m - 1
      OBVIOUS
    <3>2. k \in Nat /\ k + 1 = m /\ k \in 0 .. n /\ k + 1 \in DOMAIN p /\ Right(k)
      <4>1. k \in Nat /\ k + 1 = m /\ k \in 0 .. n /\ k + 1 \in DOMAIN p /\ k < m
        BY <1>1, <2>3, <2>5, <3>1
      <4>2. k \notin S
        BY <2>2, <4>1
      <4> QED BY <4>1, <4>2
    <3> DEFINE e == p[k + 1]
               f == FlattenSeq(F(k))
    <3>3. IsSeq(e)
      BY <3>2 DEF Pieces
    <3>4. FlattenSeq(F(m)) = f \o e
      <4>1. DOMAIN F(m) = 1 .. k + 1 /\ DOMAIN F(k) = 1 .. k /\ F(m)[k + 1] = e
        BY <3>2 DEF FirstPieces
      <4>2. \A i \in 1 .. k : F(m)[i] = F(k)[i]
        BY <3>2 DEF FirstPieces
      <4>3. F(m) = [i \in DOMAIN F(m) |-> F(m)[i]] /\ F(k) = [i \in DOMAIN F(k) |-> F(k)[i]]
        BY <1>2, <2>3, <3>2
      <4> HIDE DEF F
      <4>4. PICK g, h : g = F(m) /\ h = F(k)
        OBVIOUS
      <4>5. /\ DOMAIN g = 1 .. k + 1 /\ g = [i \in DOMAIN g |-> g[i]] /\ g[k + 1] = e
            /\ DOMAIN h = 1 .. k /\ h = [i \in DOMAIN h |-> h[i]] /\ \A i \in 1 .. k : g[i] = h[i]
        BY <4>1, <4>2, <4>3, <4>4
      <4> HIDE DEF e
      <4>6. IsSeq(g[k + 1]) /\ k \in Nat
        BY <3>2, <3>3, <4>5
      <4>7. FlattenSeq(g) = FlattenSeq(h) \o g[k + 1]
        BY <4>5, <4>6, FlattenStep
      <4> QED BY <4>4, <4>5, <4>7
    <3>5. /\ IsSeq(f \o e) /\ ToSet(f \o e) = ToSet(f) \cup ToSet(e)
          /\ IsInjective(f \o e) <=> IsInjective(f) /\ IsInjective(e) /\ ToSet(f) \cap ToSet(e) = {}
      <4> HIDE DEF f, e
      <4>1. IsSeq(f)
        BY <3>2 DEF f
      <4> QED BY <3>3, <4>1, ConcatFacts
    <3>6. /\ RowsOf(F(m)) = RowsOf(F(k)) \cup ToSet(e)
          /\ Distinct(F(m)) <=> Distinct(F(k)) /\ IsInjective(e) /\ RowsOf(F(k)) \cap ToSet(e) = {}
      BY <3>2, OnePieceMore
    <3>7. ToSet(f) = RowsOf(F(k)) /\ (Distinct(F(k)) <=> IsInjective(f))
      BY <3>2
    <3>8. Right(m)
      <4> HIDE DEF f, e, F
      <4> QED BY <3>4, <3>5, <3>6, <3>7
    <3> QED BY <2>3, <3>8
  <2> QED BY <2>4, <2>5
<1>4. Right(n)
  <2>1. n \in 0 .. n
    BY <1>1
  <2> QED BY <1>3, <2>1
<1> QED BY <1>1, <1>4

(* The first of them goes. *)
LEMMA HeadGoes ==
  ASSUME NEW p, Pieces(p), p # <<>>
  PROVE  /\ Pieces(Tail(p)) /\ IsSeq(Head(p)) /\ ToSet(Tail(p)) \subseteq ToSet(p) /\ Head(p) \in ToSet(p)
         /\ DOMAIN Tail(p) = 1 .. Len(p) - 1 /\ \A i \in DOMAIN Tail(p) : i + 1 \in DOMAIN p /\ Tail(p)[i] = p[i + 1]
         /\ RowsOf(p) = ToSet(Head(p)) \cup RowsOf(Tail(p))
         /\ Distinct(p) => Distinct(Tail(p)) /\ IsInjective(Head(p)) /\ ToSet(Head(p)) \cap RowsOf(Tail(p)) = {}
<1> DEFINE n == Len(p)
           t == Tail(p)
<1>1. n \in Nat /\ n # 0 /\ DOMAIN p = 1 .. n /\ Head(p) = p[1] /\ 1 \in DOMAIN p
  BY EmptySeq, LenProperties DEF Pieces, IsSeq
<1>2. t \in Seq(ToSet(p)) /\ Len(t) = n - 1 /\ \A i \in 1 .. n - 1 : t[i] = p[i + 1]
  BY HeadTailProperties DEF Pieces, IsSeq
<1>3. DOMAIN t = 1 .. n - 1
  BY <1>2, LenProperties
<1> HIDE DEF n, t
<1>4. \A i \in DOMAIN t : i + 1 \in DOMAIN p /\ t[i] = p[i + 1]
  BY <1>1, <1>2, <1>3
<1>5. \A i \in DOMAIN p : i = 1 \/ (i - 1 \in DOMAIN t /\ p[i] = t[i - 1])
  BY <1>1, <1>2, <1>3
<1>6. Pieces(t) /\ ToSet(t) \subseteq ToSet(p)
  BY <1>2, <1>4, SeqOfAny DEF Pieces, ToSet
<1>7. RowsOf(p) = ToSet(p[1]) \cup RowsOf(t)
  BY <1>1, <1>4, <1>5 DEF RowsOf
<1>8. ASSUME Distinct(p) PROVE Distinct(t) /\ IsInjective(p[1]) /\ ToSet(p[1]) \cap RowsOf(t) = {}
  <2>1. ASSUME NEW i \in DOMAIN t, NEW j \in DOMAIN t, NEW a \in DOMAIN t[i], NEW b \in DOMAIN t[j], t[i][a] = t[j][b]
        PROVE  i = j /\ a = b
    <3>1. i + 1 = j + 1 /\ a = b
      BY <1>4, <1>8, <2>1 DEF Distinct
    <3> QED BY <1>1, <1>3, <3>1
  <2>2. IsInjective(p[1])
    BY <1>1, <1>8 DEF Distinct, IsInjective
  <2>3. ASSUME NEW i \in DOMAIN t, NEW a \in DOMAIN t[i], NEW b \in DOMAIN p[1], p[1][b] = t[i][a] PROVE FALSE
    <3>1. 1 = i + 1
      BY <1>1, <1>4, <1>8, <2>3 DEF Distinct
    <3> QED BY <1>1, <1>3, <3>1
  <2> QED BY <2>1, <2>2, <2>3 DEF Distinct, RowsOf, ToSet
<1> QED BY <1>1, <1>3, <1>4, <1>6, <1>7, <1>8 DEF t, n, Pieces, ToSet

-----------------------------------------------------------------------------
(* Arg sets *)

LEMMA Further ==
  ASSUME NEW a \in Int, NEW c \in Int, NEW d \in Nat, a < c
  PROVE  a * d + d <= c * d
<1>1. PICK e \in Nat : c = a + 1 + e
  <2>1. c - a - 1 \in Nat /\ c = a + 1 + (c - a - 1)
    OBVIOUS
  <2> QED BY <2>1
<1>2. e * d >= 0
  OBVIOUS
<1>3. (a + 1 + e) * d = a * d + d + e * d
  OBVIOUS
<1>4. a * d \in Int /\ e * d \in Int
  OBVIOUS
<1> QED BY <1>1, <1>2, <1>3, <1>4

LEMMA Digits ==
  ASSUME NEW a \in Int, NEW c \in Int, NEW d \in Nat, NEW b \in 0 .. d - 1, NEW e \in 0 .. d - 1,
         a * d + b = c * d + e
  PROVE  a = c /\ b = e
<1>1. a * d \in Int /\ c * d \in Int
  OBVIOUS
<1>2. ~(a < c)
  BY <1>1, Further
<1>3. ~(c < a)
  BY <1>1, Further
<1> QED BY <1>1, <1>2, <1>3

LEMMA Division ==
  ASSUME NEW x \in Nat, NEW d \in Nat, d > 0
  PROVE  x \div d \in Nat /\ x % d \in 0 .. d - 1 /\ x = (x \div d) * d + (x % d)
<1>1. x \div d \in Nat /\ x % d \in 0 .. d - 1
  OBVIOUS
<1>2. x = d * (x \div d) + (x % d)
  OBVIOUS
<1> QED BY <1>1, <1>2

(* The batches are as many as the count takes. *)
LEMMA BatchCount ==
  ASSUME NEW count \in Int, NEW s \in Nat, s > 0, Quotient(count + s - 1, s) >= 0
  PROVE  /\ Quotient(count + s - 1, s) \in Nat
         /\ \A b \in 1 .. Quotient(count + s - 1, s) : (b - 1) * s < count
         /\ count <= Quotient(count + s - 1, s) * s
<1> DEFINE x == count + s - 1
           B == Quotient(x, s)
<1>1. x \in Int
  OBVIOUS
<1>2. CASE x >= 0
  <2>1. B = x \div s /\ B \in Nat /\ x % s \in 0 .. s - 1 /\ x = B * s + (x % s)
    BY <1>1, <1>2, Division DEF Quotient
  <2>2. B * s \in Int
    BY <2>1
  <2>3. ASSUME NEW b \in 1 .. B PROVE (b - 1) * s < count
    <3>1. (b - 1) * s + s <= B * s
      BY <2>1, Further
    <3>2. (b - 1) * s \in Int
      BY <2>1
    <3> HIDE DEF B
    <3> QED BY <2>1, <2>2, <3>1, <3>2
  <2>4. count <= B * s
    <3> HIDE DEF B
    <3> QED BY <2>1, <2>2
  <2> QED BY <2>1, <2>3, <2>4
<1>3. CASE x < 0
  <2>1. B = -((-x) \div s) /\ (-x) \div s \in Nat
    BY <1>1, <1>3, Division DEF Quotient
  <2>2. B = 0
    BY <2>1
  <2> QED BY <1>3, <2>2
<1> QED BY <1>1, <1>2, <1>3

(* For every count and size that do not panic, generateBatchArgs puts each *)
(* of the count's rows into exactly one batch.                             *)
THEOREM EachRowInOneBatch ==
  ASSUME NEW n, NEW count \in Int, NEW size \in Int, Fits(count, size)
  PROVE  LET p == Batches(n, count, size) IN
         Pieces(p) /\ Distinct(p) /\ RowsOf(p) = {<<n, k>> : k \in 1 .. count}
<1> DEFINE s == BatchSize(count, size)
           B == Quotient(count + s - 1, s)
           N(b) == IF count - b * s < s THEN count - b * s ELSE s
           p == Batches(n, count, size)
<1>1. s \in Nat /\ s > 0 /\ B >= 0
  BY DEF Fits, BatchSize
<1>2. B \in Nat /\ (\A b \in 1 .. B : (b - 1) * s < count) /\ count <= B * s
  <2> HIDE DEF s
  <2> QED BY <1>1, BatchCount
<1>3. p = [b \in 1 .. B |-> [k \in 1 .. N(b - 1) |-> <<n, (b - 1) * s + k>>]]
  BY DEF Batches
<1>4. ASSUME NEW b \in 1 .. B PROVE N(b - 1) \in Nat /\ N(b - 1) <= s /\ (b - 1) * s \in Int
  <2>1. (b - 1) * s \in Int /\ (b - 1) * s < count
    BY <1>1, <1>2
  <2> HIDE DEF s
  <2> QED BY <1>1, <2>1
<1> HIDE DEF s, B, p
<1>5. DOMAIN p = 1 .. B /\ \A b \in 1 .. B : DOMAIN p[b] = 1 .. N(b - 1)
      /\ \A k \in 1 .. N(b - 1) : p[b][k] = <<n, (b - 1) * s + k>>
  BY <1>3
<1>6. Pieces(p)
  <2>1. ASSUME NEW b \in 1 .. B PROVE IsSeq(p[b])
    <3>1. p[b] = [k \in 1 .. N(b - 1) |-> <<n, (b - 1) * s + k>>]
      BY <1>3
    <3> DEFINE m == N(b - 1)
    <3>2. p[b] \in [1 .. m -> ToSet(p[b])] /\ m \in Nat
      BY <1>4, <3>1 DEF ToSet
    <3> HIDE DEF m
    <3>3. p[b] \in Seq(ToSet(p[b]))
      BY <3>2
    <3> QED BY <3>3 DEF IsSeq
  <2>2. p \in [1 .. B -> ToSet(p)]
    BY <1>3, <1>5 DEF ToSet
  <2>3. IsSeq(p)
    BY <1>2, <2>2 DEF IsSeq
  <2> QED BY <1>5, <2>1, <2>3 DEF Pieces
<1>7. Distinct(p)
  <2>1. SUFFICES ASSUME NEW i \in 1 .. B, NEW j \in 1 .. B, NEW a \in 1 .. N(i - 1), NEW b \in 1 .. N(j - 1),
                        p[i][a] = p[j][b]
                 PROVE  i = j /\ a = b
    <3>1. SUFFICES ASSUME NEW i \in DOMAIN p, NEW j \in DOMAIN p, NEW a \in DOMAIN p[i], NEW b \in DOMAIN p[j],
                          p[i][a] = p[j][b]
                   PROVE  i = j /\ a = b
      BY DEF Distinct
    <3>2. i \in 1 .. B /\ j \in 1 .. B
      BY <1>5
    <3>3. a \in 1 .. N(i - 1) /\ b \in 1 .. N(j - 1)
      <4> HIDE DEF N
      <4> QED BY <1>5, <3>2
    <3> HIDE DEF N
    <3> QED BY <2>1, <3>1, <3>2, <3>3
  <2>2. (i - 1) * s + a = (j - 1) * s + b
    BY <1>5, <2>1
  <2>3. a - 1 \in 0 .. s - 1 /\ b - 1 \in 0 .. s - 1 /\ i - 1 \in Int /\ j - 1 \in Int
        /\ (i - 1) * s \in Int /\ (j - 1) * s \in Int
    BY <1>1, <1>2, <1>4
  <2>4. (i - 1) * s + (a - 1) = (j - 1) * s + (b - 1)
    BY <2>2, <2>3
  <2>5. i - 1 = j - 1 /\ a - 1 = b - 1
    BY <1>1, <2>3, <2>4, Digits
  <2> QED BY <1>2, <2>3, <2>5
<1>8. ASSUME NEW b \in 1 .. B, NEW k \in 1 .. N(b - 1) PROVE (b - 1) * s + k \in 1 .. count
  <2>1. (b - 1) * s \in Int /\ (b - 1) * s >= 0
    BY <1>1, <1>2
  <2>2. k <= count - (b - 1) * s
    BY <1>1, <1>4, <2>1
  <2> QED BY <2>1, <2>2
<1>9. ASSUME NEW x \in 1 .. count
      PROVE  \E b \in 1 .. B : \E k \in 1 .. N(b - 1) : (b - 1) * s + k = x
  <2>1. PICK d \in Nat, m \in 0 .. s - 1 : x - 1 = d * s + m
    <3>1. x - 1 \in Nat
      OBVIOUS
    <3> QED BY <1>1, <3>1, Division
  <2>2. d * s \in Int /\ B * s \in Int
    BY <1>1, <1>2
  <2>3. d < B
    <3>1. SUFFICES ASSUME B <= d PROVE FALSE
      BY <1>2
    <3>2. B * s <= d * s
      <4>1. CASE B = d
        BY <2>2, <4>1
      <4>2. CASE B < d
        BY <1>1, <1>2, <2>2, <4>2, Further
      <4> QED BY <1>2, <3>1, <4>1, <4>2
    <3> QED BY <1>2, <2>1, <2>2, <3>2
  <2>4. d + 1 \in 1 .. B /\ (d + 1) - 1 = d /\ m + 1 \in 1 .. N(d) /\ d * s + (m + 1) = x
    BY <1>1, <1>2, <2>1, <2>2, <2>3
  <2> QED BY <2>4
<1>10. RowsOf(p) = {<<n, k>> : k \in 1 .. count}
  <2>1. RowsOf(p) \subseteq {<<n, k>> : k \in 1 .. count}
    <3>1. SUFFICES ASSUME NEW b \in DOMAIN p, NEW k \in DOMAIN p[b] PROVE p[b][k] \in {<<n, x>> : x \in 1 .. count}
      BY DEF RowsOf, ToSet
    <3>2. b \in 1 .. B /\ k \in 1 .. N(b - 1) /\ p[b][k] = <<n, (b - 1) * s + k>>
      <4> HIDE DEF N
      <4> QED BY <1>5
    <3> QED BY <1>8, <3>2
  <2>2. ASSUME NEW x \in 1 .. count PROVE <<n, x>> \in RowsOf(p)
    <3>1. PICK b \in 1 .. B : \E k \in 1 .. N(b - 1) : (b - 1) * s + k = x
      BY <1>9
    <3>2. PICK k \in 1 .. N(b - 1) : (b - 1) * s + k = x
      BY <3>1
    <3>3. p[b][k] = <<n, x>> /\ b \in DOMAIN p /\ k \in DOMAIN p[b]
      BY <1>5, <3>2
    <3> QED BY <3>3 DEF RowsOf, ToSet
  <2> QED BY <2>1, <2>2
<1> QED BY <1>6, <1>7, <1>10 DEF p

(* The lengths of the lists from one on, multiplied. *)
Strides(lens, p) ==
  /\ DOMAIN p = 1 .. Len(lens) + 1
  /\ \A k \in 1 .. Len(lens) + 1 : p[k] = IF k > Len(lens) THEN 1 ELSE lens[k] * p[k + 1]

Choice(lens, p, c) == [k \in DOMAIN lens |-> (((c - 1) \div p[k + 1]) % lens[k]) + 1]
Chosen(n, lens, p) == [c \in 1 .. p[1] |-> <<<<n>> \o Choice(lens, p, c)>>]

LEMMA CombinationsOf ==
  ASSUME NEW n, NEW lens, NEW d, Strides(lens, d), d = [k \in DOMAIN d |-> d[k]]
  PROVE  \E p : Strides(lens, p) /\ Combinations(n, lens) = Chosen(n, lens, p)
<1> DEFINE E(p) == [k \in 1 .. Len(lens) + 1 |-> IF k > Len(lens) THEN 1 ELSE lens[k] * p[k + 1]]
           P == CHOOSE p : p = E(p)
<1>1. Combinations(n, lens) = Chosen(n, lens, P)
  BY DEF Combinations, Chosen, Choice
<1>2. d = E(d)
  BY DEF Strides
<1>3. P = E(P)
  <2>1. \E p : p = E(p)
    BY <1>2
  <2> QED BY <2>1
<1> HIDE DEF P
<1>4. DOMAIN P = 1 .. Len(lens) + 1
  BY <1>3
<1>5. \A k \in 1 .. Len(lens) + 1 : P[k] = E(P)[k]
  BY <1>3
<1>6. Strides(lens, P)
  BY <1>4, <1>5 DEF Strides
<1> QED BY <1>1, <1>6

LEMMA NoLists ==
  ASSUME NEW n
  PROVE  Combinations(n, <<>>) = <<<<<<n>>>>>>
<1> DEFINE d == [k \in 1 .. 1 |-> 1]
<1>1. Strides(<<>>, d) /\ d = [k \in DOMAIN d |-> d[k]]
  BY DEF Strides
<1> HIDE DEF d
<1>2. PICK p : Strides(<<>>, p) /\ Combinations(n, <<>>) = Chosen(n, <<>>, p)
  BY <1>1, CombinationsOf
<1>3. p[1] = 1
  BY <1>2 DEF Strides
<1>4. ASSUME NEW c \in 1 .. 1
      PROVE  <<n>> \o Choice(<<>>, p, c) = <<n>>
  <2>1. Choice(<<>>, p, c) = <<>>
    BY DEF Choice
  <2>2. <<n>> \in Seq({n})
    OBVIOUS
  <2> QED BY <2>1, <2>2, ConcatEmptySeq
<1>5. Combinations(n, <<>>) = [c \in 1 .. 1 |-> <<<<n>>>>]
  BY <1>2, <1>3, <1>4 DEF Chosen
<1> QED BY <1>5

LEMMA SeqOfLen ==
  ASSUME NEW S, NEW m \in Nat, NEW f \in [1 .. m -> S]
  PROVE  f \in Seq(S) /\ Len(f) = m
OBVIOUS

LEMMA RowOfTwo ==
  ASSUME NEW n, NEW f \in [1 .. 2 -> Nat]
  PROVE  <<n>> \o f = <<n, f[1], f[2]>>
<1> DEFINE S == Nat \cup {n}
<1>1. <<n>> \in Seq(S) /\ f \in Seq(S) /\ Len(<<n>>) = 1 /\ Len(f) = 2
  <2>1. f \in [1 .. 2 -> S]
    OBVIOUS
  <2> HIDE DEF S
  <2>2. f \in Seq(S) /\ Len(f) = 2
    BY <2>1, SeqOfLen
  <2> QED BY <2>2 DEF S
<1> HIDE DEF S
<1>2. <<n, f[1], f[2]>> \in Seq(S) /\ Len(<<n, f[1], f[2]>>) = 3
  <2>1. n \in S /\ f[1] \in S /\ f[2] \in S
    BY DEF S
  <2>2. ASSUME NEW x \in S, NEW y \in S, NEW z \in S
        PROVE  <<x, y, z>> \in Seq(S) /\ Len(<<x, y, z>>) = 3
    OBVIOUS
  <2> QED BY <2>1, <2>2
<1>3. <<n>> \o f \in Seq(S) /\ Len(<<n>> \o f) = 3
      /\ \A i \in 1 .. 3 : (<<n>> \o f)[i] = IF i <= 1 THEN <<n>>[i] ELSE f[i - 1]
  <2>1. PICK s : s = <<n>>
    OBVIOUS
  <2>2. s \in Seq(S) /\ Len(s) = 1
    BY <1>1, <2>1
  <2>3. s \o f \in Seq(S) /\ Len(s \o f) = Len(s) + Len(f)
        /\ \A i \in 1 .. Len(s) + Len(f) : (s \o f)[i] = IF i <= Len(s) THEN s[i] ELSE f[i - Len(s)]
    BY <1>1, <2>2, ConcatProperties
  <2> QED BY <1>1, <2>1, <2>2, <2>3
<1>4. ASSUME NEW i \in 1 .. 3 PROVE (<<n>> \o f)[i] = <<n, f[1], f[2]>>[i]
  BY <1>3
<1> QED BY <1>2, <1>3, <1>4, SeqEqual

(* For two lists of any lengths, each pair of their elements is in exactly *)
(* one arg set of GenerateArgs.                                            *)
THEOREM EachPairInOneArgSet ==
  ASSUME NEW n, NEW lens \in [1 .. 2 -> Nat]
  PROVE  LET p == Combinations(n, lens) IN
         /\ Pieces(p) /\ Distinct(p)
         /\ RowsOf(p) = {<<n, i, j>> : i \in 1 .. lens[1], j \in 1 .. lens[2]}
<1> DEFINE a == lens[1]
           b == lens[2]
           p == Combinations(n, lens)
           d == [k \in 1 .. 3 |-> IF k = 1 THEN a * b ELSE IF k = 2 THEN b ELSE 1]
<1>1. a \in Nat /\ b \in Nat /\ Len(lens) = 2 /\ DOMAIN lens = 1 .. 2 /\ a * b \in Nat
  <2>1. lens \in Seq(Nat) /\ Len(lens) = 2
    BY SeqOfLen
  <2> QED BY <2>1
<1> HIDE DEF a, b
<1>2. Strides(lens, d) /\ d = [k \in DOMAIN d |-> d[k]]
  <2>1. DOMAIN d = 1 .. 3 /\ d[1] = a * b /\ d[2] = b /\ d[3] = 1
    OBVIOUS
  <2>2. d[2] = lens[2] * d[3] /\ d[1] = lens[1] * d[2] /\ d = [k \in DOMAIN d |-> d[k]]
    BY <1>1, <2>1 DEF a, b
  <2> HIDE DEF d
  <2>3. ASSUME NEW k \in 1 .. 3 PROVE d[k] = IF k > 2 THEN 1 ELSE lens[k] * d[k + 1]
    <3>1. k = 1 \/ k = 2 \/ k = 3
      OBVIOUS
    <3> QED BY <2>1, <2>2, <3>1
  <2> QED BY <1>1, <2>1, <2>2, <2>3 DEF Strides
<1> HIDE DEF d
<1>3. PICK q : Strides(lens, q) /\ p = Chosen(n, lens, q)
  BY <1>2, CombinationsOf
<1>4. q[1] = a * b /\ q[2] = b /\ q[3] = 1
  <2>1. q[3] = 1 /\ q[2] = lens[2] * q[3] /\ q[1] = lens[1] * q[2]
    BY <1>1, <1>3 DEF Strides
  <2> QED BY <1>1, <2>1 DEF a, b
<1> HIDE DEF p
<1> DEFINE I(c) == ((c - 1) \div b) % a
           J(c) == (c - 1) % b
<1>5. ASSUME NEW c \in 1 .. a * b
      PROVE  /\ a > 0 /\ b > 0 /\ I(c) \in 0 .. a - 1 /\ J(c) \in 0 .. b - 1 /\ c - 1 = I(c) * b + J(c)
             /\ p[c] = <<<<n, I(c) + 1, J(c) + 1>>>>
  <2>1. a > 0 /\ b > 0
    <3>1. a # 0 /\ b # 0
      BY <1>1
    <3> QED BY <1>1, <3>1
  <2>2. c - 1 \in Nat /\ (c - 1) \div b \in Nat /\ J(c) \in 0 .. b - 1 /\ c - 1 = ((c - 1) \div b) * b + J(c)
    <3>1. c - 1 \in Nat
      BY <1>1
    <3> QED BY <1>1, <2>1, <3>1, Division
  <2>3. (c - 1) \div b \in 0 .. a - 1
    <3> DEFINE e == (c - 1) \div b
    <3>1. e \in Nat /\ c - 1 = e * b + J(c)
      BY <2>2
    <3>2. ~(a <= e)
      <4>1. SUFFICES ASSUME a <= e PROVE FALSE
        OBVIOUS
      <4> HIDE DEF e
      <4>2. a * b \in Int /\ e * b \in Int /\ a * b <= e * b
        <5>1. CASE a = e
          BY <1>1, <5>1
        <5>2. CASE a < e
          BY <1>1, <3>1, <5>2, Further
        <5> QED BY <1>1, <3>1, <4>1, <5>1, <5>2
      <4> QED BY <1>1, <2>2, <3>1, <4>2
    <3> HIDE DEF e
    <3>3. e \in 0 .. a - 1
      BY <1>1, <3>1, <3>2
    <3> QED BY <3>3 DEF e
  <2>4. I(c) = (c - 1) \div b
    <3> DEFINE e == (c - 1) \div b
    <3> HIDE DEF e
    <3>1. e \in 0 .. a - 1 => e % a = e
      BY <1>1, <2>1
    <3> QED BY <2>3, <3>1 DEF e
  <2>5. p[c] = <<<<n, I(c) + 1, J(c) + 1>>>>
    <3> DEFINE f == Choice(lens, q, c)
    <3>1. p[c] = <<<<n>> \o f>>
      BY <1>3, <1>4 DEF Chosen
    <3>2. f[1] = I(c) + 1 /\ f[2] = J(c) + 1
      <4>1. f[1] = (((c - 1) \div q[2]) % lens[1]) + 1 /\ f[2] = (((c - 1) \div q[3]) % lens[2]) + 1
        BY <1>1 DEF Choice
      <4>2. (c - 1) \div 1 = c - 1
        BY <2>2
      <4> QED BY <1>4, <4>1, <4>2 DEF a, b
    <3>3. f \in [1 .. 2 -> Nat]
      <4>1. I(c) + 1 \in Nat /\ J(c) + 1 \in Nat
        BY <1>1, <2>2, <2>3, <2>4
      <4>2. DOMAIN f = 1 .. 2 /\ f = [k \in 1 .. 2 |-> f[k]]
        BY <1>1 DEF Choice
      <4> HIDE DEF f, I, J
      <4>3. \A k \in 1 .. 2 : f[k] \in Nat
        BY <3>2, <4>1
      <4> QED BY <4>2, <4>3
    <3> HIDE DEF f
    <3>4. <<n>> \o f = <<n, f[1], f[2]>>
      BY <3>3, RowOfTwo
    <3> QED BY <3>1, <3>2, <3>4
  <2> QED BY <2>1, <2>2, <2>3, <2>4, <2>5
<1> HIDE DEF I, J
<1>6. DOMAIN p = 1 .. a * b /\ p = [c \in 1 .. a * b |-> p[c]]
  BY <1>3, <1>4 DEF Chosen
<1>7. Pieces(p)
  <2>1. p \in [1 .. a * b -> ToSet(p)]
    BY <1>6 DEF ToSet
  <2>2. IsSeq(p)
    BY <1>1, <2>1 DEF IsSeq
  <2>3. ASSUME NEW c \in DOMAIN p PROVE IsSeq(p[c])
    <3>1. PICK r : p[c] = <<r>>
      BY <1>5, <1>6
    <3>2. p[c] \in Seq({r})
      BY <3>1
    <3> QED BY <3>2, SeqOfAny
  <2> QED BY <2>2, <2>3 DEF Pieces
<1>8. Distinct(p)
  <2>1. SUFFICES ASSUME NEW i \in DOMAIN p, NEW j \in DOMAIN p, NEW x \in DOMAIN p[i], NEW y \in DOMAIN p[j], p[i][x] = p[j][y]
                 PROVE  i = j /\ x = y
    BY DEF Distinct
  <2>2. x = 1 /\ y = 1 /\ I(i) + 1 = I(j) + 1 /\ J(i) + 1 = J(j) + 1
    <3>1. p[i] = <<<<n, I(i) + 1, J(i) + 1>>>> /\ p[j] = <<<<n, I(j) + 1, J(j) + 1>>>>
      BY <1>5, <1>6
    <3>2. x = 1 /\ y = 1
      BY <3>1
    <3>3. <<n, I(i) + 1, J(i) + 1>> = <<n, I(j) + 1, J(j) + 1>>
      BY <2>1, <3>1, <3>2
    <3> QED BY <3>2, <3>3
  <2>3. I(i) \in Int /\ I(j) \in Int /\ J(i) \in Int /\ J(j) \in Int
    BY <1>1, <1>5, <1>6
  <2>4. I(i) = I(j) /\ J(i) = J(j)
    BY <2>2, <2>3
  <2>5. i - 1 = j - 1 /\ i \in Int /\ j \in Int
    BY <1>1, <1>5, <1>6, <2>4
  <2> QED BY <2>2, <2>5
<1>9. RowsOf(p) = {<<n, i, j>> : i \in 1 .. a, j \in 1 .. b}
  <2>1. ASSUME NEW c \in DOMAIN p, NEW x \in DOMAIN p[c] PROVE p[c][x] \in {<<n, i, j>> : i \in 1 .. a, j \in 1 .. b}
    <3>1. p[c][x] = <<n, I(c) + 1, J(c) + 1>>
      BY <1>5, <1>6
    <3>2. I(c) + 1 \in 1 .. a /\ J(c) + 1 \in 1 .. b
      <4>1. I(c) \in 0 .. a - 1 /\ J(c) \in 0 .. b - 1
        BY <1>5, <1>6
      <4> QED BY <1>1, <4>1
    <3> QED BY <3>1, <3>2
  <2>2. ASSUME NEW i \in 1 .. a, NEW j \in 1 .. b PROVE <<n, i, j>> \in RowsOf(p)
    <3>1. PICK c : c = (i - 1) * b + j
      OBVIOUS
    <3>2. (i - 1) * b \in Int /\ (i - 1) * b >= 0 /\ (i - 1) * b + b <= a * b
      <4>1. (i - 1) * b + b <= a * b
        <5>1. i - 1 \in Int /\ i - 1 < a
          BY <1>1
        <5> QED BY <1>1, <5>1, Further
      <4> QED BY <1>1, <4>1
    <3>3. c \in 1 .. a * b
      BY <1>1, <3>1, <3>2
    <3>4. I(c) * b + J(c) = (i - 1) * b + (j - 1)
      BY <1>1, <1>5, <3>1, <3>2, <3>3
    <3>5. I(c) = i - 1 /\ J(c) = j - 1
      <4>1. PICK s, t, u, v : s = I(c) /\ t = J(c) /\ u = i - 1 /\ v = j - 1
        OBVIOUS
      <4>2. s \in Int /\ u \in Int /\ t \in 0 .. b - 1 /\ v \in 0 .. b - 1
        BY <1>1, <1>5, <3>3, <4>1
      <4>3. s * b + t = u * b + v
        BY <3>4, <4>1
      <4>4. s = u /\ t = v
        BY <1>1, <4>2, <4>3, Digits
      <4> QED BY <4>1, <4>4
    <3>6. p[c] = <<<<n, i, j>>>> /\ c \in DOMAIN p
      BY <1>5, <1>6, <3>3, <3>5
    <3>7. 1 \in DOMAIN p[c] /\ p[c][1] = <<n, i, j>>
      BY <3>6
    <3> QED BY <3>6, <3>7 DEF RowsOf, ToSet
  <2>3. RowsOf(p) \subseteq {<<n, i, j>> : i \in 1 .. a, j \in 1 .. b}
    BY <2>1 DEF RowsOf, ToSet
  <2> QED BY <2>2, <2>3
<1> QED BY <1>7, <1>8, <1>9 DEF p, a, b

LEMMA ArgSetsFacts ==
  ASSUME NEW n, NEW q, q.kind \in {"plain", "each", "batch"}, NEW new \in ArgSets(n, q)
  PROVE  /\ Pieces(new.args) /\ Distinct(new.args) /\ RowsOf(new.args) = new.rows
         /\ \A r \in new.rows : r[1] = n
<1>1. CASE q.kind = "batch"
  <2>1. PICK cs \in {cs \in Counts \X Sizes : Fits(cs[1], cs[2])} :
          new = [args |-> Batches(n, cs[1], cs[2]), rows |-> {<<n, k>> : k \in 1 .. cs[1]}]
    BY <1>1 DEF ArgSets
  <2>2. cs[1] \in Int /\ cs[2] \in Int /\ Fits(cs[1], cs[2])
    BY LengthsAssumption
  <2> QED BY <2>1, <2>2, EachRowInOneBatch
<1>2. CASE q.kind = "each"
  <2>1. PICK l \in [1 .. 2 -> Lists] :
          new = [args |-> Combinations(n, l), rows |-> {<<n, i, j>> : i \in 1 .. l[1], j \in 1 .. l[2]}]
    BY <1>2 DEF ArgSets
  <2>2. l \in [1 .. 2 -> Nat]
    BY LengthsAssumption
  <2> QED BY <2>1, <2>2, EachPairInOneArgSet
<1>3. CASE q.kind = "plain"
  <2>1. new.args = <<<<<<n>>>>>> /\ new.rows = {<<n>>}
    BY <1>3, NoLists DEF ArgSets
  <2>2. <<<<n>>>> \in Seq({<<n>>}) /\ <<<<<<n>>>>>> \in Seq({<<<<n>>>>})
    OBVIOUS
  <2>3. IsSeq(<<<<n>>>>) /\ IsSeq(<<<<<<n>>>>>>)
    BY <2>2, SeqOfAny
  <2>4. DOMAIN <<<<<<n>>>>>> = {1} /\ <<<<<<n>>>>>>[1] = <<<<n>>>> /\ DOMAIN <<<<n>>>> = {1} /\ <<<<n>>>>[1] = <<n>>
    OBVIOUS
  <2>5. Pieces(new.args) /\ Distinct(new.args)
    BY <2>1, <2>3, <2>4 DEF Pieces, Distinct
  <2>6. RowsOf(new.args) = new.rows
    BY <2>1, <2>4 DEF RowsOf, ToSet
  <2> QED BY <2>1, <2>5, <2>6
<1> QED BY <1>1, <1>2, <1>3

-----------------------------------------------------------------------------
(* A section *)

UnitPieces(s, q, us) == [k \in DOMAIN us |-> Effect(s, q, us[k], DOMAIN us[k])]

(* Units an adapter may send: no row comes twice. *)
Sendable(s, q, us) ==
  /\ IsSeq(us)
  /\ \A u \in ToSet(us) :
       /\ IsSeq(u)
       /\ \A t \in ToSet(u) : Writes(s, q) /\ ~Broken(q, t) => IsSeq(RowsWritten(q, t))
  /\ Distinct(UnitPieces(s, q, us))

(* No statement of an exec query is refused, or not all get through. *)
Readable(s, q, rows, us) ==
  ~q.reads /\ ~Misread(s, q, rows) => \A u \in ToSet(us) : \A t \in ToSet(u) : ~Broken(q, t)

Doomed(s, q, us) == s.driver = "mongodb" /\ Refused(q, us)

InQuery == pc \in {"set", "send"}
Asked   == IF InQuery THEN qi ELSE qi - 1    (* queries that have started *)

SectionType ==
  /\ setup \in Setups /\ outcome = "running"
  /\ pc \in {"begin", "query", "set", "send"}
  /\ qi \in Nat \ {0} /\ Asked \in 0 .. Len(setup.queries)
  /\ IsSeq(applied) /\ IsSeq(pending)
  /\ IF setup.tx THEN applied = <<>> ELSE pending = <<>>
  /\ pc = "begin" => pending = <<>>
  /\ IsSeq(wanted) /\ Len(wanted) = Asked /\ IsSeq(produced) /\ Len(produced) = Asked
  /\ \A n \in DOMAIN wanted : \A r \in wanted[n] : r[1] = n
  /\ DOMAIN datasets \subseteq DOMAIN wanted

(* A query that has started: its arg sets to go are among those produced.  *)
QueryInv == InQuery =>
  /\ Pieces(sets) /\ Distinct(sets)
  /\ \E new \in ArgSets(qi, Query) :
       produced[qi] = new.args /\ wanted[qi] = new.rows /\ ToSet(sets) \subseteq ToSet(new.args)
  /\ Query.kind = "batch" /\ Query.named => captured = FlattenSeq(produced[qi])

UnitRows == RowsOf(UnitPieces(setup, Query, units))

SendInv == pc = "send" =>
  /\ sets # <<>> /\ Sendable(setup, Query, units)
  /\ Readable(setup, Query, Head(sets), units)
  /\ Writes(setup, Query) => /\ UnitRows \subseteq ToSet(Head(sets)) \ ToSet(Written)
                             /\ \/ ToSet(Head(sets)) \subseteq ToSet(Written) \cup UnitRows
                                \/ Doomed(setup, Query, units)

(* Rows the query has still to write. *)
Left == IF InQuery /\ Writes(setup, Query)
        THEN IF pc = "set" THEN RowsOf(sets) ELSE (ToSet(Head(sets)) \ ToSet(Written)) \cup RowsOf(Tail(sets))
        ELSE {}

Balance ==
  IsInjective(Written) /\ ToSet(Written) \cap Left = {} /\ ToSet(Written) \cup Left = Due

Live == SectionType /\ QueryInv /\ SendInv /\ Balance

BatchInv == RowsOnce /\ TxAllOrNothing /\ DatasetsWritten /\ (pc # "ended" => Live)

-----------------------------------------------------------------------------
(* Statements *)

LEMMA SeqDomain ==
  ASSUME NEW s, IsSeq(s)
  PROVE  Len(s) \in Nat /\ DOMAIN s = 1 .. Len(s)
BY LenProperties DEF IsSeq

LEMMA SeqMap ==
  ASSUME NEW s, IsSeq(s), NEW f, DOMAIN f = DOMAIN s, f = [i \in DOMAIN f |-> f[i]]
  PROVE  IsSeq(f)
<1> DEFINE m == Len(s)
<1>1. m \in Nat /\ DOMAIN f = 1 .. m
  BY SeqDomain
<1> HIDE DEF m
<1>2. f \in [1 .. m -> ToSet(f)]
  BY <1>1 DEF ToSet
<1> QED BY <1>1, <1>2, SeqOfLen DEF IsSeq

(* What a part of a unit writes, the whole does too. *)
LEMMA EffectFacts ==
  ASSUME NEW s, NEW q, NEW u, IsSeq(u), NEW part,
         \A t \in ToSet(u) : Writes(s, q) /\ ~Broken(q, t) => IsSeq(RowsWritten(q, t))
  PROVE  /\ IsSeq(Effect(s, q, u, part))
         /\ ToSet(Effect(s, q, u, part)) \subseteq ToSet(Effect(s, q, u, DOMAIN u))
         /\ IsInjective(Effect(s, q, u, DOMAIN u)) => IsInjective(Effect(s, q, u, part))
         /\ ~Writes(s, q) => ToSet(Effect(s, q, u, part)) = {}
<1> DEFINE P(x) == [k \in DOMAIN u |-> IF k \in x /\ Writes(s, q) /\ ~Broken(q, u[k]) THEN RowsWritten(q, u[k]) ELSE <<>>]
<1>1. \A x : Effect(s, q, u, x) = FlattenSeq(P(x))
  BY DEF Effect
<1>2. ASSUME NEW x PROVE Pieces(P(x))
  <2> DEFINE p == P(x)
  <2>1. DOMAIN p = DOMAIN u /\ p = [k \in DOMAIN p |-> p[k]]
    OBVIOUS
  <2>2. ASSUME NEW k \in DOMAIN u PROVE IsSeq(p[k])
    <3>1. u[k] \in ToSet(u)
      BY DEF ToSet
    <3>2. p[k] = IF k \in x /\ Writes(s, q) /\ ~Broken(q, u[k]) THEN RowsWritten(q, u[k]) ELSE <<>>
      OBVIOUS
    <3> QED BY <3>1, <3>2, EmptyIsSeq
  <2> HIDE DEF p
  <2>3. Pieces(p)
    BY <2>1, <2>2, SeqMap DEF Pieces
  <2> QED BY <2>3 DEF p
<1>3. ASSUME NEW x PROVE IsSeq(FlattenSeq(P(x))) /\ ToSet(FlattenSeq(P(x))) = RowsOf(P(x))
                         /\ (Distinct(P(x)) <=> IsInjective(FlattenSeq(P(x))))
  BY <1>2, FlattenFacts
<1> DEFINE a == P(part)
           b == P(DOMAIN u)
<1>4. \A k \in DOMAIN a : k \in DOMAIN b /\ (a[k] = b[k] \/ a[k] = <<>>)
  OBVIOUS
<1>5. ~Writes(s, q) => \A k \in DOMAIN a : a[k] = <<>>
  OBVIOUS
<1> HIDE DEF a, b
<1>6. RowsOf(a) \subseteq RowsOf(b)
  BY <1>4 DEF RowsOf, ToSet
<1>7. Distinct(b) => Distinct(a)
  BY <1>4 DEF Distinct
<1>8. ~Writes(s, q) => RowsOf(a) = {}
  BY <1>5 DEF RowsOf, ToSet
<1> QED BY <1>1, <1>3, <1>6, <1>7, <1>8 DEF a, b

LEMMA SendableFacts ==
  ASSUME NEW s, NEW q, NEW us, Sendable(s, q, us)
  PROVE  /\ Pieces(UnitPieces(s, q, us))
         /\ us = <<>> => RowsOf(UnitPieces(s, q, us)) = {}
         /\ ~Writes(s, q) => RowsOf(UnitPieces(s, q, us)) = {}
<1> DEFINE p == UnitPieces(s, q, us)
<1>1. DOMAIN p = DOMAIN us /\ p = [k \in DOMAIN p |-> p[k]]
      /\ \A k \in DOMAIN us : p[k] = Effect(s, q, us[k], DOMAIN us[k])
  BY DEF UnitPieces
<1>2. ASSUME NEW k \in DOMAIN us
      PROVE  IsSeq(p[k]) /\ (~Writes(s, q) => ToSet(p[k]) = {})
  <2>1. us[k] \in ToSet(us)
    BY DEF ToSet
  <2>2. PICK u, part : u = us[k] /\ part = DOMAIN us[k]
    OBVIOUS
  <2>3. IsSeq(u) /\ \A t \in ToSet(u) : Writes(s, q) /\ ~Broken(q, t) => IsSeq(RowsWritten(q, t))
    BY <2>1, <2>2 DEF Sendable
  <2>4. IsSeq(Effect(s, q, u, part)) /\ (~Writes(s, q) => ToSet(Effect(s, q, u, part)) = {})
    BY <2>3, EffectFacts
  <2> QED BY <1>1, <2>2, <2>4
<1> HIDE DEF p
<1>3. Pieces(p)
  BY <1>1, <1>2, SeqMap DEF Pieces, Sendable
<1>4. us = <<>> => RowsOf(p) = {}
  BY <1>1 DEF RowsOf
<1>5. ~Writes(s, q) => RowsOf(p) = {}
  BY <1>1, <1>2 DEF RowsOf
<1> QED BY <1>3, <1>4, <1>5 DEF p

LEMMA UnitGoes ==
  ASSUME NEW s, NEW q, NEW us, Sendable(s, q, us), us # <<>>
  PROVE  LET e == Effect(s, q, Head(us), DOMAIN Head(us)) IN
         /\ Sendable(s, q, Tail(us)) /\ Head(us) \in ToSet(us)
         /\ IsSeq(e) /\ IsInjective(e)
         /\ RowsOf(UnitPieces(s, q, us)) = ToSet(e) \cup RowsOf(UnitPieces(s, q, Tail(us)))
         /\ ToSet(e) \cap RowsOf(UnitPieces(s, q, Tail(us))) = {}
<1> DEFINE p == UnitPieces(s, q, us)
           t == Tail(us)
           r == UnitPieces(s, q, t)
<1>1. Len(us) \in Nat \ {0} /\ DOMAIN us = 1 .. Len(us) /\ us \in Seq(ToSet(us)) /\ Head(us) = us[1]
  BY EmptySeq, SeqDomain DEF Sendable, IsSeq
<1>2. t \in Seq(ToSet(us)) /\ DOMAIN t = 1 .. Len(us) - 1 /\ \A i \in 1 .. Len(us) - 1 : t[i] = us[i + 1]
  <2>1. t \in Seq(ToSet(us)) /\ Len(t) = Len(us) - 1 /\ \A i \in 1 .. Len(t) : t[i] = us[i + 1]
    BY <1>1, HeadTailProperties
  <2> QED BY <2>1, LenProperties
<1>3. IsSeq(t) /\ ToSet(t) \subseteq ToSet(us) /\ Head(us) \in ToSet(us)
  <2>1. \A i \in DOMAIN t : i + 1 \in DOMAIN us
    BY <1>1, <1>2
  <2> HIDE DEF t
  <2> QED BY <1>1, <1>2, <2>1, SeqOfAny DEF ToSet
<1>4. Pieces(p)
  BY SendableFacts
<1>5. p # <<>> /\ Len(p) = Len(us) /\ Head(p) = p[1] /\ p[1] = Effect(s, q, Head(us), DOMAIN Head(us))
  <2>1. DOMAIN p = 1 .. Len(us) /\ p[1] = Effect(s, q, us[1], DOMAIN us[1])
    BY <1>1 DEF UnitPieces
  <2> HIDE DEF p
  <2>2. IsSeq(p)
    BY <1>4 DEF Pieces
  <2>3. Len(p) \in Nat /\ DOMAIN p = 1 .. Len(p)
    BY <2>2, SeqDomain
  <2>4. Len(p) = Len(us)
    BY <1>1, <2>1, <2>3
  <2>5. p # <<>>
    BY <1>1, <2>4
  <2>6. Head(p) = p[1]
    BY <2>2, <2>5 DEF IsSeq
  <2> QED BY <1>1, <2>1, <2>4, <2>5, <2>6
<1>6. r = Tail(p)
  <2>1. DOMAIN r = 1 .. Len(us) - 1 /\ r = [i \in DOMAIN r |-> r[i]]
        /\ \A i \in DOMAIN r : r[i] = Effect(s, q, us[i + 1], DOMAIN us[i + 1])
    <3> HIDE DEF t
    <3> QED BY <1>2 DEF UnitPieces
  <2>2. \A i \in DOMAIN us : p[i] = Effect(s, q, us[i], DOMAIN us[i])
    BY DEF UnitPieces
  <2> HIDE DEF p, r
  <2>3. DOMAIN Tail(p) = 1 .. Len(us) - 1 /\ \A i \in DOMAIN Tail(p) : Tail(p)[i] = p[i + 1]
    BY <1>4, <1>5, HeadGoes
  <2>4. Tail(p) = [i \in DOMAIN Tail(p) |-> Tail(p)[i]]
    <3>1. Tail(p) \in Seq(ToSet(p))
      BY <1>4, <1>5, HeadTailProperties DEF Pieces, IsSeq
    <3>2. Tail(p) \in [1 .. Len(Tail(p)) -> ToSet(p)]
      BY <3>1, LenProperties
    <3> QED BY <3>2
  <2>5. \A i \in DOMAIN r : r[i] = Tail(p)[i]
    <3>1. \A i \in DOMAIN r : i + 1 \in DOMAIN us
      BY <1>1, <2>1
    <3> QED BY <2>1, <2>2, <2>3, <3>1
  <2> QED BY <2>1, <2>3, <2>4, <2>5
<1>7. /\ IsSeq(Head(p)) /\ RowsOf(p) = ToSet(Head(p)) \cup RowsOf(Tail(p))
      /\ Distinct(Tail(p)) /\ IsInjective(Head(p)) /\ ToSet(Head(p)) \cap RowsOf(Tail(p)) = {}
  <2>1. Distinct(p)
    BY DEF Sendable
  <2> HIDE DEF p
  <2> QED BY <1>4, <1>5, <2>1, HeadGoes
<1>8. Sendable(s, q, t)
  <2>1. Distinct(r)
    <3> HIDE DEF p, r
    <3> QED BY <1>6, <1>7
  <2> HIDE DEF t
  <2> QED BY <1>3, <2>1 DEF Sendable
<1> HIDE DEF p, r
<1> QED BY <1>3, <1>5, <1>6, <1>7, <1>8 DEF p, r, t

LEMMA PrefixOf ==
  ASSUME NEW s, NEW t, IsSeq(s), IsSeq(t), IsPrefix(s, t), IsInjective(t)
  PROVE  IsInjective(s) /\ ToSet(s) \subseteq ToSet(t)
<1> DEFINE m == Len(s)
<1>1. m \in Nat /\ DOMAIN s = 1 .. m /\ Len(t) \in Nat /\ DOMAIN t = 1 .. Len(t) /\ m <= Len(t)
  BY SeqDomain DEF IsPrefix
<1>2. SubSeq(s, 1, m) = SubSeq(t, 1, m)
  BY DEF IsPrefix
<1>3. \A i \in 1 .. m : SubSeq(s, 1, m)[i] = s[i] /\ SubSeq(t, 1, m)[i] = t[i]
  <2>1. s \in Seq(ToSet(s)) /\ t \in Seq(ToSet(t))
    BY DEF IsSeq
  <2> QED BY <1>1, <2>1
<1> HIDE DEF m
<1>4. DOMAIN s \subseteq DOMAIN t /\ \A i \in DOMAIN s : s[i] = t[i]
  BY <1>1, <1>2, <1>3
<1> QED BY <1>4 DEF IsInjective, ToSet

(* The statements of an arg set write it, or the first of its rows. *)
LEMMA StatementsOf ==
  ASSUME NEW s \in Setups, NEW n \in DOMAIN s.queries, NEW new \in ArgSets(n, s.queries[n]),
         NEW rows \in ToSet(new.args), IsSeq(rows), IsInjective(rows),
         Splits(s.queries[n], Text(s, s.queries[n], rows))
  PROVE  LET q == s.queries[n] us == Tried(s, q, rows) IN
         /\ Sendable(s, q, us) /\ Readable(s, q, rows, us)
         /\ Writes(s, q) => /\ RowsOf(UnitPieces(s, q, us)) \subseteq ToSet(rows)
                            /\ ToSet(rows) \subseteq RowsOf(UnitPieces(s, q, us)) \/ Doomed(s, q, us)
<1> DEFINE q == s.queries[n]
           us == Tried(s, q, rows)
           p == UnitPieces(s, q, us)
<1>1. /\ us \in Seq(ToSet(us))
      /\ \A u \in ToSet(us) : u \in Seq(ToSet(u)) /\ \A t \in ToSet(u) :
           IF Broken(q, t) THEN Misread(s, q, rows) \/ q.reads
           ELSE Writes(s, q) => RowsWritten(q, t) \in Seq(ToSet(rows))
      /\ Writes(s, q) =>
           FlattenSeq(p) = rows
           \/ (Misread(s, q, rows) /\ IsPrefix(FlattenSeq(p), rows) /\ Refused(q, us))
  BY TemplatesAssumption DEF UnitPieces
<1> HIDE DEF q, us
<1>2. /\ IsSeq(us)
      /\ \A u \in ToSet(us) :
           /\ IsSeq(u)
           /\ \A t \in ToSet(u) : Writes(s, q) /\ ~Broken(q, t) => IsSeq(RowsWritten(q, t))
  BY <1>1, SeqOfAny DEF IsSeq
<1>9. Readable(s, q, rows, us)
  BY <1>1 DEF Readable
<1>3. ASSUME NEW k \in DOMAIN us
      PROVE  IsSeq(p[k]) /\ (~Writes(s, q) => ToSet(p[k]) = {})
  <2>1. us[k] \in ToSet(us)
    BY DEF ToSet
  <2>2. PICK u, part : u = us[k] /\ part = DOMAIN us[k]
    OBVIOUS
  <2>3. IsSeq(u) /\ \A t \in ToSet(u) : Writes(s, q) /\ ~Broken(q, t) => IsSeq(RowsWritten(q, t))
    BY <1>2, <2>1, <2>2
  <2>4. IsSeq(Effect(s, q, u, part)) /\ (~Writes(s, q) => ToSet(Effect(s, q, u, part)) = {})
    BY <2>3, EffectFacts
  <2> QED BY <2>2, <2>4 DEF UnitPieces
<1>4. DOMAIN p = DOMAIN us /\ p = [k \in DOMAIN p |-> p[k]]
  BY DEF UnitPieces
<1> HIDE DEF p
<1>5. Pieces(p)
  BY <1>2, <1>3, <1>4, SeqMap DEF Pieces
<1>6. CASE Writes(s, q)
  <2> DEFINE w == FlattenSeq(p)
  <2>1. w = rows \/ (Misread(s, q, rows) /\ IsPrefix(w, rows) /\ Refused(q, us))
    BY <1>1, <1>6
  <2>2. IsSeq(w) /\ ToSet(w) = RowsOf(p) /\ (Distinct(p) <=> IsInjective(w))
    BY <1>5, FlattenFacts
  <2> HIDE DEF w
  <2>3. IsInjective(w) /\ ToSet(w) \subseteq ToSet(rows)
    BY <2>1, <2>2, PrefixOf
  <2>4. ToSet(rows) \subseteq ToSet(w) \/ Doomed(s, q, us)
    BY <2>1 DEF Misread, Doomed
  <2> QED BY <1>2, <1>9, <2>2, <2>3, <2>4 DEF Sendable, p, q, us
<1>7. CASE ~Writes(s, q)
  <2>1. ASSUME NEW k \in DOMAIN p PROVE DOMAIN p[k] = {}
    <3>1. ToSet(p[k]) = {}
      BY <1>3, <1>4, <1>7
    <3> QED BY <3>1 DEF ToSet
  <2>2. Distinct(p)
    BY <2>1 DEF Distinct
  <2>3. Sendable(s, q, us)
    BY <1>2, <2>2 DEF Sendable, p
  <2> QED BY <1>7, <1>9, <2>3 DEF q, us
<1> QED BY <1>6, <1>7

-----------------------------------------------------------------------------
(* Steps of a section *)

LEMMA AppendFacts ==
  ASSUME NEW s, NEW e, IsSeq(s)
  PROVE  /\ IsSeq(Append(s, e)) /\ Len(Append(s, e)) = Len(s) + 1
         /\ DOMAIN Append(s, e) = DOMAIN s \cup {Len(s) + 1} /\ Len(s) + 1 \notin DOMAIN s
         /\ (\A i \in DOMAIN s : Append(s, e)[i] = s[i]) /\ Append(s, e)[Len(s) + 1] = e
<1> DEFINE S == ToSet(s) \cup {e}
           m == Len(s)
           t == Append(s, e)
<1>1. s \in Seq(S) /\ e \in S
  BY SeqMonotonic DEF IsSeq
<1>2. m \in Nat /\ DOMAIN s = 1 .. m
  BY SeqDomain
<1> HIDE DEF S
<1>3. t \in Seq(S) /\ Len(t) = m + 1 /\ (\A i \in 1 .. m : t[i] = s[i]) /\ t[m + 1] = e
  BY <1>1, AppendProperties
<1>4. DOMAIN t = 1 .. m + 1 /\ IsSeq(t)
  BY <1>3, LenProperties, SeqOfAny
<1> HIDE DEF m, t
<1>5. 1 .. m + 1 = 1 .. m \cup {m + 1} /\ m + 1 \notin 1 .. m
  BY <1>2
<1> QED BY <1>2, <1>3, <1>4, <1>5 DEF m, t

(* Either nothing is in the database yet or nothing in a transaction. *)
LEMMA WrittenFacts ==
  ASSUME SectionType
  PROVE  IsSeq(Written) /\ Written = IF setup.tx THEN pending ELSE applied
<1>1. applied \in Seq(ToSet(applied)) /\ pending \in Seq(ToSet(pending))
  BY DEF SectionType, IsSeq
<1>2. CASE setup.tx
  <2>1. applied = <<>>
    BY <1>2 DEF SectionType
  <2>2. <<>> \o pending = pending
    BY <1>1, ConcatEmptySeq
  <2> QED BY <1>2, <2>1, <2>2 DEF Written, SectionType
<1>3. CASE ~setup.tx
  <2>1. pending = <<>>
    BY <1>3 DEF SectionType
  <2>2. applied \o <<>> = applied
    BY <1>1, ConcatEmptySeq
  <2> QED BY <1>3, <2>1, <2>2 DEF Written, SectionType
<1> QED BY <1>2, <1>3

LEMMA WriteFacts ==
  ASSUME SectionType, NEW rows, IsSeq(rows), Write(rows)
  PROVE  /\ Written' = Written \o rows
         /\ IsSeq(applied') /\ IsSeq(pending') /\ IF setup.tx THEN applied' = <<>> ELSE pending' = <<>>
<1>1. IsSeq(applied \o rows) /\ IsSeq(pending \o rows)
  BY ConcatFacts DEF SectionType
<1>2. Written = IF setup.tx THEN pending ELSE applied
  BY WrittenFacts
<1>3. CASE setup.tx
  <2>1. pending' = pending \o rows /\ applied' = <<>>
    BY <1>3 DEF Write, SectionType
  <2>2. <<>> \o (pending \o rows) = pending \o rows
    BY <1>1, ConcatEmptySeq DEF IsSeq
  <2> QED BY <1>1, <1>2, <1>3, <2>1, <2>2, EmptyIsSeq DEF Written
<1>4. CASE ~setup.tx
  <2>1. applied' = applied \o rows /\ pending' = <<>>
    BY <1>4 DEF Write, SectionType
  <2>2. (applied \o rows) \o <<>> = applied \o rows
    BY <1>1, ConcatEmptySeq DEF IsSeq
  <2> QED BY <1>1, <1>2, <1>4, <2>1, <2>2, EmptyIsSeq DEF Written
<1> QED BY <1>3, <1>4

LEMMA DatasetsKeep ==
  ASSUME DatasetsWritten, DOMAIN datasets \subseteq DOMAIN wanted, outcome = "running",
         datasets' = datasets, setup' = setup, \A n \in DOMAIN wanted : wanted'[n] = wanted[n],
         outcome' = "running" => ToSet(Written) \subseteq ToSet(Written')
  PROVE  DatasetsWritten'
<1> SUFFICES ASSUME NEW n \in DOMAIN datasets, Writes(setup, setup.queries[n])
             PROVE  /\ ToSet(datasets[n]) \subseteq wanted[n]
                    /\ outcome' = "running" => ToSet(datasets[n]) \subseteq ToSet(Written')
                    /\ ~setup.queries[n].reads => ToSet(datasets[n]) = wanted[n]
  BY DEF DatasetsWritten
<1> QED BY DEF DatasetsWritten

(* A section that ends for another reason than success. *)
LEMMA EndsShort ==
  ASSUME Live, DatasetsWritten, pc' = "ended", outcome' \in {"failed", "panicked"},
         setup' = setup, wanted' = wanted, datasets' = datasets, pending' = <<>>,
         IsSeq(applied'), IsInjective(applied'), ToSet(applied') \subseteq Due, setup.tx => applied' = <<>>
  PROVE  BatchInv'
<1>1. Due' = Due
  BY DEF Due
<1>2. Written' = applied'
  BY ConcatEmptySeq DEF Written, IsSeq
<1>3. RowsOnce'
  BY <1>1, <1>2 DEF RowsOnce
<1>4. TxAllOrNothing'
  BY DEF TxAllOrNothing
<1>5. DatasetsWritten'
  BY DatasetsKeep DEF Live, SectionType
<1> QED BY <1>3, <1>4, <1>5 DEF BatchInv

LEMMA WhatIsApplied ==
  ASSUME Live
  PROVE  /\ IsSeq(applied) /\ IsInjective(applied) /\ ToSet(applied) \subseteq ToSet(Written)
         /\ ToSet(Written) \subseteq Due
         /\ setup.tx => applied = <<>>
<1>1. IsSeq(applied) /\ (setup.tx => applied = <<>>) /\ Written = IF setup.tx THEN pending ELSE applied
  BY WrittenFacts DEF Live, SectionType
<1>2. IsInjective(Written) /\ ToSet(Written) \subseteq Due
  BY DEF Live, Balance
<1> QED BY <1>1, <1>2, EmptyIsSeq

(* And one that goes on. *)
LEMMA GoesOn ==
  ASSUME SectionType', QueryInv', SendInv', Balance', DatasetsWritten'
  PROVE  BatchInv'
<1>1. RowsOnce'
  <2>1. IsInjective(Written') /\ ToSet(Written') \subseteq Due'
    BY DEF Balance
  <2>2. outcome' = "running"
    BY DEF SectionType
  <2>3. pc' = "send" /\ ~Query'.reads /\ ~Misread(setup', Query', Head(sets')) =>
          \A u \in ToSet(units') : \A t \in ToSet(u) : ~Broken(Query', t)
    BY DEF SendInv, Readable
  <2> QED BY <2>1, <2>2, <2>3 DEF RowsOnce
<1>2. TxAllOrNothing'
  BY DEF TxAllOrNothing, SectionType
<1> QED BY <1>1, <1>2 DEF BatchInv, Live

-----------------------------------------------------------------------------
LEMMA BatchStart ==
  ASSUME InitBatch
  PROVE  BatchInv
<1> USE DEF InitBatch
<1>1. setup.queries \in Seq(ToSet(setup.queries))
  BY SetupsAssumption
<1>2. Len(setup.queries) \in Nat
  BY <1>1, LenProperties
<1>3. Written = <<>> /\ Due = {}
  <2>1. <<>> \o <<>> = <<>>
    BY ConcatEmptySeq, EmptySeq
  <2> QED BY <2>1 DEF Written, Due
<1>4. SectionType
  BY <1>2, EmptyIsSeq, EmptySeq DEF SectionType, Asked, InQuery
<1>5. QueryInv /\ SendInv /\ Balance
  BY <1>3, EmptyIsSeq DEF QueryInv, SendInv, Balance, Left, InQuery
<1>6. DatasetsWritten /\ TxAllOrNothing
  BY DEF DatasetsWritten, TxAllOrNothing
<1>7. RowsOnce
  BY <1>3, EmptyIsSeq DEF RowsOnce
<1> QED BY <1>4, <1>5, <1>6, <1>7 DEF BatchInv, Live

LEMMA BeginKeeps ==
  ASSUME Live, DatasetsWritten, Begin
  PROVE  BatchInv'
<1>1. CASE pc' = "query" /\ UNCHANGED outcome
  <2>1. Written' = Written /\ Due' = Due /\ Left' = {} /\ Left = {}
    BY <1>1 DEF Begin, Written, Due, Left, InQuery
  <2>2. SectionType'
    BY <1>1 DEF Begin, Live, SectionType, Asked, InQuery
  <2>3. QueryInv' /\ SendInv'
    BY <1>1 DEF QueryInv, SendInv, InQuery
  <2>4. Balance'
    BY <2>1 DEF Live, Balance
  <2>5. DatasetsWritten'
    BY <2>1, DatasetsKeep DEF Begin, Live, SectionType
  <2> QED BY <2>2, <2>3, <2>4, <2>5, GoesOn
<1>2. CASE setup.tx /\ End("failed")
  <2>1. pc' = "ended" /\ outcome' = "failed" /\ pending' = <<>> /\ applied' = applied
        /\ setup' = setup /\ wanted' = wanted /\ datasets' = datasets
    BY <1>2 DEF Begin, End, Live, SectionType
  <2> QED BY <2>1, WhatIsApplied, EndsShort
<1> QED BY <1>1, <1>2 DEF Begin

LEMMA PanicKeeps ==
  ASSUME Live, DatasetsWritten, StartFails \/ Panic
  PROVE  BatchInv'
<1>1. pc' = "ended" /\ outcome' \in {"failed", "panicked"} /\ pending' = <<>> /\ applied' = applied
      /\ setup' = setup /\ wanted' = wanted /\ datasets' = datasets
  BY DEF StartFails, Panic, Fail, End
<1> QED BY <1>1, WhatIsApplied, EndsShort

LEMMA QueryKind ==
  ASSUME SectionType, qi \in DOMAIN setup.queries
  PROVE  Query.kind \in {"plain", "each", "batch"}
BY SetupsAssumption DEF SectionType, Query, ToSet

LEMMA StartQueryKeeps ==
  ASSUME Live, DatasetsWritten, StartQuery
  PROVE  BatchInv'
<1>1. /\ pc = "query" /\ pc' = "set" /\ Asked = qi - 1 /\ qi \in Nat \ {0} /\ qi \in DOMAIN setup.queries
      /\ qi <= Len(setup.queries) /\ IsSeq(wanted) /\ Len(wanted) = qi - 1 /\ IsSeq(produced) /\ Len(produced) = qi - 1
      /\ UNCHANGED <<setup, qi, units, pending, applied, datasets, results, outcome>>
  <2>1. pc = "query" /\ pc' = "set" /\ qi <= Len(setup.queries)
        /\ UNCHANGED <<setup, qi, units, pending, applied, datasets, results, outcome>>
    BY DEF StartQuery
  <2>2. setup.queries \in Seq(ToSet(setup.queries))
    BY SetupsAssumption DEF Live, SectionType
  <2>3. qi \in Nat \ {0} /\ qi \in DOMAIN setup.queries
    BY <2>1, <2>2, LenProperties DEF Live, SectionType
  <2> QED BY <2>1, <2>3 DEF Live, SectionType, Asked, InQuery
<1>2. PICK new \in ArgSets(qi, Query) :
        /\ GenerateArgs(new.args)
        /\ sets' = new.args /\ produced' = Append(produced, new.args) /\ wanted' = Append(wanted, new.rows)
  BY DEF StartQuery
<1>3. Query' = Query
  BY <1>1 DEF Query
<1>4. /\ Pieces(new.args) /\ Distinct(new.args) /\ RowsOf(new.args) = new.rows
      /\ \A r \in new.rows : r[1] = qi
  <2>1. Query.kind \in {"plain", "each", "batch"}
    BY <1>1, QueryKind DEF Live
  <2> QED BY <2>1, ArgSetsFacts
<1>5. /\ IsSeq(wanted') /\ Len(wanted') = qi /\ DOMAIN wanted' = DOMAIN wanted \cup {qi} /\ qi \notin DOMAIN wanted
      /\ \A i \in DOMAIN wanted : wanted'[i] = wanted[i]
      /\ wanted'[qi] = new.rows
  BY <1>1, <1>2, AppendFacts
<1>6. IsSeq(produced') /\ Len(produced') = qi /\ produced'[qi] = new.args
  BY <1>1, <1>2, AppendFacts
<1>7. \A n \in DOMAIN wanted : \A r \in wanted[n] : r[1] = n
  BY DEF Live, SectionType
<1>8. Written' = Written
  BY <1>1 DEF Written
<1>9. SectionType'
  <2>1. \A n \in DOMAIN wanted' : \A r \in wanted'[n] : r[1] = n
    BY <1>4, <1>5, <1>7
  <2>2. Asked' = qi /\ qi \in 0 .. Len(setup.queries)
    <3>1. Len(setup.queries) \in Nat
      BY SetupsAssumption, LenProperties DEF Live, SectionType
    <3> QED BY <1>1, <3>1 DEF Asked, InQuery
  <2> QED BY <1>1, <1>5, <1>6, <2>1, <2>2 DEF Live, SectionType
<1>10. QueryInv'
  <2>1. new \in ArgSets(qi', Query')
    BY <1>1, <1>3
  <2>2. Query'.kind = "batch" /\ Query'.named => captured' = FlattenSeq(produced'[qi'])
    BY <1>1, <1>2, <1>3, <1>6 DEF GenerateArgs
  <2>3. produced'[qi'] = new.args /\ wanted'[qi'] = new.rows /\ ToSet(sets') \subseteq ToSet(new.args)
    BY <1>1, <1>2, <1>5, <1>6
  <2>4. Pieces(sets') /\ Distinct(sets')
    BY <1>2, <1>4
  <2> QED BY <2>1, <2>2, <2>3, <2>4 DEF QueryInv
<1>11. SendInv'
  BY <1>1 DEF SendInv
<1>12. Due' = Due \cup IF Writes(setup, Query) THEN new.rows ELSE {}
  <2>1. Due' = UNION {wanted'[n] : n \in {n \in DOMAIN wanted' : Writes(setup, setup.queries[n])}}
    BY <1>1 DEF Due
  <2> QED BY <1>5, <2>1 DEF Due, Query
<1>13. Balance'
  <2>1. Left' = IF Writes(setup, Query) THEN new.rows ELSE {}
    BY <1>1, <1>2, <1>3, <1>4 DEF Left, InQuery
  <2>2. IsInjective(Written) /\ ToSet(Written) = Due
    BY <1>1 DEF Live, Balance, Left, InQuery
  <2>3. Due \cap new.rows = {}
    <3>1. SUFFICES ASSUME NEW n \in DOMAIN wanted, NEW r \in wanted[n], r \in new.rows PROVE FALSE
      BY DEF Due
    <3>2. n = qi
      BY <1>4, <1>7, <3>1
    <3> QED BY <1>5, <3>2
  <2> QED BY <1>8, <1>12, <2>1, <2>2, <2>3 DEF Balance
<1>14. DatasetsWritten'
  BY <1>1, <1>5, <1>8, DatasetsKeep DEF Live, SectionType
<1> QED BY <1>9, <1>10, <1>11, <1>13, <1>14, GoesOn

LEMMA StartSetKeeps ==
  ASSUME Live, DatasetsWritten, StartSet
  PROVE  BatchInv'
<1>1. /\ pc = "set" /\ pc' = "send" /\ sets # <<>> /\ units' = Tried(setup, Query, Head(sets))
      /\ Splits(Query, Text(setup, Query, Head(sets)))
      /\ UNCHANGED <<setup, qi, sets, stmts, pending, applied, captured, datasets, results, outcome, produced, wanted>>
  BY DEF StartSet
<1>2. Query' = Query /\ Written' = Written /\ Due' = Due
  BY <1>1 DEF Query, Written, Due
<1>3. SectionType'
  BY <1>1 DEF Live, SectionType, Asked, InQuery
<1>4. InQuery /\ InQuery'
  BY <1>1 DEF InQuery
<1>5. QueryInv'
  BY <1>1, <1>2, <1>4 DEF Live, QueryInv
<1>6. /\ Head(sets) \in ToSet(sets) /\ RowsOf(sets) = ToSet(Head(sets)) \cup RowsOf(Tail(sets))
      /\ IsSeq(Head(sets)) /\ IsInjective(Head(sets)) /\ ToSet(Head(sets)) \cap RowsOf(Tail(sets)) = {}
  BY <1>1, <1>4, HeadGoes DEF Live, QueryInv
<1>7. /\ Sendable(setup, Query, units') /\ Readable(setup, Query, Head(sets), units')
      /\ Writes(setup, Query) =>
           /\ RowsOf(UnitPieces(setup, Query, units')) \subseteq ToSet(Head(sets))
           /\ \/ ToSet(Head(sets)) \subseteq RowsOf(UnitPieces(setup, Query, units'))
              \/ Doomed(setup, Query, units')
  <2>1. PICK new \in ArgSets(qi, Query) : ToSet(sets) \subseteq ToSet(new.args)
    BY <1>4 DEF Live, QueryInv
  <2>2. setup \in Setups /\ qi \in DOMAIN setup.queries /\ Query = setup.queries[qi]
    <3>1. setup \in Setups /\ qi \in Nat \ {0} /\ qi <= Len(setup.queries)
      BY <1>4 DEF Live, SectionType, Asked
    <3>2. setup.queries \in Seq(ToSet(setup.queries))
      BY <3>1, SetupsAssumption
    <3> QED BY <3>1, <3>2, LenProperties DEF Query
  <2>3. PICK rows : rows = Head(sets)
    OBVIOUS
  <2>4. /\ rows \in ToSet(new.args) /\ IsSeq(rows) /\ IsInjective(rows)
        /\ Splits(Query, Text(setup, Query, rows)) /\ units' = Tried(setup, Query, rows)
    BY <1>1, <1>6, <2>1, <2>3
  <2> QED BY <2>1, <2>2, <2>3, <2>4, StatementsOf
<1>8. UnitRows' = RowsOf(UnitPieces(setup, Query, units'))
  BY <1>1, <1>2 DEF UnitRows
<1>9. Writes(setup, Query) => ToSet(Written) \cap ToSet(Head(sets)) = {}
  BY <1>1, <1>4, <1>6 DEF Live, Balance, Left
<1>10. SendInv'
  <2>1. sets' # <<>> /\ Sendable(setup', Query', units') /\ Readable(setup', Query', Head(sets'), units')
    BY <1>1, <1>2, <1>7
  <2>2. Writes(setup', Query') =>
          /\ UnitRows' \subseteq ToSet(Head(sets')) \ ToSet(Written')
          /\ \/ ToSet(Head(sets')) \subseteq ToSet(Written') \cup UnitRows'
             \/ Doomed(setup', Query', units')
    BY <1>1, <1>2, <1>7, <1>8, <1>9
  <2> QED BY <2>1, <2>2 DEF SendInv
<1>11. Left' = Left
  <2>1. CASE Writes(setup, Query)
    <3>1. Left = RowsOf(sets) /\ Left' = (ToSet(Head(sets)) \ ToSet(Written)) \cup RowsOf(Tail(sets))
      BY <1>1, <1>2, <1>4, <2>1 DEF Left
    <3> QED BY <1>6, <1>9, <2>1, <3>1
  <2>2. CASE ~Writes(setup, Query)
    BY <1>1, <1>2, <2>2 DEF Left
  <2> QED BY <2>1, <2>2
<1>12. Balance'
  BY <1>2, <1>11 DEF Live, Balance
<1>13. DatasetsWritten'
  BY <1>1, <1>2, DatasetsKeep DEF Live, SectionType
<1> QED BY <1>3, <1>5, <1>10, <1>12, <1>13, GoesOn

LEMMA UnitsShrink ==
  ASSUME NEW us, IsSeq(us), us # <<>>
  PROVE  /\ ToSet(Tail(us)) \subseteq ToSet(us)
         /\ \A u \in ToSet(us) : u = Head(us) \/ u \in ToSet(Tail(us))
<1> DEFINE r == Tail(us)
<1>1. Len(us) \in Nat \ {0} /\ DOMAIN us = 1 .. Len(us) /\ us \in Seq(ToSet(us)) /\ Head(us) = us[1]
  BY EmptySeq, SeqDomain DEF IsSeq
<1>2. DOMAIN r = 1 .. Len(us) - 1 /\ \A i \in 1 .. Len(us) - 1 : r[i] = us[i + 1]
  <2>1. r \in Seq(ToSet(us)) /\ Len(r) = Len(us) - 1 /\ \A i \in 1 .. Len(r) : r[i] = us[i + 1]
    BY <1>1, HeadTailProperties
  <2> QED BY <2>1, LenProperties
<1> HIDE DEF r
<1>3. \A i \in DOMAIN r : i + 1 \in DOMAIN us
  BY <1>1, <1>2
<1>4. \A k \in DOMAIN us : k = 1 \/ (k - 1 \in DOMAIN r /\ r[k - 1] = us[k])
  BY <1>1, <1>2
<1>5. ToSet(r) \subseteq ToSet(us)
  BY <1>1, <1>2, <1>3 DEF ToSet
<1>6. ASSUME NEW u \in ToSet(us) PROVE u = Head(us) \/ u \in ToSet(r)
  <2>1. PICK k \in DOMAIN us : u = us[k]
    BY DEF ToSet
  <2> QED BY <1>1, <1>4, <2>1 DEF ToSet
<1> QED BY <1>5, <1>6 DEF r

(* A unit that goes through is not one that the database refuses. *)
LEMMA StillDoomed ==
  ASSUME NEW s, NEW q, NEW us, IsSeq(us), us # <<>>, Doomed(s, q, us),
         ~\E t \in ToSet(Head(us)) : Broken(q, t), IsSeq(Head(us))
  PROVE  Doomed(s, q, Tail(us))
<1>1. PICK u \in ToSet(us) : u # <<>> /\ \A t \in ToSet(u) : Broken(q, t)
  BY DEF Doomed, Refused
<1>2. u # Head(us)
  <2>1. SUFFICES ASSUME u = Head(us) PROVE FALSE
    OBVIOUS
  <2>2. Len(u) \in Nat \ {0} /\ 1 \in DOMAIN u
    BY <1>1, <2>1, EmptySeq, SeqDomain DEF IsSeq
  <2>3. u[1] \in ToSet(u)
    BY <2>2 DEF ToSet
  <2> QED BY <1>1, <2>1, <2>3
<1>3. u \in ToSet(Tail(us))
  BY <1>2, UnitsShrink
<1> QED BY <1>1, <1>3 DEF Doomed, Refused

LEMMA SendKeeps ==
  ASSUME Live, DatasetsWritten, Send
  PROVE  BatchInv'
<1> DEFINE e == Effect(setup, Query, Head(units), DOMAIN Head(units))
<1>1. /\ pc = "send" /\ pc' = "send" /\ units # <<>> /\ units' = Tail(units) /\ Write(e)
      /\ (~\E t \in ToSet(Head(units)) : Broken(Query, t)) \/ setup.driver = "cassandra"
      /\ UNCHANGED <<setup, qi, sets, stmts, captured, datasets, results, outcome, produced, wanted>>
  BY DEF Send
<1>2. Query' = Query /\ Due' = Due /\ InQuery /\ InQuery'
  BY <1>1 DEF Query, Due, InQuery
<1>3. Sendable(setup, Query, units) /\ sets # <<>>
  BY <1>1 DEF Live, SendInv
<1>4. /\ Sendable(setup, Query, Tail(units)) /\ IsSeq(e) /\ IsInjective(e)
      /\ UnitRows = ToSet(e) \cup RowsOf(UnitPieces(setup, Query, Tail(units)))
      /\ ToSet(e) \cap RowsOf(UnitPieces(setup, Query, Tail(units))) = {}
      /\ Head(units) \in ToSet(units)
  BY <1>1, <1>3, UnitGoes DEF UnitRows
<1>5. UnitRows' = RowsOf(UnitPieces(setup, Query, Tail(units)))
  BY <1>1, <1>2 DEF UnitRows
<1> HIDE DEF e
<1>6. Written' = Written \o e /\ IsSeq(applied') /\ IsSeq(pending') /\ IF setup.tx THEN applied' = <<>> ELSE pending' = <<>>
  BY <1>1, <1>4, WriteFacts DEF Live
<1>7. IsSeq(Written) /\ ToSet(Written') = ToSet(Written) \cup ToSet(e)
      /\ (IsInjective(Written') <=> IsInjective(Written) /\ IsInjective(e) /\ ToSet(Written) \cap ToSet(e) = {})
  BY <1>4, <1>6, WrittenFacts, ConcatFacts DEF Live
<1>8. SectionType'
  BY <1>1, <1>2, <1>6 DEF Live, SectionType, Asked
<1>9. QueryInv'
  BY <1>1, <1>2 DEF Live, QueryInv
<1>10. SendInv'
  <2>1. Readable(setup, Query, Head(sets), Tail(units))
    <3>1. Readable(setup, Query, Head(sets), units)
      BY <1>1 DEF Live, SendInv
    <3>2. ToSet(Tail(units)) \subseteq ToSet(units)
      BY <1>1, <1>3, UnitsShrink DEF Sendable
    <3> QED BY <3>1, <3>2 DEF Readable
  <2>2. Doomed(setup, Query, units) => Doomed(setup, Query, Tail(units))
    <3>1. SUFFICES ASSUME Doomed(setup, Query, units) PROVE Doomed(setup, Query, Tail(units))
      OBVIOUS
    <3>2. ~\E t \in ToSet(Head(units)) : Broken(Query, t)
      BY <1>1, <3>1 DEF Doomed
    <3>3. IsSeq(units) /\ IsSeq(Head(units))
      BY <1>3, <1>4 DEF Sendable
    <3> QED BY <1>1, <3>1, <3>2, <3>3, StillDoomed
  <2>3. Writes(setup, Query) =>
          /\ UnitRows' \subseteq ToSet(Head(sets)) \ ToSet(Written')
          /\ \/ ToSet(Head(sets)) \subseteq ToSet(Written') \cup UnitRows'
             \/ Doomed(setup, Query, Tail(units))
    <3>1. Writes(setup, Query) =>
            /\ UnitRows \subseteq ToSet(Head(sets)) \ ToSet(Written)
            /\ \/ ToSet(Head(sets)) \subseteq ToSet(Written) \cup UnitRows
               \/ Doomed(setup, Query, units)
      BY <1>1 DEF Live, SendInv
    <3> QED BY <1>4, <1>5, <1>7, <2>2, <3>1
  <2> QED BY <1>1, <1>2, <1>3, <1>4, <2>1, <2>3 DEF SendInv
<1>11. Balance'
  <2>1. CASE Writes(setup, Query)
    <3>1. /\ Left = (ToSet(Head(sets)) \ ToSet(Written)) \cup RowsOf(Tail(sets))
          /\ Left' = (ToSet(Head(sets)) \ ToSet(Written')) \cup RowsOf(Tail(sets))
      BY <1>1, <1>2, <2>1 DEF Left
    <3>2. ToSet(e) \subseteq ToSet(Head(sets)) \ ToSet(Written)
      BY <1>1, <1>4, <2>1 DEF Live, SendInv
    <3>3. ToSet(Head(sets)) \cap RowsOf(Tail(sets)) = {}
      BY <1>2, <1>3, HeadGoes DEF Live, QueryInv
    <3>4. IsInjective(Written) /\ ToSet(Written) \cap Left = {} /\ ToSet(Written) \cup Left = Due
      BY DEF Live, Balance
    <3> QED BY <1>2, <1>4, <1>7, <3>1, <3>2, <3>3, <3>4 DEF Balance
  <2>2. CASE ~Writes(setup, Query)
    <3>1. UnitRows = {}
      BY <1>3, <2>2, SendableFacts DEF UnitRows
    <3>2. ToSet(e) = {} /\ Left = {} /\ Left' = {}
      BY <1>1, <1>2, <1>4, <2>2, <3>1 DEF Left
    <3> QED BY <1>2, <1>4, <1>7, <3>2 DEF Live, Balance
  <2> QED BY <2>1, <2>2
<1>12. DatasetsWritten'
  BY <1>1, <1>7, DatasetsKeep DEF Live, SectionType
<1> QED BY <1>8, <1>9, <1>10, <1>11, <1>12, GoesOn

LEMMA SendFailsKeeps ==
  ASSUME Live, DatasetsWritten, SendFails
  PROVE  BatchInv'
<1>1. PICK part : applied' = IF setup.tx THEN applied ELSE applied \o Effect(setup, Query, Head(units), part)
  BY DEF SendFails
<1>2. pc = "send" /\ units # <<>> /\ pc' = "ended" /\ outcome' = "failed" /\ pending' = <<>>
      /\ UNCHANGED <<setup, wanted, datasets>>
  BY DEF SendFails, Fail, End
<1>3. Sendable(setup, Query, units)
  BY <1>2 DEF Live, SendInv
<1> DEFINE w == Effect(setup, Query, Head(units), DOMAIN Head(units))
<1>4. Head(units) \in ToSet(units) /\ IsInjective(w) /\ ToSet(w) \subseteq UnitRows
  <2>1. /\ Head(units) \in ToSet(units) /\ IsInjective(w)
        /\ RowsOf(UnitPieces(setup, Query, units)) = ToSet(w) \cup RowsOf(UnitPieces(setup, Query, Tail(units)))
    BY <1>2, <1>3, UnitGoes
  <2> HIDE DEF w
  <2> QED BY <2>1 DEF UnitRows
<1> DEFINE e == Effect(setup, Query, Head(units), part)
<1>5. IsSeq(e) /\ IsInjective(e) /\ ToSet(e) \subseteq ToSet(w) /\ (~Writes(setup, Query) => ToSet(e) = {})
  <2>1. PICK u : u = Head(units)
    OBVIOUS
  <2>2. IsSeq(u) /\ \A t \in ToSet(u) : Writes(setup, Query) /\ ~Broken(Query, t) => IsSeq(RowsWritten(Query, t))
    BY <1>3, <1>4, <2>1 DEF Sendable
  <2> QED BY <1>4, <2>1, <2>2, EffectFacts
<1> HIDE DEF e, w
<1>6. /\ IsSeq(applied) /\ IsInjective(applied) /\ ToSet(applied) \subseteq ToSet(Written)
      /\ ToSet(Written) \subseteq Due /\ (setup.tx => applied = <<>>)
  BY WhatIsApplied
<1>7. ToSet(e) \subseteq Due /\ ToSet(e) \cap ToSet(Written) = {}
  <2>1. CASE Writes(setup, Query)
    <3>1. UnitRows \subseteq ToSet(Head(sets)) \ ToSet(Written)
      BY <1>2, <2>1 DEF Live, SendInv
    <3>2. ToSet(Head(sets)) \ ToSet(Written) \subseteq Left
      BY <1>2, <2>1 DEF Left, InQuery
    <3> QED BY <1>4, <1>5, <3>1, <3>2 DEF Live, Balance
  <2>2. CASE ~Writes(setup, Query)
    BY <1>5, <2>2
  <2> QED BY <2>1, <2>2
<1>8. IsSeq(applied \o e) /\ IsInjective(applied \o e) /\ ToSet(applied \o e) \subseteq Due
  <2>1. ToSet(applied) \cap ToSet(e) = {}
    BY <1>6, <1>7
  <2> QED BY <1>5, <1>6, <1>7, <2>1, ConcatFacts
<1>9. IsSeq(applied') /\ IsInjective(applied') /\ ToSet(applied') \subseteq Due /\ (setup.tx => applied' = <<>>)
  <2>1. applied' = IF setup.tx THEN applied ELSE applied \o e
    BY <1>1 DEF e
  <2> QED BY <1>6, <1>8, <2>1
<1> QED BY <1>2, <1>9, EndsShort

LEMMA EndSetKeeps ==
  ASSUME Live, DatasetsWritten, EndSet
  PROVE  BatchInv'
<1>1. /\ pc = "send" /\ pc' = "set" /\ units = <<>> /\ sets' = Tail(sets)
      /\ IF Query.reads THEN SetDataset(qi, ReadRows) ELSE UNCHANGED datasets
      /\ UNCHANGED <<setup, qi, units, stmts, pending, applied, captured, results, outcome, produced, wanted>>
  BY DEF EndSet
<1>2. Query' = Query /\ Due' = Due /\ Written' = Written /\ InQuery /\ InQuery'
  BY <1>1 DEF Query, Due, Written, InQuery
<1>3. sets # <<>> /\ Sendable(setup, Query, units) /\ UnitRows = {}
  BY <1>1, SendableFacts DEF Live, SendInv, UnitRows
<1>15. Writes(setup, Query) => ToSet(Head(sets)) \subseteq ToSet(Written)
  <2>1. ~Doomed(setup, Query, units)
    BY <1>1, EmptyIsSeq DEF Doomed, Refused
  <2> QED BY <1>1, <1>3, <2>1 DEF Live, SendInv
<1>4. Pieces(sets) /\ Distinct(sets)
  BY <1>2 DEF Live, QueryInv
<1>5. /\ Pieces(Tail(sets)) /\ Distinct(Tail(sets)) /\ ToSet(Tail(sets)) \subseteq ToSet(sets) /\ Head(sets) \in ToSet(sets)
      /\ RowsOf(sets) = ToSet(Head(sets)) \cup RowsOf(Tail(sets))
  BY <1>3, <1>4, HeadGoes
<1>6. PICK new \in ArgSets(qi, Query) :
        produced[qi] = new.args /\ wanted[qi] = new.rows /\ ToSet(sets) \subseteq ToSet(new.args)
  BY <1>2 DEF Live, QueryInv
<1>7. qi \in DOMAIN wanted /\ qi \in DOMAIN setup.queries /\ qi \in Nat \ {0}
  <2>1. qi \in Nat \ {0} /\ qi <= Len(setup.queries) /\ IsSeq(wanted) /\ Len(wanted) = qi
    BY <1>2 DEF Live, SectionType, Asked
  <2>2. setup.queries \in Seq(ToSet(setup.queries))
    BY SetupsAssumption DEF Live, SectionType
  <2> QED BY <2>1, <2>2, SeqDomain, LenProperties
<1>8. ToSet(Head(sets)) \subseteq wanted[qi]
  <2>1. RowsOf(new.args) = new.rows
    BY <1>7, QueryKind, ArgSetsFacts DEF Live
  <2>2. Head(sets) \in ToSet(new.args)
    BY <1>5, <1>6
  <2> QED BY <1>6, <2>1, <2>2 DEF RowsOf, ToSet
<1>9. DOMAIN datasets' \subseteq DOMAIN wanted
  <2>1. DOMAIN datasets' \subseteq DOMAIN datasets \cup {qi}
    BY <1>1 DEF SetDataset
  <2> QED BY <1>7, <2>1 DEF Live, SectionType
<1>10. SectionType'
  BY <1>1, <1>2, <1>9 DEF Live, SectionType, Asked
<1>11. QueryInv'
  BY <1>1, <1>2, <1>5 DEF Live, QueryInv
<1>12. SendInv'
  BY <1>1 DEF SendInv
<1>13. Balance'
  <2>1. Left' = Left
    <3>1. CASE Writes(setup, Query)
      <4>1. Left = (ToSet(Head(sets)) \ ToSet(Written)) \cup RowsOf(Tail(sets)) /\ Left' = RowsOf(Tail(sets))
        BY <1>1, <1>2, <3>1 DEF Left
      <4> QED BY <1>15, <3>1, <4>1
    <3>2. CASE ~Writes(setup, Query)
      BY <1>1, <1>2, <3>2 DEF Left
    <3> QED BY <3>1, <3>2
  <2> QED BY <1>2, <2>1 DEF Live, Balance
<1>14. DatasetsWritten'
  <2>1. CASE ~Query.reads
    BY <1>1, <1>2, <2>1, DatasetsKeep DEF Live, SectionType
  <2>2. CASE Query.reads
    <3>1. datasets' = [x \in DOMAIN datasets \cup {qi} |-> IF x = qi THEN ReadRows ELSE datasets[x]]
      BY <1>1, <2>2 DEF SetDataset
    <3>2. SUFFICES ASSUME NEW n \in DOMAIN datasets', Writes(setup, setup.queries[n])
                   PROVE  /\ ToSet(datasets'[n]) \subseteq wanted[n]
                          /\ ToSet(datasets'[n]) \subseteq ToSet(Written)
                          /\ ~setup.queries[n].reads => ToSet(datasets'[n]) = wanted[n]
      BY <1>1, <1>2 DEF DatasetsWritten
    <3>3. CASE n = qi
      <4>1. Writes(setup, Query) /\ Sql(setup)
        BY <2>2, <3>2, <3>3 DEF Query, Writes
      <4>2. datasets'[n] = Head(sets)
        BY <3>1, <3>3, <4>1 DEF ReadRows, SqlRows, Sql
      <4>3. ToSet(Head(sets)) \subseteq ToSet(Written)
        BY <1>15, <4>1
      <4> QED BY <1>8, <2>2, <3>3, <4>2, <4>3 DEF Query
    <3>4. CASE n # qi
      <4>1. n \in DOMAIN datasets /\ datasets'[n] = datasets[n]
        BY <3>1, <3>4
      <4> QED BY <3>2, <4>1 DEF DatasetsWritten, Live, SectionType
    <3> QED BY <3>3, <3>4
  <2> QED BY <2>1, <2>2
<1> QED BY <1>10, <1>11, <1>12, <1>13, <1>14, GoesOn

LEMMA EndQueryKeeps ==
  ASSUME Live, DatasetsWritten, EndQuery
  PROVE  BatchInv'
<1>1. /\ pc = "set" /\ pc' = "query" /\ sets = <<>> /\ CaptureSeed /\ qi' = qi + 1
      /\ UNCHANGED <<setup, sets, units, stmts, pending, applied, outcome, produced, wanted>>
  BY DEF EndQuery
<1>2. Due' = Due /\ Written' = Written /\ InQuery /\ ~InQuery'
  BY <1>1 DEF Due, Written, InQuery
<1>3. PICK new \in ArgSets(qi, Query) : produced[qi] = new.args /\ wanted[qi] = new.rows
  BY <1>2 DEF Live, QueryInv
<1>4. qi \in DOMAIN wanted /\ qi \in DOMAIN setup.queries /\ qi \in Nat \ {0} /\ qi <= Len(setup.queries)
      /\ Len(setup.queries) \in Nat
  <2>1. qi \in Nat \ {0} /\ qi <= Len(setup.queries) /\ IsSeq(wanted) /\ Len(wanted) = qi
    BY <1>2 DEF Live, SectionType, Asked
  <2>2. setup.queries \in Seq(ToSet(setup.queries))
    BY SetupsAssumption DEF Live, SectionType
  <2> QED BY <2>1, <2>2, SeqDomain, LenProperties
<1>5. ToSet(FlattenSeq(produced[qi])) = wanted[qi]
  <2>1. Pieces(new.args) /\ RowsOf(new.args) = new.rows
    BY <1>4, QueryKind, ArgSetsFacts DEF Live
  <2> QED BY <1>3, <2>1, FlattenFacts
<1>6. Left = {}
  BY <1>1 DEF Left, RowsOf
<1>7. Left' = {}
  BY <1>2 DEF Left
<1>8. Writes(setup, Query) => wanted[qi] \subseteq ToSet(Written)
  <2>1. ToSet(Written) = Due
    BY <1>6 DEF Live, Balance
  <2> QED BY <1>4, <2>1 DEF Due, Query
(* The dataset, if there is one, is all of the query's rows. *)
<1>9. datasets' = datasets \/ \E rows : SetDataset(qi, rows) /\ ToSet(rows) = wanted[qi]
  <2>1. CASE setup.section = "seed" /\ Query.named /\ Query.kind = "batch" /\ ~Query.reads /\ captured # <<>>
    <3>1. SetDataset(qi, captured)
      BY <1>1, <2>1 DEF CaptureSeed
    <3>2. captured = FlattenSeq(produced[qi])
      BY <1>2, <2>1 DEF Live, QueryInv
    <3> QED BY <1>5, <3>1, <3>2
  <2>2. CASE SetDataset(qi, FlattenSeq(produced[qi]))
    BY <1>5, <2>2
  <2> QED BY <1>1, <2>1, <2>2 DEF CaptureSeed
<1>10. DOMAIN datasets' \subseteq DOMAIN wanted
  <2>1. DOMAIN datasets' \subseteq DOMAIN datasets \cup {qi}
    BY <1>9 DEF SetDataset
  <2> QED BY <1>4, <2>1 DEF Live, SectionType
<1>11. SectionType'
  <2>1. Asked = qi /\ Asked' = qi
    BY <1>1, <1>2, <1>4 DEF Asked
  <2> QED BY <1>1, <1>4, <1>10, <2>1 DEF Live, SectionType
<1>12. QueryInv' /\ SendInv'
  BY <1>1, <1>2 DEF QueryInv, SendInv
<1>13. Balance'
  BY <1>2, <1>6, <1>7 DEF Live, Balance
<1>14. DatasetsWritten'
  <2>1. CASE datasets' = datasets
    BY <1>1, <1>2, <2>1, DatasetsKeep DEF Live, SectionType
  <2>2. ASSUME NEW rows, SetDataset(qi, rows), ToSet(rows) = wanted[qi]
        PROVE  DatasetsWritten'
    <3>1. datasets' = [x \in DOMAIN datasets \cup {qi} |-> IF x = qi THEN rows ELSE datasets[x]]
      BY <2>2 DEF SetDataset
    <3>2. SUFFICES ASSUME NEW n \in DOMAIN datasets', Writes(setup, setup.queries[n])
                   PROVE  /\ ToSet(datasets'[n]) \subseteq wanted[n]
                          /\ ToSet(datasets'[n]) \subseteq ToSet(Written)
                          /\ ~setup.queries[n].reads => ToSet(datasets'[n]) = wanted[n]
      BY <1>1, <1>2 DEF DatasetsWritten
    <3>3. CASE n = qi
      BY <1>8, <2>2, <3>1, <3>2, <3>3 DEF Query
    <3>4. CASE n # qi
      <4>1. n \in DOMAIN datasets /\ datasets'[n] = datasets[n]
        BY <3>1, <3>4
      <4> QED BY <3>2, <4>1 DEF DatasetsWritten, Live, SectionType
    <3> QED BY <3>3, <3>4
  <2> QED BY <1>9, <2>1, <2>2
<1> QED BY <1>11, <1>12, <1>13, <1>14, GoesOn

LEMMA FinishKeeps ==
  ASSUME Live, DatasetsWritten, Finish
  PROVE  BatchInv'
<1>1. /\ pc = "query" /\ qi > Len(setup.queries) /\ pc' = "ended" /\ pending' = <<>>
      /\ UNCHANGED <<setup, datasets, wanted>>
  BY DEF Finish, End
<1>2. /\ IsSeq(applied) /\ IsInjective(applied) /\ ToSet(applied) \subseteq ToSet(Written)
      /\ ToSet(Written) \subseteq Due /\ (setup.tx => applied = <<>>)
  BY WhatIsApplied
<1>3. IsSeq(Written) /\ IsInjective(Written) /\ ToSet(Written) = Due
  BY <1>1, WrittenFacts DEF Live, Balance, Left, InQuery
<1>4. Len(wanted) = Len(setup.queries)
  <2>1. Len(setup.queries) \in Nat
    BY SetupsAssumption, LenProperties DEF Live, SectionType
  <2>2. qi \in Nat /\ qi - 1 <= Len(setup.queries) /\ Len(wanted) = qi - 1
    BY <1>1, <2>1 DEF Live, SectionType, Asked, InQuery
  <2> QED BY <1>1, <2>1, <2>2
<1>5. CASE outcome' = "failed" /\ applied' = applied
  BY <1>1, <1>2, <1>5, EndsShort
<1>6. CASE applied' = Written /\ outcome' \in {"done", "failed"}
  <2>1. Due' = Due /\ Written' = Written
    <3>1. Written \o <<>> = Written
      BY <1>3, ConcatEmptySeq DEF IsSeq
    <3> QED BY <1>1, <1>6, <3>1 DEF Due, Written
  <2>2. RowsOnce'
    BY <1>1, <1>3, <1>6, <2>1 DEF RowsOnce
  <2>3. TxAllOrNothing'
    BY <1>1, <1>3, <1>4, <1>6, <2>1 DEF TxAllOrNothing
  <2>4. DatasetsWritten'
    BY <1>1, <2>1, DatasetsKeep DEF Live, SectionType
  <2> QED BY <1>1, <2>2, <2>3, <2>4 DEF BatchInv
<1> QED BY <1>5, <1>6 DEF Finish, End, Written

LEMMA BatchStep ==
  ASSUME BatchInv, [NextBatch]_batchVars
  PROVE  BatchInv'
<1>1. CASE UNCHANGED batchVars
  <2> USE <1>1 DEF batchVars
  <2>1. RowsOnce' /\ TxAllOrNothing' /\ DatasetsWritten'
    BY DEF BatchInv, RowsOnce, TxAllOrNothing, DatasetsWritten, Written, Due, Query
  <2>2. SectionType' <=> SectionType
    BY DEF SectionType, Asked, InQuery
  <2>3. QueryInv' <=> QueryInv
    BY DEF QueryInv, InQuery, Query
  <2>4. SendInv' <=> SendInv
    BY DEF SendInv, Query, UnitRows, Written
  <2>5. Balance' <=> Balance
    BY DEF Balance, Written, Left, Due, InQuery, Query, UnitRows
  <2> QED BY <2>1, <2>2, <2>3, <2>4, <2>5 DEF BatchInv, Live
<1>2. CASE NextBatch
  <2>1. Live /\ DatasetsWritten
    <3>1. pc # "ended"
      BY <1>2 DEF NextBatch, Begin, StartQuery, StartFails, Panic, StartSet, Send, SendFails, EndSet, EndQuery, Finish
    <3> QED BY <3>1 DEF BatchInv
  <2> QED BY <1>2, <2>1, BeginKeeps, StartQueryKeeps, PanicKeeps, StartSetKeeps, SendKeeps, SendFailsKeeps,
             EndSetKeeps, EndQueryKeeps, FinishKeeps DEF NextBatch
<1> QED BY <1>1, <1>2

LEMMA BatchInvariant == SpecBatch => []BatchInv
<1>1. InitBatch => BatchInv
  BY BatchStart
<1>2. BatchInv /\ [NextBatch]_batchVars => BatchInv'
  BY BatchStep
<1> QED BY <1>1, <1>2, PTL DEF SpecBatch

(* Whatever counts, sizes and lists, a section that succeeds has written   *)
(* each row it was asked for once, and none is ever written twice          *)
(* (runSection).  Assumed of the templates is that an arg set's statements *)
(* write that arg set; or, of a batch of MongoDB with a double quote in a  *)
(* value, which findBatchGroups misreads, that what is written before a    *)
(* statement is refused is the first of its rows.                          *)
THEOREM SectionWritesRowsOnce == SpecBatch => []RowsOnce
<1>1. BatchInv => RowsOnce
  BY DEF BatchInv
<1> QED BY <1>1, BatchInvariant, PTL

(* A transaction of any queries leaves all of their rows or none, whatever *)
(* statement fails and whether or not the commit is heard of.              *)
THEOREM TransactionsAllOrNothing == SpecBatch => []TxAllOrNothing
<1>1. BatchInv => TxAllOrNothing
  BY DEF BatchInv
<1> QED BY <1>1, BatchInvariant, PTL

(* A dataset of a query that writes holds rows of that query which are in  *)
(* the database, and of an exec query all of them.                         *)
THEOREM DatasetsAreWritten == SpecBatch => []DatasetsWritten
<1>1. BatchInv => DatasetsWritten
  BY DEF BatchInv
<1> QED BY <1>1, BatchInvariant, PTL
=============================================================================
