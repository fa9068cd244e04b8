--------------------------- MODULE LifecycleProofs ---------------------------
(***************************************************************************)
(* Sections of any length: the phases of `all` build on one another, its   *)
(* teardown runs whatever came before it, and no command exits with status *)
(* 0 after leaving out a query.  Staged instead of executed, the sections  *)
(* leave every row in a whole file, for any programs and any rows.         *)
(***************************************************************************)
EXTENDS Lifecycle, Stage, TLAPS, WellFoundedInduction, SequenceTheorems

Places == Sections \cup {"connect", "env", "running", "expectations", "exit"}

TypeInv ==
  /\ command \in Commands /\ at \in Places
  /\ next \in Nat /\ err \in {"nil", "error"} /\ interrupted \in BOOLEAN
  /\ executed \in [Sections -> Nat]
  /\ at \in Sections => executed[at] + 1 = next /\ next <= Queries[at] + 1

(* What lies ahead is untouched, and what lies behind a phase of `all` is  *)
(* complete.                                                               *)
PlaceInv ==
  /\ at \in {"connect", "env"} => \A s \in Sections : Untouched(s)
  /\ command # "all" => \A s \in Sections \ {First(command)} : Untouched(s) /\ at # s
  /\ at \in {"running", "expectations"} => command \in {"all", "run"} /\ next = 1
  /\ command = "all" /\ at = "up" => \A s \in Sections \ {"up"} : Untouched(s)
  /\ command = "all" /\ at = "seed" => Complete("up") /\ \A s \in Sections \ {"up", "seed"} : Untouched(s)
  /\ command = "all" /\ at \in {"init", "running", "expectations"} =>
       Complete("up") /\ Complete("seed") /\ Untouched("deseed") /\ Untouched("down")
  /\ command = "all" /\ at = "deseed" => Untouched("down")

(* The teardown: cut short by Ctrl+C or by the database, or complete.      *)
TeardownInv ==
  command = "all" /\ ~interrupted =>
    /\ "command" \notin cancelled
    /\ at = "down" => "deseed" \in faults \/ Complete("deseed")
    /\ at = "exit" /\ (\E s \in Sections : ~Untouched(s)) =>
         \A s \in Teardown : s \in faults \/ Complete(s)

(* Without an error so far, the sections behind are complete.              *)
StatusInv ==
  err = "nil" =>
    /\ at \in {"running", "expectations"} => Complete("init")
    /\ command = "all" /\ at \in {"deseed", "down", "exit"} => \A s \in Promised : Complete(s)
    /\ command # "all" /\ at = "exit" => Complete(First(command))

LifecycleInv == TypeInv /\ PlaceInv /\ TeardownInv /\ StatusInv /\ InOrder

-----------------------------------------------------------------------------
USE DEF Sections, Teardown, Untouched, Complete, First

LEMMA LifecycleInit ==
  ASSUME Init
  PROVE  LifecycleInv
<1>1. TypeInv
  BY DEF Init, TypeInv, Places
<1>2. PlaceInv
  BY DEF Init, PlaceInv
<1> QED BY <1>1, <1>2 DEF Init, LifecycleInv, TeardownInv, StatusInv, InOrder

LEMMA ConnectKeeps ==
  ASSUME LifecycleInv, Connect
  PROVE  LifecycleInv'
<1> USE DEF LifecycleInv, Connect
<1>1. TypeInv' /\ PlaceInv'
  BY DEF TypeInv, PlaceInv, Places
<1>2. TeardownInv' /\ StatusInv' /\ InOrder'
  BY DEF TypeInv, PlaceInv, TeardownInv, StatusInv, InOrder, Promised
<1> QED BY <1>1, <1>2

LEMMA NewEnvKeeps ==
  ASSUME LifecycleInv, NewEnv
  PROVE  LifecycleInv'
<1> USE DEF LifecycleInv, NewEnv
<1>1. command \in {"all", "run", "up", "seed", "deseed", "down"} /\ Queries \in [Sections \cup {"run"} -> Nat]
  BY CommandsAssumption, QueriesAssumption DEF TypeInv
<1>2. TypeInv'
  BY <1>1 DEF TypeInv, PlaceInv, Places
<1>3. PlaceInv'
  BY <1>1 DEF TypeInv, PlaceInv
<1>4. TeardownInv' /\ StatusInv' /\ InOrder'
  BY <1>1 DEF TypeInv, PlaceInv, TeardownInv, StatusInv, InOrder, Promised
<1> QED BY <1>2, <1>3, <1>4

(* A query takes effect: only the count of its section moves. *)
LEMMA ExecQueryKeeps ==
  ASSUME LifecycleInv, ExecQuery
  PROVE  LifecycleInv'
<1> USE DEF LifecycleInv, ExecQuery
<1>1. /\ \A s \in Sections : s # at => executed'[s] = executed[s]
      /\ executed'[at] = executed[at] + 1 /\ executed[at] < Queries[at]
      /\ at \in Sections /\ executed \in [Sections -> Nat]
      /\ UNCHANGED <<command, at, cancelled, err, interrupted, faults>>
  BY QueriesAssumption DEF TypeInv
<1>2. TypeInv'
  BY <1>1, QueriesAssumption DEF TypeInv, Places
<1>3. PlaceInv'
  BY <1>1 DEF PlaceInv
<1>4. TeardownInv'
  BY <1>1 DEF TeardownInv, PlaceInv
<1>5. StatusInv' /\ InOrder'
  BY <1>1 DEF StatusInv, InOrder, PlaceInv, Promised
<1> QED BY <1>2, <1>3, <1>4, <1>5

(* A section ends, in an error or not, and the next place is entered.      *)
LEMMA QueryFailsKeeps ==
  ASSUME LifecycleInv, QueryFails
  PROVE  LifecycleInv'
<1> USE DEF LifecycleInv, QueryFails
<1>1. TypeInv'
  BY QueriesAssumption DEF TypeInv, PlaceInv, AfterError, Places
<1>2. PlaceInv'
  BY DEF TypeInv, PlaceInv, AfterError
<1>3. TeardownInv'
  BY DEF TypeInv, PlaceInv, TeardownInv, AfterError, Dead
<1>4. StatusInv' /\ InOrder'
  BY DEF TypeInv, PlaceInv, StatusInv, InOrder, AfterError, Promised
<1> QED BY <1>1, <1>2, <1>3, <1>4

LEMMA RunEnvFailsKeeps ==
  ASSUME LifecycleInv, RunEnvFails
  PROVE  LifecycleInv'
<1> USE DEF LifecycleInv, RunEnvFails
<1>1. TypeInv' /\ PlaceInv'
  BY QueriesAssumption DEF TypeInv, PlaceInv, AfterError, Places
<1>2. TeardownInv'
  BY DEF TypeInv, PlaceInv, TeardownInv, AfterError
<1>3. StatusInv' /\ InOrder'
  BY DEF TypeInv, PlaceInv, StatusInv, InOrder, AfterError, Promised
<1> QED BY <1>1, <1>2, <1>3

LEMMA SectionOverKeeps ==
  ASSUME LifecycleInv, SectionOver
  PROVE  LifecycleInv'
<1> USE DEF LifecycleInv, SectionOver
<1>1. at \in Sections /\ Complete(at) /\ executed' = executed /\ at' = After(at)
  BY QueriesAssumption DEF TypeInv
<1>2. /\ command = "all" /\ at = "up"     => at' = "seed"
      /\ command = "all" /\ at = "seed"   => at' = (IF Queries["run"] > 0 THEN "init" ELSE "deseed")
      /\ command = "all" /\ at = "deseed" => at' = "down"
      /\ at = "init" => at' = "running"
      /\ (command # "all" /\ at # "init") \/ at = "down" => at' = "exit"
  BY <1>1 DEF After
<1> HIDE DEF SectionOver
<1>3. UNCHANGED <<command, cancelled, err, interrupted, executed, faults>> /\ next' = 1
  BY DEF SectionOver
<1>4. TypeInv'
  BY <1>1, <1>2, <1>3, QueriesAssumption DEF TypeInv, PlaceInv, Places
<1>5. PlaceInv'
  BY <1>1, <1>2, <1>3, CommandsAssumption DEF TypeInv, PlaceInv
<1>6. TeardownInv'
  BY <1>1, <1>2, <1>3 DEF TypeInv, PlaceInv, TeardownInv
<1>7. StatusInv' /\ InOrder'
  BY <1>1, <1>2, <1>3 DEF TypeInv, PlaceInv, StatusInv, InOrder, Promised
<1> QED BY <1>4, <1>5, <1>6, <1>7

(* The run section, its timer, its expectations, and Ctrl+C.               *)
LEMMA RunKeeps ==
  ASSUME LifecycleInv, RunReturns \/ RunTimer \/ CheckExpectations
  PROVE  LifecycleInv'
<1> USE DEF LifecycleInv, RunReturns, RunTimer, CheckExpectations
<1>1. TypeInv'
  BY QueriesAssumption DEF TypeInv, PlaceInv, Places
<1>2. PlaceInv'
  BY DEF TypeInv, PlaceInv
<1>3. TeardownInv'
  BY DEF TypeInv, PlaceInv, TeardownInv
<1>4. StatusInv' /\ InOrder'
  BY DEF TypeInv, PlaceInv, StatusInv, InOrder, Promised
<1> QED BY <1>1, <1>2, <1>3, <1>4

LEMMA InterruptKeeps ==
  ASSUME LifecycleInv, Interrupt
  PROVE  LifecycleInv'
<1> USE DEF LifecycleInv, Interrupt
<1>1. TypeInv' /\ PlaceInv'
  BY DEF TypeInv, PlaceInv, Places
<1>2. TeardownInv' /\ StatusInv' /\ InOrder'
  BY DEF TypeInv, PlaceInv, TeardownInv, StatusInv, InOrder, Promised
<1> QED BY <1>1, <1>2

(* The invariant: where a command is says what it has executed.            *)
THEOREM LifecycleInvariant == Spec => []LifecycleInv
<1>1. ASSUME LifecycleInv, [Next]_vars
      PROVE  LifecycleInv'
  <2>1. CASE UNCHANGED vars
    BY <1>1, <2>1 DEF vars, LifecycleInv, TypeInv, PlaceInv, TeardownInv, StatusInv, InOrder, Promised
  <2> QED
    BY <1>1, <2>1, ConnectKeeps, NewEnvKeeps, ExecQueryKeeps, QueryFailsKeeps, RunEnvFailsKeeps,
       SectionOverKeeps, RunKeeps, InterruptKeeps DEF Next, Exited
<1> QED BY <1>1, LifecycleInit, PTL DEF Spec

-----------------------------------------------------------------------------
(* Nothing is seeded into an incomplete schema, and no run starts on a     *)
(* database that is not seeded (workload.go:271).                          *)
THEOREM PhasesInOrder == Spec => []InOrder
BY LifecycleInvariant, PTL DEF LifecycleInv

(* The deferred teardown of `all` takes full effect, whatever failed       *)
(* before it, without Ctrl+C or a refusal of the database                  *)
(* (workload.go:257).                                                      *)
THEOREM AllLeavesClean == Spec => []LeftClean
<1>1. LifecycleInv => LeftClean
  BY DEF LifecycleInv, TypeInv, TeardownInv, LeftClean
<1> QED BY <1>1, LifecycleInvariant, PTL

(* Exit status 0 means that every query of the command was executed; the   *)
(* teardown of `all` is not part of it (workload.go:259).                  *)
THEOREM ExitStatusTruthful == Spec => []ReportsFailure
<1>1. LifecycleInv => ReportsFailure
  BY CommandsAssumption DEF LifecycleInv, TypeInv, StatusInv, ReportsFailure, Promised
<1> QED BY <1>1, LifecycleInvariant, PTL

-----------------------------------------------------------------------------
(* The entries at some places *)

LEMMA FirstPosition ==
  ASSUME NEW S \in SUBSET Nat, S # {}
  PROVE  \E i \in S : \A j \in S : ~(j < i)
<1>1. IsWellFoundedOn(OpToRel(<, Nat), Nat)
  BY NatLessThanWellFounded
<1>2. \A T : T \subseteq Nat /\ T # {} => \E x \in T : \A y \in T : <<y, x>> \notin OpToRel(<, Nat)
  BY <1>1, WFMin, Zenon
<1>3. PICK x \in S : \A y \in S : <<y, x>> \notin OpToRel(<, Nat)
  BY <1>2
<1> QED BY <1>3 DEF OpToRel

(* A sequence of whatever its elements are.                                *)
IsSeq(s) == s \in Seq({s[i] : i \in DOMAIN s})

LEMMA SeqFacts ==
  ASSUME NEW s, IsSeq(s)
  PROVE  Len(s) \in Nat /\ DOMAIN s = 1 .. Len(s) /\ (s # <<>> => Len(s) > 0)
BY EmptySeq DEF IsSeq

LEMMA EmptyIsSeq == IsSeq(<<>>) /\ Len(<<>>) = 0
BY DEF IsSeq

LEMMA Appended ==
  ASSUME NEW s, IsSeq(s), NEW e
  PROVE  /\ IsSeq(Append(s, e)) /\ Append(s, e) # <<>>
         /\ Len(Append(s, e)) = Len(s) + 1 /\ DOMAIN Append(s, e) = 1 .. Len(s) + 1
         /\ \A i \in 1 .. Len(s) : Append(s, e)[i] = s[i]
         /\ Append(s, e)[Len(s) + 1] = e
<1> DEFINE S == {s[i] : i \in DOMAIN s} \cup {e}
           t == Append(s, e)
<1>1. s \in Seq(S) /\ e \in S
  BY SeqMonotonic DEF IsSeq
<1> HIDE DEF S
<1>2. t \in Seq(S) /\ t # <<>> /\ Len(t) = Len(s) + 1 /\ \A i \in 1 .. Len(s) : t[i] = s[i]
  BY <1>1, AppendProperties
<1>3. t[Len(s) + 1] = e
  BY <1>1, AppendProperties
<1> HIDE DEF t
<1>4. IsSeq(t)
  BY <1>2, SeqOfRange DEF IsSeq, Range
<1>5. DOMAIN t = 1 .. Len(s) + 1
  BY <1>2, <1>4, SeqFacts
<1> QED BY <1>2, <1>3, <1>4, <1>5 DEF t

LEMMA Rest ==
  ASSUME NEW s, IsSeq(s), s # <<>>
  PROVE  /\ IsSeq(Tail(s)) /\ 1 \in DOMAIN s /\ Head(s) = s[1]
         /\ \A i \in DOMAIN Tail(s) : \E j \in DOMAIN s : Tail(s)[i] = s[j]
<1> DEFINE S == {s[i] : i \in DOMAIN s}
<1>1. s \in Seq(S)
  BY DEF IsSeq
<1>2. \A x \in S : \E j \in DOMAIN s : x = s[j]
  OBVIOUS
<1>3. Head(s) = s[1] /\ 1 \in DOMAIN s
  BY <1>1, SeqFacts
<1> HIDE DEF S
<1>4. Tail(s) \in Seq(S)
  BY <1>1
<1>5. IsSeq(Tail(s))
  BY <1>4, SeqOfRange DEF IsSeq, Range
<1>6. \A i \in DOMAIN Tail(s) : Tail(s)[i] \in S
  BY <1>4
<1> QED BY <1>2, <1>3, <1>5, <1>6

(* What ArgsAt adds up. *)
Adds(c, entries, places, n) ==
  /\ c = [k \in 0 .. n |-> c[k]] /\ c[0] = <<>>
  /\ \A k \in 1 .. n : c[k] = IF k \in places THEN Append(c[k - 1], entries[k].args) ELSE c[k - 1]

LEMMA AddsExist ==
  ASSUME NEW n \in Nat, NEW entries, NEW places
  PROVE  \E c : Adds(c, entries, places, n)
<1> DEFINE S == {m \in 0 .. n : ~\E c : Adds(c, entries, places, m)}
           E(x, m) == IF m \in places THEN Append(x, entries[m].args) ELSE x
<1>1. S = {}
  <2>1. SUFFICES ASSUME S # {} PROVE FALSE
    OBVIOUS
  <2>2. PICK m \in S : \A k \in S : ~(k < m)
    <3>1. S \in SUBSET Nat
      OBVIOUS
    <3> QED BY <2>1, <3>1, FirstPosition
  <2>3. m \in 0 .. n /\ ~\E c : Adds(c, entries, places, m)
    BY <2>2
  <2>4. m # 0
    <3>1. Adds([k \in 0 .. 0 |-> <<>>], entries, places, 0)
      BY DEF Adds
    <3> QED BY <2>3, <3>1
  <2>5. m - 1 \in 0 .. n /\ m - 1 \notin S /\ m \in Nat
    BY <2>2, <2>3, <2>4
  <2>6. PICK c : Adds(c, entries, places, m - 1)
    BY <2>5
  <2> DEFINE d == [k \in 0 .. m |-> IF k = m THEN E(c[m - 1], m) ELSE c[k]]
  <2>7. c[0] = <<>> /\ \A k \in 1 .. m - 1 : c[k] = E(c[k - 1], k)
    BY <2>6 DEF Adds
  <2> HIDE DEF E
  <2>8. ASSUME NEW k \in 1 .. m
        PROVE  d[k] = E(d[k - 1], k)
    <3>1. k - 1 \in 0 .. m /\ d[k - 1] = c[k - 1]
      BY <2>5
    <3>2. k # m => k \in 1 .. m - 1
      BY <2>5
    <3> QED BY <2>7, <3>1, <3>2
  <2>9. d[0] = <<>> /\ d = [k \in 0 .. m |-> d[k]]
    BY <2>4, <2>5, <2>7
  <2> HIDE DEF d
  <2>10. Adds(d, entries, places, m)
    BY <2>8, <2>9 DEF Adds, E
  <2> QED BY <2>3, <2>10
<1>2. n \in 0 .. n
  OBVIOUS
<1> QED BY <1>1, <1>2

LEMMA AddsUnique ==
  ASSUME NEW m \in Nat, NEW n \in 0 .. m, NEW c, NEW d, NEW entries, NEW more, NEW places, NEW others,
         Adds(c, entries, places, n), Adds(d, more, others, m),
         \A k \in 1 .. n : more[k] = entries[k] /\ (k \in others <=> k \in places)
  PROVE  \A k \in 0 .. n : d[k] = c[k]
<1> DEFINE S == {k \in 0 .. n : d[k] # c[k]}
<1>1. SUFFICES ASSUME S # {} PROVE FALSE
  OBVIOUS
<1>2. PICK k \in S : \A j \in S : ~(j < k)
  <2>1. S \in SUBSET Nat
    OBVIOUS
  <2> QED BY <1>1, <2>1, FirstPosition
<1>3. k # 0
  BY <1>2 DEF Adds
<1>4. k \in 1 .. n /\ k \in 1 .. m /\ k - 1 \in 0 .. n /\ k - 1 \notin S
  BY <1>2, <1>3
<1>5. c[k] = IF k \in places THEN Append(c[k - 1], entries[k].args) ELSE c[k - 1]
  BY <1>4 DEF Adds
<1>6. d[k] = IF k \in others THEN Append(d[k - 1], more[k].args) ELSE d[k - 1]
  BY <1>4 DEF Adds
<1> QED BY <1>2, <1>4, <1>5, <1>6

LEMMA ArgsAtIs ==
  ASSUME NEW entries, Len(entries) \in Nat, NEW places
  PROVE  \E c : Adds(c, entries, places, Len(entries)) /\ ArgsAt(entries, places) = c[Len(entries)]
<1> DEFINE n == Len(entries)
           E(c) == [k \in 0 .. n |-> IF k = 0 THEN <<>>
                                     ELSE IF k \in places THEN Append(c[k - 1], entries[k].args) ELSE c[k - 1]]
           A == CHOOSE c : c = E(c)
<1>1. ArgsAt(entries, places) = A[n]
  BY DEF ArgsAt
<1>2. \E c : c = E(c)
  <2>1. PICK c : Adds(c, entries, places, n)
    BY AddsExist
  <2>2. c = [k \in 0 .. n |-> c[k]] /\ \A k \in 0 .. n : c[k] = E(c)[k]
    BY <2>1 DEF Adds
  <2> QED BY <2>2
<1>3. A = E(A)
  BY <1>2
<1> HIDE DEF A
<1>4. Adds(A, entries, places, n)
  <2>1. \A k \in 0 .. n : A[k] = E(A)[k]
    BY <1>3
  <2>2. A = [k \in 0 .. n |-> A[k]]
    BY <1>3
  <2>3. A[0] = <<>>
    BY <2>1
  <2>4. \A k \in 1 .. n : k \in 0 .. n /\ k # 0
    OBVIOUS
  <2>5. \A k \in 1 .. n : A[k] = IF k \in places THEN Append(A[k - 1], entries[k].args) ELSE A[k - 1]
    BY <2>1, <2>4
  <2> QED BY <2>2, <2>3, <2>5 DEF Adds
<1> QED BY <1>1, <1>4

(* One entry more, and none at these places. *)
LEMMA ArgsAtAppend ==
  ASSUME NEW s, IsSeq(s), NEW e, NEW places, NEW others,
         \A k \in 1 .. Len(s) : k \in others <=> k \in places
  PROVE  ArgsAt(Append(s, e), others)
           = IF Len(s) + 1 \in others THEN Append(ArgsAt(s, places), e.args) ELSE ArgsAt(s, places)
<1> DEFINE n == Len(s)
           t == Append(s, e)
<1>1. n \in Nat /\ Len(t) = n + 1 /\ (\A k \in 1 .. n : t[k] = s[k]) /\ t[n + 1] = e
  BY Appended, SeqFacts
<1> HIDE DEF t
<1>2. PICK c : Adds(c, s, places, n) /\ ArgsAt(s, places) = c[n]
  BY <1>1, ArgsAtIs
<1>3. PICK d : Adds(d, t, others, n + 1) /\ ArgsAt(t, others) = d[n + 1]
  BY <1>1, ArgsAtIs
<1>4. d[n] = c[n]
  <2>1. n \in 0 .. n + 1 /\ n + 1 \in Nat /\ n \in 0 .. n
    BY <1>1
  <2> HIDE DEF n
  <2>2. \A k \in 1 .. n : t[k] = s[k] /\ (k \in others <=> k \in places)
    BY <1>1 DEF n
  <2> QED BY <1>2, <1>3, <2>1, <2>2, AddsUnique
<1>5. d[n + 1] = IF n + 1 \in others THEN Append(d[n], e.args) ELSE d[n]
  <2> DEFINE m == n + 1
  <2>1. m \in 1 .. n + 1 /\ m - 1 = n
    BY <1>1
  <2>2. \A k \in 1 .. n + 1 : d[k] = IF k \in others THEN Append(d[k - 1], t[k].args) ELSE d[k - 1]
    BY <1>3 DEF Adds
  <2> HIDE DEF m
  <2>3. d[m] = IF m \in others THEN Append(d[n], t[m].args) ELSE d[n]
    BY <2>1, <2>2
  <2> QED BY <1>1, <2>3 DEF m
<1> QED BY <1>2, <1>3, <1>4, <1>5 DEF t

LEMMA ArgsAtNothing ==
  ASSUME NEW places
  PROVE  ArgsAt(<<>>, places) = <<>>
<1>1. PICK c : Adds(c, <<>>, places, 0) /\ ArgsAt(<<>>, places) = c[0]
  BY EmptyIsSeq, ArgsAtIs
<1> QED BY <1>1 DEF Adds

-----------------------------------------------------------------------------
(* The invariant *)

QueriesOf(n) == program[Order[n]]
QueryOf(n, i) == program[Order[n]][i]

FileOf(n, q) == IF format \in {"csv", "parquet"} THEN <<Order[n], q.name>> ELSE <<Order[n]>>

Capturing == pc \in {"start", "section", "capture"}

(* Queries the command is through with, and those it has not come to.      *)
Behind(n, i) == n < section \/ (n = section /\ i < query)
Ahead(n, i)  == n > section \/ (n = section /\ (i > query \/ (i = query /\ pc # "capture")))

PositionInv ==
  /\ program \in Programs
  /\ section \in DOMAIN Order /\ query \in Nat \ {0}
  /\ Capturing => disk = <<>>
  /\ pc = "flush" => DOMAIN disk \subseteq DOMAIN buffer /\ \A f \in DOMAIN disk : disk[f] = "whole"
  /\ pc = "capture" => /\ query \in DOMAIN QueriesOf(section)
                       /\ IsSeq(argSets) /\ \A k \in DOMAIN argSets : argSets[k] \in RowsOf(Query)
  /\ pc \in {"start", "section", "capture", "flush"} => outcome = "running"
  /\ outcome = "ok" => DOMAIN disk = DOMAIN buffer /\ \A f \in DOMAIN disk : disk[f] = "whole"

CapturedInv ==
  /\ IsSeq(captured)
  /\ Capturing => \A n \in DOMAIN Order : \A i \in DOMAIN QueriesOf(n) : Ahead(n, i) => RowsFor(Order[n], i) = <<>>

(* The dataset in the making, and those there are.                         *)
RowsInv ==
  /\ pc = "capture" => envRows = IF Query.batch \/ Query.columns # <<>> THEN RowsFor(Order[section], query) ELSE <<>>
  /\ \A name \in DOMAIN env :
       env[name] # <<>> /\ \E n \in DOMAIN Order : \E i \in DOMAIN QueriesOf(n) :
         Behind(n, i) /\ QueryOf(n, i).name = name /\ RowsFor(Order[n], i) = env[name]

(* A file holds of each query what was captured of it.                     *)
Written(q) == q.columns # <<>> \/ format = "sql"

InFile(n, i) ==
  LET q == QueryOf(n, i)
      f == FileOf(n, q)
  IN  IF f \in DOMAIN buffer THEN Shows(q) => Staged(f, q.name) = RowsFor(Order[n], i)
      ELSE RowsFor(Order[n], i) = <<>>

OwnFile(n, i) ==
  LET q == QueryOf(n, i)
      f == FileOf(n, q)
  IN  f \in DOMAIN buffer => \A k \in DOMAIN buffer[f] : buffer[f][k].columns = q.columns

BufferInv ==
  /\ \A f \in DOMAIN buffer : IsSeq(buffer[f]) /\ buffer[f] # <<>>
  /\ Named /\ format # "stdout" =>
       \A n \in DOMAIN Order : \A i \in DOMAIN QueriesOf(n) :
         /\ Written(QueryOf(n, i)) => InFile(n, i)
         /\ format \in {"csv", "parquet"} => OwnFile(n, i)

StageInv == PositionInv /\ CapturedInv /\ RowsInv /\ BufferInv

LEMMA OrderFacts ==
  DOMAIN Order = 1 .. 4 /\ Len(Order) = 4 /\ \A m, n \in 1 .. 4 : Order[m] = Order[n] => m = n
BY DEF Order

LEMMA ProgramFacts ==
  ASSUME program \in Programs, NEW n \in DOMAIN Order
  PROVE  /\ IsSeq(QueriesOf(n)) /\ Len(QueriesOf(n)) \in Nat /\ DOMAIN QueriesOf(n) = 1 .. Len(QueriesOf(n))
         /\ \A i \in DOMAIN QueriesOf(n) : IsSeq(QueryOf(n, i).columns)
<1>1. IsSeq(QueriesOf(n)) /\ \A i \in DOMAIN QueriesOf(n) : IsSeq(QueryOf(n, i).columns)
  BY ProgramsAssumption, Zenon DEF QueriesOf, QueryOf, IsSeq
<1> QED BY <1>1, SeqFacts

LEMMA NamesDiffer ==
  ASSUME program \in Programs, Named, NEW n \in DOMAIN Order
  PROVE  \A i, j \in DOMAIN QueriesOf(n) : QueryOf(n, i).name = QueryOf(n, j).name => i = j
BY ProgramsAssumption, Zenon DEF Named, QueriesOf, QueryOf

LEMMA QueryIs == SectionQueries = QueriesOf(section) /\ Query = QueryOf(section, query)
BY DEF SectionQueries, Query, QueriesOf, QueryOf

LEMMA NoRow ==
  ASSUME PositionInv, pc = "capture", NEW a \in RowsOf(Query)
  PROVE  a = <<>> <=> Query.columns = <<>>
<1>1. IsSeq(Query.columns)
  BY ProgramFacts, QueryIs DEF PositionInv
<1>2. DOMAIN a = DOMAIN Query.columns /\ a = [k \in DOMAIN a |-> a[k]]
  BY DEF RowsOf
<1>3. Len(Query.columns) \in Nat /\ DOMAIN Query.columns = 1 .. Len(Query.columns) /\ (Query.columns # <<>> => Len(Query.columns) > 0)
  BY <1>1, SeqFacts
<1>4. ASSUME Query.columns = <<>> PROVE a = <<>>
  <2>1. DOMAIN a = {}
    BY <1>2, <1>4
  <2>2. a = [k \in {} |-> a[k]]
    BY <1>2, <2>1
  <2> QED BY <2>2
<1>5. ASSUME a = <<>> PROVE Query.columns = <<>>
  <2>1. DOMAIN a = {}
    BY <1>5
  <2>2. Query.columns # <<>> => 1 \in DOMAIN a
    BY <1>2, <1>3
  <2> QED BY <2>1, <2>2
<1> QED BY <1>4, <1>5

LEMMA InitInv == InitStage => StageInv
<1> SUFFICES ASSUME InitStage PROVE StageInv
  OBVIOUS
<1>1. PositionInv
  BY OrderFacts DEF InitStage, PositionInv, Capturing
<1>2. \A n \in DOMAIN Order : \A i \in DOMAIN QueriesOf(n) : RowsFor(Order[n], i) = <<>>
  BY ArgsAtNothing DEF InitStage, RowsFor
<1>3. CapturedInv
  BY <1>2, EmptyIsSeq DEF InitStage, CapturedInv
<1>4. RowsInv
  BY DEF InitStage, RowsInv
<1>5. DOMAIN buffer = {}
  BY DEF InitStage
<1>6. BufferInv
  BY <1>2, <1>5 DEF BufferInv, InFile, OwnFile
<1> QED BY <1>1, <1>3, <1>4, <1>6 DEF StageInv

(* Steps that capture nothing and leave the writer alone. *)
LEMMA SameRows ==
  ASSUME captured' = captured
  PROVE  \A s, i : RowsFor(s, i)' = RowsFor(s, i)
BY DEF RowsFor, PlacesFor

LEMMA SameBuffer ==
  ASSUME BufferInv, UNCHANGED <<format, program, captured, buffer>>
  PROVE  BufferInv'
<1>1. (\A n, i : QueryOf(n, i)' = QueryOf(n, i)) /\ (\A n : QueriesOf(n)' = QueriesOf(n)) /\ (\A n, q : FileOf(n, q)' = FileOf(n, q))
  BY DEF QueryOf, QueriesOf, FileOf
<1>2. (\A f, name : Staged(f, name)' = Staged(f, name)) /\ (\A s, i : RowsFor(s, i)' = RowsFor(s, i))
  BY SameRows DEF Staged, PlacesIn
<1>3. (\A n, i : InFile(n, i)' <=> InFile(n, i)) /\ (\A n, i : OwnFile(n, i)' <=> OwnFile(n, i))
  <2>1. \A q : Shows(q)' <=> Shows(q)
    BY <1>1 DEF Shows
  <2> QED BY <1>1, <1>2, <2>1 DEF InFile, OwnFile
<1>4. (Named' <=> Named) /\ \A n, i : Written(QueryOf(n, i))' <=> Written(QueryOf(n, i))
  BY <1>1 DEF Named, Written
<1> QED BY <1>1, <1>3, <1>4 DEF BufferInv

LEMMA StartStep == StageInv /\ Start => StageInv'
<1> SUFFICES ASSUME StageInv, Start PROVE StageInv'
  OBVIOUS
<1>1. PositionInv'
  BY DEF StageInv, PositionInv, Start, Capturing, End, position, capture, QueriesOf
<1>2. CapturedInv'
  BY SameRows DEF StageInv, CapturedInv, Start, End, capture, Capturing, Ahead, QueriesOf
<1>3. RowsInv'
  BY SameRows DEF StageInv, RowsInv, Start, End, capture, Behind, QueriesOf, QueryOf
<1>4. BufferInv'
  BY SameBuffer DEF StageInv, Start, capture
<1> QED BY <1>1, <1>2, <1>3, <1>4 DEF StageInv

LEMMA StartQueryStep == StageInv /\ StartQuery => StageInv'
<1> SUFFICES ASSUME StageInv, StartQuery PROVE StageInv'
  OBVIOUS
<1>1. PICK n \in 0 .. MaxRows : \E rows \in [1 .. n -> RowsOf(Query)] : argSets' = rows
  BY DEF StartQuery
<1> PICK rows \in [1 .. n -> RowsOf(Query)] : argSets' = rows
  BY <1>1
<1>2. section \in DOMAIN Order /\ query \in DOMAIN QueriesOf(section)
  <2>1. section \in DOMAIN Order /\ query \in Nat /\ query <= Len(QueriesOf(section)) /\ query > 0
    BY QueryIs DEF StageInv, PositionInv, StartQuery
  <2> QED BY <2>1, ProgramFacts DEF StageInv, PositionInv
<1>3. IsSeq(rows) /\ \A k \in DOMAIN rows : rows[k] \in RowsOf(Query)
  <2>1. n \in Nat /\ rows \in [1 .. n -> {rows[k] : k \in DOMAIN rows}]
    BY StageAssumption
  <2>2. rows \in Seq({rows[k] : k \in DOMAIN rows})
    BY <2>1
  <2> QED BY <2>2 DEF IsSeq
<1>4. PositionInv'
  <2>1. Query' = Query /\ QueriesOf(section)' = QueriesOf(section)
    BY DEF StartQuery, Query, SectionQueries, QueriesOf
  <2> QED BY <1>2, <1>3, <2>1 DEF StageInv, PositionInv, StartQuery, Capturing, RowsOf
<1>5. RowsFor(Order[section], query) = <<>>
  BY <1>2 DEF StageInv, CapturedInv, Capturing, StartQuery, Ahead
<1>6. CapturedInv'
  BY SameRows DEF StageInv, CapturedInv, StartQuery, Capturing, Ahead, QueriesOf
<1>7. RowsInv'
  BY <1>5, SameRows DEF StageInv, RowsInv, StartQuery, Behind, QueriesOf, QueryOf, Query, SectionQueries
<1>8. BufferInv'
  BY SameBuffer DEF StageInv, StartQuery
<1> QED BY <1>4, <1>6, <1>7, <1>8 DEF StageInv

(* A command that gives up in the middle of a query.                       *)
LEMMA FailedStep ==
  ASSUME StageInv, End("failed"), UNCHANGED <<format, program, section, query, capture, buffer, disk, stdout>>
  PROVE  StageInv'
<1>1. PositionInv'
  BY DEF StageInv, PositionInv, End, Capturing
<1>2. CapturedInv'
  BY DEF StageInv, CapturedInv, End, capture, Capturing
<1>3. RowsInv'
  BY SameRows DEF StageInv, RowsInv, End, capture, Behind, QueriesOf, QueryOf
<1>4. BufferInv'
  BY SameBuffer DEF StageInv, capture
<1> QED BY <1>1, <1>2, <1>3, <1>4 DEF StageInv

LEMMA EndQueryStep == StageInv /\ EndQuery => StageInv'
<1> SUFFICES ASSUME StageInv, EndQuery PROVE StageInv'
  OBVIOUS
<1>1. section \in DOMAIN Order /\ query \in Nat \ {0} /\ query \in DOMAIN QueriesOf(section) /\ pc = "capture"
      /\ \A n \in DOMAIN Order : IsSeq(QueriesOf(n)) /\ DOMAIN QueriesOf(n) \subseteq Nat
  <2>1. \A n \in DOMAIN Order : IsSeq(QueriesOf(n)) /\ DOMAIN QueriesOf(n) \subseteq Nat
    BY ProgramFacts DEF StageInv, PositionInv
  <2> QED BY <2>1 DEF StageInv, PositionInv, EndQuery
<1>2. PositionInv'
  BY <1>1 DEF StageInv, PositionInv, EndQuery, Capturing
<1>3. CapturedInv'
  BY <1>1, SameRows DEF StageInv, CapturedInv, EndQuery, Capturing, Ahead, QueriesOf
<1>4. \A n \in DOMAIN Order : \A i \in DOMAIN QueriesOf(n) : Behind(n, i) => Behind(n, i)'
  BY <1>1, OrderFacts DEF Behind, EndQuery
<1>5. \A n, i : n = section /\ i = query => Behind(n, i)'
  BY <1>1 DEF Behind, EndQuery
<1>6. QueriesOf(section)' = QueriesOf(section) /\ (\A n : QueriesOf(n)' = QueriesOf(n)) /\ \A n, i : QueryOf(n, i)' = QueryOf(n, i)
  BY DEF QueriesOf, QueryOf, EndQuery
<1>7. ASSUME NEW name \in DOMAIN env'
      PROVE  env'[name] # <<>> /\ \E n \in DOMAIN Order : \E i \in DOMAIN QueriesOf(n) :
               Behind(n, i)' /\ QueryOf(n, i).name = name /\ RowsFor(Order[n], i) = env'[name]
  <2>1. CASE name \in DOMAIN env /\ env'[name] = env[name]
    BY <1>4, <2>1 DEF StageInv, RowsInv
  <2>2. CASE ~(name \in DOMAIN env /\ env'[name] = env[name])
    <3>1. envRows # <<>> /\ name = Query.name /\ env'[name] = envRows
      BY <2>2 DEF EndQuery, Put
    <3>2. envRows = RowsFor(Order[section], query)
      BY <1>1, <3>1 DEF StageInv, RowsInv
    <3> QED BY <1>1, <1>5, <3>1, <3>2, QueryIs
  <2> QED BY <2>1, <2>2
<1>8. RowsInv'
  <2>1. pc' # "capture"
    BY DEF EndQuery
  <2>2. \A s, i : RowsFor(s, i)' = RowsFor(s, i)
    BY SameRows DEF EndQuery
  <2> QED BY <1>6, <1>7, <2>1, <2>2 DEF RowsInv
<1>9. BufferInv'
  BY SameBuffer DEF StageInv, EndQuery
<1> QED BY <1>2, <1>3, <1>8, <1>9 DEF StageInv

LEMMA EndSectionStep == StageInv /\ EndSection => StageInv'
<1> SUFFICES ASSUME StageInv, EndSection PROVE StageInv'
  OBVIOUS
<1>1. section \in 1 .. 4 /\ section' \in 1 .. 4 /\ query' \in Nat \ {0} /\ ((section' = section + 1 /\ query' = 1) \/ (section' = section /\ query' = query))
  BY OrderFacts DEF StageInv, PositionInv, EndSection
<1>2. PositionInv'
  BY <1>1, OrderFacts DEF StageInv, PositionInv, EndSection, Capturing
<1>3. \A n \in DOMAIN Order : DOMAIN QueriesOf(n) \subseteq Nat \ {0} /\ QueriesOf(n)' = QueriesOf(n)
  BY ProgramFacts DEF StageInv, PositionInv, EndSection, QueriesOf
<1>4. CapturedInv'
  <2>1. ASSUME Capturing', NEW n \in DOMAIN Order, NEW i \in DOMAIN QueriesOf(n), Ahead(n, i)'
        PROVE  Ahead(n, i)
    BY <1>1, <1>3, <2>1, OrderFacts DEF EndSection, Ahead, Capturing
  <2>2. Capturing
    BY DEF EndSection, Capturing
  <2>3. IsSeq(captured)'
    BY DEF EndSection, capture, StageInv, CapturedInv
  <2>4. captured' = captured
    BY DEF EndSection, capture
  <2> QED BY <1>3, <2>1, <2>2, <2>3, <2>4, SameRows DEF StageInv, CapturedInv
<1>5. \A n \in DOMAIN Order : \A i \in DOMAIN QueriesOf(n) : Behind(n, i) => Behind(n, i)'
  BY <1>1, <1>3, OrderFacts DEF Behind
<1>6. RowsInv'
  <2>1. pc' # "capture" /\ env' = env /\ captured' = captured
    BY DEF EndSection, capture
  <2>2. \A s, i : RowsFor(s, i)' = RowsFor(s, i)
    BY <2>1, SameRows
  <2>3. \A n, i : QueryOf(n, i)' = QueryOf(n, i)
    BY DEF QueryOf, EndSection
  <2> QED BY <1>3, <1>5, <2>1, <2>2, <2>3 DEF StageInv, RowsInv
<1>7. BufferInv'
  BY SameBuffer DEF StageInv, EndSection, capture
<1> QED BY <1>2, <1>4, <1>6, <1>7 DEF StageInv

LEMMA FlushStep == StageInv /\ (\E f \in DOMAIN buffer : Flush(f)) => StageInv'
<1> SUFFICES ASSUME StageInv, NEW f \in DOMAIN buffer, Flush(f) PROVE StageInv'
  OBVIOUS
<1>1. PositionInv'
  BY DEF StageInv, PositionInv, Flush, Capturing, End, Put, QueriesOf
<1>2. CapturedInv'
  BY DEF StageInv, CapturedInv, Flush, End, capture, Capturing
<1>3. RowsInv'
  BY SameRows DEF StageInv, RowsInv, Flush, End, capture, Behind, QueriesOf, QueryOf
<1>4. BufferInv'
  BY SameBuffer DEF StageInv, Flush, capture
<1> QED BY <1>1, <1>2, <1>3, <1>4 DEF StageInv

LEMMA FlushedStep == StageInv /\ Flushed => StageInv'
<1> SUFFICES ASSUME StageInv, Flushed PROVE StageInv'
  OBVIOUS
<1>1. PositionInv'
  BY DEF StageInv, PositionInv, Flushed, Capturing, End
<1>2. CapturedInv'
  BY DEF StageInv, CapturedInv, Flushed, End, capture, Capturing
<1>3. RowsInv'
  BY SameRows DEF StageInv, RowsInv, Flushed, End, capture, Behind, QueriesOf, QueryOf
<1>4. BufferInv'
  BY SameBuffer DEF StageInv, Flushed, capture
<1> QED BY <1>1, <1>2, <1>3, <1>4 DEF StageInv

(* A row is captured: it goes to its own query's rows and file alone.      *)
LEMMA CapturedGrows ==
  ASSUME IsSeq(captured), NEW c, captured' = Append(captured, c), NEW s, NEW i
  PROVE  RowsFor(s, i)' = IF c.section = s /\ c.query = i THEN Append(RowsFor(s, i), c.args) ELSE RowsFor(s, i)
<1> DEFINE n == Len(captured)
           more == Append(captured, c)
           places == {k \in DOMAIN captured : captured[k].section = s /\ captured[k].query = i}
           others == {k \in DOMAIN more : more[k].section = s /\ more[k].query = i}
<1>1. n \in Nat /\ DOMAIN captured = 1 .. n /\ DOMAIN more = 1 .. n + 1 /\ (\A k \in 1 .. n : more[k] = captured[k]) /\ more[n + 1] = c
  BY Appended, SeqFacts
<1>2. RowsFor(s, i)' = ArgsAt(more, others) /\ RowsFor(s, i) = ArgsAt(captured, places)
  BY DEF RowsFor, PlacesFor
<1>3. (\A k \in 1 .. n : k \in others <=> k \in places) /\ (n + 1 \in others <=> c.section = s /\ c.query = i)
  BY <1>1
<1> HIDE DEF places, others
<1>4. ArgsAt(more, others) = IF n + 1 \in others THEN Append(ArgsAt(captured, places), c.args) ELSE ArgsAt(captured, places)
  BY <1>3, ArgsAtAppend
<1> QED BY <1>2, <1>3, <1>4

LEMMA FileGrows ==
  ASSUME NEW old, IsSeq(old), NEW e, NEW f, buffer'[f] = Append(old, e), NEW name
  PROVE  LET was == ArgsAt(old, {k \in DOMAIN old : old[k].name = name})
         IN  Staged(f, name)' = IF e.name = name THEN Append(was, e.args) ELSE was
<1> DEFINE n == Len(old)
           more == Append(old, e)
           places == {k \in DOMAIN old : old[k].name = name}
           others == {k \in DOMAIN more : more[k].name = name}
<1>1. n \in Nat /\ DOMAIN old = 1 .. n /\ DOMAIN more = 1 .. n + 1 /\ (\A k \in 1 .. n : more[k] = old[k]) /\ more[n + 1] = e
  BY Appended, SeqFacts
<1>2. Staged(f, name)' = ArgsAt(more, others)
  BY DEF Staged, PlacesIn
<1>3. (\A k \in 1 .. n : k \in others <=> k \in places) /\ (n + 1 \in others <=> e.name = name)
  BY <1>1
<1> HIDE DEF places, others
<1>4. ArgsAt(more, others) = IF n + 1 \in others THEN Append(ArgsAt(old, places), e.args) ELSE ArgsAt(old, places)
  BY <1>3, ArgsAtAppend
<1> QED BY <1>2, <1>3, <1>4 DEF places

LEMMA CaptureFile ==
  ASSUME StageInv, CaptureRow, Named, format # "stdout"
  PROVE  \A n \in DOMAIN Order : \A i \in DOMAIN QueriesOf(n) :
           /\ Written(QueryOf(n, i)) => InFile(n, i)'
           /\ format \in {"csv", "parquet"} => OwnFile(n, i)'
<1> DEFINE a == Head(argSets)
           q == QueryOf(section, query)
           e == Entry(q, a)
           F == FileOf(section, q)
           old == IF F \in DOMAIN buffer THEN buffer[F] ELSE <<>>
           c == [section |-> Order[section], query |-> query, args |-> a]
           skipped == a = <<>> /\ format # "sql"
<1>1. section \in DOMAIN Order /\ query \in DOMAIN QueriesOf(section) /\ pc = "capture" /\ a \in RowsOf(Query) /\ program \in Programs
  <2>1. argSets # <<>> /\ IsSeq(argSets) /\ (\A k \in DOMAIN argSets : argSets[k] \in RowsOf(Query))
    BY DEF StageInv, PositionInv, CaptureRow
  <2>2. a = argSets[1] /\ 1 \in DOMAIN argSets
    BY <2>1, Rest
  <2> QED BY <2>1, <2>2 DEF StageInv, PositionInv, CaptureRow
<1>2. Query = q /\ (skipped => ~Written(q))
  BY <1>1, QueryIs, NoRow DEF StageInv, Written
<1>3. captured' = Append(captured, c) /\ IsSeq(captured) /\ UNCHANGED <<format, program>>
  BY DEF CaptureRow, StageInv, CapturedInv
<1>4. IF skipped THEN buffer' = buffer ELSE buffer' = Put(buffer, F, Append(old, e))
  BY <1>2 DEF CaptureRow, Add, File, FileOf
<1>5. e.name = q.name /\ e.columns = q.columns /\ (Shows(q) => e.args = a)
  <2>1. e.name = q.name /\ e.columns = q.columns /\ e.args = Shown(q, a)
    BY DEF Entry, Columns
  <2>2. DOMAIN a = DOMAIN q.columns /\ a = [k \in DOMAIN a |-> a[k]]
    BY <1>1, <1>2 DEF RowsOf
  <2> HIDE DEF a, q, e
  <2>3. Shows(q) /\ format # "stdout" => Shown(q, a) = a
    BY <2>2 DEF Shows, Shown
  <2> QED BY <2>1, <2>3
<1>6. c.section = Order[section] /\ c.query = query /\ c.args = a
  OBVIOUS
<1>7. IsSeq(old) /\ (F \in DOMAIN buffer => old = buffer[F]) /\ (F \notin DOMAIN buffer => old = <<>>)
  BY EmptyIsSeq DEF StageInv, BufferInv
<1>8. \A n \in DOMAIN Order : (Order[n] = Order[section] => n = section)
  BY <1>1, OrderFacts
<1> HIDE DEF c, e, a, old
<1>9. SUFFICES ASSUME NEW n \in DOMAIN Order, NEW i \in DOMAIN QueriesOf(n)
               PROVE  /\ Written(QueryOf(n, i)) => InFile(n, i)'
                      /\ format \in {"csv", "parquet"} => OwnFile(n, i)'
  OBVIOUS
<1>0. PICK p, G : p = QueryOf(n, i) /\ G = FileOf(n, p)
  OBVIOUS
<1>10. /\ Written(p) => InFile(n, i)
       /\ format \in {"csv", "parquet"} => OwnFile(n, i)
  BY <1>0 DEF StageInv, BufferInv
<1>11. QueryOf(n, i)' = p /\ FileOf(n, p)' = G
  BY <1>0, <1>3 DEF QueryOf, FileOf
<1>12. RowsFor(Order[n], i)' = IF n = section /\ i = query THEN Append(RowsFor(Order[n], i), a) ELSE RowsFor(Order[n], i)
  BY <1>3, <1>6, <1>8, CapturedGrows
<1>13. G = F => n = section
  <2>1. F = <<Order[section], q.name>> \/ F = <<Order[section]>>
    BY DEF FileOf
  <2>2. F[1] = Order[section] /\ G[1] = Order[n]
    BY <1>0 DEF FileOf
  <2> QED BY <1>8, <2>2
<1>14. n = section /\ i # query => p.name # q.name
  BY <1>0, <1>1, NamesDiffer
<1>15. n = section /\ i = query => p = q /\ G = F
  BY <1>0
<1>16. Shows(p)' <=> Shows(p)
  BY <1>3 DEF Shows
<1> HIDE DEF F, q
<1>17. CASE skipped
  <2>1. buffer' = buffer
    BY <1>4, <1>17
  <2>2. Staged(G, p.name)' = Staged(G, p.name)
    BY <2>1 DEF Staged, PlacesIn
  <2>3. Written(p) => ~(n = section /\ i = query)
    BY <1>2, <1>15, <1>17
  <2>4. Written(p) => InFile(n, i)'
    BY <1>0, <1>10, <1>11, <1>12, <1>16, <2>1, <2>2, <2>3 DEF InFile
  <2>5. format \in {"csv", "parquet"} => OwnFile(n, i)'
    BY <1>0, <1>10, <1>11, <2>1 DEF OwnFile
  <2> QED BY <1>0, <2>4, <2>5
<1>18. CASE ~skipped
  <2>1. DOMAIN buffer' = DOMAIN buffer \cup {F} /\ buffer'[F] = Append(old, e) /\ \A f \in DOMAIN buffer : f # F => buffer'[f] = buffer[f]
    BY <1>4, <1>18 DEF Put
  <2>2. CASE G # F
    <3>1. G \in DOMAIN buffer' <=> G \in DOMAIN buffer
      BY <2>1, <2>2
    <3>2. G \in DOMAIN buffer => Staged(G, p.name)' = Staged(G, p.name) /\ buffer'[G] = buffer[G]
      BY <2>1, <2>2 DEF Staged, PlacesIn
    <3>3. Written(p) => InFile(n, i)'
      BY <1>0, <1>10, <1>11, <1>12, <1>15, <1>16, <2>2, <3>1, <3>2 DEF InFile
    <3>4. format \in {"csv", "parquet"} => OwnFile(n, i)'
      BY <1>0, <1>10, <1>11, <3>1, <3>2 DEF OwnFile
    <3> QED BY <1>0, <3>3, <3>4
  <2>3. CASE G = F
    <3> DEFINE was == ArgsAt(old, {k \in DOMAIN old : old[k].name = p.name})
    <3>1. Staged(G, p.name)' = IF q.name = p.name THEN Append(was, e.args) ELSE was
      <4>1. PICK before, entry, name : before = old /\ entry = e /\ name = p.name
        OBVIOUS
      <4>2. IsSeq(before) /\ buffer'[G] = Append(before, entry)
        BY <1>7, <2>1, <2>3, <4>1
      <4> DEFINE then == ArgsAt(before, {k \in DOMAIN before : before[k].name = name})
      <4>3. Staged(G, name)' = IF entry.name = name THEN Append(then, entry.args) ELSE then
        BY <4>2, FileGrows
      <4>4. then = was
        BY <4>1
      <4> HIDE DEF then, was
      <4> QED BY <1>5, <4>1, <4>3, <4>4
    <3>2. Written(p) /\ Shows(p) => was = RowsFor(Order[n], i)
      <4>1. F \in DOMAIN buffer => was = Staged(F, p.name)
        BY <1>7 DEF Staged, PlacesIn
      <4>2. F \notin DOMAIN buffer => was = <<>>
        BY <1>7, ArgsAtNothing
      <4> HIDE DEF was
      <4> QED BY <1>0, <1>10, <2>3, <4>1, <4>2 DEF InFile
    <3> HIDE DEF was
    <3>3. q.name = p.name <=> n = section /\ i = query
      BY <1>13, <1>14, <1>15, <2>3
    <3>4. G \in DOMAIN buffer'
      BY <2>1, <2>3
    <3>5. Written(p) => InFile(n, i)'
      <4>1. Written(p) /\ Shows(p) => Staged(G, p.name)' = RowsFor(Order[n], i)'
        <5>1. CASE n = section /\ i = query
          BY <1>5, <1>12, <1>15, <3>1, <3>2, <3>3, <5>1
        <5>2. CASE ~(n = section /\ i = query)
          BY <1>12, <3>1, <3>2, <3>3, <5>2
        <5> QED BY <5>1, <5>2
      <4> QED BY <1>0, <1>11, <1>16, <3>4, <4>1 DEF InFile
    <3>6. ASSUME format \in {"csv", "parquet"}
          PROVE  OwnFile(n, i)'
      <4>1. G = <<Order[n], p.name>> /\ F = <<Order[section], q.name>>
        BY <1>0, <3>6 DEF F, FileOf
      <4>2. p = q
        <5>1. p.name = q.name
          <6>1. G[2] = p.name /\ F[2] = q.name
            BY <4>1
          <6> QED BY <2>3, <6>1
        <5> QED BY <1>13, <1>14, <1>15, <2>3, <5>1
      <4>3. \A k \in DOMAIN old : old[k].columns = p.columns
        <5>1. F \in DOMAIN buffer => \A k \in DOMAIN buffer[F] : buffer[F][k].columns = p.columns
          BY <1>0, <1>10, <2>3, <3>6 DEF OwnFile
        <5> QED BY <1>7, <5>1
      <4>4. \A k \in DOMAIN Append(old, e) : Append(old, e)[k].columns = p.columns
        BY <1>5, <1>7, <4>2, <4>3, Appended, SeqFacts
      <4>5. \A k \in DOMAIN buffer'[G] : buffer'[G][k].columns = p.columns
        BY <2>1, <2>3, <4>4
      <4> QED BY <1>0, <1>11, <4>5 DEF OwnFile
    <3> QED BY <1>0, <3>5, <3>6
  <2> QED BY <2>2, <2>3
<1> QED BY <1>17, <1>18

LEMMA CaptureRowStep == StageInv /\ CaptureRow => StageInv'
<1> SUFFICES ASSUME StageInv, CaptureRow PROVE StageInv'
  OBVIOUS
<1> DEFINE a == Head(argSets)
           c == [section |-> Order[section], query |-> query, args |-> a]
<1>1. section \in DOMAIN Order /\ query \in DOMAIN QueriesOf(section) /\ pc = "capture" /\ pc' = "capture" /\ a \in RowsOf(Query)
      /\ argSets' = Tail(argSets) /\ IsSeq(argSets') /\ \A k \in DOMAIN argSets' : argSets'[k] \in RowsOf(Query)
  <2>1. argSets # <<>> /\ IsSeq(argSets) /\ (\A k \in DOMAIN argSets : argSets[k] \in RowsOf(Query))
    BY DEF StageInv, PositionInv, CaptureRow
  <2>2. a = argSets[1] /\ 1 \in DOMAIN argSets /\ IsSeq(Tail(argSets))
        /\ \A k \in DOMAIN Tail(argSets) : \E j \in DOMAIN argSets : Tail(argSets)[k] = argSets[j]
    BY <2>1, Rest
  <2>3. section \in DOMAIN Order /\ query \in DOMAIN QueriesOf(section) /\ pc = "capture" /\ pc' = "capture" /\ argSets' = Tail(argSets)
    BY DEF StageInv, PositionInv, CaptureRow, position
  <2>4. a \in RowsOf(Query)
    BY <2>1, <2>2
  <2> QED BY <2>1, <2>2, <2>3, <2>4
<1>2. Query' = Query /\ (\A n : QueriesOf(n)' = QueriesOf(n)) /\ \A n, i : QueryOf(n, i)' = QueryOf(n, i)
  BY DEF CaptureRow, position, Query, SectionQueries, QueriesOf, QueryOf
<1>3. UNCHANGED <<format, program, section, query, pc, env, disk, outcome>>
  BY DEF CaptureRow, position
<1> HIDE DEF a
<1>4. PositionInv'
  BY <1>1, <1>2, <1>3 DEF StageInv, PositionInv, Capturing, RowsOf
<1>5. captured' = Append(captured, c) /\ IsSeq(captured)
  BY DEF CaptureRow, StageInv, CapturedInv, a
<1>6. \A n \in DOMAIN Order : \A i : RowsFor(Order[n], i)' = IF n = section /\ i = query THEN Append(RowsFor(Order[n], i), a) ELSE RowsFor(Order[n], i)
  <2>1. c.section = Order[section] /\ c.query = query /\ c.args = a
    OBVIOUS
  <2> HIDE DEF c
  <2>2. \A n \in DOMAIN Order : (Order[n] = Order[section] <=> n = section)
    BY <1>1, OrderFacts
  <2> QED BY <1>5, <2>1, <2>2, CapturedGrows
<1>7. query \in Nat
  BY DEF StageInv, PositionInv
<1>8. CapturedInv'
  <2>1. IsSeq(captured')
    BY <1>5, Appended
  <2>2. \A n \in DOMAIN Order : \A i \in DOMAIN QueriesOf(n) : (Ahead(n, i)' <=> Ahead(n, i)) /\ (Ahead(n, i) => ~(n = section /\ i = query))
    BY <1>1, <1>3, <1>7, OrderFacts DEF Ahead
  <2>3. Capturing
    BY <1>1 DEF Capturing
  <2>4. \A n \in DOMAIN Order : \A i \in DOMAIN QueriesOf(n) : Ahead(n, i) => RowsFor(Order[n], i)' = <<>>
    BY <1>6, <2>2, <2>3 DEF StageInv, CapturedInv
  <2> QED BY <1>2, <2>1, <2>2, <2>4 DEF CapturedInv
<1>9. RowsInv'
  <2>1. envRows' = IF Query.batch \/ a # <<>> THEN Append(envRows, a) ELSE envRows
    BY DEF CaptureRow, a
  <2>2. a = <<>> <=> Query.columns = <<>>
    BY <1>1, NoRow DEF StageInv
  <2>3. envRows' = IF Query.batch \/ Query.columns # <<>> THEN RowsFor(Order[section], query)' ELSE <<>>
    <3>1. envRows = IF Query.batch \/ Query.columns # <<>> THEN RowsFor(Order[section], query) ELSE <<>>
      BY <1>1 DEF StageInv, RowsInv
    <3>2. \A i : i = query => RowsFor(Order[section], i)' = Append(RowsFor(Order[section], i), a)
      BY <1>1, <1>3, <1>6
    <3>3. RowsFor(Order[section], query)' = Append(RowsFor(Order[section], query), a)
      BY <1>1, <1>3, <1>5, <1>6 DEF RowsFor, PlacesFor
    <3> QED BY <2>1, <2>2, <3>1, <3>3
  <2>4. ASSUME NEW name \in DOMAIN env
        PROVE  env[name] # <<>> /\ \E n \in DOMAIN Order : \E i \in DOMAIN QueriesOf(n) :
                 Behind(n, i)' /\ QueryOf(n, i).name = name /\ RowsFor(Order[n], i)' = env[name]
    <3>1. PICK n \in DOMAIN Order : \E i \in DOMAIN QueriesOf(n) :
            Behind(n, i) /\ QueryOf(n, i).name = name /\ RowsFor(Order[n], i) = env[name]
      BY DEF StageInv, RowsInv
    <3>2. PICK i \in DOMAIN QueriesOf(n) : Behind(n, i) /\ QueryOf(n, i).name = name /\ RowsFor(Order[n], i) = env[name]
      BY <3>1
    <3>3. Behind(n, i)' /\ ~(n = section /\ i = query)
      BY <1>1, <1>3, <1>7, <3>2, OrderFacts DEF Behind
    <3>4. RowsFor(Order[n], i)' = RowsFor(Order[n], i)
      BY <1>6, <3>3
    <3>5. env[name] # <<>>
      BY DEF StageInv, RowsInv
    <3> QED BY <3>2, <3>3, <3>4, <3>5
  <2> QED BY <1>2, <1>3, <2>3, <2>4 DEF RowsInv
<1>10. BufferInv'
  <2>1. ASSUME NEW f \in DOMAIN buffer'
        PROVE  IsSeq(buffer'[f]) /\ buffer'[f] # <<>>
    <3> DEFINE old == IF File(Query) \in DOMAIN buffer THEN buffer[File(Query)] ELSE <<>>
               e == Entry(Query, a)
    <3>1. buffer' = buffer \/ buffer' = Put(buffer, File(Query), Append(old, e))
      BY DEF CaptureRow, Add, a
    <3>2. IsSeq(old)
      BY EmptyIsSeq DEF StageInv, BufferInv
    <3>3. IsSeq(Append(old, e)) /\ Append(old, e) # <<>>
      BY <3>2, Appended
    <3>4. \A g \in DOMAIN buffer : IsSeq(buffer[g]) /\ buffer[g] # <<>>
      BY DEF StageInv, BufferInv
    <3> HIDE DEF old, e
    <3>5. PICK F, more : F = File(Query) /\ more = Append(old, e)
      OBVIOUS
    <3>6. buffer' = buffer \/ buffer' = [z \in DOMAIN buffer \cup {F} |-> IF z = F THEN more ELSE buffer[z]]
      BY <3>1, <3>5 DEF Put
    <3>7. IsSeq(more) /\ more # <<>>
      BY <3>3, <3>5
    <3> QED BY <3>4, <3>6, <3>7
  <2>2. (Named' <=> Named) /\ \A n, i : Written(QueryOf(n, i))' <=> Written(QueryOf(n, i))
    BY <1>2, <1>3 DEF Named, Written
  <2>3. Named /\ format # "stdout" =>
          \A n \in DOMAIN Order : \A i \in DOMAIN QueriesOf(n) :
            /\ Written(QueryOf(n, i)) => InFile(n, i)'
            /\ format \in {"csv", "parquet"} => OwnFile(n, i)'
    BY CaptureFile
  <2> QED BY <1>2, <1>3, <2>1, <2>2, <2>3 DEF BufferInv
<1> QED BY <1>4, <1>8, <1>9, <1>10 DEF StageInv

LEMMA StageStep == StageInv /\ [NextStage]_stageVars => StageInv'
<1> SUFFICES ASSUME StageInv, [NextStage]_stageVars PROVE StageInv'
  OBVIOUS
<1>1. CASE Start
  BY <1>1, StartStep
<1>2. CASE StartQuery
  BY <1>2, StartQueryStep
<1>3. CASE ArgsFail \/ StdoutFails
  BY <1>3, FailedStep DEF ArgsFail, StdoutFails
<1>4. CASE CaptureRow
  BY <1>4, CaptureRowStep
<1>5. CASE EndQuery
  BY <1>5, EndQueryStep
<1>6. CASE EndSection
  BY <1>6, EndSectionStep
<1>7. CASE \E f \in DOMAIN buffer : Flush(f)
  BY <1>7, FlushStep
<1>8. CASE Flushed
  BY <1>8, FlushedStep
<1>9. CASE UNCHANGED stageVars
  <2>1. UNCHANGED <<format, program, pc, section, query, argSets, envRows, env, captured, buffer, disk, outcome>>
    BY <1>9 DEF stageVars, position, capture
  <2>2. PositionInv'
    BY <2>1 DEF StageInv, PositionInv, Capturing, QueriesOf, Query, SectionQueries, RowsOf
  <2>3. CapturedInv'
    BY <2>1, SameRows DEF StageInv, CapturedInv, Capturing, Ahead, QueriesOf
  <2>4. RowsInv'
    BY <2>1, SameRows DEF StageInv, RowsInv, Behind, QueriesOf, QueryOf, Query, SectionQueries
  <2>5. BufferInv'
    BY <2>1, SameBuffer DEF StageInv
  <2> QED BY <2>2, <2>3, <2>4, <2>5 DEF StageInv
<1> QED BY <1>1, <1>2, <1>3, <1>4, <1>5, <1>6, <1>7, <1>8, <1>9 DEF NextStage

(* Every row of a stage that succeeds is in a file that is whole; in the   *)
(* sql format, every row of a query whose statement names all its args.    *)
THEOREM StagedFilesComplete == SpecStage => []FilesComplete
<1>1. StageInv => FilesComplete
  <2> SUFFICES ASSUME StageInv PROVE FilesComplete
    OBVIOUS
  <2>1. pc \in {"start", "section", "capture"} => disk = <<>>
    BY DEF StageInv, PositionInv, Capturing
  <2>2. ASSUME outcome = "ok", Named, format # "stdout"
        PROVE  /\ \A f \in DOMAIN disk : disk[f] = "whole"
               /\ \A n \in DOMAIN Order : \A i \in DOMAIN program[Order[n]] :
                    LET q    == program[Order[n]][i]
                        f    == IF format \in {"csv", "parquet"} THEN <<Order[n], q.name>> ELSE <<Order[n]>>
                        rows == RowsFor(Order[n], i)
                    IN  rows # <<>> /\ (q.columns # <<>> \/ format = "sql") =>
                          /\ f \in DOMAIN disk
                          /\ Shows(q) => Staged(f, q.name) = rows
                          /\ format \in {"csv", "parquet"} => buffer[f][1].columns = q.columns
    <3>1. DOMAIN disk = DOMAIN buffer /\ \A f \in DOMAIN disk : disk[f] = "whole"
      BY <2>2 DEF StageInv, PositionInv
    <3>2. ASSUME NEW n \in DOMAIN Order, NEW i \in DOMAIN program[Order[n]],
                 RowsFor(Order[n], i) # <<>>, Written(QueryOf(n, i))
          PROVE  LET q == QueryOf(n, i)
                     f == FileOf(n, q)
                 IN  /\ f \in DOMAIN disk
                     /\ Shows(q) => Staged(f, q.name) = RowsFor(Order[n], i)
                     /\ format \in {"csv", "parquet"} => buffer[f][1].columns = q.columns
      <4> DEFINE q == QueryOf(n, i)
                 f == FileOf(n, q)
      <4>1. InFile(n, i) /\ (format \in {"csv", "parquet"} => OwnFile(n, i))
        BY <2>2, <3>2 DEF StageInv, BufferInv, QueriesOf
      <4>2. f \in DOMAIN buffer /\ (Shows(q) => Staged(f, q.name) = RowsFor(Order[n], i))
        BY <3>2, <4>1 DEF InFile
      <4>3. IsSeq(buffer[f]) /\ buffer[f] # <<>>
        BY <4>2 DEF StageInv, BufferInv
      <4>4. 1 \in DOMAIN buffer[f]
        BY <4>3, Rest
      <4> QED BY <3>1, <4>1, <4>2, <4>4 DEF OwnFile
    <3> QED BY <3>1, <3>2 DEF QueryOf, FileOf, Written
  <2> QED BY <2>1, <2>2 DEF FilesComplete
<1> QED BY <1>1, InitInv, StageStep, PTL DEF SpecStage

(* A dataset is what was staged of one query of its name.                  *)
THEOREM StagedDatasets == SpecStage => []DatasetsStaged
<1>1. StageInv => DatasetsStaged
  BY DEF StageInv, RowsInv, DatasetsStaged, QueriesOf, QueryOf
<1> QED BY <1>1, InitInv, StageStep, PTL DEF SpecStage
=============================================================================
