----------------------------- MODULE WorkerProofs -----------------------------
(***************************************************************************)
(* For any run section, number of retries and kind of failure: the worker  *)
(* ends every transaction it begins, commits all of it or nothing, reports *)
(* the commits the database made, keeps the locals while they are needed,  *)
(* and its steps are steps of TxContract.                                  *)
(***************************************************************************)
EXTENDS Worker, TLAPS

(***************************************************************************)
(* The inductive invariant.  What a commit makes durable is what the try   *)
(* has executed by then, so the invariant ties the pending statements to   *)
(* the position in the transaction: a new try starts from none, each       *)
(* statement moves the position by one, and every error leaves the try.    *)
(***************************************************************************)
TxPcs    == {"begin", "locals", "body", "commit", "tried", "backoff", "txwait"}
QueryPcs == {"args", "exec", "wait"}

(* Where the goroutine can be within an item. *)
Position ==
  /\ pc \in TxPcs \cup QueryPcs => todo # <<>>
  /\ pc \in TxPcs => Item.tx
  /\ pc = "locals" => Item.locals /\ qi = 1
  /\ pc \in {"body"} \cup QueryPcs => qi <= Len(Item.steps) + 1
  /\ pc \in QueryPcs => qi \in DOMAIN Item.steps /\ ~Step.cond
  /\ pc = "commit" => qi = Len(Item.steps) + 1
  /\ pc = "args" => set = 1
  /\ pc = "exec" => set <= Step.sets + 1
  /\ pc = "wait" => set = Step.sets + 1

(* The statements of item i before statement k of step q. *)
Before(i, q, k) ==
  {p \in Statements(i) : p[1] < q \/ (p[1] = q /\ p[2] < k)}

PendingIsProgress ==
  InTry => pending = Before(Head(todo), qi, IF pc \in {"exec", "wait"} THEN set ELSE 1)

WorkerInv ==
  /\ TypeOK
  /\ Position
  /\ NoOpenTxOutside
  /\ LocalsAvailable
  /\ PendingIsProgress
  /\ CommitsAccounted
  /\ AllOrNothing

-----------------------------------------------------------------------------
(* What the assumption on Items says of one item. *)
LEMMA ItemFacts ==
  ASSUME NEW i \in DOMAIN Items
  PROVE  /\ Items[i].tx \in BOOLEAN /\ Items[i].locals \in BOOLEAN
         /\ Len(Items[i].steps) \in Nat \ {0}
         /\ DOMAIN Items[i].steps = 1 .. Len(Items[i].steps)
         /\ \A q \in DOMAIN Items[i].steps : /\ Items[i].steps[q].sets \in Nat
                                            /\ Items[i].steps[q].cond \in BOOLEAN
         /\ ~Items[i].tx => Len(Items[i].steps) = 1 /\ ~Items[i].steps[1].cond
<1> DEFINE S == [cond : BOOLEAN, sets : Nat, wait : BOOLEAN]
           R == [tx : BOOLEAN, locals : BOOLEAN, wait : BOOLEAN, steps : Seq(S)]
<1>a. ASSUME NEW Q, NEW seq \in Seq(Q)
      PROVE  /\ \A j \in DOMAIN seq : seq[j] \in Q
             /\ DOMAIN seq = 1 .. Len(seq) /\ Len(seq) \in Nat
             /\ seq # <<>> => Len(seq) # 0
  OBVIOUS
<1>b. Items \in Seq(R)
  BY ItemsAssumption
<1>1. Items[i] \in R
  <2> HIDE DEF R
  <2> QED BY <1>a, <1>b
<1>2. Items[i].steps \in Seq(S) /\ Items[i].steps # <<>>
  BY <1>1, ItemsAssumption
<1>3. /\ Len(Items[i].steps) \in Nat \ {0}
      /\ DOMAIN Items[i].steps = 1 .. Len(Items[i].steps)
      /\ \A q \in DOMAIN Items[i].steps : Items[i].steps[q] \in S
  <2> HIDE DEF S
  <2> QED BY <1>a, <1>2
<1>4. ~Items[i].tx => Len(Items[i].steps) = 1 /\ ~Items[i].steps[1].cond
  BY ItemsAssumption
<1> QED BY <1>1, <1>3, <1>4

(* The current item of a list of items. *)
LEMMA ItemType ==
  ASSUME NEW t \in Seq(DOMAIN Items), t # <<>>
  PROVE  Head(t) \in DOMAIN Items /\ Tail(t) \in Seq(DOMAIN Items)
OBVIOUS

(* Membership in Statements, without its UNION. *)
LEMMA StatementsDef ==
  ASSUME NEW i \in DOMAIN Items
  PROVE  /\ \A q, k : <<q, k>> \in Statements(i) <=>
                         /\ q \in DOMAIN Items[i].steps /\ ~Items[i].steps[q].cond
                         /\ k \in 1 .. Items[i].steps[q].sets
         /\ \A p \in Statements(i) : p = <<p[1], p[2]>>
         /\ Statements(i) \subseteq Nat \X Nat
<1>1. \A p \in Statements(i) : \E q \in DOMAIN Items[i].steps :
         /\ ~Items[i].steps[q].cond
         /\ \E k \in 1 .. Items[i].steps[q].sets : p = <<q, k>>
  BY DEF Statements
<1>2. \A k : \A q \in DOMAIN Items[i].steps :
        ~Items[i].steps[q].cond /\ k \in 1 .. Items[i].steps[q].sets
          => <<q, k>> \in Statements(i)
  BY DEF Statements
<1>3. \A p \in Statements(i) : p = <<p[1], p[2]>>
  BY <1>1
<1>4. Statements(i) \subseteq Nat \X Nat
  BY <1>1, ItemFacts
<1> QED BY <1>1, <1>2, <1>3, <1>4

(* How the statements behind a position grow as the position moves.        *)
LEMMA BeforeFirst ==
  ASSUME NEW i \in DOMAIN Items
  PROVE  Before(i, 1, 1) = {}
<1> SUFFICES ASSUME NEW p \in Before(i, 1, 1) PROVE FALSE
  OBVIOUS
<1>1. p \in Statements(i) /\ (p[1] < 1 \/ (p[1] = 1 /\ p[2] < 1))
  BY DEF Before
<1>2. p = <<p[1], p[2]>>
  BY <1>1, StatementsDef
<1>3. p[1] \in DOMAIN Items[i].steps /\ p[2] \in 1 .. Items[i].steps[p[1]].sets
  BY <1>1, <1>2, StatementsDef
<1> QED BY <1>1, <1>3, ItemFacts

LEMMA BeforeStatement ==
  ASSUME NEW i \in DOMAIN Items, NEW q \in DOMAIN Items[i].steps,
         ~Items[i].steps[q].cond, NEW k \in 1 .. Items[i].steps[q].sets
  PROVE  Before(i, q, k + 1) = Before(i, q, k) \cup {<<q, k>>}
<1>0. q \in Nat /\ k \in Nat /\ <<q, k>> \in Statements(i)
  BY StatementsDef, ItemFacts
<1>1. ASSUME NEW p \in Statements(i)
      PROVE  (p[1] < q \/ (p[1] = q /\ p[2] < k + 1))
               <=> (p[1] < q \/ (p[1] = q /\ p[2] < k)) \/ p = <<q, k>>
  <2>1. p[1] \in Nat /\ p[2] \in Nat /\ p = <<p[1], p[2]>>
    BY StatementsDef
  <2> QED BY <2>1, <1>0
<1> QED BY <1>0, <1>1 DEF Before

LEMMA BeforeCondition ==
  ASSUME NEW i \in DOMAIN Items, NEW q \in DOMAIN Items[i].steps,
         Items[i].steps[q].cond
  PROVE  Before(i, q + 1, 1) = Before(i, q, 1)
<1>0. q \in Nat
  BY ItemFacts
<1>1. ASSUME NEW p \in Statements(i)
      PROVE  (p[1] < q + 1 \/ (p[1] = q + 1 /\ p[2] < 1))
               <=> (p[1] < q \/ (p[1] = q /\ p[2] < 1))
  <2>1. p[1] \in Nat /\ p[2] \in Nat /\ p[1] # q /\ p[2] >= 1
    <3>1. p = <<p[1], p[2]>> /\ p[1] \in Nat /\ p[2] \in Nat
      BY StatementsDef
    <3>2. ~Items[i].steps[p[1]].cond /\ p[2] \in 1 .. Items[i].steps[p[1]].sets
      BY <3>1, StatementsDef
    <3> QED BY <3>1, <3>2
  <2> QED BY <2>1, <1>0
<1> QED BY <1>1 DEF Before

LEMMA BeforeNextStep ==
  ASSUME NEW i \in DOMAIN Items, NEW q \in DOMAIN Items[i].steps
  PROVE  Before(i, q + 1, 1) = Before(i, q, Items[i].steps[q].sets + 1)
<1>0. q \in Nat /\ Items[i].steps[q].sets \in Nat
  BY ItemFacts
<1>1. ASSUME NEW p \in Statements(i)
      PROVE  (p[1] < q + 1 \/ (p[1] = q + 1 /\ p[2] < 1))
               <=> (p[1] < q \/ (p[1] = q /\ p[2] < Items[i].steps[q].sets + 1))
  <2>1. p = <<p[1], p[2]>> /\ p[1] \in Nat /\ p[2] \in Nat
    BY StatementsDef
  <2>2. p[2] \in 1 .. Items[i].steps[p[1]].sets
    BY <2>1, StatementsDef
  <2> QED BY <2>1, <2>2, <1>0
<1> QED BY <1>1 DEF Before

LEMMA BeforeEnd ==
  ASSUME NEW i \in DOMAIN Items
  PROVE  Before(i, Len(Items[i].steps) + 1, 1) = Statements(i)
<1>1. ASSUME NEW p \in Statements(i) PROVE p[1] < Len(Items[i].steps) + 1
  <2>1. p = <<p[1], p[2]>>
    BY StatementsDef
  <2>2. p[1] \in DOMAIN Items[i].steps
    BY <2>1, StatementsDef
  <2> QED BY <2>2, ItemFacts
<1> QED BY <1>1 DEF Before

(* Init establishes the invariant. *)
LEMMA WorkerInitInv == ASSUME Init PROVE WorkerInv
<1>1. ControlTypeOK
  <2>1. todo \in Seq(DOMAIN Items)
    BY DEF Init
  <2>2. iter \in 0 .. MaxIters /\ attempt \in 0 .. Retries
    BY BoundsAssumption DEF Init
  <2>3. qi \in Nat \ {0} /\ set \in Nat \ {0}
    BY DEF Init
  <2>4. ctxDone \in BOOLEAN /\ failed \in BOOLEAN
    BY DEF Init
  <2>5. /\ pc \in PcValues /\ err \in Kinds \cup {"nil", "rollback"}
        /\ txLocals \in {"nil", "map"} /\ dbTx \in {"none", "open"}
    BY DEF Init, PcValues, Kinds
  <2> QED BY <2>1, <2>2, <2>3, <2>4, <2>5 DEF ControlTypeOK
<1>2. DataTypeOK
  BY DEF Init, DataTypeOK
<1>3. Position /\ NoOpenTxOutside /\ LocalsAvailable /\ PendingIsProgress
  BY DEF Init, Position, TxPcs, QueryPcs, NoOpenTxOutside, LocalsAvailable, InTry, PendingIsProgress
<1>4. CommitsAccounted /\ AllOrNothing
  BY DEF Init, CommitsAccounted, AllOrNothing
<1> QED BY <1>1, <1>2, <1>3, <1>4 DEF WorkerInv, TypeOK

(* The item the goroutine works on, when there is one. *)
LEMMA CurrentItem ==
  ASSUME TypeOK, todo # <<>>
  PROVE  /\ Head(todo) \in DOMAIN Items /\ Tail(todo) \in Seq(DOMAIN Items)
         /\ Item.tx \in BOOLEAN /\ Item.locals \in BOOLEAN
         /\ Len(Item.steps) \in Nat \ {0} /\ DOMAIN Item.steps = 1 .. Len(Item.steps)
         /\ \A q \in DOMAIN Item.steps : Item.steps[q].sets \in Nat
         /\ ~Item.tx => Len(Item.steps) = 1 /\ ~Item.steps[1].cond
BY ItemType, ItemFacts DEF TypeOK, ControlTypeOK, Item

(* An iteration is a list of items. *)
LEMMA IterationsType == Iterations \subseteq Seq(DOMAIN Items)
<1>1. DOMAIN Items = 1 .. Len(Items) /\ Len(Items) \in Nat
  <2>1. ASSUME NEW Q, NEW seq \in Seq(Q) PROVE DOMAIN seq = 1 .. Len(seq) /\ Len(seq) \in Nat
    OBVIOUS
  <2> QED BY <2>1, ItemsAssumption
<1>2. [i \in DOMAIN Items |-> i] \in Seq(DOMAIN Items)
  BY <1>1
<1>3. \A i \in DOMAIN RunWeights : <<i>> \in Seq(DOMAIN Items)
  BY WeightsAssumption
<1> QED BY <1>2, <1>3 DEF Iterations

-----------------------------------------------------------------------------
(* One lemma per action.  The updates that the actions share are expanded  *)
(* everywhere below.                                                       *)
USE DEF Goto, Raise, EndTx, ClearLocals, NextItem, Kinds, DbErrors, TxPcs, QueryPcs,
        control, stats, db, TypeOK, WorkerInv

(* Leaving a try with an error: whatever it did is undone, and no report   *)
(* but that of a failed query goes with it.                                *)
LEMMA AbortTryInv ==
  ASSUME WorkerInv, NEW e \in {"err", "fail", "ctx", "rollback"}, AbortTry(e),
         pc \in {"body"} \cup QueryPcs, Item.tx,
         ReportQueryError \/ UNCHANGED stats
  PROVE  WorkerInv'
<1>1. ControlTypeOK'
  BY DEF ControlTypeOK, PcValues, AbortTry
<1>5. DataTypeOK'
  BY DEF DataTypeOK, AbortTry, ReportQueryError
<1>2. Position'
  BY DEF ControlTypeOK, Position, AbortTry, Item, Step
<1>3. NoOpenTxOutside' /\ LocalsAvailable' /\ PendingIsProgress'
  BY DEF NoOpenTxOutside, LocalsAvailable, PendingIsProgress, InTry, AbortTry, Item
<1>4. CommitsAccounted' /\ AllOrNothing'
  BY DEF CommitsAccounted, AllOrNothing, AbortTry, ReportQueryError
<1> QED BY <1>1, <1>2, <1>3, <1>4, <1>5

(* A failing query leaves the try or, outside one, the iteration.          *)
LEMMA SectionFailsInv ==
  ASSUME WorkerInv, NEW e \in {"err", "fail", "ctx"}, SectionFails(e), pc \in QueryPcs,
         ReportQueryError \/ UNCHANGED stats
  PROVE  WorkerInv'
<1>1. CASE Item.tx
  BY <1>1, AbortTryInv DEF SectionFails
<1>2. CASE ~Item.tx
  <2>1. ControlTypeOK'
    BY <1>2 DEF ControlTypeOK, PcValues, SectionFails
  <2>5. DataTypeOK'
    BY <1>2 DEF DataTypeOK, SectionFails, ReportQueryError
  <2>2. Position'
    BY <1>2 DEF ControlTypeOK, Position, SectionFails
  <2>3. NoOpenTxOutside' /\ LocalsAvailable' /\ PendingIsProgress'
    BY <1>2 DEF NoOpenTxOutside, LocalsAvailable, PendingIsProgress, InTry, SectionFails, Item
  <2>4. CommitsAccounted' /\ AllOrNothing'
    BY <1>2 DEF CommitsAccounted, AllOrNothing, SectionFails, ReportQueryError
  <2> QED BY <2>1, <2>2, <2>3, <2>4, <2>5
<1> QED BY <1>1, <1>2

(* The worker returns between two iterations.                              *)
LEMMA LoopExitInv == ASSUME WorkerInv, LoopExit PROVE WorkerInv'
<1>1. ControlTypeOK'
  BY FaultsAssumption, BoundsAssumption, CurrentItem DEF ControlTypeOK, PcValues, Position, LoopExit
<1>2. DataTypeOK'
  BY DEF DataTypeOK, LoopExit
<1>3. Position'
  BY CurrentItem DEF ControlTypeOK, Position, LoopExit, Item, Step
<1>4. NoOpenTxOutside' /\ LocalsAvailable'
  BY DEF NoOpenTxOutside, LocalsAvailable, Position, InTry, LoopExit, Item
<1>5. PendingIsProgress'
  BY CurrentItem, BeforeFirst DEF PendingIsProgress, Position, InTry, LoopExit, Item
<1>6. CommitsAccounted' /\ AllOrNothing'
  BY FaultsAssumption DEF DataTypeOK, CommitsAccounted, AllOrNothing, LoopExit, Retryable
<1> QED BY <1>1, <1>2, <1>3, <1>4, <1>5, <1>6

LEMMA StartIterationInv == ASSUME WorkerInv, StartIteration PROVE WorkerInv'
<1>1. ControlTypeOK'
  BY IterationsType, FaultsAssumption, BoundsAssumption, CurrentItem DEF ControlTypeOK, PcValues, Position, StartIteration
<1>2. DataTypeOK'
  BY DEF DataTypeOK, StartIteration
<1>3. Position'
  BY CurrentItem DEF ControlTypeOK, Position, StartIteration, Item, Step
<1>4. NoOpenTxOutside' /\ LocalsAvailable'
  BY DEF NoOpenTxOutside, LocalsAvailable, Position, InTry, StartIteration, Item
<1>5. PendingIsProgress'
  BY CurrentItem, BeforeFirst DEF PendingIsProgress, Position, InTry, StartIteration, Item
<1>6. CommitsAccounted' /\ AllOrNothing'
  BY FaultsAssumption DEF DataTypeOK, CommitsAccounted, AllOrNothing, StartIteration, Retryable
<1> QED BY <1>1, <1>2, <1>3, <1>4, <1>5, <1>6

LEMMA IterationFailedInv == ASSUME WorkerInv, IterationFailed PROVE WorkerInv'
<1>1. ControlTypeOK'
  BY FaultsAssumption, BoundsAssumption, CurrentItem DEF ControlTypeOK, PcValues, Position, IterationFailed
<1>2. DataTypeOK'
  BY DEF DataTypeOK, IterationFailed
<1>3. Position'
  BY CurrentItem DEF ControlTypeOK, Position, IterationFailed, Item, Step
<1>4. NoOpenTxOutside' /\ LocalsAvailable'
  BY DEF NoOpenTxOutside, LocalsAvailable, Position, InTry, IterationFailed, Item
<1>5. PendingIsProgress'
  BY CurrentItem, BeforeFirst DEF PendingIsProgress, Position, InTry, IterationFailed, Item
<1>6. CommitsAccounted' /\ AllOrNothing'
  BY FaultsAssumption DEF DataTypeOK, CommitsAccounted, AllOrNothing, IterationFailed, Retryable
<1> QED BY <1>1, <1>2, <1>3, <1>4, <1>5, <1>6

(* An item starts: a query at once, a transaction with its first try.      *)
LEMMA DispatchInv == ASSUME WorkerInv, Dispatch PROVE WorkerInv'
<1>1. ControlTypeOK'
  BY FaultsAssumption, BoundsAssumption, CurrentItem DEF ControlTypeOK, PcValues, Position, Dispatch
<1>2. DataTypeOK'
  BY DEF DataTypeOK, Dispatch
<1>3. Position'
  BY CurrentItem DEF ControlTypeOK, Position, Dispatch, Item, Step
<1>4. NoOpenTxOutside' /\ LocalsAvailable'
  BY DEF NoOpenTxOutside, LocalsAvailable, Position, InTry, Dispatch, Item
<1>5. PendingIsProgress'
  BY CurrentItem, BeforeFirst DEF PendingIsProgress, Position, InTry, Dispatch, Item
<1>6. CommitsAccounted' /\ AllOrNothing'
  BY FaultsAssumption DEF DataTypeOK, CommitsAccounted, AllOrNothing, Dispatch, Retryable
<1> QED BY <1>1, <1>2, <1>3, <1>4, <1>5, <1>6

(* A try starts with nothing pending, whatever the last one left.          *)
LEMMA BeginTxInv == ASSUME WorkerInv, BeginTx PROVE WorkerInv'
<1>1. ControlTypeOK'
  BY FaultsAssumption, BoundsAssumption, CurrentItem DEF ControlTypeOK, PcValues, Position, BeginTx
<1>2. DataTypeOK'
  BY DEF DataTypeOK, BeginTx
<1>3. Position'
  BY CurrentItem DEF ControlTypeOK, Position, BeginTx, Item, Step
<1>4. NoOpenTxOutside' /\ LocalsAvailable'
  BY DEF NoOpenTxOutside, LocalsAvailable, Position, InTry, BeginTx, Item
<1>5. PendingIsProgress'
  BY CurrentItem, BeforeFirst DEF PendingIsProgress, Position, InTry, BeginTx, Item
<1>6. CommitsAccounted' /\ AllOrNothing'
  BY FaultsAssumption DEF DataTypeOK, CommitsAccounted, AllOrNothing, BeginTx, Retryable
<1> QED BY <1>1, <1>2, <1>3, <1>4, <1>5, <1>6

LEMMA EvalLocalsInv == ASSUME WorkerInv, EvalLocals PROVE WorkerInv'
<1>1. ControlTypeOK'
  BY FaultsAssumption, BoundsAssumption, CurrentItem DEF ControlTypeOK, PcValues, Position, EvalLocals
<1>2. DataTypeOK'
  BY DEF DataTypeOK, EvalLocals
<1>3. Position'
  BY CurrentItem DEF ControlTypeOK, Position, EvalLocals, Item, Step
<1>4. NoOpenTxOutside' /\ LocalsAvailable'
  BY DEF NoOpenTxOutside, LocalsAvailable, Position, InTry, EvalLocals, Item
<1>5. PendingIsProgress'
  BY CurrentItem, BeforeFirst DEF PendingIsProgress, Position, InTry, EvalLocals, Item
<1>6. CommitsAccounted' /\ AllOrNothing'
  BY FaultsAssumption DEF DataTypeOK, CommitsAccounted, AllOrNothing, EvalLocals, Retryable
<1> QED BY <1>1, <1>2, <1>3, <1>4, <1>5, <1>6

LEMMA StartTxQueryInv == ASSUME WorkerInv, StartTxQuery PROVE WorkerInv'
<1>1. ControlTypeOK'
  BY FaultsAssumption, BoundsAssumption, CurrentItem DEF ControlTypeOK, PcValues, Position, StartTxQuery
<1>2. DataTypeOK'
  BY DEF DataTypeOK, StartTxQuery
<1>3. Position'
  BY CurrentItem DEF ControlTypeOK, Position, StartTxQuery, Item, Step
<1>4. NoOpenTxOutside' /\ LocalsAvailable'
  BY DEF NoOpenTxOutside, LocalsAvailable, Position, InTry, StartTxQuery, Item
<1>5. PendingIsProgress'
  BY CurrentItem, BeforeFirst DEF PendingIsProgress, Position, InTry, StartTxQuery, Item
<1>6. CommitsAccounted' /\ AllOrNothing'
  BY FaultsAssumption DEF DataTypeOK, CommitsAccounted, AllOrNothing, StartTxQuery, Retryable
<1> QED BY <1>1, <1>2, <1>3, <1>4, <1>5, <1>6

LEMMA StartCommitInv == ASSUME WorkerInv, StartCommit PROVE WorkerInv'
<1>1. ControlTypeOK'
  BY FaultsAssumption, BoundsAssumption, CurrentItem DEF ControlTypeOK, PcValues, Position, StartCommit
<1>2. DataTypeOK'
  BY DEF DataTypeOK, StartCommit
<1>3. Position'
  BY CurrentItem DEF ControlTypeOK, Position, StartCommit, Item, Step
<1>4. NoOpenTxOutside' /\ LocalsAvailable'
  BY DEF NoOpenTxOutside, LocalsAvailable, Position, InTry, StartCommit, Item
<1>5. PendingIsProgress'
  BY CurrentItem, BeforeFirst DEF PendingIsProgress, Position, InTry, StartCommit, Item
<1>6. CommitsAccounted' /\ AllOrNothing'
  BY FaultsAssumption DEF DataTypeOK, CommitsAccounted, AllOrNothing, StartCommit, Retryable
<1> QED BY <1>1, <1>2, <1>3, <1>4, <1>5, <1>6

LEMMA ReportCommitInv == ASSUME WorkerInv, ReportCommit PROVE WorkerInv'
<1>1. ControlTypeOK'
  BY FaultsAssumption, BoundsAssumption, CurrentItem DEF ControlTypeOK, PcValues, Position, ReportCommit
<1>2. DataTypeOK'
  BY DEF DataTypeOK, ReportCommit
<1>3. Position'
  BY CurrentItem DEF ControlTypeOK, Position, ReportCommit, Item, Step
<1>4. NoOpenTxOutside' /\ LocalsAvailable'
  BY DEF NoOpenTxOutside, LocalsAvailable, Position, InTry, ReportCommit, Item
<1>5. PendingIsProgress'
  BY CurrentItem, BeforeFirst DEF PendingIsProgress, Position, InTry, ReportCommit, Item
<1>6. CommitsAccounted' /\ AllOrNothing'
  BY FaultsAssumption DEF DataTypeOK, CommitsAccounted, AllOrNothing, ReportCommit, Retryable
<1> QED BY <1>1, <1>2, <1>3, <1>4, <1>5, <1>6

LEMMA TxWaitInv == ASSUME WorkerInv, TxWait PROVE WorkerInv'
<1>1. ControlTypeOK'
  BY FaultsAssumption, BoundsAssumption, CurrentItem DEF ControlTypeOK, PcValues, Position, TxWait
<1>2. DataTypeOK'
  BY DEF DataTypeOK, TxWait
<1>3. Position'
  BY CurrentItem DEF ControlTypeOK, Position, TxWait, Item, Step
<1>4. NoOpenTxOutside' /\ LocalsAvailable'
  BY DEF NoOpenTxOutside, LocalsAvailable, Position, InTry, TxWait, Item
<1>5. PendingIsProgress'
  BY CurrentItem, BeforeFirst DEF PendingIsProgress, Position, InTry, TxWait, Item
<1>6. CommitsAccounted' /\ AllOrNothing'
  BY FaultsAssumption DEF DataTypeOK, CommitsAccounted, AllOrNothing, TxWait, Retryable
<1> QED BY <1>1, <1>2, <1>3, <1>4, <1>5, <1>6

LEMMA ReportRollbackInv == ASSUME WorkerInv, ReportRollback PROVE WorkerInv'
<1>1. ControlTypeOK'
  BY FaultsAssumption, BoundsAssumption, CurrentItem DEF ControlTypeOK, PcValues, Position, ReportRollback
<1>2. DataTypeOK'
  BY DEF DataTypeOK, ReportRollback
<1>3. Position'
  BY CurrentItem DEF ControlTypeOK, Position, ReportRollback, Item, Step
<1>4. NoOpenTxOutside' /\ LocalsAvailable'
  BY DEF NoOpenTxOutside, LocalsAvailable, Position, InTry, ReportRollback, Item
<1>5. PendingIsProgress'
  BY CurrentItem, BeforeFirst DEF PendingIsProgress, Position, InTry, ReportRollback, Item
<1>6. CommitsAccounted' /\ AllOrNothing'
  BY FaultsAssumption DEF DataTypeOK, CommitsAccounted, AllOrNothing, ReportRollback, Retryable
<1> QED BY <1>1, <1>2, <1>3, <1>4, <1>5, <1>6

LEMMA ReportTxErrorInv == ASSUME WorkerInv, ReportTxError PROVE WorkerInv'
<1>1. ControlTypeOK'
  BY FaultsAssumption, BoundsAssumption, CurrentItem DEF ControlTypeOK, PcValues, Position, ReportTxError
<1>2. DataTypeOK'
  BY DEF DataTypeOK, ReportTxError
<1>3. Position'
  BY CurrentItem DEF ControlTypeOK, Position, ReportTxError, Item, Step
<1>4. NoOpenTxOutside' /\ LocalsAvailable'
  BY DEF NoOpenTxOutside, LocalsAvailable, Position, InTry, ReportTxError, Item
<1>5. PendingIsProgress'
  BY CurrentItem, BeforeFirst DEF PendingIsProgress, Position, InTry, ReportTxError, Item
<1>6. CommitsAccounted' /\ AllOrNothing'
  BY FaultsAssumption DEF DataTypeOK, CommitsAccounted, AllOrNothing, ReportTxError, Retryable
<1> QED BY <1>1, <1>2, <1>3, <1>4, <1>5, <1>6

LEMMA RetryInv == ASSUME WorkerInv, Retry PROVE WorkerInv'
<1>1. ControlTypeOK'
  BY FaultsAssumption, BoundsAssumption, CurrentItem DEF ControlTypeOK, PcValues, Position, Retry, LastTry
<1>2. DataTypeOK'
  BY DEF DataTypeOK, Retry
<1>3. Position'
  BY CurrentItem DEF ControlTypeOK, Position, Retry, Item, Step
<1>4. NoOpenTxOutside' /\ LocalsAvailable'
  BY DEF NoOpenTxOutside, LocalsAvailable, Position, InTry, Retry, Item
<1>5. PendingIsProgress'
  BY CurrentItem, BeforeFirst DEF PendingIsProgress, Position, InTry, Retry, Item
<1>6. CommitsAccounted' /\ AllOrNothing'
  BY FaultsAssumption DEF DataTypeOK, CommitsAccounted, AllOrNothing, Retry, Retryable
<1> QED BY <1>1, <1>2, <1>3, <1>4, <1>5, <1>6

LEMMA BackoffInv == ASSUME WorkerInv, Backoff PROVE WorkerInv'
<1>1. ControlTypeOK'
  BY FaultsAssumption, BoundsAssumption, CurrentItem DEF ControlTypeOK, PcValues, Position, Backoff
<1>2. DataTypeOK'
  BY DEF DataTypeOK, Backoff
<1>3. Position'
  BY CurrentItem DEF ControlTypeOK, Position, Backoff, Item, Step
<1>4. NoOpenTxOutside' /\ LocalsAvailable'
  BY DEF NoOpenTxOutside, LocalsAvailable, Position, InTry, Backoff, Item
<1>5. PendingIsProgress'
  BY CurrentItem, BeforeFirst DEF PendingIsProgress, Position, InTry, Backoff, Item
<1>6. CommitsAccounted' /\ AllOrNothing'
  BY FaultsAssumption DEF DataTypeOK, CommitsAccounted, AllOrNothing, Backoff, Retryable
<1> QED BY <1>1, <1>2, <1>3, <1>4, <1>5, <1>6

LEMMA CancelInv == ASSUME WorkerInv, Cancel PROVE WorkerInv'
<1>1. ControlTypeOK'
  BY FaultsAssumption, BoundsAssumption, CurrentItem DEF ControlTypeOK, PcValues, Position, Cancel
<1>2. DataTypeOK'
  BY DEF DataTypeOK, Cancel
<1>3. Position'
  BY CurrentItem DEF ControlTypeOK, Position, Cancel, Item, Step
<1>4. NoOpenTxOutside' /\ LocalsAvailable'
  BY DEF NoOpenTxOutside, LocalsAvailable, Position, InTry, Cancel, Item
<1>5. PendingIsProgress'
  BY CurrentItem, BeforeFirst DEF PendingIsProgress, Position, InTry, Cancel, Item
<1>6. CommitsAccounted' /\ AllOrNothing'
  BY FaultsAssumption DEF DataTypeOK, CommitsAccounted, AllOrNothing, Cancel, Retryable
<1> QED BY <1>1, <1>2, <1>3, <1>4, <1>5, <1>6

LEMMA StoppedInv == ASSUME WorkerInv, UNCHANGED vars PROVE WorkerInv'
<1>1. ControlTypeOK'
  BY FaultsAssumption, BoundsAssumption, CurrentItem DEF ControlTypeOK, PcValues, Position, vars
<1>2. DataTypeOK'
  BY DEF DataTypeOK, vars
<1>3. Position'
  BY CurrentItem DEF ControlTypeOK, Position, vars, Item, Step
<1>4. NoOpenTxOutside' /\ LocalsAvailable'
  BY DEF NoOpenTxOutside, LocalsAvailable, Position, InTry, vars, Item
<1>5. PendingIsProgress'
  BY CurrentItem, BeforeFirst DEF PendingIsProgress, Position, InTry, vars, Item
<1>6. CommitsAccounted' /\ AllOrNothing'
  BY FaultsAssumption DEF DataTypeOK, CommitsAccounted, AllOrNothing, vars, Retryable
<1> QED BY <1>1, <1>2, <1>3, <1>4, <1>5, <1>6

(* The one step that makes statements durable: all of the transaction's    *)
(* are pending by then.                                                    *)
LEMMA CommitInv == ASSUME WorkerInv, Commit PROVE WorkerInv'
<1> SUFFICES ASSUME NEW i \in DOMAIN Items, i = Head(todo)
             PROVE  WorkerInv'
  BY CurrentItem DEF Commit, Position
<1>0. pc = "commit" /\ pc' = "tried" /\ dbTx' = "none" /\ pending' = {}
  BY DEF Commit
<1>1. pending = Statements(i)
  BY <1>0, BeforeEnd DEF PendingIsProgress, Position, InTry, Item
<1>2. Statements(i) \subseteq Nat \X Nat
  BY StatementsDef
<1>3. ControlTypeOK'
  BY FaultsAssumption DEF ControlTypeOK, PcValues, Commit
<1>4. \A d \in durable' : d \in durable \/ (d.item = i /\ d.statements = Statements(i))
  BY <1>1 DEF Commit, MakeDurable
<1>5. DataTypeOK'
  <2>1. pending' \subseteq Nat \X Nat
    BY <1>0
  <2>2. /\ queries' \in Nat /\ queryErrors' \in Nat
        /\ commits' \in Nat /\ rollbacks' \in Nat /\ txErrors' \in Nat
        /\ dbCommits' \in Nat /\ ambiguous' \in Nat
    BY DEF DataTypeOK, Commit, MakeDurable
  <2>3. \A d \in durable' : d.item \in DOMAIN Items /\ d.statements \subseteq Nat \X Nat
    BY <1>2, <1>4 DEF DataTypeOK
  <2> QED BY <2>1, <2>2, <2>3 DEF DataTypeOK
<1>6. Position'
  BY <1>0 DEF Position, Commit, Item
<1>7. NoOpenTxOutside' /\ LocalsAvailable' /\ PendingIsProgress'
  BY <1>0 DEF NoOpenTxOutside, LocalsAvailable, PendingIsProgress, InTry
<1>8. CommitsAccounted'
  BY <1>0, FaultsAssumption DEF DataTypeOK, CommitsAccounted, Commit, MakeDurable
<1>9. AllOrNothing'
  BY <1>4 DEF AllOrNothing
<1> QED BY <1>3, <1>5, <1>6, <1>7, <1>8, <1>9

(* A condition that does not hold moves the try on by a step.              *)
LEMMA RollbackIfInv == ASSUME WorkerInv, RollbackIf PROVE WorkerInv'
<1> SUFFICES ASSUME NEW i \in DOMAIN Items, i = Head(todo)
             PROVE  WorkerInv'
  BY CurrentItem DEF RollbackIf, Position
<1>0. pc = "body" /\ Item.tx /\ qi \in DOMAIN Item.steps /\ Step.cond /\ stats' = stats
  BY CurrentItem DEF RollbackIf, Position, ControlTypeOK
<1>1. CASE \E e \in EvalFaults \cup {"rollback"} : AbortTry(e)
  BY <1>0, <1>1, AbortTryInv, FaultsAssumption
<1>2. CASE /\ qi' = qi + 1
           /\ UNCHANGED <<ctxDone, pc, todo, set, attempt, err, iter, failed, txLocals, db>>
  <2>1. ControlTypeOK'
    BY <1>2 DEF ControlTypeOK
  <2>2. DataTypeOK'
    BY <1>0, <1>2 DEF DataTypeOK
  <2>3. Position'
    BY <1>0, <1>2, CurrentItem DEF ControlTypeOK, Position, Item, Step
  <2>4. NoOpenTxOutside' /\ LocalsAvailable'
    BY <1>0, <1>2 DEF NoOpenTxOutside, LocalsAvailable, InTry, Item
  <2>5. PendingIsProgress'
    <3>1. Before(i, qi + 1, 1) = Before(i, qi, 1)
      BY <1>0, BeforeCondition DEF Item, Step
    <3>2. pending = Before(i, qi, 1)
      BY <1>0 DEF PendingIsProgress, InTry
    <3> QED BY <1>0, <1>2, <3>1, <3>2 DEF PendingIsProgress
  <2>6. CommitsAccounted' /\ AllOrNothing'
    BY <1>0, <1>2 DEF CommitsAccounted, AllOrNothing
  <2> QED BY <2>1, <2>2, <2>3, <2>4, <2>5, <2>6
<1> QED BY <1>1, <1>2 DEF RollbackIf

LEMMA GenerateArgsInv == ASSUME WorkerInv, GenerateArgs PROVE WorkerInv'
<1>0. pc = "args" /\ todo # <<>>
  BY DEF GenerateArgs, Position
<1>1. CASE (\E e \in EvalFaults : SectionFails(e)) /\ ReportQueryError
  BY <1>0, <1>1, SectionFailsInv, FaultsAssumption
<1>2. CASE /\ Goto("exec")
           /\ UNCHANGED <<ctxDone, todo, qi, set, attempt, err, iter, failed, txLocals, stats, db>>
  <2>s. set = 1
    BY <1>0 DEF Position
  <2>1. ControlTypeOK' /\ DataTypeOK'
    BY <1>2 DEF ControlTypeOK, PcValues, DataTypeOK
  <2>3. Position'
    BY <1>0, <1>2, <2>s, CurrentItem DEF ControlTypeOK, Position, Item, Step
  <2>4. NoOpenTxOutside' /\ LocalsAvailable' /\ PendingIsProgress'
    BY <1>0, <1>2, <2>s DEF NoOpenTxOutside, LocalsAvailable, PendingIsProgress, InTry, Item
  <2>6. CommitsAccounted' /\ AllOrNothing'
    BY <1>0, <1>2 DEF CommitsAccounted, AllOrNothing
  <2> QED BY <2>1, <2>3, <2>4, <2>6
<1> QED BY <1>1, <1>2 DEF GenerateArgs

(* A statement that succeeds joins the pending ones of its transaction.    *)
LEMMA ExecSetInv == ASSUME WorkerInv, ExecSet PROVE WorkerInv'
<1> SUFFICES ASSUME NEW i \in DOMAIN Items, i = Head(todo)
             PROVE  WorkerInv'
  BY CurrentItem DEF ExecSet, Position
<1>0. /\ pc = "exec" /\ qi \in DOMAIN Item.steps /\ ~Step.cond /\ set \in 1 .. Step.sets
      /\ Step.sets \in Nat
  BY CurrentItem DEF ExecSet, Position, ControlTypeOK, Step
<1>1. CASE (\E e \in DbErrors : SectionFails(e)) /\ ReportQueryError
  BY <1>0, <1>1, SectionFailsInv, FaultsAssumption
<1>2. CASE /\ set' = set + 1
           /\ pending' = IF Item.tx THEN pending \cup {<<qi, set>>} ELSE pending
           /\ UNCHANGED <<ctxDone, pc, todo, qi, attempt, err, iter, failed, txLocals,
                          stats, dbTx, dbCommits, ambiguous, durable>>
  <2>1. ControlTypeOK'
    BY <1>2 DEF ControlTypeOK
  <2>2. DataTypeOK'
    BY <1>0, <1>2, CurrentItem DEF ControlTypeOK, DataTypeOK
  <2>3. Position'
    BY <1>0, <1>2 DEF ControlTypeOK, Position, Item, Step
  <2>4. NoOpenTxOutside' /\ LocalsAvailable'
    BY <1>0, <1>2 DEF NoOpenTxOutside, LocalsAvailable, InTry, Item
  <2>5. PendingIsProgress'
    <3>1. Before(i, qi, set + 1) = Before(i, qi, set) \cup {<<qi, set>>}
      BY <1>0, BeforeStatement DEF Item, Step
    <3>2. Item.tx => pending = Before(i, qi, set)
      BY <1>0 DEF PendingIsProgress, InTry
    <3> QED BY <1>0, <1>2, <3>1, <3>2 DEF PendingIsProgress, InTry, Item
  <2>6. CommitsAccounted' /\ AllOrNothing'
    BY <1>0, <1>2 DEF CommitsAccounted, AllOrNothing
  <2> QED BY <2>1, <2>2, <2>3, <2>4, <2>5, <2>6
<1> QED BY <1>1, <1>2 DEF ExecSet

(* A query that is done moves its transaction to the next step, with every *)
(* statement of the query pending, or its iteration to the next item.      *)
LEMMA SectionDoneInv ==
  ASSUME WorkerInv, SectionDone, pc \in {"exec", "wait"}, set = Step.sets + 1,
         UNCHANGED <<ctxDone, set, attempt, err, iter, failed, txLocals, db>>,
         queries' \in Nat,
         UNCHANGED <<queryErrors, commits, rollbacks, txErrors>>
  PROVE  WorkerInv'
<1> SUFFICES ASSUME NEW i \in DOMAIN Items, i = Head(todo)
             PROVE  WorkerInv'
  BY CurrentItem DEF Position
<1>0. /\ qi \in DOMAIN Item.steps /\ Item.tx \in BOOLEAN /\ todo # <<>>
      /\ qi' \in Nat \ {0}
      /\ IF Item.tx THEN qi' = qi + 1 /\ pc' = "body" /\ todo' = todo
                    ELSE todo' = Tail(todo) /\ pc' = "items" /\ qi' = qi
  BY CurrentItem DEF Position, SectionDone, ControlTypeOK
<1>1. ControlTypeOK'
  BY <1>0, CurrentItem DEF ControlTypeOK, PcValues
<1>2. DataTypeOK'
  BY DEF DataTypeOK
<1>3. Position'
  BY <1>0, CurrentItem DEF Position, Item
<1>4. NoOpenTxOutside' /\ LocalsAvailable'
  BY <1>0 DEF NoOpenTxOutside, LocalsAvailable, InTry, Item
<1>5. PendingIsProgress'
  <2>1. Before(i, qi + 1, 1) = Before(i, qi, set)
    BY <1>0, BeforeNextStep DEF Item, Step
  <2>2. Item.tx => pending = Before(i, qi, set)
    BY DEF PendingIsProgress, InTry
  <2> QED BY <1>0, <2>1, <2>2 DEF PendingIsProgress, InTry
<1>6. CommitsAccounted' /\ AllOrNothing'
  BY <1>0 DEF CommitsAccounted, AllOrNothing
<1> QED BY <1>1, <1>2, <1>3, <1>4, <1>5, <1>6

LEMMA ReportQueryInv == ASSUME WorkerInv, ReportQuery PROVE WorkerInv'
<1>a. pc = "exec" /\ todo # <<>> /\ qi \in DOMAIN Item.steps /\ set <= Step.sets + 1
  BY DEF ReportQuery, Position
<1>b. Step.sets \in Nat /\ set \in Nat /\ set > Step.sets /\ queries' = queries + Step.sets
  BY <1>a, CurrentItem DEF ReportQuery, ControlTypeOK, Step
<1>0. /\ pc = "exec" /\ todo # <<>> /\ set = Step.sets + 1
      /\ queries' \in Nat
  BY <1>a, <1>b DEF DataTypeOK
<1>1. CASE Step.wait
  <2>0. pc' = "wait" /\ UNCHANGED <<todo, qi, set, db>>
    BY <1>1 DEF ReportQuery
  <2>1. ControlTypeOK'
    BY <1>1 DEF ReportQuery, ControlTypeOK, PcValues
  <2>2. DataTypeOK'
    BY <1>0 DEF ReportQuery, DataTypeOK
  <2>3. Position'
    BY <1>0, <2>0 DEF Position, Item, Step
  <2>4. NoOpenTxOutside' /\ LocalsAvailable' /\ PendingIsProgress'
    BY <1>0, <2>0 DEF ReportQuery, NoOpenTxOutside, LocalsAvailable, PendingIsProgress, InTry, Item
  <2>5. CommitsAccounted' /\ AllOrNothing'
    BY <1>0, <2>0 DEF ReportQuery, CommitsAccounted, AllOrNothing
  <2> QED BY <2>1, <2>2, <2>3, <2>4, <2>5
<1>2. CASE ~Step.wait
  BY <1>0, <1>2, SectionDoneInv DEF ReportQuery
<1> QED BY <1>1, <1>2

LEMMA QueryWaitInv == ASSUME WorkerInv, QueryWait PROVE WorkerInv'
<1>0. pc = "wait" /\ todo # <<>> /\ set = Step.sets + 1 /\ stats' = stats /\ queries' \in Nat
  BY DEF QueryWait, Position, DataTypeOK
<1>1. CASE SectionFails("ctx")
  BY <1>0, <1>1, SectionFailsInv
<1>2. CASE SectionDone /\ UNCHANGED <<ctxDone, set, attempt, err, iter, failed, txLocals, db>>
  BY <1>0, <1>2, SectionDoneInv
<1> QED BY <1>1, <1>2 DEF QueryWait

(***************************************************************************)
(* The theorems.                                                           *)
(***************************************************************************)
(* WorkerInv holds throughout: one lemma per action of Worker.             *)
THEOREM WorkerInvariant == Spec => []WorkerInv
<1>1. Init => WorkerInv
  BY WorkerInitInv
<1>2. WorkerInv /\ [Next]_vars => WorkerInv'
  <2>1. ASSUME WorkerInv, WorkerStep PROVE WorkerInv'
    BY <2>1, LoopExitInv, StartIterationInv, IterationFailedInv, DispatchInv, BeginTxInv,
       EvalLocalsInv, RollbackIfInv, StartTxQueryInv, StartCommitInv, CommitInv,
       ReportCommitInv, TxWaitInv, ReportRollbackInv, ReportTxErrorInv, RetryInv, BackoffInv,
       GenerateArgsInv, ExecSetInv, ReportQueryInv, QueryWaitInv
       DEF WorkerStep
  <2>2. ASSUME WorkerInv, UNCHANGED vars PROVE WorkerInv'
    BY <2>2, StoppedInv
  <2> QED BY <2>1, <2>2, CancelInv DEF Next, Stopped
<1> QED BY <1>1, <1>2, PTL DEF Spec

(* The worker's state is well typed. *)
THEOREM WorkerTypeCorrect == Spec => []TypeOK
<1>1. WorkerInv => TypeOK
  OBVIOUS
<1> QED BY <1>1, WorkerInvariant, PTL

(* The commits the worker reports are those the database made, but for     *)
(* those whose commit call failed after the fact.                          *)
THEOREM CommitsAreAccounted == Spec => []CommitsAccounted
<1>1. WorkerInv => CommitsAccounted
  OBVIOUS
<1> QED BY <1>1, WorkerInvariant, PTL

(* A committed transaction is the whole transaction, and none of an        *)
(* earlier try.                                                            *)
THEOREM TransactionsAreAllOrNothing == Spec => []AllOrNothing
<1>1. WorkerInv => AllOrNothing
  OBVIOUS
<1> QED BY <1>1, WorkerInvariant, PTL

(* No path out of a try leaves the database transaction open.              *)
THEOREM NoTransactionLeaks == Spec => []NoOpenTxOutside
<1>1. WorkerInv => NoOpenTxOutside
  OBVIOUS
<1> QED BY <1>1, WorkerInvariant, PTL

(* Locals are there whenever a query or condition of their transaction runs.*)
THEOREM LocalsAreAvailable == Spec => []LocalsAvailable
<1>1. WorkerInv => LocalsAvailable
  OBVIOUS
<1> QED BY <1>1, WorkerInvariant, PTL

(* The conditional rollback is final: after one, only its report follows.  *)
THEOREM ConditionalRollbackIsFinal == Spec => RollbackIsFinal
<1>1. ASSUME WorkerInv, [Next]_vars, err = "rollback", pc = "tried"
      PROVE  \/ pc' \in {"tried", "items"} /\ UNCHANGED <<txErrors, queryErrors, attempt>>
             \/ UNCHANGED vars
  <2>1. CASE ReportRollback
    BY <1>1, <2>1 DEF ReportRollback, Position
  <2>2. CASE Cancel
    BY <1>1, <2>2 DEF Cancel
  <2>3. ASSUME WorkerStep PROVE ReportRollback
    BY <1>1, <2>3 DEF WorkerStep, LoopExit, StartIteration, IterationFailed, Dispatch, BeginTx,
       EvalLocals, RollbackIf, StartTxQuery, StartCommit, Commit, ReportCommit, TxWait,
       ReportTxError, Retry, Retryable, Backoff, GenerateArgs, ExecSet, ReportQuery, QueryWait
  <2> QED BY <1>1, <2>1, <2>2, <2>3 DEF Next, Stopped
<1> QED BY <1>1, WorkerInvariant, PTL DEF Spec, RollbackIsFinal

(***************************************************************************)
(* Without retries, fail() is the last thing its worker does: from the     *)
(* call on, the worker is on its way out and starts no iteration.          *)
(***************************************************************************)
FailIsLast == failed => err = "fail" /\ pc \in {"tried", "failed", "stopped"}

THEOREM FailureStopsWorker ==
  ASSUME Retries = 0
  PROVE  Spec => FailStopsWorker
<1>1. Init => FailIsLast
  BY DEF Init, FailIsLast
<1>2. ASSUME WorkerInv, FailIsLast, [Next]_vars PROVE FailIsLast' /\ (failed => iter' = iter)
  <2>1. CASE ~failed /\ failed' # failed
    <3>1. ASSUME NEW e, SectionFails(e) PROVE err' = e /\ pc' \in {"tried", "failed"}
                                             /\ failed' = (failed \/ e = "fail")
      BY <3>1 DEF SectionFails, AbortTry
    <3>2. CASE GenerateArgs \/ ExecSet \/ QueryWait
      BY <2>1, <3>1, <3>2 DEF FailIsLast, GenerateArgs, ExecSet, QueryWait
    <3>3. CASE ~(GenerateArgs \/ ExecSet \/ QueryWait)
      BY <1>2, <2>1, <3>3, FaultsAssumption
         DEF FailIsLast, Next, WorkerStep, LoopExit, StartIteration, IterationFailed, Dispatch,
             BeginTx, EvalLocals, RollbackIf, AbortTry, StartTxQuery, StartCommit, Commit,
             ReportCommit, TxWait, ReportRollback, ReportTxError, Retry, Backoff, ReportQuery,
             Cancel, Stopped, vars
    <3> QED BY <3>2, <3>3
  <2>2. CASE ~failed /\ failed' = failed
    BY <2>2 DEF FailIsLast
  <2>3. CASE failed
    <3>1. err = "fail" /\ pc \in {"tried", "failed", "stopped"} /\ attempt = Retries
      BY <1>2, <2>3, BoundsAssumption DEF FailIsLast, ControlTypeOK
    <3>2. ReportTxError \/ IterationFailed \/ Cancel \/ UNCHANGED vars
      BY <1>2, <3>1 DEF Next, WorkerStep, LoopExit, StartIteration, Dispatch, BeginTx,
         EvalLocals, RollbackIf, StartTxQuery, StartCommit, Commit, ReportCommit, TxWait,
         ReportRollback, Retry, LastTry, Backoff, GenerateArgs, ExecSet, ReportQuery,
         QueryWait, Stopped
    <3> QED BY <2>3, <3>1, <3>2 DEF FailIsLast, ReportTxError, IterationFailed, Cancel, vars
  <2> QED BY <2>1, <2>2, <2>3
<1> QED BY <1>1, <1>2, WorkerInvariant, PTL DEF Spec, FailStopsWorker

(***************************************************************************)
(* The worker implements TxContract: every step of it is a step of the     *)
(* contract or leaves the contract's state alone.  (That a transaction     *)
(* which was started is eventually reported rests on fairness and is       *)
(* checked by TLC.)                                                        *)
(***************************************************************************)
LEMMA ContractStep ==
  ASSUME WorkerInv, [Next]_vars
  PROVE  [Contract!Next]_(Contract!cvars)
<1> USE DEF Contract!Next, Contract!cvars
<1>f. ASSUME NEW e \in {"err", "fail", "ctx", "rollback"}, AbortTry(e), UNCHANGED <<commits, rollbacks, txErrors>>,
             pc \in {"body"} \cup QueryPcs, Item.tx
      PROVE  UNCHANGED Contract!cvars
  BY <1>f DEF AbortTry, TxPhase, InTransaction, InTry
<1>s. ASSUME NEW e \in {"err", "fail", "ctx"}, SectionFails(e), UNCHANGED <<commits, rollbacks, txErrors>>,
             pc \in QueryPcs
      PROVE  UNCHANGED Contract!cvars
  BY <1>s, <1>f DEF SectionFails, TxPhase, InTransaction, InTry, Item
<1>d. ASSUME SectionDone, pc \in {"exec", "wait"},
             UNCHANGED <<err, commits, rollbacks, txErrors, dbCommits, ambiguous>>
      PROVE  UNCHANGED Contract!cvars
  BY <1>d, CurrentItem DEF SectionDone, Position, TxPhase, InTransaction, InTry, Item
<1>1. CASE LoopExit \/ StartIteration \/ IterationFailed \/ BeginTx \/ EvalLocals
           \/ StartTxQuery \/ StartCommit \/ TxWait \/ Backoff \/ Cancel \/ UNCHANGED vars
  BY <1>1, FaultsAssumption
     DEF LoopExit, StartIteration, IterationFailed, BeginTx, EvalLocals, StartTxQuery,
         StartCommit, TxWait, Backoff, Cancel, vars, Position, TxPhase, InTransaction, InTry, Item
<1>2. CASE Dispatch
  BY <1>2, CurrentItem DEF Dispatch, Contract!Start, Position, TxPhase, InTransaction, InTry, Item
<1>3. CASE RollbackIf
  BY <1>3, <1>f, FaultsAssumption
     DEF RollbackIf, Position, TxPhase, InTransaction, InTry, Item
<1>4. CASE Commit
  BY <1>4, FaultsAssumption
     DEF Commit, MakeDurable, Contract!Commit, Contract!AmbiguousCommit, TxPhase, InTransaction,
         InTry
<1>5. CASE ReportCommit
  BY <1>5 DEF ReportCommit, Contract!ReportCommit, TxPhase, InTransaction, InTry
<1>6. CASE ReportRollback
  BY <1>6 DEF ReportRollback, Contract!ReportRollback, TxPhase, InTransaction, InTry
<1>7. CASE ReportTxError
  BY <1>7 DEF ReportTxError, Retryable, Contract!ReportError, TxPhase, InTransaction, InTry
<1>8. CASE Retry
  BY <1>8 DEF Retry, Retryable, TxPhase, InTransaction, InTry
<1>9. CASE GenerateArgs \/ ExecSet
  BY <1>9, <1>s, FaultsAssumption
     DEF GenerateArgs, ExecSet, ReportQueryError, TxPhase, InTransaction, InTry, Item
<1>10. CASE ReportQuery
  BY <1>10, <1>d DEF ReportQuery, TxPhase, InTransaction, InTry, Item
<1>11. CASE QueryWait
  BY <1>11, <1>d, <1>s DEF QueryWait
<1> QED BY <1>1, <1>2, <1>3, <1>4, <1>5, <1>6, <1>7, <1>8, <1>9, <1>10, <1>11
        DEF Next, WorkerStep, Stopped

(* The safety part of ImplementsContract. *)
THEOREM WorkerImplementsContract ==
  Spec => Contract!Init /\ [][Contract!Next]_(Contract!cvars)
<1>1. Init => Contract!Init
  BY DEF Init, Contract!Init, TxPhase, InTransaction, InTry
<1> QED BY <1>1, ContractStep, WorkerInvariant, PTL DEF Spec
=============================================================================
