------------------------------- MODULE Worker -------------------------------
(***************************************************************************)
(* One worker goroutine of the run section: the loop of startWorkers       *)
(* (cmd/edg/run.go), the choice of the items of an iteration               *)
(* (RunIteration, pickWeighted), standalone queries and transactions with  *)
(* their locals, rollback_if conditions, retries and waits                 *)
(* (pkg/env/env_worker.go, runSection of pkg/env/env_query.go).            *)
(*                                                                         *)
(* The database and the expressions are the environment: a call succeeds   *)
(* or fails with one of the error kinds below.  Results are counted the    *)
(* way the collector counts them once they arrive; the channel between     *)
(* the two is the subject of Pipeline.                                     *)
(***************************************************************************)
EXTENDS Naturals, Sequences

CONSTANTS
  Items,       (* the run section: records [tx, locals, wait, steps], where *)
               (* steps is a sequence of [cond, sets, wait]: a rollback_if  *)
               (* or a query with its number of argument sets               *)
  RunWeights,  (* weight of the items run_weights lists; empty: not used    *)
  Retries,     (* the --retries flag                                        *)
  EvalFaults,  (* how an expression may fail: "err", or "fail" for fail()   *)
  DbFaults,    (* how a database call may fail: "err"                       *)
  MaxIters     (* bound: iterations the worker starts                       *)

Kinds == {"err", "fail", "ctx"}

ASSUME ItemsAssumption ==
  /\ Items \in Seq([tx : BOOLEAN, locals : BOOLEAN, wait : BOOLEAN,
                    steps : Seq([cond : BOOLEAN, sets : Nat, wait : BOOLEAN])])
  /\ \A i \in DOMAIN Items :
       /\ Items[i].steps # <<>>
       /\ ~Items[i].tx => Len(Items[i].steps) = 1 /\ ~Items[i].steps[1].cond
ASSUME WeightsAssumption ==
  /\ DOMAIN RunWeights \subseteq DOMAIN Items
  /\ \A i \in DOMAIN RunWeights : RunWeights[i] \in Nat
ASSUME FaultsAssumption  == EvalFaults \subseteq {"err", "fail"} /\ DbFaults \subseteq {"err"}
ASSUME BoundsAssumption  == Retries \in Nat /\ MaxIters \in Nat

VARIABLES
  ctxDone,     (* the context of the run is cancelled                       *)
  pc,          (* where the goroutine is                                    *)
  todo,        (* items left in this iteration, the current one first       *)
  qi,          (* the step of the current item                              *)
  set,         (* the argument set of the current query                     *)
  attempt,     (* number of the current try of the transaction, from 0      *)
  err,         (* what the last call returned                               *)
  txLocals,    (* Env.txLocals: "nil", or "map" once evalLocals made one    *)
  dbTx,        (* "none", or "open" between BEGIN and its end               *)
  pending,     (* statements executed in the open transaction               *)
  iter,        (* iterations started                                        *)
  failed       (* history: fail() was raised                                *)

(* What the collector has been told. *)
VARIABLES queries, queryErrors, commits, rollbacks, txErrors

(* History of the database: commits, those reported as errors, and what    *)
(* each commit made durable.                                               *)
VARIABLES dbCommits, ambiguous, durable

control == <<pc, todo, qi, set, attempt, err, iter, failed>>
stats   == <<queries, queryErrors, commits, rollbacks, txErrors>>
db      == <<dbTx, pending, dbCommits, ambiguous, durable>>
vars    == <<ctxDone, control, txLocals, stats, db>>

-----------------------------------------------------------------------------
Item == Items[Head(todo)]
Step == Item.steps[qi]

(* All items in order without run_weights, or when no listed item has a    *)
(* weight; otherwise one of the items with a positive weight.              *)
Iterations ==
  LET listed == {i \in DOMAIN RunWeights : RunWeights[i] > 0} IN
  IF listed = {} THEN {[i \in DOMAIN Items |-> i]} ELSE {<<i>> : i \in listed}

(* The statements a transaction executes when it goes through. *)
Statements(i) ==
  UNION {{<<q, k>> : k \in 1 .. Items[i].steps[q].sets} :
           q \in {q \in DOMAIN Items[i].steps : ~Items[i].steps[q].cond}}

(* A call that takes the context may fail once it is cancelled. *)
DbErrors == DbFaults \cup (IF ctxDone THEN {"ctx"} ELSE {})

Init ==
  /\ ctxDone = FALSE /\ pc = "loop" /\ todo = <<>> /\ qi = 1 /\ set = 1
  /\ attempt = 0 /\ err = "nil" /\ txLocals = "nil" /\ iter = 0 /\ failed = FALSE
  /\ dbTx = "none" /\ pending = {}
  /\ queries = 0 /\ queryErrors = 0 /\ commits = 0 /\ rollbacks = 0 /\ txErrors = 0
  /\ dbCommits = 0 /\ ambiguous = 0 /\ durable = {}

-----------------------------------------------------------------------------
(* Updates that several handlers share.                                    *)

Goto(l) == pc' = l

Raise(e) == /\ err' = e
            /\ failed' = (failed \/ e = "fail")

(* Both ends of a try: the database forgets or keeps the pending work.     *)
EndTx == dbTx' = "none" /\ pending' = {}

(* clearLocals, deferred by tryTransaction when the transaction has locals.*)
ClearLocals == txLocals' = IF Item.locals THEN "nil" ELSE txLocals

(* The try is over with an error: rollback, deferred clearLocals, return.  *)
AbortTry(e) ==
  /\ EndTx /\ ClearLocals /\ Raise(e) /\ Goto("tried")
  /\ UNCHANGED <<ctxDone, todo, qi, set, attempt, iter, dbCommits, ambiguous, durable>>

(* The current item is done: on to the next one. *)
NextItem == todo' = Tail(todo) /\ Goto("items")

-----------------------------------------------------------------------------
(* The worker's loop.                                                      *)

LoopExitDrained == (* mutant: leaves only after a complete iteration *)
  /\ pc = "loop" /\ ctxDone /\ todo = <<>> /\ Goto("stopped")
  /\ UNCHANGED <<ctxDone, todo, qi, set, attempt, err, iter, failed, txLocals, stats, db>>

LoopExit ==
  /\ pc = "loop" /\ ctxDone /\ Goto("stopped")
  /\ UNCHANGED <<ctxDone, todo, qi, set, attempt, err, iter, failed, txLocals, stats, db>>

StartIteration ==
  /\ pc = "loop" /\ ~ctxDone /\ iter < MaxIters
  /\ todo' \in Iterations
  /\ iter' = iter + 1 /\ Goto("items")
  /\ UNCHANGED <<ctxDone, qi, set, attempt, err, failed, txLocals, stats, db>>

(* An iteration returned an error: the worker stops when the context is    *)
(* cancelled or the error is fail()'s, and goes on otherwise.              *)
IterationFailed ==
  /\ pc = "failed"
  /\ Goto(IF ctxDone \/ err = "fail" THEN "stopped" ELSE "loop")
  /\ UNCHANGED <<ctxDone, todo, qi, set, attempt, err, iter, failed, txLocals, stats, db>>

(* runRunItems: dispatch on the item, or return when none is left.         *)
Dispatch ==
  /\ pc = "items"
  /\ \/ todo = <<>> /\ Goto("loop") /\ UNCHANGED <<qi, set, attempt>>
     \/ /\ todo # <<>> /\ ~Item.tx
        /\ Goto("args") /\ qi' = 1 /\ set' = 1 /\ UNCHANGED attempt
     \/ /\ todo # <<>> /\ Item.tx
        /\ Goto("begin") /\ attempt' = 0 /\ UNCHANGED <<qi, set>>
  /\ UNCHANGED <<ctxDone, todo, err, iter, failed, txLocals, stats, db>>

-----------------------------------------------------------------------------
(* runTransaction and tryTransaction.                                      *)

BeginTx ==
  /\ pc = "begin"
  /\ \/ /\ dbTx' = "open" /\ pending' = {} /\ qi' = 1
        /\ Goto(IF Item.locals THEN "locals" ELSE "body")
        /\ UNCHANGED <<err, failed>>
     \/ /\ \E e \in DbErrors : Raise(e)
        /\ Goto("tried") /\ UNCHANGED <<dbTx, pending, qi>>
  /\ UNCHANGED <<ctxDone, todo, set, attempt, iter, txLocals, stats,
                 dbCommits, ambiguous, durable>>

EvalLocalsNoRollback == (* mutant: the error path forgets the rollback *)
  /\ pc = "locals" /\ txLocals' = "map"
  /\ \/ Goto("body") /\ UNCHANGED <<err, failed>>
     \/ (\E e \in EvalFaults : Raise(e)) /\ Goto("tried")
  /\ UNCHANGED <<ctxDone, todo, qi, set, attempt, iter, stats, db>>

(* evalLocals makes the map first and fills it as it goes.  Its error path *)
(* rolls back and returns before clearLocals is deferred.                  *)
EvalLocals ==
  /\ pc = "locals" /\ txLocals' = "map"
  /\ \/ Goto("body") /\ UNCHANGED <<err, failed, dbTx, pending>>
     \/ (\E e \in EvalFaults : Raise(e)) /\ EndTx /\ Goto("tried")
  /\ UNCHANGED <<ctxDone, todo, qi, set, attempt, iter, stats,
                 dbCommits, ambiguous, durable>>

(* runTransactionQueries: a rollback_if that holds ends the try with       *)
(* ErrConditionalRollback, one that does not is passed.                    *)
RollbackIf ==
  /\ pc = "body" /\ qi <= Len(Item.steps) /\ Step.cond
  /\ \/ \E e \in EvalFaults \cup {"rollback"} : AbortTry(e)
     \/ /\ qi' = qi + 1
        /\ UNCHANGED <<ctxDone, pc, todo, set, attempt, err, iter, failed, txLocals, db>>
  /\ UNCHANGED stats

StartTxQueryClears == (* mutant: locals are cleared before every query *)
  /\ pc = "body" /\ qi <= Len(Item.steps) /\ ~Step.cond
  /\ Goto("args") /\ set' = 1 /\ txLocals' = "nil"
  /\ UNCHANGED <<ctxDone, todo, qi, attempt, err, iter, failed, stats, db>>

StartTxQuery ==
  /\ pc = "body" /\ qi <= Len(Item.steps) /\ ~Step.cond
  /\ Goto("args") /\ set' = 1
  /\ UNCHANGED <<ctxDone, todo, qi, attempt, err, iter, failed, txLocals, stats, db>>

StartCommit ==
  /\ pc = "body" /\ qi > Len(Item.steps)
  /\ Goto("commit")
  /\ UNCHANGED <<ctxDone, todo, qi, set, attempt, err, iter, failed, txLocals, stats, db>>

(* The commit is kept, lost, or kept although the driver reports an error. *)
MakeDurable ==
  /\ dbCommits' = dbCommits + 1
  /\ durable' = durable \cup {[item |-> Head(todo), statements |-> pending]}

CommitUnchecked == (* mutant: the error of Commit is dropped *)
  /\ pc = "commit" /\ Goto("tried") /\ EndTx /\ ClearLocals /\ err' = "nil"
  /\ MakeDurable \/ (DbErrors # {} /\ UNCHANGED <<dbCommits, durable>>)
  /\ UNCHANGED <<ctxDone, todo, qi, set, attempt, iter, failed, ambiguous, stats>>

Commit ==
  /\ pc = "commit" /\ Goto("tried") /\ EndTx /\ ClearLocals
  /\ \/ err' = "nil" /\ MakeDurable /\ UNCHANGED <<failed, ambiguous>>
     \/ (\E e \in DbErrors : Raise(e)) /\ UNCHANGED <<dbCommits, durable, ambiguous>>
     \/ (\E e \in DbErrors : Raise(e)) /\ MakeDurable /\ ambiguous' = ambiguous + 1
  /\ UNCHANGED <<ctxDone, todo, qi, set, attempt, iter, stats>>

(* After a try: success and conditional rollback are reported and end the  *)
(* transaction; an error is retried while the context lives and retries    *)
(* are left, and reported after the last of them.                          *)
ReportCommit ==
  /\ pc = "tried" /\ err = "nil"
  /\ commits' = commits + 1
  /\ IF Item.wait THEN Goto("txwait") /\ UNCHANGED todo ELSE NextItem
  /\ UNCHANGED <<ctxDone, qi, set, attempt, err, iter, failed, txLocals, db,
                 queries, queryErrors, rollbacks, txErrors>>

TxWait ==
  /\ pc = "txwait"
  /\ \/ NextItem /\ UNCHANGED err
     \/ ctxDone /\ err' = "ctx" /\ Goto("failed") /\ UNCHANGED todo
  /\ UNCHANGED <<ctxDone, qi, set, attempt, iter, failed, txLocals, stats, db>>

ReportRollback ==
  /\ pc = "tried" /\ err = "rollback"
  /\ rollbacks' = rollbacks + 1 /\ NextItem
  /\ UNCHANGED <<ctxDone, qi, set, attempt, err, iter, failed, txLocals, db,
                 queries, queryErrors, commits, txErrors>>

(* Neither success nor ErrConditionalRollback. *)
RetryableAny == err # "nil" (* mutant: no errors.Is(ErrConditionalRollback) *)
Retryable == err \in Kinds

LastTryOffByOne == ctxDone \/ attempt = Retries + 1 (* mutant *)
LastTry == ctxDone \/ attempt = Retries

ReportTxError ==
  /\ pc = "tried" /\ Retryable /\ LastTry
  /\ txErrors' = txErrors + 1 /\ Goto("failed")
  /\ UNCHANGED <<ctxDone, todo, qi, set, attempt, err, iter, failed, txLocals, db,
                 queries, queryErrors, commits, rollbacks>>

RetryReports == (* mutant: every failed try is reported *)
  /\ pc = "tried" /\ Retryable /\ ~LastTry
  /\ attempt' = attempt + 1 /\ Goto("backoff") /\ txErrors' = txErrors + 1
  /\ UNCHANGED <<ctxDone, todo, qi, set, err, iter, failed, txLocals, db,
                 queries, queryErrors, commits, rollbacks>>

Retry ==
  /\ pc = "tried" /\ Retryable /\ ~LastTry
  /\ attempt' = attempt + 1 /\ Goto("backoff")
  /\ UNCHANGED <<ctxDone, todo, qi, set, err, iter, failed, txLocals, stats, db>>

(* The select ends on the timer or on the context; its break leaves only   *)
(* the select, so the next try starts either way.                          *)
Backoff ==
  /\ pc = "backoff" /\ Goto("begin")
  /\ UNCHANGED <<ctxDone, todo, qi, set, attempt, err, iter, failed, txLocals, stats, db>>

-----------------------------------------------------------------------------
(* runSection on the one query of a step.                                  *)

(* How runSection returns to its caller: on to the next step or item, or   *)
(* out of the try or the iteration with the error.                         *)
SectionDone ==
  IF Item.tx THEN qi' = qi + 1 /\ Goto("body") /\ UNCHANGED todo
             ELSE NextItem /\ UNCHANGED qi

SectionFailsUnseen(e) == (* mutant: runTransactionQueries goes on after an error *)
  \/ /\ Item.tx /\ qi' = qi + 1 /\ Raise(e) /\ Goto("body")
     /\ UNCHANGED <<ctxDone, todo, set, attempt, iter, txLocals, db>>
  \/ /\ ~Item.tx /\ Raise(e) /\ Goto("failed")
     /\ UNCHANGED <<ctxDone, todo, qi, set, attempt, iter, txLocals, db>>

SectionFails(e) ==
  \/ Item.tx /\ AbortTry(e)
  \/ /\ ~Item.tx /\ Raise(e) /\ Goto("failed")
     /\ UNCHANGED <<ctxDone, todo, qi, set, attempt, iter, txLocals, db>>

ReportQueryError ==
  /\ queryErrors' = queryErrors + 1
  /\ UNCHANGED <<queries, commits, rollbacks, txErrors>>

GenerateArgs ==
  /\ pc = "args"
  /\ \/ /\ Goto("exec")
        /\ UNCHANGED <<ctxDone, todo, qi, set, attempt, err, iter, failed, txLocals, stats, db>>
     \/ (\E e \in EvalFaults : SectionFails(e)) /\ ReportQueryError

(* One statement per argument set; the first error ends the query.  A      *)
(* statement outside a transaction is durable at once.                     *)
ExecSet ==
  /\ pc = "exec" /\ set <= Step.sets
  /\ \/ /\ set' = set + 1
        /\ pending' = IF Item.tx THEN pending \cup {<<qi, set>>} ELSE pending
        /\ UNCHANGED <<ctxDone, pc, todo, qi, attempt, err, iter, failed, txLocals,
                       stats, dbTx, dbCommits, ambiguous, durable>>
     \/ (\E e \in DbErrors : SectionFails(e)) /\ ReportQueryError

ReportQuery ==
  /\ pc = "exec" /\ set > Step.sets
  /\ queries' = queries + Step.sets
  /\ IF Step.wait THEN Goto("wait") /\ UNCHANGED <<todo, qi>> ELSE SectionDone
  /\ UNCHANGED <<ctxDone, set, attempt, err, iter, failed, txLocals, db,
                 queryErrors, commits, rollbacks, txErrors>>

(* The wait of a query ends on its timer, or with the context's error.     *)
QueryWait ==
  /\ pc = "wait"
  /\ \/ SectionDone
        /\ UNCHANGED <<ctxDone, set, attempt, err, iter, failed, txLocals, db>>
     \/ ctxDone /\ SectionFails("ctx")
  /\ UNCHANGED stats

-----------------------------------------------------------------------------
(* The timer of the run or Ctrl+C cancels the context at any moment.       *)
Cancel ==
  /\ ~ctxDone /\ pc # "stopped" /\ ctxDone' = TRUE
  /\ UNCHANGED <<control, txLocals, stats, db>>

WorkerStep ==
  \/ LoopExit \/ StartIteration \/ IterationFailed \/ Dispatch
  \/ BeginTx \/ EvalLocals \/ RollbackIf \/ StartTxQuery \/ StartCommit \/ Commit
  \/ ReportCommit \/ TxWait \/ ReportRollback \/ ReportTxError \/ Retry \/ Backoff
  \/ GenerateArgs \/ ExecSet \/ ReportQuery \/ QueryWait

(* The goroutine has returned. *)
Stopped == pc = "stopped" /\ UNCHANGED vars

Next == WorkerStep \/ Cancel \/ Stopped

Spec == Init /\ [][Next]_vars

(* Database calls, waits and expressions return, so an enabled step of the *)
(* goroutine is eventually taken, and the run is cancelled at some point:  *)
(* its timer fires.                                                        *)
FairSpec == Spec /\ WF_vars(WorkerStep) /\ WF_vars(Cancel)

-----------------------------------------------------------------------------
PcValues ==
  {"loop", "items", "failed", "stopped", "begin", "locals", "body", "commit", "tried",
   "backoff", "txwait", "args", "exec", "wait"}

ControlTypeOK ==
  /\ ctxDone \in BOOLEAN /\ failed \in BOOLEAN
  /\ pc \in PcValues
  /\ todo \in Seq(DOMAIN Items)
  /\ qi \in Nat \ {0} /\ set \in Nat \ {0} /\ iter \in 0 .. MaxIters
  /\ attempt \in 0 .. Retries
  /\ err \in Kinds \cup {"nil", "rollback"}
  /\ txLocals \in {"nil", "map"} /\ dbTx \in {"none", "open"}

DataTypeOK ==
  /\ queries \in Nat /\ queryErrors \in Nat
  /\ commits \in Nat /\ rollbacks \in Nat /\ txErrors \in Nat
  /\ dbCommits \in Nat /\ ambiguous \in Nat
  /\ pending \subseteq Nat \X Nat
  /\ \A d \in durable : d.item \in DOMAIN Items /\ d.statements \subseteq Nat \X Nat

(* Shape of the state. *)
TypeOK == ControlTypeOK /\ DataTypeOK

(* The goroutine is inside a try of the current item, a transaction. *)
InTry ==
  \/ pc \in {"locals", "body", "commit"}
  \/ pc \in {"args", "exec", "wait"} /\ Item.tx

(* A transaction that retries is still the same transaction. *)
InTransaction == InTry \/ pc \in {"begin", "tried", "backoff"}

(* Reported commits are commits of the database: the two counts differ     *)
(* only by the commit about to be reported and by those the driver         *)
(* reported as errors, whatever was retried or rolled back around them.    *)
CommitsAccounted ==
  dbCommits = commits + ambiguous + (IF pc = "tried" /\ err = "nil" THEN 1 ELSE 0)

(* A transaction is all or nothing: whatever a commit made durable is      *)
(* every statement of the transaction, once, and nothing of an earlier try.*)
AllOrNothing == \A d \in durable : d.statements = Statements(d.item)

(* Every way out of a try ends the database transaction, so none is open   *)
(* while the worker backs off, waits, dispatches or stops, and its         *)
(* connection is back in the pool.                                         *)
NoOpenTxOutside == dbTx = "open" <=> InTry

(* While the queries of a transaction with locals run, the locals are      *)
(* there: no retry, failed query or nested section clears them.            *)
LocalsAvailable == InTry /\ pc # "locals" /\ Item.locals => txLocals = "map"

(* The conditional rollback of a rollback_if is final: it is neither       *)
(* retried nor counted as an error (docs: "not treated as an error").      *)
RollbackIsFinal ==
  [][err = "rollback" /\ pc = "tried" =>
       /\ pc' \in {"tried", "items"}
       /\ UNCHANGED <<txErrors, queryErrors, attempt>>]_vars

(* TxContract, seen through this worker.                                   *)
TxPhase ==
  CASE pc = "tried" /\ err = "nil" -> "committed"
    [] InTransaction /\ ~(pc = "tried" /\ err = "nil") -> "trying"
    [] OTHER -> "idle"

Contract == INSTANCE TxContract WITH phase <- TxPhase, errors <- txErrors

ImplementsContract == Contract!Spec

(* fail() stops its worker: no iteration starts after it was raised (docs/ *)
(* content/docs/expressions/_index.md:41).  True without retries.          *)
FailStopsWorker == [][failed => iter' = iter]_vars

(* A cancelled worker stops: no wait, backoff, retry or item list keeps it.*)
CancelStops == ctxDone ~> pc = "stopped"
=============================================================================
