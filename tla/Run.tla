--------------------------------- MODULE Run ---------------------------------
(***************************************************************************)
(* The two ways to run the workload (cmd/edg/run.go) over the goroutines   *)
(* of Pipeline.  Without stages (runStage) workers and background workers  *)
(* start together under the context of the run, which a timer cancels.  In *)
(* stages (runStages) one goroutine starts the background workers under a  *)
(* context of their own, goes through the stages, each with fresh workers  *)
(* and a timeout, and stops the background workers.  Either way a          *)
(* goroutine, the driver, closes the results channel when all are done.    *)
(***************************************************************************)
EXTENDS Pipeline, Integers

CONSTANT StageWorkers  (* workers of each stage as configured: 0 or less    *)
                       (* when the count is left out, meaning 1             *)

ASSUME StagesAssumption == /\ StageWorkers \in Seq(Int)
                           /\ \A k \in DOMAIN StageWorkers :
                                StageWorkers[k] <= Cardinality(Workers)

VARIABLES
  stage,   (* the stages started so far                                     *)
  driver,  (* where the goroutine is: "check" at the head of its loop,      *)
           (* "start" past it, "wait" for workers, "drain" for background   *)
           (* ones, or "done"                                               *)
  doomed,  (* history: the stage was started when the run was cancelled     *)
  last     (* history: stage of the last worker result collected            *)

vars == <<pvars, stage, driver, doomed, last>>

WorkersOf(k) ==
  {W \in SUBSET Workers : Cardinality(W) = (IF StageWorkers[k] <= 0 THEN 1 ELSE StageWorkers[k])}

Init ==
  /\ PipelineInit
  /\ pc = [g \in Goroutines |-> IF staged /\ g \in Workers THEN "idle" ELSE "starting"]
  /\ stage = 0 /\ driver = (IF staged THEN "check" ELSE "wait")
  /\ doomed = FALSE /\ last = 0

-----------------------------------------------------------------------------
(* runStage *)

TimerReturns == (* mutant: the timer goroutine returns without calling cancel *)
  /\ ~staged /\ clock = "over" /\ "run" \notin done
  /\ UNCHANGED vars

(* time.After(warmup + duration) won the timer goroutine's select. *)
TimerFires ==
  /\ ~staged /\ clock = "over" /\ "run" \notin done
  /\ done' = done \cup {"run"}
  /\ UNCHANGED <<staged, clock, goroutines, chan, closed, inStage, collected, stage, driver, doomed, last>>

WaitWorkers ==
  /\ ~staged /\ driver = "wait" /\ \A w \in Workers : pc[w] = "stopped"
  /\ driver' = "drain"
  /\ UNCHANGED <<pvars, stage, doomed, last>>

-----------------------------------------------------------------------------
(* runStages *)

(* The head of the loop over the stages. *)
CheckNoStage == (* mutant: no ctx.Err() check at the head of the loop *)
  /\ driver = "check" /\ stage < Len(StageWorkers)
  /\ driver' = "start"
  /\ UNCHANGED <<pvars, stage, doomed, last>>

CheckStage ==
  /\ driver = "check" /\ stage < Len(StageWorkers) /\ ~Done("run")
  /\ driver' = "start"
  /\ UNCHANGED <<pvars, stage, doomed, last>>

(* stageCtx is a fresh context under that of the run, which may have been  *)
(* cancelled since the check; the one of the last stage was cancelled      *)
(* after its workers.                                                      *)
StartStage ==
  /\ driver = "start" /\ driver' = "wait"
  /\ stage' = stage + 1 /\ doomed' = Done("run")
  /\ done' = done \ {"stage"}
  /\ \E W \in WorkersOf(stage + 1) :
       /\ pc' = [g \in Goroutines |-> IF g \in W THEN "starting" ELSE pc[g]]
       /\ inStage' = [g \in Goroutines |-> IF g \in W THEN stage + 1 ELSE inStage[g]]
  /\ late' = [w \in Workers |-> 0]
  /\ UNCHANGED <<staged, clock, left, sent, chan, closed, collected, last>>

(* The stage's duration is over. *)
StageTimeout ==
  /\ staged /\ driver = "wait" /\ "stage" \notin done
  /\ done' = done \cup {"stage"}
  /\ UNCHANGED <<staged, clock, goroutines, chan, closed, inStage, stage, collected, driver, doomed, last>>

StageOverTimeout == (* mutant: wg.Wait is left out, the timeout ends the stage *)
  /\ staged /\ driver = "wait" /\ "stage" \in done
  /\ driver' = "check"
  /\ UNCHANGED <<staged, done, clock, goroutines, chan, closed, inStage, stage, collected, doomed, last>>

StageOverCancelsAll == (* mutant: bgCancel instead of stageCancel *)
  /\ staged /\ driver = "wait" /\ \A w \in Workers : Quiet(w)
  /\ driver' = "check" /\ done' = done \cup {"background"}
  /\ UNCHANGED <<staged, clock, goroutines, chan, closed, inStage, stage, collected, doomed, last>>

StageOver ==
  /\ staged /\ driver = "wait" /\ \A w \in Workers : Quiet(w)
  /\ driver' = "check" /\ done' = done \cup {"stage"}
  /\ UNCHANGED <<staged, clock, goroutines, chan, closed, inStage, stage, collected, doomed, last>>

StopBackground ==
  /\ driver = "check" /\ (stage = Len(StageWorkers) \/ Done("run"))
  /\ driver' = "drain" /\ done' = done \cup {"background"}
  /\ UNCHANGED <<staged, clock, goroutines, chan, closed, inStage, stage, collected, doomed, last>>

-----------------------------------------------------------------------------
CloseEarly == (* mutant: the closer does not wait for the background workers *)
  /\ driver = "drain"
  /\ driver' = "done" /\ closed' = TRUE
  /\ UNCHANGED <<staged, done, clock, goroutines, chan, inStage, stage, collected, doomed, last>>

(* bgWg.Wait, and the results channel is closed. *)
Close ==
  /\ driver = "drain" /\ \A b \in Background : pc[b] = "stopped"
  /\ driver' = "done" /\ closed' = TRUE
  /\ UNCHANGED <<staged, done, clock, goroutines, chan, inStage, stage, collected, doomed, last>>

(* The steps of Pipeline leave the driver alone. *)
Work(g) == GoroutineStep(g) /\ UNCHANGED <<stage, driver, doomed, last>>
Exit(g) == LoopExit(g) /\ UNCHANGED <<stage, driver, doomed, last>>
Clock   == TimePasses /\ UNCHANGED <<stage, driver, doomed, last>>
Collect ==
  /\ CollectorStep /\ UNCHANGED <<stage, driver, doomed>>
  /\ last' = IF chan' # chan /\ Head(chan).by \in Workers THEN Head(chan).stage ELSE last

Returned == collector = "returned" /\ UNCHANGED vars

Next ==
  \/ \E g \in Goroutines : Work(g)
  \/ Collect \/ Clock \/ (Interrupt /\ UNCHANGED <<stage, driver, doomed, last>>)
  \/ TimerFires \/ WaitWorkers
  \/ CheckStage \/ StartStage \/ StageTimeout \/ StageOver \/ StopBackground \/ Close
  \/ Returned

Spec == Init /\ [][Next]_vars

(***************************************************************************)
(* Every goroutine runs, time passes, timers fire, and a background worker *)
(* whose context is done does not choose its ticker for ever: Go's select  *)
(* picks among the ready cases at random.                                  *)
(***************************************************************************)
Fairness ==
  /\ \A g \in Goroutines : WF_vars(Work(g)) /\ SF_vars(Exit(g))
  /\ WF_vars(Collect) /\ WF_vars(Clock)
  /\ WF_vars(TimerFires) /\ WF_vars(WaitWorkers) /\ WF_vars(StageTimeout)
  /\ WF_vars(CheckStage) /\ WF_vars(StartStage) /\ WF_vars(StageOver) /\ WF_vars(StopBackground) /\ WF_vars(Close)

FairSpec == Spec /\ Fairness

-----------------------------------------------------------------------------
(* Stages run one after the other: the results of the workers reach the    *)
(* collector stage by stage, although those of a stage may still be in the *)
(* channel when the next one starts.                                       *)
StageOrder == [][last' >= last]_vars

(* docs/content/docs/configuration/run-weights-and-workers.md:87: in       *)
(* staged mode the background workers run for the entire duration across   *)
(* all stages: none stops because its context is done before the workers   *)
(* of the last stage have stopped.                                         *)
BackgroundSpansStages ==
  [][staged => \A b \in Background :
       pc[b] \in {"loop", "errored"} /\ pc'[b] = "stopped"
         => Done("run") \/ (stage = Len(StageWorkers) /\ \A w \in Workers : Quiet(w))]_vars

(* A stage that is started although Ctrl+C came after the loop's check is  *)
(* the last one, and its workers, who start under a context that is done,  *)
(* send nothing.                                                           *)
LateStageIsIdle ==
  [][doomed => stage' = stage /\ \A w \in Workers : sent'[w] = sent[w]]_vars

Contract ==
  INSTANCE RunContract
    WITH Producers <- Goroutines, produced <- sent,
         collected <- [g \in Goroutines |-> counted[g] + discarded[g]],
         returned  <- collector = "returned"

(* The run returns, with every result of every stage collected, whatever   *)
(* timers, Ctrl+C, fail() and a full channel do.                           *)
ImplementsContract == Contract!Spec
=============================================================================
