------------------------------ MODULE Pipeline ------------------------------
(***************************************************************************)
(* The goroutines of a run of the workload (cmd/edg/run.go): workers       *)
(* and background workers that put results in a bounded channel, and the   *)
(* collector that takes them out (printResults, cmd/edg/stats.go).  How an *)
(* iteration comes to its results and its outcome is the subject of        *)
(* Worker; here it is a burst of results and one of three outcomes.        *)
(*                                                                         *)
(* Run adds the goroutine that waits for the workers and closes the        *)
(* channel, and everything that cancels a context.                         *)
(***************************************************************************)
EXTENDS Naturals, Sequences, FiniteSets

CONSTANTS
  Workers,       (* worker goroutines                                       *)
  Background,    (* background workers, one per entry of the workers section*)
  Cap,           (* capacity of the results channel                         *)
  Warmup,        (* --warmup-duration is given                              *)
  Bursts,        (* bound: results of one iteration, with stages or without *)
  Results,       (* bound: results of one worker, with stages or without    *)
  Ticks          (* bound: results of one background worker                 *)

Goroutines == Workers \cup Background

ASSUME GoroutinesAssumption == Workers \cap Background = {}
ASSUME SizesAssumption      == /\ Cap \in Nat \ {0} /\ Bursts \in [BOOLEAN -> Nat \ {0}]
                               /\ Results \in [BOOLEAN -> Nat] /\ Ticks \in Nat /\ Warmup \in BOOLEAN

VARIABLES
  staged,    (* the configuration has stages                                *)
  done,      (* contexts whose cancel function was called                   *)
  clock,     (* "warmup", then "measured" time, then "over"                 *)
  pc,        (* pc[g]: where goroutine g is                                 *)
  left,      (* left[g]: results its iteration still has to send            *)
  chan,      (* the results channel: who sent, and in which stage           *)
  closed,    (* close(results) was called                                   *)
  inStage,   (* history: inStage[g], the stage g was started in, or 0       *)
  collector, (* "select" or "returned": where printResults is               *)
  warmingUp, (* its flag                                                    *)
  sent,      (* history: results g sent                                     *)
  late,      (* history: iterations a worker ended after its context's end  *)
  counted,   (* history: those the collector put into the statistics        *)
  discarded  (* history: those it dropped because it was warming up         *)

goroutines == <<pc, left, sent, late>>
collected  == <<collector, warmingUp, counted, discarded>>
pvars      == <<staged, done, clock, goroutines, chan, closed, inStage, collected>>

-----------------------------------------------------------------------------
Burst      == Bursts[staged]
MaxResults == Results[staged]

(* Without stages all work under the context of the run. *)
WorkerCtx     == IF staged THEN "stage" ELSE "run"
BackgroundCtx == IF staged THEN "background" ELSE "run"

(* A context is done when it or its parent, that of the run, is cancelled. *)
Done(c) == done \cap {c, "run"} # {}

(* Finished goroutines; "idle" ones have not been started. *)
Quiet(g) == pc[g] \in {"idle", "stopped"}

PipelineInit ==
  /\ staged \in BOOLEAN
  /\ done = {} /\ clock = IF Warmup THEN "warmup" ELSE "measured"
  /\ left = [g \in Goroutines |-> 0]
  /\ chan = <<>> /\ closed = FALSE
  /\ collector = "select" /\ warmingUp = Warmup
  /\ sent = [g \in Goroutines |-> 0] /\ late = [w \in Workers |-> 0]
  /\ counted = [g \in Goroutines |-> 0] /\ discarded = [g \in Goroutines |-> 0]
  /\ inStage = [g \in Goroutines |-> 0]

Move(g, from, to) == pc[g] = from /\ pc' = [pc EXCEPT ![g] = to]

(* A goroutine starts by creating its environment, and ends without a      *)
(* result when that fails.                                                 *)
CreateEnv(g) ==
  /\ Move(g, "starting", "loop") \/ Move(g, "starting", "stopped")
  /\ UNCHANGED <<staged, done, clock, left, sent, late, chan, closed, inStage, collected>>

(* for ctx.Err() == nil of a worker, case <-ctx.Done() of a background one.*)
LoopExit(g) ==
  /\ Done(IF g \in Workers THEN WorkerCtx ELSE BackgroundCtx)
  /\ Move(g, "loop", "stopped")
  /\ UNCHANGED <<staged, done, clock, left, sent, late, chan, closed, inStage, collected>>

(* The head of a worker's loop.  The context may be done before the        *)
(* iteration starts, which does not look again.                            *)
CheckNothing(w) == (* mutant: for { instead of for ctx.Err() == nil { *)
  /\ w \in Workers
  /\ sent[w] < MaxResults
  /\ Move(w, "loop", "checked")
  /\ UNCHANGED <<staged, done, clock, left, sent, late, chan, closed, inStage, collected>>

CheckContext(w) ==
  /\ w \in Workers
  /\ ~Done(WorkerCtx) /\ sent[w] < MaxResults
  /\ Move(w, "loop", "checked")
  /\ UNCHANGED <<staged, done, clock, left, sent, late, chan, closed, inStage, collected>>

(* An iteration sends a result for each query and transaction it comes to. *)
StartIteration(w) ==
  /\ Move(w, "checked", "iterate")
  /\ \E n \in 1 .. Burst : sent[w] + n <= MaxResults /\ left' = [left EXCEPT ![w] = n]
  /\ UNCHANGED <<staged, done, clock, sent, late, chan, closed, inStage, collected>>

(* The ticker of a background worker; its select may choose it although    *)
(* the context is done.  One query, one result.                            *)
Tick(b) ==
  /\ b \in Background /\ sent[b] < Ticks
  /\ Move(b, "loop", "iterate")
  /\ left' = [left EXCEPT ![b] = 1]
  /\ UNCHANGED <<staged, done, clock, sent, late, chan, closed, inStage, collected>>

(* sendResult blocks while the channel is full.  After it the iteration    *)
(* goes on, is over, or returns: with an error, or with that of fail().    *)
(* Sending on a closed channel panics.                                     *)
Send(g) ==
  /\ pc[g] = "iterate" /\ Len(chan) < Cap /\ ~closed
  /\ chan' = Append(chan, [by |-> g, stage |-> inStage[g]])
  /\ sent' = [sent EXCEPT ![g] = @ + 1]
  /\ left' = [left EXCEPT ![g] = @ - 1]
  /\ \E to \in {"errored", "failed", IF left[g] = 1 THEN "loop" ELSE "iterate"} :
       /\ pc' = [pc EXCEPT ![g] = to]
       /\ late' = IF g \in Workers /\ Done(WorkerCtx) /\ to # "iterate"
                    THEN [late EXCEPT ![g] = @ + 1] ELSE late
  /\ UNCHANGED <<staged, done, clock, closed, inStage, collected>>

(* After an error the goroutine stops when its context is done, and goes   *)
(* on otherwise; after fail() it stops.                                    *)
IterationFailed(g) ==
  /\ \/ Move(g, "failed", "stopped")
     \/ /\ ~Done(IF g \in Workers THEN WorkerCtx ELSE BackgroundCtx)
        /\ Move(g, "errored", "loop")
     \/ /\ Done(IF g \in Workers THEN WorkerCtx ELSE BackgroundCtx)
        /\ Move(g, "errored", "stopped")
  /\ UNCHANGED <<staged, done, clock, left, sent, late, chan, closed, inStage, collected>>

GoroutineStep(g) ==
  \/ CreateEnv(g) \/ LoopExit(g) \/ CheckContext(g) \/ StartIteration(g) \/ Tick(g)
  \/ Send(g) \/ IterationFailed(g)

-----------------------------------------------------------------------------
(* printResults.                                                           *)

WarmupOver ==
  /\ collector = "select" /\ warmingUp /\ clock # "warmup"
  /\ warmingUp' = FALSE
  /\ UNCHANGED <<staged, done, clock, goroutines, chan, closed, inStage, collector,
                 counted, discarded>>

ReceiveUntilDeadline == (* mutant: results that arrive after the deadline are ignored *)
  /\ collector = "select" /\ chan # <<>>
  /\ LET r == Head(chan) IN
     IF warmingUp
     THEN /\ discarded' = [discarded EXCEPT ![r.by] = @ + 1]
          /\ UNCHANGED counted
     ELSE /\ counted' = IF clock = "over" THEN counted ELSE [counted EXCEPT ![r.by] = @ + 1]
          /\ UNCHANGED discarded
  /\ chan' = Tail(chan)
  /\ UNCHANGED <<staged, done, clock, goroutines, closed, inStage, collector, warmingUp>>

Receive ==
  /\ collector = "select" /\ chan # <<>>
  /\ LET r == Head(chan) IN
     IF warmingUp
     THEN /\ discarded' = [discarded EXCEPT ![r.by] = @ + 1]
          /\ UNCHANGED counted
     ELSE /\ counted' = [counted EXCEPT ![r.by] = @ + 1]
          /\ UNCHANGED discarded
  /\ chan' = Tail(chan)
  /\ UNCHANGED <<staged, done, clock, goroutines, closed, inStage, collector, warmingUp>>

(* The channel is closed and drained: the summary, and the statistics.     *)
ReturnStats ==
  /\ collector = "select" /\ closed /\ chan = <<>>
  /\ collector' = "returned"
  /\ UNCHANGED <<staged, done, clock, goroutines, chan, closed, inStage, warmingUp,
                 counted, discarded>>

CollectorStep == WarmupOver \/ Receive \/ ReturnStats

-----------------------------------------------------------------------------
(* Time passes; Ctrl+C cancels the context of the run.                     *)
TimePasses ==
  /\ collector = "select"
  /\ \/ clock = "warmup" /\ clock' = "measured"
     \/ clock = "measured" /\ clock' = "over"
  /\ UNCHANGED <<staged, done, goroutines, chan, closed, inStage, collected>>

Interrupt ==
  /\ collector = "select" /\ "run" \notin done
  /\ done' = done \cup {"run"}
  /\ UNCHANGED <<staged, clock, goroutines, chan, closed, inStage, collected>>

-----------------------------------------------------------------------------
InFlight(g) == Cardinality({i \in DOMAIN chan : chan[i].by = g})

(* Every result a goroutine sent is in the channel, in the statistics, or  *)
(* was discarded for the warmup.                                           *)
NothingLost ==
  \A g \in Goroutines : sent[g] = InFlight(g) + counted[g] + discarded[g]

(* Nobody is in a position to send when the channel is closed: a send on   *)
(* it would panic.                                                         *)
NoSendOnClosed == closed => \A g \in Goroutines : Quiet(g)

(* After its context is done a worker ends at most one iteration, the one  *)
(* it is in or has just checked for: a cancellation may fall between the   *)
(* check and the first statement, and an iteration that fails leads back   *)
(* to the head of the loop.                                                *)
OneLateIteration == \A w \in Workers : late[w] <= 1
=============================================================================
