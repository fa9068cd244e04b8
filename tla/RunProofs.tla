------------------------------ MODULE RunProofs ------------------------------
(***************************************************************************)
(* For any workers, background workers, stages, capacity and warmup: no    *)
(* result is lost or sent on the closed channel, stages come one after the *)
(* other with the background workers across them, and every step of a run  *)
(* is a step of RunContract.                                               *)
(***************************************************************************)
EXTENDS Run, FiniteSetTheorems, TLAPS

Result == [by : Goroutines, stage : Nat]

Places == {"idle", "starting", "loop", "checked", "iterate", "errored", "failed", "stopped"}

TypeInv ==
  /\ staged \in BOOLEAN /\ closed \in BOOLEAN /\ warmingUp \in BOOLEAN
  /\ collector \in {"select", "returned"}
  /\ driver \in {"check", "start", "wait", "drain", "done"}
  /\ pc \in [Goroutines -> Places]
  /\ late \in [Workers -> Nat] /\ doomed \in BOOLEAN
  /\ left \in [Goroutines -> Int]
  /\ chan \in Seq(Result)
  /\ inStage \in [Goroutines -> Nat] /\ stage \in Nat /\ last \in Nat
  /\ sent \in [Goroutines -> Nat]
  /\ counted \in [Goroutines -> Nat] /\ discarded \in [Goroutines -> Nat]

(* The place of the driver says which goroutines have stopped.             *)
DriverInv ==
  /\ closed <=> driver = "done"
  /\ collector = "returned" => closed /\ chan = <<>>
  /\ driver # "wait" => \A w \in Workers : Quiet(w)
  /\ driver \in {"check", "start"} => staged
  /\ driver = "done" => \A b \in Background : pc[b] = "stopped"
  /\ \A b \in Background : pc[b] # "idle"

(* Who runs was started in the current stage, and the channel holds the    *)
(* results of workers in the order of their stages.                        *)
StageInv ==
  /\ \A w \in Workers : inStage[w] <= stage /\ (~Quiet(w) => inStage[w] = stage)
  /\ last <= stage
  /\ \A i \in DOMAIN chan : chan[i].by \in Workers => last <= chan[i].stage /\ chan[i].stage <= stage
  /\ \A i, j \in DOMAIN chan :
       i < j /\ chan[i].by \in Workers /\ chan[j].by \in Workers => chan[i].stage <= chan[j].stage

(* The background workers' context is cancelled after the last stage.      *)
BackgroundInv ==
  "background" \in done =>
     /\ driver \in {"drain", "done"}
     /\ Done("run") \/ stage = Len(StageWorkers)

RunInv == TypeInv /\ DriverInv /\ StageInv /\ BackgroundInv /\ NothingLost

-----------------------------------------------------------------------------
(* Counting the results of one goroutine in a sequence. *)
Of(s, g) == {i \in DOMAIN s : s[i].by = g}

LEMMA OfFinite ==
  ASSUME NEW s \in Seq(Result), NEW g
  PROVE  IsFiniteSet(Of(s, g)) /\ Cardinality(Of(s, g)) \in Nat
<1>1. IsFiniteSet(1 .. Len(s))
  BY FS_Interval
<1>2. Of(s, g) \in SUBSET (1 .. Len(s))
  BY DEF Of
<1> QED BY <1>1, <1>2, FS_Subset, FS_CardinalityType

(* An appended result counts for its sender. *)
LEMMA CountAppend ==
  ASSUME NEW s \in Seq(Result), NEW r \in Result, NEW g
  PROVE  Cardinality(Of(Append(s, r), g)) = Cardinality(Of(s, g)) + (IF r.by = g THEN 1 ELSE 0)
<1>1. CASE r.by = g
  <2>1. Of(Append(s, r), g) = Of(s, g) \cup {Len(s) + 1}
    BY <1>1 DEF Of
  <2>2. Len(s) + 1 \notin Of(s, g)
    BY DEF Of
  <2> QED BY <1>1, <2>1, <2>2, OfFinite, FS_AddElement
<1>2. CASE r.by # g
  <2>1. Of(Append(s, r), g) = Of(s, g)
    BY <1>2 DEF Of
  <2> QED BY <1>2, <2>1, OfFinite
<1> QED BY <1>1, <1>2

(* A result taken from the head no longer counts for its sender. *)
LEMMA CountTail ==
  ASSUME NEW s \in Seq(Result), s # <<>>, NEW g
  PROVE  Cardinality(Of(s, g)) = Cardinality(Of(Tail(s), g)) + (IF Head(s).by = g THEN 1 ELSE 0)
<1> DEFINE T == Of(Tail(s), g)
           S == Of(s, g) \ {1}
           f == [i \in T |-> i + 1]
<1>1. Tail(s) \in Seq(Result) /\ Len(Tail(s)) = Len(s) - 1 /\ Len(s) \in Nat /\ Len(s) > 0
      /\ \A i \in 1 .. Len(s) - 1 : Tail(s)[i] = s[i + 1]
  OBVIOUS
<1>2. \A i \in T : i \in Nat /\ i + 1 \in S
  BY <1>1 DEF Of
<1>3. \A k \in S : k - 1 \in T /\ k = (k - 1) + 1
  BY <1>1 DEF Of
<1>4. f \in Bijection(T, S)
  <2>1. f \in Injection(T, S)
    BY <1>2 DEF Injection, IsInjective
  <2>2. \A k \in S : \E i \in T : f[i] = k
    <3>1. ASSUME NEW k \in S PROVE k - 1 \in T /\ f[k - 1] = k
      BY <1>3
    <3> QED BY <3>1
  <2>3. f \in Surjection(T, S)
    BY <1>2, <2>2 DEF Surjection
  <2> QED BY <2>1, <2>3 DEF Bijection
<1>5. Cardinality(S) = Cardinality(T)
  <2>1. IsFiniteSet(T)
    BY <1>1, OfFinite
  <2> HIDE DEF S, T, f
  <2> QED BY <1>4, <2>1, FS_Bijection DEF ExistsBijection
<1>6. 1 \in Of(s, g) <=> Head(s).by = g
  BY <1>1 DEF Of
<1>7. Cardinality(T) \in Nat /\ Cardinality(Of(s, g)) \in Nat
  BY <1>1, OfFinite
<1>8. Cardinality(S) = IF 1 \in Of(s, g) THEN Cardinality(Of(s, g)) - 1 ELSE Cardinality(Of(s, g))
  <2> HIDE DEF S, T
  <2>1. Cardinality(Of(s, g) \ {1})
          = IF 1 \in Of(s, g) THEN Cardinality(Of(s, g)) - 1 ELSE Cardinality(Of(s, g))
    BY OfFinite, FS_RemoveElement
  <2> QED BY <2>1 DEF S
<1> HIDE DEF S, T
<1> QED BY <1>5, <1>6, <1>7, <1>8 DEF T

-----------------------------------------------------------------------------
LEMMA RunInit ==
  ASSUME Init
  PROVE  RunInv
<1> USE DEF Init, PipelineInit, Goroutines
<1>1. TypeInv
  <2>1. staged \in BOOLEAN /\ closed \in BOOLEAN /\ warmingUp \in BOOLEAN
    BY SizesAssumption
  <2>2. driver \in {"check", "start", "wait", "drain", "done"}
    BY <2>1
  <2>3. chan \in Seq(Result)
    OBVIOUS
  <2>4. pc \in [Goroutines -> Places]
    BY DEF Places
  <2>5. /\ left \in [Goroutines -> Int] /\ inStage \in [Goroutines -> Nat]
        /\ sent \in [Goroutines -> Nat]
        /\ counted \in [Goroutines -> Nat] /\ discarded \in [Goroutines -> Nat]
        /\ stage \in Nat /\ last \in Nat /\ collector = "select"
        /\ late \in [Workers -> Nat]
    OBVIOUS
  <2>6. doomed \in BOOLEAN
    OBVIOUS
  <2> QED BY <2>1, <2>2, <2>3, <2>4, <2>5, <2>6 DEF TypeInv
<1>2. DriverInv
  BY GoroutinesAssumption DEF DriverInv, Quiet
<1>3. StageInv /\ BackgroundInv
  BY DEF StageInv, BackgroundInv
<1>4. ASSUME NEW g \in Goroutines PROVE sent[g] = InFlight(g) + counted[g] + discarded[g]
  <2>1. {i \in DOMAIN chan : chan[i].by = g} = {}
    OBVIOUS
  <2>2. InFlight(g) = 0
    BY <2>1, FS_EmptySet DEF InFlight
  <2> QED BY <2>2
<1> QED BY <1>1, <1>2, <1>3, <1>4 DEF RunInv, NothingLost

(* A step that leaves the channel and the counters alone loses nothing. *)
LEMMA SameCounts ==
  ASSUME NothingLost, UNCHANGED <<chan, sent, counted, discarded>>
  PROVE  NothingLost'
BY DEF NothingLost, InFlight

(* The steps of a goroutine other than sending. *)
LEMMA GoroutineKeeps ==
  ASSUME RunInv, NEW g \in Goroutines, UNCHANGED <<stage, driver, doomed, last>>,
         CreateEnv(g) \/ LoopExit(g) \/ CheckContext(g) \/ StartIteration(g) \/ Tick(g) \/ IterationFailed(g)
  PROVE  RunInv'
<1> USE DEF RunInv, CreateEnv, LoopExit, CheckContext, StartIteration, Tick, IterationFailed, Move, collected
<1>1. TypeInv'
  <2>1. Burst \in Nat
    BY SizesAssumption DEF TypeInv, Burst
  <2>2. pc' \in [Goroutines -> Places]
    BY DEF TypeInv, Places
  <2>3. left' \in [Goroutines -> Int]
    BY <2>1 DEF TypeInv
  <2>4. UNCHANGED <<staged, chan, closed, inStage, collector, warmingUp, sent, late, counted, discarded>>
    OBVIOUS
  <2> QED BY <2>2, <2>3, <2>4 DEF TypeInv
<1>2. /\ ~Quiet(g)
      /\ \A h \in Goroutines : h # g => pc'[h] = pc[h]
      /\ pc'[g] # "idle" /\ pc[g] # "stopped"
  BY DEF TypeInv, Quiet
<1>3. DriverInv'
  <2>1. UNCHANGED <<staged, closed, collector, chan, driver>>
    OBVIOUS
  <2>2. \A h \in Goroutines : Quiet(h) => pc'[h] = pc[h]
    BY <1>2
  <2>3. \A b \in Background : pc[b] # "idle" => pc'[b] # "idle"
    BY <1>2 DEF Goroutines
  <2> HIDE DEF CreateEnv, LoopExit, CheckContext, StartIteration, Tick, IterationFailed
  <2> QED BY <2>1, <2>2, <2>3 DEF DriverInv, Quiet, Goroutines
<1>4. StageInv'
  BY <1>2 DEF TypeInv, StageInv, Quiet, Goroutines
<1>5. BackgroundInv'
  BY DEF BackgroundInv, Done
<1>6. NothingLost'
  BY SameCounts
<1> QED BY <1>1, <1>3, <1>4, <1>5, <1>6

LEMMA SendKeeps ==
  ASSUME RunInv, NEW g \in Goroutines, Send(g), UNCHANGED <<stage, driver, doomed, last>>
  PROVE  RunInv'
<1> DEFINE r == [by |-> g, stage |-> inStage[g]]
<1> USE DEF RunInv, Send, collected
<1>1. r \in Result /\ chan \in Seq(Result) /\ chan' = Append(chan, r)
  BY DEF TypeInv, Result
<1>2. /\ Len(chan') = Len(chan) + 1 /\ chan'[Len(chan) + 1] = r
      /\ \A i \in DOMAIN chan : chan'[i] = chan[i]
      /\ DOMAIN chan = 1 .. Len(chan) /\ DOMAIN chan' = 1 .. Len(chan) + 1 /\ Len(chan) \in Nat
  BY <1>1
<1>3. TypeInv'
  <2>1. chan' \in Seq(Result)
    BY <1>1
  <2>2. pc' \in [Goroutines -> Places]
    BY DEF TypeInv, Places
  <2>3. left' \in [Goroutines -> Int] /\ sent' \in [Goroutines -> Nat]
    BY DEF TypeInv
  <2>4. UNCHANGED <<staged, closed, inStage, collector, warmingUp, counted, discarded>>
    OBVIOUS
  <2>5. late' \in [Workers -> Nat]
    BY DEF TypeInv
  <2> QED BY <2>1, <2>2, <2>3, <2>4, <2>5 DEF TypeInv
<1>4. /\ ~Quiet(g) /\ pc'[g] # "idle"
      /\ \A h \in Goroutines : h # g => pc'[h] = pc[h]
  BY DEF TypeInv, Quiet
<1>5. DriverInv'
  BY <1>4 DEF DriverInv, Quiet, Goroutines
<1>6. StageInv'
  <2>1. g \in Workers => inStage[g] = stage
    BY <1>4 DEF StageInv
  <2>2. \A w \in Workers : inStage'[w] <= stage /\ (~Quiet(w)' => inStage'[w] = stage)
    BY <1>4 DEF StageInv, Quiet, Goroutines
  <2>3. last <= stage /\ last \in Nat /\ stage \in Nat
    BY DEF StageInv, TypeInv
  <2>4. \A i \in DOMAIN chan' : chan'[i].by \in Workers => last <= chan'[i].stage /\ chan'[i].stage <= stage
    BY <1>2, <2>1, <2>3 DEF StageInv
  <2>5. ASSUME NEW i \in DOMAIN chan', NEW j \in DOMAIN chan', i < j,
               chan'[i].by \in Workers, chan'[j].by \in Workers
        PROVE  chan'[i].stage <= chan'[j].stage
    <3>1. i \in DOMAIN chan
      BY <1>2, <2>5
    <3>2. CASE j \in DOMAIN chan
      BY <1>2, <2>5, <3>1, <3>2 DEF StageInv
    <3>3. CASE j = Len(chan) + 1
      BY <1>2, <2>1, <2>5, <3>1, <3>3 DEF StageInv
    <3> QED BY <1>2, <3>2, <3>3
  <2> QED BY <2>2, <2>3, <2>4, <2>5 DEF StageInv
<1>7. BackgroundInv'
  BY DEF BackgroundInv, Done
<1>8. NothingLost'
  <2>1. ASSUME NEW h \in Goroutines
        PROVE  sent'[h] = Cardinality(Of(chan', h)) + counted'[h] + discarded'[h]
    <3>1. Cardinality(Of(chan', h)) = Cardinality(Of(chan, h)) + (IF g = h THEN 1 ELSE 0)
      BY <1>1, CountAppend
    <3>2. Cardinality(Of(chan, h)) \in Nat
      BY <1>1, OfFinite
    <3>3. sent[h] = Cardinality(Of(chan, h)) + counted[h] + discarded[h]
      BY DEF NothingLost, InFlight, Of
    <3>4. sent'[h] = sent[h] + (IF g = h THEN 1 ELSE 0)
      BY DEF TypeInv
    <3> QED BY <3>1, <3>2, <3>3, <3>4 DEF TypeInv
  <2> QED BY <2>1 DEF NothingLost, InFlight, Of
<1> QED BY <1>3, <1>5, <1>6, <1>7, <1>8

LEMMA ReceiveKeeps ==
  ASSUME RunInv, Receive, UNCHANGED <<stage, driver, doomed>>,
         last' = IF Head(chan).by \in Workers THEN Head(chan).stage ELSE last
  PROVE  RunInv'
<1> DEFINE r == Head(chan)
<1> USE DEF RunInv, goroutines
<1>1. /\ chan \in Seq(Result) /\ chan # <<>> /\ chan' = Tail(chan)
      /\ r = chan[1] /\ r \in Result /\ 1 \in DOMAIN chan
  BY DEF Receive, TypeInv
<1>2. /\ chan' \in Seq(Result) /\ Len(chan') = Len(chan) - 1 /\ Len(chan) \in Nat
      /\ DOMAIN chan' = 1 .. Len(chan) - 1 /\ DOMAIN chan = 1 .. Len(chan)
      /\ \A i \in DOMAIN chan' : i + 1 \in DOMAIN chan /\ chan'[i] = chan[i + 1]
  BY <1>1
<1>3. r.by \in Goroutines /\ r.stage \in Nat
  BY <1>1 DEF Result
<1>4. /\ UNCHANGED <<staged, done, clock, pc, left, sent, late, closed, inStage, collector, warmingUp>>
      /\ collector = "select"
      /\ \/ counted' = [counted EXCEPT ![r.by] = @ + 1] /\ discarded' = discarded
         \/ discarded' = [discarded EXCEPT ![r.by] = @ + 1] /\ counted' = counted
  <2>1. CASE warmingUp
    BY <2>1 DEF Receive
  <2>2. CASE ~warmingUp
    BY <2>2 DEF Receive
  <2> QED BY <2>1, <2>2
<1>5. TypeInv'
  <2>1. counted' \in [Goroutines -> Nat] /\ discarded' \in [Goroutines -> Nat]
    <3>1. counted \in [Goroutines -> Nat] /\ discarded \in [Goroutines -> Nat]
      BY DEF TypeInv
    <3> HIDE DEF r, RunInv
    <3> QED BY <1>3, <1>4, <3>1
  <2>2. last' \in Nat
    BY <1>3 DEF TypeInv
  <2> QED BY <1>2, <1>4, <2>1, <2>2 DEF TypeInv
<1>6. DriverInv'
  BY <1>4 DEF DriverInv, Quiet
<1>7. StageInv'
  <2>1. last' <= stage /\ last' \in Nat
    BY <1>1, <1>3 DEF StageInv, TypeInv
  <2>2. \A i \in DOMAIN chan' : chan'[i].by \in Workers => last' <= chan'[i].stage /\ chan'[i].stage <= stage
    BY <1>1, <1>2 DEF StageInv
  <2>3. \A i, j \in DOMAIN chan' :
          i < j /\ chan'[i].by \in Workers /\ chan'[j].by \in Workers => chan'[i].stage <= chan'[j].stage
    BY <1>2 DEF StageInv
  <2> QED BY <1>4, <2>1, <2>2, <2>3 DEF StageInv, Quiet
<1>8. BackgroundInv'
  BY <1>4 DEF BackgroundInv, Done
<1>9. NothingLost'
  <2>1. ASSUME NEW h \in Goroutines
        PROVE  sent'[h] = Cardinality(Of(chan', h)) + counted'[h] + discarded'[h]
    <3>1. Cardinality(Of(chan, h)) = Cardinality(Of(chan', h)) + (IF r.by = h THEN 1 ELSE 0)
      BY <1>1, CountTail
    <3>2. Cardinality(Of(chan', h)) \in Nat
      BY <1>2, OfFinite
    <3>3. sent[h] = Cardinality(Of(chan, h)) + counted[h] + discarded[h]
      BY DEF NothingLost, InFlight, Of
    <3>4. counted'[h] + discarded'[h] = counted[h] + discarded[h] + (IF r.by = h THEN 1 ELSE 0)
      <4>1. counted \in [Goroutines -> Nat] /\ discarded \in [Goroutines -> Nat]
        BY DEF TypeInv
      <4> HIDE DEF r, RunInv
      <4> QED BY <1>3, <1>4, <4>1
    <3>5. counted'[h] \in Nat /\ discarded'[h] \in Nat /\ counted[h] \in Nat /\ discarded[h] \in Nat
      BY <1>5 DEF TypeInv
    <3> QED BY <1>4, <3>1, <3>2, <3>3, <3>4, <3>5
  <2> QED BY <2>1 DEF NothingLost, InFlight, Of
<1> QED BY <1>5, <1>6, <1>7, <1>8, <1>9

(* The collector: the warmup ends, a result is received, or the statistics *)
(* are returned from the closed and empty channel.                         *)
LEMMA CollectKeeps ==
  ASSUME RunInv, Collect
  PROVE  RunInv'
<1>1. CASE WarmupOver
  <2> USE <1>1 DEF RunInv, Collect, WarmupOver, goroutines
  <2>1. UNCHANGED <<staged, done, clock, pc, left, sent, late, chan, closed, inStage, collector,
                    counted, discarded, stage, driver, doomed, last>> /\ warmingUp' = FALSE
    OBVIOUS
  <2>2. TypeInv'
    BY <2>1 DEF TypeInv
  <2>3. DriverInv' /\ StageInv' /\ BackgroundInv'
    BY <2>1 DEF DriverInv, StageInv, BackgroundInv, Quiet, Done
  <2> QED BY <2>1, <2>2, <2>3, SameCounts
<1>2. CASE ReturnStats
  <2> USE <1>2 DEF RunInv, Collect, ReturnStats, goroutines
  <2>1. UNCHANGED <<staged, done, clock, pc, left, sent, late, chan, closed, inStage, warmingUp,
                    counted, discarded, stage, driver, doomed, last>>
        /\ collector' = "returned" /\ closed /\ chan = <<>>
    OBVIOUS
  <2>2. TypeInv'
    BY <2>1 DEF TypeInv
  <2>3. DriverInv'
    BY <2>1 DEF DriverInv, Quiet
  <2>4. StageInv' /\ BackgroundInv'
    BY <2>1 DEF StageInv, BackgroundInv, Quiet, Done
  <2> QED BY <2>1, <2>2, <2>3, <2>4, SameCounts
<1>3. CASE Receive
  <2>1. chan \in Seq(Result) /\ chan # <<>> /\ chan' = Tail(chan)
    BY <1>3 DEF Receive, RunInv, TypeInv
  <2>2. chan' # chan
    BY <2>1
  <2> QED BY <1>3, <2>2, ReceiveKeeps DEF Collect
<1> QED BY <1>1, <1>2, <1>3 DEF Collect, CollectorStep

(* Time, Ctrl+C, the timer of a run without stages.                        *)
LEMMA TimeKeeps ==
  ASSUME RunInv,
         Clock \/ (Interrupt /\ UNCHANGED <<stage, driver, doomed, last>>) \/ TimerFires \/ StageTimeout
  PROVE  RunInv'
<1> USE DEF RunInv, Clock, TimePasses, Interrupt, TimerFires, StageTimeout, goroutines, collected
<1>1. /\ UNCHANGED <<staged, pc, left, sent, late, chan, closed, inStage, collector, warmingUp,
                     counted, discarded, stage, driver, doomed, last>>
      /\ done' = done \/ done' = done \cup {"run"} \/ done' = done \cup {"stage"}
  OBVIOUS
<1> HIDE DEF Clock, Interrupt, TimerFires, StageTimeout
<1>2. TypeInv' /\ DriverInv' /\ StageInv'
  BY <1>1 DEF TypeInv, DriverInv, StageInv, Quiet
<1>3. BackgroundInv'
  BY <1>1 DEF BackgroundInv, Done
<1> QED BY <1>1, <1>2, <1>3, SameCounts

(* The driver moves on when the goroutines it waits for have stopped.      *)
LEMMA DriverKeeps ==
  ASSUME RunInv, WaitWorkers \/ CheckStage \/ StageOver \/ StopBackground \/ Close
  PROVE  RunInv'
<1> USE DEF RunInv, WaitWorkers, CheckStage, StageOver, StopBackground, Close, pvars, goroutines, collected
<1>1. UNCHANGED <<staged, pc, left, sent, late, chan, inStage, collector, warmingUp,
                  counted, discarded, stage, doomed, last>>
  OBVIOUS
<1>2. TypeInv'
  BY <1>1 DEF TypeInv
<1>3. DriverInv'
  <2>1. CASE WaitWorkers
    BY <1>1, <2>1 DEF DriverInv, Quiet
  <2>2. CASE StageOver
    BY <1>1, <2>2 DEF DriverInv, Quiet
  <2>3. CASE StopBackground
    BY <1>1, <2>3 DEF DriverInv, Quiet
  <2>4. CASE Close
    BY <1>1, <2>4 DEF DriverInv, Quiet
  <2>5. CASE CheckStage
    BY <1>1, <2>5 DEF DriverInv, Quiet
  <2> QED BY <2>1, <2>2, <2>3, <2>4, <2>5
<1>4. StageInv'
  BY <1>1 DEF StageInv, Quiet
<1>5. BackgroundInv'
  BY <1>1 DEF BackgroundInv, Done
<1> QED BY <1>1, <1>2, <1>3, <1>4, <1>5, SameCounts

(* A stage starts with fresh workers where all had stopped.                *)
LEMMA StageKeeps ==
  ASSUME RunInv, StartStage
  PROVE  RunInv'
<1> USE DEF RunInv
<1>1. PICK W \in WorkersOf(stage + 1) :
        /\ pc' = [g \in Goroutines |-> IF g \in W THEN "starting" ELSE pc[g]]
        /\ inStage' = [g \in Goroutines |-> IF g \in W THEN stage + 1 ELSE inStage[g]]
  BY DEF StartStage
<1>2. W \subseteq Workers
  BY DEF WorkersOf
<1>3. /\ UNCHANGED <<staged, clock, left, sent, chan, closed, collector, warmingUp, counted, discarded, last>>
      /\ late' = [w \in Workers |-> 0] /\ doomed' = Done("run")
      /\ driver = "start" /\ driver' = "wait" /\ stage' = stage + 1 /\ done' = done \ {"stage"}
  BY DEF StartStage, collected
<1>4. TypeInv'
  <2>1. doomed' \in BOOLEAN
    BY <1>3 DEF Done
  <2>2. pc' \in [Goroutines -> Places]
    BY <1>1 DEF TypeInv, Places
  <2> QED BY <1>1, <1>3, <2>1, <2>2 DEF TypeInv
<1>5. DriverInv'
  <2>1. \A b \in Background : b \in Goroutines /\ b \notin W
    BY <1>2, GoroutinesAssumption DEF Goroutines
  <2>2. \A b \in Background : pc'[b] = pc[b]
    BY <1>1, <2>1
  <2> QED BY <1>3, <2>2 DEF DriverInv, TypeInv
<1>6. StageInv'
  <2>1. stage \in Nat /\ last \in Nat /\ inStage \in [Goroutines -> Nat] /\ chan \in Seq(Result)
    BY DEF TypeInv
  <2>2. \A w \in Workers : inStage'[w] <= stage' /\ (~Quiet(w)' => inStage'[w] = stage')
    BY <1>1, <1>2, <1>3, <2>1 DEF DriverInv, StageInv, Quiet, Goroutines
  <2>3. ASSUME NEW i \in DOMAIN chan PROVE chan[i].stage \in Nat
    <3>1. chan[i] \in Result
      BY <2>1, <2>3
    <3> QED BY <3>1 DEF Result
  <2>4. \A i \in DOMAIN chan : chan[i].by \in Workers => chan[i].stage <= stage + 1
    BY <2>1, <2>3 DEF StageInv
  <2>5. last' <= stage' /\ chan' = chan /\ last' = last
    BY <1>3, <2>1 DEF StageInv
  <2> QED BY <1>3, <2>2, <2>4, <2>5 DEF StageInv
<1>7. BackgroundInv'
  BY <1>3 DEF BackgroundInv
<1> QED BY <1>3, <1>4, <1>5, <1>6, <1>7, SameCounts

THEOREM RunInvariant == Spec => []RunInv
<1>1. RunInv /\ [Next]_vars => RunInv'
  <2> SUFFICES ASSUME RunInv, [Next]_vars PROVE RunInv'
    OBVIOUS
  <2>1. ASSUME NEW g \in Goroutines, Work(g) PROVE RunInv'
    BY <2>1, GoroutineKeeps, SendKeeps DEF Work, GoroutineStep
  <2>2. CASE UNCHANGED vars
    <3>1. UNCHANGED <<staged, done, clock, pc, left, sent, late, chan, closed, inStage, collector, warmingUp,
                      counted, discarded, stage, driver, doomed, last>>
      BY <2>2 DEF vars, pvars, goroutines, collected
    <3>2. TypeInv'
      BY <3>1 DEF RunInv, TypeInv
    <3>3. DriverInv' /\ StageInv' /\ BackgroundInv'
      BY <3>1 DEF RunInv, DriverInv, StageInv, BackgroundInv, Quiet, Done
    <3> QED BY <3>1, <3>2, <3>3, SameCounts DEF RunInv
  <2> QED BY <2>1, <2>2, CollectKeeps, TimeKeeps, DriverKeeps, StageKeeps DEF Next, Returned
<1> QED BY <1>1, RunInit, PTL DEF Spec

-----------------------------------------------------------------------------
(* Every result that was sent is in the channel, in the statistics, or was *)
(* discarded for the warmup (run.go:125, stats.go:50).                     *)
THEOREM RunNothingLost == Spec => []NothingLost
BY RunInvariant, PTL DEF RunInv

(* The results channel is closed after its last sender (run.go:141, :91).  *)
THEOREM RunNoSendOnClosed == Spec => []NoSendOnClosed
<1>1. RunInv => NoSendOnClosed
  BY DEF RunInv, DriverInv, NoSendOnClosed, Quiet, Goroutines
<1> QED BY <1>1, RunInvariant, PTL

(***************************************************************************)
(* Cancellation.  A context stays done until a stage with a context of its *)
(* own starts, where all workers have stopped.  A worker that has ended an *)
(* iteration under a context that is done does not pass the check of its   *)
(* loop again, so it is neither between check and iteration nor in one.    *)
(***************************************************************************)
LateInv ==
  \A w \in Workers :
    /\ late[w] <= 1
    /\ late[w] > 0 => Done(WorkerCtx) /\ pc[w] \notin {"checked", "iterate"}

(* A stage started after the cancellation has workers that only come to    *)
(* the check of their loop, and a driver that does not pass its own.       *)
DoomedInv ==
  doomed => /\ Done("run") /\ driver # "start"
            /\ \A w \in Workers : pc[w] \in {"idle", "starting", "loop", "stopped"}

LEMMA CancelledGoroutine ==
  ASSUME RunInv, LateInv, DoomedInv, NEW g \in Goroutines, GoroutineStep(g),
         UNCHANGED <<stage, driver, doomed, last>>
  PROVE  LateInv' /\ DoomedInv' /\ (doomed /\ Send(g) => g \notin Workers)
<1> USE DEF RunInv
<1>1. pc \in [Goroutines -> Places] /\ late \in [Workers -> Nat] /\ Workers \subseteq Goroutines
  BY DEF TypeInv, Goroutines
<1>2. UNCHANGED <<staged, done>> /\ \A c : Done(c)' <=> Done(c)
  BY DEF GoroutineStep, CreateEnv, LoopExit, CheckContext, StartIteration, Tick, Send, IterationFailed, Done
<1>3. Done("run") => Done(WorkerCtx)
  BY DEF Done, WorkerCtx
<1>4. WorkerCtx' = WorkerCtx
  BY <1>2 DEF WorkerCtx
<1>5. CASE CreateEnv(g) \/ LoopExit(g) \/ IterationFailed(g)
  <2>1. /\ late' = late
        /\ \A h \in Goroutines : pc'[h] = pc[h] \/ pc'[h] \in {"loop", "stopped"}
    BY <1>1, <1>5 DEF CreateEnv, LoopExit, IterationFailed, Move
  <2> QED BY <1>1, <1>2, <1>4, <1>5, <2>1 DEF LateInv, DoomedInv, CreateEnv, LoopExit, IterationFailed, Send, Move
<1>6. CASE CheckContext(g)
  <2>1. /\ late' = late /\ ~Done(WorkerCtx) /\ pc[g] = "loop" /\ pc'[g] = "checked"
        /\ \A h \in Goroutines : h # g => pc'[h] = pc[h]
    BY <1>1, <1>6 DEF CheckContext, Move
  <2> QED BY <1>1, <1>2, <1>3, <1>4, <2>1 DEF LateInv, DoomedInv, Send
<1>7. CASE StartIteration(g) \/ Tick(g)
  <2>1. /\ late' = late /\ pc'[g] = "iterate" /\ (g \in Workers => pc[g] = "checked") /\ pc[g] # "iterate"
        /\ \A h \in Goroutines : h # g => pc'[h] = pc[h]
    BY <1>1, <1>7, GoroutinesAssumption DEF StartIteration, Tick, Move
  <2> QED BY <1>1, <1>2, <1>4, <2>1 DEF LateInv, DoomedInv, Send
<1>8. CASE Send(g)
  <2>1. /\ pc[g] = "iterate" /\ \A h \in Goroutines : h # g => pc'[h] = pc[h]
        /\ late' = IF g \in Workers /\ Done(WorkerCtx) /\ pc'[g] # "iterate"
                    THEN [late EXCEPT ![g] = @ + 1] ELSE late
    BY <1>1, <1>8 DEF Send
  <2>2. g \in Workers => late[g] = 0
    BY <1>1, <2>1 DEF LateInv
  <2>3. DoomedInv' /\ (doomed => g \notin Workers)
    BY <1>1, <1>2, <2>1 DEF DoomedInv
  <2>4. ASSUME NEW w \in Workers
        PROVE  late'[w] <= 1 /\ (late'[w] > 0 => Done(WorkerCtx) /\ pc'[w] \notin {"checked", "iterate"})
    <3>1. CASE w = g /\ Done(WorkerCtx) /\ pc'[g] # "iterate"
      <4>1. late'[w] = 1
        BY <1>1, <2>1, <2>2, <3>1
      <4>2. pc'[g] # "checked"
        BY <1>1, <1>8 DEF Send
      <4> QED BY <3>1, <4>1, <4>2
    <3>2. CASE w = g /\ ~(Done(WorkerCtx) /\ pc'[g] # "iterate")
      BY <1>1, <2>1, <2>2, <3>2
    <3>3. CASE w # g
      BY <1>1, <2>1, <3>3 DEF LateInv
    <3> QED BY <3>1, <3>2, <3>3
  <2> QED BY <1>2, <1>4, <2>3, <2>4 DEF LateInv
<1> QED BY <1>5, <1>6, <1>7, <1>8 DEF GoroutineStep

LEMMA CancelledStep ==
  ASSUME RunInv, LateInv, DoomedInv, [Next]_vars
  PROVE  LateInv' /\ DoomedInv'
<1>1. ASSUME NEW g \in Goroutines, Work(g) PROVE LateInv' /\ DoomedInv'
  BY <1>1, CancelledGoroutine DEF Work
<1>2. CASE StartStage
  <2>1. \A w \in Workers : pc'[w] \in {"idle", "starting", "stopped"} /\ late'[w] = 0
    BY <1>2 DEF StartStage, RunInv, TypeInv, DriverInv, Quiet, Goroutines
  <2>2. doomed' = Done("run") /\ done' = done \ {"stage"} /\ driver' = "wait"
    BY <1>2 DEF StartStage
  <2>3. LateInv'
    BY <2>1 DEF LateInv
  <2>4. DoomedInv'
    <3>1. doomed' => Done("run")'
      BY <2>2 DEF Done
    <3> QED BY <2>1, <2>2, <3>1 DEF DoomedInv
  <2> QED BY <2>3, <2>4
<1>3. CASE UNCHANGED <<staged, pc, late, doomed>> /\ done \subseteq done' /\ (doomed => driver' # "start")
  BY <1>3 DEF LateInv, DoomedInv, Done, WorkerCtx
<1>4. CASE Collect
  <2>1. UNCHANGED <<staged, pc, late, doomed, done, driver>>
    BY <1>4 DEF Collect, CollectorStep, WarmupOver, Receive, ReturnStats, goroutines
  <2> QED BY <1>3, <2>1 DEF DoomedInv
<1>5. CASE ~Collect /\ ~StartStage /\ ~(\E g \in Goroutines : Work(g))
  <2>1. UNCHANGED <<staged, pc, late, doomed>> /\ done \subseteq done'
    BY <1>5 DEF Next, Clock, TimePasses, Interrupt, TimerFires, WaitWorkers, CheckStage, StageTimeout,
                StageOver, StopBackground, Close, Returned, vars, pvars, goroutines
  <2>2. driver' = driver \/ driver' # "start" \/ CheckStage
    BY <1>5 DEF Next, Clock, TimerFires, WaitWorkers, StageTimeout, StageOver, StopBackground, Close,
                Returned, vars
  <2>3. CheckStage => ~Done("run")
    BY DEF CheckStage
  <2> QED BY <1>3, <2>1, <2>2, <2>3 DEF DoomedInv
<1> QED BY <1>1, <1>2, <1>4, <1>5

LEMMA CancelledInit ==
  ASSUME Init
  PROVE  LateInv /\ DoomedInv
BY DEF Init, PipelineInit, LateInv, DoomedInv

(* Whenever its context is cancelled, a worker ends at most one iteration  *)
(* after that (run.go:174).                                                *)
THEOREM RunOneLateIteration == Spec => []OneLateIteration
<1>1. LateInv => OneLateIteration
  BY DEF LateInv, OneLateIteration
<1> QED BY <1>1, RunInvariant, CancelledInit, CancelledStep, PTL DEF Spec

(* The collector sees the results of the workers stage by stage, though    *)
(* stages and collector do not wait for one another (run.go:72).           *)
THEOREM StagesInOrder == Spec => StageOrder
<1>1. RunInv /\ [Next]_vars => [last' >= last]_vars
  <2> SUFFICES ASSUME RunInv, [Next]_vars PROVE last' >= last
    OBVIOUS
  <2>1. last \in Nat /\ chan \in Seq(Result)
    BY DEF RunInv, TypeInv
  <2>2. CASE Collect
    <3>1. CASE Receive
      <4>1. chan # <<>> /\ Head(chan) = chan[1] /\ 1 \in DOMAIN chan
        BY <2>1, <3>1 DEF Receive
      <4>2. chan[1].by \in Workers => chan[1].stage >= last
        BY <2>1, <4>1 DEF RunInv, StageInv
      <4> QED BY <2>1, <2>2, <4>1, <4>2 DEF Collect
    <3>2. CASE WarmupOver \/ ReturnStats
      BY <2>1, <2>2, <3>2 DEF Collect, WarmupOver, ReturnStats
    <3> QED BY <2>2, <3>1, <3>2 DEF Collect, CollectorStep
  <2>3. CASE UNCHANGED last
    BY <2>1, <2>3
  <2>4. Collect \/ UNCHANGED last
    BY DEF Next, Work, Clock, TimerFires, WaitWorkers, CheckStage, StartStage, StageTimeout, StageOver,
           StopBackground, Close, Returned, vars
  <2> QED BY <2>2, <2>3, <2>4
<1> QED BY <1>1, RunInvariant, PTL DEF Spec, StageOrder

(* No background worker stops for its context before the workers of the    *)
(* last stage have stopped, unless the run is cancelled (run.go:68).       *)
THEOREM BackgroundWorkersSpanStages == Spec => BackgroundSpansStages
<1> DEFINE A == staged => \A b \in Background :
       pc[b] \in {"loop", "errored"} /\ pc'[b] = "stopped"
         => Done("run") \/ (stage = Len(StageWorkers) /\ \A w \in Workers : Quiet(w))
<1>1. RunInv /\ [Next]_vars => [A]_vars
  <2> SUFFICES ASSUME RunInv, [Next]_vars, staged, NEW b \in Background,
                      pc[b] \in {"loop", "errored"}, pc'[b] = "stopped", ~Done("run")
               PROVE  stage = Len(StageWorkers) /\ \A w \in Workers : Quiet(w)
    OBVIOUS
  <2>1. /\ b \in Goroutines /\ b \notin Workers
        /\ pc \in [Goroutines -> Places]
    BY GoroutinesAssumption DEF Goroutines, RunInv, TypeInv
  <2>2. SUFFICES "background" \in done
    BY <2>2 DEF RunInv, BackgroundInv, DriverInv
  <2>3. PICK g \in Goroutines : GoroutineStep(g)
    <3>1. StartStage => pc'[b] = pc[b]
      BY <2>1 DEF StartStage, WorkersOf
    <3>2. pc' # pc
      OBVIOUS
    <3> QED
      BY <3>1, <3>2 DEF Next, Work, Collect, CollectorStep, WarmupOver, Receive, ReturnStats, Clock,
             TimePasses, Interrupt, TimerFires, WaitWorkers, CheckStage, StageTimeout, StageOver, StopBackground,
             Close, Returned, vars, pvars, goroutines
  <2>4. CreateEnv(g) \/ LoopExit(g) \/ CheckContext(g) \/ StartIteration(g) \/ Tick(g) \/ Send(g) \/ IterationFailed(g)
    BY <2>3 DEF GoroutineStep
  <2>5. g = b
    BY <2>1, <2>4 DEF CreateEnv, LoopExit, CheckContext, StartIteration, Tick, Send, IterationFailed, Move
  <2>6. Done(BackgroundCtx)
    BY <2>1, <2>4, <2>5 DEF CreateEnv, LoopExit, CheckContext, StartIteration, Tick, Send, IterationFailed, Move
  <2> QED BY <2>6 DEF Done, BackgroundCtx
<1> QED BY <1>1, RunInvariant, PTL DEF Spec, BackgroundSpansStages

(* A stage that starts after the cancellation, its check having come       *)
(* before, is the last one and sends no results (run.go:73, :87).          *)
THEOREM StageAfterCancelIsIdle == Spec => LateStageIsIdle
<1> DEFINE A == doomed => stage' = stage /\ \A w \in Workers : sent'[w] = sent[w]
<1>1. RunInv /\ LateInv /\ DoomedInv /\ [Next]_vars => [A]_vars
  <2> SUFFICES ASSUME RunInv, LateInv, DoomedInv, [Next]_vars, doomed
               PROVE  stage' = stage /\ \A w \in Workers : sent'[w] = sent[w]
    OBVIOUS
  <2>1. ~StartStage
    BY DEF StartStage, DoomedInv
  <2>2. stage' = stage
    BY <2>1 DEF Next, Work, Collect, Clock, TimerFires, WaitWorkers, CheckStage, StageTimeout, StageOver,
                StopBackground, Close, Returned, vars
  <2>3. ASSUME NEW g \in Goroutines, Work(g)
        PROVE  \A w \in Workers : sent'[w] = sent[w]
    <3>1. CASE Send(g)
      <4>1. g \notin Workers
        BY <2>3, <3>1, CancelledGoroutine DEF Work
      <4> QED BY <3>1, <4>1 DEF Send, RunInv, TypeInv, Goroutines
    <3>2. CASE ~Send(g)
      BY <2>3, <3>2 DEF Work, GoroutineStep, CreateEnv, LoopExit, CheckContext, StartIteration, Tick, IterationFailed
    <3> QED BY <3>1, <3>2
  <2>4. (\E g \in Goroutines : Work(g)) \/ UNCHANGED sent
    BY <2>1 DEF Next, Collect, CollectorStep, WarmupOver, Receive, ReturnStats, Clock, TimePasses, Interrupt,
                TimerFires, WaitWorkers, CheckStage, StageTimeout, StageOver, StopBackground, Close, Returned,
                vars, pvars, goroutines
  <2> QED BY <2>2, <2>3, <2>4
<1> QED BY <1>1, RunInvariant, CancelledInit, CancelledStep, PTL DEF Spec, LateStageIsIdle

(***************************************************************************)
(* The safety part of ImplementsContract: a step of a run produces or      *)
(* collects one result, returns when everything is collected, or is        *)
(* invisible.  That the run does return is checked by TLC.                 *)
(***************************************************************************)
Got == [g \in Goroutines |-> counted[g] + discarded[g]]

LEMMA SendProduces ==
  ASSUME RunInv, NEW g \in Goroutines, Send(g)
  PROVE  Contract!Produce(g)
<1>1. collector # "returned"
  BY DEF RunInv, DriverInv, Send
<1> QED BY <1>1 DEF Contract!Produce, Send, collected

LEMMA ReceiveCollects ==
  ASSUME RunInv, Receive
  PROVE  \E g \in Goroutines : Contract!Collect(g)
<1>1. /\ chan \in Seq(Result) /\ chan # <<>>
      /\ counted \in [Goroutines -> Nat] /\ discarded \in [Goroutines -> Nat] /\ sent \in [Goroutines -> Nat]
  BY DEF RunInv, TypeInv, Receive
<1>2. PICK g \in Goroutines : g = Head(chan).by
  <2>1. Head(chan) \in Result
    BY <1>1
  <2> QED BY <2>1 DEF Result
<1>3. /\ UNCHANGED <<sent, collector>> /\ collector = "select"
      /\ \/ counted' = [counted EXCEPT ![g] = @ + 1] /\ discarded' = discarded
         \/ discarded' = [discarded EXCEPT ![g] = @ + 1] /\ counted' = counted
  <2>1. CASE warmingUp
    BY <1>2, <2>1 DEF Receive, goroutines
  <2>2. CASE ~warmingUp
    BY <1>2, <2>2 DEF Receive, goroutines
  <2> QED BY <2>1, <2>2
<1>4. counted[g] + discarded[g] < sent[g]
  <2>1. Cardinality(Of(chan, g)) = Cardinality(Of(Tail(chan), g)) + 1
    BY <1>1, <1>2, CountTail
  <2>2. Tail(chan) \in Seq(Result)
    BY <1>1
  <2>3. Cardinality(Of(Tail(chan), g)) \in Nat
    BY <2>2, OfFinite
  <2>4. sent[g] = Cardinality(Of(chan, g)) + counted[g] + discarded[g]
    BY DEF RunInv, NothingLost, InFlight, Of
  <2> QED BY <1>1, <2>1, <2>3, <2>4
<1>5. Got' = [Got EXCEPT ![g] = @ + 1]
  <2>1. \A h \in Goroutines : counted'[h] + discarded'[h]
          = (IF h = g THEN counted[h] + discarded[h] + 1 ELSE counted[h] + discarded[h])
    <3>1. ASSUME NEW h \in Goroutines, h # g
          PROVE  counted'[h] = counted[h] /\ discarded'[h] = discarded[h]
      BY <1>1, <1>3, <3>1
    <3>2. counted'[g] + discarded'[g] = counted[g] + discarded[g] + 1
      <4>1. counted[g] \in Nat /\ discarded[g] \in Nat
        BY <1>1
      <4>2. \/ counted'[g] = counted[g] + 1 /\ discarded'[g] = discarded[g]
            \/ counted'[g] = counted[g] /\ discarded'[g] = discarded[g] + 1
        BY <1>1, <1>3
      <4> QED BY <4>1, <4>2
    <3> QED BY <3>1, <3>2
  <2>2. Got' = [h \in Goroutines |-> IF h = g THEN counted[h] + discarded[h] + 1 ELSE counted[h] + discarded[h]]
    BY <2>1 DEF Got
  <2>3. [Got EXCEPT ![g] = @ + 1]
          = [h \in Goroutines |-> IF h = g THEN counted[h] + discarded[h] + 1 ELSE counted[h] + discarded[h]]
    BY DEF Got
  <2> QED BY <2>2, <2>3
<1>6. Got[g] < sent[g]
  BY <1>4 DEF Got
<1>7. Contract!Collect(g)
  BY <1>3, <1>5, <1>6 DEF Contract!Collect, Got
<1> QED BY <1>7

LEMMA ReturnReturns ==
  ASSUME RunInv, ReturnStats
  PROVE  Contract!Return
<1>1. \A g \in Goroutines : sent[g] = counted[g] + discarded[g]
  <2> SUFFICES ASSUME NEW g \in Goroutines PROVE sent[g] = counted[g] + discarded[g]
    OBVIOUS
  <2>1. {i \in DOMAIN chan : chan[i].by = g} = {}
    BY DEF ReturnStats
  <2>2. InFlight(g) = 0
    BY <2>1, FS_EmptySet DEF InFlight
  <2> QED BY <2>2 DEF RunInv, TypeInv, NothingLost
<1>2. Got = sent
  BY <1>1 DEF Got, RunInv, TypeInv
<1>3. /\ collector = "select" /\ collector' = "returned"
      /\ UNCHANGED <<sent, counted, discarded>>
  BY DEF ReturnStats, goroutines
<1> QED BY <1>2, <1>3 DEF Contract!Return, Got

THEOREM RunImplementsContract ==
  Spec => Contract!Init /\ [][Contract!Next]_(Contract!rvars)
<1>1. Init => Contract!Init
  BY DEF Init, PipelineInit, Contract!Init
<1>2. RunInv /\ [Next]_vars => [Contract!Next]_(Contract!rvars)
  <2> SUFFICES ASSUME RunInv, [Next]_vars PROVE [Contract!Next]_(Contract!rvars)
    OBVIOUS
  <2>1. CASE \E g \in Goroutines : Send(g)
    BY <2>1, SendProduces DEF Contract!Next
  <2>2. CASE Receive
    BY <2>2, ReceiveCollects DEF Contract!Next
  <2>3. CASE ReturnStats
    BY <2>3, ReturnReturns DEF Contract!Next
  <2>4. CASE UNCHANGED <<sent, counted, discarded, collector>>
    BY <2>4 DEF Contract!rvars
  <2>5. (\E g \in Goroutines : Send(g)) \/ Receive \/ ReturnStats
          \/ UNCHANGED <<sent, counted, discarded, collector>>
    <3>1. CASE \E g \in Goroutines : Work(g)
      BY <3>1 DEF Work, GoroutineStep, CreateEnv, LoopExit, CheckContext, StartIteration, Tick, IterationFailed, collected
    <3>2. CASE Collect
      BY <3>2 DEF Collect, CollectorStep, WarmupOver, goroutines
    <3>3. CASE ~(\E g \in Goroutines : Work(g)) /\ ~Collect
      BY <3>3 DEF Next, Clock, TimePasses, Interrupt, TimerFires, WaitWorkers, CheckStage, StartStage, StageTimeout,
                  StageOver, StopBackground, Close, Returned, vars, pvars, goroutines, collected
    <3> QED BY <3>1, <3>2, <3>3
  <2> QED BY <2>1, <2>2, <2>3, <2>4, <2>5
<1> QED BY <1>1, <1>2, RunInvariant, PTL DEF Spec
=============================================================================
