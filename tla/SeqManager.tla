----------------------------- MODULE SeqManager -----------------------------
(***************************************************************************)
(* The global sequences of a workload (pkg/seq/manager.go): named counters *)
(* that every worker goroutine draws from with seq_global and that         *)
(* seq_rand, seq_zipf, seq_norm, seq_exp and seq_lognorm pick from.        *)
(*                                                                         *)
(* `edg all` builds two managers over the same definitions.  The command's *)
(* own goroutine draws from the first one during seed and deseed, and      *)
(* runStage/runStages build the second one for the workers of the run.     *)
(***************************************************************************)
EXTENDS Integers, Sequences, Functions

CONSTANTS
  Seqs,       (* names defined in the config's seq section                 *)
  Names,      (* names the expressions use: the defined ones and others    *)
  Start,      (* Start[s]: first value of sequence s                       *)
  Step,       (* Step[s]: increment of sequence s, 0 when left out         *)
  Main,       (* the goroutine of the command: seed and deseed             *)
  RunWorkers, (* the worker goroutines of the run section                  *)
  MaxDraws    (* bound: values drawn from one sequence of one manager      *)

ASSUME NamesAssumption  == Seqs \subseteq Names
ASSUME ValuesAssumption == Start \in [Seqs -> Int] /\ Step \in [Seqs -> Int]
ASSUME CallerAssumption == Main \notin RunWorkers
ASSUME BoundAssumption  == MaxDraws \in Nat

Callers  == RunWorkers \cup {Main}
Managers == {"command", "run"}

VARIABLES
  phase,    (* "seed", "run" or "deseed": what the command is doing        *)
  counter,  (* counter[m][s]: the atomic counter                           *)
  pc,       (* pc[c]: what goroutine c does inside the manager             *)
  loc,      (* loc[c]: the sequence it works on and the index it computed  *)
  issued,   (* history: issued[m][s], the values Next returned, in order   *)
  picked    (* history: picked[m][s], the values the picks returned        *)

vars == <<phase, counter, pc, loc, issued, picked>>

(* The manager an environment was given with SetSeqManager. *)
ManagerOf(c) == IF c = Main THEN "command" ELSE "run"

(* Only the command's goroutine runs outside the run section, and it waits *)
(* for the workers during it.                                              *)
Active(c) == (c = Main) <=> (phase # "run")

(* start + idx*step: what Next and the picks turn an index into. *)
Value(s, idx) == Start[s] + idx * Step[s]

(* The values the sequence has produced so far. *)
Generated(m, s) == {Value(s, k) : k \in 0 .. (counter[m][s] - 1)}

Idle == [seq |-> "none", idx |-> 0]

Init ==
  /\ phase   = "seed"
  /\ counter = [m \in Managers |-> [s \in Seqs |-> 0]]
  /\ pc      = [c \in Callers |-> "idle"]
  /\ loc     = [c \in Callers |-> Idle]
  /\ issued  = [m \in Managers |-> [s \in Seqs |-> <<>>]]
  /\ picked  = [m \in Managers |-> [s \in Seqs |-> {}]]

(***************************************************************************)
(* Next: the atomic add reserves an index; the value is computed from it   *)
(* and returned in a later step, when other goroutines may have drawn too. *)
(* A name the config does not define is an error and touches nothing, so   *)
(* it is no step of this specification.                                    *)
(***************************************************************************)
NextAddOffByOne(c, s) == (* mutant: the index is taken before the add *)
  /\ Active(c) /\ pc[c] = "idle" /\ s \in Seqs
  /\ counter[ManagerOf(c)][s] < MaxDraws
  /\ counter' = [counter EXCEPT ![ManagerOf(c)][s] = @ + 1]
  /\ loc' = [loc EXCEPT ![c] = [seq |-> s, idx |-> counter[ManagerOf(c)][s] - 1]]
  /\ pc'  = [pc EXCEPT ![c] = "return"]
  /\ UNCHANGED <<phase, issued, picked>>

NextAdd(c, s) ==
  /\ Active(c) /\ pc[c] = "idle" /\ s \in Seqs
  /\ counter[ManagerOf(c)][s] < MaxDraws
  /\ counter' = [counter EXCEPT ![ManagerOf(c)][s] = @ + 1]
  /\ loc' = [loc EXCEPT ![c] = [seq |-> s, idx |-> counter[ManagerOf(c)][s]]]
  /\ pc'  = [pc EXCEPT ![c] = "return"]
  /\ UNCHANGED <<phase, issued, picked>>

NextReturnReload(c) == (* mutant: Add(1), then Load() - 1 *)
  LET s == loc[c].seq IN
  /\ pc[c] = "return"
  /\ issued' = [issued EXCEPT ![ManagerOf(c)][s] =
                              Append(@, Value(s, counter[ManagerOf(c)][s] - 1))]
  /\ pc'  = [pc EXCEPT ![c] = "idle"]
  /\ loc' = [loc EXCEPT ![c] = Idle]
  /\ UNCHANGED <<phase, counter, picked>>

NextReturn(c) ==
  LET s == loc[c].seq IN
  /\ pc[c] = "return"
  /\ issued' = [issued EXCEPT ![ManagerOf(c)][s] =
                              Append(@, Value(s, loc[c].idx))]
  /\ pc'  = [pc EXCEPT ![c] = "idle"]
  /\ loc' = [loc EXCEPT ![c] = Idle]
  /\ UNCHANGED <<phase, counter, picked>>

(***************************************************************************)
(* Rand, Zipf, Norm, Exp and Lognorm: load the count, fail when it is 0,   *)
(* otherwise draw an index below the loaded count.  The distributions      *)
(* differ only in how likely each index is.  A distribution that rejects   *)
(* its parameters or finds no sample in range returns an error instead.    *)
(***************************************************************************)
PickLoad(c, s) ==
  /\ Active(c) /\ pc[c] = "idle" /\ s \in Seqs
  /\ counter[ManagerOf(c)][s] # 0
  /\ loc' = [loc EXCEPT ![c] = [seq |-> s, idx |-> counter[ManagerOf(c)][s]]]
  /\ pc'  = [pc EXCEPT ![c] = "pick"]
  /\ UNCHANGED <<phase, counter, issued, picked>>

PickIndicesInclusive(n) == 0 .. n (* mutant: the bound is drawn too *)
PickIndices(n) == 0 .. (n - 1)

PickReturn(c) ==
  LET s == loc[c].seq IN
  /\ pc[c] = "pick"
  /\ \/ \E idx \in PickIndices(loc[c].idx) :
          picked' = [picked EXCEPT ![ManagerOf(c)][s] = @ \cup {Value(s, idx)}]
     \/ UNCHANGED picked
  /\ pc'  = [pc EXCEPT ![c] = "idle"]
  /\ loc' = [loc EXCEPT ![c] = Idle]
  /\ UNCHANGED <<phase, counter, issued>>

(***************************************************************************)
(* The command moves on when its own section is done.  The run's manager   *)
(* comes from NewManager, so its counters are 0 whatever seeding drew; the *)
(* command's environment keeps its manager for deseed.                     *)
(***************************************************************************)
StartRun ==
  /\ phase = "seed" /\ pc[Main] = "idle"
  /\ phase' = "run"
  /\ counter' = [counter EXCEPT !["run"] = [s \in Seqs |-> 0]]
  /\ UNCHANGED <<pc, loc, issued, picked>>

FinishRun ==
  /\ phase = "run" /\ \A w \in RunWorkers : pc[w] = "idle"
  /\ phase' = "deseed"
  /\ UNCHANGED <<counter, pc, loc, issued, picked>>

Next ==
  \/ \E c \in Callers, s \in Names : NextAdd(c, s) \/ PickLoad(c, s)
  \/ \E c \in Callers : NextReturn(c) \/ PickReturn(c)
  \/ StartRun
  \/ FinishRun

Spec == Init /\ [][Next]_vars

-----------------------------------------------------------------------------
(* Shape of the state. *)
TypeOK ==
  /\ phase   \in {"seed", "run", "deseed"}
  /\ counter \in [Managers -> [Seqs -> Nat]]
  /\ pc      \in [Callers -> {"idle", "return", "pick"}]
  /\ loc     \in [Callers -> [seq : Seqs \cup {"none"}, idx : Nat]]
  /\ issued  \in [Managers -> [Seqs -> Seq(Int)]]
  /\ picked  \in [Managers -> [Seqs -> SUBSET Int]]

(* One manager never hands the same value to two calls of seq_global,      *)
(* however the goroutines interleave between the atomic add and the return.*)
UniqueValues ==
  \A m \in Managers, s \in Seqs : Step[s] # 0 => IsInjective(issued[m][s])

(* A sequence has no holes: every index below the counter has either been  *)
(* returned as a value or is still in the hands of one goroutine.          *)
InFlight(m, s, k) ==
  \E c \in Callers : /\ ManagerOf(c) = m
                     /\ pc[c] = "return"
                     /\ loc[c] = [seq |-> s, idx |-> k]

GapFree ==
  \A m \in Managers, s \in Seqs : \A k \in 0 .. (counter[m][s] - 1) :
    InFlight(m, s, k) \/ Value(s, k) \in Range(issued[m][s])

(* A pick returns a value the sequence has generated, although the count   *)
(* it was drawn under may be old by the time it is used.                   *)
PicksGenerated ==
  \A m \in Managers, s \in Seqs : picked[m][s] \subseteq Generated(m, s)
=============================================================================
