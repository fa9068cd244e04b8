------------------------------ MODULE Lifecycle ------------------------------
(***************************************************************************)
(* The commands of a workload (cmd/edg/workload/workload.go): up, seed,    *)
(* run, deseed and down each run one section, `all` runs them in sequence  *)
(* and tears down in a deferred function.  A section executes its queries  *)
(* in order and stops at the first error; the run section is Run, seen    *)
(* through RunContract: it starts and it returns.                          *)
(***************************************************************************)
EXTENDS Naturals, Sequences

CONSTANTS
  Commands,  (* the commands the user may give                              *)
  Queries    (* Queries[s]: number of queries of section s, 0: not given;   *)
             (* Queries["run"]: of items of the run section and of stages   *)

Sections == {"up", "seed", "init", "deseed", "down"}
Teardown == {"deseed", "down"}

ASSUME CommandsAssumption == Commands \subseteq {"all", "run", "up", "seed", "deseed", "down"}
ASSUME QueriesAssumption  == Queries \in [Sections \cup {"run"} -> Nat]

VARIABLES
  command,     (* the command that runs                                     *)
  at,          (* where it is: a section, "running", "expectations",        *)
               (* "connect", "env" or "exit"                                *)
  next,        (* the next query of the section                             *)
  cancelled,   (* the contexts that are cancelled: "command", "run"         *)
  err,         (* the error the command returns, "nil" or "error"           *)
  interrupted, (* history: the user pressed Ctrl+C                          *)
  executed,    (* history: queries of each section that took effect         *)
  faults       (* history: sections a query of which the database refused,  *)
               (* with its context alive                                    *)

vars == <<command, at, next, cancelled, err, interrupted, executed, faults>>

-----------------------------------------------------------------------------
(* What follows a section that is over, without and with an error.  `all`  *)
(* goes through its deferred function either way, once it is registered.   *)
After(s) ==
  CASE command = "all" /\ s = "up"     -> "seed"
    [] command = "all" /\ s = "seed"   -> IF Queries["run"] > 0 THEN "init" ELSE "deseed"
    [] command = "all" /\ s = "deseed" -> "down"
    [] s = "init"                      -> "running"
    [] OTHER                           -> "exit"

AfterError(s) ==
  IF command = "all" THEN (IF s = "deseed" THEN "down" ELSE IF s = "down" THEN "exit" ELSE "deseed")
                     ELSE "exit"

First(c) == IF c = "all" THEN "up" ELSE IF c = "run" THEN "init" ELSE c

(* The context of every section: that of the command, or one below it.     *)
Dead == "command" \in cancelled

Init ==
  /\ command \in Commands /\ at = "connect" /\ next = 1
  /\ cancelled = {} /\ err = "nil" /\ interrupted = FALSE
  /\ executed = [s \in Sections |-> 0] /\ faults = {}

Connect ==
  /\ at = "connect"
  /\ \/ at' = "env" /\ UNCHANGED err
     \/ at' = "exit" /\ err' = "error"
  /\ UNCHANGED <<command, next, cancelled, interrupted, executed, faults>>

(* NewEnv compiles the config.  An error of it is returned before the      *)
(* teardown is deferred, and before any query.                             *)
NewEnv ==
  /\ at = "env"
  /\ \/ at' = First(command) /\ UNCHANGED err
     \/ at' = "exit" /\ err' = "error"
  /\ next' = 1
  /\ UNCHANGED <<command, cancelled, interrupted, executed, faults>>

ExecQuery ==
  /\ at \in Sections /\ next <= Queries[at]
  /\ executed' = [executed EXCEPT ![at] = @ + 1]
  /\ next' = next + 1
  /\ UNCHANGED <<command, at, cancelled, err, interrupted, faults>>

QueryFailsContinues == (* mutant: _ = e.Seed(ctx), the error of a section is dropped *)
  /\ at \in Sections /\ next <= Queries[at]
  /\ at' = After(at) /\ next' = 1
  /\ faults' = IF Dead THEN faults ELSE faults \cup {at}
  /\ UNCHANGED <<command, cancelled, err, interrupted, executed>>

(* The deferred function of `all` drops the errors of deseed and down.     *)
QueryFails ==
  /\ at \in Sections /\ next <= Queries[at]
  /\ at' = AfterError(at) /\ next' = 1
  /\ err' = IF command = "all" /\ at \in Teardown THEN err ELSE "error"
  /\ faults' = IF Dead THEN faults ELSE faults \cup {at}
  /\ UNCHANGED <<command, cancelled, interrupted, executed>>

(* The run section compiles an environment of its own before its init.     *)
RunEnvFails ==
  /\ at = "init" /\ next = 1
  /\ at' = AfterError("init") /\ err' = "error"
  /\ UNCHANGED <<command, next, cancelled, interrupted, executed, faults>>

SectionOver ==
  /\ at \in Sections /\ next > Queries[at]
  /\ at' = After(at) /\ next' = 1
  /\ UNCHANGED <<command, cancelled, err, interrupted, executed, faults>>

(* The run returns when its context or its last stage is over, or earlier  *)
(* when every worker has stopped on fail() and no background one is left.  *)
RunReturns ==
  /\ at = "running" /\ at' = "expectations"
  /\ UNCHANGED <<command, next, cancelled, err, interrupted, executed, faults>>

RunTimerCancelsAll == (* mutant: all hands its own cancel to the run *)
  /\ at = "running" /\ "run" \notin cancelled
  /\ cancelled' = cancelled \cup {"run", "command"}
  /\ UNCHANGED <<command, at, next, err, interrupted, executed, faults>>

(* The timer of a run without stages calls the cancel function it was      *)
(* given: that of a context below the command's in `all`, the command's    *)
(* own in `run`.  A run in stages returns without.                         *)
RunTimer ==
  /\ at = "running" /\ "run" \notin cancelled
  /\ cancelled' = cancelled \cup (IF command = "all" THEN {"run"} ELSE {"run", "command"})
  /\ UNCHANGED <<command, at, next, err, interrupted, executed, faults>>

CheckExpectations ==
  /\ at = "expectations"
  /\ at' = IF command = "all" THEN "deseed" ELSE "exit"
  /\ err' \in {err, "error"}
  /\ UNCHANGED <<command, next, cancelled, interrupted, executed, faults>>

(* run and all ask for the signal once they are connected: Ctrl+C then     *)
(* cancels their context.  It ends the process before that, in the other   *)
(* commands, and in run once the timer has called the same cancel function,*)
(* which gives the signal back.                                            *)
Interrupt ==
  /\ at # "exit" /\ interrupted' = TRUE
  /\ IF \/ command = "all" /\ at # "connect"
        \/ command = "run" /\ at # "connect" /\ "run" \notin cancelled
     THEN cancelled' = cancelled \cup {"command"} /\ UNCHANGED <<at, err>>
     ELSE at' = "exit" /\ err' = "error" /\ UNCHANGED cancelled
  /\ UNCHANGED <<command, next, executed, faults>>

Exited == at = "exit" /\ UNCHANGED vars

Next ==
  \/ Connect \/ NewEnv \/ ExecQuery \/ QueryFails \/ RunEnvFails \/ SectionOver
  \/ RunTimer \/ RunReturns \/ CheckExpectations
  \/ Interrupt \/ Exited

Spec == Init /\ [][Next]_vars

-----------------------------------------------------------------------------
Untouched(s) == executed[s] = 0
Complete(s)  == executed[s] = Queries[s]

(* The phases build on one another: nothing is seeded into a schema that   *)
(* is not complete, and no run starts on a database that is not seeded.    *)
InOrder ==
  command = "all" =>
    /\ ~Untouched("seed") => Complete("up")
    /\ ~Untouched("init") \/ at = "running" => Complete("up") /\ Complete("seed")

(* `all` leaves the database clean: whatever failed before the teardown,   *)
(* and although the run ended by cancelling its context, every query of    *)
(* deseed and down takes effect unless Ctrl+C or the database forbid it    *)
(* (docs/content/docs/configuration/expectations.md:111).                  *)
LeftClean ==
  /\ command = "all" /\ at = "exit" /\ ~interrupted
  /\ \E s \in Sections : ~Untouched(s)
  => \A s \in Teardown \ faults : Complete(s)

(* The sections the exit status of a command answers for.                  *)
Promised ==
  IF command = "all" THEN {"up", "seed"} \cup (IF Queries["run"] > 0 THEN {"init"} ELSE {})
                     ELSE {First(command)}

(* A command that exits without an error has executed every query of its   *)
(* sections; only the teardown of `all` is not part of the exit status.    *)
ReportsFailure ==
  at = "exit" /\ err = "nil" => \A s \in Promised : Complete(s)
=============================================================================
