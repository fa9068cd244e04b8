----------------------------- MODULE TxContract -----------------------------
(***************************************************************************)
(* What a transaction of the run section promises, whatever retries,       *)
(* conditions, locals and waits do underneath: the worker runs one         *)
(* transaction at a time, each is reported exactly once as a commit, a     *)
(* conditional rollback or an error, a reported commit is a commit of the  *)
(* database, and the database is changed by nothing else than commits -    *)
(* some of which the driver may have reported as errors.                   *)
(***************************************************************************)
EXTENDS Naturals

VARIABLES
  phase,      (* "idle", "trying", or "committed" and not yet reported      *)
  dbCommits,  (* commits of the database                                    *)
  ambiguous,  (* those whose commit call returned an error                  *)
  commits, rollbacks, errors  (* the reports                                *)

cvars == <<phase, dbCommits, ambiguous, commits, rollbacks, errors>>

Init ==
  /\ phase = "idle"
  /\ dbCommits = 0 /\ ambiguous = 0
  /\ commits = 0 /\ rollbacks = 0 /\ errors = 0

Start ==
  /\ phase = "idle" /\ phase' = "trying"
  /\ UNCHANGED <<dbCommits, ambiguous, commits, rollbacks, errors>>

Commit ==
  /\ phase = "trying" /\ phase' = "committed"
  /\ dbCommits' = dbCommits + 1
  /\ UNCHANGED <<ambiguous, commits, rollbacks, errors>>

(* The effects are in the database and the worker was told they are not. *)
AmbiguousCommit ==
  /\ phase = "trying"
  /\ dbCommits' = dbCommits + 1 /\ ambiguous' = ambiguous + 1
  /\ UNCHANGED <<phase, commits, rollbacks, errors>>

ReportCommit ==
  /\ phase = "committed" /\ phase' = "idle"
  /\ commits' = commits + 1
  /\ UNCHANGED <<dbCommits, ambiguous, rollbacks, errors>>

ReportRollback ==
  /\ phase = "trying" /\ phase' = "idle"
  /\ rollbacks' = rollbacks + 1
  /\ UNCHANGED <<dbCommits, ambiguous, commits, errors>>

ReportError ==
  /\ phase = "trying" /\ phase' = "idle"
  /\ errors' = errors + 1
  /\ UNCHANGED <<dbCommits, ambiguous, commits, rollbacks>>

Next == Start \/ Commit \/ AmbiguousCommit
          \/ ReportCommit \/ ReportRollback \/ ReportError

Report == ReportCommit \/ ReportRollback \/ ReportError

(* A transaction that was started is reported. *)
Spec == Init /\ [][Next]_cvars /\ WF_cvars(Report)
=============================================================================
