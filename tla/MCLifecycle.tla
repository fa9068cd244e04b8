----------------------------- MODULE MCLifecycle -----------------------------
(* Instances of Lifecycle for TLC. *)
EXTENDS Lifecycle

MCQueries == [s \in Sections \cup {"run"} |-> IF s \in {"init", "run"} THEN 1 ELSE 2]
=============================================================================
