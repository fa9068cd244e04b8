----------------------------- MODULE RunContract -----------------------------
(***************************************************************************)
(* What a run of the workload promises to its caller, with or without      *)
(* stages: results are produced and collected, each at most once; the run  *)
(* returns when everything produced has been collected, nothing is         *)
(* produced after that, and it does return.                                *)
(***************************************************************************)
EXTENDS Naturals

CONSTANT Producers

VARIABLES produced, collected, returned

rvars == <<produced, collected, returned>>

Init ==
  /\ produced  = [p \in Producers |-> 0]
  /\ collected = [p \in Producers |-> 0]
  /\ returned  = FALSE

Produce(p) ==
  /\ ~returned
  /\ produced' = [produced EXCEPT ![p] = @ + 1]
  /\ UNCHANGED <<collected, returned>>

Collect(p) ==
  /\ ~returned /\ collected[p] < produced[p]
  /\ collected' = [collected EXCEPT ![p] = @ + 1]
  /\ UNCHANGED <<produced, returned>>

Return ==
  /\ ~returned /\ collected = produced
  /\ returned' = TRUE
  /\ UNCHANGED <<produced, collected>>

Next == Return \/ \E p \in Producers : Produce(p) \/ Collect(p)

Spec == Init /\ [][Next]_rvars /\ <>returned
=============================================================================
