------------------------------ MODULE MCWorker ------------------------------
(* Instances of Worker for TLC.                                            *)
EXTENDS Worker

Query(n, w) == [cond |-> FALSE, sets |-> n, wait |-> w]
Condition   == [cond |-> TRUE,  sets |-> 0, wait |-> FALSE]

(* A standalone batch of two argument sets and a transaction with locals,  *)
(* two queries and a rollback_if between them.                             *)
Batch    == [tx |-> FALSE, locals |-> FALSE, wait |-> FALSE, steps |-> <<Query(2, TRUE)>>]
Transfer == [tx |-> TRUE, locals |-> TRUE, wait |-> TRUE,
             steps |-> <<Query(1, FALSE), Condition, Query(1, TRUE)>>]

MCItems   == <<Transfer, Batch>>
BatchFirst  == <<Batch, Transfer>>
OneTransfer == <<Transfer>>
NoWeights == <<>>
OneWeight == [i \in {1, 2} |-> IF i = 1 THEN 3 ELSE 0]
=============================================================================
