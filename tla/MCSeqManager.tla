---------------------------- MODULE MCSeqManager ----------------------------
(* Instances of SeqManager for TLC: two workers over two sequences.        *)
EXTENDS SeqManager

MCSeqs  == {"order_id", "line_id"}
MCNames == MCSeqs \cup {"undefined"}
MCStart == [s \in MCSeqs |-> IF s = "order_id" THEN 1 ELSE 1000]
MCStep  == [s \in MCSeqs |-> IF s = "order_id" THEN 1 ELSE -5]
=============================================================================
