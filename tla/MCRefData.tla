----------------------------- MODULE MCRefData -----------------------------
(* One reference dataset of two rows, one that an init query fills and one *)
(* whose init query has no type; no row is in two datasets' results.       *)
EXTENDS RefData, TLC

MCInitType == [q \in InitQueries |-> IF q = "accounts" THEN "query" ELSE ""]
MCRefRows  == [d \in Refs |-> <<"r1", "r2">>]
MCDbRows   == {<<>>, <<"a1", "a2">>}
Symmetry   == Permutations(Workers)
=============================================================================
