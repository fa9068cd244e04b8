------------------------------ MODULE MCStage -------------------------------
(* Queries with and without args, batches, one with __values__, one name   *)
(* in two sections, and queries without a name that share a file.          *)
EXTENDS Stage

Q(name, columns, batch) == [name |-> name, columns |-> columns, batch |-> batch, placeholders |-> DOMAIN columns]
ValuesBatch(name, columns) == [Q(name, columns, TRUE) EXCEPT !.placeholders = {}]

Plan(up, seed, down) == [up |-> up, seed |-> seed, deseed |-> <<>>, down |-> down]

MCPrograms ==
  {Plan(<<Q("t", <<>>, FALSE)>>, <<Q("t", <<"a", "b">>, FALSE), Q("u", <<"a">>, TRUE)>>, <<Q("t", <<"c">>, FALSE)>>),
   Plan(<<Q("t", <<"k">>, TRUE), Q("u", <<>>, FALSE)>>, <<Q("t", <<"a", "b">>, TRUE)>>, <<>>),
   Plan(<<Q("t", <<>>, FALSE)>>, <<ValuesBatch("t", <<"a", "b">>), Q("u", <<"a">>, FALSE)>>, <<>>),
   Plan(<<>>, <<Q("", <<"a", "b">>, FALSE), Q("", <<"c">>, FALSE)>>, <<Q("d", <<>>, FALSE)>>)}
=============================================================================
