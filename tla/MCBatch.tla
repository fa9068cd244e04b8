------------------------------ MODULE MCBatch -------------------------------
EXTENDS Batch

(* A cfg takes no negative numbers. *)
MCCounts == {-1, 0, 1, 2, 3, 5}

Q1 == <<"q1">>
Q2 == <<"q2">>
D  == <<"delim">>
T  == <<"text">>
P(i) == <<"$", i>>

(* INSERT ... VALUES ($1, $2); the strings of an unpacking query; one      *)
(* string and one bare; a command of MongoDB; __values__; ? and @p.        *)
Bare   == <<T, D, P(1), D, P(2), D, T>>
Ends   == <<T, D, P(1), D, P(2)>>
Quoted == <<T, D, Q1, P(1), Q1, D, Q1, P(2), Q1, D>>
Doubled == <<T, D, Q2, P(1), Q2, D, Q2, P(2), Q2, D>>
Values == <<T, <<"values">>, T>>
Marks  == <<T, D, <<"?">>, D, <<"?">>, D>>

Query0(kind, text) ==
  [kind |-> kind, text |-> text, args |-> 2, reads |-> FALSE, named |-> TRUE,
   prepared |-> FALSE, json |-> FALSE, quoting |-> {}]

Plain(text) == Query0("plain", text)
Each(text)  == Query0("each", text)
Many(text)  == Query0("batch", text)
Reading(q)  == [q EXCEPT !.reads = TRUE]
Prepared(q) == [q EXCEPT !.prepared = TRUE]
Unnamed(q)  == [q EXCEPT !.named = FALSE]

(* Some of the values hold quotes; in a batch of MongoDB every way three   *)
(* rows can, which its statements do not always survive.                   *)
Quoting(q, which) == [q EXCEPT !.quoting = which]
Some == {<<1, 1>>, <<2, 1>>, <<2, 2>>, <<3, 2>>}

Setup(driver, tx, section, queries) ==
  [driver |-> driver, tx |-> tx, section |-> section, queries |-> queries]

Of(driver, tx, section, queries) ==
  Setup(driver, tx, section,
        [n \in DOMAIN queries |->
           IF driver = "mongodb" /\ queries[n].kind = "batch" THEN queries[n]
           ELSE Quoting(queries[n], Some)])

Misreadings ==
  {Setup("mongodb", FALSE, "seed", <<Quoting(Many(t), which)>>) :
     t \in {Bare, Doubled}, which \in SUBSET ((1 .. 3) \X (1 .. 2))}

(* What the README of the repository and docs/content/docs/configuration/  *)
(* queries.md show for each driver.                                        *)
MCSetups ==
  {Of("pgx", FALSE, "seed", qs) : qs \in
     {<<Many(Values), Each(Bare)>>, <<Many(Quoted), Reading(Many(Quoted))>>,
      <<Many(Bare), Unnamed(Many(Values))>>, <<Reading(Many(Values)), Many(Quoted)>>}}
  \cup
  {Of(d, FALSE, "run", <<Prepared(Plain(Bare)), Reading(Plain(Bare)), Prepared(Each(Ends))>>) :
     d \in Drivers}
  \cup
  {Of("mssql", FALSE, "seed", <<[Many(Quoted) EXCEPT !.json = TRUE], Prepared(Plain(Ends))>>),
   Of("mysql", FALSE, "seed", <<Plain(Marks), Many(Ends)>>),
   Of("mongodb", FALSE, "seed", <<Many(Doubled), Each(Doubled)>>),
   Of("mongodb", FALSE, "seed", <<Many(Bare), Reading(Many(Bare))>>),
   Of("cassandra", FALSE, "seed", <<Many(Bare), Many(Ends)>>),
   Of("cassandra", FALSE, "seed", <<Many(Values), Plain(Quoted)>>)}
  \cup Misreadings \cup
  {Of(d, TRUE, "run", <<Plain(Bare), Each(Bare), Reading(Plain(Ends))>>) : d \in Drivers}
=============================================================================
