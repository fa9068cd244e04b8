------------------------------- MODULE MCSync -------------------------------
(* Two tables; the first holds any rows with unique keys, or rows that     *)
(* share a key or have none, or keys that differ as text only, or that are *)
(* not numbers.  The databases sort an integer column, a text column, or   *)
(* in an order of their own.                                               *)
EXTENDS Sync

MCColumns   == [source |-> {"id", "name", "note"}, target |-> {"id", "name"}]
MCTextOrder == <<Null, "01", "1", "10", "2", "nan", "x">>
MCNumber    == [k \in {"01", "1", "10", "2", "nan"} |->
                  CASE k \in {"01", "1"} -> 1 [] k = "2" -> 2 [] k = "10" -> 10 [] k = "nan" -> NaN]
Numeric     == <<Null, "01", "1", "2", "10", "nan", "x">>
Foreign     == <<"x", "2", "10", "1", "nan", "01", Null>>

Source(k, v) == [id |-> k, name |-> v, note |-> "n"]
Target(k, v) == [id |-> k, name |-> v]

Pick(Row(_, _), f) == {Row(k, f[k]) : k \in {j \in DOMAIN f : f[j] # "no"}}
Keyed(Row(_, _), ks) == {Pick(Row, f) : f \in [ks -> {"no", "a", "b"}]}

Pair(s, t) == [source |-> s, target |-> t]
Second     == Pair({Source("1", "a")}, {Target("1", "a")})
Odd == {Pair({Source("1", "a"), Source("1", "b")}, {Target("1", "b"), Target("2", "a")}),
        Pair({Source(Null, "a"), Source("2", "a")}, {Target("2", "a")}),
        Pair({Source("1", "a"), Source("x", "a")}, {Target("01", "a"), Target("x", "a")}),
        Pair({Source("1", "a"), Source("01", "a")}, {Target("1", "a"), Target("nan", "a")}),
        Pair({Source("2", "a"), Source("nan", "a")}, {Target("10", "a"), Target("nan", "a"), Target("x", "a")})}

MCContents ==
  {<<Pair(s, t), Second>> : s \in Keyed(Source, {"1", "2", "10"}), t \in Keyed(Target, {"1", "2", "10"})}
  \cup {<<Second, p>> : p \in Odd \cup {Pair(Keyed1, {}) : Keyed1 \in Keyed(Source, {"1", "2"})}}

Flags(b, ignored, replicates, order) ==
  [batch |-> b, ignored |-> ignored, replicates |-> replicates, order |-> [x \in Sides |-> order]]
MCOptions ==
  {Flags(b, {}, b = 1, Numeric) : b \in {0, 1, 2}}
  \cup {Flags(2, {"name"}, FALSE, Foreign), Flags(2, {}, FALSE, MCTextOrder), Flags(2, {"id"}, FALSE, Numeric)}

MCDraws == [globals |-> 1, up |-> 0, seed |-> 2, deseed |-> 1, down |-> 0]
=============================================================================
