------------------------------ MODULE MCSchema ------------------------------
EXTENDS Schema, TLC

Key(n, t, c, r, rc) == [name |-> n, table |-> t, cols |-> c, ref |-> r, refCols |-> rc, own |-> TRUE]
Out(k) == [k EXCEPT !.own = FALSE]

Col(n, g) == [name |-> n, gen |-> g]

Catalog(ts, fks) ==
  [tables |-> ts, views |-> {"view"}, fks |-> fks,
   keys |-> [t \in ToSet(ts) |-> {"id"}],
   columns |-> [t \in ToSet(ts) \cup {"view"} |->
      <<Col("id", CASE t = "a" -> "serial" [] t = "b" -> "identity" [] t = "c" -> "computed" [] OTHER -> "default"),
        Col("x", "none"), Col("y", "none")>>]]

A  == <<"a", "b", "c", "d">>
I  == <<"id">>

(* A chain against the alphabet, a diamond, a tree beside two keys to one  *)
(* table, a cycle, a key of two columns, a key into another schema, one    *)
(* column in two keys, two keys of one name, a table that is all default.  *)
MCCatalogs ==
  {Catalog(<<>>, {}),
   Catalog(A, {}),
   Catalog(A, {Key("k1", "a", <<"x">>, "b", I), Key("k2", "b", <<"x">>, "c", I), Key("k3", "c", <<"x">>, "d", I)}),
   Catalog(A, {Key("k1", "d", <<"x">>, "b", I), Key("k2", "d", <<"y">>, "c", I),
               Key("k3", "b", <<"x">>, "a", I), Key("k4", "c", <<"x">>, "a", I)}),
   Catalog(A, {Key("k1", "b", <<"x">>, "b", I), Key("k2", "c", <<"x">>, "b", I), Key("k3", "c", <<"y">>, "b", I)}),
   Catalog(A, {Key("k1", "a", <<"x">>, "b", I), Key("k2", "b", <<"x">>, "a", I)}),
   Catalog(A, {Key("k1", "a", <<"x", "y">>, "b", <<"id", "x">>), Key("k2", "b", <<"y">>, "d", I)}),
   Catalog(A, {Out(Key("k1", "a", <<"x">>, "o", I)), Key("k2", "b", <<"x">>, "c", I)}),
   Catalog(A, {Key("k1", "a", <<"x">>, "b", I), Key("k2", "a", <<"x">>, "c", I), Key("k3", "b", <<"x">>, "c", I)}),
   Catalog(A, {Key("k1", "a", <<"x">>, "b", I), Key("k1", "c", <<"x">>, "d", I)})}
=============================================================================
