----------------------------- MODULE Statement ------------------------------
(***************************************************************************)
(* From a query's template and the values of its args to the statements a  *)
(* database receives: formatting and inlining (pkg/env), the split of a    *)
(* batch into one statement per row (pkg/db/batch.go), and what a database *)
(* makes of a statement.                                                   *)
(*                                                                         *)
(* Text is a sequence of tokens <<kind, ...>>: <<"$", i>> is placeholder   *)
(* $i, <<"val", row, i>> the i-th value of a row, <<"sep">> the unit       *)
(* separator, <<"q1">> and <<"q2">> a quote and a double quote, <<"esc">>  *)
(* a double quote after a backslash, <<"delim">> a byte of isGroupDelim,   *)
(* <<"comma">> one that the template does not have, <<"values">> the token *)
(* __values__, <<"tuples", rows>> what it becomes, <<"text">> anything     *)
(* else.  A value may hold quotes: q.quoting has the rows and args of a    *)
(* query whose value does.                                                 *)
(***************************************************************************)
EXTENDS Naturals, Sequences, FiniteSets, SequencesExt

IsQuote(tok) == tok \in {<<"q1">>, <<"q2">>}

(* The quotes immediately around position i, or none. *)
Around(t, i) ==
  IF 1 < i /\ i < Len(t) /\ IsQuote(t[i - 1]) /\ t[i - 1] = t[i + 1]
  THEN {t[i - 1]} ELSE {}

Join(texts, sep) ==
  FlattenSeq([k \in DOMAIN texts |-> IF k = 1 THEN texts[k] ELSE <<sep>> \o texts[k]])

(* A string's text: with quotes in it when the query says so. *)
Value(q, row, i) ==
  <<<<"val", row, i>>>>
  \o IF <<Last(row), i>> \in q.quoting THEN <<<<"q1">>, <<"q2">>, <<"comma">>>> ELSE <<>>

Escape(v, single, double) ==
  FlattenSeq([k \in DOMAIN v |->
    IF v[k] = <<"q1">> THEN single ELSE IF v[k] = <<"q2">> THEN double ELSE <<v[k]>>])

(* SQLFormatValue: a string in the driver's quotes, those in it escaped.   *)
SQLFormatValue(v, driver) ==
  LET Quoted(q, text) == <<q>> \o text \o <<q>> IN
  IF driver = "mongodb" THEN Quoted(<<"q2">>, Escape(v, <<<<"q1">>>>, <<<<"esc">>>>))
  ELSE Quoted(<<"q1">>, Escape(v, <<<<"q1">>, <<"q1">>>>, <<<<"q2">>>>))

(* BatchFormatValue: raw text, for any driver with its quotes doubled. *)
BatchFormatValue(v) == Escape(v, <<<<"q1">>, <<"q1">>>>, <<<<"q2">>>>)

(* BatchJoinJSON: a string of the array. *)
JSONString(v) == <<<<"q2">>>> \o Escape(v, <<<<"q1">>>>, <<<<"esc">>>>) \o <<<<"q2">>>>

-----------------------------------------------------------------------------
(* Args of a batch *)

(* The formatter of an arg of a batch: raw text when the template has the  *)
(* quotes, else quoted.  MongoDB's double quotes are replaced with the     *)
(* placeholder, so the value brings its own.                               *)
FormatBatchValue(t, i, driver, json, v) ==
  LET quotes == UNION {Around(t, p) : p \in {p \in DOMAIN t : t[p] = <<"$", i>>}} IN
  IF json THEN JSONString(BatchFormatValue(v))
  ELSE IF <<"q1">> \in quotes \/ (<<"q2">> \in quotes /\ driver # "mongodb")
    THEN BatchFormatValue(v) ELSE SQLFormatValue(v, driver)

(* One raw arg per position, the values of all rows joined; or a single    *)
(* raw arg with the tuples when the template has __values__.               *)
BatchArgs(q, rows, driver) ==
  IF <<"values">> \in ToSet(q.text)
  THEN <<[raw |-> TRUE, text |-> <<<<"tuples", rows>>>>]>>
  ELSE [i \in 1 .. q.args |->
         [raw |-> TRUE,
          text |-> Join([k \in DOMAIN rows |->
                           FormatBatchValue(q.text, i, driver, q.json, Value(q, rows[k], i))],
                        IF q.json THEN <<"comma">> ELSE <<"sep">>)]]

(* Any other query: one value per arg. *)
PlainArgs(q, row, driver) ==
  [i \in 1 .. q.args |-> [raw |-> FALSE, text |-> SQLFormatValue(Value(q, row, i), driver)]]

(* runSection's inlining.  Quotes around a placeholder go with it when the *)
(* value is not raw (or, for MongoDB, double quotes when it is).           *)
Inline(t, args, driver) ==
  LET Ph(i)   == i \in DOMAIN t /\ t[i][1] = "$" /\ t[i][2] \in DOMAIN args
      Unit(i) == /\ Ph(i) /\ Around(t, i) # {}
                 /\ ~args[t[i][2]].raw \/ (driver = "mongodb" /\ t[i - 1] = <<"q2">>)
  IN FlattenSeq([i \in DOMAIN t |->
       IF Ph(i) THEN args[t[i][2]].text
       ELSE IF t[i] = <<"values">> /\ args # <<>> /\ args[1].raw THEN args[1].text
       ELSE IF Unit(i + 1) \/ Unit(i - 1) THEN <<>>
       ELSE <<t[i]>>])

-----------------------------------------------------------------------------
(* Bind parameters *)

(* translatePlaceholders: for i = 1, 2, ... the first $i becomes ?, :i or  *)
(* @pi, as long as there is one.                                           *)
TranslatePlaceholders(t, driver) ==
  LET has == {i \in DOMAIN t : t[i][1] = "$"}
      n   == CHOOSE n \in 0 .. Len(t) :
               /\ \A i \in 1 .. n : \E p \in has : t[p][2] = i
               /\ ~\E p \in has : t[p][2] = n + 1
      First(p) == t[p][2] <= n /\ \A o \in has : o < p => t[o][2] # t[p][2]
  IN IF driver = "pgx" THEN t
     ELSE [p \in DOMAIN t |->
            IF p \in has /\ First(p)
            THEN IF driver = "mysql" THEN <<"?">> ELSE <<"@p", t[p][2]>>
            ELSE t[p]]

(* The driver fills in its own parameters: by number, or ? by position.    *)
Bind(t, row, driver) ==
  LET Own(p) == t[p][1] = IF driver = "pgx" THEN "$" ELSE IF driver = "mysql" THEN "?" ELSE "@p"
      Index(p) == IF driver = "mysql" THEN Cardinality({o \in 1 .. p : t[o] = <<"?">>}) ELSE t[p][2]
  IN [p \in DOMAIN t |-> IF Own(p) THEN <<"val", row, Index(p)>> ELSE t[p]]

-----------------------------------------------------------------------------
(* pkg/db/batch.go *)

(* findBatchGroups: the stretches of text that hold separators outside     *)
(* quotes, between two delimiters.  A position 0 stands for -1.  It counts *)
(* a double quote that is escaped like any other.                          *)
GroupStep(t) ==
  LET Touch(s, i) == [s EXCEPT !.token = IF @ = 0 THEN i ELSE @]
      Step(s, i) ==
        IF t[i] = <<"q1">> /\ ~s.double THEN [Touch(s, i) EXCEPT !.single = ~@]
        ELSE IF t[i] \in {<<"q2">>, <<"esc">>} /\ ~s.single THEN [Touch(s, i) EXCEPT !.double = ~@]
        ELSE IF s.single \/ s.double THEN s
        ELSE IF t[i] = <<"sep">>
          THEN [s EXCEPT !.group = IF @ = 0 THEN Touch(s, i).token ELSE @, !.sep = TRUE, !.token = 0]
        ELSE IF t[i] \in {<<"delim">>, <<"comma">>}
          THEN [s EXCEPT !.groups = IF s.sep THEN Append(@, <<s.group, i - 1>>) ELSE @,
                         !.token = 0, !.group = 0, !.sep = FALSE]
        ELSE Touch(s, i)
  IN FoldLeftDomain(Step, [single |-> FALSE, double |-> FALSE, token |-> 0, group |-> 0,
                           sep |-> FALSE, groups |-> <<>>], t)

FindBatchGroups(t) ==
  LET s == GroupStep(t) IN
  IF s.sep THEN Append(s.groups, <<s.group, Len(t)>>) ELSE s.groups

(* strings.Split at the separators. *)
Split(t) ==
  FoldLeft(LAMBDA parts, tok : IF tok = <<"sep">> THEN Append(parts, <<>>)
                               ELSE [parts EXCEPT ![Len(parts)] = Append(@, tok)],
           <<<<>>>>, t)

Parts(t, g) == Split(SubSeq(t, g[1], g[2]))

(* Every group has a part for each row of the first, else the index of a   *)
(* part is out of range.                                                   *)
Expandable(t) ==
  LET groups == FindBatchGroups(t) IN
  \A k \in DOMAIN groups : Len(Parts(t, groups[1])) <= Len(Parts(t, groups[k]))

(* One statement per row of the first group. *)
ExpandBatchQuery(t) ==
  LET groups == FindBatchGroups(t)
      In(p)  == {g \in ToSet(groups) : g[1] <= p /\ p <= g[2]}
      Row(r) == FlattenSeq([p \in DOMAIN t |->
                  IF In(p) = {} THEN <<t[p]>>
                  ELSE IF \E g \in In(p) : g[1] = p THEN Parts(t, CHOOSE g \in In(p) : TRUE)[r]
                  ELSE <<>>])
  IN IF groups = <<>> THEN <<t>> ELSE [r \in DOMAIN Parts(t, groups[1]) |-> Row(r)]

-----------------------------------------------------------------------------
(* What a database makes of a statement: the rows it writes, or a syntax   *)
(* error.  A string may hold the values of several rows, which the query   *)
(* unpacks (string_to_array, JSON_TABLE, OPENJSON).                        *)

(* The quotes that count for a database are those that are not escaped. *)
InString(t, i) ==
  LET s == GroupStep(SelectSeq(SubSeq(t, 1, i - 1), LAMBDA tok : tok # <<"esc">>)) IN
  s.single \/ s.double

(* A statement that has lost some of the query's own text, or has          *)
(* something outside its strings that the database cannot read, a value or *)
(* another string right after a string among it.                           *)
Frame(t) == SelectSeq(t, LAMBDA tok : tok[1] \in {"text", "delim"})

Broken(q, t) ==
  \/ Frame(t) # Frame(q.text)
  \/ \E i \in DOMAIN t : ~InString(t, i) /\
       \/ t[i][1] \in {"sep", "comma", "$", "?", "@p", "values"}
       \/ t[i][1] \in {"q2", "val"} /\ i > 1 /\ t[i - 1] = <<"q2">>

(* The values of arg i, in order. *)
Column(t, i) == SelectSeq(t, LAMBDA tok : tok[1] = "val" /\ tok[3] = i)

(* The args in the order of their places; the k-th ? is arg k. *)
Places(t) ==
  LET args   == SelectSeq(t, LAMBDA tok : tok[1] \in {"$", "?", "@p", "val"})
      Arg(k) == IF args[k] = <<"?">> THEN k ELSE args[k][Len(args[k])]
  IN FlattenSeq([k \in DOMAIN args |->
       IF k > 1 /\ Arg(k) = Arg(k - 1) THEN <<>> ELSE <<Arg(k)>>])

(* Every arg is in its place and has a value of each row. *)
Intact(q, t) ==
  /\ Places(t) = Places(q.text)
  /\ \A i \in 1 .. q.args : [k \in DOMAIN Column(t, i) |-> Column(t, i)[k][2]]
                         = [k \in DOMAIN Column(t, 1) |-> Column(t, 1)[k][2]]

(* The rows of a statement that is no syntax error; a row with values that *)
(* belong elsewhere is another row.                                        *)
RowsWritten(q, t) ==
  IF \E i \in DOMAIN t : t[i][1] = "tuples"
  THEN t[CHOOSE i \in DOMAIN t : t[i][1] = "tuples"][2]
  ELSE [k \in DOMAIN Column(t, 1) |->
          IF Intact(q, t) THEN Column(t, 1)[k][2] ELSE Append(Column(t, 1)[k][2], 0)]
=============================================================================
