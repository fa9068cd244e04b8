------------------------------ MODULE SyncProofs ------------------------------
(***************************************************************************)
(* For any tables, page sizes and orders: sync run and sync down take the  *)
(* two sides through the same steps, and sync verify tells the differences *)
(* between two tables, in spite of the pages it reads them by and of       *)
(* replication.                                                            *)
(***************************************************************************)
EXTENDS Sync, FiniteSetTheorems, SequenceTheorems, TLAPS

-----------------------------------------------------------------------------
(* sync run and sync down *)

Names == {"up", "seed", "deseed", "down"}

Seeded == cmd = "run" /\ flags.seed

(* Draws from the generator before section n of a side that was seeded.    *)
Drawn(n) == IF n = 1 THEN Draws["globals"] ELSE Draws["globals"] + Draws["up"]

(* The sections of a side that are over: as many as are not in todo, and   *)
(* with a seed at the numbers that follow from it alone.                   *)
Through(s, n) ==
  /\ done[s] \in Seq(Names \X Nat) /\ Len(done[s]) = n
  /\ Seeded => \A i \in 1 .. n : done[s][i] = <<Sections["run"][i], Drawn(i)>>

(* The sections after the first n. *)
After(n) == CASE n = 0 -> Sections[cmd] [] n = 1 -> <<Sections[cmd][2]>> [] n = 2 -> <<>>

LifecycleInv ==
  /\ cmd \in {"run", "down", "verify"} /\ side \in Sides
  /\ rng \in Nat /\ DOMAIN done = Sides
  /\ \A s \in Sides : \E n \in 0 .. 2 : Through(s, n)
  /\ pc \in {"load", "section"} \/ side = "target" => cmd # "verify"
  /\ pc = "start" => side = "source" /\ Through("source", 0)
  /\ side = "source" => Through("target", 0)
  /\ side = "target" => Through("source", 2)
  /\ pc = "load" => Through(side, 0) /\ (Seeded => rng = 0)
  /\ pc = "section" => \E n \in 0 .. 2 :
       /\ Through(side, n) /\ (Seeded /\ n < 2 => rng = Drawn(n + 1))
       /\ todo = After(n)

LEMMA LifecycleTodo ==
  \A c \in {"run", "down"} :
    /\ Sections[c] = <<Sections[c][1], Sections[c][2]>>
    /\ Sections[c][1] \in Names /\ Sections[c][2] \in Names
    /\ Draws[Sections[c][1]] \in Nat /\ Draws[Sections[c][2]] \in Nat
    /\ Draws["globals"] \in Nat
<1>1. Sections["run"] = <<"up", "seed">> /\ Sections["down"] = <<"deseed", "down">>
  BY DEF Sections
<1>2. \A x \in {"globals", "up", "seed", "deseed", "down"} : Draws[x] \in Nat
  BY SyncAssumption
<1>3. ASSUME NEW c \in {"run", "down"}
      PROVE  Sections[c] \in {<<"up", "seed">>, <<"deseed", "down">>}
  BY <1>1
<1> QED BY <1>2, <1>3 DEF Names

LEMMA ThroughUnchanged ==
  ASSUME NEW s, NEW n, Through(s, n), UNCHANGED <<cmd, flags, done>>
  PROVE  Through(s, n)'
  BY DEF Through, Seeded

LEMMA LifecycleInit == Init => LifecycleInv
<1> SUFFICES ASSUME Init PROVE LifecycleInv
  OBVIOUS
<1>1. \A s \in Sides : Through(s, 0)
  BY DEF Init, Through
<1> QED BY <1>1 DEF Init, LifecycleInv, Sides

LEMMA LifecycleSection ==
  ASSUME LifecycleInv, Section
  PROVE  LifecycleInv'
<1>1. PICK n \in 0 .. 2 : /\ Through(side, n) /\ (Seeded /\ n < 2 => rng = Drawn(n + 1))
                          /\ todo = After(n)
  BY DEF LifecycleInv, Section
<1>2. cmd \in {"run", "down"} /\ pc = "section" /\ pc' = "section" /\ side \in Sides
  BY DEF LifecycleInv, Section
<1>3. UNCHANGED <<cmd, flags, side>>
  BY DEF Section
<1>4. n \in {0, 1} /\ Head(todo) = Sections[cmd][n + 1] /\ Tail(todo) = After(n + 1)
  <2>1. n # 2
    BY <1>1 DEF Section, After
  <2>2. CASE n = 0
    <3>1. todo = <<Sections[cmd][1], Sections[cmd][2]>>
      BY <1>1, <1>2, <2>2, LifecycleTodo DEF After
    <3>2. Head(todo) = Sections[cmd][1] /\ Tail(todo) = <<Sections[cmd][2]>>
      BY <1>2, <3>1, LifecycleTodo
    <3> QED BY <2>2, <3>2 DEF After
  <2>3. CASE n = 1
    BY <1>1, <1>2, <2>3, LifecycleTodo DEF After
  <2> QED BY <2>1, <2>2, <2>3
<1>5. Head(todo) \in Names /\ Draws[Head(todo)] \in Nat
  BY <1>2, <1>4, LifecycleTodo
<1>6. rng \in Nat /\ rng' = rng + Draws[Head(todo)] /\ rng' \in Nat
  BY <1>5 DEF LifecycleInv, Section
<1>7. done' = [done EXCEPT ![side] = Append(@, <<Head(todo), rng>>)]
  BY DEF Section
<1>8. Through(side, n + 1)'
  <2>1. <<Head(todo), rng>> \in Names \X Nat
    BY <1>5, <1>6
  <2>2. done'[side] = Append(done[side], <<Head(todo), rng>>)
    BY <1>2, <1>7 DEF LifecycleInv
  <2>3. done'[side] \in Seq(Names \X Nat) /\ Len(done'[side]) = n + 1
    <3>1. done[side] \in Seq(Names \X Nat) /\ Len(done[side]) = n
      BY <1>1 DEF Through
    <3> QED BY <2>1, <2>2, <3>1, AppendProperties
  <2>4. Seeded => <<Head(todo), rng>> = <<Sections["run"][n + 1], Drawn(n + 1)>>
    BY <1>1, <1>4 DEF Seeded
  <2>5. Seeded => \A i \in 1 .. n + 1 : done'[side][i] = <<Sections["run"][i], Drawn(i)>>
    BY <1>1, <1>4, <2>2, <2>4 DEF Through
  <2> QED BY <1>3, <2>3, <2>5 DEF Through, Seeded
<1>9. Seeded /\ n + 1 < 2 => rng' = Drawn(n + 2)
  BY <1>1, <1>4, <1>6 DEF Seeded, Drawn, Sections
<1>10. \A s \in Sides \ {side} : done'[s] = done[s]
  BY <1>7 DEF LifecycleInv
<1>11. \A s \in Sides \ {side}, m \in 0 .. 2 : Through(s, m) => Through(s, m)'
  BY <1>3, <1>10 DEF Through, Seeded
<1>12. \A s \in Sides : \E m \in 0 .. 2 : Through(s, m)'
  <2>1. n + 1 \in 0 .. 2
    BY <1>4
  <2>2. \A s \in Sides \ {side} : \E m \in 0 .. 2 : Through(s, m)'
    BY <1>11 DEF LifecycleInv
  <2>3. \E m \in 0 .. 2 : Through(side, m)'
    BY <1>8, <2>1
  <2> QED BY <1>3, <2>2, <2>3
<1>13. todo' = After(n + 1)
  BY <1>4 DEF Section
<1>14. side = "source" => Through("target", 0)'
  BY <1>11 DEF LifecycleInv, Sides
<1>15. side = "target" => Through("source", 2)'
  BY <1>11 DEF LifecycleInv, Sides
<1>16. \E m \in 0 .. 2 : /\ Through(side, m)' /\ (Seeded /\ m < 2 => rng' = Drawn(m + 1))
                         /\ todo' = After(m)
  BY <1>4, <1>8, <1>9, <1>13
<1>17. DOMAIN done' = Sides
  BY <1>7 DEF LifecycleInv
<1> QED BY <1>2, <1>3, <1>6, <1>12, <1>14, <1>15, <1>16, <1>17 DEF LifecycleInv, Seeded, After

LEMMA LifecycleStart ==
  ASSUME LifecycleInv, NEW s \in Sides, StartSide(s), UNCHANGED <<cmd, flags, todo, done>>,
         cmd # "verify", Through(s, 0), s = "target" => Through("source", 2),
         s = "source" => Through("target", 0)
  PROVE  LifecycleInv'
<1>1. \A x \in Sides, n \in 0 .. 2 : Through(x, n) => Through(x, n)'
  BY DEF Through, Seeded
<1>2. \A x \in Sides : \E n \in 0 .. 2 : Through(x, n)'
  BY <1>1 DEF LifecycleInv
<1>3. side' = s /\ pc' = "load" /\ rng' \in Nat /\ (Seeded => rng' = 0)
  BY DEF StartSide, LifecycleInv, Seeded
<1>4. Through(s, 0)'
  BY <1>1
<1>5. (s = "target" => Through("source", 2)') /\ (s = "source" => Through("target", 0)')
  BY <1>1 DEF Sides
<1> QED BY <1>2, <1>3, <1>4, <1>5 DEF LifecycleInv, Seeded

(* A step that leaves the sections be, into a state that asks nothing.     *)
LEMMA LifecycleKeeps ==
  ASSUME LifecycleInv, UNCHANGED <<cmd, flags, lifecycle>>,
         pc' \notin {"start", "load", "section"} \/ UNCHANGED pc
  PROVE  LifecycleInv'
<1>1. UNCHANGED <<side, todo, rng, done>>
  BY DEF lifecycle
<1>2. \A x, n : Through(x, n)' <=> Through(x, n)
  BY <1>1 DEF Through, Seeded
<1>3. \A x \in Sides : \E n \in 0 .. 2 : Through(x, n)'
  BY <1>2 DEF LifecycleInv
<1> QED BY <1>1, <1>2, <1>3 DEF LifecycleInv, Seeded, After

LEMMA LifecycleStep ==
  ASSUME LifecycleInv, [Next]_vars
  PROVE  LifecycleInv'
<1>1. CASE StartLifecycle
  BY <1>1, LifecycleStart DEF StartLifecycle, LifecycleInv, Sides
<1>2. CASE Load
  <2>1. \A x, n : Through(x, n)' <=> Through(x, n)
    BY <1>2 DEF Load, Through, Seeded
  <2>2. cmd \in {"run", "down"} /\ rng' = rng + Draws["globals"] /\ rng' \in Nat
    BY <1>2, LifecycleTodo DEF Load, LifecycleInv
  <2>3. Through(side, 0)' /\ (Seeded /\ 0 < 2 => rng' = Drawn(1)) /\ todo' = After(0)
    BY <1>2, <2>1, <2>2, LifecycleTodo DEF Load, LifecycleInv, Drawn, After
  <2>4. \A x \in Sides : \E n \in 0 .. 2 : Through(x, n)'
    BY <2>1 DEF LifecycleInv
  <2>5. UNCHANGED <<cmd, flags, side, done>> /\ pc' = "section"
    BY <1>2 DEF Load
  <2>6. \E n \in 0 .. 2 : /\ Through(side, n)' /\ (Seeded /\ n < 2 => rng' = Drawn(n + 1))
                          /\ todo' = After(n)
    BY <2>3
  <2> QED BY <2>1, <2>2, <2>4, <2>5, <2>6 DEF LifecycleInv, Seeded, After
<1>3. CASE Section
  BY <1>3, LifecycleSection
<1>4. CASE SideOver
  <2>1. cmd # "verify" /\ Through(side, 2)
    <3>1. PICK n \in 0 .. 2 : Through(side, n) /\ todo = After(n)
      BY <1>4 DEF SideOver, LifecycleInv
    <3>2. cmd \in {"run", "down"} /\ todo = <<>>
      BY <1>4 DEF SideOver, LifecycleInv
    <3>3. n = 2
      BY <3>1, <3>2, LifecycleTodo DEF After
    <3> QED BY <3>1, <3>2, <3>3
  <2>2. CASE pc' = "ended" /\ UNCHANGED <<side, rng>>
    BY <1>4, <2>2, LifecycleKeeps DEF SideOver, lifecycle
  <2>3. CASE side = "source" /\ StartSide("target")
    BY <1>4, <2>1, <2>3, LifecycleStart DEF SideOver, LifecycleInv, Sides
  <2> QED BY <1>4, <2>2, <2>3 DEF SideOver, End, LifecycleInv, Sides
<1>5. CASE UNCHANGED <<cmd, flags, lifecycle>> /\ (pc' \notin {"start", "load", "section"} \/ UNCHANGED pc)
  BY <1>5, LifecycleKeeps
<1>6. StartVerify \/ (\E s \in Sides : Advance(s)) \/ QueryFails \/ Compare \/ TableVerified \/ SideFails =>
        UNCHANGED <<cmd, flags, lifecycle>> /\ (pc' \notin {"start", "load", "section"} \/ UNCHANGED pc)
  BY DEF StartVerify, Advance, QueryFails, Compare, TableVerified, SideFails, End
<1>7. (\E t \in DOMAIN content, k \in Keys : Replicate(t, k)) \/ UNCHANGED vars =>
        UNCHANGED <<cmd, flags, lifecycle>> /\ UNCHANGED pc
  BY DEF Replicate, vars
<1> QED BY <1>1, <1>2, <1>3, <1>4, <1>5, <1>6, <1>7 DEF Next, Step

(* The target's sections come after all of the source's and, with a seed,  *)
(* use the same random numbers.                                            *)
THEOREM TargetFollowsSource == Spec => []SidesInStep
<1>1. LifecycleInv => SidesInStep
  <2> SUFFICES ASSUME LifecycleInv PROVE SidesInStep
    OBVIOUS
  <2>1. CASE side = "source"
    <3>1. done["target"] = <<>>
      BY <2>1 DEF LifecycleInv, Through
    <3> QED BY <3>1 DEF SidesInStep
  <2>2. CASE side = "target"
    <3>1. Through("source", 2)
      BY <2>2 DEF LifecycleInv
    <3>2. PICK n \in 0 .. 2 : Through("target", n)
      BY DEF LifecycleInv, Sides
    <3>3. Len(done["source"]) = 2
      BY <3>1 DEF Through
    <3>4. cmd # "verify" => Len(Sections[cmd]) = 2
      BY LifecycleTodo DEF LifecycleInv
    <3>5. DOMAIN done["target"] = 1 .. n
      BY <3>2 DEF Through
    <3>6. ASSUME Seeded, NEW i \in 1 .. n
          PROVE  done["target"][i] = done["source"][i]
      <4>1. i \in 1 .. 2
        OBVIOUS
      <4> QED BY <3>1, <3>2, <3>6, <4>1 DEF Through
    <3>7. cmd # "verify"
      BY <2>2 DEF LifecycleInv
    <3> QED BY <3>3, <3>4, <3>5, <3>6, <3>7 DEF SidesInStep, Seeded
  <2> QED BY <2>1, <2>2 DEF LifecycleInv, Sides
<1> QED BY <1>1, LifecycleInit, LifecycleStep, PTL DEF Spec

-----------------------------------------------------------------------------
(* sync verify *)

AllRows == Rows \cup {Copy(r) : r \in Rows}

Wanted == {<<>>, <<"source">>, <<"target">>, <<"source", "target">>}

Owed(s) == want \in {<<s>>, <<"source", "target">>}

Cursors == [rows : Seq(AllRows), last : {{}} \cup {{k} : k \in Keys}, done : BOOLEAN]

VerifyType ==
  /\ pc \in {"start", "load", "section", "verify", "ended"}
  /\ pc = "verify" \/ moved => cmd = "verify"
  /\ result \in {Null, "ok", "failed"} /\ (result # Null => pc = "ended")
  /\ moved \in BOOLEAN /\ mismatches \in Nat
  /\ pc = "start" => /\ cursor = [s \in Sides |-> Unread] /\ row = [s \in Sides |-> Null]
                    /\ want = <<>> /\ table = 1
  /\ cmd = "verify" =>
       /\ content \in Seq([Sides -> SUBSET AllRows])
       /\ \A t \in DOMAIN content, s \in Sides : IsFiniteSet(content[t][s])
       /\ opt \in Options /\ table \in DOMAIN content
       /\ want \in Wanted
       /\ cursor \in [Sides -> Cursors]
       /\ row \in [Sides -> AllRows \cup {Null}]

(* A key that a table holds at most once on each side. *)
UniqueKey(t, k) ==
  k # Null /\ \A s \in Sides : \A r, q \in WithKey(t, s, k) : r = q

Agree(t, k) == View(t, "source", k) = View(t, "target", k)

(* Rows the merge has yet to compare: those of the page, the one to look   *)
(* at, and those after the page.                                           *)
InFlight(s) == {cursor[s].rows[i] : i \in DOMAIN cursor[s].rows}
                 \cup (IF Owed(s) THEN {} ELSE {row[s]} \ {Null})

Beyond(s, last, r) ==
  last = {} \/ (r[Key] # Null /\ \A k \in last : k = Null \/ Less(opt.order[s], k, r[Key]))

Pending(s, r) == r \in InFlight(s) \/ (~cursor[s].done /\ Beyond(s, cursor[s].last, r))

CursorInv ==
  cmd = "verify" =>
    \A s \in Sides :
      /\ cursor[s].done => cursor[s].rows = <<>>
      /\ pc = "verify" /\ ~Owed(s) /\ row[s] = Null => cursor[s].done
      /\ \A q \in InFlight(s) : q \in content[table][s] \/ Agree(table, q[Key])

(* With nothing to report so far, a row that is not compared yet is still  *)
(* to come, and the others agree, or replication has made them.            *)
AgreeInv ==
  cmd = "verify" /\ mismatches = 0 /\ opt.batch > 0 /\ KeysTold =>
    /\ \A t \in DOMAIN content, k \in Keys :
         (t < table \/ result = "ok") /\ UniqueKey(t, k) => Agree(t, k)
    /\ pc # "ended" => \A s \in Sides : \A r \in content[table][s] :
         UniqueKey(table, r[Key]) => Agree(table, r[Key]) \/ Pending(s, r)

ResultInv == cmd = "verify" /\ result = "ok" => mismatches = 0 /\ table = Len(content)

VerifyInv == VerifyType /\ CursorInv /\ AgreeInv /\ ResultInv

-----------------------------------------------------------------------------
(* Rows, orders and pages *)

LEMMA RowFacts ==
  \A r \in AllRows : r[Key] \in Keys /\ r # Null /\ Copy(r) \in AllRows /\ Copy(r)[Key] = r[Key]
<1>1. ASSUME NEW r PROVE Copy(r)[Key] = r[Key] /\ Copy(Copy(r)) = Copy(r)
  BY SyncAssumption DEF Copy, Sides
<1>2. ASSUME NEW r \in Rows PROVE r[Key] \in Keys /\ r # Null /\ Copy(r) # Null
  BY TablesAssumption
<1> QED BY <1>1, <1>2 DEF AllRows

LEMMA OrderFacts ==
  ASSUME NEW seq \in Ordering, NEW j \in Keys, NEW k \in Keys, NEW l \in Keys
  PROVE  /\ j = k \/ Less(seq, j, k) \/ Less(seq, k, j)
         /\ ~Less(seq, j, j)
         /\ Less(seq, j, k) => ~Less(seq, k, j)
         /\ Less(seq, j, k) /\ ~Less(seq, l, k) => Less(seq, j, l)
         /\ ~Less(seq, k, j) /\ Less(seq, k, l) => Less(seq, j, l)
<1>1. \A x \in Keys : At(seq, x) \in DOMAIN seq /\ seq[At(seq, x)] = x
  BY DEF Ordering, At
<1>2. \A x \in Keys : At(seq, x) \in Nat
  BY <1>1 DEF Ordering
<1> QED BY <1>1, <1>2 DEF Less

LEMMA PageFacts ==
  ASSUME VerifyType, cmd = "verify", NEW s \in Sides, NEW last,
         NEW page \in Pages(s, RowsAfter(s, last))
  PROVE  /\ page \in Seq(AllRows)
         /\ \A i \in DOMAIN page : page[i] \in content[table][s] /\ Beyond(s, last, page[i])
         /\ \A i, j \in DOMAIN page : page[i] = page[j] => i = j
         /\ Sorted(s, page)
         /\ page = <<>> /\ opt.batch > 0 => RowsAfter(s, last) = {}
         /\ page # <<>> => \A r \in RowsAfter(s, last) :
              (\E i \in DOMAIN page : r = page[i])
              \/ ~Less(opt.order[s], r[Key], page[Len(page)][Key])
<1> DEFINE rows == RowsAfter(s, last)
           n == IF opt.batch < Cardinality(rows) THEN opt.batch ELSE Cardinality(rows)
<1>1. content[table][s] \in SUBSET AllRows /\ IsFiniteSet(content[table][s])
  BY DEF VerifyType
<1>2. IsFiniteSet(rows) /\ Cardinality(rows) \in Nat
  BY <1>1, FS_Subset, FS_CardinalityType DEF RowsAfter
<1>3. opt.batch \in Nat
  BY TablesAssumption DEF VerifyType
<1>4. n \in Nat /\ (n = 0 /\ opt.batch > 0 => rows = {})
  BY <1>2, <1>3, FS_EmptySet
<1>5. /\ page \in [1 .. n -> rows]
      /\ \A i, j \in 1 .. n : page[i] = page[j] => i = j
      /\ Sorted(s, page)
      /\ n > 0 => \A r \in rows : r \in {page[i] : i \in 1 .. n}
                                  \/ ~Less(opt.order[s], r[Key], page[n][Key])
  BY DEF Pages
<1> HIDE DEF n
<1>6. DOMAIN page = 1 .. n /\ \A i \in 1 .. n : page[i] \in rows
  BY <1>5
<1>7. \A r \in rows : r \in content[table][s] /\ r \in AllRows /\ Beyond(s, last, r)
  BY <1>1 DEF RowsAfter, Beyond
<1>8. page \in Seq(AllRows) /\ Len(page) = n
  BY <1>4, <1>5, <1>6, <1>7
<1>9. page = <<>> <=> n = 0
  BY <1>4, <1>8, EmptySeq
<1> QED BY <1>4, <1>5, <1>6, <1>7, <1>8, <1>9

(* A page is part of one or all of what was left.                          *)
LEMMA PageParts ==
  ASSUME NEW page \in Seq(AllRows), page # <<>>
  PROVE  /\ Head(page) = page[1] /\ Tail(page) \in Seq(AllRows) /\ Len(page) \in DOMAIN page
         /\ 1 \in DOMAIN page
         /\ \A i \in DOMAIN page : page[i] = Head(page) \/ \E j \in DOMAIN Tail(page) : page[i] = Tail(page)[j]
         /\ \A j \in DOMAIN Tail(page) : j + 1 \in DOMAIN page /\ Tail(page)[j] = page[j + 1]
<1>1. Len(page) \in Nat \ {0} /\ DOMAIN page = 1 .. Len(page)
  BY EmptySeq, LenProperties
<1>2. /\ Tail(page) \in Seq(AllRows) /\ Len(Tail(page)) = Len(page) - 1
      /\ \A j \in 1 .. Len(Tail(page)) : Tail(page)[j] = page[j + 1]
  BY HeadTailProperties
<1>3. DOMAIN Tail(page) = 1 .. Len(page) - 1
  BY <1>2, LenProperties
<1>4. Head(page) = page[1]
  BY <1>1
<1>5. ASSUME NEW i \in DOMAIN page, i # 1
      PROVE  \E j \in DOMAIN Tail(page) : page[i] = Tail(page)[j]
  <2>1. i - 1 \in 1 .. Len(page) - 1 /\ (i - 1) + 1 = i
    BY <1>1, <1>5
  <2> QED BY <1>2, <1>3, <2>1
<1> QED BY <1>1, <1>2, <1>3, <1>4, <1>5

LEMMA WantFacts ==
  ASSUME want \in Wanted, want # <<>>
  PROVE  /\ Head(want) \in Sides /\ Owed(Head(want)) /\ Tail(want) \in Wanted
         /\ Tail(want) \notin {<<Head(want)>>, <<"source", "target">>}
         /\ \A s \in Sides \ {Head(want)} :
              Tail(want) \in {<<s>>, <<"source", "target">>} <=> Owed(s)
<1>1. CASE want = <<"source">>
  BY <1>1 DEF Owed, Sides, Wanted
<1>2. CASE want = <<"target">>
  BY <1>2 DEF Owed, Sides, Wanted
<1>3. CASE want = <<"source", "target">>
  BY <1>3 DEF Owed, Sides, Wanted
<1> QED BY <1>1, <1>2, <1>3 DEF Wanted

(* What rowCursor.next does to the cursor of its side. *)
LEMMA AdvanceFacts ==
  ASSUME VerifyType, NEW s \in Sides, Advance(s)
  PROVE  /\ pc = "verify" /\ cmd = "verify" /\ want # <<>> /\ want' \in Wanted
         /\ Owed(s) /\ ~Owed(s)'
         /\ \A x \in Sides \ {s} : (Owed(x)' <=> Owed(x)) /\ cursor'[x] = cursor[x] /\ row'[x] = row[x]
         /\ cursor' = [x \in Sides |-> cursor'[x]] /\ row' = [x \in Sides |-> row'[x]]
         /\ UNCHANGED <<cmd, opt, pc, content, moved, table, mismatches, reports, result>>
         /\ \/ cursor[s].done /\ row'[s] = Null /\ cursor'[s] = cursor[s]
            \/ /\ ~cursor[s].done /\ cursor[s].rows # <<>> /\ row'[s] = Head(cursor[s].rows)
               /\ cursor'[s] = [rows |-> Tail(cursor[s].rows), last |-> cursor[s].last, done |-> FALSE]
            \/ /\ ~cursor[s].done /\ cursor[s].rows = <<>>
               /\ \E page \in Pages(s, RowsAfter(s, cursor[s].last)) :
                    \/ /\ page = <<>> /\ row'[s] = Null
                       /\ cursor'[s] = [rows |-> <<>>, last |-> cursor[s].last, done |-> TRUE]
                    \/ /\ page # <<>> /\ row'[s] = Head(page)
                       /\ cursor'[s] = [rows |-> Tail(page), last |-> {page[Len(page)][Key]}, done |-> FALSE]
<1>1. pc = "verify" /\ cmd = "verify" /\ want # <<>> /\ s = Head(want) /\ want' = Tail(want)
  BY DEF Advance, VerifyType
<1>2. want \in Wanted /\ cursor \in [Sides -> Cursors] /\ row \in [Sides -> AllRows \cup {Null}]
  BY <1>1 DEF VerifyType
<1>3. want' \in Wanted /\ Owed(s) /\ ~Owed(s)' /\ \A x \in Sides \ {s} : Owed(x)' <=> Owed(x)
  BY <1>1, <1>2, WantFacts DEF Owed
<1>4. cursor[s] = [rows |-> cursor[s].rows, last |-> cursor[s].last, done |-> cursor[s].done]
      /\ cursor[s].done \in BOOLEAN
  BY <1>2 DEF Cursors
<1>5. UNCHANGED <<cmd, opt, pc, content, moved, table, mismatches, reports, result>>
  BY DEF Advance
<1>6. CASE cursor[s].done /\ row' = [row EXCEPT ![s] = Null] /\ UNCHANGED cursor
  BY <1>1, <1>2, <1>3, <1>5, <1>6
<1>7. CASE /\ ~cursor[s].done /\ cursor[s].rows # <<>>
           /\ row' = [row EXCEPT ![s] = Head(cursor[s].rows)]
           /\ cursor' = [cursor EXCEPT ![s].rows = Tail(@)]
  BY <1>1, <1>2, <1>3, <1>4, <1>5, <1>7
<1>8. CASE ~cursor[s].done /\ cursor[s].rows = <<>> /\ FetchBatch(s)
  <2>1. PICK page \in Pages(s, RowsAfter(s, cursor[s].last)) :
          /\ row' = [row EXCEPT ![s] = IF page = <<>> THEN Null ELSE Head(page)]
          /\ cursor' = [cursor EXCEPT ![s] =
               IF page = <<>> THEN [@ EXCEPT !.done = TRUE]
               ELSE [rows |-> Tail(page), last |-> {page[Len(page)][Key]}, done |-> FALSE]]
    BY <1>8 DEF FetchBatch
  <2>2. CASE page = <<>>
    <3>1. cursor'[s] = [rows |-> <<>>, last |-> cursor[s].last, done |-> TRUE]
      BY <1>2, <1>4, <1>8, <2>1, <2>2
    <3> QED BY <1>1, <1>2, <1>3, <1>5, <1>8, <2>1, <2>2, <3>1
  <2>3. CASE page # <<>>
    BY <1>1, <1>2, <1>3, <1>5, <1>8, <2>1, <2>3
  <2> QED BY <2>2, <2>3
<1> QED BY <1>4, <1>6, <1>7, <1>8 DEF Advance

LEMMA TypeUnread == Unread \in Cursors
BY DEF Unread, Cursors

LEMMA TypeAdvance ==
  ASSUME VerifyType, NEW s \in Sides, Advance(s)
  PROVE  VerifyType'
<1>1. /\ pc = "verify" /\ cmd = "verify" /\ want' \in Wanted
      /\ UNCHANGED <<cmd, opt, pc, content, moved, table, mismatches, result>>
      /\ \A x \in Sides \ {s} : cursor'[x] = cursor[x] /\ row'[x] = row[x]
  BY AdvanceFacts
<1>2. cursor \in [Sides -> Cursors] /\ row \in [Sides -> AllRows \cup {Null}]
  BY <1>1 DEF VerifyType
<1>3. /\ cursor[s].rows \in Seq(AllRows) /\ cursor[s].last \in {{}} \cup {{k} : k \in Keys}
      /\ cursor[s].done \in BOOLEAN
  BY <1>2 DEF Cursors
<1>4. cursor'[s] \in Cursors /\ row'[s] \in AllRows \cup {Null}
  <2>1. CASE cursor[s].done /\ row'[s] = Null /\ cursor'[s] = cursor[s]
    BY <1>2, <2>1
  <2>2. CASE /\ ~cursor[s].done /\ cursor[s].rows # <<>> /\ row'[s] = Head(cursor[s].rows)
             /\ cursor'[s] = [rows |-> Tail(cursor[s].rows), last |-> cursor[s].last, done |-> FALSE]
    <3>1. Tail(cursor[s].rows) \in Seq(AllRows) /\ Head(cursor[s].rows) \in AllRows
      BY <1>3, <2>2, HeadTailProperties
    <3> QED BY <1>3, <2>2, <3>1 DEF Cursors
  <2>3. ASSUME NEW page \in Pages(s, RowsAfter(s, cursor[s].last)), page = <<>>, row'[s] = Null,
               cursor'[s] = [rows |-> <<>>, last |-> cursor[s].last, done |-> TRUE]
        PROVE  cursor'[s] \in Cursors /\ row'[s] \in AllRows \cup {Null}
    BY <1>3, <2>3 DEF Cursors
  <2>4. ASSUME NEW page \in Pages(s, RowsAfter(s, cursor[s].last)), page # <<>>, row'[s] = Head(page),
               cursor'[s] = [rows |-> Tail(page), last |-> {page[Len(page)][Key]}, done |-> FALSE]
        PROVE  cursor'[s] \in Cursors /\ row'[s] \in AllRows \cup {Null}
    <3>1. page \in Seq(AllRows)
      BY <1>1, PageFacts
    <3>2. Tail(page) \in Seq(AllRows) /\ Head(page) \in AllRows /\ page[Len(page)] \in AllRows
      BY <2>4, <3>1, PageParts
    <3>3. page[Len(page)][Key] \in Keys
      BY <3>2, RowFacts
    <3> QED BY <2>4, <3>2, <3>3 DEF Cursors
  <2> QED BY <2>1, <2>2, <2>3, <2>4, AdvanceFacts
<1>5. cursor' = [x \in Sides |-> cursor'[x]] /\ row' = [x \in Sides |-> row'[x]]
  BY AdvanceFacts
<1>6. \A x \in Sides : cursor'[x] \in Cursors /\ row'[x] \in AllRows \cup {Null}
  BY <1>1, <1>2, <1>4
<1>7. cursor' \in [Sides -> Cursors] /\ row' \in [Sides -> AllRows \cup {Null}]
  BY <1>5, <1>6
<1> QED BY <1>1, <1>7 DEF VerifyType

LEMMA ReportCounts ==
  ASSUME NEW kind, NEW cols, NEW s, IsFiniteSet(cols), Report(kind, cols, s), mismatches \in Nat
  PROVE  /\ mismatches' \in Nat /\ mismatches' >= mismatches
         /\ mismatches' = 0 => mismatches = 0 /\ cols = {}
<1>1. Cardinality(cols) \in Nat /\ (Cardinality(cols) = 0 => cols = {})
  BY FS_CardinalityType, FS_EmptySet
<1> QED BY <1>1 DEF Report

LEMMA CompareFacts ==
  ASSUME VerifyType, Compare
  PROVE  /\ pc = "verify" /\ cmd = "verify" /\ want = <<>> /\ want' \in Wanted \ {<<>>}
         /\ mismatches' \in Nat /\ mismatches' >= mismatches
         /\ UNCHANGED <<cmd, opt, pc, content, moved, table, cursor, row, result>>
         /\ mismatches' = 0 => CompareBoth /\ Differing = {}
<1>1. pc = "verify" /\ cmd = "verify" /\ mismatches \in Nat /\ want = <<>>
  BY DEF Compare, VerifyType
<1>2. IsFiniteSet(Differing)
  <2>1. Differing \subseteq Columns["source"]
    BY DEF Differing, CompareCols
  <2> QED BY <2>1, FS_Subset, SyncAssumption DEF Sides
<1>3. IsFiniteSet({Key}) /\ {Key} # {}
  BY FS_Singleton
<1>4. want' \in {<<"source">>, <<"target">>, <<"source", "target">>}
  BY DEF Compare, CompareBoth, CompareMissing, CompareExtra
<1>5. want' \in Wanted \ {<<>>}
  BY <1>4 DEF Wanted
<1>6. CASE CompareBoth
  BY <1>1, <1>2, <1>5, <1>6, ReportCounts DEF Compare, CompareBoth
<1>7. CASE CompareMissing
  BY <1>1, <1>3, <1>5, <1>7, ReportCounts DEF Compare, CompareMissing
<1>8. CASE CompareExtra
  BY <1>1, <1>3, <1>5, <1>8, ReportCounts DEF Compare, CompareExtra
<1> QED BY <1>6, <1>7, <1>8 DEF Compare

LEMMA TypeReplicate ==
  ASSUME VerifyType, NEW t \in DOMAIN content, NEW k \in Keys, Replicate(t, k)
  PROVE  VerifyType'
<1> DEFINE old == WithKey(t, "target", k)
           rows == {Copy(r) : r \in WithKey(t, "source", k)}
<1>1. /\ cmd = "verify" /\ moved' = TRUE
      /\ content' = [content EXCEPT ![t]["target"] = (@ \ old) \cup rows]
      /\ UNCHANGED <<cmd, opt, pc, table, cursor, row, want, mismatches, result>>
  BY DEF Replicate, merge
<1>2. /\ content \in Seq([Sides -> SUBSET AllRows]) /\ table \in DOMAIN content
      /\ \A x \in DOMAIN content, s \in Sides : IsFiniteSet(content[x][s])
  BY <1>1 DEF VerifyType
<1>3. /\ content[t] \in [Sides -> SUBSET AllRows] /\ "source" \in Sides /\ "target" \in Sides
  BY <1>2 DEF Sides
<1>4. rows \subseteq AllRows
  BY <1>3, RowFacts DEF WithKey
<1>5. IsFiniteSet(rows)
  <2> DEFINE src == WithKey(t, "source", k)
             f == [r \in src |-> Copy(r)]
  <2>1. IsFiniteSet(src)
    BY <1>2, <1>3, FS_Subset DEF WithKey
  <2>2. f \in Surjection(src, rows)
    BY DEF Surjection
  <2> QED BY <2>1, <2>2, FS_Surjection
<1>6. IsFiniteSet(content[t]["target"] \ old)
  BY <1>2, <1>3, FS_Subset
<1>7. IsFiniteSet((content[t]["target"] \ old) \cup rows)
  BY <1>5, <1>6, FS_Union
<1> DEFINE new == (content[t]["target"] \ old) \cup rows
<1>8. new \subseteq AllRows
  BY <1>3, <1>4
<1> HIDE DEF old, rows, new
<1>9. /\ DOMAIN content' = DOMAIN content
      /\ content'[t] = [content[t] EXCEPT !["target"] = (@ \ old) \cup rows]
      /\ \A x \in DOMAIN content \ {t} : content'[x] = content[x]
  BY <1>1
<1>10. content'[t] = [content[t] EXCEPT !["target"] = new]
  BY <1>9 DEF new
<1>11. content'[t] \in [Sides -> SUBSET AllRows] /\ \A s \in Sides : IsFiniteSet(content'[t][s])
  <2>1. content'[t]["target"] = new /\ content'[t]["source"] = content[t]["source"]
    BY <1>3, <1>10
  <2> QED BY <1>2, <1>3, <1>7, <1>8, <1>10, <2>1 DEF new, Sides
<1>12. content' \in Seq([Sides -> SUBSET AllRows])
  <2>1. content' = [x \in DOMAIN content |-> content'[x]]
    BY <1>1
  <2>2. ASSUME NEW x \in DOMAIN content PROVE content'[x] \in [Sides -> SUBSET AllRows]
    <3>1. content[x] \in [Sides -> SUBSET AllRows]
      BY <1>2
    <3>2. x # t => content'[x] = content[x]
      BY <1>9
    <3>3. content'[t] \in [Sides -> SUBSET AllRows]
      BY <1>11
    <3> QED BY <3>1, <3>2, <3>3
  <2>3. Len(content) \in Nat /\ DOMAIN content = 1 .. Len(content)
    BY <1>2
  <2> QED BY <2>1, <2>2, <2>3
<1>13. \A x \in DOMAIN content', s \in Sides : IsFiniteSet(content'[x][s])
  BY <1>2, <1>9, <1>11
<1> QED BY <1>1, <1>2, <1>9, <1>12, <1>13 DEF VerifyType

LEMMA TypeTableVerified ==
  ASSUME VerifyType, TableVerified
  PROVE  VerifyType'
<1>1. /\ pc = "verify" /\ cmd = "verify" /\ content \in Seq([Sides -> SUBSET AllRows])
      /\ table \in DOMAIN content /\ DOMAIN content = 1 .. Len(content) /\ Len(content) \in Nat
  BY DEF TableVerified, VerifyType
<1>2. CASE table < Len(content)
  <2>1. /\ table' \in DOMAIN content /\ want' = <<"source", "target">>
        /\ cursor' = [s \in Sides |-> Unread]
        /\ UNCHANGED <<cmd, opt, pc, content, moved, row, mismatches, result>>
    BY <1>1, <1>2 DEF TableVerified
  <2>2. cursor' \in [Sides -> Cursors]
    BY <2>1, TypeUnread
  <2>3. want' \in Wanted
    BY <2>1 DEF Wanted
  <2> QED BY <1>1, <2>1, <2>2, <2>3 DEF VerifyType
<1>3. CASE ~(table < Len(content))
  <2>1. /\ pc' = "ended" /\ result' \in {"failed", "ok"}
        /\ UNCHANGED <<cmd, opt, content, moved, table, cursor, row, want, mismatches>>
    BY <1>3 DEF TableVerified, End
  <2> QED BY <1>1, <2>1 DEF VerifyType
<1> QED BY <1>2, <1>3

LEMMA TypeInit == Init => VerifyType
<1> SUFFICES ASSUME Init PROVE VerifyType
  OBVIOUS
<1>1. CASE cmd # "verify"
  BY <1>1 DEF Init, VerifyType
<1>2. CASE cmd = "verify"
  <2>1. opt \in Options /\ content \in Contents
    BY <1>2 DEF Init
  <2>2. /\ content \in Seq([Sides -> SUBSET Rows]) /\ content # <<>>
        /\ \A t \in DOMAIN content, s \in Sides : IsFiniteSet(content[t][s])
    BY <2>1, TablesAssumption
  <2>3. content \in Seq([Sides -> SUBSET AllRows])
    <3>1. Len(content) \in Nat /\ content \in [1 .. Len(content) -> [Sides -> SUBSET Rows]]
      BY <2>2
    <3>2. [Sides -> SUBSET Rows] \subseteq [Sides -> SUBSET AllRows]
      BY DEF AllRows
    <3>3. content \in [1 .. Len(content) -> [Sides -> SUBSET AllRows]]
      BY <3>1, <3>2
    <3> QED BY <3>1, <3>3
  <2>4. table \in DOMAIN content
    <3>1. Len(content) \in Nat \ {0} /\ DOMAIN content = 1 .. Len(content)
      BY <2>2, EmptySeq, LenProperties
    <3> QED BY <3>1 DEF Init
  <2>5. cursor \in [Sides -> Cursors]
    BY TypeUnread DEF Init
  <2>6. row \in [Sides -> AllRows \cup {Null}]
    BY DEF Init
  <2>7. want \in Wanted
    BY DEF Init, Wanted
  <2> QED BY <1>2, <2>1, <2>2, <2>3, <2>4, <2>5, <2>6, <2>7 DEF Init, VerifyType
<1> QED BY <1>1, <1>2

LEMMA TypeStep ==
  ASSUME LifecycleInv, VerifyType, [Next]_vars
  PROVE  VerifyType'
<1>1. CASE StartLifecycle \/ Load \/ Section \/ SideOver \/ (SideFails /\ cmd # "verify")
  <2>1. cmd # "verify" /\ cmd' = cmd
    BY <1>1 DEF StartLifecycle, Load, Section, SideOver, SideFails, LifecycleInv
  <2>2. UNCHANGED <<moved, mismatches>>
    BY <1>1 DEF StartLifecycle, Load, Section, SideOver, SideFails, merge
  <2>3. pc' \in {"load", "section", "ended"}
    BY <1>1 DEF StartLifecycle, Load, Section, SideOver, SideFails, StartSide, End
  <2>4. result' \in {Null, "ok", "failed"} /\ (result' # Null => pc' = "ended")
    <3>1. (UNCHANGED result /\ pc # "ended") \/ End("ok") \/ End("failed")
      BY <1>1 DEF StartLifecycle, Load, Section, SideOver, SideFails
    <3> QED BY <3>1 DEF End, VerifyType
  <2> QED BY <2>1, <2>2, <2>3, <2>4 DEF VerifyType
<1>2. CASE SideFails /\ cmd = "verify"
  BY <1>2 DEF SideFails, LifecycleInv
<1>3. CASE StartVerify
  <2>1. want' \in Wanted
    BY <1>3 DEF StartVerify, Wanted
  <2> QED BY <1>3, <2>1 DEF StartVerify, VerifyType
<1>4. CASE \E s \in Sides : Advance(s)
  BY <1>4, TypeAdvance
<1>5. CASE QueryFails
  BY <1>5 DEF QueryFails, End, merge, VerifyType
<1>6. CASE Compare
  BY <1>6, CompareFacts DEF VerifyType
<1>7. CASE TableVerified
  BY <1>7, TypeTableVerified
<1>8. CASE \E t \in DOMAIN content, k \in Keys : Replicate(t, k)
  BY <1>8, TypeReplicate
<1>9. CASE UNCHANGED vars
  BY <1>9 DEF vars, merge, VerifyType
<1> QED BY <1>1, <1>2, <1>3, <1>4, <1>5, <1>6, <1>7, <1>8, <1>9 DEF Next, Step

-----------------------------------------------------------------------------
(* The cursors and the merge *)

(* Keys of other tables, and other keys, are not replicated along.         *)
LEMMA ReplicateFacts ==
  ASSUME VerifyType, NEW t \in DOMAIN content, NEW k \in Keys, Replicate(t, k)
  PROVE  /\ cmd = "verify" /\ DOMAIN content' = DOMAIN content
         /\ UNCHANGED <<cmd, opt, pc, merge, result>>
         /\ WithKey(t, "source", k)' = WithKey(t, "source", k)
         /\ WithKey(t, "target", k)' = {Copy(r) : r \in WithKey(t, "source", k)}
         /\ \A x \in DOMAIN content, s \in Sides : \A r :
              x # t \/ r[Key] # k => (r \in content'[x][s] <=> r \in content[x][s])
<1> DEFINE old == WithKey(t, "target", k)
           rows == {Copy(r) : r \in WithKey(t, "source", k)}
           new  == (content[t]["target"] \ old) \cup rows
<1>1. /\ cmd = "verify"
      /\ content' = [content EXCEPT ![t]["target"] = (@ \ old) \cup rows]
      /\ UNCHANGED <<cmd, opt, pc, merge, result>>
  BY DEF Replicate
<1>2. content \in Seq([Sides -> SUBSET AllRows])
  BY <1>1 DEF VerifyType
<1>3. content[t] \in [Sides -> SUBSET AllRows] /\ "source" \in Sides /\ "target" \in Sides
  BY <1>2 DEF Sides
<1>4. \A r \in rows : r[Key] = k
  BY <1>3, RowFacts DEF WithKey
<1>5. \A r \in old : r[Key] = k
  BY DEF WithKey
<1>6. \A r : r[Key] = k /\ r \in content[t]["target"] => r \in old
  BY DEF WithKey
<1> HIDE DEF old, rows, new
<1>7. /\ DOMAIN content' = DOMAIN content
      /\ content'[t] = [content[t] EXCEPT !["target"] = new]
      /\ \A x \in DOMAIN content \ {t} : content'[x] = content[x]
  BY <1>1 DEF new
<1>8. content'[t]["target"] = new /\ content'[t]["source"] = content[t]["source"]
  BY <1>3, <1>7
<1>9. WithKey(t, "source", k)' = WithKey(t, "source", k)
  BY <1>8 DEF WithKey
<1>10. WithKey(t, "target", k)' = rows
  <2>1. WithKey(t, "target", k)' = {r \in new : r[Key] = k}
    BY <1>8 DEF WithKey
  <2> QED BY <1>4, <1>6, <2>1 DEF new
<1>11. ASSUME NEW x \in DOMAIN content, NEW s \in Sides, NEW r, x # t \/ r[Key] # k
       PROVE  r \in content'[x][s] <=> r \in content[x][s]
  <2>1. CASE x # t
    BY <1>7, <2>1
  <2>2. CASE x = t /\ r[Key] # k /\ s = "target"
    BY <1>4, <1>5, <1>8, <2>2 DEF new
  <2>3. CASE x = t /\ s = "source"
    BY <1>8, <2>3
  <2> QED BY <1>11, <2>1, <2>2, <2>3 DEF Sides
<1> QED BY <1>1, <1>7, <1>9, <1>10, <1>11 DEF rows

LEMMA ReplicateAgrees ==
  ASSUME VerifyType, NEW t \in DOMAIN content, NEW k \in Keys, Replicate(t, k)
  PROVE  /\ Agree(t, k)'
         /\ \A x \in DOMAIN content, j \in Keys : x # t \/ j # k =>
              (UniqueKey(x, j)' <=> UniqueKey(x, j)) /\ (Agree(x, j)' <=> Agree(x, j))
<1>1. UNCHANGED opt /\ CompareCols' = CompareCols
  BY ReplicateFacts DEF CompareCols
<1>2. \A r, c : c \in CompareCols => Copy(r)[c] = r[c]
  BY DEF Copy, CompareCols
<1>3. \A r : [c \in CompareCols |-> Copy(r)[c]] = [c \in CompareCols |-> r[c]]
  BY <1>2
<1>4. Agree(t, k)'
  <2> DEFINE src == WithKey(t, "source", k)
             Seen(r) == [c \in CompareCols |-> r[c]]
  <2>1. View(t, "source", k)' = {Seen(r) : r \in src}
    BY <1>1, ReplicateFacts DEF View
  <2>2. View(t, "target", k)' = {Seen(r) : r \in {Copy(q) : q \in src}}
    BY <1>1, ReplicateFacts DEF View
  <2>3. \A r : Seen(Copy(r)) = Seen(r)
    BY <1>3
  <2> HIDE DEF src, Seen
  <2>4. {Seen(r) : r \in {Copy(q) : q \in src}} = {Seen(r) : r \in src}
    BY <2>3
  <2> QED BY <2>1, <2>2, <2>4 DEF Agree
<1>5. ASSUME NEW x \in DOMAIN content, NEW j \in Keys, x # t \/ j # k
      PROVE  \A s \in Sides : WithKey(x, s, j)' = WithKey(x, s, j)
  BY <1>5, ReplicateFacts DEF WithKey
<1>6. ASSUME NEW x \in DOMAIN content, NEW j \in Keys, x # t \/ j # k
      PROVE  UniqueKey(x, j)' <=> UniqueKey(x, j)
  BY <1>5, <1>6 DEF UniqueKey
<1>7. ASSUME NEW x \in DOMAIN content, NEW j \in Keys, x # t \/ j # k
      PROVE  Agree(x, j)' <=> Agree(x, j)
  BY <1>1, <1>5, <1>7 DEF Agree, View, Sides
<1> QED BY <1>4, <1>6, <1>7

LEMMA SameContent ==
  ASSUME UNCHANGED <<content, opt>>
  PROVE  /\ \A t, k : (UniqueKey(t, k)' <=> UniqueKey(t, k)) /\ (Agree(t, k)' <=> Agree(t, k))
         /\ \A s, last, r : Beyond(s, last, r)' <=> Beyond(s, last, r)
BY DEF UniqueKey, Agree, View, WithKey, CompareCols, Beyond

(* Moving a cursor loses none of the rows to come and finds no others.     *)
LEMMA AdvanceMoves ==
  ASSUME VerifyType, CursorInv, NEW s \in Sides, Advance(s)
  PROVE  /\ \A x \in Sides \ {s} : InFlight(x)' = InFlight(x) /\ (\A r : Pending(x, r)' <=> Pending(x, r))
         /\ cursor'[s].done => cursor'[s].rows = <<>>
         /\ row'[s] = Null => cursor'[s].done
         /\ \A q \in InFlight(s)' : q \in InFlight(s) \/ q \in content[table][s]
         /\ \A r \in content[table][s] :
              UniqueKey(table, r[Key]) /\ opt.batch > 0 /\ Pending(s, r) => Pending(s, r)'
         /\ \A r \in content[table][s] : r[Key] # Null /\ Pending(s, r)' => Pending(s, r)
<1> DEFINE mine == cursor[s]
           Listed(q) == {q[i] : i \in DOMAIN q}
<1>1. /\ cmd = "verify" /\ Owed(s) /\ ~Owed(s)' /\ UNCHANGED <<opt, content, table>>
      /\ \A x \in Sides \ {s} : (Owed(x)' <=> Owed(x)) /\ cursor'[x] = cursor[x] /\ row'[x] = row[x]
  BY AdvanceFacts
<1>2. \A x \in Sides \ {s} : InFlight(x)' = InFlight(x)
  BY <1>1 DEF InFlight
<1>3. \A x \in Sides \ {s} : \A r : Pending(x, r)' <=> Pending(x, r)
  BY <1>1, <1>2, SameContent DEF Pending
<1>4. /\ mine.rows \in Seq(AllRows) /\ (mine.done => mine.rows = <<>>)
      /\ content[table][s] \subseteq AllRows
  BY <1>1 DEF VerifyType, Cursors, CursorInv
<1>5. InFlight(s) = Listed(mine.rows)
  BY <1>1 DEF InFlight
<1>6. InFlight(s)' = Listed(cursor'[s].rows) \cup ({row'[s]} \ {Null})
  BY <1>1 DEF InFlight
<1>7. Listed(<<>>) = {}
  OBVIOUS
<1>8. \A q \in Seq(AllRows) : q # <<>> => Listed(q) = Listed(Tail(q)) \cup {Head(q)} /\ Head(q) \in AllRows
  BY PageParts
<1>9. Null \notin AllRows
  BY RowFacts
<1> HIDE DEF Listed
<1>10. CASE mine.done /\ row'[s] = Null /\ cursor'[s] = mine
  <2>1. mine.rows = <<>> /\ cursor'[s].rows = <<>> /\ cursor'[s].done
    BY <1>4, <1>10
  <2>2. InFlight(s) = {} /\ InFlight(s)' = {}
    BY <1>5, <1>6, <1>7, <1>10, <2>1
  <2>3. \A r : ~Pending(s, r) /\ ~Pending(s, r)'
    BY <1>10, <2>2 DEF Pending
  <2> QED BY <1>2, <1>3, <2>1, <2>2, <2>3
<1>11. CASE /\ ~mine.done /\ mine.rows # <<>> /\ row'[s] = Head(mine.rows)
            /\ cursor'[s] = [rows |-> Tail(mine.rows), last |-> mine.last, done |-> FALSE]
  <2>1. InFlight(s)' = InFlight(s)
    <3>1. Listed(mine.rows) = Listed(Tail(mine.rows)) \cup {Head(mine.rows)} /\ Head(mine.rows) \in AllRows
      BY <1>4, <1>8, <1>11
    <3>2. cursor'[s].rows = Tail(mine.rows)
      BY <1>11
    <3> QED BY <1>5, <1>6, <1>9, <1>11, <3>1, <3>2
  <2>2. \A r : Pending(s, r) <=> Pending(s, r)'
    BY <1>1, <1>11, <2>1, SameContent DEF Pending
  <2>3. row'[s] # Null /\ ~cursor'[s].done
    <3>1. Head(mine.rows) \in AllRows
      BY <1>4, <1>8, <1>11
    <3> QED BY <1>9, <1>11, <3>1
  <2> QED BY <1>2, <1>3, <2>1, <2>2, <2>3
<1>12. ASSUME NEW page \in Pages(s, RowsAfter(s, mine.last)), ~mine.done, mine.rows = <<>>,
              page = <<>>, row'[s] = Null,
              cursor'[s] = [rows |-> <<>>, last |-> mine.last, done |-> TRUE]
       PROVE  /\ cursor'[s].done /\ cursor'[s].rows = <<>> /\ InFlight(s)' = {}
              /\ \A r \in content[table][s] : opt.batch > 0 => ~Pending(s, r)
              /\ \A r : ~Pending(s, r)'
  <2>1. opt.batch > 0 => RowsAfter(s, mine.last) = {}
    BY <1>1, <1>12, PageFacts
  <2>2. InFlight(s) = {} /\ InFlight(s)' = {}
    BY <1>5, <1>6, <1>7, <1>12
  <2>3. \A r \in content[table][s] : opt.batch > 0 => ~Beyond(s, mine.last, r)
    BY <2>1 DEF RowsAfter, Beyond
  <2> QED BY <1>12, <2>2, <2>3 DEF Pending
<1>13. ASSUME NEW page \in Pages(s, RowsAfter(s, mine.last)), ~mine.done, mine.rows = <<>>,
              page # <<>>, row'[s] = Head(page),
              cursor'[s] = [rows |-> Tail(page), last |-> {page[Len(page)][Key]}, done |-> FALSE]
       PROVE  /\ ~cursor'[s].done /\ row'[s] # Null
              /\ \A q \in InFlight(s)' : q \in content[table][s]
              /\ \A r \in content[table][s] : UniqueKey(table, r[Key]) /\ Pending(s, r) => Pending(s, r)'
              /\ \A r \in content[table][s] : r[Key] # Null /\ Pending(s, r)' => Pending(s, r)
  <2>1. /\ page \in Seq(AllRows) /\ \A i \in DOMAIN page : page[i] \in content[table][s]
        /\ \A r \in RowsAfter(s, mine.last) : r \in Listed(page)
              \/ ~Less(opt.order[s], r[Key], page[Len(page)][Key])
    BY <1>1, <1>13, PageFacts DEF Listed
  <2>2. InFlight(s)' = Listed(page) /\ row'[s] # Null
    <3>1. Listed(page) = Listed(Tail(page)) \cup {Head(page)} /\ Head(page) \in AllRows
      BY <1>8, <1>13, <2>1
    <3>2. cursor'[s].rows = Tail(page)
      BY <1>13
    <3> QED BY <1>6, <1>9, <1>13, <3>1, <3>2
  <2>3. \A q \in InFlight(s)' : q \in content[table][s]
    BY <2>1, <2>2 DEF Listed
  <2>4. ASSUME NEW r \in content[table][s], UniqueKey(table, r[Key]), Pending(s, r)
        PROVE  Pending(s, r)'
    <3> DEFINE end == page[Len(page)]
    <3>1. r \in RowsAfter(s, mine.last)
      BY <1>5, <1>7, <1>13, <2>4 DEF Pending, Beyond, RowsAfter
    <3>2. end \in content[table][s] /\ end \in Listed(page)
      BY <1>13, <2>1, PageParts DEF Listed
    <3>3. CASE r \in Listed(page)
      BY <2>2, <3>3 DEF Pending
    <3>4. CASE r \notin Listed(page)
      <4>1. ~Less(opt.order[s], r[Key], end[Key])
        BY <2>1, <3>1, <3>4
      <4>2. r[Key] # end[Key]
        BY <2>4, <3>2, <3>4 DEF UniqueKey, WithKey
      <4>3. r[Key] \in Keys /\ end[Key] \in Keys /\ opt.order[s] \in Ordering
        BY <1>1, <1>4, <3>2, RowFacts, TablesAssumption DEF VerifyType
      <4>4. Less(opt.order[s], end[Key], r[Key])
        BY <4>1, <4>2, <4>3, OrderFacts
      <4>5. Beyond(s, {end[Key]}, r)
        BY <2>4, <4>4 DEF Beyond, UniqueKey
      <4>6. Beyond(s, {end[Key]}, r)'
        BY <1>1, <4>5, SameContent
      <4> QED BY <1>13, <4>6 DEF Pending
    <3> QED BY <3>3, <3>4
  <2>5. ASSUME NEW r \in content[table][s], r[Key] # Null, Pending(s, r)'
        PROVE  Pending(s, r)
    <3> DEFINE end == page[Len(page)]
    <3>1. \A i \in DOMAIN page : Beyond(s, mine.last, page[i])
      BY <1>1, <1>13, PageFacts
    <3>2. CASE r \in Listed(page)
      BY <1>13, <3>1, <3>2 DEF Pending, Listed
    <3>3. CASE r \notin Listed(page)
      <4>1. Beyond(s, mine.last, end) /\ end \in content[table][s]
        BY <1>13, <2>1, <3>1, PageParts
      <4>2. Less(opt.order[s], end[Key], r[Key]) \/ end[Key] = Null
        BY <1>1, <1>13, <2>2, <2>5, <3>3 DEF Pending, Beyond
      <4>3. opt.order[s] \in Ordering /\ r[Key] \in Keys /\ end[Key] \in Keys
        BY <1>1, <1>4, <4>1, RowFacts, TablesAssumption DEF VerifyType
      <4>4. mine.last \in {{}} \cup {{k} : k \in Keys}
        BY <1>1 DEF VerifyType, Cursors
      <4>5. ASSUME mine.last # {}, NEW k \in mine.last
            PROVE  k = Null \/ Less(opt.order[s], k, r[Key])
        BY <4>1, <4>2, <4>3, <4>4, <4>5, OrderFacts DEF Beyond
      <4>6. Beyond(s, mine.last, r)
        BY <2>5, <4>5 DEF Beyond
      <4> QED BY <1>13, <4>6 DEF Pending
    <3> QED BY <3>2, <3>3
  <2> QED BY <1>13, <2>2, <2>3, <2>4, <2>5
<1> QED BY <1>2, <1>3, <1>10, <1>11, <1>12, <1>13, AdvanceFacts

(* A step in which neither database nor cursor takes part. *)
LEMMA MergeKeeps ==
  ASSUME UNCHANGED <<cmd, opt, content, table, cursor, row, want, mismatches>>
  PROVE  /\ \A s : InFlight(s)' = InFlight(s) /\ (Owed(s)' <=> Owed(s))
         /\ \A s, r : Pending(s, r)' <=> Pending(s, r)
         /\ \A t, k : (UniqueKey(t, k)' <=> UniqueKey(t, k)) /\ (Agree(t, k)' <=> Agree(t, k))
<1>1. \A s : InFlight(s)' = InFlight(s) /\ (Owed(s)' <=> Owed(s))
  BY DEF InFlight, Owed
<1> QED BY <1>1, SameContent DEF Pending

(* A table of which no row has been asked for. *)
LEMMA Untouched ==
  ASSUME \A s \in Sides : cursor'[s] = Unread /\ Owed(s)'
  PROVE  /\ \A s \in Sides : /\ InFlight(s)' = {} /\ cursor'[s].rows = <<>> /\ cursor'[s].last = {}
                             /\ ~cursor'[s].done
         /\ \A s \in Sides : \A r : Pending(s, r)'
<1>1. \A s \in Sides : cursor'[s].rows = <<>> /\ cursor'[s].last = {} /\ ~cursor'[s].done
  BY DEF Unread
<1>2. \A s \in Sides : InFlight(s)' = {}
  BY <1>1 DEF InFlight
<1> QED BY <1>1, <1>2 DEF Pending, Beyond

LEMMA CursorStep ==
  ASSUME LifecycleInv, VerifyInv, [Next]_vars
  PROVE  CursorInv'
<1>1. CASE cmd' # "verify"
  BY <1>1 DEF CursorInv
<1>2. CASE cmd' = "verify" /\ StartVerify
  <2>1. \A s \in Sides : cursor'[s] = Unread /\ Owed(s)'
    BY <1>2 DEF StartVerify, VerifyInv, VerifyType, Owed, Sides
  <2> QED BY <2>1, Untouched DEF CursorInv
<1>3. ASSUME cmd' = "verify", NEW s \in Sides, Advance(s)
      PROVE  CursorInv'
  <2>1. /\ UNCHANGED <<cmd, opt, content, table, pc>>
        /\ \A x \in Sides \ {s} : (Owed(x)' <=> Owed(x)) /\ cursor'[x] = cursor[x] /\ row'[x] = row[x]
    BY <1>3, AdvanceFacts DEF VerifyInv
  <2>2. \A k : Agree(table, k)' <=> Agree(table, k)
    BY <2>1 DEF Agree, View, WithKey, CompareCols
  <2>3. /\ \A x \in Sides \ {s} : InFlight(x)' = InFlight(x)
        /\ cursor'[s].done => cursor'[s].rows = <<>>
        /\ row'[s] = Null => cursor'[s].done
        /\ \A q \in InFlight(s)' : q \in InFlight(s) \/ q \in content[table][s]
    BY <1>3, AdvanceMoves DEF VerifyInv
  <2>4. ASSUME NEW x \in Sides \ {s}
        PROVE  /\ cursor'[x].done => cursor'[x].rows = <<>>
               /\ pc' = "verify" /\ ~Owed(x)' /\ row'[x] = Null => cursor'[x].done
               /\ \A q \in InFlight(x)' : q \in content'[table'][x] \/ Agree(table, q[Key])'
    BY <1>3, <2>1, <2>2, <2>3 DEF VerifyInv, CursorInv
  <2>5. \A q \in InFlight(s)' : q \in content'[table'][s] \/ Agree(table, q[Key])'
    BY <1>3, <2>1, <2>2, <2>3 DEF VerifyInv, CursorInv
  <2> QED BY <2>1, <2>3, <2>4, <2>5 DEF CursorInv
<1>4. CASE cmd' = "verify" /\ Compare
  <2>1. UNCHANGED <<cmd, opt, pc, content, table, cursor, row>> /\ want = <<>>
    BY <1>4, CompareFacts DEF VerifyInv
  <2>2. \A s \in Sides : ~Owed(s)
    BY <2>1 DEF Owed
  <2>3. \A s \in Sides : InFlight(s)' \subseteq InFlight(s)
    BY <2>1, <2>2 DEF InFlight
  <2>4. \A k : Agree(table, k)' <=> Agree(table, k)
    BY <2>1, SameContent
  <2> QED BY <1>4, <2>1, <2>2, <2>3, <2>4 DEF CursorInv, VerifyInv
<1>5. CASE cmd' = "verify" /\ TableVerified
  <2>1. CASE table < Len(content)
    <3>1. \A s \in Sides : cursor'[s] = Unread /\ Owed(s)'
      BY <1>5, <2>1 DEF TableVerified, Owed, Sides
    <3> QED BY <3>1, Untouched DEF CursorInv
  <2>2. CASE ~(table < Len(content))
    <3>1. UNCHANGED <<cmd, opt, content, table, cursor, row, want, mismatches>> /\ pc' = "ended"
      BY <1>5, <2>2 DEF TableVerified, End
    <3> QED BY <1>5, <3>1, MergeKeeps DEF CursorInv, VerifyInv
  <2> QED BY <2>1, <2>2
<1>6. ASSUME cmd' = "verify", NEW t \in DOMAIN content, NEW k \in Keys, Replicate(t, k)
      PROVE  CursorInv'
  <2>1. /\ UNCHANGED <<cmd, opt, pc, table, cursor, row, want>> /\ cmd = "verify"
        /\ \A s \in Sides : \A r : table # t \/ r[Key] # k =>
             (r \in content'[table][s] <=> r \in content[table][s])
    BY <1>6, ReplicateFacts DEF VerifyInv, VerifyType, merge
  <2>2. \A s : InFlight(s)' = InFlight(s) /\ (Owed(s)' <=> Owed(s))
    BY <2>1 DEF InFlight, Owed
  <2>3. ASSUME NEW s \in Sides, NEW q \in InFlight(s)
        PROVE  q \in content'[table][s] \/ Agree(table, q[Key])'
    <3>1. CASE table = t /\ q[Key] = k
      BY <1>6, <3>1, <2>1, ReplicateAgrees DEF VerifyInv
    <3>2. CASE ~(table = t /\ q[Key] = k)
      <4>1. q[Key] \in Keys
        <5>1. q \in AllRows
          BY <2>1 DEF InFlight, VerifyInv, VerifyType, Cursors
        <5> QED BY <5>1, RowFacts
      <4>2. table \in DOMAIN content
        BY <2>1 DEF VerifyInv, VerifyType
      <4>3. Agree(table, q[Key])' <=> Agree(table, q[Key])
        BY <1>6, <2>1, <3>2, <4>1, <4>2, ReplicateAgrees DEF VerifyInv
      <4> QED BY <2>1, <3>2, <4>3 DEF VerifyInv, CursorInv
    <3> QED BY <3>1, <3>2
  <2> QED BY <2>1, <2>2, <2>3 DEF CursorInv, VerifyInv
<1>7. CASE cmd' = "verify" /\ (QueryFails \/ UNCHANGED vars)
  <2>1. UNCHANGED <<cmd, opt, content, table, cursor, row, want, mismatches>> /\ (pc' = "ended" \/ pc' = pc)
    BY <1>7 DEF QueryFails, End, vars, merge
  <2> QED BY <1>7, <2>1, MergeKeeps DEF CursorInv, VerifyInv
<1>8. StartLifecycle \/ Load \/ Section \/ SideFails \/ SideOver => cmd' # "verify"
  BY DEF StartLifecycle, Load, Section, SideFails, SideOver, LifecycleInv
<1> QED BY <1>1, <1>2, <1>3, <1>4, <1>5, <1>6, <1>7, <1>8 DEF Next, Step

(* Rows that are compared without a difference have the same key.          *)
LEMMA SameKeys ==
  ASSUME VerifyInv, cmd = "verify", CompareBoth, KeysTold, Differing = {}
  PROVE  row["source"][Key] = row["target"][Key]
<1>1. CASE Key \notin opt.ignored
  <2>1. Key \in CompareCols
    BY <1>1, SyncAssumption DEF CompareCols, Sides
  <2> QED BY <2>1 DEF Differing
<1>2. CASE \A j, k \in Keys : KeySame(j, k) => j = k
  <2>1. \A s \in Sides : row[s] # Null => row[s][Key] \in Keys
    BY RowFacts DEF VerifyInv, VerifyType
  <2>2. row["source"][Key] \in Keys /\ row["target"][Key] \in Keys
    BY <2>1 DEF CompareBoth, Sides
  <2> QED BY <1>2, <2>2 DEF CompareBoth
<1> QED BY <1>1, <1>2 DEF KeysTold

(* What the merge compares when it finds no column that differs.           *)
LEMMA ComparedAgree ==
  ASSUME VerifyInv, cmd = "verify", pc = "verify", want = <<>>,
         CompareBoth, KeysTold, Differing = {},
         NEW s \in Sides, row[s] \in content[table][s], UniqueKey(table, row[s][Key])
  PROVE  Agree(table, row[s][Key])
<1> DEFINE k == row["source"][Key]
           Seen(r) == [c \in CompareCols |-> r[c]]
<1>1. row["source"] \in InFlight("source") /\ row["target"] \in InFlight("target")
  BY DEF InFlight, Owed, CompareBoth
<1>2. row[s][Key] = k
  BY SameKeys DEF Sides
<1>3. CASE Agree(table, k)
  BY <1>2, <1>3
<1>4. CASE row["source"] \in content[table]["source"] /\ row["target"] \in content[table]["target"]
  <2>1. /\ WithKey(table, "source", k) = {row["source"]}
        /\ WithKey(table, "target", k) = {row["target"]}
    <3>1. row["source"][Key] = k /\ row["target"][Key] = k /\ UniqueKey(table, k)
      BY <1>2, SameKeys
    <3> QED BY <1>4, <3>1 DEF UniqueKey, WithKey, Sides
  <2>2. Seen(row["source"]) = Seen(row["target"])
    BY DEF Differing
  <2> HIDE DEF Seen
  <2>3. View(table, "source", k) = {Seen(row["source"])} /\ View(table, "target", k) = {Seen(row["target"])}
    BY <2>1 DEF View, Seen
  <2> QED BY <1>2, <2>2, <2>3 DEF Agree
<1>5. row["source"][Key] = k /\ row["target"][Key] = k
  BY SameKeys
<1> QED BY <1>1, <1>3, <1>4, <1>5 DEF VerifyInv, CursorInv, Sides

(* A key that is on neither side, or of which nothing is left to compare.  *)
LEMMA AgreeWhenOver ==
  ASSUME VerifyInv, cmd = "verify", mismatches = 0, opt.batch > 0, KeysTold, pc # "ended",
         \A s \in Sides : \A r \in content[table][s] : ~Pending(s, r),
         NEW k \in Keys, UniqueKey(table, k)
  PROVE  Agree(table, k)
<1>1. CASE \A s \in Sides : WithKey(table, s, k) = {}
  BY <1>1 DEF Agree, View, Sides
<1>2. ASSUME NEW s \in Sides, NEW r \in WithKey(table, s, k)
      PROVE  Agree(table, k)
  BY <1>2 DEF VerifyInv, AgreeInv, WithKey
<1> QED BY <1>1, <1>2

LEMMA NothingPending ==
  ASSUME VerifyInv, cmd = "verify", pc = "verify", want = <<>>, \A s \in Sides : row[s] = Null
  PROVE  \A s \in Sides : \A r : ~Pending(s, r)
<1>1. \A s \in Sides : ~Owed(s)
  BY DEF Owed
<1>2. \A s \in Sides : cursor[s].done /\ cursor[s].rows = <<>>
  BY <1>1 DEF VerifyInv, CursorInv
<1>3. \A s \in Sides : InFlight(s) = {}
  BY <1>1, <1>2 DEF InFlight
<1> QED BY <1>2, <1>3 DEF Pending

LEMMA AgreeStep ==
  ASSUME LifecycleInv, VerifyInv, [Next]_vars
  PROVE  AgreeInv' /\ ResultInv'
<1>0. UNCHANGED opt => (KeysTold' <=> KeysTold)
  BY DEF KeysTold
<1>1. CASE cmd' # "verify"
  BY <1>0, <1>1 DEF AgreeInv, ResultInv
<1>2. CASE cmd' = "verify" /\ StartVerify
  <2>1. /\ cursor' = [s \in Sides |-> Unread] /\ table' = 1 /\ result' # "ok"
        /\ content' = content /\ content \in Seq([Sides -> SUBSET AllRows])
    BY <1>2, SyncAssumption DEF StartVerify, VerifyInv, VerifyType
  <2>2. \A s \in Sides : \A r : Pending(s, r)'
    BY <2>1 DEF Pending, Beyond, Unread
  <2>3. \A t \in DOMAIN content : ~(t < 1)
    BY <2>1
  <2> QED BY <1>0, <2>1, <2>2, <2>3 DEF AgreeInv, ResultInv
<1>3. ASSUME cmd' = "verify", NEW s \in Sides, Advance(s)
      PROVE  AgreeInv' /\ ResultInv'
  <2>1. UNCHANGED <<cmd, opt, content, table, pc, result, mismatches>>
    BY <1>3, AdvanceFacts DEF VerifyInv
  <2>2. \A t, k : (UniqueKey(t, k)' <=> UniqueKey(t, k)) /\ (Agree(t, k)' <=> Agree(t, k))
    BY <2>1, SameContent
  <2>3. \A x \in Sides : \A r \in content[table][x] :
          UniqueKey(table, r[Key]) /\ opt.batch > 0 /\ Pending(x, r) => Pending(x, r)'
    BY <1>3, AdvanceMoves DEF VerifyInv
  <2> QED BY <1>0, <2>1, <2>2, <2>3 DEF VerifyInv, AgreeInv, ResultInv
<1>4. CASE cmd' = "verify" /\ Compare
  <2>1. /\ UNCHANGED <<cmd, opt, pc, content, table, cursor, row, result>> /\ want = <<>>
        /\ pc = "verify" /\ mismatches' >= mismatches /\ mismatches' \in Nat
        /\ mismatches' = 0 => CompareBoth /\ Differing = {}
    BY <1>4, CompareFacts DEF VerifyInv
  <2>2. ResultInv'
    BY <2>1, SyncAssumption DEF ResultInv, VerifyInv, VerifyType
  <2>3. \A t, k : (UniqueKey(t, k)' <=> UniqueKey(t, k)) /\ (Agree(t, k)' <=> Agree(t, k))
    BY <2>1, SameContent
  <2>4. ASSUME mismatches' = 0, opt.batch > 0, KeysTold, NEW s \in Sides, NEW r \in content[table][s],
               UniqueKey(table, r[Key])
        PROVE  Agree(table, r[Key]) \/ Pending(s, r)'
    <3>1. mismatches = 0
      BY <2>1, <2>4 DEF VerifyInv, VerifyType
    <3>2. Agree(table, r[Key]) \/ Pending(s, r)
      BY <1>0, <1>4, <2>1, <2>4, <3>1 DEF VerifyInv, AgreeInv
    <3>3. CASE r = row[s]
      <4>1. Agree(table, row[s][Key])
        <5>1. cmd = "verify" /\ CompareBoth /\ Differing = {}
          BY <1>4, <2>1, <2>4
        <5> QED BY <2>1, <2>4, <3>3, <5>1, ComparedAgree
      <4> QED BY <3>3, <4>1
    <3>4. CASE r # row[s]
      <4>1. r \in InFlight(s) => r \in InFlight(s)'
        BY <2>1, <3>4 DEF InFlight
      <4> QED BY <2>1, <3>2, <4>1, SameContent DEF Pending
    <3> QED BY <3>3, <3>4
  <2>5. mismatches' = 0 => mismatches = 0
    BY <2>1 DEF VerifyInv, VerifyType
  <2> QED BY <1>0, <1>4, <2>1, <2>2, <2>3, <2>4, <2>5 DEF AgreeInv, VerifyInv
<1>5. CASE cmd' = "verify" /\ TableVerified
  <2>1. /\ pc = "verify" /\ want = <<>> /\ (\A s \in Sides : row[s] = Null) /\ cmd = "verify"
        /\ UNCHANGED <<cmd, opt, content, mismatches>>
        /\ content \in Seq([Sides -> SUBSET AllRows]) /\ table \in DOMAIN content
        /\ result = Null
    BY <1>5 DEF TableVerified, BothOver, VerifyInv, VerifyType
  <2>2. \A s \in Sides : \A r : ~Pending(s, r)
    BY <2>1, NothingPending
  <2>3. \A t, k : (UniqueKey(t, k)' <=> UniqueKey(t, k)) /\ (Agree(t, k)' <=> Agree(t, k))
    BY <2>1, SameContent
  <2>4. mismatches = 0 /\ opt.batch > 0 /\ KeysTold => \A k \in Keys : UniqueKey(table, k) => Agree(table, k)
    BY <2>1, <2>2, AgreeWhenOver
  <2>5. mismatches = 0 /\ opt.batch > 0 /\ KeysTold =>
          \A t \in DOMAIN content, k \in Keys : t <= table /\ UniqueKey(t, k) => Agree(t, k)
    <3>1. \A t \in DOMAIN content : t <= table => t < table \/ t = table
      BY <2>1
    <3> QED BY <1>0, <2>1, <2>4, <3>1 DEF VerifyInv, AgreeInv
  <2>6. CASE table < Len(content)
    <3>1. cursor' = [s \in Sides |-> Unread] /\ table' = table + 1 /\ result' = result
      BY <1>5, <2>6 DEF TableVerified
    <3>2. \A s \in Sides : \A r : Pending(s, r)'
      BY <3>1 DEF Pending, Beyond, Unread
    <3>3. \A t \in DOMAIN content : t < table' => t <= table
      BY <2>1, <3>1
    <3> QED BY <1>0, <2>1, <2>3, <2>5, <3>1, <3>2, <3>3, SyncAssumption DEF AgreeInv, ResultInv
  <2>7. CASE ~(table < Len(content))
    <3>1. /\ table' = table /\ pc' = "ended" /\ result' = (IF mismatches > 0 THEN "failed" ELSE "ok")
      BY <1>5, <2>7 DEF TableVerified, End
    <3>2. table = Len(content) /\ \A t \in DOMAIN content : t <= table
      BY <2>1, <2>7
    <3>3. mismatches \in Nat
      BY DEF VerifyInv, VerifyType
    <3>4. result' = "ok" => mismatches = 0
      BY <3>1, <3>3
    <3>5. AgreeInv'
      BY <1>0, <2>1, <2>3, <2>5, <3>1, <3>2 DEF AgreeInv
    <3> QED BY <2>1, <3>1, <3>2, <3>4, <3>5 DEF ResultInv
  <2> QED BY <2>6, <2>7
<1>6. ASSUME cmd' = "verify", NEW t \in DOMAIN content, NEW k \in Keys, Replicate(t, k)
      PROVE  AgreeInv' /\ ResultInv'
  <2>1. /\ UNCHANGED <<cmd, opt, pc, table, cursor, row, want, mismatches, result>> /\ cmd = "verify"
        /\ DOMAIN content' = DOMAIN content
        /\ \A s \in Sides : \A r : table # t \/ r[Key] # k =>
             (r \in content'[table][s] <=> r \in content[table][s])
    BY <1>6, ReplicateFacts DEF VerifyInv, VerifyType, merge
  <2>2. /\ Agree(t, k)'
        /\ \A x \in DOMAIN content, j \in Keys : x # t \/ j # k =>
             (UniqueKey(x, j)' <=> UniqueKey(x, j)) /\ (Agree(x, j)' <=> Agree(x, j))
    BY <1>6, ReplicateAgrees DEF VerifyInv
  <2>3. table \in DOMAIN content /\ content \in Seq([Sides -> SUBSET AllRows])
    BY <2>1 DEF VerifyInv, VerifyType
  <2>4. Len(content') = Len(content)
    BY <1>6, <2>1, <2>3, TypeReplicate DEF VerifyInv, VerifyType
  <2>5. \A s \in Sides : \A r : Pending(s, r)' <=> Pending(s, r)
    BY <2>1 DEF Pending, InFlight, Owed, Beyond
  <2>6. \A s \in Sides : \A r \in content'[table][s] : r[Key] \in Keys
    <3>1. VerifyType'
      BY <1>6, TypeReplicate DEF VerifyInv
    <3> QED BY <1>6, <2>1, <3>1, RowFacts DEF VerifyType
  <2>7. ASSUME NEW s \in Sides, NEW r \in content'[table][s], UniqueKey(table, r[Key])',
               mismatches = 0, opt.batch > 0, KeysTold, pc # "ended"
        PROVE  Agree(table, r[Key])' \/ Pending(s, r)'
    <3>1. CASE table = t /\ r[Key] = k
      BY <2>1, <2>2, <3>1
    <3>2. CASE table # t \/ r[Key] # k
      BY <1>0, <2>1, <2>2, <2>3, <2>5, <2>6, <2>7, <3>2 DEF VerifyInv, AgreeInv
    <3> QED BY <3>1, <3>2
  <2>8. ASSUME NEW x \in DOMAIN content, NEW j \in Keys, x < table \/ result = "ok", UniqueKey(x, j)',
               mismatches = 0, opt.batch > 0, KeysTold
        PROVE  Agree(x, j)'
    <3>1. CASE x = t /\ j = k
      BY <2>2, <3>1
    <3>2. CASE x # t \/ j # k
      BY <1>0, <2>1, <2>2, <2>8, <3>2 DEF VerifyInv, AgreeInv
    <3> QED BY <3>1, <3>2
  <2> QED BY <1>0, <2>1, <2>4, <2>7, <2>8 DEF AgreeInv, ResultInv, VerifyInv
<1>7. CASE cmd' = "verify" /\ (QueryFails \/ UNCHANGED vars)
  <2>1. /\ UNCHANGED <<cmd, opt, content, table, cursor, row, want, mismatches>>
        /\ (pc' = "ended" /\ result' = "failed") \/ (pc' = pc /\ result' = result)
    BY <1>7 DEF QueryFails, End, vars, merge
  <2>2. CASE pc' = "ended" /\ result' = "failed"
    BY <1>0, <1>7, <2>1, <2>2, MergeKeeps DEF AgreeInv, ResultInv, VerifyInv
  <2>3. CASE pc' = pc /\ result' = result
    BY <1>0, <1>7, <2>1, <2>3, MergeKeeps DEF AgreeInv, ResultInv, VerifyInv
  <2> QED BY <2>1, <2>2, <2>3
<1>8. StartLifecycle \/ Load \/ Section \/ SideFails \/ SideOver => cmd' # "verify"
  BY DEF StartLifecycle, Load, Section, SideFails, SideOver, LifecycleInv
<1> QED BY <1>1, <1>2, <1>3, <1>4, <1>5, <1>6, <1>7, <1>8 DEF Next, Step

LEMMA VerifyInit == Init => VerifyInv
<1> SUFFICES ASSUME Init PROVE VerifyInv
  OBVIOUS
<1>1. VerifyType
  BY TypeInit
<1>2. /\ table = 1 /\ cursor = [s \in Sides |-> Unread] /\ row = [s \in Sides |-> Null] /\ pc = "start"
      /\ result = Null
  BY DEF Init
<1>3. \A s \in Sides : cursor[s].rows = <<>> /\ ~cursor[s].done /\ InFlight(s) = {}
  BY <1>2 DEF Unread, InFlight
<1>4. \A s \in Sides : \A r : Pending(s, r)
  BY <1>2 DEF Pending, Beyond, Unread
<1>5. cmd = "verify" => \A t \in DOMAIN content : ~(t < 1)
  BY <1>1 DEF VerifyType
<1> QED BY <1>1, <1>2, <1>3, <1>4, <1>5, SyncAssumption DEF VerifyInv, CursorInv, AgreeInv, ResultInv

LEMMA VerifyStep ==
  ASSUME LifecycleInv, VerifyInv, [Next]_vars
  PROVE  VerifyInv'
BY TypeStep, CursorStep, AgreeStep DEF VerifyInv

(* A verify that reports nothing has seen two sides that agree: no page is *)
(* skipped, and what replication changed behind the cursors agrees.        *)
THEOREM SilenceMeansAgreement == Spec => []VerifiedAgree
<1>1. VerifyInv => VerifiedAgree
  <2> SUFFICES ASSUME VerifyInv, cmd = "verify", result = "ok", WellKeyed, KeysTold, opt.batch > 0,
                      NEW t \in DOMAIN content, NEW k \in Keys
               PROVE  Agree(t, k)
    BY DEF VerifiedAgree, Agree
  <2>1. mismatches = 0
    BY DEF VerifyInv, ResultInv
  <2>2. CASE k # Null
    <3>1. UniqueKey(t, k)
      BY <2>2 DEF UniqueKey, WellKeyed, WithKey
    <3> QED BY <2>1, <3>1 DEF VerifyInv, AgreeInv
  <2>3. CASE k = Null
    <3>1. \A s \in Sides : WithKey(t, s, k) = {}
      BY <2>3 DEF WellKeyed, WithKey
    <3> QED BY <3>1 DEF Agree, View, Sides
  <2> QED BY <2>2, <2>3
<1> QED BY <1>1, LifecycleInit, LifecycleStep, VerifyInit, VerifyStep, PTL DEF Spec

-----------------------------------------------------------------------------
(* What verify reports of tables that keep still *)

Still ==
  /\ cmd = "verify" /\ ~moved /\ WellKeyed /\ opt.batch > 0
  /\ SortedAsCompared

(* Both orders, and that of the merge, are the same on the keys there are. *)
Order == opt.order["source"]

Before(r, q) == Less(Order, r[Key], q[Key])

(* A cursor gives the rows of its side in the order of their keys.         *)
QueueInv ==
  Still => \A s \in Sides :
    /\ InFlight(s) \subseteq content[table][s] /\ Null \notin cursor[s].last
    /\ cursor[s].last \subseteq KeysOf(table)
    /\ \A i, j \in DOMAIN cursor[s].rows : i < j => Before(cursor[s].rows[i], cursor[s].rows[j])
    /\ \A r \in InFlight(s) : /\ cursor[s].last # {}
                              /\ \A k \in cursor[s].last : ~Less(Order, k, r[Key])
    /\ ~Owed(s) /\ row[s] # Null =>
         \A i \in DOMAIN cursor[s].rows : Before(row[s], cursor[s].rows[i])

(* Two rows of a key are compared in the same round. *)
PairInv ==
  Still => \A x, y \in Sides : \A r \in content[table][x], q \in content[table][y] :
             r[Key] = q[Key] => (Pending(x, r) <=> Pending(y, q))

(* The keys of a table the merge is done with. *)
Over(t, k) ==
  \/ t < table
  \/ t = table /\ \A s \in Sides : \A r \in WithKey(t, s, k) : ~Pending(s, r)

(* The reports are the differences of the keys that are over, each counted *)
(* once.                                                                   *)
ReportInv ==
  Still =>
    /\ \A rep : rep \in reports <=> \E t \in DOMAIN content, k \in Keys : Over(t, k) /\ rep \in Difference(t, k)
    /\ IsFiniteSet(reports) /\ mismatches = Cardinality(reports)
    /\ pc = "ended" /\ (\A s \in Sides : cursor[s].done) =>
         \A s \in Sides : \A r \in content[table][s] : ~Pending(s, r)

LEMMA StillFacts ==
  ASSUME Still, VerifyType
  PROVE  /\ table \in DOMAIN content /\ Order \in Ordering
         /\ \A s \in Sides : \A j, k \in KeysOf(table) :
              /\ Less(opt.order[s], j, k) <=> Less(Order, j, k)
              /\ KeyLess(j, k) <=> Less(Order, j, k)
         /\ \A s \in Sides : \A r \in content[table][s] : r[Key] \in KeysOf(table)
         /\ \A t \in DOMAIN content, s \in Sides : \A r \in content[t][s] :
              r \in AllRows /\ r[Key] \in Keys /\ r[Key] # Null /\ r # Null /\ UniqueKey(t, r[Key])
         /\ \A t \in DOMAIN content, s \in Sides : \A r, q \in content[t][s] : r[Key] = q[Key] => r = q
<1>1. content \in Seq([Sides -> SUBSET AllRows]) /\ table \in DOMAIN content
  BY DEF Still, VerifyType
<1>2. ASSUME NEW t \in DOMAIN content, NEW s \in Sides, NEW r \in content[t][s]
      PROVE  r \in AllRows /\ r[Key] \in Keys /\ r[Key] # Null /\ r # Null /\ UniqueKey(t, r[Key])
  <2>1. r \in AllRows
    BY <1>1
  <2>2. r[Key] # Null
    BY DEF Still, WellKeyed
  <2>3. UniqueKey(t, r[Key])
    BY <2>2 DEF Still, WellKeyed, UniqueKey, WithKey
  <2> QED BY <2>1, <2>2, <2>3, RowFacts
<1>3. \A t \in DOMAIN content, s \in Sides : \A r, q \in content[t][s] : r[Key] = q[Key] => r = q
  BY DEF Still, WellKeyed
<1>4. opt \in Options
  BY DEF Still, VerifyType
<1>5. Order \in Ordering
  BY <1>4, TablesAssumption DEF Order, Sides
<1>6. \A s \in Sides : \A j, k \in KeysOf(table) :
        (Less(opt.order[s], j, k) <=> Less(Order, j, k)) /\ (KeyLess(j, k) <=> Less(Order, j, k))
  BY <1>1 DEF Still, SortedAsCompared, Order, Sides
<1>7. \A s \in Sides : \A r \in content[table][s] : r[Key] \in KeysOf(table)
  BY DEF KeysOf, Sides
<1> QED BY <1>1, <1>2, <1>3, <1>5, <1>6, <1>7

(* The tables keep still only if nothing is replicated. *)
LEMMA StillStep ==
  ASSUME LifecycleInv, VerifyType, [Next]_vars, Still'
  PROVE  /\ Still /\ cmd = "verify" /\ UNCHANGED <<cmd, opt, content>>
         /\ \/ StartVerify \/ \E s \in Sides : Advance(s)
            \/ Compare \/ TableVerified
            \/ /\ UNCHANGED <<cmd, opt, content, table, cursor, row, want, mismatches, reports>>
               /\ pc' = pc \/ (pc' = "ended" /\ ~cursor[Head(want)].done /\ Head(want) \in Sides)
<1>1. cmd' = "verify" /\ moved' = FALSE
  <2>1. moved' \in BOOLEAN
    BY TypeStep DEF VerifyType
  <2> QED BY <2>1 DEF Still
<1>2. ~(StartLifecycle \/ Load \/ Section \/ SideFails \/ SideOver)
  BY <1>1 DEF StartLifecycle, Load, Section, SideFails, SideOver, LifecycleInv
<1>3. ~(\E t \in DOMAIN content, k \in Keys : Replicate(t, k))
  BY <1>1 DEF Replicate
<1>4. CASE StartVerify \/ (\E s \in Sides : Advance(s)) \/ Compare \/ TableVerified
  <2>1. UNCHANGED <<cmd, opt, content, moved>>
    BY <1>4 DEF StartVerify, Advance, Compare, TableVerified
  <2> QED BY <1>1, <1>4, <2>1 DEF Still, WellKeyed, SortedAsCompared, KeysOf
<1>5. CASE QueryFails \/ UNCHANGED vars
  <2>1. UNCHANGED <<cmd, opt, content, table, cursor, row, want, mismatches, reports, moved>>
    BY <1>5 DEF QueryFails, vars, merge
  <2>2. QueryFails => pc' = "ended" /\ ~cursor[Head(want)].done /\ Head(want) \in Sides
    BY <1>1, <2>1, WantFacts DEF QueryFails, End, VerifyType
  <2>3. UNCHANGED vars => pc' = pc
    BY DEF vars
  <2> QED BY <1>1, <1>5, <2>1, <2>2, <2>3 DEF Still, WellKeyed, SortedAsCompared, KeysOf
<1> QED BY <1>2, <1>3, <1>4, <1>5 DEF Next, Step

(* The row to look at comes before all others that are still to come.      *)
LEMMA LeadsOthers ==
  ASSUME Still, VerifyInv, QueueInv, NEW s \in Sides, ~Owed(s), row[s] # Null,
         NEW r \in content[table][s], Pending(s, r)
  PROVE  row[s] \in content[table][s] /\ Pending(s, row[s]) /\ (r = row[s] \/ Before(row[s], r))
<1>1. row[s] \in InFlight(s)
  BY DEF InFlight
<1>2. /\ row[s] \in content[table][s] /\ cursor[s].last # {}
      /\ \A k \in cursor[s].last : ~Less(Order, k, row[s][Key])
      /\ \A i \in DOMAIN cursor[s].rows : Before(row[s], cursor[s].rows[i])
  BY <1>1 DEF QueueInv
<1>3. CASE r \in InFlight(s)
  BY <1>1, <1>2, <1>3 DEF InFlight, Pending
<1>4. CASE r \notin InFlight(s)
  <2>1. Beyond(s, cursor[s].last, r)
    BY <1>4 DEF Pending
  <2>2. cursor[s].last \in {{}} \cup {{k} : k \in Keys}
    BY DEF VerifyInv, VerifyType, Cursors, Still
  <2>3. PICK k \in Keys : cursor[s].last = {k}
    BY <1>2, <2>2
  <2>4. Less(Order, k, r[Key])
    <3>1. k \in KeysOf(table) /\ k # Null
      BY <2>3 DEF QueueInv
    <3>2. Less(opt.order[s], k, r[Key])
      BY <2>1, <2>3, <3>1 DEF Beyond
    <3> QED BY <3>1, <3>2, StillFacts DEF VerifyInv
  <2>5. ~Less(Order, k, row[s][Key])
    BY <1>2, <2>3
  <2>6. r[Key] \in Keys /\ row[s][Key] \in Keys /\ Order \in Ordering
    BY <1>2, StillFacts DEF VerifyInv
  <2>7. Before(row[s], r)
    BY <2>4, <2>5, <2>6, OrderFacts DEF Before
  <2> QED BY <1>1, <1>2, <2>7 DEF Pending
<1> QED BY <1>3, <1>4

LEMMA QueueAdvance ==
  ASSUME VerifyInv, QueueInv, Still, Still', NEW s \in Sides, Advance(s)
  PROVE  QueueInv'
<1> DEFINE mine == cursor[s]
           next == cursor'[s]
           Ascending(q) == \A i, j \in DOMAIN q : i < j => Before(q[i], q[j])
<1>1. /\ cmd = "verify" /\ Owed(s) /\ ~Owed(s)' /\ UNCHANGED <<opt, content, table>>
      /\ \A x \in Sides \ {s} : (Owed(x)' <=> Owed(x)) /\ cursor'[x] = cursor[x] /\ row'[x] = row[x]
  BY AdvanceFacts DEF VerifyInv
<1>2. /\ \A x \in Sides \ {s} : InFlight(x)' = InFlight(x)
      /\ InFlight(s)' \subseteq content[table][s]
  BY AdvanceMoves DEF VerifyInv, QueueInv
<1>3. InFlight(s)' = {next.rows[i] : i \in DOMAIN next.rows} \cup ({row'[s]} \ {Null})
  BY <1>1 DEF InFlight
<1>4. \A x \in Sides \ {s} :
        /\ InFlight(x)' \subseteq content'[table'][x] /\ Null \notin cursor'[x].last
        /\ cursor'[x].last \subseteq KeysOf(table)
        /\ Ascending(cursor'[x].rows)
        /\ \A r \in InFlight(x)' : /\ cursor'[x].last # {}
                                   /\ \A k \in cursor'[x].last : ~Less(Order, k, r[Key])
        /\ ~Owed(x)' /\ row'[x] # Null =>
             \A i \in DOMAIN cursor'[x].rows : Before(row'[x], cursor'[x].rows[i])
  BY <1>1, <1>2 DEF QueueInv
<1>5. mine.rows \in Seq(AllRows) /\ Null \notin mine.last /\ mine.last \subseteq KeysOf(table)
  BY <1>1 DEF VerifyInv, VerifyType, Cursors, QueueInv
<1> DEFINE Mine == /\ Null \notin next.last /\ next.last \subseteq KeysOf(table) /\ Ascending(next.rows)
                   /\ \A r \in InFlight(s)' : /\ next.last # {}
                                              /\ \A k \in next.last : ~Less(Order, k, r[Key])
                   /\ row'[s] # Null => \A i \in DOMAIN next.rows : Before(row'[s], next.rows[i])
<1> SUFFICES Mine
  <2>1. Order' = Order /\ KeysOf(table)' = KeysOf(table)
    BY <1>1 DEF Order, KeysOf
  <2> QED BY <1>1, <1>2, <1>4, <2>1 DEF QueueInv, Before
<1>6. ASSUME row'[s] = Null, next.rows = <<>>, next.last = mine.last
      PROVE  Mine
  <2>1. DOMAIN next.rows = {}
    BY <1>6
  <2>2. InFlight(s)' = {}
    BY <1>3, <1>6, <2>1
  <2> QED BY <1>5, <1>6, <2>1, <2>2
<1> HIDE DEF Mine
<1>7. CASE mine.done /\ row'[s] = Null /\ next = mine
  <2>1. mine.rows = <<>>
    BY <1>1, <1>7 DEF VerifyInv, CursorInv
  <2> QED BY <1>6, <1>7, <2>1
<1>8. CASE /\ ~mine.done /\ mine.rows # <<>> /\ row'[s] = Head(mine.rows)
           /\ next = [rows |-> Tail(mine.rows), last |-> mine.last, done |-> FALSE]
  <2>1. /\ Head(mine.rows) = mine.rows[1] /\ 1 \in DOMAIN mine.rows
        /\ \A j \in DOMAIN Tail(mine.rows) : j + 1 \in DOMAIN mine.rows
                                             /\ Tail(mine.rows)[j] = mine.rows[j + 1]
    BY <1>5, <1>8, PageParts
  <2>2. DOMAIN Tail(mine.rows) \subseteq Nat \ {0}
    <3>1. Tail(mine.rows) \in Seq(AllRows)
      BY <1>5, <1>8, PageParts
    <3> QED BY <3>1
  <2>3. \A i, j \in DOMAIN mine.rows : i < j => Before(mine.rows[i], mine.rows[j])
    BY DEF QueueInv
  <2>4. Ascending(Tail(mine.rows))
    BY <2>1, <2>2, <2>3
  <2>5. \A i \in DOMAIN Tail(mine.rows) : Before(row'[s], Tail(mine.rows)[i])
    BY <1>8, <2>1, <2>2, <2>3
  <2>6. InFlight(s)' \subseteq InFlight(s)
    <3>1. InFlight(s) = {mine.rows[i] : i \in DOMAIN mine.rows}
      BY <1>1 DEF InFlight
    <3> QED BY <1>3, <1>8, <2>1, <3>1
  <2>7. \A r \in InFlight(s) : mine.last # {} /\ \A k \in mine.last : ~Less(Order, k, r[Key])
    BY DEF QueueInv
  <2>8. next.rows = Tail(mine.rows) /\ next.last = mine.last
    BY <1>8
  <2> HIDE DEF Ascending, next
  <2> QED BY <1>5, <1>8, <2>4, <2>5, <2>6, <2>7, <2>8 DEF Mine
<1>9. ASSUME NEW page \in Pages(s, RowsAfter(s, mine.last)), page # <<>>, row'[s] = Head(page),
             next = [rows |-> Tail(page), last |-> {page[Len(page)][Key]}, done |-> FALSE]
      PROVE  Mine
  <2>1. /\ page \in Seq(AllRows) /\ \A i \in DOMAIN page : page[i] \in content[table][s]
        /\ \A i, j \in DOMAIN page : page[i] = page[j] => i = j
        /\ Sorted(s, page)
    BY <1>1, PageFacts DEF VerifyInv
  <2>2. /\ Head(page) = page[1] /\ 1 \in DOMAIN page /\ Len(page) \in DOMAIN page
        /\ Tail(page) \in Seq(AllRows)
        /\ \A j \in DOMAIN Tail(page) : j + 1 \in DOMAIN page /\ Tail(page)[j] = page[j + 1]
    BY <1>9, <2>1, PageParts
  <2>3. DOMAIN Tail(page) \subseteq Nat \ {0} /\ DOMAIN page = 1 .. Len(page) /\ Len(page) \in Nat
    BY <2>1, <2>2
  <2>4. \A i \in DOMAIN page : page[i][Key] \in Keys /\ page[i][Key] # Null
    BY <2>1, StillFacts DEF VerifyInv
  <2>5. \A i, j \in DOMAIN page : page[i][Key] = page[j][Key] => i = j
    <3>1. \A i, j \in DOMAIN page : page[i][Key] = page[j][Key] => page[i] = page[j]
      BY <2>1, StillFacts DEF VerifyInv
    <3> QED BY <2>1, <3>1
  <2>6. \A i, j \in DOMAIN page : i < j => ~Less(Order, page[j][Key], page[i][Key])
    <3>1. \A i \in DOMAIN page : page[i][Key] \in KeysOf(table)
      BY <2>1, StillFacts DEF VerifyInv
    <3> QED BY <2>1, <3>1, StillFacts DEF Sorted, VerifyInv
  <2>7. Order \in Ordering /\ page[Len(page)][Key] \in KeysOf(table)
    BY <2>1, <2>2, StillFacts DEF VerifyInv
  <2>8. \A i, j \in DOMAIN page : i < j => Before(page[i], page[j])
    <3> SUFFICES ASSUME NEW i \in DOMAIN page, NEW j \in DOMAIN page, i < j
                 PROVE  Before(page[i], page[j])
      OBVIOUS
    <3>1. i # j
      BY <2>3
    <3>2. page[i][Key] # page[j][Key]
      BY <2>5, <3>1
    <3> QED BY <2>4, <2>6, <2>7, <3>2, OrderFacts DEF Before
  <2>9. \A i \in DOMAIN page : ~Less(Order, page[Len(page)][Key], page[i][Key])
    <3> SUFFICES ASSUME NEW i \in DOMAIN page
                 PROVE  ~Less(Order, page[Len(page)][Key], page[i][Key])
      OBVIOUS
    <3>1. i = Len(page) \/ i < Len(page)
      BY <2>3
    <3> QED BY <2>2, <2>4, <2>6, <2>7, <3>1, OrderFacts
  <2>10. Ascending(Tail(page)) /\ \A i \in DOMAIN Tail(page) : Before(page[1], Tail(page)[i])
    BY <2>2, <2>3, <2>8
  <2>11. InFlight(s)' \subseteq {page[i] : i \in DOMAIN page}
    BY <1>3, <1>9, <2>2
  <2>12. next.last = {page[Len(page)][Key]} /\ next.rows = Tail(page)
    BY <1>9
  <2> QED BY <1>9, <2>2, <2>4, <2>7, <2>9, <2>10, <2>11, <2>12 DEF Mine
<1>10. QED
  <2>1. ASSUME NEW page \in Pages(s, RowsAfter(s, mine.last)), page = <<>>, row'[s] = Null,
               next = [rows |-> <<>>, last |-> mine.last, done |-> TRUE]
        PROVE  Mine
    BY <1>6, <2>1
  <2> QED BY <1>7, <1>8, <1>9, <2>1, AdvanceFacts DEF VerifyInv

(* A table is begun, or a step leaves the merge where it is.               *)
LEMMA StillCases ==
  ASSUME LifecycleInv, VerifyType, [Next]_vars, Still'
  PROVE  /\ Still /\ cmd = "verify" /\ UNCHANGED <<cmd, opt, content>>
         /\ \/ \E s \in Sides : Advance(s)
            \/ Compare
            \/ /\ \A s \in Sides : cursor'[s] = Unread /\ Owed(s)'
               /\ pc' = "verify" /\ UNCHANGED <<reports, mismatches>>
               /\ \/ pc = "start" /\ UNCHANGED table
                  \/ TableVerified /\ table' = table + 1
            \/ /\ UNCHANGED <<cmd, opt, content, table, cursor, row, want, mismatches, reports>>
               /\ \/ pc' = pc
                  \/ pc' = "ended" /\ \E s \in Sides : ~cursor[s].done
                  \/ pc' = "ended" /\ TableVerified
<1>1. CASE StartVerify
  <2>1. \A s \in Sides : cursor'[s] = Unread /\ Owed(s)'
    BY <1>1, StillStep DEF StartVerify, VerifyType, Owed, Sides
  <2> QED BY <1>1, <2>1, StillStep DEF StartVerify
<1>2. CASE TableVerified
  <2>1. CASE table < Len(content)
    <3>1. \A s \in Sides : cursor'[s] = Unread /\ Owed(s)'
      BY <1>2, <2>1 DEF TableVerified, Owed, Sides
    <3> QED BY <1>2, <2>1, <3>1, StillStep DEF TableVerified
  <2>2. CASE ~(table < Len(content))
    BY <1>2, <2>2, StillStep DEF TableVerified, End
  <2> QED BY <2>1, <2>2
<1> QED BY <1>1, <1>2, StillStep

LEMMA QueueStep ==
  ASSUME LifecycleInv, VerifyInv, QueueInv, [Next]_vars
  PROVE  QueueInv'
<1> SUFFICES ASSUME Still' PROVE QueueInv'
  BY DEF QueueInv
<1>1. Still /\ UNCHANGED <<cmd, opt, content>>
  BY StillCases DEF VerifyInv
<1>0. Order' = Order /\ (UNCHANGED table => KeysOf(table)' = KeysOf(table))
  BY <1>1 DEF Order, KeysOf
<1>2. CASE \E s \in Sides : Advance(s)
  BY <1>1, <1>2, QueueAdvance
<1>3. CASE Compare
  <2>1. UNCHANGED <<table, cursor, row>> /\ want = <<>>
    BY <1>3, CompareFacts DEF VerifyInv
  <2>2. \A s \in Sides : ~Owed(s) /\ InFlight(s)' \subseteq InFlight(s)
    BY <2>1 DEF Owed, InFlight
  <2> QED BY <1>0, <1>1, <2>1, <2>2 DEF QueueInv, Before
<1>4. CASE \A s \in Sides : cursor'[s] = Unread /\ Owed(s)'
  BY <1>4, Untouched DEF QueueInv
<1>5. CASE UNCHANGED <<cmd, opt, content, table, cursor, row, want, mismatches, reports>>
  BY <1>0, <1>1, <1>5, MergeKeeps DEF QueueInv, Before
<1> QED BY <1>2, <1>3, <1>4, <1>5, StillCases DEF VerifyInv

(* Moving a cursor changes nothing of what is to come. *)
LEMMA AdvanceExact ==
  ASSUME VerifyInv, Still, NEW s \in Sides, Advance(s)
  PROVE  /\ \A x \in Sides : \A r \in content[table][x] : Pending(x, r)' <=> Pending(x, r)
         /\ UNCHANGED <<opt, content, table, reports, mismatches, pc>> /\ pc = "verify"
<1>1. \A r \in content[table][s] : UniqueKey(table, r[Key]) /\ r[Key] # Null
  BY StillFacts DEF VerifyInv
<1>2. \A x \in Sides \ {s} : \A r : Pending(x, r)' <=> Pending(x, r)
  BY AdvanceMoves DEF VerifyInv
<1>3. \A r \in content[table][s] : Pending(s, r)' <=> Pending(s, r)
  BY <1>1, AdvanceMoves DEF VerifyInv, Still
<1> QED BY <1>2, <1>3, AdvanceFacts DEF VerifyInv

(* The row that was looked at is not to come again. *)
LEMMA RowDropped ==
  ASSUME VerifyInv, QueueInv, Still, NEW s \in Sides, ~Owed(s), row[s] # Null,
         UNCHANGED <<opt, cursor, row>>, Owed(s)'
  PROVE  /\ row[s] \in content[table][s] /\ Pending(s, row[s])
         /\ \A r \in content[table][s] : Pending(s, r)' <=> Pending(s, r) /\ r[Key] # row[s][Key]
<1> DEFINE rows == {cursor[s].rows[i] : i \in DOMAIN cursor[s].rows}
<1>1. InFlight(s) = rows \cup {row[s]} /\ InFlight(s)' = rows
  BY DEF InFlight
<1>2. /\ row[s] \in content[table][s] /\ cursor[s].last # {} /\ Null \notin cursor[s].last
      /\ \A k \in cursor[s].last : ~Less(Order, k, row[s][Key])
      /\ \A i \in DOMAIN cursor[s].rows : Before(row[s], cursor[s].rows[i])
      /\ rows \subseteq content[table][s]
  BY <1>1 DEF QueueInv
<1>3. row[s] \notin rows
  <2>1. row[s][Key] \in Keys /\ Order \in Ordering
    BY <1>2, StillFacts DEF VerifyInv
  <2>2. ~Before(row[s], row[s])
    BY <2>1, OrderFacts DEF Before
  <2> QED BY <1>2, <2>2
<1>4. ~Beyond(s, cursor[s].last, row[s])
  <2>1. \A k \in cursor[s].last : k \in KeysOf(table) /\ k # Null
    BY DEF QueueInv
  <2> QED BY <1>2, <2>1, StillFacts DEF Beyond, VerifyInv
<1>5. \A r \in content[table][s] : r[Key] = row[s][Key] <=> r = row[s]
  BY <1>2, StillFacts DEF VerifyInv
<1>6. \A last, r : Beyond(s, last, r)' <=> Beyond(s, last, r)
  BY DEF Beyond
<1> HIDE DEF rows
<1> QED BY <1>1, <1>2, <1>3, <1>4, <1>5, <1>6 DEF Pending

(* A row that is ahead of those of the other side has no counterpart.      *)
LEMMA AheadAlone ==
  ASSUME VerifyInv, QueueInv, PairInv, Still, pc = "verify", want = <<>>,
         NEW s \in Sides, Ahead(s), NEW q \in content[table][Other(s)]
  PROVE  q[Key] # row[s][Key]
<1> DEFINE o == Other(s)
<1> SUFFICES ASSUME q[Key] = row[s][Key] PROVE FALSE
  OBVIOUS
<1>1. o \in Sides /\ o # s
  BY DEF Other, Sides
<1>2. ~Owed(s) /\ ~Owed(o) /\ row[s] # Null
  BY DEF Owed, Ahead
<1>3. row[s] \in content[table][s] /\ Pending(s, row[s])
  <2>1. row[s] \in InFlight(s)
    BY <1>2 DEF InFlight
  <2> QED BY <2>1 DEF QueueInv, Pending
<1>4. Pending(o, q)
  BY <1>1, <1>3 DEF PairInv
<1>5. CASE row[o] = Null
  <2>1. cursor[o].done /\ cursor[o].rows = <<>>
    BY <1>1, <1>2, <1>5 DEF VerifyInv, CursorInv, Still
  <2>2. InFlight(o) = {}
    BY <1>2, <1>5, <2>1 DEF InFlight
  <2> QED BY <1>4, <2>1, <2>2 DEF Pending
<1>6. CASE row[o] # Null
  <2>1. Less(Order, row[s][Key], row[o][Key])
    <3>1. KeyLess(row[s][Key], row[o][Key])
      BY <1>6 DEF Ahead
    <3>2. row[s] \in content[table][s] /\ row[o] \in content[table][o]
      BY <1>1, <1>2, <1>3, <1>4, <1>6, LeadsOthers
    <3> QED BY <1>1, <3>1, <3>2, StillFacts DEF VerifyInv
  <2>2. row[o] \in content[table][o] /\ (q = row[o] \/ Before(row[o], q))
    BY <1>1, <1>2, <1>4, <1>6, LeadsOthers
  <2>3. Order \in Ordering /\ row[o][Key] \in Keys /\ row[s][Key] \in Keys
    BY <1>1, <1>3, <2>2, StillFacts DEF VerifyInv
  <2> QED BY <2>1, <2>2, <2>3, OrderFacts DEF Before
<1> QED BY <1>5, <1>6

LEMMA PairStep ==
  ASSUME LifecycleInv, VerifyInv, QueueInv, PairInv, [Next]_vars, ~Compare
  PROVE  PairInv'
<1> SUFFICES ASSUME Still' PROVE PairInv'
  BY DEF PairInv
<1>1. Still /\ UNCHANGED <<cmd, opt, content>>
  BY StillCases DEF VerifyInv
<1>2. CASE \E s \in Sides : Advance(s)
  BY <1>1, <1>2, AdvanceExact DEF PairInv
<1>3. CASE \A s \in Sides : cursor'[s] = Unread /\ Owed(s)'
  BY <1>3, Untouched DEF PairInv
<1>4. CASE UNCHANGED <<cmd, opt, content, table, cursor, row, want, mismatches, reports>>
  BY <1>1, <1>4, MergeKeeps DEF PairInv
<1> QED BY <1>2, <1>3, <1>4, StillCases DEF VerifyInv

Reps(t, k, kind, cols) == {[table |-> t, key |-> k, kind |-> kind, column |-> c] : c \in cols}

LEMMA ReportedOnce ==
  ASSUME NEW t, NEW k, NEW kind, NEW cols, IsFiniteSet(cols)
  PROVE  /\ IsFiniteSet(Reps(t, k, kind, cols))
         /\ Cardinality(Reps(t, k, kind, cols)) = Cardinality(cols)
<1> DEFINE reps == Reps(t, k, kind, cols)
           Rep(c) == [table |-> t, key |-> k, kind |-> kind, column |-> c]
           f == [c \in cols |-> Rep(c)]
<1>1. \A c, d : Rep(c) = Rep(d) => c = d
  <2> SUFFICES ASSUME NEW c, NEW d, Rep(c) = Rep(d) PROVE c = d
    OBVIOUS
  <2>1. Rep(c).column = c /\ Rep(d).column = d
    OBVIOUS
  <2> QED BY <2>1
<1>2. reps = {Rep(c) : c \in cols}
  BY DEF Reps
<1> HIDE DEF Rep, reps
<1>3. f \in Surjection(cols, reps)
  BY <1>2 DEF Surjection
<1>4. f \in Injection(cols, reps)
  BY <1>1, <1>2 DEF Injection, IsInjective
<1>5. IsFiniteSet(reps) /\ Cardinality(reps) = Cardinality(cols)
  BY <1>3, <1>4, FS_Surjection
<1> QED BY <1>5 DEF reps

LEMMA DifferenceFacts ==
  /\ \A t, k : \A rep \in Difference(t, k) : rep.table = t /\ rep.key = k
  /\ UNCHANGED <<content, opt>> => \A t, k : Difference(t, k)' = Difference(t, k)
<1>1. ASSUME NEW t, NEW k, NEW rep \in Difference(t, k)
      PROVE  \E kind, c : rep = [table |-> t, key |-> k, kind |-> kind, column |-> c]
  <2>1. CASE WithKey(t, "target", k) = {}
    BY <1>1, <2>1 DEF Difference
  <2>2. CASE WithKey(t, "target", k) # {} /\ WithKey(t, "source", k) = {}
    BY <1>1, <2>2 DEF Difference
  <2>3. CASE WithKey(t, "target", k) # {} /\ WithKey(t, "source", k) # {}
    BY <1>1, <2>3 DEF Difference
  <2> QED BY <2>1, <2>2, <2>3
<1>2. ASSUME UNCHANGED <<content, opt>>, NEW t, NEW k
      PROVE  Difference(t, k)' = Difference(t, k)
  <2>1. CompareCols' = CompareCols /\ \A s : WithKey(t, s, k)' = WithKey(t, s, k)
    BY <1>2 DEF CompareCols, WithKey
  <2>2. CASE WithKey(t, "target", k) = {}
    BY <2>1, <2>2 DEF Difference
  <2>3. CASE WithKey(t, "target", k) # {} /\ WithKey(t, "source", k) = {}
    BY <2>1, <2>3 DEF Difference
  <2>4. CASE WithKey(t, "target", k) # {} /\ WithKey(t, "source", k) # {}
    <3> DEFINE cols == {d \in CompareCols : \E r \in WithKey(t, "source", k), q \in WithKey(t, "target", k) : r[d] # q[d]}
    <3>1. cols' = cols
      BY <2>1
    <3>2. /\ Difference(t, k) = {[table |-> t, key |-> k, kind |-> "MISMATCH", column |-> c] : c \in cols}
          /\ Difference(t, k)' = {[table |-> t, key |-> k, kind |-> "MISMATCH", column |-> c] : c \in cols'}
      BY <2>1, <2>4 DEF Difference
    <3> QED BY <3>1, <3>2
  <2> QED BY <2>2, <2>3, <2>4
<1>3. \A t, k : \A rep \in Difference(t, k) : rep.table = t /\ rep.key = k
  BY <1>1
<1> QED BY <1>2, <1>3

(* A round of the merge is done with one key, whose difference it reports. *)
LEMMA CompareExact ==
  ASSUME VerifyInv, QueueInv, PairInv, Still, Compare
  PROVE  \E k \in Keys :
           /\ \A s \in Sides : \A r \in content[table][s] : Pending(s, r)' <=> Pending(s, r) /\ r[Key] # k
           /\ \E s \in Sides : \E r \in WithKey(table, s, k) : Pending(s, r)
           /\ reports' = reports \cup Difference(table, k)
           /\ IsFiniteSet(Difference(table, k))
           /\ mismatches' = mismatches + Cardinality(Difference(table, k))
<1>1. /\ pc = "verify" /\ want = <<>> /\ UNCHANGED <<opt, cursor, row, content, table>>
      /\ \A s \in Sides : ~Owed(s)
  BY CompareFacts DEF VerifyInv, Owed
<1>2. \A s \in Sides : row[s] # Null => row[s] \in content[table][s]
  BY <1>1 DEF QueueInv, InFlight
<1>3. \A s \in Sides : \A r \in content[table][s] : r[Key] \in Keys
  BY StillFacts DEF VerifyInv
<1>4. ASSUME NEW s \in Sides, ~Owed(s)'
      PROVE  \A r : Pending(s, r)' <=> Pending(s, r)
  BY <1>1, <1>4 DEF Pending, InFlight, Beyond
<1>5. \A s \in Sides : row[s] # Null => WithKey(table, s, row[s][Key]) = {row[s]}
  <2> SUFFICES ASSUME NEW s \in Sides, row[s] # Null
               PROVE  WithKey(table, s, row[s][Key]) = {row[s]}
    OBVIOUS
  <2>1. \A r \in content[table][s] : r[Key] = row[s][Key] => r = row[s]
    BY <1>2, StillFacts DEF VerifyInv
  <2> QED BY <1>2, <2>1 DEF WithKey
<1>6. CASE CompareBoth
  <2> DEFINE k == row["source"][Key]
  <2>1. row["source"] # Null /\ row["target"] # Null /\ row["target"][Key] = k /\ \A s \in Sides : Owed(s)'
    <3>1. row["source"] # Null /\ row["target"] # Null /\ KeySame(k, row["target"][Key])
          /\ want' = <<"source", "target">>
      BY <1>6 DEF CompareBoth
    <3>2. k \in KeysOf(table) /\ row["target"][Key] \in KeysOf(table)
          /\ k \in Keys /\ row["target"][Key] \in Keys /\ Order \in Ordering
      BY <1>2, <1>3, <3>1, StillFacts DEF VerifyInv, Sides
    <3>3. ~Less(Order, k, row["target"][Key]) /\ ~Less(Order, row["target"][Key], k)
      BY <3>1, <3>2, StillFacts DEF VerifyInv, KeySame, Sides
    <3>4. row["target"][Key] = k
      BY <3>2, <3>3, OrderFacts
    <3> QED BY <3>1, <3>4 DEF Owed, Sides
  <2>2. k \in Keys
    BY <1>2, <1>3, <2>1 DEF Sides
  <2>3. \A s \in Sides : row[s] # Null /\ row[s][Key] = k
    BY <2>1 DEF Sides
  <2>4. \A s \in Sides : \A r \in content[table][s] : Pending(s, r)' <=> Pending(s, r) /\ r[Key] # k
    BY <1>1, <2>1, <2>3, RowDropped
  <2>5. \E s \in Sides : \E r \in WithKey(table, s, k) : Pending(s, r)
    <3>1. Pending("source", row["source"])
      BY <1>1, <2>1, RowDropped DEF Sides
    <3> QED BY <1>5, <2>3, <3>1 DEF Sides
  <2>6. Difference(table, k) = {[table |-> table, key |-> k, kind |-> "MISMATCH", column |-> c] : c \in Differing}
    <3>1. WithKey(table, "source", k) = {row["source"]} /\ WithKey(table, "target", k) = {row["target"]}
      BY <1>5, <2>3 DEF Sides
    <3> QED BY <3>1 DEF Difference, Differing
  <2>7. IsFiniteSet(Differing)
    <3>1. Differing \subseteq Columns["source"]
      BY DEF Differing, CompareCols
    <3> QED BY <3>1, FS_Subset, SyncAssumption DEF Sides
  <2>8. Report("MISMATCH", Differing, "source")
    BY <1>6 DEF CompareBoth
  <2>9. /\ IsFiniteSet(Difference(table, k)) /\ Cardinality(Difference(table, k)) = Cardinality(Differing)
    <3>1. Difference(table, k) = Reps(table, k, "MISMATCH", Differing)
      BY <2>6 DEF Reps
    <3> QED BY <2>7, <3>1, ReportedOnce
  <2>10. reports' = reports \cup Difference(table, k) /\ mismatches' = mismatches + Cardinality(Differing)
    BY <2>6, <2>8 DEF Report
  <2> QED BY <2>2, <2>4, <2>5, <2>9, <2>10
<1>7. ASSUME NEW s \in Sides, NEW kind \in {"MISSING", "EXTRA"}, Ahead(s), Report(kind, {Key}, s), want' = <<s>>,
             kind = (IF s = "source" THEN "MISSING" ELSE "EXTRA")
      PROVE  \E k \in Keys :
           /\ \A x \in Sides : \A r \in content[table][x] : Pending(x, r)' <=> Pending(x, r) /\ r[Key] # k
           /\ \E x \in Sides : \E r \in WithKey(table, x, k) : Pending(x, r)
           /\ reports' = reports \cup Difference(table, k)
           /\ IsFiniteSet(Difference(table, k))
           /\ mismatches' = mismatches + Cardinality(Difference(table, k))
  <2> DEFINE k == row[s][Key]
             o == Other(s)
  <2>1. o \in Sides /\ o # s /\ Sides = {s, o}
    BY DEF Other, Sides
  <2>2. row[s] # Null /\ Owed(s)' /\ ~Owed(o)'
    BY <1>7, <2>1 DEF Ahead, Owed, Sides
  <2>3. k \in Keys
    BY <1>2, <1>3, <2>2
  <2>4. \A q \in content[table][o] : q[Key] # k
    BY <1>1, <1>7, AheadAlone
  <2>5. /\ Pending(s, row[s])
        /\ \A r \in content[table][s] : Pending(s, r)' <=> Pending(s, r) /\ r[Key] # k
    BY <1>1, <2>2, RowDropped
  <2>6. \A x \in Sides : \A r \in content[table][x] : Pending(x, r)' <=> Pending(x, r) /\ r[Key] # k
    BY <1>4, <2>1, <2>2, <2>4, <2>5
  <2>7. WithKey(table, s, k) = {row[s]} /\ WithKey(table, o, k) = {}
    BY <1>5, <2>2, <2>4 DEF WithKey
  <2>8. Difference(table, k) = {[table |-> table, key |-> k, kind |-> kind, column |-> Key]}
    <3>1. CASE s = "source"
      <4>1. o = "target"
        BY <2>1, <3>1 DEF Sides
      <4> QED BY <1>7, <2>7, <3>1, <4>1 DEF Difference
    <3>2. CASE s = "target"
      <4>1. o = "source"
        BY <2>1, <3>2 DEF Sides
      <4> QED BY <1>7, <2>7, <3>2, <4>1 DEF Difference
    <3> QED BY <3>1, <3>2 DEF Sides
  <2>9. /\ IsFiniteSet(Difference(table, k)) /\ Cardinality(Difference(table, k)) = 1
        /\ Cardinality({Key}) = 1
    BY <2>8, FS_Singleton
  <2>10. reports' = reports \cup Difference(table, k) /\ mismatches' = mismatches + 1
    BY <1>7, <2>8, <2>9 DEF Report
  <2> QED BY <2>3, <2>5, <2>6, <2>7, <2>9, <2>10
<1>8. CASE CompareMissing
  BY <1>7, <1>8 DEF CompareMissing, Sides
<1>9. CASE CompareExtra
  BY <1>7, <1>9 DEF CompareExtra, Sides
<1> QED BY <1>6, <1>8, <1>9 DEF Compare

(* The merge leaves behind what it left behind. *)
LEMMA OverKeeps ==
  ASSUME UNCHANGED <<content, opt, table>>,
         \A s \in Sides : \A r \in content[table][s] : Pending(s, r)' <=> Pending(s, r)
  PROVE  \A t, k : Over(t, k)' <=> Over(t, k)
<1> SUFFICES ASSUME NEW t, NEW k PROVE Over(t, k)' <=> Over(t, k)
  OBVIOUS
<1>1. CASE t # table
  BY <1>1 DEF Over
<1>2. CASE t = table
  <2>1. \A s : WithKey(t, s, k)' = WithKey(t, s, k)
    BY DEF WithKey
  <2>2. \A s \in Sides : \A r \in WithKey(t, s, k) : Pending(s, r)' <=> Pending(s, r)
    BY <1>2 DEF WithKey
  <2> QED BY <1>2, <2>1, <2>2 DEF Over
<1> QED BY <1>1, <1>2

LEMMA ReportCompare ==
  ASSUME VerifyInv, QueueInv, PairInv, ReportInv, Still, Compare
  PROVE  ReportInv' /\ PairInv'
<1>1. PICK k \in Keys :
           /\ \A s \in Sides : \A r \in content[table][s] : Pending(s, r)' <=> Pending(s, r) /\ r[Key] # k
           /\ \E s \in Sides : \E r \in WithKey(table, s, k) : Pending(s, r)
           /\ reports' = reports \cup Difference(table, k)
           /\ IsFiniteSet(Difference(table, k))
           /\ mismatches' = mismatches + Cardinality(Difference(table, k))
  BY CompareExact
<1>2. UNCHANGED <<cmd, opt, content, table, pc>> /\ pc = "verify" /\ table \in DOMAIN content
  BY CompareFacts, StillFacts DEF VerifyInv
<1>3. ~Over(table, k)
  <2>1. ~(table < table)
    BY <1>2 DEF VerifyInv, VerifyType, Still
  <2> QED BY <1>1, <2>1 DEF Over
<1>4. ASSUME NEW t, NEW j
      PROVE  Over(t, j)' <=> Over(t, j) \/ (t = table /\ j = k)
  <2>1. CASE t # table
    BY <1>2, <2>1 DEF Over
  <2>2. CASE t = table
    <3>1. ~(t < table)
      BY <1>2, <2>2 DEF VerifyInv, VerifyType, Still
    <3>2. \A s \in Sides : WithKey(t, s, j)' = WithKey(t, s, j)
      BY <1>2 DEF WithKey
    <3>3. \A s \in Sides : \A r \in WithKey(t, s, j) : Pending(s, r)' <=> Pending(s, r) /\ j # k
      BY <1>1, <2>2 DEF WithKey
    <3>4. Over(t, j)' <=> \A s \in Sides : \A r \in WithKey(t, s, j) : ~(Pending(s, r) /\ j # k)
      BY <1>2, <2>2, <3>1, <3>2, <3>3 DEF Over
    <3>5. Over(t, j) <=> \A s \in Sides : \A r \in WithKey(t, s, j) : ~Pending(s, r)
      BY <2>2, <3>1 DEF Over
    <3> QED BY <2>2, <3>4, <3>5
  <2> QED BY <2>1, <2>2
<1>5. \A t, j : Difference(t, j)' = Difference(t, j)
  BY <1>2, DifferenceFacts
<1>6. \A rep : rep \in reports <=> \E t \in DOMAIN content, j \in Keys : Over(t, j) /\ rep \in Difference(t, j)
  BY DEF ReportInv
<1>7. \A rep : rep \in reports' <=>
        \E t \in DOMAIN content, j \in Keys : Over(t, j)' /\ rep \in Difference(t, j)
  BY <1>1, <1>2, <1>4, <1>6
<1>8. reports \cap Difference(table, k) = {}
  <2> SUFFICES ASSUME NEW rep \in reports, rep \in Difference(table, k) PROVE FALSE
    OBVIOUS
  <2>1. PICK t \in DOMAIN content, j \in Keys : Over(t, j) /\ rep \in Difference(t, j)
    BY <1>6
  <2>2. t = table /\ j = k
    BY <2>1, DifferenceFacts
  <2> QED BY <1>3, <2>1, <2>2
<1>9. IsFiniteSet(reports') /\ mismatches' = Cardinality(reports')
  <2>1. IsFiniteSet(reports) /\ mismatches = Cardinality(reports)
    BY DEF ReportInv
  <2>2. /\ IsFiniteSet(reports \cup Difference(table, k))
        /\ Cardinality(reports \cup Difference(table, k)) =
             Cardinality(reports) + Cardinality(Difference(table, k)) - Cardinality({})
    BY <1>1, <1>8, <2>1, FS_Union
  <2>3. /\ Cardinality(reports) \in Nat /\ Cardinality(Difference(table, k)) \in Nat
        /\ Cardinality({}) = 0
    BY <1>1, <2>1, FS_CardinalityType, FS_EmptySet
  <2> QED BY <1>1, <2>1, <2>2, <2>3
<1>10. PairInv'
  BY <1>1, <1>2 DEF PairInv
<1>11. ReportInv'
  BY <1>2, <1>5, <1>7, <1>9 DEF ReportInv
<1> QED BY <1>10, <1>11

LEMMA ReportStep ==
  ASSUME LifecycleInv, VerifyInv, QueueInv, PairInv, ReportInv, [Next]_vars
  PROVE  ReportInv' /\ PairInv'
<1>1. CASE ~Still'
  BY <1>1 DEF ReportInv, PairInv
<1>2. CASE Still' /\ Compare
  BY <1>2, StillCases, ReportCompare DEF VerifyInv
<1>3. CASE Still' /\ ~Compare
  <2> SUFFICES ReportInv'
    BY <1>3, PairStep
  <2>2. /\ Still /\ cmd = "verify" /\ UNCHANGED <<cmd, opt, content>>
        /\ \A t, k : Difference(t, k)' = Difference(t, k)
    BY <1>3, StillCases, DifferenceFacts DEF VerifyInv
  <2>3. /\ \A rep : rep \in reports <=> \E t \in DOMAIN content, k \in Keys : Over(t, k) /\ rep \in Difference(t, k)
        /\ IsFiniteSet(reports) /\ mismatches = Cardinality(reports)
        /\ pc = "ended" /\ (\A s \in Sides : cursor[s].done) =>
             \A s \in Sides : \A r \in content[table][s] : ~Pending(s, r)
    BY <2>2 DEF ReportInv
  <2>4. ASSUME NEW s \in Sides, Advance(s)
        PROVE  ReportInv'
    <3>1. /\ \A t, k : Over(t, k)' <=> Over(t, k)
          /\ UNCHANGED <<reports, mismatches, pc>> /\ pc = "verify"
      BY <2>2, <2>4, AdvanceExact, OverKeeps
    <3> QED BY <2>2, <2>3, <3>1 DEF ReportInv
  <2>5. CASE /\ \A s \in Sides : cursor'[s] = Unread /\ Owed(s)'
             /\ pc' = "verify" /\ UNCHANGED <<reports, mismatches>>
             /\ \/ pc = "start" /\ UNCHANGED table
                \/ TableVerified /\ table' = table + 1
    <3>1. \A s \in Sides : \A r : Pending(s, r)'
      BY <2>5, Untouched
    <3>2. table \in DOMAIN content /\ DOMAIN content \subseteq Nat
      BY <2>2 DEF VerifyInv, VerifyType
    <3>3. \A t \in DOMAIN content, k \in Keys : Over(t, k)' =>
            t < table' \/ \A s \in Sides : WithKey(t, s, k) = {}
      BY <2>2, <3>1 DEF Over, WithKey
    <3>4. \A t, k : (\A s \in Sides : WithKey(t, s, k) = {}) => Difference(t, k) = {}
      BY DEF Difference, Sides
    <3>5. \A t \in DOMAIN content, k \in Keys : t < table' => Over(t, k)'
      BY DEF Over
    <3>6. \A t \in DOMAIN content, k \in Keys : Over(t, k) => t < table' \/ \A s \in Sides : WithKey(t, s, k) = {}
      <4>1. CASE pc = "start" /\ UNCHANGED table
        <5>1. \A s \in Sides : cursor[s].last = {} /\ ~cursor[s].done
          BY <4>1 DEF VerifyInv, VerifyType, Unread
        <5>2. \A s \in Sides : \A r : Pending(s, r)
          BY <5>1 DEF Pending, Beyond
        <5> QED BY <4>1, <5>2 DEF Over
      <4>2. CASE table' = table + 1
        BY <3>2, <4>2 DEF Over
      <4> QED BY <2>5, <4>1, <4>2
    <3>7. \A t \in DOMAIN content, k \in Keys : t < table' => Over(t, k)
      <4>1. CASE pc = "start" /\ UNCHANGED table
        BY <4>1 DEF Over
      <4>2. CASE TableVerified /\ table' = table + 1
        <5>1. \A s \in Sides : \A r : ~Pending(s, r)
          BY <2>2, <4>2, NothingPending DEF TableVerified, BothOver
        <5>2. \A t \in DOMAIN content : t < table' => t < table \/ t = table
          BY <3>2, <4>2
        <5> QED BY <5>1, <5>2 DEF Over
      <4> QED BY <2>5, <4>1, <4>2
    <3>8. \A rep : rep \in reports <=> \E t \in DOMAIN content, k \in Keys : t < table' /\ rep \in Difference(t, k)
      BY <2>3, <3>4, <3>6, <3>7
    <3>9. \A rep : rep \in reports <=> \E t \in DOMAIN content, k \in Keys : Over(t, k)' /\ rep \in Difference(t, k)
      BY <3>3, <3>4, <3>5, <3>8
    <3>10. \A rep : rep \in reports' <=>
             \E t \in DOMAIN content', k \in Keys : Over(t, k)' /\ rep \in Difference(t, k)'
      BY <2>2, <2>5, <3>9
    <3>11. IsFiniteSet(reports') /\ mismatches' = Cardinality(reports')
      BY <2>3, <2>5
    <3> QED BY <2>5, <3>10, <3>11 DEF ReportInv
  <2>6. CASE /\ UNCHANGED <<cmd, opt, content, table, cursor, row, want, mismatches, reports>>
             /\ \/ pc' = pc
                \/ pc' = "ended" /\ \E s \in Sides : ~cursor[s].done
                \/ pc' = "ended" /\ TableVerified
    <3>1. (\A t, k : Over(t, k)' <=> Over(t, k)) /\ \A s : \A r : Pending(s, r)' <=> Pending(s, r)
      BY <2>6, MergeKeeps, OverKeeps
    <3>2. TableVerified => \A s \in Sides : \A r : ~Pending(s, r)
      BY <2>2, NothingPending DEF TableVerified, BothOver
    <3>3. pc' = "ended" /\ (\A s \in Sides : cursor[s].done) =>
             \A s \in Sides : \A r \in content[table][s] : ~Pending(s, r)
      BY <2>3, <2>6, <3>2
    <3>4. \A rep : rep \in reports' <=>
             \E t \in DOMAIN content', k \in Keys : Over(t, k)' /\ rep \in Difference(t, k)'
      BY <2>2, <2>3, <2>6, <3>1
    <3>5. pc' = "ended" /\ (\A s \in Sides : cursor'[s].done) =>
             \A s \in Sides : \A r \in content'[table'][s] : ~Pending(s, r)'
      BY <2>2, <2>6, <3>1, <3>3
    <3>6. IsFiniteSet(reports') /\ mismatches' = Cardinality(reports')
      BY <2>3, <2>6
    <3> QED BY <3>4, <3>5, <3>6 DEF ReportInv
  <2> QED BY <1>3, <2>4, <2>5, <2>6, StillCases DEF VerifyInv
<1> QED BY <1>1, <1>2, <1>3

LEMMA ReportInit == Init => QueueInv /\ PairInv /\ ReportInv
<1> SUFFICES ASSUME Init PROVE QueueInv /\ PairInv /\ ReportInv
  OBVIOUS
<1>1. /\ table = 1 /\ cursor = [s \in Sides |-> Unread] /\ row = [s \in Sides |-> Null] /\ pc = "start"
      /\ reports = {} /\ mismatches = 0
  BY DEF Init
<1>2. \A s \in Sides : /\ cursor[s].rows = <<>> /\ ~cursor[s].done /\ cursor[s].last = {} /\ row[s] = Null
                       /\ InFlight(s) = {}
  BY <1>1 DEF Unread, InFlight
<1>3. \A s \in Sides : \A r : Pending(s, r)
  BY <1>2 DEF Pending, Beyond
<1>4. \A t, k : (\A s \in Sides : WithKey(t, s, k) = {}) => Difference(t, k) = {}
  BY DEF Difference, Sides
<1>5. cmd = "verify" => \A t \in DOMAIN content : ~(t < 1)
  BY TypeInit DEF VerifyType
<1>6. cmd = "verify" => \A t \in DOMAIN content, k \in Keys : Over(t, k) => Difference(t, k) = {}
  BY <1>1, <1>3, <1>4, <1>5 DEF Over
<1> QED BY <1>1, <1>2, <1>3, <1>6, FS_EmptySet DEF QueueInv, PairInv, ReportInv, Still

(* Over tables that keep still, verify reports what differs between the    *)
(* two sides, all of it, and each difference once.                         *)
THEOREM ReportsAreTheDifferences == Spec => []ReportsExact
<1>1. VerifyInv /\ ReportInv => ReportsExact
  <2> SUFFICES ASSUME VerifyInv, ReportInv, Still, pc = "ended", table = Len(content), \A s \in Sides : cursor[s].done
               PROVE  /\ reports = UNION {Difference(t, k) : t \in DOMAIN content, k \in Keys}
                      /\ mismatches = Cardinality(reports)
    BY DEF ReportsExact, Still
  <2>1. /\ \A rep : rep \in reports <=> \E t \in DOMAIN content, k \in Keys : Over(t, k) /\ rep \in Difference(t, k)
        /\ mismatches = Cardinality(reports)
        /\ \A s \in Sides : \A r \in content[table][s] : ~Pending(s, r)
    BY DEF ReportInv
  <2>2. \A t \in DOMAIN content : t < table \/ t = table
    <3>1. content \in Seq([Sides -> SUBSET AllRows])
      BY DEF VerifyInv, VerifyType, Still
    <3> QED BY <3>1
  <2>3. \A t \in DOMAIN content, k \in Keys : Over(t, k)
    BY <2>1, <2>2 DEF Over, WithKey
  <2> QED BY <2>1, <2>3
<1> QED BY <1>1, LifecycleInit, LifecycleStep, VerifyInit, VerifyStep, ReportInit, QueueStep, ReportStep, PTL DEF Spec
=============================================================================
