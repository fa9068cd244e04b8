--------------------------- MODULE SeqManagerProofs ---------------------------
(***************************************************************************)
(* For any set of sequences, workers and any start and step values: the    *)
(* state of SeqManager is well typed, seq_global never returns a value     *)
(* twice, leaves no holes, and the picks return generated values only.     *)
(***************************************************************************)
EXTENDS SeqManager, TLAPS

(***************************************************************************)
(* The inductive invariant.  Uniqueness of the values rests on who holds   *)
(* an index: an index between the add and the return is below the counter, *)
(* no two goroutines of a manager hold the same one, and a returned value  *)
(* comes from an index nobody holds any more.                              *)
(***************************************************************************)
Holds(c, m, s, k) ==
  /\ ManagerOf(c) = m /\ pc[c] = "return"
  /\ loc[c].seq = s /\ loc[c].idx = k

LocOK ==
  \A c \in Callers :
    /\ pc[c] # "idle" => loc[c].seq \in Seqs
    /\ pc[c] = "return" => loc[c].idx < counter[ManagerOf(c)][loc[c].seq]
    /\ pc[c] = "pick"   => loc[c].idx <= counter[ManagerOf(c)][loc[c].seq]

OneHolder ==
  \A c, d \in Callers :
    /\ pc[c] = "return" /\ pc[d] = "return"
    /\ ManagerOf(c) = ManagerOf(d)
    /\ loc[c].seq = loc[d].seq /\ loc[c].idx = loc[d].idx
    => c = d

IssuedIndex ==
  \A m \in Managers, s \in Seqs : \A i \in 1 .. Len(issued[m][s]) :
    \E k \in 0 .. (counter[m][s] - 1) :
      /\ issued[m][s][i] = Value(s, k)
      /\ \A c \in Callers : ~Holds(c, m, s, k)

(* The run's goroutines touch nothing before the run starts. *)
RunUntouched ==
  phase = "seed" =>
    /\ \A w \in RunWorkers : pc[w] = "idle"
    /\ \A s \in Seqs : /\ counter["run"][s] = 0
                       /\ issued["run"][s] = <<>>
                       /\ picked["run"][s] = {}

SeqInv ==
  /\ TypeOK
  /\ LocOK
  /\ OneHolder
  /\ IssuedIndex
  /\ RunUntouched
  /\ UniqueValues
  /\ GapFree
  /\ PicksGenerated

-----------------------------------------------------------------------------
(* A sequence with a step other than 0 gives different indices different   *)
(* values: the injectivity of value() in manager.go.                       *)
LEMMA ValueInjective ==
  ASSUME NEW s \in Seqs, Step[s] # 0,
         NEW i \in Nat, NEW j \in Nat, Value(s, i) = Value(s, j)
  PROVE  i = j
<1> DEFINE a == Start[s]
           b == Step[s]
<1>1. a \in Int /\ b \in Int /\ b # 0
  BY ValuesAssumption
<1>2. a + i * b = a + j * b
  BY DEF Value
<1> HIDE DEF a, b
<1>3. i * b = j * b
  BY <1>1, <1>2
<1>4. (i - j) * b = 0
  BY <1>1, <1>3
<1>5. i - j = 0
  BY <1>1, <1>4
<1> QED
  BY <1>5

(* A value of a sequence is an integer. *)
LEMMA ValueType ==
  ASSUME NEW s \in Seqs, NEW i \in Nat
  PROVE  Value(s, i) \in Int
<1>1. Start[s] \in Int /\ Step[s] \in Int
  BY ValuesAssumption
<1> QED
  BY <1>1 DEF Value

LEMMA SeqInitInv == Init => SeqInv
BY DEF Init, SeqInv, TypeOK, LocOK, OneHolder, IssuedIndex, RunUntouched,
       UniqueValues, GapFree, PicksGenerated, Idle, Managers, Callers,
       IsInjective, Generated, Holds

(* The atomic add: the caller becomes the only holder of a fresh index.    *)
LEMMA NextAddInv ==
  ASSUME SeqInv, NEW c \in Callers, NEW s \in Names, NextAdd(c, s)
  PROVE  SeqInv'
<1> DEFINE m0 == ManagerOf(c)
<1> USE DEF SeqInv
<1>0. s \in Seqs /\ m0 \in Managers /\ pc[c] = "idle" /\ Active(c)
  BY DEF NextAdd, ManagerOf, Managers
<1>n. counter[m0][s] \in Nat
  BY <1>0 DEF TypeOK
<1>c. /\ counter' \in [Managers -> [Seqs -> Nat]]
      /\ counter'[m0][s] = counter[m0][s] + 1
      /\ \A m \in Managers, t \in Seqs :
           (m # m0 \/ t # s) => counter'[m][t] = counter[m][t]
      /\ \A m \in Managers, t \in Seqs : counter'[m][t] >= counter[m][t]
  BY <1>0, <1>n DEF TypeOK, NextAdd
<1>l. /\ pc' \in [Callers -> {"idle", "return", "pick"}]
      /\ pc'[c] = "return" /\ loc'[c].seq = s /\ loc'[c].idx = counter[m0][s]
      /\ \A d \in Callers : d # c => pc'[d] = pc[d] /\ loc'[d] = loc[d]
  BY <1>0 DEF TypeOK, NextAdd
<1>1. TypeOK'
  BY <1>0, <1>n, <1>c, <1>l DEF TypeOK, NextAdd
<1>2. LocOK'
  <2> SUFFICES ASSUME NEW d \in Callers
               PROVE /\ pc'[d] # "idle" => loc'[d].seq \in Seqs
                     /\ pc'[d] = "return" => loc'[d].idx < counter'[ManagerOf(d)][loc'[d].seq]
                     /\ pc'[d] = "pick" => loc'[d].idx <= counter'[ManagerOf(d)][loc'[d].seq]
    BY DEF LocOK
  <2>1. CASE d = c
    BY <2>1, <1>0, <1>n, <1>c, <1>l
  <2>2. CASE d # c /\ pc[d] = "idle"
    BY <2>2, <1>l
  <2>3. CASE d # c /\ pc[d] # "idle"
    <3>1. /\ ManagerOf(d) \in Managers /\ loc[d].seq \in Seqs /\ loc[d].idx \in Nat
          /\ pc'[d] = pc[d] /\ loc'[d] = loc[d]
      BY <2>3, <1>l DEF LocOK, TypeOK, ManagerOf, Managers
    <3>2. counter'[ManagerOf(d)][loc[d].seq] >= counter[ManagerOf(d)][loc[d].seq]
          /\ counter[ManagerOf(d)][loc[d].seq] \in Nat
          /\ counter'[ManagerOf(d)][loc[d].seq] \in Nat
      BY <3>1, <1>c DEF TypeOK
    <3>3. /\ pc[d] = "return" => loc[d].idx < counter[ManagerOf(d)][loc[d].seq]
          /\ pc[d] = "pick" => loc[d].idx <= counter[ManagerOf(d)][loc[d].seq]
      BY DEF LocOK
    <3> QED BY <3>1, <3>2, <3>3
  <2> QED BY <2>1, <2>2, <2>3
<1>3. OneHolder'
  <2> SUFFICES ASSUME NEW d \in Callers, NEW e \in Callers,
                      pc'[d] = "return", pc'[e] = "return",
                      ManagerOf(d) = ManagerOf(e),
                      loc'[d].seq = loc'[e].seq, loc'[d].idx = loc'[e].idx
               PROVE d = e
    BY DEF OneHolder, ManagerOf
  <2>1. CASE d # c /\ e # c
    BY <2>1, <1>l DEF OneHolder
  <2>2. \A f \in Callers : f # c /\ pc'[f] = "return" /\ ManagerOf(f) = m0 /\ loc'[f].seq = s
                           => loc'[f].idx < counter[m0][s]
    BY <1>l DEF LocOK
  <2>3. CASE d = c /\ e # c
    <3>1. loc'[e].idx < counter[m0][s] /\ loc'[e].idx = counter[m0][s]
      BY <2>3, <2>2, <1>l
    <3> QED BY <3>1, <1>n
  <2>4. CASE e = c /\ d # c
    <3>1. loc'[d].idx < counter[m0][s] /\ loc'[d].idx = counter[m0][s]
      BY <2>4, <2>2, <1>l
    <3> QED BY <3>1, <1>n
  <2> QED BY <2>1, <2>3, <2>4
<1>4. issued' = issued /\ picked' = picked /\ phase' = phase
  BY DEF NextAdd
<1>5. IssuedIndex'
  <2> SUFFICES ASSUME NEW m \in Managers, NEW t \in Seqs, NEW i \in 1 .. Len(issued[m][t])
               PROVE \E k \in 0 .. (counter'[m][t] - 1) :
                        /\ issued[m][t][i] = Value(t, k)
                        /\ \A d \in Callers : ~Holds(d, m, t, k)'
    BY <1>4 DEF IssuedIndex, Value
  <2>1. PICK k \in 0 .. (counter[m][t] - 1) :
               /\ issued[m][t][i] = Value(t, k)
               /\ \A d \in Callers : ~Holds(d, m, t, k)
    BY DEF IssuedIndex
  <2>2. k \in 0 .. (counter'[m][t] - 1)
    BY <1>c DEF TypeOK
  <2>3. ASSUME NEW d \in Callers PROVE ~Holds(d, m, t, k)'
    <3>1. CASE d = c
      BY <3>1, <1>l, <1>n DEF Holds, ManagerOf
    <3>2. CASE d # c
      BY <3>2, <2>1, <1>l DEF Holds, ManagerOf
    <3> QED BY <3>1, <3>2
  <2> QED BY <2>1, <2>2, <2>3
<1>6. RunUntouched'
  <2> SUFFICES ASSUME phase = "seed"
               PROVE  /\ \A w \in RunWorkers : pc'[w] = "idle"
                      /\ \A t \in Seqs : counter'["run"][t] = 0
    BY <1>4 DEF RunUntouched
  <2>1. c = Main /\ m0 = "command"
    BY <1>0 DEF Active, ManagerOf
  <2> QED BY <2>1, <1>c, <1>l, CallerAssumption DEF RunUntouched, Managers, Callers
<1>7. UniqueValues'
  BY <1>4 DEF UniqueValues
<1>8. GapFree'
  <2> SUFFICES ASSUME NEW m \in Managers, NEW t \in Seqs, NEW k \in 0 .. (counter'[m][t] - 1)
               PROVE  InFlight(m, t, k)' \/ Value(t, k) \in Range(issued[m][t])
    BY <1>4 DEF GapFree, Value
  <2>1. CASE m = m0 /\ t = s /\ k = counter[m0][s]
    <3>1. loc'[c] = [seq |-> s, idx |-> k]
      BY <2>1 DEF NextAdd, TypeOK
    <3> QED BY <3>1, <2>1, <1>l DEF InFlight, ManagerOf
  <2>2. CASE ~(m = m0 /\ t = s /\ k = counter[m0][s])
    <3>1. k \in 0 .. (counter[m][t] - 1)
      BY <2>2, <1>c, <1>n DEF TypeOK
    <3>2. InFlight(m, t, k) \/ Value(t, k) \in Range(issued[m][t])
      BY <3>1 DEF GapFree
    <3>3. InFlight(m, t, k) => InFlight(m, t, k)'
      BY <1>0, <1>l DEF InFlight, ManagerOf
    <3> QED BY <3>2, <3>3
  <2> QED BY <2>1, <2>2
<1>9. PicksGenerated'
  <2> SUFFICES ASSUME NEW m \in Managers, NEW t \in Seqs, NEW v \in picked[m][t]
               PROVE \E k \in 0 .. (counter'[m][t] - 1) : v = Value(t, k)
    BY <1>4 DEF PicksGenerated, Generated, Value
  <2>1. PICK k \in 0 .. (counter[m][t] - 1) : v = Value(t, k)
    BY DEF PicksGenerated, Generated
  <2> QED BY <2>1, <1>c DEF TypeOK
<1> QED BY <1>1, <1>2, <1>3, <1>5, <1>6, <1>7, <1>8, <1>9

(* The return: the index stops being held and its value is issued.         *)
LEMMA NextReturnInv ==
  ASSUME SeqInv, NEW c \in Callers, NextReturn(c)
  PROVE  SeqInv'
<1> USE DEF SeqInv
<1> SUFFICES ASSUME NEW m0 \in Managers, NEW s \in Seqs, NEW i0 \in Nat,
                    m0 = ManagerOf(c), s = loc[c].seq, i0 = loc[c].idx
             PROVE  SeqInv'
  BY DEF NextReturn, ManagerOf, Managers, LocOK, TypeOK
<1>0. /\ s \in Seqs /\ m0 \in Managers /\ pc[c] = "return"
      /\ m0 = ManagerOf(c) /\ loc[c].seq = s /\ loc[c].idx = i0
      /\ i0 \in Nat /\ i0 < counter[m0][s] /\ counter[m0][s] \in Nat
  BY DEF NextReturn, LocOK, TypeOK
<1>u. phase' = phase /\ counter' = counter /\ picked' = picked
  BY DEF NextReturn
<1>v. Value(s, i0) \in Int
  BY <1>0, ValueType
<1>l. /\ pc' \in [Callers -> {"idle", "return", "pick"}]
      /\ loc' \in [Callers -> [seq : Seqs \cup {"none"}, idx : Nat]]
      /\ pc'[c] = "idle"
      /\ \A d \in Callers : d # c => pc'[d] = pc[d] /\ loc'[d] = loc[d]
  BY DEF TypeOK, NextReturn, Idle
<1>h. \A d \in Callers, m \in Managers, t \in Seqs, k \in Nat :
        Holds(d, m, t, k)' => Holds(d, m, t, k)
  BY <1>l DEF Holds, ManagerOf
<1>i. /\ issued' \in [Managers -> [Seqs -> Seq(Int)]]
      /\ issued'[m0][s] = Append(issued[m0][s], Value(s, i0))
      /\ \A m \in Managers, t \in Seqs :
           (m # m0 \/ t # s) => issued'[m][t] = issued[m][t]
  BY <1>0, <1>v DEF TypeOK, NextReturn
<1>a. /\ issued[m0][s] \in Seq(Int)
      /\ Len(issued'[m0][s]) = Len(issued[m0][s]) + 1
      /\ \A i \in 1 .. Len(issued[m0][s]) : issued'[m0][s][i] = issued[m0][s][i]
      /\ issued'[m0][s][Len(issued[m0][s]) + 1] = Value(s, i0)
  BY <1>0, <1>v, <1>i DEF TypeOK
<1>b. Len(issued'[m0][s]) = Len(issued[m0][s]) + 1 /\ Len(issued[m0][s]) \in Nat
  BY <1>a
<1>s. \A m \in Managers, t \in Seqs :
        /\ issued[m][t] \in Seq(Int) /\ issued'[m][t] \in Seq(Int)
        /\ DOMAIN issued[m][t] = 1 .. Len(issued[m][t])
        /\ DOMAIN issued'[m][t] = 1 .. Len(issued'[m][t])
        /\ Len(issued[m][t]) \in Nat
  <2>1. ASSUME NEW q \in Seq(Int)
        PROVE  DOMAIN q = 1 .. Len(q) /\ Len(q) \in Nat
    OBVIOUS
  <2>2. \A m \in Managers, t \in Seqs :
          issued[m][t] \in Seq(Int) /\ issued'[m][t] \in Seq(Int)
    BY <1>i DEF TypeOK
  <2> QED BY <2>1, <2>2
<1>1. TypeOK'
  BY <1>u, <1>l, <1>i DEF TypeOK
<1>2. LocOK'
  BY <1>u, <1>l DEF LocOK, ManagerOf
<1>3. OneHolder'
  BY <1>l DEF OneHolder, ManagerOf
(* No value issued before is the value of the index c gives up.            *)
<1>f. ASSUME Step[s] # 0, NEW i \in 1 .. Len(issued[m0][s])
      PROVE  issued[m0][s][i] # Value(s, i0)
  <2>1. PICK k \in 0 .. (counter[m0][s] - 1) :
               /\ issued[m0][s][i] = Value(s, k)
               /\ \A d \in Callers : ~Holds(d, m0, s, k)
    BY <1>0 DEF IssuedIndex
  <2>2. k # i0 /\ k \in Nat
    BY <2>1, <1>0 DEF Holds
  <2> QED BY <2>1, <2>2, <1>0, <1>f, ValueInjective
<1>5. IssuedIndex'
  <2> SUFFICES ASSUME NEW m \in Managers, NEW t \in Seqs, NEW i \in 1 .. Len(issued'[m][t])
               PROVE \E k \in 0 .. (counter[m][t] - 1) :
                        /\ issued'[m][t][i] = Value(t, k)
                        /\ \A d \in Callers : ~Holds(d, m, t, k)'
    BY <1>u DEF IssuedIndex, Value
  <2>1. CASE (m # m0 \/ t # s) \/ i # Len(issued[m0][s]) + 1
    <3>1. i \in 1 .. Len(issued[m][t]) /\ issued'[m][t][i] = issued[m][t][i]
      <4>1. CASE m # m0 \/ t # s
        BY <4>1, <1>i
      <4>2. CASE m = m0 /\ t = s /\ i # Len(issued[m0][s]) + 1
        <5>1. i \in 1 .. Len(issued[m0][s])
          BY <4>2, <1>b
        <5> QED BY <5>1, <4>2, <1>a
      <4> QED BY <2>1, <4>1, <4>2
    <3>2. PICK k \in 0 .. (counter[m][t] - 1) :
               /\ issued[m][t][i] = Value(t, k)
               /\ \A d \in Callers : ~Holds(d, m, t, k)
      BY <3>1 DEF IssuedIndex
    <3> QED BY <3>1, <3>2, <1>h
  <2>2. CASE m = m0 /\ t = s /\ i = Len(issued[m0][s]) + 1
    <3>1. i0 \in 0 .. (counter[m][t] - 1) /\ issued'[m][t][i] = Value(t, i0)
      BY <2>2, <1>0, <1>a
    <3>2. ASSUME NEW d \in Callers, Holds(d, m, t, i0)' PROVE FALSE
      <4>1. d # c
        BY <3>2, <1>l DEF Holds
      <4>2. Holds(d, m, t, i0) /\ Holds(c, m, t, i0)
        BY <3>2, <2>2, <1>h, <1>0 DEF Holds
      <4> QED BY <4>1, <4>2 DEF OneHolder, Holds
    <3> QED BY <3>1, <3>2
  <2> QED BY <2>1, <2>2
<1>6. RunUntouched'
  <2> SUFFICES ASSUME phase = "seed"
               PROVE  /\ \A w \in RunWorkers : pc'[w] = "idle"
                      /\ \A t \in Seqs : issued'["run"][t] = <<>>
    BY <1>u DEF RunUntouched
  <2>1. c = Main /\ m0 = "command"
    BY <1>0 DEF RunUntouched, ManagerOf, Callers
  <2> QED BY <2>1, <1>i, <1>l, CallerAssumption DEF RunUntouched, Managers, Callers
<1>7. UniqueValues'
  <2> SUFFICES ASSUME NEW m \in Managers, NEW t \in Seqs, Step[t] # 0
               PROVE  IsInjective(issued'[m][t])
    BY DEF UniqueValues
  <2>1. CASE m # m0 \/ t # s
    BY <2>1, <1>i DEF UniqueValues
  <2>2. CASE m = m0 /\ t = s
    <3> SUFFICES ASSUME NEW i \in 1 .. Len(issued'[m0][s]),
                        NEW j \in 1 .. Len(issued'[m0][s]),
                        issued'[m0][s][i] = issued'[m0][s][j]
                 PROVE  i = j
      <4>1. DOMAIN issued'[m0][s] = 1 .. Len(issued'[m0][s])
        BY <1>s
      <4> QED BY <2>2, <4>1 DEF IsInjective
    <3>1. IsInjective(issued[m0][s]) /\ DOMAIN issued[m0][s] = 1 .. Len(issued[m0][s])
      BY <2>2, <1>s, <1>0 DEF UniqueValues
    <3>2. CASE i # Len(issued[m0][s]) + 1 /\ j # Len(issued[m0][s]) + 1
      <4>a. i \in 1 .. Len(issued[m0][s])
        BY <3>2, <1>b
      <4>b. j \in 1 .. Len(issued[m0][s])
        BY <3>2, <1>b
      <4>1. i \in 1 .. Len(issued[m0][s]) /\ j \in 1 .. Len(issued[m0][s])
        BY <4>a, <4>b
      <4>2. issued[m0][s][i] = issued[m0][s][j]
        BY <4>1, <1>a
      <4> QED BY <4>1, <4>2, <3>1 DEF IsInjective
    <3>3. CASE i = Len(issued[m0][s]) + 1 /\ j # Len(issued[m0][s]) + 1
      <4>1. j \in 1 .. Len(issued[m0][s])
        BY <3>3, <1>b
      <4>2. issued[m0][s][j] = Value(s, i0)
        BY <3>3, <4>1, <1>a
      <4> QED BY <4>1, <4>2, <2>2, <1>f
    <3>4. CASE i # Len(issued[m0][s]) + 1 /\ j = Len(issued[m0][s]) + 1
      <4>1. i \in 1 .. Len(issued[m0][s])
        BY <3>4, <1>b
      <4>2. issued[m0][s][i] = Value(s, i0)
        BY <3>4, <4>1, <1>a
      <4> QED BY <4>1, <4>2, <2>2, <1>f
    <3> QED BY <3>2, <3>3, <3>4
  <2> QED BY <2>1, <2>2
<1>8. GapFree'
  <2> SUFFICES ASSUME NEW m \in Managers, NEW t \in Seqs, NEW k \in 0 .. (counter[m][t] - 1)
               PROVE  InFlight(m, t, k)' \/ Value(t, k) \in Range(issued'[m][t])
    BY <1>u DEF GapFree, Value
  <2>1. InFlight(m, t, k) \/ Value(t, k) \in Range(issued[m][t])
    BY DEF GapFree
  <2>r. /\ DOMAIN issued[m][t] = 1 .. Len(issued[m][t])
        /\ DOMAIN issued'[m][t] = 1 .. Len(issued'[m][t])
        /\ Len(issued[m][t]) \in Nat
    BY <1>s
  <2>2. CASE Value(t, k) \in Range(issued[m][t])
    <3>1. CASE m # m0 \/ t # s
      BY <2>2, <3>1, <1>i
    <3>2. CASE m = m0 /\ t = s
      BY <2>2, <3>2, <2>r, <1>a DEF Range
    <3> QED BY <3>1, <3>2
  <2>3. CASE InFlight(m, t, k)
    <3>1. PICK d \in Callers : /\ ManagerOf(d) = m /\ pc[d] = "return"
                               /\ loc[d] = [seq |-> t, idx |-> k]
      BY <2>3 DEF InFlight
    <3>2. CASE d # c
      BY <3>1, <3>2, <1>l DEF InFlight, ManagerOf
    <3>3. CASE d = c
      <4>1. m = m0 /\ t = s /\ k = i0
        BY <3>1, <3>3
      <4>2. Len(issued[m0][s]) + 1 \in DOMAIN issued'[m0][s]
        BY <4>1, <2>r, <1>a
      <4> QED BY <4>1, <4>2, <1>a DEF Range
    <3> QED BY <3>2, <3>3
  <2> QED BY <2>1, <2>2, <2>3
<1>9. PicksGenerated'
  BY <1>u DEF PicksGenerated, Generated, Value
<1> QED BY <1>1, <1>2, <1>3, <1>5, <1>6, <1>7, <1>8, <1>9

(* Loading the count for a pick changes nothing another goroutine sees.    *)
LEMMA PickLoadInv ==
  ASSUME SeqInv, NEW c \in Callers, NEW s \in Names, PickLoad(c, s)
  PROVE  SeqInv'
<1> USE DEF SeqInv
<1>0. s \in Seqs /\ pc[c] = "idle" /\ Active(c) /\ ManagerOf(c) \in Managers
      /\ counter[ManagerOf(c)][s] \in Nat
  BY DEF PickLoad, ManagerOf, Managers, TypeOK
<1>u. phase' = phase /\ counter' = counter /\ issued' = issued /\ picked' = picked
  BY DEF PickLoad
<1>l. /\ pc' \in [Callers -> {"idle", "return", "pick"}]
      /\ loc' \in [Callers -> [seq : Seqs \cup {"none"}, idx : Nat]]
      /\ pc'[c] = "pick" /\ loc'[c].seq = s /\ loc'[c].idx = counter[ManagerOf(c)][s]
      /\ \A d \in Callers : d # c => pc'[d] = pc[d] /\ loc'[d] = loc[d]
  BY <1>0 DEF TypeOK, PickLoad
<1>1. TypeOK'
  BY <1>u, <1>l DEF TypeOK
<1>2. LocOK'
  BY <1>0, <1>u, <1>l DEF LocOK, ManagerOf
<1>3. OneHolder'
  BY <1>l DEF OneHolder, ManagerOf
<1>4. IssuedIndex'
  <2>1. \A d \in Callers, m \in Managers, t \in Seqs, k \in Nat :
          Holds(d, m, t, k)' => Holds(d, m, t, k)
    BY <1>l DEF Holds, ManagerOf
  <2> SUFFICES ASSUME NEW m \in Managers, NEW t \in Seqs, NEW i \in 1 .. Len(issued[m][t])
               PROVE \E k \in 0 .. (counter[m][t] - 1) :
                        /\ issued[m][t][i] = Value(t, k)
                        /\ \A d \in Callers : ~Holds(d, m, t, k)'
    BY <1>u DEF IssuedIndex, Value
  <2> QED BY <2>1 DEF IssuedIndex
<1>5. RunUntouched'
  <2> SUFFICES ASSUME phase = "seed"
               PROVE  \A w \in RunWorkers : pc'[w] = "idle"
    BY <1>u DEF RunUntouched
  <2>1. c = Main
    BY <1>0 DEF Active
  <2> QED BY <2>1, <1>l, CallerAssumption DEF RunUntouched, Callers
<1>6. UniqueValues' /\ PicksGenerated'
  BY <1>u DEF UniqueValues, PicksGenerated, Generated, Value
<1>7. GapFree'
  <2>1. \A m \in Managers, t \in Seqs, k \in Nat :
          InFlight(m, t, k) => InFlight(m, t, k)'
    BY <1>0, <1>l DEF InFlight, ManagerOf
  <2> QED BY <2>1, <1>u DEF GapFree, Value
<1> QED BY <1>1, <1>2, <1>3, <1>4, <1>5, <1>6, <1>7

(* The pick draws an index below a count the counter has reached.          *)
LEMMA PickReturnInv ==
  ASSUME SeqInv, NEW c \in Callers, PickReturn(c)
  PROVE  SeqInv'
<1> USE DEF SeqInv
<1> SUFFICES ASSUME NEW m0 \in Managers, NEW s \in Seqs, NEW n \in Nat,
                    m0 = ManagerOf(c), s = loc[c].seq, n = loc[c].idx
             PROVE  SeqInv'
  BY DEF PickReturn, ManagerOf, Managers, LocOK, TypeOK
<1>0. pc[c] = "pick" /\ n <= counter[m0][s] /\ counter[m0][s] \in Nat
  BY DEF PickReturn, LocOK, TypeOK
<1>u. phase' = phase /\ counter' = counter /\ issued' = issued
  BY DEF PickReturn
<1>l. /\ pc' \in [Callers -> {"idle", "return", "pick"}]
      /\ loc' \in [Callers -> [seq : Seqs \cup {"none"}, idx : Nat]]
      /\ pc'[c] = "idle"
      /\ \A d \in Callers : d # c => pc'[d] = pc[d] /\ loc'[d] = loc[d]
  BY DEF TypeOK, PickReturn, Idle
<1>p. /\ picked' \in [Managers -> [Seqs -> SUBSET Int]]
      /\ \A m \in Managers, t \in Seqs :
           (m # m0 \/ t # s) => picked'[m][t] = picked[m][t]
      /\ \A v \in picked'[m0][s] :
           v \in picked[m0][s] \/ \E k \in 0 .. (counter[m0][s] - 1) : v = Value(s, k)
  <2>1. CASE picked' = picked
    BY <2>1 DEF TypeOK
  <2>2. CASE picked' # picked
    <3>1. PICK k \in 0 .. (n - 1) :
            picked' = [picked EXCEPT ![m0][s] = @ \cup {Value(s, k)}]
      BY <2>2 DEF PickReturn, PickIndices
    <3>2. Value(s, k) \in Int /\ k \in 0 .. (counter[m0][s] - 1)
      BY <1>0, ValueType
    <3> QED BY <3>1, <3>2 DEF TypeOK
  <2> QED BY <2>1, <2>2
<1>1. TypeOK'
  BY <1>u, <1>l, <1>p DEF TypeOK
<1>2. LocOK'
  BY <1>u, <1>l DEF LocOK, ManagerOf
<1>3. OneHolder'
  BY <1>l DEF OneHolder, ManagerOf
<1>4. IssuedIndex'
  <2>1. \A d \in Callers, m \in Managers, t \in Seqs, k \in Nat :
          Holds(d, m, t, k)' => Holds(d, m, t, k)
    BY <1>l DEF Holds, ManagerOf
  <2> SUFFICES ASSUME NEW m \in Managers, NEW t \in Seqs, NEW i \in 1 .. Len(issued[m][t])
               PROVE \E k \in 0 .. (counter[m][t] - 1) :
                        /\ issued[m][t][i] = Value(t, k)
                        /\ \A d \in Callers : ~Holds(d, m, t, k)'
    BY <1>u DEF IssuedIndex, Value
  <2> QED BY <2>1 DEF IssuedIndex
<1>5. RunUntouched'
  <2> SUFFICES ASSUME phase = "seed"
               PROVE  /\ \A w \in RunWorkers : pc'[w] = "idle"
                      /\ \A t \in Seqs : picked'["run"][t] = {}
    BY <1>u DEF RunUntouched
  <2>1. c = Main /\ m0 = "command"
    BY <1>0 DEF RunUntouched, ManagerOf, Callers
  <2> QED BY <2>1, <1>l, <1>p, CallerAssumption DEF RunUntouched, Managers, Callers
<1>6. UniqueValues'
  BY <1>u DEF UniqueValues
<1>7. GapFree'
  <2>1. \A m \in Managers, t \in Seqs, k \in Nat :
          InFlight(m, t, k) => InFlight(m, t, k)'
    BY <1>0, <1>l DEF InFlight, ManagerOf
  <2> QED BY <2>1, <1>u DEF GapFree, Value
<1>8. PicksGenerated'
  <2> SUFFICES ASSUME NEW m \in Managers, NEW t \in Seqs, NEW v \in picked'[m][t]
               PROVE \E k \in 0 .. (counter[m][t] - 1) : v = Value(t, k)
    BY <1>u DEF PicksGenerated, Generated, Value
  <2> QED BY <1>p DEF PicksGenerated, Generated
<1> QED BY <1>1, <1>2, <1>3, <1>4, <1>5, <1>6, <1>7, <1>8

(* The run's new manager starts from 0, and nobody has used it before.     *)
LEMMA StartRunInv ==
  ASSUME SeqInv, StartRun
  PROVE  SeqInv'
<1>1. \A m \in Managers, s \in Seqs : counter'[m][s] = counter[m][s]
  BY DEF SeqInv, StartRun, RunUntouched, TypeOK, Managers
<1>2. /\ counter' \in [Managers -> [Seqs -> Nat]]
      /\ phase' = "run" /\ pc' = pc /\ loc' = loc
      /\ issued' = issued /\ picked' = picked
  BY DEF SeqInv, StartRun, TypeOK, Managers
<1>3. counter' = counter
  BY <1>1, <1>2 DEF SeqInv, TypeOK
<1>4. RunUntouched'
  BY <1>2 DEF RunUntouched
<1>5. TypeOK' /\ LocOK' /\ OneHolder'
  BY <1>2, <1>3 DEF SeqInv, TypeOK, LocOK, OneHolder, ManagerOf
<1>6. IssuedIndex' /\ UniqueValues'
  BY <1>2, <1>3 DEF SeqInv, IssuedIndex, UniqueValues, Holds, Value, ManagerOf
<1>7. GapFree' /\ PicksGenerated'
  BY <1>2, <1>3 DEF SeqInv, GapFree, PicksGenerated, InFlight, Generated, Value, ManagerOf
<1> QED BY <1>4, <1>5, <1>6, <1>7 DEF SeqInv

LEMMA FinishRunInv ==
  ASSUME SeqInv, FinishRun \/ UNCHANGED vars
  PROVE  SeqInv'
<1>1. /\ counter' = counter /\ pc' = pc /\ loc' = loc
      /\ issued' = issued /\ picked' = picked
      /\ phase' \in {phase, "deseed"}
  BY DEF FinishRun, vars
<1> QED
  BY <1>1 DEF SeqInv, TypeOK, LocOK, OneHolder, IssuedIndex, RunUntouched,
     UniqueValues, GapFree, PicksGenerated, InFlight, Holds, Generated, Value, ManagerOf

(***************************************************************************)
(* The theorems.                                                           *)
(***************************************************************************)
(* SeqInv holds throughout: one lemma per action of SeqManager.            *)
THEOREM SeqInvariant == Spec => []SeqInv
<1>1. SeqInv /\ [Next]_vars => SeqInv'
  BY NextAddInv, NextReturnInv, PickLoadInv, PickReturnInv, StartRunInv, FinishRunInv
     DEF Next
<1> QED BY <1>1, SeqInitInv, PTL DEF Spec

(* The state of the manager and of its callers is well typed.              *)
THEOREM TypeCorrect == Spec => []TypeOK
<1>1. SeqInv => TypeOK
  BY DEF SeqInv
<1> QED BY <1>1, SeqInvariant, PTL

(* seq_global never gives one value to two calls on a manager, for any     *)
(* number of worker goroutines and any interleaving of their draws.        *)
THEOREM ValuesUnique == Spec => []UniqueValues
<1>1. SeqInv => UniqueValues
  BY DEF SeqInv
<1> QED BY <1>1, SeqInvariant, PTL

(* No index is ever lost: it is issued or some goroutine still holds it.   *)
THEOREM NoGaps == Spec => []GapFree
<1>1. SeqInv => GapFree
  BY DEF SeqInv
<1> QED BY <1>1, SeqInvariant, PTL

(* seq_rand and its siblings only return values seq_global has generated.  *)
THEOREM PicksAreGenerated == Spec => []PicksGenerated
<1>1. SeqInv => PicksGenerated
  BY DEF SeqInv
<1> QED BY <1>1, SeqInvariant, PTL
=============================================================================
