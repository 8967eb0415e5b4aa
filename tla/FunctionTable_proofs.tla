------------------------- MODULE FunctionTable_proofs -------------------------
(***************************************************************************)
(* Theorems about FunctionTable: the table stays well formed and the loop  *)
(* of program() lets no undefined function pass, for every hash function,  *)
(* every set of names and every size of the table.                         *)
(*                                                                         *)
(* The invariant that is inductive adds to the properties that every name  *)
(* in use is in the table, that the cursor of the loop is at an item, and  *)
(* that main keeps the prototype program() has checked.  It rests on the   *)
(* lemmas about the operators of SymbolTable, which come first.  The next  *)
(* part is about single steps: the refinement of FunctionMap and the       *)
(* functions that are left alone.  The last is about the agreement of      *)
(* calls and definitions: how far the table agrees with the declarations   *)
(* while they are being read, and how far the optimiser's check of all     *)
(* calls is.                                                               *)
(***************************************************************************)
EXTENDS FunctionTable, FiniteSetTheorems, WellFoundedInduction, TLAPS

-----------------------------------------------------------------------------
(* Lemmas about the operators of SymbolTable: what each returns, that it   *)
(* keeps the table well formed, and what it leaves alone.  They hold for   *)
(* every hash function, every set of keys and every size of the table.     *)

(* A nonempty set of natural numbers has a least element. *)
LEMMA LeastElement ==
  ASSUME NEW T \in SUBSET Nat, T # {}
  PROVE  \E x \in T : \A y \in T : x <= y
<1> DEFINE R == OpToRel(<, Nat)
<1>1. PICK x \in T : \A y \in T : ~ (<<y, x>> \in R)
  BY NatLessThanWellFounded, WFMin
<1>2. \A y \in T : ~ (y < x)
  BY <1>1 DEF OpToRel
<1> QED BY <1>2

(* Every key hashes to a slot of the table. *)
LEMMA SlotType ==
  ASSUME NEW key \in Keys
  PROVE  Slot(key) \in Slots
<1>1. symtable_hash[key] \in Nat BY HashAssumption
<1> QED BY <1>1, TableSizeAssumption DEF Slot, Slots

(* symtable_find stops at the item with the key if there is one. *)
LEMMA FindStopsAtKey ==
  ASSUME NEW t \in Tables, OncePerKey(t), NEW key \in Keys, Contains(t, key)
  PROVE  /\ symtable_find(t, key) \in DOMAIN t.arr[Slot(key)]
         /\ IsAt(t, key, symtable_find(t, key))
<1>1. Slot(key) \in Slots BY SlotType
<1>2. t.arr[Slot(key)] \in Seq(Item) BY <1>1 DEF Tables
<1>3. PICK i \in DOMAIN t.arr[Slot(key)] : IsAt(t, key, i) BY DEF Contains
<1>4. \A j \in 1 .. i - 1 : ~ IsAt(t, key, j)
  BY <1>1, <1>2, <1>3 DEF IsAt, OncePerKey
<1> QED BY <1>3, <1>4 DEF symtable_find

(* The data of a contained key is function data. *)
LEMMA DataType ==
  ASSUME NEW t \in Tables, OncePerKey(t), NEW key \in Keys, Contains(t, key)
  PROVE  DataOf(t, key) \in FunctionData
<1>1. t.arr[Slot(key)] \in Seq(Item) BY SlotType DEF Tables
<1>2. t.arr[Slot(key)][symtable_find(t, key)] \in Item BY <1>1, FindStopsAtKey
<1> QED BY <1>2 DEF DataOf, Item

LEMMA NewFunctionType == NewFunction \in FunctionData
BY DEF NewFunction, FunctionData

(* A key has one item at most: whatever place shows it, it is the one that *)
(* symtable_find returns.                                                  *)
LEMMA FoundIsTheItem ==
  ASSUME NEW t \in Tables, OncePerKey(t), InItsSlot(t),
         NEW s \in Slots, NEW i \in DOMAIN t.arr[s]
  PROVE  /\ t.arr[s][i].key \in Keys
         /\ Contains(t, t.arr[s][i].key)
         /\ DataOf(t, t.arr[s][i].key) = t.arr[s][i].data
<1> DEFINE key == t.arr[s][i].key
<1>1. t.arr[s] \in Seq(Item) BY DEF Tables
<1>2. t.arr[s][i] \in Item BY <1>1
<1>3. key \in Keys /\ Slot(key) = s BY <1>2 DEF Item, InItsSlot
<1>4. IsAt(t, key, i) BY <1>3 DEF IsAt
<1>5. Contains(t, key) BY <1>3, <1>4 DEF Contains
<1>6. symtable_find(t, key) \in DOMAIN t.arr[s] /\ t.arr[s][symtable_find(t, key)].key = key
  BY <1>3, <1>5, FindStopsAtKey DEF IsAt
<1>7. symtable_find(t, key) = i BY <1>6 DEF OncePerKey
<1> QED BY <1>3, <1>5, <1>7 DEF DataOf

LEMMA MembersFinite ==
  ASSUME NEW t
  PROVE  IsFiniteSet(Members(t)) /\ Cardinality(Members(t)) \in Nat
<1>1. Members(t) \in SUBSET Keys BY DEF Members
<1>2. IsFiniteSet(Members(t)) BY <1>1, KeysAssumption, FS_Subset
<1> QED BY <1>2, FS_CardinalityType

(* A new table is empty and well formed. *)
LEMMA EmptyTable ==
  symtable_init \in Tables /\ WellFormed(symtable_init) /\ Members(symtable_init) = {}
<1> DEFINE t == symtable_init
<1>1. t \in Tables BY DEF symtable_init, Tables
<1>2. \A s \in Slots : DOMAIN t.arr[s] = {} BY DEF symtable_init
<1>3. \A key \in Keys : ~ Contains(t, key) BY <1>2, SlotType DEF Contains
<1>4. Members(t) = {} BY <1>3 DEF Members
<1>5. SizeIsRight(t) BY <1>4, FS_EmptySet DEF SizeIsRight, symtable_init
<1> QED BY <1>1, <1>2, <1>4, <1>5 DEF WellFormed, InItsSlot, OncePerKey

-----------------------------------------------------------------------------
(* Table u is table t with a new item for the key at the head of its chain. *)
HasNewHead(t, key, u) ==
  /\ u \in Tables
  /\ u.size = t.size + 1
  /\ \A s \in Slots : s # Slot(key) => u.arr[s] = t.arr[s]
  /\ Len(t.arr[Slot(key)]) \in Nat
  /\ DOMAIN t.arr[Slot(key)] = 1 .. Len(t.arr[Slot(key)])
  /\ DOMAIN u.arr[Slot(key)] = 1 .. Len(t.arr[Slot(key)]) + 1
  /\ u.arr[Slot(key)][1].key = key
  /\ u.arr[Slot(key)][1].data = NewFunction
  /\ \A i \in DOMAIN t.arr[Slot(key)] : u.arr[Slot(key)][i + 1] = t.arr[Slot(key)][i]
  /\ \A i \in DOMAIN u.arr[Slot(key)] :
       i = 1 \/ (i - 1 \in DOMAIN t.arr[Slot(key)]
                 /\ u.arr[Slot(key)][i] = t.arr[Slot(key)][i - 1])

LEMMA AddedItems ==
  ASSUME NEW t \in Tables, NEW key \in Keys
  PROVE  HasNewHead(t, key, AddAnyway(t, key))
<1> DEFINE chain == t.arr[Slot(key)]
           new   == [key |-> key, data |-> NewFunction]
           u     == AddAnyway(t, key)
<1>1. Slot(key) \in Slots BY SlotType
<1>2. chain \in Seq(Item) BY <1>1 DEF Tables
<1>3. new \in Item BY NewFunctionType DEF Item
<1>4. <<new>> \o chain \in Seq(Item) BY <1>2, <1>3
<1>5. u.arr = [t.arr EXCEPT ![Slot(key)] = <<new>> \o chain] BY DEF AddAnyway
<1>6. u \in Tables BY <1>1, <1>4 DEF AddAnyway, Tables
<1>7. u.arr[Slot(key)] = <<new>> \o chain BY <1>1, <1>5 DEF Tables
<1>8. \A s \in Slots : s # Slot(key) => u.arr[s] = t.arr[s] BY <1>1, <1>5 DEF Tables
<1>9. /\ DOMAIN (<<new>> \o chain) = 1 .. Len(chain) + 1
      /\ (<<new>> \o chain)[1] = new
      /\ \A i \in DOMAIN chain : (<<new>> \o chain)[i + 1] = chain[i]
      /\ Len(chain) \in Nat
      /\ DOMAIN chain = 1 .. Len(chain)
  BY <1>2, <1>3
<1>10. \A i \in 1 .. Len(chain) + 1 :
         i = 1 \/ (i - 1 \in 1 .. Len(chain) /\ (<<new>> \o chain)[i] = chain[i - 1])
  <2>1. SUFFICES ASSUME NEW i \in 1 .. Len(chain) + 1, i # 1
                 PROVE  i - 1 \in 1 .. Len(chain) /\ (<<new>> \o chain)[i] = chain[i - 1]
    OBVIOUS
  <2>2. i - 1 \in 1 .. Len(chain) /\ (i - 1) + 1 = i BY <1>9, <2>1
  <2>3. (<<new>> \o chain)[(i - 1) + 1] = chain[i - 1] BY <1>9, <2>2
  <2> QED BY <2>2, <2>3
<1>11. u.size = t.size + 1 BY DEF AddAnyway
<1> QED BY <1>6, <1>7, <1>8, <1>9, <1>10, <1>11 DEF HasNewHead

LEMMA AddContains ==
  ASSUME NEW t \in Tables, NEW key \in Keys, NEW other \in Keys,
         NEW u, HasNewHead(t, key, u)
  PROVE  Contains(u, other) <=> (other = key \/ Contains(t, other))
<1>1. Slot(key) \in Slots /\ Slot(other) \in Slots BY SlotType
<1>2. CASE Slot(other) # Slot(key)
  <2>1. u.arr[Slot(other)] = t.arr[Slot(other)] BY <1>1, <1>2 DEF HasNewHead
  <2>2. other # key BY <1>2
  <2> QED BY <2>1, <2>2 DEF Contains, IsAt
<1>3. CASE Slot(other) = Slot(key)
  <2>1. ASSUME other = key PROVE Contains(u, other)
    <3>1. 1 \in DOMAIN u.arr[Slot(key)] /\ u.arr[Slot(key)][1].key = key BY DEF HasNewHead
    <3> QED BY <2>1, <3>1 DEF Contains, IsAt
  <2>2. ASSUME Contains(t, other) PROVE Contains(u, other)
    <3>1. PICK i \in DOMAIN t.arr[Slot(key)] : t.arr[Slot(key)][i].key = other
      BY <1>3, <2>2 DEF Contains, IsAt
    <3>2. i + 1 \in DOMAIN u.arr[Slot(key)] BY <3>1 DEF HasNewHead
    <3>3. u.arr[Slot(key)][i + 1] = t.arr[Slot(key)][i] BY <3>1 DEF HasNewHead
    <3> QED BY <1>3, <3>1, <3>2, <3>3 DEF Contains, IsAt
  <2>3. ASSUME Contains(u, other), other # key PROVE Contains(t, other)
    <3>1. PICK i \in DOMAIN u.arr[Slot(key)] : u.arr[Slot(key)][i].key = other
      BY <1>3, <2>3 DEF Contains, IsAt
    <3>2. i # 1 BY <2>3, <3>1 DEF HasNewHead
    <3>3. i - 1 \in DOMAIN t.arr[Slot(key)] /\ t.arr[Slot(key)][i - 1].key = other
      BY <3>1, <3>2 DEF HasNewHead
    <3> QED BY <1>3, <3>3 DEF Contains, IsAt
  <2> QED BY <2>1, <2>2, <2>3
<1> QED BY <1>2, <1>3

(* Adding a key keeps the table well formed. *)
LEMMA AddKeepsWellFormed ==
  ASSUME NEW t \in Tables, WellFormed(t), NEW key \in Keys
  PROVE  /\ symtable_add(t, key) \in Tables
         /\ WellFormed(symtable_add(t, key))
         /\ Members(symtable_add(t, key)) = Members(t) \union {key}
<1> DEFINE u == AddAnyway(t, key)
<1>0. HasNewHead(t, key, u) BY AddedItems
<1> HIDE DEF u
<1>1. CASE Contains(t, key)
  BY <1>1 DEF symtable_add, Members
<1>2. CASE ~ Contains(t, key)
  <2>1. symtable_add(t, key) = u BY <1>2 DEF symtable_add, u
  <2>2. u \in Tables BY <1>0 DEF HasNewHead
  <2>3. Slot(key) \in Slots BY SlotType
  <2>4. t.arr[Slot(key)] \in Seq(Item) BY <2>3 DEF Tables
  <2>5. Members(u) = Members(t) \union {key} BY <1>0, AddContains DEF Members
  <2>6. InItsSlot(u)
    <3>1. SUFFICES ASSUME NEW s \in Slots, NEW i \in DOMAIN u.arr[s]
                   PROVE  Slot(u.arr[s][i].key) = s
      BY DEF InItsSlot
    <3>2. CASE s # Slot(key)
      <4>1. u.arr[s] = t.arr[s] BY <1>0, <3>2 DEF HasNewHead
      <4> QED BY <4>1 DEF WellFormed, InItsSlot
    <3>3. CASE s = Slot(key) /\ i = 1 BY <1>0, <3>3 DEF HasNewHead
    <3>4. CASE s = Slot(key) /\ i # 1
      <4>1. i - 1 \in DOMAIN t.arr[s] /\ u.arr[s][i] = t.arr[s][i - 1]
        BY <1>0, <3>4 DEF HasNewHead
      <4> QED BY <2>3, <3>4, <4>1 DEF WellFormed, InItsSlot
    <3> QED BY <3>2, <3>3, <3>4
  <2>7. OncePerKey(u)
    <3>1. SUFFICES ASSUME NEW s \in Slots, NEW i \in DOMAIN u.arr[s], NEW j \in DOMAIN u.arr[s],
                          u.arr[s][i].key = u.arr[s][j].key
                   PROVE  i = j
      BY DEF OncePerKey
    <3>2. CASE s # Slot(key)
      <4>1. u.arr[s] = t.arr[s] BY <1>0, <3>2 DEF HasNewHead
      <4> QED BY <3>1, <4>1 DEF WellFormed, OncePerKey
    <3>3. CASE s = Slot(key)
      <4> DEFINE chain == t.arr[Slot(key)]
      <4>1. \A k \in DOMAIN chain : chain[k].key # key BY <1>2 DEF Contains, IsAt
      <4>2. \A k \in DOMAIN u.arr[s] \ {1} :
              k - 1 \in DOMAIN chain /\ u.arr[s][k] = chain[k - 1]
        BY <1>0, <3>3 DEF HasNewHead
      <4>3. u.arr[s][1].key = key BY <1>0, <3>3 DEF HasNewHead
      <4>4. CASE i = 1 \/ j = 1 BY <3>1, <4>1, <4>2, <4>3, <4>4
      <4>5. CASE i # 1 /\ j # 1
        <5>1. chain[i - 1].key = chain[j - 1].key BY <3>1, <4>2, <4>5
        <5>2. i - 1 = j - 1 BY <2>3, <4>2, <4>5, <5>1 DEF WellFormed, OncePerKey
        <5>3. i \in Nat /\ j \in Nat BY <1>0, <3>3 DEF HasNewHead
        <5> QED BY <5>2, <5>3
      <4> QED BY <4>4, <4>5
    <3> QED BY <3>2, <3>3
  <2>8. SizeIsRight(u)
    <3>1. key \notin Members(t) BY <1>2 DEF Members
    <3>2. Cardinality(Members(u)) = Cardinality(Members(t)) + 1
      BY <2>5, <3>1, MembersFinite, FS_AddElement
    <3>3. u.size = t.size + 1 BY <1>0 DEF HasNewHead
    <3> QED BY <3>2, <3>3 DEF SizeIsRight, WellFormed
  <2> QED BY <2>1, <2>2, <2>5, <2>6, <2>7, <2>8 DEF WellFormed
<1> QED BY <1>1, <1>2

(* The new function has no parameters and is not defined; the other items  *)
(* keep their data.                                                        *)
LEMMA AddedData ==
  ASSUME NEW t \in Tables, WellFormed(t), NEW key \in Keys
  PROVE  /\ ~ Contains(t, key) => DataOf(symtable_add(t, key), key) = NewFunction
         /\ \A other \in Members(t) : DataOf(symtable_add(t, key), other) = DataOf(t, other)
<1> DEFINE u == symtable_add(t, key)
<1>0. u \in Tables /\ WellFormed(u) BY AddKeepsWellFormed
<1>1. CASE Contains(t, key) BY <1>1 DEF symtable_add
<1>2. CASE ~ Contains(t, key)
  <2>1. HasNewHead(t, key, u) BY <1>2, AddedItems DEF symtable_add
  <2> HIDE DEF u
  <2>2. DataOf(u, key) = NewFunction
    <3>1. 1 \in DOMAIN u.arr[Slot(key)] /\ u.arr[Slot(key)][1].key = key
          /\ u.arr[Slot(key)][1].data = NewFunction
      BY <2>1 DEF HasNewHead
    <3> QED BY <1>0, <3>1, SlotType, FoundIsTheItem DEF WellFormed
  <2>3. ASSUME NEW other \in Members(t) PROVE DataOf(u, other) = DataOf(t, other)
    <3>1. other \in Keys /\ Contains(t, other) BY <2>3 DEF Members
    <3> DEFINE i == symtable_find(t, other)
               s == Slot(other)
    <3>2. i \in DOMAIN t.arr[s] /\ t.arr[s][i].key = other
      BY <3>1, FindStopsAtKey DEF IsAt, WellFormed
    <3>3. DataOf(t, other) = t.arr[s][i].data BY DEF DataOf
    <3>4. PICK j \in DOMAIN u.arr[s] : u.arr[s][j] = t.arr[s][i]
      <4> HIDE DEF i
      <4>1. CASE s # Slot(key)
        <5>1. u.arr[s] = t.arr[s] BY <2>1, <3>1, <4>1, SlotType DEF HasNewHead
        <5> QED BY <3>2, <5>1
      <4>2. CASE s = Slot(key)
        <5>1. i + 1 \in DOMAIN u.arr[s] BY <2>1, <3>2, <4>2 DEF HasNewHead
        <5>2. u.arr[s][i + 1] = t.arr[s][i] BY <2>1, <3>2, <4>2 DEF HasNewHead
        <5> QED BY <5>1, <5>2
      <4> QED BY <4>1, <4>2
    <3> HIDE DEF i, s
    <3>5. s \in Slots BY <3>1, SlotType DEF s
    <3>6. DataOf(u, other) = u.arr[s][j].data
      BY <1>0, <3>2, <3>4, <3>5, FoundIsTheItem DEF WellFormed
    <3> QED BY <3>3, <3>4, <3>6
  <2> QED BY <2>2, <2>3 DEF u
<1> QED BY <1>1, <1>2

-----------------------------------------------------------------------------
(* Table u is table t but for the data of one key. *)
DiffersInData(t, key, data, u) ==
  /\ u \in Tables
  /\ u.size = t.size
  /\ \A s \in Slots :
       /\ DOMAIN u.arr[s] = DOMAIN t.arr[s]
       /\ \A i \in DOMAIN t.arr[s] :
            /\ u.arr[s][i].key = t.arr[s][i].key
            /\ u.arr[s][i].data = IF t.arr[s][i].key = key THEN data ELSE t.arr[s][i].data

LEMMA WrittenData ==
  ASSUME NEW t \in Tables, WellFormed(t), NEW key \in Keys, Contains(t, key),
         NEW data \in FunctionData
  PROVE  DiffersInData(t, key, data, WithData(t, key, data))
<1> DEFINE i == symtable_find(t, key)
           u == WithData(t, key, data)
           chain == t.arr[Slot(key)]
<1>1. Slot(key) \in Slots BY SlotType
<1>2. chain \in Seq(Item) BY <1>1 DEF Tables
<1>3. i \in DOMAIN chain /\ chain[i].key = key
  BY FindStopsAtKey DEF IsAt, WellFormed
<1>4. chain[i] \in Item BY <1>2, <1>3
<1>5. [chain[i] EXCEPT !.data = data] = [key |-> key, data |-> data] BY <1>3, <1>4 DEF Item
<1> HIDE DEF i
<1>6. u = [t EXCEPT !.arr = [t.arr EXCEPT ![Slot(key)] =
             [chain EXCEPT ![i] = [chain[i] EXCEPT !.data = data]]]]
  BY <1>1, <1>3 DEF WithData, i, Tables
<1>7. [key |-> key, data |-> data] \in Item BY DEF Item
<1>8. [chain EXCEPT ![i] = [key |-> key, data |-> data]] \in Seq(Item)
  BY <1>2, <1>3, <1>7
<1>9. u = [t EXCEPT !.arr = [t.arr EXCEPT ![Slot(key)] =
             [chain EXCEPT ![i] = [key |-> key, data |-> data]]]]
  BY <1>5, <1>6
<1> HIDE DEF u
<1>10. u \in Tables /\ u.size = t.size BY <1>1, <1>8, <1>9 DEF Tables
<1>11. u.arr = [t.arr EXCEPT ![Slot(key)] = [chain EXCEPT ![i] = [key |-> key, data |-> data]]]
  BY <1>9 DEF Tables
<1>12. ASSUME NEW s \in Slots, s # Slot(key)
       PROVE  u.arr[s] = t.arr[s] /\ \A j \in DOMAIN t.arr[s] : t.arr[s][j].key # key
  BY <1>11, <1>12 DEF Tables, WellFormed, InItsSlot
<1>13. u.arr[Slot(key)] = [chain EXCEPT ![i] = [key |-> key, data |-> data]]
  BY <1>1, <1>11 DEF Tables
<1>14. \A j \in DOMAIN chain : chain[j].key = key => j = i
  BY <1>1, <1>3 DEF WellFormed, OncePerKey
<1> HIDE DEF chain
<1>15. /\ DOMAIN u.arr[Slot(key)] = DOMAIN chain
       /\ \A j \in DOMAIN chain :
            /\ u.arr[Slot(key)][j].key = chain[j].key
            /\ u.arr[Slot(key)][j].data = IF chain[j].key = key THEN data ELSE chain[j].data
  <2>1. DOMAIN u.arr[Slot(key)] = DOMAIN chain BY <1>13
  <2>2. u.arr[Slot(key)][i] = [key |-> key, data |-> data] BY <1>3, <1>13
  <2>3. \A j \in DOMAIN chain : j # i => u.arr[Slot(key)][j] = chain[j] BY <1>13
  <2> QED BY <1>3, <1>14, <2>1, <2>2, <2>3
<1> QED BY <1>10, <1>12, <1>15 DEF DiffersInData, u, chain

(* Writing the data of a contained key keeps the table well formed. *)
LEMMA WriteKeepsWellFormed ==
  ASSUME NEW t \in Tables, WellFormed(t), NEW key \in Keys, Contains(t, key),
         NEW data \in FunctionData
  PROVE  /\ WithData(t, key, data) \in Tables
         /\ WellFormed(WithData(t, key, data))
         /\ Members(WithData(t, key, data)) = Members(t)
         /\ WithData(t, key, data).size = t.size
         /\ DataOf(WithData(t, key, data), key) = data
         /\ \A other \in Members(t) :
              other # key => DataOf(WithData(t, key, data), other) = DataOf(t, other)
<1> DEFINE u == WithData(t, key, data)
<1>1. DiffersInData(t, key, data, u) BY WrittenData
<1> HIDE DEF u
<1>2. u \in Tables /\ u.size = t.size BY <1>1 DEF DiffersInData
<1>3. \A other \in Keys : Contains(u, other) <=> Contains(t, other)
  BY <1>1, SlotType DEF DiffersInData, Contains, IsAt
<1>4. Members(u) = Members(t) BY <1>3 DEF Members
<1>5. InItsSlot(u) BY <1>1 DEF DiffersInData, WellFormed, InItsSlot
<1>6. OncePerKey(u) BY <1>1 DEF DiffersInData, WellFormed, OncePerKey
<1>7. SizeIsRight(u) BY <1>2, <1>4 DEF SizeIsRight, WellFormed
<1>8. ASSUME NEW other \in Members(t)
      PROVE  DataOf(u, other) = IF other = key THEN data ELSE DataOf(t, other)
  <2>1. other \in Keys /\ Contains(t, other) BY <1>8 DEF Members
  <2> DEFINE i == symtable_find(t, other)
             s == Slot(other)
  <2>2. s \in Slots BY <2>1, SlotType
  <2>3. i \in DOMAIN t.arr[s] /\ t.arr[s][i].key = other
    BY <2>1, FindStopsAtKey DEF IsAt, WellFormed
  <2>4. DataOf(t, other) = t.arr[s][i].data BY DEF DataOf
  <2> HIDE DEF i, s
  <2>5. /\ i \in DOMAIN u.arr[s]
        /\ u.arr[s][i].key = other
        /\ u.arr[s][i].data = IF other = key THEN data ELSE t.arr[s][i].data
    BY <1>1, <2>2, <2>3 DEF DiffersInData
  <2>6. DataOf(u, other) = u.arr[s][i].data
    BY <1>2, <1>5, <1>6, <2>2, <2>5, FoundIsTheItem
  <2> QED BY <2>4, <2>5, <2>6
<1>9. key \in Members(t) BY DEF Members
<1> QED BY <1>2, <1>4, <1>5, <1>6, <1>7, <1>8, <1>9 DEF WellFormed, u

-----------------------------------------------------------------------------
(* The place of an item. *)
IsPlace(t, place) ==
  /\ place \in Slots \X Nat
  /\ place[2] \in DOMAIN t.arr[place[1]]

(* FirstFrom skips empty slots only. *)
LEMMA FirstFromSkipsEmptySlots ==
  ASSUME NEW t \in Tables, NEW from \in Nat
  PROVE  LET first == FirstFrom(t, from)
         IN  /\ first = NULL \/ (IsPlace(t, first) /\ first[1] >= from /\ first[2] = 1)
             /\ \A s \in Slots : from <= s /\ s < first[1] => t.arr[s] = << >>
<1> DEFINE Filled == {s \in Slots : s >= from /\ t.arr[s] # << >>}
<1>1. Slots \subseteq Nat BY TableSizeAssumption DEF Slots
<1>2. CASE Filled = {}
  <2>1. FirstFrom(t, from) = NULL BY <1>2 DEF FirstFrom
  <2>2. \A s \in Slots : from <= s => t.arr[s] = << >> BY <1>1, <1>2
  <2> QED BY <2>1, <2>2
<1>3. CASE Filled # {}
  <2>1. PICK s \in Filled : \A r \in Filled : s <= r BY <1>1, <1>3, LeastElement
  <2>2. ASSUME NEW r \in Slots, from <= r, r < s
        PROVE  t.arr[r] = << >>
    <3>1. s \in Slots BY <2>1
    <3>2. ~ (s <= r)
      <4>1. r \in Nat /\ s \in Nat BY <1>1, <3>1
      <4> HIDE DEF Filled
      <4> QED BY <4>1, <2>2
    <3>3. r \notin Filled
      <4> HIDE DEF Filled
      <4> QED BY <2>1, <3>2, Zenon
    <3>4. r >= from
      <4>1. r \in Nat BY <1>1
      <4> HIDE DEF Filled
      <4> QED BY <4>1, <2>2
    <3> QED BY <3>3, <3>4, Zenon
  <2> DEFINE IsFirst(r) == /\ r >= from
                           /\ t.arr[r] # << >>
                           /\ \A q \in Slots : from <= q /\ q < r => t.arr[q] = << >>
             c == CHOOSE r \in Slots : IsFirst(r)
  <2>3. IsFirst(s) BY <2>1, <2>2
  <2>4. c \in Slots /\ IsFirst(c) BY <2>1, <2>3
  <2>5. FirstFrom(t, from) = <<c, 1>> BY <1>3 DEF FirstFrom
  <2> HIDE DEF c
  <2>6. t.arr[c] \in Seq(Item) BY <2>4 DEF Tables
  <2>7. 1 \in DOMAIN t.arr[c] BY <2>4, <2>6
  <2> QED BY <2>4, <2>5, <2>7 DEF IsPlace
<1> QED BY <1>2, <1>3

(* From a place, symtable_get_next_item moves to the next place, if any,   *)
(* and passes no other item: the loop over the table sees all of them.     *)
LEMMA NextItemPassesOne ==
  ASSUME NEW t \in Tables, InItsSlot(t), NEW item, IsPlace(t, item)
  PROVE  LET next == symtable_get_next_item(t, item)
         IN  /\ next = NULL \/ IsPlace(t, next)
             /\ \A s \in Slots : \A i \in DOMAIN t.arr[s] :
                  IsBefore(<<s, i>>, next) => <<s, i>> = item \/ IsBefore(<<s, i>>, item)
<1> DEFINE next == symtable_get_next_item(t, item)
           chain == t.arr[item[1]]
<1>1. item[1] \in Slots /\ item[2] \in DOMAIN chain /\ item = <<item[1], item[2]>>
  BY DEF IsPlace
<1>2. chain \in Seq(Item) BY <1>1 DEF Tables
<1>3. Slots \subseteq Nat BY TableSizeAssumption DEF Slots
<1>4. \A s \in Slots : DOMAIN t.arr[s] \subseteq Nat
  <2>1. SUFFICES ASSUME NEW s \in Slots PROVE DOMAIN t.arr[s] \subseteq Nat OBVIOUS
  <2>2. t.arr[s] \in Seq(Item) BY DEF Tables
  <2> QED BY <2>2
<1>5. CASE item[2] < Len(chain)
  <2>1. next = <<item[1], item[2] + 1>> BY <1>5 DEF symtable_get_next_item
  <2>2. item[2] + 1 \in DOMAIN chain BY <1>1, <1>2, <1>5
  <2>3. IsPlace(t, next) BY <1>1, <1>4, <2>1, <2>2 DEF IsPlace
  <2>4. ASSUME NEW s \in Slots, NEW i \in DOMAIN t.arr[s], IsBefore(<<s, i>>, next)
        PROVE  <<s, i>> = item \/ IsBefore(<<s, i>>, item)
    BY <1>1, <1>3, <1>4, <2>1, <2>4 DEF IsBefore
  <2> QED BY <2>3, <2>4
<1>6. CASE ~ (item[2] < Len(chain))
  <2>1. Slot(ItemAt(t, item).key) = item[1] BY <1>1 DEF ItemAt, InItsSlot
  <2>2. next = FirstFrom(t, item[1] + 1) BY <1>6, <2>1 DEF symtable_get_next_item
  <2>3. item[1] + 1 \in Nat BY <1>1, <1>3
  <2> HIDE DEF next
  <2>4. /\ next = NULL \/ (IsPlace(t, next) /\ next[2] = 1)
        /\ \A s \in Slots : item[1] + 1 <= s /\ s < next[1] => t.arr[s] = << >>
    BY <2>2, <2>3, FirstFromSkipsEmptySlots
  <2>5. next[1] \in Nat /\ next[2] \in {0, 1}
    <3>1. CASE next = NULL BY <3>1, TableSizeAssumption DEF NULL
    <3>2. CASE IsPlace(t, next) /\ next[2] = 1 BY <1>3, <3>2 DEF IsPlace
    <3> QED BY <2>4, <3>1, <3>2
  <2>6. ASSUME NEW s \in Slots, NEW i \in DOMAIN t.arr[s], IsBefore(<<s, i>>, next)
        PROVE  <<s, i>> = item \/ IsBefore(<<s, i>>, item)
    <3>1. t.arr[s] \in Seq(Item) BY DEF Tables
    <3>2. i \in 1 .. Len(t.arr[s]) BY <3>1
    <3>3. t.arr[s] # << >> BY <3>2
    <3>4. s < next[1] BY <1>3, <2>5, <2>6, <3>2 DEF IsBefore
    <3>5. s <= item[1] BY <1>1, <1>3, <2>4, <3>3, <3>4
    <3>6. CASE s < item[1] BY <3>6 DEF IsBefore
    <3>7. CASE s = item[1]
      <4>1. i <= item[2] BY <1>1, <1>2, <1>6, <3>2, <3>7
      <4> QED BY <1>1, <1>2, <3>2, <3>7, <4>1 DEF IsBefore
    <3> QED BY <1>1, <1>3, <3>5, <3>6, <3>7
  <2> QED BY <2>4, <2>6 DEF next
<1> QED BY <1>5, <1>6

(* Nothing comes before the first item, and NULL comes after all items. *)
LEMMA FirstItemIsFirst ==
  ASSUME NEW t \in Tables
  PROVE  LET first == symtable_get_first_item(t)
         IN  /\ first = NULL \/ IsPlace(t, first)
             /\ \A s \in Slots : \A i \in DOMAIN t.arr[s] : ~ IsBefore(<<s, i>>, first)
<1> DEFINE first == symtable_get_first_item(t)
<1>1. Slots \subseteq Nat BY TableSizeAssumption DEF Slots
<1>2. first = FirstFrom(t, 0) BY DEF symtable_get_first_item
<1> HIDE DEF first
<1>3. /\ first = NULL \/ (IsPlace(t, first) /\ first[2] = 1)
      /\ \A s \in Slots : 0 <= s /\ s < first[1] => t.arr[s] = << >>
  BY <1>2, FirstFromSkipsEmptySlots
<1>4. first[2] \in {0, 1}
  <2>1. CASE first = NULL BY <2>1 DEF NULL
  <2>2. CASE first[2] = 1 BY <2>2
  <2> QED BY <1>3, <2>1, <2>2
<1>5. ASSUME NEW s \in Slots, NEW i \in DOMAIN t.arr[s] PROVE ~ IsBefore(<<s, i>>, first)
  <2>1. t.arr[s] \in Seq(Item) BY DEF Tables
  <2>2. i \in 1 .. Len(t.arr[s]) BY <2>1
  <2>3. t.arr[s] # << >> BY <2>2
  <2> QED BY <1>1, <1>3, <1>4, <2>2, <2>3 DEF IsBefore
<1> QED BY <1>3, <1>5 DEF first

LEMMA NullIsLast ==
  ASSUME NEW s \in Slots, NEW i
  PROVE  IsBefore(<<s, i>>, NULL)
<1>1. s < TABLE_SIZE BY TableSizeAssumption DEF Slots
<1> QED BY <1>1 DEF IsBefore, NULL

-----------------------------------------------------------------------------
(* The inductive invariant.                                                *)

NamesKnown ==
  /\ phase \in {"params", "ret_type", "body"} => definition.name \in Members(table)
  /\ semantic_enabled => \A i \in DOMAIN calls : calls[i].name \in Members(table)

CursorAtItem == phase = "check_defined" => cursor = NULL \/ IsPlace(table, cursor)

MainTakesNothing ==
  phase \in {"check_defined", "inference", "accepted"} =>
    /\ main \in Members(table)
    /\ DataOf(table, main).params = << >>
    /\ DataOf(table, main).ret_types = 0

AllDefined ==
  phase \in {"inference", "accepted"} => \A name \in Members(table) : DataOf(table, name).defined

Inv ==
  /\ TypeOK
  /\ TableWellFormed
  /\ NamesKnown
  /\ CursorAtItem
  /\ MainTakesNothing
  /\ LoopPassesOnlyDefined
  /\ AllDefined

-----------------------------------------------------------------------------
(* An element of a sequence, and a sequence with one element replaced. *)
LEMMA SeqElement ==
  ASSUME NEW S, NEW seq \in Seq(S), NEW i \in 1 .. Len(seq)
  PROVE  seq[i] \in S
OBVIOUS

LEMMA SeqUpdate ==
  ASSUME NEW S, NEW seq \in Seq(S), NEW i, NEW e \in S
  PROVE  [seq EXCEPT ![i] = e] \in Seq(S)
<1>1. Len(seq) \in Nat /\ seq \in [1 .. Len(seq) -> S] OBVIOUS
<1>2. [seq EXCEPT ![i] = e] \in [1 .. Len(seq) -> S] BY <1>1
<1> QED BY <1>1, <1>2

(* Adding a key, if it is not there, and writing its data. *)
LEMMA AddThenWrite ==
  ASSUME NEW t \in Tables, WellFormed(t), NEW key \in Keys, NEW data \in FunctionData
  PROVE  /\ WithData(symtable_add(t, key), key, data) \in Tables
         /\ WellFormed(WithData(symtable_add(t, key), key, data))
         /\ Members(WithData(symtable_add(t, key), key, data)) = Members(t) \union {key}
<1> DEFINE u == symtable_add(t, key)
<1>1. u \in Tables /\ WellFormed(u) /\ Members(u) = Members(t) \union {key}
  BY AddKeepsWellFormed
<1>2. Contains(u, key) BY <1>1 DEF Members
<1> HIDE DEF u
<1>3. /\ WithData(u, key, data) \in Tables
      /\ WellFormed(WithData(u, key, data))
      /\ Members(WithData(u, key, data)) = Members(u)
  BY <1>1, <1>2, WriteKeepsWellFormed
<1> QED BY <1>1, <1>3 DEF u

(* The data of a member is function data. *)
LEMMA MemberData ==
  ASSUME NEW t \in Tables, WellFormed(t), NEW key \in Members(t)
  PROVE  key \in Keys /\ Contains(t, key) /\ DataOf(t, key) \in FunctionData
BY DataType DEF Members, WellFormed

(* Filling in inferred types keeps a list of types a list of that length. *)
LEMMA WithInferredType ==
  ASSUME NEW params \in Seq(DataTypes), NEW types \in Seq(DataTypes)
  PROVE  /\ WithInferred(params, types) \in Seq(DataTypes)
         /\ params = << >> => WithInferred(params, types) = << >>
<1>1. DOMAIN params = 1 .. Len(params) /\ Len(params) \in Nat OBVIOUS
<1>2. ASSUME NEW i \in DOMAIN params
      PROVE  WithInferred(params, types)[i] \in DataTypes
  <2>1. WithInferred(params, types)[i] \in {types[i], params[i]}
          /\ (WithInferred(params, types)[i] # params[i] => i \in DOMAIN types)
    BY DEF WithInferred
  <2>2. params[i] \in DataTypes OBVIOUS
  <2>3. i \in DOMAIN types => types[i] \in DataTypes OBVIOUS
  <2> QED BY <2>1, <2>2, <2>3
<1>3. DOMAIN WithInferred(params, types) = 1 .. Len(params)
  BY <1>1 DEF WithInferred
<1>4. WithInferred(params, types) = [i \in 1 .. Len(params) |-> WithInferred(params, types)[i]]
  BY <1>1 DEF WithInferred
<1>5. WithInferred(params, types) \in [1 .. Len(params) -> DataTypes]
  BY <1>1, <1>2, <1>4
<1>6. WithInferred(params, types) \in Seq(DataTypes) BY <1>1, <1>5
<1>7. ASSUME params = << >> PROVE WithInferred(params, types) = << >>
  <2>1. Len(params) = 0 BY <1>7
  <2>2. Len(WithInferred(params, types)) = 0 BY <1>1, <1>3, <1>6, <2>1
  <2> QED BY <1>6, <2>2
<1> QED BY <1>6, <1>7

(* Checking a call leaves the table well formed, with the same functions   *)
(* defined and the same return types; a function without parameters stays  *)
(* without.                                                                *)
LEMMA InferKeepsTable ==
  ASSUME NEW t \in Tables, WellFormed(t), NEW name \in Members(t),
         NEW types \in Seq(DataTypes), Infer(t, name, types), compiler_result \in Results
  PROVE  /\ table' \in Tables
         /\ WellFormed(table')
         /\ Members(table') = Members(t)
         /\ compiler_result' \in Results
         /\ \A key \in Members(t) :
              /\ DataOf(table', key).defined = DataOf(t, key).defined
              /\ DataOf(table', key).ret_types = DataOf(t, key).ret_types
              /\ DataOf(t, key).params = << >> => DataOf(table', key).params = << >>
              /\ key # name => DataOf(table', key) = DataOf(t, key)
<1> DEFINE data == DataOf(t, name)
           filled == [data EXCEPT !.params = WithInferred(data.params, types)]
<1>1. name \in Keys /\ Contains(t, name) /\ data \in FunctionData BY MemberData
<1>2. data.params \in Seq(DataTypes) BY <1>1 DEF FunctionData
<1>3. filled \in FunctionData BY <1>1, <1>2, WithInferredType DEF FunctionData
<1>4. /\ table' = t \/ table' = WithData(t, name, filled)
      /\ compiler_result' \in {compiler_result, "WRONG_PARAMETER"}
  BY DEF Infer, Fail
<1>5. compiler_result' \in Results BY <1>4 DEF Results
<1>6. CASE table' = t BY <1>5, <1>6
<1>7. CASE table' = WithData(t, name, filled)
  <2> HIDE DEF filled
  <2>1. /\ table' \in Tables /\ WellFormed(table') /\ Members(table') = Members(t)
        /\ DataOf(table', name) = filled
        /\ \A other \in Members(t) : other # name => DataOf(table', other) = DataOf(t, other)
    BY <1>1, <1>3, <1>7, WriteKeepsWellFormed
  <2>2. /\ filled.defined = data.defined
        /\ filled.ret_types = data.ret_types
        /\ data.params = << >> => filled.params = << >>
    BY <1>1, <1>2, WithInferredType DEF filled, FunctionData
  <2> QED BY <1>5, <2>1, <2>2
<1> QED BY <1>4, <1>6, <1>7

-----------------------------------------------------------------------------
(* The initial state satisfies the invariant. *)
LEMMA InitInv == Init => Inv
<1> SUFFICES ASSUME Init PROVE Inv OBVIOUS
<1>1. table \in Tables /\ WellFormed(table) /\ Members(table) = {}
  BY EmptyTable DEF Init
<1>2. TypeOK
  BY <1>1, NamesAssumption DEF Init, TypeOK, Phases, NoDefinition, Results
<1> QED
  BY <1>1, <1>2 DEF Init, Inv, TableWellFormed, NamesKnown, CursorAtItem, MainTakesNothing,
     LoopPassesOnlyDefined, AllDefined, At

(* The steps that only move the parser on. *)
LEMMA MovesKeepInv ==
  ASSUME Inv, \/ PackageMain \/ EndOfParams \/ OpenBody \/ CloseBody \/ EndOfPass
              \/ UNCHANGED vars
  PROVE  Inv'
<1>1. table' = table /\ calls' = calls /\ cursor' = cursor /\ declared' = declared
        /\ compiler_result' = compiler_result
  BY DEF PackageMain, EndOfParams, OpenBody, CloseBody, EndOfPass, vars
<1>2. TypeOK'
  <2>1. phase' \in Phases /\ inferred' \in Nat
    BY DEF Inv, TypeOK, PackageMain, EndOfParams, OpenBody, CloseBody, EndOfPass, vars, Phases
  <2>2. locals' \subseteq LocalNames
    BY DEF Inv, TypeOK, PackageMain, EndOfParams, OpenBody, CloseBody, EndOfPass, vars
  <2>3. NoDefinition \in [name : Keys, already_found : BOOLEAN, current_param : Nat]
    BY NamesAssumption DEF NoDefinition
  <2>4. definition' \in {definition, NoDefinition}
    BY DEF PackageMain, EndOfParams, OpenBody, CloseBody, EndOfPass, vars
  <2>5. definition' \in [name : Keys, already_found : BOOLEAN, current_param : Nat]
    BY <2>3, <2>4 DEF Inv, TypeOK
  <2> QED BY <1>1, <2>1, <2>2, <2>5 DEF Inv, TypeOK
<1>3. NamesKnown'
  BY <1>1 DEF Inv, NamesKnown, PackageMain, EndOfParams, OpenBody, CloseBody, EndOfPass, vars,
     semantic_enabled, At
<1>4. phase' = "check_defined" => phase = "check_defined"
  BY DEF PackageMain, EndOfParams, OpenBody, CloseBody, EndOfPass, vars
<1>5. phase' \in {"inference", "accepted"} => phase \in {"inference", "accepted"}
  BY DEF PackageMain, EndOfParams, OpenBody, CloseBody, EndOfPass, vars, At
<1>6. TableWellFormed' BY <1>1 DEF Inv, TableWellFormed
<1>7. CursorAtItem' BY <1>1, <1>4 DEF Inv, CursorAtItem
<1>8. MainTakesNothing' BY <1>1, <1>4, <1>5 DEF Inv, MainTakesNothing
<1>9. LoopPassesOnlyDefined'
  BY <1>1, <1>4 DEF Inv, LoopPassesOnlyDefined, At, semantic_enabled
<1>10. AllDefined' BY <1>1, <1>5 DEF Inv, AllDefined
<1> QED BY <1>2, <1>3, <1>6, <1>7, <1>8, <1>9, <1>10 DEF Inv

-----------------------------------------------------------------------------
(* Before the end of the file the invariant asks for little. *)
LEMMA ReadingStep ==
  ASSUME phase' \notin {"check_defined", "inference", "accepted"},
         TypeOK', WellFormed(table'), NamesKnown'
  PROVE  Inv'
BY DEF Inv, TableWellFormed, CursorAtItem, MainTakesNothing, LoopPassesOnlyDefined, AllDefined, At

(* The builtins are added one by one. *)
LEMMA PrepareBuiltinKeepsInv == ASSUME Inv, PrepareBuiltin PROVE Inv'
<1> DEFINE builtin == Builtins[table.size + 1]
           data == [NewFunction EXCEPT !.defined = TRUE, !.params = builtin.params,
                                       !.ret_types = builtin.ret_types]
<1>1. table \in Tables /\ WellFormed(table) BY DEF Inv, TypeOK, TableWellFormed
<1>2. builtin \in [name : Keys, params : Seq(Types), ret_types : Nat]
  <2>1. table.size \in Nat BY <1>1 DEF Tables
  <2>2. table.size + 1 \in 1 .. Len(Builtins) BY <2>1, BuiltinsAssumption DEF PrepareBuiltin
  <2> QED BY <2>2, BuiltinsAssumption, SeqElement
<1>3. builtin.params \in Seq(DataTypes) BY <1>2 DEF DataTypes
<1>4. data \in FunctionData BY <1>2, <1>3 DEF FunctionData, NewFunction
<1>5. \/ table' = table /\ declared' = declared /\ compiler_result' = "INTERNAL"
      \/ /\ table' = WithData(symtable_add(table, builtin.name), builtin.name, data)
         /\ declared' = [declared EXCEPT ![builtin.name] = builtin.params]
         /\ compiler_result' = compiler_result
  BY DEF PrepareBuiltin, Declare, Fail
<1>6. builtin.name \in Keys /\ builtin.params \in Seq(Types) BY <1>2
<1> HIDE DEF builtin, data
<1>7. table' \in Tables /\ WellFormed(table') /\ Members(table) \subseteq Members(table')
  <2>1. CASE table' = table BY <1>1, <2>1
  <2>2. CASE table' = WithData(symtable_add(table, builtin.name), builtin.name, data)
    BY <1>1, <1>4, <1>6, <2>2, AddThenWrite
  <2> QED BY <1>5, <2>1, <2>2
<1>8. declared' \in [Keys -> Seq(Types)] BY <1>5, <1>6 DEF Inv, TypeOK
<1>9. compiler_result' \in Results BY <1>5 DEF Inv, TypeOK, Results
<1>10. UNCHANGED <<phase, definition, locals, calls, inferred, cursor>> BY DEF PrepareBuiltin
<1>11. TypeOK' BY <1>7, <1>8, <1>9, <1>10 DEF Inv, TypeOK
<1>12. phase = "builtins" /\ semantic_enabled BY DEF PrepareBuiltin, At
<1>13. NamesKnown' BY <1>7, <1>10, <1>12 DEF Inv, NamesKnown
<1> QED BY <1>7, <1>10, <1>11, <1>12, <1>13, ReadingStep

(* A definition adds its function, unless a call has, and marks it. *)
LEMMA FuncKeepsInv == ASSUME Inv, NEW name \in Keys, Func(name) PROVE Inv'
<1> DEFINE added == symtable_add(table, name)
           data == [DataOf(added, name) EXCEPT !.defined = TRUE]
<1>1. table \in Tables /\ WellFormed(table) BY DEF Inv, TypeOK, TableWellFormed
<1>2. added \in Tables /\ WellFormed(added) /\ name \in Members(added)
  BY <1>1, AddKeepsWellFormed
<1>3. data \in FunctionData
  <2> HIDE DEF added
  <2> QED BY <1>2, MemberData DEF FunctionData
<1>4. phase = "execution" /\ semantic_enabled BY DEF Func, At
<1>5. UNCHANGED <<calls, inferred, cursor, declared>> BY DEF Func
<1>6. CASE IsDefined(table, name)
  <2>1. /\ UNCHANGED <<table, phase, definition, locals>>
        /\ compiler_result' = "UNDEFINED_OR_REDEFINED"
    BY <1>6 DEF Func, Fail
  <2>2. TypeOK' BY <1>5, <2>1 DEF Inv, TypeOK, Results
  <2>3. NamesKnown' BY <1>4, <1>5, <2>1 DEF Inv, NamesKnown
  <2> QED BY <1>1, <1>4, <2>1, <2>2, <2>3, ReadingStep
<1>7. CASE ~ IsDefined(table, name)
  <2>1. /\ table' = WithData(symtable_add(table, name), name, data)
        /\ definition' = [name |-> name, already_found |-> Contains(table, name),
                          current_param |-> 1]
        /\ locals' = {} /\ phase' = "params" /\ compiler_result' = compiler_result
    BY <1>7 DEF Func, MarkDefined
  <2>2. definition' \in [name : Keys, already_found : BOOLEAN, current_param : Nat]
          /\ definition'.name = name
    BY <2>1 DEF Contains
  <2> HIDE DEF data
  <2>3. /\ table' \in Tables /\ WellFormed(table')
        /\ Members(table') = Members(table) \union {name}
    BY <1>1, <1>3, <2>1, AddThenWrite
  <2>4. TypeOK' BY <1>5, <2>1, <2>2, <2>3 DEF Inv, TypeOK, Phases
  <2>5. NamesKnown' BY <1>4, <1>5, <2>2, <2>3 DEF Inv, NamesKnown
  <2> QED BY <2>1, <2>3, <2>4, <2>5, ReadingStep
<1> QED BY <1>6, <1>7

(* A new or a corrected parameter. *)
LEMMA ParamKeepsInv ==
  ASSUME Inv, NEW id \in LocalNames, NEW type \in Types, Param(id, type)
  PROVE  Inv'
<1> DEFINE name == definition.name
           data == DataOf(table, name)
           appended == [data EXCEPT !.params = @ \o <<type>>]
           corrected == [data EXCEPT !.params[definition.current_param] = type]
<1>1. table \in Tables /\ WellFormed(table) BY DEF Inv, TypeOK, TableWellFormed
<1>2. phase = "params" /\ semantic_enabled BY DEF Param, At
<1>3. name \in Members(table) BY <1>2 DEF Inv, NamesKnown
<1>4. name \in Keys /\ Contains(table, name) /\ data \in FunctionData BY <1>1, <1>3, MemberData
<1>5. data.params \in Seq(DataTypes) /\ type \in DataTypes BY <1>4 DEF FunctionData, DataTypes
<1>6. appended \in FunctionData BY <1>4, <1>5 DEF FunctionData
<1>7. corrected \in FunctionData
  <2>1. [data.params EXCEPT ![definition.current_param] = type] \in Seq(DataTypes)
    BY <1>5, SeqUpdate
  <2> QED BY <1>4, <2>1 DEF FunctionData
<1>8. \/ /\ table' \in {WithData(table, name, appended), WithData(table, name, corrected)}
         /\ definition' = [definition EXCEPT !.current_param = @ + 1]
         /\ AddLocal(id)
      \/ table' = table /\ Fail("WRONG_PARAMETER") /\ UNCHANGED <<definition, locals>>
  BY DEF Param, symtable_add_params
<1>9. definition' \in [name : Keys, already_found : BOOLEAN, current_param : Nat]
        /\ definition'.name = name
  BY <1>8 DEF Inv, TypeOK
<1>10. locals' \subseteq LocalNames /\ compiler_result' \in Results
  BY <1>8 DEF Inv, TypeOK, AddLocal, Fail, Results
<1>11. declared' \in [Keys -> Seq(Types)] BY <1>4 DEF Param, Inv, TypeOK
<1> HIDE DEF appended, corrected
<1>12. table' \in Tables /\ WellFormed(table') /\ Members(table') = Members(table)
  <2>1. CASE table' = table BY <1>1, <2>1
  <2>2. CASE table' = WithData(table, name, appended)
    BY <1>1, <1>4, <1>6, <2>2, WriteKeepsWellFormed
  <2>3. CASE table' = WithData(table, name, corrected)
    BY <1>1, <1>4, <1>7, <2>3, WriteKeepsWellFormed
  <2> QED BY <1>8, <2>1, <2>2, <2>3
<1>13. UNCHANGED <<phase, calls, inferred, cursor>> BY DEF Param
<1>14. TypeOK' BY <1>9, <1>10, <1>11, <1>12, <1>13 DEF Inv, TypeOK
<1>15. NamesKnown' BY <1>2, <1>3, <1>9, <1>12, <1>13 DEF Inv, NamesKnown
<1> QED BY <1>2, <1>12, <1>13, <1>14, <1>15, ReadingStep

(* A return value. *)
LEMMA RetTypeKeepsInv == ASSUME Inv, RetType PROVE Inv'
<1> DEFINE name == definition.name
           data == DataOf(table, name)
           returning == [data EXCEPT !.ret_types = @ + 1]
<1>1. table \in Tables /\ WellFormed(table) BY DEF Inv, TypeOK, TableWellFormed
<1>2. phase = "ret_type" /\ semantic_enabled BY DEF RetType, At
<1>3. name \in Members(table) BY <1>2 DEF Inv, NamesKnown
<1>4. name \in Keys /\ Contains(table, name) /\ data \in FunctionData BY <1>1, <1>3, MemberData
<1>5. returning \in FunctionData BY <1>4 DEF FunctionData
<1>6. table' = WithData(table, name, returning) BY DEF RetType, symtable_add_ret_type
<1>7. locals' \subseteq LocalNames /\ compiler_result' \in Results
  BY DEF Inv, TypeOK, RetType, AddLocal, Results
<1>8. UNCHANGED <<phase, definition, calls, inferred, cursor, declared>> BY DEF RetType
<1> HIDE DEF returning
<1>9. table' \in Tables /\ WellFormed(table') /\ Members(table') = Members(table)
  BY <1>1, <1>4, <1>5, <1>6, WriteKeepsWellFormed
<1>10. TypeOK' BY <1>7, <1>8, <1>9 DEF Inv, TypeOK
<1>11. NamesKnown' BY <1>2, <1>3, <1>8, <1>9 DEF Inv, NamesKnown
<1> QED BY <1>2, <1>8, <1>9, <1>10, <1>11, ReadingStep

(* The types of the arguments, as the parser and as the optimiser see them. *)
LEMMA ArgumentTypes ==
  ASSUME NEW args \in Seq(Arguments)
  PROVE  /\ Parsed(args) \in Seq(DataTypes)
         /\ Actual(args) \in Seq(DataTypes)
         /\ \A known : [i \in DOMAIN args |->
                         IF i \in known THEN args[i].actual ELSE args[i].parsed] \in Seq(DataTypes)
<1>1. DOMAIN args = 1 .. Len(args) /\ Len(args) \in Nat OBVIOUS
<1>2. \A i \in 1 .. Len(args) : args[i].parsed \in DataTypes /\ args[i].actual \in DataTypes
  <2> SUFFICES ASSUME NEW i \in 1 .. Len(args)
               PROVE  args[i].parsed \in DataTypes /\ args[i].actual \in DataTypes
    OBVIOUS
  <2>1. args[i] \in Arguments BY SeqElement
  <2> QED BY <2>1 DEF Arguments, DataTypes
<1>3. /\ Parsed(args) \in [1 .. Len(args) -> DataTypes]
      /\ Actual(args) \in [1 .. Len(args) -> DataTypes]
  BY <1>1, <1>2 DEF Parsed, Actual
<1>4. ASSUME NEW known
      PROVE  [i \in DOMAIN args |-> IF i \in known THEN args[i].actual ELSE args[i].parsed]
               \in Seq(DataTypes)
  <2>1. [i \in DOMAIN args |-> IF i \in known THEN args[i].actual ELSE args[i].parsed]
          \in [1 .. Len(args) -> DataTypes]
    BY <1>1, <1>2
  <2> QED BY <1>1, <2>1
<1> QED BY <1>1, <1>3, <1>4

(* A call adds its function, unless it is there, and counts itself. *)
LEMMA CallKeepsInv ==
  ASSUME Inv, NEW name \in Keys, NEW args \in ArgumentLists, Call(name, args)
  PROVE  Inv'
<1> DEFINE t == IF Contains(table, name) THEN table ELSE Predict(table, name, args)
           added == symtable_add(table, name)
           counted == [DataOf(t, name) EXCEPT !.reference_counter = @ + 1]
           u == CountReference(t, name)
<1>1. table \in Tables /\ WellFormed(table) BY DEF Inv, TypeOK, TableWellFormed
<1>2. phase = "body" /\ semantic_enabled BY DEF Call, At
<1>3. UNCHANGED <<phase, definition, locals, inferred, cursor, declared>> BY DEF Call
<1>4. args \in Seq(Arguments)
  <2>1. PICK n \in 0 .. MaxParams : args \in [1 .. n -> Arguments] BY DEF ArgumentLists
  <2>2. n \in Nat BY <2>1
  <2> QED BY <2>1, <2>2
<1>5. calls' = Append(calls, [name |-> name, args |-> args]) BY DEF Call
<1>6. calls' \in Seq(Calls)
  <2>1. [name |-> name, args |-> args] \in Calls BY <1>4 DEF Calls
  <2> QED BY <1>5, <2>1 DEF Inv, TypeOK
<1>7. CASE table' = table /\ compiler_result' \in {"SEMANTIC_GENERAL", "WRONG_PARAMETER"}
  <2>1. TypeOK' BY <1>3, <1>6, <1>7 DEF Inv, TypeOK, Results
  <2>2. NamesKnown' BY <1>2, <1>3, <1>7 DEF Inv, NamesKnown, semantic_enabled
  <2> QED BY <1>1, <1>2, <1>3, <1>7, <2>1, <2>2, ReadingStep
<1>8. CASE \E known \in SUBSET DOMAIN args :
             Infer(u, name, [i \in DOMAIN args |->
                               IF i \in known THEN args[i].actual ELSE args[i].parsed])
  <2>1. t \in Tables /\ WellFormed(t) /\ Members(t) = Members(table) \union {name}
    <3>1. CASE Contains(table, name) BY <1>1, <3>1 DEF Members
    <3>2. CASE ~ Contains(table, name)
      <4> DEFINE data == [DataOf(added, name) EXCEPT !.params = @ \o Parsed(args)]
      <4>1. t = WithData(added, name, data) BY <3>2 DEF Predict, symtable_add_params
      <4>2. added \in Tables /\ WellFormed(added) /\ name \in Members(added)
        BY <1>1, AddKeepsWellFormed
      <4>3. DataOf(added, name) \in FunctionData BY <4>2, MemberData
      <4> HIDE DEF added
      <4>4. Parsed(args) \in Seq(DataTypes) BY <1>4, ArgumentTypes
      <4>5. data \in FunctionData
        <5>1. DataOf(added, name).params \in Seq(DataTypes) BY <4>3 DEF FunctionData
        <5>2. DataOf(added, name).params \o Parsed(args) \in Seq(DataTypes) BY <4>4, <5>1
        <5> QED BY <4>3, <5>2 DEF FunctionData
      <4> HIDE DEF data, t
      <4> QED BY <1>1, <4>1, <4>5, AddThenWrite DEF added
    <3> QED BY <3>1, <3>2
  <2> HIDE DEF t
  <2>2. name \in Members(t) /\ Contains(t, name) /\ DataOf(t, name) \in FunctionData
    BY <2>1, MemberData
  <2>3. counted \in FunctionData BY <2>2 DEF FunctionData
  <2>4. u = WithData(t, name, counted) BY DEF CountReference
  <2> HIDE DEF counted, u
  <2>5. u \in Tables /\ WellFormed(u) /\ Members(u) = Members(table) \union {name}
    BY <2>1, <2>2, <2>3, <2>4, WriteKeepsWellFormed
  <2>6. compiler_result \in Results BY DEF Inv, TypeOK
  <2>7. PICK types \in Seq(DataTypes) : Infer(u, name, types) BY <1>4, <1>8, ArgumentTypes
  <2>8. /\ table' \in Tables /\ WellFormed(table')
        /\ Members(table') = Members(table) \union {name}
        /\ compiler_result' \in Results
    BY <2>5, <2>6, <2>7, InferKeepsTable
  <2>9. TypeOK' BY <1>3, <1>6, <2>8 DEF Inv, TypeOK
  <2>10. calls \in Seq(Calls) BY DEF Inv, TypeOK
  <2>11. \A i \in DOMAIN calls' : calls'[i].name = name \/ (i \in DOMAIN calls /\ calls'[i] = calls[i])
    BY <1>5, <2>10
  <2>12. NamesKnown' BY <1>2, <1>3, <2>8, <2>11 DEF Inv, NamesKnown
  <2> QED BY <1>2, <1>3, <2>8, <2>9, <2>12, ReadingStep
<1> QED BY <1>7, <1>8 DEF Call, Fail

-----------------------------------------------------------------------------
(* A write of one function's data leaves the places of the items alone. *)
LEMMA WriteKeepsPlaces ==
  ASSUME NEW t \in Tables, WellFormed(t), NEW key \in Keys, Contains(t, key),
         NEW data \in FunctionData, NEW s \in Slots
  PROVE  DOMAIN WithData(t, key, data).arr[s] = DOMAIN t.arr[s]
BY WrittenData DEF DiffersInData

(* The end of the file sets the cursor on the first item; nothing has been *)
(* passed yet.                                                             *)
LEMMA EndOfFileKeepsInv == ASSUME Inv, EndOfFile PROVE Inv'
<1> DEFINE data == DataOf(table, main)
           entered == [data EXCEPT !.reference_counter = 1]
           first == symtable_get_first_item(table)
<1>1. table \in Tables /\ WellFormed(table) BY DEF Inv, TypeOK, TableWellFormed
<1>2. phase = "execution" /\ semantic_enabled BY DEF EndOfFile, At
<1>3. UNCHANGED <<definition, locals, calls, inferred, declared>> BY DEF EndOfFile
<1>4. CASE /\ UNCHANGED <<table, phase, cursor>>
           /\ compiler_result' \in {"UNDEFINED_OR_REDEFINED", "WRONG_PARAMETER"}
  <2>1. TypeOK' BY <1>3, <1>4 DEF Inv, TypeOK, Results
  <2>2. NamesKnown' BY <1>2, <1>3, <1>4 DEF Inv, NamesKnown
  <2> QED BY <1>1, <1>2, <1>4, <2>1, <2>2, ReadingStep
<1>5. CASE /\ IsDefined(table, main)
           /\ data.ret_types = 0 /\ data.params = << >>
           /\ table' = WithData(table, main, entered)
           /\ cursor' = first
           /\ phase' = "check_defined"
           /\ UNCHANGED compiler_result
  <2>1. main \in Members(table) /\ Contains(table, main) /\ main \in Keys
    BY <1>5, NamesAssumption DEF IsDefined, Members
  <2>2. data \in FunctionData BY <1>1, <2>1, MemberData
  <2>3. entered \in FunctionData BY <2>2 DEF FunctionData
  <2>4. entered.params = << >> /\ entered.ret_types = 0 BY <1>5, <2>2 DEF FunctionData
  <2> HIDE DEF entered, data
  <2>5. /\ table' \in Tables /\ WellFormed(table') /\ Members(table') = Members(table)
        /\ DataOf(table', main) = entered
    BY <1>1, <1>5, <2>1, <2>3, WriteKeepsWellFormed
  <2>6. \A s \in Slots : DOMAIN table'.arr[s] = DOMAIN table.arr[s]
    BY <1>1, <1>5, <2>1, <2>3, WriteKeepsPlaces
  <2>7. /\ first = NULL \/ IsPlace(table, first)
        /\ \A s \in Slots : \A i \in DOMAIN table.arr[s] : ~ IsBefore(<<s, i>>, first)
    BY <1>1, FirstItemIsFirst
  <2> HIDE DEF first
  <2>8. TypeOK'
    BY <1>3, <1>5, <2>5, <2>7 DEF Inv, TypeOK, Phases, IsPlace
  <2>9. NamesKnown' BY <1>2, <1>3, <1>5, <2>5 DEF Inv, NamesKnown
  <2>10. CursorAtItem'
    <3>1. CASE first = NULL BY <1>5, <3>1 DEF CursorAtItem
    <3>2. CASE IsPlace(table, first)
      <4>1. IsPlace(table', first) BY <2>6, <3>2 DEF IsPlace
      <4> QED BY <1>5, <4>1 DEF CursorAtItem
    <3> QED BY <2>7, <3>1, <3>2
  <2>11. MainTakesNothing' BY <2>1, <2>4, <2>5 DEF MainTakesNothing
  <2>12. LoopPassesOnlyDefined' BY <1>5, <2>6, <2>7 DEF LoopPassesOnlyDefined
  <2>13. AllDefined' BY <1>5 DEF AllDefined
  <2> QED BY <2>5, <2>8, <2>9, <2>10, <2>11, <2>12, <2>13 DEF Inv, TableWellFormed
<1> QED BY <1>4, <1>5 DEF EndOfFile, Fail

(* One turn of the loop passes one item, and that item is defined. *)
LEMMA CheckFunctionKeepsInv == ASSUME Inv, CheckFunction PROVE Inv'
<1> DEFINE next == symtable_get_next_item(table, cursor)
<1>1. table \in Tables /\ WellFormed(table) BY DEF Inv, TypeOK, TableWellFormed
<1>2. phase = "check_defined" /\ semantic_enabled BY DEF CheckFunction, At
<1>3. UNCHANGED <<table, phase, definition, locals, calls, inferred, declared>>
  BY DEF CheckFunction
<1>4. MainTakesNothing' /\ AllDefined' /\ TableWellFormed'
  BY <1>1, <1>2, <1>3 DEF Inv, MainTakesNothing, AllDefined, TableWellFormed
<1>5. NamesKnown' BY <1>2, <1>3 DEF Inv, NamesKnown
<1>6. CASE compiler_result' = "UNDEFINED_OR_REDEFINED" /\ cursor' = cursor
  <2>1. TypeOK' BY <1>3, <1>6 DEF Inv, TypeOK, Results
  <2>2. CursorAtItem' BY <1>3, <1>6 DEF Inv, CursorAtItem
  <2>3. LoopPassesOnlyDefined' BY <1>6 DEF LoopPassesOnlyDefined, At, semantic_enabled
  <2> QED BY <1>4, <1>5, <2>1, <2>2, <2>3 DEF Inv
<1>7. CASE ItemAt(table, cursor).data.defined /\ cursor' = next /\ UNCHANGED compiler_result
  <2>1. IsPlace(table, cursor) BY <1>2 DEF Inv, CursorAtItem, CheckFunction
  <2>2. /\ next = NULL \/ IsPlace(table, next)
        /\ \A s \in Slots : \A i \in DOMAIN table.arr[s] :
             IsBefore(<<s, i>>, next) => <<s, i>> = cursor \/ IsBefore(<<s, i>>, cursor)
    BY <1>1, <2>1, NextItemPassesOne DEF WellFormed
  <2> HIDE DEF next
  <2>3. TypeOK' BY <1>3, <1>7, <2>2 DEF Inv, TypeOK, IsPlace
  <2>4. CursorAtItem'
    <3>1. CASE next = NULL BY <1>7, <3>1 DEF CursorAtItem
    <3>2. CASE IsPlace(table, next) BY <1>3, <1>7, <3>2 DEF CursorAtItem
    <3> QED BY <2>2, <3>1, <3>2
  <2>5. LoopPassesOnlyDefined'
    <3> SUFFICES ASSUME NEW s \in Slots, NEW i \in DOMAIN table.arr[s], IsBefore(<<s, i>>, next)
                 PROVE  table.arr[s][i].data.defined
      BY <1>3, <1>7 DEF LoopPassesOnlyDefined
    <3>1. CASE <<s, i>> = cursor BY <1>7, <3>1 DEF ItemAt
    <3>2. CASE IsBefore(<<s, i>>, cursor) BY <1>2, <3>2 DEF Inv, LoopPassesOnlyDefined, At
    <3> QED BY <2>2, <3>1, <3>2
  <2> QED BY <1>4, <1>5, <2>3, <2>4, <2>5 DEF Inv
<1> QED BY <1>6, <1>7 DEF CheckFunction, Fail

(* When the loop has ended it has passed every item. *)
LEMMA AllCheckedKeepsInv == ASSUME Inv, AllChecked PROVE Inv'
<1>1. table \in Tables /\ WellFormed(table) BY DEF Inv, TypeOK, TableWellFormed
<1>2. phase = "check_defined" /\ semantic_enabled /\ cursor = NULL BY DEF AllChecked, At
<1>3. phase' = "inference" BY DEF AllChecked
<1>4. UNCHANGED <<table, definition, locals, calls, inferred, cursor, compiler_result, declared>>
  BY DEF AllChecked
<1>5. \A s \in Slots : \A i \in DOMAIN table.arr[s] : table.arr[s][i].data.defined
  BY <1>2, NullIsLast DEF Inv, LoopPassesOnlyDefined, At
<1>6. AllDefined'
  <2> SUFFICES ASSUME NEW name \in Members(table) PROVE DataOf(table, name).defined
    BY <1>4 DEF AllDefined
  <2>1. name \in Keys /\ Contains(table, name) BY DEF Members
  <2>2. symtable_find(table, name) \in DOMAIN table.arr[Slot(name)]
    BY <1>1, <2>1, FindStopsAtKey DEF WellFormed
  <2> QED BY <1>5, <2>1, <2>2, SlotType DEF DataOf
<1>7. TypeOK' BY <1>3, <1>4 DEF Inv, TypeOK, Phases
<1>8. NamesKnown' BY <1>2, <1>3, <1>4 DEF Inv, NamesKnown
<1>9. MainTakesNothing' BY <1>2, <1>4 DEF Inv, MainTakesNothing
<1>10. TableWellFormed' /\ CursorAtItem' /\ LoopPassesOnlyDefined'
  BY <1>1, <1>3, <1>4 DEF TableWellFormed, CursorAtItem, LoopPassesOnlyDefined, At
<1> QED BY <1>6, <1>7, <1>8, <1>9, <1>10 DEF Inv

(* The optimiser fills in types but defines and removes nothing. *)
LEMMA InferCallKeepsInv == ASSUME Inv, InferCall PROVE Inv'
<1> DEFINE call == calls[inferred + 1]
           types == Actual(call.args)
<1>1. table \in Tables /\ WellFormed(table) /\ compiler_result \in Results
  BY DEF Inv, TypeOK, TableWellFormed
<1>2. phase = "inference" /\ semantic_enabled BY DEF InferCall, At
<1>3. UNCHANGED <<phase, definition, locals, calls, cursor, declared>> /\ inferred' = inferred + 1
  BY DEF InferCall
<1>4. calls \in Seq(Calls) /\ inferred + 1 \in 1 .. Len(calls) BY DEF Inv, TypeOK, InferCall
<1>5. call.name \in Members(table) BY <1>2, <1>4 DEF Inv, NamesKnown
<1>6. call \in Calls BY <1>4, SeqElement
<1>7. call.args \in Seq(Arguments) BY <1>6 DEF Calls
<1>8. types \in Seq(DataTypes) BY <1>7, ArgumentTypes
<1>9. Infer(table, call.name, types) BY DEF InferCall
<1> HIDE DEF types, call
<1>10. /\ table' \in Tables /\ WellFormed(table') /\ Members(table') = Members(table)
       /\ compiler_result' \in Results
       /\ \A key \in Members(table) :
            /\ DataOf(table', key).defined = DataOf(table, key).defined
            /\ DataOf(table', key).ret_types = DataOf(table, key).ret_types
            /\ DataOf(table, key).params = << >> => DataOf(table', key).params = << >>
  BY <1>1, <1>5, <1>8, <1>9, InferKeepsTable
<1>11. TypeOK' BY <1>3, <1>10 DEF Inv, TypeOK
<1>12. NamesKnown' BY <1>2, <1>3, <1>10 DEF Inv, NamesKnown
<1>13. AllDefined' /\ MainTakesNothing'
  BY <1>2, <1>3, <1>10 DEF Inv, AllDefined, MainTakesNothing
<1>14. TableWellFormed' /\ CursorAtItem' /\ LoopPassesOnlyDefined'
  BY <1>2, <1>3, <1>10 DEF TableWellFormed, CursorAtItem, LoopPassesOnlyDefined, At
<1> QED BY <1>11, <1>12, <1>13, <1>14 DEF Inv

-----------------------------------------------------------------------------
LEMMA NextKeepsInv == Inv /\ [Next]_vars => Inv'
<1> SUFFICES ASSUME Inv, [Next]_vars PROVE Inv' OBVIOUS
<1>1. CASE PrepareBuiltin BY <1>1, PrepareBuiltinKeepsInv
<1>2. CASE \E name \in Keys : Func(name) BY <1>2, FuncKeepsInv
<1>3. CASE \E id \in LocalNames, type \in Types : Param(id, type) BY <1>3, ParamKeepsInv
<1>4. CASE RetType BY <1>4, RetTypeKeepsInv
<1>5. CASE \E name \in Keys, args \in ArgumentLists : Call(name, args) BY <1>5, CallKeepsInv
<1>6. CASE EndOfFile BY <1>6, EndOfFileKeepsInv
<1>7. CASE CheckFunction BY <1>7, CheckFunctionKeepsInv
<1>8. CASE AllChecked BY <1>8, AllCheckedKeepsInv
<1>9. CASE InferCall BY <1>9, InferCallKeepsInv
<1>10. CASE \/ PackageMain \/ EndOfParams \/ OpenBody \/ CloseBody \/ EndOfPass
            \/ UNCHANGED vars
  BY <1>10, MovesKeepInv
<1> QED
  BY <1>1, <1>2, <1>3, <1>4, <1>5, <1>6, <1>7, <1>8, <1>9, <1>10 DEF Next

LEMMA SpecInv == Spec => []Inv
BY InitInv, NextKeepsInv, PTL DEF Spec

(* Every variable keeps its type: the list of a function's parameters      *)
(* stays a list of types, through prediction, correction and inference.    *)
THEOREM TypeCorrect == Spec => []TypeOK
<1>1. Inv => TypeOK BY DEF Inv
<1> QED BY <1>1, SpecInv, PTL

(* Whatever the hash function and the size of the table, the function      *)
(* table of symtable.c has every name once, in the chain it hashes to, and *)
(* its counter is right.                                                   *)
THEOREM TableStaysWellFormed == Spec => []TableWellFormed
<1>1. Inv => TableWellFormed BY DEF Inv
<1> QED BY <1>1, SpecInv, PTL

(* The loop of program() passes no function that is not defined. *)
THEOREM LoopIsRight == Spec => []LoopPassesOnlyDefined
<1>1. Inv => LoopPassesOnlyDefined BY DEF Inv
<1> QED BY <1>1, SpecInv, PTL

(* A program that reaches the optimiser has all its functions defined, the *)
(* ones that no reachable code calls included, and a main that takes and   *)
(* returns nothing.                                                        *)
THEOREM OnlyDefinedFunctionsPass == Spec => []EveryFunctionDefined
<1>1. Inv => EveryFunctionDefined
  BY DEF Inv, AllDefined, MainTakesNothing, EveryFunctionDefined
<1> QED BY <1>1, SpecInv, PTL

-----------------------------------------------------------------------------
(***************************************************************************)
(* What one step does to the table: nothing, or it writes one function,    *)
(* and then in a way that the promises allow.  From it follow that the     *)
(* table implements FunctionMap under the mapping of IsAMap, and that the  *)
(* parameters of a function are left alone once its definition was read.   *)
(***************************************************************************)

SamePrototype(before, after) ==
  /\ Len(after) = Len(before)
  /\ \A i \in DOMAIN before : after[i] \in DataTypes /\ before[i] \in {CF_UNKNOWN, after[i]}

WritesOnly(name) ==
  /\ Members(table') = Members(table) \union {name}
  /\ \A other \in Members(table) : other # name => DataOf(table', other) = DataOf(table, other)

AllowedWrite(name) ==
  /\ WritesOnly(name)
  /\ name \in Members(table) =>
       /\ DataOf(table, name).defined => DataOf(table', name).defined
       /\ Complete(name) => SamePrototype(DataOf(table, name).params, DataOf(table', name).params)

-----------------------------------------------------------------------------
LEMMA SameIsSamePrototype ==
  ASSUME NEW params \in Seq(DataTypes)
  PROVE  SamePrototype(params, params)
BY DEF SamePrototype

(* Only a parameter of unknown type is ever filled in: the comparison      *)
(* stopped there and nowhere before.                                       *)
LEMMA InferredPrototype ==
  ASSUME NEW params \in Seq(DataTypes), NEW types \in Seq(DataTypes)
  PROVE  SamePrototype(params, WithInferred(params, types))
<1> DEFINE filled == WithInferred(params, types)
<1>1. DOMAIN params = 1 .. Len(params) /\ Len(params) \in Nat OBVIOUS
<1>2. filled \in Seq(DataTypes) BY WithInferredType
<1>3. DOMAIN filled = DOMAIN params BY DEF WithInferred
<1>4. Len(filled) = Len(params)
  <2> HIDE DEF filled
  <2>1. DOMAIN filled = 1 .. Len(filled) /\ Len(filled) \in Nat BY <1>2
  <2> QED BY <1>1, <1>3, <2>1
<1>5. ASSUME NEW i \in DOMAIN params
      PROVE  filled[i] \in DataTypes /\ params[i] \in {CF_UNKNOWN, filled[i]}
  <2>1. filled[i] \in DataTypes
    <3> HIDE DEF filled
    <3> QED BY <1>2, <1>3
  <2>2. CASE /\ i \in DOMAIN types \ Compared(params, types)
             /\ i - 1 \in Compared(params, types) \union {0}
    <3>1. PICK j \in 1 .. i : j \in DOMAIN params /\ params[j] = CF_UNKNOWN
      BY <2>2 DEF Compared
    <3>2. i \in Nat /\ j \in Nat /\ i >= 1 /\ j >= 1 /\ j <= i BY <1>1, <3>1
    <3>3. j = i
      <4> SUFFICES ASSUME j # i PROVE FALSE OBVIOUS
      <4>1. j \in 1 .. i - 1 BY <3>2
      <4>2. i - 1 \in Compared(params, types) BY <2>2, <4>1
      <4> QED BY <3>1, <4>1, <4>2 DEF Compared
    <3> QED BY <2>1, <3>1, <3>3
  <2>3. CASE ~ (/\ i \in DOMAIN types \ Compared(params, types)
                /\ i - 1 \in Compared(params, types) \union {0})
    <3>1. filled[i] = params[i] BY <2>3 DEF WithInferred
    <3> QED BY <2>1, <3>1
  <2> QED BY <2>2, <2>3
<1> QED BY <1>4, <1>5 DEF SamePrototype

(* The check of a call, as a write of the function it calls. *)
LEMMA InferWrites ==
  ASSUME NEW t \in Tables, WellFormed(t), NEW name \in Members(t),
         NEW types \in Seq(DataTypes), Infer(t, name, types)
  PROVE  SamePrototype(DataOf(t, name).params, DataOf(table', name).params)
<1> DEFINE data == DataOf(t, name)
           filled == [data EXCEPT !.params = WithInferred(data.params, types)]
<1>1. name \in Keys /\ Contains(t, name) /\ data \in FunctionData BY MemberData
<1>2. data.params \in Seq(DataTypes) BY <1>1 DEF FunctionData
<1>3. filled \in FunctionData BY <1>1, <1>2, WithInferredType DEF FunctionData
<1>4. table' = t \/ table' = WithData(t, name, filled) BY DEF Infer
<1>5. CASE table' = t BY <1>2, <1>5, SameIsSamePrototype
<1>6. CASE table' = WithData(t, name, filled)
  <2>1. filled.params = WithInferred(data.params, types) BY <1>1 DEF FunctionData
  <2> HIDE DEF filled
  <2>2. DataOf(table', name) = filled BY <1>1, <1>3, <1>6, WriteKeepsWellFormed
  <2> QED BY <1>2, <2>1, <2>2, InferredPrototype
<1> QED BY <1>4, <1>5, <1>6

(* Adding a key, if it is not there, and writing its data, as a write.     *)
LEMMA AddThenWriteData ==
  ASSUME NEW t \in Tables, WellFormed(t), NEW key \in Keys, NEW data \in FunctionData
  PROVE  LET u == WithData(symtable_add(t, key), key, data)
         IN  /\ DataOf(u, key) = data
             /\ \A other \in Members(t) : other # key => DataOf(u, other) = DataOf(t, other)
<1> DEFINE added == symtable_add(t, key)
<1>1. added \in Tables /\ WellFormed(added) /\ Members(added) = Members(t) \union {key}
  BY AddKeepsWellFormed
<1>2. \A other \in Members(t) : DataOf(added, other) = DataOf(t, other) BY AddedData
<1> HIDE DEF added
<1>3. Contains(added, key) BY <1>1 DEF Members
<1>4. /\ DataOf(WithData(added, key, data), key) = data
      /\ \A other \in Members(added) :
           other # key => DataOf(WithData(added, key, data), other) = DataOf(added, other)
  BY <1>1, <1>3, WriteKeepsWellFormed
<1> QED BY <1>1, <1>2, <1>4 DEF added

-----------------------------------------------------------------------------
(* What a step may write: the function that is being defined while it is   *)
(* being defined, or one whose prototype the write leaves alone.           *)
LEMMA PrepareBuiltinWrites ==
  ASSUME Inv, PrepareBuiltin, table' # table
  PROVE  \E name \in Keys : AllowedWrite(name)
<1> DEFINE builtin == Builtins[table.size + 1]
           data == [NewFunction EXCEPT !.defined = TRUE, !.params = builtin.params,
                                       !.ret_types = builtin.ret_types]
<1>1. table \in Tables /\ WellFormed(table) BY DEF Inv, TypeOK, TableWellFormed
<1>2. builtin \in [name : Keys, params : Seq(Types), ret_types : Nat]
  <2>1. table.size \in Nat BY <1>1 DEF Tables
  <2>2. table.size + 1 \in 1 .. Len(Builtins) BY <2>1, BuiltinsAssumption DEF PrepareBuiltin
  <2> QED BY <2>2, BuiltinsAssumption, SeqElement
<1>3. builtin.params \in Seq(DataTypes) /\ builtin.name \in Keys BY <1>2 DEF DataTypes
<1>4. data \in FunctionData BY <1>2, <1>3 DEF FunctionData, NewFunction
<1>5. /\ table' = WithData(symtable_add(table, builtin.name), builtin.name, data)
      /\ ~ Contains(table, builtin.name)
  BY DEF PrepareBuiltin, Declare
<1> HIDE DEF builtin, data
<1>6. WritesOnly(builtin.name)
  BY <1>1, <1>3, <1>4, <1>5, AddThenWrite, AddThenWriteData DEF WritesOnly
<1>7. builtin.name \notin Members(table) BY <1>5 DEF Members
<1> QED BY <1>3, <1>6, <1>7 DEF AllowedWrite

LEMMA FuncWrites ==
  ASSUME Inv, NEW name \in Keys, Func(name), table' # table
  PROVE  AllowedWrite(name)
<1> DEFINE added == symtable_add(table, name)
           data == [DataOf(added, name) EXCEPT !.defined = TRUE]
<1>1. table \in Tables /\ WellFormed(table) BY DEF Inv, TypeOK, TableWellFormed
<1>2. added \in Tables /\ WellFormed(added) /\ name \in Members(added)
  BY <1>1, AddKeepsWellFormed
<1>3. data \in FunctionData /\ data.defined
  <2> HIDE DEF added
  <2> QED BY <1>2, MemberData DEF FunctionData
<1>4. table' = WithData(symtable_add(table, name), name, data) /\ ~ IsDefined(table, name)
  BY DEF Func, MarkDefined
<1> HIDE DEF data
<1>5. WritesOnly(name) /\ DataOf(table', name) = data
  BY <1>1, <1>3, <1>4, AddThenWrite, AddThenWriteData DEF WritesOnly
<1>6. ~ Complete(name) BY <1>4 DEF Complete
<1> QED BY <1>3, <1>5, <1>6 DEF AllowedWrite

(* A write of a function that is there, keeping whether it is defined. *)
LEMMA WriteOfMember ==
  ASSUME table \in Tables, WellFormed(table), NEW name \in Members(table),
         NEW data \in FunctionData, table' = WithData(table, name, data),
         DataOf(table, name).defined => data.defined,
         Complete(name) => SamePrototype(DataOf(table, name).params, data.params)
  PROVE  AllowedWrite(name)
<1>1. name \in Keys /\ Contains(table, name) BY DEF Members
<1>2. /\ Members(table') = Members(table)
      /\ DataOf(table', name) = data
      /\ \A other \in Members(table) : other # name => DataOf(table', other) = DataOf(table, other)
  BY <1>1, WriteKeepsWellFormed
<1> QED BY <1>2 DEF AllowedWrite, WritesOnly

LEMMA ParamWrites ==
  ASSUME Inv, NEW id \in LocalNames, NEW type \in Types, Param(id, type), table' # table
  PROVE  AllowedWrite(definition.name)
<1> DEFINE name == definition.name
           data == DataOf(table, name)
           appended == [data EXCEPT !.params = @ \o <<type>>]
           corrected == [data EXCEPT !.params[definition.current_param] = type]
<1>1. table \in Tables /\ WellFormed(table) BY DEF Inv, TypeOK, TableWellFormed
<1>2. phase = "params" BY DEF Param, At
<1>3. name \in Members(table) BY <1>2 DEF Inv, NamesKnown
<1>4. data \in FunctionData BY <1>1, <1>3, MemberData
<1>5. data.params \in Seq(DataTypes) /\ type \in DataTypes BY <1>4 DEF FunctionData, DataTypes
<1>6. appended \in FunctionData /\ appended.defined = data.defined
  BY <1>4, <1>5 DEF FunctionData
<1>7. corrected \in FunctionData /\ corrected.defined = data.defined
  <2>1. [data.params EXCEPT ![definition.current_param] = type] \in Seq(DataTypes)
    BY <1>5, SeqUpdate
  <2> QED BY <1>4, <2>1 DEF FunctionData
<1>8. table' \in {WithData(table, name, appended), WithData(table, name, corrected)}
  BY DEF Param, symtable_add_params
<1>9. ~ Complete(name) BY <1>2 DEF Complete
<1> HIDE DEF appended, corrected
<1>10. CASE table' = WithData(table, name, appended)
  BY <1>1, <1>3, <1>6, <1>9, <1>10, WriteOfMember
<1>11. CASE table' = WithData(table, name, corrected)
  BY <1>1, <1>3, <1>7, <1>9, <1>11, WriteOfMember
<1> QED BY <1>8, <1>10, <1>11

LEMMA RetTypeWrites == ASSUME Inv, RetType PROVE AllowedWrite(definition.name)
<1> DEFINE name == definition.name
           data == DataOf(table, name)
           returning == [data EXCEPT !.ret_types = @ + 1]
<1>1. table \in Tables /\ WellFormed(table) BY DEF Inv, TypeOK, TableWellFormed
<1>2. phase = "ret_type" BY DEF RetType, At
<1>3. name \in Members(table) BY <1>2 DEF Inv, NamesKnown
<1>4. data \in FunctionData BY <1>1, <1>3, MemberData
<1>5. returning \in FunctionData /\ returning.defined = data.defined BY <1>4 DEF FunctionData
<1>6. table' = WithData(table, name, returning) BY DEF RetType, symtable_add_ret_type
<1>7. ~ Complete(name) BY <1>2 DEF Complete
<1> HIDE DEF returning
<1> QED BY <1>1, <1>3, <1>5, <1>6, <1>7, WriteOfMember

LEMMA EndOfFileWrites ==
  ASSUME Inv, EndOfFile, table' # table
  PROVE  main \in Members(table) /\ AllowedWrite(main)
<1> DEFINE data == DataOf(table, main)
           entered == [data EXCEPT !.reference_counter = 1]
<1>1. table \in Tables /\ WellFormed(table) BY DEF Inv, TypeOK, TableWellFormed
<1>2. IsDefined(table, main) /\ table' = WithData(table, main, entered) BY DEF EndOfFile
<1>3. main \in Members(table) BY <1>2, NamesAssumption DEF IsDefined, Members
<1>4. data \in FunctionData BY <1>1, <1>3, MemberData
<1>5. data.params \in Seq(DataTypes) BY <1>4 DEF FunctionData
<1>6. /\ entered \in FunctionData
      /\ entered.defined = data.defined
      /\ entered.params = data.params
  BY <1>4 DEF FunctionData
<1>7. SamePrototype(data.params, entered.params) BY <1>5, <1>6, SameIsSamePrototype
<1> HIDE DEF entered
<1> QED BY <1>1, <1>2, <1>3, <1>6, <1>7, WriteOfMember

(* A call of an unknown function adds it with the parameters of the call. *)
LEMMA PredictedFunction ==
  ASSUME NEW t \in Tables, WellFormed(t), NEW name \in Keys, ~ Contains(t, name),
         NEW args \in Seq(Arguments)
  PROVE  LET u == Predict(t, name, args)
         IN  /\ u \in Tables /\ WellFormed(u) /\ Members(u) = Members(t) \union {name}
             /\ Len(DataOf(u, name).params) = Len(args)
             /\ \A other \in Members(t) : other # name => DataOf(u, other) = DataOf(t, other)
<1> DEFINE added == symtable_add(t, name)
           data == [DataOf(added, name) EXCEPT !.params = @ \o Parsed(args)]
           u == Predict(t, name, args)
<1>1. u = WithData(added, name, data) BY DEF Predict, symtable_add_params
<1>2. DataOf(added, name) = NewFunction BY AddedData
<1>3. Parsed(args) \in Seq(DataTypes) /\ DOMAIN Parsed(args) = DOMAIN args
  BY ArgumentTypes DEF Parsed
<1>4. Len(Parsed(args)) = Len(args)
  <2> DEFINE parsed == Parsed(args)
  <2>1. parsed \in Seq(DataTypes) /\ DOMAIN parsed = DOMAIN args BY <1>3
  <2> HIDE DEF parsed
  <2>2. Len(parsed) = Len(args) BY <2>1
  <2> QED BY <2>2 DEF parsed
<1> HIDE DEF added, u
<1>5. data = [NewFunction EXCEPT !.params = @ \o Parsed(args)] BY <1>2
<1>6. data.params = << >> \o Parsed(args) BY <1>5 DEF NewFunction
<1>7. << >> \o Parsed(args) \in Seq(DataTypes) /\ Len(<< >> \o Parsed(args)) = Len(args)
  BY <1>3, <1>4
<1>8. data \in FunctionData
  BY <1>5, <1>6, <1>7, NewFunctionType DEF FunctionData
<1> HIDE DEF data
<1>9. DataOf(u, name) = data
      /\ \A other \in Members(t) : other # name => DataOf(u, other) = DataOf(t, other)
  BY <1>1, <1>8, AddThenWriteData DEF added
<1>10. u \in Tables /\ WellFormed(u) /\ Members(u) = Members(t) \union {name}
  BY <1>1, <1>8, AddThenWrite DEF added
<1> QED BY <1>6, <1>7, <1>9, <1>10 DEF u

LEMMA CallWrites ==
  ASSUME Inv, NEW name \in Keys, NEW args \in ArgumentLists, Call(name, args), table' # table
  PROVE  /\ AllowedWrite(name)
         /\ IF name \in Members(table)
            THEN SamePrototype(DataOf(table, name).params, DataOf(table', name).params)
            ELSE Len(DataOf(table', name).params) = Len(args)
<1> DEFINE t == IF Contains(table, name) THEN table ELSE Predict(table, name, args)
           counted == [DataOf(t, name) EXCEPT !.reference_counter = @ + 1]
           u == CountReference(t, name)
<1>1. table \in Tables /\ WellFormed(table) BY DEF Inv, TypeOK, TableWellFormed
<1>2. args \in Seq(Arguments)
  <2>1. PICK n \in 0 .. MaxParams : args \in [1 .. n -> Arguments] BY DEF ArgumentLists
  <2>2. n \in Nat BY <2>1
  <2> QED BY <2>1, <2>2
<1>3. PICK types \in Seq(DataTypes) : Infer(u, name, types)
  <2>1. PICK known \in SUBSET DOMAIN args :
          Infer(u, name, [i \in DOMAIN args |->
                            IF i \in known THEN args[i].actual ELSE args[i].parsed])
    BY DEF Call
  <2> HIDE DEF u
  <2> QED BY <1>2, <2>1, ArgumentTypes
<1>4. /\ t \in Tables /\ WellFormed(t)
      /\ Members(t) = Members(table) \union {name}
      /\ \A other \in Members(table) : other # name => DataOf(t, other) = DataOf(table, other)
  <2>1. CASE Contains(table, name) BY <1>1, <2>1 DEF Members
  <2>2. CASE ~ Contains(table, name) BY <1>1, <1>2, <2>2, PredictedFunction
  <2> QED BY <2>1, <2>2
<1>5. /\ name \in Members(table) => t = table
      /\ name \notin Members(table) => Len(DataOf(t, name).params) = Len(args)
  BY <1>1, <1>2, PredictedFunction DEF Members
<1> HIDE DEF t
<1>6. name \in Members(t) /\ Contains(t, name) /\ DataOf(t, name) \in FunctionData
  BY <1>1, <1>4, MemberData
<1>7. /\ counted \in FunctionData
      /\ counted.defined = DataOf(t, name).defined
      /\ counted.params = DataOf(t, name).params
  BY <1>6 DEF FunctionData
<1>8. u = WithData(t, name, counted) BY DEF CountReference
<1> HIDE DEF counted, u
<1>9. /\ u \in Tables /\ WellFormed(u) /\ Members(u) = Members(t)
      /\ DataOf(u, name) = counted
      /\ \A other \in Members(t) : other # name => DataOf(u, other) = DataOf(t, other)
  BY <1>4, <1>6, <1>7, <1>8, WriteKeepsWellFormed
<1>10. compiler_result \in Results BY DEF Inv, TypeOK
<1>11. /\ Members(table') = Members(u)
       /\ \A key \in Members(u) :
            /\ DataOf(table', key).defined = DataOf(u, key).defined
            /\ key # name => DataOf(table', key) = DataOf(u, key)
       /\ SamePrototype(DataOf(u, name).params, DataOf(table', name).params)
  BY <1>3, <1>6, <1>9, <1>10, InferKeepsTable, InferWrites
<1>12. WritesOnly(name) BY <1>4, <1>9, <1>11 DEF WritesOnly
<1>13. name \in Members(table) =>
        SamePrototype(DataOf(table, name).params, DataOf(table', name).params)
  BY <1>5, <1>7, <1>9, <1>11
<1>14. name \notin Members(table) => Len(DataOf(table', name).params) = Len(args)
  BY <1>5, <1>7, <1>9, <1>11 DEF SamePrototype
<1> QED BY <1>5, <1>6, <1>7, <1>9, <1>11, <1>12, <1>13, <1>14 DEF AllowedWrite

LEMMA InferCallWrites ==
  ASSUME Inv, InferCall, table' # table
  PROVE  \E name \in Members(table) : AllowedWrite(name)
<1> DEFINE call == calls[inferred + 1]
           types == Actual(call.args)
<1>1. table \in Tables /\ WellFormed(table) /\ compiler_result \in Results
  BY DEF Inv, TypeOK, TableWellFormed
<1>2. semantic_enabled BY DEF InferCall, At
<1>3. calls \in Seq(Calls) /\ inferred + 1 \in 1 .. Len(calls) BY DEF Inv, TypeOK, InferCall
<1>4. call.name \in Members(table) BY <1>2, <1>3 DEF Inv, NamesKnown
<1>5. call \in Calls BY <1>3, SeqElement
<1>6. call.args \in Seq(Arguments) BY <1>5 DEF Calls
<1>7. types \in Seq(DataTypes) BY <1>6, ArgumentTypes
<1>8. Infer(table, call.name, types) BY DEF InferCall
<1> HIDE DEF types, call
<1>9. /\ Members(table') = Members(table)
      /\ \A key \in Members(table) :
           /\ DataOf(table', key).defined = DataOf(table, key).defined
           /\ key # call.name => DataOf(table', key) = DataOf(table, key)
      /\ SamePrototype(DataOf(table, call.name).params, DataOf(table', call.name).params)
  BY <1>1, <1>4, <1>7, <1>8, InferKeepsTable, InferWrites
<1> QED BY <1>4, <1>9 DEF AllowedWrite, WritesOnly

(* Every step that changes the table writes one function, as allowed, and  *)
(* after the end of the file one that is there.                            *)
LEMMA StepWrites ==
  ASSUME Inv, [Next]_vars, table' # table
  PROVE  \E name \in Keys :
           /\ AllowedWrite(name)
           /\ phase \in {"inference", "accepted"} => name \in Members(table)
<1>1. Members(table) \subseteq Keys BY DEF Members
<1>2. CASE PrepareBuiltin
  <2>1. phase = "builtins" BY <1>2 DEF PrepareBuiltin, At
  <2> QED BY <1>2, <2>1, PrepareBuiltinWrites
<1>3. CASE \E name \in Keys : Func(name)
  <2>1. phase = "execution" BY <1>3 DEF Func, At
  <2> QED BY <1>3, <2>1, FuncWrites
<1>4. CASE \E id \in LocalNames, type \in Types : Param(id, type)
  <2>1. phase = "params" BY <1>4 DEF Param, At
  <2>2. definition.name \in Keys BY DEF Inv, TypeOK
  <2> QED BY <1>4, <2>1, <2>2, ParamWrites
<1>5. CASE RetType
  <2>1. phase = "ret_type" BY <1>5 DEF RetType, At
  <2>2. definition.name \in Keys BY DEF Inv, TypeOK
  <2> QED BY <1>5, <2>1, <2>2, RetTypeWrites
<1>6. CASE \E name \in Keys, args \in ArgumentLists : Call(name, args)
  <2>1. phase = "body" BY <1>6 DEF Call, At
  <2> QED BY <1>6, <2>1, CallWrites
<1>7. CASE EndOfFile BY <1>1, <1>7, EndOfFileWrites
<1>8. CASE InferCall BY <1>1, <1>8, InferCallWrites
<1>9. CASE \/ PackageMain \/ EndOfParams \/ OpenBody \/ CloseBody
           \/ CheckFunction \/ AllChecked \/ EndOfPass \/ UNCHANGED vars
  BY <1>9 DEF PackageMain, EndOfParams, OpenBody, CloseBody, CheckFunction, AllChecked, EndOfPass,
     vars
<1> QED BY <1>2, <1>3, <1>4, <1>5, <1>6, <1>7, <1>8, <1>9 DEF Next

-----------------------------------------------------------------------------
(* Once its definition has been read, a function keeps the number of its   *)
(* parameters, and the optimiser replaces unknown types only: no later     *)
(* call and no other definition touches them.                              *)
THEOREM PrototypesStay == Spec => PrototypesAreFinal
<1> DEFINE Kept == \A name \in Members(table) : Complete(name) =>
                     SamePrototype(DataOf(table, name).params, DataOf(table', name).params)
<1>1. ASSUME Inv, [Next]_vars PROVE Kept
  <2> SUFFICES ASSUME NEW name \in Members(table), Complete(name)
               PROVE  SamePrototype(DataOf(table, name).params, DataOf(table', name).params)
    OBVIOUS
  <2>1. table \in Tables /\ WellFormed(table) BY <1>1 DEF Inv, TypeOK, TableWellFormed
  <2>2. DataOf(table, name) \in FunctionData BY <2>1, MemberData
  <2>3. DataOf(table, name).params \in Seq(DataTypes) BY <2>2 DEF FunctionData
  <2>4. SamePrototype(DataOf(table, name).params, DataOf(table, name).params)
    BY <2>3, SameIsSamePrototype
  <2>5. CASE table' = table BY <2>4, <2>5
  <2>6. CASE table' # table
    <3>1. PICK written \in Keys : AllowedWrite(written) BY <1>1, <2>6, StepWrites
    <3>2. CASE written = name BY <3>1, <3>2 DEF AllowedWrite
    <3>3. CASE written # name
      <4>1. DataOf(table', name) = DataOf(table, name) BY <3>1, <3>3 DEF AllowedWrite, WritesOnly
      <4> QED BY <2>4, <4>1
    <3> QED BY <3>2, <3>3
  <2> QED BY <2>5, <2>6
<1>2. Spec => [][Kept]_vars BY <1>1, SpecInv, PTL DEF Spec
<1>3. Kept => \A name \in Members(table) : Complete(name) =>
        LET before == DataOf(table, name).params
            after  == DataOf(table, name)'.params
        IN  /\ Len(after) = Len(before)
            /\ \A i \in DOMAIN before : after[i] \in DataTypes /\ before[i] \in {CF_UNKNOWN, after[i]}
  BY DEF SamePrototype
<1> QED BY <1>2, <1>3, PTL DEF PrototypesAreFinal

-----------------------------------------------------------------------------
Functions == [name \in Members(table) |-> DataOf(table, name)]

Verdict == IF phase \in {"inference", "accepted"} THEN "complete"
           ELSE IF phase = "check_defined" /\ ~semantic_enabled THEN "undefined"
           ELSE "reading"

(* An allowed write of the table is a write of the map. *)
LEMMA WriteOfMap ==
  ASSUME Inv, Inv', NEW name \in Keys, AllowedWrite(name), semantic_enabled, Verdict' = Verdict,
         phase \in {"inference", "accepted"} => name \in Members(table)
  PROVE  Map!Write(name)
<1>1. table' \in Tables /\ WellFormed(table') BY DEF Inv, TypeOK, TableWellFormed
<1>2. name \in Members(table') BY DEF AllowedWrite, WritesOnly
<1>3. DataOf(table', name) \in FunctionData BY <1>1, <1>2, MemberData
<1>4. DOMAIN Functions = Members(table) /\ DOMAIN Functions' = Members(table') BY DEF Functions
<1>5. /\ \A key \in Members(table) : Functions[key] = DataOf(table, key)
      /\ \A key \in Members(table') : Functions'[key] = DataOf(table', key)
  BY DEF Functions
<1>6. DOMAIN Functions' = DOMAIN Functions \union {name}
  BY <1>4 DEF AllowedWrite, WritesOnly
<1>7. Functions'[name] \in FunctionData BY <1>2, <1>3, <1>5
<1>8. name \in DOMAIN Functions /\ Functions[name].defined => Functions'[name].defined
  BY <1>2, <1>4, <1>5 DEF AllowedWrite
<1>9. \A other \in DOMAIN Functions \ {name} : Functions'[other] = Functions[other]
  BY <1>4, <1>5 DEF AllowedWrite, WritesOnly
<1>10. Verdict # "undefined" /\ (Verdict = "complete" => name \in DOMAIN Functions)
  BY <1>4 DEF Verdict
<1> QED BY <1>6, <1>7, <1>8, <1>9, <1>10 DEF Map!Write, Functions, Verdict

(* The steps that change the verdict are the two ends of the loop.         *)
LEMMA VerdictChanges ==
  ASSUME Inv, [Next]_vars, Verdict' # Verdict
  PROVE  /\ Verdict = "reading" /\ table' = table
         /\ \/ AllChecked /\ Verdict' = "complete"
            \/ /\ CheckFunction /\ Verdict' = "undefined"
               /\ ~ ItemAt(table, cursor).data.defined
<1>1. CASE PrepareBuiltin BY <1>1 DEF PrepareBuiltin, Verdict, At
<1>2. CASE \E name \in Keys : Func(name) BY <1>2 DEF Func, Verdict, At
<1>3. CASE \E id \in LocalNames, type \in Types : Param(id, type) BY <1>3 DEF Param, Verdict, At
<1>4. CASE RetType BY <1>4 DEF RetType, Verdict, At
<1>5. CASE \E name \in Keys, args \in ArgumentLists : Call(name, args)
  BY <1>5 DEF Call, Verdict, At
<1>6. CASE EndOfFile BY <1>6 DEF EndOfFile, Verdict, At, semantic_enabled
<1>7. CASE InferCall BY <1>7 DEF InferCall, Verdict, At
<1>8. CASE PackageMain \/ EndOfParams \/ OpenBody \/ CloseBody \/ EndOfPass \/ UNCHANGED vars
  BY <1>8 DEF PackageMain, EndOfParams, OpenBody, CloseBody, EndOfPass, vars, Verdict, At,
     semantic_enabled
<1>9. CASE CheckFunction
  BY <1>9 DEF CheckFunction, Verdict, At, semantic_enabled, Fail
<1>10. CASE AllChecked BY <1>10 DEF AllChecked, Verdict, At, semantic_enabled
<1> QED BY <1>1, <1>2, <1>3, <1>4, <1>5, <1>6, <1>7, <1>8, <1>9, <1>10 DEF Next

(* The end of the loop is one judgement of all functions: an item that is  *)
(* not defined is a function of the map that is not, and when the loop has *)
(* passed them all, all of them are.                                       *)
LEMMA LoopJudges ==
  ASSUME Inv, Inv', [Next]_vars, Verdict' # Verdict
  PROVE  Map!Judge
<1>1. table \in Tables /\ WellFormed(table) BY DEF Inv, TypeOK, TableWellFormed
<1>2. Verdict = "reading" /\ table' = table BY VerdictChanges
<1>3. Functions' = Functions BY <1>2 DEF Functions
<1>4. (\A name \in DOMAIN Functions : Functions[name].defined)
        <=> (\A name \in Members(table) : DataOf(table, name).defined)
  BY DEF Functions
<1>5. CASE AllChecked /\ Verdict' = "complete"
  <2>1. phase' = "inference" BY <1>5 DEF AllChecked
  <2>2. \A name \in Members(table) : DataOf(table, name).defined
    BY <1>2, <2>1 DEF Inv, AllDefined
  <2> QED BY <1>2, <1>3, <1>4, <1>5, <2>2 DEF Map!Judge, Functions, Verdict
<1>6. CASE /\ CheckFunction /\ Verdict' = "undefined"
           /\ ~ ItemAt(table, cursor).data.defined
  <2>1. IsPlace(table, cursor) BY <1>6 DEF CheckFunction, At, Inv, CursorAtItem
  <2>2. PICK s \in Slots : \E i \in DOMAIN table.arr[s] : cursor = <<s, i>>
    BY <2>1 DEF IsPlace
  <2>3. PICK i \in DOMAIN table.arr[s] : cursor = <<s, i>> BY <2>2
  <2> DEFINE key == table.arr[s][i].key
  <2>4. ItemAt(table, cursor) = table.arr[s][i] BY <2>3 DEF ItemAt
  <2>5. key \in Members(table) /\ DataOf(table, key) = table.arr[s][i].data
    BY <1>1, FoundIsTheItem DEF WellFormed, Members
  <2>6. ~ \A name \in Members(table) : DataOf(table, name).defined BY <1>6, <2>4, <2>5
  <2> QED BY <1>2, <1>3, <1>4, <1>6, <2>6 DEF Map!Judge, Functions, Verdict
<1> QED BY <1>5, <1>6, VerdictChanges

(* Nothing but the errors that end the compilation is written afterwards.  *)
LEMMA ErrorsAreFinal ==
  ASSUME [Next]_vars, table' # table
  PROVE  semantic_enabled
BY DEF Next, vars, PrepareBuiltin, PackageMain, Func, Param, EndOfParams, RetType, OpenBody,
   CloseBody, Call, EndOfFile, CheckFunction, AllChecked, InferCall, EndOfPass, At

LEMMA StepOfMap ==
  ASSUME Inv, Inv', [Next]_vars
  PROVE  [Map!Next]_<<Functions, Verdict>>
<1>1. CASE Verdict' # Verdict BY <1>1, LoopJudges DEF Map!Next
<1>2. CASE Verdict' = Verdict /\ table' = table BY <1>2 DEF Functions
<1>3. CASE Verdict' = Verdict /\ table' # table
  <2>1. semantic_enabled BY <1>3, ErrorsAreFinal
  <2>2. PICK name \in Keys : /\ AllowedWrite(name)
                             /\ phase \in {"inference", "accepted"} => name \in Members(table)
    BY <1>3, StepWrites
  <2>3. Map!Write(name) BY <1>3, <2>1, <2>2, WriteOfMap
  <2> QED BY <2>3 DEF Map!Next
<1> QED BY <1>1, <1>2, <1>3

LEMMA InitOfMap == Init => Map!Init
<1> SUFFICES ASSUME Init PROVE Map!Init OBVIOUS
<1>1. Members(table) = {} BY EmptyTable DEF Init
<1>2. Functions = << >> BY <1>1 DEF Functions
<1>3. Verdict = "reading" BY DEF Init, Verdict
<1> QED BY <1>2, <1>3 DEF Map!Init, Functions, Verdict

(* Whatever the hash function and the size of the table, the function      *)
(* table is a map: a step writes one name, a defined function stays        *)
(* defined, and the loop of program() over the slots and chains, which     *)
(* looks at one function at a time, comes to the verdict that one look at  *)
(* all of them would have given.                                           *)
THEOREM TableIsAMap == Spec => IsAMap
<1>1. Inv /\ Inv' /\ [Next]_vars => [Map!Next]_<<Functions, Verdict>> BY StepOfMap
<1> QED BY <1>1, InitOfMap, SpecInv, PTL DEF Spec, IsAMap, Map!Spec, Functions, Verdict

-----------------------------------------------------------------------------
(* The agreement of the table with the source.                             *)

PredictedBy(i, name, params) == calls[i].name = name /\ Len(calls[i].args) = Len(params)

Agrees(name) ==
  /\ IsPrefixOf(declared[name], DataOf(table, name).params)
  /\ Len(declared[name]) < Len(DataOf(table, name).params) =>
       \E i \in DOMAIN calls : PredictedBy(i, name, DataOf(table, name).params)

AllAgree == semantic_enabled => \A name \in Members(table) : Agrees(name)

UndefinedDeclareNothing ==
  semantic_enabled => \A name \in Keys : ~ IsDefined(table, name) => declared[name] = << >>

InsideParams ==
  phase = "params" /\ semantic_enabled =>
    /\ IsDefined(table, definition.name)
    /\ definition.current_param = Len(declared[definition.name]) + 1
    /\ ~ definition.already_found =>
         Len(DataOf(table, definition.name).params) = Len(declared[definition.name])

Agreement == AllAgree /\ UndefinedDeclareNothing /\ InsideParams

(* A call that the optimiser has let pass. *)
Fits(call) ==
  call.name # print /\ Len(DataOf(table, call.name).params) = Len(declared[call.name]) =>
    Matches(call.args, declared[call.name])

PassChecks ==
  semantic_enabled =>
    /\ phase \notin {"inference", "accepted"} => inferred = 0
    /\ phase = "accepted" => inferred = Len(calls)
    /\ inferred <= Len(calls)
    /\ \A i \in 1 .. inferred : Fits(calls[i])

-----------------------------------------------------------------------------
(* A prefix of known types stays one when unknown types are filled in.     *)
LEMMA PrefixKept ==
  ASSUME NEW decl \in Seq(Types), NEW before \in Seq(DataTypes), NEW after \in Seq(DataTypes),
         IsPrefixOf(decl, before), SamePrototype(before, after)
  PROVE  IsPrefixOf(decl, after) /\ Len(after) = Len(before)
<1>1. ASSUME NEW i \in DOMAIN decl PROVE after[i] = decl[i]
  <2>1. decl[i] \in Types /\ i \in DOMAIN before BY DEF IsPrefixOf
  <2>2. before[i] = decl[i] BY DEF IsPrefixOf
  <2>3. before[i] \in {CF_UNKNOWN, after[i]} BY <2>1 DEF SamePrototype
  <2> QED BY <2>1, <2>2, <2>3, UnknownAssumption
<1> QED BY <1>1 DEF IsPrefixOf, SamePrototype

(* What a member's types are. *)
LEMMA MemberTypes ==
  ASSUME Inv, NEW name \in Members(table)
  PROVE  DataOf(table, name).params \in Seq(DataTypes) /\ declared[name] \in Seq(Types)
<1>1. table \in Tables /\ WellFormed(table) /\ declared \in [Keys -> Seq(Types)]
  BY DEF Inv, TypeOK, TableWellFormed
<1>2. name \in Keys /\ DataOf(table, name) \in FunctionData BY <1>1, MemberData
<1> QED BY <1>1, <1>2 DEF FunctionData

LEMMA DefinedMember ==
  ASSUME NEW name \in Keys
  PROVE  IsDefined(table, name) <=> name \in Members(table) /\ DataOf(table, name).defined
BY DEF IsDefined, Members

(* The functions that a step does not write agree with the source as       *)
(* before; calls are only added.                                           *)
CallsGrow == \A i \in DOMAIN calls : i \in DOMAIN calls' /\ calls'[i] = calls[i]

LEMMA SamePrototypeAgrees ==
  ASSUME Inv, Inv', NEW name \in Members(table), name \in Members(table'), Agrees(name), CallsGrow,
         declared'[name] = declared[name],
         SamePrototype(DataOf(table, name).params, DataOf(table', name).params)
  PROVE  Agrees(name)'
<1> DEFINE before == DataOf(table, name).params
           after == DataOf(table', name).params
<1>1. before \in Seq(DataTypes) /\ declared[name] \in Seq(Types) BY MemberTypes
<1>2. after \in Seq(DataTypes)
  <2>1. table' \in Tables /\ WellFormed(table') BY DEF Inv, TypeOK, TableWellFormed
  <2>2. DataOf(table', name) \in FunctionData BY <2>1, MemberData
  <2> QED BY <2>2 DEF FunctionData
<1>3. IsPrefixOf(declared[name], before) BY DEF Agrees
<1> HIDE DEF before, after
<1>4. IsPrefixOf(declared[name], after) /\ Len(after) = Len(before)
  BY <1>1, <1>2, <1>3, PrefixKept DEF before, after
<1>5. Len(declared[name]) < Len(after) =>
        \E i \in DOMAIN calls' : calls'[i].name = name /\ Len(calls'[i].args) = Len(after)
  BY <1>4 DEF Agrees, PredictedBy, CallsGrow, before
<1> QED BY <1>4, <1>5 DEF Agrees, PredictedBy, after

-----------------------------------------------------------------------------
LEMMA SamePrototypeOfMember ==
  ASSUME Inv, NEW name \in Members(table), DataOf(table', name) = DataOf(table, name)
  PROVE  SamePrototype(DataOf(table, name).params, DataOf(table', name).params)
BY MemberTypes, SameIsSamePrototype

(* A step that writes one function keeps the agreement of all if it keeps  *)
(* that one's.                                                             *)
LEMMA WriteKeepsAgreement ==
  ASSUME Inv, Inv', AllAgree, UndefinedDeclareNothing, semantic_enabled, NEW name \in Keys,
         WritesOnly(name), CallsGrow,
         \A other \in Keys : other # name => declared'[other] = declared[other],
         Agrees(name)', ~ IsDefined(table', name) => declared'[name] = << >>
  PROVE  AllAgree' /\ UndefinedDeclareNothing'
<1>1. ASSUME NEW other \in Members(table'), other # name PROVE Agrees(other)'
  <2>1. other \in Members(table) /\ other \in Keys /\ DataOf(table', other) = DataOf(table, other)
    BY <1>1 DEF WritesOnly, Members
  <2>2. Agrees(other) /\ declared'[other] = declared[other] BY <1>1, <2>1 DEF AllAgree
  <2> QED BY <2>1, <2>2, SamePrototypeOfMember, SamePrototypeAgrees
<1>2. ASSUME NEW other \in Keys, other # name, ~ IsDefined(table', other)
      PROVE  declared'[other] = << >>
  <2>1. ~ IsDefined(table, other)
    BY <1>2 DEF WritesOnly, IsDefined, Members
  <2> QED BY <1>2, <2>1 DEF UndefinedDeclareNothing
<1>3. AllAgree' BY <1>1 DEF AllAgree
<1>4. UndefinedDeclareNothing' BY <1>2 DEF UndefinedDeclareNothing
<1> QED BY <1>3, <1>4

(* A step that leaves the table and the declarations alone.                *)
LEMMA StillKeepsAgreement ==
  ASSUME Inv, Inv', AllAgree, UndefinedDeclareNothing, semantic_enabled' => semantic_enabled,
         table' = table, declared' = declared, CallsGrow
  PROVE  AllAgree' /\ UndefinedDeclareNothing'
<1>1. ASSUME semantic_enabled', NEW name \in Members(table) PROVE Agrees(name)'
  <2>1. Agrees(name) BY <1>1 DEF AllAgree
  <2> QED BY <2>1, SamePrototypeOfMember, SamePrototypeAgrees
<1>2. AllAgree' BY <1>1 DEF AllAgree
<1>3. UndefinedDeclareNothing' BY DEF UndefinedDeclareNothing
<1> QED BY <1>2, <1>3

LEMMA CallsUnchangedGrow == calls' = calls => CallsGrow
BY DEF CallsGrow

-----------------------------------------------------------------------------
LEMMA InitAgreement == Init => Agreement /\ PassChecks
<1> SUFFICES ASSUME Init PROVE Agreement /\ PassChecks OBVIOUS
<1>1. Members(table) = {} BY EmptyTable DEF Init
<1>2. AllAgree /\ InsideParams BY <1>1 DEF Init, AllAgree, InsideParams
<1>3. UndefinedDeclareNothing BY DEF Init, UndefinedDeclareNothing
<1>4. PassChecks BY DEF Init, PassChecks
<1> QED BY <1>2, <1>3, <1>4 DEF Agreement

LEMMA EqualAgrees ==
  ASSUME NEW name, NEW params \in Seq(Types),
         declared'[name] = params, DataOf(table', name).params = params
  PROVE  Agrees(name)'
BY DEF Agrees, IsPrefixOf

LEMMA PrepareBuiltinKeepsAgreement ==
  ASSUME Inv, Inv', Agreement, PrepareBuiltin
  PROVE  Agreement'
<1>1. table \in Tables /\ WellFormed(table) /\ declared \in [Keys -> Seq(Types)]
  BY DEF Inv, TypeOK, TableWellFormed
<1>2. PICK builtin \in [name : Keys, params : Seq(Types), ret_types : Nat] :
        builtin = Builtins[table.size + 1]
  <2>1. table.size \in Nat BY <1>1 DEF Tables
  <2>2. table.size + 1 \in 1 .. Len(Builtins) BY <2>1, BuiltinsAssumption DEF PrepareBuiltin
  <2> QED BY <2>2, BuiltinsAssumption, SeqElement
<1> DEFINE data == [NewFunction EXCEPT !.defined = TRUE, !.params = builtin.params,
                                       !.ret_types = builtin.ret_types]
<1>3. builtin.params \in Seq(DataTypes) /\ builtin.params \in Seq(Types) /\ builtin.name \in Keys
  BY <1>2 DEF DataTypes
<1>4. data \in FunctionData /\ data.params = builtin.params /\ data.defined
  BY <1>2, <1>3 DEF FunctionData, NewFunction
<1>5. phase = "builtins" /\ phase' = phase /\ semantic_enabled /\ calls' = calls
  BY DEF PrepareBuiltin, At
<1>6. InsideParams' BY <1>5 DEF InsideParams
<1>7. CASE Contains(table, builtin.name)
  <2>1. table' = table /\ declared' = declared BY <1>2, <1>7 DEF PrepareBuiltin
  <2> QED BY <1>5, <1>6, <2>1, CallsUnchangedGrow, StillKeepsAgreement DEF Agreement
<1>8. CASE ~ Contains(table, builtin.name)
  <2>1. /\ table' = WithData(symtable_add(table, builtin.name), builtin.name, data)
        /\ declared' = [declared EXCEPT ![builtin.name] = builtin.params]
    BY <1>2, <1>8 DEF PrepareBuiltin, Declare
  <2> HIDE DEF data
  <2>2. WritesOnly(builtin.name) /\ DataOf(table', builtin.name) = data
    BY <1>1, <1>3, <1>4, <2>1, AddThenWrite, AddThenWriteData DEF WritesOnly
  <2>3. declared'[builtin.name] = builtin.params BY <1>1, <1>3, <2>1
  <2>4. \A other \in Keys : other # builtin.name => declared'[other] = declared[other]
    BY <1>1, <2>1
  <2>5. Agrees(builtin.name)' BY <1>3, <1>4, <2>2, <2>3, EqualAgrees
  <2>6. IsDefined(table', builtin.name) BY <1>3, <1>4, <2>2 DEF WritesOnly, IsDefined, Members
  <2> QED
    BY <1>3, <1>5, <1>6, <2>2, <2>4, <2>5, <2>6, CallsUnchangedGrow, WriteKeepsAgreement
    DEF Agreement
<1> QED BY <1>7, <1>8

(* A definition starts with no parameters read; those of a call are there  *)
(* or none.                                                                *)
LEMMA FuncKeepsAgreement ==
  ASSUME Inv, Inv', Agreement, NEW name \in Keys, Func(name)
  PROVE  Agreement'
<1>1. table \in Tables /\ WellFormed(table) /\ declared \in [Keys -> Seq(Types)]
  BY DEF Inv, TypeOK, TableWellFormed
<1>2. phase = "execution" /\ semantic_enabled /\ calls' = calls /\ declared' = declared
  BY DEF Func, At
<1>3. CASE IsDefined(table, name)
  <2>1. table' = table /\ phase' = phase BY <1>3 DEF Func
  <2>2. InsideParams' BY <1>2, <2>1 DEF InsideParams
  <2> QED BY <1>2, <2>1, <2>2, CallsUnchangedGrow, StillKeepsAgreement DEF Agreement
<1>4. CASE ~ IsDefined(table, name)
  <2> DEFINE added == symtable_add(table, name)
             data == [DataOf(added, name) EXCEPT !.defined = TRUE]
  <2>1. /\ table' = WithData(symtable_add(table, name), name, data)
        /\ definition' = [name |-> name, already_found |-> Contains(table, name),
                          current_param |-> 1]
    BY <1>4 DEF Func, MarkDefined
  <2>2. /\ added \in Tables /\ WellFormed(added) /\ name \in Members(added)
        /\ name \in Members(table) => DataOf(added, name) = DataOf(table, name)
        /\ name \notin Members(table) => DataOf(added, name) = NewFunction
    BY <1>1, AddKeepsWellFormed, AddedData DEF Members
  <2>3. DataOf(added, name) \in FunctionData BY <2>2, MemberData
  <2> HIDE DEF added
  <2>4. data \in FunctionData /\ data.defined /\ data.params = DataOf(added, name).params
    BY <2>3 DEF FunctionData
  <2> HIDE DEF data
  <2>5. WritesOnly(name) /\ DataOf(table', name) = data
    BY <1>1, <2>1, <2>4, AddThenWrite, AddThenWriteData DEF WritesOnly
  <2>6. IsDefined(table', name) BY <2>4, <2>5 DEF WritesOnly, IsDefined, Members
  <2>7. declared[name] = << >> BY <1>2, <1>4 DEF Agreement, UndefinedDeclareNothing
  <2>8. CASE name \in Members(table)
    <3>1. DataOf(table', name).params = DataOf(table, name).params BY <2>2, <2>4, <2>5, <2>8
    <3>2. Agrees(name)'
      <4>1. Agrees(name) BY <1>2, <2>8 DEF Agreement, AllAgree
      <4> QED BY <1>2, <3>1, <4>1 DEF Agrees, PredictedBy
    <3>3. Contains(table, name) BY <2>8 DEF Members
    <3>4. InsideParams' BY <1>2, <2>1, <2>6, <2>7, <3>3 DEF InsideParams
    <3> QED BY <1>2, <2>5, <2>6, <3>2, <3>4, CallsUnchangedGrow, WriteKeepsAgreement DEF Agreement
  <2>9. CASE name \notin Members(table)
    <3>1. DataOf(table', name).params = << >> BY <2>2, <2>4, <2>5, <2>9 DEF NewFunction
    <3>2. Agrees(name)'
      <4>1. << >> \in Seq(Types) /\ declared'[name] = << >> BY <1>2, <2>7
      <4> QED BY <3>1, <4>1, EqualAgrees
    <3>3. InsideParams' BY <1>2, <2>1, <2>6, <2>7, <3>1 DEF InsideParams
    <3> QED BY <1>2, <2>5, <2>6, <3>2, <3>3, CallsUnchangedGrow, WriteKeepsAgreement DEF Agreement
  <2> QED BY <2>8, <2>9
<1> QED BY <1>3, <1>4

(* A declared parameter is added to the list, or takes the place of the    *)
(* predicted one.                                                          *)
LEMMA ParamKeepsAgreement ==
  ASSUME Inv, Inv', Agreement, NEW id \in LocalNames, NEW type \in Types, Param(id, type)
  PROVE  Agreement'
<1> PICK name \in Keys : name = definition.name BY DEF Inv, TypeOK
<1> DEFINE data == DataOf(table, name)
           decl == declared[name]
<1>1. table \in Tables /\ WellFormed(table) /\ declared \in [Keys -> Seq(Types)]
  BY DEF Inv, TypeOK, TableWellFormed
<1>2. /\ phase = "params" /\ phase' = phase /\ semantic_enabled /\ calls' = calls
      /\ declared' = [declared EXCEPT ![name] = Append(@, type)]
  BY DEF Param, At
<1>3. /\ IsDefined(table, name)
      /\ definition.current_param = Len(decl) + 1
      /\ ~ definition.already_found => Len(data.params) = Len(decl)
  BY <1>2 DEF Agreement, InsideParams
<1>4. name \in Members(table) /\ data.defined BY <1>3 DEF IsDefined, Members
<1>5. /\ data \in FunctionData /\ data.params \in Seq(DataTypes)
      /\ decl \in Seq(Types) /\ type \in DataTypes
  BY <1>1, <1>4, MemberData DEF FunctionData, DataTypes
<1>6. IsPrefixOf(decl, data.params) /\ Agrees(name) BY <1>2, <1>4 DEF Agreement, AllAgree, Agrees
<1>7. declared'[name] = Append(decl, type) /\ declared' \in [Keys -> Seq(Types)]
        /\ \A other \in Keys : other # name => declared'[other] = declared[other]
  BY <1>1, <1>2, <1>5
<1>8. SUFFICES ASSUME semantic_enabled' PROVE Agreement'
  BY DEF Agreement, AllAgree, UndefinedDeclareNothing, InsideParams
<1>9. ~ (definition.already_found /\ Unexpected(type))
  BY <1>8 DEF Param, Fail, semantic_enabled
<1>10. definition'.name = name /\ definition'.current_param = definition.current_param + 1
         /\ definition'.already_found = definition.already_found
  BY <1>9 DEF Param, Inv, TypeOK
<1> DEFINE params == IF definition.already_found
                     THEN [data.params EXCEPT ![Len(decl) + 1] = type]
                     ELSE data.params \o <<type>>
           new == [data EXCEPT !.params = params]
<1>11. table' = WithData(table, name, new)
  BY <1>3, <1>9 DEF Param, symtable_add_params
<1>12. /\ params \in Seq(DataTypes)
       /\ IsPrefixOf(Append(decl, type), params)
       /\ definition.already_found => Len(params) = Len(data.params)
       /\ ~ definition.already_found => Len(params) = Len(decl) + 1
  <2>1. CASE definition.already_found
    <3>1. Len(decl) + 1 <= Len(data.params) BY <1>3, <1>5, <1>9, <2>1 DEF Unexpected, Predicted
    <3> HIDE DEF data, decl
    <3> QED BY <1>5, <1>6, <2>1, <3>1 DEF IsPrefixOf
  <2>2. CASE ~ definition.already_found
    <3>1. Len(data.params) = Len(decl) BY <1>3, <2>2
    <3> HIDE DEF data, decl
    <3> QED BY <1>5, <1>6, <2>2, <3>1 DEF IsPrefixOf
  <2> QED BY <2>1, <2>2
<1> HIDE DEF params
<1>13. new \in FunctionData /\ new.params = params /\ new.defined = data.defined
  BY <1>5, <1>12 DEF FunctionData
<1> HIDE DEF new
<1>14. /\ Members(table') = Members(table)
       /\ DataOf(table', name) = new
       /\ \A other \in Members(table) : other # name => DataOf(table', other) = DataOf(table, other)
  BY <1>1, <1>4, <1>11, <1>13, MemberData, WriteKeepsWellFormed
<1>15. WritesOnly(name) BY <1>4, <1>14 DEF WritesOnly
<1>16. IsDefined(table', name) BY <1>4, <1>13, <1>14 DEF IsDefined, Members
<1>17. Agrees(name)'
  <2>1. IsPrefixOf(declared'[name], DataOf(table', name).params)
    BY <1>7, <1>12, <1>13, <1>14
  <2>2. ASSUME Len(declared'[name]) < Len(DataOf(table', name).params)
        PROVE  \E i \in DOMAIN calls : PredictedBy(i, name, DataOf(table', name).params)
    <3>1. Len(declared'[name]) = Len(decl) + 1 /\ Len(decl) \in Nat BY <1>5, <1>7
    <3>2. Len(params) = Len(data.params) /\ Len(decl) < Len(data.params)
      BY <1>5, <1>12, <1>13, <1>14, <2>2, <3>1
    <3> QED BY <1>6, <1>13, <1>14, <3>2 DEF Agrees, PredictedBy
  <2> QED BY <1>2, <2>1, <2>2 DEF Agrees, PredictedBy
<1>18. InsideParams'
  <2>1. Len(declared'[name]) = Len(decl) + 1 BY <1>5, <1>7
  <2> QED BY <1>3, <1>10, <1>12, <1>13, <1>14, <1>16, <2>1 DEF InsideParams
<1> QED
  BY <1>2, <1>7, <1>15, <1>16, <1>17, <1>18, CallsUnchangedGrow, WriteKeepsAgreement DEF Agreement

(* A write that keeps the prototype, outside the parameters.               *)
LEMMA PrototypeKeptKeepsAgreement ==
  ASSUME Inv, Inv', Agreement, semantic_enabled, NEW name \in Members(table), WritesOnly(name),
         SamePrototype(DataOf(table, name).params, DataOf(table', name).params),
         DataOf(table, name).defined => DataOf(table', name).defined,
         declared' = declared, CallsGrow, phase' # "params"
  PROVE  Agreement'
<1>1. name \in Keys /\ name \in Members(table') BY DEF WritesOnly, Members
<1>2. Agrees(name)' BY <1>1, SamePrototypeAgrees DEF Agreement, AllAgree
<1>3. ~ IsDefined(table', name) => declared'[name] = << >>
  BY <1>1 DEF Agreement, UndefinedDeclareNothing, IsDefined, Members
<1>4. InsideParams' BY DEF InsideParams
<1> QED BY <1>1, <1>2, <1>3, <1>4, WriteKeepsAgreement DEF Agreement

LEMMA RetTypeKeepsAgreement == ASSUME Inv, Inv', Agreement, RetType PROVE Agreement'
<1> PICK name \in Keys : name = definition.name BY DEF Inv, TypeOK
<1> DEFINE data == DataOf(table, name)
           returning == [data EXCEPT !.ret_types = @ + 1]
<1>1. table \in Tables /\ WellFormed(table) BY DEF Inv, TypeOK, TableWellFormed
<1>2. phase = "ret_type" /\ phase' = phase /\ semantic_enabled /\ calls' = calls
        /\ declared' = declared
  BY DEF RetType, At
<1>3. name \in Members(table) BY <1>2 DEF Inv, NamesKnown
<1>4. data \in FunctionData BY <1>1, <1>3, MemberData
<1>5. returning \in FunctionData /\ returning.defined = data.defined
        /\ returning.params = data.params
  BY <1>4 DEF FunctionData
<1>6. table' = WithData(table, name, returning) BY DEF RetType, symtable_add_ret_type
<1> HIDE DEF returning
<1>7. DataOf(table', name) = returning BY <1>1, <1>3, <1>5, <1>6, MemberData, WriteKeepsWellFormed
<1>8. SamePrototype(data.params, returning.params)
  BY <1>3, <1>5, MemberTypes, SameIsSamePrototype
<1>9. WritesOnly(name) BY RetTypeWrites DEF AllowedWrite
<1> QED
  BY <1>2, <1>3, <1>5, <1>7, <1>8, <1>9, CallsUnchangedGrow, PrototypeKeptKeepsAgreement

(* Outside the definitions every defined function is complete.             *)
LEMMA AllowedKeepsAgreement ==
  ASSUME Inv, Inv', Agreement, semantic_enabled, NEW name \in Members(table), AllowedWrite(name),
         IsDefined(table, name), phase \notin {"params", "ret_type"}, phase' # "params",
         declared' = declared, calls' = calls
  PROVE  Agreement'
<1>1. Complete(name) BY DEF Complete
<1> QED BY <1>1, CallsUnchangedGrow, PrototypeKeptKeepsAgreement DEF AllowedWrite

LEMMA EndOfFileKeepsAgreement == ASSUME Inv, Inv', Agreement, EndOfFile PROVE Agreement'
<1>1. phase = "execution" /\ phase' # "params" /\ semantic_enabled /\ calls' = calls
        /\ declared' = declared
  BY DEF EndOfFile, At
<1>2. InsideParams' BY <1>1 DEF InsideParams
<1>3. CASE table' = table
  BY <1>1, <1>2, <1>3, CallsUnchangedGrow, StillKeepsAgreement DEF Agreement
<1>4. CASE table' # table
  <2>1. IsDefined(table, main) BY <1>4 DEF EndOfFile
  <2> QED BY <1>1, <1>4, <2>1, EndOfFileWrites, AllowedKeepsAgreement
<1> QED BY <1>3, <1>4

LEMMA InferCallKeepsAgreement == ASSUME Inv, Inv', Agreement, InferCall PROVE Agreement'
<1>1. phase = "inference" /\ phase' = phase /\ semantic_enabled /\ calls' = calls
        /\ declared' = declared
  BY DEF InferCall, At
<1>2. InsideParams' BY <1>1 DEF InsideParams
<1>3. CASE table' = table
  BY <1>1, <1>2, <1>3, CallsUnchangedGrow, StillKeepsAgreement DEF Agreement
<1>4. CASE table' # table
  <2>1. PICK name \in Members(table) : AllowedWrite(name) BY <1>4, InferCallWrites
  <2>2. IsDefined(table, name) BY <1>1 DEF Inv, AllDefined, IsDefined, Members
  <2> QED BY <1>1, <2>1, <2>2, AllowedKeepsAgreement
<1> QED BY <1>3, <1>4

(* A call keeps the prototype of a known function; of an unknown one it is *)
(* the call that predicts its parameters.                                  *)
LEMMA CallKeepsAgreement ==
  ASSUME Inv, Inv', Agreement, NEW name \in Keys, NEW args \in ArgumentLists, Call(name, args)
  PROVE  Agreement'
<1>1. phase = "body" /\ phase' = phase /\ semantic_enabled /\ declared' = declared
  BY DEF Call, At
<1>2. InsideParams' BY <1>1 DEF InsideParams
<1>3. calls \in Seq(Calls) BY DEF Inv, TypeOK
<1>4. calls' = Append(calls, [name |-> name, args |-> args]) BY DEF Call
<1>5. /\ CallsGrow
      /\ Len(calls) + 1 \in DOMAIN calls'
      /\ calls'[Len(calls) + 1] = [name |-> name, args |-> args]
  BY <1>3, <1>4 DEF CallsGrow
<1>6. CASE table' = table BY <1>1, <1>2, <1>5, <1>6, StillKeepsAgreement DEF Agreement
<1>7. CASE table' # table /\ name \in Members(table)
  <2>1. /\ WritesOnly(name)
        /\ DataOf(table, name).defined => DataOf(table', name).defined
        /\ SamePrototype(DataOf(table, name).params, DataOf(table', name).params)
    BY <1>7, CallWrites DEF AllowedWrite
  <2> QED BY <1>1, <1>5, <1>7, <2>1, PrototypeKeptKeepsAgreement
<1>8. CASE table' # table /\ name \notin Members(table)
  <2>1. WritesOnly(name) /\ Len(DataOf(table', name).params) = Len(args)
    BY <1>8, CallWrites DEF AllowedWrite
  <2>2. declared[name] = << >>
    BY <1>1, <1>8 DEF Agreement, UndefinedDeclareNothing, IsDefined, Members
  <2>3. Agrees(name)'
    <3>1. IsPrefixOf(declared'[name], DataOf(table', name).params)
      <4>1. name \in Members(table') BY <2>1 DEF WritesOnly
      <4>2. table' \in Tables /\ WellFormed(table') BY DEF Inv, TypeOK, TableWellFormed
      <4>3. DataOf(table', name) \in FunctionData BY <4>1, <4>2, MemberData
      <4>4. Len(DataOf(table', name).params) \in Nat BY <4>3 DEF FunctionData
      <4> QED BY <1>1, <2>2, <4>4 DEF IsPrefixOf
    <3>2. \E i \in DOMAIN calls' :
            calls'[i].name = name /\ Len(calls'[i].args) = Len(DataOf(table', name).params)
      BY <1>5, <2>1
    <3> QED BY <3>1, <3>2 DEF Agrees, PredictedBy
  <2> QED BY <1>1, <1>2, <1>5, <2>1, <2>2, <2>3, WriteKeepsAgreement DEF Agreement
<1> QED BY <1>6, <1>7, <1>8

LEMMA NextKeepsAgreement ==
  ASSUME Inv, Inv', Agreement, [Next]_vars
  PROVE  Agreement'
<1>1. CASE PrepareBuiltin BY <1>1, PrepareBuiltinKeepsAgreement
<1>2. CASE \E name \in Keys : Func(name) BY <1>2, FuncKeepsAgreement
<1>3. CASE \E id \in LocalNames, type \in Types : Param(id, type) BY <1>3, ParamKeepsAgreement
<1>4. CASE RetType BY <1>4, RetTypeKeepsAgreement
<1>5. CASE \E name \in Keys, args \in ArgumentLists : Call(name, args) BY <1>5, CallKeepsAgreement
<1>6. CASE EndOfFile BY <1>6, EndOfFileKeepsAgreement
<1>7. CASE InferCall BY <1>7, InferCallKeepsAgreement
<1>8. CASE \/ PackageMain \/ EndOfParams \/ OpenBody \/ CloseBody
           \/ CheckFunction \/ AllChecked \/ EndOfPass \/ UNCHANGED vars
  <2>1. /\ table' = table /\ declared' = declared /\ calls' = calls
        /\ semantic_enabled' => semantic_enabled
    BY <1>8 DEF PackageMain, EndOfParams, OpenBody, CloseBody, CheckFunction, AllChecked, EndOfPass,
       vars, At, semantic_enabled
  <2>2. AllAgree' /\ UndefinedDeclareNothing'
    BY <2>1, CallsUnchangedGrow, StillKeepsAgreement DEF Agreement
  <2>3. phase' # "params" \/ UNCHANGED vars
    BY <1>8 DEF PackageMain, EndOfParams, OpenBody, CloseBody, CheckFunction, AllChecked, EndOfPass,
       At
  <2>4. InsideParams'
    BY <2>1, <2>3 DEF Agreement, InsideParams, vars, semantic_enabled
  <2> QED BY <2>2, <2>4 DEF Agreement
<1> QED BY <1>1, <1>2, <1>3, <1>4, <1>5, <1>6, <1>7, <1>8 DEF Next

LEMMA SpecAgreement == Spec => [](Inv /\ Agreement)
<1>1. Inv /\ Inv' /\ Agreement /\ [Next]_vars => Agreement' BY NextKeepsAgreement
<1>2. Init => Agreement BY InitAgreement
<1> QED BY <1>1, <1>2, SpecInv, PTL DEF Spec

(* The parameters in the table begin with those of the definition, and     *)
(* only a call before the definition can have put more of them there: the  *)
(* corrections of params and the inference never add one.                  *)
THEOREM DeclarationIsPrefix == Spec => []TableExtendsDeclaration
<1>1. Inv /\ Agreement => TableExtendsDeclaration
  <2> SUFFICES ASSUME Inv, Agreement, semantic_enabled, NEW name \in Members(table)
               PROVE  /\ IsPrefixOf(declared[name], DataOf(table, name).params)
                      /\ Len(declared[name]) < Len(DataOf(table, name).params) =>
                           \E i \in DOMAIN calls :
                             calls[i].name = name
                               /\ Len(calls[i].args) = Len(DataOf(table, name).params)
    BY DEF TableExtendsDeclaration
  <2> QED BY DEF Agreement, AllAgree, Agrees, PredictedBy
<1> QED BY <1>1, SpecAgreement, PTL

-----------------------------------------------------------------------------
(* Where the optimiser is, the table has known types as far as the source  *)
(* declares parameters.                                                    *)
LEMMA CallInInference ==
  ASSUME Inv, semantic_enabled, NEW i \in DOMAIN calls
  PROVE  /\ calls[i].name \in Members(table)
         /\ calls[i].args \in Seq(Arguments)
         /\ Actual(calls[i].args) \in Seq(Types)
         /\ DOMAIN Actual(calls[i].args) = DOMAIN calls[i].args
         /\ Len(Actual(calls[i].args)) = Len(calls[i].args)
         /\ \A j \in DOMAIN calls[i].args : Actual(calls[i].args)[j] = calls[i].args[j].actual
<1> DEFINE args == calls[i].args
           types == Actual(args)
<1>1. calls[i].name \in Members(table) BY DEF Inv, NamesKnown
<1>2. args \in Seq(Arguments)
  <2>1. calls \in Seq(Calls) BY DEF Inv, TypeOK
  <2>2. calls[i] \in Calls BY <2>1
  <2> QED BY <2>2 DEF Calls
<1> HIDE DEF args
<1>3. DOMAIN args = 1 .. Len(args) /\ Len(args) \in Nat BY <1>2
<1>4. DOMAIN types = DOMAIN args /\ \A j \in DOMAIN args : types[j] = args[j].actual BY DEF Actual
<1>5. \A j \in DOMAIN args : args[j].actual \in Types
  <2> SUFFICES ASSUME NEW j \in DOMAIN args PROVE args[j].actual \in Types OBVIOUS
  <2>1. args[j] \in Arguments BY <1>2
  <2> QED BY <2>1 DEF Arguments
<1>6. types = [j \in 1 .. Len(args) |-> args[j].actual] BY <1>3 DEF Actual
<1>7. types \in [1 .. Len(args) -> Types] BY <1>3, <1>5, <1>6
<1>8. types \in Seq(Types) BY <1>3, <1>7
<1>9. Len(types) = Len(args)
  <2> HIDE DEF types
  <2> QED BY <1>2, <1>4, <1>8
<1> QED BY <1>1, <1>2, <1>4, <1>8, <1>9 DEF args

(* Parameters of known types leave no argument uncompared.                 *)
LEMMA ComparisonMatches ==
  ASSUME NEW decl \in Seq(Types), NEW types \in Seq(Types), NEW params \in Seq(DataTypes),
         IsPrefixOf(decl, params), Len(params) = Len(decl)
  PROVE  InferenceFails(params, types)
           <=> ~ (Len(types) = Len(decl) /\ \A i \in DOMAIN types : decl[i] = types[i])
<1>1. DOMAIN params = 1 .. Len(params) /\ DOMAIN decl = 1 .. Len(params)
        /\ DOMAIN types = 1 .. Len(types) /\ Len(params) \in Nat /\ Len(types) \in Nat
  OBVIOUS
<1>2. \A i \in DOMAIN params : params[i] = decl[i] /\ params[i] # CF_UNKNOWN
  <2> SUFFICES ASSUME NEW i \in DOMAIN params
               PROVE  params[i] = decl[i] /\ params[i] # CF_UNKNOWN
    OBVIOUS
  <2>1. i \in DOMAIN decl BY <1>1
  <2>2. decl[i] \in Types BY <2>1
  <2> QED BY <2>1, <2>2, UnknownAssumption DEF IsPrefixOf
<1>3. \A i \in DOMAIN types : types[i] # CF_UNKNOWN
  <2> SUFFICES ASSUME NEW i \in DOMAIN types PROVE types[i] # CF_UNKNOWN OBVIOUS
  <2>1. types[i] \in Types OBVIOUS
  <2> QED BY <2>1, UnknownAssumption
<1>4. Compared(params, types) = DOMAIN types BY <1>2 DEF Compared
<1>5. InferenceFails(params, types)
        <=> \/ \E i \in DOMAIN types : i \notin DOMAIN params \/ types[i] # params[i]
            \/ Len(params) > Len(types)
  BY <1>3, <1>4 DEF InferenceFails
<1>6. (\E i \in DOMAIN types : i \notin DOMAIN params)
        <=> Len(types) > Len(params)
  <2>1. ASSUME Len(types) > Len(params) PROVE \E i \in DOMAIN types : i \notin DOMAIN params
    <3>1. Len(types) \in DOMAIN types /\ Len(types) \notin DOMAIN params BY <1>1, <2>1
    <3> QED BY <3>1
  <2>2. ASSUME NEW i \in DOMAIN types, i \notin DOMAIN params PROVE Len(types) > Len(params)
    BY <1>1, <2>2
  <2> QED BY <2>1, <2>2
<1>7. CASE Len(types) = Len(params)
  <2>1. DOMAIN types = DOMAIN params BY <1>1, <1>7
  <2> QED BY <1>2, <1>5, <1>7, <2>1
<1>8. CASE Len(types) # Len(params)
  <2>1. \A m, n \in Nat : m # n => m > n \/ n > m OBVIOUS
  <2>2. Len(types) > Len(params) \/ Len(params) > Len(types) BY <1>1, <1>8, <2>1
  <2> QED BY <1>5, <1>6, <1>8, <2>2
<1> QED BY <1>7, <1>8

(* A call checked by the optimiser passes if it matches, and only then     *)
(* where the table has the parameters of the definition; where it has      *)
(* more, the call that predicted them does not match.                      *)
LEMMA CheckedCall ==
  ASSUME Inv, Agreement, semantic_enabled, phase = "inference", NEW i \in DOMAIN calls,
         calls[i].name # print
  PROVE  LET name   == calls[i].name
             params == DataOf(table, name).params
             fails  == InferenceFails(params, Actual(calls[i].args))
         IN  /\ fails => \E j \in DOMAIN calls :
                           calls[j].name # print /\ ~ Matches(calls[j].args, declared[calls[j].name])
             /\ ~ fails /\ Len(params) = Len(declared[name]) => Matches(calls[i].args, declared[name])
<1> DEFINE name == calls[i].name
           params == DataOf(table, name).params
           types == Actual(calls[i].args)
           decl == declared[name]
<1>1. /\ name \in Members(table) /\ types \in Seq(Types) /\ Len(types) = Len(calls[i].args)
      /\ calls[i].args \in Seq(Arguments)
      /\ DOMAIN types = DOMAIN calls[i].args
      /\ \A j \in DOMAIN calls[i].args : types[j] = calls[i].args[j].actual
  BY CallInInference
<1>2. params \in Seq(DataTypes) /\ decl \in Seq(Types) BY <1>1, MemberTypes
<1>3. IsPrefixOf(decl, params) /\ Agrees(name) BY <1>1 DEF Agreement, AllAgree, Agrees
<1>4. Matches(calls[i].args, decl)
        <=> (Len(types) = Len(decl) /\ \A j \in DOMAIN types : decl[j] = types[j])
  BY <1>1 DEF Matches
<1>5. CASE Len(params) = Len(decl)
  <2> HIDE DEF params, types, decl
  <2>1. InferenceFails(params, types)
          <=> ~ (Len(types) = Len(decl) /\ \A j \in DOMAIN types : decl[j] = types[j])
    BY <1>1, <1>2, <1>3, <1>5, ComparisonMatches
  <2> QED BY <1>4, <2>1 DEF params, types, decl
<1>6. CASE Len(params) # Len(decl)
  <2>1. Len(decl) < Len(params)
    <3>1. Len(decl) <= Len(params) BY <1>3 DEF IsPrefixOf
    <3>2. \A m, n \in Nat : m <= n /\ n # m => m < n OBVIOUS
    <3>3. Len(decl) \in Nat /\ Len(params) \in Nat BY <1>2
    <3> QED BY <1>6, <3>1, <3>2, <3>3
  <2>2. PICK j \in DOMAIN calls : PredictedBy(j, name, params) BY <1>3, <2>1 DEF Agrees
  <2>3. calls[j].name = name /\ Len(calls[j].args) # Len(decl) BY <1>6, <2>2 DEF PredictedBy
  <2>4. ~ Matches(calls[j].args, declared[calls[j].name]) BY <2>3 DEF Matches
  <2> QED BY <1>6, <2>3, <2>4
<1> QED BY <1>5, <1>6

(* Only the check of a call fails where the optimiser is.                  *)
LEMMA RefusalHasReason ==
  ASSUME Inv, Agreement, RefusedForAReason, [Next]_vars
  PROVE  RefusedForAReason'
<1>1. CASE UNCHANGED vars BY <1>1 DEF RefusedForAReason, vars, semantic_enabled
<1>2. CASE InferCall
  <2> DEFINE i == inferred + 1
             params == DataOf(table, calls[i].name).params
  <2>1. calls' = calls /\ declared' = declared /\ phase = "inference" /\ semantic_enabled
    BY <1>2 DEF InferCall, At
  <2>2. i \in DOMAIN calls
    <3>1. calls \in Seq(Calls) /\ inferred \in Nat /\ inferred < Len(calls)
      BY <1>2 DEF InferCall, Inv, TypeOK
    <3> QED BY <3>1
  <2>3. SUFFICES ASSUME ~ semantic_enabled'
                 PROVE  \E j \in DOMAIN calls :
                          calls[j].name # print /\ ~ Matches(calls[j].args, declared[calls[j].name])
    BY <2>1 DEF RefusedForAReason
  <2>4. calls[i].name # print /\ InferenceFails(params, Actual(calls[i].args))
    BY <1>2, <2>1, <2>3 DEF InferCall, Infer, semantic_enabled
  <2> HIDE DEF i
  <2> QED BY <2>1, <2>2, <2>4, CheckedCall
<1>3. CASE ~ InferCall /\ ~ UNCHANGED vars
  <2>1. phase' # "inference" \/ semantic_enabled'
    <3>1. CASE PrepareBuiltin BY <3>1 DEF PrepareBuiltin, At
    <3>2. CASE \E name \in Keys : Func(name) BY <3>2 DEF Func, At
    <3>3. CASE \E id \in LocalNames, type \in Types : Param(id, type) BY <3>3 DEF Param, At
    <3>4. CASE RetType BY <3>4 DEF RetType, At
    <3>5. CASE \E name \in Keys, args \in ArgumentLists : Call(name, args) BY <3>5 DEF Call, At
    <3>6. CASE EndOfFile BY <3>6 DEF EndOfFile, At
    <3>7. CASE \/ PackageMain \/ EndOfParams \/ OpenBody \/ CloseBody
               \/ CheckFunction \/ AllChecked \/ EndOfPass
      BY <3>7 DEF PackageMain, EndOfParams, OpenBody, CloseBody, CheckFunction, AllChecked,
         EndOfPass, At, semantic_enabled
    <3> QED BY <1>3, <3>1, <3>2, <3>3, <3>4, <3>5, <3>6, <3>7 DEF Next
  <2> QED BY <2>1 DEF RefusedForAReason
<1> QED BY <1>1, <1>2, <1>3

(* The optimiser refuses no program in which all calls match, however the  *)
(* functions and calls are ordered and whatever the calls predicted.       *)
THEOREM RefusalIsRight == Spec => []RefusedForAReason
<1>1. Init => RefusedForAReason BY DEF Init, RefusedForAReason
<1>2. Inv /\ Agreement /\ RefusedForAReason /\ [Next]_vars => RefusedForAReason'
  BY RefusalHasReason
<1> QED BY <1>1, <1>2, SpecAgreement, PTL DEF Spec

-----------------------------------------------------------------------------
(* Inference keeps the number of the parameters of every function, so the  *)
(* calls that have passed the check still fit.                             *)
LEMMA FitsStays ==
  ASSUME Inv, Inv', semantic_enabled, phase \in {"inference", "accepted"}, NEW i \in DOMAIN calls,
         InferCall \/ table' = table, calls' = calls, declared' = declared, Fits(calls[i])
  PROVE  Fits(calls[i])'
<1> DEFINE name == calls[i].name
<1>1. name \in Members(table) BY CallInInference
<1>2. Len(DataOf(table', name).params) = Len(DataOf(table, name).params)
  <2>1. CASE table' = table BY <2>1
  <2>2. CASE InferCall /\ table' # table
    <3>1. PICK written \in Members(table) : AllowedWrite(written) BY <2>2, InferCallWrites
    <3>2. CASE written = name
      <4>1. phase = "inference" BY <2>2 DEF InferCall, At
      <4>2. IsDefined(table, name) BY <1>1, <4>1 DEF Inv, AllDefined, IsDefined, Members
      <4>3. Complete(name) BY <4>1, <4>2 DEF Complete
      <4> HIDE DEF name
      <4> QED BY <3>1, <3>2, <4>3 DEF AllowedWrite, SamePrototype
    <3>3. CASE written # name
      <4> HIDE DEF name
      <4> QED BY <1>1, <3>1, <3>3 DEF AllowedWrite, WritesOnly
    <3> QED BY <3>2, <3>3
  <2> QED BY <2>1, <2>2
<1> QED BY <1>2 DEF Fits

(* One more call checked, and let pass, fits. *)
LEMMA InferCallKeepsPass ==
  ASSUME Inv, Inv', Agreement, PassChecks, InferCall
  PROVE  PassChecks'
<1> SUFFICES ASSUME semantic_enabled' PROVE PassChecks' BY DEF PassChecks
<1> DEFINE k == inferred + 1
           name == calls[k].name
           params == DataOf(table, name).params
<1>1. /\ phase = "inference" /\ phase' = phase /\ semantic_enabled /\ calls' = calls
      /\ declared' = declared /\ inferred' = inferred + 1 /\ inferred < Len(calls)
  BY DEF InferCall, At
<1>2. calls \in Seq(Calls) /\ inferred \in Nat BY DEF Inv, TypeOK
<1>3. k \in DOMAIN calls /\ inferred' <= Len(calls') BY <1>1, <1>2
<1>4. \A i \in 1 .. inferred : Fits(calls[i])' /\ i \in DOMAIN calls
  <2> SUFFICES ASSUME NEW i \in 1 .. inferred PROVE Fits(calls[i])' /\ i \in DOMAIN calls OBVIOUS
  <2>1. i \in DOMAIN calls BY <1>1, <1>2
  <2>2. Fits(calls[i]) BY <1>1 DEF PassChecks
  <2> QED BY <1>1, <2>1, <2>2, FitsStays
<1>5. Fits(calls[k])
  <2>1. SUFFICES ASSUME name # print, Len(params) = Len(declared[name])
                 PROVE  Matches(calls[k].args, declared[name])
    BY DEF Fits
  <2>2. name \in Members(table) BY <1>1, <1>3, CallInInference
  <2>3. DataOf(table, name).defined BY <1>1, <2>2 DEF Inv, AllDefined
  <2>4. ~ InferenceFails(params, Actual(calls[k].args))
    BY <1>1, <2>1, <2>3 DEF InferCall, Infer, Fail, semantic_enabled
  <2> HIDE DEF k
  <2> QED BY <1>1, <1>3, <2>1, <2>4, CheckedCall
<1>6. PICK j \in DOMAIN calls : j = k BY <1>3
<1>7. Fits(calls[j])' BY <1>1, <1>5, <1>6, FitsStays
<1>8. \A i \in 1 .. inferred' : i \in 1 .. inferred \/ i = j BY <1>1, <1>2, <1>6
<1>9. \A i \in 1 .. inferred' : Fits(calls[i])' BY <1>4, <1>7, <1>8
<1> QED BY <1>1, <1>3, <1>9 DEF PassChecks

LEMMA NextKeepsPass ==
  ASSUME Inv, Inv', Agreement, PassChecks, [Next]_vars
  PROVE  PassChecks'
<1>1. CASE InferCall BY <1>1, InferCallKeepsPass
<1>2. CASE EndOfPass
  <2>1. /\ phase = "inference" /\ semantic_enabled /\ semantic_enabled' /\ calls' = calls
        /\ table' = table /\ declared' = declared /\ inferred = Len(calls)
        /\ (inferred' = 0 /\ phase' = phase) \/ (phase' = "accepted" /\ inferred' = inferred)
    BY <1>2 DEF EndOfPass, At, semantic_enabled
  <2>2. calls \in Seq(Calls) BY DEF Inv, TypeOK
  <2>3. \A i \in 1 .. inferred : Fits(calls[i])'
    <3> SUFFICES ASSUME NEW i \in 1 .. inferred PROVE Fits(calls[i])' OBVIOUS
    <3>1. i \in DOMAIN calls BY <2>1, <2>2
    <3>2. Fits(calls[i]) BY <2>1 DEF PassChecks
    <3> QED BY <2>1, <3>1, <3>2, FitsStays
  <2> QED BY <2>1, <2>2, <2>3 DEF PassChecks
<1>3. CASE UNCHANGED vars
  <2>1. ASSUME NEW call, Fits(call) PROVE Fits(call)' BY <1>3, <2>1 DEF Fits, vars
  <2>2. calls' = calls /\ inferred' = inferred /\ phase' = phase /\ semantic_enabled' = semantic_enabled
    BY <1>3 DEF vars, semantic_enabled
  <2> QED BY <2>1, <2>2 DEF PassChecks
<1>4. CASE ~ InferCall /\ ~ EndOfPass /\ ~ UNCHANGED vars
  <2>1. phase \notin {"inference", "accepted"} /\ phase' # "accepted" /\ semantic_enabled
          /\ inferred' = inferred
    <3>1. CASE PrepareBuiltin BY <3>1 DEF PrepareBuiltin, At
    <3>2. CASE \E name \in Keys : Func(name) BY <3>2 DEF Func, At
    <3>3. CASE \E id \in LocalNames, type \in Types : Param(id, type) BY <3>3 DEF Param, At
    <3>4. CASE RetType BY <3>4 DEF RetType, At
    <3>5. CASE \E name \in Keys, args \in ArgumentLists : Call(name, args) BY <3>5 DEF Call, At
    <3>6. CASE EndOfFile BY <3>6 DEF EndOfFile, At
    <3>7. CASE \/ PackageMain \/ EndOfParams \/ OpenBody \/ CloseBody
               \/ CheckFunction \/ AllChecked
      BY <3>7 DEF PackageMain, EndOfParams, OpenBody, CloseBody, CheckFunction, AllChecked, At
    <3> QED BY <1>4, <3>1, <3>2, <3>3, <3>4, <3>5, <3>6, <3>7 DEF Next
  <2>2. inferred' = 0 BY <2>1 DEF PassChecks
  <2>3. calls' \in Seq(Calls) BY DEF Inv, TypeOK
  <2> QED BY <2>1, <2>2, <2>3 DEF PassChecks
<1> QED BY <1>1, <1>2, <1>3, <1>4

(* When the optimiser is through, every call of a function that has no     *)
(* more parameters in the table than its definition lists agrees with the  *)
(* definition in number and types, although the check of a call stops at   *)
(* the first unknown type: after the definition there is none.             *)
THEOREM AcceptedCallsMatch == Spec => []CallsMatchUnlessOverpredicted
<1>1. Init => PassChecks BY InitAgreement
<1>2. Inv /\ Inv' /\ Agreement /\ PassChecks /\ [Next]_vars => PassChecks' BY NextKeepsPass
<1>3. Inv /\ PassChecks => CallsMatchUnlessOverpredicted
  <2> SUFFICES ASSUME Inv, PassChecks, phase = "accepted", semantic_enabled, NEW i \in DOMAIN calls
               PROVE  LET name == calls[i].name
                      IN  name # print /\ Len(DataOf(table, name).params) = Len(declared[name]) =>
                            Matches(calls[i].args, declared[name])
    BY DEF CallsMatchUnlessOverpredicted
  <2>1. calls \in Seq(Calls) BY DEF Inv, TypeOK
  <2>2. i \in 1 .. inferred BY <2>1 DEF PassChecks
  <2>3. Fits(calls[i]) BY <2>2 DEF PassChecks
  <2> QED BY <2>3 DEF Fits
<1> QED BY <1>1, <1>2, <1>3, SpecAgreement, SpecInv, PTL DEF Spec
===============================================================================
