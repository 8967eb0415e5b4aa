----------------------------- MODULE SymbolTable -----------------------------
(***************************************************************************)
(* symtable.c: the chained hash table behind the function table and behind *)
(* the variables of every scope.  A table is the record                    *)
(*   arr   the chain of every slot, head first: a sequence of items        *)
(*         [key, data] for the list linked by `next'                       *)
(*   size  the counter of items                                            *)
(* and an item pointer is the place <<slot, index>> of the item.           *)
(* The data of a function symbol is                                        *)
(*   [defined, params, ret_types, reference_counter]                       *)
(* with the list of parameters as the sequence of their types (params_count *)
(* is its length) and the list of return types as its length: their types  *)
(* are read by the checks of assignments alone.                            *)
(*                                                                         *)
(* symtable_hash is a constant: any hash function.                         *)
(***************************************************************************)
EXTENDS Naturals, Sequences, FiniteSets

CONSTANTS
  Keys,            \* the identifiers
  TABLE_SIZE,      \* arr_size
  symtable_hash,   \* the hash of every key
  Types            \* CF_INT, CF_STRING, ...

ASSUME KeysAssumption == IsFiniteSet(Keys)
ASSUME TableSizeAssumption == TABLE_SIZE \in Nat \ {0}
ASSUME HashAssumption == symtable_hash \in [Keys -> Nat]

CF_UNKNOWN == "CF_UNKNOWN"
ASSUME UnknownAssumption == CF_UNKNOWN \notin Types

DataTypes == Types \union {CF_UNKNOWN}

FunctionData ==
  [defined : BOOLEAN, params : Seq(DataTypes), ret_types : Nat, reference_counter : Nat]
Item == [key : Keys, data : FunctionData]

Slots == 0 .. TABLE_SIZE - 1
Tables == [arr : [Slots -> Seq(Item)], size : Nat]

Slot(key) == symtable_hash[key] % TABLE_SIZE

(* The empty list: symtable_get_first_item and symtable_get_next_item      *)
(* return NULL.                                                            *)
NULL == <<TABLE_SIZE, 0>>

-----------------------------------------------------------------------------
symtable_init == [arr |-> [s \in Slots |-> << >>], size |-> 0]

IsAt(table, key, i) ==
  /\ i \in DOMAIN table.arr[Slot(key)]
  /\ table.arr[Slot(key)][i].key = key

Contains(table, key) == \E i \in DOMAIN table.arr[Slot(key)] : IsAt(table, key, i)

(* The walk along the chain stops at the first item with the key. *)
symtable_find(table, key) ==
  CHOOSE i \in DOMAIN table.arr[Slot(key)] :
    IsAt(table, key, i) /\ \A j \in 1 .. i - 1 : ~IsAt(table, key, j)

DataOf(table, key) == table.arr[Slot(key)][symtable_find(table, key)].data

NewFunction == [defined |-> FALSE, params |-> << >>, ret_types |-> 0, reference_counter |-> 0]

(* A new item becomes the head of its chain.  (Alone, the mutant of        *)
(* symtable_add that does not look for the key first.)                     *)
AddAnyway(table, key) ==
  [arr  |-> [table.arr EXCEPT ![Slot(key)] = << [key |-> key, data |-> NewFunction] >> \o @],
   size |-> table.size + 1]

(* An existing key is refused and the table stays as it was. *)
symtable_add(table, key) == IF Contains(table, key) THEN table ELSE AddAnyway(table, key)

(* A write through the pointer that symtable_find returned. *)
WithData(table, key, data) ==
  [table EXCEPT !.arr[Slot(key)][symtable_find(table, key)].data = data]

(* One call of symtable_add_param for every type of the sequence. *)
symtable_add_params(table, key, types) ==
  WithData(table, key, [DataOf(table, key) EXCEPT !.params = @ \o types])

symtable_add_ret_type(table, key) ==
  WithData(table, key, [DataOf(table, key) EXCEPT !.ret_types = @ + 1])

-----------------------------------------------------------------------------
(* Mutant: the search runs one slot past the end. *)
PastTheEnd(table, from) ==
  <<CHOOSE s \in 0 .. TABLE_SIZE :
      /\ s >= from
      /\ s \in Slots => table.arr[s] # << >>
      /\ \A r \in Slots : from <= r /\ r < s => table.arr[r] = << >>, 1>>

(* The first item of the first slot at or after `from' that has one. *)
FirstFrom(table, from) ==
  IF \A s \in Slots : s >= from => table.arr[s] = << >> THEN NULL
  ELSE <<CHOOSE s \in Slots :
           /\ s >= from
           /\ table.arr[s] # << >>
           /\ \A r \in Slots : from <= r /\ r < s => table.arr[r] = << >>, 1>>

(* Mutant: slot 0 is not looked at. *)
SecondSlotFirst(table) == FirstFrom(table, 1)

symtable_get_first_item(table) == FirstFrom(table, 0)

ItemAt(table, item) == table.arr[item[1]][item[2]]

(* The rest of the chain, then the slots after the one the key hashes to. *)
symtable_get_next_item(table, item) ==
  IF item[2] < Len(table.arr[item[1]]) THEN <<item[1], item[2] + 1>>
  ELSE FirstFrom(table, Slot(ItemAt(table, item).key) + 1)

(* The iteration passes the item at a place before it reaches `item'. *)
IsBefore(place, item) ==
  place[1] < item[1] \/ (place[1] = item[1] /\ place[2] < item[2])

-----------------------------------------------------------------------------
InItsSlot(table) == \A s \in Slots : \A i \in DOMAIN table.arr[s] : Slot(table.arr[s][i].key) = s

OncePerKey(table) ==
  \A s \in Slots : \A i, j \in DOMAIN table.arr[s] :
    table.arr[s][i].key = table.arr[s][j].key => i = j

Members(table) == {key \in Keys : Contains(table, key)}

SizeIsRight(table) == table.size = Cardinality(Members(table))

WellFormed(table) == InItsSlot(table) /\ OncePerKey(table) /\ SizeIsRight(table)
=============================================================================
