------------------------------- MODULE HashTable -------------------------------
(***************************************************************************)
(* lib/04data_structure/hashtable: open addressing with linear probing.    *)
(*                                                                         *)
(* The three parallel arrays are one function from index to EmptySlot,     *)
(* DeletedSlot or the pair of key object and value object of an occupied   *)
(* slot; that they are three allocations is the matter of TableArrays. An   *)
(* insertion is about an element: its key object and its value object,     *)
(* whose names are <<"key", e>> and <<"value", e>>.  A hash set is a table *)
(* whose values are a byte that nobody owns.                               *)
(***************************************************************************)
EXTENDS RawBuf

CONSTANTS
  KeyOf,         \* what eq compares of an element's key
  Hash,          \* hash of a key
  MinCapacity,   \* HASH_TABLE_MIN_CAPACITY, 8 in the code
  EmptySlot, DeletedSlot

\* The state of a slot is kept apart from what lies in it.
ASSUME HashAssumption ==
  /\ KeyOf \in [Elements -> DOMAIN Hash]
  /\ \A k \in DOMAIN Hash : Hash[k] \in Nat
  /\ MinCapacity \in Nat /\ MinCapacity >= 4
  /\ EmptySlot # DeletedSlot
  /\ {EmptySlot, DeletedSlot} \cap [key : Elements, value : Elements] = {}

Storage(room) == [slots |-> [i \in 0..room - 1 |-> EmptySlot], len |-> 0]

Room(t) == CapOf(t.slots)

Occupied(t, i) == t.slots[i] \notin {EmptySlot, DeletedSlot}

OccupiedSlots(t) == {i \in DOMAIN t.slots : Occupied(t, i)}

\* The three reservations, all granted or the first of them refused.
\* TableArrays has them one by one, and the refusal of a later one.
hash_table_init_storage(n) ==
  {[ok |-> FALSE, c |-> Storage(0), gone |-> {}]} \cup
  (IF Grown(0, n) > MaxCapacity THEN {}
   ELSE {[ok |-> TRUE, c |-> Storage(Grown(0, n)), gone |-> {}]})

should_grow(t) == t.len >= Room(t) - Room(t) \div 4

\* The n-th slot the probe for key k looks at.
Probe(t, k, n) == (Hash[k] + n) % Room(t)

Holds(t, i, k) == Occupied(t, i) /\ KeyOf[t.slots[i].key] = k

Least(S) == CHOOSE n \in S : \A m \in S : n <= m

\* Mutant: a tombstone passed is taken although the key lies behind it.
find_slot_reuse(t, k) ==
  LET ends == {n \in 0..Room(t) - 1 :
                 LET i == Probe(t, k, n) IN ~Occupied(t, i) \/ Holds(t, i, k)}
      end == IF ends = {} THEN Room(t) ELSE Least(ends)
      i == Probe(t, k, end)
  IN [ok |-> ends # {}, found |-> ends # {} /\ Occupied(t, i), index |-> i]

\* The probe ends at an empty slot, at the key, or after all of them; what is
\* not found belongs into the first tombstone passed, or where the probe ended.
find_slot(t, k) ==
  LET ends == {n \in 0..Room(t) - 1 :
                 LET i == Probe(t, k, n)
                 IN t.slots[i] = EmptySlot \/ Holds(t, i, k)}
      end == IF ends = {} THEN Room(t) ELSE Least(ends)
      passed == {n \in 0..end - 1 : t.slots[Probe(t, k, n)] = DeletedSlot}
      found == ends # {} /\ Occupied(t, Probe(t, k, end))
  IN [ok    |-> ends # {} \/ passed # {},
      found |-> found,
      index |-> Probe(t, k, IF passed # {} /\ ~found THEN Least(passed) ELSE end)]

Put(t, i, slot) == [slots |-> [t.slots EXCEPT ![i] = slot], len |-> t.len + 1]

place_move(t, slot) == Put(t, find_slot(t, KeyOf[slot.key]).index, slot)

\* Every occupied slot moved to the new storage, in the order of the slots.
Rehashed(t, new) ==
  LET moved[n \in 0..Room(t)] ==
        IF n = 0 THEN new
        ELSE IF Occupied(t, n - 1) THEN place_move(moved[n - 1], t.slots[n - 1])
        ELSE moved[n - 1]
  IN moved[Room(t)]

hash_table_resize(t, n) ==
  {[r EXCEPT !.c = IF r.ok THEN Rehashed(t, @) ELSE t] :
     r \in hash_table_init_storage(n)}

Whole(e) == [key |-> e, value |-> e]

PutNew(r, e) == IF r.ok THEN [r EXCEPT !.c = place_move(@, Whole(e))] ELSE r

\* Mutant: the caller's key object is forgotten.
Replaced_leak(t, i, e) ==
  [ok |-> TRUE, gone |-> {<<"value", t.slots[i].value>>},
   c |-> [t EXCEPT !.slots[i].value = e]]

\* An existing key keeps its key object; the new one and the old value go.
Replaced(t, i, e) ==
  [ok |-> TRUE, gone |-> {<<"key", e>>, <<"value", t.slots[i].value>>},
   c |-> [t EXCEPT !.slots[i].value = e]]

hash_table_insert(t, e) ==
  LET at == find_slot(t, KeyOf[e])
      same == [ok |-> TRUE, c |-> t, gone |-> {}]
  IN IF ~at.ok THEN {[same EXCEPT !.ok = FALSE]}
     ELSE IF at.found THEN {Replaced(t, at.index, e)}
     ELSE {PutNew(r, e) :
             r \in IF should_grow(t) THEN hash_table_resize(t, 2 * Room(t))
                   ELSE {same}}

\* Mutant: the slot becomes empty, which cuts the probes that went past it.
Vacant_empty(t, i) == [slots |-> [t.slots EXCEPT ![i] = EmptySlot], len |-> t.len - 1]

Vacant(t, i) == [slots |-> [t.slots EXCEPT ![i] = DeletedSlot], len |-> t.len - 1]

SlotObjects(slot) == {<<"key", slot.key>>, <<"value", slot.value>>}

hash_table_remove(t, k) ==
  LET at == find_slot(t, k) IN
  IF at.ok /\ at.found
  THEN {[ok |-> TRUE, c |-> Vacant(t, at.index),
         gone |-> SlotObjects(t.slots[at.index])]}
  ELSE {[ok |-> FALSE, c |-> t, gone |-> {}]}
===============================================================================
