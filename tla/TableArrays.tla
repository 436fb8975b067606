------------------------------ MODULE TableArrays ------------------------------
(***************************************************************************)
(* lib/04data_structure/hashtable as the three arrays it is: keys, values  *)
(* and states, each a block of its own that malloc grants or refuses.      *)
(* HashTable has one step where hash_table_init_storage reserves three     *)
(* times; here each reservation is a step, a refusal runs hash_table_drop  *)
(* over the table as far as it is built, and the loops over the slots take *)
(* a step for each turn.                                                   *)
(*                                                                         *)
(* A raw buffer is the block it points to and its capacity.  A block is a  *)
(* function from 0..n - 1, Blank where nothing was written; allocated has  *)
(* those that were granted and not freed.  Through NULL, or a block that   *)
(* was freed, no slot can be reached, and the model has no step for a call *)
(* that reads or writes there: C does not define one.                      *)
(***************************************************************************)
EXTENDS HashTable, Functions, TLC

CONSTANTS
  Blocks,     \* what malloc can grant
  Null,
  Refusable,  \* the arrays malloc may refuse
  Used        \* the state byte of an occupied slot

ASSUME BlocksAssumption ==
  /\ IsFiniteSet(Blocks) /\ Cardinality(Blocks) >= 6 /\ Null \notin Blocks
  /\ Refusable \subseteq {"keys", "values", "states"}
  /\ Used \notin {EmptySlot, DeletedSlot, Blank}

VARIABLES
  allocated,  \* the blocks granted and not freed
  table,      \* the client's HashTable
  made,       \* the one being made: of hash_table_new, resize or clone
  call,       \* the call that runs, its step, the slot its loop is at (i) and the one
              \* an insertion is to use (at)
  shown       \* history: the table as its client saw it when it last had it

arrayVars == <<allocated, table, made, call, shown>>

Unallocated == [data |-> Null, cap |-> 0]
ZeroedTable == [keys |-> Unallocated, values |-> Unallocated,
                states |-> Unallocated, len |-> 0]

Idle == [op |-> "none", step |-> "none", i |-> 0, at |-> 0, element |-> Blank]

\* What can be reached through a buffer.
Reached(buf) == IF buf.data \in DOMAIN allocated THEN allocated[buf.data] ELSE raw_buf_new

BlocksOf(x) == {x.keys.data, x.values.data, x.states.data} \ {Null}

Freed(blocks) == Restrict(allocated, DOMAIN allocated \ blocks)

\* The slots of the three arrays as HashTable has them.
View(x) ==
  [slots |-> [i \in 0..x.keys.cap - 1 |->
                IF Reached(x.states)[i] = Used
                THEN [key |-> Reached(x.keys)[i], value |-> Reached(x.values)[i]]
                ELSE Reached(x.states)[i]],
   len   |-> x.len]

\* The blocks with one slot of a table written.
SlotSet(h, x, i, key, value, state) ==
  [h EXCEPT ![x.keys.data][i] = key, ![x.values.data][i] = value,
            ![x.states.data][i] = state]

\* The call gives the table back to its client.
Returns == call' = Idle /\ shown' = View(table)'

ArraysInit ==
  /\ allocated = [b \in {} |-> raw_buf_new]
  /\ table = ZeroedTable /\ made = ZeroedTable
  /\ call = Idle
  /\ shown = Storage(0)
-------------------------------------------------------------------------------
(* The calls begin *)

Begin(op, step, at, e) ==
  call' = [op |-> op, step |-> step, i |-> 0, at |-> at, element |-> e]

Ready == call = Idle /\ table # ZeroedTable

\* Elements of which the client has a key and a value to give.
Fresh == {e \in Elements :
            \A i \in OccupiedSlots(View(table)) :
              e \notin {View(table).slots[i].key, View(table).slots[i].value}}

New ==
  /\ call = Idle /\ table = ZeroedTable
  /\ Begin("new", "keys", 0, Blank)
  /\ UNCHANGED <<allocated, table, made, shown>>

Clone ==
  /\ Ready
  /\ Begin("clone", "keys", 0, Blank)
  /\ UNCHANGED <<allocated, table, made, shown>>

\* The slot is looked up before the table grows.
InsertBegins(e) ==
  /\ Ready
  /\ LET at == find_slot(View(table), KeyOf[e]) IN
     /\ at.ok /\ ~at.found
     /\ Begin("insert", IF should_grow(View(table)) THEN "keys" ELSE "put", at.index, e)
  /\ UNCHANGED <<allocated, table, made, shown>>

InsertReplaces(e) ==
  /\ Ready
  /\ LET at == find_slot(View(table), KeyOf[e]) IN
     /\ at.ok /\ at.found
     /\ allocated' = [allocated EXCEPT ![table.values.data][at.index] = e]
  /\ UNCHANGED <<table, made>>
  /\ Returns

RemoveKey(k) ==
  /\ Ready
  /\ LET at == find_slot(View(table), k) IN
     /\ at.ok /\ at.found
     /\ allocated' = SlotSet(allocated, table, at.index, Blank, Blank, DeletedSlot)
  /\ table' = [table EXCEPT !.len = @ - 1]
  /\ UNCHANGED made
  /\ Returns

\* hash_table_clear, or hash_table_drop, which clears first.
Clear ==
  /\ Ready
  /\ \E op \in {"clear", "drop"} : Begin(op, "clear", 0, Blank)
  /\ UNCHANGED <<allocated, table, made, shown>>
-------------------------------------------------------------------------------
(* hash_table_init_storage *)

\* The capacity asked for: an insertion doubles, a clone takes the source's.
Capacity ==
  CASE call.op = "new"    -> MinCapacity
    [] call.op = "clone"  -> table.keys.cap
    [] call.op = "insert" -> 2 * table.keys.cap

After(array) ==
  CASE array = "keys" -> "values" [] array = "values" -> "states" [] array = "states" -> "fill"

\* One of the three reservations; the later two ask for as much as the keys got.
\* Which free block malloc takes makes no difference.
Reserve(array) ==
  /\ call.step = array
  /\ LET room == Grown(0, IF array = "keys" THEN Capacity ELSE made.keys.cap)
         block == CHOOSE b \in Blocks : b \notin DOMAIN allocated
     IN \/ /\ room <= MaxCapacity
           /\ allocated' = (block :> Extended(raw_buf_new, room)) @@ allocated
           /\ made' = [made EXCEPT ![array] = [data |-> block, cap |-> room]]
           /\ call' = [call EXCEPT !.step = After(array)]
        \/ /\ array \in Refusable \/ room > MaxCapacity
           /\ call' = [call EXCEPT !.step = "clear", !.i = 0]
           /\ UNCHANGED <<allocated, made>>
  /\ UNCHANGED <<table, shown>>

\* memset of the states.  hash_table_new is done, the others move slots.
Fill ==
  /\ call.step = "fill"
  /\ allocated' = [allocated EXCEPT ![made.states.data] = [i \in DOMAIN @ |-> EmptySlot]]
  /\ IF call.op = "new"
     THEN table' = made /\ made' = ZeroedTable /\ Returns
     ELSE /\ call' = [call EXCEPT !.step = "move", !.i = 0]
          /\ UNCHANGED <<table, made, shown>>
-------------------------------------------------------------------------------
(* The loops of hash_table_resize and hash_table_clone_obj *)

Moving == call.step = "move" /\ call.i < table.keys.cap

SkipSlot ==
  /\ Moving /\ ~Occupied(View(table), call.i)
  /\ call' = [call EXCEPT !.i = @ + 1]
  /\ UNCHANGED <<allocated, table, made, shown>>

\* hash_table_place_move: of the slot itself, which obj_move leaves zero, or of
\* the clones of its objects.
PlaceSlot ==
  /\ Moving /\ Occupied(View(table), call.i)
  /\ LET slot == View(table).slots[call.i]
         at == find_slot(View(made), KeyOf[slot.key]).index
         placed == SlotSet(allocated, made, at, slot.key, slot.value, Used)
     IN allocated' = IF call.op = "clone" THEN placed
                ELSE SlotSet(placed, table, call.i, Blank, Blank, Used)
  /\ made' = [made EXCEPT !.len = @ + 1]
  /\ call' = [call EXCEPT !.i = @ + 1]
  /\ UNCHANGED <<table, shown>>

\* The key, or the value, could not be cloned.
CloneFails ==
  /\ Moving /\ call.op = "clone" /\ Occupied(View(table), call.i)
  /\ call' = [call EXCEPT !.step = "clear", !.i = 0]
  /\ UNCHANGED <<allocated, table, made, shown>>

Moved == call.step = "move" /\ call.i = table.keys.cap

\* Mutant: the old states array is forgotten.
Adopt_leak ==
  /\ Moved /\ call.op = "insert"
  /\ table' = made /\ made' = ZeroedTable
  /\ allocated' = Freed({table.keys.data, table.values.data})
  /\ call' = [call EXCEPT !.step = "put",
                          !.at = find_slot(View(made), KeyOf[call.element]).index]
  /\ UNCHANGED shown

\* Mutant: the slot found before the table grew is used after it.
Adopt_stale ==
  /\ Moved /\ call.op = "insert"
  /\ table' = made /\ made' = ZeroedTable
  /\ allocated' = Freed(BlocksOf(table))
  /\ call' = [call EXCEPT !.step = "put"]
  /\ UNCHANGED shown

\* The new arrays take the place of the old, which are freed; the insertion
\* looks its key up again.
Adopt ==
  /\ Moved /\ call.op = "insert"
  /\ table' = made /\ made' = ZeroedTable
  /\ allocated' = Freed(BlocksOf(table))
  /\ call' = [call EXCEPT !.step = "put",
                          !.at = find_slot(View(made), KeyOf[call.element]).index]
  /\ UNCHANGED shown

InsertPuts ==
  /\ call.step = "put"
  /\ allocated' = SlotSet(allocated, table, call.at, call.element, call.element, Used)
  /\ table' = [table EXCEPT !.len = @ + 1]
  /\ UNCHANGED made
  /\ Returns

\* Of the clone and its source the client keeps one and drops the other.
Keep ==
  /\ Moved /\ call.op = "clone"
  /\ \/ UNCHANGED <<table, made>>
     \/ table' = made /\ made' = table
  /\ Begin("drop_other", "clear", 0, Blank)
  /\ UNCHANGED <<allocated, shown>>
-------------------------------------------------------------------------------
(* hash_table_clear and hash_table_drop *)

\* The table the loop runs over.
Cleared == IF call.op \in {"clear", "drop"} THEN table ELSE made

MoreSlots(x) == call.i < x.keys.cap

\* One turn reads states[i] and writes it, whatever the array is.
ClearSlot ==
  /\ call.step = "clear" /\ MoreSlots(Cleared)
  /\ call.i \in DOMAIN Reached(Cleared.states)
  /\ allocated' = IF Reached(Cleared.states)[call.i] = Used
             THEN SlotSet(allocated, Cleared, call.i, Blank, Blank, EmptySlot)
             ELSE [allocated EXCEPT ![Cleared.states.data][call.i] = EmptySlot]
  /\ call' = [call EXCEPT !.i = @ + 1]
  /\ UNCHANGED <<table, made, shown>>

\* The end of the loop; a drop frees what there is of the three arrays.
ClearEnds ==
  /\ call.step = "clear" /\ ~MoreSlots(Cleared)
  /\ CASE call.op = "clear" -> /\ table' = [table EXCEPT !.len = 0]
                               /\ UNCHANGED <<allocated, made>>
       [] call.op = "drop"  -> /\ allocated' = Freed(BlocksOf(table))
                               /\ table' = ZeroedTable
                               /\ UNCHANGED made
       [] OTHER             -> /\ allocated' = Freed(BlocksOf(made))
                               /\ made' = ZeroedTable
                               /\ UNCHANGED table
  /\ Returns

ArraysNext ==
  \/ New \/ Clone \/ Clear
  \/ \E e \in Fresh : InsertBegins(e) \/ InsertReplaces(e)
  \/ \E k \in DOMAIN Hash : RemoveKey(k)
  \/ \E array \in {"keys", "values", "states"} : Reserve(array)
  \/ Fill \/ SkipSlot \/ PlaceSlot \/ CloneFails \/ Adopt \/ InsertPuts \/ Keep
  \/ ClearSlot \/ ClearEnds

ArraysSpec == ArraysInit /\ [][ArraysNext]_arrayVars
-------------------------------------------------------------------------------
\* The loop of hash_table_clear stays inside the states array, also where it
\* runs over a table that is built only in part.
ClearInside ==
  call.step = "clear" /\ MoreSlots(Cleared) => call.i \in DOMAIN Reached(Cleared.states)

\* A clone for which there is no memory gets through the drop of what there is
\* of it, and so to its answer: Obj.md asks for NULL.
CloneAnswers == call.op = "clone" => ClearInside

\* Every block that was granted and not freed is one array of the table, or of
\* the one being made, and has the slots its buffer says: a resize, a refusal
\* and a clone that fails leak nothing, and free nothing that is still used.
ArraysOwned ==
  LET Buffer(place) == IF place[1] = "table" THEN table[place[2]] ELSE made[place[2]]
      places == {place \in {"table", "made"} \X {"keys", "values", "states"} :
                  Buffer(place) # Unallocated}
  IN /\ DOMAIN allocated = {Buffer(place).data : place \in places}
     /\ Cardinality(places) = Cardinality(DOMAIN allocated)
     /\ \A place \in places : CapOf(Reached(Buffer(place))) = Buffer(place).cap

\* From call to call the three arrays are the table of HashTable: reservations
\* one after another, a loop that moves slots into a table half full, objects
\* moved out of slots whose state still says they are there, show nowhere, and
\* a refused call changes nothing.
AsTable == INSTANCE TableSpec WITH t <- shown

ActsAsTable == AsTable!Table
===============================================================================
