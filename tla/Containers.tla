------------------------------ MODULE Containers ------------------------------
(***************************************************************************)
(* A client of one container of lib/04data_structure that calls its        *)
(* operations in any order, clones it, drops it and starts again, with     *)
(* every allocation that may fail failing or not.  kind says which         *)
(* container it is and never changes.                                      *)
(*                                                                         *)
(* A call is one step, except that the loops of clear, drop and clone take *)
(* a step for each turn.  The elements are owned objects, of which copy    *)
(* elements are the simpler case: a drop does nothing, a clone never fails.*)
(***************************************************************************)
EXTENDS Vec, Deque, LinkedList, HashTable

CONSTANTS
  Offered,    \* for each kind of container to try, the elements there are
  Zeroable,   \* those that may be dropped when all zero
  Reserves,   \* how many more slots the client reserves
  NoCopy

VARIABLES
  kind,    \* which container
  c,       \* the container
  copy,    \* its clone, whole or unfinished
  live,    \* history: objects made and not dropped or given back
  copies,  \* history: the same for the clones of objects
  call     \* the call that runs; goal is the length a clear is to leave

containerVars == <<kind, c, copy, live, copies, call>>

Deques == {"deque", "queue", "stack", "ring"}
Tables == {"table", "set"}

ASSUME OfferAssumption ==
  /\ DOMAIN Offered \subseteq {"vec", "list"} \cup Deques \cup Tables
  /\ \A k \in DOMAIN Offered : Offered[k] \subseteq Elements
  /\ Reserves \subseteq Nat

\* NoCopy is neither a sequence or a map nor a container that holds one.
ASSUME NoCopyAssumption ==
  LET Buffers(S) == UNION {[0..n - 1 -> S] : n \in 0..MaxCapacity}
      Slots == Elements \cup {Blank}
      Index == Nat \cup {None}
      Nodes == [prev : Index, next : Index, value : Slots]
      Pairs == [key : Elements, value : Elements] \cup {EmptySlot, DeletedSlot}
  IN /\ NoCopy \notin Seq(Elements)
     /\ \A keys \in SUBSET DOMAIN Hash : NoCopy \notin [keys -> Elements]
     /\ NoCopy \notin [buf : Buffers(Slots), size : Nat]
     /\ NoCopy \notin [buf : Buffers(Slots), first : Nat, last : Nat, len : Nat]
     /\ NoCopy \notin [buf : Buffers(Nodes), first : Index, last : Index,
                        free : Index, len : Nat]
     /\ NoCopy \notin [slots : Buffers(Pairs), len : Nat]

Running(op, n) == [op |-> op, goal |-> n]
Idle == Running("none", 0)

\* The keys of a set are objects, its markers are not.
Owned(objects) == IF kind = "set" THEN {o \in objects : o[1] = "key"} ELSE objects

SeqOf(x) ==
  CASE kind = "vec" -> VecContents(x)
    [] kind \in Deques -> DequeContents(x)
    [] kind = "list" -> ListContents(x)
    [] OTHER -> <<>>

Objects(x) ==
  IF x = NoCopy THEN {}
  ELSE IF kind \in Tables
  THEN UNION {Owned(SlotObjects(x.slots[i])) : i \in OccupiedSlots(x)}
  ELSE {SeqOf(x)[i] : i \in DOMAIN SeqOf(x)}

ObjectsOf(e) == IF kind \in Tables THEN Owned(SlotObjects(Whole(e))) ELSE {e}

\* Elements of which the caller has a key and a value to give.
Fresh == {e \in Offered[kind] : ObjectsOf(e) \cap live = {}}

\* T_new; a table and a ring buffer allocate, the others do not yet.
NewOf ==
  CASE kind = "vec" -> {[ok |-> TRUE, c |-> vec_new]}
    [] kind = "ring" -> ring_buffer_new
    [] kind \in Deques \ {"ring"} -> {[ok |-> TRUE, c |-> deque_new]}
    [] kind = "list" -> {[ok |-> TRUE, c |-> linked_list_new]}
    [] kind \in Tables -> hash_table_init_storage(MinCapacity)

\* memset of the object at the end of a drop, or after it was moved from.
Zeroed ==
  CASE kind = "vec" -> vec_new
    [] kind \in Deques -> deque_new
    [] kind = "list" -> ZeroedList
    [] kind \in Tables -> Storage(0)

ContainersInit ==
  /\ kind \in DOMAIN Offered
  /\ c = Zeroed /\ call = Running("zero", 0)
  /\ copy = NoCopy /\ live = {} /\ copies = {}

New ==
  /\ call.op = "zero"
  /\ \E r \in NewOf : r.ok /\ c' = r.c
  /\ call' = Idle
  /\ UNCHANGED <<kind, copy, live, copies>>
-------------------------------------------------------------------------------
(* Calls of one step *)

\* One of the outcomes, made the state; made is what the caller gave away.
Calls(outcomes, made) ==
  /\ call = Idle
  /\ \E r \in outcomes :
       /\ c' = r.c
       /\ live' = (IF r.ok THEN live \cup made ELSE live) \ r.gone
  /\ UNCHANGED <<kind, copy, copies, call>>

PushBack ==
  \E e \in Fresh :
    \/ kind = "vec" /\ Calls(vec_insert(c, c.size, e), {e})
    \/ kind \in {"deque", "queue", "stack"} /\ Calls(deque_push_back(c, e), {e})
    \/ kind = "ring" /\ Calls(ring_buffer_push(c, e), {e})
    \/ kind = "list" /\ Calls(linked_list_push_back(c, e), {e})

PushFront ==
  \E e \in Fresh :
    \/ kind = "deque" /\ Calls(deque_push_front(c, e), {e})
    \/ kind = "list" /\ Calls(linked_list_push_front(c, e), {e})

PopFront ==
  \/ kind \in {"deque", "queue", "ring"} /\ c.len > 0 /\ Calls(deque_pop_front(c), {})
  \/ kind = "list" /\ c.first # None /\ Calls(linked_list_remove(c, c.first), {})

PopBack ==
  \/ kind = "vec" /\ c.size > 0 /\ Calls(vec_pop(c), {})
  \/ kind \in {"deque", "stack"} /\ c.len > 0 /\ Calls(deque_pop_back(c), {})
  \/ kind = "list" /\ c.last # None /\ Calls(linked_list_remove(c, c.last), {})

VecAt ==
  /\ kind = "vec"
  /\ \/ \E i \in 0..c.size, e \in Fresh : Calls(vec_insert(c, i, e), {e})
     \/ \E i \in 0..c.size - 1, e \in Fresh : Calls(vec_set(c, i, e), {e})
     \/ \E i \in 0..c.size - 1 : Calls(vec_remove(c, i), {})
     \/ \E i \in 0..c.size - 1 : Calls(vec_swap_remove(c, i), {})

\* The index is the caller's and may be stale.
ListRemove ==
  kind = "list" /\ \E i \in DOMAIN c.buf : Calls(linked_list_remove(c, i), {})

Reserve ==
  \E n \in Reserves :
    \/ kind = "vec" /\ Calls(vec_reserve(c, n), {})
    \/ kind \in Deques \ {"ring"} /\ Calls(deque_reserve(c, n), {})
    \/ kind = "list" /\ Calls(linked_list_reserve(c, n), {})

TableCall ==
  /\ kind \in Tables
  /\ \/ \E e \in Fresh : Calls(hash_table_insert(c, e), ObjectsOf(e))
     \/ \E k \in DOMAIN Hash : Calls(hash_table_remove(c, k), {})
-------------------------------------------------------------------------------
(* The loops *)

\* One turn of the loop of T_clear.
ClearTurn(x) ==
  CASE kind = "vec" -> vec_pop(x)
    [] kind \in Deques -> deque_pop_back(x)
    [] kind = "list" -> linked_list_remove(x, x.first)
    [] kind \in Tables ->
         LET i == Least({j \in DOMAIN x.slots : x.slots[j] # EmptySlot})
         IN {[c |-> [x EXCEPT !.slots[i] = EmptySlot],
              gone |-> IF Occupied(x, i) THEN SlotObjects(x.slots[i]) ELSE {}]}

Cleared(x) ==
  CASE kind = "vec" -> x.size <= call.goal
    [] kind \in Deques -> x.len = 0
    [] kind = "list" -> x.first = None
    [] kind \in Tables -> \A i \in DOMAIN x.slots : x.slots[i] = EmptySlot

Truncate ==
  /\ call = Idle
  /\ \E n \in IF kind = "vec" THEN 0..c.size ELSE {0} : call' = Running("clear", n)
  /\ UNCHANGED <<kind, c, copy, live, copies>>

\* From "zero": the drop of an object that was moved from, or dropped before.
Drop ==
  /\ call = Idle \/ (call.op = "zero" /\ kind \in Zeroable)
  /\ call' = Running("drop", 0)
  /\ UNCHANGED <<kind, c, copy, live, copies>>

ClearGoesOn ==
  /\ call.op \in {"clear", "drop"} /\ ~Cleared(c)
  /\ \E r \in ClearTurn(c) : c' = r.c /\ live' = live \ r.gone
  /\ UNCHANGED <<kind, copy, copies, call>>

ClearEnds ==
  /\ call.op \in {"clear", "drop"} /\ Cleared(c)
  /\ IF call.op = "drop" THEN c' = Zeroed /\ call' = Running("zero", 0)
     ELSE /\ c' = IF kind \in Tables THEN [c EXCEPT !.len = 0] ELSE c
          /\ call' = Idle
  /\ UNCHANGED <<kind, copy, live, copies>>
-------------------------------------------------------------------------------
(* Clone *)

\* The copy's storage: as much as the source holds, for a table as much room.
CloneStorage ==
  CASE kind = "vec" -> vec_reserve(vec_new, c.size)
    [] kind \in Deques -> deque_reserve(deque_new, c.len)
    [] kind = "list" -> linked_list_reserve(linked_list_new, c.len)
    [] kind \in Tables -> hash_table_init_storage(Room(c))

Clone ==
  /\ call = Idle
  /\ \E r \in CloneStorage : r.ok /\ copy' = r.c
  /\ call' = Running("clone", 0)
  /\ UNCHANGED <<kind, c, live, copies>>

Cloned == IF kind \in Tables THEN copy.len = c.len ELSE Len(SeqOf(copy)) = Len(SeqOf(c))

\* The slot the loop over a table's slots is at.
NextSlot == c.slots[Least({i \in OccupiedSlots(c) :
                    Cardinality({j \in OccupiedSlots(c) : j < i}) = copy.len})]

\* What obj_clone and the push do for the next element.
CloneTurn ==
  IF kind \in Tables
  THEN {[ok |-> TRUE, made |-> Owned(SlotObjects(NextSlot)),
         c |-> place_move(copy, NextSlot)]}
  ELSE LET e == SeqOf(c)[Len(SeqOf(copy)) + 1] IN
       {[ok |-> r.ok, made |-> {e}, c |-> r.c] :
          r \in CASE kind = "vec" ->
                       {[ok |-> TRUE, c |-> [buf  |-> [copy.buf EXCEPT ![copy.size] = e],
                                             size |-> copy.size + 1]]}
                  [] kind \in Deques -> deque_push_back(copy, e)
                  [] kind = "list" -> linked_list_push_back(copy, e)}

CloneGoesOn ==
  /\ call.op = "clone" /\ ~Cloned
  /\ \E r \in CloneTurn :
       r.ok /\ copy' = r.c /\ copies' = copies \cup r.made
  /\ UNCHANGED <<kind, c, live, call>>

CloneEnds ==
  /\ call.op = "clone" /\ Cloned
  /\ call' = Running("cloned", 0)
  /\ UNCHANGED <<kind, c, copy, live, copies>>

\* An element could not be cloned, the push of its clone was refused, or, for
\* a set, its own object could not be allocated after the table was copied.
CloneFails ==
  /\ call.op = "clone" /\ (Cloned => kind = "set")
  /\ call' = Running("undo", 0)
  /\ UNCHANGED <<kind, c, copy, live, copies>>

\* With two containers the program keeps one: the other is dropped.
Keep ==
  /\ call.op = "cloned"
  /\ call' = Running("undo", 0)
  /\ \/ UNCHANGED <<c, copy, live, copies>>
     \/ c' = copy /\ copy' = c /\ live' = copies /\ copies' = live
  /\ UNCHANGED kind

UndoGoesOn ==
  /\ call.op = "undo" /\ ~Cleared(copy)
  /\ \E r \in ClearTurn(copy) : copy' = r.c /\ copies' = copies \ r.gone
  /\ UNCHANGED <<kind, c, live, call>>

UndoEnds ==
  /\ call.op = "undo" /\ Cleared(copy)
  /\ copy' = NoCopy /\ call' = Idle
  /\ UNCHANGED <<kind, c, live, copies>>

Turn ==
  \/ ClearGoesOn \/ ClearEnds
  \/ CloneGoesOn \/ CloneEnds \/ CloneFails
  \/ UndoGoesOn \/ UndoEnds

ContainersNext ==
  \/ New \/ PushBack \/ PushFront \/ PopFront \/ PopBack
  \/ VecAt \/ ListRemove \/ Reserve \/ TableCall
  \/ Truncate \/ Drop \/ Clone \/ Keep \/ Turn

ContainersSpec == ContainersInit /\ [][ContainersNext]_containerVars

\* A loop that was begun goes on: it runs in the caller's context.
ContainersFairSpec == ContainersSpec /\ WF_containerVars(Turn)
-------------------------------------------------------------------------------
Ending == call.op \in {"clear", "drop", "zero"}

\* Seen from outside each sequence container is its sequence: operations act at
\* the ends and places they name, growth and wrapping show nowhere, a refused
\* call changes nothing, and a finished clone equals its source.
AsSequence == INSTANCE SequenceSpec WITH
  seq    <- SeqOf(c),
  twin   <- IF call.op = "cloned" THEN SeqOf(copy) ELSE NoCopy,
  ending <- IF Ending THEN call.goal ELSE -1,
  NoTwin <- NoCopy

KeepsSequence == AsSequence!Sequence

MapOf(x) ==
  LET At(k) == {i \in OccupiedSlots(x) : KeyOf[x.slots[i].key] = k}
  IN [k \in {KeyOf[x.slots[i].key] : i \in OccupiedSlots(x)} |->
        x.slots[Least(At(k))].value]

\* Seen from outside the table is a map, through collisions, tombstones,
\* replaced values, and resizes that are refused or move everything.
AsMap == INSTANCE MapSpec WITH
  map    <- IF kind \in Tables THEN MapOf(c) ELSE [k \in {} |-> 0],
  twin   <- IF call.op = "cloned" /\ kind \in Tables THEN MapOf(copy) ELSE NoCopy,
  ending <- Ending,
  NoTwin <- NoCopy

KeepsMap == AsMap!Map

\* Every key in the table is found where it lies, from wherever its probe
\* starts and whatever was removed on the way; a slot is left for the next key;
\* and len is what the load limit has to know.
KeysReachable ==
  \A t \in {x \in {c, copy} : kind \in Tables /\ x # NoCopy} :
    /\ \A i \in OccupiedSlots(t) :
         call.op \in {"none", "clone", "cloned"} =>
           find_slot(t, KeyOf[t.slots[i].key]) = [ok |-> TRUE, found |-> TRUE, index |-> i]
    /\ call.op \in {"none", "clone", "cloned"} =>
         t.len = Cardinality(OccupiedSlots(t)) /\ t.len < Room(t)

\* The links of the list are the same in both directions, and every node that
\* is not in it is in the free list once.
ListWhole ==
  \A l \in {x \in {c, copy} : kind = "list" /\ x # NoCopy /\ x # ZeroedList} :
    LET used == {Forward(l, n) : n \in 1..l.len}
        spare == Cardinality(DOMAIN l.buf) - l.len
        free[n \in 1..spare + 1] == IF n = 1 THEN l.free ELSE l.buf[free[n - 1]].next
    IN /\ \A n \in 1..l.len : Forward(l, n) = Backward(l, l.len + 1 - n)
       /\ used = {i \in DOMAIN l.buf : is_active(l, i)}
       /\ {free[n] : n \in 1..spare} = DOMAIN l.buf \ used
       /\ free[spare + 1] = None

\* How many objects the container is to own.
CountOf(x) ==
  IF x = NoCopy THEN 0
  ELSE IF kind = "table" THEN 2 * Cardinality(OccupiedSlots(x))
  ELSE IF kind = "set" THEN Cardinality(OccupiedSlots(x))
  ELSE Len(SeqOf(x))

\* Every object that was made and not given back is in the container, and in
\* one place of it: nothing leaks, nothing is dropped twice or owned by two,
\* also when a push, a resize or a clone failed half-way.
OwnedOnce ==
  /\ live = Objects(c) /\ Cardinality(live) = CountOf(c)
  /\ copies = Objects(copy) /\ Cardinality(copies) = CountOf(copy)

\* Every clear, drop and clone that was begun ends.
EveryCallEnds == call.op \in {"clear", "drop", "clone", "undo"} ~> call.op \in {"none", "zero", "cloned"}
===============================================================================
