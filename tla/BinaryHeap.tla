------------------------------ MODULE BinaryHeap ------------------------------
(***************************************************************************)
(* lib/04data_structure/binary_heap: the array that timer_queue is, with   *)
(* one step for every turn of the loops of sift_up and sift_down.          *)
(*                                                                         *)
(* An element is an object with an identity, which is what obj_move moves; *)
(* two of the same Rank are equal to cmp.  data is the part of the storage *)
(* that holds elements.                                                    *)
(***************************************************************************)
EXTENDS Integers

CONSTANTS
  Items,    \* the elements
  Rank,     \* cmp(a, b) > 0 iff Rank[a] > Rank[b]
  NoItem,
  MaxCap    \* (usize)-1 / elem_size, the largest capacity there can be

ASSUME HeapAssumption ==
  /\ Rank \in [Items -> Int]
  /\ NoItem \notin Items
  /\ MaxCap \in Nat

VARIABLES
  data,    \* the elements of raw.data, from index 0
  len,     \* heap.len
  cap,     \* raw.cap
  pc,      \* the loop that runs
  index,   \* its index
  last     \* history: the last call and the element it was about

heapVars == <<data, len, cap, pc, index>>
vars == <<heapVars, last>>

Answer(call, x) == [call |-> call, item |-> x]

Above(a, b) == Rank[a] > Rank[b]

Parent(i) == (i - 1) \div 2

Members == {data[i] : i \in 0..len - 1}

Swap(i, j) == data' = [data EXCEPT ![i] = data[j], ![j] = data[i]]

\* The array one shorter, its last element moved to i.
Moved(i) == [j \in 0..len - 2 |-> IF j = i THEN data[len - 1] ELSE data[j]]

Returned == pc' = "idle" /\ index' = 0

SiftFrom(loop, i) == pc' = loop /\ index' = i

Init ==
  /\ data = [i \in {} |-> NoItem] /\ len = 0 /\ cap = 0
  /\ pc = "idle" /\ index = 0
  /\ last = Answer("new", NoItem)
-------------------------------------------------------------------------------
(* The two loops *)

sift_up ==
  /\ pc = "up"
  /\ LET parent == Parent(index) IN
     IF index > 0 /\ Above(data[index], data[parent])
     THEN Swap(index, parent) /\ SiftFrom("up", parent)
     ELSE Returned /\ UNCHANGED data
  /\ UNCHANGED <<len, cap, last>>

Better(i, j) == IF j < len /\ Above(data[j], data[i]) THEN j ELSE i

Best(i) == Better(Better(i, 2 * i + 1), 2 * i + 2)

sift_down ==
  /\ pc = "down"
  /\ IF Best(index) # index
     THEN Swap(index, Best(index)) /\ SiftFrom("down", Best(index))
     ELSE Returned /\ UNCHANGED data
  /\ UNCHANGED <<len, cap, last>>
-------------------------------------------------------------------------------
(* The operations *)

\* raw_buf_reserve, when the allocator has memory; how much more than n it
\* takes does not matter here.
raw_buf_reserve(n) == cap' \in IF n <= cap THEN {cap} ELSE n..MaxCap

binary_heap_reserve(additional) ==
  /\ pc = "idle"
  /\ raw_buf_reserve(len + additional)
  /\ UNCHANGED <<data, len, pc, index, last>>

binary_heap_push(x) ==
  /\ pc = "idle"
  /\ x \notin Members
  /\ \/ /\ raw_buf_reserve(len + 1)
        /\ data' = [i \in 0..len |-> IF i = len THEN x ELSE data[i]]
        /\ len' = len + 1
        /\ SiftFrom("up", len)
        /\ last' = Answer("pushed", x)
     \/ /\ len = cap
        /\ last' = Answer("refused", x)
        /\ UNCHANGED heapVars

\* Mutant: the last element is put at the root before the root was moved out.
binary_heap_pop_late ==
  /\ pc = "idle"
  /\ IF len = 0
     THEN last' = Answer("empty", NoItem) /\ UNCHANGED heapVars
     ELSE /\ last' = Answer("popped", data[len - 1])
          /\ data' = Moved(0)
          /\ len' = len - 1
          /\ IF len > 1 THEN SiftFrom("down", 0) ELSE Returned
          /\ UNCHANGED cap

binary_heap_pop ==
  /\ pc = "idle"
  /\ IF len = 0
     THEN last' = Answer("empty", NoItem) /\ UNCHANGED heapVars
     ELSE /\ last' = Answer("popped", data[0])
          /\ data' = Moved(0)
          /\ len' = len - 1
          /\ IF len > 1 THEN SiftFrom("down", 0) ELSE Returned
          /\ UNCHANGED cap

\* Mutant: what fills the hole is only ever sifted down.
SiftHole_down(i) ==
  IF i = len - 1 THEN Returned ELSE SiftFrom("down", i)

\* Nothing to do where the last element itself went; otherwise what filled
\* the hole goes up if it is above its parent, and down if it is not.
SiftHole(i) ==
  IF i = len - 1 THEN Returned
  ELSE IF i > 0 /\ Above(data[len - 1], data[Parent(i)]) THEN SiftFrom("up", i)
  ELSE SiftFrom("down", i)

Matches(equals) == {i \in 0..len - 1 : data[i] \in equals}

\* equals: the elements for which eq answers true.
binary_heap_remove(equals) ==
  /\ pc = "idle"
  /\ \/ \E i \in Matches(equals) :
          /\ \A j \in Matches(equals) : i <= j
          /\ last' = Answer("removed", data[i])
          /\ data' = Moved(i)
          /\ len' = len - 1
          /\ SiftHole(i)
          /\ UNCHANGED cap
     \/ /\ Matches(equals) = {}
        /\ last' = Answer("absent", NoItem)
        /\ UNCHANGED heapVars

\* binary_heap_clear keeps the storage; binary_heap_drop, after which there is
\* a new heap or none, gives it back.
Emptied(room) ==
  /\ pc = "idle"
  /\ data' = [i \in {} |-> NoItem] /\ len' = 0 /\ cap' = room
  /\ last' = Answer("cleared", NoItem)
  /\ UNCHANGED <<pc, index>>

binary_heap_clear == Emptied(cap)

binary_heap_drop == Emptied(0)

Sift == sift_up \/ sift_down

Next ==
  \/ Sift
  \/ \E additional \in 0..MaxCap : binary_heap_reserve(additional)
  \/ \E x \in Items : binary_heap_push(x)
  \/ binary_heap_pop
  \/ \E equals \in SUBSET Items : binary_heap_remove(equals)
  \/ binary_heap_clear
  \/ binary_heap_drop

Spec == Init /\ [][Next]_vars

-------------------------------------------------------------------------------
TypeOK ==
  /\ data \in [0..len - 1 -> Items]
  /\ len \in 0..cap
  /\ cap \in 0..MaxCap
  /\ pc \in {"idle", "up", "down"}
  /\ index \in Nat
  /\ index > 0 => index < len

\* Between two calls no element is above its parent, whatever pushes, pops and
\* removals from the middle came before (the timer queue pops in order of
\* time only because of this).
HeapOrdered ==
  pc = "idle" => \A i \in 1..len - 1 : ~Above(data[i], data[Parent(i)])

\* Seen from outside the heap is a priority queue: push adds or refuses, pop
\* takes a greatest element, remove takes one that is equal and only that.
Queue == INSTANCE PriorityQueueSpec WITH members <- Members

KeepsOrder == Queue!QueueSpec

===============================================================================
