------------------------------ MODULE SimpleAlloc ------------------------------
(***************************************************************************)
(* lib/03basic/simple_alloc/simple_alloc.c: a first-fit heap that keeps a  *)
(* table of its used blocks, sorted by offset, and no record of the free   *)
(* ones: a gap is what lies between two neighbours in the table.           *)
(*                                                                         *)
(* item is HEAP_ITEM[0 .. HEAP_ITEM_COUNT); slots after it hold zeros that *)
(* nothing reads.  Positions start at 1.  A usize is a number below WORD.  *)
(***************************************************************************)
EXTENDS Integers, Sequences, FiniteSets, SequencesExt

CONSTANTS Sizes, Addresses, ALIGN, MAX_ITEMS, WORD

\* The arena ends below the top of the address space.
ASSUME AllocAssumption ==
  /\ ALIGN \in Nat \ {0}
  /\ MAX_ITEMS \in Nat
  /\ WORD \in Nat \ {0}
  /\ Sizes \subseteq 0..WORD - 1
  /\ Addresses \subseteq 0..WORD - 1
  /\ 0 \in Addresses

VARIABLES
  start, cap, now,   \* HEAP
  item,              \* HEAP_ITEM, HEAP_ITEM_COUNT
  last               \* the last malloc and its answer

vars == <<start, cap, now, item, last>>

NULL == 0

Answer(ptr, size) == [ptr |-> ptr, size |-> size]

NoCall == Answer(NULL, 0)

Items == [from : Nat, size : Nat]

Count == Len(item)

Init ==
  /\ start = NULL /\ now = NULL /\ cap = 0
  /\ item = <<>>
  /\ last = NoCall

\* value rounded up; ALIGN is a power of two, and the mask is a division.
align_up(value) == (((value + ALIGN - 1) % WORD) \div ALIGN) * ALIGN

heap_end(i) == item[i].from + item[i].size

\* The gap before block i, and for i = Count + 1 the one at the end.
prev_end(i) == IF i = 1 THEN 0 ELSE heap_end(i - 1)

gap_end(i) == IF i <= Count THEN item[i].from ELSE cap

\* heap_init; on linux_user a NULL base was replaced by the program break.
heap_init(base, size) ==
  /\ IF size = 0 \/ base = NULL
     THEN UNCHANGED <<start, cap, now, item>>
     ELSE /\ start' = base /\ now' = base /\ cap' = size
          /\ item' = <<>>
  /\ last' = NoCall

\* The scan of malloc stops at a gap that is long enough, or at a table that
\* is out of order.
Stops(i, need) ==
  \/ gap_end(i) < prev_end(i)
  \/ gap_end(i) - prev_end(i) >= need

FirstStop(i, need) ==
  /\ Stops(i, need)
  /\ \A j \in 1..i - 1 : ~Stops(j, need)

Refused(size) ==
  last' = Answer(NULL, size) /\ UNCHANGED <<start, cap, now, item>>

\* heap_item_insert: a full table refuses.
MallocAt(i, need, size) ==
  LET from == prev_end(i)
  IN  IF gap_end(i) < from \/ Count >= MAX_ITEMS
      THEN Refused(size)
      ELSE /\ item' = InsertAt(item, i, [from |-> from, size |-> need])
           /\ now' = start + from + need
           /\ last' = Answer(start + from, size)
           /\ UNCHANGED <<start, cap>>

\* Mutant: the gap at the end is not looked at.
malloc_inner(size) ==
  LET need == align_up(size)
  IN  IF size = 0 \/ start = NULL \/ cap = 0 \/ need = 0
      THEN Refused(size)
      ELSE \/ \E i \in 1..Count : FirstStop(i, need) /\ MallocAt(i, need, size)
           \/ (\A i \in 1..Count : ~Stops(i, need)) /\ Refused(size)

malloc(size) ==
  LET need == align_up(size)
  IN  IF size = 0 \/ start = NULL \/ cap = 0 \/ need = 0
      THEN Refused(size)
      ELSE \/ \E i \in 1..Count + 1 : FirstStop(i, need) /\ MallocAt(i, need, size)
           \/ (\A i \in 1..Count + 1 : ~Stops(i, need)) /\ Refused(size)

\* heap_item_remove, and HEAP.now goes back to the end of the last block.
FreeAt(i) ==
  /\ item' = RemoveAt(item, i)
  /\ now' = IF Count = 1 THEN start
            ELSE start + item'[Count - 1].from + item'[Count - 1].size
  /\ last' = NoCall
  /\ UNCHANGED <<start, cap>>

\* Block i is the one a pointer stands for.
StartsAt(i, ptr) == item[i].from = ptr - start

IgnoredPtr == last' = NoCall /\ UNCHANGED <<start, cap, now, item>>

free(ptr) ==
  IF ptr = NULL \/ start = NULL \/ ptr < start \/ ptr - start >= cap
  THEN IgnoredPtr
  ELSE \/ \E i \in 1..Count :
            /\ StartsAt(i, ptr)
            /\ \A j \in 1..i - 1 : ~StartsAt(j, ptr)
            /\ FreeAt(i)
       \/ (\A i \in 1..Count : ~StartsAt(i, ptr)) /\ IgnoredPtr

Next ==
  \/ \E base \in Addresses, size \in Sizes :
       (base + size < WORD) /\ heap_init(base, size)
  \/ \E size \in Sizes : malloc(size)
  \/ \E ptr \in Addresses : free(ptr)

Spec == Init /\ [][Next]_vars
-------------------------------------------------------------------------------
(* Properties *)

TypeOK ==
  /\ start \in Nat /\ cap \in Nat /\ now \in Nat /\ last \in [ptr : Nat, size : Nat]
  /\ start + cap < WORD
  /\ item \in Seq(Items)

\* The table is what the scan takes it for: blocks in order, apart and inside
\* the arena, none empty, never more than there are slots.  So neither the
\* "gap_end < prev_end" returns of malloc nor a wrap in heap_end can happen.
TableSorted ==
  /\ Count <= MAX_ITEMS
  /\ \A i \in 1..Count : item[i].size > 0 /\ heap_end(i) <= cap
  /\ \A i, j \in 1..Count : i < j => heap_end(i) <= item[j].from
  /\ start = NULL => Count = 0 /\ cap = 0

\* HEAP.now points into the arena, or one past it.
NowInArena == start <= now /\ now <= start + cap

\* The heap keeps the promise of lib/alloc.
LiveBlocks ==
  {[ptr |-> start + item[i].from, size |-> item[i].size] : i \in 1..Count}

Abstract == INSTANCE HeapSpec
  WITH arena <- [ptr |-> start, size |-> cap], live <- LiveBlocks

KeepsPromise == Abstract!Heap
===============================================================================
