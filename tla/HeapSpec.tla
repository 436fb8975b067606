------------------------------- MODULE HeapSpec -------------------------------
(***************************************************************************)
(* What lib/alloc promises whoever calls malloc and free: a block that is  *)
(* granted lies in the arena, overlaps no block that is still live, and    *)
(* stays live until its own pointer is freed; a request is refused only    *)
(* when it is empty or too large to round up, when all slots are taken, or *)
(* when no run of free bytes is long enough for it.                        *)
(***************************************************************************)
EXTENDS Naturals, FiniteSets

CONSTANTS
  Sizes,       \* the sizes asked for
  Addresses,   \* the addresses a base or a pointer can have, 0 is NULL
  ALIGN,       \* SIMPLE_ALLOC_ALIGN
  MAX_ITEMS,   \* SIMPLE_ALLOC_MAX_ITEMS
  WORD         \* 2^w, w the width of usize

VARIABLES
  arena,       \* the address and the size of the memory to hand out
  live,        \* the blocks granted and not freed
  last         \* the last malloc and its answer, NoCall after other calls

NULL == 0

Block(p, n) == [ptr |-> p, size |-> n]

NoCall == Block(NULL, 0)

Apart(a, b) == a.ptr + a.size <= b.ptr \/ b.ptr + b.size <= a.ptr

Inside(b) == arena.ptr <= b.ptr /\ b.ptr + b.size <= arena.ptr + arena.size

\* A size rounded up to the alignment, in machine arithmetic.
Rounded(n) == (((n + ALIGN - 1) % WORD) \div ALIGN) * ALIGN

Room(b) == Inside(b) /\ \A other \in live : Apart(b, other)

HeapInit ==
  /\ arena = Block(NULL, 0) /\ live = {} /\ last = NoCall

\* heap_init, which may be called again and then forgets every block.
NewArena ==
  /\ \E p \in Addresses \ {NULL}, n \in Sizes \ {0} : arena' = Block(p, n)
  /\ live' = {}
  /\ last' = NoCall

Grant(n) ==
  /\ n > 0
  /\ Rounded(n) >= n
  /\ Cardinality(live) < MAX_ITEMS
  /\ last' = Block(last'.ptr, n)
  /\ Room(Block(last'.ptr, Rounded(n)))
  /\ live' = live \cup {Block(last'.ptr, Rounded(n))}
  /\ UNCHANGED arena

Refuse(n) ==
  /\ \/ n = 0
     \/ Rounded(n) = 0
     \/ Cardinality(live) = MAX_ITEMS
     \/ \A p \in arena.ptr..arena.ptr + arena.size : ~Room(Block(p, Rounded(n)))
  /\ last' = Block(NULL, n)
  /\ UNCHANGED <<arena, live>>

\* free: exactly the block that starts there, or nothing.
Release(p) ==
  /\ live' = {b \in live : b.ptr # p}
  /\ last' = NoCall
  /\ UNCHANGED arena

HeapNext ==
  \/ NewArena
  \/ \E n \in Sizes : Grant(n) \/ Refuse(n)
  \/ \E p \in Addresses : Release(p)

Heap == HeapInit /\ [][HeapNext]_<<arena, live, last>>
===============================================================================
