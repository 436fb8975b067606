------------------------------ MODULE PageMemory ------------------------------
(***************************************************************************)
(* lib/06page_memory/freelist/freelist.c with the memory split of board.h  *)
(* and the order of lib/00arch/init/init.c: the kernel heap takes the      *)
(* first KERNEL_HEAP_SIZE bytes, the page provider the rest.               *)
(*                                                                         *)
(* A free page holds the address of the next free page in its first word;  *)
(* an owned page holds there whatever its owner wrote.  mem is the first   *)
(* word of every page-aligned address in the memory to be split.           *)
(***************************************************************************)
EXTENDS Integers, FiniteSets

CONSTANTS HEAP_START, HEAP_SIZE, KERNEL_HEAP_SIZE, PAGE_SIZE,
          Garbage    \* what memory holds at boot and what owners write

ASSUME SplitAssumption ==
  /\ HEAP_START \in Nat \ {0}
  /\ HEAP_SIZE \in Nat
  /\ KERNEL_HEAP_SIZE \in 0..HEAP_SIZE
  /\ PAGE_SIZE \in Nat \ {0}
  /\ Garbage \subseteq Nat

VARIABLES
  heap,        \* the arena given to heap_init, [from, to)
  addr,        \* the loop of page_memory_init: the next page to be cut
  booted,      \* page_memory_init has returned
  mem, free_list,
  owned,       \* the pages their owners may write to
  given        \* the answer of malloc_page, NULL after other calls

pageVars == <<heap, addr, booted, mem, free_list, owned, given>>

\* NULL
NoPage == 0

PMM_START == HEAP_START + KERNEL_HEAP_SIZE
PMM_SIZE == HEAP_SIZE - KERNEL_HEAP_SIZE

HeapEnd == HEAP_START + HEAP_SIZE

Words == {a \in HEAP_START..HeapEnd : a % PAGE_SIZE = 0}

\* The pages that lie wholly in the provider's part.
Pages == {a \in Words : PMM_START <= a /\ a + PAGE_SIZE <= HeapEnd}

\* PAGE_SIZE is a power of two, and the mask is a division.
page_align_up(a) == ((a + PAGE_SIZE - 1) \div PAGE_SIZE) * PAGE_SIZE

NoArena == [from |-> NoPage, to |-> NoPage]

\* Mutant: the heap keeps the memory it had without a page provider.
BootHeap_whole ==
  /\ heap = NoArena
  /\ heap' = [from |-> HEAP_START, to |-> HEAP_START + HEAP_SIZE]
  /\ UNCHANGED <<addr, booted, mem, free_list, owned, given>>

\* _shy_os_init: heap_init(HEAP_START, KERNEL_HEAP_SIZE).
BootHeap ==
  /\ heap = NoArena
  /\ heap' = [from |-> HEAP_START, to |-> HEAP_START + KERNEL_HEAP_SIZE]
  /\ UNCHANGED <<addr, booted, mem, free_list, owned, given>>

\* page_memory_init, up to its loop.
BootPages ==
  /\ heap # NoArena /\ addr = NoPage
  /\ addr' = page_align_up(PMM_START)
  /\ free_list' = NoPage
  /\ UNCHANGED <<heap, booted, mem, owned, given>>

\* Mutant: the page that comes back skips the old head.
PushPage_skip(p) ==
  /\ free_list' = p
  /\ mem' = [mem EXCEPT ![p] = IF free_list = NoPage THEN NoPage ELSE mem[free_list]]

\* Mutant: the head moves before it is saved.
PushPage_late(p) ==
  /\ free_list' = p
  /\ mem' = [mem EXCEPT ![p] = p]

\* free_page on a page.
PushPage(p) ==
  /\ free_list' = p
  /\ mem' = [mem EXCEPT ![p] = free_list]

CutPage ==
  /\ ~booted /\ addr # NoPage
  /\ addr + PAGE_SIZE <= PMM_START + PMM_SIZE
  /\ PushPage(addr)
  /\ addr' = addr + PAGE_SIZE
  /\ UNCHANGED <<heap, booted, owned, given>>

BootDone ==
  /\ ~booted /\ addr # NoPage
  /\ addr + PAGE_SIZE > PMM_START + PMM_SIZE
  /\ booted' = TRUE
  /\ UNCHANGED <<heap, addr, mem, free_list, owned, given>>

malloc_page ==
  /\ booted
  /\ \/ /\ free_list = NoPage
        /\ given' = NoPage
        /\ UNCHANGED <<free_list, owned>>
     \/ /\ free_list # NoPage
        /\ given' = free_list
        /\ free_list' = mem[free_list]
        /\ owned' = owned \cup {free_list}
  /\ UNCHANGED <<heap, addr, booted, mem>>

\* Only an owner gives a page back, and only once; NULL is ignored.
free_page ==
  /\ booted
  /\ \/ UNCHANGED <<mem, free_list, owned>>
     \/ \E p \in owned : PushPage(p) /\ owned' = owned \ {p}
  /\ given' = NoPage
  /\ UNCHANGED <<heap, addr, booted>>

\* An owner writes to its page.
Scribble ==
  /\ \E p \in owned, v \in Garbage : mem' = [mem EXCEPT ![p] = v]
  /\ UNCHANGED <<heap, addr, booted, free_list, owned, given>>

PagesInit ==
  /\ heap = NoArena /\ addr = NoPage /\ booted = FALSE
  /\ mem \in [Words -> Garbage]
  /\ free_list = NoPage /\ owned = {} /\ given = NoPage

PagesNext == \/ BootHeap \/ BootPages \/ CutPage \/ BootDone
        \/ malloc_page \/ free_page \/ Scribble

PagesSpec == PagesInit /\ [][PagesNext]_pageVars
-------------------------------------------------------------------------------
(* Properties *)

\* The pages cut off the memory so far, and those that nobody owns.
Cut == {p \in Pages : p < addr}

Free == Cut \ owned

PagesTypeOK ==
  /\ heap \in [from : Nat, to : Nat] /\ addr \in Nat /\ booted \in BOOLEAN
  /\ mem \in [Words -> Nat]
  /\ free_list \in Pages \cup {NoPage}
  /\ owned \subseteq Cut
  /\ given \in Pages \cup {NoPage}

\* The links m lead from head through the n pages of c to NoPage.
Chain(c, n, head, m) ==
  /\ head = IF n = 0 THEN NoPage ELSE c[1]
  /\ \A i \in 1..n : m[c[i]] = IF i = n THEN NoPage ELSE c[i + 1]

\* c meets every element of S, and none twice.
Lists(c, n, S) ==
  /\ \A p \in S : \E i \in 1..n : c[i] = p
  /\ \A i, j \in 1..n : c[i] = c[j] => i = j

\* Following the links from free_list meets every free page once, and no
\* other, whatever owners write: no page is lost, listed twice or owned.
FreeListed ==
  \E n \in 0..Cardinality(Pages) : \E c \in [1..n -> Free] :
    Lists(c, n, Free) /\ Chain(c, n, free_list, mem)

\* No page handed out shares a byte with the kernel heap.
ArenasApart == \A p \in owned : p + PAGE_SIZE <= heap.from \/ heap.to <= p

\* The provider keeps the promise of lib/pmm: all of its memory is handed out,
\* page by page, before a request is refused.
Provider == INSTANCE PageSpec

KeepsPool == Provider!Pool
===============================================================================
