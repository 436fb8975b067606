--------------------------- MODULE PageMemoryProofs ---------------------------
(***************************************************************************)
(* For every board, page size and heap size: the list of free pages is     *)
(* whole, and the page provider keeps the promise of PageSpec.             *)
(***************************************************************************)
EXTENDS PageMemory, FiniteSetTheorems, TLAPS

(* Multiples of the page size *)

LEMMA DivFloor ==
  ASSUME NEW a \in Nat \ {0}, NEW x \in Nat
  PROVE  /\ x \div a \in Nat
         /\ (x \div a) * a <= x /\ x < (x \div a) * a + a
         /\ x % a = 0 => x = (x \div a) * a
OBVIOUS

LEMMA MultipleMod ==
  ASSUME NEW a \in Nat \ {0}, NEW q \in Nat
  PROVE  q * a \in Nat /\ (q * a) % a = 0
OBVIOUS

LEMMA TimesMonotone ==
  ASSUME NEW a \in Nat \ {0}, NEW q \in Nat, NEW r \in Nat, q < r
  PROVE  q * a + a <= r * a
<1>1. PICK d \in Nat : r = q + 1 + d
  <2>1. r - q - 1 \in Nat /\ r = q + 1 + (r - q - 1)
    OBVIOUS
  <2> QED BY <2>1
<1>2. r * a = q * a + a + d * a /\ d * a \in Nat /\ q * a \in Nat
  BY <1>1
<1> QED BY <1>2

\* Two different multiples are at least a page apart.
LEMMA MultiplesApart ==
  ASSUME NEW a \in Nat \ {0}, NEW x \in Nat, NEW y \in Nat,
         x % a = 0, y % a = 0, x < y
  PROVE  x + a <= y
<1> DEFINE q == x \div a
           r == y \div a
<1>1. q \in Nat /\ r \in Nat /\ x = q * a /\ y = r * a
  BY DivFloor
<1> HIDE DEF q, r
<1>2. q < r
  <2> SUFFICES ASSUME ~(q < r) PROVE FALSE
    OBVIOUS
  <2>1. r < q \/ r = q
    BY <1>1
  <2>2. CASE r < q
    <3>1. r * a + a <= q * a
      BY <1>1, <2>2, TimesMonotone
    <3> QED BY <1>1, <3>1
  <2>3. CASE r = q
    BY <1>1, <2>3
  <2> QED BY <2>1, <2>2, <2>3
<1> QED BY <1>1, <1>2, TimesMonotone

\* page_align_up finds the first multiple that is not below its argument.
LEMMA AlignUpIs ==
  ASSUME NEW x \in Nat
  PROVE  /\ page_align_up(x) \in Nat /\ page_align_up(x) % PAGE_SIZE = 0
         /\ x <= page_align_up(x)
         /\ \A y \in Nat : y % PAGE_SIZE = 0 /\ x <= y => page_align_up(x) <= y
<1> DEFINE a == PAGE_SIZE
           q == (x + a - 1) \div a
<1>1. a \in Nat \ {0}
  BY SplitAssumption
<1> HIDE DEF a
<1>2. x + a - 1 \in Nat
  BY <1>1
<1>3. q \in Nat /\ q * a <= x + a - 1 /\ x + a - 1 < q * a + a
  BY <1>1, <1>2, DivFloor
<1>4. page_align_up(x) = q * a
  BY DEF page_align_up, a
<1> HIDE DEF q
<1>5. q * a \in Nat /\ (q * a) % a = 0
  BY <1>1, <1>3, MultipleMod
<1>6. x <= q * a
  BY <1>1, <1>3, <1>5
<1>7. ASSUME NEW y \in Nat, y % a = 0, x <= y PROVE q * a <= y
  <2> SUFFICES ASSUME y < q * a PROVE FALSE
    BY <1>5
  <2>1. y + a <= q * a
    BY <1>1, <1>5, <1>7, MultiplesApart
  <2> QED BY <1>1, <1>3, <1>5, <1>7, <2>1
<1> QED BY <1>4, <1>5, <1>6, <1>7 DEF a
-------------------------------------------------------------------------------
(* Lists of pages *)

LEMMA PagesFinite ==
  /\ IsFiniteSet(Pages) /\ Cardinality(Pages) \in Nat
  /\ \A p \in Pages : /\ p \in Nat /\ p # NoPage /\ p \in Words
                      /\ p % PAGE_SIZE = 0 /\ PMM_START <= p
                      /\ p + PAGE_SIZE <= HeapEnd
  /\ PMM_START \in Nat /\ PMM_START # NoPage /\ HeapEnd \in Nat
  /\ HeapEnd = PMM_START + PMM_SIZE /\ PAGE_SIZE \in Nat \ {0}
<1>1. /\ HEAP_START \in Nat \ {0} /\ HEAP_SIZE \in Nat
      /\ KERNEL_HEAP_SIZE \in Nat /\ KERNEL_HEAP_SIZE <= HEAP_SIZE
      /\ PAGE_SIZE \in Nat \ {0}
  BY SplitAssumption
<1>2. /\ PMM_START \in Nat /\ PMM_START # NoPage /\ HeapEnd \in Nat
      /\ HeapEnd = PMM_START + PMM_SIZE
  BY <1>1 DEF PMM_START, PMM_SIZE, HeapEnd, NoPage
<1>3. IsFiniteSet(HEAP_START..HeapEnd)
  BY <1>1, <1>2, FS_Interval
<1>4. Pages \subseteq HEAP_START..HeapEnd
  BY DEF Pages, Words
<1>5. IsFiniteSet(Pages)
  BY <1>3, <1>4, FS_Subset
<1>6. Cardinality(Pages) \in Nat
  BY <1>5, FS_CardinalityType
<1>7. ASSUME NEW p \in Pages
      PROVE  /\ p \in Nat /\ p # NoPage /\ p \in Words
             /\ p % PAGE_SIZE = 0 /\ PMM_START <= p /\ p + PAGE_SIZE <= HeapEnd
  <2>1. p \in HEAP_START..HeapEnd /\ p \in Words /\ p % PAGE_SIZE = 0
    BY DEF Pages, Words
  <2> QED BY <1>1, <1>2, <2>1 DEF Pages, NoPage
<1> QED BY <1>1, <1>2, <1>5, <1>6, <1>7

\* A list of different pages is no longer than there are pages.
LEMMA ListFits ==
  ASSUME NEW S \in SUBSET Pages, NEW n \in Nat, NEW c \in [1..n -> S],
         \A i, j \in 1..n : c[i] = c[j] => i = j
  PROVE  n <= Cardinality(Pages)
<1>1. c \in Injection(1..n, S)
  BY DEF Injection, IsInjective
<1>2. IsFiniteSet(Pages) /\ IsFiniteSet(S) /\ Cardinality(S) <= Cardinality(Pages)
  BY PagesFinite, FS_Subset
<1>3. Cardinality(1..n) <= Cardinality(S)
  BY <1>1, <1>2, FS_Injection
<1>4. Cardinality(1..n) = n
  BY FS_Interval
<1>5. Cardinality(S) \in Nat /\ Cardinality(Pages) \in Nat
  BY <1>2, FS_CardinalityType
<1> QED BY <1>2, <1>3, <1>4, <1>5

\* A page in front of a list, with the old head in its first word.
LEMMA ListPush ==
  ASSUME NEW S \in SUBSET Pages, NEW n \in Nat, NEW c \in [1..n -> S],
         NEW head, NEW m \in [Words -> Nat],
         Lists(c, n, S), Chain(c, n, head, m), NEW p \in Pages \ S
  PROVE  \E d \in [1..n + 1 -> S \cup {p}] :
           /\ Lists(d, n + 1, S \cup {p})
           /\ Chain(d, n + 1, p, [m EXCEPT ![p] = head])
<1> DEFINE d == [i \in 1..n + 1 |-> IF i = 1 THEN p ELSE c[i - 1]]
           w == [m EXCEPT ![p] = head]
<1>1. d[1] = p
  OBVIOUS
<1>2. ASSUME NEW i \in 1..n + 1, i # 1
      PROVE  i - 1 \in 1..n /\ d[i] = c[i - 1] /\ d[i] \in S /\ d[i] # p
  <2>1. i - 1 \in 1..n /\ d[i] = c[i - 1]
    BY <1>2
  <2> QED BY <2>1
<1>3. d \in [1..n + 1 -> S \cup {p}]
  <2>1. \A i \in 1..n + 1 : d[i] \in S \cup {p}
    BY <1>1, <1>2
  <2> QED BY <2>1
<1>4. p \in Words /\ w[p] = head /\ \A s \in S : s \in Words /\ w[s] = m[s]
  BY PagesFinite
<1> HIDE DEF d, w
<1>5. ASSUME NEW s \in S \cup {p} PROVE \E i \in 1..n + 1 : d[i] = s
  <2>1. CASE s = p
    <3>1. 1 \in 1..n + 1
      OBVIOUS
    <3> QED BY <1>1, <2>1, <3>1
  <2>2. CASE s \in S
    <3>1. PICK k \in 1..n : c[k] = s
      BY <2>2 DEF Lists
    <3>2. k + 1 \in 1..n + 1 /\ k + 1 # 1 /\ (k + 1) - 1 = k
      OBVIOUS
    <3> QED BY <1>2, <3>1, <3>2
  <2> QED BY <2>1, <2>2
<1>6. ASSUME NEW i \in 1..n + 1, NEW j \in 1..n + 1, d[i] = d[j]
      PROVE  i = j
  <2>1. CASE i = 1 \/ j = 1
    BY <1>1, <1>2, <1>6, <2>1
  <2>2. CASE i # 1 /\ j # 1
    <3>1. /\ i - 1 \in 1..n /\ j - 1 \in 1..n /\ c[i - 1] = c[j - 1]
      BY <1>2, <1>6, <2>2
    <3>2. i - 1 = j - 1
      BY <3>1 DEF Lists
    <3> QED BY <3>2
  <2> QED BY <2>1, <2>2
<1>7. ASSUME NEW i \in 1..n + 1
      PROVE  w[d[i]] = IF i = n + 1 THEN NoPage ELSE d[i + 1]
  <2>1. CASE i = 1
    <3>1. w[d[i]] = head
      BY <1>1, <1>4, <2>1
    <3>2. CASE n = 0
      BY <2>1, <3>1, <3>2 DEF Chain
    <3>3. CASE n # 0
      <4>1. 2 \in 1..n + 1 /\ d[2] = c[1] /\ head = c[1] /\ i # n + 1
        BY <1>2, <2>1, <3>3 DEF Chain
      <4> QED BY <2>1, <3>1, <4>1
    <3> QED BY <3>2, <3>3
  <2>2. CASE i # 1
    <3>1. i - 1 \in 1..n /\ d[i] = c[i - 1] /\ w[d[i]] = m[c[i - 1]]
      BY <1>2, <1>4, <2>2
    <3>2. m[c[i - 1]] = IF i - 1 = n THEN NoPage ELSE c[(i - 1) + 1]
      BY <3>1 DEF Chain
    <3>3. CASE i = n + 1
      BY <3>1, <3>2, <3>3
    <3>4. CASE i # n + 1
      <4>1. /\ i + 1 \in 1..n + 1 /\ i + 1 # 1 /\ (i + 1) - 1 = (i - 1) + 1
            /\ i - 1 # n
        BY <3>4
      <4>2. d[i + 1] = c[(i - 1) + 1]
        BY <1>2, <4>1
      <4> QED BY <3>1, <3>2, <3>4, <4>1, <4>2
    <3> QED BY <3>3, <3>4
  <2> QED BY <2>1, <2>2
<1>8. Lists(d, n + 1, S \cup {p})
  BY <1>5, <1>6 DEF Lists
<1>9. Chain(d, n + 1, p, w)
  BY <1>1, <1>7 DEF Chain
<1> QED BY <1>3, <1>8, <1>9 DEF w

\* A list without its first page.
LEMMA ListPop ==
  ASSUME NEW S \in SUBSET Pages, NEW n \in Nat, NEW c \in [1..n -> S],
         NEW head, NEW m,
         Lists(c, n, S), Chain(c, n, head, m), head # NoPage
  PROVE  /\ n - 1 \in Nat /\ head \in S
         /\ \E d \in [1..n - 1 -> S \ {head}] :
              /\ Lists(d, n - 1, S \ {head})
              /\ Chain(d, n - 1, m[head], m)
<1> DEFINE d == [i \in 1..n - 1 |-> c[i + 1]]
<1>1. n # 0 /\ 1 \in 1..n /\ head = c[1]
  BY DEF Chain
<1>2. ASSUME NEW i \in 1..n - 1
      PROVE  /\ i + 1 \in 1..n /\ d[i] = c[i + 1]
             /\ d[i] \in S \ {head}
  <2>1. i + 1 \in 1..n /\ i + 1 # 1 /\ d[i] = c[i + 1]
    OBVIOUS
  <2>2. c[i + 1] # c[1]
    BY <1>1, <2>1 DEF Lists
  <2> QED BY <1>1, <2>1, <2>2
<1>3. d \in [1..n - 1 -> S \ {head}]
  BY <1>2
<1> HIDE DEF d
<1>4. ASSUME NEW s \in S \ {head} PROVE \E i \in 1..n - 1 : d[i] = s
  <2>1. PICK k \in 1..n : c[k] = s
    BY DEF Lists
  <2>2. k # 1
    BY <1>1, <2>1
  <2>3. k - 1 \in 1..n - 1 /\ (k - 1) + 1 = k
    BY <2>2
  <2> QED BY <1>2, <2>1, <2>3
<1>5. ASSUME NEW i \in 1..n - 1, NEW j \in 1..n - 1, d[i] = d[j]
      PROVE  i = j
  <2>1. c[i + 1] = c[j + 1] /\ i + 1 \in 1..n /\ j + 1 \in 1..n
    BY <1>2, <1>5
  <2>2. i + 1 = j + 1
    BY <2>1 DEF Lists
  <2> QED BY <2>2
<1>6. m[head] = IF n - 1 = 0 THEN NoPage ELSE d[1]
  <2>1. m[head] = IF 1 = n THEN NoPage ELSE c[1 + 1]
    BY <1>1 DEF Chain
  <2>2. CASE n = 1
    BY <2>1, <2>2
  <2>3. CASE n # 1
    <3>1. 1 \in 1..n - 1 /\ d[1] = c[1 + 1]
      BY <1>1, <1>2, <2>3
    <3> QED BY <2>1, <2>3, <3>1
  <2> QED BY <2>2, <2>3
<1>7. ASSUME NEW i \in 1..n - 1
      PROVE  m[d[i]] = IF i = n - 1 THEN NoPage ELSE d[i + 1]
  <2>1. i + 1 \in 1..n /\ d[i] = c[i + 1]
    BY <1>2
  <2>2. m[c[i + 1]] = IF i + 1 = n THEN NoPage ELSE c[(i + 1) + 1]
    BY <2>1 DEF Chain
  <2>3. CASE i = n - 1
    BY <2>1, <2>2, <2>3
  <2>4. CASE i # n - 1
    <3>1. i + 1 \in 1..n - 1 /\ i + 1 # n
      BY <2>4
    <3>2. d[i + 1] = c[(i + 1) + 1]
      BY <1>2, <3>1
    <3> QED BY <2>1, <2>2, <2>4, <3>1, <3>2
  <2> QED BY <2>3, <2>4
<1>8. Lists(d, n - 1, S \ {head})
  BY <1>4, <1>5 DEF Lists
<1>9. Chain(d, n - 1, m[head], m)
  BY <1>6, <1>7 DEF Chain
<1> QED BY <1>1, <1>3, <1>8, <1>9
-------------------------------------------------------------------------------
(* The invariant *)

\* What the boot has done so far.
Booting ==
  /\ addr = NoPage => free_list = NoPage /\ owned = {} /\ ~booted
  /\ addr # NoPage => /\ addr % PAGE_SIZE = 0 /\ PMM_START <= addr
                    /\ heap = [from |-> HEAP_START, to |-> PMM_START]
  /\ ~booted => owned = {}
  /\ booted => addr + PAGE_SIZE > HeapEnd
  /\ heap # NoArena => heap = [from |-> HEAP_START, to |-> PMM_START]

Inv == PagesTypeOK /\ FreeListed /\ Booting

LEMMA FreeIsPages ==
  /\ Free \in SUBSET Pages /\ Cut \in SUBSET Pages
  /\ Free = Cut \ owned
BY DEF Free, Cut

LEMMA InitInv == PagesInit => Inv
<1> SUFFICES ASSUME PagesInit PROVE Inv
  OBVIOUS
<1>1. PagesTypeOK
  <2>1. mem \in [Words -> Nat]
    BY SplitAssumption DEF PagesInit
  <2> QED BY <2>1 DEF PagesInit, PagesTypeOK, NoArena, NoPage
<1>2. Cut = {}
  BY PagesFinite DEF PagesInit, Cut, NoPage
<1>3. FreeListed
  <2> DEFINE c == [i \in 1..0 |-> NoPage]
  <2>1. 0 \in 0..Cardinality(Pages) /\ Free = {} /\ 1..0 = {}
    BY <1>2, PagesFinite DEF Free
  <2>2. c \in [1..0 -> Free]
    BY <2>1
  <2> HIDE DEF c
  <2>3. Lists(c, 0, Free) /\ Chain(c, 0, free_list, mem)
    BY <2>1 DEF Lists, Chain, PagesInit
  <2> QED BY <2>1, <2>2, <2>3 DEF FreeListed
<1>4. Booting
  BY DEF PagesInit, Booting, NoArena, NoPage
<1> QED BY <1>1, <1>3, <1>4 DEF Inv

\* A page that was not free becomes the head of the list.
LEMMA PushListed ==
  ASSUME PagesTypeOK, FreeListed, NEW p \in Pages \ Free, PushPage(p),
         Free' = Free \cup {p}
  PROVE  FreeListed' /\ mem' \in [Words -> Nat] /\ free_list' \in Pages \cup {NoPage}
<1>1. PICK n \in 0..Cardinality(Pages) : \E c \in [1..n -> Free] :
        Lists(c, n, Free) /\ Chain(c, n, free_list, mem)
  BY DEF FreeListed
<1>2. PICK c \in [1..n -> Free] :
        Lists(c, n, Free) /\ Chain(c, n, free_list, mem)
  BY <1>1
<1>3. Cardinality(Pages) \in Nat /\ n \in Nat /\ mem \in [Words -> Nat]
      /\ p \in Nat /\ free_list \in Nat
  BY PagesFinite DEF PagesTypeOK, NoPage
<1>4. PICK d \in [1..n + 1 -> Free \cup {p}] :
        /\ Lists(d, n + 1, Free \cup {p})
        /\ Chain(d, n + 1, p, [mem EXCEPT ![p] = free_list])
  BY <1>2, <1>3, FreeIsPages, ListPush
<1>5. n + 1 \in 0..Cardinality(Pages)
  <2>1. Free \cup {p} \in SUBSET Pages
    BY FreeIsPages
  <2>2. n + 1 \in Nat /\ \A i, j \in 1..n + 1 : d[i] = d[j] => i = j
    BY <1>3, <1>4 DEF Lists
  <2>3. n + 1 <= Cardinality(Pages)
    BY <1>4, <2>1, <2>2, ListFits
  <2> QED BY <1>3, <2>3
<1>6. free_list' = p /\ mem' = [mem EXCEPT ![p] = free_list]
  BY DEF PushPage
<1>7. FreeListed'
  BY <1>4, <1>5, <1>6 DEF FreeListed
<1>8. mem' \in [Words -> Nat]
  BY <1>3, <1>6
<1> QED BY <1>6, <1>7, <1>8

\* The list stays as long as the links of free pages and the head do.
LEMMA SameList ==
  ASSUME FreeListed, Free' = Free, free_list' = free_list,
         \A p \in Free : mem'[p] = mem[p]
  PROVE  FreeListed'
<1>1. PICK n \in 0..Cardinality(Pages) : \E c \in [1..n -> Free] :
        Lists(c, n, Free) /\ Chain(c, n, free_list, mem)
  BY DEF FreeListed
<1>2. PICK c \in [1..n -> Free] :
        Lists(c, n, Free) /\ Chain(c, n, free_list, mem)
  BY <1>1
<1>3. Chain(c, n, free_list, mem')
  <2>1. \A i \in 1..n : c[i] \in Free
    OBVIOUS
  <2> QED BY <1>2, <2>1 DEF Chain
<1> QED BY <1>1, <1>2, <1>3 DEF FreeListed

LEMMA CutPageInv == ASSUME Inv, CutPage PROVE Inv'
<1>1. /\ ~booted /\ addr # NoPage /\ addr + PAGE_SIZE <= HeapEnd
      /\ PushPage(addr) /\ addr' = addr + PAGE_SIZE
      /\ UNCHANGED <<heap, booted, owned, given>>
  BY PagesFinite DEF CutPage
<1>2. /\ addr \in Nat /\ addr % PAGE_SIZE = 0 /\ PMM_START <= addr
      /\ owned = {} /\ heap = [from |-> HEAP_START, to |-> PMM_START]
      /\ PAGE_SIZE \in Nat \ {0} /\ PMM_START \in Nat /\ HeapEnd \in Nat
  BY <1>1, PagesFinite DEF Inv, PagesTypeOK, Booting
<1>3. addr \in Pages
  <2>1. HEAP_START <= addr /\ HEAP_START \in Nat
    BY <1>2, SplitAssumption DEF PMM_START
  <2> QED BY <1>1, <1>2, <2>1 DEF Pages, Words
<1>4. Cut' = Cut \cup {addr}
  <2>1. ASSUME NEW p \in Pages
        PROVE  p < addr + PAGE_SIZE <=> p < addr \/ p = addr
    <3>1. p \in Nat /\ p % PAGE_SIZE = 0
      BY PagesFinite
    <3>2. addr < p => addr + PAGE_SIZE <= p
      BY <1>2, <3>1, MultiplesApart
    <3> QED BY <1>2, <3>1, <3>2
  <2> QED BY <1>1, <1>3, <2>1 DEF Cut
<1>5. Free' = Free \cup {addr} /\ addr \notin Free
  BY <1>1, <1>2, <1>4 DEF Free, Cut
<1>6. FreeListed' /\ mem' \in [Words -> Nat] /\ free_list' \in Pages \cup {NoPage}
  BY <1>1, <1>3, <1>5, PushListed DEF Inv
<1>7. PagesTypeOK'
  BY <1>1, <1>2, <1>6 DEF Inv, PagesTypeOK
<1>8. Booting'
  <2>1. (addr + PAGE_SIZE) % PAGE_SIZE = 0
    <3>1. PICK q \in Nat : addr = q * PAGE_SIZE
      BY <1>2, DivFloor
    <3>2. (q + 1) * PAGE_SIZE = addr + PAGE_SIZE
      BY <1>2, <3>1
    <3>3. ((q + 1) * PAGE_SIZE) % PAGE_SIZE = 0
      <4>1. q + 1 \in Nat
        OBVIOUS
      <4> QED BY <1>2, <4>1, MultipleMod
    <3> QED BY <3>2, <3>3
  <2>2. addr' # NoPage /\ PMM_START <= addr'
    BY <1>1, <1>2 DEF NoPage
  <2> QED BY <1>1, <1>2, <2>1, <2>2 DEF Booting
<1> QED BY <1>6, <1>7, <1>8 DEF Inv

LEMMA BootInv ==
  ASSUME Inv, BootHeap \/ BootPages \/ BootDone
  PROVE  Inv'
<1>1. CASE BootHeap
  <2>1. /\ heap' = [from |-> HEAP_START, to |-> PMM_START]
        /\ heap = NoArena
        /\ UNCHANGED <<addr, booted, mem, free_list, owned, given>>
    BY <1>1 DEF BootHeap, PMM_START
  <2>2. Free' = Free /\ Cut' = Cut
    BY <2>1 DEF Free, Cut
  <2>3. FreeListed'
    BY <2>1, <2>2, SameList DEF Inv
  <2>4. PagesTypeOK'
    BY <2>1, <2>2, PagesFinite, SplitAssumption DEF Inv, PagesTypeOK
  <2>5. Booting'
    BY <2>1 DEF Inv, Booting
  <2> QED BY <2>3, <2>4, <2>5 DEF Inv
<1>2. CASE BootPages
  <2>1. /\ heap # NoArena /\ addr = NoPage /\ addr' = page_align_up(PMM_START)
        /\ free_list' = NoPage
        /\ UNCHANGED <<heap, booted, mem, owned, given>>
    BY <1>2 DEF BootPages
  <2>2. /\ free_list = NoPage /\ owned = {} /\ ~booted
        /\ heap = [from |-> HEAP_START, to |-> PMM_START]
    BY <2>1 DEF Inv, Booting
  <2>3. /\ addr' \in Nat /\ addr' % PAGE_SIZE = 0 /\ PMM_START <= addr'
        /\ \A y \in Nat : y % PAGE_SIZE = 0 /\ PMM_START <= y => addr' <= y
        /\ PMM_START \in Nat /\ PMM_START # NoPage
    BY <2>1, AlignUpIs, PagesFinite
  <2>4. Cut = {} /\ Cut' = {}
    <3>1. ASSUME NEW p \in Pages PROVE ~(p < addr) /\ ~(p < addr')
      <4>1. p \in Nat /\ p % PAGE_SIZE = 0 /\ PMM_START <= p
        BY PagesFinite
      <4> QED BY <2>1, <2>3, <4>1 DEF NoPage
    <3> QED BY <3>1 DEF Cut
  <2>5. FreeListed'
    BY <2>1, <2>2, <2>4, SameList DEF Inv, Free
  <2>6. PagesTypeOK'
    BY <2>1, <2>2, <2>3 DEF Inv, PagesTypeOK
  <2>7. Booting'
    BY <2>1, <2>2, <2>3 DEF Booting, NoPage
  <2> QED BY <2>5, <2>6, <2>7 DEF Inv
<1>3. CASE BootDone
  <2>1. /\ addr # NoPage /\ addr + PAGE_SIZE > HeapEnd /\ booted' = TRUE
        /\ UNCHANGED <<heap, addr, mem, free_list, owned, given>>
    BY <1>3, PagesFinite DEF BootDone
  <2>2. Free' = Free /\ Cut' = Cut
    BY <2>1 DEF Free, Cut
  <2>3. FreeListed'
    BY <2>1, <2>2, SameList DEF Inv
  <2>4. PagesTypeOK'
    BY <2>1, <2>2 DEF Inv, PagesTypeOK
  <2>5. Booting'
    BY <2>1 DEF Inv, Booting
  <2> QED BY <2>3, <2>4, <2>5 DEF Inv
<1> QED BY <1>1, <1>2, <1>3

\* Once the boot is over, every page is cut.
LEMMA AllCut == ASSUME Inv, booted PROVE Cut = Pages /\ addr # NoPage
<1>1. addr \in Nat /\ addr # NoPage /\ addr + PAGE_SIZE > HeapEnd
  BY DEF Inv, PagesTypeOK, Booting
<1>2. ASSUME NEW p \in Pages PROVE p < addr
  BY <1>1, PagesFinite
<1> QED BY <1>1, <1>2 DEF Cut

LEMMA MallocInv ==
  ASSUME Inv, malloc_page
  PROVE  /\ Inv'
         /\ free_list = NoPage => owned = Pages
         /\ free_list # NoPage => free_list \in Pages \ owned
<1>1. booted /\ UNCHANGED <<heap, addr, booted, mem>>
  BY DEF malloc_page
<1>2. Cut = Pages /\ addr # NoPage
  BY <1>1, AllCut
<1>3. PICK n \in 0..Cardinality(Pages) : \E c \in [1..n -> Free] :
        Lists(c, n, Free) /\ Chain(c, n, free_list, mem)
  BY DEF Inv, FreeListed
<1>4. PICK c \in [1..n -> Free] :
        Lists(c, n, Free) /\ Chain(c, n, free_list, mem)
  BY <1>3
<1>5. n \in Nat /\ Cardinality(Pages) \in Nat
  BY PagesFinite
<1>6. CASE free_list = NoPage
  <2>1. given' = NoPage /\ UNCHANGED <<free_list, owned>>
    BY <1>6 DEF malloc_page
  <2>2. n = 0
    <3> SUFFICES ASSUME n # 0 PROVE FALSE
      OBVIOUS
    <3>1. c[1] \in Free /\ c[1] = NoPage
      BY <1>4, <1>5, <1>6 DEF Chain
    <3> QED BY <3>1, FreeIsPages, PagesFinite
  <2>3. Free = {}
    BY <1>4, <2>2 DEF Lists
  <2>4. owned = Pages
    BY <1>2, <2>3 DEF Free, Inv, PagesTypeOK
  <2>5. Free' = Free /\ Cut' = Cut
    BY <1>1, <2>1 DEF Free, Cut
  <2>6. FreeListed'
    BY <1>1, <2>1, <2>5, SameList DEF Inv
  <2>7. PagesTypeOK' /\ Booting'
    BY <1>1, <2>1, <2>5 DEF Inv, PagesTypeOK, Booting
  <2> QED BY <1>6, <2>4, <2>6, <2>7 DEF Inv
<1>7. CASE free_list # NoPage
  <2>1. /\ given' = free_list /\ free_list' = mem[free_list]
        /\ owned' = owned \cup {free_list}
    BY <1>7 DEF malloc_page
  <2>2. n - 1 \in Nat /\ free_list \in Free
    BY <1>4, <1>5, <1>7, FreeIsPages, ListPop
  <2>3. PICK d \in [1..n - 1 -> Free \ {free_list}] :
          /\ Lists(d, n - 1, Free \ {free_list})
          /\ Chain(d, n - 1, mem[free_list], mem)
    BY <1>4, <1>5, <1>7, FreeIsPages, ListPop
  <2>4. Free' = Free \ {free_list} /\ Cut' = Cut
    BY <1>1, <2>1 DEF Free, Cut
  <2>5. FreeListed'
    <3>1. n - 1 \in 0..Cardinality(Pages)
      BY <1>5, <2>2
    <3> QED BY <1>1, <2>1, <2>3, <2>4, <3>1 DEF FreeListed
  <2>6. free_list \in Cut /\ free_list \in Pages \ owned
    BY <1>2, <2>2 DEF Free
  <2>7. free_list' \in Pages \cup {NoPage}
    <3>1. CASE n - 1 = 0
      BY <2>1, <2>3, <3>1 DEF Chain
    <3>2. CASE n - 1 # 0
      <4>1. 1 \in 1..n - 1 /\ mem[free_list] = d[1]
        BY <2>2, <2>3, <3>2 DEF Chain
      <4>2. d[1] \in Free
        BY <4>1
      <4> QED BY <2>1, <4>1, <4>2, FreeIsPages
    <3> QED BY <3>1, <3>2
  <2>8. PagesTypeOK'
    BY <1>1, <2>1, <2>4, <2>6, <2>7 DEF Inv, PagesTypeOK
  <2>9. Booting'
    BY <1>1, <1>2, <2>1 DEF Inv, Booting
  <2> QED BY <1>7, <2>5, <2>6, <2>8, <2>9 DEF Inv
<1> QED BY <1>6, <1>7

LEMMA FreeInv == ASSUME Inv, free_page PROVE Inv'
<1>1. booted /\ given' = NoPage /\ UNCHANGED <<heap, addr, booted>>
  BY DEF free_page
<1>2. Cut = Pages /\ addr # NoPage /\ Cut' = Cut
  BY <1>1, AllCut DEF Cut
<1>3. CASE UNCHANGED <<mem, free_list, owned>>
  <2>1. Free' = Free
    BY <1>2, <1>3 DEF Free
  <2>2. FreeListed'
    BY <1>3, <2>1, SameList DEF Inv
  <2>3. PagesTypeOK' /\ Booting'
    BY <1>1, <1>2, <1>3 DEF Inv, PagesTypeOK, Booting
  <2> QED BY <2>2, <2>3 DEF Inv
<1>4. ASSUME NEW p \in owned, PushPage(p), owned' = owned \ {p}
      PROVE  Inv'
  <2>1. p \in Pages \ Free /\ Free' = Free \cup {p}
    BY <1>2, <1>4 DEF Free, Inv, PagesTypeOK
  <2>2. FreeListed' /\ mem' \in [Words -> Nat] /\ free_list' \in Pages \cup {NoPage}
    BY <1>4, <2>1, PushListed DEF Inv
  <2>3. PagesTypeOK'
    BY <1>1, <1>2, <1>4, <2>2 DEF Inv, PagesTypeOK
  <2>4. Booting'
    BY <1>1, <1>2, <1>4 DEF Inv, Booting
  <2> QED BY <2>2, <2>3, <2>4 DEF Inv
<1> QED BY <1>3, <1>4 DEF free_page

LEMMA ScribbleInv == ASSUME Inv, Scribble PROVE Inv'
<1>1. PICK p \in owned, v \in Garbage : mem' = [mem EXCEPT ![p] = v]
  BY DEF Scribble
<1>2. UNCHANGED <<heap, addr, booted, free_list, owned, given>>
  BY DEF Scribble
<1>3. Free' = Free /\ Cut' = Cut
  BY <1>2 DEF Free, Cut
<1>4. \A f \in Free : mem'[f] = mem[f]
  BY <1>1, FreeIsPages, PagesFinite DEF Inv, PagesTypeOK, Free
<1>5. FreeListed'
  BY <1>2, <1>3, <1>4, SameList DEF Inv
<1>6. mem' \in [Words -> Nat]
  BY <1>1, SplitAssumption DEF Inv, PagesTypeOK
<1>7. PagesTypeOK'
  BY <1>2, <1>3, <1>6 DEF Inv, PagesTypeOK
<1>8. Booting'
  BY <1>2 DEF Inv, Booting
<1> QED BY <1>5, <1>7, <1>8 DEF Inv

LEMMA NextInv == Inv /\ [PagesNext]_pageVars => Inv'
<1> SUFFICES ASSUME Inv, [PagesNext]_pageVars PROVE Inv'
  OBVIOUS
<1>1. CASE BootHeap \/ BootPages \/ BootDone
  BY <1>1, BootInv
<1>2. CASE CutPage
  BY <1>2, CutPageInv
<1>3. CASE malloc_page
  BY <1>3, MallocInv
<1>4. CASE free_page
  BY <1>4, FreeInv
<1>5. CASE Scribble
  BY <1>5, ScribbleInv
<1>6. CASE UNCHANGED pageVars
  <2>1. Free' = Free /\ Cut' = Cut
    BY <1>6 DEF pageVars, Free, Cut
  <2>2. FreeListed'
    BY <1>6, <2>1, SameList DEF Inv, pageVars
  <2> QED BY <1>6, <2>1, <2>2 DEF Inv, pageVars, PagesTypeOK, Booting
<1> QED BY <1>1, <1>2, <1>3, <1>4, <1>5, <1>6 DEF PagesNext

LEMMA Invariance == PagesSpec => []Inv
BY InitInv, NextInv, PTL DEF PagesSpec
-------------------------------------------------------------------------------
(* The theorems *)

\* Every variable keeps its type: the list never leads out of the provider's
\* memory, and only pages that were cut are owned.
THEOREM TypesHold == PagesSpec => []PagesTypeOK
BY Invariance, PTL DEF Inv

\* No page is lost, listed twice or both listed and owned, whatever the owners
\* of pages write into them.
THEOREM ListStaysWhole == PagesSpec => []FreeListed
BY Invariance, PTL DEF Inv

\* The kernel heap and the pages handed out never share a byte.
THEOREM HeapAndPagesApart == PagesSpec => []ArenasApart
<1>1. Inv => ArenasApart
  <2> SUFFICES ASSUME Inv, NEW p \in owned PROVE heap.to <= p
    BY DEF ArenasApart
  <2>1. p \in Pages /\ addr # NoPage
    BY DEF Inv, PagesTypeOK, Cut, Booting
  <2>2. heap.to = PMM_START
    BY <2>1 DEF Inv, Booting
  <2> QED BY <2>1, <2>2, PagesFinite
<1> QED BY <1>1, Invariance, PTL

\* malloc_page and free_page keep the promise of lib/pmm: a page has one owner
\* at most, and a request is refused only when all pages are owned.
THEOREM PagesKeepPromise == PagesSpec => KeepsPool
<1>1. PagesInit => Provider!PoolInit
  BY DEF PagesInit, Provider!PoolInit
<1>2. Inv /\ [PagesNext]_pageVars => [Provider!PoolNext]_<<owned, given>>
  <2> SUFFICES ASSUME Inv, [PagesNext]_pageVars
               PROVE  [Provider!PoolNext]_<<owned, given>>
    OBVIOUS
  <2>1. CASE BootHeap \/ BootPages \/ BootDone \/ CutPage \/ Scribble
             \/ UNCHANGED pageVars
    BY <2>1 DEF BootHeap, BootPages, BootDone, CutPage, Scribble, pageVars
  <2>2. CASE malloc_page
    <3>1. CASE free_list = NoPage
      <4>1. Provider!Exhausted
        BY <2>2, <3>1, MallocInv DEF malloc_page, Provider!Exhausted
      <4> QED BY <4>1 DEF Provider!PoolNext
    <3>2. CASE free_list # NoPage
      <4>1. free_list \in Pages \ owned
        BY <2>2, <3>2, MallocInv
      <4>2. Provider!Take
        BY <2>2, <3>2, <4>1 DEF malloc_page, Provider!Take
      <4> QED BY <4>2 DEF Provider!PoolNext
    <3> QED BY <3>1, <3>2
  <2>3. CASE free_page
    BY <2>3 DEF free_page, Provider!PoolNext, Provider!Give, Provider!Ignore
  <2> QED BY <2>1, <2>2, <2>3 DEF PagesNext
<1> QED BY <1>1, <1>2, Invariance, PTL DEF PagesSpec, KeepsPool, Provider!Pool
===============================================================================
