-------------------------- MODULE SimpleAllocProofs --------------------------
(***************************************************************************)
(* For every alignment, table size and width of usize: the table of blocks *)
(* stays in order, and malloc and free keep the promise of HeapSpec.       *)
(***************************************************************************)
EXTENDS SimpleAlloc, SequenceTheorems, FiniteSetTheorems,
        WellFoundedInduction, TLAPS

(* Sequences, intervals and division *)

\* A set of numbers that is not empty has a least element.
LEMMA LeastNumber ==
  ASSUME NEW S, S \subseteq Nat, S # {}
  PROVE  \E m \in S : \A k \in S : m <= k
<1>1. PICK m \in S : \A k \in S : ~(<<k, m>> \in OpToRel(<, Nat))
  BY NatLessThanWellFounded, WFMin, Zenon
<1>2. \A k \in S : ~(k < m)
  BY <1>1, Zenon DEF OpToRel
<1>3. m \in Nat /\ \A k \in S : k \in Nat
  OBVIOUS
<1> QED
  BY <1>2, <1>3

\* heap_item_insert: what is where after an insertion.
LEMMA InsertAtIs ==
  ASSUME NEW s \in Seq(Items), NEW i \in 1..Len(s) + 1, NEW e \in Items
  PROVE  /\ InsertAt(s, i, e) \in Seq(Items)
         /\ Len(InsertAt(s, i, e)) = Len(s) + 1
         /\ \A j \in 1..Len(s) + 1 :
              InsertAt(s, i, e)[j] = IF j < i THEN s[j]
                                     ELSE IF j = i THEN e ELSE s[j - 1]
<1> DEFINE a == SubSeq(s, 1, i - 1)
           b == SubSeq(s, i, Len(s))
           c == a \o <<e>>
<1>1. /\ a \in Seq(Items) /\ Len(a) = i - 1
      /\ \A j \in 1..i - 1 : a[j] = s[j]
  OBVIOUS
<1>2. /\ b \in Seq(Items) /\ Len(b) = Len(s) - i + 1
      /\ \A j \in 1..Len(s) - i + 1 : b[j] = s[i + j - 1]
  OBVIOUS
<1> HIDE DEF a, b
<1>3. /\ c \in Seq(Items) /\ Len(c) = i /\ c[i] = e
      /\ \A j \in 1..i - 1 : c[j] = a[j]
  BY <1>1
<1> HIDE DEF c
<1>4. /\ c \o b \in Seq(Items) /\ Len(c \o b) = Len(s) + 1
      /\ \A j \in 1..Len(s) + 1 :
           (c \o b)[j] = IF j <= i THEN c[j] ELSE b[j - i]
  BY <1>2, <1>3
<1>5. ASSUME NEW j \in 1..Len(s) + 1
      PROVE  (c \o b)[j] = IF j < i THEN s[j] ELSE IF j = i THEN e ELSE s[j - 1]
  <2>1. CASE j < i
    BY <1>1, <1>3, <1>4, <2>1
  <2>2. CASE j = i
    BY <1>3, <1>4, <2>2
  <2>3. CASE j > i
    <3>1. j - i \in 1..Len(s) - i + 1 /\ i + (j - i) - 1 = j - 1
      BY <2>3
    <3> QED BY <1>2, <1>4, <2>3, <3>1
  <2>4. j < i \/ j = i \/ j > i
    OBVIOUS
  <2> QED BY <2>1, <2>2, <2>3, <2>4, Zenon
<1> QED BY <1>4, <1>5 DEF InsertAt, a, b, c

\* heap_item_remove.
LEMMA RemoveAtIs ==
  ASSUME NEW S, NEW s \in Seq(S), NEW i \in 1..Len(s)
  PROVE  /\ RemoveAt(s, i) \in Seq(S)
         /\ Len(RemoveAt(s, i)) = Len(s) - 1
         /\ \A j \in 1..Len(s) - 1 :
              RemoveAt(s, i)[j] = IF j < i THEN s[j] ELSE s[j + 1]
<1> DEFINE a == SubSeq(s, 1, i - 1)
           b == SubSeq(s, i + 1, Len(s))
<1>1. /\ a \in Seq(S) /\ Len(a) = i - 1
      /\ \A j \in 1..i - 1 : a[j] = s[j]
  OBVIOUS
<1>2. /\ b \in Seq(S) /\ Len(b) = Len(s) - i
      /\ \A j \in 1..Len(s) - i : b[j] = s[i + j]
  OBVIOUS
<1> HIDE DEF a, b
<1>3. /\ a \o b \in Seq(S) /\ Len(a \o b) = Len(a) + Len(b)
      /\ \A j \in 1..Len(a) + Len(b) :
           (a \o b)[j] = IF j <= Len(a) THEN a[j] ELSE b[j - Len(a)]
  BY <1>1, <1>2, ConcatProperties
<1>4. ASSUME NEW j \in 1..Len(s) - 1
      PROVE  (a \o b)[j] = IF j < i THEN s[j] ELSE s[j + 1]
  <2>1. j \in 1..Len(a) + Len(b) /\ j \in Int /\ i \in Int
    BY <1>1, <1>2
  <2>2. CASE j < i
    BY <1>1, <1>3, <2>1, <2>2
  <2>3. CASE j >= i
    <3>1. /\ j - Len(a) \in 1..Len(s) - i /\ i + (j - Len(a)) = j + 1
          /\ ~(j <= Len(a))
      BY <1>1, <2>3
    <3>2. b[j - Len(a)] = s[j + 1]
      BY <1>2, <3>1
    <3>3. (a \o b)[j] = b[j - Len(a)]
      BY <1>3, <2>1, <3>1
    <3> QED BY <2>1, <2>3, <3>2, <3>3
  <2> QED BY <2>1, <2>2, <2>3
<1>5. Len(a) + Len(b) = Len(s) - 1
  BY <1>1, <1>2
<1> QED BY <1>3, <1>4, <1>5 DEF RemoveAt, a, b

\* align_up returns 0 when it wraps, and else no less than it was given.
LEMMA DivBounds ==
  ASSUME NEW a \in Nat \ {0}, NEW x \in Nat
  PROVE  /\ x \div a \in Nat
         /\ (x \div a) * a <= x
         /\ x < (x \div a) * a + a
OBVIOUS

LEMMA SmallDiv ==
  ASSUME NEW a \in Nat \ {0}, NEW x \in 0..a - 1
  PROVE  x \div a = 0
OBVIOUS

LEMMA AlignUpIs ==
  ASSUME NEW n \in 0..WORD - 1
  PROVE  align_up(n) \in Nat /\ (align_up(n) = 0 \/ align_up(n) >= n)
<1> USE AllocAssumption
<1> DEFINE x == (n + ALIGN - 1) % WORD
           q == x \div ALIGN
<1>1. n \in Nat /\ WORD \in Nat \ {0} /\ ALIGN \in Nat \ {0}
  OBVIOUS
<1>2. x \in 0..WORD - 1
  BY <1>1
<1>3. q \in Nat /\ q * ALIGN <= x /\ x < q * ALIGN + ALIGN
  BY <1>1, <1>2, DivBounds
<1>4. q * ALIGN \in Nat
  BY <1>1, <1>3
<1>5. CASE n + ALIGN - 1 < WORD
  <2>1. x = n + ALIGN - 1
    BY <1>1, <1>5
  <2> HIDE DEF x, q
  <2>2. q * ALIGN >= n
    BY <1>1, <1>3, <1>4, <2>1
  <2> QED BY <1>4, <2>2 DEF align_up, q, x
<1>6. CASE n + ALIGN - 1 >= WORD
  <2>1. x < ALIGN
    <3>1. CASE ALIGN >= WORD
      BY <1>1, <1>2, <3>1
    <3>2. CASE ALIGN < WORD
      <4>1. n + ALIGN - 1 - WORD \in 0..WORD - 1
        BY <1>1, <1>6, <3>2
      <4>2. x = n + ALIGN - 1 - WORD
        BY <1>1, <4>1
      <4> QED BY <1>1, <4>1, <4>2
    <3> QED BY <1>1, <3>1, <3>2
  <2>2. q = 0
    BY <1>1, <1>2, <2>1, SmallDiv
  <2> QED BY <1>1, <2>2 DEF align_up
<1> QED BY <1>1, <1>5, <1>6
-------------------------------------------------------------------------------
(* The invariant *)

Inv == TypeOK /\ TableSorted /\ NowInArena

\* The invariant, spelled out for one block and for two.
LEMMA Blocks ==
  ASSUME Inv
  PROVE  /\ Count \in Nat /\ Count <= MAX_ITEMS
         /\ cap \in Nat /\ start \in Nat /\ start + cap < WORD
         /\ item \in Seq(Items)
         /\ \A j \in 1..Count :
              /\ item[j] \in Items
              /\ item[j].from \in Nat /\ item[j].size \in Nat
              /\ heap_end(j) \in Nat
              /\ heap_end(j) = item[j].from + item[j].size
              /\ item[j].size > 0 /\ heap_end(j) <= cap
              /\ item[j].from < heap_end(j)
         /\ \A j, k \in 1..Count : j < k => heap_end(j) <= item[k].from
         /\ start = NULL => Count = 0 /\ cap = 0
<1>1. item \in Seq(Items) /\ Count = Len(item) /\ Count \in Nat
  BY DEF Inv, TypeOK, Count
<1>2. ASSUME NEW j \in 1..Count
      PROVE  /\ item[j] \in Items
             /\ item[j].from \in Nat /\ item[j].size \in Nat
  <2>1. item[j] \in Items
    BY <1>1
  <2> QED BY <2>1 DEF Items
<1>3. \A j \in 1..Count : heap_end(j) = item[j].from + item[j].size
  BY DEF heap_end
<1>4. /\ Count <= MAX_ITEMS
      /\ \A j \in 1..Count : item[j].size > 0 /\ heap_end(j) <= cap
      /\ \A j, k \in 1..Count : j < k => heap_end(j) <= item[k].from
      /\ cap \in Nat /\ start \in Nat /\ start + cap < WORD
      /\ start = NULL => Count = 0 /\ cap = 0
  BY DEF Inv, TypeOK, TableSorted
<1>5. ASSUME NEW j \in 1..Count
      PROVE  heap_end(j) \in Nat /\ item[j].from < heap_end(j)
  BY <1>2, <1>3, <1>4
<1> QED BY <1>1, <1>2, <1>3, <1>4, <1>5

\* Every gap has its ends in order and lies in the arena; what lies before it
\* ends before it, and what lies after it starts after it.
LEMMA Gaps ==
  ASSUME Inv, NEW i \in 1..Count + 1
  PROVE  /\ prev_end(i) \in Nat /\ gap_end(i) \in Nat
         /\ prev_end(i) <= gap_end(i) /\ gap_end(i) <= cap
         /\ \A j \in 1..Count : j < i => heap_end(j) <= prev_end(i)
         /\ \A j \in 1..Count : i <= j => gap_end(i) <= item[j].from
<1>1. /\ Count \in Nat /\ cap \in Nat /\ i \in Nat
      /\ \A j \in 1..Count : /\ item[j].from \in Nat /\ item[j].size \in Nat
                              /\ heap_end(j) \in Nat
                              /\ item[j].from < heap_end(j)
                              /\ heap_end(j) <= cap
      /\ \A j, k \in 1..Count : j < k => heap_end(j) <= item[k].from
  BY Blocks
<1>2. prev_end(i) \in Nat /\ \A j \in 1..Count : j < i => heap_end(j) <= prev_end(i)
  <2>1. CASE i = 1
    BY <1>1, <2>1 DEF prev_end
  <2>2. CASE i # 1
    <3>1. i - 1 \in 1..Count /\ prev_end(i) = heap_end(i - 1)
      BY <1>1, <2>2 DEF prev_end
    <3>2. ASSUME NEW j \in 1..Count, j < i PROVE heap_end(j) <= prev_end(i)
      <4>1. CASE j = i - 1
        BY <1>1, <3>1, <4>1
      <4>2. CASE j < i - 1
        <5>1. heap_end(j) <= item[i - 1].from
          BY <1>1, <3>1, <4>2
        <5> QED BY <1>1, <3>1, <5>1
      <4> QED BY <1>1, <3>2, <4>1, <4>2
    <3> QED BY <1>1, <3>1, <3>2
  <2> QED BY <2>1, <2>2
<1>3. /\ gap_end(i) \in Nat /\ gap_end(i) <= cap
      /\ \A j \in 1..Count : i <= j => gap_end(i) <= item[j].from
  <2>1. CASE i = Count + 1
    BY <1>1, <2>1 DEF gap_end
  <2>2. CASE i # Count + 1
    <3>1. i \in 1..Count /\ gap_end(i) = item[i].from
      BY <1>1, <2>2 DEF gap_end
    <3>2. ASSUME NEW j \in 1..Count, i <= j PROVE gap_end(i) <= item[j].from
      <4>1. CASE i = j
        BY <1>1, <3>1, <4>1
      <4>2. CASE i < j
        <5>1. heap_end(i) <= item[j].from
          BY <1>1, <3>1, <4>2
        <5> QED BY <1>1, <3>1, <5>1
      <4> QED BY <1>1, <3>2, <4>1, <4>2
    <3> QED BY <1>1, <3>1, <3>2
  <2> QED BY <2>1, <2>2
<1>4. prev_end(i) <= gap_end(i)
  <2>1. CASE i = 1
    BY <1>3, <2>1 DEF prev_end
  <2>2. CASE i # 1
    <3>1. i - 1 \in 1..Count /\ prev_end(i) = heap_end(i - 1)
      BY <1>1, <2>2 DEF prev_end
    <3>2. CASE i \in 1..Count
      BY <1>1, <3>1, <3>2 DEF gap_end
    <3>3. CASE i = Count + 1
      BY <1>1, <3>1, <3>3 DEF gap_end
    <3> QED BY <1>1, <3>2, <3>3
  <2> QED BY <2>1, <2>2
<1> QED BY <1>2, <1>3, <1>4

\* What a block that goes into gap i does to the table.
LEMMA Inserted ==
  ASSUME Inv, NEW i \in 1..Count + 1, NEW need \in Nat \ {0}, NEW size \in Nat,
         start # NULL, Stops(i, need), MallocAt(i, need, size),
         Count < MAX_ITEMS
  PROVE  /\ Inv'
         /\ prev_end(i) \in Nat /\ prev_end(i) + need <= cap
         /\ last' = Answer(start + prev_end(i), size)
         /\ start' = start /\ cap' = cap
         /\ Count' = Count + 1
         /\ \A j \in 1..Count + 1 :
              item'[j] = IF j < i THEN item[j]
                         ELSE IF j = i THEN [from |-> prev_end(i), size |-> need]
                         ELSE item[j - 1]
         /\ \A j \in 1..Count : \/ heap_end(j) <= prev_end(i)
                               \/ prev_end(i) + need <= item[j].from
<1> USE AllocAssumption
<1> DEFINE from == prev_end(i)
           new == [from |-> from, size |-> need]
<1>1. /\ from \in Nat /\ gap_end(i) \in Nat
      /\ from <= gap_end(i) /\ gap_end(i) <= cap
      /\ \A j \in 1..Count : j < i => heap_end(j) <= from
      /\ \A j \in 1..Count : i <= j => gap_end(i) <= item[j].from
  BY Gaps
<1>2. from + need <= gap_end(i)
  BY <1>1 DEF Stops
<1>3. /\ item' = InsertAt(item, i, new) /\ now' = start + from + need
      /\ last' = Answer(start + from, size)
      /\ start' = start /\ cap' = cap
  <2>1. Count \in Nat /\ ~(gap_end(i) < from) /\ ~(Count >= MAX_ITEMS)
    BY <1>1, Blocks
  <2> QED BY <2>1 DEF MallocAt
<1>4. /\ start \in Nat /\ cap \in Nat /\ start + cap < WORD
      /\ item \in Seq(Items) /\ Count \in Nat
      /\ \A j \in 1..Count : /\ item[j] \in Items
                              /\ item[j].from \in Nat /\ item[j].size \in Nat
                              /\ heap_end(j) = item[j].from + item[j].size
                              /\ item[j].size > 0 /\ heap_end(j) <= cap
      /\ \A j, k \in 1..Count : j < k => heap_end(j) <= item[k].from
  BY Blocks
<1>5. new \in Items
  BY <1>1 DEF Items
<1>a. Count \in Nat /\ i \in Nat /\ i <= Count + 1
  BY <1>4
<1>b. \A j \in 1..Count : /\ item[j].from \in Nat /\ item[j].size \in Nat
                          /\ heap_end(j) = item[j].from + item[j].size
  BY <1>4
<1>c. \A j, k \in 1..Count : j < k => heap_end(j) <= item[k].from
  BY <1>4
<1> HIDE DEF from, new
<1>6. /\ item' \in Seq(Items) /\ Count' = Count + 1
      /\ \A j \in 1..Count + 1 :
           item'[j] = IF j < i THEN item[j] ELSE IF j = i THEN new ELSE item[j - 1]
  <2>1. Count = Len(item) /\ Count' = Len(item')
    BY DEF Count
  <2>2. item \in Seq(Items) /\ i \in 1..Len(item) + 1
    BY <1>4, <2>1
  <2>3. /\ InsertAt(item, i, new) \in Seq(Items)
        /\ Len(InsertAt(item, i, new)) = Len(item) + 1
        /\ \A j \in 1..Len(item) + 1 :
             InsertAt(item, i, new)[j] =
               IF j < i THEN item[j] ELSE IF j = i THEN new ELSE item[j - 1]
    <3>1. \A s \in Seq(Items) : \A k \in 1..Len(s) + 1 : \A e \in Items :
            /\ InsertAt(s, k, e) \in Seq(Items)
            /\ Len(InsertAt(s, k, e)) = Len(s) + 1
            /\ \A j \in 1..Len(s) + 1 :
                 InsertAt(s, k, e)[j] = IF j < k THEN s[j]
                                        ELSE IF j = k THEN e ELSE s[j - 1]
      BY InsertAtIs
    <3>2. \A e \in Items :
            /\ InsertAt(item, i, e) \in Seq(Items)
            /\ Len(InsertAt(item, i, e)) = Len(item) + 1
            /\ \A j \in 1..Len(item) + 1 :
                 InsertAt(item, i, e)[j] = IF j < i THEN item[j]
                                           ELSE IF j = i THEN e ELSE item[j - 1]
      BY <2>2, <3>1
    <3> QED BY <1>5, <3>2
  <2> QED BY <1>3, <2>1, <2>3
<1>7. new.from = from /\ new.size = need
  BY DEF new
<1>8. ASSUME NEW j \in 1..Count + 1
      PROVE  /\ j < i => j \in 1..Count /\ item'[j] = item[j]
             /\ j = i => item'[j] = new
             /\ j > i => j - 1 \in 1..Count /\ item'[j] = item[j - 1]
  BY <1>4, <1>6
<1>9. ASSUME NEW j \in 1..Count + 1
      PROVE  item'[j].size > 0 /\ item'[j].from + item'[j].size <= cap
  <2>1. CASE j < i
    BY <1>4, <1>8, <2>1
  <2>2. CASE j = i
    BY <1>1, <1>2, <1>4, <1>7, <1>8, <2>2
  <2>3. CASE j > i
    BY <1>4, <1>8, <2>3
  <2> QED BY <1>4, <2>1, <2>2, <2>3
<1>10. ASSUME NEW j \in 1..Count + 1, NEW k \in 1..Count + 1, j < k
       PROVE  item'[j].from + item'[j].size <= item'[k].from
  <2>0. j \in Nat /\ k \in Nat /\ 1 <= j /\ k <= Count + 1
    BY <1>a
  <2>1. CASE k < i
    <3>1. j \in 1..Count /\ k \in 1..Count
      BY <1>a, <1>10, <2>0, <2>1
    <3>2. item'[j] = item[j] /\ item'[k] = item[k]
      BY <1>a, <1>8, <1>10, <2>0, <2>1
    <3>3. heap_end(j) <= item[k].from
      BY <1>c, <1>10, <3>1
    <3> QED BY <1>b, <3>1, <3>2, <3>3
  <2>2. CASE k = i
    <3>1. j \in 1..Count /\ j < i
      BY <1>a, <1>10, <2>0, <2>2
    <3>2. item'[j] = item[j] /\ item'[k] = new
      BY <1>8, <2>2, <3>1
    <3>3. heap_end(j) <= from
      BY <1>1, <3>1
    <3> QED BY <1>b, <1>7, <3>1, <3>2, <3>3
  <2>3. CASE j < i /\ i < k
    <3>1. j \in 1..Count /\ k - 1 \in 1..Count /\ j < k - 1
      BY <1>a, <2>0, <2>3
    <3>2. item'[j] = item[j] /\ item'[k] = item[k - 1]
      BY <1>8, <2>3
    <3>3. heap_end(j) <= item[k - 1].from
      BY <1>c, <3>1
    <3> QED BY <1>b, <3>1, <3>2, <3>3
  <2>4. CASE j = i
    <3>1. k - 1 \in 1..Count /\ i <= k - 1 /\ k > i
      BY <1>a, <1>10, <2>0, <2>4
    <3>2. item'[j] = new /\ item'[k] = item[k - 1]
      BY <1>8, <2>4, <3>1
    <3>3. gap_end(i) <= item[k - 1].from /\ item[k - 1].from \in Nat
      BY <1>1, <1>b, <3>1
    <3>4. from \in Nat /\ gap_end(i) \in Nat
      BY <1>1
    <3> QED BY <1>2, <1>7, <3>2, <3>3, <3>4
  <2>5. CASE i < j
    <3>1. j - 1 \in 1..Count /\ k - 1 \in 1..Count /\ j - 1 < k - 1 /\ i < k
      BY <1>a, <1>10, <2>0, <2>5
    <3>2. item'[j] = item[j - 1] /\ item'[k] = item[k - 1]
      BY <1>8, <2>5, <3>1
    <3>3. heap_end(j - 1) <= item[k - 1].from
      BY <1>c, <3>1
    <3> QED BY <1>b, <3>1, <3>2, <3>3
  <2>6. k < i \/ k = i \/ (j < i /\ i < k) \/ j = i \/ i < j
    BY <1>a, <1>10, <2>0
  <2> QED BY <2>1, <2>2, <2>3, <2>4, <2>5, <2>6
<1>11. TypeOK'
  BY <1>1, <1>3, <1>4, <1>6 DEF TypeOK, Answer
<1>12. TableSorted'
  BY <1>3, <1>4, <1>6, <1>9, <1>10 DEF TableSorted, heap_end, Count
<1>13. NowInArena'
  <2>1. start <= start + from + need /\ start + from + need <= start + cap
    BY <1>1, <1>2, <1>4
  <2> QED BY <1>3, <2>1 DEF NowInArena
<1>14. ASSUME NEW j \in 1..Count
       PROVE  heap_end(j) <= from \/ from + need <= item[j].from
  <2>1. CASE j < i
    BY <1>1, <2>1
  <2>2. CASE i <= j
    <3>1. gap_end(i) <= item[j].from /\ item[j].from \in Nat
      BY <1>1, <1>b, <2>2
    <3>2. from \in Nat /\ gap_end(i) \in Nat
      BY <1>1
    <3> QED BY <1>2, <3>1, <3>2
  <2> QED BY <1>a, <2>1, <2>2
<1>15. from \in Nat /\ from + need <= cap
  BY <1>1, <1>2, <1>4
<1>16. Inv'
  BY <1>11, <1>12, <1>13 DEF Inv
<1> QED BY <1>3, <1>6, <1>14, <1>15, <1>16 DEF from, new

\* What heap_item_remove leaves.
LEMMA Removed ==
  ASSUME Inv, NEW i \in 1..Count, FreeAt(i)
  PROVE  /\ Inv'
         /\ last' = NoCall /\ start' = start /\ cap' = cap
         /\ Count' = Count - 1
         /\ \A j \in 1..Count - 1 :
              item'[j] = IF j < i THEN item[j] ELSE item[j + 1]
<1> USE AllocAssumption
<1>1. /\ Count \in Nat /\ Count <= MAX_ITEMS
      /\ cap \in Nat /\ start \in Nat /\ start + cap < WORD
      /\ item \in Seq(Items)
      /\ \A j \in 1..Count :
           /\ item[j].from \in Nat /\ item[j].size \in Nat
           /\ heap_end(j) = item[j].from + item[j].size
           /\ item[j].size > 0 /\ heap_end(j) <= cap
      /\ \A j, k \in 1..Count : j < k => heap_end(j) <= item[k].from
  BY Blocks
<1>2. /\ last' = NoCall /\ start' = start /\ cap' = cap
      /\ item' = RemoveAt(item, i)
      /\ now' = IF Count = 1 THEN start
                ELSE start + item'[Count - 1].from + item'[Count - 1].size
  BY DEF FreeAt
<1>3. /\ item' \in Seq(Items) /\ Count' = Count - 1
      /\ \A j \in 1..Count - 1 :
           item'[j] = IF j < i THEN item[j] ELSE item[j + 1]
  <2>1. Count = Len(item) /\ Count' = Len(item')
    BY DEF Count
  <2>2. item \in Seq(Items) /\ i \in 1..Len(item)
    BY <1>1, <2>1
  <2>3. /\ RemoveAt(item, i) \in Seq(Items)
        /\ Len(RemoveAt(item, i)) = Len(item) - 1
        /\ \A j \in 1..Len(item) - 1 :
             RemoveAt(item, i)[j] = IF j < i THEN item[j] ELSE item[j + 1]
    <3>1. \A s \in Seq(Items) : \A k \in 1..Len(s) :
            /\ RemoveAt(s, k) \in Seq(Items)
            /\ Len(RemoveAt(s, k)) = Len(s) - 1
            /\ \A j \in 1..Len(s) - 1 :
                 RemoveAt(s, k)[j] = IF j < k THEN s[j] ELSE s[j + 1]
      BY RemoveAtIs
    <3>2. \A k \in 1..Len(item) :
            /\ RemoveAt(item, k) \in Seq(Items)
            /\ Len(RemoveAt(item, k)) = Len(item) - 1
            /\ \A j \in 1..Len(item) - 1 :
                 RemoveAt(item, k)[j] = IF j < k THEN item[j] ELSE item[j + 1]
      BY <2>2, <3>1
    <3> QED BY <2>2, <3>2
  <2> QED BY <1>2, <2>1, <2>3
<1>4. ASSUME NEW j \in 1..Count - 1
      PROVE  /\ j < i => j \in 1..Count /\ item'[j] = item[j]
             /\ j >= i => j + 1 \in 1..Count /\ item'[j] = item[j + 1]
  BY <1>1, <1>3
<1>5. ASSUME NEW j \in 1..Count - 1
      PROVE  /\ item'[j].from \in Nat /\ item'[j].size \in Nat
             /\ item'[j].size > 0 /\ item'[j].from + item'[j].size <= cap
  <2>1. CASE j < i
    BY <1>1, <1>4, <2>1
  <2>2. CASE j >= i
    BY <1>1, <1>4, <2>2
  <2> QED BY <1>1, <2>1, <2>2
<1>6. ASSUME NEW j \in 1..Count - 1, NEW k \in 1..Count - 1, j < k
      PROVE  item'[j].from + item'[j].size <= item'[k].from
  <2>1. CASE k < i
    <3>1. /\ j \in 1..Count /\ k \in 1..Count
          /\ item'[j] = item[j] /\ item'[k] = item[k]
      BY <1>1, <1>4, <1>6, <2>1
    <3>2. heap_end(j) <= item[k].from
      BY <1>1, <1>6, <3>1
    <3> QED BY <1>1, <3>1, <3>2
  <2>2. CASE j < i /\ i <= k
    <3>1. /\ j \in 1..Count /\ k + 1 \in 1..Count /\ j < k + 1
          /\ item'[j] = item[j] /\ item'[k] = item[k + 1]
      BY <1>1, <1>4, <1>6, <2>2
    <3>2. heap_end(j) <= item[k + 1].from
      BY <1>1, <3>1
    <3> QED BY <1>1, <3>1, <3>2
  <2>3. CASE i <= j
    <3>1. /\ j + 1 \in 1..Count /\ k + 1 \in 1..Count /\ j + 1 < k + 1
          /\ item'[j] = item[j + 1] /\ item'[k] = item[k + 1]
      BY <1>1, <1>4, <1>6, <2>3
    <3>2. heap_end(j + 1) <= item[k + 1].from
      BY <1>1, <3>1
    <3> QED BY <1>1, <3>1, <3>2
  <2> QED BY <1>1, <1>6, <2>1, <2>2, <2>3
<1>7. now' \in Nat /\ start <= now' /\ now' <= start + cap
  <2>1. CASE Count = 1
    BY <1>1, <1>2, <2>1
  <2>2. CASE Count # 1
    <3>1. Count - 1 \in 1..Count - 1
      BY <1>1, <2>2
    <3>2. /\ item'[Count - 1].from \in Nat /\ item'[Count - 1].size \in Nat
          /\ item'[Count - 1].from + item'[Count - 1].size <= cap
      BY <1>5, <3>1
    <3>3. now' = start + item'[Count - 1].from + item'[Count - 1].size
      BY <1>2, <2>2
    <3>4. ASSUME NEW a \in Nat, NEW b \in Nat, a + b <= cap
          PROVE  /\ start + a + b \in Nat
                 /\ start <= start + a + b /\ start + a + b <= start + cap
      BY <1>1, <3>4
    <3> QED BY <3>2, <3>3, <3>4
  <2> QED BY <2>1, <2>2
<1>8. TypeOK'
  BY <1>1, <1>2, <1>3, <1>7 DEF TypeOK, NoCall, Answer, NULL
<1>9. TableSorted'
  <2>1. start # NULL
    BY Blocks DEF NULL
  <2> QED BY <1>1, <1>2, <1>3, <1>5, <1>6, <2>1
          DEF TableSorted, heap_end, Count
<1>10. NowInArena'
  BY <1>2, <1>7 DEF NowInArena
<1> QED BY <1>2, <1>3, <1>8, <1>9, <1>10 DEF Inv

\* The calls that change no block.
LEMMA LastOnly ==
  ASSUME Inv, UNCHANGED <<start, cap, now, item>>, last' \in [ptr : Nat, size : Nat]
  PROVE  Inv'
BY DEF Inv, TypeOK, TableSorted, NowInArena, Count, heap_end

LEMMA SizeIs ==
  ASSUME NEW size \in Sizes
  PROVE  size \in Nat /\ size \in 0..WORD - 1
BY AllocAssumption

LEMMA Arenas ==
  ASSUME Inv, NEW base \in Addresses, NEW size \in Sizes, base + size < WORD,
         heap_init(base, size)
  PROVE  Inv'
<1> USE AllocAssumption
<1>1. base \in Nat /\ size \in Nat /\ NoCall \in [ptr : Nat, size : Nat]
  BY SizeIs DEF NoCall, Answer, NULL
<1>2. CASE size = 0 \/ base = NULL
  BY <1>1, <1>2, LastOnly DEF heap_init
<1>3. CASE ~(size = 0 \/ base = NULL)
  <2>1. /\ start' = base /\ now' = base /\ cap' = size /\ item' = <<>>
        /\ last' = NoCall
    BY <1>3 DEF heap_init
  <2>2. Count' = 0 /\ item' \in Seq(Items)
    BY <2>1 DEF Count
  <2> QED BY <1>1, <1>3, <2>1, <2>2
          DEF Inv, TypeOK, TableSorted, NowInArena
<1> QED BY <1>2, <1>3

\* malloc keeps the invariant, whichever way it ends.
LEMMA Mallocs ==
  ASSUME Inv, NEW size \in Sizes, malloc(size)
  PROVE  Inv'
<1> DEFINE need == align_up(size)
<1>1. size \in Nat /\ need \in Nat /\ MAX_ITEMS \in Nat
  BY SizeIs, AlignUpIs, AllocAssumption
<1> HIDE DEF need
<1>2. CASE Refused(size)
  BY <1>1, <1>2, LastOnly DEF Refused, Answer, NULL
<1>3. CASE ~Refused(size)
  <2>1. PICK i \in 1..Count + 1 : FirstStop(i, need) /\ MallocAt(i, need, size)
    BY <1>3 DEF malloc, need
  <2>2. start # NULL /\ need # 0
    BY <1>3 DEF malloc, need
  <2>3. Stops(i, need) /\ Count < MAX_ITEMS
    <3>1. Count \in Nat
      BY Blocks
    <3> QED BY <1>1, <1>3, <2>1, <3>1 DEF FirstStop, MallocAt
  <2> QED BY <1>1, <2>1, <2>2, <2>3, Inserted
<1> QED BY <1>2, <1>3

LEMMA Frees ==
  ASSUME Inv, NEW ptr \in Addresses, free(ptr)
  PROVE  Inv'
<1>1. CASE IgnoredPtr
  BY <1>1, LastOnly DEF IgnoredPtr, NoCall, Answer, NULL
<1>2. CASE \E i \in 1..Count : FreeAt(i)
  BY <1>2, Removed
<1> QED BY <1>1, <1>2 DEF free

LEMMA InitInv == Init => Inv
BY AllocAssumption
   DEF Init, Inv, TypeOK, TableSorted, NowInArena, NoCall, Answer, NULL, Count

LEMMA StepInv == Inv /\ [Next]_vars => Inv'
<1> SUFFICES ASSUME Inv, [Next]_vars PROVE Inv'
  OBVIOUS
<1>1. CASE UNCHANGED vars
  <2>1. last' \in [ptr : Nat, size : Nat]
    BY <1>1 DEF Inv, TypeOK, vars
  <2> QED BY <1>1, <2>1, LastOnly DEF vars
<1>2. CASE Next
  BY <1>2, Arenas, Mallocs, Frees DEF Next
<1> QED BY <1>1, <1>2

LEMMA Invariance == Spec => []Inv
BY InitInv, StepInv, PTL DEF Spec

\* Every variable of the heap keeps its type, whatever is asked and freed.
THEOREM TypesHold == Spec => []TypeOK
BY Invariance, PTL DEF Inv

\* The blocks of HEAP_ITEM stay sorted, apart and inside the arena.
THEOREM TableStaysSorted == Spec => []TableSorted
BY Invariance, PTL DEF Inv

\* HEAP.now never leaves the arena.
THEOREM NowStaysInArena == Spec => []NowInArena
BY Invariance, PTL DEF Inv
-------------------------------------------------------------------------------
(* The promise of lib/alloc *)

\* HeapSpec counts with its own copy of Cardinality.
LEMMA SameCardinality ==
  ASSUME NEW S
  PROVE  Abstract!Cardinality(S) = Cardinality(S)
BY DEF Abstract!Cardinality, Cardinality

\* Block i as its owner sees it.
Live(i) == [ptr |-> start + item[i].from, size |-> item[i].size]

LEMMA LiveBlocksIs ==
  /\ LiveBlocks = {Live(i) : i \in 1..Count}
  /\ \A i : Live(i).ptr = start + item[i].from /\ Live(i).size = item[i].size
BY DEF LiveBlocks, Live

\* There are as many live blocks as table entries: no two are at one address.
LEMMA LiveCount ==
  ASSUME Inv
  PROVE  Cardinality(LiveBlocks) = Count
<1>1. /\ Count \in Nat /\ start \in Nat
      /\ \A j \in 1..Count : /\ item[j].from \in Nat /\ heap_end(j) \in Nat
                              /\ item[j].from < heap_end(j)
      /\ \A j, k \in 1..Count : j < k => heap_end(j) <= item[k].from
  BY Blocks
<1> DEFINE f == [i \in 1..Count |-> Live(i)]
<1>2. f \in [1..Count -> LiveBlocks]
  BY LiveBlocksIs
<1>3. ASSUME NEW j \in 1..Count, NEW k \in 1..Count, j < k
      PROVE  Live(j) # Live(k)
  <2>1. item[j].from < item[k].from
    <3>1. heap_end(j) <= item[k].from
      BY <1>1, <1>3
    <3> QED BY <1>1, <3>1
  <2> QED BY <1>1, <2>1, LiveBlocksIs
<1>4. ASSUME NEW j \in 1..Count, NEW k \in 1..Count, f[j] = f[k]
      PROVE  j = k
  <2>1. Live(j) = Live(k)
    BY <1>4
  <2>2. ~(j < k) /\ ~(k < j)
    BY <1>3, <2>1
  <2> QED BY <2>2
<1>5. ASSUME NEW b \in LiveBlocks
      PROVE  \E i \in 1..Count : f[i] = b
  <2>1. PICK i \in 1..Count : b = Live(i)
    BY LiveBlocksIs
  <2>2. f[i] = Live(i)
    OBVIOUS
  <2> QED BY <2>1, <2>2
<1>6. f \in Bijection(1..Count, LiveBlocks)
  BY <1>2, <1>4, <1>5 DEF Bijection, Injection, Surjection, IsInjective
<1>7. IsFiniteSet(1..Count) /\ Cardinality(1..Count) = Count
  BY <1>1, FS_Interval
<1>8. Cardinality(LiveBlocks) = Cardinality(1..Count)
  BY <1>6, <1>7, FS_Bijection DEF ExistsBijection
<1> QED BY <1>7, <1>8

\* No block starts at a pointer that free ignores.
LEMMA NoBlockThere ==
  ASSUME Inv, NEW ptr \in Nat,
         \/ ptr = NULL \/ start = NULL \/ ptr < start \/ ptr - start >= cap
         \/ \A i \in 1..Count : ~StartsAt(i, ptr)
  PROVE  \A b \in LiveBlocks : b.ptr # ptr
<1>1. /\ Count \in Nat /\ start \in Nat /\ cap \in Nat
      /\ \A j \in 1..Count : /\ item[j].from \in Nat /\ heap_end(j) \in Nat
                              /\ item[j].from < heap_end(j) /\ heap_end(j) <= cap
      /\ start = NULL => Count = 0
  BY Blocks
<1>2. ASSUME NEW i \in 1..Count PROVE start + item[i].from # ptr
  <2>1. /\ item[i].from \in Nat /\ item[i].from < cap
        /\ start # NULL
    BY <1>1
  <2>2. item[i].from = ptr - start => StartsAt(i, ptr)
    BY DEF StartsAt
  <2> QED BY <1>1, <2>1, <2>2 DEF NULL
<1>3. TAKE b \in LiveBlocks
<1>4. PICK i \in 1..Count : b = Live(i)
  BY LiveBlocksIs
<1> QED BY <1>2, <1>4, LiveBlocksIs

\* When the scan passes every gap, no address is free for a block of that size.
LEMMA NoRoom ==
  ASSUME Inv, NEW need \in Nat \ {0}, NEW p \in start..start + cap,
         \/ cap = 0
         \/ \A i \in 1..Count + 1 : ~Stops(i, need)
  PROVE  ~Abstract!Room(Abstract!Block(p, need))
<1> DEFINE b == Abstract!Block(p, need)
           q == p - start
           S == {i \in 1..Count + 1 : i = Count + 1 \/ q + need <= item[i].from}
<1> SUFFICES ASSUME Abstract!Room(b) PROVE FALSE
  OBVIOUS
<1>1. /\ Count \in Nat /\ start \in Nat /\ cap \in Nat
      /\ \A j \in 1..Count : /\ item[j].from \in Nat /\ item[j].size \in Nat
                              /\ heap_end(j) \in Nat
                              /\ heap_end(j) = item[j].from + item[j].size
                              /\ item[j].from < heap_end(j)
                              /\ heap_end(j) <= cap
      /\ \A j, k \in 1..Count : j < k => heap_end(j) <= item[k].from
  BY Blocks
<1>2. p \in Nat /\ q \in Nat /\ p = start + q /\ q + need <= cap
  BY <1>1 DEF Abstract!Room, Abstract!Inside, Abstract!Block
<1>3. \A i \in 1..Count + 1 : ~Stops(i, need)
  BY <1>1, <1>2
<1> HIDE DEF q
<1>4. ASSUME NEW i \in 1..Count
      PROVE  heap_end(i) <= q \/ q + need <= item[i].from
  <2>1. Live(i) \in LiveBlocks
    BY LiveBlocksIs
  <2>2. Abstract!Apart(b, Live(i))
    BY <2>1 DEF Abstract!Room
  <2>3. \/ p + need <= start + item[i].from
        \/ start + item[i].from + item[i].size <= p
    BY <2>2, LiveBlocksIs DEF Abstract!Apart, Abstract!Block
  <2> QED BY <1>1, <1>2, <2>3
<1>5. /\ Count + 1 \in Nat /\ S \in SUBSET (1..Count + 1) /\ Count + 1 \in S
  BY <1>1
<1>6. PICK m \in S : \A k \in S : m <= k
  <2>1. S \subseteq Nat /\ S # {}
    BY <1>5
  <2> HIDE DEF S
  <2> QED BY <2>1, LeastNumber
<1>7. m \in 1..Count + 1
  BY <1>5
<1>8. prev_end(m) \in Nat /\ prev_end(m) <= q
  <2>1. CASE m = 1
    BY <1>2, <2>1 DEF prev_end
  <2>2. CASE m # 1
    <3>1. m - 1 \in 1..Count /\ m - 1 \notin S
      BY <1>1, <1>6, <1>7, <2>2
    <3>2. heap_end(m - 1) <= q
      BY <1>1, <1>4, <3>1
    <3> QED BY <1>1, <2>2, <3>1, <3>2 DEF prev_end
  <2> QED BY <2>1, <2>2
<1>9. gap_end(m) \in Nat /\ q + need <= gap_end(m)
  <2>1. CASE m = Count + 1
    BY <1>1, <1>2, <2>1 DEF gap_end
  <2>2. CASE m # Count + 1
    BY <1>1, <1>7, <2>2 DEF gap_end
  <2> QED BY <2>1, <2>2
<1>10. Stops(m, need)
  BY <1>2, <1>8, <1>9 DEF Stops
<1> QED BY <1>3, <1>7, <1>10
-------------------------------------------------------------------------------
(* Each call, seen from outside *)

\* A request that finds its gap and a free slot is granted.
LEMMA GrantStep ==
  ASSUME Inv, NEW size \in Sizes, NEW i \in 1..Count + 1,
         size # 0, start # NULL, align_up(size) # 0,
         Stops(i, align_up(size)), MallocAt(i, align_up(size), size),
         Count < MAX_ITEMS
  PROVE  Abstract!Grant(size)
<1> DEFINE need == align_up(size)
           ptr == start + prev_end(i)
           b == Abstract!Block(ptr, need)
<1>1. size \in Nat /\ need \in Nat \ {0} /\ need >= size /\ size > 0
      /\ need = Abstract!Rounded(size)
  <2>1. size \in 0..WORD - 1
    BY AllocAssumption
  <2>2. need \in Nat /\ need >= size
    BY <2>1, AlignUpIs
  <2> QED BY <2>1, <2>2 DEF align_up, Abstract!Rounded
<1> HIDE DEF need
<1>2. /\ prev_end(i) \in Nat /\ prev_end(i) + need <= cap
      /\ last' = Answer(ptr, size) /\ start' = start /\ cap' = cap
      /\ Count' = Count + 1
      /\ \A j \in 1..Count + 1 :
           item'[j] = IF j < i THEN item[j]
                      ELSE IF j = i THEN [from |-> prev_end(i), size |-> need]
                      ELSE item[j - 1]
      /\ \A j \in 1..Count : \/ heap_end(j) <= prev_end(i)
                            \/ prev_end(i) + need <= item[j].from
  BY <1>1, Inserted DEF need
<1>3. /\ Count \in Nat /\ start \in Nat /\ cap \in Nat
      /\ \A j \in 1..Count : /\ item[j].from \in Nat /\ item[j].size \in Nat
                              /\ heap_end(j) = item[j].from + item[j].size
  BY Blocks
<1>4. Abstract!Room(b)
  <2>1. ptr \in Nat /\ start <= ptr /\ ptr + need <= start + cap
    BY <1>1, <1>2, <1>3
  <2>2. Abstract!Inside(b)
    BY <2>1 DEF Abstract!Inside, Abstract!Block
  <2>3. ASSUME NEW o \in LiveBlocks PROVE Abstract!Apart(b, o)
    <3>1. PICK j \in 1..Count : o = Live(j)
      BY LiveBlocksIs
    <3>2. \/ start + item[j].from + item[j].size <= ptr
          \/ ptr + need <= start + item[j].from
      BY <1>1, <1>2, <1>3
    <3> QED BY <3>1, <3>2, LiveBlocksIs DEF Abstract!Apart, Abstract!Block
  <2> QED BY <2>2, <2>3 DEF Abstract!Room
<1>5. LiveBlocks' = LiveBlocks \cup {b}
  <2> DEFINE G(j) == [ptr |-> start + item'[j].from, size |-> item'[j].size]
  <2>1. LiveBlocks' = {G(j) : j \in 1..Count + 1}
    BY <1>2 DEF LiveBlocks
  <2>2. /\ \A j \in 1..Count + 1 : j < i => G(j) = Live(j)
        /\ G(i) = b
        /\ \A j \in 1..Count + 1 : j > i => G(j) = Live(j - 1)
    BY <1>2, <1>3 DEF Live, Abstract!Block
  <2>3. ASSUME NEW j \in 1..Count + 1 PROVE G(j) \in LiveBlocks \cup {b}
    <3>1. CASE j < i
      <4>1. j \in 1..Count
        BY <1>3, <3>1
      <4> QED BY <2>2, <3>1, <4>1, LiveBlocksIs
    <3>2. CASE j = i
      BY <2>2, <3>2
    <3>3. CASE j > i
      <4>1. j - 1 \in 1..Count
        BY <1>3, <3>3
      <4> QED BY <2>2, <3>3, <4>1, LiveBlocksIs
    <3> QED BY <1>3, <3>1, <3>2, <3>3
  <2>4. ASSUME NEW j \in 1..Count
        PROVE  \E k \in 1..Count + 1 : Live(j) = G(k)
    <3>1. CASE j < i
      <4>1. j \in 1..Count + 1
        BY <1>3
      <4> QED BY <2>2, <3>1, <4>1
    <3>2. CASE j >= i
      <4>1. j + 1 \in 1..Count + 1 /\ j + 1 > i /\ (j + 1) - 1 = j
        BY <1>3, <3>2
      <4> QED BY <2>2, <4>1
    <3> QED BY <1>3, <3>1, <3>2
  <2> HIDE DEF G
  <2>5. b \in LiveBlocks'
    BY <2>1, <2>2
  <2> QED BY <2>1, <2>3, <2>4, <2>5, LiveBlocksIs
<1>6. Cardinality(LiveBlocks) < MAX_ITEMS
  BY LiveCount
<1>7. last' = Abstract!Block(ptr, size) /\ last'.ptr = ptr
  BY <1>2 DEF Answer, Abstract!Block
<1> HIDE DEF ptr
<1>8. b = Abstract!Block(last'.ptr, Abstract!Rounded(size))
  BY <1>1, <1>7
<1>9. UNCHANGED [ptr |-> start, size |-> cap]
  BY <1>2
<1>10. last' = Abstract!Block(last'.ptr, size)
  BY <1>7
<1> HIDE DEF b
<1> QED BY <1>1, <1>4, <1>5, <1>6, <1>8, <1>9, <1>10, SameCardinality
        DEF Abstract!Grant

\* A request that is refused could not have been granted.
LEMMA RefuseStep ==
  ASSUME Inv, NEW size \in Sizes, Refused(size),
         \/ size = 0 \/ start = NULL \/ cap = 0 \/ align_up(size) = 0
         \/ Count >= MAX_ITEMS
         \/ \A i \in 1..Count + 1 : ~Stops(i, align_up(size))
  PROVE  Abstract!Refuse(size)
<1>1. /\ last' = Abstract!Block(Abstract!NULL, size)
      /\ start' = start /\ cap' = cap /\ LiveBlocks' = LiveBlocks
  BY DEF Refused, Answer, NULL, Abstract!Block, Abstract!NULL, LiveBlocks, Count
<1>2. /\ Count \in Nat /\ Count <= MAX_ITEMS /\ MAX_ITEMS \in Nat
      /\ start = NULL => cap = 0
  BY Blocks, AllocAssumption
<1>3. align_up(size) \in Nat /\ align_up(size) = Abstract!Rounded(size)
  BY AllocAssumption, AlignUpIs DEF align_up, Abstract!Rounded
<1>4. \/ size = 0
      \/ Abstract!Rounded(size) = 0
      \/ Cardinality(LiveBlocks) = MAX_ITEMS
      \/ \A p \in start..start + cap :
           ~Abstract!Room(Abstract!Block(p, Abstract!Rounded(size)))
  <2>1. CASE Count >= MAX_ITEMS
    BY <1>2, <2>1, LiveCount
  <2>2. CASE align_up(size) = 0
    BY <1>3, <2>2
  <2>3. CASE /\ align_up(size) # 0
             /\ \/ start = NULL \/ cap = 0
                \/ \A i \in 1..Count + 1 : ~Stops(i, align_up(size))
    BY <1>2, <1>3, <2>3, NoRoom
  <2> QED BY <2>1, <2>2, <2>3
<1>5. UNCHANGED <<[ptr |-> start, size |-> cap], LiveBlocks>>
  BY <1>1
<1>6. \/ size = 0
      \/ Abstract!Rounded(size) = 0
      \/ Cardinality(LiveBlocks) = MAX_ITEMS
      \/ \A p \in [ptr |-> start, size |-> cap].ptr
                   ..[ptr |-> start, size |-> cap].ptr
                     + [ptr |-> start, size |-> cap].size :
           ~Abstract!Room(Abstract!Block(p, Abstract!Rounded(size)))
  BY <1>4
<1> QED BY <1>1, <1>5, <1>6, SameCardinality DEF Abstract!Refuse

\* A call that is ignored releases nothing, and nothing was to be released.
LEMMA IgnoreStep ==
  ASSUME Inv, NEW ptr \in Addresses, IgnoredPtr,
         \A b \in LiveBlocks : b.ptr # ptr
  PROVE  Abstract!Release(ptr)
<1>1. /\ last' = Abstract!NoCall
      /\ start' = start /\ cap' = cap /\ LiveBlocks' = LiveBlocks
  BY DEF IgnoredPtr, NoCall, Answer, NULL, Abstract!Block, Abstract!NULL,
         Abstract!NoCall, LiveBlocks, Count
<1> QED BY <1>1 DEF Abstract!Release

\* A block that is freed is the one at the pointer.
LEMMA ReleaseStep ==
  ASSUME Inv, NEW ptr \in Addresses, NEW i \in 1..Count,
         ptr >= start, StartsAt(i, ptr), FreeAt(i)
  PROVE  Abstract!Release(ptr)
<1>1. /\ last' = NoCall /\ start' = start /\ cap' = cap
      /\ Count' = Count - 1
      /\ \A j \in 1..Count - 1 :
           item'[j] = IF j < i THEN item[j] ELSE item[j + 1]
  BY Removed
<1>2. /\ Count \in Nat /\ start \in Nat
      /\ \A j \in 1..Count : /\ item[j].from \in Nat /\ heap_end(j) \in Nat
                              /\ item[j].from < heap_end(j)
      /\ \A j, k \in 1..Count : j < k => heap_end(j) <= item[k].from
  BY Blocks
<1>3. ptr \in Nat /\ ptr = start + item[i].from
  <2>1. ptr \in Nat
    BY AllocAssumption
  <2> QED BY <1>2, <2>1 DEF StartsAt
<1>4. ASSUME NEW j \in 1..Count, j # i PROVE Live(j).ptr # ptr
  <2>1. item[j].from # item[i].from
    <3>1. CASE j < i
      <4>1. heap_end(j) <= item[i].from
        BY <1>2, <3>1
      <4> QED BY <1>2, <4>1
    <3>2. CASE i < j
      <4>1. heap_end(i) <= item[j].from
        BY <1>2, <3>2
      <4> QED BY <1>2, <4>1
    <3> QED BY <1>2, <1>4, <3>1, <3>2
  <2> QED BY <1>2, <1>3, <2>1, LiveBlocksIs
<1>5. LiveBlocks' = {b \in LiveBlocks : b.ptr # ptr}
  <2> DEFINE G(j) == [ptr |-> start + item'[j].from, size |-> item'[j].size]
  <2>1. LiveBlocks' = {G(j) : j \in 1..Count - 1}
    BY <1>1 DEF LiveBlocks
  <2>2. ASSUME NEW j \in 1..Count - 1
        PROVE  /\ j < i => G(j) = Live(j)
               /\ j >= i => G(j) = Live(j + 1)
    BY <1>1 DEF Live
  <2>3. ASSUME NEW j \in 1..Count - 1
        PROVE  \E k \in 1..Count : k # i /\ G(j) = Live(k)
    <3>1. CASE j < i
      <4>1. j \in 1..Count /\ j # i
        BY <1>2, <3>1
      <4> QED BY <2>2, <3>1, <4>1
    <3>2. CASE j >= i
      <4>1. j + 1 \in 1..Count /\ j + 1 # i
        BY <1>2, <3>2
      <4> QED BY <2>2, <3>2, <4>1
    <3> QED BY <1>2, <3>1, <3>2
  <2>4. ASSUME NEW k \in 1..Count, k # i
        PROVE  \E j \in 1..Count - 1 : Live(k) = G(j)
    <3>1. CASE k < i
      <4>1. k \in 1..Count - 1
        BY <1>2, <3>1
      <4> QED BY <2>2, <3>1, <4>1
    <3>2. CASE k > i
      <4>1. k - 1 \in 1..Count - 1 /\ k - 1 >= i /\ (k - 1) + 1 = k
        BY <1>2, <3>2
      <4> QED BY <2>2, <4>1
    <3> QED BY <1>2, <2>4, <3>1, <3>2
  <2> HIDE DEF G
  <2>5. Live(i).ptr = ptr
    BY <1>3, LiveBlocksIs
  <2>6. ASSUME NEW b \in LiveBlocks' PROVE b \in LiveBlocks /\ b.ptr # ptr
    <3>1. PICK j \in 1..Count - 1 : b = G(j)
      BY <2>1
    <3>2. PICK k \in 1..Count : k # i /\ b = Live(k)
      BY <2>3, <3>1
    <3> QED BY <1>4, <3>2, LiveBlocksIs
  <2>7. ASSUME NEW b \in LiveBlocks, b.ptr # ptr PROVE b \in LiveBlocks'
    <3>1. PICK k \in 1..Count : b = Live(k)
      BY LiveBlocksIs
    <3>2. k # i
      BY <2>5, <2>7, <3>1
    <3> QED BY <2>1, <2>4, <3>1, <3>2
  <2> QED BY <2>6, <2>7
<1> QED BY <1>1, <1>5
        DEF Abstract!Release, NoCall, Answer, NULL, Abstract!Block,
            Abstract!NULL, Abstract!NoCall

\* A request is granted or refused.
LEMMA MallocStep ==
  ASSUME Inv, NEW size \in Sizes, malloc(size)
  PROVE  Abstract!Grant(size) \/ Abstract!Refuse(size)
<1> DEFINE need == align_up(size)
<1>1. CASE size = 0 \/ start = NULL \/ cap = 0 \/ need = 0
  <2>1. Refused(size)
    BY <1>1 DEF malloc
  <2> QED BY <1>1, <2>1, RefuseStep
<1>2. CASE ~(size = 0 \/ start = NULL \/ cap = 0 \/ need = 0)
  <2>1. CASE \E i \in 1..Count + 1 : FirstStop(i, need) /\ MallocAt(i, need, size)
    <3>1. PICK i \in 1..Count + 1 : FirstStop(i, need) /\ MallocAt(i, need, size)
      BY <2>1
    <3>2. Stops(i, need)
      BY <3>1 DEF FirstStop
    <3>3. Count \in Nat /\ MAX_ITEMS \in Nat
      BY Blocks, AllocAssumption
    <3>4. CASE Count < MAX_ITEMS
      BY <1>2, <3>1, <3>2, <3>4, GrantStep
    <3>5. CASE Count >= MAX_ITEMS
      <4>1. Refused(size)
        BY <3>1, <3>5 DEF MallocAt
      <4> QED BY <3>5, <4>1, RefuseStep
    <3> QED BY <3>3, <3>4, <3>5
  <2>2. CASE (\A i \in 1..Count + 1 : ~Stops(i, need)) /\ Refused(size)
    BY <2>2, RefuseStep
  <2> QED BY <1>2, <2>1, <2>2 DEF malloc
<1> QED BY <1>1, <1>2

LEMMA FreeStep ==
  ASSUME Inv, NEW ptr \in Addresses, free(ptr)
  PROVE  Abstract!Release(ptr)
<1>1. ptr \in Nat
  BY AllocAssumption
<1>2. CASE ptr = NULL \/ start = NULL \/ ptr < start \/ ptr - start >= cap
  <2>1. IgnoredPtr
    BY <1>2 DEF free
  <2> QED BY <1>1, <1>2, <2>1, NoBlockThere, IgnoreStep
<1>3. CASE ~(ptr = NULL \/ start = NULL \/ ptr < start \/ ptr - start >= cap)
  <2>1. ptr >= start
    BY <1>1, <1>3, Blocks
  <2>2. CASE \E i \in 1..Count : StartsAt(i, ptr) /\ FreeAt(i)
    BY <2>1, <2>2, ReleaseStep
  <2>3. CASE (\A i \in 1..Count : ~StartsAt(i, ptr)) /\ IgnoredPtr
    BY <1>1, <2>3, NoBlockThere, IgnoreStep
  <2> QED BY <1>3, <2>2, <2>3 DEF free
<1> QED BY <1>2, <1>3

LEMMA InitStep ==
  ASSUME Inv, NEW base \in Addresses, NEW size \in Sizes, heap_init(base, size)
  PROVE  Abstract!NewArena \/ Abstract!Release(NULL)
<1>1. CASE size = 0 \/ base = NULL
  <2>1. IgnoredPtr
    BY <1>1 DEF heap_init, IgnoredPtr
  <2>2. NULL \in Addresses /\ NULL \in Nat
    BY AllocAssumption DEF NULL
  <2> QED BY <2>1, <2>2, NoBlockThere, IgnoreStep
<1>2. CASE ~(size = 0 \/ base = NULL)
  <2>1. /\ start' = base /\ cap' = size /\ item' = <<>> /\ last' = NoCall
    BY <1>2 DEF heap_init
  <2>2. Count' = 0
    BY <2>1 DEF Count
  <2>3. LiveBlocks' = {}
    BY <2>2 DEF LiveBlocks
  <2> QED BY <1>2, <2>1, <2>3
          DEF Abstract!NewArena, NoCall, Answer, NULL, Abstract!Block,
              Abstract!NULL, Abstract!NoCall
<1> QED BY <1>1, <1>2

\* malloc and free, whatever the sizes and the addresses: blocks never overlap,
\* never leave the arena, go only when their own pointer is freed, and a request
\* is refused only when nothing could have satisfied it.
THEOREM HeapKeepsPromise == Spec => KeepsPromise
<1>1. Init => Abstract!HeapInit
  <2> SUFFICES ASSUME Init PROVE Abstract!HeapInit
    OBVIOUS
  <2>1. Count = 0
    BY DEF Init, Count
  <2>2. LiveBlocks = {}
    BY <2>1 DEF LiveBlocks
  <2> QED BY <2>2 DEF Init, Abstract!HeapInit, NoCall, Answer, NULL,
          Abstract!Block, Abstract!NULL, Abstract!NoCall
<1>2. Inv /\ [Next]_vars
        => [Abstract!HeapNext]_<<[ptr |-> start, size |-> cap], LiveBlocks, last>>
  <2> SUFFICES ASSUME Inv, [Next]_vars
               PROVE  [Abstract!HeapNext]_<<[ptr |-> start, size |-> cap],
                                            LiveBlocks, last>>
    OBVIOUS
  <2>1. CASE \E base \in Addresses, size \in Sizes : heap_init(base, size)
    <3>1. NULL \in Addresses
      BY AllocAssumption DEF NULL
    <3> QED BY <2>1, <3>1, InitStep DEF Abstract!HeapNext
  <2>2. CASE \E size \in Sizes : malloc(size)
    BY <2>2, MallocStep DEF Abstract!HeapNext
  <2>3. CASE \E ptr \in Addresses : free(ptr)
    BY <2>3, FreeStep DEF Abstract!HeapNext
  <2>4. CASE UNCHANGED vars
    BY <2>4 DEF vars, LiveBlocks, Count
  <2> QED BY <2>1, <2>2, <2>3, <2>4 DEF Next
<1> QED BY <1>1, <1>2, Invariance, PTL DEF Spec, KeepsPromise, Abstract!Heap
===============================================================================
