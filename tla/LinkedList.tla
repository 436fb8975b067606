------------------------------ MODULE LinkedList ------------------------------
(***************************************************************************)
(* lib/04data_structure/linked_list: nodes in one buffer that name each    *)
(* other by index; a free node has itself as prev and is linked by next.   *)
(***************************************************************************)
EXTENDS RawBuf

CONSTANT None   \* LINKED_LIST_NONE, (usize)-1: no index

ASSUME NoneAssumption == None \notin Nat

linked_list_new ==
  [buf |-> raw_buf_new, first |-> None, last |-> None, free |-> None, len |-> 0]

\* memset of the whole object: 0 is not LINKED_LIST_NONE.
ZeroedList ==
  [buf |-> raw_buf_new, first |-> 0, last |-> 0, free |-> 0, len |-> 0]

is_active(l, i) == i \in DOMAIN l.buf /\ l.buf[i].prev # i

\* The n-th node from the front by next, and from the back by prev.
Forward(l, n) ==
  LET node[k \in 1..n] == IF k = 1 THEN l.first ELSE l.buf[node[k - 1]].next
  IN node[n]

Backward(l, n) ==
  LET node[k \in 1..n] == IF k = 1 THEN l.last ELSE l.buf[node[k - 1]].prev
  IN node[n]

ListContents(l) == [n \in 1..l.len |-> l.buf[Forward(l, n)].value]

\* The new nodes go to the front of the free list, the lowest first.
linked_list_reserve(l, n) ==
  LET old == CapOf(l.buf)
      Free(i, new) == [prev |-> i, next |-> IF i = new - 1 THEN l.free ELSE i + 1,
                       value |-> Blank]
  IN IF l.len + n <= old THEN {[ok |-> TRUE, c |-> l, gone |-> {}]}
     ELSE {[ok |-> r.ok, gone |-> {},
            c |-> IF ~r.ok THEN l
                  ELSE [l EXCEPT !.free = old,
                         !.buf = [i \in DOMAIN r.buf |->
                           IF i < old THEN r.buf[i] ELSE Free(i, CapOf(r.buf))]]] :
             r \in Reserved(l.buf, l.len + n)}

linked_list_allocate(l) ==
  IF l.free # None THEN {[ok |-> TRUE, c |-> l, gone |-> {}]}
  ELSE linked_list_reserve(l, 1)

LinkFront(l, i, e) ==
  [l EXCEPT !.free = l.buf[i].next, !.first = i, !.len = @ + 1,
            !.last = IF l.first = None THEN i ELSE @,
            !.buf = [j \in DOMAIN l.buf |->
              IF j = i THEN [prev |-> None, next |-> l.first, value |-> e]
              ELSE IF j = l.first THEN [l.buf[j] EXCEPT !.prev = i]
              ELSE l.buf[j]]]

LinkBack(l, i, e) ==
  [l EXCEPT !.free = l.buf[i].next, !.last = i, !.len = @ + 1,
            !.first = IF l.last = None THEN i ELSE @,
            !.buf = [j \in DOMAIN l.buf |->
              IF j = i THEN [prev |-> l.last, next |-> None, value |-> e]
              ELSE IF j = l.last THEN [l.buf[j] EXCEPT !.next = i]
              ELSE l.buf[j]]]

linked_list_push_front(l, e) ==
  {IF r.ok THEN [r EXCEPT !.c = LinkFront(@, @.free, e)] ELSE r :
     r \in linked_list_allocate(l)}

linked_list_push_back(l, e) ==
  {IF r.ok THEN [r EXCEPT !.c = LinkBack(@, @.free, e)] ELSE r :
     r \in linked_list_allocate(l)}

\* Mutant: the node behind keeps the removed one as its prev.
Unlinked_prev(l, i) ==
  LET node == l.buf[i] IN
  [l EXCEPT !.free = i, !.len = @ - 1,
            !.first = IF node.prev = None THEN node.next ELSE @,
            !.last = IF node.next = None THEN node.prev ELSE @,
            !.buf = [j \in DOMAIN l.buf |->
              IF j = i THEN [prev |-> i, next |-> l.free, value |-> Blank]
              ELSE IF j = node.prev THEN [l.buf[j] EXCEPT !.next = node.next]
              ELSE l.buf[j]]]

Unlinked(l, i) ==
  LET node == l.buf[i] IN
  [l EXCEPT !.free = i, !.len = @ - 1,
            !.first = IF node.prev = None THEN node.next ELSE @,
            !.last = IF node.next = None THEN node.prev ELSE @,
            !.buf = [j \in DOMAIN l.buf |->
              IF j = i THEN [prev |-> i, next |-> l.free, value |-> Blank]
              ELSE IF j = node.prev THEN [l.buf[j] EXCEPT !.next = node.next]
              ELSE IF j = node.next THEN [l.buf[j] EXCEPT !.prev = node.prev]
              ELSE l.buf[j]]]

linked_list_remove(l, i) ==
  {IF is_active(l, i)
   THEN [ok |-> TRUE, c |-> Unlinked(l, i), gone |-> {l.buf[i].value}]
   ELSE [ok |-> FALSE, c |-> l, gone |-> {}]}
===============================================================================
