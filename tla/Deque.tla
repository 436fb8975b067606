--------------------------------- MODULE Deque ---------------------------------
(***************************************************************************)
(* lib/04data_structure/deque, a circular buffer without a sentinel slot,  *)
(* and ring_buffer_push, the one operation of the queue, the stack and the *)
(* ring buffer on top of it that is more than a call of the deque.         *)
(***************************************************************************)
EXTENDS RawBuf

CONSTANT RingCapacity   \* cap of the ring buffer, apart from its storage's

ASSUME RingAssumption == RingCapacity \in Nat \ {0}

deque_new == [buf |-> raw_buf_new, first |-> 0, last |-> 0, len |-> 0]

DequeContents(d) ==
  [i \in 1..d.len |-> d.buf[(d.first + i - 1) % CapOf(d.buf)]]

\* Grown storage is fresh and holds the elements from slot 0 on.
deque_reserve(d, n) ==
  IF d.len + n <= CapOf(d.buf)
  THEN {[ok |-> TRUE, c |-> d, gone |-> {}]}
  ELSE {[ok |-> r.ok, gone |-> {},
         c |-> IF ~r.ok THEN d
               ELSE [buf   |-> [i \in DOMAIN r.buf |->
                                  IF i < d.len THEN DequeContents(d)[i + 1]
                                  ELSE Blank],
                     first |-> 0,
                     last  |-> IF d.len = CapOf(r.buf) THEN 0 ELSE d.len,
                     len   |-> d.len]] :
          r \in Reserved(raw_buf_new, d.len + n)}

\* Mutant: the slot before slot 0 is taken for the one at len.
PutFront_len(d, e) ==
  LET i == IF d.first = 0 THEN d.len ELSE d.first - 1
  IN [d EXCEPT !.buf[i] = e, !.first = i, !.len = @ + 1]

PutFront(d, e) ==
  LET i == IF d.first = 0 THEN CapOf(d.buf) - 1 ELSE d.first - 1
  IN [d EXCEPT !.buf[i] = e, !.first = i, !.len = @ + 1]

PutBack(d, e) ==
  [d EXCEPT !.buf[d.last] = e, !.last = (@ + 1) % CapOf(d.buf),
            !.len = @ + 1]

deque_push_front(d, e) ==
  {IF r.ok THEN [r EXCEPT !.c = PutFront(@, e)] ELSE r : r \in deque_reserve(d, 1)}

deque_push_back(d, e) ==
  {IF r.ok THEN [r EXCEPT !.c = PutBack(@, e)] ELSE r : r \in deque_reserve(d, 1)}

\* An emptied deque starts where its end was.
deque_pop_front(d) ==
  {[ok |-> TRUE, gone |-> {d.buf[d.first]},
    c |-> [d EXCEPT !.buf = Vacated(@, d.first), !.len = @ - 1,
                    !.first = IF d.len = 1 THEN d.last
                              ELSE (@ + 1) % CapOf(d.buf)]]}

\* Mutant: the length is not counted down.
deque_pop_back_stuck(d) ==
  LET i == IF d.last = 0 THEN CapOf(d.buf) - 1 ELSE d.last - 1
  IN {[ok |-> TRUE, gone |-> {d.buf[i]},
       c |-> [d EXCEPT !.buf = Vacated(@, i), !.last = i]]}

deque_pop_back(d) ==
  LET i == IF d.last = 0 THEN CapOf(d.buf) - 1 ELSE d.last - 1
  IN {[ok |-> TRUE, gone |-> {d.buf[i]},
       c |-> [d EXCEPT !.buf = Vacated(@, i), !.last = i, !.len = @ - 1,
                       !.first = IF d.len = 1 THEN i ELSE @]]}

ring_buffer_new ==
  {[ok |-> r.ok, gone |-> {}, c |-> IF r.ok THEN r.c ELSE deque_new] :
     r \in deque_reserve(deque_new, RingCapacity)}

\* A full ring first drops its oldest element.
ring_buffer_push(d, e) ==
  IF d.len < RingCapacity THEN deque_push_back(d, e)
  ELSE LET popped == CHOOSE r \in deque_pop_front(d) : TRUE
       IN {[r EXCEPT !.gone = popped.gone] : r \in deque_push_back(popped.c, e)}
===============================================================================
