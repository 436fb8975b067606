-------------------------- MODULE RingBufferNoAlloc --------------------------
(***************************************************************************)
(* lib/02core/ringbuffer_no_alloc: a ring over a caller's buffer.  head is *)
(* the slot of the next push; the oldest element lies len slots behind it. *)
(* A push onto a full ring overwrites the oldest element.                  *)
(*                                                                         *)
(* A ring is a record; the operators are the functions of the C file, and  *)
(* "out" parameters are values.                                            *)
(***************************************************************************)
EXTENDS Integers, Sequences

CONSTANTS
  Values,     \* the elements
  Capacity    \* buf_size / elem_size, or 0 when elem_size is 0

ASSUME CapacityAssumption == Capacity \in Nat

Slots == 0..Capacity - 1

Rings == [buf : [Slots -> Values], head : Nat, len : Nat]

rb_noalloc_init(buf) == [buf |-> buf, head |-> 0, len |-> 0]

rb_noalloc_oldest(rb) == (rb.head + Capacity - rb.len) % Capacity

\* Mutant: a full ring overwrites in place and does not advance.
rb_noalloc_push_stuck(rb, e) ==
  [buf  |-> [rb.buf EXCEPT ![rb.head] = e],
   head |-> IF rb.len = Capacity THEN rb.head ELSE (rb.head + 1) % Capacity,
   len  |-> IF rb.len < Capacity THEN rb.len + 1 ELSE rb.len]

rb_noalloc_push(rb, e) ==
  IF Capacity = 0 THEN rb
  ELSE [buf  |-> [rb.buf EXCEPT ![rb.head] = e],
        head |-> (rb.head + 1) % Capacity,
        len  |-> IF rb.len < Capacity THEN rb.len + 1 ELSE rb.len]

\* rb_noalloc_pop: the caller tests rb_noalloc_is_empty, reads the front, and
\* drops it.
rb_noalloc_is_empty(rb) == rb.len = 0
rb_noalloc_is_full(rb) == rb.len = Capacity
rb_noalloc_front(rb) == rb.buf[rb_noalloc_oldest(rb)]
rb_noalloc_pop(rb) == [rb EXCEPT !.len = rb.len - 1]

rb_noalloc_back(rb) == rb.buf[(rb.head + Capacity - 1) % Capacity]

rb_noalloc_clear(rb) == [rb EXCEPT !.head = 0, !.len = 0]

\* What the ring holds, oldest first.
Contents(rb) ==
  [i \in 1..rb.len |-> rb.buf[(rb_noalloc_oldest(rb) + i - 1) % Capacity]]

RingOK(rb) ==
  /\ rb \in Rings
  /\ rb.len <= Capacity
  /\ rb.head <= Capacity /\ (Capacity > 0 => rb.head < Capacity)
=============================================================================
