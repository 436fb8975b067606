--------------------------- MODULE RingBufferClient ---------------------------
(***************************************************************************)
(* One RbNoAlloc and an owner that pushes, pops and clears it in any order *)
(* (the UART driver owns two, test04_core_c and test05_core_rust one).     *)
(***************************************************************************)
EXTENDS RingBufferNoAlloc

VARIABLE ring

RingInit == \E buf \in [Slots -> Values] : ring = rb_noalloc_init(buf)

Push(e) == ring' = rb_noalloc_push(ring, e)

PopRing == ~rb_noalloc_is_empty(ring) /\ ring' = rb_noalloc_pop(ring)

Clear == ring' = rb_noalloc_clear(ring)

RingNext == (\E e \in Values : Push(e)) \/ PopRing \/ Clear

RingSpec == RingInit /\ [][RingNext]_ring
-------------------------------------------------------------------------------
\* head and len stay inside the buffer, so that no push or pop reads or writes
\* outside the storage it was given.
RingInBounds == RingOK(ring)

\* The last element pushed is at the back, and the front is the oldest one.
EndsAreRight ==
  ring.len > 0 =>
    /\ rb_noalloc_front(ring) = Contents(ring)[1]
    /\ rb_noalloc_back(ring) = Contents(ring)[ring.len]

\* The ring holds the newest Capacity elements in the order of their pushes.
Abstract == INSTANCE WindowSpec WITH window <- Contents(ring)

IsWindow == Abstract!Window
=============================================================================
