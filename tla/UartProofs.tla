------------------------------- MODULE UartProofs -------------------------------
(***************************************************************************)
(* The ring and the driver built on it.  For every Capacity and every set  *)
(* of values a ring stays inside its storage, its ends are the ends of     *)
(* what it holds, and it implements WindowSpec; Uart, for every ring       *)
(* capacity, FIFO size and number of bytes: no trap goes unhandled, the    *)
(* guard serialises, and bytes leave and arrive in order and accounted for.*)
(*                                                                         *)
(* The functions of the ring's C file compute slots modulo Capacity.       *)
(* SlotIs says once where element i is, without a remainder; the rest of   *)
(* the proofs about the ring is linear arithmetic.                         *)
(***************************************************************************)
EXTENDS Uart, RingBufferClient, SequenceTheorems, TLAPS

(* The ring *)

\* Two facts of division: what is below n is its own remainder, also when n is
\* added to it.
LEMMA SmallMod ==
  ASSUME NEW n \in Nat \ {0}, NEW a \in 0..n - 1
  PROVE  a % n = a
OBVIOUS

LEMMA WrappedMod ==
  ASSUME NEW n \in Nat \ {0}, NEW a \in 0..n - 1
  PROVE  (a + n) % n = a
OBVIOUS

\* The slot of the oldest element, as rb_noalloc_oldest means it.
LEMMA OldestIs ==
  ASSUME NEW rb, RingOK(rb), Capacity > 0
  PROVE  rb_noalloc_oldest(rb) =
           IF rb.len <= rb.head THEN rb.head - rb.len
                                ELSE rb.head + Capacity - rb.len
<1> USE CapacityAssumption
<1>1. /\ rb.head \in 0..Capacity - 1 /\ rb.len \in 0..Capacity
      /\ Capacity \in Nat \ {0}
  BY DEF RingOK, Rings
<1>2. CASE rb.len <= rb.head
  <2>1. rb.head - rb.len \in 0..Capacity - 1
    BY <1>1, <1>2
  <2>2. (rb.head - rb.len + Capacity) % Capacity = rb.head - rb.len
    BY <1>1, <2>1, WrappedMod
  <2>3. rb.head + Capacity - rb.len = rb.head - rb.len + Capacity
    BY <1>1
  <2> QED BY <1>2, <2>2, <2>3 DEF rb_noalloc_oldest
<1>3. CASE ~(rb.len <= rb.head)
  <2>1. rb.head + Capacity - rb.len \in 0..Capacity - 1
    BY <1>1, <1>3
  <2>2. (rb.head + Capacity - rb.len) % Capacity = rb.head + Capacity - rb.len
    BY <1>1, <2>1, SmallMod
  <2> QED BY <1>3, <2>2 DEF rb_noalloc_oldest
<1> QED BY <1>2, <1>3

\* The slot of element i.
Slot(rb, i) ==
  IF rb.len < rb.head + i THEN rb.head + i - rb.len - 1
                          ELSE rb.head + i - rb.len - 1 + Capacity

LEMMA SlotIs ==
  ASSUME NEW rb, RingOK(rb), Capacity > 0, NEW i \in 1..rb.len
  PROVE  /\ (rb_noalloc_oldest(rb) + i - 1) % Capacity = Slot(rb, i)
         /\ Slot(rb, i) \in 0..Capacity - 1
<1> USE CapacityAssumption
<1> DEFINE o == rb_noalloc_oldest(rb)
<1>1. /\ rb.head \in 0..Capacity - 1 /\ rb.len \in 0..Capacity
      /\ Capacity \in Nat \ {0} /\ i \in 1..Capacity
  BY DEF RingOK, Rings
<1>2. o = IF rb.len <= rb.head THEN rb.head - rb.len
                               ELSE rb.head + Capacity - rb.len
  BY OldestIs
<1>3. Slot(rb, i) \in 0..Capacity - 1
  BY <1>1 DEF Slot
<1>4. o + i - 1 = Slot(rb, i) \/ o + i - 1 = Slot(rb, i) + Capacity
  BY <1>1, <1>2 DEF Slot
<1> HIDE DEF o
<1>5. CASE o + i - 1 = Slot(rb, i)
  BY <1>1, <1>3, <1>5, SmallMod DEF o
<1>6. CASE o + i - 1 = Slot(rb, i) + Capacity
  BY <1>1, <1>3, <1>6, WrappedMod DEF o
<1> QED BY <1>3, <1>4, <1>5, <1>6

\* The contents are a sequence of values; element i is in its slot.
LEMMA ContentsIs ==
  ASSUME NEW rb, RingOK(rb)
  PROVE  /\ Contents(rb) \in Seq(Values)
         /\ Len(Contents(rb)) = rb.len
         /\ \A i \in 1..rb.len : Contents(rb)[i] = rb.buf[Slot(rb, i)]
<1> USE CapacityAssumption
<1>1. /\ rb.len \in 0..Capacity
      /\ rb.buf \in [Slots -> Values]
  BY DEF RingOK, Rings
<1>2. ASSUME NEW i \in 1..rb.len
      PROVE  /\ (rb_noalloc_oldest(rb) + i - 1) % Capacity = Slot(rb, i)
             /\ rb.buf[Slot(rb, i)] \in Values
  BY <1>1, SlotIs DEF Slots
<1>3. Contents(rb) \in [1..rb.len -> Values]
  BY <1>2 DEF Contents
<1> QED BY <1>1, <1>2, <1>3 DEF Contents

\* rb_noalloc_front is the first of them.
LEMMA FrontIs ==
  ASSUME NEW rb, RingOK(rb), rb.len > 0
  PROVE  /\ Contents(rb) # <<>>
         /\ rb_noalloc_front(rb) = Head(Contents(rb))
         /\ rb_noalloc_front(rb) \in Values
<1> USE CapacityAssumption
<1>1. rb.len \in 1..Capacity /\ rb.head \in 0..Capacity - 1
  BY DEF RingOK, Rings
<1>2. /\ Contents(rb) \in Seq(Values) /\ Len(Contents(rb)) = rb.len
      /\ Contents(rb)[1] = rb.buf[Slot(rb, 1)]
  BY <1>1, ContentsIs
<1>3. rb_noalloc_oldest(rb) = Slot(rb, 1)
  BY <1>1, OldestIs DEF Slot
<1> QED BY <1>1, <1>2, <1>3 DEF rb_noalloc_front

\* Two sequences with the same length and elements.
LEMMA SameSequence ==
  ASSUME NEW S, NEW s \in Seq(S), NEW t \in Seq(S), Len(s) = Len(t),
         \A i \in 1..Len(s) : s[i] = t[i]
  PROVE  s = t
OBVIOUS
-------------------------------------------------------------------------------
\* What a push does to the bounds and to the contents.
LEMMA PushInBounds ==
  ASSUME NEW rb, RingOK(rb), NEW e \in Values
  PROVE  RingOK(rb_noalloc_push(rb, e))
<1> USE CapacityAssumption
<1>1. CASE Capacity = 0
  BY <1>1 DEF rb_noalloc_push
<1>2. CASE Capacity > 0
  <2>1. /\ rb \in Rings /\ rb.len \in 0..Capacity /\ rb.head \in 0..Capacity - 1
        /\ Capacity \in Nat \ {0}
    BY <1>2 DEF RingOK, Rings
  <2>2. (rb.head + 1) % Capacity \in 0..Capacity - 1
    BY <2>1
  <2> QED BY <1>2, <2>1, <2>2 DEF rb_noalloc_push, RingOK, Rings, Slots
<1> QED BY <1>1, <1>2

LEMMA PushContents ==
  ASSUME NEW rb, RingOK(rb), NEW e \in Values
  PROVE  Contents(rb_noalloc_push(rb, e)) = Abstract!Pushed(Contents(rb), e)
<1> USE CapacityAssumption
<1> DEFINE new == rb_noalloc_push(rb, e)
<1>1. CASE Capacity = 0
  BY <1>1 DEF rb_noalloc_push, Abstract!Pushed
<1>2. CASE Capacity > 0
  <2>1. /\ rb.len \in 0..Capacity /\ rb.head \in 0..Capacity - 1
        /\ Capacity \in Nat \ {0} /\ rb.buf \in [Slots -> Values]
    BY <1>2 DEF RingOK, Rings
  <2>2. (rb.head + 1) % Capacity =
          IF rb.head + 1 = Capacity THEN 0 ELSE rb.head + 1
    <3>1. CASE rb.head + 1 = Capacity
      <4>1. 0 \in 0..Capacity - 1 /\ rb.head + 1 = 0 + Capacity
        BY <2>1, <3>1
      <4> QED BY <2>1, <3>1, <4>1, WrappedMod
    <3>2. CASE rb.head + 1 # Capacity
      <4>1. rb.head + 1 \in 0..Capacity - 1
        BY <2>1, <3>2
      <4> QED BY <2>1, <3>2, <4>1, SmallMod
    <3> QED BY <3>1, <3>2
  <2>3. /\ new.head = IF rb.head + 1 = Capacity THEN 0 ELSE rb.head + 1
        /\ new.len = IF rb.len < Capacity THEN rb.len + 1 ELSE rb.len
        /\ new.buf = [rb.buf EXCEPT ![rb.head] = e]
    BY <1>2, <2>2 DEF rb_noalloc_push
  <2>4. RingOK(new)
    BY PushInBounds
  <2>5. /\ Contents(rb) \in Seq(Values) /\ Len(Contents(rb)) = rb.len
        /\ \A i \in 1..rb.len : Contents(rb)[i] = rb.buf[Slot(rb, i)]
    BY ContentsIs
  <2>6. /\ Contents(new) \in Seq(Values) /\ Len(Contents(new)) = new.len
        /\ \A i \in 1..new.len : Contents(new)[i] = new.buf[Slot(new, i)]
    BY <2>4, ContentsIs
  <2> HIDE DEF new
  <2>7. CASE rb.len < Capacity
    <3> DEFINE t == Append(Contents(rb), e)
    <3>1. /\ t \in Seq(Values) /\ Len(t) = new.len
          /\ \A i \in 1..rb.len : t[i] = Contents(rb)[i]
          /\ t[rb.len + 1] = e
      BY <2>1, <2>3, <2>5, <2>7
    <3>2. ASSUME NEW i \in 1..new.len PROVE Contents(new)[i] = t[i]
      <4>1. CASE i = rb.len + 1
        <5>1. Slot(new, i) = rb.head
          BY <2>1, <2>3, <2>7, <4>1 DEF Slot
        <5>2. rb.head \in Slots /\ new.buf[rb.head] = e
          BY <2>1, <2>3 DEF Slots
        <5>3. Contents(new)[i] = e
          BY <2>6, <5>1, <5>2
        <5> QED BY <3>1, <4>1, <5>3
      <4>2. CASE i # rb.len + 1
        <5>1. i \in 1..rb.len
          BY <2>1, <2>3, <2>7, <4>2
        <5>2. Slot(new, i) = Slot(rb, i) /\ Slot(rb, i) # rb.head
          BY <2>1, <2>3, <2>7, <5>1 DEF Slot
        <5>3. Slot(rb, i) \in Slots
          BY <1>2, <5>1, SlotIs DEF Slots
        <5> QED BY <2>1, <2>3, <2>5, <2>6, <3>1, <5>1, <5>2, <5>3
      <4> QED BY <4>1, <4>2
    <3>3. Contents(new) = t
      BY <2>6, <3>1, <3>2, SameSequence
    <3> QED BY <1>2, <2>5, <2>7, <3>3 DEF new, Abstract!Pushed
  <2>8. CASE ~(rb.len < Capacity)
    <3> DEFINE t == Append(Tail(Contents(rb)), e)
    <3>1. /\ t \in Seq(Values) /\ Len(t) = new.len
          /\ \A i \in 1..rb.len - 1 : t[i] = Contents(rb)[i + 1]
          /\ t[rb.len] = e
      BY <2>1, <2>3, <2>5, <2>8
    <3>2. ASSUME NEW i \in 1..new.len PROVE Contents(new)[i] = t[i]
      <4>1. CASE i = rb.len
        <5>1. Slot(new, i) = rb.head
          BY <2>1, <2>3, <2>8, <4>1 DEF Slot
        <5>2. new.buf[rb.head] = e
          BY <2>1, <2>3 DEF Slots
        <5> QED BY <2>6, <3>1, <4>1, <5>1, <5>2
      <4>2. CASE i # rb.len
        <5>1. i \in 1..rb.len - 1 /\ i + 1 \in 1..rb.len
          BY <2>1, <2>3, <2>8, <4>2
        <5>2. Slot(new, i) = Slot(rb, i + 1) /\ Slot(rb, i + 1) # rb.head
          BY <2>1, <2>3, <2>8, <5>1 DEF Slot
        <5>3. Slot(rb, i + 1) \in Slots
          BY <1>2, <5>1, SlotIs DEF Slots
        <5> QED BY <2>1, <2>3, <2>5, <2>6, <3>1, <5>1, <5>2, <5>3
      <4> QED BY <4>1, <4>2
    <3>3. Contents(new) = t
      BY <2>6, <3>1, <3>2, SameSequence
    <3> QED BY <1>2, <2>5, <2>8, <3>3 DEF new, Abstract!Pushed
  <2> QED BY <2>7, <2>8
<1> QED BY <1>1, <1>2

\* What a pop does.
LEMMA PopContents ==
  ASSUME NEW rb, RingOK(rb), ~rb_noalloc_is_empty(rb)
  PROVE  /\ RingOK(rb_noalloc_pop(rb))
         /\ Contents(rb) # <<>>
         /\ Contents(rb_noalloc_pop(rb)) = Tail(Contents(rb))
<1> USE CapacityAssumption
<1> DEFINE new == rb_noalloc_pop(rb)
           t == Tail(Contents(rb))
<1>1. /\ rb \in Rings /\ rb.len \in 1..Capacity /\ rb.head \in 0..Capacity - 1
      /\ Capacity > 0
  BY DEF RingOK, Rings, rb_noalloc_is_empty
<1>2. /\ new.head = rb.head /\ new.len = rb.len - 1 /\ new.buf = rb.buf
      /\ new \in Rings
  BY <1>1 DEF rb_noalloc_pop, Rings
<1>3. RingOK(new)
  BY <1>1, <1>2 DEF RingOK
<1>4. /\ Contents(rb) \in Seq(Values) /\ Len(Contents(rb)) = rb.len
      /\ \A i \in 1..rb.len : Contents(rb)[i] = rb.buf[Slot(rb, i)]
  BY ContentsIs
<1>5. /\ Contents(new) \in Seq(Values) /\ Len(Contents(new)) = new.len
      /\ \A i \in 1..new.len : Contents(new)[i] = new.buf[Slot(new, i)]
  BY <1>3, ContentsIs
<1> HIDE DEF new
<1>6. /\ t \in Seq(Values) /\ Len(t) = new.len
      /\ \A i \in 1..new.len : t[i] = Contents(rb)[i + 1]
  BY <1>1, <1>2, <1>4
<1>7. ASSUME NEW i \in 1..new.len PROVE Contents(new)[i] = t[i]
  <2>1. i + 1 \in 1..rb.len
    BY <1>1, <1>2
  <2>2. Slot(new, i) = Slot(rb, i + 1)
    BY <1>1, <1>2, <2>1 DEF Slot
  <2> QED BY <1>2, <1>4, <1>5, <1>6, <2>1, <2>2
<1>8. Contents(new) = t
  BY <1>5, <1>6, <1>7, SameSequence
<1> QED BY <1>1, <1>3, <1>4, <1>8 DEF new

\* An empty ring holds nothing.
LEMMA EmptyContents ==
  ASSUME NEW rb, RingOK(rb), rb.len = 0
  PROVE  Contents(rb) = <<>>
BY ContentsIs
-------------------------------------------------------------------------------
\* One step of the ring is one step of the window, and stays in bounds.
LEMMA StepRefines ==
  ASSUME RingOK(ring), [RingNext]_ring
  PROVE  RingOK(ring)' /\ [Abstract!WindowNext]_(Contents(ring))
<1> USE CapacityAssumption
<1>1. ASSUME NEW e \in Values, Push(e)
      PROVE  RingOK(ring)' /\ Abstract!WindowPush
  BY <1>1, PushInBounds, PushContents DEF Push, Abstract!WindowPush
<1>2. CASE PopRing
  BY <1>2, PopContents DEF PopRing, Abstract!WindowPop, Abstract!WindowNext
<1>3. CASE Clear
  <2>1. ring \in [buf : [Slots -> Values], head : Nat, len : Nat]
    BY DEF RingOK, Rings
  <2>2. /\ ring' \in Rings
        /\ ring'.head = 0 /\ ring'.len = 0
    BY <1>3, <2>1 DEF Clear, rb_noalloc_clear, Rings
  <2>3. RingOK(ring')
    BY <2>2 DEF RingOK
  <2> QED BY <2>2, <2>3, EmptyContents
          DEF Abstract!WindowClear, Abstract!WindowNext
<1>4. CASE UNCHANGED ring
  BY <1>4 DEF Contents, RingOK, rb_noalloc_oldest
<1> QED BY <1>1, <1>2, <1>3, <1>4 DEF RingNext, Abstract!WindowNext

LEMMA InitRefines == RingInit => RingOK(ring) /\ Abstract!WindowInit
<1> SUFFICES ASSUME RingInit PROVE RingOK(ring) /\ Abstract!WindowInit
  OBVIOUS
<1> USE CapacityAssumption
<1>1. RingOK(ring) /\ ring.len = 0
  BY DEF RingInit, rb_noalloc_init, RingOK, Rings
<1> QED BY <1>1, EmptyContents DEF Abstract!WindowInit

\* No push, pop or clear ever leaves the storage: ringbuffer_no_alloc.c.
THEOREM StaysInBounds == RingSpec => []RingInBounds
<1>1. RingInit => RingOK(ring)
  BY InitRefines
<1>2. RingOK(ring) /\ [RingNext]_ring => RingOK(ring)'
  BY StepRefines
<1> QED BY <1>1, <1>2, PTL DEF RingSpec, RingInBounds

\* rb_noalloc_front and rb_noalloc_back return the oldest and the newest
\* element of what the ring holds.
THEOREM EndsAreEnds == RingSpec => []EndsAreRight
<1> USE CapacityAssumption
<1>1. ASSUME RingInBounds PROVE EndsAreRight
  <2> SUFFICES ASSUME ring.len > 0
               PROVE  /\ rb_noalloc_front(ring) = Contents(ring)[1]
                      /\ rb_noalloc_back(ring) = Contents(ring)[ring.len]
    BY DEF EndsAreRight
  <2>1. /\ ring.len \in 1..Capacity /\ ring.head \in 0..Capacity - 1
        /\ Capacity \in Nat \ {0} /\ RingOK(ring)
    BY <1>1 DEF RingInBounds, RingOK, Rings
  <2>2. \A i \in 1..ring.len : Contents(ring)[i] = ring.buf[Slot(ring, i)]
    BY <2>1, ContentsIs
  <2>3. rb_noalloc_front(ring) = Contents(ring)[1]
    BY <2>1, FrontIs, ContentsIs
  <2>4. (ring.head + Capacity - 1) % Capacity = Slot(ring, ring.len)
    <3>1. CASE ring.head = 0
      <4>1. ring.head + Capacity - 1 \in 0..Capacity - 1
        BY <2>1, <3>1
      <4> QED BY <2>1, <3>1, <4>1, SmallMod DEF Slot
    <3>2. CASE ring.head > 0
      <4>1. /\ ring.head - 1 \in 0..Capacity - 1
            /\ ring.head + Capacity - 1 = (ring.head - 1) + Capacity
        BY <2>1, <3>2
      <4> QED BY <2>1, <3>2, <4>1, WrappedMod DEF Slot
    <3> QED BY <2>1, <3>1, <3>2
  <2> QED BY <2>1, <2>2, <2>3, <2>4 DEF rb_noalloc_back
<1> QED BY <1>1, StaysInBounds, PTL

\* The ring implements the window: it always holds the newest elements pushed
\* and not yet popped, in order.
THEOREM RingIsWindow == RingSpec => IsWindow
<1>1. RingInit => Abstract!WindowInit
  BY InitRefines
<1>2. RingInBounds /\ [RingNext]_ring => [Abstract!WindowNext]_(Contents(ring))
  BY StepRefines DEF RingInBounds
<1> QED BY <1>1, <1>2, StaysInBounds, PTL
        DEF RingSpec, IsWindow, Abstract!Window
-------------------------------------------------------------------------------
(* The driver *)

\* uart_interupt_init before trap_set_external_handler, and all of boot.
NoHandlerYet == {"boot_guard", "boot_off", "boot_fcr", "boot_ring",
                 "boot_handler"}
BootOps == NoHandlerYet \cup
  {"boot_source", "boot_mask", "boot_on", "boot_drop", "boot_rest"}

PutOps == {"put_clear", "put_push", "put_read", "put_write", "put_drop"}
GetOps == {"get_clear", "get_pop", "get_drop", "get_none", "get_again"}
HandlerOps == PutOps \cup
  {"claim", "iir", "receive", "transmit", "complete", "done", "print"}

\* Where main() can stand while a handler runs over it: outside its guards.
Interruptible == {"idle", "put_clear", "get_clear", "get_again"}
-------------------------------------------------------------------------------
(* The inductive invariant                                                 *)

\* TypeOK, and what the sequences and the counters range over.
CpuShape ==
  /\ IrqTypeOK
  /\ level \in Contexts /\ pc \in [Contexts -> TrapPcs]
  /\ frame \in [Contexts -> Frame]
  /\ handlers \in SUBSET IRQ_MASK_ALL
CodeShape ==
  /\ op \in [Contexts -> Ops]
  /\ previous \in [Contexts -> BOOLEAN]
  /\ ier_read \in [Contexts -> SUBSET {"rx", "tx"}]
FlagShape ==
  /\ thri \in BOOLEAN /\ ier \in SUBSET {"rx", "tx"}
  /\ ip \in BOOLEAN /\ in_service \in BOOLEAN /\ source_on \in BOOLEAN
BytesShape ==
  /\ RingOK(rx) /\ RingOK(tx)
  /\ rbr \in Seq(Values) /\ Len(rbr) <= FifoSize
  /\ thr \in Seq(Values) /\ Len(thr) <= 1
  /\ out \in Seq(Values) /\ got \in Seq(Values)
  /\ lostOut \in Nat /\ lostIn \in Nat
  /\ pushed \in 0..MaxPut /\ arrived \in 0..MaxIn
ShapeInv == CpuShape /\ CodeShape /\ FlagShape /\ BytesShape

\* main(), and at most one handler over it, each in code of its own.
StackInv ==
  /\ level \in {0, 1}
  /\ pc[0] = "run" /\ op[0] \in BootOps \cup {"idle"} \cup PutOps \cup GetOps
  /\ \A c \in Contexts : c > level => pc[c] = "off" /\ op[c] = "idle"
  /\ level = 1 =>
       /\ op[0] \in Interruptible
       /\ \/ pc[1] = "dispatch" /\ op[1] \in {"claim", "print"}
          \/ pc[1] = "run" /\ op[1] \in HandlerOps
          \/ pc[1] = "sret" /\ op[1] = "idle"

\* The switch is off while main() boots or is inside its guard, and while a
\* handler runs; a handler came in with the switch on, and its own guards do
\* not turn it on.
SwitchInv ==
  /\ op[0] \in BootOps \cup InsideGuard => gie = FALSE
  /\ op[0] \in BootOps => previous[0] = FALSE
  /\ \A c \in Contexts : c > 0 => previous[c] = FALSE
  /\ level = 1 => gie = FALSE /\ frame[1].gie = TRUE

\* Handlers are there before their interrupts, and a claim finds a request.
HandlerInv ==
  /\ "EXTERNAL" \in handlers
  /\ op[0] \in BootOps \/ "TIMER" \in handlers
  /\ op[0] \in NoHandlerYet \/ external
  /\ level = 1 => frame[1].cause \in handlers
  /\ level = 1 /\ op[1] = "claim" => ip

\* A raw_putc that was begun has its byte left.
CountInv ==
  /\ op[0] \in {"put_clear", "put_push"} => pushed < MaxPut
  /\ level = 1 /\ op[1] \in {"put_clear", "put_push"} => pushed + 1 < MaxPut
  /\ op[0] \in BootOps => rx.len = 0 /\ tx.len = 0

\* s rises, and has no byte above n: the strong form of Increasing.
Rises(s, n) ==
  /\ \A i, j \in 1..Len(s) : i < j => s[i] < s[j]
  /\ \A i \in 1..Len(s) : s[i] <= n

TxInv ==
  LET all == out \o thr \o Contents(tx)
  IN  Rises(all, pushed) /\ Len(all) + lostOut = pushed

RxInv ==
  LET all == got \o Contents(rx) \o rbr
  IN  Rises(all, arrived) /\ Len(all) + lostIn = arrived

ControlInv == ShapeInv /\ StackInv /\ SwitchInv /\ HandlerInv /\ CountInv

UartInv == ControlInv /\ TxInv /\ RxInv
-------------------------------------------------------------------------------
(* The invariant holds at the start                                        *)

LEMMA ZeroIsValue == 0 \in Values /\ Values \subseteq Nat
BY UartAssumption

LEMMA UartInitInv == Init => ControlInv
<1> SUFFICES ASSUME Init PROVE ControlInv
  OBVIOUS
<1> USE UartAssumption, CapacityAssumption, MaxLevelAssumption, ZeroIsValue
        DEF Init, TrapInit, Contexts
<1>1. ShapeInv
  <2>1. PICK zero \in [Slots -> {0}] : rx = rb_noalloc_init(zero)
    OBVIOUS
  <2>2. zero \in [Slots -> Values]
    BY <2>1
  <2>3. RingOK(rx) /\ RingOK(tx)
    BY <2>1, <2>2 DEF RingOK, Rings, rb_noalloc_init
  <2>4. BytesShape
    BY <2>3 DEF BytesShape
  <2>5. CpuShape
    <3>1. NoFrame \in Frame
      BY DEF Frame, NoFrame, IRQ_MASK_ALL
    <3>2. IrqTypeOK /\ handlers \in SUBSET IRQ_MASK_ALL
      BY DEF IrqTypeOK, IRQ_MASK_ALL
    <3>3. level \in Contexts /\ pc \in [Contexts -> TrapPcs]
      BY DEF TrapPcs
    <3> QED
      BY <3>1, <3>2, <3>3 DEF CpuShape
  <2>6. CodeShape
    BY DEF CodeShape, Ops
  <2>7. FlagShape
    <3>1. thri = FALSE /\ ip = FALSE /\ in_service = FALSE /\ source_on = FALSE
      OBVIOUS
    <3>2. ier \in SUBSET {"rx", "tx"}
      OBVIOUS
    <3> QED
      BY <3>1, <3>2, Zenon DEF FlagShape
  <2> QED
    BY <2>4, <2>5, <2>6, <2>7 DEF ShapeInv
<1>2. StackInv
  BY DEF StackInv, BootOps, NoHandlerYet
<1>3. SwitchInv
  BY DEF SwitchInv
<1>4. HandlerInv
  BY DEF HandlerInv, BootOps, NoHandlerYet
<1>5. CountInv
  BY DEF CountInv, rb_noalloc_init
<1> QED
  BY <1>1, <1>2, <1>3, <1>4, <1>5 DEF ControlInv
-------------------------------------------------------------------------------
(* The PLIC and the registers                                              *)

\* The request bit of the PLIC stays a bit, and only the driver enables.
LEMMA GatewayFacts ==
  ASSUME ip \in BOOLEAN, Gateway PROVE ip' \in BOOLEAN /\ source_on' = source_on
BY Zenon DEF Gateway

\* A request is not lost while the line does not fall.
LEMMA GatewayKeeps ==
  ASSUME ip \in BOOLEAN, ip, Gateway, Line => Line' PROVE ip'
BY Zenon DEF Gateway

LEMMA WriteIerFacts ==
  ASSUME NEW e \in SUBSET {"rx", "tx"}, thri \in BOOLEAN, WriteIer(e)
  PROVE  ier' \in SUBSET {"rx", "tx"} /\ thri' \in BOOLEAN
<1>1. ier' \in SUBSET {"rx", "tx"}
  BY DEF WriteIer
<1>2. ("tx" \in e /\ thr = <<>>) \in BOOLEAN
  OBVIOUS
<1> QED
  BY <1>1, <1>2, Zenon DEF WriteIer

-------------------------------------------------------------------------------
(* Every step keeps main() and the handler in their places                 *)

Places == StackInv /\ SwitchInv /\ HandlerInv /\ CountInv

LEMMA FirstContexts == 0 \in Contexts /\ 1 \in Contexts
BY MaxLevelAssumption DEF Contexts

LEMMA BootKeepsPlaces ==
  ASSUME ControlInv, BootGuard \/ BootIerOff \/
         BootFcr \/ BootRings \/ BootHandler \/ BootSource \/ BootMask \/
         BootIerOn \/ BootDrop \/ BootRest
  PROVE  Places'
<1> USE FirstContexts, UartAssumption DEF ControlInv, ShapeInv, CpuShape,
    CodeShape, IrqTypeOK, Places, StackInv, SwitchInv, HandlerInv, CountInv,
    BootOps, NoHandlerYet, PutOps, GetOps, HandlerOps, Interruptible,
    InsideGuard, Doing, At, Then, Cpu, Driver, trapVars, irqVars, global_irq,
    global_irq_previous
<1>1. CASE BootGuard
  BY <1>1 DEF BootGuard, deviceVars, plicVars, histVars
<1>2. CASE BootIerOff
  BY <1>2 DEF BootIerOff, histVars
<1>3. CASE BootFcr
  BY <1>3 DEF BootFcr
<1>4. CASE BootRings
  BY <1>4 DEF BootRings, deviceVars, plicVars, histVars, rb_noalloc_init
<1>5. CASE BootHandler
  BY <1>5 DEF BootHandler, deviceVars, plicVars, histVars
<1>6. CASE BootSource
  BY <1>6 DEF BootSource, deviceVars, histVars
<1>7. CASE BootMask
  BY <1>7 DEF BootMask, deviceVars, plicVars, histVars
<1>8. CASE BootIerOn
  BY <1>8 DEF BootIerOn, histVars
<1>9. CASE BootDrop
  BY <1>9 DEF BootDrop, deviceVars, plicVars, histVars
<1>10. CASE BootRest
  BY <1>10 DEF BootRest, deviceVars, plicVars, histVars,
     trap_set_interrupt_handler
<1> QED
  BY <1>1, <1>2, <1>3, <1>4, <1>5, <1>6, <1>7, <1>8, <1>9, <1>10

LEMMA PutKeepsPlaces ==
  ASSUME ControlInv, PutCall \/ PutClear \/ PutPush \/
         PutRead \/ PutWrite \/ PutDrop
  PROVE  Places'
<1> USE FirstContexts, UartAssumption DEF ControlInv, ShapeInv, CpuShape,
    CodeShape, IrqTypeOK, Places, StackInv, SwitchInv, HandlerInv, CountInv,
    BootOps, NoHandlerYet, PutOps, GetOps, HandlerOps, Interruptible,
    InsideGuard, Doing, At, Then, Cpu, Driver, trapVars, irqVars, global_irq,
    global_irq_previous
<1>1. CASE PutCall
  <2> USE <1>1 DEF PutCall, deviceVars, plicVars, histVars
  <2>1. StackInv'
    OBVIOUS
  <2>2. SwitchInv' /\ HandlerInv'
    OBVIOUS
  <2>3. CountInv'
    BY DEF BytesShape
  <2> QED
    BY <2>1, <2>2, <2>3 DEF Places
<1>2. CASE PutClear
  BY <1>2 DEF PutClear, deviceVars, plicVars, histVars
<1>3. CASE PutPush
  BY <1>3 DEF PutPush, deviceVars, plicVars, rb_noalloc_push, BytesShape
<1>4. CASE PutRead
  BY <1>4 DEF PutRead, deviceVars, plicVars, histVars
<1>5. CASE PutWrite
  BY <1>5 DEF PutWrite, histVars
<1>6. CASE PutDrop
  BY <1>6 DEF PutDrop, deviceVars, plicVars, histVars
<1> QED
  BY <1>1, <1>2, <1>3, <1>4, <1>5, <1>6

LEMMA GetKeepsPlaces ==
  ASSUME ControlInv, GetCall \/ GetClear \/ GetPop \/
         GetDrop \/ OpenSwitch
  PROVE  Places'
<1> USE FirstContexts, UartAssumption DEF ControlInv, ShapeInv, CpuShape,
    CodeShape, IrqTypeOK, Places, StackInv, SwitchInv, HandlerInv, CountInv,
    BootOps, NoHandlerYet, PutOps, GetOps, HandlerOps, Interruptible,
    InsideGuard, Doing, At, Then, Cpu, Driver, trapVars, irqVars, global_irq,
    global_irq_previous
<1>1. CASE GetCall
  BY <1>1 DEF GetCall, deviceVars, plicVars, histVars
<1>2. CASE GetClear
  BY <1>2 DEF GetClear, deviceVars, plicVars, histVars
<1>3. CASE GetPop
  BY <1>3 DEF GetPop, deviceVars, plicVars, rb_noalloc_pop, rb_noalloc_is_empty
<1>4. CASE GetDrop
  BY <1>4 DEF GetDrop, deviceVars, plicVars, histVars
<1>5. CASE OpenSwitch
  BY <1>5 DEF OpenSwitch, deviceVars, plicVars, histVars
<1> QED
  BY <1>1, <1>2, <1>3, <1>4, <1>5

LEMMA TrapKeepsPlaces ==
  ASSUME ControlInv, ExternalInterrupt \/
         TimerInterrupt \/ Dispatch \/ HandlerReturns \/ Return
  PROVE  Places'
<1> USE FirstContexts, UartAssumption DEF ControlInv, ShapeInv, CpuShape,
    CodeShape, IrqTypeOK, Places, StackInv, SwitchInv, HandlerInv, CountInv,
    BootOps, NoHandlerYet, PutOps, GetOps, HandlerOps, Interruptible,
    InsideGuard, Doing, At, Then, Cpu, Driver, trapVars, irqVars, global_irq,
    global_irq_previous
<1>1. CASE ExternalInterrupt
  BY <1>1 DEF ExternalInterrupt, deviceVars, plicVars, histVars, Interrupt,
     TrapEnter, Deliverable
<1>2. CASE TimerInterrupt
  BY <1>2 DEF TimerInterrupt, deviceVars, plicVars, histVars, Interrupt,
     TrapEnter, Deliverable
<1>3. CASE Dispatch
  BY <1>3 DEF Dispatch, deviceVars, plicVars, histVars, TrapDispatch, Goto
<1>4. CASE HandlerReturns
  BY <1>4 DEF HandlerReturns, deviceVars, plicVars, histVars, TrapRestore, Goto
<1>5. CASE Return
  BY <1>5 DEF Return, deviceVars, plicVars, histVars, TrapReturn, Goto
<1> QED
  BY <1>1, <1>2, <1>3, <1>4, <1>5

LEMMA IsrKeepsPlaces ==
  ASSUME ControlInv, Claim \/ ReadIir \/
         ReceiveAvailable \/ TransmitAvailable \/ Complete
  PROVE  Places'
<1> USE FirstContexts, UartAssumption DEF ControlInv, ShapeInv, CpuShape,
    CodeShape, IrqTypeOK, Places, StackInv, SwitchInv, HandlerInv, CountInv,
    BootOps, NoHandlerYet, PutOps, GetOps, HandlerOps, Interruptible,
    InsideGuard, Doing, At, Then, Cpu, Driver, trapVars, irqVars, global_irq,
    global_irq_previous
<1>1. CASE Claim
  BY <1>1 DEF Claim, deviceVars, histVars, Goto
<1>2. CASE ReadIir
  BY <1>2 DEF ReadIir, histVars
<1>3. CASE ReceiveAvailable
  BY <1>3 DEF ReceiveAvailable, rb_noalloc_push
<1>4. CASE TransmitAvailable
  BY <1>4 DEF TransmitAvailable, histVars, rb_noalloc_pop, rb_noalloc_is_empty
<1>5. CASE Complete
  BY <1>5 DEF Complete, deviceVars, histVars
<1> QED
  BY <1>1, <1>2, <1>3, <1>4, <1>5

LEMMA LineKeepsPlaces ==
  ASSUME ControlInv, Transmit \/ Arrive PROVE Places'
<1> USE FirstContexts DEF ControlInv, ShapeInv, FlagShape, Transmit, Arrive,
        Cpu, Driver, trapVars, irqVars
<1>1. StackInv' /\ SwitchInv' /\ CountInv'
  BY DEF StackInv, SwitchInv, CountInv
<1>2. Line => Line'
  <2>1. CASE Transmit
    BY <2>1 DEF Line
  <2>2. CASE Arrive
    BY <2>2 DEF Line, BytesShape
  <2> QED
    BY <2>1, <2>2
<1>3. ip => ip'
  BY <1>2, GatewayKeeps
<1>4. HandlerInv'
  BY <1>3 DEF HandlerInv
<1> QED
  BY <1>1, <1>4 DEF Places

LEMMA StutterKeepsPlaces ==
  ASSUME ControlInv, UNCHANGED vars PROVE Places'
<1> USE DEF vars, trapVars, irqVars, plicVars, histVars
<1> QED
  BY DEF ControlInv, Places, StackInv, SwitchInv, HandlerInv, CountInv
-------------------------------------------------------------------------------
(* Every step keeps the shapes                                             *)

LEMMA CpuKeepsShape ==
  ASSUME ControlInv, [Next]_vars PROVE CpuShape'
<1> USE FirstContexts, UartAssumption DEF ControlInv, ShapeInv, CpuShape
<1>1. CASE BootGuard \/ BootDrop \/ OpenSwitch \/ PutClear \/ PutDrop \/ GetClear
             \/ GetDrop
  <2>1. gie' \in {TRUE, FALSE, previous[level]} /\ UNCHANGED <<mask, trapVars>>
    BY <1>1 DEF BootGuard, BootDrop, OpenSwitch, PutClear, PutDrop, GetClear,
       GetDrop, global_irq
  <2>2. gie' \in BOOLEAN
    BY <2>1 DEF CodeShape
  <2> QED
    BY <2>1, <2>2 DEF IrqTypeOK, trapVars
<1>2. CASE BootMask \/ BootRest
  <2>1. gie' = gie /\ UNCHANGED <<level, pc, frame>>
        /\ handlers' \in {handlers, handlers \cup {"TIMER"}}
    BY <1>2 DEF BootMask, BootRest, trapVars, trap_set_interrupt_handler
  <2>2. mask' \in SUBSET IRQ_MASK_ALL /\ "TIMER" \in IRQ_MASK_ALL
    BY <1>2 DEF BootMask, BootRest, enable_irq, irq_mask_to_sie, IrqTypeOK,
       IRQ_MASK_ALL
  <2> QED
    BY <2>1, <2>2 DEF IrqTypeOK
<1>3. ASSUME NEW cause \in {"EXTERNAL", "TIMER"}, NEW first, Interrupt(cause, first)
      PROVE  CpuShape'
  <2>1. level' \in Contexts /\ handlers' = handlers
        /\ pc' = [pc EXCEPT ![level + 1] = "dispatch"]
    BY <1>3, MaxLevelAssumption DEF Interrupt, TrapEnter, Contexts
  <2>2. mask' \in SUBSET IRQ_MASK_ALL /\ gie' \in BOOLEAN
    BY <1>3 DEF Interrupt, TrapEnter, enable_irq, irq_mask_to_sie, IrqTypeOK
  <2>3. [mask |-> mask, gie |-> gie, cause |-> cause, previous |-> get_irq] \in Frame
    BY DEF Frame, IrqTypeOK, get_irq, IRQ_MASK_ALL
  <2>4. frame' \in [Contexts -> Frame]
    BY <1>3, <2>3 DEF Interrupt, TrapEnter
  <2> QED
    BY <2>1, <2>2, <2>4 DEF IrqTypeOK, TrapPcs
<1>4. CASE Dispatch \/ Claim
  BY <1>4 DEF Dispatch, Claim, TrapDispatch, Goto, irqVars, IrqTypeOK, TrapPcs
<1>5. CASE HandlerReturns
  <2>1. mask' \in SUBSET IRQ_MASK_ALL
    BY <1>5 DEF HandlerReturns, TrapRestore, set_irq, irq_mask_to_sie
  <2> QED
    BY <1>5, <2>1 DEF HandlerReturns, TrapRestore, Goto, IrqTypeOK, TrapPcs
<1>6. CASE Return
  <2>1. gie' = frame[level].gie /\ frame[level].gie \in BOOLEAN /\ mask' = mask
    BY <1>6 DEF Return, TrapReturn, Frame
  <2>2. level' \in Contexts /\ UNCHANGED <<frame, handlers>>
        /\ pc' = [pc EXCEPT ![level] = "off"]
    BY <1>6 DEF Return, TrapReturn, Goto, StackInv, At
  <2> QED
    BY <2>1, <2>2 DEF IrqTypeOK, TrapPcs
<1>7. CASE Transmit \/ Arrive \/ PutCall \/ PutPush \/ PutRead \/ PutWrite
             \/ GetCall \/ GetPop \/ ReadIir \/ ReceiveAvailable
             \/ TransmitAvailable \/ Complete \/ BootIerOff \/ BootFcr \/ BootRings
             \/ BootHandler \/ BootSource \/ BootIerOn \/ UNCHANGED vars
  <2>1. UNCHANGED Cpu
    BY <1>7, Zenon DEF Transmit, Arrive, PutCall, PutPush, PutRead, PutWrite,
       GetCall, GetPop, ReadIir, ReceiveAvailable, TransmitAvailable, Complete,
       BootIerOff, BootFcr, BootRings, BootHandler, BootSource, BootIerOn, vars, Cpu
  <2> QED
    BY <2>1 DEF Cpu, trapVars, irqVars, IrqTypeOK
<1> QED
  BY <1>1, <1>2, <1>3, <1>4, <1>5, <1>6, <1>7
     DEF Next, Proceed, Boot, ExternalInterrupt, TimerInterrupt

\* Only a step of the running context moves its code.
LEMMA CodeKeepsShape ==
  ASSUME ControlInv, [Next]_vars PROVE CodeShape'
<1> USE FirstContexts, UartAssumption DEF ControlInv, ShapeInv, CodeShape, Then, Driver
<1>1. CASE Boot
  <2>1. CASE BootGuard \/ BootDrop
    <3>1. previous' \in [Contexts -> BOOLEAN]
      BY <2>1 DEF BootGuard, BootDrop, global_irq_previous, CpuShape, IrqTypeOK
    <3> QED
      BY <2>1, <3>1 DEF BootGuard, BootDrop, Ops
  <2>2. CASE ~(BootGuard \/ BootDrop)
    BY <1>1, <2>2 DEF Boot, BootIerOff, BootFcr, BootRings, BootHandler, BootSource,
       BootMask, BootIerOn, BootRest, Ops
  <2> QED
    BY <2>1, <2>2
<1>2. CASE PutCall \/ GetCall \/ GetDrop \/ PutDrop
  <2>1. previous' \in [Contexts -> BOOLEAN]
    BY <1>2 DEF PutCall, GetCall, GetDrop, PutDrop, global_irq_previous, CpuShape,
       IrqTypeOK
  <2>2. ier_read' \in [Contexts -> SUBSET {"rx", "tx"}]
    BY <1>2 DEF PutCall, GetCall, GetDrop, PutDrop
  <2> QED
    BY <1>2, <2>1, <2>2 DEF PutCall, GetCall, GetDrop, PutDrop, Ops
<1>3. CASE PutClear \/ PutPush \/ PutRead \/ PutWrite \/ GetClear \/ GetPop
  BY <1>3 DEF PutClear, PutPush, PutRead, PutWrite, GetClear, GetPop, FlagShape, Ops
<1>4. CASE ExternalInterrupt \/ TimerInterrupt \/ HandlerReturns
  BY <1>4 DEF ExternalInterrupt, TimerInterrupt, HandlerReturns, Interrupt, Ops
<1>5. CASE Claim \/ ReadIir \/ ReceiveAvailable \/ TransmitAvailable \/ Complete
  BY <1>5 DEF Claim, ReadIir, ReceiveAvailable, TransmitAvailable, Complete, Ops
<1>6. CASE Transmit \/ Arrive \/ OpenSwitch \/ Dispatch \/ Return \/ UNCHANGED vars
  BY <1>6 DEF Transmit, Arrive, OpenSwitch, Dispatch, Return, vars
<1> QED
  BY <1>1, <1>2, <1>3, <1>4, <1>5, <1>6 DEF Next, Proceed

LEMMA FlagsKeepShape ==
  ASSUME ControlInv, [Next]_vars PROVE FlagShape'
<1> USE DEF ControlInv, ShapeInv, FlagShape, plicVars, deviceVars
<1>1. CASE Transmit \/ Arrive \/ BootFcr \/ ReceiveAvailable \/ Complete
  <2>1. ip' \in BOOLEAN /\ source_on' = source_on
    BY <1>1, GatewayFacts DEF Transmit, Arrive, BootFcr, ReceiveAvailable, Complete
  <2>2. thri' \in {thri, TRUE} /\ ier' = ier /\ in_service' \in {in_service, FALSE}
    BY <1>1 DEF Transmit, Arrive, BootFcr, ReceiveAvailable, Complete
  <2> QED
    BY <2>1, <2>2
<1>2. ASSUME NEW e \in SUBSET {"rx", "tx"}, WriteIer(e), Gateway, in_service' = in_service
      PROVE  FlagShape'
  BY <1>2, GatewayFacts, WriteIerFacts
<1>3. CASE BootIerOff \/ BootIerOn \/ PutWrite
  <2>1. ier_read[level] \cup {"tx"} \in SUBSET {"rx", "tx"}
    BY DEF CodeShape, CpuShape
  <2> QED
    BY <1>2, <1>3, <2>1 DEF BootIerOff, BootIerOn, PutWrite
<1>4. CASE ReadIir
  <2>1. ip' \in BOOLEAN /\ source_on' = source_on
    BY <1>4, GatewayFacts DEF ReadIir
  <2>2. thri' \in {thri, FALSE} /\ ier' = ier /\ in_service' = in_service
    BY <1>4 DEF ReadIir
  <2> QED
    BY <2>1, <2>2
<1>5. CASE TransmitAvailable
  <2>1. ip' \in BOOLEAN /\ source_on' = source_on /\ in_service' = in_service
    BY <1>5, GatewayFacts DEF TransmitAvailable
  <2>2. CASE WriteIer(ier \ {"tx"})
    BY <2>1, <2>2, WriteIerFacts
  <2>3. CASE thri' \in {thri, FALSE} /\ ier' = ier
    BY <2>1, <2>3
  <2> QED
    BY <1>5, <2>2, <2>3 DEF TransmitAvailable
<1>6. CASE BootSource \/ Claim
  BY <1>6 DEF BootSource, Claim
<1>7. CASE BootGuard \/ BootRings \/ BootHandler \/ BootMask \/ BootDrop \/ BootRest
             \/ OpenSwitch \/ PutCall \/ PutClear \/ PutPush \/ PutRead \/ PutDrop
             \/ GetCall \/ GetClear \/ GetPop \/ GetDrop \/ ExternalInterrupt
             \/ TimerInterrupt \/ Dispatch \/ HandlerReturns \/ Return \/ UNCHANGED vars
  <2>1. UNCHANGED <<deviceVars, plicVars>>
    BY <1>7, Zenon DEF BootGuard, BootRings, BootHandler, BootMask, BootDrop, BootRest,
       OpenSwitch, PutCall, PutClear, PutPush, PutRead, PutDrop, GetCall, GetClear,
       GetPop, GetDrop, ExternalInterrupt, TimerInterrupt, Interrupt, Dispatch,
       HandlerReturns, Return, vars
  <2> QED
    BY <2>1
<1> QED
  BY <1>1, <1>3, <1>4, <1>5, <1>6, <1>7 DEF Next, Proceed, Boot

-------------------------------------------------------------------------------
(* Sequences that rise                                                     *)

LEMMA ElementIsNat ==
  ASSUME NEW s \in Seq(Values), NEW i \in 1..Len(s) PROVE s[i] \in Nat
BY ElementOfSeq, ZeroIsValue

\* A byte that was not there yet goes at the end.
LEMMA RisesWithNewest ==
  ASSUME NEW s \in Seq(Values), NEW n \in Nat, n + 1 \in Values, Rises(s, n)
  PROVE  Rises(Append(s, n + 1), n + 1) /\ Len(Append(s, n + 1)) = Len(s) + 1
<1> DEFINE t == Append(s, n + 1)
<1>1. /\ Len(t) = Len(s) + 1 /\ Len(s) \in Nat
      /\ \A i \in 1..Len(s) : t[i] = s[i]
      /\ t[Len(s) + 1] = n + 1
  BY AppendProperties, LenProperties
<1>2. \A i \in 1..Len(s) : s[i] \in Nat /\ s[i] <= n
  BY ElementIsNat DEF Rises
<1>3. \A i, j \in 1..Len(s) : i < j => s[i] < s[j]
  BY DEF Rises
<1> HIDE DEF t
<1>4. \A i \in 1..Len(t) : (i <= Len(s) /\ i \in 1..Len(s)) \/ i = Len(s) + 1
  BY <1>1
<1>5. \A i \in 1..Len(t) : t[i] <= n + 1
  BY <1>1, <1>2, <1>4
<1>6. ASSUME NEW i \in 1..Len(t), NEW j \in 1..Len(t), i < j PROVE t[i] < t[j]
  <2>1. i \in 1..Len(s) /\ t[i] = s[i] /\ s[i] \in Nat /\ s[i] <= n
    BY <1>1, <1>2, <1>6
  <2>2. CASE j \in 1..Len(s)
    BY <1>1, <1>3, <1>6, <2>1, <2>2
  <2>3. CASE j = Len(s) + 1
    BY <1>1, <2>1, <2>3
  <2> QED
    BY <1>4, <2>2, <2>3
<1>7. Rises(t, n + 1)
  BY <1>5, <1>6 DEF Rises
<1> QED
  BY <1>1, <1>7 DEF t

LEMMA RisesBelowMore ==
  ASSUME NEW s \in Seq(Values), NEW n \in Nat, Rises(s, n)
  PROVE  Rises(s, n + 1)
<1>1. ASSUME NEW i \in 1..Len(s) PROVE s[i] <= n + 1
  <2>1. s[i] \in Nat /\ s[i] <= n
    BY ElementIsNat DEF Rises
  <2> QED
    BY <2>1
<1> QED
  BY <1>1 DEF Rises

LEMMA RisesPrefix ==
  ASSUME NEW s \in Seq(Values), NEW t \in Seq(Values), NEW n \in Nat, Rises(s \o t, n)
  PROVE  Rises(s, n)
<1> DEFINE all == s \o t
<1>1. /\ Len(s) \in Nat /\ Len(t) \in Nat /\ Len(all) = Len(s) + Len(t)
      /\ \A i \in 1..Len(s) : all[i] = s[i]
  BY ConcatProperties, LenProperties
<1>2. Rises(all, n)
  OBVIOUS
<1> HIDE DEF all
<1>3. ASSUME NEW i \in 1..Len(s) PROVE i \in 1..Len(all) /\ s[i] = all[i]
  BY <1>1
<1>4. \A i \in 1..Len(s) : s[i] <= n
  BY <1>2, <1>3 DEF Rises
<1>5. \A i, j \in 1..Len(s) : i < j => s[i] < s[j]
  BY <1>2, <1>3 DEF Rises
<1> QED
  BY <1>4, <1>5 DEF Rises

\* What is left when a byte is taken out still rises.
LEMMA RisesWithout ==
  ASSUME NEW s \in Seq(Values), NEW t \in Seq(Values), NEW u \in Seq(Values),
         NEW n \in Nat, t # <<>>, Rises((s \o t) \o u, n)
  PROVE  /\ Rises((s \o Tail(t)) \o u, n)
         /\ Len((s \o Tail(t)) \o u) = Len((s \o t) \o u) - 1
<1> DEFINE all == (s \o t) \o u
           rest == (s \o Tail(t)) \o u
           k == Len(s) + 1
<1>1. /\ Tail(t) \in Seq(Values) /\ Len(t) \in Nat \ {0} /\ Len(Tail(t)) = Len(t) - 1
      /\ \A i \in 1..Len(t) - 1 : Tail(t)[i] = t[i + 1]
      /\ Len(s) \in Nat /\ Len(u) \in Nat
  BY EmptySeq
<1>2. /\ s \o t \in Seq(Values) /\ Len(s \o t) = Len(s) + Len(t)
      /\ \A i \in 1..Len(s) + Len(t) :
           (s \o t)[i] = IF i <= Len(s) THEN s[i] ELSE t[i - Len(s)]
  BY ConcatProperties
<1>3. /\ s \o Tail(t) \in Seq(Values) /\ Len(s \o Tail(t)) = Len(s) + Len(t) - 1
      /\ \A i \in 1..Len(s) + Len(t) - 1 :
           (s \o Tail(t))[i] = IF i <= Len(s) THEN s[i] ELSE Tail(t)[i - Len(s)]
  BY <1>1, ConcatProperties
<1>4. /\ all \in Seq(Values) /\ Len(all) = Len(s) + Len(t) + Len(u)
      /\ \A i \in 1..Len(s) + Len(t) + Len(u) :
           all[i] = IF i <= Len(s) + Len(t) THEN (s \o t)[i] ELSE u[i - (Len(s) + Len(t))]
  BY <1>2, ConcatProperties
<1>5. /\ rest \in Seq(Values) /\ Len(rest) = Len(s) + Len(t) + Len(u) - 1
      /\ \A i \in 1..Len(s) + Len(t) + Len(u) - 1 :
           rest[i] = IF i <= Len(s) + Len(t) - 1 THEN (s \o Tail(t))[i]
                                                  ELSE u[i - (Len(s) + Len(t) - 1)]
  BY <1>1, <1>3, ConcatProperties
<1>6. ASSUME NEW i \in 1..Len(rest)
      PROVE  rest[i] = all[IF i < k THEN i ELSE i + 1]
  <2>1. CASE i < k
    BY <1>1, <1>2, <1>3, <1>4, <1>5, <2>1
  <2>2. CASE k <= i /\ i <= Len(s) + Len(t) - 1
    <3>1. /\ i \in 1..Len(s) + Len(t) - 1 /\ i + 1 \in 1..Len(s) + Len(t)
          /\ i - Len(s) \in 1..Len(t) - 1 /\ i + 1 \in 1..Len(all)
      BY <1>1, <1>4, <2>2
    <3>2. rest[i] = Tail(t)[i - Len(s)]
      BY <1>1, <1>3, <1>5, <2>2, <3>1
    <3>3. all[i + 1] = t[i + 1 - Len(s)]
      <4>1. i + 1 \in 1..Len(s) + Len(t) + Len(u) /\ i + 1 <= Len(s) + Len(t)
            /\ ~(i + 1 <= Len(s))
        BY <1>1, <2>2, <3>1
      <4>2. all[i + 1] = (s \o t)[i + 1]
        BY <1>4, <4>1
      <4>3. (s \o t)[i + 1] = t[i + 1 - Len(s)]
        BY <1>2, <3>1, <4>1
      <4> QED
        BY <4>2, <4>3, Zenon
    <3>4. Tail(t)[i - Len(s)] = t[(i - Len(s)) + 1] /\ (i - Len(s)) + 1 = i + 1 - Len(s)
      BY <1>1, <3>1
    <3> QED
      BY <1>1, <2>2, <3>2, <3>3, <3>4
  <2>3. CASE Len(s) + Len(t) - 1 < i
    <3>1. i + 1 - (Len(s) + Len(t)) = i - (Len(s) + Len(t) - 1)
      BY <1>1, <1>5
    <3>2. i + 1 \in 1..Len(all) /\ ~(i < k) /\ ~(i + 1 <= Len(s) + Len(t))
      BY <1>1, <1>4, <1>5, <2>3
    <3>3. rest[i] = u[i - (Len(s) + Len(t) - 1)]
      BY <1>1, <1>5, <2>3
    <3>4. all[i + 1] = u[i + 1 - (Len(s) + Len(t))]
      BY <1>4, <3>2
    <3> QED
      BY <3>1, <3>2, <3>3, <3>4
  <2> QED
    BY <1>1, <1>5, <2>1, <2>2, <2>3
<1> HIDE DEF all, rest
<1>7. k \in 1..Len(all) /\ Len(rest) = Len(all) - 1 /\ Len(all) \in Nat
  BY <1>1, <1>4, <1>5
<1> HIDE DEF k
<1>8. Rises(all, n) => Rises(rest, n)
  <2> SUFFICES ASSUME Rises(all, n) PROVE Rises(rest, n)
    OBVIOUS
  <2>1. \A i \in 1..Len(rest) : (IF i < k THEN i ELSE i + 1) \in 1..Len(all)
    BY <1>7
  <2>2. \A i \in 1..Len(rest) : rest[i] <= n
    BY <1>6, <2>1 DEF Rises
  <2>3. ASSUME NEW i \in 1..Len(rest), NEW j \in 1..Len(rest), i < j
        PROVE  rest[i] < rest[j]
    <3> DEFINE a == IF i < k THEN i ELSE i + 1
               b == IF j < k THEN j ELSE j + 1
    <3>1. a \in 1..Len(all) /\ b \in 1..Len(all) /\ a < b
      <4>1. a \in 1..Len(all) /\ b \in 1..Len(all)
        BY <2>1, Zenon
      <4>2. a < b
        <5> DEFINE h == Len(all) - 1
        <5>1. i \in 1..h /\ j \in 1..h /\ h \in Int /\ k \in Int
          BY <1>7
        <5> HIDE DEF h
        <5> QED
          BY <2>3, <5>1
      <4> QED
        BY <4>1, <4>2, Zenon
    <3>2. rest[i] = all[a] /\ rest[j] = all[b]
      BY <1>6
    <3> HIDE DEF a, b
    <3> QED
      BY <3>1, <3>2 DEF Rises
  <2> QED
    BY <2>2, <2>3 DEF Rises
<1> QED
  BY <1>7, <1>8 DEF all, rest

\* A byte goes from the front of one sequence to the end of the other.
LEMMA HandOver ==
  ASSUME NEW s \in Seq(Values), NEW t \in Seq(Values), t # <<>>
  PROVE  Append(s, Head(t)) \o Tail(t) = s \o t
<1>1. Head(t) \in Values /\ Tail(t) \in Seq(Values) /\ t = <<Head(t)>> \o Tail(t)
  OBVIOUS
<1>2. Append(s, Head(t)) = s \o <<Head(t)>>
  BY <1>1, AppendIsConcat
<1>3. <<Head(t)>> \in Seq(Values)
  BY <1>1
<1> QED
  BY <1>1, <1>2, <1>3, ConcatAssociative

LEMMA ConcatAppend ==
  ASSUME NEW s \in Seq(Values), NEW t \in Seq(Values), NEW e \in Values
  PROVE  s \o Append(t, e) = Append(s \o t, e)
<1>1. Append(t, e) = t \o <<e>> /\ <<e>> \in Seq(Values)
  BY AppendIsConcat
<1>2. s \o t \in Seq(Values) /\ Append(s \o t, e) = (s \o t) \o <<e>>
  BY ConcatProperties, AppendIsConcat
<1> QED
  BY <1>1, <1>2, ConcatAssociative

-------------------------------------------------------------------------------
(* What the steps that move bytes do to them                               *)

\* The bound on the histories keeps every byte among Values.
LEMMA BytesAreValues ==
  /\ \A n \in 0..MaxPut : n \in Values
  /\ \A n \in 0..MaxIn : n \in Values
  /\ MaxPut \in Nat /\ MaxIn \in Nat
BY UartAssumption

\* rb_noalloc_push, for a ring that has room for at least one byte.
LEMMA PushIs ==
  ASSUME NEW rb, RingOK(rb), NEW e \in Values
  PROVE  /\ RingOK(rb_noalloc_push(rb, e))
         /\ Contents(rb) \in Seq(Values)
         /\ rb_noalloc_is_full(rb) =>
              /\ Contents(rb) # <<>>
              /\ Contents(rb_noalloc_push(rb, e)) = Append(Tail(Contents(rb)), e)
         /\ ~rb_noalloc_is_full(rb) =>
              Contents(rb_noalloc_push(rb, e)) = Append(Contents(rb), e)
<1>1. Contents(rb) \in Seq(Values) /\ Len(Contents(rb)) = rb.len /\ rb.len <= Capacity
  BY ContentsIs DEF RingOK
<1>2. Capacity \in Nat /\ Capacity > 0 /\ rb.len \in Nat
  BY CapacityAssumption, UartAssumption DEF RingOK, Rings
<1>3. Contents(rb_noalloc_push(rb, e)) = Abstract!Pushed(Contents(rb), e)
  BY PushContents
<1>4. RingOK(rb_noalloc_push(rb, e))
  BY PushInBounds
<1>5. rb_noalloc_is_full(rb) <=> ~(Len(Contents(rb)) < Capacity)
  BY <1>1, <1>2 DEF rb_noalloc_is_full
<1>6. rb_noalloc_is_full(rb) => Contents(rb) # <<>>
  <2> SUFFICES ASSUME rb.len = Capacity, Contents(rb) = <<>> PROVE FALSE
    BY DEF rb_noalloc_is_full
  <2> QED
    BY <1>1, <1>2, EmptySeq
<1> QED
  BY <1>1, <1>2, <1>3, <1>4, <1>5, <1>6 DEF Abstract!Pushed

\* A ring that is read from: the front, and what is left.
LEMMA TakeIs ==
  ASSUME NEW rb, RingOK(rb), ~rb_noalloc_is_empty(rb)
  PROVE  /\ RingOK(rb_noalloc_pop(rb))
         /\ Contents(rb) \in Seq(Values) /\ Contents(rb) # <<>>
         /\ Contents(rb_noalloc_pop(rb)) = Tail(Contents(rb))
         /\ rb_noalloc_front(rb) = Head(Contents(rb))
         /\ rb_noalloc_front(rb) \in Values
<1>1. rb.len > 0
  BY DEF rb_noalloc_is_empty, RingOK, Rings
<1> QED
  BY <1>1, PopContents, FrontIs, ContentsIs

\* uart_interupt_init empties rings that are empty.
LEMMA InitIs ==
  ASSUME NEW rb, RingOK(rb)
  PROVE  RingOK(rb_noalloc_init(rb.buf)) /\ Contents(rb_noalloc_init(rb.buf)) = <<>>
<1>1. RingOK(rb_noalloc_init(rb.buf)) /\ rb_noalloc_init(rb.buf).len = 0
  BY CapacityAssumption DEF RingOK, Rings, rb_noalloc_init
<1> QED
  BY <1>1, EmptyContents

\* PutCall left room for the byte that PutPush gives its number to.
LEMMA PutHasRoom ==
  ASSUME ControlInv, PutPush PROVE pushed + 1 \in 0..MaxPut /\ pushed + 1 \in Values
<1>1. pushed \in 0..MaxPut /\ MaxPut \in Nat
  BY BytesAreValues DEF ControlInv, ShapeInv, BytesShape
<1>2. pushed < MaxPut
  BY <1>1 DEF ControlInv, StackInv, CountInv, PutPush, Doing
<1> QED
  BY <1>1, <1>2, BytesAreValues

LEMMA BytesKeepShape ==
  ASSUME ControlInv, [Next]_vars PROVE BytesShape'
<1> USE DEF ControlInv, ShapeInv, BytesShape
<1>1. CASE BootRings
  BY <1>1, InitIs DEF BootRings, deviceVars, histVars
<1>2. CASE PutPush
  <2>1. RingOK(tx') /\ pushed' \in 0..MaxPut
    BY <1>2, PutHasRoom, PushIs DEF PutPush
  <2>2. lostOut' \in Nat
    BY <1>2 DEF PutPush
  <2> QED
    BY <1>2, <2>1, <2>2 DEF PutPush, deviceVars
<1>3. CASE GetPop
  <2>1. CASE rb_noalloc_is_empty(rx)
    BY <1>3, <2>1 DEF GetPop, deviceVars
  <2>2. CASE ~rb_noalloc_is_empty(rx)
    <3>1. rx' = rb_noalloc_pop(rx) /\ got' = Append(got, rb_noalloc_front(rx))
      BY <1>3, <2>2 DEF GetPop
    <3>2. RingOK(rx') /\ got' \in Seq(Values)
      BY <2>2, <3>1, TakeIs, AppendProperties
    <3>3. UNCHANGED <<tx, rbr, thr, out, lostOut, lostIn, pushed, arrived>>
      BY <1>3 DEF GetPop, deviceVars
    <3> QED
      BY <3>2, <3>3
  <2> QED
    BY <2>1, <2>2
<1>4. CASE ReceiveAvailable
  <2>1. ASSUME rbr # <<>>
        PROVE  /\ Head(rbr) \in Values /\ Tail(rbr) \in Seq(Values)
               /\ Len(Tail(rbr)) <= FifoSize
    <3>1. Len(rbr) \in Nat \ {0} /\ FifoSize \in Nat
      BY <2>1, EmptySeq, UartAssumption
    <3>2. Tail(rbr) \in Seq(Values) /\ Len(Tail(rbr)) = Len(rbr) - 1 /\ Head(rbr) = rbr[1]
      BY <2>1
    <3> QED
      BY <3>1, <3>2, ElementOfSeq
  <2>2. CASE rbr # <<>>
    <3>1. RingOK(rb_noalloc_push(rx, Head(rbr)))
      BY <2>1, <2>2, PushIs
    <3>2. rx' = rb_noalloc_push(rx, Head(rbr)) /\ rbr' = Tail(rbr)
          /\ lostIn' \in {lostIn, lostIn + 1}
      BY <1>4, <2>2 DEF ReceiveAvailable
    <3>3. lostIn' \in Nat
      BY <3>2
    <3>4. UNCHANGED <<tx, thr, out, got, lostOut, pushed, arrived>>
      BY <1>4 DEF ReceiveAvailable
    <3> QED
      BY <2>1, <2>2, <3>1, <3>2, <3>3, <3>4
  <2>3. CASE rbr = <<>>
    BY <1>4, <2>3 DEF ReceiveAvailable
  <2> QED
    BY <2>2, <2>3
<1>5. CASE TransmitAvailable
  <2>1. RingOK(tx') /\ thr' \in Seq(Values) /\ Len(thr') <= 1
    <3>1. CASE thr = <<>> /\ ~rb_noalloc_is_empty(tx)
      <4>1. thr' = <<rb_noalloc_front(tx)>> /\ tx' = rb_noalloc_pop(tx)
        BY <1>5, <3>1 DEF TransmitAvailable
      <4> QED
        BY <3>1, <4>1, TakeIs
    <3>2. CASE UNCHANGED <<thr, tx>>
      BY <3>2
    <3> QED
      BY <1>5, <3>1, <3>2 DEF TransmitAvailable
  <2> QED
    BY <1>5, <2>1 DEF TransmitAvailable, histVars
<1>6. CASE Transmit
  <2>1. out' \in Seq(Values)
    BY <1>6, ConcatProperties DEF Transmit
  <2> QED
    BY <1>6, <2>1 DEF Transmit, Driver
<1>7. CASE Arrive
  <2>1. arrived' = arrived + 1 /\ arrived' \in 0..MaxIn /\ arrived' \in Values
    BY <1>7, BytesAreValues DEF Arrive
  <2>2. Append(rbr, arrived') \in Seq(Values) /\ Len(Append(rbr, arrived')) = Len(rbr) + 1
        /\ Len(rbr) \in Nat /\ FifoSize \in Nat
    BY <2>1, AppendProperties, LenProperties, UartAssumption
  <2>3. rbr' \in Seq(Values) /\ Len(rbr') <= FifoSize /\ lostIn' \in Nat
    <3>1. CASE Len(rbr) < FifoSize
      <4>1. rbr' = Append(rbr, arrived') /\ lostIn' = lostIn
        BY <1>7, <3>1 DEF Arrive
      <4> HIDE DEF BytesShape
      <4> QED
        BY <2>2, <3>1, <4>1 DEF BytesShape
    <3>2. CASE ~(Len(rbr) < FifoSize)
      BY <1>7, <3>2 DEF Arrive
    <3> QED
      BY <3>1, <3>2
  <2> QED
    BY <1>7, <2>1, <2>3 DEF Arrive, Driver
<1>8. CASE BootFcr
  <2>1. lostIn' \in Nat
    BY <1>8 DEF BootFcr
  <2> QED
    BY <1>8, <2>1, UartAssumption DEF BootFcr, Driver
<1>9. CASE \/ BootGuard \/ BootIerOff \/ BootHandler \/ BootSource \/ BootMask
           \/ BootIerOn \/ BootDrop \/ BootRest \/ OpenSwitch \/ PutCall \/ PutClear
           \/ PutRead \/ PutWrite \/ PutDrop \/ GetCall \/ GetClear \/ GetDrop
           \/ ExternalInterrupt \/ TimerInterrupt \/ Dispatch \/ Claim \/ ReadIir
           \/ Complete \/ HandlerReturns \/ Return \/ UNCHANGED vars
  <2>1. UNCHANGED <<rx, tx, rbr, thr, histVars>>
    BY <1>9, Zenon DEF BootGuard, BootIerOff, BootHandler, BootSource, BootMask,
       BootIerOn, BootDrop, BootRest, OpenSwitch, PutCall, PutClear, PutRead,
       PutWrite, PutDrop, GetCall, GetClear, GetDrop, ExternalInterrupt,
       TimerInterrupt, Interrupt, Dispatch, Claim, ReadIir, Complete,
       HandlerReturns, Return, vars, Driver, deviceVars
  <2> QED
    BY <2>1 DEF histVars
<1> QED
  BY <1>1, <1>2, <1>3, <1>4, <1>5, <1>6, <1>7, <1>8, <1>9 DEF Next, Proceed, Boot

-------------------------------------------------------------------------------
(* The order of the bytes                                                  *)

\* A push, seen in a stream that ends with the ring.
LEMMA EntersLast ==
  ASSUME NEW s \in Seq(Values), NEW c \in Seq(Values), NEW n \in Nat,
         NEW e \in Values, e = n + 1, Rises(s \o c, n)
  PROVE  /\ Rises(s \o Append(c, e), e)
         /\ Len(s \o Append(c, e)) = Len(s \o c) + 1
<1>1. s \o Append(c, e) = Append(s \o c, e) /\ s \o c \in Seq(Values)
  BY ConcatAppend, ConcatProperties
<1> QED
  BY <1>1, RisesWithNewest

LEMMA EntersFull ==
  ASSUME NEW s \in Seq(Values), NEW c \in Seq(Values), NEW n \in Nat,
         NEW e \in Values, e = n + 1, c # <<>>, Rises(s \o c, n)
  PROVE  /\ Rises(s \o Append(Tail(c), e), e)
         /\ Len(s \o Append(Tail(c), e)) = Len(s \o c)
<1>1. Tail(c) \in Seq(Values)
  OBVIOUS
<1>2. s \o c \in Seq(Values) /\ s \o Tail(c) \in Seq(Values) /\ <<>> \in Seq(Values)
  BY <1>1, ConcatProperties, EmptySeq
<1>3. (s \o c) \o <<>> = s \o c /\ (s \o Tail(c)) \o <<>> = s \o Tail(c)
  BY <1>2, ConcatEmptySeq
<1>4. Rises((s \o c) \o <<>>, n)
  BY <1>3
<1>5. /\ Rises((s \o Tail(c)) \o <<>>, n)
      /\ Len((s \o Tail(c)) \o <<>>) = Len((s \o c) \o <<>>) - 1
  BY <1>2, <1>4, RisesWithout
<1>6. Rises(s \o Tail(c), n) /\ Len(s \o Tail(c)) = Len(s \o c) - 1
  BY <1>3, <1>5
<1>7. /\ Rises(s \o Append(Tail(c), e), e)
      /\ Len(s \o Append(Tail(c), e)) = Len(s \o Tail(c)) + 1
  BY <1>1, <1>6, EntersLast, Zenon
<1>8. Len(s \o c) \in Nat
  BY <1>2, LenProperties
<1> QED
  BY <1>6, <1>7, <1>8

\* A byte goes from the FIFO to the ring, seen in the stream of both.
LEMMA MovesOn ==
  ASSUME NEW s \in Seq(Values), NEW c \in Seq(Values), NEW r \in Seq(Values), r # <<>>
  PROVE  (s \o Append(c, Head(r))) \o Tail(r) = (s \o c) \o r
<1>1. Head(r) \in Values /\ s \o c \in Seq(Values)
  <2>1. s \o c \in Seq(Values)
    BY ConcatProperties
  <2>2. Len(r) \in Nat \ {0} /\ Head(r) = r[1]
    BY EmptySeq
  <2>3. r[1] \in Values
    BY <2>2, ElementOfSeq
  <2> QED
    BY <2>1, <2>2, <2>3
<1>2. s \o Append(c, Head(r)) = Append(s \o c, Head(r))
  BY <1>1, ConcatAppend
<1>3. Append(s \o c, Head(r)) \o Tail(r) = (s \o c) \o r
  BY <1>1, HandOver, Zenon
<1> QED
  BY <1>2, <1>3, Zenon

\* The same onto a full ring, which loses its oldest byte.
LEMMA MovesOnFull ==
  ASSUME NEW s \in Seq(Values), NEW c \in Seq(Values), NEW r \in Seq(Values), r # <<>>,
         c # <<>>, NEW n \in Nat, Rises((s \o c) \o r, n)
  PROVE  /\ Rises((s \o Append(Tail(c), Head(r))) \o Tail(r), n)
         /\ Len((s \o Append(Tail(c), Head(r))) \o Tail(r)) = Len((s \o c) \o r) - 1
<1>1. Tail(c) \in Seq(Values)
  OBVIOUS
<1>2. (s \o Append(Tail(c), Head(r))) \o Tail(r) = (s \o Tail(c)) \o r
  BY <1>1, MovesOn, Zenon
<1>3. /\ Rises((s \o Tail(c)) \o r, n)
      /\ Len((s \o Tail(c)) \o r) = Len((s \o c) \o r) - 1
  BY RisesWithout
<1> QED
  BY <1>2, <1>3

\* Bytes enter the transmit side in raw_putc and are only moved on after that;
\* a push onto a full ring takes one out of the middle.
LEMMA TxKeepsOrder ==
  ASSUME ControlInv, TxInv, [Next]_vars PROVE TxInv'
<1> DEFINE held == Contents(tx)
           sent == out \o thr
           all == sent \o held
           new == (out' \o thr') \o Contents(tx')
<1>1. /\ RingOK(tx) /\ out \in Seq(Values) /\ thr \in Seq(Values)
      /\ pushed \in Nat /\ lostOut \in Nat
  BY BytesAreValues DEF ControlInv, ShapeInv, BytesShape
<1>2. held \in Seq(Values) /\ sent \in Seq(Values)
  BY <1>1, ContentsIs, ConcatProperties
<1>3. all \in Seq(Values) /\ Len(all) \in Nat
  BY <1>2, ConcatProperties, LenProperties
<1>4. Rises(all, pushed) /\ Len(all) + lostOut = pushed
  BY DEF TxInv
<1>5. ASSUME Rises(new, pushed'), Len(new) + lostOut' = pushed' PROVE TxInv'
  BY <1>5 DEF TxInv
<1> HIDE DEF new
<1>6. ASSUME UNCHANGED <<pushed, lostOut>>, new = all PROVE TxInv'
  BY <1>4, <1>5, <1>6
<1>7. CASE PutPush
  <2> DEFINE e == pushed + 1
  <2>0. e = pushed + 1
    OBVIOUS
  <2>1. e \in Values /\ pushed' = e /\ tx' = rb_noalloc_push(tx, e)
        /\ out' = out /\ thr' = thr
    BY <1>7, PutHasRoom DEF PutPush, deviceVars
  <2> HIDE DEF e
  <2>2. new = sent \o Contents(tx')
    BY <2>1 DEF new
  <2>3. CASE rb_noalloc_is_full(tx)
    <3>1. Contents(tx') = Append(Tail(held), e) /\ held # <<>>
      BY <1>1, <2>1, <2>3, PushIs
    <3> HIDE DEF held, sent
    <3>2. Rises(sent \o Append(Tail(held), e), e) /\ Len(sent \o Append(Tail(held), e)) = Len(sent \o held)
      <4>1. e \in Values /\ pushed \in Nat /\ Rises(sent \o held, pushed)
        BY <1>1, <1>4, <2>1
      <4> QED
        BY <1>2, <2>0, <3>1, <4>1, EntersFull, Zenon
    <3>5. Rises(new, pushed') /\ Len(new) = Len(all)
      BY <2>1, <2>2, <3>1, <3>2, Zenon
    <3>3. lostOut' = lostOut + 1
      BY <1>7, <2>3 DEF PutPush
    <3> HIDE DEF all
    <3>4. Len(new) + lostOut' = pushed'
      <4>1. /\ Len(all) \in Nat /\ lostOut \in Nat /\ pushed \in Nat
            /\ Len(all) + lostOut = pushed /\ pushed' = pushed + 1
        BY <1>1, <1>3, <1>4, <2>0, <2>1, Zenon
      <4>2. \/ Len(new) = Len(all) /\ lostOut' = lostOut + 1
            \/ Len(new) = Len(all) + 1 /\ lostOut' = lostOut
        BY <3>5, <3>3, Zenon
      <4> QED
        BY <4>1, <4>2
    <3> QED
      BY <1>5, <3>5, <3>4, Zenon
  <2>4. CASE ~rb_noalloc_is_full(tx)
    <3>1. Contents(tx') = Append(held, e)
      BY <1>1, <2>1, <2>4, PushIs
    <3> HIDE DEF held, sent
    <3>2. Rises(sent \o Append(held, e), e) /\ Len(sent \o Append(held, e)) = Len(sent \o held) + 1
      <4>1. e \in Values /\ pushed \in Nat /\ Rises(sent \o held, pushed)
        BY <1>1, <1>4, <2>1
      <4> QED
        BY <1>2, <2>0, <3>1, <4>1, EntersLast, Zenon
    <3>5. Rises(new, pushed') /\ Len(new) = Len(all) + 1
      BY <2>1, <2>2, <3>1, <3>2, Zenon
    <3>3. lostOut' = lostOut
      BY <1>7, <2>4 DEF PutPush
    <3> HIDE DEF all
    <3>4. Len(new) + lostOut' = pushed'
      <4>1. /\ Len(all) \in Nat /\ lostOut \in Nat /\ pushed \in Nat
            /\ Len(all) + lostOut = pushed /\ pushed' = pushed + 1
        BY <1>1, <1>3, <1>4, <2>0, <2>1, Zenon
      <4>2. \/ Len(new) = Len(all) /\ lostOut' = lostOut + 1
            \/ Len(new) = Len(all) + 1 /\ lostOut' = lostOut
        BY <3>5, <3>3, Zenon
      <4> QED
        BY <4>1, <4>2
    <3> QED
      BY <1>5, <3>5, <3>4, Zenon
  <2> QED
    BY <2>3, <2>4
<1>8. CASE Transmit
  <2>1. out' = sent /\ thr' = <<>> /\ tx' = tx /\ UNCHANGED <<pushed, lostOut>>
    BY <1>8 DEF Transmit, Driver
  <2>2. sent \o <<>> = sent
    BY <1>2, ConcatEmptySeq
  <2>3. new = all
    BY <2>1, <2>2 DEF new
  <2> QED
    BY <1>6, <2>1, <2>3
<1>9. CASE TransmitAvailable
  <2>1. out' = out /\ UNCHANGED <<pushed, lostOut>>
    BY <1>9 DEF TransmitAvailable, histVars
  <2>2. CASE thr = <<>> /\ ~rb_noalloc_is_empty(tx)
    <3>1. thr' = <<rb_noalloc_front(tx)>> /\ tx' = rb_noalloc_pop(tx)
      BY <1>9, <2>2 DEF TransmitAvailable
    <3>2. /\ held # <<>> /\ Contents(tx') = Tail(held)
          /\ rb_noalloc_front(tx) = Head(held) /\ Head(held) \in Values
      BY <1>1, <2>2, <3>1, TakeIs
    <3>3. sent = out
      BY <1>1, <2>2, ConcatEmptySeq
    <3> HIDE DEF held, sent
    <3>4. out \o <<Head(held)>> = Append(out, Head(held))
      BY <1>1, <3>2, AppendIsConcat
    <3>5. Append(out, Head(held)) \o Tail(held) = out \o held
      BY <1>1, <1>2, <3>2, HandOver
    <3>6. new = all
      BY <2>1, <3>1, <3>2, <3>3, <3>4, <3>5 DEF new
    <3> QED
      BY <1>6, <2>1, <3>6
  <2>3. CASE UNCHANGED <<thr, tx>>
    <3>1. new = all
      BY <2>1, <2>3 DEF new
    <3> QED
      BY <1>6, <2>1, <3>1
  <2> QED
    BY <1>9, <2>2, <2>3 DEF TransmitAvailable
<1>10. CASE BootRings
  <2>1. tx' = rb_noalloc_init(tx.buf) /\ out' = out /\ thr' = thr
        /\ UNCHANGED <<pushed, lostOut>>
    BY <1>10 DEF BootRings, deviceVars, histVars
  <2>2. tx.len = 0
    <3>1. level = 0 /\ op[0] \in BootOps
      BY <1>10 DEF BootRings, Doing, ControlInv, StackInv, HandlerOps, PutOps, BootOps,
         NoHandlerYet
    <3> QED
      BY <3>1 DEF ControlInv, CountInv
  <2>3. held = <<>> /\ Contents(tx') = <<>>
    BY <1>1, <2>1, <2>2, EmptyContents, InitIs
  <2>4. new = all
    BY <2>1, <2>3 DEF new
  <2> QED
    BY <1>6, <2>1, <2>4
<1>11. CASE \/ BootGuard \/ BootIerOff \/ BootFcr \/ BootHandler \/ BootSource
            \/ BootMask \/ BootIerOn \/ BootDrop \/ BootRest \/ OpenSwitch \/ PutCall
            \/ PutClear \/ PutRead \/ PutWrite \/ PutDrop \/ GetCall \/ GetClear
            \/ GetPop \/ GetDrop \/ ExternalInterrupt \/ TimerInterrupt \/ Dispatch
            \/ Claim \/ ReadIir \/ ReceiveAvailable \/ Complete \/ HandlerReturns
            \/ Return \/ Arrive \/ UNCHANGED vars
  <2>1. UNCHANGED <<out, thr, tx, pushed, lostOut>>
    BY <1>11, Zenon DEF BootGuard, BootIerOff, BootFcr, BootHandler, BootSource,
       BootMask, BootIerOn, BootDrop, BootRest, OpenSwitch, PutCall, PutClear,
       PutRead, PutWrite, PutDrop, GetCall, GetClear, GetPop, GetDrop,
       ExternalInterrupt, TimerInterrupt, Interrupt, Dispatch, Claim, ReadIir,
       ReceiveAvailable, Complete, HandlerReturns, Return, Arrive, vars, Driver,
       deviceVars, histVars
  <2>2. new = all
    BY <2>1 DEF new
  <2> QED
    BY <1>6, <2>1, <2>2
<1> QED
  BY <1>7, <1>8, <1>9, <1>10, <1>11 DEF Next, Proceed, Boot

\* Bytes enter the receive side on the line; the FIFO, its flush and the full
\* ring lose some.
LEMMA RxKeepsOrder ==
  ASSUME ControlInv, RxInv, [Next]_vars PROVE RxInv'
<1> DEFINE held == Contents(rx)
           taken == got \o held
           all == taken \o rbr
           new == (got' \o Contents(rx')) \o rbr'
<1>1. /\ RingOK(rx) /\ got \in Seq(Values) /\ rbr \in Seq(Values)
      /\ arrived \in Nat /\ arrived \in 0..MaxIn /\ lostIn \in Nat
  BY BytesAreValues DEF ControlInv, ShapeInv, BytesShape
<1>2. held \in Seq(Values) /\ taken \in Seq(Values)
  BY <1>1, ContentsIs, ConcatProperties
<1>3. all \in Seq(Values) /\ Len(all) \in Nat
  BY <1>1, <1>2, ConcatProperties, LenProperties
<1>4. Rises(all, arrived) /\ Len(all) + lostIn = arrived
  BY DEF RxInv
<1>5. ASSUME Rises(new, arrived'), Len(new) + lostIn' = arrived' PROVE RxInv'
  BY <1>5 DEF RxInv
<1> HIDE DEF new
<1>6. ASSUME UNCHANGED <<arrived, lostIn>>, new = all PROVE RxInv'
  BY <1>4, <1>5, <1>6
<1>7. CASE Arrive
  <2> DEFINE e == arrived + 1
  <2>0. e = arrived + 1
    OBVIOUS
  <2>1. e \in Values /\ arrived' = e /\ got' = got /\ rx' = rx
    BY <1>1, <1>7, BytesAreValues DEF Arrive, Driver
  <2> HIDE DEF e
  <2>2. new = taken \o rbr'
    BY <2>1 DEF new
  <2> HIDE DEF taken
  <2>3. CASE Len(rbr) < FifoSize
    <3>1. rbr' = Append(rbr, e) /\ lostIn' = lostIn
      BY <1>7, <2>1, <2>3 DEF Arrive
    <3>4. /\ Rises(taken \o Append(rbr, e), e)
          /\ Len(taken \o Append(rbr, e)) = Len(taken \o rbr) + 1
      <4>1. /\ e \in Values /\ arrived \in Nat /\ rbr \in Seq(Values)
            /\ Rises(taken \o rbr, arrived)
        BY <1>1, <1>4, <2>1
      <4> QED
        BY <1>2, <2>0, <4>1, EntersLast, Zenon
    <3>2. Rises(new, arrived') /\ Len(new) = Len(all) + 1
      BY <2>1, <2>2, <3>1, <3>4, Zenon
    <3> HIDE DEF all
    <3>3. Len(new) + lostIn' = arrived'
      <4>1. /\ Len(all) \in Nat /\ lostIn \in Nat /\ arrived \in Nat
            /\ Len(all) + lostIn = arrived /\ arrived' = arrived + 1
        BY <1>1, <1>3, <1>4, <2>0, <2>1, Zenon
      <4>2. \/ Len(new) = Len(all) /\ lostIn' = lostIn + 1
            \/ Len(new) = Len(all) + 1 /\ lostIn' = lostIn
        BY <3>1, <3>2, Zenon
      <4> QED
        BY <4>1, <4>2
    <3> QED
      BY <1>5, <3>2, <3>3, Zenon
  <2>4. CASE ~(Len(rbr) < FifoSize)
    <3>1. rbr' = rbr /\ lostIn' = lostIn + 1
      BY <1>7, <2>4 DEF Arrive
    <3>2. new = all
      BY <2>2, <3>1 DEF taken
    <3> HIDE DEF all
    <3>3. Rises(new, arrived')
      BY <1>1, <1>3, <1>4, <2>0, <2>1, <3>2, RisesBelowMore, Zenon
    <3>4. Len(new) + lostIn' = arrived'
      <4>1. /\ Len(all) \in Nat /\ lostIn \in Nat /\ arrived \in Nat
            /\ Len(all) + lostIn = arrived /\ arrived' = arrived + 1
        BY <1>1, <1>3, <1>4, <2>0, <2>1, Zenon
      <4>2. \/ Len(new) = Len(all) /\ lostIn' = lostIn + 1
            \/ Len(new) = Len(all) + 1 /\ lostIn' = lostIn
        BY <3>1, <3>2, Zenon
      <4> QED
        BY <4>1, <4>2
    <3> QED
      BY <1>5, <3>3, <3>4, Zenon
  <2> QED
    BY <2>3, <2>4
<1>8. CASE ReceiveAvailable
  <2>1. got' = got /\ arrived' = arrived
    BY <1>8 DEF ReceiveAvailable
  <2>2. CASE rbr # <<>>
    <3>1. Head(rbr) \in Values
      BY <1>1, <2>2
    <3>2. rx' = rb_noalloc_push(rx, Head(rbr)) /\ rbr' = Tail(rbr)
      BY <1>8, <2>2 DEF ReceiveAvailable
    <3>3. CASE rb_noalloc_is_full(rx)
      <4>1. Contents(rx') = Append(Tail(held), Head(rbr)) /\ held # <<>>
        BY <1>1, <3>1, <3>2, <3>3, PushIs
      <4>2. lostIn' = lostIn + 1
        BY <1>8, <2>2, <3>3 DEF ReceiveAvailable
      <4>3. new = (got \o Append(Tail(held), Head(rbr))) \o Tail(rbr)
        BY <2>1, <3>2, <4>1 DEF new
      <4> HIDE DEF held
      <4>4. Rises(new, arrived) /\ Len(new) = Len(all) - 1
        BY <1>1, <1>2, <1>4, <2>2, <4>1, <4>3, MovesOnFull
      <4> HIDE DEF all
      <4>5. Rises(new, arrived')
        BY <2>1, <4>4, Zenon
      <4>6. Len(new) + lostIn' = arrived'
        <5>1. /\ Len(all) \in Nat /\ lostIn \in Nat /\ Len(all) + lostIn = arrived
              /\ arrived' = arrived /\ Len(new) = Len(all) - 1
          BY <1>1, <1>3, <1>4, <2>1, <4>4, Zenon
        <5> QED
          BY <4>2, <5>1
      <4> QED
        BY <1>5, <4>5, <4>6, Zenon
    <3>4. CASE ~rb_noalloc_is_full(rx)
      <4>1. Contents(rx') = Append(held, Head(rbr))
        BY <1>1, <3>1, <3>2, <3>4, PushIs
      <4>2. lostIn' = lostIn
        BY <1>8, <2>2, <3>4 DEF ReceiveAvailable
      <4>3. new = (got \o Append(held, Head(rbr))) \o Tail(rbr)
        BY <2>1, <3>2, <4>1 DEF new
      <4> HIDE DEF held
      <4>4. new = all
        BY <1>1, <1>2, <2>2, <4>3, MovesOn
      <4> QED
        BY <1>6, <2>1, <4>2, <4>4
    <3> QED
      BY <3>3, <3>4
  <2>3. CASE rbr = <<>>
    <3>1. UNCHANGED <<rx, rbr, lostIn>>
      BY <1>8, <2>3 DEF ReceiveAvailable
    <3>2. new = all
      BY <2>1, <3>1 DEF new
    <3> QED
      BY <1>6, <2>1, <3>1, <3>2
  <2> QED
    BY <2>2, <2>3
<1>9. CASE GetPop
  <2>1. rbr' = rbr /\ UNCHANGED <<arrived, lostIn>>
    BY <1>9 DEF GetPop, deviceVars
  <2>2. CASE ~rb_noalloc_is_empty(rx)
    <3>1. got' = Append(got, rb_noalloc_front(rx)) /\ rx' = rb_noalloc_pop(rx)
      BY <1>9, <2>2 DEF GetPop
    <3>2. /\ held # <<>> /\ Contents(rx') = Tail(held)
          /\ rb_noalloc_front(rx) = Head(held)
      BY <1>1, <2>2, <3>1, TakeIs
    <3>3. new = (Append(got, Head(held)) \o Tail(held)) \o rbr
      BY <2>1, <3>1, <3>2 DEF new
    <3> HIDE DEF held
    <3>4. Append(got, Head(held)) \o Tail(held) = taken
      BY <1>1, <1>2, <3>2, HandOver
    <3> QED
      BY <1>6, <2>1, <3>3, <3>4
  <2>3. CASE rb_noalloc_is_empty(rx)
    <3>1. got' = got /\ rx' = rx
      BY <1>9, <2>3 DEF GetPop
    <3>2. new = all
      BY <2>1, <3>1 DEF new
    <3> QED
      BY <1>6, <2>1, <3>2
  <2> QED
    BY <2>2, <2>3
<1>10. CASE BootRings
  <2>1. rx' = rb_noalloc_init(rx.buf) /\ got' = got /\ rbr' = rbr
        /\ UNCHANGED <<arrived, lostIn>>
    BY <1>10 DEF BootRings, deviceVars, histVars
  <2>2. rx.len = 0
    <3>1. level = 0 /\ op[0] \in BootOps
      BY <1>10 DEF BootRings, Doing, ControlInv, StackInv, HandlerOps, PutOps, BootOps,
         NoHandlerYet
    <3> QED
      BY <3>1 DEF ControlInv, CountInv
  <2>3. held = <<>> /\ Contents(rx') = <<>>
    BY <1>1, <2>1, <2>2, EmptyContents, InitIs
  <2>4. new = all
    BY <2>1, <2>3 DEF new
  <2> QED
    BY <1>6, <2>1, <2>4
<1>11. CASE BootFcr
  <2>1. rbr' = <<>> /\ lostIn' = lostIn + Len(rbr) /\ arrived' = arrived
        /\ got' = got /\ rx' = rx
    BY <1>11 DEF BootFcr, Driver
  <2>2. new = taken \o <<>>
    BY <2>1 DEF new
  <2> HIDE DEF taken
  <2>3. new = taken
    BY <1>2, <2>2, ConcatEmptySeq
  <2>4. Rises(taken, arrived)
    BY <1>1, <1>2, <1>4, RisesPrefix
  <2>5. Len(all) = Len(taken) + Len(rbr) /\ Len(taken) \in Nat /\ Len(rbr) \in Nat
    BY <1>1, <1>2, ConcatProperties, LenProperties
  <2> HIDE DEF all
  <2> QED
    BY <1>1, <1>4, <1>5, <2>1, <2>3, <2>4, <2>5
<1>12. CASE \/ BootGuard \/ BootIerOff \/ BootHandler \/ BootSource \/ BootMask
            \/ BootIerOn \/ BootDrop \/ BootRest \/ OpenSwitch \/ PutCall \/ PutClear
            \/ PutPush \/ PutRead \/ PutWrite \/ PutDrop \/ GetCall \/ GetClear
            \/ GetDrop \/ ExternalInterrupt \/ TimerInterrupt \/ Dispatch \/ Claim
            \/ ReadIir \/ TransmitAvailable \/ Complete \/ HandlerReturns \/ Return
            \/ Transmit \/ UNCHANGED vars
  <2>1. UNCHANGED <<got, rx, rbr, arrived, lostIn>>
    BY <1>12, Zenon DEF BootGuard, BootIerOff, BootHandler, BootSource, BootMask,
       BootIerOn, BootDrop, BootRest, OpenSwitch, PutCall, PutClear, PutPush,
       PutRead, PutWrite, PutDrop, GetCall, GetClear, GetDrop, ExternalInterrupt,
       TimerInterrupt, Interrupt, Dispatch, Claim, ReadIir, TransmitAvailable,
       Complete, HandlerReturns, Return, Transmit, vars, Driver, deviceVars, histVars
  <2>2. new = all
    BY <2>1 DEF new
  <2> QED
    BY <1>6, <2>1, <2>2
<1> QED
  BY <1>7, <1>8, <1>9, <1>10, <1>11, <1>12 DEF Next, Proceed, Boot

-------------------------------------------------------------------------------
(* The invariant of the specification                                      *)

LEMMA NothingInOrder == <<>> \o <<>> \o <<>> = <<>> /\ Rises(<<>>, 0)
BY DEF Rises

LEMMA UartInit == Init => UartInv
<1> SUFFICES ASSUME Init PROVE UartInv
  OBVIOUS
<1>1. ControlInv
  BY UartInitInv
<1>2. Contents(rx) = <<>> /\ Contents(tx) = <<>>
  <2>1. rx.len = 0 /\ tx.len = 0
    BY DEF Init, rb_noalloc_init
  <2>2. RingOK(rx) /\ RingOK(tx)
    BY <1>1 DEF ControlInv, ShapeInv, BytesShape
  <2> QED
    BY <2>1, <2>2, EmptyContents
<1>3. /\ out = <<>> /\ thr = <<>> /\ got = <<>> /\ rbr = <<>>
      /\ pushed = 0 /\ arrived = 0 /\ lostOut = 0 /\ lostIn = 0
  BY DEF Init
<1>4. out \o thr \o Contents(tx) = <<>> /\ got \o Contents(rx) \o rbr = <<>>
  BY <1>2, <1>3
<1>5. Len(<<>>) + 0 = 0
  OBVIOUS
<1>6. TxInv /\ RxInv
  BY <1>3, <1>4, <1>5, NothingInOrder, Zenon DEF TxInv, RxInv
<1> QED
  BY <1>1, <1>6 DEF UartInv

LEMMA ControlStep == ASSUME ControlInv, [Next]_vars PROVE ControlInv'
<1>1. Places'
  BY BootKeepsPlaces, PutKeepsPlaces, GetKeepsPlaces, TrapKeepsPlaces,
     IsrKeepsPlaces, LineKeepsPlaces, StutterKeepsPlaces DEF Next, Proceed, Boot
<1>2. ShapeInv'
  BY CpuKeepsShape, CodeKeepsShape, FlagsKeepShape, BytesKeepShape DEF ShapeInv
<1> QED
  BY <1>1, <1>2 DEF ControlInv, Places

LEMMA UartStep == ASSUME UartInv, [Next]_vars PROVE UartInv'
BY ControlStep, TxKeepsOrder, RxKeepsOrder DEF UartInv

LEMMA UartInvariance == Spec => []UartInv
<1>1. Init => UartInv
  BY UartInit
<1>2. UartInv /\ [Next]_vars => UartInv'
  BY UartStep
<1> QED
  BY <1>1, <1>2, PTL DEF Spec

-------------------------------------------------------------------------------
(* The theorems                                                            *)

\* Types: the rings stay in bounds, the registers and the program counters
\* within their sets, whatever the capacity and the traffic.
THEOREM UartTypesHold == Spec => []TypeOK
<1>1. UartInv => TypeOK
  BY DEF UartInv, ControlInv, ShapeInv, CpuShape, CodeShape, FlagShape,
     BytesShape, TypeOK
<1> QED
  BY <1>1, UartInvariance, PTL

\* trap_dispatch and trap_external_dispatch (trap/src/lib.rs) never reach
\* trap_unhandled: a handler is in its table before its class is unmasked,
\* and the request that brought the hart in is still there to be claimed.
THEOREM EveryTrapIsHandled == Spec => []NoUnhandledTrap
<1>1. UartInv => NoUnhandledTrap
  <2> SUFFICES ASSUME ControlInv, NEW c \in Contexts PROVE pc[c] # "panic"
    BY DEF UartInv, NoUnhandledTrap
  <2>1. c \in Nat /\ level \in {0, 1}
    BY MaxLevelAssumption DEF Contexts, ControlInv, StackInv
  <2> QED
    BY <2>1 DEF ControlInv, StackInv
<1> QED
  BY <1>1, UartInvariance, PTL

\* GlobalIrqGuard of uart_interupt/src/lib.rs: whoever is between its clear
\* of SIE and its drop is the context that runs.
THEOREM GuardSerialises == Spec => []Serialised
<1>1. UartInv => Serialised
  <2> SUFFICES ASSUME ControlInv, NEW c \in Contexts, op[c] \in InsideGuard
               PROVE  c = level
    BY DEF UartInv, Serialised
  <2>1. c \in Nat /\ level \in {0, 1}
    BY MaxLevelAssumption DEF Contexts, ControlInv, StackInv
  <2> QED
    BY <2>1 DEF ControlInv, StackInv, InsideGuard, Interruptible
<1> QED
  BY <1>1, UartInvariance, PTL

\* A sequence that rises is Increasing.
LEMMA RisingIncreases ==
  ASSUME NEW s \in Seq(Values), NEW n \in Nat, Rises(s, n) PROVE Increasing(s)
<1> SUFFICES ASSUME NEW i \in 1..Len(s) - 1 PROVE s[i] < s[i + 1]
  BY DEF Increasing
<1>1. i \in 1..Len(s) /\ i + 1 \in 1..Len(s) /\ i < i + 1
  BY LenProperties
<1> QED
  BY <1>1 DEF Rises

\* raw_putc, the ring and transmit_available: the line carries the bytes in
\* the order of the calls, and misses exactly those a full ring overwrote.
THEOREM TransmitsInOrder == Spec => []TxInOrder
<1>1. UartInv => TxInOrder
  <2> SUFFICES ASSUME ControlInv, TxInv PROVE TxInOrder
    BY DEF UartInv
  <2> DEFINE all == out \o thr \o Contents(tx)
  <2>1. all \in Seq(Values) /\ pushed \in Nat
    <3>1. /\ RingOK(tx) /\ out \in Seq(Values) /\ thr \in Seq(Values)
          /\ pushed \in Nat
      BY BytesAreValues DEF ControlInv, ShapeInv, BytesShape
    <3> QED
      BY <3>1, ContentsIs, ConcatProperties
  <2>2. Rises(all, pushed) /\ Len(all) + lostOut = pushed
    BY DEF TxInv
  <2>3. Increasing(all)
    <3> HIDE DEF all
    <3> QED
      BY <2>1, <2>2, RisingIncreases
  <2> QED
    BY <2>2, <2>3 DEF TxInOrder
<1> QED
  BY <1>1, UartInvariance, PTL

\* receive_available, the ring and raw_getc: the application reads the bytes
\* in the order of arrival, and misses exactly those the FIFO lost, the
\* flush of uart_interupt_init dropped or a full ring overwrote.
THEOREM ReceivesInOrder == Spec => []RxInOrder
<1>1. UartInv => RxInOrder
  <2> SUFFICES ASSUME ControlInv, RxInv PROVE RxInOrder
    BY DEF UartInv
  <2> DEFINE all == got \o Contents(rx) \o rbr
  <2>1. all \in Seq(Values) /\ arrived \in Nat
    <3>1. /\ RingOK(rx) /\ got \in Seq(Values) /\ rbr \in Seq(Values)
          /\ arrived \in Nat
      BY BytesAreValues DEF ControlInv, ShapeInv, BytesShape
    <3> QED
      BY <3>1, ContentsIs, ConcatProperties
  <2>2. Rises(all, arrived) /\ Len(all) + lostIn = arrived
    BY DEF RxInv
  <2>3. Increasing(all)
    <3> HIDE DEF all
    <3> QED
      BY <2>1, <2>2, RisingIncreases
  <2> QED
    BY <2>2, <2>3 DEF RxInOrder
<1> QED
  BY <1>1, UartInvariance, PTL
=============================================================================
