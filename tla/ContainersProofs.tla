--------------------------- MODULE ContainersProofs ---------------------------
(***************************************************************************)
(* For any elements, keys, hashes, capacities and offers: the sequence     *)
(* containers keep the promise of SequenceSpec and the tables that of      *)
(* MapSpec, the list is whole, the keys of a table are found, and every    *)
(* container owns its objects once.  For any elements, ranks and limit on  *)
(* the storage: the array of the binary heap is a heap between two calls,  *)
(* and its operations keep the promise of PriorityQueueSpec.               *)
(***************************************************************************)
EXTENDS Containers, BinaryHeap, RawBufProofs

(* The vector *)

Slot == Elements \cup {Blank}

BufferOf(b, S) ==
  /\ IsBuffer(b) /\ CapOf(b) <= MaxCapacity
  /\ \A i \in 0..CapOf(b) - 1 : b[i] \in S

LEMMA NewBuffer == ASSUME NEW S PROVE BufferOf(raw_buf_new, S) /\ CapOf(raw_buf_new) = 0
<1> DEFINE b == raw_buf_new
<1>1. b = [i \in 0..0 - 1 |-> b[i]]
  BY DEF raw_buf_new
<1>2. IsBuffer(b) /\ CapOf(b) = 0
  <2> HIDE DEF b
  <2> QED
    BY <1>1, BufferIs
<1> QED
  BY <1>2, RawBufAssumption DEF BufferOf

\* The slots in use, among them what the vector holds.
VecShape(v) ==
  /\ v = [buf |-> v.buf, size |-> v.size]
  /\ BufferOf(v.buf, Slot)
  /\ v.size \in Nat /\ v.size <= CapOf(v.buf)
  /\ \A i \in 0..v.size - 1 : v.buf[i] \in Elements

LEMMA VecContentsAre ==
  ASSUME NEW v, VecShape(v)
  PROVE  /\ VecContents(v) \in Seq(Elements) /\ Len(VecContents(v)) = v.size
         /\ DOMAIN VecContents(v) = 1..v.size
         /\ \A j \in 1..v.size : VecContents(v)[j] = v.buf[j - 1]
<1> DEFINE t == VecContents(v)
<1>1. t = [j \in 1..v.size |-> v.buf[j - 1]] /\ v.size \in Nat
  BY DEF VecContents, VecShape
<1> HIDE DEF t
<1>2. \A j \in 1..v.size : t[j] = v.buf[j - 1] /\ t[j] \in Elements
  <2>1. \A j \in 1..v.size : t[j] = v.buf[j - 1] /\ j - 1 \in 0..v.size - 1
    BY <1>1
  <2> QED
    BY <2>1 DEF VecShape
<1>3. t \in [1..v.size -> Elements]
  BY <1>1, <1>2
<1>4. t \in Seq(Elements) /\ Len(t) = v.size /\ DOMAIN t = 1..v.size
  BY <1>1, <1>3, MadeSequence, Zenon
<1> QED
  BY <1>2, <1>4 DEF t

LEMMA NewVec == VecShape(vec_new) /\ VecContents(vec_new) = <<>>
<1>1. vec_new = [buf |-> raw_buf_new, size |-> 0]
  BY DEF vec_new
<1>2. VecShape(vec_new)
  BY <1>1, NewBuffer DEF VecShape
<1>3. VecContents(vec_new) \in Seq(Elements) /\ Len(VecContents(vec_new)) = 0
  BY <1>1, <1>2, VecContentsAre
<1> QED
  BY <1>2, <1>3

LEMMA VecReserveIs ==
  ASSUME NEW v, VecShape(v), NEW n \in Nat, NEW r \in vec_reserve(v, n)
  PROVE  /\ r.ok \in BOOLEAN /\ r.gone = {} /\ VecShape(r.c)
         /\ r = [ok |-> r.ok, c |-> r.c, gone |-> {}]
         /\ r.c.size = v.size /\ VecContents(r.c) = VecContents(v)
         /\ r.ok => CapOf(r.c.buf) >= v.size + n
         /\ \A i \in 0..v.size - 1 : r.c.buf[i] = v.buf[i]
<1>1. PICK s \in Reserved(v.buf, v.size + n) :
        r = [ok |-> s.ok, c |-> [v EXCEPT !.buf = s.buf], gone |-> {}]
  BY DEF vec_reserve
<1>2. /\ v = [buf |-> v.buf, size |-> v.size] /\ IsBuffer(v.buf)
      /\ CapOf(v.buf) <= MaxCapacity
      /\ \A i \in 0..CapOf(v.buf) - 1 : v.buf[i] \in Slot
      /\ v.size \in Nat /\ v.size <= CapOf(v.buf)
      /\ \A i \in 0..v.size - 1 : v.buf[i] \in Elements
  BY DEF VecShape, BufferOf
<1>3. v.size + n \in Nat /\ CapOf(v.buf) \in Nat /\ MaxCapacity \in Nat
  BY <1>2, CapIs, RawBufAssumption
<1>4. /\ s.ok \in BOOLEAN /\ IsBuffer(s.buf)
      /\ ~s.ok => s.buf = v.buf
      /\ s.ok => CapOf(s.buf) >= v.size + n
      /\ CapOf(s.buf) >= CapOf(v.buf)
      /\ \A i \in 0..CapOf(v.buf) - 1 : s.buf[i] = v.buf[i]
      /\ \A i \in CapOf(v.buf)..CapOf(s.buf) - 1 : s.buf[i] = Blank
      /\ CapOf(s.buf) > CapOf(v.buf) => CapOf(s.buf) <= MaxCapacity
  BY <1>2, <1>3, ReservedIs
<1>5. CapOf(s.buf) \in Nat
  BY <1>4, CapIs
<1>6. r.c = [buf |-> s.buf, size |-> v.size] /\ r.ok = s.ok /\ r.gone = {}
  BY <1>1, <1>2
<1>7. BufferOf(s.buf, Slot)
  <2>1. CapOf(s.buf) <= MaxCapacity
    BY <1>2, <1>3, <1>4, <1>5
  <2>2. ASSUME NEW i \in 0..CapOf(s.buf) - 1 PROVE s.buf[i] \in Slot
    <3>1. CASE i < CapOf(v.buf)
      BY <1>2, <1>3, <1>4, <3>1
    <3>2. CASE i >= CapOf(v.buf)
      BY <1>3, <1>4, <1>5, <3>2 DEF Slot
    <3> QED
      BY <1>3, <3>1, <3>2
  <2> QED
    BY <1>4, <2>1, <2>2 DEF BufferOf
<1>8. \A i \in 0..v.size - 1 : s.buf[i] = v.buf[i]
  BY <1>2, <1>3, <1>4
<1>9. VecShape(r.c)
  BY <1>2, <1>3, <1>4, <1>5, <1>6, <1>7, <1>8 DEF VecShape
<1>10. VecContents(r.c) = VecContents(v)
  BY <1>2, <1>6, <1>8 DEF VecContents
<1> QED
  BY <1>1, <1>4, <1>6, <1>8, <1>9, <1>10
\* memmove inside a buffer.
IsShifted(d, b, to, from, n, S) ==
  /\ BufferOf(d, S) /\ CapOf(d) = CapOf(b)
  /\ \A j \in 0..CapOf(b) - 1 :
       d[j] = IF j >= to /\ j < to + n THEN b[j - to + from] ELSE b[j]

LEMMA ShiftIs ==
  ASSUME NEW b, NEW S, BufferOf(b, S), NEW to \in Nat, NEW from \in Nat, NEW n \in Nat,
         from + n <= CapOf(b)
  PROVE  IsShifted(Shifted(b, to, from, n), b, to, from, n, S)
<1> DEFINE d == Shifted(b, to, from, n)
<1>1. CapOf(b) \in Nat /\ DOMAIN b = 0..CapOf(b) - 1 /\ CapOf(b) <= MaxCapacity
      /\ \A j \in 0..CapOf(b) - 1 : b[j] \in S
  BY CapIs DEF BufferOf
<1>2. d = [j \in 0..CapOf(b) - 1 |->
            IF j \in to..to + n - 1 THEN b[j - to + from] ELSE b[j]]
  BY <1>1 DEF Shifted
<1> HIDE DEF d
<1>3. d = [j \in 0..CapOf(b) - 1 |-> d[j]]
  BY <1>2
<1>4. IsBuffer(d) /\ CapOf(d) = CapOf(b)
  BY <1>1, <1>3, BufferIs
<1>5. ASSUME NEW j \in 0..CapOf(b) - 1
      PROVE  /\ d[j] = IF j >= to /\ j < to + n THEN b[j - to + from] ELSE b[j]
             /\ d[j] \in S
  <2>1. j \in to..to + n - 1 <=> j >= to /\ j < to + n
    BY <1>1
  <2>2. j >= to /\ j < to + n => j - to + from \in 0..CapOf(b) - 1
    BY <1>1
  <2> QED
    BY <1>1, <1>2, <2>1, <2>2
<1>6. BufferOf(d, S)
  BY <1>1, <1>4, <1>5 DEF BufferOf
<1> QED
  BY <1>4, <1>5, <1>6 DEF d, IsShifted

\* A write of one slot.
Written(b, i, e) == [b EXCEPT ![i] = e]

IsWritten(d, b, i, e, S) ==
  /\ BufferOf(d, S) /\ CapOf(d) = CapOf(b)
  /\ \A j \in 0..CapOf(b) - 1 : d[j] = IF j = i THEN e ELSE b[j]

LEMMA WriteIs ==
  ASSUME NEW b, NEW S, BufferOf(b, S), NEW i, NEW e \in S
  PROVE  IsWritten(Written(b, i, e), b, i, e, S)
<1> DEFINE d == Written(b, i, e)
<1>1. CapOf(b) \in Nat /\ DOMAIN b = 0..CapOf(b) - 1 /\ CapOf(b) <= MaxCapacity
      /\ \A j \in 0..CapOf(b) - 1 : b[j] \in S
  BY CapIs DEF BufferOf
<1>2. /\ d = [j \in 0..CapOf(b) - 1 |-> d[j]]
      /\ \A j \in 0..CapOf(b) - 1 : d[j] = IF j = i THEN e ELSE b[j]
  BY <1>1 DEF Written
<1> HIDE DEF d
<1>3. IsBuffer(d) /\ CapOf(d) = CapOf(b)
  BY <1>1, <1>2, BufferIs
<1>4. BufferOf(d, S)
  BY <1>1, <1>2, <1>3 DEF BufferOf
<1> QED
  BY <1>2, <1>3, <1>4 DEF d, IsWritten

LEMMA VecFacts ==
  ASSUME NEW v, VecShape(v)
  PROVE  /\ v = [buf |-> v.buf, size |-> v.size] /\ BufferOf(v.buf, Slot)
         /\ v.size \in Nat /\ v.size <= CapOf(v.buf) /\ CapOf(v.buf) \in Nat
         /\ \A i \in 0..v.size - 1 : v.buf[i] \in Elements
         /\ Blank \in Slot /\ \A e \in Elements : e \in Slot
<1>1. v = [buf |-> v.buf, size |-> v.size] /\ BufferOf(v.buf, Slot)
      /\ v.size \in Nat /\ v.size <= CapOf(v.buf)
      /\ \A i \in 0..v.size - 1 : v.buf[i] \in Elements
  BY DEF VecShape
<1>2. CapOf(v.buf) \in Nat
  BY <1>1, CapIs DEF BufferOf
<1> QED
  BY <1>1, <1>2 DEF Slot

LEMMA VecInsertIs ==
  ASSUME NEW v, VecShape(v), NEW i \in 0..v.size, NEW e \in Elements,
         NEW r \in vec_insert(v, i, e)
  PROVE  /\ r.ok \in BOOLEAN /\ r.gone = {} /\ VecShape(r.c)
         /\ ~r.ok => VecContents(r.c) = VecContents(v)
         /\ r.ok => VecContents(r.c) = Splice(VecContents(v), i, 0, <<e>>)
<1>1. PICK s \in vec_reserve(v, 1) :
        r = IF s.ok
            THEN [s EXCEPT !.c.buf = [Shifted(@, i + 1, i, v.size - i) EXCEPT ![i] = e],
                           !.c.size = @ + 1]
            ELSE s
  BY Zenon DEF vec_insert
<1>2. /\ s.ok \in BOOLEAN /\ s.gone = {} /\ VecShape(s.c)
      /\ s = [ok |-> s.ok, c |-> s.c, gone |-> {}]
      /\ s.c.size = v.size /\ VecContents(s.c) = VecContents(v)
      /\ s.ok => CapOf(s.c.buf) >= v.size + 1
      /\ \A j \in 0..v.size - 1 : s.c.buf[j] = v.buf[j]
  BY VecReserveIs
<1>3. CASE ~s.ok
  BY <1>1, <1>2, <1>3
<1>4. CASE s.ok
  <2> DEFINE w == s.c
             moved == Shifted(w.buf, i + 1, i, v.size - i)
             b == [moved EXCEPT ![i] = e]
  <2>1. r = [ok |-> TRUE, c |-> [buf |-> b, size |-> v.size + 1], gone |-> {}]
    <3>1. w = [buf |-> w.buf, size |-> w.size] /\ w.size = v.size
      BY <1>2, VecFacts
    <3> QED
      BY <1>1, <1>2, <1>4, <3>1
  <2>2. /\ VecShape(w) /\ BufferOf(w.buf, Slot) /\ CapOf(w.buf) \in Nat
        /\ w.size = v.size /\ v.size \in Nat /\ CapOf(w.buf) >= v.size + 1
        /\ \A j \in 0..v.size - 1 : w.buf[j] \in Elements /\ w.buf[j] = v.buf[j]
        /\ e \in Slot
    BY <1>2, <1>4, VecFacts
  <2> HIDE DEF w
  <2>3. IsShifted(moved, w.buf, i + 1, i, v.size - i, Slot)
    <3>1. /\ i + 1 \in Nat /\ i \in Nat /\ v.size - i \in Nat
          /\ i + (v.size - i) <= CapOf(w.buf)
      BY <2>2
    <3> QED
      BY <2>2, <3>1, ShiftIs
  <2>4. IsWritten(b, moved, i, e, Slot)
    <3>1. BufferOf(moved, Slot)
      BY <2>3 DEF IsShifted
    <3> HIDE DEF moved
    <3> QED
      BY <2>2, <3>1, WriteIs DEF Written
  <2> HIDE DEF moved, b
  <2>5. ASSUME NEW j \in 0..v.size
        PROVE  b[j] = IF j < i THEN w.buf[j] ELSE IF j = i THEN e ELSE w.buf[j - 1]
    <3>1. j \in 0..CapOf(w.buf) - 1
      BY <2>2
    <3>2. moved[j] = IF j >= i + 1 THEN w.buf[j - 1] ELSE w.buf[j]
      <4>1. j - (i + 1) + i = j - 1 /\ j < i + 1 + (v.size - i)
        BY <2>2
      <4> QED
        BY <2>3, <3>1, <4>1 DEF IsShifted
    <3> QED
      BY <2>2, <2>3, <2>4, <3>1, <3>2 DEF IsShifted, IsWritten
  <2>6. ASSUME NEW j \in 0..v.size PROVE b[j] \in Elements
    <3>1. j < i => j \in 0..v.size - 1
      BY <2>2
    <3>2. j > i => j - 1 \in 0..v.size - 1
      BY <2>2
    <3> QED
      BY <2>2, <2>5, <3>1, <3>2
  <2>7. r.ok = TRUE /\ r.gone = {} /\ r.c.buf = b /\ r.c.size = v.size + 1
        /\ r.c = [buf |-> r.c.buf, size |-> r.c.size]
    BY <2>1
  <2>8. VecShape(r.c)
    <3>1. r.c.size \in Nat /\ r.c.size <= CapOf(r.c.buf)
      BY <2>2, <2>3, <2>4, <2>7 DEF IsShifted, IsWritten
    <3>2. \A j \in 0..r.c.size - 1 : r.c.buf[j] \in Elements
      BY <2>2, <2>6, <2>7
    <3> QED
      BY <2>4, <2>7, <3>1, <3>2 DEF VecShape, IsWritten
  <2> DEFINE s0 == VecContents(v)
             s1 == VecContents(r.c)
  <2>9. /\ s0 \in Seq(Elements) /\ Len(s0) = v.size
        /\ \A j \in 1..v.size : s0[j] = v.buf[j - 1]
    BY VecContentsAre
  <2>10. /\ s1 \in Seq(Elements) /\ Len(s1) = v.size + 1
         /\ \A j \in 1..v.size + 1 : s1[j] = b[j - 1]
    BY <2>7, <2>8, VecContentsAre
  <2> HIDE DEF s0, s1
  <2>11. ASSUME NEW j \in 1..Len(s1)
         PROVE  s1[j] = IF j <= i THEN s0[j] ELSE IF j = i + 1 THEN e ELSE s0[j - 1]
    <3>1. j - 1 \in 0..v.size /\ s1[j] = b[j - 1]
      BY <2>2, <2>10
    <3>2. CASE j <= i
      <4>1. j \in 1..v.size /\ j - 1 \in 0..v.size - 1 /\ j - 1 < i
        BY <2>2, <3>2
      <4> QED
        BY <2>2, <2>5, <2>9, <3>1, <3>2, <4>1
    <3>3. CASE j = i + 1
      BY <2>5, <3>1, <3>3
    <3>4. CASE j > i + 1
      <4>1. j - 1 \in 1..v.size /\ j - 1 - 1 \in 0..v.size - 1 /\ ~(j - 1 < i) /\ j - 1 # i
            /\ ~(j <= i) /\ j # i + 1
        BY <2>2, <2>10, <3>4
      <4>2. b[j - 1] = w.buf[j - 1 - 1]
        BY <2>5, <3>1, <4>1
      <4>3. w.buf[j - 1 - 1] = v.buf[j - 1 - 1]
        BY <2>2, <4>1
      <4>4. s0[j - 1] = v.buf[j - 1 - 1]
        BY <2>9, <4>1
      <4> QED
        BY <3>1, <4>1, <4>2, <4>3, <4>4
    <3> QED
      BY <2>2, <2>10, <3>2, <3>3, <3>4
  <2>12. s1 = Splice(s0, i, 0, <<e>>)
    <3>1. i \in 0..Len(s0) /\ Len(s1) = Len(s0) + 1
      BY <2>9, <2>10
    <3> QED
      BY <2>9, <2>10, <2>11, <3>1, IsAdded
  <2> QED
    BY <2>7, <2>8, <2>12 DEF s0, s1
<1> QED
  BY <1>2, <1>3, <1>4
LEMMA VecMade ==
  ASSUME NEW b, BufferOf(b, Slot), NEW n \in Nat, n <= CapOf(b),
         \A j \in 0..n - 1 : b[j] \in Elements,
         NEW x, x = [buf |-> b, size |-> n]
  PROVE  /\ VecShape(x) /\ VecContents(x) \in Seq(Elements) /\ Len(VecContents(x)) = n
         /\ \A j \in 1..n : VecContents(x)[j] = b[j - 1]
<1>1. x.buf = b /\ x.size = n /\ x = [buf |-> x.buf, size |-> x.size]
  OBVIOUS
<1>2. VecShape(x)
  BY <1>1 DEF VecShape
<1> QED
  BY <1>1, <1>2, VecContentsAre

LEMMA VecSetIs ==
  ASSUME NEW v, VecShape(v), NEW i \in 0..v.size - 1, NEW e \in Elements,
         NEW r \in vec_set(v, i, e)
  PROVE  /\ r.ok = TRUE /\ r.gone = {VecContents(v)[i + 1]} /\ VecShape(r.c)
         /\ VecContents(r.c) = Splice(VecContents(v), i, 1, <<e>>)
<1> DEFINE b == Written(v.buf, i, e)
           s0 == VecContents(v)
           s1 == VecContents(r.c)
<1>1. /\ v = [buf |-> v.buf, size |-> v.size] /\ BufferOf(v.buf, Slot)
      /\ v.size \in Nat /\ v.size <= CapOf(v.buf) /\ CapOf(v.buf) \in Nat
      /\ \A j \in 0..v.size - 1 : v.buf[j] \in Elements
      /\ Blank \in Slot /\ e \in Slot
  BY VecFacts
<1>2. r = [ok |-> TRUE, c |-> [buf |-> b, size |-> v.size], gone |-> {v.buf[i]}]
  BY <1>1 DEF vec_set, Written
<1>3. IsWritten(b, v.buf, i, e, Slot)
  BY <1>1, WriteIs
<1>4. r.ok = TRUE /\ r.c = [buf |-> b, size |-> v.size] /\ r.gone = {v.buf[i]}
  BY <1>2
<1> HIDE DEF b
<1>5. /\ BufferOf(b, Slot) /\ CapOf(b) = CapOf(v.buf)
      /\ \A j \in 0..CapOf(v.buf) - 1 : b[j] = IF j = i THEN e ELSE v.buf[j]
  BY <1>3 DEF IsWritten
<1>6. \A j \in 0..v.size - 1 : b[j] \in Elements /\ b[j] = IF j = i THEN e ELSE v.buf[j]
  BY <1>1, <1>5
<1>7. /\ VecShape(r.c) /\ s1 \in Seq(Elements) /\ Len(s1) = v.size
      /\ \A j \in 1..v.size : s1[j] = b[j - 1]
  BY <1>1, <1>4, <1>5, <1>6, VecMade
<1>8. /\ s0 \in Seq(Elements) /\ Len(s0) = v.size
      /\ \A j \in 1..v.size : s0[j] = v.buf[j - 1]
  BY VecContentsAre
<1> HIDE DEF s0, s1
<1>9. ASSUME NEW j \in 1..Len(s1)
      PROVE  s1[j] = IF j = i + 1 THEN e ELSE s0[j]
  <2>1. j \in 1..v.size /\ j - 1 \in 0..v.size - 1
    BY <1>1, <1>7
  <2>2. s1[j] = b[j - 1] /\ s0[j] = v.buf[j - 1]
    BY <1>7, <1>8, <2>1
  <2>3. j = i + 1 => j - 1 = i
    BY <2>1
  <2>4. j # i + 1 => j - 1 # i
    BY <2>1
  <2> QED
    BY <1>6, <2>1, <2>2, <2>3, <2>4
<1>10. s1 = Splice(s0, i, 1, <<e>>)
  <2>1. i \in 0..Len(s0) - 1 /\ Len(s1) = Len(s0)
    BY <1>7, <1>8
  <2> QED
    BY <1>7, <1>8, <1>9, <2>1, IsPut
<1>11. s0[i + 1] = v.buf[i]
  <2>1. i + 1 \in 1..v.size /\ i + 1 - 1 = i
    BY <1>1
  <2> QED
    BY <1>8, <2>1
<1> QED
  BY <1>4, <1>7, <1>10, <1>11 DEF s0, s1

LEMMA VecPopIs ==
  ASSUME NEW v, VecShape(v), v.size > 0, NEW r \in vec_pop(v)
  PROVE  /\ r.ok = TRUE /\ r.gone = {VecContents(v)[v.size]} /\ VecShape(r.c)
         /\ r.c.size = v.size - 1
         /\ VecContents(r.c) = Splice(VecContents(v), v.size - 1, 1, <<>>)
<1> DEFINE b == Written(v.buf, v.size - 1, Blank)
           s0 == VecContents(v)
           s1 == VecContents(r.c)
<1>1. /\ v = [buf |-> v.buf, size |-> v.size] /\ BufferOf(v.buf, Slot)
      /\ v.size \in Nat /\ v.size <= CapOf(v.buf) /\ CapOf(v.buf) \in Nat
      /\ \A j \in 0..v.size - 1 : v.buf[j] \in Elements
      /\ Blank \in Slot
  BY VecFacts
<1>2. r = [ok |-> TRUE, c |-> [buf |-> b, size |-> v.size - 1],
           gone |-> {v.buf[v.size - 1]}]
  BY <1>1 DEF vec_pop, Vacated, Written
<1>3. IsWritten(b, v.buf, v.size - 1, Blank, Slot)
  BY <1>1, WriteIs
<1>4. /\ r.ok = TRUE /\ r.c = [buf |-> b, size |-> v.size - 1]
      /\ r.gone = {v.buf[v.size - 1]} /\ r.c.size = v.size - 1
  BY <1>2
<1> HIDE DEF b
<1>5. /\ BufferOf(b, Slot) /\ CapOf(b) = CapOf(v.buf)
      /\ \A j \in 0..CapOf(v.buf) - 1 : b[j] = IF j = v.size - 1 THEN Blank ELSE v.buf[j]
  BY <1>3 DEF IsWritten
<1>6. \A j \in 0..(v.size - 1) - 1 : b[j] \in Elements /\ b[j] = v.buf[j]
  BY <1>1, <1>5
<1>7. /\ VecShape(r.c) /\ s1 \in Seq(Elements) /\ Len(s1) = v.size - 1
      /\ \A j \in 1..v.size - 1 : s1[j] = b[j - 1]
  <2>1. v.size - 1 \in Nat /\ v.size - 1 <= CapOf(b)
    BY <1>1, <1>5
  <2> QED
    BY <1>4, <1>5, <1>6, <2>1, VecMade
<1>8. /\ s0 \in Seq(Elements) /\ Len(s0) = v.size
      /\ \A j \in 1..v.size : s0[j] = v.buf[j - 1]
  BY VecContentsAre
<1> HIDE DEF s0, s1
<1>9. \A j \in 1..Len(s1) : s1[j] = IF j <= v.size - 1 THEN s0[j] ELSE s0[j + 1]
  BY <1>1, <1>6, <1>7, <1>8
<1>10. s1 = Splice(s0, v.size - 1, 1, <<>>)
  <2>1. v.size - 1 \in 0..Len(s0) - 1 /\ Len(s1) = Len(s0) - 1
    BY <1>1, <1>7, <1>8
  <2> QED
    BY <1>7, <1>8, <1>9, <2>1, IsCut
<1>11. s0[v.size] = v.buf[v.size - 1]
  BY <1>1, <1>8
<1> QED
  BY <1>4, <1>7, <1>10, <1>11 DEF s0, s1

LEMMA VecRemoveIs ==
  ASSUME NEW v, VecShape(v), NEW i \in 0..v.size - 1, NEW r \in vec_remove(v, i)
  PROVE  /\ r.ok = TRUE /\ r.gone = {VecContents(v)[i + 1]} /\ VecShape(r.c)
         /\ VecContents(r.c) = Splice(VecContents(v), i, 1, <<>>)
<1> DEFINE a == Written(v.buf, i, Blank)
           b == Shifted(a, i, i + 1, v.size - i - 1)
           s0 == VecContents(v)
           s1 == VecContents(r.c)
<1>1. /\ v = [buf |-> v.buf, size |-> v.size] /\ BufferOf(v.buf, Slot)
      /\ v.size \in Nat /\ v.size <= CapOf(v.buf) /\ CapOf(v.buf) \in Nat
      /\ \A j \in 0..v.size - 1 : v.buf[j] \in Elements
      /\ Blank \in Slot
  BY VecFacts
<1>2. r = [ok |-> TRUE, c |-> [buf |-> b, size |-> v.size - 1], gone |-> {v.buf[i]}]
  BY <1>1 DEF vec_remove, Vacated, Written
<1>3. IsWritten(a, v.buf, i, Blank, Slot)
  BY <1>1, WriteIs
<1>4. /\ r.ok = TRUE /\ r.c = [buf |-> b, size |-> v.size - 1] /\ r.gone = {v.buf[i]}
  BY <1>2
<1> HIDE DEF a
<1>5. /\ BufferOf(a, Slot) /\ CapOf(a) = CapOf(v.buf)
      /\ \A j \in 0..CapOf(v.buf) - 1 : a[j] = IF j = i THEN Blank ELSE v.buf[j]
  BY <1>3 DEF IsWritten
<1>6. IsShifted(b, a, i, i + 1, v.size - i - 1, Slot)
  <2>1. i \in Nat /\ i + 1 \in Nat /\ v.size - i - 1 \in Nat
        /\ (i + 1) + (v.size - i - 1) <= CapOf(a)
    BY <1>1, <1>5
  <2> QED
    BY <1>5, <2>1, ShiftIs
<1> HIDE DEF b
<1>7. /\ BufferOf(b, Slot) /\ CapOf(b) = CapOf(a)
      /\ \A j \in 0..CapOf(a) - 1 :
           b[j] = IF j >= i /\ j < i + (v.size - i - 1) THEN a[j - i + (i + 1)] ELSE a[j]
  BY <1>6 DEF IsShifted
<1>8. ASSUME NEW j \in 0..(v.size - 1) - 1
      PROVE  b[j] = (IF j < i THEN v.buf[j] ELSE v.buf[j + 1]) /\ b[j] \in Elements
  <2>1. /\ j - i + (i + 1) = j + 1 /\ j < i + (v.size - i - 1)
        /\ j \in 0..CapOf(v.buf) - 1 /\ j + 1 \in 0..CapOf(v.buf) - 1
        /\ j \in 0..v.size - 1 /\ j + 1 \in 0..v.size - 1
    BY <1>1
  <2>2. CASE j < i
    <3>1. b[j] = a[j]
      BY <1>5, <1>7, <2>1, <2>2
    <3>2. a[j] = v.buf[j]
      BY <1>5, <2>1, <2>2
    <3> QED
      BY <1>1, <2>1, <2>2, <3>1, <3>2
  <2>3. CASE j >= i
    <3>1. b[j] = a[j + 1]
      BY <1>5, <1>7, <2>1, <2>3
    <3>2. a[j + 1] = v.buf[j + 1]
      <4>1. j + 1 # i
        BY <2>3
      <4> QED
        BY <1>5, <2>1, <4>1
    <3>3. ~(j < i)
      BY <2>3
    <3> QED
      BY <1>1, <2>1, <3>1, <3>2, <3>3
  <2> QED
    BY <2>2, <2>3
<1>9. /\ VecShape(r.c) /\ s1 \in Seq(Elements) /\ Len(s1) = v.size - 1
      /\ \A j \in 1..v.size - 1 : s1[j] = b[j - 1]
  <2>1. v.size - 1 \in Nat /\ v.size - 1 <= CapOf(b)
    BY <1>1, <1>5, <1>7
  <2>2. \A j \in 0..(v.size - 1) - 1 : b[j] \in Elements
    BY <1>8
  <2> QED
    BY <1>4, <1>7, <2>1, <2>2, VecMade
<1>10. /\ s0 \in Seq(Elements) /\ Len(s0) = v.size
       /\ \A j \in 1..v.size : s0[j] = v.buf[j - 1]
  BY VecContentsAre
<1> HIDE DEF s0, s1
<1>11. ASSUME NEW j \in 1..Len(s1)
       PROVE  s1[j] = IF j <= i THEN s0[j] ELSE s0[j + 1]
  <2>1. /\ j - 1 \in 0..(v.size - 1) - 1 /\ j \in 1..v.size /\ j + 1 \in 1..v.size
        /\ j - 1 + 1 = j /\ j + 1 - 1 = j /\ j \in 1..v.size - 1
    BY <1>1, <1>9
  <2>2. s1[j] = IF j <= i THEN v.buf[j - 1] ELSE v.buf[j]
    <3>1. j - 1 < i <=> j <= i
      BY <2>1
    <3>2. s1[j] = b[j - 1]
      BY <1>9, <2>1
    <3>3. b[j - 1] = IF j - 1 < i THEN v.buf[j - 1] ELSE v.buf[j - 1 + 1]
      BY <1>8, <2>1
    <3> QED
      BY <2>1, <3>1, <3>2, <3>3
  <2>3. s0[j] = v.buf[j - 1]
    BY <1>10, <2>1
  <2>4. s0[j + 1] = v.buf[j + 1 - 1]
    <3> DEFINE k == j + 1
    <3>1. k \in 1..v.size
      BY <2>1
    <3> HIDE DEF k
    <3>2. s0[k] = v.buf[k - 1]
      BY <1>10, <3>1
    <3> QED
      BY <3>2 DEF k
  <2> QED
    BY <2>1, <2>2, <2>3, <2>4
<1>12. s1 = Splice(s0, i, 1, <<>>)
  <2>1. i \in 0..Len(s0) - 1 /\ Len(s1) = Len(s0) - 1
    BY <1>1, <1>9, <1>10
  <2> QED
    BY <1>9, <1>10, <1>11, <2>1, IsCut
<1>13. s0[i + 1] = v.buf[i]
  <2>1. i + 1 \in 1..v.size /\ i + 1 - 1 = i
    BY <1>1
  <2> QED
    BY <1>10, <2>1
<1> QED
  BY <1>4, <1>9, <1>12, <1>13 DEF s0, s1
\* The last element takes the place of the one removed; from the last place it
\* is just removed.
LEMMA VecSwapRemoveIs ==
  ASSUME NEW v, VecShape(v), NEW i \in 0..v.size - 1, NEW r \in vec_swap_remove(v, i)
  PROVE  /\ r.ok = TRUE /\ r.gone = {VecContents(v)[i + 1]} /\ VecShape(r.c)
         /\ Len(VecContents(r.c)) = v.size - 1
         /\ \A j \in 1..v.size - 1 :
              VecContents(r.c)[j] = VecContents(v)[IF j = i + 1 THEN v.size ELSE j]
<1> DEFINE b == IF i = v.size - 1 THEN Written(v.buf, i, Blank)
                ELSE Written(v.buf, i, v.buf[v.size - 1])
           s0 == VecContents(v)
           s1 == VecContents(r.c)
<1>1. /\ v = [buf |-> v.buf, size |-> v.size] /\ BufferOf(v.buf, Slot)
      /\ v.size \in Nat /\ v.size <= CapOf(v.buf) /\ CapOf(v.buf) \in Nat
      /\ \A j \in 0..v.size - 1 : v.buf[j] \in Elements
      /\ Blank \in Slot /\ \A e \in Elements : e \in Slot
  BY VecFacts
<1>2. r = [ok |-> TRUE, c |-> [buf |-> b, size |-> v.size - 1], gone |-> {v.buf[i]}]
  BY <1>1 DEF vec_swap_remove, Vacated, Written
<1>3. r.ok = TRUE /\ r.c = [buf |-> b, size |-> v.size - 1] /\ r.gone = {v.buf[i]}
  BY <1>2
<1>4. /\ BufferOf(b, Slot) /\ CapOf(b) = CapOf(v.buf)
      /\ \A j \in 0..v.size - 2 :
           b[j] = v.buf[IF j = i THEN v.size - 1 ELSE j] /\ b[j] \in Elements
  <2>1. CASE i = v.size - 1
    <3>1. IsWritten(Written(v.buf, i, Blank), v.buf, i, Blank, Slot)
      BY <1>1, WriteIs
    <3>2. IsWritten(b, v.buf, i, Blank, Slot)
      BY <2>1, <3>1
    <3> HIDE DEF b
    <3>3. /\ BufferOf(b, Slot) /\ CapOf(b) = CapOf(v.buf)
          /\ \A j \in 0..CapOf(v.buf) - 1 : b[j] = IF j = i THEN Blank ELSE v.buf[j]
      BY <3>2 DEF IsWritten
    <3>4. ASSUME NEW j \in 0..v.size - 2
          PROVE  j # i /\ j \in 0..CapOf(v.buf) - 1 /\ j \in 0..v.size - 1
      BY <1>1, <2>1
    <3> QED
      BY <1>1, <3>3, <3>4
  <2>2. CASE i # v.size - 1
    <3> DEFINE e == v.buf[v.size - 1]
    <3>1. v.size - 1 \in 0..v.size - 1 /\ e \in Elements /\ e \in Slot
      BY <1>1
    <3>2. IsWritten(Written(v.buf, i, e), v.buf, i, e, Slot)
      <4> HIDE DEF e
      <4> QED
        BY <1>1, <3>1, WriteIs
    <3>3. IsWritten(b, v.buf, i, e, Slot)
      BY <2>2, <3>2
    <3> HIDE DEF b
    <3>4. /\ BufferOf(b, Slot) /\ CapOf(b) = CapOf(v.buf)
          /\ \A j \in 0..CapOf(v.buf) - 1 : b[j] = IF j = i THEN e ELSE v.buf[j]
      BY <3>3 DEF IsWritten
    <3>5. ASSUME NEW j \in 0..v.size - 2
          PROVE  j \in 0..CapOf(v.buf) - 1 /\ j \in 0..v.size - 1
      BY <1>1, <2>2
    <3> QED
      BY <1>1, <3>1, <3>4, <3>5
  <2> QED
    BY <2>1, <2>2
<1> HIDE DEF b
<1>5. /\ VecShape(r.c) /\ s1 \in Seq(Elements) /\ Len(s1) = v.size - 1
      /\ \A j \in 1..v.size - 1 : s1[j] = b[j - 1]
  <2>1. v.size - 1 \in Nat /\ v.size - 1 <= CapOf(b) /\ v.size - 1 - 1 = v.size - 2
    BY <1>1, <1>4
  <2>2. \A j \in 0..(v.size - 1) - 1 : b[j] \in Elements
    BY <1>4, <2>1
  <2> QED
    BY <1>3, <1>4, <2>1, <2>2, VecMade
<1>6. /\ s0 \in Seq(Elements) /\ Len(s0) = v.size
      /\ \A j \in 1..v.size : s0[j] = v.buf[j - 1]
  BY VecContentsAre
<1> HIDE DEF s0, s1
<1>7. ASSUME NEW j \in 1..v.size - 1
      PROVE  s1[j] = s0[IF j = i + 1 THEN v.size ELSE j]
  <2>1. j - 1 \in 0..v.size - 2 /\ j \in 1..v.size /\ v.size \in 1..v.size
    BY <1>1
  <2>2. s1[j] = v.buf[IF j - 1 = i THEN v.size - 1 ELSE j - 1]
    BY <1>4, <1>5, <2>1
  <2>3. s0[j] = v.buf[j - 1] /\ s0[v.size] = v.buf[v.size - 1]
    BY <1>6, <2>1, Zenon
  <2>4. j - 1 = i <=> j = i + 1
    BY <2>1
  <2> QED
    BY <2>2, <2>3, <2>4
<1>8. s0[i + 1] = v.buf[i]
  <2>1. i + 1 \in 1..v.size /\ i + 1 - 1 = i
    BY <1>1
  <2> QED
    BY <1>6, <2>1
<1> QED
  BY <1>3, <1>5, <1>7, <1>8 DEF s0, s1
-------------------------------------------------------------------------------
(* The deque *)

\* The slot n places on from slot 0 of a ring of k.
Wrap(n, k) == IF n < k THEN n ELSE n - k

LEMMA WrapIs ==
  ASSUME NEW k \in Nat, NEW n \in 0..2 * k - 1
  PROVE  n % k = Wrap(n, k) /\ Wrap(n, k) \in 0..k - 1
<1>1. CASE n < k
  BY <1>1 DEF Wrap
<1>2. CASE n >= k
  <2>1. n - k \in 0..k - 1 /\ k > 0
    BY <1>2
  <2>2. ((n - k) + k) % k = n - k
    <3>1. \A a \in 0..k - 1 : (a + k) % k = a
      BY <2>1
    <3> QED
      BY <2>1, <3>1
  <2>3. (n - k) + k = n
    BY <1>2
  <2> QED
    BY <1>2, <2>1, <2>2, <2>3 DEF Wrap
<1> QED
  BY <1>1, <1>2

\* The elements lie from first on, round the end of the storage, up to last.
DequeShape(d) ==
  /\ d = [buf |-> d.buf, first |-> d.first, last |-> d.last, len |-> d.len]
  /\ BufferOf(d.buf, Slot)
  /\ d.len \in Nat /\ d.len <= CapOf(d.buf)
  /\ IF CapOf(d.buf) = 0 THEN d.first = 0 /\ d.last = 0
     ELSE d.first \in 0..CapOf(d.buf) - 1 /\ d.last = Wrap(d.first + d.len, CapOf(d.buf))
  /\ \A i \in 0..d.len - 1 : d.buf[Wrap(d.first + i, CapOf(d.buf))] \in Elements

LEMMA DequeFacts ==
  ASSUME NEW d, DequeShape(d)
  PROVE  /\ d = [buf |-> d.buf, first |-> d.first, last |-> d.last, len |-> d.len]
         /\ BufferOf(d.buf, Slot) /\ CapOf(d.buf) \in Nat
         /\ d.len \in Nat /\ d.len <= CapOf(d.buf)
         /\ CapOf(d.buf) > 0 => /\ d.first \in 0..CapOf(d.buf) - 1
                                /\ d.last \in 0..CapOf(d.buf) - 1
                                /\ d.last = Wrap(d.first + d.len, CapOf(d.buf))
         /\ Blank \in Slot /\ \A e \in Elements : e \in Slot
<1> DEFINE k == CapOf(d.buf)
<1>1. k \in Nat
  BY CapIs DEF DequeShape, BufferOf
<1>2. CASE k > 0
  <2>1. d.first \in 0..k - 1 /\ d.last = Wrap(d.first + d.len, k) /\ d.len \in 0..k
    BY <1>1, <1>2 DEF DequeShape
  <2>2. d.first + d.len \in 0..2 * k - 1
    BY <1>1, <1>2, <2>1
  <2>3. d.last \in 0..k - 1
    <3> HIDE DEF k
    <3> QED
      BY <1>1, <2>1, <2>2, WrapIs
  <2> QED
    BY <1>1, <2>1, <2>3 DEF DequeShape, Slot
<1>3. CASE ~(k > 0)
  BY <1>1, <1>3 DEF DequeShape, Slot
<1> QED
  BY <1>2, <1>3

LEMMA DequeContentsAre ==
  ASSUME NEW d, DequeShape(d)
  PROVE  /\ DequeContents(d) \in Seq(Elements) /\ Len(DequeContents(d)) = d.len
         /\ DOMAIN DequeContents(d) = 1..d.len
         /\ \A j \in 1..d.len :
              DequeContents(d)[j] = d.buf[Wrap(d.first + j - 1, CapOf(d.buf))]
<1> DEFINE t == DequeContents(d)
           k == CapOf(d.buf)
<1>1. t = [j \in 1..d.len |-> d.buf[(d.first + j - 1) % k]]
  BY DEF DequeContents
<1>2. /\ k \in Nat /\ d.len \in Nat /\ d.len <= k /\ (k > 0 => d.first \in 0..k - 1)
  BY DequeFacts
<1>3. \A i \in 0..d.len - 1 : d.buf[Wrap(d.first + i, k)] \in Elements
  BY DEF DequeShape
<1> HIDE DEF t, k
<1>4. ASSUME NEW j \in 1..d.len
      PROVE  t[j] = d.buf[Wrap(d.first + j - 1, k)] /\ t[j] \in Elements
  <2>1. d.first + j - 1 \in 0..2 * k - 1
    BY <1>2
  <2>2. (d.first + j - 1) % k = Wrap(d.first + j - 1, k)
    BY <1>2, <2>1, WrapIs
  <2>3. t[j] = d.buf[Wrap(d.first + j - 1, k)]
    BY <1>1, <2>2
  <2>4. j - 1 \in 0..d.len - 1 /\ d.first + (j - 1) = d.first + j - 1
    BY <1>2
  <2>5. d.buf[Wrap(d.first + (j - 1), k)] \in Elements
    BY <1>3, <2>4
  <2> QED
    BY <2>3, <2>4, <2>5
<1>5. t \in [1..d.len -> Elements]
  BY <1>1, <1>4
<1>6. t \in Seq(Elements) /\ Len(t) = d.len /\ DOMAIN t = 1..d.len
  BY <1>2, <1>5, MadeSequence
<1> QED
  BY <1>4, <1>6 DEF t, k

\* The n slots from f on hold elements; s is the sequence of them.
Lie(b, f, n) == \A i \in 0..n - 1 : b[Wrap(f + i, CapOf(b))] \in Elements

LieSo(s, b, f, n) ==
  /\ s \in Seq(Elements) /\ Len(s) = n
  /\ \A j \in 1..n : s[j] = b[Wrap(f + j - 1, CapOf(b))]

LEMMA DequeMade ==
  ASSUME NEW b, BufferOf(b, Slot), CapOf(b) > 0, NEW f \in 0..CapOf(b) - 1,
         NEW n \in 0..CapOf(b), NEW l, l = Wrap(f + n, CapOf(b)), Lie(b, f, n),
         NEW x, x = [buf |-> b, first |-> f, last |-> l, len |-> n]
  PROVE  DequeShape(x) /\ LieSo(DequeContents(x), b, f, n)
<1>1. /\ x.buf = b /\ x.first = f /\ x.last = l /\ x.len = n
      /\ x = [buf |-> x.buf, first |-> x.first, last |-> x.last, len |-> x.len]
  OBVIOUS
<1>2. CapOf(b) \in Nat
  BY CapIs DEF BufferOf
<1>3. DequeShape(x)
  BY <1>1, <1>2 DEF DequeShape, Lie
<1> QED
  BY <1>1, <1>3, DequeContentsAre DEF LieSo

LEMMA NewDeque ==
  DequeShape(deque_new) /\ DequeContents(deque_new) = <<>> /\ deque_new.len = 0
<1>1. deque_new = [buf |-> raw_buf_new, first |-> 0, last |-> 0, len |-> 0]
  BY DEF deque_new
<1>2. DequeShape(deque_new)
  BY <1>1, NewBuffer DEF DequeShape
<1>3. DequeContents(deque_new) \in Seq(Elements) /\ Len(DequeContents(deque_new)) = 0
  BY <1>1, <1>2, DequeContentsAre
<1> QED
  BY <1>1, <1>2, <1>3
LEMMA DequeReserveIs ==
  ASSUME NEW d, DequeShape(d), NEW n \in Nat, NEW r \in deque_reserve(d, n)
  PROVE  /\ r.ok \in BOOLEAN /\ r.gone = {} /\ DequeShape(r.c)
         /\ r = [ok |-> r.ok, c |-> r.c, gone |-> {}]
         /\ r.c.len = d.len /\ DequeContents(r.c) = DequeContents(d)
         /\ r.ok => CapOf(r.c.buf) >= d.len + n
<1> DEFINE s0 == DequeContents(d)
<1>1. /\ CapOf(d.buf) \in Nat /\ d.len \in Nat /\ d.len <= CapOf(d.buf) /\ Blank \in Slot
      /\ \A e \in Elements : e \in Slot
  BY DequeFacts
<1>2. CASE r = [ok |-> TRUE, c |-> d, gone |-> {}] /\ d.len + n <= CapOf(d.buf)
  BY <1>1, <1>2
<1>3. CASE r = [ok |-> FALSE, c |-> d, gone |-> {}]
  BY <1>3
<1>4. ASSUME NEW s \in Reserved(raw_buf_new, d.len + n), s.ok, d.len + n > CapOf(d.buf),
             r = [ok |-> s.ok, gone |-> {},
                  c |-> [buf   |-> [i \in DOMAIN s.buf |->
                                      IF i < d.len THEN s0[i + 1] ELSE Blank],
                         first |-> 0,
                         last  |-> IF d.len = CapOf(s.buf) THEN 0 ELSE d.len,
                         len   |-> d.len]]
      PROVE  /\ r.ok = TRUE /\ r.gone = {} /\ DequeShape(r.c)
             /\ r = [ok |-> r.ok, c |-> r.c, gone |-> {}]
             /\ r.c.len = d.len /\ DequeContents(r.c) = s0
             /\ CapOf(r.c.buf) >= d.len + n
  <2> DEFINE k == CapOf(s.buf)
             b == [i \in DOMAIN s.buf |-> IF i < d.len THEN s0[i + 1] ELSE Blank]
             l == IF d.len = k THEN 0 ELSE d.len
  <2>1. BufferOf(raw_buf_new, Slot) /\ CapOf(raw_buf_new) = 0 /\ IsBuffer(raw_buf_new)
    BY NewBuffer DEF BufferOf
  <2>2. /\ s.ok \in BOOLEAN /\ IsBuffer(s.buf) /\ k >= d.len + n
        /\ k > CapOf(raw_buf_new) => k <= MaxCapacity
    BY <1>1, <1>4, <2>1, ReservedIs
  <2>3. k \in Nat /\ DOMAIN s.buf = 0..k - 1 /\ k > 0 /\ k <= MaxCapacity /\ d.len <= k
    <3>1. k \in Nat /\ DOMAIN s.buf = 0..k - 1
      BY <2>2, CapIs
    <3> HIDE DEF k
    <3> QED
      BY <1>1, <1>4, <2>1, <2>2, <3>1
  <2>4. s0 \in Seq(Elements) /\ Len(s0) = d.len
    BY DequeContentsAre
  <2>5. r = [ok |-> s.ok, gone |-> {},
             c |-> [buf |-> b, first |-> 0, last |-> l, len |-> d.len]]
    BY <1>4
  <2> HIDE DEF k, s0
  <2>6. b = [i \in 0..k - 1 |-> IF i < d.len THEN s0[i + 1] ELSE Blank]
    BY <2>3
  <2> HIDE DEF b
  <2>7. ASSUME NEW i \in 0..k - 1
        PROVE  /\ b[i] = IF i < d.len THEN s0[i + 1] ELSE Blank
               /\ b[i] \in Slot /\ (i < d.len => b[i] \in Elements)
    <3>1. b[i] = IF i < d.len THEN s0[i + 1] ELSE Blank
      BY <2>6
    <3>2. i < d.len => s0[i + 1] \in Elements
      <4>1. i < d.len => i + 1 \in 1..Len(s0)
        BY <1>1, <2>4
      <4> QED
        BY <2>4, <4>1, ElementOfSeq
    <3> QED
      BY <1>1, <3>1, <3>2
  <2>8. BufferOf(b, Slot) /\ CapOf(b) = k
    <3>1. b = [i \in 0..k - 1 |-> b[i]]
      BY <2>6
    <3>2. IsBuffer(b) /\ CapOf(b) = k
      BY <2>3, <3>1, BufferIs
    <3> QED
      BY <2>3, <2>7, <3>2 DEF BufferOf
  <2>9. \A i \in 0..d.len - 1 : Wrap(0 + i, k) = i /\ i \in 0..k - 1 /\ b[i] = s0[i + 1]
                               /\ b[i] \in Elements
    <3> SUFFICES ASSUME NEW i \in 0..d.len - 1
                 PROVE  Wrap(0 + i, k) = i /\ i \in 0..k - 1 /\ b[i] = s0[i + 1]
                        /\ b[i] \in Elements
      OBVIOUS
    <3>1. i \in 0..k - 1 /\ i < d.len /\ 0 + i = i /\ i < k
      BY <1>1, <2>3
    <3> QED
      BY <2>7, <3>1 DEF Wrap
  <2>10. l = Wrap(0 + d.len, k)
    BY <1>1, <2>3 DEF Wrap
  <2> HIDE DEF l
  <2>11. r.c = [buf |-> b, first |-> 0, last |-> l, len |-> d.len]
    BY <2>5
  <2> DEFINE s1 == DequeContents(r.c)
  <2>12. /\ DequeShape(r.c) /\ s1 \in Seq(Elements) /\ Len(s1) = d.len
         /\ \A j \in 1..d.len : s1[j] = b[Wrap(0 + j - 1, CapOf(b))]
    <3>1. CapOf(b) > 0 /\ 0 \in 0..CapOf(b) - 1 /\ d.len \in 0..CapOf(b)
      BY <1>1, <2>3, <2>8
    <3>2. Lie(b, 0, d.len)
      BY <2>8, <2>9 DEF Lie
    <3>3. l = Wrap(0 + d.len, CapOf(b))
      BY <2>8, <2>10
    <3> QED
      BY <2>8, <2>11, <3>1, <3>2, <3>3, DequeMade DEF LieSo
  <2> HIDE DEF s1
  <2>13. ASSUME NEW j \in 1..Len(s1) PROVE s1[j] = s0[j]
    <3>1. j - 1 \in 0..d.len - 1 /\ 0 + j - 1 = j - 1 /\ j - 1 + 1 = j /\ 0 + (j - 1) = j - 1
      BY <1>1, <2>12
    <3>2. s1[j] = b[Wrap(j - 1, k)]
      BY <2>8, <2>12, <3>1
    <3> QED
      BY <2>9, <3>1, <3>2
  <2>14. s1 = s0
    BY <2>4, <2>12, <2>13, SameSequence
  <2> QED
    BY <1>4, <2>2, <2>5, <2>8, <2>11, <2>12, <2>14 DEF s1, k
<1>5. \/ r = [ok |-> TRUE, c |-> d, gone |-> {}] /\ d.len + n <= CapOf(d.buf)
      \/ /\ d.len + n > CapOf(d.buf)
         /\ \E s \in Reserved(raw_buf_new, d.len + n) :
              r = [ok |-> s.ok, gone |-> {},
                   c |-> IF ~s.ok THEN d
                         ELSE [buf   |-> [i \in DOMAIN s.buf |->
                                            IF i < d.len THEN s0[i + 1] ELSE Blank],
                               first |-> 0,
                               last  |-> IF d.len = CapOf(s.buf) THEN 0 ELSE d.len,
                               len   |-> d.len]]
  BY <1>1 DEF deque_reserve
<1>6. ASSUME NEW s \in Reserved(raw_buf_new, d.len + n) PROVE s.ok \in BOOLEAN
  <2>1. BufferOf(raw_buf_new, Slot) /\ IsBuffer(raw_buf_new)
    BY NewBuffer DEF BufferOf
  <2> QED
    BY <1>1, <2>1, ReservedIs
<1> HIDE DEF s0
<1>7. CASE d.len + n > CapOf(d.buf)
  <2>1. PICK s \in Reserved(raw_buf_new, d.len + n) :
          r = [ok |-> s.ok, gone |-> {},
               c |-> IF ~s.ok THEN d
                     ELSE [buf   |-> [i \in DOMAIN s.buf |->
                                        IF i < d.len THEN s0[i + 1] ELSE Blank],
                           first |-> 0,
                           last  |-> IF d.len = CapOf(s.buf) THEN 0 ELSE d.len,
                           len   |-> d.len]]
    BY <1>1, <1>5, <1>7
  <2>2. CASE s.ok
    BY <1>4, <1>7, <2>1, <2>2 DEF s0
  <2>3. CASE ~s.ok
    <3>1. r = [ok |-> FALSE, c |-> d, gone |-> {}]
      BY <1>6, <2>1, <2>3
    <3> QED
      BY <1>3, <3>1
  <2> QED
    BY <2>2, <2>3
<1> QED
  BY <1>1, <1>2, <1>5, <1>7
\* Places apart by less than a whole turn are different slots.
LEMMA WrapApart ==
  ASSUME NEW k \in Nat, k > 0, NEW f \in 0..k - 1,
         NEW i \in 0..k - 1, NEW j \in 0..k - 1, Wrap(f + i, k) = Wrap(f + j, k)
  PROVE  i = j
BY DEF Wrap

LEMMA WrapInside ==
  ASSUME NEW k \in Nat, k > 0, NEW f \in 0..k - 1, NEW i \in 0..k
  PROVE  Wrap(f + i, k) \in 0..k - 1
BY DEF Wrap

\* One slot back, and one slot on.
LEMMA WrapBack ==
  ASSUME NEW k \in Nat, k > 0, NEW f \in 0..k - 1, NEW g,
         g = IF f = 0 THEN k - 1 ELSE f - 1
  PROVE  /\ g \in 0..k - 1 /\ Wrap(g, k) = g
         /\ \A i \in 0..k - 1 : Wrap(g + (i + 1), k) = Wrap(f + i, k)
BY DEF Wrap

LEMMA WrapOn ==
  ASSUME NEW k \in Nat, k > 0, NEW f \in 0..k - 1, NEW n \in 0..k - 1
  PROVE  Wrap(f + (n + 1), k) = (Wrap(f + n, k) + 1) % k
<1>1. Wrap(f + n, k) \in 0..k - 1
  BY DEF Wrap
<1>2. Wrap(f + n, k) + 1 \in 0..2 * k - 1
  BY <1>1
<1>3. (Wrap(f + n, k) + 1) % k = Wrap(Wrap(f + n, k) + 1, k)
  BY <1>2, WrapIs
<1>4. Wrap(Wrap(f + n, k) + 1, k) = Wrap(f + (n + 1), k)
  BY DEF Wrap
<1> QED
  BY <1>3, <1>4

LEMMA PutBackIs ==
  ASSUME NEW d, DequeShape(d), d.len < CapOf(d.buf), NEW e \in Elements
  PROVE  /\ DequeShape(PutBack(d, e)) /\ PutBack(d, e).len = d.len + 1
         /\ DequeContents(PutBack(d, e)) = Append(DequeContents(d), e)
<1> DEFINE k == CapOf(d.buf)
           f == d.first
           n == d.len
           b == Written(d.buf, d.last, e)
           l == (d.last + 1) % k
           x == PutBack(d, e)
           s0 == DequeContents(d)
           s1 == DequeContents(x)
<1>1. /\ d = [buf |-> d.buf, first |-> f, last |-> d.last, len |-> n]
      /\ BufferOf(d.buf, Slot) /\ k \in Nat /\ n \in Nat /\ n < k /\ k > 0
      /\ f \in 0..k - 1 /\ d.last \in 0..k - 1 /\ d.last = Wrap(f + n, k) /\ e \in Slot
  BY DequeFacts
<1>2. x = [buf |-> b, first |-> f, last |-> l, len |-> n + 1]
  <2> DEFINE d1 == [d EXCEPT !.buf = b]
             d2 == [d1 EXCEPT !.last = l]
  <2>1. d1 = [buf |-> b, first |-> f, last |-> d.last, len |-> n]
    BY <1>1
  <2>2. d2 = [buf |-> b, first |-> f, last |-> l, len |-> n]
    <3> HIDE DEF d1
    <3> QED
      BY <2>1
  <2>3. [d2 EXCEPT !.len = n + 1] = [buf |-> b, first |-> f, last |-> l, len |-> n + 1]
    <3> HIDE DEF d2
    <3> QED
      BY <2>2
  <2>4. x = [d2 EXCEPT !.len = n + 1]
    BY DEF PutBack, Written
  <2> QED
    BY <2>3, <2>4
<1>3. IsWritten(b, d.buf, d.last, e, Slot)
  BY <1>1, WriteIs
<1>4. /\ s0 \in Seq(Elements) /\ Len(s0) = n
      /\ \A j \in 1..n : s0[j] = d.buf[Wrap(f + j - 1, k)]
  BY DequeContentsAre
<1>5. \A i \in 0..n - 1 : d.buf[Wrap(f + i, k)] \in Elements
  BY DEF DequeShape
<1> HIDE DEF k, f, n, b, x, s0
<1>6. /\ BufferOf(b, Slot) /\ CapOf(b) = k
      /\ \A j \in 0..k - 1 : b[j] = IF j = d.last THEN e ELSE d.buf[j]
  BY <1>3 DEF IsWritten, k
<1>7. ASSUME NEW i \in 0..n - 1
      PROVE  b[Wrap(f + i, k)] = d.buf[Wrap(f + i, k)] /\ b[Wrap(f + i, k)] \in Elements
  <2>1. i \in 0..k - 1 /\ n \in 0..k - 1 /\ i # n /\ i \in 0..k
    BY <1>1
  <2>2. Wrap(f + i, k) # d.last
    BY <1>1, <2>1, WrapApart
  <2>3. Wrap(f + i, k) \in 0..k - 1
    BY <1>1, <2>1, WrapInside
  <2> QED
    BY <1>5, <1>6, <2>2, <2>3
<1>8. b[Wrap(f + n, k)] = e
  BY <1>1, <1>6
<1>9. l = Wrap(f + (n + 1), k)
  <2>1. n \in 0..k - 1
    BY <1>1
  <2> QED
    BY <1>1, <2>1, WrapOn
<1> HIDE DEF l
<1>10. DequeShape(x) /\ LieSo(s1, b, f, n + 1)
  <2>1. /\ CapOf(b) > 0 /\ f \in 0..CapOf(b) - 1 /\ n + 1 \in 0..CapOf(b)
        /\ l = Wrap(f + (n + 1), CapOf(b))
    BY <1>1, <1>6, <1>9
  <2>2. ASSUME NEW i \in 0..(n + 1) - 1 PROVE b[Wrap(f + i, CapOf(b))] \in Elements
    <3>1. i = n \/ i \in 0..n - 1
      BY <1>1
    <3> QED
      BY <1>6, <1>7, <1>8, <3>1
  <2>3. Lie(b, f, n + 1)
    BY <2>2 DEF Lie
  <2> QED
    BY <1>2, <1>6, <2>1, <2>3, DequeMade
<1> HIDE DEF s1
<1>a. n \in Nat /\ Len(s1) = n + 1 /\ Len(s0) = n /\ f \in Nat
  BY <1>1, <1>4, <1>10 DEF LieSo
<1>11. ASSUME NEW j \in 1..Len(s1)
       PROVE  s1[j] = IF j <= Len(s0) THEN s0[j] ELSE e
  <2>1. j \in 1..n + 1 /\ f + j - 1 = f + (j - 1)
    BY <1>a
  <2>2. s1[j] = b[Wrap(f + j - 1, k)]
    BY <1>6, <1>10, <2>1 DEF LieSo
  <2>3. CASE j <= n
    <3>1. j \in 1..n /\ j - 1 \in 0..n - 1
      BY <1>a, <2>1, <2>3
    <3> QED
      BY <1>4, <1>7, <1>a, <2>1, <2>2, <2>3, <3>1
  <2>4. CASE j > n
    <3>1. f + j - 1 = f + n /\ ~(j <= n)
      BY <1>a, <2>1, <2>4
    <3> QED
      BY <1>8, <1>a, <2>2, <3>1
  <2> QED
    BY <1>a, <2>1, <2>3, <2>4
<1>12. s1 = Append(s0, e)
  <2>1. Len(s1) = Len(s0) + 1
    BY <1>a
  <2> QED
    BY <1>4, <1>10, <1>11, <2>1, IsAppended DEF LieSo
<1>13. x.len = n + 1
  BY <1>2
<1> QED
  BY <1>10, <1>12, <1>13 DEF s0, s1, x, n
LEMMA PutFrontIs ==
  ASSUME NEW d, DequeShape(d), d.len < CapOf(d.buf), NEW e \in Elements
  PROVE  /\ DequeShape(PutFront(d, e)) /\ PutFront(d, e).len = d.len + 1
         /\ DequeContents(PutFront(d, e)) = <<e>> \o DequeContents(d)
<1> DEFINE k == CapOf(d.buf)
           f == d.first
           n == d.len
           g == IF f = 0 THEN k - 1 ELSE f - 1
           b == Written(d.buf, g, e)
           x == PutFront(d, e)
           s0 == DequeContents(d)
           s1 == DequeContents(x)
<1>1. /\ d = [buf |-> d.buf, first |-> f, last |-> d.last, len |-> n]
      /\ BufferOf(d.buf, Slot) /\ k \in Nat /\ n \in Nat /\ n < k /\ k > 0
      /\ f \in 0..k - 1 /\ d.last = Wrap(f + n, k) /\ e \in Slot
  BY DequeFacts
<1>2. x = [buf |-> b, first |-> g, last |-> d.last, len |-> n + 1]
  <2> DEFINE d1 == [d EXCEPT !.buf = b]
             d2 == [d1 EXCEPT !.first = g]
  <2>1. d1 = [buf |-> b, first |-> f, last |-> d.last, len |-> n]
    BY <1>1
  <2>2. d2 = [buf |-> b, first |-> g, last |-> d.last, len |-> n]
    <3> HIDE DEF d1
    <3> QED
      BY <2>1
  <2>3. [d2 EXCEPT !.len = n + 1] = [buf |-> b, first |-> g, last |-> d.last, len |-> n + 1]
    <3> HIDE DEF d2
    <3> QED
      BY <2>2
  <2>4. x = [d2 EXCEPT !.len = n + 1]
    BY DEF PutFront, Written
  <2> QED
    BY <2>3, <2>4
<1>3. IsWritten(b, d.buf, g, e, Slot)
  BY <1>1, WriteIs
<1>4. /\ s0 \in Seq(Elements) /\ Len(s0) = n
      /\ \A j \in 1..n : s0[j] = d.buf[Wrap(f + j - 1, k)]
  BY DequeContentsAre
<1>5. \A i \in 0..n - 1 : d.buf[Wrap(f + i, k)] \in Elements
  BY DEF DequeShape
<1> HIDE DEF k, f, n, b, x, s0
<1>6. /\ BufferOf(b, Slot) /\ CapOf(b) = k
      /\ \A j \in 0..k - 1 : b[j] = IF j = g THEN e ELSE d.buf[j]
  BY <1>3 DEF IsWritten, k
<1>7. /\ g \in 0..k - 1 /\ Wrap(g, k) = g
      /\ \A i \in 0..k - 1 : Wrap(g + (i + 1), k) = Wrap(f + i, k)
  BY <1>1, WrapBack
<1> HIDE DEF g
<1>8. ASSUME NEW i \in 0..n - 1
      PROVE  /\ b[Wrap(g + (i + 1), k)] = d.buf[Wrap(f + i, k)]
             /\ b[Wrap(g + (i + 1), k)] \in Elements
  <2>1. i \in 0..k - 1 /\ i + 1 \in 0..k - 1 /\ i + 1 # 0 /\ 0 \in 0..k - 1 /\ i + 1 \in 0..k
        /\ g + 0 = g
    BY <1>1, <1>7
  <2>2. Wrap(g + (i + 1), k) # Wrap(g + 0, k)
    BY <1>1, <1>7, <2>1, WrapApart
  <2>3. Wrap(g + (i + 1), k) \in 0..k - 1
    BY <1>1, <1>7, <2>1, WrapInside
  <2>4. b[Wrap(g + (i + 1), k)] = d.buf[Wrap(g + (i + 1), k)]
    BY <1>6, <1>7, <2>1, <2>2, <2>3
  <2>5. Wrap(g + (i + 1), k) = Wrap(f + i, k)
    BY <1>7, <2>1
  <2> QED
    BY <1>5, <2>4, <2>5
<1>9. b[Wrap(g, k)] = e /\ b[Wrap(g + 0, k)] = e
  BY <1>1, <1>6, <1>7
<1>10. d.last = Wrap(g + (n + 1), k)
  BY <1>1, <1>7
<1>11. DequeShape(x) /\ LieSo(s1, b, g, n + 1)
  <2>1. /\ CapOf(b) > 0 /\ g \in 0..CapOf(b) - 1 /\ n + 1 \in 0..CapOf(b)
        /\ d.last = Wrap(g + (n + 1), CapOf(b))
    BY <1>1, <1>6, <1>7, <1>10
  <2>2. ASSUME NEW i \in 0..(n + 1) - 1 PROVE b[Wrap(g + i, CapOf(b))] \in Elements
    <3>1. CASE i = 0
      BY <1>6, <1>9, <3>1
    <3>2. CASE i # 0
      <4>1. i - 1 \in 0..n - 1 /\ (i - 1) + 1 = i
        BY <1>1, <3>2
      <4> QED
        BY <1>6, <1>8, <4>1
    <3> QED
      BY <3>1, <3>2
  <2>3. Lie(b, g, n + 1)
    BY <2>2 DEF Lie
  <2> QED
    BY <1>2, <1>6, <2>1, <2>3, DequeMade
<1> HIDE DEF s1
<1>12. n \in Nat /\ Len(s1) = n + 1 /\ Len(s0) = n /\ f \in Nat /\ g \in Nat
  BY <1>1, <1>4, <1>7, <1>11 DEF LieSo
<1>13. ASSUME NEW j \in 1..Len(s1)
       PROVE  s1[j] = IF j = 1 THEN e ELSE s0[j - 1]
  <2>1. j \in 1..n + 1
    BY <1>12
  <2>2. s1[j] = b[Wrap(g + j - 1, k)]
    BY <1>6, <1>11, <2>1 DEF LieSo
  <2>3. CASE j = 1
    <3>1. g + j - 1 = g
      BY <1>12, <2>3
    <3> QED
      BY <1>9, <2>2, <2>3, <3>1
  <2>4. CASE j # 1
    <3>1. /\ j - 1 \in 1..n /\ j - 2 \in 0..n - 1
          /\ g + j - 1 = g + ((j - 2) + 1) /\ f + (j - 1) - 1 = f + (j - 2)
      BY <1>12, <2>1, <2>4
    <3>2. s1[j] = d.buf[Wrap(f + (j - 2), k)]
      BY <1>8, <2>2, <3>1
    <3>3. s0[j - 1] = d.buf[Wrap(f + (j - 1) - 1, k)]
      BY <1>4, <3>1
    <3> QED
      BY <2>4, <3>1, <3>2, <3>3
  <2> QED
    BY <2>3, <2>4
<1>14. s1 = <<e>> \o s0
  <2>1. Len(s1) = Len(s0) + 1
    BY <1>12
  <2> QED
    BY <1>4, <1>11, <1>13, <2>1, IsPrepended DEF LieSo
<1>15. x.len = n + 1
  BY <1>2
<1> QED
  BY <1>11, <1>14, <1>15 DEF s0, s1, x, n
LEMMA WrapForth ==
  ASSUME NEW k \in Nat, k > 0, NEW f \in 0..k - 1, NEW g, g = Wrap(f + 1, k)
  PROVE  /\ g \in 0..k - 1
         /\ \A i \in 0..k - 1 : Wrap(g + i, k) = Wrap(f + (i + 1), k)
BY DEF Wrap

LEMMA PopFrontIs ==
  ASSUME NEW d, DequeShape(d), d.len > 0, NEW r \in deque_pop_front(d)
  PROVE  /\ r.ok = TRUE /\ r.gone = {DequeContents(d)[1]} /\ DequeShape(r.c)
         /\ r = [ok |-> TRUE, c |-> r.c, gone |-> r.gone]
         /\ r.c.len = d.len - 1 /\ CapOf(r.c.buf) = CapOf(d.buf)
         /\ DequeContents(r.c) = Tail(DequeContents(d))
<1> DEFINE k == CapOf(d.buf)
           f == d.first
           n == d.len
           g == IF n = 1 THEN d.last ELSE (f + 1) % k
           b == Written(d.buf, f, Blank)
           x == r.c
           s0 == DequeContents(d)
           s1 == DequeContents(x)
<1>1. /\ d = [buf |-> d.buf, first |-> f, last |-> d.last, len |-> n]
      /\ BufferOf(d.buf, Slot) /\ k \in Nat /\ n \in Nat /\ n <= k /\ k > 0 /\ n > 0
      /\ f \in 0..k - 1 /\ d.last = Wrap(f + n, k) /\ Blank \in Slot
  BY DequeFacts
<1>2. /\ x = [buf |-> b, first |-> g, last |-> d.last, len |-> n - 1]
      /\ r = [ok |-> TRUE, gone |-> {d.buf[f]}, c |-> x]
  <2> DEFINE d1 == [d EXCEPT !.buf = b]
             d2 == [d1 EXCEPT !.len = n - 1]
  <2>1. d1 = [buf |-> b, first |-> f, last |-> d.last, len |-> n]
    BY <1>1
  <2>2. d2 = [buf |-> b, first |-> f, last |-> d.last, len |-> n - 1]
    <3> HIDE DEF d1
    <3> QED
      BY <2>1
  <2>3. [d2 EXCEPT !.first = g] = [buf |-> b, first |-> g, last |-> d.last, len |-> n - 1]
    <3> HIDE DEF d2
    <3> QED
      BY <2>2
  <2>4. r = [ok |-> TRUE, gone |-> {d.buf[f]}, c |-> [d2 EXCEPT !.first = g]]
    BY DEF deque_pop_front, Vacated, Written
  <2> QED
    BY <2>3, <2>4
<1>3. IsWritten(b, d.buf, f, Blank, Slot)
  BY <1>1, WriteIs
<1>4. /\ s0 \in Seq(Elements) /\ Len(s0) = n
      /\ \A j \in 1..n : s0[j] = d.buf[Wrap(f + j - 1, k)]
  BY DequeContentsAre
<1>5. \A i \in 0..n - 1 : d.buf[Wrap(f + i, k)] \in Elements
  BY DEF DequeShape
<1>a. r.ok = TRUE /\ r.gone = {d.buf[f]} /\ x.len = n - 1 /\ x.buf = b
      /\ r = [ok |-> TRUE, c |-> x, gone |-> r.gone]
  BY <1>2
<1> HIDE DEF k, f, n, b, x, s0
<1>6. /\ BufferOf(b, Slot) /\ CapOf(b) = k
      /\ \A j \in 0..k - 1 : b[j] = IF j = f THEN Blank ELSE d.buf[j]
  BY <1>3 DEF IsWritten, k
<1>7. g = Wrap(f + 1, k)
  <2>1. CASE n = 1
    BY <1>1, <2>1
  <2>2. CASE n # 1
    <3>1. f + 1 \in 0..2 * k - 1
      BY <1>1, <2>2
    <3>2. (f + 1) % k = Wrap(f + 1, k)
      BY <1>1, <3>1, WrapIs
    <3> QED
      BY <2>2, <3>2
  <2> QED
    BY <2>1, <2>2
<1> HIDE DEF g
<1>8. /\ g \in 0..k - 1
      /\ \A i \in 0..k - 1 : Wrap(g + i, k) = Wrap(f + (i + 1), k)
  BY <1>1, <1>7, WrapForth
<1>9. ASSUME NEW i \in 0..(n - 1) - 1
      PROVE  /\ b[Wrap(g + i, k)] = d.buf[Wrap(f + (i + 1), k)]
             /\ b[Wrap(g + i, k)] \in Elements
  <2>1. i \in 0..k - 1 /\ i + 1 \in 0..k - 1 /\ i + 1 # 0 /\ 0 \in 0..k - 1 /\ i + 1 \in 0..k
        /\ f + 0 = f /\ i + 1 \in 0..n - 1
    BY <1>1
  <2>2. Wrap(f + (i + 1), k) # Wrap(f + 0, k)
    BY <1>1, <2>1, WrapApart
  <2>3. Wrap(f + (i + 1), k) \in 0..k - 1
    BY <1>1, <2>1, WrapInside
  <2>4. Wrap(f, k) = f
    BY <1>1 DEF Wrap
  <2>5. b[Wrap(f + (i + 1), k)] = d.buf[Wrap(f + (i + 1), k)]
    BY <1>6, <2>1, <2>2, <2>3, <2>4
  <2>6. Wrap(g + i, k) = Wrap(f + (i + 1), k)
    BY <1>8, <2>1
  <2> QED
    BY <1>5, <2>1, <2>5, <2>6
<1>10. d.last = Wrap(g + (n - 1), k)
  <2>1. n - 1 \in 0..k - 1 /\ (n - 1) + 1 = n
    BY <1>1
  <2> QED
    BY <1>1, <1>8, <2>1
<1>11. DequeShape(x) /\ LieSo(s1, b, g, n - 1)
  <2>1. /\ CapOf(b) > 0 /\ g \in 0..CapOf(b) - 1 /\ n - 1 \in 0..CapOf(b)
        /\ d.last = Wrap(g + (n - 1), CapOf(b))
    BY <1>1, <1>6, <1>8, <1>10
  <2>2. Lie(b, g, n - 1)
    BY <1>6, <1>9 DEF Lie
  <2> QED
    BY <1>2, <1>6, <2>1, <2>2, DequeMade
<1> HIDE DEF s1
<1>12. n \in Nat /\ n > 0 /\ Len(s1) = n - 1 /\ Len(s0) = n /\ f \in Nat /\ g \in Nat
  BY <1>1, <1>4, <1>8, <1>11 DEF LieSo
<1>13. ASSUME NEW j \in 1..Len(s1)
       PROVE  s1[j] = s0[j + 1]
  <2>1. /\ j \in 1..n - 1 /\ j - 1 \in 0..(n - 1) - 1 /\ j + 1 \in 1..n
        /\ g + j - 1 = g + (j - 1) /\ f + (j + 1) - 1 = f + ((j - 1) + 1)
    BY <1>12
  <2>2. s1[j] = b[Wrap(g + j - 1, k)]
    BY <1>6, <1>11, <2>1 DEF LieSo
  <2>3. s1[j] = d.buf[Wrap(f + ((j - 1) + 1), k)]
    BY <1>9, <2>1, <2>2
  <2>4. s0[j + 1] = d.buf[Wrap(f + (j + 1) - 1, k)]
    BY <1>4, <2>1
  <2> QED
    BY <2>1, <2>3, <2>4
<1>14. s1 = Tail(s0)
  <2>1. Len(s1) = Len(s0) - 1 /\ s0 # <<>>
    BY <1>12
  <2> QED
    BY <1>4, <1>11, <1>13, <2>1, IsTail DEF LieSo
<1>15. s0[1] = d.buf[f]
  <2>1. 1 \in 1..n /\ f + 1 - 1 = f
    BY <1>12
  <2>2. Wrap(f, k) = f
    BY <1>1 DEF Wrap
  <2> QED
    BY <1>4, <2>1, <2>2
<1> QED
  BY <1>a, <1>6, <1>11, <1>14, <1>15 DEF s0, s1, x, n, k

LEMMA PopBackIs ==
  ASSUME NEW d, DequeShape(d), d.len > 0, NEW r \in deque_pop_back(d)
  PROVE  /\ r.ok = TRUE /\ r.gone = {DequeContents(d)[d.len]} /\ DequeShape(r.c)
         /\ r.c.len = d.len - 1
         /\ DequeContents(r.c) = Splice(DequeContents(d), d.len - 1, 1, <<>>)
<1> DEFINE k == CapOf(d.buf)
           f == d.first
           n == d.len
           l == IF d.last = 0 THEN k - 1 ELSE d.last - 1
           g == IF n = 1 THEN l ELSE f
           b == Written(d.buf, l, Blank)
           x == r.c
           s0 == DequeContents(d)
           s1 == DequeContents(x)
<1>1. /\ d = [buf |-> d.buf, first |-> f, last |-> d.last, len |-> n]
      /\ BufferOf(d.buf, Slot) /\ k \in Nat /\ n \in Nat /\ n <= k /\ k > 0 /\ n > 0
      /\ f \in 0..k - 1 /\ d.last = Wrap(f + n, k) /\ Blank \in Slot
  BY DequeFacts
<1>2. /\ x = [buf |-> b, first |-> g, last |-> l, len |-> n - 1]
      /\ r = [ok |-> TRUE, gone |-> {d.buf[l]}, c |-> x]
  <2> DEFINE d1 == [d EXCEPT !.buf = b]
             d2 == [d1 EXCEPT !.last = l]
             d3 == [d2 EXCEPT !.len = n - 1]
  <2>1. d1 = [buf |-> b, first |-> f, last |-> d.last, len |-> n]
    BY <1>1
  <2>2. d2 = [buf |-> b, first |-> f, last |-> l, len |-> n]
    <3> HIDE DEF d1
    <3> QED
      BY <2>1
  <2>3. d3 = [buf |-> b, first |-> f, last |-> l, len |-> n - 1]
    <3> HIDE DEF d2
    <3> QED
      BY <2>2
  <2>4. [d3 EXCEPT !.first = g] = [buf |-> b, first |-> g, last |-> l, len |-> n - 1]
    <3> HIDE DEF d3
    <3> QED
      BY <2>3
  <2>5. r = [ok |-> TRUE, gone |-> {d.buf[l]}, c |-> [d3 EXCEPT !.first = g]]
    BY DEF deque_pop_back, Vacated, Written
  <2> QED
    BY <2>4, <2>5
<1>3. IsWritten(b, d.buf, l, Blank, Slot)
  BY <1>1, WriteIs
<1>4. /\ s0 \in Seq(Elements) /\ Len(s0) = n
      /\ \A j \in 1..n : s0[j] = d.buf[Wrap(f + j - 1, k)]
  BY DequeContentsAre
<1>5. \A i \in 0..n - 1 : d.buf[Wrap(f + i, k)] \in Elements
  BY DEF DequeShape
<1>a. r.ok = TRUE /\ r.gone = {d.buf[l]} /\ x.len = n - 1
  BY <1>2
<1> HIDE DEF k, f, n, b, x, s0
<1>6. /\ BufferOf(b, Slot) /\ CapOf(b) = k
      /\ \A j \in 0..k - 1 : b[j] = IF j = l THEN Blank ELSE d.buf[j]
  BY <1>3 DEF IsWritten, k
<1>7. l = Wrap(f + (n - 1), k)
  BY <1>1 DEF Wrap
<1> HIDE DEF l
<1>8. g = f
  BY <1>1, <1>7 DEF Wrap
<1> HIDE DEF g
<1>9. ASSUME NEW i \in 0..(n - 1) - 1
      PROVE  /\ b[Wrap(f + i, k)] = d.buf[Wrap(f + i, k)]
             /\ b[Wrap(f + i, k)] \in Elements
  <2>1. i \in 0..k - 1 /\ n - 1 \in 0..k - 1 /\ i # n - 1 /\ i \in 0..k /\ i \in 0..n - 1
    BY <1>1
  <2>2. Wrap(f + i, k) # l
    BY <1>1, <1>7, <2>1, WrapApart
  <2>3. Wrap(f + i, k) \in 0..k - 1
    BY <1>1, <2>1, WrapInside
  <2> QED
    BY <1>5, <1>6, <2>1, <2>2, <2>3
<1>10. DequeShape(x) /\ LieSo(s1, b, f, n - 1)
  <2>1. /\ CapOf(b) > 0 /\ f \in 0..CapOf(b) - 1 /\ n - 1 \in 0..CapOf(b)
        /\ l = Wrap(f + (n - 1), CapOf(b))
    BY <1>1, <1>6, <1>7
  <2>2. Lie(b, f, n - 1)
    BY <1>6, <1>9 DEF Lie
  <2> QED
    BY <1>2, <1>6, <1>8, <2>1, <2>2, DequeMade
<1> HIDE DEF s1
<1>11. n \in Nat /\ n > 0 /\ Len(s1) = n - 1 /\ Len(s0) = n /\ f \in Nat
  BY <1>1, <1>4, <1>10 DEF LieSo
<1>12. ASSUME NEW j \in 1..Len(s1)
       PROVE  s1[j] = IF j <= n - 1 THEN s0[j] ELSE s0[j + 1]
  <2>1. /\ j \in 1..n - 1 /\ j - 1 \in 0..(n - 1) - 1 /\ j \in 1..n /\ j <= n - 1
        /\ f + j - 1 = f + (j - 1)
    BY <1>11
  <2>2. s1[j] = b[Wrap(f + j - 1, k)]
    BY <1>6, <1>10, <2>1 DEF LieSo
  <2>3. s1[j] = d.buf[Wrap(f + (j - 1), k)]
    BY <1>9, <2>1, <2>2
  <2>4. s0[j] = d.buf[Wrap(f + j - 1, k)]
    BY <1>4, <2>1
  <2> QED
    BY <2>1, <2>3, <2>4
<1>13. s1 = Splice(s0, n - 1, 1, <<>>)
  <2>1. Len(s1) = Len(s0) - 1 /\ n - 1 \in 0..Len(s0) - 1
    BY <1>11
  <2> QED
    BY <1>4, <1>10, <1>12, <2>1, IsCut DEF LieSo
<1>14. s0[n] = d.buf[l]
  <2>1. n \in 1..n /\ f + n - 1 = f + (n - 1)
    BY <1>11
  <2> QED
    BY <1>4, <1>7, <2>1
<1> QED
  BY <1>a, <1>10, <1>13, <1>14 DEF s0, s1, x, n
LEMMA DequePushBackIs ==
  ASSUME NEW d, DequeShape(d), NEW e \in Elements, NEW r \in deque_push_back(d, e)
  PROVE  /\ r.ok \in BOOLEAN /\ r.gone = {} /\ DequeShape(r.c)
         /\ ~r.ok => DequeContents(r.c) = DequeContents(d) /\ r.c.len = d.len
         /\ r.ok => /\ DequeContents(r.c) = Append(DequeContents(d), e)
                    /\ r.c.len = d.len + 1
<1>1. PICK s \in deque_reserve(d, 1) : r = IF s.ok THEN [s EXCEPT !.c = PutBack(@, e)] ELSE s
  BY Zenon DEF deque_push_back
<1>2. /\ s.ok \in BOOLEAN /\ s.gone = {} /\ DequeShape(s.c)
      /\ s = [ok |-> s.ok, c |-> s.c, gone |-> {}]
      /\ s.c.len = d.len /\ DequeContents(s.c) = DequeContents(d)
      /\ s.ok => CapOf(s.c.buf) >= d.len + 1
  BY DequeReserveIs
<1>3. CASE ~s.ok
  BY <1>1, <1>2, <1>3
<1>4. CASE s.ok
  <2>1. r.ok = TRUE /\ r.gone = {} /\ r.c = PutBack(s.c, e)
    BY <1>1, <1>2, <1>4
  <2>2. s.c.len < CapOf(s.c.buf)
    BY <1>2, <1>4, DequeFacts
  <2>3. /\ DequeShape(PutBack(s.c, e)) /\ PutBack(s.c, e).len = s.c.len + 1
        /\ DequeContents(PutBack(s.c, e)) = Append(DequeContents(s.c), e)
    BY <1>2, <2>2, PutBackIs
  <2> QED
    BY <1>2, <2>1, <2>3
<1> QED
  BY <1>3, <1>4

LEMMA DequePushFrontIs ==
  ASSUME NEW d, DequeShape(d), NEW e \in Elements, NEW r \in deque_push_front(d, e)
  PROVE  /\ r.ok \in BOOLEAN /\ r.gone = {} /\ DequeShape(r.c)
         /\ ~r.ok => DequeContents(r.c) = DequeContents(d)
         /\ r.ok => DequeContents(r.c) = <<e>> \o DequeContents(d)
<1>1. PICK s \in deque_reserve(d, 1) : r = IF s.ok THEN [s EXCEPT !.c = PutFront(@, e)] ELSE s
  BY Zenon DEF deque_push_front
<1>2. /\ s.ok \in BOOLEAN /\ s.gone = {} /\ DequeShape(s.c)
      /\ s = [ok |-> s.ok, c |-> s.c, gone |-> {}]
      /\ s.c.len = d.len /\ DequeContents(s.c) = DequeContents(d)
      /\ s.ok => CapOf(s.c.buf) >= d.len + 1
  BY DequeReserveIs
<1>3. CASE ~s.ok
  BY <1>1, <1>2, <1>3
<1>4. CASE s.ok
  <2>1. r.ok = TRUE /\ r.gone = {} /\ r.c = PutFront(s.c, e)
    BY <1>1, <1>2, <1>4
  <2>2. s.c.len < CapOf(s.c.buf)
    BY <1>2, <1>4, DequeFacts
  <2>3. /\ DequeShape(PutFront(s.c, e)) /\ PutFront(s.c, e).len = s.c.len + 1
        /\ DequeContents(PutFront(s.c, e)) = <<e>> \o DequeContents(s.c)
    BY <1>2, <2>2, PutFrontIs
  <2> QED
    BY <1>2, <2>1, <2>3
<1> QED
  BY <1>3, <1>4

\* A ring below its capacity appends; at it, the oldest goes first, and the
\* append cannot be refused: the storage has the slot just vacated.
LEMMA RingPushIs ==
  ASSUME NEW d, DequeShape(d), d.len <= RingCapacity, NEW e \in Elements,
         NEW r \in ring_buffer_push(d, e)
  PROVE  /\ r.ok \in BOOLEAN /\ DequeShape(r.c) /\ r.c.len <= RingCapacity
         /\ ~r.ok => r.gone = {} /\ DequeContents(r.c) = DequeContents(d)
         /\ r.ok /\ d.len < RingCapacity =>
              r.gone = {} /\ DequeContents(r.c) = Append(DequeContents(d), e)
         /\ r.ok /\ d.len = RingCapacity =>
              /\ r.gone = {DequeContents(d)[1]}
              /\ DequeContents(r.c) = Append(Tail(DequeContents(d)), e)
<1>1. d.len \in Nat /\ RingCapacity \in Nat /\ RingCapacity > 0
  BY DequeFacts, RingAssumption
<1>2. CASE d.len < RingCapacity
  <2>1. r \in deque_push_back(d, e)
    BY <1>2 DEF ring_buffer_push
  <2>2. /\ r.ok \in BOOLEAN /\ r.gone = {} /\ DequeShape(r.c)
        /\ ~r.ok => DequeContents(r.c) = DequeContents(d) /\ r.c.len = d.len
        /\ r.ok => /\ DequeContents(r.c) = Append(DequeContents(d), e)
                   /\ r.c.len = d.len + 1
    BY <2>1, DequePushBackIs
  <2>3. r.c.len <= RingCapacity
    BY <1>1, <1>2, <2>2
  <2>4. d.len # RingCapacity
    BY <1>1, <1>2
  <2> QED
    BY <1>2, <2>2, <2>3, <2>4
<1>3. CASE ~(d.len < RingCapacity)
  <2>1. d.len = RingCapacity /\ d.len > 0
    BY <1>1, <1>3
  <2> DEFINE p == CHOOSE q \in deque_pop_front(d) : TRUE
  <2>2. p \in deque_pop_front(d)
    BY DEF deque_pop_front
  <2>3. r \in {[q EXCEPT !.gone = p.gone] : q \in deque_push_back(p.c, e)}
    BY <1>3, Zenon DEF ring_buffer_push
  <2> HIDE DEF p
  <2>4. /\ p.gone = {DequeContents(d)[1]} /\ DequeShape(p.c)
        /\ p.c.len = d.len - 1 /\ CapOf(p.c.buf) = CapOf(d.buf)
        /\ DequeContents(p.c) = Tail(DequeContents(d))
    BY <2>1, <2>2, PopFrontIs
  <2>5. PICK q \in deque_push_back(p.c, e) : r = [q EXCEPT !.gone = p.gone]
    BY <2>3
  <2>6. CapOf(d.buf) \in Nat /\ d.len <= CapOf(d.buf)
    BY DequeFacts
  <2>7. p.c.len + 1 <= CapOf(p.c.buf)
    BY <1>1, <2>4, <2>6
  <2>8. deque_reserve(p.c, 1) = {[ok |-> TRUE, c |-> p.c, gone |-> {}]}
    BY <2>7 DEF deque_reserve
  <2>9. q = [ok |-> TRUE, c |-> PutBack(p.c, e), gone |-> {}]
    <3>1. PICK s \in deque_reserve(p.c, 1) :
            q = IF s.ok THEN [s EXCEPT !.c = PutBack(@, e)] ELSE s
      BY Zenon DEF deque_push_back
    <3>2. s = [ok |-> TRUE, c |-> p.c, gone |-> {}]
      BY <2>8
    <3> QED
      BY <3>1, <3>2
  <2>10. r.ok = TRUE /\ r.gone = p.gone /\ r.c = PutBack(p.c, e)
    BY <2>5, <2>9
  <2>11. /\ DequeShape(PutBack(p.c, e)) /\ PutBack(p.c, e).len = p.c.len + 1
         /\ DequeContents(PutBack(p.c, e)) = Append(DequeContents(p.c), e)
    <3>1. p.c.len < CapOf(p.c.buf)
      BY <2>4, <2>7, DequeFacts
    <3> QED
      BY <2>4, <3>1, PutBackIs
  <2>12. r.c.len <= RingCapacity
    BY <1>1, <2>1, <2>4, <2>10, <2>11
  <2> QED
    BY <1>3, <2>1, <2>4, <2>10, <2>11, <2>12
<1> QED
  BY <1>2, <1>3

LEMMA NewRing ==
  ASSUME NEW r \in ring_buffer_new
  PROVE  DequeShape(r.c) /\ DequeContents(r.c) = <<>> /\ r.c.len = 0
<1>1. PICK s \in deque_reserve(deque_new, RingCapacity) :
        r = [ok |-> s.ok, gone |-> {}, c |-> IF s.ok THEN s.c ELSE deque_new]
  BY Zenon DEF ring_buffer_new
<1>2. DequeShape(deque_new) /\ DequeContents(deque_new) = <<>> /\ deque_new.len = 0
  BY NewDeque
<1>3. DequeShape(s.c) /\ DequeContents(s.c) = <<>> /\ s.c.len = 0
  BY <1>2, DequeReserveIs, RingAssumption
<1> QED
  BY <1>1, <1>2, <1>3
-------------------------------------------------------------------------------
(* The linked list *)

\* The first n nodes by next and by prev, and what they should be.
ByNext(first, b, n) ==
  CHOOSE h : h = [k \in 1..n |-> IF k = 1 THEN first ELSE b[h[k - 1]].next]

ByPrev(first, b, n) ==
  CHOOSE h : h = [k \in 1..n |-> IF k = 1 THEN first ELSE b[h[k - 1]].prev]

IsByNext(t, first, b, n) ==
  \A k \in 1..n : t[k] = IF k = 1 THEN first ELSE b[t[k - 1]].next

IsByPrev(t, first, b, n) ==
  \A k \in 1..n : t[k] = IF k = 1 THEN first ELSE b[t[k - 1]].prev

\* Following next, or prev, from a node visits what it should.
LEMMA FollowNext ==
  ASSUME NEW n \in Nat, NEW first, NEW b, NEW t, IsByNext(t, first, b, n)
  PROVE  \A k \in 1..n : ByNext(first, b, n)[k] = t[k]
<1> DEFINE g == ByNext(first, b, n)
<1>a. \A k \in 1..n : t[k] = IF k = 1 THEN first ELSE b[t[k - 1]].next
  BY DEF IsByNext
<1>1. \E h : h = [k \in 1..n |-> IF k = 1 THEN first ELSE b[h[k - 1]].next]
  <2> DEFINE h == [k \in 1..n |-> t[k]]
  <2>1. ASSUME NEW k \in 1..n
        PROVE  h[k] = IF k = 1 THEN first ELSE b[h[k - 1]].next
    <3>1. k # 1 => k - 1 \in 1..n
      OBVIOUS
    <3> QED
      BY <1>a, <3>1
  <2>2. h = [k \in 1..n |-> h[k]]
    OBVIOUS
  <2> HIDE DEF h
  <2>3. h = [k \in 1..n |-> IF k = 1 THEN first ELSE b[h[k - 1]].next]
    BY <2>1, <2>2
  <2> QED
    BY <2>3
<1>2. \A k \in 1..n : g[k] = IF k = 1 THEN first ELSE b[g[k - 1]].next
  <2>1. g = [k \in 1..n |-> IF k = 1 THEN first ELSE b[g[k - 1]].next]
    BY <1>1, Zenon DEF ByNext
  <2> QED
    BY <2>1
<1> HIDE DEF g
<1> DEFINE Bad == {k \in 1..n : g[k] # t[k]}
<1>3. Bad = {}
  <2> SUFFICES ASSUME Bad # {} PROVE FALSE
    OBVIOUS
  <2>1. Bad \subseteq Nat
    OBVIOUS
  <2>2. PICK m \in Bad : \A k \in Bad : m <= k
    <3> HIDE DEF Bad
    <3> QED
      BY <2>1, LeastNumber
  <2>3. m \in 1..n /\ g[m] # t[m]
    OBVIOUS
  <2>4. CASE m = 1
    BY <1>a, <1>2, <2>3, <2>4
  <2>5. CASE m # 1
    <3>1. m - 1 \in 1..n /\ ~(m <= m - 1)
      BY <2>3, <2>5
    <3>2. g[m - 1] = t[m - 1]
      BY <2>2, <3>1
    <3>3. g[m] = b[g[m - 1]].next
      BY <1>2, <2>3, <2>5
    <3>4. t[m] = b[t[m - 1]].next
      BY <1>a, <2>3, <2>5
    <3> QED
      BY <2>3, <3>2, <3>3, <3>4
  <2> QED
    BY <2>4, <2>5
<1> QED
  BY <1>3 DEF g

LEMMA FollowPrev ==
  ASSUME NEW n \in Nat, NEW first, NEW b, NEW t, IsByPrev(t, first, b, n)
  PROVE  \A k \in 1..n : ByPrev(first, b, n)[k] = t[k]
<1> DEFINE g == ByPrev(first, b, n)
<1>a. \A k \in 1..n : t[k] = IF k = 1 THEN first ELSE b[t[k - 1]].prev
  BY DEF IsByPrev
<1>1. \E h : h = [k \in 1..n |-> IF k = 1 THEN first ELSE b[h[k - 1]].prev]
  <2> DEFINE h == [k \in 1..n |-> t[k]]
  <2>1. ASSUME NEW k \in 1..n
        PROVE  h[k] = IF k = 1 THEN first ELSE b[h[k - 1]].prev
    <3>1. k # 1 => k - 1 \in 1..n
      OBVIOUS
    <3> QED
      BY <1>a, <3>1
  <2>2. h = [k \in 1..n |-> h[k]]
    OBVIOUS
  <2> HIDE DEF h
  <2>3. h = [k \in 1..n |-> IF k = 1 THEN first ELSE b[h[k - 1]].prev]
    BY <2>1, <2>2
  <2> QED
    BY <2>3
<1>2. \A k \in 1..n : g[k] = IF k = 1 THEN first ELSE b[g[k - 1]].prev
  <2>1. g = [k \in 1..n |-> IF k = 1 THEN first ELSE b[g[k - 1]].prev]
    BY <1>1, Zenon DEF ByPrev
  <2> QED
    BY <2>1
<1> HIDE DEF g
<1> DEFINE Bad == {k \in 1..n : g[k] # t[k]}
<1>3. Bad = {}
  <2> SUFFICES ASSUME Bad # {} PROVE FALSE
    OBVIOUS
  <2>1. Bad \subseteq Nat
    OBVIOUS
  <2>2. PICK m \in Bad : \A k \in Bad : m <= k
    <3> HIDE DEF Bad
    <3> QED
      BY <2>1, LeastNumber
  <2>3. m \in 1..n /\ g[m] # t[m]
    OBVIOUS
  <2>4. CASE m = 1
    BY <1>a, <1>2, <2>3, <2>4
  <2>5. CASE m # 1
    <3>1. m - 1 \in 1..n /\ ~(m <= m - 1)
      BY <2>3, <2>5
    <3>2. g[m - 1] = t[m - 1]
      BY <2>2, <3>1
    <3>3. g[m] = b[g[m - 1]].prev
      BY <1>2, <2>3, <2>5
    <3>4. t[m] = b[t[m - 1]].prev
      BY <1>a, <2>3, <2>5
    <3> QED
      BY <2>3, <3>2, <3>3, <3>4
  <2> QED
    BY <2>4, <2>5
<1> QED
  BY <1>3 DEF g

Nodes == [prev : Nat \cup {None}, next : Nat \cup {None}, value : Slot]

\* The i-th node of a path of n, None beside it.
At(p, n, i) == IF i \in 1..n THEN p[i] ELSE None

OneToOne(p, n, k) ==
  /\ p \in [1..n -> 0..k - 1]
  /\ \A i, j \in 1..n : p[i] = p[j] => i = j

Chained(b, p, n) ==
  \A i \in 1..n : /\ b[p[i]].prev = At(p, n, i - 1)
                  /\ b[p[i]].next = At(p, n, i + 1)
                  /\ b[p[i]].value \in Elements

FreeChained(b, q, m) ==
  \A i \in 1..m : b[q[i]].prev = q[i] /\ b[q[i]].next = At(q, m, i + 1)

\* p are the nodes from first to last, q those of the free list: every node is
\* in one of the two, and in it once.
Linked(l, p, q) ==
  /\ l = [buf |-> l.buf, first |-> l.first, last |-> l.last, free |-> l.free, len |-> l.len]
  /\ BufferOf(l.buf, Nodes)
  /\ l.len \in Nat /\ l.len <= CapOf(l.buf)
  /\ OneToOne(p, l.len, CapOf(l.buf)) /\ OneToOne(q, CapOf(l.buf) - l.len, CapOf(l.buf))
  /\ \A i \in 0..CapOf(l.buf) - 1 :
       \/ \E n \in 1..l.len : p[n] = i
       \/ \E n \in 1..CapOf(l.buf) - l.len : q[n] = i
  /\ Chained(l.buf, p, l.len) /\ FreeChained(l.buf, q, CapOf(l.buf) - l.len)
  /\ l.first = At(p, l.len, 1) /\ l.last = At(p, l.len, l.len)
  /\ l.free = At(q, CapOf(l.buf) - l.len, 1)

ListShape(l) == \E p, q : Linked(l, p, q)

LEMMA LinkedFacts ==
  ASSUME NEW l, NEW p, NEW q, Linked(l, p, q)
  PROVE  /\ CapOf(l.buf) \in Nat /\ DOMAIN l.buf = 0..CapOf(l.buf) - 1
         /\ l.len \in Nat /\ CapOf(l.buf) - l.len \in Nat
         /\ \A i \in 1..l.len : p[i] \in 0..CapOf(l.buf) - 1
         /\ \A i \in 1..CapOf(l.buf) - l.len : q[i] \in 0..CapOf(l.buf) - 1
         /\ \A i \in 0..CapOf(l.buf) - 1 : l.buf[i] \in Nodes
         /\ None \notin Nat /\ Blank \in Slot /\ \A e \in Elements : e \in Slot
<1>1. CapOf(l.buf) \in Nat /\ DOMAIN l.buf = 0..CapOf(l.buf) - 1
  BY CapIs DEF Linked, BufferOf
<1> QED
  BY <1>1, NoneAssumption DEF Linked, BufferOf, OneToOne, Slot

\* No node is in both.
LEMMA Apart ==
  ASSUME NEW l, NEW p, NEW q, Linked(l, p, q),
         NEW i \in 1..l.len, NEW j \in 1..CapOf(l.buf) - l.len
  PROVE  p[i] # q[j]
<1>1. /\ l.len \in Nat /\ \A k \in 1..l.len : p[k] \in 0..CapOf(l.buf) - 1
      /\ CapOf(l.buf) \in Nat
  BY LinkedFacts
<1>2. l.buf[p[i]].prev = At(p, l.len, i - 1)
  BY DEF Linked, Chained
<1>3. l.buf[q[j]].prev = q[j]
  BY DEF Linked, FreeChained
<1>4. \A k \in 1..l.len : p[k] = p[i] => k = i
  BY DEF Linked, OneToOne
<1>5. At(p, l.len, i - 1) # p[i]
  <2>1. CASE i - 1 \in 1..l.len
    <3>1. i - 1 # i
      BY <1>1
    <3> QED
      BY <1>4, <2>1, <3>1 DEF At
  <2>2. CASE i - 1 \notin 1..l.len
    BY <1>1, <2>2, NoneAssumption DEF At
  <2> QED
    BY <2>1, <2>2
<1> QED
  BY <1>2, <1>3, <1>5
LEMMA PathIs ==
  ASSUME NEW l, NEW p, NEW q, Linked(l, p, q)
  PROVE  /\ \A k \in 1..l.len : p[k] = IF k = 1 THEN l.first ELSE l.buf[p[k - 1]].next
         /\ \A k \in 1..l.len :
              p[l.len + 1 - k] = IF k = 1 THEN l.last
                                 ELSE l.buf[p[l.len + 1 - (k - 1)]].prev
         /\ \A k \in 1..CapOf(l.buf) - l.len + 1 :
              At(q, CapOf(l.buf) - l.len, k) =
                IF k = 1 THEN l.free ELSE l.buf[At(q, CapOf(l.buf) - l.len, k - 1)].next
<1> DEFINE n == l.len
           m == CapOf(l.buf) - l.len
           b == l.buf
<1>1. n \in Nat /\ m \in Nat
  BY LinkedFacts
<1>2. /\ l.first = At(p, n, 1) /\ l.last = At(p, n, n) /\ l.free = At(q, m, 1)
      /\ Chained(b, p, n) /\ FreeChained(b, q, m)
  BY DEF Linked
<1> HIDE DEF n, m, b
<1>3. ASSUME NEW k \in 1..n PROVE p[k] = IF k = 1 THEN l.first ELSE b[p[k - 1]].next
  <2>1. CASE k = 1
    BY <1>1, <1>2, <2>1 DEF At
  <2>2. CASE k # 1
    <3>1. k - 1 \in 1..n /\ k - 1 + 1 = k
      BY <1>1, <2>2
    <3>2. b[p[k - 1]].next = At(p, n, k)
      BY <1>2, <3>1 DEF Chained
    <3> QED
      BY <2>2, <3>2 DEF At
  <2> QED
    BY <2>1, <2>2
<1>4. ASSUME NEW k \in 1..n
      PROVE  p[n + 1 - k] = IF k = 1 THEN l.last ELSE b[p[n + 1 - (k - 1)]].prev
  <2>1. CASE k = 1
    <3>1. n + 1 - k = n /\ n \in 1..n
      BY <1>1, <2>1
    <3> QED
      BY <1>2, <2>1, <3>1 DEF At
  <2>2. CASE k # 1
    <3>1. /\ n + 1 - (k - 1) \in 1..n /\ n + 1 - (k - 1) - 1 = n + 1 - k
          /\ n + 1 - k \in 1..n
      BY <1>1, <2>2
    <3>2. b[p[n + 1 - (k - 1)]].prev = At(p, n, n + 1 - k)
      <4> DEFINE i == n + 1 - (k - 1)
                 j == n + 1 - k
      <4>1. i \in 1..n /\ j = i - 1
        BY <1>1, <2>2
      <4> HIDE DEF i, j
      <4>2. b[p[i]].prev = At(p, n, j)
        BY <1>2, <4>1 DEF Chained
      <4> QED
        BY <4>2 DEF i, j
    <3> QED
      BY <2>2, <3>1, <3>2 DEF At
  <2> QED
    BY <2>1, <2>2
<1>5. ASSUME NEW k \in 1..m + 1
      PROVE  At(q, m, k) = IF k = 1 THEN l.free ELSE b[At(q, m, k - 1)].next
  <2>1. CASE k = 1
    BY <1>2, <2>1
  <2>2. CASE k # 1
    <3>1. k - 1 \in 1..m /\ k - 1 + 1 = k
      BY <1>1, <2>2
    <3>2. b[q[k - 1]].next = At(q, m, k)
      BY <1>2, <3>1 DEF FreeChained
    <3>3. At(q, m, k - 1) = q[k - 1]
      BY <3>1 DEF At
    <3> QED
      BY <2>2, <3>2, <3>3
  <2> QED
    BY <2>1, <2>2
<1> QED
  BY <1>3, <1>4, <1>5 DEF n, m, b

LEMMA ForwardIs ==
  ASSUME NEW l, NEW p, NEW q, Linked(l, p, q), NEW n \in 1..l.len
  PROVE  Forward(l, n) = p[n]
<1>1. Forward(l, n) = ByNext(l.first, l.buf, n)[n]
  BY DEF Forward, ByNext
<1>2. n \in Nat /\ l.len \in Nat /\ n \in 1..n
  BY LinkedFacts
<1>3. IsByNext(p, l.first, l.buf, n)
  BY <1>2, PathIs DEF IsByNext
<1>4. \A k \in 1..n : ByNext(l.first, l.buf, n)[k] = p[k]
  BY <1>2, <1>3, FollowNext
<1> QED
  BY <1>1, <1>2, <1>4

LEMMA BackwardIs ==
  ASSUME NEW l, NEW p, NEW q, Linked(l, p, q), NEW n \in 1..l.len
  PROVE  Backward(l, n) = p[l.len + 1 - n]
<1> DEFINE t == [k \in 1..n |-> p[l.len + 1 - k]]
<1>1. Backward(l, n) = ByPrev(l.last, l.buf, n)[n]
  BY DEF Backward, ByPrev
<1>2. n \in Nat /\ l.len \in Nat /\ n \in 1..n
  BY LinkedFacts
<1>3. ASSUME NEW k \in 1..n
      PROVE  t[k] = IF k = 1 THEN l.last ELSE l.buf[t[k - 1]].prev
  <2>1. k \in 1..l.len /\ (k # 1 => k - 1 \in 1..n)
    BY <1>2
  <2>2. p[l.len + 1 - k] = IF k = 1 THEN l.last ELSE l.buf[p[l.len + 1 - (k - 1)]].prev
    BY <2>1, PathIs
  <2>3. t[k] = p[l.len + 1 - k]
    OBVIOUS
  <2>4. k # 1 => t[k - 1] = p[l.len + 1 - (k - 1)]
    BY <2>1
  <2> HIDE DEF t
  <2> QED
    BY <2>2, <2>3, <2>4
<1>4. t[n] = p[l.len + 1 - n]
  BY <1>2
<1> HIDE DEF t
<1>5. IsByPrev(t, l.last, l.buf, n)
  BY <1>3 DEF IsByPrev
<1>6. \A k \in 1..n : ByPrev(l.last, l.buf, n)[k] = t[k]
  BY <1>2, <1>5, FollowPrev
<1> QED
  BY <1>1, <1>2, <1>4, <1>6

LEMMA ListContentsAre ==
  ASSUME NEW l, NEW p, NEW q, Linked(l, p, q)
  PROVE  /\ ListContents(l) \in Seq(Elements) /\ Len(ListContents(l)) = l.len
         /\ DOMAIN ListContents(l) = 1..l.len
         /\ \A j \in 1..l.len : ListContents(l)[j] = l.buf[p[j]].value
<1> DEFINE t == ListContents(l)
<1>1. t = [n \in 1..l.len |-> l.buf[Forward(l, n)].value]
  BY DEF ListContents
<1>2. l.len \in Nat
  BY LinkedFacts
<1> HIDE DEF t
<1>3. ASSUME NEW n \in 1..l.len
      PROVE  t[n] = l.buf[p[n]].value /\ t[n] \in Elements
  <2>1. Forward(l, n) = p[n]
    BY ForwardIs
  <2>2. t[n] = l.buf[Forward(l, n)].value
    BY <1>1
  <2>3. l.buf[p[n]].value \in Elements
    BY DEF Linked, Chained
  <2> QED
    BY <2>1, <2>2, <2>3
<1>4. t \in [1..l.len -> Elements]
  BY <1>1, <1>3
<1>5. t \in Seq(Elements) /\ Len(t) = l.len /\ DOMAIN t = 1..l.len
  BY <1>2, <1>4, MadeSequence
<1> QED
  BY <1>3, <1>5 DEF t

\* The nodes in use are those of the path.
LEMMA ActiveIs ==
  ASSUME NEW l, NEW p, NEW q, Linked(l, p, q), NEW i \in DOMAIN l.buf
  PROVE  is_active(l, i) <=> \E n \in 1..l.len : p[n] = i
<1> DEFINE m == CapOf(l.buf) - l.len
<1>1. DOMAIN l.buf = 0..CapOf(l.buf) - 1 /\ \A n \in 1..l.len : p[n] \in 0..CapOf(l.buf) - 1
      /\ l.len \in Nat /\ CapOf(l.buf) \in Nat
  BY LinkedFacts
<1>2. ASSUME NEW n \in 1..l.len, p[n] = i PROVE l.buf[i].prev # i
  <2>1. l.buf[p[n]].prev = At(p, l.len, n - 1)
    BY DEF Linked, Chained
  <2>2. CASE n - 1 \in 1..l.len
    <3>1. p[n - 1] # p[n]
      <4>1. n - 1 # n
        BY <1>1
      <4> QED
        BY <2>2, <4>1 DEF Linked, OneToOne
    <3> QED
      BY <1>2, <2>1, <2>2, <3>1 DEF At
  <2>3. CASE n - 1 \notin 1..l.len
    <3>1. i \in Nat
      BY <1>1
    <3> QED
      BY <1>2, <2>1, <2>3, <3>1, NoneAssumption DEF At
  <2> QED
    BY <2>2, <2>3
<1>3. ASSUME NEW n \in 1..m, q[n] = i PROVE l.buf[i].prev = i
  BY <1>3 DEF Linked, FreeChained
<1>4. (\E n \in 1..l.len : p[n] = i) \/ \E n \in 1..m : q[n] = i
  BY <1>1 DEF Linked
<1> QED
  BY <1>2, <1>3, <1>4, Zenon DEF is_active
\* What ListWhole says of a list.
Whole1(l) ==
  LET used == {Forward(l, n) : n \in 1..l.len}
      spare == Cardinality(DOMAIN l.buf) - l.len
      free[n \in 1..spare + 1] == IF n = 1 THEN l.free ELSE l.buf[free[n - 1]].next
  IN /\ \A n \in 1..l.len : Forward(l, n) = Backward(l, l.len + 1 - n)
     /\ used = {i \in DOMAIN l.buf : is_active(l, i)}
     /\ {free[n] : n \in 1..spare} = DOMAIN l.buf \ used
     /\ free[spare + 1] = None

LEMMA ShapeIsWhole == ASSUME NEW l, ListShape(l) PROVE Whole1(l)
<1>1. PICK p, q : Linked(l, p, q)
  BY DEF ListShape
<1> DEFINE used == {Forward(l, n) : n \in 1..l.len}
           m == Cardinality(DOMAIN l.buf) - l.len
           f == ByNext(l.free, l.buf, m + 1)
<1>2. /\ CapOf(l.buf) \in Nat /\ DOMAIN l.buf = 0..CapOf(l.buf) - 1
      /\ l.len \in Nat /\ CapOf(l.buf) - l.len \in Nat
      /\ \A i \in 1..l.len : p[i] \in 0..CapOf(l.buf) - 1
      /\ \A i \in 1..CapOf(l.buf) - l.len : q[i] \in 0..CapOf(l.buf) - 1
  BY <1>1, LinkedFacts
<1>3. m = CapOf(l.buf) - l.len /\ m \in Nat /\ m + 1 \in Nat
  BY <1>2 DEF CapOf
<1> HIDE DEF m
<1>4. \A n \in 1..l.len : Forward(l, n) = p[n]
  BY <1>1, ForwardIs
<1>5. ASSUME NEW n \in 1..l.len PROVE Forward(l, n) = Backward(l, l.len + 1 - n)
  <2> DEFINE k == l.len + 1 - n
  <2>1. k \in 1..l.len /\ l.len + 1 - k = n
    <3>1. l.len \in Nat
      BY <1>2
    <3> QED
      BY <3>1
  <2> HIDE DEF k
  <2>2. Backward(l, k) = p[l.len + 1 - k]
    BY <1>1, <2>1, BackwardIs
  <2> QED
    BY <1>4, <2>1, <2>2 DEF k
<1>6. used = {p[n] : n \in 1..l.len}
  BY <1>4
<1>7. used = {i \in DOMAIN l.buf : is_active(l, i)}
  <2>1. \A i \in DOMAIN l.buf : is_active(l, i) <=> \E n \in 1..l.len : p[n] = i
    BY <1>1, ActiveIs
  <2> HIDE DEF used
  <2> QED
    BY <1>2, <1>6, <2>1
<1>8. \A n \in 1..m + 1 : f[n] = At(q, m, n)
  <2> DEFINE t == [n \in 1..m + 1 |-> At(q, m, n)]
  <2>1. ASSUME NEW k \in 1..m + 1
        PROVE  t[k] = IF k = 1 THEN l.free ELSE l.buf[t[k - 1]].next
    <3>1. At(q, m, k) = IF k = 1 THEN l.free ELSE l.buf[At(q, m, k - 1)].next
      BY <1>1, <1>3, PathIs
    <3>2. k # 1 => k - 1 \in 1..m + 1
      BY <1>3
    <3> QED
      BY <3>1, <3>2
  <2>2. \A n \in 1..m + 1 : t[n] = At(q, m, n)
    OBVIOUS
  <2> HIDE DEF t
  <2>3. IsByNext(t, l.free, l.buf, m + 1)
    BY <2>1 DEF IsByNext
  <2>4. \A k \in 1..m + 1 : f[k] = t[k]
    BY <1>3, <2>3, FollowNext
  <2> QED
    BY <2>2, <2>4
<1> HIDE DEF f
<1>9. f[m + 1] = None
  <2>1. m + 1 \in 1..m + 1 /\ m + 1 \notin 1..m
    BY <1>3
  <2> QED
    BY <1>8, <2>1 DEF At
<1>10. {f[n] : n \in 1..m} = DOMAIN l.buf \ used
  <2>1. \A n \in 1..m : f[n] = q[n]
    BY <1>3, <1>8 DEF At
  <2>2. \A n \in 1..m : q[n] \in DOMAIN l.buf /\ q[n] \notin used
    <3> SUFFICES ASSUME NEW n \in 1..m PROVE q[n] \in DOMAIN l.buf /\ q[n] \notin used
      OBVIOUS
    <3>1. q[n] \in DOMAIN l.buf
      BY <1>2, <1>3
    <3>2. \A i \in 1..l.len : p[i] # q[n]
      BY <1>1, <1>3, Apart
    <3> HIDE DEF used
    <3> QED
      BY <1>6, <3>1, <3>2
  <2>3. ASSUME NEW i \in DOMAIN l.buf, i \notin used PROVE \E n \in 1..m : q[n] = i
    <3>1. (\E n \in 1..l.len : p[n] = i) \/ \E n \in 1..m : q[n] = i
      BY <1>1, <1>2, <1>3 DEF Linked
    <3> HIDE DEF used
    <3> QED
      BY <1>6, <2>3, <3>1
  <2> HIDE DEF used
  <2> QED
    BY <2>1, <2>2, <2>3
<1>11. m = Cardinality(DOMAIN l.buf) - l.len
  BY DEF m
<1> QED
  BY <1>5, <1>7, <1>9, <1>10, <1>11 DEF Whole1, f, ByNext
LEMMA NodeIs ==
  ASSUME NEW w \in Nodes
  PROVE  /\ w.prev \in Nat \cup {None} /\ w.next \in Nat \cup {None} /\ w.value \in Slot
         /\ \A a : /\ [w EXCEPT !.prev = a] = [prev |-> a, next |-> w.next, value |-> w.value]
                   /\ [w EXCEPT !.next = a] = [prev |-> w.prev, next |-> a, value |-> w.value]
BY DEF Nodes


\* A path with one node more before it, and without its first node.
Among(i, p, n) == \E a \in 1..n : p[a] = i

Longer(i, p, n) == [a \in 1..n + 1 |-> IF a = 1 THEN i ELSE p[a - 1]]

Shorter(p, n) == [a \in 1..n - 1 |-> p[a + 1]]

IsLonger(r, i, p, n) ==
  /\ At(r, n + 1, 1) = i
  /\ \A a \in 1..n + 1 : At(r, n + 1, a + 1) = At(p, n, a)
  /\ r[1] = i /\ \A a \in 1..n : r[a + 1] = p[a]

IsShorter(r, p, n) ==
  /\ \A a \in 1..n : At(r, n - 1, a) = At(p, n, a + 1)
  /\ \A a \in 1..n - 1 : r[a] = p[a + 1]

LEMMA LongerFront ==
  ASSUME NEW n \in Nat, NEW k \in Nat, NEW p, OneToOne(p, n, k), NEW i \in 0..k - 1,
         ~Among(i, p, n)
  PROVE  OneToOne(Longer(i, p, n), n + 1, k) /\ IsLonger(Longer(i, p, n), i, p, n)
<1> DEFINE r == Longer(i, p, n)
<1>0. r = [a \in 1..n + 1 |-> IF a = 1 THEN i ELSE p[a - 1]] /\ \A a \in 1..n : p[a] # i
  BY DEF Longer, Among
<1> HIDE DEF r
<1>1. \A a \in 1..n : p[a] \in 0..k - 1
  BY DEF OneToOne
<1>2. \A a, c1 \in 1..n : p[a] = p[c1] => a = c1
  BY DEF OneToOne
<1>3. r[1] = i
  BY <1>0
<1>4. ASSUME NEW a \in 1..n PROVE r[a + 1] = p[a]
  <2>1. a + 1 \in 1..n + 1 /\ a + 1 # 1 /\ a + 1 - 1 = a
    OBVIOUS
  <2> QED
    BY <1>0, <2>1
<1>5. r \in [1..n + 1 -> 0..k - 1]
  <2>1. ASSUME NEW a \in 1..n + 1 PROVE (IF a = 1 THEN i ELSE p[a - 1]) \in 0..k - 1
    <3>1. a # 1 => a - 1 \in 1..n
      OBVIOUS
    <3> QED
      BY <1>1, <3>1
  <2> QED
    BY <1>0, <2>1
<1>6. ASSUME NEW a \in 1..n + 1, NEW d \in 1..n + 1, r[a] = r[d] PROVE a = d
  <2>1. \A j \in 1..n + 1 : r[j] = IF j = 1 THEN i ELSE p[j - 1]
    BY <1>0
  <2>2. (a # 1 => a - 1 \in 1..n) /\ (d # 1 => d - 1 \in 1..n)
    OBVIOUS
  <2>3. CASE a = 1 \/ d = 1
    BY <1>0, <1>6, <2>1, <2>2, <2>3
  <2>4. CASE a # 1 /\ d # 1
    <3>1. p[a - 1] = p[d - 1]
      BY <1>6, <2>1, <2>4
    <3>2. a - 1 = d - 1
      BY <1>2, <2>2, <2>4, <3>1
    <3> QED
      BY <3>2
  <2> QED
    BY <2>3, <2>4
<1>7. ASSUME NEW a \in 1..n + 1 PROVE At(r, n + 1, a + 1) = At(p, n, a)
  <2>1. a + 1 \in 1..n + 1 <=> a \in 1..n
    OBVIOUS
  <2> QED
    BY <1>4, <2>1 DEF At
<1>8. At(r, n + 1, 1) = i
  <2>1. 1 \in 1..n + 1
    OBVIOUS
  <2> QED
    BY <1>3, <2>1 DEF At
<1>9. OneToOne(r, n + 1, k)
  BY <1>5, <1>6 DEF OneToOne
<1> QED
  BY <1>3, <1>4, <1>7, <1>8, <1>9 DEF IsLonger, r

LEMMA ShorterFront ==
  ASSUME NEW n \in Nat, n > 0, NEW k \in Nat, NEW p, OneToOne(p, n, k)
  PROVE  OneToOne(Shorter(p, n), n - 1, k) /\ IsShorter(Shorter(p, n), p, n)
<1> DEFINE r == Shorter(p, n)
<1>0. r = [a \in 1..n - 1 |-> p[a + 1]]
  BY DEF Shorter
<1> HIDE DEF r
<1>1. \A a \in 1..n : p[a] \in 0..k - 1
  BY DEF OneToOne
<1>2. \A a, d \in 1..n : p[a] = p[d] => a = d
  BY DEF OneToOne
<1>3. \A a \in 1..n - 1 : r[a] = p[a + 1] /\ a + 1 \in 1..n
  BY <1>0
<1>4. r \in [1..n - 1 -> 0..k - 1]
  BY <1>0, <1>1, <1>3
<1>5. ASSUME NEW a \in 1..n - 1, NEW d \in 1..n - 1, r[a] = r[d] PROVE a = d
  <2>1. p[a + 1] = p[d + 1] /\ a + 1 \in 1..n /\ d + 1 \in 1..n
    BY <1>3, <1>5
  <2>2. a + 1 = d + 1
    BY <1>2, <2>1
  <2> QED
    BY <2>2
<1>6. ASSUME NEW a \in 1..n PROVE At(r, n - 1, a) = At(p, n, a + 1)
  <2>1. a \in 1..n - 1 <=> a + 1 \in 1..n
    OBVIOUS
  <2> QED
    BY <1>3, <2>1 DEF At
<1>7. OneToOne(r, n - 1, k)
  BY <1>4, <1>5 DEF OneToOne
<1> QED
  BY <1>3, <1>6, <1>7 DEF IsShorter, r

LEMMA LinkFrontIs ==
  ASSUME NEW l, NEW p, NEW q, Linked(l, p, q), l.free # None, NEW e \in Elements
  PROVE  LET x == LinkFront(l, l.free, e)
         IN /\ ListShape(x) /\ x.len = l.len + 1
            /\ ListContents(x) = <<e>> \o ListContents(l)
<1> DEFINE n == l.len
           k == CapOf(l.buf)
           m == k - n
           b == l.buf
           i == l.free
           x == LinkFront(l, i, e)
           b1 == x.buf
           p1 == Longer(i, p, n)
           q1 == Shorter(q, m)
<1>1. /\ k \in Nat /\ DOMAIN b = 0..k - 1 /\ n \in Nat /\ m \in Nat
      /\ \A a \in 1..n : p[a] \in 0..k - 1
      /\ \A a \in 1..m : q[a] \in 0..k - 1
      /\ \A j \in 0..k - 1 : b[j] \in Nodes
      /\ None \notin Nat /\ Blank \in Slot /\ e \in Slot
  BY LinkedFacts
<1>2. /\ l = [buf |-> b, first |-> l.first, last |-> l.last, free |-> l.free, len |-> n]
      /\ BufferOf(b, Nodes) /\ n <= k
      /\ OneToOne(p, n, k) /\ OneToOne(q, m, k)
      /\ \A j \in 0..k - 1 : (\E a \in 1..n : p[a] = j) \/ (\E a \in 1..m : q[a] = j)
      /\ Chained(b, p, n) /\ FreeChained(b, q, m)
      /\ l.first = At(p, n, 1) /\ l.last = At(p, n, n) /\ i = At(q, m, 1)
  BY DEF Linked
<1>3. m > 0 /\ i = q[1] /\ i \in 0..k - 1 /\ 1 \in 1..m
  <2>1. 1 \in 1..m
    BY <1>2 DEF At
  <2> QED
    BY <1>1, <1>2, <2>1 DEF At
<1>4. \A a \in 1..n : p[a] # i
  BY <1>3, Apart
<1>5. \A a \in 2..m : q[a] # i
  <2> SUFFICES ASSUME NEW a \in 2..m PROVE q[a] # i
    OBVIOUS
  <2>1. a \in 1..m /\ 1 \in 1..m /\ a # 1
    BY <1>1
  <2> QED
    BY <1>2, <1>3, <2>1 DEF OneToOne
<1>6. \A a \in 1..n, d \in 1..m : p[a] # q[d]
  BY Apart
<1>7. b[i].next = At(q, m, 2)
  BY <1>2, <1>3 DEF FreeChained
<1>8. /\ x = [l EXCEPT !.free = b[i].next, !.first = i, !.len = @ + 1,
                       !.last = IF l.first = None THEN i ELSE @,
                       !.buf = [j \in DOMAIN b |->
                         IF j = i THEN [prev |-> None, next |-> l.first, value |-> e]
                         ELSE IF j = l.first THEN [b[j] EXCEPT !.prev = i]
                         ELSE b[j]]]
  BY DEF LinkFront
<1> HIDE DEF n, k, b, i, x
<1> DEFINE w == [j \in 0..k - 1 |->
                  IF j = i THEN [prev |-> None, next |-> l.first, value |-> e]
                  ELSE IF j = l.first THEN [b[j] EXCEPT !.prev = i]
                  ELSE b[j]]
           final == IF l.first = None THEN i ELSE l.last
<1>9. x = [buf |-> w, first |-> i, last |-> final, free |-> At(q, m, 2), len |-> n + 1]
  <2> DEFINE r == [buf |-> b, first |-> l.first, last |-> l.last, free |-> l.free, len |-> n]
             d1 == [r EXCEPT !.free = At(q, m, 2)]
             d2 == [d1 EXCEPT !.first = i]
             d3 == [d2 EXCEPT !.len = @ + 1]
             d4 == [d3 EXCEPT !.last = final]
  <2>1. x = [d4 EXCEPT !.buf = w]
    BY <1>1, <1>2, <1>7, <1>8
  <2>2. d1 = [buf |-> b, first |-> l.first, last |-> l.last, free |-> At(q, m, 2), len |-> n]
    OBVIOUS
  <2> HIDE DEF d1
  <2>3. d2 = [buf |-> b, first |-> i, last |-> l.last, free |-> At(q, m, 2), len |-> n]
    BY <2>2
  <2> HIDE DEF d2
  <2>4. d3 = [buf |-> b, first |-> i, last |-> l.last, free |-> At(q, m, 2), len |-> n + 1]
    BY <2>3
  <2> HIDE DEF d3
  <2>5. d4 = [buf |-> b, first |-> i, last |-> final, free |-> At(q, m, 2), len |-> n + 1]
    BY <2>4
  <2> HIDE DEF d4, w, final
  <2> QED
    BY <2>1, <2>5
<1>10. /\ b1 = w /\ x.first = i /\ x.last = final /\ x.free = At(q, m, 2) /\ x.len = n + 1
       /\ x = [buf |-> x.buf, first |-> x.first, last |-> x.last, free |-> x.free,
               len |-> x.len]
  BY <1>9
<1> HIDE DEF b1
<1>11. /\ b1[i] = [prev |-> None, next |-> l.first, value |-> e]
       /\ \A j \in 0..k - 1 : j # i /\ j = l.first => b1[j] = [b[j] EXCEPT !.prev = i]
       /\ \A j \in 0..k - 1 : j # i /\ j # l.first => b1[j] = b[j]
       /\ b1 = [j \in 0..k - 1 |-> b1[j]]
  BY <1>3, <1>10
<1>12. l.first \in Nat \cup {None} /\ i \in Nat
  BY <1>1, <1>2, <1>3 DEF At
<1> HIDE DEF w
<1>13. BufferOf(b1, Nodes) /\ CapOf(b1) = k
  <2>1. IsBuffer(b1) /\ CapOf(b1) = k
    BY <1>1, <1>11, BufferIs
  <2>2. ASSUME NEW j \in 0..k - 1 PROVE b1[j] \in Nodes
    <3>1. CASE j = i
      BY <1>1, <1>11, <1>12, <3>1 DEF Nodes
    <3>2. CASE j # i /\ j = l.first
      <4>1. b1[j] = [prev |-> i, next |-> b[j].next, value |-> b[j].value]
        <5>1. b1[j] = [b[j] EXCEPT !.prev = i] /\ b[j] \in Nodes
          BY <1>1, <1>11, <3>2
        <5> QED
          BY <5>1, NodeIs
      <4>2. b[j].next \in Nat \cup {None} /\ b[j].value \in Slot
        BY <1>1, NodeIs
      <4> QED
        BY <1>12, <4>1, <4>2 DEF Nodes
    <3>3. CASE j # i /\ j # l.first
      BY <1>1, <1>11, <3>3
    <3> QED
      BY <3>1, <3>2, <3>3
  <2>3. k <= MaxCapacity
    BY <1>2 DEF BufferOf, k, b
  <2> QED
    BY <2>1, <2>2, <2>3 DEF BufferOf
<1>14. ASSUME NEW a \in 1..n
       PROVE  /\ b1[p[a]].prev = IF a = 1 THEN i ELSE At(p, n, a - 1)
              /\ b1[p[a]].next = At(p, n, a + 1)
              /\ b1[p[a]].value = b[p[a]].value /\ b[p[a]].value \in Elements
  <2>1. /\ p[a] \in 0..k - 1 /\ p[a] # i
        /\ b[p[a]].prev = At(p, n, a - 1) /\ b[p[a]].next = At(p, n, a + 1)
        /\ b[p[a]].value \in Elements /\ b[p[a]] \in Nodes
    BY <1>1, <1>2, <1>4 DEF Chained
  <2>2. CASE a = 1
    <3>1. p[a] = l.first
      BY <1>2, <2>2 DEF At
    <3>2. b1[p[a]] = [prev |-> i, next |-> b[p[a]].next, value |-> b[p[a]].value]
      <4>1. b1[p[a]] = [b[p[a]] EXCEPT !.prev = i]
        BY <1>11, <2>1, <3>1
      <4> QED
        BY <2>1, <4>1, NodeIs
    <3> QED
      BY <2>1, <2>2, <3>2
  <2>3. CASE a # 1
    <3>1. p[a] # l.first
      <4>1. 1 \in 1..n
        BY <1>1, <2>3
      <4> QED
        BY <1>2, <2>3, <4>1 DEF At, OneToOne
    <3> QED
      BY <1>11, <2>1, <2>3, <3>1
  <2> QED
    BY <2>2, <2>3
<1>15. ASSUME NEW a \in 2..m
       PROVE  b1[q[a]].prev = q[a] /\ b1[q[a]].next = At(q, m, a + 1)
  <2>1. a \in 1..m
    BY <1>1
  <2>2. /\ q[a] \in 0..k - 1 /\ q[a] # i
        /\ b[q[a]].prev = q[a] /\ b[q[a]].next = At(q, m, a + 1)
    BY <1>1, <1>2, <1>5, <2>1 DEF FreeChained
  <2>3. q[a] # l.first
    <3>1. CASE 1 \in 1..n
      BY <1>2, <1>6, <2>1, <3>1 DEF At
    <3>2. CASE 1 \notin 1..n
      <4>1. q[a] \in Nat
        BY <2>2
      <4> QED
        BY <1>1, <1>2, <3>2, <4>1 DEF At
    <3> QED
      BY <3>1, <3>2
  <2> QED
    BY <1>11, <2>2, <2>3
<1> HIDE DEF m
<1>16. OneToOne(p1, n + 1, k) /\ IsLonger(p1, i, p, n)
  <2>1. ~Among(i, p, n)
    BY <1>4 DEF Among
  <2> QED
    BY <1>1, <1>2, <1>3, <2>1, LongerFront
<1>17. OneToOne(q1, m - 1, k) /\ IsShorter(q1, q, m)
  BY <1>1, <1>2, <1>3, ShorterFront
<1> HIDE DEF p1, q1
<1>18. /\ At(p1, n + 1, 1) = i
       /\ \A a \in 1..n + 1 : At(p1, n + 1, a + 1) = At(p, n, a)
       /\ p1[1] = i /\ \A a \in 1..n : p1[a + 1] = p[a]
  BY <1>16 DEF IsLonger
<1>19. /\ \A a \in 1..m : At(q1, m - 1, a) = At(q, m, a + 1)
       /\ \A a \in 1..m - 1 : q1[a] = q[a + 1]
  BY <1>17 DEF IsShorter
<1>20. Chained(b1, p1, n + 1)
  <2>1. ASSUME NEW a \in 1..n + 1
        PROVE  /\ b1[p1[a]].prev = At(p1, n + 1, a - 1)
               /\ b1[p1[a]].next = At(p1, n + 1, a + 1)
               /\ b1[p1[a]].value \in Elements
    <3>1. CASE a = 1
      <4>1. /\ b1[p1[a]].prev = None /\ b1[p1[a]].next = l.first
            /\ b1[p1[a]].value = e
        BY <1>11, <1>18, <3>1
      <4>2. At(p1, n + 1, a - 1) = None
        BY <3>1 DEF At
      <4>3. At(p1, n + 1, a + 1) = l.first
        BY <1>2, <1>18, <3>1
      <4> QED
        BY <4>1, <4>2, <4>3
    <3>2. CASE a # 1
      <4> DEFINE d == a - 1
      <4>1. d \in 1..n /\ a = d + 1 /\ d + 1 \in 1..n + 1 /\ d \in Nat
        BY <1>1, <3>2
      <4> HIDE DEF d
      <4>2. p1[a] = p[d]
        BY <1>18, <4>1
      <4>3. At(p1, n + 1, a + 1) = At(p, n, d + 1)
        BY <1>18, <4>1
      <4>4. At(p1, n + 1, a - 1) = IF d = 1 THEN i ELSE At(p, n, d - 1)
        <5>1. CASE d = 1
          BY <1>18, <4>1, <5>1
        <5>2. CASE d # 1
          <6>1. d - 1 \in 1..n + 1 /\ (d - 1) + 1 = a - 1
            BY <1>1, <4>1, <5>2
          <6> QED
            BY <1>18, <5>2, <6>1
        <5> QED
          BY <5>1, <5>2
      <4> QED
        BY <1>14, <4>1, <4>2, <4>3, <4>4
    <3> QED
      BY <3>1, <3>2
  <2> QED
    BY <2>1 DEF Chained
<1>21. FreeChained(b1, q1, m - 1)
  <2>1. ASSUME NEW a \in 1..m - 1
        PROVE  b1[q1[a]].prev = q1[a] /\ b1[q1[a]].next = At(q1, m - 1, a + 1)
    <3>1. a + 1 \in 2..m /\ a + 1 \in 1..m
      BY <1>1
    <3>2. q1[a] = q[a + 1] /\ At(q1, m - 1, a + 1) = At(q, m, a + 1 + 1)
      BY <1>19, <3>1
    <3> QED
      BY <1>15, <3>1, <3>2
  <2> QED
    BY <2>1 DEF FreeChained
<1>22. ASSUME NEW j \in 0..k - 1
       PROVE  (\E a \in 1..n + 1 : p1[a] = j) \/ (\E a \in 1..m - 1 : q1[a] = j)
  <2>1. CASE j = i
    <3>1. 1 \in 1..n + 1
      BY <1>1
    <3> QED
      BY <1>18, <2>1, <3>1
  <2>2. ASSUME NEW a \in 1..n, p[a] = j PROVE \E d \in 1..n + 1 : p1[d] = j
    <3>1. a + 1 \in 1..n + 1
      BY <1>1
    <3> QED
      BY <1>18, <2>2, <3>1
  <2>3. ASSUME NEW a \in 1..m, q[a] = j, j # i PROVE \E d \in 1..m - 1 : q1[d] = j
    <3>1. a # 1
      BY <1>3, <2>3
    <3>2. a - 1 \in 1..m - 1 /\ (a - 1) + 1 = a
      BY <1>1, <3>1
    <3> QED
      BY <1>19, <2>3, <3>2
  <2> QED
    BY <1>2, <2>1, <2>2, <2>3
<1>23. final = At(p1, n + 1, n + 1)
  <2>1. CASE n = 0
    <3>1. l.first = None
      BY <1>2, <2>1 DEF At
    <3> QED
      BY <1>18, <2>1, <3>1
  <2>2. CASE n # 0
    <3>1. 1 \in 1..n /\ n \in 1..n + 1 /\ p[1] \in Nat
      BY <1>1, <2>2
    <3>2. l.first # None
      BY <1>1, <1>2, <3>1 DEF At
    <3> QED
      BY <1>2, <1>18, <3>1, <3>2
  <2> QED
    BY <2>1, <2>2
<1> HIDE DEF final
<1>24. Linked(x, p1, q1)
  <2>1. /\ CapOf(b1) - (n + 1) = m - 1 /\ n + 1 \in Nat /\ n + 1 <= k /\ 1 \in 1..m
    BY <1>1, <1>3, <1>13 DEF m
  <2>2. At(q1, m - 1, 1) = At(q, m, 2)
    BY <1>19, <2>1
  <2> QED
    BY <1>10, <1>13, <1>16, <1>17, <1>18, <1>20, <1>21, <1>22, <1>23, <2>1, <2>2 DEF Linked, b1
<1> DEFINE s0 == ListContents(l)
           s1 == ListContents(x)
<1>25. s0 \in Seq(Elements) /\ Len(s0) = n /\ \A j \in 1..n : s0[j] = b[p[j]].value
  BY ListContentsAre DEF n, b
<1>26. s1 \in Seq(Elements) /\ Len(s1) = n + 1 /\ \A j \in 1..n + 1 : s1[j] = b1[p1[j]].value
  BY <1>10, <1>24, ListContentsAre DEF b1
<1> HIDE DEF s0, s1
<1>27. ASSUME NEW j \in 1..Len(s1) PROVE s1[j] = IF j = 1 THEN e ELSE s0[j - 1]
  <2>1. CASE j = 1
    <3>1. b1[p1[1]].value = e
      BY <1>11, <1>18
    <3> QED
      BY <1>26, <2>1, <3>1
  <2>2. CASE j # 1
    <3> DEFINE d == j - 1
    <3>1. d \in 1..n /\ d + 1 = j
      BY <1>1, <1>26, <2>2
    <3> HIDE DEF d
    <3>2. p1[j] = p[d]
      BY <1>18, <3>1
    <3>3. s1[j] = b[p[d]].value
      BY <1>14, <1>26, <3>1, <3>2
    <3> QED
      BY <1>25, <2>2, <3>1, <3>3 DEF d
  <2> QED
    BY <2>1, <2>2
<1>28. s1 = <<e>> \o s0
  <2>1. Len(s1) = Len(s0) + 1
    BY <1>25, <1>26
  <2> QED
    BY <1>25, <1>26, <1>27, <2>1, IsPrepended
<1> QED
  BY <1>10, <1>24, <1>28 DEF ListShape, x, i, n, s0, s1
\* A path with one node more after it.
LongerBack(i, p, n) == [a \in 1..n + 1 |-> IF a = n + 1 THEN i ELSE p[a]]

IsLongerBack(r, i, p, n) ==
  /\ At(r, n + 1, n + 1) = i
  /\ \A a \in 0..n : At(r, n + 1, a) = At(p, n, a)
  /\ r[n + 1] = i /\ \A a \in 1..n : r[a] = p[a]

LEMMA LongerBackIs ==
  ASSUME NEW n \in Nat, NEW k \in Nat, NEW p, OneToOne(p, n, k), NEW i \in 0..k - 1,
         ~Among(i, p, n)
  PROVE  OneToOne(LongerBack(i, p, n), n + 1, k) /\ IsLongerBack(LongerBack(i, p, n), i, p, n)
<1> DEFINE r == LongerBack(i, p, n)
<1>1. r = [a \in 1..n + 1 |-> IF a = n + 1 THEN i ELSE p[a]] /\ \A a \in 1..n : p[a] # i
  BY DEF LongerBack, Among
<1> HIDE DEF r
<1>2. \A a \in 1..n : p[a] \in 0..k - 1
  BY DEF OneToOne
<1>3. \A a, d \in 1..n : p[a] = p[d] => a = d
  BY DEF OneToOne
<1>4. r[n + 1] = i /\ \A a \in 1..n : r[a] = p[a]
  <2>1. n + 1 \in 1..n + 1 /\ \A a \in 1..n : a \in 1..n + 1 /\ a # n + 1
    OBVIOUS
  <2> QED
    BY <1>1, <2>1
<1>5. r \in [1..n + 1 -> 0..k - 1]
  <2>1. ASSUME NEW a \in 1..n + 1 PROVE (IF a = n + 1 THEN i ELSE p[a]) \in 0..k - 1
    <3>1. a # n + 1 => a \in 1..n
      OBVIOUS
    <3> QED
      BY <1>2, <3>1
  <2> QED
    BY <1>1, <2>1
<1>6. ASSUME NEW a \in 1..n + 1, NEW d \in 1..n + 1, r[a] = r[d] PROVE a = d
  <2>1. (a # n + 1 => a \in 1..n) /\ (d # n + 1 => d \in 1..n)
    OBVIOUS
  <2> QED
    BY <1>1, <1>3, <1>4, <1>6, <2>1
<1>7. ASSUME NEW a \in 0..n PROVE At(r, n + 1, a) = At(p, n, a)
  <2>1. a # n + 1 /\ (a \in 1..n + 1 <=> a \in 1..n)
    OBVIOUS
  <2> QED
    BY <1>4, <2>1 DEF At
<1>8. At(r, n + 1, n + 1) = i
  <2>1. n + 1 \in 1..n + 1
    OBVIOUS
  <2> QED
    BY <1>4, <2>1 DEF At
<1>9. OneToOne(r, n + 1, k)
  BY <1>5, <1>6 DEF OneToOne
<1> QED
  BY <1>4, <1>7, <1>8, <1>9 DEF IsLongerBack, r

LEMMA LinkBackIs ==
  ASSUME NEW l, NEW p, NEW q, Linked(l, p, q), l.free # None, NEW e \in Elements
  PROVE  LET x == LinkBack(l, l.free, e)
         IN /\ ListShape(x) /\ x.len = l.len + 1
            /\ ListContents(x) = Append(ListContents(l), e)
<1> DEFINE n == l.len
           k == CapOf(l.buf)
           m == k - n
           b == l.buf
           i == l.free
           x == LinkBack(l, i, e)
           b1 == x.buf
           p1 == LongerBack(i, p, n)
           q1 == Shorter(q, m)
<1>1. /\ k \in Nat /\ DOMAIN b = 0..k - 1 /\ n \in Nat /\ m \in Nat
      /\ \A a \in 1..n : p[a] \in 0..k - 1
      /\ \A a \in 1..m : q[a] \in 0..k - 1
      /\ \A j \in 0..k - 1 : b[j] \in Nodes
      /\ None \notin Nat /\ Blank \in Slot /\ e \in Slot
  BY LinkedFacts
<1>2. /\ l = [buf |-> b, first |-> l.first, last |-> l.last, free |-> l.free, len |-> n]
      /\ BufferOf(b, Nodes) /\ n <= k
      /\ OneToOne(p, n, k) /\ OneToOne(q, m, k)
      /\ \A j \in 0..k - 1 : (\E a \in 1..n : p[a] = j) \/ (\E a \in 1..m : q[a] = j)
      /\ Chained(b, p, n) /\ FreeChained(b, q, m)
      /\ l.first = At(p, n, 1) /\ l.last = At(p, n, n) /\ i = At(q, m, 1)
  BY DEF Linked
<1>3. m > 0 /\ i = q[1] /\ i \in 0..k - 1 /\ 1 \in 1..m
  <2>1. 1 \in 1..m
    BY <1>2 DEF At
  <2> QED
    BY <1>1, <1>2, <2>1 DEF At
<1>4. \A a \in 1..n : p[a] # i
  BY <1>3, Apart
<1>5. \A a \in 2..m : q[a] # i
  <2> SUFFICES ASSUME NEW a \in 2..m PROVE q[a] # i
    OBVIOUS
  <2>1. a \in 1..m /\ 1 \in 1..m /\ a # 1
    BY <1>1
  <2> QED
    BY <1>2, <1>3, <2>1 DEF OneToOne
<1>6. \A a \in 1..n, d \in 1..m : p[a] # q[d]
  BY Apart
<1>7. b[i].next = At(q, m, 2)
  BY <1>2, <1>3 DEF FreeChained
<1>8. /\ x = [l EXCEPT !.free = b[i].next, !.last = i, !.len = @ + 1,
                       !.first = IF l.last = None THEN i ELSE @,
                       !.buf = [j \in DOMAIN b |->
                         IF j = i THEN [prev |-> l.last, next |-> None, value |-> e]
                         ELSE IF j = l.last THEN [b[j] EXCEPT !.next = i]
                         ELSE b[j]]]
  BY DEF LinkBack
<1> HIDE DEF n, k, b, i, x
<1> DEFINE w == [j \in 0..k - 1 |->
                  IF j = i THEN [prev |-> l.last, next |-> None, value |-> e]
                  ELSE IF j = l.last THEN [b[j] EXCEPT !.next = i]
                  ELSE b[j]]
           first == IF l.last = None THEN i ELSE l.first
<1>9. x = [buf |-> w, first |-> first, last |-> i, free |-> At(q, m, 2), len |-> n + 1]
  <2> DEFINE r == [buf |-> b, first |-> l.first, last |-> l.last, free |-> l.free, len |-> n]
             d1 == [r EXCEPT !.free = At(q, m, 2)]
             d2 == [d1 EXCEPT !.last = i]
             d3 == [d2 EXCEPT !.len = @ + 1]
             d4 == [d3 EXCEPT !.first = first]
  <2>1. x = [d4 EXCEPT !.buf = w]
    BY <1>1, <1>2, <1>7, <1>8
  <2>2. d1 = [buf |-> b, first |-> l.first, last |-> l.last, free |-> At(q, m, 2), len |-> n]
    OBVIOUS
  <2> HIDE DEF d1
  <2>3. d2 = [buf |-> b, first |-> l.first, last |-> i, free |-> At(q, m, 2), len |-> n]
    BY <2>2
  <2> HIDE DEF d2
  <2>4. d3 = [buf |-> b, first |-> l.first, last |-> i, free |-> At(q, m, 2), len |-> n + 1]
    BY <2>3
  <2> HIDE DEF d3
  <2>5. d4 = [buf |-> b, first |-> first, last |-> i, free |-> At(q, m, 2), len |-> n + 1]
    BY <2>4
  <2> HIDE DEF d4, w, first
  <2> QED
    BY <2>1, <2>5
<1>10. /\ b1 = w /\ x.first = first /\ x.last = i /\ x.free = At(q, m, 2) /\ x.len = n + 1
       /\ x = [buf |-> x.buf, first |-> x.first, last |-> x.last, free |-> x.free,
               len |-> x.len]
  BY <1>9
<1> HIDE DEF b1
<1>11. /\ b1[i] = [prev |-> l.last, next |-> None, value |-> e]
       /\ \A j \in 0..k - 1 : j # i /\ j = l.last => b1[j] = [b[j] EXCEPT !.next = i]
       /\ \A j \in 0..k - 1 : j # i /\ j # l.last => b1[j] = b[j]
       /\ b1 = [j \in 0..k - 1 |-> b1[j]]
  BY <1>3, <1>10
<1>12. l.last \in Nat \cup {None} /\ i \in Nat
  BY <1>1, <1>2, <1>3 DEF At
<1> HIDE DEF w
<1>13. BufferOf(b1, Nodes) /\ CapOf(b1) = k
  <2>1. IsBuffer(b1) /\ CapOf(b1) = k
    BY <1>1, <1>11, BufferIs
  <2>2. ASSUME NEW j \in 0..k - 1 PROVE b1[j] \in Nodes
    <3>1. CASE j = i
      BY <1>1, <1>11, <1>12, <3>1 DEF Nodes
    <3>2. CASE j # i /\ j = l.last
      <4>1. b1[j] = [prev |-> b[j].prev, next |-> i, value |-> b[j].value]
        <5>1. b1[j] = [b[j] EXCEPT !.next = i] /\ b[j] \in Nodes
          BY <1>1, <1>11, <3>2
        <5> QED
          BY <5>1, NodeIs
      <4>2. b[j].prev \in Nat \cup {None} /\ b[j].value \in Slot
        BY <1>1, NodeIs
      <4> QED
        BY <1>12, <4>1, <4>2 DEF Nodes
    <3>3. CASE j # i /\ j # l.last
      BY <1>1, <1>11, <3>3
    <3> QED
      BY <3>1, <3>2, <3>3
  <2>3. k <= MaxCapacity
    BY <1>2 DEF BufferOf, k, b
  <2> QED
    BY <2>1, <2>2, <2>3 DEF BufferOf
<1>14. ASSUME NEW a \in 1..n
       PROVE  /\ b1[p[a]].prev = At(p, n, a - 1)
              /\ b1[p[a]].next = IF a = n THEN i ELSE At(p, n, a + 1)
              /\ b1[p[a]].value = b[p[a]].value /\ b[p[a]].value \in Elements
  <2>1. /\ p[a] \in 0..k - 1 /\ p[a] # i
        /\ b[p[a]].prev = At(p, n, a - 1) /\ b[p[a]].next = At(p, n, a + 1)
        /\ b[p[a]].value \in Elements /\ b[p[a]] \in Nodes
    BY <1>1, <1>2, <1>4 DEF Chained
  <2>2. CASE a = n
    <3>1. p[a] = l.last
      BY <1>2, <2>2 DEF At
    <3>2. b1[p[a]] = [prev |-> b[p[a]].prev, next |-> i, value |-> b[p[a]].value]
      <4>1. b1[p[a]] = [b[p[a]] EXCEPT !.next = i]
        BY <1>11, <2>1, <3>1
      <4> QED
        BY <2>1, <4>1, NodeIs
    <3> QED
      BY <2>1, <2>2, <3>2
  <2>3. CASE a # n
    <3>1. p[a] # l.last
      <4>1. n \in 1..n
        BY <1>1, <2>3
      <4> QED
        BY <1>2, <2>3, <4>1 DEF At, OneToOne
    <3> QED
      BY <1>11, <2>1, <2>3, <3>1
  <2> QED
    BY <2>2, <2>3
<1>15. ASSUME NEW a \in 2..m
       PROVE  b1[q[a]].prev = q[a] /\ b1[q[a]].next = At(q, m, a + 1)
  <2>1. a \in 1..m
    BY <1>1
  <2>2. /\ q[a] \in 0..k - 1 /\ q[a] # i
        /\ b[q[a]].prev = q[a] /\ b[q[a]].next = At(q, m, a + 1)
    BY <1>1, <1>2, <1>5, <2>1 DEF FreeChained
  <2>3. q[a] # l.last
    <3>1. CASE n \in 1..n
      BY <1>2, <1>6, <2>1, <3>1 DEF At
    <3>2. CASE n \notin 1..n
      <4>1. q[a] \in Nat
        BY <2>2
      <4> QED
        BY <1>1, <1>2, <3>2, <4>1 DEF At
    <3> QED
      BY <3>1, <3>2
  <2> QED
    BY <1>11, <2>2, <2>3
<1> HIDE DEF m
<1>16. OneToOne(p1, n + 1, k) /\ IsLongerBack(p1, i, p, n)
  <2>1. ~Among(i, p, n)
    BY <1>4 DEF Among
  <2> QED
    BY <1>1, <1>2, <1>3, <2>1, LongerBackIs
<1>17. OneToOne(q1, m - 1, k) /\ IsShorter(q1, q, m)
  BY <1>1, <1>2, <1>3, ShorterFront
<1> HIDE DEF p1, q1
<1>18. /\ At(p1, n + 1, n + 1) = i
       /\ \A a \in 0..n : At(p1, n + 1, a) = At(p, n, a)
       /\ p1[n + 1] = i /\ \A a \in 1..n : p1[a] = p[a]
  BY <1>16 DEF IsLongerBack
<1>19. /\ \A a \in 1..m : At(q1, m - 1, a) = At(q, m, a + 1)
       /\ \A a \in 1..m - 1 : q1[a] = q[a + 1]
  BY <1>17 DEF IsShorter
<1>20. Chained(b1, p1, n + 1)
  <2>1. ASSUME NEW a \in 1..n + 1
        PROVE  /\ b1[p1[a]].prev = At(p1, n + 1, a - 1)
               /\ b1[p1[a]].next = At(p1, n + 1, a + 1)
               /\ b1[p1[a]].value \in Elements
    <3>1. CASE a = n + 1
      <4>1. /\ b1[p1[a]].prev = l.last /\ b1[p1[a]].next = None
            /\ b1[p1[a]].value = e
        BY <1>11, <1>18, <3>1
      <4>2. At(p1, n + 1, a + 1) = None
        BY <1>1, <3>1 DEF At
      <4>3. At(p1, n + 1, a - 1) = l.last
        <5>1. a - 1 = n /\ n \in 0..n
          BY <1>1, <3>1
        <5> QED
          BY <1>2, <1>18, <5>1
      <4> QED
        BY <4>1, <4>2, <4>3
    <3>2. CASE a # n + 1
      <4>1. a \in 1..n /\ a - 1 \in 0..n
        BY <1>1, <3>2
      <4>2. p1[a] = p[a] /\ At(p1, n + 1, a - 1) = At(p, n, a - 1)
        BY <1>18, <4>1
      <4>3. At(p1, n + 1, a + 1) = IF a = n THEN i ELSE At(p, n, a + 1)
        <5>1. CASE a = n
          BY <1>18, <5>1
        <5>2. CASE a # n
          <6>1. a + 1 \in 0..n
            BY <1>1, <4>1, <5>2
          <6> QED
            BY <1>18, <5>2, <6>1
        <5> QED
          BY <5>1, <5>2
      <4> QED
        BY <1>14, <4>1, <4>2, <4>3
    <3> QED
      BY <3>1, <3>2
  <2> QED
    BY <2>1 DEF Chained
<1>21. FreeChained(b1, q1, m - 1)
  <2>1. ASSUME NEW a \in 1..m - 1
        PROVE  b1[q1[a]].prev = q1[a] /\ b1[q1[a]].next = At(q1, m - 1, a + 1)
    <3>1. a + 1 \in 2..m /\ a + 1 \in 1..m
      BY <1>1
    <3>2. q1[a] = q[a + 1] /\ At(q1, m - 1, a + 1) = At(q, m, a + 1 + 1)
      BY <1>19, <3>1
    <3> QED
      BY <1>15, <3>1, <3>2
  <2> QED
    BY <2>1 DEF FreeChained
<1>22. ASSUME NEW j \in 0..k - 1
       PROVE  (\E a \in 1..n + 1 : p1[a] = j) \/ (\E a \in 1..m - 1 : q1[a] = j)
  <2>1. CASE j = i
    <3>1. n + 1 \in 1..n + 1
      BY <1>1
    <3> QED
      BY <1>18, <2>1, <3>1
  <2>2. ASSUME NEW a \in 1..n, p[a] = j PROVE \E d \in 1..n + 1 : p1[d] = j
    <3>1. a \in 1..n + 1
      BY <1>1
    <3> QED
      BY <1>18, <2>2, <3>1
  <2>3. ASSUME NEW a \in 1..m, q[a] = j, j # i PROVE \E d \in 1..m - 1 : q1[d] = j
    <3>1. a # 1
      BY <1>3, <2>3
    <3>2. a - 1 \in 1..m - 1 /\ (a - 1) + 1 = a
      BY <1>1, <3>1
    <3> QED
      BY <1>19, <2>3, <3>2
  <2> QED
    BY <1>2, <2>1, <2>2, <2>3
<1>23. first = At(p1, n + 1, 1)
  <2>1. CASE n = 0
    <3>1. l.last = None
      BY <1>2, <2>1 DEF At
    <3> QED
      BY <1>18, <2>1, <3>1
  <2>2. CASE n # 0
    <3>1. n \in 1..n /\ 1 \in 0..n /\ p[n] \in Nat
      BY <1>1, <2>2
    <3>2. l.last # None
      BY <1>1, <1>2, <3>1 DEF At
    <3> QED
      BY <1>2, <1>18, <3>1, <3>2
  <2> QED
    BY <2>1, <2>2
<1> HIDE DEF first
<1>24. Linked(x, p1, q1)
  <2>1. /\ CapOf(b1) - (n + 1) = m - 1 /\ n + 1 \in Nat /\ n + 1 <= k /\ 1 \in 1..m
    BY <1>1, <1>3, <1>13 DEF m
  <2>2. At(q1, m - 1, 1) = At(q, m, 2)
    BY <1>19, <2>1
  <2> QED
    BY <1>10, <1>13, <1>16, <1>17, <1>18, <1>20, <1>21, <1>22, <1>23, <2>1, <2>2 DEF Linked, b1
<1> DEFINE s0 == ListContents(l)
           s1 == ListContents(x)
<1>25. s0 \in Seq(Elements) /\ Len(s0) = n /\ \A j \in 1..n : s0[j] = b[p[j]].value
  BY ListContentsAre DEF n, b
<1>26. s1 \in Seq(Elements) /\ Len(s1) = n + 1 /\ \A j \in 1..n + 1 : s1[j] = b1[p1[j]].value
  BY <1>10, <1>24, ListContentsAre DEF b1
<1> HIDE DEF s0, s1
<1>27. ASSUME NEW j \in 1..Len(s1) PROVE s1[j] = IF j <= Len(s0) THEN s0[j] ELSE e
  <2>1. CASE j = n + 1
    <3>1. b1[p1[n + 1]].value = e
      BY <1>11, <1>18
    <3>2. ~(j <= Len(s0))
      BY <1>1, <1>25, <2>1
    <3> QED
      BY <1>26, <2>1, <3>1, <3>2
  <2>2. CASE j # n + 1
    <3>1. j \in 1..n
      BY <1>1, <1>26, <2>2
    <3>2. j <= Len(s0)
      BY <1>1, <1>25, <3>1
    <3>3. s1[j] = b[p[j]].value
      BY <1>14, <1>18, <1>26, <3>1
    <3> QED
      BY <1>25, <3>1, <3>2, <3>3
  <2> QED
    BY <2>1, <2>2
<1>28. s1 = Append(s0, e)
  <2>1. Len(s1) = Len(s0) + 1
    BY <1>25, <1>26
  <2> QED
    BY <1>25, <1>26, <1>27, <2>1, IsAppended, Zenon
<1> QED
  BY <1>10, <1>24, <1>28 DEF ListShape, x, i, n, s0, s1
\* A path without its r-th node.
Without(p, r, n) == [a \in 1..n - 1 |-> IF a < r THEN p[a] ELSE p[a + 1]]

IsWithout(s, p, r, n) ==
  /\ \A a \in 0..n : At(s, n - 1, a) = IF a < r THEN At(p, n, a) ELSE At(p, n, a + 1)
  /\ \A a \in 1..n - 1 : s[a] = IF a < r THEN p[a] ELSE p[a + 1]

LEMMA WithoutIs ==
  ASSUME NEW n \in Nat, NEW k \in Nat, NEW p, OneToOne(p, n, k), NEW r \in 1..n
  PROVE  OneToOne(Without(p, r, n), n - 1, k) /\ IsWithout(Without(p, r, n), p, r, n)
<1> DEFINE s == Without(p, r, n)
<1>1. s = [a \in 1..n - 1 |-> IF a < r THEN p[a] ELSE p[a + 1]]
  BY DEF Without
<1> HIDE DEF s
<1>2. \A a \in 1..n : p[a] \in 0..k - 1
  BY DEF OneToOne
<1>3. \A a, d \in 1..n : p[a] = p[d] => a = d
  BY DEF OneToOne
<1>4. \A a \in 1..n - 1 : s[a] = IF a < r THEN p[a] ELSE p[a + 1]
  BY <1>1
<1>5. \A a \in 1..n - 1 : a \in 1..n /\ a + 1 \in 1..n
  OBVIOUS
<1>6. s \in [1..n - 1 -> 0..k - 1]
  BY <1>1, <1>2, <1>5
<1>7. ASSUME NEW a \in 1..n - 1, NEW d \in 1..n - 1, s[a] = s[d] PROVE a = d
  <2>1. CASE a < r /\ d < r
    BY <1>3, <1>4, <1>5, <1>7, <2>1
  <2>2. CASE ~(a < r) /\ ~(d < r)
    <3>1. a + 1 = d + 1
      BY <1>3, <1>4, <1>5, <1>7, <2>2
    <3> QED
      BY <3>1
  <2>3. CASE a < r /\ ~(d < r)
    <3>1. a = d + 1
      BY <1>3, <1>4, <1>5, <1>7, <2>3
    <3> QED
      BY <2>3, <3>1
  <2>4. CASE ~(a < r) /\ d < r
    <3>1. a + 1 = d
      BY <1>3, <1>4, <1>5, <1>7, <2>4
    <3> QED
      BY <2>4, <3>1
  <2> QED
    BY <2>1, <2>2, <2>3, <2>4
<1>8. ASSUME NEW a \in 0..n
      PROVE  At(s, n - 1, a) = IF a < r THEN At(p, n, a) ELSE At(p, n, a + 1)
  <2>1. CASE a \in 1..n - 1
    <3>1. a \in 1..n /\ a + 1 \in 1..n
      BY <1>5, <2>1
    <3> QED
      BY <1>4, <2>1, <3>1 DEF At
  <2>2. CASE a \notin 1..n - 1
    <3>1. IF a < r THEN a \notin 1..n ELSE a + 1 \notin 1..n
      BY <2>2
    <3> QED
      BY <2>2, <3>1 DEF At
  <2> QED
    BY <2>1, <2>2
<1>9. OneToOne(s, n - 1, k)
  BY <1>6, <1>7 DEF OneToOne
<1> QED
  BY <1>4, <1>8, <1>9 DEF IsWithout, s

LEMMA UnlinkedIs ==
  ASSUME NEW l, NEW p, NEW q, Linked(l, p, q), NEW r \in 1..l.len
  PROVE  LET x == Unlinked(l, p[r])
         IN /\ ListShape(x) /\ x.len = l.len - 1
            /\ ListContents(x) = Splice(ListContents(l), r - 1, 1, <<>>)
            /\ l.buf[p[r]].value = ListContents(l)[r]
<1> DEFINE n == l.len
           k == CapOf(l.buf)
           m == k - n
           b == l.buf
           i == p[r]
           x == Unlinked(l, i)
           b1 == x.buf
           p1 == Without(p, r, n)
           q1 == Longer(i, q, m)
           before == At(p, n, r - 1)
           after == At(p, n, r + 1)
<1>1. /\ k \in Nat /\ DOMAIN b = 0..k - 1 /\ n \in Nat /\ m \in Nat
      /\ \A a \in 1..n : p[a] \in 0..k - 1
      /\ \A a \in 1..m : q[a] \in 0..k - 1
      /\ \A j \in 0..k - 1 : b[j] \in Nodes
      /\ None \notin Nat /\ Blank \in Slot
  BY LinkedFacts
<1>2. /\ l = [buf |-> b, first |-> l.first, last |-> l.last, free |-> l.free, len |-> n]
      /\ BufferOf(b, Nodes) /\ n <= k
      /\ OneToOne(p, n, k) /\ OneToOne(q, m, k)
      /\ \A j \in 0..k - 1 : (\E a \in 1..n : p[a] = j) \/ (\E a \in 1..m : q[a] = j)
      /\ Chained(b, p, n) /\ FreeChained(b, q, m)
      /\ l.first = At(p, n, 1) /\ l.last = At(p, n, n) /\ l.free = At(q, m, 1)
  BY DEF Linked
<1>3. r \in 1..n /\ i \in 0..k - 1
  BY <1>1
<1>4. \A a \in 1..n : p[a] = i => a = r
  BY <1>2, <1>3 DEF OneToOne
<1>5. \A a \in 1..n, d \in 1..m : p[a] # q[d]
  BY Apart
<1>6. b[i].prev = before /\ b[i].next = after
  BY <1>2, <1>3 DEF Chained
<1>7. /\ x = [l EXCEPT !.free = i, !.len = @ - 1,
                       !.first = IF b[i].prev = None THEN b[i].next ELSE @,
                       !.last = IF b[i].next = None THEN b[i].prev ELSE @,
                       !.buf = [j \in DOMAIN b |->
                         IF j = i THEN [prev |-> i, next |-> l.free, value |-> Blank]
                         ELSE IF j = b[i].prev THEN [b[j] EXCEPT !.next = b[i].next]
                         ELSE IF j = b[i].next THEN [b[j] EXCEPT !.prev = b[i].prev]
                         ELSE b[j]]]
  BY DEF Unlinked
<1> HIDE DEF n, k, b, i, x, before, after
<1> DEFINE w == [j \in 0..k - 1 |->
                  IF j = i THEN [prev |-> i, next |-> l.free, value |-> Blank]
                  ELSE IF j = before THEN [b[j] EXCEPT !.next = after]
                  ELSE IF j = after THEN [b[j] EXCEPT !.prev = before]
                  ELSE b[j]]
           first == IF before = None THEN after ELSE l.first
           final == IF after = None THEN before ELSE l.last
<1>8. x = [buf |-> w, first |-> first, last |-> final, free |-> i, len |-> n - 1]
  <2> DEFINE z == [buf |-> b, first |-> l.first, last |-> l.last, free |-> l.free, len |-> n]
             d1 == [z EXCEPT !.free = i]
             d2 == [d1 EXCEPT !.len = @ - 1]
             d3 == [d2 EXCEPT !.first = first]
             d4 == [d3 EXCEPT !.last = final]
  <2>1. x = [d4 EXCEPT !.buf = w]
    BY <1>1, <1>2, <1>6, <1>7
  <2>2. d1 = [buf |-> b, first |-> l.first, last |-> l.last, free |-> i, len |-> n]
    OBVIOUS
  <2> HIDE DEF d1
  <2>3. d2 = [buf |-> b, first |-> l.first, last |-> l.last, free |-> i, len |-> n - 1]
    BY <2>2
  <2> HIDE DEF d2
  <2>4. d3 = [buf |-> b, first |-> first, last |-> l.last, free |-> i, len |-> n - 1]
    BY <2>3
  <2> HIDE DEF d3
  <2>5. d4 = [buf |-> b, first |-> first, last |-> final, free |-> i, len |-> n - 1]
    BY <2>4
  <2> HIDE DEF d4, w, first, final
  <2> QED
    BY <2>1, <2>5
<1>9. /\ b1 = w /\ x.first = first /\ x.last = final /\ x.free = i /\ x.len = n - 1
      /\ x = [buf |-> x.buf, first |-> x.first, last |-> x.last, free |-> x.free,
              len |-> x.len]
  BY <1>8
<1> HIDE DEF b1
<1>10. /\ b1[i] = [prev |-> i, next |-> l.free, value |-> Blank]
       /\ \A j \in 0..k - 1 : j # i /\ j = before => b1[j] = [b[j] EXCEPT !.next = after]
       /\ \A j \in 0..k - 1 : j # i /\ j # before /\ j = after
                                => b1[j] = [b[j] EXCEPT !.prev = before]
       /\ \A j \in 0..k - 1 : j # i /\ j # before /\ j # after => b1[j] = b[j]
       /\ b1 = [j \in 0..k - 1 |-> b1[j]]
  BY <1>3, <1>9
<1> HIDE DEF w
<1>11. /\ l.free \in Nat \cup {None} /\ i \in Nat
       /\ before \in Nat \cup {None} /\ after \in Nat \cup {None}
  <2>1. \A a \in 1..n : p[a] \in Nat
    BY <1>1
  <2>2. \A a \in 1..m : q[a] \in Nat
    BY <1>1
  <2> QED
    BY <1>2, <1>3, <2>1, <2>2 DEF At, before, after
<1>12. ASSUME NEW j \in 0..k - 1, j # i
       PROVE  /\ b1[j] = [prev |-> IF j # before /\ j = after THEN before ELSE b[j].prev,
                          next |-> IF j = before THEN after ELSE b[j].next,
                          value |-> b[j].value]
              /\ b[j].prev \in Nat \cup {None} /\ b[j].next \in Nat \cup {None}
              /\ b[j].value \in Slot
  <2>1. b[j] \in Nodes
    BY <1>1
  <2>2. b[j] = [prev |-> b[j].prev, next |-> b[j].next, value |-> b[j].value]
    BY <2>1 DEF Nodes
  <2>3. CASE j = before
    <3>1. b1[j] = [b[j] EXCEPT !.next = after]
      BY <1>10, <1>12, <2>3
    <3>2. b1[j] = [prev |-> b[j].prev, next |-> after, value |-> b[j].value]
      BY <2>1, <3>1, NodeIs
    <3> QED
      BY <2>1, <2>3, <3>2, NodeIs
  <2>4. CASE j # before /\ j = after
    <3>1. b1[j] = [b[j] EXCEPT !.prev = before]
      BY <1>10, <1>12, <2>4
    <3>2. b1[j] = [prev |-> before, next |-> b[j].next, value |-> b[j].value]
      BY <2>1, <3>1, NodeIs
    <3> QED
      BY <2>1, <2>4, <3>2, NodeIs
  <2>5. CASE j # before /\ j # after
    <3>1. b1[j] = b[j]
      BY <1>10, <1>12, <2>5
    <3> QED
      BY <2>1, <2>2, <2>5, <3>1, NodeIs
  <2> QED
    BY <2>3, <2>4, <2>5
<1>13. BufferOf(b1, Nodes) /\ CapOf(b1) = k
  <2>1. IsBuffer(b1) /\ CapOf(b1) = k
    BY <1>1, <1>10, BufferIs
  <2>2. ASSUME NEW j \in 0..k - 1 PROVE b1[j] \in Nodes
    <3>1. CASE j = i
      BY <1>1, <1>10, <1>11, <3>1 DEF Nodes
    <3>2. CASE j # i
      <4> DEFINE v1 == IF j # before /\ j = after THEN before ELSE b[j].prev
                 v2 == IF j = before THEN after ELSE b[j].next
      <4>1. v1 \in Nat \cup {None} /\ v2 \in Nat \cup {None} /\ b[j].value \in Slot
        BY <1>11, <1>12, <3>2
      <4>2. b1[j] = [prev |-> v1, next |-> v2, value |-> b[j].value]
        BY <1>12, <3>2
      <4> HIDE DEF v1, v2
      <4> QED
        BY <4>1, <4>2 DEF Nodes
    <3> QED
      BY <3>1, <3>2
  <2>3. k <= MaxCapacity
    BY <1>2 DEF BufferOf, k, b
  <2> QED
    BY <2>1, <2>2, <2>3 DEF BufferOf
<1>14. ASSUME NEW a \in 1..n, a # r
       PROVE  /\ b1[p[a]].prev = IF a = r + 1 THEN before ELSE At(p, n, a - 1)
              /\ b1[p[a]].next = IF a = r - 1 THEN after ELSE At(p, n, a + 1)
              /\ b1[p[a]].value = b[p[a]].value /\ b[p[a]].value \in Elements
  <2>1. /\ p[a] \in 0..k - 1 /\ p[a] # i
        /\ b[p[a]].prev = At(p, n, a - 1) /\ b[p[a]].next = At(p, n, a + 1)
        /\ b[p[a]].value \in Elements
    BY <1>1, <1>2, <1>4, <1>14 DEF Chained
  <2>2. p[a] = before <=> a = r - 1
    <3>1. CASE r - 1 \in 1..n
      BY <1>2, <3>1 DEF At, before, OneToOne
    <3>2. CASE r - 1 \notin 1..n
      <4>1. p[a] \in Nat /\ a # r - 1
        BY <1>1, <2>1, <3>2
      <4>2. before = None
        BY <3>2 DEF At, before
      <4> QED
        BY <1>1, <4>1, <4>2
    <3> QED
      BY <3>1, <3>2
  <2>3. p[a] = after <=> a = r + 1
    <3>1. CASE r + 1 \in 1..n
      BY <1>2, <3>1 DEF At, after, OneToOne
    <3>2. CASE r + 1 \notin 1..n
      <4>1. p[a] \in Nat /\ a # r + 1
        BY <1>1, <2>1, <3>2
      <4>2. after = None
        BY <3>2 DEF At, after
      <4> QED
        BY <1>1, <4>1, <4>2
    <3> QED
      BY <3>1, <3>2
  <2>4. r + 1 # r - 1
    BY <1>1, <1>3
  <2>5. b1[p[a]] = [prev |-> IF p[a] # before /\ p[a] = after THEN before ELSE b[p[a]].prev,
                    next |-> IF p[a] = before THEN after ELSE b[p[a]].next,
                    value |-> b[p[a]].value]
    BY <1>12, <2>1
  <2> QED
    BY <2>1, <2>2, <2>3, <2>4, <2>5
<1>15. ASSUME NEW a \in 1..m
       PROVE  b1[q[a]].prev = q[a] /\ b1[q[a]].next = At(q, m, a + 1)
  <2>1. /\ q[a] \in 0..k - 1 /\ q[a] # i
        /\ b[q[a]].prev = q[a] /\ b[q[a]].next = At(q, m, a + 1)
    BY <1>1, <1>2, <1>3, <1>5 DEF FreeChained, i
  <2>2. q[a] \in Nat
    BY <2>1
  <2>3. q[a] # before
    BY <1>1, <1>5, <2>2 DEF At, before
  <2>4. q[a] # after
    BY <1>1, <1>5, <2>2 DEF At, after
  <2> QED
    BY <1>10, <2>1, <2>3, <2>4
<1> HIDE DEF m
<1>16. OneToOne(p1, n - 1, k) /\ IsWithout(p1, p, r, n)
  BY <1>1, <1>2, <1>3, WithoutIs
<1>17. OneToOne(q1, m + 1, k) /\ IsLonger(q1, i, q, m)
  <2>1. ~Among(i, q, m)
    BY <1>3, <1>5 DEF Among, i
  <2> QED
    BY <1>1, <1>2, <1>3, <2>1, LongerFront
<1> HIDE DEF p1, q1
<1>18. /\ \A a \in 0..n : At(p1, n - 1, a) = IF a < r THEN At(p, n, a) ELSE At(p, n, a + 1)
       /\ \A a \in 1..n - 1 : p1[a] = IF a < r THEN p[a] ELSE p[a + 1]
  BY <1>16 DEF IsWithout
<1>19. /\ At(q1, m + 1, 1) = i
       /\ \A a \in 1..m + 1 : At(q1, m + 1, a + 1) = At(q, m, a)
       /\ q1[1] = i /\ \A a \in 1..m : q1[a + 1] = q[a]
  BY <1>17 DEF IsLonger
<1>20. ASSUME NEW a \in 1..n - 1
       PROVE  /\ b1[p1[a]].prev = At(p1, n - 1, a - 1)
              /\ b1[p1[a]].next = At(p1, n - 1, a + 1)
              /\ b1[p1[a]].value = b[IF a < r THEN p[a] ELSE p[a + 1]].value
              /\ b1[p1[a]].value \in Elements
  <2>1. a - 1 \in 0..n /\ a + 1 \in 0..n /\ a \in 1..n /\ a + 1 \in 1..n
    BY <1>1
  <2>2. CASE a < r
    <3>1. p1[a] = p[a] /\ a # r /\ a # r + 1 /\ a - 1 < r
      BY <1>3, <1>18, <2>2
    <3>2. At(p1, n - 1, a - 1) = At(p, n, a - 1)
      BY <1>18, <2>1, <3>1
    <3>3. At(p1, n - 1, a + 1) = IF a = r - 1 THEN after ELSE At(p, n, a + 1)
      <4>1. CASE a = r - 1
        <5>1. ~(a + 1 < r) /\ a + 1 + 1 = r + 1
          BY <1>3, <4>1
        <5> QED
          BY <1>18, <2>1, <4>1, <5>1 DEF after
      <4>2. CASE a # r - 1
        <5>1. a + 1 < r
          BY <1>3, <2>2, <4>2
        <5> QED
          BY <1>18, <2>1, <4>2, <5>1
      <4> QED
        BY <4>1, <4>2
    <3> QED
      BY <1>14, <2>1, <2>2, <3>1, <3>2, <3>3
  <2>3. CASE ~(a < r)
    <3> DEFINE d == a + 1
    <3>1. d \in 1..n /\ d # r /\ d # r - 1 /\ d - 1 = a
      BY <1>3, <2>1, <2>3
    <3>2. p1[a] = p[d]
      BY <1>18, <2>3
    <3>3. At(p1, n - 1, a + 1) = At(p, n, d + 1)
      <4>1. ~(a + 1 < r)
        BY <1>3, <2>3
      <4> QED
        BY <1>18, <2>1, <4>1
    <3>4. At(p1, n - 1, a - 1) = IF d = r + 1 THEN before ELSE At(p, n, d - 1)
      <4>1. CASE d = r + 1
        <5>1. a - 1 < r /\ a - 1 = r - 1
          BY <1>3, <4>1
        <5> QED
          BY <1>18, <2>1, <4>1, <5>1 DEF before
      <4>2. CASE d # r + 1
        <5>1. ~(a - 1 < r) /\ a - 1 + 1 = d - 1
          BY <1>3, <2>3, <4>2
        <5> QED
          BY <1>18, <2>1, <4>2, <5>1
      <4> QED
        BY <4>1, <4>2
    <3>5. b[IF a < r THEN p[a] ELSE p[a + 1]].value = b[p[d]].value
      BY <2>3
    <3> HIDE DEF d
    <3> QED
      BY <1>14, <3>1, <3>2, <3>3, <3>4, <3>5
  <2> QED
    BY <2>2, <2>3
<1>21. Chained(b1, p1, n - 1)
  BY <1>20 DEF Chained
<1>22. FreeChained(b1, q1, m + 1)
  <2>1. ASSUME NEW a \in 1..m + 1
        PROVE  b1[q1[a]].prev = q1[a] /\ b1[q1[a]].next = At(q1, m + 1, a + 1)
    <3>1. CASE a = 1
      <4>1. At(q1, m + 1, a + 1) = l.free
        BY <1>2, <1>19, <3>1
      <4> QED
        BY <1>10, <1>19, <3>1, <4>1
    <3>2. CASE a # 1
      <4> DEFINE d == a - 1
      <4>1. d \in 1..m /\ a = d + 1
        BY <1>1, <3>2
      <4> HIDE DEF d
      <4>2. q1[a] = q[d] /\ At(q1, m + 1, a + 1) = At(q, m, d + 1)
        BY <1>19, <4>1
      <4> QED
        BY <1>15, <4>1, <4>2
    <3> QED
      BY <3>1, <3>2
  <2> QED
    BY <2>1 DEF FreeChained
<1>23. ASSUME NEW j \in 0..k - 1
       PROVE  (\E a \in 1..n - 1 : p1[a] = j) \/ (\E a \in 1..m + 1 : q1[a] = j)
  <2>1. CASE j = i
    <3>1. 1 \in 1..m + 1
      BY <1>1
    <3> QED
      BY <1>19, <2>1, <3>1
  <2>2. ASSUME NEW a \in 1..n, p[a] = j, j # i PROVE \E d \in 1..n - 1 : p1[d] = j
    <3>1. a # r
      BY <2>2 DEF i
    <3>2. CASE a < r
      <4>1. a \in 1..n - 1
        BY <1>1, <1>3, <3>2
      <4> QED
        BY <1>18, <2>2, <3>2, <4>1
    <3>3. CASE ~(a < r)
      <4>1. a - 1 \in 1..n - 1 /\ ~(a - 1 < r) /\ a - 1 + 1 = a
        BY <1>1, <1>3, <3>1, <3>3
      <4> QED
        BY <1>18, <2>2, <4>1
    <3> QED
      BY <3>2, <3>3
  <2>3. ASSUME NEW a \in 1..m, q[a] = j PROVE \E d \in 1..m + 1 : q1[d] = j
    <3>1. a + 1 \in 1..m + 1
      BY <1>1
    <3> QED
      BY <1>19, <2>3, <3>1
  <2> QED
    BY <1>2, <2>1, <2>2, <2>3
<1>24. first = At(p1, n - 1, 1)
  <2>0. 1 \in 0..n
    BY <1>1, <1>3
  <2>1. CASE r = 1
    <3>1. before = None /\ after = At(p, n, 1 + 1)
      BY <2>1 DEF before, after, At
    <3> QED
      BY <1>18, <2>0, <2>1, <3>1
  <2>2. CASE r # 1
    <3>1. 1 < r /\ r - 1 \in 1..n
      BY <1>1, <1>3, <2>2
    <3>2. p[r - 1] \in Nat
      BY <1>1, <3>1
    <3>3. before # None
      BY <1>1, <3>1, <3>2 DEF before, At
    <3> QED
      BY <1>2, <1>18, <2>0, <3>1, <3>3
  <2> QED
    BY <2>1, <2>2
<1>25. final = At(p1, n - 1, n - 1)
  <2>0. n - 1 \in 0..n /\ n - 1 + 1 = n
    BY <1>1, <1>3
  <2>1. CASE r = n
    <3>1. after = None /\ before = At(p, n, n - 1) /\ n - 1 < r
      BY <1>1, <2>1 DEF before, after, At
    <3> QED
      BY <1>18, <2>0, <3>1
  <2>2. CASE r # n
    <3>1. ~(n - 1 < r) /\ r + 1 \in 1..n
      BY <1>1, <1>3, <2>2
    <3>2. p[r + 1] \in Nat
      BY <1>1, <3>1
    <3>3. after # None
      BY <1>1, <3>1, <3>2 DEF after, At
    <3> QED
      BY <1>2, <1>18, <2>0, <3>1, <3>3
  <2> QED
    BY <2>1, <2>2
<1> HIDE DEF first, final
<1>26. Linked(x, p1, q1)
  <2>1. CapOf(b1) - (n - 1) = m + 1 /\ n - 1 \in Nat /\ n - 1 <= k
    BY <1>1, <1>2, <1>3, <1>13 DEF m
  <2> QED
    BY <1>9, <1>13, <1>16, <1>17, <1>19, <1>21, <1>22, <1>23, <1>24, <1>25, <2>1 DEF Linked, b1
<1> DEFINE s0 == ListContents(l)
           s1 == ListContents(x)
<1>27. s0 \in Seq(Elements) /\ Len(s0) = n /\ \A j \in 1..n : s0[j] = b[p[j]].value
  BY ListContentsAre DEF n, b
<1>28. s1 \in Seq(Elements) /\ Len(s1) = n - 1 /\ \A j \in 1..n - 1 : s1[j] = b1[p1[j]].value
  BY <1>9, <1>26, ListContentsAre DEF b1
<1> HIDE DEF s0, s1
<1>29. s1 = Splice(s0, r - 1, 1, <<>>)
  <2>1. r - 1 \in 0..Len(s0) - 1 /\ Len(s1) = Len(s0) - 1
    BY <1>1, <1>3, <1>27, <1>28
  <2>2. ASSUME NEW j \in 1..Len(s1) PROVE s1[j] = IF j <= r - 1 THEN s0[j] ELSE s0[j + 1]
    <3>1. j \in 1..n - 1 /\ j \in 1..n /\ j + 1 \in 1..n /\ (j < r <=> j <= r - 1)
      BY <1>1, <1>3, <1>28
    <3>2. s1[j] = b[IF j < r THEN p[j] ELSE p[j + 1]].value
      BY <1>20, <1>28, <3>1
    <3>3. s0[j] = b[p[j]].value /\ s0[j + 1] = b[p[j + 1]].value
      BY <1>27, <3>1
    <3> QED
      BY <3>1, <3>2, <3>3
  <2> QED
    BY <1>27, <1>28, <2>1, <2>2, IsCut
<1>30. b[i].value = s0[r]
  BY <1>3, <1>27 DEF i
<1> QED
  BY <1>9, <1>26, <1>29, <1>30 DEF ListShape, x, i, n, b, s0, s1
\* The free list with the slots old..old + g - 1 before it.
Refilled(q, m, old, g) == [a \in 1..g + m |-> IF a <= g THEN old + (a - 1) ELSE q[a - g]]

IsRefilled(s, q, m, old, g) ==
  \A a \in 1..g + m + 1 :
    At(s, g + m, a) = IF a <= g THEN old + (a - 1) ELSE At(q, m, a - g)

LEMMA RefilledIs ==
  ASSUME NEW m \in Nat, NEW old \in Nat, NEW g \in Nat, NEW q, OneToOne(q, m, old)
  PROVE  /\ OneToOne(Refilled(q, m, old, g), g + m, old + g)
         /\ IsRefilled(Refilled(q, m, old, g), q, m, old, g)
<1> DEFINE s == Refilled(q, m, old, g)
<1>1. s = [a \in 1..g + m |-> IF a <= g THEN old + (a - 1) ELSE q[a - g]]
  BY DEF Refilled
<1> HIDE DEF s
<1>2. \A a \in 1..m : q[a] \in 0..old - 1
  BY DEF OneToOne
<1>3. \A a, d \in 1..m : q[a] = q[d] => a = d
  BY DEF OneToOne
<1>4. \A a \in 1..g + m : s[a] = IF a <= g THEN old + (a - 1) ELSE q[a - g]
  BY <1>1
<1>5. ASSUME NEW a \in 1..g + m
      PROVE  /\ a <= g => s[a] = old + (a - 1) /\ s[a] \in old..old + g - 1
             /\ ~(a <= g) => a - g \in 1..m /\ s[a] = q[a - g] /\ s[a] \in 0..old - 1
  <2>1. CASE a <= g
    <3>1. old + (a - 1) \in old..old + g - 1
      BY <2>1
    <3> QED
      BY <1>4, <2>1, <3>1
  <2>2. CASE ~(a <= g)
    <3>1. a - g \in 1..m
      BY <2>2
    <3> QED
      BY <1>2, <1>4, <2>2, <3>1
  <2> QED
    BY <2>1, <2>2
<1>6. s \in [1..g + m -> 0..old + g - 1]
  <2>1. ASSUME NEW a \in 1..g + m PROVE s[a] \in 0..old + g - 1
    BY <1>5
  <2>2. s = [a \in 1..g + m |-> s[a]]
    BY <1>1
  <2> QED
    BY <2>1, <2>2
<1>7. ASSUME NEW a \in 1..g + m, NEW d \in 1..g + m, s[a] = s[d] PROVE a = d
  <2>1. CASE a <= g /\ d <= g
    <3>1. old + (a - 1) = old + (d - 1)
      BY <1>5, <1>7, <2>1
    <3> QED
      BY <3>1
  <2>2. CASE ~(a <= g) /\ ~(d <= g)
    <3>1. a - g = d - g
      BY <1>3, <1>5, <1>7, <2>2
    <3> QED
      BY <3>1
  <2>3. CASE (a <= g) /\ ~(d <= g)
    <3>1. s[a] \in old..old + g - 1 /\ s[a] \in 0..old - 1
      BY <1>5, <1>7, <2>3
    <3> QED
      BY <3>1
  <2>4. CASE ~(a <= g) /\ (d <= g)
    <3>1. s[d] \in old..old + g - 1 /\ s[d] \in 0..old - 1
      BY <1>5, <1>7, <2>4
    <3> QED
      BY <3>1
  <2> QED
    BY <2>1, <2>2, <2>3, <2>4
<1>8. ASSUME NEW a \in 1..g + m + 1
      PROVE  At(s, g + m, a) = IF a <= g THEN old + (a - 1) ELSE At(q, m, a - g)
  <2>1. CASE a \in 1..g + m
    BY <1>5, <2>1 DEF At
  <2>2. CASE a \notin 1..g + m
    <3>1. ~(a <= g) /\ a - g \notin 1..m
      BY <2>2
    <3> QED
      BY <2>2, <3>1 DEF At
  <2> QED
    BY <2>1, <2>2
<1>9. OneToOne(s, g + m, old + g)
  BY <1>6, <1>7 DEF OneToOne
<1> QED
  BY <1>8, <1>9 DEF IsRefilled, s

\* The list whose buffer grew from old to K slots, as in linked_list_reserve.
Regrown(l, s) ==
  [l EXCEPT !.free = CapOf(l.buf),
            !.buf = [i \in DOMAIN s |->
                      IF i < CapOf(l.buf) THEN s[i]
                      ELSE [prev |-> i, next |-> IF i = CapOf(s) - 1 THEN l.free ELSE i + 1,
                            value |-> Blank]]]

LEMMA RegrownIs ==
  ASSUME NEW l, NEW p, NEW q, Linked(l, p, q), NEW s, IsBuffer(s),
         CapOf(s) > CapOf(l.buf), CapOf(s) <= MaxCapacity,
         \A i \in 0..CapOf(l.buf) - 1 : s[i] = l.buf[i]
  PROVE  LET x == Regrown(l, s)
         IN /\ ListShape(x) /\ x.len = l.len /\ CapOf(x.buf) = CapOf(s)
            /\ ListContents(x) = ListContents(l)
<1> DEFINE n == l.len
           k == CapOf(l.buf)
           m == k - n
           K == CapOf(s)
           g == K - k
           b == l.buf
           x == Regrown(l, s)
           b1 == x.buf
           q1 == Refilled(q, m, k, g)
<1>1. /\ k \in Nat /\ DOMAIN b = 0..k - 1 /\ n \in Nat /\ m \in Nat
      /\ \A a \in 1..n : p[a] \in 0..k - 1
      /\ \A a \in 1..m : q[a] \in 0..k - 1
      /\ \A j \in 0..k - 1 : b[j] \in Nodes
      /\ None \notin Nat /\ Blank \in Slot
  BY LinkedFacts
<1>2. /\ l = [buf |-> b, first |-> l.first, last |-> l.last, free |-> l.free, len |-> n]
      /\ BufferOf(b, Nodes) /\ n <= k
      /\ OneToOne(p, n, k) /\ OneToOne(q, m, k)
      /\ \A j \in 0..k - 1 : (\E a \in 1..n : p[a] = j) \/ (\E a \in 1..m : q[a] = j)
      /\ Chained(b, p, n) /\ FreeChained(b, q, m)
      /\ l.first = At(p, n, 1) /\ l.last = At(p, n, n) /\ l.free = At(q, m, 1)
  BY DEF Linked
<1>3. /\ K \in Nat /\ DOMAIN s = 0..K - 1 /\ K > k /\ K <= MaxCapacity
      /\ \A j \in 0..k - 1 : s[j] = b[j]
  BY CapIs
<1>4. x = [l EXCEPT !.free = k,
                    !.buf = [j \in DOMAIN s |->
                      IF j < k THEN s[j]
                      ELSE [prev |-> j, next |-> IF j = K - 1 THEN l.free ELSE j + 1,
                            value |-> Blank]]]
  BY DEF Regrown
<1> HIDE DEF n, k, b, x, K
<1> DEFINE w == [j \in 0..K - 1 |->
                  IF j < k THEN s[j]
                  ELSE [prev |-> j, next |-> IF j = K - 1 THEN l.free ELSE j + 1,
                        value |-> Blank]]
<1>5. x = [buf |-> w, first |-> l.first, last |-> l.last, free |-> k, len |-> n]
  <2> DEFINE z == [buf |-> b, first |-> l.first, last |-> l.last, free |-> l.free, len |-> n]
             d1 == [z EXCEPT !.free = k]
  <2>1. x = [d1 EXCEPT !.buf = w]
    BY <1>2, <1>3, <1>4
  <2>2. d1 = [buf |-> b, first |-> l.first, last |-> l.last, free |-> k, len |-> n]
    OBVIOUS
  <2> HIDE DEF d1, w
  <2> QED
    BY <2>1, <2>2
<1>6. /\ b1 = w /\ x.first = l.first /\ x.last = l.last /\ x.free = k /\ x.len = n
      /\ x = [buf |-> x.buf, first |-> x.first, last |-> x.last, free |-> x.free,
              len |-> x.len]
  BY <1>5
<1> HIDE DEF b1
<1>7. /\ \A j \in 0..k - 1 : b1[j] = b[j]
      /\ \A j \in 0..K - 1 : ~(j < k) =>
           b1[j] = [prev |-> j, next |-> IF j = K - 1 THEN l.free ELSE j + 1, value |-> Blank]
      /\ b1 = [j \in 0..K - 1 |-> b1[j]]
  BY <1>1, <1>3, <1>6
<1> HIDE DEF w
<1>8. l.free \in Nat \cup {None}
  <2>1. \A a \in 1..m : q[a] \in Nat
    BY <1>1
  <2> QED
    BY <1>2, <2>1 DEF At
<1>9. BufferOf(b1, Nodes) /\ CapOf(b1) = K
  <2>1. IsBuffer(b1) /\ CapOf(b1) = K
    BY <1>3, <1>7, BufferIs
  <2>2. ASSUME NEW j \in 0..K - 1 PROVE b1[j] \in Nodes
    <3>1. CASE j < k
      <4>1. j \in 0..k - 1
        BY <1>1, <3>1
      <4> QED
        BY <1>1, <1>7, <4>1
    <3>2. CASE ~(j < k)
      <4> DEFINE v == IF j = K - 1 THEN l.free ELSE j + 1
      <4>1. v \in Nat \cup {None} /\ j \in Nat
        BY <1>8
      <4>2. b1[j] = [prev |-> j, next |-> v, value |-> Blank]
        BY <1>7, <3>2
      <4> HIDE DEF v
      <4> QED
        BY <1>1, <4>1, <4>2 DEF Nodes
    <3> QED
      BY <3>1, <3>2
  <2> QED
    BY <1>3, <2>1, <2>2 DEF BufferOf
<1> HIDE DEF m, g
<1>10. g \in Nat /\ g > 0 /\ k + g = K /\ K - n = g + m /\ n <= K
  BY <1>1, <1>2, <1>3 DEF m, g
<1>11. OneToOne(q1, g + m, K) /\ IsRefilled(q1, q, m, k, g)
  <2>1. OneToOne(q1, g + m, k + g) /\ IsRefilled(q1, q, m, k, g)
    BY <1>1, <1>2, <1>10, RefilledIs
  <2> QED
    BY <1>10, <2>1
<1> HIDE DEF q1
<1>12. \A a \in 1..g + m + 1 :
         At(q1, g + m, a) = IF a <= g THEN k + (a - 1) ELSE At(q, m, a - g)
  BY <1>11 DEF IsRefilled
<1>13. Chained(b1, p, n)
  BY <1>1, <1>2, <1>7 DEF Chained
<1>14. FreeChained(b1, q1, g + m)
  <2>1. ASSUME NEW a \in 1..g + m
        PROVE  b1[q1[a]].prev = q1[a] /\ b1[q1[a]].next = At(q1, g + m, a + 1)
    <3>1. a \in 1..g + m + 1 /\ a + 1 \in 1..g + m + 1
      BY <1>1, <1>10
    <3>2. q1[a] = At(q1, g + m, a)
      BY DEF At
    <3>3. CASE a < g
      <4>1. q1[a] = k + (a - 1) /\ At(q1, g + m, a + 1) = k + (a + 1 - 1)
        <5>1. a <= g /\ a + 1 <= g
          BY <1>10, <3>3
        <5> QED
          BY <1>12, <3>1, <3>2, <5>1
      <4> DEFINE j == k + (a - 1)
      <4>2. j \in 0..K - 1 /\ ~(j < k) /\ j # K - 1 /\ j + 1 = k + (a + 1 - 1)
        BY <1>1, <1>10, <3>3
      <4> HIDE DEF j
      <4>3. b1[j] = [prev |-> j, next |-> j + 1, value |-> Blank]
        BY <1>7, <4>2
      <4> QED
        BY <4>1, <4>2, <4>3 DEF j
    <3>4. CASE a = g
      <4>1. q1[a] = k + (a - 1)
        BY <1>10, <1>12, <3>1, <3>2, <3>4
      <4>2. At(q1, g + m, a + 1) = At(q, m, 1)
        <5> DEFINE d == a + 1
        <5>1. ~(d <= g) /\ d - g = 1 /\ d \in 1..g + m + 1
          BY <1>10, <3>1, <3>4
        <5> HIDE DEF d
        <5>2. At(q1, g + m, d) = At(q, m, 1)
          BY <1>12, <5>1
        <5> QED
          BY <5>2 DEF d
      <4> DEFINE j == k + (a - 1)
      <4>3. j \in 0..K - 1 /\ ~(j < k) /\ j = K - 1
        BY <1>1, <1>10, <3>4
      <4> HIDE DEF j
      <4>4. b1[j] = [prev |-> j, next |-> l.free, value |-> Blank]
        BY <1>7, <4>3
      <4>5. l.free = At(q, m, 1)
        BY <1>2, Zenon
      <4>6. q1[a] = j
        BY <4>1 DEF j
      <4>7. b1[j].prev = j /\ b1[j].next = l.free
        BY <4>4
      <4> QED
        BY <4>2, <4>5, <4>6, <4>7, Zenon
    <3>5. CASE a > g
      <4> DEFINE d == a - g
      <4> DEFINE f == a + 1
      <4>1. /\ ~(a <= g) /\ ~(f <= g) /\ d \in 1..m /\ f - g = d + 1
            /\ f \in 1..g + m + 1 /\ a - g = d
        BY <1>1, <1>10, <3>1, <3>5
      <4> HIDE DEF d, f
      <4>2. q1[a] = At(q, m, d) /\ At(q1, g + m, a + 1) = At(q, m, d + 1)
        <5>1. q1[a] = At(q, m, d)
          BY <1>12, <3>1, <3>2, <4>1
        <5>2. At(q1, g + m, f) = At(q, m, d + 1)
          BY <1>12, <4>1
        <5> QED
          BY <5>1, <5>2 DEF f
      <4>3. At(q, m, d) = q[d] /\ q[d] \in 0..k - 1
        BY <1>1, <4>1 DEF At
      <4>4. b[q[d]].prev = q[d] /\ b[q[d]].next = At(q, m, d + 1)
        BY <1>2, <4>1 DEF FreeChained
      <4> QED
        BY <1>7, <4>2, <4>3, <4>4
    <3> QED
      BY <1>10, <3>3, <3>4, <3>5
  <2> QED
    BY <2>1 DEF FreeChained
<1>15. ASSUME NEW j \in 0..K - 1
       PROVE  (\E a \in 1..n : p[a] = j) \/ (\E a \in 1..g + m : q1[a] = j)
  <2>1. CASE j < k
    <3>1. j \in 0..k - 1
      BY <1>1, <2>1
    <3>2. ASSUME NEW a \in 1..m, q[a] = j PROVE \E d \in 1..g + m : q1[d] = j
      <4> DEFINE d == a + g
      <4>1. d \in 1..g + m /\ d \in 1..g + m + 1 /\ ~(d <= g) /\ d - g = a
        BY <1>1, <1>10
      <4> HIDE DEF d
      <4>2. At(q1, g + m, d) = At(q, m, a)
        BY <1>12, <4>1
      <4>3. q1[d] = q[a]
        BY <4>1, <4>2 DEF At
      <4> QED
        BY <3>2, <4>1, <4>3
    <3> QED
      BY <1>2, <3>1, <3>2
  <2>2. CASE ~(j < k)
    <3> DEFINE d == j - k + 1
    <3>1. d \in 1..g + m /\ d \in 1..g + m + 1 /\ d <= g /\ k + (d - 1) = j
      BY <1>1, <1>10, <2>2
    <3> HIDE DEF d
    <3>2. At(q1, g + m, d) = j
      BY <1>12, <3>1
    <3>3. q1[d] = j
      BY <3>1, <3>2 DEF At
    <3> QED
      BY <3>1, <3>3
  <2> QED
    BY <2>1, <2>2
<1>16. OneToOne(p, n, K)
  <2>1. p \in [1..n -> 0..k - 1] /\ \A a, d \in 1..n : p[a] = p[d] => a = d
    BY <1>2 DEF OneToOne
  <2>2. p \in [1..n -> 0..K - 1]
    BY <1>1, <1>3, <2>1
  <2> QED
    BY <2>1, <2>2 DEF OneToOne
<1>17. k = At(q1, g + m, 1)
  <2>1. 1 \in 1..g + m + 1 /\ 1 <= g /\ k + (1 - 1) = k
    BY <1>1, <1>10
  <2> QED
    BY <1>12, <2>1
<1>18. Linked(x, p, q1)
  BY <1>1, <1>2, <1>6, <1>9, <1>10, <1>11, <1>13, <1>14, <1>15, <1>16, <1>17 DEF Linked, b1
<1> DEFINE s0 == ListContents(l)
           s1 == ListContents(x)
<1>19. s0 \in Seq(Elements) /\ Len(s0) = n /\ \A j \in 1..n : s0[j] = b[p[j]].value
  BY ListContentsAre DEF n, b
<1>20. s1 \in Seq(Elements) /\ Len(s1) = n /\ \A j \in 1..n : s1[j] = b1[p[j]].value
  BY <1>6, <1>18, ListContentsAre DEF b1
<1> HIDE DEF s0, s1
<1>21. \A j \in 1..Len(s1) : s1[j] = s0[j]
  <2>1. \A j \in 1..n : b1[p[j]] = b[p[j]]
    BY <1>1, <1>7
  <2> QED
    BY <1>19, <1>20, <2>1
<1>22. s1 = s0
  BY <1>19, <1>20, <1>21, SameSequence
<1> QED
  BY <1>6, <1>9, <1>18, <1>22 DEF ListShape, x, n, K, s0, s1, b1

LEMMA ListReserveIs ==
  ASSUME NEW l, ListShape(l), NEW n \in Nat, NEW r \in linked_list_reserve(l, n)
  PROVE  /\ r.ok \in BOOLEAN /\ r.gone = {} /\ ListShape(r.c)
         /\ r = [ok |-> r.ok, c |-> r.c, gone |-> {}]
         /\ r.c.len = l.len /\ ListContents(r.c) = ListContents(l)
         /\ r.ok => CapOf(r.c.buf) >= l.len + n
<1>1. PICK p, q : Linked(l, p, q)
  BY DEF ListShape
<1>2. /\ CapOf(l.buf) \in Nat /\ l.len \in Nat /\ IsBuffer(l.buf)
  BY <1>1, LinkedFacts DEF Linked, BufferOf
<1>3. CASE r = [ok |-> TRUE, c |-> l, gone |-> {}] /\ l.len + n <= CapOf(l.buf)
  BY <1>2, <1>3
<1>4. CASE r = [ok |-> FALSE, c |-> l, gone |-> {}]
  BY <1>4
<1>5. ASSUME NEW s \in Reserved(l.buf, l.len + n), s.ok, l.len + n > CapOf(l.buf),
             r = [ok |-> s.ok, gone |-> {}, c |-> Regrown(l, s.buf)]
      PROVE  /\ r.ok \in BOOLEAN /\ r.gone = {} /\ ListShape(r.c)
             /\ r = [ok |-> r.ok, c |-> r.c, gone |-> {}]
             /\ r.c.len = l.len /\ ListContents(r.c) = ListContents(l)
             /\ CapOf(r.c.buf) >= l.len + n
  <2>1. /\ s.ok \in BOOLEAN /\ IsBuffer(s.buf)
        /\ CapOf(s.buf) >= l.len + n
        /\ \A i \in 0..CapOf(l.buf) - 1 : s.buf[i] = l.buf[i]
        /\ CapOf(s.buf) > CapOf(l.buf) => CapOf(s.buf) <= MaxCapacity
    BY <1>2, <1>5, ReservedIs
  <2>2. CapOf(s.buf) \in Nat
    BY <2>1, CapIs
  <2>3. CapOf(s.buf) > CapOf(l.buf) /\ CapOf(s.buf) <= MaxCapacity
    BY <1>2, <1>5, <2>1, <2>2
  <2> DEFINE x == Regrown(l, s.buf)
  <2>4. /\ ListShape(x) /\ x.len = l.len /\ CapOf(x.buf) = CapOf(s.buf)
        /\ ListContents(x) = ListContents(l)
    BY <1>1, <2>1, <2>3, RegrownIs
  <2> HIDE DEF x
  <2>5. r = [ok |-> s.ok, gone |-> {}, c |-> x]
    BY <1>5 DEF x
  <2> QED
    BY <2>1, <2>4, <2>5
<1>6. CASE l.len + n <= CapOf(l.buf)
  BY <1>3, <1>6 DEF linked_list_reserve
<1>7. CASE l.len + n > CapOf(l.buf)
  <2>1. PICK s \in Reserved(l.buf, l.len + n) :
          r = [ok |-> s.ok, gone |-> {}, c |-> IF ~s.ok THEN l ELSE Regrown(l, s.buf)]
    <3>1. ~(l.len + n <= CapOf(l.buf))
      BY <1>2, <1>7
    <3> QED
      BY <3>1, Zenon DEF linked_list_reserve, Regrown
  <2>2. s.ok \in BOOLEAN
    BY <1>2, ReservedIs
  <2>3. CASE s.ok
    BY <1>5, <1>7, <2>1, <2>3
  <2>4. CASE ~s.ok
    BY <1>4, <2>1, <2>2, <2>4
  <2> QED
    BY <2>3, <2>4
<1> QED
  BY <1>2, <1>6, <1>7
LEMMA CutFirst ==
  ASSUME NEW S, NEW s \in Seq(S), s # <<>>
  PROVE  Splice(s, 0, 1, <<>>) = Tail(s)
<1> DEFINE t == Splice(s, 0, 1, <<>>)
<1>1. Len(s) \in Nat /\ Len(s) > 0 /\ <<>> \in Seq(S) /\ Len(<<>>) = 0
  <2>1. Len(s) \in Nat /\ (Len(s) = 0 => s = <<>>)
    BY LenProperties, EmptySeq
  <2>2. <<>> \in Seq(S) /\ Len(<<>>) = 0
    BY EmptySeq
  <2> QED
    BY <2>1, <2>2
<1> DEFINE new == <<>>
           drop == 1
           i == 0
<1>2. t \in Seq(S) /\ SplicedSo(t, s, 0, 1, <<>>)
  <2>1. new \in Seq(S) /\ drop \in Nat /\ i \in Nat /\ i + drop <= Len(s)
    BY <1>1
  <2> HIDE DEF new, drop, i
  <2> DEFINE u == Splice(s, i, drop, new)
  <2>2. /\ u \in Seq(S) /\ Len(u) = Len(s) - drop + Len(new)
        /\ \A j \in 1..Len(s) - drop + Len(new) :
             u[j] = IF j <= i THEN s[j]
                    ELSE IF j <= i + Len(new) THEN new[j - i]
                    ELSE s[j - Len(new) + drop]
    BY <2>1, SpliceIs
  <2> HIDE DEF u
  <2>3. u \in Seq(S) /\ SplicedSo(u, s, i, drop, new)
    BY <2>2 DEF SplicedSo
  <2> QED
    BY <2>3 DEF u, new, drop, i
<1> HIDE DEF t
<1>3. Len(t) = Len(s) - 1
  BY <1>1, <1>2 DEF SplicedSo
<1>4. ASSUME NEW j \in 1..Len(t) PROVE t[j] = s[j + 1]
  <2>1. ~(j <= 0) /\ ~(j <= 0 + Len(<<>>)) /\ j - Len(<<>>) + 1 = j + 1
    BY <1>1, <1>3
  <2> QED
    BY <1>2, <2>1 DEF SplicedSo
<1>5. t = Tail(s)
  BY <1>2, <1>3, <1>4, IsTail
<1> QED
  BY <1>5 DEF t

LEMMA NewList ==
  /\ ListShape(linked_list_new) /\ linked_list_new.len = 0
  /\ ListContents(linked_list_new) = <<>>
<1> DEFINE l == linked_list_new
           p == [i \in 1..0 |-> 0]
<1>1. /\ l.buf = raw_buf_new /\ l.first = None /\ l.last = None /\ l.free = None /\ l.len = 0
      /\ l = [buf |-> l.buf, first |-> l.first, last |-> l.last, free |-> l.free, len |-> l.len]
  BY DEF linked_list_new
<1>2. BufferOf(l.buf, Nodes) /\ CapOf(l.buf) = 0
  BY <1>1, NewBuffer
<1> HIDE DEF l
<1>3. 1..0 = {} /\ 0..0 - 1 = {} /\ 0 - 0 = 0
  OBVIOUS
<1>4. OneToOne(p, 0, 0)
  BY <1>3 DEF OneToOne
<1> HIDE DEF p
<1>5. Chained(l.buf, p, 0) /\ FreeChained(l.buf, p, 0)
  BY <1>3 DEF Chained, FreeChained
<1>6. At(p, 0, 1) = None /\ At(p, 0, 0) = None
  BY <1>3 DEF At
<1>7. Linked(l, p, p)
  BY <1>1, <1>2, <1>3, <1>4, <1>5, <1>6 DEF Linked
<1>8. ListContents(l) \in Seq(Elements) /\ Len(ListContents(l)) = 0
  BY <1>1, <1>7, ListContentsAre
<1>9. ListContents(l) = <<>>
  BY <1>8, EmptySeq
<1> QED
  BY <1>1, <1>7, <1>9 DEF ListShape, l

LEMMA ListRoom ==
  ASSUME NEW l, ListShape(l), CapOf(l.buf) > l.len
  PROVE  l.free # None
<1>1. PICK p, q : Linked(l, p, q)
  BY DEF ListShape
<1> DEFINE m == CapOf(l.buf) - l.len
<1>2. /\ CapOf(l.buf) \in Nat /\ l.len \in Nat /\ None \notin Nat
      /\ \A a \in 1..m : q[a] \in 0..CapOf(l.buf) - 1
  BY <1>1, LinkedFacts
<1>3. 1 \in 1..m
  BY <1>2
<1>4. q[1] \in Nat
  BY <1>2, <1>3
<1>5. l.free = At(q, m, 1)
  BY <1>1 DEF Linked
<1> QED
  BY <1>2, <1>3, <1>4, <1>5 DEF At

LEMMA ListAllocateIs ==
  ASSUME NEW l, ListShape(l), NEW r \in linked_list_allocate(l)
  PROVE  /\ r.ok \in BOOLEAN /\ r.gone = {} /\ ListShape(r.c)
         /\ r = [ok |-> r.ok, c |-> r.c, gone |-> {}]
         /\ r.c.len = l.len /\ ListContents(r.c) = ListContents(l)
         /\ r.ok => r.c.free # None
<1>1. CASE l.free # None
  <2>1. r = [ok |-> TRUE, c |-> l, gone |-> {}]
    BY <1>1 DEF linked_list_allocate
  <2> QED
    BY <1>1, <2>1
<1>2. CASE l.free = None
  <2>1. r \in linked_list_reserve(l, 1)
    BY <1>2, Zenon DEF linked_list_allocate
  <2>2. /\ r.ok \in BOOLEAN /\ r.gone = {} /\ ListShape(r.c)
        /\ r = [ok |-> r.ok, c |-> r.c, gone |-> {}]
        /\ r.c.len = l.len /\ ListContents(r.c) = ListContents(l)
        /\ r.ok => CapOf(r.c.buf) >= l.len + 1
    BY <2>1, ListReserveIs
  <2>3. ASSUME r.ok PROVE r.c.free # None
    <3>1. CapOf(r.c.buf) \in Nat /\ l.len \in Nat
      <4>1. PICK p, q : Linked(r.c, p, q)
        BY <2>2 DEF ListShape
      <4>2. CapOf(r.c.buf) \in Nat /\ r.c.len \in Nat
        BY <4>1, LinkedFacts
      <4> QED
        BY <2>2, <4>2
    <3>2. CapOf(r.c.buf) > r.c.len
      BY <2>2, <2>3, <3>1
    <3> QED
      BY <2>2, <3>2, ListRoom
  <2> QED
    BY <2>2, <2>3
<1> QED
  BY <1>1, <1>2

LEMMA ListPushFrontIs ==
  ASSUME NEW l, ListShape(l), NEW e \in Elements, NEW r \in linked_list_push_front(l, e)
  PROVE  /\ r.ok \in BOOLEAN /\ r.gone = {} /\ ListShape(r.c)
         /\ ~r.ok => ListContents(r.c) = ListContents(l)
         /\ r.ok => ListContents(r.c) = <<e>> \o ListContents(l)
<1>1. PICK s \in linked_list_allocate(l) :
        r = IF s.ok THEN [s EXCEPT !.c = LinkFront(@, @.free, e)] ELSE s
  BY Zenon DEF linked_list_push_front
<1>2. /\ s.ok \in BOOLEAN /\ s.gone = {} /\ ListShape(s.c)
      /\ s = [ok |-> s.ok, c |-> s.c, gone |-> {}]
      /\ s.c.len = l.len /\ ListContents(s.c) = ListContents(l)
      /\ s.ok => s.c.free # None
  BY ListAllocateIs
<1>3. CASE ~s.ok
  BY <1>1, <1>2, <1>3
<1>4. CASE s.ok
  <2> DEFINE x == LinkFront(s.c, s.c.free, e)
  <2>1. r.ok = TRUE /\ r.gone = {} /\ r.c = x
    BY <1>1, <1>2, <1>4
  <2>2. PICK p, q : Linked(s.c, p, q)
    BY <1>2 DEF ListShape
  <2>3. ListShape(x) /\ ListContents(x) = <<e>> \o ListContents(s.c)
    BY <1>2, <1>4, <2>2, LinkFrontIs
  <2> HIDE DEF x
  <2> QED
    BY <1>2, <2>1, <2>3
<1> QED
  BY <1>3, <1>4

LEMMA ListPushBackIs ==
  ASSUME NEW l, ListShape(l), NEW e \in Elements, NEW r \in linked_list_push_back(l, e)
  PROVE  /\ r.ok \in BOOLEAN /\ r.gone = {} /\ ListShape(r.c)
         /\ ~r.ok => ListContents(r.c) = ListContents(l)
         /\ r.ok => ListContents(r.c) = Append(ListContents(l), e)
<1>1. PICK s \in linked_list_allocate(l) :
        r = IF s.ok THEN [s EXCEPT !.c = LinkBack(@, @.free, e)] ELSE s
  BY Zenon DEF linked_list_push_back
<1>2. /\ s.ok \in BOOLEAN /\ s.gone = {} /\ ListShape(s.c)
      /\ s = [ok |-> s.ok, c |-> s.c, gone |-> {}]
      /\ s.c.len = l.len /\ ListContents(s.c) = ListContents(l)
      /\ s.ok => s.c.free # None
  BY ListAllocateIs
<1>3. CASE ~s.ok
  BY <1>1, <1>2, <1>3
<1>4. CASE s.ok
  <2> DEFINE x == LinkBack(s.c, s.c.free, e)
  <2>1. r.ok = TRUE /\ r.gone = {} /\ r.c = x
    BY <1>1, <1>2, <1>4
  <2>2. PICK p, q : Linked(s.c, p, q)
    BY <1>2 DEF ListShape
  <2>3. ListShape(x) /\ ListContents(x) = Append(ListContents(s.c), e)
    BY <1>2, <1>4, <2>2, LinkBackIs
  <2> HIDE DEF x
  <2> QED
    BY <1>2, <2>1, <2>3
<1> QED
  BY <1>3, <1>4

\* Outcome r has given back the n-th of the elements s of a list.
NthGone(r, s, n) ==
  /\ r.ok = TRUE /\ r.gone = {s[n]} /\ ListShape(r.c)
  /\ ListContents(r.c) = Splice(s, n - 1, 1, <<>>)

LEMMA ListRemoveNth ==
  ASSUME NEW l, NEW p, NEW q, Linked(l, p, q), NEW n \in 1..l.len,
         NEW r \in linked_list_remove(l, p[n])
  PROVE  NthGone(r, ListContents(l), n)
<1>1. p[n] \in DOMAIN l.buf
  BY LinkedFacts
<1>2. is_active(l, p[n])
  BY <1>1, ActiveIs
<1> DEFINE x == Unlinked(l, p[n])
<1>3. r = [ok |-> TRUE, c |-> x, gone |-> {l.buf[p[n]].value}]
  BY <1>2, Zenon DEF linked_list_remove
<1>4. /\ ListShape(x) /\ ListContents(x) = Splice(ListContents(l), n - 1, 1, <<>>)
      /\ l.buf[p[n]].value = ListContents(l)[n]
  BY UnlinkedIs
<1> HIDE DEF x
<1> QED
  BY <1>3, <1>4 DEF NthGone

\* An index that is not in use is refused; one that is names an element.
LEMMA ListRemoveIs ==
  ASSUME NEW l, ListShape(l), NEW i \in DOMAIN l.buf, NEW r \in linked_list_remove(l, i)
  PROVE  \/ r.ok = FALSE /\ r.gone = {} /\ r.c = l
         \/ /\ r.ok = TRUE /\ ListShape(r.c)
            /\ \E n \in 1..Len(ListContents(l)) : NthGone(r, ListContents(l), n)
<1>1. PICK p, q : Linked(l, p, q)
  BY DEF ListShape
<1>2. CASE ~is_active(l, i)
  <2>1. r = [ok |-> FALSE, c |-> l, gone |-> {}]
    BY <1>2, Zenon DEF linked_list_remove
  <2> QED
    BY <2>1
<1>3. CASE is_active(l, i)
  <2>1. PICK n \in 1..l.len : p[n] = i
    BY <1>1, <1>3, ActiveIs
  <2>2. NthGone(r, ListContents(l), n)
    BY <1>1, <2>1, ListRemoveNth
  <2>3. n \in 1..Len(ListContents(l))
    <3>1. Len(ListContents(l)) = l.len
      BY <1>1, ListContentsAre
    <3> QED
      BY <3>1
  <2> QED
    BY <2>2, <2>3 DEF NthGone
<1> QED
  BY <1>2, <1>3

\* first and last are None in an empty list only; removing them removes the ends.
LEMMA ListEndsAre ==
  ASSUME NEW l, ListShape(l)
  PROVE  /\ l.first = None <=> ListContents(l) = <<>>
         /\ l.last = None <=> ListContents(l) = <<>>
         /\ l.first # None =>
              \A r \in linked_list_remove(l, l.first) : NthGone(r, ListContents(l), 1)
         /\ l.last # None =>
              \A r \in linked_list_remove(l, l.last) :
                NthGone(r, ListContents(l), Len(ListContents(l)))
<1> DEFINE s == ListContents(l)
           n == l.len
<1> DEFINE first == l.first
           final == l.last
<1>1. PICK p, q : Linked(l, p, q)
  BY DEF ListShape
<1>2. /\ n \in Nat /\ None \notin Nat
      /\ \A i \in 1..n : p[i] \in 0..CapOf(l.buf) - 1
  BY <1>1, LinkedFacts
<1>3. s \in Seq(Elements) /\ Len(s) = n
  BY <1>1, ListContentsAre
<1>4. first = At(p, n, 1) /\ final = At(p, n, n)
  BY <1>1 DEF Linked
<1>5. s = <<>> <=> n = 0
  BY <1>3, EmptySeq
<1>6. ASSUME NEW i \in 1..n, NEW r \in linked_list_remove(l, p[i])
      PROVE  NthGone(r, s, i)
  BY <1>1, ListRemoveNth
<1> HIDE DEF s, n, first, final
<1>7. CASE n = 0
  <2>1. first = None /\ final = None
    BY <1>4, <1>7 DEF At
  <2> QED
    BY <1>5, <1>7, <2>1 DEF s, first, final
<1>8. CASE n # 0
  <2>1. 1 \in 1..n /\ n \in 1..n /\ 1 - 1 = 0
    BY <1>2, <1>8
  <2>2. p[1] \in Nat /\ p[n] \in Nat
    BY <1>2, <2>1
  <2>3. first = p[1] /\ final = p[n] /\ first # None /\ final # None
    BY <1>2, <1>4, <2>1, <2>2 DEF At
  <2>4. \A r \in linked_list_remove(l, first) : NthGone(r, s, 1)
    BY <1>6, <2>1, <2>3
  <2>5. \A r \in linked_list_remove(l, final) : NthGone(r, s, Len(s))
    BY <1>3, <1>6, <2>1, <2>3
  <2> QED
    BY <1>5, <1>8, <2>3, <2>4, <2>5 DEF s, first, final
<1> QED
  BY <1>7, <1>8
-------------------------------------------------------------------------------
(* Sequences of objects *)

\* s holds the objects of o, each in one place.
Owns(s, o) ==
  /\ s \in Seq(Elements)
  /\ \A i, j \in 1..Len(s) : s[i] = s[j] => i = j
  /\ o = {s[i] : i \in 1..Len(s)}

\* t is s without place i + 1; with e as place i + 1; with e for place i + 1;
\* with the last element in place i + 1.
CutSo(t, s, i) ==
  /\ t \in Seq(Elements) /\ Len(t) = Len(s) - 1
  /\ \A j \in 1..Len(t) : t[j] = IF j <= i THEN s[j] ELSE s[j + 1]

AddedSo(t, s, i, e) ==
  /\ t \in Seq(Elements) /\ Len(t) = Len(s) + 1
  /\ \A j \in 1..Len(t) : t[j] = IF j <= i THEN s[j] ELSE IF j = i + 1 THEN e ELSE s[j - 1]

PutSo(t, s, i, e) ==
  /\ t \in Seq(Elements) /\ Len(t) = Len(s)
  /\ \A j \in 1..Len(t) : t[j] = IF j = i + 1 THEN e ELSE s[j]

SwapSo(t, s, i) ==
  /\ t \in Seq(Elements) /\ Len(t) = Len(s) - 1
  /\ \A j \in 1..Len(t) : t[j] = s[IF j = i + 1 THEN Len(s) ELSE j]

LEMMA OwnsCut ==
  ASSUME NEW s, NEW o, Owns(s, o), NEW i \in 0..Len(s) - 1, NEW t, CutSo(t, s, i)
  PROVE  Owns(t, o \ {s[i + 1]})
<1> DEFINE n == Len(s)
<1>1. /\ s \in Seq(Elements) /\ n \in Nat /\ i + 1 \in 1..n
      /\ \A a, b \in 1..n : s[a] = s[b] => a = b
      /\ o = {s[a] : a \in 1..n}
  BY LenProperties DEF Owns
<1>2. /\ t \in Seq(Elements) /\ Len(t) = n - 1
      /\ \A j \in 1..n - 1 : t[j] = IF j <= i THEN s[j] ELSE s[j + 1]
  BY DEF CutSo
<1> HIDE DEF n
<1>3. \A j \in 1..n - 1 : j \in 1..n /\ j + 1 \in 1..n /\ j # j + 1
  BY <1>1
<1>4. ASSUME NEW a \in 1..n - 1, NEW b \in 1..n - 1, t[a] = t[b] PROVE a = b
  <2>1. CASE a <= i /\ b <= i
    BY <1>1, <1>2, <1>3, <1>4, <2>1
  <2>2. CASE ~(a <= i) /\ ~(b <= i)
    <3>1. a + 1 = b + 1
      BY <1>1, <1>2, <1>3, <1>4, <2>2
    <3> QED
      BY <3>1
  <2>3. CASE a <= i /\ ~(b <= i)
    <3>1. a = b + 1
      BY <1>1, <1>2, <1>3, <1>4, <2>3
    <3> QED
      BY <2>3, <3>1
  <2>4. CASE ~(a <= i) /\ b <= i
    <3>1. a + 1 = b
      BY <1>1, <1>2, <1>3, <1>4, <2>4
    <3> QED
      BY <2>4, <3>1
  <2> QED
    BY <2>1, <2>2, <2>3, <2>4
<1>5. ASSUME NEW a \in 1..n - 1 PROVE t[a] \in o \ {s[i + 1]}
  <2>1. CASE a <= i
    <3>1. t[a] = s[a] /\ a # i + 1
      BY <1>2, <2>1
    <3> QED
      BY <1>1, <1>3, <3>1
  <2>2. CASE ~(a <= i)
    <3>1. t[a] = s[a + 1] /\ a + 1 # i + 1
      BY <1>2, <2>2
    <3> QED
      BY <1>1, <1>3, <3>1
  <2> QED
    BY <2>1, <2>2
<1>6. ASSUME NEW a \in 1..n, s[a] # s[i + 1] PROVE \E d \in 1..n - 1 : t[d] = s[a]
  <2>1. CASE a <= i
    <3>1. a \in 1..n - 1
      BY <1>1, <2>1
    <3> QED
      BY <1>2, <2>1, <3>1
  <2>2. CASE ~(a <= i)
    <3> DEFINE d == a - 1
    <3>1. a # i + 1
      BY <1>6
    <3>2. d \in 1..n - 1 /\ ~(d <= i) /\ d + 1 = a
      BY <1>1, <2>2, <3>1
    <3> HIDE DEF d
    <3> QED
      BY <1>2, <3>2
  <2> QED
    BY <2>1, <2>2
<1>7. o \ {s[i + 1]} = {t[a] : a \in 1..n - 1}
  <2>1. \A x \in o \ {s[i + 1]} : \E d \in 1..n - 1 : t[d] = x
    BY <1>1, <1>6
  <2>2. \A a \in 1..n - 1 : t[a] \in o \ {s[i + 1]}
    BY <1>5
  <2> QED
    BY <2>1, <2>2
<1> QED
  BY <1>2, <1>4, <1>7 DEF Owns, n

LEMMA OwnsAdded ==
  ASSUME NEW s, NEW o, Owns(s, o), NEW i \in 0..Len(s), NEW e, e \notin o,
         NEW t, AddedSo(t, s, i, e)
  PROVE  Owns(t, o \cup {e})
<1> DEFINE n == Len(s)
<1>1. /\ s \in Seq(Elements) /\ n \in Nat /\ i \in 0..n
      /\ \A a, b \in 1..n : s[a] = s[b] => a = b
      /\ o = {s[a] : a \in 1..n}
  BY LenProperties DEF Owns
<1>2. /\ t \in Seq(Elements) /\ Len(t) = n + 1
      /\ \A j \in 1..n + 1 : t[j] = IF j <= i THEN s[j] ELSE IF j = i + 1 THEN e ELSE s[j - 1]
  BY DEF AddedSo
<1> HIDE DEF n
<1>3. \A a \in 1..n : s[a] # e
  BY <1>1
<1>4. ASSUME NEW j \in 1..n + 1
      PROVE  \/ j <= i /\ j \in 1..n /\ t[j] = s[j]
             \/ j = i + 1 /\ t[j] = e
             \/ j > i + 1 /\ j - 1 \in 1..n /\ t[j] = s[j - 1]
  <2>1. \/ j <= i /\ j \in 1..n
        \/ j = i + 1 /\ ~(j <= i)
        \/ j > i + 1 /\ ~(j <= i) /\ j # i + 1 /\ j - 1 \in 1..n
    BY <1>1
  <2>2. CASE j <= i /\ j \in 1..n
    BY <1>2, <2>2
  <2>3. CASE j = i + 1 /\ ~(j <= i)
    BY <1>2, <2>3
  <2>4. CASE j > i + 1 /\ ~(j <= i) /\ j # i + 1 /\ j - 1 \in 1..n
    BY <1>2, <2>4
  <2> QED
    BY <2>1, <2>2, <2>3, <2>4
<1>5. ASSUME NEW a \in 1..n + 1, NEW b \in 1..n + 1, t[a] = t[b] PROVE a = b
  <2>1. CASE a = i + 1 \/ b = i + 1
    <3>1. a = i + 1 => ~(a <= i) /\ ~(a > i + 1)
      OBVIOUS
    <3>2. b = i + 1 => ~(b <= i) /\ ~(b > i + 1)
      OBVIOUS
    <3>3. a = i + 1 => t[b] = e
      BY <1>4, <1>5, <3>1
    <3>4. b = i + 1 => t[a] = e
      BY <1>4, <1>5, <3>2
    <3>5. t[b] = e => b = i + 1
      BY <1>3, <1>4
    <3>6. t[a] = e => a = i + 1
      BY <1>3, <1>4
    <3> QED
      BY <2>1, <3>3, <3>4, <3>5, <3>6
  <2>2. CASE a <= i /\ b <= i
    BY <1>1, <1>2, <1>4, <1>5, <2>2
  <2>3. CASE a > i + 1 /\ b > i + 1
    <3>1. t[a] = s[a - 1] /\ t[b] = s[b - 1] /\ a - 1 \in 1..n /\ b - 1 \in 1..n
      BY <1>4, <2>3
    <3>2. a - 1 = b - 1
      BY <1>1, <1>5, <3>1
    <3> QED
      BY <3>2
  <2>4. CASE a <= i /\ b > i + 1
    <3>1. t[a] = s[a] /\ t[b] = s[b - 1] /\ a \in 1..n /\ b - 1 \in 1..n
      BY <1>4, <2>4
    <3>2. a = b - 1
      BY <1>1, <1>5, <3>1
    <3> QED
      BY <2>4, <3>2
  <2>5. CASE a > i + 1 /\ b <= i
    <3>1. t[a] = s[a - 1] /\ t[b] = s[b] /\ a - 1 \in 1..n /\ b \in 1..n
      BY <1>4, <2>5
    <3>2. a - 1 = b
      BY <1>1, <1>5, <3>1
    <3> QED
      BY <2>5, <3>2
  <2> QED
    BY <1>4, <2>1, <2>2, <2>3, <2>4, <2>5
<1>6. \A j \in 1..n + 1 : t[j] \in o \cup {e}
  BY <1>1, <1>4
<1>7. ASSUME NEW a \in 1..n PROVE \E d \in 1..n + 1 : t[d] = s[a]
  <2>1. CASE a <= i
    <3>1. a \in 1..n + 1
      BY <1>1
    <3> QED
      BY <1>2, <2>1, <3>1
  <2>2. CASE ~(a <= i)
    <3> DEFINE d == a + 1
    <3>1. d \in 1..n + 1 /\ ~(d <= i) /\ d # i + 1 /\ d - 1 = a
      BY <1>1, <2>2
    <3> HIDE DEF d
    <3> QED
      BY <1>2, <3>1
  <2> QED
    BY <2>1, <2>2
<1>8. \E d \in 1..n + 1 : t[d] = e
  <2>1. i + 1 \in 1..n + 1 /\ ~(i + 1 <= i)
    BY <1>1
  <2> QED
    BY <1>2, <2>1
<1>9. o \cup {e} = {t[a] : a \in 1..n + 1}
  <2>1. \A x \in o \cup {e} : \E d \in 1..n + 1 : t[d] = x
    BY <1>1, <1>7, <1>8
  <2> QED
    BY <1>6, <2>1
<1> QED
  BY <1>2, <1>5, <1>9 DEF Owns, n

LEMMA OwnsPut ==
  ASSUME NEW s, NEW o, Owns(s, o), NEW i \in 0..Len(s) - 1, NEW e, e \notin o,
         NEW t, PutSo(t, s, i, e)
  PROVE  Owns(t, (o \cup {e}) \ {s[i + 1]})
<1> DEFINE n == Len(s)
           k == i + 1
<1>1. /\ s \in Seq(Elements) /\ n \in Nat /\ k \in 1..n
      /\ \A a, b \in 1..n : s[a] = s[b] => a = b
      /\ o = {s[a] : a \in 1..n}
  BY LenProperties DEF Owns
<1>2. /\ t \in Seq(Elements) /\ Len(t) = n
      /\ \A j \in 1..n : t[j] = IF j = k THEN e ELSE s[j]
  BY DEF PutSo
<1> HIDE DEF n, k
<1>3. \A a \in 1..n : s[a] # e
  BY <1>1
<1>4. \A a, b \in 1..n : t[a] = t[b] => a = b
  BY <1>1, <1>2, <1>3
<1>5. (o \cup {e}) \ {s[k]} = {t[a] : a \in 1..n}
  BY <1>1, <1>2, <1>3
<1> QED
  BY <1>2, <1>4, <1>5 DEF Owns, n, k

LEMMA OwnsSwapped ==
  ASSUME NEW s, NEW o, Owns(s, o), NEW i \in 0..Len(s) - 1, NEW t, SwapSo(t, s, i)
  PROVE  Owns(t, o \ {s[i + 1]})
<1> DEFINE n == Len(s)
           k == i + 1
<1>1. /\ s \in Seq(Elements) /\ n \in Nat /\ k \in 1..n /\ n \in 1..n
      /\ \A a, b \in 1..n : s[a] = s[b] => a = b
      /\ o = {s[a] : a \in 1..n}
  BY LenProperties DEF Owns
<1>2. /\ t \in Seq(Elements) /\ Len(t) = n - 1
      /\ \A j \in 1..n - 1 : t[j] = s[IF j = k THEN n ELSE j]
  BY DEF SwapSo
<1>3. \A j \in 1..n - 1 : j \in 1..n /\ j # n
  BY <1>1
<1> HIDE DEF n, k
<1>4. \A a, b \in 1..n - 1 : t[a] = t[b] => a = b
  BY <1>1, <1>2, <1>3
<1>5. \A a \in 1..n - 1 : t[a] \in o \ {s[k]}
  BY <1>1, <1>2, <1>3
<1>6. ASSUME NEW a \in 1..n, a # k PROVE \E d \in 1..n - 1 : t[d] = s[a]
  <2>1. CASE a = n
    <3>1. k \in 1..n - 1
      BY <1>1, <1>6, <2>1
    <3> QED
      BY <1>2, <2>1, <3>1
  <2>2. CASE a # n
    <3>1. a \in 1..n - 1
      BY <1>1, <2>2
    <3> QED
      BY <1>2, <1>6, <3>1
  <2> QED
    BY <2>1, <2>2
<1>7. o \ {s[k]} = {t[a] : a \in 1..n - 1}
  <2>1. \A x \in o \ {s[k]} : \E d \in 1..n - 1 : t[d] = x
    BY <1>1, <1>6
  <2> QED
    BY <1>5, <2>1
<1> QED
  BY <1>2, <1>4, <1>7 DEF Owns, n, k
LEMMA SpliceSo ==
  ASSUME NEW S, NEW s \in Seq(S), NEW new \in Seq(S), NEW drop \in Nat,
         NEW i \in Nat, i + drop <= Len(s)
  PROVE  Splice(s, i, drop, new) \in Seq(S) /\ SplicedSo(Splice(s, i, drop, new), s, i, drop, new)
<1> DEFINE u == Splice(s, i, drop, new)
<1>1. /\ u \in Seq(S) /\ Len(u) = Len(s) - drop + Len(new)
      /\ \A j \in 1..Len(s) - drop + Len(new) :
           u[j] = IF j <= i THEN s[j]
                  ELSE IF j <= i + Len(new) THEN new[j - i]
                  ELSE s[j - Len(new) + drop]
  BY SpliceIs
<1> HIDE DEF u
<1> QED
  BY <1>1 DEF SplicedSo, u

LEMMA AppendAdds ==
  ASSUME NEW s \in Seq(Elements), NEW e \in Elements
  PROVE  AddedSo(Append(s, e), s, Len(s), e)
<1> DEFINE t == Append(s, e)
           n == Len(s)
<1>1. /\ t \in Seq(Elements) /\ Len(t) = n + 1
      /\ \A j \in 1..n : t[j] = s[j]
      /\ t[n + 1] = e
  BY AppendProperties
<1>2. n \in Nat
  BY LenProperties
<1> HIDE DEF t, n
<1>3. ASSUME NEW j \in 1..n + 1
      PROVE  t[j] = IF j <= n THEN s[j] ELSE IF j = n + 1 THEN e ELSE s[j - 1]
  <2>1. (j <= n /\ j \in 1..n) \/ (j = n + 1 /\ ~(j <= n))
    BY <1>2
  <2> QED
    BY <1>1, <2>1
<1> QED
  BY <1>1, <1>3 DEF AddedSo, t, n

LEMMA PrependAdds ==
  ASSUME NEW s \in Seq(Elements), NEW e \in Elements
  PROVE  AddedSo(<<e>> \o s, s, 0, e)
<1> DEFINE one == <<e>>
           t == one \o s
<1>1. one \in Seq(Elements) /\ Len(one) = 1 /\ one[1] = e
  OBVIOUS
<1>2. Len(s) \in Nat
  BY LenProperties
<1> HIDE DEF one
<1>3. /\ t \in Seq(Elements) /\ Len(t) = Len(one) + Len(s)
      /\ \A j \in 1..Len(one) + Len(s) :
           t[j] = IF j <= Len(one) THEN one[j] ELSE s[j - Len(one)]
  BY <1>1, ConcatProperties, Zenon
<1> HIDE DEF t
<1>4. Len(t) = Len(s) + 1
  BY <1>1, <1>2, <1>3
<1>5. ASSUME NEW j \in 1..Len(t)
      PROVE  t[j] = IF j <= 0 THEN s[j] ELSE IF j = 0 + 1 THEN e ELSE s[j - 1]
  <2>1. ~(j <= 0) /\ j \in 1..Len(one) + Len(s) /\ (j <= Len(one) <=> j = 0 + 1)
        /\ (j <= Len(one) => j = 1) /\ j - Len(one) = j - 1
    BY <1>1, <1>2, <1>4
  <2> QED
    BY <1>1, <1>3, <2>1
<1> QED
  BY <1>3, <1>4, <1>5 DEF AddedSo, t, one

LEMMA SpliceCuts ==
  ASSUME NEW s \in Seq(Elements), NEW i \in 0..Len(s) - 1
  PROVE  CutSo(Splice(s, i, 1, <<>>), s, i)
<1> DEFINE new == <<>>
           drop == 1
           t == Splice(s, i, drop, new)
<1>1. /\ Len(s) \in Nat /\ i \in Nat /\ i + drop <= Len(s)
      /\ new \in Seq(Elements) /\ Len(new) = 0 /\ drop \in Nat /\ drop = 1
  BY LenProperties
<1> HIDE DEF new, drop
<1>2. t \in Seq(Elements) /\ SplicedSo(t, s, i, drop, new)
  BY <1>1, SpliceSo
<1> HIDE DEF t
<1>3. Len(t) = Len(s) - 1
  BY <1>1, <1>2 DEF SplicedSo
<1>4. ASSUME NEW j \in 1..Len(t) PROVE t[j] = IF j <= i THEN s[j] ELSE s[j + 1]
  <2>1. ~(j <= i) => ~(j <= i + Len(new)) /\ j - Len(new) + drop = j + 1
    BY <1>1, <1>3
  <2> QED
    BY <1>2, <2>1 DEF SplicedSo
<1> QED
  BY <1>2, <1>3, <1>4 DEF CutSo, t, new, drop

LEMMA SpliceAdds ==
  ASSUME NEW s \in Seq(Elements), NEW i \in 0..Len(s), NEW e \in Elements
  PROVE  AddedSo(Splice(s, i, 0, <<e>>), s, i, e)
<1> DEFINE new == <<e>>
           drop == 0
           t == Splice(s, i, drop, new)
<1>1. /\ Len(s) \in Nat /\ i \in Nat /\ i + drop <= Len(s)
      /\ new \in Seq(Elements) /\ Len(new) = 1 /\ new[1] = e /\ drop \in Nat /\ drop = 0
  BY LenProperties
<1> HIDE DEF new, drop
<1>2. t \in Seq(Elements) /\ SplicedSo(t, s, i, drop, new)
  BY <1>1, SpliceSo
<1> HIDE DEF t
<1>3. Len(t) = Len(s) + 1
  BY <1>1, <1>2 DEF SplicedSo
<1>4. ASSUME NEW j \in 1..Len(t)
      PROVE  t[j] = IF j <= i THEN s[j] ELSE IF j = i + 1 THEN e ELSE s[j - 1]
  <2>1. \/ j <= i
        \/ j = i + 1 /\ ~(j <= i) /\ j <= i + Len(new) /\ j - i = 1
        \/ ~(j <= i) /\ j # i + 1 /\ ~(j <= i + Len(new)) /\ j - Len(new) + drop = j - 1
    BY <1>1, <1>3
  <2>2. t[j] = IF j <= i THEN s[j]
               ELSE IF j <= i + Len(new) THEN new[j - i]
               ELSE s[j - Len(new) + drop]
    BY <1>2 DEF SplicedSo
  <2> QED
    BY <1>1, <2>1, <2>2
<1> QED
  BY <1>2, <1>3, <1>4 DEF AddedSo, t, new, drop

LEMMA SplicePuts ==
  ASSUME NEW s \in Seq(Elements), NEW i \in 0..Len(s) - 1, NEW e \in Elements
  PROVE  PutSo(Splice(s, i, 1, <<e>>), s, i, e)
<1> DEFINE new == <<e>>
           drop == 1
           t == Splice(s, i, drop, new)
<1>1. /\ Len(s) \in Nat /\ i \in Nat /\ i + drop <= Len(s)
      /\ new \in Seq(Elements) /\ Len(new) = 1 /\ new[1] = e /\ drop \in Nat /\ drop = 1
  BY LenProperties
<1> HIDE DEF new, drop
<1>2. t \in Seq(Elements) /\ SplicedSo(t, s, i, drop, new)
  BY <1>1, SpliceSo
<1> HIDE DEF t
<1>3. Len(t) = Len(s)
  BY <1>1, <1>2 DEF SplicedSo
<1>4. ASSUME NEW j \in 1..Len(t) PROVE t[j] = IF j = i + 1 THEN e ELSE s[j]
  <2>1. \/ j <= i /\ j # i + 1
        \/ j = i + 1 /\ ~(j <= i) /\ j <= i + Len(new) /\ j - i = 1
        \/ ~(j <= i) /\ j # i + 1 /\ ~(j <= i + Len(new)) /\ j - Len(new) + drop = j
    BY <1>1, <1>3
  <2>2. t[j] = IF j <= i THEN s[j]
               ELSE IF j <= i + Len(new) THEN new[j - i]
               ELSE s[j - Len(new) + drop]
    BY <1>2 DEF SplicedSo
  <2> QED
    BY <1>1, <2>1, <2>2
<1> QED
  BY <1>2, <1>3, <1>4 DEF PutSo, t, new, drop

\* vec_swap_remove as SequenceSpec writes it.
SwappedOut(s, i) == SubSeq(Splice(s, i, 1, <<s[Len(s)]>>), 1, Len(s) - 1)

LEMMA IsSwapped ==
  ASSUME NEW s \in Seq(Elements), NEW i \in 0..Len(s) - 1, NEW t, SwapSo(t, s, i)
  PROVE  /\ i # Len(s) - 1 => t = SwappedOut(s, i)
         /\ i = Len(s) - 1 => t = Splice(s, i, 1, <<>>)
<1>1. /\ Len(s) \in Nat /\ t \in Seq(Elements) /\ Len(t) = Len(s) - 1 /\ Len(s) \in 1..Len(s)
      /\ \A j \in 1..Len(t) : t[j] = s[IF j = i + 1 THEN Len(s) ELSE j]
  BY LenProperties DEF SwapSo
<1>2. CASE i = Len(s) - 1
  <2>1. \A j \in 1..Len(t) : t[j] = IF j <= i THEN s[j] ELSE s[j + 1]
    BY <1>1, <1>2
  <2>2. t = Splice(s, i, 1, <<>>)
    BY <1>1, <2>1, IsCut
  <2> QED
    BY <1>2, <2>2
<1>3. CASE i # Len(s) - 1
  <2> DEFINE e == s[Len(s)]
             u == Splice(s, i, 1, <<e>>)
             m == 1
             n == Len(s) - 1
             v == SubSeq(u, m, n)
  <2>1. e \in Elements
    BY <1>1, ElementOfSeq
  <2>2. PutSo(u, s, i, e)
    <3> HIDE DEF e
    <3> QED
      BY <2>1, SplicePuts
  <2> HIDE DEF u, e
  <2>3. /\ u \in Seq(Elements) /\ Len(u) = Len(s)
        /\ \A j \in 1..Len(u) : u[j] = IF j = i + 1 THEN e ELSE s[j]
    BY <2>2 DEF PutSo
  <2>4. m \in Int /\ n \in Int /\ m = 1 /\ n \in Nat /\ n = Len(s) - 1
    BY <1>1
  <2> HIDE DEF m, n
  <2>5. \A j \in m..n : u[j] \in Elements
    <3>1. \A j \in m..n : j \in 1..Len(u)
      BY <1>1, <2>3, <2>4
    <3> QED
      BY <2>3, <3>1, ElementOfSeq
  <2>6. /\ v \in Seq(Elements) /\ Len(v) = IF m <= n THEN n - m + 1 ELSE 0
        /\ \A j \in 1..n - m + 1 : v[j] = u[m + j - 1]
    BY <2>4, <2>5, SubSeqProperties
  <2> HIDE DEF v
  <2>7. Len(v) = Len(t)
    BY <1>1, <2>4, <2>6
  <2>8. ASSUME NEW j \in 1..Len(t) PROVE t[j] = v[j]
    <3>1. j \in 1..n - m + 1 /\ m + j - 1 = j /\ j \in 1..Len(u)
      BY <1>1, <2>3, <2>4
    <3>2. v[j] = u[j]
      BY <2>6, <3>1
    <3> QED
      BY <1>1, <2>3, <3>1, <3>2 DEF e
  <2>9. t = v
    BY <1>1, <2>6, <2>7, <2>8, SameSequence
  <2> QED
    BY <1>3, <2>9 DEF v, m, n, u, e, SwappedOut
<1> QED
  BY <1>2, <1>3

\* As many objects as places.
LEMMA OwnsCount ==
  ASSUME NEW s, NEW o, Owns(s, o)
  PROVE  Cardinality(o) = Len(s)
<1>1. /\ s \in [1..Len(s) -> o] /\ Len(s) \in Nat
      /\ \A i, j \in 1..Len(s) : s[i] = s[j] => i = j
      /\ \A x \in o : \E i \in 1..Len(s) : s[i] = x
  <2>1. s \in Seq(Elements) /\ o = {s[i] : i \in 1..Len(s)}
    BY DEF Owns
  <2>2. s \in [1..Len(s) -> Elements] /\ Len(s) \in Nat
    BY <2>1, LenProperties
  <2> QED
    BY <2>1, <2>2 DEF Owns
<1>2. s \in Bijection(1..Len(s), o)
  BY <1>1 DEF Bijection, Injection, Surjection, IsInjective
<1>3. ExistsBijection(1..Len(s), o)
  BY <1>2 DEF ExistsBijection
<1>4. IsFiniteSet(1..Len(s)) /\ Cardinality(1..Len(s)) = Len(s)
  <2>1. /\ IsFiniteSet(1..Len(s))
        /\ Cardinality(1..Len(s)) = IF 1 > Len(s) THEN 0 ELSE Len(s) - 1 + 1
    BY <1>1, FS_Interval
  <2> QED
    BY <1>1, <2>1
<1> QED
  BY <1>3, <1>4, FS_Bijection
-------------------------------------------------------------------------------
(* One container of any kind, and what a call does to it *)

\* SeqOf, for a kind that is given.
SeqFor(k, x) ==
  CASE k = "vec" -> VecContents(x)
    [] k \in Deques -> DequeContents(x)
    [] k = "list" -> ListContents(x)
    [] OTHER -> <<>>

Good(k, x) ==
  \/ k = "vec" /\ VecShape(x)
  \/ k \in Deques /\ DequeShape(x) /\ (k = "ring" => x.len <= RingCapacity)
  \/ k = "list" /\ ListShape(x)

\* x is a whole container of kind k that owns the objects of o.
Holding(k, x, o) == Good(k, x) /\ Owns(SeqFor(k, x), o)

\* What SequenceSpec allows a call to make of s, when o are its objects.
Effect(k, o, s, t) ==
  \/ t = s
  \/ \E e \in Elements \ o :
       t = IF k = "ring" /\ Len(s) = RingCapacity THEN Append(Tail(s), e) ELSE Append(s, e)
  \/ k \in {"deque", "list"} /\ \E e \in Elements \ o : t = <<e>> \o s
  \/ k \in {"deque", "queue", "ring", "list"} /\ s # <<>> /\ t = Tail(s)
  \/ /\ k \in {"vec", "deque", "stack", "list"} /\ s # <<>>
     /\ t = Splice(s, Len(s) - 1, 1, <<>>)
  \/ k = "vec" /\ \E i \in 0..Len(s), e \in Elements \ o : t = Splice(s, i, 0, <<e>>)
  \/ k = "vec" /\ \E i \in 0..Len(s) - 1, e \in Elements \ o : t = Splice(s, i, 1, <<e>>)
  \/ k \in {"vec", "list"} /\ \E i \in 0..Len(s) - 1 : t = Splice(s, i, 1, <<>>)
  \/ k = "vec" /\ \E i \in 0..Len(s) - 2 : t = SwappedOut(s, i)

\* Outcome r of a call with container x, for which the caller gave away made.
Kept(k, x, o, r, made) ==
  /\ Holding(k, r.c, (IF r.ok THEN o \cup made ELSE o) \ r.gone)
  /\ Effect(k, o, SeqFor(k, x), SeqFor(k, r.c))

LEMMA SeqForIs ==
  ASSUME NEW x
  PROVE  /\ SeqFor("vec", x) = VecContents(x)
         /\ \A k \in Deques : SeqFor(k, x) = DequeContents(x)
         /\ SeqFor("list", x) = ListContents(x)
BY DEF SeqFor, Deques

LEMMA GoodIs ==
  ASSUME NEW x
  PROVE  /\ Good("vec", x) <=> VecShape(x)
         /\ \A k \in Deques :
              Good(k, x) <=> DequeShape(x) /\ (k = "ring" => x.len <= RingCapacity)
         /\ Good("list", x) <=> ListShape(x)
BY DEF Good, Deques

\* A refused call, or one that only makes room.
LEMMA SameKept ==
  ASSUME NEW k, NEW x, NEW o, Holding(k, x, o), NEW r, Good(k, r.c),
         SeqFor(k, r.c) = SeqFor(k, x), r.gone = {}, NEW made, ~r.ok \/ made = {}
  PROVE  Kept(k, x, o, r, made)
<1>1. (IF r.ok THEN o \cup made ELSE o) \ r.gone = o
  OBVIOUS
<1>2. Holding(k, r.c, o)
  BY DEF Holding
<1> QED
  BY <1>1, <1>2 DEF Kept, Effect

LEMMA VecInsertKept ==
  ASSUME NEW x, NEW o, Holding("vec", x, o), NEW i \in 0..x.size, NEW e \in Elements \ o,
         NEW r \in vec_insert(x, i, e)
  PROVE  Kept("vec", x, o, r, {e})
<1> DEFINE s == VecContents(x)
           t == VecContents(r.c)
<1>1. VecShape(x) /\ Owns(s, o) /\ SeqFor("vec", x) = s /\ SeqFor("vec", r.c) = t
  BY SeqForIs, GoodIs DEF Holding
<1>2. s \in Seq(Elements) /\ Len(s) = x.size
  BY <1>1, VecContentsAre
<1>3. /\ r.ok \in BOOLEAN /\ r.gone = {} /\ VecShape(r.c)
      /\ ~r.ok => t = s
      /\ r.ok => t = Splice(s, i, 0, <<e>>)
  BY <1>1, VecInsertIs
<1> HIDE DEF s, t
<1>4. CASE ~r.ok
  BY <1>1, <1>3, <1>4, GoodIs, SameKept
<1>5. CASE r.ok
  <2>1. AddedSo(t, s, i, e)
    BY <1>2, <1>3, <1>5, SpliceAdds
  <2>2. Owns(t, o \cup {e})
    BY <1>1, <1>2, <2>1, OwnsAdded
  <2>3. (IF r.ok THEN o \cup {e} ELSE o) \ r.gone = o \cup {e}
    BY <1>3, <1>5
  <2>4. Holding("vec", r.c, (IF r.ok THEN o \cup {e} ELSE o) \ r.gone)
    BY <1>1, <1>3, <2>2, <2>3, GoodIs DEF Holding
  <2>5. Effect("vec", o, s, t)
    BY <1>2, <1>3, <1>5 DEF Effect
  <2> QED
    BY <1>1, <2>4, <2>5 DEF Kept
<1> QED
  BY <1>4, <1>5

LEMMA VecSetKept ==
  ASSUME NEW x, NEW o, Holding("vec", x, o), NEW i \in 0..x.size - 1, NEW e \in Elements \ o,
         NEW r \in vec_set(x, i, e)
  PROVE  Kept("vec", x, o, r, {e})
<1> DEFINE s == VecContents(x)
           t == VecContents(r.c)
<1>1. VecShape(x) /\ Owns(s, o) /\ SeqFor("vec", x) = s /\ SeqFor("vec", r.c) = t
  BY SeqForIs, GoodIs DEF Holding
<1>2. s \in Seq(Elements) /\ Len(s) = x.size
  BY <1>1, VecContentsAre
<1>3. /\ r.ok = TRUE /\ r.gone = {s[i + 1]} /\ VecShape(r.c)
      /\ t = Splice(s, i, 1, <<e>>)
  BY <1>1, VecSetIs
<1> HIDE DEF s, t
<1>4. PutSo(t, s, i, e)
  BY <1>2, <1>3, SplicePuts
<1>5. Owns(t, (o \cup {e}) \ {s[i + 1]})
  BY <1>1, <1>2, <1>4, OwnsPut
<1>6. (IF r.ok THEN o \cup {e} ELSE o) \ r.gone = (o \cup {e}) \ {s[i + 1]}
  BY <1>3
<1>7. Holding("vec", r.c, (IF r.ok THEN o \cup {e} ELSE o) \ r.gone)
  BY <1>1, <1>3, <1>5, <1>6, GoodIs DEF Holding
<1>8. Effect("vec", o, s, t)
  BY <1>2, <1>3 DEF Effect
<1> QED
  BY <1>1, <1>7, <1>8 DEF Kept

\* An element that leaves, in every container that names a place.
CutKept(k, x, o, r) ==
  \E i \in 0..Len(SeqFor(k, x)) - 1 :
    /\ r.gone = {SeqFor(k, x)[i + 1]}
    /\ SeqFor(k, r.c) = Splice(SeqFor(k, x), i, 1, <<>>)
    /\ \/ k \in {"vec", "list"}
       \/ k \in {"deque", "stack"} /\ i = Len(SeqFor(k, x)) - 1

LEMMA CutIsKept ==
  ASSUME NEW k, NEW x, NEW o, Holding(k, x, o), NEW r, r.ok = TRUE, Good(k, r.c),
         CutKept(k, x, o, r)
  PROVE  Kept(k, x, o, r, {})
<1> DEFINE s == SeqFor(k, x)
           t == SeqFor(k, r.c)
<1>1. s \in Seq(Elements) /\ Owns(s, o) /\ Len(s) \in Nat
  BY LenProperties DEF Holding, Owns
<1>2. PICK i \in 0..Len(s) - 1 :
        /\ r.gone = {s[i + 1]} /\ t = Splice(s, i, 1, <<>>)
        /\ \/ k \in {"vec", "list"}
           \/ k \in {"deque", "stack"} /\ i = Len(s) - 1
  BY DEF CutKept
<1> HIDE DEF s, t
<1>3. Owns(t, o \ {s[i + 1]})
  BY <1>1, <1>2, SpliceCuts, OwnsCut
<1>4. (IF r.ok THEN o \cup {} ELSE o) \ r.gone = o \ {s[i + 1]}
  BY <1>2
<1>5. Holding(k, r.c, (IF r.ok THEN o \cup {} ELSE o) \ r.gone)
  BY <1>3, <1>4 DEF Holding, t
<1>6. Effect(k, o, s, t)
  <2>1. CASE k \in {"vec", "list"}
    BY <1>2, <2>1 DEF Effect
  <2>2. CASE k \in {"deque", "stack"} /\ i = Len(s) - 1
    <3>1. s # <<>>
      BY <1>1, <1>2, EmptySeq
    <3> QED
      BY <1>2, <2>2, <3>1 DEF Effect
  <2> QED
    BY <1>2, <2>1, <2>2
<1> QED
  BY <1>5, <1>6 DEF Kept, s, t
LEMMA VecRemoveKept ==
  ASSUME NEW x, NEW o, Holding("vec", x, o), NEW i \in 0..x.size - 1,
         NEW r \in vec_remove(x, i)
  PROVE  Kept("vec", x, o, r, {})
<1>1. VecShape(x) /\ Len(VecContents(x)) = x.size
  BY GoodIs, VecContentsAre DEF Holding
<1>2. /\ r.ok = TRUE /\ r.gone = {VecContents(x)[i + 1]} /\ VecShape(r.c)
      /\ VecContents(r.c) = Splice(VecContents(x), i, 1, <<>>)
  BY <1>1, VecRemoveIs
<1>3. CutKept("vec", x, o, r)
  BY <1>1, <1>2, SeqForIs DEF CutKept
<1> QED
  BY <1>2, <1>3, GoodIs, CutIsKept

LEMMA VecPopKept ==
  ASSUME NEW x, NEW o, Holding("vec", x, o), x.size > 0, NEW r \in vec_pop(x)
  PROVE  Kept("vec", x, o, r, {})
<1>1. VecShape(x) /\ Len(VecContents(x)) = x.size /\ x.size \in Nat
  BY GoodIs, VecContentsAre, VecFacts DEF Holding
<1>2. /\ r.ok = TRUE /\ r.gone = {VecContents(x)[x.size]} /\ VecShape(r.c)
      /\ VecContents(r.c) = Splice(VecContents(x), x.size - 1, 1, <<>>)
  BY <1>1, VecPopIs
<1>3. x.size - 1 \in 0..Len(VecContents(x)) - 1 /\ (x.size - 1) + 1 = x.size
  BY <1>1
<1>4. CutKept("vec", x, o, r)
  BY <1>1, <1>2, <1>3, SeqForIs DEF CutKept
<1> QED
  BY <1>2, <1>4, GoodIs, CutIsKept

LEMMA VecSwapRemoveKept ==
  ASSUME NEW x, NEW o, Holding("vec", x, o), NEW i \in 0..x.size - 1,
         NEW r \in vec_swap_remove(x, i)
  PROVE  Kept("vec", x, o, r, {})
<1> DEFINE s == VecContents(x)
           t == VecContents(r.c)
<1>1. VecShape(x) /\ Owns(s, o) /\ SeqFor("vec", x) = s /\ SeqFor("vec", r.c) = t
  BY SeqForIs, GoodIs DEF Holding
<1>2. s \in Seq(Elements) /\ Len(s) = x.size /\ x.size \in Nat
  BY <1>1, VecContentsAre, VecFacts
<1>3. /\ r.ok = TRUE /\ r.gone = {s[i + 1]} /\ VecShape(r.c)
      /\ Len(t) = x.size - 1
      /\ \A j \in 1..x.size - 1 : t[j] = s[IF j = i + 1 THEN x.size ELSE j]
  BY <1>1, VecSwapRemoveIs
<1>4. t \in Seq(Elements)
  BY <1>3, VecContentsAre
<1> HIDE DEF s, t
<1>5. SwapSo(t, s, i)
  BY <1>2, <1>3, <1>4 DEF SwapSo
<1>6. Owns(t, o \ {s[i + 1]})
  BY <1>1, <1>2, <1>5, OwnsSwapped
<1>7. (IF r.ok THEN o \cup {} ELSE o) \ r.gone = o \ {s[i + 1]}
  BY <1>3
<1>8. Holding("vec", r.c, (IF r.ok THEN o \cup {} ELSE o) \ r.gone)
  BY <1>1, <1>3, <1>6, <1>7, GoodIs DEF Holding
<1>9. Effect("vec", o, s, t)
  <2>1. i \in 0..Len(s) - 1
    BY <1>2
  <2>2. CASE i = Len(s) - 1
    BY <1>2, <1>5, <2>1, <2>2, IsSwapped DEF Effect
  <2>3. CASE i # Len(s) - 1
    <3>1. i \in 0..Len(s) - 2 /\ t = SwappedOut(s, i)
      BY <1>2, <1>5, <2>1, <2>3, IsSwapped
    <3> QED
      BY <3>1 DEF Effect
  <2> QED
    BY <2>2, <2>3
<1> QED
  BY <1>1, <1>8, <1>9 DEF Kept

LEMMA VecReserveKept ==
  ASSUME NEW x, NEW o, Holding("vec", x, o), NEW n \in Nat, NEW r \in vec_reserve(x, n)
  PROVE  Kept("vec", x, o, r, {})
<1>1. VecShape(x)
  BY GoodIs DEF Holding
<1>2. VecShape(r.c) /\ r.gone = {} /\ VecContents(r.c) = VecContents(x)
  BY <1>1, VecReserveIs
<1> QED
  BY <1>2, GoodIs, SeqForIs, SameKept

LEMMA DequeReserveKept ==
  ASSUME NEW k \in Deques, k # "ring", NEW x, NEW o, Holding(k, x, o), NEW n \in Nat,
         NEW r \in deque_reserve(x, n)
  PROVE  Kept(k, x, o, r, {})
<1>1. DequeShape(x)
  BY GoodIs DEF Holding
<1>2. DequeShape(r.c) /\ r.gone = {} /\ DequeContents(r.c) = DequeContents(x)
  BY <1>1, DequeReserveIs
<1> QED
  BY <1>2, GoodIs, SeqForIs, SameKept

LEMMA ListReserveKept ==
  ASSUME NEW x, NEW o, Holding("list", x, o), NEW n \in Nat,
         NEW r \in linked_list_reserve(x, n)
  PROVE  Kept("list", x, o, r, {})
<1>1. ListShape(x)
  BY GoodIs DEF Holding
<1>2. ListShape(r.c) /\ r.gone = {} /\ ListContents(r.c) = ListContents(x)
  BY <1>1, ListReserveIs
<1> QED
  BY <1>2, GoodIs, SeqForIs, SameKept

\* An element that comes at the back or the front, or is refused there.
AddKept(k, x, r, e) ==
  /\ r.ok \in BOOLEAN /\ r.gone = {}
  /\ ~r.ok => SeqFor(k, r.c) = SeqFor(k, x)
  /\ r.ok =>
       \/ /\ SeqFor(k, r.c) = Append(SeqFor(k, x), e)
          /\ k = "ring" => Len(SeqFor(k, x)) # RingCapacity
       \/ k \in {"deque", "list"} /\ SeqFor(k, r.c) = <<e>> \o SeqFor(k, x)

LEMMA AddIsKept ==
  ASSUME NEW k, NEW x, NEW o, Holding(k, x, o), NEW r, Good(k, r.c),
         NEW e \in Elements \ o, AddKept(k, x, r, e)
  PROVE  Kept(k, x, o, r, {e})
<1> DEFINE s == SeqFor(k, x)
           t == SeqFor(k, r.c)
<1>1. s \in Seq(Elements) /\ Owns(s, o) /\ Len(s) \in Nat /\ e \in Elements /\ e \notin o
  BY LenProperties DEF Holding, Owns
<1>2. CASE ~r.ok
  BY <1>2, SameKept DEF AddKept
<1>3. CASE r.ok
  <2> HIDE DEF s, t
  <2>1. \/ t = Append(s, e) /\ (k = "ring" => Len(s) # RingCapacity)
        \/ k \in {"deque", "list"} /\ t = <<e>> \o s
    BY <1>3 DEF s, t, AddKept
  <2>2. AddedSo(t, s, Len(s), e) \/ AddedSo(t, s, 0, e)
    BY <1>1, <2>1, AppendAdds, PrependAdds
  <2>3. 0 \in 0..Len(s) /\ Len(s) \in 0..Len(s)
    BY <1>1
  <2>4. Owns(t, o \cup {e})
    BY <1>1, <2>2, <2>3, OwnsAdded
  <2>5. (IF r.ok THEN o \cup {e} ELSE o) \ r.gone = o \cup {e}
    BY <1>3 DEF AddKept
  <2>6. Holding(k, r.c, (IF r.ok THEN o \cup {e} ELSE o) \ r.gone)
    BY <2>4, <2>5 DEF Holding, t
  <2>7. Effect(k, o, s, t)
    BY <2>1 DEF Effect
  <2> QED
    BY <2>6, <2>7 DEF Kept, s, t
<1> QED
  BY <1>2, <1>3
LEMMA DequePushBackKept ==
  ASSUME NEW k \in Deques, k # "ring", NEW x, NEW o, Holding(k, x, o),
         NEW e \in Elements \ o, NEW r \in deque_push_back(x, e)
  PROVE  Kept(k, x, o, r, {e})
<1>1. DequeShape(x) /\ e \in Elements
  BY GoodIs DEF Holding
<1>2. /\ r.ok \in BOOLEAN /\ r.gone = {} /\ DequeShape(r.c)
      /\ ~r.ok => DequeContents(r.c) = DequeContents(x)
      /\ r.ok => DequeContents(r.c) = Append(DequeContents(x), e)
  BY <1>1, DequePushBackIs
<1>3. /\ SeqFor(k, x) = DequeContents(x) /\ SeqFor(k, r.c) = DequeContents(r.c)
      /\ Good(k, r.c)
  BY <1>2, GoodIs, SeqForIs
<1>4. AddKept(k, x, r, e)
  BY <1>2, <1>3 DEF AddKept
<1> QED
  BY <1>3, <1>4, AddIsKept

LEMMA DequePushFrontKept ==
  ASSUME NEW x, NEW o, Holding("deque", x, o),
         NEW e \in Elements \ o, NEW r \in deque_push_front(x, e)
  PROVE  Kept("deque", x, o, r, {e})
<1>0. "deque" \in Deques
  BY DEF Deques
<1>1. DequeShape(x) /\ e \in Elements
  BY <1>0, GoodIs DEF Holding
<1>2. /\ r.ok \in BOOLEAN /\ r.gone = {} /\ DequeShape(r.c)
      /\ ~r.ok => DequeContents(r.c) = DequeContents(x)
      /\ r.ok => DequeContents(r.c) = <<e>> \o DequeContents(x)
  BY <1>1, DequePushFrontIs
<1>3. /\ SeqFor("deque", x) = DequeContents(x)
      /\ SeqFor("deque", r.c) = DequeContents(r.c) /\ Good("deque", r.c)
  BY <1>0, <1>2, GoodIs, SeqForIs
<1>4. AddKept("deque", x, r, e)
  BY <1>2, <1>3 DEF AddKept
<1> QED
  BY <1>3, <1>4, AddIsKept

\* A full ring gives its oldest element for the new one.
LEMMA RingPushKept ==
  ASSUME NEW x, NEW o, Holding("ring", x, o),
         NEW e \in Elements \ o, NEW r \in ring_buffer_push(x, e)
  PROVE  Kept("ring", x, o, r, {e})
<1> DEFINE s == DequeContents(x)
           t == DequeContents(r.c)
           none == <<>>
<1>0. "ring" \in Deques
  BY DEF Deques
<1>1. /\ DequeShape(x) /\ x.len <= RingCapacity /\ e \in Elements /\ e \notin o
      /\ Owns(s, o) /\ SeqFor("ring", x) = s /\ SeqFor("ring", r.c) = t
  BY <1>0, GoodIs, SeqForIs DEF Holding
<1>2. s \in Seq(Elements) /\ Len(s) = x.len /\ x.len \in Nat
  BY <1>1, DequeContentsAre, DequeFacts
<1>3. /\ r.ok \in BOOLEAN /\ DequeShape(r.c) /\ r.c.len <= RingCapacity
      /\ ~r.ok => r.gone = {} /\ t = s
      /\ r.ok /\ x.len < RingCapacity => r.gone = {} /\ t = Append(s, e)
      /\ r.ok /\ x.len = RingCapacity => r.gone = {s[1]} /\ t = Append(Tail(s), e)
  BY <1>1, RingPushIs
<1>4. Good("ring", r.c)
  BY <1>0, <1>3, GoodIs
<1> HIDE DEF s, t
<1>5. CASE x.len # RingCapacity
  <2>1. x.len < RingCapacity
    BY <1>1, <1>2, <1>5, RingAssumption
  <2>2. /\ r.gone = {}
        /\ ~r.ok => t = s
        /\ r.ok => t = Append(s, e) /\ Len(s) # RingCapacity
    BY <1>2, <1>3, <1>5, <2>1
  <2>3. AddKept("ring", x, r, e)
    BY <1>1, <1>3, <2>2 DEF AddKept
  <2> QED
    BY <1>4, <2>3, AddIsKept
<1>6. CASE x.len = RingCapacity /\ ~r.ok
  BY <1>1, <1>3, <1>4, <1>6, SameKept
<1>7. CASE x.len = RingCapacity /\ r.ok
  <2> DEFINE u == Tail(s)
  <2>1. r.gone = {s[1]} /\ t = Append(u, e) /\ s # <<>> /\ 0 \in 0..Len(s) - 1
    BY <1>2, <1>3, <1>7, RingAssumption, EmptySeq
  <2>2. u = Splice(s, 0, 1, <<>>)
    BY <1>2, <2>1, CutFirst
  <2>3. CutSo(u, s, 0)
    BY <1>2, <2>1, <2>2, SpliceCuts
  <2>4. Owns(u, o \ {s[0 + 1]})
    BY <1>1, <2>1, <2>3, OwnsCut
  <2> HIDE DEF u
  <2>5. Owns(u, o \ {s[1]}) /\ e \notin o \ {s[1]} /\ u \in Seq(Elements)
    BY <1>1, <2>4 DEF Owns
  <2>6. AddedSo(t, u, Len(u), e) /\ Len(u) \in 0..Len(u)
    BY <1>1, <2>1, <2>5, AppendAdds, LenProperties
  <2>7. Owns(t, (o \ {s[1]}) \cup {e})
    BY <2>5, <2>6, OwnsAdded
  <2>8. s[1] \in o
    BY <1>1, <1>2, <2>1 DEF Owns
  <2>9. (IF r.ok THEN o \cup {e} ELSE o) \ r.gone = (o \ {s[1]}) \cup {e}
    BY <1>1, <1>7, <2>1, <2>8
  <2>10. Holding("ring", r.c, (IF r.ok THEN o \cup {e} ELSE o) \ r.gone)
    BY <1>1, <1>4, <2>7, <2>9 DEF Holding
  <2>11. Effect("ring", o, s, t)
    BY <1>2, <1>7, <2>1 DEF Effect, u
  <2> QED
    BY <1>1, <2>10, <2>11 DEF Kept
<1> QED
  BY <1>3, <1>5, <1>6, <1>7

\* An element that leaves at the front.
TailKept(k, x, r) ==
  /\ r.ok = TRUE /\ SeqFor(k, x) # <<>>
  /\ r.gone = {SeqFor(k, x)[1]} /\ SeqFor(k, r.c) = Tail(SeqFor(k, x))

LEMMA TailIsKept ==
  ASSUME NEW k \in {"deque", "queue", "ring", "list"}, NEW x, NEW o, Holding(k, x, o),
         NEW r, Good(k, r.c), TailKept(k, x, r)
  PROVE  Kept(k, x, o, r, {})
<1> DEFINE s == SeqFor(k, x)
           t == SeqFor(k, r.c)
<1>1. /\ s \in Seq(Elements) /\ Owns(s, o) /\ s # <<>> /\ t = Tail(s)
      /\ r.ok = TRUE /\ r.gone = {s[1]}
  BY DEF Holding, Owns, TailKept
<1> HIDE DEF s, t
<1>2. PICK i \in 0..Len(s) - 1 : i = 0 /\ i + 1 = 1
  BY <1>1, LenProperties, EmptySeq
<1>a. t = Splice(s, i, 1, <<>>)
  BY <1>1, <1>2, CutFirst
<1>3. CutSo(t, s, i)
  BY <1>1, <1>a, SpliceCuts
<1>4. Owns(t, o \ {s[i + 1]})
  BY <1>1, <1>3, OwnsCut
<1>5. (IF r.ok THEN o \cup {} ELSE o) \ r.gone = o \ {s[i + 1]}
  BY <1>1, <1>2
<1>6. Holding(k, r.c, (IF r.ok THEN o \cup {} ELSE o) \ r.gone)
  BY <1>4, <1>5 DEF Holding, t
<1>7. Effect(k, o, s, t)
  BY <1>1 DEF Effect
<1> QED
  BY <1>6, <1>7 DEF Kept, s, t

LEMMA DequePopFrontKept ==
  ASSUME NEW k \in {"deque", "queue", "ring"}, NEW x, NEW o, Holding(k, x, o), x.len > 0,
         NEW r \in deque_pop_front(x)
  PROVE  Kept(k, x, o, r, {})
<1>0. k \in Deques
  BY DEF Deques
<1>1. DequeShape(x) /\ (k = "ring" => x.len <= RingCapacity) /\ x.len \in Nat
  BY <1>0, GoodIs, DequeFacts DEF Holding
<1>2. /\ r.ok = TRUE /\ r.gone = {DequeContents(x)[1]} /\ DequeShape(r.c)
      /\ r.c.len = x.len - 1 /\ DequeContents(r.c) = Tail(DequeContents(x))
  BY <1>1, PopFrontIs
<1>3. Good(k, r.c)
  BY <1>0, <1>1, <1>2, RingAssumption, GoodIs
<1>4. DequeContents(x) \in Seq(Elements) /\ DequeContents(x) # <<>>
  BY <1>1, DequeContentsAre, EmptySeq
<1>5. TailKept(k, x, r)
  BY <1>0, <1>2, <1>4, SeqForIs DEF TailKept
<1> QED
  BY <1>3, <1>5, TailIsKept

LEMMA DequePopBackKept ==
  ASSUME NEW k \in {"deque", "stack"}, NEW x, NEW o, Holding(k, x, o), x.len > 0,
         NEW r \in deque_pop_back(x)
  PROVE  Kept(k, x, o, r, {})
<1>0. k \in Deques
  BY DEF Deques
<1>1. DequeShape(x) /\ x.len \in Nat /\ Len(DequeContents(x)) = x.len
  BY <1>0, GoodIs, DequeFacts, DequeContentsAre DEF Holding
<1>2. /\ r.ok = TRUE /\ r.gone = {DequeContents(x)[x.len]} /\ DequeShape(r.c)
      /\ DequeContents(r.c) = Splice(DequeContents(x), x.len - 1, 1, <<>>)
  BY <1>1, PopBackIs
<1>3. Good(k, r.c)
  BY <1>0, <1>2, GoodIs
<1>4. x.len - 1 \in 0..Len(DequeContents(x)) - 1 /\ (x.len - 1) + 1 = x.len
  BY <1>1
<1>5. CutKept(k, x, o, r)
  BY <1>0, <1>1, <1>2, <1>4, SeqForIs DEF CutKept
<1> QED
  BY <1>2, <1>3, <1>5, CutIsKept

LEMMA ListPushFrontKept ==
  ASSUME NEW x, NEW o, Holding("list", x, o), NEW e \in Elements \ o,
         NEW r \in linked_list_push_front(x, e)
  PROVE  Kept("list", x, o, r, {e})
<1>1. ListShape(x) /\ e \in Elements
  BY GoodIs DEF Holding
<1>2. /\ r.ok \in BOOLEAN /\ r.gone = {} /\ ListShape(r.c)
      /\ ~r.ok => ListContents(r.c) = ListContents(x)
      /\ r.ok => ListContents(r.c) = <<e>> \o ListContents(x)
  BY <1>1, ListPushFrontIs
<1>3. /\ SeqFor("list", x) = ListContents(x)
      /\ SeqFor("list", r.c) = ListContents(r.c) /\ Good("list", r.c)
  BY <1>2, GoodIs, SeqForIs
<1>4. AddKept("list", x, r, e)
  BY <1>2, <1>3 DEF AddKept
<1> QED
  BY <1>3, <1>4, AddIsKept

LEMMA ListPushBackKept ==
  ASSUME NEW x, NEW o, Holding("list", x, o), NEW e \in Elements \ o,
         NEW r \in linked_list_push_back(x, e)
  PROVE  Kept("list", x, o, r, {e})
<1>1. ListShape(x) /\ e \in Elements
  BY GoodIs DEF Holding
<1>2. /\ r.ok \in BOOLEAN /\ r.gone = {} /\ ListShape(r.c)
      /\ ~r.ok => ListContents(r.c) = ListContents(x)
      /\ r.ok => ListContents(r.c) = Append(ListContents(x), e)
  BY <1>1, ListPushBackIs
<1>3. /\ SeqFor("list", x) = ListContents(x)
      /\ SeqFor("list", r.c) = ListContents(r.c) /\ Good("list", r.c)
  BY <1>2, GoodIs, SeqForIs
<1>4. AddKept("list", x, r, e)
  BY <1>2, <1>3 DEF AddKept
<1> QED
  BY <1>3, <1>4, AddIsKept

LEMMA NthKept ==
  ASSUME NEW x, NEW o, Holding("list", x, o), NEW n \in 1..Len(ListContents(x)),
         NEW r, NthGone(r, ListContents(x), n)
  PROVE  Kept("list", x, o, r, {})
<1>1. SeqFor("list", x) = ListContents(x) /\ SeqFor("list", r.c) = ListContents(r.c)
  BY SeqForIs
<1>2. Len(ListContents(x)) \in Nat
  BY <1>1, LenProperties DEF Holding, Owns
<1>3. n - 1 \in 0..Len(ListContents(x)) - 1 /\ (n - 1) + 1 = n
  BY <1>2
<1>4. CutKept("list", x, o, r)
  BY <1>1, <1>3 DEF CutKept, NthGone
<1>5. r.ok = TRUE /\ Good("list", r.c)
  BY GoodIs DEF NthGone
<1> QED
  BY <1>4, <1>5, CutIsKept

LEMMA ListRemoveKept ==
  ASSUME NEW x, NEW o, Holding("list", x, o), NEW i \in DOMAIN x.buf,
         NEW r \in linked_list_remove(x, i)
  PROVE  Kept("list", x, o, r, {})
<1>1. ListShape(x)
  BY GoodIs DEF Holding
<1>2. CASE r.ok = FALSE /\ r.gone = {} /\ r.c = x
  BY <1>1, <1>2, GoodIs, SameKept
<1>3. CASE \E n \in 1..Len(ListContents(x)) : NthGone(r, ListContents(x), n)
  BY <1>3, NthKept
<1> QED
  BY <1>1, <1>2, <1>3, ListRemoveIs

LEMMA ListRemoveEndKept ==
  ASSUME NEW x, NEW o, Holding("list", x, o),
         NEW i, i # None, i = x.first \/ i = x.last,
         NEW r \in linked_list_remove(x, i)
  PROVE  Kept("list", x, o, r, {})
<1> DEFINE s == ListContents(x)
<1>1. ListShape(x) /\ s = SeqFor("list", x)
  BY GoodIs, SeqForIs DEF Holding
<1>2. s # <<>> /\ (NthGone(r, s, 1) \/ NthGone(r, s, Len(s)))
  BY <1>1, ListEndsAre
<1>3. Len(s) \in Nat /\ Len(s) > 0
  BY <1>1, <1>2, LenProperties, EmptySeq DEF Holding, Owns
<1>4. 1 \in 1..Len(s) /\ Len(s) \in 1..Len(s)
  BY <1>3
<1> QED
  BY <1>2, <1>4, NthKept
-------------------------------------------------------------------------------
(* The turns of the loops *)

\* An element that a clear takes, the first of a list and the last of the others.
Lost(k, x, o, r) ==
  /\ Holding(k, r.c, o \ r.gone)
  /\ SeqFor(k, x) # <<>>
  /\ SeqFor(k, r.c) = IF k = "list" THEN Tail(SeqFor(k, x))
                      ELSE Splice(SeqFor(k, x), Len(SeqFor(k, x)) - 1, 1, <<>>)

LastGone(r, s, t) ==
  s # <<>> /\ r.gone = {s[Len(s)]} /\ t = Splice(s, Len(s) - 1, 1, <<>>)

LEMMA LastIsLost ==
  ASSUME NEW k, k # "list", NEW x, NEW o, Holding(k, x, o), NEW r, Good(k, r.c),
         LastGone(r, SeqFor(k, x), SeqFor(k, r.c))
  PROVE  Lost(k, x, o, r)
<1> DEFINE s == SeqFor(k, x)
           t == SeqFor(k, r.c)
<1>1. s \in Seq(Elements) /\ Owns(s, o) /\ LastGone(r, s, t)
  BY DEF Holding, Owns
<1> HIDE DEF s, t
<1>2. PICK i \in 0..Len(s) - 1 : i = Len(s) - 1 /\ i + 1 = Len(s)
  BY <1>1, LenProperties, EmptySeq DEF LastGone
<1>3. t = Splice(s, i, 1, <<>>) /\ r.gone = {s[i + 1]} /\ s # <<>>
  BY <1>1, <1>2 DEF LastGone
<1>4. Owns(t, o \ {s[i + 1]})
  BY <1>1, <1>3, SpliceCuts, OwnsCut
<1>5. Holding(k, r.c, o \ r.gone)
  BY <1>3, <1>4 DEF Holding, t
<1> QED
  BY <1>2, <1>3, <1>5 DEF Lost, s, t

LEMMA FirstIsLost ==
  ASSUME NEW x, NEW o, Holding("list", x, o), NEW r, Good("list", r.c),
         TailKept("list", x, r)
  PROVE  Lost("list", x, o, r)
<1>1. Kept("list", x, o, r, {})
  BY TailIsKept
<1>2. (IF r.ok THEN o \cup {} ELSE o) \ r.gone = o \ r.gone
  OBVIOUS
<1> QED
  BY <1>1, <1>2 DEF Kept, Lost, TailKept

LEMMA Kinds ==
  /\ "vec" \notin Deques /\ "vec" \notin Tables
  /\ "list" \notin Deques /\ "list" \notin Tables
  /\ \A k \in Deques : k # "vec" /\ k # "list" /\ k \notin Tables
BY DEF Deques, Tables

LEMMA ClearedIs ==
  ASSUME kind \notin Tables, NEW x, NEW o, Holding(kind, x, o), call.goal \in Nat,
         kind # "vec" => call.goal = 0
  PROVE  Cleared(x) <=> Len(SeqFor(kind, x)) <= call.goal
<1>1. SeqFor(kind, x) \in Seq(Elements) /\ Len(SeqFor(kind, x)) \in Nat
  BY LenProperties DEF Holding, Owns
<1>2. CASE kind = "vec"
  <2>1. Len(SeqFor(kind, x)) = x.size
    BY <1>2, GoodIs, SeqForIs, VecContentsAre DEF Holding
  <2>2. Cleared(x) <=> x.size <= call.goal
    BY <1>2, Kinds DEF Cleared
  <2> QED
    BY <2>1, <2>2
<1>3. CASE kind \in Deques
  <2>1. Len(SeqFor(kind, x)) = x.len
    BY <1>3, GoodIs, SeqForIs, DequeContentsAre DEF Holding
  <2>2. kind # "vec" /\ (Cleared(x) <=> x.len = 0)
    BY <1>3, Kinds DEF Cleared
  <2> QED
    BY <1>1, <2>1, <2>2
<1>4. CASE kind = "list"
  <2>1. x.first = None <=> SeqFor(kind, x) = <<>>
    BY <1>4, GoodIs, SeqForIs, ListEndsAre DEF Holding
  <2>2. kind # "vec" /\ (Cleared(x) <=> x.first = None)
    BY <1>4, Kinds DEF Cleared
  <2> QED
    BY <1>1, <2>1, <2>2, EmptySeq
<1> QED
  BY <1>2, <1>3, <1>4 DEF Holding, Good

LEMMA ClearTurnIs ==
  ASSUME kind \notin Tables, NEW x, NEW o, Holding(kind, x, o), call.goal \in Nat,
         kind # "vec" => call.goal = 0, ~Cleared(x), NEW r \in ClearTurn(x)
  PROVE  Lost(kind, x, o, r)
<1>1. SeqFor(kind, x) \in Seq(Elements) /\ Len(SeqFor(kind, x)) > 0
  <2>1. SeqFor(kind, x) \in Seq(Elements) /\ Len(SeqFor(kind, x)) \in Nat
    BY LenProperties DEF Holding, Owns
  <2>2. ~(Len(SeqFor(kind, x)) <= call.goal)
    BY ClearedIs
  <2> QED
    BY <2>1, <2>2
<1>2. SeqFor(kind, x) # <<>>
  BY <1>1
<1>3. CASE kind = "vec"
  <2>0. r \in vec_pop(x)
    BY <1>3, Kinds DEF ClearTurn
  <2>1. VecShape(x) /\ x.size = Len(VecContents(x)) /\ r \in vec_pop(x)
    BY <1>3, <2>0, GoodIs, VecContentsAre DEF Holding
  <2>2. x.size > 0
    BY <1>1, <1>3, <2>1, SeqForIs
  <2>3. VecShape(r.c) /\ LastGone(r, VecContents(x), VecContents(r.c))
    BY <1>2, <1>3, <2>1, <2>2, SeqForIs, VecPopIs DEF LastGone
  <2> QED
    BY <1>3, <2>3, GoodIs, SeqForIs, LastIsLost
<1>4. CASE kind \in Deques
  <2>0. r \in deque_pop_back(x) /\ kind # "list"
    BY <1>4, Kinds DEF ClearTurn
  <2>1. /\ DequeShape(x) /\ x.len = Len(DequeContents(x))
        /\ kind = "ring" => x.len <= RingCapacity
    BY <1>4, GoodIs, DequeContentsAre DEF Holding
  <2>2. x.len > 0 /\ x.len \in Nat
    BY <1>1, <1>4, <2>1, SeqForIs, DequeFacts
  <2>3. DequeShape(r.c) /\ LastGone(r, DequeContents(x), DequeContents(r.c))
    <3>1. DequeContents(x) # <<>>
      BY <1>2, <1>4, SeqForIs
    <3>2. /\ DequeShape(r.c) /\ r.gone = {DequeContents(x)[x.len]}
          /\ DequeContents(r.c) = Splice(DequeContents(x), x.len - 1, 1, <<>>)
      BY <2>0, <2>1, <2>2, PopBackIs
    <3> QED
      BY <2>1, <3>1, <3>2 DEF LastGone
  <2>4. Good(kind, r.c)
    <3>1. r.c.len = x.len - 1
      BY <2>0, <2>1, <2>2, PopBackIs
    <3> QED
      BY <1>4, <2>1, <2>2, <2>3, <3>1, GoodIs, RingAssumption
  <2> QED
    BY <1>4, <2>0, <2>3, <2>4, SeqForIs, LastIsLost
<1>5. CASE kind = "list"
  <2>1. ListShape(x) /\ r \in linked_list_remove(x, x.first)
    BY <1>5, GoodIs, Kinds DEF Holding, ClearTurn
  <2>2. x.first # None
    BY <1>2, <1>5, <2>1, SeqForIs, ListEndsAre
  <2>3. NthGone(r, ListContents(x), 1)
    BY <2>1, <2>2, ListEndsAre
  <2>4. Splice(ListContents(x), 0, 1, <<>>) = Tail(ListContents(x))
    BY <1>1, <1>2, <1>5, SeqForIs, CutFirst
  <2>5. TailKept("list", x, r) /\ Good("list", r.c)
    BY <1>2, <1>5, <2>3, <2>4, SeqForIs, GoodIs DEF TailKept, NthGone
  <2> QED
    BY <1>5, <2>5, FirstIsLost
<1> QED
  BY <1>3, <1>4, <1>5 DEF Holding, Good

Prefix(t, s) == Len(t) <= Len(s) /\ \A j \in 1..Len(t) : t[j] = s[j]

\* A vector's clone has room for all the elements from the start.
HasRoom(x) == kind = "vec" => CapOf(x.buf) >= c.size

LEMMA OwnsNone == Owns(<<>>, {})
BY DEF Owns

LEMMA CloneStorageIs ==
  ASSUME kind \notin Tables, NEW o, Holding(kind, c, o), NEW r \in CloneStorage, r.ok
  PROVE  Holding(kind, r.c, {}) /\ SeqFor(kind, r.c) = <<>> /\ HasRoom(r.c)
<1>1. CASE kind = "vec"
  <2>0. r \in vec_reserve(vec_new, c.size) /\ vec_new.size = 0
    BY <1>1, Kinds DEF CloneStorage, vec_new
  <2>1. c.size \in Nat /\ r \in vec_reserve(vec_new, c.size) /\ vec_new.size = 0
    BY <1>1, <2>0, GoodIs, VecFacts DEF Holding
  <2>2. /\ VecShape(r.c) /\ VecContents(r.c) = <<>>
        /\ CapOf(r.c.buf) >= vec_new.size + c.size
    BY <2>1, NewVec, VecReserveIs
  <2>3. Owns(VecContents(r.c), {})
    BY <2>2, OwnsNone
  <2> QED
    BY <1>1, <2>1, <2>2, <2>3, GoodIs, SeqForIs DEF Holding, HasRoom
<1>2. CASE kind \in Deques
  <2>1. /\ c.len \in Nat /\ r \in deque_reserve(deque_new, c.len) /\ deque_new.len = 0
        /\ kind # "vec"
    BY <1>2, GoodIs, Kinds, DequeFacts, NewDeque DEF Holding, CloneStorage
  <2>2. DequeShape(r.c) /\ DequeContents(r.c) = <<>> /\ r.c.len = 0
    BY <2>1, NewDeque, DequeReserveIs
  <2>3. Owns(DequeContents(r.c), {})
    BY <2>2, OwnsNone
  <2> QED
    BY <1>2, <2>1, <2>2, <2>3, GoodIs, SeqForIs, RingAssumption DEF Holding, HasRoom
<1>3. CASE kind = "list"
  <2>1. c.len \in Nat /\ r \in linked_list_reserve(linked_list_new, c.len)
    <3>1. PICK p, q : Linked(c, p, q)
      BY <1>3, GoodIs DEF Holding, ListShape
    <3> QED
      BY <1>3, <3>1, Kinds, LinkedFacts DEF CloneStorage
  <2>2. ListShape(r.c) /\ ListContents(r.c) = <<>>
    BY <2>1, NewList, ListReserveIs
  <2>3. Owns(ListContents(r.c), {})
    BY <2>2, OwnsNone
  <2> QED
    BY <1>3, <2>2, <2>3, GoodIs, SeqForIs DEF Holding, HasRoom
<1> QED
  BY <1>1, <1>2, <1>3 DEF Holding, Good
\* The turn of a clone's loop for the sequence containers.
ClonePush(r, e) ==
  \/ /\ kind = "vec" /\ r.ok = TRUE
     /\ r.c = [buf |-> [copy.buf EXCEPT ![copy.size] = e], size |-> copy.size + 1]
  \/ kind \in Deques /\ \E y \in deque_push_back(copy, e) : r.ok = y.ok /\ r.c = y.c
  \/ kind = "list" /\ \E y \in linked_list_push_back(copy, e) : r.ok = y.ok /\ r.c = y.c

LEMMA CloneTurnDoes ==
  ASSUME kind \in {"vec", "list"} \cup Deques, NEW r \in CloneTurn
  PROVE  LET e == SeqFor(kind, c)[Len(SeqFor(kind, copy)) + 1]
         IN r.made = {e} /\ ClonePush(r, e)
<1> DEFINE e == SeqFor(kind, c)[Len(SeqFor(kind, copy)) + 1]
           outcomes ==
             CASE kind = "vec" ->
                    {[ok |-> TRUE, c |-> [buf  |-> [copy.buf EXCEPT ![copy.size] = e],
                                          size |-> copy.size + 1]]}
               [] kind \in Deques -> deque_push_back(copy, e)
               [] kind = "list" -> linked_list_push_back(copy, e)
<1>1. kind \notin Tables
  BY Kinds
<1>2. e = SeqOf(c)[Len(SeqOf(copy)) + 1]
  BY DEF SeqFor, SeqOf
<1>3. CloneTurn = {[ok |-> y.ok, made |-> {e}, c |-> y.c] : y \in outcomes}
  BY <1>1, <1>2 DEF CloneTurn
<1> HIDE DEF e
<1>4. PICK y \in outcomes : r = [ok |-> y.ok, made |-> {e}, c |-> y.c]
  BY Zenon, <1>3
<1>5. r.made = {e} /\ r.ok = y.ok /\ r.c = y.c
  BY <1>4
<1>6. CASE kind = "vec"
  <2>1. y \in {[ok |-> TRUE, c |-> [buf  |-> [copy.buf EXCEPT ![copy.size] = e],
                                    size |-> copy.size + 1]]}
    BY <1>6, Kinds
  <2>2. y.ok = TRUE /\ y.c = [buf |-> [copy.buf EXCEPT ![copy.size] = e],
                              size |-> copy.size + 1]
    BY <2>1
  <2> QED
    BY <1>5, <1>6, <2>2 DEF ClonePush, e
<1>7. CASE kind \in Deques
  <2>1. y \in deque_push_back(copy, e)
    BY <1>7, Kinds
  <2> QED
    BY <1>5, <1>7, <2>1 DEF ClonePush, e
<1>8. CASE kind = "list"
  <2>1. y \in linked_list_push_back(copy, e)
    BY <1>8, Kinds
  <2> QED
    BY <1>5, <1>8, <2>1 DEF ClonePush, e
<1> QED
  BY <1>6, <1>7, <1>8

\* What a push to the copy leaves, by kind.
LEMMA ClonePushIs ==
  ASSUME NEW o, Holding(kind, c, o), NEW w, Holding(kind, copy, w),
         Len(SeqFor(kind, copy)) < Len(SeqFor(kind, c)), HasRoom(copy),
         NEW e \in Elements, NEW r, ClonePush(r, e), r.ok
  PROVE  /\ Good(kind, r.c) /\ HasRoom(r.c)
         /\ SeqFor(kind, r.c) = Append(SeqFor(kind, copy), e)
<1>1. CASE kind = "vec"
  <2> DEFINE b == copy.buf
             n == copy.size
             d == Written(b, n, e)
  <2>1. /\ VecShape(copy) /\ VecShape(c) /\ CapOf(b) >= c.size
        /\ SeqFor(kind, c) = VecContents(c) /\ SeqFor(kind, copy) = VecContents(copy)
        /\ SeqFor(kind, r.c) = VecContents(r.c)
    BY <1>1, GoodIs, SeqForIs DEF Holding, HasRoom
  <2>2. /\ BufferOf(b, Slot) /\ n \in Nat /\ CapOf(b) \in Nat /\ c.size \in Nat
        /\ \A i \in 0..n - 1 : b[i] \in Elements
        /\ e \in Slot
    BY <2>1, VecFacts
  <2>3. /\ Len(VecContents(copy)) = n /\ Len(VecContents(c)) = c.size
        /\ VecContents(copy) \in Seq(Elements)
        /\ \A j \in 1..n : VecContents(copy)[j] = b[j - 1]
    BY <2>1, VecContentsAre
  <2>4. n < c.size /\ n + 1 <= CapOf(b)
    BY <2>1, <2>2, <2>3
  <2>5. r.c = [buf |-> d, size |-> n + 1]
    BY <1>1, Kinds DEF ClonePush, Written
  <2>6. IsWritten(d, b, n, e, Slot)
    BY <2>2, WriteIs
  <2> HIDE DEF d
  <2>7. /\ BufferOf(d, Slot) /\ CapOf(d) = CapOf(b)
        /\ \A j \in 0..CapOf(b) - 1 : d[j] = IF j = n THEN e ELSE b[j]
    BY <2>6 DEF IsWritten
  <2>8. \A j \in 0..n : d[j] = IF j = n THEN e ELSE b[j]
    BY <2>2, <2>4, <2>7
  <2>9. \A j \in 0..(n + 1) - 1 : d[j] \in Elements
    BY <2>2, <2>8
  <2>10. n + 1 \in Nat /\ n + 1 <= CapOf(d)
    BY <2>2, <2>4, <2>7
  <2>11. /\ VecShape(r.c) /\ VecContents(r.c) \in Seq(Elements)
         /\ Len(VecContents(r.c)) = n + 1
         /\ \A j \in 1..n + 1 : VecContents(r.c)[j] = d[j - 1]
    BY <2>5, <2>7, <2>9, <2>10, VecMade
  <2> DEFINE s == VecContents(copy)
             t == VecContents(r.c)
  <2>12. /\ s \in Seq(Elements) /\ Len(s) = n /\ t \in Seq(Elements) /\ Len(t) = Len(s) + 1
         /\ \A j \in 1..n : s[j] = b[j - 1]
         /\ \A j \in 1..n + 1 : t[j] = d[j - 1]
    BY <2>3, <2>11
  <2> HIDE DEF s, t, b, n
  <2>13. ASSUME NEW j \in 1..Len(t)
         PROVE  t[j] = IF j <= Len(s) THEN s[j] ELSE e
    <3>1. j \in 1..n + 1 /\ j - 1 \in 0..n /\ t[j] = d[j - 1]
      BY <2>2, <2>12
    <3>2. d[j - 1] = IF j - 1 = n THEN e ELSE b[j - 1]
      BY <2>8, <3>1
    <3>3. CASE j - 1 = n
      BY <2>2, <2>12, <3>1, <3>2, <3>3
    <3>4. CASE j - 1 # n
      <4>1. j \in 1..n
        BY <2>2, <3>1, <3>4
      <4> QED
        BY <2>2, <2>12, <3>1, <3>2, <3>4, <4>1
    <3> QED
      BY <3>3, <3>4
  <2>14. t = Append(s, e)
    BY <2>12, <2>13, IsAppended
  <2>15. CapOf(r.c.buf) >= c.size
    BY <2>1, <2>5, <2>7
  <2> QED
    BY <1>1, <2>1, <2>11, <2>14, <2>15, GoodIs DEF HasRoom, s, t, b, n
<1>2. CASE kind \in Deques
  <2>1. PICK y \in deque_push_back(copy, e) : r.ok = y.ok /\ r.c = y.c
    BY <1>2, Kinds DEF ClonePush
  <2>2. /\ DequeShape(copy) /\ DequeShape(c) /\ (kind = "ring" => c.len <= RingCapacity)
        /\ SeqFor(kind, c) = DequeContents(c) /\ SeqFor(kind, copy) = DequeContents(copy)
        /\ SeqFor(kind, r.c) = DequeContents(r.c)
    BY <1>2, GoodIs, SeqForIs DEF Holding
  <2>3. /\ DequeShape(r.c) /\ DequeContents(r.c) = Append(DequeContents(copy), e)
        /\ r.c.len = copy.len + 1
    BY <2>1, <2>2, DequePushBackIs
  <2>4. copy.len < c.len /\ copy.len \in Nat /\ c.len \in Nat
    BY <2>2, DequeContentsAre, DequeFacts
  <2>5. Good(kind, r.c)
    BY <1>2, <2>2, <2>3, <2>4, GoodIs, RingAssumption
  <2> QED
    BY <1>2, <2>2, <2>3, <2>5, Kinds DEF HasRoom
<1>3. CASE kind = "list"
  <2>1. PICK y \in linked_list_push_back(copy, e) : r.ok = y.ok /\ r.c = y.c
    BY <1>3, Kinds DEF ClonePush
  <2>2. /\ ListShape(copy) /\ SeqFor(kind, copy) = ListContents(copy)
        /\ SeqFor(kind, r.c) = ListContents(r.c)
    BY <1>3, GoodIs, SeqForIs DEF Holding
  <2>3. ListShape(r.c) /\ ListContents(r.c) = Append(ListContents(copy), e)
    BY <2>1, <2>2, ListPushBackIs
  <2> QED
    BY <1>3, <2>2, <2>3, GoodIs DEF HasRoom
<1> QED
  BY <1>1, <1>2, <1>3 DEF Holding, Good

LEMMA CloneTurnIs ==
  ASSUME kind \notin Tables, NEW o, Holding(kind, c, o), NEW w, Holding(kind, copy, w),
         Prefix(SeqFor(kind, copy), SeqFor(kind, c)),
         Len(SeqFor(kind, copy)) # Len(SeqFor(kind, c)), HasRoom(copy),
         NEW r \in CloneTurn, r.ok
  PROVE  /\ Holding(kind, r.c, w \cup r.made) /\ HasRoom(r.c)
         /\ Prefix(SeqFor(kind, r.c), SeqFor(kind, c))
<1> DEFINE s == SeqFor(kind, c)
           t == SeqFor(kind, copy)
           u == SeqFor(kind, r.c)
           e == s[Len(t) + 1]
<1>1. /\ s \in Seq(Elements) /\ t \in Seq(Elements) /\ Owns(s, o) /\ Owns(t, w)
      /\ Prefix(t, s) /\ Len(t) # Len(s) /\ Len(s) \in Nat /\ Len(t) \in Nat
  BY LenProperties DEF Holding, Owns
<1>2. r.made = {e} /\ ClonePush(r, e)
  <2>1. kind \in {"vec", "list"} \cup Deques
    BY DEF Holding, Good
  <2> QED
    BY <2>1, CloneTurnDoes
<1> HIDE DEF s, t, u, e
<1>3. Len(t) < Len(s) /\ Len(t) + 1 \in 1..Len(s)
  BY <1>1 DEF Prefix
<1>4. e \in Elements
  BY <1>1, <1>3, ElementOfSeq DEF e
<1>5. e \notin w
  <2> SUFFICES ASSUME e \in w PROVE FALSE
    OBVIOUS
  <2>1. PICK i \in 1..Len(t) : t[i] = e
    BY <1>1 DEF Owns
  <2>2. s[i] = s[Len(t) + 1] /\ i \in 1..Len(s) /\ i # Len(t) + 1
    BY <1>1, <1>3, <2>1 DEF Prefix, e
  <2> QED
    BY <1>1, <1>3, <2>2 DEF Owns
<1>6. Good(kind, r.c) /\ HasRoom(r.c) /\ u = Append(t, e)
  BY <1>2, <1>3, <1>4, ClonePushIs DEF s, t, u
<1>7. AddedSo(u, t, Len(t), e) /\ Len(t) \in 0..Len(t)
  BY <1>1, <1>4, <1>6, AppendAdds
<1>8. Owns(u, w \cup {e})
  BY <1>1, <1>5, <1>7, OwnsAdded
<1>9. Prefix(u, s)
  <2>1. /\ Len(u) = Len(t) + 1
        /\ \A j \in 1..Len(u) : u[j] = IF j <= Len(t) THEN t[j]
                                       ELSE IF j = Len(t) + 1 THEN e ELSE t[j - 1]
    BY <1>7 DEF AddedSo
  <2>2. \A j \in 1..Len(u) : u[j] = s[j]
    BY <1>1, <1>3, <2>1 DEF Prefix, e
  <2> QED
    BY <1>1, <1>3, <2>1, <2>2 DEF Prefix
<1> QED
  BY <1>2, <1>6, <1>8, <1>9 DEF Holding, s, u

\* A prefix that is as long is the same sequence.
LEMMA WholePrefix ==
  ASSUME NEW s \in Seq(Elements), NEW t \in Seq(Elements), Prefix(t, s), Len(t) = Len(s)
  PROVE  t = s
BY SameSequence DEF Prefix
-------------------------------------------------------------------------------
(* The client: the invariant *)

Ops == {"none", "zero", "clear", "drop", "clone", "cloned", "undo"}
Copying == {"clone", "cloned", "undo"}

CallInv ==
  /\ kind \in DOMAIN Offered
  /\ call = Running(call.op, call.goal)
  /\ call.op \in Ops
  /\ call.goal \in Nat
  /\ call.goal # 0 => call.op = "clear" /\ kind = "vec"

\* The container is whole and owns what is live; only the drop of a list that
\* was zeroed finds one that is not.
SeqInv ==
  /\ \/ Holding(kind, c, live)
     \/ kind = "list" /\ c = ZeroedList /\ live = {} /\ call.op \in {"zero", "drop"}
  /\ call.op = "zero" => SeqFor(kind, c) = <<>>
  /\ call.op = "clear" => call.goal <= Len(SeqFor(kind, c))

\* The copy is whole as well while there is one, and a prefix until it is done.
CopyInv ==
  IF call.op \in Copying
  THEN /\ Holding(kind, copy, copies)
       /\ call.op = "clone" => Prefix(SeqFor(kind, copy), SeqFor(kind, c)) /\ HasRoom(copy)
       /\ call.op = "cloned" => SeqFor(kind, copy) = SeqFor(kind, c)
  ELSE copy = NoCopy /\ copies = {}

ContInv == CallInv /\ (kind \notin Tables => SeqInv /\ CopyInv)

LEMMA KindIs ==
  ASSUME CallInv, kind \notin Tables
  PROVE  kind \in {"vec", "list"} \cup Deques
BY OfferAssumption DEF CallInv

LEMMA RunningIs ==
  ASSUME NEW op, NEW n
  PROVE  Running(op, n).op = op /\ Running(op, n).goal = n
BY DEF Running

LEMMA IdleIs == Idle.op = "none" /\ Idle.goal = 0 /\ Idle = Running(Idle.op, Idle.goal)
BY DEF Idle, Running

LEMMA ZeroedIs ==
  ASSUME kind \in {"vec", "list"} \cup Deques
  PROVE  /\ \/ Holding(kind, Zeroed, {})
            \/ kind = "list" /\ Zeroed = ZeroedList
         /\ SeqFor(kind, Zeroed) = <<>>
<1>1. CASE kind = "vec"
  <2>1. Zeroed = vec_new
    BY <1>1, Kinds DEF Zeroed
  <2> QED
    BY <1>1, <2>1, NewVec, OwnsNone, GoodIs, SeqForIs DEF Holding
<1>2. CASE kind \in Deques
  <2>1. Zeroed = deque_new
    BY <1>2, Kinds DEF Zeroed
  <2>2. Good(kind, deque_new) /\ SeqFor(kind, deque_new) = <<>>
    BY <1>2, NewDeque, GoodIs, SeqForIs, RingAssumption
  <2> QED
    BY <2>1, <2>2, OwnsNone DEF Holding
<1>3. CASE kind = "list"
  <2>1. Zeroed = ZeroedList
    BY <1>3, Kinds DEF Zeroed
  <2>2. ListContents(ZeroedList) = <<>>
    BY DEF ListContents, ZeroedList
  <2> QED
    BY <1>3, <2>1, <2>2, SeqForIs
<1> QED
  BY <1>1, <1>2, <1>3

LEMMA InitHolds == ContainersInit => ContInv
<1> SUFFICES ASSUME ContainersInit PROVE ContInv
  OBVIOUS
<1>1. CallInv
  BY RunningIs DEF ContainersInit, CallInv, Ops
<1>2. call.op = "zero" /\ c = Zeroed /\ live = {} /\ copy = NoCopy /\ copies = {}
  BY RunningIs DEF ContainersInit
<1>3. ASSUME kind \notin Tables
      PROVE  SeqInv /\ CopyInv
  BY <1>1, <1>2, <1>3, KindIs, ZeroedIs DEF SeqInv, CopyInv, Copying
<1> QED
  BY <1>1, <1>3 DEF ContInv
-------------------------------------------------------------------------------
(* The calls of one step *)

CallDone ==
  /\ call = Idle /\ UNCHANGED <<kind, copy, copies, call>>
  /\ Holding(kind, c', live')
  /\ Effect(kind, live, SeqFor(kind, c), SeqFor(kind, c'))

LEMMA CallsDo ==
  ASSUME NEW outcomes, NEW made, Calls(outcomes, made),
         \A r \in outcomes : Kept(kind, c, live, r, made)
  PROVE  CallDone
<1>1. /\ call = Idle /\ UNCHANGED <<kind, copy, copies, call>>
      /\ \E r \in outcomes :
           /\ c' = r.c
           /\ live' = (IF r.ok THEN live \cup made ELSE live) \ r.gone
  BY DEF Calls
<1>2. PICK r \in outcomes :
        /\ c' = r.c
        /\ live' = (IF r.ok THEN live \cup made ELSE live) \ r.gone
  BY <1>1
<1>3. Kept(kind, c, live, r, made)
  OBVIOUS
<1> QED
  BY <1>1, <1>2, <1>3 DEF Kept, CallDone

LEMMA IdleHolds ==
  ASSUME ContInv, kind \notin Tables, call = Idle
  PROVE  Holding(kind, c, live)
BY IdleIs DEF ContInv, SeqInv

LEMMA FreshIs ==
  ASSUME ContInv, kind \notin Tables, NEW e \in Fresh
  PROVE  e \in Elements \ live
BY OfferAssumption DEF ContInv, CallInv, Fresh, ObjectsOf

LEMMA PushBackDoes ==
  ASSUME ContInv, kind \notin Tables, PushBack
  PROVE  CallDone
<1>1. PICK e \in Fresh :
        \/ kind = "vec" /\ Calls(vec_insert(c, c.size, e), {e})
        \/ kind \in {"deque", "queue", "stack"} /\ Calls(deque_push_back(c, e), {e})
        \/ kind = "ring" /\ Calls(ring_buffer_push(c, e), {e})
        \/ kind = "list" /\ Calls(linked_list_push_back(c, e), {e})
  BY DEF PushBack
<1>2. call = Idle
  BY <1>1 DEF Calls
<1>3. Holding(kind, c, live) /\ e \in Elements \ live
  BY <1>2, IdleHolds, FreshIs
<1>4. CASE kind = "vec" /\ Calls(vec_insert(c, c.size, e), {e})
  <2>1. c.size \in 0..c.size
    BY <1>3, <1>4, GoodIs, VecFacts DEF Holding
  <2> QED
    BY <1>3, <1>4, <2>1, VecInsertKept, CallsDo
<1>5. CASE kind \in {"deque", "queue", "stack"} /\ Calls(deque_push_back(c, e), {e})
  <2>1. kind \in Deques /\ kind # "ring"
    BY <1>5 DEF Deques
  <2> QED
    BY <1>3, <1>5, <2>1, DequePushBackKept, CallsDo
<1>6. CASE kind = "ring" /\ Calls(ring_buffer_push(c, e), {e})
  BY <1>3, <1>6, RingPushKept, CallsDo
<1>7. CASE kind = "list" /\ Calls(linked_list_push_back(c, e), {e})
  BY <1>3, <1>7, ListPushBackKept, CallsDo
<1> QED
  BY <1>1, <1>4, <1>5, <1>6, <1>7

LEMMA PushFrontDoes ==
  ASSUME ContInv, kind \notin Tables, PushFront
  PROVE  CallDone
<1>1. PICK e \in Fresh :
        \/ kind = "deque" /\ Calls(deque_push_front(c, e), {e})
        \/ kind = "list" /\ Calls(linked_list_push_front(c, e), {e})
  BY DEF PushFront
<1>2. call = Idle
  BY <1>1 DEF Calls
<1>3. Holding(kind, c, live) /\ e \in Elements \ live
  BY <1>2, IdleHolds, FreshIs
<1>4. CASE kind = "deque" /\ Calls(deque_push_front(c, e), {e})
  BY <1>3, <1>4, DequePushFrontKept, CallsDo
<1>5. CASE kind = "list" /\ Calls(linked_list_push_front(c, e), {e})
  BY <1>3, <1>5, ListPushFrontKept, CallsDo
<1> QED
  BY <1>1, <1>4, <1>5

LEMMA PopFrontDoes ==
  ASSUME ContInv, kind \notin Tables, PopFront
  PROVE  CallDone
<1>1. CASE kind \in {"deque", "queue", "ring"} /\ c.len > 0 /\ Calls(deque_pop_front(c), {})
  <2>1. Holding(kind, c, live)
    BY <1>1, IdleHolds DEF Calls
  <2> QED
    BY <1>1, <2>1, DequePopFrontKept, CallsDo
<1>2. CASE kind = "list" /\ c.first # None /\ Calls(linked_list_remove(c, c.first), {})
  <2>1. Holding("list", c, live)
    BY <1>2, IdleHolds DEF Calls
  <2>2. \A r \in linked_list_remove(c, c.first) : Kept("list", c, live, r, {})
    BY <1>2, <2>1, ListRemoveEndKept
  <2> QED
    BY <1>2, <2>2, CallsDo
<1> QED
  BY <1>1, <1>2 DEF PopFront

LEMMA PopBackDoes ==
  ASSUME ContInv, kind \notin Tables, PopBack
  PROVE  CallDone
<1>1. CASE kind = "vec" /\ c.size > 0 /\ Calls(vec_pop(c), {})
  <2>1. Holding(kind, c, live)
    BY <1>1, IdleHolds DEF Calls
  <2> QED
    BY <1>1, <2>1, VecPopKept, CallsDo
<1>2. CASE kind \in {"deque", "stack"} /\ c.len > 0 /\ Calls(deque_pop_back(c), {})
  <2>1. Holding(kind, c, live)
    BY <1>2, IdleHolds DEF Calls
  <2> QED
    BY <1>2, <2>1, DequePopBackKept, CallsDo
<1>3. CASE kind = "list" /\ c.last # None /\ Calls(linked_list_remove(c, c.last), {})
  <2>1. Holding("list", c, live)
    BY <1>3, IdleHolds DEF Calls
  <2>2. \A r \in linked_list_remove(c, c.last) : Kept("list", c, live, r, {})
    BY <1>3, <2>1, ListRemoveEndKept
  <2> QED
    BY <1>3, <2>2, CallsDo
<1> QED
  BY <1>1, <1>2, <1>3 DEF PopBack

LEMMA VecAtDoes ==
  ASSUME ContInv, kind \notin Tables, VecAt
  PROVE  CallDone
<1>1. kind = "vec" /\ call = Idle
  BY DEF VecAt, Calls
<1>2. Holding("vec", c, live)
  BY <1>1, IdleHolds
<1>3. CASE \E i \in 0..c.size, e \in Fresh : Calls(vec_insert(c, i, e), {e})
  BY <1>1, <1>2, <1>3, FreshIs, VecInsertKept, CallsDo
<1>4. CASE \E i \in 0..c.size - 1, e \in Fresh : Calls(vec_set(c, i, e), {e})
  BY <1>1, <1>2, <1>4, FreshIs, VecSetKept, CallsDo
<1>5. CASE \E i \in 0..c.size - 1 : Calls(vec_remove(c, i), {})
  BY <1>1, <1>2, <1>5, VecRemoveKept, CallsDo
<1>6. CASE \E i \in 0..c.size - 1 : Calls(vec_swap_remove(c, i), {})
  BY <1>1, <1>2, <1>6, VecSwapRemoveKept, CallsDo
<1> QED
  BY <1>3, <1>4, <1>5, <1>6 DEF VecAt

LEMMA ListRemoveDoes ==
  ASSUME ContInv, kind \notin Tables, ListRemove
  PROVE  CallDone
<1>1. PICK i \in DOMAIN c.buf : kind = "list" /\ Calls(linked_list_remove(c, i), {})
  BY DEF ListRemove
<1>2. Holding("list", c, live)
  BY <1>1, IdleHolds DEF Calls
<1>3. \A r \in linked_list_remove(c, i) : Kept("list", c, live, r, {})
  BY <1>2, ListRemoveKept
<1> QED
  BY <1>1, <1>3, CallsDo

LEMMA ReserveDoes ==
  ASSUME ContInv, kind \notin Tables, Reserve
  PROVE  CallDone
<1>1. PICK n \in Reserves :
        \/ kind = "vec" /\ Calls(vec_reserve(c, n), {})
        \/ kind \in Deques \ {"ring"} /\ Calls(deque_reserve(c, n), {})
        \/ kind = "list" /\ Calls(linked_list_reserve(c, n), {})
  BY DEF Reserve
<1>2. Holding(kind, c, live) /\ n \in Nat
  BY <1>1, IdleHolds, OfferAssumption DEF Calls
<1>3. CASE kind = "vec" /\ Calls(vec_reserve(c, n), {})
  BY <1>2, <1>3, VecReserveKept, CallsDo
<1>4. CASE kind \in Deques \ {"ring"} /\ Calls(deque_reserve(c, n), {})
  BY <1>2, <1>4, DequeReserveKept, CallsDo
<1>5. CASE kind = "list" /\ Calls(linked_list_reserve(c, n), {})
  BY <1>2, <1>5, ListReserveKept, CallsDo
<1> QED
  BY <1>1, <1>3, <1>4, <1>5
-------------------------------------------------------------------------------
(* The client: every step keeps the invariant *)

LEMMA CallKeeps ==
  ASSUME CallInv, [ContainersNext]_containerVars
  PROVE  CallInv' /\ kind' = kind
<1>1. ASSUME NEW op \in Ops, call' = Running(op, 0), kind' = kind
      PROVE  CallInv'
  BY <1>1, RunningIs DEF CallInv
<1>2. ASSUME call' = call, kind' = kind
      PROVE  CallInv'
  BY <1>2 DEF CallInv
<1>3. CASE New
  <2>1. call' = Running("none", 0) /\ kind' = kind /\ "none" \in Ops
    BY <1>3 DEF New, Idle, Ops
  <2> QED
    BY <1>1, <2>1
<1>4. CASE PushBack \/ PushFront \/ PopFront \/ PopBack \/ VecAt \/ ListRemove \/ Reserve
           \/ TableCall
  <2>1. call' = call /\ kind' = kind
    BY <1>4 DEF PushBack, PushFront, PopFront, PopBack, VecAt, ListRemove, Reserve,
                TableCall, Calls
  <2> QED
    BY <1>2, <2>1
<1>5. CASE Truncate
  <2>1. PICK n \in IF kind = "vec" THEN 0..c.size ELSE {0} : call' = Running("clear", n)
    BY <1>5 DEF Truncate
  <2>2. kind' = kind /\ n \in Nat /\ (n # 0 => kind = "vec") /\ "clear" \in Ops
    BY <1>5, <2>1 DEF Truncate, Ops
  <2> QED
    BY <2>1, <2>2, RunningIs DEF CallInv
<1>6. CASE Drop
  <2>1. call' = Running("drop", 0) /\ kind' = kind /\ "drop" \in Ops
    BY <1>6 DEF Drop, Ops
  <2> QED
    BY <1>1, <2>1
<1>7. CASE Clone
  <2>1. call' = Running("clone", 0) /\ kind' = kind /\ "clone" \in Ops
    BY <1>7 DEF Clone, Ops
  <2> QED
    BY <1>1, <2>1
<1>8. CASE Keep
  <2>1. call' = Running("undo", 0) /\ kind' = kind /\ "undo" \in Ops
    BY <1>8 DEF Keep, Ops
  <2> QED
    BY <1>1, <2>1
<1>9. CASE ClearGoesOn \/ CloneGoesOn \/ UndoGoesOn
  <2>1. call' = call /\ kind' = kind
    BY <1>9 DEF ClearGoesOn, CloneGoesOn, UndoGoesOn
  <2> QED
    BY <1>2, <2>1
<1>10. CASE ClearEnds \/ UndoEnds
  <2>1. /\ call' = Running("none", 0) \/ call' = Running("zero", 0)
        /\ kind' = kind /\ "none" \in Ops /\ "zero" \in Ops
    BY <1>10 DEF ClearEnds, UndoEnds, Idle, Ops
  <2> QED
    BY <1>1, <2>1
<1>11. CASE CloneEnds \/ CloneFails
  <2>1. /\ call' = Running("cloned", 0) \/ call' = Running("undo", 0)
        /\ kind' = kind /\ "cloned" \in Ops /\ "undo" \in Ops
    BY <1>11 DEF CloneEnds, CloneFails, Ops
  <2> QED
    BY <1>1, <2>1
<1>12. CASE UNCHANGED containerVars
  BY <1>2, <1>12 DEF containerVars
<1>13. kind' = kind
  BY DEF ContainersNext, containerVars, New, PushBack, PushFront, PopFront, PopBack, VecAt,
         ListRemove, Reserve, TableCall, Calls, Truncate, Drop, Clone, Keep, Turn,
         ClearGoesOn, ClearEnds, CloneGoesOn, CloneEnds, CloneFails, UndoGoesOn, UndoEnds
<1> QED
  BY <1>3, <1>4, <1>5, <1>6, <1>7, <1>8, <1>9, <1>10, <1>11, <1>12, <1>13
     DEF ContainersNext, Turn

LEMMA NewKeeps ==
  ASSUME ContInv, kind \notin Tables, New
  PROVE  SeqInv' /\ CopyInv' /\ SeqFor(kind, c') = <<>>
<1>1. /\ call.op = "zero" /\ call' = Idle
      /\ UNCHANGED <<kind, copy, live, copies>> /\ copy = NoCopy /\ copies = {}
      /\ kind \in {"vec", "list"} \cup Deques
  BY KindIs DEF New, ContInv, CopyInv, Copying
<1>2. PICK r \in NewOf : c' = r.c
  BY DEF New
<1>3. live = {}
  <2>1. CASE Holding(kind, c, live)
    <3>1. Owns(<<>>, live)
      BY <1>1, <2>1 DEF ContInv, SeqInv, Holding
    <3> QED
      BY <3>1 DEF Owns
  <2> QED
    BY <2>1 DEF ContInv, SeqInv
<1>4. Good(kind, r.c) /\ SeqFor(kind, r.c) = <<>>
  <2>1. CASE kind = "vec"
    <3>1. r.c = vec_new
      <4>1. r \in {[ok |-> TRUE, c |-> vec_new]}
        BY <2>1, Kinds DEF NewOf
      <4> QED
        BY <4>1
    <3> QED
      BY <2>1, <3>1, NewVec, GoodIs, SeqForIs
  <2>2. CASE kind \in Deques
    <3>1. r \in ring_buffer_new \/ r.c = deque_new
      <4>1. r \in ring_buffer_new \/ r \in {[ok |-> TRUE, c |-> deque_new]}
        BY <2>2, Kinds DEF NewOf
      <4> QED
        BY <4>1
    <3>2. DequeShape(r.c) /\ DequeContents(r.c) = <<>> /\ r.c.len = 0
      BY <3>1, NewRing, NewDeque
    <3> QED
      BY <2>2, <3>2, GoodIs, SeqForIs, RingAssumption
  <2>3. CASE kind = "list"
    <3>1. r.c = linked_list_new
      <4>1. r \in {[ok |-> TRUE, c |-> linked_list_new]}
        BY <2>3, Kinds DEF NewOf
      <4> QED
        BY <4>1
    <3> QED
      BY <2>3, <3>1, NewList, GoodIs, SeqForIs
  <2> QED
    BY <1>1, <2>1, <2>2, <2>3
<1>5. Holding(kind', c', live')
  BY <1>1, <1>2, <1>3, <1>4, OwnsNone DEF Holding
<1> QED
  BY <1>1, <1>2, <1>4, <1>5, IdleIs DEF SeqInv, CopyInv, Copying

LEMMA CallDoneKeeps ==
  ASSUME ContInv, kind \notin Tables, CallDone
  PROVE  SeqInv' /\ CopyInv'
BY IdleIs DEF ContInv, CallDone, SeqInv, CopyInv, Copying

LEMMA BeginKeeps ==
  ASSUME ContInv, kind \notin Tables, Truncate \/ Drop
  PROVE  SeqInv' /\ CopyInv'
<1>1. CASE Truncate
  <2>1. PICK n \in IF kind = "vec" THEN 0..c.size ELSE {0} : call' = Running("clear", n)
    BY <1>1 DEF Truncate
  <2>2. call = Idle /\ UNCHANGED <<kind, c, copy, live, copies>>
    BY <1>1 DEF Truncate
  <2>3. Holding(kind, c, live) /\ copy = NoCopy /\ copies = {}
    BY <2>2, IdleHolds, IdleIs DEF ContInv, CopyInv, Copying
  <2>4. n <= Len(SeqFor(kind, c))
    <3>1. CASE kind = "vec"
      BY <2>1, <2>3, <3>1, GoodIs, SeqForIs, VecContentsAre DEF Holding
    <3>2. CASE kind # "vec"
      <4>1. Len(SeqFor(kind, c)) \in Nat
        BY <2>3, LenProperties DEF Holding, Owns
      <4> QED
        BY <2>1, <3>2, <4>1
    <3> QED
      BY <3>1, <3>2
  <2> QED
    BY <2>1, <2>2, <2>3, <2>4, RunningIs DEF SeqInv, CopyInv, Copying
<1>2. CASE Drop
  <2>1. /\ call = Idle \/ call.op = "zero"
        /\ call' = Running("drop", 0) /\ UNCHANGED <<kind, c, copy, live, copies>>
    BY <1>2 DEF Drop
  <2> QED
    BY <2>1, IdleIs, RunningIs DEF ContInv, SeqInv, CopyInv, Copying
<1> QED
  BY <1>1, <1>2
LEMMA LostOne ==
  ASSUME NEW k, NEW x, NEW o, Holding(k, x, o), NEW r, Lost(k, x, o, r)
  PROVE  /\ Len(SeqFor(k, r.c)) = Len(SeqFor(k, x)) - 1
         /\ Len(SeqFor(k, x)) \in Nat
<1> DEFINE s == SeqFor(k, x)
           t == SeqFor(k, r.c)
           n == Len(s) - 1
<1>1. /\ s \in Seq(Elements) /\ s # <<>> /\ Len(s) \in Nat
      /\ t = IF k = "list" THEN Tail(s) ELSE Splice(s, n, 1, <<>>)
  BY LenProperties DEF Lost, Holding, Owns
<1> HIDE DEF s, t
<1>2. n \in 0..Len(s) - 1
  BY <1>1, EmptySeq
<1>3. CASE k = "list"
  <2>1. Len(Tail(s)) = Len(s) - 1
    BY <1>1, HeadTailProperties
  <2> QED
    BY <1>1, <1>3, <2>1 DEF s, t
<1>4. CASE k # "list"
  <2> HIDE DEF n
  <2>1. CutSo(t, s, n)
    BY <1>1, <1>2, <1>4, SpliceCuts
  <2> QED
    BY <1>1, <2>1 DEF CutSo, s, t
<1> QED
  BY <1>1, <1>3, <1>4 DEF s, t

LEMMA ZeroedListTurns ==
  ASSUME kind = "list", NEW r \in ClearTurn(ZeroedList)
  PROVE  r.c = ZeroedList /\ r.gone = {}
<1>1. r \in linked_list_remove(ZeroedList, ZeroedList.first)
  BY Kinds DEF ClearTurn
<1>2. ~is_active(ZeroedList, ZeroedList.first)
  BY DEF is_active, ZeroedList, raw_buf_new
<1>3. r \in {[ok |-> FALSE, c |-> ZeroedList, gone |-> {}]}
  BY <1>1, <1>2 DEF linked_list_remove
<1> QED
  BY <1>3

LEMMA ZeroedListStays == ZeroedList.first # None
BY NoneAssumption DEF ZeroedList

LEMMA ClearGoesOnKeeps ==
  ASSUME ContInv, kind \notin Tables, ClearGoesOn
  PROVE  SeqInv' /\ CopyInv'
<1>1. /\ call.op \in {"clear", "drop"} /\ ~Cleared(c)
      /\ \E r \in ClearTurn(c) : c' = r.c /\ live' = live \ r.gone
      /\ UNCHANGED <<kind, copy, copies, call>>
  BY DEF ClearGoesOn
<1>2. PICK r \in ClearTurn(c) : c' = r.c /\ live' = live \ r.gone
  BY <1>1
<1>3. CopyInv'
  BY <1>1 DEF ContInv, CopyInv, Copying
<1>4. call.goal \in Nat /\ (kind # "vec" => call.goal = 0)
  BY DEF ContInv, CallInv
<1>5. CASE Holding(kind, c, live)
  <2>1. Lost(kind, c, live, r)
    BY <1>1, <1>4, <1>5, ClearTurnIs
  <2>2. ~(Len(SeqFor(kind, c)) <= call.goal)
    BY <1>1, <1>4, <1>5, ClearedIs
  <2>3. /\ Len(SeqFor(kind, r.c)) = Len(SeqFor(kind, c)) - 1
        /\ Len(SeqFor(kind, c)) \in Nat
    BY <1>5, <2>1, LostOne
  <2>4. call.goal <= Len(SeqFor(kind, r.c))
    BY <1>4, <2>2, <2>3
  <2>5. Holding(kind', c', live')
    BY <1>1, <1>2, <2>1 DEF Lost
  <2>6. call'.op # "zero"
    BY <1>1
  <2>7. call'.goal <= Len(SeqFor(kind', c'))
    BY <1>1, <1>2, <2>4
  <2>8. SeqInv'
    BY <2>5, <2>6, <2>7 DEF SeqInv
  <2> QED
    BY <1>3, <2>8
<1>6. CASE kind = "list" /\ c = ZeroedList /\ live = {} /\ call.op \in {"zero", "drop"}
  <2>1. c' = c /\ live' = live
    BY <1>2, <1>6, ZeroedListTurns
  <2>2. SeqInv'
    BY <1>1, <1>6, <2>1 DEF SeqInv
  <2> QED
    BY <1>3, <2>2
<1> QED
  BY <1>5, <1>6 DEF ContInv, SeqInv

LEMMA OwnsNothing ==
  ASSUME NEW s, NEW o, Owns(s, o), Len(s) <= 0
  PROVE  s = <<>> /\ o = {}
<1>1. s \in Seq(Elements) /\ Len(s) \in Nat /\ o = {s[i] : i \in 1..Len(s)}
  BY LenProperties DEF Owns
<1>2. Len(s) = 0 /\ s = <<>>
  BY <1>1, EmptySeq
<1> QED
  BY <1>1, <1>2

\* When the loop of a clear ends, what it leaves.
LEMMA ClearedLeaves ==
  ASSUME ContInv, kind \notin Tables, call.op \in {"clear", "drop"}, Cleared(c)
  PROVE  /\ Holding(kind, c, live)
         /\ Len(SeqFor(kind, c)) \in Nat /\ Len(SeqFor(kind, c)) = call.goal
         /\ call.op = "drop" => SeqFor(kind, c) = <<>> /\ live = {}
<1>1. /\ call.goal \in Nat /\ (kind # "vec" => call.goal = 0)
      /\ call.op = "drop" => call.goal = 0
  BY DEF ContInv, CallInv
<1>2. Holding(kind, c, live)
  <2>1. CASE kind = "list" /\ c = ZeroedList
    BY <2>1, ZeroedListStays, Kinds DEF Cleared
  <2> QED
    BY <2>1 DEF ContInv, SeqInv
<1>3. /\ Owns(SeqFor(kind, c), live) /\ Len(SeqFor(kind, c)) \in Nat
      /\ Len(SeqFor(kind, c)) <= call.goal
  BY <1>1, <1>2, ClearedIs, LenProperties DEF Holding, Owns
<1>4. ASSUME call.op = "drop"
      PROVE  SeqFor(kind, c) = <<>> /\ live = {}
  BY <1>1, <1>3, <1>4, OwnsNothing
<1>5. call.goal <= Len(SeqFor(kind, c))
  BY <1>1, <1>3 DEF ContInv, SeqInv
<1> QED
  BY <1>1, <1>2, <1>3, <1>4, <1>5

LEMMA ClearEndsKeeps ==
  ASSUME ContInv, kind \notin Tables, ClearEnds
  PROVE  SeqInv' /\ CopyInv'
<1>1. /\ call.op \in {"clear", "drop"} /\ Cleared(c)
      /\ UNCHANGED <<kind, copy, live, copies>>
  BY DEF ClearEnds
<1>2. /\ Holding(kind, c, live)
      /\ call.op = "drop" => SeqFor(kind, c) = <<>> /\ live = {}
      /\ copy = NoCopy /\ copies = {}
  BY <1>1, ClearedLeaves DEF ContInv, CopyInv, Copying
<1>3. CASE call.op = "drop"
  <2>1. c' = Zeroed /\ call' = Running("zero", 0)
    BY <1>3 DEF ClearEnds
  <2>2. kind \in {"vec", "list"} \cup Deques
    BY KindIs DEF ContInv
  <2>3. /\ \/ Holding(kind, c', {})
           \/ kind = "list" /\ c' = ZeroedList
        /\ SeqFor(kind, c') = <<>>
    BY <2>1, <2>2, ZeroedIs
  <2> QED
    BY <1>1, <1>2, <1>3, <2>1, <2>3, RunningIs DEF SeqInv, CopyInv, Copying
<1>4. CASE call.op # "drop"
  <2>1. c' = c /\ call' = Idle
    BY <1>4 DEF ClearEnds
  <2> QED
    BY <1>1, <1>2, <2>1, IdleIs DEF SeqInv, CopyInv, Copying
<1> QED
  BY <1>3, <1>4

LEMMA CloneKeeps ==
  ASSUME ContInv, kind \notin Tables, Clone
  PROVE  SeqInv' /\ CopyInv'
<1>1. /\ call = Idle /\ call' = Running("clone", 0)
      /\ UNCHANGED <<kind, c, live, copies>>
      /\ \E r \in CloneStorage : r.ok /\ copy' = r.c
  BY DEF Clone
<1>2. PICK r \in CloneStorage : r.ok /\ copy' = r.c
  BY <1>1
<1>3. Holding(kind, c, live) /\ copies = {}
  BY <1>1, IdleHolds, IdleIs DEF ContInv, CopyInv, Copying
<1>4. Holding(kind, r.c, {}) /\ SeqFor(kind, r.c) = <<>> /\ HasRoom(r.c)
  BY <1>2, <1>3, CloneStorageIs
<1>5. Prefix(SeqFor(kind, r.c), SeqFor(kind, c))
  <2>1. Len(SeqFor(kind, c)) \in Nat
    BY <1>3, LenProperties DEF Holding, Owns
  <2> QED
    BY <1>4, <2>1 DEF Prefix
<1>6. HasRoom(copy)'
  BY <1>1, <1>2, <1>4 DEF HasRoom
<1> QED
  BY <1>1, <1>2, <1>3, <1>4, <1>5, <1>6, RunningIs DEF SeqInv, CopyInv, Copying

LEMMA CopyHolds ==
  ASSUME ContInv, kind \notin Tables, call.op \in Copying
  PROVE  Holding(kind, c, live) /\ Holding(kind, copy, copies)
BY DEF ContInv, SeqInv, CopyInv, Copying

LEMMA CloneGoesOnKeeps ==
  ASSUME ContInv, kind \notin Tables, CloneGoesOn
  PROVE  SeqInv' /\ CopyInv'
<1>1. /\ call.op = "clone" /\ ~Cloned /\ UNCHANGED <<kind, c, live, call>>
      /\ \E r \in CloneTurn : r.ok /\ copy' = r.c /\ copies' = copies \cup r.made
  BY DEF CloneGoesOn
<1>2. PICK r \in CloneTurn : r.ok /\ copy' = r.c /\ copies' = copies \cup r.made
  BY <1>1
<1>3. Holding(kind, c, live) /\ Holding(kind, copy, copies)
  BY <1>1, CopyHolds DEF Copying
<1>4. Prefix(SeqFor(kind, copy), SeqFor(kind, c)) /\ HasRoom(copy)
  BY <1>1 DEF ContInv, CopyInv, Copying
<1>5. Len(SeqFor(kind, copy)) # Len(SeqFor(kind, c))
  BY <1>1 DEF Cloned, SeqOf, SeqFor
<1>6. /\ Holding(kind, r.c, copies \cup r.made) /\ HasRoom(r.c)
      /\ Prefix(SeqFor(kind, r.c), SeqFor(kind, c))
  BY <1>2, <1>3, <1>4, <1>5, CloneTurnIs
<1>7. HasRoom(copy)'
  BY <1>1, <1>2, <1>6 DEF HasRoom
<1> QED
  BY <1>1, <1>2, <1>3, <1>6, <1>7 DEF SeqInv, CopyInv, Copying

LEMMA CloneIsWhole ==
  ASSUME ContInv, kind \notin Tables, call.op = "clone", Cloned
  PROVE  SeqFor(kind, copy) = SeqFor(kind, c)
<1>1. /\ Holding(kind, c, live) /\ Holding(kind, copy, copies)
      /\ Prefix(SeqFor(kind, copy), SeqFor(kind, c))
  BY CopyHolds DEF ContInv, CopyInv, Copying
<1>2. Len(SeqFor(kind, copy)) = Len(SeqFor(kind, c))
  BY DEF Cloned, SeqOf, SeqFor
<1> QED
  BY <1>1, <1>2, WholePrefix DEF Holding, Owns

LEMMA CloneEndsKeeps ==
  ASSUME ContInv, kind \notin Tables, CloneEnds \/ CloneFails
  PROVE  SeqInv' /\ CopyInv'
<1>1. /\ call.op = "clone" /\ UNCHANGED <<kind, c, copy, live, copies>>
      /\ \/ call' = Running("cloned", 0) /\ Cloned
         \/ call' = Running("undo", 0)
  BY DEF CloneEnds, CloneFails
<1>2. Holding(kind, c, live) /\ Holding(kind, copy, copies)
  BY <1>1, CopyHolds DEF Copying
<1>3. Cloned => SeqFor(kind, copy) = SeqFor(kind, c)
  BY <1>1, CloneIsWhole
<1> QED
  BY <1>1, <1>2, <1>3, RunningIs DEF SeqInv, CopyInv, Copying

LEMMA KeepKeeps ==
  ASSUME ContInv, kind \notin Tables, Keep
  PROVE  SeqInv' /\ CopyInv'
<1>1. /\ call.op = "cloned" /\ call' = Running("undo", 0) /\ kind' = kind
      /\ \/ UNCHANGED <<c, copy, live, copies>>
         \/ c' = copy /\ copy' = c /\ live' = copies /\ copies' = live
  BY DEF Keep
<1>2. Holding(kind, c, live) /\ Holding(kind, copy, copies)
  BY <1>1, CopyHolds DEF Copying
<1> QED
  BY <1>1, <1>2, RunningIs DEF SeqInv, CopyInv, Copying

LEMMA UndoKeeps ==
  ASSUME ContInv, kind \notin Tables, UndoGoesOn \/ UndoEnds
  PROVE  SeqInv' /\ CopyInv'
<1>1. call.op = "undo" /\ UNCHANGED <<kind, c, live>>
  BY DEF UndoGoesOn, UndoEnds
<1>2. Holding(kind, c, live) /\ Holding(kind, copy, copies)
  BY <1>1, CopyHolds DEF Copying
<1>3. call.goal \in Nat /\ call.goal = 0
  BY <1>1 DEF ContInv, CallInv
<1>4. CASE UndoGoesOn
  <2>1. PICK r \in ClearTurn(copy) : copy' = r.c /\ copies' = copies \ r.gone
    BY <1>4 DEF UndoGoesOn
  <2>2. ~Cleared(copy) /\ call' = call
    BY <1>4 DEF UndoGoesOn
  <2>3. Lost(kind, copy, copies, r)
    BY <1>2, <1>3, <2>2, ClearTurnIs
  <2> QED
    BY <1>1, <1>2, <2>1, <2>2, <2>3 DEF Lost, SeqInv, CopyInv, Copying
<1>5. CASE UndoEnds
  <2>1. Cleared(copy) /\ copy' = NoCopy /\ call' = Idle /\ copies' = copies
    BY <1>5 DEF UndoEnds
  <2>2. Len(SeqFor(kind, copy)) <= 0
    BY <1>2, <1>3, <2>1, ClearedIs
  <2>3. copies = {}
    BY <1>2, <2>2, OwnsNothing DEF Holding
  <2> QED
    BY <1>1, <1>2, <2>1, <2>3, IdleIs DEF SeqInv, CopyInv, Copying
<1> QED
  BY <1>4, <1>5
-------------------------------------------------------------------------------
(* The client: what holds in every state *)

LEMMA StepKeeps ==
  ASSUME ContInv, [ContainersNext]_containerVars
  PROVE  ContInv'
<1>1. CallInv' /\ kind' = kind
  BY CallKeeps DEF ContInv
<1>2. ASSUME kind \notin Tables
      PROVE  SeqInv' /\ CopyInv'
  <2>1. CASE New
    BY <1>2, <2>1, NewKeeps
  <2>2. CASE PushBack \/ PushFront \/ PopFront \/ PopBack \/ VecAt \/ ListRemove \/ Reserve
    BY <1>2, <2>2, PushBackDoes, PushFrontDoes, PopFrontDoes, PopBackDoes, VecAtDoes,
       ListRemoveDoes, ReserveDoes, CallDoneKeeps
  <2>3. CASE TableCall
    BY <1>2, <2>3 DEF TableCall
  <2>4. CASE Truncate \/ Drop
    BY <1>2, <2>4, BeginKeeps
  <2>5. CASE Clone
    BY <1>2, <2>5, CloneKeeps
  <2>6. CASE Keep
    BY <1>2, <2>6, KeepKeeps
  <2>7. CASE Turn
    BY <1>2, <2>7, ClearGoesOnKeeps, ClearEndsKeeps, CloneGoesOnKeeps, CloneEndsKeeps,
       UndoKeeps DEF Turn
  <2>8. CASE UNCHANGED containerVars
    BY <1>2, <2>8 DEF containerVars, ContInv, SeqInv, CopyInv, HasRoom
  <2> QED
    BY <2>1, <2>2, <2>3, <2>4, <2>5, <2>6, <2>7, <2>8 DEF ContainersNext
<1> QED
  BY <1>1, <1>2 DEF ContInv

LEMMA ContInvHolds == ContainersSpec => []ContInv
BY InitHolds, StepKeeps, PTL DEF ContainersSpec

LEMMA BufferIsSome ==
  ASSUME NEW b, NEW S, BufferOf(b, S)
  PROVE  b \in UNION {[0..n - 1 -> S] : n \in 0..MaxCapacity}
<1> DEFINE n == CapOf(b)
<1>1. n \in Nat /\ DOMAIN b = 0..n - 1
  BY CapIs DEF BufferOf
<1>2. n \in 0..MaxCapacity /\ b \in [0..n - 1 -> S]
  BY <1>1, RawBufAssumption DEF BufferOf, IsBuffer
<1> QED
  BY <1>2

\* A container is not the value that stands for no copy.
LEMMA GoodIsSome ==
  ASSUME NEW k, NEW x, Good(k, x)
  PROVE  x # NoCopy
<1> DEFINE Buffers(S) == UNION {[0..n - 1 -> S] : n \in 0..MaxCapacity}
           Index == Nat \cup {None}
           Cells == [prev : Index, next : Index, value : Slot]
<1>1. /\ NoCopy \notin [buf : Buffers(Slot), size : Nat]
      /\ NoCopy \notin [buf : Buffers(Slot), first : Nat, last : Nat, len : Nat]
      /\ NoCopy \notin [buf : Buffers(Cells), first : Index, last : Index, free : Index,
                         len : Nat]
  BY NoCopyAssumption DEF Slot
<1>2. Cells = Nodes
  BY DEF Nodes
<1>3. \A S, b : BufferOf(b, S) => b \in Buffers(S)
  BY BufferIsSome
<1> HIDE DEF Buffers, Cells
<1>4. CASE VecShape(x)
  <2>1. x.buf \in Buffers(Slot) /\ x.size \in Nat /\ x = [buf |-> x.buf, size |-> x.size]
    BY <1>3, <1>4, VecFacts
  <2>2. x \in [buf : Buffers(Slot), size : Nat]
    BY <2>1
  <2> QED
    BY <1>1, <2>2
<1>5. CASE DequeShape(x)
  <2>1. /\ x.buf \in Buffers(Slot) /\ x.first \in Nat /\ x.last \in Nat /\ x.len \in Nat
        /\ x = [buf |-> x.buf, first |-> x.first, last |-> x.last, len |-> x.len]
    <3>1. x.buf \in Buffers(Slot) /\ x.len \in Nat
      BY <1>3, <1>5, DequeFacts
    <3>2. x.first \in Nat /\ x.last \in Nat
      BY <1>5, DequeFacts DEF DequeShape
    <3> QED
      BY <1>5, <3>1, <3>2, DequeFacts
  <2>2. x \in [buf : Buffers(Slot), first : Nat, last : Nat, len : Nat]
    BY <2>1
  <2> QED
    BY <1>1, <2>2
<1>6. CASE ListShape(x)
  <2>1. PICK p, q : Linked(x, p, q)
    BY <1>6 DEF ListShape
  <2>3. /\ x.first \in Index /\ x.last \in Index /\ x.free \in Index
    <3>1. /\ p \in [1..x.len -> 0..CapOf(x.buf) - 1]
          /\ q \in [1..CapOf(x.buf) - x.len -> 0..CapOf(x.buf) - 1]
          /\ x.first = At(p, x.len, 1) /\ x.last = At(p, x.len, x.len)
          /\ x.free = At(q, CapOf(x.buf) - x.len, 1)
      BY <2>1 DEF Linked, OneToOne
    <3>2. At(p, x.len, 1) \in Index
      BY <3>1 DEF At
    <3>3. At(p, x.len, x.len) \in Index
      BY <3>1 DEF At
    <3>4. At(q, CapOf(x.buf) - x.len, 1) \in Index
      BY <3>1 DEF At
    <3> QED
      BY <3>1, <3>2, <3>3, <3>4
  <2>4. /\ x.buf \in Buffers(Cells) /\ x.len \in Nat
        /\ x = [buf |-> x.buf, first |-> x.first, last |-> x.last, free |-> x.free,
                len |-> x.len]
    BY <1>2, <1>3, <2>1 DEF Linked
  <2>5. x \in [buf : Buffers(Cells), first : Index, last : Index, free : Index, len : Nat]
    BY <2>3, <2>4
  <2> QED
    BY <1>1, <2>5
<1> QED
  BY <1>4, <1>5, <1>6 DEF Good

LEMMA ZeroedListIsSome == ZeroedList # NoCopy
<1> DEFINE Index == Nat \cup {None}
           Cells == [prev : Index, next : Index, value : Slot]
           Some == UNION {[0..n - 1 -> Cells] : n \in 0..MaxCapacity}
<1>1. raw_buf_new \in Some
  BY NewBuffer, BufferIsSome
<1>2. NoCopy \notin [buf : Some, first : Index, last : Index, free : Index, len : Nat]
  BY NoCopyAssumption DEF Slot
<1> HIDE DEF Some
<1>3. ZeroedList \in [buf : Some, first : Index, last : Index, free : Index, len : Nat]
  BY <1>1 DEF ZeroedList
<1> QED
  BY <1>2, <1>3

\* Who is whole, in the words of the properties.
LEMMA WhatIsWhole ==
  ASSUME ContInv, kind \notin Tables
  PROVE  /\ Holding(kind, c, live) \/ (kind = "list" /\ c = ZeroedList /\ live = {})
         /\ Holding(kind, copy, copies) \/ (copy = NoCopy /\ copies = {})
BY DEF ContInv, SeqInv, CopyInv

\* Whatever was pushed, removed, reserved, cloned or dropped before, the links
\* of a list are the same in both directions and every other node is in the
\* free list once: a stale index, an emptied list and a grown one included.
THEOREM ListsStayWhole == ContainersSpec => []ListWhole
<1>1. ContInv => ListWhole
  <2> SUFFICES ASSUME ContInv,
                      NEW l \in {x \in {c, copy} : kind = "list" /\ x # NoCopy /\ x # ZeroedList}
               PROVE  Whole1(l)
    BY Zenon DEF ListWhole, Whole1
  <2>1. kind = "list" /\ kind \notin Tables /\ l \in {c, copy} /\ l # NoCopy /\ l # ZeroedList
    BY Kinds
  <2>2. Good("list", l)
    BY <2>1, WhatIsWhole DEF Holding
  <2> QED
    BY <2>2, GoodIs, ShapeIsWhole
<1> QED
  BY ContInvHolds, <1>1, PTL

LEMMA CountIs ==
  ASSUME kind \in {"vec", "list"} \cup Deques, NEW x, NEW o, Holding(kind, x, o)
  PROVE  o = Objects(x) /\ Cardinality(o) = CountOf(x)
<1>1. x # NoCopy /\ kind \notin Tables /\ kind # "table" /\ kind # "set"
  BY GoodIsSome, Kinds DEF Holding, Deques
<1>2. SeqOf(x) = SeqFor(kind, x)
  BY DEF SeqOf, SeqFor
<1>3. Owns(SeqOf(x), o)
  BY <1>2 DEF Holding
<1>4. DOMAIN SeqOf(x) = 1..Len(SeqOf(x)) /\ o = {SeqOf(x)[i] : i \in 1..Len(SeqOf(x))}
  BY <1>3, LenProperties DEF Owns
<1>5. Objects(x) = {SeqOf(x)[i] : i \in DOMAIN SeqOf(x)}
  BY <1>1 DEF Objects
<1>6. CountOf(x) = Len(SeqOf(x))
  BY <1>1 DEF CountOf
<1> QED
  BY <1>3, <1>4, <1>5, <1>6, OwnsCount

\* A sequence container and its clone own exactly the objects that were made
\* and not given back, each in one place: nothing leaks, nothing is dropped
\* twice or owned by two, also when a push or a clone failed half-way.
LEMMA SequencesOwnOnce == ContainersSpec => [](kind \notin Tables => OwnedOnce)
<1>1. ContInv => (kind \notin Tables => OwnedOnce)
  <2> SUFFICES ASSUME ContInv, kind \notin Tables PROVE OwnedOnce
    OBVIOUS
  <2>1. kind \in {"vec", "list"} \cup Deques
    BY KindIs DEF ContInv
  <2>2. live = Objects(c) /\ Cardinality(live) = CountOf(c)
    <3>1. CASE Holding(kind, c, live)
      BY <2>1, <3>1, CountIs
    <3>2. CASE kind = "list" /\ c = ZeroedList /\ live = {}
      <4>1. c # NoCopy /\ kind \notin Tables /\ kind # "table" /\ kind # "set"
        BY <3>2, ZeroedListIsSome
      <4>2. SeqOf(c) = <<>>
        <5>1. SeqOf(c) = ListContents(ZeroedList)
          BY <3>2, Kinds DEF SeqOf
        <5> QED
          BY <5>1 DEF ListContents, ZeroedList
      <4>3. Objects(c) = {SeqOf(c)[i] : i \in DOMAIN SeqOf(c)} /\ CountOf(c) = Len(SeqOf(c))
        BY <4>1 DEF Objects, CountOf
      <4>4. Objects(c) = {} /\ CountOf(c) = 0
        BY <4>2, <4>3
      <4> QED
        BY <3>2, <4>4, FS_EmptySet
    <3> QED
      BY <3>1, <3>2, WhatIsWhole
  <2>3. copies = Objects(copy) /\ Cardinality(copies) = CountOf(copy)
    <3>1. CASE Holding(kind, copy, copies)
      BY <2>1, <3>1, CountIs
    <3>2. CASE copy = NoCopy /\ copies = {}
      BY <3>2, FS_EmptySet DEF Objects, CountOf
    <3> QED
      BY <3>1, <3>2, WhatIsWhole
  <2> QED
    BY <2>2, <2>3 DEF OwnedOnce
<1> QED
  BY ContInvHolds, <1>1, PTL
-------------------------------------------------------------------------------
(* The client as SequenceSpec sees it *)

Twin == IF call.op = "cloned" THEN SeqOf(copy) ELSE NoCopy
EndAt == IF Ending THEN call.goal ELSE -1

LEMMA EndAtIs ==
  /\ call.op \in {"clear", "drop", "zero"} => EndAt = call.goal
  /\ call.op \in {"none", "clone", "cloned", "undo"} => EndAt = -1
  /\ call.op = "cloned" => Twin = SeqOf(copy)
  /\ call.op # "cloned" => Twin = NoCopy
BY DEF EndAt, Twin, Ending

LEMMA SeqOfIs == \A x : SeqOf(x) = SeqFor(kind, x)
BY DEF SeqOf, SeqFor

LEMMA NextSeqIs ==
  ASSUME kind' = kind
  PROVE  SeqOf(c)' = SeqFor(kind, c') /\ SeqOf(copy)' = SeqFor(kind, copy')
BY DEF SeqOf, SeqFor

LEMMA TablesAreEmpty ==
  ASSUME kind \in Tables
  PROVE  \A x : SeqFor(kind, x) = <<>>
BY DEF SeqFor, Tables, Deques

LEMMA AloneIs ==
  ASSUME EndAt = -1, EndAt' = EndAt, Twin' = Twin
  PROVE  AsSequence!Alone
BY DEF AsSequence!Alone, EndAt, Twin

LEMMA CallIsAllowed ==
  ASSUME ContInv, kind \notin Tables, CallDone
  PROVE  \/ AsSequence!SequenceNext
         \/ SeqOf(c)' = SeqOf(c) /\ Twin' = Twin /\ EndAt' = EndAt
<1> DEFINE s == SeqOf(c)
           t == SeqOf(c)'
<1>1. kind' = kind /\ call = Idle /\ call' = call /\ copy' = copy
  BY DEF CallDone
<1>2. s = SeqFor(kind, c) /\ t = SeqFor(kind, c')
  BY <1>1, SeqOfIs, NextSeqIs
<1>3. Owns(s, live) /\ Effect(kind, live, s, t)
  BY <1>1, <1>2, IdleHolds DEF Holding, CallDone
<1>4. Twin' = Twin /\ EndAt' = EndAt /\ EndAt = -1
  <2>1. EndAt = -1 /\ Twin = NoCopy
    BY <1>1, IdleIs, EndAtIs
  <2>2. /\ (call.op \in {"none", "clone", "cloned", "undo"} => EndAt = -1)'
        /\ (call.op # "cloned" => Twin = NoCopy)'
    BY EndAtIs, PTL
  <2> QED
    BY <1>1, <2>1, <2>2, IdleIs
<1>5. AsSequence!Alone
  BY <1>4, AloneIs
<1>6. AsSequence!Others = Elements \ live
  <2>1. DOMAIN s = 1..Len(s) /\ live = {s[i] : i \in 1..Len(s)}
    BY <1>3, LenProperties DEF Owns
  <2> QED
    BY <2>1 DEF AsSequence!Others
<1>7. \A i, drop, new : AsSequence!Spliced(i, drop, new) = Splice(s, i, drop, new)
  BY DEF AsSequence!Spliced, Splice
<1>8. CASE \E e \in Elements \ live :
             t = IF kind = "ring" /\ Len(s) = RingCapacity THEN Append(Tail(s), e)
                 ELSE Append(s, e)
  <2>1. AsSequence!AddBack
    BY <1>5, <1>6, <1>8 DEF AsSequence!AddBack
  <2> QED
    BY <1>1, <2>1 DEF AsSequence!SequenceNext
<1>9. CASE kind \in {"deque", "list"} /\ \E e \in Elements \ live : t = <<e>> \o s
  <2>1. AsSequence!AddFront
    BY <1>5, <1>6, <1>9 DEF AsSequence!AddFront
  <2> QED
    BY <1>1, <2>1 DEF AsSequence!SequenceNext
<1>10. CASE kind \in {"deque", "queue", "ring", "list"} /\ s # <<>> /\ t = Tail(s)
  <2>1. AsSequence!TakeFront
    BY <1>5, <1>10 DEF AsSequence!TakeFront
  <2> QED
    BY <1>1, <2>1 DEF AsSequence!SequenceNext
<1>11. CASE /\ kind \in {"vec", "deque", "stack", "list"} /\ s # <<>>
            /\ t = Splice(s, Len(s) - 1, 1, <<>>)
  <2>1. AsSequence!TakeBack
    BY <1>5, <1>7, <1>11 DEF AsSequence!TakeBack
  <2> QED
    BY <1>1, <2>1 DEF AsSequence!SequenceNext
<1>12. CASE kind = "vec" /\ \E i \in 0..Len(s), e \in Elements \ live : t = Splice(s, i, 0, <<e>>)
  <2>1. AsSequence!InsertAt
    BY <1>5, <1>6, <1>7, <1>12 DEF AsSequence!InsertAt
  <2> QED
    BY <1>1, <2>1 DEF AsSequence!SequenceNext
<1>13. CASE /\ kind = "vec"
            /\ \E i \in 0..Len(s) - 1, e \in Elements \ live : t = Splice(s, i, 1, <<e>>)
  <2>1. AsSequence!SetAt
    BY <1>5, <1>6, <1>7, <1>13 DEF AsSequence!SetAt
  <2> QED
    BY <1>1, <2>1 DEF AsSequence!SequenceNext
<1>14. CASE kind \in {"vec", "list"} /\ \E i \in 0..Len(s) - 1 : t = Splice(s, i, 1, <<>>)
  <2>1. AsSequence!TakeAt
    BY <1>5, <1>7, <1>14 DEF AsSequence!TakeAt
  <2> QED
    BY <1>1, <2>1 DEF AsSequence!SequenceNext
<1>15. CASE kind = "vec" /\ \E i \in 0..Len(s) - 2 : t = SwappedOut(s, i)
  <2>1. AsSequence!TakeSwapped
    BY <1>5, <1>7, <1>15 DEF AsSequence!TakeSwapped, SwappedOut
  <2> QED
    BY <1>1, <2>1 DEF AsSequence!SequenceNext
<1>16. CASE t = s
  BY <1>4, <1>16
<1> HIDE DEF s, t
<1>17. \/ t = s
       \/ \E e \in Elements \ live :
            t = IF kind = "ring" /\ Len(s) = RingCapacity THEN Append(Tail(s), e)
                ELSE Append(s, e)
       \/ kind \in {"deque", "list"} /\ \E e \in Elements \ live : t = <<e>> \o s
       \/ kind \in {"deque", "queue", "ring", "list"} /\ s # <<>> /\ t = Tail(s)
       \/ /\ kind \in {"vec", "deque", "stack", "list"} /\ s # <<>>
          /\ t = Splice(s, Len(s) - 1, 1, <<>>)
       \/ kind = "vec" /\ \E i \in 0..Len(s), e \in Elements \ live : t = Splice(s, i, 0, <<e>>)
       \/ /\ kind = "vec"
          /\ \E i \in 0..Len(s) - 1, e \in Elements \ live : t = Splice(s, i, 1, <<e>>)
       \/ kind \in {"vec", "list"} /\ \E i \in 0..Len(s) - 1 : t = Splice(s, i, 1, <<>>)
       \/ kind = "vec" /\ \E i \in 0..Len(s) - 2 : t = SwappedOut(s, i)
  BY <1>3 DEF Effect
<1> QED
  BY <1>8, <1>9, <1>10, <1>11, <1>12, <1>13, <1>14, <1>15, <1>16, <1>17

LEMMA BeginIs ==
  ASSUME EndAt = -1, EndAt' \in 0..Len(SeqOf(c)), kind = "vec" \/ EndAt' = 0,
         SeqOf(c)' = SeqOf(c), Twin' = Twin
  PROVE  AsSequence!BeginClear
BY DEF AsSequence!BeginClear, EndAt, Twin

LEMMA LoseIs ==
  ASSUME EndAt >= 0, EndAt' = EndAt, Twin' = Twin, Len(SeqOf(c)) > EndAt,
         SeqOf(c)' = IF kind = "list" THEN Tail(SeqOf(c))
                     ELSE Splice(SeqOf(c), Len(SeqOf(c)) - 1, 1, <<>>)
  PROVE  AsSequence!LoseOne
BY DEF AsSequence!LoseOne, AsSequence!Spliced, Splice, EndAt, Twin

LEMMA EndIs ==
  ASSUME EndAt >= 0, EndAt' = -1, Len(SeqOf(c)) = EndAt,
         SeqOf(c)' = SeqOf(c), Twin' = Twin
  PROVE  AsSequence!EndClear
BY DEF AsSequence!EndClear, EndAt, Twin

LEMMA TwinComes ==
  ASSUME Twin = NoCopy, Twin' = SeqOf(c), SeqOf(c)' = SeqOf(c), EndAt' = EndAt
  PROVE  AsSequence!CloneSeq
BY DEF AsSequence!CloneSeq, EndAt, Twin

LEMMA TwinGoes ==
  ASSUME Twin # NoCopy, Twin' = NoCopy, SeqOf(c)' = SeqOf(c), EndAt' = EndAt
  PROVE  AsSequence!LoseTwin
BY DEF AsSequence!LoseTwin, EndAt, Twin

LEMMA ClearGoesOnDoes ==
  ASSUME ContInv, kind \notin Tables, ClearGoesOn
  PROVE  \/ SeqFor(kind, c') = SeqFor(kind, c)
         \/ /\ Len(SeqFor(kind, c)) > call.goal
            /\ SeqFor(kind, c') = IF kind = "list" THEN Tail(SeqFor(kind, c))
                                  ELSE Splice(SeqFor(kind, c), Len(SeqFor(kind, c)) - 1, 1, <<>>)
<1>1. PICK r \in ClearTurn(c) : c' = r.c
  BY DEF ClearGoesOn
<1>2. /\ ~Cleared(c) /\ call.goal \in Nat /\ (kind # "vec" => call.goal = 0)
  BY DEF ContInv, CallInv, ClearGoesOn
<1>3. CASE Holding(kind, c, live)
  <2>1. Lost(kind, c, live, r)
    BY <1>2, <1>3, ClearTurnIs
  <2>2. ~(Len(SeqFor(kind, c)) <= call.goal)
    BY <1>2, <1>3, ClearedIs
  <2>3. Len(SeqFor(kind, c)) \in Nat
    BY <1>3, <2>1, LostOne
  <2> QED
    BY <1>1, <1>2, <2>1, <2>2, <2>3 DEF Lost
<1>4. CASE kind = "list" /\ c = ZeroedList
  BY <1>1, <1>4, ZeroedListTurns
<1> QED
  BY <1>3, <1>4, WhatIsWhole

LEMMA CopyIsSome ==
  ContInv /\ call.op = "cloned" => SeqOf(copy) # NoCopy /\ SeqOf(copy) = SeqOf(c)
<1> SUFFICES ASSUME ContInv, call.op = "cloned"
             PROVE  SeqOf(copy) # NoCopy /\ SeqOf(copy) = SeqOf(c)
  OBVIOUS
<1>1. CASE kind \in Tables
  <2>1. SeqOf(copy) = <<>> /\ SeqOf(c) = <<>>
    BY <1>1, TablesAreEmpty, SeqOfIs
  <2>2. <<>> \in Seq(Elements)
    OBVIOUS
  <2> QED
    BY <2>1, <2>2, NoCopyAssumption
<1>2. CASE kind \notin Tables
  <2>1. Holding(kind, copy, copies) /\ SeqFor(kind, copy) = SeqFor(kind, c)
    BY <1>2 DEF ContInv, CopyInv, Copying
  <2>2. SeqFor(kind, copy) \in Seq(Elements)
    BY <2>1 DEF Holding, Owns
  <2> QED
    BY <2>1, <2>2, SeqOfIs, NoCopyAssumption
<1> QED
  BY <1>1, <1>2

LEMMA StepIsAllowed ==
  ASSUME ContInv, [ContainersNext]_containerVars
  PROVE  \/ AsSequence!SequenceNext
         \/ UNCHANGED <<kind, SeqOf(c), Twin, EndAt>>
<1> DEFINE Steps == \/ AsSequence!SequenceNext
                    \/ UNCHANGED <<kind, SeqOf(c), Twin, EndAt>>
<1>1. ContInv' /\ kind' = kind
  BY StepKeeps, CallKeeps DEF ContInv
<1>2. /\ call.op \in Ops /\ call.goal \in Nat
      /\ call.goal # 0 => call.op = "clear" /\ kind = "vec"
      /\ call'.op \in Ops /\ call'.goal \in Nat
      /\ call'.goal # 0 => call'.op = "clear" /\ kind = "vec"
  BY <1>1 DEF ContInv, CallInv
<1>3. /\ SeqOf(c) = SeqFor(kind, c) /\ SeqOf(copy) = SeqFor(kind, copy)
      /\ SeqOf(c)' = SeqFor(kind, c') /\ SeqOf(copy)' = SeqFor(kind, copy')
  BY <1>1, SeqOfIs, NextSeqIs
<1>4. kind \in Tables => \A x : SeqFor(kind, x) = <<>>
  BY TablesAreEmpty
<1>5. /\ call.op \in {"clear", "drop", "zero"} => EndAt = call.goal
      /\ call.op \in {"none", "clone", "cloned", "undo"} => EndAt = -1
      /\ call.op = "cloned" => Twin = SeqOf(copy)
      /\ call.op # "cloned" => Twin = NoCopy
  BY EndAtIs
<1>6. /\ call'.op \in {"clear", "drop", "zero"} => EndAt' = call'.goal
      /\ call'.op \in {"none", "clone", "cloned", "undo"} => EndAt' = -1
      /\ call'.op = "cloned" => Twin' = SeqOf(copy)'
      /\ call'.op # "cloned" => Twin' = NoCopy
  <2>1. (/\ call.op \in {"clear", "drop", "zero"} => EndAt = call.goal
         /\ call.op \in {"none", "clone", "cloned", "undo"} => EndAt = -1
         /\ call.op = "cloned" => Twin = SeqOf(copy)
         /\ call.op # "cloned" => Twin = NoCopy)'
    BY EndAtIs, PTL
  <2> QED
    BY <2>1
<1>7. \A x : x = <<>> => Len(x) = 0
  OBVIOUS
<1> SUFFICES Steps
  OBVIOUS
<1> HIDE DEF Steps
<1>8. ASSUME \/ AsSequence!BeginClear \/ AsSequence!LoseOne \/ AsSequence!EndClear
             \/ AsSequence!CloneSeq \/ AsSequence!LoseTwin
      PROVE  Steps
  BY <1>1, <1>8 DEF AsSequence!SequenceNext, Steps
<1>9. ASSUME SeqOf(c)' = SeqOf(c), EndAt' = EndAt, Twin' = Twin
      PROVE  Steps
  BY <1>1, <1>9 DEF Steps
<1>10. CASE New
  <2>1. call.op = "zero" /\ call'.op = "none"
    BY <1>10, IdleIs DEF New
  <2>2. SeqOf(c) = <<>> /\ SeqOf(c)' = <<>>
    <3>1. CASE kind \in Tables
      BY <1>3, <1>4, <3>1
    <3>2. CASE kind \notin Tables
      BY <1>3, <1>10, <2>1, <3>2, NewKeeps DEF ContInv, SeqInv
    <3> QED
      BY <3>1, <3>2
  <2>3. EndAt = 0 /\ EndAt' = -1 /\ Twin = NoCopy /\ Twin' = NoCopy
    BY <1>2, <1>5, <1>6, <2>1
  <2>4. Len(SeqOf(c)) = EndAt /\ EndAt >= 0
    BY <1>7, <2>2, <2>3
  <2> QED
    BY <1>8, <2>2, <2>3, <2>4, EndIs
<1>11. CASE PushBack \/ PushFront \/ PopFront \/ PopBack \/ VecAt \/ ListRemove \/ Reserve
  <2>1. kind \notin Tables
    BY <1>11, Kinds DEF PushBack, PushFront, PopFront, PopBack, VecAt, ListRemove, Reserve,
                        Tables, Deques
  <2>2. CallDone
    BY <1>11, <2>1, PushBackDoes, PushFrontDoes, PopFrontDoes, PopBackDoes, VecAtDoes,
       ListRemoveDoes, ReserveDoes
  <2>3. AsSequence!SequenceNext \/ (SeqOf(c)' = SeqOf(c) /\ Twin' = Twin /\ EndAt' = EndAt)
    BY <2>1, <2>2, CallIsAllowed
  <2> QED
    BY <1>9, <2>3 DEF Steps
<1>12. CASE TableCall
  <2>1. kind \in Tables /\ call' = call /\ copy' = copy
    BY <1>12 DEF TableCall, Calls
  <2> QED
    BY <1>2, <1>3, <1>4, <1>5, <1>6, <1>9, <2>1 DEF Ops
<1>13. CASE Truncate \/ (Drop /\ call = Idle)
  <2>1. call = Idle /\ call'.op \in {"clear", "drop"} /\ c' = c /\ copy' = copy
    BY <1>13, RunningIs DEF Truncate, Drop
  <2>2. /\ EndAt = -1 /\ EndAt' = call'.goal /\ Twin' = Twin /\ SeqOf(c)' = SeqOf(c)
        /\ kind = "vec" \/ call'.goal = 0
    BY <1>2, <1>3, <1>5, <1>6, <2>1, IdleIs
  <2>3. Len(SeqOf(c)) \in Nat
    <3>1. CASE kind \in Tables
      BY <1>3, <1>4, <1>7, <3>1
    <3>2. CASE kind \notin Tables
      BY <1>3, <2>1, <3>2, IdleHolds, LenProperties DEF Holding, Owns
    <3> QED
      BY <3>1, <3>2
  <2>4. call'.goal <= Len(SeqOf(c))
    <3>1. CASE call'.goal = 0
      BY <2>3, <3>1
    <3>2. CASE call'.goal # 0
      <4>1. call'.op = "clear" /\ kind' \notin Tables
        BY <1>1, <1>2, <3>2, Kinds
      <4> QED
        BY <1>1, <1>3, <2>1, <4>1 DEF ContInv, SeqInv
    <3> QED
      BY <3>1, <3>2
  <2>5. EndAt' \in 0..Len(SeqOf(c))
    BY <1>2, <2>2, <2>3, <2>4
  <2> QED
    BY <1>8, <2>2, <2>5, BeginIs
<1>14. CASE Drop /\ call # Idle
  <2>1. call.op = "zero" /\ call'.op = "drop" /\ c' = c
    BY <1>14, RunningIs DEF Drop
  <2>2. EndAt' = EndAt /\ Twin' = Twin /\ SeqOf(c)' = SeqOf(c)
    BY <1>2, <1>3, <1>5, <1>6, <2>1
  <2> QED
    BY <1>9, <2>2
<1>15. CASE ClearGoesOn
  <2>1. call' = call /\ copy' = copy /\ call.op \in {"clear", "drop"}
    BY <1>15 DEF ClearGoesOn
  <2>2. EndAt = call.goal /\ EndAt' = EndAt /\ Twin' = Twin /\ EndAt >= 0
    BY <1>2, <1>5, <1>6, <2>1
  <2>3. CASE SeqOf(c)' = SeqOf(c)
    BY <1>9, <2>2, <2>3
  <2>4. CASE SeqOf(c)' # SeqOf(c)
    <3>1. kind \notin Tables
      BY <1>3, <1>4, <2>4
    <3>2. /\ Len(SeqOf(c)) > EndAt
          /\ SeqOf(c)' = IF kind = "list" THEN Tail(SeqOf(c))
                         ELSE Splice(SeqOf(c), Len(SeqOf(c)) - 1, 1, <<>>)
      BY <1>3, <1>15, <2>2, <2>4, <3>1, ClearGoesOnDoes
    <3> QED
      BY <1>8, <2>2, <3>2, LoseIs
  <2> QED
    BY <2>3, <2>4
<1>16. CASE ClearEnds
  <2>1. call.op \in {"clear", "drop"} /\ Cleared(c) /\ copy' = copy
    BY <1>16 DEF ClearEnds
  <2>2. Len(SeqOf(c)) = call.goal /\ (call.op = "drop" => SeqOf(c) = <<>>)
    <3>1. CASE kind \in Tables
      BY <1>2, <1>3, <1>4, <1>7, <3>1, Kinds
    <3>2. CASE kind \notin Tables
      BY <1>3, <2>1, <3>2, ClearedLeaves
    <3> QED
      BY <3>1, <3>2
  <2>3. CASE call.op = "drop"
    <3>1. call'.op = "zero"
      BY <1>16, <2>3, RunningIs DEF ClearEnds
    <3>2. SeqOf(c)' = <<>>
      <4>1. CASE kind \in Tables
        BY <1>3, <1>4, <4>1
      <4>2. CASE kind \notin Tables
        BY <1>1, <1>3, <3>1, <4>2 DEF ContInv, SeqInv
      <4> QED
        BY <4>1, <4>2
    <3> QED
      BY <1>2, <1>5, <1>6, <1>9, <2>2, <2>3, <3>1, <3>2
  <2>4. CASE call.op = "clear"
    <3>1. call'.op = "none" /\ (kind \notin Tables => c' = c)
      BY <1>16, <2>4, IdleIs DEF ClearEnds
    <3>2. SeqOf(c)' = SeqOf(c)
      BY <1>3, <1>4, <3>1
    <3>3. EndAt = call.goal /\ EndAt >= 0 /\ EndAt' = -1 /\ Twin' = Twin
      BY <1>2, <1>5, <1>6, <2>4, <3>1
    <3> QED
      BY <1>8, <2>2, <3>2, <3>3, EndIs
  <2> QED
    BY <2>1, <2>3, <2>4
<1>17. CASE Clone \/ CloneGoesOn \/ CloneFails \/ UndoGoesOn \/ UndoEnds
  <2>1. /\ call.op \in {"none", "clone", "undo"} /\ call'.op \in {"none", "clone", "undo"}
        /\ c' = c
    BY <1>17, IdleIs, RunningIs
       DEF Clone, CloneGoesOn, CloneFails, UndoGoesOn, UndoEnds
  <2>2. EndAt' = EndAt /\ Twin' = Twin /\ SeqOf(c)' = SeqOf(c)
    BY <1>3, <1>5, <1>6, <2>1
  <2> QED
    BY <1>9, <2>2
<1>18. CASE CloneEnds
  <2>1. call.op = "clone" /\ call'.op = "cloned" /\ c' = c /\ copy' = copy
    BY <1>18, RunningIs DEF CloneEnds
  <2>2. EndAt' = EndAt /\ Twin = NoCopy /\ Twin' = SeqOf(copy)' /\ SeqOf(c)' = SeqOf(c)
    BY <1>3, <1>5, <1>6, <2>1
  <2>3. SeqOf(copy)' = SeqOf(c)'
    <3>1. (ContInv /\ call.op = "cloned"
             => SeqOf(copy) # NoCopy /\ SeqOf(copy) = SeqOf(c))'
      BY CopyIsSome, PTL
    <3> QED
      BY <1>1, <2>1, <3>1
  <2> QED
    BY <1>8, <2>2, <2>3, TwinComes
<1>19. CASE Keep
  <2>1. /\ call.op = "cloned" /\ call'.op = "undo"
        /\ c' = c \/ c' = copy
    BY <1>19, RunningIs DEF Keep
  <2>2. SeqOf(copy) # NoCopy /\ SeqOf(copy) = SeqOf(c)
    BY <2>1, CopyIsSome
  <2>3. EndAt' = EndAt /\ Twin = SeqOf(copy) /\ Twin' = NoCopy
    BY <1>5, <1>6, <2>1
  <2>4. SeqOf(c)' = SeqOf(c)
    BY <1>3, <2>1, <2>2
  <2> QED
    BY <1>8, <2>2, <2>3, <2>4, TwinGoes
<1>20. CASE UNCHANGED containerVars
  BY <1>9, <1>20 DEF containerVars, Twin, EndAt, Ending, SeqOf
<1> QED
  BY <1>10, <1>11, <1>12, <1>13, <1>14, <1>15, <1>16, <1>17, <1>18, <1>19, <1>20
     DEF ContainersNext, Turn

\* Seen from outside each sequence container is its sequence: operations act at
\* the ends and places they name, growth, wrapping and the free list show
\* nowhere, a refused call changes nothing, a full ring buffer drops its oldest,
\* and a finished clone equals its source.
THEOREM ContainersKeepSequence == ContainersSpec => KeepsSequence
<1>1. ContainersInit => SeqOf(c) = <<>> /\ Twin = NoCopy /\ EndAt = 0
  <2> SUFFICES ASSUME ContainersInit PROVE SeqOf(c) = <<>> /\ Twin = NoCopy /\ EndAt = 0
    OBVIOUS
  <2>1. ContInv /\ call.op = "zero" /\ call.goal = 0
    BY InitHolds, RunningIs DEF ContainersInit
  <2>2. SeqOf(c) = <<>>
    BY <2>1, SeqOfIs, TablesAreEmpty DEF ContInv, SeqInv
  <2> QED
    BY <2>1, <2>2, EndAtIs
<1>2. ContInv /\ [ContainersNext]_containerVars
        => [AsSequence!SequenceNext]_<<kind, SeqOf(c), Twin, EndAt>>
  BY StepIsAllowed
<1>3. ContainersSpec => /\ SeqOf(c) = <<>> /\ Twin = NoCopy /\ EndAt = 0
                        /\ [][AsSequence!SequenceNext]_<<kind, SeqOf(c), Twin, EndAt>>
  BY ContInvHolds, <1>1, <1>2, PTL DEF ContainersSpec
<1> QED
  BY <1>3 DEF KeepsSequence, AsSequence!Sequence, Twin, EndAt
-------------------------------------------------------------------------------
(* The hash table: probing *)

LEMMA LeastIs ==
  ASSUME NEW S, S \subseteq Nat, S # {}
  PROVE  Least(S) \in S /\ \A m \in S : Least(S) <= m
BY LeastNumber DEF Least

LEMMA QuotientIs ==
  ASSUME NEW r \in Nat \ {0}, NEW h \in Nat
  PROVE  h \div r \in Nat /\ h % r \in 0..r - 1 /\ h = r * (h \div r) + (h % r)
OBVIOUS

LEMMA RemainderOf ==
  ASSUME NEW r \in Nat \ {0}, NEW q \in Nat, NEW x \in 0..r - 1
  PROVE  (r * q + x) % r = x
OBVIOUS

\* A probe starts where the hash falls and goes on round the end.
LEMMA WrapsOn ==
  ASSUME NEW r \in Nat \ {0}, NEW h \in Nat, NEW n \in 0..r - 1
  PROVE  (h + n) % r = Wrap((h % r) + n, r)
<1> DEFINE q == h \div r
           x == h % r
<1>1. h = r * q + x /\ q \in Nat /\ x \in 0..r - 1
  BY QuotientIs
<1> HIDE DEF q, x
<1>2. CASE x + n < r
  <2>1. h + n = r * q + (x + n) /\ x + n \in 0..r - 1
    BY <1>1, <1>2
  <2>2. (h + n) % r = x + n
    BY <1>1, <2>1, RemainderOf
  <2> QED
    BY <1>2, <2>2 DEF Wrap, x
<1>3. CASE x + n >= r
  <2>1. r * (q + 1) = r * q + r
    BY <1>1
  <2>2. h + n = r * (q + 1) + (x + n - r) /\ x + n - r \in 0..r - 1 /\ q + 1 \in Nat
    BY <1>1, <1>3, <2>1
  <2>3. (h + n) % r = x + n - r
    BY <2>2, RemainderOf
  <2> QED
    BY <1>1, <1>3, <2>3 DEF Wrap, x
<1> QED
  BY <1>1, <1>2, <1>3

\* It stays in the table, and it comes to every slot.
LEMMA ProbeGoesRound ==
  ASSUME NEW t, Room(t) \in Nat \ {0}, NEW k \in DOMAIN Hash
  PROVE  /\ \A n \in 0..Room(t) - 1 : Probe(t, k, n) \in 0..Room(t) - 1
         /\ \A i \in 0..Room(t) - 1 : \E n \in 0..Room(t) - 1 : Probe(t, k, n) = i
<1> DEFINE r == Room(t)
           s == Hash[k] % r
<1>1. Hash[k] \in Nat /\ r \in Nat \ {0}
  BY HashAssumption
<1>2. s \in 0..r - 1
  BY <1>1, QuotientIs
<1>3. \A n \in 0..r - 1 : Probe(t, k, n) = Wrap(s + n, r)
  BY <1>1, WrapsOn DEF Probe
<1> HIDE DEF s, r
<1>4. ASSUME NEW i \in 0..r - 1 PROVE \E n \in 0..r - 1 : Probe(t, k, n) = i
  <2>1. CASE i >= s
    <3>1. i - s \in 0..r - 1 /\ Wrap(s + (i - s), r) = i
      BY <1>1, <1>2, <2>1 DEF Wrap
    <3> QED
      BY <1>3, <3>1
  <2>2. CASE i < s
    <3>1. i - s + r \in 0..r - 1 /\ Wrap(s + (i - s + r), r) = i
      BY <1>1, <1>2, <2>2 DEF Wrap
    <3> QED
      BY <1>3, <3>1
  <2> QED
    BY <1>1, <1>2, <2>1, <2>2
<1>5. \A n \in 0..r - 1 : Wrap(s + n, r) \in 0..r - 1
  BY <1>1, <1>2 DEF Wrap
<1> QED
  BY <1>3, <1>4, <1>5 DEF r
-------------------------------------------------------------------------------
(* The hash table: its shape *)

Pair == [key : Elements, value : Elements]
SlotContents == Pair \cup {EmptySlot, DeletedSlot}

KeyAt(t, i) == KeyOf[t.slots[i].key]

\* A key lies in one slot, and a value with the key it was given for.
TableShape(t) ==
  /\ t = [slots |-> t.slots, len |-> t.len]
  /\ BufferOf(t.slots, SlotContents)
  /\ t.len \in Nat
  /\ \A i \in OccupiedSlots(t) : KeyOf[t.slots[i].value] = KeyAt(t, i)
  /\ \A i, j \in OccupiedSlots(t) : KeyAt(t, i) = KeyAt(t, j) => i = j

\* The probe for k comes to slot i and passes no empty slot before.
Reached(t, k, i) ==
  \E n \in 0..Room(t) - 1 :
    /\ Probe(t, k, n) = i
    /\ \A m \in 0..n - 1 : t.slots[Probe(t, k, m)] # EmptySlot

\* Between calls a slot is left and every key is on the way of its probe.
TableFit(t) ==
  /\ TableShape(t)
  /\ Room(t) >= 4 /\ t.len <= Room(t) - Room(t) \div 4
  /\ t.len = Cardinality(OccupiedSlots(t))
  /\ \A i \in OccupiedSlots(t) : Reached(t, KeyAt(t, i), i)

LEMMA PairIs ==
  ASSUME NEW p \in Pair
  PROVE  /\ p.key \in Elements /\ p.value \in Elements
         /\ p = [key |-> p.key, value |-> p.value]
         /\ p # EmptySlot /\ p # DeletedSlot
         /\ KeyOf[p.key] \in DOMAIN Hash /\ KeyOf[p.value] \in DOMAIN Hash
<1>1. p \notin {EmptySlot, DeletedSlot}
  BY HashAssumption DEF Pair
<1> QED
  BY <1>1, HashAssumption DEF Pair

LEMMA ShapeFacts ==
  ASSUME NEW t, TableShape(t)
  PROVE  /\ Room(t) \in Nat /\ DOMAIN t.slots = 0..Room(t) - 1
         /\ OccupiedSlots(t) \subseteq 0..Room(t) - 1
         /\ IsFiniteSet(OccupiedSlots(t)) /\ Cardinality(OccupiedSlots(t)) \in Nat
         /\ \A i \in OccupiedSlots(t) :
              /\ t.slots[i] \in Pair
              /\ KeyAt(t, i) \in DOMAIN Hash
              /\ KeyAt(t, i) = KeyOf[t.slots[i].key]
              /\ KeyAt(t, i) = KeyOf[t.slots[i].value]
         /\ \A i \in 0..Room(t) - 1 :
              \/ i \in OccupiedSlots(t) /\ Occupied(t, i)
              \/ t.slots[i] \in {EmptySlot, DeletedSlot} /\ ~Occupied(t, i) /\ i \notin OccupiedSlots(t)
<1>1. Room(t) \in Nat /\ DOMAIN t.slots = 0..Room(t) - 1
  BY CapIs DEF TableShape, BufferOf, Room
<1>2. OccupiedSlots(t) \subseteq 0..Room(t) - 1
  BY <1>1 DEF OccupiedSlots
<1>3. IsFiniteSet(OccupiedSlots(t)) /\ Cardinality(OccupiedSlots(t)) \in Nat
  <2>1. IsFiniteSet(0..Room(t) - 1)
    BY <1>1, FS_Interval
  <2> QED
    BY <1>2, <2>1, FS_Subset, FS_CardinalityType
<1>4. \A i \in 0..Room(t) - 1 : t.slots[i] \in SlotContents
  BY DEF TableShape, BufferOf, Room
<1>5. ASSUME NEW i \in OccupiedSlots(t) PROVE t.slots[i] \in Pair
  <2>1. t.slots[i] \in SlotContents /\ t.slots[i] \notin {EmptySlot, DeletedSlot}
    BY <1>2, <1>4 DEF OccupiedSlots, Occupied
  <2> QED
    BY <2>1 DEF SlotContents
<1>6. \A i \in OccupiedSlots(t) :
         /\ KeyAt(t, i) \in DOMAIN Hash
         /\ KeyAt(t, i) = KeyOf[t.slots[i].key]
         /\ KeyAt(t, i) = KeyOf[t.slots[i].value]
  BY <1>5, PairIs DEF TableShape, KeyAt
<1>7. \A i \in 0..Room(t) - 1 :
              \/ i \in OccupiedSlots(t) /\ Occupied(t, i)
              \/ t.slots[i] \in {EmptySlot, DeletedSlot} /\ ~Occupied(t, i) /\ i \notin OccupiedSlots(t)
  BY <1>1 DEF OccupiedSlots, Occupied
<1> QED
  BY <1>1, <1>2, <1>3, <1>5, <1>6, <1>7

\* A slot is not occupied.
LEMMA SlotIsLeft ==
  ASSUME NEW t, TableFit(t)
  PROVE  \E j \in 0..Room(t) - 1 : j \notin OccupiedSlots(t)
<1>1. TableShape(t)
  BY DEF TableFit
<1>2. SUFFICES ASSUME OccupiedSlots(t) = 0..Room(t) - 1 PROVE FALSE
  BY <1>1, ShapeFacts
<1>3. Cardinality(0..Room(t) - 1) = Room(t)
  BY <1>1, <1>2, ShapeFacts, FS_Interval DEF TableFit
<1> QED
  BY <1>1, <1>2, <1>3, ShapeFacts DEF TableFit

-------------------------------------------------------------------------------
(* The hash table: what a probe finds *)

Has(t, k) == \E i \in OccupiedSlots(t) : KeyAt(t, i) = k

\* Where find_slot's probe ends, and the tombstones it passes.
EndsAt(t, k) ==
  {n \in 0..Room(t) - 1 :
     t.slots[Probe(t, k, n)] = EmptySlot \/ Holds(t, Probe(t, k, n), k)}

EndOf(t, k) == IF EndsAt(t, k) = {} THEN Room(t) ELSE Least(EndsAt(t, k))

PassedBy(t, k) == {n \in 0..EndOf(t, k) - 1 : t.slots[Probe(t, k, n)] = DeletedSlot}

LEMMA FindSlotIs ==
  ASSUME NEW t, NEW k
  PROVE  LET found == EndsAt(t, k) # {} /\ Occupied(t, Probe(t, k, EndOf(t, k)))
         IN  find_slot(t, k) =
               [ok    |-> EndsAt(t, k) # {} \/ PassedBy(t, k) # {},
                found |-> found,
                index |-> Probe(t, k, IF PassedBy(t, k) # {} /\ ~found
                                      THEN Least(PassedBy(t, k)) ELSE EndOf(t, k))]
BY DEF find_slot, EndsAt, EndOf, PassedBy

LEMMA HoldsIs ==
  ASSUME NEW t, TableShape(t), NEW k, NEW i \in 0..Room(t) - 1
  PROVE  Holds(t, i, k) <=> i \in OccupiedSlots(t) /\ KeyAt(t, i) = k
BY ShapeFacts DEF Holds, KeyAt

\* A key that is there is found, where it is.
LEMMA FindsKey ==
  ASSUME NEW t, TableFit(t), NEW i \in OccupiedSlots(t)
  PROVE  find_slot(t, KeyAt(t, i)) = [ok |-> TRUE, found |-> TRUE, index |-> i]
<1> DEFINE k == KeyAt(t, i)
           ends == EndsAt(t, k)
<1>1. TableShape(t) /\ Room(t) \in Nat \ {0} /\ k \in DOMAIN Hash
  BY ShapeFacts DEF TableFit
<1>2. PICK n \in 0..Room(t) - 1 :
        /\ Probe(t, k, n) = i
        /\ \A m \in 0..n - 1 : t.slots[Probe(t, k, m)] # EmptySlot
  BY DEF TableFit, Reached
<1>3. n \in ends
  <2>1. Holds(t, i, k)
    BY <1>1, ShapeFacts, HoldsIs
  <2> QED
    BY <1>2, <2>1 DEF EndsAt
<1> DEFINE e == Least(ends)
<1>4. e \in ends /\ e \in Nat /\ e <= n
  <2>1. ends \subseteq Nat
    BY <1>1 DEF EndsAt
  <2> HIDE DEF ends
  <2> QED
    BY <1>3, <2>1, LeastIs
<1>5. EndOf(t, k) = e
  BY <1>3 DEF EndOf
<1>6. Probe(t, k, e) = i
  <2>1. CASE e = n
    BY <1>2, <2>1
  <2>2. CASE e < n
    <3>1. e \in 0..n - 1 /\ e \in 0..Room(t) - 1
      BY <1>1, <1>4, <2>2
    <3>2. Holds(t, Probe(t, k, e), k)
      BY <1>2, <1>4, <3>1 DEF EndsAt
    <3>3. Probe(t, k, e) \in 0..Room(t) - 1
      BY <1>1, <3>1, ProbeGoesRound
    <3>4. Probe(t, k, e) \in OccupiedSlots(t) /\ KeyAt(t, Probe(t, k, e)) = k
      BY <1>1, <3>2, <3>3, HoldsIs
    <3> QED
      BY <1>1, <3>4 DEF TableShape
  <2> QED
    BY <1>4, <2>1, <2>2
<1>7. Occupied(t, i)
  BY DEF OccupiedSlots
<1> HIDE DEF k, e
<1>8. ends # {} /\ Occupied(t, Probe(t, k, EndOf(t, k))) /\ Probe(t, k, EndOf(t, k)) = i
  BY <1>3, <1>5, <1>6, <1>7
<1> HIDE DEF ends
<1>9. find_slot(t, k) = [ok |-> TRUE, found |-> TRUE, index |-> i]
  BY <1>8, FindSlotIs DEF ends
<1> QED
  BY <1>9 DEF k

\* For one that is not there a place is found on the way of its probe.
LEMMA FindsPlace ==
  ASSUME NEW t, TableFit(t), NEW k \in DOMAIN Hash, ~Has(t, k)
  PROVE  LET at == find_slot(t, k)
         IN  /\ at.ok = TRUE /\ at.found = FALSE
             /\ at.index \in 0..Room(t) - 1 /\ at.index \notin OccupiedSlots(t)
             /\ Reached(t, k, at.index)
<1> DEFINE ends == EndsAt(t, k)
           end == EndOf(t, k)
           passed == PassedBy(t, k)
<1>1. TableShape(t) /\ Room(t) \in Nat \ {0}
  BY ShapeFacts DEF TableFit
<1>2. \A n \in 0..Room(t) - 1 : Probe(t, k, n) \in 0..Room(t) - 1
  BY <1>1, ProbeGoesRound
<1>3. \A n \in 0..Room(t) - 1 : n \in ends <=> t.slots[Probe(t, k, n)] = EmptySlot
  BY <1>1, <1>2, HoldsIs DEF Has, EndsAt
<1>4. ends \subseteq 0..Room(t) - 1
  BY DEF EndsAt
<1>5. /\ end \in 0..Room(t)
      /\ ends # {} => end \in ends
      /\ \A m \in 0..end - 1 : m \notin ends
  <2>1. CASE ends = {}
    BY <1>1, <2>1 DEF EndOf
  <2>2. CASE ends # {}
    <3>1. end = Least(ends)
      BY <2>2 DEF EndOf
    <3>2. ends \subseteq Nat
      BY <1>1, <1>4
    <3> HIDE DEF ends, end
    <3>3. end \in ends /\ \A m \in ends : end <= m
      BY <2>2, <3>1, <3>2, LeastIs
    <3> QED
      BY <1>1, <1>4, <3>3
  <2> QED
    BY <2>1, <2>2
<1>6. passed \subseteq 0..end - 1 /\ \A n \in passed : t.slots[Probe(t, k, n)] = DeletedSlot
  BY DEF PassedBy
<1>7. ends # {} \/ passed # {}
  <2>1. SUFFICES ASSUME ends = {} PROVE passed # {}
    OBVIOUS
  <2>2. PICK j \in 0..Room(t) - 1 : j \notin OccupiedSlots(t)
    BY SlotIsLeft
  <2>3. PICK n \in 0..Room(t) - 1 : Probe(t, k, n) = j
    BY <1>1, ProbeGoesRound
  <2>4. t.slots[j] # EmptySlot
    BY <1>3, <2>1, <2>3
  <2>5. t.slots[j] = DeletedSlot
    BY <1>1, <2>2, <2>4, ShapeFacts
  <2>6. end = Room(t)
    BY <2>1 DEF EndOf
  <2>7. n \in passed
    BY <2>3, <2>5, <2>6 DEF PassedBy
  <2> QED
    BY <2>7
<1>8. ends # {} => ~Occupied(t, Probe(t, k, end))
  BY <1>3, <1>4, <1>5 DEF Occupied
<1> DEFINE n0 == IF passed # {} THEN Least(passed) ELSE end
<1>9. find_slot(t, k) = [ok |-> TRUE, found |-> FALSE, index |-> Probe(t, k, n0)]
  <2> DEFINE found == ends # {} /\ Occupied(t, Probe(t, k, end))
  <2>1. find_slot(t, k) =
           [ok    |-> ends # {} \/ passed # {}, found |-> found,
            index |-> Probe(t, k, IF passed # {} /\ ~found THEN Least(passed) ELSE end)]
    BY FindSlotIs
  <2>2. found = FALSE
    BY <1>8
  <2>3. (ends # {} \/ passed # {}) = TRUE
    BY <1>7
  <2> HIDE DEF found, ends, passed, end
  <2> QED
    BY <2>1, <2>2, <2>3
<1>10. /\ n0 \in 0..Room(t) - 1 /\ n0 <= end
       /\ t.slots[Probe(t, k, n0)] \in {EmptySlot, DeletedSlot}
  <2>1. CASE passed = {}
    <3>1. end \in ends
      BY <1>5, <1>7, <2>1
    <3> QED
      BY <1>1, <1>3, <1>4, <1>5, <2>1, <3>1
  <2>2. CASE passed # {}
    <3>1. passed \subseteq Nat
      BY <1>1, <1>5, <1>6
    <3>2. n0 \in passed
      <4> HIDE DEF passed
      <4> QED
        BY <2>2, <3>1, LeastIs
    <3> HIDE DEF n0, passed, end
    <3> QED
      BY <1>1, <1>5, <1>6, <3>2
  <2> QED
    BY <2>1, <2>2
<1> HIDE DEF n0, ends, end, passed
<1>11. \A m \in 0..n0 - 1 : t.slots[Probe(t, k, m)] # EmptySlot
  BY <1>1, <1>3, <1>5, <1>10
<1>12. Probe(t, k, n0) \in 0..Room(t) - 1 /\ Probe(t, k, n0) \notin OccupiedSlots(t)
  BY <1>2, <1>10 DEF OccupiedSlots, Occupied
<1>13. Reached(t, k, Probe(t, k, n0))
  BY <1>10, <1>11 DEF Reached
<1> QED
  BY <1>9, <1>12, <1>13

-------------------------------------------------------------------------------
(* The hash table: one slot changes *)

\* x may lie in slot i.
Fits(t, i, x) ==
  x \in Pair =>
    /\ KeyOf[x.value] = KeyOf[x.key]
    /\ \A j \in OccupiedSlots(t) : KeyAt(t, j) = KeyOf[x.key] => j = i

Changed(t, i, x, n) == [slots |-> [t.slots EXCEPT ![i] = x], len |-> n]

IsChanged(u, t, i, x, n) ==
  /\ TableShape(u) /\ Room(u) = Room(t) /\ u.len = n
  /\ \A j \in 0..Room(t) - 1 : u.slots[j] = IF j = i THEN x ELSE t.slots[j]
  /\ OccupiedSlots(u) = IF x \in Pair THEN OccupiedSlots(t) \cup {i}
                        ELSE OccupiedSlots(t) \ {i}
  /\ x # EmptySlot => \A k \in DOMAIN Hash : \A j : Reached(t, k, j) => Reached(u, k, j)

LEMMA SlotChanges ==
  ASSUME NEW t, TableShape(t), NEW i, i \in 0..Room(t) - 1,
         NEW x \in SlotContents, Fits(t, i, x), NEW n \in Nat
  PROVE  IsChanged(Changed(t, i, x, n), t, i, x, n)
<1> DEFINE u == Changed(t, i, x, n)
<1>0. u = [slots |-> [t.slots EXCEPT ![i] = x], len |-> n]
  BY DEF Changed
<1> HIDE DEF u
<1>1. IsWritten(u.slots, t.slots, i, x, SlotContents)
  BY <1>0, WriteIs DEF Written, TableShape
<1>2. /\ Room(u) = Room(t) /\ u.len = n /\ BufferOf(u.slots, SlotContents)
      /\ u = [slots |-> u.slots, len |-> u.len]
      /\ \A j \in 0..Room(t) - 1 : u.slots[j] = IF j = i THEN x ELSE t.slots[j]
  BY <1>0, <1>1 DEF IsWritten, Room
<1>3. DOMAIN t.slots = 0..Room(t) - 1 /\ DOMAIN u.slots = 0..Room(t) - 1 /\ Room(t) \in Nat
  BY <1>2, CapIs DEF TableShape, BufferOf, Room
<1>4. x \in Pair \/ x = EmptySlot \/ x = DeletedSlot
  BY DEF SlotContents
<1>5. x \in Pair <=> x \notin {EmptySlot, DeletedSlot}
  BY <1>4, PairIs
<1>6. OccupiedSlots(u) = IF x \in Pair THEN OccupiedSlots(t) \cup {i}
                         ELSE OccupiedSlots(t) \ {i}
  <2>1. \A j \in 0..Room(t) - 1 : j # i => (j \in OccupiedSlots(u) <=> j \in OccupiedSlots(t))
    BY <1>2, <1>3 DEF OccupiedSlots, Occupied
  <2>2. i \in OccupiedSlots(u) <=> x \in Pair
    BY <1>2, <1>3, <1>5 DEF OccupiedSlots, Occupied
  <2>3. OccupiedSlots(u) \subseteq 0..Room(t) - 1 /\ OccupiedSlots(t) \subseteq 0..Room(t) - 1
    BY <1>3 DEF OccupiedSlots
  <2> QED
    BY <2>1, <2>2, <2>3
<1>7. OccupiedSlots(t) \subseteq 0..Room(t) - 1
  BY <1>3 DEF OccupiedSlots
<1>8. /\ \A j \in OccupiedSlots(u) : j # i => /\ KeyAt(u, j) = KeyAt(t, j) /\ u.slots[j] = t.slots[j]
                                              /\ j \in OccupiedSlots(t)
      /\ i \in OccupiedSlots(u) => KeyAt(u, i) = KeyOf[x.key] /\ u.slots[i] = x /\ x \in Pair
  <2>1. ASSUME NEW j \in OccupiedSlots(u), j # i
        PROVE  /\ KeyAt(u, j) = KeyAt(t, j) /\ u.slots[j] = t.slots[j]
               /\ j \in OccupiedSlots(t)
    <3>1. j \in OccupiedSlots(t)
      BY <1>6, <2>1
    <3>2. u.slots[j] = t.slots[j]
      BY <1>2, <1>7, <2>1, <3>1
    <3> QED
      BY <3>1, <3>2 DEF KeyAt
  <2>2. ASSUME i \in OccupiedSlots(u)
        PROVE  KeyAt(u, i) = KeyOf[x.key] /\ u.slots[i] = x /\ x \in Pair
    BY <1>2, <1>6, <2>2 DEF KeyAt
  <2> QED
    BY <2>1, <2>2
<1>9. \A j \in OccupiedSlots(u) : KeyOf[u.slots[j].value] = KeyAt(u, j)
  BY <1>8 DEF TableShape, Fits
<1>10. \A j, k \in OccupiedSlots(u) : KeyAt(u, j) = KeyAt(u, k) => j = k
  BY <1>8 DEF TableShape, Fits
<1>11. TableShape(u)
  BY <1>2, <1>9, <1>10 DEF TableShape
<1>12. ASSUME x # EmptySlot, NEW k \in DOMAIN Hash, NEW j, Reached(t, k, j)
       PROVE  Reached(u, k, j)
  <2>1. \A m : Probe(u, k, m) = Probe(t, k, m)
    BY <1>2 DEF Probe
  <2>2. PICK m \in 0..Room(t) - 1 :
          /\ Probe(t, k, m) = j
          /\ \A l \in 0..m - 1 : t.slots[Probe(t, k, l)] # EmptySlot
    BY <1>12 DEF Reached
  <2>3. ASSUME NEW l \in 0..m - 1 PROVE u.slots[Probe(t, k, l)] # EmptySlot
    <3> DEFINE a == Probe(t, k, l)
    <3>1. t.slots[a] # EmptySlot
      BY <2>2
    <3>2. a \in 0..Room(t) - 1
      <4>1. l \in 0..Room(t) - 1 /\ Room(t) \in Nat \ {0}
        BY <1>3
      <4> QED
        BY <4>1, ProbeGoesRound
    <3> HIDE DEF a
    <3>3. u.slots[a] = IF a = i THEN x ELSE t.slots[a]
      BY <1>2, <3>2
    <3> QED
      BY <1>12, <3>1, <3>3 DEF a
  <2> QED
    BY <1>2, <2>1, <2>2, <2>3 DEF Reached
<1>13. IsChanged(u, t, i, x, n)
  <2>1. x # EmptySlot => \A k \in DOMAIN Hash : \A j : Reached(t, k, j) => Reached(u, k, j)
    BY <1>12
  <2> QED
    BY <1>2, <1>6, <1>11, <2>1 DEF IsChanged
<1> QED
  BY <1>13 DEF u

\* What lies in the table.
PairsOf(t) == {t.slots[i] : i \in OccupiedSlots(t)}

LEMMA HasIs == \A t, k : Has(t, k) <=> \E p \in PairsOf(t) : KeyOf[p.key] = k
BY DEF Has, PairsOf, KeyAt

LEMMA PutFits ==
  ASSUME NEW t, TableFit(t), NEW p \in Pair, KeyOf[p.value] = KeyOf[p.key],
         ~Has(t, KeyOf[p.key]), t.len + 1 <= Room(t) - Room(t) \div 4,
         NEW i \in 0..Room(t) - 1, i \notin OccupiedSlots(t), Reached(t, KeyOf[p.key], i)
  PROVE  LET u == Put(t, i, p)
         IN  /\ TableFit(u) /\ Room(u) = Room(t) /\ u.len = t.len + 1
             /\ PairsOf(u) = PairsOf(t) \cup {p}
<1> DEFINE u == Put(t, i, p)
<1>1. TableShape(t) /\ t.len \in Nat /\ t.len + 1 \in Nat
  BY DEF TableFit, TableShape
<1>2. Fits(t, i, p) /\ p \in SlotContents /\ p # EmptySlot
  BY PairIs DEF Fits, Has, SlotContents
<1>3. u = Changed(t, i, p, t.len + 1)
  BY DEF Put, Changed
<1> HIDE DEF u
<1>4. /\ TableShape(u) /\ Room(u) = Room(t) /\ u.len = t.len + 1
      /\ \A j \in 0..Room(t) - 1 : u.slots[j] = IF j = i THEN p ELSE t.slots[j]
      /\ OccupiedSlots(u) = OccupiedSlots(t) \cup {i}
      /\ \A k \in DOMAIN Hash : \A j : Reached(t, k, j) => Reached(u, k, j)
  <2>1. IsChanged(u, t, i, p, t.len + 1)
    BY <1>1, <1>2, <1>3, SlotChanges
  <2> QED
    BY <1>2, <2>1 DEF IsChanged
<1>5. OccupiedSlots(t) \subseteq 0..Room(t) - 1
  BY <1>1, ShapeFacts
<1>6. u.slots[i] = p /\ \A j \in OccupiedSlots(t) : u.slots[j] = t.slots[j]
  BY <1>4, <1>5
<1>7. PairsOf(u) = PairsOf(t) \cup {p}
  BY <1>4, <1>6 DEF PairsOf
<1>8. u.len = Cardinality(OccupiedSlots(u))
  <2>1. Cardinality(OccupiedSlots(t) \cup {i}) = Cardinality(OccupiedSlots(t)) + 1
    BY <1>1, ShapeFacts, FS_AddElement
  <2> QED
    BY <1>4, <2>1 DEF TableFit
<1>9. \A j \in OccupiedSlots(u) : Reached(u, KeyAt(u, j), j)
  BY <1>1, <1>4, <1>6, PairIs, ShapeFacts DEF TableFit, KeyAt
<1>10. TableFit(u)
  BY <1>4, <1>8, <1>9 DEF TableFit
<1> QED
  BY <1>4, <1>7, <1>10 DEF u

LEMMA PlaceFits ==
  ASSUME NEW t, TableFit(t), NEW p \in Pair, KeyOf[p.value] = KeyOf[p.key],
         ~Has(t, KeyOf[p.key]), t.len + 1 <= Room(t) - Room(t) \div 4
  PROVE  LET u == place_move(t, p)
         IN  /\ TableFit(u) /\ Room(u) = Room(t) /\ u.len = t.len + 1
             /\ PairsOf(u) = PairsOf(t) \cup {p}
<1> DEFINE at == find_slot(t, KeyOf[p.key])
<1>1. /\ at.index \in 0..Room(t) - 1 /\ at.index \notin OccupiedSlots(t)
      /\ Reached(t, KeyOf[p.key], at.index)
  BY PairIs, FindsPlace
<1>2. place_move(t, p) = Put(t, at.index, p)
  BY DEF place_move
<1> HIDE DEF at
<1> QED
  BY <1>1, <1>2, PutFits

-------------------------------------------------------------------------------
(* The hash table: new storage *)

LEMMA StorageIs ==
  ASSUME NEW n \in Nat, n <= MaxCapacity
  PROVE  /\ TableShape(Storage(n)) /\ Room(Storage(n)) = n
         /\ Storage(n).len = 0 /\ PairsOf(Storage(n)) = {} /\ OccupiedSlots(Storage(n)) = {}
         /\ \A i \in 0..n - 1 : Storage(n).slots[i] = EmptySlot
         /\ n >= 4 => TableFit(Storage(n))
<1> DEFINE t == Storage(n)
<1>1. t = [slots |-> t.slots, len |-> 0] /\ t.slots = [i \in 0..n - 1 |-> EmptySlot] /\ t.len = 0
  BY DEF Storage
<1> HIDE DEF t
<1>2. t.slots = [i \in 0..n - 1 |-> t.slots[i]] /\ \A i \in 0..n - 1 : t.slots[i] = EmptySlot
  BY <1>1
<1>3. IsBuffer(t.slots) /\ CapOf(t.slots) = n
  BY <1>2, BufferIs
<1>4. BufferOf(t.slots, SlotContents) /\ Room(t) = n
  BY <1>2, <1>3 DEF BufferOf, SlotContents, Room
<1>5. OccupiedSlots(t) = {}
  BY <1>1, <1>2 DEF OccupiedSlots, Occupied
<1>6. PairsOf(t) = {} /\ Cardinality(OccupiedSlots(t)) = 0
  BY <1>5, FS_EmptySet DEF PairsOf
<1>7. TableShape(t)
  BY <1>1, <1>4, <1>5 DEF TableShape
<1>8. ASSUME n >= 4 PROVE TableFit(t)
  BY <1>1, <1>4, <1>5, <1>6, <1>7, <1>8 DEF TableFit
<1> QED
  BY <1>1, <1>2, <1>4, <1>5, <1>6, <1>7, <1>8 DEF t

LEMMA InitStorageIs ==
  ASSUME NEW n \in Nat, NEW r \in hash_table_init_storage(n)
  PROVE  /\ r.ok \in BOOLEAN /\ r.gone = {} /\ r = [ok |-> r.ok, c |-> r.c, gone |-> r.gone]
         /\ r.ok => \E m \in Nat : m >= n /\ m <= MaxCapacity /\ r.c = Storage(m)
<1> DEFINE m == Grown(0, n)
<1>1. m \in Nat /\ m >= n
  BY GrownIsEnough
<1>2. \/ r = [ok |-> FALSE, c |-> Storage(0), gone |-> {}]
      \/ m <= MaxCapacity /\ r = [ok |-> TRUE, c |-> Storage(m), gone |-> {}]
  <2>1. r \in {[ok |-> FALSE, c |-> Storage(0), gone |-> {}]} \cup
          (IF m > MaxCapacity THEN {} ELSE {[ok |-> TRUE, c |-> Storage(m), gone |-> {}]})
    BY Zenon DEF hash_table_init_storage
  <2> HIDE DEF m
  <2> QED
    BY <1>1, <2>1, RawBufAssumption
<1> HIDE DEF m
<1>3. CASE r = [ok |-> FALSE, c |-> Storage(0), gone |-> {}]
  BY <1>3
<1>4. CASE m <= MaxCapacity /\ r = [ok |-> TRUE, c |-> Storage(m), gone |-> {}]
  <2>1. r.ok = TRUE /\ r.gone = {} /\ r.c = Storage(m)
    BY <1>4
  <2>2. r = [ok |-> r.ok, c |-> r.c, gone |-> r.gone]
    BY <1>4
  <2>3. \E k \in Nat : k >= n /\ k <= MaxCapacity /\ r.c = Storage(k)
    BY <1>1, <1>4, <2>1
  <2> QED
    BY <2>1, <2>2, <2>3
<1> QED
  BY <1>2, <1>3, <1>4
-------------------------------------------------------------------------------
(* The hash table: one slot after the other moved to another table *)

Upto(t, n) == {i \in OccupiedSlots(t) : i < n}

\* x has what lies in the first n slots of t.
HoldsUpto(x, t, n) ==
  /\ x.len = Cardinality(Upto(t, n))
  /\ PairsOf(x) = {t.slots[i] : i \in Upto(t, n)}

LEMMA UptoIs ==
  ASSUME NEW t, TableShape(t), NEW n \in 0..Room(t)
  PROVE  /\ IsFiniteSet(Upto(t, n)) /\ Cardinality(Upto(t, n)) \in Nat
         /\ Cardinality(Upto(t, n)) <= Cardinality(OccupiedSlots(t))
         /\ Cardinality(Upto(t, n)) = Cardinality(OccupiedSlots(t)) => Upto(t, n) = OccupiedSlots(t)
         /\ Upto(t, 0) = {} /\ Upto(t, Room(t)) = OccupiedSlots(t)
         /\ n \in OccupiedSlots(t) =>
              /\ Upto(t, n + 1) = Upto(t, n) \cup {n}
              /\ Cardinality(Upto(t, n + 1)) = Cardinality(Upto(t, n)) + 1
              /\ Cardinality(Upto(t, n)) + 1 <= Cardinality(OccupiedSlots(t))
         /\ n \notin OccupiedSlots(t) => Upto(t, n + 1) = Upto(t, n)
<1> DEFINE Occ == OccupiedSlots(t)
<1>1. Occ \subseteq 0..Room(t) - 1 /\ Room(t) \in Nat /\ IsFiniteSet(Occ) /\ Cardinality(Occ) \in Nat
  BY ShapeFacts
<1> HIDE DEF Occ
<1>2. Upto(t, n) \in SUBSET Occ /\ \A i \in Occ : i \in Upto(t, n) <=> i < n
  BY DEF Upto, Occ
<1>3. /\ IsFiniteSet(Upto(t, n)) /\ Cardinality(Upto(t, n)) \in Nat
      /\ Cardinality(Upto(t, n)) <= Cardinality(Occ)
      /\ Cardinality(Upto(t, n)) = Cardinality(Occ) => Upto(t, n) = Occ
  BY <1>1, <1>2, FS_Subset, FS_CardinalityType
<1>4. Upto(t, 0) = {} /\ Upto(t, Room(t)) = Occ
  BY <1>1 DEF Upto, Occ
<1>5. ASSUME n \in Occ
      PROVE  /\ Upto(t, n + 1) = Upto(t, n) \cup {n}
             /\ Cardinality(Upto(t, n + 1)) = Cardinality(Upto(t, n)) + 1
             /\ Cardinality(Upto(t, n)) + 1 <= Cardinality(Occ)
  <2>1. Upto(t, n + 1) = Upto(t, n) \cup {n} /\ n \notin Upto(t, n)
    BY <1>1, <1>5 DEF Upto, Occ
  <2>2. Cardinality(Upto(t, n + 1)) = Cardinality(Upto(t, n)) + 1
    BY <1>3, <2>1, FS_AddElement
  <2>3. Cardinality(Upto(t, n)) # Cardinality(Occ)
    BY <1>3, <1>5, <2>1
  <2> QED
    BY <1>1, <1>3, <2>1, <2>2, <2>3
<1>6. ASSUME n \notin Occ PROVE Upto(t, n + 1) = Upto(t, n)
  BY <1>1, <1>6 DEF Upto, Occ
<1> QED
  BY <1>3, <1>4, <1>5, <1>6 DEF Occ

LEMMA MovesNext ==
  ASSUME NEW t, TableFit(t), NEW x, TableFit(x), Room(x) >= Room(t),
         NEW n \in OccupiedSlots(t), HoldsUpto(x, t, n)
  PROVE  LET u == place_move(x, t.slots[n])
         IN  TableFit(u) /\ Room(u) = Room(x) /\ HoldsUpto(u, t, n + 1)
<1> DEFINE p == t.slots[n]
           u == place_move(x, p)
<1>1. /\ TableShape(t) /\ TableShape(x) /\ n \in 0..Room(t) /\ Room(t) \in Nat /\ Room(x) \in Nat
      /\ t.len = Cardinality(OccupiedSlots(t)) /\ t.len <= Room(t) - Room(t) \div 4
      /\ x.len = Cardinality(Upto(t, n))
  BY ShapeFacts DEF TableFit, HoldsUpto
<1>2. p \in Pair /\ KeyOf[p.value] = KeyOf[p.key] /\ KeyOf[p.key] = KeyAt(t, n)
  BY <1>1, ShapeFacts
<1>3. ~Has(x, KeyOf[p.key])
  <2>1. SUFFICES ASSUME NEW q \in PairsOf(x), KeyOf[q.key] = KeyOf[p.key] PROVE FALSE
    BY HasIs
  <2>2. PICK i \in Upto(t, n) : q = t.slots[i]
    BY DEF HoldsUpto
  <2>3. i \in OccupiedSlots(t) /\ i < n /\ KeyAt(t, i) = KeyAt(t, n)
    BY <1>2, <2>1, <2>2 DEF Upto, KeyAt
  <2>4. i = n
    BY <1>1, <2>3 DEF TableShape
  <2> QED
    BY <1>1, <2>3, <2>4
<1>4. /\ Upto(t, n + 1) = Upto(t, n) \cup {n}
      /\ Cardinality(Upto(t, n + 1)) = x.len + 1 /\ x.len + 1 <= t.len /\ x.len \in Nat /\ t.len \in Nat
  BY <1>1, UptoIs
<1>5. x.len + 1 <= Room(x) - Room(x) \div 4
  BY <1>1, <1>4
<1> HIDE DEF p
<1>6. TableFit(u) /\ Room(u) = Room(x) /\ u.len = x.len + 1 /\ PairsOf(u) = PairsOf(x) \cup {p}
  BY <1>2, <1>3, <1>5, PlaceFits
<1> HIDE DEF u
<1>7. HoldsUpto(u, t, n + 1)
  <2>1. u.len = Cardinality(Upto(t, n + 1))
    BY <1>4, <1>6
  <2>2. PairsOf(u) = {t.slots[i] : i \in Upto(t, n + 1)}
    BY <1>4, <1>6 DEF HoldsUpto, p
  <2> QED
    BY <2>1, <2>2 DEF HoldsUpto
<1> QED
  BY <1>6, <1>7 DEF u, p

\* One turn of the loop in hash_table_resize.
Moving(t, new, f, n) ==
  IF n = 0 THEN new
  ELSE IF Occupied(t, n - 1) THEN place_move(f[n - 1], t.slots[n - 1])
  ELSE f[n - 1]

LEMMA MovingIsDefined ==
  ASSUME NEW t, NEW new, NEW m \in Nat
  PROVE  \E f : f = [n \in 0..m |-> Moving(t, new, f, n)]
<1> DEFINE D(k) == \E f : f = [n \in 0..k |-> Moving(t, new, f, n)]
           S == {k \in Nat : ~D(k)}
<1>1. SUFFICES ASSUME S # {} PROVE FALSE
  OBVIOUS
<1>2. PICK k \in S : \A j \in S : k <= j
  <2>1. S \subseteq Nat
    OBVIOUS
  <2> HIDE DEF S
  <2> QED
    BY <1>1, <2>1, LeastNumber
<1>3. k \in Nat /\ ~D(k)
  BY <1>2
<1>4. CASE k = 0
  <2> DEFINE f == [n \in 0..0 |-> new]
  <2>1. f = [n \in 0..0 |-> Moving(t, new, f, n)]
    BY DEF Moving
  <2> QED
    BY <1>3, <1>4, <2>1
<1>5. CASE k > 0
  <2>1. D(k - 1)
    BY <1>2, <1>3, <1>5
  <2>2. PICK f : f = [n \in 0..k - 1 |-> Moving(t, new, f, n)]
    BY <2>1
  <2> DEFINE g == [n \in 0..k |-> IF n < k THEN f[n] ELSE Moving(t, new, f, k)]
  <2>3. ASSUME NEW n \in 0..k PROVE g[n] = Moving(t, new, g, n)
    <3>1. n # 0 => g[n - 1] = f[n - 1]
      BY <1>3
    <3>2. Moving(t, new, g, n) = Moving(t, new, f, n)
      <4> HIDE DEF g
      <4> QED
        BY <3>1 DEF Moving
    <3>3. n < k => f[n] = Moving(t, new, f, n)
      <4>1. n < k => n \in 0..k - 1
        BY <1>3
      <4> HIDE DEF g
      <4> QED
        BY <2>2, <4>1
    <3>4. g[n] = Moving(t, new, f, n)
      BY <3>3, <1>3
    <3> QED
      BY <3>2, <3>4
  <2>4. g = [n \in 0..k |-> g[n]]
    OBVIOUS
  <2> HIDE DEF g
  <2>5. g = [n \in 0..k |-> Moving(t, new, g, n)]
    BY <2>3, <2>4
  <2> QED
    BY <1>3, <2>5
<1> QED
  BY <1>3, <1>4, <1>5

\* A resize loses nothing and leaves a table as good.
LEMMA RehashedIs ==
  ASSUME NEW t, TableFit(t), NEW new, TableFit(new), PairsOf(new) = {}, new.len = 0,
         Room(new) >= Room(t)
  PROVE  LET u == Rehashed(t, new)
         IN  TableFit(u) /\ Room(u) = Room(new) /\ PairsOf(u) = PairsOf(t) /\ u.len = t.len
<1> DEFINE g == CHOOSE f : f = [n \in 0..Room(t) |-> Moving(t, new, f, n)]
<1>1. TableShape(t) /\ Room(t) \in Nat /\ t.len = Cardinality(OccupiedSlots(t))
  BY ShapeFacts DEF TableFit
<1>2. Rehashed(t, new) = g[Room(t)]
  BY Zenon DEF Rehashed, Moving
<1>3. g = [n \in 0..Room(t) |-> Moving(t, new, g, n)]
  BY <1>1, MovingIsDefined
<1> HIDE DEF g
<1>4. \A n \in 0..Room(t) : g[n] = Moving(t, new, g, n)
  BY <1>3
<1> DEFINE Right(n) == TableFit(g[n]) /\ Room(g[n]) = Room(new) /\ HoldsUpto(g[n], t, n)
           S == {n \in 0..Room(t) : ~Right(n)}
<1>5. ASSUME S # {} PROVE FALSE
  <2>1. PICK n \in S : \A j \in S : n <= j
    <3>1. S \subseteq Nat
      BY <1>1
    <3> HIDE DEF S
    <3> QED
      BY <1>5, <3>1, LeastNumber
  <2>2. n \in 0..Room(t) /\ ~Right(n)
    BY <2>1
  <2>3. CASE n = 0
    <3>1. g[0] = new
      BY <1>4, <2>2, <2>3 DEF Moving
    <3>2. Upto(t, 0) = {}
      BY <1>1, UptoIs
    <3>3. Right(0)
      BY <3>1, <3>2, FS_EmptySet DEF HoldsUpto
    <3> QED
      BY <2>2, <2>3, <3>3
  <2>4. CASE n > 0
    <3> DEFINE k == n - 1
    <3>1. k \in 0..Room(t) - 1 /\ k \in 0..Room(t) /\ k + 1 = n /\ n # 0 /\ n - 1 = k /\ k < n
      BY <1>1, <2>2, <2>4
    <3>2. g[n] = IF Occupied(t, k) THEN place_move(g[k], t.slots[k]) ELSE g[k]
      BY <1>4, <2>2, <3>1 DEF Moving
    <3> HIDE DEF k
    <3>3. Right(k)
      BY <1>1, <2>1, <3>1
    <3> HIDE DEF S
    <3>4. CASE k \in OccupiedSlots(t)
      <4>1. g[n] = place_move(g[k], t.slots[k])
        BY <3>2, <3>4 DEF OccupiedSlots
      <4>2. Right(n)
        BY <3>1, <3>3, <3>4, <4>1, MovesNext
      <4> QED
        BY <2>2, <4>2
    <3>5. CASE k \notin OccupiedSlots(t)
      <4>1. g[n] = g[k]
        BY <1>1, <3>1, <3>2, <3>5, ShapeFacts
      <4>2. Upto(t, n) = Upto(t, k)
        BY <1>1, <3>1, <3>5, UptoIs
      <4>3. Right(n)
        BY <3>3, <4>1, <4>2 DEF HoldsUpto
      <4> QED
        BY <2>2, <4>3
    <3> QED
      BY <3>4, <3>5
  <2> QED
    BY <1>1, <2>2, <2>3, <2>4
<1>6. Right(Room(t))
  BY <1>1, <1>5
<1>7. Upto(t, Room(t)) = OccupiedSlots(t)
  BY <1>1, UptoIs
<1> QED
  BY <1>1, <1>2, <1>6, <1>7 DEF HoldsUpto, PairsOf

-------------------------------------------------------------------------------
(* The hash table: what it owns *)

\* One key in one pair, whose value was given for that key.
Distinct(P) ==
  /\ P \subseteq Pair
  /\ \A p \in P : KeyOf[p.value] = KeyOf[p.key]
  /\ \A p, q \in P : KeyOf[p.key] = KeyOf[q.key] => p = q

LEMMA PairsAre ==
  ASSUME NEW t, TableShape(t)
  PROVE  Distinct(PairsOf(t))
<1>1. \A p \in PairsOf(t) : \E i \in OccupiedSlots(t) : p = t.slots[i]
  BY DEF PairsOf
<1>2. \A i \in OccupiedSlots(t) :
        t.slots[i] \in Pair /\ KeyOf[t.slots[i].value] = KeyOf[t.slots[i].key]
  BY ShapeFacts
<1>3. \A i, j \in OccupiedSlots(t) : KeyOf[t.slots[i].key] = KeyOf[t.slots[j].key] => i = j
  BY DEF TableShape, KeyAt
<1> QED
  BY <1>1, <1>2, <1>3 DEF Distinct

KeyObject(e) == <<"key", e>>
ValueObject(e) == <<"value", e>>

LEMMA ObjectsApart ==
  \A y, z : /\ KeyObject(y) # ValueObject(z)
            /\ KeyObject(y) = KeyObject(z) <=> y = z
            /\ ValueObject(y) = ValueObject(z) <=> y = z
BY DEF KeyObject, ValueObject

\* The objects of these pairs, in a table or in a set.
Goods(k, P) ==
  {KeyObject(p.key) : p \in P} \cup
  (IF k = "set" THEN {} ELSE {ValueObject(p.value) : p \in P})

LEMMA OwnedIs ==
  ASSUME kind \in Tables, NEW p
  PROVE  Owned(SlotObjects(p)) = Goods(kind, {p})
<1> DEFINE a == KeyObject(p.key)
           b == ValueObject(p.value)
<1>1. a[1] = "key" /\ b[1] = "value" /\ SlotObjects(p) = {a, b}
  BY DEF SlotObjects, KeyObject, ValueObject
<1>2. Goods(kind, {p}) = {a} \cup (IF kind = "set" THEN {} ELSE {b})
  BY DEF Goods
<1> HIDE DEF a, b
<1>3. CASE kind = "set"
  BY <1>1, <1>2, <1>3 DEF Owned
<1>4. CASE kind # "set"
  BY <1>1, <1>2, <1>4 DEF Owned
<1> QED
  BY <1>3, <1>4

LEMMA TableIsSome ==
  ASSUME NEW t, TableShape(t)
  PROVE  t # NoCopy
<1> DEFINE Buffers(S) == UNION {[0..n - 1 -> S] : n \in 0..MaxCapacity}
<1>1. NoCopy \notin [slots : Buffers(SlotContents), len : Nat]
  BY NoCopyAssumption DEF SlotContents, Pair
<1>2. t.slots \in Buffers(SlotContents)
  BY BufferIsSome DEF TableShape
<1> HIDE DEF Buffers
<1>3. t \in [slots : Buffers(SlotContents), len : Nat]
  BY <1>2 DEF TableShape
<1> QED
  BY <1>1, <1>3

LEMMA ObjectsAre ==
  ASSUME kind \in Tables, NEW t, TableShape(t)
  PROVE  Objects(t) = Goods(kind, PairsOf(t))
<1>1. Objects(t) = UNION {Owned(SlotObjects(t.slots[i])) : i \in OccupiedSlots(t)}
  BY TableIsSome DEF Objects
<1>2. Objects(t) = UNION {Goods(kind, {t.slots[i]}) : i \in OccupiedSlots(t)}
  BY <1>1, OwnedIs
<1>3. ASSUME NEW P PROVE Goods(kind, P) = UNION {Goods(kind, {p}) : p \in P}
  <2>1. \A p : Goods(kind, {p}) =
               {KeyObject(p.key)} \cup (IF kind = "set" THEN {} ELSE {ValueObject(p.value)})
    BY DEF Goods
  <2> QED
    BY <2>1 DEF Goods
<1>4. Goods(kind, PairsOf(t)) = UNION {Goods(kind, {p}) : p \in PairsOf(t)}
  BY <1>3
<1>5. {Goods(kind, {p}) : p \in PairsOf(t)} = {Goods(kind, {t.slots[i]}) : i \in OccupiedSlots(t)}
  BY DEF PairsOf
<1> QED
  BY <1>2, <1>4, <1>5

LEMMA GoodsOfMore ==
  ASSUME NEW k, NEW P, NEW p
  PROVE  Goods(k, P \cup {p}) = Goods(k, P) \cup Goods(k, {p})
BY DEF Goods

\* Who is in the goods.
LEMMA GoodsHave ==
  ASSUME NEW k, NEW P, NEW x
  PROVE  /\ KeyObject(x) \in Goods(k, P) <=> \E p \in P : p.key = x
         /\ ValueObject(x) \in Goods(k, P) <=> k # "set" /\ \E p \in P : p.value = x
         /\ \A o \in Goods(k, P) : \E y : o = KeyObject(y) \/ o = ValueObject(y)
<1>1. KeyObject(x) \in Goods(k, P) <=> \E p \in P : p.key = x
  BY ObjectsApart DEF Goods
<1>2. ValueObject(x) \in Goods(k, P) <=> k # "set" /\ \E p \in P : p.value = x
  BY ObjectsApart DEF Goods
<1>3. \A o \in Goods(k, P) : \E y : o = KeyObject(y) \/ o = ValueObject(y)
  BY DEF Goods
<1> QED
  BY <1>1, <1>2, <1>3

LEMMA GoodsOfLess ==
  ASSUME NEW k, NEW P, Distinct(P), NEW p \in P
  PROVE  Goods(k, P \ {p}) = Goods(k, P) \ {KeyObject(p.key), ValueObject(p.value)}
<1> DEFINE Q == P \ {p}
           gone == {KeyObject(p.key), ValueObject(p.value)}
<1>1. \A y : KeyObject(y) \in gone <=> y = p.key
  BY ObjectsApart
<1>2. \A y : ValueObject(y) \in gone <=> y = p.value
  BY ObjectsApart
<1>3. \A q \in P : (q.key = p.key \/ q.value = p.value) => q = p
  BY DEF Distinct
<1> HIDE DEF gone
<1>4. \A y : KeyObject(y) \in Goods(k, Q) <=> KeyObject(y) \in Goods(k, P) \ gone
  BY <1>1, <1>3, GoodsHave
<1>5. \A y : ValueObject(y) \in Goods(k, Q) <=> ValueObject(y) \in Goods(k, P) \ gone
  BY <1>2, <1>3, GoodsHave
<1>6. \A o \in Goods(k, Q) \cup Goods(k, P) : \E y : o = KeyObject(y) \/ o = ValueObject(y)
  BY GoodsHave
<1> HIDE DEF Q
<1>7. Goods(k, Q) = Goods(k, P) \ gone
  BY <1>4, <1>5, <1>6, Zenon
<1> QED
  BY <1>7 DEF gone, Q

\* The new value is owned for the old, and the caller's key object is gone.
LEMMA GoodsOfReplaced ==
  ASSUME NEW k, NEW P, Distinct(P), NEW p \in P, NEW e,
         NEW w, w.key = e, w.value = e, Goods(k, {w}) \cap Goods(k, P) = {},
         NEW n, n.key = p.key, n.value = e
  PROVE  Goods(k, (P \ {p}) \cup {n})
           = (Goods(k, P) \cup Goods(k, {w})) \ {KeyObject(e), ValueObject(p.value)}
<1> DEFINE Q == (P \ {p}) \cup {n}
           gone == {KeyObject(e), ValueObject(p.value)}
           A == Goods(k, Q)
           B == (Goods(k, P) \cup Goods(k, {w})) \ gone
<1>1. \A y : /\ KeyObject(y) \in gone <=> y = e
             /\ ValueObject(y) \in gone <=> y = p.value
  BY ObjectsApart
<1>2. \A q \in P : (q.key = p.key \/ q.value = p.value) => q = p
  BY DEF Distinct
<1>3. n.key = p.key /\ n.value = e /\ w.key = e /\ w.value = e
  OBVIOUS
<1>4. KeyObject(e) \in Goods(k, {w}) /\ (k # "set" => ValueObject(e) \in Goods(k, {w}))
  BY <1>3, GoodsHave
<1>5. (\A q \in P : q.key # e) /\ (k # "set" => \A q \in P : q.value # e)
  BY <1>4, GoodsHave
<1> HIDE DEF gone
<1>6. ASSUME NEW y PROVE KeyObject(y) \in A <=> KeyObject(y) \in B
  <2>1. KeyObject(y) \in A <=> \E q \in Q : q.key = y
    BY GoodsHave
  <2>2. KeyObject(y) \in B <=> ((\E q \in P : q.key = y) \/ y = e) /\ y # e
    BY <1>1, <1>3, GoodsHave
  <2>3. (\E q \in Q : q.key = y) <=> \E q \in P : q.key = y
    BY <1>3
  <2> QED
    BY <1>5, <2>1, <2>2, <2>3
<1>7. ASSUME NEW y PROVE ValueObject(y) \in A <=> ValueObject(y) \in B
  <2>1. ValueObject(y) \in A <=> k # "set" /\ \E q \in Q : q.value = y
    BY GoodsHave
  <2>2. ValueObject(y) \in B <=> k # "set" /\ ((\E q \in P : q.value = y) \/ y = e) /\ y # p.value
    BY <1>1, <1>3, GoodsHave
  <2>3. (\E q \in Q : q.value = y) <=> (\E q \in P : q # p /\ q.value = y) \/ y = e
    BY <1>3
  <2>4. k # "set" => p.value # e
    BY <1>5
  <2>5. (\E q \in P : q # p /\ q.value = y) <=> (\E q \in P : q.value = y) /\ y # p.value
    BY <1>2
  <2> QED
    BY <2>1, <2>2, <2>3, <2>4, <2>5
<1>8. \A o \in A \cup B : \E y : o = KeyObject(y) \/ o = ValueObject(y)
  BY GoodsHave
<1> HIDE DEF A, B
<1>9. A = B
  <2>1. ASSUME NEW o \in A \cup B PROVE o \in A <=> o \in B
    <3>1. PICK y : o = KeyObject(y) \/ o = ValueObject(y)
      BY <1>8
    <3> QED
      BY <1>6, <1>7, <3>1
  <2> QED
    BY <2>1
<1> QED
  BY <1>9 DEF A, B, Q, gone

LEMMA OneForEach ==
  ASSUME NEW S, IsFiniteSet(S), NEW f, NEW T, f = [i \in S |-> f[i]],
         T = {f[i] : i \in S}, \A i, j \in S : f[i] = f[j] => i = j
  PROVE  IsFiniteSet(T) /\ Cardinality(T) = Cardinality(S)
<1>1. f \in [S -> T] /\ \A x \in T : \E i \in S : f[i] = x
  OBVIOUS
<1>2. f \in Bijection(S, T)
  BY <1>1 DEF Bijection, Injection, Surjection, IsInjective
<1>3. ExistsBijection(S, T)
  BY <1>2 DEF ExistsBijection
<1> QED
  BY <1>3, FS_Bijection

LEMMA GoodsCount ==
  ASSUME NEW k \in Tables, NEW t, TableShape(t)
  PROVE  Cardinality(Goods(k, PairsOf(t)))
           = IF k = "set" THEN Cardinality(OccupiedSlots(t)) ELSE 2 * Cardinality(OccupiedSlots(t))
<1> DEFINE O == OccupiedSlots(t)
           f == [i \in O |-> KeyObject(t.slots[i].key)]
           g == [i \in O |-> ValueObject(t.slots[i].value)]
           F == {f[i] : i \in O}
           G == {g[i] : i \in O}
<1>1. IsFiniteSet(O) /\ Cardinality(O) \in Nat
  BY ShapeFacts
<1>2. \A i, j \in O : t.slots[i].key = t.slots[j].key \/ t.slots[i].value = t.slots[j].value => i = j
  <2>1. \A i, j \in O : t.slots[i].key = t.slots[j].key \/ t.slots[i].value = t.slots[j].value
                          => KeyAt(t, i) = KeyAt(t, j)
    BY ShapeFacts
  <2> QED
    BY <2>1 DEF TableShape
<1>3. IsFiniteSet(F) /\ Cardinality(F) = Cardinality(O)
  <2>1. f = [i \in O |-> f[i]] /\ \A i, j \in O : f[i] = f[j] => i = j
    BY <1>2, ObjectsApart
  <2> HIDE DEF f, O
  <2> QED
    BY <1>1, <2>1, OneForEach
<1>4. IsFiniteSet(G) /\ Cardinality(G) = Cardinality(O)
  <2>1. g = [i \in O |-> g[i]] /\ \A i, j \in O : g[i] = g[j] => i = j
    BY <1>2, ObjectsApart
  <2> HIDE DEF g, O
  <2> QED
    BY <1>1, <2>1, OneForEach
<1>5. F \cap G = {}
  BY ObjectsApart
<1>6. Cardinality(F \cup G) = 2 * Cardinality(O)
  <2> HIDE DEF F, G, O
  <2>1. Cardinality(F \cup G) = Cardinality(F) + Cardinality(G) - Cardinality(F \cap G)
    BY <1>3, <1>4, FS_Union
  <2> QED
    BY <1>1, <1>3, <1>4, <1>5, <2>1, FS_EmptySet
<1>7. F = {KeyObject(p.key) : p \in PairsOf(t)} /\ G = {ValueObject(p.value) : p \in PairsOf(t)}
  BY DEF PairsOf
<1>8. Goods(k, PairsOf(t)) = F \cup (IF k = "set" THEN {} ELSE G)
  BY <1>7 DEF Goods
<1> HIDE DEF F, G, O
<1> QED
  BY <1>3, <1>6, <1>8 DEF O
-------------------------------------------------------------------------------
(* The hash table: the map that it is *)

\* M is the map of the pairs in P.
IsMapOf(M, P) ==
  /\ M = [k \in DOMAIN M |-> M[k]]
  /\ DOMAIN M = {KeyOf[p.key] : p \in P}
  /\ \A p \in P : M[KeyOf[p.key]] = p.value

LEMMA SameMap ==
  ASSUME NEW P, NEW M, IsMapOf(M, P), NEW N, IsMapOf(N, P)
  PROVE  M = N
<1>1. DOMAIN M = DOMAIN N /\ \A k \in DOMAIN M : M[k] = N[k]
  BY DEF IsMapOf
<1> QED
  BY <1>1 DEF IsMapOf

LEMMA MapOfIs ==
  ASSUME NEW t, TableShape(t)
  PROVE  IsMapOf(MapOf(t), PairsOf(t))
<1> DEFINE At1(k) == {i \in OccupiedSlots(t) : KeyOf[t.slots[i].key] = k}
           keys == {KeyOf[t.slots[i].key] : i \in OccupiedSlots(t)}
           M == [k \in keys |-> t.slots[Least(At1(k))].value]
<1>1. MapOf(t) = M
  BY DEF MapOf
<1>2. ASSUME NEW i \in OccupiedSlots(t) PROVE M[KeyOf[t.slots[i].key]] = t.slots[i].value
  <2> DEFINE k == KeyOf[t.slots[i].key]
  <2>1. At1(k) = {i} /\ i \in Nat
    BY ShapeFacts DEF TableShape, KeyAt
  <2>2. Least({i}) = i
    BY <2>1, LeastIs
  <2>3. k \in keys
    OBVIOUS
  <2>4. M[k] = t.slots[Least(At1(k))].value
    BY <2>3
  <2> HIDE DEF M, At1, k
  <2>5. M[k] = t.slots[i].value
    BY <2>1, <2>2, <2>4
  <2> QED
    BY <2>5 DEF k
<1>3. keys = {KeyOf[p.key] : p \in PairsOf(t)}
  BY DEF PairsOf
<1>4. M = [k \in DOMAIN M |-> M[k]] /\ DOMAIN M = keys
  OBVIOUS
<1> HIDE DEF M, keys
<1>5. \A p \in PairsOf(t) : M[KeyOf[p.key]] = p.value
  BY <1>2 DEF PairsOf
<1> QED
  BY <1>1, <1>3, <1>4, <1>5 DEF IsMapOf

LEMMA EmptyMapIs ==
  ASSUME NEW M, IsMapOf(M, {})
  PROVE  M = [k \in {} |-> 0] /\ DOMAIN M = {}
BY DEF IsMapOf

LEMMA MapIsSome ==
  ASSUME NEW P, Distinct(P), NEW M, IsMapOf(M, P)
  PROVE  M # NoCopy
<1>1. DOMAIN M \in SUBSET DOMAIN Hash
  BY PairIs DEF IsMapOf, Distinct
<1>2. \A k \in DOMAIN M : M[k] \in Elements
  BY PairIs DEF IsMapOf, Distinct
<1>3. M \in [DOMAIN M -> Elements]
  BY <1>2 DEF IsMapOf
<1>4. NoCopy \notin [DOMAIN M -> Elements]
  BY <1>1, NoCopyAssumption
<1> QED
  BY <1>3, <1>4

Others(P, k) == {p \in P : KeyOf[p.key] # k}

\* The map with one key more or with a new value, and with one key less.
MapWith(M, k, v) == [j \in DOMAIN M \cup {k} |-> IF j = k THEN v ELSE M[j]]
MapWithout(M, k) == [j \in DOMAIN M \ {k} |-> M[j]]

\* A pair without its like is added, or takes the place of its like.
LEMMA MapPut ==
  ASSUME NEW P, NEW M, IsMapOf(M, P), NEW n,
         NEW N, IsMapOf(N, Others(P, KeyOf[n.key]) \cup {n})
  PROVE  N = MapWith(M, KeyOf[n.key], n.value)
<1> DEFINE k == KeyOf[n.key]
           Q == Others(P, k)
           R == [j \in DOMAIN M \cup {k} |-> IF j = k THEN n.value ELSE M[j]]
<1>0. Q \subseteq P /\ \A p \in P : p \in Q <=> KeyOf[p.key] # k
  BY DEF Others
<1> HIDE DEF Q
<1>1. DOMAIN R = {KeyOf[p.key] : p \in Q \cup {n}}
  BY <1>0 DEF IsMapOf
<1>2. ASSUME NEW p \in Q \cup {n} PROVE R[KeyOf[p.key]] = p.value
  <2>1. KeyOf[p.key] \in DOMAIN R
    BY <1>1
  <2>2. CASE p = n
    BY <2>1, <2>2
  <2>3. CASE p # n
    <3>1. p \in Q /\ p \in P /\ KeyOf[p.key] # k
      BY <1>0, <2>3
    <3>2. R[KeyOf[p.key]] = M[KeyOf[p.key]]
      BY <2>1, <3>1
    <3> QED
      BY <3>1, <3>2 DEF IsMapOf
  <2> QED
    BY <2>2, <2>3
<1>3. R = [j \in DOMAIN R |-> R[j]]
  OBVIOUS
<1> HIDE DEF R
<1>4. IsMapOf(R, Q \cup {n})
  BY <1>1, <1>2, <1>3 DEF IsMapOf
<1>5. N = R
  BY <1>4, SameMap DEF Q
<1> QED
  BY <1>5 DEF R, MapWith

LEMMA MapCut ==
  ASSUME NEW P, Distinct(P), NEW M, IsMapOf(M, P), NEW p \in P, NEW N, IsMapOf(N, P \ {p})
  PROVE  KeyOf[p.key] \in DOMAIN M /\ N = MapWithout(M, KeyOf[p.key])
<1> DEFINE k == KeyOf[p.key]
           R == [j \in DOMAIN M \ {k} |-> M[j]]
<1>1. DOMAIN R = {KeyOf[q.key] : q \in P \ {p}}
  BY DEF IsMapOf, Distinct
<1>2. \A q \in P \ {p} : R[KeyOf[q.key]] = q.value
  BY <1>1 DEF IsMapOf
<1>3. R = [j \in DOMAIN R |-> R[j]]
  OBVIOUS
<1> HIDE DEF R
<1>4. IsMapOf(R, P \ {p})
  BY <1>1, <1>2, <1>3 DEF IsMapOf
<1>5. N = R
  BY <1>4, SameMap
<1>6. k \in DOMAIN M
  BY DEF IsMapOf
<1> QED
  BY <1>5, <1>6 DEF R, MapWithout

-------------------------------------------------------------------------------
(* The hash table: its operations *)

LEMMA EmptiedIs ==
  ASSUME NEW t, TableShape(t), NEW i, i \in OccupiedSlots(t), NEW n \in Nat,
         NEW x \in {EmptySlot, DeletedSlot}
  PROVE  LET u == Changed(t, i, x, n)
         IN  /\ TableShape(u) /\ Room(u) = Room(t) /\ u.len = n
             /\ OccupiedSlots(u) = OccupiedSlots(t) \ {i}
             /\ PairsOf(u) = PairsOf(t) \ {t.slots[i]} /\ t.slots[i] \in PairsOf(t)
             /\ \A j \in OccupiedSlots(u) : u.slots[j] = t.slots[j]
             /\ x # EmptySlot => \A k \in DOMAIN Hash : \A j : Reached(t, k, j) => Reached(u, k, j)
<1> DEFINE u == Changed(t, i, x, n)
<1>1. x \notin Pair /\ x \in SlotContents /\ Fits(t, i, x) /\ i \in 0..Room(t) - 1
      /\ OccupiedSlots(t) \subseteq 0..Room(t) - 1
  BY PairIs, ShapeFacts DEF SlotContents, Fits
<1>2. IsChanged(u, t, i, x, n)
  BY <1>1, SlotChanges
<1> HIDE DEF u
<1>3. /\ TableShape(u) /\ Room(u) = Room(t) /\ u.len = n
      /\ OccupiedSlots(u) = OccupiedSlots(t) \ {i}
      /\ \A j \in 0..Room(t) - 1 : u.slots[j] = IF j = i THEN x ELSE t.slots[j]
      /\ x # EmptySlot => \A k \in DOMAIN Hash : \A j : Reached(t, k, j) => Reached(u, k, j)
  BY <1>1, <1>2 DEF IsChanged
<1>4. \A j \in OccupiedSlots(u) : u.slots[j] = t.slots[j]
  BY <1>1, <1>3
<1>5. PairsOf(u) = PairsOf(t) \ {t.slots[i]} /\ t.slots[i] \in PairsOf(t)
  <2>1. \A j \in OccupiedSlots(t) : t.slots[j] = t.slots[i] => j = i
    BY DEF TableShape, KeyAt
  <2> QED
    BY <1>3, <1>4, <2>1 DEF PairsOf
<1> QED
  BY <1>3, <1>4, <1>5 DEF u

\* A tombstone keeps the probes that went past.
LEMMA VacantFits ==
  ASSUME NEW t, TableFit(t), NEW i, i \in OccupiedSlots(t)
  PROVE  LET u == Vacant(t, i)
         IN  TableFit(u) /\ PairsOf(u) = PairsOf(t) \ {t.slots[i]} /\ t.slots[i] \in PairsOf(t)
<1> DEFINE n == t.len - 1
           u == Vacant(t, i)
<1>1. /\ TableShape(t) /\ Cardinality(OccupiedSlots(t)) \in Nat /\ IsFiniteSet(OccupiedSlots(t))
      /\ t.len = Cardinality(OccupiedSlots(t)) /\ Room(t) \in Nat
      /\ t.len <= Room(t) - Room(t) \div 4 /\ Room(t) >= 4
  BY ShapeFacts DEF TableFit
<1>2. Cardinality(OccupiedSlots(t) \ {i}) = t.len - 1 /\ n \in Nat
  <2>1. IsFiniteSet(OccupiedSlots(t) \ {i}) /\ Cardinality(OccupiedSlots(t) \ {i}) = t.len - 1
    BY <1>1, FS_RemoveElement
  <2> QED
    BY <2>1, FS_CardinalityType
<1>3. u = Changed(t, i, DeletedSlot, n)
  BY DEF Vacant, Changed
<1> HIDE DEF n, u
<1>4. /\ TableShape(u) /\ Room(u) = Room(t) /\ u.len = n
      /\ OccupiedSlots(u) = OccupiedSlots(t) \ {i}
      /\ PairsOf(u) = PairsOf(t) \ {t.slots[i]} /\ t.slots[i] \in PairsOf(t)
      /\ \A j \in OccupiedSlots(u) : u.slots[j] = t.slots[j]
      /\ \A k \in DOMAIN Hash : \A j : Reached(t, k, j) => Reached(u, k, j)
  <2>1. DeletedSlot \in {EmptySlot, DeletedSlot} /\ DeletedSlot # EmptySlot
    BY HashAssumption
  <2>2. LET v == Changed(t, i, DeletedSlot, n)
        IN  /\ TableShape(v) /\ Room(v) = Room(t) /\ v.len = n
            /\ OccupiedSlots(v) = OccupiedSlots(t) \ {i}
            /\ PairsOf(v) = PairsOf(t) \ {t.slots[i]} /\ t.slots[i] \in PairsOf(t)
            /\ \A j \in OccupiedSlots(v) : v.slots[j] = t.slots[j]
            /\ DeletedSlot # EmptySlot =>
                 \A k \in DOMAIN Hash : \A j : Reached(t, k, j) => Reached(v, k, j)
    BY <1>1, <1>2, <2>1, EmptiedIs
  <2> QED
    BY <1>3, <2>1, <2>2
<1>5. \A j \in OccupiedSlots(u) : Reached(u, KeyAt(u, j), j)
  <2>1. ASSUME NEW j \in OccupiedSlots(u) PROVE Reached(u, KeyAt(u, j), j)
    <3>1. j \in OccupiedSlots(t) /\ KeyAt(u, j) = KeyAt(t, j) /\ KeyAt(t, j) \in DOMAIN Hash
      BY <1>1, <1>4, ShapeFacts DEF KeyAt
    <3> QED
      BY <1>4, <3>1 DEF TableFit
  <2> QED
    BY <2>1
<1>6. u.len = Cardinality(OccupiedSlots(u)) /\ u.len <= Room(u) - Room(u) \div 4
  BY <1>1, <1>2, <1>4 DEF n
<1>7. TableFit(u)
  BY <1>1, <1>4, <1>5, <1>6 DEF TableFit
<1> QED
  BY <1>4, <1>7 DEF u

\* r gave e for the value of the pair p.
IsReplaced(r, t, p, e) ==
  /\ r.ok = TRUE /\ r.gone = {KeyObject(e), ValueObject(p.value)}
  /\ p \in PairsOf(t) /\ TableFit(r.c)
  /\ PairsOf(r.c) = (PairsOf(t) \ {p}) \cup {[key |-> p.key, value |-> e]}

\* A key that is there keeps its slot and gets another value.
LEMMA ReplacedFits ==
  ASSUME NEW t, TableFit(t), NEW i, i \in OccupiedSlots(t), NEW e \in Elements,
         KeyAt(t, i) = KeyOf[e]
  PROVE  IsReplaced(Replaced(t, i, e), t, t.slots[i], e)
<1> DEFINE p == t.slots[i]
           x == [key |-> p.key, value |-> e]
           r == Replaced(t, i, e)
           u == r.c
<1>1. TableShape(t) /\ i \in 0..Room(t) - 1 /\ OccupiedSlots(t) \subseteq 0..Room(t) - 1
      /\ DOMAIN t.slots = 0..Room(t) - 1 /\ p \in Pair /\ KeyAt(t, i) = KeyOf[p.key]
      /\ t.len \in Nat
  BY ShapeFacts DEF TableFit, TableShape
<1>2. p = [key |-> p.key, value |-> p.value] /\ x \in Pair /\ x.key = p.key /\ x.value = e
  BY <1>1, PairIs DEF Pair
<1>3. x \in SlotContents /\ Fits(t, i, x) /\ x # EmptySlot
  BY <1>1, <1>2, PairIs DEF SlotContents, Fits, TableShape
<1>4. [p EXCEPT !.value = e] = x
  BY <1>2
<1>5. u = Changed(t, i, x, t.len)
  <2>1. u = [t EXCEPT !.slots = [t.slots EXCEPT ![i] = [t.slots[i] EXCEPT !.value = e]]]
    BY DEF Replaced
  <2>2. t = [slots |-> t.slots, len |-> t.len]
    BY <1>1 DEF TableShape
  <2> HIDE DEF u, x
  <2>3. u = [t EXCEPT !.slots = [t.slots EXCEPT ![i] = x]]
    BY <1>4, <2>1
  <2> QED
    BY <2>2, <2>3 DEF Changed
<1>6. r.ok = TRUE /\ r.gone = {KeyObject(e), ValueObject(p.value)}
  BY DEF Replaced, KeyObject, ValueObject
<1> HIDE DEF x, r
<1> HIDE DEF u
<1>7. IsChanged(u, t, i, x, t.len)
  BY <1>1, <1>3, <1>5, SlotChanges
<1>8. /\ TableShape(u) /\ Room(u) = Room(t) /\ u.len = t.len
      /\ \A j \in 0..Room(t) - 1 : u.slots[j] = IF j = i THEN x ELSE t.slots[j]
      /\ OccupiedSlots(u) = OccupiedSlots(t)
      /\ \A k \in DOMAIN Hash : \A j : Reached(t, k, j) => Reached(u, k, j)
  BY <1>2, <1>3, <1>7 DEF IsChanged
<1>9. u.slots[i] = x /\ \A j \in OccupiedSlots(t) : j # i => u.slots[j] = t.slots[j]
  BY <1>1, <1>8
<1>10. PairsOf(u) = (PairsOf(t) \ {p}) \cup {x} /\ p \in PairsOf(t)
  <2>1. \A j \in OccupiedSlots(t) : t.slots[j] = p => j = i
    BY <1>1 DEF TableShape, KeyAt
  <2> QED
    BY <1>8, <1>9, <2>1 DEF PairsOf
<1>11. \A j \in OccupiedSlots(u) : Reached(u, KeyAt(u, j), j)
  <2>1. ASSUME NEW j \in OccupiedSlots(u) PROVE Reached(u, KeyAt(u, j), j)
    <3>1. j \in OccupiedSlots(t) /\ KeyAt(u, j) = KeyAt(t, j) /\ KeyAt(t, j) \in DOMAIN Hash
      BY <1>1, <1>2, <1>8, <1>9, ShapeFacts DEF KeyAt
    <3> QED
      BY <1>8, <3>1 DEF TableFit
  <2> QED
    BY <2>1
<1>12. TableFit(u)
  BY <1>8, <1>11 DEF TableFit
<1>13. IsReplaced(r, t, p, e)
  BY <1>6, <1>10, <1>12 DEF u, x, IsReplaced
<1> QED
  BY <1>13 DEF r

Inserted(t, e, r) ==
  /\ r.ok = TRUE /\ TableFit(r.c)
  /\ \/ /\ ~Has(t, KeyOf[e]) /\ r.gone = {}
        /\ PairsOf(r.c) = PairsOf(t) \cup {Whole(e)}
     \/ \E p \in PairsOf(t) : KeyOf[p.key] = KeyOf[e] /\ IsReplaced(r, t, p, e)

Refused(t, r) == r.ok = FALSE /\ r.c = t /\ r.gone = {}

LEMMA WholeIs ==
  ASSUME NEW e \in Elements
  PROVE  Whole(e) \in Pair /\ Whole(e).key = e /\ Whole(e).value = e
BY DEF Whole, Pair

LEMMA ResizeIs ==
  ASSUME NEW t, TableFit(t), NEW r \in hash_table_resize(t, 2 * Room(t))
  PROVE  \/ Refused(t, r)
         \/ /\ r.ok = TRUE /\ r.gone = {} /\ TableFit(r.c) /\ PairsOf(r.c) = PairsOf(t)
            /\ Room(r.c) >= 2 * Room(t) /\ r.c.len = t.len
            /\ r = [ok |-> r.ok, c |-> r.c, gone |-> r.gone]
<1>1. Room(t) \in Nat /\ Room(t) >= 4 /\ 2 * Room(t) \in Nat
  BY ShapeFacts DEF TableFit
<1>2. PICK q \in hash_table_init_storage(2 * Room(t)) :
        r = [q EXCEPT !.c = IF q.ok THEN Rehashed(t, q.c) ELSE t]
  BY DEF hash_table_resize
<1>3. /\ q.ok \in BOOLEAN /\ q.gone = {} /\ q = [ok |-> q.ok, c |-> q.c, gone |-> q.gone]
      /\ q.ok => \E m \in Nat : m >= 2 * Room(t) /\ m <= MaxCapacity /\ q.c = Storage(m)
  BY <1>1, InitStorageIs
<1>4. r = [ok |-> q.ok, c |-> IF q.ok THEN Rehashed(t, q.c) ELSE t, gone |-> {}]
  BY <1>2, <1>3
<1>5. CASE ~q.ok
  <2>1. q.ok = FALSE
    BY <1>3, <1>5
  <2> QED
    BY <1>4, <2>1 DEF Refused
<1>6. CASE q.ok
  <2>1. PICK m \in Nat : m >= 2 * Room(t) /\ m <= MaxCapacity /\ q.c = Storage(m)
    BY <1>3, <1>6
  <2>2. TableFit(q.c) /\ Room(q.c) = m /\ PairsOf(q.c) = {} /\ q.c.len = 0
    BY <1>1, <2>1, StorageIs
  <2>3. Room(q.c) >= Room(t)
    BY <1>1, <2>1, <2>2
  <2>4. LET u == Rehashed(t, q.c)
        IN  TableFit(u) /\ Room(u) = m /\ PairsOf(u) = PairsOf(t) /\ u.len = t.len
    BY <2>2, <2>3, RehashedIs
  <2>5. q.ok = TRUE
    BY <1>3, <1>6
  <2>6. r = [ok |-> TRUE, c |-> Rehashed(t, q.c), gone |-> {}]
    BY <1>4, <2>5
  <2> QED
    BY <2>1, <2>4, <2>6
<1> QED
  BY <1>5, <1>6

LEMMA InsertIs ==
  ASSUME NEW t, TableFit(t), NEW e \in Elements, NEW r \in hash_table_insert(t, e)
  PROVE  Refused(t, r) \/ Inserted(t, e, r)
<1> DEFINE k == KeyOf[e]
           at == find_slot(t, k)
           same == [ok |-> TRUE, c |-> t, gone |-> {}]
<1>1. k \in DOMAIN Hash /\ TableShape(t) /\ Room(t) \in Nat /\ Room(t) >= 4 /\ t.len \in Nat
      /\ t.len <= Room(t) - Room(t) \div 4
  BY HashAssumption, ShapeFacts DEF TableFit, TableShape
<1>2. CASE Has(t, k)
  <2>1. PICK i \in OccupiedSlots(t) : KeyAt(t, i) = k
    BY <1>2 DEF Has
  <2>2. at.ok = TRUE /\ at.found = TRUE /\ at.index = i
    <3>1. at = [ok |-> TRUE, found |-> TRUE, index |-> i]
      BY <2>1, FindsKey
    <3> QED
      BY <3>1
  <2>3. r = Replaced(t, i, e)
    BY <2>2 DEF hash_table_insert
  <2> DEFINE p == t.slots[i]
  <2>4. IsReplaced(r, t, p, e) /\ KeyOf[p.key] = KeyOf[e]
    BY <2>1, <2>3, ReplacedFits DEF KeyAt
  <2> HIDE DEF p
  <2>5. p \in PairsOf(t) /\ r.ok = TRUE /\ TableFit(r.c)
    BY <2>4 DEF IsReplaced
  <2> QED
    BY <2>4, <2>5 DEF Inserted
<1>3. CASE ~Has(t, k)
  <2>1. at.ok = TRUE /\ at.found = FALSE
    BY <1>1, <1>3, FindsPlace
  <2>2. PICK q \in IF should_grow(t) THEN hash_table_resize(t, 2 * Room(t)) ELSE {same} :
          r = PutNew(q, e)
    BY <2>1 DEF hash_table_insert
  <2>3. \/ Refused(t, q)
        \/ /\ q.ok = TRUE /\ q.gone = {} /\ TableFit(q.c) /\ PairsOf(q.c) = PairsOf(t)
           /\ q.c.len + 1 <= Room(q.c) - Room(q.c) \div 4
           /\ q = [ok |-> q.ok, c |-> q.c, gone |-> q.gone]
    <3>1. CASE should_grow(t)
      <4>1. \/ Refused(t, q)
            \/ /\ q.ok = TRUE /\ q.gone = {} /\ TableFit(q.c) /\ PairsOf(q.c) = PairsOf(t)
               /\ Room(q.c) >= 2 * Room(t) /\ q.c.len = t.len
               /\ q = [ok |-> q.ok, c |-> q.c, gone |-> q.gone]
        BY <2>2, <3>1, ResizeIs
      <4>2. ASSUME TableFit(q.c), Room(q.c) >= 2 * Room(t), q.c.len = t.len
            PROVE  q.c.len + 1 <= Room(q.c) - Room(q.c) \div 4
        <5>1. Room(q.c) \in Nat
          BY <4>2, ShapeFacts DEF TableFit
        <5> QED
          BY <1>1, <4>2, <5>1
      <4> QED
        BY <4>1, <4>2
    <3>2. CASE ~should_grow(t)
      <4>1. t.len + 1 <= Room(t) - Room(t) \div 4
        BY <1>1, <3>2 DEF should_grow
      <4>2. q = same
        BY <2>2, <3>2
      <4> QED
        BY <4>1, <4>2
    <3> QED
      BY <3>1, <3>2
  <2>4. CASE Refused(t, q)
    <3>1. r = q
      BY <2>2, <2>4 DEF PutNew, Refused
    <3> QED
      BY <2>4, <3>1
  <2>5. CASE /\ q.ok = TRUE /\ q.gone = {} /\ TableFit(q.c) /\ PairsOf(q.c) = PairsOf(t)
             /\ q.c.len + 1 <= Room(q.c) - Room(q.c) \div 4
             /\ q = [ok |-> q.ok, c |-> q.c, gone |-> q.gone]
    <3> DEFINE u == place_move(q.c, Whole(e))
    <3>1. r = [q EXCEPT !.c = u]
      BY <2>2, <2>5 DEF PutNew
    <3> HIDE DEF u
    <3>2. r.ok = TRUE /\ r.gone = {} /\ r.c = u
      BY <2>5, <3>1
    <3>3. Whole(e) \in Pair /\ KeyOf[Whole(e).value] = KeyOf[Whole(e).key] /\ KeyOf[Whole(e).key] = k
      BY WholeIs
    <3>4. ~Has(q.c, KeyOf[Whole(e).key])
      BY <1>3, <2>5, <3>3, HasIs
    <3>5. TableFit(u) /\ PairsOf(u) = PairsOf(q.c) \cup {Whole(e)}
      BY <2>5, <3>3, <3>4, PlaceFits DEF u
    <3> QED
      BY <1>3, <2>5, <3>2, <3>5 DEF Inserted
  <2> QED
    BY <2>3, <2>4, <2>5
<1> QED
  BY <1>2, <1>3

\* r took the pair p out of t.
TakesOut(r, t, p) ==
  /\ p \in PairsOf(t) /\ PairsOf(r.c) = PairsOf(t) \ {p}
  /\ r.gone = {KeyObject(p.key), ValueObject(p.value)}

LEMMA RemoveIs ==
  ASSUME NEW t, TableFit(t), NEW k \in DOMAIN Hash, NEW r \in hash_table_remove(t, k)
  PROVE  \/ Refused(t, r)
         \/ r.ok = TRUE /\ TableFit(r.c) /\ \E p \in PairsOf(t) : TakesOut(r, t, p)
<1> DEFINE at == find_slot(t, k)
<1>1. CASE Has(t, k)
  <2>1. PICK i \in OccupiedSlots(t) : KeyAt(t, i) = k
    BY <1>1 DEF Has
  <2>2. at.ok = TRUE /\ at.found = TRUE /\ at.index = i
    <3>1. at = [ok |-> TRUE, found |-> TRUE, index |-> i]
      BY <2>1, FindsKey
    <3> QED
      BY <3>1
  <2>3. r = [ok |-> TRUE, c |-> Vacant(t, i), gone |-> SlotObjects(t.slots[i])]
    BY <2>2 DEF hash_table_remove
  <2> DEFINE u == Vacant(t, i)
             p == t.slots[i]
  <2>4. TableFit(u) /\ PairsOf(u) = PairsOf(t) \ {p} /\ p \in PairsOf(t)
    BY <2>1, VacantFits
  <2>5. r.ok = TRUE /\ r.c = u /\ r.gone = {KeyObject(p.key), ValueObject(p.value)}
    BY <2>3 DEF SlotObjects, KeyObject, ValueObject
  <2> HIDE DEF u, p
  <2>6. TakesOut(r, t, p)
    BY <2>4, <2>5 DEF TakesOut
  <2> QED
    BY <2>4, <2>5, <2>6
<1>2. CASE ~Has(t, k)
  <2>1. at.ok = TRUE /\ at.found = FALSE
    BY <1>2, FindsPlace
  <2>2. r = [ok |-> FALSE, c |-> t, gone |-> {}]
    BY <2>1 DEF hash_table_remove
  <2> QED
    BY <2>2 DEF Refused
<1> QED
  BY <1>1, <1>2

\* A turn of hash_table_clear empties one slot.
LEMMA TableTurnIs ==
  ASSUME kind \in Tables, NEW t, TableShape(t), ~Cleared(t), NEW r \in ClearTurn(t)
  PROVE  /\ TableShape(r.c) /\ Room(r.c) = Room(t)
         /\ \/ PairsOf(r.c) = PairsOf(t) /\ r.gone = {}
            \/ \E p \in PairsOf(t) : TakesOut(r, t, p)
<1> DEFINE S == {j \in DOMAIN t.slots : t.slots[j] # EmptySlot}
           i == Least(S)
           u == Changed(t, i, EmptySlot, t.len)
<1>1. /\ Room(t) \in Nat /\ DOMAIN t.slots = 0..Room(t) - 1 /\ t.len \in Nat
      /\ t = [slots |-> t.slots, len |-> t.len]
  BY ShapeFacts DEF TableShape
<1>2. kind # "vec" /\ kind \notin Deques /\ kind # "list"
  BY DEF Tables, Deques
<1>3. S # {}
  BY <1>2 DEF Cleared
<1>4. i \in S /\ i \in 0..Room(t) - 1
  <2>1. S \subseteq 0..Room(t) - 1 /\ S \subseteq Nat
    BY <1>1
  <2> HIDE DEF S
  <2>2. i \in S
    BY <1>3, <2>1, LeastIs
  <2> QED
    BY <2>1, <2>2
<1>5. r = [c |-> [t EXCEPT !.slots[i] = EmptySlot],
           gone |-> IF Occupied(t, i) THEN SlotObjects(t.slots[i]) ELSE {}]
  BY <1>2 DEF ClearTurn
<1>6. r.c = u /\ r.gone = IF Occupied(t, i) THEN SlotObjects(t.slots[i]) ELSE {}
  <2> HIDE DEF i
  <2>1. [t EXCEPT !.slots[i] = EmptySlot] = u
    <3>1. [t EXCEPT !.slots[i] = EmptySlot] = [t EXCEPT !.slots = [t.slots EXCEPT ![i] = EmptySlot]]
      OBVIOUS
    <3> QED
      BY <1>1, <3>1 DEF Changed
  <2> HIDE DEF u
  <2> QED
    BY <1>5, <2>1
<1> HIDE DEF i, S
<1>7. CASE Occupied(t, i)
  <2>1. i \in OccupiedSlots(t) /\ EmptySlot \in {EmptySlot, DeletedSlot}
    BY <1>1, <1>4, <1>7 DEF OccupiedSlots
  <2>2. /\ TableShape(u) /\ Room(u) = Room(t)
        /\ PairsOf(u) = PairsOf(t) \ {t.slots[i]} /\ t.slots[i] \in PairsOf(t)
    BY <1>1, <2>1, EmptiedIs
  <2> DEFINE p == t.slots[i]
  <2>3. r.gone = {KeyObject(p.key), ValueObject(p.value)}
    BY <1>6, <1>7 DEF SlotObjects, KeyObject, ValueObject
  <2> HIDE DEF u, p
  <2>4. TakesOut(r, t, p)
    BY <1>6, <2>2, <2>3 DEF TakesOut, p
  <2> QED
    BY <1>6, <2>2, <2>4 DEF p
<1>8. CASE ~Occupied(t, i)
  <2>1. i \notin OccupiedSlots(t) /\ EmptySlot \in SlotContents /\ EmptySlot \notin Pair
        /\ Fits(t, i, EmptySlot) /\ OccupiedSlots(t) \subseteq 0..Room(t) - 1
    BY <1>8, PairIs, ShapeFacts DEF OccupiedSlots, SlotContents, Fits
  <2>2. IsChanged(u, t, i, EmptySlot, t.len)
    BY <1>1, <1>4, <2>1, SlotChanges
  <2> HIDE DEF u
  <2>3. /\ TableShape(u) /\ Room(u) = Room(t) /\ OccupiedSlots(u) = OccupiedSlots(t)
        /\ \A j \in OccupiedSlots(t) : u.slots[j] = t.slots[j]
    BY <2>1, <2>2 DEF IsChanged
  <2>4. PairsOf(u) = PairsOf(t)
    BY <2>3 DEF PairsOf
  <2> QED
    BY <1>6, <1>8, <2>3, <2>4
<1> QED
  BY <1>7, <1>8

\* What hash_table_clear leaves.
LEMMA ClearedTableIs ==
  ASSUME kind \in Tables, NEW t, TableShape(t), Cleared(t)
  PROVE  LET u == [t EXCEPT !.len = 0]
         IN  /\ PairsOf(t) = {} /\ PairsOf(u) = {} /\ TableShape(u) /\ Room(u) = Room(t)
             /\ Room(t) >= 4 => TableFit(u)
<1> DEFINE u == [t EXCEPT !.len = 0]
<1>1. \A i \in DOMAIN t.slots : t.slots[i] = EmptySlot
  BY DEF Cleared, Tables, Deques
<1>2. t = [slots |-> t.slots, len |-> t.len]
  BY DEF TableShape
<1>3. u = [slots |-> t.slots, len |-> 0]
  BY <1>2
<1> HIDE DEF u
<1>4. u = [slots |-> u.slots, len |-> u.len] /\ u.slots = t.slots /\ u.len = 0
  BY <1>3
<1>5. OccupiedSlots(u) = {} /\ OccupiedSlots(t) = {}
  BY <1>1, <1>4 DEF OccupiedSlots, Occupied
<1>6. Room(u) = Room(t) /\ Room(t) \in Nat
  BY <1>4, ShapeFacts DEF Room
<1>7. TableShape(u)
  BY <1>4, <1>5 DEF TableShape
<1>8. ASSUME Room(t) >= 4 PROVE TableFit(u)
  BY <1>4, <1>5, <1>6, <1>7, <1>8, FS_EmptySet DEF TableFit
<1>9. PairsOf(t) = {} /\ PairsOf(u) = {}
  BY <1>5 DEF PairsOf
<1> QED
  BY <1>6, <1>7, <1>8, <1>9 DEF u

-------------------------------------------------------------------------------
(* The hash table: the turns of its clone *)

\* The slot the loop is at is the next occupied one: no more and no fewer lie
\* before it than were copied.
LEMMA NextIs ==
  ASSUME NEW t, TableFit(t), NEW x, NEW n \in 0..Room(t), HoldsUpto(x, t, n), x.len # t.len
  PROVE  LET j == Least({i \in OccupiedSlots(t) :
                           Cardinality({m \in OccupiedSlots(t) : m < i}) = x.len})
         IN  j \in OccupiedSlots(t) /\ HoldsUpto(x, t, j)
<1> DEFINE S == {i \in OccupiedSlots(t) : Cardinality({m \in OccupiedSlots(t) : m < i}) = x.len}
           After == {i \in OccupiedSlots(t) : i >= n}
           j == Least(After)
<1>1. /\ TableShape(t) /\ Room(t) \in Nat /\ t.len = Cardinality(OccupiedSlots(t))
      /\ OccupiedSlots(t) \subseteq 0..Room(t) - 1
  BY ShapeFacts DEF TableFit
<1>2. x.len = Cardinality(Upto(t, n)) /\ PairsOf(x) = {t.slots[i] : i \in Upto(t, n)}
  BY DEF HoldsUpto
<1>3. After # {}
  <2>1. SUFFICES ASSUME After = {} PROVE FALSE
    OBVIOUS
  <2>2. Upto(t, n) = OccupiedSlots(t)
    BY <1>1, <2>1 DEF Upto
  <2> QED
    BY <1>1, <1>2, <2>2
<1>4. j \in After /\ \A m \in After : j <= m
  BY <1>1, <1>3, LeastIs
<1> HIDE DEF j
<1>5. j \in OccupiedSlots(t) /\ j \in Nat /\ j >= n
  BY <1>1, <1>4
<1>6. Upto(t, j) = Upto(t, n)
  BY <1>1, <1>4, <1>5 DEF Upto
<1>7. HoldsUpto(x, t, j)
  BY <1>2, <1>6 DEF HoldsUpto
<1>8. j \in S
  BY <1>2, <1>5, <1>6 DEF Upto
<1>9. ASSUME NEW i \in S, i < n
      PROVE  FALSE
  <2>1. i \in OccupiedSlots(t) /\ i \in 0..Room(t) /\ Cardinality(Upto(t, i)) = x.len
    BY <1>1 DEF Upto
  <2>2. /\ Cardinality(Upto(t, i + 1)) = x.len + 1
        /\ IsFiniteSet(Upto(t, n)) /\ x.len \in Nat
    BY <1>1, <1>2, <2>1, UptoIs
  <2>3. Upto(t, i + 1) \subseteq Upto(t, n)
    BY <1>1, <1>9, <2>1 DEF Upto
  <2>4. Cardinality(Upto(t, i + 1)) <= Cardinality(Upto(t, n))
    BY <2>2, <2>3, FS_Subset
  <2> QED
    BY <1>2, <2>2, <2>4
<1>10. S \subseteq Nat
  BY <1>1
<1>11. Least(S) \in S /\ Least(S) <= j
  BY <1>8, <1>10, LeastIs
<1>12. Least(S) = j
  <2> DEFINE least == Least(S)
  <2>1. \A i \in S : ~(i < n)
    BY <1>9
  <2>2. least \in S /\ least <= j
    BY <1>11
  <2> HIDE DEF least
  <2>3. least \in OccupiedSlots(t) /\ least \in Nat /\ ~(least < n) /\ n \in Nat
    BY <1>1, <2>1, <2>2
  <2>4. least >= n
    BY <2>3
  <2>5. least = j
    BY <1>4, <1>5, <2>2, <2>3, <2>4
  <2> QED
    BY <2>5 DEF least
<1> QED
  BY <1>5, <1>7, <1>12
-------------------------------------------------------------------------------
(* The client of a table: the invariant *)

TableOwns(k, x, o) == TableShape(x) /\ o = Goods(k, PairsOf(x))

\* The table owns what is live; a drop may find one that has no slots.
TabInv ==
  /\ TableOwns(kind, c, live)
  /\ call.op = "zero" => PairsOf(c) = {}
  /\ call.op = "clear" => Room(c) >= 4
  /\ call.op \in {"none"} \cup Copying => TableFit(c)

\* The clone has what lies in the first slots, at last in all of them.
TabCopyInv ==
  IF call.op \in Copying
  THEN /\ TableOwns(kind, copy, copies)
       /\ call.op = "clone" =>
            /\ TableFit(copy) /\ Room(copy) >= Room(c)
            /\ \E n \in 0..Room(c) : HoldsUpto(copy, c, n)
       /\ call.op = "cloned" => TableFit(copy) /\ PairsOf(copy) = PairsOf(c)
  ELSE copy = NoCopy /\ copies = {}

TableInv == ContInv /\ (kind \in Tables => TabInv /\ TabCopyInv)

LEMMA TableKinds ==
  ASSUME kind \in Tables
  PROVE  kind # "vec" /\ kind # "list" /\ kind \notin Deques
BY DEF Tables, Deques

LEMMA NoGoods == ASSUME NEW k PROVE Goods(k, {}) = {}
BY DEF Goods

LEMMA StorageOwnsNothing ==
  ASSUME NEW k, NEW n \in Nat, n <= MaxCapacity
  PROVE  TableOwns(k, Storage(n), {}) /\ PairsOf(Storage(n)) = {}
BY StorageIs, NoGoods DEF TableOwns

LEMMA TableInitHolds == ContainersInit => TableInv
<1> SUFFICES ASSUME ContainersInit PROVE TableInv
  OBVIOUS
<1>1. ASSUME kind \in Tables PROVE TabInv /\ TabCopyInv
  <2>1. Zeroed = Storage(0)
    BY <1>1, TableKinds DEF Zeroed
  <2>2. /\ c = Storage(0) /\ call.op = "zero" /\ live = {}
        /\ copy = NoCopy /\ copies = {}
    BY <2>1, RunningIs DEF ContainersInit
  <2>3. TableOwns(kind, Storage(0), {}) /\ PairsOf(Storage(0)) = {}
    BY StorageOwnsNothing, RawBufAssumption
  <2> QED
    BY <2>2, <2>3 DEF TabInv, TabCopyInv, Copying
<1> QED
  BY <1>1, InitHolds DEF TableInv

-------------------------------------------------------------------------------
(* The client of a table: calls of one step *)

\* What a call may do to the pairs: nothing, take one out, put one in the place
\* of its like.
PairsChange(P, Q) ==
  \/ Q = P
  \/ \E p \in P : Q = P \ {p}
  \/ \E n \in Pair : KeyOf[n.value] = KeyOf[n.key] /\ Q = Others(P, KeyOf[n.key]) \cup {n}

TableCallDone ==
  /\ call = Idle /\ UNCHANGED <<kind, copy, copies, call>>
  /\ TableOwns(kind, c', live') /\ TableFit(c')
  /\ PairsChange(PairsOf(c), PairsOf(c'))

LEMMA IdleTable ==
  ASSUME TableInv, kind \in Tables, call = Idle
  PROVE  TableOwns(kind, c, live) /\ TableFit(c) /\ copy = NoCopy /\ copies = {}
BY IdleIs DEF TableInv, TabInv, TabCopyInv, Copying

LEMMA RefusedCall ==
  ASSUME TableInv, kind \in Tables, call = Idle, UNCHANGED <<kind, copy, copies, call>>,
         NEW r, Refused(c, r), c' = r.c, NEW made,
         live' = (IF r.ok THEN live \cup made ELSE live) \ r.gone
  PROVE  TableCallDone
<1>1. TableOwns(kind, c, live) /\ TableFit(c)
  BY IdleTable
<1>2. c' = c /\ live' = live
  BY DEF Refused
<1> QED
  BY <1>1, <1>2 DEF TableCallDone, PairsChange

LEMMA InsertDoes ==
  ASSUME TableInv, kind \in Tables, NEW e \in Fresh,
         Calls(hash_table_insert(c, e), ObjectsOf(e))
  PROVE  TableCallDone
<1> DEFINE made == ObjectsOf(e)
           P == PairsOf(c)
           w == Whole(e)
<1>1. call = Idle /\ UNCHANGED <<kind, copy, copies, call>>
  BY DEF Calls
<1>2. PICK r \in hash_table_insert(c, e) :
        c' = r.c /\ live' = (IF r.ok THEN live \cup made ELSE live) \ r.gone
  BY DEF Calls
<1>3. TableShape(c) /\ live = Goods(kind, P) /\ TableFit(c) /\ Distinct(P)
  BY <1>1, IdleTable, PairsAre DEF TableOwns
<1>4. e \in Elements /\ made \cap live = {}
  BY OfferAssumption DEF Fresh, TableInv, ContInv, CallInv
<1>5. made = Goods(kind, {w})
  BY OwnedIs DEF ObjectsOf
<1>6. w \in Pair /\ w.key = e /\ w.value = e
  BY <1>4, WholeIs
<1>7. Refused(c, r) \/ Inserted(c, e, r)
  BY <1>2, <1>3, <1>4, InsertIs
<1> HIDE DEF made, P, w
<1>8. CASE Refused(c, r)
  BY <1>1, <1>2, <1>8, RefusedCall
<1>9. CASE Inserted(c, e, r)
  <2>1. r.ok = TRUE /\ TableFit(c') /\ TableShape(c') /\ kind' = kind
    BY <1>1, <1>2, <1>9 DEF Inserted, TableFit
  <2>2. live' = (Goods(kind, P) \cup Goods(kind, {w})) \ r.gone
    BY <1>2, <1>3, <1>5, <2>1
  <2>3. CASE ~Has(c, KeyOf[e]) /\ r.gone = {} /\ PairsOf(r.c) = P \cup {w}
    <3>1. live' = Goods(kind, PairsOf(c')) /\ PairsOf(c') = P \cup {w}
      <4>1. PairsOf(c') = P \cup {w}
        BY <1>2, <2>3
      <4>2. live' = Goods(kind, P) \cup Goods(kind, {w})
        BY <2>2, <2>3
      <4>3. Goods(kind, P \cup {w}) = Goods(kind, P) \cup Goods(kind, {w})
        BY GoodsOfMore
      <4> QED
        BY <4>1, <4>2, <4>3
    <3>2. Others(P, KeyOf[w.key]) = P
      BY <1>6, <2>3, HasIs DEF Others, P
    <3>3. PairsChange(P, PairsOf(c'))
      BY <1>6, <3>1, <3>2 DEF PairsChange
    <3> QED
      BY <1>1, <2>1, <3>1, <3>3 DEF TableCallDone, TableOwns, P
  <2>4. ASSUME NEW p \in P, KeyOf[p.key] = KeyOf[e], IsReplaced(r, c, p, e)
        PROVE  TableCallDone
    <3> DEFINE n == [key |-> p.key, value |-> e]
    <3>1. /\ r.gone = {KeyObject(e), ValueObject(p.value)}
          /\ PairsOf(c') = (P \ {p}) \cup {n}
      BY <1>2, <2>4 DEF IsReplaced, P
    <3>2. p \in Pair /\ n \in Pair /\ n.key = p.key /\ n.value = e
      BY <1>3, <1>4, PairIs DEF Distinct, Pair
    <3> HIDE DEF n
    <3>3. live' = Goods(kind, PairsOf(c'))
      <4>1. Goods(kind, {w}) \cap Goods(kind, P) = {}
        BY <1>3, <1>4, <1>5
      <4> QED
        BY <1>3, <1>6, <2>2, <3>1, <3>2, <4>1, GoodsOfReplaced
    <3>4. Others(P, KeyOf[n.key]) = P \ {p}
      BY <1>3, <3>2 DEF Distinct, Others
    <3>5. PairsChange(P, PairsOf(c'))
      BY <2>4, <3>1, <3>2, <3>4 DEF PairsChange
    <3> QED
      BY <1>1, <2>1, <3>3, <3>5 DEF TableCallDone, TableOwns, P
  <2> QED
    BY <1>9, <2>3, <2>4 DEF Inserted, P, w
<1> QED
  BY <1>7, <1>8, <1>9

LEMMA RemoveDoes ==
  ASSUME TableInv, kind \in Tables, NEW k \in DOMAIN Hash, Calls(hash_table_remove(c, k), {})
  PROVE  TableCallDone
<1>1. call = Idle /\ UNCHANGED <<kind, copy, copies, call>>
  BY DEF Calls
<1>2. PICK r \in hash_table_remove(c, k) :
        c' = r.c /\ live' = (IF r.ok THEN live \cup {} ELSE live) \ r.gone
  BY DEF Calls
<1>3. TableFit(c) /\ TableOwns(kind, c, live) /\ Distinct(PairsOf(c))
  BY <1>1, IdleTable, PairsAre DEF TableFit
<1>4. CASE Refused(c, r)
  BY <1>1, <1>2, <1>4, RefusedCall
<1>5. CASE r.ok = TRUE /\ TableFit(r.c) /\ \E p \in PairsOf(c) : TakesOut(r, c, p)
  <2>1. PICK p \in PairsOf(c) : TakesOut(r, c, p)
    BY <1>5
  <2>2. /\ PairsOf(c') = PairsOf(c) \ {p} /\ TableFit(c') /\ TableShape(c')
        /\ live' = live \ {KeyObject(p.key), ValueObject(p.value)}
    BY <1>2, <1>5, <2>1 DEF TakesOut, TableFit
  <2>3. live' = Goods(kind, PairsOf(c'))
    BY <1>3, <2>2, GoodsOfLess DEF TableOwns
  <2> QED
    BY <1>1, <2>2, <2>3 DEF TableCallDone, TableOwns, PairsChange
<1> QED
  BY <1>2, <1>3, <1>4, <1>5, RemoveIs

LEMMA TableCallDoes ==
  ASSUME TableInv, kind \in Tables, TableCall
  PROVE  TableCallDone
BY InsertDoes, RemoveDoes DEF TableCall

LEMMA TableCallKeeps ==
  ASSUME TableInv, kind \in Tables, TableCallDone
  PROVE  TabInv' /\ TabCopyInv'
BY IdleTable, IdleIs DEF TableCallDone, TabInv, TabCopyInv, Copying

-------------------------------------------------------------------------------
(* The client of a table: the other steps *)

\* Storage for as many slots as the minimum or as there were.
LEMMA GoodStorage ==
  ASSUME NEW n \in Nat, n >= 4, NEW r \in hash_table_init_storage(n), r.ok
  PROVE  /\ TableFit(r.c) /\ TableShape(r.c) /\ PairsOf(r.c) = {} /\ r.c.len = 0
         /\ Room(r.c) >= n
<1>1. PICK m \in Nat : m >= n /\ m <= MaxCapacity /\ r.c = Storage(m)
  BY InitStorageIs
<1> QED
  BY <1>1, StorageIs

LEMMA NewTable ==
  ASSUME TableInv, kind \in Tables, New
  PROVE  /\ TabInv' /\ TabCopyInv'
         /\ PairsOf(c') = {} /\ PairsOf(c) = {} /\ TableShape(c')
<1>1. /\ call.op = "zero" /\ call' = Idle /\ call'.op = "none"
      /\ UNCHANGED <<kind, copy, live, copies>> /\ copy = NoCopy /\ copies = {}
      /\ TableOwns(kind, c, live) /\ PairsOf(c) = {}
  BY IdleIs DEF New, TableInv, TabInv, TabCopyInv, Copying
<1>2. PICK r \in NewOf : r.ok /\ c' = r.c
  BY DEF New
<1>3. NewOf = hash_table_init_storage(MinCapacity)
  BY TableKinds DEF NewOf, Deques
<1>4. TableFit(c') /\ TableShape(c') /\ PairsOf(c') = {}
  BY <1>2, <1>3, GoodStorage, HashAssumption
<1>5. TableOwns(kind, c', live)
  BY <1>1, <1>4 DEF TableOwns
<1> QED
  BY <1>1, <1>4, <1>5 DEF TabInv, TabCopyInv, Copying

LEMMA TableBegins ==
  ASSUME TableInv, kind \in Tables, Truncate \/ Drop
  PROVE  /\ TabInv' /\ TabCopyInv' /\ c' = c /\ copy' = NoCopy
         /\ call'.op \in {"clear", "drop"}
<1>1. /\ call = Idle \/ call.op = "zero"
      /\ call'.op \in {"clear", "drop"} /\ (call'.op = "clear" => call = Idle)
      /\ UNCHANGED <<kind, c, copy, live, copies>>
  <2>1. CASE Truncate
    <3>1. PICK n : call' = Running("clear", n)
      BY <2>1 DEF Truncate
    <3> QED
      BY <2>1, <3>1, RunningIs DEF Truncate
  <2>2. CASE Drop
    BY <2>2, RunningIs DEF Drop
  <2> QED
    BY <2>1, <2>2
<1>2. call = Idle => TableFit(c)
  BY IdleTable
<1>3. call = Idle => Room(c) >= 4
  BY <1>2 DEF TableFit
<1> QED
  BY <1>1, <1>3, IdleIs DEF TableInv, TabInv, TabCopyInv, Copying

\* What one turn of a clear leaves is owned still.
LEMMA OwnedTurn ==
  ASSUME kind \in Tables, NEW t, NEW o, TableOwns(kind, t, o), ~Cleared(t),
         NEW r \in ClearTurn(t)
  PROVE  /\ TableOwns(kind, r.c, o \ r.gone) /\ Room(r.c) = Room(t)
         /\ \/ PairsOf(r.c) = PairsOf(t)
            \/ \E p \in PairsOf(t) : PairsOf(r.c) = PairsOf(t) \ {p}
<1>1. TableShape(t) /\ Distinct(PairsOf(t)) /\ o = Goods(kind, PairsOf(t))
  BY PairsAre DEF TableOwns
<1>2. TableShape(r.c) /\ Room(r.c) = Room(t)
  BY <1>1, TableTurnIs
<1>3. CASE PairsOf(r.c) = PairsOf(t) /\ r.gone = {}
  BY <1>1, <1>2, <1>3 DEF TableOwns
<1>4. ASSUME NEW p \in PairsOf(t), TakesOut(r, t, p)
      PROVE  /\ TableOwns(kind, r.c, o \ r.gone)
             /\ \E q \in PairsOf(t) : PairsOf(r.c) = PairsOf(t) \ {q}
  <2>1. /\ PairsOf(r.c) = PairsOf(t) \ {p}
        /\ r.gone = {KeyObject(p.key), ValueObject(p.value)}
    BY <1>4 DEF TakesOut
  <2>2. Goods(kind, PairsOf(r.c)) = o \ r.gone
    BY <1>1, <2>1, GoodsOfLess
  <2> QED
    BY <1>2, <2>1, <2>2 DEF TableOwns
<1> QED
  BY <1>1, <1>2, <1>3, <1>4, TableTurnIs

LEMMA TableClears ==
  ASSUME TableInv, kind \in Tables, ClearGoesOn
  PROVE  /\ TabInv' /\ TabCopyInv' /\ TableShape(c')
         /\ \/ PairsOf(c') = PairsOf(c)
            \/ \E p \in PairsOf(c) : PairsOf(c') = PairsOf(c) \ {p}
<1>1. /\ call.op \in {"clear", "drop"} /\ ~Cleared(c)
      /\ UNCHANGED <<kind, copy, copies, call>>
      /\ TableOwns(kind, c, live) /\ (call.op = "clear" => Room(c) >= 4)
      /\ copy = NoCopy /\ copies = {}
  BY DEF ClearGoesOn, TableInv, TabInv, TabCopyInv, Copying
<1>2. PICK r \in ClearTurn(c) : c' = r.c /\ live' = live \ r.gone
  BY DEF ClearGoesOn
<1>3. /\ TableOwns(kind, r.c, live \ r.gone) /\ Room(r.c) = Room(c)
      /\ \/ PairsOf(r.c) = PairsOf(c)
         \/ \E p \in PairsOf(c) : PairsOf(r.c) = PairsOf(c) \ {p}
  BY <1>1, OwnedTurn
<1>4. /\ TableOwns(kind, c', live') /\ Room(c') = Room(c) /\ TableShape(c')
      /\ \/ PairsOf(c') = PairsOf(c)
         \/ \E p \in PairsOf(c) : PairsOf(c') = PairsOf(c) \ {p}
  BY <1>2, <1>3 DEF TableOwns
<1> QED
  BY <1>1, <1>4 DEF TabInv, TabCopyInv, Copying

LEMMA TableCleared ==
  ASSUME TableInv, kind \in Tables, ClearEnds
  PROVE  /\ TabInv' /\ TabCopyInv' /\ PairsOf(c') = {} /\ PairsOf(c) = {}
         /\ TableShape(c') /\ call'.op \in {"none", "zero"} /\ copy' = NoCopy
<1>1. /\ call.op \in {"clear", "drop"} /\ Cleared(c)
      /\ UNCHANGED <<kind, copy, live, copies>>
      /\ TableOwns(kind, c, live) /\ (call.op = "clear" => Room(c) >= 4)
      /\ copy = NoCopy /\ copies = {}
  BY DEF ClearEnds, TableInv, TabInv, TabCopyInv, Copying
<1> DEFINE u == [c EXCEPT !.len = 0]
<1>2. /\ PairsOf(c) = {} /\ PairsOf(u) = {} /\ TableShape(u)
      /\ Room(c) >= 4 => TableFit(u)
  BY <1>1, ClearedTableIs DEF TableOwns
<1>3. live = {}
  BY <1>1, <1>2, NoGoods DEF TableOwns
<1>4. CASE call.op = "drop"
  <2>1. c' = Zeroed /\ call' = Running("zero", 0) /\ call'.op = "zero"
    BY <1>4, RunningIs DEF ClearEnds
  <2>2. Zeroed = Storage(0)
    BY TableKinds DEF Zeroed
  <2>3. TableOwns(kind, c', {}) /\ PairsOf(c') = {}
    BY <2>1, <2>2, StorageOwnsNothing, RawBufAssumption
  <2> QED
    BY <1>1, <1>2, <1>3, <2>1, <2>3 DEF TabInv, TabCopyInv, Copying, TableOwns
<1>5. CASE call.op = "clear"
  <2>1. c' = u /\ call' = Idle /\ call'.op = "none"
    BY <1>5, IdleIs DEF ClearEnds
  <2>2. TableFit(c') /\ TableShape(c') /\ PairsOf(c') = {}
    BY <1>1, <1>2, <1>5, <2>1
  <2> HIDE DEF u
  <2>3. TableOwns(kind, c', {})
    BY <2>2, NoGoods DEF TableOwns
  <2> QED
    BY <1>1, <1>2, <1>3, <2>1, <2>2, <2>3 DEF TabInv, TabCopyInv, Copying
<1> QED
  BY <1>1, <1>4, <1>5

LEMMA TableCloneBegins ==
  ASSUME TableInv, kind \in Tables, Clone
  PROVE  TabInv' /\ TabCopyInv' /\ c' = c /\ copy = NoCopy /\ call'.op = "clone"
<1>1. /\ call = Idle /\ call'.op = "clone" /\ UNCHANGED <<kind, c, live, copies>>
      /\ TableOwns(kind, c, live) /\ TableFit(c) /\ copy = NoCopy /\ copies = {}
  BY IdleTable, RunningIs DEF Clone
<1>2. PICK r \in CloneStorage : r.ok /\ copy' = r.c
  BY DEF Clone
<1>3. CloneStorage = hash_table_init_storage(Room(c))
  BY TableKinds DEF CloneStorage
<1>4. Room(c) \in Nat /\ Room(c) >= 4 /\ TableShape(c)
  BY <1>1, ShapeFacts DEF TableFit
<1>5. /\ TableFit(copy') /\ TableShape(copy') /\ PairsOf(copy') = {} /\ copy'.len = 0
      /\ Room(copy') >= Room(c)
  BY <1>2, <1>3, <1>4, GoodStorage
<1>6. TableOwns(kind, copy', {})
  BY <1>5, NoGoods DEF TableOwns
<1>7. HoldsUpto(copy', c, 0) /\ 0 \in 0..Room(c)
  <2>1. Upto(c, 0) = {}
    BY <1>4, UptoIs
  <2> QED
    BY <1>4, <1>5, <2>1, FS_EmptySet DEF HoldsUpto
<1> QED
  BY <1>1, <1>5, <1>6, <1>7 DEF TabInv, TabCopyInv, Copying

LEMMA TableCloneGoesOn ==
  ASSUME TableInv, kind \in Tables, CloneGoesOn
  PROVE  TabInv' /\ TabCopyInv' /\ c' = c
<1>1. /\ call.op = "clone" /\ ~Cloned /\ UNCHANGED <<kind, c, live, call>>
      /\ TabInv /\ TableFit(c) /\ TableShape(c)
      /\ TableOwns(kind, copy, copies) /\ TableFit(copy) /\ Room(copy) >= Room(c)
  BY DEF CloneGoesOn, TableInv, TabInv, TabCopyInv, Copying, TableOwns
<1>2. PICK n \in 0..Room(c) : HoldsUpto(copy, c, n)
  BY <1>1 DEF TableInv, TabCopyInv, Copying
<1> DEFINE j == Least({i \in OccupiedSlots(c) :
                   Cardinality({m \in OccupiedSlots(c) : m < i}) = copy.len})
           u == place_move(copy, c.slots[j])
<1>3. j \in OccupiedSlots(c) /\ HoldsUpto(copy, c, j)
  <2>1. copy.len # c.len
    BY <1>1 DEF Cloned
  <2> QED
    BY <1>1, <1>2, <2>1, NextIs
<1>4. NextSlot = c.slots[j]
  BY DEF NextSlot
<1>5. CloneTurn = {[ok |-> TRUE, made |-> Owned(SlotObjects(NextSlot)),
                    c |-> place_move(copy, NextSlot)]}
  BY DEF CloneTurn
<1>6. copy' = u /\ copies' = copies \cup Owned(SlotObjects(c.slots[j]))
  BY <1>4, <1>5 DEF CloneGoesOn
<1> HIDE DEF j
<1>7. TableFit(u) /\ Room(u) = Room(copy) /\ HoldsUpto(u, c, j + 1)
  BY <1>1, <1>3, MovesNext
<1>8. j + 1 \in 0..Room(c) /\ Room(c) \in Nat /\ j \in 0..Room(c) - 1
  BY <1>1, <1>3, ShapeFacts DEF TableFit
<1> HIDE DEF u
<1>9. PairsOf(u) = PairsOf(copy) \cup {c.slots[j]}
  <2>1. j \in 0..Room(c)
    BY <1>8
  <2>2. Upto(c, j + 1) = Upto(c, j) \cup {j}
    BY <1>1, <1>3, <2>1, UptoIs
  <2> QED
    BY <1>3, <1>7, <2>2 DEF HoldsUpto
<1>10. TableOwns(kind, u, copies')
  <2>1. copies' = Goods(kind, PairsOf(copy)) \cup Goods(kind, {c.slots[j]})
    BY <1>1, <1>6, OwnedIs DEF TableOwns
  <2>2. Goods(kind, PairsOf(copy) \cup {c.slots[j]})
          = Goods(kind, PairsOf(copy)) \cup Goods(kind, {c.slots[j]})
    BY GoodsOfMore
  <2>3. copies' = Goods(kind, PairsOf(u))
    BY <1>9, <2>1, <2>2
  <2> QED
    BY <1>7, <2>3 DEF TableOwns, TableFit
<1>11. TabCopyInv'
  BY <1>1, <1>6, <1>7, <1>8, <1>10 DEF TabCopyInv, Copying
<1> QED
  BY <1>1, <1>11 DEF TabInv, Copying

LEMMA TableCloneEnds ==
  ASSUME TableInv, kind \in Tables, CloneEnds
  PROVE  /\ TabInv' /\ TabCopyInv' /\ c' = c /\ copy' = copy /\ call'.op = "cloned"
         /\ call.op = "clone" /\ TableShape(c) /\ TableShape(copy) /\ PairsOf(copy) = PairsOf(c)
<1>1. /\ call.op = "clone" /\ Cloned /\ UNCHANGED <<kind, c, copy, live, copies>>
      /\ call'.op = "cloned" /\ TabInv /\ TableFit(c) /\ TableShape(c)
      /\ TableOwns(kind, copy, copies) /\ TableFit(copy) /\ TableShape(copy)
  BY RunningIs DEF CloneEnds, TableInv, TabInv, TabCopyInv, Copying, TableOwns
<1>2. PICK n \in 0..Room(c) : HoldsUpto(copy, c, n)
  BY <1>1 DEF TableInv, TabCopyInv, Copying
<1>3. PairsOf(copy) = PairsOf(c)
  <2>1. copy.len = c.len
    BY <1>1 DEF Cloned
  <2>2. Cardinality(Upto(c, n)) = Cardinality(OccupiedSlots(c))
    BY <1>1, <1>2, <2>1 DEF HoldsUpto, TableFit
  <2>3. Upto(c, n) = OccupiedSlots(c)
    BY <1>1, <2>2, UptoIs
  <2> QED
    BY <1>2, <2>3 DEF HoldsUpto, PairsOf
<1> QED
  BY <1>1, <1>3 DEF TabInv, TabCopyInv, Copying

LEMMA TableKeeps ==
  ASSUME TableInv, kind \in Tables, CloneFails \/ Keep
  PROVE  TabInv' /\ TabCopyInv' /\ call'.op = "undo" /\ PairsOf(c') = PairsOf(c) /\ TableShape(c')
<1>1. /\ call.op \in {"clone", "cloned"} /\ call'.op = "undo" /\ kind' = kind
      /\ TabInv /\ TableOwns(kind, c, live) /\ TableFit(c) /\ TableOwns(kind, copy, copies)
      /\ call.op = "cloned" => TableFit(copy) /\ PairsOf(copy) = PairsOf(c)
  BY RunningIs DEF CloneFails, Keep, TableInv, TabInv, TabCopyInv, Copying
<1>2. CASE UNCHANGED <<c, copy, live, copies>>
  BY <1>1, <1>2 DEF TabInv, TabCopyInv, Copying, TableOwns
<1>3. CASE call.op = "cloned" /\ c' = copy /\ copy' = c /\ live' = copies /\ copies' = live
  BY <1>1, <1>3 DEF TabInv, TabCopyInv, Copying, TableOwns
<1> QED
  BY <1>2, <1>3 DEF CloneFails, Keep

LEMMA TableUndoes ==
  ASSUME TableInv, kind \in Tables, UndoGoesOn \/ UndoEnds
  PROVE  TabInv' /\ TabCopyInv' /\ c' = c /\ call.op = "undo" /\ call'.op \in {"undo", "none"}
<1>1. /\ call.op = "undo" /\ UNCHANGED <<kind, c, live>>
      /\ TabInv /\ TableOwns(kind, c, live) /\ TableFit(c) /\ TableOwns(kind, copy, copies)
  BY DEF UndoGoesOn, UndoEnds, TableInv, TabInv, TabCopyInv, Copying
<1>2. CASE UndoGoesOn
  <2>1. PICK r \in ClearTurn(copy) : copy' = r.c /\ copies' = copies \ r.gone
    BY <1>2 DEF UndoGoesOn
  <2>2. call' = call /\ ~Cleared(copy)
    BY <1>2 DEF UndoGoesOn
  <2>3. TableOwns(kind, r.c, copies \ r.gone)
    BY <1>1, <2>2, OwnedTurn
  <2>4. TableOwns(kind, copy', copies')
    BY <2>1, <2>3
  <2> QED
    BY <1>1, <2>2, <2>4 DEF TabInv, TabCopyInv, Copying
<1>3. CASE UndoEnds
  <2>1. copy' = NoCopy /\ call' = Idle /\ call'.op = "none" /\ copies' = copies /\ Cleared(copy)
    BY <1>3, IdleIs DEF UndoEnds
  <2>2. copies = {}
    BY <1>1, <2>1, ClearedTableIs, NoGoods DEF TableOwns
  <2> QED
    BY <1>1, <2>1, <2>2 DEF TabInv, TabCopyInv, Copying
<1> QED
  BY <1>1, <1>2, <1>3

\* A table is called by TableCall only.
LEMMA TableSteps ==
  ASSUME kind \in Tables, [ContainersNext]_containerVars
  PROVE  \/ New \/ TableCall \/ Truncate \/ Drop \/ Clone \/ Keep \/ Turn
         \/ UNCHANGED containerVars
<1>1. ~PushBack /\ ~PushFront /\ ~PopFront /\ ~PopBack /\ ~VecAt /\ ~ListRemove /\ ~Reserve
  BY TableKinds DEF PushBack, PushFront, PopFront, PopBack, VecAt, ListRemove, Reserve,
                    Deques
<1> QED
  BY <1>1 DEF ContainersNext

LEMMA TableStepKeeps ==
  ASSUME TableInv, [ContainersNext]_containerVars
  PROVE  TableInv'
<1>1. ContInv' /\ kind' = kind
  BY StepKeeps, CallKeeps DEF TableInv, ContInv
<1>2. ASSUME kind \in Tables PROVE TabInv' /\ TabCopyInv'
  <2>1. CASE TableCall
    BY <1>2, <2>1, TableCallDoes, TableCallKeeps
  <2>2. CASE Turn
    BY <1>2, <2>2, TableClears, TableCleared, TableCloneGoesOn, TableCloneEnds, TableKeeps,
       TableUndoes DEF Turn
  <2>3. CASE UNCHANGED containerVars
    BY <1>2, <2>3 DEF containerVars, TableInv, TabInv, TabCopyInv
  <2> QED
    BY <1>2, <2>1, <2>2, <2>3, TableSteps, NewTable, TableBegins, TableCloneBegins, TableKeeps
<1> QED
  BY <1>1, <1>2 DEF TableInv

LEMMA TableInvHolds == ContainersSpec => []TableInv
BY TableInitHolds, TableStepKeeps, PTL DEF ContainersSpec

-------------------------------------------------------------------------------
(* What the client of any container may rely on *)

\* Every key in a table is found where it lies, from wherever its probe starts
\* and whatever was removed, replaced, moved or copied on the way; a slot is
\* left for the next key; and len is what the load limit has to know.
THEOREM KeysStayReachable == ContainersSpec => []KeysReachable
<1>1. TableInv => KeysReachable
  <2> SUFFICES ASSUME TableInv,
                      NEW t \in {x \in {c, copy} : kind \in Tables /\ x # NoCopy},
                      call.op \in {"none", "clone", "cloned"}
               PROVE  /\ \A i \in OccupiedSlots(t) :
                           find_slot(t, KeyAt(t, i)) = [ok |-> TRUE, found |-> TRUE, index |-> i]
                      /\ t.len = Cardinality(OccupiedSlots(t)) /\ t.len < Room(t)
    BY DEF KeysReachable, KeyAt
  <2>1. TableFit(t)
    BY DEF TableInv, TabInv, TabCopyInv, Copying
  <2>2. /\ Room(t) \in Nat /\ Room(t) >= 4 /\ t.len \in Nat
        /\ t.len <= Room(t) - Room(t) \div 4 /\ t.len = Cardinality(OccupiedSlots(t))
    BY <2>1, ShapeFacts DEF TableFit, TableShape
  <2>3. t.len < Room(t)
    <3> DEFINE q == Room(t) \div 4
    <3>1. q \in Nat /\ Room(t) % 4 \in 0..4 - 1 /\ Room(t) = 4 * q + (Room(t) % 4)
      <4>1. 4 \in Nat \ {0} /\ Room(t) \in Nat
        BY <2>2
      <4> QED
        BY <4>1, QuotientIs, Zenon
    <3>2. t.len <= Room(t) - q
      BY <2>2
    <3> HIDE DEF q
    <3>3. q >= 1
      BY <2>2, <3>1
    <3> QED
      BY <2>2, <3>1, <3>2, <3>3
  <2> QED
    BY <2>1, <2>2, <2>3, FindsKey
<1> QED
  BY TableInvHolds, <1>1, PTL

LEMMA TableOwnsOnce ==
  ASSUME kind \in Tables, NEW t, NEW o, TableOwns(kind, t, o)
  PROVE  o = Objects(t) /\ Cardinality(o) = CountOf(t)
<1>1. TableShape(t) /\ o = Goods(kind, PairsOf(t)) /\ t # NoCopy
  BY TableIsSome DEF TableOwns
<1>2. kind = "table" \/ (kind = "set" /\ kind # "table")
  BY DEF Tables
<1>3. CountOf(t) = IF kind = "set" THEN Cardinality(OccupiedSlots(t))
                   ELSE 2 * Cardinality(OccupiedSlots(t))
  BY <1>1, <1>2 DEF CountOf
<1> QED
  BY <1>1, <1>3, ObjectsAre, GoodsCount

\* Each container and its clone own exactly the objects that were made and not
\* given back, each in one place: nothing leaks, nothing is dropped twice or
\* owned by two, also when a push, a resize or a clone failed half-way.
THEOREM ObjectsOwnedOnce == ContainersSpec => []OwnedOnce
<1>1. TableInv => (kind \in Tables => OwnedOnce)
  <2> SUFFICES ASSUME TableInv, kind \in Tables PROVE OwnedOnce
    OBVIOUS
  <2>1. TableOwns(kind, c, live) /\ (TableOwns(kind, copy, copies) \/ (copy = NoCopy /\ copies = {}))
    BY DEF TableInv, TabInv, TabCopyInv
  <2>2. copy = NoCopy /\ copies = {} => copies = Objects(copy) /\ Cardinality(copies) = CountOf(copy)
    BY FS_EmptySet DEF Objects, CountOf
  <2> QED
    BY <2>1, <2>2, TableOwnsOnce DEF OwnedOnce
<1>2. TableInv /\ (kind \notin Tables => OwnedOnce) => OwnedOnce
  BY <1>1
<1> QED
  BY TableInvHolds, SequencesOwnOnce, <1>2, PTL
-------------------------------------------------------------------------------
(* The client as MapSpec sees it *)

MapHere == IF kind \in Tables THEN MapOf(c) ELSE [k \in {} |-> 0]
MapTwin == IF call.op = "cloned" /\ kind \in Tables THEN MapOf(copy) ELSE NoCopy

LEMMA EndingIs ==
  /\ call.op \in {"clear", "drop", "zero"} => Ending = TRUE
  /\ call.op \in {"none", "clone", "cloned", "undo"} => Ending = FALSE
  /\ call.op # "cloned" => MapTwin = NoCopy
BY DEF Ending, MapTwin

LEMMA MapHereIs ==
  ASSUME kind \in Tables, TableShape(c)
  PROVE  IsMapOf(MapHere, PairsOf(c)) /\ Distinct(PairsOf(c))
BY MapOfIs, PairsAre DEF MapHere

\* As long as the table holds the same pairs it is the same map.
LEMMA MapStays ==
  ASSUME kind \in Tables, kind' = kind, TableShape(c), TableShape(c'),
         PairsOf(c') = PairsOf(c)
  PROVE  MapHere' = MapHere
<1>1. IsMapOf(MapOf(c), PairsOf(c)) /\ IsMapOf(MapOf(c'), PairsOf(c))
  BY MapOfIs
<1>2. MapHere = MapOf(c) /\ MapHere' = MapOf(c')
  BY DEF MapHere
<1> QED
  BY <1>1, <1>2, SameMap

LEMMA MapInserts ==
  ASSUME Ending = FALSE, Ending' = Ending, MapTwin' = MapTwin, NEW e \in Elements,
         MapHere' = MapWith(MapHere, KeyOf[e], e)
  PROVE  AsMap!Insert
BY DEF AsMap!Insert, MapWith, MapHere, MapTwin

LEMMA MapRemoves ==
  ASSUME Ending' = Ending, MapTwin' = MapTwin, NEW k \in DOMAIN MapHere,
         MapHere' = MapWithout(MapHere, k)
  PROVE  AsMap!Remove
BY DEF AsMap!Remove, AsMap!Without, MapWithout, MapHere, MapTwin

LEMMA MapBegins ==
  ASSUME Ending = FALSE, Ending' = TRUE, MapHere' = MapHere, MapTwin' = MapTwin
  PROVE  AsMap!BeginClear
BY DEF AsMap!BeginClear, MapHere, MapTwin

LEMMA MapEnds ==
  ASSUME Ending = TRUE, Ending' = FALSE, MapHere' = MapHere, MapTwin' = MapTwin,
         DOMAIN MapHere = {}
  PROVE  AsMap!EndClear
BY DEF AsMap!EndClear, MapHere, MapTwin

LEMMA MapTwinComes ==
  ASSUME MapTwin = NoCopy, MapTwin' = MapHere, MapHere' = MapHere, Ending' = Ending
  PROVE  AsMap!CloneMap
BY DEF AsMap!CloneMap, MapHere, MapTwin

LEMMA MapTwinGoes ==
  ASSUME MapTwin # NoCopy, MapTwin' = NoCopy, MapHere' = MapHere, Ending' = Ending
  PROVE  AsMap!LoseTwin
BY DEF AsMap!LoseTwin, MapHere, MapTwin

\* A call takes a key away, puts one in with its value, or changes nothing.
LEMMA MapCallIsAllowed ==
  ASSUME TableInv, kind \in Tables, TableCallDone
  PROVE  AsMap!MapNext \/ UNCHANGED <<MapHere, MapTwin, Ending>>
<1> DEFINE P == PairsOf(c)
           Q == PairsOf(c')
<1>1. /\ kind' = kind /\ call = Idle /\ call' = call /\ copy' = copy
      /\ TableShape(c) /\ TableShape(c') /\ PairsChange(P, Q)
  BY IdleTable DEF TableCallDone, TableOwns
<1>2. Ending = FALSE /\ Ending' = Ending /\ MapTwin' = MapTwin
  BY <1>1, IdleIs DEF Ending, MapTwin
<1>3. IsMapOf(MapHere, P) /\ Distinct(P)
  BY <1>1, MapHereIs
<1>4. IsMapOf(MapHere', Q)
  <2>1. MapHere' = MapOf(c')
    BY <1>1 DEF MapHere
  <2> QED
    BY <1>1, <2>1, MapOfIs
<1>5. CASE Q = P
  BY <1>1, <1>2, <1>5, MapStays
<1> HIDE DEF P, Q
<1>6. ASSUME NEW p \in P, Q = P \ {p}
      PROVE  AsMap!MapNext
  <2>1. /\ KeyOf[p.key] \in DOMAIN MapHere
        /\ MapHere' = MapWithout(MapHere, KeyOf[p.key])
    <3>1. IsMapOf(MapHere', P \ {p})
      BY <1>4, <1>6
    <3> QED
      BY <1>3, <3>1, MapCut
  <2>2. AsMap!Remove
    BY <1>2, <2>1, MapRemoves
  <2> QED
    BY <2>2 DEF AsMap!MapNext
<1>7. ASSUME NEW n \in Pair, KeyOf[n.value] = KeyOf[n.key],
             Q = Others(P, KeyOf[n.key]) \cup {n}
      PROVE  AsMap!MapNext
  <2>2. IsMapOf(MapHere', Others(P, KeyOf[n.key]) \cup {n})
    BY <1>4, <1>7
  <2>3. MapHere' = MapWith(MapHere, KeyOf[n.key], n.value)
    BY <1>3, <2>2, MapPut
  <2>4. n.value \in Elements
    BY PairIs
  <2>5. AsMap!Insert
    BY <1>2, <1>7, <2>3, <2>4, MapInserts
  <2> QED
    BY <2>5 DEF AsMap!MapNext
<1> QED
  BY <1>1, <1>5, <1>6, <1>7 DEF PairsChange, P, Q

LEMMA MapStepOfTable ==
  ASSUME TableInv, kind \in Tables, [ContainersNext]_containerVars
  PROVE  AsMap!MapNext \/ UNCHANGED <<MapHere, MapTwin, Ending>>
<1> DEFINE Steps == AsMap!MapNext \/ UNCHANGED <<MapHere, MapTwin, Ending>>
<1>1. TableInv' /\ kind' = kind /\ TableShape(c) /\ TableShape(c')
  <2>1. TableInv' /\ kind' = kind
    BY TableStepKeeps, CallKeeps DEF TableInv, ContInv
  <2> QED
    BY <2>1 DEF TableInv, TabInv, TableOwns
<1>2. IsMapOf(MapHere, PairsOf(c))
  BY <1>1, MapHereIs
<1>3. PairsOf(c') = PairsOf(c) => MapHere' = MapHere
  BY <1>1, MapStays
<1>4. /\ call.op \in {"clear", "drop", "zero"} => Ending = TRUE
      /\ call.op \in {"none", "clone", "cloned", "undo"} => Ending = FALSE
      /\ call.op # "cloned" => MapTwin = NoCopy
  BY EndingIs
<1>5. /\ call'.op \in {"clear", "drop", "zero"} => Ending' = TRUE
      /\ call'.op \in {"none", "clone", "cloned", "undo"} => Ending' = FALSE
      /\ call'.op # "cloned" => MapTwin' = NoCopy
  <2>1. (/\ call.op \in {"clear", "drop", "zero"} => Ending = TRUE
         /\ call.op \in {"none", "clone", "cloned", "undo"} => Ending = FALSE
         /\ call.op # "cloned" => MapTwin = NoCopy)'
    BY EndingIs, PTL
  <2> QED
    BY <2>1
<1>6. ASSUME AsMap!BeginClear \/ AsMap!EndClear \/ AsMap!CloneMap \/ AsMap!LoseTwin
      PROVE  Steps
  BY <1>6 DEF AsMap!MapNext
<1>7. ASSUME PairsOf(c') = PairsOf(c), Ending' = Ending, MapTwin' = MapTwin
      PROVE  Steps
  BY <1>3, <1>7
<1> SUFFICES Steps
  OBVIOUS
<1>8. CASE New
  <2>1. /\ call.op = "zero" /\ call'.op = "none"
        /\ PairsOf(c) = {} /\ PairsOf(c') = {}
    BY <1>8, NewTable, IdleIs DEF New
  <2>2. DOMAIN MapHere = {} /\ MapHere' = MapHere
    BY <1>2, <1>3, <2>1, EmptyMapIs
  <2>3. Ending = TRUE /\ Ending' = FALSE /\ MapTwin' = MapTwin
    BY <1>4, <1>5, <2>1
  <2>4. AsMap!EndClear
    BY <2>2, <2>3, MapEnds
  <2> QED
    BY <1>6, <2>4
<1>9. CASE TableCall
  BY <1>9, TableCallDoes, MapCallIsAllowed
<1>10. CASE Truncate \/ Drop
  <2>1. /\ call.op \in {"none", "zero"} /\ call'.op \in {"clear", "drop"} /\ c' = c
    BY <1>10, TableBegins, IdleIs DEF Truncate, Drop
  <2>2. PairsOf(c') = PairsOf(c) /\ MapHere' = MapHere /\ Ending' = TRUE /\ MapTwin' = MapTwin
    BY <1>3, <1>4, <1>5, <2>1
  <2>3. CASE call.op = "zero"
    BY <1>4, <1>7, <2>2, <2>3
  <2>4. CASE call.op = "none"
    <3>1. AsMap!BeginClear
      BY <1>4, <2>2, <2>4, MapBegins
    <3> QED
      BY <1>6, <3>1
  <2> QED
    BY <2>1, <2>3, <2>4
<1>11. CASE ClearGoesOn
  <2>1. call' = call /\ copy' = copy
    BY <1>11 DEF ClearGoesOn
  <2>2. Ending' = Ending /\ MapTwin' = MapTwin
    BY <1>1, <2>1 DEF Ending, MapTwin
  <2>3. CASE PairsOf(c') = PairsOf(c)
    BY <1>7, <2>2, <2>3
  <2>4. ASSUME NEW p \in PairsOf(c), PairsOf(c') = PairsOf(c) \ {p}
        PROVE  Steps
    <3>1. IsMapOf(MapHere', PairsOf(c) \ {p}) /\ Distinct(PairsOf(c))
      <4>1. MapHere' = MapOf(c')
        BY <1>1 DEF MapHere
      <4>2. IsMapOf(MapOf(c'), PairsOf(c'))
        BY <1>1, MapOfIs
      <4> QED
        BY <1>1, <2>4, <4>1, <4>2, PairsAre
    <3>2. /\ KeyOf[p.key] \in DOMAIN MapHere
          /\ MapHere' = MapWithout(MapHere, KeyOf[p.key])
      BY <1>2, <2>4, <3>1, MapCut
    <3>3. AsMap!Remove
      BY <2>2, <3>2, MapRemoves
    <3> QED
      BY <3>3 DEF AsMap!MapNext
  <2> QED
    BY <1>11, <2>3, <2>4, TableClears
<1>12. CASE ClearEnds
  <2>1. /\ PairsOf(c) = {} /\ PairsOf(c') = {} /\ call.op \in {"clear", "drop"}
        /\ call'.op \in {"none", "zero"}
    BY <1>12, TableCleared DEF ClearEnds
  <2>2. DOMAIN MapHere = {} /\ MapHere' = MapHere
    BY <1>2, <1>3, <2>1, EmptyMapIs
  <2>3. Ending = TRUE /\ MapTwin' = MapTwin
    BY <1>4, <1>5, <2>1
  <2>4. CASE call'.op = "zero"
    BY <1>5, <1>7, <2>1, <2>3, <2>4
  <2>5. CASE call'.op = "none"
    <3>1. AsMap!EndClear
      BY <1>5, <2>2, <2>3, <2>5, MapEnds
    <3> QED
      BY <1>6, <3>1
  <2> QED
    BY <2>1, <2>4, <2>5
<1>13. CASE Clone \/ CloneGoesOn \/ CloneFails \/ UndoGoesOn \/ UndoEnds
  <2>1. /\ call.op \in {"none", "clone", "undo"} /\ call'.op \in {"none", "clone", "undo"}
        /\ c' = c
    BY <1>13, IdleIs, RunningIs
       DEF Clone, CloneGoesOn, CloneFails, UndoGoesOn, UndoEnds
  <2>2. Ending' = Ending /\ MapTwin' = MapTwin /\ PairsOf(c') = PairsOf(c)
    BY <1>4, <1>5, <2>1
  <2> QED
    BY <1>7, <2>2
<1>14. CASE CloneEnds
  <2>1. /\ call.op = "clone" /\ call'.op = "cloned" /\ c' = c /\ copy' = copy
        /\ TableShape(copy) /\ PairsOf(copy) = PairsOf(c)
    BY <1>14, TableCloneEnds
  <2>2. MapOf(copy) = MapOf(c)
    <3>1. IsMapOf(MapOf(copy), PairsOf(c)) /\ IsMapOf(MapOf(c), PairsOf(c))
      BY <1>1, <2>1, MapOfIs
    <3> QED
      BY <3>1, SameMap
  <2>3. MapTwin = NoCopy /\ MapTwin' = MapHere
    BY <1>1, <1>4, <2>1, <2>2 DEF MapTwin, MapHere
  <2>4. MapHere' = MapHere /\ Ending' = Ending
    BY <1>3, <1>4, <1>5, <2>1
  <2>5. AsMap!CloneMap
    BY <2>3, <2>4, MapTwinComes
  <2> QED
    BY <1>6, <2>5
<1>15. CASE Keep
  <2>1. /\ call.op = "cloned" /\ call'.op = "undo" /\ PairsOf(c') = PairsOf(c)
    BY <1>15, TableKeeps DEF Keep
  <2>2. MapTwin = MapOf(copy) /\ MapTwin' = NoCopy
    BY <1>5, <2>1 DEF MapTwin
  <2>3. MapTwin # NoCopy
    <3>1. TableShape(copy)
      BY <2>1 DEF TableInv, TabCopyInv, Copying, TableOwns
    <3>2. IsMapOf(MapOf(copy), PairsOf(copy)) /\ Distinct(PairsOf(copy))
      BY <3>1, MapOfIs, PairsAre
    <3> QED
      BY <2>2, <3>2, MapIsSome
  <2>4. MapHere' = MapHere /\ Ending' = Ending
    BY <1>3, <1>4, <1>5, <2>1
  <2>5. AsMap!LoseTwin
    BY <2>2, <2>3, <2>4, MapTwinGoes
  <2> QED
    BY <1>6, <2>5
<1>16. CASE UNCHANGED containerVars
  BY <1>16 DEF containerVars, MapHere, MapTwin, Ending
<1> QED
  BY <1>8, <1>9, <1>10, <1>11, <1>12, <1>13, <1>14, <1>15, <1>16, TableSteps DEF Turn

\* The sequences keep no map: of the map only ending changes.
LEMMA MapStepOfSequence ==
  ASSUME ContInv, kind \notin Tables, [ContainersNext]_containerVars
  PROVE  AsMap!MapNext \/ UNCHANGED <<MapHere, MapTwin, Ending>>
<1>1. kind' = kind
  BY CallKeeps DEF ContInv
<1>2. /\ MapHere = [k \in {} |-> 0] /\ MapHere' = MapHere
      /\ MapTwin = NoCopy /\ MapTwin' = MapTwin
  BY <1>1 DEF MapHere, MapTwin
<1>3. DOMAIN MapHere = {}
  BY <1>2
<1>4. \/ Ending' = Ending
      \/ Ending = FALSE /\ Ending' = TRUE
      \/ Ending = TRUE /\ Ending' = FALSE
  <2>1. (Ending = TRUE \/ Ending = FALSE) /\ (Ending' = TRUE \/ Ending' = FALSE)
    BY DEF Ending
  <2> QED
    BY <2>1, Zenon
<1>5. CASE Ending' = Ending
  BY <1>2, <1>5
<1>6. CASE Ending = FALSE /\ Ending' = TRUE
  BY <1>2, <1>6, MapBegins DEF AsMap!MapNext
<1>7. CASE Ending = TRUE /\ Ending' = FALSE
  BY <1>2, <1>3, <1>7, MapEnds DEF AsMap!MapNext
<1> QED
  BY <1>4, <1>5, <1>6, <1>7, Zenon

\* Seen from outside the table is a map and its clone the same map, through
\* collisions, tombstones, replaced values, and resizes that are refused or
\* move everything; a clear or drop has emptied it when it ends.
THEOREM ContainersKeepMap == ContainersSpec => KeepsMap
<1>1. ContainersInit => DOMAIN MapHere = {} /\ MapTwin = NoCopy /\ Ending = TRUE
  <2> SUFFICES ASSUME ContainersInit
               PROVE  DOMAIN MapHere = {} /\ MapTwin = NoCopy /\ Ending = TRUE
    OBVIOUS
  <2>1. TableInv /\ call.op = "zero"
    BY TableInitHolds, RunningIs DEF ContainersInit
  <2>2. DOMAIN MapHere = {}
    <3>1. CASE kind \in Tables
      BY <2>1, <3>1, MapHereIs, EmptyMapIs DEF TableInv, TabInv, TableOwns
    <3>2. CASE kind \notin Tables
      <4>1. MapHere = [k \in {} |-> 0]
        BY <3>2 DEF MapHere
      <4> QED
        BY <4>1
    <3> QED
      BY <3>1, <3>2
  <2> QED
    BY <2>1, <2>2, EndingIs
<1>2. TableInv /\ [ContainersNext]_containerVars
        => [AsMap!MapNext]_<<MapHere, MapTwin, Ending>>
  BY MapStepOfTable, MapStepOfSequence DEF TableInv
<1>3. ContainersSpec => /\ DOMAIN MapHere = {} /\ MapTwin = NoCopy /\ Ending = TRUE
                        /\ [][AsMap!MapNext]_<<MapHere, MapTwin, Ending>>
  BY TableInvHolds, <1>1, <1>2, PTL DEF ContainersSpec
<1> QED
  BY <1>3 DEF KeepsMap, AsMap!Map, MapHere, MapTwin
-------------------------------------------------------------------------------
(* The binary heap *)

\* The inductive invariant.  While a sift runs the order may be broken at one
\* place: between index and its parent (up), or between index and its children
\* (down).  What makes the repair work is the third part: the children of index
\* are in order with index's own parent, which may become theirs.

Ordered(i) == ~Above(data[i], data[Parent(i)])

ItemsDistinct == \A i, j \in 0..len - 1 : data[i] = data[j] => i = j

SiftsUp ==
  pc = "up" => \A i \in 1..len - 1 : i # index => Ordered(i)

SiftsDown ==
  pc = "down" => \A i \in 1..len - 1 : Parent(i) # index => Ordered(i)

Skips ==
  pc # "idle" /\ index > 0 =>
    \A i \in 1..len - 1 :
      Parent(i) = index => ~Above(data[i], data[Parent(index)])

Inside == IF pc = "idle" THEN index = 0 ELSE index < len

Order == HeapOrdered /\ SiftsUp /\ SiftsDown /\ Skips

Inv == TypeOK /\ Inside /\ ItemsDistinct /\ Order

-------------------------------------------------------------------------------
(* Indices and elements *)

\* The parent of an index comes before it; its children are the two that
\* sift_down looks at.
LEMMA Parents ==
  ASSUME NEW i \in Nat \ {0}
  PROVE  /\ Parent(i) \in Nat /\ Parent(i) < i
         /\ i = 2 * Parent(i) + 1 \/ i = 2 * Parent(i) + 2
BY DEF Parent

LEMMA Children ==
  ASSUME NEW i \in Nat
  PROVE  Parent(2 * i + 1) = i /\ Parent(2 * i + 2) = i
BY DEF Parent

\* cmp is a total preorder.
LEMMA AboveIsOrder ==
  ASSUME NEW a \in Items, NEW b \in Items, NEW d \in Items
  PROVE  /\ ~Above(a, a)
         /\ Above(a, b) => ~Above(b, a)
         /\ ~Above(a, b) /\ ~Above(b, d) => ~Above(a, d)
BY HeapAssumption DEF Above

\* Between calls the root is a greatest element: of the elements above it
\* take the one with the least index; its parent is not above the root, and it
\* is not above its parent.
LEMMA RootIsGreatest ==
  ASSUME TypeOK, HeapOrdered, pc = "idle", NEW i \in 0..len - 1
  PROVE  ~Above(data[i], data[0])
<1> DEFINE S == {k \in 1..len - 1 : Above(data[k], data[0])}
<1>1. len \in Nat \ {0} /\ \A k \in 0..len - 1 : data[k] \in Items
  BY HeapAssumption DEF TypeOK
<1>2. S = {}
  <2> SUFFICES ASSUME S # {} PROVE FALSE
    OBVIOUS
  <2>1. len - 1 \in Nat /\ S \in SUBSET (1..len - 1)
    BY <1>1
  <2>2. PICK m \in S : \A k \in S : m <= k
    <3>1. S \subseteq Nat
      BY <2>1
    <3> HIDE DEF S
    <3> QED BY <3>1, LeastNumber
  <2>3. m \in 1..len - 1 /\ Above(data[m], data[0])
    OBVIOUS
  <2>4. Parent(m) \in 0..len - 1 /\ Parent(m) < m
    BY <1>1, <2>3, Parents
  <2>5. ~Above(data[m], data[Parent(m)])
    BY <2>3 DEF HeapOrdered
  <2>6. ~Above(data[Parent(m)], data[0])
    <3>1. CASE Parent(m) = 0
      BY <1>1, <3>1, AboveIsOrder
    <3>2. CASE Parent(m) # 0
      <4>1. Parent(m) \in 1..len - 1 /\ Parent(m) \notin S
        BY <1>1, <2>2, <2>3, <2>4, <3>2
      <4> QED BY <4>1
    <3> QED BY <3>1, <3>2
  <2>7. data[m] \in Items /\ data[Parent(m)] \in Items /\ data[0] \in Items
    BY <1>1, <2>3, <2>4
  <2> QED BY <2>3, <2>5, <2>6, <2>7, AboveIsOrder
<1>3. CASE i = 0
  BY <1>1, <1>3, AboveIsOrder
<1>4. CASE i # 0
  BY <1>1, <1>2, <1>4
<1> QED BY <1>3, <1>4

\* A swap moves no element in or out.
LEMMA SwapKeeps ==
  ASSUME TypeOK, ItemsDistinct, NEW i \in 0..len - 1, NEW j \in 0..len - 1, i # j,
         Swap(i, j), len' = len
  PROVE  /\ data' \in [0..len - 1 -> Items]
         /\ data'[i] = data[j] /\ data'[j] = data[i]
         /\ \A k \in 0..len - 1 : k # i /\ k # j => data'[k] = data[k]
         /\ ItemsDistinct'
         /\ Members' = Members
<1>1. /\ data' \in [0..len - 1 -> Items]
      /\ data'[i] = data[j] /\ data'[j] = data[i]
      /\ \A k \in 0..len - 1 : k # i /\ k # j => data'[k] = data[k]
  BY DEF TypeOK, Swap
<1>2. ItemsDistinct'
  BY <1>1 DEF ItemsDistinct
<1>3. Members' = Members
  <2>1. \A k \in 0..len - 1 : data[k] \in Members' /\ data'[k] \in Members
    BY <1>1 DEF Members
  <2> QED BY <2>1 DEF Members
<1> QED BY <1>1, <1>2, <1>3

\* The last element fills the hole at i: what was at i is gone, the rest is
\* there.
LEMMA MovedKeeps ==
  ASSUME TypeOK, ItemsDistinct, NEW i \in 0..len - 1,
         data' = Moved(i), len' = len - 1
  PROVE  /\ data' \in [0..len - 2 -> Items] /\ len' \in Nat
         /\ i < len - 1 => data'[i] = data[len - 1]
         /\ \A k \in 0..len - 2 : k # i => data'[k] = data[k]
         /\ ItemsDistinct'
         /\ Members' = Members \ {data[i]}
<1>1. len \in Nat \ {0} /\ \A k \in 0..len - 1 : data[k] \in Items
  BY HeapAssumption DEF TypeOK
<1>2. /\ len' - 1 = len - 2 /\ len' \in Nat
      /\ i < len - 1 => data'[i] = data[len - 1]
      /\ \A k \in 0..len - 2 : k # i => data'[k] = data[k]
      /\ \A k \in 0..len - 2 : data'[k] \in Items
      /\ data' \in [0..len - 2 -> Items]
  BY <1>1 DEF Moved
<1>3. ItemsDistinct'
  BY <1>1, <1>2 DEF ItemsDistinct
<1>4. Members' \subseteq Members \ {data[i]}
  <2> SUFFICES ASSUME NEW k \in 0..len - 2 PROVE data'[k] \in Members \ {data[i]}
    BY <1>2 DEF Members
  <2>1. CASE k = i
    <3>1. len - 1 \in 0..len - 1 /\ len - 1 # i /\ data'[k] = data[len - 1]
      BY <1>1, <1>2, <2>1
    <3> QED BY <3>1 DEF Members, ItemsDistinct
  <2>2. CASE k # i
    <3>1. k \in 0..len - 1 /\ data'[k] = data[k]
      BY <1>1, <1>2, <2>2
    <3> QED BY <2>2, <3>1 DEF Members, ItemsDistinct
  <2> QED BY <2>1, <2>2
<1>5. Members \ {data[i]} \subseteq Members'
  <2> SUFFICES ASSUME NEW k \in 0..len - 1, k # i PROVE data[k] \in Members'
    BY DEF Members
  <2>1. CASE k = len - 1
    <3>1. i \in 0..len - 2 /\ data'[i] = data[k]
      BY <1>1, <1>2, <2>1
    <3> QED BY <1>2, <3>1 DEF Members
  <2>2. CASE k # len - 1
    <3>1. k \in 0..len - 2 /\ data'[k] = data[k]
      BY <1>1, <1>2, <2>2
    <3> QED BY <1>2, <3>1 DEF Members
  <2> QED BY <2>1, <2>2
<1> QED BY <1>2, <1>3, <1>4, <1>5

-------------------------------------------------------------------------------
(* The two loops keep the invariant *)

LEMMA SiftUpInv == ASSUME Inv, sift_up PROVE Inv' /\ Members' = Members
<1> USE HeapAssumption DEF Inv
<1> DEFINE p == Parent(index)
<1>1. /\ len \in Nat \ {0} /\ len' = len /\ cap' = cap
      /\ index \in 0..len - 1 /\ pc = "up"
      /\ \A k \in 0..len - 1 : data[k] \in Items
  BY DEF TypeOK, Inside, sift_up
<1>2. /\ \A i \in 1..len - 1 : i # index => ~Above(data[i], data[Parent(i)])
      /\ index > 0 => \A i \in 1..len - 1 :
                        Parent(i) = index => ~Above(data[i], data[p])
  BY <1>1 DEF Order, SiftsUp, Skips, Ordered
<1>3. \A i \in 1..len - 1 :
        Parent(i) \in 0..len - 1 /\ Parent(i) < i
  BY <1>1, Parents
<1>4. CASE index > 0 /\ Above(data[index], data[p])
  <2>1. /\ p \in 0..len - 1 /\ p < index /\ p # index
        /\ Swap(index, p) /\ pc' = "up" /\ index' = p
    BY <1>1, <1>3, <1>4 DEF sift_up, SiftFrom
  <2>2. /\ data' \in [0..len - 1 -> Items]
        /\ data'[index] = data[p] /\ data'[p] = data[index]
        /\ \A k \in 0..len - 1 : k # index /\ k # p => data'[k] = data[k]
        /\ ItemsDistinct' /\ Members' = Members
    BY <1>1, <2>1, SwapKeeps
  <2>3. TypeOK' /\ Inside'
    BY <1>1, <2>1, <2>2 DEF TypeOK, Inside
  <2>4. ASSUME NEW i \in 1..len - 1, i # p
        PROVE  ~Above(data'[i], data'[Parent(i)])
    <3>0. Parent(i) \in 0..len - 1 /\ Parent(i) < i /\ i \in 0..len - 1
      BY <1>1, <1>3
    <3>1. CASE i = index
      BY <1>1, <1>4, <2>1, <2>2, <3>1, AboveIsOrder
    <3>2. CASE i # index /\ Parent(i) = p
      <4>1. data'[i] = data[i] /\ data'[Parent(i)] = data[index]
        BY <2>2, <2>4, <3>0, <3>2
      <4>2. ~Above(data[i], data[p])
        BY <1>2, <3>2
      <4>3. ~Above(data[p], data[index])
        BY <1>1, <1>4, <2>1, AboveIsOrder
      <4> QED BY <1>1, <2>1, <3>0, <4>1, <4>2, <4>3, AboveIsOrder
    <3>3. CASE Parent(i) = index
      BY <1>2, <1>4, <2>2, <2>4, <3>0, <3>3
    <3>4. CASE i # index /\ Parent(i) # p /\ Parent(i) # index
      <4>1. data'[i] = data[i] /\ data'[Parent(i)] = data[Parent(i)]
        BY <2>2, <2>4, <3>0, <3>4
      <4> QED BY <1>2, <3>4, <4>1
    <3> QED BY <3>1, <3>2, <3>3, <3>4
  <2>5. ASSUME NEW i \in 1..len - 1, Parent(i) = p, p > 0
        PROVE  ~Above(data'[i], data'[Parent(p)])
    <3>1. p \in 1..len - 1 /\ Parent(p) \in 0..len - 1 /\ Parent(p) < p
      BY <1>1, <1>3, <2>1, <2>5
    <3>2. data'[Parent(p)] = data[Parent(p)]
      BY <2>1, <2>2, <3>1
    <3>3. ~Above(data[p], data[Parent(p)])
      BY <1>2, <2>1, <3>1
    <3>4. CASE i = index
      BY <2>2, <3>2, <3>3, <3>4
    <3>5. CASE i # index
      <4>1. i \in 0..len - 1 /\ i # p /\ ~Above(data[i], data[p])
        BY <1>1, <1>2, <1>3, <2>5, <3>5
      <4>2. data'[i] = data[i]
        BY <2>2, <3>5, <4>1
      <4> QED BY <1>1, <3>1, <3>2, <3>3, <4>1, <4>2, AboveIsOrder
    <3> QED BY <3>4, <3>5
  <2> HIDE DEF p
  <2>6. Order'
    BY <1>1, <2>1, <2>4, <2>5
       DEF Order, HeapOrdered, SiftsUp, SiftsDown, Skips, Ordered
  <2> QED BY <2>2, <2>3, <2>6
<1>5. CASE ~(index > 0 /\ Above(data[index], data[p]))
  <2>1. pc' = "idle" /\ index' = 0 /\ data' = data
    BY <1>5 DEF sift_up, Returned
  <2>2. \A i \in 1..len - 1 : ~Above(data[i], data[Parent(i)])
    BY <1>1, <1>2, <1>5
  <2>3. Order'
    BY <1>1, <2>1, <2>2
       DEF Order, HeapOrdered, SiftsUp, SiftsDown, Skips, Ordered
  <2> QED BY <1>1, <2>1, <2>3 DEF TypeOK, Inside, ItemsDistinct, Members
<1> QED BY <1>4, <1>5

\* Best is index itself, or the greater child where that is above it.
LEMMA BestIs ==
  ASSUME TypeOK, NEW i \in 0..len - 1
  PROVE  /\ Best(i) \in 0..len - 1
         /\ Best(i) = i =>
              \A k \in 1..len - 1 : Parent(k) = i => ~Above(data[k], data[i])
         /\ Best(i) # i =>
              /\ Best(i) > 0 /\ Parent(Best(i)) = i
              /\ Above(data[Best(i)], data[i])
              /\ \A k \in 1..len - 1 :
                   Parent(k) = i => ~Above(data[k], data[Best(i)])
<1> DEFINE l == 2 * i + 1
           r == 2 * i + 2
           b == Better(i, l)
<1>1. /\ len \in Nat \ {0} /\ i \in Nat /\ l \in Nat \ {0} /\ r \in Nat \ {0}
      /\ l # i /\ r # i /\ l # r
      /\ \A k \in 0..len - 1 : data[k] \in Items
  BY HeapAssumption DEF TypeOK
<1>2. Parent(l) = i /\ Parent(r) = i
  BY <1>1, Children
<1>3. \A k \in 1..len - 1 : Parent(k) = i => k = l \/ k = r
  BY <1>1, Parents
<1>4. Best(i) = Better(b, r)
  BY DEF Best
<1> HIDE DEF l, r
<1>5. \/ b = l /\ l < len /\ Above(data[l], data[i])
      \/ b = i /\ ~(l < len /\ Above(data[l], data[i]))
  BY DEF Better
<1>6. \/ Best(i) = r /\ r < len /\ Above(data[r], data[b])
      \/ Best(i) = b /\ ~(r < len /\ Above(data[r], data[b]))
  BY <1>4 DEF Better
<1> HIDE DEF b
<1>7. CASE b = i
  BY <1>1, <1>2, <1>3, <1>5, <1>6, <1>7, AboveIsOrder
<1>8. CASE b = l /\ l < len /\ Above(data[l], data[i])
  <2>1. CASE Best(i) = l
    BY <1>1, <1>2, <1>3, <1>6, <1>8, <2>1, AboveIsOrder
  <2>2. CASE Best(i) = r /\ r < len /\ Above(data[r], data[l])
    <3>1. l \in 0..len - 1 /\ r \in 0..len - 1
      BY <1>1, <1>8, <2>2
    <3>2. Above(data[r], data[i])
      BY <1>1, <1>8, <2>2, <3>1, HeapAssumption DEF Above
    <3> QED BY <1>1, <1>2, <1>3, <1>8, <2>2, <3>1, <3>2, AboveIsOrder
  <2> QED BY <1>6, <1>8, <2>1, <2>2
<1> QED BY <1>5, <1>7, <1>8

LEMMA SiftDownInv == ASSUME Inv, sift_down PROVE Inv' /\ Members' = Members
<1> USE HeapAssumption DEF Inv
<1> DEFINE b == Best(index)
<1>1. /\ len \in Nat \ {0} /\ len' = len /\ cap' = cap
      /\ index \in 0..len - 1 /\ pc = "down"
      /\ \A k \in 0..len - 1 : data[k] \in Items
  BY DEF TypeOK, Inside, sift_down
<1>2. /\ \A i \in 1..len - 1 :
           Parent(i) # index => ~Above(data[i], data[Parent(i)])
      /\ index > 0 => \A i \in 1..len - 1 :
                        Parent(i) = index => ~Above(data[i], data[Parent(index)])
  BY <1>1 DEF Order, SiftsDown, Skips, Ordered
<1>3. \A i \in 1..len - 1 : Parent(i) \in 0..len - 1 /\ Parent(i) < i
  BY <1>1, Parents
<1>4. CASE b = index
  <2>1. pc' = "idle" /\ index' = 0 /\ data' = data
    BY <1>4 DEF sift_down, Returned
  <2>2. \A i \in 1..len - 1 : ~Above(data[i], data[Parent(i)])
    BY <1>1, <1>2, <1>4, BestIs
  <2>3. Order'
    BY <1>1, <2>1, <2>2
       DEF Order, HeapOrdered, SiftsUp, SiftsDown, Skips, Ordered
  <2> QED BY <1>1, <2>1, <2>3 DEF TypeOK, Inside, ItemsDistinct, Members
<1>5. CASE b # index
  <2>1. /\ b \in 1..len - 1 /\ Parent(b) = index /\ Above(data[b], data[index])
        /\ \A k \in 1..len - 1 : Parent(k) = index => ~Above(data[k], data[b])
    BY <1>1, <1>5, BestIs
  <2>2. Swap(index, b) /\ pc' = "down" /\ index' = b
    BY <1>5 DEF sift_down, SiftFrom
  <2> HIDE DEF b
  <2>3. /\ data' \in [0..len - 1 -> Items]
        /\ data'[index] = data[b] /\ data'[b] = data[index]
        /\ \A k \in 0..len - 1 : k # index /\ k # b => data'[k] = data[k]
        /\ ItemsDistinct' /\ Members' = Members
    BY <1>1, <1>5, <2>1, <2>2, SwapKeeps
  <2>4. TypeOK' /\ Inside'
    BY <1>1, <2>1, <2>2, <2>3 DEF TypeOK, Inside
  <2>5. ASSUME NEW i \in 1..len - 1, Parent(i) # b
        PROVE  ~Above(data'[i], data'[Parent(i)])
    <3>0. Parent(i) \in 0..len - 1 /\ Parent(i) < i /\ i \in 0..len - 1
      BY <1>1, <1>3
    <3>1. CASE i = index
      <4>1. data'[i] = data[b] /\ data'[Parent(i)] = data[Parent(index)]
        BY <2>3, <2>5, <3>0, <3>1
      <4>2. index > 0
        BY <3>1
      <4> QED BY <1>2, <2>1, <4>1, <4>2
    <3>2. CASE i = b
      BY <1>1, <2>1, <2>3, <3>2, AboveIsOrder
    <3>3. CASE i # b /\ Parent(i) = index
      <4>1. i # index /\ data'[i] = data[i] /\ data'[Parent(i)] = data[b]
        BY <2>3, <3>0, <3>3
      <4> QED BY <2>1, <3>3, <4>1
    <3>4. CASE i # b /\ i # index /\ Parent(i) # index
      <4>1. data'[i] = data[i] /\ data'[Parent(i)] = data[Parent(i)]
        BY <2>3, <2>5, <3>0, <3>4
      <4> QED BY <1>2, <3>4, <4>1
    <3> QED BY <3>1, <3>2, <3>3, <3>4
  <2>6. ASSUME NEW i \in 1..len - 1, Parent(i) = b
        PROVE  ~Above(data'[i], data'[Parent(b)])
    <3>1. i # b /\ i # index /\ i \in 0..len - 1 /\ b # index
      BY <1>1, <1>3, <2>1, <2>6
    <3>2. data'[i] = data[i] /\ data'[Parent(b)] = data[b]
      BY <2>1, <2>3, <3>1
    <3> QED BY <1>2, <2>6, <3>1, <3>2
  <2>7. Order'
    BY <1>1, <2>1, <2>2, <2>5, <2>6
       DEF Order, HeapOrdered, SiftsUp, SiftsDown, Skips, Ordered
  <2> QED BY <2>3, <2>4, <2>7
<1> QED BY <1>4, <1>5

-------------------------------------------------------------------------------
(* So do the operations; what each one does to the members is in the same     *)
(* lemma, for the promise below                                               *)

LEMMA Unchanged ==
  ASSUME Inv, UNCHANGED heapVars
  PROVE  Inv' /\ Members' = Members
<1>1. data' = data /\ len' = len /\ cap' = cap /\ index' = index /\ pc' = pc
  BY DEF heapVars
<1>2. TypeOK' /\ Inside'
  BY <1>1 DEF Inv, TypeOK, Inside
<1>3. ItemsDistinct'
  BY <1>1 DEF Inv, ItemsDistinct
<1>4. HeapOrdered'
  BY <1>1 DEF Inv, Order, HeapOrdered
<1>5. SiftsUp' /\ SiftsDown'
  BY <1>1 DEF Inv, Order, SiftsUp, SiftsDown, Ordered
<1>6. Skips'
  BY <1>1 DEF Inv, Order, Skips
<1>7. Members' = Members
  BY <1>1 DEF Members
<1> QED BY <1>2, <1>3, <1>4, <1>5, <1>6, <1>7 DEF Inv, Order

LEMMA PushInv ==
  ASSUME Inv, NEW x \in Items, binary_heap_push(x)
  PROVE  /\ Inv'
         /\ \/ last' = Answer("pushed", x) /\ Members' = Members \cup {x}
            \/ last' = Answer("refused", x) /\ Members' = Members
<1> USE HeapAssumption DEF Inv
<1>1. /\ len \in Nat /\ cap \in Nat /\ pc = "idle" /\ x \notin Members
      /\ \A k \in 0..len - 1 : data[k] \in Items
      /\ \A i \in 1..len - 1 : ~Above(data[i], data[Parent(i)])
  BY DEF TypeOK, Order, HeapOrdered, binary_heap_push
<1>2. CASE last' = Answer("refused", x) /\ UNCHANGED heapVars
  BY <1>2, Unchanged
<1>3. CASE /\ raw_buf_reserve(len + 1)
           /\ data' = [i \in 0..len |-> IF i = len THEN x ELSE data[i]]
           /\ len' = len + 1
           /\ SiftFrom("up", len)
           /\ last' = Answer("pushed", x)
  <2>1. /\ len' - 1 = len /\ pc' = "up" /\ index' = len
        /\ data' \in [0..len -> Items] /\ data'[len] = x
        /\ \A k \in 0..len - 1 : data'[k] = data[k]
    BY <1>1, <1>3 DEF SiftFrom
  <2>2. cap' \in 0..MaxCap /\ len' <= cap'
    <3>1. CASE len + 1 <= cap
      BY <1>1, <1>3, <3>1 DEF raw_buf_reserve, TypeOK
    <3>2. CASE ~(len + 1 <= cap)
      <4>1. cap' \in len + 1..MaxCap
        BY <1>3, <3>2 DEF raw_buf_reserve
      <4> QED BY <1>1, <1>3, <4>1
    <3> QED BY <3>1, <3>2
  <2>3. TypeOK' /\ Inside'
    BY <1>1, <1>3, <2>1, <2>2 DEF TypeOK, Inside
  <2>4. Members' = Members \cup {x}
    <3>1. \A k \in 0..len - 1 : data[k] \in Members'
      BY <1>1, <2>1 DEF Members
    <3>2. x \in Members'
      BY <1>1, <2>1 DEF Members
    <3>3. \A k \in 0..len : data'[k] \in Members \cup {x}
      BY <1>1, <2>1 DEF Members
    <3>4. Members' \subseteq Members \cup {x}
      BY <2>1, <3>3 DEF Members
    <3>5. Members \subseteq Members'
      BY <3>1 DEF Members
    <3> QED BY <3>2, <3>4, <3>5
  <2>5. ItemsDistinct'
    <3>1. \A k \in 0..len - 1 : data[k] # x
      BY <1>1 DEF Members
    <3> QED BY <1>1, <1>3, <2>1, <3>1 DEF ItemsDistinct
  <2>6. \A i \in 1..len : Parent(i) \in 0..len - 1
    BY <1>1, Parents
  <2>7. \A i \in 1..len : i # len => ~Above(data'[i], data'[Parent(i)])
    <3> SUFFICES ASSUME NEW i \in 1..len, i # len
                 PROVE  ~Above(data'[i], data'[Parent(i)])
      OBVIOUS
    <3>1. i \in 1..len - 1 /\ data'[i] = data[i]
      BY <1>1, <2>1
    <3>2. data'[Parent(i)] = data[Parent(i)]
      BY <2>1, <2>6
    <3> QED BY <1>1, <3>1, <3>2
  <2>8. Order'
    BY <1>1, <1>3, <2>1, <2>6, <2>7
       DEF Order, HeapOrdered, SiftsUp, SiftsDown, Skips, Ordered
  <2> QED BY <1>3, <2>3, <2>4, <2>5, <2>8
<1> QED BY <1>2, <1>3 DEF binary_heap_push

LEMMA PopInv ==
  ASSUME Inv, binary_heap_pop
  PROVE  /\ Inv'
         /\ \/ /\ len > 0 /\ last' = Answer("popped", data[0])
               /\ Members' = Members \ {data[0]}
            \/ /\ last' = Answer("empty", NoItem)
               /\ Members = {} /\ Members' = Members
<1> USE HeapAssumption DEF Inv
<1>1. /\ len \in Nat /\ cap \in Nat /\ pc = "idle"
      /\ \A i \in 1..len - 1 : ~Above(data[i], data[Parent(i)])
  BY DEF TypeOK, Order, HeapOrdered, binary_heap_pop
<1>2. CASE len = 0
  <2>1. last' = Answer("empty", NoItem) /\ UNCHANGED heapVars
    BY <1>2 DEF binary_heap_pop
  <2>2. Members = {}
    BY <1>2 DEF Members
  <2> QED BY <2>1, <2>2, Unchanged
<1>3. CASE len # 0
  <2>1. /\ last' = Answer("popped", data[0]) /\ data' = Moved(0)
        /\ len' = len - 1 /\ cap' = cap
        /\ index' = 0 /\ pc' = IF len > 1 THEN "down" ELSE "idle"
    BY <1>3 DEF binary_heap_pop, SiftFrom, Returned
  <2>2. 0 \in 0..len - 1 /\ len' - 1 = len - 2
    BY <1>1, <1>3, <2>1
  <2>3. /\ data' \in [0..len - 2 -> Items] /\ len' \in Nat
        /\ \A k \in 0..len - 2 : k # 0 => data'[k] = data[k]
        /\ ItemsDistinct' /\ Members' = Members \ {data[0]}
    BY <2>1, <2>2, MovedKeeps
  <2>4. TypeOK' /\ Inside'
    BY <1>1, <2>1, <2>2, <2>3 DEF TypeOK, Inside
  <2>5. \A i \in 1..len - 2 : Parent(i) \in 0..len - 2
    BY <1>1, Parents
  <2>6. \A i \in 1..len - 2 :
          Parent(i) # 0 => ~Above(data'[i], data'[Parent(i)])
    BY <1>1, <2>3, <2>5
  <2>7. Order'
    BY <1>1, <2>1, <2>2, <2>6
       DEF Order, HeapOrdered, SiftsUp, SiftsDown, Skips, Ordered
  <2> QED BY <1>1, <1>3, <2>1, <2>3, <2>4, <2>7
<1> QED BY <1>2, <1>3

LEMMA RemoveInv ==
  ASSUME Inv, NEW equals \in SUBSET Items, binary_heap_remove(equals)
  PROVE  /\ Inv'
         /\ \/ \E x \in Members \cap equals :
                  last' = Answer("removed", x) /\ Members' = Members \ {x}
            \/ /\ last' = Answer("absent", NoItem)
               /\ Members \cap equals = {} /\ Members' = Members
<1> USE HeapAssumption DEF Inv
<1>1. /\ len \in Nat /\ cap \in Nat /\ pc = "idle"
      /\ \A k \in 0..len - 1 : data[k] \in Items
      /\ \A i \in 1..len - 1 : ~Above(data[i], data[Parent(i)])
  BY DEF TypeOK, Order, HeapOrdered, binary_heap_remove
<1>2. CASE /\ Matches(equals) = {} /\ last' = Answer("absent", NoItem)
           /\ UNCHANGED heapVars
  <2>1. Members \cap equals = {}
    BY <1>2 DEF Members, Matches
  <2> QED BY <1>2, <2>1, Unchanged
<1>3. ASSUME NEW i \in Matches(equals), last' = Answer("removed", data[i]),
             data' = Moved(i), len' = len - 1, SiftHole(i), cap' = cap
      PROVE  /\ Inv'
             /\ \E x \in Members \cap equals :
                  last' = Answer("removed", x) /\ Members' = Members \ {x}
  <2> DEFINE e == data[len - 1]
  <2>1. i \in 0..len - 1 /\ len' - 1 = len - 2 /\ data[i] \in Members \cap equals
    BY <1>1, <1>3 DEF Matches, Members
  <2>2. /\ data' \in [0..len - 2 -> Items] /\ len' \in Nat
        /\ i < len - 1 => data'[i] = e
        /\ \A k \in 0..len - 2 : k # i => data'[k] = data[k]
        /\ ItemsDistinct' /\ Members' = Members \ {data[i]}
    BY <1>3, <2>1, MovedKeeps
  <2>3. /\ i = len - 1 => pc' = "idle" /\ index' = 0
        /\ i # len - 1 /\ i > 0 /\ Above(e, data[Parent(i)]) =>
             pc' = "up" /\ index' = i
        /\ i # len - 1 /\ ~(i > 0 /\ Above(e, data[Parent(i)])) =>
             pc' = "down" /\ index' = i
    BY <1>3 DEF SiftHole, Returned, SiftFrom
  <2>4. TypeOK' /\ Inside'
    BY <1>1, <1>3, <2>1, <2>2, <2>3 DEF TypeOK, Inside
  <2>5. \A k \in 1..len - 1 : Parent(k) \in 0..len - 2 /\ Parent(k) < k
    BY <1>1, Parents
  <2> HIDE DEF e
  \* Away from the hole nothing changed.
  <2>6. \A k \in 1..len - 2 :
          k # i /\ Parent(k) # i => ~Above(data'[k], data'[Parent(k)])
    <3> SUFFICES ASSUME NEW k \in 1..len - 2, k # i, Parent(k) # i
                 PROVE  ~Above(data'[k], data'[Parent(k)])
      OBVIOUS
    <3>1. k \in 1..len - 1 /\ data'[k] = data[k]
      BY <1>1, <2>2
    <3>2. Parent(k) \in 0..len - 2 /\ data'[Parent(k)] = data[Parent(k)]
      BY <2>2, <2>5, <3>1
    <3> QED BY <1>1, <3>1, <3>2
  \* What hung under the hole is in order with what is above it.
  <2>7. \A k \in 1..len - 2 :
          Parent(k) = i /\ i > 0 => /\ ~Above(data'[k], data'[Parent(i)])
                                    /\ data'[k] = data[k]
                                    /\ data'[Parent(i)] = data[Parent(i)]
    <3> SUFFICES ASSUME NEW k \in 1..len - 2, Parent(k) = i, i > 0
                 PROVE  /\ ~Above(data'[k], data'[Parent(i)])
                        /\ data'[k] = data[k]
                        /\ data'[Parent(i)] = data[Parent(i)]
      OBVIOUS
    <3>1. /\ k \in 1..len - 1 /\ i \in 1..len - 1 /\ k # i
          /\ Parent(i) \in 0..len - 2 /\ Parent(i) # i
      BY <1>1, <2>1, <2>5
    <3>2. data'[k] = data[k] /\ data'[Parent(i)] = data[Parent(i)]
      BY <2>2, <3>1
    <3>3. ~Above(data[k], data[i]) /\ ~Above(data[i], data[Parent(i)])
      BY <1>1, <3>1
    <3>4. data[k] \in Items /\ data[i] \in Items /\ data[Parent(i)] \in Items
      BY <1>1, <3>1
    <3> QED BY <3>2, <3>3, <3>4, AboveIsOrder
  <2>8. CASE i = len - 1
    <3>1. \A k \in 1..len - 2 : k # i /\ Parent(k) # i
      BY <1>1, <2>5, <2>8
    <3> QED BY <1>1, <2>1, <2>2, <2>3, <2>4, <2>6, <2>8, <3>1, <1>3
            DEF Order, HeapOrdered, SiftsUp, SiftsDown, Skips, Ordered
  <2>9. CASE i # len - 1 /\ i > 0 /\ Above(e, data[Parent(i)])
    <3>1. pc' = "up" /\ index' = i /\ data'[i] = e
      BY <1>1, <2>1, <2>2, <2>3, <2>9
    <3>2. \A k \in 1..len - 2 :
            Parent(k) = i => ~Above(data'[k], data'[Parent(k)])
      <4> SUFFICES ASSUME NEW k \in 1..len - 2, Parent(k) = i
                   PROVE  ~Above(data[k], e)
        BY <2>7, <2>9, <3>1
      <4>1. ~Above(data[k], data[Parent(i)])
        BY <2>7, <2>9
      <4>2. data[k] \in Items /\ e \in Items /\ data[Parent(i)] \in Items
        BY <1>1, <2>1, <2>5, <2>9 DEF e
      <4> QED BY <2>9, <4>1, <4>2, AboveIsOrder
    <3>3. Order'
      BY <1>1, <2>1, <2>6, <2>7, <3>1, <3>2
         DEF Order, HeapOrdered, SiftsUp, SiftsDown, Skips, Ordered
    <3> QED BY <1>3, <2>1, <2>2, <2>4, <3>3
  <2>10. CASE i # len - 1 /\ ~(i > 0 /\ Above(e, data[Parent(i)]))
    <3>1. pc' = "down" /\ index' = i /\ data'[i] = e
      BY <1>1, <2>1, <2>2, <2>3, <2>10
    <3>2. i \in 1..len - 2 => ~Above(data'[i], data'[Parent(i)])
      <4> SUFFICES ASSUME i \in 1..len - 2 PROVE ~Above(e, data'[Parent(i)])
        BY <3>1
      <4>1. Parent(i) \in 0..len - 2 /\ Parent(i) # i
        BY <1>1, <2>5
      <4> QED BY <2>2, <2>10, <4>1
    <3>3. Order'
      BY <1>1, <2>1, <2>6, <2>7, <3>1, <3>2
         DEF Order, HeapOrdered, SiftsUp, SiftsDown, Skips, Ordered
    <3> QED BY <1>3, <2>1, <2>2, <2>4, <3>3
  <2> QED BY <2>8, <2>9, <2>10
<1> QED BY <1>2, <1>3 DEF binary_heap_remove

LEMMA EmptiedInv ==
  ASSUME Inv, NEW room \in {cap, 0}, Emptied(room)
  PROVE  Inv' /\ Members' = {} /\ last' = Answer("cleared", NoItem)
<1>1. /\ data' = [i \in {} |-> NoItem] /\ len' = 0 /\ cap' = room
      /\ pc' = "idle" /\ index' = index /\ room \in 0..MaxCap
  BY HeapAssumption DEF Emptied, Inv, TypeOK
<1>2. 0..len' - 1 = {} /\ 1..len' - 1 = {}
  BY <1>1
<1>3. data' \in [0..len' - 1 -> Items]
  BY <1>1, <1>2
<1>4. index = 0
  BY DEF Inv, Inside, Emptied
<1> QED BY <1>1, <1>2, <1>3, <1>4
        DEF Inv, TypeOK, Inside, ItemsDistinct, Order, HeapOrdered, SiftsUp,
            SiftsDown, Skips, Ordered, Members, Emptied

LEMMA ReserveInv ==
  ASSUME Inv, NEW n \in 0..MaxCap, binary_heap_reserve(n) PROVE Inv'
<1> USE HeapAssumption DEF Inv
<1>1. /\ data' = data /\ len' = len /\ pc' = pc /\ index' = index
      /\ cap' \in IF len + n <= cap THEN {cap} ELSE len + n..MaxCap
  BY DEF binary_heap_reserve, raw_buf_reserve
<1>2. cap' \in 0..MaxCap /\ len \in 0..cap'
  BY <1>1 DEF TypeOK
<1> QED BY <1>1, <1>2 DEF TypeOK, Inside, ItemsDistinct, Order, HeapOrdered,
                          SiftsUp, SiftsDown, Skips, Ordered

-------------------------------------------------------------------------------
LEMMA Invariance == Spec => []Inv
<1>1. Init => Inv
  <2> SUFFICES ASSUME Init PROVE Inv
    OBVIOUS
  <2>1. len = 0 /\ 0..len - 1 = {} /\ 1..len - 1 = {} /\ cap \in 0..MaxCap
    BY HeapAssumption DEF Init
  <2>2. data \in [0..len - 1 -> Items]
    BY <2>1 DEF Init
  <2> QED BY <2>1, <2>2 DEF Init, Inv, TypeOK, Inside, ItemsDistinct, Order,
                            HeapOrdered, SiftsUp, SiftsDown, Skips
<1>2. Inv /\ [Next]_vars => Inv'
  <2> SUFFICES ASSUME Inv, [Next]_vars PROVE Inv'
    OBVIOUS
  <2>1. CASE Sift
    BY <2>1, SiftUpInv, SiftDownInv DEF Sift
  <2>2. ASSUME NEW n \in 0..MaxCap, binary_heap_reserve(n) PROVE Inv'
    BY <2>2, ReserveInv
  <2>3. ASSUME NEW x \in Items, binary_heap_push(x) PROVE Inv'
    BY <2>3, PushInv
  <2>4. CASE binary_heap_pop
    BY <2>4, PopInv
  <2>5. ASSUME NEW equals \in SUBSET Items, binary_heap_remove(equals) PROVE Inv'
    BY <2>5, RemoveInv
  <2>6. CASE binary_heap_clear \/ binary_heap_drop
    BY <2>6, EmptiedInv DEF binary_heap_clear, binary_heap_drop
  <2>7. CASE UNCHANGED vars
    BY <2>7 DEF vars, heapVars, Inv, TypeOK, Inside, ItemsDistinct, Order,
                HeapOrdered, SiftsUp, SiftsDown, Skips, Ordered
  <2> QED BY <2>1, <2>2, <2>3, <2>4, <2>5, <2>6, <2>7 DEF Next
<1> QED BY <1>1, <1>2, PTL DEF Spec

\* Every variable keeps its type, and no index ever leaves the part of the
\* storage that holds elements.
THEOREM TypesHold == Spec => []TypeOK
<1>1. Inv => TypeOK
  BY DEF Inv
<1> QED BY <1>1, Invariance, PTL

\* Between two calls no element is above its parent, whatever pushes, pops and
\* removals from the middle came before.
THEOREM StaysOrdered == Spec => []HeapOrdered
<1>1. Inv => HeapOrdered
  BY DEF Inv, Order
<1> QED BY <1>1, Invariance, PTL

\* The array is a priority queue: pop takes a greatest element, remove one that
\* is equal and only that one, and a push either adds or leaves all as it was.
THEOREM HeapIsQueue == Spec => KeepsOrder
<1>1. Init => Queue!QueueInit
  BY DEF Init, Queue!QueueInit, Queue!Answer, Answer, Members
<1>2. Inv /\ [Next]_vars => [Queue!QueueNext]_(Queue!queueVars)
  <2> SUFFICES ASSUME Inv, [Next]_vars
               PROVE  [Queue!QueueNext]_(Queue!queueVars)
    OBVIOUS
  <2> USE DEF Answer, Queue!Answer
  <2>1. CASE Sift
    <3>1. Members' = Members
      BY <2>1, SiftUpInv, SiftDownInv DEF Sift
    <3>2. last' = last
      BY <2>1 DEF Sift, sift_up, sift_down
    <3> QED BY <3>1, <3>2 DEF Queue!queueVars
  <2>2. ASSUME NEW n \in 0..MaxCap, binary_heap_reserve(n)
        PROVE  UNCHANGED Queue!queueVars
    BY <2>2 DEF binary_heap_reserve, Queue!queueVars, Members
  <2>3. ASSUME NEW x \in Items, binary_heap_push(x)
        PROVE  Queue!Add(x) \/ Queue!Refuse(x)
    <3>1. x \notin Members
      BY <2>3 DEF binary_heap_push
    <3> QED BY <2>3, <3>1, PushInv DEF Queue!Add, Queue!Refuse
  <2>4. CASE binary_heap_pop
    <3>1. CASE Members = {} /\ last' = Answer("empty", NoItem)
               /\ Members' = Members
      BY <3>1 DEF Queue!Empty, Queue!QueueNext
    <3>2. CASE /\ len > 0 /\ last' = Answer("popped", data[0])
               /\ Members' = Members \ {data[0]}
      <4>1. 0 \in 0..len - 1 /\ data[0] \in Members /\ data[0] \in Items
        BY <3>2, HeapAssumption DEF Members, Inv, TypeOK
      <4>2. ASSUME NEW y \in Members PROVE ~Queue!Above(y, data[0])
        <5>1. PICK i \in 0..len - 1 : y = data[i]
          BY DEF Members
        <5>2. ~Above(data[i], data[0])
          BY <2>4, RootIsGreatest DEF Inv, Order, binary_heap_pop
        <5> QED BY <5>1, <5>2 DEF Above, Queue!Above
      <4>3. Queue!TakeGreatest(data[0])
        BY <3>2, <4>1, <4>2 DEF Queue!TakeGreatest
      <4> QED BY <4>1, <4>3 DEF Queue!QueueNext
    <3> QED BY <2>4, <3>1, <3>2, PopInv
  <2>5. ASSUME NEW equals \in SUBSET Items, binary_heap_remove(equals)
        PROVE  Queue!QueueNext
    <3>1. CASE /\ last' = Answer("absent", NoItem)
               /\ Members \cap equals = {} /\ Members' = Members
      <4>1. Queue!Absent(equals)
        BY <3>1 DEF Queue!Absent
      <4> QED BY <4>1 DEF Queue!QueueNext
    <3>2. ASSUME NEW x \in Members \cap equals, last' = Answer("removed", x),
                 Members' = Members \ {x}
          PROVE  Queue!QueueNext
      <4>1. Queue!TakeEqual(x, equals) /\ x \in Items
        BY <3>2 DEF Queue!TakeEqual
      <4> QED BY <4>1 DEF Queue!QueueNext
    <3> QED BY <2>5, <3>1, <3>2, RemoveInv
  <2>6. CASE binary_heap_clear \/ binary_heap_drop
    <3>1. Members' = {} /\ last' = Answer("cleared", NoItem)
      BY <2>6, EmptiedInv DEF binary_heap_clear, binary_heap_drop
    <3> QED BY <3>1 DEF Queue!Clear, Queue!QueueNext
  <2>7. CASE UNCHANGED vars
    BY <2>7 DEF vars, heapVars, Members, Queue!queueVars
  <2> QED BY <2>1, <2>2, <2>3, <2>4, <2>5, <2>6, <2>7
          DEF Next, Queue!QueueNext
<1> QED BY <1>1, <1>2, Invariance, PTL DEF Spec, KeepsOrder, Queue!QueueSpec
===============================================================================
