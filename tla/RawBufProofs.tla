------------------------------ MODULE RawBufProofs ------------------------------
(***************************************************************************)
(* What the proofs about containers and strings share: least and greatest  *)
(* numbers, the storage of RawBuf for any capacity, and spliced sequences. *)
(***************************************************************************)
EXTENDS RawBuf, SequenceTheorems, FiniteSetTheorems, WellFoundedInduction, TLAPS

(* Numbers *)

\* A set of numbers that is not empty has a least element.
LEMMA LeastNumber ==
  ASSUME NEW S, S \subseteq Nat, S # {}
  PROVE  \E m \in S : \A k \in S : m <= k
<1>1. PICK m \in S : \A k \in S : ~(<<k, m>> \in OpToRel(<, Nat))
  BY NatLessThanWellFounded, WFMin, Zenon
<1>2. \A k \in S : ~(k < m)
  BY <1>1, Zenon DEF OpToRel
<1>3. m \in Nat /\ \A k \in S : k \in Nat
  OBVIOUS
<1> QED
  BY <1>2, <1>3

\* A bounded one has a greatest.
LEMMA GreatestNumber ==
  ASSUME NEW n \in Nat, NEW S, S \subseteq 0..n, S # {}
  PROVE  \E m \in S : \A k \in S : k <= m
<1> DEFINE T == {n - k : k \in S}
<1>1. T \subseteq Nat /\ T # {}
  <2>1. \A k \in S : n - k \in Nat
    OBVIOUS
  <2> QED
    BY <2>1
<1>2. PICK t \in T : \A k \in T : t <= k
  <2> HIDE DEF T
  <2> QED
    BY <1>1, LeastNumber
<1>3. PICK m \in S : t = n - m
  OBVIOUS
<1>4. ASSUME NEW k \in S PROVE k <= m
  <2>1. n - k \in T
    OBVIOUS
  <2>2. k \in 0..n /\ m \in 0..n /\ n - m <= n - k
    BY <1>2, <1>3, <2>1
  <2> QED
    BY <2>2
<1> QED
  BY <1>4
-------------------------------------------------------------------------------
(* The storage *)

\* The step of raw_buf_reserve's loop.
More(room) == room + (IF room < 2 THEN 1 ELSE room \div 2)

LEMMA MoreIsMore == \A room \in Nat : More(room) \in Nat /\ More(room) > room
<1> SUFFICES ASSUME NEW room \in Nat PROVE More(room) \in Nat /\ More(room) > room
  OBVIOUS
<1>1. room >= 2 => room \div 2 \in Nat /\ room \div 2 > 0
  OBVIOUS
<1> QED
  BY <1>1 DEF More

\* There is a function such as the loop computes: the least number that is
\* enough, of those that it reaches.
LEMMA GrowthIsDefined ==
  ASSUME NEW n \in Nat
  PROVE  \E f : f = [room \in Nat |-> IF room >= n THEN room ELSE f[More(room)]]
<1> DEFINE Closed(S) == \A k \in S : More(k) \in S
           Reached(r) == {m \in Nat : \A S \in SUBSET Nat : r \in S /\ Closed(S) => m \in S}
           Enough(r) == {m \in Reached(r) : m >= n}
           First(S) == CHOOSE m \in S : \A k \in S : m <= k
           f == [room \in Nat |-> First(Enough(room))]
<1>1. ASSUME NEW r \in Nat, r >= n PROVE First(Enough(r)) = r
  <2>1. r \in Reached(r)
    OBVIOUS
  <2>2. ASSUME NEW m \in Reached(r) PROVE m \in Nat /\ m >= r
    <3> DEFINE S == {k \in Nat : k >= r}
    <3>1. S \in SUBSET Nat /\ r \in S /\ Closed(S)
      BY MoreIsMore
    <3> QED
      BY <3>1
  <2> HIDE DEF Reached
  <2>3. r \in Enough(r) /\ \A k \in Enough(r) : r <= k
    BY <1>1, <2>1, <2>2
  <2>4. \A m \in Enough(r) : (\A k \in Enough(r) : m <= k) => m = r
    <3>1. \A m \in Enough(r) : m <= r => m = r
      BY <2>2
    <3> QED
      BY <2>3, <3>1
  <2> HIDE DEF Enough
  <2> QED
    BY <2>3, <2>4
<1>2. ASSUME NEW r \in Nat, ~(r >= n) PROVE Enough(r) = Enough(More(r))
  <2>1. ASSUME NEW m \in Enough(r) PROVE m \in Enough(More(r))
    <3>1. m \in Nat /\ m >= n /\ m # r
      BY <1>2
    <3>2. ASSUME NEW S \in SUBSET Nat, More(r) \in S, Closed(S) PROVE m \in S
      <4>1. S \cup {r} \in SUBSET Nat /\ r \in S \cup {r} /\ Closed(S \cup {r})
        BY <3>2
      <4>2. m \in S \cup {r}
        BY <4>1
      <4> QED
        BY <3>1, <4>2
    <3> QED
      BY <3>1, <3>2
  <2>2. ASSUME NEW m \in Enough(More(r)) PROVE m \in Enough(r)
    <3>1. ASSUME NEW S \in SUBSET Nat, r \in S, Closed(S) PROVE m \in S
      <4>1. More(r) \in S
        BY <3>1
      <4> QED
        BY <3>1, <4>1
    <3> QED
      BY <3>1
  <2> QED
    BY <2>1, <2>2
<1> HIDE DEF Enough, First
<1>3. f = [room \in Nat |-> IF room >= n THEN room ELSE f[More(room)]]
  <2>1. ASSUME NEW r \in Nat
        PROVE  f[r] = IF r >= n THEN r ELSE f[More(r)]
    <3>1. More(r) \in Nat
      BY MoreIsMore
    <3> QED
      BY <1>1, <1>2, <3>1
  <2> HIDE DEF f
  <2>2. f = [room \in Nat |-> f[room]]
    BY DEF f
  <2> QED
    BY <2>1, <2>2
<1> HIDE DEF f
<1> QED
  BY <1>3

\* raw_buf_reserve's loop ends with room enough.
LEMMA GrownIsEnough ==
  ASSUME NEW cap \in Nat, NEW n \in Nat
  PROVE  Grown(cap, n) \in Nat /\ Grown(cap, n) >= n
<1> DEFINE g == CHOOSE f : f = [room \in Nat |-> IF room >= n THEN room ELSE f[More(room)]]
<1>1. Grown(cap, n) = g[IF cap = 0 THEN FirstCapacity ELSE cap]
  BY DEF Grown, More
<1>2. g = [room \in Nat |-> IF room >= n THEN room ELSE g[More(room)]]
  BY GrowthIsDefined
<1> HIDE DEF g
<1> DEFINE Bad == {room \in Nat : ~(g[room] \in Nat /\ g[room] >= n)}
<1>3. Bad = {}
  <2> SUFFICES ASSUME Bad # {} PROVE FALSE
    OBVIOUS
  <2>1. Bad \subseteq 0..n
    BY <1>2
  <2>2. PICK m \in Bad : \A k \in Bad : k <= m
    <3> HIDE DEF Bad
    <3> QED
      BY <2>1, GreatestNumber
  <2>3. m \in Nat /\ More(m) \in Nat /\ More(m) > m
    BY MoreIsMore
  <2>4. More(m) \notin Bad
    BY <2>2, <2>3
  <2>5. g[More(m)] \in Nat /\ g[More(m)] >= n
    BY <2>3, <2>4
  <2> QED
    BY <1>2, <2>3, <2>5
<1>4. FirstCapacity \in Nat
  BY RawBufAssumption
<1> QED
  BY <1>1, <1>3, <1>4
IsBuffer(b) ==
  /\ b = [i \in DOMAIN b |-> b[i]]
  /\ \E k \in Nat : DOMAIN b = 0..k - 1

LEMMA CapIs ==
  ASSUME NEW b, IsBuffer(b)
  PROVE  CapOf(b) \in Nat /\ DOMAIN b = 0..CapOf(b) - 1
<1>1. PICK k \in Nat : DOMAIN b = 0..k - 1
  BY DEF IsBuffer
<1>2. Cardinality(0..k - 1) = k
  <2>1. Cardinality(0..k - 1) = IF 0 > k - 1 THEN 0 ELSE (k - 1) - 0 + 1
    BY FS_Interval
  <2> QED
    BY <2>1
<1> QED
  BY <1>1, <1>2 DEF CapOf

LEMMA BufferIs ==
  ASSUME NEW k \in Nat, NEW b, b = [i \in 0..k - 1 |-> b[i]]
  PROVE  IsBuffer(b) /\ CapOf(b) = k
<1>1. DOMAIN b = 0..k - 1
  OBVIOUS
<1>2. IsBuffer(b)
  BY <1>1 DEF IsBuffer
<1>3. CapOf(b) \in Nat /\ 0..CapOf(b) - 1 = 0..k - 1
  BY <1>1, <1>2, CapIs
<1>4. CapOf(b) = k
  <2>1. CASE CapOf(b) < k
    BY <1>3, <2>1
  <2>2. CASE CapOf(b) > k
    BY <1>3, <2>2
  <2> QED
    BY <1>3, <2>1, <2>2
<1> QED
  BY <1>2, <1>4

\* raw_buf_reserve is refused, and nothing has changed, or there is room and
\* the slots are as they were.
LEMMA ReservedIs ==
  ASSUME NEW b, IsBuffer(b), NEW n \in Nat, NEW r \in Reserved(b, n)
  PROVE  /\ r.ok \in BOOLEAN /\ IsBuffer(r.buf)
         /\ ~r.ok => r.buf = b
         /\ r.ok => CapOf(r.buf) >= n
         /\ CapOf(r.buf) >= CapOf(b)
         /\ \A i \in 0..CapOf(b) - 1 : r.buf[i] = b[i]
         /\ \A i \in CapOf(b)..CapOf(r.buf) - 1 : r.buf[i] = Blank
         /\ CapOf(r.buf) > CapOf(b) => CapOf(r.buf) <= MaxCapacity
<1> DEFINE new == Grown(CapOf(b), n)
           wide == Extended(b, new)
<1>1. CapOf(b) \in Nat /\ DOMAIN b = 0..CapOf(b) - 1
  BY CapIs
<1>2. new \in Nat /\ new >= n
  BY <1>1, GrownIsEnough
<1>3. CASE r = [ok |-> TRUE, buf |-> b] /\ n <= CapOf(b)
  BY <1>1, <1>3
<1>4. CASE r = [ok |-> FALSE, buf |-> b]
  BY <1>1, <1>4
<1>5. CASE r = [ok |-> TRUE, buf |-> wide] /\ n > CapOf(b) /\ new <= MaxCapacity
  <2> HIDE DEF new
  <2>1. wide = [i \in 0..new - 1 |-> IF i \in DOMAIN b THEN b[i] ELSE Blank]
    BY DEF Extended
  <2>2. wide = [i \in 0..new - 1 |-> wide[i]]
    BY <2>1
  <2>3. IsBuffer(wide) /\ CapOf(wide) = new
    <3> HIDE DEF wide
    <3> QED
      BY <1>2, <2>2, BufferIs
  <2>4. /\ \A i \in 0..CapOf(b) - 1 : wide[i] = b[i]
        /\ \A i \in CapOf(b)..new - 1 : wide[i] = Blank
    BY <1>1, <1>2, <1>5, <2>1
  <2> HIDE DEF wide
  <2> QED
    BY <1>1, <1>2, <1>5, <2>3, <2>4
<1>6. \/ r = [ok |-> TRUE, buf |-> b] /\ n <= CapOf(b)
      \/ r = [ok |-> FALSE, buf |-> b]
      \/ r = [ok |-> TRUE, buf |-> wide] /\ n > CapOf(b) /\ new <= MaxCapacity
  BY <1>1 DEF Reserved
<1> QED
  BY <1>3, <1>4, <1>5, <1>6
-------------------------------------------------------------------------------
(* Sequences *)

LEMMA SameSequence ==
  ASSUME NEW S, NEW s \in Seq(S), NEW t \in Seq(S), Len(s) = Len(t),
         \A i \in 1..Len(s) : s[i] = t[i]
  PROVE  s = t
OBVIOUS

\* SequenceSpec's Spliced of any sequence.
Splice(s, i, drop, new) ==
  SubSeq(s, 1, i) \o new \o SubSeq(s, i + drop + 1, Len(s))

LEMMA SpliceIs ==
  ASSUME NEW S, NEW s \in Seq(S), NEW new \in Seq(S), NEW drop \in Nat,
         NEW i \in Nat, i + drop <= Len(s)
  PROVE  /\ Splice(s, i, drop, new) \in Seq(S)
         /\ Len(Splice(s, i, drop, new)) = Len(s) - drop + Len(new)
         /\ \A j \in 1..Len(s) - drop + Len(new) :
              Splice(s, i, drop, new)[j] =
                IF j <= i THEN s[j]
                ELSE IF j <= i + Len(new) THEN new[j - i]
                ELSE s[j - Len(new) + drop]
<1> DEFINE before == SubSeq(s, 1, i)
           after == SubSeq(s, i + drop + 1, Len(s))
<1>1. Len(s) \in Nat /\ Len(new) \in Nat /\ \A k \in 1..Len(s) : s[k] \in S
  BY LenProperties, ElementOfSeq
<1>2. before \in Seq(S) /\ Len(before) = i /\ \A k \in 1..i : before[k] = s[k]
  <2>1. /\ before \in Seq(S) /\ Len(before) = (IF 1 <= i THEN i - 1 + 1 ELSE 0)
        /\ \A k \in 1..i - 1 + 1 : before[k] = s[1 + k - 1]
    <3>1. \A k \in 1..i : s[k] \in S
      BY <1>1
    <3> QED
      BY <3>1, SubSeqProperties
  <2> HIDE DEF before
  <2> QED
    BY <2>1
<1>3. /\ after \in Seq(S) /\ Len(after) = Len(s) - i - drop
      /\ \A k \in 1..Len(s) - i - drop : after[k] = s[k + i + drop]
  <2> DEFINE m == i + drop + 1
  <2>1. m \in Int /\ Len(s) \in Int /\ \A k \in m..Len(s) : s[k] \in S
    BY <1>1
  <2>2. /\ SubSeq(s, m, Len(s)) \in Seq(S)
        /\ Len(SubSeq(s, m, Len(s))) = IF m <= Len(s) THEN Len(s) - m + 1 ELSE 0
        /\ \A k \in 1..Len(s) - m + 1 : SubSeq(s, m, Len(s))[k] = s[m + k - 1]
    <3> HIDE DEF m
    <3> QED
      BY <2>1, SubSeqProperties
  <2> HIDE DEF after
  <2>3. after = SubSeq(s, m, Len(s))
    BY DEF after
  <2> QED
    BY <1>1, <2>2, <2>3
<1> HIDE DEF before, after
<1>4. /\ before \o new \in Seq(S) /\ Len(before \o new) = i + Len(new)
      /\ \A k \in 1..i + Len(new) :
           (before \o new)[k] = IF k <= i THEN s[k] ELSE new[k - i]
  <2>1. /\ before \o new \in Seq(S) /\ Len(before \o new) = Len(before) + Len(new)
        /\ \A k \in 1..Len(before) + Len(new) :
             (before \o new)[k] = IF k <= Len(before) THEN before[k] ELSE new[k - Len(before)]
    BY <1>2, ConcatProperties
  <2> QED
    BY <1>1, <1>2, <2>1
<1> DEFINE d == before \o new
<1>5. /\ d \o after \in Seq(S) /\ Len(d \o after) = Len(d) + Len(after)
      /\ \A k \in 1..Len(d) + Len(after) :
           (d \o after)[k] = IF k <= Len(d) THEN d[k] ELSE after[k - Len(d)]
  <2>1. d \in Seq(S)
    BY <1>4
  <2> HIDE DEF d
  <2>2. after \in Seq(S)
    BY <1>3
  <2> QED
    BY <2>1, <2>2, ConcatProperties, Zenon
<1>6. Splice(s, i, drop, new) = d \o after
  BY DEF Splice, before, after
<1>7. ASSUME NEW j \in 1..Len(s) - drop + Len(new)
      PROVE  (d \o after)[j] =
                IF j <= i THEN s[j]
                ELSE IF j <= i + Len(new) THEN new[j - i]
                ELSE s[j - Len(new) + drop]
  <2>1. j \in 1..Len(d) + Len(after) /\ Len(d) = i + Len(new)
    BY <1>1, <1>3, <1>4
  <2>2. CASE j <= i + Len(new)
    <3>1. (d \o after)[j] = d[j]
      BY <1>5, <2>1, <2>2
    <3>2. d[j] = IF j <= i THEN s[j] ELSE new[j - i]
      BY <1>1, <1>4, <2>2
    <3> QED
      BY <1>1, <2>2, <3>1, <3>2
  <2>3. CASE ~(j <= i + Len(new))
    <3>1. (d \o after)[j] = after[j - (i + Len(new))]
      BY <1>1, <1>5, <2>1, <2>3
    <3>2. j - (i + Len(new)) \in 1..Len(s) - i - drop
      BY <1>1, <2>3
    <3>3. after[j - (i + Len(new))] = s[j - (i + Len(new)) + i + drop]
      BY <1>3, <3>2
    <3>4. j - (i + Len(new)) + i + drop = j - Len(new) + drop
      BY <1>1
    <3> QED
      BY <1>1, <2>3, <3>1, <3>3, <3>4
  <2> QED
    BY <2>2, <2>3
<1> HIDE DEF d
<1>8. Len(d) + Len(after) = Len(s) - drop + Len(new)
  BY <1>1, <1>3, <1>4 DEF d
<1> QED
  BY <1>5, <1>6, <1>7, <1>8
\* The same, element by element.
SplicedSo(t, s, i, drop, new) ==
  /\ Len(t) = Len(s) - drop + Len(new)
  /\ \A j \in 1..Len(t) :
       t[j] = IF j <= i THEN s[j]
              ELSE IF j <= i + Len(new) THEN new[j - i]
              ELSE s[j - Len(new) + drop]

LEMMA IsSplice ==
  ASSUME NEW S, NEW s \in Seq(S), NEW new \in Seq(S), NEW drop \in Nat,
         NEW i \in Nat, i + drop <= Len(s),
         NEW t \in Seq(S), SplicedSo(t, s, i, drop, new)
  PROVE  t = Splice(s, i, drop, new)
<1> DEFINE u == Splice(s, i, drop, new)
<1>1. /\ u \in Seq(S) /\ Len(u) = Len(s) - drop + Len(new)
      /\ \A j \in 1..Len(s) - drop + Len(new) :
           u[j] = IF j <= i THEN s[j]
                  ELSE IF j <= i + Len(new) THEN new[j - i]
                  ELSE s[j - Len(new) + drop]
  BY SpliceIs
<1> HIDE DEF u
<1>2. Len(t) = Len(u) /\ \A j \in 1..Len(t) : t[j] = u[j]
  BY <1>1 DEF SplicedSo
<1>3. t = u
  BY <1>1, <1>2, SameSequence
<1> QED
  BY <1>3 DEF u

\* One element less, one more, another one.
LEMMA IsCut ==
  ASSUME NEW S, NEW s \in Seq(S), NEW i \in 0..Len(s) - 1,
         NEW t \in Seq(S), Len(t) = Len(s) - 1,
         \A j \in 1..Len(t) : t[j] = IF j <= i THEN s[j] ELSE s[j + 1]
  PROVE  t = Splice(s, i, 1, <<>>)
<1>1. /\ Len(s) \in Nat /\ Len(t) \in Nat /\ i \in Nat /\ i + 1 <= Len(s) /\ 1 \in Nat
      /\ <<>> \in Seq(S) /\ Len(<<>>) = 0
  BY LenProperties
<1>2. \A j \in 1..Len(t) :
        t[j] = IF j <= i THEN s[j]
               ELSE IF j <= i + Len(<<>>) THEN <<>>[j - i]
               ELSE s[j - Len(<<>>) + 1]
  BY <1>1
<1>3. Len(t) = Len(s) - 1 + Len(<<>>)
  BY <1>1
<1> DEFINE new == <<>>
           drop == 1
<1>4. /\ new \in Seq(S) /\ drop \in Nat /\ i \in Nat /\ i + drop <= Len(s)
      /\ SplicedSo(t, s, i, drop, new)
  BY <1>1, <1>2, <1>3, Zenon DEF SplicedSo
<1>5. t = Splice(s, i, drop, new)
  <2> HIDE DEF new, drop
  <2> QED
    BY <1>4, IsSplice, Zenon
<1> QED
  BY <1>5

LEMMA IsAdded ==
  ASSUME NEW S, NEW s \in Seq(S), NEW i \in 0..Len(s), NEW e \in S,
         NEW t \in Seq(S), Len(t) = Len(s) + 1,
         \A j \in 1..Len(t) :
           t[j] = IF j <= i THEN s[j] ELSE IF j = i + 1 THEN e ELSE s[j - 1]
  PROVE  t = Splice(s, i, 0, <<e>>)
<1>1. /\ Len(s) \in Nat /\ Len(t) \in Nat /\ i \in Nat /\ i + 0 <= Len(s) /\ 0 \in Nat
      /\ <<e>> \in Seq(S) /\ Len(<<e>>) = 1 /\ <<e>>[1] = e
  BY LenProperties
<1>2. ASSUME NEW j \in 1..Len(t)
      PROVE  t[j] = IF j <= i THEN s[j]
                    ELSE IF j <= i + Len(<<e>>) THEN <<e>>[j - i]
                    ELSE s[j - Len(<<e>>) + 0]
  <2>1. CASE j <= i
    BY <2>1
  <2>2. CASE j = i + 1
    <3>1. j - i = 1 /\ ~(j <= i) /\ j <= i + 1
      BY <1>1, <2>2
    <3> QED
      BY <1>1, <2>2, <3>1
  <2>3. CASE j > i + 1
    <3>1. j - Len(<<e>>) + 0 = j - 1 /\ ~(j <= i) /\ ~(j <= i + 1)
      BY <1>1, <2>3
    <3> QED
      BY <1>1, <2>3, <3>1
  <2> QED
    BY <1>1, <2>1, <2>2, <2>3
<1>3. Len(t) = Len(s) - 0 + Len(<<e>>)
  BY <1>1
<1> DEFINE new == <<e>>
           drop == 0
<1>4. /\ new \in Seq(S) /\ drop \in Nat /\ i \in Nat /\ i + drop <= Len(s)
      /\ SplicedSo(t, s, i, drop, new)
  BY <1>1, <1>2, <1>3, Zenon DEF SplicedSo
<1>5. t = Splice(s, i, drop, new)
  <2> HIDE DEF new, drop
  <2> QED
    BY <1>4, IsSplice, Zenon
<1> QED
  BY <1>5

LEMMA IsPut ==
  ASSUME NEW S, NEW s \in Seq(S), NEW i \in 0..Len(s) - 1, NEW e \in S,
         NEW t \in Seq(S), Len(t) = Len(s),
         \A j \in 1..Len(t) : t[j] = IF j = i + 1 THEN e ELSE s[j]
  PROVE  t = Splice(s, i, 1, <<e>>)
<1>1. /\ Len(s) \in Nat /\ Len(t) \in Nat /\ i \in Nat /\ i + 1 <= Len(s) /\ 1 \in Nat
      /\ <<e>> \in Seq(S) /\ Len(<<e>>) = 1 /\ <<e>>[1] = e
  BY LenProperties
<1>2. ASSUME NEW j \in 1..Len(t)
      PROVE  t[j] = IF j <= i THEN s[j]
                    ELSE IF j <= i + Len(<<e>>) THEN <<e>>[j - i]
                    ELSE s[j - Len(<<e>>) + 1]
  <2>1. CASE j <= i
    BY <1>1, <2>1
  <2>2. CASE j = i + 1
    <3>1. j - i = 1 /\ ~(j <= i) /\ j <= i + 1
      BY <1>1, <2>2
    <3> QED
      BY <1>1, <2>2, <3>1
  <2>3. CASE j > i + 1
    <3>1. j - Len(<<e>>) + 1 = j /\ ~(j <= i) /\ ~(j <= i + 1)
      BY <1>1, <2>3
    <3> QED
      BY <1>1, <2>3, <3>1
  <2> QED
    BY <1>1, <2>1, <2>2, <2>3
<1>3. Len(t) = Len(s) - 1 + Len(<<e>>)
  BY <1>1
<1> DEFINE new == <<e>>
           drop == 1
<1>4. /\ new \in Seq(S) /\ drop \in Nat /\ i \in Nat /\ i + drop <= Len(s)
      /\ SplicedSo(t, s, i, drop, new)
  BY <1>1, <1>2, <1>3, Zenon DEF SplicedSo
<1>5. t = Splice(s, i, drop, new)
  <2> HIDE DEF new, drop
  <2> QED
    BY <1>4, IsSplice, Zenon
<1> QED
  BY <1>5

LEMMA IsAppended ==
  ASSUME NEW S, NEW s \in Seq(S), NEW e \in S, NEW t \in Seq(S),
         Len(t) = Len(s) + 1,
         \A j \in 1..Len(t) : t[j] = IF j <= Len(s) THEN s[j] ELSE e
  PROVE  t = Append(s, e)
<1> DEFINE u == Append(s, e)
<1>1. /\ u \in Seq(S) /\ Len(u) = Len(s) + 1
      /\ \A j \in 1..Len(s) : u[j] = s[j]
      /\ u[Len(s) + 1] = e
  BY AppendProperties, Zenon
<1>2. Len(s) \in Nat
  BY LenProperties
<1> HIDE DEF u
<1>3. \A j \in 1..Len(t) : t[j] = u[j]
  BY <1>1, <1>2
<1>4. t = u
  BY <1>1, <1>3, SameSequence
<1> QED
  BY <1>4 DEF u

LEMMA IsPrepended ==
  ASSUME NEW S, NEW s \in Seq(S), NEW e \in S, NEW t \in Seq(S),
         Len(t) = Len(s) + 1,
         \A j \in 1..Len(t) : t[j] = IF j = 1 THEN e ELSE s[j - 1]
  PROVE  t = <<e>> \o s
<1> DEFINE u == <<e>> \o s
<1>1. <<e>> \in Seq(S) /\ Len(<<e>>) = 1 /\ <<e>>[1] = e
  OBVIOUS
<1>2. /\ u \in Seq(S) /\ Len(u) = Len(<<e>>) + Len(s)
      /\ \A j \in 1..Len(<<e>>) + Len(s) :
           u[j] = IF j <= Len(<<e>>) THEN <<e>>[j] ELSE s[j - Len(<<e>>)]
  BY <1>1, ConcatProperties, Zenon
<1>3. Len(s) \in Nat
  BY LenProperties
<1> HIDE DEF u
<1>4. \A j \in 1..Len(t) : t[j] = u[j]
  BY <1>1, <1>2, <1>3
<1>5. t = u
  <2>1. Len(t) = Len(u)
    BY <1>1, <1>2, <1>3
  <2> QED
    BY <1>2, <1>4, <2>1, SameSequence
<1> QED
  BY <1>5 DEF u

LEMMA IsTail ==
  ASSUME NEW S, NEW s \in Seq(S), s # <<>>, NEW t \in Seq(S),
         Len(t) = Len(s) - 1,
         \A j \in 1..Len(t) : t[j] = s[j + 1]
  PROVE  t = Tail(s)
<1> DEFINE u == Tail(s)
<1>1. u \in Seq(S) /\ Len(u) = Len(s) - 1 /\ \A j \in 1..Len(u) : u[j] = s[j + 1]
  BY HeadTailProperties, Zenon
<1> HIDE DEF u
<1>2. t = u
  BY <1>1, SameSequence
<1> QED
  BY <1>2 DEF u

LEMMA MadeSequence ==
  ASSUME NEW S, NEW n \in Nat, NEW t \in [1..n -> S]
  PROVE  t \in Seq(S) /\ Len(t) = n /\ DOMAIN t = 1..n
OBVIOUS
===============================================================================
