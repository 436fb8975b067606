------------------------------ MODULE TextProofs ------------------------------
(***************************************************************************)
(* For any pieces, needles, delimiters and sizes: the line of C text holds *)
(* what fits, its parts are whole and the searches agree with what they    *)
(* say of sequences.  For any letters and words, and whatever memory is    *)
(* refused: the growing string keeps the promise of TextSpec.  For any     *)
(* formats and arguments: what is printed is whole, and cut where it says. *)
(***************************************************************************)
EXTENDS TextLine, String, Stdio, RawBufProofs

(* Walks *)

LEMMA MinIs ==
  ASSUME NEW S, S \subseteq Int, NEW m \in S, \A k \in S : m <= k
  PROVE  Min(S) = m
<1>1. \A x \in S : (\A k \in S : x <= k) => x = m
  <2> TAKE x \in S
  <2>1. (\A k \in S : x <= k) => x <= m
    OBVIOUS
  <2> QED
    BY <2>1
<1> QED
  BY <1>1 DEF Min

LEMMA MaxIs ==
  ASSUME NEW S, S \subseteq Int, NEW m \in S, \A k \in S : k <= m
  PROVE  Max(S) = m
<1>1. \A x \in S : (\A k \in S : x >= k) => x = m
  <2> TAKE x \in S
  <2>1. (\A k \in S : x >= k) => x >= m
    OBVIOUS
  <2> QED
    BY <2>1
<1>2. \A k \in S : m >= k
  OBVIOUS
<1> QED
  BY <1>1, <1>2 DEF Max

\* Of numbers there is a least one, and Min is it.
LEMMA MinOf ==
  ASSUME NEW S, S \subseteq Nat, S # {}
  PROVE  Min(S) \in S /\ \A k \in S : Min(S) <= k
<1>1. PICK m \in S : \A k \in S : m <= k
  BY LeastNumber
<1>2. S \subseteq Int
  OBVIOUS
<1>3. Min(S) = m
  BY <1>1, <1>2, MinIs
<1> QED
  BY <1>1, <1>3

LEMMA MinOfTwo ==
  ASSUME NEW a \in Int, NEW b \in Int
  PROVE  Min({a, b}) = IF a <= b THEN a ELSE b
<1> DEFINE T == {a, b}
           m == IF a <= b THEN a ELSE b
<1>1. T \subseteq Int /\ m \in T /\ \A k \in T : m <= k
  OBVIOUS
<1> HIDE DEF T, m
<1>2. Min(T) = m
  BY <1>1, MinIs
<1> QED
  BY <1>2 DEF T, m

LEMMA MaxOf ==
  ASSUME NEW n \in Nat, NEW S, S \subseteq 0..n, S # {}
  PROVE  Max(S) \in S /\ \A k \in S : k <= Max(S)
<1>1. PICK m \in S : \A k \in S : k <= m
  BY GreatestNumber
<1>2. S \subseteq Int
  OBVIOUS
<1>3. Max(S) = m
  BY <1>1, <1>2, MaxIs
<1> QED
  BY <1>1, <1>3

\* A walk stops at the first place where it may.
LEMMA FirstIs ==
  ASSUME NEW stops, stops \subseteq Int, NEW from \in Int,
         NEW i \in stops, i >= from, \A j \in stops : j >= from => i <= j
  PROVE  First(from, stops) = i
<1> DEFINE S == {j \in stops : j >= from}
<1>1. S \subseteq Int /\ i \in S /\ \A k \in S : i <= k
  OBVIOUS
<1>2. Min(S) = i
  <2> HIDE DEF S
  <2> QED
    BY <1>1, MinIs
<1> QED
  BY <1>2 DEF First

LEMMA FirstOfAll ==
  ASSUME NEW stops, stops \subseteq Nat, NEW i \in stops, \A j \in stops : i <= j
  PROVE  First(0, stops) = i
<1>1. stops \subseteq Int /\ 0 \in Int /\ i >= 0
  OBVIOUS
<1> QED
  BY <1>1, FirstIs
-------------------------------------------------------------------------------
(* Texts in memory *)

Char == Nat \ {NUL}

\* At index at of m lies the C string of text.
Reads(m, at, text) ==
  /\ IsBuffer(m) /\ at \in Nat /\ text \in Seq(Char)
  /\ at + Len(text) < CapOf(m)
  /\ \A k \in 0..Len(text) - 1 : m[at + k] = text[k + 1]
  /\ m[at + Len(text)] = NUL

LEMMA ReadsIs ==
  ASSUME NEW m, NEW at, NEW text, Reads(m, at, text)
  PROVE  /\ IsBuffer(m) /\ CapOf(m) \in Nat /\ DOMAIN m = 0..CapOf(m) - 1
         /\ at \in Nat /\ text \in Seq(Char) /\ Len(text) \in Nat
         /\ at + Len(text) < CapOf(m)
         /\ \A k \in 0..Len(text) : at + k \in DOMAIN m
         /\ \A k \in 0..Len(text) - 1 : /\ m[at + k] = text[k + 1]
                                        /\ text[k + 1] \in Char /\ m[at + k] # NUL
         /\ m[at + Len(text)] = NUL
<1>1. IsBuffer(m) /\ at \in Nat /\ text \in Seq(Char) /\ at + Len(text) < CapOf(m)
  BY DEF Reads
<1>2. CapOf(m) \in Nat /\ DOMAIN m = 0..CapOf(m) - 1
  BY <1>1, CapIs
<1>3. Len(text) \in Nat /\ \A k \in 1..Len(text) : text[k] \in Char
  BY <1>1
<1>4. \A k \in 0..Len(text) - 1 : k + 1 \in 1..Len(text)
  BY <1>3
<1>5. \A k \in 0..Len(text) - 1 : m[at + k] = text[k + 1] /\ text[k + 1] \in Char
  BY <1>3, <1>4 DEF Reads
<1> QED
  BY <1>1, <1>2, <1>3, <1>5 DEF Reads, Char

\* Where a text is read, one that begins later is read too.
LEMMA ReadsLater ==
  ASSUME NEW m, NEW at, NEW text, Reads(m, at, text)
  PROVE  IsBuffer(At(m, at)) /\ CapOf(At(m, at)) = CapOf(m) - at /\ Reads(At(m, at), 0, text)
<1> DEFINE n == CapOf(m) - at
           b == At(m, at)
<1>1. /\ CapOf(m) \in Nat /\ at \in Nat /\ Len(text) \in Nat /\ text \in Seq(Char)
      /\ at + Len(text) < CapOf(m)
      /\ \A k \in 0..Len(text) - 1 : m[at + k] = text[k + 1]
      /\ m[at + Len(text)] = NUL
  BY ReadsIs
<1>2. b = [i \in 0..n - 1 |-> m[at + i]]
  BY <1>1 DEF At, CapOf
<1>3. n \in Nat /\ Len(text) < n
  BY <1>1
<1> HIDE DEF b, n
<1>4. b = [i \in 0..n - 1 |-> b[i]] /\ \A i \in 0..n - 1 : b[i] = m[at + i]
  BY <1>2
<1>5. IsBuffer(b) /\ CapOf(b) = n
  BY <1>3, <1>4, BufferIs
<1>6. \A k \in 0..Len(text) - 1 : b[0 + k] = text[k + 1]
  BY <1>1, <1>3, <1>4
<1>7. b[0 + Len(text)] = NUL
  BY <1>1, <1>3, <1>4
<1> QED
  BY <1>1, <1>3, <1>5, <1>6, <1>7 DEF Reads, b, n

LEMMA CStringReads ==
  ASSUME NEW text \in Seq(Char)
  PROVE  /\ IsBuffer(CString(text)) /\ CapOf(CString(text)) = Len(text) + 1
         /\ DOMAIN CString(text) = 0..Len(text)
         /\ Reads(CString(text), 0, text)
         /\ \A i \in 0..Len(text) - 1 : CString(text)[i] = text[i + 1] /\ text[i + 1] # NUL
         /\ CString(text)[Len(text)] = NUL
<1> DEFINE b == CString(text)
           n == Len(text) + 1
<1>1. Len(text) \in Nat
  OBVIOUS
<1>2. b = [i \in 0..n - 1 |-> IF i < Len(text) THEN text[i + 1] ELSE NUL]
  BY <1>1 DEF CString
<1>3. n \in Nat /\ n = Len(text) + 1 /\ n - 1 = Len(text)
  BY <1>1
<1> HIDE DEF b, n
<1>4. /\ b = [i \in 0..n - 1 |-> b[i]]
      /\ \A i \in 0..n - 1 : b[i] = IF i < Len(text) THEN text[i + 1] ELSE NUL
  BY <1>2
<1>5. IsBuffer(b) /\ CapOf(b) = n
  BY <1>3, <1>4, BufferIs
<1>6. \A k \in 0..Len(text) - 1 : b[0 + k] = text[k + 1] /\ text[k + 1] \in Char
  BY <1>1, <1>3, <1>4
<1>7. b[0 + Len(text)] = NUL
  BY <1>1, <1>3, <1>4
<1>8. Reads(b, 0, text)
  BY <1>1, <1>3, <1>5, <1>6, <1>7 DEF Reads
<1>9. DOMAIN b = 0..Len(text)
  BY <1>2, <1>3
<1> QED
  BY <1>1, <1>3, <1>5, <1>6, <1>7, <1>8, <1>9 DEF b, Char

\* At the beginning of m.
LEMMA ReadsHere ==
  ASSUME NEW m, NEW text, Reads(m, 0, text)
  PROVE  /\ IsBuffer(m) /\ CapOf(m) \in Nat /\ DOMAIN m = 0..CapOf(m) - 1
         /\ text \in Seq(Char) /\ Len(text) \in Nat /\ Len(text) < CapOf(m)
         /\ \A k \in 0..Len(text) - 1 : /\ m[k] = text[k + 1]
                                        /\ text[k + 1] \in Char /\ m[k] # NUL
         /\ m[Len(text)] = NUL
<1>1. IsBuffer(m) /\ text \in Seq(Char) /\ Len(text) \in Nat
  BY DEF Reads
<1>2. CapOf(m) \in Nat /\ DOMAIN m = 0..CapOf(m) - 1
  BY <1>1, CapIs
<1>3. 0 + Len(text) = Len(text) /\ \A k \in 0..Len(text) - 1 : 0 + k = k /\ k + 1 \in 1..Len(text)
  BY <1>1
<1>4. Len(text) < CapOf(m) /\ m[Len(text)] = NUL
  BY <1>3 DEF Reads
<1>5. \A k \in 0..Len(text) - 1 : m[k] = text[k + 1]
  BY <1>3 DEF Reads
<1>6. \A k \in 0..Len(text) - 1 : text[k + 1] \in Char
  BY <1>1, <1>3
<1> QED
  BY <1>1, <1>2, <1>4, <1>5, <1>6 DEF Char

LEMMA PlacesAre ==
  ASSUME NEW m, IsBuffer(m), NEW chars
  PROVE  Places(m, chars) \subseteq Nat /\ Places(m, chars) = {i \in 0..CapOf(m) - 1 : m[i] \in chars}
BY CapIs DEF Places

LEMMA StrlenIs ==
  ASSUME NEW m, NEW text, Reads(m, 0, text)
  PROVE  strlen(m) = Len(text)
<1> DEFINE S == Places(m, {NUL})
<1>1. /\ IsBuffer(m) /\ CapOf(m) \in Nat /\ Len(text) \in Nat /\ Len(text) < CapOf(m)
      /\ \A k \in 0..Len(text) - 1 : m[k] # NUL
      /\ m[Len(text)] = NUL
  BY ReadsHere, Zenon
<1>2. S = {i \in 0..CapOf(m) - 1 : m[i] \in {NUL}}
  BY <1>1, PlacesAre, Zenon
<1> HIDE DEF S
<1>3. Len(text) \in S /\ \A j \in S : Len(text) <= j
  BY <1>1, <1>2
<1>4. S \subseteq Nat
  BY <1>1, <1>2
<1>5. First(0, S) = Len(text)
  BY <1>3, <1>4, FirstOfAll, Zenon
<1> QED
  BY <1>5 DEF strlen, S

\* strnlen looks no further than its bound.
LEMMA StrnlenIs ==
  ASSUME NEW m, NEW text, Reads(m, 0, text), NEW n \in Nat
  PROVE  strnlen(m, n) = IF n <= Len(text) THEN n ELSE Len(text)
<1> DEFINE S == Bound(m, n) \cup Places(m, {NUL})
           i == IF n <= Len(text) THEN n ELSE Len(text)
<1>1. /\ IsBuffer(m) /\ CapOf(m) \in Nat /\ Len(text) \in Nat /\ Len(text) < CapOf(m)
      /\ \A k \in 0..Len(text) - 1 : m[k] # NUL
      /\ m[Len(text)] = NUL
  BY ReadsHere, Zenon
<1>2. Places(m, {NUL}) = {k \in 0..CapOf(m) - 1 : m[k] \in {NUL}}
  BY <1>1, PlacesAre, Zenon
<1>3. Bound(m, n) = IF n <= CapOf(m) THEN {n} ELSE {}
  BY <1>1 DEF Bound, CapOf
<1>7. \A j : j \in S <=> (j = n /\ n <= CapOf(m)) \/ (j \in 0..CapOf(m) - 1 /\ m[j] = NUL)
  BY <1>2, <1>3
<1> HIDE DEF S
<1>4. i \in S /\ \A j \in S : i <= j
  <2>1. n \in Nat /\ Len(text) \in Nat /\ CapOf(m) \in Nat /\ Len(text) < CapOf(m)
    BY <1>1
  <2>2. i \in S
    <3>1. CASE n <= Len(text)
      <4>1. i = n /\ n <= CapOf(m)
        BY <2>1, <3>1
      <4> HIDE DEF i
      <4> QED
        BY <1>7, <4>1
    <3>2. CASE ~(n <= Len(text))
      <4>1. i = Len(text) /\ Len(text) \in 0..CapOf(m) - 1
        BY <2>1, <3>2
      <4> HIDE DEF i
      <4> QED
        BY <1>1, <1>7, <4>1
    <3> QED
      BY <3>1, <3>2
  <2>3. ASSUME NEW j \in S PROVE i <= j
    <3>1. CASE j = n
      BY <2>1, <3>1
    <3>2. CASE j \in 0..CapOf(m) - 1 /\ m[j] = NUL
      <4>1. j \in Nat /\ j \notin 0..Len(text) - 1
        BY <1>1, <3>2
      <4> QED
        BY <2>1, <4>1
    <3> QED
      BY <1>7, <3>1, <3>2
  <2> QED
    BY <2>2, <2>3
<1>5. S \subseteq Nat
  BY <1>1, <1>7
<1> HIDE DEF i
<1>6. First(0, S) = i
  BY <1>4, <1>5, FirstOfAll, Zenon
<1> QED
  BY <1>6 DEF strnlen, S, i

\* Without a terminator it comes to its bound.
LEMMA StrnlenUnended ==
  ASSUME NEW m, IsBuffer(m), NEW n \in Nat, n <= CapOf(m), \A k \in 0..CapOf(m) - 1 : m[k] # NUL
  PROVE  strnlen(m, n) = n
<1> DEFINE S == Bound(m, n) \cup Places(m, {NUL})
<1>1. CapOf(m) \in Nat
  BY CapIs
<1>2. Places(m, {NUL}) = {k \in 0..CapOf(m) - 1 : m[k] \in {NUL}}
  BY <1>1, PlacesAre, Zenon
<1>3. Bound(m, n) = {n}
  BY <1>1 DEF Bound, CapOf
<1>4. S = {n}
  BY <1>1, <1>2, <1>3
<1>5. S \subseteq Nat /\ n \in S /\ \A j \in S : n <= j
  BY <1>4
<1> HIDE DEF S
<1>6. First(0, S) = n
  BY <1>5, FirstOfAll, Zenon
<1> QED
  BY <1>6 DEF strnlen, S

\* n characters of s and a terminator.
LEMMA WrittenIs ==
  ASSUME NEW m, IsBuffer(m), NEW at \in Nat, NEW s, NEW n \in Nat
  PROVE  /\ IsBuffer(Written(m, at, s, n)) /\ CapOf(Written(m, at, s, n)) = CapOf(m)
         /\ \A i \in 0..CapOf(m) - 1 :
              Written(m, at, s, n)[i] =
                IF i \in at..at + n - 1 THEN s[i - at] ELSE IF i = at + n THEN NUL ELSE m[i]
<1> DEFINE b == Written(m, at, s, n)
<1>1. CapOf(m) \in Nat /\ DOMAIN m = 0..CapOf(m) - 1
  BY CapIs
<1>2. b = [i \in 0..CapOf(m) - 1 |->
             IF i \in at..at + n - 1 THEN s[i - at] ELSE IF i = at + n THEN NUL ELSE m[i]]
  BY <1>1 DEF Written
<1> HIDE DEF b
<1>3. /\ b = [i \in 0..CapOf(m) - 1 |-> b[i]]
      /\ \A i \in 0..CapOf(m) - 1 :
           b[i] = IF i \in at..at + n - 1 THEN s[i - at] ELSE IF i = at + n THEN NUL ELSE m[i]
  BY <1>2
<1>4. IsBuffer(b) /\ CapOf(b) = CapOf(m)
  BY <1>1, <1>3, BufferIs
<1> QED
  BY <1>3, <1>4 DEF b

\* The first n characters, or all.
LEMMA CutIs ==
  ASSUME NEW S, NEW text \in Seq(S), NEW n \in Nat
  PROVE  /\ Cut(text, n) \in Seq(S)
         /\ Len(Cut(text, n)) = IF n <= Len(text) THEN n ELSE Len(text)
         /\ \A k \in 1..Len(Cut(text, n)) : Cut(text, n)[k] = text[k]
<1> DEFINE m == IF n <= Len(text) THEN n ELSE Len(text)
           c == Cut(text, n)
<1>1. Len(text) \in Nat /\ m \in Nat /\ m <= Len(text)
  OBVIOUS
<1>2. Min({n, Len(text)}) = m
  <2> DEFINE T == {n, Len(text)}
  <2>1. T \subseteq Int /\ m \in T /\ \A k \in T : m <= k
    BY <1>1
  <2> HIDE DEF T, m
  <2>2. Min(T) = m
    BY <2>1, MinIs
  <2> QED
    BY <2>2 DEF T
<1>3. c = SubSeq(text, 1, m)
  BY <1>2 DEF Cut
<1>4. \A i \in 1..m : text[i] \in S
  BY <1>1
<1> HIDE DEF m, c
<1>5. /\ c \in Seq(S) /\ Len(c) = (IF 1 <= m THEN m - 1 + 1 ELSE 0)
      /\ \A i \in 1..m - 1 + 1 : c[i] = text[1 + i - 1]
  BY <1>1, <1>3, <1>4, SubSeqProperties
<1>6. Len(c) = m /\ \A i \in 1..Len(c) : c[i] = text[i]
  BY <1>1, <1>5
<1> QED
  BY <1>5, <1>6 DEF c, m

LEMMA TextAtIs ==
  ASSUME NEW p, NEW text, Reads(line, p, text)
  PROVE  TextAt(p) = text
<1> DEFINE t == TextAt(p)
           n == Len(text)
<1>1. /\ text \in Seq(Char) /\ n \in Nat /\ p \in Nat
      /\ \A k \in 0..n - 1 : line[p + k] = text[k + 1] /\ text[k + 1] \in Char
  BY ReadsIs
<1>2. strlen(At(line, p)) = n
  BY ReadsLater, StrlenIs, Zenon
<1>3. t = [k \in 1..n |-> line[p + k - 1]]
  BY <1>2 DEF TextAt
<1> HIDE DEF t, n
<1>4. ASSUME NEW k \in 1..n PROVE line[p + k - 1] = text[k] /\ text[k] \in Char
  <2>1. k - 1 \in 0..n - 1 /\ p + (k - 1) = p + k - 1 /\ (k - 1) + 1 = k
    BY <1>1, <1>4
  <2>2. line[p + (k - 1)] = text[(k - 1) + 1] /\ text[(k - 1) + 1] \in Char
    BY <1>1, <2>1
  <2> QED
    BY <2>1, <2>2
<1>5. t \in [1..n -> Char] /\ \A k \in 1..n : t[k] = text[k]
  BY <1>3, <1>4
<1>6. t \in Seq(Char) /\ Len(t) = n
  BY <1>1, <1>5, MadeSequence
<1>7. t = text
  <2>1. Len(t) = Len(text) /\ \A k \in 1..Len(t) : t[k] = text[k]
    BY <1>5, <1>6 DEF n
  <2> QED
    BY <1>1, <1>6, <2>1, SameSequence
<1> QED
  BY <1>7 DEF t

\* Where m has the text and a terminator, it is read.
LEMMA ReadsMade ==
  ASSUME NEW m, IsBuffer(m), NEW text \in Seq(Char), Len(text) < CapOf(m),
         \A k \in 0..Len(text) - 1 : m[k] = text[k + 1], m[Len(text)] = NUL
  PROVE  Reads(m, 0, text)
<1>1. Len(text) \in Nat
  OBVIOUS
<1>2. 0 + Len(text) = Len(text) /\ \A k \in 0..Len(text) - 1 : 0 + k = k
  BY <1>1
<1> QED
  BY <1>2 DEF Reads

\* What was there, and n more characters.
LEMMA WrittenReads ==
  ASSUME NEW m, IsBuffer(m), NEW head \in Seq(Char), NEW piece \in Seq(Char),
         NEW n \in 0..Len(piece), Len(head) + n < CapOf(m),
         \A k \in 0..Len(head) - 1 : m[k] = head[k + 1]
  PROVE  Reads(Written(m, Len(head), CString(piece), n), 0, head \o Cut(piece, n))
<1> DEFINE b == Written(m, Len(head), CString(piece), n)
           at == Len(head)
           c == Cut(piece, n)
           text == head \o c
<1>1. at \in Nat /\ Len(piece) \in Nat /\ n \in Nat /\ CapOf(m) \in Nat
  BY CapIs
<1>2. /\ IsBuffer(b) /\ CapOf(b) = CapOf(m)
      /\ \A i \in 0..CapOf(m) - 1 :
           b[i] = IF i \in at..at + n - 1 THEN CString(piece)[i - at]
                  ELSE IF i = at + n THEN NUL ELSE m[i]
  <2> DEFINE t == CString(piece)
  <2>1. b = Written(m, at, t, n)
    OBVIOUS
  <2> HIDE DEF b, at, t
  <2>2. /\ IsBuffer(b) /\ CapOf(b) = CapOf(m)
        /\ \A i \in 0..CapOf(m) - 1 :
             b[i] = IF i \in at..at + n - 1 THEN t[i - at] ELSE IF i = at + n THEN NUL ELSE m[i]
    BY <1>1, <2>1, WrittenIs
  <2> QED
    BY <2>2 DEF t
<1>3. c \in Seq(Char) /\ Len(c) = n /\ \A k \in 1..n : c[k] = piece[k]
  <2>1. /\ c \in Seq(Char) /\ Len(c) = IF n <= Len(piece) THEN n ELSE Len(piece)
        /\ \A k \in 1..Len(c) : c[k] = piece[k]
    BY <1>1, CutIs, Zenon
  <2> HIDE DEF c
  <2> QED
    BY <1>1, <2>1
<1> HIDE DEF b, c
<1>4. /\ text \in Seq(Char) /\ Len(text) = at + n
      /\ \A k \in 1..at + n : text[k] = IF k <= at THEN head[k] ELSE c[k - at]
  BY <1>3, ConcatProperties
<1>5. \A k \in 0..Len(piece) - 1 : CString(piece)[k] = piece[k + 1]
  BY CStringReads
<1> HIDE DEF text
<1>6. ASSUME NEW k \in 0..at + n - 1 PROVE b[k] = text[k + 1]
  <2>1. k + 1 \in 1..at + n /\ k \in 0..CapOf(m) - 1
    BY <1>1
  <2>2. CASE k < at
    BY <1>1, <1>2, <1>4, <2>1, <2>2
  <2>3. CASE k >= at
    <3>1. k - at \in 0..Len(piece) - 1 /\ k + 1 - at = (k - at) + 1 /\ k + 1 - at \in 1..n
          /\ k \in at..at + n - 1
      BY <1>1, <2>3
    <3>2. b[k] = piece[k - at + 1] /\ text[k + 1] = piece[k + 1 - at]
      BY <1>1, <1>2, <1>3, <1>4, <1>5, <2>1, <2>3, <3>1
    <3> QED
      BY <3>1, <3>2
  <2> QED
    BY <1>1, <2>2, <2>3
<1>7. b[at + n] = NUL
  BY <1>1, <1>2
<1>8. Reads(b, 0, text)
  BY <1>1, <1>2, <1>4, <1>6, <1>7, ReadsMade
<1> QED
  BY <1>8 DEF b, text, c

-------------------------------------------------------------------------------
(* The line: its inductive invariant *)

\* One before the delimiter that ends the field from p on, or the text.
FieldEnd(text, delim, p) ==
  Min({Len(text) + 1} \cup {i \in p + 1..Len(text) : text[i] \in delim}) - 1

\* Where a tokeniser finds one.
Begins(text, delim, call) ==
  {p \in FieldStarts(text, delim) : call = "strsep" \/ FieldAt(text, delim, p) # <<>>}

\* Memory behind the buffer is somebody else's in every phase.
LineShape ==
  /\ size \in Sizes /\ wanted \in Seq(Char)
  /\ IsBuffer(line) /\ CapOf(line) = Room
  /\ \A i \in size..Room - 1 : line[i] = Garbage
  /\ phase \in {"garbage", "fill", "trimmed", "tokens", "done"}
  /\ phase = "garbage" => \A i \in 0..Room - 1 : line[i] = Garbage
  /\ phase # "garbage" => size # 0

Filling ==
  phase = "fill" =>
    /\ Reads(line, 0, Fits) /\ (cut <=> Len(wanted) >= size) /\ cut \in BOOLEAN
    /\ pointer = 0 /\ tokens = <<>>

\* The tokens found are the first of those there are.
TokensAre ==
  /\ how.call \in {"strsep", "strtok_r"}
  /\ tokens \in Seq(Nat)
  /\ \A k \in DOMAIN tokens :
       /\ tokens[k] \in Begins(Fits, how.delim, how.call)
       /\ \A p \in Begins(Fits, how.delim, how.call) :
            p < tokens[k] <=> \E j \in 1..k - 1 : p = tokens[j]

\* The line is the text but for the ends of the tokens found, which lie before
\* the pointer; and the tokens found are those that begin before it.
Ended(i) == \E k \in DOMAIN tokens : i = FieldEnd(Fits, how.delim, tokens[k])

LineCut ==
  \A i \in 0..Len(Fits) : line[i] = IF Ended(i) THEN NUL ELSE CString(Fits)[i]

PointerIs ==
  /\ pointer = NULL => how.call = "strsep"
  /\ pointer # NULL =>
       /\ pointer \in FieldStarts(Fits, how.delim)
            \/ (how.call = "strtok_r" /\ pointer = Len(Fits))
       /\ \A i \in pointer..Len(Fits) : Ended(i) => i = Len(Fits)
  /\ \A p \in Begins(Fits, how.delim, how.call) :
       (pointer # NULL => p < pointer) <=> \E k \in DOMAIN tokens : p = tokens[k]

Cutting ==
  phase \in {"tokens", "done"} =>
    /\ TokensAre /\ LineCut /\ PointerIs
    /\ phase = "done" => Begins(Fits, how.delim, how.call) \subseteq Range(tokens)

\* strim's line is read again where it was left.
Trimmed ==
  phase = "trimmed" =>
    \E end \in 0..Len(Fits) :
      LET kept == SubSeq(Fits, pointer + 1, end) IN
      /\ pointer \in 0..end
      /\ Reads(line, pointer, kept)
      /\ \A k \in 1..pointer : ascii_space(Fits[k])
      /\ \A k \in end + 1..Len(Fits) : ascii_space(Fits[k])
      /\ pointer < end => ~ascii_space(Fits[pointer + 1]) /\ ~ascii_space(Fits[end])

LineInv == LineShape /\ Filling /\ Cutting /\ Trimmed

LEMMA LineConstants ==
  /\ Room \in Nat /\ Garbage # NUL
  /\ \A n \in Sizes : n \in Nat /\ n < Room
  /\ \A piece \in Pieces \cup Needles : piece \in Seq(Char)
<1>1. Room \in Nat /\ Garbage # NUL /\ Sizes \subseteq 0..Room - 1
      /\ \A piece \in Pieces \cup Needles : piece \in Seq(Char)
  BY LineAssumption DEF Char
<1> QED
  BY <1>1

\* What fits.
LEMMA FitsIs ==
  ASSUME wanted \in Seq(Char), size \in Nat, size # 0
  PROVE  /\ Fits \in Seq(Char) /\ Len(Fits) \in Nat /\ Len(Fits) < size
         /\ Len(Fits) = IF size <= Len(wanted) THEN size - 1 ELSE Len(wanted)
         /\ \A k \in 1..Len(Fits) : Fits[k] = wanted[k] /\ Fits[k] \in Char
<1> DEFINE n == size - 1
           c == Cut(wanted, n)
<1>1. n \in Nat /\ Len(wanted) \in Nat
  OBVIOUS
<1>2. /\ c \in Seq(Char) /\ Len(c) = IF n <= Len(wanted) THEN n ELSE Len(wanted)
      /\ \A k \in 1..Len(c) : c[k] = wanted[k]
  BY <1>1, CutIs, Zenon
<1>3. Fits = c
  BY DEF Fits
<1> HIDE DEF c
<1>4. \A k \in 1..Len(c) : c[k] \in Char
  BY <1>2
<1>5. Len(c) \in Nat
  BY <1>2
<1> QED
  BY <1>1, <1>2, <1>3, <1>4, <1>5

LEMMA LineInitHolds == LineInit => LineInv
<1> SUFFICES ASSUME LineInit PROVE LineInv
  OBVIOUS
<1>1. line = [i \in 0..Room - 1 |-> line[i]] /\ \A i \in 0..Room - 1 : line[i] = Garbage
  BY DEF LineInit
<1>2. IsBuffer(line) /\ CapOf(line) = Room
  BY <1>1, LineConstants, BufferIs
<1>3. size \in Sizes /\ size \in Nat /\ phase = "garbage" /\ wanted = <<>>
  BY LineConstants DEF LineInit
<1>4. wanted \in Seq(Char)
  BY <1>3
<1>5. LineShape
  BY <1>1, <1>2, <1>3, <1>4, LineConstants DEF LineShape
<1> QED
  BY <1>3, <1>5 DEF LineInv, Filling, Cutting, Trimmed

-------------------------------------------------------------------------------
(* The line: it is filled *)

\* Room of the terminator is kept by every copy.
LEMMA WrittenInside ==
  ASSUME LineShape, NEW at \in Nat, NEW s, NEW n \in Nat, at + n < size
  PROVE  LET b == Written(line, at, s, n)
         IN  /\ IsBuffer(b) /\ CapOf(b) = Room
             /\ \A i \in size..Room - 1 : b[i] = Garbage
<1> DEFINE b == Written(line, at, s, n)
<1>1. /\ IsBuffer(line) /\ CapOf(line) = Room /\ Room \in Nat /\ size \in Nat
      /\ \A i \in size..Room - 1 : line[i] = Garbage
  BY LineConstants DEF LineShape
<1>2. /\ IsBuffer(b) /\ CapOf(b) = Room
      /\ \A i \in 0..Room - 1 :
           b[i] = IF i \in at..at + n - 1 THEN s[i - at] ELSE IF i = at + n THEN NUL ELSE line[i]
  BY <1>1, WrittenIs
<1> HIDE DEF b
<1>3. \A i \in size..Room - 1 : i \in 0..Room - 1 /\ i \notin at..at + n - 1 /\ i # at + n
  BY <1>1
<1>4. \A i \in size..Room - 1 : b[i] = Garbage
  BY <1>1, <1>2, <1>3
<1> QED
  BY <1>2, <1>4 DEF b

\* A first copy, of what fits of the piece.
LEMMA FilledHolds ==
  ASSUME LineInv, phase # "tokens", NEW piece \in Seq(Char), NEW isCut \in BOOLEAN,
         NEW r, Filled(r, piece, isCut),
         IF size = 0 THEN r.dest = line
         ELSE /\ r.dest = Written(line, 0, CString(piece), Len(Cut(piece, size - 1)))
              /\ isCut <=> Len(piece) >= size
  PROVE  LineInv'
<1>1. /\ line' = r.dest /\ wanted' = piece /\ cut' = isCut /\ size' = size
      /\ phase' = IF size = 0 THEN "garbage" ELSE "fill"
      /\ pointer' = 0 /\ tokens' = <<>>
  BY DEF Filled
<1>2. /\ LineShape /\ size \in Sizes /\ size \in Nat /\ Room \in Nat
      /\ IsBuffer(line) /\ CapOf(line) = Room /\ size < Room
      /\ size = 0 => phase = "garbage"
  BY LineConstants DEF LineInv, LineShape
<1>3. CASE size = 0
  <2>1. line' = line /\ phase' = "garbage" /\ phase = "garbage"
    BY <1>1, <1>2, <1>3
  <2>2. LineShape'
    BY <1>1, <1>2, <2>1 DEF LineShape
  <2> QED
    BY <2>1, <2>2 DEF LineInv, Filling, Cutting, Trimmed
<1>4. CASE size # 0
  <2> DEFINE c == Cut(piece, size - 1)
             n == Len(c)
             b == Written(line, 0, CString(piece), n)
  <2>1. c \in Seq(Char) /\ n = (IF size - 1 <= Len(piece) THEN size - 1 ELSE Len(piece))
    <3>1. size - 1 \in Nat
      BY <1>2, <1>4
    <3> QED
      BY <3>1, CutIs, Zenon
  <2>2. Len(piece) \in Nat /\ n \in 0..Len(piece) /\ n < size /\ n \in Nat
    <3> HIDE DEF n
    <3> QED
      BY <1>2, <1>4, <2>1
  <2>3. line' = b /\ phase' = "fill" /\ (cut' <=> Len(piece) >= size) /\ cut' \in BOOLEAN
    BY <1>1, <1>4
  <2>4. IsBuffer(b) /\ CapOf(b) = Room /\ \A i \in size..Room - 1 : b[i] = Garbage
    <3>1. 0 \in Nat /\ 0 + n < size
      BY <1>2, <2>2
    <3> HIDE DEF n
    <3> QED
      BY <1>2, <2>2, <3>1, WrittenInside
  <2>5. Cut(piece, n) = c
    <3>1. /\ Cut(piece, n) \in Seq(Char)
          /\ Len(Cut(piece, n)) = IF n <= Len(piece) THEN n ELSE Len(piece)
          /\ \A k \in 1..Len(Cut(piece, n)) : Cut(piece, n)[k] = piece[k]
      <4> HIDE DEF n
      <4> QED
        BY <2>2, CutIs
    <3>2. \A k \in 1..Len(c) : c[k] = piece[k]
      <4>1. size - 1 \in Nat
        BY <1>2, <1>4
      <4> QED
        BY <4>1, CutIs, Zenon
    <3>3. Len(Cut(piece, n)) = Len(c)
      <4> HIDE DEF c
      <4> QED
        BY <2>2, <3>1
    <3> DEFINE d == Cut(piece, n)
    <3> HIDE DEF c, d
    <3>4. \A k \in 1..Len(d) : d[k] = c[k]
      BY <3>1, <3>2, <3>3 DEF d
    <3>5. d = c
      BY <2>1, <3>1, <3>3, <3>4, SameSequence DEF d
    <3> QED
      BY <3>5 DEF d
  <2>6. Reads(b, 0, c)
    <3> DEFINE head == <<>>
    <3>1. head \in Seq(Char) /\ Len(head) = 0 /\ Len(head) + n < CapOf(line)
      BY <1>2, <2>2
    <3>2. \A k \in 0..Len(head) - 1 : line[k] = head[k + 1]
      BY <3>1
    <3>3. Reads(Written(line, Len(head), CString(piece), n), 0, head \o Cut(piece, n))
      <4> HIDE DEF head, n
      <4> QED
        BY <1>2, <2>2, <3>1, <3>2, WrittenReads
    <3>4. head \o c = c
      <4> HIDE DEF c
      <4> QED
        BY <2>1, ConcatEmptySeq
    <3> QED
      BY <2>5, <3>1, <3>3, <3>4
  <2>7. Fits' = c
    BY <1>1 DEF Fits
  <2> HIDE DEF b, c
  <2>8. LineShape'
    BY <1>1, <1>2, <1>4, <2>3, <2>4 DEF LineShape
  <2>9. Filling'
    <3>1. Reads(line', 0, Fits')
      BY <2>3, <2>6, <2>7
    <3>2. cut' <=> Len(wanted') >= size'
      BY <1>1, <2>3, Zenon
    <3> QED
      BY <1>1, <2>3, <3>1, <3>2 DEF Filling
  <2> QED
    BY <2>3, <2>8, <2>9 DEF LineInv, Cutting, Trimmed
<1> QED
  BY <1>3, <1>4

LEMMA CutLen ==
  ASSUME NEW S, NEW text \in Seq(S), NEW n \in Nat
  PROVE  Len(Cut(text, n)) = IF n <= Len(text) THEN n ELSE Len(text)
BY CutIs, Zenon

LEMMA StrlcpyFills ==
  ASSUME LineInv, phase # "tokens", NEW piece \in Seq(Char),
         NEW r, r = strlcpy(line, CString(piece), size), Filled(r, piece, r.ret >= size)
  PROVE  LineInv'
<1>1. Len(piece) \in Nat /\ size \in Nat
  BY LineConstants DEF LineInv, LineShape
<1>2. strlen(CString(piece)) = Len(piece)
  BY CStringReads, StrlenIs, Zenon
<1>3. r.ret = Len(piece) /\ (r.ret >= size) \in BOOLEAN
  BY <1>1, <1>2 DEF strlcpy
<1>4. CASE size = 0
  <2>1. r.dest = line
    BY <1>4 DEF strlcpy
  <2> QED
    BY <1>3, <1>4, <2>1, FilledHolds
<1>5. CASE size # 0
  <2>1. Min({Len(piece), size - 1}) = Len(Cut(piece, size - 1))
    <3>1. size - 1 \in Nat /\ size - 1 \in Int /\ Len(piece) \in Int
      BY <1>1, <1>5
    <3>2. Min({Len(piece), size - 1}) = IF Len(piece) <= size - 1 THEN Len(piece) ELSE size - 1
      BY <3>1, MinOfTwo
    <3>3. Len(Cut(piece, size - 1)) = IF size - 1 <= Len(piece) THEN size - 1 ELSE Len(piece)
      BY <3>1, CutLen, Zenon
    <3> QED
      BY <3>1, <3>2, <3>3
  <2>2. r.dest = Written(line, 0, CString(piece), Len(Cut(piece, size - 1)))
    BY <1>2, <1>5, <2>1 DEF strlcpy
  <2>3. (r.ret >= size) <=> Len(piece) >= size
    BY <1>3
  <2> QED
    BY <1>3, <1>5, <2>2, <2>3, FilledHolds
<1> QED
  BY <1>4, <1>5

LEMMA StrscpyFills ==
  ASSUME LineInv, phase # "tokens", NEW piece \in Seq(Char),
         NEW r, r = strscpy(line, CString(piece), size), Filled(r, piece, r.ret = -1)
  PROVE  LineInv'
<1>1. Len(piece) \in Nat /\ size \in Nat
  BY LineConstants DEF LineInv, LineShape
<1>2. (r.ret = -1) \in BOOLEAN
  OBVIOUS
<1>3. CASE size = 0
  <2>1. r.dest = line
    BY <1>3 DEF strscpy
  <2> QED
    BY <1>2, <1>3, <2>1, FilledHolds
<1>4. CASE size # 0
  <2> DEFINE n == strnlen(CString(piece), size - 1)
  <2>1. size - 1 \in Nat
    BY <1>1, <1>4
  <2>2. n = IF size - 1 <= Len(piece) THEN size - 1 ELSE Len(piece)
    BY <2>1, CStringReads, StrnlenIs, Zenon
  <2>3. n = Len(Cut(piece, size - 1))
    BY <2>1, <2>2, CutLen, Zenon
  <2>4. r.dest = Written(line, 0, CString(piece), n)
        /\ r.ret = IF CString(piece)[n] = NUL THEN n ELSE -1
    BY <1>4 DEF strscpy
  <2> HIDE DEF n
  <2>5. CString(piece)[n] = NUL <=> Len(piece) < size
    <3>1. /\ \A i \in 0..Len(piece) - 1 : CString(piece)[i] # NUL
          /\ CString(piece)[Len(piece)] = NUL
      BY CStringReads
    <3> QED
      BY <1>1, <1>4, <2>1, <2>2, <3>1
  <2>6. (r.ret = -1) <=> Len(piece) >= size
    BY <1>1, <2>1, <2>2, <2>4, <2>5
  <2> QED
    BY <1>2, <1>4, <2>3, <2>4, <2>6, FilledHolds
<1> QED
  BY <1>3, <1>4

LEMMA StpcpyFills ==
  ASSUME LineInv, phase # "tokens", NEW piece \in Seq(Char), Len(piece) < size,
         Filled(stpcpy(line, CString(piece)), piece, FALSE)
  PROVE  LineInv'
<1> DEFINE r == stpcpy(line, CString(piece))
<1>1. Len(piece) \in Nat /\ size \in Nat /\ size # 0
  BY LineConstants DEF LineInv, LineShape
<1>2. strlen(CString(piece)) = Len(piece)
  BY CStringReads, StrlenIs, Zenon
<1>3. Len(Cut(piece, size - 1)) = Len(piece)
  <2>1. size - 1 \in Nat
    BY <1>1
  <2>2. Len(Cut(piece, size - 1)) = IF size - 1 <= Len(piece) THEN size - 1 ELSE Len(piece)
    BY <2>1, CutLen, Zenon
  <2> QED
    BY <1>1, <2>1, <2>2
<1>4. r.dest = Written(line, 0, CString(piece), Len(Cut(piece, size - 1)))
  BY <1>2, <1>3 DEF stpcpy
<1>5. FALSE <=> Len(piece) >= size
  BY <1>1
<1> HIDE DEF r
<1>6. Filled(r, piece, FALSE) /\ FALSE \in BOOLEAN
  BY DEF r
<1> QED
  BY <1>1, <1>4, <1>5, <1>6, FilledHolds

LEMMA CopyHolds == LineInv /\ Copy => LineInv'
<1> SUFFICES ASSUME LineInv, Copy PROVE LineInv'
  OBVIOUS
<1>1. PICK piece \in Pieces :
        LET s == CString(piece) IN
        \/ LET r == strlcpy(line, s, size) IN Filled(r, piece, r.ret >= size)
        \/ LET r == strscpy(line, s, size) IN Filled(r, piece, r.ret = -1)
        \/ Len(piece) < size /\ Filled(stpcpy(line, s), piece, FALSE)
  BY DEF Copy
<1>2. piece \in Seq(Char) /\ phase # "tokens"
  BY LineConstants DEF Copy
<1> DEFINE s == CString(piece)
<1>3. CASE LET r == strlcpy(line, s, size) IN Filled(r, piece, r.ret >= size)
  <2> DEFINE r == strlcpy(line, s, size)
  <2>1. Filled(r, piece, r.ret >= size) /\ r = strlcpy(line, s, size)
    BY <1>3
  <2> HIDE DEF r
  <2> QED
    BY <1>2, <2>1, StrlcpyFills
<1>4. CASE LET r == strscpy(line, s, size) IN Filled(r, piece, r.ret = -1)
  <2> DEFINE r == strscpy(line, s, size)
  <2>1. Filled(r, piece, r.ret = -1) /\ r = strscpy(line, s, size)
    BY <1>4
  <2> HIDE DEF r
  <2> QED
    BY <1>2, <2>1, StrscpyFills
<1>5. CASE Len(piece) < size /\ Filled(stpcpy(line, s), piece, FALSE)
  BY <1>2, <1>5, StpcpyFills
<1> QED
  BY <1>1, <1>3, <1>4, <1>5

LEMMA LineStays == LineInv /\ UNCHANGED lineVars => LineInv'
<1> SUFFICES ASSUME LineInv, UNCHANGED lineVars PROVE LineInv'
  OBVIOUS
<1>1. /\ line' = line /\ size' = size /\ phase' = phase /\ wanted' = wanted /\ cut' = cut
      /\ how' = how /\ pointer' = pointer /\ tokens' = tokens
  BY DEF lineVars
<1>2. Fits' = Fits
  BY <1>1 DEF Fits
<1>3. LineShape'
  BY <1>1 DEF LineInv, LineShape
<1>4. Filling'
  BY <1>1, <1>2, Zenon DEF LineInv, Filling
<1>5. Trimmed'
  BY <1>1, <1>2, Zenon DEF LineInv, Trimmed
<1>6. \A i : Ended(i)' <=> Ended(i)
  BY <1>1, <1>2 DEF Ended
<1>7. TokensAre' <=> TokensAre
  BY <1>1, <1>2 DEF TokensAre
<1>8. LineCut' <=> LineCut
  BY <1>1, <1>2, <1>6 DEF LineCut
<1>9. PointerIs' <=> PointerIs
  BY <1>1, <1>2, <1>6 DEF PointerIs
<1>10. Cutting'
  BY <1>1, <1>2, <1>7, <1>8, <1>9, Zenon DEF LineInv, Cutting
<1> QED
  BY <1>3, <1>4, <1>5, <1>10 DEF LineInv

\* A line that has no terminator is left alone.
LEMMA GarbageStays ==
  ASSUME LineInv, phase = "garbage", NEW piece \in Seq(Char)
  PROVE  strlcat(line, CString(piece), size).dest = line
<1>1. /\ size \in Nat /\ IsBuffer(line) /\ CapOf(line) = Room /\ size < Room
      /\ \A k \in 0..CapOf(line) - 1 : line[k] # NUL
  <2>1. /\ size \in Sizes /\ IsBuffer(line) /\ CapOf(line) = Room
        /\ \A k \in 0..Room - 1 : line[k] = Garbage
    BY DEF LineInv, LineShape
  <2> QED
    BY <2>1, LineConstants
<1>2. Room \in Nat /\ size <= CapOf(line)
  BY <1>1, LineConstants
<1>3. strnlen(line, size) = size
  BY <1>1, <1>2, StrnlenUnended
<1> QED
  BY <1>1, <1>3 DEF strlcat

\* What follows what fits, and no more than has room.
LEMMA ConcatenationFits ==
  ASSUME NEW text \in Seq(Char), NEW piece \in Seq(Char), NEW n \in Nat
  PROVE  /\ n <= Len(text) => Cut(text \o piece, n) = Cut(text, n)
         /\ n >= Len(text) => Cut(text \o piece, n) = text \o Cut(piece, n - Len(text))
<1> DEFINE whole == text \o piece
           c == Cut(whole, n)
<1>1. /\ whole \in Seq(Char) /\ Len(whole) = Len(text) + Len(piece)
      /\ \A k \in 1..Len(text) + Len(piece) :
           whole[k] = IF k <= Len(text) THEN text[k] ELSE piece[k - Len(text)]
  BY ConcatProperties
<1>2. Len(text) \in Nat /\ Len(piece) \in Nat
  OBVIOUS
<1> HIDE DEF whole
<1>3. /\ c \in Seq(Char) /\ Len(c) = IF n <= Len(whole) THEN n ELSE Len(whole)
      /\ \A k \in 1..Len(c) : c[k] = whole[k]
  BY <1>1, CutIs, Zenon
<1> HIDE DEF c
<1>4. ASSUME n <= Len(text) PROVE c = Cut(text, n)
  <2> DEFINE d == Cut(text, n)
  <2>1. /\ d \in Seq(Char) /\ Len(d) = IF n <= Len(text) THEN n ELSE Len(text)
        /\ \A k \in 1..Len(d) : d[k] = text[k]
    BY CutIs, Zenon
  <2> HIDE DEF d
  <2>2. Len(c) = n /\ Len(d) = n
    BY <1>1, <1>2, <1>3, <1>4, <2>1
  <2>3. \A k \in 1..Len(c) : c[k] = d[k]
    BY <1>1, <1>2, <1>3, <1>4, <2>1, <2>2
  <2>4. c = d
    BY <1>3, <2>1, <2>2, <2>3, SameSequence
  <2> QED
    BY <2>4 DEF d
<1>5. ASSUME n >= Len(text) PROVE c = text \o Cut(piece, n - Len(text))
  <2> DEFINE m == n - Len(text)
             d == Cut(piece, m)
             e == text \o d
  <2>1. m \in Nat /\ n = m + Len(text)
    BY <1>2, <1>5
  <2> HIDE DEF m
  <2>2. /\ d \in Seq(Char) /\ Len(d) = (IF m <= Len(piece) THEN m ELSE Len(piece))
        /\ \A k \in 1..Len(d) : d[k] = piece[k]
    BY <2>1, CutIs, Zenon
  <2> HIDE DEF d
  <2>3. /\ e \in Seq(Char) /\ Len(e) = Len(text) + Len(d)
        /\ \A k \in 1..Len(text) + Len(d) :
             e[k] = IF k <= Len(text) THEN text[k] ELSE d[k - Len(text)]
    BY <2>2, ConcatProperties
  <2> HIDE DEF e
  <2>4. Len(d) \in Nat /\ Len(d) <= Len(piece) /\ Len(c) = Len(text) + Len(d)
    BY <1>1, <1>2, <1>3, <2>1, <2>2
  <2>5. ASSUME NEW k \in 1..Len(c) PROVE c[k] = e[k]
    <3>1. k > Len(text) => k - Len(text) \in 1..Len(d)
      BY <1>2, <2>4
    <3>2. k \in 1..Len(text) + Len(d) /\ k \in 1..Len(text) + Len(piece) /\ c[k] = whole[k]
      BY <1>2, <1>3, <2>4
    <3>3. e[k] = IF k <= Len(text) THEN text[k] ELSE d[k - Len(text)]
      BY <2>3, <3>2
    <3>4. whole[k] = IF k <= Len(text) THEN text[k] ELSE piece[k - Len(text)]
      BY <1>1, <3>2
    <3>5. k > Len(text) => d[k - Len(text)] = piece[k - Len(text)]
      BY <2>2, <3>1
    <3>6. k <= Len(text) \/ k > Len(text)
      BY <1>2, <3>2
    <3> QED
      BY <3>2, <3>3, <3>4, <3>5, <3>6
  <2>6. c = e
    BY <1>3, <2>3, <2>4, <2>5, SameSequence
  <2> QED
    BY <2>6 DEF e, d, m
<1> QED
  BY <1>4, <1>5 DEF c, whole

LEMMA ConcatenateHolds == LineInv /\ Concatenate => LineInv'
<1> SUFFICES ASSUME LineInv, Concatenate PROVE LineInv'
  OBVIOUS
<1>1. PICK piece \in Pieces :
        LET r == strlcat(line, CString(piece), size) IN
        /\ line' = r.dest
        /\ IF phase = "fill" THEN wanted' = wanted \o piece /\ cut' = (cut \/ r.ret >= size)
           ELSE UNCHANGED <<wanted, cut>>
  BY DEF Concatenate
<1>2. /\ phase \in {"garbage", "fill"} /\ size' = size /\ phase' = phase /\ how' = how
      /\ pointer' = pointer /\ tokens' = tokens
  BY DEF Concatenate
<1>3. piece \in Seq(Char) /\ Len(piece) \in Nat
  BY LineConstants
<1> DEFINE r == strlcat(line, CString(piece), size)
<1>4. CASE phase = "garbage"
  <2>1. line' = line /\ wanted' = wanted /\ cut' = cut
    BY <1>1, <1>3, <1>4, GarbageStays
  <2> QED
    BY <1>2, <2>1, LineStays DEF lineVars
<1>5. CASE phase = "fill"
  <2> DEFINE head == Fits
             n == Len(head)
  <2>1. /\ LineShape /\ size \in Sizes /\ size \in Nat /\ size # 0 /\ wanted \in Seq(Char)
        /\ size < Room /\ IsBuffer(line) /\ CapOf(line) = Room /\ Room \in Nat
        /\ Reads(line, 0, head) /\ (cut <=> Len(wanted) >= size) /\ cut \in BOOLEAN
        /\ pointer = 0 /\ tokens = <<>>
    BY <1>5, LineConstants DEF LineInv, LineShape, Filling
  <2>2. /\ head \in Seq(Char) /\ n \in Nat /\ n < size /\ Len(wanted) \in Nat
        /\ n = IF size <= Len(wanted) THEN size - 1 ELSE Len(wanted)
    BY <2>1, FitsIs
  <2>3. strnlen(line, size) = n
    <3>1. strnlen(line, size) = IF size <= n THEN size ELSE n
      BY <2>1, StrnlenIs, Zenon
    <3> QED
      BY <2>1, <2>2, <3>1
  <2>4. strlen(CString(piece)) = Len(piece)
    BY <1>3, CStringReads, StrlenIs, Zenon
  <2>5. /\ wanted' = wanted \o piece /\ Len(wanted \o piece) = Len(wanted) + Len(piece)
        /\ wanted \o piece \in Seq(Char)
    BY <1>1, <1>3, <1>5, <2>1, ConcatProperties
  <2>6. cut' \in BOOLEAN /\ (cut' <=> Len(wanted') >= size')
    <3>1. r.ret = n + Len(piece)
      BY <2>3, <2>4 DEF strlcat
    <3>2. cut' = (cut \/ r.ret >= size)
      BY <1>1, <1>5
    <3>3. r.ret >= size <=> n + Len(piece) >= size
      BY <3>1
    <3>4. n + Len(piece) >= size => Len(wanted) + Len(piece) >= size
      BY <1>3, <2>1, <2>2
    <3>5. Len(wanted) + Len(piece) >= size => n + Len(piece) >= size \/ Len(wanted) >= size
      BY <1>3, <2>1, <2>2
    <3>6. Len(wanted) >= size => Len(wanted) + Len(piece) >= size
      BY <1>3, <2>1, <2>2
    <3>7. Len(wanted') >= size' <=> Len(wanted) + Len(piece) >= size
      BY <1>2, <2>5
    <3> HIDE DEF r, n
    <3> QED
      BY <2>1, <3>2, <3>3, <3>4, <3>5, <3>6, <3>7, Zenon
  <2>7. Fits' = Cut(wanted \o piece, size - 1)
    BY <1>2, <2>5 DEF Fits
  <2>8. /\ IsBuffer(line') /\ CapOf(line') = Room /\ Reads(line', 0, Fits')
        /\ \A i \in size..Room - 1 : line'[i] = Garbage
    <3>1. CASE n + 1 < size
      <4> DEFINE m == Min({Len(piece), size - n - 1})
                 b == Written(line, n, CString(piece), m)
      <4>1. line' = b
        BY <1>1, <2>3, <2>4, <3>1 DEF strlcat
      <4>2. n = Len(wanted) /\ size - n - 1 \in Nat /\ size - n - 1 \in Int /\ Len(piece) \in Int
        BY <1>3, <2>1, <2>2, <3>1
      <4>3. m = IF Len(piece) <= size - n - 1 THEN Len(piece) ELSE size - n - 1
        BY <4>2, MinOfTwo
      <4>4. m \in Nat /\ m \in 0..Len(piece) /\ n + m < size
        <5> DEFINE rest == size - n - 1
        <5>1. n \in Nat /\ size \in Nat /\ rest \in Nat /\ n + rest < size /\ Len(piece) \in Nat
          BY <1>3, <2>1, <2>2, <4>2
        <5>2. m = IF Len(piece) <= rest THEN Len(piece) ELSE rest
          BY <4>3
        <5> HIDE DEF m, n, rest
        <5> QED
          BY <5>1, <5>2
      <4>5. IsBuffer(b) /\ CapOf(b) = Room /\ \A i \in size..Room - 1 : b[i] = Garbage
        <5> HIDE DEF m, n
        <5> QED
          BY <2>1, <2>2, <4>4, WrittenInside
      <4>6. Cut(piece, m) = Cut(piece, size - n - 1)
        <5> DEFINE q == size - n - 1
                   c == Cut(piece, m)
                   d == Cut(piece, q)
        <5>1. m \in Nat /\ q \in Nat /\ m = IF Len(piece) <= q THEN Len(piece) ELSE q
          BY <4>2, <4>3, <4>4
        <5> HIDE DEF m, q
        <5>2. /\ c \in Seq(Char) /\ Len(c) = (IF m <= Len(piece) THEN m ELSE Len(piece))
              /\ \A k \in 1..Len(c) : c[k] = piece[k]
          BY <1>3, <5>1, CutIs, Zenon
        <5>3. /\ d \in Seq(Char) /\ Len(d) = (IF q <= Len(piece) THEN q ELSE Len(piece))
              /\ \A k \in 1..Len(d) : d[k] = piece[k]
          BY <1>3, <5>1, CutIs, Zenon
        <5> HIDE DEF c, d
        <5>4. Len(c) = Len(d)
          BY <1>3, <5>1, <5>2, <5>3
        <5>5. c = d
          <6>1. \A k \in 1..Len(c) : c[k] = d[k]
            BY <5>2, <5>3, <5>4
          <6> QED
            BY <5>2, <5>3, <5>4, <6>1, SameSequence
        <5> QED
          BY <5>5 DEF c, d, q
      <4>7. Reads(b, 0, head \o Cut(piece, m))
        <5>1. \A k \in 0..Len(head) - 1 : line[k] = head[k + 1]
          BY <2>1, ReadsHere
        <5>2. Len(head) + m < CapOf(line)
          <6> HIDE DEF m, head
          <6> QED
            BY <2>1, <2>2, <4>4
        <5> HIDE DEF m, head
        <5> QED
          BY <1>3, <2>1, <2>2, <4>4, <5>1, <5>2, WrittenReads
      <4>8. head = wanted
        <5>1. size - 1 >= Len(wanted) /\ size - 1 \in Nat
          BY <2>1, <2>2, <4>2
        <5>2. head = Cut(wanted, size - 1)
          BY DEF Fits
        <5>3. \A k \in 1..n : head[k] = wanted[k]
          BY <2>1, FitsIs
        <5> HIDE DEF head
        <5> QED
          BY <2>1, <2>2, <4>2, <5>3, SameSequence
      <4>9. Fits' = head \o Cut(piece, m)
        <5> DEFINE q == size - 1
        <5>1. q \in Nat /\ q >= Len(wanted) /\ q - Len(wanted) = size - n - 1
          BY <2>1, <2>2, <4>2
        <5>2. Cut(wanted \o piece, q) = wanted \o Cut(piece, q - Len(wanted))
          <6> HIDE DEF q
          <6> QED
            BY <1>3, <2>1, <5>1, ConcatenationFits
        <5> QED
          BY <2>7, <4>6, <4>8, <5>1, <5>2
      <4> HIDE DEF b, m
      <4> QED
        BY <4>1, <4>5, <4>7, <4>9
    <3>2. CASE ~(n + 1 < size)
      <4>1. line' = line
        BY <1>1, <2>3, <3>2 DEF strlcat
      <4>2. size - 1 \in Nat /\ size - 1 <= Len(wanted)
        BY <2>1, <2>2, <3>2
      <4>3. Cut(wanted \o piece, size - 1) = Cut(wanted, size - 1)
        BY <1>3, <2>1, <4>2, ConcatenationFits
      <4>4. Fits' = head
        BY <2>7, <4>3 DEF Fits
      <4> QED
        BY <2>1, <4>1, <4>4 DEF LineShape
    <3> QED
      BY <3>1, <3>2
  <2> HIDE DEF head, r
  <2>9. LineShape'
    BY <1>2, <1>5, <2>1, <2>5, <2>8 DEF LineShape
  <2>10. Filling'
    BY <1>2, <2>1, <2>6, <2>8, Zenon DEF Filling
  <2> QED
    BY <1>2, <1>5, <2>9, <2>10 DEF LineInv, Cutting, Trimmed
<1> QED
  BY <1>2, <1>4, <1>5

-------------------------------------------------------------------------------
(* Fields of a text *)

\* What FieldEnd is known by.
EndsField(text, delim, p, e) ==
  /\ e \in p..Len(text)
  /\ \A i \in p + 1..e : text[i] \notin delim
  /\ e = Len(text) \/ text[e + 1] \in delim

LEMMA FieldEndIs ==
  ASSUME NEW S, NEW text \in Seq(S), NEW delim, NEW p \in 0..Len(text)
  PROVE  /\ EndsField(text, delim, p, FieldEnd(text, delim, p))
         /\ \A e : EndsField(text, delim, p, e) => e = FieldEnd(text, delim, p)
<1> DEFINE n == Len(text)
           T == {n + 1} \cup {i \in p + 1..n : text[i] \in delim}
           m == Min(T)
<1>1. n \in Nat /\ p \in Nat /\ p <= n
  OBVIOUS
<1>2. T \subseteq Nat /\ n + 1 \in T
  BY <1>1
<1>3. \A i : i \in T <=> i = n + 1 \/ (i \in p + 1..n /\ text[i] \in delim)
  OBVIOUS
<1> HIDE DEF T
<1>4. m \in T /\ \A k \in T : m <= k
  BY <1>2, MinOf
<1>5. FieldEnd(text, delim, p) = m - 1
  BY DEF FieldEnd, T
<1> HIDE DEF m, n
<1>6. m - 1 \in p..n /\ \A i \in p + 1..m - 1 : text[i] \notin delim
  BY <1>1, <1>2, <1>3, <1>4
<1>7. m - 1 = n \/ text[m - 1 + 1] \in delim
  BY <1>1, <1>3, <1>4
<1>8. ASSUME NEW e, e \in p..n, \A i \in p + 1..e : text[i] \notin delim,
             e = n \/ text[e + 1] \in delim
      PROVE  e = m - 1
  <2>1. e + 1 \in T
    BY <1>1, <1>3, <1>8
  <2>2. \A k \in T : e + 1 <= k
    BY <1>1, <1>3, <1>8
  <2> QED
    BY <1>1, <1>2, <1>4, <1>8, <2>1, <2>2
<1> QED
  BY <1>5, <1>6, <1>7, <1>8 DEF EndsField, n

LEMMA FieldIs ==
  ASSUME NEW S, NEW text \in Seq(S), NEW delim, NEW p \in 0..Len(text)
  PROVE  LET e == FieldEnd(text, delim, p)
             f == FieldAt(text, delim, p)
         IN  /\ p \in Nat /\ e \in Nat /\ p <= e /\ e <= Len(text)
             /\ \A i \in p + 1..e : text[i] \notin delim
             /\ e = Len(text) \/ text[e + 1] \in delim
             /\ f \in Seq(S) /\ Len(f) = e - p /\ \A k \in 1..e - p : f[k] = text[p + k]
             /\ f # <<>> <=> p < e
<1> DEFINE n == Len(text)
           e == FieldEnd(text, delim, p)
           f == FieldAt(text, delim, p)
<1>1. n \in Nat /\ p \in Nat /\ p <= n
  OBVIOUS
<1>2. EndsField(text, delim, p, e)
  BY FieldEndIs
<1>3. f = SubSeq(text, p + 1, e)
  BY DEF FieldAt, FieldEnd
<1> HIDE DEF e, f
<1>4. e \in Nat /\ p <= e /\ e <= n
  BY <1>1, <1>2 DEF EndsField
<1>5. \A i \in p + 1..e : text[i] \in S
  BY <1>1, <1>4
<1>6. /\ f \in Seq(S) /\ Len(f) = (IF p + 1 <= e THEN e - (p + 1) + 1 ELSE 0)
      /\ \A k \in 1..e - (p + 1) + 1 : f[k] = text[p + 1 + k - 1]
  <2> DEFINE a == p + 1
  <2>1. a \in Nat /\ e \in Nat /\ \A i \in a..e : text[i] \in S
    BY <1>1, <1>4, <1>5
  <2> HIDE DEF a
  <2>2. /\ f \in Seq(S) /\ Len(f) = (IF a <= e THEN e - a + 1 ELSE 0)
        /\ \A k \in 1..e - a + 1 : f[k] = text[a + k - 1]
    <3>1. f = SubSeq(text, a, e)
      BY <1>3 DEF a
    <3> QED
      BY <1>1, <2>1, <3>1, SubSeqProperties
  <2> QED
    BY <2>2 DEF a
<1>7. Len(f) = e - p
  BY <1>1, <1>4, <1>6
<1>8. \A k \in 1..e - p : f[k] = text[p + k]
  <2> TAKE k \in 1..e - p
  <2>1. k \in 1..e - (p + 1) + 1 /\ p + 1 + k - 1 = p + k
    BY <1>1, <1>4
  <2> QED
    BY <1>6, <2>1
<1>9. f # <<>> <=> p < e
  BY <1>1, <1>4, <1>6, <1>7
<1> QED
  BY <1>1, <1>2, <1>4, <1>6, <1>7, <1>8, <1>9 DEF EndsField, e, f, n

\* From index p on, m has what remains of the text.
ReadsFrom(m, p, text) ==
  /\ IsBuffer(m) /\ Len(text) < CapOf(m) /\ text \in Seq(Char) /\ p \in 0..Len(text)
  /\ \A i \in p..Len(text) - 1 : m[i] = text[i + 1]
  /\ m[Len(text)] = NUL

LEMMA CspnIs ==
  ASSUME NEW m, NEW p, NEW text, ReadsFrom(m, p, text), NEW delim
  PROVE  /\ strcspn(m, p, delim) = FieldEnd(text, delim, p)
         /\ m[FieldEnd(text, delim, p)] = NUL <=> FieldEnd(text, delim, p) = Len(text)
<1> DEFINE n == Len(text)
           e == FieldEnd(text, delim, p)
           T == Places(m, delim \cup {NUL})
<1>1. /\ n \in Nat /\ p \in Nat /\ p <= n /\ IsBuffer(m) /\ CapOf(m) \in Nat /\ n < CapOf(m)
      /\ text \in Seq(Char) /\ p \in 0..Len(text)
      /\ m[n] = NUL
      /\ \A i \in p..n - 1 : m[i] = text[i + 1]
  BY CapIs DEF ReadsFrom
<1>2. T \subseteq Nat /\ T = {i \in 0..CapOf(m) - 1 : m[i] \in delim \cup {NUL}}
  BY <1>1, PlacesAre
<1>3. EndsField(text, delim, p, e)
  BY <1>1, FieldEndIs
<1>4. \A i \in 1..n : text[i] \in Char
  BY <1>1
<1> HIDE DEF e, T, n
<1>5. e \in Nat /\ p <= e /\ e <= n /\ \A i \in p + 1..e : text[i] \notin delim
  BY <1>1, <1>3 DEF EndsField, n
<1>6. e = n \/ text[e + 1] \in delim
  BY <1>3 DEF EndsField, n
<1>7. \A i \in p..n - 1 : m[i] # NUL
  <2> TAKE i \in p..n - 1
  <2>1. i + 1 \in 1..n /\ m[i] = text[i + 1]
    BY <1>1
  <2> QED
    BY <1>4, <2>1 DEF Char
<1>8. e \in T
  BY <1>1, <1>2, <1>5, <1>6
<1>9. ASSUME NEW j \in T, j >= p PROVE e <= j
  <2> SUFFICES ASSUME j < e PROVE FALSE
    BY <1>2, <1>5
  <2>1. j \in p..n - 1 /\ j + 1 \in p + 1..e
    BY <1>1, <1>2, <1>5, <1>9
  <2> QED
    BY <1>1, <1>2, <1>5, <1>7, <2>1
<1>10. First(p, T) = e
  <2>1. T \subseteq Int /\ p \in Int /\ e \in T /\ e >= p /\ \A j \in T : j >= p => e <= j
    BY <1>1, <1>2, <1>5, <1>8, <1>9
  <2> QED
    BY <2>1, FirstIs
<1>11. m[e] = NUL <=> e = n
  BY <1>1, <1>5, <1>7
<1> QED
  BY <1>10, <1>11 DEF strcspn, T, e, n

LEMMA SpnIs ==
  ASSUME NEW m, NEW p, NEW text, ReadsFrom(m, p, text), NEW accept
  PROVE  LET f == strspn(m, p, accept)
         IN  /\ f \in Nat /\ p <= f /\ f <= Len(text)
             /\ \A i \in p + 1..f : text[i] \in accept
             /\ f = Len(text) \/ text[f + 1] \notin accept
             /\ m[f] = NUL <=> f = Len(text)
<1> DEFINE n == Len(text)
           f == strspn(m, p, accept)
           T == {i \in DOMAIN m : m[i] = NUL \/ m[i] \notin accept}
           U == {i \in T : i >= p}
<1>1. /\ n \in Nat /\ p \in Nat /\ p <= n /\ IsBuffer(m) /\ CapOf(m) \in Nat /\ n < CapOf(m)
      /\ text \in Seq(Char) /\ p \in 0..Len(text)
      /\ m[n] = NUL
      /\ \A i \in p..n - 1 : m[i] = text[i + 1]
  BY CapIs DEF ReadsFrom
<1>2. \A i : i \in U <=> i \in 0..CapOf(m) - 1 /\ i >= p /\ (m[i] = NUL \/ m[i] \notin accept)
  BY <1>1, CapIs
<1>3. \A i \in 1..n : text[i] \in Char
  BY <1>1
<1>4. f = Min(U)
  BY DEF strspn, First
<1> HIDE DEF f, U, n
<1>5. U \subseteq Nat /\ n \in U
  BY <1>1, <1>2
<1>6. f \in U /\ \A k \in U : f <= k
  BY <1>4, <1>5, MinOf
<1>7. f \in Nat /\ p <= f /\ f <= n
  BY <1>1, <1>2, <1>5, <1>6
<1>8. \A i \in p..n - 1 : m[i] # NUL
  <2> TAKE i \in p..n - 1
  <2>1. i + 1 \in 1..n /\ m[i] = text[i + 1]
    BY <1>1
  <2> QED
    BY <1>3, <2>1 DEF Char
<1>9. ASSUME NEW i \in p + 1..f PROVE text[i] \in accept
  <2>1. i - 1 \notin U /\ i - 1 \in p..n - 1 /\ i - 1 \in 0..CapOf(m) - 1 /\ i - 1 + 1 = i
    BY <1>1, <1>6, <1>7
  <2> QED
    BY <1>1, <1>2, <1>7, <2>1
<1>10. f = n \/ text[f + 1] \notin accept
  <2> SUFFICES ASSUME f < n PROVE text[f + 1] \notin accept
    BY <1>1, <1>7
  <2>1. f \in p..n - 1
    BY <1>1, <1>7
  <2>2. m[f] # NUL /\ m[f] = text[f + 1]
    BY <1>1, <1>8, <2>1
  <2> QED
    BY <1>2, <1>6, <2>2
<1>11. m[f] = NUL <=> f = n
  BY <1>1, <1>7, <1>8
<1> QED
  BY <1>7, <1>9, <1>10, <1>11 DEF f, n

LEMMA BeginsAre ==
  ASSUME NEW text \in Seq(Char), NEW delim, NEW call
  PROVE  /\ FieldStarts(text, delim) \subseteq 0..Len(text)
         /\ \A p : p \in FieldStarts(text, delim)
                     <=> p = 0 \/ (p \in 1..Len(text) /\ text[p] \in delim)
         /\ \A p : p \in Begins(text, delim, call)
                     <=> /\ p \in 0..Len(text)
                         /\ p = 0 \/ (p \in 1..Len(text) /\ text[p] \in delim)
                         /\ call = "strsep" \/ p < FieldEnd(text, delim, p)
<1>1. Len(text) \in Nat
  OBVIOUS
<1>2. /\ FieldStarts(text, delim) \subseteq 0..Len(text)
      /\ \A p : p \in FieldStarts(text, delim)
                  <=> p = 0 \/ (p \in 1..Len(text) /\ text[p] \in delim)
  BY <1>1 DEF FieldStarts
<1>3. ASSUME NEW p \in 0..Len(text)
      PROVE  FieldAt(text, delim, p) # <<>> <=> p < FieldEnd(text, delim, p)
  BY FieldIs
<1> QED
  BY <1>2, <1>3 DEF Begins

\* What is known of a line that was filled.
LEMMA TextInLine ==
  ASSUME LineInv, phase # "garbage"
  PROVE  /\ size \in Nat /\ size # 0 /\ wanted \in Seq(Char) /\ Room \in Nat /\ size < Room
         /\ IsBuffer(line) /\ CapOf(line) = Room
         /\ Fits \in Seq(Char) /\ Len(Fits) \in Nat /\ Len(Fits) < size
         /\ \A i \in size..Room - 1 : line[i] = Garbage
         /\ \A i \in 0..Len(Fits) - 1 : CString(Fits)[i] = Fits[i + 1] /\ Fits[i + 1] # NUL
         /\ CString(Fits)[Len(Fits)] = NUL
<1>1. /\ size \in Nat /\ size # 0 /\ wanted \in Seq(Char) /\ Room \in Nat /\ size < Room
      /\ IsBuffer(line) /\ CapOf(line) = Room
      /\ \A i \in size..Room - 1 : line[i] = Garbage
  BY LineConstants DEF LineInv, LineShape
<1>2. Fits \in Seq(Char) /\ Len(Fits) \in Nat /\ Len(Fits) < size
  BY <1>1, FitsIs
<1>3. /\ \A i \in 0..Len(Fits) - 1 : CString(Fits)[i] = Fits[i + 1] /\ Fits[i + 1] # NUL
      /\ CString(Fits)[Len(Fits)] = NUL
  BY <1>2, CStringReads
<1> QED
  BY <1>1, <1>2, <1>3

LEMMA PointerInLine ==
  ASSUME LineInv, phase = "tokens", pointer # NULL
  PROVE  /\ ReadsFrom(line, pointer, Fits)
         /\ pointer \in FieldStarts(Fits, how.delim) \/ (how.call = "strtok_r" /\ pointer = Len(Fits))
         /\ \A i \in pointer..Len(Fits) : Ended(i) => i = Len(Fits)
<1>1. /\ Fits \in Seq(Char) /\ Len(Fits) \in Nat /\ Len(Fits) < CapOf(line) /\ IsBuffer(line)
      /\ \A i \in 0..Len(Fits) - 1 : CString(Fits)[i] = Fits[i + 1]
      /\ CString(Fits)[Len(Fits)] = NUL
  BY TextInLine
<1>2. LineCut /\ PointerIs
  BY DEF LineInv, Cutting
<1>3. /\ pointer \in FieldStarts(Fits, how.delim) \/ (how.call = "strtok_r" /\ pointer = Len(Fits))
      /\ \A i \in pointer..Len(Fits) : Ended(i) => i = Len(Fits)
  BY <1>2 DEF PointerIs
<1>4. pointer \in 0..Len(Fits)
  <2>1. FieldStarts(Fits, how.delim) \subseteq 0..Len(Fits)
    BY <1>1, BeginsAre
  <2> QED
    BY <1>1, <1>3, <2>1
<1>5. \A i \in 0..Len(Fits) : line[i] = IF Ended(i) THEN NUL ELSE CString(Fits)[i]
  BY <1>2 DEF LineCut
<1>6. \A i \in pointer..Len(Fits) - 1 : line[i] = Fits[i + 1]
  BY <1>1, <1>3, <1>4, <1>5
<1>7. line[Len(Fits)] = NUL
  BY <1>1, <1>5
<1> QED
  BY <1>1, <1>3, <1>4, <1>6, <1>7 DEF ReadsFrom

\* A token was found: it is the next, and its end becomes a terminator.
LEMMA TokenFound ==
  ASSUME LineInv, phase = "tokens", pointer # NULL,
         NEW from, from \in Begins(Fits, how.delim, how.call), from >= pointer,
         \A p \in Begins(Fits, how.delim, how.call) : p < from <=> p < pointer,
         NEW end, end = FieldEnd(Fits, how.delim, from),
         line' = [line EXCEPT ![end] = NUL], tokens' = Append(tokens, from),
         IF end = Len(Fits)
         THEN pointer' = IF how.call = "strsep" THEN NULL ELSE end
         ELSE pointer' = end + 1,
         UNCHANGED <<size, wanted, how>>
  PROVE  TokensAre' /\ LineCut' /\ PointerIs'
<1> DEFINE text == Fits
           n == Len(text)
           delim == how.delim
           call == how.call
           B == Begins(text, delim, call)
<1>1. /\ text \in Seq(Char) /\ n \in Nat /\ n < CapOf(line) /\ IsBuffer(line)
      /\ CString(text)[n] = NUL
  BY TextInLine
<1>2. TokensAre /\ LineCut /\ PointerIs
  BY DEF LineInv, Cutting
<1>3. text' = text /\ delim' = delim /\ call' = call /\ B' = B /\ how' = how
  BY DEF Fits
<1>4. /\ FieldStarts(text, delim) \subseteq 0..n
      /\ \A p : p \in FieldStarts(text, delim) <=> p = 0 \/ (p \in 1..n /\ text[p] \in delim)
      /\ \A p : p \in B <=> /\ p \in 0..n
                            /\ p = 0 \/ (p \in 1..n /\ text[p] \in delim)
                            /\ call = "strsep" \/ p < FieldEnd(text, delim, p)
  BY <1>1, BeginsAre
<1>5. from \in B /\ from \in 0..n
  BY <1>4
<1>6. /\ end \in Nat /\ from <= end /\ end <= n
      /\ \A i \in from + 1..end : text[i] \notin delim
      /\ end = n \/ text[end + 1] \in delim
  BY <1>1, <1>5, FieldIs
<1>7. call = "strsep" \/ from < end
  BY <1>4, <1>5
<1>8. /\ pointer \in 0..n
      /\ \A i \in pointer..n : Ended(i) => i = n
  BY <1>1, <1>4, PointerInLine DEF ReadsFrom
<1>9. /\ tokens \in Seq(Nat) /\ call \in {"strsep", "strtok_r"}
      /\ \A k \in DOMAIN tokens :
           /\ tokens[k] \in B
           /\ \A p \in B : p < tokens[k] <=> \E j \in 1..k - 1 : p = tokens[j]
  BY <1>2 DEF TokensAre
<1>10. /\ Len(tokens) \in Nat /\ DOMAIN tokens = 1..Len(tokens)
       /\ DOMAIN tokens' = 1..Len(tokens) + 1 /\ tokens' \in Seq(Nat)
       /\ \A k \in 1..Len(tokens) : tokens'[k] = tokens[k]
       /\ tokens'[Len(tokens) + 1] = from
  <2>1. from \in Nat
    BY <1>5
  <2> QED
    BY <1>9, <2>1, AppendProperties
<1>11. \A p \in B : p < from <=> \E k \in DOMAIN tokens : p = tokens[k]
  BY <1>2 DEF PointerIs
<1>12. \A i : Ended(i)' <=> Ended(i) \/ i = end
  <2>1. \A i : Ended(i)' <=> \E k \in DOMAIN tokens' : i = FieldEnd(text, delim, tokens'[k])
    BY <1>3 DEF Ended
  <2>2. \A i : Ended(i) <=> \E k \in DOMAIN tokens : i = FieldEnd(text, delim, tokens[k])
    BY DEF Ended
  <2> DEFINE End(q) == FieldEnd(text, delim, q)
  <2>3. /\ \A i : Ended(i)' <=> \E k \in DOMAIN tokens' : i = End(tokens'[k])
        /\ \A i : Ended(i) <=> \E k \in DOMAIN tokens : i = End(tokens[k])
        /\ end = End(from)
    BY <2>1, <2>2
  <2> HIDE DEF End, text, delim, n, B, call
  <2> TAKE i
  <2>4. ASSUME NEW k \in DOMAIN tokens', i = End(tokens'[k])
        PROVE  Ended(i) \/ i = end
    <3>1. CASE k = Len(tokens) + 1
      BY <1>10, <2>3, <2>4, <3>1
    <3>2. CASE k # Len(tokens) + 1
      <4>1. k \in 1..Len(tokens)
        BY <1>10, <3>2
      <4> QED
        BY <1>10, <2>3, <2>4, <4>1
    <3> QED
      BY <3>1, <3>2
  <2>5. ASSUME NEW k \in DOMAIN tokens, i = End(tokens[k])
        PROVE  \E j \in DOMAIN tokens' : i = End(tokens'[j])
    <3>1. k \in DOMAIN tokens' /\ tokens'[k] = tokens[k]
      BY <1>10
    <3> QED
      BY <2>5, <3>1
  <2>6. ASSUME i = end PROVE  \E j \in DOMAIN tokens' : i = End(tokens'[j])
    <3>1. Len(tokens) + 1 \in DOMAIN tokens'
      BY <1>10
    <3> QED
      BY <1>10, <2>3, <2>6, <3>1
  <2> QED
    BY <2>3, <2>4, <2>5, <2>6
<1> HIDE DEF text, n, delim, call, B
<1>13. TokensAre'
  <2>1. ASSUME NEW k \in 1..Len(tokens) + 1
        PROVE  /\ tokens'[k] \in B
               /\ \A p \in B : p < tokens'[k] <=> \E j \in 1..k - 1 : p = tokens'[j]
    <3>1. \A j \in 1..k - 1 : j \in 1..Len(tokens) /\ tokens'[j] = tokens[j]
      BY <1>10
    <3>2. CASE k = Len(tokens) + 1
      <4>1. tokens'[k] = from /\ 1..k - 1 = DOMAIN tokens
        BY <1>10, <3>2
      <4> QED
        BY <1>5, <1>11, <3>1, <4>1
    <3>3. CASE k # Len(tokens) + 1
      <4>1. k \in DOMAIN tokens /\ tokens'[k] = tokens[k]
        BY <1>10, <3>3
      <4> QED
        BY <1>9, <3>1, <4>1
    <3> QED
      BY <3>2, <3>3
  <2>2. TokensAre' <=> /\ call' \in {"strsep", "strtok_r"}
                       /\ tokens' \in Seq(Nat)
                       /\ \A k \in DOMAIN tokens' :
                            /\ tokens'[k] \in B'
                            /\ \A p \in B' : p < tokens'[k] <=> \E j \in 1..k - 1 : p = tokens'[j]
    BY Zenon DEF TokensAre, B, text, delim, call
  <2>3. call' \in {"strsep", "strtok_r"} /\ tokens' \in Seq(Nat)
    BY <1>3, <1>9, <1>10
  <2>4. \A k \in DOMAIN tokens' :
           /\ tokens'[k] \in B'
           /\ \A p \in B' : p < tokens'[k] <=> \E j \in 1..k - 1 : p = tokens'[j]
    BY <1>3, <1>10, <2>1, Zenon
  <2> QED
    BY <2>2, <2>3, <2>4, Zenon
<1>14. LineCut'
  <2>1. \A i \in 0..CapOf(line) - 1 : line'[i] = IF i = end THEN NUL ELSE line[i]
    <3>1. DOMAIN line = 0..CapOf(line) - 1 /\ line' = [line EXCEPT ![end] = NUL]
      BY <1>1, CapIs
    <3>2. \A i \in DOMAIN line : [line EXCEPT ![end] = NUL][i] = IF i = end THEN NUL ELSE line[i]
      OBVIOUS
    <3> QED
      BY <3>1, <3>2, Zenon
  <2>2. \A i \in 0..n : line[i] = IF Ended(i) THEN NUL ELSE CString(text)[i]
    BY <1>2 DEF LineCut, n, text
  <2>3. LineCut' <=> \A i \in 0..n : line'[i] = IF Ended(i)' THEN NUL ELSE CString(text)[i]
    BY <1>3 DEF LineCut, n, text
  <2>4. ASSUME NEW i \in 0..n
        PROVE  line'[i] = IF Ended(i)' THEN NUL ELSE CString(text)[i]
    <3>1. i \in 0..CapOf(line) - 1 /\ CapOf(line) \in Nat
      BY <1>1, CapIs
    <3>2. CASE i = end
      BY <1>12, <2>1, <3>1, <3>2
    <3>3. CASE i # end
      BY <1>12, <2>1, <2>2, <3>1, <3>3
    <3> QED
      BY <3>2, <3>3
  <2> QED
    BY <2>3, <2>4
<1>15. \A q \in B : q <= end <=> q <= from
  <2> TAKE q \in B
  <2>1. q \in Nat /\ (q = 0 \/ text[q] \in delim)
    BY <1>1, <1>4
  <2>2. q \in from + 1..end => FALSE
    BY <1>5, <1>6, <2>1
  <2> QED
    BY <1>1, <1>5, <1>6, <2>1, <2>2
<1>16. ASSUME NEW q \in B
       PROVE  q <= from <=> \E k \in DOMAIN tokens' : q = tokens'[k]
  <2>1. q \in Nat /\ from \in Nat
    BY <1>4, <1>5
  <2>2. q <= from <=> q < from \/ q = from
    BY <2>1
  <2>3. q < from <=> \E k \in DOMAIN tokens : q = tokens[k]
    BY <1>11
  <2>4. (\E k \in DOMAIN tokens : q = tokens[k]) \/ q = from
           <=> \E k \in DOMAIN tokens' : q = tokens'[k]
    <3>1. \A k \in DOMAIN tokens : k \in DOMAIN tokens' /\ tokens'[k] = tokens[k]
      BY <1>10
    <3>2. \A k \in DOMAIN tokens' : k \in DOMAIN tokens \/ k = Len(tokens) + 1
      BY <1>10
    <3>3. Len(tokens) + 1 \in DOMAIN tokens' /\ tokens'[Len(tokens) + 1] = from
      BY <1>10
    <3> QED
      BY <3>1, <3>2, <3>3, Zenon
  <2> QED
    BY <2>2, <2>3, <2>4, Zenon
<1>17. PointerIs'
  <2>1. PointerIs' <=>
          /\ pointer' = NULL => call' = "strsep"
          /\ pointer' # NULL =>
               /\ pointer' \in FieldStarts(text', delim') \/ (call' = "strtok_r" /\ pointer' = n')
               /\ \A i \in pointer'..n' : Ended(i)' => i = n'
          /\ \A p \in B' :
               (pointer' # NULL => p < pointer') <=> \E k \in DOMAIN tokens' : p = tokens'[k]
    BY Zenon DEF PointerIs, B, text, delim, call, n
  <2>2. n' = n
    BY <1>3 DEF n
  <2>3. CASE end = n
    <3>1. pointer' = IF call = "strsep" THEN NULL ELSE n
      BY <2>3 DEF n, text, call
    <3>2. ASSUME NEW p \in B
          PROVE  (pointer' # NULL => p < pointer') <=> p <= from
      <4>1. p \in 0..n /\ (call = "strsep" \/ p < FieldEnd(text, delim, p))
        BY <1>4
      <4>2. p <= from
        BY <1>1, <1>15, <2>3, <4>1
      <4>3. CASE call = "strsep"
        BY <3>1, <4>2, <4>3
      <4>4. CASE call # "strsep"
        <5>1. FieldEnd(text, delim, p) \in Nat /\ FieldEnd(text, delim, p) <= n
          BY <1>1, <4>1, FieldIs DEF n
        <5>2. p < n
          BY <1>1, <4>1, <4>4, <5>1
        <5> QED
          BY <3>1, <4>2, <4>4, <5>2
      <4> QED
        BY <4>3, <4>4
    <3>3. pointer' # NULL => call = "strtok_r" /\ pointer' = n
      BY <1>9, <3>1
    <3>4. pointer' = NULL => call = "strsep"
      BY <1>1, <3>1 DEF NULL
    <3>5. \A i \in n..n : i = n
      BY <1>1
    <3>6. \A p \in B : (pointer' # NULL => p < pointer') <=> \E k \in DOMAIN tokens' : p = tokens'[k]
      BY <1>16, <3>2, Zenon
    <3> QED
      BY <1>3, <2>1, <2>2, <3>3, <3>4, <3>5, <3>6
  <2>4. CASE end # n
    <3>1. pointer' = end + 1 /\ pointer' # NULL
      BY <1>6, <2>4 DEF n, text, NULL
    <3>2. pointer' \in FieldStarts(text, delim)
      BY <1>1, <1>4, <1>6, <2>4, <3>1
    <3>3. \A i \in pointer'..n : Ended(i)' => i = n
      <4> TAKE i \in pointer'..n
      <4>1. i \in pointer..n /\ i # end
        <5>1. i \in end + 1..n /\ end \in Nat /\ n \in Nat
          BY <1>1, <1>6, <3>1
        <5>2. pointer \in Nat /\ pointer <= end
          BY <1>1, <1>5, <1>6, <1>8
        <5> QED
          BY <5>1, <5>2
      <4> QED
        BY <1>8, <1>12, <4>1
    <3>4. \A p \in B : (pointer' # NULL => p < pointer') <=> \E k \in DOMAIN tokens' : p = tokens'[k]
      <4> TAKE p \in B
      <4>1. p < pointer' <=> p <= from
        BY <1>4, <1>6, <1>15, <3>1
      <4> QED
        BY <1>16, <3>1, <4>1, Zenon
    <3> QED
      BY <1>3, <2>1, <2>2, <3>1, <3>2, <3>3, <3>4
  <2> QED
    BY <2>3, <2>4
<1> QED
  BY <1>13, <1>14, <1>17

\* A terminator put inside the size leaves the rest as it is.
LEMMA EndedInside ==
  ASSUME LineInv, phase # "garbage", NEW e \in 0..size - 1,
         line' = [line EXCEPT ![e] = NUL], UNCHANGED <<size, wanted>>,
         phase' \in {"trimmed", "tokens", "done"}
  PROVE  /\ LineShape'
         /\ \A i \in 0..Room - 1 : line'[i] = IF i = e THEN NUL ELSE line[i]
<1>1. /\ size \in Nat /\ Room \in Nat /\ size < Room /\ IsBuffer(line) /\ CapOf(line) = Room
      /\ \A i \in size..Room - 1 : line[i] = Garbage
  BY TextInLine
<1>2. DOMAIN line = 0..Room - 1
  BY <1>1, CapIs
<1>3. \A i \in DOMAIN line : [line EXCEPT ![e] = NUL][i] = IF i = e THEN NUL ELSE line[i]
  OBVIOUS
<1>4. \A i \in 0..Room - 1 : line'[i] = IF i = e THEN NUL ELSE line[i]
  BY <1>2, <1>3, Zenon
<1>5. line' = [i \in 0..Room - 1 |-> line'[i]]
  <2>1. line' = [i \in 0..Room - 1 |-> IF i = e THEN NUL ELSE line[i]]
    BY <1>2
  <2> DEFINE b == line'
  <2> HIDE DEF b
  <2>2. b = [i \in 0..Room - 1 |-> IF i = e THEN NUL ELSE line[i]]
    BY <2>1 DEF b
  <2>3. b = [i \in 0..Room - 1 |-> b[i]]
    BY <2>2
  <2> QED
    BY <2>3 DEF b
<1>6. IsBuffer(line') /\ CapOf(line') = Room
  BY <1>1, <1>5, BufferIs
<1>7. \A i \in size..Room - 1 : line'[i] = Garbage
  BY <1>1, <1>4
<1>8. /\ size' = size /\ wanted' = wanted
      /\ phase' \in {"garbage", "fill", "trimmed", "tokens", "done"} /\ phase' # "garbage"
      /\ size \in Sizes /\ wanted \in Seq(Char) /\ size # 0
  BY DEF LineInv, LineShape
<1>9. LineShape'
  BY <1>6, <1>7, <1>8 DEF LineShape
<1> QED
  BY <1>4, <1>9

LEMMA TokeniseHolds == LineInv /\ Tokenise => LineInv'
<1> SUFFICES ASSUME LineInv, Tokenise PROVE LineInv'
  OBVIOUS
<1>1. /\ phase = "fill" /\ phase' = "tokens" /\ how'.call \in {"strsep", "strtok_r"}
      /\ line' = line /\ size' = size /\ wanted' = wanted /\ cut' = cut
      /\ pointer' = pointer /\ tokens' = tokens
  BY DEF Tokenise
<1>2. /\ Fits \in Seq(Char) /\ Len(Fits) \in Nat /\ CString(Fits)[Len(Fits)] = NUL
      /\ \A i \in 0..Len(Fits) - 1 : CString(Fits)[i] = Fits[i + 1]
  BY <1>1, TextInLine
<1>3. Reads(line, 0, Fits) /\ pointer = 0 /\ tokens = <<>> /\ Fits' = Fits
  BY <1>1 DEF LineInv, Filling, Fits
<1>4. tokens' = <<>> /\ DOMAIN tokens' = {} /\ tokens' \in Seq(Nat) /\ pointer' = 0
  BY <1>1, <1>3
<1>5. \A i : ~Ended(i)'
  BY <1>4 DEF Ended
<1>6. LineShape'
  BY <1>1 DEF LineInv, LineShape
<1>7. TokensAre'
  BY <1>1, <1>4 DEF TokensAre
<1>8. LineCut'
  <2>1. \A i \in 0..Len(Fits) : line[i] = CString(Fits)[i]
    <3>1. /\ \A i \in 0..Len(Fits) - 1 : line[i] = Fits[i + 1]
          /\ line[Len(Fits)] = NUL
      BY <1>3, ReadsHere
    <3> QED
      BY <1>2, <3>1
  <2> QED
    BY <1>1, <1>3, <1>5, <2>1 DEF LineCut
<1>9. PointerIs'
  <2>1. 0 # NULL
    BY DEF NULL
  <2>2. 0 \in FieldStarts(Fits, how'.delim)
    BY DEF FieldStarts
  <2>3. \A p \in Begins(Fits, how'.delim, how'.call) : ~(p < 0)
    BY <1>2 DEF Begins, FieldStarts
  <2>4. /\ pointer' # NULL /\ pointer' \in FieldStarts(Fits', how'.delim)
        /\ \A p \in Begins(Fits', how'.delim, how'.call) : ~(p < pointer')
        /\ ~\E k \in DOMAIN tokens' : TRUE
    BY <1>3, <1>4, <2>1, <2>2, <2>3
  <2> QED
    BY <1>5, <2>4 DEF PointerIs
<1> QED
  BY <1>1, <1>6, <1>7, <1>8, <1>9 DEF LineInv, Filling, Cutting, Trimmed

\* The tokeniser found no more.
LEMMA NoTokenLeft ==
  ASSUME LineInv, phase = "tokens",
         line' = line, tokens' = tokens, phase' = "done", UNCHANGED <<size, wanted, how>>,
         \/ pointer = NULL /\ pointer' = NULL
         \/ /\ pointer # NULL /\ how.call = "strtok_r" /\ pointer' = Len(Fits)
            /\ \A p \in Begins(Fits, how.delim, how.call) : p < Len(Fits) /\ p < pointer
  PROVE  LineInv'
<1> DEFINE B == Begins(Fits, how.delim, how.call)
<1>1. Len(Fits) \in Nat /\ Fits' = Fits /\ B' = B /\ how' = how /\ size' = size /\ wanted' = wanted
  BY TextInLine DEF Fits
<1>2. /\ TokensAre /\ LineCut /\ LineShape
      /\ pointer = NULL => how.call = "strsep"
      /\ \A p \in B : (pointer # NULL => p < pointer) <=> \E k \in DOMAIN tokens : p = tokens[k]
  BY DEF LineInv, Cutting, PointerIs
<1>3. LineShape'
  BY <1>1, <1>2 DEF LineShape
<1>4. \A i : Ended(i)' <=> Ended(i)
  BY <1>1 DEF Ended
<1>5. TokensAre' <=> TokensAre
  BY <1>1 DEF TokensAre
<1>6. LineCut' <=> LineCut
  BY <1>1, <1>4 DEF LineCut
<1>7. B \subseteq Range(tokens)
  <2>1. \A p \in B : \E k \in DOMAIN tokens : p = tokens[k]
    BY <1>2, Zenon
  <2> QED
    BY <2>1 DEF Range
<1>8. PointerIs'
  <2>1. PointerIs' <=>
          /\ pointer' = NULL => how.call = "strsep"
          /\ pointer' # NULL =>
               /\ pointer' \in FieldStarts(Fits, how.delim)
                    \/ (how.call = "strtok_r" /\ pointer' = Len(Fits))
               /\ \A i \in pointer'..Len(Fits) : Ended(i)' => i = Len(Fits)
          /\ \A p \in B :
               (pointer' # NULL => p < pointer') <=> \E k \in DOMAIN tokens : p = tokens[k]
    BY <1>1 DEF PointerIs
  <2>2. CASE pointer = NULL /\ pointer' = NULL
    BY <1>2, <2>1, <2>2, Zenon
  <2>3. CASE /\ pointer # NULL /\ how.call = "strtok_r" /\ pointer' = Len(Fits)
             /\ \A p \in B : p < Len(Fits) /\ p < pointer
    <3>1. \A i \in pointer'..Len(Fits) : i = Len(Fits)
      BY <1>1, <2>3
    <3>2. pointer' # NULL
      BY <1>1, <2>3 DEF NULL
    <3>3. \A p \in B : \E k \in DOMAIN tokens : p = tokens[k]
      BY <1>2, <2>3, Zenon
    <3>4. \A p \in B : p < pointer'
      BY <2>3
    <3> QED
      BY <2>1, <2>3, <3>1, <3>2, <3>3, <3>4, Zenon
  <2> QED
    BY <2>2, <2>3
<1>9. Cutting'
  <2>1. B' \subseteq Range(tokens')
    BY <1>1, <1>7
  <2> QED
    BY <1>2, <1>5, <1>6, <1>8, <2>1 DEF Cutting
<1> QED
  BY <1>3, <1>9 DEF LineInv, Filling, Trimmed

\* strsep's token begins at the pointer.
LEMMA StrsepHolds ==
  ASSUME LineInv, Token, how.call = "strsep"
  PROVE  LineInv'
<1> DEFINE n == Len(Fits)
           B == Begins(Fits, how.delim, how.call)
           end == FieldEnd(Fits, how.delim, pointer)
<1>1. /\ phase = "tokens" /\ size' = size /\ wanted' = wanted /\ how' = how /\ cut' = cut
      /\ LET r == strsep(line, pointer, how.delim)
         IN /\ line' = r.s /\ pointer' = r.rest
            /\ tokens' = IF r.ret = NULL THEN tokens ELSE Append(tokens, r.ret)
            /\ phase' = IF r.ret = NULL THEN "done" ELSE "tokens"
  BY DEF Token
<1>2. CASE pointer = NULL
  <2>1. line' = line /\ pointer' = NULL /\ tokens' = tokens /\ phase' = "done"
    BY <1>1, <1>2 DEF strsep
  <2> QED
    BY <1>1, <1>2, <2>1, NoTokenLeft
<1>3. CASE pointer # NULL
  <2>1. /\ n \in Nat /\ Fits \in Seq(Char) /\ n < size
    BY <1>1, TextInLine
  <2>2. /\ ReadsFrom(line, pointer, Fits) /\ pointer \in FieldStarts(Fits, how.delim)
    BY <1>1, <1>3, PointerInLine
  <2>3. pointer \in 0..n
    BY <2>2 DEF ReadsFrom
  <2>4. /\ strcspn(line, pointer, how.delim) = end
        /\ line[end] = NUL <=> end = n
    BY <2>2, CspnIs
  <2>5. pointer \in B /\ pointer >= pointer /\ \A p \in B : p < pointer <=> p < pointer
    BY <2>1, <2>2, <2>3 DEF Begins
  <2>6. end \in Nat /\ end <= n
    BY <2>1, <2>3, FieldIs
  <2>7. /\ line' = [line EXCEPT ![end] = NUL]
        /\ pointer' = IF line[end] = NUL THEN NULL ELSE end + 1
        /\ tokens' = Append(tokens, pointer) /\ phase' = "tokens"
    BY <1>1, <1>3, <2>4 DEF strsep
  <2>8. IF end = Len(Fits)
        THEN pointer' = IF how.call = "strsep" THEN NULL ELSE end
        ELSE pointer' = end + 1
    BY <2>4, <2>7
  <2>9. TokensAre' /\ LineCut' /\ PointerIs'
    <3> DEFINE from == pointer
    <3>1. /\ from \in B /\ from >= pointer /\ tokens' = Append(tokens, from)
          /\ \A p \in B : p < from <=> p < pointer
          /\ end = FieldEnd(Fits, how.delim, from)
      BY <2>3, <2>5, <2>7
    <3> HIDE DEF from, end
    <3> QED
      BY <1>1, <1>3, <2>7, <2>8, <3>1, TokenFound
  <2>10. LineShape'
    <3>1. end \in 0..size - 1
      BY <1>1, <2>1, <2>6, TextInLine
    <3> HIDE DEF end
    <3> QED
      BY <1>1, <2>7, <3>1, EndedInside
  <2> QED
    BY <2>7, <2>9, <2>10 DEF LineInv, Filling, Cutting, Trimmed
<1> QED
  BY <1>2, <1>3

\* strtok_r's begins where the delimiters at the pointer end.
LEMMA StrtokHolds ==
  ASSUME LineInv, Token, how.call = "strtok_r"
  PROVE  LineInv'
<1> DEFINE n == Len(Fits)
           delim == how.delim
           B == Begins(Fits, delim, how.call)
           from == strspn(line, pointer, delim)
           end == FieldEnd(Fits, delim, from)
<1>1. /\ phase = "tokens" /\ size' = size /\ wanted' = wanted /\ how' = how /\ cut' = cut
      /\ LET r == strtok_r(line, pointer, how.delim)
         IN /\ line' = r.s /\ pointer' = r.rest
            /\ tokens' = IF r.ret = NULL THEN tokens ELSE Append(tokens, r.ret)
            /\ phase' = IF r.ret = NULL THEN "done" ELSE "tokens"
  BY DEF Token
<1>2. pointer # NULL
  BY <1>1 DEF LineInv, Cutting, PointerIs
<1>3. /\ n \in Nat /\ Fits \in Seq(Char) /\ n < size
  BY <1>1, TextInLine
<1>4. /\ ReadsFrom(line, pointer, Fits)
      /\ pointer \in FieldStarts(Fits, delim) \/ pointer = n
  BY <1>1, <1>2, PointerInLine
<1>5. pointer \in Nat /\ pointer <= n
  BY <1>3, <1>4 DEF ReadsFrom
<1>6. /\ from \in Nat /\ pointer <= from /\ from <= n
      /\ \A i \in pointer + 1..from : Fits[i] \in delim
      /\ from = n \/ Fits[from + 1] \notin delim
      /\ line[from] = NUL <=> from = n
  BY <1>4, SpnIs
<1>7. /\ \A p : p \in FieldStarts(Fits, delim) <=> p = 0 \/ (p \in 1..n /\ Fits[p] \in delim)
      /\ \A p : p \in B <=> /\ p \in 0..n
                            /\ p = 0 \/ (p \in 1..n /\ Fits[p] \in delim)
                            /\ p < FieldEnd(Fits, delim, p)
  <2>1. how.call # "strsep"
    OBVIOUS
  <2> QED
    BY <1>3, <2>1, BeginsAre
<1> HIDE DEF from
<1>8. ASSUME NEW p \in 0..n, p < FieldEnd(Fits, delim, p)
      PROVE  p < n /\ Fits[p + 1] \notin delim
  <2>1. /\ FieldEnd(Fits, delim, p) \in Nat /\ FieldEnd(Fits, delim, p) <= n
        /\ \A i \in p + 1..FieldEnd(Fits, delim, p) : Fits[i] \notin delim
    BY <1>3, FieldIs
  <2>2. p + 1 \in p + 1..FieldEnd(Fits, delim, p)
    BY <1>8, <2>1
  <2> QED
    BY <1>3, <1>8, <2>1, <2>2
<1>9. ASSUME NEW p \in B
      PROVE  p \in 0..n /\ p < n /\ Fits[p + 1] \notin delim
  <2>1. p \in 0..n /\ p < FieldEnd(Fits, delim, p)
    BY <1>7
  <2> QED
    BY <1>8, <2>1
<1> HIDE DEF B, end
<1>10. \A p \in B : p < from <=> p < pointer
  <2> TAKE p \in B
  <2>1. p \in 0..n /\ Fits[p + 1] \notin delim
    BY <1>9
  <2>2. p + 1 \notin pointer + 1..from
    BY <1>6, <2>1
  <2> QED
    BY <1>3, <1>5, <1>6, <2>1, <2>2
<1>11. CASE from = n
  <2>1. /\ line' = line /\ pointer' = n /\ tokens' = tokens /\ phase' = "done"
    BY <1>1, <1>2, <1>6, <1>11 DEF strtok_r, from
  <2>2. \A p \in B : p < n /\ p < pointer
    BY <1>9, <1>10, <1>11
  <2> QED
    BY <1>1, <1>2, <2>1, <2>2, NoTokenLeft DEF B
<1>12. CASE from # n
  <2>1. from \in 0..n /\ from < n /\ from # NULL
    BY <1>3, <1>6, <1>12 DEF NULL
  <2>2. /\ end \in Nat /\ from <= end /\ end <= n
        /\ end = n \/ Fits[end + 1] \in delim
    BY <1>3, <2>1, FieldIs DEF end
  <2>3. from < end
    BY <1>6, <1>12, <2>1, <2>2
  <2>4. ReadsFrom(line, from, Fits)
    BY <1>4, <1>5, <1>6, <2>1 DEF ReadsFrom
  <2>5. /\ strcspn(line, from, delim) = end
        /\ line[end] = NUL <=> end = n
    BY <2>4, CspnIs DEF end
  <2>6. from \in B
    <3>1. from = 0 \/ (from \in 1..n /\ Fits[from] \in delim)
      <4>1. CASE from = pointer
        BY <1>4, <1>7, <1>12, <4>1
      <4>2. CASE from # pointer
        BY <1>5, <1>6, <2>1, <4>2
      <4> QED
        BY <4>1, <4>2
    <3> QED
      BY <1>7, <2>1, <2>3, <3>1 DEF end
  <2>7. /\ line' = [line EXCEPT ![end] = NUL]
        /\ pointer' = IF line[end] = NUL THEN end ELSE end + 1
        /\ tokens' = Append(tokens, from) /\ phase' = "tokens"
    <3>1. line[from] # NUL
      BY <1>6, <1>12
    <3> QED
      BY <1>1, <1>2, <2>1, <2>5, <3>1 DEF strtok_r, from
  <2>8. IF end = Len(Fits)
        THEN pointer' = IF how.call = "strsep" THEN NULL ELSE end
        ELSE pointer' = end + 1
    BY <2>5, <2>7
  <2>9. TokensAre' /\ LineCut' /\ PointerIs'
    BY <1>1, <1>2, <1>5, <1>6, <1>10, <2>6, <2>7, <2>8, TokenFound DEF B, end
  <2>10. LineShape'
    <3>1. end \in 0..size - 1
      BY <1>1, <1>3, <2>2, TextInLine
    <3> QED
      BY <1>1, <2>7, <3>1, EndedInside
  <2> QED
    BY <2>7, <2>9, <2>10 DEF LineInv, Filling, Cutting, Trimmed
<1> QED
  BY <1>11, <1>12

LEMMA TokenHolds == LineInv /\ Token => LineInv'
<1> SUFFICES ASSUME LineInv, Token PROVE LineInv'
  OBVIOUS
<1>1. how.call \in {"strsep", "strtok_r"}
  BY DEF LineInv, Cutting, TokensAre, Token
<1> QED
  BY <1>1, StrsepHolds, StrtokHolds

\* A part of the text is read where it lies, once its end is a terminator.
LEMMA PartReads ==
  ASSUME NEW text \in Seq(Char), NEW m, IsBuffer(m), Len(text) < CapOf(m),
         NEW p \in Nat, NEW e \in Nat, p <= e, e <= Len(text),
         \A i \in p..e - 1 : m[i] = text[i + 1], m[e] = NUL
  PROVE  Reads(m, p, SubSeq(text, p + 1, e))
<1> DEFINE part == SubSeq(text, p + 1, e)
           a == p + 1
<1>1. Len(text) \in Nat /\ a \in Nat /\ \A i \in a..e : text[i] \in Char
  OBVIOUS
<1>2. part = SubSeq(text, a, e)
  OBVIOUS
<1> HIDE DEF part
<1>3. /\ part \in Seq(Char) /\ Len(part) = (IF a <= e THEN e - a + 1 ELSE 0)
      /\ \A k \in 1..e - a + 1 : part[k] = text[a + k - 1]
  <2> HIDE DEF a
  <2> QED
    BY <1>1, <1>2, SubSeqProperties
<1>4. Len(part) = e - p
  BY <1>3
<1>5. ASSUME NEW k \in 0..Len(part) - 1 PROVE m[p + k] = part[k + 1]
  <2>1. k + 1 \in 1..e - a + 1 /\ a + (k + 1) - 1 = p + k + 1 /\ p + k \in p..e - 1
    BY <1>4
  <2> QED
    BY <1>3, <2>1
<1>6. p + Len(part) = e
  BY <1>4
<1>7. Reads(m, p, part)
  BY <1>1, <1>3, <1>5, <1>6, CapIs DEF Reads
<1> QED
  BY <1>7 DEF part

LEMMA TrimHolds == LineInv /\ Trim => LineInv'
<1> SUFFICES ASSUME LineInv, Trim PROVE LineInv'
  OBVIOUS
<1> DEFINE n == Len(Fits)
           T == {i \in DOMAIN line : ~ascii_space(line[i])}
           start == skip_spaces(line)
           U == {start} \cup {i \in start + 1..strlen(line) : ~ascii_space(line[i - 1])}
           end == Max(U)
<1>1. /\ phase = "fill" /\ phase' = "trimmed" /\ size' = size /\ wanted' = wanted
      /\ line' = [line EXCEPT ![end] = NUL] /\ pointer' = start
  BY DEF Trim, strim
<1>2. /\ Fits \in Seq(Char) /\ n \in Nat /\ n < size /\ size \in Nat /\ size < Room /\ Room \in Nat
      /\ IsBuffer(line) /\ CapOf(line) = Room
  BY <1>1, TextInLine
<1>3. Reads(line, 0, Fits) /\ Fits' = Fits
  BY <1>1 DEF LineInv, Filling, Fits
<1>4. /\ \A k \in 0..n - 1 : line[k] = Fits[k + 1]
      /\ line[n] = NUL /\ DOMAIN line = 0..Room - 1
  BY <1>2, <1>3, ReadsHere
<1>5. strlen(line) = n
  BY <1>3, StrlenIs
<1>6. ~ascii_space(NUL)
  BY DEF ascii_space, NUL, Space
<1>7. /\ start \in Nat /\ start <= n
      /\ \A k \in 1..start : ascii_space(Fits[k])
      /\ start = n \/ ~ascii_space(Fits[start + 1])
  <2> DEFINE S == {i \in T : i >= 0}
  <2>1. \A i : i \in S <=> i \in 0..Room - 1 /\ ~ascii_space(line[i])
    BY <1>2, <1>4
  <2>2. start = Min(S)
    BY DEF skip_spaces, First
  <2> HIDE DEF S, start, T, n
  <2>3. n \in S /\ S \subseteq Nat
    BY <1>2, <1>4, <1>6, <2>1
  <2>4. start \in S /\ \A k \in S : start <= k
    BY <2>2, <2>3, MinOf
  <2>5. start \in Nat /\ start <= n
    BY <2>3, <2>4
  <2>6. ASSUME NEW k \in 1..start PROVE ascii_space(Fits[k])
    <3>1. k - 1 \in 0..n - 1 /\ k - 1 \in 0..Room - 1 /\ k - 1 \notin S /\ k - 1 + 1 = k
      BY <1>2, <2>4, <2>5
    <3> QED
      BY <1>4, <2>1, <3>1
  <2>7. ASSUME start # n PROVE ~ascii_space(Fits[start + 1])
    <3>1. start \in 0..n - 1
      BY <1>2, <2>5, <2>7
    <3> QED
      BY <1>4, <2>1, <2>4, <3>1
  <2> QED
    BY <2>5, <2>6, <2>7
<1> HIDE DEF start, T
<1>8. /\ end \in Nat /\ start <= end /\ end <= n
      /\ \A k \in end + 1..n : ascii_space(Fits[k])
      /\ start < end => ~ascii_space(Fits[end])
  <2>1. \A i : i \in U <=> i = start \/ (i \in start + 1..n /\ ~ascii_space(Fits[i]))
    <3>1. ASSUME NEW i \in start + 1..n PROVE line[i - 1] = Fits[i]
      <4>1. i - 1 \in 0..n - 1 /\ i - 1 + 1 = i
        BY <1>2, <1>7
      <4> QED
        BY <1>4, <4>1
    <3> QED
      BY <1>5, <3>1
  <2> HIDE DEF U, n
  <2>2. U \subseteq 0..n /\ U # {} /\ start \in U
    BY <1>2, <1>7, <2>1
  <2>3. end \in U /\ \A k \in U : k <= end
    BY <1>2, <2>2, MaxOf
  <2> HIDE DEF end
  <2>4. end \in Nat /\ start <= end /\ end <= n
    BY <1>2, <2>2, <2>3
  <2>5. ASSUME NEW k \in end + 1..n PROVE ascii_space(Fits[k])
    <3>1. k \in start + 1..n /\ k \notin U
      BY <1>2, <1>7, <2>3, <2>4
    <3> QED
      BY <2>1, <3>1
  <2>6. start < end => ~ascii_space(Fits[end])
    BY <1>7, <2>1, <2>3, <2>4
  <2> QED
    BY <2>4, <2>5, <2>6
<1> HIDE DEF end, U
<1>9. end \in 0..size - 1
  BY <1>2, <1>8
<1>10. LineShape' /\ \A i \in 0..Room - 1 : line'[i] = IF i = end THEN NUL ELSE line[i]
  <2>1. phase # "garbage" /\ UNCHANGED <<size, wanted>> /\ phase' \in {"trimmed", "tokens", "done"}
    BY <1>1
  <2> QED
    BY <1>1, <1>9, <2>1, EndedInside
<1>11. Reads(line', start, SubSeq(Fits, start + 1, end))
  <2>1. IsBuffer(line') /\ CapOf(line') = Room
    BY <1>10 DEF LineShape
  <2>2. \A i \in start..end - 1 : line'[i] = Fits[i + 1]
    <3> TAKE i \in start..end - 1
    <3>1. i \in 0..n - 1 /\ i \in 0..Room - 1 /\ i # end
      <4> HIDE DEF n
      <4> QED
        BY <1>2, <1>7, <1>8
    <3> QED
      BY <1>4, <1>10, <3>1
  <2>3. line'[end] = NUL
    BY <1>2, <1>8, <1>10
  <2> DEFINE b == line'
  <2> HIDE DEF b
  <2>4. IsBuffer(b) /\ Len(Fits) < CapOf(b) /\ b[end] = NUL /\ \A i \in start..end - 1 : b[i] = Fits[i + 1]
    BY <1>2, <2>1, <2>2, <2>3 DEF b
  <2>5. Reads(b, start, SubSeq(Fits, start + 1, end))
    BY <1>2, <1>7, <1>8, <2>4, PartReads
  <2> QED
    BY <2>5 DEF b
<1>12. Trimmed'
  <2>1. /\ end \in 0..n /\ start \in 0..end
        /\ start < end => ~ascii_space(Fits[start + 1]) /\ ~ascii_space(Fits[end])
    BY <1>2, <1>7, <1>8
  <2> HIDE DEF n
  <2> QED
    BY <1>1, <1>3, <1>7, <1>8, <1>11, <2>1 DEF Trimmed, n
<1> QED
  BY <1>1, <1>10, <1>12 DEF LineInv, Filling, Cutting

\* The line keeps its invariant.
LEMMA LineSafe == LineSpec => []LineInv
<1>1. LineInit => LineInv
  BY LineInitHolds
<1>2. LineInv /\ [LineNext]_lineVars => LineInv'
  BY LineStays, CopyHolds, ConcatenateHolds, TrimHolds, TokeniseHolds, TokenHolds DEF LineNext
<1> QED
  BY <1>1, <1>2, PTL DEF LineSpec

LEMMA TokenReads ==
  ASSUME LineInv, phase \in {"tokens", "done"}, NEW k \in DOMAIN tokens
  PROVE  /\ tokens[k] \in Begins(Fits, how.delim, how.call)
         /\ Reads(line, tokens[k], FieldAt(Fits, how.delim, tokens[k]))
<1> DEFINE n == Len(Fits)
           p == tokens[k]
           e == FieldEnd(Fits, how.delim, p)
<1>1. /\ Fits \in Seq(Char) /\ n \in Nat /\ n < CapOf(line) /\ IsBuffer(line)
      /\ \A i \in 0..n - 1 : CString(Fits)[i] = Fits[i + 1]
  BY TextInLine
<1>2. /\ LineCut /\ p \in Begins(Fits, how.delim, how.call)
      /\ \A j \in DOMAIN tokens : tokens[j] \in Begins(Fits, how.delim, how.call)
  BY DEF LineInv, Cutting, TokensAre
<1>3. \A j \in DOMAIN tokens : tokens[j] \in 0..n
  BY <1>1, <1>2, BeginsAre
<1>4. /\ p \in Nat /\ e \in Nat /\ p <= e /\ e <= n
      /\ \A i \in p + 1..e : Fits[i] \notin how.delim
  BY <1>1, <1>3, FieldIs
<1>5. \A i \in 0..n : line[i] = IF Ended(i) THEN NUL ELSE CString(Fits)[i]
  BY <1>2 DEF LineCut
<1>6. Ended(e)
  BY DEF Ended
<1> HIDE DEF e, p
<1>7. ASSUME NEW i \in p..e - 1 PROVE line[i] = Fits[i + 1]
  <2>1. i \in 0..n - 1 /\ i + 1 \in p + 1..e
    BY <1>1, <1>4
  <2>2. ~Ended(i)
    <3> SUFFICES ASSUME NEW j \in DOMAIN tokens, i = FieldEnd(Fits, how.delim, tokens[j])
                 PROVE  FALSE
      BY DEF Ended
    <3>1. i = n \/ Fits[i + 1] \in how.delim
      BY <1>1, <1>3, FieldIs
    <3> QED
      BY <1>1, <1>4, <2>1, <3>1
  <2> QED
    BY <1>1, <1>5, <2>1, <2>2
<1>8. line[e] = NUL
  BY <1>1, <1>4, <1>5, <1>6
<1>9. Reads(line, p, SubSeq(Fits, p + 1, e))
  BY <1>1, <1>4, <1>7, <1>8, PartReads
<1>10. FieldAt(Fits, how.delim, p) = SubSeq(Fits, p + 1, e)
  BY DEF FieldAt, FieldEnd, e
<1> QED
  BY <1>2, <1>9, <1>10 DEF p

LEMMA TokensWhole ==
  ASSUME LineInv, phase \in {"tokens", "done"}
  PROVE  LET Field(p) == FieldAt(Fits, how.delim, p)
             starts == {p \in FieldStarts(Fits, how.delim) :
                          how.call = "strsep" \/ Field(p) # <<>>}
         IN /\ \A k \in DOMAIN tokens :
                 /\ tokens[k] \in starts /\ TextAt(tokens[k]) = Field(tokens[k])
                 /\ \A p \in starts : p < tokens[k] <=> \E j \in 1..k - 1 : p = tokens[j]
            /\ phase = "done" => starts \subseteq Range(tokens)
<1> DEFINE Field(p) == FieldAt(Fits, how.delim, p)
           starts == {p \in FieldStarts(Fits, how.delim) :
                        how.call = "strsep" \/ Field(p) # <<>>}
<1>1. starts = Begins(Fits, how.delim, how.call)
  BY DEF Begins
<1> HIDE DEF starts
<1>2. /\ \A k \in DOMAIN tokens : 
           \A p \in starts : p < tokens[k] <=> \E j \in 1..k - 1 : p = tokens[j]
      /\ phase = "done" => starts \subseteq Range(tokens)
  BY <1>1 DEF LineInv, Cutting, TokensAre
<1>3. ASSUME NEW k \in DOMAIN tokens
      PROVE  tokens[k] \in starts /\ TextAt(tokens[k]) = Field(tokens[k])
  <2>1. tokens[k] \in starts /\ Reads(line, tokens[k], Field(tokens[k]))
    BY <1>1, TokenReads
  <2> QED
    BY <2>1, TextAtIs, Zenon
<1> QED
  BY <1>2, <1>3 DEF starts

LEMMA TrimmedWhole ==
  ASSUME LineInv, phase = "trimmed"
  PROVE  LET kept == TextAt(pointer)
             end == pointer + Len(kept)
         IN  /\ kept = SubSeq(Fits, pointer + 1, end)
             /\ Blanks(SubSeq(Fits, 1, pointer)) /\ Blanks(SubSeq(Fits, end + 1, Len(Fits)))
             /\ kept # <<>> => ~ascii_space(kept[1]) /\ ~ascii_space(kept[Len(kept)])
<1> DEFINE n == Len(Fits)
<1>1. Fits \in Seq(Char) /\ n \in Nat /\ \A k \in 1..n : Fits[k] \in Char
  BY TextInLine
<1>2. PICK end \in 0..n :
        /\ pointer \in 0..end
        /\ Reads(line, pointer, SubSeq(Fits, pointer + 1, end))
        /\ \A k \in 1..pointer : ascii_space(Fits[k])
        /\ \A k \in end + 1..n : ascii_space(Fits[k])
        /\ pointer < end => ~ascii_space(Fits[pointer + 1]) /\ ~ascii_space(Fits[end])
  BY DEF LineInv, Trimmed
<1> DEFINE a == pointer + 1
           kept == SubSeq(Fits, a, end)
<1>3. TextAt(pointer) = kept
  BY <1>2, TextAtIs
<1>4. /\ Len(kept) = (IF a <= end THEN end - a + 1 ELSE 0)
      /\ kept \in Seq(Char)
      /\ \A k \in 1..end - a + 1 : kept[k] = Fits[a + k - 1]
  <2>1. a \in Nat /\ end \in Nat /\ \A k \in a..end : Fits[k] \in Char
    BY <1>1, <1>2
  <2> HIDE DEF a
  <2> QED
    BY <1>1, <2>1, SubSeqProperties
<1>5. pointer \in Nat /\ end \in Nat /\ pointer <= end /\ end <= n
  BY <1>1, <1>2
<1> HIDE DEF kept
<1>6. Len(kept) = end - pointer /\ pointer + Len(kept) = end
  <2>1. (IF a <= end THEN end - a + 1 ELSE 0) = end - pointer
    BY <1>5
  <2>2. pointer + (end - pointer) = end
    BY <1>5
  <2> QED
    BY <1>4, <2>1, <2>2
<1>7. Blanks(SubSeq(Fits, 1, pointer))
  <2> DEFINE s == SubSeq(Fits, 1, pointer)
  <2>1. 1 \in Nat /\ \A k \in 1..pointer : Fits[k] \in Char
    BY <1>1, <1>5
  <2>2. /\ s \in Seq(Char) /\ Len(s) = (IF 1 <= pointer THEN pointer - 1 + 1 ELSE 0)
        /\ \A k \in 1..pointer - 1 + 1 : s[k] = Fits[1 + k - 1]
    BY <1>1, <1>5, <2>1, SubSeqProperties
  <2> HIDE DEF s
  <2>3. DOMAIN s = 1..pointer /\ \A k \in 1..pointer : s[k] = Fits[k]
    BY <1>5, <2>2
  <2>4. Blanks(s)
    BY <1>2, <2>3 DEF Blanks
  <2> QED
    BY <2>4 DEF s
<1>8. Blanks(SubSeq(Fits, end + 1, n))
  <2> DEFINE b == end + 1
             s == SubSeq(Fits, b, n)
  <2>1. b \in Nat /\ b = end + 1 /\ \A k \in b..n : Fits[k] \in Char
    BY <1>1, <1>5
  <2>2. s = SubSeq(Fits, b, n)
    OBVIOUS
  <2> HIDE DEF s, b
  <2>3. /\ s \in Seq(Char) /\ Len(s) = (IF b <= n THEN n - b + 1 ELSE 0)
        /\ \A k \in 1..n - b + 1 : s[k] = Fits[b + k - 1]
    BY <1>1, <2>1, <2>2, SubSeqProperties
  <2>4. ASSUME NEW k \in DOMAIN s PROVE ascii_space(s[k])
    <3>1. k \in 1..Len(s) /\ Len(s) = IF b <= n THEN n - b + 1 ELSE 0
      BY <2>3
    <3> DEFINE len == Len(s)
    <3>2. k \in 1..len /\ len = IF b <= n THEN n - b + 1 ELSE 0
      BY <3>1
    <3> HIDE DEF n, len
    <3>3. k \in 1..n - b + 1 /\ b + k - 1 \in end + 1..n
      BY <1>1, <1>5, <2>1, <3>2
    <3> QED
      BY <1>2, <2>3, <3>3 DEF n
  <2>5. Blanks(s)
    BY <2>4 DEF Blanks
  <2> QED
    BY <2>5 DEF s, b
<1>9. ASSUME kept # <<>> PROVE ~ascii_space(kept[1]) /\ ~ascii_space(kept[Len(kept)])
  <2>1. Len(kept) # 0
    BY <1>4, <1>9
  <2>2. pointer < end
    BY <1>5, <1>6, <2>1
  <2>3. /\ 1 \in 1..end - a + 1 /\ Len(kept) \in 1..end - a + 1
        /\ a + 1 - 1 = pointer + 1 /\ a + Len(kept) - 1 = end
    BY <1>5, <1>6, <2>2
  <2>4. kept[1] = Fits[pointer + 1] /\ kept[Len(kept)] = Fits[end]
    BY <1>4, <2>3
  <2> QED
    BY <1>2, <2>2, <2>4
<1> QED
  BY <1>3, <1>6, <1>7, <1>8, <1>9 DEF kept

\* Whatever is copied after whatever with strlcpy, strscpy, stpcpy and strlcat:
\* the line is what fits, its caller knows of every cut, and nobody else's
\* bytes are touched.
THEOREM LineCopiesFit == LineSpec => []CopiesFit
<1>1. LineInv => CopiesFit
  <2> SUFFICES ASSUME LineInv PROVE CopiesFit
    OBVIOUS
  <2>1. /\ \A i \in size..Room - 1 : line[i] = Garbage
        /\ phase = "garbage" => \A i \in 0..Room - 1 : line[i] = Garbage
        /\ IsBuffer(line) /\ CapOf(line) = Room
    BY DEF LineInv, LineShape
  <2>2. DOMAIN line = 0..Room - 1
    BY <2>1, CapIs
  <2>3. ASSUME phase = "fill" PROVE TextAt(0) = Fits /\ cut = (Len(wanted) >= size)
    <3>1. Reads(line, 0, Fits) /\ (cut <=> Len(wanted) >= size) /\ cut \in BOOLEAN
      BY <2>3 DEF LineInv, Filling
    <3>2. TextAt(0) = Fits
      BY <3>1, TextAtIs
    <3>3. cut = (Len(wanted) >= size)
      <4>1. Len(wanted) \in Int /\ size \in Int
        BY <2>3, TextInLine
      <4> DEFINE late == Len(wanted) >= size
      <4>2. late \in BOOLEAN
        OBVIOUS
      <4>3. cut <=> late
        BY <3>1
      <4> HIDE DEF late
      <4>4. cut = late
        BY <3>1, <4>2, <4>3, Zenon
      <4> QED
        BY <4>4 DEF late
    <3> QED
      BY <3>2, <3>3
  <2> QED
    BY <2>1, <2>2, <2>3 DEF CopiesFit
<1> QED
  BY <1>1, LineSafe, PTL

\* strsep and strtok_r hand out every field once, in their order and whole
\* whatever is called after; strim's answer is the text but for the spaces at
\* its ends.
THEOREM LinePartsWhole == LineSpec => []PartsWhole
<1>1. LineInv => PartsWhole
  BY TokensWhole, TrimmedWhole DEF PartsWhole
<1> QED
  BY <1>1, LineSafe, PTL

-------------------------------------------------------------------------------
(* Searches *)

OccursAt(i, text, word) ==
  i \in Nat /\ i + Len(word) <= Len(text) /\ \A k \in 1..Len(word) : text[i + k] = word[k]

LEMMA OccursIs ==
  ASSUME NEW S, NEW text \in Seq(S), NEW word \in Seq(S), NEW i
  PROVE  i \in Occurs(text, word) <=> OccursAt(i, text, word)
<1> DEFINE n == Len(text)
           l == Len(word)
           At1(j) == SubSeq(text, j + 1, j + l)
<1>1. n \in Nat /\ l \in Nat
  OBVIOUS
<1>2. i \in 0..n - l <=> i \in Nat /\ i + l <= n
  <2> HIDE DEF n, l
  <2> QED
    BY <1>1
<1>3. ASSUME i \in Nat, i + l <= n
      PROVE  At1(i) = word <=> \A k \in 1..l : text[i + k] = word[k]
  <2> DEFINE a == i + 1
             b == i + l
             s == SubSeq(text, a, b)
  <2>1. a \in Nat /\ b \in Nat /\ \A k \in a..b : text[k] \in S
    BY <1>1, <1>3
  <2>2. s = SubSeq(text, a, b)
    OBVIOUS
  <2> HIDE DEF a, b, s
  <2>3. /\ s \in Seq(S) /\ Len(s) = (IF a <= b THEN b - a + 1 ELSE 0)
        /\ \A k \in 1..b - a + 1 : s[k] = text[a + k - 1]
    BY <2>1, <2>2, SubSeqProperties
  <2> HIDE DEF l, n
  <2>4. Len(s) = l /\ \A k \in 1..l : k \in 1..b - a + 1 /\ a + k - 1 = i + k
    BY <1>1, <1>3, <2>3 DEF a, b
  <2>5. \A k \in 1..l : s[k] = text[i + k]
    BY <2>3, <2>4
  <2>6. s = word <=> \A k \in 1..l : s[k] = word[k]
    <3>1. (\A k \in 1..Len(s) : s[k] = word[k]) => s = word
      BY <2>3, <2>4, SameSequence DEF l
    <3> QED
      BY <2>4, <3>1
  <2> QED
    BY <2>5, <2>6 DEF s, a, b
<1>4. i \in Occurs(text, word) <=> i \in 0..n - l /\ At1(i) = word
  BY DEF Occurs
<1>5. OccursAt(i, text, word) <=> i \in Nat /\ i + l <= n /\ \A k \in 1..l : text[i + k] = word[k]
  BY DEF OccursAt
<1> HIDE DEF n, l, At1
<1> QED
  BY <1>2, <1>3, <1>4, <1>5, Zenon

\* The inner loop comes to the end of the word exactly where the word is.
LEMMA StartsIs ==
  ASSUME NEW m, NEW text, Reads(m, 0, text), NEW w, NEW word, Reads(w, 0, word),
         NEW i \in 0..Len(text)
  PROVE  Starts(m, i, w) <=> i \in Occurs(text, word)
<1> DEFINE n == Len(text)
           l == Len(word)
           T == {j \in DOMAIN w : w[j] = NUL \/ m[i + j] # w[j]}
           f == First(0, T)
<1>1. /\ text \in Seq(Char) /\ n \in Nat /\ m[n] = NUL
      /\ \A k \in 0..n - 1 : m[k] = text[k + 1] /\ m[k] # NUL
  BY ReadsHere
<1>2. /\ word \in Seq(Char) /\ l \in Nat /\ w[l] = NUL /\ CapOf(w) \in Nat /\ l < CapOf(w)
      /\ DOMAIN w = 0..CapOf(w) - 1
      /\ \A k \in 0..l - 1 : w[k] = word[k + 1] /\ w[k] # NUL
  BY ReadsHere
<1>3. Starts(m, i, w) <=> w[f] = NUL
  BY DEF Starts
<1>4. \A j : j \in T <=> j \in 0..CapOf(w) - 1 /\ (w[j] = NUL \/ m[i + j] # w[j])
  BY <1>2
<1>5. f \in T /\ \A k \in T : f <= k
  <2> DEFINE U == {j \in T : j >= 0}
  <2>1. f = Min(U)
    BY DEF First
  <2>2. U = T /\ T \subseteq Nat /\ l \in T
    BY <1>2
  <2> HIDE DEF U, T, f
  <2> QED
    BY <2>1, <2>2, MinOf
<1> HIDE DEF T, f, n, l
<1>6. f \in 0..l
  BY <1>2, <1>4, <1>5
<1>7. w[f] = NUL <=> f = l
  BY <1>2, <1>6
<1>8. f = l <=> \A j \in 0..l - 1 : m[i + j] = w[j]
  <2>1. ASSUME f = l, NEW j \in 0..l - 1 PROVE m[i + j] = w[j]
    <3>1. j \in 0..CapOf(w) - 1 /\ ~(f <= j)
      BY <1>2, <2>1
    <3>2. j \notin T
      BY <1>5, <3>1
    <3> QED
      BY <1>4, <3>1, <3>2
  <2>2. ASSUME \A j \in 0..l - 1 : m[i + j] = w[j] PROVE f = l
    BY <1>2, <1>4, <1>5, <1>6, <2>2
  <2> QED
    BY <2>1, <2>2
<1>9. i \in Occurs(text, word) <=> i + l <= n /\ \A k \in 1..l : text[i + k] = word[k]
  <2>1. i \in Occurs(text, word)
          <=> i \in Nat /\ i + l <= n /\ \A k \in 1..l : text[i + k] = word[k]
    <3>1. text \in Seq(Char) /\ word \in Seq(Char)
      BY <1>1, <1>2
    <3> HIDE DEF Char
    <3> QED
      BY <3>1, OccursIs DEF OccursAt, n, l
  <2>2. i \in Nat
    BY <1>1
  <2> QED
    BY <2>1, <2>2, Zenon
<1>10. ASSUME \A j \in 0..l - 1 : m[i + j] = w[j]
       PROVE  i + l <= n /\ \A k \in 1..l : text[i + k] = word[k]
  <2>1. i + l <= n
    <3> SUFFICES ASSUME i + l > n PROVE FALSE
      BY <1>1, <1>2 DEF n
    <3> DEFINE j == n - i
    <3>1. j \in 0..l - 1 /\ i + j = n
      BY <1>1, <1>2 DEF n
    <3> HIDE DEF j
    <3>2. m[i + j] = w[j] /\ w[j] # NUL
      BY <1>2, <1>10, <3>1
    <3> QED
      BY <1>1, <3>1, <3>2
  <2>2. ASSUME NEW k \in 1..l PROVE text[i + k] = word[k]
    <3> DEFINE j == k - 1
               p == i + j
    <3>0. n \in Nat /\ l \in Nat /\ i \in Nat
      BY <1>1, <1>2
    <3>1. j \in 0..l - 1 /\ p \in 0..n - 1 /\ p + 1 = i + k /\ j + 1 = k
      BY <2>1, <3>0
    <3>2. p = i + j
      OBVIOUS
    <3> HIDE DEF j, p
    <3>3. m[p] = text[p + 1]
      BY <1>1, <3>1
    <3>4. w[j] = word[j + 1]
      BY <1>2, <3>1
    <3>5. m[p] = w[j]
      BY <1>10, <3>1, <3>2
    <3> QED
      BY <3>1, <3>3, <3>4, <3>5
  <2> QED
    BY <2>1, <2>2
<1>11. ASSUME i + l <= n, \A k \in 1..l : text[i + k] = word[k], NEW j \in 0..l - 1
       PROVE  m[i + j] = w[j]
  <2>1. j + 1 \in 1..l /\ i + j \in 0..n - 1 /\ i + j + 1 = i + (j + 1)
    BY <1>1, <1>2, <1>11
  <2> QED
    BY <1>1, <1>2, <1>11, <2>1
<1> QED
  BY <1>3, <1>7, <1>8, <1>9, <1>10, <1>11, Zenon

\* Where a search stands: at the first of the places, or nowhere.
LEMMA FirstOfIs ==
  ASSUME NEW hits, hits \subseteq Nat
  PROVE  /\ hits = {} => FirstOf(hits) = NULL
         /\ hits # {} => FirstOf(hits) \in hits /\ \A k \in hits : FirstOf(hits) <= k
         /\ \A i \in hits : (\A k \in hits : i <= k) => FirstOf(hits) = i
<1>1. hits # {} => Min(hits) \in hits /\ \A k \in hits : Min(hits) <= k
  BY MinOf
<1>2. FirstOf(hits) = IF hits = {} THEN NULL ELSE Min(hits)
  BY DEF FirstOf
<1> DEFINE first == FirstOf(hits)
<1>3. first = IF hits = {} THEN NULL ELSE Min(hits)
  BY <1>2
<1> HIDE DEF first
<1>4. hits = {} => first = NULL
  BY <1>3
<1>5. hits # {} => first \in hits /\ \A k \in hits : first <= k
  BY <1>1, <1>3
<1>6. ASSUME NEW i \in hits, \A k \in hits : i <= k PROVE first = i
  <2>1. first \in hits /\ first <= i /\ i <= first
    BY <1>5, <1>6
  <2>2. first \in Nat /\ i \in Nat
    BY <2>1
  <2> QED
    BY <2>1, <2>2
<1> QED
  BY <1>4, <1>5, <1>6 DEF first

\* The outer loop leaves out the end of the text, where only nothing is found.
LEMMA SearchIs ==
  ASSUME NEW t \in Seq(Char), NEW w, NEW word, Reads(w, 0, word),
         NEW hits, hits = {i \in 0..Len(t) - 1 : i \in Occurs(t, word)}
  PROVE  Search(w, hits) = FirstOf(Occurs(t, word))
<1> DEFINE O == Occurs(t, word)
           n == Len(t)
           l == Len(word)
<1>1. /\ word \in Seq(Char) /\ l \in Nat /\ w[l] = NUL
      /\ \A k \in 0..l - 1 : w[k] # NUL
  BY ReadsHere
<1>2. n \in Nat
  OBVIOUS
<1>3. \A i : i \in O <=> /\ i \in Nat /\ i + l <= n
                         /\ \A k \in 1..l : t[i + k] = word[k]
  <2> HIDE DEF Char
  <2> QED
    BY <1>1, OccursIs DEF OccursAt
<1>4. Search(w, hits) = IF w[0] = NUL THEN 0 ELSE FirstOf(hits)
  BY DEF Search, FirstOf
<1> HIDE DEF O, l
<1>5. CASE l = 0
  <2>1. w[0] = NUL
    BY <1>1, <1>5
  <2>2. O \subseteq Nat /\ 0 \in O /\ \A k \in O : 0 <= k
    BY <1>2, <1>3, <1>5
  <2>3. FirstOf(O) = 0
    BY <2>2, FirstOfIs
  <2> QED
    BY <1>4, <2>1, <2>3 DEF O
<1>6. CASE l # 0
  <2>1. w[0] # NUL
    BY <1>1, <1>6
  <2>2. hits = O
    <3>1. \A i \in O : i \in 0..n - 1
      BY <1>1, <1>2, <1>3, <1>6
    <3> QED
      BY <3>1 DEF O
  <2> QED
    BY <1>4, <2>1, <2>2 DEF O
<1> QED
  BY <1>5, <1>6

LEMMA StrstrIs ==
  ASSUME NEW m, NEW text, Reads(m, 0, text), NEW w, NEW word, Reads(w, 0, word)
  PROVE  strstr(m, w) = FirstOf(Occurs(text, word))
<1> DEFINE n == Len(text)
           hits == {i \in 0..strlen(m) - 1 : Starts(m, i, w)}
<1>1. strlen(m) = n
  BY StrlenIs
<1>2. text \in Seq(Char) /\ n \in Nat
  BY ReadsHere
<1>3. \A i \in 0..n - 1 : Starts(m, i, w) <=> i \in Occurs(text, word)
  <2>1. \A i \in 0..n - 1 : i \in 0..Len(text)
    BY <1>2
  <2> QED
    BY <2>1, StartsIs
<1>4. hits = {i \in 0..n - 1 : i \in Occurs(text, word)}
  BY <1>1, <1>3
<1> HIDE DEF hits
<1>5. Search(w, hits) = FirstOf(Occurs(text, word))
  BY <1>2, <1>4, SearchIs
<1> QED
  BY <1>5 DEF strstr, hits

\* Inside the bound the word ends before it.
LEMMA StartsWithinIs ==
  ASSUME NEW m, NEW text, Reads(m, 0, text), NEW w, NEW word, Reads(w, 0, word),
         NEW len \in Nat, NEW i \in Nat, i < Len(Cut(text, len))
  PROVE  StartsWithin(m, i, w, len) <=> i \in Occurs(Cut(text, len), word)
<1> DEFINE n == Len(text)
           l == Len(word)
           t == Cut(text, len)
           T == {j \in DOMAIN w : w[j] = NUL \/ i + j >= len \/ m[i + j] # w[j]}
           f == First(0, T)
<1>1. /\ text \in Seq(Char) /\ n \in Nat /\ m[n] = NUL
      /\ \A k \in 0..n - 1 : m[k] = text[k + 1] /\ m[k] # NUL
  BY ReadsHere
<1>2. /\ word \in Seq(Char) /\ l \in Nat /\ w[l] = NUL /\ CapOf(w) \in Nat /\ l < CapOf(w)
      /\ DOMAIN w = 0..CapOf(w) - 1
      /\ \A k \in 0..l - 1 : w[k] = word[k + 1] /\ w[k] # NUL
  BY ReadsHere
<1>3. /\ t \in Seq(Char) /\ Len(t) = (IF len <= n THEN len ELSE n)
      /\ \A k \in 1..Len(t) : t[k] = text[k]
  BY <1>1, CutIs, Zenon
<1>0. i < Len(t)
  OBVIOUS
<1>4. StartsWithin(m, i, w, len) <=> w[f] = NUL
  BY DEF StartsWithin
<1>5. \A j : j \in T <=> j \in 0..CapOf(w) - 1 /\ (w[j] = NUL \/ i + j >= len \/ m[i + j] # w[j])
  BY <1>2
<1>6. f \in T /\ \A k \in T : f <= k
  <2> DEFINE U == {j \in T : j >= 0}
  <2>1. f = Min(U)
    BY DEF First
  <2>2. U = T /\ T \subseteq Nat /\ l \in T
    BY <1>2
  <2> HIDE DEF U, T, f
  <2> QED
    BY <2>1, <2>2, MinOf
<1> HIDE DEF T, f, n, l, t
<1>7. f \in 0..l
  BY <1>2, <1>5, <1>6
<1>8. w[f] = NUL <=> f = l
  BY <1>2, <1>7
<1>9. f = l <=> \A j \in 0..l - 1 : i + j < len /\ m[i + j] = w[j]
  <2>1. ASSUME f = l, NEW j \in 0..l - 1 PROVE i + j < len /\ m[i + j] = w[j]
    <3>1. j \in 0..CapOf(w) - 1 /\ ~(f <= j)
      BY <1>2, <2>1
    <3>2. j \notin T
      BY <1>6, <3>1
    <3> QED
      BY <1>5, <3>1, <3>2
  <2>2. ASSUME \A j \in 0..l - 1 : i + j < len /\ m[i + j] = w[j] PROVE f = l
    <3> SUFFICES ASSUME f # l PROVE FALSE
      OBVIOUS
    <3>1. f \in 0..l - 1
      BY <1>2, <1>7
    <3>2. i + f < len /\ m[i + f] = w[f] /\ w[f] # NUL
      BY <1>2, <2>2, <3>1
    <3> QED
      BY <1>5, <1>6, <3>1, <3>2
  <2> QED
    BY <2>1, <2>2
<1>10. i \in Occurs(t, word) <=> i + l <= Len(t) /\ \A k \in 1..l : t[i + k] = word[k]
  <2>1. i \in Occurs(t, word)
          <=> i \in Nat /\ i + l <= Len(t) /\ \A k \in 1..l : t[i + k] = word[k]
    <3>1. i \in Occurs(t, word) <=> OccursAt(i, t, word)
      BY <1>2, <1>3, OccursIs, Zenon
    <3> QED
      BY <3>1, Zenon DEF OccursAt, l
  <2> QED
    BY <2>1, Zenon
<1>11. ASSUME \A j \in 0..l - 1 : i + j < len /\ m[i + j] = w[j]
       PROVE  i + l <= Len(t) /\ \A k \in 1..l : t[i + k] = word[k]
  <2>1. i + l <= n
    <3> SUFFICES ASSUME i + l > n PROVE FALSE
      BY <1>1, <1>2
    <3> DEFINE j == n - i
    <3>1. j \in 0..l - 1 /\ i + j = n
      BY <1>0, <1>1, <1>2, <1>3
    <3> HIDE DEF j
    <3>2. m[i + j] = w[j] /\ w[j] # NUL
      BY <1>2, <1>11, <3>1
    <3> QED
      BY <1>1, <3>1, <3>2
  <2>2. i + l <= len
    <3>1. CASE l = 0
      BY <1>0, <1>1, <1>3, <3>1
    <3>2. CASE l # 0
      <4> DEFINE j == l - 1
      <4>1. j \in 0..l - 1 /\ j + 1 = l /\ j \in Nat
        BY <1>2, <3>2
      <4> HIDE DEF j
      <4>2. i + j < len
        BY <1>11, <4>1, Zenon
      <4> QED
        BY <4>1, <4>2
    <3> QED
      BY <3>1, <3>2
  <2>3. i + l <= Len(t)
    BY <1>3, <2>1, <2>2
  <2>4. ASSUME NEW k \in 1..l PROVE t[i + k] = word[k]
    <3> DEFINE j == k - 1
    <3>1. j \in 0..l - 1 /\ i + j \in 0..n - 1 /\ i + j + 1 = i + k /\ j + 1 = k
      BY <1>1, <1>2, <2>1
    <3>2. i + k \in 1..Len(t)
      BY <1>1, <1>2, <1>3, <2>3
    <3> HIDE DEF j
    <3>3. m[i + j] = w[j] /\ m[i + j] = text[i + j + 1] /\ w[j] = word[j + 1]
      BY <1>1, <1>2, <1>11, <3>1
    <3> QED
      BY <1>3, <3>1, <3>2, <3>3
  <2> QED
    BY <2>3, <2>4
<1>12. ASSUME i + l <= Len(t), \A k \in 1..l : t[i + k] = word[k], NEW j \in 0..l - 1
       PROVE  i + j < len /\ m[i + j] = w[j]
  <2>1. j + 1 \in 1..l /\ i + j \in 0..n - 1 /\ i + j + 1 = i + (j + 1) /\ i + j < len
        /\ i + (j + 1) \in 1..Len(t)
    <3> DEFINE last == Len(t)
    <3>0. n \in Nat /\ l \in Nat
      BY <1>1, <1>2
    <3>1. last = (IF len <= n THEN len ELSE n) /\ i + l <= last
      BY <1>3, <1>12
    <3> HIDE DEF last
    <3>2. j + 1 \in 1..l /\ i + j \in 0..n - 1 /\ i + j + 1 = i + (j + 1) /\ i + j < len
          /\ i + (j + 1) \in 1..last
      BY <3>0, <3>1
    <3> QED
      BY <3>2 DEF last
  <2>2. t[i + (j + 1)] = word[j + 1] /\ t[i + (j + 1)] = text[i + (j + 1)]
    BY <1>3, <1>12, <2>1
  <2> QED
    BY <1>1, <1>2, <2>1, <2>2
<1> QED
  BY <1>4, <1>8, <1>9, <1>10, <1>11, <1>12, Zenon DEF t

LEMMA StrnstrIs ==
  ASSUME NEW m, NEW text, Reads(m, 0, text), NEW w, NEW word, Reads(w, 0, word),
         NEW len \in Nat
  PROVE  strnstr(m, w, len) = FirstOf(Occurs(Cut(text, len), word))
<1> DEFINE t == Cut(text, len)
           hits == {i \in 0..strnlen(m, len) - 1 : StartsWithin(m, i, w, len)}
<1>1. text \in Seq(Char) /\ Len(text) \in Nat
  BY ReadsHere
<1>2. t \in Seq(Char) /\ Len(t) = (IF len <= Len(text) THEN len ELSE Len(text))
  BY <1>1, CutIs, Zenon
<1>3. strnlen(m, len) = Len(t)
  BY <1>2, StrnlenIs, Zenon
<1>4. \A i \in 0..Len(t) - 1 : StartsWithin(m, i, w, len) <=> i \in Occurs(t, word)
  <2>1. \A i \in 0..Len(t) - 1 : i \in Nat /\ i < Len(Cut(text, len))
    BY <1>1, <1>2
  <2> QED
    BY <2>1, StartsWithinIs
<1>5. hits = {i \in 0..Len(t) - 1 : i \in Occurs(t, word)}
  BY <1>3, <1>4
<1> HIDE DEF hits, t
<1>6. Search(w, hits) = FirstOf(Occurs(t, word))
  BY <1>2, <1>5, SearchIs
<1> QED
  BY <1>6 DEF strnstr, hits, t

\* memcmp answers 0 for the word's characters where the word is.
LEMMA MemcmpIs ==
  ASSUME NEW m, NEW text, Reads(m, 0, text), NEW w, NEW word, Reads(w, 0, word),
         NEW i \in Nat, i + Len(word) <= Len(text)
  PROVE  memcmp(At(m, i), w, Len(word)) = 0 <=> i \in Occurs(text, word)
<1> DEFINE n == Len(text)
           l == Len(word)
           b == At(m, i)
           D == {k \in 0..l - 1 : b[k] # w[k]}
<1>1. /\ text \in Seq(Char) /\ n \in Nat /\ CapOf(m) \in Nat /\ n < CapOf(m)
      /\ \A k \in 0..n - 1 : m[k] = text[k + 1] /\ text[k + 1] \in Char
  BY ReadsHere
<1>2. /\ word \in Seq(Char) /\ l \in Nat
      /\ \A k \in 0..l - 1 : w[k] = word[k + 1] /\ word[k + 1] \in Char
  BY ReadsHere
<1>3. \A k \in 0..l - 1 : b[k] = m[i + k]
  <2> DEFINE top == CapOf(m) - i - 1
  <2>1. b = [k \in 0..top |-> m[i + k]]
    BY DEF At, CapOf
  <2>2. \A k \in 0..l - 1 : k \in 0..top
    BY <1>1, <1>2
  <2> HIDE DEF top, b
  <2> QED
    BY <2>1, <2>2
<1>4. memcmp(b, w, l) = IF D = {} THEN 0 ELSE b[Min(D)] - w[Min(D)]
  BY DEF memcmp
<1> HIDE DEF b, l, n
<1>5. \A k \in 0..l - 1 : /\ i + k \in 0..n - 1 /\ i + k + 1 = i + (k + 1)
                          /\ b[k] = text[i + (k + 1)] /\ b[k] \in Nat /\ w[k] \in Nat
  <2> TAKE k \in 0..l - 1
  <2>1. i + k \in 0..n - 1 /\ i + k + 1 = i + (k + 1)
    BY <1>1, <1>2 DEF n, l
  <2> QED
    BY <1>1, <1>2, <1>3, <2>1 DEF Char
<1>6. D # {} => Min(D) \in D
  <2>1. D \subseteq Nat
    BY <1>2
  <2> HIDE DEF D
  <2> QED
    BY <2>1, MinOf
<1>7. memcmp(b, w, l) = 0 <=> D = {}
  <2>1. ASSUME D # {} PROVE memcmp(b, w, l) # 0
    <3> DEFINE k == Min(D)
    <3>1. k \in 0..l - 1 /\ b[k] # w[k]
      BY <1>6, <2>1
    <3> HIDE DEF k
    <3>2. b[k] \in Nat /\ w[k] \in Nat
      BY <1>5, <3>1
    <3>3. b[k] - w[k] # 0
      BY <3>1, <3>2
    <3> QED
      BY <1>4, <2>1, <3>3 DEF k
  <2> QED
    BY <1>4, <2>1
<1>8. i \in Occurs(text, word) <=> \A k \in 1..l : text[i + k] = word[k]
  <2>1. i \in Occurs(text, word)
          <=> i \in Nat /\ i + l <= n /\ \A k \in 1..l : text[i + k] = word[k]
    <3>1. text \in Seq(Char) /\ word \in Seq(Char)
      BY <1>1, <1>2
    <3> HIDE DEF Char
    <3> QED
      BY <3>1, OccursIs DEF OccursAt, l, n
  <2> QED
    BY <2>1, Zenon DEF l, n
<1>9. D = {} <=> \A k \in 1..l : text[i + k] = word[k]
  <2>1. ASSUME D = {}, NEW k \in 1..l PROVE text[i + k] = word[k]
    <3> DEFINE j == k - 1
    <3>1. j \in 0..l - 1 /\ j + 1 = k
      BY <1>2
    <3> HIDE DEF j
    <3> QED
      BY <1>2, <1>5, <2>1, <3>1
  <2>2. ASSUME \A k \in 1..l : text[i + k] = word[k], NEW j \in 0..l - 1 PROVE b[j] = w[j]
    <3>1. j + 1 \in 1..l
      BY <1>2
    <3>2. text[i + (j + 1)] = word[j + 1]
      BY <2>2, <3>1
    <3> QED
      BY <1>2, <1>5, <3>2
  <2> QED
    BY <2>1, <2>2
<1> QED
  BY <1>7, <1>8, <1>9, Zenon DEF b, l

LEMMA MemmemIs ==
  ASSUME NEW m, NEW text, Reads(m, 0, text), NEW w, NEW word, Reads(w, 0, word)
  PROVE  memmem(m, Len(text), w, Len(word)) = FirstOf(Occurs(text, word))
<1> DEFINE n == Len(text)
           l == Len(word)
           hits == {i \in 0..n - l : memcmp(At(m, i), w, l) = 0}
           O == Occurs(text, word)
<1>1. /\ text \in Seq(Char) /\ n \in Nat /\ word \in Seq(Char) /\ l \in Nat
  BY ReadsHere
<1>2. \A i : i \in O <=> i \in Nat /\ i + l <= n /\ \A k \in 1..l : text[i + k] = word[k]
  <2> HIDE DEF Char
  <2> QED
    BY <1>1, OccursIs DEF OccursAt
<1>3. hits = O
  <2>1. \A i : i \in 0..n - l <=> i \in Nat /\ i + l <= n
    <3> HIDE DEF n, l
    <3> QED
      BY <1>1
  <2>2. \A i : i \in Nat /\ i + l <= n => (memcmp(At(m, i), w, l) = 0 <=> i \in O)
    BY MemcmpIs
  <2>3. \A i : i \in O => i \in Nat /\ i + l <= n
    BY <1>2
  <2> HIDE DEF O, n, l
  <2> QED
    BY <2>1, <2>2, <2>3
<1>4. memmem(m, n, w, l) = IF l = 0 THEN 0 ELSE FirstOf(hits)
  BY DEF memmem, FirstOf
<1> HIDE DEF O, hits
<1>5. CASE l = 0
  <2>1. O \subseteq Nat /\ 0 \in O /\ \A k \in O : 0 <= k
    BY <1>1, <1>2, <1>5
  <2>2. FirstOf(O) = 0
    BY <2>1, FirstOfIs
  <2> QED
    BY <1>4, <1>5, <2>2 DEF O
<1>6. CASE l # 0
  BY <1>3, <1>4, <1>6 DEF O
<1> QED
  BY <1>5, <1>6

LEMMA StartsEndsAre ==
  ASSUME NEW m, NEW text, Reads(m, 0, text), NEW w, NEW word, Reads(w, 0, word)
  PROVE  /\ strstarts(m, w) <=> 0 \in Occurs(text, word)
         /\ strends(m, w) <=> Len(text) - Len(word) \in Occurs(text, word)
<1> DEFINE n == Len(text)
           l == Len(word)
           O == Occurs(text, word)
           i == n - l
<1>1. /\ text \in Seq(Char) /\ n \in Nat /\ word \in Seq(Char) /\ l \in Nat
  BY ReadsHere
<1>2. strlen(m) = n /\ strlen(w) = l
  BY StrlenIs
<1>3. strstarts(m, w) <=> 0 \in O
  <2>1. 0 \in 0..Len(text)
    BY <1>1
  <2> QED
    BY <2>1, StartsIs, Zenon DEF strstarts
<1>4. strends(m, w) <=> l <= n /\ memcmp(At(m, i), w, l) = 0
  BY <1>2 DEF strends
<1>5. i \in O => i \in Nat /\ i + l <= n
  <2> HIDE DEF Char
  <2> QED
    BY <1>1, OccursIs DEF OccursAt
<1>6. i \in Nat /\ i + l <= n <=> l <= n
  <2> HIDE DEF n, l
  <2> QED
    BY <1>1
<1>7. ASSUME i \in Nat, i + l <= n PROVE memcmp(At(m, i), w, l) = 0 <=> i \in O
  BY <1>7, MemcmpIs
<1> HIDE DEF O, n, l, i
<1>8. strends(m, w) <=> i \in O
  BY <1>4, <1>5, <1>6, <1>7
<1> QED
  BY <1>3, <1>8 DEF O, n, l, i

\* Letters of both cases as one.
LEMMA LowerIs ==
  ASSUME NEW text \in Seq(Char)
  PROVE  /\ Lower(text) \in Seq(Char) /\ Len(Lower(text)) = Len(text)
         /\ \A k \in 1..Len(text) : Lower(text)[k] = ascii_lower(text[k])
<1> DEFINE t == Lower(text)
           n == Len(text)
<1>1. n \in Nat /\ DOMAIN text = 1..n /\ \A k \in 1..n : text[k] \in Char
  OBVIOUS
<1>2. \A ch \in Char : ascii_lower(ch) \in Char
  BY DEF ascii_lower, Char, NUL
<1>3. t = [k \in 1..n |-> ascii_lower(text[k])]
  BY <1>1 DEF Lower
<1> HIDE DEF t, n
<1>4. t \in [1..n -> Char] /\ \A k \in 1..n : t[k] = ascii_lower(text[k])
  BY <1>1, <1>2, <1>3
<1>5. t \in Seq(Char) /\ Len(t) = n
  BY <1>1, <1>4, MadeSequence
<1> QED
  BY <1>4, <1>5 DEF t, n

LEMMA LoweredReads ==
  ASSUME NEW m, NEW text, Reads(m, 0, text)
  PROVE  Reads(Lowered(m), 0, Lower(text))
<1> DEFINE b == Lowered(m)
           t == Lower(text)
           n == Len(text)
           c == CapOf(m)
<1>1. /\ IsBuffer(m) /\ c \in Nat /\ DOMAIN m = 0..c - 1
      /\ text \in Seq(Char) /\ n \in Nat /\ n < c
      /\ \A k \in 0..n - 1 : m[k] = text[k + 1]
      /\ m[n] = NUL
  BY ReadsHere
<1>2. t \in Seq(Char) /\ Len(t) = n /\ \A k \in 1..n : t[k] = ascii_lower(text[k])
  BY <1>1, LowerIs
<1>3. b = [i \in 0..c - 1 |-> ascii_lower(m[i])]
  BY <1>1 DEF Lowered
<1> HIDE DEF b, t, c, n
<1>4. b = [i \in 0..c - 1 |-> b[i]] /\ \A i \in 0..c - 1 : b[i] = ascii_lower(m[i])
  BY <1>3
<1>5. IsBuffer(b) /\ CapOf(b) = c
  BY <1>1, <1>4, BufferIs
<1>6. ascii_lower(NUL) = NUL
  BY DEF ascii_lower, NUL
<1>7. b[n] = NUL
  BY <1>1, <1>4, <1>6
<1>8. ASSUME NEW k \in 0..n - 1 PROVE b[k] = t[k + 1]
  <2>1. k + 1 \in 1..n /\ k \in 0..c - 1
    BY <1>1
  <2> QED
    BY <1>1, <1>2, <1>4, <2>1
<1>9. Reads(b, 0, t)
  BY <1>1, <1>2, <1>5, <1>7, <1>8, ReadsMade
<1> QED
  BY <1>9 DEF b, t

\* x goes before y, and k is where that shows.
PrecedesAt(x, y, k) ==
  /\ k \in Nat /\ k <= Len(x) /\ k < Len(y)
  /\ \A j \in 1..k : x[j] = y[j]
  /\ k < Len(x) => x[k + 1] < y[k + 1]

LEMMA PrecedesIs ==
  ASSUME NEW x \in Seq(Char), NEW y \in Seq(Char)
  PROVE  Precedes(x, y) <=> \E k : PrecedesAt(x, y, k)
<1> DEFINE a == Len(x)
           b == Len(y)
           At1(k) == /\ SubSeq(x, 1, k) = SubSeq(y, 1, k)
                     /\ k < b /\ (k < a => x[k + 1] < y[k + 1])
<1>1. /\ a \in Nat /\ b \in Nat /\ Min({a, b}) = (IF a <= b THEN a ELSE b)
      /\ \A k \in 1..a : x[k] \in Char
      /\ \A k \in 1..b : y[k] \in Char
  <2>1. a \in Nat /\ b \in Nat /\ a \in Int /\ b \in Int
    OBVIOUS
  <2>2. Min({a, b}) = (IF a <= b THEN a ELSE b)
    BY <2>1, MinOfTwo, Zenon
  <2> QED
    BY <2>1, <2>2
<1>2. Precedes(x, y) <=> \E k \in 0..Min({a, b}) : At1(k)
  BY DEF Precedes
<1>3. ASSUME NEW k \in Nat, k <= a, k <= b
      PROVE  SubSeq(x, 1, k) = SubSeq(y, 1, k) <=> \A j \in 1..k : x[j] = y[j]
  <2> DEFINE s == SubSeq(x, 1, k)
             t == SubSeq(y, 1, k)
  <2>1. 1 \in Nat /\ (\A i \in 1..k : x[i] \in Char) /\ \A i \in 1..k : y[i] \in Char
    BY <1>1, <1>3
  <2>2. /\ s \in Seq(Char) /\ Len(s) = (IF 1 <= k THEN k - 1 + 1 ELSE 0)
        /\ \A j \in 1..k - 1 + 1 : s[j] = x[1 + j - 1]
    BY <2>1, SubSeqProperties
  <2>3. /\ t \in Seq(Char) /\ Len(t) = (IF 1 <= k THEN k - 1 + 1 ELSE 0)
        /\ \A j \in 1..k - 1 + 1 : t[j] = y[1 + j - 1]
    BY <2>1, SubSeqProperties
  <2> HIDE DEF s, t
  <2>4. /\ Len(s) = k /\ Len(t) = k
        /\ \A j \in 1..k : s[j] = x[j] /\ t[j] = y[j]
    BY <2>2, <2>3
  <2>5. (\A j \in 1..Len(s) : s[j] = t[j]) => s = t
    BY <2>2, <2>3, <2>4, SameSequence
  <2>6. s = t <=> \A j \in 1..k : x[j] = y[j]
    BY <2>4, <2>5
  <2> QED
    BY <2>6 DEF s, t
<1> HIDE DEF a, b
<1>4. \A k : k \in 0..Min({a, b}) <=> k \in Nat /\ k <= a /\ k <= b
  BY <1>1
<1>5. ASSUME NEW k, k \in 0..Min({a, b}), At1(k) PROVE PrecedesAt(x, y, k)
  <2>1. k \in Nat /\ k <= a /\ k <= b
    BY <1>4, <1>5
  <2>2. \A j \in 1..k : x[j] = y[j]
    BY <1>3, <1>5, <2>1
  <2> QED
    BY <1>5, <2>1, <2>2 DEF PrecedesAt, a, b
<1>6. ASSUME NEW k, PrecedesAt(x, y, k) PROVE k \in 0..Min({a, b}) /\ At1(k)
  <2>1. /\ k \in Nat /\ k <= a /\ k < b /\ (\A j \in 1..k : x[j] = y[j])
        /\ k < a => x[k + 1] < y[k + 1]
    BY <1>6 DEF PrecedesAt, a, b
  <2>2. k <= b
    BY <1>1, <2>1
  <2> QED
    BY <1>3, <1>4, <2>1, <2>2
<1> HIDE DEF At1
<1> QED
  BY <1>2, <1>5, <1>6

\* Where two strings are compared, and what that says of them.
Decides(l, x, r, y, f) ==
  /\ f <= Len(x) /\ f <= Len(y) /\ \A j \in 1..f : x[j] = y[j]
  /\ Differ(l, r) \subseteq Nat /\ f \in Differ(l, r)
  /\ \A j \in Differ(l, r) : f <= j
  /\ l[f] \in Nat /\ r[f] \in Nat
  /\ l[f] = r[f] => x = y
  /\ f < Len(x) /\ f < Len(y) => (l[f] = r[f] <=> x[f + 1] = y[f + 1])
  /\ x = y => l[f] = r[f]
  /\ \A k : PrecedesAt(x, y, k) <=> k = f /\ l[f] < r[f]

LEMMA CompareIs ==
  ASSUME NEW l, NEW x, Reads(l, 0, x), NEW r, NEW y, Reads(r, 0, y)
  PROVE  \E f \in Nat : Decides(l, x, r, y, f)
<1> DEFINE a == Len(x)
           b == Len(y)
           D == Differ(l, r)
           f == Min(D)
<1>1. /\ IsBuffer(l) /\ CapOf(l) \in Nat /\ DOMAIN l = 0..CapOf(l) - 1
      /\ x \in Seq(Char) /\ a \in Nat /\ a < CapOf(l) /\ l[a] = NUL
      /\ \A k \in 0..a - 1 : l[k] = x[k + 1] /\ x[k + 1] \in Char /\ l[k] # NUL
  BY ReadsHere
<1>2. /\ IsBuffer(r) /\ CapOf(r) \in Nat /\ DOMAIN r = 0..CapOf(r) - 1
      /\ y \in Seq(Char) /\ b \in Nat /\ b < CapOf(r) /\ r[b] = NUL
      /\ \A k \in 0..b - 1 : r[k] = y[k + 1] /\ y[k + 1] \in Char /\ r[k] # NUL
  BY ReadsHere
<1> HIDE DEF a, b
<1>3. \A i : i \in D <=> /\ i \in 0..CapOf(l) - 1 /\ i \in 0..CapOf(r) - 1
                         /\ l[i] = NUL \/ l[i] # r[i]
  BY <1>1, <1>2 DEF Differ
<1> HIDE DEF D
<1>4. D \subseteq Nat
  BY <1>1, <1>3
<1>5. a \in D \/ b \in D
  <2>1. ASSUME a < CapOf(r) PROVE a \in D
    <3>1. a \in 0..CapOf(l) - 1 /\ a \in 0..CapOf(r) - 1
      BY <1>1, <1>2, <2>1
    <3> QED
      BY <1>1, <1>3, <3>1
  <2>2. b < a => b \in D
    <3> SUFFICES ASSUME b < a PROVE b \in D
      OBVIOUS
    <3>1. b \in 0..a - 1 /\ b \in 0..CapOf(l) - 1 /\ b \in 0..CapOf(r) - 1
      BY <1>1, <1>2
    <3> QED
      BY <1>1, <1>2, <1>3, <3>1
  <2> QED
    BY <1>1, <1>2, <2>1, <2>2
<1>6. f \in D /\ \A j \in D : f <= j
  <2>1. D # {}
    BY <1>5
  <2> QED
    BY <1>4, <2>1, MinOf
<1> HIDE DEF f
<1>7. f \in Nat /\ f < CapOf(l) /\ f < CapOf(r)
  BY <1>1, <1>2, <1>3, <1>6
<1>8. f <= a /\ f <= b
  <2>1. f <= a
    <3> SUFFICES ASSUME f > a PROVE FALSE
      BY <1>1, <1>7
    <3>1. a \in 0..CapOf(l) - 1 /\ a \in 0..CapOf(r) - 1
      BY <1>1, <1>2, <1>7
    <3>2. a \in D
      BY <1>1, <1>3, <3>1
    <3> QED
      BY <1>1, <1>6, <1>7, <3>2
  <2>2. f <= b
    <3> SUFFICES ASSUME f > b PROVE FALSE
      BY <1>2, <1>7
    <3>1. b \in 0..CapOf(l) - 1 /\ b \in 0..CapOf(r) - 1 /\ b \in 0..a - 1
      BY <1>1, <1>2, <1>7, <2>1
    <3>2. b \in D
      BY <1>1, <1>2, <1>3, <3>1
    <3> QED
      BY <1>2, <1>6, <1>7, <3>2
  <2> QED
    BY <2>1, <2>2
<1>9. ASSUME NEW j \in 0..f - 1
      PROVE  l[j] = r[j] /\ l[j] # NUL /\ x[j + 1] = y[j + 1] /\ j \in 0..a - 1
  <2>1. j \in 0..CapOf(l) - 1 /\ j \in 0..CapOf(r) - 1 /\ j \in 0..a - 1 /\ j \in 0..b - 1
    <3>1. /\ a \in Nat /\ b \in Nat /\ f \in Nat /\ f <= a /\ f <= b
          /\ CapOf(l) \in Nat /\ CapOf(r) \in Nat /\ f < CapOf(l) /\ f < CapOf(r)
      BY <1>1, <1>2, <1>7, <1>8
    <3> QED
      BY <3>1
  <2>2. j \notin D
    BY <1>6, <1>7
  <2> QED
    BY <1>1, <1>2, <1>3, <2>1, <2>2
<1>10. ASSUME NEW j \in 1..f PROVE x[j] = y[j]
  <2>1. j - 1 \in 0..f - 1 /\ j - 1 + 1 = j
    BY <1>7
  <2> QED
    BY <1>9, <2>1
<1>11. /\ l[f] = IF f < a THEN x[f + 1] ELSE 0
       /\ r[f] = IF f < b THEN y[f + 1] ELSE 0
       /\ f < a => x[f + 1] \in Nat /\ x[f + 1] > 0
       /\ f < b => y[f + 1] \in Nat /\ y[f + 1] > 0
  <2>1. f < a => f \in 0..a - 1
    BY <1>1, <1>7
  <2>2. f < b => f \in 0..b - 1
    BY <1>2, <1>7
  <2>3. f = a \/ f < a
    BY <1>1, <1>7, <1>8
  <2>4. f = b \/ f < b
    BY <1>2, <1>7, <1>8
  <2> QED
    BY <1>1, <1>2, <1>7, <2>1, <2>2, <2>3, <2>4 DEF Char, NUL
<1>12. l[f] \in Nat /\ r[f] \in Nat
  BY <1>11
<1>13. ASSUME l[f] = r[f] PROVE x = y
  <2>1. l[f] = NUL
    BY <1>3, <1>6, <1>13
  <2>2. f = a /\ f = b
    BY <1>1, <1>2, <1>7, <1>8, <1>11, <1>13, <2>1 DEF NUL
  <2> QED
    BY <1>1, <1>2, <1>10, <2>2, SameSequence DEF a, b
<1>14. ASSUME x = y PROVE l[f] = r[f]
  <2>1. a = b
    BY <1>14 DEF a, b
  <2> QED
    BY <1>11, <1>14, <2>1
<1>15. ASSUME NEW k, PrecedesAt(x, y, k) PROVE k = f /\ l[f] < r[f]
  <2>1. /\ k \in Nat /\ k <= a /\ k < b /\ (\A j \in 1..k : x[j] = y[j])
        /\ k < a => x[k + 1] < y[k + 1]
    BY <1>15 DEF PrecedesAt, a, b
  <2>2. f <= k
    <3>1. k \in 0..CapOf(l) - 1 /\ k \in 0..CapOf(r) - 1 /\ k \in 0..b - 1
      BY <1>1, <1>2, <2>1
    <3>2. CASE k = a
      BY <1>1, <1>3, <1>6, <3>1, <3>2
    <3>3. CASE k # a
      <4>1. k \in 0..a - 1 /\ x[k + 1] < y[k + 1]
        BY <1>1, <2>1, <3>3
      <4>2. l[k] = x[k + 1] /\ r[k] = y[k + 1] /\ x[k + 1] \in Nat /\ y[k + 1] \in Nat
        BY <1>1, <1>2, <3>1, <4>1 DEF Char
      <4>3. l[k] # r[k]
        BY <4>1, <4>2
      <4> QED
        BY <1>3, <1>6, <3>1, <4>3
    <3> QED
      BY <3>2, <3>3
  <2>3. ~(f < k)
    <3> SUFFICES ASSUME f < k PROVE FALSE
      OBVIOUS
    <3>1. f + 1 \in 1..k /\ f < a /\ f < b
      BY <1>1, <1>2, <1>7, <2>1
    <3>2. l[f] = r[f] /\ l[f] # 0
      BY <1>11, <2>1, <3>1
    <3> QED
      BY <1>3, <1>6, <3>2 DEF NUL
  <2>4. k = f
    BY <1>7, <2>1, <2>2, <2>3
  <2>5. l[f] < r[f]
    BY <1>11, <2>1, <2>4
  <2> QED
    BY <2>4, <2>5
<1>16. ASSUME l[f] < r[f] PROVE PrecedesAt(x, y, f)
  <2>1. f < b
    BY <1>2, <1>7, <1>8, <1>11, <1>12, <1>16
  <2>2. f < a => x[f + 1] < y[f + 1]
    BY <1>11, <1>16, <2>1
  <2> QED
    BY <1>7, <1>8, <1>10, <2>1, <2>2 DEF PrecedesAt, a, b
<1>17. f < a /\ f < b => (l[f] = r[f] <=> x[f + 1] = y[f + 1])
  BY <1>11
<1> QED
  BY <1>4, <1>6, <1>7, <1>8, <1>10, <1>12, <1>13, <1>14, <1>15, <1>16, <1>17
     DEF Decides, a, b, D

LEMMA StrcmpIs ==
  ASSUME NEW l, NEW x, Reads(l, 0, x), NEW r, NEW y, Reads(r, 0, y)
  PROVE  /\ strcmp(l, r) < 0 <=> Precedes(x, y)
         /\ strcmp(l, r) = 0 <=> x = y
<1> DEFINE D == Differ(l, r)
<1>0. PICK f \in Nat : Decides(l, x, r, y, f)
  BY CompareIs
<1>1. /\ D \subseteq Nat /\ f \in D /\ \A j \in D : f <= j
      /\ l[f] \in Nat /\ r[f] \in Nat
      /\ l[f] = r[f] => x = y
      /\ x = y => l[f] = r[f]
      /\ \A k : PrecedesAt(x, y, k) <=> k = f /\ l[f] < r[f]
  BY <1>0 DEF Decides
<1>2. x \in Seq(Char) /\ y \in Seq(Char)
  BY ReadsHere
<1>3. First(0, D) = f
  <2> HIDE DEF D
  <2> QED
    BY <1>1, FirstOfAll
<1>4. strcmp(l, r) = l[f] - r[f]
  BY <1>3 DEF strcmp
<1>5. Precedes(x, y) <=> l[f] < r[f]
  <2>1. Precedes(x, y) <=> \E k : PrecedesAt(x, y, k)
    BY <1>2, PrecedesIs, Zenon
  <2> QED
    BY <1>1, <2>1, Zenon
<1>6. l[f] - r[f] < 0 <=> l[f] < r[f]
  BY <1>1
<1>7. l[f] - r[f] = 0 <=> l[f] = r[f]
  BY <1>1
<1> QED
  BY <1>1, <1>4, <1>5, <1>6, <1>7, Zenon

\* The comparison with a bound is that of the texts cut there.
LEMMA StrncmpIs ==
  ASSUME NEW l, NEW x, Reads(l, 0, x), NEW r, NEW y, Reads(r, 0, y), NEW n \in Nat
  PROVE  /\ strncmp(l, r, n) < 0 <=> Precedes(Cut(x, n), Cut(y, n))
         /\ strncmp(l, r, n) = 0 <=> Cut(x, n) = Cut(y, n)
<1> DEFINE D == Differ(l, r)
           B == Bound(l, n)
           i == First(0, B \cup D)
           c == Cut(x, n)
           d == Cut(y, n)
<1>0. PICK f \in Nat : Decides(l, x, r, y, f)
  BY CompareIs
<1>1. /\ f <= Len(x) /\ f <= Len(y) /\ \A j \in 1..f : x[j] = y[j]
      /\ D \subseteq Nat /\ f \in D /\ \A j \in D : f <= j
      /\ l[f] \in Nat /\ r[f] \in Nat
      /\ l[f] = r[f] => x = y
      /\ f < Len(x) /\ f < Len(y) => (l[f] = r[f] <=> x[f + 1] = y[f + 1])
      /\ x = y => l[f] = r[f]
      /\ \A k : PrecedesAt(x, y, k) <=> k = f /\ l[f] < r[f]
  BY <1>0 DEF Decides
<1>2. /\ x \in Seq(Char) /\ y \in Seq(Char) /\ Len(x) \in Nat /\ Len(y) \in Nat
      /\ CapOf(l) \in Nat /\ Len(x) < CapOf(l)
  BY ReadsHere
<1>3. \A j : j \in B <=> j = n /\ n <= CapOf(l)
  BY <1>2 DEF Bound, CapOf
<1>4. i = IF n <= f THEN n ELSE f
  <2> DEFINE m == IF n <= f THEN n ELSE f
             T == B \cup D
  <2>1. T \subseteq Nat
    BY <1>1, <1>3
  <2>2. m \in T /\ \A j \in T : m <= j
    <3>1. n <= f => n \in B
      BY <1>1, <1>2, <1>3
    <3>2. \A j \in B : j = n
      BY <1>3
    <3>3. f \in D /\ D \subseteq Nat /\ \A j \in D : f <= j
      BY <1>1
    <3> HIDE DEF B, D
    <3>4. CASE n <= f
      <4>1. n \in T /\ m = n
        BY <3>1, <3>4
      <4>2. \A j \in D : n <= j
        BY <3>3, <3>4
      <4> QED
        BY <3>2, <4>1, <4>2
    <3>5. CASE ~(n <= f)
      <4>1. f \in T /\ m = f /\ f <= n
        BY <3>3, <3>5
      <4> QED
        BY <3>2, <3>3, <4>1
    <3> QED
      BY <3>4, <3>5
  <2> HIDE DEF T, m
  <2>3. First(0, T) = m
    BY <2>1, <2>2, FirstOfAll
  <2> QED
    BY <2>3 DEF T, m
<1>5. strncmp(l, r, n) = IF i = n THEN 0 ELSE l[i] - r[i]
  BY DEF strncmp
<1>6. /\ c \in Seq(Char) /\ Len(c) = (IF n <= Len(x) THEN n ELSE Len(x))
      /\ \A k \in 1..Len(c) : c[k] = x[k]
  BY <1>2, CutIs, Zenon
<1>7. /\ d \in Seq(Char) /\ Len(d) = (IF n <= Len(y) THEN n ELSE Len(y))
      /\ \A k \in 1..Len(d) : d[k] = y[k]
  BY <1>2, CutIs, Zenon
<1> HIDE DEF i, c, d, B, D
<1>8. Precedes(c, d) <=> \E k : PrecedesAt(c, d, k)
  BY <1>6, <1>7, PrecedesIs, Zenon
<1>9. \A k : PrecedesAt(c, d, k) <=> PrecedesAt(x, y, k) /\ k < n
  <2> TAKE k
  <2>1. ASSUME PrecedesAt(c, d, k) PROVE PrecedesAt(x, y, k) /\ k < n
    <3>1. /\ k \in Nat /\ k <= Len(c) /\ k < Len(d)
          /\ \A j \in 1..k : c[j] = d[j]
          /\ k < Len(c) => c[k + 1] < d[k + 1]
      BY <2>1 DEF PrecedesAt
    <3>2. k < n /\ k <= Len(x) /\ k < Len(y) /\ (k < Len(x) <=> k < Len(c))
      <4> DEFINE u == Len(c)
                 v == Len(d)
                 p == Len(x)
                 q == Len(y)
      <4>1. /\ k \in Nat /\ k <= u /\ k < v /\ n \in Nat /\ p \in Nat /\ q \in Nat
            /\ u = (IF n <= p THEN n ELSE p) /\ v = (IF n <= q THEN n ELSE q)
        BY <1>2, <1>6, <1>7, <3>1
      <4> HIDE DEF u, v, p, q
      <4>2. k < n /\ k <= p /\ k < q /\ (k < p <=> k < u)
        BY <4>1
      <4> QED
        BY <4>2 DEF u, v, p, q
    <3>3. \A j \in 1..k : x[j] = y[j]
      <4> TAKE j \in 1..k
      <4>1. j \in 1..Len(c) /\ j \in 1..Len(d)
        BY <1>2, <1>6, <1>7, <3>1
      <4> QED
        BY <1>6, <1>7, <3>1, <4>1
    <3>4. ASSUME k < Len(x) PROVE x[k + 1] < y[k + 1]
      <4>1. k < Len(c) /\ Len(c) \in Nat /\ Len(d) \in Nat
        BY <1>6, <1>7, <3>2, <3>4
      <4>2. k + 1 \in 1..Len(c) /\ k + 1 \in 1..Len(d)
        BY <3>1, <4>1
      <4> QED
        BY <1>6, <1>7, <3>1, <4>1, <4>2
    <3> QED
      BY <3>1, <3>2, <3>3, <3>4 DEF PrecedesAt
  <2>2. ASSUME PrecedesAt(x, y, k), k < n PROVE PrecedesAt(c, d, k)
    <3>1. /\ k \in Nat /\ k <= Len(x) /\ k < Len(y)
          /\ \A j \in 1..k : x[j] = y[j]
          /\ k < Len(x) => x[k + 1] < y[k + 1]
      BY <2>2 DEF PrecedesAt
    <3>2. k <= Len(c) /\ k < Len(d) /\ (k < Len(x) <=> k < Len(c))
      <4> DEFINE u == Len(c)
                 v == Len(d)
                 p == Len(x)
                 q == Len(y)
      <4>1. /\ k \in Nat /\ k <= p /\ k < q /\ k < n /\ n \in Nat /\ p \in Nat /\ q \in Nat
            /\ u = (IF n <= p THEN n ELSE p) /\ v = (IF n <= q THEN n ELSE q)
        BY <1>2, <1>6, <1>7, <2>2, <3>1
      <4> HIDE DEF u, v, p, q
      <4>2. k <= u /\ k < v /\ (k < p <=> k < u)
        BY <4>1
      <4> QED
        BY <4>2 DEF u, v, p, q
    <3>3. \A j \in 1..k : c[j] = d[j]
      <4> TAKE j \in 1..k
      <4>1. j \in 1..Len(c) /\ j \in 1..Len(d) /\ x[j] = y[j]
        BY <1>2, <1>6, <1>7, <3>1, <3>2
      <4> QED
        BY <1>6, <1>7, <4>1
    <3>4. ASSUME k < Len(c) PROVE c[k + 1] < d[k + 1]
      <4>1. k < Len(x) /\ Len(c) \in Nat /\ Len(d) \in Nat
        BY <1>6, <1>7, <3>2, <3>4
      <4>2. k + 1 \in 1..Len(c) /\ k + 1 \in 1..Len(d) /\ x[k + 1] < y[k + 1]
        BY <3>1, <3>2, <3>4, <4>1
      <4> QED
        BY <1>6, <1>7, <4>2
    <3> QED
      BY <3>1, <3>2, <3>3, <3>4 DEF PrecedesAt
  <2> QED
    BY <2>1, <2>2
<1>10. Precedes(c, d) <=> l[f] < r[f] /\ f < n
  BY <1>1, <1>8, <1>9, Zenon
<1>11. strncmp(l, r, n) < 0 <=> l[f] < r[f] /\ f < n
  <2>1. CASE n <= f
    BY <1>1, <1>4, <1>5, <2>1
  <2>2. CASE f < n
    <3>1. i = f /\ i # n
      BY <1>1, <1>4, <2>2
    <3>2. l[f] - r[f] < 0 <=> l[f] < r[f]
      BY <1>1
    <3> QED
      BY <1>5, <2>2, <3>1, <3>2
  <2> QED
    BY <1>1, <2>1, <2>2
<1>12. strncmp(l, r, n) = 0 <=> n <= f \/ l[f] = r[f]
  <2>1. CASE n <= f
    BY <1>1, <1>4, <1>5, <2>1
  <2>2. CASE f < n
    <3>1. i = f /\ i # n
      BY <1>1, <1>4, <2>2
    <3>2. l[f] - r[f] = 0 <=> l[f] = r[f]
      BY <1>1
    <3> QED
      BY <1>1, <1>5, <2>2, <3>1, <3>2
  <2> QED
    BY <1>1, <2>1, <2>2
<1>13. ASSUME n <= f PROVE c = d
  <2>1. Len(c) = n /\ Len(d) = n
    BY <1>1, <1>2, <1>6, <1>7, <1>13
  <2>2. \A k \in 1..n : c[k] = d[k]
    BY <1>1, <1>6, <1>7, <1>13, <2>1
  <2> QED
    BY <1>6, <1>7, <2>1, <2>2, SameSequence
<1>14. ASSUME l[f] = r[f] PROVE c = d
  BY <1>1, <1>14 DEF c, d
<1>15. ASSUME c = d, f < n PROVE l[f] = r[f]
  <2>1. CASE f < Len(x) \/ f < Len(y)
    <3>1. f < Len(x) /\ f < Len(y)
      <4> DEFINE u == Len(c)
                 p == Len(x)
                 q == Len(y)
      <4>1. /\ n \in Nat /\ p \in Nat /\ q \in Nat /\ f \in Nat /\ f < n
            /\ u = (IF n <= p THEN n ELSE p) /\ u = (IF n <= q THEN n ELSE q)
            /\ f < p \/ f < q
        BY <1>1, <1>2, <1>6, <1>7, <1>15, <2>1
      <4> HIDE DEF u, p, q
      <4>2. f < p /\ f < q
        BY <4>1
      <4> QED
        BY <4>2 DEF p, q
    <3>2. f + 1 \in 1..Len(c) /\ f + 1 \in 1..Len(d)
      BY <1>1, <1>2, <1>6, <1>7, <1>15, <3>1
    <3>3. x[f + 1] = y[f + 1]
      BY <1>6, <1>7, <1>15, <3>2
    <3> QED
      BY <1>1, <3>1, <3>3
  <2>2. CASE ~(f < Len(x) \/ f < Len(y))
    <3>1. f = Len(x) /\ f = Len(y)
      BY <1>1, <1>2, <2>2
    <3>2. x = y
      BY <1>1, <1>2, <3>1, SameSequence
    <3> QED
      BY <1>1, <3>2
  <2> QED
    BY <2>1, <2>2
<1>16. n <= f \/ f < n
  BY <1>1
<1> QED
  BY <1>10, <1>11, <1>12, <1>13, <1>14, <1>15, <1>16, Zenon DEF c, d

\* Where the text has one of these characters.
Has(text, set) == {i \in 0..Len(text) - 1 : text[i + 1] \in set}

\* In the memory m, with its end at n, the places C hold the set and e is the first of
\* them, or the end.
FoundAt(m, set, n, C, e) ==
  /\ C \subseteq 0..n - 1 /\ C \subseteq Nat
  /\ \A i \in 0..n - 1 : i \in C <=> m[i] \in set
  /\ e \in 0..n
  /\ e = n => C = {}
  /\ e # n => e \in C /\ m[e] \in set
  /\ \A i \in C : e <= i
  /\ m[e] = NUL <=> e = n
  /\ FirstOf(C) = IF e = n THEN NULL ELSE e
  /\ Min({n} \cup C) = e

LEMMA HasIs ==
  ASSUME NEW m, NEW text, Reads(m, 0, text), NEW set
  PROVE  FoundAt(m, set, Len(text), Has(text, set), strcspn(m, 0, set))
<1> DEFINE n == Len(text)
           C == Has(text, set)
           e == strcspn(m, 0, set)
<1>1. /\ IsBuffer(m) /\ text \in Seq(Char) /\ n \in Nat /\ n < CapOf(m) /\ m[n] = NUL
      /\ \A k \in 0..n - 1 : m[k] = text[k + 1]
  BY ReadsHere
<1>2. ReadsFrom(m, 0, text)
  BY <1>1 DEF ReadsFrom
<1>3. e = FieldEnd(text, set, 0) /\ (m[e] = NUL <=> e = n)
  BY <1>2, CspnIs
<1>4. EndsField(text, set, 0, e)
  <2>1. 0 \in 0..Len(text)
    BY <1>1
  <2>2. EndsField(text, set, 0, FieldEnd(text, set, 0))
    BY <1>1, <2>1, FieldEndIs
  <2> QED
    BY <1>3, <2>2, Zenon
<1> HIDE DEF e
<1>5. /\ e \in 0..n /\ \A i \in 0 + 1..e : text[i] \notin set
      /\ e = n \/ text[e + 1] \in set
  BY <1>4 DEF EndsField
<1>6. \A i : i \in C <=> i \in 0..n - 1 /\ text[i + 1] \in set
  BY DEF Has
<1> HIDE DEF C, n
<1>7. C \subseteq 0..n - 1 /\ C \subseteq Nat /\ \A i \in 0..n - 1 : i \in C <=> m[i] \in set
  <2>1. C \subseteq 0..n - 1
    BY <1>6
  <2>2. C \subseteq Nat
    BY <1>1, <2>1
  <2>3. ASSUME NEW i \in 0..n - 1 PROVE i \in C <=> m[i] \in set
    <3>1. m[i] = text[i + 1]
      BY <1>1
    <3> QED
      BY <1>6, <3>1
  <2> QED
    BY <2>1, <2>2, <2>3
<1>8. \A i \in C : e <= i
  <2> TAKE i \in C
  <2>1. i \in 0..n - 1 /\ i + 1 \notin 0 + 1..e
    BY <1>1, <1>5, <1>6
  <2> QED
    BY <1>1, <1>5, <2>1
<1>9. e # n => e \in C /\ m[e] \in set
  BY <1>1, <1>5, <1>6
<1>10. e = n => C = {}
  BY <1>1, <1>7, <1>8
<1>11. FirstOf(C) = IF e = n THEN NULL ELSE e
  BY <1>7, <1>8, <1>9, <1>10, FirstOfIs
<1>12. Min({n} \cup C) = e
  <2> DEFINE T == {n} \cup C
  <2>1. T \subseteq Int /\ e \in T /\ \A k \in T : e <= k
    BY <1>1, <1>5, <1>7, <1>8, <1>9
  <2> HIDE DEF T
  <2>2. Min(T) = e
    BY <2>1, MinIs
  <2> QED
    BY <2>2 DEF T
<1> QED
  BY <1>3, <1>5, <1>7, <1>8, <1>9, <1>10, <1>11, <1>12 DEF C, e, n, FoundAt

LEMMA SpansAre ==
  ASSUME NEW m, NEW text, Reads(m, 0, text), NEW set
  PROVE  /\ strpbrk(m, set) = FirstOf(Has(text, set))
         /\ strspn(m, 0, set) = Min((0..Len(text)) \ Has(text, set))
<1> DEFINE n == Len(text)
           C == Has(text, set)
<1>1. strpbrk(m, set) = FirstOf(C)
  <2> DEFINE e == strcspn(m, 0, set)
  <2>1. (m[e] = NUL <=> e = n) /\ FirstOf(C) = IF e = n THEN NULL ELSE e
    <3>1. FoundAt(m, set, n, C, e)
      BY HasIs
    <3> HIDE DEF e, C, n
    <3> QED
      BY <3>1 DEF FoundAt
  <2>2. strpbrk(m, set) = IF m[e] = NUL THEN NULL ELSE e
    BY DEF strpbrk
  <2> HIDE DEF e
  <2> QED
    BY <2>1, <2>2
<1>2. strspn(m, 0, set) = Min((0..n) \ C)
  <2> DEFINE f == strspn(m, 0, set)
             T == (0..n) \ C
  <2>1. /\ IsBuffer(m) /\ text \in Seq(Char) /\ n \in Nat /\ n < CapOf(m) /\ m[n] = NUL
        /\ \A k \in 0..n - 1 : m[k] = text[k + 1]
    BY ReadsHere
  <2>2. ReadsFrom(m, 0, text)
    BY <2>1 DEF ReadsFrom
  <2>3. /\ f \in Nat /\ 0 <= f /\ f <= n
        /\ \A i \in 0 + 1..f : text[i] \in set
        /\ f = n \/ text[f + 1] \notin set
    BY <2>2, SpnIs
  <2>4. \A i : i \in C <=> i \in 0..n - 1 /\ text[i + 1] \in set
    BY DEF Has
  <2> HIDE DEF f, C, n
  <2>5. f \in T
    BY <2>1, <2>3, <2>4
  <2>6. ASSUME NEW k \in T PROVE f <= k
    <3> SUFFICES ASSUME k < f PROVE FALSE
      BY <2>1, <2>3
    <3>1. k + 1 \in 0 + 1..f /\ k \in 0..n - 1
      BY <2>1, <2>3
    <3> QED
      BY <2>3, <2>4, <3>1
  <2>7. T \subseteq Int
    BY <2>1
  <2> HIDE DEF T
  <2>8. Min(T) = f
    BY <2>5, <2>6, <2>7, MinIs
  <2> QED
    BY <2>8 DEF f, T, C
<1> QED
  BY <1>1, <1>2

\* One character is looked for.
LEMMA OneCharIs ==
  ASSUME NEW m, NEW text, Reads(m, 0, text), NEW ch \in Char
  PROVE  /\ strchr(m, ch) = FirstOf(Has(text, {ch}))
         /\ memchr(m, ch, Len(text)) = FirstOf(Has(text, {ch}))
         /\ strchrnul(m, ch) = Min({Len(text)} \cup Has(text, {ch}))
<1> DEFINE n == Len(text)
           C == Has(text, {ch})
           e == strcspn(m, 0, {ch})
<1>1. strchrnul(m, ch) = e
  <2>1. {ch} \cup {NUL} = {ch, NUL}
    OBVIOUS
  <2> QED
    BY <2>1 DEF strchrnul, strcspn
<1>2. /\ \A i \in 0..n - 1 : i \in C <=> m[i] \in {ch}
      /\ C \subseteq 0..n - 1
      /\ e # n => m[e] \in {ch}
      /\ m[e] = NUL <=> e = n
      /\ FirstOf(C) = IF e = n THEN NULL ELSE e
      /\ Min({n} \cup C) = e
  <2>1. FoundAt(m, {ch}, n, C, e)
    BY HasIs
  <2> HIDE DEF e, C, n
  <2> QED
    BY <2>1 DEF FoundAt
<1> HIDE DEF e, C, n
<1>3. ch # NUL
  BY DEF Char
<1>4. m[e] = ch <=> e # n
  BY <1>2, <1>3
<1>5. strchr(m, ch) = FirstOf(C)
  BY <1>1, <1>2, <1>4 DEF strchr
<1>6. memchr(m, ch, n) = FirstOf(C)
  <2>1. {i \in 0..n - 1 : m[i] = ch} = C
    BY <1>2
  <2> QED
    BY <2>1 DEF memchr, FirstOf
<1> QED
  BY <1>1, <1>2, <1>5, <1>6 DEF C, n

LEMMA StrrchrIs ==
  ASSUME NEW m, NEW text, Reads(m, 0, text), NEW ch \in Char
  PROVE  /\ strrchr(m, ch) = Max({NULL} \cup Has(text, {ch}))
         /\ strrchr(m, ch) = IF Has(text, {ch}) = {} THEN NULL ELSE Max(Has(text, {ch}))
<1> DEFINE n == Len(text)
           C == Has(text, {ch})
           last == IF C = {} THEN NULL ELSE Max(C)
<1>1. n \in Nat /\ m[n] = NUL
  BY ReadsHere
<1>2. /\ \A i \in 0..n - 1 : i \in C <=> m[i] \in {ch}
      /\ C \subseteq 0..n - 1
  BY HasIs DEF FoundAt
<1>3. strlen(m) = n
  BY StrlenIs
<1>4. ch # NUL
  BY DEF Char
<1> HIDE DEF C, n
<1>5. ASSUME NEW i PROVE i \in 0..(n + 1) - 1 /\ m[i] = ch <=> i \in C
  <2>1. CASE i \in 0..n - 1
    BY <1>1, <1>2, <2>1
  <2>2. CASE i = n
    BY <1>1, <1>2, <1>4, <2>2
  <2>3. i \in 0..(n + 1) - 1 <=> i \in 0..n - 1 \/ i = n
    BY <1>1
  <2> QED
    BY <1>2, <2>1, <2>2, <2>3
<1>6. strrchr(m, ch) = last
  <2> DEFINE hits == {i \in 0..(strlen(m) + 1) - 1 : m[i] = ch}
  <2>1. hits = C
    BY <1>3, <1>5
  <2>2. strrchr(m, ch) = memrchr(m, ch, strlen(m) + 1)
    BY DEF strrchr
  <2>3. memrchr(m, ch, strlen(m) + 1) = IF C = {} THEN NULL ELSE Max(C)
    BY <2>1, Zenon DEF memrchr
  <2> QED
    BY <2>2, <2>3
<1>7. Max({NULL} \cup C) = last
  <2> DEFINE T == {NULL} \cup C
  <2>1. C # {} => Max(C) \in C /\ \A k \in C : k <= Max(C)
    <3>1. C \subseteq 0..n
      BY <1>1, <1>2
    <3> QED
      BY <1>1, <3>1, MaxOf
  <2>2. T \subseteq Int /\ last \in T /\ \A k \in T : k <= last
    <3>1. NULL \in Int /\ C \subseteq Int /\ \A k \in C : NULL <= k
      BY <1>1, <1>2 DEF NULL
    <3>2. CASE C = {}
      BY <3>1, <3>2
    <3>3. CASE C # {}
      BY <2>1, <3>1, <3>3
    <3> QED
      BY <3>2, <3>3
  <2> HIDE DEF T, last
  <2>3. Max(T) = last
    BY <2>2, MaxIs
  <2> QED
    BY <2>3 DEF T
<1> QED
  BY <1>6, <1>7 DEF C

LEMMA StrnchrIs ==
  ASSUME NEW m, NEW text, Reads(m, 0, text), NEW ch \in Char, NEW n \in Nat
  PROVE  strnchr(m, n, ch) = FirstOf(Has(text, {ch}) \cap 0..n - 1)
<1> DEFINE l == Len(text)
           C == Has(text, {ch})
           P == Places(m, {ch, NUL})
           B == Bound(m, n)
           T == B \cup P
           i == First(0, T)
           I == C \cap 0..n - 1
<1>1. /\ IsBuffer(m) /\ l \in Nat /\ CapOf(m) \in Nat /\ l < CapOf(m) /\ m[l] = NUL
      /\ \A k \in 0..l - 1 : m[k] # NUL
  BY ReadsHere
<1>2. /\ \A k \in 0..l - 1 : k \in C <=> m[k] \in {ch}
      /\ C \subseteq 0..l - 1
  BY HasIs DEF FoundAt
<1>3. \A k : k \in P <=> k \in 0..CapOf(m) - 1 /\ (m[k] = ch \/ m[k] = NUL)
  BY <1>1, PlacesAre
<1>4. \A k : k \in B <=> k = n /\ n <= CapOf(m)
  BY <1>1 DEF Bound, CapOf
<1>5. strnchr(m, n, ch) = IF i < n /\ m[i] = ch THEN i ELSE NULL
  BY DEF strnchr
<1> HIDE DEF P, B, C, l
<1>6. T \subseteq Nat /\ l \in T
  BY <1>1, <1>3, <1>4
<1>7. i \in T /\ \A k \in T : i <= k
  <2> DEFINE U == {k \in T : k >= 0}
  <2>1. U = T /\ i = Min(U)
    BY <1>6 DEF First
  <2> HIDE DEF U, T, i
  <2> QED
    BY <1>6, <2>1, MinOf
<1> HIDE DEF i
<1>8. i \in Nat /\ i <= l
  BY <1>1, <1>6, <1>7
<1>9. ch # NUL
  BY DEF Char
<1>10. \A k \in C : k \in T /\ k \in Nat
  BY <1>1, <1>2, <1>3
<1>11. I \subseteq Nat
  BY <1>10
<1>12. CASE i < n /\ m[i] = ch
  <2>1. i # l
    BY <1>1, <1>9, <1>12
  <2>2. i \in 0..l - 1
    BY <1>1, <1>8, <2>1
  <2>3. i \in C
    BY <1>2, <1>12, <2>2
  <2>4. i \in I /\ \A k \in I : i <= k
    BY <1>7, <1>8, <1>10, <1>12, <2>3
  <2> HIDE DEF I
  <2>5. FirstOf(I) = i
    BY <1>11, <2>4, FirstOfIs
  <2> QED
    BY <1>5, <1>12, <2>5 DEF I, C
<1>13. CASE ~(i < n /\ m[i] = ch)
  <2>1. ASSUME NEW k \in I PROVE FALSE
    <3>1. /\ k \in C /\ k \in Nat /\ k < n /\ i <= k
      BY <1>7, <1>10
    <3>2. i < n /\ k \in 0..l - 1
      BY <1>2, <1>8, <3>1
    <3>3. i \in P
      BY <1>4, <1>7, <3>2
    <3>4. m[i] = NUL
      BY <1>3, <1>13, <3>2, <3>3
    <3>5. i \in 0..l - 1
      BY <1>1, <1>8, <3>1, <3>2
    <3> QED
      BY <1>1, <3>4, <3>5
  <2>2. I = {}
    BY <2>1
  <2> HIDE DEF I
  <2>3. FirstOf(I) = NULL
    BY <2>2 DEF FirstOf
  <2> QED
    BY <1>5, <1>13, <2>3 DEF I, C
<1> QED
  BY <1>12, <1>13

LEMMA KbasenameIs ==
  ASSUME NEW m, NEW text, Reads(m, 0, text)
  PROVE  kbasename(m) = strrchr(m, Slash) + 1
<1> DEFINE n == Len(text)
           C == Has(text, {Slash})
<1>1. strlen(m) = n
  BY StrlenIs
<1>2. /\ \A i \in 0..n - 1 : i \in C <=> m[i] \in {Slash}
      /\ C \subseteq 0..n - 1
  BY HasIs DEF FoundAt
<1>3. Slash \in Char
  BY DEF Slash, Char, NUL
<1>4. strrchr(m, Slash) = IF C = {} THEN NULL ELSE Max(C)
  BY <1>3, StrrchrIs
<1> HIDE DEF C, n
<1>5. {i \in 0..n - 1 : m[i] = Slash} = C
  BY <1>2
<1>6. kbasename(m) = IF C = {} THEN 0 ELSE Max(C) + 1
  BY <1>1, <1>5 DEF kbasename
<1> QED
  BY <1>4, <1>6 DEF NULL

\* Cutting and taking the letters of both cases as one, in either order.
LEMMA LowerCut ==
  ASSUME NEW text \in Seq(Char), NEW n \in Nat
  PROVE  Lower(Cut(text, n)) = Cut(Lower(text), n)
<1> DEFINE c == Cut(text, n)
           l == Lower(text)
           a == Lower(c)
           b == Cut(l, n)
<1>1. /\ c \in Seq(Char) /\ Len(c) = (IF n <= Len(text) THEN n ELSE Len(text))
      /\ \A k \in 1..Len(c) : c[k] = text[k]
  BY CutIs
<1>2. l \in Seq(Char) /\ Len(l) = Len(text) /\ \A k \in 1..Len(text) : l[k] = ascii_lower(text[k])
  BY LowerIs
<1>3. Len(text) \in Nat
  OBVIOUS
<1> HIDE DEF c, l
<1>4. a \in Seq(Char) /\ Len(a) = Len(c) /\ \A k \in 1..Len(c) : a[k] = ascii_lower(c[k])
  BY <1>1, LowerIs
<1>5. /\ b \in Seq(Char) /\ Len(b) = (IF n <= Len(l) THEN n ELSE Len(l))
      /\ \A k \in 1..Len(b) : b[k] = l[k]
  BY <1>2, CutIs
<1> HIDE DEF a, b
<1>6. Len(a) = Len(b)
  BY <1>1, <1>2, <1>4, <1>5
<1>7. ASSUME NEW k \in 1..Len(a) PROVE a[k] = b[k]
  <2>1. k \in 1..Len(c) /\ k \in 1..Len(b) /\ k \in 1..Len(text)
    <3> DEFINE x == Len(c)
               y == Len(text)
    <3>1. k \in 1..x /\ y \in Nat /\ x = IF n <= y THEN n ELSE y
      BY <1>1, <1>3, <1>4
    <3> HIDE DEF x, y
    <3>2. k \in 1..y
      BY <3>1
    <3> QED
      BY <1>6, <3>1, <3>2 DEF x, y
  <2> QED
    BY <1>1, <1>2, <1>4, <1>5, <2>1
<1>8. a = b
  BY <1>4, <1>5, <1>6, <1>7, SameSequence
<1> QED
  BY <1>8 DEF a, b, c, l

\* The comparisons with the letters of both cases as one.
LEMMA CasesCompare ==
  ASSUME NEW l, NEW x, Reads(l, 0, x), NEW r, NEW y, Reads(r, 0, y)
  PROVE  /\ strcasestr_ascii(l, r) = FirstOf(Occurs(Lower(x), Lower(y)))
         /\ strcasecmp_ascii(l, r) = 0 <=> Lower(x) = Lower(y)
         /\ \A n \in Nat : strncasecmp_ascii(l, r, n) = 0 <=> Lower(Cut(x, n)) = Lower(Cut(y, n))
<1>1. Reads(Lowered(l), 0, Lower(x)) /\ Reads(Lowered(r), 0, Lower(y))
  BY LoweredReads
<1>2. x \in Seq(Char) /\ y \in Seq(Char)
  BY ReadsHere
<1>3. strstr(Lowered(l), Lowered(r)) = FirstOf(Occurs(Lower(x), Lower(y)))
  BY <1>1, StrstrIs
<1>4. strcmp(Lowered(l), Lowered(r)) = 0 <=> Lower(x) = Lower(y)
  BY <1>1, StrcmpIs
<1>5. ASSUME NEW n \in Nat
      PROVE  strncasecmp_ascii(l, r, n) = 0 <=> Lower(Cut(x, n)) = Lower(Cut(y, n))
  <2>1. strncmp(Lowered(l), Lowered(r), n) = 0 <=> Cut(Lower(x), n) = Cut(Lower(y), n)
    BY <1>1, StrncmpIs
  <2>2. Lower(Cut(x, n)) = Cut(Lower(x), n) /\ Lower(Cut(y, n)) = Cut(Lower(y), n)
    BY <1>2, LowerCut
  <2> QED
    BY <2>1, <2>2, Zenon DEF strncasecmp_ascii
<1> QED
  BY <1>3, <1>4, <1>5, Zenon DEF strcasestr_ascii, strcasecmp_ascii

LEMMA LineAgrees ==
  ASSUME LineInv
  PROVE  SearchesAgree
<1> SUFFICES ASSUME phase = "fill" PROVE SearchesAgree
  BY DEF SearchesAgree
<1> DEFINE text == TextAt(0)
<1>1. Reads(line, 0, text)
  <2>1. Reads(line, 0, Fits)
    BY DEF LineInv, Filling
  <2>2. TextAt(0) = Fits
    BY <2>1, TextAtIs, Zenon
  <2> QED
    BY <2>1, <2>2, Zenon
<1> HIDE DEF text
<1>2. text \in Seq(Char) /\ Len(text) \in Nat
  BY <1>1, ReadsHere
<1> DEFINE chars(word) == {i \in 0..Len(text) - 1 : text[i + 1] \in Range(word)}
<1>3. ASSUME NEW word PROVE chars(word) = Has(text, Range(word))
  BY DEF Has
<1>4. kbasename(line) = strrchr(line, Slash) + 1
  BY <1>1, KbasenameIs
<1> HIDE DEF chars
<1>5. ASSUME NEW needle \in Needles
      PROVE  LET n == CString(needle)
                 hits == Occurs(text, needle)
                 Inside(len) == Occurs(Cut(text, len), needle)
             IN
             /\ strstr(line, n) = FirstOf(hits)
             /\ memmem(line, Len(text), n, Len(needle)) = FirstOf(hits)
             /\ strcasestr_ascii(line, n) = FirstOf(Occurs(Lower(text), Lower(needle)))
             /\ \A len \in 0..Len(text) + 1 : strnstr(line, n, len) = FirstOf(Inside(len))
             /\ strstarts(line, n) <=> 0 \in hits
             /\ strends(line, n) <=> Len(text) - Len(needle) \in hits
             /\ strcmp(line, n) < 0 <=> Precedes(text, needle)
             /\ strcmp(n, line) < 0 <=> Precedes(needle, text)
             /\ strcasecmp_ascii(line, n) = 0 <=> Lower(text) = Lower(needle)
             /\ \A len \in 0..3 :
                  /\ strncmp(line, n, len) < 0
                       <=> Precedes(Cut(text, len), Cut(needle, len))
                  /\ strncasecmp_ascii(line, n, len) = 0
                       <=> Lower(Cut(text, len)) = Lower(Cut(needle, len))
  <2> DEFINE n == CString(needle)
  <2>1. Reads(n, 0, needle)
    BY LineConstants, CStringReads
  <2> HIDE DEF n
  <2>2. strstr(line, n) = FirstOf(Occurs(text, needle))
    BY <1>1, <2>1, StrstrIs, Zenon
  <2>3. memmem(line, Len(text), n, Len(needle)) = FirstOf(Occurs(text, needle))
    BY <1>1, <2>1, MemmemIs, Zenon
  <2>4. /\ strstarts(line, n) <=> 0 \in Occurs(text, needle)
        /\ strends(line, n) <=> Len(text) - Len(needle) \in Occurs(text, needle)
    BY <1>1, <2>1, StartsEndsAre, Zenon
  <2>5. strcmp(line, n) < 0 <=> Precedes(text, needle)
    BY <1>1, <2>1, StrcmpIs, Zenon
  <2>6. strcmp(n, line) < 0 <=> Precedes(needle, text)
    BY <1>1, <2>1, StrcmpIs, Zenon
  <2>7. /\ strcasestr_ascii(line, n) = FirstOf(Occurs(Lower(text), Lower(needle)))
        /\ strcasecmp_ascii(line, n) = 0 <=> Lower(text) = Lower(needle)
        /\ \A len \in Nat : strncasecmp_ascii(line, n, len) = 0
                              <=> Lower(Cut(text, len)) = Lower(Cut(needle, len))
    BY <1>1, <2>1, CasesCompare
  <2>8. ASSUME NEW len \in 0..Len(text) + 1
        PROVE  strnstr(line, n, len) = FirstOf(Occurs(Cut(text, len), needle))
    <3>1. len \in Nat
      BY <1>2
    <3> QED
      BY <1>1, <2>1, <3>1, StrnstrIs
  <2>9. ASSUME NEW len \in 0..3
        PROVE  /\ strncmp(line, n, len) < 0 <=> Precedes(Cut(text, len), Cut(needle, len))
               /\ strncasecmp_ascii(line, n, len) = 0
                    <=> Lower(Cut(text, len)) = Lower(Cut(needle, len))
    <3>1. len \in Nat
      OBVIOUS
    <3> QED
      BY <1>1, <2>1, <2>7, <3>1, StrncmpIs, Zenon
  <2> QED
    BY <2>2, <2>3, <2>4, <2>5, <2>6, <2>7, <2>8, <2>9, Zenon DEF n
<1>6. ASSUME NEW needle \in Needles
      PROVE  /\ strpbrk(line, Range(needle)) = FirstOf(chars(needle))
             /\ strspn(line, 0, Range(needle)) = Min((0..Len(text)) \ chars(needle))
  BY <1>1, <1>3, SpansAre
<1>7. ASSUME NEW needle \in Needles, NEW ch \in Range(needle)
      PROVE  /\ strchr(line, ch) = FirstOf(chars(<<ch>>))
             /\ memchr(line, ch, Len(text)) = FirstOf(chars(<<ch>>))
             /\ strrchr(line, ch) = Max({NULL} \cup chars(<<ch>>))
             /\ strnchr(line, 2, ch) = FirstOf(chars(<<ch>>) \cap 0..1)
             /\ strchrnul(line, ch) = Min({Len(text)} \cup chars(<<ch>>))
  <2>1. ch \in Char
    <3>1. needle \in Seq(Char)
      BY LineConstants
    <3> QED
      BY <1>7, <3>1 DEF Range
  <2>2. Range(<<ch>>) = {ch}
    BY DEF Range
  <2>3. chars(<<ch>>) = Has(text, {ch})
    BY <1>3, <2>2, Zenon
  <2>4. strnchr(line, 2, ch) = FirstOf(Has(text, {ch}) \cap 0..2 - 1)
    BY <1>1, <2>1, StrnchrIs
  <2>5. 2 - 1 = 1
    OBVIOUS
  <2>6. strnchr(line, 2, ch) = FirstOf(chars(<<ch>>) \cap 0..1)
    BY <2>3, <2>4, <2>5
  <2>7. /\ strchr(line, ch) = FirstOf(Has(text, {ch}))
        /\ memchr(line, ch, Len(text)) = FirstOf(Has(text, {ch}))
        /\ strchrnul(line, ch) = Min({Len(text)} \cup Has(text, {ch}))
        /\ strrchr(line, ch) = Max({NULL} \cup Has(text, {ch}))
    BY <1>1, <2>1, OneCharIs, StrrchrIs, Zenon
  <2> QED
    BY <2>3, <2>6, <2>7, Zenon
<1> QED
  BY <1>4, <1>5, <1>6, <1>7, Zenon DEF SearchesAgree, text, chars

\* The searches and comparisons of the primitives (strstr, memmem, strnstr, strcmp, strspn,
\* strrchr and their kin, with strlcpy's truncated text as the line) find in the bytes of
\* the line what there is in its sequence of characters: the first occurrence or none, none
\* that begins before the bound and ends past it, the order of the texts, the run that is
\* accepted, the last slash.
THEOREM LineSearchesAgree == LineSpec => []SearchesAgree
<1>1. LineInv => SearchesAgree
  BY LineAgrees
<1> QED
  BY <1>1, LineSafe, PTL

-------------------------------------------------------------------------------
(* A string that moves its characters *)

\* One byte of a copy.
Copying(b, to, from, order, f, k) ==
  IF k = 0 THEN b
  ELSE [f[k - 1] EXCEPT ![to + order[k]] = f[k - 1][from + order[k]]]

\* What a copy leaves, when the states it goes through are known.
LEMMA CopiedIs ==
  ASSUME NEW b, NEW to, NEW from, NEW order, Len(order) \in Nat, NEW st,
         st = [k \in 0..Len(order) |-> Copying(b, to, from, order, st, k)]
  PROVE  Copied(b, to, from, order) = st[Len(order)]
<1> DEFINE n == Len(order)
           g == CHOOSE f : f = [k \in 0..n |-> Copying(b, to, from, order, f, k)]
           Wrong == {k \in 0..n : g[k] # st[k]}
<1>1. Copied(b, to, from, order) = g[n]
  BY Zenon DEF Copied, Copying
<1>2. g = [k \in 0..n |-> Copying(b, to, from, order, g, k)]
  OBVIOUS
<1> HIDE DEF g, n
<1>3. n \in Nat /\ st = [k \in 0..n |-> Copying(b, to, from, order, st, k)]
  BY DEF n
<1>4. \A k \in 0..n : /\ g[k] = Copying(b, to, from, order, g, k)
                      /\ st[k] = Copying(b, to, from, order, st, k)
  BY <1>2, <1>3
<1>5. ASSUME Wrong # {} PROVE FALSE
  <2>1. PICK k \in Wrong : \A j \in Wrong : k <= j
    <3>1. Wrong \subseteq Nat
      BY <1>3
    <3> HIDE DEF Wrong
    <3> QED
      BY <1>5, <3>1, LeastNumber
  <2>2. k \in 0..n /\ g[k] # st[k]
    BY <2>1
  <2>3. CASE k = 0
    BY <1>4, <2>2, <2>3 DEF Copying
  <2>4. CASE k # 0
    <3>1. k - 1 \in 0..n /\ k - 1 < k
      BY <1>3, <2>2, <2>4
    <3>2. g[k - 1] = st[k - 1]
      BY <1>3, <2>1, <3>1
    <3>3. Copying(b, to, from, order, g, k) = Copying(b, to, from, order, st, k)
      BY <2>4, <3>2 DEF Copying
    <3> QED
      BY <1>4, <2>2, <3>3
  <2> QED
    BY <2>3, <2>4
<1>6. g[n] = st[n]
  BY <1>3, <1>5
<1> QED
  BY <1>1, <1>6 DEF n

\* The buffer d is b with n bytes moved, or with one byte changed.
ShiftOf(d, b, to, from, n) ==
  /\ IsBuffer(d) /\ CapOf(d) = CapOf(b)
  /\ \A i \in 0..CapOf(b) - 1 :
       d[i] = IF i \in to..to + n - 1 THEN b[i - to + from] ELSE b[i]

ChangeOf(d, b, at, e) ==
  /\ IsBuffer(d) /\ CapOf(d) = CapOf(b)
  /\ \A i \in 0..CapOf(b) - 1 : d[i] = IF i = at THEN e ELSE b[i]

LEMMA ShiftedIs ==
  ASSUME NEW b, IsBuffer(b), NEW to \in Nat, NEW from \in Nat, NEW n \in Nat
  PROVE  ShiftOf(Shifted(b, to, from, n), b, to, from, n)
<1> DEFINE d == Shifted(b, to, from, n)
<1>1. CapOf(b) \in Nat /\ DOMAIN b = 0..CapOf(b) - 1
  BY CapIs
<1>2. d = [i \in 0..CapOf(b) - 1 |->
             IF i \in to..to + n - 1 THEN b[i - to + from] ELSE b[i]]
  BY <1>1 DEF Shifted
<1> HIDE DEF d
<1>3. /\ d = [i \in 0..CapOf(b) - 1 |-> d[i]]
      /\ \A i \in 0..CapOf(b) - 1 :
           d[i] = IF i \in to..to + n - 1 THEN b[i - to + from] ELSE b[i]
  BY <1>2
<1>4. IsBuffer(d) /\ CapOf(d) = CapOf(b)
  BY <1>1, <1>3, BufferIs
<1> QED
  BY <1>3, <1>4 DEF d, ShiftOf

\* Buffers of one size with the same bytes are the same.
LEMMA SameBuffer ==
  ASSUME NEW a, IsBuffer(a), NEW b, IsBuffer(b), CapOf(a) = CapOf(b),
         \A i \in 0..CapOf(a) - 1 : a[i] = b[i]
  PROVE  a = b
<1>1. /\ a = [i \in DOMAIN a |-> a[i]] /\ b = [i \in DOMAIN b |-> b[i]]
      /\ DOMAIN a = 0..CapOf(a) - 1 /\ DOMAIN b = 0..CapOf(b) - 1
  BY CapIs DEF IsBuffer
<1> QED
  BY <1>1

LEMMA ChangedIs ==
  ASSUME NEW b, IsBuffer(b), NEW at, NEW e
  PROVE  ChangeOf([b EXCEPT ![at] = e], b, at, e)
<1> DEFINE d == [b EXCEPT ![at] = e]
<1>1. CapOf(b) \in Nat /\ DOMAIN b = 0..CapOf(b) - 1
  BY CapIs
<1>2. d = [i \in 0..CapOf(b) - 1 |-> IF i = at THEN e ELSE b[i]]
  BY <1>1
<1> HIDE DEF d
<1>3. /\ d = [i \in 0..CapOf(b) - 1 |-> d[i]]
      /\ \A i \in 0..CapOf(b) - 1 : d[i] = IF i = at THEN e ELSE b[i]
  BY <1>2
<1>4. IsBuffer(d) /\ CapOf(d) = CapOf(b)
  BY <1>1, <1>3, BufferIs
<1> QED
  BY <1>3, <1>4 DEF d, ChangeOf

\* A copy that never reads what it wrote is a shift, one byte more at the top of what
\* was copied or at its bottom.
LEMMA ShiftedMore ==
  ASSUME NEW b, IsBuffer(b), NEW to \in Nat, NEW from \in Nat, NEW k \in Nat, NEW n \in Nat,
         n = k + 1, to + n <= CapOf(b), from + n <= CapOf(b), to < from \/ to >= from + n
  PROVE  LET m == Shifted(b, to, from, k) IN
         Shifted(b, to, from, n) = [m EXCEPT ![to + k] = m[from + k]]
<1> DEFINE m == Shifted(b, to, from, k)
           d == Shifted(b, to, from, n)
           e == [m EXCEPT ![to + k] = m[from + k]]
           c == CapOf(b)
<1>1. c \in Nat /\ to + n <= c /\ from + n <= c
  BY CapIs
<1>0. ShiftOf(m, b, to, from, k) /\ ShiftOf(d, b, to, from, n)
  BY ShiftedIs
<1> HIDE DEF m, d
<1>2. /\ IsBuffer(m) /\ CapOf(m) = c
      /\ \A i \in 0..c - 1 : m[i] = IF i \in to..to + k - 1 THEN b[i - to + from] ELSE b[i]
  BY <1>0 DEF ShiftOf
<1>3. /\ IsBuffer(d) /\ CapOf(d) = c
      /\ \A i \in 0..c - 1 : d[i] = IF i \in to..to + n - 1 THEN b[i - to + from] ELSE b[i]
  BY <1>0 DEF ShiftOf
<1>4. /\ IsBuffer(e) /\ CapOf(e) = c
      /\ \A i \in 0..c - 1 : e[i] = IF i = to + k THEN m[from + k] ELSE m[i]
  <2>1. ChangeOf(e, m, to + k, m[from + k])
    BY <1>2, ChangedIs
  <2> HIDE DEF e
  <2> QED
    BY <1>2, <2>1 DEF ChangeOf
<1> HIDE DEF e, c
<1>5. m[from + k] = b[from + k]
  <2>1. from + k \in 0..c - 1 /\ from + k \notin to..to + k - 1
    BY <1>1
  <2> QED
    BY <1>2, <2>1
<1>6. ASSUME NEW i \in 0..c - 1 PROVE d[i] = e[i]
  <2>1. CASE i = to + k
    <3>1. i \in to..to + n - 1 /\ i - to + from = from + k
      BY <2>1
    <3> QED
      BY <1>3, <1>4, <1>5, <2>1, <3>1
  <2>2. CASE i # to + k
    <3>1. i \in to..to + n - 1 <=> i \in to..to + k - 1
      BY <2>2
    <3> QED
      BY <1>2, <1>3, <1>4, <2>2, <3>1
  <2> QED
    BY <2>1, <2>2
<1>7. d = e
  BY <1>3, <1>4, <1>6, SameBuffer
<1> QED
  BY <1>7 DEF d, e, m

LEMMA ShiftedBelow ==
  ASSUME NEW b, IsBuffer(b), NEW to \in Nat, NEW from \in Nat, NEW k \in Nat, NEW n \in Nat,
         n = k + 1, to + n <= CapOf(b), from + n <= CapOf(b), from <= to
  PROVE  LET m == Shifted(b, to + 1, from + 1, k) IN
         Shifted(b, to, from, n) = [m EXCEPT ![to] = m[from]]
<1> DEFINE to1 == to + 1
           from1 == from + 1
           m == Shifted(b, to1, from1, k)
           d == Shifted(b, to, from, n)
           e == [m EXCEPT ![to] = m[from]]
           c == CapOf(b)
<1>1. /\ c \in Nat /\ to + n <= c /\ from + n <= c
      /\ to1 \in Nat /\ from1 \in Nat /\ to1 = to + 1 /\ from1 = from + 1
  BY CapIs
<1> HIDE DEF to1, from1
<1>0. ShiftOf(m, b, to1, from1, k) /\ ShiftOf(d, b, to, from, n)
  BY <1>1, ShiftedIs
<1> HIDE DEF m, d
<1>2. /\ IsBuffer(m) /\ CapOf(m) = c
      /\ \A i \in 0..c - 1 : m[i] = IF i \in to1..to1 + k - 1 THEN b[i - to1 + from1] ELSE b[i]
  BY <1>0 DEF ShiftOf
<1>3. /\ IsBuffer(d) /\ CapOf(d) = c
      /\ \A i \in 0..c - 1 : d[i] = IF i \in to..to + n - 1 THEN b[i - to + from] ELSE b[i]
  BY <1>0 DEF ShiftOf
<1>4. /\ IsBuffer(e) /\ CapOf(e) = c
      /\ \A i \in 0..c - 1 : e[i] = IF i = to THEN m[from] ELSE m[i]
  <2>1. ChangeOf(e, m, to, m[from])
    BY <1>2, ChangedIs
  <2> HIDE DEF e
  <2> QED
    BY <1>2, <2>1 DEF ChangeOf
<1> HIDE DEF e, c
<1>5. m[from] = b[from]
  <2>1. from \in 0..c - 1 /\ from \notin to1..to1 + k - 1
    BY <1>1
  <2> QED
    BY <1>2, <2>1
<1>6. ASSUME NEW i \in 0..c - 1 PROVE d[i] = e[i]
  <2>1. CASE i = to
    <3>1. i \in to..to + n - 1 /\ i - to + from = from
      BY <2>1
    <3> QED
      BY <1>3, <1>4, <1>5, <2>1, <3>1
  <2>2. CASE i # to
    <3>1. (i \in to..to + n - 1 <=> i \in to1..to1 + k - 1) /\ i - to + from = i - to1 + from1
      BY <1>1, <2>2
    <3> QED
      BY <1>2, <1>3, <1>4, <2>2, <3>1
  <2> QED
    BY <2>1, <2>2
<1>7. d = e
  BY <1>3, <1>4, <1>6, SameBuffer
<1> QED
  BY <1>7 DEF d, e, m, to1, from1

\* memmove takes the order in which nothing is overwritten before it is read.
LEMMA MemmoveIs ==
  ASSUME NEW b, IsBuffer(b), NEW to \in Nat, NEW from \in Nat, NEW n \in Nat,
         to + n <= CapOf(b), from + n <= CapOf(b)
  PROVE  memmove(b, to, from, n) = Shifted(b, to, from, n)
<1>1. Shifted(b, to, from, 0) = b
  <2>1. \A i : i \notin to..to + 0 - 1
    OBVIOUS
  <2> QED
    BY <2>1 DEF Shifted, IsBuffer
<1>2. CapOf(b) \in Nat
  BY CapIs
<1>3. CASE to < from \/ to - from >= n
  <2> DEFINE order == Upwards(n)
             st == [k \in 0..n |-> Shifted(b, to, from, k)]
  <2>1. Len(order) = n /\ \A k \in 1..n : order[k] = k - 1
    BY DEF Upwards
  <2> HIDE DEF order
  <2>2. ASSUME NEW k \in 0..n PROVE st[k] = Copying(b, to, from, order, st, k)
    <3>1. CASE k = 0
      BY <1>1, <3>1 DEF Copying
    <3>2. CASE k # 0
      <4> DEFINE j == k - 1
                 m == Shifted(b, to, from, j)
      <4>1. /\ j \in Nat /\ j \in 0..n /\ k = j + 1 /\ order[k] = j
            /\ to + k <= CapOf(b) /\ from + k <= CapOf(b)
            /\ (to < from \/ to >= from + k)
        BY <1>2, <1>3, <2>1, <3>2
      <4>2. Shifted(b, to, from, k) = [m EXCEPT ![to + j] = m[from + j]]
        BY <4>1, ShiftedMore
      <4>3. st[k - 1] = m
        BY <4>1
      <4> HIDE DEF m, j
      <4>4. st[k] = Shifted(b, to, from, k)
        OBVIOUS
      <4> HIDE DEF st
      <4> QED
        BY <3>2, <4>1, <4>2, <4>3, <4>4 DEF Copying
    <3> QED
      BY <3>1, <3>2
  <2>3. st = [k \in 0..n |-> st[k]] /\ st[n] = Shifted(b, to, from, n)
    OBVIOUS
  <2> HIDE DEF st
  <2>4. st = [k \in 0..Len(order) |-> Copying(b, to, from, order, st, k)]
    BY <2>1, <2>2, <2>3
  <2>5. Copied(b, to, from, order) = st[n]
    BY <2>1, <2>4, CopiedIs
  <2> QED
    BY <1>3, <2>3, <2>5 DEF memmove, order
<1>4. CASE ~(to < from \/ to - from >= n)
  <2> DEFINE order == Downwards(n)
             st == [k \in 0..n |-> Shifted(b, to + (n - k), from + (n - k), k)]
  <2>1. Len(order) = n /\ \A k \in 1..n : order[k] = n - k
    BY DEF Downwards
  <2> HIDE DEF order
  <2>2. ASSUME NEW k \in 0..n PROVE st[k] = Copying(b, to, from, order, st, k)
    <3>1. CASE k = 0
      <4>1. Shifted(b, to + (n - 0), from + (n - 0), 0) = b
        <5>1. \A i : i \notin to + (n - 0)..to + (n - 0) + 0 - 1
          OBVIOUS
        <5> QED
          BY <5>1 DEF Shifted, IsBuffer
      <4> QED
        BY <3>1, <4>1 DEF Copying
    <3>2. CASE k # 0
      <4> DEFINE j == k - 1
                 t == to + (n - k)
                 f == from + (n - k)
                 m == Shifted(b, t + 1, f + 1, j)
      <4>1. /\ j \in Nat /\ j \in 0..n /\ k = j + 1 /\ order[k] = n - k
            /\ t \in Nat /\ f \in Nat /\ f <= t
            /\ t + k <= CapOf(b) /\ f + k <= CapOf(b)
            /\ t + 1 = to + (n - j) /\ f + 1 = from + (n - j)
        BY <1>2, <1>4, <2>1, <3>2
      <4>2. st[k] = Shifted(b, t, f, k)
        OBVIOUS
      <4>3. st[k - 1] = m
        BY <4>1
      <4>4. order[k] = n - k /\ t = to + order[k] /\ f = from + order[k]
        BY <4>1
      <4> HIDE DEF j, t, f, st
      <4>5. Shifted(b, t, f, k) = [m EXCEPT ![t] = m[f]]
        BY <4>1, ShiftedBelow
      <4> HIDE DEF m
      <4> QED
        BY <3>2, <4>2, <4>3, <4>4, <4>5 DEF Copying
    <3> QED
      BY <3>1, <3>2
  <2>3. st = [k \in 0..n |-> st[k]] /\ st[n] = Shifted(b, to, from, n)
    <3>1. to + (n - n) = to /\ from + (n - n) = from
      OBVIOUS
    <3> QED
      BY <3>1
  <2> HIDE DEF st
  <2>4. st = [k \in 0..Len(order) |-> Copying(b, to, from, order, st, k)]
    BY <2>1, <2>2, <2>3
  <2>5. Copied(b, to, from, order) = st[n]
    BY <2>1, <2>4, CopiedIs
  <2> QED
    BY <1>4, <2>3, <2>5 DEF memmove, order
<1> QED
  BY <1>3, <1>4

\* What a string's buffer may hold, and the string s that has the text t.
Bytes == Letters \cup {Blank, NUL}

ByteBuffer(b) ==
  IsBuffer(b) /\ CapOf(b) <= MaxCapacity /\ \A i \in 0..CapOf(b) - 1 : b[i] \in Bytes

Texts == Seq(Letters \ {NUL})

HoldsText(s, t) ==
  /\ s = [buf |-> s.buf, len |-> s.len, elem_size |-> s.elem_size]
  /\ s.elem_size \in {0, 1} /\ ByteBuffer(s.buf)
  /\ t \in Texts /\ s.len = Len(t)
  /\ CapOf(s.buf) = 0 => t = <<>>
  /\ CapOf(s.buf) # 0 => Reads(s.buf, 0, t)

LEMMA TextsAre == \A t \in Texts : t \in Seq(Char) /\ t \in Seq(Letters) /\ Len(t) \in Nat
<1>1. Letters \ {NUL} \subseteq Char /\ Letters \ {NUL} \subseteq Letters
  BY StringAssumption DEF Char
<1>2. Texts \subseteq Seq(Char) /\ Texts \subseteq Seq(Letters)
  BY <1>1, SeqMonotonic DEF Texts
<1> QED
  BY <1>2 DEF Texts

LEMMA NoBuffer ==
  /\ IsBuffer(raw_buf_new) /\ CapOf(raw_buf_new) = 0
  /\ \A b : IsBuffer(b) /\ CapOf(b) = 0 => b = raw_buf_new
<1> DEFINE z == raw_buf_new
<1>1. z = [i \in 0..0 - 1 |-> z[i]]
  <2>1. 0..0 - 1 = {}
    OBVIOUS
  <2> QED
    BY <2>1 DEF raw_buf_new
<1> HIDE DEF z
<1>2. IsBuffer(z) /\ CapOf(z) = 0
  BY <1>1, BufferIs
<1>3. ASSUME NEW b, IsBuffer(b), CapOf(b) = 0 PROVE b = z
  BY <1>2, <1>3, SameBuffer
<1> QED
  BY <1>2, <1>3 DEF z

\* No string is taken for NoString.
LEMMA IsAString ==
  ASSUME NEW s, NEW t, HoldsText(s, t)
  PROVE  s # NoString
<1> DEFINE b == s.buf
           n == CapOf(b)
           Buffers == UNION {[0..k - 1 -> Letters \cup {Blank, NUL}] : k \in 0..MaxCapacity}
<1>1. /\ IsBuffer(b) /\ n <= MaxCapacity /\ \A i \in 0..n - 1 : b[i] \in Bytes
  BY DEF HoldsText, ByteBuffer
<1>2. n \in Nat /\ DOMAIN b = 0..n - 1 /\ b = [i \in DOMAIN b |-> b[i]] /\ MaxCapacity \in Nat
  BY <1>1, CapIs, RawBufAssumption DEF IsBuffer
<1> HIDE DEF b, n
<1>3. b \in [0..n - 1 -> Letters \cup {Blank, NUL}] /\ n \in 0..MaxCapacity
  BY <1>1, <1>2 DEF Bytes
<1>4. b \in Buffers
  BY <1>3
<1>5. Len(t) \in Nat
  BY TextsAre DEF HoldsText
<1>6. s = [buf |-> b, len |-> Len(t), elem_size |-> s.elem_size] /\ s.elem_size \in {0, 1}
  BY DEF HoldsText, b
<1> HIDE DEF Buffers
<1>7. s \in [buf : Buffers, len : Nat, elem_size : {0, 1}]
  BY <1>4, <1>5, <1>6
<1> QED
  BY <1>7, StringAssumption DEF Buffers

LEMMA PointerReads ==
  ASSUME NEW s, NEW t, HoldsText(s, t)
  PROVE  Reads(string_as_ptr(s), 0, t) /\ t \in Seq(Char) /\ Len(t) \in Nat
<1>1. t \in Seq(Char) /\ Len(t) \in Nat /\ IsBuffer(s.buf)
  BY TextsAre DEF HoldsText, ByteBuffer
<1>2. CASE CapOf(s.buf) = 0
  <2>1. s.buf = raw_buf_new /\ t = <<>>
    BY <1>1, <1>2, NoBuffer DEF HoldsText
  <2>2. <<>> \in Seq(Char)
    OBVIOUS
  <2>3. Reads(CString(<<>>), 0, <<>>)
    BY <2>2, CStringReads, Zenon
  <2> QED
    BY <1>1, <2>1, <2>3 DEF string_as_ptr
<1>3. CASE CapOf(s.buf) # 0
  <2>1. s.buf # raw_buf_new /\ Reads(s.buf, 0, t)
    BY <1>3, NoBuffer DEF HoldsText
  <2> QED
    BY <1>1, <2>1 DEF string_as_ptr
<1> QED
  BY <1>2, <1>3

LEMMA CharsOfIs ==
  ASSUME NEW s, NEW t, HoldsText(s, t)
  PROVE  CharsOf(s) = t
<1> DEFINE data == string_as_ptr(s)
           ends == {i \in DOMAIN data : data[i] = NUL} \cup {Cardinality(DOMAIN data)}
           n == Len(t)
           c == CapOf(data)
           u == [k \in 1..Min(ends) |-> data[k - 1]]
<1>1. CharsOf(s) = u
  BY DEF CharsOf
<1>2. Reads(data, 0, t) /\ t \in Seq(Char) /\ n \in Nat
  BY PointerReads
<1> HIDE DEF data
<1>3. /\ c \in Nat /\ DOMAIN data = 0..c - 1 /\ n < c /\ data[n] = NUL
      /\ \A k \in 0..n - 1 : data[k] = t[k + 1] /\ data[k] # NUL
  BY <1>2, ReadsHere
<1>4. Cardinality(DOMAIN data) = c
  BY DEF CapOf
<1> HIDE DEF c
<1>5. n \in ends /\ ends \subseteq Int /\ \A k \in ends : n <= k
  <2>1. n \in ends /\ ends \subseteq Int
    BY <1>2, <1>3, <1>4
  <2>2. ASSUME NEW k \in ends PROVE n <= k
    BY <1>2, <1>3, <1>4, <2>2
  <2> QED
    BY <2>1, <2>2
<1> HIDE DEF ends
<1>6. Min(ends) = n
  BY <1>5, MinIs
<1> HIDE DEF n
<1>7. u = [k \in 1..n |-> data[k - 1]]
  BY <1>6
<1> HIDE DEF u
<1>8. ASSUME NEW k \in 1..n PROVE u[k] = t[k] /\ u[k] \in Char
  <2>1. k - 1 \in 0..n - 1 /\ (k - 1) + 1 = k
    BY <1>2
  <2>2. u[k] = t[k]
    BY <1>3, <1>7, <2>1
  <2> QED
    BY <1>2, <2>2 DEF n
<1>9. u \in [1..n -> Char]
  BY <1>7, <1>8
<1>10. u \in Seq(Char) /\ Len(u) = n
  BY <1>2, <1>9, MadeSequence
<1>11. u = t
  BY <1>2, <1>8, <1>10, SameSequence DEF n
<1> QED
  BY <1>1, <1>11

\* What an operation leaves and answers.
Leaves(o, answer, t) ==
  o = [ret |-> o.ret, s |-> o.s] /\ o.ret = answer /\ HoldsText(o.s, t)

LEMMA ReserveIs ==
  ASSUME NEW s, NEW t, HoldsText(s, t), NEW n \in Nat, NEW o \in string_reserve(s, n)
  PROVE  \/ Leaves(o, Refused, t)
         \/ Leaves(o, Done, t) /\ CapOf(o.s.buf) >= Len(t) + n + 1
<1>1. /\ s = [buf |-> s.buf, len |-> s.len, elem_size |-> s.elem_size]
      /\ IsBuffer(s.buf) /\ CapOf(s.buf) <= MaxCapacity
      /\ \A i \in 0..CapOf(s.buf) - 1 : s.buf[i] \in Bytes
      /\ s.len = Len(t) /\ t \in Texts
  BY DEF HoldsText, ByteBuffer
<1>2. t \in Seq(Char) /\ Len(t) \in Nat /\ CapOf(s.buf) \in Nat /\ MaxCapacity \in Nat
  BY <1>1, TextsAre, CapIs, RawBufAssumption
<1> DEFINE room == s.len + n + 1
<1>3. room \in Nat /\ room = Len(t) + n + 1
  BY <1>1, <1>2
<1>4. PICK r \in Reserved(s.buf, room) :
        o = IF r.ok
            THEN [ret |-> Done,
                  s   |-> [buf |-> IF s.len = 0 THEN [r.buf EXCEPT ![0] = NUL] ELSE r.buf,
                           len |-> s.len, elem_size |-> 1]]
            ELSE [ret |-> Refused, s |-> [s EXCEPT !.elem_size = 1]]
  BY DEF string_reserve
<1> HIDE DEF room
<1>5. /\ r.ok \in BOOLEAN /\ IsBuffer(r.buf)
      /\ r.ok => CapOf(r.buf) >= room
      /\ CapOf(r.buf) >= CapOf(s.buf)
      /\ \A i \in 0..CapOf(s.buf) - 1 : r.buf[i] = s.buf[i]
      /\ \A i \in CapOf(s.buf)..CapOf(r.buf) - 1 : r.buf[i] = Blank
      /\ CapOf(r.buf) > CapOf(s.buf) => CapOf(r.buf) <= MaxCapacity
  BY <1>1, <1>3, ReservedIs
<1>6. CapOf(r.buf) \in Nat
  BY <1>5, CapIs
<1>7. ByteBuffer(r.buf)
  <2>1. CapOf(r.buf) <= MaxCapacity
    BY <1>1, <1>2, <1>5, <1>6
  <2>2. ASSUME NEW i \in 0..CapOf(r.buf) - 1 PROVE r.buf[i] \in Bytes
    <3>1. i \in 0..CapOf(s.buf) - 1 \/ i \in CapOf(s.buf)..CapOf(r.buf) - 1
      BY <1>2, <1>6
    <3>2. Blank \in Bytes
      BY DEF Bytes
    <3> QED
      BY <1>1, <1>5, <3>1, <3>2
  <2> QED
    BY <1>5, <2>1, <2>2 DEF ByteBuffer
<1>8. CASE ~r.ok
  <2>1. o = [ret |-> Refused, s |-> [buf |-> s.buf, len |-> s.len, elem_size |-> 1]]
    BY <1>1, <1>4, <1>8
  <2>2. Leaves(o, Refused, t)
    BY <2>1 DEF Leaves, HoldsText
  <2> QED
    BY <2>2
<1>9. CASE r.ok /\ t = <<>>
  <2> DEFINE b == [r.buf EXCEPT ![0] = NUL]
  <2>1. o = [ret |-> Done, s |-> [buf |-> b, len |-> s.len, elem_size |-> 1]]
    BY <1>1, <1>4, <1>9
  <2>2. ChangeOf(b, r.buf, 0, NUL)
    BY <1>5, ChangedIs
  <2> HIDE DEF b
  <2>3. /\ IsBuffer(b) /\ CapOf(b) = CapOf(r.buf)
        /\ \A i \in 0..CapOf(r.buf) - 1 : b[i] = IF i = 0 THEN NUL ELSE r.buf[i]
    BY <2>2 DEF ChangeOf
  <2>4. CapOf(r.buf) >= room /\ CapOf(r.buf) > 0
    BY <1>2, <1>3, <1>5, <1>6, <1>9
  <2>5. ByteBuffer(b)
    <3>1. NUL \in Bytes
      BY DEF Bytes
    <3> QED
      BY <1>7, <2>3, <3>1 DEF ByteBuffer
  <2>6. Reads(b, 0, t)
    <3>1. b[0] = NUL
      BY <1>6, <2>3, <2>4
    <3>2. Len(t) = 0 /\ Len(t) < CapOf(b) /\ b[Len(t)] = NUL
      BY <1>9, <2>3, <2>4, <3>1
    <3>3. \A k \in 0..Len(t) - 1 : b[k] = t[k + 1]
      BY <3>2
    <3> QED
      BY <1>2, <2>3, <3>2, <3>3, ReadsMade
  <2>7. CapOf(b) # 0
    BY <2>3, <2>4
  <2>8. Leaves(o, Done, t)
    BY <1>1, <2>1, <2>5, <2>6, <2>7 DEF Leaves, HoldsText
  <2>9. o.s.buf = b
    BY <2>1
  <2> QED
    BY <1>3, <2>3, <2>4, <2>8, <2>9
<1>10. CASE r.ok /\ t # <<>>
  <2>1. s.len # 0 /\ CapOf(s.buf) # 0 /\ Reads(s.buf, 0, t)
    BY <1>1, <1>2, <1>10, EmptySeq DEF HoldsText
  <2>2. o = [ret |-> Done, s |-> [buf |-> r.buf, len |-> s.len, elem_size |-> 1]]
    BY <1>4, <1>10, <2>1
  <2>3. Reads(r.buf, 0, t)
    <3>1. /\ Len(t) < CapOf(s.buf) /\ s.buf[Len(t)] = NUL
          /\ \A k \in 0..Len(t) - 1 : s.buf[k] = t[k + 1]
      BY <2>1, ReadsHere
    <3>2. Len(t) < CapOf(r.buf) /\ r.buf[Len(t)] = NUL
      BY <1>2, <1>5, <1>6, <3>1
    <3>3. ASSUME NEW k \in 0..Len(t) - 1 PROVE r.buf[k] = t[k + 1]
      <4>1. k \in 0..CapOf(s.buf) - 1
        BY <1>2, <3>1
      <4> QED
        BY <1>5, <3>1, <4>1
    <3> QED
      BY <1>2, <1>5, <3>2, <3>3, ReadsMade
  <2>4. CapOf(r.buf) # 0 /\ CapOf(r.buf) >= room
    BY <1>2, <1>5, <1>6, <1>10, <2>1
  <2>5. Leaves(o, Done, t)
    BY <1>1, <1>7, <2>2, <2>3, <2>4 DEF Leaves, HoldsText
  <2> QED
    BY <1>3, <2>2, <2>4, <2>5
<1> QED
  BY <1>5, <1>8, <1>9, <1>10

LEMMA NoNul ==
  ASSUME NEW chars \in Seq(Letters), ~HasNul(chars)
  PROVE  chars \in Texts /\ Len(chars) \in Nat /\ NUL \notin Range(chars)
<1> DEFINE n == Len(chars)
<1>1. n \in Nat /\ DOMAIN chars = 1..n /\ \A k \in 1..n : chars[k] \in Letters
  OBVIOUS
<1>2. NUL \notin Range(chars)
  BY DEF HasNul
<1>3. \A k \in 1..n : chars[k] \in Letters \ {NUL}
  BY <1>1, <1>2 DEF Range
<1>4. chars = [k \in 1..n |-> chars[k]]
  OBVIOUS
<1> HIDE DEF n
<1>5. chars \in [1..n -> Letters \ {NUL}]
  BY <1>3, <1>4
<1>6. chars \in Texts
  BY <1>1, <1>5, MadeSequence DEF Texts
<1> QED
  BY <1>1, <1>2, <1>6 DEF n

\* The characters of a text are no NUL and are bytes.
LEMMA TextChars ==
  ASSUME NEW t \in Texts
  PROVE  \A k \in 1..Len(t) : t[k] \in Bytes /\ t[k] # NUL
BY DEF Texts, Bytes

StoreOf(d, b, at, chars) ==
  /\ IsBuffer(d) /\ CapOf(d) = CapOf(b)
  /\ \A i \in 0..CapOf(b) - 1 :
       d[i] = IF i \in at..at + Len(chars) - 1 THEN chars[i - at + 1] ELSE b[i]

LEMMA StoredIs ==
  ASSUME NEW b, IsBuffer(b), NEW at \in Nat, NEW chars, Len(chars) \in Nat
  PROVE  StoreOf(Stored(b, at, chars), b, at, chars)
<1> DEFINE d == Stored(b, at, chars)
<1>1. CapOf(b) \in Nat /\ DOMAIN b = 0..CapOf(b) - 1
  BY CapIs
<1>2. d = [i \in 0..CapOf(b) - 1 |->
             IF i \in at..at + Len(chars) - 1 THEN chars[i - at + 1] ELSE b[i]]
  BY <1>1 DEF Stored
<1> HIDE DEF d
<1>3. /\ d = [i \in 0..CapOf(b) - 1 |-> d[i]]
      /\ \A i \in 0..CapOf(b) - 1 :
           d[i] = IF i \in at..at + Len(chars) - 1 THEN chars[i - at + 1] ELSE b[i]
  BY <1>2
<1>4. IsBuffer(d) /\ CapOf(d) = CapOf(b)
  BY <1>1, <1>3, BufferIs
<1> QED
  BY <1>3, <1>4 DEF d, StoreOf

\* Bytes stay bytes.
LEMMA StoredBytes ==
  ASSUME NEW b, ByteBuffer(b), NEW at \in Nat, NEW chars, Len(chars) \in Nat,
         \A k \in 1..Len(chars) : chars[k] \in Bytes
  PROVE  ByteBuffer(Stored(b, at, chars))
<1> DEFINE d == Stored(b, at, chars)
           n == Len(chars)
<1>1. IsBuffer(b) /\ CapOf(b) <= MaxCapacity /\ \A i \in 0..CapOf(b) - 1 : b[i] \in Bytes
  BY DEF ByteBuffer
<1>2. StoreOf(d, b, at, chars)
  BY <1>1, StoredIs
<1> HIDE DEF d
<1>3. /\ IsBuffer(d) /\ CapOf(d) = CapOf(b)
      /\ \A i \in 0..CapOf(b) - 1 :
           d[i] = IF i \in at..at + n - 1 THEN chars[i - at + 1] ELSE b[i]
  BY <1>2 DEF StoreOf
<1>4. n \in Nat /\ \A k \in 1..n : chars[k] \in Bytes
  OBVIOUS
<1> HIDE DEF n
<1>5. ASSUME NEW i \in 0..CapOf(d) - 1 PROVE d[i] \in Bytes
  <2>1. CASE i \in at..at + n - 1
    <3>1. i - at + 1 \in 1..n
      BY <1>4, <2>1
    <3> QED
      BY <1>3, <1>4, <2>1, <3>1
  <2>2. CASE i \notin at..at + n - 1
    BY <1>1, <1>3, <2>2
  <2> QED
    BY <2>1, <2>2
<1> QED
  BY <1>1, <1>3, <1>5 DEF ByteBuffer, d

LEMMA ShiftedBytes ==
  ASSUME NEW b, ByteBuffer(b), NEW to \in Nat, NEW from \in Nat, NEW n \in Nat,
         from + n <= CapOf(b)
  PROVE  ByteBuffer(Shifted(b, to, from, n))
<1> DEFINE d == Shifted(b, to, from, n)
<1>1. IsBuffer(b) /\ CapOf(b) <= MaxCapacity /\ \A i \in 0..CapOf(b) - 1 : b[i] \in Bytes
  BY DEF ByteBuffer
<1>2. ShiftOf(d, b, to, from, n)
  BY <1>1, ShiftedIs
<1> HIDE DEF d
<1>3. /\ IsBuffer(d) /\ CapOf(d) = CapOf(b)
      /\ \A i \in 0..CapOf(b) - 1 :
           d[i] = IF i \in to..to + n - 1 THEN b[i - to + from] ELSE b[i]
  BY <1>2 DEF ShiftOf
<1>4. CapOf(b) \in Nat
  BY <1>1, CapIs
<1>5. ASSUME NEW i \in 0..CapOf(d) - 1 PROVE d[i] \in Bytes
  <2>1. CASE i \in to..to + n - 1
    <3>1. i - to + from \in 0..CapOf(b) - 1
      BY <1>4, <2>1
    <3> QED
      BY <1>1, <1>3, <2>1, <3>1
  <2>2. CASE i \notin to..to + n - 1
    BY <1>1, <1>3, <2>2
  <2> QED
    BY <2>1, <2>2
<1> QED
  BY <1>1, <1>3, <1>5 DEF ByteBuffer, d

\* A piece put into a text, and a character taken out of it, as they lie in memory.
LEMMA InsertedReads ==
  ASSUME NEW t \in Texts, NEW chars \in Texts, NEW i \in 0..Len(t), NEW d, IsBuffer(d),
         Len(t) + Len(chars) < CapOf(d),
         \A k \in 0..Len(t) + Len(chars) - 1 :
           d[k] = IF k < i THEN t[k + 1]
                  ELSE IF k < i + Len(chars) THEN chars[k - i + 1] ELSE t[k - Len(chars) + 1],
         d[Len(t) + Len(chars)] = NUL
  PROVE  LET u == Splice(t, i, 0, chars)
         IN  u \in Texts /\ Len(u) = Len(t) + Len(chars) /\ Reads(d, 0, u)
<1> DEFINE u == Splice(t, i, 0, chars)
           n == Len(t)
           m == Len(chars)
<1>1. n \in Nat /\ m \in Nat
  BY TextsAre
<1>2. /\ i \in Nat /\ i + 0 <= Len(t) /\ 0 \in Nat
      /\ t \in Seq(Letters \ {NUL}) /\ chars \in Seq(Letters \ {NUL})
  BY <1>1 DEF Texts
<1>3. /\ u \in Texts /\ Len(u) = n - 0 + m
      /\ \A j \in 1..n - 0 + m :
           u[j] = IF j <= i THEN t[j] ELSE IF j <= i + m THEN chars[j - i] ELSE t[j - m + 0]
  BY <1>2, SpliceIs DEF Texts
<1> HIDE DEF u
<1>4. /\ n + m < CapOf(d) /\ d[n + m] = NUL
      /\ \A k \in 0..n + m - 1 :
           d[k] = IF k < i THEN t[k + 1]
                  ELSE IF k < i + m THEN chars[k - i + 1] ELSE t[k - m + 1]
  OBVIOUS
<1> HIDE DEF n, m
<1>5. Len(u) = n + m
  BY <1>1, <1>3
<1>6. ASSUME NEW k \in 0..n + m - 1 PROVE d[k] = u[k + 1]
  <2>1. k + 1 \in 1..n - 0 + m /\ k + 1 - i = k - i + 1 /\ (k + 1) - m + 0 = k - m + 1
    BY <1>1, <1>2
  <2>2. (k + 1 <= i <=> k < i) /\ (k + 1 <= i + m <=> k < i + m)
    BY <1>1, <1>2
  <2>3. u[k + 1] = IF k < i THEN t[k + 1]
                   ELSE IF k < i + m THEN chars[k - i + 1] ELSE t[k - m + 1]
    BY <1>3, <2>1, <2>2
  <2> QED
    BY <1>4, <2>3
<1>7. u \in Seq(Char)
  BY <1>3, TextsAre
<1>8. Reads(d, 0, u)
  <2>1. Len(u) < CapOf(d) /\ d[Len(u)] = NUL /\ \A k \in 0..Len(u) - 1 : d[k] = u[k + 1]
    BY <1>1, <1>4, <1>5, <1>6
  <2> QED
    BY <1>7, <2>1, ReadsMade
<1> QED
  BY <1>3, <1>5, <1>8 DEF u, n, m

LEMMA RemovedReads ==
  ASSUME NEW t \in Texts, NEW i \in 0..Len(t) - 1, NEW d, IsBuffer(d), Len(t) - 1 < CapOf(d),
         \A k \in 0..Len(t) - 2 : d[k] = IF k < i THEN t[k + 1] ELSE t[k + 2],
         d[Len(t) - 1] = NUL
  PROVE  LET u == Splice(t, i, 1, <<>>)
         IN  u \in Texts /\ Len(u) = Len(t) - 1 /\ Reads(d, 0, u)
<1> DEFINE none == <<>>
           u == Splice(t, i, 1, none)
           n == Len(t)
<1>1. n \in Nat
  BY TextsAre
<1>2. /\ i \in Nat /\ i + 1 <= Len(t) /\ 1 \in Nat
      /\ t \in Seq(Letters \ {NUL}) /\ none \in Seq(Letters \ {NUL}) /\ Len(none) = 0
  BY <1>1 DEF Texts
<1> HIDE DEF none
<1>3. /\ u \in Texts /\ Len(u) = n - 1 + Len(none)
      /\ \A j \in 1..n - 1 + Len(none) :
           u[j] = IF j <= i THEN t[j]
                  ELSE IF j <= i + Len(none) THEN none[j - i] ELSE t[j - Len(none) + 1]
  <2> DEFINE one == 1
             L == Letters \ {NUL}
  <2>1. /\ one \in Nat /\ i \in Nat /\ i + one <= Len(t)
        /\ t \in Seq(L) /\ none \in Seq(L)
    BY <1>2
  <2> HIDE DEF one, n, L
  <2>2. /\ Splice(t, i, one, none) \in Seq(L)
        /\ Len(Splice(t, i, one, none)) = Len(t) - one + Len(none)
        /\ \A j \in 1..Len(t) - one + Len(none) :
             Splice(t, i, one, none)[j] =
               IF j <= i THEN t[j]
               ELSE IF j <= i + Len(none) THEN none[j - i] ELSE t[j - Len(none) + one]
    BY <2>1, SpliceIs, SMTT(60)
  <2> QED
    BY <2>2 DEF one, n, L, Texts
<1> HIDE DEF u
<1>4. /\ n - 1 < CapOf(d) /\ d[n - 1] = NUL
      /\ \A k \in 0..n - 2 : d[k] = IF k < i THEN t[k + 1] ELSE t[k + 2]
  OBVIOUS
<1> HIDE DEF n
<1>5. Len(u) = n - 1
  BY <1>1, <1>2, <1>3
<1>6. ASSUME NEW k \in 0..n - 1 - 1 PROVE d[k] = u[k + 1]
  <2>1. k + 1 \in 1..n - 1 + Len(none) /\ (k + 1) - Len(none) + 1 = k + 2 /\ k \in 0..n - 2
    BY <1>1, <1>2
  <2>2. (k + 1 <= i <=> k < i) /\ (k + 1 <= i + Len(none) => k + 1 <= i)
    BY <1>1, <1>2
  <2>3. u[k + 1] = IF k < i THEN t[k + 1] ELSE t[k + 2]
    BY <1>3, <2>1, <2>2
  <2> QED
    BY <1>4, <2>1, <2>3
<1>7. u \in Seq(Char)
  BY <1>3, TextsAre
<1>8. Reads(d, 0, u)
  <2>1. Len(u) < CapOf(d) /\ d[Len(u)] = NUL /\ \A k \in 0..Len(u) - 1 : d[k] = u[k + 1]
    BY <1>1, <1>4, <1>5, <1>6
  <2> QED
    BY <1>7, <2>1, ReadsMade
<1> QED
  BY <1>3, <1>5, <1>8 DEF u, n, none

\* The string made of a buffer and the text that lies in it.
LEMMA MadeString ==
  ASSUME NEW d, ByteBuffer(d), NEW u \in Texts, Reads(d, 0, u), NEW e \in {0, 1}
  PROVE  HoldsText([buf |-> d, len |-> Len(u), elem_size |-> e], u)
<1>1. Len(u) \in Nat /\ Len(u) < CapOf(d) /\ CapOf(d) \in Nat
  BY ReadsHere
<1>2. CapOf(d) # 0
  BY <1>1
<1> QED
  BY <1>2 DEF HoldsText

\* A piece and its terminator stored.
EndedAt(d, b, at, chars) ==
  /\ ByteBuffer(d) /\ IsBuffer(d) /\ CapOf(d) = CapOf(b)
  /\ \A k \in at..at + Len(chars) - 1 : d[k] = chars[k - at + 1]
  /\ d[at + Len(chars)] = NUL
  /\ \A k \in 0..at - 1 : d[k] = b[k]

LEMMA StoredEnds ==
  ASSUME NEW b, ByteBuffer(b), NEW at \in Nat, NEW chars \in Texts,
         at + Len(chars) < CapOf(b)
  PROVE  EndedAt(Stored(b, at, Append(chars, NUL)), b, at, chars)
<1> DEFINE ended == Append(chars, NUL)
           n == Len(chars)
           d == Stored(b, at, ended)
<1>1. chars \in Seq(Char) /\ n \in Nat /\ IsBuffer(b) /\ at + n < CapOf(b) /\ CapOf(b) \in Nat
  BY TextsAre, CapIs DEF ByteBuffer
<1>2. /\ Len(ended) = n + 1 /\ ended[n + 1] = NUL /\ \A k \in 1..n : ended[k] = chars[k]
  BY <1>1
<1> HIDE DEF ended, d
<1>3. \A k \in 1..n : chars[k] \in Bytes
  BY TextChars
<1> HIDE DEF n
<1>4. Len(ended) \in Nat /\ \A k \in 1..Len(ended) : ended[k] \in Bytes
  <2>1. NUL \in Bytes
    BY DEF Bytes
  <2>2. ASSUME NEW k \in 1..n + 1 PROVE ended[k] \in Bytes
    <3>1. k = n + 1 \/ k \in 1..n
      BY <1>1
    <3> QED
      BY <1>2, <1>3, <2>1, <3>1
  <2> QED
    BY <1>1, <1>2, <2>2
<1>5. d = Stored(b, at, ended)
  BY DEF d
<1>6. ByteBuffer(d) /\ StoreOf(d, b, at, ended)
  BY <1>1, <1>4, <1>5, StoredBytes, StoredIs
<1>7. /\ IsBuffer(d) /\ CapOf(d) = CapOf(b)
      /\ \A i \in 0..CapOf(b) - 1 :
           d[i] = IF i \in at..at + (n + 1) - 1 THEN ended[i - at + 1] ELSE b[i]
  BY <1>2, <1>6 DEF StoreOf
<1>8. ASSUME NEW k \in at..at + n - 1 PROVE d[k] = chars[k - at + 1]
  <2>1. k \in 0..CapOf(b) - 1 /\ k \in at..at + (n + 1) - 1 /\ k - at + 1 \in 1..n
    BY <1>1
  <2> QED
    BY <1>2, <1>7, <2>1
<1>9. d[at + n] = NUL
  <2>1. at + n \in 0..CapOf(b) - 1 /\ at + n \in at..at + (n + 1) - 1 /\ (at + n) - at + 1 = n + 1
    BY <1>1
  <2> QED
    BY <1>2, <1>7, <2>1
<1>10. ASSUME NEW k \in 0..at - 1 PROVE d[k] = b[k]
  <2>1. k \in 0..CapOf(b) - 1 /\ k \notin at..at + (n + 1) - 1
    BY <1>1
  <2> QED
    BY <1>7, <2>1
<1> QED
  BY <1>6, <1>7, <1>8, <1>9, <1>10 DEF n, d, ended, EndedAt

\* A buffer with room, and the text in it, is what a reserve leaves for more.
LEMMA RoomFor ==
  ASSUME NEW r, NEW t, Leaves(r, Done, t), NEW m \in Nat, CapOf(r.s.buf) >= Len(t) + m + 1
  PROVE  /\ r = [ret |-> Done, s |-> [buf |-> r.s.buf, len |-> Len(t), elem_size |-> r.s.elem_size]]
         /\ r.s.elem_size \in {0, 1} /\ ByteBuffer(r.s.buf) /\ IsBuffer(r.s.buf)
         /\ CapOf(r.s.buf) \in Nat /\ t \in Texts /\ Len(t) \in Nat
         /\ Len(t) + m < CapOf(r.s.buf)
         /\ \A k \in 0..Len(t) - 1 : r.s.buf[k] = t[k + 1]
         /\ r.s.buf[Len(t)] = NUL
<1> DEFINE b == r.s.buf
<1>1. /\ r = [ret |-> r.ret, s |-> r.s] /\ r.ret = Done
      /\ r.s = [buf |-> b, len |-> r.s.len, elem_size |-> r.s.elem_size]
      /\ r.s.len = Len(t) /\ r.s.elem_size \in {0, 1} /\ ByteBuffer(b) /\ t \in Texts
  BY DEF Leaves, HoldsText
<1>2. IsBuffer(b) /\ CapOf(b) \in Nat /\ Len(t) \in Nat
  BY <1>1, CapIs, TextsAre DEF ByteBuffer
<1>3. Len(t) + m < CapOf(b) /\ CapOf(b) # 0
  BY <1>2
<1>4. Reads(b, 0, t)
  BY <1>3 DEF Leaves, HoldsText
<1>5. (\A k \in 0..Len(t) - 1 : b[k] = t[k + 1]) /\ b[Len(t)] = NUL
  BY <1>4, ReadsHere
<1> HIDE DEF b
<1>6. r = [ret |-> Done, s |-> [buf |-> b, len |-> Len(t), elem_size |-> r.s.elem_size]]
  BY <1>1
<1> QED
  BY <1>1, <1>2, <1>3, <1>5, <1>6 DEF b

LEMMA PushStrIs ==
  ASSUME NEW s, NEW t, HoldsText(s, t), NEW chars \in Seq(Letters),
         NEW o \in string_push_str_n(s, chars)
  PROVE  \/ Leaves(o, Refused, t)
         \/ NUL \notin Range(chars) /\ Leaves(o, Done, Splice(t, Len(t), 0, chars))
<1>1. CASE HasNul(chars)
  <2>1. o = [ret |-> Refused, s |-> s]
    BY <1>1 DEF string_push_str_n
  <2> QED
    BY <2>1 DEF Leaves
<1>2. CASE ~HasNul(chars)
  <2> DEFINE n == Len(t)
             m == Len(chars)
             u == Splice(t, n, 0, chars)
  <2>1. chars \in Texts /\ m \in Nat /\ NUL \notin Range(chars)
    BY <1>2, NoNul
  <2> DEFINE Outcome(r) == Lengthened(r, m, Stored(r.s.buf, s.len, Append(chars, NUL)))
  <2>0. string_push_str_n(s, chars) =
          IF HasNul(chars) THEN {[ret |-> Refused, s |-> s]}
          ELSE {Outcome(r) : r \in string_reserve(s, m)}
    BY DEF string_push_str_n
  <2> HIDE DEF Outcome
  <2>2. PICK r \in string_reserve(s, m) : o = Outcome(r)
    BY <1>2, <2>0
  <2>3. CASE Leaves(r, Refused, t)
    <3>1. r.ret # Done
      BY <2>3 DEF Leaves, Done, Refused
    <3> QED
      BY <2>2, <2>3, <3>1 DEF Outcome, Lengthened
  <2>4. CASE Leaves(r, Done, t) /\ CapOf(r.s.buf) >= n + m + 1
    <3> DEFINE b == r.s.buf
               e == r.s.elem_size
               d == Stored(b, n, Append(chars, NUL))
    <3>1. /\ r = [ret |-> Done, s |-> [buf |-> b, len |-> n, elem_size |-> e]]
          /\ e \in {0, 1} /\ ByteBuffer(b) /\ IsBuffer(b) /\ t \in Texts /\ n \in Nat
          /\ CapOf(b) \in Nat /\ n + m < CapOf(b) /\ \A k \in 0..n - 1 : b[k] = t[k + 1]
      BY <2>1, <2>4, RoomFor
    <3>2. s.len = n
      BY DEF HoldsText
    <3> HIDE DEF b, e, d, n, m
    <3>3. o = [ret |-> Done, s |-> [buf |-> d, len |-> n + m, elem_size |-> e]]
      BY <2>2, <3>1, <3>2 DEF d, Outcome, Lengthened
    <3>4. /\ ByteBuffer(d) /\ IsBuffer(d) /\ CapOf(d) = CapOf(b)
          /\ \A k \in n..n + m - 1 : d[k] = chars[k - n + 1]
          /\ d[n + m] = NUL
          /\ \A k \in 0..n - 1 : d[k] = b[k]
      <4>1. EndedAt(d, b, n, chars)
        BY <2>1, <3>1, StoredEnds DEF d, m
      <4> QED
        BY <4>1 DEF EndedAt, m
    <3>5. ASSUME NEW k \in 0..n + m - 1
          PROVE  d[k] = IF k < n THEN t[k + 1]
                        ELSE IF k < n + m THEN chars[k - n + 1] ELSE t[k - m + 1]
      <4>1. CASE k < n
        BY <3>1, <3>4, <4>1
      <4>2. CASE ~(k < n)
        <5>1. k \in n..n + m - 1 /\ k < n + m
          BY <2>1, <3>1, <4>2
        <5> QED
          BY <3>4, <4>2, <5>1
      <4> QED
        BY <4>1, <4>2
    <3>6. u \in Texts /\ Len(u) = n + m /\ Reads(d, 0, u)
      <4>1. n \in 0..Len(t)
        BY <3>1 DEF n
      <4> QED
        BY <2>1, <3>1, <3>4, <3>5, <4>1, InsertedReads DEF n, m
    <3> HIDE DEF u
    <3>7. HoldsText([buf |-> d, len |-> Len(u), elem_size |-> e], u)
      BY <3>1, <3>4, <3>6, MadeString
    <3>8. Leaves(o, Done, u)
      BY <3>3, <3>6, <3>7 DEF Leaves
    <3> QED
      BY <2>1, <3>8 DEF u, n
  <2> QED
    BY <2>1, <2>2, <2>3, <2>4, ReserveIs
<1> QED
  BY <1>1, <1>2

LEMMA InsertStrIs ==
  ASSUME NEW s, NEW t, HoldsText(s, t), NEW chars \in Seq(Letters), NEW i \in Nat,
         NEW o \in string_insert_str_n(s, i, chars)
  PROVE  \/ Leaves(o, Refused, t)
         \/ /\ i \in 0..Len(t) /\ NUL \notin Range(chars)
            /\ Leaves(o, Done, Splice(t, i, 0, chars))
<1>1. CASE i > s.len \/ HasNul(chars)
  <2>1. o = [ret |-> Refused, s |-> s]
    BY <1>1 DEF string_insert_str_n
  <2> QED
    BY <2>1 DEF Leaves
<1>2. CASE ~(i > s.len \/ HasNul(chars))
  <2> DEFINE n == Len(t)
             m == Len(chars)
             u == Splice(t, i, 0, chars)
             Outcome(r) ==
               Lengthened(r, m, Stored(memmove(r.s.buf, i + m, i, s.len - i + 1), i, chars))
  <2>0. string_insert_str_n(s, i, chars) =
          IF i > s.len \/ HasNul(chars) THEN {[ret |-> Refused, s |-> s]}
          ELSE {Outcome(r) : r \in string_reserve(s, m)}
    BY DEF string_insert_str_n
  <2>1. chars \in Texts /\ m \in Nat /\ NUL \notin Range(chars)
    BY <1>2, NoNul
  <2> HIDE DEF Outcome
  <2>2. PICK r \in string_reserve(s, m) : o = Outcome(r)
    BY <1>2, <2>0
  <2>3. CASE Leaves(r, Refused, t)
    <3>1. r.ret # Done
      BY <2>3 DEF Leaves, Done, Refused
    <3> QED
      BY <2>2, <2>3, <3>1 DEF Outcome, Lengthened
  <2>4. CASE Leaves(r, Done, t) /\ CapOf(r.s.buf) >= n + m + 1
    <3> DEFINE b == r.s.buf
               e == r.s.elem_size
               l == s.len - i + 1
               to == i + m
               c == memmove(b, to, i, l)
               d == Stored(c, i, chars)
    <3>1. /\ r = [ret |-> Done, s |-> [buf |-> b, len |-> n, elem_size |-> e]]
          /\ e \in {0, 1} /\ ByteBuffer(b) /\ IsBuffer(b) /\ t \in Texts /\ n \in Nat
          /\ CapOf(b) \in Nat /\ n + m < CapOf(b)
          /\ \A k \in 0..n - 1 : b[k] = t[k + 1]
          /\ b[n] = NUL
      BY <2>1, <2>4, RoomFor
    <3>2. s.len = n
      BY DEF HoldsText
    <3> HIDE DEF b, e, n, m
    <3>3. i <= n /\ l \in Nat /\ l = n - i + 1 /\ to \in Nat /\ to = i + m
      BY <1>2, <2>1, <3>1, <3>2
    <3>4. to + l <= CapOf(b) /\ i + l <= CapOf(b)
      <4> DEFINE cap == CapOf(b)
      <4>1. n \in Nat /\ m \in Nat /\ cap \in Nat /\ n + m < cap
        BY <2>1, <3>1
      <4> HIDE DEF cap
      <4>2. to + l = n + m + 1 /\ i + l = n + 1
        BY <3>3, <4>1
      <4> HIDE DEF l, to
      <4>3. to + l <= cap /\ i + l <= cap
        BY <4>1, <4>2
      <4> QED
        BY <4>3 DEF cap
    <3> HIDE DEF l, to
    <3>5. c = Shifted(b, to, i, l)
      BY <3>1, <3>3, <3>4, MemmoveIs
    <3>6. ByteBuffer(c) /\ ShiftOf(c, b, to, i, l)
      <4> HIDE DEF c
      <4> QED
        BY <3>1, <3>3, <3>4, <3>5, ShiftedBytes, ShiftedIs
    <3>7. o = [ret |-> Done, s |-> [buf |-> d, len |-> n + m, elem_size |-> e]]
      <4>1. o = Lengthened(r, m, d)
        BY <2>2 DEF Outcome, b, to, l
      <4> HIDE DEF d
      <4> QED
        BY <3>1, <4>1 DEF Lengthened
    <3> HIDE DEF c
    <3>8. /\ IsBuffer(c) /\ CapOf(c) = CapOf(b)
          /\ \A k \in 0..CapOf(b) - 1 :
               c[k] = IF k \in to..to + l - 1 THEN b[k - to + i] ELSE b[k]
      BY <3>6 DEF ShiftOf
    <3>9. \A k \in 1..m : chars[k] \in Bytes
      BY <2>1, TextChars DEF m
    <3>10. ByteBuffer(d) /\ StoreOf(d, c, i, chars)
      BY <2>1, <3>6, <3>8, <3>9, StoredBytes, StoredIs DEF m
    <3> HIDE DEF d
    <3>11. /\ IsBuffer(d) /\ CapOf(d) = CapOf(b)
           /\ \A k \in 0..CapOf(b) - 1 :
                d[k] = IF k \in i..i + m - 1 THEN chars[k - i + 1] ELSE c[k]
      BY <3>8, <3>10 DEF StoreOf, m
    <3>30. /\ n \in Nat /\ m \in Nat /\ l \in Nat /\ to \in Nat /\ CapOf(b) \in Nat
           /\ i <= n /\ l = n - i + 1 /\ to = i + m /\ n + m < CapOf(b)
      BY <2>1, <3>1, <3>3, Zenon
    <3>12. ASSUME NEW k \in 0..n + m - 1
           PROVE  d[k] = IF k < i THEN t[k + 1]
                         ELSE IF k < i + m THEN chars[k - i + 1] ELSE t[k - m + 1]
      <4>1. k \in 0..CapOf(b) - 1
        BY <2>1, <3>1
      <4>2. CASE k < i
        <5>1. k \notin i..i + m - 1 /\ k \notin to..to + l - 1 /\ k \in 0..n - 1
          BY <3>30, <4>2
        <5> QED
          BY <3>1, <3>8, <3>11, <4>1, <4>2, <5>1
      <4>3. CASE ~(k < i) /\ k < i + m
        <5>1. k \in i..i + m - 1
          BY <3>30, <4>3
        <5> QED
          BY <3>11, <4>1, <4>3, <5>1
      <4>4. CASE ~(k < i) /\ ~(k < i + m)
        <5>1. /\ k \notin i..i + m - 1 /\ k \in to..to + l - 1
              /\ k - to + i \in 0..n - 1 /\ (k - to + i) + 1 = k - m + 1
          BY <3>30, <4>4
        <5>2. b[k - to + i] = t[k - m + 1]
          BY <3>1, <5>1
        <5> QED
          BY <3>8, <3>11, <4>1, <4>4, <5>1, <5>2
      <4> QED
        BY <4>2, <4>3, <4>4
    <3>13. d[n + m] = NUL
      <4> DEFINE k == n + m
      <4>1. /\ k \in 0..CapOf(b) - 1 /\ k \notin i..i + m - 1 /\ k \in to..to + l - 1
            /\ k - to + i = n
        BY <3>30
      <4> HIDE DEF k
      <4>2. d[k] = NUL
        BY <3>1, <3>8, <3>11, <4>1
      <4> QED
        BY <4>2 DEF k
    <3>14. u \in Texts /\ Len(u) = n + m /\ Reads(d, 0, u)
      <4>1. i \in 0..Len(t)
        BY <3>1, <3>3 DEF n
      <4> QED
        BY <2>1, <3>1, <3>11, <3>12, <3>13, <4>1, InsertedReads DEF n, m
    <3> HIDE DEF u
    <3>15. HoldsText([buf |-> d, len |-> Len(u), elem_size |-> e], u)
      BY <3>1, <3>10, <3>14, MadeString
    <3>16. Leaves(o, Done, u)
      BY <3>7, <3>14, <3>15 DEF Leaves
    <3>17. i \in 0..n
      BY <3>1, <3>3
    <3> QED
      BY <2>1, <3>16, <3>17 DEF u, n
  <2> QED
    BY <2>1, <2>2, <2>3, <2>4, ReserveIs
<1> QED
  BY <1>1, <1>2

LEMMA ZeroHolds == HoldsText(string_zero, <<>>)
<1>1. <<>> \in Texts /\ Len(<<>>) = 0
  BY DEF Texts
<1>2. ByteBuffer(raw_buf_new)
  BY NoBuffer, RawBufAssumption DEF ByteBuffer
<1> QED
  BY <1>1, <1>2, NoBuffer DEF string_zero, HoldsText

LEMMA NewIs ==
  ASSUME NEW chars \in Seq(Letters), NEW o \in string_new_n(chars)
  PROVE  o = [ret |-> Refused, s |-> string_zero] \/ Leaves(o, Done, chars)
<1> SUFFICES ASSUME o # [ret |-> Refused, s |-> string_zero] PROVE Leaves(o, Done, chars)
  OBVIOUS
<1> DEFINE m == Len(chars)
<1> DEFINE Outcome(r) == Lengthened(r, m, Stored(r.s.buf, 0, Append(chars, NUL)))
<1>0. string_new_n(chars) =
        IF HasNul(chars) THEN {[ret |-> Refused, s |-> string_zero]}
        ELSE {IF r.ret = Done THEN Outcome(r) ELSE [ret |-> Refused, s |-> string_zero]
                : r \in string_reserve(string_zero, m)}
  BY DEF string_new_n
<1> HIDE DEF Outcome
<1>1. ~HasNul(chars)
  BY <1>0
<1>2. chars \in Texts /\ m \in Nat
  BY <1>1, NoNul
<1>3. PICK r \in string_reserve(string_zero, m) : r.ret = Done /\ o = Outcome(r)
  BY <1>0, <1>1
<1> DEFINE b == r.s.buf
           e == r.s.elem_size
           d == Stored(b, 0, Append(chars, NUL))
           none == <<>>
<1>4. Leaves(r, Done, none) /\ CapOf(b) >= Len(none) + m + 1
  <2>1. r.ret # Refused
    BY <1>3 DEF Done, Refused
  <2> QED
    BY <1>2, <2>1, ZeroHolds, ReserveIs DEF Leaves
<1>5. /\ r = [ret |-> Done, s |-> [buf |-> b, len |-> Len(none), elem_size |-> e]]
      /\ e \in {0, 1} /\ ByteBuffer(b) /\ CapOf(b) \in Nat /\ Len(none) + m < CapOf(b)
  <2> HIDE DEF none, m
  <2> QED
    BY <1>2, <1>4, RoomFor
<1>6. 0 + m < CapOf(b)
  BY <1>5
<1> HIDE DEF b, e, none
<1>7. o = [ret |-> Done, s |-> [buf |-> d, len |-> m, elem_size |-> e]]
  <2>1. o = Lengthened(r, m, d)
    BY <1>3 DEF b, Outcome
  <2>2. 0 + m = m /\ Len(none) = 0
    BY <1>2 DEF none
  <2> HIDE DEF d, m
  <2> QED
    BY <1>5, <2>1, <2>2 DEF Lengthened
<1>8. EndedAt(d, b, 0, chars)
  BY <1>2, <1>5, <1>6, StoredEnds DEF m
<1> HIDE DEF d, m
<1>9. /\ ByteBuffer(d) /\ IsBuffer(d) /\ CapOf(d) = CapOf(b)
      /\ \A k \in 0..0 + m - 1 : d[k] = chars[k - 0 + 1]
      /\ d[0 + m] = NUL
  BY <1>8 DEF EndedAt, m
<1>10. Reads(d, 0, chars)
  <2>1. m < CapOf(d) /\ d[m] = NUL
    BY <1>2, <1>6, <1>9
  <2>2. \A k \in 0..m - 1 : d[k] = chars[k + 1]
    BY <1>2, <1>9
  <2>3. chars \in Seq(Char)
    BY <1>2, TextsAre
  <2> QED
    BY <1>9, <2>1, <2>2, <2>3, ReadsMade DEF m
<1>11. HoldsText([buf |-> d, len |-> Len(chars), elem_size |-> e], chars)
  BY <1>2, <1>5, <1>9, <1>10, MadeString
<1> QED
  BY <1>7, <1>11 DEF Leaves, m

LEMMA RemoveIs ==
  ASSUME NEW s, NEW t, HoldsText(s, t), NEW i \in Nat, NEW o \in string_remove(s, i)
  PROVE  \/ Leaves(o, Refused, t)
         \/ i \in 0..Len(t) - 1 /\ Leaves(o, t[i + 1], Splice(t, i, 1, <<>>))
<1> DEFINE n == Len(t)
           b == s.buf
           e == s.elem_size
           u == Splice(t, i, 1, <<>>)
<1>1. /\ s = [buf |-> b, len |-> n, elem_size |-> e] /\ s.len = n /\ e \in {0, 1}
      /\ ByteBuffer(b) /\ IsBuffer(b) /\ t \in Texts
      /\ CapOf(b) = 0 => t = <<>>
      /\ CapOf(b) # 0 => Reads(b, 0, t)
  BY DEF HoldsText, ByteBuffer
<1>2. n \in Nat /\ CapOf(b) \in Nat
  BY <1>1, TextsAre, CapIs
<1>3. CASE i >= s.len
  <2>1. o = [ret |-> Refused, s |-> s]
    BY <1>3 DEF string_remove
  <2> QED
    BY <2>1 DEF Leaves
<1>4. CASE ~(i >= s.len)
  <2>1. i < n /\ n # 0
    BY <1>1, <1>2, <1>4
  <2>2. Reads(b, 0, t)
    BY <1>1, <2>1
  <2>3. n < CapOf(b) /\ b[n] = NUL /\ \A k \in 0..n - 1 : b[k] = t[k + 1]
    BY <2>2, ReadsHere
  <2> DEFINE l == s.len - i
             j == i + 1
             d == memmove(b, i, j, l)
  <2>4. o = [ret |-> b[i], s |-> [s EXCEPT !.buf = d, !.len = @ - 1]]
    BY <1>4 DEF string_remove
  <2> HIDE DEF b, n, e
  <2>5. l \in Nat /\ l = n - i /\ j \in Nat /\ j = i + 1 /\ i + l <= CapOf(b) /\ j + l <= CapOf(b)
    BY <1>1, <1>2, <2>1, <2>3
  <2> HIDE DEF l, j
  <2>6. d = Shifted(b, i, j, l)
    BY <1>1, <2>5, MemmoveIs
  <2> HIDE DEF d
  <2>7. ByteBuffer(d) /\ ShiftOf(d, b, i, j, l)
    BY <1>1, <2>5, <2>6, ShiftedBytes, ShiftedIs
  <2>8. o = [ret |-> b[i], s |-> [buf |-> d, len |-> n - 1, elem_size |-> e]]
    BY <1>1, <2>4
  <2>9. /\ IsBuffer(d) /\ CapOf(d) = CapOf(b)
        /\ \A k \in 0..CapOf(b) - 1 :
             d[k] = IF k \in i..i + l - 1 THEN b[k - i + j] ELSE b[k]
    BY <2>7 DEF ShiftOf
  <2>10. /\ n \in Nat /\ l \in Nat /\ j \in Nat /\ CapOf(b) \in Nat
         /\ i < n /\ l = n - i /\ j = i + 1 /\ n < CapOf(b)
    BY <1>2, <2>1, <2>3, <2>5, Zenon
  <2>11. ASSUME NEW k \in 0..n - 2 PROVE d[k] = IF k < i THEN t[k + 1] ELSE t[k + 2]
    <3>1. k \in 0..CapOf(b) - 1
      BY <2>10
    <3>2. CASE k < i
      <4>1. k \notin i..i + l - 1 /\ k \in 0..n - 1
        BY <2>10, <3>2
      <4> QED
        BY <2>3, <2>9, <3>1, <3>2, <4>1
    <3>3. CASE ~(k < i)
      <4>1. k \in i..i + l - 1 /\ k - i + j \in 0..n - 1 /\ (k - i + j) + 1 = k + 2
        BY <2>10, <3>3
      <4> QED
        BY <2>3, <2>9, <3>1, <3>3, <4>1
    <3> QED
      BY <3>2, <3>3
  <2>12. d[n - 1] = NUL
    <3> DEFINE k == n - 1
    <3>1. k \in 0..CapOf(b) - 1 /\ k \in i..i + l - 1 /\ k - i + j = n
      BY <2>10
    <3> HIDE DEF k
    <3>2. d[k] = NUL
      BY <2>3, <2>9, <3>1
    <3> QED
      BY <3>2 DEF k
  <2>13. i \in 0..n - 1 /\ n - 1 < CapOf(d)
    BY <2>9, <2>10
  <2>14. u \in Texts /\ Len(u) = n - 1 /\ Reads(d, 0, u)
    BY <1>1, <2>9, <2>11, <2>12, <2>13, RemovedReads DEF n
  <2> HIDE DEF u
  <2>15. HoldsText([buf |-> d, len |-> Len(u), elem_size |-> e], u)
    BY <1>1, <2>7, <2>14, MadeString
  <2>16. b[i] = t[i + 1]
    BY <2>3, <2>13
  <2>17. Leaves(o, t[i + 1], u)
    BY <2>8, <2>14, <2>15, <2>16 DEF Leaves
  <2> QED
    BY <2>13, <2>17 DEF u, n
<1> QED
  BY <1>3, <1>4

\* A text cut short.
LEMMA PrefixIs ==
  ASSUME NEW t \in Texts, NEW k \in 0..Len(t)
  PROVE  LET u == SubSeq(t, 1, k)
         IN  u \in Texts /\ Len(u) = k /\ \A j \in 1..k : u[j] = t[j]
<1> DEFINE L == Letters \ {NUL}
           u == SubSeq(t, 1, k)
<1>1. t \in Seq(L) /\ Len(t) \in Nat /\ k \in Nat
  BY TextsAre DEF Texts
<1> HIDE DEF L
<1>2. u \in Seq(L)
  <2>1. 1 \in 1..Len(t) + 1 /\ k \in 1 - 1..Len(t)
    BY <1>1
  <2> QED
    BY <1>1, SubSeqProperties
<1>3. Len(u) = k /\ \A j \in 1..k : u[j] = t[j]
  BY <1>1
<1> HIDE DEF u
<1> QED
  BY <1>2, <1>3 DEF L, Texts, u

\* A string cut there.
LEMMA TerminatedIs ==
  ASSUME NEW s, NEW t, HoldsText(s, t), NEW k \in 0..Len(t)
  PROVE  HoldsText(Terminated(s, k), SubSeq(t, 1, k))
<1> DEFINE b == s.buf
           e == s.elem_size
           u == SubSeq(t, 1, k)
           d == [b EXCEPT ![k] = NUL]
           n == Len(t)
<1>1. /\ s = [buf |-> b, len |-> s.len, elem_size |-> e] /\ s.len = n /\ e \in {0, 1}
      /\ ByteBuffer(b) /\ IsBuffer(b) /\ t \in Texts
      /\ CapOf(b) = 0 => t = <<>>
      /\ CapOf(b) # 0 => Reads(b, 0, t)
  BY DEF HoldsText, ByteBuffer
<1>2. u \in Texts /\ Len(u) = k /\ \A j \in 1..k : u[j] = t[j]
  BY <1>1, PrefixIs
<1>3. n \in Nat /\ CapOf(b) \in Nat /\ k \in Nat /\ k <= n
  BY <1>1, TextsAre, CapIs
<1>4. CASE CapOf(b) = 0
  <2>1. b = raw_buf_new /\ t = <<>> /\ n = 0 /\ k = 0
    BY <1>1, <1>3, <1>4, NoBuffer
  <2>2. u = <<>>
    BY <1>2, <2>1
  <2>3. Terminated(s, k) = [s EXCEPT !.len = k]
    BY <1>1, <2>1 DEF Terminated
  <2>4. Terminated(s, k) = s
    BY <1>1, <2>1, <2>3
  <2> QED
    BY <2>1, <2>2, <2>4
<1>5. CASE CapOf(b) # 0
  <2>1. b # raw_buf_new
    BY <1>5, NoBuffer
  <2>2. /\ n < CapOf(b) /\ \A j \in 0..n - 1 : b[j] = t[j + 1]
    BY <1>1, <1>5, ReadsHere
  <2>3. ChangeOf(d, b, k, NUL)
    BY <1>1, ChangedIs
  <2>4. Terminated(s, k) = [s EXCEPT !.len = k, !.buf = d]
    BY <2>1 DEF Terminated
  <2> HIDE DEF b, e, d, u, n
  <2>5. Terminated(s, k) = [buf |-> d, len |-> k, elem_size |-> e]
    <3>1. s = [buf |-> b, len |-> n, elem_size |-> e]
      BY <1>1
    <3>2. [s EXCEPT !.len = k] = [buf |-> b, len |-> k, elem_size |-> e]
      BY <3>1
    <3> QED
      BY <2>4, <3>2
  <2>6. /\ IsBuffer(d) /\ CapOf(d) = CapOf(b)
        /\ \A i \in 0..CapOf(b) - 1 : d[i] = IF i = k THEN NUL ELSE b[i]
    BY <2>3 DEF ChangeOf
  <2>7. ByteBuffer(d)
    <3>1. CapOf(b) <= MaxCapacity /\ \A i \in 0..CapOf(b) - 1 : b[i] \in Bytes
      BY <1>1 DEF ByteBuffer
    <3>2. NUL \in Bytes
      BY DEF Bytes
    <3> QED
      BY <2>6, <3>1, <3>2 DEF ByteBuffer
  <2>8. ASSUME NEW j \in 0..Len(u) - 1 PROVE d[j] = u[j + 1]
    <3>1. j \in 0..CapOf(b) - 1 /\ j # k /\ j \in 0..n - 1 /\ j + 1 \in 1..k
      BY <1>2, <1>3, <2>2
    <3> QED
      BY <1>2, <2>2, <2>6, <3>1
  <2>9. Len(u) < CapOf(d) /\ d[Len(u)] = NUL
    <3>1. k \in 0..CapOf(b) - 1
      BY <1>3, <2>2
    <3> QED
      BY <1>2, <1>3, <2>2, <2>6, <3>1
  <2>10. Reads(d, 0, u)
    BY <1>2, <2>6, <2>8, <2>9, TextsAre, ReadsMade
  <2>11. HoldsText([buf |-> d, len |-> Len(u), elem_size |-> e], u)
    BY <1>1, <1>2, <2>7, <2>10, MadeString
  <2> QED
    BY <1>2, <2>5, <2>11 DEF u
<1> QED
  BY <1>4, <1>5

LEMMA ClearIs ==
  ASSUME NEW s, NEW t, HoldsText(s, t), NEW o \in string_clear(s)
  PROVE  Leaves(o, Done, <<>>)
<1>1. t \in Texts /\ 0 \in 0..Len(t)
  BY TextsAre DEF HoldsText
<1>2. HoldsText(Terminated(s, 0), SubSeq(t, 1, 0))
  BY <1>1, TerminatedIs
<1>3. SubSeq(t, 1, 0) = <<>>
  BY <1>1 DEF Texts
<1>4. o = [ret |-> Done, s |-> Terminated(s, 0)]
  BY DEF string_clear
<1> QED
  BY <1>2, <1>3, <1>4 DEF Leaves

LEMMA TruncateIs ==
  ASSUME NEW s, NEW t, HoldsText(s, t), NEW n \in Nat, NEW o \in string_truncate(s, n)
  PROVE  \/ Leaves(o, Refused, t) /\ n > Len(t)
         \/ n \in 0..Len(t) /\ Leaves(o, Done, SubSeq(t, 1, n))
<1>1. t \in Texts /\ s.len = Len(t) /\ Len(t) \in Nat
  BY TextsAre DEF HoldsText
<1>2. CASE n > s.len
  <2>1. o = [ret |-> Refused, s |-> s]
    BY <1>2 DEF string_truncate
  <2> QED
    BY <1>1, <1>2, <2>1 DEF Leaves
<1>3. CASE ~(n > s.len)
  <2>1. o = [ret |-> Done, s |-> Terminated(s, n)]
    BY <1>3 DEF string_truncate
  <2>2. n \in 0..Len(t)
    BY <1>1, <1>3
  <2>3. HoldsText(Terminated(s, n), SubSeq(t, 1, n))
    BY <2>2, TerminatedIs
  <2> QED
    BY <2>1, <2>2, <2>3 DEF Leaves
<1> QED
  BY <1>2, <1>3

LEMMA PopIs ==
  ASSUME NEW s, NEW t, HoldsText(s, t), NEW o \in string_pop(s)
  PROVE  IF t = <<>> THEN Leaves(o, Refused, t)
         ELSE Leaves(o, t[Len(t)], Splice(t, Len(t) - 1, 1, <<>>))
<1> DEFINE n == Len(t)
           u == SubSeq(t, 1, n - 1)
<1>1. t \in Texts /\ s.len = n /\ n \in Nat /\ (n = 0 <=> t = <<>>)
  BY TextsAre DEF HoldsText, Texts
<1>2. CASE n = 0
  <2>1. o = [ret |-> Refused, s |-> s]
    BY <1>1, <1>2 DEF string_pop
  <2> QED
    BY <1>1, <1>2, <2>1 DEF Leaves
<1>3. CASE n # 0
  <2>1. o = [ret |-> s.buf[n - 1], s |-> Terminated(s, n - 1)]
    BY <1>1, <1>3 DEF string_pop
  <2>2. n - 1 \in 0..n /\ n - 1 \in 0..n - 1
    BY <1>1, <1>3
  <2>3. HoldsText(Terminated(s, n - 1), u)
    BY <2>2, TerminatedIs
  <2>4. s.buf[n - 1] = t[n]
    <3>1. CapOf(s.buf) # 0
      BY <1>1, <1>3 DEF HoldsText
    <3>2. \A k \in 0..n - 1 : s.buf[k] = t[k + 1]
      BY <3>1, ReadsHere DEF HoldsText
    <3>3. (n - 1) + 1 = n
      BY <1>1
    <3> QED
      BY <2>2, <3>2, <3>3
  <2>5. Splice(t, n - 1, 1, <<>>) = u
    <3> DEFINE x == u \o <<>>
               y == SubSeq(t, n - 1 + 1 + 1, n)
    <3>1. Splice(t, n - 1, 1, <<>>) = x \o y
      BY DEF Splice
    <3>2. y = <<>>
      BY <1>1, <1>3 DEF Texts
    <3>3. u \in Seq(Letters \ {NUL})
      BY <1>1, <2>2, PrefixIs DEF Texts
    <3> HIDE DEF u, y
    <3> QED
      BY <3>1, <3>2, <3>3
  <2> QED
    BY <1>1, <1>3, <2>1, <2>3, <2>4, <2>5 DEF Leaves
<1> QED
  BY <1>2, <1>3

\* TextSpec's Kept of any text, and what there is of it after n characters.
Keeping(t, keep, f, n) ==
  IF n = 0 THEN <<>>
  ELSE IF t[n] \in keep THEN Append(f[n - 1], t[n]) ELSE f[n - 1]

KeptOf(t, keep) ==
  (CHOOSE f : f = [n \in 0..Len(t) |-> Keeping(t, keep, f, n)])[Len(t)]

LEMMA KeepingIsDefined ==
  ASSUME NEW t, NEW keep, NEW m \in Nat
  PROVE  \E f : f = [n \in 0..m |-> Keeping(t, keep, f, n)]
<1> DEFINE D(k) == \E f : f = [n \in 0..k |-> Keeping(t, keep, f, n)]
           S == {k \in Nat : ~D(k)}
<1>1. SUFFICES ASSUME S # {} PROVE FALSE
  OBVIOUS
<1>2. PICK k \in S : \A j \in S : k <= j
  <2>1. S \subseteq Nat
    OBVIOUS
  <2> HIDE DEF S
  <2> QED
    BY <1>1, <2>1, LeastNumber
<1>3. k \in Nat /\ ~D(k)
  BY <1>2
<1>4. CASE k = 0
  <2> DEFINE f == [n \in 0..0 |-> <<>>]
  <2>1. f = [n \in 0..0 |-> Keeping(t, keep, f, n)]
    BY DEF Keeping
  <2> QED
    BY <1>3, <1>4, <2>1
<1>5. CASE k > 0
  <2>1. D(k - 1)
    BY <1>2, <1>3, <1>5
  <2>2. PICK f : f = [n \in 0..k - 1 |-> Keeping(t, keep, f, n)]
    BY <2>1
  <2> DEFINE g == [n \in 0..k |-> IF n < k THEN f[n] ELSE Keeping(t, keep, f, k)]
  <2>3. ASSUME NEW n \in 0..k PROVE g[n] = Keeping(t, keep, g, n)
    <3>1. n # 0 => g[n - 1] = f[n - 1]
      BY <1>3
    <3>2. Keeping(t, keep, g, n) = Keeping(t, keep, f, n)
      <4> HIDE DEF g
      <4> QED
        BY <3>1 DEF Keeping
    <3>3. n < k => f[n] = Keeping(t, keep, f, n)
      <4>1. n < k => n \in 0..k - 1
        BY <1>3
      <4> HIDE DEF g
      <4> QED
        BY <2>2, <4>1
    <3>4. g[n] = Keeping(t, keep, f, n)
      BY <3>3, <1>3
    <3> QED
      BY <3>2, <3>4
  <2>4. g = [n \in 0..k |-> g[n]]
    OBVIOUS
  <2> HIDE DEF g
  <2>5. g = [n \in 0..k |-> Keeping(t, keep, g, n)]
    BY <2>3, <2>4
  <2> QED
    BY <1>3, <2>5
<1> QED
  BY <1>3, <1>4, <1>5

\* What is kept so far is no longer than what it is kept of.
LEMMA KeepingIs ==
  ASSUME NEW t \in Texts, NEW keep, NEW f,
         \A n \in 0..Len(t) : f[n] = Keeping(t, keep, f, n)
  PROVE  \A n \in 0..Len(t) : f[n] \in Texts /\ Len(f[n]) <= n
<1> DEFINE Wrong == {n \in 0..Len(t) : ~(f[n] \in Texts /\ Len(f[n]) <= n)}
           L == Letters \ {NUL}
<1>1. Len(t) \in Nat /\ Wrong \subseteq Nat
  BY TextsAre
<1>2. ASSUME Wrong # {} PROVE FALSE
  <2>1. PICK n \in Wrong : \A j \in Wrong : n <= j
    <3> HIDE DEF Wrong
    <3> QED
      BY <1>1, <1>2, LeastNumber
  <2>2. n \in 0..Len(t) /\ ~(f[n] \in Texts /\ Len(f[n]) <= n)
    BY <2>1
  <2>3. CASE n = 0
    <3>1. f[n] = <<>>
      BY <2>2, <2>3 DEF Keeping
    <3> QED
      BY <2>2, <2>3, <3>1 DEF Texts
  <2>4. CASE n # 0
    <3>1. n - 1 \in 0..Len(t) /\ n \in 1..Len(t) /\ n - 1 < n /\ n \in Nat
      BY <1>1, <2>2, <2>4
    <3>2. f[n - 1] \in Texts /\ Len(f[n - 1]) <= n - 1
      BY <2>1, <3>1
    <3>3. t[n] \in L /\ f[n - 1] \in Seq(L) /\ Len(f[n - 1]) \in Nat
      BY <3>1, <3>2 DEF Texts
    <3>4. f[n] = IF t[n] \in keep THEN Append(f[n - 1], t[n]) ELSE f[n - 1]
      BY <2>2, <2>4 DEF Keeping
    <3> DEFINE before == f[n - 1]
               c == t[n]
    <3> HIDE DEF before, c, L
    <3>5. Append(before, c) \in Seq(L) /\ Len(Append(before, c)) = Len(before) + 1
      BY <3>3 DEF before, c
    <3>6. f[n] \in Seq(L) /\ Len(f[n]) <= n
      <4>1. Len(before) \in Nat /\ Len(before) <= n - 1
        BY <3>2, <3>3 DEF before
      <4>2. f[n] = before \/ f[n] = Append(before, c)
        BY <3>4 DEF before, c
      <4>3. before \in Seq(L)
        BY <3>3 DEF before
      <4>4. Len(before) <= n /\ Len(before) + 1 <= n
        BY <3>1, <4>1
      <4>5. CASE f[n] = before
        BY <4>3, <4>4, <4>5
      <4>6. CASE f[n] = Append(before, c)
        BY <3>5, <4>4, <4>6
      <4> QED
        BY <4>2, <4>5, <4>6
    <3> QED
      BY <2>2, <3>6 DEF L, Texts
  <2> QED
    BY <2>3, <2>4
<1> QED
  BY <1>2

KeptBy(t, keep, f) ==
  \A n \in 0..Len(t) :
    f[n] = Keeping(t, keep, f, n) /\ f[n] \in Texts /\ Len(f[n]) <= n

LEMMA KeptIs ==
  ASSUME NEW t \in Texts, NEW keep
  PROVE  \E f : KeptOf(t, keep) = f[Len(t)] /\ KeptBy(t, keep, f)
<1> DEFINE m == Len(t)
           f == CHOOSE f : f = [n \in 0..m |-> Keeping(t, keep, f, n)]
<1>1. m \in Nat
  BY TextsAre
<1>2. f = [n \in 0..m |-> Keeping(t, keep, f, n)]
  BY <1>1, KeepingIsDefined
<1>3. KeptOf(t, keep) = f[m]
  BY DEF KeptOf
<1> HIDE DEF f
<1>4. \A n \in 0..m : f[n] = Keeping(t, keep, f, n)
  BY <1>2
<1>5. \A n \in 0..m : f[n] \in Texts /\ Len(f[n]) <= n
  <2> HIDE DEF m
  <2> QED
    BY <1>4, KeepingIs DEF m
<1> QED
  BY <1>3, <1>4, <1>5 DEF KeptBy

\* string_retain's loop after i characters, and what it has made of the buffer b: the
\* u that was kept lies in front of what was there.
Compacting(b, keep, f, i) ==
  IF i = 0 THEN [b |-> b, n |-> 0]
  ELSE IF f[i - 1].b[i - 1] \in keep
       THEN [b |-> [f[i - 1].b EXCEPT ![f[i - 1].n] = f[i - 1].b[i - 1]], n |-> f[i - 1].n + 1]
       ELSE f[i - 1]

AllCompacted(b, keep, n) == (CHOOSE f : f = [i \in 0..n |-> Compacting(b, keep, f, i)])[n]

Fronted(b, u) == [j \in DOMAIN b |-> IF j < Len(u) THEN u[j + 1] ELSE b[j]]
FrontOf(d, b, u) ==
  /\ IsBuffer(d) /\ CapOf(d) = CapOf(b)
  /\ \A j \in 0..CapOf(b) - 1 : d[j] = IF j < Len(u) THEN u[j + 1] ELSE b[j]

LEMMA FrontIs ==
  ASSUME NEW b, IsBuffer(b), NEW u, Len(u) \in Nat
  PROVE  FrontOf(Fronted(b, u), b, u)
<1> DEFINE d == Fronted(b, u)
<1>1. CapOf(b) \in Nat /\ DOMAIN b = 0..CapOf(b) - 1
  BY CapIs
<1>2. d = [j \in 0..CapOf(b) - 1 |-> IF j < Len(u) THEN u[j + 1] ELSE b[j]]
  BY <1>1 DEF Fronted
<1> HIDE DEF d
<1>3. /\ d = [j \in 0..CapOf(b) - 1 |-> d[j]]
      /\ \A j \in 0..CapOf(b) - 1 : d[j] = IF j < Len(u) THEN u[j + 1] ELSE b[j]
  BY <1>2
<1>4. IsBuffer(d) /\ CapOf(d) = CapOf(b)
  BY <1>1, <1>3, BufferIs
<1> QED
  BY <1>3, <1>4 DEF d, FrontOf

LEMMA FrontMore ==
  ASSUME NEW b, IsBuffer(b), NEW u \in Texts, NEW c \in Letters \ {NUL}
  PROVE  Fronted(b, Append(u, c)) = [Fronted(b, u) EXCEPT ![Len(u)] = c]
<1> DEFINE x == Append(u, c)
           n == Len(u)
           d == Fronted(b, u)
           e == [d EXCEPT ![n] = c]
           g == Fronted(b, x)
<1>1. /\ n \in Nat /\ Len(x) = n + 1 /\ x[n + 1] = c
      /\ \A j \in 1..n : x[j] = u[j]
  BY DEF Texts
<1>2. CapOf(b) \in Nat
  BY CapIs
<1>3. FrontOf(d, b, u) /\ FrontOf(g, b, x)
  <2>1. Len(u) \in Nat /\ Len(x) \in Nat
    BY <1>1
  <2> HIDE DEF x, n
  <2> QED
    BY <2>1, FrontIs
<1> HIDE DEF x, d, g
<1>4. ChangeOf(e, d, n, c)
  <2>1. IsBuffer(d)
    BY <1>3 DEF FrontOf
  <2> QED
    BY <2>1, ChangedIs
<1> HIDE DEF e, n
<1>5. /\ IsBuffer(d) /\ CapOf(d) = CapOf(b)
      /\ \A j \in 0..CapOf(b) - 1 : d[j] = IF j < n THEN u[j + 1] ELSE b[j]
  BY <1>3 DEF FrontOf, n
<1>6. /\ IsBuffer(g) /\ CapOf(g) = CapOf(b)
      /\ \A j \in 0..CapOf(b) - 1 : g[j] = IF j < n + 1 THEN x[j + 1] ELSE b[j]
  BY <1>1, <1>3 DEF FrontOf
<1>7. /\ IsBuffer(e) /\ CapOf(e) = CapOf(b)
      /\ \A j \in 0..CapOf(b) - 1 : e[j] = IF j = n THEN c ELSE d[j]
  BY <1>4, <1>5 DEF ChangeOf
<1>8. ASSUME NEW j \in 0..CapOf(b) - 1 PROVE g[j] = e[j]
  <2>1. CASE j < n
    <3>1. j + 1 \in 1..n /\ j < n + 1 /\ j # n
      BY <1>1, <1>2, <2>1
    <3> QED
      BY <1>1, <1>5, <1>6, <1>7, <2>1, <3>1
  <2>2. CASE j = n
    <3>1. j < n + 1
      BY <1>1, <2>2
    <3> QED
      BY <1>1, <1>6, <1>7, <2>2, <3>1
  <2>3. CASE ~(j < n) /\ j # n
    <3>1. ~(j < n + 1)
      BY <1>1, <1>2, <2>3
    <3> QED
      BY <1>5, <1>6, <1>7, <2>3, <3>1
  <2> QED
    BY <2>1, <2>2, <2>3
<1>9. g = e
  BY <1>6, <1>7, <1>8, SameBuffer
<1> QED
  BY <1>9 DEF g, e, d, x, n

\* The loop does what is kept says.
Compactions(b, n, f) == [i \in 0..n |-> [b |-> Fronted(b, f[i]), n |-> Len(f[i])]]

LEMMA CompactedIs ==
  ASSUME NEW b, NEW t \in Texts, Reads(b, 0, t), NEW keep, NEW f, KeptBy(t, keep, f),
         NEW h, h = Compactions(b, Len(t), f)
  PROVE  h = [i \in 0..Len(t) |-> Compacting(b, keep, h, i)]
<1> DEFINE n == Len(t)
<1>0. /\ IsBuffer(b) /\ \A k \in 0..n - 1 : b[k] = t[k + 1]
      /\ \A k \in 0..n : /\ f[k] = Keeping(t, keep, f, k)
                         /\ f[k] \in Texts /\ Len(f[k]) <= k
  BY ReadsHere DEF KeptBy
<1>1. n \in Nat /\ CapOf(b) \in Nat /\ n < CapOf(b)
  BY ReadsHere
<1>2. \A i \in 0..n : h[i] = [b |-> Fronted(b, f[i]), n |-> Len(f[i])]
  BY DEF Compactions
<1>3. ASSUME NEW i \in 0..n PROVE h[i] = Compacting(b, keep, h, i)
  <2>1. CASE i = 0
    <3>1. f[i] = <<>>
      BY <1>0, <2>1 DEF Keeping
    <3>2. FrontOf(Fronted(b, <<>>), b, <<>>)
      <4>1. Len(<<>>) \in Nat
        OBVIOUS
      <4> QED
        BY <1>0, <4>1, FrontIs, Zenon
    <3> DEFINE d == Fronted(b, <<>>)
    <3> HIDE DEF d
    <3>3. IsBuffer(d) /\ CapOf(d) = CapOf(b) /\ \A j \in 0..CapOf(b) - 1 : d[j] = b[j]
      <4>1. \A j \in 0..CapOf(b) - 1 : ~(j < Len(<<>>))
        OBVIOUS
      <4> QED
        BY <3>2, <4>1 DEF FrontOf, d
    <3>4. d = b
      BY <1>0, <3>3, SameBuffer
    <3>5. h[i] = [b |-> d, n |-> 0]
      BY <1>2, <3>1 DEF d
    <3> QED
      BY <2>1, <3>4, <3>5 DEF Compacting
  <2>2. CASE i # 0
    <3> DEFINE k == i - 1
               u == f[k]
               d == Fronted(b, u)
               c == t[i]
    <3>1. k \in 0..n /\ k \in 0..n - 1 /\ k + 1 = i /\ k \in 0..CapOf(b) - 1 /\ i \in 1..n
      BY <1>1, <2>2
    <3>2. u \in Texts /\ Len(u) <= k /\ Len(u) \in Nat /\ c \in Letters \ {NUL}
      <4> HIDE DEF k
      <4>1. u \in Texts /\ Len(u) <= k
        BY <1>0, <3>1
      <4> QED
        BY <3>1, <4>1, TextsAre DEF Texts
    <3>3. f[i] = IF c \in keep THEN Append(u, c) ELSE u
      BY <1>0, <2>2 DEF Keeping
    <3>4. h[i - 1] = [b |-> d, n |-> Len(u)] /\ h[i] = [b |-> Fronted(b, f[i]), n |-> Len(f[i])]
      BY <1>2, <3>1
    <3>5. b[k] = c
      <4> HIDE DEF k
      <4> QED
        BY <1>0, <3>1
    <3>6. FrontOf(d, b, u)
      BY <1>0, <3>2, FrontIs
    <3> HIDE DEF k, u, d, c
    <3>7. d[k] = c
      <4>1. ~(k < Len(u))
        BY <3>1, <3>2
      <4> QED
        BY <3>1, <3>5, <3>6, <4>1 DEF FrontOf
    <3>8. Compacting(b, keep, h, i) =
            IF c \in keep THEN [b |-> [d EXCEPT ![Len(u)] = c], n |-> Len(u) + 1]
            ELSE [b |-> d, n |-> Len(u)]
      <4> DEFINE to == h[i - 1]
      <4>1. to.b = d /\ to.n = Len(u) /\ to = [b |-> d, n |-> Len(u)] /\ d[i - 1] = c
        BY <3>4, <3>7 DEF k
      <4>2. Compacting(b, keep, h, i) =
              IF to.b[i - 1] \in keep
              THEN [b |-> [to.b EXCEPT ![to.n] = to.b[i - 1]], n |-> to.n + 1] ELSE to
        BY <2>2 DEF Compacting
      <4> HIDE DEF to
      <4> QED
        BY <4>1, <4>2
    <3>9. CASE c \in keep
      <4>1. f[i] = Append(u, c)
        BY <3>3, <3>9
      <4>2. Len(Append(u, c)) = Len(u) + 1
        BY <3>2 DEF Texts
      <4>3. Fronted(b, Append(u, c)) = [d EXCEPT ![Len(u)] = c]
        BY <1>0, <3>2, FrontMore DEF d
      <4> QED
        BY <3>4, <3>8, <3>9, <4>1, <4>2, <4>3
    <3>10. CASE c \notin keep
      <4>1. f[i] = u
        BY <3>3, <3>10
      <4> QED
        BY <3>4, <3>8, <3>10, <4>1 DEF d
    <3> QED
      BY <3>9, <3>10
  <2> QED
    BY <2>1, <2>2
<1>4. h = [i \in 0..n |-> h[i]]
  BY DEF Compactions
<1> QED
  BY <1>3, <1>4

\* What the loop leaves, when the states it goes through are known.
LEMMA CompactingIs ==
  ASSUME NEW b, NEW keep, NEW n \in Nat, NEW st,
         st = [i \in 0..n |-> Compacting(b, keep, st, i)]
  PROVE  AllCompacted(b, keep, n) = st[n]
<1> DEFINE g == CHOOSE f : f = [i \in 0..n |-> Compacting(b, keep, f, i)]
           Wrong == {k \in 0..n : g[k] # st[k]}
<1>2. g = [i \in 0..n |-> Compacting(b, keep, g, i)]
  OBVIOUS
<1> HIDE DEF g
<1>4. \A k \in 0..n : g[k] = Compacting(b, keep, g, k) /\ st[k] = Compacting(b, keep, st, k)
  BY <1>2
<1>5. ASSUME Wrong # {} PROVE FALSE
  <2>1. PICK k \in Wrong : \A j \in Wrong : k <= j
    <3>1. Wrong \subseteq Nat
      OBVIOUS
    <3> HIDE DEF Wrong
    <3> QED
      BY <1>5, <3>1, LeastNumber
  <2>2. k \in 0..n /\ g[k] # st[k]
    BY <2>1
  <2>3. CASE k = 0
    <3>1. Compacting(b, keep, g, k) = [b |-> b, n |-> 0]
      BY <2>3 DEF Compacting
    <3>2. Compacting(b, keep, st, k) = [b |-> b, n |-> 0]
      BY <2>3 DEF Compacting
    <3> QED
      BY <1>4, <2>2, <3>1, <3>2
  <2>4. CASE k # 0
    <3>1. k - 1 \in 0..n /\ k - 1 < k
      BY <2>2, <2>4
    <3>2. g[k - 1] = st[k - 1]
      BY <2>1, <3>1
    <3>3. Compacting(b, keep, g, k) = Compacting(b, keep, st, k)
      BY <2>4, <3>2 DEF Compacting
    <3> QED
      BY <1>4, <2>2, <3>3
  <2> QED
    BY <2>3, <2>4
<1> QED
  BY <1>5 DEF g, AllCompacted

LEMMA RetainIs ==
  ASSUME NEW s, NEW t, HoldsText(s, t), NEW keep, NEW o \in string_retain(s, keep)
  PROVE  Leaves(o, Done, KeptOf(t, keep))
<1> DEFINE b == s.buf
           e == s.elem_size
           n == Len(t)
<1>1. /\ s = [buf |-> b, len |-> s.len, elem_size |-> e] /\ s.len = n /\ e \in {0, 1}
      /\ ByteBuffer(b) /\ IsBuffer(b) /\ t \in Texts
      /\ CapOf(b) = 0 => t = <<>>
      /\ CapOf(b) # 0 => Reads(b, 0, t)
  BY DEF HoldsText, ByteBuffer
<1>2. n \in Nat /\ CapOf(b) \in Nat
  BY <1>1, TextsAre, CapIs
<1>3. PICK f : KeptOf(t, keep) = f[n] /\ KeptBy(t, keep, f)
  BY <1>1, KeptIs
<1> DEFINE end == AllCompacted(b, keep, s.len)
<1>4. o = [ret |-> Done,
           s   |-> IF b = raw_buf_new THEN s ELSE Terminated([s EXCEPT !.buf = end.b], end.n)]
  BY Zenon DEF string_retain, Compacting, AllCompacted
<1> HIDE DEF end
<1>5. CASE CapOf(b) = 0
  <2>1. b = raw_buf_new /\ t = <<>> /\ n = 0
    BY <1>1, <1>5, NoBuffer
  <2>2. o = [ret |-> Done, s |-> s]
    BY <1>4, <2>1
  <2>3. f[n] = <<>>
    BY <1>2, <1>3, <2>1 DEF Keeping, KeptBy
  <2> HIDE DEF b, n
  <2> QED
    BY <1>3, <2>1, <2>2, <2>3 DEF Leaves
<1>6. CASE CapOf(b) # 0
  <2> DEFINE h == Compactions(b, n, f)
             u == f[n]
             m == Len(u)
             d == Fronted(b, u)
             x == [j \in 1..n |-> IF j <= m THEN u[j] ELSE t[j]]
  <2>1. n < CapOf(b) /\ b[n] = NUL /\ \A k \in 0..n - 1 : b[k] = t[k + 1]
    BY <1>1, <1>6, ReadsHere
  <2>2. h = Compactions(b, n, f) /\ h[n] = [b |-> d, n |-> m]
    BY <1>2 DEF Compactions
  <2> HIDE DEF h, b, d, m
  <2>3. h = [i \in 0..n |-> Compacting(b, keep, h, i)]
    BY <1>1, <1>3, <1>6, <2>2, CompactedIs
  <2>4. end = [b |-> d, n |-> m]
    <3>1. end = AllCompacted(b, keep, n)
      BY <1>1 DEF end
    <3> HIDE DEF n
    <3>2. AllCompacted(b, keep, n) = h[n]
      BY <1>2, <2>3, CompactingIs
    <3> QED
      BY <2>2, <3>1, <3>2, Zenon
  <2> USE DEF b, d, m
  <2>5. b # raw_buf_new
    BY <1>6, NoBuffer
  <2>6. u \in Texts /\ m <= n /\ m \in Nat
    <3>1. n \in 0..n
      BY <1>2
    <3>2. u \in Texts /\ m <= n
      BY <1>3, <3>1 DEF KeptBy
    <3> HIDE DEF u, n
    <3> QED
      BY <3>2, TextsAre
  <2>7. FrontOf(d, b, u)
    BY <1>1, <2>6, FrontIs
  <2>8. s = [buf |-> b, len |-> n, elem_size |-> e]
    BY <1>1
  <2> DEFINE z == [s EXCEPT !.buf = d]
  <2>9. o = [ret |-> Done, s |-> Terminated(z, m)]
    <3>1. end.b = d /\ end.n = m
      BY <2>4
    <3> HIDE DEF d, m, b
    <3> QED
      BY <1>4, <2>5, <3>1
  <2> HIDE DEF d, b, e
  <2>10. z = [buf |-> d, len |-> n, elem_size |-> e]
    BY <2>8
  <2> HIDE DEF z, u
  <2>11. /\ IsBuffer(d) /\ CapOf(d) = CapOf(b)
         /\ \A j \in 0..CapOf(b) - 1 : d[j] = IF j < m THEN u[j + 1] ELSE b[j]
    BY <2>7 DEF FrontOf
  <2> HIDE DEF n, m
  <2>12. ByteBuffer(d)
    <3>1. CapOf(b) <= MaxCapacity /\ \A i \in 0..CapOf(b) - 1 : b[i] \in Bytes
      BY <1>1 DEF ByteBuffer
    <3>2. \A k \in 1..m : u[k] \in Bytes
      BY <2>6, TextChars DEF m
    <3>3. ASSUME NEW j \in 0..CapOf(b) - 1 PROVE d[j] \in Bytes
      <4>1. CASE j < m
        <5>1. j + 1 \in 1..m
          BY <2>6, <4>1
        <5> QED
          BY <2>11, <3>2, <4>1, <5>1
      <4>2. CASE ~(j < m)
        BY <2>11, <3>1, <4>2
      <4> QED
        BY <4>1, <4>2
    <3> QED
      BY <2>11, <3>1, <3>3 DEF ByteBuffer
  <2>13. x \in Texts /\ Len(x) = n /\ \A j \in 1..n : x[j] = IF j <= m THEN u[j] ELSE t[j]
    <3> DEFINE L == Letters \ {NUL}
    <3>1. (\A j \in 1..m : u[j] \in L) /\ (\A j \in 1..n : t[j] \in L)
      BY <1>1, <2>6 DEF Texts, n, m
    <3>2. \A j \in 1..n : j <= m => j \in 1..m
      BY <1>2, <2>6
    <3> HIDE DEF L
    <3>3. x \in [1..n -> L]
      BY <3>1, <3>2
    <3>4. \A j \in 1..n : x[j] = IF j <= m THEN u[j] ELSE t[j]
      OBVIOUS
    <3> HIDE DEF x
    <3>5. x \in Seq(L) /\ Len(x) = n
      BY <1>2, <3>3, MadeSequence
    <3> QED
      BY <3>4, <3>5 DEF L, Texts
  <2> HIDE DEF x
  <2>14. Reads(d, 0, x)
    <3>1. ASSUME NEW k \in 0..n - 1 PROVE d[k] = x[k + 1]
      <4>1. k \in 0..CapOf(b) - 1 /\ k + 1 \in 1..n /\ (k < m <=> k + 1 <= m)
        BY <1>2, <2>1, <2>6
      <4> QED
        BY <2>1, <2>11, <2>13, <4>1
    <3>2. d[n] = NUL /\ n < CapOf(d)
      <4>1. n \in 0..CapOf(b) - 1 /\ ~(n < m)
        BY <1>2, <2>1, <2>6
      <4> QED
        BY <2>1, <2>11, <4>1
    <3>3. x \in Seq(Char)
      BY <2>13, TextsAre
    <3> QED
      BY <2>11, <2>13, <3>1, <3>2, <3>3, ReadsMade
  <2>15. HoldsText(z, x)
    <3>1. HoldsText([buf |-> d, len |-> Len(x), elem_size |-> e], x)
      BY <1>1, <2>12, <2>13, <2>14, MadeString
    <3> QED
      BY <2>10, <2>13, <3>1
  <2>16. HoldsText(Terminated(z, m), SubSeq(x, 1, m))
    <3>1. m \in 0..Len(x)
      BY <1>2, <2>6, <2>13
    <3> QED
      BY <2>15, <3>1, TerminatedIs
  <2>17. SubSeq(x, 1, m) = u
    <3> DEFINE y == SubSeq(x, 1, m)
    <3>1. y \in Texts /\ Len(y) = m /\ \A j \in 1..m : y[j] = x[j]
      <4>1. m \in 0..Len(x)
        BY <1>2, <2>6, <2>13
      <4> QED
        BY <2>13, <4>1, PrefixIs
    <3> HIDE DEF y
    <3>2. \A j \in 1..m : y[j] = u[j]
      <4>1. \A j \in 1..m : j \in 1..n /\ j <= m
        BY <1>2, <2>6
      <4> QED
        BY <2>13, <3>1, <4>1
    <3>3. y = u
      <4>1. y \in Seq(Letters \ {NUL}) /\ u \in Seq(Letters \ {NUL}) /\ Len(y) = Len(u)
        BY <2>6, <3>1 DEF Texts, m
      <4>2. \A j \in 1..Len(y) : y[j] = u[j]
        BY <3>1, <3>2
      <4> QED
        BY <4>1, <4>2, SameSequence
    <3> QED
      BY <3>3 DEF y
  <2> QED
    BY <1>3, <2>9, <2>16, <2>17 DEF Leaves, u
<1> QED
  BY <1>5, <1>6

-------------------------------------------------------------------------------
(* The client's string *)

StringInv ==
  /\ HoldsText(string, CharsOf(string))
  /\ other # NoString => HoldsText(other, CharsOf(other))

\* An operation on the string alone has answered, and u is its text now.
Ends(answer, u) ==
  /\ HoldsText(string', u) /\ CharsOf(string)' = u /\ ret' = answer
  /\ other = NoString /\ other' = NoString

\* What is to be shown of every step.
Promised ==
  /\ StringInv'
  /\ AsText!One \/ AsText!Two
  /\ string.len' = Len(CharsOf(string)')

LEMMA EndsIs ==
  ASSUME NEW o, string' = o.s, ret' = o.ret, other = NoString, other' = NoString,
         NEW answer, NEW u, Leaves(o, answer, u)
  PROVE  Ends(answer, u)
<1>1. HoldsText(string', u) /\ ret' = answer
  BY DEF Leaves
<1>2. CharsOf(string') = u
  BY <1>1, CharsOfIs
<1> QED
  BY <1>1, <1>2 DEF Ends

LEMMA EndsHolds ==
  ASSUME NEW answer, NEW u, Ends(answer, u), AsText!One
  PROVE  Promised
<1>1. HoldsText(string', u) /\ CharsOf(string)' = u /\ other' = NoString
  BY DEF Ends
<1>2. StringInv'
  BY <1>1 DEF StringInv
<1>3. string'.len = Len(u)
  BY <1>1 DEF HoldsText
<1> QED
  BY <1>1, <1>2, <1>3 DEF Promised

\* TextSpec's ways to end.
LEMMA RefusalIs ==
  ASSUME NEW t, CharsOf(string) = t, NEW answer \in {Refused, RefusedNul}, Ends(answer, t)
  PROVE  AsText!Refusal
BY DEF AsText!Refusal, Ends, Refused, RefusedNul

LEMMA PutIs ==
  ASSUME NEW t, CharsOf(string) = t, NEW i, NEW piece \in Words \cup {<<ch>> : ch \in Letters},
         NUL \notin Range(piece), Ends(Done, Splice(t, i, 0, piece))
  PROVE  AsText!Put(i)
<1>1. AsText!Spliced(i, 0, piece) = Splice(t, i, 0, piece)
  BY DEF AsText!Spliced, Splice
<1>2. CharsOf(string)' = Splice(t, i, 0, piece) /\ ret' = 0
  BY DEF Ends, Done
<1>3. AsText!Range(piece) = Range(piece)
  BY DEF AsText!Range, Range
<1> QED
  BY <1>1, <1>2, <1>3 DEF AsText!Put, AsText!Given, AsText!OK, NUL

LEMMA TakesIs ==
  ASSUME NEW t, CharsOf(string) = t, NEW i, t # <<>>, Ends(t[i + 1], Splice(t, i, 1, <<>>))
  PROVE  AsText!Takes(i)
<1>1. AsText!Spliced(i, 1, <<>>) = Splice(t, i, 1, <<>>)
  BY DEF AsText!Spliced, Splice
<1>2. CharsOf(string)' = Splice(t, i, 1, <<>>) /\ ret' = t[i + 1]
  BY DEF Ends
<1> QED
  BY <1>1, <1>2 DEF AsText!Takes

\* One step of TextSpec, given what its call allows.
LEMMA OneIs ==
  ASSUME other = NoString, other' = NoString,
         \/ asked' = "new" /\ (AsText!Refusal \/ (AsText!OK /\ CharsOf(string)' \in Words))
         \/ asked' = "push" /\ (AsText!Refusal \/ AsText!Put(Len(CharsOf(string))))
         \/ asked' = "insert"
            /\ (AsText!Refusal \/ \E i \in 0..Len(CharsOf(string)) : AsText!Put(i))
         \/ asked' = "remove"
            /\ (AsText!Refusal \/ \E i \in 0..Len(CharsOf(string)) - 1 : AsText!Takes(i))
         \/ asked' = "pop" /\ IF CharsOf(string) = <<>> THEN AsText!Refusal
                              ELSE AsText!Takes(Len(CharsOf(string)) - 1)
         \/ asked' = "reserve" /\ ret' \in {0, -1} /\ UNCHANGED CharsOf(string)
         \/ asked' \in {"clear", "drop"} /\ AsText!OK /\ CharsOf(string)' = <<>>
         \/ asked' = "truncate"
            /\ (AsText!Refusal \/ \E n \in 0..Len(CharsOf(string)) :
                                    AsText!OK /\ CharsOf(string)' = SubSeq(CharsOf(string), 1, n))
         \/ asked' = "retain" /\ AsText!OK
            /\ \E keep \in SUBSET Letters : CharsOf(string)' = AsText!Kept(keep)
  PROVE  AsText!One
<1>1. UNCHANGED (IF other = NoString THEN NoString ELSE CharsOf(other))
  OBVIOUS
<1> QED
  BY <1>1 DEF AsText!One

\* What was given is letters.
LEMMA GivenIs ==
  /\ \A word \in Words : word \in Seq(Letters)
  /\ \A ch \in Letters : <<ch>> \in Seq(Letters) /\ (ch # NUL => NUL \notin Range(<<ch>>))
<1>1. \A word \in Words : word \in Seq(Letters)
  BY StringAssumption
<1>2. \A ch \in Letters : <<ch>> \in Seq(Letters)
  OBVIOUS
<1>3. ASSUME NEW ch, ch # NUL PROVE NUL \notin Range(<<ch>>)
  <2>1. \A k \in DOMAIN <<ch>> : <<ch>>[k] = ch
    OBVIOUS
  <2> QED
    BY <1>3, <2>1 DEF Range
<1> QED
  BY <1>1, <1>2, <1>3

LEMMA NewStep ==
  ASSUME NEW t, HoldsText(string, t), CharsOf(string) = t, New
  PROVE  Promised
<1>1. PICK word \in Words : Does("new", string_new_n(word)) /\ string = string_zero
  BY DEF New
<1>2. PICK o \in string_new_n(word) : string' = o.s /\ ret' = o.ret
  BY <1>1 DEF Does
<1>3. other = NoString /\ other' = NoString /\ asked' = "new"
  BY <1>1 DEF Does
<1>4. word \in Seq(Letters)
  BY GivenIs
<1>5. CASE o = [ret |-> Refused, s |-> string_zero]
  <2>1. Leaves(o, Refused, t)
    BY <1>1, <1>5 DEF Leaves
  <2>2. Ends(Refused, t)
    BY <1>2, <1>3, <2>1, EndsIs
  <2>3. AsText!Refusal
    BY <2>2, RefusalIs
  <2>4. AsText!One
    BY <1>3, <2>3, OneIs
  <2> QED
    BY <2>2, <2>4, EndsHolds
<1>6. CASE Leaves(o, Done, word)
  <2>1. Ends(Done, word)
    BY <1>2, <1>3, <1>6, EndsIs
  <2>2. AsText!OK /\ CharsOf(string)' \in Words
    BY <2>1 DEF Ends, AsText!OK, Done
  <2>3. AsText!One
    BY <1>3, <2>2, OneIs
  <2> QED
    BY <2>1, <2>3, EndsHolds
<1> QED
  BY <1>4, <1>5, <1>6, NewIs

LEMMA PushStep ==
  ASSUME NEW t, HoldsText(string, t), CharsOf(string) = t, Push
  PROVE  Promised
<1>1. other = NoString /\ other' = NoString /\ asked' = "push"
  BY DEF Push, Does
<1>2. \/ \E answer \in {Refused, RefusedNul} : Ends(answer, t)
      \/ \E piece \in Words \cup {<<ch>> : ch \in Letters} :
           NUL \notin Range(piece) /\ Ends(Done, Splice(t, Len(t), 0, piece))
  <2>1. ASSUME NEW piece \in Words \cup {<<ch>> : ch \in Letters},
               NEW o \in string_push_str_n(string, piece), string' = o.s, ret' = o.ret
        PROVE  \/ Ends(Refused, t)
               \/ NUL \notin Range(piece) /\ Ends(Done, Splice(t, Len(t), 0, piece))
    <3>1. piece \in Seq(Letters)
      BY GivenIs
    <3> QED
      BY <1>1, <2>1, <3>1, PushStrIs, EndsIs
  <2>2. CASE \E ch \in Letters : Does("push", string_push(string, ch))
    <3>1. PICK ch \in Letters : \E o \in string_push(string, ch) : string' = o.s /\ ret' = o.ret
      BY <2>2 DEF Does
    <3>2. PICK o \in string_push(string, ch) : string' = o.s /\ ret' = o.ret
      BY <3>1
    <3>3. CASE ch = NUL
      <4>1. o = [ret |-> RefusedNul, s |-> string]
        BY <3>3 DEF string_push
      <4>2. Leaves(o, RefusedNul, t)
        BY <4>1 DEF Leaves
      <4> QED
        BY <1>1, <3>2, <4>2, EndsIs
    <3>4. CASE ch # NUL
      <4>1. o \in string_push_str_n(string, <<ch>>)
        BY <3>4 DEF string_push
      <4> QED
        BY <2>1, <3>2, <4>1
    <3> QED
      BY <3>3, <3>4
  <2>3. CASE \E word \in Words : Does("push", string_push_str_n(string, word))
    <3>1. PICK word \in Words :
            \E o \in string_push_str_n(string, word) : string' = o.s /\ ret' = o.ret
      BY <2>3 DEF Does
    <3> QED
      BY <2>1, <3>1
  <2> QED
    BY <2>2, <2>3 DEF Push
<1>3. CASE \E answer \in {Refused, RefusedNul} : Ends(answer, t)
  <2>1. AsText!Refusal
    BY <1>3, RefusalIs
  <2>2. AsText!One
    BY <1>1, <2>1, OneIs
  <2> QED
    BY <1>3, <2>2, EndsHolds
<1>4. CASE \E piece \in Words \cup {<<ch>> : ch \in Letters} :
             NUL \notin Range(piece) /\ Ends(Done, Splice(t, Len(t), 0, piece))
  <2>1. AsText!Put(Len(t))
    BY <1>4, PutIs
  <2>2. AsText!Put(Len(CharsOf(string)))
    BY <2>1
  <2>3. AsText!One
    BY <1>1, <2>2, OneIs
  <2> QED
    BY <1>4, <2>3, EndsHolds
<1> QED
  BY <1>2, <1>3, <1>4

LEMMA InsertStep ==
  ASSUME NEW t, HoldsText(string, t), CharsOf(string) = t, InsertPiece
  PROVE  Promised
<1>1. other = NoString /\ other' = NoString /\ asked' = "insert"
  BY DEF InsertPiece, Does
<1>0. string.len = Len(t) /\ Len(t) \in Nat
  BY TextsAre DEF HoldsText
<1>2. PICK i \in 0..string.len + 1 :
        \/ \E ch \in Letters : Does("insert", string_insert(string, i, ch))
        \/ \E word \in Words : Does("insert", string_insert_str_n(string, i, word))
  BY DEF InsertPiece
<1>3. i \in Nat
  BY <1>0
<1>4. \/ \E answer \in {Refused, RefusedNul} : Ends(answer, t)
      \/ /\ i \in 0..Len(t)
         /\ \E piece \in Words \cup {<<ch>> : ch \in Letters} :
              NUL \notin Range(piece) /\ Ends(Done, Splice(t, i, 0, piece))
  <2>1. ASSUME NEW piece \in Words \cup {<<ch>> : ch \in Letters},
               NEW o \in string_insert_str_n(string, i, piece), string' = o.s, ret' = o.ret
        PROVE  \/ Ends(Refused, t)
               \/ /\ i \in 0..Len(t)
                  /\ NUL \notin Range(piece) /\ Ends(Done, Splice(t, i, 0, piece))
    <3>1. piece \in Seq(Letters)
      BY GivenIs
    <3> QED
      BY <1>1, <1>3, <2>1, <3>1, InsertStrIs, EndsIs
  <2>2. CASE \E ch \in Letters : Does("insert", string_insert(string, i, ch))
    <3>1. PICK ch \in Letters : \E o \in string_insert(string, i, ch) : string' = o.s /\ ret' = o.ret
      BY <2>2 DEF Does
    <3>2. PICK o \in string_insert(string, i, ch) : string' = o.s /\ ret' = o.ret
      BY <3>1
    <3>3. CASE i <= string.len /\ ch = NUL
      <4>1. o = [ret |-> RefusedNul, s |-> string]
        BY <3>3 DEF string_insert
      <4>2. Leaves(o, RefusedNul, t)
        BY <4>1 DEF Leaves
      <4> QED
        BY <1>1, <3>2, <4>2, EndsIs
    <3>4. CASE ~(i <= string.len /\ ch = NUL)
      <4>1. o \in string_insert_str_n(string, i, <<ch>>)
        BY <3>4 DEF string_insert
      <4> QED
        BY <2>1, <3>2, <4>1
    <3> QED
      BY <3>3, <3>4
  <2>3. CASE \E word \in Words : Does("insert", string_insert_str_n(string, i, word))
    <3>1. PICK word \in Words :
            \E o \in string_insert_str_n(string, i, word) : string' = o.s /\ ret' = o.ret
      BY <2>3 DEF Does
    <3> QED
      BY <2>1, <3>1
  <2> QED
    BY <1>2, <2>2, <2>3
<1>5. CASE \E answer \in {Refused, RefusedNul} : Ends(answer, t)
  <2>1. AsText!Refusal
    BY <1>5, RefusalIs
  <2>2. AsText!One
    BY <1>1, <2>1, OneIs
  <2> QED
    BY <1>5, <2>2, EndsHolds
<1>6. CASE /\ i \in 0..Len(t)
           /\ \E piece \in Words \cup {<<ch>> : ch \in Letters} :
                NUL \notin Range(piece) /\ Ends(Done, Splice(t, i, 0, piece))
  <2>1. AsText!Put(i)
    BY <1>6, PutIs
  <2>2. \E n \in 0..Len(CharsOf(string)) : AsText!Put(n)
    BY <1>6, <2>1
  <2>3. AsText!One
    BY <1>1, <2>2, OneIs
  <2> QED
    BY <1>6, <2>3, EndsHolds
<1> QED
  BY <1>4, <1>5, <1>6

LEMMA RemoveStep ==
  ASSUME NEW t, HoldsText(string, t), CharsOf(string) = t, RemoveOne
  PROVE  Promised
<1>1. other = NoString /\ other' = NoString /\ asked' = "remove"
  BY DEF RemoveOne, Does
<1>2. string.len = Len(t) /\ Len(t) \in Nat /\ (Len(t) # 0 => t # <<>>)
  BY TextsAre DEF HoldsText
<1>3. PICK i \in 0..string.len : \E o \in string_remove(string, i) : string' = o.s /\ ret' = o.ret
  BY DEF RemoveOne, Does
<1>4. i \in Nat
  BY <1>2
<1>5. \/ Ends(Refused, t)
      \/ i \in 0..Len(t) - 1 /\ Ends(t[i + 1], Splice(t, i, 1, <<>>))
  BY <1>1, <1>3, <1>4, RemoveIs, EndsIs
<1>6. CASE Ends(Refused, t)
  <2>1. AsText!Refusal
    BY <1>6, RefusalIs
  <2>2. AsText!One
    BY <1>1, <2>1, OneIs
  <2> QED
    BY <1>6, <2>2, EndsHolds
<1>7. CASE i \in 0..Len(t) - 1 /\ Ends(t[i + 1], Splice(t, i, 1, <<>>))
  <2>1. t # <<>>
    BY <1>2, <1>7
  <2>2. AsText!Takes(i)
    BY <1>7, <2>1, TakesIs
  <2>3. \E n \in 0..Len(CharsOf(string)) - 1 : AsText!Takes(n)
    BY <1>7, <2>2
  <2>4. AsText!One
    BY <1>1, <2>3, OneIs
  <2> QED
    BY <1>7, <2>4, EndsHolds
<1> QED
  BY <1>5, <1>6, <1>7

LEMMA PopStep ==
  ASSUME NEW t, HoldsText(string, t), CharsOf(string) = t, Pop
  PROVE  Promised
<1>1. other = NoString /\ other' = NoString /\ asked' = "pop"
  BY DEF Pop, Does
<1>2. \E o \in string_pop(string) : string' = o.s /\ ret' = o.ret
  BY DEF Pop, Does
<1>3. IF t = <<>> THEN Ends(Refused, t) ELSE Ends(t[Len(t)], Splice(t, Len(t) - 1, 1, <<>>))
  BY <1>1, <1>2, PopIs, EndsIs
<1>4. CASE t = <<>>
  <2>1. Ends(Refused, t)
    BY <1>3, <1>4
  <2>2. AsText!Refusal
    BY <2>1, RefusalIs
  <2>3. CharsOf(string) = <<>>
    BY <1>4
  <2>4. AsText!One
    BY <1>1, <2>2, <2>3, OneIs
  <2> QED
    BY <2>1, <2>4, EndsHolds
<1>5. CASE t # <<>>
  <2> DEFINE i == Len(t) - 1
  <2>1. i + 1 = Len(t)
    BY TextsAre DEF HoldsText
  <2>2. Ends(t[i + 1], Splice(t, i, 1, <<>>))
    BY <1>3, <1>5, <2>1
  <2>3. AsText!Takes(i)
    <3> HIDE DEF i
    <3> QED
      BY <1>5, <2>2, TakesIs
  <2>4. AsText!Takes(Len(CharsOf(string)) - 1) /\ CharsOf(string) # <<>>
    BY <1>5, <2>3
  <2>5. AsText!One
    BY <1>1, <2>4, OneIs
  <2> QED
    BY <2>2, <2>5, EndsHolds
<1> QED
  BY <1>4, <1>5

LEMMA ReserveStep ==
  ASSUME NEW t, HoldsText(string, t), CharsOf(string) = t, Reserve
  PROVE  Promised
<1>1. other = NoString /\ other' = NoString /\ asked' = "reserve"
  BY DEF Reserve, Does
<1>2. \E n \in 0..2 : \E o \in string_reserve(string, n) : string' = o.s /\ ret' = o.ret
  BY DEF Reserve, Does
<1>3. \E answer \in {Done, Refused} : Ends(answer, t)
  <2>1. \A n \in 0..2 : n \in Nat
    OBVIOUS
  <2> QED
    BY <1>1, <1>2, <2>1, ReserveIs, EndsIs
<1>4. ret' \in {0, -1} /\ UNCHANGED CharsOf(string)
  BY <1>3 DEF Ends, Done, Refused
<1>5. AsText!One
  BY <1>1, <1>4, OneIs
<1> QED
  BY <1>3, <1>5, EndsHolds

LEMMA EmptiedStep ==
  ASSUME NEW t, HoldsText(string, t), CharsOf(string) = t, Clear \/ Drop
  PROVE  Promised
<1>1. other = NoString /\ other' = NoString /\ asked' \in {"clear", "drop"}
  BY DEF Clear, Drop, Does
<1>2. Ends(Done, <<>>)
  <2>1. CASE Clear
    BY <1>1, <2>1, ClearIs, EndsIs DEF Clear, Does
  <2>2. CASE Drop
    <3> DEFINE o == [ret |-> Done, s |-> string_zero]
    <3>1. string' = o.s /\ ret' = o.ret
      BY <2>2 DEF Drop, Does
    <3>2. Leaves(o, Done, <<>>)
      BY ZeroHolds DEF Leaves
    <3> HIDE DEF o
    <3> QED
      BY <1>1, <3>1, <3>2, EndsIs
  <2> QED
    BY <2>1, <2>2
<1>3. AsText!OK /\ CharsOf(string)' = <<>>
  BY <1>2 DEF Ends, AsText!OK, Done
<1>4. AsText!One
  BY <1>1, <1>3, OneIs
<1> QED
  BY <1>2, <1>4, EndsHolds

LEMMA TruncateStep ==
  ASSUME NEW t, HoldsText(string, t), CharsOf(string) = t, Truncate
  PROVE  Promised
<1>1. other = NoString /\ other' = NoString /\ asked' = "truncate"
  BY DEF Truncate, Does
<1>2. string.len = Len(t) /\ Len(t) \in Nat
  BY TextsAre DEF HoldsText
<1>3. PICK n \in 0..string.len + 1 :
        \E o \in string_truncate(string, n) : string' = o.s /\ ret' = o.ret
  BY DEF Truncate, Does
<1>4. n \in Nat
  BY <1>2
<1>5. Ends(Refused, t) \/ (n \in 0..Len(t) /\ Ends(Done, SubSeq(t, 1, n)))
  BY <1>1, <1>3, <1>4, TruncateIs, EndsIs
<1>6. CASE Ends(Refused, t)
  <2>1. AsText!Refusal
    BY <1>6, RefusalIs
  <2>2. AsText!One
    BY <1>1, <2>1, OneIs
  <2> QED
    BY <1>6, <2>2, EndsHolds
<1>7. CASE n \in 0..Len(t) /\ Ends(Done, SubSeq(t, 1, n))
  <2>1. AsText!OK /\ CharsOf(string)' = SubSeq(CharsOf(string), 1, n)
    BY <1>7 DEF Ends, AsText!OK, Done
  <2>2. \E k \in 0..Len(CharsOf(string)) :
          AsText!OK /\ CharsOf(string)' = SubSeq(CharsOf(string), 1, k)
    BY <1>7, <2>1
  <2>3. AsText!One
    BY <1>1, <2>2, OneIs
  <2> QED
    BY <1>7, <2>3, EndsHolds
<1> QED
  BY <1>5, <1>6, <1>7

LEMMA RetainStep ==
  ASSUME NEW t, HoldsText(string, t), CharsOf(string) = t, Retain
  PROVE  Promised
<1>1. other = NoString /\ other' = NoString /\ asked' = "retain"
  BY DEF Retain, Does
<1>2. PICK keep \in SUBSET (Letters \ {NUL}) :
        \E o \in string_retain(string, keep) : string' = o.s /\ ret' = o.ret
  BY DEF Retain, Does
<1>3. Ends(Done, KeptOf(t, keep))
  BY <1>1, <1>2, RetainIs, EndsIs
<1>4. AsText!Kept(keep) = KeptOf(CharsOf(string), keep)
  BY Zenon DEF AsText!Kept, KeptOf, Keeping
<1>5. AsText!OK /\ CharsOf(string)' = AsText!Kept(keep) /\ keep \in SUBSET Letters
  BY <1>3, <1>4 DEF Ends, AsText!OK, Done
<1>6. AsText!One
  BY <1>1, <1>5, OneIs
<1> QED
  BY <1>3, <1>6, EndsHolds

\* The bytes from a place to the end are the rest of the text.
RestOf(s, at) == [k \in 1..s.len - at |-> string_as_ptr(s)[at + k - 1]]

LEMMA RestIs ==
  ASSUME NEW s, NEW t, HoldsText(s, t), NEW at \in 0..Len(t)
  PROVE  RestOf(s, at) \in Texts /\ t = SubSeq(t, 1, at) \o RestOf(s, at)
<1> DEFINE data == string_as_ptr(s)
           rest == RestOf(s, at)
           n == Len(t)
           m == n - at
           L == Letters \ {NUL}
           u == SubSeq(t, 1, at)
<1>1. t \in Texts /\ n \in Nat /\ s.len = n /\ Reads(data, 0, t)
  BY PointerReads DEF HoldsText
<1>2. \A k \in 0..n - 1 : data[k] = t[k + 1]
  BY <1>1, ReadsHere
<1>3. m \in Nat /\ rest = [k \in 1..m |-> data[at + k - 1]]
  BY <1>1 DEF RestOf
<1> HIDE DEF data
<1>4. t \in Seq(L) /\ \A j \in 1..n : t[j] \in L
  BY <1>1 DEF Texts
<1>5. u \in Seq(L) /\ Len(u) = at /\ \A j \in 1..at : u[j] = t[j]
  BY <1>1, PrefixIs DEF Texts
<1> HIDE DEF n, m, L, u, rest
<1>6. ASSUME NEW k \in 1..m PROVE rest[k] = t[at + k] /\ rest[k] \in L
  <2>1. at + k - 1 \in 0..n - 1 /\ (at + k - 1) + 1 = at + k /\ at + k \in 1..n
    BY <1>1 DEF m, n
  <2> QED
    BY <1>2, <1>3, <1>4, <2>1
<1>7. rest \in [1..m -> L]
  BY <1>3, <1>6
<1>8. rest \in Seq(L) /\ Len(rest) = m
  BY <1>3, <1>7, MadeSequence
<1> DEFINE x == u \o rest
<1>9. /\ x \in Seq(L) /\ Len(x) = n
      /\ \A j \in 1..n : x[j] = IF j <= at THEN u[j] ELSE rest[j - at]
  <2>1. Len(u) + Len(rest) = n
    BY <1>1, <1>5, <1>8 DEF m, n
  <2>2. u \in Seq(L) /\ rest \in Seq(L)
    BY <1>5, <1>8
  <2>3. /\ x \in Seq(L) /\ Len(x) = Len(u) + Len(rest)
        /\ \A j \in 1..Len(u) + Len(rest) : x[j] = IF j <= Len(u) THEN u[j] ELSE rest[j - Len(u)]
    BY <2>2, ConcatProperties
  <2> HIDE DEF x
  <2> QED
    BY <1>5, <2>1, <2>3
<1> HIDE DEF x
<1>10. \A j \in 1..n : x[j] = t[j]
  <2> SUFFICES ASSUME NEW j \in 1..n PROVE x[j] = t[j]
    OBVIOUS
  <2>1. CASE j <= at
    <3>1. j \in 1..at
      BY <2>1 DEF n
    <3> QED
      BY <1>5, <1>9, <2>1, <3>1
  <2>2. CASE ~(j <= at)
    <3>1. j - at \in 1..m /\ at + (j - at) = j
      BY <1>1, <2>2 DEF m, n
    <3>2. x[j] = rest[j - at]
      BY <1>9, <2>2
    <3> QED
      BY <1>6, <3>1, <3>2
  <2> QED
    BY <2>1, <2>2
<1>11. x = t
  BY <1>4, <1>9, <1>10, SameSequence DEF n
<1> QED
  BY <1>8, <1>11 DEF x, u, rest, data, L, Texts

\* Two strings.
LEMMA SplitStep ==
  ASSUME NEW t, HoldsText(string, t), CharsOf(string) = t, SplitOff
  PROVE  Promised
<1>1. t \in Texts /\ string.len = Len(t) /\ Len(t) \in Nat
  BY TextsAre DEF HoldsText
<1>2. other = NoString /\ asked' = "split"
  BY DEF SplitOff
<1>3. PICK at \in 0..string.len :
        \E r \in string_new_n(RestOf(string, at)) :
          /\ ret' = r.ret
          /\ IF r.ret = Done
             THEN other' = r.s /\ \E o \in string_truncate(string, at) : string' = o.s
             ELSE UNCHANGED <<string, other>>
  BY DEF SplitOff, RestOf
<1>4. RestOf(string, at) \in Texts /\ t = SubSeq(t, 1, at) \o RestOf(string, at)
  BY <1>1, RestIs
<1> DEFINE rest == RestOf(string, at)
<1>5. PICK r \in string_new_n(rest) :
        /\ ret' = r.ret
        /\ IF r.ret = Done
           THEN other' = r.s /\ \E o \in string_truncate(string, at) : string' = o.s
           ELSE UNCHANGED <<string, other>>
  BY <1>3
<1>6. rest \in Texts /\ t = SubSeq(t, 1, at) \o rest
  BY <1>4
<1> HIDE DEF rest
<1>7. CASE r = [ret |-> Refused, s |-> string_zero]
  <2>1. ret' = -1 /\ string' = string /\ other' = other
    BY <1>5, <1>7 DEF Refused, Done
  <2>2. CharsOf(string)' = t
    BY <2>1
  <2>3. AsText!Refusal
    BY <2>1, <2>2 DEF AsText!Refusal
  <2>4. UNCHANGED (IF other = NoString THEN NoString ELSE CharsOf(other))
    BY <2>1
  <2>5. AsText!Two
    BY <1>2, <2>3, <2>4 DEF AsText!Two
  <2> QED
    BY <1>1, <1>2, <2>1, <2>2, <2>5 DEF Promised, StringInv
<1>8. CASE Leaves(r, Done, rest)
  <2>1. ret' = 0 /\ r.ret = Done /\ HoldsText(r.s, rest)
    BY <1>5, <1>8 DEF Leaves, Done
  <2>2. other' = r.s /\ \E o \in string_truncate(string, at) : string' = o.s
    BY <1>5, <2>1
  <2>3. PICK o \in string_truncate(string, at) : string' = o.s
    BY <2>2
  <2> DEFINE u == SubSeq(t, 1, at)
  <2>4. HoldsText(string', u)
    <3>1. at \in Nat /\ ~(at > Len(t))
      BY <1>1
    <3> QED
      BY <2>3, <3>1, TruncateIs DEF Leaves
  <2>5. HoldsText(other', rest)
    BY <2>1, <2>2
  <2> HIDE DEF u
  <2>6. /\ CharsOf(string') = u /\ string'.len = Len(u)
        /\ other' # NoString /\ CharsOf(other') = rest
    BY <2>4, <2>5, CharsOfIs, IsAString DEF HoldsText
  <2>7. AsText!OK
    BY <2>1 DEF AsText!OK
  <2>8. CharsOf(string) = CharsOf(string)' \o (IF other = NoString THEN NoString ELSE CharsOf(other))'
    BY <1>6, <2>6 DEF u
  <2>9. AsText!Two
    BY <1>2, <2>7, <2>8 DEF AsText!Two
  <2> QED
    BY <2>4, <2>5, <2>6, <2>9 DEF Promised, StringInv
<1>9. rest \in Seq(Letters)
  BY <1>6, TextsAre
<1> QED
  BY <1>7, <1>8, <1>9, NewIs

LEMMA CloneStep ==
  ASSUME NEW t, HoldsText(string, t), CharsOf(string) = t, Clone
  PROVE  Promised
<1> DEFINE copy == [k \in 1..string.len |-> string_as_ptr(string)[k - 1]]
<1>1. t \in Texts /\ string.len = Len(t) /\ Len(t) \in Nat /\ t \in Seq(Letters)
  BY TextsAre DEF HoldsText
<1>2. other = NoString /\ asked' = "clone" /\ string' = string
  BY DEF Clone
<1>3. copy = t
  <2>1. Reads(string_as_ptr(string), 0, t)
    BY PointerReads
  <2>2. \A k \in 0..Len(t) - 1 : string_as_ptr(string)[k] = t[k + 1]
    BY <2>1, ReadsHere
  <2>3. \A k \in 1..Len(t) : copy[k] = t[k]
    <3>1. \A k \in 1..Len(t) : k - 1 \in 0..Len(t) - 1 /\ (k - 1) + 1 = k
      BY <1>1
    <3> QED
      BY <1>1, <2>2, <3>1
  <2>4. copy \in [1..Len(t) -> Letters]
    <3>1. \A k \in 1..Len(t) : t[k] \in Letters
      BY <1>1
    <3>2. copy = [k \in 1..Len(t) |-> copy[k]]
      BY <1>1
    <3> HIDE DEF copy
    <3> QED
      BY <2>3, <3>1, <3>2
  <2> HIDE DEF copy
  <2>5. copy \in Seq(Letters) /\ Len(copy) = Len(t)
    BY <1>1, <2>4, MadeSequence
  <2> QED
    BY <1>1, <2>3, <2>5, SameSequence
<1>4. PICK r \in string_new_n(copy) :
        \/ r.ret = Done /\ ret' = Done /\ other' = r.s
        \/ ret' = Refused /\ UNCHANGED other
  BY DEF Clone
<1> HIDE DEF copy
<1>5. r \in string_new_n(t)
  BY <1>3, <1>4
<1>6. CharsOf(string)' = t
  BY <1>2
<1>7. CASE ret' = Refused /\ UNCHANGED other
  <2>1. AsText!Refusal
    BY <1>6, <1>7 DEF AsText!Refusal, Refused
  <2>2. UNCHANGED (IF other = NoString THEN NoString ELSE CharsOf(other))
    BY <1>7
  <2>3. AsText!Two
    BY <1>2, <2>1, <2>2 DEF AsText!Two
  <2> QED
    BY <1>1, <1>2, <1>6, <1>7, <2>3 DEF Promised, StringInv
<1>8. CASE r.ret = Done /\ ret' = Done /\ other' = r.s
  <2>1. r # [ret |-> Refused, s |-> string_zero]
    BY <1>8 DEF Done, Refused
  <2>2. HoldsText(other', t)
    BY <1>1, <1>5, <1>8, <2>1, NewIs DEF Leaves
  <2>3. other' # NoString /\ CharsOf(other') = t
    BY <2>2, IsAString, CharsOfIs
  <2>4. AsText!OK
    BY <1>8 DEF AsText!OK, Done
  <2>5. /\ (IF other = NoString THEN NoString ELSE CharsOf(other))' = CharsOf(string)
        /\ UNCHANGED CharsOf(string)
    BY <1>6, <2>3
  <2>6. AsText!Two
    BY <1>2, <2>4, <2>5 DEF AsText!Two
  <2> QED
    BY <1>1, <1>2, <1>6, <2>2, <2>3, <2>6 DEF Promised, StringInv
<1> QED
  BY <1>4, <1>7, <1>8

LEMMA KeepStep ==
  ASSUME StringInv, KeepOne
  PROVE  Promised
<1>1. /\ other # NoString /\ other' = NoString /\ string' \in {string, other}
      /\ asked' = "keep" /\ ret' = 0
  BY DEF KeepOne, Done
<1>2. HoldsText(string, CharsOf(string)) /\ HoldsText(other, CharsOf(other))
  BY <1>1 DEF StringInv
<1>3. HoldsText(string', CharsOf(string'))
  BY <1>1, <1>2
<1>4. string'.len = Len(CharsOf(string'))
  BY <1>3 DEF HoldsText
<1>5. /\ (IF other = NoString THEN NoString ELSE CharsOf(other))' = NoString
      /\ CharsOf(string)' \in {CharsOf(string), IF other = NoString THEN NoString ELSE CharsOf(other)}
  BY <1>1
<1>6. AsText!Two
  BY <1>1, <1>5 DEF AsText!Two, AsText!OK
<1> QED
  BY <1>1, <1>3, <1>4, <1>6 DEF Promised, StringInv

LEMMA StringSteps == StringInv /\ StringNext => Promised
<1> SUFFICES ASSUME StringInv, StringNext PROVE Promised
  OBVIOUS
<1>1. PICK t : HoldsText(string, t) /\ CharsOf(string) = t
  BY DEF StringInv
<1> QED
  BY <1>1, NewStep, PushStep, InsertStep, RemoveStep, PopStep, ReserveStep, EmptiedStep,
     TruncateStep, RetainStep, SplitStep, CloneStep, KeepStep DEF StringNext

\* The buffer of the string always holds its text and the NUL behind it, with
\* no NUL before it, and string_len says how long it is.
LEMMA StringInvHolds == StringSpec => []StringInv
<1>1. StringInit => StringInv
  <2> SUFFICES ASSUME StringInit PROVE StringInv
    OBVIOUS
  <2>1. HoldsText(string, <<>>) /\ other = NoString
    BY ZeroHolds DEF StringInit
  <2>2. CharsOf(string) = <<>>
    BY <2>1, CharsOfIs
  <2> QED
    BY <2>1, <2>2 DEF StringInv
<1>2. StringInv /\ [StringNext]_stringVars => StringInv'
  <2>1. StringInv /\ StringNext => StringInv'
    BY StringSteps DEF Promised
  <2>2. StringInv /\ UNCHANGED stringVars => StringInv'
    BY DEF StringInv, stringVars
  <2> QED
    BY <2>1, <2>2
<1> QED
  BY <1>1, <1>2, PTL DEF StringSpec

\* Whatever is called, in any order, and whichever allocations are refused, what C
\* reads at string_as_ptr and what string_len counts are one text, which each call
\* changes as its name says or, refused, not at all.
THEOREM StringKeepsText == StringSpec => KeepsText
<1> DEFINE view == <<CharsOf(string), string.len,
                     IF other = NoString THEN NoString ELSE CharsOf(other), asked, ret>>
           Kept == (AsText!One \/ AsText!Two) /\ string.len' = Len(CharsOf(string)')
           Start == /\ CharsOf(string) = <<>> /\ string.len = 0
                    /\ (IF other = NoString THEN NoString ELSE CharsOf(other)) = NoString
<1>1. StringInit => Start
  <2> SUFFICES ASSUME StringInit PROVE Start
    OBVIOUS
  <2>1. HoldsText(string, <<>>) /\ other = NoString /\ string.len = 0
    BY ZeroHolds DEF StringInit, string_zero
  <2> QED
    BY <2>1, CharsOfIs
<1>2. StringInv /\ [StringNext]_stringVars => [Kept]_view
  <2>1. StringInv /\ StringNext => Kept
    BY StringSteps DEF Promised
  <2>2. UNCHANGED stringVars => UNCHANGED view
    BY DEF stringVars
  <2> QED
    BY <2>1, <2>2
<1>3. StringSpec => Start /\ [][Kept]_view
  BY StringInvHolds, <1>1, <1>2, PTL DEF StringSpec
<1> QED
  BY <1>3 DEF KeepsText, AsText!Text
-------------------------------------------------------------------------------
(* What is printed *)

\* A loop of m turns computes something: s[k] is what its k-th turn does.
LoopOf(f, m, S, a, s) ==
  /\ f \in [0..m -> S]
  /\ \A k \in 0..m : f[k] = IF k = 0 THEN a ELSE s[k][f[k - 1]]

LEMMA LoopIsDefined ==
  ASSUME NEW m \in Nat, NEW S, NEW a \in S, NEW s \in [1..m -> [S -> S]]
  PROVE  \E f : LoopOf(f, m, S, a, s)
<1> DEFINE D(n) == \E f : LoopOf(f, n, S, a, s)
           Wrong == {n \in 0..m : ~D(n)}
<1>1. SUFFICES ASSUME Wrong # {} PROVE FALSE
  OBVIOUS
<1>2. PICK n \in Wrong : \A j \in Wrong : n <= j
  <2>1. Wrong \subseteq Nat
    OBVIOUS
  <2> HIDE DEF Wrong
  <2> QED
    BY <1>1, <2>1, LeastNumber
<1>3. n \in 0..m /\ ~D(n)
  BY <1>2
<1>4. n # 0
  <2> DEFINE f == [k \in 0..0 |-> a]
  <2>1. f \in [0..0 -> S] /\ \A k \in 0..0 : k = 0 /\ f[k] = a
    OBVIOUS
  <2> HIDE DEF f
  <2>2. D(0)
    BY <2>1 DEF LoopOf
  <2> QED
    BY <1>3, <2>2
<1>5. n - 1 \in 0..m /\ D(n - 1)
  <2>1. n - 1 \in 0..m /\ n - 1 < n
    BY <1>3, <1>4
  <2>2. n - 1 \notin Wrong
    <3> HIDE DEF Wrong
    <3> QED
      BY <1>2, <1>3, <2>1
  <2> QED
    BY <2>1, <2>2
<1>6. PICK f \in [0..n - 1 -> S] :
        \A k \in 0..n - 1 : f[k] = IF k = 0 THEN a ELSE s[k][f[k - 1]]
  BY <1>5 DEF LoopOf
<1> DEFINE last == s[n][f[n - 1]]
           g == [k \in 0..n |-> IF k < n THEN f[k] ELSE last]
<1>7. last \in S
  <2>1. n - 1 \in 0..n - 1 /\ n \in 1..m
    BY <1>3, <1>4
  <2>2. f[n - 1] \in S /\ s[n] \in [S -> S]
    BY <1>6, <2>1
  <2> QED
    BY <2>2
<1>8. g \in [0..n -> S] /\ \A k \in 0..n : g[k] = IF k < n THEN f[k] ELSE last
  <2>1. \A k \in 0..n : k < n => k \in 0..n - 1
    BY <1>3
  <2> HIDE DEF last
  <2> QED
    BY <1>7, <2>1
<1>9. \A k \in 0..n : g[k] = IF k = 0 THEN a ELSE s[k][g[k - 1]]
  <2> TAKE k \in 0..n
  <2> HIDE DEF g
  <2>1. CASE k < n
    <3>1. k \in 0..n - 1 /\ (k # 0 => k - 1 \in 0..n - 1 /\ k - 1 \in 0..n /\ k - 1 < n)
      BY <1>3, <2>1
    <3>2. g[k] = f[k] /\ (k # 0 => g[k - 1] = f[k - 1])
      BY <1>8, <2>1, <3>1
    <3> QED
      BY <1>6, <3>1, <3>2
  <2>2. CASE ~(k < n)
    <3>1. k = n /\ k - 1 \in 0..n /\ k - 1 < n
      BY <1>3, <1>4, <2>2
    <3>2. g[k] = last /\ g[k - 1] = f[k - 1]
      BY <1>8, <2>2, <3>1
    <3> QED
      BY <1>4, <3>1, <3>2
  <2> QED
    BY <2>1, <2>2
<1>10. D(n)
  <2> HIDE DEF g
  <2> QED
    BY <1>8, <1>9 DEF LoopOf
<1> QED
  BY <1>3, <1>10

Outs == [cap : Nat, len : Nat, buf : Seq(Nat)]

\* What is left of o when the text was written to it.
WriteOf(w, o, text) ==
  /\ w \in Outs /\ w.cap = o.cap /\ w.len = o.len + Len(text)
  /\ o.cap = 0 => w.buf = o.buf \o text
  /\ o.cap # 0 =>
       /\ Len(w.buf) = Len(o.buf)
       /\ \A i \in 1..Len(o.buf) :
            w.buf[i] = IF o.len < i /\ i <= o.len + Len(text) /\ i < o.cap
                       THEN text[i - o.len] ELSE o.buf[i]

LEMMA EmitIs ==
  ASSUME NEW o \in Outs, NEW ch \in Nat
  PROVE  WriteOf(out_emit(o, ch), o, <<ch>>)
<1> DEFINE w == out_emit(o, ch)
           b == IF o.cap = 0 THEN Append(o.buf, ch)
                ELSE IF o.len + 1 < o.cap THEN [o.buf EXCEPT ![o.len + 1] = ch]
                ELSE o.buf
<1>1. w = [cap |-> o.cap, len |-> o.len + 1, buf |-> b]
  BY DEF out_emit
<1>2. o.cap \in Nat /\ o.len \in Nat /\ o.buf \in Seq(Nat)
  BY DEF Outs
<1>3. Len(<<ch>>) = 1 /\ <<ch>>[1] = ch
  OBVIOUS
<1>4. CASE o.cap = 0
  <2>1. b = Append(o.buf, ch) /\ Append(o.buf, ch) \in Seq(Nat)
    BY <1>2, <1>4
  <2>2. Append(o.buf, ch) = o.buf \o <<ch>>
    BY <1>2
  <2> HIDE DEF b, w
  <2> QED
    BY <1>1, <1>2, <1>3, <1>4, <2>1, <2>2 DEF WriteOf, Outs, w
<1>5. CASE o.cap # 0 /\ o.len + 1 < o.cap
  <2> DEFINE e == [o.buf EXCEPT ![o.len + 1] = ch]
  <2> DEFINE n == Len(o.buf)
  <2>0. n \in Nat /\ DOMAIN o.buf = 1..n /\ \A i \in 1..n : o.buf[i] \in Nat
    BY <1>2
  <2>1. e \in [1..n -> Nat] /\ \A i \in 1..n : e[i] = IF i = o.len + 1 THEN ch ELSE o.buf[i]
    <3> HIDE DEF n
    <3> QED
      BY <2>0
  <2>2. e \in Seq(Nat) /\ Len(e) = n
    <3> HIDE DEF n, e
    <3> QED
      BY <2>0, <2>1, MadeSequence
  <2>3. b = e
    BY <1>5
  <2> HIDE DEF b, e
  <2>4. \A i \in 1..Len(o.buf) :
          e[i] = IF o.len < i /\ i <= o.len + 1 /\ i < o.cap THEN <<ch>>[i - o.len] ELSE o.buf[i]
    <3> TAKE i \in 1..Len(o.buf)
    <3>1. CASE i = o.len + 1
      BY <1>2, <1>3, <1>5, <2>1, <3>1
    <3>2. CASE i # o.len + 1
      <4>1. ~(o.len < i /\ i <= o.len + 1)
        BY <1>2, <3>2
      <4> QED
        BY <2>1, <3>2, <4>1
    <3> QED
      BY <3>1, <3>2
  <2> HIDE DEF w
  <2> QED
    BY <1>1, <1>2, <1>3, <1>5, <2>2, <2>3, <2>4 DEF WriteOf, Outs, w
<1>6. CASE o.cap # 0 /\ ~(o.len + 1 < o.cap)
  <2>1. b = o.buf
    BY <1>6
  <2> HIDE DEF b
  <2>2. \A i \in 1..Len(o.buf) : ~(o.len < i /\ i <= o.len + 1 /\ i < o.cap)
    BY <1>2, <1>6
  <2> HIDE DEF w
  <2> QED
    BY <1>1, <1>2, <1>3, <1>6, <2>1, <2>2 DEF WriteOf, Outs, w
<1> QED
  BY <1>4, <1>5, <1>6

LEMMA ConcatAppend ==
  ASSUME NEW a \in Seq(Nat), NEW b \in Seq(Nat), NEW c \in Nat
  PROVE  (a \o b) \o <<c>> = a \o Append(b, c)
<1>1. Append(b, c) = b \o <<c>> /\ <<c>> \in Seq(Nat)
  OBVIOUS
<1> QED
  BY <1>1, ConcatAssociative

LEMMA WriteMore ==
  ASSUME NEW o \in Outs, NEW text \in Seq(Nat), NEW ch \in Nat, NEW w, WriteOf(w, o, text)
  PROVE  WriteOf(out_emit(w, ch), o, Append(text, ch))
<1> DEFINE x == out_emit(w, ch)
           more == Append(text, ch)
<1> SUFFICES WriteOf(x, o, more)
  OBVIOUS
<1>1. w \in Outs /\ WriteOf(x, w, <<ch>>)
  BY EmitIs DEF WriteOf
<1> HIDE DEF x
<1>2. /\ o.cap \in Nat /\ o.len \in Nat /\ o.buf \in Seq(Nat)
      /\ w.cap = o.cap /\ w.len = o.len + Len(text) /\ w.buf \in Seq(Nat)
      /\ x.cap = w.cap /\ x.len = w.len + 1 /\ w.len \in Nat /\ x.len \in Nat
  <2>1. Len(<<ch>>) = 1
    OBVIOUS
  <2> QED
    BY <1>1, <2>1 DEF WriteOf, Outs
<1>3. more[Len(text) + 1] = ch /\ \A i \in 1..Len(text) : more[i] = text[i]
  OBVIOUS
<1>6. more \in Seq(Nat) /\ Len(text) \in Nat /\ Len(more) = Len(text) + 1
  OBVIOUS
<1>4. CASE o.cap = 0
  <2>1. w.buf = o.buf \o text /\ x.buf = w.buf \o <<ch>>
    BY <1>1, <1>2, <1>4 DEF WriteOf
  <2>2. (o.buf \o text) \o <<ch>> = o.buf \o more
    BY <1>2, ConcatAppend
  <2> HIDE DEF more
  <2>3. x \in Outs /\ x.cap = o.cap /\ x.len = o.len + Len(more)
    <3>1. x \in Outs
      BY <1>1 DEF WriteOf
    <3> QED
      BY <1>2, <1>6, <3>1
  <2>4. x.buf = o.buf \o more
    BY <2>1, <2>2
  <2> QED
    BY <1>4, <2>3, <2>4 DEF WriteOf
<1>5. CASE o.cap # 0
  <2> DEFINE n == Len(o.buf)
  <2>1. /\ Len(w.buf) = n /\ Len(x.buf) = n
        /\ \A i \in 1..n :
             w.buf[i] = IF o.len < i /\ i <= o.len + Len(text) /\ i < o.cap
                        THEN text[i - o.len] ELSE o.buf[i]
        /\ \A i \in 1..n :
             x.buf[i] = IF w.len < i /\ i <= w.len + 1 /\ i < w.cap
                        THEN <<ch>>[i - w.len] ELSE w.buf[i]
    <3>1. Len(<<ch>>) = 1
      OBVIOUS
    <3> QED
      BY <1>1, <1>2, <1>5, <3>1 DEF WriteOf
  <2> HIDE DEF more
  <2>2. n \in Nat
    BY <1>2
  <2> HIDE DEF n
  <2>3. ASSUME NEW i \in 1..n
        PROVE  x.buf[i] = IF o.len < i /\ i <= o.len + Len(more) /\ i < o.cap
                          THEN more[i - o.len] ELSE o.buf[i]
    <3>1. CASE i = w.len + 1 /\ i < o.cap
      <4>1. w.len < i /\ i <= w.len + 1 /\ i - w.len = 1 /\ i < w.cap
        BY <1>2, <2>2, <3>1
      <4>2. x.buf[i] = <<ch>>[1]
        BY <2>1, <4>1
      <4>3. i - o.len = Len(text) + 1 /\ o.len < i /\ i <= o.len + Len(more)
        BY <1>2, <1>6, <3>1
      <4> QED
        BY <1>3, <3>1, <4>2, <4>3
    <3>2. CASE ~(i = w.len + 1 /\ i < o.cap)
      <4>1. ~(w.len < i /\ i <= w.len + 1 /\ i < w.cap)
        BY <1>2, <1>3, <1>6, <2>2, <3>2
      <4>2. x.buf[i] = w.buf[i]
        BY <2>1, <4>1
      <4>3. CASE o.len < i /\ i <= o.len + Len(text) /\ i < o.cap
        <5>0. o.len \in Nat /\ Len(text) \in Nat /\ Len(more) = Len(text) + 1 /\ i \in Int
          BY <1>2, <1>6, <2>2
        <5>1. i - o.len \in 1..Len(text) /\ i <= o.len + Len(more)
          BY <4>3, <5>0
        <5>2. w.buf[i] = text[i - o.len]
          BY <2>1, <4>3
        <5> QED
          BY <1>3, <4>2, <4>3, <5>1, <5>2
      <4>4. CASE ~(o.len < i /\ i <= o.len + Len(text) /\ i < o.cap)
        <5>1. ~(o.len < i /\ i <= o.len + Len(more) /\ i < o.cap)
          BY <1>2, <1>6, <2>2, <3>2, <4>4
        <5>2. w.buf[i] = o.buf[i]
          BY <2>1, <4>4
        <5> QED
          BY <4>2, <5>1, <5>2
      <4> QED
        BY <4>3, <4>4
    <3> QED
      BY <3>1, <3>2
  <2>4. x \in Outs /\ x.cap = o.cap /\ x.len = o.len + Len(more)
    <3>1. x \in Outs
      BY <1>1 DEF WriteOf
    <3> QED
      BY <1>2, <1>6, <3>1
  <2>5. Len(x.buf) = n
    BY <2>1
  <2> QED
    BY <1>5, <2>3, <2>4, <2>5 DEF WriteOf, n
<1> QED
  BY <1>4, <1>5

\* out_write is out_emit of every character.
Emitting(o, text, f, k) == IF k = 0 THEN o ELSE out_emit(f[k - 1], text[k])

LEMMA WritingIsDefined ==
  ASSUME NEW o \in Outs, NEW text \in Seq(Nat)
  PROVE  \E f : f = [k \in 0..Len(text) |-> Emitting(o, text, f, k)]
<1> DEFINE m == Len(text)
           s == [k \in 1..m |-> [x \in Outs |-> out_emit(x, text[k])]]
<1>1. m \in Nat
  OBVIOUS
<1>2. \A k \in 1..m : \A x \in Outs : out_emit(x, text[k]) \in Outs
  <2> TAKE k \in 1..m
  <2> TAKE x \in Outs
  <2>1. text[k] \in Nat
    OBVIOUS
  <2>2. WriteOf(out_emit(x, text[k]), x, <<text[k]>>)
    BY <2>1, EmitIs
  <2> QED
    BY <2>2, Zenon DEF WriteOf
<1>0. s \in [1..m -> [Outs -> Outs]]
  BY <1>2
<1>3. \A k \in 1..m : \A x \in Outs : s[k][x] = out_emit(x, text[k])
  BY <1>2
<1> HIDE DEF s, m
<1>4. PICK f : LoopOf(f, m, Outs, o, s)
  <2>1. o \in Outs
    OBVIOUS
  <2> HIDE DEF m, s
  <2> QED
    BY <1>0, <1>1, <2>1, LoopIsDefined, Zenon
<1>5. \A k \in 0..m : f[k] = Emitting(o, text, f, k)
  <2> TAKE k \in 0..m
  <2>1. k # 0 => k \in 1..m /\ k - 1 \in 0..m
    BY <1>1
  <2>2. k # 0 => s[k][f[k - 1]] = out_emit(f[k - 1], text[k])
    <3>1. k # 0 => f[k - 1] \in Outs
      BY <1>4, <2>1 DEF LoopOf
    <3> QED
      BY <1>3, <2>1, <3>1
  <2> QED
    BY <1>4, <2>2 DEF Emitting, LoopOf
<1>6. f = [k \in 0..m |-> f[k]]
  BY <1>4 DEF LoopOf
<1>7. f = [k \in 0..m |-> Emitting(o, text, f, k)]
  BY <1>5, <1>6
<1> QED
  BY <1>7 DEF m

LEMMA WriteIs ==
  ASSUME NEW o \in Outs, NEW text \in Seq(Nat)
  PROVE  WriteOf(out_write(o, text), o, text)
<1> DEFINE m == Len(text)
           f == CHOOSE f : f = [k \in 0..m |-> Emitting(o, text, f, k)]
           u(k) == SubSeq(text, 1, k)
           Wrong == {k \in 0..m : ~WriteOf(f[k], o, u(k))}
<1>1. out_write(o, text) = f[m]
  BY Zenon DEF out_write, Emitting
<1>2. f = [k \in 0..m |-> Emitting(o, text, f, k)]
  BY WritingIsDefined
<1>3. m \in Nat /\ u(m) = text
  OBVIOUS
<1> HIDE DEF f
<1>4. \A k \in 0..m : f[k] = Emitting(o, text, f, k)
  BY <1>2
<1>5. ASSUME Wrong # {} PROVE FALSE
  <2>1. PICK k \in Wrong : \A j \in Wrong : k <= j
    <3>1. Wrong \subseteq Nat
      OBVIOUS
    <3> HIDE DEF Wrong
    <3> QED
      BY <1>5, <3>1, LeastNumber
  <2>2. k \in 0..m /\ ~WriteOf(f[k], o, u(k))
    BY <2>1
  <2>3. CASE k = 0
    <3>1. f[k] = o /\ u(k) = <<>>
      BY <1>4, <2>2, <2>3 DEF Emitting
    <3>2. WriteOf(o, o, <<>>)
      <4>1. o.cap \in Nat /\ o.len \in Nat /\ o.buf \in Seq(Nat) /\ Len(<<>>) = 0
        BY DEF Outs
      <4>2. o.buf \o <<>> = o.buf
        BY <4>1
      <4>3. \A i \in 1..Len(o.buf) : ~(o.len < i /\ i <= o.len + 0)
        BY <4>1
      <4> QED
        BY <4>1, <4>2, <4>3 DEF WriteOf
    <3> QED
      BY <2>2, <3>1, <3>2
  <2>4. CASE k # 0
    <3> DEFINE t == u(k - 1)
    <3>1. k - 1 \in 0..m /\ k - 1 < k /\ k \in 1..m /\ ~(k <= k - 1)
      BY <1>3, <2>2, <2>4
    <3>2. WriteOf(f[k - 1], o, t)
      BY <2>1, <3>1
    <3>3. t \in Seq(Nat) /\ text[k] \in Nat /\ u(k) = Append(t, text[k])
      BY <3>1
    <3>4. f[k] = out_emit(f[k - 1], text[k])
      BY <1>4, <2>2, <2>4 DEF Emitting
    <3> HIDE DEF t, u
    <3>5. WriteOf(out_emit(f[k - 1], text[k]), o, Append(t, text[k]))
      BY <3>2, <3>3, WriteMore
    <3> QED
      BY <2>2, <3>3, <3>4, <3>5
  <2> QED
    BY <2>3, <2>4
<1>6. WriteOf(f[m], o, u(m))
  <2> HIDE DEF u
  <2> QED
    BY <1>3, <1>5
<1> QED
  BY <1>1, <1>3, <1>6

\* A digit is taken off a number.
LEMMA QuotientIs ==
  ASSUME NEW b \in Nat \ {0}, NEW x \in Nat
  PROVE  x \div b \in Nat /\ x % b \in 0..b - 1 /\ x = b * (x \div b) + (x % b)
OBVIOUS

OffOf(x, base, q, r) ==
  /\ q \in Nat /\ r \in 0..base - 1 /\ r \in 0..15
  /\ x = q * base + r
  /\ x > 0 => q < x
  /\ q = 0 => r = x

LEMMA DigitOff ==
  ASSUME NEW base \in {10, 16}, NEW x \in Nat
  PROVE  OffOf(x, base, x \div base, x % base)
<1> DEFINE q == x \div base
           r == x % base
<1>1. base \in Nat \ {0}
  OBVIOUS
<1>2. x \div base \in Nat /\ x % base \in 0..base - 1 /\ x = base * (x \div base) + (x % base)
  BY <1>1, QuotientIs
<1>3. q \in Nat /\ r \in 0..base - 1 /\ x = base * q + r
  BY <1>2, Zenon
<1> HIDE DEF q, r
<1>4. (x > 0 => q < x) /\ (q = 0 => r = x) /\ x = q * base + r /\ r \in 0..15
  <2> CASE base = 10
    BY <1>3
  <2> CASE base = 16
    BY <1>3
  <2> QED
    OBVIOUS
<1>5. OffOf(x, base, q, r)
  BY <1>3, <1>4 DEF OffOf
<1> QED
  BY <1>5 DEF q, r

Paddings == {Minus, Space, 120, Zero}

LEMMA DigitIs ==
  ASSUME NEW x \in 0..15, NEW upper
  PROVE  /\ Digit(x, upper) \in Nat /\ ValueOf(Digit(x, upper)) = x
         /\ Digit(x, upper) \notin {Minus, Space, 120}
         /\ Digit(x, upper) = Zero => x = 0
BY DEF Digit, ValueOf, Zero, Minus, Space

\* all is seq behind m times ch.
Padded(all, m, ch, seq) ==
  /\ all \in Seq(Nat) /\ m \in Nat /\ Len(all) = m + Len(seq)
  /\ \A i \in 1..m : all[i] = ch
  /\ \A i \in 1..Len(seq) : all[m + i] = seq[i]

LEMMA PadIs ==
  ASSUME NEW n \in Int, NEW ch \in Nat, NEW seq \in Seq(Nat)
  PROVE  Padded(Pad(n, ch) \o seq, IF n > 0 THEN n ELSE 0, ch, seq)
<1> DEFINE m == IF n > 0 THEN n ELSE 0
           pad == Pad(n, ch)
           all == pad \o seq
<1> SUFFICES Padded(all, m, ch, seq)
  OBVIOUS
<1>1. Max({n, 0}) = m
  <2>1. \A x \in {n, 0} : (\A y \in {n, 0} : x >= y) => x = m
    OBVIOUS
  <2>2. m \in {n, 0} /\ \A y \in {n, 0} : m >= y
    OBVIOUS
  <2> QED
    BY <2>1, <2>2 DEF Max
<1>2. m \in Nat
  OBVIOUS
<1> HIDE DEF m
<1>3. pad = [k \in 1..m |-> ch]
  BY <1>1 DEF Pad
<1> HIDE DEF pad
<1>4. pad \in [1..m -> Nat] /\ \A k \in 1..m : pad[k] = ch
  BY <1>3
<1>5. pad \in Seq(Nat) /\ Len(pad) = m
  BY <1>2, <1>4, MadeSequence
<1>6. /\ all \in Seq(Nat) /\ Len(all) = m + Len(seq)
      /\ \A i \in 1..m : all[i] = pad[i]
      /\ \A i \in 1..Len(seq) : all[m + i] = seq[i]
  <2>1. /\ Len(pad \o seq) = Len(pad) + Len(seq)
        /\ \A i \in 1..Len(pad) + Len(seq) :
             (pad \o seq)[i] = IF i <= Len(pad) THEN pad[i] ELSE seq[i - Len(pad)]
    BY <1>5, ConcatProperties
  <2>2. pad \o seq \in Seq(Nat)
    BY <1>5, ConcatProperties
  <2> HIDE DEF all
  <2>3. Len(seq) \in Nat
    OBVIOUS
  <2>4. Len(all) = m + Len(seq) /\ \A i \in 1..m + Len(seq) :
             all[i] = IF i <= m THEN pad[i] ELSE seq[i - m]
    BY <1>5, <2>1 DEF all
  <2>5. ASSUME NEW i \in 1..m PROVE all[i] = pad[i]
    <3>1. i \in 1..m + Len(seq) /\ i <= m
      BY <1>2, <2>3
    <3> QED
      BY <2>4, <3>1
  <2>6. ASSUME NEW i \in 1..Len(seq) PROVE all[m + i] = seq[i]
    <3>1. m + i \in 1..m + Len(seq) /\ ~(m + i <= m) /\ (m + i) - m = i
      BY <1>2, <2>3
    <3> QED
      BY <2>4, <3>1
  <2> QED
    BY <2>2, <2>4, <2>5, <2>6 DEF all
<1> HIDE DEF all
<1>7. \A i \in 1..m : all[i] = ch
  BY <1>4, <1>6
<1> QED
  BY <1>2, <1>6, <1>7 DEF Padded

\* The divisions that v goes through: n of them leave nothing.
Divided(v, base, left, n) ==
  /\ n \in Nat \ {0}
  /\ left[0] = v /\ left[n] = 0 /\ (n > 1 => left[n - 1] # 0)
  /\ \A k \in 0..n : left[k] \in Nat
  /\ \A k \in 1..n : left[k] = left[k - 1] \div base

Dividing(v, base, f, k) == IF k = 0 THEN v ELSE f[k - 1] \div base

LEMMA DividingIsDefined ==
  ASSUME NEW v \in Nat, NEW base \in {10, 16}
  PROVE  \E f : f = [k \in 0..v + 1 |-> Dividing(v, base, f, k)]
<1> DEFINE m == v + 1
           s == [k \in 1..m |-> [x \in Nat |-> x \div base]]
<1>1. m \in Nat
  OBVIOUS
<1>2. \A x \in Nat : x \div base \in Nat
  BY DigitOff
<1>3. s \in [1..m -> [Nat -> Nat]]
  BY <1>2
<1>4. \A k \in 1..m : \A x \in Nat : s[k][x] = x \div base
  OBVIOUS
<1> HIDE DEF s, m
<1>5. PICK f : LoopOf(f, m, Nat, v, s)
  <2>1. v \in Nat
    OBVIOUS
  <2> QED
    BY <1>1, <1>3, <2>1, LoopIsDefined, Zenon
<1>6. \A k \in 0..m : f[k] = Dividing(v, base, f, k)
  <2> TAKE k \in 0..m
  <2>1. k # 0 => k \in 1..m /\ k - 1 \in 0..m
    BY <1>1
  <2>2. k # 0 => s[k][f[k - 1]] = f[k - 1] \div base
    <3>1. k # 0 => f[k - 1] \in Nat
      BY <1>5, <2>1 DEF LoopOf
    <3> QED
      BY <1>4, <2>1, <3>1
  <2> QED
    BY <1>5, <2>2 DEF Dividing, LoopOf
<1>7. f = [k \in 0..m |-> f[k]]
  BY <1>5 DEF LoopOf
<1>8. f = [k \in 0..m |-> Dividing(v, base, f, k)]
  BY <1>6, <1>7
<1> QED
  BY <1>8 DEF m

LeftOf(v, base) == CHOOSE f : f = [k \in 0..v + 1 |-> Dividing(v, base, f, k)]
TurnsOf(v, base) ==
  CHOOSE k \in 1..v + 1 : LeftOf(v, base)[k] = 0 /\ (k > 1 => LeftOf(v, base)[k - 1] # 0)

LEMMA DividedIs ==
  ASSUME NEW v \in Nat, NEW base \in {10, 16}
  PROVE  Divided(v, base, LeftOf(v, base), TurnsOf(v, base))
<1> DEFINE left == LeftOf(v, base)
           n == TurnsOf(v, base)
           Right(k) == left[k] \in Nat /\ (left[k] = 0 \/ left[k] <= v - k)
           Wrong == {k \in 0..v + 1 : ~Right(k)}
           None == {k \in 1..v + 1 : left[k] = 0}
<1>1. left = [k \in 0..v + 1 |-> Dividing(v, base, left, k)]
  BY DividingIsDefined DEF LeftOf
<1>2. n = CHOOSE k \in 1..v + 1 : left[k] = 0 /\ (k > 1 => left[k - 1] # 0)
  BY DEF TurnsOf
<1> HIDE DEF left, n
<1>3. \A k \in 0..v + 1 : left[k] = Dividing(v, base, left, k)
  BY <1>1
<1>4. left[0] = v
  BY <1>3 DEF Dividing
<1>5. \A k \in 1..v + 1 : left[k] = left[k - 1] \div base
  BY <1>3 DEF Dividing
<1>6. ASSUME Wrong # {} PROVE FALSE
  <2>1. PICK k \in Wrong : \A j \in Wrong : k <= j
    <3>1. Wrong \subseteq Nat
      OBVIOUS
    <3> HIDE DEF Wrong
    <3> QED
      BY <1>6, <3>1, LeastNumber
  <2>2. k \in 0..v + 1 /\ ~Right(k)
    BY <2>1
  <2>3. k # 0
    BY <1>4, <2>2
  <2>4. k - 1 \in 0..v + 1 /\ k \in 1..v + 1 /\ ~(k <= k - 1)
    BY <2>2, <2>3
  <2>5. Right(k - 1)
    BY <2>1, <2>4
  <2> DEFINE x == left[k - 1]
  <2>6. left[k] = x \div base /\ x \in Nat /\ (x = 0 \/ x <= v - (k - 1))
    BY <1>5, <2>4, <2>5
  <2> HIDE DEF x
  <2> DEFINE q == x \div base
           r == x % base
  <2>7. q = left[k]
    BY <2>6
  <2>8. OffOf(x, base, q, r)
    BY <2>6, DigitOff
  <2> HIDE DEF q, r
  <2>9. Right(k)
    <3>1. x = 0 => q = 0
      <4>1. CASE base = 10
        BY <2>6, <2>8, <4>1 DEF OffOf
      <4>2. CASE base = 16
        BY <2>6, <2>8, <4>2 DEF OffOf
      <4> QED
        BY <4>1, <4>2
    <3> QED
      BY <2>4, <2>6, <2>7, <2>8, <3>1 DEF OffOf
  <2> QED
    BY <2>2, <2>9
<1>7. \A k \in 0..v + 1 : left[k] \in Nat /\ (left[k] = 0 \/ left[k] <= v - k)
  BY <1>6
<1>8. v + 1 \in None
  BY <1>7
<1>9. PICK k \in None : \A j \in None : k <= j
  <2>1. None \subseteq Nat
    OBVIOUS
  <2> HIDE DEF None
  <2> QED
    BY <1>8, <2>1, LeastNumber
<1>10. k \in 1..v + 1 /\ left[k] = 0 /\ (k > 1 => left[k - 1] # 0)
  <2>1. k > 1 => k - 1 \in 1..v + 1 /\ ~(k <= k - 1)
    OBVIOUS
  <2> QED
    BY <1>9, <2>1
<1>11. n \in 1..v + 1 /\ left[n] = 0 /\ (n > 1 => left[n - 1] # 0)
  BY <1>2, <1>10
<1>12. /\ n \in Nat \ {0}
       /\ \A k1 \in 0..n : k1 \in 0..v + 1
       /\ \A k1 \in 1..n : k1 \in 1..v + 1
  BY <1>11
<1> QED
  BY <1>4, <1>5, <1>7, <1>11, <1>12 DEF Divided, left, n

\* f is a number of n digits behind m other characters.
IsNumber(f, m, n, left, base, upper) ==
  /\ f \in Seq(Nat) /\ m \in Nat /\ n \in Nat \ {0} /\ Len(f) = m + n
  /\ \A i \in 1..m : f[i] \in Paddings
  /\ \A i \in 1..n : f[m + i] = Digit(left[n - i] % base, upper)

LEMMA EmitUintIs ==
  ASSUME NEW v \in Nat, NEW base \in {10, 16}, NEW upper, NEW width \in Int, NEW zero
  PROVE  LET f == emit_uint(v, base, upper, width, zero)
             n == TurnsOf(v, base)
             m == IF width - n > 0 THEN width - n ELSE 0
         IN /\ IsNumber(f, m, n, LeftOf(v, base), base, upper)
            /\ \A i \in 1..m : f[i] \in {Zero, Space}
<1> DEFINE left == LeftOf(v, base)
           n == TurnsOf(v, base)
           m == IF width - n > 0 THEN width - n ELSE 0
           ch == IF zero THEN Zero ELSE Space
           tmp == [i \in 1..n |-> Digit(left[n - i] % base, upper)]
           f == emit_uint(v, base, upper, width, zero)
<1>1. f = Pad(width - n, ch) \o tmp
  BY Zenon DEF emit_uint, LeftOf, TurnsOf, Dividing
<1>2. Divided(v, base, left, n)
  BY DividedIs
<1> HIDE DEF left, n, f
<1>3. n \in Nat \ {0} /\ ch \in Nat /\ ch \in {Zero, Space}
  BY <1>2 DEF Divided, Zero, Space
<1> HIDE DEF ch
<1>4. \A i \in 1..n : Digit(left[n - i] % base, upper) \in Nat
  <2> TAKE i \in 1..n
  <2>1. n - i \in 0..n
    BY <1>3
  <2>2. left[n - i] \in Nat
    BY <1>2, <2>1 DEF Divided
  <2> DEFINE x == left[n - i]
             q == x \div base
             r == x % base
  <2>3. OffOf(x, base, q, r)
    BY <2>2, DigitOff
  <2> HIDE DEF q, r
  <2>4. r \in 0..15
    BY <2>3 DEF OffOf
  <2>5. Digit(r, upper) \in Nat
    BY <2>4, DigitIs
  <2> QED
    BY <2>5 DEF r
<1>5. tmp \in [1..n -> Nat] /\ \A i \in 1..n : tmp[i] = Digit(left[n - i] % base, upper)
  BY <1>4
<1> HIDE DEF tmp
<1>6. tmp \in Seq(Nat) /\ Len(tmp) = n
  BY <1>3, <1>5, MadeSequence
<1>7. Padded(f, m, ch, tmp)
  <2>1. width - n \in Int
    BY <1>3
  <2> QED
    BY <1>1, <1>3, <1>6, <2>1, PadIs
<1> HIDE DEF m
<1>9. /\ f \in Seq(Nat) /\ m \in Nat /\ Len(f) = m + n
      /\ \A i \in 1..m : f[i] = ch
      /\ \A i \in 1..n : f[m + i] = tmp[i]
  BY <1>6, <1>7 DEF Padded
<1>10. \A i \in 1..m : f[i] \in {Zero, Space} /\ f[i] \in Paddings
  BY <1>3, <1>9 DEF Paddings
<1>11. \A i \in 1..n : f[m + i] = Digit(left[n - i] % base, upper)
  BY <1>5, <1>9
<1>12. IsNumber(f, m, n, left, base, upper)
  BY <1>3, <1>9, <1>10, <1>11 DEF IsNumber
<1> QED
  BY <1>10, <1>12 DEF f, m, n, left

\* Another character in front.
FrontedBy(g, ch, f, m) == g[1] = ch /\ \A i \in 2..m + 1 : g[i] = f[i - 1]

LEMMA MoreInFront ==
  ASSUME NEW f, NEW m, NEW n, NEW left, NEW base, NEW upper,
         IsNumber(f, m, n, left, base, upper), NEW ch \in Paddings
  PROVE  /\ IsNumber(<<ch>> \o f, m + 1, n, left, base, upper)
         /\ FrontedBy(<<ch>> \o f, ch, f, m)
<1> DEFINE one == <<ch>>
           g == one \o f
<1>1. /\ f \in Seq(Nat) /\ m \in Nat /\ n \in Nat \ {0} /\ Len(f) = m + n
      /\ \A i \in 1..m : f[i] \in Paddings
      /\ \A i \in 1..n : f[m + i] = Digit(left[n - i] % base, upper)
  BY DEF IsNumber
<1>2. ch \in Nat
  BY DEF Paddings, Minus, Space, Zero
<1>3. one \in Seq(Nat) /\ Len(one) = 1 /\ one[1] = ch
  BY <1>2
<1> HIDE DEF one
<1>4. /\ g \in Seq(Nat) /\ Len(g) = 1 + (m + n)
      /\ \A i \in 1..1 + (m + n) : g[i] = IF i <= 1 THEN one[i] ELSE f[i - 1]
  <2>1. /\ Len(g) = Len(one) + Len(f)
        /\ \A i \in 1..Len(one) + Len(f) : g[i] = IF i <= Len(one) THEN one[i] ELSE f[i - Len(one)]
    BY <1>1, <1>3, ConcatProperties
  <2>2. g \in Seq(Nat)
    BY <1>1, <1>3, ConcatProperties
  <2> HIDE DEF g
  <2> QED
    BY <1>1, <1>3, <2>1, <2>2
<1> HIDE DEF g
<1>5. g[1] = ch
  <2>1. 1 \in 1..1 + (m + n)
    BY <1>1
  <2> QED
    BY <1>3, <1>4, <2>1
<1>6. \A i \in 2..m + 1 : g[i] = f[i - 1] /\ i - 1 \in 1..m
  <2> TAKE i \in 2..m + 1
  <2>1. i \in 1..1 + (m + n) /\ ~(i <= 1) /\ i - 1 \in 1..m
    BY <1>1
  <2> QED
    BY <1>4, <2>1
<1>7. \A i \in 1..m + 1 : g[i] \in Paddings
  <2> TAKE i \in 1..m + 1
  <2>1. i = 1 \/ i \in 2..m + 1
    BY <1>1
  <2> QED
    BY <1>1, <1>5, <1>6, <2>1
<1>8. \A i \in 1..n : g[(m + 1) + i] = Digit(left[n - i] % base, upper)
  <2> TAKE i \in 1..n
  <2>1. (m + 1) + i \in 1..1 + (m + n) /\ ~((m + 1) + i <= 1) /\ ((m + 1) + i) - 1 = m + i
    BY <1>1
  <2> QED
    BY <1>1, <1>4, <2>1
<1>9. m + 1 \in Nat /\ Len(g) = (m + 1) + n
  BY <1>1, <1>4
<1>10. IsNumber(g, m + 1, n, left, base, upper)
  BY <1>1, <1>4, <1>7, <1>8, <1>9 DEF IsNumber
<1> QED
  BY <1>5, <1>6, <1>10 DEF g, one, FrontedBy

\* The number in a field is the one it was printed from.
Valuing(field, base, f, k) ==
  IF k = 0 THEN 0
  ELSE IF field[k] \in {Minus, Space, 120} THEN f[k - 1]
  ELSE f[k - 1] * base + ValueOf(field[k])

LEMMA ValuingIsDefined ==
  ASSUME NEW field \in Seq(Nat), NEW base \in {10, 16}
  PROVE  \E f : f = [k \in 0..Len(field) |-> Valuing(field, base, f, k)]
<1> DEFINE m == Len(field)
           Turn(k, x) == IF field[k] \in {Minus, Space, 120} THEN x
                         ELSE x * base + ValueOf(field[k])
           s == [k \in 1..m |-> [x \in Int |-> Turn(k, x)]]
<1>1. m \in Nat
  OBVIOUS
<1>2. \A k \in 1..m : \A x \in Int : Turn(k, x) \in Int
  <2> TAKE k \in 1..m
  <2> TAKE x \in Int
  <2>1. field[k] \in Nat
    OBVIOUS
  <2>2. ValueOf(field[k]) \in Int
    <3> DEFINE ch == field[k]
    <3>1. ch \in Nat
      BY <2>1
    <3> HIDE DEF ch
    <3>2. ValueOf(ch) \in Int
      BY <3>1 DEF ValueOf
    <3> QED
      BY <3>2 DEF ch
  <2>3. x * base \in Int
    OBVIOUS
  <2> QED
    BY <2>2, <2>3
<1>3. s \in [1..m -> [Int -> Int]]
  <2> HIDE DEF Turn, m
  <2> QED
    BY <1>2
<1>4. \A k \in 1..m : \A x \in Int : s[k][x] = Turn(k, x)
  OBVIOUS
<1> HIDE DEF s, m
<1>5. PICK f : LoopOf(f, m, Int, 0, s)
  <2>1. 0 \in Int
    OBVIOUS
  <2> QED
    BY <1>1, <1>3, <2>1, LoopIsDefined, Zenon
<1>6. \A k \in 0..m : f[k] = Valuing(field, base, f, k)
  <2> TAKE k \in 0..m
  <2>1. k # 0 => k \in 1..m /\ k - 1 \in 0..m
    BY <1>1
  <2>2. k # 0 => s[k][f[k - 1]] = Turn(k, f[k - 1])
    <3>1. k # 0 => f[k - 1] \in Int
      BY <1>5, <2>1 DEF LoopOf
    <3> HIDE DEF Turn
    <3> QED
      BY <1>4, <2>1, <3>1
  <2>3. f[k] = IF k = 0 THEN 0 ELSE Turn(k, f[k - 1])
    <3> HIDE DEF Turn
    <3> QED
      BY <1>5, <2>2 DEF LoopOf
  <2> QED
    BY <2>3 DEF Valuing
<1>7. f = [k \in 0..m |-> f[k]]
  BY <1>5 DEF LoopOf
<1>8. f = [k \in 0..m |-> Valuing(field, base, f, k)]
  BY <1>6, <1>7
<1> QED
  BY <1>8 DEF m

LEMMA MagnitudeIs ==
  ASSUME NEW v, NEW base \in {10, 16}, NEW left, NEW n, Divided(v, base, left, n),
         NEW f, NEW m, NEW upper, IsNumber(f, m, n, left, base, upper)
  PROVE  Magnitude(f, base) = v
<1> DEFINE w == m + n
           h == CHOOSE g : g = [k \in 0..Len(f) |-> Valuing(f, base, g, k)]
           Right(k) == h[k] = IF k <= m THEN 0 ELSE left[n - (k - m)]
           Wrong == {k \in 0..w : ~Right(k)}
<1>1. /\ f \in Seq(Nat) /\ m \in Nat /\ n \in Nat \ {0} /\ Len(f) = w
      /\ \A i \in 1..m : f[i] \in Paddings
      /\ \A i \in 1..n : f[m + i] = Digit(left[n - i] % base, upper)
  BY DEF IsNumber
<1>2. Magnitude(f, base) = h[Len(f)]
  BY Zenon DEF Magnitude, Valuing
<1>3. h = [k \in 0..Len(f) |-> Valuing(f, base, h, k)]
  <2>1. \E g : g = [k \in 0..Len(f) |-> Valuing(f, base, g, k)]
    BY <1>1, ValuingIsDefined
  <2> QED
    BY <2>1
<1> HIDE DEF h
<1>4. \A k \in 0..w : h[k] = Valuing(f, base, h, k)
  BY <1>1, <1>3
<1>5. /\ left[0] = v /\ left[n] = 0
      /\ \A k \in 0..n : left[k] \in Nat
      /\ \A k \in 1..n : left[k] = left[k - 1] \div base
  BY DEF Divided
<1>6. ASSUME Wrong # {} PROVE FALSE
  <2>1. PICK k \in Wrong : \A j \in Wrong : k <= j
    <3>1. Wrong \subseteq Nat
      BY <1>1
    <3> HIDE DEF Wrong
    <3> QED
      BY <1>6, <3>1, LeastNumber
  <2>2. k \in 0..w /\ ~Right(k)
    BY <2>1
  <2>3. CASE k = 0
    <3>1. h[k] = 0 /\ k <= m
      BY <1>1, <1>4, <2>2, <2>3 DEF Valuing
    <3> QED
      BY <2>2, <3>1
  <2>4. CASE k # 0
    <3>1. k - 1 \in 0..w /\ k \in 1..w /\ ~(k <= k - 1)
      BY <1>1, <2>2, <2>4
    <3>2. Right(k - 1)
      BY <2>1, <3>1
    <3>3. CASE k <= m
      <4>1. f[k] \in Paddings /\ h[k - 1] = 0
        <5>1. k \in 1..m /\ k - 1 <= m
          BY <1>1, <3>1, <3>3
        <5> QED
          BY <1>1, <3>2, <5>1
      <4>2. h[k] = Valuing(f, base, h, k)
        BY <1>4, <2>2
      <4>3. ValueOf(Zero) = 0
        BY DEF Zero, ValueOf
      <4>4. h[k] = 0
        <5>1. 0 * base = 0
          OBVIOUS
        <5>2. f[k] = Zero \/ f[k] \in {Minus, Space, 120}
          BY <4>1 DEF Paddings
        <5> QED
          BY <2>4, <4>1, <4>2, <4>3, <5>1, <5>2 DEF Valuing
      <4> QED
        BY <2>2, <3>3, <4>4
    <3>4. CASE ~(k <= m)
      <4> DEFINE i == k - m
                 x == left[n - i]
      <4>1. i \in 1..n /\ m + i = k /\ n - i \in 0..n /\ (n - i) + 1 \in 1..n /\ ((n - i) + 1) - 1 = n - i
        BY <1>1, <3>1, <3>4
      <4> HIDE DEF i
      <4>2. f[k] = Digit(x % base, upper) /\ x \in Nat /\ left[(n - i) + 1] = x \div base
        BY <1>1, <1>5, <4>1
      <4> HIDE DEF x
      <4> DEFINE q == x \div base
                 r == x % base
      <4>4. f[k] = Digit(r, upper) /\ left[(n - i) + 1] = q
        BY <4>2
      <4>10. OffOf(x, base, q, r)
        BY <4>2, DigitOff
      <4> HIDE DEF q, r
      <4>3. q \in Nat /\ r \in 0..15 /\ x = q * base + r
        BY <4>10 DEF OffOf
      <4>5. f[k] \notin {Minus, Space, 120} /\ ValueOf(f[k]) = r
        BY <4>3, <4>4, DigitIs
      <4>6. h[k - 1] = q
        <5>1. CASE k - 1 <= m
          <6>1. i = 1 /\ (n - i) + 1 = n
            BY <1>1, <3>1, <3>4, <5>1 DEF i
          <6> QED
            BY <1>5, <3>2, <4>4, <5>1, <6>1
        <5>2. CASE ~(k - 1 <= m)
          <6>1. n - ((k - 1) - m) = (n - i) + 1
            BY <1>1, <3>1 DEF i
          <6> QED
            BY <3>2, <4>4, <5>2, <6>1
        <5> QED
          BY <5>1, <5>2
      <4>7. h[k] = Valuing(f, base, h, k)
        BY <1>4, <2>2
      <4>8. h[k] = h[k - 1] * base + ValueOf(f[k])
        BY <2>4, <4>5, <4>7, Zenon DEF Valuing
      <4>9. h[k] = left[n - (k - m)]
        <5>1. h[k] = x
          BY <4>3, <4>5, <4>6, <4>8, Zenon
        <5> QED
          BY <5>1 DEF x, i
      <4> QED
        BY <2>2, <3>4, <4>9
    <3> QED
      BY <3>3, <3>4
  <2> QED
    BY <2>3, <2>4
<1>7. h[w] = left[0]
  <2>1. w \in 0..w /\ ~(w <= m) /\ n - (w - m) = 0
    BY <1>1
  <2>2. Right(w)
    BY <1>6, <2>1
  <2> QED
    BY <2>1, <2>2
<1> QED
  BY <1>1, <1>2, <1>5, <1>7

\* What a number that was printed looks like: only its front holds a minus, and without
\* padding it begins with its first digit, a zero only if that is all.
FirstDigit(f) == First(1, {i \in DOMAIN f : ValueOf(f[i]) >= 0})
NoZeroFirst(f) == FirstDigit(f) < Len(f) => f[FirstDigit(f)] # Zero

LooksRight(f, m) ==
  /\ Minus \in Range(f) <=> \E i \in 1..m : f[i] = Minus
  /\ m = 0 \/ (m = 1 /\ f[1] = Minus) => NoZeroFirst(f)

LEMMA NumberLooks ==
  ASSUME NEW v, NEW base \in {10, 16}, NEW left, NEW n, Divided(v, base, left, n),
         NEW f, NEW m, NEW upper, IsNumber(f, m, n, left, base, upper)
  PROVE  LooksRight(f, m)
<1>1. /\ f \in Seq(Nat) /\ m \in Nat /\ n \in Nat \ {0} /\ Len(f) = m + n
      /\ \A i \in 1..n : f[m + i] = Digit(left[n - i] % base, upper)
  BY DEF IsNumber
<1>2. DOMAIN f = 1..m + n
  BY <1>1
<1>3. ASSUME NEW i \in 1..n
      PROVE  LET x == left[n - i]
             IN /\ x \in Nat /\ OffOf(x, base, x \div base, x % base)
                /\ f[m + i] = Digit(x % base, upper)
                /\ ValueOf(f[m + i]) \in 0..15 /\ f[m + i] # Minus
  <2> DEFINE x == left[n - i]
             r == x % base
  <2>1. n - i \in 0..n
    BY <1>1
  <2>2. x \in Nat
    BY <2>1 DEF Divided
  <2>3. OffOf(x, base, x \div base, r)
    BY <2>2, DigitOff
  <2>4. f[m + i] = Digit(r, upper)
    BY <1>1
  <2> HIDE DEF r, x
  <2>5. r \in 0..15
    BY <2>3 DEF OffOf
  <2>6. ValueOf(f[m + i]) = r /\ f[m + i] # Minus
    BY <2>4, <2>5, DigitIs
  <2> QED
    BY <2>2, <2>3, <2>4, <2>5, <2>6 DEF r, x
<1>4. Minus \in Range(f) <=> \E i \in 1..m : f[i] = Minus
  <2>1. \A i \in 1..m + n : i \in 1..m \/ (i - m \in 1..n /\ m + (i - m) = i)
    BY <1>1
  <2>2. \A i \in 1..m + n : f[i] = Minus => i \in 1..m
    BY <1>3, <2>1
  <2>3. \A i \in 1..m : i \in 1..m + n
    BY <1>1
  <2> QED
    BY <1>2, <2>2, <2>3 DEF Range
<1>5. ASSUME m = 0 \/ (m = 1 /\ f[1] = Minus),
             NEW digit, digit = FirstDigit(f), digit < Len(f)
      PROVE  f[digit] # Zero
  <2> DEFINE S == {i \in DOMAIN f : ValueOf(f[i]) >= 0}
  <2>1. m + 1 \in 1..m + n /\ 1 \in 1..n
    BY <1>1
  <2>2. ValueOf(f[m + 1]) \in 0..15
    BY <1>3, <2>1
  <2>3. m + 1 \in S
    BY <1>2, <2>1, <2>2
  <2>4. \A j \in S : j >= 1 => m + 1 <= j
    <3>1. m = 1 => 1 \notin S
      <4>1. ~(ValueOf(Minus) >= 0)
        BY DEF ValueOf, Minus
      <4> QED
        BY <1>5, <4>1
    <3> QED
      BY <1>1, <1>2, <1>5, <3>1
  <2>5. S \subseteq Int
    BY <1>2
  <2>6. digit = m + 1
    <3>1. m + 1 >= 1 /\ 1 \in Int
      BY <1>1
    <3>2. digit = First(1, S)
      BY <1>5 DEF FirstDigit
    <3> HIDE DEF S
    <3> QED
      BY <2>3, <2>4, <2>5, <3>1, <3>2, FirstIs
  <2> DEFINE x == left[n - 1]
             r == x % base
             q == x \div base
  <2>7. x # 0 /\ left[n] = q /\ left[n] = 0
    <3>1. n > 1 /\ n \in 1..n
      BY <1>1, <1>5, <2>6
    <3> QED
      BY <3>1 DEF Divided
  <2>8. x \in Nat /\ OffOf(x, base, q, r) /\ f[digit] = Digit(r, upper)
    BY <1>3, <2>1, <2>6
  <2> HIDE DEF q, r, x
  <2>9. r # 0 /\ r \in 0..15
    BY <2>7, <2>8 DEF OffOf
  <2> QED
    BY <2>8, <2>9, DigitIs
<1> QED
  BY <1>4, <1>5 DEF NoZeroFirst, LooksRight

ShowsNumber(f, width, base, v, minus) ==
  /\ f \in Seq(Nat) /\ Len(f) >= width /\ Magnitude(f, base) = v
  /\ Minus \in Range(f) <=> minus

\* A number without sign, and what the width asks.
LEMMA UnsignedRight ==
  ASSUME NEW v \in Nat, NEW base \in {10, 16}, NEW upper, NEW width \in Nat, NEW zero,
         NEW f, f = emit_uint(v, base, upper, width, zero)
  PROVE  ShowsNumber(f, width, base, v, FALSE) /\ (Len(f) > width => NoZeroFirst(f))
<1> DEFINE n == TurnsOf(v, base)
           m == IF width - n > 0 THEN width - n ELSE 0
           left == LeftOf(v, base)
<1>1. Divided(v, base, left, n)
  BY DividedIs
<1>2. IsNumber(f, m, n, left, base, upper) /\ \A i \in 1..m : f[i] \in {Zero, Space}
  <2>1. width \in Int
    OBVIOUS
  <2> QED
    BY <2>1, EmitUintIs
<1> HIDE DEF n, left
<1>3. n \in Nat
  BY <1>1 DEF Divided
<1>4. f \in Seq(Nat) /\ Len(f) = m + n
  BY <1>2 DEF IsNumber
<1>5. Len(f) >= width /\ (Len(f) > width => m = 0)
  BY <1>3, <1>4
<1> HIDE DEF m
<1>6. LooksRight(f, m)
  BY <1>1, <1>2, NumberLooks
<1>7. Magnitude(f, base) = v
  BY <1>1, <1>2, MagnitudeIs
<1>8. Minus \notin Range(f)
  <2>1. \A i \in 1..m : f[i] # Minus
    BY <1>2 DEF Zero, Space, Minus
  <2> QED
    BY <1>6, <2>1 DEF LooksRight
<1> QED
  BY <1>4, <1>5, <1>6, <1>7, <1>8 DEF LooksRight, ShowsNumber

LEMMA NegativeRight ==
  ASSUME NEW v \in Nat, NEW width \in Nat, NEW zero,
         NEW f, f = <<Minus>> \o emit_uint(v, 10, FALSE, width - 1, zero)
  PROVE  ShowsNumber(f, width, 10, v, TRUE) /\ (Len(f) > width => NoZeroFirst(f))
<1> DEFINE n == TurnsOf(v, 10)
           k == IF (width - 1) - n > 0 THEN (width - 1) - n ELSE 0
           m == k + 1
           left == LeftOf(v, 10)
           g == emit_uint(v, 10, FALSE, width - 1, zero)
<1>0. 10 \in {10, 16}
  OBVIOUS
<1>1. Divided(v, 10, left, n)
  BY <1>0, DividedIs
<1>2. IsNumber(g, k, n, left, 10, FALSE)
  <2>1. width - 1 \in Int
    OBVIOUS
  <2> QED
    BY <1>0, <2>1, EmitUintIs
<1> HIDE DEF n, left, g
<1>3. n \in Nat /\ k \in Nat
  BY <1>1 DEF Divided
<1>4. IsNumber(f, m, n, left, 10, FALSE) /\ f[1] = Minus
  <2>1. Minus \in Paddings
    BY DEF Paddings
  <2>2. f = <<Minus>> \o g
    BY DEF g
  <2> HIDE DEF k
  <2>3. IsNumber(<<Minus>> \o g, k + 1, n, left, 10, FALSE) /\ FrontedBy(<<Minus>> \o g, Minus, g, k)
    BY <1>2, <2>1, MoreInFront, Zenon
  <2> QED
    BY <2>2, <2>3, Zenon DEF FrontedBy
<1>5. f \in Seq(Nat) /\ Len(f) = m + n
  BY <1>4 DEF IsNumber
<1>6. Len(f) >= width /\ (Len(f) > width => m = 1)
  <2> DEFINE l == Len(f)
  <2>1. l = k + 1 + n
    BY <1>5
  <2> HIDE DEF l
  <2>2. l >= width /\ (l > width => k = 0)
    BY <1>3, <2>1
  <2>3. k = 0 => m = 1
    OBVIOUS
  <2> HIDE DEF k, m
  <2> QED
    BY <2>2, <2>3 DEF l
<1>7. 1 \in 1..m
  BY <1>3
<1> HIDE DEF m
<1>11. LooksRight(f, m)
  BY <1>0, <1>1, <1>4, NumberLooks
<1>8. Minus \in Range(f)
  BY <1>4, <1>7, <1>11 DEF LooksRight
<1>9. Magnitude(f, 10) = v
  BY <1>0, <1>1, <1>4, MagnitudeIs
<1>10. Len(f) > width => NoZeroFirst(f)
  BY <1>4, <1>6, <1>11 DEF LooksRight
<1> QED
  BY <1>5, <1>6, <1>8, <1>9, <1>10 DEF ShowsNumber

LEMMA HexMagnitude ==
  ASSUME NEW v, NEW left, NEW n, Divided(v, 16, left, n),
         NEW f, NEW m, NEW upper, IsNumber(f, m, n, left, 16, upper)
  PROVE  Magnitude(f, 16) = v
<1>1. 16 \in {10, 16}
  OBVIOUS
<1> QED
  BY <1>1, MagnitudeIs

LEMMA PointerRight ==
  ASSUME NEW v \in Nat, NEW width \in Nat,
         NEW f, f = <<Zero, 120>> \o emit_uint(v, 16, FALSE, width - 2, TRUE)
  PROVE  ShowsNumber(f, width, 16, v, FALSE)
<1> DEFINE n == TurnsOf(v, 16)
           k == IF (width - 2) - n > 0 THEN (width - 2) - n ELSE 0
           left == LeftOf(v, 16)
           g == emit_uint(v, 16, FALSE, width - 2, TRUE)
           h == <<120>> \o g
<1>0. 16 \in {10, 16}
  OBVIOUS
<1>1. Divided(v, 16, left, n)
  BY <1>0, DividedIs
<1>2. IsNumber(g, k, n, left, 16, FALSE) /\ \A i \in 1..k : g[i] \in {Zero, Space}
  <2>1. width - 2 \in Int
    OBVIOUS
  <2> QED
    BY <1>0, <2>1, EmitUintIs
<1> HIDE DEF n, left, g
<1>3. n \in Nat /\ k \in Nat
  BY <1>1 DEF Divided
<1>4. f = <<Zero>> \o h
  <2>1. g \in Seq(Nat)
    BY <1>2 DEF IsNumber
  <2>2. <<Zero>> \in Seq(Nat) /\ <<120>> \in Seq(Nat)
    BY DEF Zero
  <2>3. <<Zero>> \o <<120>> = <<Zero, 120>>
    <3> DEFINE s == <<Zero>> \o <<120>>
               t == <<Zero, 120>>
    <3>1. Len(<<Zero>>) = 1 /\ Len(<<120>>) = 1
      OBVIOUS
    <3>2. s \in Seq(Nat) /\ Len(s) = 2 /\ s[1] = Zero /\ s[2] = 120
      BY <2>2, <3>1, ConcatProperties
    <3>3. t \in Seq(Nat) /\ Len(t) = 2 /\ t[1] = Zero /\ t[2] = 120
      BY DEF Zero
    <3> HIDE DEF s, t
    <3>4. \A i \in 1..Len(s) : s[i] = t[i]
      <4>1. \A i \in 1..2 : i = 1 \/ i = 2
        OBVIOUS
      <4> QED
        BY <3>2, <3>3, <4>1
    <3>5. s = t
      BY <3>2, <3>3, <3>4, SameSequence
    <3> QED
      BY <3>5 DEF s, t
  <2>4. (<<Zero>> \o <<120>>) \o g = <<Zero>> \o h
    BY <2>1, <2>2, ConcatAssociative
  <2> QED
    BY <2>3, <2>4 DEF g
<1> DEFINE a == k + 1
           b == a + 1
<1>5. a \in Nat /\ b \in Nat /\ b + n >= width
  BY <1>3
<1> HIDE DEF k
<1>11. 120 \in Paddings /\ Zero \in Paddings
  BY DEF Paddings
<1>12. IsNumber(h, a, n, left, 16, FALSE) /\ FrontedBy(h, 120, g, k)
  BY <1>2, <1>11, MoreInFront, ZenonT(60)
<1> HIDE DEF h, a
<1>13. IsNumber(f, b, n, left, 16, FALSE) /\ FrontedBy(f, Zero, h, a)
  <2>1. /\ IsNumber(<<Zero>> \o h, b, n, left, 16, FALSE)
        /\ FrontedBy(<<Zero>> \o h, Zero, h, a)
    BY <1>11, <1>12, MoreInFront, Zenon
  <2> QED
    BY <1>4, <2>1, Zenon
<1>6. ASSUME NEW i \in 1..b PROVE f[i] # Minus
  <2>0. /\ h[1] = 120 /\ \A j \in 2..a : h[j] = g[j - 1]
        /\ f[1] = Zero /\ \A j \in 2..b : f[j] = h[j - 1]
    BY <1>12, <1>13 DEF FrontedBy, a
  <2>1. Zero # Minus /\ Space # Minus /\ 120 # Minus
    BY DEF Zero, Space, Minus
  <2>2. CASE i = 1
    BY <2>0, <2>1, <2>2
  <2>3. CASE i # 1
    <3>1. i \in 2..b /\ i - 1 \in 1..a
      BY <1>5, <2>3
    <3>2. f[i] = h[i - 1]
      BY <2>0, <3>1
    <3>3. CASE i - 1 = 1
      BY <2>0, <2>1, <3>2, <3>3
    <3>4. CASE i - 1 # 1
      <4>1. i - 1 \in 2..a /\ (i - 1) - 1 \in 1..k
        BY <1>3, <3>1, <3>4 DEF a
      <4>2. h[i - 1] = g[(i - 1) - 1]
        BY <2>0, <4>1
      <4> QED
        BY <1>2, <2>1, <3>2, <4>1, <4>2
    <3> QED
      BY <3>3, <3>4
  <2> QED
    BY <2>2, <2>3
<1> HIDE DEF b
<1>7. f \in Seq(Nat) /\ Len(f) = b + n
  BY <1>13 DEF IsNumber
<1>8. Len(f) >= width
  BY <1>5, <1>7
<1>14. LooksRight(f, b)
  BY <1>0, <1>1, <1>13, NumberLooks
<1>9. Minus \notin Range(f)
  BY <1>6, <1>14 DEF LooksRight
<1>10. Magnitude(f, 16) = v
  <2> HIDE DEF n, left, b
  <2>1. ASSUME NEW g0, IsNumber(g0, b, n, left, 16, FALSE)
        PROVE  Magnitude(g0, 16) = v
    BY <1>1, <2>1, HexMagnitude
  <2>2. IsNumber(f, b, n, left, 16, FALSE)
    BY <1>13
  <2> QED
    BY <2>1, <2>2
<1> QED
  BY <1>7, <1>8, <1>9, <1>10 DEF ShowsNumber

\* The width and the argument of a directive are such as its conversion takes.
TakesArg(d) ==
  /\ d.width \in Nat
  /\ d.conv = "s" => d.arg \in Seq(Nat)
  /\ d.conv = "d" => d.arg \in Int
  /\ d.conv \notin {"s", "d"} => d.arg \in Nat

PrintsField(d, f) == f \in Seq(Nat) /\ FieldRight(d, f)

LEMMA NumberFieldIs ==
  ASSUME NEW d, TakesArg(d), d.conv \in Numbers
  PROVE  PrintsField(d, format_field(d))
<1> DEFINE f == format_field(d)
           base == IF d.conv \in {"d", "u"} THEN 10 ELSE 16
           width == d.width
           arg == d.arg
           zero == d.zero
<1>1. width \in Nat
  BY DEF TakesArg
<1>2. d.conv # "s" /\ base \in {10, 16}
  BY DEF Numbers
<1>3. d.conv \in {"u", "x", "X", "p"} => arg \in Nat /\ ~(arg < 0)
  BY DEF TakesArg
<1>4. /\ d.conv = "u" => f = emit_uint(arg, 10, FALSE, width, zero) /\ base = 10
      /\ d.conv = "x" => f = emit_uint(arg, 16, FALSE, width, zero) /\ base = 16
      /\ d.conv = "X" => f = emit_uint(arg, 16, TRUE, width, zero) /\ base = 16
      /\ d.conv = "d" => f = emit_int(arg, width, zero) /\ base = 10
      /\ d.conv = "p" =>
           f = <<Zero, 120>> \o emit_uint(arg, 16, FALSE, width - 2, TRUE) /\ base = 16
  BY DEF format_field
<1>5. ASSUME ShowsNumber(f, width, base, IF arg < 0 THEN -arg ELSE arg, arg < 0),
             d.conv # "p" => (Len(f) > width => NoZeroFirst(f))
      PROVE  PrintsField(d, f)
  <2> HIDE DEF f
  <2> QED
    BY <1>2, <1>5 DEF PrintsField, FieldRight, ShowsNumber, NoZeroFirst, FirstDigit
<1> HIDE DEF f, base, width, arg, zero
<1>6. CASE d.conv \in {"u", "x", "X"}
  <2>1. \E upper \in BOOLEAN : f = emit_uint(arg, base, upper, width, zero)
    BY <1>4, <1>6
  <2>2. arg \in Nat /\ ~(arg < 0)
    BY <1>3, <1>6
  <2>3. ShowsNumber(f, width, base, arg, FALSE) /\ (Len(f) > width => NoZeroFirst(f))
    BY <1>1, <1>2, <2>1, <2>2, UnsignedRight
  <2>4. (IF arg < 0 THEN -arg ELSE arg) = arg /\ (arg < 0) = FALSE
    BY <2>2
  <2> QED
    BY <1>5, <2>3, <2>4 DEF f
<1>7. CASE d.conv = "p"
  <2>1. f = <<Zero, 120>> \o emit_uint(arg, 16, FALSE, width - 2, TRUE) /\ base = 16
    BY <1>4, <1>7
  <2>2. arg \in Nat /\ ~(arg < 0)
    BY <1>3, <1>7
  <2>3. ShowsNumber(f, width, base, arg, FALSE)
    BY <1>1, <2>1, <2>2, PointerRight
  <2>4. (IF arg < 0 THEN -arg ELSE arg) = arg /\ (arg < 0) = FALSE
    BY <2>2
  <2> QED
    BY <1>5, <1>7, <2>3, <2>4 DEF f
<1>8. CASE d.conv = "d" /\ arg < 0
  <2> DEFINE v == uabs_ll(arg)
  <2>0. arg \in Int
    BY <1>8 DEF TakesArg, arg
  <2>1. v \in Nat /\ v = -arg
    BY <1>8, <2>0 DEF uabs_ll
  <2>2. f = <<Minus>> \o emit_uint(v, 10, FALSE, width - 1, zero)
    BY <1>4, <1>8 DEF emit_int
  <2> HIDE DEF v
  <2>3. ShowsNumber(f, width, 10, v, TRUE) /\ (Len(f) > width => NoZeroFirst(f))
    BY <1>1, <2>1, <2>2, NegativeRight
  <2>4. (IF arg < 0 THEN -arg ELSE arg) = v /\ (arg < 0) = TRUE /\ base = 10
    BY <1>4, <1>8, <2>1
  <2> QED
    BY <1>5, <2>3, <2>4 DEF f
<1>9. CASE d.conv = "d" /\ ~(arg < 0)
  <2>1. arg \in Nat
    BY <1>9 DEF TakesArg, arg
  <2>2. f = emit_uint(arg, base, FALSE, width, zero) /\ base = 10
    BY <1>4, <1>9 DEF emit_int
  <2>3. ShowsNumber(f, width, base, arg, FALSE) /\ (Len(f) > width => NoZeroFirst(f))
    BY <1>1, <1>2, <2>1, <2>2, UnsignedRight
  <2>4. (IF arg < 0 THEN -arg ELSE arg) = arg /\ (arg < 0) = FALSE
    BY <1>9
  <2> QED
    BY <1>5, <2>3, <2>4 DEF f
<1> QED
  BY <1>6, <1>7, <1>8, <1>9 DEF Numbers

LEMMA TextFieldIs ==
  ASSUME NEW d, TakesArg(d), d.conv = "s"
  PROVE  PrintsField(d, format_field(d))
<1> DEFINE f == format_field(d)
           n == Len(d.arg)
           w == d.width - n
           m == IF w > 0 THEN w ELSE 0
           arg == d.arg
           width == d.width
<1>1. width \in Nat /\ arg \in Seq(Nat) /\ n \in Nat /\ w \in Int
  BY DEF TakesArg
<1>2. f = Pad(w, Space) \o arg
  BY DEF format_field
<1>3. Space \in Nat
  BY DEF Space
<1> HIDE DEF f, w
<1>4. Padded(f, m, Space, arg)
  BY <1>1, <1>2, <1>3, PadIs
<1>5. w = width - n
  BY DEF w
<1> HIDE DEF m, arg, width
<1>6. /\ f \in Seq(Nat) /\ m \in Nat /\ Len(f) = m + n
      /\ \A i \in 1..n : f[m + i] = arg[i]
  BY <1>4 DEF Padded, arg
<1> HIDE DEF n
<1>7. Len(f) >= width
  <2> DEFINE l == Len(f)
  <2>1. l = m + n
    BY <1>6
  <2> HIDE DEF l
  <2>2. l >= width
    BY <1>1, <1>5, <2>1 DEF m
  <2> QED
    BY <2>2 DEF l
<1>8. SubSeq(f, Len(f) - n + 1, Len(f)) = arg
  <2>1. Len(f) - n + 1 = m + 1 /\ Len(f) - (m + 1) + 1 = n /\ m + 1 >= 1
    BY <1>1, <1>6
  <2> DEFINE s == SubSeq(f, m + 1, Len(f))
  <2>2. s \in Seq(Nat) /\ Len(s) = n /\ \A i \in 1..n : s[i] = f[m + i]
    <3>1. s = [i \in 1..n |-> f[m + i]]
      BY <1>1, <1>6, <2>1
    <3>2. \A i \in 1..n : f[m + i] \in Nat
      <4> TAKE i \in 1..n
      <4>1. m + i \in 1..Len(f)
        BY <1>1, <1>6
      <4> QED
        BY <1>6, <4>1
    <3> HIDE DEF s
    <3>3. s \in [1..n -> Nat] /\ \A i \in 1..n : s[i] = f[m + i]
      BY <3>1, <3>2
    <3> QED
      BY <1>1, <3>3, MadeSequence
  <2> HIDE DEF s
  <2>3. Len(arg) = n
    BY DEF arg, n
  <2>4. s = arg
    BY <1>1, <1>6, <2>2, <2>3, SameSequence
  <2> QED
    BY <2>1, <2>4 DEF s
<1>9. d.conv \notin Numbers
  BY DEF Numbers
<1> QED
  BY <1>6, <1>7, <1>8, <1>9 DEF PrintsField, FieldRight, f, n, arg, width

LEMMA OtherFieldIs ==
  ASSUME NEW d, TakesArg(d), d.conv \notin Numbers, d.conv # "s"
  PROVE  PrintsField(d, format_field(d))
<1> DEFINE f == format_field(d)
           arg == d.arg
           w == d.width - 1
           width == d.width
<1>1. width \in Nat /\ arg \in Nat /\ w \in Int /\ w = width - 1
  BY DEF TakesArg, Numbers
<1>2. CASE d.conv = "c"
  <2> DEFINE m == IF w > 0 THEN w ELSE 0
             one == <<arg>>
  <2>1. f = Pad(w, Space) \o one
    BY <1>2 DEF format_field
  <2>2. Space \in Nat /\ one \in Seq(Nat) /\ Len(one) = 1
    BY <1>1 DEF Space
  <2> HIDE DEF f, one, w
  <2>3. Padded(f, m, Space, one)
    BY <1>1, <2>1, <2>2, PadIs
  <2> HIDE DEF m, width
  <2>4. f \in Seq(Nat) /\ Len(f) = m + 1
    BY <2>2, <2>3 DEF Padded
  <2> DEFINE l == Len(f)
  <2>5. l = m + 1
    BY <2>4
  <2> HIDE DEF l
  <2>6. l >= width
    BY <1>1, <2>5 DEF m
  <2> QED
    BY <2>4, <2>6 DEF PrintsField, FieldRight, f, l, width
<1>3. CASE d.conv # "c"
  <2>1. f = <<arg>> \/ f = <<Percent, arg>>
    <3>1. CASE d.conv = "lit"
      BY <3>1 DEF format_field
    <3>2. CASE d.conv # "lit"
      BY <1>3, <3>2 DEF format_field, Numbers
    <3> QED
      BY <3>1, <3>2
  <2>2. <<arg>> \in Seq(Nat) /\ <<Percent, arg>> \in Seq(Nat)
    BY <1>1 DEF Percent
  <2> HIDE DEF f
  <2> QED
    BY <1>3, <2>1, <2>2 DEF PrintsField, FieldRight, f
<1> QED
  BY <1>2, <1>3

LEMMA EveryFieldIs ==
  ASSUME NEW d, TakesArg(d)
  PROVE  PrintsField(d, format_field(d))
BY NumberFieldIs, TextFieldIs, OtherFieldIs

\* The text that fits is in the buffer, the terminator behind it once it was written.
Shown(c, b) == IF c.len <= b.cap - 1 THEN c.len ELSE b.cap - 1

ShownSo(c, b, ended) ==
  /\ c \in Outs /\ c.cap = 0 /\ c.len = Len(c.buf)
  /\ b \in Outs /\ b.cap \in 1..Len(Memory) /\ b.len = c.len /\ Len(b.buf) = Len(Memory)
  /\ \A i \in 1..Len(Memory) :
       b.buf[i] = IF i <= Shown(c, b) THEN c.buf[i]
                  ELSE IF ended /\ i = Shown(c, b) + 1 THEN NUL ELSE Memory[i]

\* The text is the first done fields, in order, each between its marks.
MarkedSo(m, text, f, done) ==
  /\ m \in Seq(Nat) /\ done \in 0..Len(f) /\ Len(m) = done + 1 /\ m[done + 1] = Len(text)
  /\ \A k \in 1..done :
       /\ m[k] <= m[k + 1] /\ m[k + 1] <= Len(text)
       /\ SubSeq(text, m[k] + 1, m[k + 1]) = format_field(f[k])

StdioInv ==
  /\ fmt \in Formats /\ stage \in {"print", "scan", "done"}
  /\ ShownSo(console, buffer, stage # "print")
  /\ stage = "print" => place \in 1..Len(fmt) + 1
  /\ MarkedSo(marks, console.buf, fmt, IF stage = "print" THEN place - 1 ELSE Len(fmt))

LEMMA DirectivesAre ==
  ASSUME NEW f \in Formats
  PROVE  /\ Len(f) \in Nat /\ DOMAIN f = 1..Len(f)
         /\ \A k \in 1..Len(f) : TakesArg(f[k])
<1>1. /\ Len(f) \in Nat /\ DOMAIN f = 1..Len(f)
      /\ \A k \in DOMAIN f :
           /\ f[k].width \in Nat
           /\ CASE f[k].conv = "s" -> f[k].arg \in Seq(Nat)
                [] f[k].conv = "d" -> f[k].arg \in Int
                [] OTHER -> f[k].arg \in Nat
  BY StdioAssumption
<1>2. ASSUME NEW k \in 1..Len(f) PROVE TakesArg(f[k])
  <2> DEFINE d == f[k]
  <2>1. /\ d.width \in Nat
        /\ CASE d.conv = "s" -> d.arg \in Seq(Nat)
             [] d.conv = "d" -> d.arg \in Int
             [] OTHER -> d.arg \in Nat
    BY <1>1
  <2> HIDE DEF d
  <2>2. TakesArg(d)
    BY <2>1 DEF TakesArg
  <2> QED
    BY <2>2 DEF d
<1> QED
  BY <1>1, <1>2

LEMMA StdioInitHolds == StdioInit => StdioInv
<1> SUFFICES ASSUME StdioInit PROVE StdioInv
  OBVIOUS
<1> DEFINE N == Len(Memory)
<1>1. /\ fmt \in Formats /\ place = 1 /\ stage = "print"
      /\ console = [cap |-> 0, len |-> 0, buf |-> <<>>]
      /\ \E cap \in Caps : buffer = [cap |-> IF cap = 0 THEN 1 ELSE cap, len |-> 0, buf |-> Memory]
      /\ marks = <<0>>
  BY DEF StdioInit
<1>2. Memory \in Seq(Nat) /\ N \in Nat /\ N # 0 /\ Caps \subseteq 0..N
  BY StdioAssumption
<1>3. Len(fmt) \in Nat
  BY <1>1, DirectivesAre
<1>4. \E cap \in 1..N : buffer = [cap |-> cap, len |-> 0, buf |-> Memory]
  <2>1. PICK cap \in Caps : buffer = [cap |-> IF cap = 0 THEN 1 ELSE cap, len |-> 0, buf |-> Memory]
    BY <1>1
  <2>2. (IF cap = 0 THEN 1 ELSE cap) \in 1..N
    BY <1>2
  <2> QED
    BY <2>1, <2>2
<1>5. /\ console \in Outs /\ console.cap = 0 /\ console.len = 0 /\ console.buf = <<>>
      /\ buffer \in Outs /\ buffer.cap \in 1..N /\ buffer.len = 0 /\ buffer.buf = Memory
  BY <1>1, <1>2, <1>4 DEF Outs
<1>6. Shown(console, buffer) = 0
  BY <1>2, <1>5 DEF Shown
<1>7. ShownSo(console, buffer, FALSE)
  <2>1. Len(console.buf) = 0 /\ \A i \in 1..N : ~(i <= 0)
    BY <1>2, <1>5
  <2> QED
    BY <1>5, <1>6, <2>1 DEF ShownSo
<1>8. MarkedSo(marks, console.buf, fmt, 0)
  <2>1. marks \in Seq(Nat) /\ Len(marks) = 1 /\ marks[1] = 0 /\ Len(console.buf) = 0
    BY <1>1, <1>5
  <2> QED
    BY <1>3, <2>1 DEF MarkedSo
<1>9. place \in 1..Len(fmt) + 1 /\ place - 1 = 0
  BY <1>1, <1>3
<1> QED
  BY <1>1, <1>7, <1>8, <1>9 DEF StdioInv

\* The same text is written to the console and to the buffer.
LEMMA ShownMore ==
  ASSUME NEW c, NEW b, ShownSo(c, b, FALSE), NEW text \in Seq(Nat)
  PROVE  ShownSo(out_write(c, text), out_write(b, text), FALSE)
<1> DEFINE d == out_write(c, text)
           e == out_write(b, text)
           l == Len(text)
           N == Len(Memory)
           n == Shown(c, b)
           o == Shown(d, e)
<1>1. /\ c \in Outs /\ c.cap = 0 /\ c.len = Len(c.buf)
      /\ b \in Outs /\ b.cap \in 1..N /\ b.len = c.len /\ Len(b.buf) = N
      /\ \A i \in 1..N : b.buf[i] = IF i <= n THEN c.buf[i] ELSE Memory[i]
  BY DEF ShownSo
<1>2. WriteOf(d, c, text) /\ WriteOf(e, b, text)
  BY <1>1, WriteIs
<1> HIDE DEF d, e
<1>3. /\ d \in Outs /\ d.cap = 0 /\ d.len = c.len + l /\ d.buf = c.buf \o text
      /\ e \in Outs /\ e.cap = b.cap /\ e.len = b.len + l /\ Len(e.buf) = N
      /\ \A i \in 1..N : e.buf[i] = IF b.len < i /\ i <= b.len + l /\ i < b.cap
                                    THEN text[i - b.len] ELSE b.buf[i]
  BY <1>1, <1>2 DEF WriteOf
<1>4. l \in Nat /\ c.len \in Nat /\ N \in Nat /\ c.buf \in Seq(Nat) /\ b.cap \in Nat
  BY <1>1, StdioAssumption DEF Outs
<1>5. /\ Len(d.buf) = c.len + l
      /\ \A i \in 1..c.len + l : d.buf[i] = IF i <= c.len THEN c.buf[i] ELSE text[i - c.len]
  <2>1. /\ Len(d.buf) = Len(c.buf) + l
        /\ \A i \in 1..Len(c.buf) + l :
             d.buf[i] = IF i <= Len(c.buf) THEN c.buf[i] ELSE text[i - Len(c.buf)]
    BY <1>3, <1>4, ConcatProperties
  <2> QED
    BY <1>1, <2>1
<1> DEFINE len == c.len
           cap == b.cap
<1>6. /\ n = IF len <= cap - 1 THEN len ELSE cap - 1
      /\ o = IF len + l <= cap - 1 THEN len + l ELSE cap - 1
  BY <1>3 DEF Shown
<1>7. len \in Nat /\ cap \in 1..N
  BY <1>1, <1>4
<1>8. ASSUME NEW i \in 1..N
      PROVE  e.buf[i] = IF i <= o THEN d.buf[i] ELSE Memory[i]
  <2>1. e.buf[i] = IF len < i /\ i <= len + l /\ i < cap THEN text[i - len] ELSE b.buf[i]
    BY <1>1, <1>3
  <2>2. b.buf[i] = IF i <= n THEN c.buf[i] ELSE Memory[i]
    BY <1>1
  <2>3. i \in 1..len + l => d.buf[i] = IF i <= len THEN c.buf[i] ELSE text[i - len]
    BY <1>5
  <2> HIDE DEF len, cap, n, o, l
  <2>4. CASE i <= n
    <3>1. i <= len /\ i <= o /\ i \in 1..len + l
      BY <1>4, <1>6, <1>7, <2>4
    <3>2. ~(len < i)
      BY <1>7, <3>1
    <3> QED
      BY <2>1, <2>2, <2>3, <2>4, <3>1, <3>2
  <2>5. CASE ~(i <= n) /\ i <= o
    <3>1. len < i /\ i <= len + l /\ i < cap /\ ~(i <= len) /\ i \in 1..len + l
      <4>1. len <= cap - 1
        BY <1>4, <1>6, <1>7, <2>5 DEF l
      <4> QED
        BY <1>4, <1>6, <1>7, <2>5, <4>1 DEF l
    <3> QED
      BY <2>1, <2>3, <2>5, <3>1
  <2>6. CASE ~(i <= n) /\ ~(i <= o)
    <3>1. ~(i <= len + l /\ i < cap)
      BY <1>4, <1>6, <1>7, <2>6 DEF l
    <3> QED
      BY <2>1, <2>2, <2>6, <3>1
  <2> QED
    BY <2>4, <2>5, <2>6
<1>9. ShownSo(d, e, FALSE)
  <2> HIDE DEF o, n, l
  <2>1. d.len = Len(d.buf) /\ e.len = d.len
    BY <1>1, <1>3, <1>5
  <2> QED
    BY <1>1, <1>3, <1>8, <2>1 DEF ShownSo, o
<1> QED
  BY <1>9 DEF d, e

LEMMA SameCut ==
  ASSUME NEW s \in Seq(Nat), NEW t \in Seq(Nat), NEW a \in Nat, NEW z \in Nat,
         a <= z, z <= Len(t), Len(t) <= Len(s), \A i \in 1..Len(t) : s[i] = t[i]
  PROVE  SubSeq(s, a + 1, z) = SubSeq(t, a + 1, z)
<1>1. /\ SubSeq(s, a + 1, z) = [i \in 1..z - a |-> s[a + i]]
      /\ SubSeq(t, a + 1, z) = [i \in 1..z - a |-> t[a + i]]
  OBVIOUS
<1>2. \A i \in 1..z - a : s[a + i] = t[a + i]
  <2> TAKE i \in 1..z - a
  <2> DEFINE l == Len(t)
  <2>1. l \in Nat /\ z <= l
    OBVIOUS
  <2> HIDE DEF l
  <2>2. a + i \in 1..l
    BY <2>1
  <2> QED
    BY <2>2 DEF l
<1> QED
  BY <1>1, <1>2

\* The next field is marked.
LEMMA MarkedMore ==
  ASSUME NEW m, NEW text \in Seq(Nat), NEW f \in Formats, NEW done \in Nat,
         MarkedSo(m, text, f, done), done < Len(f)
  PROVE  LET new == text \o format_field(f[done + 1])
         IN MarkedSo(Append(m, Len(new)), new, f, done + 1)
<1> DEFINE field == format_field(f[done + 1])
           new == text \o field
           p == Append(m, Len(new))
           t == Len(text)
           l == Len(field)
<1>1. /\ m \in Seq(Nat) /\ Len(m) = done + 1 /\ m[done + 1] = t
      /\ \A k \in 1..done :
           /\ m[k] <= m[k + 1] /\ m[k + 1] <= t
           /\ SubSeq(text, m[k] + 1, m[k + 1]) = format_field(f[k])
  BY DEF MarkedSo
<1>2. Len(f) \in Nat /\ done + 1 \in 1..Len(f)
  BY DirectivesAre
<1>3. field \in Seq(Nat)
  <2>1. TakesArg(f[done + 1])
    BY <1>2, DirectivesAre
  <2> QED
    BY <2>1, EveryFieldIs DEF PrintsField
<1>4. t \in Nat
  OBVIOUS
<1> HIDE DEF field
<1>5. l \in Nat
  BY <1>3
<1>6. /\ new \in Seq(Nat) /\ Len(new) = t + l
      /\ \A i \in 1..t + l : new[i] = IF i <= t THEN text[i] ELSE field[i - t]
  BY <1>3, ConcatProperties
<1> HIDE DEF new
<1>7. /\ p \in Seq(Nat) /\ Len(p) = done + 2
      /\ \A k \in 1..done + 1 : p[k] = m[k]
      /\ p[done + 2] = t + l
  <2> DEFINE x == Len(new)
  <2>1. x \in Nat /\ x = t + l
    BY <1>4, <1>5, <1>6
  <2> HIDE DEF x, l, t
  <2>2. Append(m, x) \in Seq(Nat) /\ Len(Append(m, x)) = Len(m) + 1
    BY <1>1, <2>1
  <2>3. \A k \in 1..Len(m) + 1 : Append(m, x)[k] = IF k = Len(m) + 1 THEN x ELSE m[k]
    BY <1>1, <2>1
  <2>4. Len(m) + 1 = done + 2 /\ done + 2 \in 1..done + 2
    BY <1>1
  <2>5. \A k \in 1..done + 1 : k \in 1..done + 2 /\ k # done + 2
    OBVIOUS
  <2> QED
    BY <2>1, <2>2, <2>3, <2>4, <2>5 DEF x
<1> HIDE DEF p
<1>8. ASSUME NEW k \in 1..done + 1
      PROVE  /\ p[k] <= p[k + 1] /\ p[k + 1] <= t + l
             /\ SubSeq(new, p[k] + 1, p[k + 1]) = format_field(f[k])
  <2>1. CASE k # done + 1
    <3>1. k \in 1..done /\ k + 1 \in 1..done + 1 /\ k \in 1..done + 1
      BY <2>1
    <3>2. p[k] = m[k] /\ p[k + 1] = m[k + 1] /\ m[k] \in Nat /\ m[k + 1] \in Nat
      <4>1. p[k] = m[k] /\ p[k + 1] = m[k + 1]
        BY <1>7, <3>1
      <4>2. \A j \in 1..done + 1 : m[j] \in Nat
        BY <1>1
      <4> QED
        BY <3>1, <4>1, <4>2
    <3> DEFINE a == m[k]
               z == m[k + 1]
    <3>3. a <= z /\ z <= t /\ a \in Nat /\ z \in Nat
      BY <1>1, <3>1, <3>2
    <3>4. SubSeq(text, a + 1, z) = format_field(f[k])
      BY <1>1, <3>1
    <3> HIDE DEF a, z
    <3>5. SubSeq(new, a + 1, z) = SubSeq(text, a + 1, z)
      <4>1. \A i \in 1..t : new[i] = text[i]
        BY <1>4, <1>5, <1>6
      <4>2. t = Len(text) /\ t <= Len(new)
        BY <1>4, <1>5, <1>6
      <4> HIDE DEF t, l
      <4> QED
        BY <1>6, <3>3, <4>1, <4>2, SameCut
    <3>6. a <= z /\ z <= t + l
      BY <1>4, <1>5, <3>3
    <3> QED
      BY <3>2, <3>4, <3>5, <3>6 DEF a, z
  <2>2. CASE k = done + 1
    <3>1. p[k] = t /\ p[k + 1] = t + l
      <4>1. k + 1 = done + 2
        BY <2>2
      <4> QED
        BY <1>1, <1>7, <2>2, <4>1
    <3>2. t <= t + l
      BY <1>4, <1>5
    <3>3. SubSeq(new, t + 1, t + l) = field
      <4> DEFINE s == SubSeq(new, t + 1, t + l)
      <4>1. s = [i \in 1..l |-> new[t + i]]
        BY <1>4, <1>5, <1>6
      <4>2. \A i \in 1..l : new[t + i] = field[i]
        <5> TAKE i \in 1..l
        <5>1. t + i \in 1..t + l /\ ~(t + i <= t) /\ (t + i) - t = i
          BY <1>4, <1>5
        <5> QED
          BY <1>6, <5>1
      <4>3. field = [i \in 1..l |-> field[i]]
        BY <1>3
      <4> HIDE DEF s, l, t
      <4> QED
        BY <4>1, <4>2, <4>3 DEF s, t, l
    <3> QED
      BY <2>2, <3>1, <3>2, <3>3 DEF field
  <2> QED
    BY <2>1, <2>2
<1>9. MarkedSo(p, new, f, done + 1)
  <2>1. (done + 1) + 1 = done + 2 /\ done + 1 \in 0..Len(f)
    BY <1>2
  <2> HIDE DEF t, l
  <2> QED
    BY <1>6, <1>7, <1>8, <2>1 DEF MarkedSo
<1> QED
  BY <1>9 DEF p, new, field

LEMMA FormatNextHolds == StdioInv /\ FormatNext => StdioInv'
<1> SUFFICES ASSUME StdioInv, FormatNext PROVE StdioInv'
  OBVIOUS
<1> DEFINE field == format_field(fmt[place])
           done == place - 1
<1>1. /\ stage = "print" /\ place <= Len(fmt)
      /\ console' = out_write(console, field)
      /\ buffer' = out_write(buffer, field)
      /\ marks' = Append(marks, console'.len)
      /\ place' = place + 1 /\ fmt' = fmt /\ stage' = stage
  BY DEF FormatNext
<1>2. /\ fmt \in Formats /\ stage \in {"print", "scan", "done"}
      /\ ShownSo(console, buffer, FALSE) /\ place \in 1..Len(fmt) + 1
      /\ MarkedSo(marks, console.buf, fmt, done)
  BY <1>1 DEF StdioInv
<1>3. Len(fmt) \in Nat /\ done \in Nat /\ done < Len(fmt) /\ done + 1 = place
  BY <1>1, <1>2, DirectivesAre
<1>4. field \in Seq(Nat)
  <2>1. place \in 1..Len(fmt)
    BY <1>1, <1>2, <1>3
  <2>2. TakesArg(fmt[place])
    BY <1>2, <2>1, DirectivesAre
  <2> QED
    BY <2>2, EveryFieldIs DEF PrintsField
<1> HIDE DEF done
<1>5. ShownSo(console', buffer', FALSE)
  <2> HIDE DEF field
  <2> QED
    BY <1>1, <1>2, <1>4, ShownMore
<1>6. console'.buf = console.buf \o field /\ console'.len = Len(console'.buf)
  <2>1. console \in Outs /\ console.cap = 0
    BY <1>2 DEF ShownSo
  <2> HIDE DEF field
  <2>2. WriteOf(console', console, field)
    BY <1>1, <1>4, <2>1, WriteIs
  <2> QED
    BY <1>5, <2>1, <2>2 DEF WriteOf, ShownSo
<1>7. MarkedSo(marks', console'.buf, fmt, place)
  <2>1. console.buf \in Seq(Nat)
    BY <1>2 DEF ShownSo, Outs
  <2> DEFINE new == console.buf \o format_field(fmt[done + 1])
  <2>2. MarkedSo(Append(marks, Len(new)), new, fmt, done + 1)
    BY <1>2, <1>3, <2>1, MarkedMore
  <2>3. new = console'.buf
    BY <1>3, <1>6
  <2> HIDE DEF new
  <2> QED
    BY <1>1, <1>3, <1>6, <2>2, <2>3
<1>8. place' \in 1..Len(fmt) + 1 /\ place' - 1 = place
  BY <1>1, <1>2, <1>3
<1>9. /\ ShownSo(console', buffer', stage' # "print")
      /\ MarkedSo(marks', console'.buf, fmt', IF stage' = "print" THEN place' - 1 ELSE Len(fmt'))
  BY <1>1, <1>5, <1>7, <1>8
<1> QED
  BY <1>1, <1>2, <1>8, <1>9 DEF StdioInv

LEMMA FormatEndHolds == StdioInv /\ FormatEnd => StdioInv'
<1> SUFFICES ASSUME StdioInv, FormatEnd PROVE StdioInv'
  OBVIOUS
<1> DEFINE N == Len(Memory)
           n == Shown(console, buffer)
           k == Min({buffer.len + 1, buffer.cap})
<1>1. /\ stage = "print" /\ place > Len(fmt) /\ stage' = "scan"
      /\ buffer' = [buffer EXCEPT !.buf[k] = NUL]
      /\ fmt' = fmt /\ console' = console /\ marks' = marks
  BY DEF FormatEnd
<1>2. /\ fmt \in Formats /\ place \in 1..Len(fmt) + 1
      /\ MarkedSo(marks, console.buf, fmt, place - 1)
      /\ ShownSo(console, buffer, FALSE)
  BY <1>1 DEF StdioInv
<1>3. place - 1 = Len(fmt)
  BY <1>1, <1>2, DirectivesAre
<1>4. /\ console \in Outs /\ console.cap = 0 /\ console.len = Len(console.buf)
      /\ buffer \in Outs /\ buffer.cap \in 1..N /\ buffer.len = console.len /\ Len(buffer.buf) = N
      /\ \A i \in 1..N : buffer.buf[i] = IF i <= n THEN console.buf[i] ELSE Memory[i]
  BY <1>2 DEF ShownSo
<1>5. N \in Nat /\ buffer.len \in Nat /\ buffer.cap \in Nat /\ buffer.buf \in Seq(Nat)
  BY <1>4, StdioAssumption DEF Outs
<1>6. k = n + 1 /\ k \in 1..N
  <2> DEFINE len == buffer.len
             cap == buffer.cap
  <2>1. k = IF len + 1 <= cap THEN len + 1 ELSE cap
    <3>1. len + 1 \in Int /\ cap \in Int
      BY <1>5
    <3> HIDE DEF len, cap
    <3> QED
      BY <3>1, MinOfTwo DEF k, len, cap
  <2>2. n = IF len <= cap - 1 THEN len ELSE cap - 1
    BY <1>4 DEF Shown
  <2>3. len \in Nat /\ cap \in 1..N
    BY <1>4, <1>5
  <2> HIDE DEF len, cap, k, n, N
  <2> QED
    BY <1>5, <2>1, <2>2, <2>3
<1> HIDE DEF k
<1> DEFINE e == [buffer.buf EXCEPT ![k] = NUL]
<1>7. buffer = [cap |-> buffer.cap, len |-> buffer.len, buf |-> buffer.buf]
  BY <1>4 DEF Outs
<1>8. /\ buffer'.buf = e /\ buffer'.cap = buffer.cap /\ buffer'.len = buffer.len
      /\ buffer' = [cap |-> buffer.cap, len |-> buffer.len, buf |-> e]
  <2> DEFINE x == [cap |-> buffer.cap, len |-> buffer.len, buf |-> buffer.buf]
  <2>1. [x EXCEPT !.buf[k] = NUL] = [cap |-> buffer.cap, len |-> buffer.len, buf |-> e]
    OBVIOUS
  <2>2. buffer' = [x EXCEPT !.buf[k] = NUL]
    BY <1>1, <1>7
  <2> HIDE DEF x
  <2>3. buffer' = [cap |-> buffer.cap, len |-> buffer.len, buf |-> e]
    BY <2>1, <2>2
  <2> QED
    BY <2>3
<1>9. e \in Seq(Nat) /\ Len(e) = N /\ \A i \in 1..N : e[i] = IF i = k THEN NUL ELSE buffer.buf[i]
  <2>1. NUL \in Nat
    BY DEF NUL
  <2>2. DOMAIN buffer.buf = 1..N /\ \A i \in 1..N : buffer.buf[i] \in Nat
    BY <1>4, <1>5
  <2>3. e \in [1..N -> Nat] /\ \A i \in 1..N : e[i] = IF i = k THEN NUL ELSE buffer.buf[i]
    BY <2>1, <2>2
  <2> HIDE DEF e
  <2> QED
    BY <1>5, <2>3, MadeSequence
<1> HIDE DEF e
<1>10. buffer' \in Outs
  BY <1>5, <1>8, <1>9 DEF Outs
<1>11. Shown(console', buffer') = n
  BY <1>1, <1>8 DEF Shown
<1>12. \A i \in 1..N :
         buffer'.buf[i] = IF i <= n THEN console'.buf[i] ELSE IF i = n + 1 THEN NUL ELSE Memory[i]
  <2> TAKE i \in 1..N
  <2>1. n \in Int
    BY <1>4, <1>5 DEF Shown
  <2> HIDE DEF n
  <2>2. i = k => ~(i <= n)
    BY <1>6, <2>1
  <2>3. buffer'.buf[i] = IF i = k THEN NUL ELSE buffer.buf[i]
    BY <1>8, <1>9
  <2> QED
    BY <1>1, <1>4, <1>6, <2>2, <2>3
<1>13. ShownSo(console', buffer', TRUE)
  <2> DEFINE c == console'
             b == buffer'
  <2>1. /\ c \in Outs /\ c.cap = 0 /\ c.len = Len(c.buf)
        /\ b \in Outs /\ b.cap \in 1..N /\ b.len = c.len /\ Len(b.buf) = N
    BY <1>1, <1>4, <1>8, <1>9, <1>10
  <2>2. /\ Shown(c, b) = n
        /\ \A i \in 1..N : b.buf[i] = IF i <= n THEN c.buf[i] ELSE IF i = n + 1 THEN NUL ELSE Memory[i]
    BY <1>11, <1>12
  <2> HIDE DEF n, c, b
  <2>3. ShownSo(c, b, TRUE)
    BY <2>1, <2>2 DEF ShownSo
  <2> QED
    BY <2>3 DEF c, b
<1>14. (stage' # "print") = TRUE /\ ~(stage' = "print")
  BY <1>1
<1>15. MarkedSo(marks', console'.buf, fmt', Len(fmt'))
  BY <1>1, <1>2, <1>3
<1> QED
  BY <1>1, <1>2, <1>13, <1>14, <1>15 DEF StdioInv

\* What is read back changes nothing of what was printed.
LEMMA ScanningStays ==
  ASSUME StdioInv, stage \in {"scan", "done"}, stage' \in {"scan", "done"},
         UNCHANGED <<fmt, console, buffer, marks>>
  PROVE  StdioInv'
BY DEF StdioInv

LEMMA StdioSafe == StdioSpec => []StdioInv
<1>1. StdioInit => StdioInv
  BY StdioInitHolds
<1>2. StdioInv /\ [StdioNext]_stdioVars => StdioInv'
  <2> SUFFICES ASSUME StdioInv, [StdioNext]_stdioVars PROVE StdioInv'
    OBVIOUS
  <2>1. CASE FormatNext
    BY <2>1, FormatNextHolds
  <2>2. CASE FormatEnd
    BY <2>2, FormatEndHolds
  <2>3. CASE ScanNext
    <3>1. stage = "scan" /\ stage' \in {"scan", "done"} /\ UNCHANGED <<fmt, console, buffer, marks>>
      BY <2>3 DEF ScanNext
    <3> QED
      BY <3>1, ScanningStays
  <2>4. CASE ScanReturns
    BY <2>4, ScanningStays DEF ScanReturns
  <2>5. CASE ScanEnd
    BY <2>5, ScanningStays DEF ScanEnd
  <2>6. CASE UNCHANGED stdioVars
    BY <2>6 DEF stdioVars, StdioInv
  <2> QED
    BY <2>1, <2>2, <2>3, <2>4, <2>5, <2>6 DEF StdioNext
<1> QED
  BY <1>1, <1>2, PTL DEF StdioSpec

\* What printf shows is, cut to the buffer, what snprintf leaves in it, ended inside
\* the buffer and with the memory behind it untouched; both say the length of the
\* whole; and every number and text is as wide as asked and is its argument: early_vprintf
\* and early_vsnprintf, for any format, any arguments and any size of the buffer.
THEOREM PrintsAreWhole == StdioSpec => []PrintsWhole
<1>1. StdioInv => PrintsWhole
  <2> SUFFICES ASSUME StdioInv, stage # "print" PROVE PrintsWhole
    BY DEF PrintsWhole
  <2> DEFINE N == Len(Memory)
             a == console.len
             b == buffer.cap - 1
             n == Min({a, b})
  <2>1. /\ fmt \in Formats /\ MarkedSo(marks, console.buf, fmt, Len(fmt))
        /\ ShownSo(console, buffer, TRUE)
    BY DEF StdioInv
  <2>2. /\ console \in Outs /\ a = Len(console.buf)
        /\ buffer \in Outs /\ buffer.cap \in 1..N /\ buffer.len = a /\ Len(buffer.buf) = N
        /\ \A i \in 1..N :
             buffer.buf[i] = IF i <= Shown(console, buffer) THEN console.buf[i]
                             ELSE IF i = Shown(console, buffer) + 1 THEN NUL ELSE Memory[i]
    BY <2>1 DEF ShownSo
  <2>3. N \in Nat /\ DOMAIN Memory = 1..N /\ a \in Nat /\ b \in Nat /\ b + 1 \in 1..N
        /\ console.buf \in Seq(Nat) /\ buffer.buf \in Seq(Nat)
    BY <2>2, StdioAssumption DEF Outs
  <2>4. n = Shown(console, buffer) /\ n \in Nat /\ n <= a /\ n + 1 \in 1..N
    <3>1. Shown(console, buffer) = IF a <= b THEN a ELSE b
      BY DEF Shown
    <3> HIDE DEF a, b, N
    <3>2. n = IF a <= b THEN a ELSE b
      BY <2>3, MinOfTwo
    <3> HIDE DEF n
    <3> QED
      BY <2>3, <3>1, <3>2
  <2> HIDE DEF n
  <2>5. buffer.buf[n + 1] = NUL
    BY <2>2, <2>4
  <2>6. \A i \in DOMAIN Memory : i > n + 1 => buffer.buf[i] = Memory[i]
    <3> TAKE i \in DOMAIN Memory
    <3>1. i > n + 1 => ~(i <= n) /\ i # n + 1
      BY <2>3, <2>4
    <3> QED
      BY <2>2, <2>3, <2>4, <3>1
  <2>7. SubSeq(buffer.buf, 1, n) = SubSeq(console.buf, 1, n)
    <3>1. n <= N /\ n <= Len(buffer.buf) /\ n <= Len(console.buf)
      BY <2>2, <2>3, <2>4
    <3>2. \A i \in 1..n : i \in 1..N /\ i <= n
      BY <2>3, <2>4
    <3>3. \A i \in 1..n : buffer.buf[i] = console.buf[i]
      BY <2>2, <2>4, <3>2
    <3> DEFINE x == buffer.buf
               y == console.buf
    <3>4. x \in Seq(Nat) /\ y \in Seq(Nat)
      BY <2>3
    <3> HIDE DEF x, y
    <3>5. SubSeq(x, 1, n) = [i \in 1..n |-> x[i]] /\ SubSeq(y, 1, n) = [i \in 1..n |-> y[i]]
      BY <2>4, <3>1, <3>4 DEF x, y
    <3> QED
      BY <3>3, <3>5 DEF x, y
  <2>8. ASSUME NEW k \in DOMAIN fmt
        PROVE  FieldRight(fmt[k], SubSeq(console.buf, marks[k] + 1, marks[k + 1]))
    <3>1. k \in 1..Len(fmt)
      BY <2>1, DirectivesAre
    <3>2. SubSeq(console.buf, marks[k] + 1, marks[k + 1]) = format_field(fmt[k])
      BY <2>1, <3>1 DEF MarkedSo
    <3>3. TakesArg(fmt[k])
      BY <2>1, <3>1, DirectivesAre
    <3> QED
      BY <3>2, <3>3, EveryFieldIs DEF PrintsField
  <2> QED
    BY <2>2, <2>5, <2>6, <2>7, <2>8 DEF PrintsWhole, n, a, b
<1> QED
  BY <1>1, StdioSafe, PTL
===============================================================================
