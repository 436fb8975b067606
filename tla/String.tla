--------------------------------- MODULE String ---------------------------------
(***************************************************************************)
(* lib/04data_structure/string: a growing buffer of characters that is     *)
(* also a C string, and a client that calls its operations in any order.   *)
(*                                                                         *)
(* An outcome is [ret, s]: what the operation answers, a character that is *)
(* taken out or one of the codes below, and the string it leaves.          *)
(* A string that was dropped or moved from is all zero, elem_size too, and *)
(* may be used again.                                                      *)
(***************************************************************************)
EXTENDS RawBuf, StringNoAlloc

CONSTANTS
  Letters,    \* characters the client uses, NUL among them
  Words,      \* sequences of them
  NoString    \* neither a text nor a string

ASSUME StringAssumption ==
  LET Buffers == UNION {[0..n - 1 -> Letters \cup {Blank, NUL}] : n \in 0..MaxCapacity}
  IN /\ Letters \subseteq Nat /\ Words \subseteq Seq(Letters)
     /\ NoString \notin Seq(Letters)
     /\ NoString \notin [buf : Buffers, len : Nat, elem_size : {0, 1}]

Done == 0
Refused == -1
RefusedNul == -2

string_zero == [buf |-> raw_buf_new, len |-> 0, elem_size |-> 0]

\* string_reserve for n more. A zeroed string gets its element size first, and
\* keeps it when the allocation is refused.
string_reserve(s, n) ==
  {IF r.ok
   THEN [ret |-> Done,
         s   |-> [buf |-> IF s.len = 0 THEN [r.buf EXCEPT ![0] = NUL] ELSE r.buf,
                  len |-> s.len, elem_size |-> 1]]
   ELSE [ret |-> Refused, s |-> [s EXCEPT !.elem_size = 1]]
     : r \in Reserved(s.buf, s.len + n + 1)}

HasNul(chars) == NUL \in Range(chars)

\* memcpy of chars into the buffer.
Stored(b, at, chars) ==
  [i \in DOMAIN b |-> IF i \in at..at + Len(chars) - 1 THEN chars[i - at + 1] ELSE b[i]]

\* Once there is room: a buffer with n characters more.
Lengthened(r, n, b) == IF r.ret = Done THEN [r EXCEPT !.s.len = @ + n, !.s.buf = b] ELSE r

string_push_str_n(s, chars) ==
  IF HasNul(chars) THEN {[ret |-> Refused, s |-> s]}
  ELSE {Lengthened(r, Len(chars), Stored(r.s.buf, s.len, Append(chars, NUL)))
          : r \in string_reserve(s, Len(chars))}

string_push(s, ch) ==
  IF ch = NUL THEN {[ret |-> RefusedNul, s |-> s]} ELSE string_push_str_n(s, <<ch>>)

\* The terminator moves with the tail.
string_insert_str_n(s, i, chars) ==
  IF i > s.len \/ HasNul(chars) THEN {[ret |-> Refused, s |-> s]}
  ELSE {Lengthened(r, Len(chars),
                   Stored(memmove(r.s.buf, i + Len(chars), i, s.len - i + 1), i, chars))
          : r \in string_reserve(s, Len(chars))}

string_insert(s, i, ch) ==
  IF i <= s.len /\ ch = NUL THEN {[ret |-> RefusedNul, s |-> s]}
  ELSE string_insert_str_n(s, i, <<ch>>)

string_remove(s, i) ==
  IF i >= s.len THEN {[ret |-> Refused, s |-> s]}
  ELSE {[ret |-> s.buf[i],
         s   |-> [s EXCEPT !.buf = memmove(@, i, i + 1, s.len - i), !.len = @ - 1]]}

\* A string without a buffer has nowhere to put the terminator.
Terminated(s, len) ==
  [s EXCEPT !.len = len, !.buf = IF s.buf = raw_buf_new THEN @ ELSE [@ EXCEPT ![len] = NUL]]

string_clear(s) == {[ret |-> Done, s |-> Terminated(s, 0)]}

string_truncate(s, n) ==
  {IF n > s.len THEN [ret |-> Refused, s |-> s] ELSE [ret |-> Done, s |-> Terminated(s, n)]}

string_pop(s) ==
  IF s.len = 0 THEN {[ret |-> Refused, s |-> s]}
  ELSE {[ret |-> s.buf[s.len - 1], s |-> Terminated(s, s.len - 1)]}

\* Characters that stay are moved down over those that go.
string_retain(s, keep) ==
  LET moved[i \in 0..s.len] ==
        IF i = 0 THEN [b |-> s.buf, n |-> 0]
        ELSE LET to == moved[i - 1] IN
             IF to.b[i - 1] \in keep
             THEN [b |-> [to.b EXCEPT ![to.n] = to.b[i - 1]], n |-> to.n + 1] ELSE to
      end == moved[s.len]
  IN {[ret |-> Done,
       s   |-> IF s.buf = raw_buf_new THEN s ELSE Terminated([s EXCEPT !.buf = end.b], end.n)]}

string_as_ptr(s) == IF s.buf = raw_buf_new THEN CString(<<>>) ELSE s.buf

\* The text C reads there, or all of the buffer if nothing ends it.
CharsOf(s) ==
  LET data == string_as_ptr(s)
      ends == {i \in DOMAIN data : data[i] = NUL} \cup {Cardinality(DOMAIN data)}
  IN [k \in 1..Min(ends) |-> data[k - 1]]

\* string_new_n and string_new_with_capacity: the bytes given are looked at
\* again, and room for them is the first allocation.
string_new_n(chars) ==
  IF HasNul(chars) THEN {[ret |-> Refused, s |-> string_zero]}
  ELSE {IF r.ret = Done
        THEN Lengthened(r, Len(chars), Stored(r.s.buf, 0, Append(chars, NUL)))
        ELSE [ret |-> Refused, s |-> string_zero] : r \in string_reserve(string_zero, Len(chars))}
-------------------------------------------------------------------------------
(* The client *)

VARIABLES
  string,
  other,   \* the result of a split or a clone, or NoString
  asked,   \* the operation called last
  ret      \* and what it answered

stringVars == <<string, other, asked, ret>>

StringInit ==
  /\ string = string_zero /\ other = NoString
  /\ asked = "drop" /\ ret = Done

\* An operation on the string, of which one outcome comes true.
Does(op, outcomes) ==
  /\ other = NoString
  /\ asked' = op /\ \E r \in outcomes : string' = r.s /\ ret' = r.ret
  /\ UNCHANGED other

New == \E word \in Words : Does("new", string_new_n(word)) /\ string = string_zero

Push ==
  \/ \E ch \in Letters : Does("push", string_push(string, ch))
  \/ \E word \in Words : Does("push", string_push_str_n(string, word))

InsertPiece ==
  \E i \in 0..string.len + 1 :
    \/ \E ch \in Letters : Does("insert", string_insert(string, i, ch))
    \/ \E word \in Words : Does("insert", string_insert_str_n(string, i, word))

RemoveOne == \E i \in 0..string.len : Does("remove", string_remove(string, i))
Pop == Does("pop", string_pop(string))
Reserve == \E n \in 0..2 : Does("reserve", string_reserve(string, n))
Clear == Does("clear", string_clear(string))
Truncate == \E n \in 0..string.len + 1 : Does("truncate", string_truncate(string, n))
Retain == \E keep \in SUBSET (Letters \ {NUL}) : Does("retain", string_retain(string, keep))
Drop == Does("drop", {[ret |-> Done, s |-> string_zero]})

SplitOff ==
  /\ other = NoString /\ asked' = "split"
  /\ \E at \in 0..string.len :
       \E r \in string_new_n([k \in 1..string.len - at |-> string_as_ptr(string)[at + k - 1]]) :
         /\ ret' = r.ret
         /\ IF r.ret = Done
            THEN other' = r.s /\ \E t \in string_truncate(string, at) : string' = t.s
            ELSE UNCHANGED <<string, other>>

\* string_clone_obj; the second malloc, of the object, may be refused too, and
\* the copy is dropped then.
Clone ==
  /\ other = NoString /\ asked' = "clone"
  /\ \E r \in string_new_n([k \in 1..string.len |-> string_as_ptr(string)[k - 1]]) :
       \/ r.ret = Done /\ ret' = Done /\ other' = r.s
       \/ ret' = Refused /\ UNCHANGED other
  /\ UNCHANGED string

\* With two strings the client keeps one and drops the other.
KeepOne ==
  /\ other # NoString /\ other' = NoString
  /\ string' \in {string, other} /\ asked' = "keep" /\ ret' = Done

StringNext ==
  \/ New \/ Push \/ InsertPiece \/ RemoveOne \/ Pop \/ Reserve \/ Clear \/ Truncate
  \/ Retain \/ Drop \/ SplitOff \/ Clone \/ KeepOne

StringSpec == StringInit /\ [][StringNext]_stringVars
-------------------------------------------------------------------------------
\* What C reads and what string_len says are the same text, and each call does
\* to it what its name says or, refused, nothing: TextSpec.
AsText == INSTANCE TextSpec WITH
  text  <- CharsOf(string),
  size  <- string.len,
  other <- IF other = NoString THEN NoString ELSE CharsOf(other),
  NoText <- NoString

KeepsText == AsText!Text
===============================================================================
