---------------------------- MODULE StringNoAlloc ----------------------------
(***************************************************************************)
(* lib/02core/string_no_alloc: memory and C strings without an allocator.  *)
(*                                                                         *)
(* A character is its ASCII code.  What a pointer points to is a function  *)
(* on 0..n - 1, and a pointer into it is an index.  A loop that walks a    *)
(* string stops at the first index where its condition fails, which is     *)
(* given as the set of those where it does.  A walk that leaves the memory *)
(* has no value, which stops TLC with an error.                            *)
(***************************************************************************)
EXTENDS Integers, Sequences, SequencesExt

NULL == -1
NUL == 0
Space == 32
Slash == 47

First(from, stops) == Min({i \in stops : i >= from})

\* The C string of a sequence of characters, and the other way round.
CString(seq) == [i \in 0..Len(seq) |-> IF i < Len(seq) THEN seq[i + 1] ELSE NUL]
At(s, from) == [i \in 0..Cardinality(DOMAIN s) - from - 1 |-> s[from + i]]

ascii_lower(ch) == IF ch \in 65..90 THEN ch + 32 ELSE ch
ascii_space(ch) == ch \in {Space} \cup 9..13
Lowered(s) == [i \in DOMAIN s |-> ascii_lower(s[i])]
-------------------------------------------------------------------------------
(* Memory *)

\* One byte after the other, in the given order.
Copied(b, to, from, order) ==
  LET moved[k \in 0..Len(order)] ==
        IF k = 0 THEN b
        ELSE LET m == moved[k - 1] IN [m EXCEPT ![to + order[k]] = m[from + order[k]]]
  IN moved[Len(order)]

Upwards(n) == [k \in 1..n |-> k - 1]
Downwards(n) == [k \in 1..n |-> n - k]

memcpy(b, to, from, n) == Copied(b, to, from, Upwards(n))

\* Mutant: the copy always goes upwards.
memmove_up(b, to, from, n) == Copied(b, to, from, Upwards(n))

memmove(b, to, from, n) ==
  Copied(b, to, from, IF to < from \/ to - from >= n THEN Upwards(n) ELSE Downwards(n))

memcmp(l, r, n) ==
  LET different == {i \in 0..n - 1 : l[i] # r[i]} IN
  IF different = {} THEN 0 ELSE l[Min(different)] - r[Min(different)]

memchr(s, ch, n) ==
  LET hits == {i \in 0..n - 1 : s[i] = ch} IN IF hits = {} THEN NULL ELSE Min(hits)

memrchr(s, ch, n) ==
  LET hits == {i \in 0..n - 1 : s[i] = ch} IN IF hits = {} THEN NULL ELSE Max(hits)

memmem(h, hLen, n, nLen) ==
  LET hits == {i \in 0..hLen - nLen : memcmp(At(h, i), n, nLen) = 0} IN
  IF nLen = 0 THEN 0 ELSE IF hits = {} THEN NULL ELSE Min(hits)
-------------------------------------------------------------------------------
(* Comparing and searching *)

\* Where s has one of these characters, and where two strings are not the same
\* or end.  A bound counts where a pointer may still point.
Places(s, chars) == {i \in DOMAIN s : s[i] \in chars}
Differ(l, r) == {i \in DOMAIN l \cap DOMAIN r : l[i] = NUL \/ l[i] # r[i]}
Bound(s, n) == {n} \cap 0..Cardinality(DOMAIN s)

strlen(s) == First(0, Places(s, {NUL}))

strnlen(s, n) == First(0, Bound(s, n) \cup Places(s, {NUL}))

strcmp(l, r) == LET i == First(0, Differ(l, r)) IN l[i] - r[i]

strncmp(l, r, n) ==
  LET i == First(0, Bound(l, n) \cup Differ(l, r)) IN
  IF i = n THEN 0 ELSE l[i] - r[i]

strcasecmp_ascii(l, r) == strcmp(Lowered(l), Lowered(r))
strncasecmp_ascii(l, r, n) == strncmp(Lowered(l), Lowered(r), n)

strchrnul(s, ch) == First(0, Places(s, {ch, NUL}))

strchr(s, ch) == LET i == strchrnul(s, ch) IN IF s[i] = ch THEN i ELSE NULL

strrchr(s, ch) == memrchr(s, ch, strlen(s) + 1)

strnchr(s, n, ch) ==
  LET i == First(0, Bound(s, n) \cup Places(s, {ch, NUL})) IN
  IF i < n /\ s[i] = ch THEN i ELSE NULL

\* The inner loop of strstr, from h[i] on: did it come to the needle's end?
Starts(h, i, n) ==
  n[First(0, {j \in DOMAIN n : n[j] = NUL \/ h[i + j] # n[j]})] = NUL

\* The needle matches while the walk is inside the first len characters.
StartsWithin(h, i, n, len) ==
  n[First(0, {j \in DOMAIN n : n[j] = NUL \/ i + j >= len \/ h[i + j] # n[j]})] = NUL

\* The outer loop does not come to the end of the text.
Search(n, hits) == IF n[0] = NUL THEN 0 ELSE IF hits = {} THEN NULL ELSE Min(hits)

strstr(h, n) == Search(n, {i \in 0..strlen(h) - 1 : Starts(h, i, n)})

\* Mutant: the needle may reach past len.
strnstr_over(h, n, len) == Search(n, {i \in 0..strnlen(h, len) - 1 : Starts(h, i, n)})

strnstr(h, n, len) ==
  Search(n, {i \in 0..strnlen(h, len) - 1 : StartsWithin(h, i, n, len)})

strcasestr_ascii(h, n) == strstr(Lowered(h), Lowered(n))

strspn(s, from, accept) == First(from, {i \in DOMAIN s : s[i] = NUL \/ s[i] \notin accept})
strcspn(s, from, reject) == First(from, Places(s, reject \cup {NUL}))

strpbrk(s, accept) ==
  LET i == strcspn(s, 0, accept) IN IF s[i] = NUL THEN NULL ELSE i

strstarts(s, prefix) == Starts(s, 0, prefix)

strends(s, suffix) ==
  /\ strlen(suffix) <= strlen(s)
  /\ memcmp(At(s, strlen(s) - strlen(suffix)), suffix, strlen(suffix)) = 0

kbasename(path) ==
  LET slashes == {i \in 0..strlen(path) - 1 : path[i] = Slash} IN
  IF slashes = {} THEN 0 ELSE Max(slashes) + 1
-------------------------------------------------------------------------------
(* Bounded copies: what is returned, and what the destination becomes.      *)

Written(dest, at, s, n) ==
  [i \in DOMAIN dest |->
     IF i \in at..at + n - 1 THEN s[i - at] ELSE IF i = at + n THEN NUL ELSE dest[i]]

strlcpy(dest, s, size) ==
  [ret  |-> strlen(s),
   dest |-> IF size = 0 THEN dest ELSE Written(dest, 0, s, Min({strlen(s), size - 1}))]

\* Mutant: the room is one letter too large.
strlcat_late(dest, s, size) ==
  LET len == strnlen(dest, size) IN
  [ret  |-> len + strlen(s),
   dest |-> IF len + 1 < size THEN Written(dest, len, s, Min({strlen(s), size - len})) ELSE dest]

\* A destination without a terminator in its size is left alone.
strlcat(dest, s, size) ==
  LET len == strnlen(dest, size) IN
  [ret  |-> len + strlen(s),
   dest |-> IF len + 1 < size THEN Written(dest, len, s, Min({strlen(s), size - len - 1})) ELSE dest]

strscpy(dest, s, size) ==
  IF size = 0 THEN [ret |-> -1, dest |-> dest]
  ELSE LET n == strnlen(s, size - 1) IN
       [ret |-> IF s[n] = NUL THEN n ELSE -1, dest |-> Written(dest, 0, s, n)]

stpcpy(dest, s) == [ret |-> strlen(s), dest |-> Written(dest, 0, s, strlen(s))]
-------------------------------------------------------------------------------
(* Tokens and spaces: pointers into a text that is cut up where it lies.    *)

\* ret is the token, rest is what *stringp becomes.
strsep(s, p, delim) ==
  IF p = NULL THEN [ret |-> NULL, rest |-> NULL, s |-> s]
  ELSE LET end == strcspn(s, p, delim) IN
       [ret  |-> p,
        rest |-> IF s[end] = NUL THEN NULL ELSE end + 1,
        s    |-> [s EXCEPT ![end] = NUL]]

\* Mutant: the place to go on is the token just found.
strtok_r_again(s, p, delim) ==
  LET from == strspn(s, p, delim)
      end == strcspn(s, from, delim)
  IN IF p = NULL THEN [ret |-> NULL, rest |-> NULL, s |-> s]
     ELSE IF s[from] = NUL THEN [ret |-> NULL, rest |-> from, s |-> s]
     ELSE [ret |-> from, rest |-> IF s[end] = NUL THEN end ELSE end + 1, s |-> s]

\* p is the string of the first call and *saveptr of the others.
strtok_r(s, p, delim) ==
  LET from == strspn(s, p, delim)
      end == strcspn(s, from, delim)
  IN IF p = NULL THEN [ret |-> NULL, rest |-> NULL, s |-> s]
     ELSE IF s[from] = NUL THEN [ret |-> NULL, rest |-> from, s |-> s]
     ELSE [ret  |-> from,
           rest |-> IF s[end] = NUL THEN end ELSE end + 1,
           s    |-> [s EXCEPT ![end] = NUL]]

skip_spaces(s) == First(0, {i \in DOMAIN s : ~ascii_space(s[i])})

strim(s) ==
  LET start == skip_spaces(s)
      end == Max({start} \cup {i \in start + 1..strlen(s) : ~ascii_space(s[i - 1])})
  IN [ret |-> start, s |-> [s EXCEPT ![end] = NUL]]
===============================================================================
