------------------------------- MODULE TextLine -------------------------------
(***************************************************************************)
(* A client of string_no_alloc: a buffer of size bytes, with bytes of      *)
(* somebody else behind it, that is filled by bounded copies, searched,    *)
(* and then trimmed or cut into tokens where it lies.                      *)
(***************************************************************************)
EXTENDS StringNoAlloc

CONSTANTS
  Pieces,     \* the sequences of characters copied into the line
  Needles,    \* those searched for in it
  Delims,     \* the sets of delimiters
  Sizes,      \* the sizes the buffer may have
  Room,       \* bytes of memory, more than any size
  MaxWanted,  \* bound on the characters copied since the line was begun
  Garbage     \* what memory held before

ASSUME LineAssumption ==
  /\ Room \in Nat /\ Sizes \subseteq 0..Room - 1
  /\ Garbage # NUL
  /\ \A piece \in Pieces \cup Needles : piece \in Seq(Nat \ {NUL})

VARIABLES
  line, size,
  phase,    \* "garbage" until something was copied, then "fill", "trimmed",
            \* "tokens" while a tokeniser is called, "done" when it ended
  wanted,   \* history: what was to be in the line, however small it is
  cut,      \* history: some copy told the caller that it cut
  how,      \* the tokeniser and its delimiters
  pointer,  \* *stringp, *saveptr, or what strim returned
  tokens    \* the pointers returned

lineVars == <<line, size, phase, wanted, cut, how, pointer, tokens>>

LineInit ==
  /\ line = [i \in 0..Room - 1 |-> Garbage] /\ size \in Sizes
  /\ phase = "garbage" /\ wanted = <<>> /\ cut = FALSE
  /\ how = [call |-> "none", delim |-> {}] /\ pointer = 0 /\ tokens = <<>>

Filled(r, text, isCut) ==
  /\ line' = r.dest /\ wanted' = text /\ cut' = isCut
  /\ phase' = IF size = 0 THEN "garbage" ELSE "fill"
  /\ how' = [call |-> "none", delim |-> {}] /\ pointer' = 0 /\ tokens' = <<>>
  /\ UNCHANGED size

\* A first copy; stpcpy has no bound and is the caller's to use.
Copy ==
  /\ phase # "tokens"
  /\ \E piece \in Pieces :
       LET s == CString(piece) IN
       \/ LET r == strlcpy(line, s, size) IN Filled(r, piece, r.ret >= size)
       \/ LET r == strscpy(line, s, size) IN Filled(r, piece, r.ret = -1)
       \/ Len(piece) < size /\ Filled(stpcpy(line, s), piece, FALSE)

Concatenate ==
  /\ phase \in {"garbage", "fill"}
  /\ \E piece \in Pieces :
       LET r == strlcat(line, CString(piece), size) IN
       /\ Len(wanted) + Len(piece) <= MaxWanted
       /\ line' = r.dest
       /\ IF phase = "fill" THEN wanted' = wanted \o piece /\ cut' = (cut \/ r.ret >= size)
          ELSE UNCHANGED <<wanted, cut>>
  /\ UNCHANGED <<size, phase, how, pointer, tokens>>

Trim ==
  /\ phase = "fill"
  /\ LET r == strim(line) IN line' = r.s /\ pointer' = r.ret
  /\ phase' = "trimmed"
  /\ UNCHANGED <<size, wanted, cut, how, tokens>>

Tokenise ==
  /\ phase = "fill" /\ phase' = "tokens"
  /\ \E call \in {"strsep", "strtok_r"}, delim \in Delims :
       how' = [call |-> call, delim |-> delim]
  /\ UNCHANGED <<line, size, wanted, cut, pointer, tokens>>

Token ==
  /\ phase = "tokens"
  /\ LET r == IF how.call = "strsep" THEN strsep(line, pointer, how.delim)
              ELSE strtok_r(line, pointer, how.delim)
     IN /\ line' = r.s /\ pointer' = r.rest
        /\ tokens' = IF r.ret = NULL THEN tokens ELSE Append(tokens, r.ret)
        /\ phase' = IF r.ret = NULL THEN "done" ELSE "tokens"
  /\ UNCHANGED <<size, wanted, cut, how>>

LineNext == Copy \/ Concatenate \/ Trim \/ Tokenise \/ Token

LineSpec == LineInit /\ [][LineNext]_lineVars
-------------------------------------------------------------------------------
\* The characters of the C string at a place of the line.
TextAt(p) == [k \in 1..strlen(At(line, p)) |-> line[p + k - 1]]

Cut(seq, n) == SubSeq(seq, 1, Min({n, Len(seq)}))

Fits == Cut(wanted, size - 1)

\* Whatever is copied after whatever, the line is the beginning of all of it
\* that fits, with its terminator; nothing outside its size is written; the
\* caller was told of a cut exactly when something is missing; and strlcat
\* leaves a line without a terminator as it is.
CopiesFit ==
  /\ \A i \in size..Room - 1 : line[i] = Garbage
  /\ phase = "garbage" => \A i \in DOMAIN line : line[i] = Garbage
  /\ phase = "fill" => TextAt(0) = Fits /\ cut = (Len(wanted) >= size)

\* Where the fields begin, that lie between delimiters and may be empty, and
\* the field that begins at p.
FieldStarts(text, delim) == {0} \cup {i \in 1..Len(text) : text[i] \in delim}

FieldAt(text, delim, p) ==
  LET end == Min({Len(text) + 1} \cup {i \in p + 1..Len(text) : text[i] \in delim})
  IN SubSeq(text, p + 1, end - 1)

Blanks(seq) == \A k \in DOMAIN seq : ascii_space(seq[k])

\* The tokens, read again after any call, are the fields of the text, in their
\* order and none left out: all of them from strsep, those that are not empty
\* from strtok_r.  What strim returns is the text without the spaces at its
\* ends.
PartsWhole ==
  /\ phase \in {"tokens", "done"} =>
       LET Field(p) == FieldAt(Fits, how.delim, p)
           starts == {p \in FieldStarts(Fits, how.delim) :
                        how.call = "strsep" \/ Field(p) # <<>>}
       IN /\ \A k \in DOMAIN tokens :
               /\ tokens[k] \in starts /\ TextAt(tokens[k]) = Field(tokens[k])
               /\ \A p \in starts : p < tokens[k] <=> \E j \in 1..k - 1 : p = tokens[j]
          /\ phase = "done" => starts \subseteq Range(tokens)
  /\ phase = "trimmed" =>
       LET kept == TextAt(pointer)
           end == pointer + Len(kept)
       IN /\ kept = SubSeq(Fits, pointer + 1, end)
          /\ Blanks(SubSeq(Fits, 1, pointer)) /\ Blanks(SubSeq(Fits, end + 1, Len(Fits)))
          /\ kept # <<>> => ~ascii_space(kept[1]) /\ ~ascii_space(kept[Len(kept)])

Occurs(text, word) ==
  {i \in 0..Len(text) - Len(word) : SubSeq(text, i + 1, i + Len(word)) = word}

FirstOf(set) == IF set = {} THEN NULL ELSE Min(set)

Precedes(x, y) ==
  \E k \in 0..Min({Len(x), Len(y)}) :
    /\ SubSeq(x, 1, k) = SubSeq(y, 1, k)
    /\ k < Len(y) /\ (k < Len(x) => x[k + 1] < y[k + 1])

Lower(seq) == [k \in DOMAIN seq |-> ascii_lower(seq[k])]

\* The searches and comparisons say of the line what the sequences of
\* characters say, also where a needle reaches past the end or past the bound.
SearchesAgree ==
  phase = "fill" =>
    LET text == TextAt(0) IN
    \A needle \in Needles :
      LET n == CString(needle)
          hits == Occurs(text, needle)
          Inside(len) == Occurs(Cut(text, len), needle)
          chars(word) == {i \in 0..Len(text) - 1 : text[i + 1] \in Range(word)}
      IN
      /\ strstr(line, n) = FirstOf(hits)
      /\ memmem(line, Len(text), n, Len(needle)) = FirstOf(hits)
      /\ strcasestr_ascii(line, n) = FirstOf(Occurs(Lower(text), Lower(needle)))
      /\ \A len \in 0..Len(text) + 1 : strnstr(line, n, len) = FirstOf(Inside(len))
      /\ strstarts(line, n) <=> 0 \in hits
      /\ strends(line, n) <=> Len(text) - Len(needle) \in hits
      /\ strcmp(line, n) < 0 <=> Precedes(text, needle)
      /\ strcmp(n, line) < 0 <=> Precedes(needle, text)
      /\ strcasecmp_ascii(line, n) = 0 <=> Lower(text) = Lower(needle)
      /\ \A len \in 0..3 :
           /\ strncmp(line, n, len) < 0
                <=> Precedes(Cut(text, len), Cut(needle, len))
           /\ strncasecmp_ascii(line, n, len) = 0
                <=> Lower(Cut(text, len)) = Lower(Cut(needle, len))
      /\ strpbrk(line, Range(needle)) = FirstOf(chars(needle))
      /\ strspn(line, 0, Range(needle)) = Min((0..Len(text)) \ chars(needle))
      /\ \A ch \in Range(needle) :
           /\ strchr(line, ch) = FirstOf(chars(<<ch>>))
           /\ memchr(line, ch, Len(text)) = FirstOf(chars(<<ch>>))
           /\ strrchr(line, ch) = Max({NULL} \cup chars(<<ch>>))
           /\ strnchr(line, 2, ch) = FirstOf(chars(<<ch>>) \cap 0..1)
           /\ strchrnul(line, ch) = Min({Len(text)} \cup chars(<<ch>>))
      /\ kbasename(line) = strrchr(line, Slash) + 1
===============================================================================
