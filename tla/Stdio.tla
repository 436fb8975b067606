--------------------------------- MODULE Stdio ---------------------------------
(***************************************************************************)
(* lib/01log/print/early_stdio.c: formatted output and input, for a client *)
(* that prints a format to the console and into a buffer at once, and has  *)
(* what it printed typed in again and scanned with the same format.        *)
(*                                                                         *)
(* A format is a sequence of directives                                    *)
(*   [conv, scan, width, zero, long, arg]                                  *)
(* of which conv is the conversion that prints, scan the one that reads it *)
(* back and arg what goes with it.  "lit" prints the character arg.  The   *)
(* cases i and l of printf are d with another argument type.               *)
(***************************************************************************)
EXTENDS StringNoAlloc

CONSTANTS
  Formats,   \* the formats the client uses
  Caps,      \* the sizes of the buffer
  IntBits,   \* the width of i32
  LongBits,  \* the width of long and long long
  Memory,    \* what the buffer held before
  Typed      \* what is typed after the text

ASSUME StdioAssumption ==
  /\ Memory \in Seq(Nat) /\ Memory # <<>> /\ Caps \subseteq 0..Len(Memory)
  /\ \A f \in Formats :
       /\ Len(f) \in Nat /\ DOMAIN f = 1..Len(f)
       /\ \A k \in DOMAIN f :
            /\ f[k].width \in Nat
            /\ CASE f[k].conv = "s" -> f[k].arg \in Seq(Nat)
                 [] f[k].conv = "d" -> f[k].arg \in Int
                 [] OTHER -> f[k].arg \in Nat

Minus == 45
Plus == 43
Zero == 48
Percent == 37
-------------------------------------------------------------------------------
(* Output *)

\* Mutant: what does not fit is not counted.
out_emit_capped(o, ch) ==
  IF o.cap = 0 THEN [o EXCEPT !.buf = Append(@, ch), !.len = @ + 1]
  ELSE IF o.len + 1 < o.cap THEN [o EXCEPT !.buf[o.len + 1] = ch, !.len = @ + 1]
  ELSE o

\* struct out: cap = 0 is the console.
out_emit(o, ch) ==
  [cap |-> o.cap,
   len |-> o.len + 1,
   buf |-> IF o.cap = 0 THEN Append(o.buf, ch)
           ELSE IF o.len + 1 < o.cap THEN [o.buf EXCEPT ![o.len + 1] = ch]
           ELSE o.buf]

out_write(o, text) ==
  LET written[k \in 0..Len(text)] ==
        IF k = 0 THEN o ELSE out_emit(written[k - 1], text[k])
  IN written[Len(text)]

uabs_ll(v) == IF v < 0 THEN -(v + 1) + 1 ELSE v

Digit(d, upper) == IF d < 10 THEN Zero + d ELSE (IF upper THEN 65 ELSE 97) + d - 10

Pad(n, ch) == [k \in 1..Max({n, 0}) |-> ch]

emit_uint(v, base, upper, width, zero) ==
  LET left[k \in 0..v + 1] == IF k = 0 THEN v ELSE left[k - 1] \div base
      n == CHOOSE k \in 1..v + 1 : left[k] = 0 /\ (k > 1 => left[k - 1] # 0)
      tmp == [i \in 1..n |-> Digit(left[n - i] % base, upper)]
  IN Pad(width - n, IF zero THEN Zero ELSE Space) \o tmp

\* The minus comes before the padding, spaces too.
emit_int(v, width, zero) ==
  IF v < 0 THEN <<Minus>> \o emit_uint(uabs_ll(v), 10, FALSE, width - 1, zero)
  ELSE emit_uint(v, 10, FALSE, width, zero)

format_field(d) ==
  CASE d.conv = "lit" -> <<d.arg>>
    [] d.conv = "c" -> Pad(d.width - 1, Space) \o <<d.arg>>
    [] d.conv = "s" -> Pad(d.width - Len(d.arg), Space) \o d.arg
    [] d.conv = "d" -> emit_int(d.arg, d.width, d.zero)
    [] d.conv = "u" -> emit_uint(d.arg, 10, FALSE, d.width, d.zero)
    [] d.conv = "x" -> emit_uint(d.arg, 16, FALSE, d.width, d.zero)
    [] d.conv = "X" -> emit_uint(d.arg, 16, TRUE, d.width, d.zero)
    [] d.conv = "p" -> <<Zero, 120>> \o emit_uint(d.arg, 16, FALSE, d.width - 2, TRUE)
    [] OTHER -> <<Percent, d.arg>>
-------------------------------------------------------------------------------
(* Input: the characters to come, the first of them pushed back or not.     *)

in_get(in) == [pushed |-> FALSE, chars |-> Tail(in.chars)]
in_unget(in) == [in EXCEPT !.pushed = TRUE]

\* Mutant: the letter that ended the number is not put back.
StoppedAt_past(in, i) == in_unget([in EXCEPT !.chars = SubSeq(@, i + 1, Len(@))])

\* The input from its i-th character on, which was got and pushed back.
StoppedAt(in, i) == in_unget([in EXCEPT !.chars = SubSeq(@, i, Len(@))])

is_space(ch) == ch \in {Space} \cup 9..13
skip_space(in) ==
  StoppedAt(in, First(1, {i \in DOMAIN in.chars : ~is_space(in.chars[i])}))

ValueOf(ch) ==
  IF ch \in 48..57 THEN ch - 48
  ELSE IF ch \in 97..102 THEN ch - 87
  ELSE IF ch \in 65..70 THEN ch - 55 ELSE -1

\* Base 0 reads the base off the text: 0x, 0 for octal, or decimal.
scan_int(in, base) ==
  LET chars == in.chars
      sign == First(1, {i \in DOMAIN chars : ~is_space(chars[i])})
      head == IF chars[sign] \in {Minus, Plus} THEN sign + 1 ELSE sign
      hex == base = 0 /\ chars[head] = Zero /\ chars[head + 1] \in {120, 88}
      radix == IF base # 0 THEN base ELSE IF hex THEN 16
               ELSE IF chars[head] = Zero THEN 8 ELSE 10
      from == IF hex THEN head + 2 ELSE head
      end == First(from, {i \in DOMAIN chars : ValueOf(chars[i]) \notin 0..radix - 1})
  IN [in    |-> StoppedAt(in, end),
      ok    |-> end > from,
      neg   |-> chars[sign] = Minus,
      value |-> FoldLeft(LAMBDA v, ch : (v * radix + ValueOf(ch)) % 2^LongBits, 0,
                         SubSeq(chars, from, end - 1))]

\* Conversion to a signed type, and a negation in it, wrap.  C does not define
\* the negation of the least integer (early_stdio.c:497-505); the gcc builds of
\* mk/config.mk make it the machine's neg at every -O, which gives it back.
Signed(v, bits) == ((v + 2^(bits - 1)) % 2^bits) - 2^(bits - 1)

\* What a directive of scan_in reads: the rest of the input, whether the call
\* goes on, and the value stored.
scan_number(in, d) ==
  LET r == scan_int(in, CASE d.scan = "i" -> 0 [] d.scan = "x" -> 16 [] OTHER -> 10)
      bits == IF d.long THEN LongBits ELSE IntBits
      v == Signed(r.value, bits)
  IN [in |-> r.in, ok |-> r.ok,
      got |-> <<IF d.scan \in {"u", "x"} THEN r.value % 2^bits
                ELSE IF r.neg THEN Signed(-v, bits) ELSE v>>]

scan_text(in) ==
  LET chars == skip_space(in).chars
      end == First(1, {i \in DOMAIN chars : is_space(chars[i])})
  IN [in |-> StoppedAt([in EXCEPT !.chars = chars], end), ok |-> TRUE,
      got |-> <<SubSeq(chars, 1, end - 1)>>]

scan_field(in, d) ==
  CASE d.conv = "lit" /\ is_space(d.arg) -> [in |-> skip_space(in), ok |-> TRUE, got |-> <<>>]
    [] d.conv = "lit" /\ ~is_space(d.arg) ->
         [in |-> in_get(in), ok |-> in.chars[1] = d.arg, got |-> <<>>]
    [] d.scan = "c" -> [in |-> in_get(in), ok |-> TRUE, got |-> <<in.chars[1]>>]
    [] d.scan = "s" -> scan_text(in)
    [] d.scan \in {"d", "i", "u", "x"} -> scan_number(in, d)
    [] OTHER -> [in |-> in, ok |-> FALSE, got |-> <<>>]
-------------------------------------------------------------------------------
VARIABLES
  fmt,
  place,    \* *p: the directive to be done next
  stage,    \* "print", "scan", or "done"
  console, buffer,
  marks,    \* history: the length of the text after each directive
  in,
  got       \* the values stored by scanf

stdioVars == <<fmt, place, stage, console, buffer, marks, in, got>>

\* early_vsnprintf of no buffer counts only, into one byte of its own.
StdioInit ==
  /\ fmt \in Formats /\ place = 1 /\ stage = "print"
  /\ console = [cap |-> 0, len |-> 0, buf |-> <<>>]
  /\ \E cap \in Caps : buffer = [cap |-> IF cap = 0 THEN 1 ELSE cap, len |-> 0, buf |-> Memory]
  /\ marks = <<0>> /\ in = [pushed |-> FALSE, chars |-> <<>>] /\ got = <<>>

FormatNext ==
  /\ stage = "print" /\ place <= Len(fmt)
  /\ console' = out_write(console, format_field(fmt[place]))
  /\ buffer' = out_write(buffer, format_field(fmt[place]))
  /\ marks' = Append(marks, console'.len)
  /\ place' = place + 1
  /\ UNCHANGED <<fmt, stage, in, got>>

\* The terminator; then the text is typed in.
FormatEnd ==
  /\ stage = "print" /\ place > Len(fmt) /\ stage' = "scan" /\ place' = 1
  /\ buffer' = [buffer EXCEPT !.buf[Min({buffer.len + 1, buffer.cap})] = NUL]
  /\ in' = [pushed |-> FALSE, chars |-> console.buf \o Typed]
  /\ UNCHANGED <<fmt, console, marks, got>>

ScanNext ==
  /\ stage = "scan" /\ place <= Len(fmt)
  /\ LET r == scan_field(in, fmt[place]) IN
     /\ in' = r.in
     /\ IF r.ok THEN got' = got \o r.got /\ place' = place + 1 /\ UNCHANGED stage
        ELSE UNCHANGED <<got, place>> /\ stage' = "done"
  /\ UNCHANGED <<fmt, console, buffer, marks>>

\* scanf returns, and a character it had pushed back is gone with its struct
\* in; another call goes on from white space in the format.
ScanReturns ==
  /\ stage = "scan" /\ place \in 2..Len(fmt)
  /\ fmt[place].conv = "lit" /\ is_space(fmt[place].arg)
  /\ in.pushed
  /\ in' = in_get(in)
  /\ UNCHANGED <<fmt, place, stage, console, buffer, marks, got>>

ScanEnd ==
  /\ stage = "scan" /\ place > Len(fmt) /\ stage' = "done"
  /\ UNCHANGED <<fmt, place, console, buffer, marks, in, got>>

StdioNext == FormatNext \/ FormatEnd \/ ScanNext \/ ScanReturns \/ ScanEnd

StdioSpec == StdioInit /\ [][StdioNext]_stdioVars
-------------------------------------------------------------------------------
Numbers == {"d", "u", "x", "X", "p"}

\* A field without its padding, a 0x and a minus, as a number.
Magnitude(field, base) ==
  LET value[k \in 0..Len(field)] ==
        IF k = 0 THEN 0
        ELSE IF field[k] \in {Minus, Space, 120} THEN value[k - 1]
        ELSE value[k - 1] * base + ValueOf(field[k])
  IN value[Len(field)]

FieldRight(d, field) ==
  LET base == IF d.conv \in {"d", "u"} THEN 10 ELSE 16
      digit == First(1, {i \in DOMAIN field : ValueOf(field[i]) >= 0})
  IN /\ d.conv \in Numbers \cup {"c", "s"} => Len(field) >= d.width
     /\ d.conv \in Numbers =>
          /\ Magnitude(field, base) = IF d.arg < 0 THEN -d.arg ELSE d.arg
          /\ Minus \in Range(field) <=> d.arg < 0
          /\ Len(field) > d.width /\ digit < Len(field) /\ d.conv # "p" => field[digit] # Zero
     /\ d.conv = "s" => SubSeq(field, Len(field) - Len(d.arg) + 1, Len(field)) = d.arg

\* What snprintf leaves is what printf shows, cut to the buffer and terminated
\* inside it, with the bytes behind untouched; both return the length of the
\* whole; and each number, character and string is as wide as asked (a directive
\* that printf does not know is shown without its width), a number with its value.
PrintsWhole ==
  stage # "print" =>
    LET n == Min({console.len, buffer.cap - 1}) IN
    /\ console.len = Len(console.buf) /\ buffer.len = console.len
    /\ SubSeq(buffer.buf, 1, n) = SubSeq(console.buf, 1, n)
    /\ buffer.buf[n + 1] = NUL
    /\ \A i \in DOMAIN Memory : i > n + 1 => buffer.buf[i] = Memory[i]
    /\ \A k \in DOMAIN fmt : FieldRight(fmt[k], SubSeq(console.buf, marks[k] + 1, marks[k + 1]))

\* Where a text can be read back at all: no spaces between a minus and its
\* digits, no zeroes that make a number octal, a %c without padding, a %s that
\* white space ends.
Readable(d, isLast, next) ==
  CASE d.conv = "lit" -> TRUE
    [] d.conv = "c" -> d.width <= 1
    [] d.conv = "s" -> isLast \/ is_space(next.arg)
    [] d.conv = "d" -> /\ d.arg < 0 => d.zero \/ d.width <= 2
                       /\ d.scan = "i" => ~d.zero
    [] d.conv = "?" -> FALSE
    [] OTHER -> TRUE

\* scanf reads back what printf wrote, the least integers and text after a
\* number included, in one call or in several that part at white space.
RoundTrip ==
  stage = "done" =>
    ((\A k \in DOMAIN fmt : Readable(fmt[k], k = Len(fmt), fmt[Min({k + 1, Len(fmt)})])) =>
       got = [k \in 1..Len(SelectSeq(fmt, LAMBDA d : d.conv # "lit")) |->
                SelectSeq(fmt, LAMBDA d : d.conv # "lit")[k].arg])
===============================================================================
