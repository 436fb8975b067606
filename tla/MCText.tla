-------------------------------- MODULE MCText --------------------------------
(***************************************************************************)
(* The three components that work on text in one run: which picks the one  *)
(* that is used, so that their state spaces add.                           *)
(*                                                                         *)
(* Letters are a, b and NUL, with a word that holds a NUL; four growth     *)
(* steps of the buffer and the refusal at its limit.  Lines are made of    *)
(* pieces with letters of both cases, commas, spaces and slashes, also two *)
(* commas side by side.  Formats have two fields each with a comma or a    *)
(* space between; of i32 they hold the least, a small negative, zero and a *)
(* positive value, of the unsigned types the largest.                      *)
(***************************************************************************)
EXTENDS String, TextLine, Stdio

VARIABLE which

MCLetters == {0, 97, 98}
MCWords == {<<>>, <<97, 98>>, <<98, 0>>}

MCPieces == {<<>>, <<97>>, <<65, 44>>, <<32>>, <<44, 97, 47>>}
MCNeedles == {<<>>, <<97>>, <<97, 47>>, <<44, 97>>, <<32, 97>>, <<65>>, <<97, 97, 44>>}
MCDelims == {{44}, {44, 32}, {}}

Directive(conv, scan, long, width, zero, arg) ==
  [conv |-> conv, scan |-> scan, long |-> long, width |-> width, zero |-> zero, arg |-> arg]
Literal(ch) == Directive("lit", "lit", FALSE, 0, FALSE, ch)

MCFields ==
  {Directive("d", scan, FALSE, width, zero, v) :
     scan \in {"d", "i"}, width \in {0, 3}, zero \in BOOLEAN, v \in {-16, -2, 0, 9}}
  \cup {Directive("d", "d", TRUE, 0, FALSE, v) : v \in {-128, 127}}
  \cup {Directive("c", "c", FALSE, width, FALSE, 97) : width \in {0, 2}}
  \cup {Directive("u", "u", FALSE, 0, FALSE, 31),
        Directive("x", "x", FALSE, 3, FALSE, 26),
        Directive("X", "x", TRUE, 4, TRUE, 171),
        Directive("p", "i", TRUE, 5, FALSE, 31),
        Directive("s", "s", FALSE, 4, FALSE, <<65, 66>>),
        Directive("?", "?", FALSE, 0, FALSE, 107)}
MCFormats ==
  {<<a, Literal(ch), b>> : a \in MCFields, b \in MCFields, ch \in {Space, 44}}
MCFirst == CHOOSE f \in MCFormats : TRUE
MCMemory == [i \in 1..8 |-> 63]
MCTyped == <<10, 122, 10, 122, 10>>

allVars == <<which, stringVars, lineVars, stdioVars>>

MCInit ==
  /\ which \in {"string", "line", "stdio"}
  /\ StringInit
  /\ LineInit /\ (which # "line" => size = 0)
  /\ StdioInit /\ (which # "stdio" => buffer.cap = 1 /\ fmt = MCFirst)

MCNext ==
  /\ UNCHANGED which
  /\ \/ which = "string" /\ StringNext /\ UNCHANGED <<lineVars, stdioVars>>
     \/ which = "line" /\ LineNext /\ UNCHANGED <<stringVars, stdioVars>>
     \/ which = "stdio" /\ StdioNext /\ UNCHANGED <<stringVars, lineVars>>

MCSpec == MCInit /\ [][MCNext]_allVars
===============================================================================
