------------------------------- MODULE MCMemory -------------------------------
(***************************************************************************)
(* The kernel heap, the page provider and a client of malloc that asks for *)
(* three blocks at a time, in one run: which picks the one that is used,   *)
(* so that their state spaces add.                                         *)
(*                                                                         *)
(* Heap: sizes that align, misalign, fill and wrap, and addresses that     *)
(* start a block or not.  Pages: memory holds NULL or a page of the        *)
(* provider.  Table: four keys that collide, one of them with two          *)
(* elements, enough to grow a table of four slots.                         *)
(***************************************************************************)
EXTENDS SimpleAlloc, PageMemory, TableArrays

VARIABLE which

MCSizes == {0, 1, 3, 4, 10, 31}
MCAddresses == {0, 1, 3, 4, 5, 7, 9, 11}

MCContents == {0, 12}

MCKeyOf == [e \in 1..5 |-> IF e = 5 THEN 1 ELSE e]
MCHash == [k \in 1..4 |-> IF k = 4 THEN 7 ELSE 3]

allVars == <<which, vars, pageVars, arrayVars>>

MCInit ==
  /\ which \in {"heap", "pages", "table"}
  /\ Init
  /\ PagesInit /\ (which # "pages" => mem = [a \in Words |-> 0])
  /\ ArraysInit

MCNext ==
  /\ UNCHANGED which
  /\ \/ which = "heap" /\ Next /\ UNCHANGED <<pageVars, arrayVars>>
     \/ which = "pages" /\ PagesNext /\ UNCHANGED <<vars, arrayVars>>
     \/ which = "table" /\ ArraysNext /\ UNCHANGED <<vars, pageVars>>

MCSpec == MCInit /\ [][MCNext]_allVars
===============================================================================
