------------------------------- MODULE PageSpec -------------------------------
(***************************************************************************)
(* What lib/pmm promises: malloc_page hands out a page nobody owns, and    *)
(* answers NULL only when every page is owned; a page that was given back  *)
(* can be handed out again.                                                *)
(***************************************************************************)
CONSTANTS Pages, NoPage

VARIABLES
  owned,   \* the pages handed out and not given back
  given    \* the answer of the last malloc_page, NULL after other calls

PoolInit == owned = {} /\ given = NoPage

Take ==
  \E p \in Pages \ owned : given' = p /\ owned' = owned \cup {p}

Exhausted == owned = Pages /\ given' = NoPage /\ UNCHANGED owned

Give == \E p \in owned : owned' = owned \ {p} /\ given' = NoPage

Ignore == given' = NoPage /\ UNCHANGED owned

PoolNext == Take \/ Exhausted \/ Give \/ Ignore

Pool == PoolInit /\ [][PoolNext]_<<owned, given>>
===============================================================================
