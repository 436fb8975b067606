----------------------------- MODULE MCContainers -----------------------------
(***************************************************************************)
(* Every container in one run: which picks the one that is used, so that   *)
(* their state spaces add.                                                 *)
(*                                                                         *)
(* Binary heap: six elements with these ranks are the least number for     *)
(* which a removal must sift up: 3 at the root, 2 above 2 on the right,    *)
(* 1 above 1 and 1 on the left.  Tables: five elements with four keys, two *)
(* of which start their probe at the same slot, a third at the next and    *)
(* the fourth where the probe wraps; the fourth key makes the table grow.  *)
(***************************************************************************)
EXTENDS Containers, BinaryHeap, RingBufferClient

VARIABLE which

MCItems == 1..6
MCRank == [x \in MCItems |-> IF x <= 3 THEN 1 ELSE IF x <= 5 THEN 2 ELSE 3]

MCElements == 1..5
MCKeyOf == [e \in MCElements |-> IF e = 5 THEN 1 ELSE e]
MCHash == [k \in 1..4 |-> IF k <= 2 THEN 1 ELSE IF k = 3 THEN 2 ELSE 7]
MCOffered ==
  [k \in {"vec", "list"} \cup Deques \cup Tables |->
     CASE k \in Tables -> MCElements [] k = "list" -> 1..3 [] OTHER -> 1..4]
MCZeroable == DOMAIN MCOffered \ {"list"}

allVars == <<which, containerVars, vars, ring>>

MCInit ==
  /\ which \in {"container", "heap", "ring"}
  /\ ContainersInit /\ (which # "container" => kind = "vec")
  /\ Init
  /\ RingInit /\ (which # "ring" => ring.buf = [s \in Slots |-> CHOOSE v \in Values : TRUE])

MCNext ==
  /\ UNCHANGED which
  /\ \/ which = "container" /\ ContainersNext /\ UNCHANGED <<vars, ring>>
     \/ which = "heap" /\ Next /\ UNCHANGED <<containerVars, ring>>
     \/ which = "ring" /\ RingNext /\ UNCHANGED <<containerVars, vars>>

\* A loop of a container that was begun goes on.
MCSpec ==
  MCInit /\ [][MCNext]_allVars /\ WF_containerVars(Turn)
===============================================================================
