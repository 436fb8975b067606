-------------------------------- MODULE MapSpec --------------------------------
(***************************************************************************)
(* What the hash table promises: a function from keys to values.  The      *)
(* value object of an insertion replaces the one of its key.               *)
(***************************************************************************)
EXTENDS Integers

CONSTANTS Elements, KeyOf, NoTwin

VARIABLES
  map,     \* from the keys present to the element whose value they have
  twin,    \* a finished clone, or NoTwin
  ending   \* whether a clear runs

Without(k) == [j \in DOMAIN map \ {k} |-> map[j]]

Insert ==
  /\ ~ending /\ UNCHANGED <<twin, ending>>
  /\ \E e \in Elements :
       map' = [j \in DOMAIN map \cup {KeyOf[e]} |-> IF j = KeyOf[e] THEN e ELSE map[j]]

Remove ==
  /\ UNCHANGED <<twin, ending>>
  /\ \E k \in DOMAIN map : map' = Without(k)

BeginClear == ~ending /\ ending' = TRUE /\ UNCHANGED <<map, twin>>

EndClear == ending /\ DOMAIN map = {} /\ ending' = FALSE /\ UNCHANGED <<map, twin>>

CloneMap == twin = NoTwin /\ twin' = map /\ UNCHANGED <<map, ending>>

LoseTwin == twin # NoTwin /\ twin' = NoTwin /\ UNCHANGED <<map, ending>>

MapNext == Insert \/ Remove \/ BeginClear \/ EndClear \/ CloneMap \/ LoseTwin

Map ==
  /\ DOMAIN map = {} /\ twin = NoTwin /\ ending = TRUE
  /\ [][MapNext]_<<map, twin, ending>>
===============================================================================
