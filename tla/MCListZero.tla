------------------------------ MODULE MCListZero ------------------------------
(* Constants for the run of Containers that ends in a violation: one linked  *)
(* list that may be dropped when all zero.                                   *)
EXTENDS Containers
MCListOnly == [k \in {"list"} |-> {1, 2}]
MCIdentity == [e \in {1, 2} |-> e]
===============================================================================
