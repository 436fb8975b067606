-------------------------------- MODULE RawBuf --------------------------------
(***************************************************************************)
(* lib/04data_structure/rawbuf and lib/03basic/obj: the storage every      *)
(* container grows in, and what moving an object leaves behind.            *)
(*                                                                         *)
(* A buffer is the function from 0..cap - 1 to what the slots hold.  An    *)
(* owned object is a model value; a slot that was zeroed, or never written *)
(* since malloc, is Blank (no operation may read either).                  *)
(*                                                                         *)
(* An operation that may be refused is the set of its outcomes: ok says    *)
(* whether it was done, the other field is the state it leaves.            *)
(***************************************************************************)
EXTENDS Integers, Sequences, FiniteSets

CONSTANTS
  Elements,        \* the objects the containers hold
  Blank,
  FirstCapacity,   \* the capacity of a first allocation, 5 in the code
  MaxCapacity      \* (usize)-1 / elem_size

ASSUME RawBufAssumption ==
  /\ Blank \notin Elements
  /\ FirstCapacity \in Nat \ {0}
  /\ MaxCapacity \in Nat

CapOf(buf) == Cardinality(DOMAIN buf)

raw_buf_new == [i \in {} |-> Blank]

\* The capacity for n slots: half as much again until it is enough.
Grown(have, n) ==
  LET enough[room \in Nat] ==
        IF room >= n THEN room
        ELSE enough[room + (IF room < 2 THEN 1 ELSE room \div 2)]
  IN enough[IF have = 0 THEN FirstCapacity ELSE have]

Extended(buf, room) ==
  [i \in 0..room - 1 |-> IF i \in DOMAIN buf THEN buf[i] ELSE Blank]

\* raw_buf_reserve: what does not fit in usize is refused, and malloc may
\* refuse anything.
Reserved(buf, n) ==
  IF n <= CapOf(buf) THEN {[ok |-> TRUE, buf |-> buf]}
  ELSE LET new == Grown(CapOf(buf), n) IN
       {[ok |-> FALSE, buf |-> buf]} \cup
       (IF new <= MaxCapacity THEN {[ok |-> TRUE, buf |-> Extended(buf, new)]}
        ELSE {})

\* memmove of n slots inside a buffer.
Shifted(buf, to, from, n) ==
  [i \in DOMAIN buf |->
     IF i \in to..to + n - 1 THEN buf[i - to + from] ELSE buf[i]]

\* obj_move out of a slot, and obj_drop of it, leave zeroes.
Vacated(buf, i) == [buf EXCEPT ![i] = Blank]
===============================================================================
