--------------------------- MODULE PriorityQueueSpec ---------------------------
(***************************************************************************)
(* What 04data_structure/binary_heap promises: a collection that hands out *)
(* its greatest member first and takes out any member that equals a given  *)
(* one.  Which of several equals it picks is left open.                    *)
(***************************************************************************)
EXTENDS Integers

CONSTANTS
  Items,   \* the elements, each moved in and out as a whole
  Rank,    \* cmp(a, b) > 0 iff Rank[a] > Rank[b]
  NoItem

VARIABLES
  members,   \* the elements in the queue
  last       \* the last call and the element it was about

queueVars == <<members, last>>

Answer(call, x) == [call |-> call, item |-> x]

Above(a, b) == Rank[a] > Rank[b]

QueueInit == members = {} /\ last = Answer("new", NoItem)

Add(x) ==
  /\ x \notin members
  /\ members' = members \cup {x}
  /\ last' = Answer("pushed", x)

\* Without memory the caller keeps the element, and the queue what it has.
Refuse(x) == last' = Answer("refused", x) /\ UNCHANGED members

TakeGreatest(x) ==
  /\ x \in members
  /\ \A y \in members : ~Above(y, x)
  /\ members' = members \ {x}
  /\ last' = Answer("popped", x)

Empty == members = {} /\ last' = Answer("empty", NoItem) /\ UNCHANGED members

TakeEqual(x, equals) ==
  /\ x \in members \cap equals
  /\ members' = members \ {x}
  /\ last' = Answer("removed", x)

Absent(equals) ==
  /\ members \cap equals = {}
  /\ last' = Answer("absent", NoItem)
  /\ UNCHANGED members

Clear == members' = {} /\ last' = Answer("cleared", NoItem)

QueueNext ==
  \/ \E x \in Items : Add(x) \/ Refuse(x) \/ TakeGreatest(x)
  \/ \E equals \in SUBSET Items :
       Absent(equals) \/ \E x \in Items : TakeEqual(x, equals)
  \/ Empty
  \/ Clear

QueueSpec == QueueInit /\ [][QueueNext]_queueVars
================================================================================
