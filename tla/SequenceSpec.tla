----------------------------- MODULE SequenceSpec -----------------------------
(***************************************************************************)
(* What the sequence containers of lib/04data_structure promise: a         *)
(* sequence of distinct objects, changed where the container's discipline  *)
(* allows, that a refused call leaves alone; and a clone equal to it.      *)
(***************************************************************************)
EXTENDS Integers, Sequences

CONSTANTS
  Elements,
  RingCapacity,   \* the length at which a ring buffer drops its oldest
  NoTwin

VARIABLES
  kind,
  seq,
  twin,    \* a finished clone, or NoTwin
  ending   \* the length a clear has to reach, -1 when none runs

Others == Elements \ {seq[i] : i \in DOMAIN seq}

Spliced(i, drop, new) ==
  SubSeq(seq, 1, i) \o new \o SubSeq(seq, i + drop + 1, Len(seq))

Alone == ending = -1 /\ UNCHANGED <<twin, ending>>

AddBack ==
  /\ Alone
  /\ \E e \in Others :
       seq' = IF kind = "ring" /\ Len(seq) = RingCapacity
              THEN Append(Tail(seq), e) ELSE Append(seq, e)

AddFront ==
  /\ Alone /\ kind \in {"deque", "list"}
  /\ \E e \in Others : seq' = <<e>> \o seq

TakeFront ==
  /\ Alone /\ kind \in {"deque", "queue", "ring", "list"} /\ seq # <<>>
  /\ seq' = Tail(seq)

TakeBack ==
  /\ Alone /\ kind \in {"vec", "deque", "stack", "list"} /\ seq # <<>>
  /\ seq' = Spliced(Len(seq) - 1, 1, <<>>)

InsertAt ==
  /\ Alone /\ kind = "vec"
  /\ \E i \in 0..Len(seq), e \in Others : seq' = Spliced(i, 0, <<e>>)

SetAt ==
  /\ Alone /\ kind = "vec"
  /\ \E i \in 0..Len(seq) - 1, e \in Others : seq' = Spliced(i, 1, <<e>>)

TakeAt ==
  /\ Alone /\ kind \in {"vec", "list"}
  /\ \E i \in 0..Len(seq) - 1 : seq' = Spliced(i, 1, <<>>)

\* The last element comes to the place of the one taken.
TakeSwapped ==
  /\ Alone /\ kind = "vec"
  /\ \E i \in 0..Len(seq) - 2 :
       seq' = SubSeq(Spliced(i, 1, <<seq[Len(seq)]>>), 1, Len(seq) - 1)

BeginClear ==
  /\ ending = -1 /\ ending' \in 0..Len(seq)
  /\ kind = "vec" \/ ending' = 0
  /\ UNCHANGED <<seq, twin>>

LoseOne ==
  /\ ending >= 0 /\ Len(seq) > ending
  /\ seq' = IF kind = "list" THEN Tail(seq) ELSE Spliced(Len(seq) - 1, 1, <<>>)
  /\ UNCHANGED <<twin, ending>>

EndClear ==
  /\ ending >= 0 /\ Len(seq) = ending /\ ending' = -1
  /\ UNCHANGED <<seq, twin>>

CloneSeq == twin = NoTwin /\ twin' = seq /\ UNCHANGED <<seq, ending>>

\* Whichever of the two is kept, it is the same sequence.
LoseTwin == twin # NoTwin /\ twin' = NoTwin /\ UNCHANGED <<seq, ending>>

SequenceNext ==
  /\ kind' = kind
  /\ \/ AddBack \/ AddFront \/ TakeFront \/ TakeBack
     \/ InsertAt \/ SetAt \/ TakeAt \/ TakeSwapped
     \/ BeginClear \/ LoseOne \/ EndClear \/ CloneSeq \/ LoseTwin

Sequence ==
  /\ seq = <<>> /\ twin = NoTwin /\ ending = 0
  /\ [][SequenceNext]_<<kind, seq, twin, ending>>
===============================================================================
