----------------------------- MODULE WindowSpec -----------------------------
(***************************************************************************)
(* What a ring buffer that overwrites promises: it holds the newest        *)
(* Capacity elements pushed and not yet popped, oldest first.              *)
(***************************************************************************)
EXTENDS Naturals, Sequences

CONSTANTS Values, Capacity

VARIABLE window

\* The sequence after a push: full, it loses its oldest element.
Pushed(s, e) ==
  IF Capacity = 0 THEN s
  ELSE IF Len(s) < Capacity THEN Append(s, e) ELSE Append(Tail(s), e)

WindowInit == window = <<>>

WindowPush == \E e \in Values : window' = Pushed(window, e)

WindowPop == window # <<>> /\ window' = Tail(window)

WindowClear == window' = <<>>

WindowNext == WindowPush \/ WindowPop \/ WindowClear

Window == WindowInit /\ [][WindowNext]_window
=============================================================================
