-------------------------------- MODULE TextSpec --------------------------------
(***************************************************************************)
(* What a String promises: a text without NUL, changed as the call that    *)
(* was made says or, when the call is refused, not at all.                 *)
(***************************************************************************)
EXTENDS Integers, Sequences, SequencesExt

CONSTANTS Letters, Words, NoText

VARIABLES text, size, other, asked, ret

OK == ret' = 0
Refusal == ret' < 0 /\ UNCHANGED text
Given == Words \cup {<<ch>> : ch \in Letters}
Spliced(i, drop, new) ==
  SubSeq(text, 1, i) \o new \o SubSeq(text, i + drop + 1, Len(text))

\* A piece with a NUL is refused whatever memory there is.
Put(i) == \E piece \in Given : OK /\ 0 \notin Range(piece) /\ text' = Spliced(i, 0, piece)

\* The characters of a set, in their order.
Kept(keep) ==
  LET kept[n \in 0..Len(text)] ==
        IF n = 0 THEN <<>>
        ELSE IF text[n] \in keep THEN Append(kept[n - 1], text[n]) ELSE kept[n - 1]
  IN kept[Len(text)]

Takes(i) == text # <<>> /\ ret' = text[i + 1] /\ text' = Spliced(i, 1, <<>>)

One ==
  /\ \/ asked' = "new" /\ (Refusal \/ (OK /\ text' \in Words))
     \/ asked' = "push" /\ (Refusal \/ Put(Len(text)))
     \/ asked' = "insert" /\ (Refusal \/ \E i \in 0..Len(text) : Put(i))
     \/ asked' = "remove" /\ (Refusal \/ \E i \in 0..Len(text) - 1 : Takes(i))
     \/ asked' = "pop" /\ IF text = <<>> THEN Refusal ELSE Takes(Len(text) - 1)
     \/ asked' = "reserve" /\ ret' \in {0, -1} /\ UNCHANGED text
     \/ asked' \in {"clear", "drop"} /\ OK /\ text' = <<>>
     \/ asked' = "truncate"
        /\ (Refusal \/ \E n \in 0..Len(text) : OK /\ text' = SubSeq(text, 1, n))
     \/ asked' = "retain" /\ OK /\ \E keep \in SUBSET Letters : text' = Kept(keep)
  /\ UNCHANGED other

Two ==
  \/ asked' \in {"split", "clone"} /\ Refusal /\ UNCHANGED other
  \/ asked' = "split" /\ OK /\ text = text' \o other'
  \/ asked' = "clone" /\ OK /\ other' = text /\ UNCHANGED text
  \/ asked' = "keep" /\ OK /\ other' = NoText /\ text' \in {text, other}

\* The length kept is the length read.
Text ==
  /\ text = <<>> /\ size = 0 /\ other = NoText
  /\ [][(One \/ Two) /\ size' = Len(text')]_<<text, size, other, asked, ret>>
===============================================================================
