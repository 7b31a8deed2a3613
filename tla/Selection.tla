----------------------------- MODULE Selection -----------------------------
(***************************************************************************)
(* A loop over a vector that takes some of the elements.  SelectSeq, with  *)
(* a set in place of the test: what the loop takes can be reasoned about.  *)
(***************************************************************************)
EXTENDS Naturals, Sequences

\* The elements of s that are in good, in their order.
Filter(s, good) ==
  LET kept[n \in 0..Len(s)] ==
        IF n = 0 THEN <<>>
        ELSE IF s[n] \in good THEN Append(kept[n - 1], s[n]) ELSE kept[n - 1]
  IN  kept[Len(s)]
=============================================================================
