------------------------------- MODULE Filter -------------------------------
(* What is left of a sequence.  It is SelectSeq with a set for the test, so   *)
(* that what it keeps can be stated and proved once.                          *)
EXTENDS Naturals, Sequences

\* The elements of s that are in S, in their order.
Only(s, S) ==
  LET kept[i \in 0 .. Len(s)] ==
        IF i = 0 THEN <<>>
        ELSE IF s[i] \in S THEN Append(kept[i - 1], s[i]) ELSE kept[i - 1]
  IN  kept[Len(s)]
=============================================================================
