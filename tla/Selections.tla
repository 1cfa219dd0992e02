------------------------------ MODULE Selections ------------------------------
(***************************************************************************)
(* What is left of a sequence when the elements outside a set are dropped: *)
(* the loops of the program that append what passes a test to a list.  It  *)
(* is SelectSeq for a set in the place of a test, so that lemmas about it  *)
(* can be cited without naming an operator.                                *)
(***************************************************************************)
EXTENDS Integers, Sequences

Kept(s, T) ==
  LET kept[i \in 0 .. Len(s)] ==
        IF i = 0 THEN <<>>
        ELSE IF s[i] \in T THEN Append(kept[i - 1], s[i]) ELSE kept[i - 1]
  IN kept[Len(s)]

\* The places of a sequence in order, those in T.
Places(s, T) == Kept([i \in 1 .. Len(s) |-> i], T)
===============================================================================
