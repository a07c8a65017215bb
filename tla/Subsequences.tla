---------------------------- MODULE Subsequences ----------------------------
(***************************************************************************)
(* What a pass over a sequence keeps: the elements at some of its indices, *)
(* in their order.  (A filter by index, so that what left and what stayed  *)
(* can be told apart, and without an operator as parameter.)               *)
(***************************************************************************)
EXTENDS Naturals, Sequences

ElementsAt(seq, I) ==
  LET upto[i \in 0..Len(seq)] ==
        IF i = 0 THEN << >>
        ELSE IF i \in I THEN Append(upto[i - 1], seq[i]) ELSE upto[i - 1]
  IN upto[Len(seq)]
=============================================================================
