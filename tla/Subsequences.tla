---------------------------- MODULE Subsequences ----------------------------
(***************************************************************************)
(* What the backends of tmh-next take from a list: the elements in a set,  *)
(* in their order.                                                         *)
(***************************************************************************)
EXTENDS Integers, Sequences

Chosen(seq, S) ==
    LET upTo[n \in 0 .. Len(seq)] ==
          IF n = 0 THEN << >>
          ELSE IF seq[n] \in S THEN Append(upTo[n - 1], seq[n]) ELSE upTo[n - 1]
    IN  upTo[Len(seq)]
=============================================================================
