---------------------------- MODULE Subsequences ----------------------------
(***************************************************************************)
(* The elements of a sequence at some of its positions, in their order:    *)
(* SelectSeq with the positions in place of a test.  The proof system      *)
(* cannot look into SelectSeq.                                             *)
(***************************************************************************)
EXTENDS Naturals, Sequences

Picked(q, I) ==
    LET pick[n \in 0 .. Len(q)] ==
          IF n = 0 THEN <<>> ELSE IF n \in I THEN Append(pick[n - 1], q[n]) ELSE pick[n - 1]
    IN  pick[Len(q)]
=============================================================================
