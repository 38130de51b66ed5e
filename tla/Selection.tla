------------------------------ MODULE Selection ------------------------------
(***************************************************************************)
(* Selection from a sequence, as Vec::retain and Iterator::filter do it.   *)
(***************************************************************************)
EXTENDS Naturals, Sequences

\* The elements of a sequence that are in a set, in their order.  This is
\* SelectSeq(s, LAMBDA e : e \in S) in a form that proofs can expand.
Selected(s, S) ==
  LET kept[n \in 0..Len(s)] ==
        IF n = 0 THEN <<>>
        ELSE IF s[n] \in S THEN Append(kept[n - 1], s[n]) ELSE kept[n - 1]
  IN  kept[Len(s)]
=============================================================================
