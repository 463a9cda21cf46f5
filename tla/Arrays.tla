------------------------------- MODULE Arrays -------------------------------
(***************************************************************************)
(* Arrays and vectors indexed from 0, kept as sequences, and the for loop  *)
(* as a fold over the values of its index.  An access out of the bounds of *)
(* an array is an error for TLC.                                           *)
(***************************************************************************)
EXTENDS Integers, Sequences, SequencesExt

At(a, i) == a[i + 1]

Up(from, to) == [k \in 1..(to - from + 1) |-> from + k - 1]
Loop(body(_, _), a, indices) == FoldLeft(body, a, indices)

Larger(a, b) == IF a > b THEN a ELSE b
Smaller(a, b) == IF a < b THEN a ELSE b
=============================================================================
