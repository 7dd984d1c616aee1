------------------------------ MODULE Selection ------------------------------
(***************************************************************************)
(* A list comprehension with a filter, as the evaluation's text functions  *)
(* use it.                                                                 *)
(***************************************************************************)
EXTENDS SequencesExt

\* The elements of `s` that are not among the dropped ones, in order.
Without(s, dropped) ==
    FoldLeft(LAMBDA kept, x : IF x \in dropped THEN kept ELSE Append(kept, x), <<>>, s)
=============================================================================
