--------------------------------- MODULE Sums ---------------------------------
(* sum() of Python: what the numbers of a sequence add up to. *)
EXTENDS Integers, SequencesExt

Total(s) == FoldLeft(LAMBDA sum, x : sum + x, 0, s)
=============================================================================
