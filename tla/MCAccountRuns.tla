----------------------------- MODULE MCAccountRuns -----------------------------
(* Symmetry for TLC. *)
EXTENDS AccountRuns, TLC

Alike == Permutations(Stocks) \cup Permutations(Pipelines)
=============================================================================
