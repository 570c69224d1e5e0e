--------------------------- MODULE MCOrderExecution ---------------------------
(* Two calls of execute_order in two workers, every argument, every fault. *)
EXTENDS OrderExecution, TLC

Interchangeable == Permutations(Calls)
=============================================================================
