----------------------------- MODULE MCTradingDesk -----------------------------
(* Runs and stocks for TLC: a call of execute_order per run and stock. *)
EXTENDS TradingDesk, TLC

EveryCall == Runs \X Stocks
Alike == Permutations(Stocks) \cup Permutations(Pipelines)
=============================================================================
