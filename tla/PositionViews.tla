---------------------------- MODULE PositionViews ----------------------------
(***************************************************************************)
(* The two ways the code reads a position out of acc_position_ledger, a    *)
(* sequence of entries in the order of occurred_at.                        *)
(*                                                                         *)
(*   Net           SUM(quantity_delta): internal_positions                 *)
(*                 (core/pipeline/reconcile.py), get_open_position_count   *)
(*   PositionInfo  the loop of get_position_info                           *)
(*                 (core/pipeline/trader_executor.py), which starts anew   *)
(*                 whenever the quantity falls to zero or below and adds   *)
(*                 up what was paid for the shares bought                  *)
(***************************************************************************)
EXTENDS Integers, SequencesExt

Net(ledger, s) ==
  FoldLeft(LAMBDA n, e : IF e.stock = s THEN n + e.delta ELSE n, 0, ledger)

\* wrong: a sale takes nothing from the quantity
TallyForgetsSales(p, e) ==
  LET qty == IF e.delta > 0 THEN p.qty + e.delta ELSE p.qty
  IN  [qty |-> qty,
       cost |-> p.cost + (IF e.delta > 0 THEN e.delta * e.price ELSE 0)]

\* wrong: a position sold out leaves its cost behind
TallyKeepsCost(p, e) ==
  LET qty == p.qty + e.delta
  IN  [qty |-> IF qty <= 0 THEN 0 ELSE qty,
       cost |-> p.cost + (IF e.delta > 0 THEN e.delta * e.price ELSE 0)]

\* one turn of the loop: qty <= 0 clears both sums, a purchase adds its price
Tally(p, e) ==
  LET qty == p.qty + e.delta
  IN  IF qty <= 0 THEN [qty |-> 0, cost |-> 0]
      ELSE [qty |-> qty,
            cost |-> p.cost + (IF e.delta > 0 THEN e.delta * e.price ELSE 0)]

\* quantity and total cost; the average entry price is cost / qty
PositionInfo(ledger, s) ==
  FoldLeft(LAMBDA p, e : IF e.stock = s THEN Tally(p, e) ELSE p,
           [qty |-> 0, cost |-> 0], ledger)

\* get_open_position_count: the stocks with a positive sum
OpenPositions(ledger, stocks) == {s \in stocks : Net(ledger, s) > 0}
=============================================================================
