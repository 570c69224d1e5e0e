------------------------------- MODULE OrderRows -------------------------------
(***************************************************************************)
(* The values the order modules share: the arguments of execute_order      *)
(* (core/pipeline/trader_executor.py), the broker's side of an order, and  *)
(* the rows one order leaves in ord_order, ord_order_event,                *)
(* ord_trade_execution, acc_cash_ledger and acc_position_ledger.           *)
(***************************************************************************)
EXTENDS Integers, Sequences

CONSTANTS
  Calls,      \* calls of execute_order; each sends at most one order
  Stocks,     \* Stock rows
  MaxQty,     \* bound: largest order quantity, in shares
  Prices,     \* prices, in whole currency units
  Costs,      \* fee + tax of one execution
  NoRequest   \* a call that has not been made
-----------------------------------------------------------------------------
Sides == {"BUY", "SELL"}

\* The arguments of execute_order.  "kis" answers now and fills later;
\* "backtest" fills inside create_order and says at what price.
Requests == [stock  : Stocks,
             side   : Sides,
             qty    : 1..MaxQty,
             price  : Prices,
             broker : {"kis", "backtest"}]

ASSUME BookAssumption ==
  /\ MaxQty \in Nat \ {0}
  /\ Prices \subseteq Nat
  /\ Costs \subseteq Nat
  /\ 0 \in Costs
  /\ NoRequest \notin Requests

Fills == [qty : 1..MaxQty, price : Prices, cost : Costs]

Statuses == {"ACCEPTED", "REJECTED", "PARTIALLY_FILLED", "FILLED"}

\* state of the order at the broker, and the shares filled so far
BrokerOrders == [state : {"none", "rejected", "open", "closed"},
                 filled : 0..MaxQty]
-----------------------------------------------------------------------------
(* The rows of one order. *)

Rows(status, events, execs, cash, pos) ==
  [status |-> status, events |-> events, execs |-> execs,
   cash |-> cash, pos |-> pos]

NoRows == Rows("NONE", <<>>, <<>>, <<>>, <<>>)

\* an order row and its first event, as submitted
Submitted(status) == Rows(status, <<status>>, <<>>, <<>>, <<>>)

\* acc_cash_ledger.amount of a fill
CashChange(side, f) ==
  IF side = "BUY" THEN -(f.qty * f.price + f.cost)
                  ELSE f.qty * f.price - f.cost

\* acc_position_ledger.quantity_delta of a fill
QtyDelta(side, f) == IF side = "BUY" THEN f.qty ELSE -f.qty

\* a comparison that forgets the complete fill
FillStatusStrict(r, f) == IF f.qty > r.qty THEN "FILLED" ELSE "PARTIALLY_FILLED"

FillStatus(r, f) == IF f.qty >= r.qty THEN "FILLED" ELSE "PARTIALLY_FILLED"

\* the trade execution, the position entry and all the rows of a booked fill
Execution(f) == [qty |-> f.qty, price |-> f.price]

PositionEntry(side, f) == [delta |-> QtyDelta(side, f), price |-> f.price]

Booked(r, f) ==
  Rows(FillStatus(r, f), <<"ACCEPTED", FillStatus(r, f)>>, <<Execution(f)>>,
       <<CashChange(r.side, f)>>, <<PositionEntry(r.side, f)>>)
=============================================================================
