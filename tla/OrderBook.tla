------------------------------ MODULE OrderBook ------------------------------
(***************************************************************************)
(* What an order may look like to anyone who reads the database: the       *)
(* promise of execute_order (core/pipeline/trader_executor.py) to the      *)
(* modules that read ord_order, ord_order_event, ord_trade_execution,      *)
(* acc_cash_ledger and acc_position_ledger.                                *)
(*                                                                         *)
(* A call of execute_order asks the broker for one order.  Its five kinds  *)
(* of rows appear together, once, and never change; the status, the event  *)
(* trail, the execution, the cash entry and the position entry tell one    *)
(* story; and no more is booked than the broker had filled.  How the code  *)
(* gets there (submission, transaction, fill query, failures) is the       *)
(* business of OrderExecution, which implements this module.               *)
(***************************************************************************)
EXTENDS OrderRows

VARIABLES
  request,    \* request[c]: the arguments of call c, NoRequest before it
  broker,     \* broker[c]: the broker's side of the order of call c
  db          \* db[c]: the committed rows that call c wrote

bookVars == <<request, broker, db>>
-----------------------------------------------------------------------------
Init ==
  /\ request = [c \in Calls |-> NoRequest]
  /\ broker = [c \in Calls |-> [state |-> "none", filled |-> 0]]
  /\ db = [c \in Calls |-> NoRows]

Ask(c) ==
  /\ request[c] = NoRequest
  /\ \E r \in Requests : request' = [request EXCEPT ![c] = r]
  /\ UNCHANGED <<broker, db>>

\* The broker takes the order or refuses it, fills it, stops filling it.
BrokerMoves(c) ==
  /\ request[c] # NoRequest
  /\ \E b \in BrokerOrders :
       /\ <<broker[c].state, b.state>> \in
            {<<"none", "rejected">>, <<"none", "open">>, <<"none", "closed">>,
             <<"open", "open">>, <<"open", "closed">>}
       /\ b.filled \in broker[c].filled .. request[c].qty
       /\ b.state = "rejected" => b.filled = 0
       /\ broker' = [broker EXCEPT ![c] = b]
  /\ UNCHANGED <<request, db>>

\* The whole order becomes visible, once.
Book(c) ==
  /\ request[c] # NoRequest
  /\ db[c] = NoRows
  /\ \/ /\ broker[c].state = "rejected"
        /\ db' = [db EXCEPT ![c] = Submitted("REJECTED")]
     \/ /\ broker[c].state \in {"open", "closed"}
        /\ db' = [db EXCEPT ![c] = Submitted("ACCEPTED")]
     \/ /\ broker[c].state \in {"open", "closed"}
        /\ \E f \in Fills :
             /\ f.qty <= broker[c].filled
             /\ db' = [db EXCEPT ![c] = Booked(request[c], f)]
  /\ UNCHANGED <<request, broker>>

Next == \E c \in Calls : Ask(c) \/ BrokerMoves(c) \/ Book(c)

Spec == Init /\ [][Next]_bookVars
=============================================================================
