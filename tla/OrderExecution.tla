---------------------------- MODULE OrderExecution ----------------------------
(***************************************************************************)
(* execute_order and _resolve_fill (core/pipeline/trader_executor.py):     *)
(* submit a market order, write the order row, ask the broker what was     *)
(* filled, and book the fill, all in one database transaction that starts  *)
(* after the broker has answered.                                          *)
(*                                                                         *)
(* Calls run in different django-q workers and interleave at every         *)
(* statement; the broker fills on its own.  tx[c] is what the transaction  *)
(* of call c has written and nobody else can see; db[c] is what it has     *)
(* committed.  Whatever may go wrong on the way is a member of Faults:     *)
(*   send          the submission raises before the broker has the order   *)
(*   lost_response the broker has the order, reading its answer raises     *)
(*   query         get_order_execution raises                              *)
(*   empty_answer  get_order_execution returns [] for an order with fills  *)
(*                 (an error body without output1 is parsed as no rows)    *)
(*   db            a statement of the transaction raises                   *)
(*   crash         the worker is killed (django-q timeout, restart)        *)
(***************************************************************************)
EXTENDS OrderRows

CONSTANT Faults

ASSUME FaultsAssumption ==
  Faults \subseteq {"send", "lost_response", "query", "empty_answer",
                    "db", "crash"}

CONSTANT NoFill    \* no fill known
ASSUME NoFillAssumption == NoFill \notin Fills

VARIABLES
  request,    \* request[c]: the arguments of call c, NoRequest before it
  broker,     \* broker[c]: the broker's side of the order of call c
  db,         \* db[c]: the committed rows that call c wrote
  pc,         \* pc[c]: the statement call c is at
  answer,     \* answer[c]: order_res of create_order
  fill,       \* fill[c]: the result of _resolve_fill
  tx          \* tx[c]: rows written in the open transaction of call c

vars == <<request, broker, db, pc, answer, fill, tx>>

InTransaction == {"resolving", "executing", "cashing", "positioning",
                  "completing"}
Running == {"calling", "recording"} \cup InTransaction
Locations == {"idle", "returned", "crashed"} \cup Running

\* success, and the fill carried by raw_payload["fill_price"] if any
Answers == [success : BOOLEAN, raw : Fills \cup {NoFill}]
NoAnswer == [success |-> FALSE, raw |-> NoFill]

RowSets == [status : Statuses \cup {"NONE"},
            events : Seq(Statuses),
            execs  : Seq([qty : 1..MaxQty, price : Prices]),
            cash   : Seq(Int),
            pos    : Seq([delta : Int, price : Prices])]

TypeOK ==
  /\ request \in [Calls -> Requests \cup {NoRequest}]
  /\ broker \in [Calls -> BrokerOrders]
  /\ db \in [Calls -> RowSets]
  /\ pc \in [Calls -> Locations]
  /\ answer \in [Calls -> Answers]
  /\ fill \in [Calls -> Fills \cup {NoFill}]
  /\ tx \in [Calls -> RowSets]
-----------------------------------------------------------------------------
Init ==
  /\ request = [c \in Calls |-> NoRequest]
  /\ broker = [c \in Calls |-> [state |-> "none", filled |-> 0]]
  /\ db = [c \in Calls |-> NoRows]
  /\ pc = [c \in Calls |-> "idle"]
  /\ answer = [c \in Calls |-> NoAnswer]
  /\ fill = [c \in Calls |-> NoFill]
  /\ tx = [c \in Calls |-> NoRows]

Goto(c, from, to) == pc[c] = from /\ pc' = [pc EXCEPT ![c] = to]

\* leave the transaction block normally, or by an exception
Commit(c, rows) ==
  /\ db' = [db EXCEPT ![c] = rows]
  /\ tx' = [tx EXCEPT ![c] = NoRows]

\* the statements of the transaction, each adding to one of the tables
WithExecution(rows, e) ==
  Rows(rows.status, rows.events, Append(rows.execs, e), rows.cash, rows.pos)
WithCash(rows, amount) ==
  Rows(rows.status, rows.events, rows.execs, Append(rows.cash, amount), rows.pos)
WithPosition(rows, entry) ==
  Rows(rows.status, rows.events, rows.execs, rows.cash, Append(rows.pos, entry))
WithStatus(rows, status) ==
  Rows(status, Append(rows.events, status), rows.execs, rows.cash, rows.pos)

\* The caller enters execute_order.
Call(c, r) ==
  /\ Goto(c, "idle", "calling")
  /\ request' = [request EXCEPT ![c] = r]
  /\ UNCHANGED <<broker, db, answer, fill, tx>>
-----------------------------------------------------------------------------
(* broker.create_order, outside any transaction. *)

\* KIS takes the order; its fills come later.
AcceptedByKis(c) ==
  /\ Goto(c, "calling", "recording")
  /\ request[c].broker = "kis"
  /\ broker' = [broker EXCEPT ![c] = [state |-> "open", filled |-> 0]]
  /\ answer' = [answer EXCEPT ![c] = [success |-> TRUE, raw |-> NoFill]]
  /\ UNCHANGED <<request, db, fill, tx>>

\* BacktestBroker fills the whole order and reports its price.
FilledByBacktest(c) ==
  /\ Goto(c, "calling", "recording")
  /\ request[c].broker = "backtest"
  /\ broker' = [broker EXCEPT ![c] = [state |-> "closed",
                                      filled |-> request[c].qty]]
  /\ \E p \in Prices, k \in Costs :
       answer' = [answer EXCEPT ![c] =
         [success |-> TRUE,
          raw |-> [qty |-> request[c].qty, price |-> p, cost |-> k]]]
  /\ UNCHANGED <<request, db, fill, tx>>

Refused(c) ==
  /\ Goto(c, "calling", "recording")
  /\ broker' = [broker EXCEPT ![c] = [state |-> "rejected", filled |-> 0]]
  /\ UNCHANGED <<request, db, answer, fill, tx>>

SendFails(c) ==
  /\ "send" \in Faults
  /\ Goto(c, "calling", "returned")
  /\ UNCHANGED <<request, broker, db, answer, fill, tx>>

ResponseLost(c) ==
  /\ "lost_response" \in Faults
  /\ Goto(c, "calling", "returned")
  /\ request[c].broker = "kis"
  /\ broker' = [broker EXCEPT ![c] = [state |-> "open", filled |-> 0]]
  /\ UNCHANGED <<request, db, answer, fill, tx>>
-----------------------------------------------------------------------------
(* The transaction. *)

\* wrong: every answer is recorded as accepted
RecordAnyAnswer(c) ==
  /\ Goto(c, "recording", "resolving")
  /\ tx' = [tx EXCEPT ![c] = Submitted("ACCEPTED")]
  /\ UNCHANGED <<request, broker, db, answer, fill>>

\* wrong: the order row is committed before the fill is known
RecordAcceptedAtOnce(c) ==
  /\ Goto(c, "recording", "resolving")
  /\ answer[c].success
  /\ tx' = [tx EXCEPT ![c] = Submitted("ACCEPTED")]
  /\ db' = [db EXCEPT ![c] = Submitted("ACCEPTED")]
  /\ UNCHANGED <<request, broker, answer, fill>>

\* The order row and its first event.
RecordAccepted(c) ==
  /\ Goto(c, "recording", "resolving")
  /\ answer[c].success
  /\ tx' = [tx EXCEPT ![c] = Submitted("ACCEPTED")]
  /\ UNCHANGED <<request, broker, db, answer, fill>>

\* A refused order is recorded and the block is left by `return`.
RecordRejected(c) ==
  /\ Goto(c, "recording", "returned")
  /\ ~answer[c].success
  /\ Commit(c, Submitted("REJECTED"))
  /\ UNCHANGED <<request, broker, answer, fill>>

\* _resolve_fill: raw_payload carries fill_price.
ResolvedByAnswer(c) ==
  /\ Goto(c, "resolving", "executing")
  /\ answer[c].raw # NoFill
  /\ fill' = [fill EXCEPT ![c] = answer[c].raw]
  /\ UNCHANGED <<request, broker, db, answer, tx>>

\* wrong: any fill counts as a fill of the whole order
ResolvedInFull(c) ==
  /\ Goto(c, "resolving", "executing")
  /\ answer[c].raw = NoFill
  /\ broker[c].filled > 0
  /\ \E p \in Prices, k \in Costs :
       fill' = [fill EXCEPT ![c] =
                  [qty |-> request[c].qty, price |-> p, cost |-> k]]
  /\ UNCHANGED <<request, broker, db, answer, tx>>

\* _resolve_fill: the broker lists fills of this order.
ResolvedByQuery(c) ==
  /\ Goto(c, "resolving", "executing")
  /\ answer[c].raw = NoFill
  /\ broker[c].filled > 0
  /\ \E p \in Prices, k \in Costs :
       fill' = [fill EXCEPT ![c] =
                  [qty |-> broker[c].filled, price |-> p, cost |-> k]]
  /\ UNCHANGED <<request, broker, db, answer, tx>>

\* _resolve_fill: the query raises; the whole order is taken as filled.
ResolvedByAssumption(c) ==
  /\ "query" \in Faults
  /\ Goto(c, "resolving", "executing")
  /\ answer[c].raw = NoFill
  /\ fill' = [fill EXCEPT ![c] =
                [qty |-> request[c].qty, price |-> request[c].price, cost |-> 0]]
  /\ UNCHANGED <<request, broker, db, answer, tx>>

\* _resolve_fill: no fill listed; the order stays ACCEPTED, nothing is booked.
Unfilled(c) ==
  /\ Goto(c, "resolving", "returned")
  /\ answer[c].raw = NoFill
  /\ broker[c].filled = 0 \/ "empty_answer" \in Faults
  /\ Commit(c, tx[c])
  /\ UNCHANGED <<request, broker, answer, fill>>

\* wrong: no transaction, the execution is visible at once
InsertExecutionAtOnce(c) ==
  /\ Goto(c, "executing", "cashing")
  /\ tx' = [tx EXCEPT ![c] = WithExecution(@, Execution(fill[c]))]
  /\ db' = [db EXCEPT ![c] = WithExecution(tx[c], Execution(fill[c]))]
  /\ UNCHANGED <<request, broker, answer, fill>>

InsertExecution(c) ==
  /\ Goto(c, "executing", "cashing")
  /\ tx' = [tx EXCEPT ![c] = WithExecution(@, Execution(fill[c]))]
  /\ UNCHANGED <<request, broker, db, answer, fill>>

InsertCash(c) ==
  /\ Goto(c, "cashing", "positioning")
  /\ tx' = [tx EXCEPT ![c] = WithCash(@, CashChange(request[c].side, fill[c]))]
  /\ UNCHANGED <<request, broker, db, answer, fill>>

InsertPosition(c) ==
  /\ Goto(c, "positioning", "completing")
  /\ tx' = [tx EXCEPT ![c] = WithPosition(@, PositionEntry(request[c].side, fill[c]))]
  /\ UNCHANGED <<request, broker, db, answer, fill>>

\* The final status, its event, and the end of the block.
Complete(c) ==
  /\ Goto(c, "completing", "returned")
  /\ Commit(c, WithStatus(tx[c], FillStatus(request[c], fill[c])))
  /\ UNCHANGED <<request, broker, answer, fill>>

\* wrong: the exception is caught inside the transaction, which commits
RollBackKeepsRows(c) ==
  /\ "db" \in Faults
  /\ pc[c] \in {"recording"} \cup InTransaction
  /\ pc' = [pc EXCEPT ![c] = "returned"]
  /\ Commit(c, tx[c])
  /\ UNCHANGED <<request, broker, answer, fill>>

\* A statement raises; the block rolls back, `except` logs and returns.
RollBack(c) ==
  /\ "db" \in Faults
  /\ pc[c] \in {"recording"} \cup InTransaction
  /\ pc' = [pc EXCEPT ![c] = "returned"]
  /\ Commit(c, db[c])
  /\ UNCHANGED <<request, broker, answer, fill>>

\* The worker dies; the database drops its transaction.
Crash(c) ==
  /\ "crash" \in Faults
  /\ pc[c] \in Running
  /\ pc' = [pc EXCEPT ![c] = "crashed"]
  /\ Commit(c, db[c])
  /\ UNCHANGED <<request, broker, answer, fill>>
-----------------------------------------------------------------------------
(* The broker's own moves. *)

BrokerFills(c) ==
  /\ broker[c].state = "open"
  /\ \E n \in broker[c].filled + 1 .. request[c].qty :
       broker' = [broker EXCEPT ![c] =
         [state |-> IF n = request[c].qty THEN "closed" ELSE "open",
          filled |-> n]]
  /\ UNCHANGED <<request, db, pc, answer, fill, tx>>

\* The rest of the order is cancelled at the end of the day.
BrokerExpires(c) ==
  /\ broker[c].state = "open"
  /\ broker' = [broker EXCEPT ![c] = [state |-> "closed", filled |-> @.filled]]
  /\ UNCHANGED <<request, db, pc, answer, fill, tx>>
-----------------------------------------------------------------------------
\* what a call does by itself, faults aside
Proceed(c) ==
  \/ AcceptedByKis(c) \/ FilledByBacktest(c) \/ Refused(c)
  \/ RecordAccepted(c) \/ RecordRejected(c)
  \/ ResolvedByAnswer(c) \/ ResolvedByQuery(c) \/ Unfilled(c)
  \/ InsertExecution(c) \/ InsertCash(c) \/ InsertPosition(c) \/ Complete(c)

Fail(c) ==
  \/ SendFails(c) \/ ResponseLost(c) \/ ResolvedByAssumption(c)
  \/ RollBack(c) \/ Crash(c)

Next ==
  \E c \in Calls :
    \/ \E r \in Requests : Call(c, r)
    \/ Proceed(c)
    \/ Fail(c)
    \/ BrokerFills(c)
    \/ BrokerExpires(c)

Spec == Init /\ [][Next]_vars

-----------------------------------------------------------------------------
(* Properties. *)

(* The rows of one order, read together. *)
Agree(rows, r) ==
  LET n == Len(rows.execs)
  IN  /\ rows.events[Len(rows.events)] = rows.status
      /\ Len(rows.cash) = n /\ Len(rows.pos) = n
      /\ n = 0 <=> rows.status \in {"ACCEPTED", "REJECTED"}
      /\ \A i \in 1..n :
           /\ rows.pos[i].price = rows.execs[i].price
           /\ rows.pos[i].delta =
                IF r.side = "BUY" THEN rows.execs[i].qty ELSE -rows.execs[i].qty
           /\ -(rows.cash[i] + rows.pos[i].delta * rows.pos[i].price) \in Costs
           /\ rows.status = "FILLED" <=> rows.execs[i].qty >= r.qty

\* Whatever a reader of the database finds of an order agrees with itself: the
\* event trail ends in the status; a cash entry and a position entry stand
\* beside every execution and move the shares it names, at its price, against
\* cash that differs from their value by the costs; an order without a fill
\* has only been submitted; FILLED says that all of it was executed.
\* (execute_order writes seven rows in one transaction, broken off anywhere.)
BooksAgree ==
  \A c \in Calls : db[c] # NoRows => Agree(db[c], request[c])

\* A row exists only for an order the broker has answered, and says REJECTED
\* exactly when the broker refused it: execute_order writes after create_order.
RowsBackedByBroker ==
  \A c \in Calls :
    /\ db[c].status = "REJECTED" => broker[c].state = "rejected"
    /\ db[c].status \in Statuses \ {"REJECTED"} =>
         broker[c].state \in {"open", "closed"}

\* No share is booked that the broker has not filled ("only what was filled
\* is reflected in the books": docstring of execute_order).
BookedFillsHappened ==
  \A c \in Calls : \A i \in 1..Len(db[c].execs) :
    db[c].execs[i].qty <= broker[c].filled

\* What a reader has seen of an order never changes: no step of any call
\* touches the rows of an order once they are visible, so a history read
\* twice is the same history (the ledgers are append-only).
RowsAreFinal ==
  [][\A c \in Calls : db[c] # NoRows => db'[c] = db[c]]_vars

\* What the repository's README says of orders: every one can be traced.  A call
\* that has returned has left a row for the order the broker holds.  It does not
\* hold: when reading the answer of create_order raises, or a statement of the
\* transaction does, execute_order logs the exception and returns.
EveryOrderTraced ==
  \A c \in Calls :
    pc[c] = "returned" /\ broker[c].state \in {"open", "closed"} =>
      db[c].status # "NONE"

\* execute_order implements the order book its readers rely on: every step of
\* its transaction is a stutter or one atomic Book of OrderBook.
Book == INSTANCE OrderBook
ImplementsOrderBook == Book!Spec
=============================================================================
