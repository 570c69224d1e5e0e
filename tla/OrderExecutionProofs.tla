------------------------- MODULE OrderExecutionProofs -------------------------
(***************************************************************************)
(* Theorems about OrderExecution for every number of calls, every bound    *)
(* on quantities, prices and costs, and every set of faults.               *)
(*                                                                         *)
(* One inductive invariant carries them all.  Calls share no state, so it  *)
(* speaks of one call at a time: what the call has staged and committed,   *)
(* and what the broker knows, at each statement of execute_order.          *)
(***************************************************************************)
EXTENDS OrderExecution, SequenceTheorems, TLAPS

\* the rows in the transaction before each of its statements
Staged(at, r, f) ==
  LET exec == <<Execution(f)>>
      cash == <<CashChange(r.side, f)>>
      pos  == <<PositionEntry(r.side, f)>>
      Accepted(e, k, p) == Rows("ACCEPTED", <<"ACCEPTED">>, e, k, p)
  IN  CASE at \in {"resolving", "executing"} -> Accepted(<<>>, <<>>, <<>>)
        [] at = "cashing"     -> Accepted(exec, <<>>, <<>>)
        [] at = "positioning" -> Accepted(exec, cash, <<>>)
        [] at = "completing"  -> Accepted(exec, cash, pos)
        [] OTHER -> NoRows

\* the fill f does not exceed what the broker has filled, unless the query may fail
Honest(f, b) == "query" \notin Faults => f.qty <= b.filled

\* what the database may hold for request r when the broker's order is b
Committed(rows, r, b) ==
  \/ rows = NoRows
  \/ rows = Submitted("REJECTED") /\ b.state = "rejected"
  \/ rows = Submitted("ACCEPTED") /\ b.state \in {"open", "closed"}
  \/ /\ b.state \in {"open", "closed"}
     /\ \E f \in Fills : rows = Booked(r, f) /\ Honest(f, b)

BrokerOK(c) ==
  /\ broker[c].state \in {"none", "rejected"} => broker[c].filled = 0
  /\ request[c] \in Requests => broker[c].filled <= request[c].qty
  /\ pc[c] \in {"idle", "calling"} => broker[c].state = "none"
  /\ pc[c] = "recording" /\ ~answer[c].success => broker[c].state = "rejected"
  /\ pc[c] = "recording" /\ answer[c].success =>
       broker[c].state \in {"open", "closed"}
  /\ pc[c] \in InTransaction => broker[c].state \in {"open", "closed"}

CallOK(c) ==
  /\ pc[c] = "idle" <=> request[c] = NoRequest
  /\ pc[c] \in {"idle", "calling"} => answer[c] = NoAnswer
  /\ answer[c].raw # NoFill => Honest(answer[c].raw, broker[c])
  /\ pc[c] \in InTransaction \ {"resolving"} =>
       fill[c] \in Fills /\ Honest(fill[c], broker[c])

RowsOK(c) ==
  /\ tx[c] = Staged(pc[c], request[c], fill[c])
  /\ pc[c] \notin {"returned", "crashed"} => db[c] = NoRows
  /\ Committed(db[c], request[c], broker[c])

Good(c) == BrokerOK(c) /\ CallOK(c) /\ RowsOK(c)

IInv ==
  /\ TypeOK
  /\ \A c \in Calls : Good(c)
-----------------------------------------------------------------------------
\* Appending to the short sequences one order needs.
LEMMA AppendFirst ==
  ASSUME NEW x
  PROVE  Append(<<>>, x) = <<x>>
OBVIOUS

LEMMA AppendSecond ==
  ASSUME NEW x, NEW y
  PROVE  Append(<<x>>, y) = <<x, y>>
<1>1. <<x>> \in Seq({x, y}) /\ Len(<<x>>) = 1 /\ <<x>>[1] = x
  OBVIOUS
<1>2. /\ Append(<<x>>, y) \in Seq({x, y})
      /\ Len(Append(<<x>>, y)) = 2
      /\ Append(<<x>>, y)[1] = x
      /\ Append(<<x>>, y)[2] = y
  BY <1>1
<1>3. /\ <<x, y>> \in Seq({x, y}) /\ Len(<<x, y>>) = 2
      /\ <<x, y>>[1] = x /\ <<x, y>>[2] = y
  OBVIOUS
<1>4. \A i \in 1..2 : Append(<<x>>, y)[i] = <<x, y>>[i]
  BY <1>2, <1>3
<1>5. QED
  BY <1>2, <1>3, <1>4, SeqEqual

\* What is written about a fill is well typed.
LEMMA FillTyped ==
  ASSUME NEW r \in Requests, NEW f \in Fills
  PROVE  /\ Execution(f) \in [qty : 1..MaxQty, price : Prices]
         /\ CashChange(r.side, f) \in Int
         /\ PositionEntry(r.side, f) \in [delta : Int, price : Prices]
         /\ FillStatus(r, f) \in {"PARTIALLY_FILLED", "FILLED"}
<1>1. f.qty \in 1..MaxQty /\ f.price \in Prices /\ f.cost \in Costs
  BY DEF Fills
<1>2. f.qty \in Nat
  BY <1>1, BookAssumption
<1>3. f.price \in Nat
  BY <1>1, BookAssumption
<1>4. f.cost \in Nat
  BY <1>1, BookAssumption
<1>5. CashChange(r.side, f) \in Int
  BY <1>2, <1>3, <1>4 DEF CashChange
<1>6. QtyDelta(r.side, f) \in Int
  BY <1>2 DEF QtyDelta
<1>7. QED
  BY <1>1, <1>5, <1>6 DEF Execution, PositionEntry, FillStatus

\* Every row set execute_order builds is well typed.
LEMMA RowsTyped ==
  /\ NoRows \in RowSets
  /\ \A st \in Statuses : Submitted(st) \in RowSets
  /\ \A r \in Requests, f \in Fills : Booked(r, f) \in RowSets
<1>1. NoRows \in RowSets
  BY DEF NoRows, Rows, RowSets
<1>2. ASSUME NEW st \in Statuses PROVE Submitted(st) \in RowSets
  BY DEF Submitted, Rows, RowSets
<1>3. ASSUME NEW r \in Requests, NEW f \in Fills
      PROVE  Booked(r, f) \in RowSets
  BY FillTyped DEF Booked, Rows, RowSets, Statuses
<1>4. QED
  BY <1>1, <1>2, <1>3
\* Each statement of the transaction takes the staged rows to the next stage,
\* and the last one completes the booking.
LEMMA Stages ==
  ASSUME NEW r, NEW f
  PROVE  /\ WithExecution(Staged("executing", r, f), Execution(f))
              = Staged("cashing", r, f)
         /\ WithCash(Staged("cashing", r, f), CashChange(r.side, f))
              = Staged("positioning", r, f)
         /\ WithPosition(Staged("positioning", r, f), PositionEntry(r.side, f))
              = Staged("completing", r, f)
         /\ WithStatus(Staged("completing", r, f), FillStatus(r, f))
              = Booked(r, f)
<1>1. WithExecution(Staged("executing", r, f), Execution(f))
        = Staged("cashing", r, f)
  BY AppendFirst DEF WithExecution, Staged, Rows
<1>2. WithCash(Staged("cashing", r, f), CashChange(r.side, f))
        = Staged("positioning", r, f)
  BY AppendFirst DEF WithCash, Staged, Rows
<1>3. WithPosition(Staged("positioning", r, f), PositionEntry(r.side, f))
        = Staged("completing", r, f)
  BY AppendFirst DEF WithPosition, Staged, Rows
<1>4. WithStatus(Staged("completing", r, f), FillStatus(r, f)) = Booked(r, f)
  BY AppendSecond DEF WithStatus, Staged, Rows, Booked
<1>5. QED
  BY <1>1, <1>2, <1>3, <1>4

LEMMA StagedTyped ==
  ASSUME NEW r \in Requests, NEW f \in Fills, NEW at \in InTransaction
  PROVE  Staged(at, r, f) \in RowSets
<1>1. /\ <<Execution(f)>> \in Seq([qty : 1..MaxQty, price : Prices])
      /\ <<CashChange(r.side, f)>> \in Seq(Int)
      /\ <<PositionEntry(r.side, f)>> \in Seq([delta : Int, price : Prices])
      /\ <<"ACCEPTED">> \in Seq(Statuses)
  BY FillTyped DEF Statuses
<1>2. QED
  BY <1>1 DEF Staged, InTransaction, Rows, RowSets, Statuses

LEMMA RequestTyped ==
  ASSUME NEW r \in Requests
  PROVE  /\ r.qty \in 1..MaxQty /\ r.qty \in 0..MaxQty /\ r.qty \in Nat
         /\ 0 <= r.qty /\ r.price \in Prices
<1>1. r.qty \in 1..MaxQty /\ r.price \in Prices
  BY DEF Requests
<1>2. r.qty \in Nat
  BY <1>1, BookAssumption
<1>3. r.qty \in 0..MaxQty /\ 0 <= r.qty
  BY <1>1, <1>2, BookAssumption
<1>4. QED
  BY <1>1, <1>2, <1>3

LEMMA ZeroTyped == 0 \in 0..MaxQty
BY BookAssumption

\* A broker order written out in full is well typed.
LEMMA OrderTyped ==
  ASSUME NEW st \in {"none", "rejected", "open", "closed"}, NEW n \in 0..MaxQty
  PROVE  [state |-> st, filled |-> n] \in BrokerOrders
BY DEF BrokerOrders

\* Nothing is filled before or without an order.
LEMMA FilledTyped ==
  ASSUME IInv, NEW c \in Calls
  PROVE  /\ broker[c].state \in {"none", "rejected", "open", "closed"}
         /\ broker[c].filled \in 0..MaxQty /\ broker[c].filled \in Nat
<1>1. broker[c] \in BrokerOrders
  BY DEF IInv, TypeOK
<1>2. /\ broker[c].filled \in 0..MaxQty
      /\ broker[c].state \in {"none", "rejected", "open", "closed"}
  BY <1>1 DEF BrokerOrders
<1>3. broker[c].filled \in Nat
  BY <1>2, BookAssumption
<1>4. QED
  BY <1>2, <1>3
-----------------------------------------------------------------------------
(* A step of one call leaves the other calls alone. *)

Untouched(d) ==
  /\ request'[d] = request[d] /\ broker'[d] = broker[d] /\ db'[d] = db[d]
  /\ pc'[d] = pc[d] /\ answer'[d] = answer[d] /\ fill'[d] = fill[d]
  /\ tx'[d] = tx[d]

LEMMA UntouchedStaysGood ==
  ASSUME NEW d \in Calls, Good(d), Untouched(d)
  PROVE  Good(d)'
BY DEF Good, Untouched, BrokerOK, CallOK, RowsOK, Honest

\* what has to be shown of a step of call c
StepOK(c) == TypeOK' /\ Good(c)' /\ \A d \in Calls \ {c} : Untouched(d)

LEMMA CallStep ==
  ASSUME IInv, NEW c \in Calls, NEW r \in Requests, Call(c, r)
  PROVE  StepOK(c)
<1>1. TypeOK /\ Good(c)
  BY DEF IInv
<1>2. TypeOK'
  BY <1>1 DEF TypeOK, Call, Goto, Locations, Running
<1>3. \A d \in Calls \ {c} : Untouched(d)
  BY <1>1 DEF TypeOK, Untouched, Call, Goto
<1>4. BrokerOK(c)'
  <2>1. broker'[c] = broker[c] /\ broker[c].state = "none" /\ broker[c].filled = 0
    BY <1>1 DEF Good, BrokerOK, Call, Goto
  <2>2. request'[c] = r /\ pc'[c] = "calling" /\ r.qty \in Nat
    BY <1>1, RequestTyped DEF TypeOK, Call, Goto
  <2>3. QED
    BY <2>1, <2>2 DEF BrokerOK, InTransaction
<1>5. CallOK(c)'
  BY <1>1, BookAssumption DEF TypeOK, Good, BrokerOK, CallOK, Honest, InTransaction, Call, Goto, NoAnswer
<1>6. RowsOK(c)'
  BY <1>1, BookAssumption DEF TypeOK, Good, BrokerOK, CallOK, RowsOK, Staged, Committed, Honest, InTransaction, Call, Goto
<1>7. QED
  BY <1>2, <1>3, <1>4, <1>5, <1>6 DEF StepOK, Good

LEMMA AcceptedByKisStep ==
  ASSUME IInv, NEW c \in Calls, AcceptedByKis(c)
  PROVE  StepOK(c)
<1>1. TypeOK /\ Good(c)
  BY DEF IInv
<1>2. TypeOK'
  BY <1>1, OrderTyped, ZeroTyped
  DEF TypeOK, AcceptedByKis, Goto, Locations, Running, Answers
<1>3. \A d \in Calls \ {c} : Untouched(d)
  BY <1>1 DEF TypeOK, Untouched, AcceptedByKis, Goto
<1>4. BrokerOK(c)'
  BY <1>1 DEF TypeOK, Good, BrokerOK, CallOK, BrokerOrders, InTransaction, AcceptedByKis, Goto
<1>5. CallOK(c)'
  BY <1>1 DEF TypeOK, Good, BrokerOK, CallOK, Honest, InTransaction, AcceptedByKis, Goto, NoAnswer
<1>6. RowsOK(c)'
  BY <1>1 DEF TypeOK, Good, BrokerOK, CallOK, RowsOK, Staged, Committed, Honest, InTransaction, AcceptedByKis, Goto
<1>7. QED
  BY <1>2, <1>3, <1>4, <1>5, <1>6 DEF StepOK, Good

LEMMA FilledByBacktestStep ==
  ASSUME IInv, NEW c \in Calls, FilledByBacktest(c)
  PROVE  StepOK(c)
<1>1. TypeOK /\ Good(c)
  BY DEF IInv
<1>2. request[c] \in Requests
  BY <1>1 DEF TypeOK, Good, CallOK, FilledByBacktest, Goto
<1>3. PICK p \in Prices, k \in Costs :
        answer' = [answer EXCEPT ![c] =
          [success |-> TRUE,
           raw |-> [qty |-> request[c].qty, price |-> p, cost |-> k]]]
  BY DEF FilledByBacktest
<1> DEFINE f == [qty |-> request[c].qty, price |-> p, cost |-> k]
<1>4. f \in Fills /\ f.qty = request[c].qty
  BY <1>2, RequestTyped DEF Fills
<1>5. /\ answer'[c] = [success |-> TRUE, raw |-> f]
       /\ broker'[c] = [state |-> "closed", filled |-> request[c].qty]
       /\ request'[c] = request[c]
       /\ pc[c] = "calling" /\ pc'[c] = "recording"
  BY <1>1, <1>3 DEF TypeOK, FilledByBacktest, Goto
<1>6. TypeOK'
  <2>1. answer' \in [Calls -> Answers]
    BY <1>1, <1>3, <1>4 DEF TypeOK, Answers
  <2>2. broker' \in [Calls -> BrokerOrders]
    BY <1>1, <1>2, RequestTyped, OrderTyped DEF TypeOK, FilledByBacktest
  <2>3. QED
    BY <1>1, <2>1, <2>2 DEF TypeOK, FilledByBacktest, Goto, Locations, Running
<1>7. \A d \in Calls \ {c} : Untouched(d)
  BY <1>1 DEF TypeOK, Untouched, FilledByBacktest, Goto
<1>8. BrokerOK(c)'
  BY <1>1, <1>2, <1>5, RequestTyped DEF BrokerOK, InTransaction
<1>9. CallOK(c)'
  <2>1. Honest(answer'[c].raw, broker'[c])
    BY <1>2, <1>4, <1>5, RequestTyped DEF Honest
  <2>2. QED
    BY <1>1, <1>5, <2>1 DEF TypeOK, Good, CallOK, InTransaction, Honest, FilledByBacktest
<1>10. RowsOK(c)'
  BY <1>1 DEF TypeOK, Good, BrokerOK, CallOK, RowsOK, Staged, Committed, Honest, InTransaction, FilledByBacktest, Goto
<1>11. QED
  BY <1>6, <1>7, <1>8, <1>9, <1>10 DEF StepOK, Good

LEMMA RefusedStep ==
  ASSUME IInv, NEW c \in Calls, Refused(c)
  PROVE  StepOK(c)
<1>1. TypeOK /\ Good(c)
  BY DEF IInv
<1>2. TypeOK'
  BY <1>1, OrderTyped, ZeroTyped DEF TypeOK, Refused, Goto, Locations, Running
<1>3. \A d \in Calls \ {c} : Untouched(d)
  BY <1>1 DEF TypeOK, Untouched, Refused, Goto
<1>4. BrokerOK(c)'
  BY <1>1 DEF TypeOK, Good, BrokerOK, CallOK, BrokerOrders, InTransaction, Refused, Goto, NoAnswer
<1>5. CallOK(c)'
  BY <1>1 DEF TypeOK, Good, BrokerOK, CallOK, Honest, InTransaction, Refused, Goto, NoAnswer
<1>6. RowsOK(c)'
  BY <1>1 DEF TypeOK, Good, BrokerOK, CallOK, RowsOK, Staged, Committed, Honest, InTransaction, Refused, Goto
<1>7. QED
  BY <1>2, <1>3, <1>4, <1>5, <1>6 DEF StepOK, Good

LEMMA SendFailsStep ==
  ASSUME IInv, NEW c \in Calls, SendFails(c)
  PROVE  StepOK(c)
<1>1. TypeOK /\ Good(c)
  BY DEF IInv
<1>2. TypeOK'
  BY <1>1 DEF TypeOK, SendFails, Goto, Locations
<1>3. \A d \in Calls \ {c} : Untouched(d)
  BY <1>1 DEF TypeOK, Untouched, SendFails, Goto
<1>4. BrokerOK(c)'
  BY <1>1 DEF TypeOK, Good, BrokerOK, CallOK, BrokerOrders, InTransaction, SendFails, Goto
<1>5. CallOK(c)'
  BY <1>1 DEF TypeOK, Good, BrokerOK, CallOK, Honest, InTransaction, SendFails, Goto, NoAnswer
<1>6. RowsOK(c)'
  BY <1>1 DEF TypeOK, Good, BrokerOK, CallOK, RowsOK, Staged, Committed, Honest, InTransaction, SendFails, Goto
<1>7. QED
  BY <1>2, <1>3, <1>4, <1>5, <1>6 DEF StepOK, Good

LEMMA ResponseLostStep ==
  ASSUME IInv, NEW c \in Calls, ResponseLost(c)
  PROVE  StepOK(c)
<1>1. TypeOK /\ Good(c)
  BY DEF IInv
<1>2. TypeOK'
  BY <1>1, OrderTyped, ZeroTyped DEF TypeOK, ResponseLost, Goto, Locations
<1>3. \A d \in Calls \ {c} : Untouched(d)
  BY <1>1 DEF TypeOK, Untouched, ResponseLost, Goto
<1>4. BrokerOK(c)'
  BY <1>1 DEF TypeOK, Good, BrokerOK, CallOK, BrokerOrders, InTransaction, ResponseLost, Goto
<1>5. CallOK(c)'
  BY <1>1 DEF TypeOK, Good, BrokerOK, CallOK, Honest, InTransaction, ResponseLost, Goto, NoAnswer
<1>6. RowsOK(c)'
  BY <1>1 DEF TypeOK, Good, BrokerOK, CallOK, RowsOK, Staged, Committed, Honest, InTransaction, ResponseLost, Goto
<1>7. QED
  BY <1>2, <1>3, <1>4, <1>5, <1>6 DEF StepOK, Good

LEMMA RecordAcceptedStep ==
  ASSUME IInv, NEW c \in Calls, RecordAccepted(c)
  PROVE  StepOK(c)
<1>1. TypeOK /\ Good(c)
  BY DEF IInv
<1>2. TypeOK'
  BY <1>1, RowsTyped DEF TypeOK, RecordAccepted, Goto, Locations, Running, InTransaction, Statuses
<1>3. \A d \in Calls \ {c} : Untouched(d)
  BY <1>1 DEF TypeOK, Untouched, RecordAccepted, Goto
<1>4. BrokerOK(c)'
  BY <1>1 DEF TypeOK, Good, BrokerOK, CallOK, BrokerOrders, InTransaction, RecordAccepted, Goto
<1>5. CallOK(c)'
  BY <1>1 DEF TypeOK, Good, BrokerOK, CallOK, Honest, InTransaction, RecordAccepted, Goto
<1>6. RowsOK(c)'
  BY <1>1 DEF TypeOK, Good, BrokerOK, CallOK, RowsOK, Staged, Committed, Honest, InTransaction, RecordAccepted, Goto, Submitted
<1>7. QED
  BY <1>2, <1>3, <1>4, <1>5, <1>6 DEF StepOK, Good

LEMMA RecordRejectedStep ==
  ASSUME IInv, NEW c \in Calls, RecordRejected(c)
  PROVE  StepOK(c)
<1>1. TypeOK /\ Good(c)
  BY DEF IInv
<1>2. TypeOK'
  BY <1>1, RowsTyped DEF TypeOK, RecordRejected, Goto, Commit, Locations, Statuses
<1>3. \A d \in Calls \ {c} : Untouched(d)
  BY <1>1 DEF TypeOK, Untouched, RecordRejected, Goto, Commit
<1>4. BrokerOK(c)'
  BY <1>1 DEF TypeOK, Good, BrokerOK, CallOK, BrokerOrders, InTransaction, RecordRejected, Goto, Commit
<1>5. CallOK(c)'
  BY <1>1 DEF TypeOK, Good, BrokerOK, CallOK, Honest, InTransaction, RecordRejected, Goto, Commit
<1>6. RowsOK(c)'
  BY <1>1 DEF TypeOK, Good, BrokerOK, CallOK, RowsOK, Staged, Committed, Honest, InTransaction, RecordRejected, Goto, Commit
<1>7. QED
  BY <1>2, <1>3, <1>4, <1>5, <1>6 DEF StepOK, Good

LEMMA ResolvedByAnswerStep ==
  ASSUME IInv, NEW c \in Calls, ResolvedByAnswer(c)
  PROVE  StepOK(c)
<1>1. TypeOK /\ Good(c)
  BY DEF IInv
<1>2. TypeOK'
  BY <1>1 DEF TypeOK, ResolvedByAnswer, Goto, Locations, Running, InTransaction, Answers
<1>3. \A d \in Calls \ {c} : Untouched(d)
  BY <1>1 DEF TypeOK, Untouched, ResolvedByAnswer, Goto
<1>4. BrokerOK(c)'
  BY <1>1 DEF TypeOK, Good, BrokerOK, CallOK, BrokerOrders, InTransaction, ResolvedByAnswer, Goto
<1>5. CallOK(c)'
  BY <1>1 DEF TypeOK, Good, BrokerOK, CallOK, Honest, InTransaction, ResolvedByAnswer, Goto, Answers
<1>6. RowsOK(c)'
  BY <1>1 DEF TypeOK, Good, BrokerOK, CallOK, RowsOK, Staged, Committed, Honest, InTransaction, ResolvedByAnswer, Goto
<1>7. QED
  BY <1>2, <1>3, <1>4, <1>5, <1>6 DEF StepOK, Good

LEMMA ResolvedByQueryStep ==
  ASSUME IInv, NEW c \in Calls, ResolvedByQuery(c)
  PROVE  StepOK(c)
<1>1. TypeOK /\ Good(c)
  BY DEF IInv
<1>2. PICK p \in Prices, k \in Costs :
        fill' = [fill EXCEPT ![c] =
                   [qty |-> broker[c].filled, price |-> p, cost |-> k]]
  BY DEF ResolvedByQuery
<1> DEFINE f == [qty |-> broker[c].filled, price |-> p, cost |-> k]
<1>3. broker[c].filled \in 1..MaxQty
  BY FilledTyped, BookAssumption DEF ResolvedByQuery
<1>4. f \in Fills /\ f.qty <= broker[c].filled
  BY <1>3, FilledTyped DEF Fills
<1>5. fill'[c] = f
  BY <1>1, <1>2 DEF TypeOK
<1>6. TypeOK'
  BY <1>1, <1>2, <1>4
  DEF TypeOK, ResolvedByQuery, Goto, Locations, Running, InTransaction
<1>7. \A d \in Calls \ {c} : Untouched(d)
  BY <1>1 DEF TypeOK, Untouched, ResolvedByQuery, Goto
<1>8. BrokerOK(c)'
  BY <1>1 DEF TypeOK, Good, BrokerOK, CallOK, BrokerOrders, InTransaction, ResolvedByQuery, Goto
<1>9. CallOK(c)'
  <2>1. fill'[c] \in Fills /\ Honest(fill'[c], broker'[c])
    BY <1>4, <1>5 DEF Honest, ResolvedByQuery
  <2>2. QED
    BY <1>1, <2>1 DEF TypeOK, Good, CallOK, Honest, InTransaction, ResolvedByQuery, Goto
<1>10. RowsOK(c)'
  BY <1>1 DEF TypeOK, Good, BrokerOK, CallOK, RowsOK, Staged, Committed, Honest, InTransaction, ResolvedByQuery, Goto
<1>11. QED
  BY <1>6, <1>7, <1>8, <1>9, <1>10 DEF StepOK, Good

LEMMA ResolvedByAssumptionStep ==
  ASSUME IInv, NEW c \in Calls, ResolvedByAssumption(c)
  PROVE  StepOK(c)
<1>1. TypeOK /\ Good(c)
  BY DEF IInv
<1>2. request[c] \in Requests
  BY <1>1 DEF TypeOK, Good, CallOK, ResolvedByAssumption, Goto
<1> DEFINE f == [qty |-> request[c].qty, price |-> request[c].price, cost |-> 0]
<1>3. f \in Fills
  BY <1>2, RequestTyped, BookAssumption DEF Fills
<1>4. fill'[c] = f
  BY <1>1 DEF TypeOK, ResolvedByAssumption
<1>5. TypeOK'
  BY <1>1, <1>3
  DEF TypeOK, ResolvedByAssumption, Goto, Locations, Running, InTransaction
<1>6. \A d \in Calls \ {c} : Untouched(d)
  BY <1>1 DEF TypeOK, Untouched, ResolvedByAssumption, Goto
<1>7. BrokerOK(c)'
  BY <1>1 DEF TypeOK, Good, BrokerOK, CallOK, BrokerOrders, InTransaction, ResolvedByAssumption, Goto
<1>8. CallOK(c)'
  <2>1. fill'[c] \in Fills
    BY <1>3, <1>4
  <2>2. QED
    BY <1>1, <2>1
    DEF TypeOK, Good, CallOK, Honest, InTransaction, ResolvedByAssumption, Goto
<1>9. RowsOK(c)'
  BY <1>1 DEF TypeOK, Good, BrokerOK, CallOK, RowsOK, Staged, Committed, Honest, InTransaction, ResolvedByAssumption, Goto
<1>10. QED
  BY <1>5, <1>6, <1>7, <1>8, <1>9 DEF StepOK, Good

LEMMA UnfilledStep ==
  ASSUME IInv, NEW c \in Calls, Unfilled(c)
  PROVE  StepOK(c)
<1>1. TypeOK /\ Good(c)
  BY DEF IInv
<1>2. TypeOK'
  BY <1>1, RowsTyped DEF TypeOK, Unfilled, Goto, Commit, Locations
<1>3. \A d \in Calls \ {c} : Untouched(d)
  BY <1>1 DEF TypeOK, Untouched, Unfilled, Goto, Commit
<1>4. BrokerOK(c)'
  BY <1>1 DEF TypeOK, Good, BrokerOK, CallOK, BrokerOrders, InTransaction, Unfilled, Goto, Commit
<1>5. CallOK(c)'
  BY <1>1 DEF TypeOK, Good, BrokerOK, CallOK, Honest, InTransaction, Unfilled, Goto, Commit
<1>6. RowsOK(c)'
  BY <1>1 DEF TypeOK, Good, BrokerOK, CallOK, RowsOK, Staged, Committed, Honest, InTransaction, Unfilled, Goto, Commit, Submitted
<1>7. QED
  BY <1>2, <1>3, <1>4, <1>5, <1>6 DEF StepOK, Good

LEMMA InsertExecutionStep ==
  ASSUME IInv, NEW c \in Calls, InsertExecution(c)
  PROVE  StepOK(c)
<1>1. TypeOK /\ Good(c)
  BY DEF IInv
<1>2. request[c] \in Requests /\ fill[c] \in Fills
  BY <1>1 DEF TypeOK, Good, CallOK, InTransaction, InsertExecution, Goto
<1>3. tx'[c] = Staged("cashing", request[c], fill[c])
  BY <1>1, Stages DEF TypeOK, Good, RowsOK, InsertExecution, Goto
<1>4. tx' \in [Calls -> RowSets]
  BY <1>1, <1>2, <1>3, StagedTyped DEF TypeOK, InsertExecution, InTransaction
<1>5. TypeOK'
  BY <1>1, <1>4 DEF TypeOK, InsertExecution, Goto, Locations, Running, InTransaction
<1>6. \A d \in Calls \ {c} : Untouched(d)
  BY <1>1 DEF TypeOK, Untouched, InsertExecution, Goto
<1>7. BrokerOK(c)'
  BY <1>1 DEF TypeOK, Good, BrokerOK, CallOK, BrokerOrders, InTransaction, InsertExecution, Goto
<1>8. CallOK(c)'
  BY <1>1 DEF TypeOK, Good, BrokerOK, CallOK, Honest, InTransaction, InsertExecution, Goto
<1>9. RowsOK(c)'
  BY <1>1, <1>3 DEF TypeOK, Good, RowsOK, Committed, Honest, InsertExecution, Goto
<1>10. QED
  BY <1>5, <1>6, <1>7, <1>8, <1>9 DEF StepOK, Good

LEMMA InsertCashStep ==
  ASSUME IInv, NEW c \in Calls, InsertCash(c)
  PROVE  StepOK(c)
<1>1. TypeOK /\ Good(c)
  BY DEF IInv
<1>2. request[c] \in Requests /\ fill[c] \in Fills
  BY <1>1 DEF TypeOK, Good, CallOK, InTransaction, InsertCash, Goto
<1>3. tx'[c] = Staged("positioning", request[c], fill[c])
  BY <1>1, Stages DEF TypeOK, Good, RowsOK, InsertCash, Goto
<1>4. tx' \in [Calls -> RowSets]
  BY <1>1, <1>2, <1>3, StagedTyped DEF TypeOK, InsertCash, InTransaction
<1>5. TypeOK'
  BY <1>1, <1>4 DEF TypeOK, InsertCash, Goto, Locations, Running, InTransaction
<1>6. \A d \in Calls \ {c} : Untouched(d)
  BY <1>1 DEF TypeOK, Untouched, InsertCash, Goto
<1>7. BrokerOK(c)'
  BY <1>1 DEF TypeOK, Good, BrokerOK, CallOK, BrokerOrders, InTransaction, InsertCash, Goto
<1>8. CallOK(c)'
  BY <1>1 DEF TypeOK, Good, BrokerOK, CallOK, Honest, InTransaction, InsertCash, Goto
<1>9. RowsOK(c)'
  BY <1>1, <1>3 DEF TypeOK, Good, RowsOK, Committed, Honest, InsertCash, Goto
<1>10. QED
  BY <1>5, <1>6, <1>7, <1>8, <1>9 DEF StepOK, Good

LEMMA InsertPositionStep ==
  ASSUME IInv, NEW c \in Calls, InsertPosition(c)
  PROVE  StepOK(c)
<1>1. TypeOK /\ Good(c)
  BY DEF IInv
<1>2. request[c] \in Requests /\ fill[c] \in Fills
  BY <1>1 DEF TypeOK, Good, CallOK, InTransaction, InsertPosition, Goto
<1>3. tx'[c] = Staged("completing", request[c], fill[c])
  BY <1>1, Stages DEF TypeOK, Good, RowsOK, InsertPosition, Goto
<1>4. tx' \in [Calls -> RowSets]
  BY <1>1, <1>2, <1>3, StagedTyped DEF TypeOK, InsertPosition, InTransaction
<1>5. TypeOK'
  BY <1>1, <1>4 DEF TypeOK, InsertPosition, Goto, Locations, Running, InTransaction
<1>6. \A d \in Calls \ {c} : Untouched(d)
  BY <1>1 DEF TypeOK, Untouched, InsertPosition, Goto
<1>7. BrokerOK(c)'
  BY <1>1 DEF TypeOK, Good, BrokerOK, CallOK, BrokerOrders, InTransaction, InsertPosition, Goto
<1>8. CallOK(c)'
  BY <1>1 DEF TypeOK, Good, BrokerOK, CallOK, Honest, InTransaction, InsertPosition, Goto
<1>9. RowsOK(c)'
  BY <1>1, <1>3 DEF TypeOK, Good, RowsOK, Committed, Honest, InsertPosition, Goto
<1>10. QED
  BY <1>5, <1>6, <1>7, <1>8, <1>9 DEF StepOK, Good

LEMMA CompleteStep ==
  ASSUME IInv, NEW c \in Calls, Complete(c)
  PROVE  StepOK(c)
<1>1. TypeOK /\ Good(c)
  BY DEF IInv
<1>2. request[c] \in Requests /\ fill[c] \in Fills
  BY <1>1 DEF TypeOK, Good, CallOK, InTransaction, Complete, Goto
<1>3. db'[c] = Booked(request[c], fill[c])
  BY <1>1, Stages DEF TypeOK, Good, RowsOK, Complete, Commit, Goto
<1>4. db' \in [Calls -> RowSets] /\ tx' \in [Calls -> RowSets]
  BY <1>1, <1>2, <1>3, RowsTyped DEF TypeOK, Complete, Commit
<1>5. TypeOK'
  BY <1>1, <1>4 DEF TypeOK, Complete, Goto, Locations
<1>6. \A d \in Calls \ {c} : Untouched(d)
  BY <1>1 DEF TypeOK, Untouched, Complete, Goto, Commit
<1>7. BrokerOK(c)'
  BY <1>1 DEF TypeOK, Good, BrokerOK, CallOK, BrokerOrders, InTransaction, Complete, Goto, Commit
<1>8. CallOK(c)'
  BY <1>1 DEF TypeOK, Good, BrokerOK, CallOK, Honest, InTransaction, Complete, Goto, Commit
<1>9. RowsOK(c)'
  <2>1. tx'[c] = NoRows /\ pc'[c] = "returned"
    BY <1>1 DEF TypeOK, Complete, Commit, Goto
  <2>2. Honest(fill[c], broker[c]) /\ broker[c].state \in {"open", "closed"}
    BY <1>1 DEF Good, CallOK, BrokerOK, InTransaction, Complete, Goto
  <2>3. Committed(db'[c], request'[c], broker'[c])
    BY <1>2, <1>3, <2>2 DEF Committed, Complete
  <2>4. QED
    BY <2>1, <2>3 DEF RowsOK, Staged
<1>10. QED
  BY <1>5, <1>6, <1>7, <1>8, <1>9 DEF StepOK, Good

LEMMA RollBackStep ==
  ASSUME IInv, NEW c \in Calls, RollBack(c)
  PROVE  StepOK(c)
<1>1. TypeOK /\ Good(c)
  BY DEF IInv
<1>2. TypeOK'
  BY <1>1, RowsTyped DEF TypeOK, RollBack, Commit, Locations
<1>3. \A d \in Calls \ {c} : Untouched(d)
  BY <1>1 DEF TypeOK, Untouched, RollBack, Commit
<1>4. BrokerOK(c)'
  BY <1>1 DEF TypeOK, Good, BrokerOK, CallOK, BrokerOrders, InTransaction, RollBack, Commit
<1>5. CallOK(c)'
  BY <1>1 DEF TypeOK, Good, BrokerOK, CallOK, Honest, InTransaction, RollBack, Commit
<1>6. RowsOK(c)'
  BY <1>1 DEF TypeOK, Good, BrokerOK, CallOK, RowsOK, Staged, Committed, Honest, InTransaction, RollBack, Commit
<1>7. QED
  BY <1>2, <1>3, <1>4, <1>5, <1>6 DEF StepOK, Good

LEMMA CrashStep ==
  ASSUME IInv, NEW c \in Calls, Crash(c)
  PROVE  StepOK(c)
<1>1. TypeOK /\ Good(c)
  BY DEF IInv
<1>2. TypeOK'
  BY <1>1, RowsTyped DEF TypeOK, Crash, Commit, Locations, Running
<1>3. \A d \in Calls \ {c} : Untouched(d)
  BY <1>1 DEF TypeOK, Untouched, Crash, Commit
<1>4. BrokerOK(c)'
  BY <1>1 DEF TypeOK, Good, BrokerOK, CallOK, BrokerOrders, InTransaction, Crash, Commit
<1>5. CallOK(c)'
  BY <1>1 DEF TypeOK, Good, BrokerOK, CallOK, Honest, InTransaction, Crash, Commit, Running
<1>6. RowsOK(c)'
  BY <1>1 DEF TypeOK, Good, BrokerOK, CallOK, RowsOK, Staged, Committed, Honest, InTransaction, Crash, Commit
<1>7. QED
  BY <1>2, <1>3, <1>4, <1>5, <1>6 DEF StepOK, Good

LEMMA BrokerFillsStep ==
  ASSUME IInv, NEW c \in Calls, BrokerFills(c)
  PROVE  StepOK(c)
<1>1. TypeOK /\ Good(c)
  BY DEF IInv
<1>2. PICK n \in broker[c].filled + 1 .. request[c].qty :
        broker' = [broker EXCEPT ![c] =
          [state |-> IF n = request[c].qty THEN "closed" ELSE "open",
           filled |-> n]]
  BY DEF BrokerFills
<1>3. request[c] \in Requests
  BY <1>1 DEF TypeOK, Good, BrokerOK, CallOK, BrokerFills
<1>4. n \in 0..MaxQty /\ broker[c].filled <= n
  BY <1>3, RequestTyped, FilledTyped, BookAssumption
<1>5. /\ broker'[c].filled = n /\ broker'[c].state \in {"open", "closed"}
       /\ broker'[c] \in BrokerOrders
  BY <1>1, <1>2, <1>4, OrderTyped DEF TypeOK
<1>6. \A f \in Fills : Honest(f, broker[c]) => Honest(f, broker'[c])
  <2>1. SUFFICES ASSUME NEW f \in Fills, f.qty <= broker[c].filled
                 PROVE  f.qty <= broker'[c].filled
    BY DEF Honest
  <2>2. f.qty \in Nat
    BY BookAssumption DEF Fills
  <2>3. QED
    BY <2>1, <2>2, <1>4, <1>5, FilledTyped, BookAssumption
<1>7. TypeOK'
  BY <1>1, <1>2, <1>5 DEF TypeOK, BrokerFills
<1>8. \A d \in Calls \ {c} : Untouched(d)
  BY <1>1 DEF TypeOK, Untouched, BrokerFills
<1>9. BrokerOK(c)'
  BY <1>1 DEF TypeOK, Good, BrokerOK, CallOK, BrokerOrders, InTransaction, BrokerFills
<1>10. CallOK(c)'
  BY <1>1, <1>6 DEF TypeOK, Good, BrokerOK, CallOK, Answers, InTransaction, BrokerFills
<1>11. RowsOK(c)'
  <2>1. Committed(db[c], request[c], broker'[c])
    BY <1>1, <1>5, <1>6 DEF Good, RowsOK, Committed, BrokerFills
  <2>2. QED
    BY <1>1, <2>1 DEF Good, RowsOK, BrokerFills
<1>12. QED
  BY <1>7, <1>8, <1>9, <1>10, <1>11 DEF StepOK, Good

LEMMA BrokerExpiresStep ==
  ASSUME IInv, NEW c \in Calls, BrokerExpires(c)
  PROVE  StepOK(c)
<1>1. TypeOK /\ Good(c)
  BY DEF IInv
<1>2. TypeOK'
  BY <1>1, FilledTyped, OrderTyped DEF TypeOK, BrokerExpires
<1>3. \A d \in Calls \ {c} : Untouched(d)
  BY <1>1 DEF TypeOK, Untouched, BrokerExpires
<1>4. BrokerOK(c)'
  BY <1>1, FilledTyped DEF TypeOK, Good, BrokerOK, CallOK, BrokerOrders, InTransaction, BrokerExpires
<1>5. CallOK(c)'
  BY <1>1, FilledTyped DEF TypeOK, Good, BrokerOK, CallOK, Honest, InTransaction, BrokerExpires
<1>6. RowsOK(c)'
  BY <1>1, FilledTyped DEF TypeOK, Good, BrokerOK, CallOK, RowsOK, Staged, Committed, Honest, InTransaction, BrokerExpires
<1>7. QED
  BY <1>2, <1>3, <1>4, <1>5, <1>6 DEF StepOK, Good

-----------------------------------------------------------------------------
(* The inductive invariant. *)

LEMMA InvInit == Init => IInv
<1> SUFFICES ASSUME Init PROVE IInv
  OBVIOUS
<1>1. TypeOK
  BY RowsTyped, OrderTyped, ZeroTyped
  DEF Init, TypeOK, Locations, NoAnswer, Answers
<1>2. ASSUME NEW c \in Calls PROVE Good(c)
  BY BookAssumption
  DEF Init, Good, BrokerOK, CallOK, RowsOK, NoAnswer, Staged, Committed, InTransaction
<1>3. QED
  BY <1>1, <1>2 DEF IInv

\* One step of one call: the call ends up well, the others were not touched.
LEMMA InvStep ==
  ASSUME IInv, NEW c \in Calls, StepOK(c)
  PROVE  IInv'
<1>1. ASSUME NEW d \in Calls PROVE Good(d)'
  <2>1. CASE d = c
    BY <2>1 DEF StepOK
  <2>2. CASE d # c
    BY <2>2, UntouchedStaysGood DEF StepOK, IInv
  <2>3. QED
    BY <2>1, <2>2
<1>2. QED
  BY <1>1 DEF IInv, StepOK

LEMMA InvNext == IInv /\ [Next]_vars => IInv'
<1> SUFFICES ASSUME IInv, [Next]_vars PROVE IInv'
  OBVIOUS
<1>1. CASE UNCHANGED vars
  <2>1. TypeOK'
    BY <1>1 DEF vars, IInv, TypeOK
  <2>2. ASSUME NEW d \in Calls PROVE Good(d)'
    BY <1>1, UntouchedStaysGood DEF vars, Untouched, IInv
  <2>3. QED
    BY <2>1, <2>2 DEF IInv
<1>2. CASE Next
  <2>1. PICK c \in Calls :
          \/ \E r \in Requests : Call(c, r)
          \/ Proceed(c)
          \/ Fail(c)
          \/ BrokerFills(c)
          \/ BrokerExpires(c)
    BY <1>2 DEF Next
  <2>2. CASE \E r \in Requests : Call(c, r)
    BY <2>2, CallStep, InvStep
  <2>3. CASE Proceed(c)
    BY <2>3, InvStep, AcceptedByKisStep, FilledByBacktestStep, RefusedStep,
       RecordAcceptedStep, RecordRejectedStep, ResolvedByAnswerStep,
       ResolvedByQueryStep, UnfilledStep, InsertExecutionStep, InsertCashStep,
       InsertPositionStep, CompleteStep DEF Proceed
  <2>4. CASE Fail(c)
    BY <2>4, InvStep, SendFailsStep, ResponseLostStep,
       ResolvedByAssumptionStep, RollBackStep, CrashStep DEF Fail
  <2>5. CASE BrokerFills(c)
    BY <2>5, InvStep, BrokerFillsStep
  <2>6. CASE BrokerExpires(c)
    BY <2>6, InvStep, BrokerExpiresStep
  <2>7. QED
    BY <2>1, <2>2, <2>3, <2>4, <2>5, <2>6
<1>3. QED
  BY <1>1, <1>2

LEMMA Invariance == Spec => []IInv
BY InvInit, InvNext, PTL DEF Spec
-----------------------------------------------------------------------------
(* What follows from it. *)

\* Every variable keeps its type.
THEOREM TypeCorrect == Spec => []TypeOK
<1>1. IInv => TypeOK
  BY DEF IInv
<1>2. QED
  BY <1>1, Invariance, PTL

\* What one order leaves agrees with itself.
LEMMA BookedAgrees ==
  ASSUME NEW r \in Requests, NEW f \in Fills
  PROVE  Agree(Booked(r, f), r)
<1> DEFINE rows == Booked(r, f)
<1>1. f.qty \in Nat /\ f.price \in Nat
  <2>1. f.qty \in 1..MaxQty /\ f.price \in Prices
    BY DEF Fills
  <2>2. f.qty \in Nat
    BY <2>1, BookAssumption
  <2>3. f.price \in Nat
    BY <2>1, BookAssumption
  <2>4. QED
    BY <2>2, <2>3
<1>2. f.cost \in Costs /\ f.cost \in Nat
  BY BookAssumption DEF Fills
<1>3. /\ rows.status = FillStatus(r, f)
      /\ rows.events = <<"ACCEPTED", FillStatus(r, f)>>
      /\ rows.execs = <<Execution(f)>>
      /\ rows.cash = <<CashChange(r.side, f)>>
      /\ rows.pos = <<PositionEntry(r.side, f)>>
  BY DEF Booked, Rows
<1>4. rows.execs[1].qty = f.qty /\ rows.execs[1].price = f.price
  BY <1>3 DEF Execution
<1>5. rows.pos[1].delta = QtyDelta(r.side, f) /\ rows.pos[1].price = f.price
  BY <1>3 DEF PositionEntry
<1>6. -(CashChange(r.side, f) + QtyDelta(r.side, f) * f.price) = f.cost
  <2>1. PICK v \in Int : v = f.qty * f.price /\ (-f.qty) * f.price = -v
    BY <1>1
  <2>2. QED
    BY <1>1, <1>2, <2>1 DEF CashChange, QtyDelta
<1>7. FillStatus(r, f) \notin {"ACCEPTED", "REJECTED"}
      /\ (FillStatus(r, f) = "FILLED" <=> f.qty >= r.qty)
  BY DEF FillStatus
<1> HIDE DEF rows
<1>8. QED
  BY <1>1, <1>2, <1>3, <1>4, <1>5, <1>6, <1>7 DEF QtyDelta, Agree, rows

\* Whatever fails and however many calls run, the five kinds of rows an order
\* leaves agree with each other in every state a reader can see.
THEOREM BooksAlwaysAgree == Spec => []BooksAgree
<1>1. ASSUME IInv PROVE BooksAgree
  <2>1. SUFFICES ASSUME NEW c \in Calls, db[c] # NoRows
                 PROVE  Agree(db[c], request[c])
    BY DEF BooksAgree
  <2>2. Committed(db[c], request[c], broker[c]) /\ request[c] \in Requests
    BY <1>1, <2>1 DEF IInv, Good, RowsOK, CallOK, TypeOK
  <2>3. CASE \E st \in {"ACCEPTED", "REJECTED"} : db[c] = Submitted(st)
    BY <2>3 DEF Agree, Submitted, Rows
  <2>4. CASE \E f \in Fills : db[c] = Booked(request[c], f)
    BY <2>2, <2>4, BookedAgrees
  <2>5. QED
    BY <2>1, <2>2, <2>3, <2>4 DEF Committed, Statuses
<1>2. QED
  BY <1>1, Invariance, PTL

\* A row always stands for an answer of the broker.
THEOREM RowsAlwaysBacked == Spec => []RowsBackedByBroker
<1>1. ASSUME IInv PROVE RowsBackedByBroker
  <2>1. ASSUME NEW c \in Calls
        PROVE  /\ db[c].status = "REJECTED" => broker[c].state = "rejected"
               /\ db[c].status \in Statuses \ {"REJECTED"} =>
                    broker[c].state \in {"open", "closed"}
    <3>1. Committed(db[c], request[c], broker[c])
      BY <1>1 DEF IInv, Good, RowsOK
    <3>2. CASE db[c] = NoRows
      <4>1. db[c].status = "NONE"
        BY <3>2 DEF NoRows, Rows
      <4>2. QED
        BY <4>1 DEF Statuses
    <3>3. CASE db[c] = Submitted("REJECTED") /\ broker[c].state = "rejected"
      <4>1. db[c].status = "REJECTED"
        BY <3>3 DEF Submitted, Rows
      <4>2. QED
        BY <3>3, <4>1
    <3>4. CASE broker[c].state \in {"open", "closed"} /\ db[c] = Submitted("ACCEPTED")
      <4>1. db[c].status = "ACCEPTED"
        BY <3>4 DEF Submitted, Rows
      <4>2. QED
        BY <3>4, <4>1
    <3>5. CASE /\ broker[c].state \in {"open", "closed"}
               /\ \E f \in Fills : db[c] = Booked(request[c], f)
      <4>1. db[c].status # "REJECTED"
        BY <3>5 DEF Booked, Rows, FillStatus
      <4>2. QED
        BY <3>5, <4>1
    <3>6. QED
      BY <3>1, <3>2, <3>3, <3>4, <3>5 DEF Committed
  <2>2. QED
    BY <2>1 DEF RowsBackedByBroker
<1>2. QED
  BY <1>1, Invariance, PTL

\* As long as the fill query answers, no booked share is one the broker has
\* not filled.
THEOREM NoPhantomFills ==
  ASSUME "query" \notin Faults
  PROVE  Spec => []BookedFillsHappened
<1>1. ASSUME IInv PROVE BookedFillsHappened
  <2>1. ASSUME NEW c \in Calls, NEW i \in 1..Len(db[c].execs)
        PROVE  db[c].execs[i].qty <= broker[c].filled
    <3>1. Committed(db[c], request[c], broker[c])
      BY <1>1 DEF IInv, Good, RowsOK
    <3>2. CASE db[c].execs = <<>>
      BY <2>1, <3>2
    <3>3. CASE \E f \in Fills : db[c] = Booked(request[c], f) /\ Honest(f, broker[c])
      <4>1. PICK f \in Fills : db[c] = Booked(request[c], f) /\ Honest(f, broker[c])
        BY <3>3
      <4>2. db[c].execs = <<Execution(f)>>
        BY <4>1 DEF Booked, Rows
      <4>3. db[c].execs[i] = Execution(f)
        BY <2>1, <4>2
      <4>4. QED
        BY <4>1, <4>3 DEF Execution, Honest
    <3>4. QED
      BY <3>1, <3>2, <3>3 DEF Committed, NoRows, Submitted, Rows
  <2>2. QED
    BY <2>1 DEF BookedFillsHappened
<1>2. QED
  BY <1>1, Invariance, PTL

\* The rows of an order, once visible, are never touched again.
THEOREM RowsStayFinal == Spec => RowsAreFinal
<1>1. ASSUME IInv, [Next]_vars
      PROVE  [\A c \in Calls : db[c] # NoRows => db'[c] = db[c]]_vars
  <2>1. CASE UNCHANGED vars
    BY <2>1 DEF vars
  <2>2. CASE Next
    <3>1. SUFFICES ASSUME NEW d \in Calls, db[d] # NoRows
                   PROVE  db'[d] = db[d]
      OBVIOUS
    <3>2. PICK c \in Calls : (\E r \in Requests : Call(c, r)) \/ Proceed(c)
                               \/ Fail(c) \/ BrokerFills(c) \/ BrokerExpires(c)
      BY <2>2 DEF Next
    <3>3. pc[d] \in {"returned", "crashed"} /\ db \in [Calls -> RowSets]
      BY <1>1, <3>1 DEF IInv, TypeOK, Good, RowsOK
    <3>4. CASE \E rows : db' = [db EXCEPT ![c] = rows] /\ c # d
      BY <3>3, <3>4
    <3>5. CASE UNCHANGED db
      BY <3>5
    <3>6. CASE db' = [db EXCEPT ![c] = db[c]]
      BY <3>3, <3>6
    <3>7. QED
      BY <3>2, <3>3, <3>4, <3>5, <3>6
      DEF Call, Proceed, Fail, AcceptedByKis, FilledByBacktest, Refused,
          SendFails, ResponseLost, RecordAccepted, RecordRejected,
          ResolvedByAnswer, ResolvedByQuery, ResolvedByAssumption, Unfilled,
          InsertExecution, InsertCash, InsertPosition, Complete, RollBack,
          Crash, BrokerFills, BrokerExpires, Goto, Commit
  <2>3. QED
    BY <1>1, <2>1, <2>2
<1>2. QED
  BY <1>1, Invariance, PTL DEF Spec, RowsAreFinal
-----------------------------------------------------------------------------
(* execute_order implements OrderBook. *)

\* OrderBook and OrderExecution mean the same by the words of OrderRows.
LEMMA SameWords ==
  /\ Book!Requests = Requests /\ Book!Fills = Fills
  /\ Book!BrokerOrders = BrokerOrders /\ Book!NoRows = NoRows
  /\ \A st : Book!Submitted(st) = Submitted(st)
  /\ \A r, f : Book!Booked(r, f) = Booked(r, f)
<1>1. Book!Requests = Requests /\ Book!Fills = Fills
      /\ Book!BrokerOrders = BrokerOrders
  BY DEF Book!Requests, Requests, Book!Sides, Sides, Book!Fills, Fills,
         Book!BrokerOrders, BrokerOrders
<1>2. Book!NoRows = NoRows /\ \A st : Book!Submitted(st) = Submitted(st)
  BY DEF Book!NoRows, NoRows, Book!Submitted, Submitted, Book!Rows, Rows
<1>3. ASSUME NEW r, NEW f
      PROVE  Book!Booked(r, f) = Booked(r, f)
  BY DEF Book!Booked, Booked, Book!Rows, Rows, Book!FillStatus, FillStatus,
         Book!Execution, Execution, Book!CashChange, CashChange,
         Book!PositionEntry, PositionEntry, Book!QtyDelta, QtyDelta
<1>4. QED
  BY <1>1, <1>2, <1>3

\* An order of a running call has a request, and its quantity is a number.
LEMMA Requested ==
  ASSUME IInv, NEW c \in Calls, pc[c] # "idle"
  PROVE  /\ request[c] \in Requests /\ request[c] # NoRequest
         /\ request[c].qty \in Nat /\ request[c].qty \in 0..MaxQty
<1>1. request[c] \in Requests
  BY DEF IInv, TypeOK, Good, CallOK
<1>2. QED
  BY <1>1, RequestTyped, BookAssumption

\* A step of the broker's side of one order is a BrokerMoves of OrderBook.
LEMMA BrokerMovesRefine ==
  ASSUME NEW c \in Calls, request[c] # NoRequest, NEW b \in BrokerOrders,
         <<broker[c].state, b.state>> \in
           {<<"none", "rejected">>, <<"none", "open">>, <<"none", "closed">>,
            <<"open", "open">>, <<"open", "closed">>},
         b.filled \in broker[c].filled .. request[c].qty,
         b.state = "rejected" => b.filled = 0,
         broker' = [broker EXCEPT ![c] = b],
         UNCHANGED <<request, db>>
  PROVE  Book!Next
<1>1. Book!BrokerMoves(c)
  BY SameWords DEF Book!BrokerMoves
<1>2. QED
  BY <1>1 DEF Book!Next

LEMMA AskRefines ==
  ASSUME IInv, NEW c \in Calls, NEW r \in Requests, Call(c, r)
  PROVE  Book!Next
<1>1. request[c] = NoRequest
  BY DEF IInv, Good, CallOK, Call, Goto
<1>2. Book!Ask(c)
  BY <1>1, SameWords DEF Book!Ask, Call
<1>3. QED
  BY <1>2 DEF Book!Next

LEMMA SubmissionRefines ==
  ASSUME IInv, NEW c \in Calls,
         AcceptedByKis(c) \/ ResponseLost(c) \/ Refused(c) \/ FilledByBacktest(c)
  PROVE  Book!Next
<1>1. pc[c] = "calling" /\ UNCHANGED <<request, db>>
  BY DEF AcceptedByKis, ResponseLost, Refused, FilledByBacktest, Goto
<1>2. broker[c].state = "none" /\ broker[c].filled = 0
  BY <1>1 DEF IInv, Good, BrokerOK
<1>3. request[c] # NoRequest /\ request[c].qty \in Nat /\ request[c].qty \in 0..MaxQty
  BY <1>1, Requested
<1>4. CASE AcceptedByKis(c) \/ ResponseLost(c)
  <2> DEFINE b == [state |-> "open", filled |-> 0]
  <2>1. b \in BrokerOrders /\ b.state = "open" /\ b.filled = 0
    BY ZeroTyped, OrderTyped
  <2>2. broker' = [broker EXCEPT ![c] = b]
    BY <1>4 DEF AcceptedByKis, ResponseLost
  <2>3. b.filled \in broker[c].filled .. request[c].qty
    BY <1>2, <1>3, <2>1
  <2> HIDE DEF b
  <2>4. QED
    BY <1>1, <1>2, <1>3, <2>1, <2>2, <2>3, BrokerMovesRefine
<1>5. CASE Refused(c)
  <2> DEFINE b == [state |-> "rejected", filled |-> 0]
  <2>1. b \in BrokerOrders /\ b.state = "rejected" /\ b.filled = 0
    BY ZeroTyped, OrderTyped
  <2>2. broker' = [broker EXCEPT ![c] = b]
    BY <1>5 DEF Refused
  <2>3. b.filled \in broker[c].filled .. request[c].qty
    BY <1>2, <1>3, <2>1
  <2> HIDE DEF b
  <2>4. QED
    BY <1>1, <1>2, <1>3, <2>1, <2>2, <2>3, BrokerMovesRefine
<1>6. CASE FilledByBacktest(c)
  <2> DEFINE b == [state |-> "closed", filled |-> request[c].qty]
  <2>1. b \in BrokerOrders /\ b.state = "closed" /\ b.filled = request[c].qty
    BY <1>3, OrderTyped
  <2>2. broker' = [broker EXCEPT ![c] = b]
    BY <1>6 DEF FilledByBacktest
  <2>3. b.filled \in broker[c].filled .. request[c].qty
    BY <1>2, <1>3, <2>1
  <2> HIDE DEF b
  <2>4. QED
    BY <1>1, <1>2, <1>3, <2>1, <2>2, <2>3, BrokerMovesRefine
<1>7. QED
  BY <1>4, <1>5, <1>6

LEMMA FillingRefines ==
  ASSUME IInv, NEW c \in Calls, BrokerFills(c) \/ BrokerExpires(c)
  PROVE  Book!Next
<1>1. broker[c].state = "open" /\ UNCHANGED <<request, db>>
  BY DEF BrokerFills, BrokerExpires
<1>2. pc[c] # "idle"
  BY <1>1 DEF IInv, Good, BrokerOK
<1>3. /\ request[c] # NoRequest /\ request[c].qty \in Nat
      /\ request[c].qty \in 0..MaxQty /\ request[c] \in Requests
  BY <1>2, Requested
<1>4. broker[c].filled \in Nat /\ broker[c].filled \in 0..MaxQty
      /\ broker[c].filled <= request[c].qty
  BY <1>3, FilledTyped DEF IInv, Good, BrokerOK
<1>5. CASE BrokerFills(c)
  <2>1. PICK n \in broker[c].filled + 1 .. request[c].qty :
          broker' = [broker EXCEPT ![c] =
            [state |-> IF n = request[c].qty THEN "closed" ELSE "open",
             filled |-> n]]
    BY <1>5 DEF BrokerFills
  <2> DEFINE b == [state |-> IF n = request[c].qty THEN "closed" ELSE "open",
                   filled |-> n]
  <2>2. n \in 0..MaxQty
    BY <1>3, <1>4, BookAssumption
  <2>3. b \in BrokerOrders /\ b.state \in {"open", "closed"} /\ b.filled = n
    BY <2>2, OrderTyped
  <2>4. b.filled \in broker[c].filled .. request[c].qty
    BY <1>3, <1>4, <2>3
  <2> HIDE DEF b
  <2>5. QED
    BY <1>1, <1>3, <2>1, <2>3, <2>4, BrokerMovesRefine DEF b
<1>6. CASE BrokerExpires(c)
  <2> DEFINE b == [state |-> "closed", filled |-> broker[c].filled]
  <2>1. b \in BrokerOrders /\ b.state = "closed" /\ b.filled = broker[c].filled
    BY <1>4, OrderTyped
  <2>2. broker' = [broker EXCEPT ![c] = b]
    BY <1>6 DEF BrokerExpires
  <2>3. b.filled \in broker[c].filled .. request[c].qty
    BY <1>3, <1>4, <2>1
  <2> HIDE DEF b
  <2>4. QED
    BY <1>1, <1>3, <2>1, <2>2, <2>3, BrokerMovesRefine
<1>7. QED
  BY <1>5, <1>6

\* The three ends of the transaction that leave rows are each one Book.
LEMMA BookingRefines ==
  ASSUME "query" \notin Faults, IInv, NEW c \in Calls,
         RecordRejected(c) \/ Unfilled(c) \/ Complete(c)
  PROVE  Book!Next
<1>1. pc[c] \in {"recording", "resolving", "completing"}
      /\ UNCHANGED <<request, broker>>
  BY DEF RecordRejected, Unfilled, Complete, Goto
<1>2. db[c] = NoRows /\ request[c] # NoRequest
  BY <1>1, Requested DEF IInv, Good, RowsOK
<1>3. CASE RecordRejected(c)
  <2>1. broker[c].state = "rejected"
    BY <1>3 DEF IInv, Good, BrokerOK, RecordRejected, Goto
  <2>2. db' = [db EXCEPT ![c] = Submitted("REJECTED")]
    BY <1>3 DEF RecordRejected, Commit
  <2>3. QED
    BY <1>1, <1>2, <2>1, <2>2, SameWords DEF Book!Next, Book!Book
<1>4. CASE Unfilled(c)
  <2>1. broker[c].state \in {"open", "closed"}
    BY <1>4 DEF IInv, Good, BrokerOK, Unfilled, Goto, InTransaction
  <2>2. tx[c] = Submitted("ACCEPTED")
    BY <1>4 DEF IInv, Good, RowsOK, Unfilled, Goto, Staged, Submitted
  <2>3. db' = [db EXCEPT ![c] = Submitted("ACCEPTED")]
    BY <1>4, <2>2 DEF Unfilled, Commit
  <2>4. QED
    BY <1>1, <1>2, <2>1, <2>3, SameWords DEF Book!Next, Book!Book
<1>5. CASE Complete(c)
  <2>1. /\ broker[c].state \in {"open", "closed"}
        /\ fill[c] \in Fills /\ fill[c].qty <= broker[c].filled
    BY <1>5 DEF IInv, Good, BrokerOK, CallOK, Honest, InTransaction, Complete, Goto
  <2>2. db' = [db EXCEPT ![c] = Booked(request[c], fill[c])]
    <3>1. tx[c] = Staged("completing", request[c], fill[c])
      BY <1>5 DEF IInv, Good, RowsOK, Complete, Goto
    <3>2. QED
      BY <1>5, <3>1, Stages DEF Complete, Commit
  <2>3. QED
    BY <1>1, <1>2, <2>1, <2>2, SameWords DEF Book!Next, Book!Book
<1>6. QED
  BY <1>3, <1>4, <1>5

\* Everything else a call does is invisible to the readers of OrderBook.
Private(c) ==
  \/ SendFails(c) \/ RecordAccepted(c) \/ ResolvedByAnswer(c)
  \/ ResolvedByQuery(c) \/ InsertExecution(c) \/ InsertCash(c)
  \/ InsertPosition(c) \/ RollBack(c) \/ Crash(c)

LEMMA PrivateRefines ==
  ASSUME IInv, NEW c \in Calls, Private(c)
  PROVE  UNCHANGED Book!bookVars
<1>1. db \in [Calls -> RowSets]
  BY DEF IInv, TypeOK
<1>2. CASE RollBack(c) \/ Crash(c)
  BY <1>1, <1>2 DEF Book!bookVars, RollBack, Crash, Commit
<1>3. CASE ~(RollBack(c) \/ Crash(c))
  BY <1>3 DEF Private, Book!bookVars, SendFails, RecordAccepted,
     ResolvedByAnswer, ResolvedByQuery, InsertExecution, InsertCash,
     InsertPosition
<1>4. QED
  BY <1>2, <1>3

\* As long as the fill query answers, execute_order, with all its statements,
\* workers, failures and crashes, shows its readers nothing but an OrderBook.
THEOREM ExecutionImplementsBook ==
  ASSUME "query" \notin Faults
  PROVE  Spec => ImplementsOrderBook
<1>1. Init => Book!Init
  BY SameWords DEF Init, Book!Init
<1>2. ASSUME IInv, [Next]_vars PROVE [Book!Next]_(Book!bookVars)
  <2>1. CASE UNCHANGED vars
    BY <2>1 DEF vars, Book!bookVars
  <2>2. CASE Next
    <3>1. PICK c \in Calls :
            \/ \E r \in Requests : Call(c, r)
            \/ Proceed(c)
            \/ Fail(c)
            \/ BrokerFills(c) \/ BrokerExpires(c)
      BY <2>2 DEF Next
    <3>2. CASE \E r \in Requests : Call(c, r)
      BY <1>2, <3>2, AskRefines
    <3>3. CASE BrokerFills(c) \/ BrokerExpires(c)
      BY <1>2, <3>3, FillingRefines
    <3>4. CASE Proceed(c) \/ Fail(c)
      BY <1>2, <3>4, SubmissionRefines, BookingRefines, PrivateRefines
      DEF Proceed, Fail, Private, ResolvedByAssumption
    <3>5. QED
      BY <3>1, <3>2, <3>3, <3>4
  <2>3. QED
    BY <1>2, <2>1, <2>2
<1>3. QED
  BY <1>1, <1>2, Invariance, PTL DEF Spec, ImplementsOrderBook, Book!Spec
=============================================================================
