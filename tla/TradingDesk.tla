----------------------------- MODULE TradingDesk -----------------------------
(***************************************************************************)
(* One account and everything that trades on it: pipeline runs             *)
(* (execute_account_run, execute_trader_for_stock), the risk monitor       *)
(* (monitor_and_exit) and `reconcile_account --apply`.  They are separate  *)
(* processes - two django-q workers, a cron entry, an operator - and share *)
(* nothing but the broker account and the position ledger; no lock is      *)
(* taken anywhere.  Each reads the ledger, decides on what it has read,    *)
(* and acts later.                                                         *)
(*                                                                         *)
(* An order is a call of execute_order and behaves as OrderBook says; that *)
(* execute_order does so is shown in OrderExecution.                       *)
(*                                                                         *)
(* What a day may bring is a member of its events, chosen when it begins:  *)
(*   overlap            a run starts while another is active               *)
(*   reconcile_overlap  a reconcile runs beside runs                       *)
(*   late_fill          the broker fills after execute_order has asked     *)
(*   no_rows            execute_order ends without rows although the       *)
(*                      broker has the order (crash, lost answer, db)      *)
(*   empty_positions    get_positions returns {} (an error body without    *)
(*                      output1 is parsed as an account without shares)    *)
(*                                                                         *)
(* Left out: what the strategies, the regime and the ML filter say (any    *)
(* signal, any veto), and the balance (any answer of get_balance): both    *)
(* are inputs of the decision.  One ACTIVE trader per account.             *)
(***************************************************************************)
EXTENDS OrderRows, PositionViews, FiniteSets, FiniteSetsExt

CONSTANTS
  Pipelines, Monitors, Reconcilers,  \* runs, each started at most once
  Scenarios,     \* the days to look at, each by what it may bring
  Opening,       \* bound: shares of one stock held when the day begins
  Cashes,        \* answers of get_balance: cash_balance
  Budgets,       \* what one stock may come to, in currency: equity times the
                 \* position size of the regime, or max_exposure
  PositionCap,   \* max_position_ratio * equity, in currency
  MaxPositions,  \* max_positions of the risk limits
  StopPct, TakePct

Runs == Pipelines \cup Monitors
Actors == Runs \cup Reconcilers

ASSUME DeskAssumption ==
  /\ Calls = Runs \X Stocks
  /\ \A e \in Scenarios : e \subseteq {"overlap", "reconcile_overlap", "late_fill",
                                     "no_rows", "empty_positions"}
  /\ IsFiniteSet(Runs) /\ IsFiniteSet(Stocks)
  /\ Pipelines \cap Monitors = {} /\ Runs \cap Reconcilers = {}
  /\ Opening \in 0..MaxQty
  /\ Cashes \subseteq Nat /\ Budgets \subseteq Nat /\ PositionCap \in Nat /\ MaxPositions \in Nat
  /\ StopPct \in 1..99 /\ TakePct \in Nat

VARIABLES
  request, broker, db,   \* the orders, see OrderBook
  day,        \* the shares held, and booked, when the day begins; its events
  journal,    \* acc_position_ledger in the order of occurred_at
  at,         \* what an actor is doing
  stock,      \* the stock a run is dealing with
  todo,       \* stocks an actor still has to deal with
  breached,   \* stocks a monitor has found beyond their stop or target
  view,       \* per stock, what the actor has read: quantity and cost
  since,      \* ledger entries older than the answer to the order of call c
  reconciled  \* history: no run has started since a reconcile ended

Orders == INSTANCE OrderBook

deskVars == <<day, journal, at, stock, todo, breached, view, since,
              reconciled>>
vars == <<request, broker, db, deskVars>>

Entry(by, s, delta, price) ==
  [by |-> by, stock |-> s, delta |-> delta, price |-> price]

Unread == [s \in Stocks |-> [qty |-> 0, cost |-> 0]]

\* shares of s at the broker: what the orders have filled
CallsFor(s) == {c \in Calls : c[2] = s}
Sign(c) == IF request[c].side = "BUY" THEN 1 ELSE -1
Moved(c) == IF request[c] = NoRequest THEN 0 ELSE Sign(c) * broker[c].filled
Held(s) == day.opening[s] + SumFunction([c \in CallsFor(s) |-> Moved(c)])

\* shares of s that no open SELL order has claimed
Claimed(c) ==
  IF request[c] # NoRequest /\ request[c].side = "SELL" /\ broker[c].state = "open"
  THEN request[c].qty - broker[c].filled ELSE 0
Free(s) == Held(s) - SumFunction([c \in CallsFor(s) |-> Claimed(c)])

Idle(a) == at[a] \in {"idle", "done"}

Init ==
  /\ Orders!Init
  /\ day \in [opening : [Stocks -> 0..Opening], events : Scenarios]
  /\ Cardinality({s \in Stocks : day.opening[s] > 0}) <= MaxPositions
  /\ \E p \in [Stocks -> Prices] :
       journal \in SetToSeqs({Entry(<<"opening", s>>, s, day.opening[s], p[s]) :
                               s \in {t \in Stocks : day.opening[t] > 0}})
  /\ at = [a \in Actors |-> "idle"]
  /\ \E s \in Stocks : stock = [a \in Runs |-> s]
  /\ todo = [a \in Actors |-> {}]
  /\ breached = [a \in Monitors |-> {}]
  /\ view = [a \in Actors |-> Unread]
  /\ since = [c \in Calls |-> {}]
  /\ reconciled = FALSE
-----------------------------------------------------------------------------
(* Orders. *)

\* The broker answers the order of call c.  It sells only what it holds.
Answer(c) ==
  /\ broker[c].state = "none"
  /\ Orders!BrokerMoves(c)
  /\ broker'[c].state # "rejected" /\ request[c].side = "SELL" =>
       request[c].qty <= Free(c[2])
  /\ broker'[c].state # "rejected" /\ "late_fill" \notin day.events =>
       broker'[c].filled = request[c].qty
  /\ broker'[c].state = "open" => broker'[c].filled < request[c].qty
  /\ since' = [since EXCEPT ![c] = {e.by : e \in ToSet(journal)}]
  /\ UNCHANGED <<day, journal, at, stock, todo, breached, view, reconciled>>

\* An order left open is filled further, or expires.
FillLate(c) ==
  /\ broker[c].state = "open"
  /\ Orders!BrokerMoves(c)
  /\ broker'[c] # broker[c]
  /\ broker'[c].state = "open" => broker'[c].filled < request[c].qty
  /\ UNCHANGED deskVars

Send(a, s, side, qty, price) ==
  LET c == <<a, s>>
      r == [stock |-> s, side |-> side, qty |-> qty, price |-> price,
            broker |-> "kis"]
  IN  /\ Orders!Ask(c) /\ request'[c] = r
      /\ at' = [at EXCEPT ![a] = "ordered"]

\* wrong: a monitor goes on the way a pipeline does
OnwardAlike(a) ==
  at' = [at EXCEPT ![a] =
           IF (IF a \in Pipelines THEN todo[a] ELSE breached[a]) = {}
           THEN "done" ELSE "choosing"]

\* what a run does after it has dealt with a stock
Onward(a) ==
  at' = [at EXCEPT ![a] =
           IF a \in Pipelines
           THEN IF todo[a] = {} THEN "done" ELSE "choosing"
           ELSE IF breached[a] = {} THEN "done" ELSE "exiting"]

\* wrong: the entry of a sale adds its shares
StampedUnsigned(c, ledger) ==
  {Append(ledger, Entry(c, c[2], db'[c].execs[1].qty, db'[c].pos[1].price))}

\* wrong: the entry carries the price of the market order
StampedUnpriced(c, ledger) ==
  {Append(ledger, Entry(c, c[2], db'[c].pos[1].delta, 0))}

\* occurred_at is taken after the broker's answer and before the commit, so
\* the entry comes after all that were there at the answer; entries of other
\* runs may have been committed first and carry a later time.
Stamped(c, ledger) ==
  {InsertAt(ledger, i, Entry(c, c[2], db'[c].pos[1].delta, db'[c].pos[1].price)) :
     i \in {k \in 1..Len(ledger) + 1 :
             \A j \in 1..Len(ledger) : ledger[j].by \in since[c] => j < k}}

\* execute_order commits and returns to its caller.
Book(a) ==
  LET c == <<a, stock[a]>>
  IN  /\ at[a] = "ordered" /\ broker[c].state # "none"
      /\ Orders!Book(c)
      /\ broker[c].state = "closed" /\ "late_fill" \notin day.events =>
           db'[c].execs # <<>> /\ db'[c].execs[1].qty = broker[c].filled
      /\ IF db'[c].pos = <<>> THEN UNCHANGED journal
                               ELSE journal' \in Stamped(c, journal)
      /\ Onward(a)
      /\ UNCHANGED <<day, stock, todo, breached, view, since, reconciled>>

\* execute_order ends without rows: it raises and its caller goes on, or the
\* worker is killed.
LoseRows(a) ==
  /\ "no_rows" \in day.events
  /\ at[a] = "ordered" /\ broker[<<a, stock[a]>>].state # "none"
  /\ Onward(a) \/ at' = [at EXCEPT ![a] = "done"]
  /\ UNCHANGED <<request, broker, db, day, journal, stock, todo, breached,
                 view, since, reconciled>>
-----------------------------------------------------------------------------
(* Pipeline runs. *)

Alone(a) ==
  /\ \A b \in Runs \ {a} :
       Idle(b) \/ (IF a \in Runs THEN "overlap" ELSE "reconcile_overlap") \in day.events
  /\ \A b \in Reconcilers \ {a} : Idle(b) \/ "reconcile_overlap" \in day.events

StartPipeline(a) ==
  /\ at[a] = "idle" /\ Alone(a)
  /\ at' = [at EXCEPT ![a] = "choosing"]
  /\ todo' = [todo EXCEPT ![a] = Stocks]
  /\ reconciled' = FALSE
  /\ UNCHANGED <<request, broker, db, day, journal, stock, breached, view,
                 since>>

\* The balance or the price cannot be had: the stock is passed over.
PassOver(a, s) ==
  /\ at[a] = "choosing" /\ s \in todo[a]
  /\ todo' = [todo EXCEPT ![a] = @ \ {s}]
  /\ at' = [at EXCEPT ![a] = IF todo[a] = {s} THEN "done" ELSE "choosing"]
  /\ UNCHANGED <<request, broker, db, day, journal, stock, breached, view,
                 since, reconciled>>

\* wrong: the quantity to sell is taken from the broker
ReadHolding(a, s) ==
  /\ at[a] = "choosing" /\ s \in todo[a]
  /\ at' = [at EXCEPT ![a] = "deciding"]
  /\ stock' = [stock EXCEPT ![a] = s]
  /\ todo' = [todo EXCEPT ![a] = @ \ {s}]
  /\ view' = [view EXCEPT ![a][s] = [PositionInfo(journal, s) EXCEPT !.qty = Held(s)]]
  /\ UNCHANGED <<request, broker, db, day, journal, breached, since, reconciled>>

\* The next stock; the position as the ledger has it now.
ReadPosition(a, s) ==
  /\ at[a] = "choosing" /\ s \in todo[a]
  /\ at' = [at EXCEPT ![a] = "deciding"]
  /\ stock' = [stock EXCEPT ![a] = s]
  /\ todo' = [todo EXCEPT ![a] = @ \ {s}]
  /\ view' = [view EXCEPT ![a][s] = PositionInfo(journal, s)]
  /\ UNCHANGED <<request, broker, db, day, journal, breached, since, reconciled>>

\* the price is at or beyond the stop or the target of position v
AtStop(v, price) == price * v.qty * 100 <= v.cost * (100 - StopPct)
AtTarget(v, price) == price * v.qty * 100 >= v.cost * (100 + TakePct)
MustExit(v, price) == v.qty > 0 /\ (AtStop(v, price) \/ AtTarget(v, price))

\* Stop, target, end of day, or the strategies: sell what was read.
Exit(a, price) ==
  LET s == stock[a] IN
  /\ at[a] = "deciding"
  /\ view[a][s].qty > 0
  /\ Send(a, s, "SELL", view[a][s].qty, price)
  /\ UNCHANGED <<day, journal, stock, todo, breached, view, since, reconciled>>

\* wrong: what is held already is bought again
BuyWhole(v, price, cash, budget) ==
  LET want == budget \div price
  IN  IF want * price > cash THEN cash \div price ELSE want

\* the quantity to buy, cut to the cash
BuyQty(v, price, cash, budget) ==
  LET want == budget \div price - v.qty
  IN  IF want * price > cash THEN cash \div price ELSE want

\* wrong: the positions are not counted
EnterUncounted(a, price, cash, budget) ==
  LET s == stock[a]
      v == view[a][s]
  IN  /\ at[a] = "deciding"
      /\ ~MustExit(v, price)
      /\ (budget \div price) * price <= PositionCap
      /\ budget \div price > v.qty
      /\ BuyQty(v, price, cash, budget) > 0
      /\ Send(a, s, "BUY", BuyQty(v, price, cash, budget), price)
      /\ UNCHANGED <<day, journal, stock, todo, breached, view, since, reconciled>>

\* wrong: the guard does not look at the value of the position
EnterUncapped(a, price, cash, budget) ==
  LET s == stock[a]
      v == view[a][s]
  IN  /\ at[a] = "deciding"
      /\ ~MustExit(v, price)
      /\ Cardinality(OpenPositions(journal, Stocks)) < MaxPositions
      /\ budget \div price > v.qty
      /\ BuyQty(v, price, cash, budget) > 0
      /\ Send(a, s, "BUY", BuyQty(v, price, cash, budget), price)
      /\ UNCHANGED <<day, journal, stock, todo, breached, view, since, reconciled>>

\* The strategies say BUY, no veto, and the risk guard lets it pass.  The guard
\* counts the positions and the order goes out in one step: the count is older
\* than the order in the code, and another run may book in between; what is
\* claimed of the count is claimed of days on which no other run is active.
Enter(a, price, cash, budget) ==
  LET s == stock[a]
      v == view[a][s]
  IN  /\ at[a] = "deciding"
      /\ ~MustExit(v, price)
      /\ Cardinality(OpenPositions(journal, Stocks)) < MaxPositions
      /\ (budget \div price) * price <= PositionCap
      /\ budget \div price > v.qty
      /\ BuyQty(v, price, cash, budget) > 0
      /\ Send(a, s, "BUY", BuyQty(v, price, cash, budget), price)
      /\ UNCHANGED <<day, journal, stock, todo, breached, view, since, reconciled>>

\* HOLD, or a decision that comes to no order.
Hold(a, price) ==
  /\ at[a] = "deciding"
  /\ ~MustExit(view[a][stock[a]], price)
  /\ Onward(a)
  /\ UNCHANGED <<request, broker, db, day, journal, stock, todo, breached,
                 view, since, reconciled>>
-----------------------------------------------------------------------------
(* The risk monitor. *)

\* internal_positions, read once for all stocks.
StartMonitor(m) ==
  /\ at[m] = "idle" /\ Alone(m)
  /\ at' = [at EXCEPT ![m] = "inspecting"]
  /\ view' = [view EXCEPT ![m] = [s \in Stocks |-> [qty |-> Net(journal, s), cost |-> 0]]]
  /\ todo' = [todo EXCEPT ![m] = OpenPositions(journal, Stocks)]
  /\ reconciled' = FALSE
  /\ UNCHANGED <<request, broker, db, day, journal, stock, breached, since>>

\* One stock: the average as the ledger has it now, the quantity as it was.
\* A stock whose price cannot be had is left out.
Inspect(m, s, price) ==
  LET v == PositionInfo(journal, s) IN
  /\ at[m] = "inspecting" /\ s \in todo[m]
  /\ todo' = [todo EXCEPT ![m] = @ \ {s}]
  /\ \/ UNCHANGED breached
     \/ /\ v.cost > 0 /\ MustExit(v, price)
        /\ breached' = [breached EXCEPT ![m] = @ \cup {s}]
  /\ UNCHANGED <<request, broker, db, day, journal, at, stock, view, since,
                 reconciled>>

EndInspection(m) ==
  /\ at[m] = "inspecting" /\ todo[m] = {}
  /\ Onward(m)
  /\ UNCHANGED <<request, broker, db, day, journal, stock, todo, breached,
                 view, since, reconciled>>

\* Sell the quantity of the snapshot.
ProtectiveExit(m, s, price) ==
  /\ at[m] = "exiting" /\ s \in breached[m]
  /\ breached' = [breached EXCEPT ![m] = @ \ {s}]
  /\ stock' = [stock EXCEPT ![m] = s]
  /\ Send(m, s, "SELL", view[m][s].qty, price)
  /\ UNCHANGED <<day, journal, todo, view, since, reconciled>>

\* The price asked for again cannot be had: the monitor raises, and the
\* stocks it has not come to are not sold.
BreakOff(m) ==
  /\ at[m] = "exiting"
  /\ at' = [at EXCEPT ![m] = "done"]
  /\ UNCHANGED <<request, broker, db, day, journal, stock, todo, breached,
                 view, since, reconciled>>
-----------------------------------------------------------------------------
(* reconcile_account --apply. *)

\* internal_positions, then broker.get_positions.
StartReconcile(r) ==
  /\ at[r] = "idle" /\ Alone(r)
  /\ at' = [at EXCEPT ![r] = "comparing"]
  /\ view' = [view EXCEPT ![r] = [s \in Stocks |-> [qty |-> Net(journal, s), cost |-> 0]]]
  /\ UNCHANGED <<request, broker, db, day, journal, stock, todo, breached,
                 since, reconciled>>

\* wrong: the difference is taken the other way round
CompareReversed(r) ==
  LET diff == [s \in Stocks |-> view[r][s].qty - Held(s)]
  IN  /\ at[r] = "comparing"
      /\ at' = [at EXCEPT ![r] = "adjusting"]
      /\ view' = [view EXCEPT ![r] = [s \in Stocks |-> [qty |-> diff[s], cost |-> 0]]]
      /\ todo' = [todo EXCEPT ![r] = {s \in Stocks : diff[s] # 0}]
      /\ UNCHANGED <<request, broker, db, day, journal, stock, breached,
                     since, reconciled>>

\* The answer of get_positions, and the differences.
Compare(r) ==
  /\ at[r] = "comparing"
  /\ at' = [at EXCEPT ![r] = "adjusting"]
  /\ \E answer \in {[s \in Stocks |-> Held(s)]} \cup
                   (IF "empty_positions" \in day.events THEN {[s \in Stocks |-> 0]} ELSE {}) :
       LET diff == [s \in Stocks |-> answer[s] - view[r][s].qty] IN
       /\ view' = [view EXCEPT ![r] = [s \in Stocks |-> [qty |-> diff[s], cost |-> 0]]]
       /\ todo' = [todo EXCEPT ![r] = {s \in Stocks : diff[s] # 0}]
  /\ UNCHANGED <<request, broker, db, day, journal, stock, breached, since,
                 reconciled>>

\* An ADJUSTMENT entry: the difference, at price zero.
Adjust(r, s) ==
  /\ at[r] = "adjusting" /\ s \in todo[r]
  /\ journal' = Append(journal, Entry(<<r, s>>, s, view[r][s].qty, 0))
  /\ todo' = [todo EXCEPT ![r] = @ \ {s}]
  /\ UNCHANGED <<request, broker, db, day, at, stock, breached, view, since,
                 reconciled>>

EndReconcile(r) ==
  /\ at[r] = "adjusting" /\ todo[r] = {}
  /\ at' = [at EXCEPT ![r] = "done"]
  /\ reconciled' = TRUE
  /\ UNCHANGED <<request, broker, db, day, journal, stock, todo, breached,
                 view, since>>
-----------------------------------------------------------------------------
Pipeline(a) ==
  \/ StartPipeline(a)
  \/ \E s \in Stocks : PassOver(a, s) \/ ReadPosition(a, s)
  \/ \E p \in Prices : \/ Exit(a, p) \/ Hold(a, p)
                        \/ \E k \in Cashes, budget \in Budgets : Enter(a, p, k, budget)

Monitor(m) ==
  \/ StartMonitor(m)
  \/ EndInspection(m) \/ BreakOff(m)
  \/ \E s \in Stocks, p \in Prices : Inspect(m, s, p) \/ ProtectiveExit(m, s, p)

Reconcile(r) ==
  \/ StartReconcile(r) \/ Compare(r) \/ EndReconcile(r)
  \/ \E s \in Stocks : Adjust(r, s)

Next ==
  \/ \E a \in Pipelines : Pipeline(a)
  \/ \E m \in Monitors : Monitor(m)
  \/ \E r \in Reconcilers : Reconcile(r)
  \/ \E a \in Runs : Book(a) \/ LoseRows(a)
  \/ \E c \in Calls : Answer(c) \/ FillLate(c)

Spec == Init /\ [][Next]_vars
-----------------------------------------------------------------------------
(* Properties. *)

DeskTypeOK ==
  /\ DOMAIN at = Actors
  /\ \A a \in Pipelines : at[a] \in {"idle", "choosing", "deciding", "ordered", "done"}
  /\ \A m \in Monitors : at[m] \in {"idle", "inspecting", "exiting", "ordered", "done"}
  /\ \A r \in Reconcilers : at[r] \in {"idle", "comparing", "adjusting", "done"}
  /\ stock \in [Runs -> Stocks]
  /\ todo \in [Actors -> SUBSET Stocks]
  /\ breached \in [Monitors -> SUBSET Stocks]
  /\ request \in [Calls -> Orders!Requests \cup {NoRequest}]
  /\ broker \in [Calls -> Orders!BrokerOrders]
  /\ \A i \in 1..Len(journal) :
       journal[i].stock \in Stocks /\ journal[i].price \in Prices \cup {0}

\* One run at a time, every order filled and booked at once.
Calm == day.events = {}

\* No order and no run is under way.
Quiet ==
  /\ \A a \in Actors : Idle(a)
  /\ \A c \in Calls : broker[c].state # "open"

\* Runs and reconciles come one after the other.
OneAtATime == {"overlap", "reconcile_overlap"} \cap day.events = {}

\* The ledger never sells what it does not have, at any point of its history
\* as get_position_info replays it: the runs decide on stale positions, but
\* unless they overlap no two of them sell the same shares.
LedgerNeverShort ==
  OneAtATime =>
    \A s \in Stocks, n \in 0..Len(journal) : Net(SubSeq(journal, 1, n), s) >= 0

\* Unless runs overlap, the pipeline (get_position_info) and the monitor, the
\* guard and the reconcile (SUM) read the same quantity out of the ledger.
ViewsAgree ==
  OneAtATime =>
    \A s \in Stocks : PositionInfo(journal, s).qty = Net(journal, s)

\* When nothing is under way the ledger says what the broker holds: overlap
\* alone loses or doubles no entry.
LedgerMatchesBroker ==
  day.events \subseteq {"overlap"} /\ Quiet =>
    \A s \in Stocks : Net(journal, s) = Held(s)

\* max_positions: the account holds no more stocks than the risk limits
\* allow, if every order is filled before the next is decided on.
PositionLimit ==
  Calm => Cardinality({s \in Stocks : Held(s) > 0}) <= MaxPositions

\* max_position_ratio: what the account holds of a stock is within the limit
\* at some price of the day (guard.py: "limit of the exposure per stock").
CapRespected ==
  \A s \in Stocks : \E p \in Prices : Held(s) * p <= PositionCap

\* So it is on a calm day that begins within the limit.
CapRespectedWhenCalm ==
  /\ Calm
  /\ \A s \in Stocks : \E p \in Prices : day.opening[s] * p <= PositionCap
  => CapRespected

\* The average entry price is between the lowest and the highest price paid
\* (get_position_info: "the average purchase price").
AverageWasPaid ==
  \A s \in Stocks :
    LET v == PositionInfo(journal, s)
        paid == {e.price : e \in {f \in ToSet(journal) : f.stock = s /\ f.delta > 0}}
    IN  v.qty > 0 => \E lo, hi \in paid : v.qty * lo <= v.cost /\ v.cost <= v.qty * hi

\* So it is as long as every sale is of the whole position.
AverageWasPaidWhenCalm == Calm => AverageWasPaid

\* A reconcile leaves the ledger equal to the broker (reconcile_account: the
\* difference is added "to fit the internal book to the broker").
ReconcileRestores ==
  reconciled /\ Quiet => \A s \in Stocks : Net(journal, s) = Held(s)

\* So it does when nothing is in flight beside it, even after lost rows.
ReconcileRestoresAlone == day.events \subseteq {"no_rows"} => ReconcileRestores

\* Every position that no reconcile has touched has a stop line: its average
\* entry price is positive (monitor_and_exit skips a position without one).
PositionsHaveStopLines ==
  \A s \in Stocks :
    /\ Net(journal, s) > 0
    /\ \A i \in 1..Len(journal) : journal[i].by[1] \notin Reconcilers
    => PositionInfo(journal, s).cost > 0
=============================================================================
