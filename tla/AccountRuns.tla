----------------------------- MODULE AccountRuns -----------------------------
(***************************************************************************)
(* The runs of one account and the rows they leave: execute_account_run    *)
(* (core/pipeline/account_executor.py) with the decision of                *)
(* execute_trader_for_stock, monitor_and_exit                              *)
(* (core/pipeline/risk_monitor.py) and system_health                       *)
(* (core/pipeline/health.py).                                              *)
(*                                                                         *)
(* A run is a row of acc_execution_run, its children are rows of           *)
(* trd_execution_run.  A balance snapshot is written at the end of a run,  *)
(* and the first one of the day is what later runs measure the day's loss  *)
(* against: the loss limit of a run is armed by the runs before it.        *)
(*                                                                         *)
(* What a day may bring is a member of its events, chosen when it begins:  *)
(*   overlap        a run starts while another is active                   *)
(*   kill           a worker is killed (django-q timeout, restart)         *)
(*   trader         execute_trader_for_stock raises                        *)
(*   db             a statement of the run itself raises; the last one,    *)
(*                  which saves its row, excepted                          *)
(*   queries        a balance or price query raises                        *)
(*   empty_answer   get_balance or get_current_price answers 0 (an error   *)
(*                  body without output is parsed as zero)                 *)
(*                                                                         *)
(* Left out: positions, orders and fills (TradingDesk, OrderExecution);    *)
(* what is held, the scores and the vetoes are any.  One ACTIVE trader.    *)
(***************************************************************************)
EXTENDS Integers, Sequences, SequencesExt

CONSTANTS
  Pipelines,   \* runs of execute_account_run, each started at most once
  Monitors,    \* runs of monitor_and_exit, each started at most once
  Stocks,      \* active stocks
  Equities,    \* total_asset_value the account may have
  LossLimit,   \* daily_loss_limit_ratio, in percent
  Scenarios    \* the days to look at, each by what it may bring

Runs == Pipelines \cup Monitors

ASSUME RunsAssumption ==
  /\ Pipelines \cap Monitors = {}
  /\ Equities \subseteq Nat \ {0}
  /\ LossLimit \in 1..100
  /\ \A e \in Scenarios :
       e \subseteq {"overlap", "kill", "trader", "db", "queries", "empty_answer"}

VARIABLES
  events,     \* what today may bring
  equity,     \* what the account is worth
  row,        \* row[r]: ExecutionRun.status, "none" without a row
  child,      \* child[r][s]: TraderExecutionRun.status
  decision,   \* decision[p][s]: DecisionLog.final_action, of pipeline runs
  pc, stock, todo,  \* where run r is, with which stock, and what is left
  read,       \* read[r]: the total_asset_value it decides with
  started,    \* runs by started_at
  snaps,      \* balance snapshots by snapshotted_at, the uncommitted included;
              \* worth is history: what the account was worth
  dayStart    \* history: worth of the first snapshot that was committed

rows == <<row, child, decision, started>>
control == <<pc, stock, todo, read>>
vars == <<events, equity, rows, control, snaps, dayStart>>

Statuses == {"none", "RUNNING", "SUCCESS", "FAILED"}
\* final_action; no property tells SELL and HOLD apart
Actions == {"BUY", "OTHER"}
Active(r) == pc[r] \notin {"idle", "done"}

\* The tables, as far as a property tells their rows apart: a run has one row,
\* a child and a decision per stock, and at most one snapshot.
ExecutionRunRows == [Runs -> Statuses]
TraderRunRows == [Runs -> [Stocks -> Statuses]]
DecisionRows == [Pipelines -> [Stocks -> Actions \cup {"none"}]]
SnapshotRows == [by : Pipelines, total : Equities \cup {0}, worth : Equities,
                 committed : BOOLEAN]

TypeOK ==
  /\ events \in Scenarios /\ equity \in Equities
  /\ row \in ExecutionRunRows /\ child \in TraderRunRows
  /\ decision \in DecisionRows
  /\ pc \in [Runs -> {"idle", "looping", "asking", "deciding", "ordering",
                      "saving", "closing", "done"}]
  /\ stock \in [Runs -> Stocks \cup {"none"}] /\ todo \in [Runs -> SUBSET Stocks]
  /\ read \in [Runs -> Equities \cup {0}]
  /\ started \in Seq(Runs)
  /\ snaps \in Seq(SnapshotRows)
  /\ dayStart \in Equities \cup {0}

Init ==
  /\ events \in Scenarios /\ equity \in Equities
  /\ row = [r \in Runs |-> "none"]
  /\ child = [r \in Runs |-> [s \in Stocks |-> "none"]]
  /\ decision = [p \in Pipelines |-> [s \in Stocks |-> "none"]]
  /\ pc = [r \in Runs |-> "idle"]
  /\ stock = [r \in Runs |-> "none"]
  /\ todo = [r \in Runs |-> {}]
  /\ read = [r \in Runs |-> 0]
  /\ started = <<>> /\ snaps = <<>> /\ dayStart = 0

MarketMoves ==
  /\ equity' \in Equities
  /\ UNCHANGED <<events, rows, control, snaps, dayStart>>
-----------------------------------------------------------------------------
(* The decision. *)

\* what a decision depends on besides the balance
Inputs == [held : BOOLEAN, price : {"zero", "stop", "fair", "target"},
           eod : BOOLEAN, score : Actions, blocked : BOOLEAN,
           vetoed : BOOLEAN, limits : BOOLEAN]

\* get_day_start_equity: the first snapshot of the day, {} for None
Base == {snaps[i].total : i \in {k \in 1..Len(snaps) :
                                  /\ snaps[k].committed
                                  /\ \A j \in 1..k - 1 : ~snaps[j].committed}}

\* wrong: in percent of the base, and only beyond the limit
LossBreachedBeyond(total) ==
  \/ total <= 0
  \/ \E base \in Base : (base - total) * 100 > LossLimit * base

\* daily_loss_breached; without a base the day's loss is zero
LossBreached(total) ==
  \/ total <= 0
  \/ \E base \in Base : (base - total) * 100 >= LossLimit * total

\* can_open_new_position; i.limits stands for the count and the two caps
MayOpen(i, total) == ~LossBreached(total) /\ i.limits

\* stop, target, close of the day, or the strategies
Signal(i) ==
  IF (i.held /\ i.price # "fair") \/ i.eod THEN "OTHER" ELSE i.score

\* the regime and the ML filter stop purchases only
Vetted(i) ==
  IF Signal(i) = "BUY" /\ (i.blocked \/ i.vetoed) THEN "OTHER" ELSE Signal(i)

\* the quantity to buy divides by the price
Raises(i) == Vetted(i) = "BUY" /\ i.price = "zero"

\* wrong: a purchase that is stopped gets an action of its own
FinalActionBlocked(i, total) ==
  IF Vetted(i) = "BUY" /\ ~MayOpen(i, total) THEN "BLOCKED" ELSE Vetted(i)

FinalAction(i, total) ==
  IF Vetted(i) = "BUY" /\ ~MayOpen(i, total) THEN "OTHER" ELSE Vetted(i)
-----------------------------------------------------------------------------
(* execute_account_run. *)

\* what run r knows only while it deals with a stock
Leave(r) ==
  /\ stock' = [stock EXCEPT ![r] = "none"]
  /\ read' = [read EXCEPT ![r] = 0]

Goto(r, from, to) ==
  /\ pc[r] = from
  /\ pc' = [pc EXCEPT ![r] = to]

SetRow(r, status) == row' = [row EXCEPT ![r] = status]
SetChild(r, status) == child' = [child EXCEPT ![r][stock[r]] = status]

Alone == \A q \in Runs : Active(q) => "overlap" \in events

Start(p) ==
  /\ Alone
  /\ Goto(p, "idle", "looping")
  /\ SetRow(p, "RUNNING")
  /\ started' = Append(started, p)
  /\ todo' = [todo EXCEPT ![p] = Stocks]
  /\ UNCHANGED <<events, equity, child, decision, stock, read, snaps, dayStart>>

\* the row of the next stock
OpenChild(r, s) ==
  /\ Goto(r, "looping", "asking")
  /\ s \in todo[r]
  /\ todo' = [todo EXCEPT ![r] = @ \ {s}]
  /\ stock' = [stock EXCEPT ![r] = s]
  /\ child' = [child EXCEPT ![r][s] = "RUNNING"]
  /\ UNCHANGED <<events, equity, row, decision, started, read, snaps, dayStart>>

\* what get_balance may say
Told == {equity} \cup (IF "empty_answer" \in events THEN {0} ELSE {})

AskBalance(p) ==
  /\ Goto(p, "asking", "deciding")
  /\ \E total \in Told : read' = [read EXCEPT ![p] = total]
  /\ UNCHANGED <<events, equity, rows, stock, todo, snaps, dayStart>>

\* The balance or the price cannot be had: execute_trader_for_stock returns,
\* and its caller takes that for success.
PassOver(p) ==
  /\ "queries" \in events
  /\ Goto(p, "asking", "looping")
  /\ SetChild(p, "SUCCESS")
  /\ Leave(p)
  /\ UNCHANGED <<events, equity, row, decision, started, todo, snaps, dayStart>>

\* the inputs a decision may meet
Possible == {i \in Inputs : i.price = "zero" => "empty_answer" \in events}

Decide(p) ==
  /\ Goto(p, "deciding", "ordering")
  /\ \E a \in {FinalAction(i, read[p]) : i \in {j \in Possible : ~Raises(j)}} :
       decision' = [decision EXCEPT ![p][stock[p]] = a]
  /\ read' = [read EXCEPT ![p] = 0]
  /\ UNCHANGED <<events, equity, row, child, started, stock, todo, snaps,
                 dayStart>>

\* The order, if any, is over (execute_order raises nothing).
CloseChild(p) ==
  /\ Goto(p, "ordering", "looping")
  /\ SetChild(p, "SUCCESS")
  /\ Leave(p)
  /\ UNCHANGED <<events, equity, row, decision, started, todo, snaps, dayStart>>

\* wrong: a stock that failed counts as done
ChildFailsSilently(p) ==
  /\ pc[p] \in {"asking", "deciding", "ordering"}
  /\ "trader" \in events \/ (pc[p] = "deciding" /\ \E i \in Possible : Raises(i))
  /\ pc' = [pc EXCEPT ![p] = "looping"]
  /\ SetChild(p, "SUCCESS")
  /\ Leave(p)
  /\ UNCHANGED <<events, equity, row, decision, started, todo, snaps, dayStart>>

\* execute_trader_for_stock raises; the run goes on with the next stock.
ChildFails(p) ==
  /\ pc[p] \in {"asking", "deciding", "ordering"}
  /\ "trader" \in events \/ (pc[p] = "deciding" /\ \E i \in Possible : Raises(i))
  /\ pc' = [pc EXCEPT ![p] = "looping"]
  /\ SetChild(p, "FAILED")
  /\ Leave(p)
  /\ UNCHANGED <<events, equity, row, decision, started, todo, snaps, dayStart>>

\* wrong: the last stock is not waited for
StampEarly(p) ==
  /\ pc[p] \in {"looping", "ordering"}
  /\ pc' = [pc EXCEPT ![p] = "saving"]
  /\ todo[p] = {}
  /\ \E total \in Told :
       snaps' = Append(snaps, [by |-> p, total |-> total, worth |-> equity,
                               committed |-> FALSE])
  /\ UNCHANGED <<events, equity, rows, stock, todo, read, dayStart>>

\* All stocks are done: the closing balance, and the time it is stamped with.
Stamp(p) ==
  /\ Goto(p, "looping", "saving")
  /\ todo[p] = {}
  /\ \E total \in Told :
       snaps' = Append(snaps, [by |-> p, total |-> total, worth |-> equity,
                               committed |-> FALSE])
  /\ UNCHANGED <<events, equity, rows, stock, todo, read, dayStart>>

\* BalanceSnapshot.objects.create
SaveSnapshot(p) ==
  /\ Goto(p, "saving", "closing")
  /\ snaps' = [i \in 1..Len(snaps) |->
                 IF snaps[i].by = p THEN [snaps[i] EXCEPT !.committed = TRUE] ELSE snaps[i]]
  /\ dayStart' = IF Base # {} THEN dayStart
                 ELSE (CHOOSE b \in ToSet(snaps) : b.by = p).worth
  /\ UNCHANGED <<events, equity, rows, stock, todo, read>>

\* No snapshot: the balance cannot be had, or cannot be saved.
MissSnapshot(p) ==
  /\ \/ "queries" \in events /\ pc[p] = "looping" /\ todo[p] = {}
     \/ "db" \in events /\ pc[p] = "saving"
  /\ pc' = [pc EXCEPT ![p] = "closing"]
  /\ UNCHANGED <<events, equity, rows, stock, todo, read, snaps, dayStart>>

\* SUCCESS, and the end of the run
Close(r, from) ==
  /\ Goto(r, from, "done")
  /\ SetRow(r, "SUCCESS")
  /\ UNCHANGED <<events, equity, child, decision, started, stock, todo, read,
                 snaps, dayStart>>

\* A statement outside of execute_trader_for_stock raises: a query of the
\* run, the creation of a child, or the saving of its status.
RunFails(p) ==
  /\ "db" \in events
  /\ pc[p] \in {"looping", "asking", "deciding", "ordering"}
  /\ pc' = [pc EXCEPT ![p] = "done"]
  /\ SetRow(p, "FAILED")
  /\ Leave(p) /\ todo' = [todo EXCEPT ![p] = {}]
  /\ UNCHANGED <<events, equity, child, decision, started, snaps, dayStart>>

\* A worker is killed; what it has committed stays.
Kill(r) ==
  /\ "kill" \in events
  /\ Active(r)
  /\ pc' = [pc EXCEPT ![r] = "done"]
  /\ Leave(r) /\ todo' = [todo EXCEPT ![r] = {}]
  /\ UNCHANGED <<events, equity, rows, snaps, dayStart>>
-----------------------------------------------------------------------------
(* monitor_and_exit. *)

\* Some positions are beyond their lines.
StartMonitor(m, breached) ==
  /\ breached # {} /\ Alone
  /\ Goto(m, "idle", "looping")
  /\ SetRow(m, "RUNNING")
  /\ started' = Append(started, m)
  /\ todo' = [todo EXCEPT ![m] = breached]
  /\ UNCHANGED <<events, equity, child, decision, stock, read, snaps, dayStart>>

\* The price, the decision and the order; the child keeps its status.
ExitStock(m) ==
  /\ Goto(m, "asking", "looping")
  /\ Leave(m)
  /\ UNCHANGED <<events, equity, rows, todo, snaps, dayStart>>

\* The price cannot be had, or a statement raises: nothing catches it.
MonitorFails(m) ==
  /\ {"queries", "db"} \cap events # {}
  /\ Active(m)
  /\ pc' = [pc EXCEPT ![m] = "done"]
  /\ Leave(m) /\ todo' = [todo EXCEPT ![m] = {}]
  /\ UNCHANGED <<events, equity, rows, snaps, dayStart>>
-----------------------------------------------------------------------------
Pipeline(p) ==
  \/ \E s \in Stocks : OpenChild(p, s)
  \/ PassOver(p) \/ AskBalance(p) \/ Decide(p) \/ CloseChild(p) \/ ChildFails(p)
  \/ Stamp(p) \/ SaveSnapshot(p) \/ MissSnapshot(p) \/ Close(p, "closing")
  \/ RunFails(p) \/ Kill(p)

Monitor(m) ==
  \/ \E s \in Stocks : OpenChild(m, s)
  \/ ExitStock(m) \/ MonitorFails(m) \/ Kill(m)
  \/ todo[m] = {} /\ Close(m, "looping")

Next ==
  \/ MarketMoves
  \/ \E p \in Pipelines : Start(p) \/ Pipeline(p)
  \/ \E m \in Monitors : Monitor(m) \/ \E b \in SUBSET Stocks : StartMonitor(m, b)

Spec == Init /\ [][Next]_vars
-----------------------------------------------------------------------------
(* Properties. *)

\* Rows settle from below: a pipeline run that says SUCCESS has a settled
\* child for every stock, and whatever happens to a run it leaves at most one
\* child RUNNING.
EndedRunsAreSettled ==
  \A p \in Pipelines :
    /\ row[p] = "SUCCESS" => \A s \in Stocks : child[p][s] \in {"SUCCESS", "FAILED"}
    /\ \A s, t \in Stocks : child[p][s] = "RUNNING" /\ child[p][t] = "RUNNING" => s = t

\* If no query raises, a stock marked SUCCESS has been decided on.
SuccessMeansDecided ==
  "queries" \notin events =>
    \A p \in Pipelines, s \in Stocks :
      child[p][s] = "SUCCESS" => decision[p][s] # "none"

\* wrong: the first run
HealthyAtFirst == started = <<>> \/ row[started[1]] # "FAILED"

\* system_health: the last run
Healthy == started = <<>> \/ row[started[Len(started)]] # "FAILED"

\* When nothing is under way, the health report tells a last pipeline run that
\* failed from one that did not, unless a worker was killed.
HealthTells ==
  LET last == started[Len(started)]
  IN  "kill" \notin events /\ started # <<>>
        /\ (\A r \in Runs : ~Active(r)) /\ last \in Pipelines
      => (Healthy <=> row[last] = "SUCCESS")

\* Once a run has left a snapshot, no purchase is decided on a balance that is
\* below what the account was worth then by the loss limit or more (tests.py:
\* a loss above the limit against the capital at the start of the day blocks
\* new entries).
WithinLimit ==
  \A p \in Pipelines, s \in Stocks :
    decision[p][s] = "none" /\ decision'[p][s] = "BUY" /\ dayStart # 0
    => (dayStart - read[p]) * 100 < LossLimit * dayStart
LossLimitHeld == [][WithinLimit]_vars

\* So it is if no run overlaps another and no error body is taken for zero.
LossLimitHeldAlone ==
  [][{"overlap", "empty_answer"} \cap events = {} => WithinLimit]_vars
=============================================================================
