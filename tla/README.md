# golden_age in TLA+

Specifications, model checks and proofs for the automated stock trading backend
in `backend/` (Django, django-q2, PostgreSQL, the KIS brokerage API). Paths below
are relative to `backend/` unless they start with `docs/` or `README.md`; `TE` is
`core/pipeline/trader_executor.py`.

1. [The system](#1-the-system)
2. [What makes it hard](#2-what-makes-it-hard)
3. [Modules](#3-modules)
4. [Runs](#4-runs)
5. [Fairness](#5-fairness)
6. [Theorems](#6-theorems)
7. [Where code and words differ](#7-where-code-and-words-differ)
8. [What is not modelled](#8-what-is-not-modelled)
9. [Plan](#9-plan)

## 1. The system

A schedule (django-q, stored in the database) starts one *account run* per account
and market day slot. The run walks over the account's active traders and, for each
trader, over the stocks of the universe; for each stock it reads the balance, the
price and the position, asks the strategies, the market regime and the ML filter,
passes the answer through the risk guard, sends an order and books its fill. Three
more programs touch the same account: the risk monitor (the command `monitor_risk`)
sells what has gone through its stop or target, `reconcile_account --apply` (an
operator) adds the difference between broker and ledger to the ledger, and the fill
query of every order. A realtime collector and a backfill write the minute
candles the traders read.

| component | state it keeps | operations | talks to |
|---|---|---|---|
| Order execution (`TE` `execute_order`, `_resolve_fill`, `_record_event`) | `ord_order`, `ord_order_event`, `ord_trade_execution`, `acc_cash_ledger`, `acc_position_ledger` | submit, record, resolve the fill, book | broker (calls), database (one transaction) |
| Trader pipeline (`TE` `execute_trader_for_stock`, `get_position_info`, `get_open_position_count`) | decision log; reads the position ledger | one decision per stock, perhaps one order | execution, guard, predictor, broker |
| Account run (`core/pipeline/account_executor.py`, `apps/account/tasks.py`) | `ExecutionRun`, `TraderExecutionRun`, `BalanceSnapshot` | start, per-trader loop, finish | pipeline, broker |
| Risk guard (`core/risk/guard.py`) | none (limits are rows) | kill switch, regime, count, caps | called by the pipeline |
| Risk monitor (`core/pipeline/risk_monitor.py`) | local list of breached positions; an `ExecutionRun` | find breached, exit | ledger, broker, execution |
| Reconcile (`core/pipeline/reconcile.py`) | local differences | compare, adjust | ledger, broker |
| Health (`core/pipeline/health.py`) | none | a report on runs and candles | database |
| KIS broker (`core/broker/kis/`) | access token in a cache row | orders, fills, balance, positions, price, candles | HTTP, WebSocket |
| Backtest broker (`core/backtest/broker.py`) | cash, positions, price in memory | same interface, fills at once | backtest runner |
| Collector (`core/market/ingest.py`, `aggregator.py`, `core/broker/kis/realtime.py`) | ticks of the current minute in memory; `mkt_candle` | receive, flush completed minutes, persist | WebSocket, database |
| Backfill (`core/market/backfill.py`) | paging position; `mkt_candle` | ask for a page, persist, next page | broker, database |
| Model training, deployment, inference (`train_daytrading_model`, `core/ml/dataset.py`, `training.py`, `filter.py`, `predictor.py`) | dataset, artifact and deployment rows, one file per version, inference logs | build, train, save, deploy, retire, score | called by the pipeline; the disk |
| Universe (`apps/stock/models.py`, `import_universe_membership`, `sync_collection_universe`) | memberships with an interval | rebalance, sync, members at an instant | universe backtest, collector |
| Selection and sizing (`core/universe/`, `core/risk/sizing.py`) | none | filter and rank candidates, pick hot symbols, size an order | pipeline, universe backtest, collector |
| Labels, folds, calibration (`core/ml/labeling.py`, `validation.py`, `wfv.py`, `calibration.py`) | none | label, split, weigh, calibrate | training |
| Features (`core/features/builder.py`) | feature snapshots | build, capture | pipeline, dataset |
| Strategies and regime (`strategies/`, `core/pipeline/strategy_runner.py`, `core/analyzer/`) | market state rows | one answer per candle, a score | pipeline |
| Backtest engine, replay, cost analysis (`core/backtest/`) | cash and position in memory; the replay also the account's rows | one bar at a time, match trades | strategies or the trader pipeline |

Nothing in the program takes a lock or uses `select_for_update`: processes meet only
in the database and at the broker. Every actor reads, decides on what it has read,
and acts later.

What makes each part correct, in a line each:

- *Order execution*: what a reader finds about one order is one consistent story,
  written once, about an order the broker knows; no more is booked than was filled;
  every order at the broker has a row.
- *Desk (pipeline, monitor, reconcile, ledger)*: when nothing is under way ledger and
  broker agree; shares are never sold twice; limits per account and per stock hold;
  every reader of the ledger finds the same position; the average price is a price
  that was paid; every position has a stop line; a reconcile repairs what was lost.
- *Candles*: only completed minutes, whole, never rewritten, both sources alike, no
  holes, each minute written in the end.
- *Runs and decisions*: rows settle from below and say what happened, failing stocks
  do not end a run, the report on health can be believed, and nothing is bought once
  the day's loss has reached its limit.
- *Deployment*: a version is published once and never comes back; the fallback serves
  only while a deployment stands between two of its statements; what an inference used is
  what its log row names, unless a second call trained the version.
- *Universe*: who was a member at a past instant never changes; the index holds what it was given.
- *Tokens*: at most one live token per worker.
- *Learning*: no label that is trained on reaches the candles that are tested; weights
  tell overlap; the calibrator is the isotonic regression; the vector the model is asked
  with is the one it is trained with but for the quote and the meta-label's signal.
- *Backtest*: what is reported adds up with the cash, and the trades' results with both.
- *Selection, sizing, signals*: nothing better is passed over; better odds never give fewer
  shares; the orders of the moving averages are crosses of the stock's candles, whatever the
  100 candles a run reads leave out.

## 2. What makes it hard

The list by source line is in `PROJECT.json` ("hazards"). The main ones:

- **The broker first, the rows after it.** `create_order` is called before the
  transaction, so a lost answer, a killed worker or a failing statement leaves an
  order nobody has recorded; the query for fills runs *inside* the transaction.
- **Errors that look like data.** `KISClient.request` returns the parsed body whatever
  its `rt_cd`; callers that read lists with `.get(..., [])` see an error as "no fills",
  "no positions", "no candles", and numbers as 0.
- **Overlap.** django-q runs two workers, a task is killed after 300 s and delivered
  again after 360 s, the monitor runs at any time.
- **Late fills.** The fill is asked for once, right after the order.
- **Two readings of one ledger.** A sum in one place, a loop that clamps at zero and
  depends on `occurred_at` in another; `occurred_at` is taken before the commit.
- **Statements without a transaction.** Deployments, datasets and memberships change in
  three or four statements each; a reader or a second command comes in between, and a
  process that dies there leaves the rows as they are.
- **A row and a file.** An inference reads which version serves and then opens its file; a
  training call replaces the file before it asks the database whether it may.
- **Two units in one computation.** The embargo of the folds counts samples, the horizon of
  a label candles; fees contain slippage that the fill price contains already; executions of
  several stocks and several runs go through one matching queue.
- **Memory only.** The collector keeps the running minute in memory; get-or-create
  keeps for ever whatever was written first.

## 3. Modules

```
OrderRows            values: arguments, rows, fills
  OrderBook          abstract: an order's rows appear together, once
    OrderExecution   execute_order statement by statement   -- implements OrderBook
      OrderExecutionProofs
  TradingDesk        runs, monitor, reconcile; orders are OrderBook's
    DeskProofs
PositionViews        two readings of the position ledger    -- used by TradingDesk
  LedgerProofs       what the folds of both readings compute
Sums                 sum() of Python                        -- used by Signals, BacktestRunner
  FoldLemmas         folds and sums over any finite set or sequence
MinuteBars           collector and backfill
  MinuteBarsProofs
AccountRuns          runs, their rows, the decision, the loss limit
  RunsProofs
ModelRegister        abstract: one version serves, once
  Deployment         train, deploy, infer statement by statement -- implements ModelRegister
Universe             memberships of index and collection
BrokerTokens         the token table and its workers
  ServiceProofs      about Deployment, Universe, BrokerTokens and Features
Costs                ticks, slippage, commission, tax
  BacktestEngine     the event-driven engine, bar by bar
  BacktestRunner     the replay through the trader, and the matching of its trades
Sizing               shares of a BUY
  Selection          candidates, ranks, hot symbols, sizes of one bar
Signals              moving averages, RSI, regime, decision
Features             the vector served and the vector trained on
Learning             labels, samples, folds, weights
  ResearchProofs     about Learning, Calibration, BacktestEngine, BacktestRunner, Selection and Signals
Calibration          pool-adjacent-violators and interpolation
MC*                  constants and symmetry for TLC; MCParts runs the last ten, and orders
```

**OrderRows** has the arguments of `execute_order` (`Requests`), the five kinds of rows
one order leaves (`Rows`), and the arithmetic that turns a fill into them
(`CashChange`, `QtyDelta`, `FillStatus`).

**OrderBook** is what a reader of the database may rely on: a request is asked once, the
broker moves forward only, and all rows of an order become visible in one step, as
refused, as submitted, or as booked with a fill no larger than what the broker filled.

**OrderExecution** is the code. `pc[c]` is the statement call `c` is at: `calling`
(578), `recording` (587, the `with transaction.atomic()` block has begun), `resolving`
(613), `executing` (622), `cashing` (641), `positioning` (651), `completing` (666).
`tx[c]` are the rows its open transaction has written, `db[c]` the committed ones.
Both brokers are there: KIS answers and fills later (`AcceptedByKis`, then
`ResolvedByQuery`, `Unfilled` or, when the query raises, `ResolvedByAssumption`);
the backtest broker fills at once and says at what price (`FilledByBacktest`,
`ResolvedByAnswer`). `BrokerFills` and `BrokerExpires` are the exchange. What may fail
is the constant `Faults`; each member enables exactly one action (or, for
`empty_answer`, one more outcome of `Unfilled`). That a call ends is not claimed: the HTTP
requests have no timeout (`core/broker/kis/client.py:122`), and of the programs that send
orders only the tasks of django-q are killed. A call that hangs is one whose next step never
comes, which no safety property minds.

**PositionViews** has `Net` (the SUM of `internal_positions` and
`get_open_position_count`) and `PositionInfo` (the loop of `get_position_info`). The
average is kept as its numerator `cost`, so no division is needed.

**TradingDesk** puts one account together: `Pipelines`, `Monitors`, `Reconcilers` are
runs. A pipeline run is `choosing` a stock (any order; a failing balance or price
query passes it over), `deciding` on the position it read, `ordered`, and goes on. The
scores, vetoes and the balance are any answer; what the code does *with* them - stop,
target, target quantity, cash, count, cap - is there. `Enter` counts the positions
(`TE:426`) and sends the order (`TE:578`) in one step, although another run may book in
between; the count is claimed only of days on which no other run is active. A monitor takes its snapshot
(`StartMonitor`), asks for prices stock by stock (`Inspect`), and sells the snapshot's
quantities (`ProtectiveExit`). A reconcile reads the ledger, then the broker, then
writes. An order is `Orders!Ask`, `Orders!BrokerMoves`, `Orders!Book` of OrderBook:
that is sound because OrderExecution implements it (section 6), and it replaces a
dozen steps by three. `journal` is the position ledger *ordered by occurred_at*:
`Stamped` inserts an entry anywhere after those that were there when the broker
answered. A day is chosen in `Init`: what is held, and its `events`.

**MinuteBars** is one stock's day: a clock, trades, the wire to the collector, its
buffer, the candles flushed and not yet written, the candles by source, and the
backfill job. A trade is its place in the day and a candle is the set of trades it was
made of: open, high, low, close and volume are functions of that set, and the set
tells apart exactly what the properties ask. `Die`/`Restart` is an exception leaving
`connect_and_run` or a kill; it loses buffer and socket. A backfill that is killed is begun
again from the present (`StartBackfill`): each of its candles is a commit of its own, so
that what it had written stays.

**AccountRuns** is the account executor without its orders. `row[r]` is a run's
`ExecutionRun`, `child[r][s]` the `TraderExecutionRun` of stock `s`, `decision[p][s]` its
`DecisionLog`. A pipeline run is `looping` over its stocks; with one of them it is
`asking` for balance and price, `deciding`, `ordering`; then it is `saving` its closing
snapshot and `closing`. `FinalAction` is the order of checks of
`execute_trader_for_stock`: stop, target and close of the day before the strategies, then
regime and ML filter, then the guard. The snapshot is asked for and stamped in one step
(`Stamp`) and inserted in another (`SaveSnapshot`), as in the code, so that two runs can
insert in the other order; `snaps` is ordered by the stamp. `worth` and `dayStart` are
history: what the account was really worth, whatever the broker said. What a day brings
is chosen in `Init` (`events`): overlapping runs, killed workers, a raising trader, a
raising statement of the run, raising queries, an error body read as 0. The final
`save` of the run's row, in its `finally`, is taken not to fail.

**Deployment** has a training call (`training[c]`) go through the statements of
`train_daytrading_model`: `StartDataset`, `AddSnapshots`, `AddItems`, `MarkReady`
(`dataset.py`), `TrainAndOpen`, `WriteFile`, `CreateArtifact` (`training.py:60-95`), and with
`--deploy` the four statements of `deploy_artifact`. `file[v]` says whose model the file
of version `v` holds; the truncating open and the write are two steps, and two writers may
leave `Torn`. `Die` may come between any two. An inference is two steps as in
`run_inference`: the row (`SelectModel`), then the file (`Infer`). `Serving` is the query
of the filter engine; it and the set of versions that were ever published are the
refinement mapping to **ModelRegister**.

**Universe** is `sync_universe`/`rebalance_universe` in its three statements; a command
takes its instant before it reads. `membership` holds rows with half-open intervals.
**BrokerTokens** separates the look into the table, the issue, the store and the later use.

**Costs**, **BacktestEngine**, **BacktestRunner**: amounts are integers in `1/RateUnit` won and
a square root is compared by squares. A step of the engine is one turn of its loop; the
replay's step is one candidate of one bar, its orders being what `execute_trader_for_stock`
orders for any target it may compute, and the lots are then matched a turn of the inner
loop at a time. An account may start with an execution of an earlier replay.

**Signals** stores candles (`StoreCandle`) and lets runs look at them (`Look`), any number of
times before the next is stored or not at all: the schedule is a minute, the default candle a
day. A run sees the newest `CandleLimit` candles (`Visible`, 100 in `TE:265`), while the
crosses that the properties speak of are those of everything stored. Averages are sums times
the other period, so nothing is rounded. `slow` is the strategy's `slow_period`, any of
`SlowPeriods`; `heard` are the strategies that did not raise. **Selection** observes stocks one
by one, selects, then sizes each candidate with **Sizing** (caps are quotients of integers;
the least cap rounded down is the least of the caps rounded down). **Features** describes a
feature by the integers it is computed from, so that two features are equal in the model
exactly when the code computes them from equal input; candles have one row per minute *and*
source, and two rows of a minute come from the database in either order. `current_price` is
the quote a run is given and the close in a data set; `primary_signal` occurs in the samples
of a data set built for meta-labelling only (`dataset.py:121`). **Learning** builds
a data set candle by candle and then walks over the folds; **Calibration** takes labels and
merges pools one at a time, as `_pav` does.

**MCParts** puts the last ten beside each other, and with them OrderExecution without the
raising fill query, which is what the refinement assumes. They share no row while they work,
so an initial state picks the one that runs and the state spaces add up.

Operators marked `wrong:` are plausible slips of the code next to the right one; each
is used only to see that the property it is named for would notice.

## 4. Runs

| run | module | looks at | shows |
|---|---|---|---|
| `order_safety` | MCOrderExecution | 2 calls, 2 shares, 2 prices, every fault, a raising fill query included | rows of an order agree, are backed by the broker, never change |
| `desk_calm` | MCTradingDesk | 2 stocks, 2 pipeline runs, a monitor, one after the other, fills at once | never more positions than allowed |
| `desk_events` | MCTradingDesk | 1 stock, 2 pipeline runs, a monitor, a reconcile; five kinds of day | ledger = broker when quiet, nothing sold twice, and what else still holds on each kind of day |
| `bars_day` | MinuteBars | 4 minutes, 4 trades, 2 pages of 2 candles; five kinds of day; fair | candles whole, final, without holes, written |
| `runs_day` | MCAccountRuns | 2 pipeline runs, a monitor, 2 stocks; six kinds of day | what the rows of a run are worth; the loss limit is armed by the runs before |
| `parts` | MCParts | eleven parts, one per initial state (below) | orders as their readers rely on them, deployments, universes, tokens, backtests, signals, features, learning, calibration, selection |
| `order_untraced` | MCOrderExecution | 2 calls; a lost answer, a failing database | **violated** `EveryOrderTraced` |
| `order_phantom` | MCOrderExecution | a raising fill query | **violated** `BookedFillsHappened` |
| `desk_doublebuy` | MCTradingDesk | overlapping runs | **violated** `CapRespected` |
| `desk_average` | MCTradingDesk | partial fills | **violated** `AverageWasPaid` |
| `desk_midflight` | MCTradingDesk | a reconcile beside a run | **violated** `ReconcileRestores` |
| `runs_losslimit` | MCAccountRuns | an error body read as a balance of 0 | **violated** `LossLimitHeld` |

What a property assumes is said in the property. The premise is what the code can do
nothing about *as it is written*, and the violation runs show that it is needed:

| property | holds on | and not on |
|---|---|---|
| `BookedFillsHappened`, `ImplementsOrderBook` | every fault but a raising fill query | a raising fill query: the whole order is taken as filled (`order_phantom`) |
| `LedgerMatchesBroker` | calm and overlapping days | lost rows, late fills (never settled) |
| `LedgerNeverShort`, `ViewsAgree` | every day without overlap, lost rows, late fills and bad answers included | overlap: two runs sell the same shares, one entry is ordered before the purchase, and the clamp at zero makes the two readings differ |
| `PositionLimit`, `CapRespectedWhenCalm`, `AverageWasPaidWhenCalm` | calm days | overlap, late or partial fills |
| `ReconcileRestoresAlone` | calm days and days with lost rows | in-flight orders, empty answers |
| `PositionsHaveStopLines` | every day of the run, for positions no reconcile has touched | an ADJUSTMENT has price 0 |
| `CandlesAreWhole` | no restart, no late trade; candles of the backfill also without a forming minute | a restart within a minute |
| `CloseIsLast` | restarts included | late trades |
| `OnlyCompletedMinutes`, `CandlesAreFinal` | every day | |
| `EndedRunsAreSettled` | every day, kills and failing statements included | |
| `SuccessMeansDecided` | days on which queries answer | a failing balance or price query is recorded as SUCCESS |
| `HealthTells` | no kill, and the last run is a pipeline run | a killed run stays RUNNING, which counts as healthy |
| `LossLimitHeldAlone` | no overlap, no error body | overlap (the first snapshot may be inserted last), error bodies |

The properties of `parts`, by part:

| part | instance | properties |
|---|---|---|
| order | 2 calls, 2 shares, 1 price, every fault but a raising fill query | `BookedFillsHappened`, `ImplementsOrderBook` |
| deployment | 2 training calls, 2 stocks, 2 versions, a reader, any death | `UnservedOnlyWhileDeploying`, `InferencesAreExplained`, `ImplementsRegister` |
| universe | 2 commands, 2 stocks, 3 instants, any death | `HistoryIsStable`; `UniverseIsAsAsked` while commands run alone |
| tokens | 2 workers, a lifetime of 2 in 4 ticks | `OneLiveTokenPerWorker` |
| engine | 5 bars, prices across the tick limit of 2000, volumes with and without impact | `EngineAddsUp` |
| runner | 2 stocks, 3 bars, cash that cuts an order, an account with and without a past | `FifoAddsUp` for the account without |
| signals | 6 candles of 3 prices, 4 of them read, a fast period of 2, slow ones of 3 and 4, strategies that raise, looks at any time | `CrossesAreReal`; `OrdersRepeatOnRereads` |
| learning | any 7 candles of 2 prices, folds of 1 or 2 samples | `FoldsAreSound`, `WeightsTellOverlap` |
| calibration | any 5 outcomes at 4 scores | `CalibrationIsIsotonic` (against the max-min formula of isotonic regression) |
| selection | 3 stocks, 3 volatilities, inside and outside the entry window | `SelectedAreBest`, `SizesFollowTheOdds` |
| features | 4 candles in 3 minutes from both writers, windows of 2, a quote at or off the close, with and without meta-labelling | `SkewIsQuoteAndSignal`, on candles not written later and minutes with one candle |

**Bounds.** `order_*`: calls share nothing but the database, and each writes only its
own rows, so two calls show every interleaving that matters and the theorems lift the
bound; quantity 2 distinguishes nothing, partial and complete; costs {0,1} tell the
fallback (no costs) from a fill with costs. `desk_*`: `Budgets` of 2 and 3 at prices {1,2}
give targets of 3, 2 and 1 shares, so topping up and partial sales occur; `PositionCap = 2`
turns the target of 3 shares down and lets those of 2 and 1 pass, so that the cap decides
(the violation runs need the budget 2 only); `StopPct = 40` and `TakePct = 50` put price 1
below the stop of a purchase at 2 and price 2 above the target of a purchase at 1; `Cashes = {1,4}` cuts
an order or does not; two runs and a monitor are the smallest set in which one actor's
read goes stale through two others. In `desk_events` one stock suffices because its
properties are about one stock's entries; `desk_calm` has two stocks and one allowed
position for the count. `bars_day`: four minutes give a hole between written minutes,
a page seam and a minute after it; four trades give two in one minute and one that
completes it. `runs_day`: at `LossLimit = 3` the
equities 100 and 97 are a day's loss just at the limit, where `>=` matters; two
pipeline runs, because the first arms the limit of the second; two stocks, so that one
is settled while the other is open; a monitor, so that the last run need not be a
pipeline run. `parts`: two processes are the smallest number that can meet in the middle of
a command, and each has fewer than a dozen statements; two versions show a retirement, a
late older version and a retrained one. The engine's prices lie on both sides of a tick
limit and its barriers of 1 % are reached by some of them; five bars hold two trades.
Seven candles hold a full label horizon on both sides of a fold boundary with a candle
skipped in between. A window of two candles over three minutes shows one that does not begin at the
first candle and one that a doubled minute shortens. Of the two slow periods one is below
the number of candles read and one takes them all, which is where the older slow average is
one close short (`slow_period = 100` in the code); two candles more are stored than are read. In
`selection` the daily and the minute's volume are each the least cap of some order.
Constants with "bound:" in the modules are limits of the model only.
Deadlock is not checked: every actor starts a bounded number of times and the day ends.

**Symmetry.** Calls in `order_safety` and `parts`; stocks and pipeline runs in the desk runs and in
`runs_day`; in `parts` processes, stocks and versions, which stand for the same model values
in every part. No run with a liveness property uses symmetry; `RowsAreFinal`,
`ImplementsOrderBook`, `ImplementsRegister` and `HistoryIsStable` are safety properties in
which the symmetric values are only quantified over.

## 5. Fairness

- *Collector* (`WF(Receive \/ Write)`): the adapter's `async for` loop handles every
  frame it has received before it waits for the next. Nothing is assumed of the market,
  of restarts or of the backfill.
- Nothing else has fairness, and all other properties are safety. An order, and with it a run
  of the desk, waits for HTTP requests without a timeout (`core/broker/kis/client.py:122`);
  django-q kills its own tasks after 300 s, but not the monitor, a manual run or one of cron.
  Nothing in the code brings a dead training call or command back, or runs the monitor again.

## 6. Theorems

`OrderExecutionProofs` proves, for any set of calls, stocks, prices and costs, any
largest quantity and any set of faults (assumptions `BookAssumption`,
`FaultsAssumption`, `NoFillAssumption` only):

| theorem | statement |
|---|---|
| `TypeCorrect` | `Spec => []TypeOK` |
| `BooksAlwaysAgree` | `Spec => []BooksAgree` |
| `RowsAlwaysBacked` | `Spec => []RowsBackedByBroker` |
| `RowsStayFinal` | `Spec => RowsAreFinal` |
| `NoPhantomFills` | `"query" \notin Faults` implies `Spec => []BookedFillsHappened` |
| `ExecutionImplementsBook` | `"query" \notin Faults` implies `Spec => Book!Spec` |

None of these properties is inductive: `BooksAgree` speaks of committed rows and says
nothing of the ones a later commit will publish. `IInv` adds, per call, (`RowsOK`) that
the open transaction holds *exactly* the rows of the statements executed so far
(`Staged(pc, request, fill)`) and that nothing is committed before the call has ended;
(`CallOK`) that a known fill is one the broker made (`Honest`); (`BrokerOK`) which
states of the broker's order each statement may meet. From it: a commit publishes
`NoRows`, `Submitted(..)` or `Booked(r, f)`, and lemma `BookedAgrees` shows that
`Booked` agrees with itself for every fill. The premise on the fill query is needed -
`order_phantom` shows the behaviour without it - and is the only one; `Honest` carries
it, so that the other four theorems do without. Every action has a lemma
(`...Step`) that it keeps `IInv`; calls it does not touch stay good by
`UntouchedStaysGood`. The refinement maps each variable to itself; actions before the
commit are stutters (`PrivateRefines`), the commits are `Book`.

`FoldLemmas`, `LedgerProofs` and `DeskProofs` prove about the account, for any runs, monitors, reconciles
and stocks, any prices, quantities, cash, caps and percentages, and any days (assumptions
`BookAssumption`, `DeskAssumption`):

| theorem | statement |
|---|---|
| `DeskTyped` | `Spec => []DeskTypeOK` (of TradingDesk) |
| `NeverShort` | `Spec => []LedgerNeverShort` |
| `BothViewsAgree` | `Spec => []ViewsAgree` |
| `MatchesBroker` | `Spec => []LedgerMatchesBroker` |
| `ReconcileFits` | `Spec => []ReconcileRestoresAlone` |
| `PositionsLimited` | `Spec => []PositionLimit` |
| `CapKept` | `Spec => []CapRespectedWhenCalm` |
| `AverageIsPaid` | `Spec => []AverageWasPaidWhenCalm` |
| `StopLinesStand` | `0 \notin Prices` implies `Spec => []PositionsHaveStopLines` |
| `DeskImplementsOrders` | `Spec => Orders!Spec` |

Every safety invariant of TradingDesk that a run checks is there. The premises on the day are
those of the properties (section 4). `StopLinesStand` needs that no trade has price 0: a share
bought at 0 would have a stop line of 0, which the monitor skips; the runs have prices {1,2}.

*The ledger.* Both readings are folds, and `FoldLeft` is defined with CHOOSE, so that first
there must be a function for it to choose: `FoldExists` has it by the least counterexample over
the subsets of `1..n`, `ChainFold` by the largest index of each, and `NetChain`, `InfoChain`
bring both readings into the form "the value after entry n is that after entry n - 1, and entry
n". From there on `NetOfAppend`, `NetOfInsert`, `InfoOfAppend` say what an entry does to each
reading: an entry *inserted* (`Stamped` does not always append) moves the sum as an entry at the
end does, the loop only if it comes last. `SumChange` and `SumSolves` do the same for the
broker's side, `Held` and `Free`, where a step changes one order of a finite set.

*The account.* `DeskInv` is the conjunction of what each property rests on:

| part | says | under |
|---|---|---|
| `DeskTypes`, `EntriesPriced` | types; an entry has a price of the day unless a reconcile made it | always |
| `OrdersFit` | a run waits for the order it has sent; rows are those of a fill the broker made | always |
| `TakesTurns` | who may be active beside whom | always |
| `NothingOversold` | open sell orders claim no more than is held | always |
| `ReconcilersRead` | what a reconcile has read of the ledger is still so | no reconcile beside runs |
| `ActOnTheBook` | no prefix of the ledger is short, both readings agree, and every actor is `Aware`: what it means to sell or to adjust is still there | `OneAtATime` |
| `BookIsComplete` | the ledger is the opening plus what the orders have booked, and nothing is left to adjust | nothing but overlap |
| `Restored` | what a reconcile has still to add is what is missing | nothing but lost rows |
| `LimitsKept` | count and cap, and that the order on its way is within them | calm days |
| `AveragesPaid` | cost lies between quantity times prices paid | calm days |

`LedgerNeverShort` shows why so much is needed. A run reads a position, decides, and sends an
order; the broker answers; the entry is inserted after what was there at the answer. The
quantity sold is the one read, and it is still in the ledger only because nobody else is
active (`TakesTurns`), everything the broker knows of this run is what it has sent
(`OrdersFit`), and the entry comes last (`InsertLast`: all entries are older than the answer).
Under overlap each of the three fails. For `LedgerMatchesBroker` none of this matters: there the
argument is a count, order by order (`LedgerIsBooked`), and overlap does it no harm. The
refinement maps each variable to itself: `Send` is `Orders!Ask`, `Answer` and `FillLate` are
`Orders!BrokerMoves`, `Book` is `Orders!Book`, everything else a stutter.

`MinuteBarsProofs` proves, for any number of minutes, trades and pages, any size of a page and
any events (assumption `BarsAssumption`):

| theorem | statement |
|---|---|
| `BarsTyped` | `Spec => []TypeOK` (of MinuteBars) |
| `MinutesAreCompleted` | `Spec => []OnlyCompletedMinutes` |
| `CandlesStayFinal` | `Spec => CandlesAreFinal` |
| `CloseHolds` | `Spec => []CloseIsLast` |
| `WholeCandles` | `Spec => []CandlesAreWhole` |
| `NoHole` | `Spec => []NoHoleLeft` |

`OnlyCompletedMinutes` is about candles that are there; its invariant adds where they come
from: no trade is later than the clock (`PastTrades`), so what the buffer gives away when
a trade arrives belongs to minutes that are over (`FlushedMinutesAreOver`). Lemma
`CreateKeeps` is get-or-create: one place changes, and only if it was empty.

For `CloseIsLast` and `CandlesAreWhole` the buffer and the wire are taken together (`Held`).
In time order they are closed upward, deaths included (`Onward`), and what a trade completes
cannot still be on the wire (`Taken`), so a flushed minute goes with every later trade of it.
Without restarts whatever is no longer held is of an *earlier minute* than all that is
(`Behind`): a minute is therefore flushed whole or not at all. `Behind` is inductive only with
the remark that the last trade is always held.

`NoHoleLeft` needs the numbers of the job (`JobInv`): every page so far held `PageSize` minutes
with trades, or was the last one (`NewestAre`); all minutes from its first one on have a candle
or a row (`InPage`); and the running minute, which a broker may list, counts once (`Enough`
with one `extra`). A job that ends for want of pages has then seen `Pages * PageSize - 1`
minutes that were over when it began, and the premise says there were no more. That the two
writers and the market go on meanwhile changes nothing: those minutes have no new trades
(`OverStays`), and a row is dropped only when its candle is there (`RowKept`).

`ServiceProofs` proves, for any number of workers, commands and stocks, any lifetime and any
bound on the clocks (assumptions `TokenConstants`, `UniverseConstants`):

| theorem | statement |
|---|---|
| `TokensTyped` | `TokenSpec => []TokenTypeOK` |
| `OneLiveToken` | `TokenSpec => []OneLiveTokenPerWorker` |
| `UniverseTyped` | `UniverseSpec => []UniverseTypeOK` |
| `UniverseAsAsked` | `UniverseSpec => []UniverseIsAsAsked` |
| `HistoryStable` | `UniverseSpec => HistoryIsStable` |
| `CollectionGrows` | `UniverseSpec => CollectionOnlyGrows` |

`OneLiveTokenPerWorker` is inductive once it is known that a worker takes a token that
exists: `PromisesEnd` (no row promises more than a lifetime from now) bounds the expiry of the
rows, and a bounded set of naturals that is not empty has a largest member (`LongestExists`,
from the library's least member of a well-founded order). `UniverseIsAsAsked` is not: a
command writes what it read two statements ago. `AloneInv` says what `alone` buys: at most one
command runs, what it has read (and, after the second statement, retired) is still so
(`ReadingHolds`), and when the newest rows are known nobody is running. `HistoryStable` needs
none of it, only that an instant that is settled is earlier than every row a running command
will still open or close.

It proves also, for any number of training calls, readers, stocks, versions and
inferences (assumption `DeploymentConstants`):

| theorem | statement |
|---|---|
| `DeploymentTyped` | `DeploymentSpec => []DeploymentTypeOK` |
| `MockOnlyInBetween` | `DeploymentSpec => []UnservedOnlyWhileDeploying` |
| `SwappedFiles` | `DeploymentSpec => []SwappedFilesHaveACulprit` |
| `InferencesExplained` | `DeploymentSpec => []InferencesAreExplained` |
| `DeploymentImplementsRegister` | `DeploymentSpec => ImplementsRegister` |

Its invariant says who owns what. A call that has created its artifact row is the only one
that can change it: the unique constraint on the version has refused all others
(`OwnersKnown`). Artifacts are numbered in the order of their creation, so that the newest
deployed one exists and is unique (`BirthsOrdered`, lemma `NewestIs`): without it `Serving`
would not be a value. Whoever opens the file of a version stays visible as one who did
(`FilesExplained`): `SwappedFiles` and `InferencesExplained` follow. In the refinement
`RetireArtifacts` is `Withdraw`, or a stutter when nothing was deployed; `MarkDeployed` is
`Publish` of a version that was READY; every other statement, deaths included, is a stutter.

And it proves, for any candles, windows, spans and minutes (assumption `FeatureConstants`):

| theorem | statement |
|---|---|
| `FeaturesSound` | `FeatureSpec => []SkewIsQuoteAndSignal` |

A run's snapshot is remembered as the candles it knew and one order of them (`FeatureInv`); the
table has grown since. The order of the candles is built minute by minute (`IsAscent`): a minute
adds what it has (`AscentStep`), so the candles up to one minute come first whatever comes later
(`AscentSplits`), and two orders of the same candles are equally long and differ only where a
minute has two (`SameAscents`). Hence the snapshot's order begins that of the data set
(`Prefix`); the newest candle of a window without twins is where it ends; and both windows,
cut from there, hold the same candles. The joined context has names that no data set has
(`PlainNames`, `JoinedApart`). What is left are the two names by which the vectors do differ,
and they differ exactly there: `current_price` when the quote is not the close, and
`primary_signal` whenever it was trained on.

`ResearchProofs` proves, for any candles, any label horizon and any sizes of the folds
(assumption `LearningConstants`):

| theorem | statement |
|---|---|
| `LearningTyped` | `LearningSpec => []LearningTypeOK` |
| `FoldsSound` | `LearningSpec => []FoldsAreSound` |
| `WeightsSound` | `LearningSpec => []WeightsTellOverlap` |

The embargo counts samples, the horizon candles; the proof of `FoldsSound` says why that is
safe: samples are apart in candles by at least what they are apart in rows (`EntriesApart`; a
candle gives at most one sample), no label looks further than a horizon (`LooksAhead`), and a
fold leaves a horizon of rows out (`FoldFits`). A weight is full when every candle of the label
is looked at by one label only, which is a matter of sets with one member (`OnlyMember`).

It proves also, for any prices, volumes, rates, barriers and number of bars
(assumptions `CostConstants`, `EngineConstants`):

| theorem | statement |
|---|---|
| `EngineTyped` | `EngineSpec => []EngineTypeOK` |
| `EngineBalances` | `EngineSpec => []EngineAddsUp` |
| `TradesInTime` | `EngineSpec => []TradesKeepTheirTime` |

`EngineAddsUp` speaks of a finished run. At every bar before, cash and sums differ by what was
paid for the open position, its entry costs included (`SumsAgree`). `EngineTyped` is worth
a proof because a fill contains a square root that is chosen, not computed: it exists
(`ImpactTyped`, by the least number whose square reaches the radicand), and there is a tick
for every price (`TickTyped`).

And of the calibrator, the replay, its cost analysis, the strategies and the selection, for
any samples, stocks, candidates, bars, prices, volumes, probabilities and periods (assumptions
`CalibrationConstants`, `CostConstants`, `RunnerConstants`, `SignalConstants`,
`SizingConstants`, `SelectionConstants`):

| theorem | statement |
|---|---|
| `CalibrationSound` | `CalibrationSpec => []CalibrationIsIsotonic` |
| `FifoSound` | `RunnerSpec => []FifoAddsUp` |
| `CrossesReal` | `SignalSpec => []CrossesAreReal` |
| `RereadsRepeat` | `SignalSpec => OrdersRepeatOnRereads` |
| `SelectionSound` | `SelectionSpec => []SelectedAreBest` |
| `SizesSound` | `SelectionSpec => []SizesFollowTheOdds` |

`CalibrationIsIsotonic` compares what a loop over the labels made with a formula over all
intervals of labels. What the loop keeps (`CalibrationInv`) is seen on a walk that goes up by a
label with every sample: over each pool the straight line from its start to its end lies below
the walk (`PoolsFit`), and all pools but the last one climb (`Climbs`). A label taken is a line
of its own; two pools are made one only when the second is no steeper, and then the line over
both is below the two (`LineOverBoth`). When nothing violates, the line of a pool, drawn on to
both sides, supports the whole walk (`LineSupports`), which is the formula
(`PoolIsRegression`); `MeanCounts` ties the walk to the counts of labels. The values that the
fold writes out belong to the pools their positions fall in (`FittedIs`), so equal scores keep
the greatest of theirs, the points of the curve rise (`CurveRises`), and interpolation between
rising points rises (`LineRises`, `PredictRises`).

`FifoAddsUp` speaks of the end of the analysis; `RunnerInv` says what holds before. Of the
replay (`ReplayInv`): after every prefix of the executions the shares bought are at least those
sold, all of them give what the broker holds, and what they moved, with the slippage counted
once, is the change in cash. `ExecutionTyped` shows that a fill costs a whole amount per share,
so that the division of `compute_trade_pnls` loses nothing. Of the matching (`MatchInv`): the
open lots hold what the executions matched so far leave, plus what is unsold of the sale at
hand, and the results are their cash plus the basis of the lots, less what that sale will
still bring (`Owed`). Since no prefix is short, a sale never meets an empty queue. Per stock the
queue is wrong (section 7); the sums over all stocks are what is right about it.

`CrossesReal` compares the averages of what a run reads with those of everything stored. As long
as a window lies within what is read it is the same one (`LeadAsStored`); at
`slow_period = CandleLimit` the older slow window is cut to one close less, which makes the
older lead too large (`LeadTooLarge`, prices being positive): a BUY is still a golden cross, a
dead cross may be made up, and nothing more is claimed. `RereadsRepeat` needs that what the
strategy takes for the previous averages is what it compared one candle ago (`LeadBefore`), so
that a lead cannot cross zero the same way twice (`OneCross`), and that one strategy alone is a
BUY or a SELL exactly when it says so and its threshold is above zero (`HeardAlone`).
`SelectionSound` rests on `SortedSorts`: a list in
which each member has its rank by a strict weak order, ties by position, is sorted and has
everyone once. `SizesSound` has the least of the caps, rounded down, below every cap
(`SizeIsLeastCap`) and the Kelly fraction grow with the odds (`KellyGrows`), through quotients
that only grow with what is divided (`QuotientRises`).

`RunsProofs` proves, for any number of runs, monitors and stocks and any days (assumption
`RunsAssumption`):

| theorem | statement |
|---|---|
| `RunsTyped` | `Spec => []TypeOK` (of AccountRuns) |
| `EndedRunsSettled` | `Spec => []EndedRunsAreSettled` |
| `SuccessDecided` | `Spec => []SuccessMeansDecided` |
| `HealthReports` | `Spec => []HealthTells` |
| `LossLimitStands` | `Spec => LossLimitHeldAlone` |

What a run has still to do has no child yet, and of what it has begun everything is settled but
the stock it is with (`ChildrenOK`): so at most one child stays RUNNING wherever the worker dies,
and there is none when the run reaches its closing snapshot. A stock that is `ordering` has
been decided on (`DecisionsOK`). A run that has ended without a kill says how (`RowOK`), and
only runs that have begun are in the table (`StartedOK`): that is all the health report needs.
A step changes one run; lemma `OnlyStep` carries the others over.

The loss limit needs a second invariant (`LossInv`, which TLC confirms on `runs_day`), on days
without overlap and error bodies: at most one run is active (`OneRun`); a snapshot's total is
what the account was worth (`TrueSnapshots`); only a run at its end has one (`SnapshotsEnd`); the
run that is saving has the last one (`LastIsSaved`), so that a commit never puts a snapshot
before the base; hence the base is what the account was worth at the first commit
(`BaseIsDayStart`). The code compares the loss with a percentage of today's balance, the promise
with one of the base: `LimitMeasured` shows that the code's is never the looser.

Only model-checked: the one liveness property, `MinutesAreWritten` (temporal proofs under
fairness are out of the prover's reach). Every safety property of a passing run is proved.

The type invariants of OrderExecution, TradingDesk, MinuteBars, BrokerTokens, Universe,
Deployment, Learning, BacktestEngine and AccountRuns are proved. Every other module states its
own (`RunnerTypeOK`, ...); they are not among the properties of the runs and hold when added to
them, as does `NeverOverdrawn` (BacktestRunner). `CollectionOnlyGrows`,
`SwappedFilesHaveACulprit` and `TradesKeepTheirTime` are proved and in no run.

## 7. Where code and words differ

With a run (PROJECT.json, "findings"): `README.md:328` asks that every order can be traced,
and an order whose answer is lost, or whose rows are rolled back, leaves none (`TE:578`); a
raising fill query books the whole order (`TE:552`); overlapping runs exceed the exposure limit (`TE:466`); the average price
keeps the cost of shares sold (`TE:74`); a reconcile beside a run books an order twice
(`core/pipeline/reconcile.py:38`); a closing snapshot taken from an error body makes the
day's capital 0 and so disarms the loss limit (`core/pipeline/account_executor.py:120`).

Met while modelling; each can be seen by adding a member to `Faults` or `Scenarios`:

- `TE:548` and `TE:616` leave late fills to a "later settlement" that does not exist:
  nothing asks for the fills of an ACCEPTED order again (`"late_fill"` breaks
  `LedgerMatchesBroker` and `PositionLimit` without their premises).
- `docs/database.md:126` and `docs/db_schema.md:909` keep external calls out of
  transactions; the fill query is made inside one (`TE:613`).
- An error body of the balance query reads as "no positions", so that
  `reconcile_account --apply` books the sale of everything (`"empty_positions"` breaks
  `ReconcileRestores`).
- `core/pipeline/risk_monitor.py:4` promises to watch stop and target of what is held; a
  position known only from an ADJUSTMENT (price 0, `reconcile.py:56`) has no stop line.
  The pipeline, which has no such guard, takes its profit at once.
- `core/market/ingest.py:71` says `flush_all` is for the close of the market; the live
  path never calls it (`core/broker/kis/realtime.py:203`), so the last traded minute of
  a day is not written by the collector. `MinutesAreWritten` therefore speaks of minutes
  followed by a trade.
- `docs/db_schema.md:442` lists a status SKIPPED for `TraderExecutionRun`; the code has no
  such status, and a stock whose balance or price query failed (`TE:221`, `TE:228`) is
  recorded as SUCCESS (`SuccessMeansDecided` without its premise).
- The monitor never settles its `TraderExecutionRun` rows, and a raising price leaves its
  `ExecutionRun` RUNNING (`core/pipeline/risk_monitor.py:67-73`). `EndedRunsAreSettled`
  therefore speaks of pipeline runs.
- `system_health` looks at the last run of any type and takes everything but FAILED as
  healthy: a killed run and a run FAILED before a successful monitor run both pass
  (`HealthTells` without its premises).
- A price of 0 (an error body) is at or below every stop line, so that the pipeline sells;
  the monitor skips such prices (`risk_monitor.py:40`).
- A broker that lists the running minute makes the backfill write it unfinished, and
  get-or-create keeps it (`CandlesAreWhole` without its premise); the trader reads candles of
  both sources alike (`TE:262`).

Of the other parts:

- *Deployment.* Between retiring the old artifact and marking the new one
  (`core/ml/training.py:32-39`) no version serves and the pipeline filters by the mock; a
  process that dies there leaves it so until the next deployment. `deploy_artifact` of an older
  version beside a newer one can leave two `DEPLOYED` rows, of which the newer serves.
- Training an existing version again replaces the file that serves (`training.py:84`) and then
  fails on the unique constraint; `artifact_checksum`, "for verification"
  (`apps/system/models.py:18`), is never compared. The log row of an inference names the model
  also when its file could not be loaded and the mock answered (`filter.py:102`; its payload
  says which). `train_from_dataset(deploy=True)`, which no command uses, would not retire the
  versions before it.
- *Universe.* Two rebalances beside each other enter a stock twice, or leave the index with the
  stocks of one and the leavers of the other; nothing makes an open membership unique. Symbols
  that are no stock are dropped, and if all of them are, the index is emptied
  (`import_universe_membership.py:44`).
- *Tokens.* `expires_at` is counted from the moment the row is written, after the broker
  started to count (`core/broker/kis/client.py:75`), and a request refused for its token is not
  tried again: a token taken in its last moments fails.
- *Engine.* `Trade.net_pnl` leaves out the cost of the entry (`core/backtest/engine.py:159`), so
  that the trades together, and with them the win rate, look better than the `net_pnl` of the
  run, by exactly that (`EngineAddsUp` says so). Fees contain the slippage that the fill price
  has already paid. A position whose time is up is sold at `entry + horizon + 1`.
- *Replay.* `compute_trade_pnls` takes no symbol: a sale is matched with the oldest purchase of
  any stock, and `universe_runner.py:140` gives it every execution the account ever had.
  Positions come from the account's ledger, cash from the simulated broker, so an account with
  a past lets the replay try to sell what its broker does not hold. An order cut to
  `floor(cash / price)` (`TE:471`) is refused when its fill price and fees go beyond the cash
  (`core/backtest/broker.py:80`): what the cash does not reach for is not bought at all.
- *Signals.* A trader remembers no signal: runs of the same day read the same daily candles
  (`TE:259-265`), so a cross is an order of every one of them, also after a stop has sold what
  it bought. The target quantity keeps it from buying more than once (`TE:466`). The RSI of a price that did not move is 100 and says SELL
  (`strategies/kim/rsi_strategy.py:50`). With exactly `slow_period` candles the previous slow
  average is divided by a period it does not have (`moving_average.py:39`), so the first signal
  may be a dead cross that was none. A `slow_period` of 100 is in that case with every candle,
  since no more than 100 are read (`TE:265`): its dead crosses repeat candle by candle, and
  golden ones are missed. A longer one never says anything. An `entry_threshold` of 0.05 or less becomes zero or negative
  in a BULL market (`core/analyzer/market_analyzer.py:27`), and silence is a BUY (`TE:343`).
- *Features.* `builder.py:6` rules out any difference between training and serving. It arises
  from candles written late, from a minute that both sources have written (the window then
  holds it twice), from `current_price`, a feature of every vector, which is the close in a data
  set (`dataset.py:115`) and the quote when served (`TE:271`), and from `primary_signal`, which
  meta-labelling adds to every sample (`dataset.py:121`) and no run computes, so that the model
  finds it missing. `SkewIsQuoteAndSignal` says that there is nothing else. `excess_ret_1` and `cs_return_rank` never occur in a data set, so that no model sees
  them. `minutes_since_open` takes the hour of a UTC time (`builder.py:173`) and is 0 in every
  Korean session.
- *Labels.* A label with fewer candles to come than its horizon is a TIME label; the docstring
  (`core/ml/labeling.py:56`) says None.
- *Selection.* `universe_runner.py:105` never passes `minutes_since_open`, so the blocks after the
  opening and before the close do not apply in its backtests.

## 8. What is not modelled

- What LightGBM fits, Platt scaling, validation metrics, drawdown and Sharpe ratio, the k-means
  clustering of index regimes: floating-point statistics without state. The desk takes any
  answer of a model; strategies, sizes and labels are modelled in integers.
- The text of reasons and the strategies' log rows; the loading of strategy classes by name.
- `--universe COLLECTION` for `import_universe_membership` (a rebalance of the collected stocks).
- HTTP, JSON, TR ids, WebSocket frames: pure input and output. What their failures look
  like to a caller *is* modelled (empty lists, lost answers, raising calls).
- Django admin, migrations, settings, `research/`: declarative, generated or offline.
- Several accounts (they share no rows), several active traders per account (the
  pipeline's loop is the same code run again).
- The PostgreSQL isolation level below commit: every transaction here writes new rows
  only and reads nothing it depends on.

## 9. Plan

What is left, in this order:

1. `NeverOverdrawn` for an account with a past.
2. A settlement of late fills, when the code gets one: it would remove the premises of
   `LedgerMatchesBroker` and `PositionLimit`.
