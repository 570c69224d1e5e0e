---------------------------- MODULE BacktestRunner ----------------------------
(***************************************************************************)
(* The trader pipeline replayed over past bars, and its cost analysis:     *)
(*   core/backtest/runner.py, core/backtest/universe_runner.py,            *)
(*   core/backtest/broker.py, core/backtest/tca.py.                        *)
(*                                                                         *)
(* The replay has a simulated broker of its own but writes into the order, *)
(* ledger and execution rows of the trader's account, which may hold       *)
(* others.  What execute_trader_for_stock decides, and the target quantity *)
(* it computes, are left open; what it orders then is not.  One stock is   *)
(* run_trader_backtest, several are run_universe_backtest.                 *)
(***************************************************************************)
EXTENDS Costs, Sequences, Sums

CONSTANTS
  Stocks,
  StartCash,    \* in 1/RateUnit won
  RunPrices, RunVolumes,
  MaxTarget,    \* bound on the target quantity of a BUY
  MaxBars       \* bound on the bars of a replay

ASSUME RunnerConstants ==
  /\ IsFiniteSet(Stocks) /\ StartCash \in Nat
  /\ RunPrices \subseteq Nat \ {0} /\ RunVolumes \subseteq Nat
  /\ MaxTarget \in Nat /\ MaxBars \in Nat

VARIABLES
  barsLeft,
  purse,     \* broker.cash
  held,      \* broker.positions
  market,    \* broker._market, as [price, volume]
  queue,     \* candidates of this bar that the trader has not looked at
  ledger,    \* quantity of each stock by the ledger of the account
  fills,     \* execution rows of the account, oldest first
  matched,   \* how many of them compute_trade_pnls has matched
  lots,      \* its queue of open lots, [qty, price, cost] per share
  unsold,    \* what is left of the sale it matches
  realized,  \* sum of its results
  inherited  \* the executions the account had before the replay

runnerVars == <<barsLeft, purse, held, market, queue, ledger, fills, matched,
                lots, unsold, realized, inherited>>
replayVars == <<barsLeft, purse, held, market, queue, ledger, fills>>
tcaVars == <<matched, lots, unsold, realized>>
-----------------------------------------------------------------------------
Execution(stock, fill) ==
  [stock |-> stock, side |-> fill.side, qty |-> fill.quantity,
   price |-> fill.price, slip |-> fill.slippage,
   cost |-> fill.commission + fill.tax + fill.slippage]

FillOf(stock, side, quantity) ==
  EstimateFill(side, market[stock].price, quantity, market[stock].volume)

\* An account that never traded, or one that holds a share from before.
RunnerInit ==
  /\ barsLeft = MaxBars
  /\ purse = StartCash
  /\ held = [s \in Stocks |-> 0]
  /\ market = [s \in Stocks |-> [price |-> 0, volume |-> 0]]
  /\ queue = <<>>
  /\ \/ /\ fills = <<>>
        /\ ledger = held
     \/ \E s \in Stocks, price \in RunPrices :
          /\ fills = <<Execution(s, EstimateFill("BUY", price, 1, 0))>>
          /\ ledger = [held EXCEPT ![s] = 1]
  /\ inherited = fills
  /\ matched = 0
  /\ lots = <<>>
  /\ unsold = 0
  /\ realized = 0

\* A bar: every stock with enough candles is marked, the candidates among them
\* are queued by their score.  A stock that had enough candles keeps having them.
NextBarOfReplay ==
  /\ queue = <<>>
  /\ barsLeft > 0
  /\ barsLeft' = barsLeft - 1
  /\ \E marked \in SUBSET Stocks :
       /\ {s \in Stocks : market[s].price > 0} \subseteq marked
       /\ \E news \in [marked -> [price : RunPrices, volume : RunVolumes]] :
            market' = [s \in Stocks |-> IF s \in marked THEN news[s] ELSE market[s]]
       /\ queue' \in SetToAllKPermutations(marked)
  /\ UNCHANGED <<purse, held, ledger, fills, inherited, tcaVars>>

\* broker.create_order and the rows execute_order writes for its fill
Bought(stock, quantity) ==
  LET fill == FillOf(stock, "BUY", quantity)
      required == fill.gross + fill.commission + fill.tax
  IN IF quantity > 0 /\ required <= purse
     THEN /\ purse' = purse - required
          /\ held' = [held EXCEPT ![stock] = @ + quantity]
          /\ ledger' = [ledger EXCEPT ![stock] = @ + quantity]
          /\ fills' = Append(fills, Execution(stock, fill))
     ELSE UNCHANGED <<purse, held, ledger, fills>>

Sold(stock, quantity) ==
  LET fill == FillOf(stock, "SELL", quantity) IN
  IF quantity > 0 /\ quantity <= held[stock]
  THEN /\ purse' = purse + fill.gross - (fill.commission + fill.tax)
       /\ held' = [held EXCEPT ![stock] = @ - quantity]
       /\ ledger' = [ledger EXCEPT ![stock] = @ - quantity]
       /\ fills' = Append(fills, Execution(stock, fill))
  ELSE UNCHANGED <<purse, held, ledger, fills>>

\* What the account's ledger says is missing to the target; when the cash does
\* not reach, as many shares as the cash buys at the reference price.
QuantityToBuy(stock, target) ==
  LET missing == target - ledger[stock]
      price == market[stock].price * RateUnit
  IN IF missing * price > purse THEN purse \div price ELSE missing

TraderBuys(stock, target) ==
  IF target > ledger[stock] THEN Bought(stock, QuantityToBuy(stock, target))
  ELSE UNCHANGED <<purse, held, ledger, fills>>

\* execute_trader_for_stock for the next candidate
Decide ==
  /\ queue # <<>>
  /\ queue' = Tail(queue)
  /\ LET stock == Head(queue) IN
       \/ \E target \in 0 .. MaxTarget : TraderBuys(stock, target)
       \/ Sold(stock, ledger[stock])
       \/ UNCHANGED <<purse, held, ledger, fills>>
  /\ UNCHANGED <<barsLeft, market, inherited, tcaVars>>

Replayed == queue = <<>> /\ barsLeft = 0

\* wrong: the cost of the fill is taken for the cost of a share
TakeBuyAtFullCost ==
  /\ Replayed /\ unsold = 0 /\ matched < Len(fills)
  /\ LET f == fills[matched + 1] IN
       /\ f.side = "BUY"
       /\ lots' = Append(lots, [qty |-> f.qty, price |-> f.price * RateUnit,
                                cost |-> f.cost])
  /\ matched' = matched + 1
  /\ UNCHANGED <<replayVars, unsold, realized, inherited>>

\* compute_trade_pnls takes all executions of the account, whose stock it does
\* not look at.
TakeBuy ==
  /\ Replayed /\ unsold = 0 /\ matched < Len(fills)
  /\ LET f == fills[matched + 1] IN
       /\ f.side = "BUY"
       /\ lots' = Append(lots, [qty |-> f.qty, price |-> f.price * RateUnit,
                                cost |-> f.cost \div f.qty])
  /\ matched' = matched + 1
  /\ UNCHANGED <<replayVars, unsold, realized, inherited>>

TakeSale ==
  /\ Replayed /\ unsold = 0 /\ matched < Len(fills)
  /\ fills[matched + 1].side = "SELL"
  /\ unsold' = fills[matched + 1].qty
  /\ matched' = matched + 1
  /\ UNCHANGED <<replayVars, lots, realized, inherited>>

\* One turn of its inner loop; a sale without lots is dropped.
MatchLot ==
  /\ unsold > 0
  /\ IF lots = <<>> THEN unsold' = 0 /\ UNCHANGED <<lots, realized>>
     ELSE LET lot == Head(lots)
              f == fills[matched]
              n == IF unsold <= lot.qty THEN unsold ELSE lot.qty
          IN /\ realized' = realized + n * (f.price * RateUnit - f.cost \div f.qty)
                              - n * (lot.price + lot.cost)
             /\ unsold' = unsold - n
             /\ lots' = IF n = lot.qty THEN Tail(lots)
                        ELSE [lots EXCEPT ![1] = [lot EXCEPT !.qty = @ - n]]
  /\ UNCHANGED <<replayVars, matched, inherited>>

RunnerNext == NextBarOfReplay \/ Decide \/ TakeBuy \/ TakeSale \/ MatchLot

RunnerSpec == RunnerInit /\ [][RunnerNext]_runnerVars
-----------------------------------------------------------------------------
Analysed == Replayed /\ unsold = 0 /\ matched = Len(fills)

RunnerTypeOK ==
  /\ barsLeft \in 0 .. MaxBars
  /\ held \in [Stocks -> Nat]
  /\ ledger \in [Stocks -> Nat]
  /\ matched \in 0 .. Len(fills)
  /\ unsold \in Nat

\* The replay never overdraws, although it sizes its orders at a price it then
\* does not get.
NeverOverdrawn == purse >= 0

\* For an account without a past the analysis adds up with the simulated broker:
\* the open lots are what the broker holds, across stocks, and the realized
\* result is the change in cash and the basis of the open lots, less all
\* slippage, which the fill prices contain and the costs charge again.
FifoAddsUp ==
  Analysed /\ inherited = <<>> =>
    /\ Total([i \in DOMAIN lots |-> lots[i].qty]) = SumFunction(held)
    /\ realized = (purse - StartCash)
                    + Total([i \in DOMAIN lots |-> lots[i].qty * (lots[i].price + lots[i].cost)])
                    - Total([i \in DOMAIN fills |-> fills[i].slip])
=============================================================================
