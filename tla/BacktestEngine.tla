---------------------------- MODULE BacktestEngine ----------------------------
(***************************************************************************)
(* The event-driven, long-only backtest: core/backtest/engine.py.          *)
(*                                                                         *)
(* One step is one turn of the loop: bar t is closed and decided upon, the *)
(* order is filled at the open of bar t + 1.  The candles are revealed as  *)
(* the loop reaches them, and the signal function may answer anything.     *)
(***************************************************************************)
EXTENDS Costs, Sequences

CONSTANTS
  InitialCapital,   \* in 1/RateUnit won
  FractionDivisor,  \* 1 / position_fraction
  TakeProfit,       \* in 1/RateUnit of the entry price
  StopLoss,
  Horizon,          \* bars a position is held at most
  Prices,           \* open and close prices of the candles
  Volumes,          \* volumes of the candles
  LastBar           \* index of the last candle; bar 0 ends the warm-up

ASSUME EngineConstants ==
  /\ InitialCapital \in Nat
  /\ FractionDivisor \in Nat \ {0}
  /\ TakeProfit \in Nat
  /\ StopLoss \in Nat
  /\ Horizon \in Nat
  /\ Prices \subseteq Nat \ {0}
  /\ Volumes \subseteq Nat
  /\ LastBar \in Nat

VARIABLES
  bar,       \* t
  close,     \* closes[t]
  cash,
  position,  \* the open position, or NoPosition
  lastExit,  \* exit_index of the newest trade, -1 before the first
  sums,      \* over all trades: gross_pnl, cost, net_pnl, entry cost
  finished

engineVars == <<bar, close, cash, position, lastExit, sums, finished>>
-----------------------------------------------------------------------------
NoPosition == [entry |-> -1, quantity |-> 0, price |-> 0, cost |-> 0]

Flat == position.entry = -1

\* fee_of: slippage is charged although the fill price contains it.
Fees(fill) == fill.commission + fill.tax + fill.slippage

EngineInit ==
  /\ bar = 0
  /\ close \in Prices
  /\ cash = InitialCapital
  /\ position = NoPosition
  /\ lastExit = -1
  /\ sums = [gross |-> 0, cost |-> 0, net |-> 0, entryCost |-> 0]
  /\ finished = FALSE

NextBar ==
  /\ bar' = bar + 1
  /\ close' \in Prices
  /\ UNCHANGED finished

\* qty = floor(cash * position_fraction / open)
Affordable(open) ==
  IF cash <= 0 THEN 0 ELSE cash \div (FractionDivisor * RateUnit * open)

Enter(open, volume) ==
  LET q == Affordable(open)
      fill == EstimateFill("BUY", open, q, volume)
  IN /\ Flat
     /\ q > 0
     /\ cash' = cash - (fill.gross + Fees(fill))
     /\ position' = [entry |-> bar + 1, quantity |-> q, price |-> fill.price,
                     cost |-> Fees(fill)]
     /\ NextBar
     /\ UNCHANGED <<lastExit, sums>>

\* The signal says HOLD, or BUY and the cash does not reach for one share.
StayFlat ==
  /\ Flat
  /\ NextBar
  /\ UNCHANGED <<cash, position, lastExit, sums>>

Gain == close - position.price

Takes == Gain * RateUnit >= TakeProfit * position.price
Stops == Gain * RateUnit <= -(StopLoss * position.price)
Expires == bar - position.entry >= Horizon

\* wrong: total_cost without the costs of entries
BookExitCostOnly(fill, exitBar) ==
  LET gross == fill.gross - position.price * position.quantity * RateUnit
  IN /\ cash' = cash + fill.gross - Fees(fill)
     /\ sums' = [gross |-> sums.gross + gross,
                 cost |-> sums.cost + Fees(fill),
                 net |-> sums.net + gross - Fees(fill),
                 entryCost |-> sums.entryCost + position.cost]
     /\ lastExit' = exitBar
     /\ position' = NoPosition

\* One trade is closed by the fill, at bar exitBar.
BookTrade(fill, exitBar) ==
  LET gross == fill.gross - position.price * position.quantity * RateUnit
  IN /\ cash' = cash + fill.gross - Fees(fill)
     /\ sums' = [gross |-> sums.gross + gross,
                 cost |-> sums.cost + position.cost + Fees(fill),
                 net |-> sums.net + gross - Fees(fill),
                 entryCost |-> sums.entryCost + position.cost]
     /\ lastExit' = exitBar
     /\ position' = NoPosition

Exit(open, volume) ==
  /\ ~Flat
  /\ Takes \/ Stops \/ Expires
  /\ BookTrade(EstimateFill("SELL", open, position.quantity, volume), bar + 1)
  /\ NextBar

Keep ==
  /\ ~Flat
  /\ ~(Takes \/ Stops \/ Expires)
  /\ NextBar
  /\ UNCHANGED <<cash, position, lastExit, sums>>

\* After the loop an open position is sold at the close of the last bar.
Finish(volume) ==
  /\ bar = LastBar
  /\ ~finished
  /\ finished' = TRUE
  /\ IF Flat THEN UNCHANGED <<cash, position, lastExit, sums>>
     ELSE BookTrade(EstimateFill("SELL", close, position.quantity, volume), bar)
  /\ UNCHANGED <<bar, close>>

EngineNext ==
  \/ /\ bar < LastBar
     /\ \/ \E open \in Prices, volume \in Volumes :
             Enter(open, volume) \/ Exit(open, volume)
        \/ StayFlat
        \/ Keep
  \/ \E volume \in Volumes : Finish(volume)

EngineSpec == EngineInit /\ [][EngineNext]_engineVars
-----------------------------------------------------------------------------
EngineTypeOK ==
  /\ bar \in 0 .. LastBar
  /\ close \in Prices
  /\ cash \in Int
  /\ position \in [entry : Nat \cup {-1}, quantity : Nat, price : Nat, cost : Nat]
  /\ lastExit \in Nat \cup {-1}
  /\ sums \in [gross : Int, cost : Int, net : Int, entryCost : Int]
  /\ finished \in BOOLEAN

\* What _compute_metrics reports adds up at the end of any run: net_pnl, which
\* is taken from the cash, is gross_pnl less total_cost; and the net_pnl of the
\* trades together exceeds it by exactly the entry costs that line 159 leaves
\* out of each trade.
EngineAddsUp ==
  finished =>
    /\ cash - InitialCapital = sums.gross - sums.cost
    /\ sums.net = cash - InitialCapital + sums.entryCost

\* Trades do not overlap, and a position is sold at most one bar after its
\* horizon: the bar that is decided upon and the bar that fills.
TradesKeepTheirTime ==
  ~Flat =>
    /\ lastExit < position.entry
    /\ position.entry <= bar
    /\ bar - position.entry <= Horizon
=============================================================================
