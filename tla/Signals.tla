------------------------------- MODULE Signals --------------------------------
(***************************************************************************)
(* From closes to a decision:                                              *)
(*   strategies/hong/moving_average.py, strategies/kim/rsi_strategy.py,    *)
(*   core/pipeline/strategy_runner.py, core/analyzer/market_analyzer.py,   *)
(*   core/features/builder.py and the scoring in                           *)
(*   core/pipeline/trader_executor.py (execute_trader_for_stock, 4 to 6).  *)
(*                                                                         *)
(* Candles of one stock are stored, one at a time; runs look at the newest *)
(* of them, any number of times before the next is stored, or not at all.  *)
(* Averages are compared as sums times periods, so nothing is rounded.     *)
(***************************************************************************)
EXTENDS Integers, Sequences, Sums

CONSTANTS
  FastPeriod,               \* of the moving averages
  SlowPeriods,              \* what slow_period may be configured as
  CandleLimit,              \* candles a run reads, 100 in the code
  RsiPeriod,
  Oversold, Overbought,     \* limits of the RSI, 0 .. 100
  RegimePeriod,             \* lookback of analyze_regime
  SignalPrices,             \* closes
  SeriesLength,             \* bound on the number of candles
  EntryThreshold            \* of the trader, in percent

ASSUME SignalConstants ==
  /\ FastPeriod \in Nat \ {0} /\ CandleLimit \in Nat \ {0}
  /\ SlowPeriods \subseteq Nat /\ \A p \in SlowPeriods : FastPeriod < p
  /\ RsiPeriod \in Nat \ {0} /\ RegimePeriod \in Nat \ {0}
  /\ Oversold \in 0 .. 100 /\ Overbought \in 0 .. 100
  /\ SignalPrices \subseteq Nat \ {0}
  /\ SeriesLength \in Nat
  /\ EntryThreshold \in Int

VARIABLES
  slow,       \* slow_period of the strategy
  closes,     \* of the candles stored, newest first
  looked,     \* how many of them there were when a run looked last
  crossing,   \* what the moving averages said then
  swing,      \* what the RSI said
  regime,     \* what analyze_regime stored
  heard,      \* the active strategies of the trader that did not raise
  decision    \* final_action, before the guards on the size

signalVars == <<slow, closes, looked, crossing, swing, regime, heard, decision>>
-----------------------------------------------------------------------------
Actions == {"BUY", "SELL", "HOLD"}
Regimes == {"BULL", "SIDEWAYS", "BEAR"}
Slots == {"MovingAverage", "Rsi"}

\* s[from:from+count] of Python, which may be shorter at the end
Slice(s, from, count) ==
  SubSeq(s, from + 1, IF from + count <= Len(s) THEN from + count ELSE Len(s))

\* wrong: the candles are cut before they are turned round
OldestVisible(s) ==
  Slice(s, IF Len(s) > CandleLimit THEN Len(s) - CandleLimit ELSE 0, CandleLimit)

\* order_by("-opened_at")[:100]
Visible(s) == Slice(s, 0, CandleLimit)

\* How far the fast average leads the slow one, times both periods; with exactly
\* as many candles as the period the older slow window is one close short.
Lead(s, from, period) ==
  Total(Slice(s, from, FastPeriod)) * period
    - Total(Slice(s, from, period)) * FastPeriod

\* wrong: the averages of the candle before are not looked at
SideOf(s, period) ==
  IF Len(s) < period THEN "HOLD"
  ELSE IF Lead(s, 0, period) > 0 THEN "BUY"
  ELSE IF Lead(s, 0, period) < 0 THEN "SELL"
  ELSE "HOLD"

CrossingOf(s, period) ==
  IF Len(s) < period THEN "HOLD"
  ELSE IF Lead(s, 0, period) > 0 /\ Lead(s, 1, period) <= 0 THEN "BUY"
  ELSE IF Lead(s, 0, period) < 0 /\ Lead(s, 1, period) >= 0 THEN "SELL"
  ELSE "HOLD"

Gains(s) == Total([i \in 1 .. RsiPeriod |->
                     IF s[i] > s[i + 1] THEN s[i] - s[i + 1] ELSE 0])
Losses(s) == Total([i \in 1 .. RsiPeriod |->
                      IF s[i] < s[i + 1] THEN s[i + 1] - s[i] ELSE 0])

\* 100 * gains / (gains + losses); 100 when nothing was lost, which a price
\* that did not move at all is a case of.
RsiAtMost(s, limit) ==
  IF Losses(s) = 0 THEN limit >= 100
  ELSE 100 * Gains(s) <= limit * (Gains(s) + Losses(s))

RsiAtLeast(s, limit) ==
  Losses(s) = 0 \/ 100 * Gains(s) >= limit * (Gains(s) + Losses(s))

SwingOf(s) ==
  IF Len(s) < RsiPeriod + 1 THEN "HOLD"
  ELSE IF RsiAtMost(s, Oversold) THEN "BUY"
  ELSE IF RsiAtLeast(s, Overbought) THEN "SELL"
  ELSE "HOLD"

\* The newest close against the average of the last RegimePeriod ones.
RegimeOf(s) ==
  LET mean == Total(Slice(s, 0, RegimePeriod)) IN
  IF Len(s) < RegimePeriod THEN "SIDEWAYS"
  ELSE IF s[1] * RegimePeriod > mean THEN "BULL"
  ELSE IF s[1] * RegimePeriod * 100 < mean * 98 THEN "BEAR"
  ELSE "SIDEWAYS"

\* REGIME_PARAMS: entry_threshold_offset, in percent
ThresholdOffset(r) ==
  CASE r = "BULL" -> -5 [] r = "SIDEWAYS" -> 0 [] r = "BEAR" -> 10

\* Confidence in percent, signed
Score(action, confidence) ==
  CASE action = "BUY" -> confidence
    [] action = "SELL" -> -confidence
    [] action = "HOLD" -> 0

\* A strategy that raises is left out of the sum; weights are 1.
ScoreSum(cross, rsi, slots) ==
  (IF "MovingAverage" \in slots THEN Score(cross, 80) ELSE 0)
    + (IF "Rsi" \in slots THEN Score(rsi, 70) ELSE 0)

DecisionOf(cross, rsi, r, slots) ==
  LET sum == ScoreSum(cross, rsi, slots)
      threshold == EntryThreshold + ThresholdOffset(r)
  IN IF slots = {} THEN "HOLD"
     ELSE IF sum >= threshold THEN "BUY"
     ELSE IF sum <= -threshold THEN "SELL"
     ELSE "HOLD"
-----------------------------------------------------------------------------
SignalInit ==
  /\ slow \in SlowPeriods
  /\ closes = <<>>
  /\ looked = 0
  /\ crossing = "HOLD"
  /\ swing = "HOLD"
  /\ regime = "SIDEWAYS"
  /\ heard = {}
  /\ decision = "HOLD"

\* A candle is stored.
StoreCandle(price) ==
  /\ Len(closes) < SeriesLength
  /\ closes' = <<price>> \o closes
  /\ UNCHANGED <<slow, looked, crossing, swing, regime, heard, decision>>

\* A run of the trader, which stores nothing of what it has seen: analyze_regime,
\* then execute_trader_for_stock with the strategies that do not raise.
Look(slots) ==
  /\ looked' = Len(closes)
  /\ crossing' = CrossingOf(Visible(closes), slow)
  /\ swing' = SwingOf(Visible(closes))
  /\ regime' = RegimeOf(closes)
  /\ heard' = slots
  /\ decision' = DecisionOf(crossing', swing', regime', slots)
  /\ UNCHANGED <<slow, closes>>

SignalNext ==
  \/ \E price \in SignalPrices : StoreCandle(price)
  \/ \E slots \in SUBSET Slots : Look(slots)

SignalSpec == SignalInit /\ [][SignalNext]_signalVars
-----------------------------------------------------------------------------
SignalTypeOK ==
  /\ slow \in SlowPeriods
  /\ closes \in Seq(SignalPrices) /\ looked \in 0 .. Len(closes)
  /\ crossing \in Actions /\ swing \in Actions /\ decision \in Actions
  /\ regime \in Regimes /\ heard \subseteq Slots

\* What the averages over everything stored did: how far the fast one led when
\* the newest k candles were not there yet.
Ahead(k) ==
  Total(SubSeq(closes, k + 1, k + FastPeriod)) * slow
    - Total(SubSeq(closes, k + 1, k + slow)) * FastPeriod
GoldenCross == Ahead(0) > 0 /\ Ahead(1) <= 0
DeadCross == Ahead(0) < 0 /\ Ahead(1) >= 0

\* The order of the moving averages and the crosses of the stock, once there is
\* a candle before the first full slow average: the averages are computed again
\* from at most CandleLimit candles, and nothing is lost by the cut as long as
\* that is more than slow_period.  A slow_period of exactly CandleLimit leaves
\* the older slow average one close short: golden crosses may be missed and dead
\* ones made up, but a BUY is still a golden cross, because prices are positive.
\* (A longer one never gives an order; and where the stock has exactly
\* slow_period candles, so that there is no average before, nothing is said.)
CrossesAreReal ==
  looked = Len(closes) /\ looked > slow =>
    /\ crossing = "BUY" => GoldenCross
    /\ slow < CandleLimit =>
         /\ GoldenCross => crossing = "BUY"
         /\ crossing = "SELL" <=> DeadCross

\* The strategies keep no state, and neither does the trader.  Runs that look at
\* the same candles again get the same order again: a cross of daily candles is
\* an order of every run of that day.  One candle later it is none any more: the
\* averages do not cross the same way twice running, and a trader that hears
\* nothing else does not repeat itself, whatever the regime does to a threshold
\* above zero - unless slow_period takes all the candles a run reads, when the
\* older slow average is too low each time.
OrdersRepeatOnRereads ==
  [][LET alone == /\ heard = {"MovingAverage"} /\ heard' = heard
                  /\ EntryThreshold + ThresholdOffset("BULL") > 0
     IN /\ closes' = closes /\ looked = Len(closes) =>
             crossing' = crossing /\ (heard' = heard => decision' = decision)
        /\ looked' = looked + 1 /\ slow # CandleLimit =>
             /\ crossing' = "HOLD" \/ crossing' # crossing
             /\ alone => decision' = "HOLD" \/ decision' # decision]_signalVars
=============================================================================
