-------------------------------- MODULE Sizing --------------------------------
(***************************************************************************)
(* How many shares a BUY asks for: core/risk/sizing.py, which              *)
(* compute_target_buy_qty of core/pipeline/trader_executor.py calls when   *)
(* advanced_sizing is set.                                                 *)
(*                                                                         *)
(* Ratios and probabilities are integers in 1/Unit.  The least of several  *)
(* caps rounded down is the least of the caps rounded down, so every cap   *)
(* is a quotient of integers.                                              *)
(***************************************************************************)
EXTENDS Integers, FiniteSets

CONSTANTS
  Unit,
  UpperGain, LowerLoss, TradeCost,  \* barriers and round-trip cost
  KellyFraction,                    \* of full Kelly
  MaxFraction,                      \* of the capital in one stock
  TargetVolatility,                 \* per bar
  DefaultVolatility,                \* per bar, where none was measured
  MinuteParticipation,              \* of the volume of the minute
  DailyVolume, DailyParticipation   \* of a day, as configured; 0 for none

ASSUME SizingConstants ==
  /\ Unit \in Nat \ {0}
  /\ UpperGain \in Nat /\ LowerLoss \in Nat /\ TradeCost \in Nat
  /\ KellyFraction \in Nat /\ MaxFraction \in Nat
  /\ TargetVolatility \in Nat /\ DefaultVolatility \in Nat
  /\ MinuteParticipation \in Nat
  /\ DailyVolume \in Nat /\ DailyParticipation \in Nat
-----------------------------------------------------------------------------
\* prob > breakeven_probability, which is 1 without barriers
HasEdge(prob) ==
  /\ UpperGain + LowerLoss > 0
  /\ prob * (UpperGain + LowerLoss) > (LowerLoss + TradeCost) * Unit

\* prob * upper - (1 - prob) * lower, the numerator of the Kelly fraction whose
\* denominator is upper
Advantage(prob) == prob * UpperGain - (Unit - prob) * LowerLoss

\* Full Kelly is between none and all; without either barrier it is none.
KellyShares(capital, price, prob) ==
  IF UpperGain = 0 \/ LowerLoss = 0 \/ Advantage(prob) <= 0 THEN 0
  ELSE IF Advantage(prob) >= UpperGain * Unit
  THEN (capital * KellyFraction) \div (Unit * price)
  ELSE (capital * Advantage(prob) * KellyFraction)
         \div (UpperGain * Unit * Unit * price)

CapShares(capital, price) == (capital * MaxFraction) \div (Unit * price)

VolatilityShares(capital, price, volatility) ==
  IF volatility = 0 THEN 0 ELSE (capital * TargetVolatility) \div (volatility * price)

MinuteCaps(volume) ==
  IF volume = 0 THEN {} ELSE {(volume * MinuteParticipation) \div Unit}

DailyCaps ==
  IF DailyVolume = 0 THEN {} ELSE {(DailyVolume * DailyParticipation) \div Unit}

\* Without a volume there is no cap.
LiquidityCaps(volume) == MinuteCaps(volume) \cup DailyCaps

\* wrong: without the cap on the capital
CapsOfOdds(capital, price, prob, volatility, volume) ==
  {KellyShares(capital, price, prob), VolatilityShares(capital, price, volatility)}
    \cup LiquidityCaps(volume)

Caps(capital, price, prob, volatility, volume) ==
  {KellyShares(capital, price, prob), CapShares(capital, price),
   VolatilityShares(capital, price, volatility)} \cup LiquidityCaps(volume)

\* compute_position_size
PositionSize(capital, price, prob, volatility, volume) ==
  IF price <= 0 \/ ~HasEdge(prob) THEN 0
  ELSE LET caps == Caps(capital, price, prob, volatility, volume) IN
       CHOOSE n \in caps : \A cap \in caps : n <= cap

\* compute_target_buy_qty with advanced_sizing: a stock whose candles give no
\* volatility gets the default one.
TargetQuantity(capital, price, prob, measured, volume) ==
  PositionSize(capital, price, prob,
               IF measured = 0 THEN DefaultVolatility ELSE measured, volume)
=============================================================================
