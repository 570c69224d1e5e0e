-------------------------------- MODULE Costs ---------------------------------
(***************************************************************************)
(* The cost model that backtests and live orders share:                    *)
(* core/backtest/costs.py.                                                 *)
(*                                                                         *)
(* Prices are won and integers.  Amounts are counted in 1/RateUnit won, so *)
(* that rates are integers.  A square root is compared by its square and a *)
(* fraction of a won is rounded the way the tick grid rounds it afterwards *)
(* (all limits of the table are on the grid of both their neighbours).     *)
(***************************************************************************)
EXTENDS Integers

CONSTANTS
  RateUnit,         \* denominator of the rates
  CommissionRate,   \* both ways
  SellTaxRate,      \* on sales
  HalfSpreadTicks,  \* ticks a market order pays
  ImpactDivisor     \* 1 / impact_coef

ASSUME CostConstants ==
  /\ RateUnit \in Nat \ {0}
  /\ CommissionRate \in Nat
  /\ SellTaxRate \in Nat
  /\ HalfSpreadTicks \in Nat
  /\ ImpactDivisor \in Nat \ {0}
-----------------------------------------------------------------------------
\* KRX_TICK_TABLE; ticks rise with prices, up to KRX_TICK_DEFAULT.
TickTable ==
  {[below |-> 2000, tick |-> 1], [below |-> 5000, tick |-> 5],
   [below |-> 20000, tick |-> 10], [below |-> 50000, tick |-> 50],
   [below |-> 200000, tick |-> 100], [below |-> 500000, tick |-> 500]}

TickDefault == 1000

Ticks(price) == {row.tick : row \in {r \in TickTable : price < r.below}} \cup {TickDefault}

\* tick_size: the first row above the price
Tick(price) == CHOOSE t \in Ticks(price) : \A u \in Ticks(price) : t <= u

RoundDown(price) == price - (price % Tick(price))

RoundUp(price) ==
  IF price % Tick(price) = 0 THEN price ELSE RoundDown(price) + Tick(price)

\* The square-root impact, in whole won above: the least x with
\* x >= price / ImpactDivisor * sqrt(quantity / volume).
Impact(price, quantity, volume) ==
  IF volume = 0 THEN 0
  ELSE CHOOSE x \in 0 .. price * quantity :
         /\ x * x * ImpactDivisor * ImpactDivisor * volume >= price * price * quantity
         /\ x > 0 => (x - 1) * (x - 1) * ImpactDivisor * ImpactDivisor * volume
                       < price * price * quantity

Slippage(price, quantity, volume) ==
  HalfSpreadTicks * Tick(price) + Impact(price, quantity, volume)

\* Against the trader, on the grid, and never below one tick.
FillPrice(side, ref, slip) ==
  IF side = "BUY" THEN RoundUp(ref + slip)
  ELSE IF ref - slip < Tick(ref) \/ RoundDown(ref - slip) < Tick(ref)
       THEN Tick(ref)
       ELSE RoundDown(ref - slip)

Commission(price, quantity) == price * quantity * CommissionRate

Tax(side, price, quantity) ==
  IF side = "SELL" THEN price * quantity * SellTaxRate ELSE 0

EstimateFill(side, ref, quantity, volume) ==
  LET price == FillPrice(side, ref, Slippage(ref, quantity, volume))
      apart == IF price < ref THEN ref - price ELSE price - ref
  IN [side |-> side, price |-> price, quantity |-> quantity,
      gross |-> price * quantity * RateUnit,
      slippage |-> apart * quantity * RateUnit,
      commission |-> Commission(price, quantity),
      tax |-> Tax(side, price, quantity)]

\* In 1/RateUnit of the notional; slippage depends on the quantity and is out.
RoundTripRate == 2 * CommissionRate + SellTaxRate
=============================================================================
