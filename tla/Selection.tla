------------------------------ MODULE Selection -------------------------------
(***************************************************************************)
(* One bar of the universe: stocks become candidates, and candidates get a *)
(* size.  core/universe/filter.py, core/universe/hotset.py,                *)
(* cross_sectional_rank of core/features/builder.py, build_stock_snapshot  *)
(* of core/backtest/universe_runner.py, and Sizing.                        *)
(***************************************************************************)
EXTENDS Sizing, Sequences, SequencesExt

CONSTANTS
  Candidates,       \* stocks
  CandidatePrices,  \* closes of the last two candles
  CandidateVolumes,
  Volatilities,     \* in 1/Unit
  Probabilities,    \* in 1/Unit
  Minutes,          \* since the open, or -1 for not given
  Capital,
  MinTurnover, VolLow, VolHigh, OpenBlock, CloseBlock, TopK

ASSUME SelectionConstants ==
  /\ CandidatePrices \subseteq Nat \ {0} /\ CandidateVolumes \subseteq Nat
  /\ Volatilities \subseteq Nat
  /\ Probabilities \subseteq 0 .. Unit
  /\ Minutes \subseteq Int /\ Capital \in Nat /\ TopK \in Nat

VARIABLES
  snapshots,  \* sequence of StockSnapshot records, in the order of the universe
  minutes,    \* minutes_since_open
  selected,   \* what select_candidates returns
  ranks,      \* what cross_sectional_rank returns, times the number of others
  hot,        \* what select_hot_symbols returns
  asked       \* the shares asked for, per candidate dealt with

selectionVars == <<snapshots, minutes, selected, ranks, hot, asked>>
-----------------------------------------------------------------------------
Unasked == <<0>>

\* build_stock_snapshot: closes are the newest and the one it is measured
\* against; the spread is not known and the halt not looked up.
Snapshot(stock, closes, volume, volatility) ==
  [stock |-> stock, turnover |-> closes[1] * volume, volume |-> volume,
   price |-> closes[1], base |-> closes[2], volatility |-> volatility]

\* The momentum of a is greater than that of b.
Stronger(a, b) == a.price * b.base > b.price * a.base

IsEntryWindow == minutes = -1 \/ (minutes >= OpenBlock /\ minutes < CloseBlock)

PassesFilters(s) ==
  /\ s.turnover >= MinTurnover
  /\ s.volatility \in VolLow .. VolHigh

\* Pairs of positions, the first of which comes before the second
ByMomentum == {p \in (DOMAIN snapshots) \X (DOMAIN snapshots) :
                 Stronger(snapshots[p[1]], snapshots[p[2]])}
ByTurnover == {p \in (DOMAIN snapshots) \X (DOMAIN snapshots) :
                 snapshots[p[1]].turnover > snapshots[p[2]].turnover}

\* sort() of Python keeps equals in place.
Precedes(i, j, before) ==
  <<i, j>> \in before \/ (<<j, i>> \notin before /\ i < j)

Sorted(positions, before) ==
  [k \in 1 .. Cardinality(positions) |->
     CHOOSE i \in positions :
       Cardinality({j \in positions : Precedes(j, i, before)}) = k - 1]

\* The same order the other way round
Rising(before) == {<<p[2], p[1]>> : p \in before}

FirstTopK(s) == SubSeq(s, 1, IF Len(s) <= TopK THEN Len(s) ELSE TopK)

\* wrong: cut before the sort
SelectFirst ==
  IF IsEntryWindow
  THEN Sorted({i \in DOMAIN snapshots : i <= TopK /\ PassesFilters(snapshots[i])}, ByMomentum)
  ELSE <<>>

SelectCandidates ==
  IF IsEntryWindow
  THEN FirstTopK(Sorted({i \in DOMAIN snapshots : PassesFilters(snapshots[i])}, ByMomentum))
  ELSE <<>>

\* Pairs of turnover and symbol in descending order; the symbols rise with the
\* position.
SelectHotSymbols ==
  FirstTopK(Reverse(Sorted(DOMAIN snapshots, Rising(ByTurnover))))

\* Percentile times the number of other stocks, one of none being a half: the
\* position in the ascending order of the scores.
Rank ==
  LET rising == Sorted(DOMAIN snapshots, Rising(ByMomentum))
  IN [i \in DOMAIN snapshots |-> (CHOOSE k \in DOMAIN rising : rising[k] = i) - 1]
-----------------------------------------------------------------------------
SelectionInit ==
  /\ snapshots = <<>>
  /\ minutes \in Minutes
  /\ selected = Unasked
  /\ ranks = <<>>
  /\ hot = <<>>
  /\ asked = <<>>

\* A stock with enough candles is marked and its snapshot appended.
Observe(stock) ==
  /\ selected = Unasked
  /\ \A i \in DOMAIN snapshots : snapshots[i].stock # stock
  /\ \E closes \in CandidatePrices \X CandidatePrices, volume \in CandidateVolumes,
        volatility \in Volatilities :
       snapshots' = Append(snapshots, Snapshot(stock, closes, volume, volatility))
  /\ UNCHANGED <<minutes, selected, ranks, hot, asked>>

Select ==
  /\ selected = Unasked
  /\ selected' = SelectCandidates
  /\ ranks' = Rank
  /\ hot' = SelectHotSymbols
  /\ UNCHANGED <<snapshots, minutes, asked>>

\* compute_target_buy_qty for the next candidate, if the trader means to buy
Size(prob) ==
  /\ selected # Unasked
  /\ Len(asked) < Len(selected)
  /\ LET s == snapshots[selected[Len(asked) + 1]] IN
     asked' = Append(asked, [prob |-> prob,
       shares |-> TargetQuantity(Capital, s.price, prob, s.volatility, s.volume)])
  /\ UNCHANGED <<snapshots, minutes, selected, ranks, hot>>

SelectionNext ==
  \/ \E stock \in Candidates : Observe(stock)
  \/ Select
  \/ \E prob \in Probabilities : Size(prob)

SelectionSpec == SelectionInit /\ [][SelectionNext]_selectionVars
-----------------------------------------------------------------------------
\* A stock is passed over only for as many that are at least as strong, or by
\* its own filters or the hour; ranks agree with that order, and no stock that
\* is streamed turns over less than one that is not.
SelectedAreBest ==
  selected # Unasked =>
    LET chosen == ToSet(selected)
        fit == {i \in DOMAIN snapshots : IsEntryWindow /\ PassesFilters(snapshots[i])}
    IN /\ IsInjective(selected) /\ chosen \subseteq fit
       /\ Len(selected) <= TopK
       /\ \A i \in fit \ chosen :
            Len(selected) = TopK
              /\ \A j \in chosen : ~Stronger(snapshots[i], snapshots[j])
       /\ \A i, j \in DOMAIN snapshots :
            Stronger(snapshots[i], snapshots[j]) => ranks[i] > ranks[j]
       /\ \A i \in DOMAIN snapshots \ ToSet(hot), j \in ToSet(hot) :
            snapshots[i].turnover <= snapshots[j].turnover

\* No order takes more than its share of the capital, of the volume of the
\* minute or of the volume of a day, and none is placed that costs would eat;
\* of two candidates alike in all but the odds, the better one never gets fewer
\* shares.
SizesFollowTheOdds ==
  \A k \in DOMAIN asked :
    LET s == snapshots[selected[k]]
        n == asked[k].shares
    IN /\ n * s.price * Unit <= Capital * MaxFraction
       /\ s.volume > 0 => n * Unit <= s.volume * MinuteParticipation
       /\ DailyVolume > 0 => n * Unit <= DailyVolume * DailyParticipation
       /\ n > 0 => Advantage(asked[k].prob) > TradeCost * Unit
       /\ \A prob \in Probabilities :
            prob >= asked[k].prob =>
              TargetQuantity(Capital, s.price, prob, s.volatility, s.volume) >= n
=============================================================================
