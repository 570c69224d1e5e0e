------------------------------- MODULE Features -------------------------------
(***************************************************************************)
(* The features of one stock: computed when a run asks the model           *)
(* (core/pipeline/trader_executor.py), computed again from the same        *)
(* candles when a data set is built (core/ml/dataset.py), both by          *)
(* build_features (core/features/builder.py).                              *)
(*                                                                         *)
(* A feature is the integers it is computed from: the closes of a          *)
(* logarithm, the gains and losses of the RSI, the closes and volumes of a *)
(* deviation.  Open, high and low go with close and volume; a minute with  *)
(* one share traded has no range.                                          *)
(***************************************************************************)
EXTENDS Integers, FiniteSets, SequencesExt

CONSTANTS
  Lookback,            \* candles a window holds, 100 in the code
  RsiSpan,             \* 14
  ShortSpan, LongSpan, \* 5 and 20, of the averages and the volatility
  ShortLag, LongLag,   \* of the returns: two of 1, 5, 15 and 30
  HistoryNeeded,       \* DatasetConfig.min_history
  Closings,            \* close and volume a candle may have
  LastFeatureMinute,   \* bound on the minutes
  MaxRows              \* bound on the candles

ASSUME FeatureConstants ==
  /\ {Lookback, RsiSpan, ShortSpan, LongSpan, ShortLag, LongLag} \subseteq Nat \ {0}
  /\ HistoryNeeded \in Nat /\ LastFeatureMinute \in Nat /\ MaxRows \in Nat
  /\ Closings \subseteq [close : Nat \ {0}, volume : Nat \ {0}]

VARIABLES
  rows,   \* mkt_candle of the stock, one timeframe
  served  \* the FeatureSnapshot of a run, and the candles it knew

featureVars == <<rows, served>>
-----------------------------------------------------------------------------
FeatureMinutes == 1 .. LastFeatureMinute
Writers == {"kis_ws", "kis_rest"}

\* Unique by minute and source, not by minute.
CandleRow(m, source, c) ==
  [opened |-> m, source |-> source, close |-> c.close, volume |-> c.volume]
CandleRows ==
  {CandleRow(m, source, c) : m \in FeatureMinutes, source \in Writers, c \in Closings}

Opened(S) == {r.opened : r \in S}

TwinMinutes ==
  {m \in Opened(rows) : Cardinality({r \in rows : r.opened = m}) > 1}

\* The database returns two candles of a minute in any order: first[m] is the
\* source of the one that comes first.
Ties == [TwinMinutes -> Writers]

\* The candles of a minute
Within(S, m, first) ==
  LET found == {r \in S : r.opened = m} IN
  IF Cardinality(found) > 1
  THEN <<CHOOSE r \in found : r.source = first[m], CHOOSE r \in found : r.source # first[m]>>
  ELSE SetToSeq(found)

\* order_by("opened_at")
Ascending(S, first) ==
  FoldLeft(LAMBDA sorted, m : sorted \o Within(S, m, first), <<>>,
           [m \in FeatureMinutes |-> m])

First(s, n) == SubSeq(s, 1, IF n <= Len(s) THEN n ELSE Len(s))
Added(s) == FoldLeft(LAMBDA sum, x : sum + x, 0, s)
-----------------------------------------------------------------------------
(* build_features on a window, newest candle first. *)

Closes(window) == [i \in DOMAIN window |-> window[i].close]
VolumesOf(window) == [i \in DOMAIN window |-> window[i].volume]

Feature(name, value) == [name |-> name, value |-> value]

\* _sma: all candles of the span, or no feature
Average(name, closes, span) ==
  IF Len(closes) < span THEN {} ELSE {Feature(name, <<Added(First(closes, span))>>)}

\* _rsi: gains and losses of the span
Moved(closes, sign) ==
  Added([i \in 1 .. RsiSpan |->
           LET change == sign * (closes[i] - closes[i + 1])
           IN IF change > 0 THEN change ELSE 0])
Strength(closes) ==
  IF Len(closes) <= RsiSpan THEN {}
  ELSE {Feature("rsi", <<Moved(closes, 1), Moved(closes, -1)>>)}

\* _ret
Return(name, closes, lag) ==
  IF Len(closes) <= lag THEN {} ELSE {Feature(name, <<closes[1], closes[1 + lag]>>)}

Volatility(closes) ==
  IF Len(closes) < 2 THEN {} ELSE {Feature("vol_std_20", First(closes, LongSpan + 1))}

\* range_ratio and body_ratio of the newest candle
Shape(newest) ==
  {Feature("range_ratio", <<newest.close, newest.volume>>)}
    \cup (IF newest.volume = 1 THEN {}
          ELSE {Feature("body_ratio", <<newest.close, newest.volume>>)})

\* volume_z when the volumes differ, and vwap_dev
Volume(window) ==
  LET volumes == First(VolumesOf(window), LongSpan)
      turnover == Added([i \in DOMAIN volumes |-> volumes[i] * window[i].close])
  IN (IF \A i, j \in DOMAIN volumes : volumes[i] = volumes[j] THEN {}
      ELSE {Feature("volume_z", volumes)})
     \cup {Feature("vwap_dev", <<window[1].close, turnover, Added(volumes)>>)}

\* The context of a universe backtest adds features of its own.
Context(closes, joined) ==
  IF ~joined THEN {}
  ELSE {Feature("cs_return_rank", <<1>>)}
         \cup (IF Len(closes) <= 1 THEN {}
               ELSE {Feature("excess_ret_1", <<closes[1], closes[2], 1>>)})

BuildFeatures(window, quote, joined) ==
  IF window = <<>> THEN {}
  ELSE LET closes == Closes(window) IN
       {Feature("close", <<closes[1]>>), Feature("time", <<window[1].opened>>),
        Feature("current_price", <<quote>>)}
         \cup Strength(closes)
         \cup Average("sma_5", closes, ShortSpan)
         \cup Average("sma_20", closes, LongSpan)
         \cup Return("ret_1", closes, ShortLag)
         \cup Return("ret_30", closes, LongLag)
         \cup Volatility(closes)
         \cup Shape(window[1])
         \cup Volume(window)
         \cup Context(closes, joined)
-----------------------------------------------------------------------------
(* The two readers. *)

\* order_by("-opened_at")[:100], of the candles up to as_of in a backtest
LiveWindow(asOf, first) ==
  LET known == {r \in rows : r.opened <= asOf}
  IN First(Reverse(Ascending(known, first)), Lookback)

\* wrong: the window is cut before it is turned round
OldestWindow(sorted, i) == Reverse(First(SubSeq(sorted, 1, i), Lookback))

\* list(reversed(candles_asc[: i + 1]))[:FEATURE_LOOKBACK]
SampleWindow(sorted, i) == First(Reverse(SubSeq(sorted, 1, i)), Lookback)

\* Candles with enough history, and one to come for the label.
SampleIndices(sorted) == {i \in DOMAIN sorted : i >= HistoryNeeded /\ i < Len(sorted)}

\* The features of a sample: the quote is the close, and meta-labelling adds the
\* signal that made it one.
SampleFeatures(sorted, i, meta) ==
  BuildFeatures(SampleWindow(sorted, i), sorted[i].close, FALSE)
    \cup (IF meta THEN {Feature("primary_signal", <<1>>)} ELSE {})

\* What primary_signal_fn may leave of the candles
Samples(sorted, meta) ==
  IF meta THEN SUBSET SampleIndices(sorted) ELSE {SampleIndices(sorted)}

Names(features) == {f.name : f \in features}

\* feature_names: every name that occurs in a sample
FeatureNames(sorted, samples, meta) ==
  UNION {Names(SampleFeatures(sorted, i, meta)) : i \in samples}

\* _vectorize: the names trained on, NaN for those that are missing
Missing == <<>>
Vectorize(features, names) ==
  [n \in names |-> IF n \in Names(features)
                   THEN (CHOOSE f \in features : f.name = n).value
                   ELSE Missing]
-----------------------------------------------------------------------------
NothingServed == [newest |-> 0, seen |-> {}, quote |-> 0, features |-> {}]

FeatureInit == rows = {} /\ served = NothingServed

\* The collector completes a minute after those it has completed.
CollectCandle(r) ==
  /\ Cardinality(rows) < MaxRows
  /\ r.source = "kis_ws"
  /\ \A q \in rows : q.source = "kis_ws" => q.opened < r.opened
  /\ rows' = rows \cup {r}
  /\ UNCHANGED served

\* The backfill adds minutes it has not added, at any later time.
BackfillCandle(r) ==
  /\ Cardinality(rows) < MaxRows
  /\ r.source = "kis_rest"
  /\ \A q \in rows : q.source = "kis_rest" => q.opened # r.opened
  /\ rows' = rows \cup {r}
  /\ UNCHANGED served

\* The price a broker quotes, whatever the newest stored candle closed at.
Quotes == {c.close : c \in Closings}

\* capture_feature_snapshot of a run, or of a backtest as of a minute.  One is
\* looked at: a snapshot changes nothing for those to come.
Serve(asOf, first, quote, joined) ==
  LET window == LiveWindow(asOf, first)
      newest == IF window = <<>> THEN 0 ELSE window[1].opened
  IN /\ served = NothingServed
     /\ served' = [newest |-> newest, seen |-> {r \in rows : r.opened <= newest},
                   quote |-> quote, features |-> BuildFeatures(window, quote, joined)]
     /\ UNCHANGED rows

FeatureNext ==
  \/ \E r \in CandleRows : CollectCandle(r) \/ BackfillCandle(r)
  \/ \E asOf \in Opened(rows), first \in Ties, quote \in Quotes, joined \in BOOLEAN :
       Serve(asOf, first, quote, joined)

FeatureSpec == FeatureInit /\ [][FeatureNext]_featureVars
-----------------------------------------------------------------------------
FeatureTypeOK ==
  /\ rows \subseteq CandleRows /\ Cardinality(rows) <= MaxRows
  /\ \A q, r \in rows : q.opened = r.opened /\ q.source = r.source => q = r
  /\ served.newest \in {0} \cup FeatureMinutes
  /\ served.seen \subseteq rows /\ served.quote \in {0} \cup Quotes

\* What takes the features of a run apart from those trained on for the same
\* minute: a candle that was written for that minute or an earlier one later
\* on, or a minute with two candles among those the window reaches.
WrittenLater == {r \in rows : r.opened <= served.newest} # served.seen
ReachesTwins(window) == \E i \in DOMAIN window : window[i].opened \in TwinMinutes

\* The names at which a model is asked with another value than it is trained with
Skew(features, trained, names) ==
  {n \in names : Vectorize(features, names)[n] # Vectorize(trained, names)[n]}

\* Otherwise a model asked about a minute it is trained on gets the very values
\* it is trained with (builder.py:6 rules the skew out), however many candles lie
\* before the window and in whichever order the database returns them - but for
\* two names: current_price, the quote of a run and the close in a data set, and
\* primary_signal of meta-labelling, which no run computes.  At these the vectors
\* do differ, at the first whenever the market has moved since the candle closed.
SkewIsQuoteAndSignal ==
  served # NothingServed /\ ~WrittenLater =>
    \A first \in Ties, meta \in BOOLEAN :
      LET sorted == Ascending(rows, first) IN
      \A samples \in Samples(sorted, meta) : \A i \in samples :
        sorted[i].opened = served.newest /\ ~ReachesTwins(SampleWindow(sorted, i)) =>
          Skew(served.features, SampleFeatures(sorted, i, meta),
               FeatureNames(sorted, samples, meta))
            = {n \in {"current_price"} : served.quote # sorted[i].close}
                \cup {n \in {"primary_signal"} : meta}
=============================================================================
