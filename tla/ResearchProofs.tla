---------------------------- MODULE ResearchProofs ----------------------------
(***************************************************************************)
(* Proofs about the research modules: for any candles, horizon and sizes   *)
(* of the folds, any rates, barriers and capital, any series of closes,    *)
(* any candidates, any stocks and any number of bars and fills.            *)
(*                                                                         *)
(* Learning: samples are apart by at least as many candles as samples, so  *)
(* an embargo that is counted in samples is at least as long in candles; a *)
(* weight is full when no other label is over any of the sample's candles. *)
(* Calibration: on a walk up by the labels, the line over a pool lies      *)
(* below the walk; a prediction lies between those for the points beside   *)
(* it. BacktestEngine: cash and the sums over the trades differ, at every  *)
(* bar, by what the open position has cost. Signals: what a run noted      *)
(* follows from the candles it read; averages over part of a series are    *)
(* the stored ones, or too low by the close that is missing. Selection: a  *)
(* sorted list has its members in the order it was sorted by, and the size *)
(* only falls when the odds do. BacktestRunner: the fills say which shares *)
(* and which cash the replay has, and the open lots, the sale that is      *)
(* being matched and the results say of the matched fills what the fills   *)
(* say of all.                                                             *)
(***************************************************************************)
EXTENDS Learning, Calibration, BacktestEngine, BacktestRunner, Signals, Selection,
        FoldLemmas
-----------------------------------------------------------------------------
(* The walk-forward folds. *)

\* A label looks ahead of its entry, by a horizon at most.
LooksAhead ==
  \A k \in 1 .. Len(samples) :
    samples[k].exit \in samples[k].entry .. samples[k].entry + LabelHorizon

\* Samples are apart in candles by at least what they are apart in rows.
EntriesApart ==
  \A a, b \in 1 .. Len(samples) : a <= b => samples[b].entry - samples[a].entry >= b - a

EntriesPast == \A k \in 1 .. Len(samples) : samples[k].entry < cursor

\* The folds come when the data set is complete, and stay within it.
FoldFits ==
  \/ fold = NoFold /\ sizes = NoSizes
  \/ /\ cursor > Len(candles)
     /\ sizes.train \in Nat \ {0} /\ sizes.test \in Nat \ {0}
     /\ fold.trainEnd + LabelHorizon = fold.testStart
     /\ fold.testStart <= fold.testEnd /\ fold.testEnd <= Len(samples)

LearningInv ==
  /\ LearningTypeOK
  /\ LooksAhead
  /\ EntriesApart
  /\ EntriesPast
  /\ FoldFits
-----------------------------------------------------------------------------
\* The label of an entry with a candle to come is a sample of that entry, and
\* looks at candles that exist and are not too far ahead.
LEMMA LabelTyped ==
  ASSUME LearningTypeOK, NEW entry \in Nat, entry >= 1, Usable(entry),
         NEW item \in Labels(entry)
  PROVE  /\ item \in Items
         /\ item.entry = entry
         /\ item.exit \in entry .. entry + LabelHorizon
<1> DEFINE ahead == (entry + 1) .. LastOf(entry)
           touched == {i \in ahead : Rises(entry, i) \/ Falls(entry, i)}
<1>1. Len(candles) \in Nat /\ LabelHorizon \in Nat \ {0} /\ entry < Len(candles)
  BY LearningConstants DEF LearningTypeOK, Usable
<1>2. LastOf(entry) \in Nat /\ LastOf(entry) \in entry .. entry + LabelHorizon
  BY <1>1 DEF LastOf
<1>3. ASSUME NEW exit \in Nat, exit \in entry .. entry + LabelHorizon,
             NEW barrier \in {"UPPER", "LOWER", "TIME"}, item = Label(entry, exit, barrier)
      PROVE  item \in Items /\ item.entry = entry /\ item.exit \in entry .. entry + LabelHorizon
  BY <1>3 DEF Label, Items
<1>4. CASE touched = {}
  BY <1>2, <1>3, <1>4 DEF Labels
<1>5. CASE touched # {}
  <2>1. PICK i \in touched : item = Label(entry, i, IF Rises(entry, i) THEN "UPPER" ELSE "LOWER")
    BY <1>5 DEF Labels
  <2>2. i \in Nat /\ i \in entry .. entry + LabelHorizon
    BY <1>1, <1>2, <2>1
  <2> QED BY <1>3, <2>1, <2>2
<1> QED BY <1>4, <1>5

\* Before the first sample there is nothing to keep apart.
LEMMA LearningInitInv == LearningInit => LearningInv
<1> SUFFICES ASSUME LearningInit PROVE LearningInv
  OBVIOUS
<1>1. candles \in Seq(LabelPrices) /\ Len(candles) \in Nat
  BY LearningConstants DEF LearningInit
<1>2. samples \in Seq(Items) /\ Len(samples) = 0
  BY DEF LearningInit
<1>3. LearningTypeOK
  BY <1>1, <1>2 DEF LearningInit, LearningTypeOK, NoSizes, NoFold
<1> QED BY <1>2, <1>3 DEF LearningInit, LearningInv, LooksAhead, EntriesApart, EntriesPast, FoldFits

\* The next sample is behind all of them, by at least one candle.
LEMMA AddStep ==
  ASSUME LearningInv, AddSample
  PROVE  LearningInv'
<1>1. PICK item \in Labels(cursor) : samples' = Append(samples, item)
  BY DEF AddSample
<1>2. /\ samples \in Seq(Items) /\ cursor \in Nat /\ cursor >= 1 /\ Len(samples) \in Nat
      /\ Len(candles) \in Nat /\ cursor <= Len(candles) /\ Usable(cursor)
      /\ cursor' = cursor + 1 /\ UNCHANGED <<candles, sizes, fold>>
  BY DEF LearningInv, LearningTypeOK, AddSample
<1>3. item \in Items /\ item.entry = cursor /\ item.exit \in cursor .. cursor + LabelHorizon
  BY <1>1, <1>2, LabelTyped DEF LearningInv
<1>4. /\ samples' \in Seq(Items)
      /\ Len(samples') = Len(samples) + 1
      /\ \A k \in 1 .. Len(samples) : samples'[k] = samples[k]
      /\ samples'[Len(samples) + 1] = item
  BY <1>1, <1>2, <1>3, AppendProperties
<1>5. \A k \in 1 .. Len(samples) : samples[k].entry \in Nat /\ samples[k].exit \in Nat
  <2>1. \A k \in 1 .. Len(samples) : samples[k] \in Items
    BY <1>2, ElementOfSeq
  <2> QED BY <2>1 DEF Items
<1>6. LearningTypeOK'
  BY <1>2, <1>4 DEF LearningInv, LearningTypeOK
<1>7. LooksAhead'
  BY <1>2, <1>3, <1>4 DEF LearningInv, LooksAhead
<1>8. EntriesPast'
  BY <1>2, <1>3, <1>4, <1>5 DEF LearningInv, EntriesPast
<1>9. EntriesApart'
  <2>1. SUFFICES ASSUME NEW a \in 1 .. Len(samples) + 1, NEW b \in 1 .. Len(samples) + 1, a <= b
                 PROVE  samples'[b].entry - samples'[a].entry >= b - a
    BY <1>4 DEF EntriesApart
  <2>2. CASE b <= Len(samples)
    <3>1. a \in 1 .. Len(samples) /\ b \in 1 .. Len(samples)
      BY <1>2, <2>1, <2>2
    <3>2. samples'[a] = samples[a] /\ samples'[b] = samples[b]
      BY <1>4, <3>1
    <3> QED BY <2>1, <3>1, <3>2 DEF LearningInv, EntriesApart
  <2>3. CASE b = Len(samples) + 1 /\ a = b
    BY <1>2, <1>3, <1>4, <2>3
  <2>4. CASE b = Len(samples) + 1 /\ a # b
    <3> DEFINE last == Len(samples)
    <3>1. a \in 1 .. last /\ last \in 1 .. last
      BY <1>2, <2>1, <2>4
    <3>2. samples[last].entry - samples[a].entry >= last - a /\ samples[last].entry < cursor
      BY <1>2, <3>1 DEF LearningInv, EntriesApart, EntriesPast
    <3>3. samples[last].entry \in Nat /\ samples[a].entry \in Nat
      BY <1>5, <3>1
    <3>4. samples'[b].entry = cursor /\ samples'[a].entry = samples[a].entry
      BY <1>3, <1>4, <2>4, <3>1
    <3> QED BY <1>2, <2>4, <3>1, <3>2, <3>3, <3>4
  <2> QED BY <1>2, <2>1, <2>2, <2>3, <2>4
<1>10. FoldFits'
  BY <1>2 DEF LearningInv, FoldFits
<1> QED BY <1>6, <1>7, <1>8, <1>9, <1>10 DEF LearningInv

\* A fold that starts to test at or behind the embargo.
LEMMA FoldTyped ==
  ASSUME NEW start \in Nat, start >= LabelHorizon, NEW size \in [train : Nat, test : Nat]
  PROVE  /\ Fold(start, size) \in [trainStart : Nat, trainEnd : Nat, testStart : Nat, testEnd : Nat]
         /\ Fold(start, size).trainEnd + LabelHorizon = Fold(start, size).testStart
         /\ Fold(start, size).testStart = start
         /\ Fold(start, size).testEnd = start + size.test
<1>1. start - LabelHorizon \in Nat
  BY LearningConstants
<1>2. (IF start - LabelHorizon >= size.train THEN start - LabelHorizon - size.train ELSE 0) \in Nat
  BY <1>1
<1>3. start + size.test \in Nat /\ (start - LabelHorizon) + LabelHorizon = start
  BY LearningConstants
<1> QED BY <1>1, <1>2, <1>3 DEF Fold

\* What stays when only the fold changes.
LEMMA FoldStep ==
  ASSUME LearningInv, UNCHANGED <<candles, cursor, samples>>,
         sizes' \in [train : Nat, test : Nat],
         fold' \in [trainStart : Nat, trainEnd : Nat, testStart : Nat, testEnd : Nat],
         FoldFits'
  PROVE  LearningInv'
<1>1. LearningTypeOK'
  BY DEF LearningInv, LearningTypeOK
<1>2. LooksAhead' /\ EntriesApart' /\ EntriesPast'
  BY DEF LearningInv, LooksAhead, EntriesApart, EntriesPast
<1> QED BY <1>1, <1>2 DEF LearningInv

\* The first fold tests behind its training rows and the embargo.
LEMMA FirstFold ==
  ASSUME LearningInv, NEW train \in FoldSizes, NEW test \in FoldSizes, WalkForward(train, test)
  PROVE  LearningInv'
<1> DEFINE size == [train |-> train, test |-> test]
           first == train + LabelHorizon
<1>1. train \in Nat \ {0} /\ test \in Nat \ {0} /\ LabelHorizon \in Nat
  BY LearningConstants
<1>2. size \in [train : Nat, test : Nat] /\ size.test = test /\ size.train = train
      /\ first \in Nat /\ first >= LabelHorizon
  BY <1>1
<1>3. /\ sizes' = size /\ fold' = Fold(first, size) /\ first + test <= Len(samples)
      /\ cursor > Len(candles) /\ UNCHANGED <<candles, cursor, samples>>
  BY DEF WalkForward
<1> HIDE DEF size, first
<1>4. /\ fold' \in [trainStart : Nat, trainEnd : Nat, testStart : Nat, testEnd : Nat]
      /\ fold'.trainEnd + LabelHorizon = fold'.testStart
      /\ fold'.testStart = first /\ fold'.testEnd = first + test
  BY <1>2, <1>3, FoldTyped
<1>5. FoldFits'
  BY <1>1, <1>2, <1>3, <1>4 DEF FoldFits
<1> QED BY <1>2, <1>3, <1>4, <1>5, FoldStep

\* The next fold tests where the one before it ended.
LEMMA FurtherFold ==
  ASSUME LearningInv, NextFold
  PROVE  LearningInv'
<1>1. /\ cursor > Len(candles) /\ sizes.train \in Nat \ {0} /\ sizes.test \in Nat \ {0}
      /\ fold.trainEnd + LabelHorizon = fold.testStart
  BY DEF LearningInv, FoldFits, NextFold
<1>2. /\ fold \in [trainStart : Nat, trainEnd : Nat, testStart : Nat, testEnd : Nat]
      /\ sizes \in [train : Nat, test : Nat] /\ LabelHorizon \in Nat
  BY LearningConstants DEF LearningInv, LearningTypeOK
<1>3. /\ fold.testEnd \in Nat /\ fold.testEnd >= LabelHorizon
      /\ fold' = Fold(fold.testEnd, sizes) /\ fold.testEnd + sizes.test <= Len(samples)
      /\ UNCHANGED <<candles, cursor, samples, sizes>>
  BY <1>1, <1>2 DEF LearningInv, FoldFits, NextFold
<1>4. /\ fold' \in [trainStart : Nat, trainEnd : Nat, testStart : Nat, testEnd : Nat]
      /\ fold'.trainEnd + LabelHorizon = fold'.testStart
      /\ fold'.testStart = fold.testEnd
      /\ fold'.testEnd = fold.testEnd + sizes.test
  BY <1>2, <1>3, FoldTyped
<1>5. FoldFits'
  BY <1>1, <1>2, <1>3, <1>4 DEF FoldFits
<1> QED BY <1>2, <1>3, <1>4, <1>5, FoldStep

\* Every step of the loop over candles and of the loop over folds.
LEMMA LearningStep == LearningInv /\ [LearningNext]_learningVars => LearningInv'
<1> SUFFICES ASSUME LearningInv, [LearningNext]_learningVars PROVE LearningInv'
  OBVIOUS
<1>1. CASE AddSample
  BY <1>1, AddStep
<1>2. CASE SkipCandle
  <2>1. /\ cursor \in Nat /\ Len(candles) \in Nat /\ cursor >= 1 /\ cursor <= Len(candles)
        /\ cursor' = cursor + 1 /\ UNCHANGED <<candles, samples, sizes, fold>>
        /\ samples \in Seq(Items)
    BY <1>2 DEF SkipCandle, LearningInv, LearningTypeOK
  <2>2. LearningTypeOK'
    BY <2>1 DEF LearningInv, LearningTypeOK
  <2>3. \A k \in 1 .. Len(samples) : samples[k].entry \in Nat
    <3>1. \A k \in 1 .. Len(samples) : samples[k] \in Items
      BY <2>1, ElementOfSeq
    <3> QED BY <3>1 DEF Items
  <2>4. EntriesPast'
    BY <2>1, <2>3 DEF LearningInv, EntriesPast
  <2>5. LooksAhead' /\ EntriesApart' /\ FoldFits'
    BY <2>1 DEF LearningInv, LooksAhead, EntriesApart, FoldFits
  <2> QED BY <2>2, <2>4, <2>5 DEF LearningInv
<1>3. CASE \E train, test \in FoldSizes : WalkForward(train, test)
  BY <1>3, FirstFold
<1>4. CASE NextFold
  BY <1>4, FurtherFold
<1>5. CASE UNCHANGED learningVars
  <2>1. UNCHANGED <<candles, cursor, samples, sizes, fold>>
    BY <1>5 DEF learningVars
  <2> QED BY <2>1 DEF LearningInv, LearningTypeOK, LooksAhead, EntriesApart, EntriesPast, FoldFits
<1> QED BY <1>1, <1>2, <1>3, <1>4, <1>5 DEF LearningNext
-----------------------------------------------------------------------------
\* Candles, samples and folds keep their types; no fold starts before the data.
THEOREM LearningTyped == LearningSpec => []LearningTypeOK
<1>1. LearningInv => LearningTypeOK
  BY DEF LearningInv
<1> QED BY <1>1, LearningInitInv, LearningStep, PTL DEF LearningSpec

\* No label that is trained on ends at or after the candle of a sample it is
\* tested with, whatever candles are skipped (validation.py:71-87).
THEOREM FoldsSound == LearningSpec => []FoldsAreSound
<1>1. LearningInv => FoldsAreSound
  <2> SUFFICES ASSUME LearningInv, NEW a \in TrainRows, NEW b \in TestRows
               PROVE  samples[a].exit < samples[b].entry
    BY DEF FoldsAreSound
  <2>1. /\ fold \in [trainStart : Nat, trainEnd : Nat, testStart : Nat, testEnd : Nat]
        /\ LabelHorizon \in Nat /\ samples \in Seq(Items) /\ Len(samples) \in Nat
    BY LearningConstants DEF LearningInv, LearningTypeOK
  <2>2. /\ a \in Nat /\ b \in Nat /\ a >= 1
        /\ a <= fold.trainEnd /\ b > fold.testStart /\ b <= fold.testEnd
    BY <2>1 DEF TrainRows, TestRows
  <2>3. /\ fold.trainEnd + LabelHorizon = fold.testStart
        /\ fold.testEnd <= Len(samples)
    BY <2>1, <2>2 DEF LearningInv, FoldFits, NoFold
  <2>4. a \in 1 .. Len(samples) /\ b \in 1 .. Len(samples) /\ b - a > LabelHorizon
    BY <2>1, <2>2, <2>3
  <2>5. /\ samples[a].entry \in Nat /\ samples[a].exit \in Nat
        /\ samples[b].entry \in Nat
    <3>1. samples[a] \in Items /\ samples[b] \in Items
      BY <2>1, <2>4, ElementOfSeq
    <3> QED BY <3>1 DEF Items
  <2>6. /\ samples[a].exit <= samples[a].entry + LabelHorizon
        /\ samples[b].entry - samples[a].entry >= b - a
    BY <2>1, <2>2, <2>4 DEF LearningInv, LooksAhead, EntriesApart
  <2>7. \A out, in, next, d, h \in Int :
          (out <= in + h /\ next - in >= d /\ d > h) => out < next
    OBVIOUS
  <2>8. b - a \in Int /\ LabelHorizon \in Int /\ b - a > LabelHorizon
    BY <2>1, <2>2, <2>4
  <2>9. /\ samples[a].entry \in Int /\ samples[a].exit \in Int
        /\ samples[b].entry \in Int
    BY <2>5
  <2> QED BY <2>6, <2>7, <2>8, <2>9
<1> QED BY <1>1, LearningInitInv, LearningStep, PTL DEF LearningSpec

\* A finite set has one member exactly when all its members are the same.
LEMMA OnlyMember ==
  ASSUME NEW S, IsFiniteSet(S), NEW k \in S
  PROVE  Cardinality(S) = 1 <=> (\A j \in S : j = k)
<1>1. Cardinality(S) = 1 <=> \E x : S = {x}
  BY FS_Singleton
<1> QED BY <1>1

\* A sample keeps its full weight exactly when no other label of the data set
\* looks at a candle its own looks at (wfv.py, compute_uniqueness_weights).
THEOREM WeightsSound == LearningSpec => []WeightsTellOverlap
<1>1. LearningInv => WeightsTellOverlap
  <2> SUFFICES ASSUME LearningInv, NEW k \in DOMAIN samples
               PROVE  WeighsFull(k)
                        <=> (\A j \in DOMAIN samples \ {k} :
                               Span(samples[j]) \cap Span(samples[k]) = {})
    BY DEF WeightsTellOverlap
  <2> DEFINE Lookers(t) == {j \in DOMAIN samples : t \in Span(samples[j])}
  <2>1. DOMAIN samples = 1 .. Len(samples) /\ Len(samples) \in Nat
    BY DEF LearningInv, LearningTypeOK
  <2>2. \A t : IsFiniteSet(Lookers(t))
    <3>1. IsFiniteSet(DOMAIN samples)
      BY <2>1, FS_Interval
    <3> QED BY <3>1, FS_Subset
  <2>3. PICK t0 : t0 \in Span(samples[k])
    <3>1. samples[k].entry \in Nat /\ samples[k].exit \in Nat
      <4>1. samples[k] \in Items
        BY <2>1, ElementOfSeq DEF LearningInv, LearningTypeOK
      <4> QED BY <4>1 DEF Items
    <3>2. samples[k].entry \in Span(samples[k])
      BY <2>1, <3>1 DEF LearningInv, LooksAhead, Span
    <3> QED BY <3>2
  <2>4. ASSUME NEW t \in Span(samples[k])
        PROVE  Concurrency(t) = 1
                 <=> (\A j \in DOMAIN samples \ {k} : t \notin Span(samples[j]))
    <3>1. k \in Lookers(t) /\ Concurrency(t) = Cardinality(Lookers(t))
      BY <2>4 DEF Concurrency
    <3>2. Concurrency(t) = 1 <=> (\A j \in Lookers(t) : j = k)
      <4> HIDE DEF Lookers
      <4> QED BY <3>1, <2>2, OnlyMember
    <3> QED BY <3>2
  <2>5. DOMAIN Weight(k) = {Concurrency(t) : t \in Span(samples[k])}
    BY DEF Weight
  <2>6. WeighsFull(k) <=> (\A t \in Span(samples[k]) : Concurrency(t) = 1)
    BY <2>3, <2>5 DEF WeighsFull
  <2> QED BY <2>4, <2>6
<1> QED BY <1>1, LearningInitInv, LearningStep, PTL DEF LearningSpec
-----------------------------------------------------------------------------
(* Costs and the backtest engine. *)

\* What has been paid for the open position, its entry costs included
Paid == position.price * position.quantity * RateUnit + position.cost

SumsAgree ==
  /\ cash = InitialCapital + sums.gross - sums.cost - (IF Flat THEN 0 ELSE Paid)
  /\ sums.net = sums.gross - sums.cost + sums.entryCost

EntriesInTime ==
  /\ lastExit <= bar
  /\ ~finished => (Flat \/ (lastExit < position.entry /\ position.entry <= bar
                              /\ bar - position.entry <= Horizon))
  /\ Flat \/ position.quantity > 0
  /\ finished => Flat /\ bar = LastBar

EngineInv == EngineTypeOK /\ SumsAgree /\ EntriesInTime
-----------------------------------------------------------------------------
\* The market impact exists: an integer square root, rounded up, between none
\* and the notional.
LEMMA ImpactTyped ==
  ASSUME NEW price \in Nat \ {0}, NEW quantity \in Nat \ {0}, NEW volume \in Nat
  PROVE  Impact(price, quantity, volume) \in Nat
<1>1. CASE volume = 0
  BY <1>1 DEF Impact
<1>2. CASE volume # 0
  <2> DEFINE grown(x) == x * x * ImpactDivisor * ImpactDivisor * volume
             wanted == price * price * quantity
             enough(x) == grown(x) >= wanted
             S == {x \in 0 .. price * quantity : enough(x)}
  <2>1. price * quantity \in Nat /\ ImpactDivisor \in Nat \ {0}
    BY CostConstants
  <2>2. enough(price * quantity)
    <3> DEFINE n == price * quantity
    <3>1. ImpactDivisor * ImpactDivisor * volume \in Nat
          /\ ImpactDivisor * ImpactDivisor * volume >= 1
      <4>1. \A a, b \in Nat : a >= 1 /\ b >= 1 => a * b \in Nat /\ a * b >= 1
        OBVIOUS
      <4>2. ImpactDivisor * ImpactDivisor \in Nat /\ ImpactDivisor * ImpactDivisor >= 1
        BY <2>1, <4>1
      <4> QED BY <1>2, <4>1, <4>2
    <3>2. \A a \in Nat, k \in Nat : k >= 1 => a * k >= a
      OBVIOUS
    <3>3. n * n \in Nat
      BY <2>1
    <3>4. (n * n) * (ImpactDivisor * ImpactDivisor * volume) >= n * n
      BY <3>1, <3>2, <3>3
    <3>5. n * n >= price * price * quantity
      <4>1. n * n = (price * price * quantity) * quantity
        OBVIOUS
      <4>2. price * price * quantity \in Nat
        OBVIOUS
      <4>3. (price * price * quantity) * quantity >= price * price * quantity
        BY <3>2, <4>2
      <4> QED BY <4>1, <4>3
    <3>6. n * n * ImpactDivisor * ImpactDivisor * volume
            = (n * n) * (ImpactDivisor * ImpactDivisor * volume)
      BY <2>1
    <3>7. price * price * quantity \in Int
      OBVIOUS
    <3> QED BY <2>1, <3>1, <3>3, <3>4, <3>5, <3>6, <3>7
  <2>3. /\ price * quantity \in 0 .. price * quantity
        /\ \A x \in Int : grown(x) \in Int /\ wanted \in Int
    BY <2>1
  <2>4. \A x \in Int : ~enough(x) => grown(x) < wanted
    BY <2>3
  <2> HIDE DEF enough
  <2>5. S \subseteq Nat /\ S # {}
    BY <2>1, <2>2, <2>3
  <2>6. PICK n \in S : \A m \in S : n <= m
    BY <2>5, LeastMember
  <2>7. n \in 0 .. price * quantity /\ enough(n) /\ (n > 0 => grown(n - 1) < wanted)
    <3>1. n > 0 => n - 1 \in 0 .. price * quantity /\ ~enough(n - 1)
      BY <2>1, <2>6
    <3> QED BY <2>4, <2>6, <3>1
  <2> USE DEF enough
  <2>8. Impact(price, quantity, volume) \in 0 .. price * quantity
    <3>1. \E x \in 0 .. price * quantity :
             /\ x * x * ImpactDivisor * ImpactDivisor * volume >= price * price * quantity
             /\ x > 0 => (x - 1) * (x - 1) * ImpactDivisor * ImpactDivisor * volume
                           < price * price * quantity
      BY <2>7
    <3> QED BY <1>2, <3>1 DEF Impact
  <2> QED BY <2>1, <2>8
<1> QED BY <1>1, <1>2

\* There is a tick for every price.
LEMMA TickTyped == \A p \in Int : Tick(p) \in Nat \ {0}
<1> SUFFICES ASSUME NEW p \in Int PROVE Tick(p) \in Nat \ {0}
  OBVIOUS
<1>1. \A row \in TickTable : row.tick \in Nat \ {0}
  BY DEF TickTable
<1>2. Ticks(p) \subseteq Nat \ {0} /\ Ticks(p) # {}
  BY <1>1 DEF Ticks, TickDefault
<1>3. PICK t \in Ticks(p) : \A u \in Ticks(p) : t <= u
  BY <1>2, LeastMember
<1> QED BY <1>2, <1>3 DEF Tick

\* Rounding stays on the side it should, and a fill has a price.
LEMMA FillPriceTyped ==
  ASSUME NEW side, NEW ref \in Nat \ {0}, NEW slip \in Nat
  PROVE  FillPrice(side, ref, slip) \in Nat
<1>1. \A p \in Int : Tick(p) \in Nat \ {0}
  BY TickTyped
<1>2. \A p \in Int : p % Tick(p) \in 0 .. Tick(p) - 1
  BY <1>1
<1>3. \A p \in Int : RoundDown(p) \in Int /\ RoundDown(p) > p - Tick(p)
  BY <1>1, <1>2 DEF RoundDown
<1>4. \A p \in Nat : RoundUp(p) \in Nat
  BY <1>1, <1>2, <1>3 DEF RoundUp
<1>5. Tick(ref) \in Nat
  BY <1>1
<1>6. RoundDown(ref - slip) \in Int
  BY <1>3
<1> QED BY <1>4, <1>5, <1>6 DEF FillPrice

\* What a fill amounts to: whole amounts, its gross the price times the shares.
LEMMA FillTyped ==
  ASSUME NEW side, NEW ref \in Nat \ {0}, NEW quantity \in Nat \ {0}, NEW volume \in Nat,
         NEW fill, fill = EstimateFill(side, ref, quantity, volume)
  PROVE  /\ fill.price \in Nat
         /\ fill.gross = fill.price * quantity * RateUnit
         /\ fill.gross \in Nat
         /\ Fees(fill) \in Nat
<1> DEFINE price == FillPrice(side, ref, Slippage(ref, quantity, volume))
           apart == IF price < ref THEN ref - price ELSE price - ref
<1>1. \A a, b \in Nat : a * b \in Nat
  OBVIOUS
<1>2. Tick(ref) \in Nat /\ Impact(ref, quantity, volume) \in Nat
  BY TickTyped, ImpactTyped
<1>3. Slippage(ref, quantity, volume) \in Nat
  BY <1>1, <1>2, CostConstants DEF Slippage
<1>4. price \in Nat
  BY <1>3, FillPriceTyped
<1>5. apart \in Nat
  BY <1>4
<1>6. /\ fill.price = price
      /\ fill.gross = price * quantity * RateUnit
      /\ fill.slippage = apart * quantity * RateUnit
      /\ fill.commission = Commission(price, quantity)
      /\ fill.tax = Tax(side, price, quantity)
  BY DEF EstimateFill
<1> HIDE DEF price, apart
<1>7. /\ price * quantity \in Nat /\ apart * quantity \in Nat
      /\ price * quantity * RateUnit \in Nat /\ apart * quantity * RateUnit \in Nat
  BY <1>1, <1>4, <1>5, CostConstants
<1>8. Commission(price, quantity) \in Nat /\ Tax(side, price, quantity) \in Nat
  BY <1>1, <1>7, CostConstants DEF Commission, Tax
<1>9. Fees(fill) \in Nat
  BY <1>6, <1>7, <1>8 DEF Fees
<1> QED BY <1>4, <1>6, <1>7, <1>9

\* The shares the cash reaches for are a whole number.
LEMMA AffordableTyped ==
  ASSUME EngineTypeOK, NEW open \in Prices
  PROVE  Affordable(open) \in Nat
<1>1. open \in Nat \ {0} /\ RateUnit \in Nat \ {0} /\ FractionDivisor \in Nat \ {0} /\ cash \in Int
  BY EngineConstants, CostConstants DEF EngineTypeOK
<1>2. FractionDivisor * RateUnit * open \in Nat \ {0}
  BY <1>1
<1>3. cash > 0 => cash \div (FractionDivisor * RateUnit * open) \in Nat
  BY <1>1, <1>2
<1> QED BY <1>1, <1>3 DEF Affordable
-----------------------------------------------------------------------------
\* Nothing bought, nothing sold.
LEMMA EngineInitInv == EngineInit => EngineInv
<1> SUFFICES ASSUME EngineInit PROVE EngineInv
  OBVIOUS
<1>1. EngineTypeOK
  <2>1. NoPosition \in [entry : Nat \cup {-1}, quantity : Nat, price : Nat, cost : Nat]
    BY DEF NoPosition
  <2>2. bar \in 0 .. LastBar /\ cash \in Int /\ lastExit \in Nat \cup {-1}
    BY EngineConstants DEF EngineInit
  <2>3. sums \in [gross : Int, cost : Int, net : Int, entryCost : Int]
    BY DEF EngineInit
  <2> QED BY <2>1, <2>2, <2>3 DEF EngineInit, EngineTypeOK
<1>2. SumsAgree
  BY EngineConstants DEF EngineInit, SumsAgree, Flat, NoPosition
<1>3. EntriesInTime
  BY DEF EngineInit, EntriesInTime, Flat, NoPosition
<1> QED BY <1>1, <1>2, <1>3 DEF EngineInv

\* The next bar begins.
LEMMA BarTyped ==
  ASSUME EngineTypeOK, bar < LastBar, NextBar
  PROVE  bar' = bar + 1 /\ bar' \in 0 .. LastBar /\ bar \in Nat /\ close' \in Prices
         /\ finished' = finished
BY EngineConstants DEF EngineTypeOK, NextBar

\* A purchase: the cash pays for the position and its fees.
LEMMA EnterStep ==
  ASSUME EngineInv, ~finished, bar < LastBar,
         NEW open \in Prices, NEW volume \in Volumes, Enter(open, volume)
  PROVE  EngineInv'
<1> DEFINE q == Affordable(open)
           fill == EstimateFill("BUY", open, q, volume)
<1>1. q \in Nat \ {0} /\ open \in Nat \ {0} /\ volume \in Nat
  BY AffordableTyped, EngineConstants DEF EngineInv, Enter
<1>2. /\ fill.price \in Nat /\ fill.gross \in Nat /\ Fees(fill) \in Nat
      /\ fill.gross = fill.price * q * RateUnit
  BY <1>1, FillTyped
<1>3. /\ Flat /\ cash' = cash - (fill.gross + Fees(fill))
      /\ position' = [entry |-> bar + 1, quantity |-> q, price |-> fill.price, cost |-> Fees(fill)]
      /\ NextBar /\ UNCHANGED <<lastExit, sums>>
  BY DEF Enter
<1> HIDE DEF q, fill
<1>4. /\ bar' = bar + 1 /\ bar' \in 0 .. LastBar /\ bar \in Nat /\ close' \in Prices
      /\ finished' = finished
  BY <1>3, BarTyped DEF EngineInv
<1>5. /\ position'.entry = bar + 1 /\ position'.quantity = q
      /\ position'.price = fill.price /\ position'.cost = Fees(fill)
      /\ position' \in [entry : Nat \cup {-1}, quantity : Nat, price : Nat, cost : Nat]
  BY <1>1, <1>2, <1>3, <1>4
<1>6. EngineTypeOK'
  BY <1>2, <1>3, <1>4, <1>5 DEF EngineInv, EngineTypeOK
<1>7. SumsAgree'
  <2>1. ~Flat' /\ Paid' = fill.gross + Fees(fill)
    BY <1>2, <1>4, <1>5 DEF Flat, Paid
  <2>2. cash \in Int /\ sums.gross \in Int /\ sums.cost \in Int /\ InitialCapital \in Int
    BY EngineConstants DEF EngineInv, EngineTypeOK
  <2>3. cash = InitialCapital + sums.gross - sums.cost
    BY <1>3, <2>2 DEF EngineInv, SumsAgree
  <2>4. cash' = InitialCapital + sums'.gross - sums'.cost - Paid'
    BY <1>2, <1>3, <2>1, <2>2, <2>3
  <2> QED BY <1>3, <2>1, <2>4 DEF EngineInv, SumsAgree
<1>8. EntriesInTime'
  <2>1. lastExit \in Nat \cup {-1} /\ lastExit <= bar /\ Horizon \in Nat /\ lastExit' = lastExit
    BY <1>3, EngineConstants DEF EngineInv, EngineTypeOK, EntriesInTime
  <2>2. q > 0 /\ ~finished'
    BY <1>1, <1>4
  <2> QED BY <1>4, <1>5, <2>1, <2>2 DEF EntriesInTime
<1> QED BY <1>6, <1>7, <1>8 DEF EngineInv

\* A sale, at a bar not before the present one: what was paid for the position
\* goes into the sums with it.
LEMMA TradeStep ==
  ASSUME EngineInv, ~Flat, NEW ref \in Prices, NEW volume \in Volumes, NEW exit \in Nat,
         BookTrade(EstimateFill("SELL", ref, position.quantity, volume), exit),
         bar' \in 0 .. LastBar, exit <= bar', close' \in Prices, finished' \in BOOLEAN,
         finished' => bar' = LastBar
  PROVE  EngineInv'
<1> DEFINE fill == EstimateFill("SELL", ref, position.quantity, volume)
           cost == position.price * position.quantity * RateUnit
<1>1. /\ position.quantity \in Nat \ {0} /\ position.price \in Nat /\ position.cost \in Nat
      /\ ref \in Nat \ {0} /\ volume \in Nat /\ RateUnit \in Nat
      /\ cash \in Int /\ sums.gross \in Int /\ sums.cost \in Int /\ sums.net \in Int
      /\ sums.entryCost \in Int /\ InitialCapital \in Int
  BY EngineConstants, CostConstants DEF EngineInv, EngineTypeOK, EntriesInTime
<1>2. fill.gross \in Nat /\ Fees(fill) \in Nat
  BY <1>1, FillTyped
<1>3. cost \in Int
  BY <1>1
<1>4. /\ cash' = cash + fill.gross - Fees(fill)
      /\ sums' = [gross |-> sums.gross + (fill.gross - cost),
                  cost |-> sums.cost + position.cost + Fees(fill),
                  net |-> sums.net + (fill.gross - cost) - Fees(fill),
                  entryCost |-> sums.entryCost + position.cost]
      /\ lastExit' = exit /\ position' = NoPosition
  BY DEF BookTrade
<1>5. cash = InitialCapital + sums.gross - sums.cost - (cost + position.cost)
      /\ sums.net = sums.gross - sums.cost + sums.entryCost
  BY DEF EngineInv, SumsAgree, Paid
<1> HIDE DEF fill, cost
<1>6. /\ sums'.gross = sums.gross + (fill.gross - cost)
      /\ sums'.cost = sums.cost + position.cost + Fees(fill)
      /\ sums'.net = sums.net + (fill.gross - cost) - Fees(fill)
      /\ sums'.entryCost = sums.entryCost + position.cost
      /\ sums' \in [gross : Int, cost : Int, net : Int, entryCost : Int]
  BY <1>1, <1>2, <1>3, <1>4
<1>7. Flat' /\ position' \in [entry : Nat \cup {-1}, quantity : Nat, price : Nat, cost : Nat]
  BY <1>4 DEF Flat, NoPosition
<1>8. EngineTypeOK'
  BY <1>1, <1>2, <1>4, <1>6, <1>7 DEF EngineTypeOK
<1>9. SumsAgree'
  BY <1>1, <1>2, <1>3, <1>4, <1>5, <1>6, <1>7 DEF SumsAgree
<1>10. EntriesInTime'
  BY <1>4, <1>7 DEF EntriesInTime
<1> QED BY <1>8, <1>9, <1>10 DEF EngineInv
\* A bar on which nothing is bought or sold.
LEMMA QuietBar ==
  ASSUME EngineInv, bar < LastBar, NextBar, Flat \/ ~Expires,
         UNCHANGED <<cash, position, lastExit, sums>>
  PROVE  EngineInv'
<1>1. /\ bar' = bar + 1 /\ bar' \in 0 .. LastBar /\ bar \in Nat /\ close' \in Prices
      /\ finished' = finished /\ LastBar \in Nat /\ Horizon \in Nat
  BY BarTyped, EngineConstants DEF EngineInv
<1>2. EngineTypeOK'
  BY <1>1 DEF EngineInv, EngineTypeOK
<1>3. SumsAgree'
  BY DEF EngineInv, SumsAgree, Flat, Paid
<1>4. /\ lastExit \in Nat \cup {-1} /\ position.entry \in Nat \cup {-1} /\ ~finished
      /\ Flat' = Flat
  BY <1>1 DEF EngineInv, EngineTypeOK, EntriesInTime, Flat
<1>5. Flat \/ bar - position.entry < Horizon
  BY <1>1, <1>4 DEF Expires
<1>6. EntriesInTime'
  BY <1>1, <1>4, <1>5 DEF EngineInv, EntriesInTime
<1> QED BY <1>2, <1>3, <1>6 DEF EngineInv

\* Every turn of the loop, and what comes after the loop.
LEMMA EngineStep == EngineInv /\ [EngineNext]_engineVars => EngineInv'
<1> SUFFICES ASSUME EngineInv, [EngineNext]_engineVars PROVE EngineInv'
  OBVIOUS
<1>0. bar \in Nat /\ LastBar \in Nat /\ bar <= LastBar /\ (bar < LastBar => ~finished)
  BY EngineConstants DEF EngineInv, EngineTypeOK, EntriesInTime
<1>1. ASSUME bar < LastBar, NEW open \in Prices, NEW volume \in Volumes, Enter(open, volume)
      PROVE  EngineInv'
  BY <1>0, <1>1, EnterStep
<1>2. ASSUME bar < LastBar, NEW open \in Prices, NEW volume \in Volumes, Exit(open, volume)
      PROVE  EngineInv'
  <2>1. /\ bar' = bar + 1 /\ bar' \in 0 .. LastBar /\ close' \in Prices /\ finished' = finished
    BY <1>2, BarTyped DEF Exit, EngineInv
  <2>2. /\ ~Flat
        /\ BookTrade(EstimateFill("SELL", open, position.quantity, volume), bar + 1)
    BY <1>2 DEF Exit
  <2>3. bar + 1 \in Nat /\ bar + 1 <= bar' /\ finished' = FALSE
    BY <1>0, <1>2, <2>1 DEF EngineInv, EngineTypeOK
  <2> QED BY <2>1, <2>2, <2>3, TradeStep
<1>3. ASSUME bar < LastBar, StayFlat \/ Keep PROVE EngineInv'
  BY <1>3, QuietBar DEF StayFlat, Keep
<1>4. ASSUME NEW volume \in Volumes, Finish(volume) PROVE EngineInv'
  <2>1. /\ bar' = bar /\ bar = LastBar /\ close' = close /\ close \in Prices
        /\ finished' = TRUE /\ bar' \in 0 .. LastBar /\ bar <= bar'
    BY <1>0, <1>4 DEF Finish, EngineInv, EngineTypeOK
  <2>2. CASE Flat
    <3>1. UNCHANGED <<cash, position, lastExit, sums>>
      BY <1>4, <2>2 DEF Finish
    <3>2. EngineTypeOK'
      BY <2>1, <3>1 DEF EngineInv, EngineTypeOK
    <3>3. SumsAgree' /\ EntriesInTime'
      BY <2>1, <2>2, <3>1 DEF EngineInv, SumsAgree, EntriesInTime, Flat, Paid
    <3> QED BY <3>2, <3>3 DEF EngineInv
  <2>3. CASE ~Flat
    <3>1. BookTrade(EstimateFill("SELL", close, position.quantity, volume), bar)
      BY <1>4, <2>3 DEF Finish
    <3> QED BY <1>0, <2>1, <2>3, <3>1, TradeStep
  <2> QED BY <2>2, <2>3
<1>5. CASE UNCHANGED engineVars
  <2>1. UNCHANGED <<bar, close, cash, position, lastExit, sums, finished>>
    BY <1>5 DEF engineVars
  <2> QED BY <2>1 DEF EngineInv, EngineTypeOK, SumsAgree, EntriesInTime, Flat, Paid
<1> QED BY <1>1, <1>2, <1>3, <1>4, <1>5 DEF EngineNext
-----------------------------------------------------------------------------
\* Cash, position and sums stay whole numbers; every fill has a price, the
\* square-root impact included.
THEOREM EngineTyped == EngineSpec => []EngineTypeOK
<1>1. EngineInv => EngineTypeOK
  BY DEF EngineInv
<1> QED BY <1>1, EngineInitInv, EngineStep, PTL DEF EngineSpec

\* What a run reports adds up with the cash, and the results of the trades
\* exceed it by exactly the costs of the entries (engine.py:159).
THEOREM EngineBalances == EngineSpec => []EngineAddsUp
<1>1. EngineInv => EngineAddsUp
  <2> SUFFICES ASSUME EngineInv, finished
               PROVE  /\ cash - InitialCapital = sums.gross - sums.cost
                      /\ sums.net = cash - InitialCapital + sums.entryCost
    BY DEF EngineAddsUp
  <2>1. /\ cash \in Int /\ sums.gross \in Int /\ sums.cost \in Int
        /\ sums.entryCost \in Int /\ InitialCapital \in Int
    BY EngineConstants DEF EngineInv, EngineTypeOK
  <2>2. /\ cash = InitialCapital + sums.gross - sums.cost
        /\ sums.net = sums.gross - sums.cost + sums.entryCost
    BY <2>1 DEF EngineInv, EntriesInTime, SumsAgree
  <2> QED BY <2>1, <2>2
<1> QED BY <1>1, EngineInitInv, EngineStep, PTL DEF EngineSpec

\* Trades do not overlap, and none outlasts its horizon by more than the bar
\* that fills (engine.py:127-150).
THEOREM TradesInTime == EngineSpec => []TradesKeepTheirTime
<1>1. EngineInv => TradesKeepTheirTime
  BY DEF EngineInv, EntriesInTime, TradesKeepTheirTime
<1> QED BY <1>1, EngineInitInv, EngineStep, PTL DEF EngineSpec
-----------------------------------------------------------------------------
(* The signals of the moving averages. *)

\* The candles that were there before the newest k of them.
Older(s, k) == SubSeq(s, k + 1, Len(s))

\* What a run that looked last read its signals from.
Seen == Older(closes, Len(closes) - looked)

\* What a run noted follows from the candles it read.
SignalInv ==
  /\ slow \in SlowPeriods
  /\ closes \in Seq(SignalPrices)
  /\ looked \in 0 .. Len(closes)
  /\ crossing = CrossingOf(Visible(Seen), slow)
  /\ swing = SwingOf(Visible(Seen))
  /\ regime = RegimeOf(Seen)
  /\ decision = DecisionOf(crossing, swing, regime, heard)

\* Another candle changes nothing about the ones before it.
LEMMA OlderStays ==
  ASSUME NEW s \in Seq(Int), NEW price \in Int, NEW k \in 0 .. Len(s)
  PROVE  Older(<<price>> \o s, k + 1) = Older(s, k)
<1> DEFINE t == <<price>> \o s
<1>1. <<price>> \in Seq(Int) /\ Len(<<price>>) = 1 /\ Len(s) \in Nat /\ k \in Nat
      /\ t \in Seq(Int) /\ Len(t) = Len(s) + 1
  OBVIOUS
<1>2. CASE k = Len(s)
  <2>1. SubSeq(t, k + 2, Len(t)) = <<>> /\ SubSeq(s, k + 1, Len(s)) = <<>>
    <3>1. /\ k + 2 \in Int /\ Len(t) \in Int /\ Len(t) < k + 2
          /\ k + 1 \in Int /\ Len(s) \in Int /\ Len(s) < k + 1
      BY <1>1, <1>2
    <3> HIDE DEF t
    <3> QED BY <3>1, SubSeqEmpty
  <2> QED BY <1>1, <2>1 DEF Older
<1>3. CASE k < Len(s)
  <2>1. /\ k + 2 \in Len(<<price>>) + 1 .. Len(<<price>>) + Len(s)
        /\ Len(t) \in Len(<<price>>) + 1 .. Len(<<price>>) + Len(s)
        /\ (k + 2) - Len(<<price>>) = k + 1 /\ Len(t) - Len(<<price>>) = Len(s)
    BY <1>1, <1>3
  <2>2. SubSeq(<<price>> \o s, k + 2, Len(t))
          = SubSeq(s, (k + 2) - Len(<<price>>), Len(t) - Len(<<price>>))
    BY <1>1, <2>1, SubSeqOfConcat2
  <2> QED BY <1>1, <2>1, <2>2 DEF Older
<1> QED BY <1>1, <1>2, <1>3

\* All of them are there before the newest none.
LEMMA OlderAll == ASSUME NEW s \in Seq(Int) PROVE Older(s, 0) = s
  BY SubSeqFull DEF Older

\* Those before the newest one are the rest.
LEMMA OlderRest ==
  ASSUME NEW s \in Seq(Int), Len(s) >= 1
  PROVE  /\ Older(s, 1) \in Seq(Int)
         /\ s[1] \in Int
         /\ s = <<s[1]>> \o Older(s, 1)
<1>1. Len(s) \in Nat /\ 1 \in 1 .. Len(s) /\ Len(s) \in 1 .. Len(s)
  OBVIOUS
<1>2. \A i \in 2 .. Len(s) : s[i] \in Int
  BY <1>1, ElementOfSeq
<1>3. Older(s, 1) \in Seq(Int)
  BY <1>1, <1>2, SubSeqProperties DEF Older
<1>4. s = SubSeq(s, 1, Len(s))
  BY SubSeqFull
<1>5. SubSeq(s, 1, Len(s)) = <<s[1]>> \o SubSeq(s, 1 + 1, Len(s))
  BY <1>1, SubSeqRecursiveFirst
<1> QED BY <1>1, <1>3, <1>4, <1>5, ElementOfSeq DEF Older

\* A run reads all the candles, or as many as it is given.
LEMMA VisibleTyped ==
  ASSUME NEW s \in Seq(Int)
  PROVE  /\ Visible(s) \in Seq(Int)
         /\ Len(Visible(s)) = IF CandleLimit <= Len(s) THEN CandleLimit ELSE Len(s)
         /\ Visible(s) = SubSeq(s, 1, Len(Visible(s)))
<1> DEFINE m == IF CandleLimit <= Len(s) THEN CandleLimit ELSE Len(s)
<1>1. CandleLimit \in Nat \ {0} /\ Len(s) \in Nat
  BY SignalConstants
<1>2. m \in Nat /\ m <= Len(s)
  BY <1>1
<1>3. Visible(s) = SubSeq(s, 1, m)
  BY <1>1 DEF Visible, Slice
<1> HIDE DEF m
<1>4. \A i \in 1 .. m : s[i] \in Int
  BY <1>1, <1>2, ElementOfSeq
<1>5. /\ SubSeq(s, 1, m) \in Seq(Int)
      /\ Len(SubSeq(s, 1, m)) = IF 1 <= m THEN m - 1 + 1 ELSE 0
  BY <1>2, <1>4, SubSeqProperties
<1>6. Len(SubSeq(s, 1, m)) = m
  BY <1>2, <1>5
<1> QED BY <1>3, <1>5, <1>6 DEF m

\* What is wholly within the candles read is as it is stored.
LEMMA VisiblePart ==
  ASSUME NEW s \in Seq(Int), NEW from \in Nat, NEW count \in Nat \ {0},
         from + count <= Len(Visible(s))
  PROVE  Slice(Visible(s), from, count) = SubSeq(s, from + 1, from + count)
<1> DEFINE v == Visible(s)
           m == Len(v)
<1>1. v \in Seq(Int) /\ v = SubSeq(s, 1, m) /\ m \in Nat /\ m <= Len(s) /\ Len(s) \in Nat
  <2>1. v \in Seq(Int) /\ v = SubSeq(s, 1, m)
    BY VisibleTyped
  <2>2. m = IF CandleLimit <= Len(s) THEN CandleLimit ELSE Len(s)
    BY VisibleTyped
  <2>3. CandleLimit \in Nat /\ Len(s) \in Nat
    BY SignalConstants
  <2> HIDE DEF m, v
  <2> QED BY <2>1, <2>2, <2>3
<1>2. /\ 1 \in 1 .. Len(s) /\ m \in 1 .. Len(s)
      /\ from + 1 \in 1 .. m - 1 + 1 /\ from + count \in 1 .. m - 1 + 1
      /\ 1 + (from + 1) - 1 = from + 1 /\ 1 + (from + count) - 1 = from + count
  BY <1>1
<1>3. Slice(v, from, count) = SubSeq(v, from + 1, from + count)
  BY DEF Slice
<1> HIDE DEF m, v
<1>4. SubSeq(SubSeq(s, 1, m), from + 1, from + count)
        = SubSeq(s, 1 + (from + 1) - 1, 1 + (from + count) - 1)
  BY <1>2, SubSeqOfSubSeq
<1> QED BY <1>1, <1>2, <1>3, <1>4 DEF v

\* A part of a sequence of numbers is one, and has a sum.
LEMMA PartTyped ==
  ASSUME NEW s \in Seq(Int), NEW from \in Nat, NEW to \in Nat, to <= Len(s)
  PROVE  SubSeq(s, from + 1, to) \in Seq(Int) /\ Total(SubSeq(s, from + 1, to)) \in Int
<1>1. \A i \in from + 1 .. to : s[i] \in Int
  <2>1. \A i \in from + 1 .. to : i \in 1 .. Len(s)
    OBVIOUS
  <2> QED BY <2>1, ElementOfSeq
<1>2. SubSeq(s, from + 1, to) \in Seq(Int)
  <2>1. from + 1 \in Int /\ to \in Int
    OBVIOUS
  <2> QED BY <1>1, <2>1, SubSeqProperties
<1> QED BY <1>2, TotalTyped

\* How far the fast average led the slow one before the newest k candles.
LeadOf(s, k, period) ==
  Total(SubSeq(s, k + 1, k + FastPeriod)) * period
    - Total(SubSeq(s, k + 1, k + period)) * FastPeriod

LEMMA LeadOfTyped ==
  ASSUME NEW s \in Seq(Int), NEW k \in Nat, NEW period \in SlowPeriods,
         k + period <= Len(s)
  PROVE  LeadOf(s, k, period) \in Int
<1>1. FastPeriod \in Nat /\ period \in Nat /\ FastPeriod < period
  BY SignalConstants
<1> DEFINE fast == Total(SubSeq(s, k + 1, k + FastPeriod))
           long == Total(SubSeq(s, k + 1, k + period))
<1>2. fast \in Int
  <2>1. k + FastPeriod \in Nat /\ k + FastPeriod <= Len(s)
    BY <1>1
  <2> QED BY <2>1, PartTyped
<1>3. long \in Int
  <2>1. k + period \in Nat
    BY <1>1
  <2> QED BY <2>1, PartTyped
<1>4. LeadOf(s, k, period) = fast * period - long * FastPeriod
  BY DEF LeadOf
<1> HIDE DEF fast, long
<1> QED BY <1>1, <1>2, <1>3, <1>4

\* With all its closes among the candles read, a lead is what was stored.
LEMMA LeadAsStored ==
  ASSUME NEW s \in Seq(Int), NEW k \in Nat, NEW period \in SlowPeriods,
         k + period <= Len(Visible(s))
  PROVE  /\ Lead(Visible(s), k, period) = LeadOf(s, k, period)
         /\ LeadOf(s, k, period) \in Int
<1>1. FastPeriod \in Nat \ {0} /\ period \in Nat \ {0} /\ FastPeriod < period
  BY SignalConstants
<1>2. Slice(Visible(s), k, period) = SubSeq(s, k + 1, k + period)
  BY <1>1, VisiblePart
<1>3. Slice(Visible(s), k, FastPeriod) = SubSeq(s, k + 1, k + FastPeriod)
  <2>1. Len(Visible(s)) \in Nat
    BY VisibleTyped
  <2>2. k + FastPeriod <= Len(Visible(s))
    BY <1>1, <2>1
  <2> QED BY <1>1, <2>2, VisiblePart
<1>4. k + period <= Len(s)
  <2>1. /\ Len(s) \in Nat /\ CandleLimit \in Nat
        /\ Len(Visible(s)) = IF CandleLimit <= Len(s) THEN CandleLimit ELSE Len(s)
    BY VisibleTyped, SignalConstants
  <2> QED BY <1>1, <2>1
<1> QED BY <1>2, <1>3, <1>4, LeadOfTyped DEF Lead, LeadOf

\* Where the older slow average is one close short, it is too low: the lead it
\* is compared with is too large, by that close, which is positive.
LEMMA LeadTooLarge ==
  ASSUME NEW s \in Seq(Nat \ {0}), NEW period \in SlowPeriods,
         Len(Visible(s)) = period, Len(s) > period
  PROVE  /\ Lead(Visible(s), 1, period) \in Int
         /\ LeadOf(s, 1, period) \in Int
         /\ LeadOf(s, 1, period) <= Lead(Visible(s), 1, period)
<1>1. FastPeriod \in Nat \ {0} /\ period \in Nat \ {0} /\ FastPeriod < period
  BY SignalConstants
<1>2. s \in Seq(Int) /\ Len(s) \in Nat
  <2>1. Nat \ {0} \subseteq Int
    OBVIOUS
  <2> QED BY <2>1, SeqMonotonic
<1> DEFINE v == Visible(s)
           fast == Total(SubSeq(s, 2, 1 + FastPeriod))
           short == SubSeq(s, 2, period)
           long == SubSeq(s, 2, period + 1)
           last == s[period + 1]
<1>3. Slice(v, 1, FastPeriod) = SubSeq(s, 2, 1 + FastPeriod)
  <2>1. 1 \in Nat /\ 1 + FastPeriod <= Len(v)
    BY <1>1
  <2>2. Slice(v, 1, FastPeriod) = SubSeq(s, 1 + 1, 1 + FastPeriod)
    BY <1>1, <1>2, <2>1, VisiblePart
  <2> QED BY <2>2
<1>4. Slice(v, 1, period) = short
  <2>1. Slice(v, 1, period) = SubSeq(v, 2, period)
    BY <1>1 DEF Slice
  <2>2. Slice(v, 1, period - 1) = SubSeq(v, 2, period)
    BY <1>1 DEF Slice
  <2>3. period - 1 \in Nat \ {0} /\ 1 \in Nat /\ 1 + (period - 1) <= Len(v)
        /\ 1 + (period - 1) = period
    BY <1>1
  <2>4. Slice(v, 1, period - 1) = SubSeq(s, 1 + 1, 1 + (period - 1))
    BY <1>2, <2>3, VisiblePart
  <2> QED BY <2>1, <2>2, <2>3, <2>4
<1>5. last \in Nat \ {0}
  <2>1. period + 1 \in 1 .. Len(s)
    BY <1>1, <1>2
  <2> QED BY <2>1, ElementOfSeq
<1>6. Total(long) = Total(short) + last /\ Total(short) \in Int
  <2>1. period + 1 \in 2 .. Len(s) /\ 2 \in 1 .. Len(s) /\ (period + 1) - 1 = period
    BY <1>1, <1>2
  <2>2. long = short \o <<last>>
    BY <1>2, <2>1, SubSeqRecursiveSecond
  <2>3. short \in Seq(Int) /\ Total(short) \in Int
    <3>1. 1 \in Nat /\ period \in Nat /\ period <= Len(s)
      BY <1>1, <1>2
    <3>2. SubSeq(s, 1 + 1, period) \in Seq(Int) /\ Total(SubSeq(s, 1 + 1, period)) \in Int
      BY <1>2, <3>1, PartTyped
    <3> QED BY <3>2
  <2>4. short \o <<last>> = Append(short, last)
    <3> HIDE DEF short, last
    <3> QED BY <1>5, <2>3
  <2>5. Total(Append(short, last)) = Total(short) + last
    <3> HIDE DEF short, last
    <3>1. last \in Int
      BY <1>5
    <3> QED BY <2>3, <3>1, TotalOfAppend
  <2> HIDE DEF short, last, long
  <2> QED BY <2>2, <2>3, <2>4, <2>5
<1>7. fast \in Int
  <2>1. 1 \in Nat /\ 1 + FastPeriod \in Nat /\ 1 + FastPeriod <= Len(s)
    BY <1>1, <1>2
  <2>2. Total(SubSeq(s, 1 + 1, 1 + FastPeriod)) \in Int
    BY <1>2, <2>1, PartTyped
  <2> QED BY <2>2
<1>8. Lead(v, 1, period) = fast * period - Total(short) * FastPeriod
  BY <1>3, <1>4 DEF Lead
<1>9. LeadOf(s, 1, period) = fast * period - Total(long) * FastPeriod
  <2>1. 1 + 1 = 2 /\ 1 + period = period + 1
    BY <1>1
  <2> QED BY <2>1 DEF LeadOf
<1> DEFINE total == Total(short)
<1>10. total \in Int /\ Total(long) = total + last
  BY <1>6
<1>11. /\ Lead(v, 1, period) = fast * period - total * FastPeriod
       /\ LeadOf(s, 1, period) = fast * period - (total + last) * FastPeriod
  BY <1>8, <1>9, <1>10
<1> HIDE DEF v, fast, short, long, last, total
<1>12. (total + last) * FastPeriod = total * FastPeriod + last * FastPeriod
       /\ last * FastPeriod >= 0
  BY <1>1, <1>5, <1>10
<1>13. fast * period \in Int /\ total * FastPeriod \in Int /\ last * FastPeriod \in Int
  BY <1>1, <1>5, <1>7, <1>10
<1>14. /\ Lead(v, 1, period) \in Int
       /\ LeadOf(s, 1, period) \in Int
       /\ LeadOf(s, 1, period) <= Lead(v, 1, period)
  BY <1>11, <1>12, <1>13
<1> QED BY <1>14 DEF v

\* Before a new close, the lead was what it had been until then.
LEMMA LeadBefore ==
  ASSUME NEW s \in Seq(Int), NEW price \in Int, NEW period \in SlowPeriods,
         Len(s) >= period
  PROVE  LeadOf(<<price>> \o s, 1, period) = LeadOf(s, 0, period)
<1>1. FastPeriod \in Nat \ {0} /\ period \in Nat \ {0} /\ FastPeriod <= Len(s)
  BY SignalConstants
<1>2. ASSUME NEW count \in Nat \ {0}, count <= Len(s)
      PROVE  SubSeq(<<price>> \o s, 2, 1 + count) = SubSeq(s, 1, count)
  <2>1. <<price>> \in Seq(Int) /\ Len(<<price>>) = 1 /\ Len(s) \in Nat
    OBVIOUS
  <2>2. /\ 2 \in Len(<<price>>) + 1 .. Len(<<price>>) + Len(s)
        /\ 1 + count \in Len(<<price>>) + 1 .. Len(<<price>>) + Len(s)
        /\ 2 - Len(<<price>>) = 1 /\ (1 + count) - Len(<<price>>) = count
    BY <1>2, <2>1
  <2>3. SubSeq(<<price>> \o s, 2, 1 + count)
          = SubSeq(s, 2 - Len(<<price>>), (1 + count) - Len(<<price>>))
    BY <2>1, <2>2, SubSeqOfConcat2
  <2> QED BY <2>2, <2>3
<1>3. /\ SubSeq(<<price>> \o s, 2, 1 + FastPeriod) = SubSeq(s, 1, FastPeriod)
      /\ SubSeq(<<price>> \o s, 2, 1 + period) = SubSeq(s, 1, period)
  BY <1>1, <1>2
<1>4. 1 + 1 = 2 /\ 0 + 1 = 1 /\ 0 + FastPeriod = FastPeriod /\ 0 + period = period
  BY <1>1
<1> QED BY <1>3, <1>4 DEF LeadOf

\* Of one candle and the next, the averages do not cross the same way at both,
\* as long as a run reads more candles than the slow one is over, or fewer.
LEMMA OneCross ==
  ASSUME NEW s \in Seq(Int), NEW price \in Int, NEW period \in SlowPeriods,
         period # CandleLimit
  PROVE  \/ CrossingOf(Visible(<<price>> \o s), period) = "HOLD"
         \/ CrossingOf(Visible(<<price>> \o s), period) # CrossingOf(Visible(s), period)
<1> DEFINE t == <<price>> \o s
           v == Visible(s)
           w == Visible(t)
<1>1. t \in Seq(Int) /\ Len(s) \in Nat /\ Len(t) = Len(s) + 1 /\ period \in Nat \ {0}
      /\ CandleLimit \in Nat
  BY SignalConstants
<1>2. /\ Len(v) = IF CandleLimit <= Len(s) THEN CandleLimit ELSE Len(s)
      /\ Len(w) = IF CandleLimit <= Len(t) THEN CandleLimit ELSE Len(t)
  <2> HIDE DEF t
  <2> QED BY <1>1, VisibleTyped
<1>3. CASE Len(v) < period
  BY <1>3 DEF CrossingOf
<1>4. CASE Len(v) >= period
  <2>1. 0 + period <= Len(v) /\ Len(s) >= period
    BY <1>1, <1>2, <1>4
  <2>2. 0 + period <= Len(w) /\ 1 + period <= Len(w)
    BY <1>1, <1>2, <1>4
  <2>3. Lead(v, 0, period) = LeadOf(s, 0, period) /\ LeadOf(s, 0, period) \in Int
    BY <2>1, LeadAsStored
  <2>4. Lead(w, 0, period) = LeadOf(t, 0, period) /\ LeadOf(t, 0, period) \in Int
        /\ Lead(w, 1, period) = LeadOf(t, 1, period) /\ LeadOf(t, 1, period) \in Int
    <3> HIDE DEF t
    <3> QED BY <1>1, <2>2, LeadAsStored
  <2>5. LeadOf(t, 1, period) = LeadOf(s, 0, period)
    BY <2>1, LeadBefore
  <2>6. ~(Len(v) < period) /\ ~(Len(w) < period)
    BY <1>1, <1>2, <1>4
  <2> HIDE DEF t, v, w
  <2>7. CrossingOf(w, period) = "HOLD" \/ CrossingOf(w, period) # CrossingOf(v, period)
    BY <2>3, <2>4, <2>5, <2>6 DEF CrossingOf
  <2> QED BY <2>7 DEF t, v, w
<1> QED BY <1>1, <1>2, <1>3, <1>4

\* What the averages say is an action, and so is what the trader makes of it.
LEMMA CrossingTyped == ASSUME NEW s, NEW period PROVE CrossingOf(s, period) \in Actions
  BY DEF CrossingOf, Actions

\* Where the moving averages alone are heard and the threshold stays above zero,
\* an order is what they say.
LEMMA HeardAlone ==
  ASSUME NEW cross \in Actions, NEW rsi, NEW r \in Regimes,
         EntryThreshold + ThresholdOffset("BULL") > 0,
         DecisionOf(cross, rsi, r, {"MovingAverage"}) # "HOLD"
  PROVE  DecisionOf(cross, rsi, r, {"MovingAverage"}) = cross
<1>1. EntryThreshold \in Int /\ ThresholdOffset("BULL") = -5
  BY SignalConstants DEF ThresholdOffset
<1>2. ThresholdOffset(r) \in {-5, 0, 10}
  BY DEF ThresholdOffset, Regimes
<1> DEFINE threshold == EntryThreshold + ThresholdOffset(r)
<1>3. threshold \in Int /\ threshold > 0
  BY <1>1, <1>2
<1>4. ScoreSum(cross, rsi, {"MovingAverage"})
        = IF cross = "BUY" THEN 80 ELSE IF cross = "SELL" THEN -80 ELSE 0
  BY DEF ScoreSum, Score, Actions
<1>5. {"MovingAverage"} # {}
  OBVIOUS
<1> HIDE DEF threshold
<1>6. DecisionOf(cross, rsi, r, {"MovingAverage"})
        = IF ScoreSum(cross, rsi, {"MovingAverage"}) >= threshold THEN "BUY"
          ELSE IF ScoreSum(cross, rsi, {"MovingAverage"}) <= -threshold THEN "SELL"
          ELSE "HOLD"
  BY <1>5 DEF DecisionOf, threshold
<1> QED BY <1>3, <1>4, <1>6 DEF Actions

\* A trader that has not run means to do nothing.
LEMMA SignalInitInv == SignalInit => SignalInv
<1> SUFFICES ASSUME SignalInit PROVE SignalInv
  OBVIOUS
<1>1. closes = <<>> /\ closes \in Seq(SignalPrices) /\ Len(closes) = 0 /\ looked = 0
      /\ slow \in SlowPeriods
  BY DEF SignalInit
<1>2. slow \in Nat /\ 0 < slow /\ RsiPeriod \in Nat \ {0} /\ RegimePeriod \in Nat \ {0}
      /\ CandleLimit \in Nat \ {0}
  BY <1>1, SignalConstants
<1>3. Seen = <<>>
  <2>1. <<>> \in Seq(Int)
    OBVIOUS
  <2>2. Seen = Older(<<>>, 0)
    BY <1>1 DEF Seen
  <2> QED BY <2>1, <2>2, OlderAll
<1>4. Len(Visible(<<>>)) = 0
  <2>1. ASSUME NEW s \in Seq(Int), Len(s) = 0 PROVE Len(Visible(s)) = 0
    <3>1. Len(Visible(s)) = IF CandleLimit <= Len(s) THEN CandleLimit ELSE Len(s)
      BY VisibleTyped
    <3> QED BY <1>2, <2>1, <3>1
  <2>2. <<>> \in Seq(Int) /\ Len(<<>>) = 0
    OBVIOUS
  <2> QED BY <2>1, <2>2
<1>5. /\ CrossingOf(Visible(<<>>), slow) = "HOLD"
      /\ SwingOf(Visible(<<>>)) = "HOLD"
      /\ RegimeOf(<<>>) = "SIDEWAYS"
  BY <1>2, <1>4 DEF CrossingOf, SwingOf, RegimeOf
<1>6. DecisionOf(crossing, swing, regime, heard) = "HOLD"
  BY DEF SignalInit, DecisionOf
<1> QED BY <1>1, <1>3, <1>5, <1>6 DEF SignalInit, SignalInv

\* Prices are numbers.
LEMMA ClosesTyped == SignalInv => closes \in Seq(Int) /\ closes \in Seq(Nat \ {0})
<1>1. SignalPrices \subseteq Int /\ SignalPrices \subseteq Nat \ {0}
  BY SignalConstants
<1> QED BY <1>1, SeqMonotonic DEF SignalInv

\* A candle changes nothing of what was read, and a run reads all there is.
LEMMA SignalStep == SignalInv /\ [SignalNext]_signalVars => SignalInv'
<1> SUFFICES ASSUME SignalInv, [SignalNext]_signalVars PROVE SignalInv'
  OBVIOUS
<1>0. closes \in Seq(Int) /\ Len(closes) \in Nat /\ looked \in 0 .. Len(closes)
  BY ClosesTyped DEF SignalInv
<1>1. ASSUME NEW price \in SignalPrices, StoreCandle(price) PROVE SignalInv'
  <2>1. price \in Int /\ closes' = <<price>> \o closes /\ UNCHANGED looked
    BY <1>1, SignalConstants DEF StoreCandle
  <2>2. closes' \in Seq(SignalPrices) /\ Len(closes') = Len(closes) + 1
    <3>1. <<price>> \in Seq(SignalPrices) /\ closes \in Seq(SignalPrices)
      BY DEF SignalInv
    <3> QED BY <2>1, <3>1, ConcatProperties
  <2>3. Seen' = Seen
    <3> DEFINE k == Len(closes) - looked
    <3>1. k \in 0 .. Len(closes) /\ Len(closes') - looked' = k + 1
      BY <1>0, <2>1, <2>2
    <3> HIDE DEF k
    <3>2. Older(<<price>> \o closes, k + 1) = Older(closes, k)
      BY <1>0, <2>1, <3>1, OlderStays
    <3>3. Seen' = Older(closes', k + 1)
      BY <3>1 DEF Seen
    <3> QED BY <2>1, <3>2, <3>3 DEF Seen, k
  <2>4. UNCHANGED <<slow, looked, crossing, swing, regime, heard, decision>>
    BY <1>1 DEF StoreCandle
  <2>5. looked' \in 0 .. Len(closes')
    BY <1>0, <2>1, <2>2
  <2> QED BY <2>2, <2>3, <2>4, <2>5 DEF SignalInv
<1>2. ASSUME NEW slots \in SUBSET Slots, Look(slots) PROVE SignalInv'
  <2>1. looked' = Len(closes) /\ UNCHANGED <<slow, closes>>
    BY <1>2 DEF Look
  <2>2. Seen' = closes
    <3>1. Len(closes') - looked' = 0
      BY <1>0, <2>1
    <3>2. Seen' = Older(closes, 0)
      BY <2>1, <3>1 DEF Seen
    <3> QED BY <1>0, <3>2, OlderAll
  <2>3. looked' \in 0 .. Len(closes') /\ closes' \in Seq(SignalPrices)
        /\ slow' \in SlowPeriods
    BY <1>0, <2>1 DEF SignalInv
  <2>4. /\ crossing' = CrossingOf(Visible(closes), slow)
        /\ swing' = SwingOf(Visible(closes))
        /\ regime' = RegimeOf(closes)
        /\ decision' = DecisionOf(crossing', swing', regime', heard')
    BY <1>2 DEF Look
  <2> QED BY <2>1, <2>2, <2>3, <2>4 DEF SignalInv
<1>3. CASE UNCHANGED signalVars
  BY <1>3 DEF SignalInv, signalVars, Seen
<1> QED BY <1>1, <1>2, <1>3 DEF SignalNext

\* What was noted of the newest candle is what the averages did over everything
\* that is stored, as far as the candles read go back.
LEMMA CrossReal == SignalInv => CrossesAreReal
<1> SUFFICES ASSUME SignalInv, looked = Len(closes), looked > slow
             PROVE  /\ crossing = "BUY" => GoldenCross
                    /\ slow < CandleLimit =>
                         /\ GoldenCross => crossing = "BUY"
                         /\ crossing = "SELL" <=> DeadCross
  BY DEF CrossesAreReal
<1> DEFINE v == Visible(closes)
<1>1. closes \in Seq(Int) /\ closes \in Seq(Nat \ {0}) /\ Len(closes) \in Nat
      /\ slow \in SlowPeriods
  BY ClosesTyped DEF SignalInv
<1>2. slow \in Nat \ {0} /\ CandleLimit \in Nat /\ Len(closes) > slow
  BY <1>1, SignalConstants
<1>3. Len(v) = IF CandleLimit <= Len(closes) THEN CandleLimit ELSE Len(closes)
  BY <1>1, VisibleTyped
<1>4. crossing = CrossingOf(v, slow)
  <2>1. Len(closes) - looked = 0
    BY <1>1
  <2>2. Seen = closes
    BY <1>1, <2>1, OlderAll DEF Seen
  <2> QED BY <2>2 DEF SignalInv
<1>5. Ahead(0) = LeadOf(closes, 0, slow) /\ Ahead(1) = LeadOf(closes, 1, slow)
  BY DEF Ahead, LeadOf
<1> HIDE DEF v
<1>6. CASE slow > CandleLimit
  <2>1. Len(v) < slow /\ ~(slow < CandleLimit)
    BY <1>2, <1>3, <1>6
  <2> QED BY <1>4, <2>1 DEF CrossingOf
<1>7. CASE slow = CandleLimit
  <2>1. Len(v) = slow /\ 0 + slow <= Len(v) /\ ~(slow < CandleLimit)
    BY <1>2, <1>3, <1>7
  <2>2. Lead(v, 0, slow) = LeadOf(closes, 0, slow) /\ LeadOf(closes, 0, slow) \in Int
    BY <1>1, <2>1, LeadAsStored DEF v
  <2>3. /\ Lead(v, 1, slow) \in Int /\ LeadOf(closes, 1, slow) \in Int
        /\ LeadOf(closes, 1, slow) <= Lead(v, 1, slow)
    BY <1>1, <1>2, <2>1, LeadTooLarge DEF v
  <2>4. ~(Len(v) < slow)
    BY <1>2, <2>1
  <2> QED BY <1>4, <1>5, <2>1, <2>2, <2>3, <2>4 DEF CrossingOf, GoldenCross
<1>8. CASE slow < CandleLimit
  <2>1. 0 + slow <= Len(v) /\ 1 + slow <= Len(v) /\ ~(Len(v) < slow)
    BY <1>1, <1>2, <1>3, <1>8
  <2>2. Lead(v, 0, slow) = LeadOf(closes, 0, slow) /\ LeadOf(closes, 0, slow) \in Int
    BY <1>1, <2>1, LeadAsStored DEF v
  <2>3. Lead(v, 1, slow) = LeadOf(closes, 1, slow) /\ LeadOf(closes, 1, slow) \in Int
    BY <1>1, <2>1, LeadAsStored DEF v
  <2> QED BY <1>4, <1>5, <2>1, <2>2, <2>3 DEF CrossingOf, GoldenCross, DeadCross
<1> QED BY <1>2, <1>6, <1>7, <1>8

\* Two runs in a row over the same candles see the same; over one more, they do
\* not see the same cross twice, and do not mean the same twice because of it.
LEMMA RereadStep ==
  ASSUME SignalInv, SignalInv', [SignalNext]_signalVars
  PROVE  [LET alone == /\ heard = {"MovingAverage"} /\ heard' = heard
                       /\ EntryThreshold + ThresholdOffset("BULL") > 0
          IN /\ closes' = closes /\ looked = Len(closes) =>
                  crossing' = crossing /\ (heard' = heard => decision' = decision)
             /\ looked' = looked + 1 /\ slow # CandleLimit =>
                  /\ crossing' = "HOLD" \/ crossing' # crossing
                  /\ alone => decision' = "HOLD" \/ decision' # decision]_signalVars
<1> DEFINE Alone == /\ heard = {"MovingAverage"} /\ heard' = heard
                    /\ EntryThreshold + ThresholdOffset("BULL") > 0
           Again == crossing' = crossing /\ (heard' = heard => decision' = decision)
           Single == crossing' = "HOLD" \/ crossing' # crossing
           Once == decision' = "HOLD" \/ decision' # decision
<1>0. closes \in Seq(Int) /\ Len(closes) \in Nat /\ looked \in 0 .. Len(closes)
      /\ slow \in SlowPeriods
  BY ClosesTyped DEF SignalInv
<1>1. ASSUME NEW price \in SignalPrices, StoreCandle(price)
      PROVE  ~(closes' = closes) /\ ~(looked' = looked + 1)
  <2>1. closes' = <<price>> \o closes /\ looked' = looked /\ price \in Int
    BY <1>1, SignalConstants DEF StoreCandle
  <2>2. Len(<<price>> \o closes) = Len(closes) + 1
    BY <1>0, <2>1
  <2> QED BY <1>0, <2>1, <2>2
<1>2. ASSUME NEW slots \in SUBSET Slots, Look(slots), looked = Len(closes) PROVE Again
  <2>1. Seen = closes
    <3>1. Len(closes) - looked = 0
      BY <1>0, <1>2
    <3> QED BY <1>0, <3>1, OlderAll DEF Seen
  <2>2. /\ crossing' = CrossingOf(Visible(closes), slow)
        /\ swing' = SwingOf(Visible(closes)) /\ regime' = RegimeOf(closes)
        /\ decision' = DecisionOf(crossing', swing', regime', heard')
    BY <1>2 DEF Look
  <2>3. crossing' = crossing /\ swing' = swing /\ regime' = regime
    BY <2>1, <2>2 DEF SignalInv
  <2> QED BY <2>2, <2>3 DEF SignalInv
<1>3. ASSUME NEW slots \in SUBSET Slots, Look(slots), looked' = looked + 1,
             slow # CandleLimit
      PROVE  Single
  <2>1. looked' = Len(closes) /\ Len(closes) >= 1 /\ Len(closes) - looked = 1
    BY <1>0, <1>3 DEF Look
  <2>2. Seen = Older(closes, 1)
    BY <2>1 DEF Seen
  <2> DEFINE s == Older(closes, 1)
             price == closes[1]
  <2>3. s \in Seq(Int) /\ price \in Int /\ closes = <<price>> \o s
    BY <1>0, <2>1, OlderRest
  <2>4. /\ crossing = CrossingOf(Visible(s), slow)
        /\ crossing' = CrossingOf(Visible(<<price>> \o s), slow)
    BY <1>3, <2>2, <2>3 DEF Look, SignalInv
  <2> HIDE DEF s, price
  <2> QED BY <1>0, <1>3, <2>3, <2>4, OneCross
<1>4. ASSUME Single, Alone PROVE Once
  <2> SUFFICES ASSUME decision' # "HOLD", decision' = decision PROVE FALSE
    OBVIOUS
  <2>1. crossing \in Actions /\ crossing' \in Actions
        /\ regime \in Regimes /\ regime' \in Regimes
    BY CrossingTyped DEF SignalInv, RegimeOf, Regimes
  <2>2. /\ decision = DecisionOf(crossing, swing, regime, {"MovingAverage"})
        /\ decision' = DecisionOf(crossing', swing', regime', {"MovingAverage"})
    BY <1>4 DEF SignalInv
  <2>3. decision = crossing
    BY <1>4, <2>1, <2>2, HeardAlone
  <2>4. decision' = crossing'
    BY <1>4, <2>1, <2>2, HeardAlone
  <2> QED BY <1>4, <2>3, <2>4
<1>5. CASE SignalNext
  <2>1. closes' = closes /\ looked = Len(closes) => Again
    BY <1>1, <1>2, <1>5 DEF SignalNext
  <2>2. looked' = looked + 1 /\ slow # CandleLimit => Single
    BY <1>1, <1>3, <1>5 DEF SignalNext
  <2> QED BY <1>4, <2>1, <2>2
<1>6. CASE UNCHANGED signalVars
  BY <1>6
<1> QED BY <1>5, <1>6

\* Orders of the moving averages are crosses of the stock, and crosses are such
\* orders, as far as trader_executor.py:265 lets moving_average.py:29-47 see:
\* for any periods, any limit on the candles read and any closes.
THEOREM CrossesReal == SignalSpec => []CrossesAreReal
  BY CrossReal, SignalInitInv, SignalStep, PTL DEF SignalSpec

\* A run that reads the same candles again gets the same order again, and one
\* candle later it is none any more, for any periods but the one that takes all
\* the candles a run reads: the strategy sees the crossing, not the side.
THEOREM RereadsRepeat == SignalSpec => OrdersRepeatOnRereads
<1>1. SignalInv /\ SignalInv' /\ [SignalNext]_signalVars
        => [LET alone == /\ heard = {"MovingAverage"} /\ heard' = heard
                         /\ EntryThreshold + ThresholdOffset("BULL") > 0
            IN /\ closes' = closes /\ looked = Len(closes) =>
                    crossing' = crossing /\ (heard' = heard => decision' = decision)
               /\ looked' = looked + 1 /\ slow # CandleLimit =>
                    /\ crossing' = "HOLD" \/ crossing' # crossing
                    /\ alone => decision' = "HOLD" \/ decision' # decision]_signalVars
  BY RereadStep
<1> QED BY <1>1, SignalInitInv, SignalStep, PTL DEF SignalSpec, OrdersRepeatOnRereads
-----------------------------------------------------------------------------
(* Sorting. *)

\* Of two members one at most comes first, and a third is after the first of
\* them or before the second.
WeakOrder(before, positions) ==
  /\ \A i, j \in positions : ~(<<i, j>> \in before /\ <<j, i>> \in before)
  /\ \A i, j, k \in positions :
       <<i, k>> \in before => <<i, j>> \in before \/ <<j, k>> \in before

\* With equals in place, it becomes a strict order of all of them.
LEMMA PrecedesOrders ==
  ASSUME NEW positions \in SUBSET Int, NEW before, WeakOrder(before, positions)
  PROVE  /\ \A i, j \in positions :
              Precedes(i, j, before) => ~Precedes(j, i, before) /\ i # j
         /\ \A i, j \in positions :
              i # j => Precedes(i, j, before) \/ Precedes(j, i, before)
         /\ \A i, j, k \in positions :
              Precedes(i, j, before) /\ Precedes(j, k, before) => Precedes(i, k, before)
<1>1. ASSUME NEW i \in positions, NEW j \in positions, Precedes(i, j, before)
      PROVE  ~Precedes(j, i, before) /\ i # j
  <2>1. i \in Int /\ j \in Int
    OBVIOUS
  <2> QED BY <1>1, <2>1 DEF Precedes, WeakOrder
<1>2. ASSUME NEW i \in positions, NEW j \in positions, i # j
      PROVE  Precedes(i, j, before) \/ Precedes(j, i, before)
  <2>1. i < j \/ j < i
    BY <1>2
  <2> QED BY <2>1 DEF Precedes
<1>3. ASSUME NEW i \in positions, NEW j \in positions, NEW k \in positions,
             Precedes(i, j, before), Precedes(j, k, before)
      PROVE  Precedes(i, k, before)
  <2>1. i < j /\ j < k => i < k
    OBVIOUS
  <2>2. <<i, j>> \in before => <<k, j>> \in before \/ <<i, k>> \in before
    BY DEF WeakOrder
  <2>3. <<j, k>> \in before => <<j, i>> \in before \/ <<i, k>> \in before
    BY DEF WeakOrder
  <2>4. <<k, i>> \in before => <<k, j>> \in before \/ <<j, i>> \in before
    BY DEF WeakOrder
  <2>5. ~(<<i, j>> \in before /\ <<j, i>> \in before)
        /\ ~(<<j, k>> \in before /\ <<k, j>> \in before)
    BY DEF WeakOrder
  <2> QED BY <1>3, <2>1, <2>2, <2>3, <2>4, <2>5 DEF Precedes
<1> QED BY <1>1, <1>2, <1>3

\* sort() loses nothing, adds nothing and leaves nothing out of order.
LEMMA SortedSorts ==
  ASSUME NEW positions \in SUBSET Int, IsFiniteSet(positions),
         NEW before, WeakOrder(before, positions)
  PROVE  LET s == Sorted(positions, before)
             n == Cardinality(positions)
         IN  /\ n \in Nat /\ s \in [1 .. n -> positions]
             /\ \A i \in positions : \E k \in 1 .. n : s[k] = i
             /\ \A k, m \in 1 .. n : k < m => Precedes(s[k], s[m], before)
             /\ \A k, m \in 1 .. n : s[k] = s[m] => k = m
<1> DEFINE n == Cardinality(positions)
           s == Sorted(positions, before)
           Below(i) == {j \in positions : Precedes(j, i, before)}
           f == [i \in positions |-> Cardinality(Below(i))]
<1>0. n \in Nat
  BY FS_CardinalityType
<1>1. ASSUME NEW i \in positions
      PROVE  IsFiniteSet(Below(i)) /\ Cardinality(Below(i)) \in 0 .. n - 1
  <2>1. Below(i) \in SUBSET positions /\ Below(i) # positions
    BY PrecedesOrders
  <2>2. /\ IsFiniteSet(Below(i)) /\ Cardinality(Below(i)) <= n
        /\ Cardinality(Below(i)) # n
    <3> HIDE DEF Below
    <3> QED BY <2>1, FS_Subset
  <2>3. Cardinality(Below(i)) \in Nat
    BY <2>2, FS_CardinalityType
  <2> HIDE DEF Below, n
  <2> QED BY <1>0, <2>2, <2>3
<1>2. ASSUME NEW i \in positions, NEW j \in positions, Precedes(i, j, before)
      PROVE  f[i] < f[j]
  <2>1. Below(i) \in SUBSET Below(j) /\ Below(i) # Below(j)
    BY <1>2, PrecedesOrders
  <2>2. /\ Cardinality(Below(i)) <= Cardinality(Below(j))
        /\ Cardinality(Below(i)) # Cardinality(Below(j))
    <3>1. IsFiniteSet(Below(j))
      BY <1>1
    <3> HIDE DEF Below
    <3> QED BY <2>1, <3>1, FS_Subset
  <2>3. Cardinality(Below(i)) \in Int /\ Cardinality(Below(j)) \in Int
    <3>1. Cardinality(Below(i)) \in 0 .. n - 1 /\ Cardinality(Below(j)) \in 0 .. n - 1
      BY <1>1
    <3> HIDE DEF Below, n
    <3> QED BY <3>1
  <2> HIDE DEF Below
  <2> QED BY <2>2, <2>3
<1>3. f \in [positions -> 0 .. n - 1]
  <2> HIDE DEF Below, n
  <2> QED BY <1>1
<1>4. \A i, j \in positions : f[i] = f[j] => i = j
  <2> SUFFICES ASSUME NEW i \in positions, NEW j \in positions, f[i] = f[j], i # j
               PROVE  FALSE
    OBVIOUS
  <2>1. f[i] < f[j] \/ f[j] < f[i]
    BY <1>2, PrecedesOrders
  <2>2. f[i] \in Int /\ f[j] \in Int
    BY <1>3, <1>0
  <2> HIDE DEF f
  <2> QED BY <2>1, <2>2
<1>5. \A k \in 0 .. n - 1 : \E i \in positions : f[i] = k
  <2> HIDE DEF f
  <2>1. f \in Injection(positions, 0 .. n - 1)
    BY <1>3, <1>4 DEF Injection, IsInjective
  <2>2. IsFiniteSet(0 .. n - 1) /\ Cardinality(0 .. n - 1) = n
    <3> HIDE DEF n
    <3> QED BY <1>0, FS_Interval
  <2>3. f \in Surjection(positions, 0 .. n - 1)
    BY <2>1, <2>2, FS_Injection
  <2> QED BY <2>3 DEF Surjection
<1>6. ASSUME NEW k \in 1 .. n PROVE s[k] \in positions /\ f[s[k]] = k - 1
  <2>1. k - 1 \in 0 .. n - 1
    BY <1>0
  <2>2. \E i \in positions : Cardinality(Below(i)) = k - 1
    BY <1>5, <2>1
  <2>3. s[k] = CHOOSE i \in positions : Cardinality(Below(i)) = k - 1
    BY DEF Sorted
  <2> DEFINE t == s[k]
  <2>4. t \in positions /\ Cardinality(Below(t)) = k - 1
    <3> HIDE DEF Below, s
    <3> QED BY <2>2, <2>3
  <2> QED BY <2>4
<1>7. s \in [1 .. n -> positions]
  BY <1>6 DEF Sorted
<1> HIDE DEF s, n
<1>8. ASSUME NEW i \in positions PROVE \E k \in 1 .. n : s[k] = i
  <2>1. f[i] \in 0 .. n - 1
    BY <1>3
  <2> HIDE DEF f
  <2>2. f[i] + 1 \in 1 .. n /\ (f[i] + 1) - 1 = f[i]
    BY <1>0, <2>1
  <2>3. s[f[i] + 1] \in positions /\ f[s[f[i] + 1]] = f[i]
    BY <1>6, <2>2
  <2> QED BY <1>4, <2>2, <2>3
<1>9. ASSUME NEW k \in 1 .. n, NEW m \in 1 .. n, k < m
      PROVE  Precedes(s[k], s[m], before)
  <2>1. s[k] \in positions /\ s[m] \in positions /\ f[s[k]] = k - 1 /\ f[s[m]] = m - 1
    BY <1>6
  <2>2. ~(m - 1 < k - 1) /\ k - 1 # m - 1
    BY <1>0, <1>9
  <2>3. s[k] # s[m]
    BY <2>1, <2>2
  <2>4. ~Precedes(s[m], s[k], before)
    BY <1>2, <2>1, <2>2
  <2> QED BY <2>1, <2>3, <2>4, PrecedesOrders
<1>10. ASSUME NEW k \in 1 .. n, NEW m \in 1 .. n, s[k] = s[m] PROVE k = m
  <2>1. k - 1 = m - 1
    BY <1>6, <1>10
  <2> QED BY <1>0, <2>1
<1> QED BY <1>0, <1>7, <1>8, <1>9, <1>10 DEF s, n
-----------------------------------------------------------------------------
(* Selecting. *)

\* Factors that are not negative keep the order, positive ones tell it.
LEMMA Factor ==
  ASSUME NEW x \in Int, NEW y \in Int, NEW z \in Nat
  PROVE  /\ x <= y => x * z <= y * z
         /\ z # 0 /\ x * z <= y * z => x <= y
<1>1. ASSUME x <= y PROVE x * z <= y * z
  <2>1. (y - x) * z >= 0
    BY <1>1
  <2>2. (y - x) * z = y * z - x * z
    OBVIOUS
  <2>3. x * z \in Int /\ y * z \in Int
    OBVIOUS
  <2> QED BY <2>1, <2>2, <2>3
<1>2. ASSUME z # 0, x * z <= y * z, ~(x <= y) PROVE FALSE
  <2>1. (x - y) * z > 0
    BY <1>2
  <2>2. (x - y) * z = x * z - y * z
    OBVIOUS
  <2>3. x * z \in Int /\ y * z \in Int
    OBVIOUS
  <2> QED BY <1>2, <2>1, <2>2, <2>3
<1> QED BY <1>1, <1>2

StockSnapshots ==
  [stock : Candidates, turnover : Nat, volume : Nat, price : Nat \ {0},
   base : Nat \ {0}, volatility : Nat]

\* Growth is compared across, so that being no stronger carries over.
LEMMA StrongerIsOrder ==
  ASSUME NEW a \in StockSnapshots, NEW b \in StockSnapshots, NEW c \in StockSnapshots
  PROVE  /\ ~(Stronger(a, b) /\ Stronger(b, a))
         /\ Stronger(a, c) => Stronger(a, b) \/ Stronger(b, c)
<1> DEFINE ap == a.price  bp == b.price  cp == c.price
           ab == a.base   bb == b.base   cb == c.base
<1>1. /\ ap \in Nat /\ bp \in Nat /\ cp \in Nat
      /\ ab \in Nat /\ bb \in Nat /\ cb \in Nat /\ bb # 0
  BY DEF StockSnapshots
<1>2. /\ Stronger(a, b) <=> ap * bb > bp * ab
      /\ Stronger(b, a) <=> bp * ab > ap * bb
      /\ Stronger(a, c) <=> ap * cb > cp * ab
      /\ Stronger(b, c) <=> bp * cb > cp * bb
  BY DEF Stronger
<1> HIDE DEF ap, bp, cp, ab, bb, cb
<1>3. /\ ap * bb \in Int /\ bp * ab \in Int /\ ap * cb \in Int /\ cp * ab \in Int
      /\ bp * cb \in Int /\ cp * bb \in Int
  BY <1>1
<1>4. ASSUME ap * bb <= bp * ab, bp * cb <= cp * bb PROVE ap * cb <= cp * ab
  <2>1. (ap * bb) * cb <= (bp * ab) * cb
    BY <1>1, <1>3, <1>4, Factor
  <2>2. (bp * cb) * ab <= (cp * bb) * ab
    BY <1>1, <1>3, <1>4, Factor
  <2>3. /\ (ap * bb) * cb = (ap * cb) * bb /\ (bp * ab) * cb = (bp * cb) * ab
        /\ (cp * bb) * ab = (cp * ab) * bb
    BY <1>1
  <2>4. /\ (ap * cb) * bb \in Int /\ (bp * cb) * ab \in Int /\ (cp * ab) * bb \in Int
    BY <1>1
  <2>5. (ap * cb) * bb <= (cp * ab) * bb
    BY <2>1, <2>2, <2>3, <2>4
  <2> QED BY <1>1, <1>3, <2>5, Factor
<1>5. ~(ap * bb > bp * ab /\ bp * ab > ap * bb)
  BY <1>3
<1>6. ap * cb > cp * ab => ap * bb > bp * ab \/ bp * cb > cp * bb
  BY <1>3, <1>4
<1> QED BY <1>2, <1>5, <1>6

\* The snapshots by momentum and by turnover, falling and rising
LEMMA Orders ==
  ASSUME snapshots \in Seq(StockSnapshots)
  PROVE  /\ WeakOrder(ByMomentum, DOMAIN snapshots)
         /\ WeakOrder(Rising(ByMomentum), DOMAIN snapshots)
         /\ WeakOrder(Rising(ByTurnover), DOMAIN snapshots)
         /\ \A i, j \in DOMAIN snapshots :
              /\ <<i, j>> \in ByMomentum <=> Stronger(snapshots[i], snapshots[j])
              /\ <<i, j>> \in Rising(ByMomentum) <=> Stronger(snapshots[j], snapshots[i])
              /\ <<i, j>> \in Rising(ByTurnover)
                   <=> snapshots[j].turnover > snapshots[i].turnover
<1> DEFINE D == DOMAIN snapshots
<1>1. \A i \in D : snapshots[i] \in StockSnapshots /\ snapshots[i].turnover \in Int
  <2>1. \A i \in D : snapshots[i] \in StockSnapshots
    OBVIOUS
  <2> QED BY <2>1 DEF StockSnapshots
<1>2. ASSUME NEW i \in D, NEW j \in D
      PROVE  /\ <<i, j>> \in ByMomentum <=> Stronger(snapshots[i], snapshots[j])
             /\ <<i, j>> \in ByTurnover <=> snapshots[i].turnover > snapshots[j].turnover
  BY DEF ByMomentum, ByTurnover
<1>3. ASSUME NEW i, NEW j
      PROVE  /\ <<i, j>> \in Rising(ByMomentum) <=> <<j, i>> \in ByMomentum
             /\ <<i, j>> \in Rising(ByTurnover) <=> <<j, i>> \in ByTurnover
  BY DEF Rising, ByMomentum, ByTurnover
<1>4. ASSUME NEW i \in D, NEW j \in D
      PROVE  /\ <<i, j>> \in ByMomentum <=> Stronger(snapshots[i], snapshots[j])
             /\ <<i, j>> \in Rising(ByMomentum) <=> Stronger(snapshots[j], snapshots[i])
             /\ <<i, j>> \in Rising(ByTurnover)
                  <=> snapshots[j].turnover > snapshots[i].turnover
  BY <1>2, <1>3
<1> HIDE DEF D
<1>5. \A i, j, k \in D :
        /\ ~(Stronger(snapshots[i], snapshots[j]) /\ Stronger(snapshots[j], snapshots[i]))
        /\ Stronger(snapshots[i], snapshots[k])
             => Stronger(snapshots[i], snapshots[j]) \/ Stronger(snapshots[j], snapshots[k])
  BY <1>1, StrongerIsOrder
<1>6. WeakOrder(ByMomentum, D) /\ WeakOrder(Rising(ByMomentum), D)
  BY <1>4, <1>5 DEF WeakOrder
<1>7. WeakOrder(Rising(ByTurnover), D)
  BY <1>1, <1>4 DEF WeakOrder
<1> QED BY <1>4, <1>6, <1>7 DEF D

\* What is true of all snapshots is of those that pass.
LEMMA OrderOfSome ==
  ASSUME NEW before, NEW D, NEW S \in SUBSET D, WeakOrder(before, D)
  PROVE  WeakOrder(before, S)
  BY DEF WeakOrder

\* The first TopK of a list, or all of a shorter one
LEMMA FirstOfList ==
  ASSUME NEW P, NEW s \in Seq(P)
  PROVE  LET t == FirstTopK(s) IN
         /\ t \in Seq(P) /\ Len(t) <= TopK /\ Len(t) <= Len(s)
         /\ Len(t) < Len(s) => Len(t) = TopK
         /\ \A k \in 1 .. Len(t) : t[k] = s[k]
<1> DEFINE m == IF Len(s) <= TopK THEN Len(s) ELSE TopK
<1>1. TopK \in Nat /\ Len(s) \in Nat
  BY SelectionConstants
<1>2. m \in Nat /\ m <= TopK /\ m <= Len(s) /\ (m < Len(s) => m = TopK)
  BY <1>1
<1>3. FirstTopK(s) = SubSeq(s, 1, m)
  BY DEF FirstTopK
<1> HIDE DEF m
<1>4. SubSeq(s, 1, m) \in Seq(P) /\ Len(SubSeq(s, 1, m)) = m
      /\ \A k \in 1 .. m : SubSeq(s, 1, m)[k] = s[k]
  BY <1>1, <1>2
<1> QED BY <1>2, <1>3, <1>4

\* What a selection returns: each of those that pass once at most, as many as
\* there is room for, and none of the rest better.
LEMMA Chosen ==
  ASSUME snapshots \in Seq(StockSnapshots)
  PROVE  LET s == SelectCandidates
             fit == {i \in DOMAIN snapshots : IsEntryWindow /\ PassesFilters(snapshots[i])}
         IN  /\ s \in Seq(DOMAIN snapshots) /\ Len(s) <= TopK
             /\ IsInjective(s) /\ ToSet(s) \subseteq fit
             /\ \A i \in fit \ ToSet(s) :
                  Len(s) = TopK
                    /\ \A j \in ToSet(s) : ~Stronger(snapshots[i], snapshots[j])
<1> DEFINE s == SelectCandidates
           D == DOMAIN snapshots
           fit == {i \in D : IsEntryWindow /\ PassesFilters(snapshots[i])}
<1>1. D \in SUBSET Int /\ IsFiniteSet(D)
  <2>1. D = 1 .. Len(snapshots) /\ Len(snapshots) \in Nat
    OBVIOUS
  <2> QED BY <2>1, FS_Interval
<1>2. CASE ~IsEntryWindow
  <2>1. s = <<>> /\ fit = {}
    BY <1>2 DEF SelectCandidates
  <2>2. <<>> \in Seq(D) /\ Len(<<>>) = 0 /\ ToSet(<<>>) = {} /\ IsInjective(<<>>)
    BY DEF ToSet, IsInjective
  <2>3. TopK \in Nat
    BY SelectionConstants
  <2> QED BY <2>1, <2>2, <2>3
<1>3. CASE IsEntryWindow
  <2> DEFINE all == Sorted(fit, ByMomentum)
             n == Cardinality(fit)
  <2>1. fit \in SUBSET D /\ fit \in SUBSET Int /\ IsFiniteSet(fit)
    BY <1>1, FS_Subset
  <2>2. s = FirstTopK(all)
    <3>1. fit = {i \in D : PassesFilters(snapshots[i])}
      BY <1>3
    <3> QED BY <1>3, <3>1 DEF SelectCandidates
  <2>3. WeakOrder(ByMomentum, fit)
    BY <2>1, Orders, OrderOfSome
  <2> HIDE DEF s
  <2>4. \A i \in fit : i \in D
    OBVIOUS
  <2> DEFINE F == fit
  <2>5. /\ n \in Nat /\ all \in [1 .. n -> F]
        /\ \A i \in F : \E k \in 1 .. n : all[k] = i
        /\ \A k, m \in 1 .. n : k < m => Precedes(all[k], all[m], ByMomentum)
        /\ \A k, m \in 1 .. n : all[k] = all[m] => k = m
    <3> HIDE DEF fit
    <3> QED BY <2>1, <2>3, SortedSorts
  <2> HIDE DEF all, n, fit
  <2>6. all \in Seq(F) /\ Len(all) = n
    BY <2>5
  <2>7. /\ s \in Seq(F) /\ Len(s) <= TopK /\ Len(s) <= n /\ Len(s) \in Nat
        /\ Len(s) < n => Len(s) = TopK
        /\ \A k \in 1 .. Len(s) : s[k] = all[k]
        /\ DOMAIN s = 1 .. Len(s)
    BY <2>2, <2>6, FirstOfList
  <2>8. s \in Seq(D)
    BY <2>1, <2>7, SeqMonotonic
  <2>9. ToSet(s) = {s[k] : k \in 1 .. Len(s)} /\ ToSet(s) \subseteq fit
    BY <2>7 DEF ToSet
  <2>10. IsInjective(s)
    <3>1. \A k, m \in 1 .. Len(s) : k \in 1 .. n /\ m \in 1 .. n
      BY <2>5, <2>7
    <3> QED BY <2>5, <2>7, <3>1 DEF IsInjective
  <2>11. ASSUME NEW i \in fit, i \notin ToSet(s)
         PROVE  /\ Len(s) = TopK
                /\ \A j \in ToSet(s) : ~Stronger(snapshots[i], snapshots[j])
    <3>1. PICK m \in 1 .. n : all[m] = i
      BY <2>5, <2>11
    <3>2. m \notin 1 .. Len(s)
      BY <2>7, <2>9, <2>11, <3>1
    <3>3. m > Len(s) /\ Len(s) < n
      BY <2>5, <2>7, <3>2
    <3>4. ASSUME NEW j \in ToSet(s) PROVE ~Stronger(snapshots[i], snapshots[j])
      <4>1. PICK k \in 1 .. Len(s) : s[k] = j
        BY <2>9
      <4>2. k \in 1 .. n /\ k < m /\ all[k] = j
        BY <2>5, <2>7, <3>3, <4>1
      <4>3. Precedes(j, i, ByMomentum) /\ i \in D /\ j \in D
        BY <2>4, <2>5, <2>9, <3>1, <4>2, <2>11
      <4>4. ~(<<i, j>> \in ByMomentum)
        BY <4>3, Orders DEF Precedes, WeakOrder
      <4> QED BY <4>3, <4>4, Orders
    <3> QED BY <2>7, <3>3, <3>4
  <2> QED BY <2>7, <2>8, <2>9, <2>10, <2>11 DEF s, fit
<1> QED BY <1>2, <1>3

\* Ranks rise with the momentum.
LEMMA RanksRise ==
  ASSUME snapshots \in Seq(StockSnapshots),
         NEW i \in DOMAIN snapshots, NEW j \in DOMAIN snapshots,
         Stronger(snapshots[i], snapshots[j])
  PROVE  Rank[i] > Rank[j]
<1> DEFINE D == DOMAIN snapshots
           rising == Sorted(D, Rising(ByMomentum))
           n == Cardinality(D)
           At(p) == CHOOSE k \in DOMAIN rising : rising[k] = p
<1>1. D \in SUBSET Int /\ IsFiniteSet(D)
  <2>1. D = 1 .. Len(snapshots) /\ Len(snapshots) \in Nat
    OBVIOUS
  <2> QED BY <2>1, FS_Interval
<1>2. /\ n \in Nat /\ rising \in [1 .. n -> D]
      /\ \A p \in D : \E k \in 1 .. n : rising[k] = p
      /\ \A k, m \in 1 .. n : k < m => Precedes(rising[k], rising[m], Rising(ByMomentum))
  <2>1. WeakOrder(Rising(ByMomentum), D)
    BY Orders
  <2> HIDE DEF D
  <2> QED BY <1>1, <2>1, SortedSorts
<1>3. Rank[i] = At(i) - 1 /\ Rank[j] = At(j) - 1
  BY DEF Rank
<1> HIDE DEF rising, n
<1>4. /\ At(i) \in 1 .. n /\ rising[At(i)] = i
      /\ At(j) \in 1 .. n /\ rising[At(j)] = j
  BY <1>2
<1> HIDE DEF At
<1>5. ~(At(i) < At(j))
  <2> SUFFICES ASSUME At(i) < At(j) PROVE FALSE
    OBVIOUS
  <2>1. Precedes(i, j, Rising(ByMomentum))
    BY <1>2, <1>4
  <2>2. <<j, i>> \in Rising(ByMomentum) /\ <<i, j>> \notin Rising(ByMomentum)
    BY Orders DEF WeakOrder
  <2> QED BY <2>1, <2>2 DEF Precedes
<1>6. i # j
  <2>1. snapshots[i] \in StockSnapshots
    OBVIOUS
  <2> QED BY <2>1, StrongerIsOrder
<1>7. At(i) # At(j)
  BY <1>4, <1>6
<1> QED BY <1>2, <1>3, <1>4, <1>5, <1>7

\* No stock that is streamed turns over less than one that is not.
LEMMA HotTurnOver ==
  ASSUME snapshots \in Seq(StockSnapshots),
         NEW i \in DOMAIN snapshots, i \notin ToSet(SelectHotSymbols),
         NEW j \in ToSet(SelectHotSymbols)
  PROVE  snapshots[i].turnover <= snapshots[j].turnover
<1> DEFINE D == DOMAIN snapshots
           rising == Sorted(D, Rising(ByTurnover))
           n == Cardinality(D)
           falling == Reverse(rising)
           hottest == FirstTopK(falling)
<1>1. D \in SUBSET Int /\ IsFiniteSet(D)
  <2>1. D = 1 .. Len(snapshots) /\ Len(snapshots) \in Nat
    OBVIOUS
  <2> QED BY <2>1, FS_Interval
<1>2. /\ n \in Nat /\ rising \in [1 .. n -> D]
      /\ \A p \in D : \E k \in 1 .. n : rising[k] = p
      /\ \A k, m \in 1 .. n : k < m => Precedes(rising[k], rising[m], Rising(ByTurnover))
  <2>1. WeakOrder(Rising(ByTurnover), D)
    BY Orders
  <2> HIDE DEF D
  <2> QED BY <1>1, <2>1, SortedSorts
<1>3. hottest = SelectHotSymbols
  BY DEF SelectHotSymbols
<1> HIDE DEF rising, n
<1>4. /\ falling \in Seq(D) /\ Len(falling) = n
      /\ \A k \in 1 .. n : falling[k] = rising[(n - k) + 1]
  <2>1. rising \in Seq(D) /\ Len(rising) = n
    BY <1>2
  <2>2. falling = [k \in 1 .. n |-> rising[(n - k) + 1]]
    BY <2>1 DEF Reverse
  <2>3. \A k \in 1 .. n : (n - k) + 1 \in 1 .. n
    BY <1>2
  <2> HIDE DEF falling, D
  <2>4. falling \in [1 .. n -> D]
    BY <1>2, <2>2, <2>3
  <2> QED BY <1>2, <2>2, <2>4
<1> HIDE DEF falling
<1>5. /\ Len(hottest) \in Nat /\ Len(hottest) <= n
      /\ DOMAIN hottest = 1 .. Len(hottest)
      /\ \A k \in 1 .. Len(hottest) : hottest[k] = falling[k]
  BY <1>4, FirstOfList
<1> HIDE DEF hottest
<1>6. ToSet(SelectHotSymbols) = {hottest[k] : k \in 1 .. Len(hottest)}
  BY <1>3, <1>5 DEF ToSet
<1>7. PICK k \in 1 .. Len(hottest) : hottest[k] = j
  BY <1>6
<1>8. PICK m \in 1 .. n : rising[m] = i
  BY <1>2
<1>9. /\ k \in 1 .. n /\ (n - k) + 1 \in 1 .. n /\ rising[(n - k) + 1] = j
  <2>1. k \in 1 .. n
    BY <1>2, <1>5
  <2>2. (n - k) + 1 \in 1 .. n
    BY <1>2, <2>1
  <2>3. hottest[k] = falling[k] /\ falling[k] = rising[(n - k) + 1]
    BY <1>4, <1>5, <2>1
  <2> QED BY <1>7, <2>1, <2>2, <2>3
<1>10. m < (n - k) + 1
  <2> SUFFICES ASSUME ~(m < (n - k) + 1) PROVE FALSE
    OBVIOUS
  <2> DEFINE q == (n - m) + 1
  <2>1. q \in 1 .. Len(hottest) /\ q \in 1 .. n /\ (n - q) + 1 = m
    BY <1>2, <1>5, <1>9
  <2> HIDE DEF q
  <2>2. hottest[q] = i
    BY <1>4, <1>5, <1>8, <2>1
  <2> QED BY <1>6, <2>1, <2>2
<1>11. Precedes(i, j, Rising(ByTurnover)) /\ j \in D
  BY <1>2, <1>8, <1>9, <1>10
<1>12. ~(<<j, i>> \in Rising(ByTurnover))
  BY <1>11, Orders DEF Precedes, WeakOrder
<1>13. snapshots[i].turnover \in Int /\ snapshots[j].turnover \in Int
  <2>1. \A p \in D : snapshots[p] \in StockSnapshots
    OBVIOUS
  <2>2. \A t \in StockSnapshots : t.turnover \in Int
    BY DEF StockSnapshots
  <2> HIDE DEF D
  <2> QED BY <1>11, <2>1, <2>2 DEF D
<1>14. ~(snapshots[i].turnover > snapshots[j].turnover)
  BY <1>11, <1>12, Orders
<1> QED BY <1>13, <1>14
-----------------------------------------------------------------------------
(* Sizing. *)

\* A quotient is the most that goes into the dividend.
LEMMA Quotient ==
  ASSUME NEW x \in Nat, NEW d \in Nat \ {0}
  PROVE  /\ x \div d \in Nat
         /\ (x \div d) * d <= x
         /\ \A n \in Int : n * d <= x => n <= x \div d
<1> DEFINE q == x \div d
           r == x % d
<1>1. q \in Int /\ r \in 0 .. d - 1 /\ x = d * q + r
  OBVIOUS
<1> HIDE DEF q, r
<1>2. q * d <= x /\ q * d > x - d
  BY <1>1
<1>3. q \in Nat
  <2> SUFFICES ASSUME q < 0 PROVE FALSE
    BY <1>1
  <2>1. (q + 1) * d <= 0 * d
    <3>1. q + 1 \in Int /\ 0 \in Int /\ q + 1 <= 0 /\ d \in Nat
      BY <1>1
    <3> QED BY <3>1, Factor
  <2>2. (q + 1) * d = q * d + d /\ 0 * d = 0 /\ q * d \in Int
    BY <1>1
  <2> QED BY <1>2, <2>1, <2>2
<1>4. ASSUME NEW n \in Int, n * d <= x, ~(n <= q) PROVE FALSE
  <2>1. (q + 1) * d <= n * d
    <3>1. q + 1 \in Int /\ q + 1 <= n /\ d \in Nat
      BY <1>1, <1>4
    <3> QED BY <3>1, Factor
  <2>2. (q + 1) * d = q * d + d /\ q * d \in Int /\ n * d \in Int
    BY <1>1
  <2> QED BY <1>2, <1>4, <2>1, <2>2
<1> QED BY <1>2, <1>3, <1>4 DEF q

\* It rises with the ratio.
LEMMA QuotientRises ==
  ASSUME NEW x \in Nat, NEW y \in Nat, NEW d \in Nat \ {0}, NEW e \in Nat \ {0},
         x * e <= y * d
  PROVE  x \div d <= y \div e
<1> DEFINE q == x \div d
<1>1. q \in Nat /\ q * d <= x
  BY Quotient
<1> HIDE DEF q
<1>2. (q * d) * e <= x * e
  <2>1. q * d \in Int /\ e \in Nat
    BY <1>1
  <2> QED BY <1>1, <2>1, Factor
<1>3. (q * e) * d <= y * d
  <2>1. (q * d) * e = (q * e) * d /\ (q * d) * e \in Int /\ x * e \in Int /\ y * d \in Int
    BY <1>1
  <2> QED BY <1>2, <2>1
<1>4. q * e <= y
  <2>1. q * e \in Int /\ y \in Int /\ d \in Nat /\ d # 0
    BY <1>1
  <2> QED BY <1>3, <2>1, Factor
<1>5. q <= y \div e
  BY <1>1, <1>4, Quotient
<1> QED BY <1>5 DEF q

\* The advantage grows with the odds; an edge is an advantage over the costs.
LEMMA AdvantageGrows ==
  ASSUME NEW p \in 0 .. Unit, NEW q \in 0 .. Unit, p <= q
  PROVE  /\ Advantage(p) \in Int /\ Advantage(p) <= Advantage(q)
         /\ HasEdge(p) => HasEdge(q) /\ Advantage(p) > TradeCost * Unit
<1>1. /\ Unit \in Nat /\ UpperGain \in Nat /\ LowerLoss \in Nat /\ TradeCost \in Nat
      /\ p \in Int /\ q \in Int
  BY SizingConstants
<1> DEFINE sum == UpperGain + LowerLoss
<1>2. /\ Advantage(p) = p * sum - Unit * LowerLoss
      /\ Advantage(q) = q * sum - Unit * LowerLoss
  BY <1>1 DEF Advantage
<1>3. /\ p * sum \in Int /\ q * sum \in Int /\ sum \in Nat /\ Unit * LowerLoss \in Int
      /\ TradeCost * Unit \in Int
      /\ (LowerLoss + TradeCost) * Unit = Unit * LowerLoss + TradeCost * Unit
  BY <1>1
<1>4. HasEdge(p) <=> sum > 0 /\ p * sum > (LowerLoss + TradeCost) * Unit
  BY DEF HasEdge
<1>5. HasEdge(q) <=> sum > 0 /\ q * sum > (LowerLoss + TradeCost) * Unit
  BY DEF HasEdge
<1> HIDE DEF sum
<1>6. p * sum <= q * sum
  BY <1>1, <1>3, Factor
<1> QED BY <1>2, <1>3, <1>4, <1>5, <1>6

\* Better odds never get fewer shares of the Kelly fraction.
LEMMA KellyGrows ==
  ASSUME NEW capital \in Nat, NEW price \in Nat \ {0},
         NEW p \in 0 .. Unit, NEW q \in 0 .. Unit, p <= q
  PROVE  /\ KellyShares(capital, price, p) \in Nat
         /\ KellyShares(capital, price, p) <= KellyShares(capital, price, q)
<1> DEFINE A == Advantage(p)
           B == Advantage(q)
           full == UpperGain * Unit
           one == Unit * price
           all == capital * KellyFraction
           d == UpperGain * Unit * Unit * price
<1>1. A \in Int /\ B \in Int /\ A <= B
  <2>1. q <= q
    BY SizingConstants
  <2> QED BY <2>1, AdvantageGrows
<1>2. /\ Unit \in Nat \ {0} /\ KellyFraction \in Nat /\ UpperGain \in Nat
      /\ capital \in Nat /\ price \in Nat \ {0}
  BY SizingConstants
<1>3. full \in Nat /\ one \in Nat \ {0} /\ all \in Nat
  BY <1>2
<1>4. CASE UpperGain = 0 \/ LowerLoss = 0 \/ A <= 0
  <2>1. KellyShares(capital, price, p) = 0
    BY <1>4 DEF KellyShares
  <2>2. KellyShares(capital, price, q) \in Nat
    <3>1. CASE UpperGain = 0 \/ LowerLoss = 0 \/ B <= 0
      BY <3>1 DEF KellyShares
    <3>2. CASE ~(UpperGain = 0 \/ LowerLoss = 0 \/ B <= 0) /\ B >= full
      <4>1. KellyShares(capital, price, q) = all \div one
        BY <3>2 DEF KellyShares
      <4> HIDE DEF all, one
      <4> QED BY <1>3, <4>1, Quotient
    <3>3. CASE ~(UpperGain = 0 \/ LowerLoss = 0 \/ B <= 0) /\ ~(B >= full)
      <4>1. KellyShares(capital, price, q) = (capital * B * KellyFraction) \div d
        BY <3>3 DEF KellyShares
      <4>2. B \in Nat
        BY <1>1, <3>3
      <4>3. capital * B * KellyFraction \in Nat /\ d \in Nat \ {0}
        <5> HIDE DEF B
        <5> QED BY <1>2, <3>3, <4>2
      <4> HIDE DEF d, B
      <4> QED BY <4>1, <4>3, Quotient
    <3> QED BY <3>1, <3>2, <3>3
  <2> QED BY <2>1, <2>2
<1>5. CASE ~(UpperGain = 0 \/ LowerLoss = 0 \/ A <= 0)
  <2>1. A \in Nat /\ B \in Nat /\ ~(B <= 0) /\ UpperGain # 0 /\ LowerLoss # 0
    BY <1>1, <1>5
  <2> HIDE DEF A, B
  <2>2. /\ capital * A * KellyFraction \in Nat /\ capital * B * KellyFraction \in Nat
        /\ d \in Nat \ {0}
        /\ d = one * full /\ capital * A * KellyFraction = all * A
        /\ capital * B * KellyFraction = all * B
    BY <1>2, <2>1
  <2>3. KellyShares(capital, price, p)
          = IF A >= full THEN all \div one ELSE (capital * A * KellyFraction) \div d
    BY <1>5 DEF KellyShares, A
  <2>4. KellyShares(capital, price, q)
          = IF B >= full THEN all \div one ELSE (capital * B * KellyFraction) \div d
    BY <2>1 DEF KellyShares, B
  <2> DEFINE x == capital * A * KellyFraction
             y == capital * B * KellyFraction
  <2>5. x = all * A /\ y = all * B /\ x \in Nat /\ y \in Nat /\ d = one * full
        /\ d \in Nat \ {0}
    BY <2>2
  <2> HIDE DEF x, y, d, all, one, full
  <2>6. all \div one \in Nat /\ x \div d \in Nat /\ y \div d \in Nat
    BY <1>3, <2>5, Quotient
  <2>7. x \div d <= y \div d
    <3>1. A * all <= B * all
      BY <1>1, <1>3, Factor
    <3>2. x * d <= y * d
      <4>1. x <= y /\ x \in Int /\ y \in Int /\ d \in Nat
        BY <1>1, <1>3, <2>5, <3>1
      <4> QED BY <4>1, Factor
    <3> QED BY <2>5, <3>2, QuotientRises
  <2>8. ~(A >= full) => x \div d <= all \div one
    <3> SUFFICES ASSUME ~(A >= full) PROVE x \div d <= all \div one
      OBVIOUS
    <3>1. A * (all * one) <= full * (all * one)
      <4>1. A <= full /\ A \in Int /\ full \in Int /\ all * one \in Nat
        BY <1>1, <1>3
      <4> QED BY <4>1, Factor
    <3>2. x * one <= all * d
      <4>1. x * one = A * (all * one) /\ all * d = full * (all * one)
        BY <1>1, <1>3, <2>5
      <4> QED BY <3>1, <4>1
    <3> QED BY <1>3, <2>5, <3>2, QuotientRises
  <2>9. A >= full => B >= full
    BY <1>1, <1>3
  <2>10. /\ KellyShares(capital, price, p) = IF A >= full THEN all \div one ELSE x \div d
         /\ KellyShares(capital, price, q) = IF B >= full THEN all \div one ELSE y \div d
    BY <2>3, <2>4 DEF x, y
  <2> QED BY <2>6, <2>7, <2>8, <2>9, <2>10
<1> QED BY <1>4, <1>5

\* How many shares, with and without an edge
LEMMA SizeIsLeastCap ==
  ASSUME NEW capital \in Nat, NEW price \in Nat \ {0}, NEW p \in 0 .. Unit,
         NEW volatility \in Nat, NEW volume \in Nat
  PROVE  LET n == PositionSize(capital, price, p, volatility, volume)
             caps == Caps(capital, price, p, volatility, volume)
         IN  /\ caps \subseteq Nat
             /\ ~HasEdge(p) => n = 0
             /\ HasEdge(p) => n \in caps /\ \A cap \in caps : n <= cap
<1> DEFINE caps == Caps(capital, price, p, volatility, volume)
<1>1. /\ Unit \in Nat \ {0} /\ MaxFraction \in Nat /\ TargetVolatility \in Nat
      /\ MinuteParticipation \in Nat
  BY SizingConstants
<1>2. KellyShares(capital, price, p) \in Nat
  <2>1. p <= p
    BY <1>1
  <2> QED BY <2>1, KellyGrows
<1>3. CapShares(capital, price) \in Nat
  <2>1. capital * MaxFraction \in Nat /\ Unit * price \in Nat \ {0}
    BY <1>1
  <2> QED BY <2>1, Quotient DEF CapShares
<1>4. VolatilityShares(capital, price, volatility) \in Nat
  <2>1. CASE volatility = 0
    BY <2>1 DEF VolatilityShares
  <2>2. CASE volatility # 0
    <3>1. capital * TargetVolatility \in Nat /\ volatility * price \in Nat \ {0}
      BY <1>1, <2>2
    <3> QED BY <2>2, <3>1, Quotient DEF VolatilityShares
  <2> QED BY <2>1, <2>2
<1>5. LiquidityCaps(volume) \subseteq Nat
  <2>1. volume * MinuteParticipation \in Nat /\ DailyVolume * DailyParticipation \in Nat
    BY <1>1, SizingConstants
  <2>2. (volume * MinuteParticipation) \div Unit \in Nat
    BY <1>1, <2>1, Quotient
  <2>3. (DailyVolume * DailyParticipation) \div Unit \in Nat
    BY <1>1, <2>1, Quotient
  <2> QED BY <2>2, <2>3 DEF LiquidityCaps, MinuteCaps, DailyCaps
<1>6. caps \subseteq Nat /\ caps # {}
  BY <1>2, <1>3, <1>4, <1>5 DEF Caps
<1> HIDE DEF caps
<1>7. ~(price <= 0)
  OBVIOUS
<1>8. PositionSize(capital, price, p, volatility, volume)
        = IF ~HasEdge(p) THEN 0 ELSE CHOOSE n \in caps : \A cap \in caps : n <= cap
  BY <1>7 DEF PositionSize, caps
<1>9. \E n \in caps : \A cap \in caps : n <= cap
  BY <1>6, LeastMember
<1> QED BY <1>6, <1>8, <1>9 DEF caps

\* Shares within the caps on capital and volume, with an edge, and never fewer
\* for better odds
LEMMA SizeIsSound ==
  ASSUME NEW price \in Nat \ {0}, NEW p \in 0 .. Unit, NEW q \in 0 .. Unit, p <= q,
         NEW measured \in Nat, NEW volume \in Nat
  PROVE  LET n == TargetQuantity(Capital, price, p, measured, volume)
         IN  /\ n \in Nat
             /\ n * price * Unit <= Capital * MaxFraction
             /\ volume > 0 => n * Unit <= volume * MinuteParticipation
             /\ DailyVolume > 0 => n * Unit <= DailyVolume * DailyParticipation
             /\ n > 0 => Advantage(p) > TradeCost * Unit
             /\ TargetQuantity(Capital, price, q, measured, volume) >= n
<1> DEFINE volatility == IF measured = 0 THEN DefaultVolatility ELSE measured
           n == TargetQuantity(Capital, price, p, measured, volume)
           m == TargetQuantity(Capital, price, q, measured, volume)
           few == Caps(Capital, price, p, volatility, volume)
           many == Caps(Capital, price, q, volatility, volume)
<1>1. /\ Unit \in Nat \ {0} /\ MaxFraction \in Nat /\ MinuteParticipation \in Nat
      /\ Capital \in Nat /\ volatility \in Nat
  BY SizingConstants, SelectionConstants
<1>2. /\ n = PositionSize(Capital, price, p, volatility, volume)
      /\ m = PositionSize(Capital, price, q, volatility, volume)
  BY DEF TargetQuantity
<1> HIDE DEF volatility, n, m
<1>3. /\ few \subseteq Nat /\ many \subseteq Nat
      /\ ~HasEdge(p) => n = 0
      /\ HasEdge(p) => n \in few /\ \A cap \in few : n <= cap
      /\ ~HasEdge(q) => m = 0
      /\ HasEdge(q) => m \in many /\ \A cap \in many : m <= cap
  BY <1>1, <1>2, SizeIsLeastCap
<1>4. /\ few = {KellyShares(Capital, price, p), CapShares(Capital, price),
                VolatilityShares(Capital, price, volatility)} \cup LiquidityCaps(volume)
      /\ many = {KellyShares(Capital, price, q), CapShares(Capital, price),
                 VolatilityShares(Capital, price, volatility)} \cup LiquidityCaps(volume)
  BY DEF Caps
<1>5. HasEdge(p) => HasEdge(q) /\ Advantage(p) > TradeCost * Unit
  BY AdvantageGrows
<1>6. KellyShares(Capital, price, p) <= KellyShares(Capital, price, q)
  BY <1>1, KellyGrows
<1> HIDE DEF few, many
<1>7. n \in Nat /\ m \in Nat
  <2>1. n \in Nat
    <3>1. CASE HasEdge(p)
      BY <1>3, <3>1
    <3>2. CASE ~HasEdge(p)
      BY <1>3, <3>2
    <3> QED BY <3>1, <3>2
  <2>2. m \in Nat
    <3>1. CASE HasEdge(q)
      BY <1>3, <3>1
    <3>2. CASE ~HasEdge(q)
      BY <1>3, <3>2
    <3> QED BY <3>1, <3>2
  <2> QED BY <2>1, <2>2
<1>8. m >= n
  <2>1. CASE ~HasEdge(p)
    BY <1>3, <1>7, <2>1
  <2>2. CASE HasEdge(p)
    <3>1. m \in many /\ \A cap \in few : n <= cap
      BY <1>3, <1>5, <2>2
    <3>2. CASE m = KellyShares(Capital, price, q)
      <4>1. n <= KellyShares(Capital, price, p) /\ KellyShares(Capital, price, p) \in Nat
        BY <1>3, <1>4, <3>1
      <4> QED BY <1>6, <1>7, <3>2, <4>1
    <3>3. CASE m \in few
      BY <1>7, <3>1, <3>3
    <3> QED BY <1>4, <3>1, <3>2, <3>3
  <2> QED BY <2>1, <2>2
<1>9. n * price * Unit <= Capital * MaxFraction
  <2> DEFINE x == Capital * MaxFraction
             d == Unit * price
  <2>1. x \in Nat /\ d \in Nat \ {0}
    BY <1>1
  <2>2. CASE ~HasEdge(p)
    <3>1. n * price * Unit = 0
      BY <1>1, <1>3, <2>2
    <3> QED BY <2>1, <3>1
  <2>3. CASE HasEdge(p)
    <3>1. n <= x \div d
      BY <1>3, <1>4, <2>3 DEF CapShares
    <3>2. n * price * Unit = n * d
      BY <1>1, <1>7
    <3> HIDE DEF x, d
    <3>3. x \div d \in Nat /\ (x \div d) * d <= x
      BY <2>1, Quotient
    <3>4. n * d <= (x \div d) * d
      <4>1. n \in Int /\ x \div d \in Int /\ d \in Nat
        BY <1>7, <2>1, <3>3
      <4> QED BY <3>1, <4>1, Factor
    <3>5. n * d \in Int /\ (x \div d) * d \in Int
      BY <1>7, <2>1, <3>3
    <3>6. n * d <= x
      BY <2>1, <3>3, <3>4, <3>5
    <3> QED BY <3>2, <3>6 DEF x
  <2> QED BY <2>2, <2>3
<1>10. ASSUME NEW x \in Nat, x \div Unit \in LiquidityCaps(volume) PROVE n * Unit <= x
  <2>1. CASE ~HasEdge(p)
    <3>1. n * Unit = 0
      BY <1>1, <1>3, <2>1
    <3> QED BY <3>1
  <2>2. CASE HasEdge(p)
    <3>1. n <= x \div Unit
      <4>1. x \div Unit \in few
        BY <1>4, <1>10
      <4> QED BY <1>3, <2>2, <4>1
    <3>2. x \div Unit \in Nat /\ (x \div Unit) * Unit <= x
      BY <1>1, Quotient
    <3>3. n * Unit <= (x \div Unit) * Unit
      <4>1. n \in Int /\ x \div Unit \in Int /\ Unit \in Nat
        BY <1>1, <1>7, <3>2
      <4> QED BY <3>1, <4>1, Factor
    <3>4. n * Unit \in Int /\ (x \div Unit) * Unit \in Int
      BY <1>1, <1>7, <3>2
    <3> QED BY <3>2, <3>3, <3>4
  <2> QED BY <2>1, <2>2
<1>11. ASSUME volume > 0 PROVE n * Unit <= volume * MinuteParticipation
  <2> DEFINE x == volume * MinuteParticipation
  <2>1. x \in Nat
    BY <1>1
  <2>2. x \div Unit \in LiquidityCaps(volume)
    BY <1>11 DEF LiquidityCaps, MinuteCaps
  <2> HIDE DEF x
  <2>3. n * Unit <= x
    BY <1>10, <2>1, <2>2
  <2> QED BY <2>3 DEF x
<1>12. ASSUME DailyVolume > 0 PROVE n * Unit <= DailyVolume * DailyParticipation
  <2> DEFINE x == DailyVolume * DailyParticipation
  <2>1. x \in Nat
    BY SizingConstants
  <2>2. x \div Unit \in LiquidityCaps(volume)
    BY <1>12, SizingConstants DEF LiquidityCaps, DailyCaps
  <2> HIDE DEF x
  <2>3. n * Unit <= x
    BY <1>10, <2>1, <2>2
  <2> QED BY <2>3 DEF x
<1>13. n > 0 => Advantage(p) > TradeCost * Unit
  BY <1>3, <1>5
<1> QED BY <1>7, <1>8, <1>9, <1>11, <1>12, <1>13 DEF n, m
-----------------------------------------------------------------------------
(* The bar of the universe. *)

Asks == [prob : Probabilities, shares : Nat]

\* What was selected is what the snapshots call for; what was asked for is what
\* the size of the candidate is.
SelectionInv ==
  /\ snapshots \in Seq(StockSnapshots)
  /\ asked \in Seq(Asks)
  /\ selected = Unasked => asked = <<>>
  /\ selected # Unasked =>
       selected = SelectCandidates /\ ranks = Rank /\ hot = SelectHotSymbols
  /\ Len(asked) # 0 => Len(asked) <= Len(selected)
  /\ \A k \in 1 .. Len(asked) :
       LET s == snapshots[selected[k]] IN
       asked[k].shares = TargetQuantity(Capital, s.price, asked[k].prob, s.volatility, s.volume)

\* Nothing is observed yet.
LEMMA SelectionInitInv == SelectionInit => SelectionInv
  BY DEF SelectionInit, SelectionInv

\* A snapshot is one.
LEMMA SnapshotTyped ==
  ASSUME NEW stock \in Candidates, NEW pair \in CandidatePrices \X CandidatePrices,
         NEW volume \in CandidateVolumes, NEW volatility \in Volatilities
  PROVE  Snapshot(stock, pair, volume, volatility) \in StockSnapshots
<1>1. pair[1] \in Nat \ {0} /\ pair[2] \in Nat \ {0} /\ volume \in Nat /\ volatility \in Nat
  BY SelectionConstants
<1>2. pair[1] * volume \in Nat
  <2> DEFINE last == pair[1]
  <2>1. last \in Nat
    BY <1>1
  <2> HIDE DEF last
  <2>2. last * volume \in Nat
    BY <1>1, <2>1
  <2> QED BY <2>2 DEF last
<1> QED BY <1>1, <1>2 DEF Snapshot, StockSnapshots

\* A candidate that was selected has a size.
LEMMA SizeTyped ==
  ASSUME SelectionInv, selected # Unasked, NEW k \in 1 .. Len(selected),
         NEW p \in Probabilities
  PROVE  LET s == snapshots[selected[k]] IN
         /\ s \in StockSnapshots
         /\ s.price \in Nat \ {0} /\ s.volatility \in Nat /\ s.volume \in Nat
         /\ p \in 0 .. Unit
         /\ TargetQuantity(Capital, s.price, p, s.volatility, s.volume) \in Nat
<1>1. snapshots \in Seq(StockSnapshots) /\ selected = SelectCandidates
  BY DEF SelectionInv
<1>2. selected \in Seq(DOMAIN snapshots)
  BY <1>1, Chosen
<1>3. selected[k] \in DOMAIN snapshots
  BY <1>2, ElementOfSeq
<1>4. snapshots[selected[k]] \in StockSnapshots
  BY <1>1, <1>3
<1>5. p \in 0 .. Unit /\ p <= p
  BY SelectionConstants, SizingConstants
<1> DEFINE s == snapshots[selected[k]]
<1>6. s.price \in Nat \ {0} /\ s.volatility \in Nat /\ s.volume \in Nat
  <2> HIDE DEF s
  <2>1. s \in StockSnapshots
    BY <1>4 DEF s
  <2> QED BY <2>1 DEF StockSnapshots
<1>7. TargetQuantity(Capital, s.price, p, s.volatility, s.volume) \in Nat
  <2> HIDE DEF s
  <2> QED BY <1>5, <1>6, SizeIsSound
<1> QED BY <1>4, <1>5, <1>6, <1>7

\* As long as nothing more is seen, the answers stay.
LEMMA SameSnapshots ==
  ASSUME UNCHANGED <<snapshots, minutes>>
  PROVE  /\ SelectCandidates' = SelectCandidates
         /\ Rank' = Rank
         /\ SelectHotSymbols' = SelectHotSymbols
<1>1. ByMomentum' = ByMomentum /\ ByTurnover' = ByTurnover
  BY DEF ByMomentum, ByTurnover
<1>2. Rank' = Rank /\ SelectHotSymbols' = SelectHotSymbols
  BY <1>1 DEF Rank, SelectHotSymbols
<1>3. IsEntryWindow' = IsEntryWindow
  BY DEF IsEntryWindow
<1>4. SelectCandidates' = SelectCandidates
  BY <1>1, <1>3 DEF SelectCandidates
<1> QED BY <1>2, <1>4

\* Nothing is seen any more once stocks are selected, and nothing is asked for
\* before.
LEMMA SelectionStep == SelectionInv /\ [SelectionNext]_selectionVars => SelectionInv'
<1> SUFFICES ASSUME SelectionInv, [SelectionNext]_selectionVars PROVE SelectionInv'
  OBVIOUS
<1>0. /\ snapshots \in Seq(StockSnapshots) /\ asked \in Seq(Asks)
      /\ selected = Unasked => asked = <<>>
  BY DEF SelectionInv
<1>1. ASSUME NEW stock \in Candidates, Observe(stock) PROVE SelectionInv'
  <2>1. /\ selected = Unasked /\ asked = <<>>
        /\ UNCHANGED <<selected, ranks, hot, asked>>
    BY <1>0, <1>1 DEF Observe
  <2>2. snapshots' \in Seq(StockSnapshots)
    <3>1. PICK pair \in CandidatePrices \X CandidatePrices, volume \in CandidateVolumes,
               volatility \in Volatilities :
            snapshots' = Append(snapshots, Snapshot(stock, pair, volume, volatility))
      BY <1>1 DEF Observe
    <3>2. Snapshot(stock, pair, volume, volatility) \in StockSnapshots
      BY SnapshotTyped
    <3> QED BY <1>0, <3>1, <3>2, AppendProperties
  <2>3. asked' \in Seq(Asks) /\ Len(asked') = 0 /\ asked' = <<>> /\ selected' = Unasked
    BY <2>1
  <2>4. \A k \in 1 .. Len(asked') : FALSE
    BY <2>3
  <2> QED BY <2>2, <2>3, <2>4 DEF SelectionInv
<1>2. ASSUME Select PROVE SelectionInv'
  <2>1. /\ asked = <<>> /\ UNCHANGED <<snapshots, minutes, asked>>
        /\ selected' = SelectCandidates /\ ranks' = Rank /\ hot' = SelectHotSymbols
    BY <1>0, <1>2 DEF Select
  <2>2. selected' = SelectCandidates' /\ ranks' = Rank' /\ hot' = SelectHotSymbols'
    BY <2>1, SameSnapshots
  <2>3. asked' \in Seq(Asks) /\ Len(asked') = 0 /\ asked' = <<>>
    BY <2>1
  <2>4. \A k \in 1 .. Len(asked') : FALSE
    BY <2>3
  <2> QED BY <1>0, <2>1, <2>2, <2>3, <2>4 DEF SelectionInv
<1>3. ASSUME NEW prob \in Probabilities, Size(prob) PROVE SelectionInv'
  <2> DEFINE n == Len(asked)
             s == snapshots[selected[n + 1]]
             ask == [prob |-> prob,
                     shares |-> TargetQuantity(Capital, s.price, prob, s.volatility, s.volume)]
  <2>1. /\ selected # Unasked /\ n < Len(selected) /\ asked' = Append(asked, ask)
        /\ UNCHANGED <<snapshots, minutes, selected, ranks, hot>>
    BY <1>3 DEF Size
  <2>2. /\ selected = SelectCandidates /\ ranks = Rank /\ hot = SelectHotSymbols
        /\ n \in Nat /\ Len(selected) \in Nat
    <3>1. selected = SelectCandidates /\ ranks = Rank /\ hot = SelectHotSymbols
      BY <2>1 DEF SelectionInv
    <3>2. selected \in Seq(DOMAIN snapshots)
      BY <1>0, <3>1, Chosen
    <3> QED BY <1>0, <3>1, <3>2
  <2>3. ask \in Asks
    <3>1. n + 1 \in 1 .. Len(selected)
      BY <2>1, <2>2
    <3>2. TargetQuantity(Capital, s.price, prob, s.volatility, s.volume) \in Nat
      BY <2>1, <3>1, SizeTyped
    <3> HIDE DEF s
    <3> QED BY <3>2 DEF Asks
  <2>4. selected' = SelectCandidates' /\ ranks' = Rank' /\ hot' = SelectHotSymbols'
    BY <2>1, <2>2, SameSnapshots
  <2> DEFINE Right(a, k) ==
        LET t == snapshots[selected[k]] IN
        a.shares = TargetQuantity(Capital, t.price, a.prob, t.volatility, t.volume)
  <2>5. Right(ask, n + 1)
    <3> HIDE DEF s
    <3>1. /\ ask.prob = prob
          /\ ask.shares = TargetQuantity(Capital, s.price, prob, s.volatility, s.volume)
      OBVIOUS
    <3> HIDE DEF ask
    <3> QED BY <3>1 DEF s
  <2>6. \A k \in 1 .. n : Right(asked[k], k)
    BY DEF SelectionInv
  <2> HIDE DEF Right, ask, s
  <2>7. /\ asked' \in Seq(Asks) /\ Len(asked') = n + 1
        /\ asked'[n + 1] = ask /\ \A k \in 1 .. n : asked'[k] = asked[k]
    BY <1>0, <2>1, <2>3, AppendProperties
  <2>8. \A k \in 1 .. n + 1 : Right(asked'[k], k)
    <3>1. \A k \in 1 .. n + 1 : k = n + 1 \/ k \in 1 .. n
      BY <2>2
    <3> QED BY <2>5, <2>6, <2>7, <3>1
  <2>9. \A k \in 1 .. Len(asked') :
          LET t == snapshots'[selected'[k]] IN
          asked'[k].shares
            = TargetQuantity(Capital, t.price, asked'[k].prob, t.volatility, t.volume)
    BY <2>1, <2>7, <2>8 DEF Right
  <2>10. Len(asked') <= Len(selected')
    BY <2>1, <2>2, <2>7
  <2> QED BY <1>0, <2>1, <2>4, <2>7, <2>9, <2>10 DEF SelectionInv
<1>4. CASE UNCHANGED selectionVars
  <2>1. UNCHANGED <<snapshots, minutes, selected, ranks, hot, asked>>
    BY <1>4 DEF selectionVars
  <2>2. /\ SelectCandidates' = SelectCandidates /\ Rank' = Rank
        /\ SelectHotSymbols' = SelectHotSymbols
    BY <2>1, SameSnapshots
  <2> QED BY <2>1, <2>2 DEF SelectionInv
<1> QED BY <1>1, <1>2, <1>3, <1>4 DEF SelectionNext

\* The stocks chosen are the best that pass, ranks agree with the momentum and
\* the streamed stocks are the ones with the most turnover (filter.py:65,
\* hotset.py:37), for any number of stocks and any candles.
THEOREM SelectionSound == SelectionSpec => []SelectedAreBest
<1>1. SelectionInv => SelectedAreBest
  <2> SUFFICES ASSUME SelectionInv, selected # Unasked
               PROVE  LET chosen == ToSet(selected)
                          fit == {i \in DOMAIN snapshots :
                                    IsEntryWindow /\ PassesFilters(snapshots[i])}
                      IN /\ IsInjective(selected) /\ chosen \subseteq fit
                         /\ Len(selected) <= TopK
                         /\ \A i \in fit \ chosen :
                              Len(selected) = TopK
                                /\ \A j \in chosen : ~Stronger(snapshots[i], snapshots[j])
                         /\ \A i, j \in DOMAIN snapshots :
                              Stronger(snapshots[i], snapshots[j]) => ranks[i] > ranks[j]
                         /\ \A i \in DOMAIN snapshots \ ToSet(hot), j \in ToSet(hot) :
                              snapshots[i].turnover <= snapshots[j].turnover
    BY DEF SelectedAreBest
  <2>1. /\ snapshots \in Seq(StockSnapshots)
        /\ selected = SelectCandidates /\ ranks = Rank /\ hot = SelectHotSymbols
    BY DEF SelectionInv
  <2>2. \A i, j \in DOMAIN snapshots :
          Stronger(snapshots[i], snapshots[j]) => ranks[i] > ranks[j]
    BY <2>1, RanksRise
  <2>3. \A i \in DOMAIN snapshots \ ToSet(hot), j \in ToSet(hot) :
          snapshots[i].turnover <= snapshots[j].turnover
    BY <2>1, HotTurnOver
  <2> QED BY <2>1, <2>2, <2>3, Chosen
<1> QED BY <1>1, SelectionInitInv, SelectionStep, PTL DEF SelectionSpec

\* Sizes stay within the caps and have an edge, and better odds never get fewer
\* shares (sizing.py:88-120), for any barriers, costs, capital and prices.
THEOREM SizesSound == SelectionSpec => []SizesFollowTheOdds
<1>1. SelectionInv => SizesFollowTheOdds
  <2> SUFFICES ASSUME SelectionInv, NEW k \in DOMAIN asked
               PROVE  LET s == snapshots[selected[k]]
                          n == asked[k].shares
                      IN /\ n * s.price * Unit <= Capital * MaxFraction
                         /\ s.volume > 0 => n * Unit <= s.volume * MinuteParticipation
                         /\ DailyVolume > 0 => n * Unit <= DailyVolume * DailyParticipation
                         /\ n > 0 => Advantage(asked[k].prob) > TradeCost * Unit
                         /\ \A prob \in Probabilities :
                              prob >= asked[k].prob =>
                                TargetQuantity(Capital, s.price, prob, s.volatility, s.volume)
                                  >= n
    BY DEF SizesFollowTheOdds
  <2>1. asked \in Seq(Asks) /\ k \in 1 .. Len(asked) /\ Len(asked) \in Nat /\ asked # <<>>
    BY DEF SelectionInv
  <2>2. selected # Unasked /\ Len(asked) <= Len(selected)
    BY <2>1 DEF SelectionInv
  <2>3. k \in 1 .. Len(selected)
    <3>1. selected \in Seq(DOMAIN snapshots)
      BY <2>2, Chosen DEF SelectionInv
    <3> QED BY <2>1, <2>2, <3>1
  <2>4. asked[k] \in Asks
    BY <2>1, ElementOfSeq
  <2> DEFINE s == snapshots[selected[k]]
             p == asked[k].prob
             n == asked[k].shares
  <2>5. p \in Probabilities /\ n = TargetQuantity(Capital, s.price, p, s.volatility, s.volume)
    BY <2>1, <2>4 DEF SelectionInv, Asks
  <2>6. /\ s.price \in Nat \ {0} /\ s.volatility \in Nat /\ s.volume \in Nat
        /\ p \in 0 .. Unit
    BY <2>2, <2>3, <2>5, SizeTyped
  <2>7. \A prob \in Probabilities : prob \in 0 .. Unit
    BY SelectionConstants
  <2> HIDE DEF s, p, n
  <2>8. /\ n * s.price * Unit <= Capital * MaxFraction
        /\ s.volume > 0 => n * Unit <= s.volume * MinuteParticipation
        /\ DailyVolume > 0 => n * Unit <= DailyVolume * DailyParticipation
        /\ n > 0 => Advantage(p) > TradeCost * Unit
    <3>1. p <= p
      BY <2>6, SizingConstants
    <3> QED BY <2>5, <2>6, <3>1, SizeIsSound
  <2>9. \A prob \in Probabilities :
          prob >= p => TargetQuantity(Capital, s.price, prob, s.volatility, s.volume) >= n
    <3> SUFFICES ASSUME NEW prob \in Probabilities, prob >= p
                 PROVE  TargetQuantity(Capital, s.price, prob, s.volatility, s.volume) >= n
      OBVIOUS
    <3>1. prob \in 0 .. Unit /\ p <= prob
      BY <2>6, <2>7, SizingConstants
    <3> QED BY <2>5, <2>6, <3>1, SizeIsSound
  <2> QED BY <2>8, <2>9 DEF s, p, n
<1> QED BY <1>1, SelectionInitInv, SelectionStep, PTL DEF SelectionSpec
-----------------------------------------------------------------------------
(* The replay and its cost analysis. *)

\* Executions: the cost is a whole amount per share.
Fills ==
  {f \in [stock : Stocks, side : {"BUY", "SELL"}, qty : Nat \ {0}, price : Nat,
          slip : Int, cost : Int] : f.cost = f.qty * (f.cost \div f.qty)}

\* Open lots, price and cost per share
Lots == [qty : Nat \ {0}, price : Int, cost : Int]

\* What an execution does to the shares held, and to the cash as the analysis
\* sees it, slippage charged twice
ShareChange == [f \in Fills |-> IF f.side = "BUY" THEN f.qty ELSE -f.qty]
CashChange ==
  [f \in Fills |-> IF f.side = "BUY" THEN -(f.qty * (f.price * RateUnit + f.cost \div f.qty))
                   ELSE f.qty * (f.price * RateUnit - f.cost \div f.qty)]
SlipOf == [f \in Fills |-> f.slip]
SharesOf == [l \in Lots |-> l.qty]
BasisOf == [l \in Lots |-> l.qty * (l.price + l.cost)]

\* What the rest of the sale that is being matched will bring
Owed ==
  IF unsold = 0 THEN 0
  ELSE unsold * (fills[matched].price * RateUnit - fills[matched].cost \div fills[matched].qty)

\* The replay: its executions tell the shares it holds and the cash it has.
ReplayInv ==
  /\ purse \in Int
  /\ held \in [Stocks -> Nat]
  /\ ledger \in [Stocks -> Int]
  /\ market \in [Stocks -> [price : Nat, volume : Nat]]
  /\ queue \in Seq({s \in Stocks : market[s].price > 0})
  /\ fills \in Seq(Fills)
  /\ \A k \in 0 .. Len(fills) : FirstTotal(fills, ShareChange, k) >= 0
  /\ TotalOver(fills, ShareChange) = SumFunction(held)
  /\ purse - StartCash = TotalOver(fills, CashChange) + TotalOver(fills, SlipOf)

\* The analysis: open lots, the sale that is being matched and the results say of
\* the executions matched what the replay says of all of them.
MatchInv ==
  /\ matched \in 0 .. Len(fills)
  /\ unsold \in Nat /\ realized \in Int
  /\ unsold # 0 => matched # 0
  /\ lots \in Seq(Lots)
  /\ TotalOver(lots, SharesOf) = FirstTotal(fills, ShareChange, matched) + unsold
  /\ realized = FirstTotal(fills, CashChange, matched) + TotalOver(lots, BasisOf) - Owed

\* Fills from before the replay are in no broker, so nothing is said of them.
RunnerInv == inherited = <<>> => ReplayInv /\ MatchInv
-----------------------------------------------------------------------------
\* Amounts of whole numbers are whole numbers.
LEMMA AmountsTyped ==
  /\ ShareChange \in [Fills -> Int] /\ CashChange \in [Fills -> Int]
  /\ SlipOf \in [Fills -> Int]
  /\ SharesOf \in [Lots -> Int] /\ BasisOf \in [Lots -> Int]
<1>1. RateUnit \in Nat
  BY CostConstants
<1>2. \A x, y \in Int : x * y \in Int
  OBVIOUS
<1>3. ASSUME NEW f \in Fills
      PROVE  /\ f.qty \in Nat \ {0} /\ f.price \in Int /\ f.slip \in Int /\ f.cost \in Int
             /\ f.cost \div f.qty \in Int
             /\ f.price * RateUnit \in Int
  <2>1. f.qty \in Nat \ {0} /\ f.price \in Int /\ f.slip \in Int /\ f.cost \in Int
    BY DEF Fills
  <2> DEFINE q == f.qty  c == f.cost  p == f.price
  <2> HIDE DEF q, c, p
  <2>2. q \in Nat \ {0} /\ c \in Int /\ p \in Int
    BY <2>1 DEF q, c, p
  <2>3. c \div q \in Int /\ p * RateUnit \in Int
    BY <1>1, <2>2
  <2> QED BY <2>1, <2>3 DEF q, c, p
<1>4. ASSUME NEW f \in Fills
      PROVE  /\ f.qty * (f.price * RateUnit + f.cost \div f.qty) \in Int
             /\ f.qty * (f.price * RateUnit - f.cost \div f.qty) \in Int
  <2> DEFINE q == f.qty  a == f.price * RateUnit  b == f.cost \div f.qty
  <2>1. q \in Int /\ a \in Int /\ b \in Int
    BY <1>3
  <2> HIDE DEF q, a, b
  <2>2. q * (a + b) \in Int /\ q * (a - b) \in Int
    BY <1>2, <2>1
  <2> QED BY <2>2 DEF q, a, b
<1>5. \A f \in Fills : CashChange[f] \in Int
  <2> SUFFICES ASSUME NEW f \in Fills PROVE CashChange[f] \in Int
    OBVIOUS
  <2> DEFINE a == f.qty * (f.price * RateUnit + f.cost \div f.qty)
             b == f.qty * (f.price * RateUnit - f.cost \div f.qty)
  <2>1. a \in Int /\ b \in Int
    BY <1>4
  <2>2. CashChange[f] = IF f.side = "BUY" THEN -a ELSE b
    BY DEF CashChange
  <2> HIDE DEF a, b
  <2> QED BY <2>1, <2>2
<1>6. CashChange \in [Fills -> Int]
  <2>1. CashChange = [f \in Fills |-> CashChange[f]]
    BY DEF CashChange
  <2> HIDE DEF CashChange
  <2> QED BY <1>5, <2>1
<1>7. ShareChange \in [Fills -> Int] /\ SlipOf \in [Fills -> Int]
  BY <1>3 DEF ShareChange, SlipOf
<1>8. SharesOf \in [Lots -> Int]
  BY DEF SharesOf, Lots
<1>9. BasisOf \in [Lots -> Int]
  <2>1. ASSUME NEW l \in Lots PROVE l.qty * (l.price + l.cost) \in Int
    <3>1. l.qty \in Int /\ l.price \in Int /\ l.cost \in Int
      BY DEF Lots
    <3> DEFINE q == l.qty  p == l.price + l.cost
    <3>2. q \in Int /\ p \in Int
      BY <3>1
    <3> HIDE DEF q, p
    <3>3. q * p \in Int
      BY <1>2, <3>2
    <3> QED BY <3>3 DEF q, p
  <2> QED BY <2>1 DEF BasisOf
<1> QED BY <1>6, <1>7, <1>8, <1>9

\* A fill as the execution that is written for it
LEMMA ExecutionTyped ==
  ASSUME NEW stock \in Stocks, NEW side \in {"BUY", "SELL"}, NEW ref \in Nat \ {0},
         NEW quantity \in Nat \ {0}, NEW volume \in Nat,
         NEW fill, fill = EstimateFill(side, ref, quantity, volume),
         NEW e, e = Execution(stock, fill)
  PROVE  /\ e \in Fills /\ e.side = side /\ e.qty = quantity
         /\ fill.gross \in Nat /\ fill.commission \in Nat /\ fill.tax \in Nat
         /\ side = "BUY" =>
              CashChange[e] + e.slip = -(fill.gross + fill.commission + fill.tax)
         /\ side = "SELL" =>
              CashChange[e] + e.slip = fill.gross - (fill.commission + fill.tax)
<1> DEFINE price == FillPrice(side, ref, Slippage(ref, quantity, volume))
           apart == IF price < ref THEN ref - price ELSE price - ref
           taxRate == IF side = "SELL" THEN SellTaxRate ELSE 0
           worth == price * RateUnit
           fees == price * CommissionRate + price * taxRate
           slip == apart * RateUnit
<1>1. \A a, b \in Nat : a * b \in Nat
  OBVIOUS
<1>2. price \in Nat
  <2>1. fill.price \in Nat
    BY FillTyped
  <2> QED BY <2>1 DEF EstimateFill
<1>3. /\ apart \in Nat /\ taxRate \in Nat /\ RateUnit \in Nat /\ CommissionRate \in Nat
      /\ quantity \in Nat \ {0}
  BY <1>2, CostConstants
<1>4. /\ fill.gross = price * quantity * RateUnit
      /\ fill.slippage = apart * quantity * RateUnit
      /\ fill.commission = price * quantity * CommissionRate
      /\ fill.tax = IF side = "SELL" THEN price * quantity * SellTaxRate ELSE 0
      /\ fill.side = side /\ fill.quantity = quantity /\ fill.price = price
  BY DEF EstimateFill, Commission, Tax
<1> HIDE DEF price, apart
<1>5. fill.tax = price * quantity * taxRate
  <2>1. price * quantity * 0 = 0
    BY <1>2, <1>3
  <2> QED BY <1>4, <2>1
<1> HIDE DEF taxRate
<1>6. /\ worth \in Nat /\ fees \in Nat /\ slip \in Nat
      /\ fill.gross = quantity * worth /\ fill.slippage = quantity * slip
      /\ fill.commission + fill.tax = quantity * fees
      /\ fill.gross \in Nat /\ fill.commission \in Nat /\ fill.tax \in Nat
      /\ fill.slippage \in Nat
  <2>1. worth \in Nat /\ slip \in Nat /\ price * CommissionRate \in Nat
        /\ price * taxRate \in Nat
    BY <1>1, <1>2, <1>3
  <2>2. fees \in Nat
    BY <2>1
  <2>3. fill.gross = quantity * worth /\ fill.slippage = quantity * slip
    BY <1>2, <1>3, <1>4
  <2>4. fill.commission = quantity * (price * CommissionRate)
    BY <1>2, <1>3, <1>4
  <2>5. fill.tax = quantity * (price * taxRate)
    BY <1>2, <1>3, <1>5
  <2>6. quantity * (price * CommissionRate) + quantity * (price * taxRate) = quantity * fees
    BY <2>1, <1>3
  <2>7. fill.gross \in Nat /\ fill.commission \in Nat /\ fill.tax \in Nat
        /\ fill.slippage \in Nat
    BY <1>1, <1>3, <2>1, <2>3, <2>4, <2>5
  <2> QED BY <2>1, <2>2, <2>3, <2>4, <2>5, <2>6, <2>7
<1> HIDE DEF worth, fees, slip
<1> DEFINE unit == fees + slip
<1>7. /\ e.stock = stock /\ e.side = side /\ e.qty = quantity /\ e.price = price
      /\ e.slip = quantity * slip /\ e.cost = quantity * unit
  <2>1. e = [stock |-> stock, side |-> side, qty |-> quantity, price |-> price,
             slip |-> fill.slippage, cost |-> fill.commission + fill.tax + fill.slippage]
    BY <1>4 DEF Execution
  <2>2. fill.commission + fill.tax + fill.slippage = quantity * unit
    BY <1>3, <1>6
  <2> QED BY <1>6, <2>1, <2>2
<1>8. unit \in Nat /\ quantity * unit \in Nat /\ quantity * slip \in Nat
  BY <1>1, <1>3, <1>6
<1>9. (quantity * unit) \div quantity = unit
  <2> DEFINE x == quantity * unit
  <2>1. x \in Nat /\ unit * quantity = x /\ unit \in Nat
    BY <1>3, <1>8
  <2> HIDE DEF x, unit
  <2>2. /\ x \div quantity \in Nat /\ (x \div quantity) * quantity <= x
        /\ unit <= x \div quantity
    BY <2>1, Quotient
  <2>3. (x \div quantity) * quantity <= unit * quantity
    BY <2>1, <2>2
  <2>4. x \div quantity <= unit
    <3>1. x \div quantity \in Int /\ unit \in Int /\ quantity \in Nat /\ quantity # 0
      BY <2>1, <2>2
    <3> QED BY <2>3, <3>1, Factor
  <2>5. x \div quantity = unit
    BY <2>1, <2>2, <2>4
  <2> QED BY <2>5 DEF x
<1> HIDE DEF unit
<1>10. e \in Fills
  <2>1. e = [stock |-> stock, side |-> side, qty |-> quantity, price |-> price,
             slip |-> quantity * slip, cost |-> quantity * unit]
    BY <1>7 DEF Execution
  <2>2. e.cost = e.qty * (e.cost \div e.qty)
    BY <1>7, <1>9
  <2>3. e \in [stock : Stocks, side : {"BUY", "SELL"}, qty : Nat \ {0}, price : Nat,
               slip : Int, cost : Int]
    BY <1>2, <1>8, <2>1
  <2> QED BY <2>2, <2>3 DEF Fills
<1>11. CashChange[e] = IF side = "BUY" THEN -(quantity * (worth + unit))
                       ELSE quantity * (worth - unit)
  BY <1>7, <1>9, <1>10 DEF CashChange, worth
<1>12. /\ quantity * (worth + unit) = quantity * worth + quantity * fees + quantity * slip
       /\ quantity * (worth - unit) = quantity * worth - quantity * fees - quantity * slip
       /\ quantity * worth \in Int /\ quantity * fees \in Int /\ quantity * slip \in Int
  BY <1>3, <1>6 DEF unit
<1>13. side = "BUY" => CashChange[e] + e.slip = -(fill.gross + fill.commission + fill.tax)
  BY <1>6, <1>7, <1>11, <1>12
<1>14. side = "SELL" => CashChange[e] + e.slip = fill.gross - (fill.commission + fill.tax)
  BY <1>6, <1>7, <1>11, <1>12
<1> QED BY <1>6, <1>7, <1>10, <1>13, <1>14

\* A replay starts with the cash and without shares, executions or lots.
LEMMA RunnerInitInv == RunnerInit => RunnerInv
<1> SUFFICES ASSUME RunnerInit, inherited = <<>> PROVE ReplayInv /\ MatchInv
  BY DEF RunnerInv
<1>1. fills = <<>>
  BY DEF RunnerInit
<1>2. /\ ledger = held /\ held = [s \in Stocks |-> 0] /\ purse = StartCash
      /\ market = [s \in Stocks |-> [price |-> 0, volume |-> 0]] /\ queue = <<>>
      /\ matched = 0 /\ lots = <<>> /\ unsold = 0 /\ realized = 0
  BY <1>1 DEF RunnerInit
<1>3. fills \in Seq(Fills) /\ Len(fills) = 0 /\ lots \in Seq(Lots) /\ Len(lots) = 0
  BY <1>1, <1>2
<1>4. /\ TotalOver(fills, ShareChange) = 0 /\ FirstTotal(fills, ShareChange, 0) = 0
      /\ TotalOver(fills, CashChange) = 0 /\ FirstTotal(fills, CashChange, 0) = 0
      /\ TotalOver(fills, SlipOf) = 0
  <2>1. ASSUME NEW f \in [Fills -> Int]
        PROVE  TotalOver(fills, f) = 0 /\ FirstTotal(fills, f, 0) = 0
    BY <1>3, TotalOverNone
  <2> QED BY <2>1, AmountsTyped
<1>5. TotalOver(lots, SharesOf) = 0 /\ TotalOver(lots, BasisOf) = 0
  <2>1. ASSUME NEW f \in [Lots -> Int] PROVE TotalOver(lots, f) = 0
    BY <1>3, TotalOverNone
  <2> QED BY <2>1, AmountsTyped
<1>6. SumFunction(held) = 0
  <2>1. IsFiniteSet(Stocks) /\ held \in [Stocks -> Int] /\ \A s \in Stocks : held[s] = 0
    BY <1>2, RunnerConstants
  <2> QED BY <2>1, SumOfZeros
<1>7. StartCash \in Nat
  BY RunnerConstants
<1>8. ReplayInv
  <2>1. \A k \in 0 .. Len(fills) : FirstTotal(fills, ShareChange, k) >= 0
    <3>1. \A k \in 0 .. Len(fills) : k = 0
      BY <1>3
    <3> QED BY <1>4, <3>1
  <2>2. queue \in Seq({s \in Stocks : market[s].price > 0})
    BY <1>2
  <2>3. market \in [Stocks -> [price : Nat, volume : Nat]]
    BY <1>2
  <2>4. held \in [Stocks -> Nat] /\ ledger \in [Stocks -> Int]
    BY <1>2
  <2> QED BY <1>2, <1>3, <1>4, <1>6, <1>7, <2>1, <2>2, <2>3, <2>4 DEF ReplayInv
<1>9. MatchInv
  <2>1. Owed = 0
    BY <1>2 DEF Owed
  <2> QED BY <1>2, <1>3, <1>4, <1>5, <2>1 DEF MatchInv
<1> QED BY <1>8, <1>9

\* What the analysis has matched does not change by an execution more.
LEMMA MatchesStay ==
  ASSUME MatchInv, fills \in Seq(Fills), NEW e \in Fills,
         fills' = Append(fills, e), UNCHANGED tcaVars
  PROVE  MatchInv'
<1>1. UNCHANGED <<matched, lots, unsold, realized>>
  BY DEF tcaVars
<1>2. /\ fills' \in Seq(Fills) /\ Len(fills) \in Nat /\ Len(fills') = Len(fills) + 1
      /\ \A i \in 1 .. Len(fills) : fills'[i] = fills[i]
  BY AppendProperties
<1>3. matched \in 0 .. Len(fills) /\ matched \in 0 .. Len(fills') /\ matched \in Int
  BY <1>2 DEF MatchInv
<1>4. \A i \in 1 .. matched : fills'[i] = fills[i]
  BY <1>2, <1>3
<1>5. /\ FirstTotal(fills', ShareChange, matched) = FirstTotal(fills, ShareChange, matched)
      /\ FirstTotal(fills', CashChange, matched) = FirstTotal(fills, CashChange, matched)
  BY <1>3, <1>4, FirstTotalSame
<1>6. Owed' = Owed
  <2>1. CASE unsold = 0
    BY <1>1, <2>1 DEF Owed
  <2>2. CASE unsold # 0
    <3>1. matched \in 1 .. Len(fills)
      BY <1>2, <1>3, <2>2 DEF MatchInv
    <3>2. fills'[matched] = fills[matched]
      BY <1>2, <3>1
    <3> QED BY <1>1, <3>2 DEF Owed
  <2> QED BY <2>1, <2>2
<1> QED BY <1>1, <1>3, <1>5, <1>6 DEF MatchInv, FirstTotal

\* An execution is written with the shares and the cash it moves.
LEMMA FillStep ==
  ASSUME ReplayInv, MatchInv, NEW e \in Fills, NEW stock \in Stocks,
         fills' = Append(fills, e),
         held' = [held EXCEPT ![stock] = @ + ShareChange[e]],
         held[stock] + ShareChange[e] >= 0,
         ledger' \in [Stocks -> Int],
         purse' = purse + (CashChange[e] + e.slip),
         UNCHANGED market, UNCHANGED tcaVars,
         queue' \in Seq({s \in Stocks : market[s].price > 0})
  PROVE  ReplayInv' /\ MatchInv'
<1>1. MatchInv'
  BY MatchesStay DEF ReplayInv
<1>2. /\ fills \in Seq(Fills) /\ purse \in Int /\ held \in [Stocks -> Nat]
      /\ \A k \in 0 .. Len(fills) : FirstTotal(fills, ShareChange, k) >= 0
      /\ TotalOver(fills, ShareChange) = SumFunction(held)
      /\ purse - StartCash = TotalOver(fills, CashChange) + TotalOver(fills, SlipOf)
      /\ market \in [Stocks -> [price : Nat, volume : Nat]]
  BY DEF ReplayInv
<1>3. /\ ShareChange[e] \in Int /\ CashChange[e] \in Int /\ SlipOf[e] = e.slip /\ e.slip \in Int
  <2>1. SlipOf[e] = e.slip /\ SlipOf[e] \in Int
    BY AmountsTyped DEF SlipOf
  <2> QED BY <2>1, AmountsTyped
<1>4. held' \in [Stocks -> Nat] /\ SumFunction(held') = SumFunction(held) + ShareChange[e]
      /\ SumFunction(held') >= 0 /\ SumFunction(held') \in Int
  <2>1. held' \in [Stocks -> Nat]
    BY <1>2, <1>3
  <2>2. /\ IsFiniteSet(Stocks) /\ held \in [Stocks -> Int] /\ held' \in [Stocks -> Int]
        /\ \A s \in Stocks \ {stock} : held'[s] = held[s]
        /\ \A s \in Stocks : held'[s] >= 0
        /\ held'[stock] = held[stock] + ShareChange[e]
        /\ held[stock] \in Int
    BY <1>2, <2>1, RunnerConstants
  <2> DEFINE h == held'
             g == held
  <2>3. /\ SumFunction(held) \in Int /\ SumFunction(h) \in Int
        /\ SumFunction(h) = SumFunction(held) + h[stock] - held[stock]
    <3>1. /\ IsFiniteSet(Stocks) /\ g \in [Stocks -> Int] /\ h \in [Stocks -> Int]
          /\ \A s \in Stocks \ {stock} : h[s] = g[s]
      BY <2>2
    <3> HIDE DEF h, g
    <3>2. /\ SumFunction(g) \in Int /\ SumFunction(h) \in Int
          /\ SumFunction(h) = SumFunction(g) + h[stock] - g[stock]
      BY <3>1, SumChange
    <3> QED BY <3>2 DEF g
  <2>4. SumFunction(h) >= 0
    <3>1. h \in [Stocks -> Int] /\ \A s \in Stocks : h[s] >= 0
      BY <2>2
    <3> HIDE DEF h
    <3> QED BY <2>2, <3>1, SumOfNats
  <2> QED BY <1>3, <2>1, <2>2, <2>3, <2>4
<1>5. /\ fills' \in Seq(Fills) /\ Len(fills) \in Nat /\ Len(fills') = Len(fills) + 1
      /\ \A i \in 1 .. Len(fills) : fills'[i] = fills[i]
  BY <1>2, AppendProperties
<1>6. /\ TotalOver(fills', ShareChange) = TotalOver(fills, ShareChange) + ShareChange[e]
      /\ TotalOver(fills', CashChange) = TotalOver(fills, CashChange) + CashChange[e]
      /\ TotalOver(fills', SlipOf) = TotalOver(fills, SlipOf) + e.slip
      /\ TotalOver(fills, CashChange) \in Int /\ TotalOver(fills, SlipOf) \in Int
  <2>1. ASSUME NEW f \in [Fills -> Int]
        PROVE  /\ TotalOver(fills, f) \in Int
               /\ TotalOver(fills', f) = TotalOver(fills, f) + f[e]
    <3>1. TotalOver(Append(fills, e), f) = TotalOver(fills, f) + f[e]
          /\ TotalOver(fills, f) \in Int
      BY <1>2, TotalOverAppend
    <3> QED BY <3>1 DEF TotalOver
  <2> QED BY <1>3, <2>1, AmountsTyped
<1>7. TotalOver(fills', ShareChange) = SumFunction(held')
  BY <1>2, <1>4, <1>6
<1>8. ASSUME NEW k \in 0 .. Len(fills') PROVE FirstTotal(fills', ShareChange, k) >= 0
  <2>1. CASE k = Len(fills')
    <3>1. FirstTotal(fills', ShareChange, k) = TotalOver(fills', ShareChange)
      BY <2>1 DEF FirstTotal, TotalOver
    <3> QED BY <1>4, <1>7, <3>1
  <2>2. CASE k # Len(fills')
    <3>1. k \in 0 .. Len(fills) /\ k \in Int
      BY <1>5, <2>2
    <3>2. \A i \in 1 .. k : fills'[i] = fills[i]
      BY <1>5, <3>1
    <3>3. FirstTotal(fills', ShareChange, k) = FirstTotal(fills, ShareChange, k)
      <4> DEFINE t == fills'
      <4>1. \A i \in 1 .. k : t[i] = fills[i]
        BY <3>2
      <4> HIDE DEF t
      <4>2. FirstTotal(t, ShareChange, k) = FirstTotal(fills, ShareChange, k)
        BY <1>2, <3>1, <4>1, FirstTotalSame
      <4> QED BY <4>2 DEF t
    <3> QED BY <1>2, <3>1, <3>3
  <2> QED BY <2>1, <2>2
<1>9. StartCash \in Int
  BY RunnerConstants
<1>10. purse' \in Int
       /\ purse' - StartCash = TotalOver(fills', CashChange) + TotalOver(fills', SlipOf)
  <2> DEFINE a == TotalOver(fills, CashChange)  b == TotalOver(fills, SlipOf)
             c == CashChange[e]  d == e.slip
  <2>1. /\ a \in Int /\ b \in Int /\ c \in Int /\ d \in Int
        /\ purse \in Int /\ purse - StartCash = a + b /\ purse' = purse + (c + d)
        /\ TotalOver(fills', CashChange) = a + c /\ TotalOver(fills', SlipOf) = b + d
    BY <1>2, <1>3, <1>6
  <2> HIDE DEF a, b, c, d
  <2>2. purse' \in Int /\ purse' - StartCash = (a + c) + (b + d)
    <3> DEFINE p == purse  q == purse'  r == StartCash
    <3>1. /\ a \in Int /\ b \in Int /\ c \in Int /\ d \in Int /\ p \in Int /\ r \in Int
          /\ p - r = a + b /\ q = p + (c + d)
      BY <1>9, <2>1
    <3> HIDE DEF p, q, r
    <3>2. q \in Int /\ q - r = (a + c) + (b + d)
      BY <3>1
    <3> QED BY <3>2 DEF q, r
  <2> QED BY <2>1, <2>2
<1>11. market' \in [Stocks -> [price : Nat, volume : Nat]]
       /\ queue' \in Seq({s \in Stocks : market'[s].price > 0})
  BY <1>2
<1>12. ReplayInv'
  BY <1>4, <1>5, <1>7, <1>8, <1>10, <1>11 DEF ReplayInv, FirstTotal, TotalOver
<1> QED BY <1>1, <1>12

\* The bars of a replay leave the account alone.
LEMMA BarStep ==
  ASSUME ReplayInv, MatchInv, NextBarOfReplay
  PROVE  ReplayInv' /\ MatchInv'
<1>1. UNCHANGED <<purse, held, ledger, fills, matched, lots, unsold, realized>>
  BY DEF NextBarOfReplay, tcaVars
<1>2. PICK marked \in SUBSET Stocks :
        /\ \E news \in [marked -> [price : RunPrices, volume : RunVolumes]] :
             market' = [s \in Stocks |-> IF s \in marked THEN news[s] ELSE market[s]]
        /\ queue' \in SetToAllKPermutations(marked)
  BY DEF NextBarOfReplay
<1>3. PICK news \in [marked -> [price : RunPrices, volume : RunVolumes]] :
        market' = [s \in Stocks |-> IF s \in marked THEN news[s] ELSE market[s]]
  BY <1>2
<1>4. /\ market' \in [Stocks -> [price : Nat, volume : Nat]]
      /\ \A s \in marked : market'[s].price > 0
  <2>1. RunPrices \subseteq Nat \ {0} /\ RunVolumes \subseteq Nat
        /\ market \in [Stocks -> [price : Nat, volume : Nat]]
    BY RunnerConstants DEF ReplayInv
  <2>2. \A s \in marked : /\ news[s] \in [price : Nat, volume : Nat]
                          /\ news[s].price \in Nat \ {0}
    BY <2>1
  <2> QED BY <1>3, <2>1, <2>2
<1>5. queue' \in Seq({s \in Stocks : market'[s].price > 0})
  <2>1. PICK some \in SUBSET marked : queue' \in SetToSeqs(some)
    BY <1>2 DEF SetToAllKPermutations
  <2>2. Cardinality(some) \in Nat
    <3>1. IsFiniteSet(some)
      BY <2>1, RunnerConstants, FS_Subset
    <3> QED BY <3>1, FS_CardinalityType
  <2>3. queue' \in [1 .. Cardinality(some) -> some]
    BY <2>1 DEF SetToSeqs
  <2>4. queue' \in Seq(some)
    BY <2>2, <2>3
  <2> DEFINE P == {s \in Stocks : market'[s].price > 0}
  <2>5. some \subseteq P
    BY <1>4
  <2> HIDE DEF P
  <2>6. queue' \in Seq(P)
    <3> DEFINE q == queue'
    <3>1. q \in Seq(some)
      BY <2>4
    <3> HIDE DEF q
    <3>2. q \in Seq(P)
      BY <2>5, <3>1, SeqMonotonic
    <3> QED BY <3>2 DEF q
  <2> QED BY <2>6 DEF P
<1>6. ReplayInv'
  BY <1>1, <1>4, <1>5 DEF ReplayInv, FirstTotal, TotalOver
<1>7. MatchInv'
  BY <1>1 DEF MatchInv, Owed, FirstTotal, TotalOver
<1> QED BY <1>6, <1>7

\* A candidate looked at: an order that fills, or none
LEMMA DecideStep ==
  ASSUME ReplayInv, MatchInv, Decide
  PROVE  ReplayInv' /\ MatchInv'
<1> DEFINE stock == Head(queue)
           Idle == UNCHANGED <<purse, held, ledger, fills>>
           P == {s \in Stocks : market[s].price > 0}
<1>1. /\ queue # <<>> /\ queue' = Tail(queue) /\ UNCHANGED market /\ UNCHANGED tcaVars
      /\ \/ \E target \in 0 .. MaxTarget : TraderBuys(stock, target)
         \/ Sold(stock, ledger[stock])
         \/ Idle
  BY DEF Decide
<1>2. /\ purse \in Int /\ held \in [Stocks -> Nat] /\ ledger \in [Stocks -> Int]
      /\ market \in [Stocks -> [price : Nat, volume : Nat]] /\ queue \in Seq(P)
      /\ fills \in Seq(Fills)
  BY DEF ReplayInv
<1>3. stock \in P /\ queue' \in Seq(P)
  <2> HIDE DEF P
  <2> QED BY <1>1, <1>2, HeadTailProperties
<1>4. /\ stock \in Stocks /\ market[stock].price \in Nat \ {0} /\ market[stock].volume \in Nat
      /\ held[stock] \in Nat /\ ledger[stock] \in Int
  <2>1. stock \in Stocks /\ market[stock].price > 0
    BY <1>3
  <2> HIDE DEF stock
  <2> QED BY <1>2, <2>1
<1> HIDE DEF stock
<1>5. ASSUME Idle PROVE ReplayInv' /\ MatchInv'
  <2>1. UNCHANGED <<purse, held, ledger, fills, market, matched, lots, unsold, realized>>
    BY <1>1, <1>5 DEF tcaVars
  <2>2. queue' \in Seq({s \in Stocks : market'[s].price > 0})
    BY <1>3, <2>1
  <2>3. ReplayInv'
    BY <2>1, <2>2 DEF ReplayInv, FirstTotal, TotalOver
  <2>4. MatchInv'
    BY <2>1 DEF MatchInv, Owed, FirstTotal, TotalOver
  <2> QED BY <2>3, <2>4
<1>6. ASSUME NEW quantity \in Int, quantity > 0,
             NEW fill, fill = FillOf(stock, "BUY", quantity),
             purse' = purse - (fill.gross + fill.commission + fill.tax),
             held' = [held EXCEPT ![stock] = @ + quantity],
             ledger' = [ledger EXCEPT ![stock] = @ + quantity],
             fills' = Append(fills, Execution(stock, fill))
      PROVE  ReplayInv' /\ MatchInv'
  <2> DEFINE e == Execution(stock, fill)
  <2>1. quantity \in Nat \ {0} /\ quantity \in Nat
    BY <1>6
  <2>2. fill = EstimateFill("BUY", market[stock].price, quantity, market[stock].volume)
    BY <1>6 DEF FillOf
  <2>3. /\ e \in Fills /\ e.side = "BUY" /\ e.qty = quantity
        /\ CashChange[e] + e.slip = -(fill.gross + fill.commission + fill.tax)
        /\ fill.gross \in Nat /\ fill.commission \in Nat /\ fill.tax \in Nat
    <3> DEFINE ref == market[stock].price  volume == market[stock].volume  side == "BUY"
    <3>1. /\ stock \in Stocks /\ side \in {"BUY", "SELL"} /\ ref \in Nat \ {0}
          /\ volume \in Nat /\ fill = EstimateFill(side, ref, quantity, volume)
          /\ e = Execution(stock, fill)
      BY <1>4, <2>2
    <3> HIDE DEF e, ref, volume, side
    <3>2. /\ e \in Fills /\ e.side = side /\ e.qty = quantity
          /\ fill.gross \in Nat /\ fill.commission \in Nat /\ fill.tax \in Nat
          /\ side = "BUY" =>
               CashChange[e] + e.slip = -(fill.gross + fill.commission + fill.tax)
          /\ side = "SELL" =>
               CashChange[e] + e.slip = fill.gross - (fill.commission + fill.tax)
      <4>1. e \in Fills
        BY <2>1, <3>1, ExecutionTyped
      <4>2. e.side = side /\ e.qty = quantity
        BY <2>1, <3>1, ExecutionTyped
      <4>3. fill.gross \in Nat /\ fill.commission \in Nat /\ fill.tax \in Nat
        BY <2>1, <3>1, ExecutionTyped
      <4>4. side = "BUY" =>
              CashChange[e] + e.slip = -(fill.gross + fill.commission + fill.tax)
        BY <2>1, <3>1, ExecutionTyped
      <4>5. side = "SELL" =>
              CashChange[e] + e.slip = fill.gross - (fill.commission + fill.tax)
        BY <2>1, <3>1, ExecutionTyped
      <4> QED BY <4>1, <4>2, <4>3, <4>4, <4>5
    <3>3. side = "BUY"
      BY DEF side
    <3> QED BY <3>2, <3>3
  <2> HIDE DEF e
  <2>4. ShareChange[e] = quantity
    BY <2>3 DEF ShareChange
  <2>5. purse' = purse + (CashChange[e] + e.slip)
    BY <1>2, <1>6, <2>3
  <2>6. ledger' \in [Stocks -> Int] /\ held[stock] + ShareChange[e] >= 0
    BY <1>2, <1>4, <1>6, <2>1, <2>4
  <2>7. /\ held' = [held EXCEPT ![stock] = @ + ShareChange[e]] /\ fills' = Append(fills, e)
    BY <1>6, <2>4 DEF e
  <2> QED BY <1>1, <1>3, <1>4, <2>3, <2>5, <2>6, <2>7, FillStep
<1>7. ASSUME NEW quantity \in Int, Bought(stock, quantity) PROVE ReplayInv' /\ MatchInv'
  BY <1>5, <1>6, <1>7 DEF Bought
<1>8. ASSUME NEW target \in 0 .. MaxTarget, TraderBuys(stock, target)
      PROVE  ReplayInv' /\ MatchInv'
  <2>1. QuantityToBuy(stock, target) \in Int
    <3> DEFINE missing == target - ledger[stock]
               price == market[stock].price * RateUnit
    <3>1. missing \in Int /\ price \in Nat \ {0}
      <4>1. RateUnit \in Nat \ {0}
        BY CostConstants
      <4> DEFINE p == market[stock].price
      <4>2. p \in Nat \ {0}
        BY <1>4
      <4> HIDE DEF p
      <4>3. p * RateUnit \in Nat \ {0}
        BY <4>1, <4>2
      <4> QED BY <1>4, <4>3 DEF p
    <3>2. QuantityToBuy(stock, target) = IF missing * price > purse THEN purse \div price ELSE missing
      BY DEF QuantityToBuy
    <3> HIDE DEF missing, price
    <3> QED BY <1>2, <3>1, <3>2
  <2> QED BY <1>5, <1>7, <1>8, <2>1 DEF TraderBuys
<1>9. ASSUME Sold(stock, ledger[stock]) PROVE ReplayInv' /\ MatchInv'
  <2> DEFINE quantity == ledger[stock]
             fill == FillOf(stock, "SELL", quantity)
             e == Execution(stock, fill)
  <2>1. CASE ~(quantity > 0 /\ quantity <= held[stock])
    BY <1>5, <1>9, <2>1 DEF Sold
  <2>2. CASE quantity > 0 /\ quantity <= held[stock]
    <3>1. /\ purse' = purse + fill.gross - (fill.commission + fill.tax)
          /\ held' = [held EXCEPT ![stock] = @ - quantity]
          /\ ledger' = [ledger EXCEPT ![stock] = @ - quantity]
          /\ fills' = Append(fills, e)
      BY <1>9, <2>2 DEF Sold
    <3>2. quantity \in Nat \ {0} /\ quantity \in Int
      BY <1>4, <2>2
    <3>3. fill = EstimateFill("SELL", market[stock].price, quantity, market[stock].volume)
      BY DEF FillOf
    <3> HIDE DEF quantity, fill
    <3>4. /\ e \in Fills /\ e.side = "SELL" /\ e.qty = quantity
          /\ CashChange[e] + e.slip = fill.gross - (fill.commission + fill.tax)
          /\ fill.gross \in Nat /\ fill.commission \in Nat /\ fill.tax \in Nat
      <4> DEFINE ref == market[stock].price  volume == market[stock].volume  side == "SELL"
      <4>1. /\ stock \in Stocks /\ side \in {"BUY", "SELL"} /\ ref \in Nat \ {0}
            /\ volume \in Nat /\ fill = EstimateFill(side, ref, quantity, volume)
            /\ e = Execution(stock, fill)
        BY <1>4, <3>3
      <4> HIDE DEF e, ref, volume, side
      <4>2. /\ e \in Fills /\ e.side = side /\ e.qty = quantity
            /\ fill.gross \in Nat /\ fill.commission \in Nat /\ fill.tax \in Nat
            /\ side = "BUY" =>
                 CashChange[e] + e.slip = -(fill.gross + fill.commission + fill.tax)
            /\ side = "SELL" =>
                 CashChange[e] + e.slip = fill.gross - (fill.commission + fill.tax)
        <5>1. e \in Fills
          BY <3>2, <4>1, ExecutionTyped
        <5>2. e.side = side /\ e.qty = quantity
          BY <3>2, <4>1, ExecutionTyped
        <5>3. fill.gross \in Nat /\ fill.commission \in Nat /\ fill.tax \in Nat
          BY <3>2, <4>1, ExecutionTyped
        <5>4. side = "BUY" =>
                CashChange[e] + e.slip = -(fill.gross + fill.commission + fill.tax)
          BY <3>2, <4>1, ExecutionTyped
        <5>5. side = "SELL" =>
                CashChange[e] + e.slip = fill.gross - (fill.commission + fill.tax)
          BY <3>2, <4>1, ExecutionTyped
        <5> QED BY <5>1, <5>2, <5>3, <5>4, <5>5
      <4>3. side = "SELL"
        BY DEF side
      <4> QED BY <4>2, <4>3
    <3> HIDE DEF e
    <3>5. ShareChange[e] = -quantity
      BY <3>4 DEF ShareChange
    <3>6. purse' = purse + (CashChange[e] + e.slip)
      BY <1>2, <3>1, <3>4
    <3>7. ledger' \in [Stocks -> Int] /\ held[stock] + ShareChange[e] >= 0
      BY <1>2, <1>4, <2>2, <3>1, <3>2, <3>5
    <3>8. held' = [held EXCEPT ![stock] = @ + ShareChange[e]]
      <4>1. held[stock] + ShareChange[e] = held[stock] - quantity
        BY <1>4, <3>2, <3>5
      <4> QED BY <3>1, <4>1
    <3> QED BY <1>1, <1>3, <1>4, <3>1, <3>4, <3>6, <3>7, <3>8, FillStep
  <2> QED BY <2>1, <2>2
<1> QED BY <1>1, <1>5, <1>8, <1>9

\* A purchase becomes a lot.
LEMMA TakeBuyStep ==
  ASSUME ReplayInv, MatchInv, TakeBuy
  PROVE  MatchInv'
<1> DEFINE n == matched + 1
           f == fills[n]
           unit == f.cost \div f.qty
           lot == [qty |-> f.qty, price |-> f.price * RateUnit, cost |-> unit]
<1>1. /\ unsold = 0 /\ matched < Len(fills) /\ f.side = "BUY"
      /\ lots' = Append(lots, lot) /\ matched' = n
      /\ UNCHANGED <<fills, unsold, realized>>
  BY DEF TakeBuy, replayVars
<1>2. /\ matched \in 0 .. Len(fills) /\ realized \in Int /\ lots \in Seq(Lots)
      /\ fills \in Seq(Fills) /\ Len(fills) \in Nat
      /\ TotalOver(lots, SharesOf) = FirstTotal(fills, ShareChange, matched) + unsold
      /\ realized = FirstTotal(fills, CashChange, matched) + TotalOver(lots, BasisOf) - Owed
  BY DEF MatchInv, ReplayInv
<1>3. n \in 1 .. Len(fills) /\ n - 1 = matched /\ n \in 0 .. Len(fills)
  BY <1>1, <1>2
<1> HIDE DEF n
<1>4. f \in Fills
  BY <1>2, <1>3, ElementOfSeq
<1>5. /\ f.qty \in Nat \ {0} /\ f.price \in Nat /\ f.cost \in Int
  BY <1>4 DEF Fills
<1>6. unit \in Int /\ f.price * RateUnit \in Int
  <2> DEFINE q == f.qty  c == f.cost  p == f.price
  <2>1. q \in Nat \ {0} /\ c \in Int /\ p \in Int /\ RateUnit \in Int
    BY <1>5, CostConstants
  <2> HIDE DEF q, c, p
  <2>2. c \div q \in Int /\ p * RateUnit \in Int
    BY <2>1
  <2> QED BY <2>2 DEF q, c, p
<1> HIDE DEF unit
<1>7. lot \in Lots
  BY <1>5, <1>6 DEF Lots
<1>8. /\ SharesOf[lot] = f.qty /\ ShareChange[f] = f.qty
      /\ CashChange[f] = -BasisOf[lot]
  BY <1>1, <1>4, <1>7 DEF SharesOf, BasisOf, ShareChange, CashChange, unit
<1> HIDE DEF lot, f
<1>9. /\ FirstTotal(fills, ShareChange, n) = FirstTotal(fills, ShareChange, matched) + ShareChange[f]
      /\ FirstTotal(fills, CashChange, n) = FirstTotal(fills, CashChange, matched) + CashChange[f]
      /\ FirstTotal(fills, ShareChange, matched) \in Int
      /\ FirstTotal(fills, CashChange, matched) \in Int
  <2>1. ASSUME NEW g \in [Fills -> Int]
        PROVE  /\ FirstTotal(fills, g, n) = FirstTotal(fills, g, matched) + g[f]
               /\ FirstTotal(fills, g, matched) \in Int
    <3>1. /\ FirstTotal(fills, g, n) = FirstTotal(fills, g, n - 1) + g[fills[n]]
          /\ FirstTotal(fills, g, matched) \in Int
      BY <1>2, <1>3, FirstTotalRuns
    <3> QED BY <1>3, <3>1 DEF f
  <2> QED BY <2>1, AmountsTyped
<1>10. /\ TotalOver(lots', SharesOf) = TotalOver(lots, SharesOf) + SharesOf[lot]
       /\ TotalOver(lots', BasisOf) = TotalOver(lots, BasisOf) + BasisOf[lot]
       /\ TotalOver(lots, BasisOf) \in Int /\ BasisOf[lot] \in Int
  <2>1. ASSUME NEW g \in [Lots -> Int]
        PROVE  /\ TotalOver(Append(lots, lot), g) = TotalOver(lots, g) + g[lot]
               /\ TotalOver(lots, g) \in Int
    BY <1>2, <1>7, TotalOverAppend
  <2>2. TotalOver(Append(lots, lot), SharesOf) = TotalOver(lots', SharesOf)
        /\ TotalOver(Append(lots, lot), BasisOf) = TotalOver(lots', BasisOf)
    BY <1>1 DEF TotalOver
  <2> QED BY <1>7, <2>1, <2>2, AmountsTyped
<1>11. Owed = 0 /\ Owed' = 0
  BY <1>1 DEF Owed
<1>12. lots' \in Seq(Lots)
  BY <1>1, <1>2, <1>7, AppendProperties
<1>13. /\ TotalOver(lots', SharesOf) = FirstTotal(fills, ShareChange, n) + unsold
       /\ realized = FirstTotal(fills, CashChange, n) + TotalOver(lots', BasisOf)
  <2>1. CashChange[f] \in Int /\ CashChange[f] = -BasisOf[lot]
    BY <1>8, <1>10
  <2>2. TotalOver(lots', SharesOf) = FirstTotal(fills, ShareChange, n) + unsold
    BY <1>1, <1>2, <1>5, <1>8, <1>9, <1>10
  <2>3. realized = FirstTotal(fills, CashChange, n) + TotalOver(lots', BasisOf)
    BY <1>2, <1>9, <1>10, <1>11, <2>1
  <2> QED BY <2>2, <2>3
<1>14. /\ unsold = 0 /\ unsold' = 0 /\ matched' \in 0 .. Len(fills')
  BY <1>1, <1>3
<1>15. /\ TotalOver(lots', SharesOf) = FirstTotal(fills', ShareChange, matched') + unsold'
       /\ realized' = FirstTotal(fills', CashChange, matched') + TotalOver(lots', BasisOf) - Owed'
  <2>1. /\ FirstTotal(fills', ShareChange, matched') = FirstTotal(fills, ShareChange, n)
        /\ FirstTotal(fills', CashChange, matched') = FirstTotal(fills, CashChange, n)
    BY <1>1
  <2>2. realized' = realized /\ FirstTotal(fills, CashChange, n) + TotalOver(lots', BasisOf) \in Int
    BY <1>1, <1>2, <1>13
  <2>3. TotalOver(lots', SharesOf) = FirstTotal(fills', ShareChange, matched') + unsold'
    BY <1>13, <1>14, <2>1
  <2>4. realized' = FirstTotal(fills', CashChange, matched') + TotalOver(lots', BasisOf) - Owed'
    <3> DEFINE a == FirstTotal(fills', CashChange, matched')  b == TotalOver(lots', BasisOf)
               c == Owed'
    <3>1. a \in Int
      <4>1. CashChange[f] \in Int
        BY <1>8, <1>10
      <4> QED BY <1>9, <2>1, <4>1
    <3>2. b \in Int
      BY <1>10
    <3>3. realized' = a + b /\ c = 0
      BY <1>11, <1>13, <2>1, <2>2
    <3> HIDE DEF a, b, c
    <3>4. realized' = a + (b - c)
      BY <3>1, <3>2, <3>3
    <3> QED BY <3>4 DEF a, b, c
  <2> QED BY <2>3, <2>4
<1> QED BY <1>1, <1>2, <1>12, <1>14, <1>15 DEF MatchInv, TotalOver

\* A sale is to be matched, all of it.
LEMMA TakeSaleStep ==
  ASSUME ReplayInv, MatchInv, TakeSale
  PROVE  MatchInv'
<1> DEFINE n == matched + 1
           f == fills[n]
<1>1. /\ unsold = 0 /\ matched < Len(fills) /\ f.side = "SELL"
      /\ unsold' = f.qty /\ matched' = n
      /\ UNCHANGED <<fills, lots, realized>>
  BY DEF TakeSale, replayVars
<1>2. /\ matched \in 0 .. Len(fills) /\ realized \in Int /\ lots \in Seq(Lots)
      /\ fills \in Seq(Fills) /\ Len(fills) \in Nat
      /\ TotalOver(lots, SharesOf) = FirstTotal(fills, ShareChange, matched) + unsold
      /\ realized = FirstTotal(fills, CashChange, matched) + TotalOver(lots, BasisOf) - Owed
  BY DEF MatchInv, ReplayInv
<1>3. n \in 1 .. Len(fills) /\ n - 1 = matched /\ n \in 0 .. Len(fills) /\ n # 0
  BY <1>1, <1>2
<1> HIDE DEF n
<1>4. f \in Fills
  BY <1>2, <1>3, ElementOfSeq
<1>5. f.qty \in Nat \ {0}
  BY <1>4 DEF Fills
<1> DEFINE brings == f.qty * (f.price * RateUnit - f.cost \div f.qty)
<1>6. ShareChange[f] = -f.qty /\ CashChange[f] = brings
  BY <1>1, <1>4 DEF ShareChange, CashChange
<1>7. Owed = 0 /\ Owed' = brings
  BY <1>1, <1>5 DEF Owed
<1> HIDE DEF brings, f
<1>8. /\ FirstTotal(fills, ShareChange, n) = FirstTotal(fills, ShareChange, matched) + ShareChange[f]
      /\ FirstTotal(fills, CashChange, n) = FirstTotal(fills, CashChange, matched) + CashChange[f]
      /\ FirstTotal(fills, ShareChange, matched) \in Int
      /\ FirstTotal(fills, CashChange, matched) \in Int
      /\ CashChange[f] \in Int
  <2>1. ASSUME NEW g \in [Fills -> Int]
        PROVE  /\ FirstTotal(fills, g, n) = FirstTotal(fills, g, matched) + g[f]
               /\ FirstTotal(fills, g, matched) \in Int
    <3>1. /\ FirstTotal(fills, g, n) = FirstTotal(fills, g, n - 1) + g[fills[n]]
          /\ FirstTotal(fills, g, matched) \in Int
      BY <1>2, <1>3, FirstTotalRuns
    <3> QED BY <1>3, <3>1 DEF f
  <2> QED BY <1>4, <2>1, AmountsTyped
<1>9. TotalOver(lots, BasisOf) \in Int
  <2>1. ASSUME NEW g \in [Lots -> Int] PROVE TotalOver(lots, g) \in Int
    BY <1>2, TotalOverTyped
  <2> QED BY <2>1, AmountsTyped
<1>10. /\ TotalOver(lots, SharesOf) = FirstTotal(fills, ShareChange, n) + f.qty
       /\ realized = FirstTotal(fills, CashChange, n) + TotalOver(lots, BasisOf) - brings
  <2>1. TotalOver(lots, SharesOf) = FirstTotal(fills, ShareChange, n) + f.qty
    BY <1>1, <1>2, <1>5, <1>6, <1>8
  <2>2. realized = FirstTotal(fills, CashChange, n) + TotalOver(lots, BasisOf) - brings
    BY <1>2, <1>6, <1>7, <1>8, <1>9
  <2> QED BY <2>1, <2>2
<1>11. /\ TotalOver(lots', SharesOf) = FirstTotal(fills', ShareChange, matched') + unsold'
       /\ realized' = FirstTotal(fills', CashChange, matched') + TotalOver(lots', BasisOf) - Owed'
  BY <1>1, <1>7, <1>10
<1>12. matched' \in 0 .. Len(fills') /\ matched' # 0 /\ unsold' \in Nat
       /\ realized' \in Int /\ lots' \in Seq(Lots)
  BY <1>1, <1>2, <1>3, <1>5
<1> QED BY <1>11, <1>12 DEF MatchInv, TotalOver, FirstTotal

\* A turn of the matching takes shares off the first lot, which is there: no more
\* are sold than were bought.
LEMMA MatchLotStep ==
  ASSUME ReplayInv, MatchInv, MatchLot
  PROVE  MatchInv'
<1> DEFINE f == fills[matched]
           brings == f.price * RateUnit - f.cost \div f.qty
           lot == lots[1]
           n == IF unsold <= lot.qty THEN unsold ELSE lot.qty
           basis == lot.price + lot.cost
           left == [lot EXCEPT !.qty = @ - n]
<1>1. /\ unsold \in Nat \ {0} /\ matched \in 1 .. Len(fills) /\ realized \in Int
      /\ lots \in Seq(Lots) /\ fills \in Seq(Fills) /\ Len(lots) \in Nat
      /\ TotalOver(lots, SharesOf) = FirstTotal(fills, ShareChange, matched) + unsold
      /\ realized = FirstTotal(fills, CashChange, matched) + TotalOver(lots, BasisOf) - Owed
      /\ UNCHANGED <<fills, matched>>
      /\ FirstTotal(fills, ShareChange, matched) >= 0
  <2>1. /\ unsold \in Nat \ {0} /\ matched \in 0 .. Len(fills) /\ realized \in Int /\ matched # 0
        /\ lots \in Seq(Lots) /\ fills \in Seq(Fills) /\ UNCHANGED <<fills, matched>>
        /\ TotalOver(lots, SharesOf) = FirstTotal(fills, ShareChange, matched) + unsold
        /\ realized = FirstTotal(fills, CashChange, matched) + TotalOver(lots, BasisOf) - Owed
    BY DEF MatchInv, ReplayInv, MatchLot, replayVars
  <2>2. FirstTotal(fills, ShareChange, matched) >= 0
    BY <2>1 DEF ReplayInv
  <2>3. matched \in 1 .. Len(fills) /\ Len(lots) \in Nat
    BY <2>1
  <2> QED BY <2>1, <2>2, <2>3
<1>2. f \in Fills
  BY <1>1, ElementOfSeq
<1>3. brings \in Int
  <2>1. f.qty \in Nat \ {0} /\ f.price \in Nat /\ f.cost \in Int
    BY <1>2 DEF Fills
  <2> DEFINE q == f.qty  c == f.cost  p == f.price
  <2>2. q \in Nat \ {0} /\ c \in Int /\ p \in Int /\ RateUnit \in Int
    BY <2>1, CostConstants
  <2> HIDE DEF q, c, p
  <2>3. c \div q \in Int /\ p * RateUnit \in Int
    BY <2>2
  <2>4. p * RateUnit - c \div q \in Int
    BY <2>3
  <2> QED BY <2>4 DEF q, c, p
<1>4. Len(lots) # 0
  <2> SUFFICES ASSUME Len(lots) = 0 PROVE FALSE
    OBVIOUS
  <2>1. ASSUME NEW g \in [Lots -> Int] PROVE TotalOver(lots, g) = 0
    BY <1>1, TotalOverNone
  <2>2. TotalOver(lots, SharesOf) = 0
    BY <2>1, AmountsTyped
  <2>3. ASSUME NEW g \in [Fills -> Int] PROVE FirstTotal(fills, g, matched) \in Int
    BY <1>1, FirstTotalRuns
  <2>4. FirstTotal(fills, ShareChange, matched) \in Int
    BY <2>3, AmountsTyped
  <2> QED BY <1>1, <2>2, <2>4
<1>5. lot \in Lots /\ lots # <<>> /\ Head(lots) = lot
  <2>1. 1 \in 1 .. Len(lots)
    BY <1>1, <1>4
  <2> QED BY <1>1, <1>4, <2>1, ElementOfSeq
<1>6. /\ realized' = realized + n * brings - n * basis
      /\ unsold' = unsold - n
      /\ lots' = IF n = lot.qty THEN Tail(lots) ELSE [lots EXCEPT ![1] = left]
  BY <1>5 DEF MatchLot
<1>7. /\ lot.qty \in Nat \ {0} /\ lot.price \in Int /\ lot.cost \in Int /\ basis \in Int
  BY <1>5 DEF Lots
<1>8. /\ n \in Nat /\ n <= unsold /\ n <= lot.qty /\ unsold - n \in Nat
  BY <1>1, <1>7
<1>9. /\ SharesOf[lot] = lot.qty /\ BasisOf[lot] = lot.qty * basis
  BY <1>5 DEF SharesOf, BasisOf
<1>10. ASSUME n # lot.qty
       PROVE  /\ left \in Lots /\ SharesOf[left] = lot.qty - n
              /\ BasisOf[left] = (lot.qty - n) * basis
  <2>1. lot.qty - n \in Nat \ {0}
    BY <1>7, <1>8, <1>10
  <2>2. left \in Lots /\ left.qty = lot.qty - n /\ left.price = lot.price /\ left.cost = lot.cost
    <3> HIDE DEF n
    <3> QED BY <1>5, <2>1 DEF Lots
  <2> HIDE DEF left
  <2> QED BY <2>2 DEF SharesOf, BasisOf
<1> HIDE DEF left, lot, n, basis, brings, f
<1>11. \A x, y, z \in Int : (x - y) * z = x * z - y * z /\ x * z \in Int
  OBVIOUS
<1>12. /\ lots' \in Seq(Lots)
       /\ \A g \in [Lots -> Int] :
            /\ TotalOver(lots, g) \in Int /\ TotalOver(lots', g) \in Int
            /\ n = lot.qty => TotalOver(lots', g) = TotalOver(lots, g) - g[lot]
            /\ n # lot.qty => TotalOver(lots', g) = TotalOver(lots, g) - g[lot] + g[left]
  <2>1. CASE n = lot.qty
    <3>1. lots' = Tail(lots)
      BY <1>6, <2>1
    <3>2. Tail(lots) \in Seq(Lots)
      BY <1>1, <1>5
    <3>3. ASSUME NEW g \in [Lots -> Int]
          PROVE  /\ TotalOver(lots, g) \in Int /\ TotalOver(Tail(lots), g) \in Int
                 /\ TotalOver(Tail(lots), g) = TotalOver(lots, g) - g[lot]
      <4>1. /\ TotalOver(Tail(lots), g) \in Int
            /\ TotalOver(lots, g) = g[lots[1]] + TotalOver(Tail(lots), g)
        BY <1>1, <1>4, TotalOverTail
      <4>2. g[lot] \in Int /\ lots[1] = lot
        BY <1>5 DEF lot
      <4> QED BY <4>1, <4>2
    <3>4. ASSUME NEW g \in [Lots -> Int]
          PROVE  /\ TotalOver(lots, g) \in Int /\ TotalOver(lots', g) \in Int
                 /\ TotalOver(lots', g) = TotalOver(lots, g) - g[lot]
      BY <3>1, <3>3 DEF TotalOver
    <3>5. lots' \in Seq(Lots)
      BY <3>1, <3>2
    <3> QED BY <2>1, <3>4, <3>5
  <2>2. CASE n # lot.qty
    <3> DEFINE t == [lots EXCEPT ![1] = left]
    <3>1. lots' = t
      BY <1>6, <2>2
    <3>2. left \in Lots
      BY <1>10, <2>2
    <3>3. t \in Seq(Lots)
      <4>1. 1 \in 1 .. Len(lots)
        BY <1>1, <1>4
      <4> QED BY <1>1, <3>2, <4>1, ExceptSeq
    <3>4. ASSUME NEW g \in [Lots -> Int]
          PROVE  /\ TotalOver(lots, g) \in Int /\ TotalOver(t, g) \in Int
                 /\ TotalOver(t, g) = TotalOver(lots, g) - g[lot] + g[left]
      <4>1. TotalOver(t, g) = TotalOver(lots, g) - g[lots[1]] + g[left]
        BY <1>1, <1>4, <3>2, TotalOverFirst
      <4>2. TotalOver(lots, g) \in Int
        BY <1>1, TotalOverTyped
      <4>3. TotalOver(t, g) \in Int
        BY <3>3, TotalOverTyped
      <4> QED BY <4>1, <4>2, <4>3 DEF lot
    <3> HIDE DEF t
    <3>5. ASSUME NEW g \in [Lots -> Int]
          PROVE  /\ TotalOver(lots, g) \in Int /\ TotalOver(lots', g) \in Int
                 /\ TotalOver(lots', g) = TotalOver(lots, g) - g[lot] + g[left]
      BY <3>1, <3>4 DEF TotalOver
    <3>6. lots' \in Seq(Lots)
      BY <3>1, <3>3
    <3> QED BY <2>2, <3>5, <3>6
  <2> QED BY <2>1, <2>2
<1>13. /\ TotalOver(lots, SharesOf) \in Int /\ TotalOver(lots', SharesOf) \in Int
       /\ TotalOver(lots, BasisOf) \in Int /\ TotalOver(lots', BasisOf) \in Int
  BY <1>12, AmountsTyped
<1>14. TotalOver(lots', SharesOf) = TotalOver(lots, SharesOf) - n
  <2>1. CASE n = lot.qty
    <3>1. TotalOver(lots', SharesOf) = TotalOver(lots, SharesOf) - SharesOf[lot]
      BY <1>12, <2>1, AmountsTyped
    <3> QED BY <1>9, <2>1, <3>1
  <2>2. CASE n # lot.qty
    <3>1. /\ TotalOver(lots', SharesOf) =
               TotalOver(lots, SharesOf) - SharesOf[lot] + SharesOf[left]
      BY <1>12, <2>2, AmountsTyped
    <3>2. SharesOf[left] = lot.qty - n /\ SharesOf[lot] = lot.qty
      BY <1>9, <1>10, <2>2
    <3> QED BY <1>7, <1>8, <1>13, <3>1, <3>2
  <2> QED BY <2>1, <2>2
<1>15. TotalOver(lots', BasisOf) = TotalOver(lots, BasisOf) - n * basis
  <2>1. CASE n = lot.qty
    <3>1. TotalOver(lots', BasisOf) = TotalOver(lots, BasisOf) - BasisOf[lot]
      BY <1>12, <2>1, AmountsTyped
    <3> QED BY <1>9, <2>1, <3>1
  <2>2. CASE n # lot.qty
    <3>1. /\ TotalOver(lots', BasisOf) =
               TotalOver(lots, BasisOf) - BasisOf[lot] + BasisOf[left]
      BY <1>12, <2>2, AmountsTyped
    <3> DEFINE q == lot.qty
    <3>2. BasisOf[left] = (q - n) * basis /\ BasisOf[lot] = q * basis
      BY <1>9, <1>10, <2>2
    <3>3. q \in Int /\ n \in Int
      BY <1>7, <1>8
    <3> HIDE DEF q
    <3>4. (q - n) * basis = q * basis - n * basis /\ q * basis \in Int /\ n * basis \in Int
      BY <1>7, <1>11, <3>3
    <3> QED BY <1>13, <3>1, <3>2, <3>4
  <2> QED BY <2>1, <2>2
<1>16. Owed = unsold * brings
  BY <1>1 DEF Owed, brings, f
<1>17. Owed' = unsold * brings - n * brings /\ unsold * brings \in Int /\ n * brings \in Int
  <2>1. Owed' = (unsold - n) * brings
    <3>1. CASE unsold - n = 0
      <4>1. 0 * brings = 0
        BY <1>3
      <4>2. Owed' = 0
        BY <1>6, <3>1 DEF Owed
      <4> QED BY <3>1, <4>1, <4>2
    <3>2. CASE unsold - n # 0
      <4>1. Owed' = unsold' * brings
        BY <1>1, <1>6, <3>2 DEF Owed, brings, f
      <4> QED BY <1>6, <4>1
    <3> QED BY <3>1, <3>2
  <2>2. unsold \in Int /\ n \in Int
    BY <1>1, <1>8
  <2> QED BY <1>3, <1>11, <2>1, <2>2
<1>18. n * basis \in Int
  <2>1. n \in Int
    BY <1>8
  <2> QED BY <1>7, <1>11, <2>1
<1>19. /\ FirstTotal(fills, ShareChange, matched) \in Int
       /\ FirstTotal(fills, CashChange, matched) \in Int
  <2>1. ASSUME NEW g \in [Fills -> Int] PROVE FirstTotal(fills, g, matched) \in Int
    BY <1>1, FirstTotalRuns
  <2> QED BY <2>1, AmountsTyped
<1>20. TotalOver(lots', SharesOf) = FirstTotal(fills', ShareChange, matched') + unsold'
  <2>1. FirstTotal(fills', ShareChange, matched') = FirstTotal(fills, ShareChange, matched)
    BY <1>1
  <2> QED BY <1>1, <1>6, <1>8, <1>13, <1>14, <1>19, <2>1
<1>21. realized' = FirstTotal(fills', CashChange, matched') + TotalOver(lots', BasisOf) - Owed'
  <2> DEFINE a == FirstTotal(fills, CashChange, matched)  b == TotalOver(lots, BasisOf)
             c == unsold * brings  d == n * brings  e == n * basis
             x == TotalOver(lots', BasisOf)  y == Owed'
  <2>1. FirstTotal(fills', CashChange, matched') = a
    BY <1>1
  <2>2. /\ a \in Int /\ b \in Int /\ c \in Int /\ d \in Int /\ e \in Int
        /\ realized = a + b - c /\ realized' = realized + d - e
        /\ x = b - e /\ y = c - d
    BY <1>1, <1>6, <1>13, <1>15, <1>16, <1>17, <1>18, <1>19
  <2> HIDE DEF a, b, c, d, e, x, y
  <2>3. realized' = a + x - y
    <3>1. x = b - e /\ y = c - d /\ realized' = (a + b - c) + d - e
      BY <2>2
    <3>2. (a + b - c) + d - e = a + (b - e) - (c - d)
      BY <2>2
    <3> QED BY ONLY <3>1, <3>2, Zenon
  <2>4. a + x - y = FirstTotal(fills', CashChange, matched') + TotalOver(lots', BasisOf) - Owed'
    BY <2>1 DEF x, y
  <2> QED BY <2>3, <2>4
<1>22. realized' \in Int
  <2> DEFINE d == n * brings  e == n * basis  r == realized
  <2>1. realized' = r + d - e /\ r \in Int /\ d \in Int /\ e \in Int
    BY <1>1, <1>6, <1>17, <1>18
  <2> HIDE DEF d, e, r
  <2>2. r + d - e \in Int
    BY <2>1
  <2> QED BY <2>1, <2>2
<1>23. matched' \in 0 .. Len(fills') /\ matched' # 0 /\ unsold' \in Nat
  BY <1>1, <1>6, <1>8
<1> QED BY <1>12, <1>20, <1>21, <1>22, <1>23 DEF MatchInv, TotalOver, FirstTotal

\* No step of the replay or of its analysis breaks the accounts.
LEMMA RunnerStep == RunnerInv /\ [RunnerNext]_runnerVars => RunnerInv'
<1> SUFFICES ASSUME RunnerInv, [RunnerNext]_runnerVars, inherited' = <<>>
             PROVE  ReplayInv' /\ MatchInv'
  BY DEF RunnerInv
<1>1. inherited = <<>>
  BY DEF RunnerNext, NextBarOfReplay, Decide, TakeBuy, TakeSale, MatchLot, runnerVars
<1>2. ReplayInv /\ MatchInv
  BY <1>1 DEF RunnerInv
<1>3. ASSUME UNCHANGED replayVars PROVE ReplayInv'
  <2>1. UNCHANGED <<purse, held, ledger, market, queue, fills>>
    BY <1>3 DEF replayVars
  <2> QED BY <1>2, <2>1 DEF ReplayInv, FirstTotal, TotalOver
<1>4. CASE NextBarOfReplay
  BY <1>2, <1>4, BarStep
<1>5. CASE Decide
  BY <1>2, <1>5, DecideStep
<1>6. CASE TakeBuy
  <2>1. UNCHANGED replayVars
    BY <1>6 DEF TakeBuy
  <2> QED BY <1>2, <1>3, <1>6, <2>1, TakeBuyStep
<1>7. CASE TakeSale
  <2>1. UNCHANGED replayVars
    BY <1>7 DEF TakeSale
  <2> QED BY <1>2, <1>3, <1>7, <2>1, TakeSaleStep
<1>8. CASE MatchLot
  <2>1. UNCHANGED replayVars
    BY <1>8 DEF MatchLot
  <2> QED BY <1>2, <1>3, <1>8, <2>1, MatchLotStep
<1>9. CASE UNCHANGED runnerVars
  <2>1. UNCHANGED replayVars /\ UNCHANGED <<matched, lots, unsold, realized, fills>>
    BY <1>9 DEF runnerVars, replayVars
  <2>2. MatchInv'
    BY <1>2, <2>1 DEF MatchInv, Owed, FirstTotal, TotalOver
  <2> QED BY <1>3, <2>1, <2>2
<1> QED BY <1>4, <1>5, <1>6, <1>7, <1>8, <1>9 DEF RunnerNext

\* When all is matched, what the analysis says is what the replay did.
LEMMA AnalysedAddsUp == RunnerInv => FifoAddsUp
<1> SUFFICES ASSUME ReplayInv, MatchInv, Analysed PROVE
      /\ Total([i \in DOMAIN lots |-> lots[i].qty]) = SumFunction(held)
      /\ realized = (purse - StartCash)
                    + Total([i \in DOMAIN lots |-> lots[i].qty * (lots[i].price + lots[i].cost)])
                    - Total([i \in DOMAIN fills |-> fills[i].slip])
  BY DEF FifoAddsUp, RunnerInv
<1>1. unsold = 0 /\ matched = Len(fills)
  BY DEF Analysed
<1>2. /\ lots \in Seq(Lots) /\ fills \in Seq(Fills) /\ purse \in Int /\ StartCash \in Int
      /\ TotalOver(lots, SharesOf) = FirstTotal(fills, ShareChange, matched) + unsold
      /\ realized = FirstTotal(fills, CashChange, matched) + TotalOver(lots, BasisOf) - Owed
      /\ TotalOver(fills, ShareChange) = SumFunction(held)
      /\ purse - StartCash = TotalOver(fills, CashChange) + TotalOver(fills, SlipOf)
  BY RunnerConstants DEF MatchInv, ReplayInv
<1>3. /\ DOMAIN lots = 1 .. Len(lots) /\ \A i \in DOMAIN lots : lots[i] \in Lots
      /\ DOMAIN fills = 1 .. Len(fills) /\ \A i \in DOMAIN fills : fills[i] \in Fills
  BY <1>2, ElementOfSeq
<1>4. Total([i \in DOMAIN lots |-> lots[i].qty]) = TotalOver(lots, SharesOf)
  <2>1. [i \in DOMAIN lots |-> lots[i].qty] = [i \in 1 .. Len(lots) |-> SharesOf[lots[i]]]
    BY <1>3 DEF SharesOf
  <2> QED BY <2>1 DEF TotalOver
<1>5. Total([i \in DOMAIN lots |-> lots[i].qty * (lots[i].price + lots[i].cost)])
        = TotalOver(lots, BasisOf)
  <2>1. \A i \in DOMAIN lots :
          BasisOf[lots[i]] = lots[i].qty * (lots[i].price + lots[i].cost)
    BY <1>3 DEF BasisOf
  <2>2. [i \in DOMAIN lots |-> lots[i].qty * (lots[i].price + lots[i].cost)]
          = [i \in 1 .. Len(lots) |-> BasisOf[lots[i]]]
    BY <1>3, <2>1
  <2> QED BY <2>2 DEF TotalOver
<1>6. Total([i \in DOMAIN fills |-> fills[i].slip]) = TotalOver(fills, SlipOf)
  <2>1. [i \in DOMAIN fills |-> fills[i].slip] = [i \in 1 .. Len(fills) |-> SlipOf[fills[i]]]
    BY <1>3 DEF SlipOf
  <2> QED BY <2>1 DEF TotalOver
<1>7. /\ FirstTotal(fills, ShareChange, matched) = TotalOver(fills, ShareChange)
      /\ FirstTotal(fills, CashChange, matched) = TotalOver(fills, CashChange)
  BY <1>1 DEF FirstTotal, TotalOver
<1>8. Owed = 0
  BY <1>1 DEF Owed
<1>9. /\ TotalOver(fills, ShareChange) \in Int /\ TotalOver(fills, CashChange) \in Int
      /\ TotalOver(fills, SlipOf) \in Int
      /\ TotalOver(lots, BasisOf) \in Int
  <2>1. ASSUME NEW g \in [Fills -> Int] PROVE TotalOver(fills, g) \in Int
    BY <1>2, TotalOverTyped
  <2>2. ASSUME NEW g \in [Lots -> Int] PROVE TotalOver(lots, g) \in Int
    BY <1>2, TotalOverTyped
  <2> QED BY <2>1, <2>2, AmountsTyped
<1>10. Total([i \in DOMAIN lots |-> lots[i].qty]) = SumFunction(held)
  BY <1>1, <1>2, <1>4, <1>7, <1>9
<1>11. realized = (purse - StartCash)
                    + TotalOver(lots, BasisOf) - TotalOver(fills, SlipOf)
  <2> DEFINE a == TotalOver(fills, CashChange)  b == TotalOver(lots, BasisOf)
             c == TotalOver(fills, SlipOf)  p == purse - StartCash
  <2>1. a \in Int /\ b \in Int /\ c \in Int /\ p = a + c /\ realized = a + b - 0
    BY <1>2, <1>7, <1>8, <1>9
  <2> HIDE DEF a, b, c, p
  <2>2. realized = p + b - c
    BY <2>1
  <2> QED BY <2>2 DEF a, b, c, p
<1> QED BY <1>5, <1>6, <1>10, <1>11

\* However many bars, stocks and fills: for an account without a past the cost
\* analysis of a replay adds up with its simulated broker, in shares and in cash.
THEOREM FifoSound == RunnerSpec => []FifoAddsUp
<1>1. RunnerSpec => []RunnerInv
  BY RunnerInitInv, RunnerStep, PTL DEF RunnerSpec
<1> QED BY <1>1, AnalysedAddsUp, PTL
-----------------------------------------------------------------------------
(* The calibrator. *)

\* A sample by the model, and a pool of labels
Outcomes == [score : Scores, label : {0, 1}]
Pools == [sum : Int, count : Nat \ {0}]

\* What is added up along the samples, and along the pools
LabelOf == [o \in Outcomes |-> o.label]
CountOf == [b \in Pools |-> b.count]

\* How many of the first k labels are 1, and where the k-th pool ends
Ones(o, k) == FirstTotal(o, LabelOf, k)
End(b, k) == FirstTotal(b, CountOf, k)

\* Every pool holds the labels between its ends, and the mean over any of its
\* first labels is at least its own: on a walk up by the labels, the straight
\* line over a pool lies below the walk.
PoolsFit(o, b) ==
  /\ End(b, Len(b)) <= Len(o)
  /\ \A k \in 1 .. Len(b) : b[k].sum = Ones(o, End(b, k)) - Ones(o, End(b, k - 1))
  /\ \A k \in 1 .. Len(b) : \A t \in End(b, k - 1) .. End(b, k) :
       (Ones(o, t) - Ones(o, End(b, k - 1))) * b[k].count >= b[k].sum * (t - End(b, k - 1))

\* Of the first n pools each has a smaller mean than those after it.
Climbs(b, n) == \A j, k \in 1 .. n : j < k => ~AtLeast(b[j], b[k])

\* The pools hold the labels taken so far and fit them; the curve is fitted when
\* all are taken and no two pools violate the order.
CalibrationInv ==
  /\ outcomes \in Seq(Outcomes)
  /\ \A i, j \in 1 .. Len(outcomes) : i <= j => outcomes[i].score <= outcomes[j].score
  /\ blocks \in Seq(Pools)
  /\ End(blocks, Len(blocks)) = taken
  /\ PoolsFit(outcomes, blocks)
  /\ Climbs(blocks, Len(blocks) - 1)
  /\ curve # <<>> => /\ ~Violating /\ taken = Len(outcomes) /\ outcomes # <<>>
                     /\ curve = Curve(Fitted)
-----------------------------------------------------------------------------
\* A line that rises no faster stays below.
LEMMA LineBelow ==
  ASSUME NEW x \in Int, NEW u \in Nat, NEW s \in Int, NEW c \in Nat \ {0},
         NEW t \in Int, NEW e \in Nat \ {0},
         x * c >= s * u, s * e >= t * c
  PROVE  x * e >= t * u
<1>1. (x * c) * e >= (s * u) * e /\ (s * e) * u >= (t * c) * u
  <2>1. x * c \in Int /\ s * u \in Int /\ s * e \in Int /\ t * c \in Int
    OBVIOUS
  <2> DEFINE xc == x * c  su == s * u  se == s * e  tc == t * c
  <2>2. xc \in Int /\ su \in Int /\ se \in Int /\ tc \in Int /\ xc >= su /\ se >= tc
    BY <2>1
  <2> HIDE DEF xc, su, se, tc
  <2>3. su * e <= xc * e
    BY <2>2, Factor
  <2>4. tc * u <= se * u
    BY <2>2, Factor
  <2>5. /\ su * e \in Int /\ xc * e \in Int /\ tc * u \in Int /\ se * u \in Int
    BY <2>2
  <2>6. xc * e >= su * e /\ se * u >= tc * u
    BY <2>3, <2>4, <2>5
  <2> QED BY <2>6 DEF xc, su, se, tc
<1>2. (x * c) * e = (x * e) * c /\ (s * u) * e = (s * e) * u /\ (t * c) * u = (t * u) * c
  OBVIOUS
<1>3. (t * u) * c <= (x * e) * c
  BY <1>1, <1>2
<1>4. t * u \in Int /\ x * e \in Int
  OBVIOUS
<1> DEFINE tu == t * u  xe == x * e
<1>5. tu \in Int /\ xe \in Int /\ tu * c <= xe * c /\ c \in Nat /\ c # 0
  BY <1>3, <1>4
<1> HIDE DEF tu, xe
<1>6. tu <= xe
  BY <1>5, Factor
<1>7. xe >= tu
  BY <1>5, <1>6
<1> QED BY <1>7 DEF tu, xe

\* Two lines of which the second rises no faster, and the one over both: from
\* the second on it is above it.
LEMMA LineOverBoth ==
  ASSUME NEW a \in Int, NEW b \in Int, NEW c \in Nat \ {0}, NEW d \in Nat \ {0},
         NEW y \in Int, NEW v \in 0 .. d, y * d >= b * v, a * d >= b * c
  PROVE  (a + y) * (c + d) >= (a + b) * (c + v)
<1>1. v \in Nat /\ d - v \in Nat /\ c + d \in Nat
  OBVIOUS
<1>2. a * d - b * c \in Nat
  <2>1. a * d \in Int /\ b * c \in Int
    OBVIOUS
  <2> DEFINE ad == a * d  bc == b * c
  <2>2. ad \in Int /\ bc \in Int /\ ad >= bc
    BY <2>1
  <2> HIDE DEF ad, bc
  <2>3. ad - bc \in Nat
    BY <2>2
  <2> QED BY <2>3 DEF ad, bc
<1>3. (a * d - b * c) * (d - v) >= 0
  <2> DEFINE p == a * d - b * c  q == d - v
  <2>1. p \in Nat /\ q \in Nat
    BY <1>1, <1>2
  <2> HIDE DEF p, q
  <2>2. p * q >= 0
    BY <2>1
  <2> QED BY <2>2 DEF p, q
<1>4. (y * d) * (c + d) >= (b * v) * (c + d)
  <2> DEFINE p == y * d  q == b * v  r == c + d
  <2>1. p \in Int /\ q \in Int /\ r \in Nat /\ q <= p
    BY <1>1
  <2> HIDE DEF p, q, r
  <2>2. q * r <= p * r
    BY <2>1, Factor
  <2>3. q * r \in Int /\ p * r \in Int
    BY <2>1
  <2>4. p * r >= q * r
    BY <2>2, <2>3
  <2> QED BY <2>4 DEF p, q, r
<1>5. ((a + b) * (c + v)) * d =
        ((a + y) * (c + d)) * d - (a * d - b * c) * (d - v)
          - ((y * d) * (c + d) - (b * v) * (c + d))
  BY <1>1
<1>6. ((a + b) * (c + v)) * d <= ((a + y) * (c + d)) * d
  <2> DEFINE l == ((a + b) * (c + v)) * d  r == ((a + y) * (c + d)) * d
             p == (a * d - b * c) * (d - v)  q == (y * d) * (c + d)  w == (b * v) * (c + d)
  <2>1. l \in Int /\ r \in Int /\ p \in Int /\ q \in Int /\ w \in Int
    BY <1>1
  <2>2. p >= 0 /\ q >= w /\ l = r - p - (q - w)
    BY <1>3, <1>4, <1>5
  <2> HIDE DEF l, r, p, q, w
  <2>3. l <= r
    BY <2>1, <2>2
  <2> QED BY <2>3 DEF l, r
<1> DEFINE l == (a + b) * (c + v)  r == (a + y) * (c + d)
<1>7. l \in Int /\ r \in Int /\ l * d <= r * d /\ d \in Nat /\ d # 0
  BY <1>1, <1>6
<1> HIDE DEF l, r
<1>8. l <= r
  BY <1>7, Factor
<1>9. r >= l
  BY <1>7, <1>8
<1> QED BY <1>9 DEF l, r

\* Comparing means is transitive.
LEMMA MeansCompare ==
  ASSUME NEW a \in Pools, NEW b \in Pools, NEW c \in Pools
  PROVE  /\ AtLeast(a, b) /\ AtLeast(b, c) => AtLeast(a, c)
         /\ AtLeast(a, b) \/ AtLeast(b, a)
         /\ ~AtLeast(a, b) /\ ~AtLeast(b, c) => ~AtLeast(a, c)
<1>1. /\ a.sum \in Int /\ b.sum \in Int /\ c.sum \in Int
      /\ a.count \in Nat \ {0} /\ b.count \in Nat \ {0} /\ c.count \in Nat \ {0}
  BY DEF Pools
<1>2. \A p, q \in Pools : AtLeast(p, q) \/ AtLeast(q, p)
  <2> SUFFICES ASSUME NEW p \in Pools, NEW q \in Pools PROVE AtLeast(p, q) \/ AtLeast(q, p)
    OBVIOUS
  <2> DEFINE x == p.sum * q.count  y == q.sum * p.count
  <2>1. x \in Int /\ y \in Int
    <3>1. p.sum \in Int /\ q.count \in Int /\ q.sum \in Int /\ p.count \in Int
      BY DEF Pools
    <3> DEFINE e == p.sum  f == q.count  g == q.sum  h == p.count
    <3>2. e \in Int /\ f \in Int /\ g \in Int /\ h \in Int
      BY <3>1
    <3> HIDE DEF e, f, g, h
    <3>3. e * f \in Int /\ g * h \in Int
      BY <3>2
    <3> QED BY <3>3 DEF e, f, g, h
  <2>2. (AtLeast(p, q) <=> x >= y) /\ (AtLeast(q, p) <=> y >= x)
    BY DEF AtLeast
  <2> HIDE DEF x, y
  <2> QED BY <2>1, <2>2
<1>3. ASSUME NEW p \in Pools, NEW q \in Pools, NEW r \in Pools, AtLeast(p, q), AtLeast(q, r)
      PROVE  AtLeast(p, r)
  <2> DEFINE e == p.sum  f == p.count  g == q.sum  h == q.count  i == r.sum  j == r.count
  <2>1. /\ e \in Int /\ f \in Nat \ {0} /\ g \in Int /\ h \in Nat \ {0}
        /\ i \in Int /\ j \in Nat \ {0} /\ f \in Nat
    BY DEF Pools
  <2>2. e * h >= g * f /\ g * j >= i * h
    BY <1>3 DEF AtLeast
  <2> HIDE DEF e, f, g, h, i, j
  <2>3. e * j >= i * f
    BY <2>1, <2>2, LineBelow
  <2> QED BY <2>3 DEF e, f, g, h, i, j, AtLeast
<1>4. AtLeast(a, b) /\ AtLeast(b, c) => AtLeast(a, c)
  BY <1>3
<1>5. ~AtLeast(a, b) /\ ~AtLeast(b, c) => ~AtLeast(a, c)
  <2> SUFFICES ASSUME ~AtLeast(a, b), ~AtLeast(b, c), AtLeast(a, c) PROVE FALSE
    OBVIOUS
  <2>1. AtLeast(c, b)
    BY <1>2
  <2>2. AtLeast(a, b)
    BY <1>3, <2>1
  <2> QED BY <2>2
<1> QED BY <1>2, <1>4, <1>5

\* Where the pools end, by their counts
LEMMA EndRuns ==
  ASSUME NEW b \in Seq(Pools)
  PROVE  /\ End(b, 0) = 0
         /\ \A k \in 0 .. Len(b) : End(b, k) \in Nat
         /\ \A k \in 1 .. Len(b) : /\ b[k] \in Pools
                                   /\ End(b, k) = End(b, k - 1) + b[k].count
         /\ \A j, k \in 0 .. Len(b) : j <= k => End(b, j) <= End(b, k)
<1> DEFINE n == Len(b)
<1>1. n \in Nat /\ \A k \in 1 .. n : b[k] \in Pools
  BY ElementOfSeq
<1>2. CountOf \in [Pools -> Int] /\ \A p \in Pools : CountOf[p] = p.count /\ p.count \in Nat \ {0}
  BY DEF CountOf, Pools
<1>3. /\ End(b, 0) = 0 /\ \A k \in 0 .. n : End(b, k) \in Int
      /\ \A k \in 1 .. n : End(b, k) = End(b, k - 1) + CountOf[b[k]]
  <2>1. /\ FirstTotal(b, CountOf, 0) = 0
        /\ \A k \in 0 .. Len(b) : FirstTotal(b, CountOf, k) \in Int
        /\ \A k \in 1 .. Len(b) :
              FirstTotal(b, CountOf, k) = FirstTotal(b, CountOf, k - 1) + CountOf[b[k]]
    BY <1>2, FirstTotalRuns
  <2> QED BY <2>1 DEF End
<1>4. \A k \in 1 .. n : End(b, k) = End(b, k - 1) + b[k].count /\ b[k].count \in Nat \ {0}
  BY <1>1, <1>2, <1>3
<1> HIDE DEF n
<1>5. \A k \in 0 .. n : End(b, k) \in Nat
  <2> DEFINE A == {k \in 0 .. n : End(b, k) \in Nat}
  <2>1. 0 \in A
    BY <1>1, <1>3
  <2>2. ASSUME NEW k \in 1 .. n, k - 1 \in A PROVE k \in A
    <3>1. End(b, k) \in Nat
      BY <2>2, <1>4
    <3> QED BY <3>1
  <2>3. \A k \in 0 .. n : k \in A
    <3> HIDE DEF A
    <3> QED BY <2>1, <2>2, <1>1, UpTo
  <2> QED BY <2>3
<1>6. ASSUME NEW j \in 0 .. n
      PROVE  \A k \in 0 .. n : j <= k => End(b, j) <= End(b, k)
  <2> DEFINE A == {k \in 0 .. n : j <= k => End(b, j) <= End(b, k)}
  <2>1. 0 \in A
    <3>1. 0 \in 0 .. n /\ (j <= 0 => j = 0)
      BY <1>1
    <3>2. End(b, 0) <= End(b, 0)
      BY <1>3
    <3> QED BY <3>1, <3>2
  <2>2. ASSUME NEW k \in 1 .. n, k - 1 \in A PROVE k \in A
    <3>1. k \in 0 .. n /\ k - 1 \in 0 .. n /\ End(b, k) \in Nat /\ End(b, k - 1) \in Nat
          /\ End(b, j) \in Nat
      BY <1>1, <1>5
    <3>2. End(b, k) >= End(b, k - 1)
      BY <3>1, <1>4
    <3>3. CASE j <= k - 1
      BY <2>2, <3>1, <3>2, <3>3
    <3>4. CASE ~(j <= k - 1)
      <4>1. j <= k => j = k
        BY <3>4
      <4> QED BY <3>1, <4>1
    <3> QED BY <3>3, <3>4
  <2>3. \A k \in 0 .. n : k \in A
    <3> HIDE DEF A
    <3> QED BY <2>1, <2>2, <1>1, UpTo
  <2> QED BY <2>3
<1> QED BY <1>1, <1>3, <1>4, <1>5, <1>6 DEF n

\* How many labels are 1, label by label
LEMMA OnesRuns ==
  ASSUME NEW o \in Seq(Outcomes)
  PROVE  /\ Ones(o, 0) = 0
         /\ \A k \in 0 .. Len(o) : Ones(o, k) \in Int
         /\ \A k \in 1 .. Len(o) : /\ o[k] \in Outcomes /\ o[k].label \in {0, 1}
                                   /\ Ones(o, k) = Ones(o, k - 1) + o[k].label
<1>1. /\ LabelOf \in [Outcomes -> Int]
      /\ \A x \in Outcomes : LabelOf[x] = x.label /\ x.label \in {0, 1}
  BY DEF LabelOf, Outcomes
<1>2. /\ FirstTotal(o, LabelOf, 0) = 0
      /\ \A k \in 0 .. Len(o) : FirstTotal(o, LabelOf, k) \in Int
      /\ \A k \in 1 .. Len(o) :
            FirstTotal(o, LabelOf, k) = FirstTotal(o, LabelOf, k - 1) + LabelOf[o[k]]
  BY <1>1, FirstTotalRuns
<1>3. \A k \in 1 .. Len(o) : o[k] \in Outcomes
  BY ElementOfSeq
<1> QED BY <1>1, <1>2, <1>3 DEF Ones

\* The first of the pools fit by themselves.
LEMMA PoolsFront ==
  ASSUME NEW o \in Seq(Outcomes), NEW b \in Seq(Pools), PoolsFit(o, b), NEW m \in 0 .. Len(b)
  PROVE  /\ SubSeq(b, 1, m) \in Seq(Pools) /\ Len(SubSeq(b, 1, m)) = m
         /\ \A k \in 1 .. m : SubSeq(b, 1, m)[k] = b[k]
         /\ \A k \in 0 .. m : End(SubSeq(b, 1, m), k) = End(b, k)
         /\ PoolsFit(o, SubSeq(b, 1, m))
<1> DEFINE q == SubSeq(b, 1, m)  n == Len(b)
<1>1. n \in Nat /\ m \in Nat /\ m <= n /\ \A k \in 1 .. n : b[k] \in Pools
  BY ElementOfSeq
<1>2. q \in Seq(Pools) /\ Len(q) = m /\ \A k \in 1 .. m : q[k] = b[k]
  <2>1. q = [k \in 1 .. m |-> b[k]]
    BY <1>1
  <2>2. \A k \in 1 .. m : b[k] \in Pools
    BY <1>1
  <2>3. q \in [1 .. m -> Pools]
    BY <2>1, <2>2
  <2> QED BY <1>1, <2>1, <2>3
<1> HIDE DEF q
<1>3. ASSUME NEW k \in 0 .. m PROVE End(q, k) = End(b, k)
  <2>1. k \in Int /\ \A i \in 1 .. k : q[i] = b[i]
    BY <1>1, <1>2
  <2> QED BY <2>1, FirstTotalSame DEF End
<1>4. End(q, m) <= Len(o)
  <2>1. End(b, m) <= End(b, n) /\ End(b, m) \in Nat /\ End(b, n) \in Nat
    BY <1>1, EndRuns
  <2>2. End(q, m) = End(b, m) /\ End(b, n) <= Len(o) /\ Len(o) \in Nat
    BY <1>1, <1>3 DEF PoolsFit
  <2> QED BY <2>1, <2>2
<1>5. \A k \in 1 .. m : /\ k \in 1 .. n /\ q[k] = b[k]
                        /\ End(q, k) = End(b, k) /\ End(q, k - 1) = End(b, k - 1)
  BY <1>1, <1>2, <1>3
<1>6. PoolsFit(o, q)
  BY <1>2, <1>4, <1>5 DEF PoolsFit
<1> QED BY <1>2, <1>3, <1>6 DEF q

\* A pool that fits the labels after them keeps pools that fit.
LEMMA PoolsAppend ==
  ASSUME NEW o \in Seq(Outcomes), NEW q \in Seq(Pools), PoolsFit(o, q), NEW x \in Pools,
         NEW e, e = End(q, Len(q)), e + x.count <= Len(o),
         x.sum = Ones(o, e + x.count) - Ones(o, e),
         \A t \in e .. e + x.count : (Ones(o, t) - Ones(o, e)) * x.count >= x.sum * (t - e)
  PROVE  /\ Append(q, x) \in Seq(Pools) /\ Len(Append(q, x)) = Len(q) + 1
         /\ End(Append(q, x), Len(q) + 1) = e + x.count
         /\ PoolsFit(o, Append(q, x))
<1> DEFINE c == Append(q, x)  n == Len(q)
<1>1. /\ n \in Nat /\ c \in Seq(Pools) /\ Len(c) = n + 1 /\ c[n + 1] = x
      /\ \A k \in 1 .. n : c[k] = q[k]
  BY AppendProperties
<1> HIDE DEF c
<1>2. ASSUME NEW k \in 0 .. n PROVE End(c, k) = End(q, k)
  <2>1. k \in Int /\ \A i \in 1 .. k : c[i] = q[i]
    BY <1>1
  <2> QED BY <2>1, FirstTotalSame DEF End
<1>3. End(c, n + 1) = e + x.count /\ End(c, n) = e
  <2>1. n + 1 \in 1 .. Len(c) /\ (n + 1) - 1 = n /\ n \in 0 .. n
    BY <1>1
  <2>2. End(c, n + 1) = End(c, (n + 1) - 1) + c[n + 1].count
    BY <1>1, <2>1, EndRuns
  <2> QED BY <1>1, <1>2, <2>1, <2>2
<1>4. ASSUME NEW k \in 1 .. n + 1
      PROVE  /\ c[k].sum = Ones(o, End(c, k)) - Ones(o, End(c, k - 1))
             /\ \A t \in End(c, k - 1) .. End(c, k) :
                  (Ones(o, t) - Ones(o, End(c, k - 1))) * c[k].count
                    >= c[k].sum * (t - End(c, k - 1))
  <2>1. CASE k \in 1 .. n
    <3>1. k \in 0 .. n /\ k - 1 \in 0 .. n
      BY <2>1, <1>1
    <3>2. c[k] = q[k] /\ End(c, k) = End(q, k) /\ End(c, k - 1) = End(q, k - 1)
      BY <2>1, <3>1, <1>1, <1>2
    <3> QED BY <2>1, <3>2 DEF PoolsFit
  <2>2. CASE k = n + 1
    <3>1. c[k] = x /\ End(c, k) = e + x.count /\ End(c, k - 1) = e
      <4>1. k - 1 = n
        BY <2>2, <1>1
      <4> QED BY <4>1, <2>2, <1>1, <1>3
    <3> QED BY <3>1
  <2> QED BY <1>1, <2>1, <2>2
<1>5. PoolsFit(o, c)
  BY <1>1, <1>3, <1>4 DEF PoolsFit
<1> QED BY <1>1, <1>3, <1>5 DEF c

\* A label more is a pool of its own.
LEMMA PoolsTake ==
  ASSUME NEW o \in Seq(Outcomes), NEW b \in Seq(Pools), PoolsFit(o, b),
         NEW e, e = End(b, Len(b)), e < Len(o)
  PROVE  LET c == Append(b, [sum |-> o[e + 1].label, count |-> 1])
         IN c \in Seq(Pools) /\ Len(c) = Len(b) + 1 /\ End(c, Len(b) + 1) = e + 1 /\ PoolsFit(o, c)
<1> DEFINE x == [sum |-> o[e + 1].label, count |-> 1]
<1>1. e \in Nat /\ Len(o) \in Nat /\ e + 1 \in 1 .. Len(o) /\ e \in 0 .. Len(o)
      /\ e + 1 \in 0 .. Len(o) /\ (e + 1) - 1 = e
  <2>1. Len(b) \in 0 .. Len(b)
    OBVIOUS
  <2>2. e \in Nat
    BY <2>1, EndRuns
  <2> QED BY <2>2
<1>2. /\ Ones(o, e) \in Int /\ Ones(o, e + 1) \in Int /\ o[e + 1].label \in {0, 1}
      /\ Ones(o, e + 1) = Ones(o, e) + o[e + 1].label
  BY <1>1, OnesRuns
<1>3. x \in Pools /\ x.count = 1 /\ x.sum = Ones(o, e + 1) - Ones(o, e)
  BY <1>2 DEF Pools
<1> HIDE DEF x
<1>4. e + x.count <= Len(o) /\ x.sum = Ones(o, e + x.count) - Ones(o, e)
  BY <1>1, <1>3
<1>5. ASSUME NEW t \in e .. e + x.count
      PROVE  (Ones(o, t) - Ones(o, e)) * x.count >= x.sum * (t - e)
  <2>1. t = e \/ t = e + 1
    BY <1>1, <1>3
  <2> DEFINE z == Ones(o, e)  w == x.sum
  <2>2. z \in Int /\ w \in Int /\ x.count = 1 /\ Ones(o, e + 1) - z = w
    BY <1>2, <1>3
  <2>3. CASE t = e
    <3>1. Ones(o, t) = z /\ t - e = 0
      BY <2>3, <1>1
    <3> HIDE DEF z, w
    <3>2. (z - z) * 1 >= w * 0
      BY <2>2
    <3>3. (Ones(o, t) - z) * x.count >= w * (t - e)
      BY <3>1, <3>2, <2>2
    <3> QED BY <3>3 DEF z, w
  <2>4. CASE t = e + 1
    <3>1. Ones(o, t) = Ones(o, e + 1) /\ t - e = 1
      BY <2>4, <1>1
    <3> HIDE DEF z, w
    <3>2. w * 1 >= w * 1
      BY <2>2
    <3>3. (Ones(o, t) - z) * x.count >= w * (t - e)
      BY <3>1, <3>2, <2>2
    <3> QED BY <3>3 DEF z, w
  <2> QED BY <2>1, <2>3, <2>4
<1>6. /\ Append(b, x) \in Seq(Pools) /\ Len(Append(b, x)) = Len(b) + 1
      /\ End(Append(b, x), Len(b) + 1) = e + x.count /\ PoolsFit(o, Append(b, x))
  BY <1>3, <1>4, <1>5, PoolsAppend
<1>7. e + x.count = e + 1
  BY <1>3
<1> QED BY <1>6, <1>7 DEF x

\* Two pools of which the second has no greater mean make one that fits.
LEMMA PoolsMerge ==
  ASSUME NEW o \in Seq(Outcomes), NEW b \in Seq(Pools), PoolsFit(o, b),
         NEW n, n = Len(b), n >= 2, AtLeast(b[n - 1], b[n])
  PROVE  LET c == Append(SubSeq(b, 1, n - 2), Pool(b[n - 1], b[n]))
         IN /\ c \in Seq(Pools) /\ Len(c) = n - 1 /\ End(c, n - 1) = End(b, n) /\ PoolsFit(o, c)
            /\ \A k \in 1 .. n - 2 : c[k] = b[k]
<1> DEFINE q == SubSeq(b, 1, n - 2)
           x == Pool(b[n - 1], b[n])
           e == End(b, n - 2)
           f == End(b, n - 1)
           g == End(b, n)
           a == b[n - 1].sum
           d == b[n - 1].count
           h == b[n].sum
           i == b[n].count
<1>1. n \in Nat /\ n - 2 \in 0 .. n /\ n - 1 \in 1 .. n /\ n \in 1 .. n /\ (n - 1) - 1 = n - 2
      /\ n - 1 \in 0 .. n /\ n \in 0 .. n /\ (n - 2) + 1 = n - 1
  OBVIOUS
<1>2. /\ b[n - 1] \in Pools /\ b[n] \in Pools
      /\ e \in Nat /\ f \in Nat /\ g \in Nat /\ f = e + d /\ g = f + i
  <2>1. /\ b[n - 1] \in Pools /\ End(b, n - 1) = End(b, (n - 1) - 1) + b[n - 1].count
    BY <1>1, EndRuns
  <2>2. /\ b[n] \in Pools /\ End(b, n) = End(b, n - 1) + b[n].count
    BY <1>1, EndRuns
  <2>3. End(b, n - 2) \in Nat /\ End(b, n - 1) \in Nat /\ End(b, n) \in Nat
    BY <1>1, EndRuns
  <2> QED BY <1>1, <2>1, <2>2, <2>3
<1>3. a \in Int /\ h \in Int /\ d \in Nat \ {0} /\ i \in Nat \ {0}
  BY <1>2 DEF Pools
<1>4. /\ g <= Len(o) /\ Len(o) \in Nat
      /\ a = Ones(o, f) - Ones(o, e) /\ h = Ones(o, g) - Ones(o, f)
  <2>1. End(b, Len(b)) <= Len(o)
    BY DEF PoolsFit
  <2>2. b[n - 1].sum = Ones(o, End(b, n - 1)) - Ones(o, End(b, (n - 1) - 1))
    BY <1>1 DEF PoolsFit
  <2>3. b[n].sum = Ones(o, End(b, n)) - Ones(o, End(b, n - 1))
    BY <1>1 DEF PoolsFit
  <2> QED BY <1>1, <2>1, <2>2, <2>3
<1>5. /\ \A t \in e .. f : (Ones(o, t) - Ones(o, e)) * d >= a * (t - e)
      /\ \A t \in f .. g : (Ones(o, t) - Ones(o, f)) * i >= h * (t - f)
  <2>1. \A t \in End(b, (n - 1) - 1) .. End(b, n - 1) :
          (Ones(o, t) - Ones(o, End(b, (n - 1) - 1))) * b[n - 1].count
             >= b[n - 1].sum * (t - End(b, (n - 1) - 1))
    BY <1>1 DEF PoolsFit
  <2>2. \A t \in End(b, n - 1) .. End(b, n) :
          (Ones(o, t) - Ones(o, End(b, n - 1))) * b[n].count
             >= b[n].sum * (t - End(b, n - 1))
    BY <1>1 DEF PoolsFit
  <2> QED BY <1>1, <2>1, <2>2
<1>6. a * i >= h * d
  BY DEF AtLeast
<1>7. x \in Pools /\ x.sum = a + h /\ x.count = d + i
  <2>1. a + h \in Int /\ d + i \in Nat \ {0}
    BY <1>3
  <2>2. x = [sum |-> a + h, count |-> d + i]
    BY DEF Pool
  <2> QED BY <2>1, <2>2 DEF Pools
<1>8. \A t \in 0 .. Len(o) : Ones(o, t) \in Int
  BY OnesRuns
<1>9. /\ q \in Seq(Pools) /\ Len(q) = n - 2 /\ PoolsFit(o, q) /\ End(q, n - 2) = e
      /\ \A k \in 1 .. n - 2 : q[k] = b[k]
  BY <1>1, PoolsFront
<1> HIDE DEF q, x, e, f, g, a, d, h, i
<1>10. Ones(o, e) \in Int /\ Ones(o, f) \in Int /\ Ones(o, g) \in Int
  BY <1>2, <1>3, <1>4, <1>8
<1>11. e + x.count = g /\ e + x.count <= Len(o) /\ x.sum = Ones(o, e + x.count) - Ones(o, e)
  <2>1. e + x.count = g
    BY <1>2, <1>3, <1>7
  <2> QED BY <2>1, <1>4, <1>7, <1>10
<1>12. ASSUME NEW t \in e .. e + x.count
       PROVE  (Ones(o, t) - Ones(o, e)) * x.count >= x.sum * (t - e)
  <2>1. Ones(o, t) \in Int
    <3>1. t \in 0 .. Len(o)
      BY <1>2, <1>3, <1>4, <1>11
    <3> QED BY <3>1, <1>8
  <2>2. CASE t <= f
    <3> DEFINE y == Ones(o, t) - Ones(o, e)  u == t - e  w == a + h  m == d + i
    <3>1. y \in Int /\ u \in Nat /\ w \in Int /\ m \in Nat \ {0}
      BY <1>2, <1>3, <1>10, <2>1
    <3>2. y * d >= a * u
      <4>1. t \in e .. f
        BY <2>2, <1>2, <1>3
      <4> QED BY <4>1, <1>5
    <3>3. a * m >= w * d
      <4>1. a * m = a * i + a * d /\ w * d = h * d + a * d
        BY <1>3
      <4>2. a * i \in Int /\ a * d \in Int /\ h * d \in Int
        BY <1>3
      <4> DEFINE ai == a * i  ad == a * d  hd == h * d  am == a * m  wd == w * d
      <4>3. ai \in Int /\ ad \in Int /\ hd \in Int /\ am = ai + ad /\ wd = hd + ad /\ ai >= hd
        BY <4>1, <4>2, <1>6
      <4> HIDE DEF ai, ad, hd, am, wd
      <4>4. am >= wd
        BY <4>3
      <4> QED BY <4>4 DEF am, wd
    <3> HIDE DEF y, u, w, m
    <3>4. y * m >= w * u
      BY <3>1, <3>2, <3>3, <1>3, LineBelow
    <3> QED BY <3>4, <1>7 DEF y, u, w, m
  <2>3. CASE ~(t <= f)
    <3> DEFINE y == Ones(o, t) - Ones(o, f)  v == t - f
    <3>1. y \in Int /\ v \in 0 .. i /\ t \in f .. g
      BY <2>3, <1>2, <1>3, <1>10, <1>11, <2>1
    <3>2. y * i >= h * v
      BY <3>1, <1>5
    <3>3. a + y = Ones(o, t) - Ones(o, e) /\ d + v = t - e
      <4> DEFINE oe == Ones(o, e)  of == Ones(o, f)  ot == Ones(o, t)
      <4>1. oe \in Int /\ of \in Int /\ ot \in Int /\ a = of - oe
        BY <1>4, <1>10, <2>1
      <4>2. t \in Int /\ f \in Int /\ e \in Int /\ d \in Int /\ f = e + d
        BY <1>2, <1>3, <3>1
      <4> HIDE DEF oe, of, ot
      <4>3. a + (ot - of) = ot - oe /\ d + (t - f) = t - e
        BY <4>1, <4>2
      <4> QED BY <4>3 DEF oe, of, ot
    <3> HIDE DEF y, v
    <3>4. (a + y) * (d + i) >= (a + h) * (d + v)
      BY <3>1, <3>2, <1>3, <1>6, LineOverBoth
    <3> QED BY <3>3, <3>4, <1>7
  <2> QED BY <2>2, <2>3
<1>13. /\ Append(q, x) \in Seq(Pools) /\ Len(Append(q, x)) = Len(q) + 1
       /\ End(Append(q, x), Len(q) + 1) = e + x.count /\ PoolsFit(o, Append(q, x))
  BY <1>7, <1>9, <1>11, <1>12, PoolsAppend
<1>14. \A k \in 1 .. n - 2 : Append(q, x)[k] = b[k]
  <2>1. \A k \in 1 .. Len(q) : Append(q, x)[k] = q[k]
    BY <1>7, <1>9, AppendProperties
  <2> QED BY <2>1, <1>9
<1> QED BY <1>1, <1>9, <1>11, <1>13, <1>14 DEF q, x, g

\* Where the last two do not violate the order, all means climb.
LEMMA ClimbsOn ==
  ASSUME NEW b \in Seq(Pools), NEW n, n = Len(b), Climbs(b, n - 1),
         n >= 2 => ~AtLeast(b[n - 1], b[n])
  PROVE  Climbs(b, n)
<1> SUFFICES ASSUME NEW j \in 1 .. n, NEW k \in 1 .. n, j < k PROVE ~AtLeast(b[j], b[k])
  BY DEF Climbs
<1>1. n \in Nat /\ n >= 2 /\ b[j] \in Pools /\ b[k] \in Pools /\ n \in 1 .. n /\ n - 1 \in 1 .. n
      /\ j \in 1 .. n - 1
  BY ElementOfSeq
<1>2. CASE k <= n - 1
  BY <1>1, <1>2 DEF Climbs
<1>3. CASE ~(k <= n - 1)
  <2>1. k = n
    BY <1>1, <1>3
  <2>2. b[n - 1] \in Pools
    BY <1>1, ElementOfSeq
  <2>3. CASE j = n - 1
    BY <2>1, <2>3, <1>1
  <2>4. CASE j # n - 1
    <3>1. ~AtLeast(b[j], b[n - 1])
      <4>1. n - 1 \in 1 .. n - 1 /\ j < n - 1
        BY <2>4, <1>1
      <4> QED BY <4>1, <1>1 DEF Climbs
    <3>2. ~AtLeast(b[n - 1], b[n])
      BY <1>1
    <3> QED BY <3>1, <3>2, <2>1, <2>2, <1>1, MeansCompare
  <2> QED BY <2>3, <2>4
<1> QED BY <1>2, <1>3

\* No label is taken.
LEMMA CalibrationStarts ==
  CalibrationInit => CalibrationInv
<1> SUFFICES ASSUME CalibrationInit PROVE CalibrationInv
  OBVIOUS
<1>1. PICK n \in 0 .. MaxOutcomes :
        outcomes \in {s \in [1 .. n -> [score : Scores, label : {0, 1}]] :
                        \A i, j \in 1 .. n : i <= j => s[i].score <= s[j].score}
  BY DEF CalibrationInit
<1>2. n \in Nat /\ outcomes \in Seq(Outcomes) /\ Len(outcomes) = n
  <2>1. n \in Nat /\ outcomes \in [1 .. n -> Outcomes]
    BY <1>1, CalibrationConstants DEF Outcomes
  <2> QED BY <2>1
<1>3. \A i, j \in 1 .. Len(outcomes) : i <= j => outcomes[i].score <= outcomes[j].score
  BY <1>1, <1>2
<1>4. taken = 0 /\ blocks = <<>> /\ curve = <<>> /\ blocks \in Seq(Pools) /\ Len(blocks) = 0
  BY DEF CalibrationInit
<1>5. End(blocks, 0) = 0
  BY <1>4, EndRuns
<1>6. End(blocks, Len(blocks)) = taken /\ taken <= Len(outcomes)
  BY <1>2, <1>4, <1>5
<1>7. PoolsFit(outcomes, blocks) /\ Climbs(blocks, Len(blocks) - 1)
  <2>1. \A k \in 1 .. Len(blocks) : FALSE
    BY <1>4
  <2>2. \A k \in 1 .. Len(blocks) - 1 : FALSE
    BY <1>4
  <2> QED BY <1>6, <2>1, <2>2 DEF PoolsFit, Climbs
<1> QED BY <1>2, <1>3, <1>4, <1>6, <1>7 DEF CalibrationInv

\* A label is taken, two pools become one, or the curve is fitted.
LEMMA CalibrationStep ==
  CalibrationInv /\ [CalibrationNext]_calibrationVars => CalibrationInv'
<1> SUFFICES ASSUME CalibrationInv, [CalibrationNext]_calibrationVars PROVE CalibrationInv'
  OBVIOUS
<1> DEFINE n == Len(blocks)
<1>1. /\ outcomes \in Seq(Outcomes) /\ blocks \in Seq(Pools) /\ End(blocks, n) = taken
      /\ PoolsFit(outcomes, blocks) /\ Climbs(blocks, n - 1) /\ n \in Nat
      /\ \A i, j \in 1 .. Len(outcomes) : i <= j => outcomes[i].score <= outcomes[j].score
      /\ curve # <<>> => /\ ~Violating /\ taken = Len(outcomes) /\ outcomes # <<>>
                         /\ curve = Curve(Fitted)
  BY DEF CalibrationInv
<1>2. CASE Merge
  <2> DEFINE c == Append(SubSeq(blocks, 1, n - 2), Pool(blocks[n - 1], blocks[n]))
  <2>1. n >= 2 /\ AtLeast(blocks[n - 1], blocks[n]) /\ blocks' = c /\ curve = <<>>
        /\ UNCHANGED <<outcomes, taken, curve>>
    BY <1>1, <1>2 DEF Merge, Violating
  <2>2. /\ c \in Seq(Pools) /\ Len(c) = n - 1 /\ End(c, n - 1) = End(blocks, n)
        /\ PoolsFit(outcomes, c) /\ \A k \in 1 .. n - 2 : c[k] = blocks[k]
    BY <1>1, <2>1, PoolsMerge
  <2> HIDE DEF c
  <2>3. Climbs(c, n - 2)
    <3>1. \A k \in 1 .. n - 2 : k \in 1 .. n - 1
      BY <1>1
    <3> QED BY <1>1, <2>2, <3>1 DEF Climbs
  <2>4. /\ outcomes' \in Seq(Outcomes) /\ blocks' \in Seq(Pools)
        /\ End(blocks', Len(blocks')) = taken' /\ PoolsFit(outcomes', blocks')
        /\ curve' = <<>>
    BY <1>1, <2>1, <2>2
  <2>5. Climbs(blocks', Len(blocks') - 1)
    <3>1. Len(blocks') - 1 = n - 2
      BY <1>1, <2>1, <2>2
    <3> QED BY <2>1, <2>3, <3>1
  <2>6. \A i, j \in 1 .. Len(outcomes') : i <= j => outcomes'[i].score <= outcomes'[j].score
    BY <1>1, <2>1
  <2> QED BY <2>4, <2>5, <2>6 DEF CalibrationInv
<1>3. CASE Take
  <2> DEFINE c == Append(blocks, [sum |-> outcomes[taken + 1].label, count |-> 1])
  <2>1. /\ ~Violating /\ taken < Len(outcomes) /\ blocks' = c /\ taken' = taken + 1
        /\ curve = <<>> /\ UNCHANGED <<outcomes, curve>>
    <3>1. taken < Len(outcomes) /\ Len(outcomes) \in Nat
      BY <1>1, <1>3 DEF Take
    <3>2. taken \in Nat
      <4>1. n \in 0 .. n
        BY <1>1
      <4> QED BY <1>1, <4>1, EndRuns
    <3>3. taken # Len(outcomes)
      BY <3>1, <3>2
    <3> QED BY <1>1, <1>3, <3>3 DEF Take
  <2>2. /\ c \in Seq(Pools) /\ Len(c) = n + 1 /\ End(c, n + 1) = taken + 1
        /\ PoolsFit(outcomes, c)
    BY <1>1, <2>1, PoolsTake
  <2>3. \A k \in 1 .. n : c[k] = blocks[k]
    <3>1. taken + 1 \in 1 .. Len(outcomes)
      <4>1. n \in 0 .. n
        BY <1>1
      <4>2. taken \in Nat
        BY <1>1, <4>1, EndRuns
      <4> QED BY <4>2, <2>1, <1>1
    <3>2. outcomes[taken + 1].label \in {0, 1}
      BY <1>1, <3>1, OnesRuns
    <3>3. [sum |-> outcomes[taken + 1].label, count |-> 1] \in Pools
      BY <3>2 DEF Pools
    <3> QED BY <1>1, <3>3, AppendProperties
  <2> HIDE DEF c
  <2>4. Climbs(blocks, n)
    <3>1. n >= 2 => ~AtLeast(blocks[n - 1], blocks[n])
      BY <2>1 DEF Violating
    <3> QED BY <1>1, <3>1, ClimbsOn
  <2>5. Climbs(c, n)
    BY <2>3, <2>4 DEF Climbs
  <2>6. /\ outcomes' \in Seq(Outcomes) /\ blocks' \in Seq(Pools)
        /\ End(blocks', Len(blocks')) = taken' /\ PoolsFit(outcomes', blocks')
        /\ curve' = <<>>
    BY <1>1, <2>1, <2>2
  <2>7. Climbs(blocks', Len(blocks') - 1)
    <3>1. Len(blocks') - 1 = n
      BY <1>1, <2>1, <2>2
    <3> QED BY <2>1, <2>5, <3>1
  <2>8. \A i, j \in 1 .. Len(outcomes') : i <= j => outcomes'[i].score <= outcomes'[j].score
    BY <1>1, <2>1
  <2> QED BY <2>6, <2>7, <2>8 DEF CalibrationInv
<1>4. CASE FitCurve
  <2>1. /\ ~Violating /\ taken = Len(outcomes) /\ outcomes # <<>> /\ curve' = Curve(Fitted)
        /\ UNCHANGED <<outcomes, taken, blocks>>
    BY <1>4 DEF FitCurve
  <2>2. Fitted' = Fitted
    BY <2>1 DEF Fitted, FoldLeft, MapThenFoldSet
  <2>3. Curve(Fitted)' = Curve(Fitted)
    BY <2>1, <2>2 DEF Curve
  <2>4. (~Violating)'
    BY <2>1 DEF Violating
  <2> QED BY <1>1, <2>1, <2>3, <2>4 DEF CalibrationInv
<1>5. CASE UNCHANGED calibrationVars
  <2>1. UNCHANGED <<outcomes, taken, blocks, curve>>
    BY <1>5 DEF calibrationVars
  <2>2. Fitted' = Fitted
    BY <2>1 DEF Fitted, FoldLeft, MapThenFoldSet
  <2>3. Curve(Fitted)' = Curve(Fitted)
    BY <2>1, <2>2 DEF Curve
  <2>4. Violating' <=> Violating
    BY <2>1 DEF Violating
  <2> QED BY <1>1, <2>1, <2>3, <2>4 DEF CalibrationInv
<1> QED BY <1>2, <1>3, <1>4, <1>5 DEF CalibrationNext

\* What holds of two parts holds of the whole.
LEMMA LinesAdd ==
  ASSUME NEW x \in Int, NEW y \in Int, NEW c \in Nat \ {0}, NEW s \in Int,
         NEW u \in Int, NEW v \in Int, x * c >= s * u, y * c >= s * v
  PROVE  (x + y) * c >= s * (u + v)
<1> DEFINE a == x * c  b == y * c  d == s * u  e == s * v
<1>1. a \in Int /\ b \in Int /\ d \in Int /\ e \in Int /\ a >= d /\ b >= e
  OBVIOUS
<1>2. (x + y) * c = a + b /\ s * (u + v) = d + e
  OBVIOUS
<1> HIDE DEF a, b, d, e
<1>3. a + b >= d + e
  BY <1>1
<1> QED BY <1>2, <1>3

\* A pool before another: from its end back the walk keeps above a line that
\* rises faster than the pool's own.
LEMMA PoolBack ==
  ASSUME NEW of \in Int, NEW og \in Int, NEW or \in Int, NEW p \in Int, NEW q \in Nat \ {0},
         NEW f \in Nat, NEW g \in Nat, NEW r \in f .. g, p = og - of, g = f + q,
         (or - of) * q >= p * (r - f),
         NEW s \in Int, NEW c \in Nat \ {0}, s * q >= p * c
  PROVE  (or - og) * c >= s * (r - g)
<1> DEFINE y == or - og  v == g - r  mp == -p  ms == -s
<1>1. y \in Int /\ v \in Nat /\ mp \in Int /\ ms \in Int /\ r - g = -v
  OBVIOUS
<1>2. y * q >= mp * v
  <2> DEFINE i == or - of  ii == r - f
  <2>1. i \in Int /\ ii \in Int /\ y = i - p /\ v = q - ii
    OBVIOUS
  <2> DEFINE iq == i * q  pii == p * ii  pq == p * q
  <2>2. iq \in Int /\ pii \in Int /\ pq \in Int /\ iq >= pii
    BY <2>1
  <2> HIDE DEF y, v, i, ii
  <2>3. y * q = iq - pq
    BY <2>1
  <2>4. mp * v = pii - pq
    BY <2>1
  <2> HIDE DEF iq, pii, pq
  <2>5. iq - pq >= pii - pq
    BY <2>2
  <2> QED BY <2>3, <2>4, <2>5
<1>3. mp * c >= ms * q
  <2> DEFINE sq == s * q  pc == p * c
  <2>1. sq \in Int /\ pc \in Int /\ sq >= pc
    OBVIOUS
  <2>2. mp * c = -pc /\ ms * q = -sq
    OBVIOUS
  <2> HIDE DEF sq, pc
  <2>3. -pc >= -sq
    BY <2>1
  <2> QED BY <2>2, <2>3
<1> HIDE DEF y, v, mp, ms
<1>4. y * c >= ms * v
  BY <1>1, <1>2, <1>3, LineBelow
<1>5. ms * v = s * (-v)
  BY <1>1 DEF ms
<1> QED BY <1>1, <1>4, <1>5 DEF y

\* All pools fit and their means climb: the line over the j-th one lies below
\* the walk from the first label to the last.
LEMMA LineSupports ==
  ASSUME NEW o \in Seq(Outcomes), NEW b \in Seq(Pools), PoolsFit(o, b),
         Climbs(b, Len(b)), NEW j \in 1 .. Len(b), NEW t \in 0 .. End(b, Len(b))
  PROVE  (Ones(o, t) - Ones(o, End(b, j - 1))) * b[j].count
           >= b[j].sum * (t - End(b, j - 1))
<1> DEFINE n == Len(b)
           s == b[j].sum
           c == b[j].count
           e == End(b, j - 1)
           Below(r) == (Ones(o, r) - Ones(o, e)) * c >= s * (r - e)
<1>1. /\ n \in Nat /\ j \in 1 .. n /\ j - 1 \in 0 .. n /\ j \in 0 .. n
      /\ End(b, 0) = 0
      /\ \A k \in 0 .. n : End(b, k) \in Nat /\ End(b, k) <= Len(o)
      /\ \A k \in 1 .. n : /\ b[k] \in Pools /\ b[k].sum \in Int /\ b[k].count \in Nat \ {0}
                           /\ End(b, k) = End(b, k - 1) + b[k].count
  <2>1. n \in 0 .. n /\ j - 1 \in 0 .. n /\ n \in Nat
    OBVIOUS
  <2>2. /\ End(b, 0) = 0 /\ \A k \in 0 .. n : End(b, k) \in Nat /\ End(b, k) <= End(b, n)
    BY <2>1, EndRuns
  <2>3. /\ \A k \in 1 .. n : b[k] \in Pools /\ End(b, k) = End(b, k - 1) + b[k].count
    BY EndRuns
  <2>4. End(b, n) <= Len(o) /\ Len(o) \in Nat
    BY DEF PoolsFit
  <2>5. \A p \in Pools : p.sum \in Int /\ p.count \in Nat \ {0}
    BY DEF Pools
  <2>6. \A k \in 0 .. n : End(b, k) <= Len(o)
    BY <2>1, <2>2, <2>4
  <2>7. \A k \in 1 .. n : b[k].sum \in Int /\ b[k].count \in Nat \ {0}
    BY <2>3, <2>5
  <2>8. j \in 1 .. n /\ j \in 0 .. n
    BY <2>1
  <2> HIDE DEF n
  <2> QED BY <2>1, <2>2, <2>3, <2>6, <2>7, <2>8
<1>2. \A r \in 0 .. Len(o) : Ones(o, r) \in Int
  BY OnesRuns
<1>3. \A k \in 1 .. n :
        /\ b[k].sum = Ones(o, End(b, k)) - Ones(o, End(b, k - 1))
        /\ \A r \in End(b, k - 1) .. End(b, k) :
             (Ones(o, r) - Ones(o, End(b, k - 1))) * b[k].count >= b[k].sum * (r - End(b, k - 1))
  BY DEF PoolsFit
<1>4. s \in Int /\ c \in Nat \ {0} /\ e \in Nat /\ e <= Len(o) /\ Len(o) \in Nat
  BY <1>1
<1>5. \A k \in 1 .. n : /\ k > j => b[k].sum * c >= s * b[k].count
                        /\ k < j => s * b[k].count >= b[k].sum * c
  <2> SUFFICES ASSUME NEW k \in 1 .. n
               PROVE  /\ k > j => b[k].sum * c >= s * b[k].count
                      /\ k < j => s * b[k].count >= b[k].sum * c
    OBVIOUS
  <2>1. b[j] \in Pools /\ b[k] \in Pools
    BY <1>1
  <2>2. k > j => ~AtLeast(b[j], b[k])
    BY <1>1 DEF Climbs
  <2>3. k < j => ~AtLeast(b[k], b[j])
    BY <1>1 DEF Climbs
  <2>4. k > j => AtLeast(b[k], b[j])
    BY <2>1, <2>2, MeansCompare
  <2>5. k < j => AtLeast(b[j], b[k])
    BY <2>1, <2>3, MeansCompare
  <2> QED BY <2>4, <2>5 DEF AtLeast
<1> HIDE DEF n, s, c, e
\* the labels from the start of the pool on, pool by pool
<1>6. \A k \in 0 .. n : k >= j - 1 => \A r \in e .. End(b, k) : Below(r)
  <2> DEFINE A == {k \in 0 .. n : k >= j - 1 => \A r \in e .. End(b, k) : Below(r)}
  <2>0. Below(e)
    <3>1. Ones(o, e) \in Int
      BY <1>2, <1>4
    <3> DEFINE z == Ones(o, e)
    <3>2. (z - z) * c >= s * (e - e)
      <4> HIDE DEF z
      <4>1. z \in Int
        BY <3>1 DEF z
      <4>2. z - z = 0 /\ e - e = 0
        BY <4>1, <1>4
      <4> QED BY <4>2, <1>4
    <3> QED BY <3>2
  <2> HIDE DEF Below
  <2>1. 0 \in A
    <3> SUFFICES ASSUME 0 >= j - 1, NEW r \in e .. End(b, 0) PROVE Below(r)
      BY <1>1
    <3>1. j - 1 = 0
      BY <1>1
    <3>2. r = e
      BY <3>1, <1>1, <1>4 DEF e
    <3> QED BY <3>2, <2>0
  <2>2. ASSUME NEW k \in 1 .. n, k - 1 \in A PROVE k \in A
    <3> SUFFICES ASSUME k >= j - 1, NEW r \in e .. End(b, k) PROVE Below(r)
      BY <1>1
    <3>1. CASE k = j - 1
      <4>1. r = e
        BY <3>1, <1>4 DEF e
      <4> QED BY <4>1, <2>0
    <3>2. CASE k >= j
      <4> DEFINE f == End(b, k - 1)  g == End(b, k)
      <4>1. k - 1 \in 0 .. n /\ k - 1 >= j - 1 /\ k \in 0 .. n /\ r \in Nat
            /\ f \in Nat /\ g \in Nat /\ r <= g /\ g <= Len(o) /\ f <= Len(o)
        <5>1. k - 1 \in 0 .. n /\ k - 1 >= j - 1 /\ k \in 0 .. n
          BY <3>2, <1>1
        <5> QED BY <5>1, <1>1, <1>4
      <4>2. \A m \in e .. f : Below(m)
        BY <2>2, <4>1
      <4>3. CASE r <= f
        BY <4>1, <4>2, <4>3, <1>4
      <4>4. CASE ~(r <= f)
        <5> DEFINE oe == Ones(o, e)  of == Ones(o, f)  or == Ones(o, r)
                   p == b[k].sum  q == b[k].count
        <5>1. oe \in Int /\ of \in Int /\ or \in Int
          BY <4>1, <4>4, <1>2, <1>4
        <5>2. p \in Int /\ q \in Nat \ {0} /\ r \in f .. g
          BY <4>1, <4>4, <1>1
        <5>3. e <= f
          <6>1. End(b, j - 1) <= End(b, k - 1)
            BY <4>1, <1>1, EndRuns DEF n
          <6> QED BY <6>1 DEF e
        <5>4. (or - of) * q >= p * (r - f)
          BY <5>2, <1>3
        <5>5. p * c >= s * q
          <6>1. CASE k = j
            <7>1. p = s /\ q = c
              BY <6>1 DEF s, c
            <7>2. s * c \in Int
              BY <1>4
            <7>3. s * c >= s * c
              BY <7>2
            <7> QED BY <7>1, <7>3
          <6>2. CASE k # j
            <7>1. k > j
              BY <6>2, <3>2, <1>1
            <7> QED BY <7>1, <1>5
          <6> QED BY <6>1, <6>2
        <5>6. (of - oe) * c >= s * (f - e)
          <6>1. f \in e .. f
            BY <5>3, <4>1, <1>4
          <6>2. Below(f)
            BY <6>1, <4>2
          <6> QED BY <6>2 DEF Below
        <5> HIDE DEF oe, of, or, p, q, f, g
        <5>7. /\ or - of \in Int /\ of - oe \in Int /\ r - f \in Nat /\ r - f \in Int
              /\ f - e \in Int
              /\ (of - oe) + (or - of) = or - oe /\ (f - e) + (r - f) = r - e
          BY <5>1, <5>2, <4>1, <1>4
        <5>8. (or - of) * c >= s * (r - f)
          BY <5>2, <5>4, <5>5, <5>7, <1>4, LineBelow
        <5>9. ((of - oe) + (or - of)) * c >= s * ((f - e) + (r - f))
          BY <5>6, <5>7, <5>8, <1>4, LinesAdd
        <5>10. (or - oe) * c >= s * (r - e)
          BY <5>7, <5>9
        <5> QED BY <5>10 DEF Below, or, oe
      <4> QED BY <4>3, <4>4
    <3> QED BY <3>1, <3>2, <1>1
  <2>3. \A k \in 0 .. n : k \in A
    <3> HIDE DEF A
    <3> QED BY <2>1, <2>2, <1>1, UpTo
  <2> QED BY <2>3
\* and those before it, from the pool before it down
<1>7. \A m \in 0 .. j - 1 : \A r \in End(b, j - 1 - m) .. e : Below(r)
  <2> DEFINE A == {m \in 0 .. j - 1 : \A r \in End(b, j - 1 - m) .. e : Below(r)}
  <2>0. Below(e)
    <3>1. e \in e .. End(b, j - 1)
      BY <1>4 DEF e
    <3>2. j - 1 >= j - 1
      BY <1>1
    <3> HIDE DEF Below
    <3> QED BY <1>1, <1>6, <3>1, <3>2
  <2> HIDE DEF Below
  <2>1. 0 \in A
    <3>1. j - 1 - 0 = j - 1 /\ 0 \in 0 .. j - 1
      BY <1>1
    <3> SUFFICES ASSUME NEW r \in End(b, j - 1) .. e PROVE Below(r)
      BY <3>1
    <3>2. r = e
      BY <1>4 DEF e
    <3> QED BY <2>0, <3>2
  <2>2. ASSUME NEW m \in 1 .. j - 1, m - 1 \in A PROVE m \in A
    <3> DEFINE k == j - m
               f == End(b, k - 1)
               g == End(b, k)
    <3>1. /\ k \in 1 .. n /\ k < j /\ k - 1 \in 0 .. n /\ k \in 0 .. n
          /\ j - 1 - m = k - 1 /\ j - 1 - (m - 1) = k /\ m \in 0 .. j - 1
      BY <1>1
    <3>2. \A r \in g .. e : Below(r)
      BY <2>2, <3>1
    <3>3. /\ f \in Nat /\ g \in Nat /\ g <= e /\ f <= g
          /\ b[k].sum \in Int /\ b[k].count \in Nat \ {0}
      <4>1. End(b, k) <= End(b, j - 1)
        BY <3>1, <1>1, EndRuns DEF n
      <4>2. g <= e
        BY <4>1 DEF e
      <4>3. f \in Nat /\ g \in Nat /\ b[k].sum \in Int /\ b[k].count \in Nat \ {0}
            /\ g = f + b[k].count
        BY <3>1, <1>1
      <4> HIDE DEF f, g, k
      <4> QED BY <4>2, <4>3
    <3> SUFFICES ASSUME NEW r \in f .. e PROVE Below(r)
      BY <3>1
    <3> HIDE DEF k
    <3>4. CASE r >= g
      BY <3>2, <3>3, <3>4, <1>4
    <3>5. CASE ~(r >= g)
      <4> DEFINE oe == Ones(o, e)  of == Ones(o, f)  og == Ones(o, g)  or == Ones(o, r)
                 p == b[k].sum  q == b[k].count
      <4>1. oe \in Int /\ of \in Int /\ og \in Int /\ or \in Int
        BY <3>3, <3>5, <1>2, <1>4
      <4>2. p \in Int /\ q \in Nat \ {0} /\ r \in f .. g
        BY <3>3, <3>5
      <4>3. (or - of) * q >= p * (r - f)
        BY <4>2, <3>1, <1>3
      <4>4. p = og - of /\ g = f + q
        BY <3>1, <1>1, <1>3
      <4>5. s * q >= p * c
        BY <3>1, <1>5
      <4>6. (og - oe) * c >= s * (g - e)
        <5>1. g \in g .. e
          BY <3>3, <1>4
        <5>2. Below(g)
          BY <5>1, <3>2
        <5> QED BY <5>2 DEF Below
      <4>7. f \in Nat /\ g \in Nat /\ e \in Nat /\ r \in Int
        BY <3>3, <1>4, <4>2
      <4> HIDE DEF oe, of, og, or, p, q, f, g
      <4>8. (or - og) * c >= s * (r - g)
        BY <4>1, <4>2, <4>3, <4>4, <4>5, <4>7, <1>4, PoolBack
      <4>9. /\ or - og \in Int /\ og - oe \in Int /\ r - g \in Int /\ g - e \in Int
            /\ (og - oe) + (or - og) = or - oe /\ (g - e) + (r - g) = r - e
        BY <4>1, <4>7
      <4>10. ((og - oe) + (or - og)) * c >= s * ((g - e) + (r - g))
        BY <4>6, <4>8, <4>9, <1>4, LinesAdd
      <4>11. (or - oe) * c >= s * (r - e)
        BY <4>9, <4>10
      <4> QED BY <4>11 DEF Below, or, oe
    <3> QED BY <3>4, <3>5
  <2>3. \A m \in 0 .. j - 1 : m \in A
    <3>1. j - 1 \in Nat
      BY <1>1
    <3> HIDE DEF A
    <3> QED BY <2>1, <2>2, <3>1, UpTo
  <2> QED BY <2>3
<1>8. Below(t)
  <2> HIDE DEF Below
  <2>1. t \in Nat /\ t <= End(b, n) /\ End(b, n) \in Nat /\ n \in 0 .. n /\ n >= j - 1
    <3>1. n \in 0 .. n /\ n >= j - 1
      BY <1>1
    <3>2. t \in 0 .. End(b, n)
      BY DEF n
    <3> QED BY <3>1, <3>2, <1>1
  <2>2. CASE t >= e
    BY <1>4, <1>6, <2>1, <2>2
  <2>3. CASE ~(t >= e)
    <3>1. j - 1 \in 0 .. j - 1 /\ j - 1 - (j - 1) = 0
      BY <1>1
    <3>2. t \in End(b, 0) .. e
      BY <2>1, <2>3, <1>1, <1>4
    <3> QED BY <1>7, <3>1, <3>2
  <2> QED BY <2>2, <2>3
<1> QED BY <1>8 DEF s, c, e

\* The fitted values, pool by pool
LEMMA FittedRuns ==
  ASSUME blocks \in Seq(Pools)
  PROVE  \E u \in [0 .. Len(blocks) -> Seq(Pools)] :
           /\ u[0] = <<>> /\ Fitted = u[Len(blocks)]
           /\ \A k \in 1 .. Len(blocks) :
                u[k] = u[k - 1] \o [i \in 1 .. blocks[k].count |-> blocks[k]]
<1> DEFINE n == Len(blocks)
           V == Seq(Pools)
           Row(k) == [i \in 1 .. blocks[k].count |-> blocks[k]]
           F(g) == [T \in SUBSET (1 .. n) |->
                      IF T = {} THEN <<>>
                      ELSE g[T \ {Max(T)}] \o [i \in 1 .. blocks[Max(T)].count |-> blocks[Max(T)]]]
           G == CHOOSE g : g = F(g)
           h == [k \in 1 .. n |-> [x \in V |-> x \o Row(k)]]
           u == [k \in 0 .. n |-> G[1 .. k]]
<1>1. n \in Nat /\ DOMAIN blocks = 1 .. n /\ \A k \in 1 .. n : blocks[k] \in Pools
  BY ElementOfSeq
<1>2. Fitted = G[1 .. n]
  BY <1>1 DEF Fitted, FoldLeft, MapThenFoldSet
<1>3. /\ \A k \in 1 .. n : Row(k) \in V
      /\ \A k \in 1 .. n : \A x \in V : x \o Row(k) \in V
      /\ <<>> \in V
  <2>1. \A p \in Pools : p.count \in Nat
    BY DEF Pools
  <2>2. ASSUME NEW k \in 1 .. n PROVE Row(k) \in V
    <3>1. blocks[k].count \in Nat /\ blocks[k] \in Pools
      BY <1>1, <2>1
    <3> QED BY <3>1
  <2> HIDE DEF Row
  <2>3. \A k \in 1 .. n : \A x \in V : x \o Row(k) \in V
    BY <2>2
  <2>4. <<>> \in V
    OBVIOUS
  <2> QED BY <2>2, <2>3, <2>4
<1>4. G = F(G)
  <2>1. h \in [1 .. n -> [V -> V]]
    <3> HIDE DEF V, Row, n
    <3> QED BY <1>3
  <2>2. PICK g \in [SUBSET (1 .. n) -> V] : ChainSolves(g, n, <<>>, h)
    <3> HIDE DEF h, n, V
    <3>1. <<>> \in V /\ n \in Nat
      BY <1>1, <1>3
    <3>2. \E g \in [SUBSET (1 .. n) -> V] : ChainSolves(g, n, <<>>, h)
      BY <2>1, <3>1, ChainFold, Zenon
    <3> QED BY <3>2
  <2>3. g = F(g)
    <3>1. ASSUME NEW T \in SUBSET (1 .. n), T # {}
          PROVE  h[Max(T)][g[T \ {Max(T)}]] = g[T \ {Max(T)}] \o Row(Max(T))
      <4>1. Max(T) \in 1 .. n
        BY <3>1, <1>1, LargestMember
      <4>2. g[T \ {Max(T)}] \in V
        BY <2>2
      <4> HIDE DEF V, Row
      <4> QED BY <4>1, <4>2
    <3>2. \A T \in SUBSET (1 .. n) :
            g[T] = IF T = {} THEN <<>> ELSE h[Max(T)][g[T \ {Max(T)}]]
      BY <2>2 DEF ChainSolves
    <3>3. \A T \in SUBSET (1 .. n) :
            g[T] = IF T = {} THEN <<>> ELSE g[T \ {Max(T)}] \o Row(Max(T))
      <4> HIDE DEF h, Row, n, V
      <4> QED BY <3>1, <3>2
    <3>4. g \in [SUBSET (1 .. n) -> V]
      BY <2>2
    <3> HIDE DEF h, n, V
    <3> QED BY <3>3, <3>4
  <2>4. \E x : x = F(x)
    <3> HIDE DEF F
    <3> QED BY <2>3
  <2> HIDE DEF F
  <2> QED BY <2>4
<1>5. ASSUME NEW k \in 1 .. n PROVE G[1 .. k] = G[1 .. (k - 1)] \o Row(k)
  <2>1. /\ 1 .. k \in SUBSET (1 .. n) /\ 1 .. k # {} /\ Max(1 .. k) = k
        /\ (1 .. k) \ {k} = 1 .. (k - 1)
    <3> HIDE DEF n
    <3> QED BY <1>1, LastOfRange
  <2>2. G[1 .. k] = F(G)[1 .. k]
    BY <1>4
  <2>3. \A T \in SUBSET (1 .. n) : T # {} =>
          F(G)[T] = G[T \ {Max(T)}] \o [i \in 1 .. blocks[Max(T)].count |-> blocks[Max(T)]]
    <3> HIDE DEF G, n
    <3> QED OBVIOUS
  <2>4. F(G)[1 .. k] = G[(1 .. k) \ {Max(1 .. k)}]
          \o [i \in 1 .. blocks[Max(1 .. k)].count |-> blocks[Max(1 .. k)]]
    <3> HIDE DEF F, G, n
    <3> QED BY <2>1, <2>3
  <2> HIDE DEF F, G, n
  <2> QED BY <2>1, <2>2, <2>4
<1>6. G[1 .. 0] = <<>>
  <2>1. G[1 .. 0] = F(G)[1 .. 0]
    BY <1>4
  <2> HIDE DEF G
  <2>2. 1 .. 0 = {} /\ {} \in SUBSET (1 .. n)
    OBVIOUS
  <2> QED BY <2>1, <2>2
<1> HIDE DEF G
<1>7. \A k \in 0 .. n : G[1 .. k] \in V
  <2> DEFINE A == {j \in 0 .. n : G[1 .. j] \in V}
  <2> HIDE DEF V, Row, n
  <2>1. 0 \in A
    BY <1>1, <1>3, <1>6
  <2>2. ASSUME NEW k \in 1 .. n, k - 1 \in A PROVE k \in A
    <3>1. G[1 .. (k - 1)] \in V
      BY <2>2
    <3>2. G[1 .. k] \in V
      BY <3>1, <1>3, <1>5
    <3> QED BY <3>2, <1>1
  <2>3. \A k \in 0 .. n : k \in A
    <3> HIDE DEF A
    <3> QED BY <2>1, <2>2, <1>1, UpTo
  <2> QED BY <2>3
<1>8. u \in [0 .. n -> V] /\ u[0] = <<>> /\ Fitted = u[n]
  <2> HIDE DEF V, n
  <2> QED BY <1>1, <1>2, <1>6, <1>7
<1>9. \A k \in 1 .. n : u[k] = u[k - 1] \o Row(k)
  <2> HIDE DEF V, n, Row
  <2> QED BY <1>1, <1>5
<1>10. /\ u \in [0 .. Len(blocks) -> Seq(Pools)]
       /\ u[0] = <<>> /\ Fitted = u[Len(blocks)]
       /\ \A k \in 1 .. Len(blocks) :
            u[k] = u[k - 1] \o [i \in 1 .. blocks[k].count |-> blocks[k]]
  <2> HIDE DEF u
  <2> QED BY <1>8, <1>9
<1> HIDE DEF u
<1> QED BY <1>10

\* Every value is the pool its position falls in.
LEMMA FittedIs ==
  ASSUME blocks \in Seq(Pools)
  PROVE  /\ Fitted \in Seq(Pools) /\ Len(Fitted) = End(blocks, Len(blocks))
         /\ \A j \in 1 .. Len(blocks) : \A i \in End(blocks, j - 1) + 1 .. End(blocks, j) :
              Fitted[i] = blocks[j]
<1> DEFINE n == Len(blocks)
           E(k) == End(blocks, k)
<1>1. n \in Nat /\ \A k \in 1 .. n : blocks[k] \in Pools /\ blocks[k].count \in Nat
  <2>1. n \in Nat /\ \A k \in 1 .. n : blocks[k] \in Pools
    BY ElementOfSeq
  <2>2. \A p \in Pools : p.count \in Nat
    BY DEF Pools
  <2> QED BY <2>1, <2>2
<1>2. /\ E(0) = 0 /\ \A k \in 0 .. n : E(k) \in Nat
      /\ \A k \in 1 .. n : E(k) = E(k - 1) + blocks[k].count
      /\ \A j, k \in 0 .. n : j <= k => E(j) <= E(k)
  BY EndRuns
<1>3. PICK u \in [0 .. n -> Seq(Pools)] :
        /\ u[0] = <<>> /\ Fitted = u[n]
        /\ \A k \in 1 .. n : u[k] = u[k - 1] \o [i \in 1 .. blocks[k].count |-> blocks[k]]
  BY FittedRuns
<1> DEFINE Right(k) == /\ Len(u[k]) = E(k)
                       /\ \A j \in 1 .. k : \A i \in E(j - 1) + 1 .. E(j) : u[k][i] = blocks[j]
           A == {k \in 0 .. n : Right(k)}
<1> HIDE DEF n, E
<1>4. 0 \in A
  <2>1. Len(u[0]) = E(0) /\ \A j \in 1 .. 0 : FALSE
    BY <1>2, <1>3
  <2> QED BY <2>1, <1>1
<1>5. ASSUME NEW k \in 1 .. n, k - 1 \in A PROVE k \in A
  <2> DEFINE s == u[k - 1]
             c == blocks[k].count
             r == [i \in 1 .. c |-> blocks[k]]
  <2>1. /\ k - 1 \in 0 .. n /\ k \in 0 .. n /\ s \in Seq(Pools) /\ Len(s) = E(k - 1)
        /\ \A j \in 1 .. k - 1 : \A i \in E(j - 1) + 1 .. E(j) : s[i] = blocks[j]
    <3>1. k - 1 \in 0 .. n /\ k \in 0 .. n
      BY <1>1
    <3> QED BY <3>1, <1>3, <1>5
  <2>2. c \in Nat /\ r \in Seq(Pools) /\ Len(r) = c /\ \A i \in 1 .. c : r[i] = blocks[k]
    <3>1. c \in Nat /\ blocks[k] \in Pools
      BY <1>1
    <3> QED BY <3>1
  <2>3. u[k] = s \o r /\ E(k) = E(k - 1) + c /\ E(k) \in Nat /\ E(k - 1) \in Nat
    BY <1>2, <1>3, <2>1
  <2> HIDE DEF s, c, r
  <2>4. /\ Len(s \o r) = Len(s) + c
        /\ \A i \in 1 .. Len(s) + c :
             (s \o r)[i] = IF i <= Len(s) THEN s[i] ELSE r[i - Len(s)]
    <3>1. /\ Len(s \o r) = Len(s) + Len(r)
          /\ \A i \in 1 .. Len(s) + Len(r) :
               (s \o r)[i] = IF i <= Len(s) THEN s[i] ELSE r[i - Len(s)]
      <4>1. s \in Seq(Pools) /\ r \in Seq(Pools)
        BY <2>1, <2>2
      <4> QED BY <4>1, ConcatProperties
    <3>2. Len(r) = c
      BY <2>2
    <3> QED BY <3>1, <3>2
  <2>5. Len(u[k]) = E(k)
    BY <2>1, <2>3, <2>4
  <2>6. ASSUME NEW j \in 1 .. k, NEW i \in E(j - 1) + 1 .. E(j) PROVE u[k][i] = blocks[j]
    <3>1. j \in 0 .. n /\ j - 1 \in 0 .. n
      BY <1>1
    <3>2. E(j) \in Nat /\ E(j - 1) \in Nat
      BY <3>1, <1>2
    <3>3. CASE j = k
      <4>1. i \in 1 .. Len(s) + c /\ ~(i <= Len(s)) /\ i - Len(s) \in 1 .. c
        BY <3>2, <3>3, <2>1, <2>2, <2>3
      <4> QED BY <4>1, <2>2, <2>3, <2>4, <3>3
    <3>4. CASE j # k
      <4>1. j \in 1 .. k - 1 /\ j <= k - 1
        BY <3>4
      <4>2. E(j) <= E(k - 1)
        BY <4>1, <3>1, <2>1, <1>2
      <4>3. i \in 1 .. Len(s) + c /\ i <= Len(s)
        BY <4>2, <3>2, <2>1, <2>2, <2>3
      <4> QED BY <4>1, <4>3, <2>1, <2>3, <2>4
    <3> QED BY <3>3, <3>4
  <2> QED BY <2>1, <2>5, <2>6
<1>6. \A k \in 0 .. n : k \in A
  <2> HIDE DEF A
  <2> QED BY <1>1, <1>4, <1>5, UpTo
<1>7. n \in 0 .. n
  BY <1>1
<1>8. Right(n)
  BY <1>6, <1>7
<1> QED BY <1>3, <1>7, <1>8 DEF n, E

\* Every position falls in a pool.
LEMMA PoolAt ==
  ASSUME NEW b \in Seq(Pools), NEW i \in 1 .. End(b, Len(b))
  PROVE  \E j \in 1 .. Len(b) : End(b, j - 1) < i /\ i <= End(b, j)
<1> DEFINE n == Len(b)
           A == {k \in 0 .. n : i <= End(b, k) =>
                   \E j \in 1 .. n : End(b, j - 1) < i /\ i <= End(b, j)}
<1>1. n \in Nat /\ End(b, 0) = 0 /\ \A k \in 0 .. n : End(b, k) \in Nat
  <2>1. n \in Nat
    OBVIOUS
  <2> QED BY <2>1, EndRuns
<1>2. 0 \in A
  BY <1>1
<1>3. ASSUME NEW k \in 1 .. n, k - 1 \in A PROVE k \in A
  <2> SUFFICES ASSUME i <= End(b, k)
               PROVE  \E j \in 1 .. n : End(b, j - 1) < i /\ i <= End(b, j)
    BY <1>1
  <2>1. End(b, k - 1) \in Nat /\ i \in Nat
    <3>1. k - 1 \in 0 .. n
      BY <1>1
    <3> QED BY <3>1, <1>1
  <2>2. CASE i <= End(b, k - 1)
    BY <1>3, <2>2
  <2>3. CASE End(b, k - 1) < i
    BY <2>3
  <2> QED BY <2>1, <2>2, <2>3
<1>4. \A k \in 0 .. n : k \in A
  <2> HIDE DEF A, n
  <2> QED BY <1>1, <1>2, <1>3, UpTo
<1>5. n \in 0 .. n /\ i <= End(b, n)
  BY <1>1
<1> QED BY <1>4, <1>5

\* Counting the labels that are 1 from one sample to another
LEMMA MeanCounts ==
  ASSUME outcomes \in Seq(Outcomes), NEW from \in 1 .. Len(outcomes),
         NEW to \in from .. Len(outcomes)
  PROVE  /\ MeanOf(from, to).sum = Ones(outcomes, to) - Ones(outcomes, from - 1)
         /\ MeanOf(from, to).count = to - (from - 1)
<1> DEFINE n == Len(outcomes)
           One(r) == {i \in from .. r : outcomes[i].label = 1}
           A == {r \in 0 .. n : r >= from - 1 =>
                   /\ IsFiniteSet(One(r))
                   /\ Cardinality(One(r)) = Ones(outcomes, r) - Ones(outcomes, from - 1)}
<1>1. /\ n \in Nat /\ Ones(outcomes, 0) = 0 /\ \A r \in 0 .. n : Ones(outcomes, r) \in Int
      /\ \A r \in 1 .. n : /\ outcomes[r].label \in {0, 1}
                           /\ Ones(outcomes, r) = Ones(outcomes, r - 1) + outcomes[r].label
  <2>1. n \in Nat
    OBVIOUS
  <2> QED BY <2>1, OnesRuns
<1>2. from \in 1 .. n /\ from - 1 \in 0 .. n /\ to \in from .. n
  OBVIOUS
<1> HIDE DEF n
<1>3. One(from - 1) = {} /\ IsFiniteSet(One(from - 1)) /\ Cardinality(One(from - 1)) = 0
  <2>1. One(from - 1) = {}
    BY <1>2
  <2> HIDE DEF One
  <2> QED BY <2>1, FS_EmptySet
<1>4. from - 1 \in A
  <2>1. Ones(outcomes, from - 1) \in Int
    BY <1>1, <1>2
  <2>2. Ones(outcomes, from - 1) - Ones(outcomes, from - 1) = 0
    BY <2>1
  <2> HIDE DEF One
  <2> QED BY <1>2, <1>3, <2>2
<1>5. 0 \in A
  <2>1. CASE from - 1 = 0
    BY <1>4, <2>1
  <2>2. CASE from - 1 # 0
    <3>1. ~(0 >= from - 1) /\ 0 \in 0 .. n
      BY <1>1, <1>2, <2>2
    <3> QED BY <3>1
  <2> QED BY <2>1, <2>2
<1>6. ASSUME NEW r \in 1 .. n, r - 1 \in A PROVE r \in A
  <2>1. CASE r < from - 1
    <3>0. r \in Int /\ from \in Int /\ n \in Nat
      BY <1>1, <1>2
    <3>1. ~(r >= from - 1) /\ r \in 0 .. n
      BY <2>1, <3>0
    <3> QED BY <3>1
  <2>2. CASE r = from - 1
    BY <1>4, <2>2
  <2>3. CASE r >= from
    <3>1. /\ r \in 0 .. n /\ r - 1 \in 0 .. n /\ r - 1 >= from - 1
      BY <1>1, <1>2, <2>3
    <3>2. /\ IsFiniteSet(One(r - 1))
          /\ Cardinality(One(r - 1)) = Ones(outcomes, r - 1) - Ones(outcomes, from - 1)
      BY <1>6, <3>1
    <3>3. /\ outcomes[r].label \in {0, 1}
          /\ Ones(outcomes, r) = Ones(outcomes, r - 1) + outcomes[r].label
          /\ Ones(outcomes, r - 1) \in Int /\ Ones(outcomes, from - 1) \in Int
      BY <1>1, <1>2, <3>1
    <3>4. /\ r \notin One(r - 1)
          /\ outcomes[r].label = 1 => One(r) = One(r - 1) \cup {r}
          /\ outcomes[r].label # 1 => One(r) = One(r - 1)
      <4>1. r \in Int /\ from \in Int /\ r >= from
        BY <1>1, <1>2, <2>3
      <4>2. from .. r = (from .. r - 1) \cup {r} /\ r \notin from .. r - 1
        BY <4>1
      <4> QED BY <4>2
    <3> DEFINE a == Ones(outcomes, r)  b == Ones(outcomes, r - 1)  c == Ones(outcomes, from - 1)
    <3>5. CASE outcomes[r].label = 1
      <4> HIDE DEF One
      <4>1. IsFiniteSet(One(r)) /\ Cardinality(One(r)) = Cardinality(One(r - 1)) + 1
        BY <3>2, <3>4, <3>5, FS_AddElement
      <4>2. a = b + 1 /\ b \in Int /\ c \in Int /\ Cardinality(One(r)) = (b - c) + 1
        BY <3>2, <3>3, <3>5, <4>1
      <4> HIDE DEF a, b, c
      <4>3. Cardinality(One(r)) = a - c
        BY <4>2
      <4> QED BY <3>1, <4>1, <4>3 DEF a, c
    <3>6. CASE outcomes[r].label # 1
      <4>1. a = b
        <5>1. outcomes[r].label = 0
          BY <3>3, <3>6
        <5> QED BY <5>1, <3>3
      <4> HIDE DEF One
      <4>2. IsFiniteSet(One(r)) /\ Cardinality(One(r)) = a - c
        BY <3>2, <3>4, <3>6, <4>1
      <4> QED BY <3>1, <4>2 DEF a, c
    <3> QED BY <3>5, <3>6
  <2> QED BY <1>1, <1>2, <2>1, <2>2, <2>3
<1>7. \A r \in 0 .. n : r \in A
  <2> HIDE DEF A
  <2> QED BY <1>1, <1>5, <1>6, UpTo
<1>8. to \in A /\ to >= from - 1
  <2>1. to \in 0 .. n /\ to >= from - 1
    BY <1>1, <1>2
  <2> HIDE DEF A
  <2> QED BY <1>7, <2>1
<1>9. Cardinality(One(to)) = Ones(outcomes, to) - Ones(outcomes, from - 1)
  BY <1>8
<1>10. to - from + 1 = to - (from - 1)
  BY <1>1, <1>2
<1>11. MeanOf(from, to) = [sum |-> Cardinality(One(to)), count |-> to - from + 1]
  BY DEF MeanOf
<1> HIDE DEF One
<1> QED BY <1>9, <1>10, <1>11

\* The mean of a pool is the isotonic regression at each of its samples.
LEMMA PoolIsRegression ==
  ASSUME CalibrationInv, Climbs(blocks, Len(blocks)), taken = Len(outcomes),
         NEW j \in 1 .. Len(blocks),
         NEW i \in End(blocks, j - 1) + 1 .. End(blocks, j)
  PROVE  IsRegressionAt(blocks[j], i)
<1> DEFINE n == Len(outcomes)
           e == End(blocks, j - 1)
           f == End(blocks, j)
           p == blocks[j].sum
           c == blocks[j].count
           O(t) == Ones(outcomes, t)
<1>1. /\ outcomes \in Seq(Outcomes) /\ blocks \in Seq(Pools) /\ PoolsFit(outcomes, blocks)
      /\ End(blocks, Len(blocks)) = n /\ n \in Nat
  BY DEF CalibrationInv
<1>2. /\ e \in Nat /\ f \in Nat /\ f = e + c /\ f <= n /\ p \in Int /\ c \in Nat \ {0}
  <2>1. j \in 0 .. Len(blocks) /\ j - 1 \in 0 .. Len(blocks) /\ Len(blocks) \in 0 .. Len(blocks)
    BY <1>1
  <2>2. e \in Nat /\ f \in Nat /\ f <= End(blocks, Len(blocks))
    BY <1>1, <2>1, EndRuns
  <2>3. f = e + c /\ blocks[j] \in Pools
    BY <1>1, EndRuns
  <2>4. p \in Int /\ c \in Nat \ {0}
    BY <2>3 DEF Pools
  <2> QED BY <1>1, <2>2, <2>3, <2>4
<1>3. p = O(f) - O(e) /\ \A t \in 0 .. n : O(t) \in Int
  BY <1>1, OnesRuns DEF PoolsFit
<1>4. \A t \in 0 .. n : (O(t) - O(e)) * c >= p * (t - e)
  BY <1>1, LineSupports
<1>5. i \in e + 1 .. f
  OBVIOUS
<1> HIDE DEF n, e, f, p, c, O
<1>6. /\ O(e) \in Int /\ O(f) \in Int /\ i \in 1 .. n /\ e + 1 \in 1 .. i /\ e + 1 \in 1 .. n
      /\ f \in i .. n /\ (e + 1) - 1 = e /\ \A to \in i .. n : to \in e + 1 .. n /\ to \in 0 .. n
  <2>1. \A t \in 0 .. n : O(t) \in Int
    BY <1>3
  <2>2. e \in 0 .. n /\ f \in 0 .. n /\ i \in Int /\ n \in Int
    BY <1>1, <1>2, <1>5
  <2>3. /\ i \in 1 .. n /\ e + 1 \in 1 .. i /\ e + 1 \in 1 .. n /\ f \in i .. n
        /\ (e + 1) - 1 = e
    BY <1>1, <1>2, <1>5
  <2>4. \A to \in i .. n : to \in e + 1 .. n /\ to \in 0 .. n
    BY <1>1, <1>2, <1>5
  <2> QED BY <2>1, <2>2, <2>3, <2>4
<1>7. \A from \in 1 .. n : \A to \in from .. n :
        /\ MeanOf(from, to).sum = O(to) - O(from - 1)
        /\ MeanOf(from, to).count = to - (from - 1)
  BY <1>1, MeanCounts DEF n, O
\* from its first sample its own mean is the least
<1>8. Same(blocks[j], MeanOf(e + 1, f))
  <2>1. MeanOf(e + 1, f).sum = O(f) - O(e) /\ MeanOf(e + 1, f).count = f - e
    <3>1. f \in e + 1 .. n
      BY <1>6
    <3> QED BY <3>1, <1>6, <1>7
  <2>2. f - e = c
    BY <1>2
  <2>3. MeanOf(e + 1, f).sum = p /\ MeanOf(e + 1, f).count = c
    BY <2>1, <2>2, <1>3
  <2>4. p * c >= p * c
    <3>1. p * c \in Int
      BY <1>2
    <3> QED BY <3>1
  <2> QED BY <2>3, <2>4 DEF Same, AtLeast, p, c
<1>9. ASSUME NEW to \in i .. n PROVE AtLeast(MeanOf(e + 1, to), blocks[j])
  <2>1. MeanOf(e + 1, to).sum = O(to) - O(e) /\ MeanOf(e + 1, to).count = to - e
    BY <1>6, <1>7
  <2>2. (O(to) - O(e)) * c >= p * (to - e)
    BY <1>4, <1>6
  <2> QED BY <2>1, <2>2 DEF AtLeast, p, c
\* and from no start is the least mean greater
<1>10. ASSUME NEW from \in 1 .. i PROVE AtLeast(blocks[j], MeanOf(from, f))
  <2> DEFINE t == from - 1
  <2>1. from \in 1 .. n /\ f \in from .. n /\ t \in 0 .. n /\ t \in Int
    BY <1>1, <1>2, <1>5, <1>6
  <2>2. MeanOf(from, f).sum = O(f) - O(t) /\ MeanOf(from, f).count = f - t
    BY <1>7, <2>1
  <2>3. (O(t) - O(e)) * c >= p * (t - e) /\ O(t) \in Int
    BY <1>3, <1>4, <2>1
  <2> DEFINE ot == O(t)  oe == O(e)  of == O(f)
  <2>4. ot \in Int /\ oe \in Int /\ of \in Int /\ p = of - oe
    BY <1>3, <1>6, <2>3
  <2>5. (ot - oe) * c >= p * (t - e)
    BY <2>3
  <2> HIDE DEF t, ot, oe, of
  <2>6. p * (f - t) >= (of - ot) * c
    <3> DEFINE a == ot - oe  b == t - e
    <3>1. a \in Int /\ b \in Int /\ of - ot = p - a /\ f - t = c - b
      BY <1>2, <2>1, <2>4
    <3>2. a * c >= p * b
      BY <2>5
    <3> HIDE DEF a, b
    <3> DEFINE ac == a * c  pb == p * b  pc == p * c
    <3>3. ac \in Int /\ pb \in Int /\ pc \in Int /\ ac >= pb
      BY <1>2, <3>1, <3>2
    <3>4. (p - a) * c = pc - ac /\ p * (c - b) = pc - pb
      BY <1>2, <3>1
    <3> HIDE DEF ac, pb, pc
    <3>5. pc - pb >= pc - ac
      BY <3>3
    <3> QED BY <3>1, <3>4, <3>5
  <2> QED BY <2>2, <2>6 DEF AtLeast, p, c, of, ot
<1> QED BY <1>6, <1>8, <1>9, <1>10 DEF IsRegressionAt, n

\* A finite set of integers has a largest and a least member.
LEMMA LastAndFirst ==
  ASSUME NEW T \in SUBSET Int, IsFiniteSet(T), T # {}
  PROVE  /\ Max(T) \in T /\ \A t \in T : t <= Max(T)
         /\ Min(T) \in T /\ \A t \in T : Min(T) <= t
<1> DEFINE F == {U \in SUBSET T : U # {} => /\ \E x \in U : \A y \in U : x >= y
                                            /\ \E x \in U : \A y \in U : x <= y}
<1>1. ASSUME NEW U \in SUBSET T, \A V \in SUBSET U : V # U => V \in F
      PROVE  U \in F
  <2> SUFFICES ASSUME U # {}
               PROVE  /\ \E x \in U : \A y \in U : x >= y
                      /\ \E x \in U : \A y \in U : x <= y
    OBVIOUS
  <2>1. PICK z \in U : TRUE
    OBVIOUS
  <2> DEFINE V == U \ {z}
  <2>2. V \in F
    <3>1. V \in SUBSET U /\ V # U
      BY <2>1
    <3> QED BY <1>1, <3>1
  <2>3. CASE V = {}
    <3>1. \A y \in U : y = z
      BY <2>3
    <3> QED BY <2>1, <3>1
  <2>4. CASE V # {}
    <3>1. PICK a \in V : \A y \in V : a >= y
      BY <2>2, <2>4
    <3>2. PICK b \in V : \A y \in V : b <= y
      BY <2>2, <2>4
    <3>3. \A y \in U : y \in V \/ y = z
      OBVIOUS
    <3>4. a \in U /\ b \in U /\ a \in Int /\ b \in Int /\ z \in Int /\ \A y \in U : y \in Int
      BY <2>1
    <3>5. \E x \in U : \A y \in U : x >= y
      <4>1. CASE a >= z
        BY <3>1, <3>3, <3>4, <4>1
      <4>2. CASE z >= a
        <5>1. \A y \in U : z >= y
          BY <3>1, <3>3, <3>4, <4>2
        <5> QED BY <2>1, <5>1
      <4> QED BY <3>4, <4>1, <4>2
    <3>6. \E x \in U : \A y \in U : x <= y
      <4>1. CASE b <= z
        BY <3>2, <3>3, <3>4, <4>1
      <4>2. CASE z <= b
        <5>1. \A y \in U : z <= y
          BY <3>2, <3>3, <3>4, <4>2
        <5> QED BY <2>1, <5>1
      <4> QED BY <3>4, <4>1, <4>2
    <3> QED BY <3>5, <3>6
  <2> QED BY <2>3, <2>4
<1>2. \A U \in SUBSET T : U \in F
  <2> HIDE DEF F
  <2> QED BY <1>1, OverSubsets
<1>3. /\ \E x \in T : \A y \in T : x >= y
      /\ \E x \in T : \A y \in T : x <= y
  BY <1>2
<1>4. Max(T) \in T /\ \A y \in T : Max(T) >= y
  <2>1. Max(T) = CHOOSE x \in T : \A y \in T : x >= y
    BY DEF Max
  <2> QED BY <1>3, <2>1, Zenon
<1>5. Min(T) \in T /\ \A y \in T : Min(T) <= y
  <2>1. Min(T) = CHOOSE x \in T : \A y \in T : x <= y
    BY DEF Min
  <2> QED BY <1>3, <2>1, Zenon
<1> QED BY <1>4, <1>5

\* A weighted mean of two lies between them and rises with the second's weight.
LEMMA Between ==
  ASSUME NEW A \in Int, NEW B \in Int, A <= B, NEW u \in Nat, NEW v \in Nat
  PROVE  /\ A * (u + v) <= A * u + B * v /\ A * u + B * v <= B * (u + v)
         /\ \A w \in 0 .. u : A * u + B * v <= A * (u - w) + B * (v + w)
<1> DEFINE d == B - A
<1>1. d \in Nat /\ B = A + d
  OBVIOUS
<1>2. d * v >= 0 /\ d * u >= 0 /\ \A w \in 0 .. u : d * w >= 0
  <2> HIDE DEF d
  <2> QED BY <1>1
<1>3. A * u + B * v = A * (u + v) + d * v
  <2> HIDE DEF d
  <2>1. A * u + (A + d) * v = A * (u + v) + d * v
    BY <1>1
  <2> QED BY <1>1, <2>1
<1>4. B * (u + v) = A * u + B * v + d * u
  <2> HIDE DEF d
  <2>1. (A + d) * (u + v) = A * u + (A + d) * v + d * u
    BY <1>1
  <2> QED BY <1>1, <2>1
<1>5. ASSUME NEW w \in 0 .. u
      PROVE  A * (u - w) + B * (v + w) = A * u + B * v + d * w
  <2> HIDE DEF d
  <2>1. A * (u - w) + (A + d) * (v + w) = A * u + (A + d) * v + d * w
    BY <1>1
  <2> QED BY <1>1, <2>1
<1> DEFINE au == A * u + B * v  s == A * (u + v)
<1>6. au \in Int /\ s \in Int /\ d * v \in Int /\ d * u \in Int
  BY <1>1
<1>7. s <= au /\ au <= au + d * u
  <2> DEFINE dv == d * v  du == d * u
  <2>1. au = s + dv /\ dv >= 0 /\ du >= 0 /\ dv \in Int /\ du \in Int
    BY <1>2, <1>3, <1>6
  <2> HIDE DEF au, s, dv, du
  <2>2. s <= au /\ au <= au + du
    BY <1>6, <2>1
  <2> QED BY <2>2 DEF du
<1>8. ASSUME NEW w \in 0 .. u PROVE au <= au + d * w
  <2> DEFINE dw == d * w
  <2>1. dw \in Int /\ dw >= 0
    BY <1>1, <1>2
  <2> HIDE DEF au, dw
  <2>2. au <= au + dw
    BY <1>6, <2>1
  <2> QED BY <2>2 DEF dw
<1> QED BY <1>4, <1>5, <1>7, <1>8

\* Between a mean and one at least as great, u and v steps away: the mean there
Line(a, b, u, v) == [sum |-> a.sum * b.count * u + b.sum * a.count * v,
                     count |-> a.count * b.count * (u + v)]

\* It lies between them, and does not fall on the way to the greater.
LEMMA LineRises ==
  ASSUME NEW a \in Pools, NEW b \in Pools, AtLeast(b, a),
         NEW u \in Nat, NEW v \in Nat, u + v # 0
  PROVE  /\ Line(a, b, u, v) \in Pools
         /\ AtLeast(Line(a, b, u, v), a) /\ AtLeast(b, Line(a, b, u, v))
         /\ \A w \in 0 .. u : AtLeast(Line(a, b, u - w, v + w), Line(a, b, u, v))
<1> DEFINE p == a.sum  c == a.count  q == b.sum  d == b.count
           A == p * d  B == q * c  m == u + v  k == c * d * m
           L == A * u + B * v
<1>1. p \in Int /\ c \in Nat \ {0} /\ q \in Int /\ d \in Nat \ {0} /\ m \in Nat \ {0}
  BY DEF Pools
<1>2. A <= B
  <2>1. q * c >= p * d
    BY DEF AtLeast
  <2> HIDE DEF p, q, c, d
  <2>2. p * d \in Int /\ q * c \in Int
    BY <1>1
  <2> QED BY <2>1, <2>2
<1>3. Line(a, b, u, v) = [sum |-> L, count |-> k]
  BY DEF Line
<1>4. \A w \in 0 .. u : Line(a, b, u - w, v + w) = [sum |-> A * (u - w) + B * (v + w), count |-> k]
  <2> SUFFICES ASSUME NEW w \in 0 .. u
               PROVE  Line(a, b, u - w, v + w)
                        = [sum |-> A * (u - w) + B * (v + w), count |-> k]
    OBVIOUS
  <2>1. (u - w) + (v + w) = m
    OBVIOUS
  <2>2. Line(a, b, u - w, v + w) = [sum |-> A * (u - w) + B * (v + w),
                                    count |-> c * d * ((u - w) + (v + w))]
    BY DEF Line
  <2> HIDE DEF p, c, q, d, m
  <2> QED BY <2>1, <2>2
<1> HIDE DEF p, c, q, d, m
<1>5. A \in Int /\ B \in Int /\ k \in Nat \ {0} /\ A * m \in Int /\ B * m \in Int
  <2>1. A \in Int /\ B \in Int
    BY <1>1
  <2>2. c * d \in Nat /\ c * d # 0
    BY <1>1
  <2> DEFINE cd == c * d
  <2>3. cd \in Nat /\ cd # 0 /\ k = cd * m
    BY <2>2
  <2> HIDE DEF cd
  <2>4. cd * m \in Nat /\ cd * m # 0
    BY <2>3, <1>1
  <2> HIDE DEF A, B
  <2>5. A * m \in Int /\ B * m \in Int
    BY <2>1, <1>1
  <2> HIDE DEF k
  <2> QED BY <2>1, <2>3, <2>4, <2>5
<1>6. A * m * c = p * k /\ B * m * d = q * k
  BY <1>1
<1>7. /\ A * m <= L /\ L <= B * m
      /\ \A w \in 0 .. u : L <= A * (u - w) + B * (v + w)
  <2> HIDE DEF A, B
  <2> QED BY <1>2, <1>5, Between DEF m
<1>8. L \in Int /\ \A w \in 0 .. u : A * (u - w) + B * (v + w) \in Int
  <2> HIDE DEF A, B
  <2> QED BY <1>5
<1> HIDE DEF A, B, k
<1>9. L * c >= p * k /\ q * k >= L * d
  <2> HIDE DEF L
  <2> DEFINE am == A * m  bm == B * m
  <2>1. am \in Int /\ bm \in Int /\ am <= L /\ L <= bm /\ am * c = p * k /\ bm * d = q * k
    BY <1>5, <1>6, <1>7
  <2> HIDE DEF am, bm
  <2>2. am * c <= L * c /\ L * d <= bm * d
    <3>1. c \in Nat /\ d \in Nat
      BY <1>1
    <3>2. am * c <= L * c
      BY <2>1, <3>1, <1>8, Factor
    <3>3. L * d <= bm * d
      BY <2>1, <3>1, <1>8, Factor
    <3> QED BY <3>2, <3>3
  <2>3. L * c \in Int /\ L * d \in Int /\ p * k \in Int /\ q * k \in Int
    BY <1>1, <1>5, <1>8
  <2> QED BY <2>1, <2>2, <2>3
<1>10. ASSUME NEW w \in 0 .. u PROVE (A * (u - w) + B * (v + w)) * k >= L * k
  <2> DEFINE M == A * (u - w) + B * (v + w)
  <2>1. M \in Int /\ L \in Int /\ L <= M /\ k \in Nat
    BY <1>5, <1>7, <1>8
  <2> HIDE DEF M, L
  <2>2. L * k <= M * k
    BY <2>1, Factor
  <2>3. L * k \in Int /\ M * k \in Int
    BY <2>1
  <2>4. M * k >= L * k
    BY <2>2, <2>3
  <2> QED BY <2>4 DEF M
<1>11. Line(a, b, u, v) \in Pools
  <2> HIDE DEF L
  <2> QED BY <1>3, <1>5, <1>8 DEF Pools
<1>12. AtLeast(Line(a, b, u, v), a) /\ AtLeast(b, Line(a, b, u, v))
  <2> HIDE DEF L
  <2>1. Line(a, b, u, v).sum = L /\ Line(a, b, u, v).count = k
    BY <1>3
  <2> QED BY <1>9, <2>1 DEF AtLeast, p, c, q, d
<1>13. ASSUME NEW w \in 0 .. u PROVE AtLeast(Line(a, b, u - w, v + w), Line(a, b, u, v))
  <2> DEFINE M == A * (u - w) + B * (v + w)
  <2>1. Line(a, b, u - w, v + w) = [sum |-> M, count |-> k]
    BY <1>4 DEF A, B, k
  <2>2. M * k >= L * k
    BY <1>10
  <2> HIDE DEF M, L
  <2>3. /\ Line(a, b, u - w, v + w).sum = M /\ Line(a, b, u - w, v + w).count = k
        /\ Line(a, b, u, v).sum = L /\ Line(a, b, u, v).count = k
    BY <1>3, <2>1
  <2> QED BY <2>2, <2>3 DEF AtLeast
<1> QED BY <1>11, <1>12, <1>13

\* The points of a curve: finitely many, with means that rise with the scores
RisingPoints(points) ==
  /\ DOMAIN points \in SUBSET Int /\ IsFiniteSet(DOMAIN points) /\ DOMAIN points # {}
  /\ \A x \in DOMAIN points : points[x] \in Pools
  /\ \A x, y \in DOMAIN points : x <= y => AtLeast(points[y], points[x])

\* The points up to a score and those beyond
PointsTo(points, s) == {x \in DOMAIN points : x <= s}
PointsFrom(points, s) == {x \in DOMAIN points : x > s}

\* What is predicted at a score, by where the score lies
LEMMA PredictCases ==
  ASSUME NEW points, RisingPoints(points), NEW s \in Int
  PROVE  LET P == PointsTo(points, s)
             Q == PointsFrom(points, s)
             p == Max(P)
             q == Min(Q)
         IN /\ P # {} => p \in P /\ \A x \in P : x <= p
            /\ Q # {} => q \in Q /\ \A x \in Q : q <= x
            /\ P = {} => Predict(points, s) = points[q]
            /\ P # {} /\ Q = {} => Predict(points, s) = points[p]
            /\ P # {} /\ Q # {} =>
                 /\ Predict(points, s) = Line(points[p], points[q], q - s, s - p)
                 /\ q - s \in Nat /\ s - p \in Nat /\ (q - s) + (s - p) # 0
                 /\ points[p] \in Pools /\ points[q] \in Pools /\ AtLeast(points[q], points[p])
<1> DEFINE P == PointsTo(points, s)
           Q == PointsFrom(points, s)
           p == Max(P)
           q == Min(Q)
<1>1. /\ P \in SUBSET Int /\ IsFiniteSet(P) /\ Q \in SUBSET Int /\ IsFiniteSet(Q)
      /\ \A x \in P : x \in DOMAIN points /\ x <= s
      /\ \A x \in Q : x \in DOMAIN points /\ x > s
  BY FS_Subset DEF RisingPoints, PointsTo, PointsFrom
<1>2. P # {} => p \in P /\ \A x \in P : x <= p
  <2> HIDE DEF P
  <2> QED BY <1>1, LastAndFirst
<1>3. Q # {} => q \in Q /\ \A x \in Q : q <= x
  <2> HIDE DEF Q
  <2> QED BY <1>1, LastAndFirst
<1>4. P = {} => Predict(points, s) = points[q]
  BY DEF Predict, PointsTo, PointsFrom, RisingPoints
<1>5. P # {} /\ Q = {} => Predict(points, s) = points[p]
  BY DEF Predict, PointsTo, PointsFrom, RisingPoints
<1>6. ASSUME P # {}, Q # {}
      PROVE  /\ Predict(points, s) = Line(points[p], points[q], q - s, s - p)
             /\ q - s \in Nat /\ s - p \in Nat /\ (q - s) + (s - p) # 0
             /\ points[p] \in Pools /\ points[q] \in Pools /\ AtLeast(points[q], points[p])
  <2>1. Predict(points, s)
          = [sum |-> points[p].sum * points[q].count * (q - s)
                       + points[q].sum * points[p].count * (s - p),
             count |-> points[p].count * points[q].count * (q - p)]
    BY <1>6 DEF Predict, PointsTo, PointsFrom, RisingPoints
  <2> HIDE DEF P, Q, p, q
  <2>2. p \in Int /\ q \in Int /\ p <= s /\ q > s /\ p \in DOMAIN points /\ q \in DOMAIN points
    BY <1>1, <1>2, <1>3, <1>6
  <2>3. /\ q - s \in Nat /\ s - p \in Nat /\ (q - s) + (s - p) # 0 /\ (q - s) + (s - p) = q - p
        /\ p <= q
    BY <2>2
  <2>4. points[p] \in Pools /\ points[q] \in Pools /\ AtLeast(points[q], points[p])
    BY <2>2, <2>3 DEF RisingPoints
  <2>5. Predict(points, s) = Line(points[p], points[q], q - s, s - p)
    BY <2>1, <2>3 DEF Line
  <2> QED BY <2>3, <2>4, <2>5
<1> QED BY <1>2, <1>3, <1>4, <1>5, <1>6

\* A prediction lies between the points below and above its score.
LEMMA PredictBetween ==
  ASSUME NEW points, RisingPoints(points), NEW s \in Int
  PROVE  /\ Predict(points, s) \in Pools
         /\ \A x \in DOMAIN points : /\ x <= s => AtLeast(Predict(points, s), points[x])
                                     /\ x > s => AtLeast(points[x], Predict(points, s))
<1> DEFINE P == PointsTo(points, s)
           Q == PointsFrom(points, s)
           p == Max(P)
           q == Min(Q)
           y == Predict(points, s)
<1>1. /\ P # {} => p \in P /\ \A x \in P : x <= p
      /\ Q # {} => q \in Q /\ \A x \in Q : q <= x
      /\ P = {} => y = points[q]
      /\ P # {} /\ Q = {} => y = points[p]
      /\ P # {} /\ Q # {} =>
           /\ y = Line(points[p], points[q], q - s, s - p)
           /\ q - s \in Nat /\ s - p \in Nat /\ (q - s) + (s - p) # 0
           /\ points[p] \in Pools /\ points[q] \in Pools /\ AtLeast(points[q], points[p])
  BY PredictCases
<1>2. /\ DOMAIN points # {} /\ \A x \in DOMAIN points : x \in Int /\ points[x] \in Pools
      /\ \A x, z \in DOMAIN points : x <= z => AtLeast(points[z], points[x])
  BY DEF RisingPoints
<1>3. \A x \in DOMAIN points : /\ x <= s <=> x \in P
                               /\ x > s <=> x \in Q
                               /\ x <= s \/ x > s
  BY <1>2 DEF PointsTo, PointsFrom
<1>4. P \subseteq DOMAIN points /\ Q \subseteq DOMAIN points
  BY DEF PointsTo, PointsFrom
<1> HIDE DEF P, Q, p, q, y
<1>5. CASE P = {}
  <2>1. Q # {}
    BY <1>2, <1>3, <1>5
  <2>2. q \in DOMAIN points /\ y = points[q] /\ \A x \in Q : q <= x
    BY <1>1, <1>4, <1>5, <2>1
  <2>3. y \in Pools /\ \A x \in Q : AtLeast(points[x], y)
    BY <1>2, <1>4, <2>2
  <2> QED BY <1>3, <1>5, <2>3 DEF y
<1>6. CASE P # {} /\ Q = {}
  <2>1. p \in DOMAIN points /\ y = points[p] /\ \A x \in P : x <= p
    BY <1>1, <1>4, <1>6
  <2>2. y \in Pools /\ \A x \in P : AtLeast(y, points[x])
    BY <1>2, <1>4, <2>1
  <2> QED BY <1>3, <1>6, <2>2 DEF y
<1>7. CASE P # {} /\ Q # {}
  <2>1. /\ p \in DOMAIN points /\ q \in DOMAIN points
        /\ \A x \in P : x <= p /\ \A z \in Q : q <= z
    BY <1>1, <1>4, <1>7
  <2>2. y \in Pools /\ AtLeast(y, points[p]) /\ AtLeast(points[q], y)
    <3> DEFINE a == points[p]  b == points[q]  u == q - s  v == s - p
    <3>1. /\ a \in Pools /\ b \in Pools /\ AtLeast(b, a) /\ u \in Nat /\ v \in Nat /\ u + v # 0
          /\ y = Line(a, b, u, v)
      BY <1>1, <1>7
    <3> HIDE DEF a, b, u, v
    <3>2. y \in Pools /\ AtLeast(y, a) /\ AtLeast(b, y)
      BY <3>1, LineRises
    <3> QED BY <3>2 DEF a, b
  <2>3. ASSUME NEW x \in P PROVE AtLeast(y, points[x])
    <3>1. AtLeast(points[p], points[x]) /\ points[x] \in Pools /\ points[p] \in Pools
      BY <1>2, <1>4, <2>1
    <3> QED BY <2>2, <3>1, MeansCompare
  <2>4. ASSUME NEW x \in Q PROVE AtLeast(points[x], y)
    <3>1. AtLeast(points[x], points[q]) /\ points[x] \in Pools /\ points[q] \in Pools
      BY <1>2, <1>4, <1>7, <1>1, <2>1
    <3> QED BY <2>2, <3>1, MeansCompare
  <2> QED BY <1>3, <2>2, <2>3, <2>4 DEF y
<1> QED BY <1>5, <1>6, <1>7

\* What is predicted never falls while the score rises.
LEMMA PredictRises ==
  ASSUME NEW points, RisingPoints(points), NEW s \in Int, NEW t \in Int, s < t
  PROVE  AtLeast(Predict(points, t), Predict(points, s))
<1>1. /\ Predict(points, s) \in Pools
      /\ \A x \in DOMAIN points : x > s => AtLeast(points[x], Predict(points, s))
  BY PredictBetween
<1>2. /\ Predict(points, t) \in Pools
      /\ \A x \in DOMAIN points : x <= t => AtLeast(Predict(points, t), points[x])
  BY PredictBetween
<1>3. \A x \in DOMAIN points : x \in Int /\ points[x] \in Pools
  BY DEF RisingPoints
<1>4. CASE \E x \in DOMAIN points : s < x /\ x <= t
  <2>1. PICK x \in DOMAIN points : s < x /\ x <= t
    BY <1>4
  <2>2. AtLeast(points[x], Predict(points, s)) /\ AtLeast(Predict(points, t), points[x])
        /\ points[x] \in Pools
    BY <1>1, <1>2, <1>3, <2>1
  <2> QED BY <1>1, <1>2, <2>2, MeansCompare
<1>5. CASE ~ \E x \in DOMAIN points : s < x /\ x <= t
  <2> DEFINE P == PointsTo(points, s)
             Q == PointsFrom(points, s)
             p == Max(P)
             q == Min(Q)
  <2>1. PointsTo(points, t) = P /\ PointsFrom(points, t) = Q
    <3>1. \A x \in DOMAIN points : (x <= s <=> x <= t) /\ (x > s <=> x > t)
      BY <1>3, <1>5
    <3> QED BY <3>1 DEF PointsTo, PointsFrom
  <2>2. /\ P # {} => p \in P
        /\ Q # {} => q \in Q
        /\ P = {} => Predict(points, s) = points[q]
        /\ P # {} /\ Q = {} => Predict(points, s) = points[p]
        /\ P # {} /\ Q # {} =>
             /\ Predict(points, s) = Line(points[p], points[q], q - s, s - p)
             /\ q - s \in Nat /\ s - p \in Nat /\ (q - s) + (s - p) # 0
             /\ points[p] \in Pools /\ points[q] \in Pools /\ AtLeast(points[q], points[p])
    BY PredictCases
  <2>3. /\ P = {} => Predict(points, t) = points[q]
        /\ P # {} /\ Q = {} => Predict(points, t) = points[p]
        /\ P # {} /\ Q # {} =>
             /\ Predict(points, t) = Line(points[p], points[q], q - t, t - p)
             /\ q - t \in Nat
    <3>1. /\ PointsTo(points, t) = {} => Predict(points, t) = points[Min(PointsFrom(points, t))]
          /\ PointsTo(points, t) # {} /\ PointsFrom(points, t) = {} =>
               Predict(points, t) = points[Max(PointsTo(points, t))]
          /\ PointsTo(points, t) # {} /\ PointsFrom(points, t) # {} =>
               /\ Predict(points, t)
                    = Line(points[Max(PointsTo(points, t))], points[Min(PointsFrom(points, t))],
                           Min(PointsFrom(points, t)) - t, t - Max(PointsTo(points, t)))
               /\ Min(PointsFrom(points, t)) - t \in Nat
      BY PredictCases
    <3> HIDE DEF P, Q
    <3> QED BY <2>1, <3>1
  <2>4. P \subseteq DOMAIN points /\ Q \subseteq DOMAIN points
    BY DEF PointsTo, PointsFrom
  <2> HIDE DEF P, Q, p, q
  <2>5. CASE P = {} \/ Q = {}
    <3>1. Predict(points, t) = Predict(points, s)
      BY <2>2, <2>3, <2>5
    <3> QED BY <1>1, <3>1, MeansCompare
  <2>6. CASE P # {} /\ Q # {}
    <3> DEFINE a == points[p]  b == points[q]  u == q - s  v == s - p  w == t - s
    <3>1. p \in Int /\ q \in Int
      BY <1>3, <2>2, <2>4, <2>6
    <3>2. /\ a \in Pools /\ b \in Pools /\ AtLeast(b, a) /\ u \in Nat /\ v \in Nat /\ u + v # 0
          /\ Predict(points, s) = Line(a, b, u, v)
      BY <2>2, <2>6
    <3>3. w \in 0 .. u /\ q - t = u - w /\ t - p = v + w
      <4>1. q - t \in Nat
        BY <2>3, <2>6
      <4> QED BY <3>1, <4>1
    <3>4. Predict(points, t) = Line(a, b, u - w, v + w)
      BY <2>3, <2>6, <3>3
    <3> HIDE DEF a, b, u, v, w
    <3>5. AtLeast(Line(a, b, u - w, v + w), Line(a, b, u, v))
      BY <3>2, <3>3, LineRises
    <3> QED BY <3>2, <3>4, <3>5
  <2> QED BY <2>5, <2>6
<1> QED BY <1>4, <1>5

\* The fitted values rise along the samples.
LEMMA FittedRises ==
  ASSUME blocks \in Seq(Pools), Climbs(blocks, Len(blocks)),
         NEW i \in 1 .. End(blocks, Len(blocks)), NEW k \in 1 .. End(blocks, Len(blocks)), i <= k
  PROVE  AtLeast(Fitted[k], Fitted[i])
<1> DEFINE n == Len(blocks)
           E(j) == End(blocks, j)
<1>1. /\ n \in Nat /\ \A j \in 1 .. n : blocks[j] \in Pools
      /\ \A j \in 0 .. n : E(j) \in Nat
      /\ \A j, m \in 0 .. n : j <= m => E(j) <= E(m)
  <2>1. n \in Nat
    OBVIOUS
  <2> QED BY <2>1, EndRuns
<1>2. \A j \in 1 .. n : \A m \in E(j - 1) + 1 .. E(j) : Fitted[m] = blocks[j]
  BY FittedIs
<1>3. PICK p \in 1 .. n : E(p - 1) < i /\ i <= E(p)
  BY PoolAt
<1>4. PICK q \in 1 .. n : E(q - 1) < k /\ k <= E(q)
  BY PoolAt
<1>5. i \in Nat /\ k \in Nat
  <2>1. n \in 0 .. n
    BY <1>1
  <2> QED BY <1>1, <2>1
<1> HIDE DEF n, E
<1>6. /\ E(p - 1) \in Nat /\ E(p) \in Nat /\ E(q - 1) \in Nat /\ E(q) \in Nat
      /\ p - 1 \in 0 .. n /\ q \in 0 .. n
  <2>1. p - 1 \in 0 .. n /\ p \in 0 .. n /\ q - 1 \in 0 .. n /\ q \in 0 .. n
    BY <1>1
  <2> QED BY <1>1, <2>1
<1>7. Fitted[i] = blocks[p] /\ Fitted[k] = blocks[q]
  <2>1. i \in E(p - 1) + 1 .. E(p) /\ k \in E(q - 1) + 1 .. E(q)
    BY <1>3, <1>4, <1>5, <1>6
  <2> QED BY <1>2, <2>1
<1>8. p <= q
  <2> SUFFICES ASSUME q <= p - 1 PROVE FALSE
    BY <1>1
  <2>1. E(q) <= E(p - 1)
    BY <1>1, <1>6
  <2> QED BY <2>1, <1>3, <1>4, <1>5, <1>6
<1>9. blocks[p] \in Pools /\ blocks[q] \in Pools
  BY <1>1
<1>10. CASE p = q
  BY <1>7, <1>9, <1>10, MeansCompare
<1>11. CASE p # q
  <2>1. p < q
    BY <1>8, <1>11, <1>1
  <2>2. ~AtLeast(blocks[p], blocks[q])
    BY <2>1 DEF Climbs, n
  <2> QED BY <1>7, <1>9, <2>2, MeansCompare
<1> QED BY <1>10, <1>11

\* A fitted curve has points whose means rise with their scores.
LEMMA CurveRises ==
  ASSUME CalibrationInv, Climbs(blocks, Len(blocks)), taken = Len(outcomes), outcomes # <<>>
  PROVE  RisingPoints(Curve(Fitted))
<1> DEFINE n == Len(outcomes)
           D == {outcomes[i].score : i \in DOMAIN outcomes}
           At(x) == {i \in DOMAIN outcomes : outcomes[i].score = x}
           last(x) == Max(At(x))
           c == Curve(Fitted)
<1>1. /\ outcomes \in Seq(Outcomes) /\ blocks \in Seq(Pools) /\ End(blocks, Len(blocks)) = n
      /\ n \in Nat \ {0} /\ DOMAIN outcomes = 1 .. n
      /\ \A i, j \in 1 .. n : i <= j => outcomes[i].score <= outcomes[j].score
  BY DEF CalibrationInv
<1>2. \A i \in 1 .. n : outcomes[i].score \in Int
  <2>1. \A i \in 1 .. n : outcomes[i] \in Outcomes
    BY <1>1, ElementOfSeq
  <2> QED BY <2>1, CalibrationConstants DEF Outcomes
<1>3. Fitted \in Seq(Pools) /\ Len(Fitted) = n
  BY <1>1, FittedIs
<1>4. \A i, k \in 1 .. n : i <= k => AtLeast(Fitted[k], Fitted[i])
  BY <1>1, FittedRises
<1>5. DOMAIN c = D /\ \A x \in D : c[x] = Fitted[last(x)]
  BY DEF Curve
<1>6. D \in SUBSET Int /\ IsFiniteSet(D) /\ D # {}
  <2>1. D \in SUBSET Int
    BY <1>1, <1>2
  <2>2. IsFiniteSet(1 .. n)
    BY <1>1, FS_Interval
  <2>3. IsFiniteSet(DOMAIN outcomes)
    BY <1>1, <2>2
  <2>4. IsFiniteSet(D)
    <3> DEFINE f == [i \in DOMAIN outcomes |-> outcomes[i].score]
    <3>1. f \in Surjection(DOMAIN outcomes, D)
      <4>1. f \in [DOMAIN outcomes -> D]
        OBVIOUS
      <4>2. \A x \in D : \E i \in DOMAIN outcomes : f[i] = x
        OBVIOUS
      <4> HIDE DEF f, D
      <4> QED BY <4>1, <4>2 DEF Surjection
    <3> HIDE DEF f, D
    <3> QED BY <2>3, <3>1, FS_Surjection
  <2>5. outcomes[1].score \in D
    <3>1. 1 \in DOMAIN outcomes
      BY <1>1
    <3> QED BY <3>1
  <2> QED BY <2>1, <2>4, <2>5
<1>7. ASSUME NEW x \in D
      PROVE  last(x) \in 1 .. n /\ outcomes[last(x)].score = x /\ \A i \in At(x) : i <= last(x)
  <2>1. At(x) \in SUBSET (1 .. n) /\ At(x) # {}
    BY <1>1
  <2>2. last(x) \in At(x) /\ \A i \in At(x) : i <= last(x)
    <3> HIDE DEF At, n
    <3> QED BY <1>1, <2>1, LargestMember
  <2> QED BY <1>1, <2>2
<1> HIDE DEF n, D, At, last, c
<1>8. ASSUME NEW x \in D PROVE c[x] \in Pools
  <2>1. last(x) \in 1 .. Len(Fitted)
    BY <1>3, <1>7
  <2> QED BY <1>3, <1>5, <2>1, ElementOfSeq
<1>9. ASSUME NEW x \in D, NEW y \in D, x <= y PROVE AtLeast(c[y], c[x])
  <2>1. last(x) \in 1 .. n /\ last(y) \in 1 .. n /\ outcomes[last(x)].score = x
        /\ outcomes[last(y)].score = y /\ x \in Int /\ y \in Int
    BY <1>6, <1>7
  <2>2. CASE last(x) <= last(y)
    BY <1>4, <1>5, <2>1, <2>2
  <2>3. CASE ~(last(x) <= last(y))
    <3>1. last(y) <= last(x)
      BY <1>1, <2>1, <2>3
    <3>2. y <= x
      BY <1>1, <2>1, <3>1
    <3>3. x = y
      BY <1>9, <2>1, <3>2
    <3>4. last(x) <= last(x)
      BY <1>1, <2>1
    <3> QED BY <2>3, <3>3, <3>4
  <2> QED BY <2>2, <2>3
<1>10. RisingPoints(c)
  BY <1>5, <1>6, <1>8, <1>9 DEF RisingPoints
<1> QED BY <1>10 DEF c

\* The calibrator is the isotonic regression of the labels, for any number of
\* samples and however equal scores were ordered; and what it then predicts never
\* falls while the score rises (core/ml/calibration.py: _pav, fit, transform).
THEOREM CalibrationSound == CalibrationSpec => []CalibrationIsIsotonic
<1>1. CalibrationInv => CalibrationIsIsotonic
  <2> SUFFICES ASSUME CalibrationInv, curve # <<>>
               PROVE  /\ \A i \in DOMAIN outcomes : IsRegressionAt(Fitted[i], i)
                      /\ \A s, t \in Scores :
                           s < t => AtLeast(Predict(curve, t), Predict(curve, s))
    BY DEF CalibrationIsIsotonic
  <2>1. /\ ~Violating /\ taken = Len(outcomes) /\ outcomes # <<>> /\ curve = Curve(Fitted)
        /\ outcomes \in Seq(Outcomes) /\ blocks \in Seq(Pools)
        /\ End(blocks, Len(blocks)) = taken /\ Climbs(blocks, Len(blocks) - 1)
    BY DEF CalibrationInv
  <2>2. Climbs(blocks, Len(blocks))
    <3>1. Len(blocks) >= 2 => ~AtLeast(blocks[Len(blocks) - 1], blocks[Len(blocks)])
      BY <2>1 DEF Violating
    <3> QED BY <2>1, <3>1, ClimbsOn
  <2>3. ASSUME NEW i \in DOMAIN outcomes PROVE IsRegressionAt(Fitted[i], i)
    <3>1. i \in 1 .. End(blocks, Len(blocks))
      BY <2>1
    <3>2. PICK j \in 1 .. Len(blocks) : End(blocks, j - 1) < i /\ i <= End(blocks, j)
      BY <2>1, <3>1, PoolAt
    <3>3. i \in End(blocks, j - 1) + 1 .. End(blocks, j)
      <4>1. j \in 0 .. Len(blocks) /\ j - 1 \in 0 .. Len(blocks)
        OBVIOUS
      <4>2. End(blocks, j) \in Nat /\ End(blocks, j - 1) \in Nat /\ i \in Int
        BY <2>1, <3>1, <4>1, EndRuns
      <4> QED BY <3>2, <4>2
    <3>4. Fitted[i] = blocks[j]
      BY <2>1, <3>3, FittedIs
    <3> QED BY <2>1, <2>2, <3>3, <3>4, PoolIsRegression
  <2>4. ASSUME NEW s \in Scores, NEW t \in Scores, s < t
        PROVE  AtLeast(Predict(curve, t), Predict(curve, s))
    <3>1. RisingPoints(curve)
      BY <2>1, <2>2, CurveRises
    <3>2. s \in Int /\ t \in Int
      BY CalibrationConstants
    <3> QED BY <2>4, <3>1, <3>2, PredictRises
  <2> QED BY <2>3, <2>4
<1> QED BY <1>1, CalibrationStarts, CalibrationStep, PTL DEF CalibrationSpec
=============================================================================
