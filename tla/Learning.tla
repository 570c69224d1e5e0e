------------------------------- MODULE Learning -------------------------------
(***************************************************************************)
(* From candles to a walk-forward score:                                   *)
(*   core/ml/labeling.py    the triple-barrier label of an entry;          *)
(*   core/ml/dataset.py     the loop that turns candles into samples;      *)
(*   core/ml/validation.py  the folds;                                     *)
(*   core/ml/wfv.py         label spans, uniqueness weights, the run.      *)
(*                                                                         *)
(* Candles and samples are counted from 1 where Python counts from 0.      *)
(* Returns are compared as integers in 1/ReturnUnit of the entry price.    *)
(* Which entries a primary signal picks (meta labelling) is left open;     *)
(* without one it picks all.  The model that is fitted is left out.        *)
(***************************************************************************)
EXTENDS Integers, Sequences, FiniteSets

CONSTANTS
  ReturnUnit,     \* denominator of the returns
  Upper, Lower,   \* the barriers, in 1/ReturnUnit
  RoundTripCost,  \* in 1/ReturnUnit
  LabelHorizon,   \* bars a label looks ahead; the embargo of the folds
  MinHistory,     \* candles a sample needs
  LabelPrices,    \* closes
  MaxCandles,     \* bound on the candles of a data set
  FoldSizes       \* train_size and test_size come from here

ASSUME LearningConstants ==
  /\ ReturnUnit \in Nat \ {0}
  /\ Upper \in Nat /\ Lower \in Nat /\ RoundTripCost \in Nat
  /\ LabelHorizon \in Nat \ {0}
  /\ MinHistory \in Nat
  /\ LabelPrices \subseteq Nat \ {0}
  /\ MaxCandles \in Nat
  /\ FoldSizes \subseteq Nat \ {0}

VARIABLES
  candles,  \* closes of the stock, oldest first
  cursor,   \* the candle the loop of build_dataset_from_candles is at
  samples,  \* items of the data set, in the order of captured_at
  sizes,    \* train_size and test_size of the walk-forward run
  fold      \* the fold that is trained and tested

learningVars == <<candles, cursor, samples, sizes, fold>>
-----------------------------------------------------------------------------
NoFold == [trainStart |-> 0, trainEnd |-> 0, testStart |-> 0, testEnd |-> 0]
NoSizes == [train |-> 0, test |-> 0]

\* closes[i] / closes[entry] - 1 against a barrier
Rises(entry, i) ==
  (candles[i] - candles[entry]) * ReturnUnit >= Upper * candles[entry]
Falls(entry, i) ==
  (candles[i] - candles[entry]) * ReturnUnit <= -(Lower * candles[entry])

\* The last candle a label may look at; fewer than LabelHorizon are enough.
LastOf(entry) ==
  IF entry + LabelHorizon <= Len(candles) THEN entry + LabelHorizon
  ELSE Len(candles)

\* A sample with its triple-barrier label: at the first candle that touches a
\* barrier, the upper one first, or at the last one it may look at.
Label(entry, exit, barrier) ==
  [entry |-> entry, exit |-> exit, barrier |-> barrier,
   positive |-> (candles[exit] - candles[entry]) * ReturnUnit
                  > RoundTripCost * candles[entry]]

Labels(entry) ==
  LET ahead == (entry + 1) .. LastOf(entry)
      touched == {i \in ahead : Rises(entry, i) \/ Falls(entry, i)}
  IN IF touched = {} THEN {Label(entry, LastOf(entry), "TIME")}
     ELSE {Label(entry, i, IF Rises(entry, i) THEN "UPPER" ELSE "LOWER") :
             i \in {j \in touched : \A k \in touched : j <= k}}

\* A sample needs its history and one candle to come.
Usable(entry) == entry >= MinHistory /\ entry < Len(candles)

Span(item) == item.entry .. item.exit

\* wrong: range(start, end)
ConcurrencyBeforeExit(t) ==
  Cardinality({k \in DOMAIN samples : t \in Span(samples[k]) /\ t < samples[k].exit})

\* How many labels look at instant t.
Concurrency(t) == Cardinality({k \in DOMAIN samples : t \in Span(samples[k])})

\* compute_uniqueness_weights averages 1 / Concurrency over the span; this is
\* the instants of the span by the number of labels that look at them, from
\* which the average follows.
Weight(k) ==
  [c \in {Concurrency(t) : t \in Span(samples[k])} |->
     Cardinality({t \in Span(samples[k]) : Concurrency(t) = c})]

WeighsFull(k) == DOMAIN Weight(k) = {1}

\* fold.train_slice and fold.test_slice; bounds are half open, so the first
\* sample of a slice is its start plus one.
TrainRows == (fold.trainStart + 1) .. fold.trainEnd
TestRows == (fold.testStart + 1) .. fold.testEnd

\* wrong: no embargo
FoldUpToTest(testStart, size) ==
  [trainStart |-> IF testStart >= size.train THEN testStart - size.train ELSE 0,
   trainEnd |-> testStart,
   testStart |-> testStart,
   testEnd |-> testStart + size.test]

Fold(testStart, size) ==
  LET trainEnd == testStart - LabelHorizon IN
  [trainStart |-> IF trainEnd >= size.train THEN trainEnd - size.train ELSE 0,
   trainEnd |-> trainEnd,
   testStart |-> testStart,
   testEnd |-> testStart + size.test]
-----------------------------------------------------------------------------
LearningInit ==
  /\ \E n \in 0 .. MaxCandles : candles \in [1 .. n -> LabelPrices]
  /\ cursor = 1
  /\ samples = <<>>
  /\ sizes = NoSizes
  /\ fold = NoFold

AddSample ==
  /\ cursor <= Len(candles)
  /\ Usable(cursor)
  /\ \E item \in Labels(cursor) : samples' = Append(samples, item)
  /\ cursor' = cursor + 1
  /\ UNCHANGED <<candles, sizes, fold>>

\* Too little history or future, or the primary signal stays silent.
SkipCandle ==
  /\ cursor <= Len(candles)
  /\ cursor' = cursor + 1
  /\ UNCHANGED <<candles, samples, sizes, fold>>

\* run_dataset_walk_forward on the complete data set; it raises on an empty
\* one, and there may be too few samples for one fold.
WalkForward(train, test) ==
  LET size == [train |-> train, test |-> test]
      first == train + LabelHorizon
  IN /\ cursor > Len(candles)
     /\ samples # <<>>
     /\ sizes = NoSizes
     /\ first + test <= Len(samples)
     /\ sizes' = size
     /\ fold' = Fold(first, size)
     /\ UNCHANGED <<candles, cursor, samples>>

NextFold ==
  /\ sizes # NoSizes
  /\ fold.testEnd + sizes.test <= Len(samples)
  /\ fold' = Fold(fold.testEnd, sizes)
  /\ UNCHANGED <<candles, cursor, samples, sizes>>

LearningNext ==
  \/ AddSample
  \/ SkipCandle
  \/ \E train, test \in FoldSizes : WalkForward(train, test)
  \/ NextFold

LearningSpec == LearningInit /\ [][LearningNext]_learningVars
-----------------------------------------------------------------------------
Items == [entry : Nat, exit : Nat, barrier : {"UPPER", "LOWER", "TIME"},
          positive : BOOLEAN]

LearningTypeOK ==
  /\ candles \in Seq(LabelPrices)
  /\ cursor \in 1 .. Len(candles) + 1
  /\ samples \in Seq(Items)
  /\ sizes \in [train : Nat, test : Nat]
  /\ fold \in [trainStart : Nat, trainEnd : Nat, testStart : Nat, testEnd : Nat]

\* The embargo is counted in samples while labels look ahead in candles: even
\* when candles are skipped between samples, no label that is trained on ends
\* at or after the candle of a sample it is tested with.
FoldsAreSound ==
  \A a \in TrainRows, b \in TestRows : samples[a].exit < samples[b].entry

\* A sample keeps its full weight exactly when no other label of the data set
\* looks at a candle that its own looks at.
WeightsTellOverlap ==
  cursor > Len(candles) =>
    \A k \in DOMAIN samples :
      WeighsFull(k) <=>
        \A j \in DOMAIN samples \ {k} : Span(samples[j]) \cap Span(samples[k]) = {}
=============================================================================
