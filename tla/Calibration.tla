----------------------------- MODULE Calibration ------------------------------
(***************************************************************************)
(* The isotonic calibrator of core/ml/calibration.py, which                *)
(* LightGBMPredictor.fit_calibration fits and predict_proba applies.       *)
(*                                                                         *)
(* Fitting is pool-adjacent-violators over labels in the order of their    *)
(* scores; np.argsort leaves the order of equal scores open.  A fitted     *)
(* value is a mean, kept as the record [sum, count].                       *)
(***************************************************************************)
EXTENDS Integers, Sequences, FiniteSets, SequencesExt

CONSTANTS
  Scores,       \* what the model may answer, integers
  MaxOutcomes   \* bound on the samples of one fit

ASSUME CalibrationConstants == Scores \subseteq Int /\ MaxOutcomes \in Nat

VARIABLES
  outcomes,  \* sequence of [score, label] by ascending score
  taken,     \* how many labels _pav has taken
  blocks,    \* its pools, each with its sum and count
  curve      \* xs and ys of the calibrator as a function, empty until it is fitted

calibrationVars == <<outcomes, taken, blocks, curve>>
-----------------------------------------------------------------------------
\* sum / count of two means compared without dividing
AtLeast(a, b) == a.sum * b.count >= b.sum * a.count
Same(a, b) == AtLeast(a, b) /\ AtLeast(b, a)

Pool(a, b) == [sum |-> a.sum + b.sum, count |-> a.count + b.count]

\* wrong: sums are compared for means
ViolatingBySum ==
  Len(blocks) >= 2 /\ blocks[Len(blocks) - 1].sum >= blocks[Len(blocks)].sum

Violating ==
  Len(blocks) >= 2 /\ AtLeast(blocks[Len(blocks) - 1], blocks[Len(blocks)])

\* for s, c in blocks: out.extend([s / c] * int(c))
Fitted == FoldLeft(LAMBDA out, b : out \o [k \in 1 .. b.count |-> b], <<>>, blocks)

\* From the scores to their values; equal scores keep the last one.
Curve(fitted) ==
  [x \in {outcomes[i].score : i \in DOMAIN outcomes} |->
     fitted[Max({i \in DOMAIN outcomes : outcomes[i].score = x})]]

\* np.interp: flat outside the curve and linear between two of its points;
\* without a curve the score itself, as a mean over one.
Predict(points, score) ==
  LET below == {x \in DOMAIN points : x <= score}
      above == {x \in DOMAIN points : x > score}
      p == Max(below)
      q == Min(above)
  IN IF DOMAIN points = {} THEN [sum |-> score, count |-> 1]
     ELSE IF below = {} THEN points[q]
     ELSE IF above = {} THEN points[p]
     ELSE [sum |-> points[p].sum * points[q].count * (q - score)
                     + points[q].sum * points[p].count * (score - p),
           count |-> points[p].count * points[q].count * (q - p)]
-----------------------------------------------------------------------------
CalibrationInit ==
  /\ \E n \in 0 .. MaxOutcomes :
       outcomes \in {s \in [1 .. n -> [score : Scores, label : {0, 1}]] :
                       \A i, j \in 1 .. n : i <= j => s[i].score <= s[j].score}
  /\ taken = 0
  /\ blocks = <<>>
  /\ curve = <<>>

Merge ==
  /\ Violating
  /\ LET n == Len(blocks) IN
     blocks' = Append(SubSeq(blocks, 1, n - 2), Pool(blocks[n - 1], blocks[n]))
  /\ UNCHANGED <<outcomes, taken, curve>>

Take ==
  /\ ~Violating
  /\ taken < Len(outcomes)
  /\ blocks' = Append(blocks, [sum |-> outcomes[taken + 1].label, count |-> 1])
  /\ taken' = taken + 1
  /\ UNCHANGED <<outcomes, curve>>

FitCurve ==
  /\ ~Violating
  /\ taken = Len(outcomes)
  /\ curve = <<>>
  /\ outcomes # <<>>
  /\ curve' = Curve(Fitted)
  /\ UNCHANGED <<outcomes, taken, blocks>>

CalibrationNext == Merge \/ Take \/ FitCurve

CalibrationSpec == CalibrationInit /\ [][CalibrationNext]_calibrationVars
-----------------------------------------------------------------------------
CalibrationTypeOK ==
  /\ taken \in 0 .. Len(outcomes)
  /\ \A i \in DOMAIN blocks : blocks[i] \in [sum : Nat, count : Nat \ {0}]
  /\ FoldLeft(LAMBDA n, b : n + b.count, 0, blocks) = taken

\* The mean label of the samples from..to, which the fit is judged by
MeanOf(from, to) ==
  [sum |-> Cardinality({i \in from .. to : outcomes[i].label = 1}),
   count |-> to - from + 1]

\* A fitted value is the isotonic regression at its sample: the greatest over
\* all starts up to it of the least mean over all ends from it on.
IsRegressionAt(y, i) ==
  LET n == Len(outcomes)
      LeastFrom(from, m) ==
        /\ \E to \in i .. n : Same(m, MeanOf(from, to))
        /\ \A to \in i .. n : AtLeast(MeanOf(from, to), m)
  IN /\ \E from \in 1 .. i : LeastFrom(from, y)
     /\ \A from \in 1 .. i : \E to \in i .. n : AtLeast(y, MeanOf(from, to))

\* The fit is the isotonic regression of the labels, whichever way equal scores
\* were ordered and wherever pools were merged; and what the calibrator then
\* predicts never falls while the score rises, though points with equal scores
\* are dropped and the rest is interpolated.
CalibrationIsIsotonic ==
  curve # <<>> =>
    /\ \A i \in DOMAIN outcomes : IsRegressionAt(Fitted[i], i)
    /\ \A s, t \in Scores :
         s < t => AtLeast(Predict(curve, t), Predict(curve, s))
=============================================================================
