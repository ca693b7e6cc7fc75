---------------------------- MODULE EvaluationMetrics ----------------------------
(***************************************************************************)
(* The metrics of the recovery model and the choice of its operating        *)
(* threshold (evaluation/metrics.py, evaluation/protocol.py).               *)
(*                                                                         *)
(* A sample is a label and a predicted probability; a data set is a         *)
(* function from samples to the number of their rows, every row of weight   *)
(* one: no caller under src/ passes a sample_weight except the tests.  (Rows *)
(* of weight zero that fill a bin of their own would make the calibration    *)
(* errors not a number: calibration_bins asks for rows, and then divides by  *)
(* their weight.)                                                           *)
(* A probability or threshold is an integer from 0 to Scale.  A metric is   *)
(* a fraction <<n, d>> with d > 0, or Undefined: no metric is rounded, and   *)
(* fractions are compared by cross-multiplication.                          *)
(***************************************************************************)
EXTENDS Integers, FiniteSets, FiniteSetsExt

CONSTANTS
  Scale,            \* probabilities are 0/Scale .. Scale/Scale
  Bins,             \* n_bins of calibration_bins, a divisor of Scale
  Thresholds,       \* the candidate thresholds
  TargetPrecision,  \* target_precision and min_coverage of select_threshold
  MinCoverage,
  Undefined, Error

Levels == 0 .. Scale
Samples == {0, 1} \X Levels

ASSUME EvaluationAssumption ==
  /\ Scale \in Nat \ {0} /\ Bins \in 1 .. Scale /\ Scale % Bins = 0
  /\ Thresholds \subseteq Levels /\ Thresholds # {}

-----------------------------------------------------------------------------
(* Fractions.                                                               *)

AtMost(a, b) == a[1] * b[2] <= b[1] * a[2]
Distance(a, b) == IF a >= b THEN a - b ELSE b - a

\* None when the denominator is zero, never 0.
Ratio(n, d) == IF d = 0 THEN Undefined ELSE <<n, d>>

-----------------------------------------------------------------------------
(* Confusion matrices.                                                      *)

Weight(data, S) == MapThenSumSet(LAMBDA s : data[s], S)

\* The project's rule for a positive prediction.
ApplyThreshold(t) == {p \in Levels : p >= t}

\* confusion_counts, for the levels predicted positive.
ConfusionCounts(data, predicted) ==
  [tn |-> Weight(data, {0} \X (Levels \ predicted)), fp |-> Weight(data, {0} \X predicted),
   fn |-> Weight(data, {1} \X (Levels \ predicted)), tp |-> Weight(data, {1} \X predicted)]

\* Seeded fault: a probability equal to the threshold counts as negative.
CountsAtStrict(data, t) == ConfusionCounts(data, {p \in Levels : p > t})

\* The protocol's own count (_counts_at).
CountsAt(data, t) ==
  LET Count(y, S) == Weight(data, {s \in Samples : s[1] = y /\ s[2] \in S})
      below == {p \in Levels : ~(p >= t)}
      above == {p \in Levels : p >= t}
  IN  [tn |-> Count(0, below), fp |-> Count(0, above),
       fn |-> Count(1, below), tp |-> Count(1, above)]

Total(cm) == cm.tn + cm.fp + cm.fn + cm.tp
Positives(cm) == cm.tp + cm.fn
Negatives(cm) == cm.tn + cm.fp
Selected(cm) == cm.tp + cm.fp
Rejected(cm) == cm.tn + cm.fn

\* MCC with the square of its value in the place of the root: sign and order are kept.
SignedSquareMCC(cm) ==
  LET n == cm.tp * cm.tn - cm.fp * cm.fn
  IN  Ratio(n * Distance(n, 0), Selected(cm) * Positives(cm) * Negatives(cm) * Rejected(cm))

\* (p_o - p_e) / (1 - p_e), both scaled by the square of the total.
Kappa(cm) ==
  LET agreed   == (cm.tp + cm.tn) * Total(cm)
      expected == Selected(cm) * Positives(cm) + Rejected(cm) * Negatives(cm)
  IN  Ratio(agreed - expected, Total(cm) * Total(cm) - expected)

BalancedAccuracy(cm) ==
  IF Positives(cm) = 0 \/ Negatives(cm) = 0 THEN Undefined
  ELSE <<cm.tp * Negatives(cm) + cm.tn * Positives(cm), 2 * Positives(cm) * Negatives(cm)>>

\* classification_metrics_from_counts, for a matrix that is not empty.
Classification(cm) ==
  [accuracy          |-> <<cm.tp + cm.tn, Total(cm)>>,
   precision         |-> Ratio(cm.tp, Selected(cm)),
   recall            |-> Ratio(cm.tp, Positives(cm)),
   specificity       |-> Ratio(cm.tn, Negatives(cm)),
   npv               |-> Ratio(cm.tn, Rejected(cm)),
   f1                |-> Ratio(2 * cm.tp, 2 * cm.tp + cm.fp + cm.fn),
   balanced_accuracy |-> BalancedAccuracy(cm),
   mcc               |-> SignedSquareMCC(cm),
   cohen_kappa       |-> Kappa(cm),
   coverage          |-> <<Selected(cm), Total(cm)>>]

-----------------------------------------------------------------------------
(* Probability errors and calibration.                                      *)

Sum(data, f(_)) == MapThenSumSet(LAMBDA s : data[s] * f(s), Samples)

\* Numerators over Scale * weight: the bias, mean(p - y), and mean(|p - y|).
BiasNumerator(data) == Sum(data, LAMBDA s : s[2] - Scale * s[1])
AbsoluteNumerator(data) == Sum(data, LAMBDA s : Distance(s[2], Scale * s[1]))

\* np.digitize over the inner edges: a probability on an edge falls in the bin above it,
\* and the last bin includes 1.0.
BinOf(p) == Cardinality({k \in 1 .. Bins - 1 : k * Scale <= p * Bins})

InBin(b) == {s \in Samples : BinOf(s[2]) = b}
Filled(data) == {b \in 0 .. Bins - 1 : \E s \in InBin(b) : data[s] > 0}
GapNumerator(data, b) ==
  Distance(MapThenSumSet(LAMBDA s : data[s] * s[2], InBin(b)),
           MapThenSumSet(LAMBDA s : data[s] * Scale * s[1], InBin(b)))

\* abs_gap of a bin, and the two calibration errors over the filled bins.
Gap(data, b) == <<GapNumerator(data, b), Scale * Weight(data, InBin(b))>>
ECE(data) == <<MapThenSumSet(LAMBDA b : GapNumerator(data, b), Filled(data)),
               Scale * Weight(data, Samples)>>
MCE(data) ==
  Gap(data, CHOOSE b \in Filled(data) :
              \A c \in Filled(data) : AtMost(Gap(data, c), Gap(data, b)))

-----------------------------------------------------------------------------
(* The operating threshold.                                                 *)

ThresholdTable(data) == [t \in Thresholds |-> Classification(CountsAt(data, t))]

Maximal(table, S, metric) ==
  {t \in S : \A u \in S : AtMost(table[u][metric], table[t][metric])}
Defined(table, metric) == {t \in Thresholds : table[t][metric] # Undefined}

\* best of select_threshold: raises where the metric is undefined at every candidate.
Best(table, metric) ==
  LET defined == Defined(table, metric)
  IN  IF defined = {} THEN Error ELSE Min(Maximal(table, defined, metric))

Covering(table) ==
  {t \in Defined(table, "precision") : AtMost(MinCoverage, table[t].coverage)}

Qualifying(table) == {t \in Covering(table) : AtMost(TargetPrecision, table[t].precision)}

\* The method min_precision, with its two fallbacks: the best precision among the
\* thresholds that cover enough, or the last row of the table.
HighConfidenceTier(table) ==
  IF Qualifying(table) # {}
  THEN [threshold |-> Min(Qualifying(table)), feasible |-> TRUE]
  ELSE [threshold |-> IF Covering(table) = {} THEN Max(Thresholds)
                      ELSE Min(Maximal(table, Covering(table), "precision")),
        feasible |-> FALSE]

SelectThreshold(data, method) ==
  LET table == ThresholdTable(data)
  IN  CASE method = "youden"  -> Best(table, "balanced_accuracy")
        [] method = "max_f1"  -> Best(table, "f1")
        [] method = "max_mcc" -> Best(table, "mcc")
        [] OTHER              -> HighConfidenceTier(table).threshold

-----------------------------------------------------------------------------
(* Properties of a data set with at least one row.                          *)

\* The table a threshold is chosen from and the evaluation that reports it count the same
\* matrix at every threshold: the chosen row is the reported operating point, also for
\* probabilities equal to the threshold (two implementations of one rule).
TableIsOperatingPoint(data) ==
  \A t \in Thresholds :
    Classification(CountsAt(data, t)) = Classification(ConfusionCounts(data, ApplyThreshold(t)))

\* Youden's choice maximises TPR - FPR and is the lowest threshold that does, as the
\* docstring claims of the balanced accuracy; it raises for a single class only.  The
\* difference is compared over the common denominator of all rows.
YoudenMaximisesTheGap(data) ==
  LET At(t)     == ConfusionCounts(data, ApplyThreshold(t))
      Spread(t) == At(t).tp * Negatives(At(t)) - At(t).fp * Positives(At(t))
      choice    == SelectThreshold(data, "youden")
      oneClass  == \E y \in {0, 1} : Weight(data, {y} \X Levels) = 0
  IN  IF oneClass THEN choice = Error
      ELSE \A t \in Thresholds : /\ Spread(t) <= Spread(choice)
                                 /\ t < choice => Spread(t) < Spread(choice)

\* A feasible high-confidence tier is precise enough, large enough, and no lower threshold
\* is both; an infeasible one is announced only where no threshold is both.
TierIsHonest(data) ==
  LET table   == ThresholdTable(data)
      tier    == HighConfidenceTier(table)
      Good(t) == LET cm == ConfusionCounts(data, ApplyThreshold(t))
                 IN  /\ Selected(cm) > 0
                     /\ cm.tp * TargetPrecision[2] >= TargetPrecision[1] * Selected(cm)
                     /\ Selected(cm) * MinCoverage[2] >= MinCoverage[1] * Total(cm)
  IN  /\ tier.feasible <=> \E t \in Thresholds : Good(t)
      /\ tier.feasible => Good(tier.threshold) /\ \A t \in Thresholds : Good(t) => tier.threshold <= t

\* The calibration errors bound the bias: |mean_error| <= ECE <= MCE and ECE <= MAE, which
\* needs every row in exactly one bin, the rows at 0, at 1.0 and on the edges included.
CalibrationBoundsBias(data) ==
  LET rows == Scale * Weight(data, Samples)
  IN  /\ AtMost(<<Distance(BiasNumerator(data), 0), rows>>, ECE(data))
      /\ AtMost(ECE(data), MCE(data))
      /\ AtMost(ECE(data), <<AbsoluteNumerator(data), rows>>)

\* The correlation and the agreement of a confusion matrix tell the same story: where MCC
\* is defined so is kappa, with the same sign, and kappa is undefined only when every row
\* is predicted to be the one class there is.
MCCAgreesWithKappa(data) ==
  \A t \in Thresholds :
    LET cm    == CountsAt(data, t)
        mcc   == SignedSquareMCC(cm)
        kappa == Kappa(cm)
    IN  /\ kappa = Undefined <=> Total(cm) \in {cm.tp, cm.tn}
        /\ mcc # Undefined =>
             /\ kappa # Undefined
             /\ (mcc[1] > 0) = (kappa[1] > 0)
             /\ (mcc[1] < 0) = (kappa[1] < 0)

=============================================================================
