----------------------------- MODULE ModelEvaluation -----------------------------
(***************************************************************************)
(* The other measures of a set of predictions (evaluation/metrics.py,       *)
(* evaluation/protocol.py), and the scripts and the notebook that compute    *)
(* their own (train_lightgbm.py, ml_optimization_suite.py, the hybrid       *)
(* notebook).  Rounding to four digits and the logarithmic loss are left    *)
(* out.                                                                    *)
(***************************************************************************)
EXTENDS EvaluationMetrics, Sequences

CONSTANT MinSelected  \* the rows the suite's 90 % threshold must select

ASSUME ModelEvaluationAssumption == MinSelected \in Nat \ {0}

Same(a, b) ==
  IF Undefined \in {a, b} THEN a = b ELSE a[1] * b[2] = b[1] * a[2]
OrZero(m) == IF m = Undefined THEN <<0, 1>> ELSE m

Class(y) == {y} \X Levels
Count(data, y) == Weight(data, Class(y))
OneClass(data) == Count(data, 0) = 0 \/ Count(data, 1) = 0

-----------------------------------------------------------------------------
(* Ranking.                                                                 *)

\* roc_auc: the share of pairs of a positive and a negative that are ranked right, a tie
\* counting half.
RocAuc(data) ==
  IF OneClass(data) THEN Undefined
  ELSE <<MapThenSumSet(LAMBDA s :
           MapThenSumSet(LAMBDA r : data[s] * data[r] * (CASE s[2] > r[2] -> 2
                                                         [] s[2] = r[2] -> 1
                                                         [] OTHER -> 0), Class(0)),
           Class(1)),
         2 * Count(data, 0) * Count(data, 1)>>

Plus(a, b) == <<a[1] * b[2] + b[1] * a[2], a[2] * b[2]>>

\* pr_auc: the average precision over the positives, each at its own probability.
AveragePrecision(data) ==
  IF OneClass(data) THEN Undefined
  ELSE LET At(p)   == CountsAt(data, p)
           Here(p) == <<data[<<1, p>>] * At(p).tp, Selected(At(p)) * Count(data, 1)>>
       IN  MapThenFoldSet(Plus, <<0, 1>>, Here, LAMBDA S : CHOOSE p \in S : TRUE,
                          {p \in Levels : data[<<1, p>>] > 0})

-----------------------------------------------------------------------------
(* Errors of the probabilities, in units of 1/Scale.                        *)

Error1(s) == Distance(s[2], Scale * s[1])
ErrorsUpTo(data, e) == Weight(data, {s \in Samples : Error1(s) <= e})
Squares(data) == Sum(data, LAMBDA s : Error1(s) * Error1(s))

\* The k-th smallest error of the rows, from 1.
RankedError(data, k) ==
  CHOOSE e \in Levels : ErrorsUpTo(data, e) >= k /\ (e > 0 => ErrorsUpTo(data, e - 1) < k)

\* np.median of the absolute errors: the mean of the middle two.
MedianError(data) ==
  LET n == Weight(data, Samples)
  IN  <<RankedError(data, (n + 1) \div 2) + RankedError(data, (n \div 2) + 1), 2 * Scale>>

\* _weighted_median, one row for each sample: the first error that has half of the weight
\* at or below it, or the median where all rows weigh the same.
WeightedMedianError(data) ==
  LET present == {s \in Samples : data[s] > 0}
      once    == [s \in Samples |-> IF s \in present THEN 1 ELSE 0]
      half    == CHOOSE e \in Levels : 2 * ErrorsUpTo(data, e) >= Weight(data, Samples)
                                         /\ (e > 0 => 2 * ErrorsUpTo(data, e - 1) < Weight(data, Samples))
  IN  IF \A s, r \in present : data[s] = data[r] THEN MedianError(once)
      ELSE <<half, Scale>>

\* probability_error_metrics: R squared is undefined for a constant target, the percentage
\* error where all targets are zero.
ProbabilityErrors(data) ==
  LET n == Weight(data, Samples)
      spread == Count(data, 0) * Count(data, 1) * Scale * Scale
  IN  [mse   |-> <<Squares(data), Scale * Scale * n>>,
       mae   |-> <<AbsoluteNumerator(data), Scale * n>>,
       medae |-> MedianError(data),
       mean_error |-> <<BiasNumerator(data), Scale * n>>,
       r2    |-> IF spread = 0 THEN Undefined ELSE <<spread - n * Squares(data), spread>>,
       mape  |-> Ratio(MapThenSumSet(LAMBDA s : data[s] * Error1(s), Class(1)),
                       Scale * Count(data, 1))]

-----------------------------------------------------------------------------
(* The public entry points.                                                 *)

\* MetricResult: what has no value is listed with a reason, and has none.
Set(metrics) ==
  [values |-> metrics, undefined |-> {m \in DOMAIN metrics : metrics[m] = Undefined}]

Merge(a, b) == [m \in DOMAIN a \union DOMAIN b |-> IF m \in DOMAIN b THEN b[m] ELSE a[m]]

\* evaluate_binary of probabilities at a threshold.
EvaluateBinary(data, t) ==
  LET errors  == ProbabilityErrors(data)
      ranking == [roc_auc |-> RocAuc(data), pr_auc |-> AveragePrecision(data)]
      prob    == [brier |-> errors.mse, ece |-> ECE(data), mce |-> MCE(data)]
  IN  Set(Merge(Merge(Merge(errors, ranking), prob),
                Classification(ConfusionCounts(data, ApplyThreshold(t)))))

\* _fast_metrics, the bootstrap's.
FastMetrics(data, t) ==
  Merge([roc_auc |-> RocAuc(data), pr_auc |-> AveragePrecision(data),
         brier |-> <<Sum(data, LAMBDA s : Error1(s) ^ 2), Weight(data, Samples) * Scale ^ 2>>],
        Classification(CountsAt(data, t)))

-----------------------------------------------------------------------------
(* The scripts' own reports: undefined ratios are zero.                     *)

\* np.digitize over all eleven edges, less one: a probability of 1.0 is in no bin.
ReportBin(p) == Cardinality({k \in 0 .. Bins : k * Scale <= p * Bins}) - 1

ReportECE(data) ==
  LET In(b)  == {s \in Samples : ReportBin(s[2]) = b}
      Gap1(b) == Distance(MapThenSumSet(LAMBDA s : data[s] * Scale * s[1], In(b)),
                         MapThenSumSet(LAMBDA s : data[s] * s[2], In(b)))
  IN  <<MapThenSumSet(Gap1, 0 .. Bins - 1), Scale * Weight(data, Samples)>>

\* evaluate_predictions of train_lightgbm: roc_auc_score raises for a single class.
TrainingReport(data, t) ==
  IF OneClass(data) THEN Error ELSE
  LET Rows(y, S) == Weight(data, {s \in Samples : s[1] = y /\ s[2] \in S})
      chosen     == {p \in Levels : p >= t}
      right      == Rows(1, chosen) + Rows(0, Levels \ chosen)
      n          == Weight(data, Samples)
      predicted  == Rows(0, chosen) + Rows(1, chosen)
  IN  [accuracy  |-> <<right, n>>,
       precision |-> OrZero(Ratio(Rows(1, chosen), predicted)),
       recall    |-> OrZero(Ratio(Rows(1, chosen), Rows(1, Levels))),
       f1        |-> OrZero(Ratio(2 * Rows(1, chosen), predicted + Rows(1, Levels))),
       coverage  |-> <<predicted, n>>,
       brier     |-> <<Squares(data), Scale * Scale * n>>,
       ece       |-> ReportECE(data),
       roc_auc   |-> RocAuc(data),
       pr_auc    |-> AveragePrecision(data)]

\* compute_comprehensive_metrics of the suite: roc_auc_score raises for a single class.
SuiteReport(data, t) ==
  IF OneClass(data) THEN Error ELSE
  LET cm == ConfusionCounts(data, ApplyThreshold(t))
  IN  [accuracy  |-> <<cm.tp + cm.tn, Total(cm)>>,
       precision |-> OrZero(Ratio(cm.tp, Selected(cm))),
       recall    |-> OrZero(Ratio(cm.tp, Positives(cm))),
       specificity |-> <<cm.tn, Negatives(cm)>>,
       f1        |-> OrZero(Ratio(2 * cm.tp, 2 * cm.tp + cm.fp + cm.fn)),
       balanced_accuracy |-> BalancedAccuracy(cm),
       brier     |-> <<Squares(data), Scale * Scale * Total(cm)>>,
       roc_auc   |-> RocAuc(data),
       pr_auc    |-> AveragePrecision(data)]

\* evaluate of the notebook: the areas are not a number for a single class.
NotebookReport(data, t) ==
  LET cm == ConfusionCounts(data, ApplyThreshold(t))
  IN  [accuracy  |-> <<cm.tp + cm.tn, Total(cm)>>,
       f1        |-> OrZero(Ratio(2 * cm.tp, 2 * cm.tp + cm.fp + cm.fn)),
       precision |-> OrZero(Ratio(cm.tp, Selected(cm))),
       recall    |-> OrZero(Ratio(cm.tp, Positives(cm))),
       brier     |-> <<Squares(data), Scale * Scale * Total(cm)>>,
       roc_auc   |-> RocAuc(data),
       pr_auc    |-> AveragePrecision(data)]

\* The suite's threshold for 90 % precision: the first of the grid that reaches it with
\* enough rows, or a fixed one.
SuiteTier(data) ==
  LET reached == {t \in Thresholds :
                    LET cm == CountsAt(data, t)
                    IN  /\ Selected(cm) >= MinSelected
                        /\ cm.tp * TargetPrecision[2] >= TargetPrecision[1] * Selected(cm)}
  IN  IF reached = {} THEN [achieved |-> FALSE, threshold |-> Undefined]
      ELSE [achieved |-> TRUE, threshold |-> Min(reached)]

\* Its balanced threshold: a stable sort by F1, the highest first.
SuiteBalanced(data) ==
  LET F1(t) == LET cm == CountsAt(data, t)
               IN  OrZero(Ratio(2 * cm.tp, 2 * cm.tp + cm.fp + cm.fn))
  IN  Min({t \in Thresholds : \A u \in Thresholds : AtMost(F1(u), F1(t))})

\* choose_threshold of the notebook: the first that maximises the difference of the rates,
\* where there is anything to choose.
NotebookThreshold(data) ==
  LET Rates(t) == CountsAt(data, t)
      J(t) == Rates(t).tp * Count(data, 0) - Rates(t).fp * Count(data, 1)
  IN  IF Cardinality({s[2] : s \in {r \in Samples : data[r] > 0}}) = 1 THEN Undefined
      ELSE Min({t \in Thresholds : \A u \in Thresholds : J(u) <= J(t)})

-----------------------------------------------------------------------------
(* Calibration, selected on validation by cross-fitting.                    *)

Methods == <<"none", "sigmoid", "isotonic">>

\* The rows that shaped the cross-fitted probability of a row.
FittedOn(folds, method, row) ==
  IF method = "none" THEN {} ELSE {q \in DOMAIN folds : folds[q] # folds[row]}

\* select_calibration: the first method of least loss, if it improves on none by enough.
SelectCalibration(losses, enough) ==
  LET best == Min({i \in 1 .. Len(Methods) : \A j \in 1 .. Len(Methods) : losses[i] <= losses[j]})
  IN  IF losses[1] - losses[best] >= enough THEN Methods[best] ELSE "none"

-----------------------------------------------------------------------------
(* Properties of a data set with at least one row.                          *)

\* No operating point lies above the curve it is chosen from: the area under the ROC curve
\* is at least recall * specificity of every threshold, and at most what would be left if
\* the point were its corner.  A perfect ranking is perfect in both areas.
RankingBoundsOperatingPoint(data) ==
  LET auc == RocAuc(data)
  IN  auc # Undefined =>
        /\ \A t \in Levels :
             LET cm == CountsAt(data, t)
                 pairs == Positives(cm) * Negatives(cm)
             IN  /\ AtMost(<<cm.tp * cm.tn, pairs>>, auc)
                 /\ AtMost(auc, <<pairs - cm.fn * cm.fp, pairs>>)
        /\ auc[1] = auc[2] <=> Same(AveragePrecision(data), <<1, 1>>)

\* The errors of the probabilities bound each other, in the weighted form too, and what is
\* undefined is undefined together: R squared and the areas exactly for a single class.
ErrorsAgree(data) ==
  LET e == ProbabilityErrors(data)
      Bounded(medae) == AtMost(medae, <<2 * e.mae[1], e.mae[2]>>)
  IN  /\ AtMost(e.mse, e.mae)
      /\ AtMost(<<e.mae[1] ^ 2, e.mae[2] ^ 2>>, e.mse)
      /\ AtMost(<<Distance(e.mean_error[1], 0), e.mean_error[2]>>, e.mae)
      /\ Bounded(e.medae) /\ Bounded(WeightedMedianError(data))
      /\ (e.r2 = Undefined) = OneClass(data)
      /\ e.r2 # Undefined => AtMost(e.r2, <<1, 1>>)
      /\ e.mape = Undefined <=> Count(data, 1) = 0

\* An evaluation names what it could not compute and computes the rest: nothing is missing
\* exactly when both classes occur and both labels are predicted, and the bootstrap's
\* metrics are the evaluation's ("definitions match evaluation.metrics").
EvaluationIsComplete(data) ==
  \A t \in Thresholds :
    LET cm == ConfusionCounts(data, ApplyThreshold(t))
        r  == EvaluateBinary(data, t)
        fast == FastMetrics(data, t)
    IN  /\ r.undefined = {} <=> 0 \notin {Positives(cm), Negatives(cm), Selected(cm), Rejected(cm)}
        /\ \A m \in r.undefined : r.values[m] = Undefined
        /\ \A m \in DOMAIN fast : Same(fast[m], r.values[m])

\* The scripts' reports are the evaluation's, except that an undefined ratio is zero in them
\* and that the training report's calibration error leaves out a probability of 1.0: it is
\* wrong by at most the share of the rows that were certain and did not recover.  The two
\* scripts raise exactly where the evaluation says that it has no areas; the notebook does
\* not.
ReportsAgree(data) ==
  \A t \in Thresholds :
    LET evaluation == EvaluateBinary(data, t)
        r == evaluation.values
        training == TrainingReport(data, t)
        suite == SuiteReport(data, t)
        notebook == NotebookReport(data, t)
        raises == {"roc_auc", "pr_auc"} \intersect evaluation.undefined # {}
    IN  /\ training = Error <=> raises
        /\ suite = Error <=> raises
        /\ ~raises =>
             /\ \A m \in DOMAIN training \ {"ece"} : Same(training[m], OrZero(r[m]))
             /\ Distance(training.ece[1], r.ece[1]) <= Scale * data[<<0, Scale>>]
             /\ \A m \in DOMAIN suite : Same(suite[m], OrZero(r[m]))
        /\ \A m \in DOMAIN notebook :
             Same(notebook[m], IF m \in {"roc_auc", "pr_auc"} THEN r[m] ELSE OrZero(r[m]))

\* Given the same table, the scripts choose what the protocol would: the notebook by
\* Youden's index, the suite by F1 and, where it reaches the precision, by its tier.  With a
\* single class the suite has raised before it chooses.
ScriptsChooseLikeTheProtocol(data) ==
  /\ ~OneClass(data) /\ NotebookThreshold(data) # Undefined =>
       NotebookThreshold(data) = SelectThreshold(data, "youden")
  /\ ~OneClass(data) => SuiteBalanced(data) = SelectThreshold(data, "max_f1")
  /\ ~OneClass(data) /\ SuiteTier(data).achieved
       /\ MinSelected * MinCoverage[2] = MinCoverage[1] * Weight(data, Samples) =>
       SuiteTier(data).threshold = SelectThreshold(data, "min_precision")

\* In the protocol's cross-fitting no row is scored by a calibrator that saw its label, and
\* a calibration replaces the raw probabilities only if it is better by enough than they are
\* and no worse than the other one.  (The suite does otherwise: it chooses its thresholds
\* from the rows its calibration was fitted on, see SuiteThresholds of ModelTraining.)
CalibrationIsUnseen(data) ==
  LET n == Weight(data, Samples)
      Chosen(losses, enough) ==
        CHOOSE i \in 1 .. 3 : Methods[i] = SelectCalibration(losses, enough)
  IN  /\ \A losses \in [1 .. 3 -> 0 .. 2], enough \in 1 .. 2 :
           LET used == Chosen(losses, enough)
           IN  used # 1 => /\ losses[1] >= losses[used] + enough
                           /\ \A j \in 1 .. 3 : losses[used] <= losses[j]
      /\ \A method \in {Methods[i] : i \in 1 .. 3}, folds \in [1 .. n -> 1 .. 2], row \in 1 .. n :
           row \notin FittedOn(folds, method, row)

=============================================================================
