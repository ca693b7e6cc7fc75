------------------------------ MODULE ModelTraining ------------------------------
(***************************************************************************)
(* How the recovery model is trained, written to disk and served            *)
(* (scripts/train_lightgbm.py, scripts/ml_optimization_suite.py, the hybrid  *)
(* notebook, ml_scoring_service.py).                                        *)
(*                                                                         *)
(* What an estimator computes is left out; what it was computed FROM is      *)
(* kept.  A step of a script makes one thing from earlier things and splits:  *)
(*   learn    fits or chooses something the model consists of,               *)
(*   measure  scores it on a split,                                          *)
(*   write    replaces a file in place.                                      *)
(* Scripts are run by hand, one at a time, and may be interrupted anywhere;   *)
(* a scorer is made for every request and loads whatever is on the disk.     *)
(* joblib.load reads in pieces, joblib.dump rewrites the same file in place,  *)
(* and nothing locks it: what a load returns while a training writes is any   *)
(* of what the pieces may add up to.                                         *)
(***************************************************************************)
EXTENDS Naturals, Sequences, FiniteSets

CONSTANTS
  MaxTrainings,  \* bound on the trainings started
  ServedPath     \* LIGHTGBM_MODEL_PATH

Splits == {"train", "validation", "test"}

Learn(out, from) == [kind |-> "learn", out |-> out, from |-> from]
Measure(out, from) == [kind |-> "measure", out |-> out, from |-> from]
Write(path, from) == [kind |-> "write", out |-> path, from |-> from]

-----------------------------------------------------------------------------
(* The scripts.                                                             *)

\* Seeded fault: the preprocessor is fitted on all the rows there are.
LightgbmFitOnAll ==
  <<Learn("preprocessor", Splits),
    Learn("model", {"preprocessor", "train"})>>

\* train_and_evaluate up to the predictions.  The validation rows of eval_set are only
\* watched: nothing stops early.
LightgbmFit ==
  <<Learn("preprocessor", {"train"}),
    Learn("model", {"preprocessor", "train"})>>

\* Its metrics and files, in the order they are written.
LightgbmReport ==
  <<Measure("train_metrics", {"model", "train"}),
    Measure("validation_metrics", {"model", "validation"}),
    Measure("test_metrics", {"model", "test"}),
    Write("lightgbm_recovery_model.joblib", {"preprocessor", "model"}),
    Write("feature_order.json", {}),
    Write("metadata.json", {"model"}),
    Write("evaluation_report.json", {"train_metrics", "validation_metrics", "test_metrics"}),
    Write("evaluation_report.md", {"train_metrics", "validation_metrics", "test_metrics"})>>

\* run_optimization_suite: baselines and candidates.  The calibration is fitted on the
\* validation rows.
SuiteCandidates ==
  <<Learn("preprocessor", {"train"}),
    Learn("prior", {"train"}),
    Learn("baseline", {"preprocessor", "train"}),
    Learn("tuned", {"preprocessor", "train"}),
    Learn("calibrated", {"tuned", "validation"}),
    Learn("boosting", {"preprocessor", "train"})>>

\* The thresholds are chosen from the probabilities of the rows the calibration was
\* fitted on, then frozen.
SuiteThresholds ==
  <<Learn("high_confidence_threshold", {"calibrated", "validation"}),
    Learn("balanced_threshold", {"calibrated", "validation"})>>

\* The final evaluation on the test rows.
SuiteFinal ==
  <<Measure("baseline_metrics", {"prior", "baseline", "test"}),
    Measure("test_metrics", {"tuned", "calibrated", "balanced_threshold", "test"}),
    Measure("operating_point", {"calibrated", "high_confidence_threshold", "test"}),
    Measure("breakdown", {"calibrated", "balanced_threshold", "high_confidence_threshold",
                          "test"})>>

SuiteFiles ==
  <<Write("optimized_recovery_model.joblib",
          {"preprocessor", "calibrated", "tuned", "balanced_threshold",
           "high_confidence_threshold"}),
    Write("ml_optimization_report.json",
          {"baseline_metrics", "test_metrics", "operating_point", "breakdown"})>>

\* The notebook's baselines: the prior and the smoothed rates of the training rows.
HybridBaselines == <<Learn("prior", {"train"}), Learn("rule", {"prior", "train"})>>

\* train_lgb stops early on the validation rows.
HybridLightgbm == <<Learn("lightgbm", {"train", "validation"})>>

\* Vocabulary and scaling of the sequences.
HybridTokens == <<Learn("tokens", {"train"})>>

\* The transformer keeps the epoch with the best validation loss.
HybridTransformer == <<Learn("transformer", {"tokens", "train", "validation"})>>

HybridFusion == <<Learn("hybrid", {"lightgbm", "transformer", "validation"})>>

\* Each threshold is chosen on validation, then the test rows are scored.
HybridFinal ==
  <<Learn("threshold", {"hybrid", "validation"}),
    Measure("test_results", {"prior", "rule", "lightgbm", "transformer", "hybrid", "threshold",
                             "test"})>>

HybridFiles ==
  <<Write("lightgbm.txt", {"lightgbm"}),
    Write("transformer.pt", {"transformer", "tokens"}),
    Write("hybrid_metadata.json", {"hybrid", "threshold", "test_results"}),
    Write("test_predictions.parquet", {"prior", "rule", "lightgbm", "transformer", "hybrid",
                                       "test"})>>

Script ==
  [lightgbm |-> LightgbmFit \o LightgbmReport,
   suite    |-> SuiteCandidates \o SuiteThresholds \o SuiteFinal \o SuiteFiles,
   hybrid   |-> HybridBaselines \o HybridLightgbm \o HybridTokens \o HybridTransformer
                  \o HybridFusion \o HybridFinal \o HybridFiles]

Scripts == DOMAIN Script
Steps(s) == {Script[s][i] : i \in 1 .. Len(Script[s])}

Files == UNION {{p.out : p \in {q \in Steps(s) : q.kind = "write"}} : s \in Scripts}

\* The files that hold a model; the others of a script describe it.
Bundle == [lightgbm |-> "lightgbm_recovery_model.joblib",
           suite    |-> "optimized_recovery_model.joblib",
           hybrid   |-> "lightgbm.txt"]
FilesOf(s) == {p.out : p \in {q \in Steps(s) : q.kind = "write"}}

\* The columns a model was fitted with and those of a scored row, the ten common to both
\* standing as one: the suite adds columns of its own.
ModelColumns ==
  [lightgbm |-> {"base"},
   suite    |-> {"base", "hour_sin", "hour_cos", "log_amount_inr", "reason_retry_inter"},
   hybrid   |-> {"base", "history"}]
ServedColumns == {"base"}

ASSUME TrainingAssumption ==
  MaxTrainings \in Nat /\ ServedPath \in {Bundle[s] : s \in {"lightgbm", "suite"}}

-----------------------------------------------------------------------------
VARIABLES
  training,  \* the script under way: its name, its number, its next step, the file it holds
             \* open, and for everything made so far the splits it descends from
  disk,      \* file -> the number of the training that wrote it (0: none) and whether whole
  last,      \* script -> number and end of its last training
  scorer     \* the last MLScoringService made: how it scores, the last training that had
             \* finished when its load began, and the trainings its bundle is of; while it
             \* loads, those the file held so far, those it held in full, and whether it
             \* was ever less than whole

trainingVars == <<training, disk, last, scorer>>

\* The script whose bundle is served.
ServedScript == CHOOSE s \in Scripts : Bundle[s] = ServedPath

Scorer(mode, finished, of) ==
  [mode |-> mode, finished |-> finished, of |-> of, held |-> {}, full |-> {}, torn |-> FALSE]

Idle == [script |-> "none", by |-> 0, step |-> 0, open |-> FALSE, seen |-> <<>>]

TrainingInit ==
  /\ training = Idle
  /\ disk = [f \in Files |-> [by |-> 0, whole |-> FALSE]]
  /\ last = [s \in Scripts |-> [by |-> 0, end |-> "none"]]
  /\ scorer = Scorer("none", 0, {})

Newest == LET numbers == {training.by} \union {last[s].by : s \in Scripts}
          IN  CHOOSE n \in numbers : \A m \in numbers : m <= n

StartTraining ==
  /\ training.script = "none" /\ Newest < MaxTrainings
  /\ \E s \in Scripts :
       training' = [script |-> s, by |-> Newest + 1, step |-> 1, open |-> FALSE, seen |-> <<>>]
  /\ UNCHANGED <<disk, last, scorer>>

Current == Script[training.script][training.step]

\* The splits a step's inputs descend from.
Descent(step) ==
  LET made == {i \in 1 .. Len(training.seen) : training.seen[i].out \in step.from}
  IN  (step.from \intersect Splits) \union UNION {training.seen[i].splits : i \in made}

\* A load of the file is under way.
Loading(path) == scorer.mode = "loading" /\ path = ServedPath

Advance ==
  IF training.step = Len(Script[training.script])
  THEN /\ training' = Idle
       /\ last' = [last EXCEPT ![training.script] = [by |-> training.by, end |-> "finished"]]
  ELSE /\ training' = [training EXCEPT !.step = @ + 1, !.open = FALSE,
                         !.seen = Append(@, [out |-> Current.out, kind |-> Current.kind,
                                             splits |-> Descent(Current)])]
       /\ UNCHANGED last

Compute ==
  /\ training.script # "none" /\ Current.kind # "write"
  /\ Advance
  /\ UNCHANGED <<disk, scorer>>

\* joblib.dump and write_text empty the file before they fill it, and a load under way
\* reads on in what is there now.
OpenFile ==
  /\ training.script # "none" /\ Current.kind = "write" /\ ~training.open
  /\ training' = [training EXCEPT !.open = TRUE]
  /\ disk' = [disk EXCEPT ![Current.out] = [by |-> training.by, whole |-> FALSE]]
  /\ scorer' = IF Loading(Current.out)
               THEN [scorer EXCEPT !.held = @ \union {training.by}, !.torn = TRUE] ELSE scorer
  /\ UNCHANGED last

CloseFile ==
  /\ training.script # "none" /\ training.open
  /\ disk' = [disk EXCEPT ![Current.out].whole = TRUE]
  /\ scorer' = IF Loading(Current.out)
               THEN [scorer EXCEPT !.full = @ \union {training.by}] ELSE scorer
  /\ Advance

\* The script raises (a report of a single class, among others) or is stopped; what it
\* wrote stays.
Interrupt ==
  /\ training.script # "none"
  /\ last' = [last EXCEPT ![training.script] = [by |-> training.by, end |-> "interrupted"]]
  /\ training' = Idle
  /\ UNCHANGED <<disk, scorer>>

\* The last training of the served script, if it came to its end.
Finished == IF last[ServedScript].end = "finished" THEN last[ServedScript].by ELSE 0

\* MLScoringService(), which every request makes anew: without a file there is nothing to
\* load, otherwise the load begins.
StartLoad ==
  LET file == disk[ServedPath]
  IN  /\ scorer.mode # "loading"
      /\ \/ /\ file.by = 0
            /\ scorer' = Scorer("not_trained_fallback", Finished, {})
         \/ /\ file.by > 0
            /\ scorer' = [Scorer("loading", Finished, {}) EXCEPT
                            !.held = {file.by}, !.full = IF file.whole THEN {file.by} ELSE {},
                            !.torn = ~file.whole]
      /\ UNCHANGED <<training, disk, last>>

\* The load ends.  It has read pieces of some of the contents the file had, the last of
\* them to the end; _load_model turns every error into the heuristic, and a file that was
\* whole all along gives none.
EndLoad ==
  /\ scorer.mode = "loading"
  /\ \/ \E read \in SUBSET scorer.held :
          /\ \E n \in read \intersect scorer.full : \A m \in read : m <= n
          /\ scorer' = Scorer("lightgbm_tabular", scorer.finished, read)
     \/ /\ scorer.torn
        /\ scorer' = Scorer("load_error_fallback", scorer.finished, {})
  /\ UNCHANGED <<training, disk, last>>

TrainingNext ==
  StartTraining \/ Compute \/ OpenFile \/ CloseFile \/ Interrupt \/ StartLoad \/ EndLoad

TrainingSpec == TrainingInit /\ [][TrainingNext]_trainingVars

\* What a probability of predict_probability may come from.  Any exception of the model's
\* inference gives the heuristic, and columns it was not given always raise one.
PredictsWith(s) ==
  IF s.mode # "lightgbm_tabular" THEN {"heuristic"}
  ELSE {"heuristic"} \union {m \in {"model"} : ModelColumns[ServedScript] \subseteq ServedColumns}

-----------------------------------------------------------------------------
(* Properties.                                                              *)

\* Nothing a model consists of, or is used with, descends from the test rows, through
\* whatever fits, calibrations, early stops and choices ("test split locked until final
\* one-pass evaluation"); and every measurement called a test is made on them.
TestStaysLocked ==
  \A i \in 1 .. Len(training.seen) :
    /\ training.seen[i].kind = "learn" => "test" \notin training.seen[i].splits
    /\ training.seen[i].out \in {"test_metrics", "test_results", "operating_point"} =>
         "test" \in training.seen[i].splits

\* The files that describe a model are never of a later training than the model itself, and
\* a training that came to its end left all of its files whole and its own: only an
\* interrupted one leaves an older report beside a newer model.
ReportsFollowTheirModel ==
  \A s \in Scripts :
    /\ \A f \in FilesOf(s) : disk[f].by <= disk[Bundle[s]].by
    /\ last[s].end = "finished" /\ training.script # s =>
         \A f \in FilesOf(s) : disk[f] = [by |-> last[s].by, whole |-> TRUE]

\* Whatever training was writing while a model was loaded: no part of it is older than the
\* last training that had finished before, its end is of a training that wrote the file
\* whole, so a file that an interrupted training left half-written is never served; a
\* finished training is always found, and its model is refused only when another one began
\* after it.  (A bundle may still be pieced together from two trainings.)
ServedBundleIsCurrent ==
  /\ scorer.mode = "lightgbm_tabular" =>
       \E n \in scorer.of :
         /\ \A m \in scorer.of : scorer.finished <= m /\ m <= n
         /\ disk[ServedPath].by = n => disk[ServedPath].whole
  /\ scorer.mode = "not_trained_fallback" => scorer.finished = 0
  /\ scorer.mode = "load_error_fallback" =>
       training.script = ServedScript \/ scorer.finished < last[ServedScript].by

\* From the splits to a served model nothing passes for what it is not: the test rows stay
\* out of the models, the reports are of the models beside them, and what is loaded is what
\* a training wrote.
ModelsAreWhatTheySay ==
  TestStaysLocked /\ ReportsFollowTheirModel /\ ServedBundleIsCurrent

-----------------------------------------------------------------------------
(* What a docstring says and the code does not do: the following is         *)
(* violated, in the situation the README describes.                         *)

\* "Never fabricates an illustrative probability as a measured ML result": a probability
\* that get_quantitative_evidence labels lightgbm_tabular is the model's.  The label says
\* only that a bundle was loaded; an inference that fails is answered by the heuristic.
LabelledProbabilityIsTheModels ==
  scorer.mode = "lightgbm_tabular" => PredictsWith(scorer) = {"model"}

=============================================================================
