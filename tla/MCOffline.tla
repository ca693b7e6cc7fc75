------------------------------- MODULE MCOffline -------------------------------
(***************************************************************************)
(* Instances of the offline algorithms for TLC: an event file that grows     *)
(* row by row for the data pipeline, a set of predictions that grows         *)
(* sample by sample for the evaluation, the text of a model's answer that    *)
(* grows token by token, or trainings that write while scorers read.         *)
(***************************************************************************)
EXTENDS DataPipeline, ModelEvaluation, ModelTraining, ReasoningText, TLC

CONSTANTS
  MaxSamples,  \* bound on the weight of a set of predictions
  MaxTokens,   \* bound on the length of an answer
  a, b         \* two customers

VARIABLE data

MCVars == <<rows, data, answer, trainingVars>>

\* The reason tells how often the payment had been retried.
MCEvents ==
  {[cust |-> c, at |-> t, reason |-> f, retries |-> IF f = "BANK_DECLINE" THEN 2 ELSE 1] :
     c \in {a, b}, t \in 0 .. 3, f \in {"BANK_DECLINE", "AUTH_FAILURE"}}

MCTargetPrecision == <<3, 4>>
MCMinCoverage == <<1, 2>>

\* Nothing, words, and what looks like an answer or the beginning of another thought.
MCThoughts == {<<>>, <<"word">>, <<"begin", "end">>, <<"fence", "begin", "end", "fence">>, <<"open", "begin", "end">>}

MCSymmetry == Permutations({a, b})

NoSamples == [s \in Samples |-> 0]

MCInit == PipelineInit /\ data = NoSamples /\ AnswerInit /\ TrainingInit

\* The four share nothing, so a behaviour stays on one of them.
Untouched == Newest = 0 /\ scorer.mode = "none"

LoadEvent ==
  /\ data = NoSamples /\ answer = <<>> /\ Untouched
  /\ AddRow
  /\ UNCHANGED <<data, answer, trainingVars>>

AddSample ==
  /\ rows = {} /\ answer = <<>> /\ Untouched /\ Weight(data, Samples) < MaxSamples
  /\ \E s \in Samples : data' = [data EXCEPT ![s] = @ + 1]
  /\ UNCHANGED <<rows, answer, trainingVars>>

Read ==
  /\ rows = {} /\ data = NoSamples /\ Untouched /\ Len(answer) < MaxTokens
  /\ AddToken
  /\ UNCHANGED <<rows, data, trainingVars>>

Train ==
  /\ rows = {} /\ data = NoSamples /\ answer = <<>>
  /\ TrainingNext
  /\ UNCHANGED <<rows, data, answer>>

MCNext == LoadEvent \/ AddSample \/ Read \/ Train

MCSpec == MCInit /\ [][MCNext]_MCVars

\* Whatever the rows and their probabilities, one set of definitions stands behind the
\* threshold that is chosen, the evaluation that reports it, the bootstrap, and the reports
\* of the scripts and the notebook (evaluation/, train_lightgbm.py, ml_optimization_suite.py).
EvaluationAgrees ==
  data # NoSamples =>
    /\ TableIsOperatingPoint(data)
    /\ YoudenMaximisesTheGap(data)
    /\ TierIsHonest(data)
    /\ CalibrationBoundsBias(data)
    /\ MCCAgreesWithKappa(data)
    /\ RankingBoundsOperatingPoint(data)
    /\ ErrorsAgree(data)
    /\ EvaluationIsComplete(data)
    /\ ReportsAgree(data)
    /\ ScriptsChooseLikeTheProtocol(data)
    /\ CalibrationIsUnseen(data)

=============================================================================
