SPECIFICATION MCSpec
CONSTANTS
  Ids = {1, 2, 3, 4}
  Events <- MCEvents
  Second = 2
  MaxLen = 2
  Scale = 4
  Bins = 2
  MinSelected = 2
  Thresholds = {1, 2, 3}
  TargetPrecision <- MCTargetPrecision
  MinCoverage <- MCMinCoverage
  MaxSamples = 5
  MaxTokens = 6
  Thoughts <- MCThoughts
  MaxTrainings = 3
  ServedPath = "lightgbm_recovery_model.joblib"
  NoGap = NoGap
  Undefined = Undefined
  Error = Error
  a = a
  b = b
CHECK_DEADLOCK FALSE
SYMMETRY MCSymmetry
INVARIANTS PipelinesAgree EvaluationAgrees TextIsReadRight ModelsAreWhatTheySay
PROPERTIES NoLookAhead
