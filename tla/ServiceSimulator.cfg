SPECIFICATION Spec
CONSTANTS
  Runs = {r1, r2}
  Backend = "celery"
  Provider = "simulator"
  RetryLimit = 2
  MaxReplans = 1
  TaskRetries = 1
  MaxCrashes = 1
CHECK_DEADLOCK FALSE
SYMMETRY RunSymmetry
INVARIANTS StoredRetriesAreReal UnauditedRecoveryIsAnError RecoveredCaseIsLeftAlone OnePaymentPerAttempt
