SPECIFICATION FairSpec
CONSTANTS
  Runs = {r1}
  Backend = "celery"
  Provider = "razorpay_test"
  RetryLimit = 2
  MaxReplans = 2
  TaskRetries = 2
  MaxCrashes = 2
CHECK_DEADLOCK FALSE
INVARIANTS RecoveredMeansPaid
PROPERTIES RecoveryIsNeverUndone StartedRunsEnd
