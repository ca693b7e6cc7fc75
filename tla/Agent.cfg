SPECIFICATION FairSpec
CONSTANTS
  Policies <- MCPolicies
  Inputs <- MCInputs
  Confidences <- MCConfidences
  Planner = "llm"
  Providers = {"simulator", "razorpay_test"}
  MaxReplans = 3
  NodeLimit = 25
CHECK_DEADLOCK FALSE
INVARIANTS TypeOK EndedRunLeavesNothingOpen ChargesWithinRetryLimit
PROPERTIES CustomerIsSpared  ImplementsContract
