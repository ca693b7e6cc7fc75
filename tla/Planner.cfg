SPECIFICATION FairSpec
CONSTANTS
  Providers = {"deterministic", "cloudflare", "openai"}
  Exponents = {2, 5}
  RetryCounts = {0, 1, 5}
  Probabilities = {500}
  Diagnoses <- MCDiagnoses
  Proposals <- MCProposals
  None = None
CHECK_DEADLOCK FALSE
INVARIANTS PlanFollowsTheRules
PROPERTIES PlannerAnswers
