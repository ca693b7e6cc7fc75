SPECIFICATION MCSpec
CONSTANTS
  p1 = p1 p2 = p2 p3 = p3 p4 = p4
  Policies = {p1, p2, p3, p4}
  Versions = {1, 2}
  Runs = {r1}
  Default = Default
  Configs <- MCConfigs
  Amounts <- MCAmounts
  Counts <- MCCounts
  CheckoutCounts <- MCCheckoutCounts
  Hours <- MCHours
  Confidences <- MCConfidences
  Reasons <- MCReasons
SYMMETRY MCSymmetry
CHECK_DEADLOCK FALSE
INVARIANTS LastActivationWins RunsDecideUnderCurrentPolicy ApprovalsAreExact LeftAloneBeatsEveryOtherRule
