SPECIFICATION FairSpec
CONSTANTS
  p = p q = q r = r
  Batches <- MCBatches
  Policies = {p, q, r}
  Refused = {r}
  Agents <- MCAgents
  Background = {api}
  Tasks = {t1, t2}
  MaxInt = 10
  MaxCrashes = 1
  None = None
CHECK_DEADLOCK FALSE
INVARIANTS ReportsAreWhole
PROPERTIES BaselineIsReproducible TakenUpRunIsReported
