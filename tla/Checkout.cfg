SPECIFICATION FairSpec
CONSTANTS
  Cases = {c1, c2}
  Orders = {o1, o2}
  Payments = {p1}
  Handlers = {h1, h2}
  MaxCrashes = 1
  MaxOutages = 1
  None = None
  TheCase = c1
CHECK_DEADLOCK FALSE
INVARIANTS RecoveredByOwnPayment ReceiptMeansReconciled
PROPERTIES CreditedOnce ImplementsService OnlyRefusalsForgetCaptures
