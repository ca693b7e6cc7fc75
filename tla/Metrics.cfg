SPECIFICATION Spec
CONSTANTS
  k1 = k1 a = a
  Keys = {k1}
  DemoKeys = {}
  Customers = {a}
  CustomerOf <- MCCustomerOf
  EmailHash <- MCEmailHash
  Requests = {h1, h2}
  MaxCrashes = 0
  None = None
INVARIANTS OverviewCountsTheCases
CHECK_DEADLOCK FALSE
