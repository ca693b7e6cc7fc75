SPECIFICATION SideSpec
CONSTANTS
  Cases = {c1, c2}
  Listed = {c1, c2}
  NoCase = NoCase
  Nothing = Nothing
  MaxCheckouts = 2
  MaxLoads = 3
  MaxTrails = 2
  MaxRuns = 2
  MaxVersion = 2
  k1 = k1 k2 = k2 k3 = k3 a = a b = b d = d
  Keys = {k1, k2}
  DemoKeys = {k3}
  Customers = {a, b, d}
  CustomerOf <- MCCustomerOf
  EmailHash <- MCEmailHash
  Requests = {h1, h2, h3}
  MaxCrashes = 1
  None = None
CHECK_DEADLOCK FALSE
INVARIANTS SecondCheckoutOnlyWhenOvertaken OneCasePerKey AnswersAreTrue IdleCaseMeansCrash
PROPERTIES AnswersMeetTheirQuestion PagesComeBack CallersAreAnswered
