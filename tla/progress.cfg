SPECIFICATION MCSpec
CONSTANTS
  Procs = {p1}
  p1 = p1
  p2 = p2
  NoOne = NoOne
  Orphan = Orphan
  None = None
  Login = Login
  Life = 2
  MaxNow = 2
  MaxNonce = 1
  MaxTx = 3
  MaxFaults = 1
  TxMayFail = FALSE
PROPERTIES
  OnboardingCompletes
  ClobLoginCompletes
  FundingProgresses
CHECK_DEADLOCK FALSE
