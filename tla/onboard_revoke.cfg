SPECIFICATION Spec
CONSTANTS
  Procs = {p1}
  None = None
  Login = Login
  Life = 2
  MaxNow = 2
  MaxNonce = 2
  MaxTx = 4
  MaxFaults = 1
  TxMayFail = TRUE
PROPERTY
  ApprovalSurvives
CHECK_DEADLOCK FALSE
