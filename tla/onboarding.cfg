SPECIFICATION MCSpec
CONSTANTS
  Procs = {p1, p2}
  Callers = {p1, p2}
  None = None
  Login = Login
  Life = 2
  MaxNow = 2
  MaxNonce = 2
  MaxTx = 3
  MaxFaults = 2
  TxMayFail = TRUE
  FewFaults = 1
  Stamps = {"t1", "t2"}
  Ttl = 2
  RetryWait = 2
  LoginFaults = 2
SYMMETRY Symmetry
INVARIANTS
  Types
  BatchRetried
  LoginWaits
PROPERTIES
  IdsKept
  ApprovalKept
CHECK_DEADLOCK FALSE
