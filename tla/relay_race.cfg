SPECIFICATION Spec
CONSTANTS
  Procs = {p1, p2}
  None = None
  Forms = {f1, f2}
  MaxNonce = 2
  MaxTx = 2
  ReadsFail = FALSE
INVARIANT
  SubmittedOnce
