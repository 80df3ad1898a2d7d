SPECIFICATION MCSpec
CONSTANTS
  Procs = {p1, p2}
  None = None
  Forms = {f1, f2}
  MaxNonce = 3
  MaxTx = 3
  ReadsFail = TRUE
  RaceNonce = 1
  RaceTx = 2
  Callers = {p1, p2}
  Keys = {k1, k2, k3}
SYMMETRY Symmetry
INVARIANTS
  Types
  RecordsTruth
  ConfirmsForgetNone
  ConfirmsReceipted
  UsedKeyIsStored
PROPERTIES
  ConfirmsOnce
  ActiveKeyKept
