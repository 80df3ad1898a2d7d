SPECIFICATION MCSpec
CONSTANTS
  Procs = {p1, p2, p3}
  NoOne = NoOne
  Orphan = Orphan
  SlowHolders = TRUE
  None = None
  MaxTransactions = 2
  MaxOutbox = 3
  MaxFaults = 3
  SlowCalls = 2
  Redraws = 1
  Planning = 3
  Sessions = {s1, s2, s3, s4}
  Native = {s3}
  Direct = {s4}
  Target = 4
  MaxSpend = 200
  Balance = 300
  Allowance = 60
  Outputs = {2, 4, 5, 9}
  Slip = 1
SYMMETRY Symmetry
INVARIANTS
  Types
  EndsInOrder
  PromptForgetsNone
  PlansHold
PROPERTIES
  StagedOnce
CHECK_DEADLOCK FALSE
