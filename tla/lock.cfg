SPECIFICATION FairSpec
CONSTANTS
  Procs = {p1, p2}
  Bodies = {b1, b2, b3, b4}
  NoBody = NoBody
  NoOne = NoOne
  Orphan = Orphan
  StaleAfter = 2
  MaxFaults = 2
  SlowHolders = FALSE
INVARIANTS
  TypeOK
  KeepsFreshLock
PROPERTIES
  ImplementsWalletLock
  OrphanReaped
