SPECIFICATION Spec
CONSTANTS
  p1 = p1
  p2 = p2
  s1 = s1
  s2 = s2
  s3 = s3
  Procs = {p1, p2}
  NoOne = NoOne
  Orphan = Orphan
  SlowHolders = FALSE
  None = None
  Salts = {s1, s2}
  Quotes = {1, 2}
  Kinds <- AllKinds
  Configs <- CappedOnly
  MaxDrafts = 1
  MaxCalls = 5
  MaxFaults = 1
  Creators = {p1}
  ListFails = FALSE
SYMMETRY SaltSymmetry
CHECK_DEADLOCK FALSE
INVARIANT RevalidatedPostable
