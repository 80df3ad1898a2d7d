SPECIFICATION MCSpec
CONSTANTS
  p1 = p1
  p2 = p2
  s1 = s1
  s2 = s2
  s3 = s3
  Procs = {p1}
  NoOne = NoOne
  Orphan = Orphan
  SlowHolders = FALSE
  None = None
  Salts = {s1, s2, s3}
  Quotes = {1, 2}
  Kinds <- OneBuy
  Configs <- CappedOrTight
  MaxDrafts = 2
  MaxCalls = 7
  MaxFaults = 1
  Creators = {p1}
  ListFails = FALSE
  Day = 2
  MaxClock = 3
  MaxPosts = 3
  Cap = 2
  Costs = {1}
  Statuses = {"live", "unmatched"}
  MaxAudit = 3
  StopsUnheard = FALSE
SYMMETRY SaltSymmetry
CHECK_DEADLOCK FALSE
INVARIANTS
  ReviewedAsSent
  DayHolds
PROPERTY CapHoldsAtSend
