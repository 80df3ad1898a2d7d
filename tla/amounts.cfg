SPECIFICATION MCSpec
CONSTANTS
  None = None
  Unbounded = Unbounded
  Unreadable = Unreadable
  Places = 4
  LotScale = 2
  TickScales = {1, 2}
  U64Max = 90000
  Amounts = {0, 50, 150, 2500, 7777, 81000}
  Prices = {0, 100, 700, 3300, 3330, 5000, 9950}
  Ticks = {0, 100, 500, 1000}
  MinSizes = {0, 5000}
  Whole = 100
  MAX_FEE_RATE = 25
  MARGIN = 6
  Precision = 2
  MaxMatches = 3
  FeeMax = 260
  Makers = {0, 1, 7, 40, 150, 250}
  Rates = {0, 1, 7, 25, 26, 90}
  Exponents = {100, 200}
  FillPrices = {0, 1, 30, 50, 99}
  Fills = {1, 3, 7, 40, 147}
  Funds = 1
  MaxAllowance = 2
  Floor = 1
  Callees = {"ctf_exchange", "neg_risk_adapter", "stranger"}
  MaxRows = 2
  Compared = {"token", "funder", "maker"}
  Garbled = {{}, {"salt"}}
INVARIANTS
  Types
  WithinBound
  LegsFair
  FeesCovered
  FindsExactlyOwn
PROPERTY
  EffectsTrue
CHECK_DEADLOCK FALSE
