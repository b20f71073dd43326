SPECIFICATION FairSpec
CONSTANTS
  s1 = s1
  b1 = b1
  b2 = b2
  Users = {s1, b1, b2}
  NoOne = NoOne
  NoTrade = NoTrade
  Sellers = {s1}
  MaxTrades = 1
  MaxBuys = 1
  MaxRuns = 1
  MaxRefunds = 0
  MaxAttempts = 2
  MaxCrashes = 0
CHECK_DEADLOCK FALSE
PROPERTY ReleasedTradesComplete
