SPECIFICATION Spec
CONSTANTS
  s1 = s1
  b1 = b1
  b2 = b2
  Users = {s1, b1, b2}
  NoOne = NoOne
  NoTrade = NoTrade
  Sellers = {s1}
  MaxTrades = 1
  MaxBuys = 2
  MaxRuns = 2
  MaxRefunds = 1
  MaxAttempts = 2
  MaxCrashes = 1
SYMMETRY Buyers
CHECK_DEADLOCK FALSE
INVARIANTS
  TypeOK
  CompletedIsPaid
  BuyerHasDeposited
  SettledOnceWhenPaid
  CancelledTradesKeepARefund
PROPERTIES
  ResolutionsMatchEscrow
