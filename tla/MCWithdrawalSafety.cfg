SPECIFICATION BothSpec
CONSTANTS
  k1 = k1
  k2 = k2
  c1 = c1
  c2 = c2
  c3 = c3
  c4 = c4
  c5 = c5
  NoKey = NoKey
  Users = {ada}
  Keys = {k1, k2}
  Amounts = {1, 2}
  Deposited = 2
  MaxAttempts = 2
  MaxWithdrawals = 2
  MaxEvents = 1
  MaxCrashes = 1
SYMMETRY Alike
CHECK_DEADLOCK FALSE
INVARIANTS
  DebitedOncePerKey
  PaidAtMostOnce
  NeverPaidAndRestored
  ProcessedFailuresAreRestored
