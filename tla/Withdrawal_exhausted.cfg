SPECIFICATION FairSpec
CONSTANTS
  Users = {ada}
  Keys = {key}
  Amounts = {1}
  Deposited = 1
  MaxAttempts = 2
  MaxWithdrawals = 1
  MaxEvents = 1
  MaxCrashes = 0
CHECK_DEADLOCK FALSE
PROPERTY ExhaustedWithdrawalsFail
