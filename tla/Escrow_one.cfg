SPECIFICATION FairSpec
CONSTANTS
  Users = {adm, sel, b1, b2}
  Contract = Contract
  NoAdmin = NoAdmin
  NoTrade = NoTrade
  Tokens = {k}
  Categories = {airtime}
  DefaultCategories = {airtime}
  Admins = {adm, b2}
  Sellers = {sel}
  Recipients = {}
  Amounts = {0, 1, 2}
  Endowment = 3
  MaxTrades = 1
  MaxFills = 3
  Horizon = 4
  PauseCooldown = 1
  DisputeWindow = 2
  EmergencyTimelock = 3
  MaxExpiry = 3
INVARIANTS
  TypeOK
  FilledIsSumOfKeptFills
  StatusMatchesFills
  NoStrandedFills
  OneActiveFillPerBuyer
PROPERTIES
  FillsEventuallySettle
  RefundsWaitForExpiry
