SPECIFICATION Spec
CONSTANTS
  Users = {adm, sel, b1, b2}
  Contract = Contract
  NoAdmin = NoAdmin
  NoTrade = NoTrade
  Tokens = {k}
  Categories = {airtime}
  DefaultCategories = {airtime}
  Admins = {adm}
  Sellers = {sel}
  Recipients = {adm}
  Amounts = {1, 2}
  Endowment = 3
  MaxTrades = 1
  MaxFills = 2
  Horizon = 5
  PauseCooldown = 1
  DisputeWindow = 2
  EmergencyTimelock = 3
  MaxExpiry = 3
PROPERTIES
  TimelockReleaseIsUndisputed
