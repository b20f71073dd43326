SPECIFICATION ContractsSpec
CONSTANTS
  s1 = s1
  s2 = s2
  b1 = b1
  b2 = b2
  EscrowUsers = {adm, sel, b1, b2}
  EscrowTokens = {k1}
  Categories = {airtime}
  DefaultCategories = {airtime}
  EscrowAdmins = {adm}
  EscrowSellers = {sel}
  EscrowRecipients = {adm}
  EscrowAmounts = {1, 2}
  EscrowEndowment = 2
  MaxTrades = 2
  MaxFills = 2
  EscrowHorizon = 3
  PauseCooldown = 1
  DisputeWindow = 1
  EscrowTimelock = 1
  MaxExpiry = 1
  Users = {adm, s1, s2}
  Contract = Contract
  NoOne = NoOne
  NoListing = NoListing
  Tokens = {k1, k2}
  Admins = {adm}
  Sellers = {s1, s2}
  Recipients = {adm}
  Amounts = {0, 1, 2}
  Endowment = 2
  MaxListings = 2
  Horizon = 3
  MaxActive = 1
  EmergencyTimelock = 1
SYMMETRY Traders
INVARIANTS
  CountersAreExact
  MoneyIsAccountedFor
PROPERTIES
  BothImplementVault
