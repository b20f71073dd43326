SPECIFICATION Spec
CONSTANTS
  Nil = Nil
  j1 = j1  j2 = j2  l1 = l1  l2 = l2  t1 = t1  t2 = t2  c1 = c1  c2 = c2  c3 = c3
  Jobs = {j1, j2}
  QueueOf <- OneJobInEach
  QueueNames <- TwoQueues
  Length = Length
  Greeting = Greeting
  Refusal = Refusal
  JobAttempts = 2
  JobFaults = 1
  Handlers = {h1, h2}
  Cooldown = 2
  Retention = 1
  LinkLife = 2
  ExportTries = 2
  MaxExports = 2
  ExportTime = 3
  ExportFaults = 2
  Users = {l1, l2}
  Listeners = {l1}
  BufferSize = 2
  MaxUnread = 3
  MaxEmitted = 4
  MaxBreaks = 2
  Processes = {p1, p2}
  Tasks = {t1, t2}
  Threshold = 2
  FraudWindow = 2
  MaxFailures = 2
  FraudTime = 2
  Tabs = {b1, b2}
  Requests = {r1, r2}
  MaxOrders = 1
  OrderFaults = 1
  Calls = {c1, c2, c3}
  Accounts = {"server", "buyer"}
  Escrows = {"t"}
  EscrowOf <- OneEscrow
  ReleaserOf <- ByServer
  ReleaseOp <- TwoReleases
  Deposited = {"t"}
  SignerOf <- ByBuyer
  BuyOp <- TwoBuys
  MaxPolls = 1
  Offered = {t1}
  Flagged = {t2}
  Webhooks = {h1}
  Admins = {b1, b2}
  AuditWindow = 0
  BatchSize = 1
  Limit = 1
  AuditTime = 3
  Treasury = "treasury"
  Trades = {t1, t2}
  BuyerOf <- FirstBuys
  SellerOf <- FirstSells
  AmountOf <- Prices
  Runs = {c1, c2, c3}
  TradeOf <- TwoOfOne
  FeeRate = 150
  Reward = 50
  Readers = {l1}
  LedgerFaults = 1
  Questions = {r1, r2}
  AssetOf <- TwoAssets
  FeeOf <- TwoFees
  AtStart <- OneOffer
  Endpoints <- ThreeQuestions
  Life = 1
  ChartWindow = 2
  MaxChanges = 1
  ChartTime = 2
  ReleaseDirs = {{1, 3}, {1, 2, 3}}
  Reversible = {2, 3}
  MaxStarts = 4
  MigrationFaults = 2
SYMMETRY Names
CHECK_DEADLOCK FALSE
INVARIANTS
  TypeOK
  JobsRunOnce
  
  SettlementsAreWhole
  MigrationsAreRecorded
  NoGapsNorRepeats
  FlagsAreEarned
  OrdersAreKept
  AuditTrailIsWhole
PROPERTIES
  ImplementsAnswers
