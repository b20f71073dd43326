SPECIFICATION Spec
CONSTANTS
  None = None
  h1 = h1  h2 = h2  d1 = d1  d2 = d2  v1 = v1  v2 = v2  n1 = n1  n2 = n2
  Users = {u1, u2}
  Phones = {p1, p2}
  Handlers = {h1, h2}
  MaxSms = 1
  MaxWallets = 1
  MaxVersion = 2
  Payers = {v1, v2}
  Numbers = {n1, n2, n3}
  FirstNumber <- OwnNumbers
  Workers = {w1}
  MaxPayments = 1
  MaxTries = 2
  Applicants = {c1}
  Replicas = {r1, r2}
  KycMaxSubmissions = 3
  MaxUploads = 3
  MaxDays = 2
  Requests = {q1, q2, q3}
  Mobiles = {o1, o2}
  Addresses = {a1, a2}
  MaxRequests = 1
  Destinations = {d1, d2}
  Balance = 2
  OnChain = {0, 3}
  MaxKeys = 3
  MaxEdits = 2
  MaxLoads = 2
  Tabs = {h1, h2}
  Traders = {p1, p2, s1}
  Seller = s1
  OwnPhones = {o1}
  MaxCodes = 2
  Filters = {a1, a2}
  All = a1
  MaxFetches = 3
  Viewers = {d1, d2}
  MaxPages = 3
  Leavers = {c1}
  Wait = 1
  Calls = {h1, h2}
  Documents = {p1, p2}
  Unfit = o1
  MaxRetries = 2
  MaxEntries = 2
  MaxToasts = 1
  Amounts = {1, 2, 3}
  MinDeposit = 2
  MaxDeposits = 3
SYMMETRY Names
CHECK_DEADLOCK FALSE
INVARIANTS
  TypeOK
  SignInIsGuarded
  DepositsAreCredited
  DocumentsAreKept
  RetriesDebitOnce
  PurchasesMatchDeposits
  SignInsAreWhole
  ListingsAreOfFilter
  DeletionsAreMeant
  OneStreamPerTab
