SPECIFICATION Spec
CONSTANTS
  Users = {u1, u2}
  NoUser = None
  Phones = {p1, p2}
  NoPhone = None
  Handlers = {h1, h2}
  MaxSms = 1
  MaxKeys = 1
  MaxVersion = 2
CHECK_DEADLOCK FALSE
INVARIANT RecoveryTokensOnlyRecover
