SPECIFICATION Spec
CONSTANTS
  None = None
  Destinations = {d1, d2}
  Balance = 2
  OnChain = {0, 3}
  MaxKeys = 3
  MaxEdits = 2
  MaxLoads = 2
CHECK_DEADLOCK FALSE
INVARIANT AcceptedFormStaysLocked
