SPECIFICATION Spec
CONSTANTS
  j1 = j1
  j2 = j2
  Jobs = {j1, j2}
  QueueOf <- OneJobInEach
  QueueNames <- TwoQueueNames
  Nil = Nil
  Length = Length
  Greeting = Greeting
  Refusal = Refusal
  HasPassword = TRUE
  MaxAttempts = 2
  MaxFaults = 1
CHECK_DEADLOCK FALSE
INVARIANT RunsOnItsOwnQueue
