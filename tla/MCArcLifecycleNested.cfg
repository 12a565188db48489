SPECIFICATION FairSpec
CONSTANTS
  Seed <- Nested
  MaxArcs = 3
  Templates <- None
  RequiredPass <- None
  Adopters = {}
  Threads = {}
  MaxRetries = 0
  MaxRestarts = 0
PROPERTY HoldsEnd
CHECK_DEADLOCK FALSE
