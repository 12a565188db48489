SPECIFICATION Spec
CONSTANTS
  Seed <- OneStep
  MaxArcs = 2
  Templates <- None
  RequiredPass <- None
  Adopters = {}
  Threads = {}
  MaxRetries = 1
  MaxRestarts = 1
PROPERTY RecoveryKeepsHolds
CHECK_DEADLOCK FALSE
