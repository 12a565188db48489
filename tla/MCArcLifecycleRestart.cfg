SPECIFICATION FairSpec
CONSTANTS
  Seed <- OneStep
  MaxArcs = 3
  Templates <- None
  RequiredPass <- None
  Adopters = {1, 2}
  Threads = {}
  MaxRetries = 1
  MaxRestarts = 1
INVARIANTS
  NoArcForgotten
  OneRunPerArc
PROPERTY RootFinishes
CHECK_DEADLOCK FALSE
