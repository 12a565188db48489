SPECIFICATION Spec
CONSTANTS
  Seed <- OneStep
  MaxArcs = 3
  Templates <- None
  RequiredPass <- None
  Adopters = {1}
  Threads = {t1, t2}
  MaxRetries = 0
  MaxRestarts = 0
SYMMETRY ThreadSymmetry
INVARIANTS
  TreesCloseTogether
  NoArcForgotten
PROPERTIES
  FrozenUnlessOverwritten
  StepsInOrder
CHECK_DEADLOCK FALSE
