SPECIFICATION FairSpec
CONSTANTS
  MaxId = 2
  Keys = {k1}
  NoKey = NoKey
  Budgets = {1, 2}
  Priorities = {1, 2}
  MaxHandlers = 2
PROPERTIES
  KeepsContract
  EventuallySettled
