SPECIFICATION Spec
CONSTANTS
  MaxId = 3
  Keys = {k1}
  NoKey = NoKey
  Budgets = {2}
  Priorities = {1}
  MaxHandlers = 2
INVARIANTS
  ClaimsOwned
  TrackedUnlessRecycled
  HandlersBounded
