SPECIFICATION Spec
CONSTANTS
  None = None
  r1 = r1
  r2 = r2
  p1 = p1
  p2 = p2
  Requests = {r1, r2}
  Packages = {p1, p2}
  Order <- MCOrder
  MaxOpen = 2
  MaxStops = 0
INVARIANT InstalledStays
CHECK_DEADLOCK FALSE
