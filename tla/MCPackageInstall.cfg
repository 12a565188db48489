SPECIFICATION FairSpec
CONSTANTS
  None = None
  r1 = r1
  r2 = r2
  p1 = p1
  p2 = p2
  Requests = {r1, r2}
  Packages = {p1, p2}
  Order <- MCOrder
  MaxOpen = 1
  MaxStops = 1
INVARIANTS
  InstallsAttended
  TreesKept
  DirectoryMatchesRow
  OpenWithinLimit
PROPERTIES
  KeepsContract
  ApprovedEnds
  TreesReclaimed
