SPECIFICATION FairSpec
CONSTANTS
  Names = {n1, n2}
  MaxTime = 1
  MaxId = 2
INVARIANT
  TimersKeptUnlessRaced
PROPERTY OneShotsFire
