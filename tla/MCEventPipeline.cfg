SPECIFICATION FairSpec
CONSTANTS
  push = push
  timeout = timeout
  forward = forward
  w1 = w1
  w2 = w2
  MaxEvents = 4
  Types <- MCTypes
  TimeoutType = timeout
  Subs <- MCSubs
  SubMatches <- MCSubMatches
  Waits <- MCWaits
  WaitMatches <- MCWaitMatches
  Expiring <- MCExpiring
INVARIANTS
  MissedOnlyLate
  MatchersOneShot
PROPERTIES
  KeepsContract
  EventuallyProcessed
  WaitsEnd
