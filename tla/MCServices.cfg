SPECIFICATION FairSpec
CONSTANTS
  Topics = {"supervisor", "api", "chat", "spending"}
  Children = {c1, c2}
  Raising = TRUE
  MaxStops = 1
  Callers = {t1, t2}
  Threshold = 2
  Attempts = 2
  FirstRate <- Generous
  Rates <- TwoRates
  Drift = 1
  Inputs = {3}
  FirstEstimate = 1
  TokenBound = 5
  MaxInbound = 2
  Arcs = {a1}
  Nobody = Nobody
  MaxTools = 1
  Preserve = 2
  MaxMishaps = 1
  Payers = {p1}
  Loop = loop
  Operators = {chat_user, operator}
  Shell = {operator}
  Thresholds <- SmallThresholds
  Offers <- TwoCalls
  MaxSpent = 2
  MaxBegun = 1
  MaxCommands = 2
INVARIANTS
  Attended
  RecordsKept
  WakeComing
  WithinLimit
  FewAfterTrip
  EmptyWindowAdmits
  ContextsWellFormed
  SpendBounded
  SummaryAgrees
PROPERTIES
  FailuresHeard
  Recovers
  Remembered
  Heard
  Released
CHECK_DEADLOCK FALSE
