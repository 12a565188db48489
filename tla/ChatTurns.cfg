SPECIFICATION Spec
CONSTANTS
  MaxInbound = 2
  Arcs = {a1}
  Nobody = Nobody
  MaxTools = 1
  Preserve = 2
  MaxMishaps = 1
PROPERTY UserMessagesKept
CHECK_DEADLOCK FALSE
