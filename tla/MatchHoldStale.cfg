SPECIFICATION Spec
CONSTANTS
  None = None
  Players = {p1}
  Conns = {c1, c2}
  FailMax = 1
  Overlap = FALSE
PROPERTIES
  DisconnectKeepsHold
CHECK_DEADLOCK FALSE
