SPECIFICATION Spec
CONSTANTS
  None = None
  Players = {p1}
  Conns = {c1, c2, c3}
  FailMax = 1
  Overlap = FALSE
PROPERTIES
  HoldResolves
  SeatsFollowLifecycle
CHECK_DEADLOCK FALSE
