SPECIFICATION Spec
CONSTANTS
  Players = {p1, p2, p3}
  RoomIds = {r1}
  None = None
  Heroes = {h1}
  Half = 1
  Asked = {0}
  MaxSent = 5
INVARIANT
  HostIsMember
SYMMETRY Symmetry
CHECK_DEADLOCK FALSE
