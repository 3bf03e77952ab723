SPECIFICATION Spec
CONSTANTS
  Players = {p1, p2}
  RoomIds = {r1, r2}
  None = None
  Heroes = {h1}
  Half = 1
  Asked = {0, 2}
  MaxSent = 7
INVARIANTS
  TypeOK
  MembershipAgrees
  EmptyRoomsGo
  NobodyIsStranded
SYMMETRY Symmetry
CHECK_DEADLOCK FALSE
