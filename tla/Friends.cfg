SPECIFICATION Spec
CONSTANTS
  Accounts = {a1, a2, a3}
  Handlers = {h1, h2}
  None = None
  Torn = Torn
  MaxFriends = 1
  MaxId = 2
INVARIANTS
  TypeOK
  FriendsMutual
  RequestsSettled
  IdsNameOneRequest
SYMMETRY Symmetry
CHECK_DEADLOCK FALSE
