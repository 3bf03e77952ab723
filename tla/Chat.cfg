SPECIFICATION Spec
CONSTANTS
  Users = {u1}
  Streams = {s1, s2}
  Posts = {p1}
  Alerts = {a1, a2}
  None = None
  Depth = 2
  AlertDepth = 1
  Boxes = {1, 2, 3}
  MaxSeq = 3
INVARIANTS
  TypeOK
  NothingLostNorDoubled
PROPERTIES
  BacklogDrains
