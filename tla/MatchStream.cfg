SPECIFICATION Spec
CONSTANTS
  Clock = Clock
  None = None
  Peers = {p1, p2}
  Catchup = 2
  RingLimit = 2
  MaxPackets = 5
  MaxDrops = 2
  Early = FALSE
INVARIANTS
  TypeOK
  WireOrder
  
PROPERTIES
  NoFarAheadLive
  PacketsGetOut
CHECK_DEADLOCK FALSE
