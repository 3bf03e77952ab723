SPECIFICATION Spec
CONSTANTS
  None = None
  Players = {p1, p2}
  Tickers = {t1, t2}
  MaxFrame = 1
INVARIANTS
  TypeOK
  OwnersAreAccountedFor
  HoldKeepsClockLit
PROPERTIES
  NoFrameWhileLoading
  GhostClockStops
  StopTickerReturns
CHECK_DEADLOCK FALSE
