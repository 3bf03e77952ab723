SPECIFICATION Spec
CONSTANTS
  None = None
  Players = {p1, p2}
  Conns = {c1, c2, c3}
  FailMax = 1
  Overlap = FALSE
INVARIANTS
  TypeOK
  
  ResumeNeedsHold
  HeldKeepsClock
  TransportsFollowSeats

  
SYMMETRY Symmetry
CHECK_DEADLOCK FALSE
