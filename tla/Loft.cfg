SPECIFICATION LoftSpec
CONSTANTS
  Conns = {c1, c2}
  Ids = {t1, t2}
  None = None
  Keys <- MCKeys
  Cost = 1
  MaxOwned = 2
  MaxCopies = 3
  MaxUid = 3
  MaxEmblem = 1
INVARIANTS
  SlotsHoldOwnedCopies
PROPERTIES
  OnlyTheAddressedCopy
  AscensionIsPaidOff
  LoadingLosesNothing
SYMMETRY Symmetry
