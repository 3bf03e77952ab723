SPECIFICATION Spec
CONSTANTS
  Seed = seed
  Players = {u1}
  Devices = {d1}
  NoOne = NoOne
  Passwords = {p1, p2}
  Blank = Blank
  MaxId = 3
INVARIANTS
  TypeOK
  
  AcceptedLoginsStay
SYMMETRY Symmetry
