SPECIFICATION Spec
CONSTANTS
  Conns = {c1}
  b = b
  g = g
  h = h
  pack = pack
  box = box
  coin = coin
  Bronze = {b}
  Silver = {s}
  Gold = {g, h}
  Stock = {k}
  Unlimited = {n}
  Heroes = {r}
  Skins = {z}
  Tablet = Tablet
  Packs <- MCPacks
  Coins <- MCCoins
  Pos = {1}
  Fillable = {b}
  None = None
  MergeSize = 2
  ExchangePrice = 1
  PagePrice = 1
  LastPage = 2
  Talents = {1, 2}
  Budget = 2
  Capacity = 1
  Prices = {1}
  Quantities = {1, 2}
  MaxCount <- MCMaxCount
  MaxUid = 1
INVARIANTS
  TypeOK
  TalentsShareTheBudget
PROPERTIES
  ExchangeIsWhole
SYMMETRY Symmetry
