\* The documentation says that inventory requests are refused during a trade.
SPECIFICATION Spec
CONSTANTS
  Persons = {p1, p2}
  Ids = {g1, g2}
  Items = {x1, x2}
  Cells = {c1, c2}
  HOLD = HOLD
  SLOT = SLOT
  BoxSize = 2
  BoxPos <- MCBoxPos
  BlockTime = 1
  Gold = 0
  Nobody = Nobody
  NULL = NULL
  NoItem = NoItem
  NoEntry = NoEntry
SYMMETRY Symmetry
INVARIANTS OffersInPlace
CHECK_DEADLOCK FALSE
