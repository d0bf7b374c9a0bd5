\* Two characters with one inventory cell each: space runs out, money moves.
SPECIFICATION Spec
CONSTANTS
  Persons = {p1, p2}
  Ids = {g1, g2}
  Items = {x1, x2}
  Cells = {c1}
  HOLD = HOLD
  SLOT = SLOT
  BoxSize = 1
  BoxPos <- MCBoxPos
  BlockTime = 1
  Gold = 1
  Nobody = Nobody
  NULL = NULL
  NoItem = NoItem
  NoEntry = NoEntry
SYMMETRY Symmetry
INVARIANTS TypeOK MoneyConserved NoDup
PROPERTIES ItemsKept BarterSpec
CHECK_DEADLOCK FALSE
