\* Three characters for two ids, money but no items; without symmetry, as liveness needs.
SPECIFICATION FairSpec
CONSTANTS
  Persons = {p1, p2, p3}
  Ids = {g1, g2}
  Items = {}
  Cells = {c1}
  HOLD = HOLD
  SLOT = SLOT
  BoxSize = 1
  BoxPos <- MCBoxPos
  BlockTime = 1
  Gold = 1
  Nobody = Nobody
  NULL = NULL
  NoItem = NoItem
  NoEntry = NoEntry
PROPERTIES PairsStartFresh PairsEndTogether OfferStable OrphanEnds
CHECK_DEADLOCK FALSE
