\* One seller, two buyers, a single item and a pile of two.
SPECIFICATION Spec
CONSTANTS
  Persons = {s, p, q}
  Sellers = {s}
  Items = {a}
  Cells = {c1, c2}
  SalePos = {k1}
  PileNum = 2
  Units = 2
  WordSize = 2
  Prices = {1, 2}
  Gold = 2
  Commission = 50
  HOLD = HOLD
  Pile = Pile
  Empty = Empty
  NoEntry = NoEntry
  NoOrder = NoOrder
SYMMETRY Alike
INVARIANTS TypeOK ItemsOnce PileKept OfferAsSeen
PROPERTIES BazaarSpec
