SPECIFICATION Spec
CONSTANTS
  Items = {i1, i2, i3}
  Cells = {c1}
  None = None
  MaxRequests = 2
  MaxAnswers = 4

PROPERTY LiftedIntoEmptyHand
CHECK_DEADLOCK FALSE
