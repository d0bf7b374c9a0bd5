SPECIFICATION Spec
CONSTANTS
  Items = {i1, i2, i3}
  Cells = {c1, c2}
  None = None
  MaxRequests = 2
  MaxAnswers = 4
INVARIANTS TypeOK ViewCatchesUp NoDuplicates
PROPERTY LostOnlyByLifting
CHECK_DEADLOCK FALSE
