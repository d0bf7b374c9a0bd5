SPECIFICATION MCSpec
CONSTANTS
  Ids = {i1, i2, i3}
  Chars = {a, b, c}
  MaxParty = 2
  MAXPARTY = 3
  Nobody = Nobody
  NoId = NoId
  NoParty = NoParty
  MaxRequests = 2
  MaxLogins = 1
  MaxDrops = 2
  MaxMoves = 1
  MaxCrashes = 1
  MaxLosses = 1
  MaxRestarts = 1
INVARIANTS NetTypeOK OneParty IdsOnce FieldFollows
PROPERTIES FrameClears LeaderRestored
CHECK_DEADLOCK FALSE
