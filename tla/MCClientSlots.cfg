SPECIFICATION Spec
CONSTANTS
  Slots = {s1, s2}
  Gaeas = {g1}
  None = None
  MaxQueue = 1
SYMMETRY Symmetry
INVARIANTS TypeOK FreeIdsOnce
PROPERTIES CrossedWhileAccepting LostOnlyByWorkers
CHECK_DEADLOCK FALSE
