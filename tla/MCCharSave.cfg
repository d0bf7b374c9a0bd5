\* Ids used again: two characters and one Gaea id.
SPECIFICATION Spec
CONSTANTS
  Chars = {x, y}
  Conns = {n1, n2}
  Gaeas = {g1}
  Fields = {A, B}
  None = None
  MaxPlay = 1
  MaxJobs = 1
SYMMETRY Alike
INVARIANTS TypeOK HandOverSaved
PROPERTIES LeavesSaved
\* Connections are used up.
CHECK_DEADLOCK FALSE
