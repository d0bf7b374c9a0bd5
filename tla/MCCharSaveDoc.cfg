SPECIFICATION Spec
CONSTANTS
  Chars = {x}
  Conns = {n1, n2}
  Gaeas = {g1, g2}
  Fields = {A, B}
  None = None
  MaxPlay = 0
  MaxJobs = 1
PROPERTIES LetGoSaved
CHECK_DEADLOCK FALSE
