\* A second login: one character and two Gaea ids, under fairness.
SPECIFICATION LiveSpec
CONSTANTS
  Chars = {x}
  Conns = {n1, n2}
  Gaeas = {g1, g2}
  Fields = {A, B}
  None = None
  MaxPlay = 0
  MaxJobs = 1
INVARIANTS IdsKept OnePerField
PROPERTIES SavesFinish ChecksFinish
\* Connections are used up.
CHECK_DEADLOCK FALSE
