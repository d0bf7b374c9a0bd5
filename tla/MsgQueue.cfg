\* Three messages, lists of one node that grow to three.
SPECIFICATION FairSpec
CONSTANTS
  Msgs = {m1, m2, m3}
  Nothing = Nothing
  StartSize = 1
  MaxNodes = 3
INVARIANTS TypeOK
PROPERTIES FifoSpec EveryMessageTaken FrameEnds
