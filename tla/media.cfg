SPECIFICATION MediaFairSpec
CONSTANTS
  b1 = b1
  b2 = b2
  Bridges = {b1}
  Coded = {b1}
  MaxPeerMoves = 4
INVARIANTS
  CodecOutlives NoneLeft
PROPERTIES
  Released
CHECK_DEADLOCK FALSE
