SPECIFICATION Spec
CONSTANTS
  LEN = 16
  DRAIN_CHUNK = 2
  MaxLag = 15
  MaxEdges = 18
INVARIANTS CountIsLoss
