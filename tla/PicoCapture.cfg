SPECIFICATION FairSpec
CONSTANTS
  LEN = 16
  DRAIN_CHUNK = 2
  MaxLag = 15
  MaxEdges = 20
INVARIANTS TypeOK ExactUntilOverrun
PROPERTY LossReported
