SPECIFICATION FairSpec
CONSTANTS
  RING_CAP = 4
  DRAIN_CHUNK = 1
  MaxLag = 3
  MaxEdges = 6
  MaxSessions = 1
INVARIANTS TypeOK Paired InOrder LossMarked
PROPERTIES Drained
