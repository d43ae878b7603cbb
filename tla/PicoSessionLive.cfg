SPECIFICATION FairSpec
CONSTANTS
  TX_PIPE_CAP = 3
  PACKET = 2
  URB = 4
  CMD_QUEUE_CAP = 2
  MaxRuns = 1
  MaxFeeds = 2
  MaxTells = 1
PROPERTIES HandshakeEnds Delivered
