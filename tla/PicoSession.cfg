SPECIFICATION Spec
CONSTANTS
  TX_PIPE_CAP = 3
  PACKET = 2
  URB = 4
  CMD_QUEUE_CAP = 2
  MaxRuns = 2
  MaxFeeds = 2
  MaxTells = 1
INVARIANTS TypeOK FreshStart OwnLossOnly
