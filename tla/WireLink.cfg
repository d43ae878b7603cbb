SPECIFICATION LinkSpec
CONSTANTS
  Samples = {x, y, z}
  Zero = x
  MAX_RUN = 3
  MAX_REPEAT2_LEN = 2
  MaxFed = 6
  BUF_CAP = 13
  WORD = 2
  HALF = 1
  TICK = 2
  LineCap = 1
INVARIANTS TypeOK Lossless NeverDesyncs Canonical StoppedIsFlushed EndsAgree OnlyLongFramesBad
PROPERTY StreamSpec
CHECK_DEADLOCK FALSE
