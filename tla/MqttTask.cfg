SPECIFICATION FairSpec
CONSTANTS
  SENSORS = {1, 2}
  Good = {"a"}
  Bad = {"b"}
  DEBOUNCE = 1
  PING_INTERVAL = 1
  WATCHDOG = 1
  CHAN_CAP = 1
  Burst = 1
INVARIANT TypeOK
PROPERTIES NoTransients Converges
