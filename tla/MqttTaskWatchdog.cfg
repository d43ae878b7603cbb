SPECIFICATION FairSpec
CONSTANTS
  SENSORS = {1}
  Good = {"a"}
  Bad = {"b"}
  DEBOUNCE = 2
  PING_INTERVAL = 2
  WATCHDOG = 3
  CHAN_CAP = 2
  Burst = 1
PROPERTY WatchdogFires
