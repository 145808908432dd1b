SPECIFICATION FairSpec
CONSTANTS
  Motors = {1}
  Stopped = {1}
  Limit = 0
  WebCommands = {"watchdog", "drive"}
  MaxFrames = 2
  MaxReboots = 0
  BootLines = 5
  MaxLines = 1
PROPERTIES DdsmStops
CHECK_DEADLOCK FALSE
