SPECIFICATION FairSpec
CONSTANTS
  Motors = {1, 2}
  Stopped = {1}
  Limit = 0
  WebCommands = {"watchdog", "info", "mode", "type"}
  MaxFrames = 2
  MaxReboots = 1
  BootLines = 4
  MaxLines = 1
INVARIANTS TypeOK StopHolds
PROPERTIES AnswersCurrent ReadsSuffice FormTrue DdsmStops
CHECK_DEADLOCK FALSE
