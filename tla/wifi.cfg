SPECIFICATION FairSpec
CONSTANTS
  ApNames = {"robot"}
  StaNames = {"home"}
  BootModes = {2, 7}
  Limit = 0
  Timeout = 1
INVARIANTS TypeOK ModeTellsNetwork
PROPERTIES NamesRemembered SavedNetworkSurvives WatchdogStops
CHECK_DEADLOCK FALSE
