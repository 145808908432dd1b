SPECIFICATION FairSpec
CONSTANTS
  low_booster = low_booster
  high_booster = high_booster
  compression = compression
  Order <- BringupOrder
  FaultSets <- AllFaults
  Attempts = 3
  MaxFaults = 2
INVARIANTS TypeOK EarlierNodesActive FailureIsReal
PROPERTIES BringupEnds
CHECK_DEADLOCK FALSE
