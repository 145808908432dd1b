SPECIFICATION FairSpec
CONSTANTS
  Values <- SomeValues
  Launched <- LaunchFiles
  Requests <- SomeRequests
  Edits <- SomeEdits
  MaxBoots = 2
  MaxLate = 2
INVARIANTS TypeOK HardwareInForce HotInForce
PROPERTIES LabelSettles
CHECK_DEADLOCK FALSE
