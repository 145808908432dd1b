SPECIFICATION FairSpec
CONSTANTS
  Twists <- SomeTwists
  Limits <- SomeLimits
  CmdVelTimeout = 2
  CommandTimeout = 2
  MaxDelay = 1
  MaxQueue = 2
INVARIANTS TypeOK
PROPERTIES OnlyZeroUnlessActive NoStaleMotion DeadMan LeavingActiveRests
CHECK_DEADLOCK FALSE
