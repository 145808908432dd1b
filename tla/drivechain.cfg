SPECIFICATION Spec
CONSTANTS
  SimModes = {TRUE, FALSE}
  Ids <- TwoIds
  MotorIds <- TwoIds
  Sign <- SignLR
  Units = {1, 2}
  BusId0 <- Wired
  Commands <- DriveCommands
  CommandTimeout = 1
  Services = {"connect", "stop", "drive"}
  Outcomes = {"ok", "mute", "lost", "stale"}
  OpenCanFail = TRUE
  MaxBoots = 2
INVARIANTS TypeOK OneUartUser
PROPERTIES MotionOnlyWhileActive RepliesMatchPort ImplementsService
CHECK_DEADLOCK FALSE
