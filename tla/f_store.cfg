SPECIFICATION Spec
CONSTANTS
  SimModes = {FALSE}
  Ids <- TwoIds
  MotorIds <- TwoIds
  Sign <- SignLR
  Units = {1, 2}
  BusId0 <- Wired
  Commands <- DriveCommands
  CommandTimeout = 1
  Services = {"connect", "stop", "drive"}
  Outcomes = {"ok"}
  OpenCanFail = FALSE
  MaxBoots = 1
INVARIANTS DriveUpdateSafe
CHECK_DEADLOCK FALSE
