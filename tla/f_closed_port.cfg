SPECIFICATION GrantedSpec
CONSTANTS
  SimModes = {FALSE}
  Ids <- TwoIds
  MotorIds <- TwoIds
  Sign <- SignLR
  Units = {1, 2}
  BusId0 <- Wired
  Commands <- OneCommand
  CommandTimeout = 1
  Services = {"connect", "stop", "drive"}
  Outcomes = {"ok"}
  OpenCanFail = TRUE
  MaxBoots = 1
PROPERTIES ClosedPortStopsMotors
CHECK_DEADLOCK FALSE
