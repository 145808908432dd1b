SPECIFICATION FairSpec
CONSTANTS
  SimModes = {FALSE}
  Ids = {1, 2, 3}
  MotorIds = {1}
  Sign <- SignOne
  Units = {1}
  BusId0 <- Wired
  Commands <- CommandOne
  CommandTimeout = 1
  Services = {"connect", "stop", "drive", "set_id"}
  Outcomes = {"ok", "mute", "lost"}
  OpenCanFail = TRUE
  MaxBoots = 1
PROPERTIES SetIdReplyTrue MutexReleased
CHECK_DEADLOCK FALSE
