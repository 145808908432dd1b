SPECIFICATION FairSpec
CONSTANTS
  Goals = {g1, g2, g3}
  Unknown = {g3}
  Overlaps = {TRUE, FALSE}
  None = None
INVARIANTS
  TypeOK
  NeverBroken
  SuccessIsEarned
  RestsWhenInactive
PROPERTIES
  EveryGoalEnds
  TimerStops
CHECK_DEADLOCK FALSE
