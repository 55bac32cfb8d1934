SPECIFICATION Spec
CHECK_DEADLOCK FALSE
CONSTANTS
  Second = 1
  Minute = 2
  Hour = 3
  Day = 4
  MaxDuration = 62
  Lowest <- MCLowest
  Local <- Greenwich
  Configs <- MCConfigs
  Instants <- MCInstants
INVARIANTS
  LoopComputesNextSchedule
  NeverInThePast
  AtTimeOfDay
  NextPossibleSchedule
PROPERTY
  Returns
