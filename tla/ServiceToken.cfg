SPECIFICATION Spec
CHECK_DEADLOCK FALSE
CONSTANTS
  Second = 2
  Minute = 120
  Hour = 7200
  Day = 172800
  MaxDuration = 1000000
  Local <- Greenwich
  Lifetimes <- MCLifetimes
  MaxDelay = 3
  Lateness = 3
INVARIANTS
  OutageOnlyAfterFailure
PROPERTY
  Recovers
