SPECIFICATION FairSpec
CHECK_DEADLOCK FALSE
CONSTANTS
  j1 = j1
  j2 = j2
  f = f
  g = g
  None = None
  Wrapper = Wrapper
  Jobs = {j1, j2}
  Tasks = {f}
  Configs <- PlainConfigs
  Rechains <- PlainConfigs
  FromDelays = {0}
  Shifts = {}
  HasLocker = FALSE
  MaxJobNum = 2
  MaxCall = 2
  StartTime = 1
  MaxTime = 5
  Second = 2
  Minute = 3
  Hour = 4
  Day = 6
  MaxDuration = 1000
  Local <- Greenwich
PROPERTIES
  DueJobsRun
  StopEndsLoop
