SPECIFICATION FairSpec
CONSTANTS
  i1 = i1
  i2 = i2
  j1 = j1
  j2 = j2
  j3 = j3
  wrapper = wrapper
  own = own
  None = None
  Instances = {i1, i2}
  Equipped = {i1, i2}
  Jobs = {j1, j2, j3}
  Keys = {wrapper, own}
  KeyOf <- NamesOfFunctions
  MaxFaults = 1
INVARIANTS
  TypeOK
  HeldOnlyForRuns
PROPERTIES
  RunsAreExclusive
  WantedKeysRun
