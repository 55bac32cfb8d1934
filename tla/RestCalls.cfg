SPECIFICATION Spec
CONSTANTS
  a = a
  b = b
  Callers = {a, b}
  MaxTrials = 3
INVARIANTS
  TypeOK
  SuccessMeansDone
  ChangesOnce
  ConflictIsForeign
PROPERTIES
  CallsEnd
  CallsComeToAnEnd
