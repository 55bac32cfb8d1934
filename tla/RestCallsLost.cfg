SPECIFICATION Spec
SYMMETRY Symmetric
CONSTANTS
  a = a
  b = b
  Callers = {a, b}
  MaxTrials = 3
INVARIANT
  GetReturns
