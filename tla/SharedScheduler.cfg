SPECIFICATION Spec
CHECK_DEADLOCK FALSE
SYMMETRY Symmetric
CONSTANTS
  a = a
  b = b
  p = p
  None = None
  Clients = {a, b}
  Earlier = {p}
INVARIANTS
  TypeOK
  TableKept
  PanicsExplained
PROPERTY
  AccessesAreAtomic
