SPECIFICATION Spec
SYMMETRY Symmetric
CONSTANTS
  a = a
  b = b
  member = member
  guest = guest
  None = None
  Callers = {a, b}
  Users = {member, guest}
  Members = {member}
  MaxRenames = 1
INVARIANTS
  TypeOK
  SharesHaveAccounts
  NameLostOnlyInRace
PROPERTY
  CallsKeepTheirWord
