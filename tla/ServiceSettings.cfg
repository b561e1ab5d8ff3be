SPECIFICATION Spec
CONSTANTS
  User = {u1, u2}
  Slot = {s1, s2}
  Percent = {0, 1}
  None = None
SYMMETRY Symmetry
INVARIANTS
  TypeOK
  JsonAgrees
  LastWordCounts
PROPERTIES
  ColumnsMoveByOwner
  GateJustified
  RoleJustified
