CONSTANTS
  Cards = {a}
  Questions = {q1}
  Permissions = {p1}
  Requests = {r1, r2}
  None = None
SPECIFICATION Spec
SYMMETRY Symmetry
CHECK_DEADLOCK FALSE
INVARIANTS
  TypeOK
PROPERTIES
  FirstCloseWins
