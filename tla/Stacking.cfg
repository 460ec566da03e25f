CONSTANTS
  Cards = {c1, c2, c3}
  Columns = {a}
  Requests = {r1, r2}
  None = None
  GAP = 2
  LOWEST <- MCLowest
  HIGHEST = 8
SPECIFICATION Spec
SYMMETRY Symmetry
CHECK_DEADLOCK FALSE
INVARIANTS
  TypeOK
  ChosenKeyStaysFree
  ChosenPlaceHolds
PROPERTIES
  ChosenWhereAsked
  OthersKeepTheirOrder
