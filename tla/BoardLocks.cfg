CONSTANTS
  c1 = c1
  s1 = s1
  None = None
  Cards = {c1}
  Subs = {s1}
  Goals = {g1}
  Columns = {todo, doing, done}
  Requests = {r1, r2}
  ParentOf <- MCParentOf
  Starters = 2
  RowsSerial = TRUE
  EndMovesIdle = TRUE
SPECIFICATION Spec
SYMMETRY Symmetry
CHECK_DEADLOCK FALSE
INVARIANTS
  TypeOK
  NoOpenCardOnAchieved
PROPERTIES
  NothingOpensUnderFinished
  FinishedFollowsPlace
