CONSTANTS
  Digests = {d1}
  Files = {f1}
  Skills = {s1}
  Requests = {r1, r2}
  Sweepers = {w1}
  None = None
  Lost = Lost
  MaxRows = 3
SPECIFICATION FairSpec
CHECK_DEADLOCK FALSE
INVARIANTS
  TypeOK
  RowsHaveBytes
PROPERTIES
  KeepsContents
  OrphansAreSwept
