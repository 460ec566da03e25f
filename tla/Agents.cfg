CONSTANTS
  Cards = {a, b}
  Questions = {q1}
  Permissions = {p1}
  Requests = {r1}
  None = None
SPECIFICATION FairSpec
CHECK_DEADLOCK FALSE
INVARIANTS
  OneCardAtATime
  OpenIsShown
  AskedIsWaiting
PROPERTIES
  OverdueCloses
