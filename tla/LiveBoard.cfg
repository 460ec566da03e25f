CONSTANTS
  Processes = {p1, p2}
  Browsers = {b1}
  Pollers = {x1}
  Shown = {"cards"}
  Kinds = {"card", "prompt", "feed"}
  BACKLOG = 1
  CHANGED_MAX = 0
  MaxChanges = 2
  MaxFaults = 1
  MaxHides = 1
SPECIFICATION Spec
SYMMETRY Symmetry
CHECK_DEADLOCK FALSE
INVARIANTS
  TypeOK
  OldCardsAreComing
  CloseWakesPolls
