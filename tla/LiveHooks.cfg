CONSTANTS
  Processes = {p1}
  Browsers = {b1}
  Pollers = {}
  Shown = {"hooks"}
  Kinds = {"hook", "prompt"}
  BACKLOG = 2
  CHANGED_MAX = 2
  MaxChanges = 2
  MaxFaults = 0
  MaxHides = 0
SPECIFICATION FairSpec
CHECK_DEADLOCK FALSE
PROPERTIES
  HooksAreReadInTheEnd
