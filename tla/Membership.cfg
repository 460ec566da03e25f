CONSTANTS
  People = {ann, bob, agent}
  Agent = agent
  Roles = {reviewer}
  Admin = Admin
  Nothing = Nothing
  Off = Off
  Calls = {r1, r2}
  MaxRequests = 2
SPECIFICATION TeamSpec
SYMMETRY Symmetry
CHECK_DEADLOCK FALSE
INVARIANTS
  TeamTypeOK
PROPERTIES
  SavedAsSent
  AdminRemains
  WayInRemains
