CONSTANTS
  VaultRows = {1, 2}
  HookRows = {3}
  Values = {a, b}
  Requests = {q1}
  None = None
  Lost = Lost
  BATCH = 2
  MaxKey = 2
SPECIFICATION FairSpec
INVARIANTS
  TypeOK
  RetirableIsUnused
  NothingLeftBehind
PROPERTIES
  KeepsSecrets
  ResealEnds
