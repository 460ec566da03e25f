CONSTANTS
  Changes = {x1, x2}
  Hooks = {h1}
  Couriers = {c1, c2}
  None = None
  MAX_ATTEMPTS = 2
  PER_HOOK = 2
  CONCURRENCY = 2
  BREAKER_THRESHOLD = 2
  MaxRedeliveries = 1
  Resendable = {x1}
SPECIFICATION FairSpec
CHECK_DEADLOCK FALSE
INVARIANTS
  TypeOK
  
  QueuedOnce
  SentOnceAtATime
PROPERTIES
  EveryDeliveryEnds
