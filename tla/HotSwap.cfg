SPECIFICATION FairSpec
CONSTANTS
  Middlewares = {"shield"}
  RegOrder <- OneRegOrder
  Procs = {p1, p2}
  Requests = {r1, r2}
  None = None
  StartResults = {TRUE, FALSE}
  MaxSets = 1
  MayShutDown = TRUE
INVARIANTS
  UsableIsRunning
PROPERTIES
  CallsEnd
CHECK_DEADLOCK FALSE
