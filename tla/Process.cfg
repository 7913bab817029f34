SPECIFICATION FairSpec
CONSTANTS
  Budgets <- MCBudgets
  AsyncCap = 2
  MaxSinks = 3
  Reloads = {h1}
  EventBuffer = 1
  FlushRows = 2
  Messages = {1, 2}
  MaxRetries = 2
  FetchLimit = 2
  Instances = {i1, i2}
  Static = {i1}
  Clients = {c1, c2}
  Requests = {r1, r2, r3}
INVARIANTS
  RecordsAccounted
  NothingLeftBehind
  RepeatedByFaultsOnly
  WatchersTold
PROPERTIES
  ShutdownEnds
  MessagesEnd
CHECK_DEADLOCK FALSE
