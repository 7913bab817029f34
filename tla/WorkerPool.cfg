SPECIFICATION FairSpec
CONSTANTS
  t1 = t1
  t2 = t2
  Tasks = {t1, t2}
  Workers = {1, 2, 3}
  WorkerLimit = 2
  DefaultWorkers = 3
  WorkerRequests = {0, 1}
  SizeRequests = {1}
  FirstCapacity = 2
  MaxQueues = 2
  Plans <- MCPlans
INVARIANTS
  ExactlyOnePlace
PROPERTIES
  LedgerSpec
  AcceptedRuns
  CallsReturn
  WorkersConverge
CHECK_DEADLOCK FALSE
