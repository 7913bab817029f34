SPECIFICATION Spec
CONSTANTS
  n1 = n1
  n2 = n2
  Nodes = {n1, n2}
  Admins = {a1}
  Requests = {r1}
  Manager = manager
  Nobody = nobody
  NoRoutes = noroutes
  NoNode = nonode
  LeastConn = TRUE
  FirstGraphs <- MCFirstGraphs
  Saves = {"off", "p2"}
  Answers = {"ok"}
  Groups <- MCGroups
  MaxSaves = 1
  MaxStarts = 1
  MaxFailures = 1
INVARIANTS
  InflightCounts
  LastSaveServed
  StoppedIsQuiet
PROPERTIES
  KeepsVerdict
CHECK_DEADLOCK FALSE
