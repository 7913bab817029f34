SPECIFICATION Spec
CONSTANTS
  n1 = n1
  n2 = n2
  Nodes = {n1, n2}
  Admins = {a1}
  Requests = {}
  Manager = manager
  Nobody = nobody
  NoRoutes = noroutes
  NoNode = nonode
  LeastConn = TRUE
  FirstGraphs <- MCFirstGraphs
  Saves = {"off"}
  Answers = {"ok"}
  Groups <- MCGroups
  MaxSaves = 1
  MaxStarts = 2
  MaxFailures = 0
INVARIANTS
  DisabledIsOut
CHECK_DEADLOCK FALSE
