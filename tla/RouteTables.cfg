SPECIFICATION TrafficSpec
CONSTANTS
  u1 = u1
  x = x
  y = y
  z = z
  api = api
  v1 = v1
  site = site
  Empty = Empty
  Param = Param
  Wild = Wild
  Admins = {a1, a2}
  Rules = {1, 2, 3}
  Upstreams = {u1}
  Nodes = {1, 2, 3}
  Urls = {x, y, z}
  Labels = {l1, l2}
  Hosts = {site}
  None = None
  FirstTables <- MCFirstTables
  Scenes <- MCScenes
  Groups <- MCGroups
  PartialIndex = TRUE
  MaxCalls = 3
  MaxFailures = 1
  MaxInflight = 1
SYMMETRY Symmetry
INVARIANTS
  ServedOrTold
  TablesHold
  FirstInOrderWins
  TurnsAreFair
CHECK_DEADLOCK FALSE
