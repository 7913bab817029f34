SPECIFICATION FirewallSpec
CONSTANTS
  None = None
  Ips = {i1}
  Entries = {i1, n1}
  Covers <- MCCovers
  Callers = {c1}
  Requests <- MCRequests
  WafOn <- MCWafOn
  Files <- MCFiles
  Thresholds <- MCThresholds
  BanLimit = 2
  RepeatLimit = 2
  AutoExp = "timed"
  Budgets <- MCBudgets
  LastAdder = 3
  Types = {t1, t2}
  LastMinute = 3
  Buckets = 2
  Keys = {k1, k2}
  LastClient = 3
  BucketsMax = 1
  Burst = 1
  Rps = 1
  LastSecond = 1
INVARIANTS
  TableCountsTrue
  SnapshotExact
  LimiterHolds
PROPERTIES
  Settles
CHECK_DEADLOCK FALSE
