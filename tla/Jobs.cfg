SPECIFICATION JobsFairSpec
CONSTANTS
  Creators <- MCCreators
  CreatorLists <- MCCreatorLists
  RuleInputs <- MCRuleInputs
  Snapshots = {s1}
  None = None
  KeepLimit = 1
  MaxTasks = 2
  MaxClock = 2
  Tables <- MCTables
  RowsOf <- MCRowsOf
  Batch = 2
  HeldRows <- MCHeldRows
  Sources = {"old", "new"}
  Editors = {e1, e2}
  Logs <- MCLogs
  FirstRows <- MCFirstRows
  Addresses = {"near", "lan"}
  Located = {"near"}
  ScanChunk = 2
  AccessTable = 1
  EventTable = 2
  PruneEnabled = {1, 2}
  IpLimit = 1
  ScanLimit = 2
  Scenarios <- MCScenarios
INVARIANTS
  NothingLost
  DoneIsComplete
  TablesSettle
  SourceLostByRaceOnly
  ScannedIsListed
  OutcomeIsTrue
  FreshAfterSync
PROPERTIES
  CancelEndsTask
  ExclusionSpec
CHECK_DEADLOCK FALSE
