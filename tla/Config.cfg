SPECIFICATION FairSpec
CONSTANTS
  BaseKeys = {"upstream"}
  PluginKeys = {"shield"}
  UpstreamKey = "upstream"
  Values = {"v1", "v2"}
  Default = "v1"
  None = None
  Blank = "v1"
  Switch = Switch
  FileList <- OnlyEnvFile
  FileInputs <- MCFileInputs
  EnvInputs <- MCEnvInputs
  ArgInputs <- MCArgInputs
  DiskFails = {TRUE, FALSE}
  MaxSets = 2
  MaxEdits = 2
  MaxStops = 1
  MaxFails = 1
INVARIANTS
  LastWordCounts
  EngineFollows
PROPERTY Settles
CHECK_DEADLOCK FALSE
