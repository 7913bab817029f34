SPECIFICATION ScriptsSpec
CONSTANTS
  Texts = {"a"}
  Readers = {g1}
  Prompt = TRUE
  Names = {1, 2}
  Publishers = {p1, p2}
  Executions = {r1}
  Scenarios <- MCScenarios
INVARIANTS
  PublishesKept
PROPERTIES
  TextsFollowFiles
CHECK_DEADLOCK FALSE
