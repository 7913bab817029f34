------------------------------ MODULE MCScripts ------------------------------
EXTENDS Scripts

Scenario(l, s, f, g, c) ==
  [files |-> [list |-> l, sql |-> s, faults |-> f, lookups |-> g], calls |-> c]

MCScenarios == {
  Scenario(3, 0, 0, 0, 0),  \* the list is edited and saved
  Scenario(2, 0, 1, 0, 0),  \* the same, with a failure of the file system
  Scenario(0, 2, 1, 1, 0),  \* an SQL text is edited and looked up
  Scenario(0, 0, 0, 0, 4)}  \* scripts are published
=============================================================================
