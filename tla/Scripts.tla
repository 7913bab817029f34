------------------------------- MODULE Scripts -------------------------------
(***************************************************************************)
(* The hub of text files and the Lua engine: the two parts of the program  *)
(* whose behaviour is replaced while it runs.                              *)
(***************************************************************************)
EXTENDS ScriptHub, ScriptEngine

CONSTANT Scenarios  \* bounds on changes of files, failures, calls of the engine

scriptsVars == <<hubVars, engineVars>>

ScriptsInit ==
  /\ \E s \in Scenarios : left = s.files /\ calls = s.calls
  /\ HubInit /\ EngineInit

ScriptsNext ==
  \/ HubStep /\ UNCHANGED engineVars
  \/ EngineStep /\ UNCHANGED hubVars

ScriptsSpec == ScriptsInit /\ [][ScriptsNext]_scriptsVars /\ HubFairness
=============================================================================
