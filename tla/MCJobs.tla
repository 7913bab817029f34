------------------------------- MODULE MCJobs -------------------------------
(***************************************************************************)
(* The origins and the rule the admin server registers.  A table of three  *)
(* rows, copied in a full and a short batch, and an empty one; two log     *)
(* tables; and what may happen in one behaviour, scene by scene.           *)
(***************************************************************************)
EXTENDS Jobs

MCCreators == {"migrate", "schema_apply", "sql_exec", "geoip_sync"}

MCCreatorLists == {{"migrate", "schema_apply", "sql_exec"}, {"geoip_sync"}}

MCRuleInputs == {[list |-> MCCreators, map |-> [l \in MCCreators |-> {}]]}

MCTables == {1, 2}
MCRowsOf == <<3, 0>>
MCHeldRows == <<{2}, {}>>
MCLogs == {1, 2}
MCFirstRows == <<<<"near", "near">>, <<"lan">>>>

\* Bounds: edits, migrations, alignments, other tasks, failures; the last
\* reading of the clock (with 1, every request to cancel counts as in time).
Mig(e, m, a, o, f, c) == [edits |-> e, migrations |-> m, alignments |-> a,
                          others |-> o, failures |-> f, clock |-> c]

\* Bounds: rows that arrive, prunings, rounds, failures, queries.
Geo(r, p, n, f, q) == [rows |-> r, prunings |-> p, rounds |-> n, failures |-> f, queries |-> q]

Scene(m, g, a) == [mig |-> m, geo |-> g, aligned |-> a, listed |-> {"old", Target}]

NoGeo == Geo(0, 0, 0, 0, 0)

Rerun == Scene(Mig(0, 2, 0, 0, 0, 1), NoGeo, MCTables)
Faulty == Scene(Mig(0, 1, 0, 0, 1, 2), NoGeo, MCTables)
Listed == Scene(Mig(2, 0, 0, 0, 1, 1), NoGeo, MCTables)
Edited == Scene(Mig(1, 1, 0, 0, 0, 1), NoGeo, {1})
Aligned == Scene(Mig(1, 0, 1, 0, 0, 1), NoGeo, {1})
Alternated == Scene(Mig(0, 1, 1, 0, 0, 1), NoGeo, {1})
Raced == [Scene(Mig(2, 1, 0, 0, 0, 1), NoGeo, MCTables) EXCEPT !.listed = {Target}]
Rounds == Scene(Mig(0, 0, 0, 0, 0, 2), Geo(1, 0, 2, 1, 0), MCTables)
Pruned == Scene(Mig(0, 0, 0, 0, 0, 2), Geo(1, 1, 2, 0, 0), MCTables)
Queried == Scene(Mig(0, 0, 0, 0, 0, 2), Geo(0, 0, 1, 1, 1), MCTables)
Crowded == Scene(Mig(0, 0, 0, 1, 0, 2), Geo(0, 0, 1, 0, 0), MCTables)

MCScenarios == {Rerun, Faulty, Listed, Edited, Aligned, Alternated, Raced, Rounds, Pruned,
                Queried, Crowded}
=============================================================================
