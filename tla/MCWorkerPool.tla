---------------------------- MODULE MCWorkerPool ----------------------------
(***************************************************************************)
(* One worker, a growth and a smaller channel for two tasks; or two        *)
(* workers that shrink and grow again around one task.                     *)
(***************************************************************************)
EXTENDS WorkerPool

CONSTANTS t1, t2

MCPlans == {[workers |-> 1, resizes |-> 1, queues |-> 2, tasks |-> {t1, t2}],
            [workers |-> 2, resizes |-> 2, queues |-> 1, tasks |-> {t1}]}
=============================================================================
