----------------------------- MODULE JobLedger -----------------------------
(***************************************************************************)
(* What a worker pool promises about the jobs handed to it, whoever runs   *)
(* them and however often its queue is rebuilt: a job is accepted or       *)
(* refused once, an accepted job is run once, and after the pool has       *)
(* closed nothing more is accepted.                                        *)
(***************************************************************************)
CONSTANT Jobs

VARIABLES fate,   \* what has become of each job
          open    \* the pool still accepts

vars == <<fate, open>>

Init == fate = [j \in Jobs |-> "outside"] /\ open = TRUE

Move(j, from, to) == fate[j] = from /\ fate' = [fate EXCEPT ![j] = to]

Accept(j) == open /\ Move(j, "outside", "accepted") /\ UNCHANGED open

Refuse(j) == Move(j, "outside", "refused") /\ UNCHANGED open

Run(j) == Move(j, "accepted", "done") /\ UNCHANGED open

Close == open /\ open' = FALSE /\ UNCHANGED fate

Next == Close \/ \E j \in Jobs : Accept(j) \/ Refuse(j) \/ Run(j)

Spec == Init /\ [][Next]_vars
=============================================================================
