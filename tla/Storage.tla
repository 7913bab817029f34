------------------------------- MODULE Storage -------------------------------
(***************************************************************************)
(* The database that the components of the process share, as they see it:  *)
(* a statement succeeds while the connections are open, or fails.  What    *)
(* may go wrong is bounded, and what did go wrong is remembered.           *)
(***************************************************************************)
EXTENDS Integers, Sequences, FiniteSets

CONSTANT Budgets  \* bounds, one of which is chosen: requests, failures, ...

\* What may go wrong.
Faults == {"failures", "timeouts", "crashes"}

ASSUME BudgetsAssumption ==
  \A b \in Budgets : b \in [DOMAIN b -> Nat] /\ Faults \subseteq DOMAIN b

VARIABLES
  db,    \* dataDB: "open" or "closed"
  left,  \* what is left of the bounds
  spent  \* history: what was used of them

storageVars == <<db, left, spent>>

StorageInit ==
  /\ db = "open"
  /\ left \in Budgets
  /\ spent = [w \in DOMAIN left |-> 0]

Spend(w) ==
  /\ left[w] > 0
  /\ left' = [left EXCEPT ![w] = @ - 1]
  /\ spent' = [spent EXCEPT ![w] = @ + 1]

Free == UNCHANGED <<left, spent>>

\* What a statement may answer.
Succeeding == db = "open" /\ Free

Failing == Spend("failures") \/ (db = "closed" /\ Free)
=============================================================================
