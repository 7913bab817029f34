--------------------------- MODULE LabelExclusion ---------------------------
(***************************************************************************)
(* What the task centre promises to the rest of the gateway, with neither  *)
(* tasks nor goroutines: a set of labels is held, no two held labels       *)
(* conflict, and the conflict relation is only replaced while nothing is   *)
(* held.  A label stands for the CreatedBy of a running task.              *)
(***************************************************************************)
CONSTANT Labels

VARIABLES held,        \* the labels held now
          relation     \* the pairs of labels that may not be held together

vars == <<held, relation>>

Init ==
  /\ held = {}
  /\ relation \in SUBSET (Labels \X Labels)

Compatible(l) == \A h \in held : /\ h # l
                                 /\ <<h, l>> \notin relation
                                 /\ <<l, h>> \notin relation

Configure ==
  /\ held = {}
  /\ relation' \in SUBSET (Labels \X Labels)
  /\ UNCHANGED held

Acquire(l) ==
  /\ Compatible(l)
  /\ held' = held \cup {l}
  /\ UNCHANGED relation

Release(l) ==
  /\ l \in held
  /\ held' = held \ {l}
  /\ UNCHANGED relation

Next == Configure \/ \E l \in Labels : Acquire(l) \/ Release(l)

Spec == Init /\ [][Next]_vars
=============================================================================
