----------------------------- MODULE MCDispatch -----------------------------
EXTENDS Dispatch, TLC

CONSTANTS n1, n2

\* One node is probed, the other is exempt; both are primary.
MCFirstGraphs ==
  {[up |-> TRUE, node |-> n1 :> "p1" @@ n2 :> "free",
    role |-> [n \in Nodes |-> "primary"]]}
\* A group without nodes, one without the first, and one with a backup.
MCGroups ==
  {[n \in Nodes |-> "none"], n1 :> "none" @@ n2 :> "primary",
   n1 :> "primary" @@ n2 :> "backup"}
=============================================================================
