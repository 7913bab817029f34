------------------------------ MODULE Firewall ------------------------------
(***************************************************************************)
(* The firewall with the two structures its requests share without a lock: *)
(* the counter of denials (EventCounter), and the limiter (RateLimiter),   *)
(* which every rebuild of the snapshot (Shield) replaces.                  *)
(***************************************************************************)
EXTENDS Shield, EventCounter, RateLimiter

VARIABLE part \* bound: which part of the plugin a behaviour is about; the
              \* counter works without a database, hence without the loop

firewallVars == <<vars, counterVars, limiterVars, part>>

FirewallInit ==
  /\ CounterInit /\ LimiterInit
  /\ part \in {"lists", "counter", "limiter"}
  /\ IF part = "counter" THEN InitWith("stopped") ELSE Init
  /\ part # "lists" => left = [w \in DOMAIN left |-> 0]

\* What goes on whoever calls: the refresh loop.
Refresh == DbTTLLoop \/ Rebuild(Ttl)

\* A new snapshot holds a new limiter; requests that took the old one keep it.
SnapshotReplaced == \E p \in Procs : StoreSnapshot(p)

ShieldStep ==
  /\ \/ part = "lists" /\ Next
     \/ part # "lists" /\ Refresh
  /\ IF SnapshotReplaced THEN Renew ELSE UNCHANGED limiterVars
  /\ UNCHANGED counterVars

FirewallNext ==
  /\ \/ ShieldStep
     \/ part = "counter" /\ CounterStep /\ UNCHANGED <<vars, limiterVars>>
     \/ part = "limiter" /\ LimiterStep /\ UNCHANGED <<vars, counterVars>>
  /\ UNCHANGED part

FirewallSpec == FirewallInit /\ [][FirewallNext]_firewallVars /\ Fairness
=============================================================================
