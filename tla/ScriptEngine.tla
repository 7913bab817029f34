---------------------------- MODULE ScriptEngine ----------------------------
(***************************************************************************)
(* plugins/script: Lua scripts published, rolled back and removed while    *)
(* requests run them.  The state is one immutable snapshot; publishers     *)
(* rebuild it under a lock, a request keeps the one it began with.         *)
(***************************************************************************)
EXTENDS Integers, FiniteSets, FiniteSetsExt

CONSTANTS
  Names,       \* scripts, in the order they run
  Publishers,  \* administrators
  Executions     \* requests on the forwarding chain

ASSUME EngineAssumption == Names \subseteq Nat

VARIABLES
  scripts,    \* the snapshot: live version, history and next number
  switchedOn,    \* the component is switched on
  publisher,  \* administrators in Publish
  request,    \* requests in Handle
  calls,      \* bound on publications, rollbacks and switches
  answered    \* history: publications answered and not removed since

engineVars == <<scripts, switchedOn, publisher, request, calls, answered>>

NoVersion == 0

NewSnapshot ==
  [live |-> [n \in Names |-> NoVersion], history |-> [n \in Names |-> {}],
   next |-> 1]

Compiling == "compiling"

Outside == [at |-> "out", name |-> 0, seen |-> NewSnapshot]
Unborn == [at |-> "none", snap |-> NewSnapshot.live, ran |-> NewSnapshot.live]

EngineInit ==
  /\ scripts = NewSnapshot
  /\ switchedOn = TRUE
  /\ publisher = [p \in Publishers |-> Outside]
  /\ request = [r \in Executions |-> Unborn]
  /\ answered = {}

\* Every change stores a whole new snapshot.
StoreSnapshot(ns) == scripts' = ns

Call == calls > 0 /\ calls' = calls - 1

-----------------------------------------------------------------------------
(* Publish: the source is checked and compiled without the lock.           *)

Compile(p) ==
  /\ publisher[p].at = "out" /\ Call
  /\ \E n \in Names :
       publisher' = [publisher EXCEPT ![p] = [at |-> Compiling, name |-> n, seen |-> scripts]]
  /\ UNCHANGED <<scripts, switchedOn, request, answered>>

\* The sandbox or the compiler refuses.
Refuse(p) ==
  /\ publisher[p].at = Compiling
  /\ publisher' = [publisher EXCEPT ![p] = Outside]
  /\ UNCHANGED <<scripts, switchedOn, request, calls, answered>>

With(snap, n) ==
  [live |-> [snap.live EXCEPT ![n] = snap.next],
   history |-> [snap.history EXCEPT ![n] = @ \union {snap.next}],
   next |-> snap.next + 1]

\* Mutant: the copy is made of the snapshot seen before the lock.
PublishOnSeen(p) ==
  LET n == publisher[p].name  seen == publisher[p].seen IN
  /\ publisher[p].at = Compiling
  /\ StoreSnapshot(With(seen, n))
  /\ answered' = answered \union {<<n, seen.next>>}
  /\ publisher' = [publisher EXCEPT ![p] = Outside]
  /\ UNCHANGED <<switchedOn, request, calls>>

Publish(p) ==
  LET n == publisher[p].name IN
  /\ publisher[p].at = Compiling
  /\ StoreSnapshot(With(scripts, n))
  /\ answered' = answered \union {<<n, scripts.next>>}
  /\ publisher' = [publisher EXCEPT ![p] = Outside]
  /\ UNCHANGED <<switchedOn, request, calls>>

-----------------------------------------------------------------------------
(* Rollback, Start and Stop.                                               *)

Rollback(n, v) ==
  /\ v \in scripts.history[n] /\ Call
  /\ StoreSnapshot([scripts EXCEPT !.live[n] = v])
  /\ UNCHANGED <<switchedOn, publisher, request, answered>>

\* Version 0: the script goes, with its history.
RemoveScript(n) ==
  /\ scripts.live[n] # NoVersion /\ Call
  /\ StoreSnapshot([scripts EXCEPT !.live[n] = NoVersion, !.history[n] = {}])
  /\ answered' = {a \in answered : a[1] # n}
  /\ UNCHANGED <<switchedOn, publisher, request>>

\* Publishing works on a component that is switched off, and lasts.
StartEngine ==
  /\ ~switchedOn /\ Call
  /\ switchedOn' = TRUE
  /\ StoreSnapshot(scripts)
  /\ UNCHANGED <<publisher, request, answered>>

StopEngine ==
  /\ switchedOn /\ Call
  /\ switchedOn' = FALSE
  /\ StoreSnapshot(NewSnapshot)
  /\ answered' = {}
  /\ UNCHANGED <<publisher, request>>

-----------------------------------------------------------------------------
(* Handle.                                                                 *)

Begin(r) ==
  /\ switchedOn /\ request[r].at = "none"
  /\ request' = [request EXCEPT ![r] = [at |-> "running", snap |-> scripts.live,
                                        ran |-> NewSnapshot.live]]
  /\ UNCHANGED <<scripts, switchedOn, publisher, calls, answered>>

Pending(r) ==
  {n \in Names : request[r].snap[n] # NoVersion /\ request[r].ran[n] = NoVersion}

\* One script runs; if it fails or runs out of time the next one follows, and
\* if it answers the request no other does.
Run(r) ==
  /\ request[r].at = "running" /\ Pending(r) # {}
  /\ \E next \in {"running", "done"} :
       request' = [request EXCEPT ![r].ran[Min(Pending(r))] = request[r].snap[Min(Pending(r))],
                                  ![r].at = next]
  /\ UNCHANGED <<scripts, switchedOn, publisher, calls, answered>>

Finish(r) ==
  /\ request[r].at = "running" /\ Pending(r) = {}
  /\ request' = [request EXCEPT ![r].at = "done"]
  /\ UNCHANGED <<scripts, switchedOn, publisher, calls, answered>>

EngineStep ==
  \/ \E p \in Publishers : Compile(p) \/ Refuse(p) \/ Publish(p)
  \/ \E n \in Names : RemoveScript(n) \/ \E v \in 1..scripts.next : Rollback(n, v)
  \/ StartEngine \/ StopEngine
  \/ \E r \in Executions : Begin(r) \/ Run(r) \/ Finish(r)

-----------------------------------------------------------------------------
\* A publication that was answered stays in the history of its script, under a
\* number no other has, until the script is removed or the component is
\* stopped, whatever other administrators publish meanwhile and across Start
\* (Publish, cloneSnapshot).
PublishesKept ==
  \A a \in answered :
    /\ a[2] \in scripts.history[a[1]]
    /\ \A b \in answered : a[2] = b[2] => a = b
=============================================================================
