------------------------------ MODULE Dispatch ------------------------------
(***************************************************************************)
(* The dispatcher, src/plugins/dispatch: the route snapshot, its rebuild   *)
(* from the database tables (dispatch.go), the health centre with one      *)
(* probe goroutine per node (healthcenter.go), the node registry           *)
(* (registry.go), the choice of a node for a request (select.go,           *)
(* sticky.go) and the Tail hook that takes a request off its node's count  *)
(* (tailfin.go).  The tables are written by the admin handlers (admin.go). *)
(*                                                                         *)
(* The data is abstracted to one rule that sends every request to one      *)
(* upstream.  A node's row says whether it is there, enabled, exempt from  *)
(* probing ("free") or probed, and with which parameters ("p1", "p2").     *)
(* Round robin is any choice among the candidates.                         *)
(***************************************************************************)
EXTENDS Naturals, FiniteSets

CONSTANTS
  Nodes, Admins, Requests,
  Manager,       \* the hot-swap manager, which calls Start and Stop
  Nobody, NoRoutes, NoNode,
  LeastConn,     \* the algorithm of the upstream: least_conn or round_robin
  FirstGraphs,   \* the tables the component may find at its first Start
  Saves,         \* the node rows that an administrator saves
  Answers,       \* the conclusions a probe may come to: "ok", "bad"
  Groups,        \* the groups of relations that an administrator saves
  MaxSaves,      \* bound: how many changes of the tables
  MaxStarts,     \* bound: how many calls of Start
  MaxFailures    \* bound: how many failing database queries

Rows == {"absent", "off", "free", "p1", "p2"}
Roles == {"none", "primary", "backup"}
Graphs == [up : BOOLEAN, node : [Nodes -> Rows], role : [Nodes -> Roles]]

Loops == 1 .. MaxStarts
Procs == Admins \cup Loops \cup {Manager}

ASSUME DispatchAssumption ==
  /\ Admins \cap Loops = {} /\ Manager \notin Admins \cup Loops
  /\ Nobody \notin Procs /\ NoRoutes \notin Graphs /\ NoNode \notin Nodes
  /\ IsFiniteSet(Requests)
  /\ LeastConn \in BOOLEAN /\ FirstGraphs \subseteq Graphs
  /\ Saves \subseteq Rows /\ Groups \subseteq [Nodes -> Roles]
  /\ Answers \subseteq {"ok", "bad"}
  /\ MaxSaves \in Nat /\ MaxStarts \in Nat /\ MaxFailures \in Nat

VARIABLES
  db,        \* the tables
  snap,      \* the route snapshot: NoRoutes, or the tables it was built from
  owner,     \* who holds rebuildMu
  draft,     \* the rows that the owner of rebuildMu has read so far
  hcOwner,   \* who holds the mutex of the health centre
  members,   \* HealthCenter.members: node -> the row it was registered with
  tasks,     \* HealthCenter.tasks
  probes,    \* the probe goroutines that have not ended
  told,      \* those whose stop channel is closed
  health,    \* Registry: the state of a node's record, "none" without a record
  inflight,  \* Registry: the count of a node's record
  record,    \* Registry: the number of a node's record, or of its next one
  stopped,   \* Dispatch.stopped
  stopCh,    \* the retry loop that Stop would end; 0 is none
  closed,    \* retry loops whose channel is closed
  at,        \* where each process is
  request,   \* where each request is and the node it was given
  saves, starts, failures,
  history    \* see Init

vars == <<db, snap, owner, draft, hcOwner, members, tasks, probes, told, health,
          inflight, record, stopped, stopCh, closed, at, request, saves, starts,
          failures, history>>
tables == <<db, saves>>
registry == <<health, inflight, record>>
centre == <<hcOwner, members, tasks, probes, told>>
lifecycle == <<stopped, stopCh, closed, starts>>

\* The rows before the first query.
Blank == [up |-> FALSE, node |-> [n \in Nodes |-> "absent"], role |-> [n \in Nodes |-> "none"]]

\* ValidateGraph: every relation names an existing node, and the upstream has one.
Related(g) == {n \in Nodes : g.role[n] # "none"}
Valid(g) == Related(g) # {} /\ \A n \in Related(g) : g.node[n] # "absent"

\* The nodes the health centre keeps: enabled, and related to an enabled
\* upstream.
Wanted(g) ==
  LET kept == {n \in Related(g) : g.up /\ g.node[n] \in {"free", "p1", "p2"}}
  IN [n \in kept |-> g.node[n]]
Probed(row) == row # "free"

Task(n, row) == [node |-> n, row |-> row]
TasksOf(m) == {Task(n, m[n]) : n \in {k \in DOMAIN m : Probed(m[k])}}
Without(m, n) == [k \in DOMAIN m \ {n} |-> m[k]]
With(m, n, row) == [k \in DOMAIN m \cup {n} |-> IF k = n THEN row ELSE m[k]]

NoRequest == [at |-> "new", node |-> NoNode, record |-> 0]

\* history.forgot: nodes whose record was cleared while requests were on it, or
\* were about to be counted on it.
\* history.kept: nodes whose record HealthCenter.Stop has left behind.
\* history.drained: HealthCenter.Stop came after the last HealthCenter.Rebuild.
\* history.failed: the Rebuild that ended last returned an error.
\* history.slipped: a Rebuild had passed its test of stopped when Stop set it.
Init ==
  /\ db \in FirstGraphs
  /\ snap = NoRoutes /\ owner = Nobody /\ draft = Blank
  /\ hcOwner = Nobody /\ members = <<>> /\ tasks = {} /\ probes = {} /\ told = {}
  /\ health = [n \in Nodes |-> "none"] /\ inflight = [n \in Nodes |-> 0]
  /\ record = [n \in Nodes |-> 0]
  /\ stopped = FALSE /\ stopCh = 0 /\ closed = {}
  /\ at = [p \in Procs |-> IF p = Manager THEN "down" ELSE "idle"]
  /\ request = [r \in Requests |-> NoRequest]
  /\ saves = 0 /\ starts = 0 /\ failures = 0
  /\ history = [forgot |-> {}, kept |-> {}, drained |-> TRUE, failed |-> TRUE, slipped |-> FALSE]
-----------------------------------------------------------------------------
(* The admin handlers: write the tables, then Rebuild (afterWrite).          *)

\* MUTANT: the handler does not rebuild.
SaveNodeOnly(a, n, row) ==
  /\ at[a] = "idle" /\ saves < MaxSaves
  /\ row \notin {db.node[n], "absent"}
  /\ db' = [db EXCEPT !.node[n] = row]
  /\ saves' = saves + 1
  /\ UNCHANGED <<snap, owner, draft, centre, registry, lifecycle, at, request, failures, history>>

\* addNode, NodesUpdate; deletion, which asks for no relation, is left out.
SaveNode(a, n, row) ==
  /\ at[a] = "idle" /\ saves < MaxSaves
  /\ row \notin {db.node[n], "absent"}
  /\ db' = [db EXCEPT !.node[n] = row]
  /\ saves' = saves + 1
  /\ at' = [at EXCEPT ![a] = "check"]
  /\ UNCHANGED <<snap, owner, draft, centre, registry, lifecycle, request, failures, history>>

\* UpstreamsUpdate: the row of the upstream, then replaceRelations takes the
\* old relations out ...
SaveUpstream(a, up) ==
  /\ at[a] = "idle" /\ saves < MaxSaves
  /\ db' = [db EXCEPT !.up = up, !.role = [n \in Nodes |-> "none"]]
  /\ saves' = saves + 1
  /\ at' = [at EXCEPT ![a] = "relations"]
  /\ UNCHANGED <<snap, owner, draft, centre, registry, lifecycle, request, failures, history>>

\* ... and puts the new ones in.  validateUpstream has seen that the nodes
\* exist, and nothing more: a group may be empty.
SaveRelations(a, role) ==
  /\ at[a] = "relations"
  /\ \A n \in Nodes : role[n] # "none" => db.node[n] # "absent"
  /\ db' = [db EXCEPT !.role = role]
  /\ at' = [at EXCEPT ![a] = "check"]
  /\ UNCHANGED <<snap, owner, draft, centre, registry, lifecycle, request, saves, failures, history>>

\* The manual reload.
Reload(a) ==
  /\ at[a] = "idle" /\ history.failed
  /\ at' = [at EXCEPT ![a] = "check"]
  /\ UNCHANGED <<tables, snap, owner, draft, centre, registry, lifecycle, request, failures, history>>
-----------------------------------------------------------------------------
(* Rebuild, called by the handlers, by Start and by the retry loops.         *)

\* Where a process goes when its Rebuild returns: a retry loop ends with the
\* first success, and Start leaves one behind when it fails.
Back(p, ok) ==
  CASE p \in Admins -> [at EXCEPT ![p] = "idle"]
    [] p \in Loops -> [at EXCEPT ![p] = IF ok THEN "gone" ELSE "sleep"]
    [] OTHER -> IF ok THEN [at EXCEPT ![p] = "up"]
                      ELSE [at EXCEPT ![p] = "up", ![starts] = "sleep"]

Refuse(p) ==
  /\ at[p] = "check" /\ stopped
  /\ at' = Back(p, FALSE)
  /\ history' = [history EXCEPT !.failed = TRUE]
  /\ UNCHANGED <<tables, snap, owner, draft, centre, registry, lifecycle, request, failures>>

\* MUTANT: Rebuild does not look at stopped.
CheckBlind(p) ==
  /\ at[p] = "check"
  /\ at' = [at EXCEPT ![p] = "lock"]
  /\ UNCHANGED <<tables, snap, owner, draft, centre, registry, lifecycle, request, failures, history>>

Check(p) ==
  /\ at[p] = "check" /\ ~stopped
  /\ at' = [at EXCEPT ![p] = "lock"]
  /\ UNCHANGED <<tables, snap, owner, draft, centre, registry, lifecycle, request, failures, history>>

Lock(p) ==
  /\ at[p] = "lock" /\ owner = Nobody
  /\ owner' = p
  /\ at' = [at EXCEPT ![p] = "upstreams"]
  /\ UNCHANGED <<tables, snap, draft, centre, registry, lifecycle, request, failures, history>>

\* loadInput: one query per table.
LoadUpstreams(p) ==
  /\ at[p] = "upstreams"
  /\ draft' = [draft EXCEPT !.up = db.up]
  /\ at' = [at EXCEPT ![p] = "nodes"]
  /\ UNCHANGED <<tables, snap, owner, centre, registry, lifecycle, request, failures, history>>

LoadNodes(p) ==
  /\ at[p] = "nodes"
  /\ draft' = [draft EXCEPT !.node = db.node]
  /\ at' = [at EXCEPT ![p] = "relate"]
  /\ UNCHANGED <<tables, snap, owner, centre, registry, lifecycle, request, failures, history>>

LoadRelations(p) ==
  /\ at[p] = "relate"
  /\ draft' = [draft EXCEPT !.role = db.role]
  /\ at' = [at EXCEPT ![p] = "build"]
  /\ UNCHANGED <<tables, snap, owner, centre, registry, lifecycle, request, failures, history>>

GiveUp(p) ==
  /\ owner' = Nobody /\ draft' = Blank
  /\ at' = Back(p, FALSE)
  /\ history' = [history EXCEPT !.failed = TRUE]

FailQuery(p) ==
  /\ at[p] \in {"upstreams", "nodes", "relate"}
  /\ failures < MaxFailures
  /\ failures' = failures + 1
  /\ GiveUp(p)
  /\ UNCHANGED <<tables, snap, centre, registry, lifecycle, request>>

\* ValidateGraph finds a problem: the old snapshot stays.
Reject(p) ==
  /\ at[p] = "build" /\ ~Valid(draft)
  /\ GiveUp(p)
  /\ UNCHANGED <<tables, snap, centre, registry, lifecycle, request, failures>>

Store(p) ==
  /\ at[p] = "build" /\ Valid(draft)
  /\ snap' = draft
  /\ at' = [at EXCEPT ![p] = "centre"]
  /\ UNCHANGED <<tables, owner, draft, centre, registry, lifecycle, request, failures, history>>
-----------------------------------------------------------------------------
(* HealthCenter.Rebuild, all of it under the mutex of the health centre.     *)

LockCentre(p) ==
  /\ at[p] \in {"centre", "drain"} /\ hcOwner = Nobody
  /\ hcOwner' = p
  /\ at' = [at EXCEPT ![p] = IF at[p] = "centre" THEN "diff" ELSE "draining"]
  /\ UNCHANGED <<tables, snap, owner, draft, members, tasks, probes, told, registry, lifecycle, request, failures, history>>

\* Members that are not wanted any more, or with other parameters.
Outdated ==
  {n \in DOMAIN members : ~(n \in DOMAIN Wanted(draft) /\ Wanted(draft)[n] = members[n])}

\* stopTaskLocked, first half: close the stop channel.
StopTask(p) ==
  \E t \in tasks :
    /\ \/ at[p] = "diff" /\ t.node \in Outdated
       \/ at[p] = "draining"
    /\ told = {}
    /\ told' = {t}
    /\ UNCHANGED <<tables, snap, owner, draft, hcOwner, members, tasks, probes, registry, lifecycle, at, request, failures, history>>

\* The records of the registry (registry.go): whoever needs one that is missing
\* makes it.  A verdict that is there is kept.
Ensure(n, init) ==
  health' = [health EXCEPT ![n] = IF @ \in {"none", "unknown"} THEN init ELSE @]

SetHealth(n, verdict) == health' = [health EXCEPT ![n] = verdict]

\* IncInflight, after the unlock: the count of the record it has found, which the
\* node may have lost since.
IncInflight(n, found) ==
  inflight' = [inflight EXCEPT ![n] = IF found = record[n] THEN @ + 1 ELSE @]

\* It stops at zero; without a record nothing happens.  That it too adds after
\* the unlock makes no difference: a record that is gone is not looked at.
DecInflight(n) == inflight' = [inflight EXCEPT ![n] = IF @ > 0 THEN @ - 1 ELSE @]

\* Registry.Remove.
About(n) == {r \in Requests : request[r].node = n /\ request[r].at = "found"}
Forget(n) ==
  /\ health' = [health EXCEPT ![n] = "none"]
  /\ inflight' = [inflight EXCEPT ![n] = 0]
  /\ record' = [record EXCEPT ![n] = @ + 1]
  /\ history' = [history EXCEPT
       !.forgot = IF inflight[n] > 0 \/ About(n) # {} THEN @ \cup {n} ELSE @,
       !.kept = @ \ {n}]

\* MUTANT: new parameters clear the record as well.
DropForgetting(p) ==
  /\ at[p] = "diff"
  /\ \E n \in Outdated :
       /\ Task(n, members[n]) \notin probes
       /\ tasks' = tasks \ {Task(n, members[n])}
       /\ told' = told \ {Task(n, members[n])}
       /\ members' = Without(members, n)
       /\ Forget(n)
  /\ UNCHANGED <<tables, snap, owner, draft, hcOwner, probes, lifecycle, at, request, failures>>

\* A member leaves, its probe having ended.  Its record stays when it is to
\* be registered again with other parameters.
Drop(p) ==
  /\ at[p] = "diff"
  /\ \E n \in Outdated :
       /\ Task(n, members[n]) \notin probes
       /\ tasks' = tasks \ {Task(n, members[n])}
       /\ told' = told \ {Task(n, members[n])}
       /\ members' = Without(members, n)
       /\ IF n \in DOMAIN Wanted(draft)
          THEN UNCHANGED <<registry, history>>
          ELSE Forget(n)
  /\ UNCHANGED <<tables, snap, owner, draft, hcOwner, probes, lifecycle, at, request, failures>>

\* A new member: an exempt node counts as healthy, a probed one is unknown
\* unless its record knows better.
Register(p) ==
  /\ at[p] = "diff" /\ Outdated = {}
  /\ \E n \in DOMAIN Wanted(draft) \ DOMAIN members :
       LET row == Wanted(draft)[n] IN
       /\ members' = With(members, n, row)
       /\ IF Probed(row)
          THEN /\ tasks' = tasks \cup {Task(n, row)}
               /\ probes' = probes \cup {Task(n, row)}
               /\ Ensure(n, "unknown")
          ELSE /\ SetHealth(n, "ok")
               /\ UNCHANGED <<tasks, probes>>
  /\ UNCHANGED <<tables, snap, owner, draft, hcOwner, told, inflight, record, lifecycle, at, request, failures, history>>

Finish(p) ==
  /\ at[p] = "diff" /\ members = Wanted(draft)
  /\ hcOwner' = Nobody /\ owner' = Nobody /\ draft' = Blank
  /\ at' = Back(p, TRUE)
  /\ history' = [history EXCEPT !.drained = FALSE, !.failed = FALSE]
  /\ UNCHANGED <<tables, snap, members, tasks, probes, told, registry, lifecycle, request, failures>>
-----------------------------------------------------------------------------
(* The probe goroutines.                                                     *)

\* One answer of the node.
Probe(t) ==
  /\ t \in probes
  /\ \E answer \in Answers : SetHealth(t.node, answer)
  /\ UNCHANGED <<tables, snap, owner, draft, centre, inflight, record, lifecycle, at, request, failures, history>>

EndProbe(t) ==
  /\ t \in probes \cap told
  /\ probes' = probes \ {t}
  /\ UNCHANGED <<tables, snap, owner, draft, hcOwner, members, tasks, told, registry, lifecycle, at, request, failures, history>>
-----------------------------------------------------------------------------
(* Start and Stop, called by the hot-swap manager, and the retry loop.       *)

\* From the hot reload, Start comes without a Stop before it.
Start ==
  /\ at[Manager] \in {"down", "up"} /\ starts < MaxStarts
  /\ stopped' = FALSE
  /\ starts' = starts + 1 /\ stopCh' = starts + 1
  /\ at' = [at EXCEPT ![Manager] = "check"]
  /\ history' = [history EXCEPT !.slipped = FALSE]
  /\ UNCHANGED <<tables, snap, owner, draft, centre, registry, closed, request, failures>>

\* Set the mark, close the channel of the retry loop, then HealthCenter.Stop.
Rebuilding == {"lock", "upstreams", "nodes", "relate", "build", "centre", "diff"}
Stop ==
  /\ at[Manager] = "up"
  /\ stopped' = TRUE
  /\ closed' = IF stopCh = 0 THEN closed ELSE closed \cup {stopCh}
  /\ stopCh' = 0
  /\ at' = [at EXCEPT ![Manager] = "drain"]
  /\ history' = [history EXCEPT !.slipped = \E p \in Procs : at[p] \in Rebuilding]
  /\ UNCHANGED <<tables, snap, owner, draft, centre, registry, starts, request, failures>>

\* HealthCenter.Stop, the second half of stopTaskLocked.
DropTask ==
  /\ at[Manager] = "draining"
  /\ \E t \in told \ probes :
       /\ tasks' = tasks \ {t}
       /\ told' = told \ {t}
  /\ UNCHANGED <<tables, snap, owner, draft, hcOwner, members, probes, registry, lifecycle, at, request, failures, history>>

\* The members go; the records of the registry stay.
Drained ==
  /\ at[Manager] = "draining" /\ tasks = {}
  /\ members' = <<>>
  /\ hcOwner' = Nobody
  /\ at' = [at EXCEPT ![Manager] = "down"]
  /\ history' = [history EXCEPT !.drained = TRUE,
                                !.kept = {n \in Nodes : health[n] # "none"}]
  /\ UNCHANGED <<tables, snap, owner, draft, tasks, probes, told, registry, lifecycle, request, failures>>

Tick(l) ==
  /\ at[l] = "sleep"
  /\ at' = [at EXCEPT ![l] = "check"]
  /\ UNCHANGED <<tables, snap, owner, draft, centre, registry, lifecycle, request, failures, history>>

EndLoop(l) ==
  /\ at[l] = "sleep" /\ l \in closed
  /\ at' = [at EXCEPT ![l] = "gone"]
  /\ UNCHANGED <<tables, snap, owner, draft, centre, registry, lifecycle, request, failures, history>>
-----------------------------------------------------------------------------
(* Requests.                                                                 *)

Healthy(g, role) == {n \in Nodes : g.role[n] = role /\ health[n] = "ok"}
Least(S) == {n \in S : \A m \in S : inflight[n] <= inflight[m]}
Pick(S) == IF LeastConn THEN Least(S) ELSE S

\* SelectNode, or SelectStickyNode for the node of the cookie.
Choices(g, cookie) ==
  IF cookie \in Healthy(g, "primary") \cup Healthy(g, "backup") THEN {cookie}
  ELSE IF Healthy(g, "primary") # {} THEN Pick(Healthy(g, "primary"))
  ELSE Pick(Healthy(g, "backup"))

\* Dispatch.Handle up to the choice of a node; without routes the request
\* goes to the default upstream, without a node it is answered with 503.
Choose(r) ==
  /\ request[r].at = "new" /\ snap # NoRoutes /\ snap.up
  /\ \E cookie \in Nodes \cup {NoNode} : \E n \in Choices(snap, cookie) :
       request' = [request EXCEPT ![r] = [at |-> "chosen", node |-> n, record |-> 0]]
  /\ UNCHANGED <<tables, snap, owner, draft, centre, registry, lifecycle, at, failures, history>>

\* MUTANT: a node without a record is not counted.
FindKnown(r) ==
  LET n == request[r].node IN
  /\ request[r].at = "chosen"
  /\ request' = [request EXCEPT ![r].at = IF health[n] = "none" THEN "counted" ELSE "found",
                                ![r].record = record[n]]
  /\ UNCHANGED <<tables, snap, owner, draft, centre, registry, lifecycle, at, failures, history>>

\* IncInflight, under the lock.  The node may have lost its record since it was
\* chosen; then it gets a new one.
Find(r) ==
  LET n == request[r].node IN
  /\ request[r].at = "chosen"
  /\ request' = [request EXCEPT ![r].at = "found", ![r].record = record[n]]
  /\ health' = [health EXCEPT ![n] = IF @ = "none" THEN "unknown" ELSE @]
  /\ UNCHANGED <<tables, snap, owner, draft, centre, inflight, record, lifecycle, at, failures, history>>

Count(r) ==
  /\ request[r].at = "found"
  /\ request' = [request EXCEPT ![r].at = "counted"]
  /\ IncInflight(request[r].node, request[r].record)
  /\ UNCHANGED <<tables, snap, owner, draft, centre, health, record, lifecycle, at, failures, history>>

\* TailFin.OnResponse.
Respond(r) ==
  /\ request[r].at = "counted"
  /\ request' = [request EXCEPT ![r] = NoRequest]
  /\ DecInflight(request[r].node)
  /\ UNCHANGED <<tables, snap, owner, draft, centre, health, record, lifecycle, at, failures, history>>

\* A middleware after the dispatcher ends the chain: no Tail hook runs.
Interrupt(r) ==
  /\ request[r].at = "counted"
  /\ request' = [request EXCEPT ![r].at = "lost"]
  /\ UNCHANGED <<tables, snap, owner, draft, centre, registry, lifecycle, at, failures, history>>
-----------------------------------------------------------------------------
Rebuild(p) ==
  \/ Refuse(p) \/ Check(p) \/ Lock(p)
  \/ LoadUpstreams(p) \/ LoadNodes(p) \/ LoadRelations(p) \/ FailQuery(p)
  \/ Reject(p) \/ Store(p)
  \/ StopTask(p) \/ Drop(p) \/ Register(p) \/ Finish(p)

Save(a) ==
  \/ \E n \in Nodes, row \in Saves : SaveNode(a, n, row)
  \/ \E up \in BOOLEAN : SaveUpstream(a, up)
  \/ Reload(a)

Next ==
  \/ \E a \in Admins : Save(a) \/ \E role \in Groups : SaveRelations(a, role)
  \/ \E p \in Procs : Rebuild(p) \/ LockCentre(p)
  \/ \E t \in probes : Probe(t) \/ EndProbe(t)
  \/ Start \/ Stop \/ DropTask \/ Drained
  \/ \E l \in Loops : Tick(l) \/ EndLoop(l)
  \/ \E r \in Requests : Choose(r) \/ Find(r) \/ Count(r) \/ Respond(r) \/ Interrupt(r)

Spec == Init /\ [][Next]_vars
-----------------------------------------------------------------------------
\* The count of a node (registry.go) is the number of requests on it, those
\* included that a later middleware cut off.  Only a Rebuild that clears the
\* record under its requests, or between the lookup and the addition of one that
\* is being counted, makes it smaller; it is never larger, and what a late answer
\* finds is never taken below zero.
On(n) == {r \in Requests : request[r].node = n /\ request[r].at \in {"counted", "lost"}}
InflightCounts ==
  \A n \in Nodes : /\ inflight[n] <= Cardinality(On(n))
                   /\ n \notin history.forgot => inflight[n] = Cardinality(On(n))

\* When all calls have returned, and the last Rebuild did not fail, the
\* snapshot is what the tables say, and the nodes it probes are those that are
\* being probed, with its parameters, whatever the saves, the torn reads and
\* the order of the rebuilds (dispatch.go:210, healthcenter.go:77).
Settled ==
  /\ \A p \in Procs : at[p] \in {"idle", "up", "down", "sleep", "gone"}
  /\ at[Manager] = "up" /\ ~history.failed
LastSaveServed ==
  Settled => snap = db /\ tasks = TasksOf(Wanted(snap)) /\ probes = tasks

\* After Stop nothing probes, unless a Rebuild had already passed its test of
\* stopped (dispatch.go:253).  Before the first Start stopped is FALSE, and a
\* save does set probes going.
StoppedIsQuiet == at[Manager] = "down" /\ stopped /\ ~history.slipped => probes = {}

\* A Rebuild never takes the verdict from a node that stays in use
\* (healthcenter.go:120): requests keep their node while the tables change.
KeepsVerdict ==
  [][\A n \in Nodes :
       /\ health[n] \in {"ok", "bad"} /\ snap # NoRoutes /\ snap' # NoRoutes
       /\ n \in DOMAIN Wanted(snap) /\ n \in DOMAIN Wanted(snap')
       => health'[n] \in {"ok", "bad"}]_vars

\* What the documents say of a node that is switched off: no request is sent
\* to it once the change is in force.
DisabledIsOut ==
  Settled => \A cookie \in Nodes \cup {NoNode}, n \in Nodes :
               n \in Choices(snap, cookie) => snap.node[n] # "off"
=============================================================================
