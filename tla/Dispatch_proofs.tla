--------------------------- MODULE Dispatch_proofs ---------------------------
(***************************************************************************)
(* What the dispatcher serves, counts and probes, for every set of nodes,  *)
(* administrators and requests and any number of saves, failures, starts   *)
(* and stops.                                                              *)
(***************************************************************************)
EXTENDS Dispatch, FiniteSetTheorems, TLAPS

Places == {"idle", "relations", "check", "sleep", "gone", "up", "down", "drain",
           "draining"} \cup Rebuilding

Tasks == [node : Nodes, row : Rows]

TypeOK ==
  /\ db \in Graphs /\ snap \in Graphs \cup {NoRoutes} /\ draft \in Graphs
  /\ owner \in Procs \cup {Nobody} /\ hcOwner \in Procs \cup {Nobody}
  /\ DOMAIN members \subseteq Nodes /\ members \in [DOMAIN members -> Rows]
  /\ tasks \subseteq Tasks /\ probes \subseteq Tasks /\ told \subseteq Tasks
  /\ health \in [Nodes -> {"none", "unknown", "ok", "bad"}]
  /\ inflight \in [Nodes -> Nat] /\ record \in [Nodes -> Nat]
  /\ stopped \in BOOLEAN /\ at \in [Procs -> Places] /\ starts \in 0 .. MaxStarts
  /\ request \in [Requests -> [at : {"new", "chosen", "found", "counted", "lost"},
                               node : Nodes \cup {NoNode}, record : Nat]]
  /\ \A r \in Requests : request[r].at # "new" => request[r].node \in Nodes
  /\ history \in [forgot : SUBSET Nodes, kept : SUBSET Nodes, drained : BOOLEAN,
                  failed : BOOLEAN, slipped : BOOLEAN]

(***************************************************************************)
(* Who may stand where.  Under rebuildMu, and under the mutex of the       *)
(* health centre, is one process.                                          *)
(***************************************************************************)
Owning == Rebuilding \ {"lock"}

LocksOK ==
  \A p \in Procs : /\ at[p] \in Owning <=> owner = p
                   /\ at[p] \in {"diff", "draining"} <=> hcOwner = p

PlacesOK ==
  /\ at[Manager] \notin {"idle", "relations", "sleep", "gone"}
  /\ \A p \in Admins : at[p] \notin {"up", "down", "drain", "draining", "sleep", "gone"}
  /\ \A l \in Loops : at[l] \notin {"up", "down", "drain", "draining", "relations"}
  /\ stopped => at[Manager] \in {"drain", "draining", "down"}

(***************************************************************************)
(* The retry loop that a failing Start leaves behind has not begun.        *)
(***************************************************************************)
LoopsOK ==
  /\ \A l \in Loops : l > starts => at[l] = "idle"
  /\ at[Manager] \in {"check"} \cup Rebuilding =>
       starts \in Loops /\ at[starts] = "idle"

(***************************************************************************)
(* The health centre: a task for every probed member, a probe for every    *)
(* task, but for the one that is being stopped.                            *)
(***************************************************************************)
CentreOK ==
  /\ told \subseteq tasks /\ probes \subseteq tasks /\ tasks \ probes \subseteq told
  /\ at[Manager] # "draining" => tasks = TasksOf(members)
  /\ hcOwner = Nobody => told = {}
  /\ \A p \in Procs : at[p] = "diff" =>
       /\ snap = draft
       /\ \A t \in told : t.node \in Outdated
  /\ \A p \in Procs : at[p] = "centre" => snap = draft

(***************************************************************************)
(* What a process has read so far is what the tables say now.              *)
(***************************************************************************)
ReadIsFresh(p) ==
  /\ at[p] = "nodes" => draft.up = db.up
  /\ at[p] = "relate" => draft.up = db.up /\ draft.node = db.node
  /\ at[p] \in {"build", "centre", "diff"} => draft = db

(***************************************************************************)
(* Somebody will read the tables again, from the first.                    *)
(***************************************************************************)
Coming ==
  \E p \in Procs : at[p] \in {"relations", "check", "lock", "drain", "draining", "down"}

ServedOK ==
  /\ \A p \in Procs : at[p] \in Owning => ReadIsFresh(p) \/ Coming
  /\ owner = Nobody => Coming \/ history.failed \/ (snap = db /\ members = Wanted(db))

QuietOK ==
  stopped /\ ~history.slipped =>
    /\ \A p \in Procs : at[p] \notin Rebuilding
    /\ at[Manager] = "down" => tasks = {}

(***************************************************************************)
(* The counts, and the requests between the lookup of a record and the     *)
(* addition: unless it was cleared meanwhile, theirs is the one of today.  *)
(***************************************************************************)
FoundOK ==
  \A r \in Requests :
    request[r].at = "found" /\ request[r].node \notin history.forgot
      => request[r].record = record[request[r].node]

CountsOK == InflightCounts /\ FoundOK

DispatchInv ==
  /\ TypeOK /\ LocksOK /\ PlacesOK /\ LoopsOK /\ CentreOK /\ ServedOK /\ QuietOK
  /\ CountsOK

-----------------------------------------------------------------------------
(***************************************************************************)
(* The process that goes back, and the retry loop it may leave behind.     *)
(***************************************************************************)
LEMMA BackMoves ==
  ASSUME TypeOK, PlacesOK, LoopsOK, NEW p \in Procs, at[p] \in {"check"} \cup Rebuilding,
         NEW ok \in BOOLEAN, at' = Back(p, ok)
  PROVE  /\ at' \in [Procs -> Places]
         /\ p \in Admins => at'[p] = "idle"
         /\ p \in Loops => at'[p] \in {"gone", "sleep"}
         /\ p = Manager => at'[p] = "up"
         /\ \A q \in Procs : q # p =>
              \/ at'[q] = at[q]
              \/ ~ok /\ p = Manager /\ q \in Loops /\ q = starts /\ at[q] = "idle" /\ at'[q] = "sleep"
<1>0. at \in [Procs -> Places] /\ {"idle", "gone", "sleep", "up"} \subseteq Places
  BY DEF TypeOK, Places
<1>1. CASE p \in Admins
  <2>2. p \notin Loops /\ p # Manager
    BY <1>1, DispatchAssumption
  <2>1. at' = [at EXCEPT ![p] = "idle"]
    BY <1>1, <2>2 DEF Back
  <2>3. "idle" \in Places
    BY <1>0
  <2> QED BY <1>0, <1>1, <2>1, <2>2, <2>3
<1>2. CASE p \in Loops
  <2>2. p \notin Admins /\ p # Manager
    BY <1>2, DispatchAssumption
  <2>1. PICK x \in {"gone", "sleep"} : at' = [at EXCEPT ![p] = x]
    BY <1>2, <2>2 DEF Back
  <2>3. x \in Places
    BY <1>0
  <2> QED BY <1>0, <1>2, <2>1, <2>2, <2>3
<1>3. CASE p = Manager /\ ok
  <2>1. at' = [at EXCEPT ![p] = "up"]
    BY <1>3, DispatchAssumption DEF Back
  <2> QED BY <1>0, <1>3, <2>1, DispatchAssumption
<1>4. CASE p = Manager /\ ~ok
  <2>1. at' = [at EXCEPT ![p] = "up", ![starts] = "sleep"]
    BY <1>4, DispatchAssumption DEF Back
  <2>2. starts \in Loops /\ at[starts] = "idle" /\ starts # p
    BY <1>4, DispatchAssumption DEF LoopsOK
  <2> QED BY <1>0, <1>4, <2>1, <2>2, DispatchAssumption DEF Procs
<1> QED BY <1>1, <1>2, <1>3, <1>4 DEF Procs

LEMMA CountsFrame ==
  ASSUME CountsOK, UNCHANGED <<inflight, record, request>>, history'.forgot = history.forgot
  PROVE  CountsOK'
BY DEF CountsOK, InflightCounts, FoundOK, On

(***************************************************************************)
(* At most one process has a mutex, and it stands where it uses it.        *)
(***************************************************************************)
LEMMA OwnerAlone ==
  ASSUME DispatchInv, NEW p \in Procs
  PROVE  /\ at[p] \in Owning => owner = p /\ \A q \in Procs : q # p => at[q] \notin Owning
         /\ at[p] \in {"diff", "draining"} =>
              hcOwner = p /\ \A q \in Procs : q # p => at[q] \notin {"diff", "draining"}
         /\ owner = Nobody => at[p] \notin Owning
         /\ hcOwner = Nobody => at[p] \notin {"diff", "draining"}
         /\ at[p] \in {"drain", "draining"} => p = Manager
BY DispatchAssumption DEF DispatchInv, LocksOK, PlacesOK, Procs

-----------------------------------------------------------------------------
(***************************************************************************)
(* The administrators.                                                     *)
(***************************************************************************)
LEMMA SaveKeeps ==
  ASSUME DispatchInv, NEW a \in Admins,
         \/ Save(a)
         \/ \E role \in Groups : SaveRelations(a, role)
  PROVE  DispatchInv'
<1>1. /\ TypeOK /\ LocksOK /\ PlacesOK /\ LoopsOK /\ CentreOK /\ ServedOK /\ QuietOK
      /\ CountsOK /\ a \in Procs /\ a # Manager /\ a \notin Loops
  BY DispatchAssumption DEF DispatchInv, Procs
<1>2. /\ UNCHANGED <<snap, owner, draft, hcOwner, members, tasks, probes, told, health,
                     inflight, record, stopped, stopCh, closed, starts, request, history>>
      /\ at[a] \in {"idle", "relations"}
  BY DEF Save, SaveNode, SaveUpstream, Reload, SaveRelations, centre, registry, lifecycle
<1>3. PICK to \in {"check", "relations"} : at' = [at EXCEPT ![a] = to]
  BY DEF Save, SaveNode, SaveUpstream, Reload, SaveRelations
<1>4. db' \in Graphs
  <2>1. ASSUME NEW n \in Nodes, NEW row \in Saves, SaveNode(a, n, row)
        PROVE  db' \in Graphs
    BY <1>1, <2>1, DispatchAssumption DEF SaveNode, TypeOK, Graphs
  <2>2. ASSUME NEW up \in BOOLEAN, SaveUpstream(a, up)
        PROVE  db' \in Graphs
    BY <1>1, <2>2 DEF SaveUpstream, TypeOK, Graphs, Roles
  <2>3. ASSUME NEW role \in Groups, SaveRelations(a, role)
        PROVE  db' \in Graphs
    BY <1>1, <2>3, DispatchAssumption DEF SaveRelations, TypeOK, Graphs
  <2>4. ASSUME Reload(a)
        PROVE  db' \in Graphs
    BY <1>1, <2>4 DEF Reload, tables, TypeOK
  <2> QED BY <2>1, <2>2, <2>3, <2>4 DEF Save
<1>5. /\ at' \in [Procs -> Places] /\ at'[a] = to
      /\ \A q \in Procs : q # a => at'[q] = at[q]
  BY <1>1, <1>3 DEF TypeOK, Places
<1>6. TypeOK'
  BY <1>1, <1>2, <1>4, <1>5 DEF TypeOK
<1>7. LocksOK' /\ PlacesOK' /\ LoopsOK'
  BY <1>1, <1>2, <1>5 DEF LocksOK, PlacesOK, LoopsOK, Owning, Rebuilding, Loops, Procs
<1>8. CentreOK' /\ QuietOK'
  BY <1>1, <1>2, <1>5 DEF CentreOK, QuietOK, Outdated, Rebuilding, Procs
<1>9. ServedOK'
  BY <1>1, <1>5 DEF ServedOK, Coming
<1>10. CountsOK'
  BY <1>1, <1>2, CountsFrame
<1> QED BY <1>6, <1>7, <1>8, <1>9, <1>10 DEF DispatchInv

-----------------------------------------------------------------------------
(***************************************************************************)
(* Rebuild.                                                                *)
(***************************************************************************)
LEMMA RefuseKeeps ==
  ASSUME DispatchInv, NEW p \in Procs, Refuse(p)
  PROVE  DispatchInv'
<1>1. /\ TypeOK /\ LocksOK /\ PlacesOK /\ LoopsOK /\ CentreOK /\ ServedOK /\ QuietOK
      /\ CountsOK /\ at[p] = "check" /\ stopped
  BY DEF DispatchInv, Refuse
<1>2. UNCHANGED <<db, snap, owner, draft, hcOwner, members, tasks, probes, told, health,
                  inflight, record, stopped, starts, request>>
  BY DEF Refuse, tables, centre, registry, lifecycle
<1>3. history' = [history EXCEPT !.failed = TRUE] /\ at' = Back(p, FALSE)
  BY DEF Refuse
<1>4. p # Manager /\ Manager \in Procs /\ at[Manager] \in {"drain", "draining", "down"}
  BY <1>1 DEF PlacesOK, Procs
<1>5. /\ at' \in [Procs -> Places] /\ at'[p] \in {"idle", "gone", "sleep"}
      /\ p \in Admins => at'[p] = "idle"
      /\ p \in Loops => at'[p] \in {"gone", "sleep"}
      /\ \A q \in Procs : q # p => at'[q] = at[q]
  BY <1>1, <1>3, <1>4, BackMoves DEF Procs
<1>6. TypeOK'
  BY <1>1, <1>2, <1>3, <1>5 DEF TypeOK
<1>7. LocksOK' /\ PlacesOK' /\ LoopsOK'
  BY <1>1, <1>2, <1>4, <1>5, DispatchAssumption DEF LocksOK, PlacesOK, LoopsOK, Owning, Rebuilding, Procs
<1>8. CentreOK' /\ QuietOK'
  BY <1>1, <1>2, <1>3, <1>4, <1>5 DEF CentreOK, QuietOK, Outdated, Rebuilding, TypeOK
<1>9. ServedOK'
  BY <1>4, <1>5 DEF ServedOK, Coming
<1>10. CountsOK'
  BY <1>1, <1>2, <1>3, CountsFrame DEF TypeOK
<1> QED BY <1>6, <1>7, <1>8, <1>9, <1>10 DEF DispatchInv

LEMMA CheckKeeps ==
  ASSUME DispatchInv, NEW p \in Procs, Check(p)
  PROVE  DispatchInv'
<1>1. /\ TypeOK /\ LocksOK /\ PlacesOK /\ LoopsOK /\ CentreOK /\ ServedOK /\ QuietOK
      /\ CountsOK /\ at[p] = "check" /\ ~stopped
  BY DEF DispatchInv, Check
<1>2. /\ UNCHANGED <<db, snap, owner, draft, hcOwner, members, tasks, probes, told, health,
                     inflight, record, stopped, starts, request, history>>
      /\ at' = [at EXCEPT ![p] = "lock"]
  BY DEF Check, tables, centre, registry, lifecycle
<1>3. /\ at' \in [Procs -> Places] /\ at'[p] = "lock"
      /\ \A q \in Procs : q # p => at'[q] = at[q]
  BY <1>1, <1>2 DEF TypeOK, Places, Rebuilding
<1>4. TypeOK'
  BY <1>1, <1>2, <1>3 DEF TypeOK
<1>5. LocksOK' /\ PlacesOK' /\ LoopsOK'
  BY <1>1, <1>2, <1>3 DEF LocksOK, PlacesOK, LoopsOK, Owning, Rebuilding, Procs
<1>6. CentreOK' /\ QuietOK'
  BY <1>1, <1>2, <1>3 DEF CentreOK, QuietOK, Outdated
<1>7. ServedOK'
  BY <1>3 DEF ServedOK, Coming
<1>8. CountsOK'
  BY <1>1, <1>2, CountsFrame
<1> QED BY <1>4, <1>5, <1>6, <1>7, <1>8 DEF DispatchInv

LEMMA LockKeeps ==
  ASSUME DispatchInv, NEW p \in Procs, Lock(p)
  PROVE  DispatchInv'
<1>1. /\ TypeOK /\ LocksOK /\ PlacesOK /\ LoopsOK /\ CentreOK /\ ServedOK /\ QuietOK
      /\ CountsOK /\ at[p] = "lock" /\ owner = Nobody
  BY DEF DispatchInv, Lock
<1>2. /\ UNCHANGED <<db, snap, draft, hcOwner, members, tasks, probes, told, health,
                     inflight, record, stopped, starts, request, history>>
      /\ owner' = p /\ at' = [at EXCEPT ![p] = "upstreams"]
  BY DEF Lock, tables, centre, registry, lifecycle
<1>3. /\ at' \in [Procs -> Places] /\ at'[p] = "upstreams"
      /\ \A q \in Procs : q # p => at'[q] = at[q]
  BY <1>1, <1>2 DEF TypeOK, Places, Rebuilding
<1>4. TypeOK'
  BY <1>1, <1>2, <1>3 DEF TypeOK
<1>5. \A q \in Procs : at[q] \notin Owning
  BY <1>1, OwnerAlone
<1>6. LocksOK' /\ PlacesOK' /\ LoopsOK'
  BY <1>1, <1>2, <1>3, <1>5, DispatchAssumption
  DEF LocksOK, PlacesOK, LoopsOK, Owning, Rebuilding, Procs
<1>7. CentreOK' /\ QuietOK'
  BY <1>1, <1>2, <1>3 DEF CentreOK, QuietOK, Outdated, Rebuilding
<1>8. ServedOK'
  BY <1>2, <1>3, <1>5, DispatchAssumption DEF ServedOK, ReadIsFresh
<1>9. CountsOK'
  BY <1>1, <1>2, CountsFrame
<1> QED BY <1>4, <1>6, <1>7, <1>8, <1>9 DEF DispatchInv

LEMMA LoadKeeps ==
  ASSUME DispatchInv, NEW p \in Procs,
         LoadUpstreams(p) \/ LoadNodes(p) \/ LoadRelations(p)
  PROVE  DispatchInv'
<1>1. /\ TypeOK /\ LocksOK /\ PlacesOK /\ LoopsOK /\ CentreOK /\ ServedOK /\ QuietOK
      /\ CountsOK /\ db \in Graphs /\ draft \in Graphs
  BY DEF DispatchInv, TypeOK
<1>2. UNCHANGED <<db, snap, owner, hcOwner, members, tasks, probes, told, health,
                  inflight, record, stopped, starts, request, history>>
  BY DEF LoadUpstreams, LoadNodes, LoadRelations, tables, centre, registry, lifecycle
<1>3. PICK to \in {"nodes", "relate", "build"} :
        at' = [at EXCEPT ![p] = to] /\ at[p] \in {"upstreams", "nodes", "relate"}
  BY DEF LoadUpstreams, LoadNodes, LoadRelations
<1>4. /\ at' \in [Procs -> Places] /\ at'[p] = to
      /\ \A q \in Procs : q # p => at'[q] = at[q]
  BY <1>1, <1>3 DEF TypeOK, Places, Rebuilding
<1>5. draft' \in Graphs /\ (ReadIsFresh(p) => ReadIsFresh(p)')
  <2>1. CASE LoadUpstreams(p)
    BY <1>1, <1>2, <1>4, <2>1 DEF LoadUpstreams, Graphs, ReadIsFresh, TypeOK
  <2>2. CASE LoadNodes(p)
    BY <1>1, <1>2, <1>4, <2>2 DEF LoadNodes, Graphs, ReadIsFresh, TypeOK
  <2>3. CASE LoadRelations(p)
    BY <1>1, <1>2, <1>4, <2>3 DEF LoadRelations, Graphs, ReadIsFresh, TypeOK
  <2> QED BY <2>1, <2>2, <2>3
<1>6. TypeOK'
  BY <1>1, <1>2, <1>4, <1>5 DEF TypeOK
<1>7. owner = p /\ \A q \in Procs : q # p => at[q] \notin Owning
  BY <1>3, OwnerAlone DEF Owning, Rebuilding
<1>8. LocksOK' /\ PlacesOK' /\ LoopsOK'
  BY <1>1, <1>2, <1>3, <1>4 DEF LocksOK, PlacesOK, LoopsOK, Owning, Rebuilding, Procs
<1>9. CentreOK' /\ QuietOK'
  BY <1>1, <1>2, <1>3, <1>4, <1>7 DEF CentreOK, QuietOK, Owning, Rebuilding
<1>10. ServedOK'
  <2>1. Coming => Coming'
    BY <1>3, <1>4 DEF Coming
  <2>2. ReadIsFresh(p) \/ Coming
    BY <1>1, <1>3 DEF ServedOK, Owning, Rebuilding
  <2>3. owner' # Nobody
    BY <1>2, <1>7, DispatchAssumption
  <2> QED BY <1>4, <1>5, <1>7, <2>1, <2>2, <2>3 DEF ServedOK
<1>11. CountsOK'
  BY <1>1, <1>2, CountsFrame
<1> QED BY <1>6, <1>8, <1>9, <1>10, <1>11 DEF DispatchInv

LEMMA GiveUpKeeps ==
  ASSUME DispatchInv, NEW p \in Procs, FailQuery(p) \/ Reject(p)
  PROVE  DispatchInv'
<1>1. /\ TypeOK /\ LocksOK /\ PlacesOK /\ LoopsOK /\ CentreOK /\ ServedOK /\ QuietOK
      /\ CountsOK /\ at[p] \in {"upstreams", "nodes", "relate", "build"}
  BY DEF DispatchInv, FailQuery, Reject
<1>2. UNCHANGED <<db, snap, hcOwner, members, tasks, probes, told, health,
                  inflight, record, stopped, starts, request>>
  BY DEF FailQuery, Reject, tables, centre, registry, lifecycle
<1>3. /\ history' = [history EXCEPT !.failed = TRUE] /\ at' = Back(p, FALSE)
      /\ owner' = Nobody /\ draft' = Blank
  BY DEF FailQuery, Reject, GiveUp
<1>4. /\ at' \in [Procs -> Places] /\ at'[p] \in {"idle", "gone", "sleep", "up"}
      /\ p \in Admins => at'[p] = "idle"
      /\ p \in Loops => at'[p] \in {"gone", "sleep"}
      /\ p = Manager => at'[p] = "up"
      /\ \A q \in Procs : q # p =>
           \/ at'[q] = at[q]
           \/ p = Manager /\ q \in Loops /\ q = starts /\ at[q] = "idle" /\ at'[q] = "sleep"
  BY <1>1, <1>3, BackMoves DEF Procs, Rebuilding
<1>5. owner = p /\ \A q \in Procs : q # p => at[q] \notin Owning
  BY <1>1, OwnerAlone DEF Owning, Rebuilding
<1>6. TypeOK'
  <2>1. Blank \in Graphs
    BY DEF Blank, Graphs, Rows, Roles
  <2> QED BY <1>1, <1>2, <1>3, <1>4, <2>1 DEF TypeOK
<1>7. LocksOK' /\ PlacesOK' /\ LoopsOK'
  <2>1. LocksOK'
    BY <1>1, <1>2, <1>3, <1>4, <1>5, DispatchAssumption DEF LocksOK, Owning, Rebuilding
  <2>2. PlacesOK'
    BY <1>1, <1>2, <1>4, DispatchAssumption DEF PlacesOK, Rebuilding, Procs
  <2>3. LoopsOK'
    BY <1>1, <1>2, <1>4, DispatchAssumption DEF LoopsOK, Rebuilding, Procs, Loops, TypeOK
  <2> QED BY <2>1, <2>2, <2>3
<1>8. CentreOK' /\ QuietOK'
  <2>1. \A q \in Procs : at'[q] \notin {"diff", "centre"}
    BY <1>4, <1>5 DEF Owning, Rebuilding
  <2>2. /\ at'[Manager] = "draining" <=> at[Manager] = "draining"
        /\ \A q \in Procs : at'[q] \in Rebuilding => at[q] \in Rebuilding
        /\ at'[Manager] = "down" <=> at[Manager] = "down"
    BY <1>1, <1>4, DispatchAssumption DEF Rebuilding, Procs
  <2> QED BY <1>1, <1>2, <1>3, <2>1, <2>2 DEF CentreOK, QuietOK, TypeOK
<1>9. ServedOK'
  <2>1. \A q \in Procs : at'[q] \notin Owning
    BY <1>4, <1>5 DEF Owning, Rebuilding
  <2>2. history'.failed = TRUE
    BY <1>1, <1>3 DEF TypeOK
  <2> QED BY <2>1, <2>2 DEF ServedOK
<1>10. CountsOK'
  BY <1>1, <1>2, <1>3, CountsFrame DEF TypeOK
<1> QED BY <1>6, <1>7, <1>8, <1>9, <1>10 DEF DispatchInv

LEMMA StoreKeeps ==
  ASSUME DispatchInv, NEW p \in Procs, Store(p)
  PROVE  DispatchInv'
<1>1. /\ TypeOK /\ LocksOK /\ PlacesOK /\ LoopsOK /\ CentreOK /\ ServedOK /\ QuietOK
      /\ CountsOK /\ at[p] = "build"
  BY DEF DispatchInv, Store
<1>2. /\ UNCHANGED <<db, owner, draft, hcOwner, members, tasks, probes, told, health,
                     inflight, record, stopped, starts, request, history>>
      /\ snap' = draft /\ at' = [at EXCEPT ![p] = "centre"]
  BY DEF Store, tables, centre, registry, lifecycle
<1>3. /\ at' \in [Procs -> Places] /\ at'[p] = "centre"
      /\ \A q \in Procs : q # p => at'[q] = at[q]
  BY <1>1, <1>2 DEF TypeOK, Places, Rebuilding
<1>4. owner = p /\ \A q \in Procs : q # p => at[q] \notin Owning
  BY <1>1, OwnerAlone DEF Owning, Rebuilding
<1>5. TypeOK'
  BY <1>1, <1>2, <1>3 DEF TypeOK
<1>6. LocksOK' /\ PlacesOK' /\ LoopsOK'
  BY <1>1, <1>2, <1>3 DEF LocksOK, PlacesOK, LoopsOK, Owning, Rebuilding, Procs
<1>7. CentreOK' /\ QuietOK'
  BY <1>1, <1>2, <1>3, <1>4 DEF CentreOK, QuietOK, Owning, Rebuilding
<1>8. ServedOK'
  <2>1. Coming => Coming'
    BY <1>1, <1>3 DEF Coming
  <2>2. (ReadIsFresh(p) \/ Coming) /\ (ReadIsFresh(p) => ReadIsFresh(p)')
    BY <1>1, <1>2, <1>3 DEF ServedOK, Owning, Rebuilding, ReadIsFresh
  <2>3. owner' # Nobody
    BY <1>2, <1>4, DispatchAssumption
  <2> QED BY <1>3, <1>4, <2>1, <2>2, <2>3 DEF ServedOK
<1>9. CountsOK'
  BY <1>1, <1>2, CountsFrame
<1> QED BY <1>5, <1>6, <1>7, <1>8, <1>9 DEF DispatchInv

-----------------------------------------------------------------------------
(***************************************************************************)
(* The health centre.                                                      *)
(***************************************************************************)
LEMMA TasksWithout ==
  ASSUME NEW m, NEW n \in DOMAIN m
  PROVE  TasksOf(Without(m, n)) = TasksOf(m) \ {Task(n, m[n])}
<1> DEFINE w == Without(m, n)
<1>1. DOMAIN w = DOMAIN m \ {n} /\ \A k \in DOMAIN w : w[k] = m[k]
  BY DEF Without
<1>2. \A k, l : Task(k, m[k]) = Task(l, m[l]) => k = l
  BY DEF Task
<1> HIDE DEF w
<1>3. TasksOf(w) = TasksOf(m) \ {Task(n, m[n])}
  BY <1>1, <1>2 DEF TasksOf
<1> QED BY <1>3 DEF w

LEMMA TasksWith ==
  ASSUME NEW m, NEW n, n \notin DOMAIN m, NEW row
  PROVE  TasksOf(With(m, n, row)) =
           IF Probed(row) THEN TasksOf(m) \cup {Task(n, row)} ELSE TasksOf(m)
<1> DEFINE w == With(m, n, row)
<1>1. /\ DOMAIN w = DOMAIN m \cup {n} /\ w[n] = row
      /\ \A k \in DOMAIN m : w[k] = m[k]
  BY DEF With
<1> HIDE DEF w
<1>2. TasksOf(w) = IF Probed(row) THEN TasksOf(m) \cup {Task(n, row)} ELSE TasksOf(m)
  BY <1>1 DEF TasksOf
<1> QED BY <1>2 DEF w

LEMMA LockCentreKeeps ==
  ASSUME DispatchInv, NEW p \in Procs, LockCentre(p)
  PROVE  DispatchInv'
<1>1. /\ TypeOK /\ LocksOK /\ PlacesOK /\ LoopsOK /\ CentreOK /\ ServedOK /\ QuietOK
      /\ CountsOK /\ at[p] \in {"centre", "drain"} /\ hcOwner = Nobody
  BY DEF DispatchInv, LockCentre
<1>2. /\ UNCHANGED <<db, snap, owner, draft, members, tasks, probes, told, health,
                     inflight, record, stopped, starts, request, history>>
      /\ hcOwner' = p
      /\ at' = [at EXCEPT ![p] = IF at[p] = "centre" THEN "diff" ELSE "draining"]
  BY DEF LockCentre, tables, registry, lifecycle
<1>3. /\ at' \in [Procs -> Places]
      /\ at'[p] = IF at[p] = "centre" THEN "diff" ELSE "draining"
      /\ \A q \in Procs : q # p => at'[q] = at[q]
  BY <1>1, <1>2 DEF TypeOK, Places, Rebuilding
<1>4. /\ \A q \in Procs : at[q] \notin {"diff", "draining"}
      /\ at[p] = "drain" => p = Manager
  BY <1>1, OwnerAlone
<1>5. TypeOK'
  BY <1>1, <1>2, <1>3 DEF TypeOK
<1>6. LocksOK' /\ PlacesOK' /\ LoopsOK'
  BY <1>1, <1>2, <1>3, <1>4, DispatchAssumption
  DEF LocksOK, PlacesOK, LoopsOK, Owning, Rebuilding, Procs
<1>7. CentreOK' /\ QuietOK'
  BY <1>1, <1>2, <1>3, <1>4, DispatchAssumption DEF CentreOK, QuietOK, Rebuilding, Procs
<1>8. ServedOK'
  <2>1. Coming => Coming'
    BY <1>1, <1>3 DEF Coming
  <2>2. \A q \in Procs : at'[q] \in Owning => at[q] \in Owning
    BY <1>1, <1>3 DEF Owning, Rebuilding
  <2>3. \A q \in Procs : at[q] \in Owning /\ ReadIsFresh(q) => ReadIsFresh(q)'
    BY <1>1, <1>2, <1>3 DEF ReadIsFresh
  <2>4. at[p] = "centre" => owner # Nobody
    BY OwnerAlone DEF Owning, Rebuilding
  <2>5. at[p] = "drain" => Coming'
    BY <1>3 DEF Coming
  <2> QED BY <1>1, <1>2, <2>1, <2>2, <2>3, <2>4, <2>5 DEF ServedOK
<1>9. CountsOK'
  BY <1>1, <1>2, CountsFrame
<1> QED BY <1>5, <1>6, <1>7, <1>8, <1>9 DEF DispatchInv

(***************************************************************************)
(* What goes on within HealthCenter.Rebuild and Stop moves no process.     *)
(***************************************************************************)
LEMMA CentreFrame ==
  ASSUME DispatchInv, UNCHANGED <<db, snap, owner, draft, hcOwner, stopped, at, starts,
                                  request>>,
         history'.failed = history.failed, history'.slipped = history.slipped,
         \/ UNCHANGED members
         \/ \E p \in Procs : at[p] = "diff",
         \/ tasks' \subseteq tasks
         \/ \E p \in Procs : at[p] = "diff"
  PROVE  LocksOK' /\ PlacesOK' /\ LoopsOK' /\ ServedOK' /\ QuietOK'
<1>1. LocksOK /\ PlacesOK /\ LoopsOK /\ ServedOK /\ QuietOK
  BY DEF DispatchInv
<1>2. LocksOK' /\ PlacesOK' /\ LoopsOK'
  BY <1>1 DEF LocksOK, PlacesOK, LoopsOK
<1>3. (\E p \in Procs : at[p] = "diff") => owner # Nobody
  BY OwnerAlone DEF Owning, Rebuilding
<1>4. ServedOK'
  BY <1>1, <1>3 DEF ServedOK, Coming, ReadIsFresh
<1>5. QuietOK'
  BY <1>1 DEF QuietOK, Rebuilding
<1> QED BY <1>2, <1>4, <1>5

LEMMA StopTaskKeeps ==
  ASSUME DispatchInv, NEW p \in Procs, StopTask(p)
  PROVE  DispatchInv'
<1>1. TypeOK /\ CentreOK /\ CountsOK
  BY DEF DispatchInv
<1>2. UNCHANGED <<db, snap, owner, draft, hcOwner, members, tasks, probes, health,
                  inflight, record, stopped, at, starts, request, history>>
  BY DEF StopTask, tables, registry, lifecycle
<1>3. PICK t \in tasks : /\ \/ at[p] = "diff" /\ t.node \in Outdated
                            \/ at[p] = "draining"
                         /\ told = {} /\ told' = {t}
  BY DEF StopTask
<1>4. TypeOK'
  BY <1>1, <1>2, <1>3 DEF TypeOK
<1>5. CentreOK'
  <2>1. hcOwner # Nobody
    BY <1>3, OwnerAlone
  <2>2. \A q \in Procs : at[q] = "diff" => q = p
    BY <1>3, OwnerAlone
  <2> QED BY <1>1, <1>2, <1>3, <2>1, <2>2 DEF CentreOK, Outdated
<1>6. CountsOK'
  BY <1>1, <1>2, CountsFrame
<1> QED BY <1>2, <1>4, <1>5, <1>6, CentreFrame DEF DispatchInv

LEMMA DropKeeps ==
  ASSUME DispatchInv, NEW p \in Procs, Drop(p)
  PROVE  DispatchInv'
<1>1. TypeOK /\ CentreOK /\ CountsOK /\ at[p] = "diff"
  BY DEF DispatchInv, Drop
<1>2. UNCHANGED <<db, snap, owner, draft, hcOwner, probes, stopped, at, starts, request>>
  BY DEF Drop, tables, lifecycle
<1>3. PICK n \in Outdated :
        /\ Task(n, members[n]) \notin probes
        /\ tasks' = tasks \ {Task(n, members[n])}
        /\ told' = told \ {Task(n, members[n])}
        /\ members' = Without(members, n)
        /\ IF n \in DOMAIN Wanted(draft) THEN UNCHANGED <<registry, history>>
                                         ELSE Forget(n)
  BY DEF Drop
<1>4. n \in DOMAIN members /\ n \in Nodes
  BY <1>1 DEF Outdated, TypeOK
<1>5. /\ health' \in [Nodes -> {"none", "unknown", "ok", "bad"}]
      /\ inflight' \in [Nodes -> Nat] /\ record' \in [Nodes -> Nat]
      /\ history' \in [forgot : SUBSET Nodes, kept : SUBSET Nodes, drained : BOOLEAN,
                       failed : BOOLEAN, slipped : BOOLEAN]
      /\ history'.failed = history.failed /\ history'.slipped = history.slipped
  <2>1. CASE UNCHANGED <<registry, history>>
    BY <1>1, <2>1 DEF TypeOK, registry
  <2>2. CASE Forget(n)
    <3>1. /\ health' = [health EXCEPT ![n] = "none"] /\ inflight' = [inflight EXCEPT ![n] = 0]
          /\ record' = [record EXCEPT ![n] = record[n] + 1]
      BY <2>2 DEF Forget
    <3>2. PICK forgot \in SUBSET Nodes :
            history' = [history EXCEPT !.forgot = forgot, !.kept = history.kept \ {n}]
      <4>1. history.forgot \in SUBSET Nodes /\ history.forgot \cup {n} \in SUBSET Nodes
        BY <1>1, <1>4 DEF TypeOK
      <4> QED BY <2>2, <4>1 DEF Forget
    <3>3. history \in [forgot : SUBSET Nodes, kept : SUBSET Nodes, drained : BOOLEAN,
                       failed : BOOLEAN, slipped : BOOLEAN]
      BY <1>1 DEF TypeOK
    <3>4. /\ health \in [Nodes -> {"none", "unknown", "ok", "bad"}]
          /\ inflight \in [Nodes -> Nat] /\ record \in [Nodes -> Nat]
      BY <1>1 DEF TypeOK
    <3>5. /\ health' \in [Nodes -> {"none", "unknown", "ok", "bad"}]
          /\ inflight' \in [Nodes -> Nat] /\ record' \in [Nodes -> Nat]
      BY <1>4, <3>1, <3>4
    <3>6. /\ history' \in [forgot : SUBSET Nodes, kept : SUBSET Nodes, drained : BOOLEAN,
                            failed : BOOLEAN, slipped : BOOLEAN]
          /\ history'.failed = history.failed /\ history'.slipped = history.slipped
      BY <3>2, <3>3
    <3> QED BY <3>5, <3>6
  <2> QED BY <1>3, <2>1, <2>2
<1>6. /\ DOMAIN members' = DOMAIN members \ {n}
      /\ \A k \in DOMAIN members' : members'[k] = members[k]
      /\ members' \in [DOMAIN members' -> Rows]
  BY <1>1, <1>3 DEF Without, TypeOK
<1>7. TypeOK'
  BY <1>1, <1>2, <1>3, <1>5, <1>6 DEF TypeOK
<1>8. CentreOK'
  <2>1. tasks = TasksOf(members) /\ at[Manager] # "draining"
    BY <1>1, OwnerAlone, DispatchAssumption DEF CentreOK, Procs
  <2>2. tasks' = TasksOf(members')
    BY <1>3, <1>4, <2>1, TasksWithout
  <2>3. \A t \in told' : t.node \in Outdated'
    <3>1. SUFFICES ASSUME NEW t \in told'
                   PROVE  t.node \in Outdated'
      OBVIOUS
    <3>2. t \in told /\ t # Task(n, members[n]) /\ t \in TasksOf(members)
      BY <1>1, <1>3, <2>1 DEF CentreOK
    <3>3. t.node \in Outdated /\ t.node # n
      BY <1>1, <3>2 DEF CentreOK, TasksOf, Task
    <3> QED BY <1>2, <1>6, <3>3 DEF Outdated
  <2>4. hcOwner # Nobody
    BY <1>1, OwnerAlone
  <2>5. told' \subseteq tasks' /\ probes' \subseteq tasks' /\ tasks' \ probes' \subseteq told'
    BY <1>1, <1>2, <1>3 DEF CentreOK
  <2> QED BY <1>1, <1>2, <2>2, <2>3, <2>4, <2>5 DEF CentreOK
<1>9. CountsOK'
  <2>1. CASE n \in DOMAIN Wanted(draft)
    BY <1>1, <1>2, <1>3, <2>1, CountsFrame DEF registry
  <2>2. CASE n \notin DOMAIN Wanted(draft)
    <3>1. /\ inflight' = [inflight EXCEPT ![n] = 0]
          /\ record' = [record EXCEPT ![n] = record[n] + 1]
          /\ history'.forgot = IF inflight[n] > 0 \/ About(n) # {}
                               THEN history.forgot \cup {n} ELSE history.forgot
      BY <1>1, <1>3, <2>2 DEF Forget, TypeOK
    <3>2. \A k \in Nodes : On(k)' = On(k) /\ Cardinality(On(k)) \in Nat
      <4>1. \A k \in Nodes : IsFiniteSet(On(k))
        BY DispatchAssumption, FS_Subset DEF On
      <4> QED BY <1>2, <4>1, FS_CardinalityType DEF On
    <3>3. InflightCounts'
      BY <1>1, <1>4, <3>1, <3>2 DEF CountsOK, InflightCounts, TypeOK
    <3>4. FoundOK'
      <4>1. SUFFICES ASSUME NEW r \in Requests, request[r].at = "found",
                            request[r].node \notin history'.forgot
                     PROVE  request[r].record = record'[request[r].node]
        BY <1>2 DEF FoundOK
      <4>2. request[r].node # n
        BY <3>1, <4>1 DEF About
      <4> QED BY <1>1, <1>4, <3>1, <4>1, <4>2 DEF CountsOK, FoundOK, TypeOK
    <3> QED BY <3>3, <3>4 DEF CountsOK
  <2> QED BY <2>1, <2>2
<1> QED BY <1>1, <1>2, <1>5, <1>7, <1>8, <1>9, CentreFrame DEF DispatchInv

LEMMA RegisterKeeps ==
  ASSUME DispatchInv, NEW p \in Procs, Register(p)
  PROVE  DispatchInv'
<1>1. TypeOK /\ CentreOK /\ CountsOK /\ at[p] = "diff" /\ Outdated = {}
  BY DEF DispatchInv, Register
<1>2. UNCHANGED <<db, snap, owner, draft, hcOwner, told, inflight, record, stopped, at, starts,
                  request, history>>
  BY DEF Register, tables, lifecycle
<1> DEFINE row(n) == Wanted(draft)[n]
<1>3. PICK n \in DOMAIN Wanted(draft) \ DOMAIN members :
        /\ members' = With(members, n, row(n))
        /\ IF Probed(row(n))
           THEN /\ tasks' = tasks \cup {Task(n, row(n))}
                /\ probes' = probes \cup {Task(n, row(n))}
                /\ Ensure(n, "unknown")
           ELSE /\ SetHealth(n, "ok")
                /\ UNCHANGED <<tasks, probes>>
  BY DEF Register
<1>4. n \in Nodes /\ row(n) \in Rows /\ Task(n, row(n)) \in Tasks
  BY <1>1, <1>3 DEF Wanted, Related, TypeOK, Graphs, Task, Tasks, Rows
<1> DEFINE new == row(n)
<1>5. /\ members' = With(members, n, new) /\ new = Wanted(draft)[n] /\ new \in Rows
      /\ Task(n, new) \in Tasks
      /\ IF Probed(new)
         THEN /\ tasks' = tasks \cup {Task(n, new)} /\ probes' = probes \cup {Task(n, new)}
              /\ Ensure(n, "unknown")
         ELSE SetHealth(n, "ok") /\ UNCHANGED <<tasks, probes>>
  BY <1>3, <1>4
<1> HIDE DEF new, row
<1>6. health' \in [Nodes -> {"none", "unknown", "ok", "bad"}]
  BY <1>1, <1>5 DEF Ensure, SetHealth, TypeOK
<1>7. /\ DOMAIN members' = DOMAIN members \cup {n} /\ members'[n] = new
      /\ \A k \in DOMAIN members : members'[k] = members[k]
      /\ members' \in [DOMAIN members' -> Rows]
  BY <1>1, <1>3, <1>5 DEF With, TypeOK
<1>8. TypeOK'
  BY <1>1, <1>2, <1>4, <1>5, <1>6, <1>7 DEF TypeOK
<1>9. CentreOK'
  <2>1. tasks = TasksOf(members) /\ at[Manager] # "draining"
    BY <1>1, OwnerAlone, DispatchAssumption DEF CentreOK, Procs
  <2>2. tasks' = TasksOf(members')
    <3>1. TasksOf(With(members, n, new)) =
            IF Probed(new) THEN TasksOf(members) \cup {Task(n, new)} ELSE TasksOf(members)
      BY <1>3, TasksWith
    <3> QED BY <1>5, <2>1, <3>1
  <2>3. told = {} /\ hcOwner # Nobody
    BY <1>1, OwnerAlone DEF CentreOK
  <2>4. told' \subseteq tasks' /\ probes' \subseteq tasks' /\ tasks' \ probes' \subseteq told'
    BY <1>1, <1>2, <1>5 DEF CentreOK
  <2> QED BY <1>1, <1>2, <2>2, <2>3, <2>4 DEF CentreOK
<1>10. CountsOK'
  BY <1>1, <1>2, CountsFrame
<1> QED BY <1>1, <1>2, <1>8, <1>9, <1>10, CentreFrame DEF DispatchInv

LEMMA FinishKeeps ==
  ASSUME DispatchInv, NEW p \in Procs, Finish(p)
  PROVE  DispatchInv'
<1>1. /\ TypeOK /\ LocksOK /\ PlacesOK /\ LoopsOK /\ CentreOK /\ ServedOK /\ QuietOK
      /\ CountsOK /\ at[p] = "diff" /\ members = Wanted(draft)
  BY DEF DispatchInv, Finish
<1>2. UNCHANGED <<db, snap, members, tasks, probes, told, health, inflight, record, stopped,
                  starts, request>>
  BY DEF Finish, tables, registry, lifecycle
<1>3. /\ history' = [history EXCEPT !.drained = FALSE, !.failed = FALSE]
      /\ at' = Back(p, TRUE)
      /\ hcOwner' = Nobody /\ owner' = Nobody /\ draft' = Blank
  BY DEF Finish
<1>4. /\ at' \in [Procs -> Places] /\ at'[p] \in {"idle", "gone", "sleep", "up"}
      /\ p \in Admins => at'[p] = "idle"
      /\ p \in Loops => at'[p] \in {"gone", "sleep"}
      /\ p = Manager => at'[p] = "up"
      /\ \A q \in Procs : q # p => at'[q] = at[q]
  BY <1>1, <1>3, BackMoves DEF Procs, Rebuilding
<1>5. /\ \A q \in Procs : q # p => at[q] \notin Owning /\ at[q] # "draining"
      /\ at[Manager] # "draining"
  BY <1>1, OwnerAlone, DispatchAssumption DEF Owning, Rebuilding, Procs
<1>6. TypeOK'
  <2>1. Blank \in Graphs
    BY DEF Blank, Graphs, Rows, Roles
  <2> QED BY <1>1, <1>2, <1>3, <1>4, <2>1 DEF TypeOK
<1>7. LocksOK' /\ PlacesOK' /\ LoopsOK'
  <2>1. LocksOK'
    BY <1>1, <1>2, <1>3, <1>4, <1>5, DispatchAssumption DEF LocksOK, Owning, Rebuilding
  <2>2. PlacesOK'
    BY <1>1, <1>2, <1>4, DispatchAssumption DEF PlacesOK, Rebuilding, Procs
  <2>3. LoopsOK'
    BY <1>1, <1>2, <1>4, DispatchAssumption DEF LoopsOK, Rebuilding, Procs, Loops, TypeOK
  <2> QED BY <2>1, <2>2, <2>3
<1>8. CentreOK' /\ QuietOK'
  <2>1. \A q \in Procs : at'[q] \notin {"diff", "centre"}
    BY <1>4, <1>5 DEF Owning, Rebuilding
  <2>2. Outdated = {} /\ told = {}
    BY <1>1 DEF Outdated, CentreOK
  <2>3. tasks = TasksOf(members)
    BY <1>1, <1>5 DEF CentreOK
  <2>4. QuietOK'
    BY <1>1, <1>2, <1>3, <1>4 DEF QuietOK, Rebuilding, TypeOK
  <2> QED BY <1>1, <1>2, <2>1, <2>2, <2>3, <2>4 DEF CentreOK
<1>9. ServedOK'
  <2>1. \A q \in Procs : at'[q] \notin Owning
    BY <1>4, <1>5 DEF Owning, Rebuilding
  <2>2. Coming => Coming'
    BY <1>1, <1>4 DEF Coming
  <2>3. ReadIsFresh(p) => snap' = db' /\ members' = Wanted(db')
    BY <1>1, <1>2 DEF ReadIsFresh, CentreOK
  <2>4. ReadIsFresh(p) \/ Coming
    BY <1>1 DEF ServedOK, Owning, Rebuilding
  <2> QED BY <2>1, <2>2, <2>3, <2>4 DEF ServedOK
<1>10. CountsOK'
  BY <1>1, <1>2, <1>3, CountsFrame DEF TypeOK
<1> QED BY <1>6, <1>7, <1>8, <1>9, <1>10 DEF DispatchInv

LEMMA ProbeKeeps ==
  ASSUME DispatchInv, NEW t \in probes, Probe(t) \/ EndProbe(t)
  PROVE  DispatchInv'
<1>1. TypeOK /\ CentreOK /\ CountsOK
  BY DEF DispatchInv
<1>2. UNCHANGED <<db, snap, owner, draft, hcOwner, members, tasks, told, inflight, record, stopped,
                  at, starts, request, history>>
  BY DEF Probe, EndProbe, tables, centre, registry, lifecycle
<1>3. probes' = probes \/ (t \in told /\ probes' = probes \ {t})
  BY DEF Probe, EndProbe, centre
<1>4. health' \in [Nodes -> {"none", "unknown", "ok", "bad"}]
  BY <1>1, DispatchAssumption DEF Probe, EndProbe, SetHealth, registry, TypeOK
<1>5. TypeOK'
  BY <1>1, <1>2, <1>3, <1>4 DEF TypeOK
<1>6. CentreOK'
  BY <1>1, <1>2, <1>3 DEF CentreOK, Outdated
<1>7. CountsOK'
  BY <1>1, <1>2, CountsFrame
<1> QED BY <1>2, <1>5, <1>6, <1>7, CentreFrame DEF DispatchInv

-----------------------------------------------------------------------------
(***************************************************************************)
(* Start, Stop and the retry loops.                                        *)
(***************************************************************************)
LEMMA StartKeeps ==
  ASSUME DispatchInv, Start
  PROVE  DispatchInv'
<1>1. /\ TypeOK /\ LocksOK /\ PlacesOK /\ LoopsOK /\ CentreOK /\ ServedOK /\ QuietOK
      /\ CountsOK /\ at[Manager] \in {"down", "up"} /\ starts < MaxStarts
      /\ Manager \in Procs
  BY DEF DispatchInv, Start, Procs
<1>2. /\ UNCHANGED <<db, snap, owner, draft, hcOwner, members, tasks, probes, told, health,
                     inflight, record, request>>
      /\ stopped' = FALSE /\ starts' = starts + 1
      /\ at' = [at EXCEPT ![Manager] = "check"]
      /\ history' = [history EXCEPT !.slipped = FALSE]
  BY DEF Start, tables, centre, registry
<1>3. /\ at' \in [Procs -> Places] /\ at'[Manager] = "check"
      /\ \A q \in Procs : q # Manager => at'[q] = at[q]
  BY <1>1, <1>2 DEF TypeOK, Places
<1>4. starts' \in Loops /\ starts' \in 0 .. MaxStarts
  <2>1. starts \in 0 .. MaxStarts /\ MaxStarts \in Nat
    BY <1>1, DispatchAssumption DEF TypeOK
  <2> QED BY <1>1, <1>2, <2>1 DEF Loops
<1>5. TypeOK'
  BY <1>1, <1>2, <1>3, <1>4 DEF TypeOK
<1>6. LocksOK' /\ PlacesOK'
  BY <1>1, <1>2, <1>3, DispatchAssumption DEF LocksOK, PlacesOK, Owning, Rebuilding
<1>7. LoopsOK'
  <2>1. starts \in Int /\ \A l \in Loops : l \in Int
    BY <1>1 DEF TypeOK, Loops
  <2>2. \A l \in Loops : l > starts => at'[l] = "idle"
    BY <1>1, <1>3, DispatchAssumption DEF LoopsOK, Procs
  <2> QED BY <1>2, <1>3, <1>4, <2>1, <2>2 DEF LoopsOK
<1>8. CentreOK' /\ QuietOK'
  BY <1>1, <1>2, <1>3 DEF CentreOK, QuietOK, Outdated
<1>9. ServedOK'
  BY <1>1, <1>3 DEF ServedOK, Coming
<1>10. CountsOK'
  BY <1>1, <1>2, CountsFrame DEF TypeOK
<1> QED BY <1>5, <1>6, <1>7, <1>8, <1>9, <1>10 DEF DispatchInv

LEMMA StopKeeps ==
  ASSUME DispatchInv, Stop
  PROVE  DispatchInv'
<1>1. /\ TypeOK /\ LocksOK /\ PlacesOK /\ LoopsOK /\ CentreOK /\ ServedOK /\ QuietOK
      /\ CountsOK /\ at[Manager] = "up" /\ Manager \in Procs
  BY DEF DispatchInv, Stop, Procs
<1>2. /\ UNCHANGED <<db, snap, owner, draft, hcOwner, members, tasks, probes, told, health,
                     inflight, record, starts, request>>
      /\ stopped' = TRUE /\ at' = [at EXCEPT ![Manager] = "drain"]
      /\ history' = [history EXCEPT !.slipped = \E p \in Procs : at[p] \in Rebuilding]
  BY DEF Stop, tables, centre, registry
<1>3. /\ at' \in [Procs -> Places] /\ at'[Manager] = "drain"
      /\ \A q \in Procs : q # Manager => at'[q] = at[q]
  BY <1>1, <1>2 DEF TypeOK, Places
<1>4. /\ history' \in [forgot : SUBSET Nodes, kept : SUBSET Nodes, drained : BOOLEAN,
                       failed : BOOLEAN, slipped : BOOLEAN]
      /\ history'.forgot = history.forgot
      /\ history'.slipped <=> \E p \in Procs : at[p] \in Rebuilding
  <2> DEFINE late == \E p \in Procs : at[p] \in Rebuilding
  <2>1. history' = [history EXCEPT !.slipped = late] /\ late \in BOOLEAN
    BY <1>2
  <2> HIDE DEF late
  <2>2. history'.slipped = late
    BY <1>1, <2>1 DEF TypeOK
  <2>3. /\ history' \in [forgot : SUBSET Nodes, kept : SUBSET Nodes, drained : BOOLEAN,
                         failed : BOOLEAN, slipped : BOOLEAN]
        /\ history'.forgot = history.forgot
    BY <1>1, <2>1 DEF TypeOK
  <2> QED BY <2>2, <2>3 DEF late
<1>5. TypeOK'
  BY <1>1, <1>2, <1>3, <1>4 DEF TypeOK
<1>6. LocksOK' /\ PlacesOK' /\ LoopsOK'
  BY <1>1, <1>2, <1>3, DispatchAssumption
  DEF LocksOK, PlacesOK, LoopsOK, Owning, Rebuilding, Procs
<1>7. CentreOK'
  BY <1>1, <1>2, <1>3 DEF CentreOK, Outdated
<1>8. QuietOK'
  BY <1>3, <1>4 DEF QuietOK, Rebuilding
<1>9. ServedOK'
  BY <1>1, <1>3 DEF ServedOK, Coming
<1>10. CountsOK'
  BY <1>1, <1>2, <1>4, CountsFrame
<1> QED BY <1>5, <1>6, <1>7, <1>8, <1>9, <1>10 DEF DispatchInv

LEMMA DropTaskKeeps ==
  ASSUME DispatchInv, DropTask
  PROVE  DispatchInv'
<1>1. TypeOK /\ CentreOK /\ CountsOK /\ at[Manager] = "draining" /\ Manager \in Procs
  BY DEF DispatchInv, DropTask, Procs
<1>2. UNCHANGED <<db, snap, owner, draft, hcOwner, members, probes, health, inflight, record,
                  stopped, at, starts, request, history>>
  BY DEF DropTask, tables, registry, lifecycle
<1>3. PICK t \in told \ probes : tasks' = tasks \ {t} /\ told' = told \ {t}
  BY DEF DropTask
<1>4. TypeOK'
  BY <1>1, <1>2, <1>3 DEF TypeOK
<1>5. CentreOK'
  <2>1. hcOwner # Nobody /\ \A q \in Procs : at[q] # "diff"
    BY <1>1, OwnerAlone
  <2> QED BY <1>1, <1>2, <1>3, <2>1 DEF CentreOK
<1>6. CountsOK'
  BY <1>1, <1>2, CountsFrame
<1> QED BY <1>2, <1>3, <1>4, <1>5, <1>6, CentreFrame DEF DispatchInv

LEMMA DrainedKeeps ==
  ASSUME DispatchInv, Drained
  PROVE  DispatchInv'
<1>1. /\ TypeOK /\ LocksOK /\ PlacesOK /\ LoopsOK /\ CentreOK /\ ServedOK /\ QuietOK
      /\ CountsOK /\ at[Manager] = "draining" /\ tasks = {} /\ Manager \in Procs
  BY DEF DispatchInv, Drained, Procs
<1>2. /\ UNCHANGED <<db, snap, owner, draft, tasks, probes, told, health, inflight, record, stopped,
                     starts, request>>
      /\ members' = <<>> /\ hcOwner' = Nobody
      /\ at' = [at EXCEPT ![Manager] = "down"]
  BY DEF Drained, tables, registry, lifecycle
<1>3. /\ at' \in [Procs -> Places] /\ at'[Manager] = "down"
      /\ \A q \in Procs : q # Manager => at'[q] = at[q]
  BY <1>1, <1>2 DEF TypeOK, Places
<1>4. \A q \in Procs : at'[q] \notin {"diff", "draining"}
  BY <1>1, <1>3, OwnerAlone
<1>5. /\ history' \in [forgot : SUBSET Nodes, kept : SUBSET Nodes, drained : BOOLEAN,
                       failed : BOOLEAN, slipped : BOOLEAN]
      /\ history'.forgot = history.forgot /\ history'.slipped = history.slipped
  <2> DEFINE known == {n \in Nodes : health[n] # "none"}
  <2>1. history' = [history EXCEPT !.drained = TRUE, !.kept = known] /\ known \subseteq Nodes
    BY DEF Drained
  <2> HIDE DEF known
  <2> QED BY <1>1, <2>1 DEF TypeOK
<1>6. DOMAIN members' = {} /\ members' \in [DOMAIN members' -> Rows]
  BY <1>2
<1>7. TypeOK'
  BY <1>1, <1>2, <1>3, <1>5, <1>6 DEF TypeOK
<1>8. LocksOK' /\ PlacesOK' /\ LoopsOK'
  BY <1>1, <1>2, <1>3, <1>4, DispatchAssumption
  DEF LocksOK, PlacesOK, LoopsOK, Owning, Rebuilding, Procs
<1>9. CentreOK'
  <2>1. told = {} /\ probes = {} /\ TasksOf(members') = {}
    BY <1>1, <1>6 DEF CentreOK, TasksOf
  <2> QED BY <1>1, <1>2, <1>3, <1>4, <2>1 DEF CentreOK
<1>10. QuietOK'
  BY <1>1, <1>2, <1>3, <1>5 DEF QuietOK, Rebuilding
<1>11. ServedOK'
  BY <1>1, <1>3 DEF ServedOK, Coming
<1>12. CountsOK'
  BY <1>1, <1>2, <1>5, CountsFrame
<1> QED BY <1>7, <1>8, <1>9, <1>10, <1>11, <1>12 DEF DispatchInv

LEMMA LoopKeeps ==
  ASSUME DispatchInv, NEW l \in Loops, Tick(l) \/ EndLoop(l)
  PROVE  DispatchInv'
<1>1. /\ TypeOK /\ LocksOK /\ PlacesOK /\ LoopsOK /\ CentreOK /\ ServedOK /\ QuietOK
      /\ CountsOK /\ at[l] = "sleep" /\ l \in Procs /\ l # Manager /\ l \notin Admins
      /\ Manager \in Procs
  BY DispatchAssumption DEF DispatchInv, Tick, EndLoop, Procs
<1>2. UNCHANGED <<db, snap, owner, draft, hcOwner, members, tasks, probes, told, health,
                  inflight, record, stopped, starts, request, history>>
  BY DEF Tick, EndLoop, tables, centre, registry, lifecycle
<1>3. PICK to \in {"check", "gone"} : at' = [at EXCEPT ![l] = to]
  BY DEF Tick, EndLoop
<1>4. /\ at' \in [Procs -> Places] /\ at'[l] = to
      /\ \A q \in Procs : q # l => at'[q] = at[q]
  BY <1>1, <1>3 DEF TypeOK, Places
<1>5. TypeOK'
  BY <1>1, <1>2, <1>4 DEF TypeOK
<1>6. LocksOK' /\ PlacesOK' /\ LoopsOK'
  BY <1>1, <1>2, <1>4 DEF LocksOK, PlacesOK, LoopsOK, Owning, Rebuilding, Procs
<1>7. CentreOK' /\ QuietOK'
  BY <1>1, <1>2, <1>4 DEF CentreOK, QuietOK, Outdated, Rebuilding
<1>8. ServedOK'
  <2>1. Coming => Coming'
    BY <1>1, <1>4 DEF Coming
  <2>2. \A q \in Procs : at'[q] \in Owning => q # l
    BY <1>4 DEF Owning, Rebuilding
  <2> QED BY <1>1, <1>2, <1>4, <2>1, <2>2 DEF ServedOK, ReadIsFresh
<1>9. CountsOK'
  BY <1>1, <1>2, CountsFrame
<1> QED BY <1>5, <1>6, <1>7, <1>8, <1>9 DEF DispatchInv

-----------------------------------------------------------------------------
(***************************************************************************)
(* Requests change nothing but the count of their node.                    *)
(***************************************************************************)
LEMMA ChoicesAreNodes ==
  ASSUME NEW g, NEW cookie, NEW n \in Choices(g, cookie)
  PROVE  n \in Nodes
BY DEF Choices, Healthy, Pick, Least

LEMMA RequestKeeps ==
  ASSUME DispatchInv, NEW r \in Requests,
         Choose(r) \/ Find(r) \/ Count(r) \/ Respond(r) \/ Interrupt(r)
  PROVE  DispatchInv'
<1>1. /\ TypeOK /\ LocksOK /\ PlacesOK /\ LoopsOK /\ CentreOK /\ ServedOK /\ QuietOK
      /\ InflightCounts /\ FoundOK
  BY DEF DispatchInv, CountsOK
<1>2. UNCHANGED <<db, snap, owner, draft, hcOwner, members, tasks, probes, told, stopped,
                  record, at, starts, history>>
  BY DEF Choose, Find, Count, Respond, Interrupt, tables, centre, registry, lifecycle
<1>3. LocksOK' /\ PlacesOK' /\ LoopsOK' /\ CentreOK' /\ ServedOK' /\ QuietOK'
  BY <1>1, <1>2
  DEF LocksOK, PlacesOK, LoopsOK, CentreOK, ServedOK, QuietOK, Outdated, Coming, ReadIsFresh
<1>4. \A n : IsFiniteSet(On(n)) /\ Cardinality(On(n)) \in Nat
  <2>1. \A n : IsFiniteSet(On(n))
    BY DispatchAssumption, FS_Subset DEF On
  <2> QED BY <2>1, FS_CardinalityType
<1>5. request \in [Requests -> [at : {"new", "chosen", "found", "counted", "lost"},
                                node : Nodes \cup {NoNode}, record : Nat]]
  BY <1>1 DEF TypeOK
<1>6. CASE Choose(r)
  <2>1. PICK n \in Nodes :
          request' = [request EXCEPT ![r] = [at |-> "chosen", node |-> n, record |-> 0]]
    BY <1>6, ChoicesAreNodes DEF Choose
  <2>2. request[r].at = "new" /\ UNCHANGED <<health, inflight>>
    BY <1>6 DEF Choose, registry
  <2>3. TypeOK'
    BY <1>1, <1>2, <2>1, <2>2 DEF TypeOK
  <2>4. \A k : On(k)' = On(k)
    BY <1>5, <2>1, <2>2 DEF On
  <2>5. InflightCounts'
    BY <1>1, <1>2, <2>2, <2>4 DEF InflightCounts
  <2>6. FoundOK'
    BY <1>1, <1>2, <1>5, <2>1 DEF FoundOK
  <2> QED BY <1>3, <2>3, <2>5, <2>6 DEF DispatchInv, CountsOK
<1>7. CASE Interrupt(r)
  <2>1. /\ request[r].at = "counted" /\ UNCHANGED <<health, inflight>>
        /\ request' = [request EXCEPT ![r].at = "lost"]
    BY <1>7 DEF Interrupt, registry
  <2>2. TypeOK'
    BY <1>1, <1>2, <2>1 DEF TypeOK
  <2>3. \A k : On(k)' = On(k)
    BY <1>5, <2>1 DEF On
  <2>4. InflightCounts'
    BY <1>1, <1>2, <2>1, <2>3 DEF InflightCounts
  <2>5. FoundOK'
    BY <1>1, <1>2, <1>5, <2>1 DEF FoundOK
  <2> QED BY <1>3, <2>2, <2>4, <2>5 DEF DispatchInv, CountsOK
<1>10. CASE Find(r)
  <2> DEFINE n == request[r].node
  <2>1. /\ request[r].at = "chosen" /\ n \in Nodes /\ inflight' = inflight
        /\ request' = [request EXCEPT ![r].at = "found", ![r].record = record[n]]
        /\ health' = [health EXCEPT ![n] = IF @ = "none" THEN "unknown" ELSE @]
    BY <1>1, <1>10 DEF Find, TypeOK
  <2>2. TypeOK'
    <3>1. record[n] \in Nat
      BY <1>1, <2>1 DEF TypeOK
    <3>2. request' \in [Requests -> [at : {"new", "chosen", "found", "counted", "lost"},
                                     node : Nodes \cup {NoNode}, record : Nat]]
      BY <1>5, <2>1, <3>1
    <3>3. \A q \in Requests : request'[q].at # "new" => request'[q].node \in Nodes
      BY <1>1, <1>5, <2>1 DEF TypeOK
    <3>4. health' \in [Nodes -> {"none", "unknown", "ok", "bad"}]
      BY <1>1, <2>1 DEF TypeOK
    <3> QED BY <1>1, <1>2, <2>1, <3>2, <3>3, <3>4 DEF TypeOK
  <2>3. \A k : On(k)' = On(k)
    BY <1>5, <2>1 DEF On
  <2>4. InflightCounts'
    BY <1>1, <1>2, <2>1, <2>3 DEF InflightCounts
  <2>5. FoundOK'
    BY <1>1, <1>2, <1>5, <2>1 DEF FoundOK
  <2> QED BY <1>3, <2>2, <2>4, <2>5 DEF DispatchInv, CountsOK
<1>8. CASE Count(r)
  <2> DEFINE n == request[r].node
  <2>1. /\ request[r].at = "found" /\ n \in Nodes /\ health' = health
        /\ request' = [request EXCEPT ![r].at = "counted"]
        /\ inflight' = [inflight EXCEPT ![n] =
                          IF request[r].record = record[n] THEN @ + 1 ELSE @]
    BY <1>1, <1>8 DEF Count, IncInflight, TypeOK
  <2>2. TypeOK'
    BY <1>1, <1>2, <2>1 DEF TypeOK
  <2>3. On(n)' = On(n) \cup {r} /\ r \notin On(n) /\ \A k : k # n => On(k)' = On(k)
    BY <1>5, <2>1 DEF On
  <2>4. Cardinality(On(n)') = Cardinality(On(n)) + 1
    BY <1>4, <2>3, FS_AddElement
  <2>5. n \notin history.forgot => request[r].record = record[n]
    BY <1>1, <2>1 DEF FoundOK
  <2>6. InflightCounts'
    BY <1>1, <1>2, <1>4, <2>1, <2>3, <2>4, <2>5 DEF InflightCounts, TypeOK
  <2>7. FoundOK'
    BY <1>1, <1>2, <1>5, <2>1 DEF FoundOK
  <2> QED BY <1>3, <2>2, <2>6, <2>7 DEF DispatchInv, CountsOK
<1>9. CASE Respond(r)
  <2>0. PICK n \in Nodes : n = request[r].node
    BY <1>1, <1>9 DEF Respond, TypeOK
  <2>1. /\ request[r].at = "counted" /\ n = request[r].node /\ health' = health
        /\ request' = [request EXCEPT ![r] = NoRequest]
        /\ inflight' = [inflight EXCEPT ![n] = IF inflight[n] > 0 THEN inflight[n] - 1 ELSE inflight[n]]
    BY <1>9, <2>0 DEF Respond, DecInflight
  <2>2. TypeOK'
    BY <1>1, <1>2, <2>1 DEF TypeOK, NoRequest
  <2>3. On(n)' = On(n) \ {r} /\ r \in On(n) /\ \A k \in Nodes : k # n => On(k)' = On(k)
    BY <1>5, <2>1, DispatchAssumption DEF On, NoRequest
  <2>4. Cardinality(On(n)') = Cardinality(On(n)) - 1 /\ Cardinality(On(n)') \in Nat
    <3>1. IsFiniteSet(On(n)) /\ r \in On(n) /\ On(n)' = On(n) \ {r}
      BY <1>4, <2>3
    <3>2. Cardinality(On(n) \ {r}) = Cardinality(On(n)) - 1 /\ IsFiniteSet(On(n) \ {r})
      BY <3>1, FS_RemoveElement
    <3> QED BY <3>1, <3>2, FS_CardinalityType
  <2>5. InflightCounts'
    <3>1. /\ inflight \in [Nodes -> Nat] /\ history' = history
          /\ inflight'[n] = IF inflight[n] > 0 THEN inflight[n] - 1 ELSE inflight[n]
          /\ \A k \in Nodes : k # n => inflight'[k] = inflight[k]
      BY <1>1, <1>2, <2>1 DEF TypeOK
    <3>2. /\ inflight'[n] <= Cardinality(On(n)')
          /\ n \notin history.forgot => inflight'[n] = Cardinality(On(n)')
      BY <1>1, <1>4, <2>4, <3>1 DEF InflightCounts
    <3>3. ASSUME NEW k \in Nodes, k # n
          PROVE  /\ inflight'[k] <= Cardinality(On(k)')
                 /\ k \notin history.forgot => inflight'[k] = Cardinality(On(k)')
      BY <1>1, <2>3, <3>1, <3>3 DEF InflightCounts
    <3> QED BY <3>1, <3>2, <3>3 DEF InflightCounts
  <2>6. FoundOK'
    BY <1>1, <1>2, <1>5, <2>1 DEF FoundOK, NoRequest
  <2> QED BY <1>3, <2>2, <2>5, <2>6 DEF DispatchInv, CountsOK
<1> QED BY <1>6, <1>7, <1>8, <1>9, <1>10

-----------------------------------------------------------------------------
LEMMA DispatchInit == Init => DispatchInv
<1> SUFFICES ASSUME Init PROVE DispatchInv
  OBVIOUS
<1>1. /\ at \in [Procs -> Places] /\ Manager \in Procs /\ at[Manager] = "down"
      /\ \A p \in Procs : p # Manager => at[p] = "idle"
  BY DEF Init, Procs, Places
<1>2. TypeOK
  <2>1. Blank \in Graphs
    BY DEF Blank, Graphs, Rows, Roles
  <2>2. DOMAIN members = {} /\ members \in [DOMAIN members -> Rows]
    BY DEF Init
  <2>3. history \in [forgot : SUBSET Nodes, kept : SUBSET Nodes, drained : BOOLEAN,
                     failed : BOOLEAN, slipped : BOOLEAN]
    BY DEF Init
  <2>4. starts \in 0 .. MaxStarts
    BY DispatchAssumption DEF Init
  <2> QED BY <1>1, <2>1, <2>2, <2>3, <2>4, DispatchAssumption DEF Init, TypeOK, NoRequest
<1>3. LocksOK /\ PlacesOK /\ LoopsOK
  BY <1>1, DispatchAssumption DEF Init, LocksOK, PlacesOK, LoopsOK, Owning, Rebuilding, Procs
<1>4. CentreOK
  <2>1. TasksOf(members) = {}
    BY DEF Init, TasksOf
  <2> QED BY <1>1, <2>1 DEF Init, CentreOK
<1>5. ServedOK /\ QuietOK
  BY <1>1 DEF Init, ServedOK, QuietOK, Coming, Owning, Rebuilding
<1>6. CountsOK
  <2>1. \A n \in Nodes : On(n) = {}
    BY DEF Init, On, NoRequest
  <2>2. \A n \in Nodes : Cardinality(On(n)) = 0 /\ inflight[n] = 0
    BY <2>1, FS_EmptySet DEF Init
  <2>3. FoundOK
    BY DEF Init, FoundOK, NoRequest
  <2> QED BY <2>2, <2>3 DEF CountsOK, InflightCounts
<1> QED BY <1>2, <1>3, <1>4, <1>5, <1>6 DEF DispatchInv

LEMMA DispatchStep ==
  ASSUME DispatchInv, [Next]_vars
  PROVE  DispatchInv'
<1>1. ASSUME NEW a \in Admins, Save(a) \/ \E role \in Groups : SaveRelations(a, role)
      PROVE  DispatchInv'
  BY <1>1, SaveKeeps
<1>2. ASSUME NEW p \in Procs, Rebuild(p) \/ LockCentre(p)
      PROVE  DispatchInv'
  BY <1>2, RefuseKeeps, CheckKeeps, LockKeeps, LoadKeeps, GiveUpKeeps, StoreKeeps,
     StopTaskKeeps, DropKeeps, RegisterKeeps, FinishKeeps, LockCentreKeeps
  DEF Rebuild
<1>3. ASSUME NEW t \in probes, Probe(t) \/ EndProbe(t)
      PROVE  DispatchInv'
  BY <1>3, ProbeKeeps
<1>4. CASE Start \/ Stop \/ DropTask \/ Drained
  BY <1>4, StartKeeps, StopKeeps, DropTaskKeeps, DrainedKeeps
<1>5. ASSUME NEW l \in Loops, Tick(l) \/ EndLoop(l)
      PROVE  DispatchInv'
  BY <1>5, LoopKeeps
<1>6. ASSUME NEW r \in Requests,
             Choose(r) \/ Find(r) \/ Count(r) \/ Respond(r) \/ Interrupt(r)
      PROVE  DispatchInv'
  BY <1>6, RequestKeeps
<1>7. CASE UNCHANGED vars
  <2>1. /\ TypeOK /\ LocksOK /\ PlacesOK /\ LoopsOK /\ CentreOK /\ ServedOK /\ QuietOK
        /\ CountsOK
    BY DEF DispatchInv
  <2>2. TypeOK' /\ CountsOK'
    BY <1>7, <2>1 DEF vars, TypeOK, CountsOK, InflightCounts, FoundOK, On
  <2>3. LocksOK' /\ PlacesOK' /\ LoopsOK' /\ CentreOK' /\ ServedOK' /\ QuietOK'
    BY <1>7, <2>1 DEF vars, LocksOK, PlacesOK, LoopsOK, CentreOK, ServedOK, QuietOK,
       Outdated, Coming, ReadIsFresh
  <2> QED BY <2>2, <2>3 DEF DispatchInv
<1> QED BY <1>1, <1>2, <1>3, <1>4, <1>5, <1>6, <1>7 DEF Next

(***************************************************************************)
(* The inductive invariant holds in every reachable state.                 *)
(***************************************************************************)
THEOREM DispatchInvHolds == Spec => []DispatchInv
<1>1. Init => DispatchInv
  BY DispatchInit
<1>2. DispatchInv /\ [Next]_vars => DispatchInv'
  BY DispatchStep
<1> QED BY <1>1, <1>2, PTL DEF Spec

(***************************************************************************)
(* Registry.IncInflight, DecInflight and Remove: the count of a node is    *)
(* the number of requests counted on it, never larger, and smaller only    *)
(* after a Rebuild has cleared its record under them.                      *)
(***************************************************************************)
THEOREM InflightCountsHolds == Spec => []InflightCounts
<1>1. DispatchInv => InflightCounts
  BY DEF DispatchInv, CountsOK
<1> QED BY <1>1, DispatchInvHolds, PTL

(***************************************************************************)
(* Dispatch.Rebuild and HealthCenter.Rebuild: when all calls have returned *)
(* and the last Rebuild did not fail, the routes served are those of the   *)
(* tables and the nodes probed those of the routes.                        *)
(***************************************************************************)
THEOREM LastSaveServedHolds == Spec => []LastSaveServed
<1>1. ASSUME DispatchInv, Settled
      PROVE  snap = db /\ tasks = TasksOf(Wanted(snap)) /\ probes = tasks
  <2>1. /\ TypeOK /\ LocksOK /\ PlacesOK /\ CentreOK /\ ServedOK /\ Manager \in Procs
        /\ at[Manager] = "up" /\ ~history.failed
        /\ \A p \in Procs : at[p] \in {"idle", "up", "down", "sleep", "gone"}
    BY <1>1 DEF DispatchInv, Settled, Procs
  <2>2. owner = Nobody /\ hcOwner = Nobody
    BY <2>1 DEF TypeOK, LocksOK, Owning, Rebuilding
  <2>3. \A p \in Procs : at[p] # "down"
    BY <2>1 DEF PlacesOK, Procs
  <2>4. ~Coming
    BY <2>1, <2>3 DEF Coming
  <2>5. snap = db /\ members = Wanted(db)
    BY <2>1, <2>2, <2>4 DEF ServedOK
  <2>6. told = {} /\ tasks = TasksOf(members)
    BY <2>1, <2>2 DEF CentreOK
  <2> QED BY <2>1, <2>5, <2>6 DEF CentreOK
<1>2. DispatchInv => LastSaveServed
  BY <1>1 DEF LastSaveServed
<1> QED BY <1>2, DispatchInvHolds, PTL

(***************************************************************************)
(* Dispatch.Stop: a dispatcher that is down probes nothing, unless a       *)
(* Rebuild had passed its test of stopped.                                 *)
(***************************************************************************)
THEOREM StoppedIsQuietHolds == Spec => []StoppedIsQuiet
<1>1. DispatchInv => StoppedIsQuiet
  BY DEF DispatchInv, QuietOK, CentreOK, StoppedIsQuiet
<1> QED BY <1>1, DispatchInvHolds, PTL

(***************************************************************************)
(* HealthCenter.Rebuild: no step takes the verdict from a node that the    *)
(* routes use before and after it.                                         *)
(***************************************************************************)
THEOREM KeepsVerdictHolds == Spec => KeepsVerdict
<1> DEFINE Kept == \A n \in Nodes :
             /\ health[n] \in {"ok", "bad"} /\ snap # NoRoutes /\ snap' # NoRoutes
             /\ n \in DOMAIN Wanted(snap) /\ n \in DOMAIN Wanted(snap')
             => health'[n] \in {"ok", "bad"}
<1>1. ASSUME DispatchInv, Next
      PROVE  Kept
  <2>1. TypeOK /\ CentreOK
    BY <1>1 DEF DispatchInv
  <2>2. CASE UNCHANGED health
    BY <2>2
  <2>3. ASSUME NEW p \in Procs, Drop(p)
        PROVE  Kept
    <3>1. PICK n \in Outdated :
            IF n \in DOMAIN Wanted(draft) THEN health' = health
                                          ELSE health' = [health EXCEPT ![n] = "none"]
      BY <2>3 DEF Drop, registry, Forget
    <3>2. snap = draft
      BY <2>1, <2>3 DEF CentreOK, Drop
    <3> QED BY <2>1, <3>1, <3>2 DEF TypeOK
  <2>4. ASSUME NEW p \in Procs, Register(p)
        PROVE  Kept
    <3>1. PICK n : Ensure(n, "unknown") \/ SetHealth(n, "ok")
      BY <2>4 DEF Register
    <3> QED BY <2>1, <3>1 DEF Ensure, SetHealth, TypeOK
  <2>5. ASSUME NEW t \in probes, Probe(t)
        PROVE  Kept
    BY <2>1, <2>5, DispatchAssumption DEF Probe, SetHealth, TypeOK
  <2>6. ASSUME NEW r \in Requests, Find(r)
        PROVE  Kept
    BY <2>1, <2>6 DEF Find, TypeOK
  <2>7. \/ UNCHANGED health
        \/ \E p \in Procs : Drop(p) \/ Register(p)
        \/ \E t \in probes : Probe(t)
        \/ \E r \in Requests : Find(r)
    <3>1. ASSUME NEW a \in Admins, Save(a) \/ \E role \in Groups : SaveRelations(a, role)
          PROVE  UNCHANGED health
      BY <3>1 DEF Save, SaveNode, SaveUpstream, Reload, SaveRelations, registry
    <3>2. ASSUME NEW p \in Procs, Rebuild(p) \/ LockCentre(p)
          PROVE  UNCHANGED health \/ Drop(p) \/ Register(p)
      BY <3>2 DEF Rebuild, LockCentre, Refuse, Check, Lock, LoadUpstreams, LoadNodes,
         LoadRelations, FailQuery, Reject, Store, StopTask, Finish, registry
    <3>3. CASE \E t \in probes : EndProbe(t)
      BY <3>3 DEF EndProbe, registry
    <3>4. CASE Start \/ Stop \/ DropTask \/ Drained
      BY <3>4 DEF Start, Stop, DropTask, Drained, registry
    <3>5. CASE \E l \in Loops : Tick(l) \/ EndLoop(l)
      BY <3>5 DEF Tick, EndLoop, registry
    <3>6. CASE \E r \in Requests : Choose(r) \/ Count(r) \/ Respond(r) \/ Interrupt(r)
      BY <3>6 DEF Choose, Count, Respond, Interrupt, registry
    <3> QED BY <1>1, <3>1, <3>2, <3>3, <3>4, <3>5, <3>6 DEF Next
  <2> QED BY <2>2, <2>3, <2>4, <2>5, <2>6, <2>7
<1>2. DispatchInv /\ [Next]_vars => [Kept]_vars
  BY <1>1
<1> QED BY <1>2, DispatchInvHolds, PTL DEF Spec, KeepsVerdict
=============================================================================
