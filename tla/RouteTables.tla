---------------------------- MODULE RouteTables ----------------------------
(***************************************************************************)
(* The tables of the dispatcher and the admin handlers that edit them      *)
(* (src/plugins/dispatch/admin.go).  No handler opens a transaction: each  *)
(* one checks with some statements, writes with others and rebuilds the    *)
(* snapshot at the end with four more, and two administrators interleave.  *)
(* A deleted row stays with the time of its deletion and can be restored.  *)
(* Names of upstreams, weights and everything a form checks without the    *)
(* tables are left out.                                                    *)
(***************************************************************************)
EXTENDS Naturals, FiniteSets, Sequences

CONSTANTS
  Admins, Rules, Upstreams, Nodes, Urls, Labels, None,
  FirstTables,   \* the tables the administrators find
  Groups,        \* the groups of nodes that are saved with an upstream
  PartialIndex,  \* unique indexes: postgres' partial ones, or sqlite's and mysql's
  MaxCalls,      \* bound: how many calls
  MaxFailures    \* bound: how many statements fail

Stamps == 0 .. MaxCalls

\* deleted is the deletion time, the number of the call; 0 is NULL.  A rule or
\* node that was never added names no upstream or url, an upstream is not there.
\* by is the call that inserted a relation.  Tags and their relations have the
\* place in the sequence as id.
Tables ==
  [rule : [Rules -> [up : Upstreams \cup {None}, on : BOOLEAN, deleted : Stamps]],
   up : [Upstreams -> [there : BOOLEAN, deleted : Stamps]],
   node : [Nodes -> [url : Urls \cup {None}, deleted : Stamps]],
   rel : SUBSET [up : Upstreams, node : Nodes, by : Stamps, deleted : Stamps],
   tag : Seq([name : Labels, deleted : Stamps]),
   ruleTag : Seq([rule : Rules, tag : Nat, deleted : Stamps])]

ASSUME RouteTablesAssumption ==
  /\ FirstTables \subseteq Tables /\ Groups \subseteq SUBSET Nodes
  /\ None \notin Upstreams \cup Urls \cup Labels
  /\ PartialIndex \in BOOLEAN /\ MaxCalls \in Nat /\ MaxFailures \in Nat

VARIABLES
  db,       \* the tables
  served,   \* what the snapshot was built from
  call,     \* the call of each administrator
  calls,    \* how many calls have begun
  failures, \* how many statements have failed
  history   \* see Init

vars == <<db, served, call, calls, failures, history>>

-----------------------------------------------------------------------------
ActiveNode(t, n) == t.node[n].url # None /\ t.node[n].deleted = 0
ActiveUp(t, u) == t.up[u].there /\ t.up[u].deleted = 0
ActiveRule(t, r) == t.rule[r].up # None /\ t.rule[r].deleted = 0
Relations(t) == {x \in t.rel : x.deleted = 0}

\* What Rebuild loads: the active rows, of the rules those switched on.
RuleRows(t) == {[rule |-> r, up |-> t.rule[r].up] :
                  r \in {k \in Rules : ActiveRule(t, k) /\ t.rule[k].on}}
UpRows(t) == {u \in Upstreams : ActiveUp(t, u)}
NodeRows(t) == {[node |-> n, url |-> t.node[n].url] : n \in {k \in Nodes : ActiveNode(t, k)}}
Graph(t) == [rules |-> RuleRows(t), ups |-> UpRows(t),
             nodes |-> NodeRows(t), rels |-> Relations(t)]
NoGraph == [rules |-> {}, ups |-> {}, nodes |-> {}, rels |-> {}]

ValidateGraph(g) ==
  /\ \A x \in g.rels : x.up \in g.ups /\ \E k \in g.nodes : k.node = x.node
  /\ \A u \in g.ups : \E x \in g.rels : x.up = u
  /\ \A k \in g.rules : k.up \in g.ups

\* Nobody has called yet: the tables are valid, the rules that are switched off
\* too, no row bears the number of a call, and no rule has a tag.
ASSUME FirstTablesAssumption ==
  \A t \in FirstTables :
    /\ ValidateGraph(Graph(t))
    /\ \A r \in Rules : ActiveRule(t, r) => ActiveUp(t, t.rule[r].up)
    /\ \A u \in Upstreams : t.up[u].deleted = 0
    /\ \A row \in t.rel : row.by = 0 /\ row.deleted = 0
    /\ \A i, j \in DOMAIN t.tag : t.tag[i].name = t.tag[j].name => i = j
    /\ \A i \in DOMAIN t.tag : t.tag[i].deleted = 0
    /\ t.ruleTag = <<>>

\* at: the statement that comes next.  todo: the nodes or relations it is
\* still to be done for.  input: what Rebuild has loaded.
Idle == [at |-> "idle", op |-> "none", rule |-> None, up |-> None, node |-> None,
         url |-> None, on |-> FALSE, group |-> {}, todo |-> {}, stamp |-> 0, tag |-> 0,
         label |-> None, labels |-> {}, id |-> 0, input |-> NoGraph]

\* history.writer: the call that changed the tables last.
\* history.told: it was answered with an error.
\* history.raced: two calls were under way at the same time.
\* history.culprit: one of the calls was of the kind that can leave the tables
\* invalid although it went through; see TablesHold.
\* history.tagged: the tags each rule was given.
Init ==
  /\ db \in FirstTables
  /\ served = Graph(db)
  /\ call = [a \in Admins |-> Idle]
  /\ calls = 0 /\ failures = 0
  /\ history = [writer |-> 0, told |-> FALSE, raced |-> FALSE, culprit |-> FALSE,
                tagged |-> [r \in Rules |-> {}]]
-----------------------------------------------------------------------------
(* Steps that all handlers share.                                            *)

Begin(a, c) ==
  /\ call[a].at = "idle" /\ calls < MaxCalls
  /\ calls' = calls + 1
  /\ call' = [call EXCEPT ![a] = [c EXCEPT !.tag = calls + 1]]
  /\ history' = [history EXCEPT !.raced = @ \/ \E b \in Admins : call[b].at # "idle"]
  /\ UNCHANGED <<db, served, failures>>

\* The writing is done and Rebuild comes next.
Written(a) == [Idle EXCEPT !.at = "rebuild", !.tag = call[a].tag]

Goto(a, to) == call' = [call EXCEPT ![a].at = to]

\* The answer is an error: the call ends where it stands, without a Rebuild.
AnswerError(a) ==
  /\ call' = [call EXCEPT ![a] = Idle]
  /\ history' = [history EXCEPT !.told = @ \/ history.writer = call[a].tag]

\* A check: the call goes on, or is refused and has changed nothing.
Check(a, ok, next) ==
  /\ call' = [call EXCEPT ![a] = IF ok THEN next ELSE Idle]
  /\ UNCHANGED <<db, served, calls, failures, history>>

\* A statement that writes; a unique index may turn it down.
Write(a, t, unique, next) ==
  /\ IF unique
     THEN /\ db' = t
          /\ call' = [call EXCEPT ![a] = next]
          /\ history' = [history EXCEPT !.writer = call[a].tag, !.told = FALSE]
     ELSE AnswerError(a) /\ UNCHANGED db
  /\ UNCHANGED <<served, calls, failures>>

\* The database does not answer.
Fail(a) ==
  /\ call[a].at # "idle" /\ failures < MaxFailures
  /\ failures' = failures + 1
  /\ AnswerError(a)
  /\ UNCHANGED <<db, served, calls>>

\* Rebuild, the end of every call that wrote: rebuildMu is held while the four
\* tables are loaded one after the other and the snapshot is stored.
Rebuilding(a) == call[a].at \in {"loadUps", "loadNodes", "loadRels", "store"}

\* Mutant: without rebuildMu.
LoadRulesUnlocked(a) ==
  /\ call[a].at = "rebuild"
  /\ Check(a, TRUE, [call[a] EXCEPT !.at = "loadUps", !.input.rules = RuleRows(db)])

LoadRules(a) ==
  /\ call[a].at = "rebuild" /\ ~\E b \in Admins : Rebuilding(b)
  /\ Check(a, TRUE, [call[a] EXCEPT !.at = "loadUps", !.input.rules = RuleRows(db)])
LoadUpstreams(a) ==
  /\ call[a].at = "loadUps"
  /\ Check(a, TRUE, [call[a] EXCEPT !.at = "loadNodes", !.input.ups = UpRows(db)])
LoadNodes(a) ==
  /\ call[a].at = "loadNodes"
  /\ Check(a, TRUE, [call[a] EXCEPT !.at = "loadRels", !.input.nodes = NodeRows(db)])
LoadRelations(a) ==
  /\ call[a].at = "loadRels"
  /\ Check(a, TRUE, [call[a] EXCEPT !.at = "store", !.input.rels = Relations(db)])

\* An invalid graph keeps the old snapshot and is reported.
StoreSnapshot(a) ==
  /\ call[a].at = "store"
  /\ IF ValidateGraph(call[a].input)
     THEN served' = call[a].input /\ call' = [call EXCEPT ![a] = Idle] /\ UNCHANGED history
     ELSE AnswerError(a) /\ UNCHANGED served
  /\ UNCHANGED <<db, calls, failures>>
-----------------------------------------------------------------------------
(* Nodes.                                                                    *)

\* The unique index on url.  With (url, deleted_at) two rows clash only if they
\* were deleted at the same time, which no two calls do.
UniqueUrls(t) ==
  PartialIndex =>
    \A m, n \in Nodes : ActiveNode(t, m) /\ ActiveNode(t, n) /\ m # n
                          => t.node[m].url # t.node[n].url

\* addNode for an id of its own, or NodesUpdate with the id the form was opened for.
SaveNode(a, n, url) ==
  /\ db.node[n].url = None => \A b \in Admins : call[b].node # n
  /\ Begin(a, [Idle EXCEPT !.at = "url", !.op = "save", !.node = n, !.url = url])
DeleteNode(a, n) ==
  db.node[n].url # None /\ Begin(a, [Idle EXCEPT !.at = "related", !.node = n])
RestoreNode(a, n) ==
  db.node[n].url # None
  /\ Begin(a, [Idle EXCEPT !.at = "readNode", !.op = "restore", !.node = n])

\* softDeletedNodeURL.
ReadDeletedNode(a) ==
  LET row == db.node[call[a].node] IN
  /\ call[a].at = "readNode"
  /\ Check(a, row.deleted # 0, [call[a] EXCEPT !.at = "url", !.url = row.url])

\* nodeURLTaken.
CheckUrl(a) ==
  LET taken == \E m \in Nodes \ {call[a].node} :
                 ActiveNode(db, m) /\ db.node[m].url = call[a].url IN
  /\ call[a].at = "url"
  /\ Check(a, ~taken, [call[a] EXCEPT !.at = "writeNode"])

\* Insert or update, or the restoring statement.
WriteNode(a) ==
  LET c == call[a]
      row == IF c.op = "save" THEN [db.node[c.node] EXCEPT !.url = c.url]
                              ELSE [db.node[c.node] EXCEPT !.deleted = 0]
      t == [db EXCEPT !.node[c.node] = row]
  IN  /\ c.at = "writeNode"
      /\ Write(a, t, UniqueUrls(t), Written(a))

\* mustRelRefsErr: a node that an active relation names is not deleted.
CountRelations(a) ==
  /\ call[a].at = "related"
  /\ Check(a, \A x \in Relations(db) : x.node # call[a].node,
           [call[a] EXCEPT !.at = "dropNode"])

DropNode(a) ==
  /\ call[a].at = "dropNode"
  /\ Write(a, [db EXCEPT !.node[call[a].node].deleted = call[a].tag], TRUE,
           Written(a))
-----------------------------------------------------------------------------
(* Rules.                                                                    *)

SaveRule(a, r, u, on, labels) ==
  /\ db.rule[r].up = None => \A b \in Admins : call[b].rule # r
  /\ Begin(a, [Idle EXCEPT !.at = "exists", !.op = "save", !.rule = r, !.up = u, !.on = on,
                           !.labels = labels])
DeleteRule(a, r) ==
  db.rule[r].up # None /\ Begin(a, [Idle EXCEPT !.at = "dropRule", !.rule = r])
RestoreRule(a, r) ==
  db.rule[r].up # None
  /\ Begin(a, [Idle EXCEPT !.at = "readRule", !.op = "restore", !.rule = r])

\* softDeletedRuleUpstream.
ReadDeletedRule(a) ==
  LET row == db.rule[call[a].rule] IN
  /\ call[a].at = "readRule"
  /\ Check(a, row.deleted # 0, [call[a] EXCEPT !.at = "exists", !.up = row.up])

\* activeUpstreamExists.
CheckUpstream(a) ==
  /\ call[a].at = "exists"
  /\ Check(a, ActiveUp(db, call[a].up), [call[a] EXCEPT !.at = "writeRule"])

\* The restoring statement, or insert or update and then the tags.
ReviveRule(a) ==
  /\ call[a].at = "writeRule" /\ call[a].op = "restore"
  /\ Write(a, [db EXCEPT !.rule[call[a].rule].deleted = 0], TRUE, Written(a))

WriteRule(a) ==
  LET c == call[a] IN
  /\ c.at = "writeRule" /\ c.op = "save"
  /\ db' = [db EXCEPT !.rule[c.rule] = [@ EXCEPT !.up = c.up, !.on = c.on]]
  /\ Goto(a, "ruleTags")
  /\ history' = [history EXCEPT !.writer = c.tag, !.told = FALSE, !.tagged[c.rule] = c.labels]
  /\ UNCHANGED <<served, calls, failures>>

DropRule(a) ==
  /\ call[a].at = "dropRule"
  /\ Write(a, [db EXCEPT !.rule[call[a].rule].deleted = call[a].tag], TRUE,
           Written(a))
-----------------------------------------------------------------------------
(* Tags.  They are not in the snapshot: their own handlers do not rebuild it.  *)

\* The unique indexes on the name of a tag and on a rule with a tag.
Unique(rows, Key(_)) ==
  \A i, j \in DOMAIN rows :
    i # j /\ Key(rows[i]) = Key(rows[j]) /\ rows[i].deleted = rows[j].deleted
      => IF PartialIndex THEN rows[i].deleted # 0 ELSE rows[i].deleted = 0
UniqueTags(t) == Unique(t.tag, LAMBDA x : x.name)
UniqueTagged(t) == Unique(t.ruleTag, LAMBDA x : <<x.rule, x.tag>>)

ActiveTags == {i \in DOMAIN db.tag : db.tag[i].deleted = 0}
Tagged == {i \in DOMAIN db.ruleTag : db.ruleTag[i].deleted = 0}

\* ruleTagNames: what the list of rules shows.
TagNames(r) == {db.tag[i].name : i \in ActiveTags \cap {db.ruleTag[k].tag : k \in
                                   {j \in Tagged : db.ruleTag[j].rule = r}}}

\* A statement that writes; what the snapshot is built from stays.
WriteTags(a, t, unique, next) ==
  /\ IF unique THEN db' = t /\ call' = [call EXCEPT ![a] = next] /\ UNCHANGED history
              ELSE AnswerError(a) /\ UNCHANGED db
  /\ UNCHANGED <<served, calls, failures>>

AddTag(a, label) ==
  Begin(a, [Idle EXCEPT !.at = "name", !.op = "add", !.label = label])
TagsUpdate(a, i, label) ==
  Begin(a, [Idle EXCEPT !.at = "name", !.op = "rename", !.label = label, !.id = i])
TagsDelete(a, i) == Begin(a, [Idle EXCEPT !.at = "tagRules", !.op = "dropTag", !.id = i])

\* tagNameTaken.
CheckName(a) ==
  /\ call[a].at = "name"
  /\ Check(a, \A i \in ActiveTags \ {call[a].id} : db.tag[i].name # call[a].label,
           [call[a] EXCEPT !.at = IF call[a].op = "add" THEN "newTag" ELSE "rename"])

RenameTag(a) ==
  LET c == call[a]
      t == [db EXCEPT !.tag[c.id].name = c.label]
  IN  /\ c.at = "rename"
      /\ IF UniqueTags(t)
         THEN /\ db' = t /\ call' = [call EXCEPT ![a] = Idle]
              /\ history' = [history EXCEPT !.tagged = [r \in Rules |->
                   IF c.id \in ActiveTags /\ db.tag[c.id].name \in @[r]
                   THEN (@[r] \ {db.tag[c.id].name}) \cup {c.label} ELSE @[r]]]
         ELSE AnswerError(a) /\ UNCHANGED db
      /\ UNCHANGED <<served, calls, failures>>

\* The names are worked off one by one; a rule that has its tags is rebuilt.
Tagging(a, names) ==
  IF names = {} THEN Written(a) ELSE [call[a] EXCEPT !.at = "findTag", !.todo = names]

\* The relations listed are deleted one by one.
Untagging(a, rows) ==
  IF rows # {} THEN [call[a] EXCEPT !.at = "untag", !.todo = rows]
  ELSE IF call[a].op = "dropTag" THEN [call[a] EXCEPT !.at = "dropTag"]
  ELSE Tagging(a, call[a].labels)

ListRuleTags(a) ==
  /\ call[a].at = "ruleTags"
  /\ Check(a, TRUE, Untagging(a, {i \in Tagged : db.ruleTag[i].rule = call[a].rule}))
ListTagRules(a) ==
  /\ call[a].at = "tagRules"
  /\ Check(a, TRUE, Untagging(a, {i \in Tagged : db.ruleTag[i].tag = call[a].id}))

Untag(a) ==
  /\ call[a].at = "untag"
  /\ \E i \in call[a].todo :
       LET t == [db EXCEPT !.ruleTag[i].deleted = call[a].tag] IN
       WriteTags(a, t, UniqueTagged(t), Untagging(a, call[a].todo \ {i}))

\* upsertTag: the active tag of the name, or a new one.
FindTag(a) ==
  /\ call[a].at = "findTag"
  /\ \E name \in call[a].todo :
       LET found == {i \in ActiveTags : db.tag[i].name = name} IN
       IF found = {} THEN Check(a, TRUE, [call[a] EXCEPT !.at = "newTag", !.label = name])
       ELSE \E i \in found :
              Check(a, TRUE, [call[a] EXCEPT !.at = "tagRule", !.label = name, !.id = i])

NewTag(a) ==
  LET t == [db EXCEPT !.tag = Append(@, [name |-> call[a].label, deleted |-> 0])] IN
  /\ call[a].at = "newTag"
  /\ WriteTags(a, t, UniqueTags(t),
       IF call[a].op = "add" THEN Idle
       ELSE [call[a] EXCEPT !.at = "tagRule", !.id = Len(t.tag)])

TagRule(a) ==
  LET c == call[a]
      t == [db EXCEPT !.ruleTag = Append(@, [rule |-> c.rule, tag |-> c.id, deleted |-> 0])]
  IN  /\ c.at = "tagRule"
      /\ WriteTags(a, t, UniqueTagged(t), Tagging(a, c.todo \ {c.label}))

DropTag(a) ==
  LET c == call[a] IN
  /\ c.at = "dropTag"
  /\ db' = [db EXCEPT !.tag[c.id].deleted = c.tag]
  /\ call' = [call EXCEPT ![a] = Idle]
  /\ history' = [history EXCEPT !.tagged = [r \in Rules |->
       IF c.id \in ActiveTags THEN @[r] \ {db.tag[c.id].name} ELSE @[r]]]
  /\ UNCHANGED <<served, calls, failures>>
-----------------------------------------------------------------------------
(* Upstreams with their relations.                                           *)

\* The unique index on the pair of a relation.
UniquePairs(t) ==
  \A x, y \in t.rel :
    x # y /\ x.up = y.up /\ x.node = y.node /\ x.deleted = y.deleted
      => IF PartialIndex THEN x.deleted # 0 ELSE x.deleted = 0

SaveUpstream(a, u, group) ==
  /\ ~db.up[u].there => \A b \in Admins : call[b].up # u
  /\ Begin(a, [Idle EXCEPT !.at = "nodes", !.up = u, !.group = group, !.todo = group])
DeleteUpstream(a, u) ==
  db.up[u].there /\ Begin(a, [Idle EXCEPT !.at = "used", !.up = u])
RestoreUpstream(a, u) ==
  db.up[u].there /\ Begin(a, [Idle EXCEPT !.at = "readUp", !.up = u])

\* validateUpstream: one query per node of the group, which may be empty.
CheckNode(a) ==
  /\ call[a].at = "nodes"
  /\ \E n \in call[a].todo :
       Check(a, ActiveNode(db, n), [call[a] EXCEPT !.todo = @ \ {n}])

\* Insert or update; a deleted upstream is updated and stays deleted.
WriteUpstream(a) ==
  LET u == call[a].up IN
  /\ call[a].at = "nodes" /\ call[a].todo = {}
  /\ db' = [db EXCEPT !.up[u].there = TRUE]
  /\ Goto(a, "list")
  /\ history' = [history EXCEPT !.writer = call[a].tag, !.told = FALSE,
                   !.culprit = @ \/ call[a].group = {} \/ db.up[u].deleted # 0]
  /\ UNCHANGED <<served, calls, failures>>

\* Mutant: rules that are switched off are not counted.
CountRulesOn(a) ==
  /\ call[a].at = "used"
  /\ Check(a, \A r \in Rules : ActiveRule(db, r) /\ db.rule[r].on
                                 => db.rule[r].up # call[a].up,
           [call[a] EXCEPT !.at = "dropUp"])

\* mustRuleRefsErr: an upstream that a rule names is not deleted, be the rule
\* switched on or off.
CountRules(a) ==
  /\ call[a].at = "used"
  /\ Check(a, \A r \in Rules : ActiveRule(db, r) => db.rule[r].up # call[a].up,
           [call[a] EXCEPT !.at = "dropUp"])

\* The time of deletion is set anew if the upstream is deleted already.
DropUpstream(a) ==
  LET u == call[a].up IN
  /\ call[a].at = "dropUp"
  /\ db' = [db EXCEPT !.up[u].deleted = call[a].tag]
  /\ Goto(a, "list")
  /\ history' = [history EXCEPT !.writer = call[a].tag, !.told = FALSE,
                                !.culprit = @ \/ db.up[u].deleted # 0]
  /\ UNCHANGED <<served, calls, failures>>

\* The active relations of the upstream, which are then deleted one by one.
ListRelations(a) ==
  /\ call[a].at = "list"
  /\ Check(a, TRUE, [call[a] EXCEPT
       !.at = "remove", !.todo = {x \in Relations(db) : x.up = call[a].up}])

SoftDelete(rels, row, stamp) == (rels \ {row}) \cup {[row EXCEPT !.deleted = stamp]}

\* The row is found by its id, whatever has become of it since.
RemoveRelation(a) ==
  /\ call[a].at = "remove"
  /\ \E x \in call[a].todo :
       LET row == CHOOSE y \in db.rel : y.up = x.up /\ y.node = x.node /\ y.by = x.by
           t == [db EXCEPT !.rel = SoftDelete(@, row, call[a].tag)]
       IN  Write(a, t, UniquePairs(t), [call[a] EXCEPT !.todo = @ \ {x}])

EndRemoval(a) ==
  /\ call[a].at = "remove" /\ call[a].todo = {}
  /\ Check(a, TRUE, [call[a] EXCEPT !.at = "insert", !.todo = call[a].group])

InsertRelation(a) ==
  /\ call[a].at = "insert"
  /\ \E n \in call[a].todo :
       LET t == [db EXCEPT !.rel = @ \cup
                   {[up |-> call[a].up, node |-> n, by |-> call[a].tag, deleted |-> 0]}]
       IN  Write(a, t, UniquePairs(t), [call[a] EXCEPT !.todo = @ \ {n}])

EndInsertion(a) ==
  /\ call[a].at = "insert" /\ call[a].todo = {}
  /\ Check(a, TRUE, Written(a))

\* softDeletedUpstreamName.
ReadDeletedUpstream(a) ==
  /\ call[a].at = "readUp"
  /\ Check(a, db.up[call[a].up].deleted # 0, [call[a] EXCEPT !.at = "stamp"])

\* softDeletedAt.
ReadStamp(a) ==
  /\ call[a].at = "stamp"
  /\ Check(a, TRUE, [call[a] EXCEPT !.at = "restoreUp", !.stamp = db.up[call[a].up].deleted])

RestoreRow(a) ==
  /\ call[a].at = "restoreUp"
  /\ Write(a, [db EXCEPT !.up[call[a].up].deleted = 0], TRUE,
           IF call[a].stamp = 0 THEN Written(a) ELSE [call[a] EXCEPT !.at = "revive"])

\* The relations deleted with the upstream, known by the same time stamp.
Batch(a) == {x \in db.rel : x.up = call[a].up /\ x.deleted = call[a].stamp}

\* restoreRelationsAt, one statement; it does not look at the nodes.
ReviveRelations(a) ==
  LET t == [db EXCEPT !.rel = (@ \ Batch(a)) \cup {[x EXCEPT !.deleted = 0] : x \in Batch(a)}] IN
  /\ call[a].at = "revive"
  /\ IF UniquePairs(t)
     THEN /\ db' = t /\ call' = [call EXCEPT ![a] = Written(a)]
          /\ history' = [history EXCEPT !.writer = call[a].tag, !.told = FALSE,
               !.culprit = @ \/ \E x \in Batch(a) : ~ActiveNode(db, x.node)]
     ELSE AnswerError(a) /\ UNCHANGED db
  /\ UNCHANGED <<served, calls, failures>>
-----------------------------------------------------------------------------
NodeCall(a) ==
  \/ \E n \in Nodes : \/ \E url \in Urls : SaveNode(a, n, url)
                      \/ DeleteNode(a, n) \/ RestoreNode(a, n)
  \/ ReadDeletedNode(a) \/ CheckUrl(a) \/ WriteNode(a) \/ CountRelations(a) \/ DropNode(a)

RuleCall(a) ==
  \/ \E r \in Rules :
       \/ \E u \in Upstreams, on \in BOOLEAN, labels \in SUBSET Labels :
            SaveRule(a, r, u, on, labels)
       \/ DeleteRule(a, r) \/ RestoreRule(a, r)
  \/ ReadDeletedRule(a) \/ CheckUpstream(a) \/ ReviveRule(a) \/ WriteRule(a) \/ DropRule(a)

TagCall(a) ==
  \/ \E label \in Labels : \/ AddTag(a, label)
                           \/ \E i \in DOMAIN db.tag : TagsUpdate(a, i, label)
  \/ \E i \in DOMAIN db.tag : TagsDelete(a, i)
  \/ CheckName(a) \/ RenameTag(a) \/ ListRuleTags(a) \/ ListTagRules(a) \/ Untag(a)
  \/ FindTag(a) \/ NewTag(a) \/ TagRule(a) \/ DropTag(a)

UpstreamCall(a) ==
  \/ \E u \in Upstreams : \/ \E group \in Groups : SaveUpstream(a, u, group)
                          \/ DeleteUpstream(a, u) \/ RestoreUpstream(a, u)
  \/ CheckNode(a) \/ WriteUpstream(a) \/ CountRules(a) \/ DropUpstream(a)
  \/ ListRelations(a) \/ RemoveRelation(a) \/ EndRemoval(a)
  \/ InsertRelation(a) \/ EndInsertion(a)
  \/ ReadDeletedUpstream(a) \/ ReadStamp(a) \/ RestoreRow(a) \/ ReviveRelations(a)

Rebuild(a) == LoadRules(a) \/ LoadUpstreams(a) \/ LoadNodes(a) \/ LoadRelations(a)
              \/ StoreSnapshot(a)

Next == \E a \in Admins : \/ NodeCall(a) \/ RuleCall(a) \/ TagCall(a) \/ UpstreamCall(a)
                          \/ Rebuild(a) \/ Fail(a)

Spec == Init /\ [][Next]_vars
-----------------------------------------------------------------------------
Quiet == \A a \in Admins : call[a].at = "idle"

\* "Saved is in force": when no call is under way, requests are routed by what
\* the tables say, or whoever changed them last was answered with an error,
\* however the checks, writes and rebuilds of two administrators interleave
\* and whichever statement fails (afterWrite, admin.go:591).
ServedOrTold == Quiet => served = Graph(db) \/ history.told

\* "Switched-off rows are configuration too": without overlapping calls every
\* rule that is not deleted, on or off, keeps its upstream through deletions,
\* restorations and updates of deleted rows, even if statements fail midway; and
\* if none fails the tables stay valid, but for four ways that all handlers let
\* pass: an upstream is saved without nodes; a deleted upstream is saved; it is
\* deleted a second time, so that a restore does not know its relations any
\* more; or it is restored when a node of its group has been deleted meanwhile.
\* And each rule, deleted or not, has the tags it was saved with, by the names
\* they have now, without those that were deleted.
TablesHold ==
  Quiet /\ ~history.raced =>
    /\ \A r \in Rules : ActiveRule(db, r) => ActiveUp(db, db.rule[r].up)
    /\ failures = 0 /\ ~history.culprit => ValidateGraph(Graph(db))
    /\ failures = 0 => \A r \in Rules : TagNames(r) = history.tagged[r]
=============================================================================
