--------------------------- MODULE Traffic_proofs ---------------------------
(***************************************************************************)
(* What administrators save is served or they were told that it is not,    *)
(* the tables keep what TablesHold says, no node starves and requests get  *)
(* the first rule that fits, for every set of rules, upstreams, nodes and  *)
(* tags, all weights and orders and every number of administrators, calls, *)
(* requests and failing statements.                                        *)
(*   - ServedOrTold is proved with RouteTablesInv;                         *)
(*   - TablesHold with TablesInv;                                          *)
(*   - TurnsAreFair with TurnsInv, about sums over subsets of the nodes;   *)
(*   - FirstInOrderWins from what the sorting, the lists of the domains    *)
(*     and the merge of two of them give, and RulesNamed.                  *)
(***************************************************************************)
EXTENDS Traffic, TLAPS, SequenceTheorems, FiniteSetTheorems, WellFoundedInduction,
        NaturalsInduction

(***************************************************************************)
(* The fields of the records.                                              *)
(***************************************************************************)
Shaped(c) ==
  c = [at |-> c.at, op |-> c.op, rule |-> c.rule, up |-> c.up, node |-> c.node,
       url |-> c.url, on |-> c.on, group |-> c.group, todo |-> c.todo, stamp |-> c.stamp,
       tag |-> c.tag, label |-> c.label, labels |-> c.labels, id |-> c.id,
       input |-> [rules |-> c.input.rules, ups |-> c.input.ups, nodes |-> c.input.nodes,
                  rels |-> c.input.rels]]

Whole(t) ==
  t = [rule |-> t.rule, up |-> t.up, node |-> t.node, rel |-> t.rel, tag |-> t.tag,
       ruleTag |-> t.ruleTag]

Noted(h) ==
  h = [writer |-> h.writer, told |-> h.told, raced |-> h.raced, culprit |-> h.culprit,
       tagged |-> h.tagged]

ShapeOK ==
  /\ call = [a \in Admins |-> call[a]] /\ \A a \in Admins : Shaped(call[a])
  /\ Whole(db) /\ Noted(history)

-----------------------------------------------------------------------------
\* The call has written and comes to its Rebuild.
OnItsWay(c) ==
  \/ c.at \in {"rebuild", "list", "remove", "insert", "revive"}
  \/ c.op = "save" /\ c.at \in {"ruleTags", "untag", "findTag", "newTag", "tagRule"}

Loading(c) == c.at \in {"loadUps", "loadNodes", "loadRels", "store"}

\* What a Rebuild has loaded is what the tables hold.
UpToDate(c) ==
  /\ Loading(c) => c.input.rules = RuleRows(db)
  /\ c.at \in {"loadNodes", "loadRels", "store"} => c.input.ups = UpRows(db)
  /\ c.at \in {"loadRels", "store"} => c.input.nodes = NodeRows(db)
  /\ c.at = "store" => c.input.rels = Relations(db)

OneRebuild == \A a, b \in Admins : Loading(call[a]) /\ Loading(call[b]) => a = b

\* The last writer was told; or is about to rebuild; or nobody has anything old
\* in hand and the snapshot is up to date, or the last writer will store one.
WillServe ==
  \/ history.told
  \/ \E a \in Admins : call[a].tag = history.writer /\ OnItsWay(call[a])
  \/ /\ \A a \in Admins : UpToDate(call[a])
     /\ \/ served = Graph(db)
        \/ \E a \in Admins : call[a].tag = history.writer /\ Loading(call[a])

RouteTablesInv == ShapeOK /\ OneRebuild /\ WillServe

LEMMA IdleShape == Shaped(Idle) /\ Idle.at = "idle" /\ Idle.op = "none"
BY DEF Shaped, Idle, NoGraph

LEMMA Edits ==
  ASSUME NEW c, Shaped(c), NEW v
  PROVE  /\ Shaped([c EXCEPT !.at = v]) /\ Shaped([c EXCEPT !.op = v])
         /\ Shaped([c EXCEPT !.rule = v]) /\ Shaped([c EXCEPT !.up = v])
         /\ Shaped([c EXCEPT !.node = v]) /\ Shaped([c EXCEPT !.url = v])
         /\ Shaped([c EXCEPT !.on = v]) /\ Shaped([c EXCEPT !.group = v])
         /\ Shaped([c EXCEPT !.todo = v]) /\ Shaped([c EXCEPT !.stamp = v])
         /\ Shaped([c EXCEPT !.label = v]) /\ Shaped([c EXCEPT !.labels = v])
         /\ Shaped([c EXCEPT !.id = v]) /\ Shaped([c EXCEPT !.tag = v])
<1>1. Shaped([c EXCEPT !.at = v]) /\ Shaped([c EXCEPT !.op = v])
  BY DEF Shaped
<1>2. Shaped([c EXCEPT !.rule = v]) /\ Shaped([c EXCEPT !.up = v])
  BY DEF Shaped
<1>3. Shaped([c EXCEPT !.node = v]) /\ Shaped([c EXCEPT !.url = v])
  BY DEF Shaped
<1>4. Shaped([c EXCEPT !.on = v]) /\ Shaped([c EXCEPT !.group = v])
  BY DEF Shaped
<1>5. Shaped([c EXCEPT !.todo = v]) /\ Shaped([c EXCEPT !.stamp = v])
  BY DEF Shaped
<1>6. Shaped([c EXCEPT !.label = v]) /\ Shaped([c EXCEPT !.labels = v])
  BY DEF Shaped
<1>7. Shaped([c EXCEPT !.id = v]) /\ Shaped([c EXCEPT !.tag = v])
  BY DEF Shaped
<1> QED BY <1>1, <1>2, <1>3, <1>4, <1>5, <1>6, <1>7

LEMMA SameGraph ==
  ASSUME NEW s, NEW t, s.rule = t.rule, s.up = t.up, s.node = t.node, s.rel = t.rel
  PROVE  /\ RuleRows(s) = RuleRows(t) /\ UpRows(s) = UpRows(t) /\ NodeRows(s) = NodeRows(t)
         /\ Relations(s) = Relations(t) /\ Graph(s) = Graph(t)
BY DEF RuleRows, UpRows, NodeRows, Relations, Graph, ActiveRule, ActiveUp, ActiveNode

LEMMA RouteTablesStart == Init => RouteTablesInv
<1> SUFFICES ASSUME Init PROVE RouteTablesInv
  OBVIOUS
<1>1. \A a \in Admins : call[a] = Idle
  BY DEF Init
<1>2. Whole(db)
  <2>1. db \in Tables
    BY RouteTablesAssumption DEF Init
  <2> QED BY <2>1 DEF Tables, Whole
<1>3. Noted(history) /\ call = [a \in Admins |-> call[a]]
  BY DEF Init, Noted
<1>4. ShapeOK
  BY <1>1, <1>2, <1>3, IdleShape DEF ShapeOK
<1>5. OneRebuild
  BY <1>1, IdleShape DEF OneRebuild, Loading
<1>6. WillServe
  BY <1>1, IdleShape DEF WillServe, UpToDate, Loading, Init
<1> QED BY <1>4, <1>5, <1>6 DEF RouteTablesInv

-----------------------------------------------------------------------------
(***************************************************************************)
(* The kinds of steps.  A goes on to next; nobody else does anything.      *)
(***************************************************************************)
Goes(a, next) == call' = [call EXCEPT ![a] = next]

LEMMA Going ==
  ASSUME ShapeOK, NEW a \in Admins, NEW next, Shaped(next), Goes(a, next)
  PROVE  /\ call'[a] = next /\ \A b \in Admins : b # a => call'[b] = call[b]
         /\ call' = [b \in Admins |-> call'[b]] /\ \A b \in Admins : Shaped(call'[b])
<1>1. /\ call'[a] = next /\ \A b \in Admins : b # a => call'[b] = call[b]
      /\ call' = [b \in Admins |-> call'[b]]
  BY DEF ShapeOK, Goes
<1> QED BY <1>1 DEF ShapeOK

\* The tables the snapshot is built from stay.
LEMMA Aside ==
  ASSUME RouteTablesInv, NEW a \in Admins, NEW next, Shaped(next), Goes(a, next),
         ~Loading(call[a]), ~Loading(next),
         OnItsWay(call[a]) => OnItsWay(next) /\ next.tag = call[a].tag,
         Whole(db'), db'.rule = db.rule, db'.up = db.up, db'.node = db.node, db'.rel = db.rel,
         Noted(history'), history'.writer = history.writer, history'.told = history.told,
         served' = served
  PROVE  RouteTablesInv'
<1>1. /\ call'[a] = next /\ \A b \in Admins : b # a => call'[b] = call[b]
      /\ call' = [b \in Admins |-> call'[b]] /\ \A b \in Admins : Shaped(call'[b])
  BY Going DEF RouteTablesInv
<1>2. ShapeOK'
  BY <1>1 DEF ShapeOK
<1>3. OneRebuild'
  <2>1. \A b \in Admins : Loading(call'[b]) => b # a /\ Loading(call[b])
    BY <1>1
  <2> QED BY <2>1 DEF OneRebuild, RouteTablesInv, Loading
<1>4. /\ RuleRows(db') = RuleRows(db) /\ UpRows(db') = UpRows(db)
      /\ NodeRows(db') = NodeRows(db) /\ Relations(db') = Relations(db)
      /\ Graph(db') = Graph(db)
  BY SameGraph
<1>5. CASE history.told
  BY <1>2, <1>3, <1>5 DEF WillServe, RouteTablesInv
<1>6. CASE \E b \in Admins : call[b].tag = history.writer /\ OnItsWay(call[b])
  <2>1. PICK b \in Admins : call[b].tag = history.writer /\ OnItsWay(call[b])
    BY <1>6
  <2>2. call'[b].tag = history'.writer /\ OnItsWay(call'[b])
    BY <1>1, <2>1
  <2> QED BY <1>2, <1>3, <2>2 DEF RouteTablesInv, WillServe, OnItsWay
<1>7. CASE /\ \A b \in Admins : UpToDate(call[b])
           /\ \/ served = Graph(db)
              \/ \E b \in Admins : call[b].tag = history.writer /\ Loading(call[b])
  <2>1. ASSUME NEW b \in Admins
        PROVE  UpToDate(call[b])'
    <3>1. CASE b = a
      BY <1>1, <3>1 DEF UpToDate, Loading
    <3>2. CASE b # a
      BY <1>1, <1>4, <1>7, <3>2 DEF UpToDate, Loading
    <3> QED BY <3>1, <3>2
  <2>2. \/ served' = Graph(db')
        \/ \E b \in Admins : call'[b].tag = history'.writer /\ Loading(call'[b])
    BY <1>1, <1>4, <1>7
  <2>3. WillServe'
    BY <2>1, <2>2 DEF WillServe, Loading
  <2> QED BY <1>2, <1>3, <2>3 DEF RouteTablesInv
<1> QED BY <1>2, <1>3, <1>5, <1>6, <1>7 DEF RouteTablesInv, WillServe

\* The tables change, and whoever did it will rebuild the snapshot.
LEMMA Changing ==
  ASSUME RouteTablesInv, NEW a \in Admins, NEW next, Shaped(next), Goes(a, next),
         ~Loading(next), OnItsWay(next), next.tag = history'.writer,
         Whole(db'), Noted(history'), served' = served
  PROVE  RouteTablesInv'
<1>1. /\ call'[a] = next /\ \A b \in Admins : b # a => call'[b] = call[b]
      /\ call' = [b \in Admins |-> call'[b]] /\ \A b \in Admins : Shaped(call'[b])
  BY Going DEF RouteTablesInv
<1>2. ShapeOK'
  BY <1>1 DEF ShapeOK
<1>3. OneRebuild'
  <2>1. \A b \in Admins : Loading(call'[b]) => b # a /\ Loading(call[b])
    BY <1>1
  <2> QED BY <2>1 DEF OneRebuild, RouteTablesInv, Loading
<1>4. WillServe'
  <2>1. call'[a].tag = history'.writer /\ OnItsWay(call'[a])
    BY <1>1
  <2> QED BY <2>1 DEF WillServe, OnItsWay
<1> QED BY <1>2, <1>3, <1>4 DEF RouteTablesInv

\* The call ends with an error.
LEMMA Refused ==
  ASSUME RouteTablesInv, NEW a \in Admins, AnswerError(a), db' = db, served' = served
  PROVE  RouteTablesInv'
<1>1. Goes(a, Idle) /\ history' = [history EXCEPT !.told = @ \/ history.writer = call[a].tag]
  BY DEF AnswerError, Goes
<1>2. /\ call'[a] = Idle /\ \A b \in Admins : b # a => call'[b] = call[b]
      /\ call' = [b \in Admins |-> call'[b]] /\ \A b \in Admins : Shaped(call'[b])
  BY <1>1, Going, IdleShape DEF RouteTablesInv
<1>3. /\ Noted(history') /\ history'.writer = history.writer
      /\ history'.told = (history.told \/ history.writer = call[a].tag)
  BY <1>1 DEF RouteTablesInv, ShapeOK, Noted
<1>4. ShapeOK'
  BY <1>2, <1>3 DEF ShapeOK, RouteTablesInv
<1>5. \A b \in Admins : Loading(call'[b]) => b # a /\ Loading(call[b])
  BY <1>2, IdleShape DEF Loading
<1>6. OneRebuild'
  BY <1>5 DEF OneRebuild, RouteTablesInv, Loading
<1>7. CASE history.told \/ history.writer = call[a].tag
  BY <1>3, <1>4, <1>6, <1>7 DEF RouteTablesInv, WillServe
<1>8. CASE ~history.told /\ history.writer # call[a].tag
  <2>1. CASE \E b \in Admins : call[b].tag = history.writer /\ OnItsWay(call[b])
    <3>1. PICK b \in Admins : call[b].tag = history.writer /\ OnItsWay(call[b])
      BY <2>1
    <3>2. call'[b].tag = history'.writer /\ OnItsWay(call'[b])
      BY <1>2, <1>3, <1>8, <3>1
    <3> QED BY <1>4, <1>6, <3>2 DEF RouteTablesInv, WillServe, OnItsWay
  <2>2. CASE /\ \A b \in Admins : UpToDate(call[b])
             /\ \/ served = Graph(db)
                \/ \E b \in Admins : call[b].tag = history.writer /\ Loading(call[b])
    <3>1. \A b \in Admins : UpToDate(call[b])'
      BY <1>2, <2>2, IdleShape DEF UpToDate, Loading
    <3>2. \/ served' = Graph(db')
          \/ \E b \in Admins : call'[b].tag = history'.writer /\ Loading(call'[b])
      BY <1>2, <1>3, <1>8, <2>2
    <3>3. WillServe'
      BY <3>1, <3>2 DEF WillServe, Loading
    <3> QED BY <1>4, <1>6, <3>3 DEF RouteTablesInv
  <2> QED BY <1>8, <2>1, <2>2 DEF RouteTablesInv, WillServe
<1> QED BY <1>7, <1>8

\* A table is loaded by the only call that rebuilds.
LEMMA LoadingOn ==
  ASSUME RouteTablesInv, NEW a \in Admins, NEW next, Shaped(next), Goes(a, next),
         \A b \in Admins : Loading(call[b]) => b = a,
         Loading(next), next.tag = call[a].tag,
         OnItsWay(call[a]) => UpToDate(next),
         UpToDate(call[a]) => UpToDate(next),
         db' = db, history' = history, served' = served,
         OnItsWay(call[a]) \/ Loading(call[a])
  PROVE  RouteTablesInv'
<1>1. /\ call'[a] = next /\ \A b \in Admins : b # a => call'[b] = call[b]
      /\ call' = [b \in Admins |-> call'[b]] /\ \A b \in Admins : Shaped(call'[b])
  BY Going DEF RouteTablesInv
<1>2. ShapeOK'
  BY <1>1 DEF ShapeOK, RouteTablesInv
<1>3. \A b \in Admins : b # a => ~Loading(call'[b])
  BY <1>1
<1>4. OneRebuild'
  BY <1>3 DEF OneRebuild, Loading
<1>5. \A b \in Admins : b # a => UpToDate(call'[b])
  BY <1>3 DEF UpToDate, Loading
<1>6. CASE history.told
  BY <1>2, <1>4, <1>6 DEF RouteTablesInv, WillServe
<1>7. CASE \E b \in Admins : b # a /\ call[b].tag = history.writer /\ OnItsWay(call[b])
  <2>1. PICK b \in Admins : b # a /\ call[b].tag = history.writer /\ OnItsWay(call[b])
    BY <1>7
  <2>2. call'[b].tag = history'.writer /\ OnItsWay(call'[b])
    BY <1>1, <2>1
  <2> QED BY <1>2, <1>4, <2>2 DEF RouteTablesInv, WillServe, OnItsWay
<1>8. CASE \/ call[a].tag = history.writer /\ OnItsWay(call[a])
           \/ /\ \A b \in Admins : UpToDate(call[b])
              /\ \/ served = Graph(db)
                 \/ \E b \in Admins : call[b].tag = history.writer /\ Loading(call[b])
  <2>1. UpToDate(next)
    BY <1>8
  <2>2. \A b \in Admins : UpToDate(call[b])'
    BY <1>1, <1>5, <2>1 DEF UpToDate, Loading
  <2>3. \/ served = Graph(db)
        \/ call[a].tag = history.writer
    BY <1>8
  <2>4. \/ served' = Graph(db')
        \/ \E b \in Admins : call'[b].tag = history'.writer /\ Loading(call'[b])
    BY <1>1, <2>3
  <2>5. WillServe'
    BY <2>2, <2>4 DEF WillServe, Loading
  <2> QED BY <1>2, <1>4, <2>5 DEF RouteTablesInv
<1> QED BY <1>6, <1>7, <1>8 DEF RouteTablesInv, WillServe

\* The snapshot is stored.
LEMMA Storing ==
  ASSUME RouteTablesInv, NEW a \in Admins, call[a].at = "store", Goes(a, Idle),
         served' = call[a].input, db' = db, history' = history
  PROVE  RouteTablesInv'
<1>1. /\ call'[a] = Idle /\ \A b \in Admins : b # a => call'[b] = call[b]
      /\ call' = [b \in Admins |-> call'[b]] /\ \A b \in Admins : Shaped(call'[b])
  BY Going, IdleShape DEF RouteTablesInv
<1>2. ShapeOK'
  BY <1>1 DEF ShapeOK, RouteTablesInv
<1>3. Loading(call[a])
  BY DEF Loading
<1>4. \A b \in Admins : ~Loading(call'[b])
  BY <1>1, <1>3, IdleShape DEF OneRebuild, RouteTablesInv, Loading
<1>5. OneRebuild'
  BY <1>4 DEF OneRebuild, Loading
<1>6. \A b \in Admins : UpToDate(call[b])'
  BY <1>4 DEF UpToDate, Loading
<1>7. CASE history.told
  BY <1>2, <1>5, <1>7 DEF RouteTablesInv, WillServe
<1>8. CASE \E b \in Admins : call[b].tag = history.writer /\ OnItsWay(call[b])
  <2>1. PICK b \in Admins : call[b].tag = history.writer /\ OnItsWay(call[b])
    BY <1>8
  <2>2. b # a
    BY <2>1 DEF OnItsWay
  <2>3. call'[b].tag = history'.writer /\ OnItsWay(call'[b])
    BY <1>1, <2>1, <2>2
  <2> QED BY <1>2, <1>5, <2>3 DEF RouteTablesInv, WillServe, OnItsWay
<1>9. CASE UpToDate(call[a])
  <2>1. call[a].input = Graph(db)
    <3>1. /\ call[a].input.rules = RuleRows(db) /\ call[a].input.ups = UpRows(db)
          /\ call[a].input.nodes = NodeRows(db) /\ call[a].input.rels = Relations(db)
      BY <1>3, <1>9 DEF UpToDate
    <3>2. Shaped(call[a])
      BY DEF RouteTablesInv, ShapeOK
    <3>3. call[a].input = [rules |-> call[a].input.rules, ups |-> call[a].input.ups,
                           nodes |-> call[a].input.nodes, rels |-> call[a].input.rels]
      BY <3>2 DEF Shaped
    <3> QED BY <3>1, <3>3 DEF Graph
  <2>2. served' = Graph(db')
    BY <2>1
  <2> QED BY <1>2, <1>5, <1>6, <2>2 DEF RouteTablesInv, WillServe
<1> QED BY <1>7, <1>8, <1>9 DEF RouteTablesInv, WillServe

-----------------------------------------------------------------------------
(***************************************************************************)
(* The steps that all handlers share are of these kinds.                   *)
(***************************************************************************)
LEMMA BeginKeeps ==
  ASSUME RouteTablesInv, NEW a \in Admins, NEW c, Shaped(c), ~Loading(c), Begin(a, c)
  PROVE  RouteTablesInv'
<1> DEFINE next == [c EXCEPT !.tag = calls + 1]
<1>1. /\ call[a].at = "idle" /\ Goes(a, next)
      /\ history' = [history EXCEPT !.raced = @ \/ \E b \in Admins : call[b].at # "idle"]
      /\ db' = db /\ served' = served
  BY DEF Begin, Goes
<1>2. Shaped(next) /\ ~Loading(next)
  BY DEF Shaped, Loading
<1>3. ~OnItsWay(call[a]) /\ ~Loading(call[a])
  BY <1>1 DEF OnItsWay, Loading
<1>4. Noted(history') /\ history'.writer = history.writer /\ history'.told = history.told
  BY <1>1 DEF RouteTablesInv, ShapeOK, Noted
<1>5. Whole(db')
  BY <1>1 DEF RouteTablesInv, ShapeOK
<1> HIDE DEF next
<1> QED BY <1>1, <1>2, <1>3, <1>4, <1>5, Aside

LEMMA CheckKeeps ==
  ASSUME RouteTablesInv, NEW a \in Admins, NEW ok, NEW next, Check(a, ok, next),
         ok \in BOOLEAN, Shaped(next), ~Loading(call[a]), ~Loading(next),
         OnItsWay(call[a]) => ok /\ OnItsWay(next) /\ next.tag = call[a].tag
  PROVE  RouteTablesInv'
<1>1. /\ Goes(a, IF ok THEN next ELSE Idle)
      /\ db' = db /\ served' = served /\ history' = history
  BY DEF Check, Goes
<1>2. Whole(db') /\ Noted(history')
  BY <1>1 DEF RouteTablesInv, ShapeOK
<1>3. CASE ok
  BY <1>1, <1>2, <1>3, Aside
<1>4. CASE ~ok
  BY <1>1, <1>2, <1>4, IdleShape, Aside DEF Loading
<1> QED BY <1>3, <1>4

LEMMA WriteKeeps ==
  ASSUME RouteTablesInv, NEW a \in Admins, NEW t, NEW unique, NEW next,
         Write(a, t, unique, next), unique \in BOOLEAN, Whole(t), Shaped(next),
         ~Loading(next), OnItsWay(next), next.tag = call[a].tag
  PROVE  RouteTablesInv'
<1>1. CASE unique
  <2>1. /\ db' = t /\ Goes(a, next) /\ served' = served
        /\ history' = [history EXCEPT !.writer = call[a].tag, !.told = FALSE]
    BY <1>1 DEF Write, Goes
  <2>2. Noted(history') /\ history'.writer = call[a].tag
    BY <2>1 DEF RouteTablesInv, ShapeOK, Noted
  <2> QED BY <2>1, <2>2, Changing
<1>2. CASE ~unique
  BY <1>2, Refused DEF Write
<1> QED BY <1>1, <1>2

LEMMA WriteTagsKeeps ==
  ASSUME RouteTablesInv, NEW a \in Admins, NEW t, NEW unique, NEW next,
         WriteTags(a, t, unique, next), unique \in BOOLEAN,
         Whole(t), t.rule = db.rule, t.up = db.up, t.node = db.node, t.rel = db.rel,
         Shaped(next), ~Loading(call[a]), ~Loading(next),
         OnItsWay(call[a]) => OnItsWay(next) /\ next.tag = call[a].tag
  PROVE  RouteTablesInv'
<1>1. CASE unique
  <2>1. db' = t /\ Goes(a, next) /\ served' = served /\ history' = history
    BY <1>1 DEF WriteTags, Goes
  <2>2. Noted(history') /\ Whole(db')
    BY <2>1 DEF RouteTablesInv, ShapeOK
  <2> QED BY <2>1, <2>2, Aside
<1>2. CASE ~unique
  BY <1>2, Refused DEF WriteTags
<1> QED BY <1>1, <1>2

LEMMA FailKeeps ==
  ASSUME RouteTablesInv, NEW a \in Admins, Fail(a)
  PROVE  RouteTablesInv'
BY Refused DEF Fail

LEMMA WrittenShape ==
  ASSUME NEW a
  PROVE  /\ Shaped(Written(a)) /\ ~Loading(Written(a)) /\ OnItsWay(Written(a))
         /\ Written(a).tag = call[a].tag
<1>1. Shaped(Written(a))
  BY IdleShape, Edits DEF Written
<1>2. Written(a).at = "rebuild" /\ Written(a).tag = call[a].tag
  BY IdleShape DEF Written, Shaped
<1> QED BY <1>1, <1>2 DEF Loading, OnItsWay

-----------------------------------------------------------------------------
(***************************************************************************)
(* The handlers of nodes.                                                  *)
(***************************************************************************)
LEMMA NodeCallKeeps ==
  ASSUME RouteTablesInv, NEW a \in Admins, NodeCall(a)
  PROVE  RouteTablesInv'
<1>1. Shaped(call[a]) /\ Whole(db)
  BY DEF RouteTablesInv, ShapeOK
<1>2. ASSUME NEW n \in Nodes, NEW url \in Urls, SaveNode(a, n, url)
      PROVE  RouteTablesInv'
  <2> DEFINE c == [Idle EXCEPT !.at = "url", !.op = "save", !.node = n, !.url = url]
  <2>1. Shaped(c) /\ ~Loading(c)
    <3>1. Shaped(c)
      BY IdleShape, Edits
    <3> QED BY <3>1, IdleShape DEF Shaped, Loading
  <2>2. Begin(a, c)
    BY <1>2 DEF SaveNode
  <2> HIDE DEF c
  <2> QED BY <2>1, <2>2, BeginKeeps
<1>3. ASSUME NEW n \in Nodes, DeleteNode(a, n)
      PROVE  RouteTablesInv'
  <2> DEFINE c == [Idle EXCEPT !.at = "related", !.node = n]
  <2>1. Shaped(c) /\ ~Loading(c)
    <3>1. Shaped(c)
      BY IdleShape, Edits
    <3> QED BY <3>1, IdleShape DEF Shaped, Loading
  <2>2. Begin(a, c)
    BY <1>3 DEF DeleteNode
  <2> HIDE DEF c
  <2> QED BY <2>1, <2>2, BeginKeeps
<1>4. ASSUME NEW n \in Nodes, RestoreNode(a, n)
      PROVE  RouteTablesInv'
  <2> DEFINE c == [Idle EXCEPT !.at = "readNode", !.op = "restore", !.node = n]
  <2>1. Shaped(c) /\ ~Loading(c)
    <3>1. Shaped(c)
      BY IdleShape, Edits
    <3> QED BY <3>1, IdleShape DEF Shaped, Loading
  <2>2. Begin(a, c)
    BY <1>4 DEF RestoreNode
  <2> HIDE DEF c
  <2> QED BY <2>1, <2>2, BeginKeeps
<1>5. CASE ReadDeletedNode(a)
  <2> DEFINE row == db.node[call[a].node]
             next == [call[a] EXCEPT !.at = "url", !.url = row.url]
             ok == row.deleted # 0
  <2>1. Check(a, ok, next) /\ call[a].at = "readNode" /\ ok \in BOOLEAN
    BY <1>5 DEF ReadDeletedNode
  <2>2. Shaped(next)
    BY <1>1, Edits
  <2>3. ~Loading(next) /\ ~OnItsWay(call[a]) /\ ~Loading(call[a])
    BY <1>1, <2>1 DEF Shaped, Loading, OnItsWay
  <2> HIDE DEF next, ok
  <2> QED BY <2>1, <2>2, <2>3, CheckKeeps
<1>6. CASE CheckUrl(a)
  <2> DEFINE next == [call[a] EXCEPT !.at = "writeNode"]
             ok == ~\E m \in Nodes \ {call[a].node} :
                      ActiveNode(db, m) /\ db.node[m].url = call[a].url
  <2>1. Check(a, ok, next) /\ call[a].at = "url" /\ ok \in BOOLEAN
    BY <1>6 DEF CheckUrl
  <2>2. Shaped(next)
    BY <1>1, Edits
  <2>3. ~Loading(next) /\ ~OnItsWay(call[a]) /\ ~Loading(call[a])
    BY <1>1, <2>1 DEF Shaped, Loading, OnItsWay
  <2> HIDE DEF next, ok
  <2> QED BY <2>1, <2>2, <2>3, CheckKeeps
<1>7. CASE WriteNode(a)
  <2> DEFINE c == call[a]
             row == IF c.op = "save" THEN [db.node[c.node] EXCEPT !.url = c.url]
                                     ELSE [db.node[c.node] EXCEPT !.deleted = 0]
             t == [db EXCEPT !.node[c.node] = row]
             ok == UniqueUrls(t)
  <2>1. Write(a, t, ok, Written(a)) /\ ok \in BOOLEAN
    BY <1>7 DEF WriteNode, UniqueUrls
  <2>2. Whole(t)
    BY <1>1 DEF Whole
  <2> HIDE DEF t, ok
  <2> QED BY <2>1, <2>2, WrittenShape, WriteKeeps
<1>8. CASE CountRelations(a)
  <2> DEFINE next == [call[a] EXCEPT !.at = "dropNode"]
             ok == \A x \in Relations(db) : x.node # call[a].node
  <2>1. Check(a, ok, next) /\ call[a].at = "related" /\ ok \in BOOLEAN
    BY <1>8 DEF CountRelations
  <2>2. Shaped(next)
    BY <1>1, Edits
  <2>3. ~Loading(next) /\ ~OnItsWay(call[a]) /\ ~Loading(call[a])
    BY <1>1, <2>1 DEF Shaped, Loading, OnItsWay
  <2> HIDE DEF next, ok
  <2> QED BY <2>1, <2>2, <2>3, CheckKeeps
<1>9. CASE DropNode(a)
  <2> DEFINE t == [db EXCEPT !.node[call[a].node].deleted = call[a].tag]
  <2>1. Write(a, t, TRUE, Written(a))
    BY <1>9 DEF DropNode
  <2>2. Whole(t)
    BY <1>1 DEF Whole
  <2> HIDE DEF t
  <2> QED BY <2>1, <2>2, WrittenShape, WriteKeeps
<1> QED BY <1>2, <1>3, <1>4, <1>5, <1>6, <1>7, <1>8, <1>9 DEF NodeCall

-----------------------------------------------------------------------------
(***************************************************************************)
(* The handlers of rules.                                                  *)
(***************************************************************************)
LEMMA RuleCallKeeps ==
  ASSUME RouteTablesInv, NEW a \in Admins, RuleCall(a)
  PROVE  RouteTablesInv'
<1>1. Shaped(call[a]) /\ Whole(db) /\ Noted(history)
  BY DEF RouteTablesInv, ShapeOK
<1>2. ASSUME NEW r \in Rules, NEW u \in Upstreams, NEW on \in BOOLEAN,
             NEW labels \in SUBSET Labels, SaveRule(a, r, u, on, labels)
      PROVE  RouteTablesInv'
  <2> DEFINE c == [Idle EXCEPT !.at = "exists", !.op = "save", !.rule = r, !.up = u,
                               !.on = on, !.labels = labels]
  <2>1. Shaped(c) /\ ~Loading(c)
    <3>1. Shaped(c)
      BY IdleShape, Edits
    <3> QED BY <3>1, IdleShape DEF Shaped, Loading
  <2>2. Begin(a, c)
    BY <1>2 DEF SaveRule
  <2> HIDE DEF c
  <2> QED BY <2>1, <2>2, BeginKeeps
<1>3. ASSUME NEW r \in Rules, DeleteRule(a, r)
      PROVE  RouteTablesInv'
  <2> DEFINE c == [Idle EXCEPT !.at = "dropRule", !.rule = r]
  <2>1. Shaped(c) /\ ~Loading(c)
    <3>1. Shaped(c)
      BY IdleShape, Edits
    <3> QED BY <3>1, IdleShape DEF Shaped, Loading
  <2>2. Begin(a, c)
    BY <1>3 DEF DeleteRule
  <2> HIDE DEF c
  <2> QED BY <2>1, <2>2, BeginKeeps
<1>4. ASSUME NEW r \in Rules, RestoreRule(a, r)
      PROVE  RouteTablesInv'
  <2> DEFINE c == [Idle EXCEPT !.at = "readRule", !.op = "restore", !.rule = r]
  <2>1. Shaped(c) /\ ~Loading(c)
    <3>1. Shaped(c)
      BY IdleShape, Edits
    <3> QED BY <3>1, IdleShape DEF Shaped, Loading
  <2>2. Begin(a, c)
    BY <1>4 DEF RestoreRule
  <2> HIDE DEF c
  <2> QED BY <2>1, <2>2, BeginKeeps
<1>5. CASE ReadDeletedRule(a)
  <2> DEFINE row == db.rule[call[a].rule]
             next == [call[a] EXCEPT !.at = "exists", !.up = row.up]
             ok == row.deleted # 0
  <2>1. Check(a, ok, next) /\ call[a].at = "readRule" /\ ok \in BOOLEAN
    BY <1>5 DEF ReadDeletedRule
  <2>2. Shaped(next)
    BY <1>1, Edits
  <2>3. ~Loading(next) /\ ~OnItsWay(call[a]) /\ ~Loading(call[a])
    BY <1>1, <2>1 DEF Shaped, Loading, OnItsWay
  <2> HIDE DEF next, ok
  <2> QED BY <2>1, <2>2, <2>3, CheckKeeps
<1>6. CASE CheckUpstream(a)
  <2> DEFINE next == [call[a] EXCEPT !.at = "writeRule"]
             ok == ActiveUp(db, call[a].up)
  <2>1. Check(a, ok, next) /\ call[a].at = "exists"
    BY <1>6 DEF CheckUpstream
  <2>2. Shaped(next)
    BY <1>1, Edits
  <2>3. ~Loading(next) /\ ~OnItsWay(call[a]) /\ ~Loading(call[a])
    BY <1>1, <2>1 DEF Shaped, Loading, OnItsWay
  <2>4. ok \in BOOLEAN
    BY DEF ActiveUp
  <2> HIDE DEF next, ok
  <2> QED BY <2>1, <2>2, <2>3, <2>4, CheckKeeps
<1>7. CASE ReviveRule(a)
  <2> DEFINE t == [db EXCEPT !.rule[call[a].rule].deleted = 0]
  <2>1. Write(a, t, TRUE, Written(a))
    BY <1>7 DEF ReviveRule
  <2>2. Whole(t)
    BY <1>1 DEF Whole
  <2> HIDE DEF t
  <2> QED BY <2>1, <2>2, WrittenShape, WriteKeeps
<1>8. CASE WriteRule(a)
  <2> DEFINE c == call[a]
             next == [call[a] EXCEPT !.at = "ruleTags"]
             t == [db EXCEPT !.rule[c.rule] = [@ EXCEPT !.up = c.up, !.on = c.on]]
  <2>1. /\ db' = t /\ call' = [call EXCEPT ![a].at = "ruleTags"] /\ served' = served
        /\ history' = [history EXCEPT !.writer = c.tag, !.told = FALSE,
                                      !.tagged[c.rule] = c.labels]
        /\ c.op = "save"
    BY <1>8 DEF WriteRule, Goto
  <2>2. Shaped(next) /\ ~Loading(next) /\ OnItsWay(next) /\ next.tag = c.tag
    BY <1>1, <2>1 DEF Shaped, Loading, OnItsWay
  <2>3. Goes(a, next)
    BY <2>1 DEF Goes
  <2>4. Whole(db')
    BY <1>1, <2>1 DEF Whole
  <2>5. Noted(history') /\ history'.writer = c.tag
    BY <1>1, <2>1 DEF Noted
  <2> HIDE DEF next
  <2> QED BY <2>1, <2>2, <2>3, <2>4, <2>5, Changing
<1>9. CASE DropRule(a)
  <2> DEFINE t == [db EXCEPT !.rule[call[a].rule].deleted = call[a].tag]
  <2>1. Write(a, t, TRUE, Written(a))
    BY <1>9 DEF DropRule
  <2>2. Whole(t)
    BY <1>1 DEF Whole
  <2> HIDE DEF t
  <2> QED BY <2>1, <2>2, WrittenShape, WriteKeeps
<1> QED BY <1>2, <1>3, <1>4, <1>5, <1>6, <1>7, <1>8, <1>9 DEF RuleCall

-----------------------------------------------------------------------------
(***************************************************************************)
(* The handlers of tags, and the tags of a rule.                           *)
(***************************************************************************)
\* What comes after the listing of relations or the deletion of one.
LEMMA TaggingNext ==
  ASSUME NEW a \in Admins, Shaped(call[a]), NEW names
  PROVE  /\ Shaped(Tagging(a, names)) /\ ~Loading(Tagging(a, names))
         /\ Tagging(a, names).tag = call[a].tag
         /\ call[a].op = "save" => OnItsWay(Tagging(a, names))
<1> DEFINE next == [call[a] EXCEPT !.at = "findTag", !.todo = names]
<1>1. Shaped(next)
  BY Edits
<1>2. next.at = "findTag" /\ next.tag = call[a].tag /\ next.op = call[a].op
  BY DEF Shaped
<1>3. ~Loading(next) /\ (call[a].op = "save" => OnItsWay(next))
  BY <1>2 DEF Loading, OnItsWay
<1>4. Tagging(a, names) = IF names = {} THEN Written(a) ELSE next
  BY DEF Tagging
<1> HIDE DEF next
<1> QED BY <1>1, <1>2, <1>3, <1>4, WrittenShape

LEMMA UntaggingNext ==
  ASSUME NEW a \in Admins, Shaped(call[a]), NEW rows
  PROVE  /\ Shaped(Untagging(a, rows)) /\ ~Loading(Untagging(a, rows))
         /\ Untagging(a, rows).tag = call[a].tag
         /\ call[a].op = "save" => OnItsWay(Untagging(a, rows))
<1> DEFINE untag == [call[a] EXCEPT !.at = "untag", !.todo = rows]
           drop == [call[a] EXCEPT !.at = "dropTag"]
<1>1. Shaped(untag) /\ Shaped(drop)
  BY Edits
<1>2. /\ untag.at = "untag" /\ untag.tag = call[a].tag /\ untag.op = call[a].op
      /\ drop.at = "dropTag" /\ drop.tag = call[a].tag
  BY DEF Shaped
<1>3. ~Loading(untag) /\ (call[a].op = "save" => OnItsWay(untag)) /\ ~Loading(drop)
  BY <1>2 DEF Loading, OnItsWay
<1>4. Untagging(a, rows) = IF rows # {} THEN untag
                           ELSE IF call[a].op = "dropTag" THEN drop
                           ELSE Tagging(a, call[a].labels)
  BY DEF Untagging
<1> HIDE DEF untag, drop
<1> QED BY <1>1, <1>2, <1>3, <1>4, TaggingNext

LEMMA TagTables ==
  ASSUME NEW t, Whole(t), NEW rows
  PROVE  \A s \in {[t EXCEPT !.tag = rows], [t EXCEPT !.ruleTag = rows]} :
           Whole(s) /\ s.rule = t.rule /\ s.up = t.up /\ s.node = t.node /\ s.rel = t.rel
BY DEF Whole

LEMMA TagCallKeeps ==
  ASSUME RouteTablesInv, NEW a \in Admins, TagCall(a)
  PROVE  RouteTablesInv'
<1>1. Shaped(call[a]) /\ Whole(db) /\ Noted(history)
  BY DEF RouteTablesInv, ShapeOK
<1>2. ASSUME NEW label \in Labels, AddTag(a, label)
      PROVE  RouteTablesInv'
  <2> DEFINE c == [Idle EXCEPT !.at = "name", !.op = "add", !.label = label]
  <2>1. Shaped(c) /\ ~Loading(c)
    <3>1. Shaped(c)
      BY IdleShape, Edits
    <3> QED BY <3>1, IdleShape DEF Shaped, Loading
  <2>2. Begin(a, c)
    BY <1>2 DEF AddTag
  <2> HIDE DEF c
  <2> QED BY <2>1, <2>2, BeginKeeps
<1>3. ASSUME NEW label \in Labels, NEW i \in DOMAIN db.tag, TagsUpdate(a, i, label)
      PROVE  RouteTablesInv'
  <2> DEFINE c == [Idle EXCEPT !.at = "name", !.op = "rename", !.label = label, !.id = i]
  <2>1. Shaped(c) /\ ~Loading(c)
    <3>1. Shaped(c)
      BY IdleShape, Edits
    <3> QED BY <3>1, IdleShape DEF Shaped, Loading
  <2>2. Begin(a, c)
    BY <1>3 DEF TagsUpdate
  <2> HIDE DEF c
  <2> QED BY <2>1, <2>2, BeginKeeps
<1>4. ASSUME NEW i \in DOMAIN db.tag, TagsDelete(a, i)
      PROVE  RouteTablesInv'
  <2> DEFINE c == [Idle EXCEPT !.at = "tagRules", !.op = "dropTag", !.id = i]
  <2>1. Shaped(c) /\ ~Loading(c)
    <3>1. Shaped(c)
      BY IdleShape, Edits
    <3> QED BY <3>1, IdleShape DEF Shaped, Loading
  <2>2. Begin(a, c)
    BY <1>4 DEF TagsDelete
  <2> HIDE DEF c
  <2> QED BY <2>1, <2>2, BeginKeeps
<1>5. CASE CheckName(a)
  <2> DEFINE next == [call[a] EXCEPT !.at = IF call[a].op = "add" THEN "newTag" ELSE "rename"]
             ok == \A i \in ActiveTags \ {call[a].id} : db.tag[i].name # call[a].label
  <2>1. Check(a, ok, next) /\ call[a].at = "name" /\ ok \in BOOLEAN
    BY <1>5 DEF CheckName
  <2>2. Shaped(next)
    BY <1>1, Edits
  <2>3. ~Loading(next) /\ ~OnItsWay(call[a]) /\ ~Loading(call[a])
    BY <1>1, <2>1 DEF Shaped, Loading, OnItsWay
  <2> HIDE DEF next, ok
  <2> QED BY <2>1, <2>2, <2>3, CheckKeeps
<1>6. CASE RenameTag(a)
  <2>1. call[a].at = "rename" /\ served' = served
    BY <1>6 DEF RenameTag
  <2>2. \/ AnswerError(a) /\ db' = db
        \/ /\ db' = [db EXCEPT !.tag[call[a].id].name = call[a].label]
           /\ Goes(a, Idle)
           /\ \E tagged : history' = [history EXCEPT !.tagged = tagged]
    BY <1>6 DEF RenameTag, Goes
  <2>3. CASE AnswerError(a) /\ db' = db
    BY <2>1, <2>3, Refused
  <2>4. CASE /\ db' = [db EXCEPT !.tag[call[a].id].name = call[a].label]
             /\ Goes(a, Idle)
             /\ \E tagged : history' = [history EXCEPT !.tagged = tagged]
    <3>1. /\ Whole(db') /\ db'.rule = db.rule /\ db'.up = db.up /\ db'.node = db.node
          /\ db'.rel = db.rel
      BY <1>1, <2>4 DEF Whole
    <3>2. Noted(history') /\ history'.writer = history.writer /\ history'.told = history.told
      BY <1>1, <2>4 DEF Noted
    <3>3. ~OnItsWay(call[a]) /\ ~Loading(call[a]) /\ ~Loading(Idle)
      BY <2>1, IdleShape DEF OnItsWay, Loading
    <3> QED BY <2>1, <2>4, <3>1, <3>2, <3>3, IdleShape, Aside
  <2> QED BY <2>2, <2>3, <2>4
<1>7. CASE ListRuleTags(a)
  <2> DEFINE next == Untagging(a, {i \in Tagged : db.ruleTag[i].rule = call[a].rule})
  <2>1. Check(a, TRUE, next) /\ call[a].at = "ruleTags"
    BY <1>7 DEF ListRuleTags
  <2>2. /\ Shaped(next) /\ ~Loading(next) /\ next.tag = call[a].tag
        /\ call[a].op = "save" => OnItsWay(next)
    BY <1>1, UntaggingNext
  <2>3. ~Loading(call[a]) /\ (OnItsWay(call[a]) => call[a].op = "save")
    BY <2>1 DEF Loading, OnItsWay
  <2> HIDE DEF next
  <2> QED BY <2>1, <2>2, <2>3, CheckKeeps
<1>8. CASE ListTagRules(a)
  <2> DEFINE next == Untagging(a, {i \in Tagged : db.ruleTag[i].tag = call[a].id})
  <2>1. Check(a, TRUE, next) /\ call[a].at = "tagRules"
    BY <1>8 DEF ListTagRules
  <2>2. Shaped(next) /\ ~Loading(next)
    BY <1>1, UntaggingNext
  <2>3. ~Loading(call[a]) /\ ~OnItsWay(call[a])
    BY <2>1 DEF Loading, OnItsWay
  <2> HIDE DEF next
  <2> QED BY <2>1, <2>2, <2>3, CheckKeeps
<1>9. CASE Untag(a)
  <2>1. PICK i \in call[a].todo :
          LET t == [db EXCEPT !.ruleTag[i].deleted = call[a].tag] IN
          WriteTags(a, t, UniqueTagged(t), Untagging(a, call[a].todo \ {i}))
    BY <1>9 DEF Untag
  <2> DEFINE t == [db EXCEPT !.ruleTag[i].deleted = call[a].tag]
             next == Untagging(a, call[a].todo \ {i})
             unique == UniqueTagged(t)
  <2>2. WriteTags(a, t, unique, next) /\ call[a].at = "untag"
    BY <1>9, <2>1 DEF Untag
  <2>3. unique \in BOOLEAN
    BY DEF UniqueTagged, Unique
  <2>4. Whole(t) /\ t.rule = db.rule /\ t.up = db.up /\ t.node = db.node /\ t.rel = db.rel
    BY <1>1 DEF Whole
  <2>5. /\ Shaped(next) /\ ~Loading(next) /\ next.tag = call[a].tag
        /\ call[a].op = "save" => OnItsWay(next)
    BY <1>1, UntaggingNext
  <2>6. ~Loading(call[a]) /\ (OnItsWay(call[a]) => call[a].op = "save")
    BY <2>2 DEF Loading, OnItsWay
  <2> HIDE DEF next, t, unique
  <2> QED BY <2>2, <2>3, <2>4, <2>5, <2>6, WriteTagsKeeps
<1>10. CASE FindTag(a)
  <2>1. call[a].at = "findTag"
    BY <1>10 DEF FindTag
  <2>2. PICK name, i :
          \/ Check(a, TRUE, [call[a] EXCEPT !.at = "newTag", !.label = name])
          \/ Check(a, TRUE, [call[a] EXCEPT !.at = "tagRule", !.label = name, !.id = i])
    BY <1>10 DEF FindTag
  <2> DEFINE new == [call[a] EXCEPT !.at = "newTag", !.label = name]
             old == [call[a] EXCEPT !.at = "tagRule", !.label = name, !.id = i]
  <2>3. Shaped(new) /\ Shaped(old)
    BY <1>1, Edits
  <2>4. /\ ~Loading(new) /\ new.tag = call[a].tag /\ (OnItsWay(call[a]) => OnItsWay(new))
        /\ ~Loading(old) /\ old.tag = call[a].tag /\ (OnItsWay(call[a]) => OnItsWay(old))
        /\ ~Loading(call[a])
    BY <1>1, <2>1 DEF Shaped, Loading, OnItsWay
  <2>5. Check(a, TRUE, new) \/ Check(a, TRUE, old)
    BY <2>2
  <2> HIDE DEF new, old
  <2> QED BY <2>3, <2>4, <2>5, CheckKeeps
<1>11. CASE NewTag(a)
  <2> DEFINE t == [db EXCEPT !.tag = Append(@, [name |-> call[a].label, deleted |-> 0])]
             on == [call[a] EXCEPT !.at = "tagRule", !.id = Len(t.tag)]
             next == IF call[a].op = "add" THEN Idle ELSE on
             unique == UniqueTags(t)
  <2>1. WriteTags(a, t, unique, next) /\ call[a].at = "newTag"
    BY <1>11 DEF NewTag
  <2>2. unique \in BOOLEAN
    BY DEF UniqueTags, Unique
  <2>3. Whole(t) /\ t.rule = db.rule /\ t.up = db.up /\ t.node = db.node /\ t.rel = db.rel
    <3> DEFINE rows == Append(db.tag, [name |-> call[a].label, deleted |-> 0])
    <3>1. t = [db EXCEPT !.tag = rows]
      OBVIOUS
    <3> HIDE DEF t, rows
    <3> QED BY <1>1, <3>1, TagTables
  <2>4. Shaped(on)
    BY <1>1, Edits
  <2>5. ~Loading(on) /\ on.tag = call[a].tag /\ (OnItsWay(call[a]) => OnItsWay(on))
    BY <1>1, <2>1 DEF Shaped, Loading, OnItsWay
  <2>6. ~Loading(call[a]) /\ (OnItsWay(call[a]) => call[a].op # "add")
    BY <2>1 DEF Loading, OnItsWay
  <2>7. /\ Shaped(next) /\ ~Loading(next)
        /\ OnItsWay(call[a]) => OnItsWay(next) /\ next.tag = call[a].tag
    <3> HIDE DEF t, on
    <3> QED BY <2>4, <2>5, <2>6, IdleShape DEF Loading
  <2> HIDE DEF t, on, next, unique
  <2> QED BY <2>1, <2>2, <2>3, <2>6, <2>7, WriteTagsKeeps
<1>12. CASE TagRule(a)
  <2> DEFINE c == call[a]
             t == [db EXCEPT !.ruleTag = Append(@, [rule |-> c.rule, tag |-> c.id, deleted |-> 0])]
             next == Tagging(a, c.todo \ {c.label})
             unique == UniqueTagged(t)
  <2>1. WriteTags(a, t, unique, next) /\ call[a].at = "tagRule"
    BY <1>12 DEF TagRule
  <2>2. unique \in BOOLEAN
    BY DEF UniqueTagged, Unique
  <2>3. Whole(t) /\ t.rule = db.rule /\ t.up = db.up /\ t.node = db.node /\ t.rel = db.rel
    <3> DEFINE rows == Append(db.ruleTag, [rule |-> c.rule, tag |-> c.id, deleted |-> 0])
    <3>1. t = [db EXCEPT !.ruleTag = rows]
      OBVIOUS
    <3> HIDE DEF t, rows
    <3> QED BY <1>1, <3>1, TagTables
  <2>4. /\ Shaped(next) /\ ~Loading(next) /\ next.tag = call[a].tag
        /\ call[a].op = "save" => OnItsWay(next)
    BY <1>1, TaggingNext
  <2>5. ~Loading(call[a]) /\ (OnItsWay(call[a]) => call[a].op = "save")
    BY <2>1 DEF Loading, OnItsWay
  <2> HIDE DEF t, next, unique
  <2> QED BY <2>1, <2>2, <2>3, <2>4, <2>5, WriteTagsKeeps
<1>13. CASE DropTag(a)
  <2>1. /\ call[a].at = "dropTag" /\ served' = served /\ Goes(a, Idle)
        /\ db' = [db EXCEPT !.tag[call[a].id].deleted = call[a].tag]
        /\ \E tagged : history' = [history EXCEPT !.tagged = tagged]
    BY <1>13 DEF DropTag, Goes
  <2>2. /\ Whole(db') /\ db'.rule = db.rule /\ db'.up = db.up /\ db'.node = db.node
        /\ db'.rel = db.rel
    BY <1>1, <2>1 DEF Whole
  <2>3. Noted(history') /\ history'.writer = history.writer /\ history'.told = history.told
    BY <1>1, <2>1 DEF Noted
  <2>4. ~OnItsWay(call[a]) /\ ~Loading(call[a]) /\ ~Loading(Idle)
    BY <2>1, IdleShape DEF OnItsWay, Loading
  <2> QED BY <2>1, <2>2, <2>3, <2>4, IdleShape, Aside
<1> QED BY <1>2, <1>3, <1>4, <1>5, <1>6, <1>7, <1>8, <1>9, <1>10, <1>11, <1>12, <1>13
           DEF TagCall

-----------------------------------------------------------------------------
(***************************************************************************)
(* The handlers of upstreams.                                              *)
(***************************************************************************)
LEMMA UpstreamCallKeeps ==
  ASSUME RouteTablesInv, NEW a \in Admins, UpstreamCall(a)
  PROVE  RouteTablesInv'
<1>1. Shaped(call[a]) /\ Whole(db) /\ Noted(history)
  BY DEF RouteTablesInv, ShapeOK
<1>2. ASSUME NEW u \in Upstreams, NEW group \in Groups, SaveUpstream(a, u, group)
      PROVE  RouteTablesInv'
  <2> DEFINE c == [Idle EXCEPT !.at = "nodes", !.up = u, !.group = group, !.todo = group]
  <2>1. Shaped(c) /\ ~Loading(c)
    <3>1. Shaped(c)
      BY IdleShape, Edits
    <3> QED BY <3>1, IdleShape DEF Shaped, Loading
  <2>2. Begin(a, c)
    BY <1>2 DEF SaveUpstream
  <2> HIDE DEF c
  <2> QED BY <2>1, <2>2, BeginKeeps
<1>3. ASSUME NEW u \in Upstreams, DeleteUpstream(a, u)
      PROVE  RouteTablesInv'
  <2> DEFINE c == [Idle EXCEPT !.at = "used", !.up = u]
  <2>1. Shaped(c) /\ ~Loading(c)
    <3>1. Shaped(c)
      BY IdleShape, Edits
    <3> QED BY <3>1, IdleShape DEF Shaped, Loading
  <2>2. Begin(a, c)
    BY <1>3 DEF DeleteUpstream
  <2> HIDE DEF c
  <2> QED BY <2>1, <2>2, BeginKeeps
<1>4. ASSUME NEW u \in Upstreams, RestoreUpstream(a, u)
      PROVE  RouteTablesInv'
  <2> DEFINE c == [Idle EXCEPT !.at = "readUp", !.up = u]
  <2>1. Shaped(c) /\ ~Loading(c)
    <3>1. Shaped(c)
      BY IdleShape, Edits
    <3> QED BY <3>1, IdleShape DEF Shaped, Loading
  <2>2. Begin(a, c)
    BY <1>4 DEF RestoreUpstream
  <2> HIDE DEF c
  <2> QED BY <2>1, <2>2, BeginKeeps
<1>5. CASE CheckNode(a)
  <2>1. PICK n \in call[a].todo :
          Check(a, ActiveNode(db, n), [call[a] EXCEPT !.todo = @ \ {n}])
    BY <1>5 DEF CheckNode
  <2> DEFINE next == [call[a] EXCEPT !.todo = @ \ {n}]
             ok == ActiveNode(db, n)
  <2>2. Check(a, ok, next) /\ call[a].at = "nodes"
    BY <1>5, <2>1 DEF CheckNode
  <2>3. ok \in BOOLEAN
    BY DEF ActiveNode
  <2>4. Shaped(next)
    BY <1>1, Edits
  <2>5. ~Loading(next) /\ ~OnItsWay(call[a]) /\ ~Loading(call[a])
    BY <1>1, <2>2 DEF Shaped, Loading, OnItsWay
  <2> HIDE DEF next, ok
  <2> QED BY <2>2, <2>3, <2>4, <2>5, CheckKeeps
<1>6. CASE WriteUpstream(a)
  <2> DEFINE next == [call[a] EXCEPT !.at = "list"]
             t == [db EXCEPT !.up[call[a].up].there = TRUE]
  <2>1. /\ db' = t /\ call' = [call EXCEPT ![a].at = "list"] /\ served' = served
        /\ \E culprit : history' = [history EXCEPT !.writer = call[a].tag, !.told = FALSE,
                                                   !.culprit = culprit]
    BY <1>6 DEF WriteUpstream, Goto
  <2>2. Shaped(next) /\ ~Loading(next) /\ OnItsWay(next) /\ next.tag = call[a].tag
    BY <1>1 DEF Shaped, Loading, OnItsWay
  <2>3. Goes(a, next)
    BY <2>1 DEF Goes
  <2>4. Whole(db')
    BY <1>1, <2>1 DEF Whole
  <2>5. Noted(history') /\ history'.writer = call[a].tag
    BY <1>1, <2>1 DEF Noted
  <2> HIDE DEF next
  <2> QED BY <2>1, <2>2, <2>3, <2>4, <2>5, Changing
<1>7. CASE CountRules(a)
  <2> DEFINE next == [call[a] EXCEPT !.at = "dropUp"]
             ok == \A r \in Rules : ActiveRule(db, r) => db.rule[r].up # call[a].up
  <2>1. Check(a, ok, next) /\ call[a].at = "used" /\ ok \in BOOLEAN
    BY <1>7 DEF CountRules
  <2>2. Shaped(next)
    BY <1>1, Edits
  <2>3. ~Loading(next) /\ ~OnItsWay(call[a]) /\ ~Loading(call[a])
    BY <1>1, <2>1 DEF Shaped, Loading, OnItsWay
  <2> HIDE DEF next, ok
  <2> QED BY <2>1, <2>2, <2>3, CheckKeeps
<1>8. CASE DropUpstream(a)
  <2> DEFINE next == [call[a] EXCEPT !.at = "list"]
             t == [db EXCEPT !.up[call[a].up].deleted = call[a].tag]
  <2>1. /\ db' = t /\ call' = [call EXCEPT ![a].at = "list"] /\ served' = served
        /\ \E culprit : history' = [history EXCEPT !.writer = call[a].tag, !.told = FALSE,
                                                   !.culprit = culprit]
    BY <1>8 DEF DropUpstream, Goto
  <2>2. Shaped(next) /\ ~Loading(next) /\ OnItsWay(next) /\ next.tag = call[a].tag
    BY <1>1 DEF Shaped, Loading, OnItsWay
  <2>3. Goes(a, next)
    BY <2>1 DEF Goes
  <2>4. Whole(db')
    BY <1>1, <2>1 DEF Whole
  <2>5. Noted(history') /\ history'.writer = call[a].tag
    BY <1>1, <2>1 DEF Noted
  <2> HIDE DEF next
  <2> QED BY <2>1, <2>2, <2>3, <2>4, <2>5, Changing
<1>9. CASE ListRelations(a)
  <2> DEFINE next == [call[a] EXCEPT !.at = "remove",
                                     !.todo = {x \in Relations(db) : x.up = call[a].up}]
  <2>1. Check(a, TRUE, next) /\ call[a].at = "list"
    BY <1>9 DEF ListRelations
  <2>2. Shaped(next)
    BY <1>1, Edits
  <2>3. ~Loading(next) /\ OnItsWay(next) /\ next.tag = call[a].tag /\ ~Loading(call[a])
    BY <1>1, <2>1 DEF Shaped, Loading, OnItsWay
  <2> HIDE DEF next
  <2> QED BY <2>1, <2>2, <2>3, CheckKeeps
<1>10. CASE RemoveRelation(a)
  <2>1. PICK x \in call[a].todo :
          LET row == CHOOSE y \in db.rel : y.up = x.up /\ y.node = x.node /\ y.by = x.by
              t == [db EXCEPT !.rel = SoftDelete(@, row, call[a].tag)]
          IN  Write(a, t, UniquePairs(t), [call[a] EXCEPT !.todo = @ \ {x}])
    BY <1>10 DEF RemoveRelation
  <2> DEFINE row == CHOOSE y \in db.rel : y.up = x.up /\ y.node = x.node /\ y.by = x.by
             t == [db EXCEPT !.rel = SoftDelete(@, row, call[a].tag)]
             next == [call[a] EXCEPT !.todo = @ \ {x}]
             unique == UniquePairs(t)
  <2>2. Write(a, t, unique, next) /\ call[a].at = "remove"
    BY <1>10, <2>1 DEF RemoveRelation
  <2>3. unique \in BOOLEAN
    BY DEF UniquePairs
  <2>4. Whole(t)
    BY <1>1 DEF Whole
  <2>5. Shaped(next)
    BY <1>1, Edits
  <2>6. ~Loading(next) /\ OnItsWay(next) /\ next.tag = call[a].tag
    BY <1>1, <2>2 DEF Shaped, Loading, OnItsWay
  <2> HIDE DEF t, next, unique
  <2> QED BY <2>2, <2>3, <2>4, <2>5, <2>6, WriteKeeps
<1>11. CASE EndRemoval(a)
  <2> DEFINE next == [call[a] EXCEPT !.at = "insert", !.todo = call[a].group]
  <2>1. Check(a, TRUE, next) /\ call[a].at = "remove"
    BY <1>11 DEF EndRemoval
  <2>2. Shaped(next)
    BY <1>1, Edits
  <2>3. ~Loading(next) /\ OnItsWay(next) /\ next.tag = call[a].tag /\ ~Loading(call[a])
    BY <1>1, <2>1 DEF Shaped, Loading, OnItsWay
  <2> HIDE DEF next
  <2> QED BY <2>1, <2>2, <2>3, CheckKeeps
<1>12. CASE InsertRelation(a)
  <2>1. PICK n \in call[a].todo :
          LET t == [db EXCEPT !.rel = @ \cup
                    {[up |-> call[a].up, node |-> n, by |-> call[a].tag, deleted |-> 0]}]
          IN  Write(a, t, UniquePairs(t), [call[a] EXCEPT !.todo = @ \ {n}])
    BY <1>12 DEF InsertRelation
  <2> DEFINE t == [db EXCEPT !.rel = @ \cup
                   {[up |-> call[a].up, node |-> n, by |-> call[a].tag, deleted |-> 0]}]
             next == [call[a] EXCEPT !.todo = @ \ {n}]
             unique == UniquePairs(t)
  <2>2. Write(a, t, unique, next) /\ call[a].at = "insert"
    BY <1>12, <2>1 DEF InsertRelation
  <2>3. unique \in BOOLEAN
    BY DEF UniquePairs
  <2>4. Whole(t)
    BY <1>1 DEF Whole
  <2>5. Shaped(next)
    BY <1>1, Edits
  <2>6. ~Loading(next) /\ OnItsWay(next) /\ next.tag = call[a].tag
    BY <1>1, <2>2 DEF Shaped, Loading, OnItsWay
  <2> HIDE DEF t, next, unique
  <2> QED BY <2>2, <2>3, <2>4, <2>5, <2>6, WriteKeeps
<1>13. CASE EndInsertion(a)
  <2>1. Check(a, TRUE, Written(a)) /\ call[a].at = "insert"
    BY <1>13 DEF EndInsertion
  <2>2. ~Loading(call[a])
    BY <2>1 DEF Loading
  <2> QED BY <2>1, <2>2, WrittenShape, CheckKeeps
<1>14. CASE ReadDeletedUpstream(a)
  <2> DEFINE next == [call[a] EXCEPT !.at = "stamp"]
             ok == db.up[call[a].up].deleted # 0
  <2>1. Check(a, ok, next) /\ call[a].at = "readUp" /\ ok \in BOOLEAN
    BY <1>14 DEF ReadDeletedUpstream
  <2>2. Shaped(next)
    BY <1>1, Edits
  <2>3. ~Loading(next) /\ ~OnItsWay(call[a]) /\ ~Loading(call[a])
    BY <1>1, <2>1 DEF Shaped, Loading, OnItsWay
  <2> HIDE DEF next, ok
  <2> QED BY <2>1, <2>2, <2>3, CheckKeeps
<1>15. CASE ReadStamp(a)
  <2> DEFINE next == [call[a] EXCEPT !.at = "restoreUp", !.stamp = db.up[call[a].up].deleted]
  <2>1. Check(a, TRUE, next) /\ call[a].at = "stamp"
    BY <1>15 DEF ReadStamp
  <2>2. Shaped(next)
    BY <1>1, Edits
  <2>3. ~Loading(next) /\ ~OnItsWay(call[a]) /\ ~Loading(call[a])
    BY <1>1, <2>1 DEF Shaped, Loading, OnItsWay
  <2> HIDE DEF next
  <2> QED BY <2>1, <2>2, <2>3, CheckKeeps
<1>16. CASE RestoreRow(a)
  <2> DEFINE t == [db EXCEPT !.up[call[a].up].deleted = 0]
             revive == [call[a] EXCEPT !.at = "revive"]
             next == IF call[a].stamp = 0 THEN Written(a) ELSE revive
  <2>1. Write(a, t, TRUE, next)
    BY <1>16 DEF RestoreRow
  <2>2. Whole(t)
    BY <1>1 DEF Whole
  <2>3. Shaped(revive) /\ ~Loading(revive) /\ OnItsWay(revive) /\ revive.tag = call[a].tag
    BY <1>1 DEF Shaped, Loading, OnItsWay
  <2>4. Shaped(next) /\ ~Loading(next) /\ OnItsWay(next) /\ next.tag = call[a].tag
    <3> HIDE DEF revive
    <3> QED BY <2>3, WrittenShape
  <2> HIDE DEF t, next
  <2> QED BY <2>1, <2>2, <2>4, WriteKeeps
<1>17. CASE ReviveRelations(a)
  <2>1. served' = served
    BY <1>17 DEF ReviveRelations
  <2>2. \/ AnswerError(a) /\ db' = db
        \/ /\ \E rows : db' = [db EXCEPT !.rel = rows]
           /\ Goes(a, Written(a))
           /\ \E culprit : history' = [history EXCEPT !.writer = call[a].tag, !.told = FALSE,
                                                      !.culprit = culprit]
    BY <1>17 DEF ReviveRelations, Goes
  <2>3. CASE AnswerError(a) /\ db' = db
    BY <2>1, <2>3, Refused
  <2>4. CASE /\ \E rows : db' = [db EXCEPT !.rel = rows]
             /\ Goes(a, Written(a))
             /\ \E culprit : history' = [history EXCEPT !.writer = call[a].tag, !.told = FALSE,
                                                        !.culprit = culprit]
    <3>1. Whole(db')
      BY <1>1, <2>4 DEF Whole
    <3>2. Noted(history') /\ history'.writer = call[a].tag
      BY <1>1, <2>4 DEF Noted
    <3> QED BY <2>1, <2>4, <3>1, <3>2, WrittenShape, Changing
  <2> QED BY <2>2, <2>3, <2>4
<1> QED BY <1>2, <1>3, <1>4, <1>5, <1>6, <1>7, <1>8, <1>9, <1>10, <1>11, <1>12, <1>13,
           <1>14, <1>15, <1>16, <1>17 DEF UpstreamCall

-----------------------------------------------------------------------------
(***************************************************************************)
(* The rebuild, and all steps.                                             *)
(***************************************************************************)
LEMMA Loads ==
  ASSUME NEW c, Shaped(c), NEW at, NEW v
  PROVE  /\ Shaped([c EXCEPT !.at = at, !.input.rules = v])
         /\ Shaped([c EXCEPT !.at = at, !.input.ups = v])
         /\ Shaped([c EXCEPT !.at = at, !.input.nodes = v])
         /\ Shaped([c EXCEPT !.at = at, !.input.rels = v])
<1> DEFINE d(i) == [c EXCEPT !.at = at, !.input = i]
<1>1. \A i : i = [rules |-> i.rules, ups |-> i.ups, nodes |-> i.nodes, rels |-> i.rels]
             => Shaped(d(i))
  <2> SUFFICES ASSUME NEW i, i = [rules |-> i.rules, ups |-> i.ups, nodes |-> i.nodes,
                                  rels |-> i.rels]
               PROVE  Shaped(d(i))
    OBVIOUS
  <2>1. Shaped([c EXCEPT !.at = at])
    BY Edits
  <2>2. \A e : Shaped(e) => Shaped([e EXCEPT !.input = i])
    BY DEF Shaped
  <2>3. d(i) = [[c EXCEPT !.at = at] EXCEPT !.input = i]
    OBVIOUS
  <2> HIDE DEF d
  <2> QED BY <2>1, <2>2, <2>3
<1>2. c.input = [rules |-> c.input.rules, ups |-> c.input.ups, nodes |-> c.input.nodes,
                 rels |-> c.input.rels]
  BY DEF Shaped
<1>3. /\ [c EXCEPT !.at = at, !.input.rules = v] = d([c.input EXCEPT !.rules = v])
      /\ [c EXCEPT !.at = at, !.input.ups = v] = d([c.input EXCEPT !.ups = v])
      /\ [c EXCEPT !.at = at, !.input.nodes = v] = d([c.input EXCEPT !.nodes = v])
      /\ [c EXCEPT !.at = at, !.input.rels = v] = d([c.input EXCEPT !.rels = v])
  BY DEF Shaped
<1> HIDE DEF d
<1> QED BY <1>1, <1>2, <1>3

LEMMA RebuildKeeps ==
  ASSUME RouteTablesInv, NEW a \in Admins, Rebuild(a)
  PROVE  RouteTablesInv'
<1>1. Shaped(call[a])
  BY DEF RouteTablesInv, ShapeOK
<1>2. CASE LoadRules(a)
  <2> DEFINE next == [call[a] EXCEPT !.at = "loadUps", !.input.rules = RuleRows(db)]
  <2>1. /\ Goes(a, next) /\ db' = db /\ history' = history /\ served' = served
        /\ call[a].at = "rebuild"
    BY <1>2 DEF LoadRules, Check, Goes
  <2>2. \A b \in Admins : ~Loading(call[b])
    BY <1>2 DEF LoadRules, Rebuilding, Loading
  <2>3. Shaped(next)
    BY <1>1, Loads
  <2>4. /\ next.at = "loadUps" /\ next.tag = call[a].tag /\ next.input.rules = RuleRows(db)
    BY <1>1 DEF Shaped
  <2> HIDE DEF next
  <2>5. Loading(next) /\ UpToDate(next) /\ OnItsWay(call[a])
    BY <2>1, <2>4 DEF Loading, UpToDate, OnItsWay
  <2> QED BY <2>1, <2>2, <2>3, <2>4, <2>5, LoadingOn
<1>3. CASE LoadUpstreams(a)
  <2> DEFINE next == [call[a] EXCEPT !.at = "loadNodes", !.input.ups = UpRows(db)]
  <2>1. /\ Goes(a, next) /\ db' = db /\ history' = history /\ served' = served
        /\ call[a].at = "loadUps"
    BY <1>3 DEF LoadUpstreams, Check, Goes
  <2>2. Loading(call[a]) /\ ~OnItsWay(call[a]) /\ \A b \in Admins : Loading(call[b]) => b = a
    BY <2>1 DEF Loading, OnItsWay, OneRebuild, RouteTablesInv
  <2>3. Shaped(next)
    BY <1>1, Loads
  <2>4. /\ next.at = "loadNodes" /\ next.tag = call[a].tag /\ next.input.ups = UpRows(db)
        /\ next.input.rules = call[a].input.rules
    BY <1>1 DEF Shaped
  <2> HIDE DEF next
  <2>5. Loading(next) /\ (UpToDate(call[a]) => UpToDate(next))
    BY <2>1, <2>4 DEF Loading, UpToDate
  <2> QED BY <2>1, <2>2, <2>3, <2>4, <2>5, LoadingOn
<1>4. CASE LoadNodes(a)
  <2> DEFINE next == [call[a] EXCEPT !.at = "loadRels", !.input.nodes = NodeRows(db)]
  <2>1. /\ Goes(a, next) /\ db' = db /\ history' = history /\ served' = served
        /\ call[a].at = "loadNodes"
    BY <1>4 DEF LoadNodes, Check, Goes
  <2>2. Loading(call[a]) /\ ~OnItsWay(call[a]) /\ \A b \in Admins : Loading(call[b]) => b = a
    BY <2>1 DEF Loading, OnItsWay, OneRebuild, RouteTablesInv
  <2>3. Shaped(next)
    BY <1>1, Loads
  <2>4. /\ next.at = "loadRels" /\ next.tag = call[a].tag /\ next.input.nodes = NodeRows(db)
        /\ next.input.rules = call[a].input.rules /\ next.input.ups = call[a].input.ups
    BY <1>1 DEF Shaped
  <2> HIDE DEF next
  <2>5. Loading(next) /\ (UpToDate(call[a]) => UpToDate(next))
    BY <2>1, <2>4 DEF Loading, UpToDate
  <2> QED BY <2>1, <2>2, <2>3, <2>4, <2>5, LoadingOn
<1>5. CASE LoadRelations(a)
  <2> DEFINE next == [call[a] EXCEPT !.at = "store", !.input.rels = Relations(db)]
  <2>1. /\ Goes(a, next) /\ db' = db /\ history' = history /\ served' = served
        /\ call[a].at = "loadRels"
    BY <1>5 DEF LoadRelations, Check, Goes
  <2>2. Loading(call[a]) /\ ~OnItsWay(call[a]) /\ \A b \in Admins : Loading(call[b]) => b = a
    BY <2>1 DEF Loading, OnItsWay, OneRebuild, RouteTablesInv
  <2>3. Shaped(next)
    BY <1>1, Loads
  <2>4. /\ next.at = "store" /\ next.tag = call[a].tag /\ next.input.rels = Relations(db)
        /\ next.input.rules = call[a].input.rules /\ next.input.ups = call[a].input.ups
        /\ next.input.nodes = call[a].input.nodes
    BY <1>1 DEF Shaped
  <2> HIDE DEF next
  <2>5. Loading(next) /\ (UpToDate(call[a]) => UpToDate(next))
    BY <2>1, <2>4 DEF Loading, UpToDate
  <2> QED BY <2>1, <2>2, <2>3, <2>4, <2>5, LoadingOn
<1>6. CASE StoreSnapshot(a)
  <2>1. call[a].at = "store" /\ db' = db
    BY <1>6 DEF StoreSnapshot
  <2>2. CASE ValidateGraph(call[a].input)
    <3>1. served' = call[a].input /\ Goes(a, Idle) /\ history' = history
      BY <1>6, <2>2 DEF StoreSnapshot, Goes
    <3> QED BY <2>1, <3>1, Storing
  <2>3. CASE ~ValidateGraph(call[a].input)
    BY <1>6, <2>1, <2>3, Refused DEF StoreSnapshot
  <2> QED BY <2>2, <2>3
<1> QED BY <1>2, <1>3, <1>4, <1>5, <1>6 DEF Rebuild

LEMMA RouteTablesStep == RouteTablesInv /\ [Next]_vars => RouteTablesInv'
<1> SUFFICES ASSUME RouteTablesInv, [Next]_vars PROVE RouteTablesInv'
  OBVIOUS
<1>1. ASSUME NEW a \in Admins,
             NodeCall(a) \/ RuleCall(a) \/ TagCall(a) \/ UpstreamCall(a) \/ Rebuild(a) \/ Fail(a)
      PROVE  RouteTablesInv'
  BY <1>1, NodeCallKeeps, RuleCallKeeps, TagCallKeeps, UpstreamCallKeeps, RebuildKeeps,
     FailKeeps
<1>2. CASE UNCHANGED vars
  BY <1>2 DEF vars, RouteTablesInv, ShapeOK, Shaped, Whole, Noted, OneRebuild, WillServe,
              UpToDate, Loading, OnItsWay, RuleRows, UpRows, NodeRows, Relations, Graph,
              ActiveRule, ActiveUp, ActiveNode
<1> QED BY <1>1, <1>2 DEF Next

LEMMA RouteTablesMeaning == RouteTablesInv => ServedOrTold
<1> SUFFICES ASSUME RouteTablesInv, Quiet PROVE served = Graph(db) \/ history.told
  BY DEF ServedOrTold
<1>1. \A a \in Admins : ~OnItsWay(call[a]) /\ ~Loading(call[a])
  BY DEF Quiet, OnItsWay, Loading
<1> QED BY <1>1 DEF RouteTablesInv, WillServe

\* Saved is in force: when no call is under way, requests are routed by what the
\* tables say, or whoever changed them last was answered with an error, for any
\* number of administrators, rows and failing statements (afterWrite and Rebuild
\* in src/plugins/dispatch/admin.go).
THEOREM TablesServedOrTold == Spec => []ServedOrTold
<1>1. Init => RouteTablesInv
  BY RouteTablesStart
<1>2. RouteTablesInv /\ [Next]_vars => RouteTablesInv'
  BY RouteTablesStep
<1>3. RouteTablesInv => ServedOrTold
  BY RouteTablesMeaning
<1> QED BY <1>1, <1>2, <1>3, PTL DEF Spec

\* The dispatcher with its requests does nothing to the tables that the handlers
\* alone would not do: matching, choosing a node, probes and the ends of requests
\* are no writes.
THEOREM TrafficImplementsRouteTables == TrafficSpec => Spec
<1>1. TrafficInit => Init
  BY DEF TrafficInit
<1>2. ASSUME [TrafficNext]_trafficVars
      PROVE  [Next]_vars
  <2>1. ASSUME NEW a \in Admins, Administer(a) \/ Replace(a)
        PROVE  Next
    BY <2>1 DEF Administer, Replace, Next
  <2>2. ASSUME NEW n \in Nodes, OnResponse(n) \/ Probe(n)
        PROVE  UNCHANGED vars
    BY <2>2 DEF OnResponse, Probe
  <2>3. ASSUME NEW host, NEW path, NEW cookie, Handle(host, path, cookie)
        PROVE  UNCHANGED vars
    BY <2>3 DEF Handle
  <2>4. CASE UNCHANGED trafficVars
    BY <2>4 DEF trafficVars
  <2> QED BY <1>2, <2>1, <2>2, <2>3, <2>4 DEF TrafficNext
<1> QED BY <1>1, <1>2, PTL DEF TrafficSpec, Spec

\* The same with requests on the way, nodes failing and snapshots replaced.
THEOREM ServedOrToldHolds == TrafficSpec => []ServedOrTold
BY TrafficImplementsRouteTables, TablesServedOrTold, PTL

-----------------------------------------------------------------------------
(***************************************************************************)
(* What the tables hold.                                                   *)
(***************************************************************************)
RelRow == [up : Upstreams, node : Nodes, by : Stamps, deleted : Stamps]

SameRow(x, y) == x.up = y.up /\ x.node = y.node /\ x.by = y.by

\* What a call needs at each of its statements.
Fits(c) ==
  /\ c.at \in {"url", "related", "readNode", "writeNode", "dropNode"} => c.node \in Nodes
  /\ c.at \in {"url", "writeNode"} /\ c.op = "save" => c.url \in Urls
  /\ c.at \in {"exists", "writeRule"} => c.op \in {"save", "restore"}
  /\ c.at \in {"exists", "writeRule"} /\ c.op = "save" => c.up \in Upstreams
  /\ c.at \in {"exists", "dropRule", "readRule", "writeRule", "ruleTags"} => c.rule \in Rules
  /\ c.op = "save" /\ c.at \in {"untag", "newTag"} => c.rule \in Rules
  /\ c.at \in {"findTag", "tagRule"} => c.rule \in Rules
  /\ c.at \in {"ruleTags", "findTag", "tagRule"} => c.op = "save"
  /\ c.at \in {"tagRules", "dropTag"} => c.op = "dropTag"
  /\ c.at = "rename" => c.op = "rename"
  /\ c.at = "name" => c.op \in {"add", "rename"}
  /\ c.at = "name" /\ c.op = "add" => c.id = 0
  /\ c.op \in {"dropTag", "rename"} => c.at \in {"name", "rename", "tagRules", "untag", "dropTag"}
  /\ c.at = "newTag" => c.op \in {"add", "save"}
  /\ c.at = "untag" => c.op \in {"save", "dropTag"}
  /\ c.at \in {"name", "newTag", "rename", "tagRule"} => c.label \in Labels
  /\ c.at \in {"findTag", "tagRule"} => c.todo \subseteq Labels
  /\ c.at = "newTag" /\ c.op = "save" => c.todo \subseteq Labels
  /\ c.at \in {"nodes", "used", "dropUp", "list", "remove", "insert",
               "readUp", "stamp", "restoreUp", "revive"} => c.up \in Upstreams
  /\ c.at \in {"nodes", "insert"} => c.todo \subseteq Nodes
  /\ c.at \in {"readNode", "readRule"} => c.op = "restore"
  /\ c.at \in {"used", "dropUp"} => c.group = {}
  /\ c.at = "store" => c.input.rels \subseteq RelRow

Formed(c) ==
  /\ Shaped(c) /\ c.on \in BOOLEAN /\ c.group \subseteq Nodes /\ c.labels \subseteq Labels
  /\ c.id \in Nat /\ Fits(c)

\* n calls have begun.
CallOK(c, n) ==
  /\ Formed(c)
  /\ IF c.at = "idle" THEN c = Idle ELSE c.tag \in 1 .. n

\* Rows stay, whatever becomes of them.
Listed(c, t) == c.at = "remove" => \A x \in c.todo : \E y \in t.rel : SameRow(x, y)

HistoryOK(h) ==
  /\ Noted(h) /\ h.raced \in BOOLEAN /\ h.culprit \in BOOLEAN
  /\ h.tagged = [r \in Rules |-> h.tagged[r]]

RouteTablesTypeOK ==
  /\ db \in Tables /\ served.rels \subseteq RelRow
  /\ call = [a \in Admins |-> call[a]]
  /\ \A a \in Admins : CallOK(call[a], calls) /\ Listed(call[a], db)
  /\ calls \in 0 .. MaxCalls /\ failures \in Nat
  /\ HistoryOK(history)

\* A rule that is not deleted has its upstream, and the checks of a call still hold.
RulesHold(c, t) ==
  /\ \A r \in Rules : ActiveRule(t, r) => ActiveUp(t, t.rule[r].up)
  /\ c.at = "writeRule" => ActiveUp(t, c.up)
  /\ c.at \in {"exists", "writeRule"} /\ c.op = "restore" => t.rule[c.rule].up = c.up
  /\ c.at = "dropUp" => \A r \in Rules : ActiveRule(t, r) => t.rule[r].up # c.up

\* A relation is known by its pair and its call, and by its pair and its deletion.
RowsApart(t, n) ==
  /\ \A x, y \in t.rel : SameRow(x, y) => x = y
  /\ \A x, y \in t.rel : x.up = y.up /\ x.node = y.node /\ x.deleted = y.deleted => x = y
  /\ \A x \in t.rel : x.by <= n /\ x.deleted <= n

\* The call is replacing, deleting or restoring the relations of its upstream.
Replacing(c) == c.at \in {"list", "remove", "insert", "revive"}

Complete(t, u) == ActiveUp(t, u) => \E x \in Relations(t) : x.up = u
Restorable(t, u) ==
  t.up[u].there /\ t.up[u].deleted # 0
    => \E x \in t.rel : x.up = u /\ x.deleted = t.up[u].deleted

GraphOK(t, spared) ==
  /\ \A x \in Relations(t) : ActiveNode(t, x.node) /\ (x.up \in spared \/ ActiveUp(t, x.up))
  /\ \A u \in Upstreams \ spared : Complete(t, u) /\ Restorable(t, u)

Spared(c) == IF Replacing(c) THEN {c.up} ELSE {}

\* The checks of a call still hold, and nothing bears its stamp yet.
ChecksHold(c, t) ==
  /\ c.at = "dropNode" => \A x \in Relations(t) : x.node # c.node
  /\ c.at = "nodes" => \A n \in c.group \ c.todo : ActiveNode(t, n)
  /\ c.at \in {"used", "dropUp", "readUp", "stamp", "restoreUp"} => t.up[c.up].there
  /\ c.at \in {"stamp", "restoreUp"} => t.up[c.up].deleted # 0
  /\ c.at = "restoreUp" => c.stamp = t.up[c.up].deleted
  /\ c.at \in {"nodes", "used", "dropUp", "list", "readUp", "stamp", "restoreUp", "revive"}
       => \A x \in t.rel : x.by # c.tag /\ x.deleted # c.tag

\* With a group the upstream is being saved, without one deleted.
ReplacingOK(c, t) ==
  /\ c.at \in {"list", "remove", "insert"} =>
       IF c.group # {}
       THEN ActiveUp(t, c.up) /\ \A n \in c.group : ActiveNode(t, n)
       ELSE t.up[c.up].there /\ t.up[c.up].deleted = c.tag
  /\ c.at = "list" /\ c.group = {} => \E x \in Relations(t) : x.up = c.up
  /\ c.at = "remove" =>
       /\ c.todo = {x \in Relations(t) : x.up = c.up}
       /\ \A y \in t.rel : y.by # c.tag
       /\ \A y \in t.rel : y.up = c.up /\ y.deleted = c.tag => \A x \in c.todo : x.node # y.node
       /\ c.group = {} => \E y \in t.rel : y.up = c.up /\ (y \in c.todo \/ y.deleted = c.tag)
  /\ c.at = "insert" =>
       /\ c.todo \subseteq c.group
       /\ \A x \in Relations(t) : x.up = c.up => x.node \in c.group \ c.todo
       /\ \A n \in c.group \ c.todo : \E x \in Relations(t) : x.up = c.up /\ x.node = n
       /\ \A y \in t.rel : y.by = c.tag => y.node \notin c.todo
       /\ c.group = {} => \E y \in t.rel : y.up = c.up /\ y.deleted = c.tag
  /\ c.at = "revive" =>
       /\ ActiveUp(t, c.up) /\ c.stamp # 0
       /\ \A x \in Relations(t) : x.up # c.up
       /\ \E y \in t.rel : y.up = c.up /\ y.deleted = c.stamp

GraphHolds(c, t, n) ==
  /\ RowsApart(t, n) /\ GraphOK(t, Spared(c))
  /\ ChecksHold(c, t) /\ ReplacingOK(c, t)

LiveTag(t, i) == i \in DOMAIN t.tag /\ t.tag[i].deleted = 0
LiveTie(t, k, r, i) ==
  /\ k \in DOMAIN t.ruleTag /\ t.ruleTag[k].deleted = 0
  /\ t.ruleTag[k].rule = r /\ t.ruleTag[k].tag = i

\* The list of rules shows the rule with the name.
Shows(t, r, name) ==
  \E i \in DOMAIN t.tag, k \in DOMAIN t.ruleTag :
    LiveTag(t, i) /\ LiveTie(t, k, r, i) /\ t.tag[i].name = name

TagRowsApart(t, n) ==
  /\ \A i, j \in DOMAIN t.tag : LiveTag(t, i) /\ LiveTag(t, j) /\ t.tag[i].name = t.tag[j].name
                                  => i = j
  /\ \A i, j \in DOMAIN t.tag : t.tag[i].deleted = t.tag[j].deleted /\ t.tag[i].deleted # 0
                                  => i = j
  /\ \A k \in DOMAIN t.ruleTag : t.ruleTag[k].tag \in DOMAIN t.tag
  /\ \A j, k \in DOMAIN t.ruleTag :
       t.ruleTag[j].rule = t.ruleTag[k].rule /\ t.ruleTag[j].tag = t.ruleTag[k].tag
       /\ t.ruleTag[j].deleted = t.ruleTag[k].deleted => j = k
  /\ \A i \in DOMAIN t.tag : t.tag[i].deleted <= n
  /\ \A k \in DOMAIN t.ruleTag : t.ruleTag[k].deleted <= n

\* The call is giving a rule its tags.
GivesTags(c) == c.op = "save" /\ c.at \in {"ruleTags", "untag", "findTag", "newTag", "tagRule"}

\* The call is taking a tag from all rules.
TakesTag(c) == c.op = "dropTag" /\ c.at \in {"untag", "dropTag"}

\* The rules show the names they were given, but for what the call is at.
NamesHold(c, t, tagged) ==
  \A r \in Rules : \A name :
    \/ GivesTags(c) /\ r = c.rule
    \/ TakesTag(c) /\ LiveTag(t, c.id) /\ t.tag[c.id].name = name
    \/ Shows(t, r, name) <=> name \in tagged[r]

TaggingOK(c, t, tagged) ==
  /\ GivesTags(c) => tagged[c.rule] = c.labels
  /\ GivesTags(c) /\ c.at \in {"findTag", "newTag", "tagRule"} =>
       /\ c.todo \subseteq c.labels
       /\ \A name : Shows(t, c.rule, name) <=> name \in c.labels \ c.todo
  /\ c.at = "newTag" => /\ \A i \in DOMAIN t.tag : LiveTag(t, i) => t.tag[i].name # c.label
                        /\ c.op = "save" => c.label \in c.todo
  /\ c.at = "tagRule" => c.label \in c.todo /\ LiveTag(t, c.id) /\ t.tag[c.id].name = c.label
  /\ c.at = "rename" => \A i \in DOMAIN t.tag : LiveTag(t, i) /\ i # c.id
                                                  => t.tag[i].name # c.label
  /\ c.op \in {"dropTag", "rename"} => c.id \in DOMAIN t.tag
  /\ c.at = "untag" =>
       /\ c.todo = {k \in DOMAIN t.ruleTag :
                      /\ t.ruleTag[k].deleted = 0
                      /\ IF c.op = "save" THEN t.ruleTag[k].rule = c.rule
                                          ELSE t.ruleTag[k].tag = c.id}
       /\ \A k \in DOMAIN t.ruleTag : t.ruleTag[k].deleted = c.tag =>
            \A i \in c.todo : \/ t.ruleTag[i].rule # t.ruleTag[k].rule
                              \/ t.ruleTag[i].tag # t.ruleTag[k].tag
  /\ c.at = "dropTag" => \A k \in DOMAIN t.ruleTag : t.ruleTag[k].deleted = 0
                                                       => t.ruleTag[k].tag # c.id
  /\ c.at \in {"exists", "readRule", "writeRule", "ruleTags", "tagRules"}
       => \A k \in DOMAIN t.ruleTag : t.ruleTag[k].deleted # c.tag
  /\ c.op = "dropTag" => \A i \in DOMAIN t.tag : t.tag[i].deleted # c.tag

TagsHold(c, t, n, tagged) ==
  TagRowsApart(t, n) /\ NamesHold(c, t, tagged) /\ TaggingOK(c, t, tagged)

\* f statements have failed, n calls have begun, and c is the only one under way.
Holds(c, t, f, h, n) ==
  /\ RulesHold(c, t)
  /\ f = 0 /\ ~h.culprit => GraphHolds(c, t, n)
  /\ f = 0 => TagsHold(c, t, n, h.tagged)

Alone(a) == \A b \in Admins \ {a} : call[b].at = "idle"

TablesInv ==
  /\ RouteTablesTypeOK
  /\ ~history.raced =>
       /\ Quiet => Holds(Idle, db, failures, history, calls)
       /\ \A a \in Admins : call[a].at # "idle"
            => Alone(a) /\ Holds(call[a], db, failures, history, calls)

\* No row vanishes.
RowsStay(s, t) == \A x \in s.rel : \E y \in t.rel : SameRow(x, y)

\* The call is not in the middle of something.
AtRest(c) == ~Replacing(c) /\ ~GivesTags(c) /\ ~TakesTag(c)

-----------------------------------------------------------------------------
(***************************************************************************)
(* Tables with a column or a table replaced.                               *)
(***************************************************************************)
RuleTable == [Rules -> [up : Upstreams \cup {None}, on : BOOLEAN, deleted : Stamps]]
UpTable == [Upstreams -> [there : BOOLEAN, deleted : Stamps]]
NodeTable == [Nodes -> [url : Urls \cup {None}, deleted : Stamps]]
TagRow == [name : Labels, deleted : Stamps]
TieRow == [rule : Rules, tag : Nat, deleted : Stamps]

LEMMA TableTypes ==
  ASSUME NEW t \in Tables
  PROVE  /\ Whole(t) /\ t.rule \in RuleTable /\ t.up \in UpTable /\ t.node \in NodeTable
         /\ t.rel \subseteq RelRow /\ t.tag \in Seq(TagRow) /\ t.ruleTag \in Seq(TieRow)
BY DEF Tables, Whole, RuleTable, UpTable, NodeTable, RelRow, TagRow, TieRow

LEMMA Replaced ==
  ASSUME NEW t \in Tables, NEW v
  PROVE  /\ v \in RuleTable => [t EXCEPT !.rule = v] \in Tables
         /\ v \in UpTable => [t EXCEPT !.up = v] \in Tables
         /\ v \in NodeTable => [t EXCEPT !.node = v] \in Tables
         /\ v \subseteq RelRow => [t EXCEPT !.rel = v] \in Tables
         /\ v \in Seq(TagRow) => [t EXCEPT !.tag = v] \in Tables
         /\ v \in Seq(TieRow) => [t EXCEPT !.ruleTag = v] \in Tables
<1>1. v \in RuleTable => [t EXCEPT !.rule = v] \in Tables
  BY DEF Tables, RuleTable
<1>2. v \in UpTable => [t EXCEPT !.up = v] \in Tables
  BY DEF Tables, UpTable
<1>3. v \in NodeTable => [t EXCEPT !.node = v] \in Tables
  BY DEF Tables, NodeTable
<1>4. v \subseteq RelRow => [t EXCEPT !.rel = v] \in Tables
  BY DEF Tables, RelRow
<1>5. v \in Seq(TagRow) => [t EXCEPT !.tag = v] \in Tables
  BY DEF Tables, TagRow
<1>6. v \in Seq(TieRow) => [t EXCEPT !.ruleTag = v] \in Tables
  BY DEF Tables, TieRow
<1> QED BY <1>1, <1>2, <1>3, <1>4, <1>5, <1>6

-----------------------------------------------------------------------------
(***************************************************************************)
(* The kinds of steps.                                                     *)
(***************************************************************************)
LEMMA IdleOK ==
  ASSUME NEW n \in Nat, NEW t
  PROVE  CallOK(Idle, n) /\ Listed(Idle, t)
<1>1. /\ Shaped(Idle) /\ Idle.at = "idle" /\ Idle.op = "none" /\ Idle.on = FALSE
      /\ Idle.group = {} /\ Idle.labels = {} /\ Idle.id = 0
  BY IdleShape DEF Idle
<1>2. Idle.on \in BOOLEAN
  BY <1>1
<1>3. Fits(Idle) /\ Listed(Idle, t)
  BY <1>1 DEF Fits, Listed
<1> QED BY <1>1, <1>2, <1>3 DEF CallOK, Formed

LEMMA OlderOK ==
  ASSUME NEW c, NEW m \in Nat, NEW n \in Nat, m <= n, CallOK(c, m)
  PROVE  CallOK(c, n)
BY DEF CallOK

LEMMA ListedStays ==
  ASSUME NEW c, NEW s, NEW t, Listed(c, s), RowsStay(s, t)
  PROVE  Listed(c, t)
BY DEF Listed, RowsStay, SameRow

LEMMA Moves ==
  ASSUME TablesInv, NEW a \in Admins, NEW next, Goes(a, next), next.at = "idle" => next = Idle,
         CallOK(next, calls'), Listed(next, db'), db' \in Tables, RowsStay(db, db'),
         served'.rels \subseteq RelRow, calls' \in 0 .. MaxCalls, calls <= calls',
         failures' \in Nat, HistoryOK(history'),
         ~history'.raced => /\ ~history.raced /\ Alone(a)
                            /\ Holds(next, db', failures', history', calls')
  PROVE  TablesInv'
<1>1. /\ call'[a] = next /\ \A b \in Admins : b # a => call'[b] = call[b]
      /\ call' = [b \in Admins |-> call'[b]]
  BY DEF TablesInv, RouteTablesTypeOK, Goes
<1>2. \A b \in Admins : CallOK(call'[b], calls') /\ Listed(call'[b], db')
  <2>1. calls \in Nat /\ calls' \in Nat
    BY RouteTablesAssumption DEF TablesInv, RouteTablesTypeOK
  <2>2. ASSUME NEW b \in Admins, b # a
        PROVE  CallOK(call[b], calls') /\ Listed(call[b], db')
    BY <2>1, OlderOK, ListedStays DEF TablesInv, RouteTablesTypeOK
  <2> QED BY <1>1, <2>2
<1>3. RouteTablesTypeOK'
  BY <1>1, <1>2 DEF RouteTablesTypeOK
<1>4. ASSUME ~history'.raced
      PROVE  /\ Quiet' => Holds(Idle, db', failures', history', calls')
             /\ \A b \in Admins : call'[b].at # "idle"
                  => Alone(b)' /\ Holds(call'[b], db', failures', history', calls')
  <2>1. Alone(a) /\ Holds(next, db', failures', history', calls')
    BY <1>4
  <2>2. \A b \in Admins : b # a => call'[b].at = "idle"
    BY <1>1, <2>1 DEF Alone
  <2>3. Quiet' => next = Idle
    BY <1>1 DEF Quiet
  <2>4. Alone(a)'
    BY <2>2 DEF Alone
  <2> QED BY <1>1, <2>1, <2>2, <2>3, <2>4
<1> QED BY <1>3, <1>4 DEF TablesInv

LEMMA TagTypes ==
  ASSUME NEW t, t.tag \in Seq(TagRow), t.ruleTag \in Seq(TieRow)
  PROVE  /\ DOMAIN t.tag = 1 .. Len(t.tag) /\ DOMAIN t.ruleTag = 1 .. Len(t.ruleTag)
         /\ \A i \in DOMAIN t.tag : t.tag[i].name \in Labels /\ t.tag[i].deleted \in Nat
         /\ \A k \in DOMAIN t.ruleTag : /\ t.ruleTag[k].rule \in Rules
                                        /\ t.ruleTag[k].tag \in Nat
                                        /\ t.ruleTag[k].deleted \in Nat
<1>1. Stamps \subseteq Nat
  BY RouteTablesAssumption DEF Stamps
<1>2. \A S, q : q \in Seq(S) => DOMAIN q = 1 .. Len(q) /\ \A i \in DOMAIN q : q[i] \in S
  OBVIOUS
<1>3. /\ DOMAIN t.tag = 1 .. Len(t.tag) /\ \A i \in DOMAIN t.tag : t.tag[i] \in TagRow
      /\ DOMAIN t.ruleTag = 1 .. Len(t.ruleTag)
      /\ \A k \in DOMAIN t.ruleTag : t.ruleTag[k] \in TieRow
  BY <1>2
<1> QED BY <1>1, <1>3 DEF TagRow, TieRow

-----------------------------------------------------------------------------
(***************************************************************************)
(* What of this is left alone by a step that is about something else.      *)
(***************************************************************************)
LEMMA RulesAside ==
  ASSUME NEW c, NEW d, NEW s, NEW t, RulesHold(c, s), t.rule = s.rule, t.up = s.up,
         d.at \notin {"exists", "writeRule", "dropUp"}
  PROVE  RulesHold(d, t)
BY DEF RulesHold, ActiveRule, ActiveUp

\* The call is at a statement the graph depends on.
AtGraph(c) ==
  c.at \in {"dropNode", "nodes", "used", "dropUp", "list", "remove", "insert",
            "readUp", "stamp", "restoreUp", "revive"}

LEMMA SameRows ==
  ASSUME NEW s, NEW t, t.up = s.up, t.node = s.node, t.rel = s.rel
  PROVE  /\ Relations(t) = Relations(s)
         /\ \A n : ActiveNode(t, n) = ActiveNode(s, n)
         /\ \A u : ActiveUp(t, u) = ActiveUp(s, u)
BY DEF Relations, ActiveNode, ActiveUp

LEMMA SameGraphOK ==
  ASSUME NEW s, NEW t, t.up = s.up, t.node = s.node, t.rel = s.rel, NEW spared,
         GraphOK(s, spared)
  PROVE  GraphOK(t, spared)
BY SameRows DEF GraphOK, Complete, Restorable

LEMMA GraphAside ==
  ASSUME NEW c, NEW d, NEW s, NEW t, NEW m \in Nat, NEW n \in Nat, m <= n,
         GraphHolds(c, s, m), t.up = s.up, t.node = s.node, t.rel = s.rel, s.rel \subseteq RelRow,
         ~Replacing(c), ~AtGraph(d)
  PROVE  GraphHolds(d, t, n)
<1>1. RowsApart(t, n)
  <2>1. \A x \in s.rel : x.by \in Nat /\ x.deleted \in Nat
    BY RouteTablesAssumption DEF RelRow, Stamps
  <2> QED BY <2>1 DEF GraphHolds, RowsApart
<1>2. GraphOK(t, Spared(d))
  <2>1. Spared(c) = {} /\ Spared(d) = {}
    BY DEF Spared, Replacing, AtGraph
  <2> QED BY <2>1, SameGraphOK DEF GraphHolds
<1>3. ChecksHold(d, t) /\ ReplacingOK(d, t)
  BY DEF ChecksHold, ReplacingOK, AtGraph
<1> QED BY <1>1, <1>2, <1>3 DEF GraphHolds

\* The call is at a statement the tags depend on.
AtTags(c) ==
  \/ c.at \in {"ruleTags", "untag", "findTag", "newTag", "tagRule", "dropTag", "rename",
               "exists", "readRule", "writeRule", "tagRules"}
  \/ c.op \in {"dropTag", "rename"}

LEMMA SameTags ==
  ASSUME NEW s, NEW t, t.tag = s.tag, t.ruleTag = s.ruleTag
  PROVE  /\ \A i : LiveTag(t, i) = LiveTag(s, i)
         /\ \A r, name : Shows(t, r, name) = Shows(s, r, name)
         /\ \A n : TagRowsApart(t, n) = TagRowsApart(s, n)
<1>1. \A i : LiveTag(t, i) = LiveTag(s, i)
  BY DEF LiveTag
<1>2. \A r, name : Shows(t, r, name) = Shows(s, r, name)
  BY DEF LiveTag, LiveTie, Shows
<1>3. \A n : TagRowsApart(t, n) = TagRowsApart(s, n)
  BY DEF LiveTag, TagRowsApart
<1> QED BY <1>1, <1>2, <1>3

LEMMA LaterTags ==
  ASSUME NEW t, t.tag \in Seq(TagRow), t.ruleTag \in Seq(TieRow), NEW m \in Nat, NEW n \in Nat,
         m <= n, TagRowsApart(t, m)
  PROVE  TagRowsApart(t, n)
<1>1. /\ \A i \in DOMAIN t.tag : t.tag[i].deleted \in Nat
      /\ \A k \in DOMAIN t.ruleTag : t.ruleTag[k].deleted \in Nat
  BY TagTypes
<1> QED BY <1>1 DEF TagRowsApart

LEMMA TagsAside ==
  ASSUME NEW c, NEW d, NEW s, NEW t, NEW m \in Nat, NEW n \in Nat, m <= n, NEW tagged,
         TagsHold(c, s, m, tagged), t.tag = s.tag, t.ruleTag = s.ruleTag,
         s.tag \in Seq(TagRow), s.ruleTag \in Seq(TieRow),
         ~GivesTags(c), ~TakesTag(c), ~AtTags(d)
  PROVE  TagsHold(d, t, n, tagged)
<1>1. TagRowsApart(t, n)
  BY LaterTags, SameTags DEF TagsHold
<1>2. NamesHold(d, t, tagged)
  BY SameTags DEF TagsHold, NamesHold
<1>3. TaggingOK(d, t, tagged)
  BY DEF TaggingOK, AtTags, GivesTags
<1> QED BY <1>1, <1>2, <1>3 DEF TagsHold

LEMMA IdleAside == ~AtGraph(Idle) /\ ~AtTags(Idle)
BY IdleShape DEF AtGraph, AtTags

LEMMA Resting ==
  ASSUME NEW c, AtRest(c), NEW t \in Tables, NEW f, NEW h, NEW n \in Nat, Holds(c, t, f, h, n)
  PROVE  Holds(Idle, t, f, h, n)
<1>1. t.rel \subseteq RelRow /\ t.tag \in Seq(TagRow) /\ t.ruleTag \in Seq(TieRow)
  BY TableTypes
<1>2. RulesHold(Idle, t)
  BY IdleShape, RulesAside DEF Holds
<1>3. f = 0 /\ ~h.culprit => GraphHolds(Idle, t, n)
  BY <1>1, IdleAside, GraphAside DEF Holds, AtRest
<1>4. f = 0 => TagsHold(Idle, t, n, h.tagged)
  BY <1>1, IdleAside, TagsAside DEF Holds, AtRest
<1> QED BY <1>2, <1>3, <1>4 DEF Holds

\* A handler begins: nothing bears its stamp.
Starts(c, t) ==
  /\ c.at \in {"url", "related", "readNode", "exists", "dropRule", "readRule", "name",
               "tagRules", "nodes", "used", "readUp"}
  /\ c.at = "exists" => c.op = "save"
  /\ c.at = "nodes" => c.todo = c.group
  /\ c.at \in {"used", "readUp"} => t.up[c.up].there
  /\ c.op \in {"dropTag", "rename"} => c.id \in DOMAIN t.tag

LEMMA Starting ==
  ASSUME NEW c, NEW t \in Tables, NEW f, NEW h, NEW n \in Nat, Holds(Idle, t, f, h, n),
         Starts(c, t), c.tag = n + 1
  PROVE  Holds(c, t, f, h, n + 1)
<1>1. /\ t.rel \subseteq RelRow /\ t.tag \in Seq(TagRow) /\ t.ruleTag \in Seq(TieRow)
      /\ Stamps \subseteq Nat
  BY TableTypes, RouteTablesAssumption DEF Stamps
<1>2. RulesHold(c, t)
  BY DEF Holds, RulesHold, Starts
<1>3. ASSUME GraphHolds(Idle, t, n)
      PROVE  GraphHolds(c, t, n + 1)
  <2>1. \A x \in t.rel : x.by \in Nat /\ x.deleted \in Nat /\ x.by <= n /\ x.deleted <= n
    BY <1>1, <1>3 DEF RelRow, GraphHolds, RowsApart
  <2>2. RowsApart(t, n + 1)
    BY <1>3, <2>1 DEF GraphHolds, RowsApart
  <2>3. Spared(c) = {} /\ Spared(Idle) = {}
    BY IdleShape DEF Spared, Replacing, Starts
  <2>4. \A x \in t.rel : x.by # c.tag /\ x.deleted # c.tag
    BY <2>1
  <2>5. ChecksHold(c, t) /\ ReplacingOK(c, t)
    BY <2>4 DEF ChecksHold, ReplacingOK, Starts
  <2> QED BY <1>3, <2>2, <2>3, <2>5 DEF GraphHolds
<1>4. ASSUME TagsHold(Idle, t, n, h.tagged)
      PROVE  TagsHold(c, t, n + 1, h.tagged)
  <2>1. TagRowsApart(t, n + 1)
    BY <1>1, <1>4, LaterTags DEF TagsHold
  <2>2. ~GivesTags(c) /\ ~GivesTags(Idle) /\ ~TakesTag(Idle)
    BY IdleShape DEF GivesTags, TakesTag, Starts
  <2>3. NamesHold(c, t, h.tagged)
    BY <1>4, <2>2 DEF TagsHold, NamesHold
  <2>4. /\ \A i \in DOMAIN t.tag : t.tag[i].deleted \in Nat /\ t.tag[i].deleted <= n
        /\ \A k \in DOMAIN t.ruleTag : t.ruleTag[k].deleted \in Nat /\ t.ruleTag[k].deleted <= n
    BY <1>1, <1>4, TagTypes DEF TagsHold, TagRowsApart
  <2>5. /\ \A i \in DOMAIN t.tag : t.tag[i].deleted # c.tag
        /\ \A k \in DOMAIN t.ruleTag : t.ruleTag[k].deleted # c.tag
    BY <2>4
  <2>6. TaggingOK(c, t, h.tagged)
    BY <2>2, <2>5 DEF TaggingOK, Starts
  <2> QED BY <2>1, <2>3, <2>6 DEF TagsHold
<1> QED BY <1>2, <1>3, <1>4 DEF Holds

-----------------------------------------------------------------------------
LEMMA BeginHolds ==
  ASSUME TablesInv, NEW a \in Admins, NEW c, Begin(a, c), Formed(c), Starts(c, db)
  PROVE  TablesInv'
<1> DEFINE d == [c EXCEPT !.tag = calls + 1]
<1>1. /\ call[a].at = "idle" /\ calls < MaxCalls /\ calls' = calls + 1 /\ Goes(a, d)
      /\ history' = [history EXCEPT !.raced = @ \/ \E b \in Admins : call[b].at # "idle"]
      /\ db' = db /\ served' = served /\ failures' = failures
  BY DEF Begin, Goes
<1>2. /\ db \in Tables /\ served.rels \subseteq RelRow /\ calls \in 0 .. MaxCalls
      /\ failures \in Nat /\ HistoryOK(history) /\ MaxCalls \in Nat
  BY RouteTablesAssumption DEF TablesInv, RouteTablesTypeOK
<1>3. /\ Shaped(d) /\ d.at = c.at /\ d.op = c.op /\ d.rule = c.rule /\ d.up = c.up
      /\ d.node = c.node /\ d.url = c.url /\ d.on = c.on /\ d.group = c.group
      /\ d.todo = c.todo /\ d.tag = calls + 1 /\ d.label = c.label /\ d.labels = c.labels
      /\ d.id = c.id /\ d.input = c.input
  BY DEF Formed, Shaped
<1> HIDE DEF d
<1>4. Starts(d, db) /\ d.at # "idle" /\ d.at # "remove"
  BY <1>3 DEF Starts
<1>5. CallOK(d, calls')
  <2>1. Fits(d)
    BY <1>3 DEF Formed, Fits
  <2>2. Formed(d)
    BY <1>3, <2>1 DEF Formed
  <2> QED BY <1>1, <1>2, <1>3, <1>4, <2>2 DEF CallOK
<1>6. Listed(d, db') /\ RowsStay(db, db')
  BY <1>1, <1>4 DEF Listed, RowsStay, SameRow
<1>7. /\ HistoryOK(history') /\ history'.culprit = history.culprit
      /\ history'.tagged = history.tagged
      /\ history'.raced = (history.raced \/ \E b \in Admins : call[b].at # "idle")
  BY <1>1, <1>2 DEF HistoryOK, Noted
<1>8. ASSUME ~history'.raced
      PROVE  ~history.raced /\ Alone(a) /\ Holds(d, db', failures', history', calls')
  <2>1. ~history.raced /\ Quiet
    BY <1>7, <1>8 DEF Quiet
  <2>2. Holds(Idle, db, failures, history, calls)
    BY <2>1 DEF TablesInv
  <2>3. Holds(d, db, failures, history, calls + 1)
    BY <1>2, <1>3, <1>4, <2>2, Starting
  <2>4. Holds(d, db', failures', history', calls')
    BY <1>1, <1>7, <2>3 DEF Holds
  <2> QED BY <2>1, <2>4 DEF Quiet, Alone
<1>9. calls' \in 0 .. MaxCalls /\ calls <= calls'
  BY <1>1, <1>2
<1> QED BY <1>1, <1>2, <1>4, <1>5, <1>6, <1>7, <1>8, <1>9, Moves

\* The call goes on, or has come to its end.
Follows(c, d) == d = Idle \/ (Formed(d) /\ d.at # "idle" /\ d.tag = c.tag)

LEMMA Going1 ==
  ASSUME TablesInv, NEW a \in Admins, call[a].at # "idle", NEW next, Follows(call[a], next)
  PROVE  CallOK(next, calls) /\ (next.at = "idle" => next = Idle)
<1>1. call[a].tag \in 1 .. calls /\ calls \in Nat
  BY RouteTablesAssumption DEF TablesInv, RouteTablesTypeOK, CallOK
<1> QED BY <1>1, IdleShape, IdleOK DEF Follows, CallOK

\* No call begins.
LEMMA GoingOn ==
  ASSUME TablesInv, NEW a \in Admins, call[a].at # "idle", NEW next, Goes(a, next),
         Follows(call[a], next), Listed(next, db'), db' \in Tables, RowsStay(db, db'),
         served'.rels \subseteq RelRow, calls' = calls, failures' \in Nat,
         HistoryOK(history'), history'.raced = history.raced,
         Holds(call[a], db, failures, history, calls)
           => Holds(next, db', failures', history', calls)
  PROVE  TablesInv'
<1>1. CallOK(next, calls') /\ (next.at = "idle" => next = Idle)
  BY Going1
<1>2. calls' \in 0 .. MaxCalls /\ calls <= calls'
  BY RouteTablesAssumption DEF TablesInv, RouteTablesTypeOK
<1>3. ASSUME ~history'.raced
      PROVE  ~history.raced /\ Alone(a) /\ Holds(next, db', failures', history', calls')
  BY <1>3 DEF TablesInv
<1> QED BY <1>1, <1>2, <1>3, Moves

LEMMA NothingChanges ==
  ASSUME TablesInv
  PROVE  /\ db \in Tables /\ RowsStay(db, db) /\ served.rels \subseteq RelRow
         /\ failures \in Nat /\ HistoryOK(history) /\ calls \in Nat /\ Listed(Idle, db)
         /\ \A a \in Admins : /\ CallOK(call[a], calls) /\ Listed(call[a], db)
                              /\ Shaped(call[a]) /\ Fits(call[a])
                              /\ call[a].at # "idle" => call[a].tag \in Stamps \ {0}
<1>1. RowsStay(db, db)
  BY DEF RowsStay, SameRow
<1>2. \A a \in Admins : CallOK(call[a], calls) /\ Listed(call[a], db)
  BY DEF TablesInv, RouteTablesTypeOK
<1>3. calls \in Nat /\ calls <= MaxCalls /\ MaxCalls \in Nat
  BY RouteTablesAssumption DEF TablesInv, RouteTablesTypeOK
<1>4. \A a \in Admins : /\ Shaped(call[a]) /\ Fits(call[a])
                        /\ call[a].at # "idle" => call[a].tag \in Stamps \ {0}
  BY <1>2, <1>3 DEF CallOK, Formed, Stamps
<1>5. Listed(Idle, db)
  BY <1>3, IdleOK
<1> QED BY <1>1, <1>2, <1>3, <1>4, <1>5 DEF TablesInv, RouteTablesTypeOK

LEMMA RefusedHolds ==
  ASSUME TablesInv, NEW a \in Admins, call[a].at # "idle", AnswerError(a),
         db' = db, served' = served, calls' = calls, failures' \in Nat,
         Holds(call[a], db, failures, history, calls)
           => Holds(Idle, db, failures', history, calls)
  PROVE  TablesInv'
<1>1. Goes(a, Idle) /\ history' = [history EXCEPT !.told = @ \/ history.writer = call[a].tag]
  BY DEF AnswerError, Goes
<1>2. /\ HistoryOK(history') /\ history'.culprit = history.culprit
      /\ history'.tagged = history.tagged /\ history'.raced = history.raced
  BY <1>1, NothingChanges DEF HistoryOK, Noted
<1>3. Holds(call[a], db, failures, history, calls)
        => Holds(Idle, db', failures', history', calls)
  BY <1>2 DEF Holds
<1>4. Follows(call[a], Idle)
  BY DEF Follows
<1> QED BY <1>1, <1>2, <1>3, <1>4, NothingChanges, GoingOn

LEMMA CheckHolds ==
  ASSUME TablesInv, NEW a \in Admins, call[a].at # "idle", NEW ok \in BOOLEAN, NEW next,
         Check(a, ok, next), ok \/ AtRest(call[a]),
         Follows(call[a], next), next.at = "remove" => Listed(next, db),
         ok /\ Holds(call[a], db, failures, history, calls)
           => Holds(next, db, failures, history, calls)
  PROVE  TablesInv'
<1>1. /\ Goes(a, IF ok THEN next ELSE Idle) /\ history' = history
      /\ db' = db /\ served' = served /\ calls' = calls /\ failures' = failures
  BY DEF Check, Goes
<1>2. Listed(next, db)
  BY DEF Listed
<1>3. CASE ok
  BY <1>1, <1>2, <1>3, NothingChanges, GoingOn
<1>4. CASE ~ok
  <2>1. Goes(a, Idle) /\ Follows(call[a], Idle)
    BY <1>1, <1>4 DEF Follows
  <2>2. Holds(call[a], db, failures, history, calls)
          => Holds(Idle, db, failures, history, calls)
    BY <1>4, NothingChanges, Resting
  <2> QED BY <1>1, <2>1, <2>2, NothingChanges, GoingOn
<1> QED BY <1>3, <1>4

LEMMA WriteHolds ==
  ASSUME TablesInv, NEW a \in Admins, call[a].at # "idle", NEW t, NEW unique, NEW next,
         Write(a, t, unique, next), t \in Tables, RowsStay(db, t),
         Follows(call[a], next), next.at = "remove" => Listed(next, t),
         unique /\ Holds(call[a], db, failures, history, calls)
           => Holds(next, t, failures, history, calls),
         ~unique /\ Holds(call[a], db, failures, history, calls)
           => Holds(Idle, db, failures, history, calls)
  PROVE  TablesInv'
<1>1. served' = served /\ calls' = calls /\ failures' = failures
  BY DEF Write
<1>2. CASE unique
  <2>1. /\ Goes(a, next) /\ db' = t
        /\ history' = [history EXCEPT !.writer = call[a].tag, !.told = FALSE]
    BY <1>2 DEF Write, Goes
  <2>2. /\ HistoryOK(history') /\ history'.culprit = history.culprit
        /\ history'.tagged = history.tagged /\ history'.raced = history.raced
    BY <2>1, NothingChanges DEF HistoryOK, Noted
  <2>3. Holds(call[a], db, failures, history, calls)
          => Holds(next, db', failures', history', calls)
    BY <1>1, <1>2, <2>1, <2>2 DEF Holds
  <2>4. Listed(next, db')
    BY <2>1 DEF Listed
  <2> QED BY <1>1, <2>1, <2>2, <2>3, <2>4, NothingChanges, GoingOn
<1>3. CASE ~unique
  <2>1. AnswerError(a) /\ db' = db
    BY <1>3 DEF Write
  <2> QED BY <1>1, <1>3, <2>1, NothingChanges, RefusedHolds
<1> QED BY <1>2, <1>3

LEMMA WriteTagsHolds ==
  ASSUME TablesInv, NEW a \in Admins, call[a].at # "idle", NEW t, NEW unique, NEW next,
         WriteTags(a, t, unique, next), t \in Tables, t.rel = db.rel,
         Follows(call[a], next), next.at # "remove",
         unique /\ Holds(call[a], db, failures, history, calls)
           => Holds(next, t, failures, history, calls),
         ~unique /\ Holds(call[a], db, failures, history, calls)
           => Holds(Idle, db, failures, history, calls)
  PROVE  TablesInv'
<1>1. served' = served /\ calls' = calls /\ failures' = failures
  BY DEF WriteTags
<1>2. CASE unique
  <2>1. Goes(a, next) /\ db' = t /\ history' = history
    BY <1>2 DEF WriteTags, Goes
  <2>2. Listed(next, db') /\ RowsStay(db, db')
    BY <2>1 DEF Listed, RowsStay, SameRow
  <2> QED BY <1>1, <1>2, <2>1, <2>2, NothingChanges, GoingOn
<1>3. CASE ~unique
  <2>1. AnswerError(a) /\ db' = db
    BY <1>3 DEF WriteTags
  <2> QED BY <1>1, <1>3, <2>1, NothingChanges, RefusedHolds
<1> QED BY <1>2, <1>3

LEMMA FailHolds ==
  ASSUME TablesInv, NEW a \in Admins, Fail(a)
  PROVE  TablesInv'
<1>1. /\ call[a].at # "idle" /\ failures' = failures + 1 /\ AnswerError(a)
      /\ db' = db /\ served' = served /\ calls' = calls
  BY DEF Fail
<1>2. failures' \in Nat /\ failures' # 0
  BY <1>1, NothingChanges
<1>3. Holds(call[a], db, failures, history, calls)
        => Holds(Idle, db, failures', history, calls)
  BY <1>2, RulesAside, IdleShape DEF Holds
<1> QED BY <1>1, <1>2, <1>3, RefusedHolds

-----------------------------------------------------------------------------
\* What stays the same in a call.
Kin(c, d) ==
  /\ Shaped(d) /\ d.op = c.op /\ d.rule = c.rule /\ d.node = c.node /\ d.on = c.on
  /\ d.group = c.group /\ d.tag = c.tag /\ d.labels = c.labels

LEMMA KinFollows ==
  ASSUME NEW c, Formed(c), NEW d, Kin(c, d), d.at # "idle", d.id \in Nat, Fits(d)
  PROVE  Follows(c, d)
BY DEF Formed, Kin, Follows

LEMMA WrittenFollows ==
  ASSUME TablesInv, NEW a \in Admins
  PROVE  /\ Follows(call[a], Written(a)) /\ Written(a).at = "rebuild"
         /\ ~AtGraph(Written(a)) /\ ~AtTags(Written(a))
<1>1. /\ Shaped(Written(a)) /\ Written(a).at = "rebuild" /\ Written(a).tag = call[a].tag
      /\ Written(a).op = "none" /\ Written(a).on = FALSE /\ Written(a).group = {}
      /\ Written(a).labels = {} /\ Written(a).id = 0
  <2>1. Shaped(Written(a))
    BY WrittenShape
  <2> QED BY <2>1 DEF Written, Idle
<1>2. Written(a).on \in BOOLEAN
  BY <1>1
<1>3. Fits(Written(a))
  BY <1>1 DEF Fits
<1>4. Follows(call[a], Written(a))
  BY <1>1, <1>2, <1>3 DEF Follows, Formed
<1> QED BY <1>1, <1>4 DEF AtGraph, AtTags

\* A step the graph and the tags have nothing to do with.
LEMMA HoldsElsewhere ==
  ASSUME NEW c, NEW d, NEW t \in Tables, NEW f, NEW h, NEW n \in Nat, Holds(c, t, f, h, n),
         d.at \notin {"exists", "writeRule", "dropUp"},
         ~Replacing(c), ~AtGraph(d), ~GivesTags(c), ~TakesTag(c), ~AtTags(d)
  PROVE  Holds(d, t, f, h, n)
<1>1. t.rel \subseteq RelRow /\ t.tag \in Seq(TagRow) /\ t.ruleTag \in Seq(TieRow)
  BY TableTypes
<1>2. RulesHold(d, t)
  BY RulesAside DEF Holds
<1>3. f = 0 /\ ~h.culprit => GraphHolds(d, t, n)
  BY <1>1, GraphAside DEF Holds
<1>4. f = 0 => TagsHold(d, t, n, h.tagged)
  BY <1>1, TagsAside DEF Holds
<1> QED BY <1>2, <1>3, <1>4 DEF Holds

(***************************************************************************)
(* The handlers of nodes.                                                  *)
(***************************************************************************)
LEMMA NodeBeginHolds ==
  ASSUME TablesInv, NEW a \in Admins, NEW n \in Nodes,
         \/ \E url \in Urls : SaveNode(a, n, url)
         \/ DeleteNode(a, n) \/ RestoreNode(a, n)
  PROVE  TablesInv'
<1>1. ASSUME NEW url \in Urls, SaveNode(a, n, url)
      PROVE  TablesInv'
  <2> DEFINE c == [Idle EXCEPT !.at = "url", !.op = "save", !.node = n, !.url = url]
  <2>1. Begin(a, c)
    BY <1>1 DEF SaveNode
  <2>2. /\ Shaped(c) /\ c.at = "url" /\ c.op = "save" /\ c.node = n /\ c.url = url
        /\ c.on = FALSE /\ c.group = {} /\ c.labels = {} /\ c.id = 0
    <3>1. Shaped(c)
      BY IdleShape, Edits
    <3> QED BY <3>1 DEF Idle
  <2> HIDE DEF c
  <2>3. Fits(c) /\ Starts(c, db) /\ c.on \in BOOLEAN
    BY <2>2 DEF Fits, Starts
  <2> QED BY <2>1, <2>2, <2>3, BeginHolds DEF Formed
<1>2. ASSUME DeleteNode(a, n)
      PROVE  TablesInv'
  <2> DEFINE c == [Idle EXCEPT !.at = "related", !.node = n]
  <2>1. Begin(a, c)
    BY <1>2 DEF DeleteNode
  <2>2. /\ Shaped(c) /\ c.at = "related" /\ c.op = "none" /\ c.node = n
        /\ c.on = FALSE /\ c.group = {} /\ c.labels = {} /\ c.id = 0
    <3>1. Shaped(c)
      BY IdleShape, Edits
    <3> QED BY <3>1 DEF Idle
  <2> HIDE DEF c
  <2>3. Fits(c) /\ Starts(c, db) /\ c.on \in BOOLEAN
    BY <2>2 DEF Fits, Starts
  <2> QED BY <2>1, <2>2, <2>3, BeginHolds DEF Formed
<1>3. ASSUME RestoreNode(a, n)
      PROVE  TablesInv'
  <2> DEFINE c == [Idle EXCEPT !.at = "readNode", !.op = "restore", !.node = n]
  <2>1. Begin(a, c)
    BY <1>3 DEF RestoreNode
  <2>2. /\ Shaped(c) /\ c.at = "readNode" /\ c.op = "restore" /\ c.node = n
        /\ c.on = FALSE /\ c.group = {} /\ c.labels = {} /\ c.id = 0
    <3>1. Shaped(c)
      BY IdleShape, Edits
    <3> QED BY <3>1 DEF Idle
  <2> HIDE DEF c
  <2>3. Fits(c) /\ Starts(c, db) /\ c.on \in BOOLEAN
    BY <2>2 DEF Fits, Starts
  <2> QED BY <2>1, <2>2, <2>3, BeginHolds DEF Formed
<1> QED BY <1>1, <1>2, <1>3

\* No node that is active becomes inactive.
LEMMA MoreNodes ==
  ASSUME NEW c, NEW d, NEW s, NEW t, NEW n \in Nat,
         GraphHolds(c, s, n), t.up = s.up, t.rel = s.rel,
         \A m : ActiveNode(s, m) => ActiveNode(t, m), ~Replacing(c), ~AtGraph(d)
  PROVE  GraphHolds(d, t, n)
<1>1. RowsApart(t, n)
  BY DEF GraphHolds, RowsApart
<1>2. Relations(t) = Relations(s) /\ \A u : ActiveUp(t, u) = ActiveUp(s, u)
  BY DEF Relations, ActiveUp
<1>3. Spared(c) = {} /\ Spared(d) = {}
  BY DEF Spared, Replacing, AtGraph
<1>4. GraphOK(t, Spared(d))
  BY <1>2, <1>3 DEF GraphHolds, GraphOK, Complete, Restorable
<1>5. ChecksHold(d, t) /\ ReplacingOK(d, t)
  BY DEF ChecksHold, ReplacingOK, AtGraph
<1> QED BY <1>1, <1>4, <1>5 DEF GraphHolds

\* The node that is dropped has no relations.
LEMMA NodeDropped ==
  ASSUME NEW c, NEW d, NEW s, NEW t, NEW n \in Nat,
         GraphHolds(c, s, n), t.up = s.up, t.rel = s.rel, c.at = "dropNode",
         \A m : m # c.node => ActiveNode(t, m) = ActiveNode(s, m), ~AtGraph(d)
  PROVE  GraphHolds(d, t, n)
<1>1. RowsApart(t, n)
  BY DEF GraphHolds, RowsApart
<1>2. Relations(t) = Relations(s) /\ \A u : ActiveUp(t, u) = ActiveUp(s, u)
  BY DEF Relations, ActiveUp
<1>3. Spared(c) = {} /\ Spared(d) = {}
  BY DEF Spared, Replacing, AtGraph
<1>4. \A x \in Relations(s) : x.node # c.node
  BY DEF GraphHolds, ChecksHold
<1>5. GraphOK(t, Spared(d))
  BY <1>2, <1>3, <1>4 DEF GraphHolds, GraphOK, Complete, Restorable
<1>6. ChecksHold(d, t) /\ ReplacingOK(d, t)
  BY DEF ChecksHold, ReplacingOK, AtGraph
<1> QED BY <1>1, <1>5, <1>6 DEF GraphHolds

LEMMA HoldsButGraph ==
  ASSUME NEW c, NEW d, NEW s \in Tables, NEW t, NEW f, NEW h, NEW n \in Nat,
         Holds(c, s, f, h, n), t.rule = s.rule, t.up = s.up, t.tag = s.tag, t.ruleTag = s.ruleTag,
         d.at \notin {"exists", "writeRule", "dropUp"},
         ~GivesTags(c), ~TakesTag(c), ~AtTags(d),
         GraphHolds(c, s, n) => GraphHolds(d, t, n)
  PROVE  Holds(d, t, f, h, n)
<1>1. s.tag \in Seq(TagRow) /\ s.ruleTag \in Seq(TieRow)
  BY TableTypes
<1>2. RulesHold(d, t)
  BY RulesAside DEF Holds
<1>3. f = 0 => TagsHold(d, t, n, h.tagged)
  BY <1>1, TagsAside DEF Holds
<1> QED BY <1>2, <1>3 DEF Holds

LEMMA NodesWritten ==
  ASSUME NEW c, NEW d, NEW s \in Tables, NEW t, NEW f, NEW h, NEW n \in Nat,
         Holds(c, s, f, h, n), t.rule = s.rule, t.up = s.up, t.tag = s.tag, t.ruleTag = s.ruleTag,
         t.rel = s.rel, \A m : ActiveNode(s, m) => ActiveNode(t, m),
         d.at = "rebuild", ~AtGraph(d), ~AtTags(d),
         ~Replacing(c), ~GivesTags(c), ~TakesTag(c)
  PROVE  Holds(d, t, f, h, n)
<1>1. GraphHolds(c, s, n) => GraphHolds(d, t, n)
  BY MoreNodes
<1> QED BY <1>1, HoldsButGraph

LEMMA NodeCallHolds ==
  ASSUME TablesInv, NEW a \in Admins, NodeCall(a)
  PROVE  TablesInv'
<1> DEFINE c == call[a]
<1>1. /\ Formed(c) /\ Shaped(c) /\ Fits(c) /\ db \in Tables /\ calls \in Nat
      /\ c.at # "idle" => c.tag \in Stamps \ {0}
  BY NothingChanges DEF CallOK
<1>2. CASE ReadDeletedNode(a)
  <2> DEFINE row == db.node[c.node]
             next == [c EXCEPT !.at = "url", !.url = row.url]
             ok == row.deleted # 0
  <2>1. Check(a, ok, next) /\ c.at = "readNode" /\ ok \in BOOLEAN
    BY <1>2 DEF ReadDeletedNode
  <2>2. Kin(c, next) /\ next.at = "url" /\ next.id = c.id
    <3>1. Shaped(next)
      BY <1>1, Edits
    <3> QED BY <1>1, <3>1 DEF Kin, Shaped
  <2> HIDE DEF next, ok, row
  <2>3. Follows(c, next)
    <3>1. Fits(next)
      BY <1>1, <2>1, <2>2 DEF Fits, Kin
    <3> QED BY <1>1, <2>2, <3>1, KinFollows DEF Formed
  <2>4. /\ ~Replacing(c) /\ ~GivesTags(c) /\ ~TakesTag(c) /\ ~AtGraph(next) /\ ~AtTags(next)
        /\ next.at \notin {"exists", "writeRule", "dropUp", "remove"}
    BY <1>1, <2>1, <2>2 DEF Replacing, GivesTags, TakesTag, AtGraph, AtTags, Fits, Kin
  <2>5. Holds(c, db, failures, history, calls) => Holds(next, db, failures, history, calls)
    BY <1>1, <2>4, HoldsElsewhere
  <2> QED BY <2>1, <2>3, <2>4, <2>5, CheckHolds DEF AtRest
<1>3. CASE CheckUrl(a)
  <2> DEFINE next == [c EXCEPT !.at = "writeNode"]
             ok == ~\E m \in Nodes \ {c.node} : ActiveNode(db, m) /\ db.node[m].url = c.url
  <2>1. Check(a, ok, next) /\ c.at = "url" /\ ok \in BOOLEAN
    BY <1>3 DEF CheckUrl
  <2>2. Kin(c, next) /\ next.at = "writeNode" /\ next.id = c.id /\ next.url = c.url
    <3>1. Shaped(next)
      BY <1>1, Edits
    <3> QED BY <1>1, <3>1 DEF Kin, Shaped
  <2> HIDE DEF next, ok
  <2>3. Follows(c, next)
    <3>1. Fits(next)
      BY <1>1, <2>1, <2>2 DEF Fits, Kin
    <3> QED BY <1>1, <2>2, <3>1, KinFollows DEF Formed
  <2>4. /\ ~Replacing(c) /\ ~GivesTags(c) /\ ~TakesTag(c) /\ ~AtGraph(next) /\ ~AtTags(next)
        /\ next.at \notin {"exists", "writeRule", "dropUp", "remove"}
    BY <1>1, <2>1, <2>2 DEF Replacing, GivesTags, TakesTag, AtGraph, AtTags, Fits, Kin
  <2>5. Holds(c, db, failures, history, calls) => Holds(next, db, failures, history, calls)
    BY <1>1, <2>4, HoldsElsewhere
  <2> QED BY <2>1, <2>3, <2>4, <2>5, CheckHolds DEF AtRest
<1>4. CASE WriteNode(a)
  <2> DEFINE row == IF c.op = "save" THEN [db.node[c.node] EXCEPT !.url = c.url]
                                     ELSE [db.node[c.node] EXCEPT !.deleted = 0]
             t == [db EXCEPT !.node[c.node] = row]
             ok == UniqueUrls(t)
  <2>1. Write(a, t, ok, Written(a)) /\ c.at = "writeNode"
    BY <1>4 DEF WriteNode
  <2>2. t \in Tables /\ \A m : ActiveNode(db, m) => ActiveNode(t, m)
    <3>1. c.node \in Nodes /\ (c.op = "save" => c.url \in Urls) /\ db.node \in NodeTable
      BY <1>1, <2>1, TableTypes DEF Fits
    <3>2. row \in [url : Urls \cup {None}, deleted : Stamps]
      BY <3>1, RouteTablesAssumption DEF NodeTable, Stamps
    <3>3. [db.node EXCEPT ![c.node] = row] \in NodeTable
      BY <3>1, <3>2 DEF NodeTable
    <3>4. t \in Tables
      BY <1>1, <3>3, Replaced
    <3>5. t.node = [db.node EXCEPT ![c.node] = row]
      BY <1>1, TableTypes DEF Whole
    <3>6. db.node[c.node].url # None => row.url # None
      BY <3>1, RouteTablesAssumption DEF NodeTable
    <3>7. db.node[c.node].deleted = 0 => row.deleted = 0
      BY <3>1 DEF NodeTable
    <3> HIDE DEF row, t
    <3>8. \A m : ActiveNode(db, m) => ActiveNode(t, m)
      BY <3>1, <3>5, <3>6, <3>7 DEF ActiveNode, NodeTable
    <3> QED BY <3>4, <3>8
  <2>3. /\ t.up = db.up /\ t.rule = db.rule /\ t.rel = db.rel
        /\ t.tag = db.tag /\ t.ruleTag = db.ruleTag
    BY <1>1, TableTypes DEF Whole
  <2> HIDE DEF t, ok
  <2>4. ~Replacing(c) /\ ~GivesTags(c) /\ ~TakesTag(c)
    BY <2>1 DEF Replacing, GivesTags, TakesTag
  <2>5. Holds(c, db, failures, history, calls) => Holds(Written(a), t, failures, history, calls)
    BY <1>1, <2>2, <2>3, <2>4, WrittenFollows, NodesWritten
  <2>6. Holds(c, db, failures, history, calls) => Holds(Idle, db, failures, history, calls)
    BY <1>1, <2>4, Resting DEF AtRest
  <2>7. RowsStay(db, t)
    BY <2>3 DEF RowsStay, SameRow
  <2> QED BY <2>1, <2>2, <2>5, <2>6, <2>7, WrittenFollows, WriteHolds
<1>5. CASE CountRelations(a)
  <2> DEFINE next == [c EXCEPT !.at = "dropNode"]
             ok == \A x \in Relations(db) : x.node # c.node
  <2>1. Check(a, ok, next) /\ c.at = "related" /\ ok \in BOOLEAN
    BY <1>5 DEF CountRelations
  <2>2. Kin(c, next) /\ next.at = "dropNode" /\ next.id = c.id /\ next.up = c.up
    <3>1. Shaped(next)
      BY <1>1, Edits
    <3> QED BY <1>1, <3>1 DEF Kin, Shaped
  <2> HIDE DEF next
  <2>3. Follows(c, next)
    <3>1. Fits(next)
      BY <1>1, <2>1, <2>2 DEF Fits, Kin
    <3> QED BY <1>1, <2>2, <3>1, KinFollows DEF Formed
  <2>4. /\ ~Replacing(c) /\ ~GivesTags(c) /\ ~TakesTag(c) /\ ~AtTags(next)
    BY <1>1, <2>1, <2>2 DEF Replacing, GivesTags, TakesTag, AtTags, Fits, Kin
  <2>5. ok /\ Holds(c, db, failures, history, calls)
          => Holds(next, db, failures, history, calls)
    <3>1. ok => (GraphHolds(c, db, calls) => GraphHolds(next, db, calls))
      <4>1. Spared(c) = {} /\ Spared(next) = {}
        BY <2>2, <2>4 DEF Spared, Replacing
      <4>2. ok => ChecksHold(next, db)
        BY <2>2 DEF ChecksHold, Kin
      <4>3. ReplacingOK(next, db)
        BY <2>2 DEF ReplacingOK
      <4> QED BY <4>1, <4>2, <4>3 DEF GraphHolds
    <3> HIDE DEF ok
    <3>2. next.at \notin {"exists", "writeRule", "dropUp"}
      BY <2>2
    <3> QED BY <1>1, <2>4, <3>1, <3>2, HoldsButGraph
  <2> HIDE DEF ok
  <2> QED BY <2>1, <2>2, <2>3, <2>4, <2>5, CheckHolds DEF AtRest
<1>6. CASE DropNode(a)
  <2> DEFINE t == [db EXCEPT !.node[c.node].deleted = c.tag]
  <2>1. Write(a, t, TRUE, Written(a)) /\ c.at = "dropNode"
    BY <1>6 DEF DropNode
  <2>2. t \in Tables /\ \A m : m # c.node => ActiveNode(t, m) = ActiveNode(db, m)
    <3>1. c.node \in Nodes /\ db.node \in NodeTable /\ c.tag \in Stamps
      BY <1>1, <2>1, TableTypes DEF Fits
    <3>2. [db.node EXCEPT ![c.node].deleted = c.tag] \in NodeTable
      BY <3>1 DEF NodeTable
    <3>3. t \in Tables
      BY <1>1, <3>2, Replaced
    <3>4. t.node = [db.node EXCEPT ![c.node].deleted = c.tag]
      BY <1>1, TableTypes DEF Whole
    <3> HIDE DEF t
    <3>5. \A m : m # c.node => ActiveNode(t, m) = ActiveNode(db, m)
      BY <3>1, <3>4 DEF ActiveNode, NodeTable
    <3> QED BY <3>3, <3>5
  <2>3. /\ t.up = db.up /\ t.rule = db.rule /\ t.rel = db.rel
        /\ t.tag = db.tag /\ t.ruleTag = db.ruleTag
    BY <1>1, TableTypes DEF Whole
  <2> HIDE DEF t
  <2>4. ~Replacing(c) /\ ~GivesTags(c) /\ ~TakesTag(c)
    BY <2>1 DEF Replacing, GivesTags, TakesTag
  <2>5. Holds(c, db, failures, history, calls) => Holds(Written(a), t, failures, history, calls)
    <3>1. GraphHolds(c, db, calls) => GraphHolds(Written(a), t, calls)
      BY <1>1, <2>1, <2>2, <2>3, WrittenFollows, NodeDropped
    <3> QED BY <1>1, <2>3, <2>4, <3>1, WrittenFollows, HoldsButGraph
  <2>6. RowsStay(db, t)
    BY <2>3 DEF RowsStay, SameRow
  <2> QED BY <2>1, <2>2, <2>5, <2>6, WrittenFollows, WriteHolds
<1> QED BY <1>2, <1>3, <1>4, <1>5, <1>6, NodeBeginHolds DEF NodeCall

-----------------------------------------------------------------------------
(***************************************************************************)
(* The handlers of rules.                                                  *)
(***************************************************************************)
LEMMA RuleBeginHolds ==
  ASSUME TablesInv, NEW a \in Admins, NEW r \in Rules,
         \/ \E u \in Upstreams, on \in BOOLEAN, labels \in SUBSET Labels :
              SaveRule(a, r, u, on, labels)
         \/ DeleteRule(a, r) \/ RestoreRule(a, r)
  PROVE  TablesInv'
<1>1. ASSUME NEW u \in Upstreams, NEW on \in BOOLEAN, NEW labels \in SUBSET Labels,
             SaveRule(a, r, u, on, labels)
      PROVE  TablesInv'
  <2> DEFINE c == [Idle EXCEPT !.at = "exists", !.op = "save", !.rule = r, !.up = u,
                               !.on = on, !.labels = labels]
  <2>1. Begin(a, c)
    BY <1>1 DEF SaveRule
  <2>2. /\ Shaped(c) /\ c.at = "exists" /\ c.op = "save" /\ c.rule = r /\ c.up = u
        /\ c.on = on /\ c.group = {} /\ c.labels = labels /\ c.id = 0
    <3>1. Shaped(c)
      BY IdleShape, Edits
    <3> QED BY <3>1 DEF Idle
  <2> HIDE DEF c
  <2>3. Fits(c) /\ Starts(c, db)
    BY <2>2 DEF Fits, Starts
  <2> QED BY <2>1, <2>2, <2>3, BeginHolds DEF Formed
<1>2. ASSUME DeleteRule(a, r)
      PROVE  TablesInv'
  <2> DEFINE c == [Idle EXCEPT !.at = "dropRule", !.rule = r]
  <2>1. Begin(a, c)
    BY <1>2 DEF DeleteRule
  <2>2. /\ Shaped(c) /\ c.at = "dropRule" /\ c.op = "none" /\ c.rule = r
        /\ c.on = FALSE /\ c.group = {} /\ c.labels = {} /\ c.id = 0
    <3>1. Shaped(c)
      BY IdleShape, Edits
    <3> QED BY <3>1 DEF Idle
  <2> HIDE DEF c
  <2>3. Fits(c) /\ Starts(c, db) /\ c.on \in BOOLEAN
    BY <2>2 DEF Fits, Starts
  <2> QED BY <2>1, <2>2, <2>3, BeginHolds DEF Formed
<1>3. ASSUME RestoreRule(a, r)
      PROVE  TablesInv'
  <2> DEFINE c == [Idle EXCEPT !.at = "readRule", !.op = "restore", !.rule = r]
  <2>1. Begin(a, c)
    BY <1>3 DEF RestoreRule
  <2>2. /\ Shaped(c) /\ c.at = "readRule" /\ c.op = "restore" /\ c.rule = r
        /\ c.on = FALSE /\ c.group = {} /\ c.labels = {} /\ c.id = 0
    <3>1. Shaped(c)
      BY IdleShape, Edits
    <3> QED BY <3>1 DEF Idle
  <2> HIDE DEF c
  <2>3. Fits(c) /\ Starts(c, db) /\ c.on \in BOOLEAN
    BY <2>2 DEF Fits, Starts
  <2> QED BY <2>1, <2>2, <2>3, BeginHolds DEF Formed
<1> QED BY <1>1, <1>2, <1>3

LEMMA RuleRead ==
  ASSUME NEW c, NEW d, NEW t, NEW n, NEW tagged, TagsHold(c, t, n, tagged),
         c.at \in {"exists", "readRule"}, d.at \in {"exists", "writeRule"}, d.tag = c.tag,
         d.op = c.op, c.op \in {"save", "restore"}
  PROVE  TagsHold(d, t, n, tagged)
<1>1. ~GivesTags(c) /\ ~TakesTag(c) /\ ~GivesTags(d)
  BY DEF GivesTags, TakesTag
<1>2. NamesHold(d, t, tagged)
  BY <1>1 DEF TagsHold, NamesHold
<1>3. TaggingOK(d, t, tagged)
  BY <1>1 DEF TagsHold, TaggingOK
<1> QED BY <1>2, <1>3 DEF TagsHold

\* A step from the checks of a rule.
LEMMA RuleChecked ==
  ASSUME TablesInv, NEW a \in Admins, NEW ok \in BOOLEAN, NEW next, Check(a, ok, next),
         call[a].at \in {"exists", "readRule"}, next.at \in {"exists", "writeRule"},
         Kin(call[a], next), next.id = call[a].id, Fits(next),
         ok /\ RulesHold(call[a], db) => RulesHold(next, db)
  PROVE  TablesInv'
<1> DEFINE c == call[a]
<1>1. Formed(c) /\ Fits(c) /\ db \in Tables /\ calls \in Nat
  BY NothingChanges DEF CallOK
<1>2. Follows(c, next)
  BY <1>1, KinFollows DEF Formed
<1>3. /\ ~Replacing(c) /\ ~GivesTags(c) /\ ~TakesTag(c) /\ ~AtGraph(next)
      /\ c.op \in {"save", "restore"} /\ next.tag = c.tag /\ next.op = c.op
  BY <1>1 DEF Replacing, GivesTags, TakesTag, AtGraph, Fits, Kin
<1>4. GraphHolds(c, db, calls) => GraphHolds(next, db, calls)
  BY <1>1, <1>3, TableTypes, GraphAside
<1>5. TagsHold(c, db, calls, history.tagged) => TagsHold(next, db, calls, history.tagged)
  BY <1>3, RuleRead
<1>6. ok /\ Holds(c, db, failures, history, calls) => Holds(next, db, failures, history, calls)
  BY <1>4, <1>5 DEF Holds
<1> QED BY <1>2, <1>3, <1>6, CheckHolds DEF AtRest

\* The last statement of a rule's call.
LEMMA HoldsButRules ==
  ASSUME NEW c, NEW d, NEW s \in Tables, NEW t, NEW f, NEW h, NEW n \in Nat,
         Holds(c, s, f, h, n), t.up = s.up, t.node = s.node, t.rel = s.rel,
         t.tag = s.tag, t.ruleTag = s.ruleTag, RulesHold(c, s) => RulesHold(d, t),
         ~Replacing(c), ~AtGraph(d), ~GivesTags(c), ~TakesTag(c), ~AtTags(d)
  PROVE  Holds(d, t, f, h, n)
<1>1. s.rel \subseteq RelRow /\ s.tag \in Seq(TagRow) /\ s.ruleTag \in Seq(TieRow)
  BY TableTypes
<1>2. f = 0 /\ ~h.culprit => GraphHolds(d, t, n)
  BY <1>1, GraphAside DEF Holds
<1>3. f = 0 => TagsHold(d, t, n, h.tagged)
  BY <1>1, TagsAside DEF Holds
<1> QED BY <1>2, <1>3 DEF Holds

\* t is s with another row for the rule.
RuleReplaced(s, t, r, row) ==
  /\ t \in Tables /\ t.rule[r] = row /\ \A k \in Rules : k # r => t.rule[k] = s.rule[k]
  /\ t.up = s.up /\ t.node = s.node /\ t.rel = s.rel /\ t.tag = s.tag
  /\ t.ruleTag = s.ruleTag /\ RowsStay(s, t)

LEMMA RuleRow ==
  ASSUME NEW s \in Tables, NEW r \in Rules,
         NEW row \in [up : Upstreams \cup {None}, on : BOOLEAN, deleted : Stamps]
  PROVE  RuleReplaced(s, [s EXCEPT !.rule[r] = row], r, row)
<1> DEFINE t == [s EXCEPT !.rule[r] = row]
<1>1. s.rule \in RuleTable /\ Whole(s)
  BY TableTypes
<1>2. [s.rule EXCEPT ![r] = row] \in RuleTable
  BY <1>1 DEF RuleTable
<1>3. t \in Tables
  BY <1>2, Replaced
<1>4. /\ t.rule = [s.rule EXCEPT ![r] = row] /\ t.up = s.up /\ t.node = s.node /\ t.rel = s.rel
      /\ t.tag = s.tag /\ t.ruleTag = s.ruleTag
  BY <1>1 DEF Whole
<1> HIDE DEF t
<1>5. t.rule[r] = row /\ \A k \in Rules : k # r => t.rule[k] = s.rule[k]
  BY <1>1, <1>4 DEF RuleTable
<1>6. RowsStay(s, t)
  BY <1>4 DEF RowsStay, SameRow
<1>7. RuleReplaced(s, t, r, row)
  BY <1>3, <1>4, <1>5, <1>6 DEF RuleReplaced
<1> QED BY <1>7 DEF t

LEMMA RuleWritten ==
  ASSUME NEW c, NEW d, NEW t, NEW m \in Nat, NEW tagged, NEW told,
         TagsHold(c, t, m, tagged), c.at = "writeRule", d.at = "ruleTags", c.op = "save",
         d.op = c.op, d.tag = c.tag, d.rule = c.rule, d.labels = c.labels,
         told = [tagged EXCEPT ![c.rule] = c.labels], tagged = [r \in Rules |-> tagged[r]],
         c.rule \in Rules
  PROVE  TagsHold(d, t, m, told)
<1>1. ~GivesTags(c) /\ ~TakesTag(c) /\ ~TakesTag(d) /\ GivesTags(d)
  BY DEF GivesTags, TakesTag
<1>2. told[c.rule] = c.labels /\ \A r \in Rules : r # c.rule => told[r] = tagged[r]
  OBVIOUS
<1>3. NamesHold(d, t, told)
  BY <1>1, <1>2 DEF TagsHold, NamesHold
<1>4. TaggingOK(d, t, told)
  BY <1>1, <1>2 DEF TagsHold, TaggingOK
<1> QED BY <1>3, <1>4 DEF TagsHold

LEMMA RuleCallHolds ==
  ASSUME TablesInv, NEW a \in Admins, RuleCall(a)
  PROVE  TablesInv'
<1> DEFINE c == call[a]
<1>1. /\ Formed(c) /\ Shaped(c) /\ Fits(c) /\ db \in Tables /\ calls \in Nat
      /\ c.at # "idle" => c.tag \in Stamps \ {0}
      /\ db.rule \in RuleTable /\ served.rels \subseteq RelRow /\ failures \in Nat
  BY NothingChanges, TableTypes DEF CallOK
<1>2. CASE ReadDeletedRule(a)
  <2> DEFINE row == db.rule[c.rule]
             next == [c EXCEPT !.at = "exists", !.up = row.up]
             ok == row.deleted # 0
  <2>1. Check(a, ok, next) /\ c.at = "readRule" /\ ok \in BOOLEAN
    BY <1>2 DEF ReadDeletedRule
  <2>2. Kin(c, next) /\ next.at = "exists" /\ next.id = c.id /\ next.up = row.up
    <3>1. Shaped(next)
      BY <1>1, Edits
    <3> QED BY <1>1, <3>1 DEF Kin, Shaped
  <2> HIDE DEF next, ok
  <2>3. Fits(next)
    BY <1>1, <2>1, <2>2 DEF Fits, Kin
  <2>4. RulesHold(c, db) => RulesHold(next, db)
    BY <2>2 DEF RulesHold, Kin
  <2> QED BY <2>1, <2>2, <2>3, <2>4, RuleChecked
<1>3. CASE CheckUpstream(a)
  <2> DEFINE next == [c EXCEPT !.at = "writeRule"]
             ok == ActiveUp(db, c.up)
  <2>1. Check(a, ok, next) /\ c.at = "exists" /\ ok \in BOOLEAN
    BY <1>3 DEF CheckUpstream, ActiveUp
  <2>2. /\ Kin(c, next) /\ next.at = "writeRule" /\ next.id = c.id /\ next.up = c.up
        /\ next.url = c.url
    <3>1. Shaped(next)
      BY <1>1, Edits
    <3> QED BY <1>1, <3>1 DEF Kin, Shaped
  <2> HIDE DEF next
  <2>3. Fits(next)
    BY <1>1, <2>1, <2>2 DEF Fits, Kin
  <2>4. ok /\ RulesHold(c, db) => RulesHold(next, db)
    BY <2>1, <2>2 DEF RulesHold, Kin
  <2> HIDE DEF ok
  <2> QED BY <2>1, <2>2, <2>3, <2>4, RuleChecked
<1>4. CASE ReviveRule(a)
  <2> DEFINE row == [db.rule[c.rule] EXCEPT !.deleted = 0]
             t == [db EXCEPT !.rule[c.rule] = row]
  <2>1. Write(a, t, TRUE, Written(a)) /\ c.at = "writeRule" /\ c.op = "restore"
    BY <1>4 DEF ReviveRule
  <2>2. c.rule \in Rules /\ row \in [up : Upstreams \cup {None}, on : BOOLEAN, deleted : Stamps]
    <3>1. c.rule \in Rules
      BY <1>1, <2>1 DEF Fits
    <3> QED BY <1>1, <3>1, RouteTablesAssumption DEF RuleTable, Stamps
  <2>3. row.up = db.rule[c.rule].up
    BY <1>1, <2>2 DEF RuleTable
  <2> HIDE DEF row
  <2>4. /\ t \in Tables /\ t.rule[c.rule] = row
        /\ \A k \in Rules : k # c.rule => t.rule[k] = db.rule[k]
        /\ t.up = db.up /\ t.node = db.node /\ t.rel = db.rel /\ t.tag = db.tag
        /\ t.ruleTag = db.ruleTag /\ RowsStay(db, t)
    <3>1. RuleReplaced(db, t, c.rule, row)
      BY <1>1, <2>2, RuleRow
    <3> QED BY <3>1 DEF RuleReplaced
  <2> HIDE DEF t
  <2>5. RulesHold(c, db) => RulesHold(Written(a), t)
    BY <2>1, <2>3, <2>4, WrittenFollows DEF RulesHold, ActiveRule, ActiveUp
  <2>6. ~Replacing(c) /\ ~GivesTags(c) /\ ~TakesTag(c)
    BY <2>1 DEF Replacing, GivesTags, TakesTag
  <2>7. Holds(c, db, failures, history, calls) => Holds(Written(a), t, failures, history, calls)
    BY <1>1, <2>4, <2>5, <2>6, WrittenFollows, HoldsButRules
  <2> QED BY <2>1, <2>4, <2>7, WrittenFollows, WriteHolds
<1>5. CASE DropRule(a)
  <2> DEFINE row == [db.rule[c.rule] EXCEPT !.deleted = c.tag]
             t == [db EXCEPT !.rule[c.rule] = row]
  <2>1. Write(a, t, TRUE, Written(a)) /\ c.at = "dropRule"
    BY <1>5 DEF DropRule
  <2>2. c.rule \in Rules /\ row \in [up : Upstreams \cup {None}, on : BOOLEAN, deleted : Stamps]
    <3>1. c.rule \in Rules /\ c.tag \in Stamps
      BY <1>1, <2>1 DEF Fits
    <3> QED BY <1>1, <3>1 DEF RuleTable
  <2>3. row.deleted # 0
    BY <1>1, <2>1, <2>2 DEF RuleTable
  <2> HIDE DEF row
  <2>4. /\ t \in Tables /\ t.rule[c.rule] = row
        /\ \A k \in Rules : k # c.rule => t.rule[k] = db.rule[k]
        /\ t.up = db.up /\ t.node = db.node /\ t.rel = db.rel /\ t.tag = db.tag
        /\ t.ruleTag = db.ruleTag /\ RowsStay(db, t)
    <3>1. RuleReplaced(db, t, c.rule, row)
      BY <1>1, <2>2, RuleRow
    <3> QED BY <3>1 DEF RuleReplaced
  <2> HIDE DEF t
  <2>5. RulesHold(c, db) => RulesHold(Written(a), t)
    BY <2>3, <2>4, WrittenFollows DEF RulesHold, ActiveRule, ActiveUp
  <2>6. ~Replacing(c) /\ ~GivesTags(c) /\ ~TakesTag(c)
    BY <2>1 DEF Replacing, GivesTags, TakesTag
  <2>7. Holds(c, db, failures, history, calls) => Holds(Written(a), t, failures, history, calls)
    BY <1>1, <2>4, <2>5, <2>6, WrittenFollows, HoldsButRules
  <2> QED BY <2>1, <2>4, <2>7, WrittenFollows, WriteHolds
<1>6. CASE WriteRule(a)
  <2> DEFINE row == [db.rule[c.rule] EXCEPT !.up = c.up, !.on = c.on]
             t == [db EXCEPT !.rule[c.rule] = row]
             next == [c EXCEPT !.at = "ruleTags"]
  <2>1. /\ db' = t /\ Goes(a, next) /\ c.at = "writeRule" /\ c.op = "save"
        /\ history' = [history EXCEPT !.writer = c.tag, !.told = FALSE,
                                      !.tagged[c.rule] = c.labels]
        /\ served' = served /\ calls' = calls /\ failures' = failures
    BY <1>6 DEF WriteRule, Goto, Goes
  <2>2. /\ c.rule \in Rules /\ c.up \in Upstreams /\ c.on \in BOOLEAN
        /\ row \in [up : Upstreams \cup {None}, on : BOOLEAN, deleted : Stamps]
    <3>1. c.rule \in Rules /\ c.up \in Upstreams /\ c.on \in BOOLEAN
      BY <1>1, <2>1 DEF Fits, Formed
    <3>2. db.rule[c.rule] \in [up : Upstreams \cup {None}, on : BOOLEAN, deleted : Stamps]
      BY <1>1, <3>1 DEF RuleTable
    <3> QED BY <3>1, <3>2
  <2>3. row.up = c.up
    BY <1>1, <2>2 DEF RuleTable
  <2> HIDE DEF row
  <2>4. /\ t \in Tables /\ t.rule[c.rule] = row
        /\ \A k \in Rules : k # c.rule => t.rule[k] = db.rule[k]
        /\ t.up = db.up /\ t.node = db.node /\ t.rel = db.rel /\ t.tag = db.tag
        /\ t.ruleTag = db.ruleTag /\ RowsStay(db, t)
    <3>1. RuleReplaced(db, t, c.rule, row)
      BY <1>1, <2>2, RuleRow
    <3> QED BY <3>1 DEF RuleReplaced
  <2> HIDE DEF t
  <2>5. Kin(c, next) /\ next.at = "ruleTags" /\ next.id = c.id
    <3>1. Shaped(next)
      BY <1>1, Edits
    <3> QED BY <1>1, <3>1 DEF Kin, Shaped
  <2> HIDE DEF next
  <2>6. Follows(c, next)
    <3>1. Fits(next)
      BY <1>1, <2>1, <2>5 DEF Fits, Kin
    <3> QED BY <1>1, <2>5, <3>1, KinFollows DEF Formed
  <2>7. RulesHold(c, db) => RulesHold(next, t)
    BY <2>1, <2>3, <2>4, <2>5 DEF RulesHold, ActiveRule, ActiveUp
  <2>8. HistoryOK(history)
    BY NothingChanges
  <2>9. /\ HistoryOK(history') /\ history'.culprit = history.culprit
        /\ history'.raced = history.raced
        /\ history'.tagged = [history.tagged EXCEPT ![c.rule] = c.labels]
    BY <2>1, <2>8 DEF HistoryOK, Noted
  <2>10. TagsHold(c, db, calls, history.tagged) => TagsHold(next, t, calls, history'.tagged)
    <3>1. TagsHold(c, db, calls, history.tagged)
            => TagsHold(next, db, calls, [history.tagged EXCEPT ![c.rule] = c.labels])
      BY <1>1, <2>1, <2>2, <2>5, <2>8, RuleWritten DEF Kin, HistoryOK
    <3>2. \A tagged : TagsHold(next, db, calls, tagged) => TagsHold(next, t, calls, tagged)
      BY <2>4, SameTags DEF TagsHold, NamesHold, TaggingOK, LiveTag, LiveTie, Shows
    <3> QED BY <2>9, <3>1, <3>2
  <2>11. ~Replacing(c) /\ ~AtGraph(next)
    BY <2>1, <2>5 DEF Replacing, AtGraph
  <2>12. GraphHolds(c, db, calls) => GraphHolds(next, t, calls)
    BY <1>1, <2>4, <2>11, TableTypes, GraphAside
  <2>13. Holds(c, db, failures, history, calls)
           => Holds(next, db', failures', history', calls)
    BY <2>1, <2>7, <2>9, <2>10, <2>12 DEF Holds
  <2>14. Listed(next, db')
    BY <2>5 DEF Listed
  <2> QED BY <1>1, <2>1, <2>4, <2>6, <2>9, <2>13, <2>14, GoingOn
<1> QED BY <1>2, <1>3, <1>4, <1>5, <1>6, RuleBeginHolds DEF RuleCall

-----------------------------------------------------------------------------
(***************************************************************************)
(* The handlers of upstreams: what the graph is at each statement.         *)
(***************************************************************************)
LEMMA HoldsInGraph ==
  ASSUME NEW c, NEW d, NEW s \in Tables, NEW t, NEW f, NEW h, NEW k, NEW n \in Nat,
         Holds(c, s, f, h, n), k.tagged = h.tagged, ~k.culprit => ~h.culprit,
         t.tag = s.tag, t.ruleTag = s.ruleTag, ~GivesTags(c), ~TakesTag(c), ~AtTags(d),
         RulesHold(c, s) => RulesHold(d, t),
         ~k.culprit /\ GraphHolds(c, s, n) => GraphHolds(d, t, n)
  PROVE  Holds(d, t, f, k, n)
<1>1. s.tag \in Seq(TagRow) /\ s.ruleTag \in Seq(TieRow)
  BY TableTypes
<1>2. f = 0 => TagsHold(d, t, n, k.tagged)
  BY <1>1, TagsAside DEF Holds
<1> QED BY <1>2 DEF Holds

\* The checks go on.
LEMMA GraphChecked ==
  ASSUME NEW c, NEW d, NEW t, NEW n, GraphHolds(c, t, n), ~Replacing(c), ~Replacing(d),
         ChecksHold(c, t) => ChecksHold(d, t)
  PROVE  GraphHolds(d, t, n)
<1>1. Spared(c) = {} /\ Spared(d) = {}
  BY DEF Spared
<1>2. ReplacingOK(d, t)
  BY DEF ReplacingOK, Replacing
<1> QED BY <1>1, <1>2 DEF GraphHolds

LEMMA UpstreamWritten ==
  ASSUME NEW c, NEW d, NEW s \in Tables, NEW t, NEW n, GraphHolds(c, s, n),
         c.at = "nodes", c.todo = {}, c.up \in Upstreams, c.group # {},
         s.up[c.up].deleted = 0, t.up = [s.up EXCEPT ![c.up].there = TRUE],
         t.node = s.node, t.rel = s.rel,
         d.at = "list", d.up = c.up, d.group = c.group, d.tag = c.tag
  PROVE  GraphHolds(d, t, n)
<1>1. s.up \in UpTable
  BY TableTypes
<1>2. RowsApart(t, n)
  BY DEF GraphHolds, RowsApart
<1>3. /\ Relations(t) = Relations(s) /\ \A k : ActiveNode(t, k) = ActiveNode(s, k)
  BY DEF Relations, ActiveNode
<1>4. /\ ActiveUp(t, c.up) /\ \A u \in Upstreams : u # c.up => t.up[u] = s.up[u]
  BY <1>1 DEF UpTable, ActiveUp
<1>5. \A u \in Upstreams : u # c.up => ActiveUp(t, u) = ActiveUp(s, u)
  BY <1>4 DEF ActiveUp
<1>6. Spared(c) = {} /\ Spared(d) = {c.up}
  BY DEF Spared, Replacing
<1>7. \A x \in Relations(s) : x.up \in Upstreams
  BY TableTypes DEF Relations, RelRow
<1>8. GraphOK(t, Spared(d))
  BY <1>3, <1>4, <1>5, <1>6, <1>7 DEF GraphHolds, GraphOK, Complete, Restorable
<1>9. ChecksHold(d, t)
  BY DEF GraphHolds, ChecksHold
<1>10. \A m \in c.group : ActiveNode(t, m)
  BY <1>3 DEF GraphHolds, ChecksHold
<1>11. ReplacingOK(d, t)
  BY <1>4, <1>10 DEF ReplacingOK
<1> QED BY <1>2, <1>8, <1>9, <1>11 DEF GraphHolds

LEMMA UpstreamDropped ==
  ASSUME NEW c, NEW d, NEW s \in Tables, NEW t, NEW n, GraphHolds(c, s, n),
         c.at = "dropUp", c.up \in Upstreams, c.group = {},
         s.up[c.up].deleted = 0, t.up = [s.up EXCEPT ![c.up].deleted = c.tag],
         t.node = s.node, t.rel = s.rel,
         d.at = "list", d.up = c.up, d.group = c.group, d.tag = c.tag
  PROVE  GraphHolds(d, t, n)
<1>1. s.up \in UpTable
  BY TableTypes
<1>2. RowsApart(t, n)
  BY DEF GraphHolds, RowsApart
<1>3. /\ Relations(t) = Relations(s) /\ \A k : ActiveNode(t, k) = ActiveNode(s, k)
  BY DEF Relations, ActiveNode
<1>4. /\ t.up[c.up].deleted = c.tag /\ t.up[c.up].there = s.up[c.up].there
      /\ \A u \in Upstreams : u # c.up => t.up[u] = s.up[u]
  BY <1>1 DEF UpTable
<1>5. \A u \in Upstreams : u # c.up => ActiveUp(t, u) = ActiveUp(s, u)
  BY <1>4 DEF ActiveUp
<1>6. Spared(c) = {} /\ Spared(d) = {c.up}
  BY DEF Spared, Replacing
<1>7. \A x \in Relations(s) : x.up \in Upstreams
  BY TableTypes DEF Relations, RelRow
<1>8. GraphOK(t, Spared(d))
  BY <1>3, <1>4, <1>5, <1>6, <1>7 DEF GraphHolds, GraphOK, Complete, Restorable
<1>9. ChecksHold(d, t)
  BY DEF GraphHolds, ChecksHold
<1>10. \E x \in Relations(t) : x.up = c.up
  BY <1>3, <1>6 DEF GraphHolds, ChecksHold, GraphOK, Complete, ActiveUp
<1>11. ReplacingOK(d, t)
  <2>1. t.up[c.up].there
    BY <1>4 DEF GraphHolds, ChecksHold
  <2> QED BY <1>4, <1>10, <2>1 DEF ReplacingOK
<1> QED BY <1>2, <1>8, <1>9, <1>11 DEF GraphHolds

\* The call goes on with the relations, which are as they were.
LEMMA ReplacingOn ==
  ASSUME NEW c, NEW d, NEW t, NEW n, GraphHolds(c, t, n), Replacing(c), Replacing(d),
         d.up = c.up, ChecksHold(d, t), ReplacingOK(d, t)
  PROVE  GraphHolds(d, t, n)
<1>1. Spared(c) = Spared(d)
  BY DEF Spared
<1> QED BY <1>1 DEF GraphHolds

LEMMA RelationsListed ==
  ASSUME NEW c, NEW d, NEW t, NEW n, GraphHolds(c, t, n), c.at = "list",
         d.at = "remove", d.up = c.up, d.group = c.group, d.tag = c.tag,
         d.todo = {x \in Relations(t) : x.up = c.up}
  PROVE  GraphHolds(d, t, n)
<1>1. \A x \in t.rel : x.by # c.tag /\ x.deleted # c.tag
  BY DEF GraphHolds, ChecksHold
<1>2. ChecksHold(d, t)
  BY DEF ChecksHold
<1>3. c.group = {} => \E y \in t.rel : y.up = c.up /\ y \in d.todo
  BY DEF GraphHolds, ReplacingOK, Relations
<1>4. ReplacingOK(d, t)
  BY <1>1, <1>3 DEF GraphHolds, ReplacingOK
<1> QED BY <1>2, <1>4, ReplacingOn DEF Replacing

LEMMA RemovalEnded ==
  ASSUME NEW c, NEW d, NEW t, NEW n, GraphHolds(c, t, n), c.at = "remove", c.todo = {},
         d.at = "insert", d.up = c.up, d.group = c.group, d.tag = c.tag, d.todo = c.group
  PROVE  GraphHolds(d, t, n)
<1>1. ChecksHold(d, t)
  BY DEF ChecksHold
<1>2. ReplacingOK(d, t)
  BY DEF GraphHolds, ReplacingOK
<1> QED BY <1>1, <1>2, ReplacingOn DEF Replacing

LEMMA InsertionEnded ==
  ASSUME NEW c, NEW d, NEW t \in Tables, NEW n, GraphHolds(c, t, n), c.at = "insert",
         c.todo = {}, c.tag # 0, ~AtGraph(d)
  PROVE  GraphHolds(d, t, n)
<1>1. ~Replacing(d)
  BY DEF Replacing, AtGraph
<1>2. Spared(c) = {c.up} /\ Spared(d) = {}
  BY <1>1 DEF Spared, Replacing
<1>3. \A x \in Relations(t) : x.up = c.up => ActiveNode(t, x.node) /\ ActiveUp(t, c.up)
  BY DEF GraphHolds, ReplacingOK
<1>4. Complete(t, c.up)
  <2>1. CASE c.group = {}
    BY <2>1 DEF GraphHolds, ReplacingOK, Complete, ActiveUp
  <2>2. CASE c.group # {}
    BY <2>2 DEF GraphHolds, ReplacingOK, Complete
  <2> QED BY <2>1, <2>2
<1>5. Restorable(t, c.up)
  BY DEF GraphHolds, ReplacingOK, Restorable, ActiveUp
<1>6. GraphOK(t, Spared(d))
  BY <1>2, <1>3, <1>4, <1>5 DEF GraphHolds, GraphOK
<1>7. ChecksHold(d, t) /\ ReplacingOK(d, t)
  BY DEF ChecksHold, ReplacingOK, AtGraph
<1> QED BY <1>6, <1>7 DEF GraphHolds

LEMMA UpstreamRestored ==
  ASSUME NEW c, NEW d, NEW s \in Tables, NEW t, NEW n, GraphHolds(c, s, n),
         c.at = "restoreUp", c.up \in Upstreams, t.up = [s.up EXCEPT ![c.up].deleted = 0],
         t.node = s.node, t.rel = s.rel,
         d.at = "revive", d.up = c.up, d.group = c.group, d.tag = c.tag, d.stamp = c.stamp
  PROVE  GraphHolds(d, t, n)
<1>1. s.up \in UpTable
  BY TableTypes
<1>2. RowsApart(t, n)
  BY DEF GraphHolds, RowsApart
<1>3. /\ Relations(t) = Relations(s) /\ \A k : ActiveNode(t, k) = ActiveNode(s, k)
  BY DEF Relations, ActiveNode
<1>4. /\ t.up[c.up].deleted = 0 /\ t.up[c.up].there = s.up[c.up].there
      /\ \A u \in Upstreams : u # c.up => t.up[u] = s.up[u]
  BY <1>1 DEF UpTable
<1>5. \A u \in Upstreams : u # c.up => ActiveUp(t, u) = ActiveUp(s, u)
  BY <1>4 DEF ActiveUp
<1>6. Spared(c) = {} /\ Spared(d) = {c.up}
  BY DEF Spared, Replacing
<1>7. \A x \in Relations(s) : x.up \in Upstreams
  BY TableTypes DEF Relations, RelRow
<1>8. GraphOK(t, Spared(d))
  BY <1>3, <1>4, <1>5, <1>6, <1>7 DEF GraphHolds, GraphOK, Complete, Restorable
<1>9. ChecksHold(d, t)
  BY DEF GraphHolds, ChecksHold
<1>10. /\ s.up[c.up].there /\ s.up[c.up].deleted # 0 /\ c.stamp = s.up[c.up].deleted
  BY DEF GraphHolds, ChecksHold
<1>11. ReplacingOK(d, t)
  <2>1. ActiveUp(t, c.up)
    BY <1>4, <1>10 DEF ActiveUp
  <2>2. \A x \in Relations(s) : x.up # c.up
    BY <1>6, <1>10 DEF GraphHolds, GraphOK, ActiveUp
  <2>3. \E y \in s.rel : y.up = c.up /\ y.deleted = c.stamp
    BY <1>6, <1>10 DEF GraphHolds, GraphOK, Restorable
  <2> QED BY <1>3, <1>10, <2>1, <2>2, <2>3 DEF ReplacingOK
<1> QED BY <1>2, <1>8, <1>9, <1>11 DEF GraphHolds

\* The row with its deletion.
Stamped(x, v) == [x EXCEPT !.deleted = v]

LEMMA StampedRow ==
  ASSUME NEW x \in RelRow, NEW v \in Stamps
  PROVE  /\ Stamped(x, v) \in RelRow /\ Stamped(x, v).deleted = v
         /\ Stamped(x, v).up = x.up /\ Stamped(x, v).node = x.node /\ Stamped(x, v).by = x.by
BY DEF RelRow, Stamped

LEMMA RowsDiffer ==
  ASSUME NEW t, NEW n, RowsApart(t, n)
  PROVE  UniquePairs(t)
BY DEF RowsApart, UniquePairs

\* One of the listed relations is deleted.
LEMMA RelationRemoved ==
  ASSUME NEW c, NEW d, NEW s \in Tables, NEW t, NEW n \in Nat, GraphHolds(c, s, n),
         c.at = "remove", NEW x \in c.todo, c.tag \in Stamps \ {0}, c.tag <= n,
         t.rel = (s.rel \ {x}) \cup {Stamped(x, c.tag)}, t.up = s.up, t.node = s.node,
         d.at = "remove", d.up = c.up, d.group = c.group, d.tag = c.tag, d.todo = c.todo \ {x}
  PROVE  GraphHolds(d, t, n)
<1> DEFINE y == Stamped(x, c.tag)
<1>1. s.rel \subseteq RelRow
  BY TableTypes
<1>2. x \in s.rel /\ x.up = c.up /\ x.deleted = 0 /\ x \in RelRow
  BY <1>1 DEF GraphHolds, ReplacingOK, Relations
<1>3. y.deleted = c.tag /\ y.up = x.up /\ y.node = x.node /\ y.by = x.by
  BY <1>2, StampedRow
<1> HIDE DEF y
<1>4. t.rel = (s.rel \ {x}) \cup {y}
  BY DEF y
<1>5. /\ \A z \in s.rel : SameRow(z, x) => z = x
      /\ \A z \in s.rel : z.up = c.up /\ z.deleted = c.tag => z.node # x.node
      /\ \A z \in s.rel : z.up = c.up /\ z.deleted = 0 /\ z.node = x.node => z = x
  BY <1>2 DEF GraphHolds, RowsApart, ReplacingOK
<1>6. RowsApart(t, n)
  <2>1. \A z \in s.rel \ {x} : ~SameRow(z, y) /\ ~SameRow(y, z)
    BY <1>3, <1>5 DEF SameRow
  <2>2. \A z \in s.rel \ {x} : ~(z.up = y.up /\ z.node = y.node /\ z.deleted = y.deleted)
    BY <1>2, <1>3, <1>5
  <2>3. y.by <= n /\ y.deleted <= n
    BY <1>2, <1>3 DEF GraphHolds, RowsApart
  <2> QED BY <1>4, <2>1, <2>2, <2>3 DEF GraphHolds, RowsApart
<1>7. Relations(t) = Relations(s) \ {x}
  BY <1>2, <1>3, <1>4 DEF Relations
<1>8. /\ \A m : ActiveNode(t, m) = ActiveNode(s, m)
      /\ \A u : ActiveUp(t, u) = ActiveUp(s, u)
  BY DEF ActiveNode, ActiveUp
<1>9. Spared(c) = {c.up} /\ Spared(d) = {c.up}
  BY DEF Spared, Replacing
<1>10. GraphOK(t, Spared(d))
  <2>1. \A z \in Relations(t) : ActiveNode(t, z.node) /\ (z.up \in Spared(d) \/ ActiveUp(t, z.up))
    BY <1>7, <1>8, <1>9 DEF GraphHolds, GraphOK
  <2>2. ASSUME NEW u \in Upstreams \ Spared(d)
        PROVE  Complete(t, u) /\ Restorable(t, u)
    <3>1. u # c.up /\ Complete(s, u) /\ Restorable(s, u)
      BY <1>9, <2>2 DEF GraphHolds, GraphOK
    <3>2. Complete(t, u)
      BY <1>2, <1>7, <1>8, <3>1 DEF Complete
    <3>3. Restorable(t, u)
      BY <1>2, <1>4, <3>1 DEF Restorable
    <3> QED BY <3>2, <3>3
  <2> QED BY <2>1, <2>2 DEF GraphOK
<1>11. ChecksHold(d, t)
  BY DEF ChecksHold
<1>12. ReplacingOK(d, t)
  <2>1. c.todo = {z \in Relations(s) : z.up = c.up}
    BY DEF GraphHolds, ReplacingOK
  <2>2. d.todo = {z \in Relations(t) : z.up = d.up}
    BY <1>7, <2>1
  <2>3. \A z \in t.rel : z.by # d.tag
    BY <1>2, <1>3, <1>4 DEF GraphHolds, ReplacingOK
  <2>4. \A z \in t.rel : z.up = d.up /\ z.deleted = d.tag => \A w \in d.todo : w.node # z.node
    <3>1. \A w \in d.todo : w.node # y.node
      BY <1>3, <1>5, <2>1 DEF Relations
    <3> QED BY <1>4, <3>1 DEF GraphHolds, ReplacingOK
  <2>5. y \in t.rel /\ y.up = d.up /\ y.deleted = d.tag
    BY <1>2, <1>3, <1>4
  <2>6. IF d.group # {}
        THEN ActiveUp(t, d.up) /\ \A m \in d.group : ActiveNode(t, m)
        ELSE t.up[d.up].there /\ t.up[d.up].deleted = d.tag
    BY <1>8 DEF GraphHolds, ReplacingOK
  <2> QED BY <2>2, <2>3, <2>4, <2>5, <2>6 DEF ReplacingOK
<1> QED BY <1>6, <1>10, <1>11, <1>12 DEF GraphHolds

\* A relation of the group is inserted.
LEMMA RelationInserted ==
  ASSUME NEW c, NEW d, NEW s \in Tables, NEW t, NEW n \in Nat, GraphHolds(c, s, n),
         c.at = "insert", NEW m \in c.todo, c.tag \in Stamps \ {0}, c.tag <= n,
         NEW y, y = [up |-> c.up, node |-> m, by |-> c.tag, deleted |-> 0],
         t.rel = s.rel \cup {y}, t.up = s.up, t.node = s.node,
         d.at = "insert", d.up = c.up, d.group = c.group, d.tag = c.tag, d.todo = c.todo \ {m}
  PROVE  GraphHolds(d, t, n)
<1>1. y.deleted = 0 /\ y.up = c.up /\ y.node = m /\ y.by = c.tag
  OBVIOUS
<1>2. /\ m \in c.group
      /\ \A z \in s.rel : z.by = c.tag => z.node # m
      /\ \A z \in s.rel : z.up = c.up /\ z.deleted = 0 => z.node # m
  BY DEF GraphHolds, ReplacingOK, Relations
<1>3. RowsApart(t, n)
  <2>1. \A z \in s.rel : ~SameRow(z, y) /\ ~SameRow(y, z)
    BY <1>1, <1>2 DEF SameRow
  <2>2. \A z \in s.rel : ~(z.up = y.up /\ z.node = y.node /\ z.deleted = y.deleted)
    BY <1>1, <1>2
  <2>3. y.by <= n /\ y.deleted <= n
    BY <1>1
  <2> QED BY <2>1, <2>2, <2>3 DEF GraphHolds, RowsApart
<1>4. Relations(t) = Relations(s) \cup {y}
  BY <1>1 DEF Relations
<1>5. /\ \A k : ActiveNode(t, k) = ActiveNode(s, k)
      /\ \A u : ActiveUp(t, u) = ActiveUp(s, u)
  BY DEF ActiveNode, ActiveUp
<1>6. Spared(c) = {c.up} /\ Spared(d) = {c.up}
  BY DEF Spared, Replacing
<1>7. ActiveUp(s, c.up) /\ \A k \in c.group : ActiveNode(s, k)
  BY <1>2 DEF GraphHolds, ReplacingOK
<1>8. GraphOK(t, Spared(d))
  <2>1. \A z \in Relations(t) : ActiveNode(t, z.node) /\ (z.up \in Spared(d) \/ ActiveUp(t, z.up))
    BY <1>1, <1>2, <1>4, <1>5, <1>6, <1>7 DEF GraphHolds, GraphOK
  <2>2. ASSUME NEW u \in Upstreams \ Spared(d)
        PROVE  Complete(t, u) /\ Restorable(t, u)
    <3>1. Complete(s, u) /\ Restorable(s, u)
      BY <1>6, <2>2 DEF GraphHolds, GraphOK
    <3> QED BY <1>4, <1>5, <3>1 DEF Complete, Restorable
  <2> QED BY <2>1, <2>2 DEF GraphOK
<1>9. ChecksHold(d, t)
  BY DEF ChecksHold
<1>10. ReplacingOK(d, t)
  <2>1. d.todo \subseteq d.group
    BY DEF GraphHolds, ReplacingOK
  <2>2. \A z \in Relations(t) : z.up = d.up => z.node \in d.group \ d.todo
    BY <1>1, <1>2, <1>4 DEF GraphHolds, ReplacingOK
  <2>3. \A k \in d.group \ d.todo : \E z \in Relations(t) : z.up = d.up /\ z.node = k
    <3>1. \A k \in c.group \ c.todo : \E z \in Relations(s) : z.up = c.up /\ z.node = k
      BY DEF GraphHolds, ReplacingOK
    <3> QED BY <1>1, <1>4, <3>1
  <2>4. \A z \in t.rel : z.by = d.tag => z.node \notin d.todo
    BY <1>1 DEF GraphHolds, ReplacingOK
  <2>5. d.group # {}
    BY <1>2
  <2>6. ActiveUp(t, d.up) /\ \A k \in d.group : ActiveNode(t, k)
    BY <1>5, <1>7
  <2> QED BY <2>1, <2>2, <2>3, <2>4, <2>5, <2>6 DEF ReplacingOK
<1> QED BY <1>3, <1>8, <1>9, <1>10 DEF GraphHolds

\* The relations that were deleted with the upstream come back.
LEMMA RevivedApart ==
  ASSUME NEW c, NEW s \in Tables, NEW t, NEW n \in Nat, GraphHolds(c, s, n),
         c.at = "revive", NEW B, B = {x \in s.rel : x.up = c.up /\ x.deleted = c.stamp},
         t.rel = (s.rel \ B) \cup {Stamped(x, 0) : x \in B}
  PROVE  RowsApart(t, n)
<1>1. s.rel \subseteq RelRow /\ 0 \in Stamps
  BY TableTypes, RouteTablesAssumption DEF Stamps
<1>2. \A x \in B : /\ x \in s.rel /\ x.up = c.up /\ x.deleted = c.stamp
                   /\ Stamped(x, 0).deleted = 0 /\ Stamped(x, 0).up = x.up
                   /\ Stamped(x, 0).node = x.node /\ Stamped(x, 0).by = x.by
  BY <1>1, StampedRow
<1>3. /\ ActiveUp(s, c.up) /\ c.stamp # 0
      /\ \A x \in s.rel : x.deleted = 0 => x.up # c.up
      /\ \E x \in B : TRUE
  BY DEF GraphHolds, ReplacingOK, Relations
<1>4. /\ \A x, z \in s.rel : SameRow(x, z) => x = z
      /\ \A x, z \in s.rel : x.up = z.up /\ x.node = z.node /\ x.deleted = z.deleted => x = z
      /\ \A x \in s.rel : x.by <= n
  BY DEF GraphHolds, RowsApart
<1>5. ASSUME NEW y \in t.rel
      PROVE  \/ y \in s.rel \ B
             \/ \E x \in B : /\ y = Stamped(x, 0) /\ y.deleted = 0 /\ y.up = x.up
                             /\ y.node = x.node /\ y.by = x.by
  BY <1>2
<1>6. RowsApart(t, n)
  <2>1. ASSUME NEW y \in t.rel, NEW z \in t.rel, SameRow(y, z)
        PROVE  y = z
    BY <1>2, <1>4, <1>5, <2>1 DEF SameRow
  <2>2. ASSUME NEW y \in t.rel, NEW z \in t.rel, y.up = z.up, y.node = z.node,
               y.deleted = z.deleted
        PROVE  y = z
    BY <1>2, <1>3, <1>4, <1>5, <2>2
  <2>3. ASSUME NEW y \in t.rel
        PROVE  y.by <= n /\ y.deleted <= n
    BY <1>2, <1>4, <1>5 DEF GraphHolds, RowsApart
  <2> QED BY <2>1, <2>2, <2>3 DEF RowsApart
<1> QED BY <1>6

LEMMA RelationsRevived ==
  ASSUME NEW c, NEW d, NEW s \in Tables, NEW t, NEW n \in Nat, GraphHolds(c, s, n),
         c.at = "revive", NEW B, B = {x \in s.rel : x.up = c.up /\ x.deleted = c.stamp},
         t.rel = (s.rel \ B) \cup {Stamped(x, 0) : x \in B}, t.up = s.up, t.node = s.node,
         \A x \in B : ActiveNode(s, x.node), ~AtGraph(d)
  PROVE  GraphHolds(d, t, n)
<1>1. s.rel \subseteq RelRow /\ 0 \in Stamps
  BY TableTypes, RouteTablesAssumption DEF Stamps
<1>2. \A x \in B : /\ x \in s.rel /\ x.up = c.up /\ x.deleted = c.stamp
                   /\ Stamped(x, 0).deleted = 0 /\ Stamped(x, 0).up = x.up
                   /\ Stamped(x, 0).node = x.node /\ Stamped(x, 0).by = x.by
  BY <1>1, StampedRow
<1>3. /\ ActiveUp(s, c.up) /\ c.stamp # 0
      /\ \A x \in s.rel : x.deleted = 0 => x.up # c.up
      /\ \E x \in B : TRUE
  BY DEF GraphHolds, ReplacingOK, Relations
<1>5. ASSUME NEW y \in t.rel
      PROVE  \/ y \in s.rel \ B
             \/ \E x \in B : /\ y = Stamped(x, 0) /\ y.deleted = 0 /\ y.up = x.up
                             /\ y.node = x.node /\ y.by = x.by
  BY <1>2
<1>6. RowsApart(t, n)
  BY RevivedApart
<1>7. /\ \A m : ActiveNode(t, m) = ActiveNode(s, m)
      /\ \A u : ActiveUp(t, u) = ActiveUp(s, u)
  BY DEF ActiveNode, ActiveUp
<1>8. Spared(c) = {c.up} /\ Spared(d) = {}
  BY DEF Spared, Replacing, AtGraph
<1>9. \A y \in Relations(t) : ActiveNode(t, y.node) /\ ActiveUp(t, y.up)
  <2>1. \A x \in s.rel \ B : x.deleted = 0 => ActiveNode(s, x.node) /\ ActiveUp(s, x.up)
    BY <1>3, <1>8 DEF GraphHolds, GraphOK, Relations
  <2> QED BY <1>2, <1>3, <1>5, <1>7, <2>1 DEF Relations
<1>10. ASSUME NEW u \in Upstreams
       PROVE  Complete(t, u) /\ Restorable(t, u)
  <2>1. CASE u = c.up
    <3>1. Restorable(t, u)
      BY <1>3, <2>1 DEF Restorable, ActiveUp
    <3>2. PICK x \in B : TRUE
      BY <1>3
    <3>3. Stamped(x, 0) \in Relations(t) /\ Stamped(x, 0).up = u
      BY <1>2, <2>1, <3>2 DEF Relations
    <3> QED BY <3>1, <3>3 DEF Complete
  <2>2. CASE u # c.up
    <3>1. Complete(s, u) /\ Restorable(s, u)
      BY <1>8, <2>2 DEF GraphHolds, GraphOK
    <3>2. \A x \in s.rel : x.up = u => x \in t.rel
      BY <2>2
    <3> QED BY <1>7, <3>1, <3>2 DEF Complete, Restorable, Relations
  <2> QED BY <2>1, <2>2
<1>11. GraphOK(t, Spared(d))
  BY <1>8, <1>9, <1>10 DEF GraphOK
<1>12. ChecksHold(d, t) /\ ReplacingOK(d, t)
  BY DEF ChecksHold, ReplacingOK, AtGraph
<1> QED BY <1>6, <1>11, <1>12 DEF GraphHolds

LEMMA UpstreamBeginHolds ==
  ASSUME TablesInv, NEW a \in Admins, NEW u \in Upstreams,
         \/ \E group \in Groups : SaveUpstream(a, u, group)
         \/ DeleteUpstream(a, u) \/ RestoreUpstream(a, u)
  PROVE  TablesInv'
<1>1. ASSUME NEW group \in Groups, SaveUpstream(a, u, group)
      PROVE  TablesInv'
  <2> DEFINE c == [Idle EXCEPT !.at = "nodes", !.up = u, !.group = group, !.todo = group]
  <2>1. Begin(a, c) /\ group \subseteq Nodes
    BY <1>1, RouteTablesAssumption DEF SaveUpstream
  <2>2. /\ Shaped(c) /\ c.at = "nodes" /\ c.op = "none" /\ c.up = u /\ c.todo = group
        /\ c.on = FALSE /\ c.group = group /\ c.labels = {} /\ c.id = 0
    <3>1. Shaped(c)
      BY IdleShape, Edits
    <3> QED BY <3>1 DEF Idle
  <2> HIDE DEF c
  <2>3. Fits(c) /\ Starts(c, db) /\ c.on \in BOOLEAN
    BY <2>1, <2>2 DEF Fits, Starts
  <2> QED BY <2>1, <2>2, <2>3, BeginHolds DEF Formed
<1>2. ASSUME DeleteUpstream(a, u)
      PROVE  TablesInv'
  <2> DEFINE c == [Idle EXCEPT !.at = "used", !.up = u]
  <2>1. Begin(a, c) /\ db.up[u].there
    BY <1>2 DEF DeleteUpstream
  <2>2. /\ Shaped(c) /\ c.at = "used" /\ c.op = "none" /\ c.up = u
        /\ c.on = FALSE /\ c.group = {} /\ c.labels = {} /\ c.id = 0
    <3>1. Shaped(c)
      BY IdleShape, Edits
    <3> QED BY <3>1 DEF Idle
  <2> HIDE DEF c
  <2>3. Fits(c) /\ Starts(c, db) /\ c.on \in BOOLEAN
    BY <2>1, <2>2 DEF Fits, Starts
  <2> QED BY <2>1, <2>2, <2>3, BeginHolds DEF Formed
<1>3. ASSUME RestoreUpstream(a, u)
      PROVE  TablesInv'
  <2> DEFINE c == [Idle EXCEPT !.at = "readUp", !.up = u]
  <2>1. Begin(a, c) /\ db.up[u].there
    BY <1>3 DEF RestoreUpstream
  <2>2. /\ Shaped(c) /\ c.at = "readUp" /\ c.op = "none" /\ c.up = u
        /\ c.on = FALSE /\ c.group = {} /\ c.labels = {} /\ c.id = 0
    <3>1. Shaped(c)
      BY IdleShape, Edits
    <3> QED BY <3>1 DEF Idle
  <2> HIDE DEF c
  <2>3. Fits(c) /\ Starts(c, db) /\ c.on \in BOOLEAN
    BY <2>1, <2>2 DEF Fits, Starts
  <2> QED BY <2>1, <2>2, <2>3, BeginHolds DEF Formed
<1> QED BY <1>1, <1>2, <1>3

\* The statements of an upstream's call.
AtUpstream(c) ==
  c.at \in {"nodes", "used", "dropUp", "list", "remove", "insert",
            "readUp", "stamp", "restoreUp", "revive"}

LEMMA UpstreamNoTags ==
  ASSUME NEW c, Fits(c), AtUpstream(c), NEW d, AtUpstream(d), Kin(c, d)
  PROVE  ~GivesTags(c) /\ ~TakesTag(c) /\ ~AtTags(d)
BY DEF Fits, AtUpstream, Kin, GivesTags, TakesTag, AtTags

\* A step that reads or counts.
LEMMA UpstreamChecked ==
  ASSUME TablesInv, NEW a \in Admins, NEW ok \in BOOLEAN, NEW next, Check(a, ok, next),
         AtUpstream(call[a]), AtUpstream(next), Kin(call[a], next), next.id = call[a].id,
         Fits(next), ok \/ ~Replacing(call[a]), next.at = "remove" => Listed(next, db),
         ok /\ RulesHold(call[a], db) => RulesHold(next, db),
         ok /\ GraphHolds(call[a], db, calls) => GraphHolds(next, db, calls)
  PROVE  TablesInv'
<1> DEFINE c == call[a]
<1>1. Formed(c) /\ Fits(c) /\ db \in Tables /\ calls \in Nat
  BY NothingChanges DEF CallOK
<1>2. Follows(c, next) /\ c.at # "idle"
  BY <1>1, KinFollows DEF Formed, AtUpstream
<1>3. ~GivesTags(c) /\ ~TakesTag(c) /\ ~AtTags(next)
  BY <1>1, UpstreamNoTags
<1>4. ok /\ Holds(c, db, failures, history, calls) => Holds(next, db, failures, history, calls)
  BY <1>1, <1>3, HoldsInGraph
<1> QED BY <1>2, <1>3, <1>4, CheckHolds DEF AtRest

LEMMA UpstreamChecksHold ==
  ASSUME TablesInv, NEW a \in Admins,
         \/ CheckNode(a) \/ CountRules(a) \/ ListRelations(a) \/ EndRemoval(a)
         \/ ReadDeletedUpstream(a) \/ ReadStamp(a)
  PROVE  TablesInv'
<1> DEFINE c == call[a]
<1>1. Shaped(c) /\ Fits(c) /\ Formed(c)
  BY NothingChanges DEF CallOK
<1>2. CASE CheckNode(a)
  <2>1. PICK m \in c.todo : Check(a, ActiveNode(db, m), [c EXCEPT !.todo = @ \ {m}])
    BY <1>2 DEF CheckNode
  <2> DEFINE next == [c EXCEPT !.todo = @ \ {m}]
             ok == ActiveNode(db, m)
  <2>2. Check(a, ok, next) /\ ok \in BOOLEAN /\ c.at = "nodes"
    BY <1>2, <2>1 DEF CheckNode, ActiveNode
  <2>3. Kin(c, next) /\ next.at = "nodes" /\ next.id = c.id /\ next.up = c.up
        /\ next.todo = c.todo \ {m}
    <3>1. Shaped(next)
      BY <1>1, Edits
    <3> QED BY <1>1, <2>2, <3>1 DEF Kin, Shaped
  <2> HIDE DEF next
  <2>4. Fits(next)
    BY <1>1, <2>2, <2>3 DEF Fits, Kin
  <2>5. ok /\ ChecksHold(c, db) => ChecksHold(next, db)
    BY <2>2, <2>3 DEF ChecksHold, Kin
  <2>6. ~Replacing(c) /\ ~Replacing(next) /\ AtUpstream(c) /\ AtUpstream(next)
    BY <2>2, <2>3 DEF Replacing, AtUpstream
  <2>7. RulesHold(c, db) => RulesHold(next, db)
    BY <2>3, RulesAside
  <2> HIDE DEF ok
  <2>8. ok /\ GraphHolds(c, db, calls) => GraphHolds(next, db, calls)
    BY <2>5, <2>6, GraphChecked
  <2> QED BY <2>2, <2>3, <2>4, <2>6, <2>7, <2>8, UpstreamChecked
<1>3. CASE CountRules(a)
  <2> DEFINE next == [c EXCEPT !.at = "dropUp"]
             ok == \A r \in Rules : ActiveRule(db, r) => db.rule[r].up # c.up
  <2>1. Check(a, ok, next) /\ ok \in BOOLEAN /\ c.at = "used"
    BY <1>3 DEF CountRules
  <2>2. Kin(c, next) /\ next.at = "dropUp" /\ next.id = c.id /\ next.up = c.up
    <3>1. Shaped(next)
      BY <1>1, Edits
    <3> QED BY <1>1, <3>1 DEF Kin, Shaped
  <2> HIDE DEF next
  <2>3. Fits(next)
    BY <1>1, <2>1, <2>2 DEF Fits, Kin
  <2>4. ChecksHold(c, db) => ChecksHold(next, db)
    BY <2>1, <2>2 DEF ChecksHold, Kin
  <2>5. ~Replacing(c) /\ ~Replacing(next) /\ AtUpstream(c) /\ AtUpstream(next)
    BY <2>1, <2>2 DEF Replacing, AtUpstream
  <2>6. ok /\ RulesHold(c, db) => RulesHold(next, db)
    BY <2>2 DEF RulesHold
  <2> HIDE DEF ok
  <2>7. GraphHolds(c, db, calls) => GraphHolds(next, db, calls)
    BY <2>4, <2>5, GraphChecked
  <2> QED BY <2>1, <2>2, <2>3, <2>5, <2>6, <2>7, UpstreamChecked
<1>4. CASE ListRelations(a)
  <2> DEFINE next == [c EXCEPT !.at = "remove", !.todo = {x \in Relations(db) : x.up = c.up}]
  <2>1. Check(a, TRUE, next) /\ c.at = "list"
    BY <1>4 DEF ListRelations
  <2>2. /\ Kin(c, next) /\ next.at = "remove" /\ next.id = c.id /\ next.up = c.up
        /\ next.todo = {x \in Relations(db) : x.up = c.up}
    <3>1. Shaped(next)
      BY <1>1, Edits
    <3> QED BY <1>1, <3>1 DEF Kin, Shaped
  <2> HIDE DEF next
  <2>3. Fits(next)
    BY <1>1, <2>1, <2>2 DEF Fits, Kin
  <2>4. AtUpstream(c) /\ AtUpstream(next)
    BY <2>1, <2>2 DEF AtUpstream
  <2>5. RulesHold(c, db) => RulesHold(next, db)
    BY <2>2, RulesAside
  <2>6. GraphHolds(c, db, calls) => GraphHolds(next, db, calls)
    BY <2>1, <2>2, RelationsListed DEF Kin
  <2>7. Listed(next, db)
    BY <2>2 DEF Listed, Relations, SameRow
  <2> QED BY <2>1, <2>2, <2>3, <2>4, <2>5, <2>6, <2>7, UpstreamChecked
<1>5. CASE EndRemoval(a)
  <2> DEFINE next == [c EXCEPT !.at = "insert", !.todo = c.group]
  <2>1. Check(a, TRUE, next) /\ c.at = "remove" /\ c.todo = {}
    BY <1>5 DEF EndRemoval
  <2>2. /\ Kin(c, next) /\ next.at = "insert" /\ next.id = c.id /\ next.up = c.up
        /\ next.todo = c.group
    <3>1. Shaped(next)
      BY <1>1, Edits
    <3> QED BY <1>1, <3>1 DEF Kin, Shaped
  <2> HIDE DEF next
  <2>3. Fits(next)
    BY <1>1, <2>1, <2>2 DEF Fits, Kin, Formed
  <2>4. AtUpstream(c) /\ AtUpstream(next)
    BY <2>1, <2>2 DEF AtUpstream
  <2>5. RulesHold(c, db) => RulesHold(next, db)
    BY <2>2, RulesAside
  <2>6. GraphHolds(c, db, calls) => GraphHolds(next, db, calls)
    BY <2>1, <2>2, RemovalEnded DEF Kin
  <2> QED BY <2>1, <2>2, <2>3, <2>4, <2>5, <2>6, UpstreamChecked
<1>6. CASE ReadDeletedUpstream(a)
  <2> DEFINE next == [c EXCEPT !.at = "stamp"]
             ok == db.up[c.up].deleted # 0
  <2>1. Check(a, ok, next) /\ ok \in BOOLEAN /\ c.at = "readUp"
    BY <1>6 DEF ReadDeletedUpstream
  <2>2. Kin(c, next) /\ next.at = "stamp" /\ next.id = c.id /\ next.up = c.up
    <3>1. Shaped(next)
      BY <1>1, Edits
    <3> QED BY <1>1, <3>1 DEF Kin, Shaped
  <2> HIDE DEF next
  <2>3. Fits(next)
    BY <1>1, <2>1, <2>2 DEF Fits, Kin
  <2>4. ok /\ ChecksHold(c, db) => ChecksHold(next, db)
    BY <2>1, <2>2 DEF ChecksHold, Kin
  <2>5. ~Replacing(c) /\ ~Replacing(next) /\ AtUpstream(c) /\ AtUpstream(next)
    BY <2>1, <2>2 DEF Replacing, AtUpstream
  <2>6. RulesHold(c, db) => RulesHold(next, db)
    BY <2>2, RulesAside
  <2> HIDE DEF ok
  <2>7. ok /\ GraphHolds(c, db, calls) => GraphHolds(next, db, calls)
    BY <2>4, <2>5, GraphChecked
  <2> QED BY <2>1, <2>2, <2>3, <2>5, <2>6, <2>7, UpstreamChecked
<1>7. CASE ReadStamp(a)
  <2> DEFINE next == [c EXCEPT !.at = "restoreUp", !.stamp = db.up[c.up].deleted]
  <2>1. Check(a, TRUE, next) /\ c.at = "stamp"
    BY <1>7 DEF ReadStamp
  <2>2. /\ Kin(c, next) /\ next.at = "restoreUp" /\ next.id = c.id /\ next.up = c.up
        /\ next.stamp = db.up[c.up].deleted
    <3>1. Shaped(next)
      BY <1>1, Edits
    <3> QED BY <1>1, <3>1 DEF Kin, Shaped
  <2> HIDE DEF next
  <2>3. Fits(next)
    BY <1>1, <2>1, <2>2 DEF Fits, Kin
  <2>4. ChecksHold(c, db) => ChecksHold(next, db)
    BY <2>1, <2>2 DEF ChecksHold, Kin
  <2>5. ~Replacing(c) /\ ~Replacing(next) /\ AtUpstream(c) /\ AtUpstream(next)
    BY <2>1, <2>2 DEF Replacing, AtUpstream
  <2>6. RulesHold(c, db) => RulesHold(next, db)
    BY <2>2, RulesAside
  <2>7. GraphHolds(c, db, calls) => GraphHolds(next, db, calls)
    BY <2>4, <2>5, GraphChecked
  <2> QED BY <2>1, <2>2, <2>3, <2>5, <2>6, <2>7, UpstreamChecked
<1> QED BY <1>2, <1>3, <1>4, <1>5, <1>6, <1>7

\* t is s with another row for the upstream.
UpReplaced(s, t, u, row) ==
  /\ t \in Tables /\ t.up = [s.up EXCEPT ![u] = row] /\ t.rule = s.rule /\ t.node = s.node
  /\ t.rel = s.rel /\ t.tag = s.tag /\ t.ruleTag = s.ruleTag /\ RowsStay(s, t)

LEMMA UpRow ==
  ASSUME NEW s \in Tables, NEW u \in Upstreams, NEW row \in [there : BOOLEAN, deleted : Stamps]
  PROVE  UpReplaced(s, [s EXCEPT !.up[u] = row], u, row)
<1> DEFINE t == [s EXCEPT !.up[u] = row]
<1>1. s.up \in UpTable /\ Whole(s)
  BY TableTypes
<1>2. [s.up EXCEPT ![u] = row] \in UpTable
  BY <1>1 DEF UpTable
<1>3. t \in Tables
  BY <1>2, Replaced
<1>4. /\ t.up = [s.up EXCEPT ![u] = row] /\ t.rule = s.rule /\ t.node = s.node
      /\ t.rel = s.rel /\ t.tag = s.tag /\ t.ruleTag = s.ruleTag
  BY <1>1 DEF Whole
<1> HIDE DEF t
<1>5. RowsStay(s, t)
  BY <1>4 DEF RowsStay, SameRow
<1>6. UpReplaced(s, t, u, row)
  BY <1>3, <1>4, <1>5 DEF UpReplaced
<1> QED BY <1>6 DEF t

\* A step that ends with the relations, and then with Rebuild.
LEMMA UpstreamWrites ==
  ASSUME TablesInv, NEW a \in Admins, AtUpstream(call[a])
  PROVE  /\ Formed(call[a]) /\ Shaped(call[a]) /\ Fits(call[a]) /\ db \in Tables /\ calls \in Nat
         /\ call[a].at # "idle" /\ call[a].tag \in Stamps \ {0} /\ call[a].tag <= calls
         /\ call[a].up \in Upstreams /\ ~GivesTags(call[a]) /\ ~TakesTag(call[a])
         /\ db.rel \subseteq RelRow
         /\ \A d : AtUpstream(d) /\ Kin(call[a], d) => ~AtTags(d)
<1>1. /\ Formed(call[a]) /\ Shaped(call[a]) /\ Fits(call[a]) /\ db \in Tables /\ calls \in Nat
      /\ CallOK(call[a], calls) /\ db.rel \subseteq RelRow
  BY NothingChanges, TableTypes DEF CallOK
<1>2. call[a].at # "idle"
  BY DEF AtUpstream
<1>3. call[a].tag \in Stamps \ {0} /\ call[a].tag <= calls
  BY <1>1, <1>2, NothingChanges DEF CallOK
<1>4. call[a].up \in Upstreams
  BY <1>1 DEF Fits, AtUpstream
<1>5. ~GivesTags(call[a]) /\ ~TakesTag(call[a])
  BY <1>1 DEF AtUpstream, GivesTags, TakesTag, Fits
<1>6. \A d : AtUpstream(d) /\ Kin(call[a], d) => ~AtTags(d)
  BY <1>1, UpstreamNoTags
<1> QED BY <1>1, <1>2, <1>3, <1>4, <1>5, <1>6

LEMMA PairRefused ==
  ASSUME NEW c, NEW s \in Tables, NEW t, NEW f, NEW h, NEW n \in Nat, Holds(c, s, f, h, n),
         ~UniquePairs(t), GraphHolds(c, s, n) => RowsApart(t, n), ~GivesTags(c), ~TakesTag(c)
  PROVE  Holds(Idle, s, f, h, n)
<1>1. ~GraphHolds(c, s, n)
  BY RowsDiffer
<1>2. RulesHold(Idle, s)
  BY RulesAside, IdleShape DEF Holds
<1> QED BY <1>1, <1>2, HoldsInGraph, IdleAside

LEMMA UpstreamWriteHolds ==
  ASSUME TablesInv, NEW a \in Admins, WriteUpstream(a)
  PROVE  TablesInv'
<1> DEFINE c == call[a]
           row == [db.up[c.up] EXCEPT !.there = TRUE]
           t == [db EXCEPT !.up[c.up] = row]
           next == [c EXCEPT !.at = "list"]
<1>1. /\ db' = t /\ Goes(a, next) /\ c.at = "nodes" /\ c.todo = {}
      /\ history' = [history EXCEPT !.writer = c.tag, !.told = FALSE,
                       !.culprit = @ \/ c.group = {} \/ db.up[c.up].deleted # 0]
      /\ served' = served /\ calls' = calls /\ failures' = failures
  BY DEF WriteUpstream, Goto, Goes
<1>2. AtUpstream(c)
  BY <1>1 DEF AtUpstream
<1>3. /\ Formed(c) /\ Shaped(c) /\ Fits(c) /\ db \in Tables /\ calls \in Nat /\ c.at # "idle"
      /\ c.up \in Upstreams /\ ~GivesTags(c) /\ ~TakesTag(c)
      /\ \A d : AtUpstream(d) /\ Kin(c, d) => ~AtTags(d)
  BY <1>2, UpstreamWrites
<1>4. db.up \in UpTable /\ db.rule \in RuleTable
  BY <1>3, TableTypes
<1>5. row \in [there : BOOLEAN, deleted : Stamps] /\ row.deleted = db.up[c.up].deleted /\ row.there
  BY <1>3, <1>4 DEF UpTable
<1>6. [db.up EXCEPT ![c.up].there = TRUE] = [db.up EXCEPT ![c.up] = row]
  BY <1>3, <1>4 DEF UpTable
<1> HIDE DEF row
<1>7. UpReplaced(db, t, c.up, row)
  BY <1>3, <1>5, UpRow
<1> HIDE DEF t
<1>8. /\ t \in Tables /\ t.up = [db.up EXCEPT ![c.up] = row] /\ t.rule = db.rule
      /\ t.node = db.node /\ t.rel = db.rel /\ t.tag = db.tag /\ t.ruleTag = db.ruleTag
      /\ RowsStay(db, t)
  BY <1>7 DEF UpReplaced
<1>9. Kin(c, next) /\ next.at = "list" /\ next.id = c.id /\ next.up = c.up
  <2>1. Shaped(next)
    BY <1>3, Edits
  <2> QED BY <1>3, <2>1 DEF Kin, Shaped
<1> HIDE DEF next
<1>10. Follows(c, next)
  <2>1. Fits(next)
    BY <1>1, <1>3, <1>9 DEF Fits, Kin
  <2> QED BY <1>3, <1>9, <2>1, KinFollows DEF Formed
<1>11. ~AtTags(next)
  BY <1>3, <1>9 DEF AtUpstream
<1>12. RulesHold(c, db) => RulesHold(next, t)
  <2>1. \A u \in Upstreams : ActiveUp(db, u) => ActiveUp(t, u)
    BY <1>3, <1>4, <1>5, <1>8 DEF ActiveUp, UpTable
  <2>2. \A r \in Rules : ActiveRule(db, r) => db.rule[r].up \in Upstreams
    BY <1>4 DEF ActiveRule, RuleTable
  <2>3. ASSUME RulesHold(c, db)
        PROVE  RulesHold(next, t)
    <3>1. \A r \in Rules : ActiveRule(t, r) => ActiveUp(t, t.rule[r].up)
      BY <1>8, <2>1, <2>2, <2>3 DEF RulesHold, ActiveRule
    <3> QED BY <1>9, <3>1 DEF RulesHold
  <2> QED BY <2>3
<1>13. HistoryOK(history)
  BY NothingChanges
<1>14. /\ HistoryOK(history') /\ history'.raced = history.raced
       /\ history'.tagged = history.tagged
       /\ history'.culprit = (history.culprit \/ c.group = {} \/ db.up[c.up].deleted # 0)
  BY <1>1, <1>13 DEF HistoryOK, Noted
<1>15. ~history'.culprit /\ GraphHolds(c, db, calls) => GraphHolds(next, t, calls)
  BY <1>1, <1>3, <1>6, <1>8, <1>9, <1>14, UpstreamWritten DEF Kin
<1>16. Holds(c, db, failures, history, calls) => Holds(next, db', failures', history', calls)
  BY <1>1, <1>3, <1>8, <1>11, <1>12, <1>14, <1>15, HoldsInGraph
<1>17. Listed(next, db')
  BY <1>9 DEF Listed
<1> QED BY <1>1, <1>3, <1>8, <1>10, <1>14, <1>16, <1>17, NothingChanges, GoingOn

LEMMA UpstreamDropHolds ==
  ASSUME TablesInv, NEW a \in Admins, DropUpstream(a)
  PROVE  TablesInv'
<1> DEFINE c == call[a]
           row == [db.up[c.up] EXCEPT !.deleted = c.tag]
           t == [db EXCEPT !.up[c.up] = row]
           next == [c EXCEPT !.at = "list"]
<1>1. /\ db' = t /\ Goes(a, next) /\ c.at = "dropUp"
      /\ history' = [history EXCEPT !.writer = c.tag, !.told = FALSE,
                       !.culprit = @ \/ db.up[c.up].deleted # 0]
      /\ served' = served /\ calls' = calls /\ failures' = failures
  BY DEF DropUpstream, Goto, Goes
<1>2. AtUpstream(c)
  BY <1>1 DEF AtUpstream
<1>3. /\ Formed(c) /\ Shaped(c) /\ Fits(c) /\ db \in Tables /\ calls \in Nat /\ c.at # "idle"
      /\ c.up \in Upstreams /\ ~GivesTags(c) /\ ~TakesTag(c) /\ c.tag \in Stamps \ {0}
      /\ \A d : AtUpstream(d) /\ Kin(c, d) => ~AtTags(d)
  BY <1>2, UpstreamWrites
<1>4. db.up \in UpTable /\ db.rule \in RuleTable
  BY <1>3, TableTypes
<1>5. row \in [there : BOOLEAN, deleted : Stamps] /\ row.deleted = c.tag
  BY <1>3, <1>4 DEF UpTable
<1>6. [db.up EXCEPT ![c.up].deleted = c.tag] = [db.up EXCEPT ![c.up] = row]
  BY <1>3, <1>4 DEF UpTable
<1> HIDE DEF row
<1>7. UpReplaced(db, t, c.up, row)
  BY <1>3, <1>5, UpRow
<1> HIDE DEF t
<1>8. /\ t \in Tables /\ t.up = [db.up EXCEPT ![c.up] = row] /\ t.rule = db.rule
      /\ t.node = db.node /\ t.rel = db.rel /\ t.tag = db.tag /\ t.ruleTag = db.ruleTag
      /\ RowsStay(db, t)
  BY <1>7 DEF UpReplaced
<1>9. Kin(c, next) /\ next.at = "list" /\ next.id = c.id /\ next.up = c.up
  <2>1. Shaped(next)
    BY <1>3, Edits
  <2> QED BY <1>3, <2>1 DEF Kin, Shaped
<1> HIDE DEF next
<1>10. Follows(c, next)
  <2>1. Fits(next)
    BY <1>1, <1>3, <1>9 DEF Fits, Kin
  <2> QED BY <1>3, <1>9, <2>1, KinFollows DEF Formed
<1>11. ~AtTags(next)
  BY <1>3, <1>9 DEF AtUpstream
<1>12. RulesHold(c, db) => RulesHold(next, t)
  <2>1. \A u \in Upstreams : u # c.up => (ActiveUp(db, u) => ActiveUp(t, u))
    BY <1>3, <1>4, <1>8 DEF ActiveUp, UpTable
  <2>2. \A r \in Rules : ActiveRule(db, r) => db.rule[r].up \in Upstreams
    BY <1>4 DEF ActiveRule, RuleTable
  <2>3. ASSUME RulesHold(c, db)
        PROVE  RulesHold(next, t)
    <3>1. \A r \in Rules : ActiveRule(db, r) => db.rule[r].up # c.up
      BY <1>1, <2>3 DEF RulesHold
    <3>2. \A r \in Rules : ActiveRule(t, r) => ActiveUp(t, t.rule[r].up)
      BY <1>8, <2>1, <2>2, <2>3, <3>1 DEF RulesHold, ActiveRule
    <3> QED BY <1>9, <3>2 DEF RulesHold
  <2> QED BY <2>3
<1>13. HistoryOK(history)
  BY NothingChanges
<1>14. /\ HistoryOK(history') /\ history'.raced = history.raced
       /\ history'.tagged = history.tagged
       /\ history'.culprit = (history.culprit \/ db.up[c.up].deleted # 0)
  BY <1>1, <1>13 DEF HistoryOK, Noted
<1>15. c.group = {}
  BY <1>1, <1>3 DEF Fits
<1>16. ~history'.culprit /\ GraphHolds(c, db, calls) => GraphHolds(next, t, calls)
  BY <1>1, <1>3, <1>6, <1>8, <1>9, <1>14, <1>15, UpstreamDropped DEF Kin
<1>17. Holds(c, db, failures, history, calls) => Holds(next, db', failures', history', calls)
  BY <1>1, <1>3, <1>8, <1>11, <1>12, <1>14, <1>16, HoldsInGraph
<1>18. Listed(next, db')
  BY <1>9 DEF Listed
<1> QED BY <1>1, <1>3, <1>8, <1>10, <1>14, <1>17, <1>18, NothingChanges, GoingOn

LEMMA UpstreamRestoreHolds ==
  ASSUME TablesInv, NEW a \in Admins, RestoreRow(a)
  PROVE  TablesInv'
<1> DEFINE c == call[a]
           row == [db.up[c.up] EXCEPT !.deleted = 0]
           t == [db EXCEPT !.up[c.up] = row]
           revive == [c EXCEPT !.at = "revive"]
           next == IF c.stamp = 0 THEN Written(a) ELSE revive
<1>1. Write(a, t, TRUE, next) /\ c.at = "restoreUp"
  BY DEF RestoreRow
<1>2. AtUpstream(c)
  BY <1>1 DEF AtUpstream
<1>3. /\ Formed(c) /\ Shaped(c) /\ Fits(c) /\ db \in Tables /\ calls \in Nat /\ c.at # "idle"
      /\ c.up \in Upstreams /\ ~GivesTags(c) /\ ~TakesTag(c) /\ c.tag \in Stamps \ {0}
      /\ \A d : AtUpstream(d) /\ Kin(c, d) => ~AtTags(d)
  BY <1>2, UpstreamWrites
<1>4. db.up \in UpTable /\ db.rule \in RuleTable /\ 0 \in Stamps
  BY <1>3, TableTypes, RouteTablesAssumption DEF Stamps
<1>5. /\ row \in [there : BOOLEAN, deleted : Stamps] /\ row.deleted = 0
      /\ row.there = db.up[c.up].there
  BY <1>3, <1>4 DEF UpTable
<1>6. [db.up EXCEPT ![c.up].deleted = 0] = [db.up EXCEPT ![c.up] = row]
  BY <1>3, <1>4 DEF UpTable
<1> HIDE DEF row
<1>7. UpReplaced(db, t, c.up, row)
  BY <1>3, <1>5, UpRow
<1> HIDE DEF t
<1>8. /\ t \in Tables /\ t.up = [db.up EXCEPT ![c.up] = row] /\ t.rule = db.rule
      /\ t.node = db.node /\ t.rel = db.rel /\ t.tag = db.tag /\ t.ruleTag = db.ruleTag
      /\ RowsStay(db, t)
  BY <1>7 DEF UpReplaced
<1>9. /\ Kin(c, revive) /\ revive.at = "revive" /\ revive.id = c.id /\ revive.up = c.up
      /\ revive.stamp = c.stamp
  <2>1. Shaped(revive)
    BY <1>3, Edits
  <2> QED BY <1>3, <2>1 DEF Kin, Shaped
<1> HIDE DEF revive
<1>10. Follows(c, revive)
  <2>1. Fits(revive)
    BY <1>1, <1>3, <1>9 DEF Fits, Kin
  <2> QED BY <1>3, <1>9, <2>1, KinFollows DEF Formed
<1>11. Follows(c, next) /\ ~AtTags(next) /\ next.at \in {"rebuild", "revive"}
  BY <1>3, <1>9, <1>10, WrittenFollows DEF AtUpstream
<1>12. RulesHold(c, db) => RulesHold(next, t)
  <2>1. \A u \in Upstreams : ActiveUp(db, u) => ActiveUp(t, u)
    BY <1>3, <1>4, <1>5, <1>8 DEF ActiveUp, UpTable
  <2>2. \A r \in Rules : ActiveRule(db, r) => db.rule[r].up \in Upstreams
    BY <1>4 DEF ActiveRule, RuleTable
  <2>3. ASSUME RulesHold(c, db)
        PROVE  RulesHold(next, t)
    <3>1. \A r \in Rules : ActiveRule(t, r) => ActiveUp(t, t.rule[r].up)
      BY <1>8, <2>1, <2>2, <2>3 DEF RulesHold, ActiveRule
    <3> QED BY <1>11, <3>1 DEF RulesHold
  <2> QED BY <2>3
<1>13. GraphHolds(c, db, calls) => GraphHolds(next, t, calls)
  <2>1. GraphHolds(c, db, calls) => GraphHolds(revive, t, calls)
    BY <1>1, <1>3, <1>6, <1>8, <1>9, UpstreamRestored DEF Kin
  <2>2. GraphHolds(c, db, calls) => c.stamp # 0
    BY <1>1 DEF GraphHolds, ChecksHold
  <2> QED BY <2>1, <2>2
<1> HIDE DEF next
<1>14. Holds(c, db, failures, history, calls) => Holds(next, t, failures, history, calls)
  BY <1>3, <1>8, <1>11, <1>12, <1>13, HoldsInGraph
<1> QED BY <1>1, <1>3, <1>8, <1>11, <1>14, WriteHolds

\* t is s with other relations.
RelReplaced(s, t, rels) ==
  /\ t \in Tables /\ t.rel = rels /\ t.rule = s.rule /\ t.up = s.up /\ t.node = s.node
  /\ t.tag = s.tag /\ t.ruleTag = s.ruleTag

LEMMA RelRows ==
  ASSUME NEW s \in Tables, NEW rels, rels \subseteq RelRow
  PROVE  RelReplaced(s, [s EXCEPT !.rel = rels], rels)
<1> DEFINE t == [s EXCEPT !.rel = rels]
<1>1. t \in Tables
  BY Replaced
<1>2. /\ t.rel = rels /\ t.rule = s.rule /\ t.up = s.up /\ t.node = s.node
      /\ t.tag = s.tag /\ t.ruleTag = s.ruleTag
  BY TableTypes DEF Whole
<1> HIDE DEF t
<1>3. RelReplaced(s, t, rels)
  BY <1>1, <1>2 DEF RelReplaced
<1> QED BY <1>3 DEF t

LEMMA UpstreamRemoveHolds ==
  ASSUME TablesInv, NEW a \in Admins, RemoveRelation(a)
  PROVE  TablesInv'
<1> DEFINE c == call[a]
<1>1. c.at = "remove" /\ AtUpstream(c)
  BY DEF RemoveRelation, AtUpstream
<1>2. /\ Formed(c) /\ Shaped(c) /\ Fits(c) /\ db \in Tables /\ calls \in Nat /\ c.at # "idle"
      /\ c.up \in Upstreams /\ ~GivesTags(c) /\ ~TakesTag(c) /\ c.tag \in Stamps \ {0}
      /\ c.tag <= calls /\ db.rel \subseteq RelRow
      /\ \A d : AtUpstream(d) /\ Kin(c, d) => ~AtTags(d)
  BY <1>1, UpstreamWrites
<1>3. PICK x \in c.todo :
        LET row == CHOOSE y \in db.rel : y.up = x.up /\ y.node = x.node /\ y.by = x.by
            t == [db EXCEPT !.rel = SoftDelete(@, row, c.tag)]
        IN  Write(a, t, UniquePairs(t), [c EXCEPT !.todo = @ \ {x}])
  BY DEF RemoveRelation
<1> DEFINE row == CHOOSE y \in db.rel : y.up = x.up /\ y.node = x.node /\ y.by = x.by
           rels == (db.rel \ {row}) \cup {Stamped(row, c.tag)}
           t == [db EXCEPT !.rel = rels]
           next == [c EXCEPT !.todo = @ \ {x}]
<1>4. Write(a, t, UniquePairs(t), next)
  BY <1>3 DEF SoftDelete, Stamped
<1>5. row \in db.rel /\ row.up = x.up /\ row.node = x.node /\ row.by = x.by
  <2>1. Listed(c, db)
    BY NothingChanges
  <2>2. \E y \in db.rel : y.up = x.up /\ y.node = x.node /\ y.by = x.by
    BY <1>1, <2>1 DEF Listed, SameRow
  <2> QED BY <2>2
<1> HIDE DEF row
<1>6. /\ Stamped(row, c.tag) \in RelRow /\ Stamped(row, c.tag).up = row.up
      /\ Stamped(row, c.tag).node = row.node /\ Stamped(row, c.tag).by = row.by
  BY <1>2, <1>5, StampedRow
<1>7. RelReplaced(db, t, rels)
  <2>1. rels \subseteq RelRow
    BY <1>2, <1>6
  <2> HIDE DEF rels
  <2> QED BY <1>2, <2>1, RelRows
<1> HIDE DEF t
<1>8. /\ t \in Tables /\ t.rel = rels /\ t.rule = db.rule /\ t.up = db.up /\ t.node = db.node
      /\ t.tag = db.tag /\ t.ruleTag = db.ruleTag
  BY <1>7 DEF RelReplaced
<1>9. RowsStay(db, t)
  <2>1. ASSUME NEW z \in db.rel
        PROVE  \E y \in t.rel : SameRow(z, y)
    <3>1. CASE z = row
      BY <1>6, <1>8, <3>1 DEF SameRow
    <3>2. CASE z # row
      BY <1>8, <3>2 DEF SameRow
    <3> QED BY <3>1, <3>2
  <2> QED BY <2>1 DEF RowsStay
<1>10. /\ Kin(c, next) /\ next.at = "remove" /\ next.id = c.id /\ next.up = c.up
       /\ next.todo = c.todo \ {x}
  <2>1. Shaped(next)
    BY <1>2, Edits
  <2> QED BY <1>1, <1>2, <2>1 DEF Kin, Shaped
<1> HIDE DEF next
<1>11. Follows(c, next)
  <2>1. Fits(next)
    BY <1>1, <1>2, <1>10 DEF Fits, Kin
  <2> QED BY <1>2, <1>10, <2>1, KinFollows DEF Formed
<1>12. ~AtTags(next)
  BY <1>2, <1>10 DEF AtUpstream
<1>13. Listed(next, t)
  <2>1. Listed(c, t)
    BY <1>9, ListedStays, NothingChanges
  <2> QED BY <1>1, <1>10, <2>1 DEF Listed
<1>14. RulesHold(c, db) => RulesHold(next, t)
  BY <1>8, <1>10, RulesAside
<1>15. GraphHolds(c, db, calls) => GraphHolds(next, t, calls)
  <2>1. ASSUME GraphHolds(c, db, calls)
        PROVE  GraphHolds(next, t, calls)
    <3>1. x \in db.rel
      BY <1>1, <2>1 DEF GraphHolds, ReplacingOK, Relations
    <3>2. row = x
      BY <1>5, <2>1, <3>1 DEF GraphHolds, RowsApart, SameRow
    <3>3. t.rel = (db.rel \ {x}) \cup {Stamped(x, c.tag)}
      BY <1>8, <3>2
    <3> QED BY <1>1, <1>2, <1>8, <1>10, <2>1, <3>3, RelationRemoved DEF Kin
  <2> QED BY <2>1
<1> HIDE DEF rels
<1>16. Holds(c, db, failures, history, calls) => Holds(next, t, failures, history, calls)
  BY <1>2, <1>8, <1>12, <1>14, <1>15, HoldsInGraph
<1>17. ~UniquePairs(t) /\ Holds(c, db, failures, history, calls)
         => Holds(Idle, db, failures, history, calls)
  <2>1. GraphHolds(c, db, calls) => RowsApart(t, calls)
    BY <1>15 DEF GraphHolds
  <2> QED BY <1>2, <2>1, PairRefused
<1> QED BY <1>2, <1>4, <1>8, <1>9, <1>11, <1>13, <1>16, <1>17, WriteHolds

LEMMA UpstreamInsertHolds ==
  ASSUME TablesInv, NEW a \in Admins, InsertRelation(a)
  PROVE  TablesInv'
<1> DEFINE c == call[a]
<1>1. c.at = "insert" /\ AtUpstream(c)
  BY DEF InsertRelation, AtUpstream
<1>2. /\ Formed(c) /\ Shaped(c) /\ Fits(c) /\ db \in Tables /\ calls \in Nat /\ c.at # "idle"
      /\ c.up \in Upstreams /\ ~GivesTags(c) /\ ~TakesTag(c) /\ c.tag \in Stamps \ {0}
      /\ c.tag <= calls /\ db.rel \subseteq RelRow
      /\ \A d : AtUpstream(d) /\ Kin(c, d) => ~AtTags(d)
  BY <1>1, UpstreamWrites
<1>3. PICK m \in c.todo :
        LET t == [db EXCEPT !.rel = @ \cup
                    {[up |-> c.up, node |-> m, by |-> c.tag, deleted |-> 0]}]
        IN  Write(a, t, UniquePairs(t), [c EXCEPT !.todo = @ \ {m}])
  BY DEF InsertRelation
<1> DEFINE row == [up |-> c.up, node |-> m, by |-> c.tag, deleted |-> 0]
           rels == db.rel \cup {row}
           t == [db EXCEPT !.rel = rels]
           next == [c EXCEPT !.todo = @ \ {m}]
<1>4. Write(a, t, UniquePairs(t), next)
  BY <1>3
<1>5. row \in RelRow
  <2>1. m \in Nodes /\ 0 \in Stamps
    BY <1>1, <1>2, RouteTablesAssumption DEF Fits, Stamps
  <2> QED BY <1>2, <2>1 DEF RelRow
<1>6. RelReplaced(db, t, rels)
  <2>1. rels \subseteq RelRow
    BY <1>2, <1>5
  <2> HIDE DEF rels
  <2> QED BY <1>2, <2>1, RelRows
<1> HIDE DEF t
<1>7. /\ t \in Tables /\ t.rel = rels /\ t.rule = db.rule /\ t.up = db.up /\ t.node = db.node
      /\ t.tag = db.tag /\ t.ruleTag = db.ruleTag
  BY <1>6 DEF RelReplaced
<1>8. RowsStay(db, t)
  BY <1>7 DEF RowsStay, SameRow
<1>9. /\ Kin(c, next) /\ next.at = "insert" /\ next.id = c.id /\ next.up = c.up
      /\ next.todo = c.todo \ {m}
  <2>1. Shaped(next)
    BY <1>2, Edits
  <2> QED BY <1>1, <1>2, <2>1 DEF Kin, Shaped
<1> HIDE DEF next
<1>10. Follows(c, next)
  <2>1. Fits(next)
    BY <1>1, <1>2, <1>9 DEF Fits, Kin
  <2> QED BY <1>2, <1>9, <2>1, KinFollows DEF Formed
<1>11. ~AtTags(next)
  BY <1>2, <1>9 DEF AtUpstream
<1>12. RulesHold(c, db) => RulesHold(next, t)
  BY <1>7, <1>9, RulesAside
<1>13. GraphHolds(c, db, calls) => GraphHolds(next, t, calls)
  <2>1. /\ Replacing(c) /\ next.group = c.group /\ next.tag = c.tag /\ t.rel = db.rel \cup {row}
    BY <1>1, <1>7, <1>9 DEF Replacing, Kin
  <2> QED BY <1>1, <1>2, <1>7, <1>9, <2>1, RelationInserted
<1> HIDE DEF rels
<1>14. Holds(c, db, failures, history, calls) => Holds(next, t, failures, history, calls)
  BY <1>2, <1>7, <1>11, <1>12, <1>13, HoldsInGraph
<1>15. ~UniquePairs(t) /\ Holds(c, db, failures, history, calls)
         => Holds(Idle, db, failures, history, calls)
  <2>1. GraphHolds(c, db, calls) => RowsApart(t, calls)
    BY <1>13 DEF GraphHolds
  <2> QED BY <1>2, <2>1, PairRefused
<1> QED BY <1>2, <1>4, <1>7, <1>8, <1>9, <1>10, <1>14, <1>15, WriteHolds

LEMMA UpstreamEndHolds ==
  ASSUME TablesInv, NEW a \in Admins, EndInsertion(a)
  PROVE  TablesInv'
<1> DEFINE c == call[a]
<1>1. Check(a, TRUE, Written(a)) /\ c.at = "insert" /\ c.todo = {} /\ AtUpstream(c)
  BY DEF EndInsertion, AtUpstream
<1>2. /\ db \in Tables /\ calls \in Nat /\ c.at # "idle"
      /\ ~GivesTags(c) /\ ~TakesTag(c) /\ c.tag \in Stamps \ {0}
  BY <1>1, UpstreamWrites
<1>3. RulesHold(c, db) => RulesHold(Written(a), db)
  BY RulesAside, WrittenFollows
<1>4. GraphHolds(c, db, calls) => GraphHolds(Written(a), db, calls)
  BY <1>1, <1>2, WrittenFollows, InsertionEnded
<1>5. Holds(c, db, failures, history, calls)
        => Holds(Written(a), db, failures, history, calls)
  BY <1>2, <1>3, <1>4, WrittenFollows, HoldsInGraph
<1> QED BY <1>1, <1>2, <1>5, WrittenFollows, CheckHolds

LEMMA UpstreamReviveHolds ==
  ASSUME TablesInv, NEW a \in Admins, ReviveRelations(a)
  PROVE  TablesInv'
<1> DEFINE c == call[a]
           B == {x \in db.rel : x.up = c.up /\ x.deleted = c.stamp}
           rels == (db.rel \ B) \cup {Stamped(x, 0) : x \in B}
           t == [db EXCEPT !.rel = rels]
<1>1. /\ c.at = "revive" /\ AtUpstream(c) /\ served' = served /\ calls' = calls
      /\ failures' = failures
  BY DEF ReviveRelations, AtUpstream
<1>2. \/ AnswerError(a) /\ db' = db /\ ~UniquePairs(t)
      \/ /\ db' = t /\ Goes(a, Written(a))
         /\ history' = [history EXCEPT !.writer = c.tag, !.told = FALSE,
                          !.culprit = @ \/ \E x \in B : ~ActiveNode(db, x.node)]
  BY DEF ReviveRelations, Batch, Stamped, Goes
<1>3. /\ db \in Tables /\ calls \in Nat /\ c.at # "idle" /\ ~GivesTags(c) /\ ~TakesTag(c)
      /\ db.rel \subseteq RelRow
  BY <1>1, UpstreamWrites
<1>4. RelReplaced(db, t, rels)
  <2>1. \A x \in B : Stamped(x, 0) \in RelRow
    BY <1>3, StampedRow, RouteTablesAssumption DEF Stamps
  <2>2. rels \subseteq RelRow
    BY <1>3, <2>1
  <2> HIDE DEF rels
  <2> QED BY <1>3, <2>2, RelRows
<1> HIDE DEF t
<1>5. /\ t \in Tables /\ t.rel = rels /\ t.rule = db.rule /\ t.up = db.up /\ t.node = db.node
      /\ t.tag = db.tag /\ t.ruleTag = db.ruleTag
  BY <1>4 DEF RelReplaced
<1>6. RowsStay(db, t)
  <2>1. ASSUME NEW z \in db.rel
        PROVE  \E y \in t.rel : SameRow(z, y)
    <3>1. CASE z \in B
      <4>1. Stamped(z, 0) \in t.rel
        BY <1>5, <3>1
      <4>2. SameRow(z, Stamped(z, 0))
        BY <1>3, StampedRow, RouteTablesAssumption DEF Stamps, SameRow
      <4> QED BY <4>1, <4>2
    <3>2. CASE z \notin B
      BY <1>5, <3>2 DEF SameRow
    <3> QED BY <3>1, <3>2
  <2> QED BY <2>1 DEF RowsStay
<1>7. RulesHold(c, db) => RulesHold(Written(a), t)
  BY <1>5, WrittenFollows, RulesAside
<1>8. (\A x \in B : ActiveNode(db, x.node)) /\ GraphHolds(c, db, calls)
        => GraphHolds(Written(a), t, calls)
  <2>1. t.rel = (db.rel \ B) \cup {Stamped(x, 0) : x \in B}
    BY <1>5
  <2>2. B = {x \in db.rel : x.up = c.up /\ x.deleted = c.stamp}
    OBVIOUS
  <2> HIDE DEF B
  <2> QED BY <1>1, <1>3, <1>5, <2>1, <2>2, WrittenFollows, RelationsRevived
<1>9. CASE AnswerError(a) /\ db' = db /\ ~UniquePairs(t)
  <2>1. GraphHolds(c, db, calls) => RowsApart(t, calls)
    <3>1. t.rel = (db.rel \ B) \cup {Stamped(x, 0) : x \in B}
      BY <1>5
    <3>2. B = {x \in db.rel : x.up = c.up /\ x.deleted = c.stamp}
      OBVIOUS
    <3> HIDE DEF B
    <3> QED BY <1>1, <1>3, <3>1, <3>2, RevivedApart
  <2> QED BY <1>1, <1>3, <1>9, <2>1, NothingChanges, PairRefused, RefusedHolds
<1>10. CASE /\ db' = t /\ Goes(a, Written(a))
            /\ history' = [history EXCEPT !.writer = c.tag, !.told = FALSE,
                             !.culprit = @ \/ \E x \in B : ~ActiveNode(db, x.node)]
  <2>1. HistoryOK(history)
    BY NothingChanges
  <2>2. /\ HistoryOK(history') /\ history'.raced = history.raced
        /\ history'.tagged = history.tagged
        /\ history'.culprit = (history.culprit \/ \E x \in B : ~ActiveNode(db, x.node))
    BY <1>10, <2>1 DEF HistoryOK, Noted
  <2>3. Holds(c, db, failures, history, calls)
          => Holds(Written(a), db', failures', history', calls)
    BY <1>1, <1>3, <1>5, <1>7, <1>8, <1>10, <2>2, WrittenFollows, HoldsInGraph
  <2>4. Listed(Written(a), db')
    BY WrittenFollows DEF Listed
  <2> QED BY <1>1, <1>3, <1>5, <1>6, <1>10, <2>2, <2>3, <2>4, WrittenFollows, NothingChanges,
             GoingOn
<1> QED BY <1>2, <1>9, <1>10

LEMMA UpstreamCallHolds ==
  ASSUME TablesInv, NEW a \in Admins, UpstreamCall(a)
  PROVE  TablesInv'
BY UpstreamBeginHolds, UpstreamChecksHold, UpstreamWriteHolds, UpstreamDropHolds,
   UpstreamRestoreHolds, UpstreamRemoveHolds, UpstreamInsertHolds, UpstreamEndHolds,
   UpstreamReviveHolds DEF UpstreamCall

-----------------------------------------------------------------------------
(***************************************************************************)
(* The rebuild.                                                            *)
(***************************************************************************)
\* A table is loaded.
LEMMA LoadHolds ==
  ASSUME TablesInv, NEW a \in Admins, NEW next, Check(a, TRUE, next), Kin(call[a], next),
         call[a].at \in {"rebuild", "loadUps", "loadNodes", "loadRels"},
         next.at \in {"loadUps", "loadNodes", "loadRels", "store"}, next.id = call[a].id,
         next.at = "store" => next.input.rels \subseteq RelRow
  PROVE  TablesInv'
<1> DEFINE c == call[a]
<1>1. Formed(c) /\ Fits(c) /\ db \in Tables /\ calls \in Nat
  BY NothingChanges DEF CallOK
<1>2. next.op = c.op /\ c.op \notin {"dropTag", "rename"}
  BY <1>1 DEF Kin, Fits
<1>3. Follows(c, next)
  <2>1. Fits(next)
    BY <1>2 DEF Fits
  <2> QED BY <1>1, <2>1, KinFollows DEF Formed
<1>4. /\ ~Replacing(c) /\ ~GivesTags(c) /\ ~TakesTag(c) /\ ~AtGraph(next) /\ ~AtTags(next)
  BY <1>2 DEF Replacing, GivesTags, TakesTag, AtGraph, AtTags
<1>5. Holds(c, db, failures, history, calls) => Holds(next, db, failures, history, calls)
  BY <1>1, <1>4, HoldsElsewhere
<1> QED BY <1>3, <1>5, CheckHolds

LEMMA RebuildHolds ==
  ASSUME TablesInv, NEW a \in Admins, Rebuild(a)
  PROVE  TablesInv'
<1> DEFINE c == call[a]
<1>1. Shaped(c) /\ Fits(c) /\ db \in Tables /\ calls \in Nat /\ db.rel \subseteq RelRow
  BY NothingChanges, TableTypes
<1>2. CASE LoadRules(a)
  <2> DEFINE next == [c EXCEPT !.at = "loadUps", !.input.rules = RuleRows(db)]
  <2>1. Check(a, TRUE, next) /\ c.at = "rebuild"
    BY <1>2 DEF LoadRules
  <2>2. Shaped(next)
    BY <1>1, Loads
  <2>3. Kin(c, next) /\ next.at = "loadUps" /\ next.id = c.id
    BY <1>1, <2>2 DEF Kin, Shaped
  <2> HIDE DEF next
  <2> QED BY <2>1, <2>3, LoadHolds
<1>3. CASE LoadUpstreams(a)
  <2> DEFINE next == [c EXCEPT !.at = "loadNodes", !.input.ups = UpRows(db)]
  <2>1. Check(a, TRUE, next) /\ c.at = "loadUps"
    BY <1>3 DEF LoadUpstreams
  <2>2. Shaped(next)
    BY <1>1, Loads
  <2>3. Kin(c, next) /\ next.at = "loadNodes" /\ next.id = c.id
    BY <1>1, <2>2 DEF Kin, Shaped
  <2> HIDE DEF next
  <2> QED BY <2>1, <2>3, LoadHolds
<1>4. CASE LoadNodes(a)
  <2> DEFINE next == [c EXCEPT !.at = "loadRels", !.input.nodes = NodeRows(db)]
  <2>1. Check(a, TRUE, next) /\ c.at = "loadNodes"
    BY <1>4 DEF LoadNodes
  <2>2. Shaped(next)
    BY <1>1, Loads
  <2>3. Kin(c, next) /\ next.at = "loadRels" /\ next.id = c.id
    BY <1>1, <2>2 DEF Kin, Shaped
  <2> HIDE DEF next
  <2> QED BY <2>1, <2>3, LoadHolds
<1>5. CASE LoadRelations(a)
  <2> DEFINE next == [c EXCEPT !.at = "store", !.input.rels = Relations(db)]
  <2>1. Check(a, TRUE, next) /\ c.at = "loadRels"
    BY <1>5 DEF LoadRelations
  <2>2. Shaped(next)
    BY <1>1, Loads
  <2>3. Kin(c, next) /\ next.at = "store" /\ next.id = c.id /\ next.input.rels = Relations(db)
    BY <1>1, <2>2 DEF Kin, Shaped
  <2> HIDE DEF next
  <2>4. Relations(db) \subseteq RelRow
    BY <1>1 DEF Relations
  <2> QED BY <2>1, <2>3, <2>4, LoadHolds
<1>6. CASE StoreSnapshot(a)
  <2>1. c.at = "store" /\ db' = db /\ calls' = calls /\ failures' = failures
    BY <1>6 DEF StoreSnapshot
  <2>2. ~Replacing(c) /\ ~GivesTags(c) /\ ~TakesTag(c)
    BY <2>1 DEF Replacing, GivesTags, TakesTag
  <2>3. Holds(c, db, failures, history, calls) => Holds(Idle, db, failures, history, calls)
    BY <1>1, <2>2, Resting DEF AtRest
  <2>4. CASE ValidateGraph(c.input)
    <3>1. served' = c.input /\ Goes(a, Idle) /\ history' = history
      BY <1>6, <2>4 DEF StoreSnapshot, Goes
    <3>2. c.input.rels \subseteq RelRow
      BY <1>1, <2>1 DEF Fits
    <3>3. Follows(c, Idle)
      BY DEF Follows
    <3> QED BY <2>1, <2>3, <3>1, <3>2, <3>3, NothingChanges, GoingOn
  <2>5. CASE ~ValidateGraph(c.input)
    <3>1. AnswerError(a) /\ served' = served
      BY <1>6, <2>5 DEF StoreSnapshot
    <3> QED BY <2>1, <2>3, <3>1, NothingChanges, RefusedHolds
  <2> QED BY <2>4, <2>5
<1> QED BY <1>2, <1>3, <1>4, <1>5, <1>6 DEF Rebuild

-----------------------------------------------------------------------------
(***************************************************************************)
(* Tags and their relations with rules.                                    *)
(***************************************************************************)
SameButTags(s, t) ==
  t \in Tables /\ t.rule = s.rule /\ t.up = s.up /\ t.node = s.node /\ t.rel = s.rel

\* t is s with another row for the tag, or for the relation.
TagChanged(s, t, i, row) ==
  /\ SameButTags(s, t) /\ t.ruleTag = s.ruleTag /\ DOMAIN t.tag = DOMAIN s.tag
  /\ \A j \in DOMAIN s.tag : t.tag[j] = IF j = i THEN row ELSE s.tag[j]
TieChanged(s, t, i, row) ==
  /\ SameButTags(s, t) /\ t.tag = s.tag /\ DOMAIN t.ruleTag = DOMAIN s.ruleTag
  /\ \A k \in DOMAIN s.ruleTag : t.ruleTag[k] = IF k = i THEN row ELSE s.ruleTag[k]

\* t is s with one more.
TagAdded(s, t, i, row) ==
  /\ SameButTags(s, t) /\ t.ruleTag = s.ruleTag /\ i \notin DOMAIN s.tag
  /\ DOMAIN t.tag = DOMAIN s.tag \cup {i} /\ t.tag[i] = row
  /\ \A j \in DOMAIN s.tag : t.tag[j] = s.tag[j]
TieAdded(s, t, i, row) ==
  /\ SameButTags(s, t) /\ t.tag = s.tag /\ i \notin DOMAIN s.ruleTag
  /\ DOMAIN t.ruleTag = DOMAIN s.ruleTag \cup {i} /\ t.ruleTag[i] = row
  /\ \A k \in DOMAIN s.ruleTag : t.ruleTag[k] = s.ruleTag[k]

LEMMA RowSet ==
  ASSUME NEW S, NEW q \in Seq(S), NEW i, NEW v, i \in DOMAIN q => v \in S
  PROVE  /\ [q EXCEPT ![i] = v] \in Seq(S) /\ DOMAIN [q EXCEPT ![i] = v] = DOMAIN q
         /\ \A j \in DOMAIN q : [q EXCEPT ![i] = v][j] = IF j = i THEN v ELSE q[j]
<1> DEFINE p == [q EXCEPT ![i] = v]
<1>1. DOMAIN q = 1 .. Len(q) /\ Len(q) \in Nat /\ \A j \in DOMAIN q : q[j] \in S
  OBVIOUS
<1>2. p = [j \in DOMAIN q |-> IF j = i THEN v ELSE q[j]]
  OBVIOUS
<1>3. p \in [1 .. Len(q) -> S]
  BY <1>1, <1>2
<1>4. p \in Seq(S)
  BY <1>1, <1>3, SeqDef
<1> QED BY <1>2, <1>4

LEMMA RowAppended ==
  ASSUME NEW S, NEW q \in Seq(S), NEW v \in S
  PROVE  /\ Append(q, v) \in Seq(S) /\ Len(q) + 1 \notin DOMAIN q
         /\ Len(Append(q, v)) = Len(q) + 1
         /\ DOMAIN Append(q, v) = DOMAIN q \cup {Len(q) + 1}
         /\ Append(q, v)[Len(q) + 1] = v
         /\ \A j \in DOMAIN q : Append(q, v)[j] = q[j]
<1>1. DOMAIN q = 1 .. Len(q) /\ Len(q) \in Nat
  OBVIOUS
<1>2. /\ Append(q, v) \in Seq(S) /\ Len(Append(q, v)) = Len(q) + 1
      /\ Append(q, v)[Len(q) + 1] = v /\ \A j \in 1 .. Len(q) : Append(q, v)[j] = q[j]
  BY AppendProperties
<1>3. DOMAIN Append(q, v) = 1 .. Len(q) + 1
  BY <1>2
<1> QED BY <1>1, <1>2, <1>3

LEMMA TagRow1 ==
  ASSUME NEW s \in Tables, NEW i, NEW row, i \in DOMAIN s.tag => row \in TagRow
  PROVE  TagChanged(s, [s EXCEPT !.tag[i] = row], i, row)
<1> DEFINE rows == [s.tag EXCEPT ![i] = row]
           t == [s EXCEPT !.tag = rows]
<1>1. Whole(s) /\ s.tag \in Seq(TagRow)
  BY TableTypes
<1>2. /\ rows \in Seq(TagRow) /\ DOMAIN rows = DOMAIN s.tag
      /\ \A j \in DOMAIN s.tag : rows[j] = IF j = i THEN row ELSE s.tag[j]
  BY <1>1, RowSet
<1> HIDE DEF rows
<1>3. t \in Tables
  BY <1>2, Replaced
<1>4. /\ t.tag = rows /\ t.rule = s.rule /\ t.up = s.up /\ t.node = s.node /\ t.rel = s.rel
      /\ t.ruleTag = s.ruleTag
  BY <1>1 DEF Whole
<1> HIDE DEF t
<1>5. TagChanged(s, t, i, row)
  BY <1>2, <1>3, <1>4 DEF TagChanged, SameButTags
<1> QED BY <1>5 DEF t, rows

LEMMA TieRow1 ==
  ASSUME NEW s \in Tables, NEW i, NEW row, i \in DOMAIN s.ruleTag => row \in TieRow
  PROVE  TieChanged(s, [s EXCEPT !.ruleTag[i] = row], i, row)
<1> DEFINE rows == [s.ruleTag EXCEPT ![i] = row]
           t == [s EXCEPT !.ruleTag = rows]
<1>1. Whole(s) /\ s.ruleTag \in Seq(TieRow)
  BY TableTypes
<1>2. /\ rows \in Seq(TieRow) /\ DOMAIN rows = DOMAIN s.ruleTag
      /\ \A j \in DOMAIN s.ruleTag : rows[j] = IF j = i THEN row ELSE s.ruleTag[j]
  BY <1>1, RowSet
<1> HIDE DEF rows
<1>3. t \in Tables
  BY <1>2, Replaced
<1>4. /\ t.ruleTag = rows /\ t.rule = s.rule /\ t.up = s.up /\ t.node = s.node
      /\ t.rel = s.rel /\ t.tag = s.tag
  BY <1>1 DEF Whole
<1> HIDE DEF t
<1>5. TieChanged(s, t, i, row)
  BY <1>2, <1>3, <1>4 DEF TieChanged, SameButTags
<1> QED BY <1>5 DEF t, rows

LEMMA TagAppended ==
  ASSUME NEW s \in Tables, NEW row \in TagRow
  PROVE  /\ TagAdded(s, [s EXCEPT !.tag = Append(@, row)], Len(s.tag) + 1, row)
         /\ Len([s EXCEPT !.tag = Append(@, row)].tag) = Len(s.tag) + 1
         /\ Len(s.tag) \in Nat
<1> DEFINE rows == Append(s.tag, row)
           t == [s EXCEPT !.tag = rows]
           i == Len(s.tag) + 1
<1>1. Whole(s) /\ s.tag \in Seq(TagRow) /\ Len(s.tag) \in Nat
  BY TableTypes
<1>2. /\ rows \in Seq(TagRow) /\ i \notin DOMAIN s.tag /\ Len(rows) = i
      /\ DOMAIN rows = DOMAIN s.tag \cup {i} /\ rows[i] = row
      /\ \A j \in DOMAIN s.tag : rows[j] = s.tag[j]
  BY <1>1, RowAppended
<1> HIDE DEF rows, i
<1>3. t \in Tables
  BY <1>2, Replaced
<1>4. /\ t.tag = rows /\ t.rule = s.rule /\ t.up = s.up /\ t.node = s.node /\ t.rel = s.rel
      /\ t.ruleTag = s.ruleTag
  BY <1>1 DEF Whole
<1> HIDE DEF t
<1>5. TagAdded(s, t, i, row) /\ Len(t.tag) = i
  BY <1>2, <1>3, <1>4 DEF TagAdded, SameButTags
<1> QED BY <1>1, <1>5 DEF t, rows, i

LEMMA TieAppended ==
  ASSUME NEW s \in Tables, NEW row \in TieRow
  PROVE  TieAdded(s, [s EXCEPT !.ruleTag = Append(@, row)], Len(s.ruleTag) + 1, row)
<1> DEFINE rows == Append(s.ruleTag, row)
           t == [s EXCEPT !.ruleTag = rows]
           i == Len(s.ruleTag) + 1
<1>1. Whole(s) /\ s.ruleTag \in Seq(TieRow)
  BY TableTypes
<1>2. /\ rows \in Seq(TieRow) /\ i \notin DOMAIN s.ruleTag
      /\ DOMAIN rows = DOMAIN s.ruleTag \cup {i} /\ rows[i] = row
      /\ \A j \in DOMAIN s.ruleTag : rows[j] = s.ruleTag[j]
  BY <1>1, RowAppended
<1> HIDE DEF rows, i
<1>3. t \in Tables
  BY <1>2, Replaced
<1>4. /\ t.ruleTag = rows /\ t.rule = s.rule /\ t.up = s.up /\ t.node = s.node
      /\ t.rel = s.rel /\ t.tag = s.tag
  BY <1>1 DEF Whole
<1> HIDE DEF t
<1>5. TieAdded(s, t, i, row)
  BY <1>2, <1>3, <1>4 DEF TieAdded, SameButTags
<1> QED BY <1>5 DEF t, rows, i

\* The unique indexes let pass what the invariant says of the rows.
LEMMA ApartUnique ==
  ASSUME NEW t, NEW n, TagRowsApart(t, n)
  PROVE  UniqueTags(t) /\ UniqueTagged(t)
<1>1. UniqueTags(t)
  <2>1. \A i, j \in DOMAIN t.tag :
          i # j /\ t.tag[i].name = t.tag[j].name => t.tag[i].deleted # t.tag[j].deleted
    BY DEF TagRowsApart, LiveTag
  <2> QED BY <2>1 DEF UniqueTags, Unique
<1>2. UniqueTagged(t)
  <2>1. \A i, j \in DOMAIN t.ruleTag :
          i # j /\ t.ruleTag[i].rule = t.ruleTag[j].rule /\ t.ruleTag[i].tag = t.ruleTag[j].tag
            => t.ruleTag[i].deleted # t.ruleTag[j].deleted
    BY DEF TagRowsApart
  <2>2. \A u, v, x, y : <<u, v>> = <<x, y>> => u = x /\ v = y
    OBVIOUS
  <2> QED BY <2>1, <2>2 DEF UniqueTagged, Unique
<1> QED BY <1>1, <1>2

-----------------------------------------------------------------------------
LEMMA TagRenamed ==
  ASSUME NEW c, NEW s, NEW t, NEW n \in Nat, NEW tagged, NEW row, TagsHold(c, s, n, tagged),
         c.at = "rename", c.op = "rename", TagChanged(s, t, c.id, row),
         row.name = c.label, row.deleted = s.tag[c.id].deleted
  PROVE  TagsHold(Idle, t, n, [r \in Rules |->
           IF LiveTag(s, c.id) /\ s.tag[c.id].name \in tagged[r]
           THEN (tagged[r] \ {s.tag[c.id].name}) \cup {c.label} ELSE tagged[r]])
<1> DEFINE old == s.tag[c.id].name
           told == [r \in Rules |->
             IF LiveTag(s, c.id) /\ old \in tagged[r]
             THEN (tagged[r] \ {old}) \cup {c.label} ELSE tagged[r]]
<1>1. /\ c.id \in DOMAIN s.tag /\ DOMAIN t.tag = DOMAIN s.tag /\ t.ruleTag = s.ruleTag
      /\ \A i \in DOMAIN s.tag : /\ t.tag[i].deleted = s.tag[i].deleted
                                 /\ i # c.id => t.tag[i].name = s.tag[i].name
      /\ t.tag[c.id].name = c.label
  BY DEF TagsHold, TaggingOK, TagChanged
<1>2. /\ \A i : LiveTag(t, i) <=> LiveTag(s, i)
      /\ \A k, r, i : LiveTie(t, k, r, i) <=> LiveTie(s, k, r, i)
  BY <1>1 DEF LiveTag, LiveTie
<1>3. \A i : LiveTag(s, i) /\ i # c.id => s.tag[i].name # c.label
  BY DEF TagsHold, TaggingOK, LiveTag
<1>4. TagRowsApart(t, n)
  <2>1. \A i, j \in DOMAIN t.tag :
          LiveTag(t, i) /\ LiveTag(t, j) /\ t.tag[i].name = t.tag[j].name => i = j
    BY <1>1, <1>2, <1>3 DEF TagsHold, TagRowsApart
  <2> QED BY <1>1, <2>1 DEF TagsHold, TagRowsApart
<1>5. \A r \in Rules : \A name : Shows(s, r, name) <=> name \in tagged[r]
  BY DEF TagsHold, NamesHold, GivesTags, TakesTag
<1>6. \A i : LiveTag(s, i) /\ LiveTag(s, c.id) /\ s.tag[i].name = old => i = c.id
  BY DEF TagsHold, TagRowsApart, LiveTag
<1>7. ASSUME NEW r \in Rules, NEW name
      PROVE  Shows(t, r, name) <=> name \in told[r]
  <2> DEFINE Bears(i, x) == LiveTag(s, i) /\ (\E k \in DOMAIN s.ruleTag : LiveTie(s, k, r, i))
                            /\ s.tag[i].name = x
  <2>1. \A x : Shows(s, r, x) <=> \E i : Bears(i, x)
    BY DEF Shows, LiveTag
  <2>2. Shows(t, r, name) <=> \/ \E i : i # c.id /\ Bears(i, name)
                              \/ name = c.label /\ Bears(c.id, old)
    BY <1>1, <1>2 DEF Shows, LiveTag
  <2>3. Bears(c.id, old) <=> LiveTag(s, c.id) /\ old \in tagged[r]
    BY <1>5, <1>6, <2>1
  <2>4. (\E i : i # c.id /\ Bears(i, name))
          <=> name \in tagged[r] /\ ~(Bears(c.id, old) /\ name = old)
    BY <1>5, <1>6, <2>1
  <2>5. name \in told[r] <=> IF LiveTag(s, c.id) /\ old \in tagged[r]
                             THEN (name \in tagged[r] /\ name # old) \/ name = c.label
                             ELSE name \in tagged[r]
    OBVIOUS
  <2> HIDE DEF Bears, told, old
  <2> QED BY <2>2, <2>3, <2>4, <2>5
<1> HIDE DEF told
<1>8. NamesHold(Idle, t, told)
  BY <1>7 DEF NamesHold
<1>9. TaggingOK(Idle, t, told)
  BY IdleAside, IdleShape DEF AtTags, TaggingOK, GivesTags
<1>10. TagsHold(Idle, t, n, told)
  BY <1>4, <1>8, <1>9 DEF TagsHold
<1> QED BY <1>10 DEF told

LEMMA TagDropped ==
  ASSUME NEW c, NEW s, NEW t, NEW n \in Nat, NEW tagged, NEW row, TagsHold(c, s, n, tagged),
         c.at = "dropTag", c.op = "dropTag", TagChanged(s, t, c.id, row),
         row.name = s.tag[c.id].name, row.deleted = c.tag, c.tag # 0, c.tag <= n
  PROVE  TagsHold(Idle, t, n, [r \in Rules |->
           IF LiveTag(s, c.id) THEN tagged[r] \ {s.tag[c.id].name} ELSE tagged[r]])
<1> DEFINE old == s.tag[c.id].name
           told == [r \in Rules |-> IF LiveTag(s, c.id) THEN tagged[r] \ {old} ELSE tagged[r]]
<1>1. /\ c.id \in DOMAIN s.tag /\ DOMAIN t.tag = DOMAIN s.tag /\ t.ruleTag = s.ruleTag
      /\ \A i \in DOMAIN s.tag : /\ t.tag[i].name = s.tag[i].name
                                 /\ i # c.id => t.tag[i].deleted = s.tag[i].deleted
      /\ t.tag[c.id].deleted = c.tag
      /\ \A i \in DOMAIN s.tag : s.tag[i].deleted # c.tag
      /\ \A k \in DOMAIN s.ruleTag : s.ruleTag[k].deleted = 0 => s.ruleTag[k].tag # c.id
  BY DEF TagsHold, TaggingOK, TagChanged
<1>2. /\ \A i : LiveTag(t, i) <=> LiveTag(s, i) /\ i # c.id
      /\ \A k, r, i : LiveTie(t, k, r, i) <=> LiveTie(s, k, r, i)
      /\ \A k, r : ~LiveTie(s, k, r, c.id)
  BY <1>1 DEF LiveTag, LiveTie
<1>3. TagRowsApart(t, n)
  <2>1. \A i, j \in DOMAIN t.tag :
          LiveTag(t, i) /\ LiveTag(t, j) /\ t.tag[i].name = t.tag[j].name => i = j
    BY <1>1, <1>2 DEF TagsHold, TagRowsApart
  <2>2. \A i, j \in DOMAIN t.tag : t.tag[i].deleted = t.tag[j].deleted /\ t.tag[i].deleted # 0
                                     => i = j
    BY <1>1 DEF TagsHold, TagRowsApart
  <2>3. \A i \in DOMAIN t.tag : t.tag[i].deleted <= n
    BY <1>1 DEF TagsHold, TagRowsApart
  <2> QED BY <1>1, <2>1, <2>2, <2>3 DEF TagsHold, TagRowsApart
<1>4. \A r \in Rules : \A name :
        ~(LiveTag(s, c.id) /\ name = old) => (Shows(s, r, name) <=> name \in tagged[r])
  BY DEF TagsHold, NamesHold, GivesTags
<1>5. \A i : LiveTag(s, i) /\ LiveTag(s, c.id) /\ s.tag[i].name = old => i = c.id
  BY DEF TagsHold, TagRowsApart, LiveTag
<1>6. \A r, name : Shows(t, r, name) <=> Shows(s, r, name)
  BY <1>1, <1>2 DEF Shows
<1>7. ASSUME NEW r \in Rules, NEW name
      PROVE  Shows(t, r, name) <=> name \in told[r]
  <2>1. LiveTag(s, c.id) => ~Shows(s, r, old)
    BY <1>2, <1>5 DEF Shows
  <2> QED BY <1>4, <1>6, <2>1
<1> HIDE DEF told
<1>8. NamesHold(Idle, t, told)
  BY <1>7 DEF NamesHold
<1>9. TaggingOK(Idle, t, told)
  BY IdleAside, IdleShape DEF AtTags, TaggingOK, GivesTags
<1>10. TagsHold(Idle, t, n, told)
  BY <1>3, <1>8, <1>9 DEF TagsHold
<1> QED BY <1>10 DEF told

\* The relations are listed, for the rule that is saved or the tag that is deleted.
LEMMA TiesListed ==
  ASSUME NEW c, NEW d, NEW t, NEW n \in Nat, NEW tagged, TagsHold(c, t, n, tagged),
         \/ c.at = "ruleTags" /\ c.op = "save"
         \/ c.at = "tagRules" /\ c.op = "dropTag",
         d.at = "untag", d.op = c.op, d.rule = c.rule, d.id = c.id, d.labels = c.labels,
         d.tag = c.tag,
         d.todo = {k \in DOMAIN t.ruleTag :
                     /\ t.ruleTag[k].deleted = 0
                     /\ IF c.op = "save" THEN t.ruleTag[k].rule = c.rule
                                         ELSE t.ruleTag[k].tag = c.id}
  PROVE  TagsHold(d, t, n, tagged)
<1>1. GivesTags(d) = GivesTags(c) /\ ~TakesTag(c)
  BY DEF GivesTags, TakesTag
<1>2. NamesHold(d, t, tagged)
  BY <1>1 DEF TagsHold, NamesHold
<1>3. TaggingOK(d, t, tagged)
  BY <1>1 DEF TagsHold, TaggingOK
<1> QED BY <1>2, <1>3 DEF TagsHold

\* One of them is deleted.
LEMMA TieDropped ==
  ASSUME NEW c, NEW d, NEW s, NEW t, NEW n \in Nat, NEW tagged, NEW i, NEW row,
         TagsHold(c, s, n, tagged), c.at = "untag", c.op \in {"save", "dropTag"}, i \in c.todo,
         TieChanged(s, t, i, row), row.rule = s.ruleTag[i].rule, row.tag = s.ruleTag[i].tag,
         row.deleted = c.tag, c.tag # 0, c.tag <= n,
         d.at = "untag", d.op = c.op, d.rule = c.rule, d.id = c.id, d.labels = c.labels,
         d.tag = c.tag, d.todo = c.todo \ {i}
  PROVE  TagsHold(d, t, n, tagged)
<1>1. /\ DOMAIN t.ruleTag = DOMAIN s.ruleTag /\ t.tag = s.tag
      /\ \A k \in DOMAIN s.ruleTag : /\ t.ruleTag[k].rule = s.ruleTag[k].rule
                                     /\ t.ruleTag[k].tag = s.ruleTag[k].tag
                                     /\ k # i => t.ruleTag[k].deleted = s.ruleTag[k].deleted
                                     /\ k = i => t.ruleTag[k].deleted = c.tag
  BY DEF TieChanged
<1>2. c.todo = {k \in DOMAIN s.ruleTag :
                  /\ s.ruleTag[k].deleted = 0
                  /\ IF c.op = "save" THEN s.ruleTag[k].rule = c.rule
                                      ELSE s.ruleTag[k].tag = c.id}
  BY DEF TagsHold, TaggingOK
<1>3. \A k \in DOMAIN s.ruleTag : s.ruleTag[k].deleted = c.tag =>
        \A j \in c.todo : \/ s.ruleTag[j].rule # s.ruleTag[k].rule
                          \/ s.ruleTag[j].tag # s.ruleTag[k].tag
  BY DEF TagsHold, TaggingOK
<1>4. \A j, k \in DOMAIN s.ruleTag :
        s.ruleTag[j].rule = s.ruleTag[k].rule /\ s.ruleTag[j].tag = s.ruleTag[k].tag
        /\ s.ruleTag[j].deleted = s.ruleTag[k].deleted => j = k
  BY DEF TagsHold, TagRowsApart
<1>5. TagRowsApart(t, n)
  <2>1. \A j, k \in DOMAIN t.ruleTag :
          t.ruleTag[j].rule = t.ruleTag[k].rule /\ t.ruleTag[j].tag = t.ruleTag[k].tag
          /\ t.ruleTag[j].deleted = t.ruleTag[k].deleted => j = k
    BY <1>1, <1>3, <1>4
  <2>2. \A k \in DOMAIN t.ruleTag : t.ruleTag[k].deleted <= n /\ t.ruleTag[k].tag \in DOMAIN t.tag
    BY <1>1 DEF TagsHold, TagRowsApart
  <2>3. \A j : LiveTag(t, j) <=> LiveTag(s, j)
    BY <1>1 DEF LiveTag
  <2> QED BY <1>1, <2>1, <2>2, <2>3 DEF TagsHold, TagRowsApart
<1>6. /\ GivesTags(c) <=> c.op = "save"
      /\ TakesTag(c) <=> c.op = "dropTag"
      /\ GivesTags(d) <=> c.op = "save"
      /\ TakesTag(d) <=> c.op = "dropTag"
  BY DEF GivesTags, TakesTag
<1>7. NamesHold(d, t, tagged)
  <2> SUFFICES ASSUME NEW r \in Rules, NEW name,
                      ~(c.op = "save" /\ r = c.rule),
                      ~(c.op = "dropTag" /\ LiveTag(t, c.id) /\ t.tag[c.id].name = name)
               PROVE  Shows(t, r, name) <=> name \in tagged[r]
    BY <1>6 DEF NamesHold
  <2>1. \A j : LiveTag(t, j) <=> LiveTag(s, j)
    BY <1>1 DEF LiveTag
  <2>2. Shows(s, r, name) <=> name \in tagged[r]
    BY <1>1, <1>6, <2>1 DEF TagsHold, NamesHold
  <2>3. i \in DOMAIN s.ruleTag
        /\ IF c.op = "save" THEN s.ruleTag[i].rule = c.rule ELSE s.ruleTag[i].tag = c.id
    BY <1>2
  <2>4. \A k, j : k # i => (LiveTie(t, k, r, j) <=> LiveTie(s, k, r, j))
    BY <1>1 DEF LiveTie
  <2>5. \A j : ~LiveTie(t, i, r, j)
    BY <1>1, <2>3 DEF LiveTie
  <2>6. \A j : LiveTag(s, j) /\ LiveTie(s, i, r, j) => s.tag[j].name # name
    BY <1>1, <2>1, <2>3 DEF LiveTie
  <2> QED BY <1>1, <2>1, <2>2, <2>4, <2>5, <2>6 DEF Shows
<1>8. TaggingOK(d, t, tagged)
  <2>1. d.todo = {k \in DOMAIN t.ruleTag :
                    /\ t.ruleTag[k].deleted = 0
                    /\ IF d.op = "save" THEN t.ruleTag[k].rule = d.rule
                                        ELSE t.ruleTag[k].tag = d.id}
    BY <1>1, <1>2
  <2>2. \A k \in DOMAIN t.ruleTag : t.ruleTag[k].deleted = d.tag =>
          \A j \in d.todo : \/ t.ruleTag[j].rule # t.ruleTag[k].rule
                            \/ t.ruleTag[j].tag # t.ruleTag[k].tag
    BY <1>1, <1>2, <1>3, <1>4
  <2>3. GivesTags(d) => tagged[d.rule] = d.labels
    BY <1>6 DEF TagsHold, TaggingOK
  <2>4. d.op \in {"dropTag", "rename"} => d.id \in DOMAIN t.tag
    BY <1>1 DEF TagsHold, TaggingOK
  <2>5. d.op = "dropTag" => \A j \in DOMAIN t.tag : t.tag[j].deleted # d.tag
    BY <1>1 DEF TagsHold, TaggingOK
  <2> QED BY <2>1, <2>2, <2>3, <2>4, <2>5 DEF TaggingOK
<1> QED BY <1>5, <1>7, <1>8 DEF TagsHold

-----------------------------------------------------------------------------
\* All are deleted, and the rule gets its tags, which may be none, ...
LEMMA UntaggingEnds ==
  ASSUME NEW c, NEW d, NEW t, NEW n \in Nat, NEW tagged, TagsHold(c, t, n, tagged),
         c.at = "untag", c.op = "save", c.todo = {},
         d.at = "findTag", d.op = c.op, d.rule = c.rule, d.labels = c.labels, d.tag = c.tag,
         d.todo = c.labels
  PROVE  TagsHold(d, t, n, tagged)
<1>1. GivesTags(c) /\ GivesTags(d) /\ ~TakesTag(d) /\ ~TakesTag(c)
  BY DEF GivesTags, TakesTag
<1>2. NamesHold(d, t, tagged)
  BY <1>1 DEF TagsHold, NamesHold
<1>3. \A name : ~Shows(t, c.rule, name)
  BY DEF TagsHold, TaggingOK, Shows, LiveTie
<1>4. TaggingOK(d, t, tagged)
  BY <1>1, <1>3 DEF TagsHold, TaggingOK
<1> QED BY <1>2, <1>4 DEF TagsHold

\* ... or the tag can go.
LEMMA TiesGone ==
  ASSUME NEW c, NEW d, NEW t, NEW n \in Nat, NEW tagged, TagsHold(c, t, n, tagged),
         c.at = "untag", c.op = "dropTag", c.todo = {},
         d.at = "dropTag", d.op = c.op, d.id = c.id, d.tag = c.tag
  PROVE  TagsHold(d, t, n, tagged)
<1>1. ~GivesTags(c) /\ ~GivesTags(d) /\ TakesTag(d) /\ TakesTag(c)
  BY DEF GivesTags, TakesTag
<1>2. NamesHold(d, t, tagged)
  BY <1>1 DEF TagsHold, NamesHold
<1>3. TaggingOK(d, t, tagged)
  BY <1>1 DEF TagsHold, TaggingOK
<1> QED BY <1>2, <1>3 DEF TagsHold

\* The rule has all its tags.
LEMMA TaggingEnds ==
  ASSUME NEW c, NEW d, NEW t, NEW n \in Nat, NEW tagged, TagsHold(c, t, n, tagged),
         c.at = "findTag", c.op = "save", c.todo = {}, d.at = "rebuild", ~AtTags(d)
  PROVE  TagsHold(d, t, n, tagged)
<1>1. GivesTags(c) /\ ~TakesTag(c) /\ ~GivesTags(d) /\ ~TakesTag(d)
  BY DEF GivesTags, TakesTag
<1>2. \A name : Shows(t, c.rule, name) <=> name \in tagged[c.rule]
  BY <1>1 DEF TagsHold, TaggingOK
<1>3. NamesHold(d, t, tagged)
  BY <1>1, <1>2 DEF TagsHold, NamesHold
<1>4. TaggingOK(d, t, tagged)
  BY <1>1 DEF TaggingOK, AtTags
<1> QED BY <1>3, <1>4 DEF TagsHold

\* A name is free, for a new tag or for the tag that takes it.
LEMMA NameFree ==
  ASSUME NEW c, NEW d, NEW t, NEW n \in Nat, NEW tagged, TagsHold(c, t, n, tagged),
         c.at = "name", c.op \in {"add", "rename"}, d.op = c.op, d.label = c.label, d.id = c.id,
         d.at = IF c.op = "add" THEN "newTag" ELSE "rename",
         c.op = "add" => c.id \notin DOMAIN t.tag,
         \A i : LiveTag(t, i) /\ i # c.id => t.tag[i].name # c.label
  PROVE  TagsHold(d, t, n, tagged)
<1>1. ~GivesTags(c) /\ ~GivesTags(d) /\ ~TakesTag(d) /\ ~TakesTag(c)
  BY DEF GivesTags, TakesTag
<1>2. NamesHold(d, t, tagged)
  BY <1>1 DEF TagsHold, NamesHold
<1>3. \A i : LiveTag(t, i) /\ c.op = "add" => i # c.id
  BY DEF LiveTag
<1>4. TaggingOK(d, t, tagged)
  BY <1>1, <1>3 DEF TagsHold, TaggingOK
<1> QED BY <1>2, <1>4 DEF TagsHold

\* The next name: no tag has it, or tag i does.
LEMMA TagMissing ==
  ASSUME NEW c, NEW d, NEW t, NEW n \in Nat, NEW tagged, NEW name, TagsHold(c, t, n, tagged),
         c.at = "findTag", c.op = "save", name \in c.todo,
         \A i : LiveTag(t, i) => t.tag[i].name # name,
         d.at = "newTag", d.op = c.op, d.rule = c.rule, d.labels = c.labels, d.todo = c.todo,
         d.tag = c.tag, d.label = name
  PROVE  TagsHold(d, t, n, tagged)
<1>1. GivesTags(c) /\ GivesTags(d) /\ ~TakesTag(d) /\ ~TakesTag(c)
  BY DEF GivesTags, TakesTag
<1>2. NamesHold(d, t, tagged)
  BY <1>1 DEF TagsHold, NamesHold
<1>3. TaggingOK(d, t, tagged)
  BY <1>1 DEF TagsHold, TaggingOK
<1> QED BY <1>2, <1>3 DEF TagsHold

LEMMA TagFound ==
  ASSUME NEW c, NEW d, NEW t, NEW n \in Nat, NEW tagged, NEW name, NEW i,
         TagsHold(c, t, n, tagged),
         c.at = "findTag", c.op = "save", name \in c.todo, LiveTag(t, i), t.tag[i].name = name,
         d.at = "tagRule", d.op = c.op, d.rule = c.rule, d.labels = c.labels, d.todo = c.todo,
         d.tag = c.tag, d.label = name, d.id = i
  PROVE  TagsHold(d, t, n, tagged)
<1>1. GivesTags(c) /\ GivesTags(d) /\ ~TakesTag(d) /\ ~TakesTag(c)
  BY DEF GivesTags, TakesTag
<1>2. NamesHold(d, t, tagged)
  BY <1>1 DEF TagsHold, NamesHold
<1>3. TaggingOK(d, t, tagged)
  BY <1>1 DEF TagsHold, TaggingOK
<1> QED BY <1>2, <1>3 DEF TagsHold

\* A new tag changes nothing of what the rules show.
LEMMA TagMore ==
  ASSUME NEW c, NEW s, NEW t, NEW n \in Nat, NEW tagged, NEW i, NEW row,
         TagsHold(c, s, n, tagged), c.at = "newTag", TagAdded(s, t, i, row),
         row.name = c.label, row.deleted = 0
  PROVE  /\ TagRowsApart(t, n) /\ LiveTag(t, i) /\ t.tag[i].name = c.label
         /\ \A r, name : Shows(t, r, name) <=> Shows(s, r, name)
<1>1. /\ i \notin DOMAIN s.tag /\ DOMAIN t.tag = DOMAIN s.tag \cup {i} /\ t.tag[i] = row
      /\ t.ruleTag = s.ruleTag /\ \A j \in DOMAIN s.tag : t.tag[j] = s.tag[j]
  BY DEF TagAdded
<1>2. \A j : LiveTag(t, j) <=> LiveTag(s, j) \/ j = i
  BY <1>1 DEF LiveTag
<1>3. \A k, r, j : LiveTie(t, k, r, j) <=> LiveTie(s, k, r, j)
  BY <1>1 DEF LiveTie
<1>4. \A k, r : ~LiveTie(s, k, r, i)
  BY <1>1 DEF LiveTie, TagsHold, TagRowsApart
<1>5. TagRowsApart(t, n)
  <2>1. \A j, k \in DOMAIN t.tag :
          LiveTag(t, j) /\ LiveTag(t, k) /\ t.tag[j].name = t.tag[k].name => j = k
    <3>1. \A j : LiveTag(s, j) => s.tag[j].name # c.label /\ j \in DOMAIN s.tag
      BY DEF TagsHold, TaggingOK, LiveTag
    <3> QED BY <1>1, <1>2, <3>1 DEF TagsHold, TagRowsApart
  <2>2. \A j, k \in DOMAIN t.tag : t.tag[j].deleted = t.tag[k].deleted /\ t.tag[j].deleted # 0
                                     => j = k
    BY <1>1 DEF TagsHold, TagRowsApart
  <2>3. \A j \in DOMAIN t.tag : t.tag[j].deleted <= n
    BY <1>1 DEF TagsHold, TagRowsApart
  <2> QED BY <1>1, <2>1, <2>2, <2>3 DEF TagsHold, TagRowsApart
<1>6. \A r, name : Shows(t, r, name) <=> Shows(s, r, name)
  BY <1>1, <1>2, <1>3, <1>4 DEF Shows
<1> QED BY <1>1, <1>2, <1>5, <1>6

LEMMA TagNew ==
  ASSUME NEW c, NEW d, NEW s, NEW t, NEW n \in Nat, NEW tagged, NEW i, NEW row,
         TagsHold(c, s, n, tagged), c.at = "newTag", TagAdded(s, t, i, row),
         row.name = c.label, row.deleted = 0,
         \/ c.op = "add" /\ d = Idle
         \/ /\ c.op = "save" /\ d.at = "tagRule" /\ d.op = c.op /\ d.rule = c.rule
            /\ d.labels = c.labels /\ d.todo = c.todo /\ d.label = c.label /\ d.id = i
  PROVE  TagsHold(d, t, n, tagged)
<1>1. /\ TagRowsApart(t, n) /\ LiveTag(t, i) /\ t.tag[i].name = c.label
      /\ \A r, name : Shows(t, r, name) <=> Shows(s, r, name)
  BY TagMore
<1>2. CASE c.op = "add" /\ d = Idle
  <2>1. ~GivesTags(c) /\ ~TakesTag(c) /\ ~GivesTags(d) /\ ~TakesTag(d) /\ ~AtTags(d)
    BY <1>2, IdleShape, IdleAside DEF GivesTags, TakesTag
  <2>2. NamesHold(d, t, tagged)
    BY <1>1, <2>1 DEF TagsHold, NamesHold
  <2>3. TaggingOK(d, t, tagged)
    BY <2>1 DEF TaggingOK, AtTags
  <2> QED BY <1>1, <2>2, <2>3 DEF TagsHold
<1>3. CASE c.op = "save" /\ d.at = "tagRule" /\ d.op = c.op /\ d.rule = c.rule
           /\ d.labels = c.labels /\ d.todo = c.todo /\ d.label = c.label /\ d.id = i
  <2>1. GivesTags(c) /\ ~TakesTag(c) /\ GivesTags(d) /\ ~TakesTag(d)
    BY <1>3 DEF GivesTags, TakesTag
  <2>2. NamesHold(d, t, tagged)
    BY <1>1, <1>3, <2>1 DEF TagsHold, NamesHold
  <2>3. TaggingOK(d, t, tagged)
    BY <1>1, <1>3, <2>1 DEF TagsHold, TaggingOK
  <2> QED BY <1>1, <2>2, <2>3 DEF TagsHold
<1> QED BY <1>2, <1>3

\* The rule gets the tag.
LEMMA TieNew ==
  ASSUME NEW c, NEW d, NEW s, NEW t, NEW n \in Nat, NEW tagged, NEW k, NEW row,
         TagsHold(c, s, n, tagged), c.at = "tagRule", c.op = "save", TieAdded(s, t, k, row),
         row.rule = c.rule, row.tag = c.id, row.deleted = 0,
         d.at = "findTag", d.op = c.op, d.rule = c.rule, d.labels = c.labels, d.tag = c.tag,
         d.todo = c.todo \ {c.label}
  PROVE  TagsHold(d, t, n, tagged)
<1>1. /\ k \notin DOMAIN s.ruleTag /\ DOMAIN t.ruleTag = DOMAIN s.ruleTag \cup {k}
      /\ t.ruleTag[k] = row /\ t.tag = s.tag
      /\ \A j \in DOMAIN s.ruleTag : t.ruleTag[j] = s.ruleTag[j]
  BY DEF TieAdded
<1>2. GivesTags(c) /\ GivesTags(d) /\ ~TakesTag(d) /\ ~TakesTag(c)
  BY DEF GivesTags, TakesTag
<1>3. /\ c.label \in c.todo /\ LiveTag(s, c.id) /\ s.tag[c.id].name = c.label
      /\ c.todo \subseteq c.labels /\ tagged[c.rule] = c.labels
      /\ \A name : Shows(s, c.rule, name) <=> name \in c.labels \ c.todo
  BY <1>2 DEF TagsHold, TaggingOK
<1>4. \A i : LiveTag(t, i) <=> LiveTag(s, i)
  BY <1>1 DEF LiveTag
<1>5. \A j, r, i : LiveTie(t, j, r, i) <=> LiveTie(s, j, r, i) \/ (j = k /\ r = c.rule /\ i = c.id)
  BY <1>1 DEF LiveTie
<1>6. \A j : ~LiveTie(s, j, c.rule, c.id)
  <2>1. ~Shows(s, c.rule, c.label)
    BY <1>3
  <2> QED BY <1>3, <2>1 DEF Shows, LiveTag, LiveTie
<1>7. TagRowsApart(t, n)
  <2>1. \A i, j \in DOMAIN t.ruleTag :
          t.ruleTag[i].rule = t.ruleTag[j].rule /\ t.ruleTag[i].tag = t.ruleTag[j].tag
          /\ t.ruleTag[i].deleted = t.ruleTag[j].deleted => i = j
    BY <1>1, <1>6 DEF TagsHold, TagRowsApart, LiveTie
  <2>2. \A j \in DOMAIN t.ruleTag : t.ruleTag[j].deleted <= n /\ t.ruleTag[j].tag \in DOMAIN t.tag
    BY <1>1, <1>3 DEF TagsHold, TagRowsApart, LiveTag
  <2> QED BY <1>1, <1>4, <2>1, <2>2 DEF TagsHold, TagRowsApart
<1>8. \A r, name : Shows(t, r, name) <=> Shows(s, r, name) \/ (r = c.rule /\ name = c.label)
  <2>1. c.id \in DOMAIN t.tag /\ k \in DOMAIN t.ruleTag
    BY <1>1, <1>3 DEF LiveTag
  <2> QED BY <1>1, <1>3, <1>4, <1>5, <2>1 DEF Shows, LiveTie
<1>9. NamesHold(d, t, tagged)
  BY <1>2, <1>8 DEF TagsHold, NamesHold
<1>10. TaggingOK(d, t, tagged)
  <2>1. \A name : Shows(t, c.rule, name) <=> name \in d.labels \ d.todo
    BY <1>3, <1>8
  <2> QED BY <1>2, <1>3, <2>1 DEF TaggingOK
<1> QED BY <1>7, <1>9, <1>10 DEF TagsHold

-----------------------------------------------------------------------------
LEMMA HoldsInTags ==
  ASSUME NEW c, NEW d, NEW s \in Tables, NEW t, NEW f, NEW h, NEW g, NEW n \in Nat,
         Holds(c, s, f, h, n), SameButTags(s, t), g.culprit = h.culprit,
         d.at \notin {"exists", "writeRule", "dropUp"}, ~Replacing(c), ~AtGraph(d),
         f = 0 /\ TagsHold(c, s, n, h.tagged) => TagsHold(d, t, n, g.tagged)
  PROVE  Holds(d, t, f, g, n)
<1>1. s.rel \subseteq RelRow
  BY TableTypes
<1>2. RulesHold(d, t)
  BY RulesAside DEF Holds, SameButTags
<1>3. f = 0 /\ ~g.culprit => GraphHolds(d, t, n)
  BY <1>1, GraphAside DEF Holds, SameButTags
<1> QED BY <1>2, <1>3 DEF Holds

AtTagCall(c) ==
  c.at \in {"name", "rename", "ruleTags", "tagRules", "untag", "findTag", "newTag", "tagRule",
            "dropTag"}

LEMMA TagCallAside ==
  ASSUME NEW c
  PROVE  AtTagCall(c) => /\ c.at # "idle" /\ c.at \notin {"exists", "writeRule", "dropUp"}
                         /\ c.at # "remove" /\ ~Replacing(c) /\ ~AtGraph(c)
BY DEF AtTagCall, Replacing, AtGraph

LEMMA TagBeginHolds ==
  ASSUME TablesInv, NEW a \in Admins,
         \/ \E label \in Labels : \/ AddTag(a, label)
                                  \/ \E i \in DOMAIN db.tag : TagsUpdate(a, i, label)
         \/ \E i \in DOMAIN db.tag : TagsDelete(a, i)
  PROVE  TablesInv'
<1>1. \A i \in DOMAIN db.tag : i \in Nat
  <2>1. db.tag \in Seq(TagRow) /\ db.ruleTag \in Seq(TieRow)
    BY NothingChanges, TableTypes
  <2>2. DOMAIN db.tag = 1 .. Len(db.tag)
    BY <2>1, TagTypes
  <2> QED BY <2>2
<1>2. ASSUME NEW label \in Labels, AddTag(a, label)
      PROVE  TablesInv'
  <2> DEFINE c == [Idle EXCEPT !.at = "name", !.op = "add", !.label = label]
  <2>1. Begin(a, c)
    BY <1>2 DEF AddTag
  <2>2. /\ Shaped(c) /\ c.at = "name" /\ c.op = "add" /\ c.label = label
        /\ c.on = FALSE /\ c.group = {} /\ c.labels = {} /\ c.id = 0
    <3>1. Shaped(c)
      BY IdleShape, Edits
    <3> QED BY <3>1 DEF Idle
  <2> HIDE DEF c
  <2>3. Fits(c) /\ Starts(c, db) /\ c.on \in BOOLEAN
    BY <2>2 DEF Fits, Starts
  <2> QED BY <2>1, <2>2, <2>3, BeginHolds DEF Formed
<1>3. ASSUME NEW label \in Labels, NEW i \in DOMAIN db.tag, TagsUpdate(a, i, label)
      PROVE  TablesInv'
  <2> DEFINE c == [Idle EXCEPT !.at = "name", !.op = "rename", !.label = label, !.id = i]
  <2>1. Begin(a, c)
    BY <1>3 DEF TagsUpdate
  <2>2. /\ Shaped(c) /\ c.at = "name" /\ c.op = "rename" /\ c.label = label
        /\ c.on = FALSE /\ c.group = {} /\ c.labels = {} /\ c.id = i
    <3>1. Shaped(c)
      BY IdleShape, Edits
    <3> QED BY <3>1 DEF Idle
  <2> HIDE DEF c
  <2>3. Fits(c) /\ Starts(c, db) /\ c.on \in BOOLEAN
    BY <2>2 DEF Fits, Starts
  <2> QED BY <1>1, <2>1, <2>2, <2>3, BeginHolds DEF Formed
<1>4. ASSUME NEW i \in DOMAIN db.tag, TagsDelete(a, i)
      PROVE  TablesInv'
  <2> DEFINE c == [Idle EXCEPT !.at = "tagRules", !.op = "dropTag", !.id = i]
  <2>1. Begin(a, c)
    BY <1>4 DEF TagsDelete
  <2>2. /\ Shaped(c) /\ c.at = "tagRules" /\ c.op = "dropTag"
        /\ c.on = FALSE /\ c.group = {} /\ c.labels = {} /\ c.id = i
    <3>1. Shaped(c)
      BY IdleShape, Edits
    <3> QED BY <3>1 DEF Idle
  <2> HIDE DEF c
  <2>3. Fits(c) /\ Starts(c, db) /\ c.on \in BOOLEAN
    BY <2>2 DEF Fits, Starts
  <2> QED BY <1>1, <2>1, <2>2, <2>3, BeginHolds DEF Formed
<1> QED BY <1>2, <1>3, <1>4

\* The call as it would be if it gave the names, or deleted the relations, even
\* when there are none.
Naming(c, names) == [c EXCEPT !.at = "findTag", !.todo = names]
Dropping(c, rows) == [c EXCEPT !.at = "untag", !.todo = rows]

LEMMA Virtual ==
  ASSUME NEW c, Shaped(c), NEW names
  PROVE  /\ Kin(c, Naming(c, names)) /\ Naming(c, names).at = "findTag"
         /\ Naming(c, names).todo = names /\ Naming(c, names).id = c.id
         /\ Kin(c, Dropping(c, names)) /\ Dropping(c, names).at = "untag"
         /\ Dropping(c, names).todo = names /\ Dropping(c, names).id = c.id
<1>1. Shaped(Naming(c, names)) /\ Shaped(Dropping(c, names))
  BY Edits DEF Naming, Dropping
<1>2. /\ Kin(c, Naming(c, names)) /\ Naming(c, names).at = "findTag"
      /\ Naming(c, names).todo = names /\ Naming(c, names).id = c.id
  BY <1>1 DEF Kin, Shaped, Naming
<1>3. /\ Kin(c, Dropping(c, names)) /\ Dropping(c, names).at = "untag"
      /\ Dropping(c, names).todo = names /\ Dropping(c, names).id = c.id
  BY <1>1 DEF Kin, Shaped, Dropping
<1> QED BY <1>2, <1>3

LEMMA TaggingHolds ==
  ASSUME TablesInv, NEW a \in Admins, call[a].op = "save", call[a].rule \in Rules,
         NEW names \in SUBSET Labels
  PROVE  /\ Follows(call[a], Tagging(a, names)) /\ Tagging(a, names).at \in {"findTag", "rebuild"}
         /\ \A n \in Nat : \A t, tagged : TagsHold(Naming(call[a], names), t, n, tagged)
                                        => TagsHold(Tagging(a, names), t, n, tagged)
<1> DEFINE c == call[a]
           v == Naming(c, names)
<1>1. Shaped(c) /\ Formed(c)
  BY NothingChanges DEF CallOK
<1>2. /\ Kin(c, v) /\ v.at = "findTag" /\ v.todo = names /\ v.id = c.id
  BY <1>1, Virtual
<1>3. Tagging(a, names) = IF names = {} THEN Written(a) ELSE v
  BY DEF Tagging, Naming
<1> HIDE DEF v
<1>4. Fits(v)
  BY <1>2 DEF Fits, Kin
<1>5. Follows(c, v)
  BY <1>1, <1>2, <1>4, KinFollows DEF Formed
<1>6. CASE names = {}
  <2>1. \A n \in Nat : \A t, tagged :
          TagsHold(v, t, n, tagged) => TagsHold(Written(a), t, n, tagged)
    BY <1>2, <1>6, WrittenFollows, TaggingEnds DEF Kin
  <2> QED BY <1>3, <1>6, <2>1, WrittenFollows DEF v
<1>7. CASE names # {}
  BY <1>2, <1>3, <1>5, <1>7 DEF v
<1> QED BY <1>6, <1>7

LEMMA UntaggingHolds ==
  ASSUME TablesInv, NEW a \in Admins, call[a].op \in {"save", "dropTag"},
         call[a].op = "save" => call[a].rule \in Rules, NEW rows
  PROVE  /\ Follows(call[a], Untagging(a, rows))
         /\ Untagging(a, rows).at \in {"untag", "dropTag", "findTag", "rebuild"}
         /\ \A n \in Nat : \A t, tagged : TagsHold(Dropping(call[a], rows), t, n, tagged)
                                        => TagsHold(Untagging(a, rows), t, n, tagged)
<1> DEFINE c == call[a]
           v == Dropping(c, rows)
           drop == [c EXCEPT !.at = "dropTag"]
<1>1. Shaped(c) /\ Formed(c) /\ c.labels \in SUBSET Labels
  BY NothingChanges DEF CallOK, Formed
<1>2. /\ Kin(c, v) /\ v.at = "untag" /\ v.todo = rows /\ v.id = c.id
  BY <1>1, Virtual
<1>3. Untagging(a, rows) = IF rows # {} THEN v
                           ELSE IF c.op = "dropTag" THEN drop ELSE Tagging(a, c.labels)
  BY DEF Untagging, Dropping
<1>4. Kin(c, drop) /\ drop.at = "dropTag" /\ drop.id = c.id
  <2>1. Shaped(drop)
    BY <1>1, Edits
  <2> QED BY <1>1, <2>1 DEF Kin, Shaped
<1> HIDE DEF v, drop
<1>5. CASE rows # {}
  <2>1. Fits(v)
    BY <1>2 DEF Fits, Kin
  <2>2. Follows(c, v)
    BY <1>1, <1>2, <2>1, KinFollows DEF Formed
  <2> QED BY <1>2, <1>3, <1>5, <2>2 DEF v
<1>6. CASE rows = {} /\ c.op = "dropTag"
  <2>1. Fits(drop)
    BY <1>4, <1>6 DEF Fits, Kin
  <2>2. Follows(c, drop)
    BY <1>1, <1>4, <2>1, KinFollows DEF Formed
  <2>3. \A n \in Nat : \A t, tagged : TagsHold(v, t, n, tagged) => TagsHold(drop, t, n, tagged)
    BY <1>2, <1>4, <1>6, TiesGone DEF Kin
  <2> QED BY <1>3, <1>4, <1>6, <2>2, <2>3 DEF v
<1>7. CASE rows = {} /\ c.op = "save"
  <2> DEFINE w == Naming(c, c.labels)
  <2>1. /\ Kin(c, w) /\ w.at = "findTag" /\ w.todo = c.labels /\ w.id = c.id
    BY <1>1, Virtual
  <2>2. /\ Follows(c, Tagging(a, c.labels)) /\ Tagging(a, c.labels).at \in {"findTag", "rebuild"}
        /\ \A n \in Nat : \A t, tagged : TagsHold(w, t, n, tagged)
                                       => TagsHold(Tagging(a, c.labels), t, n, tagged)
    BY <1>1, <1>7, TaggingHolds
  <2> HIDE DEF w
  <2>3. \A n \in Nat : \A t, tagged : TagsHold(v, t, n, tagged) => TagsHold(w, t, n, tagged)
    BY <1>2, <1>7, <2>1, UntaggingEnds DEF Kin
  <2> QED BY <1>3, <1>7, <2>2, <2>3 DEF v
<1> QED BY <1>5, <1>6, <1>7

-----------------------------------------------------------------------------
LEMMA TagCallFacts ==
  ASSUME TablesInv, NEW a \in Admins, AtTagCall(call[a])
  PROVE  /\ Shaped(call[a]) /\ Formed(call[a]) /\ Fits(call[a]) /\ db \in Tables /\ calls \in Nat
         /\ call[a].at # "idle" /\ call[a].tag \in Stamps \ {0} /\ call[a].tag <= calls
         /\ db.tag \in Seq(TagRow) /\ db.ruleTag \in Seq(TieRow)
         /\ call[a].at \notin {"exists", "writeRule", "dropUp", "remove"}
         /\ ~Replacing(call[a]) /\ ~AtGraph(call[a])
         /\ SameButTags(db, db)
<1>1. /\ CallOK(call[a], calls) /\ db \in Tables /\ calls \in Nat
      /\ call[a].at # "idle" => call[a].tag \in Stamps \ {0}
  BY NothingChanges
<1>2. call[a].at # "idle"
  BY TagCallAside
<1>3. call[a].tag \in 1 .. calls
  BY <1>1, <1>2 DEF CallOK
<1> QED BY <1>1, <1>2, <1>3, TagCallAside, TableTypes DEF CallOK, Formed, SameButTags

\* A check of the tags lets the call pass, or not.
LEMMA TagChecked ==
  ASSUME TablesInv, NEW a \in Admins, AtTagCall(call[a]), NEW ok \in BOOLEAN, NEW next,
         Check(a, ok, next), ok \/ AtRest(call[a]), Follows(call[a], next),
         next.at \notin {"exists", "writeRule", "dropUp", "remove"}, ~AtGraph(next),
         ok /\ TagsHold(call[a], db, calls, history.tagged)
           => TagsHold(next, db, calls, history.tagged)
  PROVE  TablesInv'
<1>1. ok /\ Holds(call[a], db, failures, history, calls)
        => Holds(next, db, failures, history, calls)
  BY TagCallFacts, HoldsInTags
<1> QED BY <1>1, TagCallFacts, CheckHolds

\* No unique index turns down what the invariant allows.
LEMMA TagsWritten ==
  ASSUME TablesInv, NEW a \in Admins, AtTagCall(call[a]), NEW t, NEW unique, NEW next,
         WriteTags(a, t, unique, next), SameButTags(db, t), Follows(call[a], next),
         next.at \notin {"exists", "writeRule", "dropUp", "remove"}, ~AtGraph(next),
         TagsHold(call[a], db, calls, history.tagged)
           => unique /\ TagsHold(next, t, calls, history.tagged)
  PROVE  TablesInv'
<1>1. unique /\ Holds(call[a], db, failures, history, calls)
        => Holds(next, t, failures, history, calls)
  BY TagCallFacts, HoldsInTags
<1>2. ~unique /\ Holds(call[a], db, failures, history, calls)
        => Holds(Idle, db, failures, history, calls)
  BY TagCallFacts, HoldsInTags, IdleAside, IdleShape
<1>3. t \in Tables /\ t.rel = db.rel
  BY DEF SameButTags
<1> QED BY <1>1, <1>2, <1>3, TagCallFacts, WriteTagsHolds

LEMMA ActiveTagsLive == \A i : i \in ActiveTags <=> LiveTag(db, i)
BY DEF ActiveTags, LiveTag

LEMMA CheckNameHolds ==
  ASSUME TablesInv, NEW a \in Admins, CheckName(a)
  PROVE  TablesInv'
<1> DEFINE c == call[a]
           at == IF c.op = "add" THEN "newTag" ELSE "rename"
           next == [c EXCEPT !.at = at]
           ok == \A i \in ActiveTags \ {c.id} : db.tag[i].name # c.label
<1>1. Check(a, ok, next) /\ c.at = "name" /\ ok \in BOOLEAN /\ AtTagCall(c)
  BY DEF CheckName, AtTagCall
<1>2. Shaped(c) /\ Formed(c) /\ Fits(c) /\ db.tag \in Seq(TagRow) /\ db.ruleTag \in Seq(TieRow)
  BY <1>1, TagCallFacts
<1>3. /\ Kin(c, next) /\ next.at = at /\ next.id = c.id /\ next.label = c.label
      /\ next.todo = c.todo
  <2>1. Shaped(next)
    BY <1>2, Edits
  <2> QED BY <1>2, <2>1 DEF Kin, Shaped
<1> HIDE DEF next
<1>4. c.op \in {"add", "rename"} /\ (c.op = "add" => c.id = 0)
  BY <1>1, <1>2 DEF Fits
<1>5. Follows(c, next)
  <2>1. Fits(next)
    BY <1>1, <1>2, <1>3, <1>4 DEF Fits, Kin
  <2> QED BY <1>2, <1>3, <2>1, KinFollows DEF Formed
<1>6. 0 \notin DOMAIN db.tag
  BY <1>2, TagTypes
<1>7. ok <=> \A i : LiveTag(db, i) /\ i # c.id => db.tag[i].name # c.label
  BY ActiveTagsLive
<1> HIDE DEF ok
<1>8. ok /\ TagsHold(c, db, calls, history.tagged) => TagsHold(next, db, calls, history.tagged)
  BY <1>1, <1>3, <1>4, <1>6, <1>7, NothingChanges, NameFree DEF Kin
<1>9. AtRest(c) /\ ~AtGraph(next) /\ next.at \in {"newTag", "rename"}
  BY <1>1, <1>3 DEF AtRest, Replacing, GivesTags, TakesTag, AtGraph
<1> QED BY <1>1, <1>5, <1>8, <1>9, TagChecked

LEMMA ListTiesHolds ==
  ASSUME TablesInv, NEW a \in Admins, ListRuleTags(a) \/ ListTagRules(a)
  PROVE  TablesInv'
<1> DEFINE c == call[a]
           rows == {k \in DOMAIN db.ruleTag :
                      /\ db.ruleTag[k].deleted = 0
                      /\ IF c.op = "save" THEN db.ruleTag[k].rule = c.rule
                                          ELSE db.ruleTag[k].tag = c.id}
           v == Dropping(c, rows)
           next == Untagging(a, rows)
<1>1. AtTagCall(c)
  BY DEF ListRuleTags, ListTagRules, AtTagCall
<1>2. Shaped(c) /\ Formed(c) /\ Fits(c)
  BY <1>1, TagCallFacts
<1>3. \/ c.at = "ruleTags" /\ c.op = "save" /\ c.rule \in Rules
      \/ c.at = "tagRules" /\ c.op = "dropTag"
  BY <1>2 DEF ListRuleTags, ListTagRules, Fits
<1>4. Check(a, TRUE, next)
  <2>1. CASE ListRuleTags(a)
    <3>1. c.op = "save"
      BY <1>3, <2>1 DEF ListRuleTags
    <3>2. rows = {i \in Tagged : db.ruleTag[i].rule = c.rule}
      BY <3>1 DEF Tagged
    <3> QED BY <2>1, <3>2 DEF ListRuleTags
  <2>2. CASE ListTagRules(a)
    <3>1. c.op = "dropTag"
      BY <1>3, <2>2 DEF ListTagRules
    <3>2. rows = {i \in Tagged : db.ruleTag[i].tag = c.id}
      BY <3>1 DEF Tagged
    <3> QED BY <2>2, <3>2 DEF ListTagRules
  <2> QED BY <2>1, <2>2
<1>5. /\ Follows(c, next) /\ next.at \in {"untag", "dropTag", "findTag", "rebuild"}
      /\ \A n \in Nat : \A t, tagged : TagsHold(v, t, n, tagged) => TagsHold(next, t, n, tagged)
  BY <1>3, UntaggingHolds
<1>6. Kin(c, v) /\ v.at = "untag" /\ v.todo = rows /\ v.id = c.id
  BY <1>2, Virtual
<1> HIDE DEF v, next
<1>7. TagsHold(c, db, calls, history.tagged) => TagsHold(v, db, calls, history.tagged)
  BY <1>3, <1>6, NothingChanges, TiesListed DEF Kin
<1>8. TagsHold(c, db, calls, history.tagged) => TagsHold(next, db, calls, history.tagged)
  <2> HIDE DEF c, rows
  <2>1. calls \in Nat
    BY NothingChanges
  <2>2. TagsHold(v, db, calls, history.tagged) => TagsHold(next, db, calls, history.tagged)
    BY <1>5, <2>1
  <2> QED BY <1>7, <2>2
<1>9. ~AtGraph(next)
  BY <1>5 DEF AtGraph
<1> QED BY <1>1, <1>4, <1>5, <1>8, <1>9, TagChecked

LEMMA UntagHolds ==
  ASSUME TablesInv, NEW a \in Admins, Untag(a)
  PROVE  TablesInv'
<1> DEFINE c == call[a]
<1>1. PICK i \in c.todo :
        LET t == [db EXCEPT !.ruleTag[i].deleted = c.tag] IN
        WriteTags(a, t, UniqueTagged(t), Untagging(a, c.todo \ {i}))
  BY DEF Untag
<1> DEFINE row == [db.ruleTag[i] EXCEPT !.deleted = c.tag]
           t == [db EXCEPT !.ruleTag[i] = row]
           v == Dropping(c, c.todo \ {i})
           next == Untagging(a, c.todo \ {i})
<1>2. WriteTags(a, t, UniqueTagged(t), next) /\ c.at = "untag" /\ AtTagCall(c)
  BY <1>1 DEF Untag, AtTagCall
<1>3. /\ Shaped(c) /\ Fits(c) /\ db \in Tables /\ calls \in Nat /\ c.tag \in Stamps
      /\ c.tag # 0 /\ c.tag <= calls /\ db.ruleTag \in Seq(TieRow)
  BY <1>2, TagCallFacts
<1>4. c.op \in {"save", "dropTag"} /\ (c.op = "save" => c.rule \in Rules)
  BY <1>2, <1>3 DEF Fits
<1>5. i \in DOMAIN db.ruleTag => /\ row \in TieRow /\ row.rule = db.ruleTag[i].rule
                                 /\ row.tag = db.ruleTag[i].tag /\ row.deleted = c.tag
  <2>1. i \in DOMAIN db.ruleTag => db.ruleTag[i] \in TieRow
    BY <1>3
  <2> QED BY <1>3, <2>1 DEF TieRow
<1> HIDE DEF row
<1>6. TieChanged(db, t, i, row)
  BY <1>3, <1>5, TieRow1
<1>7. /\ Follows(c, next) /\ next.at \in {"untag", "dropTag", "findTag", "rebuild"}
      /\ \A n \in Nat : \A s, tagged : TagsHold(v, s, n, tagged) => TagsHold(next, s, n, tagged)
  BY <1>4, UntaggingHolds
<1>8. Kin(c, v) /\ v.at = "untag" /\ v.todo = c.todo \ {i} /\ v.id = c.id
  BY <1>3, Virtual
<1> HIDE DEF v, next, t
<1>9. SameButTags(db, t)
  BY <1>6 DEF TieChanged
<1>10. TagsHold(c, db, calls, history.tagged) => TagsHold(v, t, calls, history.tagged)
  <2> SUFFICES ASSUME TagsHold(c, db, calls, history.tagged)
               PROVE  TagsHold(v, t, calls, history.tagged)
    OBVIOUS
  <2>1. i \in DOMAIN db.ruleTag
    BY <1>2 DEF TagsHold, TaggingOK
  <2> QED BY <1>2, <1>3, <1>4, <1>5, <1>6, <1>8, <2>1, TieDropped DEF Kin
<1>11. TagsHold(c, db, calls, history.tagged)
         => UniqueTagged(t) /\ TagsHold(next, t, calls, history.tagged)
  <2> HIDE DEF c
  <2>1. TagsHold(v, t, calls, history.tagged) => TagsHold(next, t, calls, history.tagged)
    BY <1>3, <1>7
  <2>2. TagsHold(next, t, calls, history.tagged) => UniqueTagged(t)
    BY ApartUnique DEF TagsHold
  <2> QED BY <1>10, <2>1, <2>2
<1>12. ~AtGraph(next)
  BY <1>7 DEF AtGraph
<1> QED BY <1>2, <1>7, <1>9, <1>11, <1>12, TagsWritten

LEMMA FindTagHolds ==
  ASSUME TablesInv, NEW a \in Admins, FindTag(a)
  PROVE  TablesInv'
<1> DEFINE c == call[a]
<1>1. c.at = "findTag" /\ AtTagCall(c)
  BY DEF FindTag, AtTagCall
<1>2. PICK name \in c.todo :
        LET found == {i \in ActiveTags : db.tag[i].name = name} IN
        IF found = {} THEN Check(a, TRUE, [c EXCEPT !.at = "newTag", !.label = name])
        ELSE \E i \in found :
               Check(a, TRUE, [c EXCEPT !.at = "tagRule", !.label = name, !.id = i])
  BY DEF FindTag
<1>3. /\ Shaped(c) /\ Formed(c) /\ Fits(c) /\ calls \in Nat
      /\ db.tag \in Seq(TagRow) /\ db.ruleTag \in Seq(TieRow)
  BY <1>1, TagCallFacts
<1>4. c.op = "save" /\ c.rule \in Rules /\ c.todo \subseteq Labels /\ name \in Labels
  BY <1>1, <1>3 DEF Fits
<1>5. CASE {i \in ActiveTags : db.tag[i].name = name} = {}
  <2> DEFINE next == [c EXCEPT !.at = "newTag", !.label = name]
  <2>1. Check(a, TRUE, next)
    BY <1>2, <1>5
  <2>2. /\ Kin(c, next) /\ next.at = "newTag" /\ next.label = name /\ next.todo = c.todo
        /\ next.id = c.id
    <3>1. Shaped(next)
      BY <1>3, Edits
    <3> QED BY <1>3, <3>1 DEF Kin, Shaped
  <2> HIDE DEF next
  <2>3. Follows(c, next)
    <3>1. Fits(next)
      BY <1>4, <2>2 DEF Fits, Kin
    <3> QED BY <1>3, <2>2, <3>1, KinFollows DEF Formed
  <2>4. \A i : LiveTag(db, i) => db.tag[i].name # name
    BY <1>5, ActiveTagsLive
  <2>5. TagsHold(c, db, calls, history.tagged) => TagsHold(next, db, calls, history.tagged)
    BY <1>1, <1>3, <1>4, <2>2, <2>4, TagMissing DEF Kin
  <2>6. ~AtGraph(next)
    BY <2>2 DEF AtGraph
  <2> QED BY <1>1, <2>1, <2>2, <2>3, <2>5, <2>6, TagChecked
<1>6. CASE {i \in ActiveTags : db.tag[i].name = name} # {}
  <2>1. PICK i \in ActiveTags :
          /\ db.tag[i].name = name
          /\ Check(a, TRUE, [c EXCEPT !.at = "tagRule", !.label = name, !.id = i])
    BY <1>2, <1>6
  <2> DEFINE next == [c EXCEPT !.at = "tagRule", !.label = name, !.id = i]
  <2>2. /\ Kin(c, next) /\ next.at = "tagRule" /\ next.label = name /\ next.todo = c.todo
        /\ next.id = i
    <3>1. Shaped(next)
      BY <1>3, Edits
    <3> QED BY <1>3, <3>1 DEF Kin, Shaped
  <2>3. Check(a, TRUE, next)
    BY <2>1
  <2> HIDE DEF next
  <2>4. LiveTag(db, i) /\ i \in Nat
    <3>1. LiveTag(db, i) /\ i \in DOMAIN db.tag
      BY ActiveTagsLive DEF LiveTag
    <3>2. DOMAIN db.tag = 1 .. Len(db.tag)
      BY <1>3, TagTypes
    <3> QED BY <3>1, <3>2
  <2>5. Follows(c, next)
    <3>1. Fits(next)
      BY <1>4, <2>2 DEF Fits, Kin
    <3> QED BY <1>3, <2>2, <2>4, <3>1, KinFollows
  <2>6. TagsHold(c, db, calls, history.tagged) => TagsHold(next, db, calls, history.tagged)
    BY <1>1, <1>3, <1>4, <2>1, <2>2, <2>4, TagFound DEF Kin
  <2>7. ~AtGraph(next)
    BY <2>2 DEF AtGraph
  <2> QED BY <1>1, <2>2, <2>3, <2>5, <2>6, <2>7, TagChecked
<1> QED BY <1>5, <1>6

LEMMA NewTagHolds ==
  ASSUME TablesInv, NEW a \in Admins, NewTag(a)
  PROVE  TablesInv'
<1> DEFINE c == call[a]
           row == [name |-> c.label, deleted |-> 0]
           t == [db EXCEPT !.tag = Append(@, row)]
           on == [c EXCEPT !.at = "tagRule", !.id = Len(t.tag)]
           next == IF c.op = "add" THEN Idle ELSE on
<1>1. WriteTags(a, t, UniqueTags(t), next) /\ c.at = "newTag" /\ AtTagCall(c)
  BY DEF NewTag, AtTagCall
<1>2. Shaped(c) /\ Formed(c) /\ Fits(c) /\ db \in Tables /\ calls \in Nat
  BY <1>1, TagCallFacts
<1>3. /\ c.op \in {"add", "save"} /\ c.label \in Labels
      /\ c.op = "save" => c.rule \in Rules /\ c.todo \subseteq Labels
  BY <1>1, <1>2 DEF Fits
<1>4. row \in TagRow /\ row.name = c.label /\ row.deleted = 0
  BY <1>3, RouteTablesAssumption DEF TagRow, Stamps
<1> HIDE DEF row
<1>5. TagAdded(db, t, Len(db.tag) + 1, row) /\ Len(t.tag) = Len(db.tag) + 1 /\ Len(db.tag) \in Nat
  BY <1>2, <1>4, TagAppended
<1> HIDE DEF t
<1>6. /\ Kin(c, on) /\ on.at = "tagRule" /\ on.id = Len(t.tag) /\ on.label = c.label
      /\ on.todo = c.todo
  <2>1. Shaped(on)
    BY <1>2, Edits
  <2> QED BY <1>2, <2>1 DEF Kin, Shaped
<1> HIDE DEF on
<1>7. c.op = "save" => Follows(c, on)
  <2>1. c.op = "save" => Fits(on)
    BY <1>3, <1>6 DEF Fits, Kin
  <2> QED BY <1>2, <1>5, <1>6, <2>1, KinFollows
<1>8. Follows(c, next)
  BY <1>3, <1>7 DEF Follows
<1>9. ~AtGraph(next) /\ next.at \in {"idle", "tagRule"}
  BY <1>6, IdleShape DEF AtGraph
<1>10. TagsHold(c, db, calls, history.tagged)
         => UniqueTags(t) /\ TagsHold(next, t, calls, history.tagged)
  <2> SUFFICES ASSUME TagsHold(c, db, calls, history.tagged)
               PROVE  UniqueTags(t) /\ TagsHold(next, t, calls, history.tagged)
    OBVIOUS
  <2>1. \/ c.op = "add" /\ next = Idle
        \/ /\ c.op = "save" /\ next.at = "tagRule" /\ next.op = c.op /\ next.rule = c.rule
           /\ next.labels = c.labels /\ next.todo = c.todo /\ next.label = c.label
           /\ next.id = Len(db.tag) + 1
    BY <1>3, <1>5, <1>6 DEF Kin
  <2> HIDE DEF next
  <2>2. TagsHold(next, t, calls, history.tagged)
    BY <1>1, <1>2, <1>4, <1>5, <2>1, TagNew
  <2> QED BY <2>2, ApartUnique DEF TagsHold
<1>11. SameButTags(db, t)
  BY <1>5 DEF TagAdded
<1> HIDE DEF next
<1> QED BY <1>1, <1>8, <1>9, <1>10, <1>11, TagsWritten

LEMMA TagRuleHolds ==
  ASSUME TablesInv, NEW a \in Admins, TagRule(a)
  PROVE  TablesInv'
<1> DEFINE c == call[a]
           row == [rule |-> c.rule, tag |-> c.id, deleted |-> 0]
           t == [db EXCEPT !.ruleTag = Append(@, row)]
           names == c.todo \ {c.label}
           v == Naming(c, names)
           next == Tagging(a, names)
<1>1. WriteTags(a, t, UniqueTagged(t), next) /\ c.at = "tagRule" /\ AtTagCall(c)
  BY DEF TagRule, AtTagCall
<1>2. Shaped(c) /\ Formed(c) /\ Fits(c) /\ db \in Tables /\ calls \in Nat
  BY <1>1, TagCallFacts
<1>3. c.op = "save" /\ c.rule \in Rules /\ names \in SUBSET Labels /\ c.id \in Nat
  BY <1>1, <1>2 DEF Fits, Formed
<1>4. row \in TieRow /\ row.rule = c.rule /\ row.tag = c.id /\ row.deleted = 0
  BY <1>3, RouteTablesAssumption DEF TieRow, Stamps
<1> HIDE DEF row
<1>5. TieAdded(db, t, Len(db.ruleTag) + 1, row)
  BY <1>2, <1>4, TieAppended
<1> HIDE DEF t
<1>6. /\ Follows(c, next) /\ next.at \in {"findTag", "rebuild"}
      /\ \A n \in Nat : \A s, tagged : TagsHold(v, s, n, tagged) => TagsHold(next, s, n, tagged)
  BY <1>3, TaggingHolds
<1>7. Kin(c, v) /\ v.at = "findTag" /\ v.todo = names /\ v.id = c.id
  BY <1>2, Virtual
<1> HIDE DEF v, next
<1>8. TagsHold(c, db, calls, history.tagged) => TagsHold(v, t, calls, history.tagged)
  BY <1>1, <1>2, <1>3, <1>4, <1>5, <1>7, TieNew DEF Kin
<1>9. TagsHold(c, db, calls, history.tagged)
        => UniqueTagged(t) /\ TagsHold(next, t, calls, history.tagged)
  <2> HIDE DEF c
  <2>1. TagsHold(v, t, calls, history.tagged) => TagsHold(next, t, calls, history.tagged)
    BY <1>2, <1>6
  <2>2. TagsHold(next, t, calls, history.tagged) => UniqueTagged(t)
    BY ApartUnique DEF TagsHold
  <2> QED BY <1>8, <2>1, <2>2
<1>10. SameButTags(db, t)
  BY <1>5 DEF TieAdded
<1>11. ~AtGraph(next)
  BY <1>6 DEF AtGraph
<1> QED BY <1>1, <1>6, <1>9, <1>10, <1>11, TagsWritten

\* A handler that changes the names the rules have.
LEMMA TagsRetold ==
  ASSUME TablesInv, NEW a \in Admins, AtTagCall(call[a]), Goes(a, Idle), SameButTags(db, db'),
         served' = served, calls' = calls, failures' = failures, NEW told,
         history' = [history EXCEPT !.tagged = told], told = [r \in Rules |-> told[r]],
         TagsHold(call[a], db, calls, history.tagged) => TagsHold(Idle, db', calls, told)
  PROVE  TablesInv'
<1>1. /\ HistoryOK(history') /\ history'.culprit = history.culprit
      /\ history'.raced = history.raced /\ history'.tagged = told
  BY NothingChanges DEF HistoryOK, Noted
<1>2. Holds(call[a], db, failures, history, calls)
        => Holds(Idle, db', failures', history', calls)
  <2>1. TagsHold(call[a], db, calls, history.tagged)
          => TagsHold(Idle, db', calls, history'.tagged)
    BY <1>1
  <2>2. ASSUME Holds(call[a], db, failures, history, calls)
        PROVE  Holds(Idle, db', failures, history', calls)
    BY <1>1, <2>1, <2>2, TagCallFacts, HoldsInTags, IdleShape, IdleAside
  <2> QED BY <2>2
<1>3. Follows(call[a], Idle) /\ Listed(Idle, db')
  BY IdleShape DEF Follows, Listed
<1>4. db' \in Tables /\ RowsStay(db, db')
  BY DEF SameButTags, RowsStay, SameRow
<1> QED BY <1>1, <1>2, <1>3, <1>4, NothingChanges, TagCallFacts, GoingOn

LEMMA RenameTagHolds ==
  ASSUME TablesInv, NEW a \in Admins, RenameTag(a)
  PROVE  TablesInv'
<1> DEFINE c == call[a]
           row == [db.tag[c.id] EXCEPT !.name = c.label]
           t == [db EXCEPT !.tag[c.id] = row]
           told == [r \in Rules |->
             IF LiveTag(db, c.id) /\ db.tag[c.id].name \in history.tagged[r]
             THEN (history.tagged[r] \ {db.tag[c.id].name}) \cup {c.label}
             ELSE history.tagged[r]]
<1>1. /\ c.at = "rename" /\ AtTagCall(c) /\ served' = served /\ calls' = calls
      /\ failures' = failures
  BY DEF RenameTag, AtTagCall
<1>2. /\ Fits(c) /\ db \in Tables /\ calls \in Nat /\ db.tag \in Seq(TagRow) /\ c.op = "rename"
      /\ c.label \in Labels
  BY <1>1, TagCallFacts DEF Fits
<1>3. c.id \in DOMAIN db.tag => /\ row \in TagRow /\ row.name = c.label
                                /\ row.deleted = db.tag[c.id].deleted
  <2>1. c.id \in DOMAIN db.tag => db.tag[c.id] \in TagRow
    BY <1>2
  <2> QED BY <1>2, <2>1 DEF TagRow
<1>4. IF UniqueTags(t)
      THEN db' = t /\ Goes(a, Idle) /\ history' = [history EXCEPT !.tagged = told]
      ELSE AnswerError(a) /\ db' = db
  <2>1. c.id \in ActiveTags <=> LiveTag(db, c.id)
    BY ActiveTagsLive
  <2> QED BY <2>1 DEF RenameTag, Goes
<1>5. TagChanged(db, t, c.id, row)
  BY <1>2, <1>3, TagRow1
<1> HIDE DEF row, t
<1>6. TagsHold(c, db, calls, history.tagged) => TagsHold(Idle, t, calls, told)
  <2> SUFFICES ASSUME TagsHold(c, db, calls, history.tagged)
               PROVE  TagsHold(Idle, t, calls, told)
    OBVIOUS
  <2>1. c.id \in DOMAIN db.tag
    BY <1>2 DEF TagsHold, TaggingOK
  <2> QED BY <1>1, <1>2, <1>3, <1>5, <2>1, TagRenamed
<1>7. SameButTags(db, t) /\ told = [r \in Rules |-> told[r]]
  BY <1>5 DEF TagChanged
<1> HIDE DEF told
<1>8. CASE UniqueTags(t)
  BY <1>1, <1>4, <1>6, <1>7, <1>8, TagsRetold
<1>9. CASE ~UniqueTags(t)
  <2>1. ~TagsHold(c, db, calls, history.tagged)
    BY <1>6, <1>9, ApartUnique DEF TagsHold
  <2>2. Holds(c, db, failures, history, calls) => Holds(Idle, db, failures, history, calls)
    BY <1>1, <2>1, TagCallFacts, HoldsInTags, IdleShape, IdleAside
  <2> QED BY <1>1, <1>4, <1>9, <2>2, TagCallFacts, NothingChanges, RefusedHolds
<1> QED BY <1>8, <1>9

LEMMA DropTagHolds ==
  ASSUME TablesInv, NEW a \in Admins, DropTag(a)
  PROVE  TablesInv'
<1> DEFINE c == call[a]
           row == [db.tag[c.id] EXCEPT !.deleted = c.tag]
           t == [db EXCEPT !.tag[c.id] = row]
           told == [r \in Rules |->
             IF LiveTag(db, c.id) THEN history.tagged[r] \ {db.tag[c.id].name}
             ELSE history.tagged[r]]
<1>1. /\ c.at = "dropTag" /\ AtTagCall(c) /\ served' = served /\ calls' = calls
      /\ failures' = failures
  BY DEF DropTag, AtTagCall
<1>2. /\ Fits(c) /\ db \in Tables /\ calls \in Nat /\ db.tag \in Seq(TagRow) /\ c.op = "dropTag"
      /\ c.tag \in Stamps /\ c.tag # 0 /\ c.tag <= calls
  BY <1>1, TagCallFacts DEF Fits
<1>3. c.id \in DOMAIN db.tag => /\ row \in TagRow /\ row.name = db.tag[c.id].name
                                /\ row.deleted = c.tag
  <2>1. c.id \in DOMAIN db.tag => db.tag[c.id] \in TagRow
    BY <1>2
  <2> QED BY <1>2, <2>1 DEF TagRow
<1>4. db' = t /\ Goes(a, Idle) /\ history' = [history EXCEPT !.tagged = told]
  <2>1. c.id \in ActiveTags <=> LiveTag(db, c.id)
    BY ActiveTagsLive
  <2> QED BY <2>1 DEF DropTag, Goes
<1>5. TagChanged(db, t, c.id, row)
  BY <1>2, <1>3, TagRow1
<1> HIDE DEF row, t
<1>6. TagsHold(c, db, calls, history.tagged) => TagsHold(Idle, t, calls, told)
  <2> SUFFICES ASSUME TagsHold(c, db, calls, history.tagged)
               PROVE  TagsHold(Idle, t, calls, told)
    OBVIOUS
  <2>1. c.id \in DOMAIN db.tag
    BY <1>2 DEF TagsHold, TaggingOK
  <2> QED BY <1>1, <1>2, <1>3, <1>5, <2>1, TagDropped
<1>7. SameButTags(db, t) /\ told = [r \in Rules |-> told[r]]
  BY <1>5 DEF TagChanged
<1> HIDE DEF told
<1> QED BY <1>1, <1>4, <1>6, <1>7, TagsRetold

LEMMA TagCallHolds ==
  ASSUME TablesInv, NEW a \in Admins, TagCall(a)
  PROVE  TablesInv'
BY TagBeginHolds, CheckNameHolds, ListTiesHolds, UntagHolds, FindTagHolds, NewTagHolds,
   TagRuleHolds, RenameTagHolds, DropTagHolds DEF TagCall

-----------------------------------------------------------------------------
(***************************************************************************)
(* All steps.                                                              *)
(***************************************************************************)
LEMMA TablesStart == Init => TablesInv
<1> SUFFICES ASSUME Init PROVE TablesInv
  OBVIOUS
<1>1. /\ db \in Tables /\ db \in FirstTables /\ served = Graph(db)
      /\ call = [a \in Admins |-> Idle] /\ calls = 0 /\ failures = 0
      /\ history = [writer |-> 0, told |-> FALSE, raced |-> FALSE, culprit |-> FALSE,
                    tagged |-> [r \in Rules |-> {}]]
  BY RouteTablesAssumption DEF Init
<1>2. /\ db.rel \subseteq RelRow /\ db.tag \in Seq(TagRow) /\ db.ruleTag \in Seq(TieRow)
      /\ Relations(db) = Graph(db).rels /\ UpRows(db) = Graph(db).ups
      /\ NodeRows(db) = Graph(db).nodes
  BY <1>1, TableTypes DEF Graph
<1>3. RouteTablesTypeOK
  <2>1. HistoryOK(history)
    BY <1>1 DEF HistoryOK, Noted
  <2>2. served.rels \subseteq RelRow
    BY <1>1, <1>2 DEF Relations
  <2> QED BY <1>1, <2>1, <2>2, IdleOK, RouteTablesAssumption DEF RouteTablesTypeOK
<1>4. Holds(Idle, db, failures, history, calls)
  <2>1. RulesHold(Idle, db)
    BY <1>1, IdleShape, FirstTablesAssumption DEF RulesHold
  <2>2. GraphHolds(Idle, db, calls)
    <3>1. \A x \in db.rel : x.by = 0 /\ x.deleted = 0
      BY <1>1, FirstTablesAssumption
    <3>2. RowsApart(db, calls)
      <4>1. \A x, y \in db.rel : x.up = y.up /\ x.node = y.node /\ x.by = y.by
                                   /\ x.deleted = y.deleted => x = y
        BY <1>2 DEF RelRow
      <4> QED BY <1>1, <3>1, <4>1 DEF RowsApart, SameRow
    <3>3. GraphOK(db, Spared(Idle))
      <4>1. ValidateGraph(Graph(db)) /\ \A u \in Upstreams : db.up[u].deleted = 0
        BY <1>1, FirstTablesAssumption
      <4>2. \A x \in Relations(db) : ActiveUp(db, x.up) /\ ActiveNode(db, x.node)
        BY <1>2, <4>1 DEF ValidateGraph, UpRows, NodeRows
      <4>3. \A u \in Upstreams : Complete(db, u) /\ Restorable(db, u)
        BY <1>2, <4>1 DEF ValidateGraph, UpRows, Complete, Restorable
      <4> QED BY <4>2, <4>3 DEF GraphOK
    <3>4. ChecksHold(Idle, db) /\ ReplacingOK(Idle, db)
      BY IdleShape DEF ChecksHold, ReplacingOK
    <3> QED BY <3>2, <3>3, <3>4 DEF GraphHolds
  <2>3. TagsHold(Idle, db, calls, history.tagged)
    <3>1. /\ \A i, j \in DOMAIN db.tag : db.tag[i].name = db.tag[j].name => i = j
          /\ \A i \in DOMAIN db.tag : db.tag[i].deleted = 0
          /\ DOMAIN db.ruleTag = {}
      BY <1>1, FirstTablesAssumption
    <3>2. TagRowsApart(db, calls)
      BY <1>1, <3>1 DEF TagRowsApart
    <3>3. NamesHold(Idle, db, history.tagged)
      BY <1>1, <3>1 DEF NamesHold, Shows
    <3>4. TaggingOK(Idle, db, history.tagged)
      BY IdleShape DEF TaggingOK, GivesTags
    <3> QED BY <3>2, <3>3, <3>4 DEF TagsHold
  <2> QED BY <2>1, <2>2, <2>3 DEF Holds
<1>5. \A a \in Admins : call[a].at = "idle"
  BY <1>1, IdleShape
<1> QED BY <1>3, <1>4, <1>5 DEF TablesInv

LEMMA TablesStep == TablesInv /\ [Next]_vars => TablesInv'
<1> SUFFICES ASSUME TablesInv, [Next]_vars PROVE TablesInv'
  OBVIOUS
<1>1. ASSUME NEW a \in Admins,
             NodeCall(a) \/ RuleCall(a) \/ TagCall(a) \/ UpstreamCall(a) \/ Rebuild(a) \/ Fail(a)
      PROVE  TablesInv'
  BY <1>1, NodeCallHolds, RuleCallHolds, TagCallHolds, UpstreamCallHolds, RebuildHolds,
     FailHolds
<1>2. CASE UNCHANGED vars
  BY <1>2 DEF vars, TablesInv, RouteTablesTypeOK, Quiet, Alone
<1> QED BY <1>1, <1>2 DEF Next

LEMMA TablesMeaning == TablesInv => TablesHold
<1> SUFFICES ASSUME TablesInv, Quiet, ~history.raced
             PROVE  /\ \A r \in Rules : ActiveRule(db, r) => ActiveUp(db, db.rule[r].up)
                    /\ failures = 0 /\ ~history.culprit => ValidateGraph(Graph(db))
                    /\ failures = 0 => \A r \in Rules : TagNames(r) = history.tagged[r]
  BY DEF TablesHold
<1>1. Holds(Idle, db, failures, history, calls) /\ db \in Tables
  BY DEF TablesInv, RouteTablesTypeOK
<1>2. \A r \in Rules : ActiveRule(db, r) => ActiveUp(db, db.rule[r].up)
  BY <1>1 DEF Holds, RulesHold
<1>3. ASSUME failures = 0, ~history.culprit
      PROVE  ValidateGraph(Graph(db))
  <2>1. GraphOK(db, {}) /\ db.rel \subseteq RelRow /\ db.rule \in RuleTable
    BY <1>1, <1>3, IdleShape, TableTypes DEF Holds, GraphHolds, Spared, Replacing
  <2>2. /\ Graph(db).rels = Relations(db) /\ Graph(db).ups = UpRows(db)
        /\ Graph(db).nodes = NodeRows(db) /\ Graph(db).rules = RuleRows(db)
    BY DEF Graph
  <2>3. \A x \in Relations(db) : x.up \in UpRows(db) /\ \E k \in NodeRows(db) : k.node = x.node
    <3>1. \A x \in Relations(db) : x.up \in Upstreams /\ x.node \in Nodes
      BY <2>1 DEF Relations, RelRow
    <3>2. \A x \in Relations(db) : [node |-> x.node, url |-> db.node[x.node].url] \in NodeRows(db)
      BY <2>1, <3>1 DEF GraphOK, NodeRows
    <3> QED BY <2>1, <3>1, <3>2 DEF GraphOK, UpRows
  <2>4. \A u \in UpRows(db) : \E x \in Relations(db) : x.up = u
    BY <2>1 DEF GraphOK, UpRows, Complete
  <2>5. \A k \in RuleRows(db) : k.up \in UpRows(db)
    BY <1>2, <2>1 DEF RuleRows, UpRows, RuleTable, ActiveRule
  <2> QED BY <2>2, <2>3, <2>4, <2>5 DEF ValidateGraph
<1>4. ASSUME failures = 0, NEW r \in Rules
      PROVE  TagNames(r) = history.tagged[r]
  <2>1. TagsHold(Idle, db, calls, history.tagged)
    BY <1>1, <1>4 DEF Holds
  <2>2. \A name : Shows(db, r, name) <=> name \in history.tagged[r]
    BY <2>1, IdleShape DEF TagsHold, NamesHold, GivesTags, TakesTag
  <2>3. \A name : name \in TagNames(r) <=> Shows(db, r, name)
    BY DEF TagNames, ActiveTags, Tagged, Shows, LiveTag, LiveTie
  <2>4. \A name : name \in TagNames(r) <=> name \in history.tagged[r]
    BY <2>2, <2>3
  <2> QED BY <2>4
<1> QED BY <1>2, <1>3, <1>4

\* Without overlapping calls the tables stay valid and the rules keep their
\* upstreams and their tags, for every number of rows and calls and for both
\* kinds of unique indexes, whichever statements fail, as far as TablesHold says
\* (the checks and the order of the writes in src/plugins/dispatch/admin.go).
THEOREM TablesAlwaysHold == Spec => []TablesHold
<1>1. Init => TablesInv
  BY TablesStart
<1>2. TablesInv /\ [Next]_vars => TablesInv'
  BY TablesStep
<1>3. TablesInv => TablesHold
  BY TablesMeaning
<1> QED BY <1>1, <1>2, <1>3, PTL DEF Spec

\* The same with requests on the way.
THEOREM TablesHoldInTraffic == TrafficSpec => []TablesHold
BY TrafficImplementsRouteTables, TablesAlwaysHold, PTL

-----------------------------------------------------------------------------
(***************************************************************************)
(* Sums over the subsets of a finite set.                                  *)
(***************************************************************************)
LEMMA LeastOne ==
  ASSUME NEW S \in SUBSET Nat, S # {}
  PROVE  \E n \in S : \A m \in S : n <= m
<1>1. PICK n \in S : \A m \in S : ~ (<<m, n>> \in OpToRel(<, Nat))
  BY NatLessThanWellFounded, WFMin, Zenon
<1>2. ASSUME NEW m \in S, m < n
      PROVE  FALSE
  <2>1. <<m, n>> \in Nat \X Nat /\ <<m, n>>[1] < <<m, n>>[2]
    BY <1>2
  <2>2. <<m, n>> \in OpToRel(<, Nat)
    BY <2>1, Zenon DEF OpToRel
  <2> QED BY <1>1, <2>2, Zenon
<1> QED BY <1>2

LEMMA SmallerFirst ==
  ASSUME NEW S, IsFiniteSet(S), NEW Bad \in SUBSET SUBSET S, Bad # {}
  PROVE  \E s \in Bad : \A t \in SUBSET S : Cardinality(t) < Cardinality(s) => t \notin Bad
<1> DEFINE sizes == {Cardinality(s) : s \in Bad}
<1>1. \A s \in SUBSET S : Cardinality(s) \in Nat
  BY FS_Subset, FS_CardinalityType
<1>2. sizes \in SUBSET Nat /\ sizes # {}
  BY <1>1
<1>3. PICK n \in sizes : \A m \in sizes : n <= m
  BY <1>2, LeastOne
<1>4. PICK s \in Bad : n = Cardinality(s)
  BY <1>3
<1>5. \A t \in Bad : Cardinality(s) <= Cardinality(t)
  BY <1>3, <1>4
<1>6. \A t \in SUBSET S : Cardinality(t) < Cardinality(s) => t \notin Bad
  BY <1>1, <1>5
<1> QED BY <1>6

LEMMA LessOne ==
  ASSUME NEW S, IsFiniteSet(S), NEW s \in SUBSET S, NEW x \in s
  PROVE  Cardinality(s \ {x}) \in Nat /\ Cardinality(s) = Cardinality(s \ {x}) + 1
BY FS_Subset, FS_CardinalityType, FS_RemoveElement

\* g sums v over every subset of S, in any order.
Sums(g, v, S) ==
  /\ g \in [SUBSET S -> Int]
  /\ g[{}] = 0
  /\ \A s \in SUBSET S : \A x \in s : g[s] = v[x] + g[s \ {x}]

\* g sums v over every subset of S, in the order of MapThenFoldSet.
Folded(g, v, S) ==
  g = [s \in SUBSET S |->
         IF s = {} THEN 0
         ELSE LET x == CHOOSE x \in s : TRUE IN v[x] + g[s \ {x}]]

LEMMA SumsTogether ==
  ASSUME NEW S, IsFiniteSet(S), NEW v, \A x \in S : v[x] \in Int, NEW g, Sums(g, v, S),
         NEW A \in SUBSET S, NEW B \in SUBSET S, A \cap B = {}
  PROVE  g[A \cup B] = g[A] + g[B]
<1> DEFINE Bad == {a \in SUBSET A : g[a \cup B] # g[a] + g[B]}
<1>1. \A a \in SUBSET A : a \in Bad <=> g[a \cup B] # g[a] + g[B]
  OBVIOUS
<1>2. Bad \in SUBSET SUBSET A /\ IsFiniteSet(A)
  BY FS_Subset
<1>3. SUFFICES ASSUME Bad # {} PROVE FALSE
  BY <1>1
<1> HIDE DEF Bad
<1>4. PICK a \in Bad : \A t \in SUBSET A : Cardinality(t) < Cardinality(a) => t \notin Bad
  BY <1>2, <1>3, SmallerFirst
<1>5. a \in SUBSET A /\ a \in SUBSET S
  BY <1>2
<1>6. \A s \in SUBSET S : g[s] \in Int
  BY DEF Sums
<1>7. a # {}
  <2>1. g[{} \cup B] = g[{}] + g[B]
    BY <1>6 DEF Sums
  <2> QED BY <1>1, <1>4, <1>5, <2>1
<1>8. PICK x \in a : TRUE
  BY <1>7
<1>9. a \ {x} \in SUBSET A /\ a \ {x} \notin Bad
  BY <1>2, <1>4, <1>5, LessOne
<1>10. g[(a \ {x}) \cup B] = g[a \ {x}] + g[B]
  BY <1>1, <1>9
<1>11. (a \cup B) \ {x} = (a \ {x}) \cup B /\ x \in a \cup B /\ a \cup B \in SUBSET S
  BY <1>5
<1>12. g[a \cup B] = v[x] + g[(a \ {x}) \cup B] /\ g[a] = v[x] + g[a \ {x}]
  BY <1>5, <1>11 DEF Sums
<1>13. v[x] \in Int /\ g[a \ {x}] \in Int /\ g[B] \in Int
  BY <1>5, <1>6
<1> QED BY <1>1, <1>4, <1>5, <1>10, <1>12, <1>13

LEMMA SumsBounded ==
  ASSUME NEW S, IsFiniteSet(S), NEW v, \A x \in S : v[x] \in Int, NEW g, Sums(g, v, S),
         NEW T \in SUBSET S, NEW b \in Int, \A x \in T : v[x] <= b
  PROVE  g[T] <= Cardinality(T) * b
<1> DEFINE Bad == {t \in SUBSET T : ~ (g[t] <= Cardinality(t) * b)}
<1>1. \A t \in SUBSET T : t \in Bad <=> ~ (g[t] <= Cardinality(t) * b)
  OBVIOUS
<1>2. Bad \in SUBSET SUBSET T /\ IsFiniteSet(T)
  BY FS_Subset
<1>3. SUFFICES ASSUME Bad # {} PROVE FALSE
  BY <1>1
<1> HIDE DEF Bad
<1>4. PICK s \in Bad : \A t \in SUBSET T : Cardinality(t) < Cardinality(s) => t \notin Bad
  BY <1>2, <1>3, SmallerFirst
<1>5. s \in SUBSET T /\ s \in SUBSET S
  BY <1>2
<1>6. s # {}
  <2>1. g[{}] = 0 /\ Cardinality({}) = 0
    BY FS_EmptySet DEF Sums
  <2> QED BY <1>1, <1>4, <1>5, <2>1
<1>7. PICK x \in s : TRUE
  BY <1>6
<1>8. /\ s \ {x} \in SUBSET T /\ s \ {x} \notin Bad /\ Cardinality(s \ {x}) \in Nat
      /\ Cardinality(s) = Cardinality(s \ {x}) + 1
  BY <1>2, <1>4, <1>5, LessOne
<1>9. g[s] = v[x] + g[s \ {x}] /\ v[x] \in Int /\ v[x] <= b /\ g[s \ {x}] \in Int
  BY <1>5 DEF Sums
<1>10. g[s \ {x}] <= Cardinality(s \ {x}) * b
  BY <1>1, <1>8
<1>11. \A n \in Nat : (n + 1) * b = n * b + b /\ n * b \in Int
  OBVIOUS
<1>12. g[s] <= Cardinality(s) * b
  BY <1>8, <1>9, <1>10, <1>11
<1> QED BY <1>1, <1>4, <1>5, <1>12

LEMMA SumsNatural ==
  ASSUME NEW S, IsFiniteSet(S), NEW v, \A x \in S : v[x] \in Nat, NEW g, Sums(g, v, S),
         NEW T \in SUBSET S
  PROVE  g[T] \in Nat
<1> DEFINE Bad == {t \in SUBSET T : g[t] \notin Nat}
<1>1. \A t \in SUBSET T : t \in Bad <=> g[t] \notin Nat
  OBVIOUS
<1>2. Bad \in SUBSET SUBSET T /\ IsFiniteSet(T)
  BY FS_Subset
<1>3. SUFFICES ASSUME Bad # {} PROVE FALSE
  BY <1>1
<1> HIDE DEF Bad
<1>4. PICK s \in Bad : \A t \in SUBSET T : Cardinality(t) < Cardinality(s) => t \notin Bad
  BY <1>2, <1>3, SmallerFirst
<1>5. s \in SUBSET T /\ s \in SUBSET S
  BY <1>2
<1>6. s # {}
  <2>1. g[{}] = 0
    BY DEF Sums
  <2>2. g[s] \notin Nat
    BY <1>1, <1>4, <1>5
  <2>3. ASSUME s = {} PROVE FALSE
    <3>1. g[s] = 0
      BY <2>1, <2>3
    <3> QED BY <2>2, <3>1
  <2> QED BY <2>3
<1>7. PICK x \in s : TRUE
  BY <1>6
<1>8. s \ {x} \in SUBSET T /\ g[s \ {x}] \in Nat
  BY <1>1, <1>2, <1>4, <1>5, LessOne
<1>9. g[s] = v[x] + g[s \ {x}] /\ v[x] \in Nat
  BY <1>5 DEF Sums
<1> QED BY <1>1, <1>4, <1>5, <1>8, <1>9

LEMMA FoldedSums ==
  ASSUME NEW S, IsFiniteSet(S), NEW v, \A x \in S : v[x] \in Int, NEW g, Folded(g, v, S)
  PROVE  Sums(g, v, S)
<1> DEFINE c(s) == CHOOSE x \in s : TRUE
<1>1. DOMAIN g = SUBSET S /\ g[{}] = 0
  BY DEF Folded
<1>2. \A s \in SUBSET S : s # {} => c(s) \in s /\ g[s] = v[c(s)] + g[s \ {c(s)}]
  BY DEF Folded
<1> HIDE DEF c
<1>3. \A s \in SUBSET S : g[s] \in Int
  <2> SUFFICES ASSUME NEW b \in SUBSET S, g[b] \notin Int PROVE FALSE
    OBVIOUS
  <2> DEFINE Bad == {s \in SUBSET S : g[s] \notin Int}
  <2>0. Bad \in SUBSET SUBSET S /\ Bad # {}
    OBVIOUS
  <2>a. \A s \in SUBSET S : s \in Bad <=> g[s] \notin Int
    OBVIOUS
  <2> HIDE DEF Bad
  <2>1. PICK s \in Bad : \A t \in SUBSET S : Cardinality(t) < Cardinality(s) => t \notin Bad
    BY <2>0, SmallerFirst
  <2>2. s # {} /\ s \in SUBSET S
    <3>1. s \in SUBSET S /\ g[s] \notin Int
      BY <2>0, <2>a, <2>1
    <3>2. ASSUME s = {} PROVE FALSE
      <4>1. g[s] = 0
        BY <1>1, <3>2
      <4> QED BY <3>1, <4>1
    <3> QED BY <3>1, <3>2
  <2>3. c(s) \in s /\ g[s] = v[c(s)] + g[s \ {c(s)}]
    BY <1>2, <2>2
  <2>4. Cardinality(s \ {c(s)}) < Cardinality(s)
    BY <2>2, <2>3, LessOne
  <2>5. g[s \ {c(s)}] \in Int
    BY <2>a, <2>1, <2>2, <2>4
  <2>6. v[c(s)] \in Int
    BY <2>2, <2>3
  <2> QED BY <2>a, <2>1, <2>2, <2>3, <2>5, <2>6
<1>4. \A s \in SUBSET S : \A x \in s : g[s] = v[x] + g[s \ {x}]
  <2> DEFINE Bad == {s \in SUBSET S : \E x \in s : g[s] # v[x] + g[s \ {x}]}
  <2> SUFFICES ASSUME Bad # {} PROVE FALSE
    OBVIOUS
  <2>0. Bad \in SUBSET SUBSET S
    OBVIOUS
  <2>a. \A s \in SUBSET S : s \in Bad <=> \E x \in s : g[s] # v[x] + g[s \ {x}]
    OBVIOUS
  <2> HIDE DEF Bad
  <2>1. PICK s \in Bad : \A t \in SUBSET S : Cardinality(t) < Cardinality(s) => t \notin Bad
    BY <2>0, SmallerFirst
  <2>3. s \in SUBSET S
    BY <2>0, <2>1
  <2>2. PICK x \in s : g[s] # v[x] + g[s \ {x}]
    BY <2>a, <2>1, <2>3
  <2> DEFINE y == c(s)
  <2>4. y \in s /\ g[s] = v[y] + g[s \ {y}] /\ x # y
    <3>1. s # {}
      BY <2>2
    <3> QED BY <1>2, <2>2, <2>3, <3>1
  <2> HIDE DEF y
  <2>5. Cardinality(s \ {y}) < Cardinality(s) /\ Cardinality(s \ {x}) < Cardinality(s)
    BY <2>2, <2>3, <2>4, LessOne
  <2>6. s \ {y} \notin Bad /\ s \ {x} \notin Bad
    BY <2>1, <2>3, <2>5
  <2>7. g[s \ {y}] = v[x] + g[(s \ {y}) \ {x}]
    BY <2>a, <2>2, <2>3, <2>4, <2>6
  <2>8. g[s \ {x}] = v[y] + g[(s \ {x}) \ {y}]
    BY <2>a, <2>2, <2>3, <2>4, <2>6
  <2>9. (s \ {y}) \ {x} = (s \ {x}) \ {y} /\ (s \ {x}) \ {y} \in SUBSET S
    BY <2>3
  <2>10. g[(s \ {x}) \ {y}] \in Int /\ v[x] \in Int /\ v[y] \in Int
    BY <1>3, <2>2, <2>3, <2>4, <2>9
  <2> DEFINE rest == g[(s \ {x}) \ {y}]
  <2>11. g[s \ {y}] = v[x] + rest /\ g[s \ {x}] = v[y] + rest
    BY <2>7, <2>8, <2>9
  <2>12. rest \in Int
    BY <2>10
  <2> HIDE DEF rest
  <2>13. g[s] = v[y] + (v[x] + rest)
    BY <2>4, <2>11
  <2>14. v[x] + g[s \ {x}] = v[x] + (v[y] + rest)
    BY <2>11
  <2>15. v[y] + (v[x] + rest) = v[x] + (v[y] + rest)
    BY <2>10, <2>12
  <2> QED BY <2>2, <2>13, <2>14, <2>15
<1>5. g \in [SUBSET S -> Int]
  <2>1. g = [s \in SUBSET S |-> g[s]]
    BY DEF Folded
  <2> QED BY <1>3, <2>1
<1> QED BY <1>1, <1>4, <1>5 DEF Sums

LEMMA FoldExists ==
  ASSUME NEW S, IsFiniteSet(S), NEW v
  PROVE  \E g : Folded(g, v, S)
<1> DEFINE c(s) == CHOOSE x \in s : TRUE
           D(n) == {s \in SUBSET S : Cardinality(s) <= n}
           H(n) == \E g : g = [s \in D(n) |-> IF s = {} THEN 0 ELSE v[c(s)] + g[s \ {c(s)}]]
           Bad == {n \in Nat : ~ H(n)}
<1>0. \A s \in SUBSET S : s # {} => c(s) \in s
  OBVIOUS
<1>1. \A s \in SUBSET S : IsFiniteSet(s) /\ Cardinality(s) \in Nat
  BY FS_Subset, FS_CardinalityType
<1>2. D(0) = {{}}
  <2>1. \A s \in D(0) : s = {}
    BY <1>1, FS_EmptySet
  <2>2. {} \in D(0)
    BY FS_EmptySet
  <2> QED BY <2>1, <2>2
<1> HIDE DEF c
<1>3. H(0)
  <2> DEFINE g == [s \in D(0) |-> 0]
  <2>1. g = [s \in D(0) |-> IF s = {} THEN 0 ELSE v[c(s)] + g[s \ {c(s)}]]
    BY <1>2
  <2> QED BY <2>1
<1>4. ASSUME NEW n \in Nat, H(n)
      PROVE  H(n + 1)
  <2>1. PICK g : g = [s \in D(n) |-> IF s = {} THEN 0 ELSE v[c(s)] + g[s \ {c(s)}]]
    BY <1>4
  <2> DEFINE h == [s \in D(n + 1) |-> IF s = {} THEN 0 ELSE v[c(s)] + g[s \ {c(s)}]]
  <2>2. D(n) \subseteq D(n + 1)
    BY <1>1
  <2>3. \A s \in D(n) : h[s] = g[s]
    BY <2>1, <2>2
  <2>4. \A s \in D(n + 1) : s # {} => s \ {c(s)} \in D(n)
    BY <1>0, <1>1, LessOne
  <2>5. h = [s \in D(n + 1) |-> IF s = {} THEN 0 ELSE v[c(s)] + h[s \ {c(s)}]]
    BY <2>3, <2>4
  <2> QED BY <2>5
<1>5. Bad = {}
  <2> SUFFICES ASSUME Bad # {} PROVE FALSE
    OBVIOUS
  <2> HIDE DEF H
  <2>0. \A n \in Nat : n \in Bad <=> ~ H(n)
    OBVIOUS
  <2>a. Bad \in SUBSET Nat
    OBVIOUS
  <2> HIDE DEF Bad
  <2>1. PICK n \in Bad : \A m \in Bad : n <= m
    BY <2>a, LeastOne
  <2>2. n \in Nat /\ n # 0
    BY <1>3, <2>0, <2>a, <2>1
  <2>3. n - 1 \in Nat /\ n - 1 \notin Bad /\ (n - 1) + 1 = n
    BY <2>1, <2>2
  <2>4. H(n - 1)
    BY <2>0, <2>3
  <2>5. H((n - 1) + 1)
    BY <1>4, <2>3, <2>4
  <2> QED BY <2>0, <2>1, <2>2, <2>3, <2>5
<1>6. Cardinality(S) \in Nat
  BY FS_CardinalityType
<1>7. H(Cardinality(S))
  <2> HIDE DEF H
  <2> QED BY <1>5, <1>6
<1>8. D(Cardinality(S)) = SUBSET S
  BY FS_Subset, <1>1, <1>6
<1> QED BY <1>7, <1>8 DEF Folded, c

LEMMA SumsAgree ==
  ASSUME NEW S, NEW T, IsFiniteSet(S), NEW v, NEW g, NEW h,
         Sums(g, v, S), Sums(h, v, T), NEW R, R \subseteq S, R \subseteq T
  PROVE  g[R] = h[R]
<1> DEFINE Bad == {s \in SUBSET R : g[s] # h[s]}
<1>1. \A s \in SUBSET R : s \in Bad <=> g[s] # h[s]
  OBVIOUS
<1>2. Bad \in SUBSET SUBSET R /\ IsFiniteSet(R)
  BY FS_Subset
<1>3. SUFFICES ASSUME Bad # {} PROVE FALSE
  BY <1>1
<1> HIDE DEF Bad
<1>4. PICK s \in Bad : \A t \in SUBSET R : Cardinality(t) < Cardinality(s) => t \notin Bad
  BY <1>2, <1>3, SmallerFirst
<1>5. s \in SUBSET R /\ s \in SUBSET S /\ s \in SUBSET T
  BY <1>2
<1>6. s # {}
  <2>1. g[{}] = h[{}]
    BY DEF Sums
  <2> QED BY <1>1, <1>4, <1>5, <2>1
<1>7. PICK x \in s : TRUE
  BY <1>6
<1>8. s \ {x} \in SUBSET R /\ g[s \ {x}] = h[s \ {x}]
  BY <1>1, <1>2, <1>4, <1>5, LessOne
<1>9. g[s] = v[x] + g[s \ {x}] /\ h[s] = v[x] + h[s \ {x}]
  BY <1>5 DEF Sums
<1> QED BY <1>1, <1>4, <1>5, <1>8, <1>9

LEMMA WeightSummed ==
  ASSUME NEW S, IsFiniteSet(S), \A n \in S : shape.weight[n] \in Int
  PROVE  \E g : Sums(g, shape.weight, S) /\ Weight(S) = g[S]
<1> DEFINE v == shape.weight
           P(iter) == iter = [s \in SUBSET S |-> IF s = {} THEN 0
                        ELSE LET x == CHOOSE x \in s : TRUE IN shape.weight[x] + iter[s \ {x}]]
<1>1. \A x \in S : v[x] \in Int
  OBVIOUS
<1>2. \A g : Folded(g, v, S) <=> P(g)
  BY DEF Folded
<1>3. Weight(S) = (CHOOSE iter : P(iter))[S]
  BY DEF Weight, MapThenSumSet, MapThenFoldSet, P
<1> HIDE DEF P, v
<1>4. PICK g : P(g)
  BY <1>1, <1>2, FoldExists
<1>5. P(CHOOSE iter : P(iter))
  BY <1>4
<1> QED BY <1>1, <1>2, <1>3, <1>5, FoldedSums DEF v

\* The weights of all subsets of a set of nodes.
LEMMA WeightSums ==
  ASSUME NEW S, IsFiniteSet(S), \A n \in S : shape.weight[n] \in Int
  PROVE  Sums([s \in SUBSET S |-> Weight(s)], shape.weight, S)
<1>1. PICK g : Sums(g, shape.weight, S)
  BY WeightSummed
<1>2. ASSUME NEW s \in SUBSET S
      PROVE  Weight(s) = g[s]
  <2>1. IsFiniteSet(s) /\ \A n \in s : shape.weight[n] \in Int
    BY FS_Subset
  <2>2. PICK h : Sums(h, shape.weight, s) /\ Weight(s) = h[s]
    BY <2>1, WeightSummed
  <2>3. h[s] = g[s]
    BY <1>1, <2>1, <2>2, SumsAgree
  <2> QED BY <2>2, <2>3
<1>3. g = [s \in SUBSET S |-> g[s]]
  BY <1>1 DEF Sums
<1>4. [s \in SUBSET S |-> Weight(s)] = g
  BY <1>2, <1>3
<1> QED BY <1>1, <1>4

LEMMA Cancel ==
  ASSUME NEW c \in Nat, NEW x \in Int, NEW y \in Int, (c + 1) * x <= (c + 1) * y
  PROVE  x <= y
OBVIOUS

LEMMA Multiply ==
  ASSUME NEW c \in Nat, NEW x \in Int, NEW y \in Int, x <= y
  PROVE  c * x <= c * y
OBVIOUS

LEMMA AheadMean ==
  ASSUME NEW k \in Nat, NEW c \in Nat, NEW W \in Nat, NEW M \in Int,
         NEW all \in Int, NEW in \in Int, NEW out \in Int, NEW b \in Int,
         NEW wb \in Int, NEW w \in Int,
         all = out + in,
         all + b <= W * ((k + 1) * (M - (k + 1))),
         out <= W * ((k - c) * (M - (k - c))),
         in + w <= c * (b + wb), wb <= W, w <= c * W
  PROVE  all + w <= W * (k * (M - k))
<1> DEFINE F == W * (k * (M - k))
           P == W * (M - 2 * k)
<1>1. F \in Int /\ P \in Int
  OBVIOUS
<1>2. W * ((k + 1) * (M - (k + 1))) = F + P - W
  OBVIOUS
<1>3. W * ((k - c) * (M - (k - c))) = F - c * P - c * (c * W)
  OBVIOUS
<1>4. c * (all + b) <= c * (F + P - W)
  BY <1>1, <1>2, Multiply
<1>5. c * wb <= c * W /\ c * w <= c * (c * W)
  BY Multiply
<1>6. out <= F - c * P - c * (c * W)
  BY <1>3
<1> HIDE DEF F, P
<1>7. /\ c * (all + b) = c * all + c * b /\ c * (F + P - W) = c * F + c * P - c * W
      /\ c * (b + wb) = c * b + c * wb /\ c * (c * W) \in Int /\ c * P \in Int
      /\ c * all \in Int /\ c * b \in Int /\ c * F \in Int /\ c * W \in Int
      /\ c * wb \in Int /\ c * w \in Int
  BY <1>1
<1>8. c * all + c * w + all + w <= c * F + F
  BY <1>1, <1>4, <1>5, <1>6, <1>7
<1>9. (c + 1) * (all + w) = c * all + c * w + all + w /\ (c + 1) * F = c * F + F
  BY <1>1
<1>10. (c + 1) * (all + w) <= (c + 1) * F
  BY <1>8, <1>9
<1>11. all + w \in Int
  OBVIOUS
<1>12. all + w <= F
  BY <1>1, <1>10, <1>11, Cancel
<1> QED BY <1>12 DEF F

\* k of many nodes are together at most so far ahead, W is the weight of the
\* heaviest one.
Level(many) == IF many <= 2 THEN many ELSE 2 * many - 3
Lead(k, many, W) == W * (k * (Level(many) - k))

LEMMA LeadTyped ==
  ASSUME NEW k \in Nat, NEW many \in Nat, NEW W \in Nat
  PROVE  Lead(k, many, W) \in Int /\ Level(many) \in Nat /\ many <= Level(many)
BY DEF Lead, Level

LEMMA Product ==
  ASSUME NEW x \in Int, NEW y \in Int, x >= 0, y >= 0
  PROVE  x * y >= 0
OBVIOUS

LEMMA LeadNatural ==
  ASSUME NEW k \in Nat, NEW many \in Nat, NEW W \in Nat, k <= many
  PROVE  Lead(k, many, W) >= 0
<1>1. Level(many) - k >= 0 /\ Level(many) - k \in Int
  BY LeadTyped
<1>2. k * (Level(many) - k) >= 0 /\ k * (Level(many) - k) \in Int
  BY <1>1, Product
<1> QED BY <1>2, Product DEF Lead

LEMMA LeadGrows ==
  ASSUME NEW k \in Nat, NEW j \in Nat, NEW many \in Nat, NEW W \in Nat, j <= k, k < many
  PROVE  Lead(j, many, W) <= Lead(k, many, W)
<1> DEFINE L == Level(many)
<1>1. (L \in Nat /\ L - k - j >= 0) \/ j = k
  BY DEF Level
<1>2. CASE j = k
  BY <1>2, LeadTyped
<1>3. CASE L \in Nat /\ L - k - j >= 0
  <2> HIDE DEF L
  <2>1. (k - j) * (L - k - j) >= 0 /\ (k - j) * (L - k - j) \in Int
    BY <1>3, Product
  <2>2. k * (L - k) - j * (L - j) = (k - j) * (L - k - j)
    BY <1>3
  <2>3. k * (L - k) \in Int /\ j * (L - j) \in Int
    BY <1>3
  <2>4. j * (L - j) <= k * (L - k)
    BY <2>1, <2>2, <2>3
  <2> QED BY <2>3, <2>4, Multiply DEF Lead, L
<1> QED BY <1>1, <1>2, <1>3

\* A node at the far end catches up from one to the other.
LEMMA LeadsOfOne ==
  ASSUME NEW many \in Nat, many > 0, NEW W \in Nat
  PROVE  Lead(1, many, W) + Lead(many - 1, many, W) <= W * (many * (many - 1))
<1>1. CASE many <= 2
  <2>1. many = 1 \/ many = 2
    BY <1>1
  <2> QED BY <2>1 DEF Lead, Level
<1>2. CASE many > 2
  <2>1. Level(many) = 2 * many - 3
    BY <1>2 DEF Level
  <2>2. Lead(1, many, W) = W * (2 * many - 4)
    BY <2>1 DEF Lead
  <2>3. Lead(many - 1, many, W) = W * ((many - 1) * (many - 2))
    BY <2>1 DEF Lead
  <2>4. W * (2 * many - 4) + W * ((many - 1) * (many - 2))
          = W * ((2 * many - 4) + (many - 1) * (many - 2))
    OBVIOUS
  <2>5. (2 * many - 4) + (many - 1) * (many - 2) = many * (many - 1) - 2
    OBVIOUS
  <2>6. many * (many - 1) \in Int
    OBVIOUS
  <2> HIDE DEF Lead
  <2>7. W * (many * (many - 1) - 2) <= W * (many * (many - 1))
    BY <2>6, Multiply
  <2> QED BY <2>2, <2>3, <2>4, <2>5, <2>7
<1> QED BY <1>1, <1>2

\* The sums of what a cursor holds for the nodes K: they are 0 together, and no
\* group of them is further ahead than so many may be.
Leads(g, K, W) ==
  /\ g[K] = 0
  /\ \A s \in SUBSET K : g[s] <= Lead(Cardinality(s), Cardinality(K), W)

\* A turn of the nodes C, of which best pays for all.
Turn(x, y, w, sum, K, C, best) ==
  /\ C \in SUBSET K /\ best \in C
  /\ \A n \in K : y[n] = x[n] + (IF n \in C THEN w[n] ELSE 0)
                              - (IF n = best THEN sum[C] ELSE 0)
  /\ \/ \A n \in C : x[n] + w[n] <= 0
     \/ \A n \in C : x[n] + w[n] <= x[best] + w[best]

\* The sums after the turn.
Paid(g, sum, K, C, best) ==
  [s \in SUBSET K |-> g[s] + sum[s \cap C] - (IF best \in s THEN sum[C] ELSE 0)]

LEMMA TurnSums ==
  ASSUME NEW K, IsFiniteSet(K), NEW w, \A n \in K : w[n] \in Nat,
         NEW sum, Sums(sum, w, K), NEW x, \A n \in K : x[n] \in Int, NEW g, Sums(g, x, K),
         NEW C, NEW best, NEW y, Turn(x, y, w, sum, K, C, best)
  PROVE  Sums(Paid(g, sum, K, C, best), y, K)
<1> DEFINE h == Paid(g, sum, K, C, best)
<1>1. \A s \in SUBSET K : g[s] \in Int /\ sum[s] \in Int /\ sum[s \cap C] \in Int
  BY DEF Sums
<1>2. C \in SUBSET K /\ best \in C /\ sum[C] \in Int
  BY <1>1 DEF Turn
<1>a. /\ DOMAIN h = SUBSET K /\ h = [s \in SUBSET K |-> h[s]]
      /\ \A s \in SUBSET K :
           h[s] = g[s] + sum[s \cap C] - (IF best \in s THEN sum[C] ELSE 0)
  BY DEF Paid
<1> HIDE DEF h
<1>3. h \in [SUBSET K -> Int]
  <2>1. ASSUME NEW s \in SUBSET K
        PROVE  h[s] \in Int
    <3>1. h[s] = g[s] + sum[s \cap C] - sum[C] \/ h[s] = g[s] + sum[s \cap C] - 0
      BY <1>a
    <3> QED BY <1>1, <1>2, <3>1
  <2> QED BY <1>a, <2>1
<1>4. h[{}] = 0
  <2>1. {} \cap C = {} /\ {} \in SUBSET K /\ best \notin {}
    OBVIOUS
  <2>2. g[{}] = 0 /\ sum[{}] = 0
    BY DEF Sums
  <2>3. h[{}] = g[{}] + sum[{} \cap C] - 0
    BY <1>a, <2>1
  <2> QED BY <2>1, <2>2, <2>3
<1>5. ASSUME NEW s \in SUBSET K, NEW n \in s
      PROVE  h[s] = y[n] + h[s \ {n}]
  <2> DEFINE t == s \ {n}
  <2>1. t \in SUBSET K /\ n \in K
    OBVIOUS
  <2>2. g[s] = x[n] + g[t]
    BY DEF Sums
  <2>3. sum[s \cap C] = (IF n \in C THEN w[n] ELSE 0) + sum[t \cap C]
    <3>1. CASE n \in C
      <4>1. s \cap C \in SUBSET K /\ n \in s \cap C /\ (s \cap C) \ {n} = t \cap C
        BY <3>1
      <4>2. sum[s \cap C] = w[n] + sum[(s \cap C) \ {n}]
        BY <4>1 DEF Sums
      <4> QED BY <3>1, <4>1, <4>2
    <3>2. CASE n \notin C
      <4>1. s \cap C = t \cap C
        BY <3>2
      <4>2. sum[t \cap C] \in Int
        BY <1>1, <2>1
      <4> HIDE DEF t
      <4> QED BY <3>2, <4>1, <4>2
    <3> QED BY <3>1, <3>2
  <2>4. y[n] = x[n] + (IF n \in C THEN w[n] ELSE 0) - (IF n = best THEN sum[C] ELSE 0)
    BY <2>1 DEF Turn
  <2>5. (IF best \in s THEN sum[C] ELSE 0)
          = (IF n = best THEN sum[C] ELSE 0) + (IF best \in t THEN sum[C] ELSE 0)
    BY <1>1, <1>2
  <2>6. /\ h[s] = g[s] + sum[s \cap C] - (IF best \in s THEN sum[C] ELSE 0)
        /\ h[t] = g[t] + sum[t \cap C] - (IF best \in t THEN sum[C] ELSE 0)
    BY <1>a, <2>1
  <2>7. g[t] \in Int /\ sum[t \cap C] \in Int /\ x[n] \in Int /\ w[n] \in Int /\ sum[C] \in Int
    BY <1>1, <1>2, <2>1
  <2> DEFINE p == IF n \in C THEN w[n] ELSE 0
             q == IF n = best THEN sum[C] ELSE 0
             r == IF best \in t THEN sum[C] ELSE 0
             o == IF best \in s THEN sum[C] ELSE 0
  <2>8. p \in Int /\ q \in Int /\ r \in Int /\ o = q + r
    BY <2>5, <2>7
  <2>9. /\ h[s] = x[n] + g[t] + (p + sum[t \cap C]) - o /\ h[t] = g[t] + sum[t \cap C] - r
        /\ y[n] = x[n] + p - q
    BY <2>2, <2>3, <2>4, <2>6
  <2> HIDE DEF t, p, q, r, o
  <2>10. h[s] = y[n] + h[t]
    BY <2>7, <2>8, <2>9
  <2> QED BY <2>10 DEF t
<1>6. Sums(h, y, K)
  BY <1>3, <1>4, <1>5 DEF Sums
<1> QED BY <1>6 DEF h

LEMMA SumsAdd ==
  ASSUME NEW K, NEW x, \A n \in K : x[n] \in Int, NEW w, \A n \in K : w[n] \in Int,
         NEW g, Sums(g, x, K), NEW h, Sums(h, w, K),
         NEW f, f = [t \in SUBSET K |-> g[t] + h[t]], NEW z, \A n \in K : z[n] = x[n] + w[n]
  PROVE  Sums(f, z, K)
<1>1. \A t \in SUBSET K : g[t] \in Int /\ h[t] \in Int /\ f[t] = g[t] + h[t]
  BY DEF Sums
<1>2. f \in [SUBSET K -> Int] /\ f[{}] = 0
  BY <1>1 DEF Sums
<1>3. ASSUME NEW s \in SUBSET K, NEW n \in s
      PROVE  f[s] = z[n] + f[s \ {n}]
  <2> DEFINE t == s \ {n}
  <2>1. t \in SUBSET K /\ n \in K
    OBVIOUS
  <2>2. g[s] = x[n] + g[t] /\ h[s] = w[n] + h[t]
    BY DEF Sums
  <2>3. z[n] = x[n] + w[n] /\ x[n] \in Int /\ w[n] \in Int
    BY <2>1
  <2> HIDE DEF t
  <2>4. f[s] = g[s] + h[s] /\ f[t] = g[t] + h[t] /\ g[t] \in Int /\ h[t] \in Int
    BY <1>1, <2>1
  <2>5. f[s] = z[n] + f[t]
    BY <2>2, <2>3, <2>4
  <2> QED BY <2>5 DEF t
<1> QED BY <1>2, <1>3 DEF Sums

LEMMA TurnLeads ==
  ASSUME NEW K, IsFiniteSet(K), NEW w, NEW W \in Nat,
         \A n \in K : w[n] \in Nat /\ w[n] <= W,
         NEW sum, Sums(sum, w, K), NEW x, \A n \in K : x[n] \in Int,
         NEW g, Sums(g, x, K), Leads(g, K, W),
         NEW C, NEW best, NEW y, Turn(x, y, w, sum, K, C, best)
  PROVE  \E h : Sums(h, y, K) /\ Leads(h, K, W)
<1> DEFINE h == Paid(g, sum, K, C, best)
           many == Cardinality(K)
<1>0. /\ \A n \in K : w[n] \in Nat
      /\ \A n \in K : w[n] \in Int
      /\ \A n \in K : w[n] <= W
  OBVIOUS
<1>1. Sums(h, y, K)
  <2> HIDE DEF h
  <2>1. Sums(Paid(g, sum, K, C, best), y, K)
    BY <1>0, TurnSums
  <2> QED BY <2>1 DEF h
<1>a. \A s \in SUBSET K : h[s] = g[s] + sum[s \cap C] - (IF best \in s THEN sum[C] ELSE 0)
  BY DEF Paid
<1> HIDE DEF h
<1>2. C \in SUBSET K /\ best \in C /\ best \in K
  BY DEF Turn
<1>3. /\ \A s \in SUBSET K : g[s] \in Int
      /\ \A s \in SUBSET K : sum[s] \in Nat
  <2>1. \A s \in SUBSET K : sum[s] \in Nat
    BY <1>0, SumsNatural
  <2> QED BY <2>1 DEF Sums
<1>4. many \in Nat /\ \A s \in SUBSET K : IsFiniteSet(s) /\ Cardinality(s) \in Nat
                                         /\ Cardinality(s) <= many
  BY FS_CardinalityType, FS_Subset
<1>5. h[K] = 0
  <2>1. K \cap C = C /\ K \in SUBSET K
    BY <1>2
  <2>2. g[K] = 0 /\ sum[C] \in Nat
    BY <1>2, <1>3 DEF Leads
  <2>3. h[K] = g[K] + sum[K \cap C] - sum[C]
    BY <1>2, <1>a, <2>1
  <2>4. sum[K \cap C] = sum[C]
    BY <2>1
  <2>5. h[K] = 0 + sum[C] - sum[C]
    BY <2>2, <2>3, <2>4
  <2> QED BY <2>2, <2>5
<1>6. ASSUME NEW s \in SUBSET K
      PROVE  h[s] <= Lead(Cardinality(s), many, W)
  <2> DEFINE in == s \cap C
             out == s \ C
             k == Cardinality(s)
             c == Cardinality(in)
  <2>1. g[s] <= Lead(k, many, W)
    BY DEF Leads
  <2>2. in \in SUBSET K /\ out \in SUBSET K /\ in \cap out = {} /\ in \cup out = s
    OBVIOUS
  <2>3. CASE best \in s
    <3>1. C = in \cup (C \ s) /\ in \cap (C \ s) = {} /\ C \ s \in SUBSET K
      BY <1>2
    <3>2. sum[C] = sum[in] + sum[C \ s]
      BY <1>0, <2>2, <3>1, SumsTogether
    <3>3. h[s] = g[s] + sum[in] - sum[C]
      BY <1>a, <2>3
    <3>4. Lead(k, many, W) \in Int
      BY <1>4, LeadTyped
    <3>5. sum[in] \in Nat /\ sum[C \ s] \in Nat /\ g[s] \in Int
      BY <1>3, <2>2, <3>1
    <3> HIDE DEF in, k, many
    <3>6. h[s] <= Lead(k, many, W)
      BY <2>1, <3>2, <3>3, <3>4, <3>5
    <3> QED BY <3>6 DEF k
  <2>4. CASE best \notin s
    <3>1. h[s] = g[s] + sum[in]
      <4>1. h[s] = g[s] + sum[in] - 0
        BY <1>a, <2>4
      <4>2. g[s] \in Int /\ sum[in] \in Nat
        BY <1>3, <2>2
      <4> HIDE DEF in
      <4> QED BY <4>1, <4>2
    <3>2. g[s] = g[out] + g[in]
      <4>1. g[out \cup in] = g[out] + g[in]
        BY <2>2, SumsTogether
      <4>2. out \cup in = s
        OBVIOUS
      <4> QED BY <4>1, <4>2
    <3>3. k \in Nat /\ c \in Nat /\ c <= k /\ Cardinality(out) = k - c /\ k < many
      <4>1. IsFiniteSet(s) /\ IsFiniteSet(in) /\ IsFiniteSet(out) /\ k \in Nat /\ c \in Nat
            /\ Cardinality(out) \in Nat
        BY <1>4, <2>2
      <4>2. out = s \ in /\ in \subseteq s
        OBVIOUS
      <4>3. Cardinality(out) = Cardinality(s) - Cardinality(in)
        BY <4>1, FS_Difference
      <4>4. s \cup {best} \in SUBSET K /\ Cardinality(s \cup {best}) = k + 1
        BY <1>2, <2>4, <4>1, FS_AddElement
      <4>5. k + 1 <= many
        BY <1>4, <4>4
      <4> QED BY <1>4, <4>1, <4>3, <4>5
    <3>4. sum[in] <= c * W
      BY <1>0, <2>2, SumsBounded
    <3>5. g[out] <= Lead(k - c, many, W)
      BY <2>2, <3>3 DEF Leads
    <3>6. CASE \A n \in C : x[n] + w[n] <= 0
      <4> DEFINE z == [n \in K |-> x[n] + w[n]]
                 f == [t \in SUBSET K |-> g[t] + sum[t]]
      <4>1. Sums(f, z, K)
        <5>1. f = [t \in SUBSET K |-> g[t] + sum[t]] /\ \A n \in K : z[n] = x[n] + w[n]
          OBVIOUS
        <5>2. \A n \in K : w[n] \in Int
          OBVIOUS
        <5> HIDE DEF f, z
        <5> QED BY <5>1, <5>2, SumsAdd
      <4>2. \A n \in K : z[n] \in Int
        OBVIOUS
      <4>3. \A n \in in : z[n] <= 0
        BY <1>2, <3>6
      <4>4. f[in] = g[in] + sum[in]
        BY <2>2
      <4> HIDE DEF f, z
      <4>5. f[in] <= c * 0
        BY <2>2, <4>1, <4>2, <4>3, SumsBounded
      <4>6. Lead(k - c, many, W) <= Lead(k, many, W)
        BY <1>4, <3>3, LeadGrows
      <4>7. Lead(k - c, many, W) \in Int /\ Lead(k, many, W) \in Int
        BY <1>4, <3>3, LeadTyped
      <4>8. g[in] \in Int /\ g[out] \in Int /\ sum[in] \in Int
        BY <1>3, <2>2
      <4> HIDE DEF in, out, k, many, c
      <4>9. f[in] <= 0
        BY <3>3, <4>5
      <4>10. h[s] <= Lead(k, many, W)
        BY <3>1, <3>2, <3>5, <4>4, <4>6, <4>7, <4>8, <4>9
      <4> QED BY <4>10 DEF k
    <3>7. CASE \A n \in C : x[n] + w[n] <= x[best] + w[best]
      <4> DEFINE z == [n \in K |-> x[n] + w[n]]
                 f == [t \in SUBSET K |-> g[t] + sum[t]]
      <4>1. Sums(f, z, K)
        <5>1. f = [t \in SUBSET K |-> g[t] + sum[t]] /\ \A n \in K : z[n] = x[n] + w[n]
          OBVIOUS
        <5>2. \A n \in K : w[n] \in Int
          OBVIOUS
        <5> HIDE DEF f, z
        <5> QED BY <5>1, <5>2, SumsAdd
      <4>2. \A n \in K : z[n] \in Int
        OBVIOUS
      <4>3. \A n \in in : z[n] <= x[best] + w[best]
        BY <1>2, <3>7
      <4>4. f[in] = g[in] + sum[in]
        BY <2>2
      <4>5. x[best] \in Int /\ w[best] \in Int /\ w[best] <= W /\ x[best] + w[best] \in Int
        BY <1>2
      <4> HIDE DEF f, z
      <4>6. f[in] <= c * (x[best] + w[best])
        BY <2>2, <4>1, <4>2, <4>3, <4>5, SumsBounded
      <4>7. g[s] + x[best] <= Lead(k + 1, many, W)
        <5>1. /\ s \cup {best} \in SUBSET K /\ best \in s \cup {best}
              /\ (s \cup {best}) \ {best} = s
          BY <1>2, <2>4
        <5>2. g[s \cup {best}] = x[best] + g[s]
          BY <5>1 DEF Sums
        <5>3. Cardinality(s \cup {best}) = k + 1
          BY <1>4, <2>4, FS_AddElement
        <5>4. g[s \cup {best}] <= Lead(k + 1, many, W)
          BY <5>1, <5>3 DEF Leads
        <5> QED BY <1>3, <4>5, <5>2, <5>4
      <4>8. g[in] \in Int /\ g[out] \in Int /\ sum[in] \in Int /\ g[s] \in Int
        BY <1>3, <2>2
      <4> DEFINE M == Level(many)
      <4>9. M \in Int
        BY <1>4, LeadTyped
      <4>10. /\ g[s] + x[best] <= W * ((k + 1) * (M - (k + 1)))
             /\ g[out] <= W * ((k - c) * (M - (k - c)))
             /\ Lead(k, many, W) = W * (k * (M - k))
        BY <3>5, <4>7 DEF Lead
      <4> HIDE DEF in, out, k, many, c, M
      <4>11. g[s] + sum[in] <= W * (k * (M - k))
        BY <3>2, <3>3, <3>4, <4>4, <4>5, <4>6, <4>8, <4>9, <4>10, AheadMean
      <4>12. h[s] <= Lead(k, many, W)
        BY <3>1, <4>10, <4>11
      <4> QED BY <4>12 DEF k
    <3> QED BY <3>6, <3>7 DEF Turn
  <2> QED BY <2>3, <2>4
<1> HIDE DEF many
<1>7. Leads(h, K, W)
  BY <1>5, <1>6 DEF Leads, many
<1> QED BY <1>1, <1>7

-----------------------------------------------------------------------------
(***************************************************************************)
(* The turns of the nodes.                                                 *)
(***************************************************************************)
LEMMA Greatest ==
  ASSUME NEW S, IsFiniteSet(S), S # {}, NEW v, \A x \in S : v[x] \in Int
  PROVE  \E x \in S : \A y \in S : v[y] <= v[x]
<1> DEFINE Bad == {t \in SUBSET S : t # {} /\ ~ \E x \in t : \A y \in t : v[y] <= v[x]}
<1>1. \A t \in SUBSET S :
        t \in Bad <=> t # {} /\ ~ \E x \in t : \A y \in t : v[y] <= v[x]
  OBVIOUS
<1>2. Bad \in SUBSET SUBSET S
  OBVIOUS
<1>3. SUFFICES ASSUME Bad # {} PROVE FALSE
  BY <1>1
<1> HIDE DEF Bad
<1>4. PICK s \in Bad : \A t \in SUBSET S : Cardinality(t) < Cardinality(s) => t \notin Bad
  BY <1>2, <1>3, SmallerFirst
<1>5. s \in SUBSET S /\ s # {}
  BY <1>1, <1>2
<1>6. PICK x \in s : TRUE
  BY <1>5
<1>7. s \ {x} \in SUBSET S /\ s \ {x} \notin Bad
  BY <1>4, <1>5, LessOne
<1>8. CASE s \ {x} = {}
  <2>1. \A y \in s : y = x
    BY <1>8
  <2> QED BY <1>1, <1>4, <1>5, <2>1
<1>9. CASE s \ {x} # {}
  <2>1. PICK z \in s \ {x} : \A y \in s \ {x} : v[y] <= v[z]
    BY <1>1, <1>7, <1>9
  <2>2. CASE v[x] <= v[z]
    <3>1. \A y \in s : v[y] <= v[z]
      BY <2>1, <2>2
    <3> QED BY <1>1, <1>4, <1>5, <2>1, <3>1
  <2>3. CASE ~ (v[x] <= v[z])
    <3>1. \A y \in s : v[y] <= v[x]
      BY <1>5, <2>1, <2>3
    <3> QED BY <1>1, <1>4, <1>5, <3>1
  <2> QED BY <2>2, <2>3
<1> QED BY <1>8, <1>9

LEMMA MinLeast ==
  ASSUME NEW S \in SUBSET Nat, S # {}
  PROVE  Min(S) \in S /\ \A y \in S : Min(S) <= y
<1>1. \E x \in S : \A y \in S : x <= y
  BY LeastOne
<1> QED BY <1>1 DEF Min

WeightsOK == shape.weight \in [Nodes -> Nat \ {0}]

LEMMA HeaviestOf ==
  ASSUME WeightsOK, NEW K \in SUBSET Nodes, K # {}
  PROVE  /\ Heaviest(K) \in Nat
         /\ \A n \in K : shape.weight[n] \in Nat /\ shape.weight[n] <= Heaviest(K)
<1>1. IsFiniteSet(K) /\ \A n \in K : shape.weight[n] \in Nat
  BY WeightsAssumption, FS_Subset DEF WeightsOK
<1>2. PICK x \in K : \A y \in K : shape.weight[y] <= shape.weight[x]
  BY <1>1, Greatest
<1> DEFINE all == {shape.weight[n] : n \in K}
<1>3. \E m \in all : \A k \in all : m >= k
  BY <1>1, <1>2
<1>4. Max(all) \in all /\ \A k \in all : Max(all) >= k
  BY <1>3 DEF Max
<1> QED BY <1>1, <1>4 DEF Heaviest

LEMMA WrrStepTurns ==
  ASSUME WeightsOK, NEW K \in SUBSET Nodes, NEW C \in SUBSET K, C # {},
         NEW x \in [Nodes -> Int]
  PROVE  /\ WrrStep(x, C).current \in [Nodes -> Int]
         /\ \A n \in Nodes \ K : WrrStep(x, C).current[n] = x[n]
         /\ Turn(x, WrrStep(x, C).current, shape.weight, [s \in SUBSET K |-> Weight(s)], K, C,
                 WrrStep(x, C).best)
<1> DEFINE w == shape.weight
           raised == [n \in Nodes |-> x[n] + IF n \in C THEN w[n] ELSE 0]
           ahead == {n \in C : raised[n] > 0 /\ \A m \in C : raised[m] <= raised[n]}
           first == IF ahead = {} THEN C ELSE ahead
           best == Min(first)
           y == [raised EXCEPT ![best] = @ - Weight(C)]
<1>1. WrrStep(x, C) = [best |-> best, current |-> y]
  BY DEF WrrStep
<1>2. /\ \A n \in Nodes : w[n] \in Nat
      /\ IsFiniteSet(K) /\ IsFiniteSet(C) /\ C \subseteq Nodes
  BY WeightsAssumption, FS_Subset DEF WeightsOK
<1>3. raised \in [Nodes -> Int] /\ \A n \in C : raised[n] = x[n] + w[n]
  <2>1. \A n \in Nodes : raised[n] \in Int
    BY <1>2
  <2> QED BY <1>2, <2>1
<1>4. Weight(C) \in Int
  <2>0. \A n \in K : shape.weight[n] \in Int
    BY <1>2
  <2>1. Sums([s \in SUBSET K |-> Weight(s)], w, K)
    BY <1>2, <2>0, WeightSums
  <2> QED BY <2>1 DEF Sums
<1>5. best \in C /\ (ahead # {} => best \in ahead)
  <2>1. first \subseteq C /\ first # {} /\ (ahead # {} => first = ahead)
    OBVIOUS
  <2> HIDE DEF first
  <2>2. first \in SUBSET Nat
    BY <1>2, <2>1, TrafficAssumption
  <2>3. best \in first
    BY <2>1, <2>2, MinLeast
  <2> QED BY <2>1, <2>3
<1>6. \/ \A n \in C : raised[n] <= 0
      \/ \A n \in C : raised[n] <= raised[best]
  <2>1. CASE ahead # {}
    BY <1>5, <2>1
  <2>2. CASE ahead = {}
    <3>1. \A n \in C : raised[n] \in Int
      BY <1>2, <1>3
    <3>2. PICK n \in C : \A m \in C : raised[m] <= raised[n]
      BY <1>2, <3>1, Greatest
    <3>3. ~ (raised[n] > 0)
      BY <2>2, <3>2
    <3>4. \A m \in C : raised[m] <= 0
      BY <3>1, <3>2, <3>3
    <3> QED BY <3>4
  <2> QED BY <2>1, <2>2
<1> HIDE DEF ahead, first, best
<1>7. y \in [Nodes -> Int]
  BY <1>2, <1>3, <1>4, <1>5
<1>8. \A n \in Nodes \ K : y[n] = x[n]
  <2>1. ASSUME NEW n \in Nodes \ K PROVE y[n] = x[n]
    <3>1. n # best /\ n \notin C /\ n \in Nodes
      BY <1>5
    <3>2. y[n] = raised[n]
      BY <3>1
    <3>3. raised[n] = x[n] + 0
      BY <3>1
    <3> QED BY <3>1, <3>2, <3>3
  <2> QED BY <2>1
<1>9. ASSUME NEW n \in K
      PROVE  y[n] = x[n] + (IF n \in C THEN w[n] ELSE 0) - (IF n = best THEN Weight(C) ELSE 0)
  <2>1. n \in Nodes /\ raised[n] = x[n] + (IF n \in C THEN w[n] ELSE 0) /\ raised[n] \in Int
    BY <1>3
  <2>2. n = best => y[n] = raised[n] - Weight(C)
    BY <2>1
  <2>3. n # best => y[n] = raised[n]
    BY <2>1
  <2> DEFINE p == IF n \in C THEN w[n] ELSE 0
  <2>4. raised[n] = x[n] + p /\ x[n] \in Int /\ p \in Int
    BY <1>2, <2>1
  <2> HIDE DEF y, raised, p
  <2>5. CASE n = best
    <3>1. y[n] = x[n] + p - Weight(C)
      BY <1>4, <2>2, <2>4, <2>5
    <3> QED BY <2>5, <3>1 DEF p
  <2>6. CASE n # best
    <3>1. y[n] = x[n] + p - 0
      BY <2>1, <2>3, <2>4, <2>6
    <3> QED BY <2>6, <3>1 DEF p
  <2> QED BY <2>5, <2>6
<1>10. C \in SUBSET K /\ [s \in SUBSET K |-> Weight(s)][C] = Weight(C)
  OBVIOUS
<1>11. Turn(x, y, w, [s \in SUBSET K |-> Weight(s)], K, C, best)
  <2> HIDE DEF y
  <2>1. \/ \A n \in C : x[n] + w[n] <= 0
        \/ \A n \in C : x[n] + w[n] <= x[best] + w[best]
    BY <1>3, <1>5, <1>6
  <2> QED BY <1>5, <1>9, <1>10, <2>1 DEF Turn
<1> HIDE DEF y, w
<1> QED BY <1>1, <1>7, <1>8, <1>11 DEF w

\* For the nodes of an upstream: what the cursor holds is 0 together, and
\* nobody is further ahead than so many nodes may be; and a node that has been
\* passed over has moved up by its weight each time.
Balanced(K, x, missed) ==
  /\ \E g : Sums(g, x, K) /\ Leads(g, K, Heaviest(K))
  /\ \A n \in K : missed[n] * shape.weight[n]
                    <= x[n] + Lead(Cardinality(K) - 1, Cardinality(K), Heaviest(K))

TurnsInv ==
  /\ \E s \in Scenes : setting = s.setting
  /\ cursor \in [Upstreams -> [Nodes -> Int]] /\ passed \in [Upstreams -> [Nodes -> Nat]]
  /\ \A u \in Upstreams : NodesOf(u) # {} => Balanced(NodesOf(u), cursor[u], passed[u])

LEMMA WeightsFixed == TurnsInv => WeightsOK
BY WeightsAssumption DEF TurnsInv, WeightsOK, shape

LEMMA NodesTyped ==
  ASSUME RouteTablesTypeOK
  PROVE  \A u \in Upstreams : NodesOf(u) \in SUBSET Nodes
BY DEF RouteTablesTypeOK, RelRow, NodesOf

LEMMA SizeTyped ==
  ASSUME NEW K \in SUBSET Nodes, K # {}
  PROVE  /\ IsFiniteSet(K) /\ Cardinality(K) \in Nat /\ Cardinality(K) > 0
         /\ \A n \in K : K \ {n} \in SUBSET K /\ Cardinality(K \ {n}) = Cardinality(K) - 1
<1>1. IsFiniteSet(K) /\ Cardinality(K) \in Nat
  BY WeightsAssumption, FS_Subset, FS_CardinalityType
<1>2. \A n \in K : K \ {n} \in SUBSET K /\ Cardinality(K \ {n}) \in Nat
                     /\ Cardinality(K) = Cardinality(K \ {n}) + 1
  BY <1>1, LessOne
<1>3. Cardinality(K) > 0
  <2>1. PICK n \in K : TRUE
    OBVIOUS
  <2>2. Cardinality(K \ {n}) \in Nat /\ Cardinality(K) = Cardinality(K \ {n}) + 1
    BY <1>2, <2>1
  <2> QED BY <2>2
<1>4. \A n \in K : Cardinality(K \ {n}) = Cardinality(K) - 1
  BY <1>1, <1>2
<1> QED BY <1>1, <1>2, <1>3, <1>4

LEMMA NobodyPassed ==
  ASSUME WeightsOK, NEW K \in SUBSET Nodes, K # {}
  PROVE  Balanced(K, [n \in Nodes |-> 0], [n \in Nodes |-> 0])
<1> DEFINE x == [n \in Nodes |-> 0]
           g == [s \in SUBSET K |-> 0]
           W == Heaviest(K)
<1>1. W \in Nat /\ \A n \in K : shape.weight[n] \in Nat
  BY HeaviestOf
<1> HIDE DEF W
<1>2. \A n \in K : x[n] = 0
  OBVIOUS
<1>3. Sums(g, x, K)
  BY <1>2 DEF Sums
<1>4. \A s \in SUBSET K : Cardinality(s) \in Nat /\ Cardinality(s) <= Cardinality(K)
  BY SizeTyped, FS_Subset, FS_CardinalityType
<1>5. \A s \in SUBSET K : Lead(Cardinality(s), Cardinality(K), W) >= 0
  BY <1>1, <1>4, SizeTyped, LeadNatural
<1>6. Leads(g, K, W)
  BY <1>5 DEF Leads
<1>7. ASSUME NEW n \in K
      PROVE  x[n] * shape.weight[n] <= x[n] + Lead(Cardinality(K) - 1, Cardinality(K), W)
  <2>1. Cardinality(K) - 1 \in Nat /\ Cardinality(K) - 1 <= Cardinality(K)
    BY SizeTyped
  <2>2. Lead(Cardinality(K) - 1, Cardinality(K), W) >= 0
    BY <1>1, <2>1, SizeTyped, LeadNatural
  <2>3. Lead(Cardinality(K) - 1, Cardinality(K), W) \in Int
    BY <1>1, <2>1, SizeTyped, LeadTyped
  <2>4. x[n] = 0 /\ 0 * shape.weight[n] = 0
    BY <1>1, <1>2
  <2> HIDE DEF x
  <2> QED BY <2>2, <2>3, <2>4
<1> HIDE DEF x, g
<1>8. Balanced(K, x, x)
  BY <1>3, <1>6, <1>7 DEF Balanced, W
<1> QED BY <1>8 DEF x

\* Who has been chosen is not far behind.
LEMMA LeadsOfRest ==
  ASSUME NEW K \in SUBSET Nodes, K # {}, NEW W \in Nat, NEW x, \A n \in K : x[n] \in Int,
         NEW g, Sums(g, x, K), Leads(g, K, W), NEW n \in K
  PROVE  /\ x[n] + Lead(Cardinality(K) - 1, Cardinality(K), W) >= 0
         /\ x[n] <= Lead(1, Cardinality(K), W)
<1> DEFINE many == Cardinality(K)
<1>1. many \in Nat /\ many - 1 \in Nat /\ K \ {n} \in SUBSET K /\ Cardinality(K \ {n}) = many - 1
  BY SizeTyped
<1>2. g[K] = x[n] + g[K \ {n}] /\ g[K] = 0 /\ g[K \ {n}] \in Int
  BY <1>1 DEF Sums, Leads
<1>3. g[K \ {n}] <= Lead(many - 1, many, W)
  BY <1>1 DEF Leads
<1>4. {n} \in SUBSET K /\ {n} \ {n} = {} /\ Cardinality({n}) = 1
  BY FS_Singleton
<1>5. g[{n}] = x[n] + g[{n} \ {n}] /\ g[{}] = 0
  BY <1>4 DEF Sums
<1>6. g[{n}] <= Lead(1, many, W)
  BY <1>4 DEF Leads
<1>7. Lead(many - 1, many, W) \in Int /\ Lead(1, many, W) \in Int
  BY <1>1, LeadTyped
<1>8. x[n] \in Int
  OBVIOUS
<1>9. g[{n}] = x[n]
  <2>1. g[{n} \ {n}] = 0
    BY <1>4, <1>5
  <2> QED BY <1>5, <1>8, <2>1
<1>10. x[n] + g[K \ {n}] = 0
  BY <1>2
<1> HIDE DEF many
<1>11. x[n] + Lead(many - 1, many, W) >= 0 /\ x[n] <= Lead(1, many, W)
  BY <1>2, <1>3, <1>6, <1>7, <1>8, <1>9, <1>10
<1> QED BY <1>11 DEF many

LEMMA TurnBalances ==
  ASSUME WeightsOK, NEW K \in SUBSET Nodes, NEW C \in SUBSET K, C # {},
         NEW x \in [Nodes -> Int], NEW missed \in [Nodes -> Nat], Balanced(K, x, missed),
         NEW later,
         \A n \in K : later[n] = IF n = WrrStep(x, C).best THEN 0
                                 ELSE IF n \in C THEN missed[n] + 1 ELSE missed[n]
  PROVE  Balanced(K, WrrStep(x, C).current, later)
<1> DEFINE y == WrrStep(x, C).current
           best == WrrStep(x, C).best
           w == shape.weight
           W == Heaviest(K)
           sum == [s \in SUBSET K |-> Weight(s)]
           low == Lead(Cardinality(K) - 1, Cardinality(K), W)
<1>0. K # {} /\ IsFiniteSet(K)
  BY SizeTyped
<1>1. W \in Nat /\ \A n \in K : w[n] \in Nat /\ w[n] <= W
  BY <1>0, HeaviestOf
<1>2. y \in [Nodes -> Int] /\ Turn(x, y, w, sum, K, C, best)
  BY WrrStepTurns
<1>3. Sums(sum, w, K)
  <2>1. \A n \in K : shape.weight[n] \in Int
    BY <1>1
  <2> QED BY <1>0, <2>1, WeightSums
<1>4. PICK g : Sums(g, x, K) /\ Leads(g, K, W)
  BY DEF Balanced
<1>5. \A n \in K : x[n] \in Int /\ y[n] \in Int
  BY <1>2
<1>6. low \in Int
  <2>1. Cardinality(K) \in Nat /\ Cardinality(K) - 1 \in Nat
    BY <1>0, SizeTyped
  <2> QED BY <1>1, <2>1, LeadTyped
<1> HIDE DEF y, best, w, W, sum
<1>7. PICK h : Sums(h, y, K) /\ Leads(h, K, W)
  BY <1>0, <1>1, <1>2, <1>3, <1>4, <1>5, TurnLeads
<1>8. ASSUME NEW n \in K
      PROVE  later[n] * w[n] <= y[n] + low
  <2>1. later[n] = IF n = best THEN 0 ELSE IF n \in C THEN missed[n] + 1 ELSE missed[n]
    BY DEF best
  <2>2. CASE n = best
    <3>1. y[n] + low >= 0
      BY <1>0, <1>1, <1>5, <1>7, LeadsOfRest
    <3>2. later[n] = 0 /\ 0 * w[n] = 0
      BY <1>1, <2>1, <2>2
    <3> HIDE DEF low
    <3> QED BY <1>5, <1>6, <3>1, <3>2
  <2>3. CASE n # best
    <3>1. y[n] = x[n] + (IF n \in C THEN w[n] ELSE 0) - 0
      BY <1>2, <2>3 DEF Turn
    <3>2. missed[n] * w[n] <= x[n] + low
      BY DEF Balanced, w, W
    <3>3. missed[n] \in Nat /\ w[n] \in Nat /\ x[n] \in Int
      BY <1>1, <1>5
    <3>4. (missed[n] + 1) * w[n] = missed[n] * w[n] + w[n] /\ missed[n] * w[n] \in Int
      BY <3>3
    <3> HIDE DEF low
    <3>5. CASE n \in C
      <4>1. y[n] = x[n] + w[n] - 0 /\ later[n] = missed[n] + 1
        BY <2>1, <2>3, <3>1, <3>5
      <4> QED BY <1>6, <3>2, <3>3, <3>4, <4>1
    <3>6. CASE n \notin C
      <4>1. y[n] = x[n] + 0 - 0 /\ later[n] = missed[n]
        BY <2>1, <2>3, <3>1, <3>6
      <4> QED BY <1>6, <3>2, <3>3, <4>1
    <3> QED BY <3>5, <3>6
  <2> QED BY <2>2, <2>3
<1>9. Balanced(K, y, later)
  BY <1>7, <1>8 DEF Balanced, w, W
<1> QED BY <1>9 DEF y

LEMMA TurnsStart == TrafficInit /\ TablesInv => TurnsInv
<1> SUFFICES ASSUME TrafficInit, TablesInv PROVE TurnsInv
  OBVIOUS
<1>1. \E s \in Scenes : setting = s.setting
  BY DEF TrafficInit
<1>2. cursor = NoTurns /\ passed = NoTurns
  BY DEF TrafficInit
<1>3. cursor \in [Upstreams -> [Nodes -> Int]] /\ passed \in [Upstreams -> [Nodes -> Nat]]
  BY <1>2 DEF NoTurns
<1>4. WeightsOK
  BY <1>1, WeightsAssumption DEF WeightsOK, shape
<1>5. ASSUME NEW u \in Upstreams, NodesOf(u) # {}
      PROVE  Balanced(NodesOf(u), cursor[u], passed[u])
  <2>1. NodesOf(u) \in SUBSET Nodes
    BY NodesTyped DEF TablesInv
  <2>2. Balanced(NodesOf(u), [n \in Nodes |-> 0], [n \in Nodes |-> 0])
    BY <1>4, <1>5, <2>1, NobodyPassed
  <2>3. cursor[u] = [n \in Nodes |-> 0] /\ passed[u] = [n \in Nodes |-> 0]
    BY <1>2 DEF NoTurns
  <2> QED BY <2>2, <2>3
<1> QED BY <1>1, <1>3, <1>5 DEF TurnsInv

LEMMA SameTurns ==
  ASSUME TurnsInv, setting' = setting, served' = served, cursor' = cursor, passed' = passed
  PROVE  TurnsInv'
<1>1. shape' = shape /\ \A u : NodesOf(u)' = NodesOf(u)
  BY DEF shape, NodesOf
<1>2. ASSUME NEW u \in Upstreams, NodesOf(u)' # {}
      PROVE  Balanced(NodesOf(u), cursor[u], passed[u])'
  <2>1. Balanced(NodesOf(u), cursor[u], passed[u])
    BY <1>1, <1>2 DEF TurnsInv
  <2> QED BY <1>1, <2>1 DEF Balanced, Heaviest
<1> QED BY <1>2 DEF TurnsInv

LEMMA FreshTurns ==
  ASSUME TurnsInv, TablesInv', setting' = setting, cursor' = NoTurns, passed' = NoTurns
  PROVE  TurnsInv'
<1>1. \E s \in Scenes : setting' = s.setting
  BY DEF TurnsInv
<1>3. cursor' \in [Upstreams -> [Nodes -> Int]] /\ passed' \in [Upstreams -> [Nodes -> Nat]]
  BY DEF NoTurns
<1>4. WeightsOK /\ shape' = shape
  BY WeightsFixed DEF shape
<1>5. ASSUME NEW u \in Upstreams, NodesOf(u)' # {}
      PROVE  Balanced(NodesOf(u), cursor[u], passed[u])'
  <2>1. NodesOf(u)' \in SUBSET Nodes
    BY DEF TablesInv, RouteTablesTypeOK, RelRow, NodesOf
  <2>2. Balanced(NodesOf(u)', [n \in Nodes |-> 0], [n \in Nodes |-> 0])
    BY <1>4, <1>5, <2>1, NobodyPassed
  <2>3. cursor'[u] = [n \in Nodes |-> 0] /\ passed'[u] = [n \in Nodes |-> 0]
    BY DEF NoTurns
  <2>4. Balanced(NodesOf(u)', cursor'[u], passed'[u])
    BY <2>2, <2>3
  <2> QED BY <1>4, <2>4 DEF Balanced, Heaviest
<1> QED BY <1>1, <1>3, <1>5 DEF TurnsInv

LEMMA RivalsAmong ==
  ASSUME NEW u
  PROVE  Rivals(u) \subseteq NodesOf(u)
<1>1. Usable(u) \subseteq NodesOf(u)
  BY DEF Usable
<1>2. CollectCands(u) \subseteq NodesOf(u)
  BY <1>1 DEF CollectCands
<1> QED BY <1>2 DEF Rivals, LeastConnSet

LEMMA PickKeeps ==
  ASSUME TurnsInv, TablesInv, NEW v, PickRR(v), setting' = setting, served' = served
  PROVE  TurnsInv'
<1> DEFINE C == Rivals(v)
           step == WrrStep(cursor[v], C)
<1>1. /\ cursor' = [cursor EXCEPT ![v] = step.current]
      /\ passed' = [passed EXCEPT ![v] = [n \in Nodes |->
           IF n = step.best THEN 0 ELSE IF n \in C THEN passed[v][n] + 1 ELSE passed[v][n]]]
  BY DEF PickRR
<1>2. C # {} /\ C \subseteq NodesOf(v)
  BY RivalsAmong, FS_EmptySet DEF PickRR
<1>3. WeightsOK /\ shape' = shape /\ \A u : NodesOf(u)' = NodesOf(u)
  BY WeightsFixed DEF shape, NodesOf
<1>4. /\ cursor \in [Upstreams -> [Nodes -> Int]] /\ passed \in [Upstreams -> [Nodes -> Nat]]
      /\ \A u \in Upstreams : NodesOf(u) # {} => Balanced(NodesOf(u), cursor[u], passed[u])
  BY DEF TurnsInv
<1>5. CASE v \notin Upstreams
  <2>1. cursor' = cursor /\ passed' = passed
    BY <1>1, <1>4, <1>5
  <2> QED BY <2>1, SameTurns
<1>6. CASE v \in Upstreams
  <2> DEFINE K == NodesOf(v)
  <2>1. K \in SUBSET Nodes /\ C \in SUBSET K /\ K # {}
    BY <1>2, <1>6, NodesTyped DEF TablesInv
  <2>2. cursor[v] \in [Nodes -> Int] /\ passed[v] \in [Nodes -> Nat]
    BY <1>4, <1>6
  <2>3. Balanced(K, cursor[v], passed[v])
    BY <1>4, <1>6, <2>1
  <2>4. step.current \in [Nodes -> Int]
    BY <1>2, <1>3, <2>1, <2>2, WrrStepTurns
  <2>5. /\ cursor'[v] = step.current
        /\ passed'[v] = [n \in Nodes |-> IF n = step.best THEN 0 ELSE
             IF n \in C THEN passed[v][n] + 1 ELSE passed[v][n]]
    BY <1>1, <1>4, <1>6
  <2>6. \A n \in K : passed'[v][n] = IF n = step.best THEN 0 ELSE
                                     IF n \in C THEN passed[v][n] + 1 ELSE passed[v][n]
    BY <2>1, <2>5
  <2>7. passed'[v] \in [Nodes -> Nat]
    BY <2>2, <2>5
  <2>8. /\ cursor' \in [Upstreams -> [Nodes -> Int]]
        /\ passed' \in [Upstreams -> [Nodes -> Nat]]
    <3> HIDE DEF step, C
    <3> QED BY <1>1, <1>4, <2>4, <2>5, <2>7
  <2> HIDE DEF C, K
  <2>9. Balanced(K, step.current, passed'[v])
    BY <1>2, <1>3, <2>1, <2>2, <2>3, <2>6, TurnBalances
  <2>10. ASSUME NEW u \in Upstreams, NodesOf(u)' # {}
         PROVE  Balanced(NodesOf(u), cursor[u], passed[u])'
    <3>1. Balanced(NodesOf(u), cursor'[u], passed'[u])
      <4>1. CASE u = v
        BY <2>5, <2>9, <4>1 DEF K
      <4>2. CASE u # v
        <5>1. cursor'[u] = cursor[u] /\ passed'[u] = passed[u]
          BY <1>1, <1>4, <4>2
        <5> QED BY <1>3, <1>4, <2>10, <5>1
      <4> QED BY <4>1, <4>2
    <3> QED BY <1>3, <3>1 DEF Balanced, Heaviest
  <2>11. \E s \in Scenes : setting' = s.setting
    BY DEF TurnsInv
  <2> QED BY <2>8, <2>10, <2>11 DEF TurnsInv
<1> QED BY <1>5, <1>6

\* No statement of a call but the last one of a Rebuild replaces the snapshot.
LEMMA StatementsServe ==
  ASSUME NEW a
  PROVE  /\ \A c : Begin(a, c) => served' = served
         /\ \A ok, next : Check(a, ok, next) => served' = served
         /\ \A t, unique, next : Write(a, t, unique, next) => served' = served
         /\ \A t, unique, next : WriteTags(a, t, unique, next) => served' = served
BY DEF Begin, Check, Write, WriteTags

LEMMA NodeCallServes == ASSUME NEW a, NodeCall(a) PROVE served' = served
<1>1. ASSUME NEW n, NEW url, SaveNode(a, n, url) \/ DeleteNode(a, n) \/ RestoreNode(a, n)
      PROVE  served' = served
  BY <1>1, StatementsServe DEF SaveNode, DeleteNode, RestoreNode
<1>2. CASE ReadDeletedNode(a) \/ CheckUrl(a) \/ CountRelations(a)
  BY <1>2, StatementsServe DEF ReadDeletedNode, CheckUrl, CountRelations
<1>3. CASE WriteNode(a) \/ DropNode(a)
  BY <1>3, StatementsServe DEF WriteNode, DropNode
<1> QED BY <1>1, <1>2, <1>3 DEF NodeCall

LEMMA RuleCallServes == ASSUME NEW a, RuleCall(a) PROVE served' = served
<1>1. ASSUME NEW r, NEW u, NEW on, NEW labels,
             SaveRule(a, r, u, on, labels) \/ DeleteRule(a, r) \/ RestoreRule(a, r)
      PROVE  served' = served
  BY <1>1, StatementsServe DEF SaveRule, DeleteRule, RestoreRule
<1>2. CASE ReadDeletedRule(a) \/ CheckUpstream(a)
  BY <1>2, StatementsServe DEF ReadDeletedRule, CheckUpstream
<1>3. CASE ReviveRule(a) \/ WriteRule(a) \/ DropRule(a)
  BY <1>3, StatementsServe DEF ReviveRule, WriteRule, DropRule
<1> QED BY <1>1, <1>2, <1>3 DEF RuleCall

LEMMA TagCallServes == ASSUME NEW a, TagCall(a) PROVE served' = served
<1>1. ASSUME NEW i, NEW label, AddTag(a, label) \/ TagsUpdate(a, i, label) \/ TagsDelete(a, i)
      PROVE  served' = served
  BY <1>1, StatementsServe DEF AddTag, TagsUpdate, TagsDelete
<1>2. CASE CheckName(a) \/ ListRuleTags(a) \/ ListTagRules(a)
  BY <1>2, StatementsServe DEF CheckName, ListRuleTags, ListTagRules
<1>3. CASE FindTag(a)
  BY <1>3, StatementsServe DEF FindTag
<1>4. CASE Untag(a) \/ NewTag(a) \/ TagRule(a)
  BY <1>4, StatementsServe DEF Untag, NewTag, TagRule
<1>5. CASE RenameTag(a) \/ DropTag(a)
  BY <1>5 DEF RenameTag, DropTag
<1> QED BY <1>1, <1>2, <1>3, <1>4, <1>5 DEF TagCall

LEMMA UpstreamCallServes == ASSUME NEW a, UpstreamCall(a) PROVE served' = served
<1>1. ASSUME NEW u, NEW group,
             SaveUpstream(a, u, group) \/ DeleteUpstream(a, u) \/ RestoreUpstream(a, u)
      PROVE  served' = served
  BY <1>1, StatementsServe DEF SaveUpstream, DeleteUpstream, RestoreUpstream
<1>2. CASE CheckNode(a) \/ CountRules(a) \/ ListRelations(a) \/ EndRemoval(a) \/ EndInsertion(a)
  BY <1>2, StatementsServe DEF CheckNode, CountRules, ListRelations, EndRemoval, EndInsertion
<1>3. CASE WriteUpstream(a) \/ DropUpstream(a) \/ ReviveRelations(a)
  BY <1>3 DEF WriteUpstream, DropUpstream, ReviveRelations
<1>4. CASE RemoveRelation(a) \/ InsertRelation(a) \/ RestoreRow(a)
  BY <1>4, StatementsServe DEF RemoveRelation, InsertRelation, RestoreRow
<1>5. CASE ReadDeletedUpstream(a) \/ ReadStamp(a)
  BY <1>5, StatementsServe DEF ReadDeletedUpstream, ReadStamp
<1> QED BY <1>1, <1>2, <1>3, <1>4, <1>5 DEF UpstreamCall

LEMMA RebuildServes == ASSUME NEW a, Rebuild(a), ~Stores(a) PROVE served' = served
<1>1. CASE LoadRules(a) \/ LoadUpstreams(a) \/ LoadNodes(a) \/ LoadRelations(a)
  BY <1>1, StatementsServe DEF LoadRules, LoadUpstreams, LoadNodes, LoadRelations
<1>2. CASE StoreSnapshot(a)
  BY <1>2 DEF StoreSnapshot, Stores
<1> QED BY <1>1, <1>2 DEF Rebuild

LEMMA TurnsStep ==
  TablesInv /\ TablesInv' /\ TurnsInv /\ [TrafficNext]_trafficVars => TurnsInv'
<1> SUFFICES ASSUME TablesInv, TablesInv', TurnsInv, [TrafficNext]_trafficVars
             PROVE  TurnsInv'
  OBVIOUS
<1>1. ASSUME NEW a \in Admins, Administer(a), UNCHANGED setting
      PROVE  TurnsInv'
  <2>1. served' = served
    <3>1. CASE Fail(a)
      BY <3>1 DEF Fail
    <3> QED BY <1>1, <3>1, NodeCallServes, RuleCallServes, TagCallServes, UpstreamCallServes,
               RebuildServes DEF Administer
  <2>2. cursor' = cursor /\ passed' = passed
    BY <1>1 DEF Administer, traffic
  <2> QED BY <1>1, <2>1, <2>2, SameTurns
<1>2. ASSUME NEW a \in Admins, Replace(a), UNCHANGED setting
      PROVE  TurnsInv'
  BY <1>2, FreshTurns DEF Replace
<1>3. ASSUME NEW n \in Nodes, OnResponse(n) \/ Probe(n)
      PROVE  TurnsInv'
  BY <1>3, SameTurns DEF OnResponse, Probe, vars
<1>4. ASSUME NEW host, NEW path, NEW cookie, Handle(host, path, cookie)
      PROVE  TurnsInv'
  <2>1. setting' = setting /\ served' = served
    BY <1>4 DEF Handle, vars
  <2>2. PICK u : AcquireNode(u, cookie)
    BY <1>4 DEF Handle
  <2>3. PickRR(u) \/ (cursor' = cursor /\ passed' = passed)
    BY <2>2 DEF AcquireNode, StickyNode, PickOnly
  <2> QED BY <2>1, <2>3, PickKeeps, SameTurns
<1>5. CASE UNCHANGED trafficVars
  BY <1>5, SameTurns DEF trafficVars, vars, traffic
<1> QED BY <1>1, <1>2, <1>3, <1>4, <1>5 DEF TrafficNext

LEMMA TurnsMeaning == TablesInv /\ TurnsInv => TurnsAreFair
<1> SUFFICES ASSUME TablesInv, TurnsInv, NEW u \in Upstreams, NEW n \in NodesOf(u)
             PROVE  passed[u][n] * shape.weight[n]
                      <= Heaviest(NodesOf(u)) * Cardinality(NodesOf(u))
                         * (Cardinality(NodesOf(u)) - 1)
  BY DEF TurnsAreFair
<1> DEFINE K == NodesOf(u)
           many == Cardinality(K)
           W == Heaviest(K)
<1>1. K \in SUBSET Nodes /\ K # {} /\ WeightsOK
  BY NodesTyped, WeightsFixed DEF TablesInv
<1>2. W \in Nat /\ shape.weight[n] \in Nat
  BY <1>1, HeaviestOf
<1>3. many \in Nat /\ many > 0 /\ many - 1 \in Nat
  BY <1>1, SizeTyped
<1>4. Balanced(K, cursor[u], passed[u])
  BY <1>1 DEF TurnsInv
<1>5. cursor[u] \in [Nodes -> Int] /\ passed[u] \in [Nodes -> Nat]
  BY DEF TurnsInv
<1>6. n \in K /\ \A k \in K : cursor[u][k] \in Int
  BY <1>1, <1>5
<1>7. passed[u][n] * shape.weight[n] <= cursor[u][n] + Lead(many - 1, many, W)
  BY <1>4, <1>6 DEF Balanced
<1>8. cursor[u][n] <= Lead(1, many, W)
  <2> HIDE DEF K, W
  <2>1. PICK g : Sums(g, cursor[u], K) /\ Leads(g, K, W)
    BY <1>4 DEF Balanced, W
  <2> QED BY <1>1, <1>2, <1>6, <2>1, LeadsOfRest
<1>9. Lead(1, many, W) + Lead(many - 1, many, W) <= W * (many * (many - 1))
  BY <1>2, <1>3, LeadsOfOne
<1>10. Lead(1, many, W) \in Int /\ Lead(many - 1, many, W) \in Int
  BY <1>2, <1>3, LeadTyped
<1>11. passed[u][n] * shape.weight[n] \in Int
  BY <1>1, <1>2, <1>5
<1> HIDE DEF many, W
<1>12. W * (many * (many - 1)) = W * many * (many - 1) /\ W * many * (many - 1) \in Int
  BY <1>2, <1>3
<1> DEFINE d == passed[u][n] * shape.weight[n]
           c == cursor[u][n]
<1>13. c \in Int
  BY <1>6
<1> HIDE DEF d, c
<1>14. d <= W * many * (many - 1)
  BY <1>7, <1>8, <1>9, <1>10, <1>11, <1>12, <1>13 DEF d, c
<1> QED BY <1>14 DEF d, many, W

\* No node starves: the bound of TurnsAreFair, for every number of nodes and all
\* weights, whichever subsets of the nodes share the cursor (wrrStep,
\* src/plugins/dispatch/select.go:129-149).
THEOREM NodesTakeTurns == TrafficSpec => []TurnsAreFair
<1>1. TrafficInit /\ TablesInv => TurnsInv
  BY TurnsStart
<1>2. TablesInv /\ TablesInv' /\ TurnsInv /\ [TrafficNext]_trafficVars => TurnsInv'
  BY TurnsStep
<1>3. TablesInv /\ TurnsInv => TurnsAreFair
  BY TurnsMeaning
<1>4. Spec => []TablesInv
  BY TablesStart, TablesStep, PTL DEF Spec
<1>5. TrafficSpec => Spec
  BY TrafficImplementsRouteTables
<1> QED BY <1>1, <1>2, <1>3, <1>4, <1>5, PTL DEF TrafficSpec

-----------------------------------------------------------------------------
(***************************************************************************)
(* The order of the rules, and lists of rules in that order.               *)
(***************************************************************************)
OrdersOK == \A r \in Rules : Condition(r).order \in Nat

\* The rules of S are listed in order.
RulesInOrder(list, S) ==
  /\ list \in Seq(Rules)
  /\ InOrder(list)
  /\ \A x : x \in S <=> \E i \in 1 .. Len(list) : list[i] = x

\* Induction up to N.
LEMMA UpTo ==
  ASSUME NEW N \in Nat, NEW Good, 0 \in Good,
         \A n \in 0 .. N : n # N /\ n \in Good => n + 1 \in Good
  PROVE  \A n \in 0 .. N : n \in Good
<1> DEFINE Bad == {n \in 0 .. N : n \notin Good}
<1>1. SUFFICES ASSUME Bad # {} PROVE FALSE
  OBVIOUS
<1>2. Bad \in SUBSET Nat
  OBVIOUS
<1>3. PICK n \in Bad : \A m \in Bad : n <= m
  BY <1>1, <1>2, LeastOne
<1>4. n \in 0 .. N /\ n \notin Good /\ n # 0
  OBVIOUS
<1>5. n - 1 \in 0 .. N /\ n - 1 # N /\ (n - 1) + 1 = n
  BY <1>4
<1>6. n - 1 \in Good
  BY <1>3, <1>5
<1> QED BY <1>4, <1>5, <1>6

LEMMA BeforeOrders ==
  ASSUME OrdersOK, NEW r \in Rules, NEW s \in Rules, NEW t \in Rules
  PROVE  /\ ~ Before(r, r)
         /\ Before(r, s) /\ Before(s, t) => Before(r, t)
         /\ r # s => Before(r, s) \/ Before(s, r)
<1>1. r \in Nat /\ s \in Nat /\ t \in Nat
  BY TrafficAssumption
<1>2. /\ Condition(r).order \in Nat /\ Condition(s).order \in Nat
      /\ Condition(t).order \in Nat
  BY DEF OrdersOK
<1> QED BY <1>1, <1>2 DEF Before

LEMMA LastRule ==
  ASSUME OrdersOK, NEW S \in SUBSET Rules, S # {}
  PROVE  \E x \in S : \A y \in S \ {x} : Before(y, x)
<1> DEFINE Bad == {t \in SUBSET S : t # {} /\ ~ \E x \in t : \A y \in t \ {x} : Before(y, x)}
<1>1. \A t \in SUBSET S :
        t \in Bad <=> t # {} /\ ~ \E x \in t : \A y \in t \ {x} : Before(y, x)
  OBVIOUS
<1>2. Bad \in SUBSET SUBSET S /\ IsFiniteSet(S)
  BY OrdersAssumption, FS_Subset
<1>3. SUFFICES ASSUME Bad # {} PROVE FALSE
  BY <1>1
<1> HIDE DEF Bad
<1>4. PICK s \in Bad : \A t \in SUBSET S : Cardinality(t) < Cardinality(s) => t \notin Bad
  BY <1>2, <1>3, SmallerFirst
<1>5. s \in SUBSET S /\ s # {}
  BY <1>1, <1>2
<1>6. PICK x \in s : TRUE
  BY <1>5
<1>7. s \ {x} \in SUBSET S /\ s \ {x} \notin Bad
  BY <1>2, <1>4, <1>5, LessOne
<1>8. CASE s \ {x} = {}
  BY <1>1, <1>4, <1>5, <1>8
<1>9. CASE s \ {x} # {}
  <2>1. PICK z \in s \ {x} : \A y \in (s \ {x}) \ {z} : Before(y, z)
    BY <1>1, <1>7, <1>9
  <2>2. z \in Rules /\ x \in Rules /\ x # z /\ s \subseteq Rules
    BY <1>5
  <2>3. CASE Before(x, z)
    <3>1. \A y \in s \ {z} : Before(y, z)
      BY <2>1, <2>3
    <3> QED BY <1>1, <1>4, <1>5, <2>1, <3>1
  <2>4. CASE Before(z, x)
    <3>1. \A y \in s \ {x} : Before(y, x)
      BY <2>1, <2>2, <2>4, BeforeOrders
    <3> QED BY <1>1, <1>4, <1>5, <3>1
  <2> QED BY <2>2, <2>3, <2>4, BeforeOrders
<1> QED BY <1>8, <1>9

LEMMA ListExists ==
  ASSUME OrdersOK, NEW S \in SUBSET Rules
  PROVE  \E list \in [1 .. Cardinality(S) -> S] : InOrder(list)
<1> DEFINE Good(t) == \E list \in [1 .. Cardinality(t) -> t] : InOrder(list)
           Bad == {t \in SUBSET S : ~ Good(t)}
<1>1. \A t \in SUBSET S : t \in Bad <=> ~ Good(t)
  OBVIOUS
<1>2. Bad \in SUBSET SUBSET S /\ IsFiniteSet(S) /\ S \in SUBSET S
  BY OrdersAssumption, FS_Subset
<1>3. SUFFICES ASSUME Bad # {} PROVE FALSE
  BY <1>1, <1>2
<1> HIDE DEF Bad
<1>4. PICK s \in Bad : \A t \in SUBSET S : Cardinality(t) < Cardinality(s) => t \notin Bad
  BY <1>2, <1>3, SmallerFirst
<1>5. s \in SUBSET S /\ s \in SUBSET Rules
  BY <1>2
<1>6. CASE s = {}
  <2>1. Cardinality(s) = 0
    BY <1>6, FS_EmptySet
  <2> DEFINE none == [i \in 1 .. 0 |-> 0]
  <2>2. none \in [1 .. 0 -> s] /\ DOMAIN none = {}
    OBVIOUS
  <2>3. InOrder(none)
    BY <2>2 DEF InOrder
  <2> QED BY <1>1, <1>4, <1>5, <2>1, <2>2, <2>3
<1>7. CASE s # {}
  <2>1. PICK x \in s : \A y \in s \ {x} : Before(y, x)
    BY <1>5, <1>7, LastRule
  <2> DEFINE t == s \ {x}
             n == Cardinality(t)
  <2>2. t \in SUBSET S /\ n \in Nat /\ Cardinality(s) = n + 1
    BY <1>2, <1>5, LessOne
  <2>3. Good(t)
    <3>1. Cardinality(t) < Cardinality(s)
      BY <2>2
    <3>2. t \notin Bad
      BY <1>4, <2>2, <3>1
    <3> HIDE DEF t
    <3> QED BY <1>1, <2>2, <3>2
  <2>4. PICK m \in [1 .. n -> t] : InOrder(m)
    BY <2>3
  <2> HIDE DEF n
  <2> DEFINE list == [i \in 1 .. n + 1 |-> IF i = n + 1 THEN x ELSE m[i]]
  <2>5. list \in [1 .. n + 1 -> s]
    BY <2>2, <2>4
  <2>6. ASSUME NEW i \in 1 .. n + 1, NEW j \in 1 .. n + 1, i < j
        PROVE  Before(list[i], list[j])
    <3>1. i \in 1 .. n /\ list[i] = m[i] /\ m[i] \in t
      BY <2>2, <2>4, <2>6
    <3>2. CASE j = n + 1
      BY <2>1, <3>1, <3>2
    <3>3. CASE j # n + 1
      <4>1. j \in 1 .. n /\ list[j] = m[j]
        BY <2>2, <3>3
      <4> QED BY <2>4, <2>6, <3>1, <4>1 DEF InOrder
    <3> QED BY <3>2, <3>3
  <2>7. InOrder(list)
    BY <2>6 DEF InOrder
  <2> QED BY <1>1, <1>4, <1>5, <2>2, <2>5, <2>7
<1> QED BY <1>6, <1>7

LEMMA SortListed ==
  ASSUME OrdersOK, NEW S \in SUBSET Rules, NEW list \in [1 .. Cardinality(S) -> S], InOrder(list)
  PROVE  RulesInOrder(list, S)
<1> DEFINE n == Cardinality(S)
<1>1. IsFiniteSet(S) /\ n \in Nat
  BY OrdersAssumption, FS_Subset, FS_CardinalityType
<1>2. IsFiniteSet(1 .. n) /\ Cardinality(1 .. n) = n
  BY <1>1, FS_Interval
<1>3. ASSUME NEW i \in 1 .. n, NEW j \in 1 .. n, list[i] = list[j]
      PROVE  i = j
  <2>1. list[i] \in Rules /\ list[j] \in Rules
    OBVIOUS
  <2>2. ~ Before(list[i], list[j]) /\ ~ Before(list[j], list[i])
    BY <1>3, <2>1, BeforeOrders
  <2> QED BY <1>1, <2>2 DEF InOrder
<1>4. list \in Injection(1 .. n, S)
  BY <1>3 DEF Injection, IsInjective
<1>5. list \in Surjection(1 .. n, S)
  BY <1>1, <1>2, <1>4, FS_Injection
<1>6. \A x \in S : \E i \in 1 .. n : list[i] = x
  BY <1>5 DEF Surjection
<1>7. list \in Seq(Rules) /\ Len(list) = n
  BY <1>1
<1> QED BY <1>6, <1>7 DEF RulesInOrder

LEMMA Appends ==
  ASSUME NEW list, NEW S \in SUBSET Rules, RulesInOrder(list, S), NEW x \in Rules,
         \A y \in S : Before(y, x)
  PROVE  RulesInOrder(Append(list, x), S \cup {x})
<1> DEFINE more == Append(list, x)
           n == Len(list)
<1>1. list \in Seq(Rules) /\ n \in Nat
  BY DEF RulesInOrder
<1>2. /\ more \in Seq(Rules) /\ Len(more) = n + 1
      /\ \A i \in 1 .. n : more[i] = list[i]
      /\ more[n + 1] = x
  BY <1>1
<1> HIDE DEF more
<1>3. \A i \in 1 .. n : list[i] \in S
  BY DEF RulesInOrder
<1>4. ASSUME NEW i \in 1 .. n + 1, NEW j \in 1 .. n + 1, i < j
      PROVE  Before(more[i], more[j])
  <2>1. i \in 1 .. n
    BY <1>1, <1>4
  <2>2. CASE j = n + 1
    BY <1>2, <1>3, <2>1, <2>2
  <2>3. CASE j # n + 1
    <3>1. j \in 1 .. n /\ i \in DOMAIN list /\ j \in DOMAIN list
      BY <1>1, <2>1, <2>3
    <3> QED BY <1>2, <1>4, <2>1, <3>1 DEF RulesInOrder, InOrder
  <2> QED BY <2>2, <2>3
<1>5. InOrder(more)
  BY <1>1, <1>2, <1>4 DEF InOrder
<1>6. \A y : y \in S \cup {x} <=> \E i \in 1 .. Len(more) : more[i] = y
  <2>1. \A y : y \in S <=> \E i \in 1 .. n : list[i] = y
    BY DEF RulesInOrder
  <2>2. \A i \in 1 .. n + 1 : i \in 1 .. n \/ i = n + 1
    BY <1>1
  <2>3. n + 1 \in 1 .. n + 1 /\ \A i \in 1 .. n : i \in 1 .. n + 1
    BY <1>1
  <2> HIDE DEF n
  <2> QED BY <1>2, <2>1, <2>2, <2>3
<1> QED BY <1>2, <1>5, <1>6 DEF RulesInOrder, more

LEMMA Prepends ==
  ASSUME NEW list, NEW S \in SUBSET Rules, RulesInOrder(list, S), NEW x \in Rules,
         \A y \in S : Before(x, y)
  PROVE  RulesInOrder(<<x>> \o list, S \cup {x})
<1> DEFINE more == <<x>> \o list
           n == Len(list)
<1>1. list \in Seq(Rules) /\ n \in Nat
  BY DEF RulesInOrder
<1>2. /\ more \in Seq(Rules) /\ Len(more) = n + 1
      /\ \A i \in 1 .. n : more[i + 1] = list[i]
      /\ more[1] = x
  BY <1>1
<1> HIDE DEF more
<1>3. \A i \in 1 .. n : list[i] \in S
  BY DEF RulesInOrder
<1>4. ASSUME NEW i \in 1 .. n + 1, NEW j \in 1 .. n + 1, i < j
      PROVE  Before(more[i], more[j])
  <2>1. j - 1 \in 1 .. n /\ j = (j - 1) + 1
    BY <1>1, <1>4
  <2>2. more[j] = list[j - 1]
    BY <1>2, <2>1
  <2>3. CASE i = 1
    BY <1>2, <1>3, <2>1, <2>2, <2>3
  <2>4. CASE i # 1
    <3>1. i - 1 \in 1 .. n /\ i = (i - 1) + 1 /\ i - 1 < j - 1
      BY <1>1, <1>4, <2>1, <2>4
    <3>2. more[i] = list[i - 1]
      BY <1>2, <3>1
    <3>3. i - 1 \in DOMAIN list /\ j - 1 \in DOMAIN list
      BY <1>1, <2>1, <3>1
    <3> QED BY <2>2, <3>1, <3>2, <3>3 DEF RulesInOrder, InOrder
  <2> QED BY <2>3, <2>4
<1>5. InOrder(more)
  BY <1>1, <1>2, <1>4 DEF InOrder
<1>6. \A y : y \in S \cup {x} <=> \E i \in 1 .. Len(more) : more[i] = y
  <2>1. \A y : y \in S <=> \E i \in 1 .. n : list[i] = y
    BY DEF RulesInOrder
  <2>2. \A i \in 1 .. n + 1 : i = 1 \/ (i - 1 \in 1 .. n /\ i = (i - 1) + 1)
    BY <1>1
  <2>3. 1 \in 1 .. n + 1 /\ \A i \in 1 .. n : i + 1 \in 1 .. n + 1
    BY <1>1
  <2> HIDE DEF n
  <2> QED BY <1>2, <2>1, <2>2, <2>3
<1> QED BY <1>2, <1>5, <1>6 DEF RulesInOrder, more

LEMMA Tails ==
  ASSUME NEW list, NEW S, RulesInOrder(list, S), NEW i \in 1 .. Len(list) + 1
  PROVE  RulesInOrder(SubSeq(list, i, Len(list)), {list[k] : k \in i .. Len(list)})
<1> DEFINE tail == SubSeq(list, i, Len(list))
           n == Len(list)
<1>1. list \in Seq(Rules) /\ n \in Nat
  BY DEF RulesInOrder
<1>2. /\ tail \in Seq(Rules) /\ Len(tail) = n + 1 - i
      /\ \A k \in 1 .. n + 1 - i : tail[k] = list[i + k - 1]
  BY <1>1
<1> HIDE DEF tail
<1>3. ASSUME NEW k \in 1 .. n + 1 - i, NEW m \in 1 .. n + 1 - i, k < m
      PROVE  Before(tail[k], tail[m])
  <2>1. /\ i + k - 1 \in DOMAIN list /\ i + m - 1 \in DOMAIN list
        /\ i + k - 1 < i + m - 1
    BY <1>1, <1>3
  <2> QED BY <1>2, <2>1 DEF RulesInOrder, InOrder
<1>4. InOrder(tail)
  BY <1>1, <1>2, <1>3 DEF InOrder
<1>5. ASSUME NEW y
      PROVE  y \in {list[k] : k \in i .. n} <=> \E k \in 1 .. Len(tail) : tail[k] = y
  <2>1. \A k \in i .. n : k - i + 1 \in 1 .. n + 1 - i /\ i + (k - i + 1) - 1 = k
    BY <1>1
  <2>2. \A k \in 1 .. n + 1 - i : i + k - 1 \in i .. n
    BY <1>1
  <2> HIDE DEF n
  <2> QED BY <1>2, <2>1, <2>2
<1> QED BY <1>2, <1>4, <1>5 DEF RulesInOrder, tail

-----------------------------------------------------------------------------
(***************************************************************************)
(* The lists of the domains.                                               *)
(***************************************************************************)
\* list[n] has the rules of the domain among the first n.
Picks(list, sorted, domain) ==
  list = [n \in 0 .. Len(sorted) |->
            IF n = 0 THEN <<>>
            ELSE IF Condition(sorted[n]).domain = domain THEN Append(list[n - 1], sorted[n])
                                                         ELSE list[n - 1]]

LEMMA PicksExist ==
  ASSUME NEW sorted \in Seq(Rules), NEW domain
  PROVE  \E list : Picks(list, sorted, domain)
<1> DEFINE N == Len(sorted)
           fits(n) == Condition(sorted[n]).domain = domain
           H(n) == \E g : g = [k \in 0 .. n |->
                     IF k = 0 THEN <<>>
                     ELSE IF fits(k) THEN Append(g[k - 1], sorted[k]) ELSE g[k - 1]]
           Good == {n \in 0 .. N : H(n)}
<1>1. N \in Nat
  OBVIOUS
<1>2. H(0)
  <2> DEFINE g == [k \in 0 .. 0 |-> <<>>]
  <2>1. g = [k \in 0 .. 0 |->
               IF k = 0 THEN <<>>
               ELSE IF fits(k) THEN Append(g[k - 1], sorted[k]) ELSE g[k - 1]]
    BY \A k \in 0 .. 0 : k = 0
  <2> QED BY <2>1
<1>3. ASSUME NEW n \in 0 .. N, H(n)
      PROVE  H(n + 1)
  <2> HIDE DEF fits
  <2>1. PICK g : g = [k \in 0 .. n |->
                    IF k = 0 THEN <<>>
                    ELSE IF fits(k) THEN Append(g[k - 1], sorted[k]) ELSE g[k - 1]]
    BY <1>3
  <2> DEFINE h == [k \in 0 .. n + 1 |->
                     IF k = 0 THEN <<>>
                     ELSE IF fits(k) THEN Append(g[k - 1], sorted[k]) ELSE g[k - 1]]
  <2>2. \A k \in 0 .. n : k \in 0 .. n + 1 /\ h[k] = g[k]
    <3>1. \A k \in 0 .. n : g[k] = IF k = 0 THEN <<>>
            ELSE IF fits(k) THEN Append(g[k - 1], sorted[k]) ELSE g[k - 1]
      BY <2>1
    <3>2. \A k \in 0 .. n : k \in 0 .. n + 1
      BY <1>1
    <3>3. \A k \in 0 .. n + 1 : h[k] = IF k = 0 THEN <<>>
            ELSE IF fits(k) THEN Append(g[k - 1], sorted[k]) ELSE g[k - 1]
      OBVIOUS
    <3> HIDE DEF h
    <3> QED BY <3>1, <3>2, <3>3
  <2>3. \A k \in 0 .. n + 1 : k # 0 => k - 1 \in 0 .. n
    OBVIOUS
  <2>4. h = [k \in 0 .. n + 1 |->
               IF k = 0 THEN <<>>
               ELSE IF fits(k) THEN Append(h[k - 1], sorted[k]) ELSE h[k - 1]]
    BY <2>2, <2>3
  <2> QED BY <2>4
<1> HIDE DEF H
<1>4. 0 \in Good /\ \A n \in 0 .. N : n # N /\ n \in Good => n + 1 \in Good
  BY <1>1, <1>2, <1>3
<1>5. \A n \in 0 .. N : n \in Good
  <2> HIDE DEF Good, N
  <2> QED BY <1>1, <1>4, UpTo
<1>6. H(N)
  BY <1>1, <1>5
<1> QED BY <1>6 DEF H, Picks

LEMMA PicksListed ==
  ASSUME NEW sorted, NEW S \in SUBSET Rules, RulesInOrder(sorted, S),
         NEW domain, NEW list, Picks(list, sorted, domain)
  PROVE  RulesInOrder(list[Len(sorted)], {r \in S : Condition(r).domain = domain})
<1> DEFINE N == Len(sorted)
           Had(n) == {r \in {sorted[i] : i \in 1 .. n} : Condition(r).domain = domain}
           Good == {n \in 0 .. N : RulesInOrder(list[n], Had(n))}
<1>1. sorted \in Seq(Rules) /\ N \in Nat
  BY DEF RulesInOrder
<1>2. /\ list[0] = <<>>
      /\ \A n \in 0 .. N : n + 1 \in 0 .. N =>
           list[n + 1] = IF Condition(sorted[n + 1]).domain = domain
                         THEN Append(list[n], sorted[n + 1]) ELSE list[n]
  <2>1. \A n \in 0 .. N :
          list[n] = IF n = 0 THEN <<>>
                    ELSE IF Condition(sorted[n]).domain = domain
                         THEN Append(list[n - 1], sorted[n]) ELSE list[n - 1]
    BY DEF Picks
  <2>2. \A n \in 0 .. N : n + 1 # 0 /\ (n + 1) - 1 = n
    BY <1>1
  <2>3. 0 \in 0 .. N
    BY <1>1
  <2> HIDE DEF N
  <2> QED BY <2>1, <2>2, <2>3
<1>3. 0 \in Good
  <2>1. <<>> \in Seq(Rules) /\ Len(<<>>) = 0 /\ DOMAIN <<>> = {}
    OBVIOUS
  <2>2. RulesInOrder(<<>>, {})
    BY <2>1 DEF RulesInOrder, InOrder
  <2>3. Had(0) = {}
    OBVIOUS
  <2>4. 0 \in 0 .. N
    BY <1>1
  <2> HIDE DEF Had, N
  <2> QED BY <1>2, <2>2, <2>3, <2>4
<1>4. ASSUME NEW n \in 0 .. N, n # N, n \in Good
      PROVE  n + 1 \in Good
  <2>1. n + 1 \in 0 .. N /\ n + 1 \in DOMAIN sorted /\ sorted[n + 1] \in Rules
    BY <1>1, <1>4
  <2>2. RulesInOrder(list[n], Had(n))
    BY <1>4
  <2> DEFINE x == sorted[n + 1]
  <2>3. {sorted[i] : i \in 1 .. n + 1} = {sorted[i] : i \in 1 .. n} \cup {x}
    <3>1. \A i \in 1 .. n + 1 : i \in 1 .. n \/ i = n + 1
      OBVIOUS
    <3>2. n + 1 \in 1 .. n + 1 /\ \A i \in 1 .. n : i \in 1 .. n + 1
      OBVIOUS
    <3> QED BY <3>1, <3>2
  <2>4. CASE Condition(x).domain = domain
    <3>1. Had(n + 1) = Had(n) \cup {x}
      BY <2>3, <2>4
    <3>2. Had(n) \in SUBSET Rules
      BY <1>1
    <3>3. \A y \in Had(n) : Before(y, x)
      <4>1. \A i \in 1 .. n : i \in DOMAIN sorted /\ i < n + 1
        BY <1>1, <2>1
      <4> QED BY <2>1, <4>1 DEF RulesInOrder, InOrder
    <3>4. list[n + 1] = Append(list[n], x)
      BY <1>2, <2>1, <2>4
    <3> HIDE DEF Had, x
    <3>5. x \in Rules
      BY <2>1 DEF x
    <3>6. RulesInOrder(list[n + 1], Had(n + 1))
      BY <2>2, <3>1, <3>2, <3>3, <3>4, <3>5, Appends
    <3> QED BY <2>1, <3>6
  <2>5. CASE Condition(x).domain # domain
    <3>1. Had(n + 1) = Had(n)
      BY <2>3, <2>5
    <3>2. list[n + 1] = list[n]
      BY <1>2, <2>1, <2>5
    <3> HIDE DEF Had, x
    <3> QED BY <2>1, <2>2, <3>1, <3>2
  <2> QED BY <2>4, <2>5
<1>5. \A n \in 0 .. N : n \in Good
  <2> HIDE DEF Good, N
  <2> QED BY <1>1, <1>3, <1>4, UpTo
<1>6. RulesInOrder(list[N], Had(N))
  <2>1. N \in 0 .. N
    BY <1>1
  <2> HIDE DEF Had, N
  <2> QED BY <1>5, <2>1
<1>7. Had(N) = {r \in S : Condition(r).domain = domain}
  BY DEF RulesInOrder
<1> QED BY <1>6, <1>7

LEMMA OfDomainListed ==
  ASSUME OrdersOK, \A x \in served.rules : x.rule \in Rules, NEW domain
  PROVE  RulesInOrder(OfDomain(domain), {r \in {x.rule : x \in served.rules} :
                                     Condition(r).domain = domain})
<1> DEFINE S == {x.rule : x \in served.rules}
<1>1. S \in SUBSET Rules
  OBVIOUS
<1>2. SortedRules \in [1 .. Cardinality(S) -> S] /\ InOrder(SortedRules)
  <2> HIDE DEF S
  <2>1. \E list \in [1 .. Cardinality(S) -> S] : InOrder(list)
    BY <1>1, ListExists
  <2> QED BY <2>1 DEF SortedRules, S
<1>3. RulesInOrder(SortedRules, S)
  <2> HIDE DEF S
  <2> QED BY <1>1, <1>2, SortListed
<1>4. SortedRules \in Seq(Rules)
  BY <1>3 DEF RulesInOrder
<1> DEFINE list == CHOOSE list : Picks(list, SortedRules, domain)
<1>5. Picks(list, SortedRules, domain)
  BY <1>4, PicksExist
<1>6. OfDomain(domain) = list[Len(SortedRules)]
  BY DEF OfDomain, Picks
<1> HIDE DEF S, list
<1>7. RulesInOrder(list[Len(SortedRules)], {r \in S : Condition(r).domain = domain})
  BY <1>1, <1>3, <1>5, PicksListed
<1> QED BY <1>6, <1>7 DEF S

-----------------------------------------------------------------------------
(***************************************************************************)
(* The merge of two lists.                                                 *)
(***************************************************************************)
Places(any, own) == (1 .. Len(any) + 1) \X (1 .. Len(own) + 1)
AtEnd(any, own, p) == p[1] > Len(any) \/ p[2] > Len(own)
Rest(any, own, p) == SubSeq(any, p[1], Len(any)) \o SubSeq(own, p[2], Len(own))
AnyFirst(any, own, p) == Before(any[p[1]], own[p[2]])
Foremost(any, own, p) == IF AnyFirst(any, own, p) THEN any[p[1]] ELSE own[p[2]]
Onward(any, own, p) ==
  IF AnyFirst(any, own, p) THEN <<p[1] + 1, p[2]>> ELSE <<p[1], p[2] + 1>>

\* from[p] merges what the lists have from the places p on.
Merges(from, any, own) ==
  from = [p \in (1 .. Len(any) + 1) \X (1 .. Len(own) + 1) |->
            LET i == p[1]  j == p[2] IN
            IF i > Len(any) \/ j > Len(own)
            THEN SubSeq(any, i, Len(any)) \o SubSeq(own, j, Len(own))
            ELSE IF Before(any[i], own[j]) THEN <<any[i]>> \o from[<<i + 1, j>>]
                                           ELSE <<own[j]>> \o from[<<i, j + 1>>]]

LEMMA MergesMeans ==
  ASSUME NEW any, NEW own, NEW from
  PROVE  Merges(from, any, own) <=>
           from = [p \in Places(any, own) |->
                     IF AtEnd(any, own, p) THEN Rest(any, own, p)
                     ELSE <<Foremost(any, own, p)>> \o from[Onward(any, own, p)]]
<1> DEFINE old(p) == LET i == p[1]  j == p[2] IN
             IF i > Len(any) \/ j > Len(own)
             THEN SubSeq(any, i, Len(any)) \o SubSeq(own, j, Len(own))
             ELSE IF Before(any[i], own[j]) THEN <<any[i]>> \o from[<<i + 1, j>>]
                                            ELSE <<own[j]>> \o from[<<i, j + 1>>]
           new(p) == IF AtEnd(any, own, p) THEN Rest(any, own, p)
                     ELSE <<Foremost(any, own, p)>> \o from[Onward(any, own, p)]
<1>1. ASSUME NEW p \in Places(any, own) PROVE old(p) = new(p)
  <2>1. CASE AtEnd(any, own, p)
    BY <2>1 DEF AtEnd, Rest
  <2>2. CASE ~ AtEnd(any, own, p) /\ AnyFirst(any, own, p)
    BY <2>2 DEF AtEnd, AnyFirst, Foremost, Onward
  <2>3. CASE ~ AtEnd(any, own, p) /\ ~ AnyFirst(any, own, p)
    BY <2>3 DEF AtEnd, AnyFirst, Foremost, Onward
  <2> QED BY <2>1, <2>2, <2>3
<1>2. Merges(from, any, own) <=> from = [p \in Places(any, own) |-> old(p)]
  BY DEF Merges, Places
<1> HIDE DEF old, new
<1>3. [p \in Places(any, own) |-> old(p)] = [p \in Places(any, own) |-> new(p)]
  BY <1>1
<1>4. Merges(from, any, own) <=> from = [p \in Places(any, own) |-> new(p)]
  BY <1>2, <1>3
<1> QED BY <1>4 DEF new

LEMMA PlacesLeft ==
  ASSUME NEW a \in Nat, NEW b \in Nat, NEW i \in 1 .. a + 1, NEW j \in 1 .. b + 1
  PROVE  /\ (a + 1 - i) + (b + 1 - j) \in 0 .. a + b
         /\ (a + 1 - i) + (b + 1 - j) <= 0 => i > a \/ j > b
OBVIOUS

LEMMA MergesExist ==
  ASSUME NEW any \in Seq(Rules), NEW own \in Seq(Rules)
  PROVE  \E from : Merges(from, any, own)
<1> DEFINE left(p) == (Len(any) + 1 - p[1]) + (Len(own) + 1 - p[2])
           D(n) == {p \in Places(any, own) : left(p) <= n}
           ends(p) == AtEnd(any, own, p)
           rest(p) == Rest(any, own, p)
           front(p) == <<Foremost(any, own, p)>>
           next(p) == Onward(any, own, p)
           H(n) == \E g : g = [p \in D(n) |-> IF ends(p) THEN rest(p) ELSE front(p) \o g[next(p)]]
           N == Len(any) + Len(own)
           Good == {n \in 0 .. N : H(n)}
<1>1. Len(any) \in Nat /\ Len(own) \in Nat /\ N \in Nat
  OBVIOUS
<1>2. ASSUME NEW p \in Places(any, own)
      PROVE  /\ left(p) \in 0 .. N
             /\ left(p) <= 0 => ends(p)
             /\ ~ ends(p) => next(p) \in Places(any, own) /\ left(next(p)) = left(p) - 1
  <2>1. p[1] \in 1 .. Len(any) + 1 /\ p[2] \in 1 .. Len(own) + 1
    BY DEF Places
  <2>2. left(p) \in 0 .. N /\ (left(p) <= 0 => ends(p))
    BY <1>1, <2>1, PlacesLeft DEF AtEnd
  <2>3. ASSUME ~ ends(p)
        PROVE  next(p) \in Places(any, own) /\ left(next(p)) = left(p) - 1
    <3>1. p[1] + 1 \in 1 .. Len(any) + 1 /\ p[2] + 1 \in 1 .. Len(own) + 1
      BY <1>1, <2>1, <2>3 DEF AtEnd
    <3>2. CASE AnyFirst(any, own, p)
      <4>1. next(p) = <<p[1] + 1, p[2]>>
        BY <3>2 DEF Onward
      <4> HIDE DEF next
      <4> QED BY <1>1, <2>1, <3>1, <4>1 DEF Places
    <3>3. CASE ~ AnyFirst(any, own, p)
      <4>1. next(p) = <<p[1], p[2] + 1>>
        BY <3>3 DEF Onward
      <4> HIDE DEF next
      <4> QED BY <1>1, <2>1, <3>1, <4>1 DEF Places
    <3> QED BY <3>2, <3>3
  <2> QED BY <2>2, <2>3
<1> HIDE DEF left, ends, rest, front, next, N
<1>3. H(0)
  <2> DEFINE g == [p \in D(0) |-> rest(p)]
  <2>1. \A p \in D(0) : ends(p)
    BY <1>2
  <2>2. g = [p \in D(0) |-> IF ends(p) THEN rest(p) ELSE front(p) \o g[next(p)]]
    BY <2>1
  <2> QED BY <2>2
<1>4. ASSUME NEW n \in 0 .. N, H(n)
      PROVE  H(n + 1)
  <2>1. PICK g : g = [p \in D(n) |-> IF ends(p) THEN rest(p) ELSE front(p) \o g[next(p)]]
    BY <1>4
  <2> DEFINE h == [p \in D(n + 1) |-> IF ends(p) THEN rest(p) ELSE front(p) \o g[next(p)]]
  <2>2. \A p \in D(n) : p \in D(n + 1)
    <3>1. \A p \in D(n) : p \in Places(any, own) /\ left(p) <= n /\ left(p) \in Int
      BY <1>2
    <3> QED BY <1>1, <3>1
  <2>3. \A p \in D(n + 1) : ~ ends(p) => next(p) \in D(n)
    <3>1. \A p \in D(n + 1) : p \in Places(any, own) /\ left(p) <= n + 1 /\ left(p) \in Int
      BY <1>2
    <3> QED BY <1>1, <1>2, <3>1
  <2> HIDE DEF D
  <2>4. \A p \in D(n) : h[p] = g[p]
    <3>1. \A p \in D(n) : g[p] = IF ends(p) THEN rest(p) ELSE front(p) \o g[next(p)]
      BY <2>1
    <3>2. \A p \in D(n + 1) : h[p] = IF ends(p) THEN rest(p) ELSE front(p) \o g[next(p)]
      OBVIOUS
    <3> HIDE DEF h
    <3> QED BY <2>2, <3>1, <3>2
  <2>5. h = [p \in D(n + 1) |-> IF ends(p) THEN rest(p) ELSE front(p) \o h[next(p)]]
    BY <2>3, <2>4
  <2> QED BY <2>5
<1> HIDE DEF H
<1>5. 0 \in Good /\ \A n \in 0 .. N : n # N /\ n \in Good => n + 1 \in Good
  BY <1>1, <1>3, <1>4
<1>6. \A n \in 0 .. N : n \in Good
  <2> HIDE DEF Good
  <2> QED BY <1>1, <1>5, UpTo
<1>7. H(N)
  BY <1>1, <1>6
<1>8. D(N) = Places(any, own)
  BY <1>2
<1>9. \E g : g = [p \in Places(any, own) |-> IF ends(p) THEN rest(p) ELSE front(p) \o g[next(p)]]
  <2> HIDE DEF D
  <2> QED BY <1>7, <1>8 DEF H
<1> QED BY <1>9, MergesMeans DEF ends, rest, front, next

LEMMA MergeListed ==
  ASSUME OrdersOK, NEW any, NEW own, NEW A \in SUBSET Rules, NEW B \in SUBSET Rules,
         RulesInOrder(any, A), RulesInOrder(own, B), A \cap B = {}
  PROVE  RulesInOrder(Merge(any, own), A \cup B)
<1> DEFINE La == Len(any)
           Lo == Len(own)
           As(i) == {any[k] : k \in i .. La}
           Bs(j) == {own[k] : k \in j .. Lo}
           left(p) == (La + 1 - p[1]) + (Lo + 1 - p[2])
           N == La + Lo
           from == CHOOSE from : Merges(from, any, own)
           fits(n) == \A p \in Places(any, own) :
                        left(p) <= n => RulesInOrder(from[p], As(p[1]) \cup Bs(p[2]))
           Good == {n \in 0 .. N : fits(n)}
<1>1. /\ any \in Seq(Rules) /\ La \in Nat
      /\ own \in Seq(Rules) /\ Lo \in Nat /\ N \in Nat
  BY DEF RulesInOrder
<1>2. Merges(from, any, own)
  BY <1>1, MergesExist
<1>3. Merge(any, own) = from[<<1, 1>>]
  BY DEF Merge, Merges
<1> HIDE DEF from
<1>4. \A p \in Places(any, own) :
        from[p] = IF AtEnd(any, own, p) THEN Rest(any, own, p)
                  ELSE <<Foremost(any, own, p)>> \o from[Onward(any, own, p)]
  <2>1. from = [p \in Places(any, own) |->
                  IF AtEnd(any, own, p) THEN Rest(any, own, p)
                  ELSE <<Foremost(any, own, p)>> \o from[Onward(any, own, p)]]
    BY <1>2, MergesMeans
  <2> QED BY <2>1
<1>5. \A p \in Places(any, own) :
        /\ p[1] \in 1 .. La + 1 /\ p[2] \in 1 .. Lo + 1 /\ left(p) \in 0 .. N
        /\ left(p) <= 0 => AtEnd(any, own, p)
  <2>1. \A p \in Places(any, own) : p[1] \in 1 .. La + 1 /\ p[2] \in 1 .. Lo + 1
    BY DEF Places
  <2> QED BY <1>1, <2>1, PlacesLeft DEF AtEnd
<1>6. ASSUME NEW p \in Places(any, own), AtEnd(any, own, p)
      PROVE  RulesInOrder(from[p], As(p[1]) \cup Bs(p[2]))
  <2>1. from[p] = SubSeq(any, p[1], La) \o SubSeq(own, p[2], Lo)
    BY <1>4, <1>6 DEF Rest
  <2>2. p[1] \in 1 .. La + 1 /\ p[2] \in 1 .. Lo + 1
    BY <1>5
  <2>3. /\ RulesInOrder(SubSeq(any, p[1], La), As(p[1]))
        /\ RulesInOrder(SubSeq(own, p[2], Lo), Bs(p[2]))
    BY <2>2, Tails
  <2>4. /\ SubSeq(any, p[1], La) \in Seq(Rules)
        /\ SubSeq(own, p[2], Lo) \in Seq(Rules)
    BY <2>3 DEF RulesInOrder
  <2>5. CASE p[1] > La
    <3>1. SubSeq(any, p[1], La) = <<>>
      BY <1>1, <2>2, <2>5
    <3>2. from[p] = SubSeq(own, p[2], Lo)
      BY <2>1, <2>4, <3>1
    <3>3. As(p[1]) = {}
      BY <1>1, <2>2, <2>5
    <3> HIDE DEF As, Bs
    <3>4. As(p[1]) \cup Bs(p[2]) = Bs(p[2])
      BY <3>3
    <3> QED BY <2>3, <3>2, <3>4
  <2>6. CASE p[2] > Lo
    <3>1. SubSeq(own, p[2], Lo) = <<>>
      BY <1>1, <2>2, <2>6
    <3>2. from[p] = SubSeq(any, p[1], La)
      BY <2>1, <2>4, <3>1
    <3>3. Bs(p[2]) = {}
      BY <1>1, <2>2, <2>6
    <3> HIDE DEF As, Bs
    <3>4. As(p[1]) \cup Bs(p[2]) = As(p[1])
      BY <3>3
    <3> QED BY <2>3, <3>2, <3>4
  <2> QED BY <1>6, <2>5, <2>6 DEF AtEnd
<1>7. ASSUME NEW i \in 1 .. La, NEW j \in 1 .. Lo
      PROVE  /\ any[i] \in A /\ own[j] \in B /\ any[i] # own[j]
             /\ \A x \in As(i + 1) : Before(any[i], x)
             /\ \A y \in Bs(j + 1) : Before(own[j], y)
             /\ As(i) = As(i + 1) \cup {any[i]} /\ Bs(j) = Bs(j + 1) \cup {own[j]}
             /\ As(i) \subseteq Rules /\ Bs(j) \subseteq Rules
  <2>1. any[i] \in A /\ own[j] \in B
    BY DEF RulesInOrder
  <2>2. \A k \in i + 1 .. La : k \in 1 .. La /\ i < k
    BY <1>1
  <2>3. \A k \in j + 1 .. Lo : k \in 1 .. Lo /\ j < k
    BY <1>1
  <2>4. \A x \in As(i + 1) : Before(any[i], x)
    BY <1>1, <2>2 DEF RulesInOrder, InOrder
  <2>5. \A y \in Bs(j + 1) : Before(own[j], y)
    BY <1>1, <2>3 DEF RulesInOrder, InOrder
  <2>6. i .. La = (i + 1 .. La) \cup {i} /\ j .. Lo = (j + 1 .. Lo) \cup {j}
    BY <1>1
  <2>7. As(i) = As(i + 1) \cup {any[i]} /\ Bs(j) = Bs(j + 1) \cup {own[j]}
    BY <2>6
  <2>8. As(i) \subseteq Rules /\ Bs(j) \subseteq Rules
    <3>1. i .. La \subseteq 1 .. La /\ j .. Lo \subseteq 1 .. Lo
      BY <1>1
    <3> QED BY <1>1, <3>1
  <2> QED BY <2>1, <2>4, <2>5, <2>7, <2>8
<1>8. 0 \in Good
  <2>1. fits(0)
    <3> HIDE DEF left, As, Bs, La, Lo
    <3> QED BY <1>5, <1>6
  <2> HIDE DEF fits, N
  <2> QED BY <1>1, <2>1
<1>9. ASSUME NEW n \in 0 .. N, n # N, n \in Good
      PROVE  n + 1 \in Good
  <2>0. SUFFICES fits(n + 1)
    <3>1. n + 1 \in 0 .. N
      BY <1>1, <1>9
    <3> HIDE DEF fits, N
    <3> QED BY <3>1
  <2>1. SUFFICES ASSUME NEW p \in Places(any, own), left(p) <= n + 1
                 PROVE  RulesInOrder(from[p], As(p[1]) \cup Bs(p[2]))
    <3> HIDE DEF left, As, Bs
    <3> QED OBVIOUS
  <2>2. CASE AtEnd(any, own, p)
    BY <1>6, <2>2
  <2>3. CASE ~ AtEnd(any, own, p)
    <3> DEFINE i == p[1]
               j == p[2]
    <3>1. i \in 1 .. La /\ j \in 1 .. Lo
      BY <1>1, <1>5, <2>3 DEF AtEnd
    <3>2. \A q \in Places(any, own) : left(q) <= n => RulesInOrder(from[q], As(q[1]) \cup Bs(q[2]))
      BY <1>9
    <3>3. any[i] \in Rules /\ own[j] \in Rules
      BY <1>7, <3>1
    <3>4. CASE Before(any[i], own[j])
      <4>1. from[p] = <<any[i]>> \o from[<<i + 1, j>>]
        BY <1>4, <2>3, <3>4 DEF Foremost, Onward, AnyFirst
      <4>2. <<i + 1, j>> \in Places(any, own) /\ left(<<i + 1, j>>) <= n
        BY <1>1, <2>1, <3>1 DEF Places
      <4>3. RulesInOrder(from[<<i + 1, j>>], As(i + 1) \cup Bs(j))
        BY <3>2, <4>2
      <4>4. \A y \in As(i + 1) \cup Bs(j) : Before(any[i], y)
        <5>1. \A y \in Bs(j) : y = own[j] \/ (y \in Rules /\ Before(own[j], y))
          <6> HIDE DEF As, Bs, La, Lo, i, j
          <6> QED BY <1>7, <3>1
        <5>2. \A y \in Bs(j) : Before(any[i], y)
          BY <3>3, <3>4, <5>1, BeforeOrders
        <5> HIDE DEF As, Bs, La, Lo, i, j
        <5> QED BY <1>7, <3>1, <5>2
      <4> HIDE DEF As, Bs, La, Lo, i, j
      <4>5. As(i + 1) \cup Bs(j) \in SUBSET Rules
        BY <1>7, <3>1
      <4>6. RulesInOrder(from[p], (As(i + 1) \cup Bs(j)) \cup {any[i]})
        BY <3>3, <4>1, <4>3, <4>4, <4>5, Prepends
      <4>7. As(i) \cup Bs(j) = (As(i + 1) \cup Bs(j)) \cup {any[i]}
        BY <1>7, <3>1
      <4> QED BY <4>6, <4>7 DEF i, j
    <3>5. CASE ~ Before(any[i], own[j])
      <4>1. from[p] = <<own[j]>> \o from[<<i, j + 1>>]
        BY <1>4, <2>3, <3>5 DEF Foremost, Onward, AnyFirst
      <4>2. <<i, j + 1>> \in Places(any, own) /\ left(<<i, j + 1>>) <= n
        BY <1>1, <2>1, <3>1 DEF Places
      <4>3. RulesInOrder(from[<<i, j + 1>>], As(i) \cup Bs(j + 1))
        BY <3>2, <4>2
      <4>4. Before(own[j], any[i])
        BY <1>7, <3>1, <3>3, <3>5, BeforeOrders
      <4>5. \A y \in As(i) \cup Bs(j + 1) : Before(own[j], y)
        <5>1. \A y \in As(i) : y = any[i] \/ (y \in Rules /\ Before(any[i], y))
          <6> HIDE DEF As, Bs, La, Lo, i, j
          <6> QED BY <1>7, <3>1
        <5>2. \A y \in As(i) : Before(own[j], y)
          BY <3>3, <4>4, <5>1, BeforeOrders
        <5> HIDE DEF As, Bs, La, Lo, i, j
        <5> QED BY <1>7, <3>1, <5>2
      <4> HIDE DEF As, Bs, La, Lo, i, j
      <4>6. As(i) \cup Bs(j + 1) \in SUBSET Rules
        BY <1>7, <3>1
      <4>7. RulesInOrder(from[p], (As(i) \cup Bs(j + 1)) \cup {own[j]})
        BY <3>3, <4>1, <4>3, <4>5, <4>6, Prepends
      <4>8. As(i) \cup Bs(j) = (As(i) \cup Bs(j + 1)) \cup {own[j]}
        BY <1>7, <3>1
      <4> QED BY <4>7, <4>8 DEF i, j
    <3> QED BY <3>4, <3>5
  <2> QED BY <2>2, <2>3
<1>10. \A n \in 0 .. N : n \in Good
  <2> HIDE DEF Good, N
  <2> QED BY <1>1, <1>8, <1>9, UpTo
<1>11. <<1, 1>> \in Places(any, own) /\ left(<<1, 1>>) = N
  BY <1>1 DEF Places
<1>12. RulesInOrder(from[<<1, 1>>], As(1) \cup Bs(1))
  <2>1. N \in 0 .. N /\ N <= N
    BY <1>1
  <2>2. fits(N)
    <3> HIDE DEF fits, N
    <3> QED BY <1>10, <2>1
  <2> HIDE DEF left, N, As, Bs
  <2> QED BY <1>1, <1>11, <2>1, <2>2
<1>13. As(1) = A /\ Bs(1) = B
  BY DEF RulesInOrder
<1> HIDE DEF As, Bs
<1> QED BY <1>3, <1>12, <1>13

-----------------------------------------------------------------------------
(***************************************************************************)
(* The match.                                                              *)
(***************************************************************************)
LEMMA CandidatesListed ==
  ASSUME OrdersOK, \A x \in served.rules : x.rule \in Rules, NEW host \in Hosts \cup {None}
  PROVE  RulesInOrder(Candidates(host), {r \in {x.rule : x \in served.rules} :
                                     Condition(r).domain \in {None, host}})
<1> DEFINE S == {x.rule : x \in served.rules}
           of(domain) == {r \in S : Condition(r).domain = domain}
           any == OfDomain(None)
           own == OfDomain(host)
           all == {r \in S : Condition(r).domain \in {None, host}}
<1>1. S \in SUBSET Rules
  OBVIOUS
<1>2. RulesInOrder(any, of(None)) /\ RulesInOrder(own, of(host))
  BY OfDomainListed
<1>3. of(None) \in SUBSET Rules /\ of(host) \in SUBSET Rules
  BY <1>1
<1>4. CASE host # None /\ own # <<>>
  <2>1. of(None) \cap of(host) = {}
    BY <1>4
  <2>2. Candidates(host) = Merge(any, own)
    BY <1>4 DEF Candidates
  <2>3. all = of(None) \cup of(host)
    OBVIOUS
  <2> HIDE DEF of, any, own, S, all
  <2>4. RulesInOrder(Merge(any, own), of(None) \cup of(host))
    BY <1>2, <1>3, <2>1, MergeListed
  <2> QED BY <2>2, <2>3, <2>4 DEF all, S
<1>5. CASE ~ (host # None /\ own # <<>>)
  <2>1. Candidates(host) = any
    BY <1>5 DEF Candidates
  <2>2. all = of(None)
    <3>1. CASE host = None
      BY <3>1
    <3>2. CASE own = <<>>
      <4>1. of(host) = {}
        <5> HIDE DEF of, own
        <5> QED BY <1>2, <3>2 DEF RulesInOrder
      <4> QED BY <4>1
    <3> QED BY <1>5, <3>1, <3>2
  <2> HIDE DEF of, any, own, S, all
  <2>3. RulesInOrder(Candidates(host), all)
    BY <1>2, <2>1, <2>2
  <2> QED BY <2>3 DEF all, S
<1> QED BY <1>4, <1>5

LEMMA FirstMatches ==
  ASSUME OrdersOK, \A x \in served.rules : x.rule \in Rules
  PROVE  FirstInOrderWins
<1> SUFFICES ASSUME NEW host \in Hosts \cup {None}, NEW path \in setting.paths
             PROVE  LET fit == {r \in {x.rule : x \in served.rules} :
                                  Condition(r).domain \in {None, host} /\ MatchRoutePath(r, path)}
                        hit == Match(host, path)
                    IN  IF fit = {} THEN hit = None
                        ELSE hit \in fit /\ ~ \E r \in fit : Before(r, hit)
  BY DEF FirstInOrderWins
<1> DEFINE all == {r \in {x.rule : x \in served.rules} : Condition(r).domain \in {None, host}}
           fit == {r \in {x.rule : x \in served.rules} :
                     Condition(r).domain \in {None, host} /\ MatchRoutePath(r, path)}
           cands == Candidates(host)
           hits == {i \in DOMAIN cands : MatchRoutePath(cands[i], path)}
           hit == Match(host, path)
<1>1. fit = {r \in all : MatchRoutePath(r, path)} /\ all \subseteq Rules
  OBVIOUS
<1>2. hit = IF hits = {} THEN None ELSE cands[Min(hits)]
  BY DEF Match
<1>3. RulesInOrder(cands, all)
  BY CandidatesListed
<1> HIDE DEF all, fit, cands, hit
<1>4. cands \in Seq(Rules) /\ DOMAIN cands = 1 .. Len(cands) /\ hits \in SUBSET Nat
  BY <1>3 DEF RulesInOrder
<1>5. \A r : r \in all <=> \E i \in DOMAIN cands : cands[i] = r
  BY <1>3, <1>4 DEF RulesInOrder
<1>6. CASE hits = {}
  <2>1. fit = {}
    BY <1>1, <1>5, <1>6
  <2> QED BY <1>2, <1>6, <2>1 DEF fit, hit
<1>7. CASE hits # {}
  <2> DEFINE i == Min(hits)
  <2>1. i \in hits /\ \A j \in hits : i <= j
    BY <1>4, <1>7, MinLeast
  <2> HIDE DEF i
  <2>2. hit = cands[i] /\ i \in DOMAIN cands /\ MatchRoutePath(cands[i], path)
    BY <1>2, <1>7, <2>1 DEF i
  <2>3. hit \in fit
    BY <1>1, <1>5, <2>2
  <2>4. ASSUME NEW r \in fit, Before(r, hit)
        PROVE  FALSE
    <3>1. r \in Rules /\ hit \in Rules
      BY <1>1, <2>3
    <3>2. PICK j \in DOMAIN cands : cands[j] = r
      BY <1>1, <1>5
    <3>3. j \in hits
      BY <1>1, <3>2
    <3>4. i <= j /\ i \in Nat /\ j \in Nat
      BY <1>4, <2>1, <3>3
    <3>5. i = j \/ Before(hit, r)
      BY <1>3, <2>2, <3>2, <3>4 DEF RulesInOrder, InOrder
    <3> QED BY <2>2, <2>4, <3>1, <3>2, <3>5, BeforeOrders
  <2>5. fit # {}
    BY <2>3
  <2> QED BY <2>3, <2>4, <2>5 DEF fit, hit
<1> QED BY <1>6, <1>7

-----------------------------------------------------------------------------
(***************************************************************************)
(* The rules of a snapshot, and of what a Rebuild has loaded, are rules.   *)
(***************************************************************************)
Named(g) == \A x \in g.rules : x.rule \in Rules

RulesNamed == Named(served) /\ \A a \in Admins : Named(call[a].input)

\* A goes on with such an input.
Carries(a) == \E next : Goes(a, next) /\ Named(next.input)

LEMMA RowsNamed ==
  /\ \A t : Named(Graph(t))
  /\ Named(Idle.input)
  /\ \A a : Named(Written(a).input)
<1>1. ASSUME NEW t PROVE Named(Graph(t))
  BY DEF Named, Graph, RuleRows
<1>2. Named(Idle.input)
  BY DEF Named, Idle, NoGraph
<1>3. ASSUME NEW a PROVE Written(a).input = Idle.input
  BY DEF Written, Idle
<1> QED BY <1>1, <1>2, <1>3

LEMMA StatementsCarry ==
  ASSUME NEW a
  PROVE  /\ \A c : Begin(a, c) /\ Shaped(c) /\ Named(c.input) => Carries(a)
         /\ \A ok, next : Check(a, ok, next) /\ Named(next.input) => Carries(a)
         /\ \A t, unique, next : Write(a, t, unique, next) /\ Named(next.input) => Carries(a)
         /\ \A t, unique, next : WriteTags(a, t, unique, next) /\ Named(next.input) => Carries(a)
         /\ AnswerError(a) => Carries(a)
<1>1. ASSUME NEW c, Begin(a, c), Shaped(c), Named(c.input)
      PROVE  Carries(a)
  <2>1. Goes(a, [c EXCEPT !.tag = calls + 1])
    BY <1>1 DEF Begin, Goes
  <2>2. [c EXCEPT !.tag = calls + 1].input = c.input
    BY <1>1 DEF Shaped
  <2> QED BY <1>1, <2>1, <2>2 DEF Carries
<1>2. ASSUME NEW ok, NEW next, Check(a, ok, next), Named(next.input)
      PROVE  Carries(a)
  <2>1. Goes(a, next) \/ Goes(a, Idle)
    BY <1>2 DEF Check, Goes
  <2> QED BY <1>2, <2>1, RowsNamed DEF Carries
<1>3. AnswerError(a) => Carries(a)
  <2>1. AnswerError(a) => Goes(a, Idle)
    BY DEF AnswerError, Goes
  <2> QED BY <2>1, RowsNamed DEF Carries
<1>4. ASSUME NEW t, NEW unique, NEW next, Named(next.input),
             Write(a, t, unique, next) \/ WriteTags(a, t, unique, next)
      PROVE  Carries(a)
  <2>1. Goes(a, next) \/ AnswerError(a)
    BY <1>4 DEF Write, WriteTags, Goes
  <2> QED BY <1>3, <1>4, <2>1 DEF Carries
<1> QED BY <1>1, <1>2, <1>3, <1>4

LEMMA Carried ==
  ASSUME ShapeOK, RulesNamed, NEW a \in Admins, Carries(a)
  PROVE  \A b \in Admins : Named(call'[b].input)
<1>1. PICK next : Goes(a, next) /\ Named(next.input)
  BY DEF Carries
<1>2. call'[a] = next /\ \A b \in Admins : b # a => call'[b] = call[b]
  BY <1>1 DEF ShapeOK, Goes
<1> QED BY <1>1, <1>2 DEF RulesNamed

LEMMA EditsNamed ==
  ASSUME NEW c, Shaped(c), Named(c.input), NEW v, NEW w
  PROVE  /\ Named([c EXCEPT !.at = v].input) /\ Named([c EXCEPT !.todo = v].input)
         /\ Named([c EXCEPT !.at = v, !.url = w].input)
         /\ Named([c EXCEPT !.at = v, !.up = w].input)
         /\ Named([c EXCEPT !.at = v, !.id = w].input)
         /\ Named([c EXCEPT !.at = v, !.todo = w].input)
         /\ Named([c EXCEPT !.at = v, !.label = w].input)
         /\ Named([c EXCEPT !.at = v, !.stamp = w].input)
         /\ \A x : Named([c EXCEPT !.at = v, !.label = w, !.id = x].input)
<1>1. /\ [c EXCEPT !.at = v].input = c.input /\ [c EXCEPT !.todo = v].input = c.input
      /\ [c EXCEPT !.at = v, !.url = w].input = c.input
      /\ [c EXCEPT !.at = v, !.up = w].input = c.input
  BY DEF Shaped
<1>2. /\ [c EXCEPT !.at = v, !.id = w].input = c.input
      /\ [c EXCEPT !.at = v, !.todo = w].input = c.input
      /\ [c EXCEPT !.at = v, !.label = w].input = c.input
      /\ [c EXCEPT !.at = v, !.stamp = w].input = c.input
  BY DEF Shaped
<1>3. \A x : [c EXCEPT !.at = v, !.label = w, !.id = x].input = c.input
  BY DEF Shaped
<1> QED BY <1>1, <1>2, <1>3

LEMMA NodeCallCarries ==
  ASSUME NEW a, Shaped(call[a]), Named(call[a].input), NodeCall(a)
  PROVE  Carries(a)
<1>1. ASSUME NEW n, NEW url, SaveNode(a, n, url)
      PROVE  Carries(a)
  <2> DEFINE c == [Idle EXCEPT !.at = "url", !.op = "save", !.node = n, !.url = url]
  <2>1. Begin(a, c)
    BY <1>1 DEF SaveNode
  <2>2. Shaped(c)
    BY IdleShape, Edits
  <2>3. c.input = Idle.input
    BY DEF Idle
  <2> HIDE DEF c
  <2> QED BY <2>1, <2>2, <2>3, RowsNamed, StatementsCarry
<1>2. ASSUME NEW n, DeleteNode(a, n)
      PROVE  Carries(a)
  <2> DEFINE c == [Idle EXCEPT !.at = "related", !.node = n]
  <2>1. Begin(a, c)
    BY <1>2 DEF DeleteNode
  <2>2. Shaped(c)
    BY IdleShape, Edits
  <2>3. c.input = Idle.input
    BY DEF Idle
  <2> HIDE DEF c
  <2> QED BY <2>1, <2>2, <2>3, RowsNamed, StatementsCarry
<1>3. ASSUME NEW n, RestoreNode(a, n)
      PROVE  Carries(a)
  <2> DEFINE c == [Idle EXCEPT !.at = "readNode", !.op = "restore", !.node = n]
  <2>1. Begin(a, c)
    BY <1>3 DEF RestoreNode
  <2>2. Shaped(c)
    BY IdleShape, Edits
  <2>3. c.input = Idle.input
    BY DEF Idle
  <2> HIDE DEF c
  <2> QED BY <2>1, <2>2, <2>3, RowsNamed, StatementsCarry
<1>4. CASE ReadDeletedNode(a) \/ CheckUrl(a) \/ CountRelations(a)
  BY <1>4, EditsNamed, StatementsCarry DEF ReadDeletedNode, CheckUrl, CountRelations
<1>5. CASE WriteNode(a) \/ DropNode(a)
  BY <1>5, RowsNamed, StatementsCarry DEF WriteNode, DropNode
<1> QED BY <1>1, <1>2, <1>3, <1>4, <1>5 DEF NodeCall

LEMMA RuleCallCarries ==
  ASSUME NEW a, Shaped(call[a]), Named(call[a].input), RuleCall(a)
  PROVE  Carries(a)
<1>1. ASSUME NEW r, NEW u, NEW on, NEW labels, SaveRule(a, r, u, on, labels)
      PROVE  Carries(a)
  <2> DEFINE c == [Idle EXCEPT !.at = "exists", !.op = "save", !.rule = r, !.up = u, !.on = on,
                               !.labels = labels]
  <2>1. Begin(a, c)
    BY <1>1 DEF SaveRule
  <2>2. Shaped(c)
    BY IdleShape, Edits
  <2>3. c.input = Idle.input
    BY DEF Idle
  <2> HIDE DEF c
  <2> QED BY <2>1, <2>2, <2>3, RowsNamed, StatementsCarry
<1>2. ASSUME NEW r, DeleteRule(a, r)
      PROVE  Carries(a)
  <2> DEFINE c == [Idle EXCEPT !.at = "dropRule", !.rule = r]
  <2>1. Begin(a, c)
    BY <1>2 DEF DeleteRule
  <2>2. Shaped(c)
    BY IdleShape, Edits
  <2>3. c.input = Idle.input
    BY DEF Idle
  <2> HIDE DEF c
  <2> QED BY <2>1, <2>2, <2>3, RowsNamed, StatementsCarry
<1>3. ASSUME NEW r, RestoreRule(a, r)
      PROVE  Carries(a)
  <2> DEFINE c == [Idle EXCEPT !.at = "readRule", !.op = "restore", !.rule = r]
  <2>1. Begin(a, c)
    BY <1>3 DEF RestoreRule
  <2>2. Shaped(c)
    BY IdleShape, Edits
  <2>3. c.input = Idle.input
    BY DEF Idle
  <2> HIDE DEF c
  <2> QED BY <2>1, <2>2, <2>3, RowsNamed, StatementsCarry
<1>4. CASE ReadDeletedRule(a) \/ CheckUpstream(a)
  BY <1>4, EditsNamed, StatementsCarry DEF ReadDeletedRule, CheckUpstream
<1>5. CASE ReviveRule(a) \/ DropRule(a)
  BY <1>5, RowsNamed, StatementsCarry DEF ReviveRule, DropRule
<1>6. CASE WriteRule(a)
  <2>1. Goes(a, [call[a] EXCEPT !.at = "ruleTags"])
    BY <1>6 DEF WriteRule, Goto, Goes
  <2> QED BY <2>1, EditsNamed DEF Carries
<1> QED BY <1>1, <1>2, <1>3, <1>4, <1>5, <1>6 DEF RuleCall

LEMMA TaggingNamed ==
  ASSUME NEW a, Shaped(call[a]), Named(call[a].input)
  PROVE  /\ \A names : Named(Tagging(a, names).input)
         /\ \A rows : Named(Untagging(a, rows).input)
<1>1. ASSUME NEW names PROVE Named(Tagging(a, names).input)
  BY EditsNamed, RowsNamed DEF Tagging
<1>2. ASSUME NEW rows PROVE Named(Untagging(a, rows).input)
  BY <1>1, EditsNamed DEF Untagging
<1> QED BY <1>1, <1>2

LEMMA TagCallCarries ==
  ASSUME NEW a, Shaped(call[a]), Named(call[a].input), TagCall(a)
  PROVE  Carries(a)
<1>1. ASSUME NEW label, AddTag(a, label)
      PROVE  Carries(a)
  <2> DEFINE c == [Idle EXCEPT !.at = "name", !.op = "add", !.label = label]
  <2>1. Begin(a, c)
    BY <1>1 DEF AddTag
  <2>2. Shaped(c)
    BY IdleShape, Edits
  <2>3. c.input = Idle.input
    BY DEF Idle
  <2> HIDE DEF c
  <2> QED BY <2>1, <2>2, <2>3, RowsNamed, StatementsCarry
<1>2. ASSUME NEW i, NEW label, TagsUpdate(a, i, label)
      PROVE  Carries(a)
  <2> DEFINE c == [Idle EXCEPT !.at = "name", !.op = "rename", !.label = label, !.id = i]
  <2>1. Begin(a, c)
    BY <1>2 DEF TagsUpdate
  <2>2. Shaped(c)
    BY IdleShape, Edits
  <2>3. c.input = Idle.input
    BY DEF Idle
  <2> HIDE DEF c
  <2> QED BY <2>1, <2>2, <2>3, RowsNamed, StatementsCarry
<1>3. ASSUME NEW i, TagsDelete(a, i)
      PROVE  Carries(a)
  <2> DEFINE c == [Idle EXCEPT !.at = "tagRules", !.op = "dropTag", !.id = i]
  <2>1. Begin(a, c)
    BY <1>3 DEF TagsDelete
  <2>2. Shaped(c)
    BY IdleShape, Edits
  <2>3. c.input = Idle.input
    BY DEF Idle
  <2> HIDE DEF c
  <2> QED BY <2>1, <2>2, <2>3, RowsNamed, StatementsCarry
<1>4. CASE CheckName(a) \/ ListRuleTags(a) \/ ListTagRules(a)
  BY <1>4, EditsNamed, TaggingNamed, StatementsCarry DEF CheckName, ListRuleTags, ListTagRules
<1>5. CASE FindTag(a)
  BY <1>5, EditsNamed, StatementsCarry DEF FindTag
<1>6. CASE Untag(a) \/ TagRule(a)
  BY <1>6, TaggingNamed, StatementsCarry DEF Untag, TagRule
<1>7. CASE NewTag(a)
  BY <1>7, EditsNamed, RowsNamed, StatementsCarry DEF NewTag
<1>8. CASE RenameTag(a) \/ DropTag(a)
  <2>1. Goes(a, Idle) \/ AnswerError(a)
    BY <1>8 DEF RenameTag, DropTag, Goes
  <2> QED BY <2>1, RowsNamed, StatementsCarry DEF Carries
<1> QED BY <1>1, <1>2, <1>3, <1>4, <1>5, <1>6, <1>7, <1>8 DEF TagCall

LEMMA UpstreamCallCarries ==
  ASSUME NEW a, Shaped(call[a]), Named(call[a].input), UpstreamCall(a)
  PROVE  Carries(a)
<1>1. ASSUME NEW u, NEW group, SaveUpstream(a, u, group)
      PROVE  Carries(a)
  <2> DEFINE c == [Idle EXCEPT !.at = "nodes", !.up = u, !.group = group, !.todo = group]
  <2>1. Begin(a, c)
    BY <1>1 DEF SaveUpstream
  <2>2. Shaped(c)
    BY IdleShape, Edits
  <2>3. c.input = Idle.input
    BY DEF Idle
  <2> HIDE DEF c
  <2> QED BY <2>1, <2>2, <2>3, RowsNamed, StatementsCarry
<1>2. ASSUME NEW u, DeleteUpstream(a, u)
      PROVE  Carries(a)
  <2> DEFINE c == [Idle EXCEPT !.at = "used", !.up = u]
  <2>1. Begin(a, c)
    BY <1>2 DEF DeleteUpstream
  <2>2. Shaped(c)
    BY IdleShape, Edits
  <2>3. c.input = Idle.input
    BY DEF Idle
  <2> HIDE DEF c
  <2> QED BY <2>1, <2>2, <2>3, RowsNamed, StatementsCarry
<1>3. ASSUME NEW u, RestoreUpstream(a, u)
      PROVE  Carries(a)
  <2> DEFINE c == [Idle EXCEPT !.at = "readUp", !.up = u]
  <2>1. Begin(a, c)
    BY <1>3 DEF RestoreUpstream
  <2>2. Shaped(c)
    BY IdleShape, Edits
  <2>3. c.input = Idle.input
    BY DEF Idle
  <2> HIDE DEF c
  <2> QED BY <2>1, <2>2, <2>3, RowsNamed, StatementsCarry
<1>4. CASE CheckNode(a) \/ CountRules(a) \/ ListRelations(a) \/ EndRemoval(a)
  <2>1. CASE CheckNode(a)
    <3>1. PICK n \in call[a].todo :
            Check(a, ActiveNode(db, n), [call[a] EXCEPT !.todo = @ \ {n}])
      BY <2>1 DEF CheckNode
    <3>2. Named([call[a] EXCEPT !.todo = @ \ {n}].input)
      BY EditsNamed
    <3> QED BY <3>1, <3>2, StatementsCarry
  <2> QED BY <1>4, <2>1, EditsNamed, StatementsCarry
          DEF CountRules, ListRelations, EndRemoval
<1>5. CASE WriteUpstream(a) \/ DropUpstream(a)
  <2>1. Goes(a, [call[a] EXCEPT !.at = "list"])
    BY <1>5 DEF WriteUpstream, DropUpstream, Goto, Goes
  <2> QED BY <2>1, EditsNamed DEF Carries
<1>6. CASE EndInsertion(a)
  BY <1>6, RowsNamed, StatementsCarry DEF EndInsertion
<1>7. CASE RemoveRelation(a) \/ InsertRelation(a)
  <2>1. \A x : Named([call[a] EXCEPT !.todo = @ \ {x}].input)
    BY EditsNamed
  <2>2. PICK t, unique, x : Write(a, t, unique, [call[a] EXCEPT !.todo = @ \ {x}])
    BY <1>7 DEF RemoveRelation, InsertRelation
  <2> QED BY <2>1, <2>2, StatementsCarry
<1>8. CASE RestoreRow(a)
  BY <1>8, EditsNamed, RowsNamed, StatementsCarry DEF RestoreRow
<1>9. CASE ReadDeletedUpstream(a) \/ ReadStamp(a)
  BY <1>9, EditsNamed, StatementsCarry DEF ReadDeletedUpstream, ReadStamp
<1>10. CASE ReviveRelations(a)
  <2>1. Goes(a, Written(a)) \/ AnswerError(a)
    BY <1>10 DEF ReviveRelations, Goes
  <2> QED BY <2>1, RowsNamed, StatementsCarry DEF Carries
<1> QED BY <1>1, <1>2, <1>3, <1>4, <1>5, <1>6, <1>7, <1>8, <1>9, <1>10 DEF UpstreamCall

LEMMA RebuildCarries ==
  ASSUME NEW a, Shaped(call[a]), Named(call[a].input), Rebuild(a)
  PROVE  Carries(a) /\ (Named(served) => Named(served'))
<1>1. CASE LoadRules(a)
  <2> DEFINE next == [call[a] EXCEPT !.at = "loadUps", !.input.rules = RuleRows(db)]
  <2>1. Check(a, TRUE, next) /\ served' = served
    BY <1>1 DEF LoadRules, Check
  <2>2. next.input.rules = RuleRows(db)
    BY DEF Shaped
  <2>3. Named(next.input)
    BY <2>2 DEF Named, RuleRows
  <2> HIDE DEF next
  <2> QED BY <2>1, <2>3, StatementsCarry
<1>2. CASE LoadUpstreams(a)
  <2> DEFINE next == [call[a] EXCEPT !.at = "loadNodes", !.input.ups = UpRows(db)]
  <2>1. Check(a, TRUE, next) /\ served' = served
    BY <1>2 DEF LoadUpstreams, Check
  <2>2. next.input.rules = call[a].input.rules
    BY DEF Shaped
  <2>3. Named(next.input)
    BY <2>2 DEF Named
  <2> HIDE DEF next
  <2> QED BY <2>1, <2>3, StatementsCarry
<1>3. CASE LoadNodes(a)
  <2> DEFINE next == [call[a] EXCEPT !.at = "loadRels", !.input.nodes = NodeRows(db)]
  <2>1. Check(a, TRUE, next) /\ served' = served
    BY <1>3 DEF LoadNodes, Check
  <2>2. next.input.rules = call[a].input.rules
    BY DEF Shaped
  <2>3. Named(next.input)
    BY <2>2 DEF Named
  <2> HIDE DEF next
  <2> QED BY <2>1, <2>3, StatementsCarry
<1>4. CASE LoadRelations(a)
  <2> DEFINE next == [call[a] EXCEPT !.at = "store", !.input.rels = Relations(db)]
  <2>1. Check(a, TRUE, next) /\ served' = served
    BY <1>4 DEF LoadRelations, Check
  <2>2. next.input.rules = call[a].input.rules
    BY DEF Shaped
  <2>3. Named(next.input)
    BY <2>2 DEF Named
  <2> HIDE DEF next
  <2> QED BY <2>1, <2>3, StatementsCarry
<1>5. CASE StoreSnapshot(a)
  <2>1. Goes(a, Idle) \/ AnswerError(a)
    BY <1>5 DEF StoreSnapshot, Goes
  <2>2. served' = call[a].input \/ served' = served
    BY <1>5 DEF StoreSnapshot
  <2> QED BY <2>1, <2>2, RowsNamed, StatementsCarry DEF Carries
<1> QED BY <1>1, <1>2, <1>3, <1>4, <1>5 DEF Rebuild

LEMMA NamesStart == Init => RulesNamed
BY RowsNamed DEF Init, RulesNamed

LEMMA NamesStep ==
  ShapeOK /\ RulesNamed /\ [Next]_vars => RulesNamed'
<1> SUFFICES ASSUME ShapeOK, RulesNamed, [Next]_vars PROVE RulesNamed'
  OBVIOUS
<1>1. CASE UNCHANGED vars
  BY <1>1 DEF vars, RulesNamed
<1>2. ASSUME NEW a \in Admins, Carries(a), served' = served
      PROVE  RulesNamed'
  BY <1>2, Carried DEF RulesNamed
<1>3. ASSUME NEW a \in Admins,
             NodeCall(a) \/ RuleCall(a) \/ TagCall(a) \/ UpstreamCall(a) \/ Fail(a)
      PROVE  RulesNamed'
  <2>1. Shaped(call[a]) /\ Named(call[a].input)
    BY DEF ShapeOK, RulesNamed
  <2>2. served' = served
    BY <1>3, NodeCallServes, RuleCallServes, TagCallServes, UpstreamCallServes DEF Fail
  <2>3. Carries(a)
    BY <1>3, <2>1, NodeCallCarries, RuleCallCarries, TagCallCarries, UpstreamCallCarries,
       StatementsCarry DEF Fail
  <2> QED BY <1>2, <2>2, <2>3
<1>4. ASSUME NEW a \in Admins, Rebuild(a)
      PROVE  RulesNamed'
  <2>1. Shaped(call[a]) /\ Named(call[a].input)
    BY DEF ShapeOK, RulesNamed
  <2> QED BY <1>4, <2>1, RebuildCarries, Carried DEF RulesNamed
<1> QED BY <1>1, <1>3, <1>4 DEF Next

LEMMA OrdersStay == OrdersOK /\ [TrafficNext]_trafficVars => OrdersOK'
<1> SUFFICES ASSUME OrdersOK, [TrafficNext]_trafficVars PROVE OrdersOK'
  OBVIOUS
<1>1. setting' = setting
  <2>1. ASSUME NEW n \in Nodes, OnResponse(n) \/ Probe(n)
        PROVE  setting' = setting
    BY <2>1 DEF OnResponse, Probe
  <2>2. ASSUME NEW host, NEW path, NEW cookie, Handle(host, path, cookie)
        PROVE  setting' = setting
    BY <2>2 DEF Handle
  <2> QED BY <2>1, <2>2 DEF TrafficNext, trafficVars
<1> QED BY <1>1 DEF OrdersOK, Condition, shape

\* The first match in global order wins: the merged lists give every host and
\* path the rule that a scan of all rules by match_order and id would give, for
\* every set of rules and whatever is in force (buildHostCandidates and sortRules,
\* src/plugins/dispatch/model.go:245).
THEOREM FirstMatchWins == TrafficSpec => []FirstInOrderWins
<1>1. TrafficInit => OrdersOK
  BY OrdersAssumption DEF TrafficInit, OrdersOK, Condition, shape
<1>2. OrdersOK /\ [TrafficNext]_trafficVars => OrdersOK'
  BY OrdersStay
<1>3. Spec => []RouteTablesInv
  BY RouteTablesStart, RouteTablesStep, PTL DEF Spec
<1>4. RouteTablesInv => ShapeOK
  BY DEF RouteTablesInv
<1>5. Spec => []RulesNamed
  BY <1>3, <1>4, NamesStart, NamesStep, PTL DEF Spec
<1>6. OrdersOK /\ RulesNamed => FirstInOrderWins
  BY FirstMatches DEF RulesNamed, Named
<1>7. TrafficSpec => Spec
  BY TrafficImplementsRouteTables
<1> QED BY <1>1, <1>2, <1>5, <1>6, <1>7, PTL DEF TrafficSpec

=============================================================================
