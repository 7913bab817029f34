------------------------------ MODULE Traffic ------------------------------
(***************************************************************************)
(* Requests over the tables of RouteTables: the matching of a request to a *)
(* rule of the snapshot and the choice of a node (src/plugins/dispatch:    *)
(* model.go, match.go, select.go, sticky.go and Dispatch.Handle), while    *)
(* administrators replace the snapshot, nodes fail and recover and         *)
(* requests end.                                                           *)
(* A path is the sequence of what stands between its slashes, so that a    *)
(* slash at the end is an empty last segment.  Hosts are normalised hosts. *)
(* The capture of parameters and the headers of a request are left out.    *)
(***************************************************************************)
EXTENDS RouteTables, Integers, SequencesExt

CONSTANTS
  Scenes,       \* the tables, how requests are routed, and what may happen
  Hosts,        \* of the requests
  Empty, Param, Wild, \* segments: nothing, ":name" and "*"
  MaxInflight   \* bound: how many requests a node answers at a time

ASSUME TrafficAssumption ==
  /\ Rules \subseteq Nat /\ Nodes \subseteq Nat
  /\ None \notin Hosts /\ MaxInflight \in Nat
  /\ \A s \in Scenes : s.tables \subseteq FirstTables

\* Tables are finite, and a weight below 1 counts as 1.
ASSUME WeightsAssumption ==
  /\ IsFiniteSet(Nodes)
  /\ \A s \in Scenes : s.setting.shape.weight \in [Nodes -> Nat \ {0}]

\* match_order is a number.
ASSUME OrdersAssumption ==
  /\ IsFiniteSet(Rules)
  /\ \A s \in Scenes, r \in Rules : s.setting.shape.condition[r].order \in Nat

VARIABLES
  setting,  \* constant: the setting of the scene
  healthy,  \* what the registry says of the nodes
  inflight, \* the requests that a node is answering
  cursor,   \* rr.current of each upstream of the snapshot
  passed    \* turns in a row that a node of an upstream took part in without
            \* being chosen

traffic == <<healthy, inflight, cursor, passed>>
trafficVars == <<vars, setting, traffic>>

\* The columns the handlers of RouteTables do not look at: the conditions of the
\* rules, and how the upstreams balance.
shape == setting.shape

-----------------------------------------------------------------------------
(* The candidates of a host.                                                 *)

Condition(r) == shape.condition[r]

Before(r, s) ==
  \/ Condition(r).order < Condition(s).order
  \/ Condition(r).order = Condition(s).order /\ r < s

InOrder(list) == \A i, j \in DOMAIN list : i < j => Before(list[i], list[j])

\* sortRules, over what the snapshot was built from.
SortedRules ==
  LET rules == {x.rule : x \in served.rules} IN
  CHOOSE list \in [1 .. Cardinality(rules) -> rules] : InOrder(list)

\* One after the other they are appended to the list of their domain.
OfDomain(domain) ==
  LET sorted == SortedRules
      list[n \in 0 .. Len(sorted)] ==
        IF n = 0 THEN <<>>
        ELSE IF Condition(sorted[n]).domain = domain THEN Append(list[n - 1], sorted[n])
                                                     ELSE list[n - 1]
  IN  list[Len(sorted)]

\* Mutant: the rules of the domain first, then those of any domain.
BucketFirst(any, own) == own \o any

\* The two lists are merged by the order of the rules.
Merge(any, own) ==
  LET from[p \in (1 .. Len(any) + 1) \X (1 .. Len(own) + 1)] ==
        LET i == p[1]  j == p[2] IN
        IF i > Len(any) \/ j > Len(own)
        THEN SubSeq(any, i, Len(any)) \o SubSeq(own, j, Len(own))
        ELSE IF Before(any[i], own[j]) THEN <<any[i]>> \o from[<<i + 1, j>>]
                                       ELSE <<own[j]>> \o from[<<i, j + 1>>]
  IN  from[<<1, 1>>]

\* Domains without a rule, and an empty host, have the rules of any domain.
Candidates(host) ==
  LET any == OfDomain(None)
      own == OfDomain(host)
  IN  IF host # None /\ own # <<>> THEN Merge(any, own) ELSE any
-----------------------------------------------------------------------------
(* Matching.                                                                 *)

\* "/" is the prefix of all paths; else the path goes on after a whole segment.
MatchPrefix(value, path) == value = <<Empty>> \/ IsPrefix(value, path)

\* splitSegments: without the slashes at both ends.
SplitSegments(path) ==
  LET full == {i \in DOMAIN path : path[i] # Empty} IN
  IF full = {} THEN <<>> ELSE SubSeq(path, Min(full), Max(full))

\* matchPreSegs: "*" stands for one segment at least and ends the comparison;
\* so does the end of the pattern.
MatchSegments(pattern, segs) ==
  LET stars == {i \in DOMAIN pattern : pattern[i] = Wild}
      upTo == IF stars = {} THEN Len(pattern) ELSE Min(stars)
  IN  /\ upTo <= Len(segs)
      /\ \A i \in 1 .. upTo : pattern[i] \in {Param, Wild, segs[i]}

MatchRoutePath(r, path) ==
  LET c == Condition(r) IN
  \/ c.kind = "prefix" /\ MatchPrefix(c.path, path)
  \/ c.kind = "exact" /\ c.path = path
  \/ c.kind = "mode" /\ MatchSegments(SplitSegments(c.path), SplitSegments(path))

\* The first candidate whose path fits; the domain is not looked at again.
Match(host, path) ==
  LET cands == Candidates(host)
      hits == {i \in DOMAIN cands : MatchRoutePath(cands[i], path)}
  IN  IF hits = {} THEN None ELSE cands[Min(hits)]
-----------------------------------------------------------------------------
(* The choice of a node.                                                     *)

NodesOf(u) == {x.node : x \in {y \in served.rels : y.up = u}}
Usable(u) == {n \in NodesOf(u) : healthy[n]}

\* SelectNode: the primary nodes, and the others when none of them is healthy.
CollectCands(u) ==
  IF Usable(u) \ shape.backup # {} THEN Usable(u) \ shape.backup ELSE Usable(u)

LeastConnSet(cands) == {n \in cands : \A m \in cands : inflight[n] <= inflight[m]}

Rivals(u) ==
  IF shape.algo = "least_conn" THEN LeastConnSet(CollectCands(u)) ELSE CollectCands(u)

Weight(nodes) == MapThenSumSet(LAMBDA n : shape.weight[n], nodes)

\* Mutant: the turn is taken on a copy of the cursor, as peekRR does.
StepOnCopy(current, cands) ==
  LET raised == [n \in Nodes |-> current[n] + IF n \in cands THEN shape.weight[n] ELSE 0]
      ahead == {n \in cands : raised[n] > 0 /\ \A m \in cands : raised[m] <= raised[n]}
  IN  [best |-> Min(IF ahead = {} THEN cands ELSE ahead), current |-> current]

\* wrrStep: each candidate gains its weight and the best one pays for all.  The
\* first in the list wins a tie, and is taken when no value is positive; the
\* list is in the order of the numbers.
WrrStep(current, cands) ==
  LET raised == [n \in Nodes |-> current[n] + IF n \in cands THEN shape.weight[n] ELSE 0]
      ahead == {n \in cands : raised[n] > 0 /\ \A m \in cands : raised[m] <= raised[n]}
      best == Min(IF ahead = {} THEN cands ELSE ahead)
  IN  [best |-> best, current |-> [raised EXCEPT ![best] = @ - Weight(cands)]]

\* count.
Count(n) ==
  /\ inflight[n] < MaxInflight
  /\ inflight' = [inflight EXCEPT ![n] = @ + 1]

\* SelectStickyNode: the node of the cookie, primary or not.
StickyNode(u, n) == n \in Usable(u) /\ Count(n) /\ UNCHANGED <<cursor, passed>>

\* pickRR: one candidate is taken without a turn of the cursor.
PickOnly(u) ==
  /\ Cardinality(Rivals(u)) = 1
  /\ \E n \in Rivals(u) : Count(n)
  /\ UNCHANGED <<cursor, passed>>

PickRR(u) ==
  LET step == WrrStep(cursor[u], Rivals(u)) IN
  /\ Cardinality(Rivals(u)) > 1
  /\ Count(step.best)
  /\ cursor' = [cursor EXCEPT ![u] = step.current]
  /\ passed' = [passed EXCEPT ![u] = [n \in Nodes |->
       IF n = step.best THEN 0 ELSE IF n \in Rivals(u) THEN @[n] + 1 ELSE @[n]]]

\* AcquireNode: the cookie, if the upstream is sticky and the cookie is of use.
AcquireNode(u, cookie) ==
  IF shape.sticky /\ cookie \in Usable(u) THEN StickyNode(u, cookie)
                                          ELSE PickOnly(u) \/ PickRR(u)

\* Handle.  A request without a rule goes to the default target, one without a
\* node, or whose upstream is switched off, is answered 503: nothing changes.
Handle(host, path, cookie) ==
  /\ shape.enabled
  /\ LET hit == Match(host, path) IN
     \E x \in served.rules : x.rule = hit /\ AcquireNode(x.up, cookie)
  /\ UNCHANGED <<vars, setting, healthy>>

\* The end of a request.
OnResponse(n) ==
  /\ inflight[n] > 0
  /\ inflight' = [inflight EXCEPT ![n] = @ - 1]
  /\ UNCHANGED <<vars, setting, healthy, cursor, passed>>

\* A probe has another result than the one before.
Probe(n) ==
  /\ healthy' = [healthy EXCEPT ![n] = ~@]
  /\ UNCHANGED <<vars, setting, inflight, cursor, passed>>
-----------------------------------------------------------------------------
NoTurns == [u \in Upstreams |-> [n \in Nodes |-> 0]]

TrafficInit ==
  /\ Init
  /\ \E s \in Scenes : db \in s.tables /\ setting = s.setting
  /\ healthy = [n \in Nodes |-> TRUE]
  /\ inflight = [n \in Nodes |-> 0]
  /\ cursor = NoTurns /\ passed = NoTurns

\* A scene is about some of the rules, nodes, urls and tags, and has a number of
\* calls, some of which may be under way at a time.
InScene ==
  /\ calls' <= setting.calls
  /\ Cardinality({a \in Admins : call'[a].at # "idle"}) <= setting.atOnce
  /\ \A a \in Admins : /\ call'[a].rule \in setting.rules \cup {None}
                       /\ call'[a].node \in setting.nodes \cup {None}
                       /\ call'[a].url \in setting.urls \cup {None}
                       /\ call'[a].group \subseteq setting.nodes
                       /\ call'[a].label \in setting.labels \cup {None}
                       /\ call'[a].labels \subseteq setting.labels

Stores(a) == call[a].at = "store" /\ ValidateGraph(call[a].input)

\* BuildGraph gives every upstream of a new snapshot a cursor of its own.
Administer(a) ==
  /\ \/ NodeCall(a) \/ RuleCall(a) \/ TagCall(a) \/ UpstreamCall(a) \/ Fail(a)
     \/ Rebuild(a) /\ ~Stores(a)
  /\ UNCHANGED traffic
Replace(a) ==
  /\ Rebuild(a) /\ Stores(a)
  /\ cursor' = NoTurns /\ passed' = NoTurns
  /\ UNCHANGED <<healthy, inflight>>

TrafficNext ==
  \/ \E a \in Admins : (Administer(a) \/ Replace(a)) /\ InScene /\ UNCHANGED setting
  \/ /\ setting.requests
     /\ \/ \E n \in Nodes : OnResponse(n) \/ Probe(n)
        \/ \E host \in Hosts \cup {None}, path \in setting.paths :
             \E cookie \in Nodes \cup {None} : Handle(host, path, cookie)

TrafficSpec == TrafficInit /\ [][TrafficNext]_trafficVars
-----------------------------------------------------------------------------
\* "The first match in global order wins" (model.go:245): the lists per domain
\* that a rebuild prepares give every host and path the rule that a scan of all
\* rules, by match_order and then by id, would give, whichever rules the
\* administrators switch on and off.
FirstInOrderWins ==
  \A host \in Hosts \cup {None}, path \in setting.paths :
    LET fit == {r \in {x.rule : x \in served.rules} :
                  Condition(r).domain \in {None, host} /\ MatchRoutePath(r, path)}
        hit == Match(host, path)
    IN  IF fit = {} THEN hit = None ELSE hit \in fit /\ ~\E r \in fit : Before(r, hit)

Heaviest(nodes) == Max({shape.weight[n] : n \in nodes})

\* No node starves: although subsets of the nodes share one cursor, as nodes
\* fail, recover, are tied for the fewest requests or give way to backups, a
\* node that takes part in the turns is chosen after a number of them that the
\* weights and the number of nodes bound, the sooner the more it weighs
\* (wrrStep, select.go:140).
TurnsAreFair ==
  \A u \in Upstreams : \A n \in NodesOf(u) :
    LET many == Cardinality(NodesOf(u)) IN
    passed[u][n] * shape.weight[n] <= Heaviest(NodesOf(u)) * many * (many - 1)
=============================================================================
