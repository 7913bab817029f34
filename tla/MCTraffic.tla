----------------------------- MODULE MCTraffic -----------------------------
(***************************************************************************)
(* Four kinds of scenes.  Two administrators find one upstream with one of *)
(* two nodes, with or without a rule that names it, or a single node; or a *)
(* rule to which they give tags.  There are three rules with all           *)
(* combinations of some conditions.  And requests go to an upstream of     *)
(* three nodes.                                                            *)
(***************************************************************************)
EXTENDS Traffic

CONSTANTS u1, x, y, z, api, v1, site

Row(url) == [url |-> url, deleted |-> 0]
NoRule == [up |-> None, on |-> FALSE, deleted |-> 0]
Related(nodes) == {[up |-> u1, node |-> n, by |-> 0, deleted |-> 0] : n \in nodes}

\* So many rules and nodes; the rules name the upstream, which has all the nodes
\* or the first.
Start(ruled, urls, related) ==
  [rule |-> [r \in Rules |-> IF r \in ruled THEN [up |-> u1, on |-> TRUE, deleted |-> 0]
                                            ELSE NoRule],
   up |-> u1 :> [there |-> related # {}, deleted |-> 0],
   node |-> [n \in Nodes |-> Row(IF n <= Len(urls) THEN urls[n] ELSE None)],
   rel |-> Related(related), tag |-> <<>>, ruleTag |-> <<>>]

TableScene == {Start({1}, <<x, y>>, {1})}
UnruledScene == {Start({}, <<x, y>>, {1}), Start({}, <<x>>, {})}
TagScene == {Start({1}, <<x>>, {1})}
RuleScene == {Start({1, 2, 3}, <<x>>, {1})}
PairScene == {Start({1}, <<x, y>>, {1, 2})}
NodeScene == {Start({1}, <<x, y, z>>, {1, 2, 3})}

Cond(order, domain, kind, path) ==
  [order |-> order, domain |-> domain, kind |-> kind, path |-> path]
Conds ==
  {Cond(1, None, "prefix", <<api>>), Cond(2, None, "mode", <<api, Param>>),
   Cond(1, site, "exact", <<api, v1>>), Cond(2, site, "mode", <<api, Wild>>),
   Cond(1, site, "prefix", <<Empty>>), Cond(2, site, "prefix", <<api, v1>>)}
Plain == [r \in Rules |-> Cond(1, None, "prefix", <<Empty>>)]

Shape(conds, algo, weight, backup) ==
  [condition |-> conds, algo |-> algo, weight |-> weight, backup |-> backup,
   sticky |-> algo = "least_conn", enabled |-> TRUE]
Even == [n \in Nodes |-> 1]

MCPaths == {<<Empty>>, <<api>>, <<api, Empty>>, <<api, v1>>, <<api, v1, v1>>, <<v1>>}

Scene(tables, conds, rules, nodes, urls, labels, paths, bound, most) ==
  [tables |-> tables,
   setting |-> [shape |-> Shape(conds, "round_robin", Even, {}), rules |-> rules, nodes |-> nodes,
                urls |-> urls, labels |-> labels, paths |-> paths, calls |-> bound,
                atOnce |-> most, requests |-> FALSE]]
CallsOn(nodes, tables, bound, most) ==
  Scene(tables, Plain, {1}, nodes, {x, y}, {}, {}, bound, most)
Calls(tables, bound, most) == CallsOn({1, 2}, tables, bound, most)
TagCalls(bound, most) == Scene(TagScene, Plain, {1}, {}, {}, Labels, {}, bound, most)
Requests(tables, algo, weight, backup, bound) ==
  LET s == Scene(tables, Plain, {1}, {}, {}, {}, {<<api>>}, bound, 1) IN
  [s EXCEPT !.setting.shape = Shape(Plain, algo, weight, backup), !.setting.requests = TRUE]

MCScenes ==
  {CallsOn({1}, TableScene, 3, 2), CallsOn({2}, TableScene, 3, 2),
   Calls(TableScene, 2, 2), Calls(TableScene, 3, 1), Calls(UnruledScene, 2, 2), Calls(UnruledScene, 3, 1),
   TagCalls(2, 2), TagCalls(3, 1),
   Requests(PairScene, "round_robin", <<2, 1, 1>>, {}, 1),
   Requests(NodeScene, "round_robin", <<3, 2, 1>>, {}, 0),
   Requests(NodeScene, "least_conn", <<1, 2, 1>>, {}, 0),
   Requests(NodeScene, "least_conn", <<1, 2, 2>>, {2, 3}, 0)}
  \cup {Scene(RuleScene, c, Rules, {}, {}, {}, MCPaths, 1, 1) : c \in [Rules -> Conds]}

MCFirstTables ==
  TableScene \cup UnruledScene \cup TagScene \cup RuleScene \cup PairScene \cup NodeScene
MCGroups == {{}, {1}, {1, 2}}

Symmetry == Permutations(Admins)
=============================================================================
