------------------------------- MODULE Shield -------------------------------
(***************************************************************************)
(* plugins/shield: the address lists in the database, the snapshot every   *)
(* request is judged by, and those who write the one and rebuild the       *)
(* other: administrators, the automatic ban engine, the refresh loop and   *)
(* the watcher of the rule files.  Nothing holds a lock across two         *)
(* statements, so each statement is a step; a failing statement is an      *)
(* outcome of every one of them.  The patterns of the firewall are data:   *)
(* a request is the set of checks it would trip.                           *)
(***************************************************************************)
EXTENDS Integers, Sequences, FiniteSets

CONSTANTS
  Ips,         \* client addresses
  Entries,     \* what the ip column may hold: addresses and CIDR blocks
  Covers,      \* the addresses an entry contains
  Callers,     \* administrators' requests that may run together
  Requests,    \* requests of clients, as the sets of checks they trip
  WafOn,       \* the checks that are switched on
  Files,       \* contents rules/ip_blacklist.txt may have
  Thresholds,  \* events of each tier at which the engine bans
  BanLimit,    \* banWarnTimesLimit: bans after which a ban is for ever
  RepeatLimit, \* SHIELD_AUTO_BAN_REPEAT_LIMIT, 0: never
  AutoExp,     \* what SHIELD_AUTO_BAN_TTL makes of a ban
  None,        \* no row, no entry
  Budgets      \* bounds, one of which is chosen: administrators' calls, edits
               \* of the file, failures, counted denials, times taken off,
               \* rounds of the ban engine, whether blocks are entered too

Engine == "engine"
Ttl == "ttl"
Procs == Callers \cup {Engine, Ttl}
Lists == {"black", "white"}
Tiers == {"attack", "crawler", "generic"}

\* A row of one of the tables.
Row == [exp : {"timed", "permanent", "expired"}, deleted : BOOLEAN, warn : Nat, hits : Nat]

ASSUME ShieldAssumption ==
  /\ Ips \subseteq Entries /\ None \notin Entries \cup Row
  /\ Covers \in [Entries -> SUBSET Ips]
  /\ \A i \in Ips : Covers[i] = {i}
  /\ Callers \cap {Engine, Ttl} = {}
  /\ Thresholds \in [Tiers -> Nat \ {0}] /\ Thresholds["attack"] = 1
  /\ BanLimit \in Nat \ {0} /\ RepeatLimit \in Nat
  /\ AutoExp \in {"timed", "permanent"}
  /\ Budgets \subseteq [{"calls", "edits", "failures", "hits", "toggles", "rounds", "blocks"} -> Nat]

VARIABLES
  rows,      \* ip_blacklist and ip_whitelist: entry to row
  file,      \* rules/ip_blacklist.txt
  cached,    \* the text of it that the hub holds
  edited,    \* the "file" changed since the hub last looked, a "callback" of
             \* the hub has yet to run
  snapshot,  \* s.snapshot: black, white, and ids: dbBlackIDs
  pending,   \* s.dbHits
  seen,      \* shield_event within the window, by address and tier
  loop,      \* the refresh loop: "running" or "stopped"
  mounted,   \* whether requests pass the middleware
  proc,      \* where each goroutine stands
  left,      \* what is left of the bounds
  banned,    \* history: bans written for an entry
  counted    \* history: denials and seeds owed to hit_count

vars == <<rows, file, cached, edited, snapshot, pending, seen, loop, mounted, proc,
          left, banned, counted>>

-----------------------------------------------------------------------------
(* One table of addresses.                                                 *)

NewRow(exp, warn) ==
  [exp |-> exp, deleted |-> FALSE, warn |-> warn, hits |-> 0]

InForce(row) == row # None /\ ~ row.deleted /\ row.exp # "expired"

QueryActive(table) == {e \in Entries : InForce(table[e])}

\* What the list of present bans shows.
Jail == QueryActive(rows["black"])

\* The white list has neither expiry nor a count of bans.
Insert(list, e, exp, warn) ==
  rows' = [rows EXCEPT ![list][e] =
             IF list = "black" THEN NewRow(exp, warn)
                               ELSE NewRow("permanent", 0)]

BanInsert(e, exp) == Insert("black", e, exp, 1)

Update(list, e, exp) ==
  rows' = [rows EXCEPT ![list][e].exp = IF list = "black" THEN exp ELSE @]

SoftDelete(list, e) == rows' = [rows EXCEPT ![list][e].deleted = TRUE]

Restore(list, e) == rows' = [rows EXCEPT ![list][e].deleted = FALSE]

\* One line of an import: a row that is there, in whatever state, is skipped.
Import(list, e) ==
  rows' = [rows EXCEPT ![list][e] = IF @ = None THEN NewRow("permanent", 0) ELSE @]

AddHitCount(i, n) == rows' = [rows EXCEPT !["black"][i].hits = @ + n]

\* The statement restore_ban counts in the table; the rest comes from a row
\* read before.
RestoreWith(e, exp) ==
  LET row == rows["black"][e] IN
  rows' = [rows EXCEPT !["black"][e] =
             [row EXCEPT !.deleted = FALSE, !.exp = exp, !.warn = row.warn + 1]]

\* Mutant: the count read before is written back.
RestoreBanWritesCount(e, cur, exp, limit) ==
  rows' = [rows EXCEPT !["black"][e] =
             [@ EXCEPT !.deleted = FALSE, !.exp = exp, !.warn = cur.warn + 1]]

\* A ban that was for ever stays so; the limit turns a timed one into one.
RestoreBan(e, cur, exp, limit) ==
  LET repeated == limit > 0 /\ cur.warn + 1 >= limit IN
  RestoreWith(e, IF cur.exp = "permanent" \/ repeated THEN "permanent"
                                                      ELSE exp)

RestoreBanToPermanent(e) == RestoreWith(e, "permanent")

-----------------------------------------------------------------------------
(* Processes.  at is the next step; cur the row GetByIP answered; black,   *)
(* ids and white what the rebuild under way has read; todo the candidates, *)
(* counters or lines that are left, changed whether one before was written *)
(* and delta the count taken out of memory.                                *)

Idle == [at |-> "idle", op |-> "none", list |-> "black", entry |-> None,
         exp |-> "permanent", cur |-> None, black |-> {}, ids |-> {},
         white |-> {}, todo |-> {}, delta |-> 0, changed |-> FALSE]

Spend(what) == left[what] > 0 /\ left' = [left EXCEPT ![what] = @ - 1]

Ok == UNCHANGED left

Fail == Spend("failures")

Set(p, r) == proc' = [proc EXCEPT ![p] = r]

Go(p, to) == proc' = [proc EXCEPT ![p].at = to]

\* A call that ends without a change: the handler answers, the engine takes
\* its next candidate.
Rebuilding == [Idle EXCEPT !.at = "rules"]

\* The engine rebuilds once, after the last candidate, if it wrote a ban.
NextCandidate(todo, changed) ==
  IF todo # {} THEN [Idle EXCEPT !.at = "pick", !.todo = todo,
                                 !.changed = changed]
  ELSE IF changed THEN Rebuilding ELSE Idle

GiveUp(p) ==
  Set(p, IF p = Engine THEN NextCandidate(proc[p].todo, proc[p].changed) ELSE Idle)

\* After a ban was written: the engine adds the hits that led to it.
Banned(p) ==
  /\ Set(p, IF p = Engine THEN [proc[p] EXCEPT !.at = "seed", !.cur = None]
                        ELSE Rebuilding)
  /\ banned' = [banned EXCEPT ![proc[p].entry] = @ + 1]

listVars == <<rows, banned, counted>>
ruleVars == <<file, cached, edited>>
runVars == <<loop, mounted>>
hitVars == <<pending, seen>>

\* The first snapshot is built and the middleware mounted.
InitWith(refresh) ==
  /\ rows = [l \in Lists |-> [e \in Entries |-> None]]
  /\ file = {}
  /\ cached = file
  /\ edited = {}
  /\ snapshot = [black |-> file, ids |-> {}, white |-> {}]
  /\ pending = [i \in Ips |-> 0]
  /\ seen = [i \in Ips |-> [t \in Tiers |-> 0]]
  /\ loop = refresh
  /\ mounted = TRUE
  /\ proc = [p \in Procs |-> Idle]
  /\ left \in Budgets
  /\ banned = [e \in Entries |-> 0]
  /\ counted = [i \in Ips |-> 0]

\* SetIPListStores has created the tables, rebuilt the snapshot and begun
\* the refresh loop.
Init == InitWith("running")

-----------------------------------------------------------------------------
(* Start: what every change ends in, and nothing makes it exclusive.       *)

\* The rule files as the hub has them, then a query of each table: a file that
\* cannot be read leaves the old snapshot, a query that fails leaves the file's
\* addresses, or none.  The three reads are one step; what matters is that others write
\* between them and the store.
LoadLists(p) ==
  /\ proc[p].at = "rules"
  /\ \/ \E black \in {QueryActive(rows["black"]), {}},
           white \in {QueryActive(rows["white"]), {}} :
          /\ IF black = QueryActive(rows["black"]) /\
                white = QueryActive(rows["white"]) THEN Ok ELSE Fail
          /\ Set(p, [proc[p] EXCEPT !.at = "store", !.black = cached \cup black,
                                    !.ids = black, !.white = white])
     \/ Fail /\ Set(p, Idle)
  /\ UNCHANGED <<listVars, ruleVars, runVars, hitVars, snapshot>>

\* Mutant: an empty list is taken for a failure.
NewSnapshotIfAny(q) ==
  IF q.black = {} THEN snapshot
  ELSE [black |-> q.black, ids |-> q.ids, white |-> q.white]

NewSnapshot(q) == [black |-> q.black, ids |-> q.ids, white |-> q.white]

\* Enable mounts the middleware when Start has returned.
StoreSnapshot(p) ==
  /\ proc[p].at = "store"
  /\ snapshot' = NewSnapshot(proc[p])
  /\ mounted' = (mounted \/ proc[p].op = "enable")
  /\ Set(p, Idle)
  /\ UNCHANGED <<listVars, ruleVars, hitVars, loop, left>>

Rebuild(p) == LoadLists(p) \/ StoreSnapshot(p)

-----------------------------------------------------------------------------
(* The administrators.  A request that is refused for its form changes     *)
(* nothing and is left out.                                                *)

Begin(c, op, list, e, exp, todo) ==
  /\ proc[c].at = "idle" /\ Spend("calls")
  /\ {e} \cup todo \subseteq Ips \cup {None} \/ left["blocks"] > 0
  /\ Set(c, [Idle EXCEPT !.at = IF op = "ban" THEN "look" ELSE "write",
                         !.op = op, !.list = list, !.entry = e,
                         !.exp = exp, !.todo = todo])
  /\ UNCHANGED <<listVars, ruleVars, runVars, hitVars, snapshot>>

AddRequest(c) == \E l \in Lists, e \in Entries, x \in {"timed", "permanent"} :
                    Begin(c, "add", l, e, x, {})

\* Rows are named by their id, and those that exist by a list.
UpdateRequest(c) ==
  \E l \in Lists, e \in Entries, x \in {"timed", "permanent"} :
    rows[l][e] # None /\ Begin(c, "update", l, e, x, {})

DeleteRequest(c) == \E l \in Lists, e \in Entries :
                      rows[l][e] # None /\ Begin(c, "delete", l, e, "timed", {})

RestoreRequest(c) == \E l \in Lists, e \in Entries :
                       rows[l][e] # None /\ Begin(c, "restore", l, e, "timed", {})

ImportRequest(c) == \E l \in Lists, s \in (SUBSET Entries) \ {{}} :
                      Begin(c, "import", l, None, "permanent", s)

\* The valid lines of the rule file as the hub has it, if there are any.
SyncRequest(c) ==
  /\ cached \cap Entries # {}
  /\ Begin(c, "import", "black", None, "permanent", cached \cap Entries)

\* duration: 24h or permanent.
BanRequest(c) == \E e \in Entries, x \in {"timed", "permanent"} :
                   Begin(c, "ban", "black", e, x, {})

\* A write and what follows it; only a write that changed something rebuilds.
Write(c, op, statement, changed) ==
  /\ proc[c].at = "write" /\ proc[c].op = op
  /\ \/ Ok /\ statement /\ Set(c, Rebuilding) /\ changed
     \/ Ok /\ ~ changed /\ UNCHANGED rows /\ Set(c, Idle)
     \/ Fail /\ UNCHANGED rows /\ Set(c, Idle)
  /\ UNCHANGED <<banned, counted, ruleVars, runVars, hitVars, snapshot>>

AddIPList(c) ==
  Write(c, "add", Insert(proc[c].list, proc[c].entry, proc[c].exp, 0),
        rows[proc[c].list][proc[c].entry] = None)

UpdateIPList(c) ==
  Write(c, "update", Update(proc[c].list, proc[c].entry, proc[c].exp), TRUE)

SoftDeleteIPList(c) ==
  Write(c, "delete", SoftDelete(proc[c].list, proc[c].entry), TRUE)

RestoreIPList(c) ==
  Write(c, "restore", Restore(proc[c].list, proc[c].entry), TRUE)

\* Line after line.  The first that fails ends the call: the rows written
\* before stay, and no rebuild tells the snapshot of them.
ImportIPList(c) ==
  LET q == proc[c] IN
  /\ q.at = "write" /\ q.op = "import"
  /\ \/ Fail /\ Set(c, Idle) /\ UNCHANGED rows
     \/ \E e \in q.todo :
          LET changed == q.changed \/ rows[q.list][e] = None IN
          /\ Ok /\ Import(q.list, e)
          /\ Set(c, IF q.todo # {e}
                      THEN [q EXCEPT !.todo = @ \ {e}, !.changed = changed]
                    ELSE IF changed THEN Rebuilding ELSE Idle)
  /\ UNCHANGED <<banned, counted, ruleVars, runVars, hitVars, snapshot>>

\* Saving the rule file.
RuleSave ==
  /\ Spend("edits")
  /\ file' \in Files \ {file}
  /\ edited' = edited \cup {"file"}
  /\ UNCHANGED <<listVars, cached, runVars, hitVars, snapshot, proc>>

\* The hub reads it again; until then whoever asks gets the text before.
\* Callbacks that are owed at once run as one.
HandleChange ==
  /\ "file" \in edited /\ edited' = {"callback"}
  /\ cached' = file
  /\ UNCHANGED <<listVars, file, runVars, hitVars, snapshot, proc, left>>

RuleChanged(c) ==
  /\ "callback" \in edited /\ edited' = edited \ {"callback"}
  /\ proc[c].at = "idle" /\ Set(c, Rebuilding)
  /\ UNCHANGED <<listVars, file, cached, runVars, hitVars, snapshot, left>>

-----------------------------------------------------------------------------
(* A ban: the row is looked at, and, when it is there but not in force,    *)
(* read again by RestoreBan before it is written.                          *)

Banners == Callers \cup {Engine}

LookUp(p) ==
  LET row == rows["black"][proc[p].entry] IN
  /\ proc[p].at = "look"
  /\ \/ Fail /\ GiveUp(p)
     \/ Ok /\ row = None /\ Go(p, "insert")
     \/ Ok /\ InForce(row) /\ GiveUp(p)
     \/ Ok /\ row # None /\ ~ InForce(row) /\ Go(p, "reread")
  /\ UNCHANGED <<listVars, ruleVars, runVars, hitVars, snapshot>>

\* ErrIPExists when somebody was faster.
BanNew(p) ==
  /\ proc[p].at = "insert"
  /\ \/ /\ Ok /\ rows["black"][proc[p].entry] = None
        /\ BanInsert(proc[p].entry, proc[p].exp)
        /\ Banned(p)
     \/ /\ Fail \/ (Ok /\ rows["black"][proc[p].entry] # None)
        /\ GiveUp(p)
        /\ UNCHANGED <<rows, banned>>
  /\ UNCHANGED <<counted, ruleVars, runVars, hitVars, snapshot>>

GetByIP(p) ==
  /\ proc[p].at = "reread"
  /\ \/ Ok /\ Set(p, [proc[p] EXCEPT !.at = "again",
                                     !.cur = rows["black"][proc[p].entry]])
     \/ Fail /\ GiveUp(p)
  /\ UNCHANGED <<listVars, ruleVars, runVars, hitVars, snapshot>>

\* How long a ban by the engine lasts.
AutoBan(tier, exp) == IF tier = "attack" THEN "permanent" ELSE exp

BanAgain(p) ==
  LET q == proc[p] IN
  /\ q.at = "again"
  /\ \/ /\ Ok
        /\ IF q.op = "attack" THEN RestoreBanToPermanent(q.entry)
           ELSE RestoreBan(q.entry, q.cur, q.exp,
                           IF p = Engine THEN RepeatLimit ELSE BanLimit)
        /\ Banned(p)
     \/ Fail /\ GiveUp(p) /\ UNCHANGED <<rows, banned>>
  /\ UNCHANGED <<counted, ruleVars, runVars, hitVars, snapshot>>

BanIP(p) == LookUp(p) \/ BanNew(p) \/ GetByIP(p) \/ BanAgain(p)

-----------------------------------------------------------------------------
(* The automatic ban engine: one candidate after the other, one rebuild.   *)

\* Of the tiers an address has reached, the strictest.
TierReached(i) ==
  LET hit(t) == seen[i][t] >= Thresholds[t] IN
  IF hit("attack") THEN "attack" ELSE IF hit("crawler") THEN "crawler"
  ELSE IF hit("generic") THEN "generic" ELSE None

Candidates ==
  {[ip |-> i, tier |-> TierReached(i), total |-> seen[i][TierReached(i)]] :
     i \in {j \in Ips : TierReached(j) # None}}

\* SHIELD_ENABLED off: the engine idles.
AutoRound ==
  /\ proc[Engine].at = "idle" /\ mounted /\ Candidates # {} /\ Spend("rounds")
  /\ Set(Engine, [Idle EXCEPT !.at = "pick", !.todo = Candidates])
  /\ UNCHANGED <<listVars, ruleVars, runVars, hitVars, snapshot>>

InList(i, entries) == \E e \in entries : i \in Covers[e]

\* The white list of the snapshot of this moment protects an address.
AutoPick ==
  LET q == proc[Engine] IN
  /\ q.at = "pick"
  /\ \E c \in q.todo :
       Set(Engine, IF InList(c.ip, snapshot.white)
         THEN NextCandidate(q.todo \ {c}, q.changed)
         ELSE [q EXCEPT !.at = "look", !.todo = @ \ {c}, !.op = c.tier,
                        !.entry = c.ip, !.exp = AutoBan(c.tier, AutoExp),
                        !.delta = c.total])
  /\ UNCHANGED <<listVars, ruleVars, runVars, hitVars, snapshot, left>>

\* seedHitCount; a failure is only noted.
AutoSeed ==
  LET q == proc[Engine] IN
  /\ q.at = "seed"
  /\ \/ Ok /\ AddHitCount(q.entry, q.delta)
           /\ counted' = [counted EXCEPT ![q.entry] = @ + q.delta]
     \/ Fail /\ UNCHANGED <<rows, counted>>
  /\ Set(Engine, NextCandidate(q.todo, TRUE))
  /\ UNCHANGED <<banned, ruleVars, runVars, hitVars, snapshot>>

-----------------------------------------------------------------------------
(* The refresh loop: hit counts to the table, then a rebuild.              *)

Flushing(todo) ==
  IF todo = {} THEN Rebuilding ELSE [Idle EXCEPT !.at = "flush", !.todo = todo]

\* Stop closes the channel; a round under way is ended first.
Tick ==
  /\ loop = "running" /\ proc[Ttl].at = "idle"
  /\ Set(Ttl, Flushing({i \in Ips : pending[i] > 0}))
  /\ UNCHANGED <<listVars, ruleVars, runVars, hitVars, snapshot, left>>

FlushTake ==
  LET q == proc[Ttl] IN
  /\ q.at = "flush"
  /\ \E i \in q.todo :
       /\ Set(Ttl, [q EXCEPT !.at = "count", !.todo = @ \ {i}, !.entry = i,
                             !.delta = pending[i]])
       /\ pending' = [pending EXCEPT ![i] = 0]
  /\ UNCHANGED <<listVars, ruleVars, runVars, seen, snapshot, left>>

PutBack(i, n) == [pending EXCEPT ![i] = @ + n]

FlushCount ==
  LET q == proc[Ttl] IN
  /\ q.at = "count"
  /\ \/ Ok /\ AddHitCount(q.entry, q.delta) /\ UNCHANGED pending
     \/ Fail /\ pending' = PutBack(q.entry, q.delta)
             /\ UNCHANGED rows
  /\ Set(Ttl, Flushing(q.todo))
  /\ UNCHANGED <<banned, counted, ruleVars, runVars, seen, snapshot>>

-----------------------------------------------------------------------------
(* Requests.                                                               *)

\* The order of runWAF.
Checks == <<"method", "body", "riskpath", "traversal", "sql", "xss", "crawler">>

RunWAF(request) ==
  LET hits == {k \in DOMAIN Checks : Checks[k] \in request \cap WafOn} IN
  IF hits = {} THEN None
  ELSE Checks[CHOOSE k \in hits : \A j \in hits : k <= j]

\* What a request is denied for: None when it goes on.  The limiter is the
\* last to be asked; what it says depends on the time.
Verdict(i, request, limited) ==
  IF InList(i, snapshot.white) THEN None
  ELSE IF InList(i, snapshot.black) THEN "blacklist"
  ELSE IF RunWAF(request) # None THEN RunWAF(request)
  ELSE IF "deny" \in request THEN "deny"
  ELSE IF limited /\ "allow" \notin request THEN "limit" ELSE None

\* Denials by the black list are of no tier: they do not lead to bans.
BanTierOf(type) ==
  IF type \in {"riskpath", "traversal", "sql", "xss"} THEN "attack"
  ELSE IF type = "crawler" THEN "crawler"
  ELSE IF type \in {"limit", "method", "body", "deny"} THEN "generic" ELSE None

\* The recorder may drop an event; those above a threshold need no counting.
Record(i, tier) ==
  \/ UNCHANGED seen
  \/ /\ tier # None /\ seen[i][tier] < Thresholds[tier]
     /\ seen' = [seen EXCEPT ![i][tier] = @ + 1]

BumpHit(i) ==
  /\ pending' = [pending EXCEPT ![i] = @ + 1]
  /\ counted' = [counted EXCEPT ![i] = @ + 1]

\* A request that is let through changes nothing here.
Handle(i, request, limited) ==
  LET type == Verdict(i, request, limited) IN
  /\ mounted /\ type # None
  /\ Record(i, BanTierOf(type))
  /\ IF type = "blacklist" /\ i \in snapshot.ids
       THEN Spend("hits") /\ BumpHit(i)
       ELSE UNCHANGED <<pending, counted, left>>
  /\ UNCHANGED <<rows, banned, ruleVars, runVars, snapshot, proc>>

\* The window of the engine moves on.
Forget(i) ==
  /\ seen[i] # [t \in Tiers |-> 0]
  /\ seen' = [seen EXCEPT ![i] = [t \in Tiers |-> 0]]
  /\ UNCHANGED <<listVars, ruleVars, runVars, pending, snapshot, proc, left>>

\* The time of a ban is over.
Expire(e) ==
  /\ rows["black"][e] # None /\ rows["black"][e].exp = "timed"
  /\ rows' = [rows EXCEPT !["black"][e].exp = "expired"]
  /\ UNCHANGED <<banned, counted, ruleVars, runVars, hitVars, snapshot, proc, left>>

-----------------------------------------------------------------------------
(* The manager of the middlewares takes it off the chain and stops it, and *)
(* may start it again: Start, not SetIPListStores, so that the loop stays  *)
(* stopped.                                                                *)

Disable ==
  /\ mounted /\ Spend("toggles")
  /\ mounted' = FALSE /\ loop' = "stopped"
  /\ UNCHANGED <<listVars, ruleVars, hitVars, snapshot, proc>>

Enable(c) ==
  /\ ~ mounted /\ proc[c].at = "idle"
  /\ \A d \in Callers : proc[d].op # "enable"
  /\ Set(c, [Idle EXCEPT !.at = "rules", !.op = "enable"])
  /\ UNCHANGED <<listVars, ruleVars, runVars, hitVars, snapshot, left>>

-----------------------------------------------------------------------------
Request(c) ==
  \/ AddRequest(c) \/ UpdateRequest(c) \/ DeleteRequest(c)
  \/ RestoreRequest(c) \/ ImportRequest(c) \/ SyncRequest(c) \/ BanRequest(c)

Answer(c) ==
  \/ AddIPList(c) \/ UpdateIPList(c) \/ SoftDeleteIPList(c)
  \/ RestoreIPList(c) \/ ImportIPList(c)

DbTTLLoop == Tick \/ FlushTake \/ FlushCount

RunOnce == AutoRound \/ AutoPick \/ AutoSeed

Next ==
  \/ \E c \in Callers : Request(c) \/ Answer(c) \/ Enable(c) \/ RuleChanged(c)
  \/ \E p \in Banners : BanIP(p)
  \/ \E p \in Procs : Rebuild(p)
  \/ RuleSave \/ HandleChange \/ DbTTLLoop \/ RunOnce \/ Disable
  \/ \E i \in Ips : Forget(i) \/ \E r \in Requests, l \in BOOLEAN : Handle(i, r, l)
  \/ \E e \in Entries : Expire(e)

\* Goroutines that can go on do, and the hub and the ticker keep looking.
Fairness ==
  /\ WF_vars(HandleChange)
  /\ \A c \in Callers : WF_vars(Answer(c) \/ BanIP(c) \/ Rebuild(c) \/ RuleChanged(c))
  /\ WF_vars(AutoPick \/ AutoSeed \/ BanIP(Engine) \/ Rebuild(Engine))
  /\ WF_vars(DbTTLLoop \/ Rebuild(Ttl))

Spec == Init /\ [][Next]_vars

FairSpec == Spec /\ Fairness

-----------------------------------------------------------------------------
\* hit_count: a denial of a listed address or an event that led to a ban is in
\* the table, in memory, or on its way.
HitsConserved ==
  \A i \in Ips :
    counted[i] = pending[i]
                 + (IF rows["black"][i] = None THEN 0 ELSE rows["black"][i].hits)
                 + (IF proc[Ttl].at = "count" /\ proc[Ttl].entry = i
                      THEN proc[Ttl].delta ELSE 0)

\* warn_times: the number of bans that were written, by whomever.
WarnCountsBans ==
  \A e \in Entries :
    banned[e] = IF rows["black"][e] = None THEN 0 ELSE rows["black"][e].warn

\* What the table counts is what happened: every denial and every event behind
\* a ban is counted once, whatever statements fail (flushHitCounts,
\* seedHitCount), and two who ban at once do not lose a ban (RestoreBan counts
\* in the statement, not from the row it has read).
TableCountsTrue == HitsConserved /\ WarnCountsBans

Fresh ==
  /\ snapshot.black = file \cup Jail
  /\ snapshot.white = QueryActive(rows["white"])

\* As long as the refresh loop runs, requests come to be judged by what the
\* tables and the file say, whatever overtook or failed on the way there
\* (Start, dbTTLLoop).
Settles == <>[](loop = "running" => Fresh)

=============================================================================
