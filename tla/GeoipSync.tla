------------------------------ MODULE GeoipSync ------------------------------
(***************************************************************************)
(* cmd/rocksys/geoip_sync.go, schedule.go, internal/geoip and the cache of *)
(* plugins/obs: a job of the task centre walks over the log tables and     *)
(* writes the place of every address it meets to geoip_list, block by      *)
(* block, under quotas.  How far it got is kept in the process only; how a *)
(* round ended is kept in the table of schedules.  Statistics read the     *)
(* list through a cache that a finished job purges.                        *)
(***************************************************************************)
EXTENDS TaskCenter, FiniteSetsExt

CONSTANTS
  Logs,       \* numbers of the log tables, in the order of a round
  AccessTable, EventTable, \* access_log and shield_event
  FirstRows,  \* addresses each table holds at first, in the order of their ids
  Addresses,
  Located,    \* addresses the databases know a place for
  ScanChunk,  \* rows of a block
  IpLimit,    \* quotas of a round and table: new addresses, and rows
  ScanLimit,
  PruneEnabled \* the tables whose loop prunes: OBS_LOG_PRUNE_ENABLED,
               \* SHIELD_EVENT_PRUNE_ENABLED

ASSUME GeoipAssumption ==
  /\ Logs \subseteq Nat \ {0} /\ IsFiniteSet(Logs)
  /\ FirstRows \in [Logs -> Seq(Addresses)] /\ Located \subseteq Addresses
  /\ "gone" \notin Addresses
  /\ Logs = {AccessTable, EventTable} /\ PruneEnabled \subseteq Logs
  /\ {ScanChunk, IpLimit, ScanLimit} \subseteq Nat \ {0}

VARIABLES
  logRows,  \* the log tables: the address of every id given out, or Gone
  geoList,  \* geoip_list: the addresses it has a place for
  cursors,  \* geoSyncCursors
  schedule, \* the row of schedule_list: how the last round ended
  sync,     \* where the body of a task stands
  cache,    \* the cached statistics: how much of geoip_list they have seen
  geoLeft   \* bounds: rows, prunings, rounds, failures, queries

geoVars == <<logRows, geoList, cursors, schedule, sync, cache, geoLeft>>

Nothing == -1

\* What is left of a row that was pruned: its id is not given out again.
Gone == "gone"

NoneFound == [k \in {} |-> Gone]

NoSync == [at |-> "none", log |-> 0, from |-> 0, cursor |-> 0, upto |-> 0,
           found |-> NoneFound, ips |-> 0, scanned |-> 0, exhausted |-> FALSE, interrupted |-> FALSE,
           failed |-> FALSE, outcome |-> "none"]

GeoInit ==
  /\ logRows = FirstRows
  /\ geoList = {}
  /\ cursors = [t \in Logs |-> 0]
  /\ schedule = "none"
  /\ sync = [i \in Ids |-> NoSync]
  /\ cache = [entry |-> Nothing, call |-> Nothing, late |-> FALSE]

Use(w) == geoLeft[w] > 0 /\ geoLeft' = [geoLeft EXCEPT ![w] = @ - 1]

Spare == UNCHANGED geoLeft

-----------------------------------------------------------------------------
(* What goes on around a round.                                            *)

RowArrives(t, ip) ==
  /\ Use("rows")
  /\ logRows' = [logRows EXCEPT ![t] = Append(@, ip)]
  /\ UNCHANGED <<geoList, cursors, schedule, sync, cache>>

\* The oldest rows of a table are deleted, those with ids up to some k.
Prune(t) ==
  /\ Use("prunings")
  /\ \E k \in DOMAIN logRows[t] :
       logRows' = [logRows EXCEPT ![t] =
         [j \in DOMAIN logRows[t] |-> IF j <= k THEN Gone ELSE logRows[t][j]]]
  /\ UNCHANGED <<geoList, cursors, schedule, sync, cache>>

\* EventRecorder.Prune and DBStore.Prune, by the loops, whose age limit is
\* configured, or by an administrator.
PruneEvents == Prune(EventTable)
PruneLogs == Prune(AccessTable)

PruneIfEnabled == EventTable \in PruneEnabled /\ PruneEvents
PruneOnce == AccessTable \in PruneEnabled /\ PruneLogs

PruneEventsByHand == PruneEvents
PruneLogsByHand == PruneLogs

\* A round is asked for by an administrator, or by the timer.
SubmitSync(i) ==
  /\ Use("rounds")
  /\ Submit(i, "geoip_sync")
  /\ sync' = [sync EXCEPT ![i] = [NoSync EXCEPT !.at = "table", !.log = Min(Logs)]]
  /\ UNCHANGED <<logRows, geoList, cursors, schedule, cache>>

\* How a round ended, or that it did not run, is written to the schedule; a
\* statement that fails there has no consequence.
UpdateRunStatus(status) ==
  \/ Spare /\ schedule' = status
  \/ Use("failures") /\ UNCHANGED schedule

UpdateSkipStatus == schedule' = "skipped"

\* The timer is refused: only that is noted.
TimerSkips ==
  /\ Use("rounds")
  /\ "geoip_sync" \in allowCreators
  /\ \E j \in running : Conflicts("geoip_sync", task[j].label)
  /\ UpdateSkipStatus
  /\ UNCHANGED <<logRows, geoList, cursors, sync, cache>>

-----------------------------------------------------------------------------
(* geoSyncTable of task i.                                                 *)

At(i, at) == pc[i] = "body" /\ sync[i].at = at

Around == UNCHANGED logRows

LoadCursor(i) ==
  /\ At(i, "table")
  /\ LET from == cursors[sync[i].log] IN
     sync' = [sync EXCEPT ![i] = [sync[i] EXCEPT !.at = "block", !.from = from,
                !.cursor = from, !.ips = 0, !.scanned = 0, !.exhausted = FALSE]]
  /\ Spare /\ Around /\ UNCHANGED <<geoList, cursors, schedule, cache>>

\* The loop over the blocks ends at a quota, whatever the context says.
QuotaUsed(s) == s.ips >= IpLimit \/ s.scanned >= ScanLimit

\* Mutant: a failed upsert counts as written.
StatementForgiven(i) ==
  /\ At(i, "upsert") \/ (At(i, "block") /\ ~QuotaUsed(sync[i]))
  /\ IF task[i].ctx = "done"
     THEN Spare /\ sync' = [sync EXCEPT ![i] = [sync[i] EXCEPT !.at = "close", !.interrupted = TRUE]]
     ELSE Use("failures") /\ sync' = [sync EXCEPT ![i].found = NoneFound]
  /\ Around /\ UNCHANGED <<geoList, cursors, schedule, cache>>

\* A statement fails: because the task was cancelled, which ends the table
\* early, or by itself, which ends the round and leaves the cursor as it was.
StatementFails(i) ==
  /\ At(i, "upsert") \/ (At(i, "block") /\ ~QuotaUsed(sync[i]))
  /\ \/ /\ task[i].ctx = "done" /\ Spare
        /\ sync' = [sync EXCEPT ![i] = [sync[i] EXCEPT !.at = "close", !.interrupted = TRUE]]
     \/ /\ task[i].ctx = "live" /\ Use("failures")
        /\ sync' = [sync EXCEPT ![i] = [sync[i] EXCEPT !.at = "report", !.failed = TRUE]]
  /\ Around /\ UNCHANGED <<geoList, cursors, schedule, cache>>

\* The ids of the rows of a block, and those of them whose address the list
\* lacks, each address once.
Block(t, from) ==
  LET rest == {k \in DOMAIN logRows[t] : k > from /\ logRows[t][k] # Gone}
  IN  {k \in rest : Cardinality({j \in rest : j < k}) < ScanChunk}

Missing(t, b) ==
  {k \in b : /\ logRows[t][k] \notin geoList
             /\ \A j \in b : j < k => logRows[t][j] # logRows[t][k]}

\* One block is read and compared with the list, and what is to be written is
\* kept under the ids, in whose order it will be; or a quota is used up; or the
\* end of the table is reached.  A cancelled context fails the query.
Scan(i) ==
  LET s == sync[i]
      b == Block(s.log, s.cursor)
      missing == Missing(s.log, b)
      placed == {k \in missing : logRows[s.log][k] \in Located}
  IN
  /\ At(i, "block")
  /\ task[i].ctx = "live" \/ QuotaUsed(s)
  /\ sync' = [sync EXCEPT ![i] =
       IF QuotaUsed(s) THEN [s EXCEPT !.at = "close"]
       ELSE IF b = {} THEN [s EXCEPT !.at = "close", !.exhausted = TRUE]
       ELSE [s EXCEPT !.at = "upsert", !.scanned = s.scanned + Cardinality(b),
                      !.ips = s.ips + Cardinality(missing), !.upto = Max(b),
                      !.found = [k \in placed |-> logRows[s.log][k]]]]
  /\ Spare /\ Around /\ UNCHANGED <<geoList, cursors, schedule, cache>>

\* Address by address; after the last one the block counts as done.
Upsert(i) ==
  LET s == sync[i]
      k == Min(DOMAIN s.found)
  IN
  /\ At(i, "upsert")
  /\ IF DOMAIN s.found = {}
     THEN /\ UNCHANGED geoList
          /\ sync' = [sync EXCEPT ![i] = [s EXCEPT !.at = "block", !.cursor = s.upto]]
     ELSE /\ task[i].ctx = "live"
          /\ geoList' = geoList \union {s.found[k]}
          /\ sync' = [sync EXCEPT ![i].found = [j \in DOMAIN s.found \ {k} |-> s.found[j]]]
  /\ Spare /\ Around /\ UNCHANGED <<cursors, schedule, cache>>

\* geoSyncNextCursor
NextCursor(s) == IF s.interrupted THEN s.from ELSE IF s.exhausted THEN 0 ELSE s.cursor

\* The end of a table; an interrupted one is followed by the next all the same.
CloseTable(i) ==
  LET s == sync[i]
      rest == {t \in Logs : t > s.log}
  IN
  /\ At(i, "close")
  /\ cursors' = [cursors EXCEPT ![s.log] = NextCursor(s)]
  /\ sync' = [sync EXCEPT ![i] = IF rest = {} THEN [s EXCEPT !.at = "report", !.found = NoneFound]
                ELSE [s EXCEPT !.at = "table", !.log = Min(rest), !.found = NoneFound]]
  /\ Spare /\ Around /\ UNCHANGED <<geoList, schedule, cache>>

\* Mutant: only the error that came back is looked at.
OutcomeByError(i) == IF sync[i].failed THEN "failed" ELSE "success"

\* geoipSyncOutcome, of the error or else of the context.
Outcome(i) == IF sync[i].failed THEN "failed"
              ELSE IF task[i].ctx = "done" THEN "partial" ELSE "success"

\* The end of geoSyncAll.
Report(i) ==
  /\ At(i, "report")
  /\ sync' = [sync EXCEPT ![i].at = IF sync[i].failed THEN "error" ELSE "purge",
                          ![i].outcome = Outcome(i)]
  /\ UpdateRunStatus(Outcome(i))
  /\ Around /\ UNCHANGED <<geoList, cursors, cache>>

\* Mutant: the statistics of the last query are kept.
PurgeNothing(i) ==
  /\ At(i, "purge")
  /\ sync' = [sync EXCEPT ![i].at = "ok"]
  /\ Spare /\ Around /\ UNCHANGED <<geoList, cursors, schedule, cache>>

\* purge: what is being computed is not affected, and is stored afterwards.
Purge(i) ==
  /\ At(i, "purge")
  /\ sync' = [sync EXCEPT ![i].at = "ok"]
  /\ cache' = [cache EXCEPT !.entry = Nothing, !.late = cache.call # Nothing]
  /\ Spare /\ Around /\ UNCHANGED <<geoList, cursors, schedule>>

SyncStep(i) ==
  \/ LoadCursor(i) \/ Scan(i) \/ StatementFails(i) \/ Upsert(i) \/ CloseTable(i)
  \/ Report(i) \/ Purge(i)

SyncReturns(i) ==
  /\ sync[i].at \in {"ok", "error"}
  /\ Return(i, IF sync[i].at = "ok" THEN "nil" ELSE "error")
  /\ UNCHANGED geoVars

-----------------------------------------------------------------------------
(* trafficCache.do for one key.  A hit changes nothing, and another query  *)
(* of the key waits for the one under way.                                 *)

QueryMisses ==
  /\ cache.entry = Nothing /\ cache.call = Nothing /\ Use("queries")
  /\ cache' = [cache EXCEPT !.call = Cardinality(geoList), !.late = FALSE]
  /\ UNCHANGED <<logRows, geoList, cursors, schedule, sync>>

QueryEnds ==
  /\ cache.call # Nothing
  /\ \/ cache' = [cache EXCEPT !.entry = cache.call, !.call = Nothing] /\ Spare
     \/ cache' = [cache EXCEPT !.call = Nothing] /\ Use("failures")
  /\ UNCHANGED <<logRows, geoList, cursors, schedule, sync>>

Expire ==
  /\ cache.entry # Nothing
  /\ cache' = [cache EXCEPT !.entry = Nothing, !.late = FALSE]
  /\ Spare /\ UNCHANGED <<logRows, geoList, cursors, schedule, sync>>

Surroundings ==
  \/ \E t \in Logs, ip \in Addresses : RowArrives(t, ip)
  \/ PruneIfEnabled \/ PruneOnce \/ PruneEventsByHand \/ PruneLogsByHand
  \/ TimerSkips \/ QueryMisses \/ QueryEnds \/ Expire

-----------------------------------------------------------------------------
\* Behind a cursor, the one kept for the next round and the one of the round
\* under way, every address that has a place is in the list: cancelled, failed
\* and quota-bound rounds leave no row behind for good (geoSyncTable).
ScannedIsListed ==
  LET Listed(t, n) == \A k \in 1 .. n : logRows[t][k] \in Located
                                          => logRows[t][k] \in geoList
  IN  /\ \A t \in Logs : Listed(t, cursors[t])
      /\ \A i \in Ids : sync[i].at \in {"block", "upsert", "close"}
                           => Listed(sync[i].log, sync[i].cursor)

\* A round is reported a success only if no table of it was cut short and no
\* statement failed, and a task that ends as done was one, unless a second
\* request to cancel hides the first (geoSyncAll, Center.Cancel).
OutcomeIsTrue ==
  \A i \in Ids :
    /\ sync[i].outcome = "success" => ~sync[i].interrupted /\ ~sync[i].failed
    /\ (/\ task[i].label = "geoip_sync" /\ task[i].status = "done"
        /\ firstCancel[i] \notin 1 .. task[i].finishAt)
         => sync[i].outcome = "success"

\* Until the next round begins, the statistics show all that a round that ended
\* well and the rounds before it have written, unless a query was under way
\* when the cache was purged (trafficCache.purge).
FreshAfterSync ==
  \A i \in Ids :
    (sync[i].at = "ok" /\ \A j \in Ids : j > i => sync[j].at = "none")
      => cache.entry \in {Nothing, Cardinality(geoList)} \/ cache.late
=============================================================================
