------------------------------ MODULE AccessLog ------------------------------
(***************************************************************************)
(* plugins/obs: records of requests on their way to the database.  Every   *)
(* Start makes a new sink, an AsyncStore with a goroutine of its own, and  *)
(* flushes and closes the one before; Stop flushes the present one.  The   *)
(* manager and hot reloads call them side by side.  A request fetches the  *)
(* sink first and writes to it later.  Records are counted, not told       *)
(* apart.                                                                  *)
(***************************************************************************)
EXTENDS Storage, FiniteSetsExt

CONSTANTS
  AsyncCap,  \* asyncCap
  MaxSinks,  \* bound: Starts
  Reloads    \* hot reloads, each a goroutine

Switchers == {"manager"} \cup Reloads

ASSUME AccessLogAssumption ==
  /\ AsyncCap \in Nat \ {0} /\ MaxSinks \in Nat \ {0}
  /\ Reloads \cap {"manager", "nobody"} = {}

VARIABLES
  sinks,   \* every AsyncStore made; the last one is o.sink
  life,    \* per switcher: the Start or Stop it is in, and its flush
  written  \* history: calls of Write

logVars == <<sinks, life, written>>

\* kind "discard" is discardStore; ack: whose flush the batch belongs to.
\* Histories: stored, records with a row in the table, kept of which are of
\* the batch in hand and both of which were counted as dropped besides;
\* discarded, records that discardStore took, which nothing in the code counts.
NewSink(kind) ==
  [kind |-> kind, pending |-> 0, batch |-> 0, dropped |-> 0,
   stored |-> 0, kept |-> 0, both |-> 0, discarded |-> 0,
   wake |-> FALSE, closed |-> FALSE, done |-> FALSE, at |-> "select",
   tries |-> 0, ack |-> "nobody", failed |-> FALSE]

NoLife == [op |-> "none", at |-> "none", of |-> 0]

NoLives == [w \in Switchers |-> NoLife]

LogInit == sinks = <<NewSink("db")>> /\ life = NoLives /\ written = 0

Sink == Len(sinks)

Sinks == DOMAIN sinks

Put(k, s) == sinks' = [sinks EXCEPT ![k] = s]

\* Under the mutex: a closed or full sink drops, and counts what it drops.
Write(k) ==
  LET s == sinks[k] IN
  /\ written' = written + 1
  /\ Put(k, IF s.closed \/ s.pending >= AsyncCap
              THEN [s EXCEPT !.dropped = @ + 1]
              ELSE [s EXCEPT !.pending = @ + 1, !.wake = TRUE])
  /\ UNCHANGED <<life, storageVars>>

-----------------------------------------------------------------------------
(* The goroutine of a sink.                                                *)

Take(s) == [s EXCEPT !.batch = s.pending, !.pending = 0, !.tries = 0,
                     !.failed = FALSE,
                     !.at = IF s.pending > 0 THEN "write" ELSE "select"]

WritePending(k) ==
  LET s == sinks[k] IN
  /\ s.at = "select" /\ s.wake
  /\ Put(k, [Take(s) EXCEPT !.wake = FALSE])
  /\ UNCHANGED <<life, written, storageVars>>

\* Whoever waits to be flushed; the flag is set with the lock that Write holds.
FlushAll(k) ==
  LET s == sinks[k] IN
  /\ s.at = "select"
  /\ \E w \in Switchers :
       /\ life[w].at = "send" /\ life[w].of = k
       /\ Put(k, [Take(s) EXCEPT !.ack = w, !.closed = TRUE,
                                 !.at = IF s.pending > 0 THEN "write" ELSE "ack"])
       /\ life' = [life EXCEPT ![w].at = "wait"]
  /\ UNCHANGED <<written, storageVars>>

AfterBatch(s) == IF s.ack # "nobody" THEN "ack" ELSE "select"

\* Mutant: what the first try had stored is not counted as dropped again,
\* nor is the rest.
DroppedOnlyOnce(s, n) == IF n > 0 THEN 0 ELSE s.batch

\* The count of dropped records is that of the batch, whatever was stored.
Dropped(s, n) == s.batch

BatchDiscarded(s) ==
  [s EXCEPT !.discarded = @ + s.batch, !.batch = 0, !.at = AfterBatch(s)]

BatchStored(s) ==
  [s EXCEPT !.stored = @ + s.batch - s.kept, !.batch = 0, !.kept = 0, !.at = AfterBatch(s)]

\* n rows were written before the one that failed, the first ones again.
InTable(s, n) == IF n > s.kept THEN n ELSE s.kept

FirstTryFailed(s, n) ==
  [s EXCEPT !.stored = @ + InTable(s, n) - s.kept, !.kept = InTable(s, n), !.tries = 1]

BatchLost(s, n) ==
  [s EXCEPT !.stored = @ + InTable(s, n) - s.kept, !.both = @ + InTable(s, n),
            !.kept = 0, !.dropped = @ + Dropped(s, n),
            !.batch = 0, !.failed = TRUE, !.at = AfterBatch(s)]

\* Row by row, each on its own: a failure in the middle leaves the rows
\* before it in the table, and the second try begins with the first row.
WriteBatch(k) ==
  LET s == sinks[k] IN
  /\ s.at = "write"
  /\ \/ s.kind = "discard" /\ Free /\ Put(k, BatchDiscarded(s))
     \/ s.kind = "db" /\ Succeeding /\ Put(k, BatchStored(s))
     \/ \E n \in 0 .. s.batch - 1 :
          /\ s.kind = "db" /\ Failing /\ (db = "closed" => n = 0)
          /\ Put(k, IF s.tries = 0 THEN FirstTryFailed(s, n) ELSE BatchLost(s, n))
  /\ UNCHANGED <<life, written, db>>

\* Whoever asked for the flush is still there to hear of it.
Heard(k) == LET l == life[sinks[k].ack] IN l.at = "wait" /\ l.of = k

Answered(k) == IF Heard(k) THEN [life EXCEPT ![sinks[k].ack] = NoLife] ELSE life

\* Mutant: the flush of a batch that was lost is not answered.
AcknowledgeSuccess(k) ==
  /\ sinks[k].at = "ack"
  /\ Put(k, [sinks[k] EXCEPT !.at = "select", !.ack = "nobody"])
  /\ life' = IF sinks[k].failed THEN life ELSE Answered(k)
  /\ UNCHANGED <<written, storageVars>>

\* Flush returned to Start: Close finds the sink closed.  Returned to the
\* Flush within Close, it closes done unless the batch was lost.
Acknowledge(k) ==
  LET s == sinks[k]
      op == life[s.ack].op
      close == Heard(k) /\ (op = "start" \/ (op = "close" /\ ~ s.failed))
  IN
  /\ s.at = "ack"
  /\ Put(k, [s EXCEPT !.at = "select", !.ack = "nobody", !.done = @ \/ close])
  /\ life' = Answered(k)
  /\ UNCHANGED <<written, storageVars>>

RunEnds(k) ==
  /\ sinks[k].at = "select" /\ sinks[k].done
  /\ Put(k, [sinks[k] EXCEPT !.at = "ended"])
  /\ UNCHANGED <<life, written, storageVars>>

Run(k) == WritePending(k) \/ FlushAll(k) \/ WriteBatch(k) \/ Acknowledge(k) \/ RunEnds(k)

-----------------------------------------------------------------------------
(* Start, Stop and the Flush within them.                                  *)

\* A table that cannot be made leaves a sink that discards.  The old sink is
\* this Start's alone: whoever swaps next gets the new one.
StartObs(w) ==
  /\ life[w] = NoLife /\ Sink < MaxSinks
  /\ \E kind \in {"db", "discard"} :
       /\ IF kind = "db" THEN Succeeding ELSE Failing
       /\ sinks' = Append(sinks, NewSink(kind))
  /\ life' = [life EXCEPT ![w] = [op |-> "start", at |-> "look", of |-> Sink]]
  /\ UNCHANGED <<written, db>>

\* Stop loads the sink; a Start may swap it before it is flushed.
StopObs(w) ==
  /\ life[w] = NoLife
  /\ life' = [life EXCEPT ![w] = [op |-> "stop", at |-> "look", of |-> Sink]]
  /\ UNCHANGED <<sinks, written, storageVars>>

\* A sink that is closed needs no flush, although its batch may still be on
\* the way: Stop returns, and Close closes done.
Look(w) ==
  LET k == life[w].of IN
  /\ life[w].at = "look"
  /\ IF sinks[k].closed
       THEN /\ life' = [life EXCEPT ![w] = NoLife]
            /\ Put(k, [sinks[k] EXCEPT !.done = @ \/ life[w].op # "stop"])
       ELSE life' = [life EXCEPT ![w].at = "send"] /\ UNCHANGED sinks
  /\ UNCHANGED <<written, storageVars>>

\* Start waits five seconds for each of its two flushes, Stop for ever.
FlushTimeout(w) ==
  LET l == life[w] IN
  /\ l.op \in {"start", "close"} /\ l.at \in {"send", "wait"} /\ Spend("timeouts")
  /\ IF l.op = "start" /\ l.at = "send"
       THEN /\ life' = [life EXCEPT ![w] = [l EXCEPT !.op = "close", !.at = "look"]]
            /\ UNCHANGED sinks
       ELSE /\ life' = [life EXCEPT ![w] = NoLife]
            /\ Put(l.of, [sinks[l.of] EXCEPT !.done = @ \/ l.op = "start"])
  /\ UNCHANGED <<written, db>>

-----------------------------------------------------------------------------
Total(field) == MapThenSumSet(LAMBDA k : sinks[k][field], Sinks)

InMemory == Total("pending") + Total("batch")

\* No record of a request vanishes unseen, and none is counted twice but those
\* whose row was written before the batch failed: each is in memory, in the
\* table, counted as dropped, or with a sink that has no table and discards,
\* whichever of the sinks it met and whatever fails (AsyncStore, rebuildStore).
RecordsAccounted ==
  written + (Total("kept") + Total("both"))
    = InMemory + Total("stored") + Total("dropped") + Total("discarded")

\* Stop has looked at a sink and found it open, and a Start beside it has
\* flushed and closed it: nobody is left to take the flush, for which Stop
\* waits without a limit.
Abandoned ==
  \E w \in Switchers : life[w].at = "send" /\ sinks[life[w].of].at = "ended"
=============================================================================
