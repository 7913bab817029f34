---------------------------- MODULE EventRecorder ----------------------------
(***************************************************************************)
(* plugins/shield, the event recorder: denials go to a bounded channel     *)
(* without waiting, one goroutine collects them and writes them in         *)
(* batches, and Stop waits until it has emptied the channel.               *)
(***************************************************************************)
EXTENDS Storage

CONSTANTS
  EventBuffer,  \* SHIELD_EVENT_BUFFER
  FlushRows     \* SHIELD_EVENT_FLUSH_ROWS

ASSUME RecorderAssumption == EventBuffer \in Nat \ {0} /\ FlushRows \in Nat \ {0}

VARIABLES
  recorder,  \* the channel, the batch, the counters, where flushLoop stands
  stopped,   \* stopCh is closed
  recorded   \* history: calls of Record

eventVars == <<recorder, stopped, recorded>>

RecorderInit ==
  /\ recorder = [queue |-> 0, batch |-> 0, written |-> 0, dropped |-> 0,
                 at |-> "select"]
  /\ stopped = FALSE
  /\ recorded = 0

\* A full channel drops and counts.
Record ==
  /\ recorder' = IF recorder.queue < EventBuffer
                   THEN [recorder EXCEPT !.queue = @ + 1]
                   ELSE [recorder EXCEPT !.dropped = @ + 1]
  /\ recorded' = recorded + 1
  /\ UNCHANGED <<stopped, storageVars>>

-----------------------------------------------------------------------------
(* flushLoop: select takes whichever of its cases is ready.                *)

ReceiveEvent ==
  /\ recorder.at = "select" /\ recorder.queue > 0
  /\ recorder' = [recorder EXCEPT !.queue = @ - 1, !.batch = @ + 1,
                    !.at = IF recorder.batch + 1 >= FlushRows THEN "write" ELSE @]
  /\ UNCHANGED <<stopped, recorded, storageVars>>

FlushTick ==
  /\ recorder.at = "select" /\ recorder.batch > 0
  /\ recorder' = [recorder EXCEPT !.at = "write"]
  /\ UNCHANGED <<stopped, recorded, storageVars>>

StopSeen ==
  /\ recorder.at = "select" /\ stopped
  /\ recorder' = [recorder EXCEPT !.at = "drain"]
  /\ UNCHANGED <<stopped, recorded, storageVars>>

Drain ==
  /\ recorder.at = "drain"
  /\ recorder' = IF recorder.queue > 0
                   THEN [recorder EXCEPT !.queue = @ - 1, !.batch = @ + 1]
                   ELSE [recorder EXCEPT !.at = "last"]
  /\ UNCHANGED <<stopped, recorded, storageVars>>

\* Row by row: one that fails is dropped and counted, the others are written;
\* without the script of the statement the whole batch is dropped.
WriteEvents ==
  /\ recorder.at \in {"write", "last"}
  /\ \E n \in 0 .. recorder.batch :
       /\ IF n = recorder.batch /\ db = "open" THEN Free ELSE Failing
       /\ db = "closed" => n = 0
       /\ recorder' = [recorder EXCEPT
            !.written = @ + n, !.dropped = @ + recorder.batch - n, !.batch = 0,
            !.at = IF @ = "write" THEN "select" ELSE "ended"]
  /\ UNCHANGED <<stopped, recorded, db>>

FlushLoop == ReceiveEvent \/ FlushTick \/ StopSeen \/ Drain \/ WriteEvents

StopRecorder ==
  /\ stopped' = TRUE
  /\ UNCHANGED <<recorder, recorded, storageVars>>

-----------------------------------------------------------------------------
\* Every denial that was recorded is in the channel, in the batch, in the
\* table or in the count of dropped ones, and in one of them only.
EventsAccounted ==
  recorded = recorder.queue + recorder.batch + recorder.written + recorder.dropped
=============================================================================
