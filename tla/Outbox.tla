-------------------------------- MODULE Outbox --------------------------------
(***************************************************************************)
(* plugins/mq: messages that the program has put into the outbox table,    *)
(* and the goroutine that fetches them, posts them to their consumer and   *)
(* then marks them.  The rows outlive the process; the consumer may        *)
(* refuse, and its answer may be lost.                                     *)
(***************************************************************************)
EXTENDS Storage, FiniteSetsExt

CONSTANTS
  Messages,    \* ids, in the order they are inserted
  MaxRetries,  \* MQ_MAX_RETRIES
  FetchLimit   \* defaultFetchLimit

ASSUME OutboxAssumption ==
  /\ Messages \subseteq Nat /\ IsFiniteSet(Messages)
  /\ MaxRetries \in Nat \ {0} /\ FetchLimit \in Nat \ {0}

VARIABLES
  outbox,     \* the table: status and retry_count
  courier,    \* the goroutine of the deliverer: todo is what it has fetched
  mq,         \* the component: "off", "on" or "stopping"
  delivered   \* history: times the consumer took a message

mqVars == <<outbox, courier, mq, delivered>>

Asleep == [at |-> "idle", todo |-> {}]

OutboxInit ==
  /\ outbox = [m \in Messages |-> [status |-> "none", retries |-> 0]]
  /\ courier = Asleep
  /\ mq = "off"
  /\ delivered = [m \in Messages |-> 0]

\* The statement succeeds; the caller has the store of a running component.
InsertMessage ==
  LET new == {m \in Messages : outbox[m].status = "none"} IN
  /\ mq = "on" /\ new # {} /\ db = "open"
  /\ outbox' = [outbox EXCEPT ![Min(new)].status = "pending"]
  /\ UNCHANGED <<courier, mq, delivered>>

-----------------------------------------------------------------------------
(* pollOnce.                                                               *)

FetchPending ==
  LET wanting == {m \in Messages : outbox[m].status \in {"pending", "failed"}} IN
  {m \in wanting : Cardinality({n \in wanting : n < m}) < FetchLimit}

Current == Min(courier.todo)

\* What the loop does after a message.
NextMessage ==
  LET rest == courier.todo \ {Current} IN
  IF rest = {} THEN Asleep ELSE [at |-> "deliver", todo |-> rest]

Poll ==
  /\ courier.at = "idle" /\ mq # "off"
  /\ Succeeding /\ FetchPending # {}
  /\ courier' = [at |-> "deliver", todo |-> FetchPending]
  /\ UNCHANGED <<outbox, mq, delivered, db>>

\* The consumer takes the message, refuses it or cannot be reached, or takes
\* it without its answer coming back.
Deliver ==
  /\ courier.at = "deliver"
  /\ \/ /\ Free
        /\ delivered' = [delivered EXCEPT ![Current] = @ + 1]
        /\ courier' = [courier EXCEPT !.at = "done"]
     \/ /\ Free
        /\ courier' = [courier EXCEPT !.at = "failed"]
        /\ UNCHANGED delivered
     \/ /\ Spend("failures")
        /\ delivered' = [delivered EXCEPT ![Current] = @ + 1]
        /\ courier' = [courier EXCEPT !.at = "failed"]
  /\ UNCHANGED <<outbox, mq, db>>

\* A mark that fails is only logged.
MarkDone ==
  /\ courier.at = "done"
  /\ \/ Succeeding /\ outbox' = [outbox EXCEPT ![Current].status = "done"]
     \/ Failing /\ UNCHANGED outbox
  /\ courier' = NextMessage
  /\ UNCHANGED <<mq, delivered, db>>

\* Mutant: a failure is not counted.
FailedRowUncounted(row) ==
  [status |-> IF row.retries + 1 >= MaxRetries THEN "dead" ELSE "failed",
   retries |-> row.retries]

\* mq_mark_failed.sql
FailedRow(row) ==
  [status |-> IF row.retries + 1 >= MaxRetries THEN "dead" ELSE "failed",
   retries |-> row.retries + 1]

\* Two statements: the mark, and the count that decides whether to wait.
MarkFailed ==
  LET row == FailedRow(outbox[Current]) IN
  /\ courier.at = "failed"
  /\ \/ /\ Succeeding
        /\ outbox' = [outbox EXCEPT ![Current] = row]
        /\ courier' = IF row.retries >= MaxRetries THEN NextMessage
                      ELSE [courier EXCEPT !.at = "sleep"]
     \/ /\ Failing
        /\ \/ UNCHANGED outbox
           \/ db = "open" /\ outbox' = [outbox EXCEPT ![Current] = row]
        /\ courier' = NextMessage
  /\ UNCHANGED <<mq, delivered, db>>

\* Stop breaks the pause, and with it the round.
Backoff ==
  /\ courier.at = "sleep"
  /\ \/ courier' = NextMessage
     \/ mq = "stopping" /\ courier' = Asleep
  /\ UNCHANGED <<outbox, mq, delivered, storageVars>>

PollOnce == Poll \/ Deliver \/ MarkDone \/ MarkFailed \/ Backoff

-----------------------------------------------------------------------------
(* Start and Stop of the component.                                        *)

StartMq ==
  /\ mq = "off" /\ db = "open"
  /\ mq' = "on"
  /\ UNCHANGED <<outbox, courier, delivered>>

StopMq ==
  /\ mq = "on" /\ mq' = "stopping"
  /\ UNCHANGED <<outbox, courier, delivered>>

\* Mutant: Stop does not wait; what the goroutine holds is fetched again.
CourierLeft ==
  /\ mq = "stopping"
  /\ mq' = "off" /\ courier' = Asleep
  /\ UNCHANGED <<outbox, delivered, storageVars>>

\* Stop waits for the goroutine, which ends between two rounds.
CourierEnds ==
  /\ mq = "stopping" /\ courier.at = "idle"
  /\ mq' = "off"
  /\ UNCHANGED <<outbox, courier, delivered, storageVars>>

-----------------------------------------------------------------------------
Final(m) == outbox[m].status \in {"done", "dead"}

\* While the component and the database stay on, every message ends: it is
\* delivered, or its failures are used up, although others before it keep
\* failing.
MessagesEnd ==
  \A m \in Messages :
    outbox[m].status = "pending" ~> (Final(m) \/ mq # "on" \/ db = "closed")
=============================================================================
