---------------------------- MODULE EventCounter ----------------------------
(***************************************************************************)
(* plugins/shield, eventCounter: denials by the minute in a ring of        *)
(* buckets, counted without a lock, and the sums over a window that the    *)
(* administrators see.  Each access to an atomic variable is a step.       *)
(***************************************************************************)
EXTENDS Integers, FiniteSets, Folds

CONSTANTS
  Buckets,   \* counterBuckets: minutes of the ring
  LastAdder, \* bound: calls of Add are 1 .. LastAdder, as they come
  Types,     \* categories of denials
  LastMinute \* bound: minutes are 1 .. LastMinute

ASSUME CounterAssumption == {Buckets, LastAdder, LastMinute} \subseteq Nat \ {0}

VARIABLES
  minute, \* the minute of the clock
  bucket, \* the ring: the minute a bucket is for, 0 at first; total; counts
  add,    \* where each call of Add stands
  excused \* history: minutes that were miscounted because calls overlapped

counterVars == <<minute, bucket, add, excused>>

Adders == 1 .. LastAdder
Ring == 0 .. Buckets - 1
NoCounts == [t \in Types |-> 0]

\* The category means nothing before Add.
NoAdd == [at |-> "none", slot |-> 0, type |-> CHOOSE t \in Types : TRUE, old |-> 0,
          todo |-> {}]

CounterInit ==
  /\ minute = 1
  /\ bucket = [b \in Ring |-> [slot |-> 0, total |-> 0, counts |-> NoCounts]]
  /\ add = [a \in Adders |-> NoAdd]
  /\ excused = {}

BucketOf(a) == add[a].slot % Buckets

Stands(a, at) == add[a].at = at

Clearing(b) == \E a \in Adders : BucketOf(a) = b /\ add[a].at \in {"reset", "resetCounts"}

MinutePasses ==
  /\ minute < LastMinute /\ minute' = minute + 1
  /\ UNCHANGED <<bucket, add, excused>>

\* The caller has read the clock.  The category of the first call is any: the
\* categories are alike.
Add(a) ==
  /\ Stands(a, "none") /\ \A b \in Adders : b < a => ~Stands(b, "none")
  /\ \E t \in IF a = 1 THEN {NoAdd.type} ELSE Types :
       add' = [add EXCEPT ![a] = [@ EXCEPT !.at = "load", !.slot = minute, !.type = t]]
  /\ UNCHANGED <<minute, bucket, excused>>

LoadSlot(a) ==
  LET slot == bucket[BucketOf(a)].slot IN
  /\ Stands(a, "load")
  /\ add' = [add EXCEPT ![a].at = IF slot = add[a].slot THEN "total" ELSE "swap",
                        ![a].old = slot]
  /\ UNCHANGED <<minute, bucket, excused>>

\* Who takes the bucket over clears it, be it for an earlier minute, when its
\* caller was held up for the time of a ring; who came too late looks again.
CompareAndSwap(a) ==
  LET b == BucketOf(a) IN
  /\ Stands(a, "swap")
  /\ IF bucket[b].slot = add[a].old
     THEN /\ bucket' = [bucket EXCEPT ![b].slot = add[a].slot]
          /\ add' = [add EXCEPT ![a].at = "reset"]
          /\ excused' = IF add[a].old > add[a].slot \/ Clearing(b)
                        THEN excused \union {add[a].old, add[a].slot} ELSE excused
     ELSE add' = [add EXCEPT ![a].at = "load"] /\ UNCHANGED <<bucket, excused>>
  /\ UNCHANGED minute

ResetTotal(a) ==
  /\ Stands(a, "reset")
  /\ bucket' = [bucket EXCEPT ![BucketOf(a)].total = 0]
  /\ add' = [add EXCEPT ![a].at = "resetCounts", ![a].todo = Types]
  /\ UNCHANGED <<minute, excused>>

\* Mutant: one category is forgotten.
ResetSome(a) ==
  /\ Stands(a, "resetCounts")
  /\ \E t \in add[a].todo : bucket' = [bucket EXCEPT ![BucketOf(a)].counts[t] = 0]
  /\ add' = [add EXCEPT ![a].at = "total", ![a].todo = {}]
  /\ UNCHANGED <<minute, excused>>

\* Category by category.
ResetCount(a) ==
  /\ Stands(a, "resetCounts")
  /\ \E t \in add[a].todo :
       /\ bucket' = [bucket EXCEPT ![BucketOf(a)].counts[t] = 0]
       /\ add' = [add EXCEPT ![a].todo = @ \ {t},
                             ![a].at = IF add[a].todo = {t} THEN "total" ELSE @]
  /\ UNCHANGED <<minute, excused>>

\* What an increment beside a clearing counts may be lost, and one that comes
\* after the take-over for another minute is counted there.
Overlaps(a) ==
  LET b == BucketOf(a) IN
  IF Clearing(b) \/ bucket[b].slot # add[a].slot
  THEN excused \union {bucket[b].slot, add[a].slot} ELSE excused

IncrementTotal(a) ==
  /\ Stands(a, "total")
  /\ bucket' = [bucket EXCEPT ![BucketOf(a)].total = @ + 1]
  /\ add' = [add EXCEPT ![a].at = "count"]
  /\ excused' = Overlaps(a)
  /\ UNCHANGED minute

IncrementCount(a) ==
  /\ Stands(a, "count")
  /\ bucket' = [bucket EXCEPT ![BucketOf(a)].counts[add[a].type] = @ + 1]
  /\ add' = [add EXCEPT ![a].at = "done"]
  /\ excused' = Overlaps(a)
  /\ UNCHANGED minute

CounterStep ==
  \/ MinutePasses
  \/ \E a \in Adders :
       \/ Add(a) \/ LoadSlot(a) \/ CompareAndSwap(a)
       \/ ResetTotal(a) \/ ResetCount(a) \/ IncrementTotal(a) \/ IncrementCount(a)

\* Snapshot: the buckets whose minute is among the last of a window; one with
\* the total zero is taken to be in the middle of its clearing.
InWindow(window) ==
  {b \in Ring : LET slot == bucket[b].slot IN
                slot # 0 /\ slot <= minute /\ minute - slot < window /\ bucket[b].total # 0}

SumOver(S, value(_)) == MapThenFoldSet(+, 0, value, LAMBDA X : CHOOSE x \in X : TRUE, S)

Snapshot(window) ==
  [total  |-> SumOver(InWindow(window), LAMBDA b : bucket[b].total),
   byType |-> [t \in Types |-> SumOver(InWindow(window), LAMBDA b : bucket[b].counts[t])]]

-----------------------------------------------------------------------------
\* Once no call is under way, a snapshot shows exactly the denials of the
\* minutes of its window, in sum and by category, whatever the buckets held a
\* ring before, but for minutes in which calls overlapped a clearing ("zero
\* error", event_recorder.go:95; "may lose 1-2", event_recorder.go:57).
SnapshotExact ==
  (\A a \in Adders : add[a].at \in {"none", "done"}) =>
    \A window \in 1 .. Buckets :
      LET Shown == {m \in 1 .. minute : minute - m < window}
          Of(Chosen(_)) == Cardinality({a \in Adders : /\ add[a].at = "done"
                                                       /\ add[a].slot \in Shown
                                                       /\ Chosen(a)})
      IN  Shown \intersect excused = {} =>
            Snapshot(window) =
              [total  |-> Of(LAMBDA a : TRUE),
               byType |-> [t \in Types |-> Of(LAMBDA a : add[a].type = t)]]
=============================================================================
