----------------------------- MODULE RateLimiter -----------------------------
(***************************************************************************)
(* plugins/shield, RateLimiter: a bucket of tokens for each key in a       *)
(* sync.Map, a counter of the buckets beside it, and an eviction of those  *)
(* not used for longest when there are too many.  Only a bucket has a      *)
(* lock.  A bucket is named by the request that made it: one that was      *)
(* evicted can still be in somebody's hands.                               *)
(***************************************************************************)
EXTENDS Integers, FiniteSets

CONSTANTS
  Keys,       \* addresses or domains, as the rules say
  LastClient, \* bound: requests are 1 .. LastClient, as they come
  BucketsMax,
  Burst,
  Rps,
  LastSecond  \* bound: the last second

ASSUME LimiterAssumption ==
  /\ Keys # {} /\ {BucketsMax, Burst, Rps, LastClient} \subseteq Nat \ {0}
  /\ LastSecond \in Nat

VARIABLES
  second,
  buckets,  \* key to bucket
  made,     \* the buckets that were made: tokens, lastRefill, lastAccess
  count,    \* the number of buckets, as the limiter believes
  client,   \* where each request stands
  passed,   \* history: requests each key was allowed
  renewed,  \* history: keys whose bucket was evicted or replaced
  overlap   \* history: two evictions have run at once

limiterVars == <<second, buckets, made, count, client, passed, renewed, overlap>>

Clients == 1 .. LastClient
NoBucket == 0

\* The key means nothing before Allow.
NewClient == [at |-> "none", key |-> CHOOSE k \in Keys : TRUE, now |-> 0, bucket |-> NoBucket,
              todo |-> {}, removed |-> 0]

LimiterInit ==
  /\ second = 0
  /\ buckets = [k \in Keys |-> NoBucket]
  /\ made = [c \in Clients |-> [tokens |-> 0, refilled |-> 0, used |-> 0]]
  /\ count = 0
  /\ client = [c \in Clients |-> NewClient]
  /\ passed = [k \in Keys |-> 0]
  /\ renewed = {} /\ overlap = FALSE

SecondPasses ==
  /\ second < LastSecond /\ second' = second + 1
  /\ UNCHANGED <<buckets, made, count, client, passed, renewed, overlap>>

\* Allow: the request has read the clock.  The key of the first one is any: the
\* keys are alike.
Allow(c) ==
  /\ client[c].at = "none" /\ \A d \in Clients : d < c => client[d].at # "none"
  /\ \E k \in IF c = 1 THEN {NewClient.key} ELSE Keys :
       client' = [client EXCEPT ![c] = [@ EXCEPT !.at = "load", !.key = k, !.now = second]]
  /\ UNCHANGED <<second, buckets, made, count, passed, renewed, overlap>>

\* The bucket that is there, b, is taken and marked as used.
Found(c, b) ==
  /\ client' = [client EXCEPT ![c] = [@ EXCEPT !.at = "take", !.bucket = b]]
  /\ made' = [made EXCEPT ![b].used = client[c].now]
  /\ UNCHANGED buckets

Load(c) ==
  LET b == buckets[client[c].key] IN
  /\ client[c].at = "load"
  /\ IF b # NoBucket THEN Found(c, b)
     ELSE client' = [client EXCEPT ![c].at = "store"] /\ UNCHANGED <<buckets, made>>
  /\ UNCHANGED <<second, count, passed, renewed, overlap>>

Stored(c) ==
  /\ buckets' = [buckets EXCEPT ![client[c].key] = c]
  /\ made' = [made EXCEPT ![c] = [tokens |-> Burst, refilled |-> client[c].now,
                                  used |-> client[c].now]]
  /\ client' = [client EXCEPT ![c] = [@ EXCEPT !.at = "count", !.bucket = c]]

\* Mutant: the new bucket replaces one that came in between.
Store(c) ==
  /\ client[c].at = "store"
  /\ Stored(c)
  /\ UNCHANGED <<second, count, passed, renewed, overlap>>

LoadOrStore(c) ==
  LET b == buckets[client[c].key] IN
  /\ client[c].at = "store"
  /\ IF b # NoBucket THEN Found(c, b) ELSE Stored(c)
  /\ UNCHANGED <<second, count, passed, renewed, overlap>>

Evicting(c) == client[c].at \in {"range", "delete"}

CountBucket(c) ==
  /\ client[c].at = "count"
  /\ count' = count + 1
  /\ client' = [client EXCEPT ![c].at = IF count' > BucketsMax THEN "range" ELSE "take"]
  /\ overlap' = (overlap \/ (count' > BucketsMax /\ \E d \in Clients : Evicting(d)))
  /\ UNCHANGED <<second, buckets, made, passed, renewed>>

Target == (BucketsMax * 3) \div 4

\* evict: those used last stay, the others are to go; equals in any order.
RangeBuckets(c) ==
  LET entries == {k \in Keys : buckets[k] # NoBucket}
      Used(k) == made[buckets[k]].used
  IN
  /\ client[c].at = "range"
  /\ IF Cardinality(entries) <= Target
     THEN client' = [client EXCEPT ![c].at = "take"]
     ELSE \E old \in SUBSET entries :
            /\ Cardinality(old) = Cardinality(entries) - Target
            /\ \A k \in old, l \in entries \ old : Used(k) <= Used(l)
            /\ client' = [client EXCEPT ![c] = [@ EXCEPT !.at = "delete", !.todo = old,
                                                         !.removed = Cardinality(old)]]
  /\ UNCHANGED <<second, buckets, made, count, passed, renewed, overlap>>

Delete(c) ==
  /\ client[c].at = "delete"
  /\ \E k \in client[c].todo :
       /\ buckets' = [buckets EXCEPT ![k] = NoBucket]
       /\ client' = [client EXCEPT ![c].todo = @ \ {k}]
       /\ renewed' = renewed \union {k}
  /\ UNCHANGED <<second, made, count, passed, overlap>>

DiscountBuckets(c) ==
  /\ client[c].at = "delete" /\ client[c].todo = {}
  /\ count' = count - client[c].removed
  /\ client' = [client EXCEPT ![c].at = "take"]
  /\ UNCHANGED <<second, buckets, made, passed, renewed, overlap>>

Smaller(x, y) == IF x <= y THEN x ELSE y

\* allow, under the lock of the bucket: a clock read before the last refill
\* adds nothing.
Take(c) ==
  LET b == client[c].bucket
      elapsed == client[c].now - made[b].refilled
      tokens == IF elapsed > 0 THEN Smaller(Burst, made[b].tokens + elapsed * Rps)
                               ELSE made[b].tokens
      ok == tokens >= 1
  IN
  /\ client[c].at = "take"
  /\ made' = [made EXCEPT ![b] = [@ EXCEPT
                 !.tokens = IF ok THEN tokens - 1 ELSE tokens,
                 !.refilled = IF elapsed > 0 THEN client[c].now ELSE made[b].refilled]]
  /\ passed' = [passed EXCEPT ![client[c].key] = IF ok THEN @ + 1 ELSE @]
  /\ client' = [client EXCEPT ![c].at = "done"]
  /\ UNCHANGED <<second, buckets, count, renewed, overlap>>

\* A rebuild of the snapshot brings a new limiter: every key begins again with
\* a full bucket, and the requests under way end on the old one.
Renew ==
  /\ buckets' = [k \in Keys |-> NoBucket] /\ count' = 0
  /\ client' = [c \in Clients |-> IF client[c].at = "none" THEN client[c]
                                  ELSE [client[c] EXCEPT !.at = "done", !.todo = {}]]
  /\ passed' = [k \in Keys |-> 0] /\ renewed' = {} /\ overlap' = FALSE
  /\ UNCHANGED <<second, made>>

LimiterStep ==
  \/ SecondPasses
  \/ \E c \in Clients :
       \/ Allow(c) \/ Load(c) \/ LoadOrStore(c) \/ CountBucket(c)
       \/ RangeBuckets(c) \/ Delete(c) \/ DiscountBuckets(c) \/ Take(c)

-----------------------------------------------------------------------------
\* A limiter allows a key its burst and what time adds, however many of its requests
\* meet the first bucket at once, as long as that bucket stays; and, unless two
\* evictions ran at once, the buckets are counted right and no more than their
\* limit: two that overlap take the same buckets off the count twice, and from
\* then on there may be more (loadOrStore, evict).
LimiterHolds ==
  /\ \A k \in Keys \ renewed : passed[k] <= Burst + Rps * second
  /\ ~overlap /\ (\A c \in Clients : client[c].at \notin {"count", "range", "delete"})
       => /\ count = Cardinality({k \in Keys : buckets[k] # NoBucket})
          /\ count <= BucketsMax
=============================================================================
