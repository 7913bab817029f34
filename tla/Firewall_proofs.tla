-------------------------- MODULE Firewall_proofs --------------------------
(***************************************************************************)
(* The limiter allows no key more than its tokens and counts its buckets,  *)
(* for every number of requests, keys, tokens and seconds; the lists count *)
(* every denial and every ban, for all addresses, administrators and       *)
(* failures; a snapshot of the counter shows every denial once, for all    *)
(* rings, callers and minutes.                                             *)
(***************************************************************************)
EXTENDS Firewall, FiniteSetTheorems, TLAPS

-----------------------------------------------------------------------------
(* The limiter.                                                            *)

Places == {"none", "load", "store", "count", "range", "delete", "take", "done"}

ClientState == [at : Places, key : Keys, now : Nat, bucket : Clients \cup {NoBucket},
                todo : SUBSET Keys, removed : Nat]

LimiterTypeOK ==
  /\ second \in Nat
  /\ buckets \in [Keys -> Clients \cup {NoBucket}]
  /\ made \in [Clients -> [tokens : Nat, refilled : Nat, used : Nat]]
  /\ count \in Int
  /\ client \in [Clients -> ClientState]
  /\ passed \in [Keys -> Nat]
  /\ renewed \subseteq Keys
  /\ overlap \in BOOLEAN

HasBucket(c) == client[c].at \in {"count", "range", "delete", "take"}

Owns(cl, b, k) ==
  cl[b].key = k /\ cl[b].at \in {"count", "range", "delete", "take", "done"}

Has(cl, bs, gone, c) ==
  /\ cl[c].bucket # NoBucket /\ Owns(cl, cl[c].bucket, cl[c].key)
  /\ cl[c].key \notin gone => bs[cl[c].key] = cl[c].bucket

\* A bucket is for the key of the request that made it.  As long as the bucket of
\* a key stays, all its requests have that one.
BucketsOK ==
  /\ \A k \in Keys : buckets[k] # NoBucket => Owns(client, buckets[k], k)
  /\ \A c \in Clients :
       /\ client[c].now <= second /\ made[c].refilled <= second
       /\ HasBucket(c) => Has(client, buckets, renewed, c)

\* Tokens that were spent and those that are left came with the burst and with
\* the time up to the last refill.
TokensOK ==
  \A k \in Keys \ renewed :
    IF buckets[k] = NoBucket THEN passed[k] = 0
    ELSE passed[k] + made[buckets[k]].tokens <= Burst + Rps * made[buckets[k]].refilled

InUse == {k \in Keys : buckets[k] # NoBucket}
Counting == {c \in Clients : client[c].at = "count"}
At(c, at) == client[c].at = at

\* Without overlap there is one eviction at a time, and it knows by how much the
\* count is off.
EvictionOK ==
  /\ \A c, d \in Clients : Evicting(c) /\ Evicting(d) => c = d
  /\ \A c \in Clients : Evicting(c) => BucketsMax < count
  /\ \A c \in Clients : At(c, "delete") =>
       /\ client[c].todo \subseteq InUse
       /\ count + Cardinality(Counting) + Cardinality(client[c].todo)
            = Cardinality(InUse) + client[c].removed
       /\ count <= client[c].removed + Target
  /\ (\A c \in Clients : ~At(c, "delete")) =>
       count + Cardinality(Counting) = Cardinality(InUse)
  /\ (\A c \in Clients : ~Evicting(c)) => count <= BucketsMax

LimiterInv == LimiterTypeOK /\ BucketsOK /\ TokensOK /\ (~overlap => EvictionOK)

-----------------------------------------------------------------------------
(* Facts about sets and tokens.                                            *)

LEMMA TargetFits == Target \in Nat /\ Target <= BucketsMax
BY LimiterAssumption DEF Target

LEMMA ClientsFinite == IsFiniteSet(Clients) /\ Clients \subseteq Nat \ {NoBucket}
<1>1. LastClient \in Nat
  BY LimiterAssumption
<1>2. IsFiniteSet(1 .. LastClient)
  BY <1>1, FS_Interval
<1> QED BY <1>1, <1>2 DEF Clients, NoBucket

LEMMA BucketsFinite ==
  ASSUME LimiterTypeOK, BucketsOK
  PROVE  IsFiniteSet(InUse) /\ Cardinality(InUse) \in Nat
<1> DEFINE f == [k \in InUse |-> buckets[k]]
<1>1. f \in [InUse -> Clients]
  BY DEF LimiterTypeOK, ClientState, InUse
<1>2. \A k, l \in InUse : f[k] = f[l] => k = l
  BY DEF BucketsOK, Owns, InUse
<1>3. f \in Injection(InUse, Clients)
  BY <1>1, <1>2 DEF Injection, IsInjective
<1>4. IsFiniteSet(InUse)
  BY <1>3, ClientsFinite, FS_Injection
<1> QED BY <1>4, FS_CardinalityType

LEMMA CountingFinite == IsFiniteSet(Counting) /\ Cardinality(Counting) \in Nat
<1>1. IsFiniteSet(Counting)
  BY ClientsFinite, FS_Subset DEF Counting
<1> QED BY <1>1, FS_CardinalityType

\* What has come up to a time, and what comes from then to another.
LEMMA Refill ==
  ASSUME NEW x \in Nat, NEW y \in Nat, x <= y
  PROVE  /\ Rps * x \in Nat /\ (y - x) * Rps \in Nat
         /\ Rps * x + (y - x) * Rps = Rps * y
<1>1. Rps \in Nat
  BY LimiterAssumption
<1>2. (y - x) * Rps = Rps * y - Rps * x
  BY <1>1
<1>3. Rps * x \in Nat /\ (y - x) * Rps \in Nat
  BY <1>1
<1>4. Rps * y \in Nat
  BY <1>1
<1> QED BY <1>2, <1>3, <1>4

-----------------------------------------------------------------------------
(* Each step of a limiter keeps the invariant.                             *)

\* What a request has stays its own.
LEMMA HasKept ==
  ASSUME LimiterTypeOK, NEW d \in Clients, Has(client, buckets, renewed, d),
         client'[d].key = client[d].key, client'[d].bucket = client[d].bucket,
         \A e \in Clients, k \in Keys : Owns(client, e, k) => Owns(client', e, k),
         renewed \subseteq renewed',
         \A k \in Keys \ renewed' : buckets[k] # NoBucket => buckets'[k] = buckets[k]
  PROVE  Has(client', buckets', renewed', d)
<1> DEFINE b == client[d].bucket
<1> DEFINE k == client[d].key
<1>1. /\ b \in Clients /\ k \in Keys /\ Owns(client, b, k)
      /\ k \notin renewed => buckets[k] = b
  BY DEF LimiterTypeOK, ClientState, Has
<1>2. client'[d].bucket = b /\ client'[d].key = k
  OBVIOUS
<1> HIDE DEF b, k
<1>3. Owns(client', b, k) /\ (k \notin renewed' => buckets'[k] = b) /\ b # NoBucket
  BY <1>1, ClientsFinite
<1> QED BY <1>2, <1>3 DEF Has

LEMMA SecondKeeps == LimiterInv /\ SecondPasses => LimiterInv'
<1> SUFFICES ASSUME LimiterInv, SecondPasses PROVE LimiterInv'
  OBVIOUS
<1> USE DEF LimiterInv, SecondPasses
<1>1. LimiterTypeOK'
  BY DEF LimiterTypeOK, ClientState
<1>2. BucketsOK'
  BY LimiterAssumption DEF LimiterTypeOK, ClientState, BucketsOK, HasBucket, Owns, Has
<1>3. TokensOK'
  BY DEF TokensOK
<1>4. EvictionOK => EvictionOK'
  BY DEF EvictionOK, Evicting, At, InUse, Counting
<1> QED BY <1>1, <1>2, <1>3, <1>4

LEMMA AllowKeeps ==
  ASSUME LimiterInv, NEW c \in Clients, Allow(c)
  PROVE  LimiterInv'
<1> USE DEF LimiterInv
<1> PICK k \in Keys : client' = [client EXCEPT ![c] = [@ EXCEPT !.at = "load", !.key = k,
                                                              !.now = second]]
  BY LimiterAssumption DEF Allow, NewClient
<1>0. client[c].at = "none" /\ UNCHANGED <<second, buckets, made, count, passed, renewed, overlap>>
  BY DEF Allow
<1>1. LimiterTypeOK'
  BY <1>0 DEF LimiterTypeOK, ClientState, Places
<1>2. /\ client'[c].at = "load" /\ client'[c].key = k /\ client'[c].now = second
      /\ \A d \in Clients \ {c} : client'[d] = client[d]
  BY DEF LimiterTypeOK, ClientState
<1>3. BucketsOK'
  BY <1>0, <1>2 DEF LimiterTypeOK, ClientState, BucketsOK, HasBucket, Owns, Has
<1>4. TokensOK'
  BY <1>0 DEF TokensOK
<1>5. Counting' = Counting /\ InUse' = InUse
  BY <1>0, <1>2 DEF Counting, InUse
<1>6. ~overlap => EvictionOK'
  BY <1>0, <1>2, <1>5 DEF EvictionOK, Evicting, At
<1> QED BY <1>0, <1>1, <1>3, <1>4, <1>6

\* A request that takes the bucket it found.
LEMMA FoundKeeps ==
  ASSUME LimiterInv, NEW c \in Clients, client[c].at \in {"load", "store"},
         buckets[client[c].key] # NoBucket, Found(c, buckets[client[c].key]),
         UNCHANGED <<second, count, passed, renewed, overlap>>
  PROVE  LimiterInv'
<1> DEFINE k == client[c].key
<1> DEFINE b == buckets[k]
<1> USE DEF LimiterInv
<1>1. k \in Keys /\ b \in Clients /\ client[c].now \in Nat
  BY DEF LimiterTypeOK, ClientState
<1>2. /\ client' = [client EXCEPT ![c] = [@ EXCEPT !.at = "take", !.bucket = b]]
      /\ made' = [made EXCEPT ![b].used = client[c].now]
      /\ UNCHANGED buckets
  BY DEF Found
<1>3. LimiterTypeOK'
  BY <1>1, <1>2 DEF LimiterTypeOK, ClientState, Places
<1>4. /\ client'[c].at = "take" /\ client'[c].key = k /\ client'[c].now = client[c].now
      /\ client'[c].bucket = b
      /\ \A d \in Clients \ {c} : client'[d] = client[d]
  BY <1>2 DEF LimiterTypeOK, ClientState
<1>5. \A d \in Clients : made'[d].tokens = made[d].tokens /\ made'[d].refilled = made[d].refilled
  BY <1>2 DEF LimiterTypeOK, ClientState
<1>6. Owns(client, b, k) /\ b # c
  BY <1>1 DEF BucketsOK, Owns
<1>7. \A d \in Clients, l \in Keys : Owns(client, d, l) => Owns(client', d, l)
  BY <1>4 DEF Owns
<1>8. BucketsOK'
  <2>1. \A l \in Keys : buckets'[l] # NoBucket => Owns(client', buckets'[l], l)
    BY <1>2, <1>7 DEF BucketsOK, LimiterTypeOK, ClientState
  <2>2. \A d \in Clients : client'[d].now <= second' /\ made'[d].refilled <= second'
    BY <1>4, <1>5 DEF BucketsOK
  <2>3. Has(client', buckets', renewed', c)
    BY <1>1, <1>2, <1>4, <1>6, <1>7, ClientsFinite DEF Has
  <2>4. \A d \in Clients \ {c} : HasBucket(d)' => Has(client', buckets', renewed', d)
    <3> SUFFICES ASSUME NEW d \in Clients \ {c}, HasBucket(d)'
                 PROVE  Has(client', buckets', renewed', d)
      OBVIOUS
    <3>1. client'[d] = client[d] /\ HasBucket(d)
      BY <1>4 DEF HasBucket
    <3>2. Has(client, buckets, renewed, d)
      BY <3>1 DEF BucketsOK
    <3> QED BY <1>2, <1>7, <3>1, <3>2, HasKept
  <2> QED BY <2>1, <2>2, <2>3, <2>4 DEF BucketsOK
<1>9. TokensOK'
  BY <1>2, <1>5 DEF TokensOK, LimiterTypeOK, ClientState
<1>10. Counting' = Counting /\ InUse' = InUse
  BY <1>2, <1>4 DEF Counting, InUse
<1>11. ~overlap => EvictionOK'
  BY <1>2, <1>4, <1>10 DEF EvictionOK, Evicting, At
<1> QED BY <1>3, <1>8, <1>9, <1>11

LEMMA LoadKeeps ==
  ASSUME LimiterInv, NEW c \in Clients, Load(c)
  PROVE  LimiterInv'
<1>1. CASE buckets[client[c].key] # NoBucket
  BY <1>1, FoundKeeps DEF Load
<1>2. CASE buckets[client[c].key] = NoBucket
  <2> USE DEF LimiterInv
  <2>1. /\ client' = [client EXCEPT ![c].at = "store"] /\ client[c].at = "load"
        /\ UNCHANGED <<second, buckets, made, count, passed, renewed, overlap>>
    BY <1>2 DEF Load
  <2>2. LimiterTypeOK'
    BY <2>1 DEF LimiterTypeOK, ClientState, Places
  <2>3. /\ client'[c] = [client[c] EXCEPT !.at = "store"]
        /\ \A d \in Clients \ {c} : client'[d] = client[d]
    BY <2>1 DEF LimiterTypeOK, ClientState
  <2>4. client'[c].at = "store" /\ client'[c].key = client[c].key /\ client'[c].now = client[c].now
    BY <2>3 DEF LimiterTypeOK, ClientState
  <2>5. BucketsOK'
    BY <2>1, <2>3, <2>4 DEF LimiterTypeOK, ClientState, BucketsOK, HasBucket, Owns, Has
  <2>6. TokensOK'
    BY <2>1 DEF TokensOK
  <2>7. Counting' = Counting /\ InUse' = InUse
    BY <2>1, <2>3, <2>4 DEF Counting, InUse
  <2>8. ~overlap => EvictionOK'
    BY <2>1, <2>3, <2>4, <2>7 DEF EvictionOK, Evicting, At
  <2> QED BY <2>1, <2>2, <2>5, <2>6, <2>8
<1> QED BY <1>1, <1>2

\* A request that stores the first bucket of its key.
LEMMA LoadOrStoreKeeps ==
  ASSUME LimiterInv, NEW c \in Clients, LoadOrStore(c)
  PROVE  LimiterInv'
<1>1. CASE buckets[client[c].key] # NoBucket
  BY <1>1, FoundKeeps DEF LoadOrStore
<1>2. CASE buckets[client[c].key] = NoBucket
  <2> DEFINE k == client[c].key
  <2> DEFINE new == [tokens |-> Burst, refilled |-> client[c].now, used |-> client[c].now]
  <2> USE DEF LimiterInv
  <2>1. /\ client[c].at = "store"
        /\ buckets' = [buckets EXCEPT ![k] = c]
        /\ made' = [made EXCEPT ![c] = new]
        /\ client' = [client EXCEPT ![c] = [@ EXCEPT !.at = "count", !.bucket = c]]
        /\ UNCHANGED <<second, count, passed, renewed, overlap>>
    BY <1>2 DEF LoadOrStore, Stored
  <2>2. k \in Keys /\ new \in [tokens : Nat, refilled : Nat, used : Nat] /\ c # NoBucket
    BY LimiterAssumption, ClientsFinite DEF LimiterTypeOK, ClientState
  <2>3. LimiterTypeOK'
    <3>1. client' \in [Clients -> ClientState]
      BY <2>1 DEF LimiterTypeOK, ClientState, Places
    <3>2. /\ buckets' \in [Keys -> Clients \cup {NoBucket}]
          /\ made' \in [Clients -> [tokens : Nat, refilled : Nat, used : Nat]]
      BY <2>1, <2>2 DEF LimiterTypeOK, ClientState
    <3> QED BY <2>1, <3>1, <3>2 DEF LimiterTypeOK, ClientState
  <2>4. /\ client'[c].at = "count" /\ client'[c].key = k /\ client'[c].now = client[c].now
        /\ client'[c].bucket = c
        /\ \A d \in Clients \ {c} : client'[d] = client[d]
    BY <2>1 DEF LimiterTypeOK, ClientState
  <2>40. client[c].at = "store" /\ UNCHANGED <<count, overlap>>
    BY <2>1
  <2>5. /\ made'[c].tokens = Burst /\ made'[c].refilled = client[c].now
        /\ \A d \in Clients \ {c} : made'[d] = made[d]
        /\ buckets'[k] = c /\ \A l \in Keys \ {k} : buckets'[l] = buckets[l]
    BY <2>1, <2>2 DEF LimiterTypeOK, ClientState
  <2>6. /\ \A d \in Clients, l \in Keys : Owns(client, d, l) => Owns(client', d, l)
        /\ Owns(client', c, k)
    BY <2>4 DEF Owns
  <2>8. BucketsOK'
    <3>1. \A l \in Keys : buckets'[l] # NoBucket => Owns(client', buckets'[l], l)
      BY <2>5, <2>6 DEF BucketsOK, LimiterTypeOK, ClientState
    <3>2. \A d \in Clients : client'[d].now <= second' /\ made'[d].refilled <= second'
      BY <2>1, <2>4, <2>5 DEF BucketsOK
    <3>3. Has(client', buckets', renewed', c)
      BY <2>2, <2>4, <2>5, <2>6 DEF Has
    <3>4. \A d \in Clients \ {c} : HasBucket(d)' => Has(client', buckets', renewed', d)
      <4> SUFFICES ASSUME NEW d \in Clients \ {c}, HasBucket(d)'
                   PROVE  Has(client', buckets', renewed', d)
        OBVIOUS
      <4>1. client'[d] = client[d] /\ HasBucket(d)
        BY <2>4 DEF HasBucket
      <4>2. Has(client, buckets, renewed, d)
        BY <4>1 DEF BucketsOK
      <4>3. \A l \in Keys : buckets[l] # NoBucket => buckets'[l] = buckets[l]
        BY <1>2, <2>5
      <4> QED BY <2>1, <2>6, <4>1, <4>2, <4>3, HasKept
    <3> QED BY <3>1, <3>2, <3>3, <3>4 DEF BucketsOK
  <2>9. \A l \in Keys : buckets[l] # c
    BY <2>1, <2>2 DEF BucketsOK, Owns
  <2>10. TokensOK'
    <3> SUFFICES ASSUME NEW l \in Keys, l \notin renewed
                 PROVE  IF buckets'[l] = NoBucket THEN passed[l] = 0
                        ELSE passed[l] + made'[buckets'[l]].tokens
                               <= Burst + Rps * made'[buckets'[l]].refilled
      BY <2>1 DEF TokensOK
    <3>1. CASE l = k
      <4>1. passed[k] = 0
        BY <1>2, <3>1 DEF TokensOK
      <4>2. Rps * client[c].now \in Nat /\ Burst \in Nat
        BY LimiterAssumption DEF LimiterTypeOK, ClientState
      <4> QED BY <3>1, <4>1, <4>2, <2>5, <2>2
    <3>2. CASE l # k
      BY <3>2, <2>5, <2>9 DEF TokensOK, LimiterTypeOK, ClientState
    <3> QED BY <3>1, <3>2
  <2>11. Counting' = Counting \cup {c} /\ c \notin Counting
    BY <2>1, <2>4 DEF Counting
  <2>12. InUse' = InUse \cup {k} /\ k \notin InUse
    BY <1>2, <2>2, <2>5 DEF InUse
  <2>13. /\ Cardinality(Counting') = Cardinality(Counting) + 1
         /\ Cardinality(InUse') = Cardinality(InUse) + 1
    BY <2>11, <2>12, CountingFinite, BucketsFinite, FS_AddElement
  <2>14. ~overlap => EvictionOK'
    <3> SUFFICES ASSUME EvictionOK PROVE EvictionOK'
      OBVIOUS
    <3>1. \A d \in Clients : /\ Evicting(d)' <=> Evicting(d)
                             /\ At(d, "delete")' <=> At(d, "delete")
                             /\ At(d, "delete") => client'[d] = client[d]
      BY <2>4, <2>40 DEF Evicting, At
    <3>2. \A d \in Clients : At(d, "delete") =>
            /\ Cardinality(client[d].todo) \in Nat /\ client[d].removed \in Nat
      BY BucketsFinite, FS_Subset, FS_CardinalityType DEF EvictionOK, LimiterTypeOK, ClientState
    <3>3. count \in Int /\ Cardinality(Counting) \in Nat /\ Cardinality(InUse) \in Nat
      BY CountingFinite, BucketsFinite DEF LimiterTypeOK, ClientState
    <3>4. \A d \in Clients : At(d, "delete")' =>
            /\ client'[d].todo \subseteq InUse'
            /\ count' + Cardinality(Counting') + Cardinality(client'[d].todo)
                 = Cardinality(InUse') + client'[d].removed
            /\ count' <= client'[d].removed + Target
      BY <2>12, <2>13, <2>40, <3>1, <3>2, <3>3 DEF EvictionOK
    <3>5. (\A d \in Clients : ~At(d, "delete")') =>
            count' + Cardinality(Counting') = Cardinality(InUse')
      BY <2>13, <2>40, <3>1, <3>3 DEF EvictionOK
    <3> QED BY <2>40, <3>1, <3>4, <3>5 DEF EvictionOK
  <2> QED BY <2>1, <2>3, <2>8, <2>10, <2>14
<1> QED BY <1>1, <1>2

\* A request that has its bucket goes on.
LEMMA BucketsStay ==
  ASSUME LimiterTypeOK, BucketsOK, NEW c \in Clients, HasBucket(c),
         UNCHANGED <<second, buckets, made>>, renewed \subseteq renewed',
         HasBucket(c)' \/ client'[c].at = "done",
         client'[c].key = client[c].key, client'[c].now = client[c].now,
         client'[c].bucket = client[c].bucket,
         \A d \in Clients \ {c} : client'[d] = client[d]
  PROVE  BucketsOK'
<1>1. \A d \in Clients, k \in Keys : Owns(client, d, k) => Owns(client', d, k)
  BY DEF Owns, HasBucket
<1>2. \A k \in Keys : buckets'[k] # NoBucket => Owns(client', buckets'[k], k)
  BY <1>1 DEF BucketsOK, LimiterTypeOK, ClientState
<1>3. ASSUME NEW d \in Clients
      PROVE  /\ client'[d].now <= second' /\ made'[d].refilled <= second'
             /\ HasBucket(d)' => Has(client', buckets', renewed', d)
  <2>1. client'[d].now <= second' /\ made'[d].refilled <= second'
    BY DEF BucketsOK
  <2>2. /\ HasBucket(d)' => HasBucket(d)
        /\ client'[d].key = client[d].key /\ client'[d].bucket = client[d].bucket
    BY DEF HasBucket
  <2>3. HasBucket(d) => Has(client, buckets, renewed, d)
    BY DEF BucketsOK
  <2> QED BY <1>1, <2>1, <2>2, <2>3, HasKept
<1> QED BY <1>2, <1>3 DEF BucketsOK

\* The count is raised, and an eviction begins when it is too large.
LEMMA CountBucketKeeps ==
  ASSUME LimiterInv, NEW c \in Clients, CountBucket(c)
  PROVE  LimiterInv'
<1> DEFINE to == IF count' > BucketsMax THEN "range" ELSE "take"
<1> USE DEF LimiterInv
<1>1. /\ client[c].at = "count" /\ count' = count + 1
      /\ client' = [client EXCEPT ![c].at = to]
      /\ UNCHANGED <<second, buckets, made, passed, renewed>>
  BY DEF CountBucket
<1>2. overlap' = (overlap \/ (count' > BucketsMax /\ \E d \in Clients : Evicting(d)))
  BY DEF CountBucket
<1>3. to \in {"range", "take"}
  OBVIOUS
<1>4. LimiterTypeOK'
  BY <1>1, <1>2, <1>3 DEF LimiterTypeOK, ClientState, Places
<1>5. /\ client'[c] = [client[c] EXCEPT !.at = to]
      /\ \A d \in Clients \ {c} : client'[d] = client[d]
  BY <1>1 DEF LimiterTypeOK, ClientState
<1>6. /\ client'[c].at = to /\ client'[c].key = client[c].key /\ client'[c].now = client[c].now
      /\ client'[c].bucket = client[c].bucket
  BY <1>5 DEF LimiterTypeOK, ClientState
<1> HIDE DEF to
<1>7. BucketsOK'
  BY <1>1, <1>3, <1>5, <1>6, BucketsStay DEF HasBucket
<1>8. TokensOK'
  BY <1>1 DEF TokensOK
<1>9. Counting' = Counting \ {c} /\ c \in Counting
  BY <1>1, <1>3, <1>5, <1>6 DEF Counting
<1>10. InUse' = InUse
  BY <1>1 DEF InUse
<1>11. Cardinality(Counting') = Cardinality(Counting) - 1
  BY <1>9, CountingFinite, FS_RemoveElement
<1>12. ~overlap' => EvictionOK'
  <2> SUFFICES ASSUME ~overlap' PROVE EvictionOK'
    OBVIOUS
  <2>1. EvictionOK /\ (count' > BucketsMax => \A d \in Clients : ~Evicting(d))
    BY <1>2
  <2>2. count \in Int /\ BucketsMax \in Nat
    BY LimiterAssumption DEF LimiterTypeOK, ClientState
  <2>3. \A d \in Clients : ~Evicting(d)
    BY <2>1, <2>2, <1>1 DEF EvictionOK
  <2>4. \A d \in Clients : ~At(d, "delete") /\ ~At(d, "delete")'
    BY <2>3, <1>3, <1>5, <1>6 DEF Evicting, At
  <2>5. \A d \in Clients : Evicting(d)' => d = c /\ count' > BucketsMax
    BY <2>3, <1>5, <1>6 DEF Evicting, to
  <2>6. (\A d \in Clients : ~Evicting(d)') => count' <= BucketsMax
    BY <1>1, <1>6, <2>2 DEF Evicting, to
  <2>7. count' + Cardinality(Counting') = Cardinality(InUse')
    BY <2>1, <2>2, <2>4, <1>1, <1>10, <1>11, CountingFinite, BucketsFinite DEF EvictionOK
  <2> QED BY <1>1, <2>2, <2>4, <2>5, <2>6, <2>7 DEF EvictionOK
<1> QED BY <1>4, <1>7, <1>8, <1>12

\* The eviction chooses the buckets that go.
LEMMA RangeBucketsKeeps ==
  ASSUME LimiterInv, NEW c \in Clients, RangeBuckets(c)
  PROVE  LimiterInv'
<1> USE DEF LimiterInv
<1>1. client[c].at = "range" /\ UNCHANGED <<second, buckets, made, count, passed, renewed, overlap>>
  BY DEF RangeBuckets
<1>2. InUse' = InUse
  BY <1>1 DEF InUse
<1>3. TokensOK'
  BY <1>1 DEF TokensOK
<1>4. ~overlap => /\ \A d \in Clients : Evicting(d) => d = c
                  /\ \A d \in Clients : ~At(d, "delete")
                  /\ BucketsMax < count
                  /\ count + Cardinality(Counting) = Cardinality(InUse)
  BY <1>1 DEF EvictionOK, Evicting, At
<1>5. CASE Cardinality(InUse) <= Target
  <2>1. client' = [client EXCEPT ![c].at = "take"]
    BY <1>5 DEF RangeBuckets, InUse
  <2>2. LimiterTypeOK'
    BY <1>1, <2>1 DEF LimiterTypeOK, ClientState, Places
  <2>3. /\ client'[c].at = "take" /\ client'[c].key = client[c].key
        /\ client'[c].now = client[c].now /\ client'[c].bucket = client[c].bucket
        /\ \A d \in Clients \ {c} : client'[d] = client[d]
    BY <2>1 DEF LimiterTypeOK, ClientState
  <2>4. BucketsOK'
    BY <1>1, <2>3, BucketsStay DEF HasBucket
  <2>5. ~overlap => FALSE
    BY <1>4, <1>5, TargetFits, CountingFinite, BucketsFinite, LimiterAssumption
       DEF LimiterTypeOK, ClientState
  <2> QED BY <1>1, <1>3, <2>2, <2>4, <2>5
<1>6. CASE ~(Cardinality(InUse) <= Target)
  <2>1. PICK old \in SUBSET InUse :
          /\ Cardinality(old) = Cardinality(InUse) - Target
          /\ client' = [client EXCEPT ![c] = [@ EXCEPT !.at = "delete", !.todo = old,
                                                       !.removed = Cardinality(old)]]
    BY <1>6 DEF RangeBuckets, InUse
  <2>2. old \in SUBSET Keys /\ Cardinality(old) \in Nat
    BY BucketsFinite, FS_Subset, FS_CardinalityType DEF InUse
  <2> DEFINE n == Cardinality(old)
  <2>3. n \in Nat /\ n = Cardinality(InUse) - Target
    BY <2>1, <2>2
  <2>4. client' = [client EXCEPT ![c] = [@ EXCEPT !.at = "delete", !.todo = old, !.removed = n]]
    BY <2>1
  <2>5. /\ client'[c].at = "delete" /\ client'[c].key = client[c].key
        /\ client'[c].now = client[c].now /\ client'[c].bucket = client[c].bucket
        /\ client'[c].todo = old /\ client'[c].removed = n
        /\ \A d \in Clients \ {c} : client'[d] = client[d]
    BY <2>4 DEF LimiterTypeOK, ClientState
  <2>6. LimiterTypeOK'
    <3> HIDE DEF n
    <3> DEFINE new == [client[c] EXCEPT !.at = "delete", !.todo = old, !.removed = n]
    <3>0. new \in ClientState
      BY <2>2, <2>3 DEF LimiterTypeOK, ClientState, Places
    <3> HIDE DEF new
    <3>1. client' \in [Clients -> ClientState]
      BY <2>4, <3>0 DEF LimiterTypeOK, new
    <3> QED BY <1>1, <3>1 DEF LimiterTypeOK, ClientState
  <2>7. BucketsOK'
    BY <1>1, <2>5, BucketsStay DEF HasBucket
  <2>8. Counting' = Counting
    BY <1>1, <2>5 DEF Counting
  <2>9. ~overlap => EvictionOK'
    <3> SUFFICES ASSUME ~overlap PROVE EvictionOK'
      OBVIOUS
    <3>1. \A d \in Clients : (Evicting(d)' => d = c) /\ (At(d, "delete")' => d = c)
      BY <1>4, <2>5 DEF Evicting, At
    <3>2. Evicting(c)' /\ At(c, "delete")'
      BY <2>5 DEF Evicting, At
    <3>3. /\ count + Cardinality(Counting) + n = Cardinality(InUse) + n
          /\ count <= n + Target
      BY <1>4, <2>3, TargetFits, CountingFinite, BucketsFinite DEF LimiterTypeOK, ClientState
    <3> QED BY <1>1, <1>2, <1>4, <2>1, <2>5, <2>8, <3>1, <3>2, <3>3 DEF EvictionOK
  <2> QED BY <1>1, <1>3, <2>6, <2>7, <2>9
<1> QED BY <1>5, <1>6

\* A bucket is taken out, of those chosen.
LEMMA DeleteKeeps ==
  ASSUME LimiterInv, NEW c \in Clients, Delete(c)
  PROVE  LimiterInv'
<1> USE DEF LimiterInv
<1> PICK k \in client[c].todo :
      /\ buckets' = [buckets EXCEPT ![k] = NoBucket]
      /\ client' = [client EXCEPT ![c].todo = @ \ {k}]
      /\ renewed' = renewed \union {k}
  BY DEF Delete
<1>1. client[c].at = "delete" /\ UNCHANGED <<second, made, count, passed, overlap>>
  BY DEF Delete
<1>2. k \in Keys
  BY DEF LimiterTypeOK, ClientState
<1>3. LimiterTypeOK'
  BY <1>1, <1>2 DEF LimiterTypeOK, ClientState
<1>4. /\ client'[c].at = "delete" /\ client'[c].key = client[c].key
      /\ client'[c].now = client[c].now /\ client'[c].bucket = client[c].bucket
      /\ client'[c].todo = client[c].todo \ {k} /\ client'[c].removed = client[c].removed
      /\ \A d \in Clients \ {c} : client'[d] = client[d]
  BY <1>1 DEF LimiterTypeOK, ClientState
<1>5. buckets'[k] = NoBucket /\ \A l \in Keys \ {k} : buckets'[l] = buckets[l]
  BY <1>2 DEF LimiterTypeOK, ClientState
<1>6. \A d \in Clients, l \in Keys : Owns(client, d, l) => Owns(client', d, l)
  BY <1>1, <1>4 DEF Owns
<1>7. BucketsOK'
  <2>1. \A l \in Keys : buckets'[l] # NoBucket => Owns(client', buckets'[l], l)
    BY <1>5, <1>6 DEF BucketsOK, LimiterTypeOK, ClientState
  <2>2. \A d \in Clients : client'[d].now <= second' /\ made'[d].refilled <= second'
    BY <1>1, <1>4 DEF BucketsOK
  <2>3. ASSUME NEW d \in Clients, HasBucket(d)'
        PROVE  Has(client', buckets', renewed', d)
    <3>1. /\ client'[d].key = client[d].key /\ client'[d].bucket = client[d].bucket
          /\ HasBucket(d)
      BY <1>1, <1>4, <2>3 DEF HasBucket
    <3>2. Has(client, buckets, renewed, d)
      BY <3>1 DEF BucketsOK
    <3> QED BY <1>5, <1>6, <3>1, <3>2, HasKept
  <2> QED BY <2>1, <2>2, <2>3 DEF BucketsOK
<1>8. TokensOK'
  BY <1>1, <1>5 DEF TokensOK, LimiterTypeOK, ClientState
<1>9. ~overlap => EvictionOK'
  <2> SUFFICES ASSUME ~overlap PROVE EvictionOK'
    OBVIOUS
  <2>1. \A d \in Clients : /\ Evicting(d)' <=> Evicting(d)
                           /\ At(d, "delete")' <=> At(d, "delete")
                           /\ Evicting(d) => d = c
    BY <1>1, <1>4 DEF EvictionOK, Evicting, At
  <2>2. /\ At(c, "delete") /\ Evicting(c)
        /\ client[c].todo \subseteq InUse
        /\ count + Cardinality(Counting) + Cardinality(client[c].todo)
             = Cardinality(InUse) + client[c].removed
        /\ count <= client[c].removed + Target
        /\ BucketsMax < count
    BY <1>1 DEF EvictionOK, At, Evicting
  <2>3. Counting' = Counting
    BY <1>1, <1>4 DEF Counting
  <2>4. InUse' = InUse \ {k} /\ k \in InUse
    BY <1>5, <2>2 DEF InUse
  <2>5. Cardinality(InUse') = Cardinality(InUse) - 1
    BY <2>4, BucketsFinite, FS_RemoveElement
  <2>6. IsFiniteSet(client[c].todo) /\ Cardinality(client[c].todo) \in Nat
    BY <2>2, BucketsFinite, FS_Subset, FS_CardinalityType
  <2>7. Cardinality(client[c].todo \ {k}) = Cardinality(client[c].todo) - 1
    BY <2>6, FS_RemoveElement
  <2>8. /\ client'[c].todo \subseteq InUse'
        /\ count' + Cardinality(Counting') + Cardinality(client'[c].todo)
             = Cardinality(InUse') + client'[c].removed
        /\ count' <= client'[c].removed + Target
    <3>1. client[c].removed \in Nat /\ count \in Int
      BY DEF LimiterTypeOK, ClientState
    <3>2. client'[c].todo \subseteq InUse'
      BY <1>4, <2>2, <2>4
    <3>3. Cardinality(client'[c].todo) = Cardinality(client[c].todo) - 1
      BY <1>4, <2>7
    <3>4. /\ count' = count /\ Cardinality(Counting') = Cardinality(Counting)
          /\ client'[c].removed = client[c].removed
      BY <1>1, <1>4, <2>3
    <3>5. Cardinality(Counting) \in Nat /\ Cardinality(InUse) \in Nat
      BY CountingFinite, BucketsFinite
    <3> QED BY <2>2, <2>5, <2>6, <3>1, <3>2, <3>3, <3>4, <3>5
  <2>9. \A d \in Clients : (At(d, "delete")' => d = c) /\ (Evicting(d)' => d = c)
    BY <2>1 DEF Evicting, At
  <2> QED BY <1>1, <2>1, <2>2, <2>8, <2>9 DEF EvictionOK
<1> QED BY <1>1, <1>3, <1>7, <1>8, <1>9

\* The end of an eviction.
LEMMA DiscountKeeps ==
  ASSUME LimiterInv, NEW c \in Clients, DiscountBuckets(c)
  PROVE  LimiterInv'
<1> USE DEF LimiterInv
<1>1. /\ client[c].at = "delete" /\ client[c].todo = {}
      /\ count' = count - client[c].removed
      /\ client' = [client EXCEPT ![c].at = "take"]
      /\ UNCHANGED <<second, buckets, made, passed, renewed, overlap>>
  BY DEF DiscountBuckets
<1>2. LimiterTypeOK'
  BY <1>1 DEF LimiterTypeOK, ClientState, Places
<1>3. /\ client'[c].at = "take" /\ client'[c].key = client[c].key
      /\ client'[c].now = client[c].now /\ client'[c].bucket = client[c].bucket
      /\ \A d \in Clients \ {c} : client'[d] = client[d]
  BY <1>1 DEF LimiterTypeOK, ClientState
<1>4. BucketsOK'
  BY <1>1, <1>3, BucketsStay DEF HasBucket
<1>5. TokensOK'
  BY <1>1 DEF TokensOK
<1>6. ~overlap => EvictionOK'
  <2> SUFFICES ASSUME ~overlap PROVE EvictionOK'
    OBVIOUS
  <2>1. \A d \in Clients : ~Evicting(d)' /\ ~At(d, "delete")'
    BY <1>1, <1>3 DEF EvictionOK, Evicting, At
  <2>2. Counting' = Counting /\ InUse' = InUse
    BY <1>1, <1>3 DEF Counting, InUse
  <2>3. Cardinality(client[c].todo) = 0
    BY <1>1, FS_EmptySet
  <2>4. /\ count + Cardinality(Counting) = Cardinality(InUse) + client[c].removed
        /\ count <= client[c].removed + Target
    <3>1. /\ count + Cardinality(Counting) + Cardinality(client[c].todo)
               = Cardinality(InUse) + client[c].removed
          /\ count <= client[c].removed + Target
      BY <1>1 DEF EvictionOK, At
    <3> QED BY <2>3, <3>1, CountingFinite DEF LimiterTypeOK, ClientState
  <2>5. count' + Cardinality(Counting) = Cardinality(InUse) /\ count' <= BucketsMax
    <3>1. client[c].removed \in Nat /\ count \in Int /\ BucketsMax \in Nat
      BY LimiterAssumption DEF LimiterTypeOK, ClientState
    <3>2. Cardinality(Counting) \in Nat /\ Cardinality(InUse) \in Nat
      BY CountingFinite, BucketsFinite
    <3> QED BY <1>1, <2>4, <3>1, <3>2, TargetFits
  <2> QED BY <2>1, <2>2, <2>5 DEF EvictionOK
<1> QED BY <1>1, <1>2, <1>4, <1>5, <1>6

\* A token is taken.
LEMMA TakeKeeps ==
  ASSUME LimiterInv, NEW c \in Clients, Take(c)
  PROVE  LimiterInv'
<1> DEFINE b == client[c].bucket
<1> DEFINE k == client[c].key
<1> DEFINE now == client[c].now
<1> DEFINE elapsed == now - made[b].refilled
<1> DEFINE tokens == IF elapsed > 0 THEN Smaller(Burst, made[b].tokens + elapsed * Rps)
                                    ELSE made[b].tokens
<1> DEFINE rest == IF tokens >= 1 THEN tokens - 1 ELSE tokens
<1> DEFINE upto == IF elapsed > 0 THEN now ELSE made[b].refilled
<1> DEFINE given == IF tokens >= 1 THEN passed[k] + 1 ELSE passed[k]
<1> USE DEF LimiterInv
<1>1. /\ client[c].at = "take"
      /\ client' = [client EXCEPT ![c].at = "done"]
      /\ UNCHANGED <<second, buckets, count, renewed, overlap>>
  BY DEF Take
<1>2. made' = [made EXCEPT ![b] = [@ EXCEPT !.tokens = rest, !.refilled = upto]]
  BY DEF Take
<1>3. passed' = [passed EXCEPT ![k] = given]
  <2>1. passed' = [passed EXCEPT ![k] = IF tokens >= 1 THEN @ + 1 ELSE @]
    BY DEF Take
  <2> QED BY <2>1
<1>4. /\ k \in Keys /\ b \in Clients /\ now \in Nat /\ now <= second /\ second \in Nat
      /\ Has(client, buckets, renewed, c)
      /\ made[b].tokens \in Nat /\ made[b].refilled \in Nat /\ made[b].refilled <= second
      /\ passed[k] \in Nat
  BY <1>1 DEF LimiterTypeOK, ClientState, BucketsOK, HasBucket, Has
<1>5. /\ rest \in Nat /\ upto \in Nat /\ given \in Nat /\ upto <= second
      /\ given + rest = passed[k] + tokens /\ tokens \in Nat
      /\ passed[k] + made[b].tokens <= Burst + Rps * made[b].refilled =>
           passed[k] + tokens <= Burst + Rps * upto
  <2> HIDE DEF b, k, now
  <2>1. Burst \in Nat /\ Rps \in Nat
    BY LimiterAssumption
  <2>2. CASE elapsed > 0
    <3>1. /\ Rps * made[b].refilled \in Nat /\ elapsed * Rps \in Nat
          /\ Rps * made[b].refilled + elapsed * Rps = Rps * now
      <4>1. made[b].refilled \in Nat /\ now \in Nat /\ made[b].refilled <= now
        BY <1>4, <2>2
      <4> QED BY <4>1, Refill
    <3> DEFINE gain == elapsed * Rps
    <3> DEFINE then == Rps * made[b].refilled
    <3>2. gain \in Nat /\ then \in Nat /\ then + gain = Rps * now /\ upto = now
      BY <2>2, <3>1
    <3>3. tokens = Smaller(Burst, made[b].tokens + gain)
      BY <2>2
    <3> HIDE DEF gain, then, elapsed
    <3>4. tokens \in Nat /\ tokens <= made[b].tokens + gain
      BY <1>4, <2>1, <3>2, <3>3 DEF Smaller
    <3>5. passed[k] + made[b].tokens <= Burst + then =>
            passed[k] + tokens <= Burst + Rps * upto
      BY <1>4, <2>1, <3>2, <3>4
    <3> QED BY <1>4, <3>2, <3>4, <3>5 DEF then
  <2>3. CASE ~(elapsed > 0)
    <3>1. tokens = made[b].tokens /\ upto = made[b].refilled
      BY <2>3
    <3> QED BY <1>4, <3>1
  <2> QED BY <2>2, <2>3
<1> HIDE DEF rest, upto, given, tokens, elapsed
<1>6. /\ client'[c].at = "done" /\ client'[c].key = client[c].key
      /\ client'[c].now = client[c].now /\ client'[c].bucket = client[c].bucket
      /\ \A d \in Clients \ {c} : client'[d] = client[d]
  BY <1>1 DEF LimiterTypeOK, ClientState
<1>7. LimiterTypeOK'
  <2>1. client' \in [Clients -> ClientState]
    BY <1>1 DEF LimiterTypeOK, ClientState, Places
  <2>2. /\ made' \in [Clients -> [tokens : Nat, refilled : Nat, used : Nat]]
        /\ passed' \in [Keys -> Nat]
    BY <1>2, <1>3, <1>4, <1>5 DEF LimiterTypeOK, ClientState
  <2> QED BY <1>1, <2>1, <2>2 DEF LimiterTypeOK, ClientState
<1>8. /\ made'[b].tokens = rest /\ made'[b].refilled = upto
      /\ \A d \in Clients \ {b} : made'[d] = made[d]
  BY <1>2, <1>4 DEF LimiterTypeOK, ClientState
<1>9. BucketsOK'
  <2>1. \A d \in Clients, l \in Keys : Owns(client, d, l) => Owns(client', d, l)
    BY <1>1, <1>6 DEF Owns
  <2>2. \A l \in Keys : buckets'[l] # NoBucket => Owns(client', buckets'[l], l)
    BY <1>1, <2>1 DEF BucketsOK, LimiterTypeOK, ClientState
  <2>3. \A d \in Clients : client'[d].now <= second' /\ made'[d].refilled <= second'
    BY <1>1, <1>5, <1>6, <1>8 DEF BucketsOK
  <2>4. ASSUME NEW d \in Clients, HasBucket(d)'
        PROVE  Has(client', buckets', renewed', d)
    <3>1. /\ client'[d].key = client[d].key /\ client'[d].bucket = client[d].bucket
          /\ HasBucket(d)
      BY <1>1, <1>6, <2>4 DEF HasBucket
    <3>2. Has(client, buckets, renewed, d)
      BY <3>1 DEF BucketsOK
    <3> QED BY <1>1, <2>1, <3>1, <3>2, HasKept
  <2> QED BY <2>2, <2>3, <2>4 DEF BucketsOK
<1>10. TokensOK'
  <2> SUFFICES ASSUME NEW l \in Keys, l \notin renewed
               PROVE  IF buckets[l] = NoBucket THEN passed'[l] = 0
                      ELSE passed'[l] + made'[buckets[l]].tokens
                             <= Burst + Rps * made'[buckets[l]].refilled
    BY <1>1 DEF TokensOK
  <2>1. CASE l = k
    <3>1. buckets[k] = b /\ b # NoBucket
      BY <1>4, <2>1 DEF Has
    <3>2. passed[k] + made[b].tokens <= Burst + Rps * made[b].refilled
      BY <2>1, <3>1 DEF TokensOK
    <3>3. passed'[k] = given
      BY <1>3, <1>4 DEF LimiterTypeOK, ClientState
    <3> QED BY <1>5, <1>8, <2>1, <3>1, <3>2, <3>3
  <2>2. CASE l # k
    <3>1. buckets[l] # b
      BY <1>4, <2>2 DEF BucketsOK, Owns, Has
    <3>2. passed'[l] = passed[l]
      BY <1>3, <2>2 DEF LimiterTypeOK, ClientState
    <3> QED BY <1>8, <3>1, <3>2 DEF TokensOK, LimiterTypeOK, ClientState
  <2> QED BY <2>1, <2>2
<1>11. Counting' = Counting /\ InUse' = InUse
  BY <1>1, <1>6 DEF Counting, InUse
<1>12. ~overlap => EvictionOK'
  <2>1. \A d \in Clients : /\ Evicting(d)' <=> Evicting(d)
                           /\ At(d, "delete")' <=> At(d, "delete")
                           /\ At(d, "delete") => client'[d] = client[d]
    BY <1>1, <1>6 DEF Evicting, At
  <2> QED BY <1>1, <1>11, <2>1 DEF EvictionOK
<1> QED BY <1>1, <1>7, <1>9, <1>10, <1>12

\* A new limiter.
LEMMA RenewKeeps == LimiterInv /\ Renew => LimiterInv'
<1> SUFFICES ASSUME LimiterInv, Renew PROVE LimiterInv'
  OBVIOUS
<1> USE DEF LimiterInv
<1>1. /\ buckets' = [k \in Keys |-> NoBucket] /\ count' = 0
      /\ passed' = [k \in Keys |-> 0] /\ renewed' = {} /\ overlap' = FALSE
      /\ UNCHANGED <<second, made>>
  BY DEF Renew
<1>2. client' = [c \in Clients |-> IF client[c].at = "none" THEN client[c]
                                   ELSE [client[c] EXCEPT !.at = "done", !.todo = {}]]
  BY DEF Renew
<1>3. \A c \in Clients : client'[c].at \in {"none", "done"} /\ client'[c].now = client[c].now
  BY <1>2 DEF LimiterTypeOK, ClientState
<1>4. LimiterTypeOK'
  <2>1. client' \in [Clients -> ClientState]
    BY <1>2 DEF LimiterTypeOK, ClientState, Places
  <2>2. buckets' \in [Keys -> Clients \cup {NoBucket}] /\ passed' \in [Keys -> Nat]
    <3>1. NoBucket \in Clients \cup {NoBucket}
      OBVIOUS
    <3> QED BY <1>1, <3>1
  <2>4. count' \in Int /\ renewed' \subseteq Keys
    BY <1>1
  <2>5. overlap' \in BOOLEAN
    BY <1>1, Zenon
  <2>3. second' \in Nat /\ made' \in [Clients -> [tokens : Nat, refilled : Nat, used : Nat]]
    BY <1>1 DEF LimiterTypeOK, ClientState
  <2> QED BY <2>1, <2>2, <2>3, <2>4, <2>5 DEF LimiterTypeOK, ClientState
<1>5. BucketsOK'
  BY <1>1, <1>3 DEF BucketsOK, HasBucket
<1>6. TokensOK'
  BY <1>1 DEF TokensOK
<1>7. Counting' = {} /\ InUse' = {} /\ \A c \in Clients : ~Evicting(c)' /\ ~At(c, "delete")'
  BY <1>1, <1>3 DEF Counting, InUse, Evicting, At
<1>8. Cardinality(Counting') = 0 /\ Cardinality(InUse') = 0 /\ BucketsMax \in Nat
  BY <1>7, FS_EmptySet, LimiterAssumption
<1>9. EvictionOK'
  BY <1>1, <1>7, <1>8 DEF EvictionOK
<1> QED BY <1>4, <1>5, <1>6, <1>9

LEMMA LimiterBegins == LimiterInit => LimiterInv
<1> SUFFICES ASSUME LimiterInit PROVE LimiterInv
  OBVIOUS
<1>1. LimiterTypeOK
  <2>1. (CHOOSE k \in Keys : TRUE) \in Keys
    BY LimiterAssumption
  <2>2. NewClient \in ClientState
    BY <2>1 DEF NewClient, Places, NoBucket, ClientState
  <2>3. made \in [Clients -> [tokens : Nat, refilled : Nat, used : Nat]]
    BY DEF LimiterInit
  <2>4. client \in [Clients -> ClientState]
    BY <2>2 DEF LimiterInit
  <2>5. buckets \in [Keys -> Clients \cup {NoBucket}] /\ passed \in [Keys -> Nat]
    BY DEF LimiterInit
  <2>6. second \in Nat /\ count \in Int /\ renewed \subseteq Keys
    BY DEF LimiterInit
  <2>7. overlap \in BOOLEAN
    BY Zenon DEF LimiterInit
  <2> QED BY <2>3, <2>4, <2>5, <2>6, <2>7 DEF LimiterTypeOK, ClientState
<1>2. BucketsOK /\ TokensOK
  BY DEF LimiterInit, BucketsOK, TokensOK, NewClient, HasBucket
<1>3. Counting = {} /\ InUse = {} /\ \A c \in Clients : ~Evicting(c) /\ ~At(c, "delete")
  BY DEF LimiterInit, Counting, InUse, Evicting, At, NewClient
<1>4. Cardinality(Counting) = 0 /\ Cardinality(InUse) = 0 /\ BucketsMax \in Nat
  BY <1>3, FS_EmptySet, LimiterAssumption
<1>5. EvictionOK
  BY <1>3, <1>4 DEF EvictionOK, LimiterInit
<1> QED BY <1>1, <1>2, <1>5 DEF LimiterInv

LEMMA LimiterStepKeeps == LimiterInv /\ LimiterStep => LimiterInv'
BY SecondKeeps, AllowKeeps, LoadKeeps, LoadOrStoreKeeps, CountBucketKeeps,
   RangeBucketsKeeps, DeleteKeeps, DiscountKeeps, TakeKeeps
   DEF LimiterStep

LEMMA LimiterStutters == LimiterInv /\ UNCHANGED limiterVars => LimiterInv'
<1> SUFFICES ASSUME LimiterInv, UNCHANGED limiterVars PROVE LimiterInv'
  OBVIOUS
<1> USE DEF limiterVars
<1>1. LimiterTypeOK' /\ BucketsOK' /\ TokensOK'
  BY DEF LimiterInv, LimiterTypeOK, ClientState, BucketsOK, HasBucket, TokensOK
<1>2. EvictionOK => EvictionOK'
  BY DEF EvictionOK, Evicting, At, InUse, Counting
<1> QED BY <1>1, <1>2 DEF LimiterInv

\* The invariant of the limiter, while requests come, buckets are evicted and the
\* snapshot is rebuilt.
THEOREM LimiterInvariant == FirewallSpec => []LimiterInv
<1>1. FirewallInit => LimiterInv
  BY LimiterBegins DEF FirewallInit
<1>2. LimiterInv /\ [FirewallNext]_firewallVars => LimiterInv'
  BY LimiterStepKeeps, LimiterStutters, RenewKeeps
     DEF FirewallNext, ShieldStep, firewallVars
<1> QED BY <1>1, <1>2, PTL DEF FirewallSpec

\* A limiter allows a key its burst and what time adds as long as its bucket stays;
\* and its count of buckets is right and within the limit, unless two evictions ran
\* at once (loadOrStore, evict).
THEOREM LimiterHoldsAlways == FirewallSpec => []LimiterHolds
<1>1. LimiterInv => LimiterHolds
  <2> SUFFICES ASSUME LimiterInv PROVE LimiterHolds
    OBVIOUS
  <2> USE DEF LimiterInv
  <2>1. ASSUME NEW k \in Keys \ renewed
        PROVE  passed[k] <= Burst + Rps * second
    <3>1. Rps * second \in Nat /\ Burst \in Nat /\ passed[k] \in Nat
      BY LimiterAssumption DEF LimiterTypeOK, ClientState
    <3>2. CASE buckets[k] = NoBucket
      BY <3>1, <3>2 DEF TokensOK
    <3>3. CASE buckets[k] # NoBucket
      <4> DEFINE b == buckets[k]
      <4> DEFINE x == made[b].refilled
      <4>1. /\ b \in Clients /\ x \in Nat /\ x <= second /\ second \in Nat
            /\ made[b].tokens \in Nat
        BY <3>3 DEF LimiterTypeOK, ClientState, BucketsOK
      <4>2. passed[k] + made[b].tokens <= Burst + Rps * x
        BY <3>3 DEF TokensOK
      <4>3. /\ Rps * x \in Nat /\ (second - x) * Rps \in Nat
            /\ Rps * x + (second - x) * Rps = Rps * second
        BY <4>1, Refill
      <4> HIDE DEF x, b
      <4> QED BY <3>1, <4>1, <4>2, <4>3
    <3> QED BY <3>2, <3>3
  <2>2. ASSUME ~overlap, \A c \in Clients : client[c].at \notin {"count", "range", "delete"}
        PROVE  count = Cardinality(InUse) /\ count <= BucketsMax
    <3>1. Counting = {} /\ \A c \in Clients : ~Evicting(c) /\ ~At(c, "delete")
      BY <2>2 DEF Counting, Evicting, At
    <3>2. Cardinality(Counting) = 0
      BY <3>1, FS_EmptySet
    <3> QED BY <2>2, <3>1, <3>2, BucketsFinite DEF EvictionOK, LimiterTypeOK, ClientState
  <2> QED BY <2>1, <2>2 DEF LimiterHolds, InUse
<1> QED BY <1>1, LimiterInvariant, PTL

-----------------------------------------------------------------------------
(* The lists.                                                              *)

Lines == UNION Files

Candidate == [ip : Ips, tier : Tiers, total : Nat]

Steps == {"idle", "rules", "store", "look", "insert", "reread", "again", "write", "pick",
          "seed", "flush", "count"}

Kinds == {"none", "add", "update", "delete", "restore", "import", "ban", "enable"} \cup Tiers

Call == [at : Steps, op : Kinds, list : Lists, entry : Entries \cup {None},
         exp : {"timed", "permanent"}, cur : Row \cup {None},
         black : SUBSET (Entries \cup Lines), ids : SUBSET Entries, white : SUBSET Entries,
         todo : SUBSET (Entries \cup Lines \cup Candidate), delta : Nat, changed : BOOLEAN]

ListsTypeOK ==
  /\ rows \in [Lists -> [Entries -> Row \cup {None}]]
  /\ banned \in [Entries -> Nat] /\ counted \in [Ips -> Nat] /\ pending \in [Ips -> Nat]
  /\ seen \in [Ips -> [Tiers -> Nat]]
  /\ file \subseteq Lines /\ cached \subseteq Lines
  /\ proc \in [Procs -> Call]

\* The entries that have a row in a table, and keep it.
There(table) == [l \in Lists |-> {e \in Entries : table[l][e] # None}]

Banning == {"look", "insert", "reread", "again"}

\* What a goroutine in the middle of a call relies on.
Relies(p, q, there) ==
  /\ q.ids \subseteq there["black"]
  /\ p = Engine => q.todo \subseteq Candidate
  /\ p = Ttl => q.todo \subseteq Ips \cap there["black"]
  /\ q.at = "write" => /\ q.op # "import" => q.entry \in Entries
                       /\ q.op = "import" => q.todo \subseteq Entries
                       /\ q.op \in {"update", "delete", "restore"} =>
                            q.entry \in there[q.list]
  /\ q.at \in Banning => q.entry \in Entries
  /\ q.at \in {"reread", "again"} => q.entry \in there["black"]
  /\ q.at = "again" => q.cur \in Row
  /\ p = Engine /\ q.at \in Banning => q.entry \in Ips
  /\ q.at = "seed" => p = Engine /\ q.entry \in Ips \cap there["black"]
  /\ q.at = "count" => p = Ttl /\ q.entry \in Ips \cap there["black"]

Hits(table, i) == IF table["black"][i] = None THEN 0 ELSE table["black"][i].hits

Bans(table, e) == IF table["black"][e] = None THEN 0 ELSE table["black"][e].warn

\* What the refresh loop has taken out of memory and not yet written.
Carried(pr, i) ==
  IF pr[Ttl].at = "count" /\ pr[Ttl].entry = i THEN pr[Ttl].delta ELSE 0

ListsInv ==
  /\ ListsTypeOK
  /\ snapshot.ids \subseteq There(rows)["black"]
  /\ \A i \in Ips : pending[i] > 0 => i \in There(rows)["black"]
  /\ \A p \in Procs : Relies(p, proc[p], There(rows))
  /\ \A i \in Ips : counted[i] = pending[i] + Hits(rows, i) + Carried(proc, i)
  /\ \A e \in Entries : banned[e] = Bans(rows, e)

-----------------------------------------------------------------------------
(* Facts about goroutines.                                                 *)

LEMMA ProcsDiffer ==
  /\ Engine \in Procs /\ Ttl \in Procs /\ Engine # Ttl
  /\ \A c \in Callers : c \in Procs /\ c # Engine /\ c # Ttl
BY ShieldAssumption DEF Procs, Engine, Ttl

LEMMA NoneIsNoRow == None \notin Row /\ None \notin Entries /\ Ips \subseteq Entries
BY ShieldAssumption

\* A goroutine without anything in hand.
Free(q) == q.ids = {} /\ q.todo = {} /\ q.at \in {"idle", "rules"}

LEMMA FreeStands ==
  ASSUME NEW p, NEW q, NEW there, Free(q)
  PROVE  Relies(p, q, there)
BY DEF Free, Relies, Banning

LEMMA IdleFree == Idle \in Call /\ Free(Idle) /\ Rebuilding \in Call /\ Free(Rebuilding)
<1>1. Idle \in Call
  BY DEF Idle, Call, Lists, Steps, Kinds
<1>2. Free(Idle)
  BY DEF Idle, Free
<1>3. Rebuilding \in Call
  BY <1>1 DEF Call, Rebuilding, Steps
<1>4. Free(Rebuilding)
  BY <1>1, <1>2 DEF Free, Rebuilding, Call
<1> QED BY <1>1, <1>2, <1>3, <1>4

\* The engine with the candidates that are left.
LEMMA NextStands ==
  ASSUME NEW todo \in SUBSET Candidate, NEW changed \in BOOLEAN, NEW there
  PROVE  /\ NextCandidate(todo, changed) \in Call
         /\ Relies(Engine, NextCandidate(todo, changed), there)
         /\ NextCandidate(todo, changed).at \in {"idle", "rules", "pick"}
<1>1. CASE todo = {}
  BY <1>1, IdleFree, FreeStands DEF NextCandidate, Free, Rebuilding, Idle
<1>2. CASE todo # {}
  <2> DEFINE q == [Idle EXCEPT !.at = "pick", !.todo = todo, !.changed = changed]
  <2>1. NextCandidate(todo, changed) = q
    BY <1>2 DEF NextCandidate
  <2>2. Idle \in Call /\ Idle.ids = {}
    BY IdleFree DEF Free
  <2>3. q \in Call /\ q.ids = {} /\ q.todo = todo /\ q.at = "pick"
    BY <2>2 DEF Call, Steps
  <2> HIDE DEF q
  <2> QED BY <2>1, <2>3, ProcsDiffer DEF Relies, Banning
<1> QED BY <1>1, <1>2

LEMMA StandsStill ==
  ASSUME NEW p, NEW q \in Call, NEW there, NEW later, Relies(p, q, there),
         \A l \in Lists : there[l] \subseteq later[l]
  PROVE  Relies(p, q, later)
<1>1. q.list \in Lists /\ "black" \in Lists
  BY DEF Call, Lists
<1> QED BY <1>1 DEF Relies

\* One goroutine steps, and no row goes.
LEMMA ProcStep ==
  ASSUME ListsInv, NEW p \in Procs, NEW q \in Call, proc' = [proc EXCEPT ![p] = q],
         \A l \in Lists : There(rows)[l] \subseteq There(rows')[l],
         Relies(p, q, There(rows'))
  PROVE  /\ proc' \in [Procs -> Call]
         /\ \A r \in Procs : Relies(r, proc'[r], There(rows'))
<1>1. proc \in [Procs -> Call]
  BY DEF ListsInv, ListsTypeOK
<1>2. \A r \in Procs : proc'[r] = IF r = p THEN q ELSE proc[r]
  BY <1>1
<1>3. \A r \in Procs : Relies(r, proc[r], There(rows')) \/ r = p
  BY <1>1, StandsStill DEF ListsInv
<1> QED BY <1>1, <1>2, <1>3

\* A step of a goroutine that changes no table and no count.
LEMMA QuietStep ==
  ASSUME ListsInv, NEW p \in Procs, NEW q \in Call, proc' = [proc EXCEPT ![p] = q],
         Relies(p, q, There(rows)),
         \A i \in Ips : Carried(proc', i) = Carried(proc, i),
         UNCHANGED <<rows, banned, counted, pending>>,
         seen' \in [Ips -> [Tiers -> Nat]], file' \subseteq Lines, cached' \subseteq Lines,
         snapshot'.ids \subseteq There(rows)["black"]
  PROVE  ListsInv'
<1>1. There(rows') = There(rows)
  OBVIOUS
<1>2. proc' \in [Procs -> Call] /\ \A r \in Procs : Relies(r, proc'[r], There(rows'))
  BY <1>1, ProcStep
<1>3. \A i \in Ips : Hits(rows', i) = Hits(rows, i)
  OBVIOUS
<1>4. \A e \in Entries : Bans(rows', e) = Bans(rows, e)
  OBVIOUS
<1> QED BY <1>1, <1>2, <1>3, <1>4 DEF ListsInv, ListsTypeOK

\* A step that changes a table, and neither hits nor counts in memory.
LEMMA RowStep ==
  ASSUME ListsInv, NEW p \in Procs, NEW q \in Call, proc' = [proc EXCEPT ![p] = q],
         rows' \in [Lists -> [Entries -> Row \cup {None}]],
         \A l \in Lists : There(rows)[l] \subseteq There(rows')[l],
         Relies(p, q, There(rows')),
         \A i \in Ips : Carried(proc', i) = Carried(proc, i),
         \A i \in Ips : Hits(rows', i) = Hits(rows, i),
         banned' \in [Entries -> Nat],
         \A e \in Entries : banned'[e] = Bans(rows', e),
         UNCHANGED <<counted, pending, seen, file, cached, snapshot>>
  PROVE  ListsInv'
<1>1. proc' \in [Procs -> Call] /\ \A r \in Procs : Relies(r, proc'[r], There(rows'))
  BY ProcStep
<1>2. "black" \in Lists
  BY DEF Lists
<1>3. snapshot'.ids \subseteq There(rows')["black"]
  BY <1>2 DEF ListsInv
<1>4. \A i \in Ips : pending'[i] > 0 => i \in There(rows')["black"]
  BY <1>2 DEF ListsInv
<1> QED BY <1>1, <1>3, <1>4 DEF ListsInv, ListsTypeOK

\* Nobody but the refresh loop carries hits.
LEMMA NothingCarried ==
  ASSUME ListsInv, NEW p \in Procs, NEW q \in Call, proc' = [proc EXCEPT ![p] = q],
         p # Ttl \/ (proc[p].at # "count" /\ q.at # "count")
  PROVE  \A i \in Ips : Carried(proc', i) = Carried(proc, i)
<1>1. proc \in [Procs -> Call]
  BY DEF ListsInv, ListsTypeOK
<1> QED BY <1>1, ProcsDiffer DEF Carried

LEMMA GiveUpStands ==
  ASSUME ListsInv, NEW p \in Banners, GiveUp(p)
  PROVE  \E q \in Call : proc' = [proc EXCEPT ![p] = q] /\ Relies(p, q, There(rows))
<1>1. proc[p] \in Call /\ Relies(p, proc[p], There(rows)) /\ p \in Procs
  BY ProcsDiffer DEF ListsInv, ListsTypeOK, Banners, Procs
<1>2. CASE p = Engine
  <2> DEFINE q == NextCandidate(proc[p].todo, proc[p].changed)
  <2>1. proc[p].todo \in SUBSET Candidate /\ proc[p].changed \in BOOLEAN
    BY <1>1, <1>2 DEF Relies, Call
  <2>2. q \in Call /\ Relies(p, q, There(rows))
    BY <1>2, <2>1, NextStands
  <2>3. proc' = [proc EXCEPT ![p] = q]
    BY <1>2 DEF GiveUp, Set
  <2> QED BY <2>2, <2>3
<1>3. CASE p # Engine
  <2>1. proc' = [proc EXCEPT ![p] = Idle]
    BY <1>3 DEF GiveUp, Set
  <2> QED BY <2>1, IdleFree, FreeStands
<1> QED BY <1>2, <1>3

\* A step of somebody other than the refresh loop that writes nothing.
LEMMA OthersQuiet ==
  ASSUME ListsInv, NEW p \in Banners, NEW q \in Call, proc' = [proc EXCEPT ![p] = q],
         Relies(p, q, There(rows)),
         UNCHANGED <<rows, banned, counted, pending, seen, file, cached, snapshot>>
  PROVE  ListsInv'
<1>1. p \in Procs /\ p # Ttl
  BY ProcsDiffer DEF Banners, Procs
<1>2. \A i \in Ips : Carried(proc', i) = Carried(proc, i)
  BY <1>1, NothingCarried
<1>3. seen' \in [Ips -> [Tiers -> Nat]] /\ file' \subseteq Lines /\ cached' \subseteq Lines
      /\ snapshot'.ids \subseteq There(rows)["black"]
  BY DEF ListsInv, ListsTypeOK
<1> QED BY <1>1, <1>2, <1>3, QuietStep

LEMMA GiveUpKeeps ==
  ASSUME ListsInv, NEW p \in Banners, GiveUp(p),
         UNCHANGED <<rows, banned, counted, pending, seen, file, cached, snapshot>>
  PROVE  ListsInv'
BY GiveUpStands, OthersQuiet

LEMMA CallerFrees ==
  ASSUME ListsInv, NEW p \in Banners, NEW q \in Call, Free(q),
         proc' = [proc EXCEPT ![p] = q],
         UNCHANGED <<rows, banned, counted, pending, seen, file, cached, snapshot>>
  PROVE  ListsInv'
BY FreeStands, OthersQuiet

LEMMA LookUpKeeps ==
  ASSUME ListsInv, NEW p \in Banners, LookUp(p)
  PROVE  ListsInv'
<1>1. proc[p] \in Call /\ Relies(p, proc[p], There(rows))
  BY DEF ListsInv, ListsTypeOK, Banners, Procs
<1>2. UNCHANGED <<rows, banned, counted, pending, seen, file, cached, snapshot>>
  BY DEF LookUp, listVars, ruleVars, hitVars
<1>3. proc[p].at = "look" /\ proc[p].entry \in Entries
  BY <1>1 DEF LookUp, Relies, Banning
<1>4. CASE GiveUp(p)
  BY <1>2, <1>4, GiveUpKeeps
<1>5. CASE Go(p, "insert")
  <2> DEFINE q == [proc[p] EXCEPT !.at = "insert"]
  <2>1. q \in Call
    BY <1>1 DEF Call, Steps
  <2>2. proc' = [proc EXCEPT ![p] = q]
    BY <1>1, <1>5 DEF Go
  <2>3. Relies(p, q, There(rows))
    BY <1>1, <1>3 DEF Call, Relies, Banning
  <2> HIDE DEF q
  <2> QED BY <1>2, <2>1, <2>2, <2>3, OthersQuiet
<1>6. CASE Go(p, "reread") /\ rows["black"][proc[p].entry] # None
  <2> DEFINE q == [proc[p] EXCEPT !.at = "reread"]
  <2>1. q \in Call
    BY <1>1 DEF Call, Steps
  <2>2. proc' = [proc EXCEPT ![p] = q]
    BY <1>1, <1>6 DEF Go
  <2>3. proc[p].entry \in There(rows)["black"]
    BY <1>3, <1>6 DEF There, Lists
  <2>4. Relies(p, q, There(rows))
    BY <1>1, <1>3, <2>3 DEF Call, Relies, Banning
  <2> HIDE DEF q
  <2> QED BY <1>2, <2>1, <2>2, <2>4, OthersQuiet
<1> QED BY <1>4, <1>5, <1>6 DEF LookUp

LEMMA GetByIPKeeps ==
  ASSUME ListsInv, NEW p \in Banners, GetByIP(p)
  PROVE  ListsInv'
<1>1. proc[p] \in Call /\ Relies(p, proc[p], There(rows))
  BY DEF ListsInv, ListsTypeOK, Banners, Procs
<1>2. UNCHANGED <<rows, banned, counted, pending, seen, file, cached, snapshot>>
  BY DEF GetByIP, listVars, ruleVars, hitVars
<1>3. proc[p].at = "reread" /\ proc[p].entry \in There(rows)["black"]
  BY <1>1 DEF GetByIP, Relies
<1>4. CASE GiveUp(p)
  BY <1>2, <1>4, GiveUpKeeps
<1>5. ASSUME Set(p, [proc[p] EXCEPT !.at = "again",
                                    !.cur = rows["black"][proc[p].entry]])
      PROVE  ListsInv'
  <2> DEFINE row == rows["black"][proc[p].entry]
             q == [proc[p] EXCEPT !.at = "again", !.cur = row]
  <2>1. row \in Row /\ proc[p].entry \in Entries
    BY <1>3 DEF There, Lists, ListsInv, ListsTypeOK
  <2>2. proc' = [proc EXCEPT ![p] = q]
    BY <1>5 DEF Set
  <2> HIDE DEF row
  <2>3. q \in Call
    BY <1>1, <2>1 DEF Call, Steps
  <2>4. Relies(p, q, There(rows))
    BY <1>1, <1>3, <2>1 DEF Call, Relies, Banning
  <2> HIDE DEF q
  <2> QED BY <1>2, <2>2, <2>3, <2>4, OthersQuiet
<1> QED BY <1>4, <1>5 DEF GetByIP

\* One row is written.
LEMMA OneRow ==
  ASSUME ListsInv, NEW l \in Lists, NEW e \in Entries, NEW row \in Row,
         rows' = [rows EXCEPT ![l][e] = row]
  PROVE  /\ rows' \in [Lists -> [Entries -> Row \cup {None}]]
         /\ \A k \in Lists : There(rows)[k] \subseteq There(rows')[k]
         /\ e \in There(rows')[l]
         /\ \A i \in Entries : i # e \/ l # "black" => Hits(rows', i) = Hits(rows, i)
         /\ \A i \in Entries : i # e \/ l # "black" => Bans(rows', i) = Bans(rows, i)
         /\ l = "black" => Hits(rows', e) = row.hits /\ Bans(rows', e) = row.warn
<1>1. rows \in [Lists -> [Entries -> Row \cup {None}]] /\ row # None
      /\ "black" \in Lists
  BY NoneIsNoRow DEF ListsInv, ListsTypeOK, Lists
<1>2. rows' \in [Lists -> [Entries -> Row \cup {None}]]
  BY <1>1
<1>3. rows'[l][e] = row
  BY <1>1
<1>4. \A k \in Lists, i \in Entries : k # l \/ i # e => rows'[k][i] = rows[k][i]
  BY <1>1
<1>5. \A k \in Lists : There(rows)[k] \subseteq There(rows')[k]
  <2> SUFFICES ASSUME NEW k \in Lists, NEW i \in There(rows)[k]
               PROVE  i \in There(rows')[k]
    OBVIOUS
  <2>1. i \in Entries /\ rows[k][i] # None
    BY DEF There
  <2>2. rows'[k][i] # None
    BY <1>1, <1>3, <1>4, <2>1
  <2> QED BY <2>1, <2>2 DEF There
<1>6. e \in There(rows')[l]
  BY <1>1, <1>3 DEF There
<1>7. \A i \in Entries : i # e \/ l # "black" => rows'["black"][i] = rows["black"][i]
  BY <1>1, <1>4
<1>8. \A i \in Entries : i # e \/ l # "black" =>
        Hits(rows', i) = Hits(rows, i) /\ Bans(rows', i) = Bans(rows, i)
  BY <1>7 DEF Hits, Bans
<1>9. l = "black" => Hits(rows', e) = row.hits /\ Bans(rows', e) = row.warn
  BY <1>1, <1>3 DEF Hits, Bans
<1> QED BY <1>2, <1>5, <1>6, <1>8, <1>9

\* A row is written that keeps its hits; if a ban is written with it, the row
\* counts it.
LEMMA RowWritten ==
  ASSUME ListsInv, NEW p \in Banners, NEW q \in Call, proc' = [proc EXCEPT ![p] = q],
         NEW l \in Lists, NEW e \in Entries, NEW row \in Row,
         rows' = [rows EXCEPT ![l][e] = row],
         l = "black" => row.hits = Hits(rows, e),
         \/ UNCHANGED banned /\ (l = "black" => row.warn = Bans(rows, e))
         \/ /\ banned' = [banned EXCEPT ![e] = banned[e] + 1]
            /\ l = "black" /\ row.warn = Bans(rows, e) + 1,
         Relies(p, q, There(rows')),
         UNCHANGED <<counted, pending, seen, file, cached, snapshot>>
  PROVE  ListsInv'
<1>1. p \in Procs /\ p # Ttl
  BY ProcsDiffer DEF Banners, Procs
<1>2. \A i \in Ips : Carried(proc', i) = Carried(proc, i)
  BY <1>1, NothingCarried
<1>3. /\ rows' \in [Lists -> [Entries -> Row \cup {None}]]
      /\ \A k \in Lists : There(rows)[k] \subseteq There(rows')[k]
  BY OneRow
<1>4. \A i \in Ips : Hits(rows', i) = Hits(rows, i)
  BY OneRow, NoneIsNoRow
<1>5. banned \in [Entries -> Nat] /\ \A i \in Entries : banned[i] = Bans(rows, i)
  BY DEF ListsInv, ListsTypeOK
<1>6. banned' \in [Entries -> Nat]
  BY <1>5
<1>7. \A i \in Entries : banned'[i] = Bans(rows', i)
  <2>1. \A i \in Entries : i # e \/ l # "black" => Bans(rows', i) = Bans(rows, i)
    BY OneRow
  <2>2. l = "black" => Bans(rows', e) = row.warn
    BY OneRow
  <2>3. CASE UNCHANGED banned /\ (l = "black" => row.warn = Bans(rows, e))
    BY <1>5, <2>1, <2>2, <2>3
  <2>4. CASE /\ banned' = [banned EXCEPT ![e] = banned[e] + 1]
             /\ l = "black" /\ row.warn = Bans(rows, e) + 1
    BY <1>5, <2>1, <2>2, <2>4
  <2> QED BY <2>3, <2>4
<1> QED BY <1>1, <1>2, <1>3, <1>4, <1>6, <1>7, RowStep

\* Where a ban leaves who wrote it.
LEMMA BannedStands ==
  ASSUME ListsInv, NEW p \in Banners, Banned(p), proc[p].at \in Banning,
         NEW there, proc[p].entry \in there["black"],
         \A l \in Lists : There(rows)[l] \subseteq there[l]
  PROVE  /\ \E q \in Call : proc' = [proc EXCEPT ![p] = q] /\ Relies(p, q, there)
         /\ banned' = [banned EXCEPT ![proc[p].entry] = banned[proc[p].entry] + 1]
<1>1. proc[p] \in Call /\ Relies(p, proc[p], There(rows))
  BY DEF ListsInv, ListsTypeOK, Banners, Procs
<1>2. Relies(p, proc[p], there)
  BY <1>1, StandsStill
<1>3. banned' = [banned EXCEPT ![proc[p].entry] = banned[proc[p].entry] + 1]
  BY DEF Banned
<1>4. CASE p = Engine
  <2> DEFINE q == [proc[p] EXCEPT !.at = "seed", !.cur = None]
  <2>1. proc' = [proc EXCEPT ![p] = q]
    BY <1>4 DEF Banned, Set
  <2>2. q \in Call
    BY <1>1 DEF Call, Steps
  <2>3. Relies(p, q, there)
    BY <1>1, <1>2, <1>4, ProcsDiffer DEF Relies, Call, Banning
  <2> HIDE DEF q
  <2> QED BY <1>3, <2>1, <2>2, <2>3
<1>5. CASE p # Engine
  <2>1. proc' = [proc EXCEPT ![p] = Rebuilding]
    BY <1>5 DEF Banned, Set
  <2> QED BY <1>3, <2>1, IdleFree, FreeStands
<1> QED BY <1>4, <1>5

LEMMA BanNewKeeps ==
  ASSUME ListsInv, NEW p \in Banners, BanNew(p)
  PROVE  ListsInv'
<1>1. proc[p] \in Call /\ Relies(p, proc[p], There(rows))
  BY DEF ListsInv, ListsTypeOK, Banners, Procs
<1>2. UNCHANGED <<counted, pending, seen, file, cached, snapshot>>
  BY DEF BanNew, ruleVars, hitVars
<1>3. proc[p].at \in Banning /\ proc[p].entry \in Entries
  BY <1>1 DEF BanNew, Relies, Banning
<1>4. CASE GiveUp(p) /\ UNCHANGED <<rows, banned>>
  BY <1>2, <1>4, GiveUpKeeps
<1>5. CASE /\ rows["black"][proc[p].entry] = None
           /\ BanInsert(proc[p].entry, proc[p].exp)
           /\ Banned(p)
  <2> DEFINE e == proc[p].entry
             row == NewRow(proc[p].exp, 1)
  <2>1. rows' = [rows EXCEPT !["black"][e] = row]
    BY <1>5 DEF BanInsert, Insert
  <2>2. row \in Row /\ row.hits = 0 /\ row.warn = 1
    BY <1>1 DEF NewRow, Row, Call
  <2> HIDE DEF row
  <2>3. row.hits = Hits(rows, e) /\ row.warn = Bans(rows, e) + 1
    BY <1>5, <2>2 DEF Hits, Bans
  <2>4. "black" \in Lists
    BY DEF Lists
  <2>5. e \in There(rows')["black"]
        /\ \A l \in Lists : There(rows)[l] \subseteq There(rows')[l]
    BY <1>3, <2>1, <2>2, <2>4, OneRow
  <2>6. PICK q \in Call : proc' = [proc EXCEPT ![p] = q] /\ Relies(p, q, There(rows'))
    BY <1>3, <1>5, <2>5, BannedStands
  <2>7. banned' = [banned EXCEPT ![e] = banned[e] + 1]
    BY <1>5 DEF Banned
  <2> QED BY <1>2, <1>3, <2>1, <2>2, <2>3, <2>4, <2>6, <2>7, RowWritten
<1> QED BY <1>4, <1>5 DEF BanNew

LEMMA BanAgainKeeps ==
  ASSUME ListsInv, NEW p \in Banners, BanAgain(p)
  PROVE  ListsInv'
<1>1. proc[p] \in Call /\ Relies(p, proc[p], There(rows))
  BY DEF ListsInv, ListsTypeOK, Banners, Procs
<1>2. UNCHANGED <<counted, pending, seen, file, cached, snapshot>>
  BY DEF BanAgain, ruleVars, hitVars
<1>3. proc[p].at \in Banning /\ proc[p].entry \in There(rows)["black"]
      /\ proc[p].at = "again"
  BY <1>1 DEF BanAgain, Relies, Banning
<1>4. CASE GiveUp(p) /\ UNCHANGED <<rows, banned>>
  BY <1>2, <1>4, GiveUpKeeps
<1>5. ASSUME Banned(p), NEW exp \in {"timed", "permanent"}, RestoreWith(proc[p].entry, exp)
      PROVE  ListsInv'
  <2> DEFINE e == proc[p].entry
             old == rows["black"][e]
             row == [old EXCEPT !.deleted = FALSE, !.exp = exp, !.warn = old.warn + 1]
  <2>1. rows \in [Lists -> [Entries -> Row \cup {None}]] /\ "black" \in Lists
    BY DEF ListsInv, ListsTypeOK, Lists
  <2>2. e \in Entries /\ old \in Row /\ old # None
    BY <1>3, <2>1 DEF There
  <2>3. rows' = [rows EXCEPT !["black"][e] = row]
    BY <1>5 DEF RestoreWith
  <2>4. Hits(rows, e) = old.hits /\ Bans(rows, e) = old.warn
    BY <2>2 DEF Hits, Bans
  <2> HIDE DEF old
  <2>5. row \in Row /\ row.hits = old.hits /\ row.warn = old.warn + 1
    <3>1. old.warn + 1 \in Nat
      BY <2>2 DEF Row
    <3>2. exp \in {"timed", "permanent", "expired"}
      BY <1>5
    <3> QED BY <2>2, <3>1, <3>2 DEF Row
  <2> HIDE DEF row
  <2>6. e \in There(rows')["black"]
        /\ \A l \in Lists : There(rows)[l] \subseteq There(rows')[l]
    BY <2>1, <2>2, <2>3, <2>5, OneRow
  <2>7. PICK q \in Call : proc' = [proc EXCEPT ![p] = q] /\ Relies(p, q, There(rows'))
    BY <1>3, <1>5, <2>6, BannedStands
  <2>8. banned' = [banned EXCEPT ![e] = banned[e] + 1]
    BY <1>5 DEF Banned
  <2> QED BY <1>2, <2>1, <2>2, <2>3, <2>4, <2>5, <2>7, <2>8, RowWritten
<1>6. ASSUME Banned(p), NEW limit,
             RestoreBan(proc[p].entry, proc[p].cur, proc[p].exp, limit)
      PROVE  ListsInv'
  <2>1. proc[p].exp \in {"timed", "permanent"}
    BY <1>1 DEF Call
  <2> QED BY <1>5, <1>6, <2>1 DEF RestoreBan
<1>7. ASSUME Banned(p), RestoreBanToPermanent(proc[p].entry)
      PROVE  ListsInv'
  BY <1>5, <1>7 DEF RestoreBanToPermanent
<1> QED BY <1>4, <1>6, <1>7 DEF BanAgain

-----------------------------------------------------------------------------
(* The administrators.                                                     *)

LEMMA BeginKeeps ==
  ASSUME ListsInv, NEW c \in Callers,
         NEW op \in {"add", "update", "delete", "restore", "import", "ban"},
         NEW list \in Lists, NEW e \in Entries \cup {None},
         NEW exp \in {"timed", "permanent"}, NEW todo \in SUBSET (Entries \cup Lines),
         Begin(c, op, list, e, exp, todo),
         op # "import" => e \in Entries,
         op = "import" => todo \subseteq Entries,
         op \in {"update", "delete", "restore"} => e \in There(rows)[list]
  PROVE  ListsInv'
<1> DEFINE at == IF op = "ban" THEN "look" ELSE "write"
           q == [Idle EXCEPT !.at = at, !.op = op, !.list = list, !.entry = e,
                             !.exp = exp, !.todo = todo]
<1>1. proc' = [proc EXCEPT ![c] = q]
  BY DEF Begin, Set
<1>2. UNCHANGED <<rows, banned, counted, pending, seen, file, cached, snapshot>>
  BY DEF Begin, listVars, ruleVars, hitVars
<1>3. at \in Steps /\ op \in Kinds
  BY DEF Steps, Kinds
<1>4. (at = "look" /\ op = "ban") \/ (at = "write" /\ op # "ban")
  OBVIOUS
<1> HIDE DEF at
<1>5. Idle \in Call /\ Idle.ids = {}
  BY IdleFree DEF Free
<1>6. q \in Call /\ q.ids = {} /\ q.at = at /\ q.op = op /\ q.list = list /\ q.entry = e
      /\ q.todo = todo
  BY <1>3, <1>5 DEF Call
<1> HIDE DEF q
<1>7. c # Engine /\ c # Ttl /\ c \in Banners
  BY ProcsDiffer DEF Banners
<1>8. Relies(c, q, There(rows))
  BY <1>4, <1>6, <1>7 DEF Relies, Banning
<1> QED BY <1>1, <1>2, <1>6, <1>7, <1>8, OthersQuiet

LEMMA RequestKeeps ==
  ASSUME ListsInv, NEW c \in Callers, Request(c)
  PROVE  ListsInv'
<1>1. \A l \in Lists, e \in Entries : rows[l][e] # None => e \in There(rows)[l]
  BY DEF There
<1>2. "black" \in Lists /\ {} \in SUBSET (Entries \cup Lines)
      /\ cached \cap Entries \in SUBSET (Entries \cup Lines)
  BY DEF Lists, ListsInv, ListsTypeOK
<1>3. CASE AddRequest(c)
  BY <1>2, <1>3, BeginKeeps DEF AddRequest
<1>4. CASE UpdateRequest(c)
  BY <1>1, <1>2, <1>4, BeginKeeps DEF UpdateRequest
<1>5. CASE DeleteRequest(c)
  BY <1>1, <1>2, <1>5, BeginKeeps DEF DeleteRequest
<1>6. CASE RestoreRequest(c)
  BY <1>1, <1>2, <1>6, BeginKeeps DEF RestoreRequest
<1>7. CASE ImportRequest(c)
  <2>1. PICK l \in Lists, s \in SUBSET Entries :
          Begin(c, "import", l, None, "permanent", s)
    BY <1>7 DEF ImportRequest
  <2>2. s \in SUBSET (Entries \cup Lines)
    OBVIOUS
  <2> QED BY <2>1, <2>2, BeginKeeps
<1>8. CASE SyncRequest(c)
  BY <1>2, <1>8, BeginKeeps DEF SyncRequest
<1>9. CASE BanRequest(c)
  BY <1>2, <1>9, BeginKeeps DEF BanRequest
<1> QED BY <1>3, <1>4, <1>5, <1>6, <1>7, <1>8, <1>9 DEF Request

\* A statement that does not come about changes nothing.
LEMMA WriteFails ==
  ASSUME ListsInv, NEW c \in Callers, Set(c, Idle),
         UNCHANGED <<rows, banned, counted, pending, seen, file, cached, snapshot>>
  PROVE  ListsInv'
BY CallerFrees, IdleFree DEF Set, Banners

\* The row a caller writes keeps its counts.
LEMMA CallerWrites ==
  ASSUME ListsInv, NEW c \in Callers, proc' = [proc EXCEPT ![c] = Rebuilding],
         NEW l \in Lists, NEW e \in Entries, NEW row \in Row,
         rows' = [rows EXCEPT ![l][e] = row],
         l = "black" => row.hits = Hits(rows, e) /\ row.warn = Bans(rows, e),
         UNCHANGED <<banned, counted, pending, seen, file, cached, snapshot>>
  PROVE  ListsInv'
<1>1. Rebuilding \in Call /\ Relies(c, Rebuilding, There(rows'))
  BY IdleFree, FreeStands
<1> QED BY <1>1, RowWritten DEF Banners

LEMMA AddIPListKeeps ==
  ASSUME ListsInv, NEW c \in Callers, AddIPList(c)
  PROVE  ListsInv'
<1> DEFINE l == proc[c].list
           e == proc[c].entry
           row == IF l = "black" THEN NewRow(proc[c].exp, 0) ELSE NewRow("permanent", 0)
<1>1. proc[c] \in Call /\ Relies(c, proc[c], There(rows))
  BY DEF ListsInv, ListsTypeOK, Procs
<1>2. SUFFICES ASSUME /\ Insert(l, e, proc[c].exp, 0) /\ rows[l][e] = None
                      /\ proc[c].at = "write" /\ proc[c].op = "add"
                      /\ proc' = [proc EXCEPT ![c] = Rebuilding]
                      /\ UNCHANGED <<banned, counted, pending, seen, file, cached, snapshot>>
               PROVE  ListsInv'
  BY WriteFails DEF AddIPList, Write, Set, ruleVars, hitVars
<1>3. l \in Lists /\ e \in Entries /\ proc[c].exp \in {"timed", "permanent"}
  BY <1>1, <1>2 DEF Relies, Call
<1>4. rows' = [rows EXCEPT ![l][e] = row]
  BY <1>2 DEF Insert
<1>5. row \in Row /\ row.hits = 0 /\ row.warn = 0
  BY <1>3 DEF NewRow, Row
<1> HIDE DEF row
<1>6. l = "black" => row.hits = Hits(rows, e) /\ row.warn = Bans(rows, e)
  BY <1>2, <1>5 DEF Hits, Bans
<1> QED BY <1>2, <1>3, <1>4, <1>5, <1>6, CallerWrites

\* A call that changes a row which is there.
LEMMA RowThere ==
  ASSUME ListsInv, NEW c \in Callers, proc[c].at = "write",
         proc[c].op \in {"update", "delete", "restore"}
  PROVE  LET l == proc[c].list
             e == proc[c].entry
             row == rows[l][e]
         IN  /\ l \in Lists /\ e \in Entries /\ row \in Row
             /\ l = "black" => row.hits = Hits(rows, e) /\ row.warn = Bans(rows, e)
             /\ proc[c].exp \in {"timed", "permanent"}
<1> DEFINE l == proc[c].list
           e == proc[c].entry
<1>1. proc[c] \in Call /\ Relies(c, proc[c], There(rows))
  BY DEF ListsInv, ListsTypeOK, Procs
<1>2. l \in Lists /\ e \in There(rows)[l] /\ proc[c].exp \in {"timed", "permanent"}
  BY <1>1 DEF Relies, Call
<1>3. e \in Entries /\ rows[l][e] # None /\ rows[l][e] \in Row
  BY <1>2 DEF There, ListsInv, ListsTypeOK
<1> QED BY <1>2, <1>3 DEF Hits, Bans

LEMMA UpdateIPListKeeps ==
  ASSUME ListsInv, NEW c \in Callers, UpdateIPList(c)
  PROVE  ListsInv'
<1> DEFINE l == proc[c].list
           e == proc[c].entry
           old == rows[l][e]
           exp == IF l = "black" THEN proc[c].exp ELSE old.exp
           row == [old EXCEPT !.exp = exp]
<1>1. SUFFICES ASSUME /\ Update(l, e, proc[c].exp)
                      /\ proc[c].at = "write" /\ proc[c].op = "update"
                      /\ proc' = [proc EXCEPT ![c] = Rebuilding]
                      /\ UNCHANGED <<banned, counted, pending, seen, file, cached, snapshot>>
               PROVE  ListsInv'
  BY WriteFails DEF UpdateIPList, Write, Set, ruleVars, hitVars
<1>2. /\ l \in Lists /\ e \in Entries /\ old \in Row
      /\ l = "black" => old.hits = Hits(rows, e) /\ old.warn = Bans(rows, e)
      /\ proc[c].exp \in {"timed", "permanent"}
  BY <1>1, RowThere
<1>3. rows' = [rows EXCEPT ![l][e] = row]
  BY <1>1 DEF Update
<1> HIDE DEF old
<1>4. exp \in {"timed", "permanent", "expired"}
  BY <1>2 DEF Row
<1> HIDE DEF exp
<1>5. row \in Row /\ row.hits = old.hits /\ row.warn = old.warn
  BY <1>2, <1>4 DEF Row
<1> HIDE DEF row
<1> QED BY <1>1, <1>2, <1>3, <1>5, CallerWrites

LEMMA SoftDeleteIPListKeeps ==
  ASSUME ListsInv, NEW c \in Callers, SoftDeleteIPList(c)
  PROVE  ListsInv'
<1> DEFINE l == proc[c].list
           e == proc[c].entry
           old == rows[l][e]
           row == [old EXCEPT !.deleted = TRUE]
<1>1. SUFFICES ASSUME /\ SoftDelete(l, e)
                      /\ proc[c].at = "write" /\ proc[c].op = "delete"
                      /\ proc' = [proc EXCEPT ![c] = Rebuilding]
                      /\ UNCHANGED <<banned, counted, pending, seen, file, cached, snapshot>>
               PROVE  ListsInv'
  BY WriteFails DEF SoftDeleteIPList, Write, Set, ruleVars, hitVars
<1>2. /\ l \in Lists /\ e \in Entries /\ old \in Row
      /\ l = "black" => old.hits = Hits(rows, e) /\ old.warn = Bans(rows, e)
  BY <1>1, RowThere
<1>3. rows' = [rows EXCEPT ![l][e] = row]
  BY <1>1 DEF SoftDelete
<1> HIDE DEF old
<1>4. row \in Row /\ row.hits = old.hits /\ row.warn = old.warn
  BY <1>2 DEF Row
<1> HIDE DEF row
<1> QED BY <1>1, <1>2, <1>3, <1>4, CallerWrites

LEMMA RestoreIPListKeeps ==
  ASSUME ListsInv, NEW c \in Callers, RestoreIPList(c)
  PROVE  ListsInv'
<1> DEFINE l == proc[c].list
           e == proc[c].entry
           old == rows[l][e]
           row == [old EXCEPT !.deleted = FALSE]
<1>1. SUFFICES ASSUME /\ Restore(l, e)
                      /\ proc[c].at = "write" /\ proc[c].op = "restore"
                      /\ proc' = [proc EXCEPT ![c] = Rebuilding]
                      /\ UNCHANGED <<banned, counted, pending, seen, file, cached, snapshot>>
               PROVE  ListsInv'
  BY WriteFails DEF RestoreIPList, Write, Set, ruleVars, hitVars
<1>2. /\ l \in Lists /\ e \in Entries /\ old \in Row
      /\ l = "black" => old.hits = Hits(rows, e) /\ old.warn = Bans(rows, e)
  BY <1>1, RowThere
<1>3. rows' = [rows EXCEPT ![l][e] = row]
  BY <1>1 DEF Restore
<1> HIDE DEF old
<1>4. row \in Row /\ row.hits = old.hits /\ row.warn = old.warn
  BY <1>2 DEF Row
<1> HIDE DEF row
<1> QED BY <1>1, <1>2, <1>3, <1>4, CallerWrites

LEMMA ImportIPListKeeps ==
  ASSUME ListsInv, NEW c \in Callers, ImportIPList(c)
  PROVE  ListsInv'
<1> DEFINE l == proc[c].list
<1>1. proc[c] \in Call /\ Relies(c, proc[c], There(rows)) /\ proc \in [Procs -> Call]
      /\ c \in Banners
  BY DEF ListsInv, ListsTypeOK, Procs, Banners
<1>2. UNCHANGED <<banned, counted, pending, seen, file, cached, snapshot>>
  BY DEF ImportIPList, ruleVars, hitVars
<1>3. l \in Lists /\ proc[c].todo \subseteq Entries
      /\ proc[c].at = "write" /\ proc[c].op = "import"
  BY <1>1 DEF ImportIPList, Relies, Call
<1>4. CASE Set(c, Idle) /\ UNCHANGED rows
  BY <1>2, <1>4, WriteFails
<1>5. ASSUME NEW e \in proc[c].todo, Import(l, e),
             NEW changed \in BOOLEAN,
             Set(c, IF proc[c].todo # {e}
                      THEN [proc[c] EXCEPT !.todo = @ \ {e}, !.changed = changed]
                    ELSE IF changed THEN Rebuilding ELSE Idle)
      PROVE  ListsInv'
  <2> DEFINE old == rows[l][e]
             row == IF old = None THEN NewRow("permanent", 0) ELSE old
             more == [proc[c] EXCEPT !.todo = @ \ {e}, !.changed = changed]
             q == IF proc[c].todo # {e} THEN more
                  ELSE IF changed THEN Rebuilding ELSE Idle
  <2>1. e \in Entries /\ old \in Row \cup {None}
    BY <1>3 DEF ListsInv, ListsTypeOK
  <2>2. rows' = [rows EXCEPT ![l][e] = row]
    BY <1>5 DEF Import
  <2>3. Hits(rows, e) = (IF old = None THEN 0 ELSE old.hits) \/ l # "black"
    BY <2>1 DEF Hits
  <2>4. Bans(rows, e) = (IF old = None THEN 0 ELSE old.warn) \/ l # "black"
    BY <2>1 DEF Bans
  <2>5. NewRow("permanent", 0) \in Row /\ NewRow("permanent", 0).hits = 0
        /\ NewRow("permanent", 0).warn = 0
    BY DEF NewRow, Row
  <2>6. row \in Row
    BY <2>1, <2>5
  <2>7. l = "black" => row.hits = Hits(rows, e) /\ row.warn = Bans(rows, e)
    BY <2>3, <2>4, <2>5
  <2> HIDE DEF old
  <2> HIDE DEF row
  <2>8. more \in Call /\ more.at = "write" /\ more.op = "import" /\ more.ids = proc[c].ids
        /\ more.todo = proc[c].todo \ {e} /\ more.list = l
    BY <1>1, <1>3, <1>5 DEF Call
  <2>9. Relies(c, more, There(rows))
    <3>1. more.ids \subseteq There(rows)["black"] /\ more.todo \subseteq Entries
      BY <1>1, <1>3, <2>8 DEF Relies
    <3> HIDE DEF more
    <3> QED BY <2>8, <3>1, ProcsDiffer DEF Relies, Banning
  <2> HIDE DEF more
  <2>10. q \in Call /\ Relies(c, q, There(rows))
    BY <2>8, <2>9, IdleFree, FreeStands
  <2>11. \A k \in Lists : There(rows)[k] \subseteq There(rows')[k]
    BY <1>3, <2>1, <2>2, <2>6, OneRow
  <2>12. Relies(c, q, There(rows'))
    BY <2>10, <2>11, StandsStill
  <2>13. proc' = [proc EXCEPT ![c] = q]
    BY <1>5 DEF Set, more
  <2> HIDE DEF q
  <2> QED BY <1>1, <1>2, <1>3, <2>1, <2>2, <2>6, <2>7, <2>10, <2>12, <2>13, RowWritten
<1>6. proc[c].changed \in BOOLEAN
  BY <1>1 DEF Call
<1> QED BY <1>4, <1>5, <1>6 DEF ImportIPList

-----------------------------------------------------------------------------
(* Rebuilds, the rule file, the engine, the refresh loop and the requests. *)

\* A step of a goroutine that is not, and does not come to be, the refresh loop
\* with hits in hand.
LEMMA PlainStep ==
  ASSUME ListsInv, NEW p \in Procs, NEW q \in Call, proc' = [proc EXCEPT ![p] = q],
         proc[p].at # "count" /\ q.at # "count", Relies(p, q, There(rows)),
         UNCHANGED <<rows, banned, counted, pending, seen>>, file' \subseteq Lines, cached' \subseteq Lines,
         snapshot'.ids \subseteq There(rows)["black"]
  PROVE  ListsInv'
<1>1. \A i \in Ips : Carried(proc', i) = Carried(proc, i)
  BY NothingCarried
<1>2. seen' \in [Ips -> [Tiers -> Nat]]
  BY DEF ListsInv, ListsTypeOK
<1> QED BY <1>1, <1>2, QuietStep

LEMMA LoadListsKeeps ==
  ASSUME ListsInv, NEW p \in Procs, LoadLists(p)
  PROVE  ListsInv'
<1>1. proc[p] \in Call /\ Relies(p, proc[p], There(rows)) /\ proc[p].at = "rules"
      /\ cached \subseteq Lines /\ rows \in [Lists -> [Entries -> Row \cup {None}]]
  BY DEF ListsInv, ListsTypeOK, LoadLists
<1>2. /\ UNCHANGED <<rows, banned, counted, pending, seen>> /\ file' \subseteq Lines /\ cached' \subseteq Lines
      /\ snapshot'.ids \subseteq There(rows)["black"]
  BY <1>1 DEF LoadLists, listVars, ruleVars, hitVars, ListsInv, ListsTypeOK
<1>3. CASE Set(p, Idle)
  BY <1>1, <1>2, <1>3, IdleFree, FreeStands, PlainStep DEF Set, Free
<1>4. ASSUME NEW black \in {QueryActive(rows["black"]), {}},
             NEW white \in {QueryActive(rows["white"]), {}},
             Set(p, [proc[p] EXCEPT !.at = "store", !.black = cached \cup black,
                                    !.ids = black, !.white = white])
      PROVE  ListsInv'
  <2> DEFINE q == [proc[p] EXCEPT !.at = "store", !.black = cached \cup black,
                                  !.ids = black, !.white = white]
  <2>1. black \subseteq There(rows)["black"] /\ black \subseteq Entries
        /\ white \subseteq Entries
    BY DEF QueryActive, InForce, There, Lists
  <2>2. proc' = [proc EXCEPT ![p] = q]
    BY <1>4 DEF Set
  <2>3. q \in Call
    <3>1. cached \cup black \in SUBSET (Entries \cup Lines)
      BY <1>1, <2>1
    <3>2. "store" \in Steps
      BY DEF Steps
    <3> QED BY <1>1, <2>1, <3>1, <3>2 DEF Call
  <2>4. Relies(p, q, There(rows))
    BY <1>1, <2>1 DEF Call, Relies, Banning
  <2>5. q.at = "store"
    BY <1>1 DEF Call
  <2> HIDE DEF q
  <2> QED BY <1>1, <1>2, <2>2, <2>3, <2>4, <2>5, PlainStep
<1> QED BY <1>3, <1>4 DEF LoadLists

LEMMA StoreSnapshotKeeps ==
  ASSUME ListsInv, NEW p \in Procs, StoreSnapshot(p)
  PROVE  ListsInv'
<1>1. Relies(p, proc[p], There(rows)) /\ proc[p].at = "store"
  BY DEF ListsInv, StoreSnapshot
<1>2. /\ UNCHANGED <<rows, banned, counted, pending, seen>> /\ file' \subseteq Lines /\ cached' \subseteq Lines
      /\ proc' = [proc EXCEPT ![p] = Idle]
  BY DEF StoreSnapshot, listVars, ruleVars, hitVars, Set, ListsInv, ListsTypeOK
<1>3. snapshot'.ids \subseteq There(rows)["black"]
  BY <1>1 DEF StoreSnapshot, NewSnapshot, Relies
<1> QED BY <1>1, <1>2, <1>3, IdleFree, FreeStands, PlainStep DEF Free

LEMMA RuleSaveKeeps ==
  ASSUME ListsInv, RuleSave
  PROVE  ListsInv'
<1>1. proc[Engine] \in Call /\ Relies(Engine, proc[Engine], There(rows))
      /\ Engine \in Procs /\ Engine # Ttl
      /\ proc \in [Procs -> Call]
  BY ProcsDiffer DEF ListsInv, ListsTypeOK
<1>2. proc' = [proc EXCEPT ![Engine] = proc[Engine]]
  BY <1>1 DEF RuleSave
<1>3. \A i \in Ips : Carried(proc', i) = Carried(proc, i)
  BY <1>1, <1>2, NothingCarried
<1>4. /\ UNCHANGED <<rows, banned, counted, pending>> /\ file' \subseteq Lines /\ cached' \subseteq Lines
      /\ seen' \in [Ips -> [Tiers -> Nat]] /\ snapshot'.ids \subseteq There(rows)["black"]
  BY DEF RuleSave, listVars, hitVars, Lines, ListsInv, ListsTypeOK
<1> QED BY <1>1, <1>2, <1>3, <1>4, QuietStep

LEMMA HandleChangeKeeps ==
  ASSUME ListsInv, HandleChange
  PROVE  ListsInv'
BY DEF ListsInv, ListsTypeOK, HandleChange, listVars, hitVars

LEMMA RuleChangedKeeps ==
  ASSUME ListsInv, NEW c \in Callers, RuleChanged(c)
  PROVE  ListsInv'
BY IdleFree, CallerFrees DEF RuleChanged, Set, Banners, listVars, hitVars

LEMMA EnableKeeps ==
  ASSUME ListsInv, NEW c \in Callers, Enable(c)
  PROVE  ListsInv'
<1> DEFINE q == [Idle EXCEPT !.at = "rules", !.op = "enable"]
<1>1. q \in Call /\ Free(q)
  BY IdleFree DEF Call, Steps, Kinds, Free
<1>2. proc' = [proc EXCEPT ![c] = q]
  BY DEF Enable, Set
<1> HIDE DEF q
<1> QED BY <1>1, <1>2, CallerFrees DEF Enable, Banners, listVars, ruleVars, hitVars

\* Nobody's place, no row and no count changes.
LEMMA AsideKeeps ==
  ASSUME ListsInv, UNCHANGED <<rows, banned, counted, pending, file, cached, snapshot, proc>>,
         seen' \in [Ips -> [Tiers -> Nat]]
  PROVE  ListsInv'
BY DEF ListsInv, ListsTypeOK

LEMMA DisableKeeps ==
  ASSUME ListsInv, Disable
  PROVE  ListsInv'
BY AsideKeeps DEF ListsInv, ListsTypeOK, Disable, listVars, ruleVars, hitVars

LEMMA ForgetKeeps ==
  ASSUME ListsInv, NEW i \in Ips, Forget(i)
  PROVE  ListsInv'
<1>1. seen' \in [Ips -> [Tiers -> Nat]]
  BY DEF ListsInv, ListsTypeOK, Forget
<1> QED BY <1>1, AsideKeeps DEF Forget, listVars, ruleVars

LEMMA ExpireKeeps ==
  ASSUME ListsInv, NEW e \in Entries, Expire(e)
  PROVE  ListsInv'
<1> DEFINE old == rows["black"][e]
           row == [old EXCEPT !.exp = "expired"]
           q == proc[Engine]
<1>1. q \in Call /\ Relies(Engine, q, There(rows)) /\ Engine \in Banners
      /\ proc \in [Procs -> Call]
  BY ProcsDiffer DEF ListsInv, ListsTypeOK, Banners
<1>2. old \in Row /\ old # None /\ "black" \in Lists
  BY DEF Expire, ListsInv, ListsTypeOK, Lists
<1>3. rows' = [rows EXCEPT !["black"][e] = row]
  BY DEF Expire
<1>4. Hits(rows, e) = old.hits /\ Bans(rows, e) = old.warn
  BY <1>2 DEF Hits, Bans
<1> HIDE DEF old
<1>5. row \in Row /\ row.hits = old.hits /\ row.warn = old.warn
  BY <1>2 DEF Row
<1> HIDE DEF row
<1>6. \A l \in Lists : There(rows)[l] \subseteq There(rows')[l]
  BY <1>2, <1>3, <1>5, OneRow
<1>7. Relies(Engine, q, There(rows'))
  BY <1>1, <1>6, StandsStill
<1>8. proc' = [proc EXCEPT ![Engine] = q]
  BY <1>1 DEF Expire, Banners
<1>9. UNCHANGED <<banned, counted, pending, seen, file, cached, snapshot>>
  BY DEF Expire, ruleVars, hitVars
<1> HIDE DEF q
<1> QED BY <1>1, <1>2, <1>3, <1>4, <1>5, <1>7, <1>8, <1>9, RowWritten

LEMMA CandidatesTyped ==
  ASSUME ListsInv
  PROVE  Candidates \subseteq Candidate
<1> SUFFICES ASSUME NEW i \in Ips, TierReached(i) # None
             PROVE  [ip |-> i, tier |-> TierReached(i), total |-> seen[i][TierReached(i)]]
                      \in Candidate
  BY DEF Candidates
<1>1. TierReached(i) \in Tiers
  BY DEF TierReached, Tiers
<1>2. seen[i][TierReached(i)] \in Nat
  BY <1>1 DEF ListsInv, ListsTypeOK
<1> QED BY <1>1, <1>2 DEF Candidate

LEMMA AutoRoundKeeps ==
  ASSUME ListsInv, AutoRound
  PROVE  ListsInv'
<1> DEFINE q == [Idle EXCEPT !.at = "pick", !.todo = Candidates]
<1>1. Candidates \subseteq Candidate
  BY CandidatesTyped
<1>2. Idle \in Call /\ Idle.ids = {}
  BY IdleFree DEF Free
<1>3. q \in Call /\ q.at = "pick" /\ q.ids = {} /\ q.todo = Candidates
  BY <1>1, <1>2 DEF Call, Steps
<1>4. proc' = [proc EXCEPT ![Engine] = q]
  BY DEF AutoRound, Set
<1> HIDE DEF q
<1>5. Relies(Engine, q, There(rows))
  BY <1>1, <1>3, ProcsDiffer DEF Relies, Banning
<1>6. UNCHANGED <<rows, banned, counted, pending, seen, file, cached, snapshot>>
  BY DEF AutoRound, listVars, ruleVars, hitVars
<1> QED BY <1>3, <1>4, <1>5, <1>6, OthersQuiet DEF Banners

LEMMA AutoPickKeeps ==
  ASSUME ListsInv, AutoPick
  PROVE  ListsInv'
<1> DEFINE o == proc[Engine]
<1>1. o \in Call /\ Relies(Engine, o, There(rows)) /\ o.at = "pick"
  BY ProcsDiffer DEF ListsInv, ListsTypeOK, AutoPick
<1>2. UNCHANGED <<rows, banned, counted, pending, seen, file, cached, snapshot>>
  BY DEF AutoPick, listVars, ruleVars, hitVars
<1>3. o.todo \subseteq Candidate /\ o.changed \in BOOLEAN
  BY <1>1 DEF Relies, Call
<1>4. PICK c \in o.todo :
        \/ proc' = [proc EXCEPT ![Engine] = NextCandidate(o.todo \ {c}, o.changed)]
        \/ proc' = [proc EXCEPT ![Engine] =
             [o EXCEPT !.at = "look", !.todo = o.todo \ {c}, !.op = c.tier, !.entry = c.ip,
                       !.exp = AutoBan(c.tier, AutoExp), !.delta = c.total]]
  BY DEF AutoPick, Set
<1>5. o.todo \ {c} \in SUBSET Candidate
  BY <1>3
<1>6. CASE proc' = [proc EXCEPT ![Engine] = NextCandidate(o.todo \ {c}, o.changed)]
  BY <1>2, <1>3, <1>5, <1>6, NextStands, OthersQuiet DEF Banners
<1>7. ASSUME proc' = [proc EXCEPT ![Engine] =
             [o EXCEPT !.at = "look", !.todo = o.todo \ {c}, !.op = c.tier, !.entry = c.ip,
                       !.exp = AutoBan(c.tier, AutoExp), !.delta = c.total]]
      PROVE  ListsInv'
  <2> DEFINE rest == o.todo \ {c}
             exp == AutoBan(c.tier, AutoExp)
             q == [o EXCEPT !.at = "look", !.todo = rest, !.op = c.tier, !.entry = c.ip,
                            !.exp = exp, !.delta = c.total]
  <2>1. c.ip \in Ips /\ c.tier \in Tiers /\ c.total \in Nat
    BY <1>3 DEF Candidate
  <2>2. exp \in {"timed", "permanent"}
    BY ShieldAssumption DEF AutoBan
  <2>3. rest \subseteq Candidate
    BY <1>3
  <2>4. proc' = [proc EXCEPT ![Engine] = q]
    BY <1>7
  <2> HIDE DEF rest, exp
  <2>5. c.tier \in Kinds /\ "look" \in Steps /\ c.ip \in Entries
    BY <2>1, NoneIsNoRow DEF Kinds, Steps
  <2>6. q \in Call
    BY <1>1, <2>1, <2>2, <2>3, <2>5 DEF Call
  <2>7. q.at = "look" /\ q.todo = rest /\ q.entry = c.ip /\ q.ids = o.ids
    BY <1>1 DEF Call
  <2> HIDE DEF q
  <2>8. Relies(Engine, q, There(rows))
    BY <1>1, <2>1, <2>3, <2>5, <2>7, ProcsDiffer DEF Relies, Banning
  <2> QED BY <1>2, <2>4, <2>6, <2>8, OthersQuiet DEF Banners
<1> QED BY <1>4, <1>6, <1>7

\* Hits are added to the row of an address: those that were counted just now,
\* or those the refresh loop held.
LEMMA HitsAdded ==
  ASSUME ListsInv, NEW p \in Procs, NEW q \in Call, proc' = [proc EXCEPT ![p] = q],
         NEW i \in Ips, i \in There(rows)["black"], NEW n \in Nat, AddHitCount(i, n),
         counted' \in [Ips -> Nat],
         counted'[i] - Carried(proc', i) = counted[i] - Carried(proc, i) + n,
         \A j \in Ips : j # i =>
           counted'[j] = counted[j] /\ Carried(proc', j) = Carried(proc, j),
         Relies(p, q, There(rows)),
         \A j \in Ips : Carried(proc, j) \in Nat /\ Carried(proc', j) \in Nat,
         UNCHANGED <<banned, pending, seen, file, cached, snapshot>>
  PROVE  ListsInv'
<1> DEFINE old == rows["black"][i]
           row == [old EXCEPT !.hits = old.hits + n]
<1>1. /\ rows \in [Lists -> [Entries -> Row \cup {None}]] /\ "black" \in Lists
      /\ i \in Entries /\ Ips \subseteq Entries
      /\ counted \in [Ips -> Nat] /\ pending \in [Ips -> Nat]
  BY NoneIsNoRow DEF ListsInv, ListsTypeOK, Lists
<1>2. old \in Row /\ old # None
  BY <1>1 DEF There
<1>3. Hits(rows, i) = old.hits /\ Bans(rows, i) = old.warn
  BY <1>2 DEF Hits, Bans
<1>4. rows' = [rows EXCEPT !["black"][i] = row]
  BY DEF AddHitCount
<1> HIDE DEF old
<1>5. row \in Row /\ row.hits = old.hits + n /\ row.warn = old.warn
  <2>1. old.hits + n \in Nat
    BY <1>2 DEF Row
  <2> QED BY <1>2, <2>1 DEF Row
<1> HIDE DEF row
<1>6. /\ rows' \in [Lists -> [Entries -> Row \cup {None}]]
      /\ \A k \in Lists : There(rows)[k] \subseteq There(rows')[k]
      /\ \A j \in Entries : j # i => Hits(rows', j) = Hits(rows, j)
      /\ \A j \in Entries : j # i => Bans(rows', j) = Bans(rows, j)
      /\ Hits(rows', i) = row.hits /\ Bans(rows', i) = row.warn
  BY <1>1, <1>4, <1>5, OneRow
<1>7. proc' \in [Procs -> Call] /\ \A r \in Procs : Relies(r, proc'[r], There(rows'))
  BY <1>6, StandsStill, ProcStep
<1>8. \A e \in Entries : banned'[e] = Bans(rows', e)
  BY <1>3, <1>5, <1>6 DEF ListsInv
<1>9. \A j \in Ips : counted'[j] = pending'[j] + Hits(rows', j) + Carried(proc', j)
  <2>1. \A j \in Ips : counted[j] = pending[j] + Hits(rows, j) + Carried(proc, j)
    BY DEF ListsInv
  <2>2. \A j \in Ips : j # i =>
          counted'[j] = pending'[j] + Hits(rows', j) + Carried(proc', j)
    BY <1>1, <1>6, <2>1
  <2>3. Hits(rows', i) = Hits(rows, i) + n /\ old.hits \in Nat
    BY <1>2, <1>3, <1>5, <1>6 DEF Row
  <2>4. counted'[i] = pending'[i] + Hits(rows', i) + Carried(proc', i)
    <3>1. counted[i] \in Nat /\ counted'[i] \in Nat /\ pending[i] \in Nat
          /\ Hits(rows, i) \in Nat /\ pending'[i] = pending[i]
      BY <1>1, <1>3, <2>3
    <3>2. counted[i] = pending[i] + Hits(rows, i) + Carried(proc, i)
      BY <2>1
    <3>3. Carried(proc, i) \in Nat /\ Carried(proc', i) \in Nat
      OBVIOUS
    <3> QED BY <2>3, <3>1, <3>2, <3>3
  <2> QED BY <2>2, <2>4
<1>10. snapshot'.ids \subseteq There(rows')["black"]
       /\ \A j \in Ips : pending'[j] > 0 => j \in There(rows')["black"]
  BY <1>1, <1>6 DEF ListsInv
<1> QED BY <1>6, <1>7, <1>8, <1>9, <1>10 DEF ListsInv, ListsTypeOK

LEMMA HitsTyped ==
  ASSUME ListsInv
  PROVE  \A i \in Ips : Hits(rows, i) \in Nat
<1> SUFFICES ASSUME NEW i \in Ips
             PROVE  Hits(rows, i) \in Nat
  OBVIOUS
<1>1. rows["black"][i] \in Row \cup {None}
  BY NoneIsNoRow DEF ListsInv, ListsTypeOK, Lists
<1>2. \A row \in Row : row.hits \in Nat
  BY DEF Row
<1> QED BY <1>1, <1>2 DEF Hits

LEMMA CarriedTyped ==
  ASSUME NEW pr \in [Procs -> Call]
  PROVE  \A i \in Ips : Carried(pr, i) \in Nat
BY ProcsDiffer DEF Carried, Call

LEMMA AutoSeedKeeps ==
  ASSUME ListsInv, AutoSeed
  PROVE  ListsInv'
<1> DEFINE o == proc[Engine]
           q == NextCandidate(o.todo, TRUE)
<1>1. o \in Call /\ Relies(Engine, o, There(rows)) /\ o.at = "seed"
      /\ proc \in [Procs -> Call] /\ counted \in [Ips -> Nat]
      /\ Engine \in Procs /\ Engine # Ttl
  BY ProcsDiffer DEF ListsInv, ListsTypeOK, AutoSeed
<1>2. o.todo \subseteq Candidate /\ o.entry \in Ips \cap There(rows)["black"]
      /\ o.delta \in Nat
  BY <1>1 DEF Relies, Call
<1>3. q \in Call /\ Relies(Engine, q, There(rows))
  BY <1>2, NextStands
<1>4. proc' = [proc EXCEPT ![Engine] = q]
  BY DEF AutoSeed, Set
<1>5. UNCHANGED <<banned, pending, seen, file, cached, snapshot>>
  BY DEF AutoSeed, ruleVars, hitVars
<1> HIDE DEF q
<1>6. proc' \in [Procs -> Call]
  BY <1>1, <1>3, <1>4
<1>7. \A i \in Ips : Carried(proc', i) = Carried(proc, i)
  BY <1>1, <1>3, <1>4, NothingCarried
<1>8. \A i \in Ips : Carried(proc, i) \in Nat /\ Carried(proc', i) \in Nat
  BY <1>1, <1>6, CarriedTyped
<1>9. CASE UNCHANGED <<rows, counted>>
  BY <1>3, <1>4, <1>5, <1>9, OthersQuiet DEF Banners
<1>10. CASE /\ AddHitCount(o.entry, o.delta)
            /\ counted' = [counted EXCEPT ![o.entry] = counted[o.entry] + o.delta]
  <2> DEFINE i == o.entry
             n == o.delta
  <2>1. i \in Ips /\ i \in There(rows)["black"] /\ n \in Nat
    BY <1>2
  <2>2. counted' = [counted EXCEPT ![i] = counted[i] + n] /\ AddHitCount(i, n)
    BY <1>10
  <2> HIDE DEF i, n
  <2>3. counted' \in [Ips -> Nat] /\ counted'[i] = counted[i] + n /\ counted[i] \in Nat
    BY <1>1, <2>1, <2>2
  <2>4. \A j \in Ips : j # i =>
          counted'[j] = counted[j] /\ Carried(proc', j) = Carried(proc, j)
    BY <1>1, <1>7, <2>2
  <2>5. counted'[i] - Carried(proc', i) = counted[i] - Carried(proc, i) + n
    <3>1. Carried(proc', i) = Carried(proc, i) /\ Carried(proc, i) \in Nat
      BY <1>7, <1>8, <2>1
    <3> QED BY <2>1, <2>3, <3>1
  <2> QED BY <1>1, <1>3, <1>4, <1>5, <1>8, <2>1, <2>2, <2>3, <2>4, <2>5, HitsAdded
<1> QED BY <1>9, <1>10 DEF AutoSeed

\* The refresh loop with the counters that are left.
LEMMA FlushingStands ==
  ASSUME ListsInv, NEW todo, todo \subseteq Ips \cap There(rows)["black"]
  PROVE  /\ Flushing(todo) \in Call /\ Flushing(todo).at # "count"
         /\ Relies(Ttl, Flushing(todo), There(rows))
<1>1. CASE todo = {}
  BY <1>1, IdleFree, FreeStands DEF Flushing, Free
<1>2. CASE todo # {}
  <2> DEFINE q == [Idle EXCEPT !.at = "flush", !.todo = todo]
  <2>1. Flushing(todo) = q
    BY <1>2 DEF Flushing
  <2>2. Idle \in Call /\ Idle.ids = {} /\ todo \in SUBSET Entries
    BY IdleFree, NoneIsNoRow DEF Free
  <2>3. q \in Call /\ q.ids = {} /\ q.todo = todo /\ q.at = "flush"
    BY <2>2 DEF Call, Steps
  <2> HIDE DEF q
  <2> QED BY <2>1, <2>3, ProcsDiffer DEF Relies, Banning
<1> QED BY <1>1, <1>2

LEMMA TickKeeps ==
  ASSUME ListsInv, Tick
  PROVE  ListsInv'
<1> DEFINE todo == {i \in Ips : pending[i] > 0}
<1>1. todo \subseteq Ips \cap There(rows)["black"]
  BY DEF ListsInv
<1>2. Flushing(todo) \in Call /\ Flushing(todo).at # "count"
      /\ Relies(Ttl, Flushing(todo), There(rows))
  BY <1>1, FlushingStands
<1>3. proc' = [proc EXCEPT ![Ttl] = Flushing(todo)] /\ proc[Ttl].at # "count"
  BY DEF Tick, Set
<1>4. UNCHANGED <<rows, banned, counted, pending, seen>> /\ file' \subseteq Lines /\ cached' \subseteq Lines
      /\ snapshot'.ids \subseteq There(rows)["black"]
  BY DEF Tick, listVars, ruleVars, hitVars, ListsInv, ListsTypeOK
<1> HIDE DEF todo
<1> QED BY <1>2, <1>3, <1>4, ProcsDiffer, PlainStep

LEMMA FlushTakeKeeps ==
  ASSUME ListsInv, FlushTake
  PROVE  ListsInv'
<1> DEFINE o == proc[Ttl]
<1>1. o \in Call /\ Relies(Ttl, o, There(rows)) /\ o.at = "flush"
      /\ proc \in [Procs -> Call] /\ pending \in [Ips -> Nat] /\ Ttl \in Procs
  BY ProcsDiffer DEF ListsInv, ListsTypeOK, FlushTake
<1>2. o.todo \subseteq Ips \cap There(rows)["black"]
  BY <1>1 DEF Relies
<1>3. PICK i \in o.todo :
        /\ proc' = [proc EXCEPT ![Ttl] =
             [o EXCEPT !.at = "count", !.todo = o.todo \ {i}, !.entry = i,
                       !.delta = pending[i]]]
        /\ pending' = [pending EXCEPT ![i] = 0]
  BY DEF FlushTake, Set
<1> DEFINE rest == o.todo \ {i}
           n == pending[i]
           q == [o EXCEPT !.at = "count", !.todo = rest, !.entry = i, !.delta = n]
<1>4. i \in Ips /\ i \in There(rows)["black"] /\ n \in Nat /\ i \in Entries
      /\ rest \subseteq Ips \cap There(rows)["black"] /\ rest \subseteq Entries
  BY <1>1, <1>2, NoneIsNoRow
<1>5. proc' = [proc EXCEPT ![Ttl] = q]
  BY <1>3
<1>6. n = pending[i]
  OBVIOUS
<1> HIDE DEF rest, n
<1>7. q \in Call /\ q.at = "count" /\ q.todo = rest /\ q.entry = i /\ q.delta = n
      /\ q.ids = o.ids
  BY <1>1, <1>4 DEF Call, Steps
<1> HIDE DEF q
<1>8. Relies(Ttl, q, There(rows))
  BY <1>1, <1>4, <1>7, ProcsDiffer DEF Relies, Banning
<1>9. UNCHANGED <<rows, banned, counted, seen, file, cached, snapshot>>
  BY DEF FlushTake, listVars, ruleVars
<1>10. proc' \in [Procs -> Call] /\ \A r \in Procs : Relies(r, proc'[r], There(rows'))
  BY <1>1, <1>5, <1>7, <1>8, <1>9, ProcStep
<1>11. pending' \in [Ips -> Nat] /\ pending'[i] = 0
       /\ \A j \in Ips : j # i => pending'[j] = pending[j]
  BY <1>1, <1>3, <1>4
<1>12. /\ Carried(proc, i) = 0 /\ Carried(proc', i) = n
       /\ \A j \in Ips : j # i => Carried(proc, j) = 0 /\ Carried(proc', j) = 0
  BY <1>1, <1>5, <1>7 DEF Carried
<1>13. \A j \in Ips : counted'[j] = pending'[j] + Hits(rows', j) + Carried(proc', j)
  <2>1. \A j \in Ips : counted[j] = pending[j] + Hits(rows, j) + Carried(proc, j)
    BY DEF ListsInv
  <2>2. \A j \in Ips : Hits(rows', j) = Hits(rows, j) /\ counted'[j] = counted[j]
    BY <1>9
  <2>3. \A j \in Ips : j # i =>
          counted'[j] = pending'[j] + Hits(rows', j) + Carried(proc', j)
    BY <1>11, <1>12, <2>1, <2>2
  <2>4. Hits(rows, i) \in Nat
    BY <1>4, HitsTyped
  <2>5. counted[i] = n + Hits(rows, i) + 0
    BY <1>4, <1>6, <1>12, <2>1
  <2>6. counted'[i] = 0 + Hits(rows', i) + n
    BY <1>4, <2>2, <2>4, <2>5
  <2> QED BY <1>11, <1>12, <2>3, <2>6
<1>14. \A j \in Ips : pending'[j] > 0 => j \in There(rows')["black"]
  BY <1>9, <1>11 DEF ListsInv
<1>15. snapshot'.ids \subseteq There(rows')["black"]
       /\ \A e \in Entries : banned'[e] = Bans(rows', e)
  BY <1>9 DEF ListsInv
<1> QED BY <1>9, <1>10, <1>11, <1>13, <1>14, <1>15 DEF ListsInv, ListsTypeOK

LEMMA FlushCountKeeps ==
  ASSUME ListsInv, FlushCount
  PROVE  ListsInv'
<1> DEFINE o == proc[Ttl]
           i == o.entry
           n == o.delta
           q == Flushing(o.todo)
<1>1. o \in Call /\ Relies(Ttl, o, There(rows)) /\ o.at = "count"
      /\ proc \in [Procs -> Call] /\ pending \in [Ips -> Nat] /\ Ttl \in Procs
      /\ counted \in [Ips -> Nat] /\ rows \in [Lists -> [Entries -> Row \cup {None}]]
  BY ProcsDiffer DEF ListsInv, ListsTypeOK, FlushCount
<1>2. i \in Ips /\ i \in There(rows)["black"] /\ n \in Nat
      /\ o.todo \subseteq Ips \cap There(rows)["black"]
  BY <1>1 DEF Relies, Call
<1>3. q \in Call /\ q.at # "count" /\ Relies(Ttl, q, There(rows))
  BY <1>2, FlushingStands
<1>4. proc' = [proc EXCEPT ![Ttl] = q]
  BY DEF FlushCount, Set
<1> HIDE DEF q
<1>5. /\ Carried(proc, i) = n /\ Carried(proc', i) = 0
      /\ \A j \in Ips : j # i => Carried(proc, j) = 0 /\ Carried(proc', j) = 0
  BY <1>1, <1>3, <1>4 DEF Carried
<1>6. UNCHANGED <<banned, counted, seen, file, cached, snapshot>>
  BY DEF FlushCount, ruleVars
<1>7. CASE AddHitCount(i, n) /\ UNCHANGED pending
  <2> HIDE DEF o, i, n
  <2>1. counted' \in [Ips -> Nat] /\ counted' = counted
    BY <1>1, <1>6
  <2>2. \A j \in Ips : Carried(proc, j) \in Nat /\ Carried(proc', j) \in Nat
    BY <1>2, <1>5
  <2>3. counted'[i] - Carried(proc', i) = counted[i] - Carried(proc, i) + n
    <3>1. counted[i] \in Nat
      BY <1>1, <1>2
    <3> QED BY <1>2, <1>5, <2>1, <3>1
  <2>4. \A j \in Ips : j # i =>
          counted'[j] = counted[j] /\ Carried(proc', j) = Carried(proc, j)
    BY <1>5, <2>1
  <2> QED BY <1>1, <1>2, <1>3, <1>4, <1>6, <1>7, <2>1, <2>2, <2>3, <2>4, HitsAdded
<1>8. CASE pending' = PutBack(i, n) /\ UNCHANGED rows
  <2> HIDE DEF o, i, n
  <2>1. pending' \in [Ips -> Nat] /\ pending'[i] = pending[i] + n /\ pending[i] \in Nat
        /\ \A j \in Ips : j # i => pending'[j] = pending[j]
    BY <1>1, <1>2, <1>8 DEF PutBack
  <2>2. proc' \in [Procs -> Call] /\ \A r \in Procs : Relies(r, proc'[r], There(rows'))
    BY <1>1, <1>3, <1>4, <1>8, ProcStep
  <2>3. \A j \in Ips : counted'[j] = pending'[j] + Hits(rows', j) + Carried(proc', j)
    <3>1. \A j \in Ips : counted[j] = pending[j] + Hits(rows, j) + Carried(proc, j)
      BY DEF ListsInv
    <3>2. \A j \in Ips : Hits(rows', j) = Hits(rows, j) /\ counted'[j] = counted[j]
      BY <1>6, <1>8
    <3>3. \A j \in Ips : j # i =>
            counted'[j] = pending'[j] + Hits(rows', j) + Carried(proc', j)
      BY <1>5, <2>1, <3>1, <3>2
    <3>4. Hits(rows, i) \in Nat
      BY <1>2, HitsTyped
    <3>5. counted[i] = pending[i] + Hits(rows, i) + n
      BY <1>2, <1>5, <3>1
    <3>6. counted'[i] = (pending[i] + n) + Hits(rows', i) + 0
      BY <1>2, <2>1, <3>2, <3>4, <3>5
    <3> QED BY <1>5, <2>1, <3>3, <3>6
  <2>4. \A j \in Ips : pending'[j] > 0 => j \in There(rows')["black"]
    BY <1>2, <1>8, <2>1 DEF ListsInv
  <2>5. snapshot'.ids \subseteq There(rows')["black"]
        /\ \A e \in Entries : banned'[e] = Bans(rows', e)
    BY <1>6, <1>8 DEF ListsInv
  <2> QED BY <1>6, <1>8, <2>1, <2>2, <2>3, <2>4, <2>5 DEF ListsInv, ListsTypeOK
<1> QED BY <1>7, <1>8 DEF FlushCount

LEMMA HandleKeeps ==
  ASSUME ListsInv, NEW i \in Ips, NEW request, NEW limited, Handle(i, request, limited)
  PROVE  ListsInv'
<1> DEFINE type == Verdict(i, request, limited)
<1>1. UNCHANGED <<rows, banned, file, cached, snapshot, proc>>
  BY DEF Handle, ruleVars
<1>2. seen' \in [Ips -> [Tiers -> Nat]]
  <2>1. seen \in [Ips -> [Tiers -> Nat]]
    BY DEF ListsInv, ListsTypeOK
  <2>2. BanTierOf(type) # None => BanTierOf(type) \in Tiers
    BY DEF BanTierOf, Tiers
  <2>3. \A t \in Tiers : seen[i][t] + 1 \in Nat
    BY <2>1
  <2>4. UNCHANGED seen \/ \E t \in Tiers : seen' = [seen EXCEPT ![i][t] = seen[i][t] + 1]
    BY <2>2 DEF Handle, Record
  <2>5. ASSUME NEW t \in Tiers, seen' = [seen EXCEPT ![i][t] = seen[i][t] + 1]
        PROVE  seen' \in [Ips -> [Tiers -> Nat]]
    BY <2>1, <2>3, <2>5
  <2> QED BY <2>1, <2>4, <2>5
<1>3. CASE UNCHANGED <<pending, counted>>
  BY <1>1, <1>2, <1>3, AsideKeeps
<1>4. CASE i \in snapshot.ids /\ BumpHit(i)
  <2>1. counted \in [Ips -> Nat] /\ pending \in [Ips -> Nat] /\ proc \in [Procs -> Call]
    BY DEF ListsInv, ListsTypeOK
  <2>2. /\ pending' \in [Ips -> Nat] /\ counted' \in [Ips -> Nat]
        /\ pending'[i] = pending[i] + 1 /\ counted'[i] = counted[i] + 1
        /\ \A j \in Ips : j # i => pending'[j] = pending[j] /\ counted'[j] = counted[j]
    BY <1>4, <2>1 DEF BumpHit
  <2>3. \A j \in Ips : counted'[j] = pending'[j] + Hits(rows', j) + Carried(proc', j)
    <3>1. \A j \in Ips : counted[j] = pending[j] + Hits(rows, j) + Carried(proc, j)
      BY DEF ListsInv
    <3>2. \A j \in Ips : Hits(rows, j) \in Nat /\ Carried(proc, j) \in Nat
      BY <2>1, HitsTyped, CarriedTyped
    <3>3. \A j \in Ips : Hits(rows', j) = Hits(rows, j) /\ Carried(proc', j) = Carried(proc, j)
      BY <1>1
    <3>4. \A j \in Ips : j # i =>
            counted'[j] = pending'[j] + Hits(rows', j) + Carried(proc', j)
      BY <2>2, <3>1, <3>3
    <3>5. counted[i] = pending[i] + Hits(rows, i) + Carried(proc, i)
          /\ pending[i] \in Nat /\ Hits(rows, i) \in Nat /\ Carried(proc, i) \in Nat
      BY <2>1, <3>1, <3>2
    <3>6. counted'[i] = pending'[i] + Hits(rows', i) + Carried(proc', i)
      BY <2>2, <3>3, <3>5
    <3> QED BY <3>4, <3>6
  <2>4. \A j \in Ips : pending'[j] > 0 => j \in There(rows')["black"]
    BY <1>1, <1>4, <2>2 DEF ListsInv
  <2> QED BY <1>1, <1>2, <2>2, <2>3, <2>4 DEF ListsInv, ListsTypeOK
<1> QED BY <1>3, <1>4 DEF Handle

LEMMA BanIPKeeps ==
  ASSUME ListsInv, NEW p \in Banners, BanIP(p)
  PROVE  ListsInv'
BY LookUpKeeps, BanNewKeeps, GetByIPKeeps, BanAgainKeeps DEF BanIP

LEMMA AnswerKeeps ==
  ASSUME ListsInv, NEW c \in Callers, Answer(c)
  PROVE  ListsInv'
BY AddIPListKeeps, UpdateIPListKeeps, SoftDeleteIPListKeeps, RestoreIPListKeeps,
   ImportIPListKeeps DEF Answer

LEMMA RebuildKeeps ==
  ASSUME ListsInv, NEW p \in Procs, Rebuild(p)
  PROVE  ListsInv'
BY LoadListsKeeps, StoreSnapshotKeeps DEF Rebuild

LEMMA DbTTLLoopKeeps ==
  ASSUME ListsInv, DbTTLLoop
  PROVE  ListsInv'
BY TickKeeps, FlushTakeKeeps, FlushCountKeeps DEF DbTTLLoop

LEMMA RunOnceKeeps ==
  ASSUME ListsInv, RunOnce
  PROVE  ListsInv'
BY AutoRoundKeeps, AutoPickKeeps, AutoSeedKeeps DEF RunOnce

LEMMA StutterKeeps ==
  ASSUME ListsInv, UNCHANGED vars
  PROVE  ListsInv'
BY AsideKeeps DEF vars, ListsInv, ListsTypeOK

LEMMA NextKeepsLists ==
  ASSUME ListsInv, [Next]_vars
  PROVE  ListsInv'
<1>1. ASSUME NEW c \in Callers, Request(c) \/ Answer(c) \/ Enable(c) \/ RuleChanged(c)
      PROVE  ListsInv'
  BY <1>1, RequestKeeps, AnswerKeeps, EnableKeeps, RuleChangedKeeps
<1>2. ASSUME NEW p \in Banners, BanIP(p)
      PROVE  ListsInv'
  BY <1>2, BanIPKeeps
<1>3. ASSUME NEW p \in Procs, Rebuild(p)
      PROVE  ListsInv'
  BY <1>3, RebuildKeeps
<1>4. CASE RuleSave \/ HandleChange \/ DbTTLLoop \/ RunOnce \/ Disable
  BY <1>4, RuleSaveKeeps, HandleChangeKeeps, DbTTLLoopKeeps, RunOnceKeeps, DisableKeeps
<1>5. ASSUME NEW i \in Ips,
             Forget(i) \/ \E r \in Requests, l \in BOOLEAN : Handle(i, r, l)
      PROVE  ListsInv'
  BY <1>5, ForgetKeeps, HandleKeeps
<1>6. ASSUME NEW e \in Entries, Expire(e)
      PROVE  ListsInv'
  BY <1>6, ExpireKeeps
<1>7. CASE UNCHANGED vars
  BY <1>7, StutterKeeps
<1> QED BY <1>1, <1>2, <1>3, <1>4, <1>5, <1>6, <1>7 DEF Next

LEMMA InitLists ==
  ASSUME NEW refresh, InitWith(refresh)
  PROVE  ListsInv
<1>1. rows = [l \in Lists |-> [e \in Entries |-> None]] /\ "black" \in Lists
  BY DEF InitWith, Lists
<1>2. proc = [p \in Procs |-> Idle]
  BY DEF InitWith
<1>3. ListsTypeOK
  BY <1>1, <1>2, IdleFree DEF InitWith, ListsTypeOK
<1>4. snapshot.ids = {}
  BY DEF InitWith
<1>5. \A p \in Procs : Relies(p, proc[p], There(rows))
  BY <1>2, IdleFree, FreeStands
<1>6. \A i \in Ips : counted[i] = 0 /\ pending[i] = 0
  BY DEF InitWith
<1>7. \A i \in Ips : Hits(rows, i) = 0 /\ Carried(proc, i) = 0
  BY <1>1, <1>2, IdleFree, ProcsDiffer, NoneIsNoRow DEF Hits, Carried, Free
<1>8. \A e \in Entries : banned[e] = 0 /\ Bans(rows, e) = 0
  BY <1>1 DEF InitWith, Bans
<1> QED BY <1>3, <1>4, <1>5, <1>6, <1>7, <1>8 DEF ListsInv

-----------------------------------------------------------------------------
\* The tables, the snapshots and the goroutines between them: a row that is
\* there stays, which is what everybody who has looked at it relies on (the
\* caller between its lookup and its statement, the engine about to add hits,
\* the loop with a count in hand, the snapshot's list of counted addresses);
\* and the counts in memory, in the table and in hand add up.
THEOREM ListsInvariant == FirewallSpec => []ListsInv
<1>1. FirewallInit => ListsInv
  BY InitLists DEF FirewallInit, Init
<1>2. ListsInv /\ [FirewallNext]_firewallVars => ListsInv'
  <2> SUFFICES ASSUME ListsInv, [FirewallNext]_firewallVars
               PROVE  ListsInv'
    OBVIOUS
  <2>1. Refresh => Next
    BY ProcsDiffer DEF Refresh, Next
  <2>2. [Next]_vars
    BY <2>1 DEF FirewallNext, ShieldStep, firewallVars
  <2> QED BY <2>2, NextKeepsLists
<1> QED BY <1>1, <1>2, PTL DEF FirewallSpec

\* What the table counts is what happened, with any number of administrators,
\* addresses and failing statements (flushHitCounts, seedHitCount, RestoreBan).
THEOREM TableCountsTrueHolds == FirewallSpec => []TableCountsTrue
<1>1. ListsInv => TableCountsTrue
  BY NoneIsNoRow DEF ListsInv, TableCountsTrue, HitsConserved, WarnCountsBans, Hits, Bans, Carried
<1> QED BY <1>1, ListsInvariant, PTL

-----------------------------------------------------------------------------
(* The counter of denials.                                                   *)

AddState == [at : {"none", "load", "swap", "reset", "resetCounts", "total", "count", "done"},
             slot : Nat, type : {NoAdd.type} \cup Types, old : Nat, todo : SUBSET Types]

Bucket == [slot : Nat, total : Nat, counts : [Types -> Nat]]

CounterTypeOK ==
  /\ minute \in Nat \ {0}
  /\ bucket \in [Ring -> Bucket]
  /\ add \in [Adders -> AddState]

ClearsNow(a, b) == BucketOf(a) = b /\ add[a].at \in {"reset", "resetCounts"}

\* A bucket is for a minute of its own, a call for a minute that has begun.
SlotsOK ==
  /\ \A b \in Ring : bucket[b].slot # 0 => bucket[b].slot % Buckets = b
                                           /\ bucket[b].slot <= minute
  /\ \A a \in Adders : add[a].at # "none" => add[a].slot \in 1 .. minute
  /\ \A a \in Adders : add[a].at = "swap" => add[a].old # add[a].slot

\* Still in the ring, and no calls overlapped there.
Trusted(m) == m \notin excused /\ minute - m < Buckets

\* The calls that have counted a minute, in sum and by category.
Totalled(m) == {a \in Adders : add[a].at \in {"count", "done"} /\ add[a].slot = m}
Counted(m, t) == {a \in Adders : add[a].at = "done" /\ add[a].slot = m /\ add[a].type = t}

\* Who has counted finds the minute in its bucket.
HomesOK ==
  \A a \in Adders : add[a].at \in {"count", "done"} /\ Trusted(add[a].slot)
                      => bucket[BucketOf(a)].slot = add[a].slot

\* While a bucket is cleared nobody has counted there, and what was cleared is zero.
ClearingOK ==
  /\ \A a, c \in Adders, b \in Ring : ClearsNow(a, b) /\ ClearsNow(c, b) /\ a # c
                                        => bucket[b].slot \in excused
  /\ \A c \in Adders, b \in Ring : ClearsNow(c, b) /\ Trusted(bucket[b].slot)
       => /\ Totalled(bucket[b].slot) = {}
          /\ \A t \in Types : Counted(bucket[b].slot, t) = {}
          /\ add[c].at = "resetCounts" => /\ bucket[b].total = 0
                                          /\ \A t \in Types \ add[c].todo : bucket[b].counts[t] = 0

\* Else a bucket shows who has counted.
CountsOK ==
  \A b \in Ring : ~Clearing(b) /\ Trusted(bucket[b].slot)
    => /\ bucket[b].total = Cardinality(Totalled(bucket[b].slot))
       /\ \A t \in Types : bucket[b].counts[t] = Cardinality(Counted(bucket[b].slot, t))

CounterInv == CounterTypeOK /\ SlotsOK /\ HomesOK /\ ClearingOK /\ CountsOK

-----------------------------------------------------------------------------
LEMMA RingOf ==
  ASSUME NEW m \in Nat
  PROVE  m % Buckets \in Ring
BY CounterAssumption DEF Ring

\* Two minutes of one bucket are a ring apart.
LEMMA RingApart ==
  ASSUME NEW m \in Nat, NEW n \in Nat, m < n, m % Buckets = n % Buckets
  PROVE  n - m >= Buckets
<1> DEFINE p == m \div Buckets
           q == n \div Buckets
           r == m % Buckets
<1>1. Buckets \in Nat \ {0}
  BY CounterAssumption
<1>2. /\ m = Buckets * p + r /\ n = Buckets * q + r
      /\ p \in Int /\ q \in Int /\ r \in Int
  BY <1>1
<1> HIDE DEF p, q, r
<1>3. \A k \in Nat : Buckets * k >= 0 /\ (k >= 1 => Buckets * k >= Buckets)
  BY <1>1
<1>4. Buckets * p \in Int /\ Buckets * q \in Int
  BY <1>1, <1>2
<1>5. p < q
  <2> SUFFICES ASSUME q <= p PROVE FALSE
    BY <1>2
  <2>1. p - q \in Nat /\ Buckets * (p - q) = Buckets * p - Buckets * q
    BY <1>1, <1>2
  <2>2. Buckets * (p - q) >= 0
    BY <1>3, <2>1
  <2> QED BY <1>2, <1>4, <2>1, <2>2
<1>6. q - p \in Nat /\ q - p >= 1 /\ Buckets * (q - p) = Buckets * q - Buckets * p
  BY <1>1, <1>2, <1>5
<1>7. Buckets * (q - p) >= Buckets
  BY <1>3, <1>6
<1> QED BY <1>2, <1>4, <1>6, <1>7

LEMMA CountedFinite ==
  \A m, t : /\ IsFiniteSet(Totalled(m)) /\ Cardinality(Totalled(m)) \in Nat
            /\ IsFiniteSet(Counted(m, t)) /\ Cardinality(Counted(m, t)) \in Nat
<1>1. IsFiniteSet(Adders)
  BY CounterAssumption, FS_Interval DEF Adders
<1>2. \A m, t : Totalled(m) \subseteq Adders /\ Counted(m, t) \subseteq Adders
  BY DEF Totalled, Counted
<1> QED BY <1>1, <1>2, FS_Subset, FS_CardinalityType

\* One call moves on.
LEMMA AddMoves ==
  ASSUME CounterTypeOK, NEW c \in Adders, NEW x \in AddState, add' = [add EXCEPT ![c] = x]
  PROVE  /\ add' \in [Adders -> AddState] /\ add'[c] = x
         /\ \A d \in Adders : d # c => add'[d] = add[d]
         /\ \A d \in Adders : d # c => BucketOf(d)' = BucketOf(d)
         /\ BucketOf(c)' = x.slot % Buckets
<1>1. /\ add' \in [Adders -> AddState] /\ add'[c] = x
      /\ \A d \in Adders : d # c => add'[d] = add[d]
  BY DEF CounterTypeOK
<1> QED BY <1>1 DEF BucketOf

Counts(x) == x.at \in {"count", "done"}

LEMMA SameCounted ==
  ASSUME CounterTypeOK, NEW c \in Adders, NEW x \in AddState, add' = [add EXCEPT ![c] = x],
         ~Counts(add[c]), ~Counts(x)
  PROVE  \A m, t : Totalled(m)' = Totalled(m) /\ Counted(m, t)' = Counted(m, t)
<1>1. add'[c] = x /\ \A d \in Adders : d # c => add'[d] = add[d]
  BY AddMoves
<1>2. ASSUME NEW m, NEW d \in Adders
      PROVE  (add'[d].at \in {"count", "done"} /\ add'[d].slot = m)
               <=> (add[d].at \in {"count", "done"} /\ add[d].slot = m)
  BY <1>1 DEF Counts
<1>3. ASSUME NEW m, NEW t, NEW d \in Adders
      PROVE  (add'[d].at = "done" /\ add'[d].slot = m /\ add'[d].type = t)
               <=> (add[d].at = "done" /\ add[d].slot = m /\ add[d].type = t)
  BY <1>1 DEF Counts
<1> QED BY <1>2, <1>3 DEF Totalled, Counted

LEMMA CounterStarts == CounterInit => CounterInv
<1> SUFFICES ASSUME CounterInit PROVE CounterInv
  OBVIOUS
<1>1. /\ minute = 1 /\ excused = {}
      /\ \A b \in Ring : bucket[b] = [slot |-> 0, total |-> 0, counts |-> NoCounts]
      /\ \A a \in Adders : add[a] = NoAdd /\ add[a].at = "none"
  BY DEF CounterInit, NoAdd
<1>2. CounterTypeOK
  <2>1. NoAdd \in AddState
    BY DEF NoAdd, AddState
  <2>2. [slot |-> 0, total |-> 0, counts |-> NoCounts] \in Bucket
    BY DEF Bucket, NoCounts
  <2> QED BY <2>1, <2>2 DEF CounterInit, CounterTypeOK
<1>3. SlotsOK /\ HomesOK /\ ClearingOK
  BY <1>1 DEF SlotsOK, HomesOK, ClearingOK, ClearsNow
<1>4. \A m, t : Totalled(m) = {} /\ Counted(m, t) = {}
  BY <1>1 DEF Totalled, Counted
<1>5. CountsOK
  BY <1>1, <1>4, FS_EmptySet DEF CountsOK, NoCounts
<1> QED BY <1>2, <1>3, <1>5 DEF CounterInv

LEMMA MinuteKeeps == CounterInv /\ MinutePasses => CounterInv'
<1> SUFFICES ASSUME CounterInv, MinutePasses PROVE CounterInv'
  OBVIOUS
<1>1. minute' = minute + 1 /\ bucket' = bucket /\ add' = add /\ excused' = excused
  BY DEF MinutePasses
<1>2. CounterTypeOK'
  BY <1>1 DEF CounterInv, CounterTypeOK
<1>3. SlotsOK'
  BY <1>1 DEF CounterInv, CounterTypeOK, SlotsOK, Bucket, AddState
<1>4. Buckets \in Nat
  BY CounterAssumption
<1>5. \A m \in Nat : Trusted(m)' => Trusted(m)
  BY <1>1, <1>4 DEF Trusted, CounterInv, CounterTypeOK
<1>6. /\ \A a \in Adders : add[a].slot \in Nat
      /\ \A b \in Ring : bucket[b].slot \in Nat
  BY DEF CounterInv, CounterTypeOK, Bucket, AddState
<1>7. HomesOK'
  BY <1>1, <1>5, <1>6 DEF CounterInv, HomesOK, BucketOf
<1>8. ClearingOK'
  BY <1>1, <1>5, <1>6 DEF CounterInv, ClearingOK, BucketOf, ClearsNow, Totalled, Counted
<1>9. CountsOK'
  BY <1>1, <1>5, <1>6 DEF CounterInv, CountsOK, Clearing, BucketOf, Totalled, Counted
<1> QED BY <1>2, <1>3, <1>7, <1>8, <1>9 DEF CounterInv

Clears(x) == x.at \in {"reset", "resetCounts"}

\* A call that touches no bucket.
LEMMA LooksOnly ==
  ASSUME CounterInv, NEW c \in Adders, NEW x \in AddState, add' = [add EXCEPT ![c] = x],
         UNCHANGED <<minute, bucket, excused>>,
         ~Counts(add[c]), ~Counts(x), ~Clears(add[c]), ~Clears(x),
         x.at # "none" => x.slot \in 1 .. minute, x.at = "swap" => x.old # x.slot
  PROVE  CounterInv'
<1>1. /\ add' \in [Adders -> AddState] /\ add'[c] = x
      /\ \A d \in Adders : d # c => add'[d] = add[d]
      /\ \A d \in Adders : d # c => BucketOf(d)' = BucketOf(d)
  BY AddMoves DEF CounterInv
<1>2. \A m, t : Totalled(m)' = Totalled(m) /\ Counted(m, t)' = Counted(m, t)
  BY SameCounted DEF CounterInv
<1>3. CounterTypeOK'
  BY <1>1 DEF CounterInv, CounterTypeOK
<1>4. SlotsOK'
  BY <1>1 DEF CounterInv, SlotsOK
<1>5. \A m : Trusted(m)' <=> Trusted(m)
  BY DEF Trusted
<1>6. HomesOK'
  BY <1>1, <1>5 DEF CounterInv, HomesOK, Counts
<1>7. \A d \in Adders, b \in Ring :
        (ClearsNow(d, b)' <=> ClearsNow(d, b)) /\ (ClearsNow(d, b) => d # c)
  BY <1>1 DEF ClearsNow, Clears
<1>8. ClearingOK'
  BY <1>1, <1>2, <1>5, <1>7 DEF CounterInv, ClearingOK
<1>9. \A b \in Ring : Clearing(b)' <=> Clearing(b)
  BY <1>7 DEF Clearing, ClearsNow
<1>10. CountsOK'
  BY <1>2, <1>5, <1>9 DEF CounterInv, CountsOK
<1> QED BY <1>3, <1>4, <1>6, <1>8, <1>10 DEF CounterInv

LEMMA AddKeeps ==
  ASSUME CounterInv, NEW c \in Adders, Add(c)
  PROVE  CounterInv'
<1>1. PICK t \in {NoAdd.type} \cup Types :
        add' = [add EXCEPT ![c] = [@ EXCEPT !.at = "load", !.slot = minute, !.type = t]]
  BY DEF Add
<1> DEFINE x == [add[c] EXCEPT !.at = "load", !.slot = minute, !.type = t]
<1>2. add' = [add EXCEPT ![c] = x] /\ UNCHANGED <<minute, bucket, excused>>
  BY <1>1 DEF Add
<1>3. add[c] \in AddState /\ minute \in Nat \ {0}
  BY DEF CounterInv, CounterTypeOK
<1>4. x \in AddState /\ x.at = "load" /\ x.slot = minute
  BY <1>3 DEF AddState
<1>5. ~Counts(add[c]) /\ ~Clears(add[c])
  BY DEF Add, Stands, Counts, Clears
<1>6. x.slot \in 1 .. minute /\ x.at # "swap" /\ ~Counts(x) /\ ~Clears(x)
  BY <1>3, <1>4 DEF Counts, Clears
<1> HIDE DEF x
<1> QED BY <1>2, <1>4, <1>5, <1>6, LooksOnly

LEMMA LoadSlotKeeps ==
  ASSUME CounterInv, NEW c \in Adders, LoadSlot(c)
  PROVE  CounterInv'
<1> DEFINE slot == bucket[BucketOf(c)].slot
           at == IF slot = add[c].slot THEN "total" ELSE "swap"
           x == [add[c] EXCEPT !.at = at, !.old = slot]
<1>1. add[c] \in AddState /\ add[c].at = "load" /\ BucketOf(c) \in Ring
  BY RingOf DEF CounterInv, CounterTypeOK, LoadSlot, Stands, BucketOf, AddState
<1>2. slot \in Nat
  BY <1>1 DEF CounterInv, CounterTypeOK, Bucket
<1>3. add' = [add EXCEPT ![c] = x] /\ UNCHANGED <<minute, bucket, excused>>
  BY DEF LoadSlot
<1>4. x \in AddState /\ x.at = at /\ x.slot = add[c].slot /\ x.old = slot
  <2> HIDE DEF slot
  <2> QED BY <1>1, <1>2 DEF AddState
<1>5. add[c].slot \in 1 .. minute
  BY <1>1 DEF CounterInv, SlotsOK
<1>6. x.at \in {"total", "swap"} /\ (x.at = "swap" => x.old # x.slot)
  BY <1>4
<1> HIDE DEF x
<1> QED BY <1>1, <1>3, <1>4, <1>5, <1>6, LooksOnly DEF Counts, Clears

\* What a call finds in its bucket.
LEMMA BucketHere ==
  ASSUME CounterTypeOK, NEW c \in Adders
  PROVE  /\ BucketOf(c) \in Ring /\ bucket[BucketOf(c)] \in Bucket /\ add[c] \in AddState
         /\ bucket[BucketOf(c)].slot \in Nat /\ add[c].slot \in Nat
BY RingOf DEF CounterTypeOK, BucketOf, AddState, Bucket

LEMMA TakeOverKeeps ==
  ASSUME CounterInv, NEW c \in Adders, NEW b, NEW old, NEW slot, NEW x,
         b = BucketOf(c), old = bucket[b].slot, slot = add[c].slot, old # slot,
         add[c].at = "swap", x = [add[c] EXCEPT !.at = "reset"],
         add' = [add EXCEPT ![c] = x],
         bucket' = [bucket EXCEPT ![b].slot = slot],
         excused' = IF old > slot \/ Clearing(b) THEN excused \union {old, slot} ELSE excused,
         minute' = minute
  PROVE  CounterInv'
<1>1. /\ b \in Ring /\ bucket[b] \in Bucket /\ add[c] \in AddState /\ old \in Nat
      /\ slot \in 1 .. minute
  BY BucketHere DEF CounterInv, SlotsOK
<1>2. x \in AddState /\ x.at = "reset" /\ x.slot = slot
  BY <1>1 DEF AddState
<1>3. ~Counts(add[c]) /\ ~Clears(add[c]) /\ ~Counts(x)
  BY <1>2 DEF Counts, Clears
<1>4. /\ add' \in [Adders -> AddState] /\ add'[c] = x
      /\ \A d \in Adders : d # c => add'[d] = add[d]
      /\ \A d \in Adders : BucketOf(d)' = BucketOf(d)
  <2>1. x.slot % Buckets = b
    BY <1>2 DEF BucketOf
  <2>2. /\ add' \in [Adders -> AddState] /\ add'[c] = x
        /\ \A d \in Adders : d # c => add'[d] = add[d]
        /\ \A d \in Adders : d # c => BucketOf(d)' = BucketOf(d)
        /\ BucketOf(c)' = x.slot % Buckets
    BY <1>2, AddMoves DEF CounterInv
  <2>3. BucketOf(c)' = BucketOf(c)
    BY <2>1, <2>2
  <2> QED BY <2>2, <2>3
<1>5. \A m, t : Totalled(m)' = Totalled(m) /\ Counted(m, t)' = Counted(m, t)
  BY <1>2, <1>3, SameCounted DEF CounterInv
<1>6. /\ bucket' \in [Ring -> Bucket] /\ bucket'[b].slot = slot
      /\ \A e \in Ring : e # b => bucket'[e] = bucket[e]
  BY <1>1 DEF CounterInv, CounterTypeOK, Bucket
<1>7. slot \in Nat /\ slot % Buckets = b /\ Buckets \in Nat /\ minute \in Nat
  BY <1>1, CounterAssumption DEF BucketOf, CounterInv, CounterTypeOK
<1>8. CounterTypeOK'
  BY <1>4, <1>6 DEF CounterInv, CounterTypeOK
<1>9. SlotsOK'
  BY <1>1, <1>2, <1>4, <1>6, <1>7 DEF CounterInv, SlotsOK
<1>10. excused \subseteq excused' /\ \A m : Trusted(m)' => Trusted(m)
  BY DEF Trusted
<1>11. Trusted(slot)' => old < slot /\ ~Clearing(b)
  BY <1>1, <1>7 DEF Trusted
<1>12. Trusted(old)' => old = 0
  <2> SUFFICES ASSUME old # 0, Trusted(old)' PROVE FALSE
    OBVIOUS
  <2>1. old < slot
    BY <1>1, <1>7 DEF Trusted
  <2>2. old % Buckets = b
    BY <1>1 DEF CounterInv, SlotsOK
  <2>3. slot - old >= Buckets
    BY <1>1, <1>7, <2>1, <2>2, RingApart
  <2> QED BY <1>1, <1>7, <2>3 DEF Trusted
<1>13. \A d \in Adders, e \in Ring : ClearsNow(d, e)' <=> (ClearsNow(d, e) \/ (d = c /\ e = b))
  <2>1. ~Clears(add[c]) /\ Clears(add'[c])
    BY <1>2, <1>3, <1>4 DEF Clears
  <2> QED BY <1>4, <2>1 DEF ClearsNow, Clears
<1>14. \A e \in Ring : /\ Clearing(e) <=> \E d \in Adders : ClearsNow(d, e)
                       /\ Clearing(e)' <=> \E d \in Adders : ClearsNow(d, e)'
  BY DEF Clearing, ClearsNow
<1>15. HomesOK'
  <2> SUFFICES ASSUME NEW a \in Adders, NEW m, m = add'[a].slot, Counts(add'[a]), Trusted(m)'
               PROVE  bucket'[BucketOf(a)'].slot = m
    BY DEF HomesOK, Counts
  <2>1. a # c /\ add'[a] = add[a] /\ BucketOf(a)' = BucketOf(a)
    BY <1>3, <1>4
  <2>2. bucket[BucketOf(a)].slot = m /\ m \in 1 .. minute
    BY <1>10, <2>1 DEF CounterInv, HomesOK, SlotsOK, Counts
  <2>3. CASE BucketOf(a) = b
    BY <1>7, <1>12, <2>2, <2>3
  <2>4. CASE BucketOf(a) # b
    BY <1>6, <2>1, <2>2, <2>4, BucketHere DEF CounterInv
  <2> QED BY <2>3, <2>4
<1>16. ClearingOK'
  <2>1. ASSUME NEW a \in Adders, NEW d \in Adders, NEW e \in Ring,
               ClearsNow(a, e)', ClearsNow(d, e)', a # d
        PROVE  bucket'[e].slot \in excused'
    <3>1. CASE e = b
      <4>1. ClearsNow(a, b) \/ ClearsNow(d, b)
        BY <1>13, <2>1, <3>1
      <4>2. Clearing(b)
        BY <1>1, <1>14, <4>1
      <4> QED BY <1>6, <3>1, <4>2
    <3>2. CASE e # b
      <4>1. ClearsNow(a, e) /\ ClearsNow(d, e)
        BY <1>13, <2>1, <3>2
      <4>2. bucket[e].slot \in excused
        BY <2>1, <4>1 DEF CounterInv, ClearingOK
      <4> QED BY <1>6, <1>10, <3>2, <4>2
    <3> QED BY <3>1, <3>2
  <2>2. ASSUME NEW d \in Adders, NEW e \in Ring, NEW m, m = bucket'[e].slot,
               ClearsNow(d, e)', Trusted(m)'
        PROVE  /\ Totalled(m)' = {}
               /\ \A t \in Types : Counted(m, t)' = {}
               /\ add'[d].at = "resetCounts" =>
                    /\ bucket'[e].total = 0
                    /\ \A t \in Types \ add'[d].todo : bucket'[e].counts[t] = 0
    <3>1. CASE e = b
      <4>1. m = slot /\ Trusted(slot) /\ ~Clearing(b)
        BY <1>6, <1>10, <1>11, <2>2, <3>1
      <4>2. d = c
        BY <1>1, <1>13, <1>14, <2>2, <3>1, <4>1
      <4>3. ASSUME NEW a \in Adders, Counts(add[a]), add[a].slot = slot
            PROVE  FALSE
        <5>1. BucketOf(a) = b
          BY <1>7, <4>3 DEF BucketOf
        <5>2. bucket[b].slot = slot
          BY <4>1, <4>3, <5>1 DEF CounterInv, HomesOK, Counts
        <5> QED BY <5>2
      <4>4. Totalled(slot) = {} /\ \A t : Counted(slot, t) = {}
        BY <4>3 DEF Totalled, Counted, Counts
      <4> QED BY <1>2, <1>4, <1>5, <4>1, <4>2, <4>4
    <3>2. CASE e # b
      <4>1. ClearsNow(d, e) /\ bucket'[e] = bucket[e] /\ m = bucket[e].slot /\ Trusted(m)
        BY <1>6, <1>10, <1>13, <2>2, <3>2
      <4>2. d # c
        BY <1>3, <4>1 DEF ClearsNow, Clears
      <4>3. /\ Totalled(m) = {}
            /\ \A t \in Types : Counted(m, t) = {}
            /\ add[d].at = "resetCounts" =>
                 /\ bucket[e].total = 0
                 /\ \A t \in Types \ add[d].todo : bucket[e].counts[t] = 0
        BY <4>1 DEF CounterInv, ClearingOK
      <4> QED BY <1>4, <1>5, <4>1, <4>2, <4>3
    <3> QED BY <3>1, <3>2
  <2> QED BY <2>1, <2>2 DEF ClearingOK
<1>17. CountsOK'
  <2> SUFFICES ASSUME NEW e \in Ring, NEW m, m = bucket'[e].slot, ~Clearing(e)', Trusted(m)'
               PROVE  /\ bucket'[e].total = Cardinality(Totalled(m)')
                      /\ \A t \in Types : bucket'[e].counts[t] = Cardinality(Counted(m, t)')
    BY DEF CountsOK
  <2>1. e # b /\ ~Clearing(e)
    BY <1>1, <1>13, <1>14
  <2>2. bucket'[e] = bucket[e] /\ m = bucket[e].slot /\ Trusted(m)
    BY <1>6, <1>10, <2>1
  <2> QED BY <1>5, <2>1, <2>2 DEF CounterInv, CountsOK
<1> QED BY <1>8, <1>9, <1>15, <1>16, <1>17 DEF CounterInv

LEMMA SwapKeeps ==
  ASSUME CounterInv, NEW c \in Adders, CompareAndSwap(c)
  PROVE  CounterInv'
<1>1. /\ add[c].at = "swap" /\ add[c] \in AddState /\ add[c].slot \in 1 .. minute
      /\ add[c].old # add[c].slot
  BY BucketHere DEF CompareAndSwap, Stands, CounterInv, SlotsOK
<1>2. CASE bucket[BucketOf(c)].slot # add[c].old
  <2> DEFINE x == [add[c] EXCEPT !.at = "load"]
  <2>1. add' = [add EXCEPT ![c] = x] /\ UNCHANGED <<minute, bucket, excused>>
    BY <1>2 DEF CompareAndSwap
  <2>2. x \in AddState /\ x.at = "load" /\ x.slot = add[c].slot
    BY <1>1 DEF AddState
  <2>3. ~Counts(add[c]) /\ ~Clears(add[c]) /\ ~Counts(x) /\ ~Clears(x)
    BY <1>1, <2>2 DEF Counts, Clears
  <2> HIDE DEF x
  <2> QED BY <1>1, <2>1, <2>2, <2>3, LooksOnly
<1>3. CASE bucket[BucketOf(c)].slot = add[c].old
  <2>1. PICK b, old, slot, x :
          /\ b = BucketOf(c) /\ old = bucket[b].slot /\ slot = add[c].slot
          /\ x = [add[c] EXCEPT !.at = "reset"]
    OBVIOUS
  <2>2. /\ add' = [add EXCEPT ![c] = x] /\ minute' = minute
        /\ bucket' = [bucket EXCEPT ![b].slot = slot]
        /\ excused' = IF old > slot \/ Clearing(b) THEN excused \union {old, slot} ELSE excused
    BY <1>3, <2>1 DEF CompareAndSwap
  <2> QED BY <1>1, <1>3, <2>1, <2>2, TakeOverKeeps
<1> QED BY <1>2, <1>3

\* A call that clears leaves the minutes of the buckets alone.
LEMMA ClearKeeps ==
  ASSUME CounterInv, NEW c \in Adders, NEW b, NEW x \in AddState, NEW y \in Bucket,
         b = BucketOf(c), Clears(add[c]), ~Counts(x), x.slot = add[c].slot,
         add' = [add EXCEPT ![c] = x], x.at \in {"resetCounts", "total"},
         bucket' = [bucket EXCEPT ![b] = y], y.slot = bucket[b].slot,
         UNCHANGED <<minute, excused>>,
         Trusted(y.slot) =>
           /\ y.total = 0
           /\ \A t \in IF x.at = "total" THEN Types ELSE Types \ x.todo : y.counts[t] = 0
  PROVE  CounterInv'
<1>1. b \in Ring /\ bucket[b] \in Bucket /\ add[c] \in AddState
  BY BucketHere DEF CounterInv
<1>2. ~Counts(add[c])
  BY DEF Counts, Clears
<1>3. /\ add' \in [Adders -> AddState] /\ add'[c] = x
      /\ \A d \in Adders : d # c => add'[d] = add[d]
      /\ \A d \in Adders : BucketOf(d)' = BucketOf(d)
  <2>1. x.slot % Buckets = b
    BY DEF BucketOf
  <2>2. /\ add' \in [Adders -> AddState] /\ add'[c] = x
        /\ \A d \in Adders : d # c => add'[d] = add[d]
        /\ \A d \in Adders : d # c => BucketOf(d)' = BucketOf(d)
        /\ BucketOf(c)' = x.slot % Buckets
    BY AddMoves DEF CounterInv
  <2>3. BucketOf(c)' = BucketOf(c)
    BY <2>1, <2>2
  <2> QED BY <2>2, <2>3
<1>4. \A m, t : Totalled(m)' = Totalled(m) /\ Counted(m, t)' = Counted(m, t)
  BY <1>2, SameCounted DEF CounterInv
<1>5. /\ bucket' \in [Ring -> Bucket] /\ bucket'[b] = y
      /\ \A e \in Ring : e # b => bucket'[e] = bucket[e]
      /\ \A e \in Ring : bucket'[e].slot = bucket[e].slot
  BY <1>1 DEF CounterInv, CounterTypeOK
<1>6. CounterTypeOK'
  BY <1>3, <1>5 DEF CounterInv, CounterTypeOK
<1>7. SlotsOK'
  <2>1. add[c].slot \in 1 .. minute /\ x.at # "swap"
    BY DEF Clears, CounterInv, SlotsOK
  <2> QED BY <1>3, <1>5, <2>1 DEF CounterInv, SlotsOK
<1>8. \A m : Trusted(m)' <=> Trusted(m)
  BY DEF Trusted
<1>9. HomesOK'
  <2> SUFFICES ASSUME NEW a \in Adders, NEW m, m = add'[a].slot, Counts(add'[a]), Trusted(m)'
               PROVE  bucket'[BucketOf(a)'].slot = m
    BY DEF HomesOK, Counts
  <2>1. a # c /\ add'[a] = add[a] /\ BucketOf(a)' = BucketOf(a)
    BY <1>3
  <2>2. bucket[BucketOf(a)].slot = m
    BY <1>8, <2>1 DEF CounterInv, HomesOK, Counts
  <2> QED BY <1>5, <2>1, <2>2, BucketHere DEF CounterInv
<1>10. \A d \in Adders, e \in Ring : ClearsNow(d, e)' => ClearsNow(d, e)
  BY <1>3 DEF ClearsNow, Clears
<1>11. \A e \in Ring : e # b => (Clearing(e)' <=> Clearing(e))
  BY <1>3 DEF Clearing
<1>12. ClearsNow(c, b)
  BY DEF ClearsNow, Clears
<1>13. Trusted(bucket[b].slot) =>
         \A d \in Adders : ClearsNow(d, b) => d = c
  BY <1>1, <1>12 DEF CounterInv, ClearingOK, Trusted
<1>14. Trusted(bucket[b].slot) =>
         /\ Totalled(bucket[b].slot) = {}
         /\ \A t \in Types : Counted(bucket[b].slot, t) = {}
  BY <1>1, <1>12 DEF CounterInv, ClearingOK
<1>15. ClearingOK'
  <2>1. ASSUME NEW a \in Adders, NEW d \in Adders, NEW e \in Ring,
               ClearsNow(a, e)', ClearsNow(d, e)', a # d
        PROVE  bucket'[e].slot \in excused'
    <3>1. bucket[e].slot \in excused
      BY <1>10, <2>1 DEF CounterInv, ClearingOK
    <3> QED BY <1>5, <3>1
  <2>2. ASSUME NEW d \in Adders, NEW e \in Ring, NEW m, m = bucket'[e].slot,
               ClearsNow(d, e)', Trusted(m)'
        PROVE  /\ Totalled(m)' = {}
               /\ \A t \in Types : Counted(m, t)' = {}
               /\ add'[d].at = "resetCounts" =>
                    /\ bucket'[e].total = 0
                    /\ \A t \in Types \ add'[d].todo : bucket'[e].counts[t] = 0
    <3>1. m = bucket[e].slot /\ Trusted(m) /\ ClearsNow(d, e)
      BY <1>5, <1>8, <1>10, <2>2
    <3>2. CASE e = b
      <4>1. d = c /\ m = y.slot
        BY <1>5, <1>13, <3>1, <3>2, <2>2
      <4>2. add'[c].at = "resetCounts" =>
              y.total = 0 /\ \A t \in Types \ x.todo : y.counts[t] = 0
        BY <1>3, <3>1, <4>1
      <4> QED BY <1>3, <1>4, <1>5, <1>14, <3>1, <3>2, <4>1, <4>2
    <3>3. CASE e # b
      <4>1. d # c /\ bucket'[e] = bucket[e]
        BY <1>5, <3>1, <3>3 DEF ClearsNow
      <4>2. /\ Totalled(m) = {}
            /\ \A t \in Types : Counted(m, t) = {}
            /\ add[d].at = "resetCounts" =>
                 /\ bucket[e].total = 0
                 /\ \A t \in Types \ add[d].todo : bucket[e].counts[t] = 0
        BY <3>1 DEF CounterInv, ClearingOK
      <4> QED BY <1>3, <1>4, <4>1, <4>2
    <3> QED BY <3>2, <3>3
  <2> QED BY <2>1, <2>2 DEF ClearingOK
<1>16. CountsOK'
  <2> SUFFICES ASSUME NEW e \in Ring, NEW m, m = bucket'[e].slot, ~Clearing(e)', Trusted(m)'
               PROVE  /\ bucket'[e].total = Cardinality(Totalled(m)')
                      /\ \A t \in Types : bucket'[e].counts[t] = Cardinality(Counted(m, t)')
    BY DEF CountsOK
  <2>1. m = bucket[e].slot /\ Trusted(m)
    BY <1>5, <1>8
  <2>2. CASE e = b
    <3>1. x.at = "total"
      <4>1. ~ (BucketOf(c)' = b /\ add'[c].at \in {"reset", "resetCounts"})
        BY <2>2 DEF Clearing
      <4> QED BY <1>3, <4>1
    <3>2. y.total = 0 /\ \A t \in Types : y.counts[t] = 0
      BY <1>5, <2>1, <2>2, <3>1
    <3>3. Totalled(m)' = {} /\ \A t \in Types : Counted(m, t)' = {}
      BY <1>4, <1>14, <2>1, <2>2
    <3> QED BY <1>5, <2>2, <3>2, <3>3, FS_EmptySet
  <2>3. CASE e # b
    <3>1. ~Clearing(e) /\ bucket'[e] = bucket[e]
      BY <1>5, <1>11, <2>3
    <3> QED BY <1>4, <2>1, <3>1 DEF CounterInv, CountsOK
  <2> QED BY <2>2, <2>3
<1> QED BY <1>6, <1>7, <1>9, <1>15, <1>16 DEF CounterInv

LEMMA ResetTotalKeeps ==
  ASSUME CounterInv, NEW c \in Adders, ResetTotal(c)
  PROVE  CounterInv'
<1>1. PICK b, x, y : /\ b = BucketOf(c)
                     /\ x = [add[c] EXCEPT !.at = "resetCounts", !.todo = Types]
                     /\ y = [bucket[b] EXCEPT !.total = 0]
  OBVIOUS
<1>2. b \in Ring /\ bucket[b] \in Bucket /\ add[c] \in AddState
  BY <1>1, BucketHere DEF CounterInv
<1>3. /\ x \in AddState /\ x.at = "resetCounts" /\ x.todo = Types /\ x.slot = add[c].slot
      /\ y \in Bucket /\ y.slot = bucket[b].slot /\ y.total = 0
  BY <1>1, <1>2 DEF AddState, Bucket
<1>4. /\ add' = [add EXCEPT ![c] = x] /\ bucket' = [bucket EXCEPT ![b] = y]
      /\ UNCHANGED <<minute, excused>> /\ Clears(add[c])
  BY <1>1 DEF ResetTotal, Stands, Clears
<1>5. ~Counts(x)
  BY <1>3 DEF Counts
<1> QED BY <1>1, <1>3, <1>4, <1>5, ClearKeeps

LEMMA ResetCountKeeps ==
  ASSUME CounterInv, NEW c \in Adders, ResetCount(c)
  PROVE  CounterInv'
<1>1. PICK t \in add[c].todo :
        /\ bucket' = [bucket EXCEPT ![BucketOf(c)].counts[t] = 0]
        /\ add' = [add EXCEPT ![c].todo = @ \ {t},
                              ![c].at = IF add[c].todo = {t} THEN "total" ELSE @]
  BY DEF ResetCount
<1>2. PICK b, x, y :
        /\ b = BucketOf(c)
        /\ x = [add[c] EXCEPT !.todo = @ \ {t},
                              !.at = IF add[c].todo = {t} THEN "total" ELSE "resetCounts"]
        /\ y = [bucket[b] EXCEPT !.counts[t] = 0]
  OBVIOUS
<1>3. /\ b \in Ring /\ bucket[b] \in Bucket /\ add[c] \in AddState /\ t \in Types
      /\ add[c].at = "resetCounts"
  BY <1>1, <1>2, BucketHere DEF CounterInv, ResetCount, Stands, AddState
<1>4. /\ x \in AddState /\ x.todo = add[c].todo \ {t} /\ x.slot = add[c].slot
      /\ x.at = IF add[c].todo = {t} THEN "total" ELSE "resetCounts"
  BY <1>2, <1>3 DEF AddState
<1>5. /\ y \in Bucket /\ y.slot = bucket[b].slot /\ y.total = bucket[b].total
      /\ y.counts = [bucket[b].counts EXCEPT ![t] = 0]
  BY <1>2, <1>3 DEF Bucket
<1>6. /\ add' = [add EXCEPT ![c] = x] /\ bucket' = [bucket EXCEPT ![b] = y]
      /\ UNCHANGED <<minute, excused>> /\ Clears(add[c])
  BY <1>1, <1>2, <1>3 DEF ResetCount, Clears, CounterInv, CounterTypeOK
<1>7. ~Counts(x)
  BY <1>4 DEF Counts
<1>8. ASSUME Trusted(y.slot)
      PROVE  /\ y.total = 0
             /\ \A s \in IF x.at = "total" THEN Types ELSE Types \ x.todo : y.counts[s] = 0
  <2>1. bucket[b].total = 0 /\ \A s \in Types \ add[c].todo : bucket[b].counts[s] = 0
    BY <1>2, <1>3, <1>5, <1>8 DEF CounterInv, ClearingOK, ClearsNow
  <2>2. \A s \in Types \ (add[c].todo \ {t}) : y.counts[s] = 0
    BY <1>3, <1>5, <2>1 DEF Bucket
  <2> QED BY <1>4, <1>5, <2>1, <2>2
<1>9. x \in AddState /\ x.slot = add[c].slot /\ x.at \in {"resetCounts", "total"}
  BY <1>4
<1> QED BY <1>2, <1>5, <1>6, <1>7, <1>8, <1>9, ClearKeeps

OthersCounted(m) ==
  \A k : k # m => /\ Totalled(k)' = Totalled(k)
                  /\ \A t \in Types : Counted(k, t)' = Counted(k, t)

ShownBy(y, b, m) ==
  ~Clearing(b) /\ bucket[b].slot = m /\ Trusted(m) =>
    /\ y.total = Cardinality(Totalled(m)')
    /\ \A t \in Types : y.counts[t] = Cardinality(Counted(m, t)')

\* A call counts; where calls overlap, the minutes are not trusted any more.
LEMMA IncrementKeeps ==
  ASSUME CounterInv, NEW c \in Adders, NEW b, NEW m, NEW x \in AddState, NEW y \in Bucket,
         b = BucketOf(c), m = add[c].slot, add[c].at # "none", ~Clears(add[c]), ~Clears(x),
         add' = [add EXCEPT ![c] = x], x.slot = m, x.at \notin {"swap", "none"},
         bucket' = [bucket EXCEPT ![b] = y], y.slot = bucket[b].slot,
         minute' = minute, excused' = Overlaps(c),
         OthersCounted(m), ShownBy(y, b, m)
  PROVE  CounterInv'
<1>1. b \in Ring /\ bucket[b] \in Bucket /\ m \in 1 .. minute /\ m % Buckets = b
  BY BucketHere DEF CounterInv, SlotsOK, BucketOf
<1>2. /\ add' \in [Adders -> AddState] /\ add'[c] = x
      /\ \A d \in Adders : d # c => add'[d] = add[d]
      /\ \A d \in Adders : BucketOf(d)' = BucketOf(d)
  <2>1. /\ add' \in [Adders -> AddState] /\ add'[c] = x
        /\ \A d \in Adders : d # c => add'[d] = add[d]
        /\ \A d \in Adders : d # c => BucketOf(d)' = BucketOf(d)
        /\ BucketOf(c)' = x.slot % Buckets
    BY AddMoves DEF CounterInv
  <2>2. BucketOf(c)' = BucketOf(c)
    BY <1>1, <2>1
  <2> QED BY <2>1, <2>2
<1>3. /\ bucket' \in [Ring -> Bucket] /\ bucket'[b] = y
      /\ \A e \in Ring : e # b => bucket'[e] = bucket[e]
      /\ \A e \in Ring : bucket'[e].slot = bucket[e].slot
  BY <1>1 DEF CounterInv, CounterTypeOK
<1>4. CounterTypeOK'
  BY <1>2, <1>3 DEF CounterInv, CounterTypeOK
<1>5. SlotsOK'
  BY <1>1, <1>2, <1>3 DEF CounterInv, SlotsOK
<1>6. excused \subseteq excused' /\ \A k : Trusted(k)' => Trusted(k)
  BY DEF Trusted, Overlaps
<1>7. \A k : Trusted(k)' /\ k \in {m, bucket[b].slot} => ~Clearing(b) /\ bucket[b].slot = m
  BY DEF Trusted, Overlaps
<1>8. \A e \in Ring : e # b => bucket[e].slot # m
  BY <1>1 DEF CounterInv, SlotsOK
<1>9. \A d \in Adders, e \in Ring : ClearsNow(d, e)' <=> ClearsNow(d, e)
  BY <1>2 DEF ClearsNow, Clears
<1>10. \A e \in Ring : (Clearing(e)' <=> Clearing(e)) /\ \A d \in Adders : ClearsNow(d, e) => Clearing(e)
  BY <1>9 DEF Clearing, ClearsNow
<1>11. HomesOK'
  <2> SUFFICES ASSUME NEW a \in Adders, NEW k, k = add'[a].slot, Counts(add'[a]), Trusted(k)'
               PROVE  bucket'[BucketOf(a)'].slot = k
    BY DEF HomesOK, Counts
  <2>1. CASE a = c
    BY <1>1, <1>2, <1>3, <1>7, <2>1
  <2>2. CASE a # c
    <3>1. add'[a] = add[a] /\ BucketOf(a)' = BucketOf(a)
      BY <1>2, <2>2
    <3>2. bucket[BucketOf(a)].slot = k
      BY <1>6, <3>1 DEF CounterInv, HomesOK, Counts
    <3> QED BY <1>3, <3>1, <3>2, BucketHere DEF CounterInv
  <2> QED BY <2>1, <2>2
<1>12. ClearingOK'
  <2>1. ASSUME NEW a \in Adders, NEW d \in Adders, NEW e \in Ring,
               ClearsNow(a, e)', ClearsNow(d, e)', a # d
        PROVE  bucket'[e].slot \in excused'
    <3>1. bucket[e].slot \in excused
      BY <1>9, <2>1 DEF CounterInv, ClearingOK
    <3> QED BY <1>3, <1>6, <3>1
  <2>2. ASSUME NEW d \in Adders, NEW e \in Ring, NEW k, k = bucket'[e].slot,
               ClearsNow(d, e)', Trusted(k)'
        PROVE  /\ Totalled(k)' = {}
               /\ \A t \in Types : Counted(k, t)' = {}
               /\ add'[d].at = "resetCounts" =>
                    /\ bucket'[e].total = 0
                    /\ \A t \in Types \ add'[d].todo : bucket'[e].counts[t] = 0
    <3>1. k = bucket[e].slot /\ Trusted(k) /\ ClearsNow(d, e) /\ Clearing(e)
      BY <1>3, <1>6, <1>9, <1>10, <2>2
    <3>2. e # b
      BY <1>7, <2>2, <3>1
    <3>3. k # m /\ d # c /\ bucket'[e] = bucket[e]
      BY <1>3, <1>8, <3>1, <3>2 DEF ClearsNow
    <3>4. /\ Totalled(k) = {}
          /\ \A t \in Types : Counted(k, t) = {}
          /\ add[d].at = "resetCounts" =>
               /\ bucket[e].total = 0
               /\ \A t \in Types \ add[d].todo : bucket[e].counts[t] = 0
      BY <3>1 DEF CounterInv, ClearingOK
    <3> QED BY <1>2, <3>3, <3>4 DEF OthersCounted
  <2> QED BY <2>1, <2>2 DEF ClearingOK
<1>13. CountsOK'
  <2> SUFFICES ASSUME NEW e \in Ring, NEW k, k = bucket'[e].slot, ~Clearing(e)', Trusted(k)'
               PROVE  /\ bucket'[e].total = Cardinality(Totalled(k)')
                      /\ \A t \in Types : bucket'[e].counts[t] = Cardinality(Counted(k, t)')
    BY DEF CountsOK
  <2>1. k = bucket[e].slot /\ Trusted(k) /\ ~Clearing(e)
    BY <1>3, <1>6, <1>10
  <2>2. CASE e = b
    <3>1. k = m /\ bucket[b].slot = m
      BY <1>7, <2>1, <2>2
    <3> QED BY <1>3, <2>1, <2>2, <3>1 DEF ShownBy
  <2>3. CASE e # b
    <3>1. k # m /\ bucket'[e] = bucket[e]
      BY <1>3, <1>8, <2>1, <2>3
    <3> QED BY <2>1, <3>1 DEF CounterInv, CountsOK, OthersCounted
  <2> QED BY <2>2, <2>3
<1> QED BY <1>4, <1>5, <1>11, <1>12, <1>13 DEF CounterInv

LEMMA IncrementTotalKeeps ==
  ASSUME CounterInv, NEW c \in Adders, IncrementTotal(c)
  PROVE  CounterInv'
<1>1. PICK b, m, x, y : /\ b = BucketOf(c) /\ m = add[c].slot
                        /\ x = [add[c] EXCEPT !.at = "count"]
                        /\ y = [bucket[b] EXCEPT !.total = @ + 1]
  OBVIOUS
<1>a. b = BucketOf(c) /\ m = add[c].slot
  BY <1>1
<1>2. /\ b \in Ring /\ bucket[b] \in Bucket /\ add[c] \in AddState /\ add[c].at = "total"
  BY <1>1, BucketHere DEF CounterInv, IncrementTotal, Stands
<1>3. /\ x \in AddState /\ x.at = "count" /\ x.slot = m
      /\ y \in Bucket /\ y.slot = bucket[b].slot /\ y.total = bucket[b].total + 1
      /\ y.counts = bucket[b].counts
  BY <1>1, <1>2 DEF AddState, Bucket
<1>4. /\ add' = [add EXCEPT ![c] = x] /\ bucket' = [bucket EXCEPT ![b] = y]
      /\ minute' = minute /\ excused' = Overlaps(c)
  BY <1>1 DEF IncrementTotal
<1>5. add'[c] = x /\ \A d \in Adders : d # c => add'[d] = add[d]
  BY <1>3, <1>4, AddMoves DEF CounterInv
<1>6. \A k : k # m => Totalled(k)' = Totalled(k)
  <2> SUFFICES ASSUME NEW k, k # m PROVE Totalled(k)' = Totalled(k)
    OBVIOUS
  <2>1. \A d \in Adders : (add'[d].at \in {"count", "done"} /\ add'[d].slot = k)
                            <=> (add[d].at \in {"count", "done"} /\ add[d].slot = k)
    BY <1>a, <1>3, <1>5
  <2> QED BY <2>1 DEF Totalled
<1>7. \A k, t : Counted(k, t)' = Counted(k, t)
  <2> SUFFICES ASSUME NEW k, NEW t PROVE Counted(k, t)' = Counted(k, t)
    OBVIOUS
  <2>1. \A d \in Adders : (add'[d].at = "done" /\ add'[d].slot = k /\ add'[d].type = t)
                            <=> (add[d].at = "done" /\ add[d].slot = k /\ add[d].type = t)
    BY <1>2, <1>3, <1>5
  <2> QED BY <2>1 DEF Counted
<1>8. Totalled(m)' = Totalled(m) \cup {c} /\ c \notin Totalled(m)
  BY <1>2, <1>3, <1>5 DEF Totalled
<1>9. Cardinality(Totalled(m)') = Cardinality(Totalled(m)) + 1
  BY <1>8, CountedFinite, FS_AddElement
<1>10. ShownBy(y, b, m)
  BY <1>2, <1>3, <1>7, <1>9 DEF CounterInv, CountsOK, ShownBy
<1>11. add[c].at # "none" /\ ~Clears(add[c]) /\ ~Clears(x) /\ x.at \notin {"swap", "none"}
  BY <1>2, <1>3 DEF Clears
<1>12. OthersCounted(m)
  BY <1>6, <1>7 DEF OthersCounted
<1> QED BY <1>a, <1>3, <1>4, <1>10, <1>11, <1>12, IncrementKeeps

LEMMA IncrementCountKeeps ==
  ASSUME CounterInv, NEW c \in Adders, IncrementCount(c)
  PROVE  CounterInv'
<1>1. PICK b, m, ty, x, y : /\ b = BucketOf(c) /\ m = add[c].slot /\ ty = add[c].type
                            /\ x = [add[c] EXCEPT !.at = "done"]
                            /\ y = [bucket[b] EXCEPT !.counts[ty] = @ + 1]
  OBVIOUS
<1>a. b = BucketOf(c) /\ m = add[c].slot
  BY <1>1
<1>2. /\ b \in Ring /\ bucket[b] \in Bucket /\ add[c] \in AddState /\ add[c].at = "count"
  BY <1>1, BucketHere DEF CounterInv, IncrementCount, Stands
<1>3. /\ x \in AddState /\ x.at = "done" /\ x.slot = m /\ x.type = ty
      /\ y \in Bucket /\ y.slot = bucket[b].slot /\ y.total = bucket[b].total
      /\ y.counts = [bucket[b].counts EXCEPT ![ty] = @ + 1]
      /\ bucket[b].counts \in [Types -> Nat]
  BY <1>1, <1>2 DEF AddState, Bucket
<1>4. /\ add' = [add EXCEPT ![c] = x] /\ bucket' = [bucket EXCEPT ![b] = y]
      /\ minute' = minute /\ excused' = Overlaps(c)
  BY <1>1 DEF IncrementCount
<1>5. add'[c] = x /\ \A d \in Adders : d # c => add'[d] = add[d]
  BY <1>3, <1>4, AddMoves DEF CounterInv
<1>6. \A k : Totalled(k)' = Totalled(k)
  <2> SUFFICES ASSUME NEW k PROVE Totalled(k)' = Totalled(k)
    OBVIOUS
  <2>1. \A d \in Adders : (add'[d].at \in {"count", "done"} /\ add'[d].slot = k)
                            <=> (add[d].at \in {"count", "done"} /\ add[d].slot = k)
    BY <1>a, <1>2, <1>3, <1>5
  <2> QED BY <2>1 DEF Totalled
<1>7. \A k, t : k # m \/ t # ty => Counted(k, t)' = Counted(k, t)
  <2> SUFFICES ASSUME NEW k, NEW t, k # m \/ t # ty PROVE Counted(k, t)' = Counted(k, t)
    OBVIOUS
  <2>1. \A d \in Adders : (add'[d].at = "done" /\ add'[d].slot = k /\ add'[d].type = t)
                            <=> (add[d].at = "done" /\ add[d].slot = k /\ add[d].type = t)
    BY <1>2, <1>3, <1>5
  <2> QED BY <2>1 DEF Counted
<1>8. Counted(m, ty)' = Counted(m, ty) \cup {c} /\ c \notin Counted(m, ty)
  <2>1. \A d \in Adders : (add'[d].at = "done" /\ add'[d].slot = m /\ add'[d].type = ty)
                            <=> ((add[d].at = "done" /\ add[d].slot = m /\ add[d].type = ty) \/ d = c)
    BY <1>2, <1>3, <1>5
  <2>2. add[c].at # "done"
    BY <1>2
  <2> QED BY <2>1, <2>2 DEF Counted
<1>9. Cardinality(Counted(m, ty)') = Cardinality(Counted(m, ty)) + 1
  BY <1>8, CountedFinite, FS_AddElement
<1>10. ShownBy(y, b, m)
  <2> SUFFICES ASSUME ~Clearing(b), bucket[b].slot = m, Trusted(m)
               PROVE  /\ y.total = Cardinality(Totalled(m)')
                      /\ \A t \in Types : y.counts[t] = Cardinality(Counted(m, t)')
    BY DEF ShownBy
  <2>1. /\ bucket[b].total = Cardinality(Totalled(m))
        /\ \A t \in Types : bucket[b].counts[t] = Cardinality(Counted(m, t))
    BY <1>2 DEF CounterInv, CountsOK
  <2>2. ASSUME NEW t \in Types
        PROVE  y.counts[t] = Cardinality(Counted(m, t)')
    <3>1. CASE t = ty
      BY <1>3, <1>9, <2>1, <3>1
    <3>2. CASE t # ty
      BY <1>3, <1>7, <2>1, <3>2
    <3> QED BY <3>1, <3>2
  <2> QED BY <1>3, <1>6, <2>1, <2>2
<1>11. add[c].at # "none" /\ ~Clears(add[c]) /\ ~Clears(x) /\ x.at \notin {"swap", "none"}
  BY <1>2, <1>3 DEF Clears
<1>12. OthersCounted(m)
  BY <1>6, <1>7 DEF OthersCounted
<1> QED BY <1>a, <1>3, <1>4, <1>10, <1>11, <1>12, IncrementKeeps

LEMMA CounterStepKeeps == CounterInv /\ CounterStep => CounterInv'
BY MinuteKeeps, AddKeeps, LoadSlotKeeps, SwapKeeps, ResetTotalKeeps, ResetCountKeeps,
   IncrementTotalKeeps, IncrementCountKeeps DEF CounterStep

LEMMA CounterStutters == CounterInv /\ UNCHANGED counterVars => CounterInv'
<1> SUFFICES ASSUME CounterInv, UNCHANGED counterVars PROVE CounterInv'
  OBVIOUS
<1>1. minute' = minute /\ bucket' = bucket /\ add' = add /\ excused' = excused
  BY DEF counterVars
<1> QED BY <1>1 DEF CounterInv, CounterTypeOK, SlotsOK, HomesOK, ClearingOK, CountsOK, ClearsNow,
                    Clearing, BucketOf, Trusted, Totalled, Counted

\* Sums by members, as the fold of a snapshot takes them.
FoldOver(g, v, S) ==
  g = [s \in SUBSET S |->
         IF s = {} THEN 0
         ELSE LET x == CHOOSE x \in s : TRUE IN v[x] + g[s \ {x}]]

Joined(D, s) == UNION {D[b] : b \in s}

\* Sets that are apart from one another, counted.
Apart(D, v, S) ==
  \A b \in S : /\ IsFiniteSet(D[b]) /\ v[b] = Cardinality(D[b])
               /\ \A c \in S \ {b} : D[b] \cap D[c] = {}

Adds(D, v, S) ==
  \A s \in SUBSET S : \A x \in s :
    Cardinality(Joined(D, s)) = v[x] + Cardinality(Joined(D, s \ {x}))

LEMMA JoinedLess ==
  ASSUME NEW S, NEW X, IsFiniteSet(X), NEW D, NEW v, Apart(D, v, S), Joined(D, S) \subseteq X
  PROVE  Adds(D, v, S)
<1> SUFFICES ASSUME NEW s \in SUBSET S, NEW x \in s
             PROVE  Cardinality(Joined(D, s)) = v[x] + Cardinality(Joined(D, s \ {x}))
  BY DEF Adds
<1> DEFINE rest == Joined(D, s \ {x})
<1>1. /\ Joined(D, s) = D[x] \cup rest /\ Joined(D, s) \subseteq X /\ rest \subseteq X
      /\ D[x] \cap rest = {}
  BY DEF Joined, Apart
<1>2. IsFiniteSet(D[x]) /\ v[x] = Cardinality(D[x])
  BY DEF Apart
<1>3. /\ IsFiniteSet(rest) /\ Cardinality(rest) \in Nat
      /\ IsFiniteSet(Joined(D, s)) /\ Cardinality(Joined(D, s)) \in Nat
  BY <1>1, FS_Subset, FS_CardinalityType
<1> HIDE DEF rest
<1>4. Cardinality(D[x] \cup rest) = Cardinality(D[x]) + Cardinality(rest) - Cardinality(D[x] \cap rest)
  BY <1>2, <1>3, FS_Union
<1>5. Cardinality(D[x] \cap rest) = 0
  BY <1>1, FS_EmptySet
<1>6. Cardinality(D[x]) \in Nat
  BY <1>2, FS_CardinalityType
<1>7. Cardinality(Joined(D, s)) = v[x] + Cardinality(rest)
  BY <1>1, <1>2, <1>3, <1>4, <1>5, <1>6
<1> QED BY <1>7 DEF rest

LEMMA FoldJoins ==
  ASSUME NEW S, NEW X, IsFiniteSet(X), NEW D, NEW v, Apart(D, v, S), Joined(D, S) \subseteq X
  PROVE  \E g : FoldOver(g, v, S)
<1> DEFINE g == [s \in SUBSET S |-> Cardinality(Joined(D, s))]
           f == [s \in SUBSET S |->
                  IF s = {} THEN 0
                  ELSE LET x == CHOOSE x \in s : TRUE IN v[x] + g[s \ {x}]]
<1>0. Adds(D, v, S)
  BY JoinedLess
<1>1. ASSUME NEW s \in SUBSET S
      PROVE  g[s] = f[s]
  <2>1. CASE s = {}
    <3>1. Joined(D, s) = {}
      BY <2>1 DEF Joined
    <3> QED BY <2>1, <3>1, FS_EmptySet
  <2>2. CASE s # {}
    <3> DEFINE x == CHOOSE x \in s : TRUE
    <3>1. x \in s
      BY <2>2
    <3>2. f[s] = v[x] + g[s \ {x}]
      BY <2>2
    <3>3. s \ {x} \in SUBSET S
      OBVIOUS
    <3> HIDE DEF x, f
    <3>4. Cardinality(Joined(D, s)) = v[x] + Cardinality(Joined(D, s \ {x}))
      BY <1>0, <3>1 DEF Adds
    <3> QED BY <3>2, <3>3, <3>4
  <2> QED BY <2>1, <2>2
<1>2. g = f
  BY <1>1
<1> QED BY <1>2 DEF FoldOver

LEMMA FoldCounts ==
  ASSUME NEW S, NEW X, IsFiniteSet(S), IsFiniteSet(X), NEW D, NEW v,
         Apart(D, v, S), Joined(D, S) \subseteq X,
         NEW g, FoldOver(g, v, S)
  PROVE  g[S] = Cardinality(Joined(D, S))
<1> DEFINE Bad == {s \in SUBSET S : g[s] # Cardinality(Joined(D, s))}
<1>0. Adds(D, v, S)
  BY JoinedLess
<1>1. SUFFICES ASSUME Bad # {} PROVE FALSE
  OBVIOUS
<1>2. \A s \in SUBSET S : s \in Bad <=> g[s] # Cardinality(Joined(D, s))
  OBVIOUS
<1>3. Bad \subseteq FiniteSubsetsOf(S)
  BY FS_Subset DEF FiniteSubsetsOf
<1> HIDE DEF Bad
<1>4. PICK s \in Bad : \A t \in Bad : ~ (<<t, s>> \in StrictSubsetOrdering(S))
  BY <1>1, <1>3, FS_StrictSubsetOrderingWellFounded, WFMin, Zenon
<1>5. s \in SUBSET S
  BY <1>3 DEF FiniteSubsetsOf
<1>6. CASE s = {}
  <2>1. g[s] = 0
    BY <1>6 DEF FoldOver
  <2>2. Joined(D, s) = {}
    BY <1>6 DEF Joined
  <2> QED BY <1>2, <1>4, <1>5, <2>1, <2>2, FS_EmptySet
<1>7. CASE s # {}
  <2> DEFINE x == CHOOSE x \in s : TRUE
  <2>1. x \in s
    BY <1>7
  <2>2. g[s] = v[x] + g[s \ {x}]
    BY <1>5, <1>7 DEF FoldOver
  <2> HIDE DEF x
  <2>3. s \ {x} \in SUBSET S /\ s \ {x} \subseteq s /\ s \ {x} # s
    BY <1>5, <2>1
  <2>4. <<s \ {x}, s>> \in StrictSubsetOrdering(S)
    BY <1>5, <2>3 DEF StrictSubsetOrdering
  <2>5. g[s \ {x}] = Cardinality(Joined(D, s \ {x}))
    BY <1>2, <1>4, <2>3, <2>4
  <2>6. Cardinality(Joined(D, s)) = v[x] + Cardinality(Joined(D, s \ {x}))
    BY <1>0, <1>5, <2>1 DEF Adds
  <2> QED BY <1>2, <1>4, <1>5, <2>2, <2>5, <2>6
<1> QED BY <1>6, <1>7

\* What a snapshot sums up is what its buckets have counted together.
LEMMA TotalsSum ==
  ASSUME NEW S, NEW X, IsFiniteSet(S), IsFiniteSet(X), NEW D,
         Apart(D, [b \in S |-> bucket[b].total], S), Joined(D, S) \subseteq X
  PROVE  SumOver(S, LAMBDA b : bucket[b].total) = Cardinality(Joined(D, S))
<1> DEFINE v == [b \in S |-> bucket[b].total]
           P(iter) == iter = [s \in SUBSET S |-> IF s = {} THEN 0
                        ELSE LET x == CHOOSE x \in s : TRUE IN bucket[x].total + iter[s \ {x}]]
<1>1. \A g : FoldOver(g, v, S) <=> P(g)
  BY DEF FoldOver
<1>2. SumOver(S, LAMBDA b : bucket[b].total) = (CHOOSE iter : P(iter))[S]
  BY DEF SumOver, MapThenFoldSet
<1> HIDE DEF P, v
<1>3. PICK g : P(g)
  BY <1>1, FoldJoins DEF v
<1>4. P(CHOOSE iter : P(iter))
  BY <1>3
<1> QED BY <1>1, <1>2, <1>4, FoldCounts DEF v

SumOfType(S, t) == SumOver(S, LAMBDA b : bucket[b].counts[t])

LEMMA CountsSum ==
  ASSUME NEW S, NEW X, IsFiniteSet(S), IsFiniteSet(X), NEW D, NEW t,
         Apart(D, [b \in S |-> bucket[b].counts[t]], S), Joined(D, S) \subseteq X
  PROVE  SumOfType(S, t) = Cardinality(Joined(D, S))
<1> DEFINE v == [b \in S |-> bucket[b].counts[t]]
           P(iter) == iter = [s \in SUBSET S |-> IF s = {} THEN 0
                        ELSE LET x == CHOOSE x \in s : TRUE IN bucket[x].counts[t] + iter[s \ {x}]]
<1>1. \A g : FoldOver(g, v, S) <=> P(g)
  BY DEF FoldOver
<1>2. SumOfType(S, t) = (CHOOSE iter : P(iter))[S]
  BY DEF SumOfType, SumOver, MapThenFoldSet
<1> HIDE DEF P, v
<1>3. PICK g : P(g)
  BY <1>1, FoldJoins DEF v
<1>4. P(CHOOSE iter : P(iter))
  BY <1>3
<1> QED BY <1>1, <1>2, <1>4, FoldCounts DEF v

\* What the buckets of a window stand for.
Within(window) == {m \in 1 .. minute : minute - m < window}
Finished(Shown) == {a \in Adders : add[a].at = "done" /\ add[a].slot \in Shown}
FinishedOf(Shown, t) == {a \in Finished(Shown) : add[a].type = t}

Quiet == \A a \in Adders : add[a].at \in {"none", "done"}

\* A bucket of the window has counted its minute.
LEMMA WindowCounts ==
  ASSUME CounterInv, Quiet, NEW window \in 1 .. Buckets, Within(window) \cap excused = {},
         NEW b \in InWindow(window)
  PROVE  /\ b \in Ring /\ bucket[b].slot \in Within(window) /\ bucket[b].slot % Buckets = b
         /\ bucket[b].total = Cardinality(Totalled(bucket[b].slot))
         /\ \A t \in Types : bucket[b].counts[t] = Cardinality(Counted(bucket[b].slot, t))
<1>1. /\ b \in Ring /\ bucket[b].slot # 0 /\ bucket[b].slot <= minute
      /\ minute - bucket[b].slot < window
  BY DEF InWindow
<1>2. /\ bucket[b].slot \in Nat /\ minute \in Nat /\ bucket[b].slot % Buckets = b
  BY <1>1 DEF CounterInv, CounterTypeOK, SlotsOK, Bucket
<1>3. bucket[b].slot \in Within(window)
  BY <1>1, <1>2 DEF Within
<1>4. Trusted(bucket[b].slot)
  BY <1>1, <1>2, <1>3, CounterAssumption DEF Trusted
<1>5. ~Clearing(b)
  BY DEF Quiet, Clearing
<1> QED BY <1>1, <1>2, <1>3, <1>4, <1>5 DEF CounterInv, CountsOK

\* Who has finished in the window finds its minute there.
LEMMA FinishedThere ==
  ASSUME CounterInv, Quiet, NEW window \in 1 .. Buckets, Within(window) \cap excused = {},
         NEW a \in Finished(Within(window))
  PROVE  BucketOf(a) \in InWindow(window) /\ bucket[BucketOf(a)].slot = add[a].slot
<1> DEFINE b == BucketOf(a)
<1>1. /\ a \in Adders /\ add[a].at = "done" /\ add[a].slot \in Within(window)
  BY DEF Finished
<1>2. /\ b \in Ring /\ bucket[b] \in Bucket /\ add[a].slot \in Nat /\ minute \in Nat
  BY <1>1, BucketHere DEF CounterInv, CounterTypeOK
<1>3. Trusted(add[a].slot)
  BY <1>1, <1>2, CounterAssumption DEF Trusted, Within
<1>4. bucket[b].slot = add[a].slot
  BY <1>1, <1>3 DEF CounterInv, HomesOK
<1>5. ~Clearing(b)
  BY DEF Quiet, Clearing
<1>6. bucket[b].total = Cardinality(Totalled(add[a].slot))
  BY <1>2, <1>3, <1>4, <1>5 DEF CounterInv, CountsOK
<1>7. a \in Totalled(add[a].slot)
  BY <1>1 DEF Totalled
<1>8. Cardinality(Totalled(add[a].slot)) # 0
  BY <1>7, CountedFinite, FS_EmptySet
<1> HIDE DEF b
<1>9. add[a].slot # 0 /\ add[a].slot <= minute /\ minute - add[a].slot < window
  BY <1>1, <1>2 DEF Within
<1>10. b \in InWindow(window)
  BY <1>2, <1>4, <1>6, <1>8, <1>9 DEF InWindow
<1> QED BY <1>4, <1>10 DEF b

LEMMA RingFinite == IsFiniteSet(Ring) /\ IsFiniteSet(Adders)
BY CounterAssumption, FS_Interval DEF Ring, Adders

LEMMA SnapshotTotal ==
  ASSUME CounterInv, Quiet, NEW window \in 1 .. Buckets, Within(window) \cap excused = {}
  PROVE  SumOver(InWindow(window), LAMBDA b : bucket[b].total)
           = Cardinality(Finished(Within(window)))
<1> DEFINE S == InWindow(window)
           D == [b \in S |-> Totalled(bucket[b].slot)]
           v == [b \in S |-> bucket[b].total]
<1>1. IsFiniteSet(S)
  BY RingFinite, FS_Subset DEF InWindow
<1>2. \A b \in S : /\ bucket[b].slot \in Within(window) /\ bucket[b].slot % Buckets = b
                   /\ D[b] = Totalled(bucket[b].slot) /\ v[b] = Cardinality(D[b])
  BY WindowCounts
<1>3. \A a \in Finished(Within(window)) : /\ BucketOf(a) \in S
                                          /\ bucket[BucketOf(a)].slot = add[a].slot
  BY FinishedThere
<1> HIDE DEF S, D, v
<1>4. ASSUME NEW b \in S, NEW c \in S \ {b}
      PROVE  D[b] \cap D[c] = {}
  <2>1. bucket[b].slot # bucket[c].slot
    BY <1>2
  <2> QED BY <1>2, <2>1 DEF Totalled
<1>5. Apart(D, v, S)
  <2>1. \A b \in S : IsFiniteSet(D[b])
    BY <1>2, CountedFinite
  <2> QED BY <1>2, <1>4, <2>1 DEF Apart
<1>6. Joined(D, S) \subseteq Finished(Within(window))
  BY <1>2 DEF Joined, Totalled, Finished, Quiet
<1>7. Finished(Within(window)) \subseteq Joined(D, S)
  <2> SUFFICES ASSUME NEW a \in Finished(Within(window)) PROVE a \in Joined(D, S)
    OBVIOUS
  <2>1. a \in D[BucketOf(a)] /\ BucketOf(a) \in S
    BY <1>2, <1>3 DEF Totalled, Finished
  <2> QED BY <2>1 DEF Joined
<1>8. Joined(D, S) = Finished(Within(window)) /\ Finished(Within(window)) \subseteq Adders
  BY <1>6, <1>7 DEF Finished
<1>9. SumOver(S, LAMBDA b : bucket[b].total) = Cardinality(Joined(D, S))
  BY <1>1, <1>5, <1>8, RingFinite, TotalsSum DEF v
<1> QED BY <1>8, <1>9 DEF S

LEMMA SnapshotCount ==
  ASSUME CounterInv, Quiet, NEW window \in 1 .. Buckets, Within(window) \cap excused = {},
         NEW t \in Types
  PROVE  SumOfType(InWindow(window), t) = Cardinality(FinishedOf(Within(window), t))
<1> DEFINE S == InWindow(window)
           D == [b \in S |-> Counted(bucket[b].slot, t)]
           v == [b \in S |-> bucket[b].counts[t]]
<1>1. IsFiniteSet(S)
  BY RingFinite, FS_Subset DEF InWindow
<1>2. \A b \in S : /\ bucket[b].slot \in Within(window) /\ bucket[b].slot % Buckets = b
                   /\ D[b] = Counted(bucket[b].slot, t) /\ v[b] = Cardinality(D[b])
  BY WindowCounts
<1>3. \A a \in Finished(Within(window)) : /\ BucketOf(a) \in S
                                          /\ bucket[BucketOf(a)].slot = add[a].slot
  BY FinishedThere
<1> HIDE DEF S, D, v
<1>4. ASSUME NEW b \in S, NEW c \in S \ {b}
      PROVE  D[b] \cap D[c] = {}
  <2>1. bucket[b].slot # bucket[c].slot
    BY <1>2
  <2> QED BY <1>2, <2>1 DEF Counted
<1>5. Apart(D, v, S)
  <2>1. \A b \in S : IsFiniteSet(D[b])
    BY <1>2, CountedFinite
  <2> QED BY <1>2, <1>4, <2>1 DEF Apart
<1>6. Joined(D, S) \subseteq FinishedOf(Within(window), t)
  BY <1>2 DEF Joined, Counted, Finished, FinishedOf
<1>7. FinishedOf(Within(window), t) \subseteq Joined(D, S)
  <2> SUFFICES ASSUME NEW a \in FinishedOf(Within(window), t) PROVE a \in Joined(D, S)
    OBVIOUS
  <2>1. a \in D[BucketOf(a)] /\ BucketOf(a) \in S
    BY <1>2, <1>3 DEF Counted, Finished, FinishedOf
  <2> QED BY <2>1 DEF Joined
<1>8. /\ Joined(D, S) = FinishedOf(Within(window), t)
      /\ FinishedOf(Within(window), t) \subseteq Adders
  BY <1>6, <1>7 DEF Finished, FinishedOf
<1>9. SumOfType(S, t) = Cardinality(Joined(D, S))
  BY <1>1, <1>5, <1>8, RingFinite, CountsSum DEF v
<1> QED BY <1>8, <1>9 DEF S

LEMMA SnapshotSums == CounterInv => SnapshotExact
<1> SUFFICES ASSUME CounterInv, Quiet, NEW window \in 1 .. Buckets,
                    Within(window) \cap excused = {}
             PROVE  LET Of(Chosen(_)) == Cardinality({a \in Adders :
                          /\ add[a].at = "done" /\ add[a].slot \in Within(window) /\ Chosen(a)})
                    IN  Snapshot(window) = [total  |-> Of(LAMBDA a : TRUE),
                                            byType |-> [t \in Types |-> Of(LAMBDA a : add[a].type = t)]]
  BY DEF SnapshotExact, Quiet, Within
<1>1. {a \in Adders : add[a].at = "done" /\ add[a].slot \in Within(window) /\ TRUE}
        = Finished(Within(window))
  BY DEF Finished
<1>2. ASSUME NEW t \in Types
      PROVE  {a \in Adders : add[a].at = "done" /\ add[a].slot \in Within(window) /\ add[a].type = t}
               = FinishedOf(Within(window), t)
  BY DEF Finished, FinishedOf
<1>3. SumOver(InWindow(window), LAMBDA b : bucket[b].total)
        = Cardinality({a \in Adders : add[a].at = "done" /\ add[a].slot \in Within(window) /\ TRUE})
  BY <1>1, SnapshotTotal
<1>4. \A t \in Types :
        SumOfType(InWindow(window), t)
          = Cardinality({a \in Adders :
              add[a].at = "done" /\ add[a].slot \in Within(window) /\ add[a].type = t})
  BY <1>2, SnapshotCount
<1> QED BY <1>3, <1>4 DEF Snapshot, SumOfType

\* The invariant of the counter, however calls, minutes and clearings interleave.
THEOREM CounterInvariant == FirewallSpec => []CounterInv
<1>1. FirewallInit => CounterInv
  BY CounterStarts DEF FirewallInit
<1>2. CounterInv /\ [FirewallNext]_firewallVars => CounterInv'
  BY CounterStepKeeps, CounterStutters DEF FirewallNext, ShieldStep, firewallVars
<1> QED BY <1>1, <1>2, PTL DEF FirewallSpec

\* Once no call is under way a snapshot shows every denial of its window exactly
\* once, in sum and by category, whatever the ring held before, unless calls
\* overlapped a clearing in one of its minutes (Add, Snapshot).
THEOREM SnapshotExactHolds == FirewallSpec => []SnapshotExact
<1>1. CounterInv => SnapshotExact
  BY SnapshotSums
<1> QED BY <1>1, CounterInvariant, PTL
=============================================================================
