--------------------------- MODULE Process_proofs ---------------------------
(***************************************************************************)
(* What the components of the process promise about records and messages,  *)
(* for every size of their buffers, any number of requests, messages,      *)
(* clients and faults, through switching, shutdown and crashes.            *)
(***************************************************************************)
EXTENDS Process, WellFoundedInduction, NaturalsInduction, FiniteSetTheorems, TLAPS

StorageOK ==
  /\ db \in {"open", "closed"}
  /\ Faults \subseteq DOMAIN left
  /\ left \in [DOMAIN left -> Nat]
  /\ spent \in [DOMAIN left -> Nat]

(***************************************************************************)
(* What was spent only grows, and by the spending of its own kind.         *)
(***************************************************************************)
LEMMA SpendGrows ==
  ASSUME StorageOK, NEW w, Spend(w), db' \in {"open", "closed"}
  PROVE  /\ StorageOK'
         /\ \A k \in Faults : spent'[k] = IF k = w THEN spent[k] + 1 ELSE spent[k]
<1>1. DOMAIN left' = DOMAIN left
  BY DEF Spend
<1>2. left' \in [DOMAIN left -> Nat] /\ spent' \in [DOMAIN left -> Nat]
  <2>1. /\ left' = [left EXCEPT ![w] = @ - 1] /\ left[w] > 0
        /\ spent' = [spent EXCEPT ![w] = @ + 1]
        /\ left \in [DOMAIN left -> Nat] /\ spent \in [DOMAIN left -> Nat]
    BY DEF Spend, StorageOK
  <2>2. w \in DOMAIN left => left[w] - 1 \in Nat /\ spent[w] + 1 \in Nat
    BY <2>1
  <2> QED BY <2>1, <2>2
<1>3. ASSUME NEW k \in DOMAIN left
      PROVE  spent'[k] = IF k = w THEN spent[k] + 1 ELSE spent[k]
  <2>1. spent' = [spent EXCEPT ![w] = @ + 1] /\ DOMAIN spent = DOMAIN left
    BY DEF Spend, StorageOK
  <2>2. CASE k = w
    BY <2>1, <2>2
  <2>3. CASE k # w
    BY <2>1, <2>3
  <2> QED BY <2>2, <2>3
<1>4. StorageOK'
  BY <1>1, <1>2 DEF StorageOK
<1>5. Faults \subseteq DOMAIN left
  BY DEF StorageOK
<1> QED BY <1>3, <1>4, <1>5

-----------------------------------------------------------------------------
(***************************************************************************)
(* Which steps touch what.                                                 *)
(***************************************************************************)
Kinds == {"requests", "obs", "mq", "registry", "messages", "beats", "stops", "reloads", "restarts"} \cup Faults

Spending == Free \/ \E w \in Kinds : Spend(w)

LEMMA StorageTouched ==
  ASSUME Next
  PROVE  Spending /\ (db' = db \/ CloseDb \/ Restart)
<1> USE DEF Spending, Kinds, Faults
<1>1. ASSUME NEW r \in Requests, Accept(r) \/ RequestStep(r)
      PROVE  Spending /\ db' = db
  BY <1>1 DEF Accept, RequestStep, Deny, Forward, LoadSink, OnDone, Record, Write,
     storageVars, Free
<1>2. CASE Administrate
  BY <1>2 DEF Administrate, EnableObs, DisableObs, ObsDrained, Drained, BeginStop, BeginStart,
     ObsSwitched, EnableMq, DisableMq, EnableRegistry, DisableRegistry, Insert, StopObs, StartObs,
     Succeeding, Failing, storageVars, Free
<1>r. ASSUME NEW r \in Reloads, Reload(r)
      PROVE  Spending /\ db' = db
  BY <1>r DEF Reload, HotReload, ReloadObs, ReloadMq, ReloadRegistry, StartObs,
     Succeeding, Failing, storageVars, Free
<1>3. CASE Signal \/ Shutdown \/ Restart
  BY <1>3 DEF Signal, Shutdown, EngineDown, Drained, StopMiddlewares,
     StopComponent, ManagerDown, StopEvents, StopRecorder, StopObs, CloseDb, Restart, storageVars, Free
<1>4. CASE Log
  BY <1>4 DEF Log, Look, FlushTimeout, Run, WritePending, FlushAll, WriteBatch, Acknowledge, RunEnds,
     Succeeding, Failing, storageVars, Free
<1>5. CASE Events
  BY <1>5 DEF Events, FlushLoop, ReceiveEvent, FlushTick, StopSeen, Drain, WriteEvents,
     Succeeding, Failing, storageVars, Free
<1>6. CASE Courier
  BY <1>6 DEF Courier, PollOnce, Poll, Deliver, MarkDone, MarkFailed, Backoff, CourierEnds,
     Succeeding, Failing, storageVars, Free
<1>7. CASE Services
  BY <1>7 DEF Services, HandleBeat, Lapse, ScanOnce, RegistryEnds, Publish, TakeList, Notify,
     storageVars, Free
<1> QED BY <1>1, <1>2, <1>r, <1>3, <1>4, <1>5, <1>6, <1>7 DEF Next

LEMMA EventsTouched ==
  ASSUME Next
  PROVE  \/ UNCHANGED eventVars
         \/ \E r \in Requests : Deny(r)
         \/ Events \/ StopEvents \/ Restart
BY DEF Next, RequestStep, Accept, Forward, LoadSink, OnDone, Administrate, EnableObs, DisableObs,
   ObsDrained, BeginStop, BeginStart, ObsSwitched, EnableMq, DisableMq, EnableRegistry,
   DisableRegistry, Insert, Reload, HotReload, ReloadObs, ReloadMq, ReloadRegistry, Started,
   Signal, Shutdown, EngineDown, StopMiddlewares, StopComponent, ManagerDown,
   CloseDb, Unchanged, Log, Courier, Services

LEMMA OutboxTouched ==
  ASSUME Next
  PROVE  \/ UNCHANGED mqVars
         \/ EnableMq \/ DisableMq \/ Insert \/ StopComponent \/ Courier \/ Restart
         \/ \E h \in Reloads : ReloadMq(h)
BY DEF Next, RequestStep, Accept, Deny, Forward, LoadSink, OnDone, Administrate, EnableObs,
   DisableObs, ObsDrained, BeginStop, BeginStart, ObsSwitched, EnableRegistry,
   DisableRegistry, Reload, HotReload, ReloadObs, ReloadRegistry, Signal, Shutdown, EngineDown,
   StopMiddlewares, ManagerDown, StopEvents, CloseDb, Unchanged, Log, Events, Services

LEMMA RegistryTouched ==
  ASSUME Next
  PROVE  \/ UNCHANGED registryVars
         \/ EnableRegistry \/ DisableRegistry \/ StopComponent \/ Services \/ Restart
         \/ \E h \in Reloads : ReloadRegistry(h)
BY DEF Next, RequestStep, Accept, Deny, Forward, LoadSink, OnDone, Administrate, EnableObs,
   DisableObs, ObsDrained, BeginStop, BeginStart, ObsSwitched, EnableMq, DisableMq, Insert,
   Reload, HotReload, ReloadObs, ReloadMq, Signal, Shutdown, EngineDown, StopMiddlewares,
   ManagerDown, StopEvents, CloseDb, Unchanged, Log, Events, Courier

-----------------------------------------------------------------------------
(***************************************************************************)
(* What has been spent only grows, and the database is closed at the end.  *)
(***************************************************************************)
Phases == {"serving", "engine", "obs", "components", "recorder", "close", "ended"}

MainOK == main \in Phases /\ (db = "closed" => main = "ended")

LEMMA StorageInv ==
  ASSUME StorageOK, [Next]_vars
  PROVE  StorageOK' /\ \A k \in Faults : spent[k] \in Nat /\ spent'[k] >= spent[k]
<1>1. \A k \in Faults : spent[k] \in Nat
  BY DEF StorageOK
<1>2. CASE UNCHANGED vars
  BY <1>1, <1>2 DEF vars, storageVars, StorageOK
<1>3. CASE Next
  <2>1. Spending /\ db' \in {"open", "closed"}
    BY <1>3, StorageTouched DEF CloseDb, Restart, StorageOK
  <2>2. CASE Free
    BY <1>1, <2>1, <2>2 DEF Free, StorageOK
  <2>3. ASSUME NEW w \in Kinds, Spend(w)
        PROVE  StorageOK' /\ \A k \in Faults : spent'[k] >= spent[k]
    BY <1>1, <2>1, <2>3, SpendGrows
  <2> QED BY <1>1, <2>1, <2>2, <2>3 DEF Spending
<1> QED BY <1>2, <1>3

LEMMA MainTouched ==
  ASSUME Next
  PROVE  main' = main \/ Signal \/ Shutdown \/ Restart
BY DEF Next, RequestStep, Accept, Deny, Forward, LoadSink, OnDone, Administrate, EnableObs,
   DisableObs, ObsDrained, BeginStop, BeginStart, ObsSwitched, EnableMq, DisableMq,
   EnableRegistry, DisableRegistry, Insert, Reload, HotReload, ReloadObs, ReloadMq,
   ReloadRegistry, Started, Log, Events, Courier, Services, Returned, processVars

LEMMA MainInv ==
  ASSUME MainOK, [Next]_vars
  PROVE  MainOK'
<1>1. CASE UNCHANGED vars
  BY <1>1 DEF vars, storageVars, processVars, MainOK
<1>2. CASE Next
  <2>1. db' = db \/ CloseDb \/ Restart
    BY <1>2, StorageTouched
  <2> QED
    BY <1>2, <2>1, MainTouched DEF MainOK, Phases, Signal, Shutdown, EngineDown, StopMiddlewares,
       StopComponent, ManagerDown, StopEvents, CloseDb, Restart, processVars
<1> QED BY <1>1, <1>2

-----------------------------------------------------------------------------
\* The courier is asleep when Shutdown has stopped it, or a reload woke it.
DownInv ==
  /\ revived \in BOOLEAN /\ cut \in Nat /\ closing \subseteq {"mq", "registry"}
  /\ main # "components" => closing = {}
  /\ main \in {"components", "recorder", "close", "ended"} =>
       mq = "off" \/ "mq" \in closing \/ revived

LEMMA ClosingTouched ==
  ASSUME Next
  PROVE  \/ UNCHANGED <<closing, revived>> /\ (UNCHANGED <<main, mq>>
              \/ Signal \/ EngineDown \/ ManagerDown \/ StopEvents \/ CloseDb
              \/ EnableMq \/ DisableMq \/ StopComponent)
         \/ StopMiddlewares \/ Restart
         \/ \E h \in Reloads : ReloadMq(h)
         \/ CourierEnds /\ Returned("mq")
         \/ UNCHANGED mq /\ Returned("registry")
<1>1. CASE Courier
  BY <1>1 DEF Courier, PollOnce, Poll, Deliver, MarkDone, MarkFailed, Backoff, processVars
<1>2. CASE ~ Courier
  BY <1>2 DEF Next, RequestStep, Accept, Deny, Forward, LoadSink, OnDone, Administrate, EnableObs,
     DisableObs, ObsDrained, BeginStop, BeginStart, ObsSwitched, EnableMq, DisableMq,
     EnableRegistry, DisableRegistry, Insert, InsertMessage, Reload, HotReload, ReloadObs,
     ReloadRegistry, Started, Signal, Shutdown, EngineDown, StopComponent, ManagerDown,
     StopEvents, CloseDb, Unchanged, Log, Events, Services, processVars, switchVars, mqVars
<1> QED BY <1>1, <1>2

LEMMA CutTouched ==
  ASSUME Next
  PROVE  UNCHANGED cut \/ Restart
BY DEF Next, RequestStep, Accept, Deny, Forward, LoadSink, OnDone, Administrate, EnableObs,
   DisableObs, ObsDrained, BeginStop, BeginStart, ObsSwitched, EnableMq, DisableMq,
   EnableRegistry, DisableRegistry, Insert, Reload, HotReload, ReloadObs, ReloadMq,
   ReloadRegistry, Started, Signal, Shutdown, EngineDown, StopMiddlewares, StopComponent,
   ManagerDown, StopEvents, CloseDb, Unchanged, Log, Events, Courier, Services, Returned,
   processVars, switchVars

(***************************************************************************)
(* Shutdown stops the courier, after which only a reload wakes it.         *)
(***************************************************************************)
LEMMA DownStep ==
  ASSUME MainOK, DownInv, mq \in {"off", "on", "stopping"}, Next
  PROVE  DownInv'
<1>0. /\ DownInv /\ main \in Phases /\ mq \in {"off", "on", "stopping"}
      /\ Restart \/ cut' = cut
  BY CutTouched DEF MainOK
<1>1. CASE Restart
  <2>1. cut' \in Nat
    <3>1. cut' = cut \/ cut' = cut + 1
      BY <1>1 DEF Restart
    <3> QED BY <1>0, <3>1 DEF DownInv
  <2> QED BY <1>1, <2>1 DEF Restart, DownInv
<1>2. CASE StopMiddlewares /\ ~ Restart
  BY <1>0, <1>2 DEF StopMiddlewares, On, DownInv, mqVars
<1>3. ASSUME NEW h \in Reloads, ReloadMq(h), ~ Restart
      PROVE  DownInv'
  <2>1. UNCHANGED <<main, closing, cut>> /\ main # "ended"
    BY <1>0, <1>3 DEF ReloadMq, Started
  <2>2. CASE UNCHANGED <<mq, revived>>
    BY <1>0, <2>1, <2>2 DEF DownInv
  <2>3. CASE /\ mq' = "on"
             /\ revived' = (revived \/ main \in {"components", "recorder", "close"})
    <3>1. revived' \in BOOLEAN
      BY <1>0, <2>3 DEF DownInv
    <3>2. main \in {"components", "recorder", "close", "ended"} => revived'
      BY <2>1, <2>3
    <3> QED BY <1>0, <2>1, <3>1, <3>2 DEF DownInv
  <2>4. \/ UNCHANGED <<mq, revived>>
        \/ /\ mq' = "on"
           /\ revived' = (revived \/ main \in {"components", "recorder", "close"})
    BY <1>3 DEF ReloadMq, StartMq, mqVars
  <2> QED BY <2>2, <2>3, <2>4
<1>4. CASE CourierEnds /\ Returned("mq")
  BY <1>0, <1>4 DEF CourierEnds, Returned, DownInv
<1>5. CASE UNCHANGED mq /\ Returned("registry")
  BY <1>0, <1>5 DEF Returned, DownInv
<1>6. CASE UNCHANGED <<closing, revived, main, mq, cut>>
  BY <1>0, <1>6 DEF DownInv
<1>7. CASE /\ UNCHANGED <<closing, revived, cut>>
           /\ Signal \/ EngineDown \/ ManagerDown \/ StopEvents \/ CloseDb
  BY <1>0, <1>7 DEF DownInv, Signal, EngineDown, ManagerDown, StopEvents, CloseDb, Unchanged, mqVars
<1>8. CASE UNCHANGED <<closing, revived, cut>> /\ (EnableMq \/ DisableMq)
  BY <1>0, <1>8 DEF DownInv, EnableMq, DisableMq, Listening, processVars
<1>9. CASE UNCHANGED <<closing, revived, cut>> /\ StopComponent
  BY <1>0, <1>9 DEF DownInv, StopComponent, StopMq, mqVars, processVars
<1> QED BY <1>0, <1>1, <1>2, <1>3, <1>4, <1>5, <1>6, <1>7, <1>8, <1>9, ClosingTouched

-----------------------------------------------------------------------------
(***************************************************************************)
(* The event recorder.                                                     *)
(***************************************************************************)
Places == {"select", "write", "drain", "last", "ended"}

Recorders == [queue : Nat, batch : Nat, written : Nat, dropped : Nat, at : Places]

Recorder(q, b, w, d, at) ==
  [queue |-> q, batch |-> b, written |-> w, dropped |-> d, at |-> at]

EventsInv ==
  recorder \in Recorders /\ stopped \in BOOLEAN /\ recorded \in Nat /\ EventsAccounted

(***************************************************************************)
(* A step of flushLoop moves denials on and loses none (event_recorder.go).*)
(***************************************************************************)
LEMMA FlushLoopAccounts ==
  ASSUME EventsInv, FlushLoop
  PROVE  EventsInv' /\ UNCHANGED <<stopped, recorded>>
<1>0. /\ recorder \in Recorders
      /\ recorder.queue \in Nat /\ recorder.batch \in Nat
      /\ recorder.written \in Nat /\ recorder.dropped \in Nat
  BY DEF Recorders, EventsInv
<1>1. UNCHANGED <<stopped, recorded>>
  BY DEF FlushLoop, ReceiveEvent, FlushTick, StopSeen, Drain, WriteEvents
<1>2. ASSUME NEW q \in Nat, NEW b \in Nat, NEW w \in Nat, NEW d \in Nat, NEW at \in Places,
             recorder' = Recorder(q, b, w, d, at),
             q + b + w + d
               = recorder.queue + recorder.batch + recorder.written + recorder.dropped
      PROVE  EventsInv'
  <2>1. recorder' \in Recorders
    BY <1>2 DEF Recorders, Recorder
  <2>2. /\ recorder'.queue = q /\ recorder'.batch = b
        /\ recorder'.written = w /\ recorder'.dropped = d
    BY <1>2 DEF Recorder
  <2>3. EventsAccounted'
    BY <1>1, <1>2, <2>2 DEF EventsInv, EventsAccounted
  <2> QED BY <1>1, <2>1, <2>3 DEF EventsInv
<1>3. CASE ReceiveEvent
  <2> DEFINE at == IF recorder.batch + 1 >= FlushRows THEN "write" ELSE recorder.at
  <2>1. recorder.queue - 1 \in Nat /\ recorder.batch + 1 \in Nat
    BY <1>0, <1>3 DEF ReceiveEvent
  <2>2. at \in Places
    BY <1>0 DEF Recorders, Places
  <2>3. recorder' = [recorder EXCEPT !.queue = @ - 1, !.batch = @ + 1, !.at = at]
    BY <1>3 DEF ReceiveEvent
  <2> HIDE DEF at
  <2>4. recorder' = Recorder(recorder.queue - 1, recorder.batch + 1, recorder.written,
            recorder.dropped, at)
    BY <1>0, <2>3 DEF Recorders, Recorder
  <2>5. (recorder.queue - 1) + (recorder.batch + 1) + recorder.written + recorder.dropped
          = recorder.queue + recorder.batch + recorder.written + recorder.dropped
    BY <1>0
  <2> QED BY <1>0, <1>1, <1>2, <2>1, <2>2, <2>4, <2>5
<1>4. CASE FlushTick \/ StopSeen
  <2>1. PICK at \in Places : recorder' = [recorder EXCEPT !.at = at]
    BY <1>4 DEF FlushTick, StopSeen, Places
  <2>2. recorder' = Recorder(recorder.queue, recorder.batch, recorder.written,
            recorder.dropped, at)
    BY <1>0, <2>1 DEF Recorders, Recorder
  <2> QED BY <1>0, <1>1, <1>2, <2>2
<1>5. CASE Drain
  <2>1. CASE recorder.queue > 0
    <3>1. recorder.queue - 1 \in Nat /\ recorder.batch + 1 \in Nat /\ recorder.at \in Places
      BY <1>0, <2>1 DEF Recorders
    <3>2. recorder' = [recorder EXCEPT !.queue = @ - 1, !.batch = @ + 1]
      BY <1>5, <2>1 DEF Drain
    <3>3. recorder' = Recorder(recorder.queue - 1, recorder.batch + 1, recorder.written,
                recorder.dropped, recorder.at)
      BY <1>0, <3>2 DEF Recorders, Recorder
    <3>4. (recorder.queue - 1) + (recorder.batch + 1) + recorder.written + recorder.dropped
            = recorder.queue + recorder.batch + recorder.written + recorder.dropped
      BY <1>0
    <3> QED BY <1>0, <1>1, <1>2, <3>1, <3>3, <3>4
  <2>2. CASE ~ recorder.queue > 0
    <3>1. recorder' = [recorder EXCEPT !.at = "last"]
      BY <1>5, <2>2 DEF Drain
    <3>2. recorder' = Recorder(recorder.queue, recorder.batch, recorder.written,
                recorder.dropped, "last")
      BY <1>0, <3>1 DEF Recorders, Recorder
    <3>3. "last" \in Places
      BY DEF Places
    <3> QED BY <1>0, <1>1, <1>2, <3>2, <3>3
  <2> QED BY <2>1, <2>2
<1>6. CASE WriteEvents
  <2>1. PICK n \in 0 .. recorder.batch :
          recorder' = [recorder EXCEPT
            !.written = @ + n, !.dropped = @ + recorder.batch - n, !.batch = 0,
            !.at = IF @ = "write" THEN "select" ELSE "ended"]
    BY <1>6 DEF WriteEvents
  <2> DEFINE at == IF recorder.at = "write" THEN "select" ELSE "ended"
  <2>2. recorder.written + n \in Nat /\ recorder.dropped + recorder.batch - n \in Nat
    BY <1>0
  <2>3. at \in Places
    BY DEF Places
  <2>4. recorder' = [recorder EXCEPT
            !.written = @ + n, !.dropped = @ + recorder.batch - n, !.batch = 0, !.at = at]
    BY <2>1
  <2> HIDE DEF at
  <2>5. recorder' = Recorder(recorder.queue, 0, recorder.written + n,
            recorder.dropped + recorder.batch - n, at)
    BY <1>0, <2>4 DEF Recorders, Recorder
  <2>6. recorder.queue + 0 + (recorder.written + n) + (recorder.dropped + recorder.batch - n)
          = recorder.queue + recorder.batch + recorder.written + recorder.dropped
    BY <1>0
  <2>7. 0 \in Nat
    OBVIOUS
  <2> QED BY <1>0, <1>1, <1>2, <2>2, <2>3, <2>5, <2>6, <2>7
<1> QED BY <1>3, <1>4, <1>5, <1>6 DEF FlushLoop

LEMMA EventsStep ==
  ASSUME EventsInv, [Next]_vars
  PROVE  EventsInv'
<1>1. CASE UNCHANGED eventVars
  BY <1>1 DEF eventVars, EventsInv, EventsAccounted
<1>2. ASSUME NEW r \in Requests, Deny(r)
      PROVE  EventsInv'
  <2>0. /\ recorder \in Recorders
        /\ recorder.queue \in Nat /\ recorder.queue + 1 \in Nat
        /\ recorder.dropped \in Nat /\ recorder.dropped + 1 \in Nat
        /\ recorder.batch \in Nat /\ recorder.written \in Nat
    BY DEF EventsInv, Recorders
  <2>1. /\ \/ recorder' = [recorder EXCEPT !.queue = recorder.queue + 1]
           \/ recorder' = [recorder EXCEPT !.dropped = recorder.dropped + 1]
        /\ recorded' = recorded + 1 /\ stopped' = stopped
    BY <1>2 DEF Deny, Record
  <2>2. recorder' \in Recorders
    BY <2>0, <2>1 DEF Recorders
  <2>3. /\ recorder'.batch = recorder.batch /\ recorder'.written = recorder.written
        /\ \/ recorder'.queue = recorder.queue + 1 /\ recorder'.dropped = recorder.dropped
           \/ recorder'.queue = recorder.queue /\ recorder'.dropped = recorder.dropped + 1
    BY <2>0, <2>1 DEF Recorders
  <2>4. EventsAccounted'
    BY <2>0, <2>1, <2>3 DEF EventsInv, EventsAccounted
  <2> QED BY <2>1, <2>2, <2>4 DEF EventsInv
<1>3. CASE Events
  BY <1>3, FlushLoopAccounts DEF Events
<1>4. CASE StopEvents
  BY <1>4 DEF StopEvents, StopRecorder, EventsInv, EventsAccounted
<1>5. CASE Restart
  <2>1. /\ recorder' = [queue |-> 0, batch |-> 0, written |-> 0, dropped |-> 0, at |-> "select"]
        /\ stopped' = FALSE /\ recorded' = 0
    BY <1>5 DEF Restart
  <2>2. recorder' \in Recorders
    BY <2>1 DEF Recorders, Places
  <2>3. EventsAccounted'
    BY <2>1 DEF EventsAccounted
  <2> QED BY <2>1, <2>2, <2>3 DEF EventsInv
<1> QED BY <1>1, <1>2, <1>3, <1>4, <1>5, EventsTouched DEF vars

LEMMA EventsStart ==
  ASSUME Init
  PROVE  EventsInv
<1>1. /\ recorder = [queue |-> 0, batch |-> 0, written |-> 0, dropped |-> 0, at |-> "select"]
      /\ stopped = FALSE /\ recorded = 0
  BY DEF Init, RecorderInit
<1>2. recorder \in Recorders
  BY <1>1 DEF Recorders, Places
<1>3. EventsAccounted
  BY <1>1 DEF EventsAccounted
<1> QED BY <1>1, <1>2, <1>3 DEF EventsInv

(***************************************************************************)
(* Every denial that was recorded is in the channel, in the batch, in the  *)
(* table or counted as dropped, and in one of them only, in whatever order *)
(* requests, batches, failing statements and a shutdown come.              *)
(***************************************************************************)
THEOREM EventsAccountedHolds == Spec => []EventsAccounted
<1>1. Init => EventsInv
  BY EventsStart
<1>2. EventsInv => EventsAccounted
  BY DEF EventsInv
<1> QED BY <1>1, <1>2, EventsStep, PTL DEF Spec

-----------------------------------------------------------------------------
(***************************************************************************)
(* The registry: while the watchers have not been told the table, somebody *)
(* is about to take it, or is about to tell it as it is.                   *)
(***************************************************************************)
Listings == [at : {"idle", "list", "notify"}, list : SUBSET Instances]

RegistryTypes ==
  /\ instances \in [Instances -> {"none", "static", "fresh", "stale"}]
  /\ publisher \in [Publishers -> Listings]
  /\ told \in BOOLEAN

WillTell(p) ==
  publisher[p].at = "list" \/ (publisher[p].at = "notify" /\ publisher[p].list = Present)

RegistryInv == RegistryTypes /\ (told \/ \E p \in Publishers : WillTell(p))

LEMMA SilentAll ==
  [p \in Publishers |-> Silent] \in [Publishers -> Listings]
BY DEF Silent, Listings

LEMMA ChangeWillTell ==
  ASSUME RegistryTypes, NEW p \in Publishers,
         NEW table \in [Instances -> {"none", "static", "fresh", "stale"}], Change(p, table)
  PROVE  RegistryInv'
<1>1. /\ instances' = table /\ told' = FALSE
      /\ publisher' = [publisher EXCEPT ![p].at = "list"]
  BY DEF Change
<1>2. publisher' \in [Publishers -> Listings]
  BY <1>1 DEF RegistryTypes, Listings
<1>3. publisher'[p].at = "list"
  BY <1>1 DEF RegistryTypes, Listings
<1> QED BY <1>1, <1>2, <1>3 DEF RegistryInv, RegistryTypes, WillTell

LEMMA BeatKeeps ==
  ASSUME RegistryInv, NEW c \in Clients, NEW i \in Instances, HandleBeat(c, i)
  PROVE  RegistryInv'
<1>1. CASE instances[i] = "none"
  <2>1. [instances EXCEPT ![i] = "fresh"] \in [Instances -> {"none", "static", "fresh", "stale"}]
    BY DEF RegistryInv, RegistryTypes
  <2> QED BY <1>1, <2>1, ChangeWillTell DEF HandleBeat, Beat, RegistryInv, Publishers
<1>2. CASE instances[i] # "none"
  <2>1. /\ instances' = [instances EXCEPT ![i] = IF @ = "static" THEN @ ELSE "fresh"]
        /\ UNCHANGED <<publisher, told>>
    BY <1>2 DEF HandleBeat, Beat
  <2>2. instances' \in [Instances -> {"none", "static", "fresh", "stale"}]
    BY <2>1 DEF RegistryInv, RegistryTypes
  <2>3. Present' = Present
    BY <1>2, <2>1 DEF Present, RegistryInv, RegistryTypes
  <2> QED BY <2>1, <2>2, <2>3 DEF RegistryInv, RegistryTypes, WillTell
<1> QED BY <1>1, <1>2

LEMMA PublishTells ==
  ASSUME RegistryInv, NEW p \in Publishers, Publish(p)
  PROVE  RegistryInv'
<1>0. /\ publisher \in [Publishers -> Listings] /\ told \in BOOLEAN
      /\ instances' = instances /\ Present' = Present
  BY DEF RegistryInv, RegistryTypes, Publish, TakeList, Notify, Present
<1>1. CASE TakeList(p)
  <2>1. /\ publisher' = [publisher EXCEPT ![p] = [at |-> "notify", list |-> Present]]
        /\ told' = told
    BY <1>1 DEF TakeList
  <2>2. [at |-> "notify", list |-> Present] \in Listings
    BY DEF Listings, Present
  <2>3. publisher' \in [Publishers -> Listings]
    BY <1>0, <2>1, <2>2
  <2>4. publisher'[p].at = "notify" /\ publisher'[p].list = Present
    BY <1>0, <2>1
  <2> QED BY <1>0, <2>1, <2>3, <2>4 DEF RegistryInv, RegistryTypes, WillTell
<1>2. CASE Notify(p)
  <2>1. /\ publisher' = [publisher EXCEPT ![p] = Silent]
        /\ told' = (told \/ publisher[p].list = Present)
        /\ publisher[p].at = "notify"
    BY <1>2 DEF Notify
  <2>2. publisher' \in [Publishers -> Listings]
    BY <1>0, <2>1 DEF Silent, Listings
  <2>3. told' \/ \E q \in Publishers : WillTell(q)'
    <3>1. CASE told
      BY <2>1, <3>1
    <3>2. ASSUME NEW q \in Publishers, WillTell(q), q = p
          PROVE  told'
      BY <2>1, <3>2 DEF WillTell
    <3>3. ASSUME NEW q \in Publishers, WillTell(q), q # p
          PROVE  WillTell(q)'
      BY <1>0, <2>1, <3>3 DEF WillTell
    <3> QED BY <3>1, <3>2, <3>3 DEF RegistryInv
  <2>4. told' \in BOOLEAN
    BY <2>1
  <2> QED BY <1>0, <2>2, <2>3, <2>4 DEF RegistryInv, RegistryTypes
<1> QED BY <1>1, <1>2 DEF Publish

LEMMA RegistryStep ==
  ASSUME RegistryInv, [Next]_vars
  PROVE  RegistryInv'
<1>1. CASE UNCHANGED registryVars
  BY <1>1 DEF registryVars, RegistryInv, RegistryTypes, WillTell, Present
<1>2. CASE EnableRegistry \/ Restart \/ \E h \in Reloads : ReloadRegistry(h) /\ StartRegistry
  <2>1. /\ publisher' = [p \in Publishers |-> Silent] /\ told' = TRUE
        /\ instances' \in [Instances -> {"none", "static", "fresh", "stale"}]
    BY <1>2 DEF EnableRegistry, StartRegistry, Restart
  <2> QED BY <2>1, SilentAll DEF RegistryInv, RegistryTypes
<1>3. CASE DisableRegistry \/ StopComponent
  BY <1>3 DEF DisableRegistry, StopRegistry, StopComponent, registryVars,
     RegistryInv, RegistryTypes, WillTell, Present
<1>4. CASE Services
  <2>1. ASSUME NEW c \in Clients, NEW i \in Instances, HandleBeat(c, i)
        PROVE  RegistryInv'
    BY <2>1, BeatKeeps
  <2>2. ASSUME NEW i \in Instances, Lapse(i)
        PROVE  RegistryInv'
    <3>1. /\ instances' = [instances EXCEPT ![i] = "stale"] /\ instances[i] = "fresh"
          /\ UNCHANGED <<publisher, told>>
      BY <2>2 DEF Lapse
    <3>2. instances' \in [Instances -> {"none", "static", "fresh", "stale"}]
      BY <3>1 DEF RegistryInv, RegistryTypes
    <3>3. Present' = Present
      BY <3>1 DEF Present, RegistryInv, RegistryTypes
    <3> QED BY <3>1, <3>2, <3>3 DEF RegistryInv, RegistryTypes, WillTell
  <2>3. CASE ScanOnce
    <3> DEFINE table == [i \in Instances |-> IF i \in Overdue THEN "none" ELSE instances[i]]
    <3>1. table \in [Instances -> {"none", "static", "fresh", "stale"}]
      BY DEF RegistryInv, RegistryTypes
    <3>2. Change(Scanner, table) /\ Scanner \in Publishers
      BY <2>3 DEF ScanOnce, Publishers
    <3> QED BY <3>1, <3>2, ChangeWillTell DEF RegistryInv
  <2>4. CASE RegistryEnds
    BY <2>4 DEF RegistryEnds, RegistryInv, RegistryTypes, WillTell, Present
  <2>5. ASSUME NEW p \in Publishers, Publish(p)
        PROVE  RegistryInv'
    BY <2>5, PublishTells
  <2> QED BY <1>4, <2>1, <2>2, <2>3, <2>4, <2>5 DEF Services
<1> QED BY <1>1, <1>2, <1>3, <1>4, RegistryTouched DEF vars, ReloadRegistry

(***************************************************************************)
(* When nobody is publishing the watchers know the table as it is, for any *)
(* number of instances and handlers (publish of the registry).             *)
(***************************************************************************)
THEOREM WatchersToldHolds == Spec => []WatchersTold
<1>1. ASSUME Init PROVE RegistryInv
  <2>1. /\ publisher = [p \in Publishers |-> Silent] /\ told = TRUE
        /\ instances \in [Instances -> {"none", "static", "fresh", "stale"}]
    BY <1>1 DEF Init, RegistryInit
  <2> QED BY <2>1, SilentAll DEF RegistryInv, RegistryTypes
<1>2. RegistryInv => WatchersTold
  BY DEF RegistryInv, WatchersTold, WillTell
<1> QED BY <1>1, <1>2, RegistryStep, PTL DEF Spec

-----------------------------------------------------------------------------
(***************************************************************************)
(* The outbox.  A delivery is paid for by the row marked done, by the mark *)
(* that is about to be made, or by a fault; of those whose mark came when  *)
(* the database was closed by the end of the process.                      *)
(***************************************************************************)
LEMMA MinProperty ==
  ASSUME NEW S \in SUBSET Nat, S # {}
  PROVE  Min(S) \in S /\ \A y \in S : Min(S) <= y
<1>1. PICK x \in S : \A y \in S : ~ (<<y, x>> \in OpToRel(<, Nat))
  BY NatLessThanWellFounded, WFMin, Zenon
<1>2. ASSUME NEW y \in S, y < x
      PROVE  FALSE
  <2>1. <<y, x>> \in Nat \X Nat /\ <<y, x>>[1] < <<y, x>>[2]
    BY <1>2
  <2>2. <<y, x>> \in OpToRel(<, Nat)
    BY <2>1, Zenon DEF OpToRel
  <2> QED BY <1>1, <2>2, Zenon
<1>3. \A y \in S : x <= y
  BY <1>2
<1> QED BY <1>3 DEF Min

Rows == [status : {"none", "pending", "failed", "done", "dead"}, retries : Nat]

Couriers == [at : {"idle", "deliver", "done", "failed", "sleep"}, todo : SUBSET Messages]

OutboxTypes ==
  /\ outbox \in [Messages -> Rows]
  /\ courier \in Couriers
  /\ mq \in {"off", "on", "stopping"}
  /\ delivered \in [Messages -> Nat]

CourierOK ==
  /\ courier.at = "idle" <=> courier.todo = {}
  /\ mq = "off" => courier.at = "idle"
  /\ \A m \in courier.todo : outbox[m].status \in {"pending", "failed"}

Paid(m) ==
  \/ outbox[m].status = "done"
  \/ courier.at = "done" /\ m = Current
  \/ db = "closed" /\ revived /\ m \notin courier.todo

Credit(m) == IF Paid(m) THEN 1 ELSE 0

PaidFor ==
  \A m \in Messages : delivered[m] <= spent["failures"] + spent["crashes"] + cut + Credit(m)

OutboxInv == StorageOK /\ MainOK /\ DownInv /\ OutboxTypes /\ CourierOK /\ PaidFor

LEMMA CurrentHeld ==
  ASSUME OutboxTypes, courier.todo # {}
  PROVE  Current \in courier.todo /\ Current \in Messages
<1>1. courier.todo \subseteq Messages
  BY DEF OutboxTypes, Couriers
<1>2. courier.todo \in SUBSET Nat
  BY <1>1, OutboxAssumption
<1> QED BY <1>1, <1>2, MinProperty DEF Current

LEMMA NextHeld ==
  ASSUME OutboxTypes
  PROVE  /\ NextMessage \in Couriers
         /\ NextMessage.at \in {"idle", "deliver"}
         /\ NextMessage.at = "idle" <=> NextMessage.todo = {}
         /\ NextMessage.todo \subseteq courier.todo \ {Current}
<1> DEFINE rest == courier.todo \ {Current}
<1>1. rest \subseteq Messages
  BY DEF OutboxTypes, Couriers
<1>2. NextMessage = IF rest = {} THEN [at |-> "idle", todo |-> {}]
                    ELSE [at |-> "deliver", todo |-> rest]
  BY DEF NextMessage, Asleep
<1> HIDE DEF rest
<1>3. CASE rest = {}
  BY <1>1, <1>2, <1>3 DEF Couriers
<1>4. CASE rest # {}
  <2>1. NextMessage = [at |-> "deliver", todo |-> rest]
    BY <1>2, <1>4
  <2>2. NextMessage \in Couriers
    BY <1>1, <2>1 DEF Couriers
  <2>3. NextMessage.todo \subseteq courier.todo \ {Current}
    BY <2>1 DEF rest
  <2> QED BY <1>4, <2>1, <2>2, <2>3
<1> QED BY <1>3, <1>4

(***************************************************************************)
(* A step that delivers nothing keeps the account, if it takes a credit    *)
(* away only for a fault.                                                  *)
(***************************************************************************)
LEMMA NothingDelivered ==
  ASSUME OutboxInv, [Next]_vars, delivered' = delivered,
         \A m \in Messages :
           \/ Paid(m) => Paid(m)'
           \/ spent'["failures"] > spent["failures"]
           \/ spent'["crashes"] > spent["crashes"]
           \/ cut' > cut
  PROVE  PaidFor'
<1>1. /\ spent["failures"] \in Nat /\ spent'["failures"] \in Nat
      /\ spent["crashes"] \in Nat /\ spent'["crashes"] \in Nat
      /\ spent'["failures"] >= spent["failures"]
      /\ spent'["crashes"] >= spent["crashes"]
      /\ cut \in Nat /\ cut' \in Nat /\ cut' >= cut
  <2>1. StorageOK' /\ \A k \in Faults : spent[k] \in Nat /\ spent'[k] >= spent[k]
    BY StorageInv DEF OutboxInv
  <2>2. cut \in Nat /\ cut' \in {cut, cut + 1}
    BY CutTouched DEF OutboxInv, DownInv, Restart, vars, processVars
  <2> QED BY <2>1, <2>2 DEF StorageOK, Faults
<1>2. ASSUME NEW m \in Messages
      PROVE  delivered'[m] <= spent'["failures"] + spent'["crashes"] + cut' + Credit(m)'
  <2>1. /\ delivered[m] \in Nat /\ delivered'[m] = delivered[m]
        /\ delivered[m] <= spent["failures"] + spent["crashes"] + cut + Credit(m)
    BY DEF OutboxInv, PaidFor, OutboxTypes
  <2>2. Credit(m) \in {0, 1} /\ Credit(m)' \in {0, 1}
    BY DEF Credit
  <2>3. CASE Paid(m) => Paid(m)'
    <3>1. Credit(m) <= Credit(m)'
      BY <2>3 DEF Credit
    <3> QED BY <1>1, <2>1, <2>2, <3>1
  <2>4. CASE \/ spent'["failures"] > spent["failures"]
             \/ spent'["crashes"] > spent["crashes"]
             \/ cut' > cut
    BY <1>1, <2>1, <2>2, <2>4
  <2> QED BY <2>3, <2>4
<1> QED BY <1>2 DEF PaidFor

OutboxKept == OutboxTypes' /\ CourierOK' /\ PaidFor'

(***************************************************************************)
(* The steps of pollOnce, and the end of the goroutine.                    *)
(***************************************************************************)
LEMMA PollKeeps ==
  ASSUME OutboxInv, Next, Poll, UNCHANGED <<revived, cut>>
  PROVE  OutboxKept
<1>0. db' = db /\ db = "open"
  BY DEF Poll, Succeeding
<1>1. /\ courier.at = "idle" /\ mq # "off" /\ FetchPending # {}
      /\ courier' = [at |-> "deliver", todo |-> FetchPending]
      /\ UNCHANGED <<outbox, mq, delivered>>
  BY DEF Poll
<1>2. /\ FetchPending \subseteq Messages
      /\ \A m \in FetchPending : outbox[m].status \in {"pending", "failed"}
  BY DEF FetchPending
<1>3. courier' \in Couriers
  BY <1>1, <1>2 DEF Couriers
<1>4. OutboxTypes'
  BY <1>1, <1>3 DEF OutboxInv, OutboxTypes
<1>5. CourierOK'
  BY <1>1, <1>2 DEF OutboxInv, CourierOK
<1>6. PaidFor'
  BY <1>0, <1>1, NothingDelivered DEF Paid
<1> QED BY <1>4, <1>5, <1>6 DEF OutboxKept

LEMMA DeliverKeeps ==
  ASSUME OutboxInv, Next, Deliver, UNCHANGED <<revived, cut>>
  PROVE  OutboxKept
<1>1. /\ courier.at = "deliver" /\ courier.todo # {} /\ courier \in Couriers
      /\ UNCHANGED <<outbox, mq, db>> /\ delivered \in [Messages -> Nat]
  BY DEF Deliver, OutboxInv, OutboxTypes, CourierOK
<1>2. Current \in Messages /\ Current \in courier.todo
  BY <1>1, CurrentHeld DEF OutboxInv
<1>3. /\ courier' \in Couriers /\ courier'.todo = courier.todo /\ courier'.at \in {"done", "failed"}
      /\ delivered' \in [Messages -> Nat]
  BY <1>1, <1>2 DEF Deliver, Couriers
<1>4. Current' = Current
  BY <1>3 DEF Current
<1>5. OutboxTypes' /\ CourierOK'
  BY <1>1, <1>3 DEF OutboxInv, OutboxTypes, CourierOK
<1>6. CASE delivered' = delivered
  <2>1. PaidFor'
    BY <1>1, <1>3, <1>6, NothingDelivered DEF Paid
  <2> QED BY <1>5, <2>1 DEF OutboxKept
<1>7. CASE /\ delivered' = [delivered EXCEPT ![Current] = @ + 1]
           /\ \/ courier'.at = "done"
              \/ spent' = [spent EXCEPT !["failures"] = @ + 1]
  <2>1. /\ spent["failures"] \in Nat /\ spent["crashes"] \in Nat
        /\ spent'["failures"] \in Nat /\ spent'["crashes"] \in Nat
        /\ spent'["failures"] >= spent["failures"] /\ spent'["crashes"] >= spent["crashes"]
        /\ courier'.at = "done" \/ spent'["failures"] = spent["failures"] + 1
        /\ cut \in Nat /\ cut' = cut
    <3>1. StorageOK' /\ \A k \in Faults : spent[k] \in Nat /\ spent'[k] >= spent[k]
      BY StorageInv DEF OutboxInv
    <3> QED BY <1>7, <3>1 DEF StorageOK, Faults, OutboxInv, DownInv
  <2>2. ASSUME NEW m \in Messages
        PROVE  delivered'[m] <= spent'["failures"] + spent'["crashes"] + cut' + Credit(m)'
    <3>1. /\ delivered[m] \in Nat
          /\ delivered[m] <= spent["failures"] + spent["crashes"] + cut + Credit(m)
          /\ delivered'[m] = IF m = Current THEN delivered[m] + 1 ELSE delivered[m]
      BY <1>1, <1>7 DEF OutboxInv, PaidFor
    <3>2. Credit(m) \in {0, 1} /\ Credit(m)' \in {0, 1}
      BY DEF Credit
    <3>3. CASE m = Current
      <4>1. Credit(m) = 0
        BY <1>1, <1>2, <3>3 DEF Credit, Paid, OutboxInv, CourierOK
      <4>2. courier'.at = "done" => Credit(m)' = 1
        BY <1>4, <3>3 DEF Credit, Paid
      <4> QED BY <2>1, <3>1, <3>2, <3>3, <4>1, <4>2
    <3>4. CASE m # Current
      <4>1. Credit(m)' = Credit(m)
        BY <1>1, <1>3, <1>4, <3>4 DEF Credit, Paid
      <4> QED BY <2>1, <3>1, <3>2, <3>4, <4>1
    <3> QED BY <3>3, <3>4
  <2> QED BY <1>5, <2>2 DEF PaidFor, OutboxKept
<1>8. \/ delivered' = delivered
      \/ /\ delivered' = [delivered EXCEPT ![Current] = @ + 1]
         /\ \/ courier'.at = "done"
            \/ spent' = [spent EXCEPT !["failures"] = @ + 1]
  BY <1>1, <1>3 DEF Deliver, Spend, Couriers
<1> QED BY <1>5, <1>6, <1>7, <1>8 DEF OutboxKept

LEMMA MarkDoneKeeps ==
  ASSUME OutboxInv, Next, MarkDone, UNCHANGED <<revived, cut>>
  PROVE  OutboxKept
<1>1. /\ courier.at = "done" /\ courier.todo # {} /\ mq # "off"
      /\ courier' = NextMessage /\ UNCHANGED <<mq, delivered, db>> /\ outbox \in [Messages -> Rows]
  BY DEF MarkDone, OutboxInv, OutboxTypes, CourierOK
<1>2. /\ Current \in Messages
      /\ db = "open" \/ (db = "closed" /\ revived)
  <2>1. db = "closed" => revived
    BY <1>1 DEF OutboxInv, MainOK, DownInv
  <2> QED BY <1>1, <2>1, CurrentHeld DEF OutboxInv, StorageOK
<1>3. /\ courier' \in Couriers /\ courier'.at \in {"idle", "deliver"}
      /\ courier'.at = "idle" <=> courier'.todo = {}
      /\ courier'.todo \subseteq courier.todo \ {Current}
  BY <1>1, NextHeld DEF OutboxInv
<1>4. \/ outbox' = [outbox EXCEPT ![Current].status = "done"]
      \/ outbox' = outbox /\ spent' = [spent EXCEPT !["failures"] = @ + 1]
      \/ outbox' = outbox /\ db = "closed"
  BY <1>2 DEF MarkDone, Failing, Spend
<1>5. outbox' \in [Messages -> Rows]
  BY <1>1, <1>2, <1>4 DEF Rows
<1>6. OutboxTypes'
  BY <1>1, <1>3, <1>5 DEF OutboxInv, OutboxTypes
<1>7. \A m \in courier'.todo : outbox'[m] = outbox[m]
  <2>1. courier'.todo \subseteq Messages
    BY <1>3 DEF Couriers
  <2> QED BY <1>1, <1>3, <1>4, <2>1
<1>8. CourierOK'
  BY <1>1, <1>3, <1>7 DEF OutboxInv, CourierOK
<1>9. PaidFor'
  <2>1. CASE outbox' = [outbox EXCEPT ![Current].status = "done"]
    <3>1. \A m \in Messages : Paid(m) => Paid(m)'
      BY <1>1, <1>2, <1>3, <2>1 DEF Paid
    <3> QED BY <1>1, <3>1, NothingDelivered
  <2>2. CASE spent' = [spent EXCEPT !["failures"] = @ + 1]
    <3>1. spent'["failures"] > spent["failures"]
      BY <2>2 DEF OutboxInv, StorageOK, Faults
    <3> QED BY <1>1, <3>1, NothingDelivered
  <2>3. CASE outbox' = outbox /\ db = "closed"
    <3>1. \A m \in Messages : Paid(m) => Paid(m)'
      BY <1>1, <1>2, <1>3, <2>3 DEF Paid
    <3> QED BY <1>1, <3>1, NothingDelivered
  <2> QED BY <1>4, <2>1, <2>2, <2>3
<1> QED BY <1>6, <1>8, <1>9 DEF OutboxKept

LEMMA MarkFailedKeeps ==
  ASSUME OutboxInv, Next, MarkFailed, UNCHANGED <<revived, cut>>
  PROVE  OutboxKept
<1>1. /\ courier.at = "failed" /\ courier.todo # {} /\ mq # "off" /\ courier \in Couriers
      /\ UNCHANGED <<mq, delivered, db>> /\ outbox \in [Messages -> Rows]
  BY DEF MarkFailed, OutboxInv, OutboxTypes, CourierOK
<1>2. Current \in Messages /\ Current \in courier.todo
  BY <1>1, CurrentHeld DEF OutboxInv
<1>3. /\ NextMessage \in Couriers /\ NextMessage.at \in {"idle", "deliver"}
      /\ NextMessage.at = "idle" <=> NextMessage.todo = {}
      /\ NextMessage.todo \subseteq courier.todo \ {Current}
  BY NextHeld DEF OutboxInv
<1>4. /\ outbox' \in [Messages -> Rows]
      /\ \A m \in Messages : m # Current => outbox'[m] = outbox[m]
      /\ outbox'[Current].status \in {"pending", "failed", "dead"}
  <2>1. outbox[Current].status \in {"pending", "failed"} /\ outbox[Current] \in Rows
    BY <1>1, <1>2 DEF OutboxInv, CourierOK
  <2>2. /\ FailedRow(outbox[Current]) \in Rows
        /\ FailedRow(outbox[Current]).status \in {"failed", "dead"}
    BY <2>1 DEF FailedRow, Rows
  <2>3. outbox' = outbox \/ outbox' = [outbox EXCEPT ![Current] = FailedRow(outbox[Current])]
    BY DEF MarkFailed
  <2> QED BY <1>1, <1>2, <2>1, <2>2, <2>3
<1>5. \/ courier' = NextMessage
      \/ /\ FailedRow(outbox[Current]).retries < MaxRetries
         /\ outbox' = [outbox EXCEPT ![Current] = FailedRow(outbox[Current])]
         /\ courier' = [at |-> "sleep", todo |-> courier.todo]
  <2>1. [courier EXCEPT !.at = "sleep"] = [at |-> "sleep", todo |-> courier.todo]
    BY <1>1 DEF Couriers
  <2>2. FailedRow(outbox[Current]).retries \in Nat /\ MaxRetries \in Nat
    BY <1>1, <1>2, OutboxAssumption DEF FailedRow, Rows
  <2>3. \/ courier' = NextMessage
        \/ /\ outbox' = [outbox EXCEPT ![Current] = FailedRow(outbox[Current])]
           /\ ~ FailedRow(outbox[Current]).retries >= MaxRetries
           /\ courier' = [courier EXCEPT !.at = "sleep"]
    BY DEF MarkFailed
  <2> QED BY <2>1, <2>2, <2>3
<1>6. OutboxTypes'
  <2>1. courier' \in Couriers
    BY <1>1, <1>3, <1>5 DEF Couriers
  <2> QED BY <1>1, <1>4, <2>1 DEF OutboxInv, OutboxTypes
<1>7. CourierOK'
  <2>1. CASE courier' = NextMessage
    <3>1. \A m \in courier'.todo : m # Current /\ m \in courier.todo /\ m \in Messages
      BY <1>1, <1>3, <2>1 DEF Couriers
    <3> QED BY <1>1, <1>3, <1>4, <2>1, <3>1 DEF OutboxInv, CourierOK
  <2>2. CASE /\ FailedRow(outbox[Current]).retries < MaxRetries
             /\ outbox' = [outbox EXCEPT ![Current] = FailedRow(outbox[Current])]
             /\ courier' = [at |-> "sleep", todo |-> courier.todo]
    <3>1. courier'.at = "sleep" /\ courier'.todo = courier.todo
      BY <2>2
    <3>2. outbox'[Current].status = "failed"
      <4>1. FailedRow(outbox[Current]).status = "failed"
        <5>1. outbox[Current].retries \in Nat /\ MaxRetries \in Nat
          BY <1>1, <1>2, OutboxAssumption DEF Rows
        <5> QED BY <2>2, <5>1 DEF FailedRow
      <4> QED BY <1>1, <1>2, <2>2, <4>1
    <3>3. courier.todo \subseteq Messages
      BY <1>1 DEF Couriers
    <3> QED BY <1>1, <1>4, <3>1, <3>2, <3>3 DEF OutboxInv, CourierOK
  <2> QED BY <1>5, <2>1, <2>2
<1>8. PaidFor'
  <2>1. ASSUME NEW m \in Messages, Paid(m)
        PROVE  Paid(m)'
    <3>1. m # Current
      BY <1>1, <1>2, <2>1 DEF Paid, OutboxInv, CourierOK
    <3>2. courier'.todo \subseteq courier.todo
      BY <1>3, <1>5
    <3> QED BY <1>1, <1>4, <2>1, <3>1, <3>2 DEF Paid
  <2> QED BY <1>1, <2>1, NothingDelivered
<1> QED BY <1>6, <1>7, <1>8 DEF OutboxKept

LEMMA BackoffKeeps ==
  ASSUME OutboxInv, Next, Backoff \/ CourierEnds, UNCHANGED <<revived, cut>>
  PROVE  OutboxKept
<1>1. /\ courier.at \in {"sleep", "idle"} /\ UNCHANGED <<outbox, delivered, db>>
      /\ courier' \in {NextMessage, Asleep, courier}
  BY DEF Backoff, CourierEnds, storageVars
<1>2. /\ NextMessage \in Couriers
      /\ NextMessage.at = "idle" <=> NextMessage.todo = {}
      /\ NextMessage.todo \subseteq courier.todo
  BY NextHeld DEF OutboxInv
<1>3. Asleep \in Couriers /\ Asleep.at = "idle" /\ Asleep.todo = {}
  BY DEF Asleep, Couriers
<1>4. OutboxTypes'
  BY <1>1, <1>2, <1>3 DEF OutboxInv, OutboxTypes, Backoff, CourierEnds
<1>5. CourierOK'
  <2>1. /\ courier'.at = "idle" <=> courier'.todo = {}
        /\ courier'.todo \subseteq courier.todo
    BY <1>1, <1>2, <1>3 DEF OutboxInv, CourierOK
  <2>2. mq' = "off" => courier'.at = "idle"
    BY <1>1 DEF OutboxInv, CourierOK, Backoff, CourierEnds
  <2>3. mq = "off" => mq' = "off"
    BY DEF Backoff, CourierEnds
  <2> QED BY <1>1, <2>1, <2>2, <2>3 DEF OutboxInv, CourierOK
<1>6. PaidFor'
  <2>1. courier'.todo \subseteq courier.todo
    BY <1>1, <1>2, <1>3
  <2> QED BY <1>1, <2>1, NothingDelivered DEF Paid
<1> QED BY <1>4, <1>5, <1>6 DEF OutboxKept

(***************************************************************************)
(* The steps of the others.                                                *)
(***************************************************************************)
LEMMA OutboxSteps ==
  ASSUME OutboxInv, Next
  PROVE  OutboxKept
<1>1. CASE Courier
  <2>1. UNCHANGED <<revived, cut>>
    BY <1>1 DEF Courier, Returned, processVars
  <2> QED
    BY <1>1, <2>1, PollKeeps, DeliverKeeps, MarkDoneKeeps, MarkFailedKeeps, BackoffKeeps
    DEF Courier, PollOnce
<1>2. CASE Insert
  <2> DEFINE new == {m \in Messages : outbox[m].status = "none"}
  <2>1. /\ new # {} /\ UNCHANGED <<courier, mq, delivered, db, revived>>
        /\ outbox' = [outbox EXCEPT ![Min(new)].status = "pending"]
    BY <1>2 DEF Insert, InsertMessage, processVars
  <2>2. Min(new) \in new
    <3>1. new \in SUBSET Nat
      BY OutboxAssumption
    <3> QED BY <2>1, <3>1, MinProperty
  <2>3. PICK n \in Messages : /\ outbox[n].status = "none"
                              /\ outbox' = [outbox EXCEPT ![n].status = "pending"]
    BY <2>1, <2>2
  <2>4. outbox' \in [Messages -> Rows] /\ outbox'[n].status = "pending"
        /\ \A m \in Messages : m # n => outbox'[m] = outbox[m]
    BY <2>3 DEF OutboxInv, OutboxTypes, Rows
  <2>5. OutboxTypes'
    BY <2>1, <2>4 DEF OutboxInv, OutboxTypes
  <2>6. CourierOK'
    BY <2>1, <2>4 DEF OutboxInv, OutboxTypes, Couriers, CourierOK
  <2>7. \A m \in Messages : Paid(m) => Paid(m)'
    BY <2>1, <2>3, <2>4 DEF Paid, Current
  <2> QED BY <2>1, <2>5, <2>6, <2>7, NothingDelivered DEF OutboxKept
<1>3. CASE EnableMq \/ DisableMq \/ StopComponent \/ \E h \in Reloads : ReloadMq(h)
  <2>1. /\ UNCHANGED <<outbox, courier, delivered, db>> /\ mq' \in {"on", "stopping", mq}
        /\ revived => revived'
    <3>1. CASE EnableMq \/ DisableMq \/ StopComponent
      BY <3>1 DEF EnableMq, DisableMq, StopComponent, StartMq, StopMq, mqVars, storageVars,
         processVars
    <3>2. ASSUME NEW h \in Reloads, ReloadMq(h)
          PROVE  /\ UNCHANGED <<outbox, courier, delivered, db>> /\ mq' \in {"on", mq}
                 /\ revived => revived'
      <4>1. CASE UNCHANGED <<mqVars, revived>>
        BY <3>2, <4>1 DEF ReloadMq, mqVars
      <4>2. CASE StartMq /\ revived' = (revived \/ main \in {"components", "recorder", "close"})
        <5>1. UNCHANGED <<outbox, courier, delivered>> /\ mq' = "on" /\ db' = db
          BY <3>2, <4>2 DEF ReloadMq, StartMq
        <5>2. revived => revived'
          BY <4>2, Zenon
        <5> QED BY <5>1, <5>2
      <4> QED BY <3>2, <4>1, <4>2 DEF ReloadMq
    <3> QED BY <1>3, <3>1, <3>2
  <2>2. \A m \in Messages : Paid(m) => Paid(m)'
    BY <2>1 DEF Paid, Current
  <2>3. CourierOK' /\ OutboxTypes'
    BY <2>1 DEF OutboxInv, OutboxTypes, CourierOK
  <2> QED BY <2>1, <2>2, <2>3, NothingDelivered DEF OutboxKept
<1>4. CASE Restart
  <2>1. UNCHANGED <<outbox, delivered>> /\ courier' = Asleep /\ mq' = "off"
    BY <1>4 DEF Restart
  <2>2. CourierOK' /\ OutboxTypes'
    BY <2>1 DEF OutboxInv, OutboxTypes, CourierOK, Asleep, Couriers
  <2>3. CASE Spend("crashes")
    <3>1. spent'["crashes"] > spent["crashes"]
      BY <2>3 DEF Spend, OutboxInv, StorageOK, Faults
    <3> QED BY <2>1, <2>2, <3>1, NothingDelivered DEF OutboxKept
  <2>4. CASE main = "ended" /\ cut' = IF revived THEN cut + 1 ELSE cut
    <3>1. CASE revived
      <4>1. cut' > cut
        BY <2>4, <3>1 DEF OutboxInv, DownInv
      <4> QED BY <2>1, <2>2, <4>1, NothingDelivered DEF OutboxKept
    <3>2. CASE ~ revived
      <4>1. courier.at = "idle"
        BY <2>4, <3>2 DEF OutboxInv, DownInv, CourierOK
      <4>2. \A m \in Messages : Paid(m) => Paid(m)'
        BY <2>1, <3>2, <4>1 DEF Paid
      <4> QED BY <2>1, <2>2, <4>2, NothingDelivered DEF OutboxKept
    <3> QED BY <3>1, <3>2
  <2> QED BY <1>4, <2>3, <2>4 DEF Restart
<1>5. CASE UNCHANGED mqVars /\ ~ Restart
  <2>1. /\ revived => revived'
        /\ db = "closed" => db' = "closed"
    <3>1. db' = db \/ CloseDb
      BY <1>5, StorageTouched
    <3>2. revived => revived'
      BY <1>5, ClosingTouched DEF StopMiddlewares, ReloadMq, Returned
    <3> QED BY <3>1, <3>2 DEF CloseDb
  <2>2. \A m \in Messages : Paid(m) => Paid(m)'
    BY <1>5, <2>1 DEF Paid, Current, mqVars
  <2>3. CourierOK' /\ OutboxTypes'
    BY <1>5 DEF OutboxInv, OutboxTypes, CourierOK, mqVars
  <2> QED BY <1>5, <2>2, <2>3, NothingDelivered DEF OutboxKept, mqVars
<1> QED BY <1>1, <1>2, <1>3, <1>4, <1>5, OutboxTouched

LEMMA OutboxStep ==
  ASSUME OutboxInv, [Next]_vars
  PROVE  OutboxInv'
<1>1. StorageOK' /\ MainOK'
  BY StorageInv, MainInv DEF OutboxInv
<1>2. CASE UNCHANGED vars
  BY <1>2 DEF vars, mqVars, storageVars, processVars, OutboxInv, StorageOK, MainOK, DownInv,
     OutboxTypes, CourierOK, PaidFor, Credit, Paid, Current
<1>3. CASE Next
  <2>1. DownInv'
    BY <1>3, DownStep DEF OutboxInv, OutboxTypes
  <2> QED BY <1>1, <1>3, <2>1, OutboxSteps DEF OutboxInv, OutboxKept
<1> QED BY <1>2, <1>3

LEMMA OutboxStart ==
  ASSUME Init
  PROVE  OutboxInv
<1>1. StorageOK
  <2>1. PICK b \in Budgets : left = b
    BY DEF Init, StorageInit
  <2>2. b \in [DOMAIN b -> Nat] /\ Faults \subseteq DOMAIN b
    BY BudgetsAssumption
  <2>3. spent = [w \in DOMAIN left |-> 0] /\ db = "open"
    BY DEF Init, StorageInit
  <2> QED BY <2>1, <2>2, <2>3 DEF StorageOK
<1>2. MainOK
  BY DEF Init, StorageInit, MainOK, Phases
<1>3. /\ outbox = [m \in Messages |-> [status |-> "none", retries |-> 0]]
      /\ courier = Asleep /\ mq = "off" /\ delivered = [m \in Messages |-> 0]
      /\ main = "serving"
  BY DEF Init, OutboxInit
<1>4. OutboxTypes /\ CourierOK
  BY <1>3 DEF OutboxTypes, CourierOK, Asleep, Couriers, Rows
<1>5. DownInv
  BY DEF Init, DownInv
<1>6. PaidFor
  BY <1>1, <1>3, <1>5 DEF PaidFor, Credit, StorageOK, Faults, DownInv
<1> QED BY <1>1, <1>2, <1>4, <1>5, <1>6 DEF OutboxInv

(***************************************************************************)
(* The consumer gets a message again only after a fault or an end of the   *)
(* process amid a courier that a reload woke, for any number of messages,  *)
(* retries and faults (pollOnce and Stop of the outbox).                   *)
(***************************************************************************)
THEOREM RepeatedByFaultsOnlyHolds == Spec => []RepeatedByFaultsOnly
<1>1. ASSUME OutboxInv PROVE RepeatedByFaultsOnly
  <2>1. ASSUME NEW m \in Messages
        PROVE  delivered[m] <= 1 + spent["failures"] + spent["crashes"] + cut
    <3>1. /\ delivered[m] \in Nat /\ Credit(m) \in {0, 1}
          /\ spent["failures"] \in Nat /\ spent["crashes"] \in Nat /\ cut \in Nat
          /\ delivered[m] <= spent["failures"] + spent["crashes"] + cut + Credit(m)
      BY <1>1 DEF OutboxInv, OutboxTypes, StorageOK, Faults, DownInv, PaidFor, Credit
    <3> QED BY <3>1
  <2> QED BY <2>1 DEF RepeatedByFaultsOnly
<1> QED BY <1>1, OutboxStart, OutboxStep, PTL DEF Spec

-----------------------------------------------------------------------------
(***************************************************************************)
(* Shutdown.  Unless a wait met its limit, no request is left when the     *)
(* recorder is told to stop, so that its channel stays empty once it has   *)
(* been emptied; and the database is closed only after it has ended.       *)
(***************************************************************************)
InTime == spent["timeouts"] = 0

ShutdownInv ==
  /\ stopped <=> main \in {"close", "ended"}
  /\ recorder.at \in {"drain", "last", "ended"} => stopped
  /\ main = "ended" => recorder.at = "ended"
  /\ DOMAIN request = Requests
  /\ InTime /\ ~ Listening => Active = {}
  /\ InTime /\ recorder.at \in {"last", "ended"} => recorder.queue = 0
  /\ recorder.at = "ended" => recorder.batch = 0

ProcessInv == OutboxInv /\ EventsInv /\ ShutdownInv

LEMMA InTimeBefore ==
  ASSUME StorageOK, [Next]_vars, InTime'
  PROVE  InTime
<1>1. StorageOK' /\ \A k \in Faults : spent[k] \in Nat /\ spent'[k] >= spent[k]
  BY StorageInv
<1> QED BY <1>1 DEF InTime, Faults

LEMMA RequestsTouched ==
  ASSUME Next
  PROVE  request' = request \/ Restart \/ \E r \in Requests : Accept(r) \/ RequestStep(r)
BY DEF Next, Administrate, EnableObs, DisableObs,
   ObsDrained, BeginStop, BeginStart, ObsSwitched, EnableMq, DisableMq, EnableRegistry,
   DisableRegistry, Insert, Reload, HotReload, ReloadObs, ReloadMq, ReloadRegistry, Started,
   Signal, Shutdown, EngineDown, StopMiddlewares, StopComponent, ManagerDown,
   StopEvents, CloseDb, Unchanged, Log, Events, Courier, Services, Returned, processVars

LEMMA FewerActive ==
  ASSUME DOMAIN request = Requests, NEW r \in Requests, RequestStep(r)
  PROVE  /\ DOMAIN request' = Requests /\ Active' \subseteq Active /\ r \in Active
         /\ main' = main
<1>1. r \in Active /\ main' = main
  BY DEF RequestStep, Deny, Forward, LoadSink, OnDone, Active
<1>2. DOMAIN request' = Requests /\ \A q \in Requests : q # r => request'[q] = request[q]
  BY DEF RequestStep, Deny, Forward, LoadSink, OnDone, At
<1> QED BY <1>1, <1>2 DEF Active

LEMMA RequestsDone ==
  ASSUME ProcessInv, Next
  PROVE  DOMAIN request' = Requests /\ (InTime' /\ ~ Listening' => Active' = {})
<1>1. CASE Restart
  BY <1>1 DEF Restart, Listening
<1>2. ASSUME NEW r \in Requests, Accept(r)
      PROVE  DOMAIN request' = Requests /\ Listening'
  BY <1>2 DEF Accept, At, Listening, ProcessInv, ShutdownInv
<1>3. ASSUME NEW r \in Requests, RequestStep(r)
      PROVE  DOMAIN request' = Requests /\ (InTime' /\ ~ Listening' => Active' = {})
  <2>1. /\ DOMAIN request' = Requests /\ Active' \subseteq Active /\ main' = main
    BY <1>3, FewerActive DEF ProcessInv, ShutdownInv
  <2> QED BY <2>1, InTimeBefore DEF ProcessInv, ShutdownInv, OutboxInv, Listening
<1>4. CASE request' = request
  <2>1. DOMAIN request' = Requests /\ Active' = Active
    BY <1>4 DEF ProcessInv, ShutdownInv, Active
  <2>2. CASE ~ Listening
    BY <2>1, <2>2, InTimeBefore DEF ProcessInv, ShutdownInv, OutboxInv
  <2>3. ASSUME Listening, ~ Listening', InTime'
        PROVE  Active = {}
    <3>1. EngineDown
      BY <2>3, MainTouched DEF Listening, Signal, Shutdown, StopMiddlewares, StopComponent,
         ManagerDown, StopEvents, CloseDb, Restart, processVars
    <3>2. CASE Spend("timeouts")
      <4>1. spent'["timeouts"] = spent["timeouts"] + 1 /\ spent["timeouts"] \in Nat
        BY <3>2 DEF Spend, ProcessInv, OutboxInv, StorageOK, Faults
      <4> QED BY <2>3, <4>1 DEF InTime
    <3> QED BY <3>1, <3>2 DEF EngineDown, Drained
  <2> QED BY <2>1, <2>2, <2>3
<1> QED BY <1>1, <1>2, <1>3, <1>4, RequestsTouched

LEMMA StoppedStep ==
  ASSUME ProcessInv, Next
  PROVE  /\ stopped' <=> main' \in {"close", "ended"}
         /\ recorder'.at \in {"drain", "last", "ended"} => stopped'
         /\ main' = "ended" => recorder'.at = "ended"
<1>0. /\ recorder \in Recorders /\ stopped \in BOOLEAN
      /\ stopped <=> main \in {"close", "ended"}
      /\ recorder.at \in {"drain", "last", "ended"} => stopped
      /\ main = "ended" => recorder.at = "ended"
  BY DEF ProcessInv, EventsInv, ShutdownInv
<1>1. CASE Restart
  BY <1>1 DEF Restart
<1>2. CASE StopEvents
  BY <1>0, <1>2 DEF StopEvents, StopRecorder
<1>3. ASSUME NEW r \in Requests, Deny(r)
      PROVE  stopped' = stopped /\ recorder'.at = recorder.at /\ main' = main
  BY <1>0, <1>3 DEF Deny, Record, Recorders
<1>4. CASE Events
  <2>1. stopped' = stopped /\ main' = main
    BY <1>4 DEF Events, FlushLoop, ReceiveEvent, FlushTick, StopSeen, Drain, WriteEvents,
       processVars
  <2>2. recorder'.at \in {"drain", "last", "ended"} => recorder.at \in {"drain", "last"} \/ stopped
    BY <1>0, <1>4 DEF Events, FlushLoop, ReceiveEvent, FlushTick, StopSeen, Drain, WriteEvents,
       Recorders
  <2>3. recorder.at # "ended"
    BY <1>4 DEF Events, FlushLoop, ReceiveEvent, FlushTick, StopSeen, Drain, WriteEvents
  <2> QED BY <1>0, <2>1, <2>2, <2>3
<1>5. CASE UNCHANGED eventVars /\ ~ Restart /\ ~ StopEvents
  <2>1. main' = main \/ Signal \/ EngineDown \/ StopMiddlewares \/ ManagerDown \/ CloseDb
    BY <1>5, MainTouched DEF Shutdown, StopComponent, processVars
  <2>2. main' \in {"close", "ended"} <=> main \in {"close", "ended"}
    BY <2>1 DEF Signal, EngineDown, StopMiddlewares, ManagerDown, CloseDb
  <2>3. main' = "ended" => recorder.at = "ended"
    BY <1>0, <2>1 DEF Signal, EngineDown, StopMiddlewares, ManagerDown, CloseDb
  <2> QED BY <1>0, <1>5, <2>2, <2>3 DEF eventVars
<1> QED BY <1>0, <1>1, <1>2, <1>3, <1>4, <1>5, EventsTouched

LEMMA ChannelStep ==
  ASSUME ProcessInv, Next
  PROVE  /\ InTime' /\ recorder'.at \in {"last", "ended"} => recorder'.queue = 0
         /\ recorder'.at = "ended" => recorder'.batch = 0
<1>0. /\ recorder \in Recorders /\ recorder.queue \in Nat /\ recorder.batch \in Nat
      /\ InTime /\ recorder.at \in {"last", "ended"} => recorder.queue = 0
      /\ recorder.at = "ended" => recorder.batch = 0
      /\ InTime' => InTime
  BY InTimeBefore DEF ProcessInv, EventsInv, ShutdownInv, Recorders, OutboxInv
<1>1. CASE Restart
  BY <1>1 DEF Restart
<1>2. CASE UNCHANGED recorder
  BY <1>0, <1>2
<1>3. ASSUME NEW r \in Requests, Deny(r)
      PROVE  /\ InTime' /\ recorder'.at \in {"last", "ended"} => recorder'.queue = 0
             /\ recorder'.at = "ended" => recorder'.batch = 0
  <2>1. recorder'.at = recorder.at /\ recorder'.batch = recorder.batch
    BY <1>0, <1>3 DEF Deny, Record, Recorders
  <2>2. r \in Active
    BY <1>3, FewerActive DEF RequestStep, ProcessInv, ShutdownInv
  <2>3. InTime => recorder.at \notin {"last", "ended"}
    BY <2>2 DEF ProcessInv, ShutdownInv, Listening
  <2> QED BY <1>0, <2>1, <2>3
<1>4. CASE Events
  <2>1. CASE ReceiveEvent \/ FlushTick \/ StopSeen
    BY <1>0, <2>1 DEF ReceiveEvent, FlushTick, StopSeen, Recorders
  <2>2. CASE Drain
    BY <1>0, <2>2 DEF Drain, Recorders
  <2>3. CASE WriteEvents
    BY <1>0, <2>3 DEF WriteEvents, Recorders
  <2> QED BY <1>4, <2>1, <2>2, <2>3 DEF Events, FlushLoop
<1> QED
  BY <1>1, <1>2, <1>3, <1>4, EventsTouched DEF eventVars, StopEvents, StopRecorder

LEMMA ProcessStep ==
  ASSUME ProcessInv, [Next]_vars
  PROVE  ProcessInv'
<1>1. OutboxInv' /\ EventsInv'
  BY OutboxStep, EventsStep DEF ProcessInv
<1>2. CASE UNCHANGED vars
  BY <1>1, <1>2 DEF vars, eventVars, storageVars, processVars, ProcessInv, ShutdownInv, InTime,
     Listening, Active
<1>3. CASE Next
  BY <1>1, <1>3, RequestsDone, StoppedStep, ChannelStep DEF ProcessInv, ShutdownInv
<1> QED BY <1>2, <1>3

LEMMA ProcessStart == Init => ProcessInv
<1> SUFFICES ASSUME Init
             PROVE  ProcessInv
  OBVIOUS
<1>1. EventsInv
  BY EventsStart
<1>2. ShutdownInv
  BY DEF Init, RecorderInit, ShutdownInv, Listening
<1> QED BY <1>1, <1>2, OutboxStart DEF ProcessInv

LEMMA ProcessEmptied ==
  ASSUME ProcessInv
  PROVE  EventsWritten
<1> SUFFICES ASSUME Orderly
             PROVE  /\ recorder.queue = 0 /\ recorder.batch = 0
                    /\ recorded = recorder.written + recorder.dropped
                    /\ courier = Asleep \/ revived
  BY DEF EventsWritten
<1>1. recorder.queue = 0 /\ recorder.batch = 0
  BY DEF ProcessInv, ShutdownInv, Orderly, InTime
<1>2. recorded = recorder.written + recorder.dropped
  BY <1>1 DEF ProcessInv, EventsInv, EventsAccounted, Recorders
<1>3. \/ courier.at = "idle" /\ courier.todo = {} /\ courier \in Couriers
      \/ revived
  BY DEF ProcessInv, DownInv, OutboxInv, OutboxTypes, CourierOK, Orderly
<1>4. courier = Asleep \/ revived
  BY <1>3 DEF Couriers, Asleep
<1> QED BY <1>1, <1>2, <1>4

(***************************************************************************)
(* A shutdown that met no time limit leaves no denial in the channel or in *)
(* the batch, and the outbox asleep unless a hot reload has started it     *)
(* again since Shutdown listed what it has to stop, for every number of    *)
(* requests and reloads and size of the buffers (main, Manager.Shutdown,   *)
(* hotReload, Stop of the recorder).                                       *)
(***************************************************************************)
THEOREM EventsWrittenHolds == Spec => []EventsWritten
BY ProcessStart, ProcessStep, ProcessEmptied, PTL DEF Spec

-----------------------------------------------------------------------------
(***************************************************************************)
(* Sums over a finite set: the fold of the library exists, takes its       *)
(* elements in any order, and follows a change of one of them.             *)
(***************************************************************************)
SumOver(q, field, S) == MapThenSumSet(LAMBDA k : q[k][field], S)

\* g sums v over every subset of S, in any order.
Sums(g, v, S) ==
  /\ g \in [SUBSET S -> Nat]
  /\ g[{}] = 0
  /\ \A s \in SUBSET S : \A x \in s : g[s] = v[x] + g[s \ {x}]

\* g sums v over every subset of S, in the order of MapThenFoldSet.
Folded(g, v, S) ==
  g = [s \in SUBSET S |->
         IF s = {} THEN 0
         ELSE LET x == CHOOSE x \in s : TRUE IN v[x] + g[s \ {x}]]

LEMMA SmallerFirst ==
  ASSUME NEW S, IsFiniteSet(S), NEW Bad \in SUBSET SUBSET S, Bad # {}
  PROVE  \E s \in Bad : \A t \in SUBSET S : Cardinality(t) < Cardinality(s) => t \notin Bad
<1> DEFINE sizes == {Cardinality(s) : s \in Bad}
<1>1. \A s \in SUBSET S : IsFiniteSet(s) /\ Cardinality(s) \in Nat
  BY FS_Subset, FS_CardinalityType
<1>2. sizes \in SUBSET Nat /\ sizes # {}
  BY <1>1
<1>3. PICK n \in sizes : \A m \in sizes : n <= m
  <2>1. Min(sizes) \in sizes /\ \A m \in sizes : Min(sizes) <= m
    BY <1>2, MinProperty
  <2> QED BY <2>1
<1>4. PICK s \in Bad : n = Cardinality(s)
  BY <1>3
<1>5. \A t \in Bad : Cardinality(s) <= Cardinality(t)
  BY <1>3, <1>4
<1>6. \A t \in Bad : Cardinality(s) \in Nat /\ Cardinality(t) \in Nat
  BY <1>1
<1>7. \A t \in SUBSET S : Cardinality(t) < Cardinality(s) => t \notin Bad
  BY <1>5, <1>6
<1> QED BY <1>7

LEMMA LessOne ==
  ASSUME NEW S, IsFiniteSet(S), NEW s \in SUBSET S, NEW x \in s
  PROVE  Cardinality(s \ {x}) \in Nat /\ Cardinality(s) = Cardinality(s \ {x}) + 1
BY FS_Subset, FS_CardinalityType, FS_RemoveElement

LEMMA FoldedSums ==
  ASSUME NEW S, IsFiniteSet(S), NEW v \in [S -> Nat], NEW g, Folded(g, v, S)
  PROVE  Sums(g, v, S)
<1> DEFINE c(s) == CHOOSE x \in s : TRUE
<1>1. DOMAIN g = SUBSET S /\ g[{}] = 0
  BY DEF Folded
<1>2. \A s \in SUBSET S : s # {} => c(s) \in s /\ g[s] = v[c(s)] + g[s \ {c(s)}]
  BY DEF Folded
<1> HIDE DEF c
<1>3. \A s \in SUBSET S : g[s] \in Nat
  <2> SUFFICES ASSUME NEW b \in SUBSET S, g[b] \notin Nat PROVE FALSE
    OBVIOUS
  <2> DEFINE Bad == {s \in SUBSET S : g[s] \notin Nat}
  <2>0. Bad \in SUBSET SUBSET S /\ Bad # {}
    OBVIOUS
  <2>a. \A s \in SUBSET S : s \in Bad <=> g[s] \notin Nat
    OBVIOUS
  <2> HIDE DEF Bad
  <2>1. PICK s \in Bad : \A t \in SUBSET S : Cardinality(t) < Cardinality(s) => t \notin Bad
    BY <2>0, SmallerFirst
  <2>2. s # {} /\ s \in SUBSET S
    BY <1>1, <2>0, <2>a, <2>1
  <2>3. c(s) \in s /\ g[s] = v[c(s)] + g[s \ {c(s)}]
    BY <1>2, <2>2
  <2>4. Cardinality(s \ {c(s)}) < Cardinality(s)
    BY <2>2, <2>3, LessOne
  <2>5. g[s \ {c(s)}] \in Nat
    BY <2>a, <2>1, <2>2, <2>4
  <2>6. v[c(s)] \in Nat
    BY <2>2, <2>3
  <2> QED BY <2>a, <2>1, <2>2, <2>3, <2>5, <2>6
<1>4. \A s \in SUBSET S : \A x \in s : g[s] = v[x] + g[s \ {x}]
  <2> DEFINE Bad == {s \in SUBSET S : \E x \in s : g[s] # v[x] + g[s \ {x}]}
  <2> SUFFICES ASSUME Bad # {} PROVE FALSE
    OBVIOUS
  <2>0. Bad \in SUBSET SUBSET S
    OBVIOUS
  <2>a. \A s \in SUBSET S : s \in Bad <=> \E x \in s : g[s] # v[x] + g[s \ {x}]
    OBVIOUS
  <2> HIDE DEF Bad
  <2>1. PICK s \in Bad : \A t \in SUBSET S : Cardinality(t) < Cardinality(s) => t \notin Bad
    BY <2>0, SmallerFirst
  <2>3. s \in SUBSET S
    BY <2>0, <2>1
  <2>2. PICK x \in s : g[s] # v[x] + g[s \ {x}]
    BY <2>a, <2>1, <2>3
  <2> DEFINE y == c(s)
  <2>4. y \in s /\ g[s] = v[y] + g[s \ {y}] /\ x # y
    <3>1. s # {}
      BY <2>2
    <3> QED BY <1>2, <2>2, <2>3, <3>1
  <2> HIDE DEF y
  <2>5. Cardinality(s \ {y}) < Cardinality(s) /\ Cardinality(s \ {x}) < Cardinality(s)
    BY <2>2, <2>3, <2>4, LessOne
  <2>6. s \ {y} \notin Bad /\ s \ {x} \notin Bad
    BY <2>1, <2>3, <2>5
  <2>7. g[s \ {y}] = v[x] + g[(s \ {y}) \ {x}]
    BY <2>a, <2>2, <2>3, <2>4, <2>6
  <2>8. g[s \ {x}] = v[y] + g[(s \ {x}) \ {y}]
    BY <2>a, <2>2, <2>3, <2>4, <2>6
  <2>9. (s \ {y}) \ {x} = (s \ {x}) \ {y} /\ (s \ {x}) \ {y} \in SUBSET S
    BY <2>3
  <2>10. g[(s \ {x}) \ {y}] \in Nat /\ v[x] \in Nat /\ v[y] \in Nat
    BY <1>3, <2>2, <2>3, <2>4, <2>9
  <2> DEFINE rest == g[(s \ {x}) \ {y}]
  <2>11. g[s \ {y}] = v[x] + rest /\ g[s \ {x}] = v[y] + rest
    BY <2>7, <2>8, <2>9
  <2>12. rest \in Nat
    BY <2>10
  <2> HIDE DEF rest
  <2>13. g[s] = v[y] + (v[x] + rest)
    BY <2>4, <2>11
  <2>14. v[x] + g[s \ {x}] = v[x] + (v[y] + rest)
    BY <2>11
  <2>15. v[y] + (v[x] + rest) = v[x] + (v[y] + rest)
    BY <2>10, <2>12
  <2> QED BY <2>2, <2>13, <2>14, <2>15
<1>5. g \in [SUBSET S -> Nat]
  <2>1. g = [s \in SUBSET S |-> g[s]]
    BY DEF Folded
  <2> QED BY <1>3, <2>1
<1> QED BY <1>1, <1>4, <1>5 DEF Sums

LEMMA FoldExists ==
  ASSUME NEW S, IsFiniteSet(S), NEW v \in [S -> Nat]
  PROVE  \E g : Folded(g, v, S)
<1> DEFINE c(s) == CHOOSE x \in s : TRUE
           D(n) == {s \in SUBSET S : Cardinality(s) <= n}
           H(n) == \E g : g = [s \in D(n) |-> IF s = {} THEN 0 ELSE v[c(s)] + g[s \ {c(s)}]]
           Bad == {n \in Nat : ~ H(n)}
<1>0. \A s \in SUBSET S : s # {} => c(s) \in s
  OBVIOUS
<1>1. \A s \in SUBSET S : IsFiniteSet(s) /\ Cardinality(s) \in Nat
  BY FS_Subset, FS_CardinalityType
<1>2. D(0) = {{}}
  <2>1. \A s \in D(0) : s = {}
    BY <1>1, FS_EmptySet
  <2>2. {} \in D(0)
    BY FS_EmptySet
  <2> QED BY <2>1, <2>2
<1> HIDE DEF c
<1>3. H(0)
  <2> DEFINE g == [s \in D(0) |-> 0]
  <2>1. g = [s \in D(0) |-> IF s = {} THEN 0 ELSE v[c(s)] + g[s \ {c(s)}]]
    BY <1>2
  <2> QED BY <2>1
<1>4. ASSUME NEW n \in Nat, H(n)
      PROVE  H(n + 1)
  <2>1. PICK g : g = [s \in D(n) |-> IF s = {} THEN 0 ELSE v[c(s)] + g[s \ {c(s)}]]
    BY <1>4
  <2> DEFINE h == [s \in D(n + 1) |-> IF s = {} THEN 0 ELSE v[c(s)] + g[s \ {c(s)}]]
  <2>2. D(n) \subseteq D(n + 1)
    BY <1>1
  <2>3. \A s \in D(n) : h[s] = g[s]
    BY <2>1, <2>2
  <2>4. \A s \in D(n + 1) : s # {} => s \ {c(s)} \in D(n)
    BY <1>0, <1>1, LessOne
  <2>5. h = [s \in D(n + 1) |-> IF s = {} THEN 0 ELSE v[c(s)] + h[s \ {c(s)}]]
    BY <2>3, <2>4
  <2> QED BY <2>5
<1>5. Bad = {}
  <2> SUFFICES ASSUME Bad # {} PROVE FALSE
    OBVIOUS
  <2> HIDE DEF H
  <2>0. \A n \in Nat : n \in Bad <=> ~ H(n)
    OBVIOUS
  <2>a. Bad \in SUBSET Nat
    OBVIOUS
  <2> HIDE DEF Bad
  <2>1. PICK n \in Bad : \A m \in Bad : n <= m
    <3>1. Min(Bad) \in Bad /\ \A m \in Bad : Min(Bad) <= m
      BY <2>a, MinProperty
    <3> QED BY <3>1
  <2>2. n \in Nat /\ n # 0
    BY <1>3, <2>0, <2>a, <2>1
  <2>3. n - 1 \in Nat /\ n - 1 \notin Bad /\ (n - 1) + 1 = n
    BY <2>1, <2>2
  <2>4. H(n - 1)
    BY <2>0, <2>3
  <2>5. H((n - 1) + 1)
    BY <1>4, <2>3, <2>4
  <2> QED BY <2>0, <2>1, <2>2, <2>3, <2>5
<1>6. Cardinality(S) \in Nat
  BY FS_CardinalityType
<1>7. H(Cardinality(S))
  <2> HIDE DEF H
  <2> QED BY <1>5, <1>6
<1>8. D(Cardinality(S)) = SUBSET S
  BY FS_Subset, <1>1, <1>6
<1> QED BY <1>7, <1>8 DEF Folded, c

LEMMA SumOverFolds ==
  ASSUME NEW S, IsFiniteSet(S), NEW q, NEW field, \A k \in S : q[k][field] \in Nat
  PROVE  \E g : Sums(g, [k \in S |-> q[k][field]], S) /\ SumOver(q, field, S) = g[S]
<1> DEFINE v == [k \in S |-> q[k][field]]
           P(iter) == iter = [s \in SUBSET S |-> IF s = {} THEN 0
                        ELSE LET x == CHOOSE x \in s : TRUE IN q[x][field] + iter[s \ {x}]]
<1>1. v \in [S -> Nat]
  OBVIOUS
<1>2. \A g : Folded(g, v, S) <=> P(g)
  BY DEF Folded
<1> HIDE DEF P, v
<1>3. PICK g : P(g)
  BY <1>1, <1>2, FoldExists
<1>4. P(CHOOSE iter : P(iter))
  BY <1>3
<1>5. SumOver(q, field, S) = (CHOOSE iter : P(iter))[S]
  BY DEF SumOver, MapThenSumSet, MapThenFoldSet, P
<1> QED BY <1>1, <1>2, <1>4, <1>5, FoldedSums DEF v

\* v and w agree on R.
Agree(v, w, R) == \A x \in R : v[x] = w[x]

LEMMA SumsAgree ==
  ASSUME NEW S, NEW T, IsFiniteSet(S), NEW v, NEW w, NEW g, NEW h,
         Sums(g, v, S), Sums(h, w, T),
         NEW R, R \subseteq S, R \subseteq T, Agree(v, w, R)
  PROVE  g[R] = h[R]
<1> DEFINE Bad == {s \in SUBSET R : g[s] # h[s]}
<1>1. SUFFICES ASSUME Bad # {} PROVE FALSE
  OBVIOUS
<1>a. Bad \in SUBSET SUBSET R /\ \A s \in SUBSET R : s \in Bad <=> g[s] # h[s]
  OBVIOUS
<1> HIDE DEF Bad
<1>2. IsFiniteSet(R)
  BY FS_Subset
<1>3. PICK s \in Bad : \A t \in SUBSET R : Cardinality(t) < Cardinality(s) => t \notin Bad
  BY <1>a, <1>1, <1>2, SmallerFirst
<1>4. s # {}
  BY <1>a, <1>3 DEF Sums
<1>5. PICK x \in s : TRUE
  BY <1>4
<1>6. Cardinality(s \ {x}) < Cardinality(s)
  BY <1>a, <1>2, <1>3, <1>5, LessOne
<1>7. g[s \ {x}] = h[s \ {x}]
  BY <1>a, <1>3, <1>6
<1>8. g[s] = v[x] + g[s \ {x}] /\ h[s] = w[x] + h[s \ {x}] /\ v[x] = w[x]
  BY <1>a, <1>3, <1>5 DEF Sums, Agree
<1> QED BY <1>a, <1>3, <1>7, <1>8

Numbers(q, field, S) == \A j \in S : q[j][field] \in Nat

Alike(p, q, field, S) == \A j \in S : p[j][field] = q[j][field]

LEMMA SumTyped ==
  ASSUME NEW S, IsFiniteSet(S), NEW q, NEW field, \A k \in S : q[k][field] \in Nat
  PROVE  SumOver(q, field, S) \in Nat
<1>1. PICK g : Sums(g, [k \in S |-> q[k][field]], S) /\ SumOver(q, field, S) = g[S]
  BY SumOverFolds
<1> QED BY <1>1 DEF Sums

LEMMA SumPut ==
  ASSUME NEW S, IsFiniteSet(S), NEW q, NEW p, NEW field, NEW k \in S,
         Numbers(q, field, S), Numbers(p, field, S), Alike(p, q, field, S \ {k})
  PROVE  SumOver(p, field, S) + q[k][field] = SumOver(q, field, S) + p[k][field]
<1> DEFINE v == [j \in S |-> q[j][field]]
           w == [j \in S |-> p[j][field]]
<1>1. PICK g : Sums(g, v, S) /\ SumOver(q, field, S) = g[S]
  BY SumOverFolds DEF Numbers
<1>2. PICK h : Sums(h, w, S) /\ SumOver(p, field, S) = h[S]
  BY SumOverFolds DEF Numbers
<1>3. Agree(v, w, S \ {k})
  BY DEF Agree, Alike
<1>4. v[k] = q[k][field] /\ w[k] = p[k][field] /\ v[k] \in Nat /\ w[k] \in Nat
  BY DEF Numbers
<1> HIDE DEF v, w
<1>5. g[S \ {k}] = h[S \ {k}]
  BY <1>1, <1>2, <1>3, SumsAgree
<1>6. /\ g[S] = v[k] + g[S \ {k}] /\ h[S] = w[k] + h[S \ {k}]
      /\ g[S \ {k}] \in Nat
  BY <1>1, <1>2 DEF Sums
<1>7. (w[k] + g[S \ {k}]) + v[k] = (v[k] + g[S \ {k}]) + w[k]
  BY <1>4, <1>6
<1> QED BY <1>1, <1>2, <1>4, <1>5, <1>6, <1>7

LEMMA SumMore ==
  ASSUME NEW S, IsFiniteSet(S), NEW q, NEW p, NEW field, NEW n, n \notin S, NEW T, T = S \cup {n},
         Numbers(q, field, S), Alike(p, q, field, S), p[n][field] \in Nat
  PROVE  SumOver(p, field, T) = SumOver(q, field, S) + p[n][field]
<1> DEFINE v == [j \in S |-> q[j][field]]
           w == [j \in T |-> p[j][field]]
<1>1. PICK g : Sums(g, v, S) /\ SumOver(q, field, S) = g[S]
  BY SumOverFolds DEF Numbers
<1>2. IsFiniteSet(T)
  BY FS_AddElement
<1>3. PICK h : Sums(h, w, T) /\ SumOver(p, field, T) = h[T]
  BY <1>2, SumOverFolds DEF Numbers, Alike
<1>8. Agree(v, w, S)
  BY DEF Agree, Alike
<1>4. w[n] = p[n][field] /\ w[n] \in Nat
  OBVIOUS
<1>5. S \subseteq S /\ S \subseteq T /\ T \in SUBSET T /\ n \in T /\ T \ {n} = S
  OBVIOUS
<1> HIDE DEF v, w
<1>6. g[S] = h[S]
  BY <1>1, <1>3, <1>5, <1>8, SumsAgree
<1>7. h[T] = w[n] + h[S] /\ h[S] \in Nat
  BY <1>3, <1>5 DEF Sums
<1> QED BY <1>1, <1>3, <1>4, <1>6, <1>7

LEMMA SumZero ==
  ASSUME NEW S, IsFiniteSet(S), NEW q, NEW field, \A k \in S : q[k][field] = 0
  PROVE  SumOver(q, field, S) = 0
<1> DEFINE v == [j \in S |-> q[j][field]]
           h == [s \in SUBSET S |-> 0]
<1>1. PICK g : Sums(g, v, S) /\ SumOver(q, field, S) = g[S]
  BY SumOverFolds DEF Numbers
<1>2. Sums(h, v, S)
  BY DEF Sums
<1>3. S \subseteq S /\ h[S] = 0 /\ Agree(v, v, S)
  BY DEF Agree
<1> HIDE DEF v, h
<1>4. g[S] = h[S]
  BY <1>1, <1>2, <1>3, SumsAgree
<1> QED BY <1>1, <1>3, <1>4

-----------------------------------------------------------------------------
(***************************************************************************)
(* The access log: one AsyncStore.                                         *)
(***************************************************************************)
SinkPlaces == {"select", "write", "ack", "ended"}

Amounts == {"pending", "batch", "dropped", "stored", "kept", "both", "discarded"}

SinkRecords ==
  [kind : {"db", "discard"}, pending : Nat, batch : Nat, dropped : Nat,
   stored : Nat, kept : Nat, both : Nat, discarded : Nat,
   wake : BOOLEAN, closed : BOOLEAN, done : BOOLEAN, at : SinkPlaces,
   tries : Nat, ack : Switchers \cup {"nobody"}, failed : BOOLEAN]

\* A closed sink takes nothing more, and its goroutine has nothing in hand
\* but what a flush waits for; what is kept is of the batch in hand.
SinkOK(s) ==
  /\ s.closed => s.pending = 0
  /\ s.kept <= s.batch
  /\ s.kind = "discard" => s.kept = 0
  /\ s.at # "write" => s.batch = 0
  /\ s.at = "ack" => s.ack # "nobody"
  /\ s.ack # "nobody" => s.closed /\ s.at \in {"write", "ack"}
  /\ s.closed /\ s.at = "write" => s.ack # "nobody"

\* The records a sink has met, and those of them it counts twice.
Counted(s) == s.pending + s.batch + s.stored + s.dropped + s.discarded

Twice(s) == s.kept + s.both

\* From s to t a sink has met n records more, and accounts for each.
Balanced(s, t, n) == Counted(t) + Twice(s) = Counted(s) + Twice(t) + n

Idle(s) == s.pending = 0 /\ s.at \in {"select", "ended"}

Steady(s, t) == t.closed = s.closed /\ t.ack = s.ack /\ (Idle(s) => Idle(t))

Lives ==
  [op : {"none", "start", "close", "stop"}, at : {"none", "look", "send", "wait"}, of : Nat]

RequestRecords == [at : {"none", "chain", "hook", "log", "gone"}, sink : Nat]

\* A switcher does nothing, or is in a Start or Stop of some sink.
Engaged(l, S) == l.of \in S /\ l.op # "none" /\ l.at # "none"

LifeOK ==
  /\ life \in [Switchers -> Lives]
  /\ \A w \in Switchers : life[w] = NoLife \/ Engaged(life[w], Sinks)

FetchedOK ==
  /\ request \in [Requests -> RequestRecords]
  /\ \A r \in Requests : request[r].at = "log" => request[r].sink \in Sinks

LogTypeOK ==
  /\ sinks \in Seq(SinkRecords) /\ sinks # <<>>
  /\ \A k \in Sinks : SinkOK(sinks[k])
  /\ LifeOK /\ written \in Nat /\ FetchedOK

LEMMA NobodyAsks == "nobody" \notin Switchers
BY AccessLogAssumption DEF Switchers

LEMMA SinkFields ==
  ASSUME NEW s \in SinkRecords
  PROVE  /\ s.pending \in Nat /\ s.batch \in Nat /\ s.dropped \in Nat /\ s.stored \in Nat
         /\ s.kept \in Nat /\ s.both \in Nat /\ s.discarded \in Nat
         /\ s.kind \in {"db", "discard"} /\ s.at \in SinkPlaces
         /\ s.closed \in BOOLEAN /\ s.done \in BOOLEAN /\ s.ack \in Switchers \cup {"nobody"}
         /\ Counted(s) \in Nat /\ Twice(s) \in Nat
BY DEF SinkRecords, Counted, Twice

LEMMA NewSinkTyped ==
  ASSUME NEW kind \in {"db", "discard"}
  PROVE  /\ NewSink(kind) \in SinkRecords /\ SinkOK(NewSink(kind)) /\ Idle(NewSink(kind))
         /\ NewSink(kind).ack = "nobody"
         /\ \A field \in Amounts : NewSink(kind)[field] = 0
BY DEF NewSink, SinkRecords, SinkPlaces, SinkOK, Idle, Amounts

LEMMA WriteToSink ==
  ASSUME NEW s \in SinkRecords, SinkOK(s)
  PROVE  LET t == IF s.closed \/ s.pending >= AsyncCap
                  THEN [s EXCEPT !.dropped = @ + 1]
                  ELSE [s EXCEPT !.pending = @ + 1, !.wake = TRUE]
         IN  /\ t \in SinkRecords /\ SinkOK(t) /\ Balanced(s, t, 1)
             /\ t.closed = s.closed /\ t.ack = s.ack
<1>0. /\ s.pending \in Nat /\ s.batch \in Nat /\ s.dropped \in Nat /\ s.stored \in Nat
      /\ s.kept \in Nat /\ s.both \in Nat /\ s.discarded \in Nat
      /\ s.pending + 1 \in Nat /\ s.dropped + 1 \in Nat
  BY SinkFields
<1>1. CASE s.closed \/ s.pending >= AsyncCap
  <2> DEFINE t == [s EXCEPT !.dropped = @ + 1]
  <2>1. t \in SinkRecords
    BY <1>0 DEF SinkRecords
  <2>2. /\ t.pending = s.pending /\ t.batch = s.batch /\ t.stored = s.stored
        /\ t.dropped = s.dropped + 1
        /\ t.kept = s.kept /\ t.both = s.both /\ t.discarded = s.discarded
        /\ t.kind = s.kind /\ t.closed = s.closed /\ t.ack = s.ack /\ t.at = s.at
    BY DEF SinkRecords
  <2> HIDE DEF t
  <2>3. SinkOK(t) /\ Balanced(s, t, 1)
    BY <1>0, <2>2 DEF SinkOK, Balanced, Counted, Twice
  <2> QED BY <1>1, <2>1, <2>2, <2>3 DEF t
<1>2. CASE ~ (s.closed \/ s.pending >= AsyncCap)
  <2> DEFINE t == [s EXCEPT !.pending = @ + 1, !.wake = TRUE]
  <2>1. t \in SinkRecords
    BY <1>0 DEF SinkRecords
  <2>2. /\ t.pending = s.pending + 1 /\ t.batch = s.batch /\ t.stored = s.stored
        /\ t.dropped = s.dropped
        /\ t.kept = s.kept /\ t.both = s.both /\ t.discarded = s.discarded
        /\ t.kind = s.kind /\ t.closed = s.closed /\ t.ack = s.ack /\ t.at = s.at
    BY DEF SinkRecords
  <2> HIDE DEF t
  <2>3. SinkOK(t) /\ Balanced(s, t, 1)
    BY <1>0, <1>2, <2>2 DEF SinkOK, Balanced, Counted, Twice
  <2> QED BY <1>2, <2>1, <2>2, <2>3 DEF t
<1> QED BY <1>1, <1>2

LEMMA TakeFromSink ==
  ASSUME NEW s \in SinkRecords
  PROVE  /\ Take(s) \in SinkRecords
         /\ Take(s).pending = 0 /\ Take(s).batch = s.pending
         /\ Take(s).stored = s.stored /\ Take(s).dropped = s.dropped
         /\ Take(s).kept = s.kept /\ Take(s).both = s.both /\ Take(s).discarded = s.discarded
         /\ Take(s).kind = s.kind /\ Take(s).closed = s.closed /\ Take(s).ack = s.ack
         /\ Take(s).at = (IF s.pending > 0 THEN "write" ELSE "select")
<1>1. Take(s) \in SinkRecords
  BY DEF SinkRecords, SinkPlaces, Take
<1> QED BY <1>1 DEF SinkRecords, Take

LEMMA InTableBounds ==
  ASSUME NEW s \in SinkRecords, SinkOK(s), NEW n \in 0 .. s.batch - 1
  PROVE  /\ InTable(s, n) \in Nat /\ s.kept <= InTable(s, n) /\ InTable(s, n) <= s.batch
         /\ s.stored + InTable(s, n) - s.kept \in Nat /\ s.both + InTable(s, n) \in Nat
         /\ s.dropped + s.batch \in Nat
<1>1. s.batch \in Nat /\ s.kept \in Nat /\ s.stored \in Nat /\ s.both \in Nat /\ s.dropped \in Nat
  BY SinkFields
<1>2. n \in Nat /\ n <= s.batch - 1 /\ s.kept <= s.batch
  BY <1>1 DEF SinkOK
<1>3. InTable(s, n) = n \/ InTable(s, n) = s.kept
  BY DEF InTable
<1>4. InTable(s, n) \in Nat /\ s.kept <= InTable(s, n) /\ InTable(s, n) <= s.batch
  BY <1>1, <1>2 DEF InTable
<1> QED BY <1>1, <1>4

\* Where a batch of a sink can go, and what becomes of the sink.
Outcomes(s) ==
  {BatchStored(s)} \cup {FirstTryFailed(s, n) : n \in 0 .. s.batch - 1}
    \cup {BatchLost(s, n) : n \in 0 .. s.batch - 1}

LEMMA BatchKeeps ==
  ASSUME NEW s \in SinkRecords, SinkOK(s), s.at = "write",
         NEW t, \/ s.kind = "db" /\ t \in Outcomes(s)
                \/ s.kind = "discard" /\ t = BatchDiscarded(s)
  PROVE  /\ t \in SinkRecords /\ SinkOK(t) /\ Balanced(s, t, 0)
         /\ t.closed = s.closed /\ t.ack = s.ack
<1> DEFINE next == AfterBatch(s)
<1>0. /\ s.pending \in Nat /\ s.batch \in Nat /\ s.dropped \in Nat /\ s.stored \in Nat
      /\ s.kept \in Nat /\ s.both \in Nat /\ s.discarded \in Nat /\ s.kept <= s.batch
      /\ s.discarded + s.batch \in Nat /\ s.stored + s.batch - s.kept \in Nat
  <2>1. /\ s.pending \in Nat /\ s.batch \in Nat /\ s.dropped \in Nat /\ s.stored \in Nat
        /\ s.kept \in Nat /\ s.both \in Nat /\ s.discarded \in Nat /\ s.kept <= s.batch
    BY SinkFields DEF SinkOK
  <2> QED BY <2>1
<1>n. next \in SinkPlaces /\ next = (IF s.ack # "nobody" THEN "ack" ELSE "select")
  BY DEF AfterBatch, SinkPlaces
<1> HIDE DEF next
<1>1. CASE s.kind = "discard" /\ t = BatchDiscarded(s)
  <2>1. t = [s EXCEPT !.discarded = @ + s.batch, !.batch = 0, !.at = next]
    BY <1>1 DEF BatchDiscarded, next
  <2>2. t \in SinkRecords
    BY <1>0, <1>n, <2>1 DEF SinkRecords
  <2>3. /\ t.pending = s.pending /\ t.batch = 0 /\ t.stored = s.stored /\ t.dropped = s.dropped
        /\ t.kept = s.kept /\ t.both = s.both /\ t.discarded = s.discarded + s.batch
        /\ t.kind = s.kind /\ t.closed = s.closed /\ t.ack = s.ack /\ t.at = next
    BY <2>1 DEF SinkRecords
  <2>4. SinkOK(t)
    BY <1>0, <1>1, <1>n, <2>3 DEF SinkOK
  <2>5. Balanced(s, t, 0)
    BY <1>0, <2>3 DEF Balanced, Counted, Twice
  <2> QED BY <2>2, <2>3, <2>4, <2>5
<1>2. CASE t = BatchStored(s) /\ s.kind = "db"
  <2>1. t = [s EXCEPT !.stored = @ + s.batch - s.kept, !.batch = 0, !.kept = 0, !.at = next]
    BY <1>2 DEF BatchStored, next
  <2>2. t \in SinkRecords
    BY <1>0, <1>n, <2>1 DEF SinkRecords
  <2>3. /\ t.pending = s.pending /\ t.batch = 0 /\ t.stored = s.stored + s.batch - s.kept
        /\ t.dropped = s.dropped /\ t.kept = 0 /\ t.both = s.both /\ t.discarded = s.discarded
        /\ t.kind = s.kind /\ t.closed = s.closed /\ t.ack = s.ack /\ t.at = next
    BY <2>1 DEF SinkRecords
  <2>4. SinkOK(t)
    BY <1>0, <1>n, <2>3 DEF SinkOK
  <2>5. Balanced(s, t, 0)
    BY <1>0, <2>3 DEF Balanced, Counted, Twice
  <2> QED BY <2>2, <2>3, <2>4, <2>5
<1>3. ASSUME NEW n \in 0 .. s.batch - 1, t = FirstTryFailed(s, n), s.kind = "db"
      PROVE  /\ t \in SinkRecords /\ SinkOK(t) /\ Balanced(s, t, 0)
             /\ t.closed = s.closed /\ t.ack = s.ack
  <2> DEFINE i == InTable(s, n)
  <2>0. i \in Nat /\ s.kept <= i /\ i <= s.batch /\ s.stored + i - s.kept \in Nat
    BY InTableBounds
  <2>1. t = [s EXCEPT !.stored = @ + i - s.kept, !.kept = i, !.tries = 1]
    BY <1>3 DEF FirstTryFailed
  <2> HIDE DEF i
  <2>2. t \in SinkRecords
    BY <1>0, <2>0, <2>1 DEF SinkRecords
  <2>3. /\ t.pending = s.pending /\ t.batch = s.batch /\ t.stored = s.stored + i - s.kept
        /\ t.dropped = s.dropped /\ t.kept = i /\ t.both = s.both /\ t.discarded = s.discarded
        /\ t.kind = s.kind /\ t.closed = s.closed /\ t.ack = s.ack /\ t.at = s.at
    BY <2>1 DEF SinkRecords
  <2>4. SinkOK(t)
    BY <1>0, <1>3, <2>0, <2>3 DEF SinkOK
  <2>5. Balanced(s, t, 0)
    BY <1>0, <2>0, <2>3 DEF Balanced, Counted, Twice
  <2> QED BY <2>2, <2>3, <2>4, <2>5
<1>4. ASSUME NEW n \in 0 .. s.batch - 1, t = BatchLost(s, n)
      PROVE  /\ t \in SinkRecords /\ SinkOK(t) /\ Balanced(s, t, 0)
             /\ t.closed = s.closed /\ t.ack = s.ack
  <2> DEFINE i == InTable(s, n)
  <2>0. /\ i \in Nat /\ s.kept <= i /\ i <= s.batch /\ s.stored + i - s.kept \in Nat
        /\ s.both + i \in Nat /\ s.dropped + s.batch \in Nat
    BY InTableBounds
  <2>1. t = [s EXCEPT !.stored = @ + i - s.kept, !.both = @ + i, !.kept = 0,
                      !.dropped = @ + s.batch, !.batch = 0, !.failed = TRUE, !.at = next]
    BY <1>4 DEF BatchLost, Dropped, next
  <2> HIDE DEF i
  <2>2. t \in SinkRecords
    BY <1>0, <1>n, <2>0, <2>1 DEF SinkRecords
  <2>3. /\ t.pending = s.pending /\ t.batch = 0 /\ t.stored = s.stored + i - s.kept
        /\ t.dropped = s.dropped + s.batch /\ t.kept = 0 /\ t.both = s.both + i
        /\ t.discarded = s.discarded
        /\ t.kind = s.kind /\ t.closed = s.closed /\ t.ack = s.ack /\ t.at = next
    BY <2>1 DEF SinkRecords
  <2>4. SinkOK(t)
    BY <1>0, <1>n, <2>0, <2>3 DEF SinkOK
  <2>5. Balanced(s, t, 0)
    BY <1>0, <2>0, <2>3 DEF Balanced, Counted, Twice
  <2> QED BY <2>2, <2>3, <2>4, <2>5
<1> QED BY <1>1, <1>2, <1>3, <1>4 DEF Outcomes

\* What the goroutine of a sink does to the switchers.
Flushes(k, t) ==
  \E w \in Switchers :
    /\ life[w].at = "send" /\ life[w].of = k /\ life' = [life EXCEPT ![w].at = "wait"]
    /\ t.closed /\ t.ack = w

Answers(k, t) ==
  /\ sinks[k].at = "ack" /\ life' = Answered(k)
  /\ t.closed = sinks[k].closed /\ t.ack = "nobody"

(***************************************************************************)
(* The goroutine of a sink loses nothing, and touches no other sink.       *)
(***************************************************************************)
LEMMA RunKeeps ==
  ASSUME LogTypeOK, NEW k \in Sinks, Run(k)
  PROVE  \E t \in SinkRecords :
           /\ Put(k, t) /\ SinkOK(t) /\ Balanced(sinks[k], t, 0)
           /\ (life' = life /\ Steady(sinks[k], t)) \/ Flushes(k, t) \/ Answers(k, t)
<1> DEFINE s == sinks[k]
<1>0. /\ s \in SinkRecords /\ SinkOK(s)
      /\ s.pending \in Nat /\ s.batch \in Nat /\ s.dropped \in Nat /\ s.stored \in Nat
      /\ s.kept \in Nat /\ s.both \in Nat /\ s.discarded \in Nat
  <2>1. s \in SinkRecords /\ SinkOK(s)
    BY DEF LogTypeOK, Sinks
  <2> QED BY <2>1, SinkFields
<1> HIDE DEF s
<1>1. CASE WritePending(k)
  <2> DEFINE t == [Take(s) EXCEPT !.wake = FALSE]
  <2>1. s.at = "select" /\ Put(k, t) /\ life' = life
    BY <1>1 DEF WritePending, s
  <2>2. t \in SinkRecords
    BY <1>0, TakeFromSink DEF SinkRecords
  <2>3. /\ t.pending = 0 /\ t.batch = s.pending /\ t.stored = s.stored /\ t.dropped = s.dropped
        /\ t.kept = s.kept /\ t.both = s.both /\ t.discarded = s.discarded
        /\ t.kind = s.kind /\ t.closed = s.closed /\ t.ack = s.ack
        /\ t.at = (IF s.pending > 0 THEN "write" ELSE "select")
    BY <1>0, TakeFromSink DEF SinkRecords
  <2> HIDE DEF t
  <2>4. SinkOK(t) /\ Balanced(s, t, 0) /\ Steady(s, t)
    BY <1>0, <2>1, <2>3 DEF SinkOK, Balanced, Counted, Twice, Steady, Idle
  <2> QED BY <2>1, <2>2, <2>4 DEF t, s
<1>2. CASE FlushAll(k)
  <2>1. PICK w \in Switchers :
          /\ life[w].at = "send" /\ life[w].of = k /\ life' = [life EXCEPT ![w].at = "wait"]
          /\ Put(k, [Take(s) EXCEPT !.ack = w, !.closed = TRUE,
                                    !.at = IF s.pending > 0 THEN "write" ELSE "ack"])
    BY <1>2 DEF FlushAll, s
  <2> DEFINE at == IF s.pending > 0 THEN "write" ELSE "ack"
             u == Take(s)
             t == [u EXCEPT !.ack = w, !.closed = TRUE, !.at = at]
  <2>2. s.at = "select" /\ w # "nobody"
    BY <1>2, NobodyAsks DEF FlushAll, s
  <2>3. t \in SinkRecords
    <3>1. u \in SinkRecords /\ at \in SinkPlaces /\ w \in Switchers \cup {"nobody"}
      BY <1>0, TakeFromSink DEF SinkPlaces
    <3> HIDE DEF u, at
    <3> QED BY <3>1 DEF SinkRecords
  <2>4. /\ t.pending = 0 /\ t.batch = s.pending /\ t.stored = s.stored /\ t.dropped = s.dropped
        /\ t.kept = s.kept /\ t.both = s.both /\ t.discarded = s.discarded
        /\ t.kind = s.kind /\ t.closed = TRUE /\ t.ack = w
        /\ t.at = (IF s.pending > 0 THEN "write" ELSE "ack")
    BY <1>0, TakeFromSink DEF SinkRecords
  <2>5. Put(k, t)
    BY <2>1
  <2> HIDE DEF t
  <2>6. SinkOK(t) /\ Balanced(s, t, 0)
    BY <1>0, <2>2, <2>4 DEF SinkOK, Balanced, Counted, Twice
  <2>7. Flushes(k, t)
    BY <2>1, <2>4 DEF Flushes
  <2> QED BY <2>3, <2>5, <2>6, <2>7 DEF s
<1>3. CASE WriteBatch(k)
  <2>0. s.at = "write" /\ life' = life
    BY <1>3 DEF WriteBatch, s
  <2>1. \E t : /\ Put(k, t)
               /\ \/ s.kind = "discard" /\ t = BatchDiscarded(s)
                  \/ s.kind = "db" /\ t \in Outcomes(s)
    <3>1. \/ s.kind = "discard" /\ Put(k, BatchDiscarded(s))
          \/ s.kind = "db" /\ Put(k, BatchStored(s))
          \/ \E n \in 0 .. s.batch - 1 :
               /\ s.kind = "db"
               /\ Put(k, FirstTryFailed(s, n)) \/ Put(k, BatchLost(s, n))
      BY <1>3 DEF WriteBatch, s
    <3> QED BY <3>1 DEF Outcomes
  <2>2. PICK t : /\ Put(k, t)
                 /\ \/ s.kind = "discard" /\ t = BatchDiscarded(s)
                    \/ s.kind = "db" /\ t \in Outcomes(s)
    BY <2>1
  <2>3. t \in SinkRecords /\ Balanced(s, t, 0) /\ t.closed = s.closed /\ t.ack = s.ack /\ SinkOK(t)
    BY <1>0, <2>0, <2>2, BatchKeeps
  <2>4. ~ Idle(s)
    BY <2>0 DEF Idle
  <2> QED BY <2>0, <2>2, <2>3, <2>4 DEF Steady, s
<1>4. CASE Acknowledge(k)
  <2>1. PICK d \in BOOLEAN : Put(k, [s EXCEPT !.at = "select", !.ack = "nobody", !.done = d])
    <3>1. PICK e : Put(k, [s EXCEPT !.at = "select", !.ack = "nobody", !.done = s.done \/ e])
      BY <1>4 DEF Acknowledge, s
    <3>2. (s.done \/ e) \in BOOLEAN
      OBVIOUS
    <3> QED BY <3>1, <3>2
  <2> DEFINE t == [s EXCEPT !.at = "select", !.ack = "nobody", !.done = d]
  <2>2. s.at = "ack" /\ Put(k, t) /\ life' = Answered(k)
    BY <1>4, <2>1 DEF Acknowledge, s
  <2>3. t \in SinkRecords
    BY <1>0 DEF SinkRecords, SinkPlaces
  <2>4. /\ t.pending = s.pending /\ t.batch = s.batch /\ t.stored = s.stored
        /\ t.dropped = s.dropped
        /\ t.kept = s.kept /\ t.both = s.both /\ t.discarded = s.discarded
        /\ t.kind = s.kind /\ t.closed = s.closed /\ t.ack = "nobody" /\ t.at = "select"
    BY <1>0 DEF SinkRecords
  <2> HIDE DEF t
  <2>5. SinkOK(t) /\ Balanced(s, t, 0)
    BY <1>0, <2>2, <2>4 DEF SinkOK, Balanced, Counted, Twice
  <2>6. Answers(k, t)
    BY <2>2, <2>4 DEF Answers, s
  <2> QED BY <2>2, <2>3, <2>5, <2>6 DEF s
<1>5. CASE RunEnds(k)
  <2> DEFINE t == [s EXCEPT !.at = "ended"]
  <2>1. s.at = "select" /\ Put(k, t) /\ life' = life
    BY <1>5 DEF RunEnds, s
  <2>2. t \in SinkRecords
    BY <1>0 DEF SinkRecords, SinkPlaces
  <2>3. /\ t.pending = s.pending /\ t.batch = s.batch /\ t.stored = s.stored
        /\ t.dropped = s.dropped
        /\ t.kept = s.kept /\ t.both = s.both /\ t.discarded = s.discarded
        /\ t.kind = s.kind /\ t.closed = s.closed /\ t.ack = s.ack /\ t.at = "ended"
    BY <1>0 DEF SinkRecords
  <2> HIDE DEF t
  <2>4. SinkOK(t) /\ Balanced(s, t, 0) /\ Steady(s, t)
    BY <1>0, <2>1, <2>3 DEF SinkOK, Balanced, Counted, Twice, Steady, Idle
  <2> QED BY <2>1, <2>2, <2>4 DEF t, s
<1> QED BY <1>1, <1>2, <1>3, <1>4, <1>5 DEF Run

LEMMA SetDone ==
  ASSUME NEW s \in SinkRecords, SinkOK(s), NEW d \in BOOLEAN
  PROVE  LET t == [s EXCEPT !.done = d]
         IN  t \in SinkRecords /\ SinkOK(t) /\ Balanced(s, t, 0) /\ Steady(s, t)
<1> DEFINE t == [s EXCEPT !.done = d]
<1>0. /\ s.pending \in Nat /\ s.batch \in Nat /\ s.dropped \in Nat /\ s.stored \in Nat
      /\ s.kept \in Nat /\ s.both \in Nat /\ s.discarded \in Nat
  BY SinkFields
<1>1. t \in SinkRecords
  BY DEF SinkRecords
<1>2. /\ t.pending = s.pending /\ t.batch = s.batch
      /\ t.stored = s.stored /\ t.dropped = s.dropped
      /\ t.kept = s.kept /\ t.both = s.both /\ t.discarded = s.discarded
      /\ t.kind = s.kind /\ t.closed = s.closed /\ t.ack = s.ack /\ t.at = s.at
  BY DEF SinkRecords
<1> HIDE DEF t
<1>3. SinkOK(t) /\ Balanced(s, t, 0) /\ Steady(s, t)
  BY <1>0, <1>2 DEF SinkOK, Balanced, Counted, Twice, Steady, Idle
<1> QED BY <1>1, <1>3 DEF t

-----------------------------------------------------------------------------
(***************************************************************************)
(* The access log: all the sinks.                                          *)
(***************************************************************************)
AllCounted == InMemory + Total("stored") + Total("dropped") + Total("discarded")

AllTwice == Total("kept") + Total("both")

LEMMA SinksFinite ==
  ASSUME LogTypeOK
  PROVE  /\ Sink \in Nat \ {0} /\ Sinks = 1 .. Sink /\ Sink \in Sinks /\ IsFiniteSet(Sinks)
         /\ \A k \in Sinks : sinks[k] \in SinkRecords /\ SinkOK(sinks[k])
<1>1. sinks \in Seq(SinkRecords) /\ sinks # <<>>
  BY DEF LogTypeOK
<1>2. Sink \in Nat \ {0} /\ Sinks = 1 .. Sink /\ \A k \in Sinks : sinks[k] \in SinkRecords
  BY <1>1 DEF Sink, Sinks
<1>3. IsFiniteSet(1 .. Sink)
  BY <1>2, FS_Interval
<1> QED BY <1>2, <1>3 DEF LogTypeOK

LEMMA AmountsAreNumbers ==
  ASSUME NEW s \in SinkRecords
  PROVE  /\ \A field \in Amounts : s[field] \in Nat
         /\ Counted(s) = s["pending"] + s["batch"] + s["stored"] + s["dropped"] + s["discarded"]
         /\ Twice(s) = s["kept"] + s["both"]
BY DEF SinkRecords, Counted, Twice, Amounts

LEMMA TotalIsSum ==
  ASSUME NEW field
  PROVE  /\ Total(field) = SumOver(sinks, field, Sinks)
         /\ Total(field)' = SumOver(sinks', field, Sinks')
BY DEF Total, SumOver, MapThenSumSet, MapThenFoldSet

LEMMA TotalTyped ==
  ASSUME LogTypeOK, NEW field \in Amounts
  PROVE  Total(field) \in Nat
<1>1. \A k \in Sinks : sinks[k][field] \in Nat
  BY SinksFinite, AmountsAreNumbers
<1>2. SumOver(sinks, field, Sinks) \in Nat
  BY <1>1, SinksFinite, SumTyped
<1> QED BY <1>2, TotalIsSum

LEMMA AllTyped ==
  ASSUME LogTypeOK
  PROVE  /\ AllCounted = Total("pending") + Total("batch") + Total("stored") + Total("dropped")
              + Total("discarded")
         /\ AllCounted \in Nat /\ AllTwice \in Nat
         /\ written \in Nat
         /\ RecordsAccounted <=> written + AllTwice = AllCounted
<1>1. \A field \in Amounts : Total(field) \in Nat
  BY TotalTyped
<1>2. /\ Total("pending") \in Nat /\ Total("batch") \in Nat /\ Total("stored") \in Nat
      /\ Total("dropped") \in Nat /\ Total("discarded") \in Nat
      /\ Total("kept") \in Nat /\ Total("both") \in Nat /\ written \in Nat
  BY <1>1 DEF Amounts, LogTypeOK
<1> QED BY <1>2 DEF AllCounted, AllTwice, InMemory, RecordsAccounted

(***************************************************************************)
(* A change of one sink changes the sums by as much.                       *)
(***************************************************************************)
LEMMA PutCounts ==
  ASSUME LogTypeOK, NEW k \in Sinks, NEW t \in SinkRecords, Put(k, t)
  PROVE  /\ sinks' \in Seq(SinkRecords) /\ Sinks' = Sinks /\ Sink' = Sink
         /\ sinks'[k] = t /\ \A j \in Sinks : j # k => sinks'[j] = sinks[j]
         /\ AllCounted' + Counted(sinks[k]) = AllCounted + Counted(t)
         /\ AllTwice' + Twice(sinks[k]) = AllTwice + Twice(t)
         /\ AllCounted' \in Nat /\ AllTwice' \in Nat
<1>1. sinks' = [sinks EXCEPT ![k] = t] /\ sinks \in Seq(SinkRecords)
  BY DEF Put, LogTypeOK
<1>2. sinks' \in Seq(SinkRecords) /\ Sinks' = Sinks /\ Sink' = Sink
  BY <1>1 DEF Sinks, Sink
<1>3. sinks'[k] = t /\ \A j \in Sinks : j # k => sinks'[j] = sinks[j]
  BY <1>1 DEF Sinks
<1>4. ASSUME NEW field \in Amounts
      PROVE  Total(field)' + sinks[k][field] = Total(field) + t[field] /\ Total(field)' \in Nat
  <2>1. \A j \in Sinks : sinks[j][field] \in Nat /\ sinks'[j][field] \in Nat
    BY <1>3, SinksFinite, AmountsAreNumbers
  <2>2. \A j \in Sinks \ {k} : sinks'[j][field] = sinks[j][field]
    BY <1>3
  <2>3. /\ SumOver(sinks', field, Sinks) + sinks[k][field]
             = SumOver(sinks, field, Sinks) + sinks'[k][field]
        /\ SumOver(sinks', field, Sinks) \in Nat
    <3>1. Numbers(sinks, field, Sinks) /\ Numbers(sinks', field, Sinks)
      BY <2>1 DEF Numbers
    <3>2. Alike(sinks', sinks, field, Sinks \ {k})
      BY <2>2 DEF Alike
    <3>3. IsFiniteSet(Sinks) /\ k \in Sinks
      BY SinksFinite
    <3>4. SumOver(sinks', field, Sinks) \in Nat
      BY <2>1, <3>3, SumTyped
    <3>5. SumOver(sinks', field, Sinks) + sinks[k][field]
            = SumOver(sinks, field, Sinks) + sinks'[k][field]
      BY ONLY <3>1, <3>2, <3>3, SumPut
    <3> QED BY <3>4, <3>5
  <2>4. Total(field)' = SumOver(sinks', field, Sinks)
    BY <1>2, TotalIsSum
  <2>5. Total(field) = SumOver(sinks, field, Sinks)
    BY TotalIsSum
  <2> QED BY <1>3, <2>3, <2>4, <2>5
<1>5. AllCounted' = Total("pending")' + Total("batch")' + Total("stored")' + Total("dropped")'
        + Total("discarded")'
  <2>1. /\ Total("pending")' \in Nat /\ Total("batch")' \in Nat /\ Total("stored")' \in Nat
        /\ Total("dropped")' \in Nat /\ Total("discarded")' \in Nat
    BY <1>4 DEF Amounts
  <2>2. InMemory' = Total("pending")' + Total("batch")'
    BY DEF InMemory
  <2> QED BY <2>1, <2>2 DEF AllCounted
<1>6. AllTwice' = Total("kept")' + Total("both")'
  BY DEF AllTwice
<1>7. /\ AllCounted' + Counted(sinks[k]) = AllCounted + Counted(t)
      /\ AllTwice' + Twice(sinks[k]) = AllTwice + Twice(t)
      /\ AllCounted' \in Nat /\ AllTwice' \in Nat
  <2> DEFINE s == sinks[k]
  <2>1. /\ Counted(s) = s["pending"] + s["batch"] + s["stored"] + s["dropped"] + s["discarded"]
        /\ Twice(s) = s["kept"] + s["both"]
        /\ Counted(t) = t["pending"] + t["batch"] + t["stored"] + t["dropped"] + t["discarded"]
        /\ Twice(t) = t["kept"] + t["both"]
        /\ \A field \in Amounts : s[field] \in Nat /\ t[field] \in Nat
    BY SinksFinite, AmountsAreNumbers
  <2>2. \A field \in Amounts :
          /\ Total(field)' + s[field] = Total(field) + t[field]
          /\ Total(field)' \in Nat /\ Total(field) \in Nat
    BY <1>4, TotalTyped
  <2>3. AllCounted = Total("pending") + Total("batch") + Total("stored") + Total("dropped")
          + Total("discarded")
    BY AllTyped
  <2>4. AllTwice = Total("kept") + Total("both")
    BY DEF AllTwice
  <2> HIDE DEF s
  <2>5. AllTwice' + Twice(s) = AllTwice + Twice(t) /\ AllTwice' \in Nat
    <3>1. /\ s["kept"] \in Nat /\ t["kept"] \in Nat
          /\ Total("kept") \in Nat /\ Total("kept")' \in Nat
          /\ Total("kept")' + s["kept"] = Total("kept") + t["kept"]
      BY <2>1, <2>2 DEF Amounts
    <3>2. /\ s["both"] \in Nat /\ t["both"] \in Nat
          /\ Total("both") \in Nat /\ Total("both")' \in Nat
          /\ Total("both")' + s["both"] = Total("both") + t["both"]
      BY <2>1, <2>2 DEF Amounts
    <3> QED BY <1>6, <2>1, <2>4, <3>1, <3>2
  <2>6. AllCounted' + Counted(s) = AllCounted + Counted(t) /\ AllCounted' \in Nat
    <3> DEFINE Moves(field) ==
          /\ s[field] \in Nat /\ t[field] \in Nat
          /\ Total(field) \in Nat /\ Total(field)' \in Nat
          /\ Total(field)' + s[field] = Total(field) + t[field]
    <3>1. Moves("pending") /\ Moves("batch")
      BY <2>1, <2>2 DEF Amounts
    <3>2. Moves("stored") /\ Moves("dropped") /\ Moves("discarded")
      BY <2>1, <2>2 DEF Amounts
    <3> QED BY <1>5, <2>1, <2>3, <3>1, <3>2
  <2> QED BY <2>5, <2>6 DEF s
<1> QED BY <1>2, <1>3, <1>7

LEMMA AppendOne ==
  ASSUME NEW S, NEW q \in Seq(S), NEW e \in S
  PROVE  /\ Append(q, e) \in Seq(S) /\ Len(Append(q, e)) = Len(q) + 1
         /\ Append(q, e)[Len(q) + 1] = e
         /\ \A k \in 1 .. Len(q) : Append(q, e)[k] = q[k]
OBVIOUS

(***************************************************************************)
(* A new sink has counted nothing.                                         *)
(***************************************************************************)
LEMMA AddCounts ==
  ASSUME LogTypeOK, NEW kind \in {"db", "discard"}, sinks' = Append(sinks, NewSink(kind))
  PROVE  /\ sinks' \in Seq(SinkRecords) /\ Sink' = Sink + 1 /\ Sinks' = Sinks \cup {Sink + 1}
         /\ sinks'[Sink + 1] = NewSink(kind)
         /\ \A k \in Sinks : sinks'[k] = sinks[k]
         /\ AllCounted' = AllCounted /\ AllTwice' = AllTwice
<1>0. Sinks = 1 .. Sink /\ Sink \in Nat /\ Sink + 1 \notin Sinks
  BY SinksFinite
<1>4. /\ sinks' \in Seq(SinkRecords) /\ Sink' = Sink + 1 /\ Sinks' = 1 .. Sink + 1
      /\ sinks'[Sink + 1] = NewSink(kind) /\ \A k \in Sinks : sinks'[k] = sinks[k]
  <2> DEFINE new == NewSink(kind)
  <2>1. new \in SinkRecords /\ sinks \in Seq(SinkRecords) /\ sinks' = Append(sinks, new)
    BY NewSinkTyped DEF LogTypeOK
  <2> HIDE DEF new
  <2>2. sinks' \in Seq(SinkRecords) /\ Len(sinks') = Len(sinks) + 1
    BY ONLY <2>1, AppendOne
  <2>3. sinks'[Len(sinks) + 1] = new /\ \A k \in 1 .. Len(sinks) : sinks'[k] = sinks[k]
    BY ONLY <2>1, AppendOne
  <2>4. Sink' = Sink + 1 /\ Sinks' = 1 .. Sink + 1
    BY <2>2 DEF Sink, Sinks
  <2> QED BY <1>0, <2>2, <2>3, <2>4 DEF new, Sink
<1>5. Sinks' = Sinks \cup {Sink + 1}
  BY <1>0, <1>4
<1>6. ASSUME NEW field \in Amounts
      PROVE  Total(field)' = Total(field)
  <2>1. \A k \in Sinks : sinks[k][field] \in Nat
    BY SinksFinite, AmountsAreNumbers
  <2>2. sinks'[Sink + 1][field] = 0
    BY <1>4, NewSinkTyped
  <2> DEFINE n == Sink + 1
             p == sinks'
             T == Sinks \cup {n}
  <2>a. n \notin Sinks /\ p[n][field] = 0 /\ \A k \in Sinks : p[k][field] = sinks[k][field]
    BY <1>0, <1>4, <2>2
  <2> HIDE DEF n, p, T
  <2>b. SumOver(p, field, T) = SumOver(sinks, field, Sinks) + p[n][field]
    <3>1. Numbers(sinks, field, Sinks) /\ Alike(p, sinks, field, Sinks)
      BY <2>1, <2>a DEF Numbers, Alike
    <3>2. IsFiniteSet(Sinks) /\ n \notin Sinks /\ p[n][field] \in Nat /\ T = Sinks \cup {n}
      BY <2>a, SinksFinite DEF T
    <3> QED BY ONLY <3>1, <3>2, SumMore
  <2>4. SumOver(sinks', field, Sinks \cup {Sink + 1}) = SumOver(sinks, field, Sinks) + 0
    BY <2>a, <2>b DEF n, p, T
  <2>5. Total(field)' = SumOver(sinks', field, Sinks \cup {Sink + 1})
    BY <1>5, TotalIsSum
  <2>6. Total(field) = SumOver(sinks, field, Sinks) /\ Total(field) \in Nat
    BY TotalTyped, TotalIsSum
  <2> QED BY <2>4, <2>5, <2>6
<1>7. AllCounted' = AllCounted /\ AllTwice' = AllTwice
  BY <1>6 DEF AllCounted, AllTwice, InMemory, Amounts
<1> QED BY <1>4, <1>5, <1>7

LEMMA SameSinks ==
  ASSUME UNCHANGED sinks
  PROVE  AllCounted' = AllCounted /\ AllTwice' = AllTwice
<1>1. ASSUME NEW field
      PROVE  Total(field)' = Total(field)
  BY TotalIsSum DEF Sinks
<1> QED BY <1>1 DEF AllCounted, AllTwice, InMemory

-----------------------------------------------------------------------------
(***************************************************************************)
(* The access log: the steps of the process.                               *)
(***************************************************************************)
LEMMA LogTouched ==
  ASSUME Next
  PROVE  \/ UNCHANGED logVars
         \/ \E r \in Requests : OnDone(r)
         \/ \E h \in Reloads : ReloadObs(h)
         \/ BeginStop \/ BeginStart \/ (StopMiddlewares /\ obs = "on") \/ Log \/ Restart
BY DEF Next, RequestStep, Accept, Deny, Forward, LoadSink, Administrate, EnableObs,
   DisableObs, ObsDrained, ObsSwitched, EnableMq, DisableMq, EnableRegistry, DisableRegistry,
   Insert, Reload, HotReload, ReloadMq, ReloadRegistry, Signal, Shutdown, EngineDown,
   StopMiddlewares, StopComponent, ManagerDown, StopEvents, CloseDb, Unchanged,
   Events, Courier, Services

\* One sink changes, and accounts for what was written to it meanwhile.
OneSink(n) ==
  \E k \in Sinks, t \in SinkRecords :
    Put(k, t) /\ SinkOK(t) /\ Balanced(sinks[k], t, n) /\ written' = written + n

OneMore ==
  /\ written' = written
  /\ \E kind \in {"db", "discard"} : sinks' = Append(sinks, NewSink(kind))

LEMMA LifePut ==
  ASSUME LifeOK, NEW w \in Switchers, NEW l \in Lives, l = NoLife \/ Engaged(l, Sinks'),
         life' = [life EXCEPT ![w] = l], Sinks \subseteq Sinks'
  PROVE  LifeOK'
<1>1. life' \in [Switchers -> Lives]
  BY DEF LifeOK
<1>2. ASSUME NEW v \in Switchers
      PROVE  life'[v] = NoLife \/ Engaged(life'[v], Sinks')
  <2>1. CASE v = w
    BY <2>1 DEF LifeOK
  <2>2. CASE v # w
    BY <2>2 DEF LifeOK, Engaged
  <2> QED BY <2>1, <2>2
<1> QED BY <1>1, <1>2 DEF LifeOK

LEMMA NoLifeTyped == NoLife \in Lives /\ NoLife.at = "none" /\ NoLife.op = "none"
BY DEF NoLife, Lives

LEMMA OnDoneLog ==
  ASSUME LogTypeOK, NEW r \in Requests, OnDone(r)
  PROVE  /\ OneSink(1) /\ life' = life
         /\ request[r].at = "log"
         /\ \A j \in Sinks : sinks'[j].closed = sinks[j].closed /\ sinks'[j].ack = sinks[j].ack
<1> DEFINE k == request[r].sink
           s == sinks[k]
           t == IF s.closed \/ s.pending >= AsyncCap
                  THEN [s EXCEPT !.dropped = @ + 1]
                  ELSE [s EXCEPT !.pending = @ + 1, !.wake = TRUE]
<1>1. k \in Sinks /\ request[r].at = "log"
  BY DEF OnDone, LogTypeOK, FetchedOK
<1>2. s \in SinkRecords /\ SinkOK(s)
  BY <1>1, SinksFinite
<1>3. /\ t \in SinkRecords /\ SinkOK(t) /\ Balanced(s, t, 1)
      /\ t.closed = s.closed /\ t.ack = s.ack
  BY <1>2, WriteToSink
<1>4. Put(k, t) /\ written' = written + 1 /\ life' = life
  BY DEF OnDone, Write
<1> HIDE DEF t, k
<1>5. OneSink(1)
  BY <1>1, <1>3, <1>4 DEF OneSink
<1>6. sinks'[k] = t /\ \A j \in Sinks : j # k => sinks'[j] = sinks[j]
  BY <1>1, <1>3, <1>4, PutCounts
<1> QED BY <1>1, <1>3, <1>4, <1>5, <1>6

LEMMA RunLog ==
  ASSUME LogTypeOK, NEW k \in Sinks, Run(k)
  PROVE  OneSink(0) /\ LifeOK'
<1>1. PICK t \in SinkRecords :
        /\ Put(k, t) /\ SinkOK(t) /\ Balanced(sinks[k], t, 0)
        /\ (life' = life /\ Steady(sinks[k], t)) \/ Flushes(k, t) \/ Answers(k, t)
  BY RunKeeps
<1>2. written' = written + 0
  <2>1. written' = written /\ written \in Nat
    BY DEF Run, WritePending, FlushAll, WriteBatch, Acknowledge, RunEnds, LogTypeOK
  <2> QED BY <2>1
<1>3. Sinks' = Sinks /\ LifeOK
  BY <1>1, PutCounts DEF LogTypeOK
<1>a. OneSink(0)
  BY <1>1, <1>2 DEF OneSink
<1>4. CASE life' = life
  BY <1>3, <1>4, <1>a DEF LifeOK, Engaged
<1>5. CASE Flushes(k, t)
  <2>1. PICK w \in Switchers :
          life[w].at = "send" /\ life' = [life EXCEPT ![w].at = "wait"]
    BY <1>5 DEF Flushes
  <2> DEFINE l == [life[w] EXCEPT !.at = "wait"]
  <2>2. life[w] \in Lives /\ Engaged(life[w], Sinks)
    BY <1>3, <2>1, NoLifeTyped DEF LifeOK
  <2>3. l \in Lives /\ l.of = life[w].of /\ l.op = life[w].op /\ l.at = "wait"
    BY <2>2 DEF Lives
  <2>4. life' = [life EXCEPT ![w] = l]
    BY <2>1
  <2> HIDE DEF l
  <2>5. Engaged(l, Sinks')
    BY <1>3, <2>2, <2>3 DEF Engaged
  <2> QED BY <1>3, <1>a, <2>3, <2>4, <2>5, LifePut
<1>6. CASE Answers(k, t)
  <2>1. sinks[k].ack \in Switchers
    BY <1>6, SinksFinite, SinkFields DEF Answers, SinkOK
  <2>2. life' = life \/ life' = [life EXCEPT ![sinks[k].ack] = NoLife]
    BY <1>6 DEF Answers, Answered
  <2> QED BY <1>3, <1>4, <1>a, <2>1, <2>2, LifePut, NoLifeTyped
<1> QED BY <1>1, <1>4, <1>5, <1>6

LEMMA DoneSink ==
  ASSUME LogTypeOK, NEW k \in Sinks, NEW d \in BOOLEAN, Put(k, [sinks[k] EXCEPT !.done = d]),
         written' = written
  PROVE  /\ OneSink(0) /\ Sinks' = Sinks /\ Sink' = Sink
         /\ \A j \in Sinks : Steady(sinks[j], sinks'[j])
<1> DEFINE t == [sinks[k] EXCEPT !.done = d]
<1>1. t \in SinkRecords /\ SinkOK(t) /\ Balanced(sinks[k], t, 0) /\ Steady(sinks[k], t)
  BY SinksFinite, SetDone
<1>2. Put(k, t) /\ written \in Nat
  BY DEF LogTypeOK
<1> HIDE DEF t
<1>3. /\ Sinks' = Sinks /\ Sink' = Sink /\ sinks'[k] = t
      /\ \A j \in Sinks : j # k => sinks'[j] = sinks[j]
  BY <1>1, <1>2, PutCounts
<1> QED BY <1>1, <1>2, <1>3 DEF OneSink, Steady

LEMMA LookLog ==
  ASSUME LogTypeOK, NEW w \in Switchers, Look(w)
  PROVE  /\ life[w].of \in Sinks /\ life[w].at = "look"
         /\ (UNCHANGED <<sinks, written>>) \/ OneSink(0)
         /\ Sinks' = Sinks /\ Sink' = Sink
         /\ \A j \in Sinks : Steady(sinks[j], sinks'[j])
         /\ LifeOK'
         /\ \/ sinks[life[w].of].closed /\ life' = [life EXCEPT ![w] = NoLife]
            \/ life' = [life EXCEPT ![w].at = "send"]
<1> DEFINE k == life[w].of
<1>1. LifeOK /\ life[w].at = "look" /\ written' = written
  BY DEF Look, LogTypeOK
<1>2. life[w] \in Lives /\ Engaged(life[w], Sinks)
  BY <1>1, NoLifeTyped DEF LifeOK
<1>3. k \in Sinks
  BY <1>2 DEF Engaged
<1>4. CASE sinks[k].closed
  <2> DEFINE d == sinks[k].done \/ life[w].op # "stop"
  <2>1. /\ life' = [life EXCEPT ![w] = NoLife] /\ d \in BOOLEAN
        /\ Put(k, [sinks[k] EXCEPT !.done = d])
    BY <1>4 DEF Look
  <2> HIDE DEF d, k
  <2>2. /\ OneSink(0) /\ Sinks' = Sinks /\ Sink' = Sink
        /\ \A j \in Sinks : Steady(sinks[j], sinks'[j])
    BY <1>1, <1>3, <2>1, DoneSink
  <2>3. LifeOK'
    BY <1>1, <2>1, <2>2, LifePut, NoLifeTyped
  <2> QED BY <1>1, <1>3, <1>4, <2>1, <2>2, <2>3 DEF k
<1>5. CASE ~ sinks[k].closed
  <2>1. life' = [life EXCEPT ![w].at = "send"] /\ UNCHANGED sinks
    BY <1>5 DEF Look
  <2> DEFINE l == [life[w] EXCEPT !.at = "send"]
  <2>2. l \in Lives /\ l.of = life[w].of /\ l.op = life[w].op /\ l.at = "send"
    BY <1>2 DEF Lives
  <2>3. life' = [life EXCEPT ![w] = l]
    BY <2>1
  <2> HIDE DEF l
  <2>4. Sinks' = Sinks /\ Sink' = Sink /\ Engaged(l, Sinks')
    BY <1>2, <2>1, <2>2 DEF Engaged, Sinks, Sink
  <2>5. LifeOK'
    BY <1>1, <2>2, <2>3, <2>4, LifePut
  <2>6. \A j \in Sinks : Steady(sinks[j], sinks'[j])
    BY <2>1 DEF Steady
  <2> QED BY <1>1, <1>3, <2>1, <2>4, <2>5, <2>6
<1> QED BY <1>4, <1>5

LEMMA TimeoutLog ==
  ASSUME LogTypeOK, NEW w \in Switchers, FlushTimeout(w)
  PROVE  (UNCHANGED <<sinks, written>> \/ OneSink(0)) /\ LifeOK'
         /\ Spend("timeouts")
         /\ life[w].op # "stop" /\ life[w].op # "none"
         /\ \/ life' = [life EXCEPT ![w] = NoLife]
            \/ life' = [life EXCEPT ![w] = [life[w] EXCEPT !.op = "close", !.at = "look"]]
<1> DEFINE k == life[w].of
<1>1. /\ LifeOK /\ written' = written /\ life[w].op \in {"start", "close"} /\ Spend("timeouts")
      /\ life[w].at \in {"send", "wait"}
  BY DEF FlushTimeout, LogTypeOK
<1>2. life[w] \in Lives /\ Engaged(life[w], Sinks) /\ k \in Sinks
  BY <1>1, NoLifeTyped DEF LifeOK, Engaged
<1>3. CASE /\ life' = [life EXCEPT ![w] = [life[w] EXCEPT !.op = "close", !.at = "look"]]
           /\ UNCHANGED sinks
  <2> DEFINE l == [life[w] EXCEPT !.op = "close", !.at = "look"]
  <2>2. l \in Lives /\ l.of = life[w].of /\ l.op = "close" /\ l.at = "look"
    BY <1>2 DEF Lives
  <2>3. life' = [life EXCEPT ![w] = l]
    BY <1>3
  <2> HIDE DEF l
  <2>4. Sinks' = Sinks /\ Engaged(l, Sinks')
    BY <1>2, <1>3, <2>2 DEF Engaged, Sinks
  <2>5. LifeOK'
    BY <1>1, <2>2, <2>3, <2>4, LifePut
  <2> QED BY <1>1, <1>3, <2>5
<1>4. CASE /\ life' = [life EXCEPT ![w] = NoLife]
           /\ Put(k, [sinks[k] EXCEPT !.done = @ \/ life[w].op = "start"])
  <2> DEFINE d == sinks[k].done \/ life[w].op = "start"
  <2>1. d \in BOOLEAN /\ Put(k, [sinks[k] EXCEPT !.done = d])
    BY <1>4
  <2> HIDE DEF d
  <2>2. OneSink(0) /\ Sinks' = Sinks
    BY <1>1, <1>2, <2>1, DoneSink
  <2>3. LifeOK'
    BY <1>1, <1>4, <2>2, LifePut, NoLifeTyped
  <2> QED BY <1>1, <1>4, <2>2, <2>3
<1> QED BY <1>1, <1>3, <1>4 DEF FlushTimeout

LEMMA StopLog ==
  ASSUME LogTypeOK, NEW w \in Switchers, StopObs(w)
  PROVE  /\ UNCHANGED <<sinks, written>> /\ LifeOK' /\ life[w] = NoLife
         /\ life' = [life EXCEPT ![w] = [op |-> "stop", at |-> "look", of |-> Sink]]
<1> DEFINE l == [op |-> "stop", at |-> "look", of |-> Sink]
<1>1. Sink \in Sinks /\ Sink \in Nat /\ LifeOK
  BY SinksFinite DEF LogTypeOK
<1>2. l \in Lives /\ l.of = Sink /\ l.op # "none" /\ l.at # "none"
  BY <1>1 DEF Lives
<1>3. life' = [life EXCEPT ![w] = l] /\ UNCHANGED <<sinks, written>> /\ life[w] = NoLife
  BY DEF StopObs
<1> HIDE DEF l
<1>4. Sinks' = Sinks /\ Engaged(l, Sinks')
  BY <1>1, <1>2, <1>3 DEF Engaged, Sinks
<1>5. LifeOK'
  BY <1>1, <1>2, <1>3, <1>4, LifePut
<1> QED BY <1>3, <1>5 DEF l

LEMMA StartLog ==
  ASSUME LogTypeOK, NEW w \in Switchers, StartObs(w)
  PROVE  /\ OneMore /\ LifeOK' /\ life[w] = NoLife
         /\ life' = [life EXCEPT ![w] = [op |-> "start", at |-> "look", of |-> Sink]]
<1> DEFINE l == [op |-> "start", at |-> "look", of |-> Sink]
<1>1. Sink \in Sinks /\ Sink \in Nat /\ LifeOK
  BY SinksFinite DEF LogTypeOK
<1>2. l \in Lives /\ l.of = Sink /\ l.op # "none" /\ l.at # "none"
  BY <1>1 DEF Lives
<1>3. life' = [life EXCEPT ![w] = l] /\ life[w] = NoLife /\ OneMore
  BY DEF StartObs, OneMore
<1> HIDE DEF l
<1>4. Sinks \subseteq Sinks'
  BY <1>3, AddCounts DEF OneMore
<1>5. Engaged(l, Sinks')
  BY <1>1, <1>2, <1>4 DEF Engaged
<1>6. LifeOK'
  BY <1>1, <1>2, <1>3, <1>4, <1>5, LifePut
<1> QED BY <1>3, <1>6 DEF l

LEMMA FetchedStep ==
  ASSUME LogTypeOK, Next, ~ Restart, Sinks \subseteq Sinks'
  PROVE  FetchedOK'
<1>0. FetchedOK /\ Sink \in Sinks /\ Sink \in Nat
  BY SinksFinite DEF LogTypeOK
<1>1. CASE request' = request
  BY <1>0, <1>1 DEF FetchedOK
<1>2. ASSUME NEW r \in Requests, Accept(r) \/ RequestStep(r)
      PROVE  FetchedOK'
  <2>1. request[r] \in RequestRecords
    BY <1>0 DEF FetchedOK
  <2>2. CASE LoadSink(r)
    <3>1. request' = [request EXCEPT ![r] = [at |-> "log", sink |-> Sink]]
      BY <2>2 DEF LoadSink
    <3> QED BY <1>0, <2>1, <3>1 DEF FetchedOK, RequestRecords
  <2>3. ASSUME NEW at \in {"chain", "hook", "gone"}, At(r, at)
        PROVE  FetchedOK'
    <3> DEFINE new == [request[r] EXCEPT !.at = at]
    <3>1. request' = [request EXCEPT ![r] = new]
      BY <2>3 DEF At
    <3>2. new \in RequestRecords /\ new.at # "log"
      BY <2>1 DEF RequestRecords
    <3> HIDE DEF new
    <3> QED BY <1>0, <3>1, <3>2 DEF FetchedOK
  <2> QED BY <1>2, <2>2, <2>3 DEF RequestStep, Accept, Deny, Forward, OnDone
<1> QED BY <1>1, <1>2, RequestsTouched

\* The state of the sinks in which the process begins, and begins again.
LEMMA FreshSinks ==
  ASSUME NEW q, q = <<NewSink("db")>>
  PROVE  /\ q \in Seq(SinkRecords) /\ q # <<>> /\ DOMAIN q = {1} /\ Len(q) = 1
         /\ SinkOK(q[1]) /\ Idle(q[1]) /\ q[1].ack = "nobody"
         /\ \A field \in Amounts : SumOver(q, field, {1}) = 0
<1> DEFINE new == NewSink("db")
<1>1. /\ new \in SinkRecords /\ SinkOK(new) /\ Idle(new) /\ new.ack = "nobody"
      /\ \A field \in Amounts : new[field] = 0
  BY NewSinkTyped
<1>2. q = <<new>>
  OBVIOUS
<1> HIDE DEF new
<1>3. q \in Seq(SinkRecords) /\ q # <<>> /\ DOMAIN q = {1} /\ Len(q) = 1 /\ q[1] = new
  BY <1>1, <1>2
<1>4. ASSUME NEW field \in Amounts
      PROVE  SumOver(q, field, {1}) = 0
  <2>1. IsFiniteSet({1}) /\ \A k \in {1} : q[k][field] = 0
    BY <1>1, <1>3, FS_Singleton
  <2> QED BY <2>1, SumZero
<1> QED BY <1>1, <1>3, <1>4

LEMMA LogStart ==
  ASSUME Init
  PROVE  LogTypeOK /\ RecordsAccounted
<1>1. /\ sinks \in Seq(SinkRecords) /\ sinks # <<>> /\ Sinks = {1} /\ SinkOK(sinks[1])
      /\ \A field \in Amounts : SumOver(sinks, field, Sinks) = 0
  BY FreshSinks DEF Init, LogInit, Sinks
<1>2. LifeOK /\ FetchedOK /\ written = 0
  BY NoLifeTyped DEF Init, LogInit, LifeOK, NoLives, FetchedOK, NotYet, RequestRecords
<1>3. LogTypeOK
  BY <1>1, <1>2 DEF LogTypeOK
<1>4. \A field \in Amounts : Total(field) = 0
  BY <1>1, TotalIsSum
<1>5. AllTwice = 0 /\ AllCounted = 0
  BY <1>4 DEF AllTwice, AllCounted, InMemory, Amounts
<1> QED BY <1>2, <1>3, <1>5, AllTyped

LEMMA FreshLog ==
  ASSUME Restart
  PROVE  LogTypeOK' /\ RecordsAccounted'
<1>1. /\ sinks' \in Seq(SinkRecords) /\ sinks' # <<>> /\ Sinks' = {1} /\ SinkOK(sinks'[1])
      /\ \A field \in Amounts : SumOver(sinks', field, Sinks') = 0
  <2>1. sinks' = <<NewSink("db")>>
    BY DEF Restart
  <2> DEFINE q == sinks'
  <2>2. Sinks' = DOMAIN q
    BY DEF Sinks
  <2>3. q = <<NewSink("db")>>
    BY <2>1
  <2> HIDE DEF q
  <2>4. /\ q \in Seq(SinkRecords) /\ q # <<>> /\ DOMAIN q = {1} /\ SinkOK(q[1])
        /\ \A field \in Amounts : SumOver(q, field, {1}) = 0
    BY <2>3, FreshSinks
  <2> QED BY <2>2, <2>4 DEF q
<1>2. LifeOK' /\ FetchedOK' /\ written' = 0
  BY NoLifeTyped DEF Restart, LifeOK, NoLives, FetchedOK, NotYet, RequestRecords
<1>3. LogTypeOK'
  BY <1>1, <1>2 DEF LogTypeOK
<1>4. \A field \in Amounts : Total(field)' = 0
  BY <1>1, TotalIsSum
<1>5. /\ InMemory' = 0 /\ Total("stored")' = 0 /\ Total("dropped")' = 0
      /\ Total("discarded")' = 0 /\ Total("kept")' = 0 /\ Total("both")' = 0
  BY <1>4 DEF InMemory, Amounts
<1> QED BY <1>2, <1>3, <1>5 DEF RecordsAccounted

(***************************************************************************)
(* No step loses a record or breaks a sink.                                *)
(***************************************************************************)
LEMMA LogStep ==
  ASSUME LogTypeOK, RecordsAccounted, [Next]_vars
  PROVE  LogTypeOK' /\ RecordsAccounted'
<1>0. /\ written \in Nat /\ AllCounted \in Nat /\ AllTwice \in Nat
      /\ written + AllTwice = AllCounted /\ LifeOK
      /\ RecordsAccounted' <=> written' + AllTwice' = AllCounted'
  <2>1. RecordsAccounted' <=> written' + AllTwice' = AllCounted'
    BY DEF RecordsAccounted, AllTwice, AllCounted
  <2> QED BY <2>1, AllTyped DEF LogTypeOK
<1>1. CASE UNCHANGED vars
  <2>1. LogTypeOK'
    BY <1>1 DEF vars, logVars, processVars, LogTypeOK, LifeOK, FetchedOK, Engaged, Sinks
  <2>2. AllCounted' = AllCounted /\ AllTwice' = AllTwice /\ written' = written
    BY <1>1, SameSinks DEF vars, logVars
  <2> QED BY <1>0, <2>1, <2>2
<1>2. CASE Next /\ Restart
  BY <1>2, FreshLog
<1>3. ASSUME Next, ~ Restart, NEW n \in Nat, OneSink(n), LifeOK'
      PROVE  LogTypeOK' /\ RecordsAccounted'
  <2>1. PICK k \in Sinks, t \in SinkRecords :
          Put(k, t) /\ SinkOK(t) /\ Balanced(sinks[k], t, n) /\ written' = written + n
    BY <1>3 DEF OneSink
  <2>2. /\ sinks' \in Seq(SinkRecords) /\ Sinks' = Sinks /\ Sink' = Sink
        /\ sinks'[k] = t /\ \A j \in Sinks : j # k => sinks'[j] = sinks[j]
        /\ AllCounted' + Counted(sinks[k]) = AllCounted + Counted(t)
        /\ AllTwice' + Twice(sinks[k]) = AllTwice + Twice(t)
        /\ AllCounted' \in Nat /\ AllTwice' \in Nat
    BY <2>1, PutCounts
  <2>3. /\ Counted(t) \in Nat /\ Counted(sinks[k]) \in Nat
        /\ Twice(t) \in Nat /\ Twice(sinks[k]) \in Nat
    BY SinksFinite, SinkFields
  <2>4. \A j \in Sinks' : SinkOK(sinks'[j])
    BY <2>1, <2>2, SinksFinite
  <2>5. sinks' # <<>>
    BY <2>2, SinksFinite DEF Sink
  <2>6. FetchedOK'
    BY <1>3, <2>2, FetchedStep
  <2>7. LogTypeOK'
    <3>1. written' \in Nat
      BY <1>0, <1>3, <2>1
    <3> QED BY <1>3, <2>2, <2>4, <2>5, <2>6, <3>1 DEF LogTypeOK
  <2>8. written' + AllTwice' = AllCounted'
    <3>1. Counted(t) + Twice(sinks[k]) = Counted(sinks[k]) + Twice(t) + n
      BY <2>1 DEF Balanced
    <3>2. /\ written \in Nat /\ AllCounted \in Nat /\ AllTwice \in Nat
          /\ written + AllTwice = AllCounted /\ n \in Nat /\ written' = written + n
      BY <1>0, <2>1
    <3> DEFINE w == written
               w2 == written'
               a == AllCounted
               a2 == AllCounted'
               b == AllTwice
               b2 == AllTwice'
               c == Counted(sinks[k])
               c2 == Counted(t)
               d == Twice(sinks[k])
               d2 == Twice(t)
    <3>3. /\ w \in Nat /\ a \in Nat /\ b \in Nat /\ n \in Nat /\ w + b = a /\ w2 = w + n
          /\ a2 \in Nat /\ b2 \in Nat /\ c \in Nat /\ c2 \in Nat /\ d \in Nat /\ d2 \in Nat
          /\ a2 + c = a + c2 /\ b2 + d = b + d2 /\ c2 + d = c + d2 + n
      BY <2>2, <2>3, <3>1, <3>2
    <3> HIDE DEF w, w2, a, a2, b, b2, c, c2, d, d2
    <3>4. w2 + b2 = a2
      BY ONLY <3>3
    <3> QED BY <3>4 DEF w2, b2, a2
  <2> QED BY <1>0, <2>7, <2>8
<1>4. ASSUME Next, ~ Restart, UNCHANGED <<sinks, written>>, LifeOK'
      PROVE  LogTypeOK' /\ RecordsAccounted'
  <2>1. FetchedOK'
    BY <1>4, FetchedStep DEF Sinks
  <2>2. LogTypeOK'
    BY <1>4, <2>1 DEF LogTypeOK, Sinks
  <2>3. AllCounted' = AllCounted /\ AllTwice' = AllTwice
    BY <1>4, SameSinks
  <2> QED BY <1>0, <1>4, <2>2, <2>3
<1>5. ASSUME Next, ~ Restart, OneMore, LifeOK'
      PROVE  LogTypeOK' /\ RecordsAccounted'
  <2>1. PICK kind \in {"db", "discard"} : sinks' = Append(sinks, NewSink(kind))
    BY <1>5 DEF OneMore
  <2>2. /\ sinks' \in Seq(SinkRecords) /\ Sink' = Sink + 1 /\ Sinks' = Sinks \cup {Sink + 1}
        /\ sinks'[Sink + 1] = NewSink(kind)
        /\ \A k \in Sinks : sinks'[k] = sinks[k]
        /\ AllCounted' = AllCounted /\ AllTwice' = AllTwice
    BY <2>1, AddCounts
  <2>3. SinkOK(NewSink(kind))
    BY NewSinkTyped
  <2>4. \A j \in Sinks' : SinkOK(sinks'[j])
    BY <2>2, <2>3, SinksFinite
  <2>5. sinks' # <<>>
    BY <2>2, SinksFinite DEF Sink
  <2>6. FetchedOK'
    BY <1>5, <2>2, FetchedStep
  <2>7. written' = written
    BY <1>5 DEF OneMore
  <2>8. LogTypeOK'
    BY <1>0, <1>5, <2>2, <2>4, <2>5, <2>6, <2>7 DEF LogTypeOK
  <2> QED BY <1>0, <2>2, <2>7, <2>8
<1>6. CASE Next /\ ~ Restart
  <2>1. CASE UNCHANGED logVars
    <3>1. LifeOK'
      BY <1>0, <2>1 DEF LifeOK, logVars, Sinks
    <3> QED BY <1>4, <1>6, <2>1, <3>1 DEF logVars
  <2>2. ASSUME NEW r \in Requests, OnDone(r)
        PROVE  LogTypeOK' /\ RecordsAccounted'
    <3>1. OneSink(1) /\ life' = life
      BY <2>2, OnDoneLog
    <3>2. Sinks' = Sinks
      BY <3>1, PutCounts DEF OneSink
    <3>3. LifeOK'
      BY <1>0, <3>1, <3>2 DEF LifeOK
    <3> QED BY <1>3, <1>6, <3>1, <3>3
  <2>3. CASE BeginStop \/ (StopMiddlewares /\ obs = "on")
    <3>1. StopObs("manager") /\ "manager" \in Switchers
      BY <2>3 DEF BeginStop, StopMiddlewares, Switchers
    <3> QED BY <1>4, <1>6, <3>1, StopLog
  <2>4. CASE BeginStart
    <3>1. StartObs("manager") /\ "manager" \in Switchers
      BY <2>4 DEF BeginStart, Switchers
    <3> QED BY <1>5, <1>6, <3>1, StartLog
  <2>5. ASSUME NEW h \in Reloads, ReloadObs(h)
        PROVE  LogTypeOK' /\ RecordsAccounted'
    <3>1. StartObs(h) /\ h \in Switchers
      BY <2>5 DEF ReloadObs, Switchers
    <3> QED BY <1>5, <1>6, <3>1, StartLog
  <2>6. CASE Log
    <3>1. ASSUME NEW w \in Switchers, Look(w)
          PROVE  LogTypeOK' /\ RecordsAccounted'
      BY <1>3, <1>4, <1>6, <3>1, LookLog
    <3>2. ASSUME NEW w \in Switchers, FlushTimeout(w)
          PROVE  LogTypeOK' /\ RecordsAccounted'
      BY <1>3, <1>4, <1>6, <3>2, TimeoutLog
    <3>3. ASSUME NEW k \in Sinks, Run(k)
          PROVE  LogTypeOK' /\ RecordsAccounted'
      BY <1>3, <1>6, <3>3, RunLog
    <3> QED BY <2>6, <3>1, <3>2, <3>3 DEF Log
  <2> QED BY <1>6, <2>1, <2>2, <2>3, <2>4, <2>5, <2>6, LogTouched
<1> QED BY <1>1, <1>2, <1>6

(***************************************************************************)
(* No record of a request vanishes unseen, and those counted twice are     *)
(* told, for every number of sinks, of requests, of hot reloads and of     *)
(* records in a buffer, whichever statements fail and whichever flush runs *)
(* into its limit (AsyncStore, rebuildStore).                              *)
(***************************************************************************)
THEOREM RecordsAccountedHolds == Spec => []RecordsAccounted
<1>1. ASSUME Init PROVE LogTypeOK /\ RecordsAccounted
  BY <1>1, LogStart
<1> QED BY <1>1, LogStep, PTL DEF Spec


-----------------------------------------------------------------------------
(***************************************************************************)
(* The access log through switching, reloads and shutdown.  While no wait  *)
(* meets its limit, every sink but the last is closed or about to be, a    *)
(* batch of a closed one is waited for, nobody writes once obs has drained *)
(* its requests, and from then on the last sink is about to be closed or   *)
(* stays as empty as it was made.                                          *)
(***************************************************************************)
SwitchOK ==
  /\ obs \in {"on", "off", "draining", "drained", "stopping", "starting", "flushing"}
  /\ main = "obs" => obs \in {"on", "off"}
  /\ main = "components" => obs \in {"off", "stopping"}
  /\ main \in {"recorder", "close", "ended"} => obs \notin {"draining", "drained", "stopping"}
  /\ mounted => obs = "on" \/ ~ Listening

\* Only the manager stops, and only while obs is stopping.
SwitchersOK ==
  /\ life["manager"] # NoLife => obs \in {"stopping", "flushing"}
  /\ life["manager"].op = "stop" => obs = "stopping"
  /\ \A h \in Reloads : life[h].op # "stop"

Held(k) == \E w \in Switchers : life[w].at \in {"look", "send"} /\ life[w].of = k

Closing(k) == sinks[k].closed \/ Held(k)

Quiet == \A r \in Requests : request[r].at \notin {"hook", "log"}

Past ==
  \/ obs \in {"stopping", "off", "starting", "flushing"}
  \/ main \in {"components", "recorder", "close", "ended"}

AcksOK == \A k \in Sinks : sinks[k].ack # "nobody" => Heard(k)

OldOK == \A k \in Sinks : k # Sink => Closing(k)

HooksOK == obs \in {"on", "draining"} \/ Quiet

LastOK == Past => Closing(Sink) \/ Idle(sinks[Sink])

FlushOK == AcksOK /\ OldOK /\ HooksOK /\ LastOK

LogInv == ProcessInv /\ LogTypeOK /\ SwitchOK /\ SwitchersOK /\ (InTime => FlushOK)

LEMMA Managing == "manager" \in Switchers /\ "manager" \notin Reloads /\ Reloads \subseteq Switchers
BY AccessLogAssumption DEF Switchers

LEMMA SwitchTouched ==
  ASSUME Next
  PROVE  \/ UNCHANGED <<mounted, obs>>
         \/ EnableObs \/ DisableObs \/ ObsDrained \/ BeginStop \/ BeginStart \/ ObsSwitched
         \/ (StopMiddlewares /\ obs = "on") \/ Restart
BY DEF Next, RequestStep, Accept, Deny, Forward, LoadSink, OnDone, Administrate, EnableMq,
   DisableMq, EnableRegistry, DisableRegistry, Insert, Reload, HotReload, ReloadObs, ReloadMq,
   ReloadRegistry, Started, Signal, Shutdown, EngineDown, StopMiddlewares, StopComponent,
   ManagerDown, StopEvents, CloseDb, Unchanged, Log, Events, Courier, Services, Returned,
   processVars

(***************************************************************************)
(* Where obs stands agrees with how far main has come.                     *)
(***************************************************************************)
LEMMA SwitchStep ==
  ASSUME MainOK, SwitchOK, [Next]_vars
  PROVE  SwitchOK'
<1>1. CASE UNCHANGED vars
  BY <1>1 DEF vars, processVars, SwitchOK, Listening
<1>2. CASE Restart
  BY <1>2 DEF Restart, SwitchOK, Listening
<1>3. CASE Next /\ ~ Restart
  <2>1. CASE UNCHANGED <<mounted, obs>>
    <3>1. main' = main \/ Signal \/ EngineDown \/ (StopMiddlewares /\ obs # "on") \/ ManagerDown
            \/ StopEvents \/ CloseDb
      BY <1>3, <2>1, MainTouched DEF Shutdown, StopMiddlewares, StopComponent, processVars
    <3>2. /\ main' = "obs" => obs \in {"on", "off"}
          /\ main' = "components" => obs \in {"off", "stopping"}
          /\ main' \in {"recorder", "close", "ended"}
               => obs \notin {"draining", "drained", "stopping"}
          /\ ~ Listening => ~ Listening'
      BY <3>1 DEF SwitchOK, Listening, Signal, EngineDown, ManagerFree, StopMiddlewares,
         ManagerDown, StopEvents, CloseDb
    <3> QED BY <2>1, <3>2 DEF SwitchOK
  <2>2. CASE EnableObs
    BY <2>2 DEF SwitchOK, Listening, EnableObs, ManagerFree
  <2>3. CASE DisableObs
    BY <2>3 DEF SwitchOK, Listening, DisableObs, ManagerFree
  <2>4. CASE ObsDrained
    BY <2>4 DEF SwitchOK, Listening, ObsDrained
  <2>5. CASE BeginStop \/ BeginStart
    BY <2>5 DEF SwitchOK, Listening, BeginStop, BeginStart
  <2>6. CASE ObsSwitched
    BY <2>6 DEF SwitchOK, Listening, ObsSwitched
  <2>7. CASE StopMiddlewares /\ obs = "on"
    BY <2>7 DEF SwitchOK, Listening, StopMiddlewares
  <2> QED BY <1>3, <2>1, <2>2, <2>3, <2>4, <2>5, <2>6, <2>7, SwitchTouched
<1> QED BY <1>1, <1>2, <1>3

\* What a step of the log makes of the Start or Stop of a switcher.
Moves(w) ==
  \/ life'[w] \in {life[w], NoLife}
  \/ life[w] # NoLife /\ life'[w].op \in {life[w].op, "close"}

LEMMA PutMoves ==
  ASSUME LifeOK, NEW v \in Switchers, life[v] # NoLife, NEW l,
         l = NoLife \/ l.op \in {life[v].op, "close"},
         life' = [life EXCEPT ![v] = l]
  PROVE  \A w \in Switchers : Moves(w)
BY DEF LifeOK, Moves

LEMMA LogMoves ==
  ASSUME LogTypeOK, Log, NEW w \in Switchers
  PROVE  Moves(w)
<1>0. LifeOK /\ NoLife.at = "none"
  BY NoLifeTyped DEF LogTypeOK
<1>1. ASSUME NEW v \in Switchers, NEW at \in {"send", "wait"}, life[v].at # "none",
             life' = [life EXCEPT ![v].at = at]
      PROVE  Moves(w)
  <2> DEFINE l == [life[v] EXCEPT !.at = at]
  <2>1. life[v] \in Lives /\ life[v] # NoLife
    BY <1>0, <1>1 DEF LifeOK
  <2>2. l.op = life[v].op /\ life' = [life EXCEPT ![v] = l]
    BY <1>1, <2>1 DEF Lives
  <2> HIDE DEF l
  <2> QED BY <1>0, <2>1, <2>2, PutMoves
<1>2. ASSUME NEW v \in Switchers, Look(v)
      PROVE  Moves(w)
  <2>1. life[v].at = "look" /\ life[v] # NoLife
    BY <1>0, <1>2 DEF Look
  <2> QED BY <1>0, <1>1, <1>2, <2>1, LookLog, PutMoves
<1>3. ASSUME NEW v \in Switchers, FlushTimeout(v)
      PROVE  Moves(w)
  <2>1. life[v] \in Lives /\ life[v].op # "none" /\ life[v] # NoLife
    BY <1>0, <1>3, TimeoutLog, NoLifeTyped DEF LifeOK
  <2> DEFINE l == [life[v] EXCEPT !.op = "close", !.at = "look"]
  <2>2. l.op = "close"
    BY <2>1 DEF Lives
  <2>3. life' = [life EXCEPT ![v] = NoLife] \/ life' = [life EXCEPT ![v] = l]
    BY <1>3, TimeoutLog
  <2> HIDE DEF l
  <2> QED BY <1>0, <2>1, <2>2, <2>3, PutMoves
<1>4. ASSUME NEW k \in Sinks, Run(k)
      PROVE  Moves(w)
  <2>1. PICK t \in SinkRecords : life' = life \/ Flushes(k, t) \/ Answers(k, t)
    BY <1>4, RunKeeps
  <2>2. CASE life' = life
    BY <2>2 DEF Moves
  <2>3. CASE Flushes(k, t)
    <3>1. PICK v \in Switchers :
            life[v].at = "send" /\ life' = [life EXCEPT ![v].at = "wait"]
      BY <2>3 DEF Flushes
    <3> QED BY <1>1, <3>1
  <2>4. CASE Answers(k, t)
    <3>1. life' = life \/ life' = [life EXCEPT ![sinks[k].ack] = NoLife]
      BY <2>4 DEF Answers, Answered
    <3>2. life'[w] \in {life[w], NoLife}
      BY <1>0, <3>1 DEF LifeOK
    <3> QED BY <3>2 DEF Moves
  <2> QED BY <2>1, <2>2, <2>3, <2>4
<1> QED BY <1>2, <1>3, <1>4 DEF Log

LEMMA SwitchersStep ==
  ASSUME LogTypeOK, SwitchOK, SwitchersOK, [Next]_vars
  PROVE  SwitchersOK'
<1>0. LifeOK /\ NoLife.op = "none"
  BY NoLifeTyped DEF LogTypeOK
<1>1. CASE UNCHANGED vars
  BY <1>1 DEF vars, logVars, processVars, SwitchersOK
<1>2. CASE Restart
  <2>1. life' = NoLives
    BY <1>2 DEF Restart
  <2>2. \A w \in Switchers : life'[w] = NoLife
    BY <2>1 DEF NoLives
  <2> QED BY <1>0, <2>2, Managing DEF SwitchersOK
<1>3. CASE BeginStop \/ (StopMiddlewares /\ obs = "on")
  <2>1. StopObs("manager") /\ obs' = "stopping"
    BY <1>3 DEF BeginStop, StopMiddlewares
  <2>2. \A h \in Reloads : life'[h] = life[h]
    BY <1>0, <2>1, Managing, StopLog DEF LifeOK
  <2> QED BY <2>1, <2>2 DEF SwitchersOK
<1>4. CASE BeginStart
  <2>1. StartObs("manager") /\ obs' = "flushing"
    BY <1>4 DEF BeginStart
  <2>2. life' = [life EXCEPT !["manager"] = [op |-> "start", at |-> "look", of |-> Sink]]
    BY <2>1, Managing, StartLog
  <2>3. life'["manager"].op = "start" /\ \A h \in Reloads : life'[h] = life[h]
    BY <1>0, <2>2, Managing DEF LifeOK
  <2> QED BY <2>1, <2>3 DEF SwitchersOK
<1>5. ASSUME NEW h \in Reloads, ReloadObs(h)
      PROVE  SwitchersOK'
  <2>1. StartObs(h) /\ obs' = obs
    BY <1>5 DEF ReloadObs, Started
  <2>2. life' = [life EXCEPT ![h] = [op |-> "start", at |-> "look", of |-> Sink]]
    BY <2>1, Managing, StartLog
  <2>3. /\ life'[h].op = "start" /\ life'["manager"] = life["manager"]
        /\ \A g \in Reloads : g # h => life'[g] = life[g]
    BY <1>0, <2>2, Managing DEF LifeOK
  <2> QED BY <2>1, <2>3 DEF SwitchersOK
<1>6. ASSUME Next, ~ Restart, ~ BeginStop, ~ BeginStart, ~ (StopMiddlewares /\ obs = "on"),
             \A w \in Switchers : Moves(w)
      PROVE  SwitchersOK'
  <2>1. \A h \in Reloads : life'[h].op # "stop"
    BY <1>0, <1>6, Managing DEF SwitchersOK, Moves
  <2>2. /\ life'["manager"] # NoLife => life["manager"] # NoLife
        /\ life'["manager"].op = "stop" => life["manager"].op = "stop"
    BY <1>0, <1>6, Managing DEF Moves
  <2>3. /\ life["manager"] # NoLife => obs' = obs
        /\ life["manager"].op = "stop" => obs' = obs
    <3>1. CASE UNCHANGED <<mounted, obs>>
      BY <3>1
    <3>2. CASE EnableObs \/ DisableObs \/ ObsDrained
      BY <1>0, <3>2 DEF EnableObs, DisableObs, ObsDrained, ManagerFree, SwitchersOK
    <3>3. CASE ObsSwitched
      BY <1>0, <3>3 DEF ObsSwitched
    <3> QED BY <1>6, <3>1, <3>2, <3>3, SwitchTouched
  <2> QED BY <2>1, <2>2, <2>3 DEF SwitchersOK
<1>7. CASE Next /\ ~ Restart
  <2>1. CASE life' = life
    <3>1. \A w \in Switchers : Moves(w)
      BY <2>1 DEF Moves
    <3> QED BY <1>3, <1>4, <1>6, <1>7, <3>1
  <2>2. CASE Log
    <3>1. \A w \in Switchers : Moves(w)
      BY <2>2, LogMoves
    <3> QED BY <1>3, <1>4, <1>6, <1>7, <3>1
  <2>3. life' = life \/ Log \/ BeginStop \/ BeginStart \/ (StopMiddlewares /\ obs = "on")
          \/ \E h \in Reloads : ReloadObs(h)
    BY <1>7, LogTouched DEF logVars, OnDone, Write
  <2> QED BY <1>3, <1>4, <1>5, <2>1, <2>2, <2>3
<1> QED BY <1>1, <1>2, <1>7

(***************************************************************************)
(* Nobody writes to the log once obs has drained its requests.             *)
(***************************************************************************)
LEMMA NotOverdue ==
  ASSUME StorageOK, InTime'
  PROVE  ~ Spend("timeouts")
<1>1. ASSUME Spend("timeouts")
      PROVE  FALSE
  <2>1. spent["timeouts"] \in Nat /\ spent'["timeouts"] = spent["timeouts"] + 1
    BY <1>1 DEF Spend, StorageOK, Faults
  <2> QED BY <2>1 DEF InTime
<1> QED BY <1>1

LEMMA HooksStep ==
  ASSUME LogInv, FlushOK, Next, ~ Restart, InTime, InTime'
  PROVE  HooksOK'
<1>0. /\ SwitchOK /\ StorageOK /\ HooksOK /\ request \in [Requests -> RequestRecords]
      /\ ~ Listening => Active = {}
  BY DEF LogInv, FlushOK, ProcessInv, OutboxInv, ShutdownInv, LogTypeOK, FetchedOK
<1>1. Active = {} => Quiet
  BY DEF Active, Quiet
<1>2. CASE request' = request
  <2>1. Quiet => Quiet'
    BY <1>2 DEF Quiet
  <2>2. obs' \in {"on", "draining"} \/ obs \notin {"on", "draining"} \/ Quiet
    <3>1. CASE ObsDrained
      BY <1>0, <1>1, <3>1, NotOverdue DEF ObsDrained, Drained
    <3>2. CASE StopMiddlewares /\ obs = "on"
      BY <1>0, <1>1, <3>2 DEF StopMiddlewares, Listening
    <3>3. CASE EnableObs \/ DisableObs \/ BeginStop \/ BeginStart \/ ObsSwitched
      BY <3>3 DEF EnableObs, DisableObs, BeginStop, BeginStart, ObsSwitched
    <3> QED BY <3>1, <3>2, <3>3, SwitchTouched
  <2> QED BY <1>0, <2>1, <2>2 DEF HooksOK
<1>3. ASSUME NEW r \in Requests, Accept(r) \/ RequestStep(r), obs \notin {"on", "draining"}
      PROVE  Quiet'
  <2>1. Quiet /\ request[r].at \notin {"hook", "log"}
    BY <1>0, <1>3 DEF HooksOK, Quiet
  <2>2. Accept(r) \/ Deny(r) \/ Forward(r)
    BY <1>3, <2>1 DEF RequestStep, LoadSink, OnDone
  <2>3. Forward(r) => ~ mounted
    BY <1>0, <1>3 DEF Forward, Active, SwitchOK
  <2>4. PICK at \in {"chain", "gone"} : At(r, at)
    BY <2>2, <2>3 DEF Accept, Deny, Forward
  <2>5. request'[r].at = at
    BY <1>0, <2>4 DEF At, RequestRecords
  <2>6. \A q \in Requests : q # r => request'[q] = request[q]
    BY <1>0, <2>4 DEF At
  <2> QED BY <2>1, <2>5, <2>6 DEF Quiet
<1>4. ASSUME NEW r \in Requests, Accept(r) \/ RequestStep(r)
      PROVE  obs' = obs
  BY <1>4 DEF RequestStep, Accept, Deny, Forward, LoadSink, OnDone
<1> QED BY <1>2, <1>3, <1>4, RequestsTouched DEF HooksOK

LEMMA PastStep ==
  ASSUME SwitchOK, Next, ~ Restart, ~ BeginStop, ~ (StopMiddlewares /\ obs = "on"), Past'
  PROVE  Past
<1>1. obs' \in {"stopping", "off", "starting", "flushing"} => Past
  BY SwitchTouched DEF Past, EnableObs, DisableObs, ObsDrained, BeginStart, ObsSwitched,
     ManagerFree
<1>2. main' \in {"components", "recorder", "close", "ended"} => Past
  BY MainTouched DEF Past, SwitchOK, Shutdown, Signal, EngineDown, StopMiddlewares,
     StopComponent, ManagerDown, StopEvents, CloseDb, processVars
<1> QED BY <1>1, <1>2 DEF Past

(***************************************************************************)
(* A step that closes and asks nothing.                                    *)
(***************************************************************************)
LEMMA SinksKept ==
  ASSUME LogTypeOK, FlushOK, Sinks' = Sinks, Sink' = Sink, life' = life,
         \A j \in Sinks : sinks'[j].closed = sinks[j].closed /\ sinks'[j].ack = sinks[j].ack,
         HooksOK', Past' => Past /\ (Idle(sinks[Sink]) => Idle(sinks'[Sink]))
  PROVE  FlushOK'
<1>0. Sink \in Sinks
  BY SinksFinite
<1>1. \A k \in Sinks : Closing(k) => Closing(k)'
  BY DEF Closing, Held
<1>2. AcksOK'
  BY DEF FlushOK, AcksOK, Heard
<1>3. OldOK'
  BY <1>1 DEF FlushOK, OldOK
<1>4. LastOK'
  <2>1. Past => Closing(Sink) \/ Idle(sinks[Sink])
    BY DEF FlushOK, LastOK
  <2>2. Closing(Sink) => Closing(Sink)'
    BY <1>0 DEF Closing, Held
  <2> QED BY <2>1, <2>2 DEF LastOK
<1> QED BY <1>2, <1>3, <1>4 DEF FlushOK

LEMMA RunFlushes ==
  ASSUME LogTypeOK, FlushOK, NEW k \in Sinks, Run(k), HooksOK', Past' => Past
  PROVE  FlushOK'
<1>0. LifeOK /\ Sink \in Sinks /\ sinks[k] \in SinkRecords /\ SinkOK(sinks[k])
  BY SinksFinite DEF LogTypeOK
<1>1. PICK t \in SinkRecords :
        /\ Put(k, t)
        /\ (life' = life /\ Steady(sinks[k], t)) \/ Flushes(k, t) \/ Answers(k, t)
  BY RunKeeps
<1>2. /\ Sinks' = Sinks /\ Sink' = Sink /\ sinks'[k] = t
      /\ \A j \in Sinks : j # k => sinks'[j] = sinks[j]
  BY <1>1, PutCounts
<1>3. CASE life' = life /\ Steady(sinks[k], t)
  BY <1>0, <1>2, <1>3, SinksKept DEF Steady
<1>4. ASSUME \A j \in Sinks : Closing(j) => Closing(j)',
             \A j \in Sinks : j # k /\ sinks[j].ack # "nobody" => Heard(j)',
             t.ack # "nobody" => Heard(k)', t.closed
      PROVE  FlushOK'
  <2>1. AcksOK'
    BY <1>2, <1>4 DEF AcksOK
  <2>2. OldOK'
    BY <1>2, <1>4 DEF FlushOK, OldOK
  <2>3. LastOK'
    <3>1. CASE k = Sink
      <4>1. Closing(Sink)'
        BY <1>2, <1>4, <3>1 DEF Closing
      <4> QED BY <4>1 DEF LastOK
    <3>2. CASE k # Sink
      <4>1. Past => Closing(Sink) \/ Idle(sinks[Sink])
        BY DEF FlushOK, LastOK
      <4>2. Closing(Sink) => Closing(Sink)'
        <5>1. Closing(Sink) => sinks'[Sink].closed \/ Closing(Sink)'
          BY <1>0, <1>2, <1>4
        <5> QED BY <1>0, <1>2, <1>4, <5>1 DEF Closing
      <4>3. Idle(sinks[Sink]) => Idle(sinks'[Sink])
        BY <1>0, <1>2, <3>2
      <4> QED BY <1>2, <4>1, <4>2, <4>3 DEF LastOK
    <3> QED BY <3>1, <3>2
  <2> QED BY <2>1, <2>2, <2>3 DEF FlushOK
<1>5. CASE Flushes(k, t)
  <2>1. PICK w \in Switchers :
          /\ life[w].at = "send" /\ life[w].of = k /\ life' = [life EXCEPT ![w].at = "wait"]
          /\ t.closed /\ t.ack = w
    BY <1>5 DEF Flushes
  <2>2. /\ life'[w].at = "wait" /\ life'[w].of = k
        /\ \A v \in Switchers : v # w => life'[v] = life[v]
    BY <1>0, <2>1 DEF LifeOK, Lives
  <2>3. Heard(k)'
    BY <1>2, <2>1, <2>2 DEF Heard
  <2>4. ASSUME NEW j \in Sinks, j # k, sinks[j].ack # "nobody"
        PROVE  Heard(j)'
    <3>1. Heard(j) /\ sinks[j].ack \in Switchers
      BY <2>4, SinksFinite, SinkFields DEF FlushOK, AcksOK
    <3>2. sinks[j].ack # w
      BY <2>1, <3>1 DEF Heard
    <3> QED BY <1>2, <2>2, <2>4, <3>1, <3>2 DEF Heard
  <2>5. ASSUME NEW j \in Sinks, Closing(j)
        PROVE  Closing(j)'
    <3>1. CASE j = k
      BY <1>2, <2>1, <3>1 DEF Closing
    <3>2. CASE j # k /\ sinks[j].closed
      BY <1>2, <3>2 DEF Closing
    <3>3. ASSUME j # k, NEW v \in Switchers, life[v].at \in {"look", "send"}, life[v].of = j
          PROVE  Closing(j)'
      BY <2>1, <2>2, <3>3 DEF Closing, Held
    <3> QED BY <2>5, <3>1, <3>2, <3>3 DEF Closing, Held
  <2> QED BY <1>4, <2>1, <2>3, <2>4, <2>5
<1>6. CASE Answers(k, t)
  <2> DEFINE w == sinks[k].ack
  <2>1. /\ sinks[k].at = "ack" /\ life' = Answered(k)
        /\ t.closed = sinks[k].closed /\ t.ack = "nobody" /\ w # "nobody" /\ w \in Switchers
    BY <1>0, <1>6, SinkFields DEF Answers, SinkOK
  <2>2. Heard(k) /\ life[w].at = "wait" /\ life[w].of = k
    BY <2>1 DEF FlushOK, AcksOK, Heard
  <2>3. life' = [life EXCEPT ![w] = NoLife] /\ t.closed
    BY <1>0, <2>1, <2>2 DEF Answered, SinkOK
  <2>4. \A v \in Switchers : v # w => life'[v] = life[v]
    BY <1>0, <2>3 DEF LifeOK
  <2> HIDE DEF w
  <2>5. ASSUME NEW j \in Sinks, j # k, sinks[j].ack # "nobody"
        PROVE  Heard(j)'
    <3>1. Heard(j) /\ sinks[j].ack \in Switchers
      BY <2>5, SinksFinite, SinkFields DEF FlushOK, AcksOK
    <3>2. sinks[j].ack # w
      BY <2>2, <2>5, <3>1 DEF Heard
    <3> QED BY <1>2, <2>4, <2>5, <3>1, <3>2 DEF Heard
  <2>6. ASSUME NEW j \in Sinks, Closing(j)
        PROVE  Closing(j)'
    <3>1. CASE sinks[j].closed
      BY <1>2, <2>3, <3>1 DEF Closing
    <3>2. ASSUME NEW v \in Switchers, life[v].at \in {"look", "send"}, life[v].of = j
          PROVE  Closing(j)'
      BY <2>2, <2>4, <3>2 DEF Closing, Held
    <3> QED BY <2>6, <3>1, <3>2 DEF Closing, Held
  <2> QED BY <1>4, <2>1, <2>3, <2>5, <2>6
<1> QED BY <1>1, <1>3, <1>5, <1>6

LEMMA LookFlushes ==
  ASSUME LogTypeOK, FlushOK, NEW w \in Switchers, Look(w), HooksOK', Past' => Past
  PROVE  FlushOK'
<1>0. LifeOK /\ Sink \in Sinks /\ life[w].at = "look"
  BY SinksFinite, LookLog DEF LogTypeOK
<1>1. /\ Sinks' = Sinks /\ Sink' = Sink /\ \A j \in Sinks : Steady(sinks[j], sinks'[j])
      /\ \/ sinks[life[w].of].closed /\ life' = [life EXCEPT ![w] = NoLife]
         \/ life' = [life EXCEPT ![w].at = "send"]
  BY LookLog
<1>2. \A v \in Switchers : v # w => life'[v] = life[v]
  BY <1>0, <1>1 DEF LifeOK
<1>3. sinks[life[w].of].closed \/ (life'[w].at = "send" /\ life'[w].of = life[w].of)
  BY <1>0, <1>1 DEF LifeOK, Lives
<1>4. AcksOK'
  <2>1. ASSUME NEW j \in Sinks, sinks'[j].ack # "nobody"
        PROVE  Heard(j)'
    <3>1. sinks'[j].ack = sinks[j].ack
      BY <1>1 DEF Steady
    <3>2. Heard(j) /\ sinks[j].ack \in Switchers
      BY <2>1, <3>1, SinksFinite, SinkFields DEF FlushOK, AcksOK
    <3>3. sinks[j].ack # w
      BY <1>0, <3>2 DEF Heard
    <3> QED BY <1>2, <3>1, <3>2, <3>3 DEF Heard
  <2> QED BY <1>1, <2>1 DEF AcksOK
<1>5. ASSUME NEW j \in Sinks, Closing(j)
      PROVE  Closing(j)'
  <2>1. CASE sinks[j].closed
    BY <1>1, <2>1 DEF Steady, Closing
  <2>2. ASSUME NEW v \in Switchers, life[v].at \in {"look", "send"}, life[v].of = j,
               ~ sinks[j].closed
        PROVE  Closing(j)'
    BY <1>2, <1>3, <2>2 DEF Closing, Held
  <2> QED BY <1>5, <2>1, <2>2 DEF Closing, Held
<1>6. OldOK'
  BY <1>1, <1>5 DEF FlushOK, OldOK
<1>7. LastOK'
  <2>1. Past => Closing(Sink) \/ Idle(sinks[Sink])
    BY DEF FlushOK, LastOK
  <2>2. Closing(Sink) => Closing(Sink)'
    <3>1. ASSUME NEW j \in Sinks, j = Sink
          PROVE  Closing(j) => Closing(j)'
      BY <1>5
    <3>2. Sink' \in Sinks
      BY <1>0, <1>1
    <3> QED BY <1>0, <1>1, <1>2, <1>3 DEF Closing, Held, Steady
  <2>3. Idle(sinks[Sink]) => Idle(sinks'[Sink])
    BY <1>0, <1>1 DEF Steady
  <2> QED BY <1>1, <2>1, <2>2, <2>3 DEF LastOK
<1> QED BY <1>4, <1>6, <1>7 DEF FlushOK

LEMMA WriteFlushes ==
  ASSUME LogInv, FlushOK, InTime, NEW r \in Requests, OnDone(r), HooksOK'
  PROVE  FlushOK'
<1>1. /\ life' = life /\ request[r].at = "log"
      /\ \A j \in Sinks : sinks'[j].closed = sinks[j].closed /\ sinks'[j].ack = sinks[j].ack
      /\ Sinks' = Sinks /\ Sink' = Sink
  <2>1. LogTypeOK
    BY DEF LogInv
  <2> QED BY <2>1, OnDoneLog, PutCounts DEF OneSink
<1>2. ~ Quiet /\ r \in Active
  BY <1>1 DEF Quiet, Active
<1>3. obs \in {"on", "draining"} /\ Listening
  BY <1>2 DEF FlushOK, HooksOK, LogInv, ProcessInv, ShutdownInv
<1>4. ~ Past'
  BY <1>3 DEF OnDone, Past, Listening
<1> QED BY <1>1, <1>4, SinksKept DEF LogInv

LEMMA StopFlushes ==
  ASSUME LogTypeOK, FlushOK, StopObs("manager"), HooksOK'
  PROVE  FlushOK'
<1>0. LifeOK /\ Sink \in Sinks /\ "manager" \in Switchers /\ NoLife.at = "none"
  BY SinksFinite, Managing, NoLifeTyped DEF LogTypeOK
<1>1. /\ sinks' = sinks /\ life["manager"] = NoLife
      /\ life' = [life EXCEPT !["manager"] = [op |-> "stop", at |-> "look", of |-> Sink]]
  BY <1>0, StopLog
<1>2. /\ life'["manager"].at = "look" /\ life'["manager"].of = Sink
      /\ \A v \in Switchers : v # "manager" => life'[v] = life[v]
      /\ Sinks' = Sinks /\ Sink' = Sink
  BY <1>0, <1>1 DEF LifeOK, Sinks, Sink
<1>3. AcksOK'
  <2>1. ASSUME NEW j \in Sinks, sinks[j].ack # "nobody"
        PROVE  Heard(j)'
    <3>1. Heard(j) /\ sinks[j].ack \in Switchers
      BY <2>1, SinksFinite, SinkFields DEF FlushOK, AcksOK
    <3>2. sinks[j].ack # "manager"
      BY <1>0, <1>1, <3>1 DEF Heard
    <3> QED BY <1>1, <1>2, <3>1, <3>2 DEF Heard
  <2> QED BY <1>1, <1>2, <2>1 DEF AcksOK
<1>4. OldOK'
  <2>1. \A j \in Sinks : Closing(j) => Closing(j)'
    BY <1>0, <1>1, <1>2 DEF Closing, Held
  <2> QED BY <1>2, <2>1 DEF FlushOK, OldOK
<1>5. Closing(Sink)'
  BY <1>0, <1>2 DEF Closing, Held
<1> QED BY <1>3, <1>4, <1>5 DEF FlushOK, LastOK

LEMMA StartFlushes ==
  ASSUME LogTypeOK, FlushOK, NEW w \in Switchers, StartObs(w), HooksOK'
  PROVE  FlushOK'
<1>0. LifeOK /\ Sink \in Sinks /\ Sink \in Nat /\ NoLife.at = "none"
  BY SinksFinite, NoLifeTyped DEF LogTypeOK
<1>1. /\ OneMore /\ life[w] = NoLife
      /\ life' = [life EXCEPT ![w] = [op |-> "start", at |-> "look", of |-> Sink]]
  BY StartLog
<1>2. /\ life'[w].at = "look" /\ life'[w].of = Sink
      /\ \A v \in Switchers : v # w => life'[v] = life[v]
  BY <1>0, <1>1 DEF LifeOK
<1>3. PICK kind \in {"db", "discard"} : sinks' = Append(sinks, NewSink(kind))
  BY <1>1 DEF OneMore
<1>4. /\ Sink' = Sink + 1 /\ Sinks' = Sinks \cup {Sink + 1}
      /\ sinks'[Sink + 1] = NewSink(kind) /\ \A k \in Sinks : sinks'[k] = sinks[k]
  BY <1>3, AddCounts
<1>5. NewSink(kind).ack = "nobody" /\ Idle(NewSink(kind))
  BY NewSinkTyped
<1>6. AcksOK'
  <2>1. ASSUME NEW j \in Sinks, sinks[j].ack # "nobody"
        PROVE  Heard(j)'
    <3>1. Heard(j) /\ sinks[j].ack \in Switchers
      BY <2>1, SinksFinite, SinkFields DEF FlushOK, AcksOK
    <3>2. sinks[j].ack # w
      BY <1>0, <1>1, <3>1 DEF Heard
    <3> QED BY <1>2, <1>4, <3>1, <3>2 DEF Heard
  <2> QED BY <1>4, <1>5, <2>1 DEF AcksOK
<1>7. OldOK'
  <2>1. ASSUME NEW j \in Sinks
        PROVE  Closing(j)'
    <3>1. CASE j = Sink
      BY <1>2, <3>1 DEF Closing, Held
    <3>2. CASE j # Sink /\ sinks[j].closed
      BY <1>4, <3>2 DEF Closing
    <3>3. ASSUME j # Sink, NEW v \in Switchers, life[v].at \in {"look", "send"}, life[v].of = j
          PROVE  Closing(j)'
      BY <1>0, <1>1, <1>2, <3>3 DEF Closing, Held
    <3> QED BY <3>1, <3>2, <3>3 DEF FlushOK, OldOK, Closing, Held
  <2> QED BY <1>4, <2>1 DEF OldOK
<1>8. Idle(sinks'[Sink'])
  BY <1>4, <1>5
<1> QED BY <1>6, <1>7, <1>8 DEF FlushOK, LastOK

LEMMA FlushFresh ==
  ASSUME sinks = <<NewSink("db")>>, HooksOK
  PROVE  FlushOK
<1>1. Sinks = {1} /\ Sink = 1 /\ Idle(sinks[1]) /\ sinks[1].ack = "nobody"
  BY FreshSinks DEF Sinks, Sink
<1> QED BY <1>1 DEF FlushOK, AcksOK, OldOK, LastOK

LEMMA FlushAgain ==
  ASSUME Restart
  PROVE  FlushOK'
<1>1. sinks' = <<NewSink("db")>> /\ obs' = "on"
  BY DEF Restart
<1> DEFINE q == sinks'
<1>2. q = <<NewSink("db")>>
  BY <1>1
<1>3. Sinks' = DOMAIN q /\ Sink' = Len(q)
  BY DEF Sinks, Sink
<1> HIDE DEF q
<1>4. DOMAIN q = {1} /\ Len(q) = 1 /\ Idle(q[1]) /\ q[1].ack = "nobody"
  BY <1>2, FreshSinks
<1>5. Sinks' = {1} /\ Sink' = 1 /\ Idle(sinks'[1]) /\ sinks'[1].ack = "nobody"
  BY <1>3, <1>4 DEF q
<1> QED BY <1>1, <1>5 DEF FlushOK, AcksOK, OldOK, LastOK, HooksOK

LEMMA FlushStep ==
  ASSUME LogInv, FlushOK, Next, InTime, InTime'
  PROVE  FlushOK'
<1>0. LogTypeOK /\ SwitchOK /\ StorageOK
  BY DEF LogInv, ProcessInv, OutboxInv
<1>1. CASE Restart
  BY <1>1, FlushAgain
<1>2. CASE ~ Restart
  <2>0. HooksOK'
    BY <1>2, HooksStep
  <2>1. ASSUME NEW r \in Requests, OnDone(r)
        PROVE  FlushOK'
    BY <2>0, <2>1, WriteFlushes
  <2>2. CASE BeginStop \/ (StopMiddlewares /\ obs = "on")
    <3>1. StopObs("manager")
      BY <2>2 DEF BeginStop, StopMiddlewares
    <3> QED BY <1>0, <2>0, <3>1, StopFlushes
  <2>3. CASE BeginStart
    <3>1. StartObs("manager")
      BY <2>3 DEF BeginStart
    <3> QED BY <1>0, <2>0, <3>1, StartFlushes, Managing
  <2>4. ASSUME NEW h \in Reloads, ReloadObs(h)
        PROVE  FlushOK'
    <3>1. StartObs(h) /\ h \in Switchers
      BY <2>4, Managing DEF ReloadObs
    <3> QED BY <1>0, <2>0, <3>1, StartFlushes
  <2>5. CASE ~ BeginStop /\ ~ (StopMiddlewares /\ obs = "on")
    <3>0. Past' => Past
      BY <1>0, <1>2, <2>5, PastStep
    <3>1. CASE UNCHANGED logVars
      <4>1. sinks' = sinks /\ life' = life /\ Sinks' = Sinks /\ Sink' = Sink
        BY <3>1 DEF logVars, Sinks, Sink
      <4> QED BY <1>0, <2>0, <3>0, <4>1, SinksKept
    <3>2. CASE Log
      <4>1. ASSUME NEW w \in Switchers, FlushTimeout(w)
            PROVE  FALSE
        BY <1>0, <4>1, TimeoutLog, NotOverdue
      <4>2. ASSUME NEW w \in Switchers, Look(w)
            PROVE  FlushOK'
        BY <1>0, <2>0, <3>0, <4>2, LookFlushes
      <4>3. ASSUME NEW k \in Sinks, Run(k)
            PROVE  FlushOK'
        BY <1>0, <2>0, <3>0, <4>3, RunFlushes
      <4> QED BY <3>2, <4>1, <4>2, <4>3 DEF Log
    <3> QED BY <1>2, <2>1, <2>3, <2>4, <2>5, <3>1, <3>2, LogTouched
  <2> QED BY <2>2, <2>5
<1> QED BY <1>1, <1>2

LEMMA LogInvStep ==
  ASSUME LogInv, RecordsAccounted, [Next]_vars
  PROVE  LogInv'
<1>0. StorageOK /\ MainOK
  BY DEF LogInv, ProcessInv, OutboxInv
<1>1. ProcessInv' /\ LogTypeOK' /\ SwitchOK' /\ SwitchersOK'
  BY <1>0, ProcessStep, LogStep, SwitchStep, SwitchersStep DEF LogInv
<1>2. CASE UNCHANGED vars
  <2>1. InTime' = InTime
    BY <1>2 DEF vars, storageVars, InTime
  <2>2. /\ sinks' = sinks /\ life' = life /\ obs' = obs /\ request' = request /\ main' = main
        /\ Sinks' = Sinks /\ Sink' = Sink
    BY <1>2 DEF vars, logVars, processVars, Sinks, Sink
  <2>3. FlushOK => FlushOK'
    BY <2>2, SinksKept DEF LogInv, FlushOK, HooksOK, Quiet, Past
  <2> QED BY <1>1, <2>1, <2>3 DEF LogInv
<1>3. CASE Next
  <2>1. InTime' => InTime
    BY <1>0, InTimeBefore
  <2> QED BY <1>1, <1>3, <2>1, FlushStep DEF LogInv
<1> QED BY <1>2, <1>3

LEMMA LogInvStart ==
  ASSUME Init
  PROVE  LogInv
<1>1. LogTypeOK /\ ProcessInv
  BY LogStart, ProcessStart
<1>2. SwitchOK
  BY DEF Init, SwitchOK
<1>3. SwitchersOK
  <2>1. \A w \in Switchers : life[w] = NoLife
    BY DEF Init, LogInit, NoLives
  <2> QED BY <2>1, Managing, NoLifeTyped DEF SwitchersOK
<1>4. FlushOK
  <2>1. sinks = <<NewSink("db")>> /\ \A r \in Requests : request[r].at = "none"
    BY DEF Init, LogInit, NotYet
  <2> QED BY <2>1, FlushFresh DEF HooksOK, Quiet
<1> QED BY <1>1, <1>2, <1>3, <1>4 DEF LogInv

(***************************************************************************)
(* A shutdown that met no time limit leaves no record in a sink, and no    *)
(* goroutine of one about to use the closed database, but in those that a  *)
(* Start has taken out of use and is still flushing.                       *)
(***************************************************************************)
LEMMA LogEmptied ==
  ASSUME LogInv
  PROVE  LogWritten
<1> SUFFICES ASSUME Orderly, NEW k \in Sinks
             PROVE  \/ sinks[k].pending = 0 /\ sinks[k].batch = 0 /\ sinks[k].at # "write"
                    \/ SwappedOut(k)
  BY DEF LogWritten
<1>1. /\ LogTypeOK /\ SwitchersOK /\ FlushOK /\ LifeOK /\ main = "ended"
      /\ obs # "stopping"
  BY DEF LogInv, Orderly, InTime, SwitchOK, LogTypeOK
<1>2. sinks[k] \in SinkRecords /\ SinkOK(sinks[k])
  BY <1>1, SinksFinite
<1>3. ASSUME NEW w \in Switchers, life[w].at # "none", life[w].of = k
      PROVE  SwappedOut(k)
  <2>1. life[w] \in Lives /\ life[w].op # "none"
    BY <1>1, <1>3, NoLifeTyped DEF LifeOK, Engaged
  <2>2. life[w].op # "stop"
    BY <1>1 DEF SwitchersOK, Switchers
  <2>3. life[w].op \in {"start", "close"}
    BY <2>1, <2>2 DEF Lives
  <2> QED BY <1>3, <2>3 DEF SwappedOut
<1>4. CASE sinks[k].closed /\ sinks[k].at = "write"
  <2>1. sinks[k].ack # "nobody" /\ sinks[k].ack \in Switchers
    BY <1>2, <1>4, SinkFields DEF SinkOK
  <2>2. Heard(k)
    BY <1>1, <2>1 DEF FlushOK, AcksOK
  <2> QED BY <1>3, <2>1, <2>2 DEF Heard
<1>5. CASE sinks[k].closed /\ sinks[k].at # "write"
  BY <1>2, <1>5 DEF SinkOK
<1>6. CASE ~ sinks[k].closed /\ Held(k)
  BY <1>3, <1>6 DEF Held
<1>7. CASE ~ sinks[k].closed /\ ~ Held(k)
  <2>1. k = Sink
    BY <1>1, <1>7 DEF FlushOK, OldOK, Closing
  <2>2. Idle(sinks[k])
    BY <1>1, <1>7, <2>1 DEF FlushOK, LastOK, Past, Closing
  <2> QED BY <1>2, <2>2 DEF Idle, SinkOK
<1> QED BY <1>4, <1>5, <1>6, <1>7

(***************************************************************************)
(* A shutdown that met no time limit leaves no event and no record in      *)
(* memory, whatever was being switched or reloaded when the signal came,   *)
(* but in a sink that a Start has swapped out and not flushed yet; and the *)
(* courier sleeps, unless a reload that came after Shutdown had listed the *)
(* components started it (main, Manager.Shutdown, hotReload).              *)
(***************************************************************************)
THEOREM NothingLeftBehindHolds == Spec => []NothingLeftBehind
<1>1. LogInv => NothingLeftBehind
  BY LogEmptied, ProcessEmptied DEF NothingLeftBehind, LogInv
<1>2. Init => LogInv /\ RecordsAccounted
  BY LogInvStart, LogStart
<1>3. LogInv /\ RecordsAccounted /\ [Next]_vars => LogInv' /\ RecordsAccounted'
  BY LogInvStep, LogStep DEF LogInv
<1> QED BY <1>1, <1>2, <1>3, PTL DEF Spec
=============================================================================
