------------------------------- MODULE Process -------------------------------
(***************************************************************************)
(* cmd/rocksys: the process around the components that hold what is not in *)
(* the database yet.  Requests feed the event recorder and the access log; *)
(* the administrator switches components off and on; a signal ends the     *)
(* process in the order of main, a failing listener or a crash at once.    *)
(* The database and the consumers outlive it.                              *)
(***************************************************************************)
EXTENDS AccessLog, EventRecorder, Outbox, ServiceRegistry

CONSTANT Requests  \* requests in flight, each with one outcome

VARIABLES
  main,     \* how far main has come
  mounted,  \* obs is on the chain
  obs,      \* the obs middleware: "on", "off" or between the two
  request,  \* where each request stands, and the sink it has fetched
  reload,   \* what each hot reload has still to start
  closing,  \* components that Manager.Shutdown has listed and not stopped yet
  revived,  \* history: a reload started mq after Shutdown had made that list
  cut       \* history: processes that ended with mq started again so

processVars == <<main, mounted, obs, request, reload, closing, revived, cut>>

vars == <<storageVars, logVars, eventVars, mqVars, registryVars, processVars>>

NotYet == [at |-> "none", sink |-> 0]

\* obs is enabled by the configuration or, for the time being, not.
Init ==
  /\ StorageInit /\ LogInit /\ RecorderInit /\ OutboxInit /\ RegistryInit
  /\ main = "serving"
  /\ obs \in {"on", "off"}
  /\ mounted = (obs = "on")
  /\ request = [r \in Requests |-> NotYet]
  /\ reload = [h \in Reloads |-> {}] /\ closing = {} /\ revived = FALSE
  /\ cut = 0

-----------------------------------------------------------------------------
(* A request.  A denied one ends at the firewall: only those that are      *)
(* forwarded come to the hooks of the access log.                          *)

switchVars == <<reload, closing, revived, cut>>

At(r, at) == request' = [request EXCEPT ![r].at = at]

Active == {r \in Requests : request[r].at \in {"chain", "hook", "log"}}

Accept(r) ==
  /\ main = "serving" /\ request[r].at = "none" /\ Spend("requests")
  /\ At(r, "chain")
  /\ UNCHANGED <<db, logVars, eventVars, mqVars, registryVars, main, mounted, obs, switchVars>>

Deny(r) ==
  /\ request[r].at = "chain" /\ At(r, "gone")
  /\ Record
  /\ UNCHANGED <<logVars, mqVars, registryVars, main, mounted, obs, switchVars>>

\* The hooks are those of the moment at which the answer is written.
Forward(r) ==
  /\ request[r].at = "chain"
  /\ At(r, IF mounted THEN "hook" ELSE "gone")
  /\ UNCHANGED <<storageVars, logVars, eventVars, mqVars, registryVars, main, mounted, obs, switchVars>>

LoadSink(r) ==
  /\ request[r].at = "hook"
  /\ request' = [request EXCEPT ![r] = [at |-> "log", sink |-> Sink]]
  /\ UNCHANGED <<storageVars, logVars, eventVars, mqVars, registryVars, main, mounted, obs, switchVars>>

OnDone(r) ==
  /\ request[r].at = "log"
  /\ At(r, "gone")
  /\ Write(request[r].sink)
  /\ UNCHANGED <<eventVars, mqVars, registryVars, main, mounted, obs, switchVars>>

RequestStep(r) == Deny(r) \/ Forward(r) \/ LoadSink(r) \/ OnDone(r)

-----------------------------------------------------------------------------
(* The manager, one change at a time.  Off: from the chain, wait for the   *)
(* requests, Stop.  On: Start, then onto the chain.                        *)

\* Nobody holds lifecycleMu.
ManagerFree ==
  /\ obs \in {"on", "off"} /\ mq # "stopping" /\ registry # "stopping"
  /\ main \notin {"obs", "components"}

\* The admin server and the watcher; main stops listening to them.
Listening == main \in {"serving", "engine"}

\* The wait for the requests ends at its limit.
Drained == (Active = {} /\ Free) \/ (Active # {} /\ Spend("timeouts"))

\* Also by a hot reload, even one that comes late (applyAutoEnable).
EnableObs ==
  /\ main # "ended" /\ ManagerFree /\ obs = "off" /\ Spend("obs")
  /\ obs' = "starting"
  /\ UNCHANGED <<db, logVars, eventVars, mqVars, registryVars, main, mounted, request, switchVars>>

DisableObs ==
  /\ Listening /\ ManagerFree /\ obs = "on" /\ Spend("obs")
  /\ mounted' = FALSE /\ obs' = "draining"
  /\ UNCHANGED <<db, logVars, eventVars, mqVars, registryVars, main, request, switchVars>>

ObsDrained ==
  /\ obs = "draining" /\ Drained
  /\ obs' = "drained"
  /\ UNCHANGED <<db, logVars, eventVars, mqVars, registryVars, main, mounted, request, switchVars>>

BeginStop ==
  /\ obs = "drained" /\ obs' = "stopping"
  /\ StopObs("manager")
  /\ UNCHANGED <<eventVars, mqVars, registryVars, main, mounted, request, switchVars>>

BeginStart ==
  /\ obs = "starting" /\ obs' = "flushing"
  /\ StartObs("manager")
  /\ UNCHANGED <<eventVars, mqVars, registryVars, main, mounted, request, switchVars>>

\* Start or Stop has returned.
ObsSwitched ==
  /\ obs \in {"stopping", "flushing"} /\ life["manager"] = NoLife
  /\ obs' = IF obs = "flushing" THEN "on" ELSE "off"
  /\ mounted' = (mounted \/ obs = "flushing")
  /\ UNCHANGED <<storageVars, logVars, eventVars, mqVars, registryVars, main, request, switchVars>>

EnableMq ==
  /\ Listening /\ ManagerFree /\ Spend("mq")
  /\ StartMq
  /\ UNCHANGED <<db, logVars, eventVars, registryVars, processVars>>

DisableMq ==
  /\ Listening /\ ManagerFree /\ Spend("mq")
  /\ StopMq
  /\ UNCHANGED <<db, logVars, eventVars, registryVars, processVars>>

EnableRegistry ==
  /\ Listening /\ ManagerFree /\ Spend("registry")
  /\ StartRegistry
  /\ UNCHANGED <<db, logVars, eventVars, mqVars, processVars>>

DisableRegistry ==
  /\ Listening /\ ManagerFree /\ Spend("registry")
  /\ StopRegistry
  /\ UNCHANGED <<db, logVars, eventVars, mqVars, processVars>>

Insert ==
  /\ main = "serving" /\ Spend("messages")
  /\ InsertMessage
  /\ UNCHANGED <<db, logVars, eventVars, registryVars, processVars>>

-----------------------------------------------------------------------------
(* A hot reload lists what is on and then calls Start of each, outside the *)
(* lock of the manager: what was listed may be stopped by then, and main   *)
(* does not wait for it.                                                   *)

On ==
  (IF obs = "on" \/ (obs = "stopping" /\ main = "components") THEN {"obs"} ELSE {})
    \cup (IF mq # "off" THEN {"mq"} ELSE {})
    \cup (IF registry # "off" THEN {"registry"} ELSE {})

HotReload(h) ==
  /\ main # "ended" /\ reload[h] = {} /\ life[h] = NoLife /\ Spend("reloads")
  /\ reload' = [reload EXCEPT ![h] = On]
  /\ UNCHANGED <<db, logVars, eventVars, mqVars, registryVars>>
  /\ UNCHANGED <<main, mounted, obs, request, closing, revived, cut>>

Started(h, name) ==
  /\ main # "ended" /\ name \in reload[h] /\ life[h] = NoLife
  /\ name = "obs" \/ "obs" \notin reload[h]
  /\ reload' = [reload EXCEPT ![h] = @ \ {name}]
  /\ UNCHANGED <<eventVars, main, mounted, obs, request, closing, cut>>

\* A new sink beside whatever the manager does.
ReloadObs(h) ==
  /\ Started(h, "obs") /\ StartObs(h)
  /\ UNCHANGED <<mqVars, registryVars, revived>>

\* The mutex of the component: after a Stop, not amid it.
ReloadMq(h) ==
  /\ Started(h, "mq") /\ Free
  /\ \/ mq = "on" /\ UNCHANGED <<mqVars, revived>>
     \/ StartMq /\ revived' = (revived \/ main \in {"components", "recorder", "close"})
  /\ UNCHANGED <<db, logVars, registryVars>>

ReloadRegistry(h) ==
  /\ Started(h, "registry") /\ Free
  /\ \/ registry = "on" /\ UNCHANGED registryVars
     \/ StartRegistry
  /\ UNCHANGED <<db, logVars, mqVars, revived>>

Reload(h) == HotReload(h) \/ ReloadObs(h) \/ ReloadMq(h) \/ ReloadRegistry(h)

-----------------------------------------------------------------------------
(* Shutdown, in the order of main and of Manager.Shutdown.                 *)

Unchanged ==
  UNCHANGED <<eventVars, mqVars, registryVars, mounted, obs, request, switchVars>>

Signal ==
  /\ main = "serving" /\ Spend("stops")
  /\ main' = "engine"
  /\ UNCHANGED <<db, logVars>> /\ Unchanged

\* The engine stops listening and waits for its requests, then the manager
\* does: all within one limit.
EngineDown ==
  /\ main = "engine" /\ ManagerFree /\ Drained
  /\ main' = "obs"
  /\ UNCHANGED <<db, logVars>> /\ Unchanged

\* Shutdown lists the components before it stops the middlewares.
StopMiddlewares ==
  /\ main = "obs"
  /\ main' = "components"
  /\ closing' = On \ {"obs"}
  /\ IF obs = "on" THEN StopObs("manager") /\ obs' = "stopping"
                   ELSE UNCHANGED <<obs, logVars, storageVars>>
  /\ UNCHANGED <<eventVars, mqVars, registryVars, mounted, request, reload, revived, cut>>

\* One after the other.
StopComponent ==
  /\ main = "components" /\ obs = "off" /\ mq # "stopping" /\ registry # "stopping"
  /\ \/ "mq" \in closing /\ StopMq /\ UNCHANGED registryVars
     \/ "registry" \in closing /\ StopRegistry /\ UNCHANGED mqVars
  /\ UNCHANGED <<storageVars, logVars, eventVars, processVars>>

ManagerDown ==
  /\ main = "components" /\ obs = "off" /\ closing = {}
  /\ main' = "recorder"
  /\ UNCHANGED <<storageVars, logVars>> /\ Unchanged

StopEvents ==
  /\ main = "recorder"
  /\ main' = "close"
  /\ StopRecorder
  /\ UNCHANGED <<logVars, mqVars, registryVars, mounted, obs, request, switchVars>>

\* Mutant: the database is closed while the recorder is still writing.
CloseEarly ==
  /\ main = "close"
  /\ main' = "ended" /\ db' = "closed"
  /\ Free
  /\ UNCHANGED logVars /\ Unchanged

CloseDb ==
  /\ main = "close" /\ recorder.at = "ended"
  /\ main' = "ended" /\ db' = "closed"
  /\ Free
  /\ UNCHANGED logVars /\ Unchanged

\* After the end of main, or after a failing listener or a crash, when nothing
\* is flushed, the next process begins with empty memory.
Restart ==
  /\ \/ main # "ended" /\ Spend("crashes") /\ UNCHANGED cut
     \/ main = "ended" /\ Spend("restarts") /\ cut' = IF revived THEN cut + 1 ELSE cut
  /\ db' = "open"
  /\ main' = "serving" /\ mounted' = TRUE /\ obs' = "on"
  /\ sinks' = <<NewSink("db")>> /\ life' = NoLives /\ written' = 0
  /\ recorder' = [queue |-> 0, batch |-> 0, written |-> 0, dropped |-> 0, at |-> "select"]
  /\ stopped' = FALSE /\ recorded' = 0
  /\ courier' = Asleep /\ mq' = "off"
  /\ registry' = "off" /\ instances' = [i \in Instances |-> "none"]
  /\ publisher' = [p \in Publishers |-> Silent] /\ heard' = {} /\ told' = TRUE
  /\ request' = [r \in Requests |-> NotYet]
  /\ reload' = [h \in Reloads |-> {}] /\ closing' = {} /\ revived' = FALSE
  /\ UNCHANGED <<outbox, delivered>>

-----------------------------------------------------------------------------
Administrate ==
  \/ EnableObs \/ DisableObs \/ ObsDrained \/ BeginStop \/ BeginStart \/ ObsSwitched
  \/ EnableMq \/ DisableMq
  \/ EnableRegistry \/ DisableRegistry \/ Insert

Shutdown ==
  \/ EngineDown \/ StopMiddlewares \/ StopComponent \/ ManagerDown
  \/ StopEvents \/ CloseDb

Log ==
  /\ (\E w \in Switchers : Look(w) \/ FlushTimeout(w)) \/ \E k \in Sinks : Run(k)
  /\ UNCHANGED <<eventVars, mqVars, registryVars, processVars>>

Events == FlushLoop /\ UNCHANGED <<logVars, mqVars, registryVars, processVars>>

\* The Stop of a component that Shutdown has called returns.
Returned(name) ==
  /\ closing' = closing \ {name}
  /\ UNCHANGED <<main, mounted, obs, request, reload, revived, cut>>

Courier ==
  /\ \/ PollOnce /\ UNCHANGED processVars
     \/ CourierEnds /\ Returned("mq")
  /\ UNCHANGED <<logVars, eventVars, registryVars>>

Services ==
  /\ \/ /\ \/ \E c \in Clients, i \in Instances : HandleBeat(c, i)
           \/ \E i \in Instances : Lapse(i)
           \/ ScanOnce
           \/ \E p \in Publishers : Publish(p)
        /\ UNCHANGED processVars
     \/ RegistryEnds /\ Returned("registry")
  /\ UNCHANGED <<logVars, eventVars, mqVars>>

Next ==
  \/ \E r \in Requests : Accept(r) \/ RequestStep(r)
  \/ \E h \in Reloads : Reload(h)
  \/ Administrate \/ Signal \/ Shutdown \/ Restart
  \/ Log \/ Events \/ Courier \/ Services

\* Whoever can go on does; nobody has to switch, to reload, to stop or to fail.
Fairness ==
  /\ \A r \in Requests : WF_vars(RequestStep(r))
  /\ WF_vars(ObsDrained \/ BeginStop \/ BeginStart \/ ObsSwitched)
  /\ WF_vars(Shutdown)
  /\ \A k \in 1 .. MaxSinks :
       WF_vars(k \in Sinks /\ Run(k) /\ UNCHANGED <<eventVars, mqVars, registryVars, processVars>>)
  /\ \A w \in Switchers :
       WF_vars(Look(w) /\ UNCHANGED <<eventVars, mqVars, registryVars, processVars>>)
  /\ WF_vars(Events)
  /\ WF_vars(Courier)
  /\ WF_vars((ScanOnce \/ \E p \in Publishers : Publish(p))
             /\ UNCHANGED <<logVars, eventVars, mqVars, processVars>>)
  /\ WF_vars(RegistryEnds /\ Returned("registry") /\ UNCHANGED <<logVars, eventVars, mqVars>>)

Spec == Init /\ [][Next]_vars

FairSpec == Spec /\ Fairness

-----------------------------------------------------------------------------
Orderly == main = "ended" /\ spent["timeouts"] = 0

\* The consumer gets a message a second time only after a fault: a failing
\* statement, a lost answer, a crash, or an end of the process amid what a late
\* reload had started again, each of which costs at most one repetition; with
\* none of them, restarts of the component and of the process included, it gets
\* it once (pollOnce, Stop, main).
RepeatedByFaultsOnly ==
  \A m \in Messages : delivered[m] <= 1 + spent["failures"] + spent["crashes"] + cut

\* Every denial is in the table or counted as dropped, and the courier sleeps
\* unless a late reload has started it again.
EventsWritten ==
  Orderly => /\ recorder.queue = 0 /\ recorder.batch = 0
             /\ recorded = recorder.written + recorder.dropped
             /\ courier = Asleep \/ revived

\* A Start has taken the sink out of use and has not flushed it yet.
SwappedOut(k) == \E w \in Switchers : life[w].op \in {"start", "close"} /\ life[w].of = k

LogWritten ==
  Orderly => \A k \in Sinks :
    \/ sinks[k].pending = 0 /\ sinks[k].batch = 0 /\ sinks[k].at # "write"
    \/ SwappedOut(k)

\* A shutdown that met no time limit leaves nothing in memory but what a hot
\* reload has in hand: when the database is closed every record and event has
\* been offered to it, save those in a sink that a Start is still flushing,
\* and no goroutine is about to use it, save a courier that a reload woke
\* after Shutdown had stopped it (main, Manager.Shutdown, hotReload).
NothingLeftBehind == EventsWritten /\ LogWritten

\* A shutdown ends, whatever was being switched or reloaded when the signal
\* came: no flush, drain or wait within it is for ever, but the flush of a
\* Stop whose sink a reload has closed under it.
ShutdownEnds == main = "engine" ~> (main \in {"ended", "serving"} \/ Abandoned)
=============================================================================
