------------------------------ MODULE HotSwap ------------------------------
(***************************************************************************)
(* internal/hotswap, the manager: middlewares are mounted on and taken off *)
(* the chain while requests pass.  The goroutines are the operators'       *)
(* switch calls and one hotReload per published configuration; Enable,     *)
(* Disable and Shutdown exclude each other by lifecycleMu, hotReload does  *)
(* not hold it.  The chain is what module Chain shows it to be between two *)
(* requests: a list of what was added and not removed.                     *)
(***************************************************************************)
EXTENDS Integers, Sequences, FiniteSets

CONSTANTS
  Middlewares,  \* the names of the automatic-mount map
  RegOrder,     \* m.regOrder: the order they were registered in
  Procs,        \* the goroutines that call the manager
  Requests,     \* the requests that may be in flight together
  None,         \* no goroutine
  StartResults, \* what Start may answer: TRUE, FALSE
  MaxSets,      \* bound: how often the configuration is changed
  MayShutDown   \* whether the process is told to end

ASSUME HotSwapAssumption ==
  /\ RegOrder \in Seq(Middlewares)
  /\ None \notin Procs /\ IsFiniteSet(Requests)
  /\ StartResults \subseteq BOOLEAN /\ TRUE \in StartResults
  /\ MaxSets \in Nat /\ MayShutDown \in BOOLEAN

VARIABLES
  config,    \* the XXX_ENABLED values in the configuration centre
  sets,      \* bound counter of its changes
  pending,   \* notifications whose goroutine has not begun
  state,     \* m.middlewareStates
  mounted,   \* how often each middleware is on the chain
  running,   \* whether the resources of each middleware are up
  lock,      \* who holds lifecycleMu
  proc,      \* where each goroutine stands
  active,    \* Adapter.activeCount
  using,     \* each request: phase and the middlewares of its snapshot
  cut,       \* history: requests that use what was stopped when a drain timed out
  down       \* history: Shutdown has returned

vars == <<config, sets, pending, state, mounted, running, lock, proc, active,
          using, cut, down>>

-----------------------------------------------------------------------------
Kinds == {"none", "reload", "on", "off", "shutdown"}

\* want and rest: the values read and the names left in applyAutoEnable;
\* newly: what it mounted; todo: what is left to restart, or to stop.
Idle == [pc |-> "idle", kind |-> "none", mw |-> None,
         want |-> config, rest |-> <<>>, newly |-> {}, todo |-> {}]

Go(p, to) == proc' = [proc EXCEPT ![p].pc = to]

\* Enable and Disable return into the loop of applyAutoEnable, or to the
\* operator; a nil error of Enable is noted in newly.
Return(p, enabled) ==
  LET newly == proc[p].newly \cup (IF enabled THEN {proc[p].mw} ELSE {})
      call  == IF proc[p].kind = "reload"
                 THEN [proc[p] EXCEPT !.pc = "loop", !.newly = newly]
                 ELSE Idle
  IN  proc' = [proc EXCEPT ![p] = call]

Take(p) == lock = None /\ lock' = p

Release == lock' = None

requestVars == <<active, using>>

confVars == <<config, sets, pending>>

\* The requests whose snapshot has the middleware.
Users(m) == {r \in Requests : m \in using[r].set}

\* Assembly publishes every registration and ends with ApplyAutoEnable: one
\* notification that has not been handled yet stands for these.
Init ==
  /\ config \in [Middlewares -> BOOLEAN]
  /\ sets = 0
  /\ pending = 1
  /\ state = [m \in Middlewares |-> "disabled"]
  /\ mounted = [m \in Middlewares |-> 0]
  /\ running = [m \in Middlewares |-> FALSE]
  /\ lock = None
  /\ proc = [p \in Procs |-> Idle]
  /\ active = 0
  /\ using = [r \in Requests |-> [phase |-> "outside", set |-> {}]]
  /\ cut = {}
  /\ down = FALSE

-----------------------------------------------------------------------------
(* The configuration centre, as far as the manager sees it.                *)

\* A change, by a file edit or another key's Set, and its notification.
EditConfig ==
  /\ sets < MaxSets
  /\ \E m \in Middlewares : config' = [config EXCEPT ![m] = ~ @]
  /\ sets' = sets + 1
  /\ pending' = pending + 1
  /\ UNCHANGED <<state, mounted, running, lock, proc, active, using, cut,
                 down>>

\* handleSwitchOn and handleSwitchOff: the configuration first ...
BeginSwitch(p, m, on) ==
  /\ proc[p].pc = "idle" /\ sets < MaxSets
  /\ proc' = [proc EXCEPT ![p] = [Idle EXCEPT
                !.pc = "verify", !.kind = IF on THEN "on" ELSE "off",
                !.mw = m]]
  /\ config' = [config EXCEPT ![m] = on]
  /\ sets' = sets + 1
  /\ pending' = IF config[m] = on THEN pending ELSE pending + 1
  /\ UNCHANGED <<state, mounted, running, lock, active, using, cut, down>>

\* ... then persistSwitch reads it back, and Enable or Disable follow.
VerifySwitch(p) ==
  LET on == proc[p].kind = "on" IN
  /\ proc[p].pc = "verify"
  /\ IF config[proc[p].mw] = on THEN Go(p, IF on THEN "enable" ELSE "disable")
                                ELSE proc' = [proc EXCEPT ![p] = Idle]
  /\ UNCHANGED <<confVars, state, mounted, running, lock, requestVars, cut,
                 down>>

-----------------------------------------------------------------------------
(* hotReload.                                                              *)

BeginReload(p) ==
  /\ proc[p].pc = "idle" /\ pending > 0
  /\ pending' = pending - 1
  /\ proc' = [proc EXCEPT ![p] = [Idle EXCEPT !.pc = "read",
                                              !.kind = "reload"]]
  /\ UNCHANGED <<config, sets, state, mounted, running, lock, requestVars,
                 cut, down>>

\* confMgr.List(): all values at once.
ReadConfig(p) ==
  /\ proc[p].pc = "read"
  /\ proc' = [proc EXCEPT ![p] = [@ EXCEPT !.pc = "loop", !.want = config,
                                           !.rest = RegOrder]]
  /\ UNCHANGED <<confVars, state, mounted, running, lock, requestVars, cut,
                 down>>

\* One turn of the loop: the state is read under m.mu and acted on later.
Compare(p) ==
  LET m == Head(proc[p].rest)
      wanted == proc[p].want[m]
      next == IF wanted /\ state[m] # "enabled" THEN "enable"
              ELSE IF ~ wanted /\ state[m] = "enabled" THEN "disable"
              ELSE "loop"
  IN  /\ proc[p].pc = "loop" /\ proc[p].rest # <<>>
      /\ proc' = [proc EXCEPT ![p] = [proc[p] EXCEPT !.pc = next, !.mw = m,
                                        !.rest = Tail(proc[p].rest)]]
      /\ UNCHANGED <<confVars, state, mounted, running, lock, requestVars,
                     cut, down>>

\* What is enabled and was not just mounted is to be started anew.
Collect(p) ==
  /\ proc[p].pc = "loop" /\ proc[p].rest = <<>>
  /\ proc' = [proc EXCEPT ![p] =
                [@ EXCEPT !.pc = "restart",
                          !.todo = {m \in Middlewares : state[m] = "enabled"}
                                     \ proc[p].newly]]
  /\ UNCHANGED <<confVars, state, mounted, running, lock, requestVars, cut,
                 down>>

\* Start(nil) with no lock; one that fails leaves the old snapshot at work.
Restart(p) ==
  /\ proc[p].pc = "restart"
  /\ IF proc[p].todo = {}
       THEN proc' = [proc EXCEPT ![p] = Idle] /\ UNCHANGED running
       ELSE \E m \in proc[p].todo, ok \in StartResults :
              /\ proc' = [proc EXCEPT ![p].todo = @ \ {m}]
              /\ running' = [running EXCEPT ![m] = @ \/ ok]
  /\ UNCHANGED <<confVars, state, mounted, lock, requestVars, cut, down>>

-----------------------------------------------------------------------------
(* Enable and Disable.                                                     *)

LockEnable(p) ==
  LET m == proc[p].mw IN
  /\ proc[p].pc = "enable"
  /\ IF state[m] = "enabled"
       THEN lock = None /\ UNCHANGED lock /\ Return(p, TRUE)
       ELSE Take(p) /\ Go(p, "start")
  /\ UNCHANGED <<confVars, state, mounted, running, requestVars, cut, down>>

\* A Start that fails leaves the middleware disabled and off the chain.
StartMiddleware(p) ==
  LET m == proc[p].mw IN
  /\ proc[p].pc = "start"
  /\ \E ok \in StartResults :
       IF ok THEN /\ running' = [running EXCEPT ![m] = TRUE]
                  /\ Go(p, "mount") /\ UNCHANGED lock
             ELSE Return(p, FALSE) /\ Release /\ UNCHANGED running
  /\ UNCHANGED <<confVars, state, mounted, requestVars, cut, down>>

\* chain.Add and the state, under m.mu.
Mount(p) ==
  LET m == proc[p].mw IN
  /\ proc[p].pc = "mount"
  /\ mounted' = [mounted EXCEPT ![m] = @ + 1]
  /\ state' = [state EXCEPT ![m] = "enabled"]
  /\ Release /\ Return(p, TRUE)
  /\ UNCHANGED <<confVars, running, requestVars, cut, down>>

LockDisable(p) ==
  LET m == proc[p].mw IN
  /\ proc[p].pc = "disable"
  /\ IF state[m] = "disabled"
       THEN lock = None /\ UNCHANGED lock /\ Return(p, FALSE)
       ELSE Take(p) /\ Go(p, "unmount")
  /\ UNCHANGED <<confVars, state, mounted, running, requestVars, cut, down>>

\* Mutant: the middleware is stopped before it leaves the chain.
UnmountLater(p) ==
  LET m == proc[p].mw IN
  /\ proc[p].pc = "unmount"
  /\ running' = [running EXCEPT ![m] = FALSE]
  /\ Go(p, "draining")
  /\ UNCHANGED <<confVars, state, mounted, lock, requestVars, cut, down>>

\* chain.Remove takes every occurrence off; a name it does not find ends the
\* call.
Unmount(p) ==
  LET m == proc[p].mw IN
  /\ proc[p].pc = "unmount"
  /\ IF mounted[m] = 0
       THEN Return(p, FALSE) /\ Release /\ UNCHANGED mounted
       ELSE /\ mounted' = [mounted EXCEPT ![m] = 0]
            /\ Go(p, "draining") /\ UNCHANGED lock
  /\ UNCHANGED <<confVars, state, running, requestVars, cut, down>>

BeginDrain(p) ==
  /\ proc[p].pc = "draining"
  /\ state' = [state EXCEPT ![proc[p].mw] = "draining"]
  /\ Go(p, "drain")
  /\ UNCHANGED <<confVars, mounted, running, lock, requestVars, cut, down>>

\* Mutant: the drain has no limit.
DrainForever(p) ==
  /\ proc[p].pc = "drain"
  /\ active = 0
  /\ Go(p, "stop")
  /\ UNCHANGED <<confVars, state, mounted, running, lock, requestVars, cut, down>>

\* One look at the count of all requests, or the end of the ten seconds.
Drain(p) ==
  /\ proc[p].pc = "drain"
  /\ \/ active = 0 /\ UNCHANGED cut
     \/ active > 0 /\ cut' = cut \cup Users(proc[p].mw)
  /\ Go(p, "stop")
  /\ UNCHANGED <<confVars, state, mounted, running, lock, requestVars, down>>

\* Stop, which leaves the middleware disabled whether it fails or not.
StopMiddleware(p) ==
  LET m == proc[p].mw IN
  /\ proc[p].pc = "stop"
  /\ running' = [running EXCEPT ![m] = FALSE]
  /\ Go(p, "disabled")
  /\ UNCHANGED <<confVars, state, mounted, lock, requestVars, cut, down>>

FinishDisable(p) ==
  /\ proc[p].pc = "disabled"
  /\ state' = [state EXCEPT ![proc[p].mw] = "disabled"]
  /\ Release /\ Return(p, FALSE)
  /\ UNCHANGED <<confVars, mounted, running, requestVars, cut, down>>

-----------------------------------------------------------------------------
(* Shutdown: stops what is enabled, and leaves the chain as it is.         *)

LockShutdown(p) ==
  /\ MayShutDown /\ ~ down /\ proc[p].pc = "idle"
  /\ Take(p)
  /\ proc' = [proc EXCEPT ![p] = [Idle EXCEPT !.pc = "quit",
                                              !.kind = "shutdown"]]
  /\ UNCHANGED <<confVars, state, mounted, running, requestVars, cut, down>>

\* The drain has a limit here too; then the snapshot of what to stop.
CollectShutdown(p) ==
  /\ proc[p].pc = "quit"
  /\ proc' = [proc EXCEPT ![p] =
                [@ EXCEPT !.pc = "quitting",
                          !.todo = {m \in Middlewares : state[m] # "disabled"}]]
  /\ UNCHANGED <<confVars, state, mounted, running, lock, requestVars, cut, down>>

StopOne(p) ==
  /\ proc[p].pc = "quitting"
  /\ IF proc[p].todo = {}
       THEN /\ proc' = [proc EXCEPT ![p] = Idle]
            /\ Release /\ down' = TRUE
            /\ UNCHANGED <<state, running>>
       ELSE \E m \in proc[p].todo :
              /\ proc' = [proc EXCEPT ![p].todo = @ \ {m}]
              /\ running' = [running EXCEPT ![m] = FALSE]
              /\ state' = [state EXCEPT ![m] = "disabled"]
              /\ UNCHANGED <<lock, down>>
  /\ UNCHANGED <<confVars, mounted, requestVars, cut>>

-----------------------------------------------------------------------------
(* Requests, as Adapter.Handler leads them: counted, then the snapshot.    *)

managerVars == <<state, mounted, running, lock, proc, down>>

Arrive(r) ==
  /\ using[r].phase = "outside"
  /\ active' = active + 1
  /\ using' = [using EXCEPT ![r].phase = "counted"]
  /\ UNCHANGED <<confVars, managerVars, cut>>

\* Execute, and again ResponseHooks: what is on the chain now.
TakeSnapshot(r) ==
  /\ using[r].phase \in {"counted", "front"}
  /\ using' = [using EXCEPT ![r] =
                 [phase |-> IF using[r].phase = "counted" THEN "front" ELSE "back",
                  set |-> {m \in Middlewares : mounted[m] > 0}]]
  /\ cut' = cut \ {r}
  /\ UNCHANGED <<active, confVars, managerVars>>

Depart(r) ==
  /\ using[r].phase \in {"front", "back"}
  /\ active' = active - 1
  /\ using' = [using EXCEPT ![r] = [phase |-> "outside", set |-> {}]]
  /\ cut' = cut \ {r}
  /\ UNCHANGED <<confVars, managerVars>>

ProcStep(p) ==
  \/ VerifySwitch(p) \/ BeginReload(p) \/ ReadConfig(p) \/ Compare(p)
  \/ Collect(p) \/ Restart(p)
  \/ LockEnable(p) \/ StartMiddleware(p) \/ Mount(p)
  \/ LockDisable(p) \/ Unmount(p) \/ BeginDrain(p) \/ Drain(p)
  \/ StopMiddleware(p) \/ FinishDisable(p)
  \/ CollectShutdown(p) \/ StopOne(p)

Next ==
  \/ EditConfig
  \/ \E p \in Procs : \/ ProcStep(p) \/ LockShutdown(p)
                      \/ \E m \in Middlewares, on \in BOOLEAN :
                           BeginSwitch(p, m, on)
  \/ \E r \in Requests : Arrive(r) \/ TakeSnapshot(r) \/ Depart(r)

Spec == Init /\ [][Next]_vars

\* Goroutines run on, and a mutex is handed to one that waits for it long
\* enough.  A request need not end: its upstream may keep it for ever.
FairSpec ==
  Spec /\ \A p \in Procs : /\ WF_vars(ProcStep(p))
                           /\ SF_vars(LockEnable(p)) /\ SF_vars(LockDisable(p))

-----------------------------------------------------------------------------
Places == {"idle", "verify", "read", "loop", "restart", "enable", "start", "mount",
           "disable", "unmount", "draining", "drain", "stop", "disabled", "quit",
           "quitting"}

Calls == [pc : Places, kind : Kinds, mw : Middlewares \cup {None},
          want : [Middlewares -> BOOLEAN], rest : Seq(Middlewares),
          newly : SUBSET Middlewares, todo : SUBSET Middlewares]

TypeOK ==
  /\ config \in [Middlewares -> BOOLEAN]
  /\ sets \in 0 .. MaxSets /\ pending \in 0 .. sets + 1
  /\ state \in [Middlewares -> {"disabled", "enabled", "draining"}]
  /\ mounted \in [Middlewares -> Nat]
  /\ running \in [Middlewares -> BOOLEAN]
  /\ lock \in Procs \cup {None}
  /\ proc \in [Procs -> Calls]
  /\ active \in Nat
  /\ using \in [Requests -> [phase : {"outside", "counted", "front", "back"},
                             set : SUBSET Middlewares]]
  /\ cut \subseteq Requests /\ down \in BOOLEAN

\* Whoever is at work on a middleware, under the lock.
Held(m, pcs) == \E p \in Procs : /\ lock = p
                                 /\ proc[p].mw = m /\ proc[p].pc \in pcs

Serving == ~ down /\ \A p \in Procs : proc[p].pc # "quitting"

\* What the manager shows is what the chain has: enabled middlewares are on it
\* exactly once, the others are not, but for the steps of a running Disable.
StateMatchesChain ==
  \A m \in Middlewares :
    mounted[m] = IF state[m] = "enabled" /\ ~ Held(m, {"draining"}) THEN 1 ELSE 0

\* Whatever reloads and switch calls run together, a middleware that a request
\* can find on the chain, or has found there, is started and not stopped; only
\* a drain that ran into its limit stops it under the requests it waited for.
UsableIsRunning ==
  Serving => /\ StateMatchesChain
             /\ \A m \in Middlewares :
                  mounted[m] > 0 \/ Users(m) \ cut # {} => running[m]

\* Every Enable, Disable, reload and Shutdown ends, though requests may hang.
CallsEnd == \A p \in Procs : proc[p].pc # "idle" ~> proc[p].pc = "idle"
=============================================================================
