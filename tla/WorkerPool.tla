----------------------------- MODULE WorkerPool -----------------------------
(***************************************************************************)
(* internal/workpool: workers that take tasks from a bounded channel while *)
(* other goroutines resize the set of workers, replace the channel, and    *)
(* stop the pool.  Start, Stop, UpdateWorkers and UpdateQueueSize exclude  *)
(* each other by stateMutex, which ctl stands for; submitters hold a read  *)
(* lock on the channel for the two steps of one attempt.                   *)
(***************************************************************************)
EXTENDS Integers, Sequences, FiniteSets

CONSTANTS
  Tasks,          \* the tasks that may be submitted
  Workers,        \* bound: numbers of worker goroutines that may live at a time
  WorkerLimit,    \* Config.MaxWorkers, 0 for no limit
  DefaultWorkers, \* runtime.NumCPU() * 2
  SizeRequests,   \* the arguments UpdateQueueSize is called with
  WorkerRequests, \* the arguments UpdateWorkers is called with
  FirstCapacity,  \* Config.QueueSize
  MaxQueues,      \* bound: how many channels may ever be made
  Plans           \* Config.MinWorkers (clamped), and bounds: see plan

ASSUME WorkerPoolAssumption ==
  /\ Workers \subseteq Nat /\ DefaultWorkers \in Nat \ {0}
  /\ WorkerLimit \in Nat
  /\ SizeRequests \subseteq Int /\ WorkerRequests \subseteq Int
  /\ FirstCapacity \in Nat \ {0}
  /\ MaxQueues \in Nat \ {0}
  /\ Plans \subseteq [workers : Nat \ {0}, resizes : Nat, queues : 1 .. MaxQueues,
                      tasks : SUBSET Tasks]
  /\ \A p \in Plans : WorkerLimit > 0 => p.workers <= WorkerLimit

Queues == 1 .. MaxQueues

VARIABLES
  started, stopped,  \* the two atomic flags
  quit,              \* the quit channel: "open" or "closed"
  queue,             \* every channel ever made: buffer, capacity, state
  current,           \* wp.taskQueue, as a number of queue
  target, active,    \* targetWorkers and activeWorkers
  ctl,               \* the holder of stateMutex and where it stands
  remaining,         \* tasks Stop collected and runs after unlocking
  submit,            \* where the submitter of each task stands
  worker,            \* each worker: pc, the value it loaded, channel, task
  runs,              \* history: how often each task was executed
  plan               \* the first number of workers; bounds: resizes left,
                     \* channels, tasks that are submitted

vars == <<started, stopped, quit, queue, current, target, active, ctl,
          remaining, submit, worker, runs, plan>>

-----------------------------------------------------------------------------
Idle == [op |-> "idle", left |-> 0, pending |-> <<>>]

\* A number that no goroutine uses; seen is the active count a worker loaded
\* last, from the channel it snapshotted, task what it received.
Unborn == [pc |-> "unborn", seen |-> 0, from |-> 1, task |-> {}]

Live == {w \in Workers : worker[w].pc # "unborn"}

\* Submitters inside queueMutex.RLock keep every writer of taskQueue out.
NoReader == \A t \in Tasks : submit[t] # "send"

Full(q) == Len(queue[q].buffer) >= queue[q].capacity

Clamp(num) ==
  LET n == IF num <= 0 THEN DefaultWorkers ELSE num
  IN  IF WorkerLimit > 0 /\ n > WorkerLimit THEN WorkerLimit ELSE n

Init ==
  /\ started = FALSE /\ stopped = FALSE /\ quit = "open"
  /\ queue = [q \in Queues |-> [buffer |-> <<>>, state |-> "open",
                                capacity |-> FirstCapacity]]
  /\ current = 1
  /\ target = 0 /\ active = 0
  /\ ctl = Idle
  /\ remaining = <<>>
  /\ plan \in Plans
  /\ submit = [t \in Tasks |-> "outside"]
  /\ worker = [w \in Workers |-> Unborn]
  /\ runs = [t \in Tasks |-> 0]

-----------------------------------------------------------------------------
(* Submitters: Submit, TrySubmit, SubmitWithTimeout.                       *)

poolVars == <<started, stopped, quit, current, target, active, ctl,
              remaining, worker, runs, plan>>

Submitter(t, from, to) == /\ submit[t] = from
                          /\ submit' = [submit EXCEPT ![t] = to]

\* The unlocked glance at stopped on entry.
BeginSubmit(t) ==
  /\ t \in plan.tasks
  /\ Submitter(t, "outside", IF stopped THEN "refused" ELSE "retry")
  /\ UNCHANGED <<poolVars, queue>>

\* Take the read lock and look at stopped again.
LockSubmit(t) ==
  /\ Submitter(t, "retry", IF stopped THEN "refused" ELSE "send")
  /\ UNCHANGED <<poolVars, queue>>

\* The send succeeds at once: the task is accepted and the lock released.
Enqueue(t) ==
  /\ ~ Full(current)
  /\ Submitter(t, "send", "accepted")
  /\ queue' = [queue EXCEPT ![current].buffer = Append(@, t)]
  /\ UNCHANGED poolVars

\* The channel is full: Submit and SubmitWithTimeout release the lock and
\* wait, TrySubmit and an expired SubmitWithTimeout give up.
FindFull(t) ==
  /\ Full(current)
  /\ \E to \in {"waiting", "refused"} : Submitter(t, "send", to)
  /\ UNCHANGED <<poolVars, queue>>

\* The retry ticker, or the quit channel.
Wake(t) ==
  /\ \/ Submitter(t, "waiting", "retry")
     \/ quit = "closed" /\ Submitter(t, "waiting", "refused")
  /\ UNCHANGED <<poolVars, queue>>

-----------------------------------------------------------------------------
(* The goroutine that holds stateMutex.                                    *)

\* startWorkers: one more goroutine, with its pre-counted place.
Spawn ==
  /\ ctl.op = "spawn"
  /\ \E w \in Workers :
       /\ worker[w] = Unborn
       /\ \A v \in Workers : v < w => worker[v] # Unborn
       /\ worker' = [worker EXCEPT ![w].pc = "load"]
  /\ active' = active + 1
  /\ ctl' = IF ctl.left = 1 THEN Idle ELSE [ctl EXCEPT !.left = @ - 1]
  /\ UNCHANGED <<started, stopped, quit, queue, current, target, remaining,
                 submit, runs, plan>>

Start ==
  /\ ctl.op = "idle"
  /\ ~ stopped /\ ~ started
  /\ started' = TRUE
  /\ target' = plan.workers
  /\ ctl' = [Idle EXCEPT !.op = "spawn", !.left = plan.workers]
  /\ UNCHANGED <<stopped, quit, queue, current, active, remaining, submit,
                 worker, runs, plan>>

\* UpdateWorkers: a smaller number is only stored; for a larger one the
\* active count is read after the target was stored.
UpdateWorkers(num) ==
  /\ ctl.op = "idle" /\ plan.resizes > 0
  /\ ~ stopped /\ started
  /\ Clamp(num) # target
  /\ target' = Clamp(num)
  /\ ctl' = IF Clamp(num) > target THEN [Idle EXCEPT !.op = "grow"] ELSE Idle
  /\ plan' = [plan EXCEPT !.resizes = @ - 1]
  /\ UNCHANGED <<started, stopped, quit, queue, current, active, remaining,
                 submit, worker, runs>>

Grow ==
  /\ ctl.op = "grow"
  /\ ctl' = IF active < target
              THEN [Idle EXCEPT !.op = "spawn", !.left = target - active]
              ELSE Idle
  /\ UNCHANGED <<started, stopped, quit, queue, current, target, active,
                 remaining, submit, worker, runs, plan>>

\* UpdateQueueSize: swap the channel under the write lock and close the old
\* one, then move what is left in it.
UpdateQueueSize(size) ==
  /\ ctl.op = "idle" /\ current < plan.queues
  /\ ~ stopped /\ started
  /\ size > 0 /\ size # queue[current].capacity
  /\ NoReader
  /\ current' = current + 1
  /\ queue' = [queue EXCEPT ![current + 1].capacity = size]
  /\ ctl' = [Idle EXCEPT !.op = "close"]
  /\ UNCHANGED <<started, stopped, quit, target, active, remaining, submit,
                 worker, runs, plan>>

CloseOld ==
  /\ ctl.op = "close"
  /\ queue' = [queue EXCEPT ![current - 1].state = "closed"]
  /\ ctl' = [ctl EXCEPT !.op = "drain"]
  /\ UNCHANGED <<started, stopped, quit, current, target, active, remaining,
                 submit, worker, runs, plan>>

\* One receive of drainQueue; a worker may still hold the old channel and
\* receive from it too.
Drain ==
  /\ ctl.op = "drain"
  /\ LET old == queue[current - 1].buffer IN
     IF old = <<>>
       THEN /\ ctl' = [ctl EXCEPT !.op = "merge"]
            /\ UNCHANGED queue
       ELSE /\ ctl' = [ctl EXCEPT !.pending = Append(@, Head(old))]
            /\ queue' = [queue EXCEPT ![current - 1].buffer = Tail(old)]
  /\ UNCHANGED <<started, stopped, quit, current, target, active, remaining,
                 submit, worker, runs, plan>>

\* Mutant: a full new channel drops the task.
MergeDropping ==
  /\ ctl.op = "merge"
  /\ IF ctl.pending = <<>>
       THEN ctl' = Idle /\ UNCHANGED queue
       ELSE /\ ctl' = [ctl EXCEPT !.pending = Tail(@)]
            /\ IF Full(current)
                 THEN UNCHANGED queue
                 ELSE queue' = [queue EXCEPT ![current].buffer =
                                               Append(@, Head(ctl.pending))]
  /\ UNCHANGED <<started, stopped, quit, current, target, active, remaining,
                 submit, worker, runs, plan>>

\* One blocking send into the new channel, or the end of the loop.
Merge ==
  /\ ctl.op = "merge"
  /\ IF ctl.pending = <<>>
       THEN /\ ctl' = Idle
            /\ UNCHANGED queue
       ELSE /\ ~ Full(current)
            /\ ctl' = [ctl EXCEPT !.pending = Tail(@)]
            /\ queue' = [queue EXCEPT ![current].buffer =
                                        Append(@, Head(ctl.pending))]
  /\ UNCHANGED <<started, stopped, quit, current, target, active, remaining,
                 submit, worker, runs, plan>>

\* Stop: the flag, the target and the quit channel, then wg.Wait ...
Stop ==
  /\ ctl.op = "idle"
  /\ ~ stopped
  /\ stopped' = TRUE
  /\ target' = 0
  /\ quit' = "closed"
  /\ ctl' = [Idle EXCEPT !.op = "wait"]
  /\ UNCHANGED <<started, queue, current, active, remaining, submit, worker,
                 runs, plan>>

\* Mutant: the channel is closed without the write lock.
CollectUnlocked ==
  /\ ctl.op = "wait"
  /\ Live = {}
  /\ remaining' = queue[current].buffer
  /\ queue' = [queue EXCEPT ![current] =
                               [@ EXCEPT !.buffer = <<>>, !.state = "closed"]]
  /\ ctl' = Idle
  /\ UNCHANGED <<started, stopped, quit, current, target, active, submit,
                 worker, runs, plan>>

\* Mutant: what is left in the channel is thrown away.
CollectNothing ==
  /\ ctl.op = "wait"
  /\ Live = {}
  /\ NoReader
  /\ queue' = [queue EXCEPT ![current] =
                               [@ EXCEPT !.buffer = <<>>, !.state = "closed"]]
  /\ ctl' = Idle
  /\ UNCHANGED <<started, stopped, quit, current, target, active, remaining,
                 submit, worker, runs, plan>>

\* ... then, under the write lock, close the channel and take all it holds;
\* both locks are released before the first of them is executed.
Collect ==
  /\ ctl.op = "wait"
  /\ Live = {}
  /\ NoReader
  /\ remaining' = queue[current].buffer
  /\ queue' = [queue EXCEPT ![current] =
                               [@ EXCEPT !.buffer = <<>>, !.state = "closed"]]
  /\ ctl' = Idle
  /\ UNCHANGED <<started, stopped, quit, current, target, active, submit,
                 worker, runs, plan>>

RunRemaining ==
  /\ remaining # <<>>
  /\ runs' = [runs EXCEPT ![Head(remaining)] = @ + 1]
  /\ remaining' = Tail(remaining)
  /\ UNCHANGED <<started, stopped, quit, queue, current, target, active, ctl,
                 submit, worker, plan>>

-----------------------------------------------------------------------------
(* The worker loop.                                                        *)

ownerVars == <<started, stopped, quit, current, target, ctl, remaining,
               submit, plan>>

Goto(w, from, to) == /\ worker[w].pc = from
                     /\ worker' = [worker EXCEPT ![w].pc = to]

\* What was loaded, and the channel, are forgotten at the next turn.
Turn(w, from) == /\ worker[w].pc = from
                 /\ worker' = [worker EXCEPT ![w] = [Unborn EXCEPT !.pc = "load"]]

\* The goroutine ends, and its number is free.
Leave(w, from) == /\ worker[w].pc = from
                  /\ worker' = [worker EXCEPT ![w] = Unborn]

LoadActive(w) ==
  /\ worker[w].pc = "load"
  /\ worker' = [worker EXCEPT ![w] = [@ EXCEPT !.pc = "compare", !.seen = active]]
  /\ UNCHANGED <<ownerVars, queue, active, runs>>

\* Mutant: a pool exactly at its target is taken for too large.
CompareTargetStrict(w) ==
  /\ Goto(w, "compare", IF worker[w].seen < target THEN "snapshot" ELSE "cas")
  /\ UNCHANGED <<ownerVars, queue, active, runs>>

CompareTarget(w) ==
  /\ Goto(w, "compare", IF worker[w].seen <= target THEN "snapshot" ELSE "cas")
  /\ UNCHANGED <<ownerVars, queue, active, runs>>

\* CompareAndSwap(active, active-1): the place is given up in advance.
ClaimExit(w) ==
  /\ IF active = worker[w].seen
       THEN Goto(w, "cas", "verify") /\ active' = active - 1
       ELSE Turn(w, "cas") /\ UNCHANGED active
  /\ UNCHANGED <<ownerVars, queue, runs>>

\* The target rose meanwhile: the worker stays.
VerifyExit(w) ==
  /\ IF worker[w].seen - 1 < target THEN Goto(w, "verify", "rollback")
                                     ELSE Leave(w, "verify")
  /\ UNCHANGED <<ownerVars, queue, active, runs>>

RollBack(w) ==
  /\ Goto(w, "rollback", "snapshot")
  /\ active' = active + 1
  /\ UNCHANGED <<ownerVars, queue, runs>>

\* Mutant: the worker keeps the channel it started with.
SnapshotFirstQueue(w) ==
  /\ Goto(w, "snapshot", "select")
  /\ UNCHANGED <<ownerVars, queue, active, runs>>

SnapshotQueue(w) ==
  /\ worker[w].pc = "snapshot"
  /\ worker' = [worker EXCEPT ![w] = [@ EXCEPT !.pc = "select", !.from = current]]
  /\ UNCHANGED <<ownerVars, queue, active, runs>>

Take(w) ==
  LET q == worker[w].from IN
  /\ worker[w].pc = "select"
  /\ queue[q].buffer # <<>>
  /\ worker' = [worker EXCEPT ![w] =
                  [@ EXCEPT !.pc = "run", !.task = {Head(queue[q].buffer)}]]
  /\ queue' = [queue EXCEPT ![q].buffer = Tail(@)]
  /\ UNCHANGED <<ownerVars, active, runs>>

\* The ticker, or nil from a closed and empty channel: look at target again.
LookAgain(w) ==
  /\ Turn(w, "select")
  /\ UNCHANGED <<ownerVars, queue, active, runs>>

\* quit: the deferred functions give the place back and leave the WaitGroup.
Quit(w) ==
  /\ quit = "closed"
  /\ Leave(w, "select")
  /\ active' = active - 1
  /\ UNCHANGED <<ownerVars, queue, runs>>

Execute(w) ==
  /\ Turn(w, "run")
  /\ runs' = [t \in Tasks |-> IF t \in worker[w].task THEN runs[t] + 1
                                                      ELSE runs[t]]
  /\ UNCHANGED <<ownerVars, queue, active>>

WorkerStep(w) == \/ LoadActive(w) \/ CompareTarget(w) \/ ClaimExit(w)
                 \/ VerifyExit(w) \/ RollBack(w) \/ SnapshotQueue(w)
                 \/ Take(w) \/ LookAgain(w) \/ Quit(w) \/ Execute(w)

SubmitStep(t) == \/ BeginSubmit(t) \/ LockSubmit(t) \/ Enqueue(t)
                 \/ FindFull(t) \/ Wake(t)

\* What the holder of stateMutex does once it has it.
OwnerStep == Spawn \/ Grow \/ CloseOld \/ Drain \/ Merge \/ Collect

Next ==
  \/ Start \/ Stop \/ OwnerStep \/ RunRemaining
  \/ \E num \in WorkerRequests : UpdateWorkers(num)
  \/ \E size \in SizeRequests : UpdateQueueSize(size)
  \/ \E t \in Tasks : SubmitStep(t)
  \/ \E w \in Workers : WorkerStep(w)

Spec == Init /\ [][Next]_vars

\* Every goroutine keeps running; select picks among ready cases at random, so
\* a case that is ready again and again is taken.  Nobody is obliged to submit,
\* to resize or to stop.
Fairness ==
  /\ WF_vars(OwnerStep) /\ WF_vars(RunRemaining)
  /\ \A t \in Tasks : /\ WF_vars(LockSubmit(t) \/ Wake(t))
                      /\ WF_vars(Enqueue(t) \/ FindFull(t))
  /\ \A w \in Workers : /\ WF_vars(WorkerStep(w))
                        /\ SF_vars(Take(w)) /\ SF_vars(Quit(w))

FairSpec == Spec /\ Fairness

-----------------------------------------------------------------------------
Occurrences(s, t) == Cardinality({k \in 1 .. Len(s) : s[k] = t})

\* Every place where a copy of a task can be.
Copies(t) ==
  LET queued == {q \in Queues : Occurrences(queue[q].buffer, t) > 0}
      held   == {w \in Workers : t \in worker[w].task}
  IN  Cardinality(queued) + Cardinality(held) + Occurrences(ctl.pending, t)
        + Occurrences(remaining, t) + runs[t]

\* "No task is lost": an accepted task is in exactly one place, or was
\* executed exactly once, through every replacement of the channel and Stop;
\* a task that was not accepted is nowhere.
ExactlyOnePlace ==
  \A t \in Tasks : Copies(t) = IF submit[t] = "accepted" THEN 1 ELSE 0

\* An accepted task of a pool that was started or stopped is executed.
AcceptedRuns ==
  \A t \in Tasks : (submit[t] = "accepted" /\ (started \/ stopped)) ~> runs[t] = 1

\* A management call that got the lock returns: the blocking merge and the
\* wait of Stop come to an end.
CallsReturn == ctl.op # "idle" ~> ctl.op = "idle"

\* When the resizing ends, the workers settle at the number asked for.
WorkersConverge == <>[](started => active = target)

Ledger == INSTANCE JobLedger
  WITH Jobs <- Tasks,
       fate <- [t \in Tasks |-> IF runs[t] > 0 THEN "done"
                                  ELSE IF submit[t] \in {"accepted", "refused"} THEN submit[t]
                                  ELSE "outside"],
       open <- queue[current].state = "open"

\* The pool implements JobLedger: a task is accepted or refused once, an
\* accepted one is run once, and nothing is accepted after Stop has closed the
\* channel, whatever was resized or replaced (workpool.go:313).
LedgerSpec == Ledger!Spec
=============================================================================
