------------------------- MODULE WorkerPool_proofs -------------------------
(***************************************************************************)
(* No task is lost or run twice, for any tasks, workers, channels and      *)
(* resizes, and the pool implements JobLedger.                             *)
(***************************************************************************)
EXTENDS WorkerPool, SequenceTheorems, FiniteSetTheorems, TLAPS

Elements(s) == {s[k] : k \in DOMAIN s}

Once(s) == \A j, k \in DOMAIN s : s[j] = s[k] => j = k

Channel == [buffer : Seq(Tasks), state : {"open", "closed"}, capacity : Nat]

Holder == [op : {"idle", "spawn", "grow", "close", "drain", "merge", "wait"}, left : Int,
           pending : Seq(Tasks)]

Pcs == {"unborn", "load", "compare", "cas", "verify", "rollback", "snapshot", "select",
        "run"}

Goroutine == [pc : Pcs, seen : Int, from : Queues, task : SUBSET Tasks]

Standings == {"outside", "retry", "send", "waiting", "accepted", "refused"}

Plan == [workers : Nat \ {0}, resizes : Nat, queues : Queues, tasks : SUBSET Tasks]

TypeOK ==
  /\ started \in BOOLEAN /\ stopped \in BOOLEAN /\ quit \in {"open", "closed"}
  /\ queue \in [Queues -> Channel] /\ current \in Queues
  /\ target \in Int /\ active \in Int
  /\ ctl \in Holder /\ remaining \in Seq(Tasks)
  /\ submit \in [Tasks -> Standings]
  /\ worker \in [Workers -> Goroutine]
  /\ runs \in [Tasks -> Nat]
  /\ plan \in Plan

\* A worker has a task in hand only on its way to execute it.
WorkerOK(w) ==
  IF worker[w].pc = "run" THEN \E t \in Tasks : worker[w].task = {t}
                          ELSE worker[w].task = {}

\* The channel in use is open until Stop has collected what it held, and then
\* nobody is inside an attempt to send.
ControlOK ==
  /\ \A q \in Queues : q > current => queue[q].buffer = <<>> /\ queue[q].state = "open"
  /\ ctl.op \notin {"drain", "merge"} => ctl.pending = <<>>
  /\ ctl.op \in {"close", "drain", "merge"} => current > 1
  /\ stopped => ctl.op \in {"idle", "wait"}
  /\ ctl.op = "wait" => stopped
  /\ queue[current].state = "open" <=> ~ stopped \/ ctl.op = "wait"
  /\ queue[current].state = "open" => remaining = <<>>
  /\ queue[current].state = "closed" => NoReader
  /\ \A w \in Workers : WorkerOK(w)

Queued(t) == {q \in Queues : t \in Elements(queue[q].buffer)}

Held(t) == {w \in Workers : t \in worker[w].task}

Places == {"nowhere", "queued", "held", "moving", "left", "done"}

\* A task is in one channel, or with one worker, or among those UpdateQueueSize
\* moves, or among those Stop has collected, or was executed once; or, when it
\* was not accepted, nowhere.
Lies(t, k) ==
  /\ IF k = "queued" THEN \E q \in Queues : Queued(t) = {q} ELSE Queued(t) = {}
  /\ IF k = "held" THEN \E w \in Workers : Held(t) = {w} ELSE Held(t) = {}
  /\ t \in Elements(ctl.pending) <=> k = "moving"
  /\ t \in Elements(remaining) <=> k = "left"
  /\ runs[t] = IF k = "done" THEN 1 ELSE 0
  /\ submit[t] = "accepted" <=> k # "nowhere"

NoneTwice ==
  /\ \A q \in Queues : Once(queue[q].buffer)
  /\ Once(ctl.pending) /\ Once(remaining)

OnePlace == NoneTwice /\ \A t \in Tasks : \E k \in Places : Lies(t, k)

PoolInv == TypeOK /\ ControlOK /\ OnePlace

-----------------------------------------------------------------------------
(* Sequences without repetition.                                           *)

LEMMA OfEmpty == Elements(<<>>) = {} /\ Once(<<>>)
BY DEF Elements, Once

LEMMA OfAppend ==
  ASSUME NEW S, NEW s \in Seq(S), NEW e \in S
  PROVE  /\ Append(s, e) \in Seq(S)
         /\ Elements(Append(s, e)) = Elements(s) \cup {e}
         /\ Once(s) /\ e \notin Elements(s) => Once(Append(s, e))
<1> DEFINE a == Append(s, e)
<1>1. /\ a \in Seq(S) /\ Len(a) = Len(s) + 1 /\ DOMAIN a = 1 .. Len(s) + 1
      /\ DOMAIN s = 1 .. Len(s) /\ Len(s) \in Nat
      /\ \A k \in 1 .. Len(s) : a[k] = s[k]
      /\ a[Len(s) + 1] = e
  BY AppendProperties, LenProperties
<1> HIDE DEF a
<1>2. Elements(a) = Elements(s) \cup {e}
  BY <1>1 DEF Elements
<1>3. ASSUME Once(s), e \notin Elements(s)
      PROVE  Once(a)
  <2> SUFFICES ASSUME NEW j \in DOMAIN a, NEW k \in DOMAIN a, a[j] = a[k]
               PROVE  j = k
    BY DEF Once
  <2>1. \A i \in 1 .. Len(s) : s[i] # e
    BY <1>1, <1>3 DEF Elements
  <2>2. CASE j = Len(s) + 1 \/ k = Len(s) + 1
    BY <1>1, <2>1, <2>2
  <2>3. CASE j # Len(s) + 1 /\ k # Len(s) + 1
    BY <1>1, <1>3, <2>3 DEF Once
  <2> QED BY <2>2, <2>3
<1> QED BY <1>1, <1>2, <1>3 DEF a

LEMMA OfTail ==
  ASSUME NEW S, NEW s \in Seq(S), s # <<>>
  PROVE  /\ Head(s) \in S /\ Tail(s) \in Seq(S)
         /\ Head(s) \in Elements(s)
         /\ Once(s) => Elements(Tail(s)) = Elements(s) \ {Head(s)} /\ Once(Tail(s))
<1> DEFINE u == Tail(s)
<1>1. /\ u \in Seq(S) /\ Head(s) \in S /\ Head(s) = s[1]
      /\ Len(s) \in Nat /\ Len(s) > 0 /\ Len(u) = Len(s) - 1
      /\ DOMAIN s = 1 .. Len(s) /\ DOMAIN u = 1 .. Len(s) - 1
      /\ \A k \in 1 .. Len(s) - 1 : u[k] = s[k + 1]
  BY HeadTailProperties, EmptySeq, LenProperties
<1> HIDE DEF u
<1>2. Head(s) \in Elements(s)
  BY <1>1 DEF Elements
<1>3. ASSUME Once(s)
      PROVE  Elements(u) = Elements(s) \ {Head(s)} /\ Once(u)
  <2>1. Once(u)
    <3> SUFFICES ASSUME NEW j \in DOMAIN u, NEW k \in DOMAIN u, u[j] = u[k]
                 PROVE  j = k
      BY DEF Once
    <3>1. j + 1 \in DOMAIN s /\ k + 1 \in DOMAIN s /\ s[j + 1] = s[k + 1]
      BY <1>1
    <3>2. j + 1 = k + 1
      BY <1>3, <3>1 DEF Once
    <3> QED BY <1>1, <3>2
  <2>2. ASSUME NEW e \in Elements(u)
        PROVE  e \in Elements(s) /\ e # Head(s)
    <3>1. PICK k \in 1 .. Len(s) - 1 : e = s[k + 1]
      BY <1>1 DEF Elements
    <3>2. k + 1 \in DOMAIN s /\ 1 \in DOMAIN s /\ k + 1 # 1
      BY <1>1
    <3> QED BY <1>1, <1>3, <3>1, <3>2 DEF Once, Elements
  <2>3. ASSUME NEW e \in Elements(s), e # Head(s)
        PROVE  e \in Elements(u)
    <3>1. PICK k \in 1 .. Len(s) : e = s[k]
      BY <1>1 DEF Elements
    <3>2. k # 1
      BY <1>1, <2>3, <3>1
    <3>3. k - 1 \in DOMAIN u /\ u[k - 1] = s[(k - 1) + 1] /\ (k - 1) + 1 = k
      BY <1>1, <3>2
    <3> QED BY <3>1, <3>3 DEF Elements
  <2> QED BY <2>1, <2>2, <2>3
<1> QED BY <1>1, <1>2, <1>3 DEF u

-----------------------------------------------------------------------------
(* Steps that leave a task where it is.                                    *)

Alike(t) ==
  /\ Queued(t)' = Queued(t) /\ Held(t)' = Held(t)
  /\ t \in Elements(ctl'.pending) <=> t \in Elements(ctl.pending)
  /\ t \in Elements(remaining') <=> t \in Elements(remaining)
  /\ runs'[t] = runs[t]
  /\ submit'[t] = "accepted" <=> submit[t] = "accepted"

LEMMA AlikeLies ==
  ASSUME NEW t \in Tasks, Alike(t), NEW k \in Places, Lies(t, k)
  PROVE  Lies(t, k)'
BY DEF Alike, Lies

\* Everything is where it was.
LEMMA Settled ==
  ASSUME PoolInv, \A t \in Tasks : Alike(t), NoneTwice'
  PROVE  OnePlace'
BY AlikeLies DEF PoolInv, OnePlace

\* One task has moved.
LEMMA Moved ==
  ASSUME PoolInv, NEW t \in Tasks, NEW k \in Places, Lies(t, k)',
         \A u \in Tasks : u # t => Alike(u), NoneTwice'
  PROVE  OnePlace'
BY AlikeLies DEF PoolInv, OnePlace

\* A step of a worker that holds no task.
LEMMA WorkerTurns ==
  ASSUME PoolInv, NEW w \in Workers, NEW g \in Goroutine,
         worker' = [worker EXCEPT ![w] = g], g.task = worker[w].task,
         worker[w].pc # "run", g.pc # "run", active' \in Int,
         UNCHANGED <<ownerVars, queue, runs>>
  PROVE  PoolInv'
<1> USE DEF PoolInv, ownerVars
<1>1. worker \in [Workers -> Goroutine]
  BY DEF TypeOK
<1>2. worker' \in [Workers -> Goroutine] /\ worker'[w] = g
      /\ \A v \in Workers : v # w => worker'[v] = worker[v]
  BY <1>1
<1>3. TypeOK'
  BY <1>2 DEF TypeOK
<1>4. \A v \in Workers : WorkerOK(v)'
  BY <1>2 DEF ControlOK, WorkerOK
<1>5. ControlOK'
  BY <1>4 DEF ControlOK, NoReader
<1>6. \A t \in Tasks : Alike(t)
  <2> SUFFICES ASSUME NEW t \in Tasks
               PROVE  Alike(t)
    OBVIOUS
  <2>1. Held(t)' = Held(t)
    BY <1>2 DEF Held
  <2>2. Queued(t)' = Queued(t)
    BY DEF Queued
  <2> QED BY <2>1, <2>2 DEF Alike
<1>7. NoneTwice'
  BY DEF OnePlace, NoneTwice
<1> QED BY <1>3, <1>5, <1>6, <1>7, Settled

\* A step of a submitter that does not send.
LEMMA SubmitTurns ==
  ASSUME PoolInv, NEW t \in Tasks, NEW from \in Standings \ {"accepted"},
         NEW to \in Standings \ {"accepted"}, Submitter(t, from, to),
         to = "send" => ~ stopped, UNCHANGED <<poolVars, queue>>
  PROVE  PoolInv'
<1> USE DEF PoolInv, poolVars
<1>1. submit \in [Tasks -> Standings]
  BY DEF TypeOK
<1>2. submit' \in [Tasks -> Standings] /\ submit'[t] = to /\ submit[t] = from
      /\ \A u \in Tasks : u # t => submit'[u] = submit[u]
  BY <1>1 DEF Submitter
<1>3. TypeOK'
  BY <1>2 DEF TypeOK
<1>4. queue[current].state = "closed" => NoReader'
  BY <1>2 DEF ControlOK, NoReader
<1>5. ControlOK'
  BY <1>4 DEF ControlOK, WorkerOK
<1>6. \A u \in Tasks : Alike(u)
  BY <1>2 DEF Alike, Queued, Held
<1>7. NoneTwice'
  BY DEF OnePlace, NoneTwice
<1> QED BY <1>3, <1>5, <1>6, <1>7, Settled

-----------------------------------------------------------------------------
(* Workers.                                                                *)

LEMMA UnbornTyped == Unborn \in Goroutine /\ Unborn.task = {} /\ Unborn.pc = "unborn"
BY WorkerPoolAssumption DEF Unborn, Goroutine, Pcs, Queues

\* A worker that holds no task and goes on.
LEMMA Goes ==
  ASSUME PoolInv, NEW w \in Workers, NEW from \in Pcs \ {"run"}, NEW to \in Pcs \ {"run"},
         Goto(w, from, to), active' \in Int, UNCHANGED <<ownerVars, queue, runs>>
  PROVE  PoolInv'
<1> DEFINE g == [worker[w] EXCEPT !.pc = to]
<1>1. worker[w] \in Goroutine /\ worker[w].pc = from
  BY DEF PoolInv, TypeOK, Goto
<1>2. g \in Goroutine /\ g.pc = to /\ g.task = worker[w].task
  BY <1>1 DEF Goroutine
<1>3. worker' = [worker EXCEPT ![w] = g]
  BY DEF Goto
<1> HIDE DEF g
<1> QED BY <1>1, <1>2, <1>3, WorkerTurns

\* A worker that begins its loop again or ends.
LEMMA Forgets ==
  ASSUME PoolInv, NEW w \in Workers, NEW from \in Pcs \ {"run"},
         Turn(w, from) \/ Leave(w, from), active' \in Int,
         UNCHANGED <<ownerVars, queue, runs>>
  PROVE  PoolInv'
<1> DEFINE g == [Unborn EXCEPT !.pc = "load"]
<1>1. worker[w].pc = from /\ worker[w].task = {}
  BY DEF Turn, Leave, PoolInv, ControlOK, WorkerOK
<1>2. g \in Goroutine /\ g.pc = "load" /\ g.task = {}
  BY UnbornTyped DEF Goroutine, Pcs
<1>3. worker' = [worker EXCEPT ![w] = g] \/ worker' = [worker EXCEPT ![w] = Unborn]
  BY DEF Turn, Leave
<1> HIDE DEF g
<1> QED BY <1>1, <1>2, <1>3, UnbornTyped, WorkerTurns

LEMMA LoadActiveKeeps ==
  ASSUME PoolInv, NEW w \in Workers, LoadActive(w)
  PROVE  PoolInv'
<1> DEFINE g == [worker[w] EXCEPT !.pc = "compare", !.seen = active]
<1>1. worker[w] \in Goroutine /\ worker[w].pc = "load" /\ active \in Int
  BY DEF PoolInv, TypeOK, LoadActive
<1>2. g \in Goroutine /\ g.pc = "compare" /\ g.task = worker[w].task
  BY <1>1 DEF Goroutine, Pcs
<1>3. worker' = [worker EXCEPT ![w] = g]
  BY DEF LoadActive
<1> HIDE DEF g
<1> QED BY <1>1, <1>2, <1>3, WorkerTurns DEF LoadActive

LEMMA SnapshotQueueKeeps ==
  ASSUME PoolInv, NEW w \in Workers, SnapshotQueue(w)
  PROVE  PoolInv'
<1> DEFINE g == [worker[w] EXCEPT !.pc = "select", !.from = current]
<1>1. worker[w] \in Goroutine /\ worker[w].pc = "snapshot" /\ current \in Queues
      /\ active' \in Int
  BY DEF PoolInv, TypeOK, SnapshotQueue
<1>2. g \in Goroutine /\ g.pc = "select" /\ g.task = worker[w].task
  BY <1>1 DEF Goroutine, Pcs
<1>3. worker' = [worker EXCEPT ![w] = g]
  BY DEF SnapshotQueue
<1> HIDE DEF g
<1> QED BY <1>1, <1>2, <1>3, WorkerTurns DEF SnapshotQueue

LEMMA QuietWorkers ==
  ASSUME PoolInv, NEW w \in Workers,
         CompareTarget(w) \/ ClaimExit(w) \/ VerifyExit(w) \/ RollBack(w) \/ LookAgain(w)
         \/ Quit(w)
  PROVE  PoolInv'
<1>1. active \in Int
  BY DEF PoolInv, TypeOK
<1>2. active' \in Int
  BY <1>1 DEF CompareTarget, ClaimExit, VerifyExit, RollBack, LookAgain, Quit
<1>3. {"compare", "snapshot", "cas", "verify", "rollback", "select"} \subseteq Pcs \ {"run"}
  BY DEF Pcs
<1>4. CASE CompareTarget(w)
  BY <1>2, <1>3, <1>4, Goes DEF CompareTarget
<1>5. CASE ClaimExit(w)
  BY <1>2, <1>3, <1>5, Goes, Forgets DEF ClaimExit
<1>6. CASE VerifyExit(w)
  BY <1>2, <1>3, <1>6, Goes, Forgets DEF VerifyExit
<1>7. CASE RollBack(w)
  BY <1>2, <1>3, <1>7, Goes DEF RollBack
<1>8. CASE LookAgain(w)
  BY <1>2, <1>3, <1>8, Forgets DEF LookAgain
<1>9. CASE Quit(w)
  BY <1>2, <1>3, <1>9, Forgets DEF Quit
<1> QED BY <1>4, <1>5, <1>6, <1>7, <1>8, <1>9

\* A task goes from the channel a worker looked up into its hands.
LEMMA TakeKeeps ==
  ASSUME PoolInv, NEW w \in Workers, Take(w)
  PROVE  PoolInv'
<1> DEFINE q == worker[w].from
           b == queue[q].buffer
           c == [queue[q] EXCEPT !.buffer = Tail(b)]
<1> USE DEF PoolInv, ownerVars
<1>1. /\ worker \in [Workers -> Goroutine] /\ queue \in [Queues -> Channel]
      /\ worker[w] \in Goroutine /\ q \in Queues /\ queue[q] \in Channel
      /\ b \in Seq(Tasks)
  BY DEF TypeOK, Goroutine, Channel
<1>2. worker[w].pc = "select" /\ worker[w].task = {} /\ b # <<>> /\ Once(b)
  BY <1>1 DEF Take, ControlOK, WorkerOK, OnePlace, NoneTwice
<1>3. PICK t \in Tasks : /\ t = Head(b) /\ Tail(b) \in Seq(Tasks) /\ t \in Elements(b)
                        /\ Elements(Tail(b)) = Elements(b) \ {t} /\ Once(Tail(b))
  BY <1>1, <1>2, OfTail
<1> DEFINE g == [worker[w] EXCEPT !.pc = "run", !.task = {t}]
<1>4. worker' = [worker EXCEPT ![w] = g] /\ queue' = [queue EXCEPT ![q] = c]
      /\ UNCHANGED <<ownerVars, active, runs>>
  BY <1>3 DEF Take
<1>5. g \in Goroutine /\ g.pc = "run" /\ g.task = {t}
  BY <1>1, <1>3 DEF Goroutine, Pcs
<1>6. c \in Channel /\ c.buffer = Tail(b) /\ c.state = queue[q].state
  BY <1>1, <1>3 DEF Channel
<1> HIDE DEF g, c
<1>7. /\ worker' \in [Workers -> Goroutine] /\ worker'[w] = g
      /\ \A v \in Workers : v # w => worker'[v] = worker[v]
  BY <1>1, <1>4, <1>5
<1>8. /\ queue' \in [Queues -> Channel] /\ queue'[q] = c
      /\ \A r \in Queues : r # q => queue'[r] = queue[r]
      /\ \A r \in Queues : queue'[r].state = queue[r].state
  BY <1>1, <1>4, <1>6
<1>9. TypeOK'
  BY <1>4, <1>7, <1>8 DEF TypeOK
<1>10. ControlOK'
  <2>1. q \in Queues /\ ~ q > current /\ current \in Queues
    BY <1>1, <1>2 DEF ControlOK, TypeOK
  <2>2. \A r \in Queues : r > current' =>
          queue'[r].buffer = <<>> /\ queue'[r].state = "open"
    BY <1>4, <1>8, <2>1 DEF ControlOK
  <2>3. \A v \in Workers : WorkerOK(v)'
    BY <1>3, <1>5, <1>7 DEF ControlOK, WorkerOK
  <2>4. queue'[current'].state = queue[current].state
    BY <1>4, <1>8, <2>1
  <2> QED BY <1>4, <2>2, <2>3, <2>4 DEF ControlOK, NoReader
<1>11. NoneTwice'
  BY <1>3, <1>4, <1>6, <1>8 DEF OnePlace, NoneTwice
<1>12. \A u \in Tasks : u # t => Alike(u)
  <2> SUFFICES ASSUME NEW u \in Tasks, u # t
               PROVE  Alike(u)
    OBVIOUS
  <2>1. Queued(u)' = Queued(u)
    BY <1>3, <1>6, <1>8 DEF Queued
  <2>2. Held(u)' = Held(u)
    BY <1>2, <1>5, <1>7 DEF Held
  <2> QED BY <1>4, <2>1, <2>2 DEF Alike
<1>13. Lies(t, "held")'
  <2>1. PICK k \in Places : Lies(t, k)
    BY <1>3 DEF OnePlace
  <2>2. q \in Queued(t)
    BY <1>1, <1>3 DEF Queued
  <2>3. k = "queued" /\ Queued(t) = {q} /\ Held(t) = {}
    BY <2>1, <2>2 DEF Lies
  <2>4. Queued(t)' = {}
    BY <1>3, <1>6, <1>8, <2>3 DEF Queued
  <2>5. Held(t)' = {w}
    BY <1>5, <1>7, <2>3 DEF Held
  <2> QED BY <1>4, <2>1, <2>3, <2>4, <2>5 DEF Lies
<1> QED BY <1>3, <1>9, <1>10, <1>11, <1>12, <1>13, Moved DEF Places

LEMMA ExecuteKeeps ==
  ASSUME PoolInv, NEW w \in Workers, Execute(w)
  PROVE  PoolInv' /\ \E t \in Tasks : /\ runs' = [runs EXCEPT ![t] = 1]
                                      /\ runs[t] = 0 /\ submit[t] = "accepted"
<1> DEFINE g == [Unborn EXCEPT !.pc = "load"]
<1> USE DEF PoolInv, ownerVars
<1>1. /\ worker \in [Workers -> Goroutine] /\ runs \in [Tasks -> Nat]
      /\ worker[w] \in Goroutine
  BY DEF TypeOK
<1>2. PICK t \in Tasks : worker[w].pc = "run" /\ worker[w].task = {t}
  BY DEF Execute, Turn, ControlOK, WorkerOK
<1>3. g \in Goroutine /\ g.pc = "load" /\ g.task = {}
  BY UnbornTyped DEF Goroutine, Pcs
<1>4. worker' = [worker EXCEPT ![w] = g] /\ UNCHANGED <<ownerVars, queue, active>>
  BY DEF Execute, Turn
<1> HIDE DEF g
<1>5. /\ worker' \in [Workers -> Goroutine] /\ worker'[w] = g
      /\ \A v \in Workers : v # w => worker'[v] = worker[v]
  BY <1>1, <1>3, <1>4
<1>6. /\ runs' \in [Tasks -> Nat] /\ runs'[t] = runs[t] + 1
      /\ \A u \in Tasks : u # t => runs'[u] = runs[u]
  BY <1>1, <1>2 DEF Execute
<1>7. TypeOK'
  BY <1>4, <1>5, <1>6 DEF TypeOK
<1>8. ControlOK'
  <2>1. \A v \in Workers : WorkerOK(v)'
    BY <1>3, <1>5 DEF ControlOK, WorkerOK
  <2> QED BY <1>4, <2>1 DEF ControlOK, NoReader
<1>9. NoneTwice'
  BY <1>4 DEF OnePlace, NoneTwice
<1>10. \A u \in Tasks : u # t => Alike(u)
  <2> SUFFICES ASSUME NEW u \in Tasks, u # t
               PROVE  Alike(u)
    OBVIOUS
  <2>1. Queued(u)' = Queued(u)
    BY <1>4 DEF Queued
  <2>2. Held(u)' = Held(u)
    BY <1>2, <1>3, <1>5 DEF Held
  <2> QED BY <1>4, <1>6, <2>1, <2>2 DEF Alike
<1>11. PICK k \in Places : Lies(t, k)
  BY DEF OnePlace
<1>12. k = "held" /\ Held(t) = {w} /\ Queued(t) = {} /\ runs[t] = 0
       /\ submit[t] = "accepted"
  <2>1. w \in Held(t)
    BY <1>2 DEF Held
  <2> QED BY <1>11, <2>1 DEF Lies
<1>13. Lies(t, "done")'
  <2>1. Queued(t)' = {}
    BY <1>4, <1>12 DEF Queued
  <2>2. Held(t)' = {}
    BY <1>3, <1>5, <1>12 DEF Held
  <2> QED BY <1>4, <1>6, <1>11, <1>12, <2>1, <2>2 DEF Lies
<1>14. runs' = [runs EXCEPT ![t] = 1]
  BY <1>1, <1>6, <1>12
<1> QED BY <1>7, <1>8, <1>9, <1>10, <1>12, <1>13, <1>14, Moved DEF Places

-----------------------------------------------------------------------------
(* Submitters.                                                             *)

LEMMA QuietSubmitters ==
  ASSUME PoolInv, NEW t \in Tasks, BeginSubmit(t) \/ LockSubmit(t) \/ FindFull(t) \/ Wake(t)
  PROVE  PoolInv'
<1>1. {"outside", "retry", "send", "waiting", "refused"} \subseteq Standings \ {"accepted"}
  BY DEF Standings
<1>2. CASE BeginSubmit(t)
  BY <1>1, <1>2, SubmitTurns DEF BeginSubmit
<1>3. CASE LockSubmit(t)
  BY <1>1, <1>3, SubmitTurns DEF LockSubmit
<1>4. CASE FindFull(t)
  BY <1>1, <1>4, SubmitTurns DEF FindFull
<1>5. CASE Wake(t)
  BY <1>1, <1>5, SubmitTurns DEF Wake
<1> QED BY <1>2, <1>3, <1>4, <1>5

\* Whoever sends is in time.
LEMMA SendersInTime ==
  ASSUME PoolInv, NEW t \in Tasks, submit[t] = "send"
  PROVE  queue[current].state = "open"
BY DEF PoolInv, TypeOK, ControlOK, NoReader, Channel

LEMMA EnqueueKeeps ==
  ASSUME PoolInv, NEW t \in Tasks, Enqueue(t)
  PROVE  PoolInv'
<1> DEFINE b == queue[current].buffer
           c == [queue[current] EXCEPT !.buffer = Append(b, t)]
<1> USE DEF PoolInv, poolVars
<1>1. /\ queue \in [Queues -> Channel] /\ submit \in [Tasks -> Standings]
      /\ current \in Queues /\ queue[current] \in Channel /\ b \in Seq(Tasks)
  BY DEF TypeOK, Channel
<1>2. PICK k \in Places : Lies(t, k)
  BY DEF OnePlace
<1>3. submit[t] = "send" /\ k = "nowhere"
  BY <1>2 DEF Enqueue, Submitter, Lies
<1>4. /\ Queued(t) = {} /\ Held(t) = {} /\ t \notin Elements(ctl.pending)
      /\ t \notin Elements(remaining) /\ runs[t] = 0
  BY <1>2, <1>3 DEF Lies
<1>5. t \notin Elements(b) /\ Once(b)
  BY <1>1, <1>4 DEF Queued, OnePlace, NoneTwice
<1>6. Append(b, t) \in Seq(Tasks) /\ Elements(Append(b, t)) = Elements(b) \cup {t}
      /\ Once(Append(b, t))
  BY <1>1, <1>5, OfAppend
<1>7. queue' = [queue EXCEPT ![current] = c] /\ UNCHANGED poolVars
  BY DEF Enqueue
<1>8. c \in Channel /\ c.buffer = Append(b, t) /\ c.state = queue[current].state
  BY <1>1, <1>6 DEF Channel
<1> HIDE DEF c
<1>9. /\ queue' \in [Queues -> Channel] /\ queue'[current] = c
      /\ \A r \in Queues : r # current => queue'[r] = queue[r]
      /\ \A r \in Queues : queue'[r].state = queue[r].state
  BY <1>1, <1>7, <1>8
<1>10. /\ submit' \in [Tasks -> Standings] /\ submit'[t] = "accepted"
       /\ \A u \in Tasks : u # t => submit'[u] = submit[u]
  BY <1>1 DEF Enqueue, Submitter, Standings
<1>11. TypeOK'
  BY <1>7, <1>9, <1>10 DEF TypeOK
<1>12. ControlOK'
  <2>1. \A r \in Queues : r > current => r # current
    BY <1>1 DEF Queues
  <2>2. \A r \in Queues : r > current' =>
          queue'[r].buffer = <<>> /\ queue'[r].state = "open"
    BY <1>7, <1>9, <2>1 DEF ControlOK
  <2>3. queue[current].state = "open"
    BY <1>3, SendersInTime
  <2>4. \A v \in Workers : WorkerOK(v)'
    BY <1>7 DEF ControlOK, WorkerOK
  <2>5. queue'[current'].state = "open"
    BY <1>1, <1>7, <1>9, <2>3
  <2> QED BY <1>7, <2>2, <2>3, <2>4, <2>5 DEF ControlOK
<1>13. NoneTwice'
  BY <1>6, <1>7, <1>8, <1>9 DEF OnePlace, NoneTwice
<1>14. \A u \in Tasks : u # t => Alike(u)
  <2> SUFFICES ASSUME NEW u \in Tasks, u # t
               PROVE  Alike(u)
    OBVIOUS
  <2>1. \A q \in Queues : u \in Elements(queue'[q].buffer) <=> u \in Elements(queue[q].buffer)
    <3>1. u \in Elements(c.buffer) <=> u \in Elements(b)
      BY <1>6, <1>8
    <3> QED BY <1>9, <3>1
  <2>2. Queued(u)' = Queued(u)
    BY <2>1 DEF Queued
  <2>3. Held(u)' = Held(u)
    BY <1>7 DEF Held
  <2> QED BY <1>7, <1>10, <2>2, <2>3 DEF Alike
<1>15. Lies(t, "queued")'
  <2>1. PICK q \in Queues : q = current
    BY <1>1
  <2>2. Queued(t)' = {q}
    BY <1>4, <1>6, <1>8, <1>9, <2>1 DEF Queued
  <2>3. Held(t)' = {}
    BY <1>4, <1>7 DEF Held
  <2> QED BY <1>4, <1>7, <1>10, <2>2, <2>3 DEF Lies
<1> QED BY <1>11, <1>12, <1>13, <1>14, <1>15, Moved DEF Places

-----------------------------------------------------------------------------
(* The holder of stateMutex.                                               *)

LEMMA IdleTyped == Idle \in Holder /\ Idle.pending = <<>> /\ Idle.op = "idle"
BY DEF Idle, Holder

\* A step that touches neither channels nor tasks.
LEMMA HolderTurns ==
  ASSUME PoolInv, NEW h \in Holder, ctl' = h, h.pending = <<>>, ctl.pending = <<>>,
         h.op \notin {"close", "drain", "merge"},
         started' \in BOOLEAN, stopped' \in BOOLEAN, quit' \in {"open", "closed"},
         target' \in Int, active' \in Int, plan' \in Plan,
         worker' \in [Workers -> Goroutine],
         \A v \in Workers : WorkerOK(v)' /\ worker'[v].task = worker[v].task,
         stopped' => h.op \in {"idle", "wait"}, h.op = "wait" => stopped',
         (~ stopped' \/ h.op = "wait") <=> (~ stopped \/ ctl.op = "wait"),
         UNCHANGED <<queue, current, remaining, submit, runs>>
  PROVE  PoolInv'
<1> USE DEF PoolInv
<1>1. TypeOK'
  BY DEF TypeOK
<1>2. ControlOK'
  BY DEF ControlOK, NoReader
<1>3. \A t \in Tasks : Alike(t)
  <2> SUFFICES ASSUME NEW t \in Tasks
               PROVE  Alike(t)
    OBVIOUS
  <2>1. Queued(t)' = Queued(t) /\ Held(t)' = Held(t)
    BY DEF Queued, Held
  <2> QED BY <2>1 DEF Alike
<1>4. NoneTwice'
  BY DEF OnePlace, NoneTwice
<1> QED BY <1>1, <1>2, <1>3, <1>4, Settled

LEMMA SpawnKeeps ==
  ASSUME PoolInv, Spawn
  PROVE  PoolInv'
<1> USE DEF PoolInv
<1>1. /\ worker \in [Workers -> Goroutine] /\ ctl \in Holder /\ ctl.pending = <<>>
      /\ ctl.op = "spawn" /\ ~ stopped
  BY DEF TypeOK, ControlOK, Spawn
<1>2. PICK w \in Workers : worker[w] = Unborn /\ worker' = [worker EXCEPT ![w].pc = "load"]
  BY DEF Spawn
<1> DEFINE g == [Unborn EXCEPT !.pc = "load"]
<1>3. worker' = [worker EXCEPT ![w] = g]
  BY <1>1, <1>2
<1>4. g \in Goroutine /\ g.pc = "load" /\ g.task = {}
  BY UnbornTyped DEF Goroutine, Pcs
<1> HIDE DEF g
<1>5. worker' \in [Workers -> Goroutine]
      /\ \A v \in Workers : WorkerOK(v)' /\ worker'[v].task = worker[v].task
  BY <1>1, <1>2, <1>3, <1>4, UnbornTyped DEF ControlOK, WorkerOK
<1>6. PICK h \in Holder : ctl' = h /\ h.pending = <<>> /\ h.op \in {"idle", "spawn"}
  BY <1>1, IdleTyped DEF Spawn, Holder
<1>7. /\ started' \in BOOLEAN /\ stopped' \in BOOLEAN /\ quit' \in {"open", "closed"}
      /\ target' \in Int /\ active' \in Int /\ plan' \in Plan
  BY DEF TypeOK, Spawn
<1> QED BY <1>1, <1>5, <1>6, <1>7, HolderTurns DEF Spawn

LEMMA ClampTyped == ASSUME NEW num \in WorkerRequests PROVE Clamp(num) \in Int
BY WorkerPoolAssumption DEF Clamp

LEMMA HolderTyped ==
  ASSUME NEW op \in {"spawn", "grow", "wait", "close"}
  PROVE  /\ [Idle EXCEPT !.op = op] \in Holder
         /\ [Idle EXCEPT !.op = op].pending = <<>> /\ [Idle EXCEPT !.op = op].op = op
BY IdleTyped DEF Holder

LEMMA SpawnerTyped ==
  ASSUME NEW n \in Int, NEW op \in {"spawn"}
  PROVE  /\ [Idle EXCEPT !.op = op, !.left = n] \in Holder
         /\ [Idle EXCEPT !.op = op, !.left = n].pending = <<>>
         /\ [Idle EXCEPT !.op = op, !.left = n].op = op
BY IdleTyped DEF Holder

LEMMA QuietHolder ==
  ASSUME PoolInv,
         Start \/ Grow \/ Stop \/ \E num \in WorkerRequests : UpdateWorkers(num)
  PROVE  PoolInv'
<1> USE DEF PoolInv
<1>1. /\ ctl \in Holder /\ ctl.op \in {"idle", "grow"} /\ ctl.pending = <<>>
      /\ worker \in [Workers -> Goroutine]
      /\ target \in Int /\ active \in Int /\ target - active \in Int
  BY DEF TypeOK, ControlOK, Start, Grow, Stop, UpdateWorkers
<1>2. worker' \in [Workers -> Goroutine]
      /\ \A v \in Workers : WorkerOK(v)' /\ worker'[v].task = worker[v].task
  BY <1>1 DEF ControlOK, WorkerOK, Start, Grow, Stop, UpdateWorkers
<1>3. plan.workers \in Int
  BY DEF TypeOK, Plan
<1>4. CASE Start
  <2> DEFINE h == [Idle EXCEPT !.op = "spawn", !.left = plan.workers]
  <2>1. h \in Holder /\ h.pending = <<>> /\ h.op = "spawn"
    BY <1>3, SpawnerTyped
  <2>2. ctl' = h
    BY <1>4 DEF Start
  <2> HIDE DEF h
  <2>3. started' \in BOOLEAN /\ stopped' \in BOOLEAN
    BY <1>4 DEF Start, TypeOK
  <2>4. quit' \in {"open", "closed"} /\ target' \in Int /\ active' \in Int
        /\ plan' \in Plan
    BY <1>3, <1>4 DEF Start, TypeOK
  <2> QED BY <1>1, <1>2, <1>4, <2>1, <2>2, <2>3, <2>4, HolderTurns DEF Start
<1>5. CASE Grow
  <2> DEFINE h == [Idle EXCEPT !.op = "spawn", !.left = target - active]
  <2>1. h \in Holder /\ h.pending = <<>> /\ h.op = "spawn"
    BY <1>1, SpawnerTyped
  <2>2. ctl' = h \/ ctl' = Idle
    BY <1>5 DEF Grow
  <2> HIDE DEF h
  <2>3. ~ stopped /\ ctl.op = "grow"
    BY <1>5 DEF Grow, ControlOK
  <2> QED BY <1>1, <1>2, <1>5, <2>1, <2>2, <2>3, IdleTyped, HolderTurns
          DEF Grow, TypeOK
<1>6. CASE Stop
  <2> DEFINE h == [Idle EXCEPT !.op = "wait"]
  <2>1. h \in Holder /\ h.pending = <<>> /\ h.op = "wait"
    BY HolderTyped
  <2>2. ctl' = h
    BY <1>6 DEF Stop
  <2> HIDE DEF h
  <2>3. started' \in BOOLEAN /\ stopped' \in BOOLEAN
    BY <1>6 DEF Stop, TypeOK
  <2>4. quit' \in {"open", "closed"} /\ target' \in Int /\ active' \in Int
        /\ plan' \in Plan
    BY <1>6 DEF Stop, TypeOK
  <2> QED BY <1>1, <1>2, <1>6, <2>1, <2>2, <2>3, <2>4, HolderTurns DEF Stop
<1>7. ASSUME NEW num \in WorkerRequests, UpdateWorkers(num)
      PROVE  PoolInv'
  <2> DEFINE h == [Idle EXCEPT !.op = "grow"]
  <2>1. h \in Holder /\ h.pending = <<>> /\ h.op = "grow"
    BY HolderTyped
  <2>2. ctl' = h \/ ctl' = Idle
    BY <1>7 DEF UpdateWorkers
  <2> HIDE DEF h
  <2>3. target' \in Int
    BY <1>7, ClampTyped DEF UpdateWorkers
  <2>4. plan' \in Plan
    <3>1. plan \in Plan /\ plan.resizes - 1 \in Nat
      BY <1>7 DEF UpdateWorkers, TypeOK, Plan
    <3>2. plan' = [plan EXCEPT !.resizes = plan.resizes - 1]
      BY <1>7 DEF UpdateWorkers
    <3> QED BY <3>1, <3>2 DEF Plan
  <2> QED BY <1>1, <1>2, <1>7, <2>1, <2>2, <2>3, <2>4, IdleTyped, HolderTurns
          DEF UpdateWorkers, TypeOK
<1> QED BY <1>4, <1>5, <1>6, <1>7

\* A step that leaves every buffer, and what the others have in hand, as it was.
LEMMA BuffersStay ==
  ASSUME PoolInv, NEW q \in Queues, NEW c \in Channel, queue' = [queue EXCEPT ![q] = c],
         c.buffer = queue[q].buffer, ctl'.pending = ctl.pending,
         UNCHANGED <<remaining, submit, worker, runs>>
  PROVE  OnePlace'
<1> USE DEF PoolInv
<1>1. queue \in [Queues -> Channel]
  BY DEF TypeOK
<1>2. \A r \in Queues : queue'[r].buffer = queue[r].buffer
  BY <1>1
<1>3. \A t \in Tasks : Alike(t)
  BY <1>2 DEF Alike, Queued, Held
<1>4. NoneTwice'
  BY <1>2 DEF OnePlace, NoneTwice
<1> QED BY <1>3, <1>4, Settled

LEMMA UpdateQueueSizeKeeps ==
  ASSUME PoolInv, NEW size \in SizeRequests, UpdateQueueSize(size)
  PROVE  PoolInv'
<1> DEFINE n == current + 1
           c == [queue[n] EXCEPT !.capacity = size]
           h == [Idle EXCEPT !.op = "close"]
<1> USE DEF PoolInv
<1>1. /\ queue \in [Queues -> Channel] /\ n \in Queues /\ current \in Queues
      /\ queue[n] \in Channel
      /\ size \in Nat /\ ~ stopped /\ ctl.op = "idle" /\ NoReader
  BY WorkerPoolAssumption DEF TypeOK, UpdateQueueSize, Plan, Queues
<1>2. queue' = [queue EXCEPT ![n] = c] /\ current' = n /\ ctl' = h
  BY DEF UpdateQueueSize
<1>3. c \in Channel /\ c.buffer = queue[n].buffer /\ c.state = queue[n].state
  BY <1>1 DEF Channel
<1>4. h \in Holder /\ h.pending = <<>> /\ h.op = "close"
  BY HolderTyped
<1> HIDE DEF c, h
<1>5. UNCHANGED <<started, stopped, quit, target, active, remaining, submit, worker, runs,
                  plan>>
  BY DEF UpdateQueueSize
<1>6. queue' \in [Queues -> Channel]
      /\ \A r \in Queues : /\ queue'[r].buffer = queue[r].buffer
                           /\ queue'[r].state = queue[r].state
  BY <1>1, <1>2, <1>3
<1>7. TypeOK'
  BY <1>1, <1>2, <1>4, <1>5, <1>6 DEF TypeOK
<1>8. ctl.pending = <<>> /\ remaining = <<>>
  BY <1>1 DEF ControlOK
<1>9. OnePlace'
  BY <1>1, <1>2, <1>3, <1>4, <1>5, <1>8, BuffersStay
<1>10. ControlOK'
  <2>1. n > 1 /\ n > current /\ \A r \in Queues : r > n => r > current
    BY <1>1 DEF Queues
  <2>2. \A r \in Queues : r > n => queue'[r].buffer = <<>> /\ queue'[r].state = "open"
    BY <1>6, <2>1 DEF ControlOK
  <2>3. queue'[n].state = "open"
    BY <1>1, <1>6, <2>1 DEF ControlOK
  <2>4. \A w \in Workers : WorkerOK(w)'
    BY <1>5 DEF ControlOK, WorkerOK
  <2> HIDE DEF n
  <2> QED BY <1>1, <1>2, <1>4, <1>5, <1>8, <2>1, <2>2, <2>3, <2>4 DEF ControlOK
<1> QED BY <1>7, <1>9, <1>10

LEMMA CloseOldKeeps ==
  ASSUME PoolInv, CloseOld
  PROVE  PoolInv'
<1> DEFINE o == current - 1
           c == [queue[o] EXCEPT !.state = "closed"]
           h == [ctl EXCEPT !.op = "drain"]
<1> USE DEF PoolInv
<1>1. /\ queue \in [Queues -> Channel] /\ o \in Queues /\ current \in Queues
      /\ o # current /\ current > 1
      /\ queue[o] \in Channel /\ ctl \in Holder /\ ctl.op = "close"
  BY WorkerPoolAssumption DEF TypeOK, ControlOK, CloseOld, Queues
<1>2. queue' = [queue EXCEPT ![o] = c] /\ ctl' = h
  BY DEF CloseOld
<1>3. c \in Channel /\ c.buffer = queue[o].buffer
  BY <1>1 DEF Channel
<1>4. h \in Holder /\ h.pending = ctl.pending /\ h.op = "drain"
  BY <1>1 DEF Holder
<1> HIDE DEF c, h
<1>5. UNCHANGED <<started, stopped, quit, current, target, active, remaining, submit,
                  worker, runs, plan>>
  BY DEF CloseOld
<1>6. queue' \in [Queues -> Channel] /\ \A r \in Queues : r # o => queue'[r] = queue[r]
  BY <1>1, <1>2, <1>3
<1>7. TypeOK'
  BY <1>4, <1>2, <1>5, <1>6 DEF TypeOK
<1>8. OnePlace'
  BY <1>1, <1>2, <1>3, <1>4, <1>5, BuffersStay
<1>9. ControlOK'
  <2>1. \A r \in Queues : r > current => r # o
    BY <1>1 DEF Queues
  <2>2. \A r \in Queues : r > current => queue'[r].buffer = <<>> /\ queue'[r].state = "open"
    BY <1>6, <2>1 DEF ControlOK
  <2>3. queue'[current] = queue[current]
    BY <1>1, <1>6
  <2>4. \A w \in Workers : WorkerOK(w)'
    BY <1>5 DEF ControlOK, WorkerOK
  <2> QED BY <1>1, <1>2, <1>4, <1>5, <2>2, <2>3, <2>4 DEF ControlOK, NoReader
<1> QED BY <1>7, <1>8, <1>9

LEMMA DrainKeeps ==
  ASSUME PoolInv, Drain
  PROVE  PoolInv'
<1> DEFINE b == queue[current - 1].buffer
<1> USE DEF PoolInv
<1>1. PICK o \in Queues : o = current - 1
  BY WorkerPoolAssumption DEF TypeOK, ControlOK, Drain, Queues
<1>2. /\ queue \in [Queues -> Channel] /\ current \in Queues /\ o # current /\ current > 1
      /\ queue[o] \in Channel /\ ctl \in Holder /\ ctl.op = "drain" /\ ~ stopped
      /\ b \in Seq(Tasks) /\ ctl.pending \in Seq(Tasks)
  BY <1>1 DEF TypeOK, ControlOK, Drain, Queues, Channel, Holder
<1>3. UNCHANGED <<started, stopped, quit, current, target, active, remaining, submit,
                  worker, runs, plan>>
  BY DEF Drain
<1>4. \A w \in Workers : WorkerOK(w)'
  BY <1>3 DEF ControlOK, WorkerOK
<1>5. CASE b = <<>>
  <2> DEFINE h == [ctl EXCEPT !.op = "merge"]
  <2>1. ctl' = h /\ UNCHANGED queue
    BY <1>5 DEF Drain
  <2>2. h \in Holder /\ h.pending = ctl.pending /\ h.op = "merge"
    BY <1>2 DEF Holder
  <2> HIDE DEF h
  <2>3. TypeOK'
    BY <1>3, <2>1, <2>2 DEF TypeOK
  <2>4. ControlOK'
    BY <1>2, <1>3, <1>4, <2>1, <2>2 DEF ControlOK, NoReader
  <2>5. queue' = [queue EXCEPT ![o] = queue[o]]
    BY <1>2, <2>1
  <2>6. OnePlace'
    BY <1>2, <1>3, <2>1, <2>2, <2>5, BuffersStay
  <2> QED BY <2>3, <2>4, <2>6
<1>6. CASE b # <<>>
  <2>1. Once(b)
    BY <1>1 DEF OnePlace, NoneTwice
  <2>2. PICK t \in Tasks : /\ t = Head(b) /\ Tail(b) \in Seq(Tasks) /\ t \in Elements(b)
                           /\ Elements(Tail(b)) = Elements(b) \ {t} /\ Once(Tail(b))
    BY <1>2, <1>6, <2>1, OfTail
  <2>3. PICK k \in Places : Lies(t, k)
    BY DEF OnePlace
  <2>4. o \in Queued(t)
    BY <1>1, <2>2 DEF Queued
  <2>5. /\ k = "queued" /\ Queued(t) = {o} /\ Held(t) = {} /\ t \notin Elements(ctl.pending)
    BY <2>3, <2>4 DEF Lies
  <2> DEFINE p == Append(ctl.pending, t)
             h == [ctl EXCEPT !.pending = p]
             c == [queue[o] EXCEPT !.buffer = Tail(b)]
  <2>6. /\ p \in Seq(Tasks) /\ Elements(p) = Elements(ctl.pending) \cup {t}
        /\ Once(p)
    BY <1>2, <2>5, OfAppend DEF OnePlace, NoneTwice
  <2>7. ctl' = h /\ queue' = [queue EXCEPT ![o] = c]
    BY <1>1, <1>6, <2>2 DEF Drain
  <2> HIDE DEF p
  <2>8. h \in Holder /\ h.pending = p /\ h.op = "drain"
    BY <1>2, <2>6 DEF Holder
  <2>9. c \in Channel /\ c.buffer = Tail(b)
    BY <1>2, <2>2 DEF Channel
  <2> HIDE DEF h, c
  <2>10. /\ queue' \in [Queues -> Channel] /\ queue'[o] = c
         /\ \A r \in Queues : r # o => queue'[r] = queue[r]
    BY <1>2, <2>7, <2>9
  <2>11. TypeOK'
    BY <1>3, <2>7, <2>8, <2>10 DEF TypeOK
  <2>12. ControlOK'
    <3>1. \A r \in Queues : r > current => r # o
      BY <1>1, <1>2 DEF Queues
    <3>2. \A r \in Queues : r > current =>
            queue'[r].buffer = <<>> /\ queue'[r].state = "open"
      BY <2>10, <3>1 DEF ControlOK
    <3>3. queue'[current] = queue[current]
      BY <1>2, <2>10
    <3> QED BY <1>2, <1>3, <1>4, <2>7, <2>8, <3>2, <3>3 DEF ControlOK, NoReader
  <2>13. NoneTwice'
    BY <1>3, <2>2, <2>6, <2>7, <2>8, <2>9, <2>10 DEF OnePlace, NoneTwice
  <2>14. \A u \in Tasks : u # t => Alike(u)
    <3> SUFFICES ASSUME NEW u \in Tasks, u # t
                 PROVE  Alike(u)
      OBVIOUS
    <3>1. u \in Elements(c.buffer) <=> u \in Elements(queue[o].buffer)
      BY <1>1, <2>2, <2>9
    <3>2. \A r \in Queues :
            u \in Elements(queue'[r].buffer) <=> u \in Elements(queue[r].buffer)
      BY <2>10, <3>1
    <3>3. Queued(u)' = Queued(u) /\ Held(u)' = Held(u)
      BY <1>3, <3>2 DEF Queued, Held
    <3> QED BY <1>3, <2>6, <2>7, <2>8, <3>3 DEF Alike
  <2>15. Lies(t, "moving")'
    <3>1. Queued(t)' = {}
      BY <2>2, <2>5, <2>9, <2>10 DEF Queued
    <3>2. Held(t)' = {}
      BY <1>3, <2>5 DEF Held
    <3> QED BY <1>3, <2>3, <2>5, <2>6, <2>7, <2>8, <3>1, <3>2 DEF Lies
  <2> QED BY <2>11, <2>12, <2>13, <2>14, <2>15, Moved DEF Places
<1> QED BY <1>5, <1>6

LEMMA MergeKeeps ==
  ASSUME PoolInv, Merge
  PROVE  PoolInv'
<1> DEFINE s == ctl.pending
           b == queue[current].buffer
<1> USE DEF PoolInv
<1>1. PICK q \in Queues : q = current
  BY DEF TypeOK
<1>2. /\ queue \in [Queues -> Channel] /\ queue[q] \in Channel /\ ctl \in Holder
      /\ ctl.op = "merge" /\ ~ stopped
      /\ b \in Seq(Tasks) /\ s \in Seq(Tasks) /\ current > 1
  BY <1>1 DEF TypeOK, ControlOK, Merge, Channel, Holder
<1>3. UNCHANGED <<started, stopped, quit, current, target, active, remaining, submit,
                  worker, runs, plan>>
  BY DEF Merge
<1>4. \A w \in Workers : WorkerOK(w)'
  BY <1>3 DEF ControlOK, WorkerOK
<1>5. CASE s = <<>>
  <2>1. ctl' = Idle /\ UNCHANGED queue
    BY <1>5 DEF Merge
  <2>2. TypeOK'
    BY <1>3, <2>1, IdleTyped DEF TypeOK
  <2>3. ControlOK'
    BY <1>2, <1>3, <1>4, <2>1, IdleTyped DEF ControlOK, NoReader
  <2>4. queue' = [queue EXCEPT ![q] = queue[q]]
    BY <1>2, <2>1
  <2>5. OnePlace'
    BY <1>2, <1>3, <1>5, <2>1, <2>4, IdleTyped, BuffersStay
  <2> QED BY <2>2, <2>3, <2>5
<1>6. CASE s # <<>>
  <2>1. Once(s)
    BY DEF OnePlace, NoneTwice
  <2>2. PICK t \in Tasks : /\ t = Head(s) /\ Tail(s) \in Seq(Tasks) /\ t \in Elements(s)
                           /\ Elements(Tail(s)) = Elements(s) \ {t} /\ Once(Tail(s))
    BY <1>2, <1>6, <2>1, OfTail
  <2>3. PICK k \in Places : Lies(t, k)
    BY DEF OnePlace
  <2>4. k = "moving" /\ Queued(t) = {} /\ Held(t) = {} /\ t \notin Elements(b)
    BY <1>1, <2>2, <2>3 DEF Lies, Queued
  <2> DEFINE a == Append(b, t)
             h == [ctl EXCEPT !.pending = Tail(s)]
             c == [queue[q] EXCEPT !.buffer = a]
  <2>5. a \in Seq(Tasks) /\ Elements(a) = Elements(b) \cup {t} /\ Once(a)
    BY <1>1, <1>2, <2>4, OfAppend DEF OnePlace, NoneTwice
  <2>6. ctl' = h /\ queue' = [queue EXCEPT ![q] = c]
    BY <1>1, <1>6, <2>2 DEF Merge
  <2> HIDE DEF a
  <2>7. h \in Holder /\ h.pending = Tail(s) /\ h.op = "merge"
    BY <1>2, <2>2 DEF Holder
  <2>8. c \in Channel /\ c.buffer = a /\ c.state = queue[q].state
    BY <1>2, <2>5 DEF Channel
  <2> HIDE DEF h, c
  <2>9. /\ queue' \in [Queues -> Channel] /\ queue'[q] = c
        /\ \A r \in Queues : r # q => queue'[r] = queue[r]
    BY <1>2, <2>6, <2>8
  <2>10. TypeOK'
    BY <1>3, <2>6, <2>7, <2>9 DEF TypeOK
  <2>11. ControlOK'
    <3>1. \A r \in Queues : r > current => r # q
      BY <1>1 DEF Queues
    <3>2. \A r \in Queues : r > current =>
            queue'[r].buffer = <<>> /\ queue'[r].state = "open"
      BY <2>9, <3>1 DEF ControlOK
    <3>3. queue'[current].state = queue[current].state
      BY <1>1, <2>8, <2>9
    <3> QED BY <1>2, <1>3, <1>4, <2>6, <2>7, <3>2, <3>3 DEF ControlOK, NoReader
  <2>12. NoneTwice'
    BY <1>3, <2>2, <2>5, <2>6, <2>7, <2>8, <2>9 DEF OnePlace, NoneTwice
  <2>13. \A u \in Tasks : u # t => Alike(u)
    <3> SUFFICES ASSUME NEW u \in Tasks, u # t
                 PROVE  Alike(u)
      OBVIOUS
    <3>1. u \in Elements(c.buffer) <=> u \in Elements(queue[q].buffer)
      BY <1>1, <2>5, <2>8
    <3>2. \A r \in Queues :
            u \in Elements(queue'[r].buffer) <=> u \in Elements(queue[r].buffer)
      BY <2>9, <3>1
    <3>3. Queued(u)' = Queued(u) /\ Held(u)' = Held(u)
      BY <1>3, <3>2 DEF Queued, Held
    <3> QED BY <1>3, <2>2, <2>6, <2>7, <3>3 DEF Alike
  <2>14. Lies(t, "queued")'
    <3>1. Queued(t)' = {q}
      BY <2>4, <2>5, <2>8, <2>9 DEF Queued
    <3>2. Held(t)' = {}
      BY <1>3, <2>4 DEF Held
    <3> QED BY <1>3, <2>2, <2>3, <2>4, <2>6, <2>7, <3>1, <3>2 DEF Lies
  <2> QED BY <2>10, <2>11, <2>12, <2>13, <2>14, Moved DEF Places
<1> QED BY <1>5, <1>6

LEMMA CollectKeeps ==
  ASSUME PoolInv, Collect
  PROVE  PoolInv'
<1> DEFINE b == queue[current].buffer
           c == [queue[current] EXCEPT !.buffer = <<>>, !.state = "closed"]
<1> USE DEF PoolInv
<1>1. PICK q \in Queues : q = current
  BY DEF TypeOK
<1>2. /\ queue \in [Queues -> Channel] /\ queue[q] \in Channel /\ b \in Seq(Tasks)
      /\ ctl.op = "wait" /\ stopped /\ NoReader /\ remaining = <<>> /\ ctl.pending = <<>>
  BY <1>1 DEF TypeOK, ControlOK, Collect, Channel
<1>3. /\ remaining' = b /\ queue' = [queue EXCEPT ![q] = c] /\ ctl' = Idle
      /\ UNCHANGED <<started, stopped, quit, current, target, active, submit, worker, runs,
                     plan>>
  BY <1>1 DEF Collect
<1>4. c \in Channel /\ c.buffer = <<>> /\ c.state = "closed"
  <2> DEFINE d == queue[q]
  <2>1. d \in Channel /\ c = [d EXCEPT !.buffer = <<>>, !.state = "closed"]
    BY <1>1, <1>2
  <2>2. <<>> \in Seq(Tasks)
    OBVIOUS
  <2> HIDE DEF d, c
  <2> QED BY <2>1, <2>2 DEF Channel
<1> HIDE DEF c
<1>5. /\ queue' \in [Queues -> Channel] /\ queue'[q] = c
      /\ \A r \in Queues : r # q => queue'[r] = queue[r]
  BY <1>2, <1>3, <1>4
<1>6. TypeOK'
  BY <1>2, <1>3, <1>5, IdleTyped DEF TypeOK
<1>7. ControlOK'
  <2>1. \A r \in Queues : r > current => r # q
    BY <1>1 DEF Queues
  <2>2. \A r \in Queues : r > current => queue'[r].buffer = <<>> /\ queue'[r].state = "open"
    BY <1>5, <2>1 DEF ControlOK
  <2>3. queue'[current].state = "closed"
    BY <1>1, <1>4, <1>5
  <2>4. \A w \in Workers : WorkerOK(w)'
    BY <1>3 DEF ControlOK, WorkerOK
  <2> QED BY <1>2, <1>3, <2>2, <2>3, <2>4, IdleTyped DEF ControlOK, NoReader
<1>8. NoneTwice'
  BY <1>1, <1>3, <1>4, <1>5, IdleTyped, OfEmpty DEF OnePlace, NoneTwice
<1>9. \A t \in Tasks : Held(t)' = Held(t)
  BY <1>3 DEF Held
<1>10. \A t \in Tasks : \E k \in Places : Lies(t, k)'
  <2> SUFFICES ASSUME NEW t \in Tasks
               PROVE  \E k \in Places : Lies(t, k)'
    OBVIOUS
  <2>1. PICK k \in Places : Lies(t, k)
    BY DEF OnePlace
  <2>2. CASE t \in Elements(b)
    <3>1. q \in Queued(t)
      BY <1>1, <2>2 DEF Queued
    <3>2. k = "queued" /\ Queued(t) = {q} /\ Held(t) = {}
      BY <2>1, <3>1 DEF Lies
    <3>3. Queued(t)' = {}
      BY <1>4, <1>5, <3>2, OfEmpty DEF Queued
    <3>4. Lies(t, "left")'
      BY <1>2, <1>3, <1>9, <2>1, <2>2, <3>2, <3>3, IdleTyped DEF Lies
    <3> QED BY <3>4 DEF Places
  <2>3. CASE t \notin Elements(b)
    <3>1. \A r \in Queues :
            t \in Elements(queue'[r].buffer) <=> t \in Elements(queue[r].buffer)
      <4>1. t \notin Elements(c.buffer)
        BY <1>4, OfEmpty
      <4>2. t \notin Elements(queue[q].buffer)
        BY <1>1, <2>3
      <4> QED BY <1>5, <4>1, <4>2
    <3>2. Queued(t)' = Queued(t)
      BY <3>1 DEF Queued
    <3>3. Alike(t)
      BY <1>2, <1>3, <1>9, <2>3, <3>2, IdleTyped, OfEmpty DEF Alike
    <3> QED BY <2>1, <3>3, AlikeLies
  <2> QED BY <2>2, <2>3
<1> QED BY <1>6, <1>7, <1>8, <1>10 DEF OnePlace

LEMMA RunRemainingKeeps ==
  ASSUME PoolInv, RunRemaining
  PROVE  PoolInv' /\ \E t \in Tasks : /\ runs' = [runs EXCEPT ![t] = 1]
                                      /\ runs[t] = 0 /\ submit[t] = "accepted"
<1> USE DEF PoolInv
<1>1. remaining \in Seq(Tasks) /\ remaining # <<>> /\ Once(remaining)
      /\ runs \in [Tasks -> Nat]
  BY DEF TypeOK, OnePlace, NoneTwice, RunRemaining
<1>2. PICK t \in Tasks : /\ t = Head(remaining) /\ Tail(remaining) \in Seq(Tasks)
                         /\ t \in Elements(remaining)
                         /\ Elements(Tail(remaining)) = Elements(remaining) \ {t}
                         /\ Once(Tail(remaining))
  BY <1>1, OfTail
<1>3. PICK k \in Places : Lies(t, k)
  BY DEF OnePlace
<1>4. /\ k = "left" /\ Queued(t) = {} /\ Held(t) = {} /\ runs[t] = 0
      /\ submit[t] = "accepted" /\ t \notin Elements(ctl.pending)
  BY <1>2, <1>3 DEF Lies
<1>5. runs' = [runs EXCEPT ![t] = 1]
  BY <1>2, <1>4 DEF RunRemaining
<1>6. /\ runs' \in [Tasks -> Nat] /\ runs'[t] = 1
      /\ \A u \in Tasks : u # t => runs'[u] = runs[u]
  BY <1>1, <1>5
<1>7. /\ remaining' = Tail(remaining)
      /\ UNCHANGED <<started, stopped, quit, queue, current, target, active, ctl, submit,
                     worker, plan>>
  BY DEF RunRemaining
<1>8. TypeOK'
  BY <1>2, <1>6, <1>7 DEF TypeOK
<1>9. ControlOK'
  <2>1. \A w \in Workers : WorkerOK(w)'
    BY <1>7 DEF ControlOK, WorkerOK
  <2> QED BY <1>1, <1>7, <2>1 DEF ControlOK, NoReader
<1>10. NoneTwice'
  BY <1>2, <1>7 DEF OnePlace, NoneTwice
<1>11. \A u \in Tasks : Queued(u)' = Queued(u) /\ Held(u)' = Held(u)
  BY <1>7 DEF Queued, Held
<1>12. \A u \in Tasks : u # t => Alike(u)
  BY <1>2, <1>6, <1>7, <1>11 DEF Alike
<1>13. Lies(t, "done")'
  BY <1>2, <1>4, <1>6, <1>7, <1>11 DEF Lies
<1> QED BY <1>4, <1>5, <1>8, <1>9, <1>10, <1>12, <1>13, Moved DEF Places

-----------------------------------------------------------------------------
LEMMA PoolInit == Init => PoolInv
<1> SUFFICES ASSUME Init
             PROVE  PoolInv
  OBVIOUS
<1> USE DEF Init
<1>1. 1 \in Queues
  BY WorkerPoolAssumption DEF Queues
<1>2. plan \in Plan
  BY WorkerPoolAssumption DEF Plan, Queues
<1> DEFINE c == [buffer |-> <<>>, state |-> "open", capacity |-> FirstCapacity]
<1>3. c \in Channel /\ c.buffer = <<>> /\ c.state = "open"
  BY WorkerPoolAssumption DEF Channel
<1>4. queue = [q \in Queues |-> c]
  OBVIOUS
<1> HIDE DEF c
<1>5. TypeOK
  <2>1. queue \in [Queues -> Channel] /\ worker \in [Workers -> Goroutine]
    BY <1>3, <1>4, UnbornTyped
  <2>2. started \in BOOLEAN /\ stopped \in BOOLEAN
    OBVIOUS
  <2>3. submit \in [Tasks -> Standings]
    BY DEF Standings
  <2> QED BY <1>1, <1>2, <2>1, <2>2, <2>3, IdleTyped DEF TypeOK
<1>6. ControlOK
  <2>1. \A w \in Workers : WorkerOK(w)
    BY UnbornTyped DEF WorkerOK
  <2> QED BY <1>1, <1>3, <1>4, <2>1, IdleTyped DEF ControlOK
<1>7. NoneTwice
  BY <1>3, <1>4, IdleTyped, OfEmpty DEF NoneTwice
<1>8. \A t \in Tasks : Lies(t, "nowhere")
  <2>1. \A t \in Tasks : Queued(t) = {}
    BY <1>3, <1>4, OfEmpty DEF Queued
  <2>2. \A t \in Tasks : Held(t) = {}
    BY UnbornTyped DEF Held
  <2> QED BY <2>1, <2>2, IdleTyped, OfEmpty DEF Lies
<1> QED BY <1>5, <1>6, <1>7, <1>8 DEF PoolInv, OnePlace, Places

LEMMA WorkerKeeps ==
  ASSUME PoolInv, NEW w \in Workers, WorkerStep(w)
  PROVE  PoolInv'
BY LoadActiveKeeps, SnapshotQueueKeeps, QuietWorkers, TakeKeeps, ExecuteKeeps DEF WorkerStep

LEMMA SubmitterKeeps ==
  ASSUME PoolInv, NEW t \in Tasks, SubmitStep(t)
  PROVE  PoolInv'
BY QuietSubmitters, EnqueueKeeps DEF SubmitStep

LEMMA OwnerKeeps ==
  ASSUME PoolInv, OwnerStep
  PROVE  PoolInv'
BY SpawnKeeps, QuietHolder, CloseOldKeeps, DrainKeeps, MergeKeeps, CollectKeeps DEF OwnerStep

LEMMA PoolStutter ==
  ASSUME PoolInv, UNCHANGED vars
  PROVE  PoolInv'
<1> USE DEF vars, PoolInv
<1>1. TypeOK'
  BY DEF TypeOK
<1>2. ControlOK'
  BY DEF ControlOK, NoReader, WorkerOK
<1>3. OnePlace'
  BY Settled DEF OnePlace, NoneTwice, Alike, Queued, Held
<1> QED BY <1>1, <1>2, <1>3

LEMMA PoolNext == PoolInv /\ [Next]_vars => PoolInv'
<1> SUFFICES ASSUME PoolInv, [Next]_vars
             PROVE  PoolInv'
  OBVIOUS
<1>1. ASSUME NEW t \in Tasks, SubmitStep(t) PROVE PoolInv'
  BY <1>1, SubmitterKeeps
<1>2. ASSUME NEW w \in Workers, WorkerStep(w) PROVE PoolInv'
  BY <1>2, WorkerKeeps
<1>3. ASSUME NEW size \in SizeRequests, UpdateQueueSize(size) PROVE PoolInv'
  BY <1>3, UpdateQueueSizeKeeps
<1>4. CASE Start \/ Stop \/ \E num \in WorkerRequests : UpdateWorkers(num)
  BY <1>4, QuietHolder
<1>5. CASE OwnerStep
  BY <1>5, OwnerKeeps
<1>6. CASE RunRemaining
  BY <1>6, RunRemainingKeeps
<1>7. CASE UNCHANGED vars
  BY <1>7, PoolStutter
<1> QED BY <1>1, <1>2, <1>3, <1>4, <1>5, <1>6, <1>7 DEF Next

\* Every task lies in one place and is accepted, or lies nowhere and is not;
\* sequences hold nothing twice, and the channel in use is open until Stop has
\* taken what it held.
THEOREM PoolInvariant == Spec => []PoolInv
BY PoolInit, PoolNext, PTL DEF Spec

-----------------------------------------------------------------------------
(* Places counted.                                                         *)

LEMMA OccursOnce ==
  ASSUME NEW s \in Seq(Tasks), Once(s), NEW t \in Tasks
  PROVE  Occurrences(s, t) = IF t \in Elements(s) THEN 1 ELSE 0
<1> DEFINE S == {k \in 1 .. Len(s) : s[k] = t}
<1>1. DOMAIN s = 1 .. Len(s)
  BY LenProperties
<1>2. CASE t \in Elements(s)
  <2>1. PICK k \in DOMAIN s : s[k] = t
    BY <1>2 DEF Elements
  <2>2. S = {k}
    BY <1>1, <2>1 DEF Once
  <2> HIDE DEF S
  <2>3. Cardinality(S) = 1
    BY <2>2, FS_Singleton
  <2> QED BY <1>2, <2>3 DEF Occurrences, S
<1>3. CASE t \notin Elements(s)
  <2>1. S = {}
    BY <1>1, <1>3 DEF Elements
  <2> HIDE DEF S
  <2>2. Cardinality(S) = 0
    BY <2>1, FS_EmptySet
  <2> QED BY <1>3, <2>2 DEF Occurrences, S
<1> QED BY <1>2, <1>3

\* No task is lost and none is run twice: the copies of a task are one from its
\* acceptance on, and none before, for any numbers of tasks, workers, channels
\* and resizes (submit, UpdateQueueSize, workerLoop, Stop).
THEOREM ExactlyOnePlaceHolds == Spec => []ExactlyOnePlace
<1>1. PoolInv => ExactlyOnePlace
  <2> SUFFICES ASSUME PoolInv, NEW t \in Tasks
               PROVE  Copies(t) = IF submit[t] = "accepted" THEN 1 ELSE 0
    BY DEF ExactlyOnePlace
  <2>1. PICK k \in Places : Lies(t, k)
    BY DEF PoolInv, OnePlace
  <2>2. \A q \in Queues : /\ queue[q].buffer \in Seq(Tasks) /\ Once(queue[q].buffer)
    BY DEF PoolInv, TypeOK, OnePlace, NoneTwice, Channel
  <2>3. {q \in Queues : Occurrences(queue[q].buffer, t) > 0} = Queued(t)
    BY <2>2, OccursOnce DEF Queued
  <2>4. Cardinality(Queued(t)) = IF k = "queued" THEN 1 ELSE 0
    BY <2>1, FS_Singleton, FS_EmptySet DEF Lies
  <2>5. Cardinality(Held(t)) = IF k = "held" THEN 1 ELSE 0
    BY <2>1, FS_Singleton, FS_EmptySet DEF Lies
  <2>6. ctl.pending \in Seq(Tasks) /\ remaining \in Seq(Tasks)
        /\ Once(ctl.pending) /\ Once(remaining)
    BY DEF PoolInv, TypeOK, OnePlace, NoneTwice, Holder
  <2>7. Occurrences(ctl.pending, t) = IF k = "moving" THEN 1 ELSE 0
    BY <2>1, <2>6, OccursOnce DEF Lies
  <2>8. Occurrences(remaining, t) = IF k = "left" THEN 1 ELSE 0
    BY <2>1, <2>6, OccursOnce DEF Lies
  <2>9. runs[t] = IF k = "done" THEN 1 ELSE 0
    BY <2>1 DEF Lies
  <2>10. submit[t] = "accepted" <=> k # "nowhere"
    BY <2>1 DEF Lies
  <2>11. Copies(t) = Cardinality(Queued(t)) + Cardinality(Held(t))
                     + Occurrences(ctl.pending, t) + Occurrences(remaining, t) + runs[t]
    BY <2>3 DEF Copies, Held
  <2> QED BY <2>4, <2>5, <2>7, <2>8, <2>9, <2>10, <2>11 DEF Places
<1> QED BY <1>1, PoolInvariant, PTL

-----------------------------------------------------------------------------
(***************************************************************************)
(* The pool implements JobLedger: Enqueue accepts, an attempt that ends    *)
(* otherwise refuses, Execute and RunRemaining run, Collect closes, and    *)
(* every other step leaves the ledger as it is.                            *)
(***************************************************************************)
Fate(t) == IF runs[t] > 0 THEN "done"
             ELSE IF submit[t] \in {"accepted", "refused"} THEN submit[t] ELSE "outside"

Fates == [t \in Tasks |-> Fate(t)]

Open == queue[current].state = "open"

SameOpen == Open' <=> Open

LEMMA LedgerStays ==
  ASSUME \A t \in Tasks : Fate(t)' = Fate(t), SameOpen
  PROVE  UNCHANGED Ledger!vars
<1>1. Fates' = Fates
  BY DEF Fates
<1>2. Open' = Open
  BY DEF SameOpen, Open
<1> QED BY <1>1, <1>2 DEF Ledger!vars, Fates, Fate, Open

\* One entry of the ledger is changed.
LEMMA LedgerMoves ==
  ASSUME NEW t \in Tasks, NEW from, NEW to, Fate(t) = from, Fate(t)' = to,
         \A u \in Tasks : u # t => Fate(u)' = Fate(u)
  PROVE  Ledger!Move(t, from, to)
<1>1. Fates[t] = from /\ Fates' = [Fates EXCEPT ![t] = to]
  BY DEF Fates
<1> QED BY <1>1 DEF Ledger!Move, Fates, Fate

LEMMA OpenStays ==
  ASSUME SameOpen
  PROVE  (queue[current].state = "open")' = (queue[current].state = "open")
BY DEF SameOpen, Open

\* As long as nothing is stopped or collected, the channel in use stays open.
LEMMA SameOpenByFlags ==
  ASSUME PoolInv, PoolInv', (~ stopped' \/ ctl'.op = "wait") <=> (~ stopped \/ ctl.op = "wait")
  PROVE  SameOpen
BY DEF PoolInv, ControlOK, SameOpen, Open

\* Only an accepted task has been run.
LEMMA RunsAccepted ==
  ASSUME PoolInv, NEW t \in Tasks
  PROVE  submit[t] # "accepted" => runs[t] = 0
BY DEF PoolInv, OnePlace, Lies, Places

\* Submitters: a task is accepted, refused, or still outside.
LEMMA SubmitterLedger ==
  ASSUME PoolInv, NEW t \in Tasks, SubmitStep(t)
  PROVE  [Ledger!Next]_(Ledger!vars)
<1> USE DEF PoolInv
<1>1. PoolInv'
  BY SubmitterKeeps
<1>2. UNCHANGED poolVars /\ submit \in [Tasks -> Standings] /\ runs \in [Tasks -> Nat]
  BY DEF TypeOK, SubmitStep, BeginSubmit, LockSubmit, Enqueue, FindFull, Wake
<1>3. SameOpen
  BY <1>1, <1>2, SameOpenByFlags DEF poolVars
<1>4. PICK to \in Standings :
        /\ submit' = [submit EXCEPT ![t] = to]
        /\ submit[t] \notin {"accepted", "refused"}
        /\ to = "accepted" => submit[t] = "send"
  BY DEF SubmitStep, BeginSubmit, LockSubmit, Enqueue, FindFull, Wake, Submitter, Standings
<1>5. /\ submit'[t] = to /\ runs[t] = 0
      /\ \A u \in Tasks : u # t => submit'[u] = submit[u]
  BY <1>2, <1>4, RunsAccepted
<1>6. /\ Fate(t) = "outside"
      /\ Fate(t)' = IF to \in {"accepted", "refused"} THEN to ELSE "outside"
      /\ \A u \in Tasks : u # t => Fate(u)' = Fate(u)
  BY <1>2, <1>4, <1>5 DEF Fate, poolVars
<1>7. CASE to = "accepted"
  <2>1. Ledger!Move(t, "outside", "accepted")
    BY <1>6, <1>7, LedgerMoves
  <2>2. queue[current].state = "open"
    BY <1>4, <1>7, SendersInTime
  <2>3. Ledger!Accept(t)
    BY <1>3, <2>1, <2>2, OpenStays DEF Ledger!Accept
  <2> QED BY <2>3 DEF Ledger!Next
<1>8. CASE to = "refused"
  <2>1. Ledger!Move(t, "outside", "refused")
    BY <1>6, <1>8, LedgerMoves
  <2>2. Ledger!Refuse(t)
    BY <1>3, <2>1, OpenStays DEF Ledger!Refuse
  <2> QED BY <2>2 DEF Ledger!Next
<1>9. CASE to \notin {"accepted", "refused"}
  <2>1. \A u \in Tasks : Fate(u)' = Fate(u)
    BY <1>6, <1>9
  <2> QED BY <1>3, <2>1, LedgerStays
<1> QED BY <1>7, <1>8, <1>9

\* A task is run.
LEMMA RunLedger ==
  ASSUME PoolInv, PoolInv', NEW t \in Tasks, runs' = [runs EXCEPT ![t] = 1],
         runs[t] = 0, submit[t] = "accepted", UNCHANGED <<submit, stopped, ctl>>
  PROVE  Ledger!Next
<1>1. runs \in [Tasks -> Nat]
  BY DEF PoolInv, TypeOK
<1>2. SameOpen
  BY SameOpenByFlags
<1>3. /\ Fate(t) = "accepted" /\ Fate(t)' = "done"
      /\ \A u \in Tasks : u # t => Fate(u)' = Fate(u)
  BY <1>1 DEF Fate
<1>4. Ledger!Move(t, "accepted", "done")
  BY <1>3, LedgerMoves
<1>5. Ledger!Run(t)
  BY <1>2, <1>4, OpenStays DEF Ledger!Run
<1> QED BY <1>5 DEF Ledger!Next

\* A step that neither submits nor runs a task, nor closes.
LEMMA QuietLedger ==
  ASSUME PoolInv, PoolInv', UNCHANGED <<submit, runs>>,
         (~ stopped' \/ ctl'.op = "wait") <=> (~ stopped \/ ctl.op = "wait")
  PROVE  UNCHANGED Ledger!vars
<1>1. \A t \in Tasks : Fate(t)' = Fate(t)
  BY DEF Fate
<1> QED BY <1>1, SameOpenByFlags, LedgerStays

LEMMA WorkerLedger ==
  ASSUME PoolInv, NEW w \in Workers, WorkerStep(w)
  PROVE  [Ledger!Next]_(Ledger!vars)
<1>1. PoolInv'
  BY WorkerKeeps
<1>2. UNCHANGED <<submit, stopped, ctl>>
  BY DEF WorkerStep, LoadActive, CompareTarget, ClaimExit, VerifyExit, RollBack,
         SnapshotQueue, Take, LookAgain, Quit, Execute, ownerVars
<1>3. CASE Execute(w)
  <2>1. PICK t \in Tasks : /\ runs' = [runs EXCEPT ![t] = 1]
                           /\ runs[t] = 0 /\ submit[t] = "accepted"
    BY <1>3, ExecuteKeeps
  <2> QED BY <1>1, <1>2, <2>1, RunLedger
<1>4. CASE ~ Execute(w)
  <2>1. UNCHANGED runs
    BY <1>4 DEF WorkerStep, LoadActive, CompareTarget, ClaimExit, VerifyExit, RollBack,
                SnapshotQueue, Take, LookAgain, Quit
  <2> QED BY <1>1, <1>2, <2>1, QuietLedger
<1> QED BY <1>3, <1>4

LEMMA CollectLedger ==
  ASSUME PoolInv, Collect
  PROVE  Ledger!Next
<1> USE DEF PoolInv
<1>1. PoolInv'
  BY CollectKeeps
<1>2. stopped /\ stopped' /\ ctl.op = "wait" /\ ctl'.op = "idle" /\ UNCHANGED <<submit, runs>>
  BY IdleTyped DEF Collect, ControlOK
<1>3. Open /\ ~ Open'
  BY <1>1, <1>2 DEF ControlOK, Open
<1>4. \A t \in Tasks : Fate(t)' = Fate(t)
  BY <1>2 DEF Fate
<1>5. Fates' = Fates
  BY <1>4 DEF Fates
<1>6. Ledger!Close
  BY <1>3, <1>5 DEF Ledger!Close, Fates, Fate, Open
<1> QED BY <1>6 DEF Ledger!Next

\* Every step of the pool is a step, or a stutter, of the ledger.
LEMMA LedgerStep ==
  ASSUME PoolInv, [Next]_vars
  PROVE  [Ledger!Next]_(Ledger!vars)
<1>1. PoolInv'
  BY PoolNext
<1>2. ASSUME NEW t \in Tasks, SubmitStep(t) PROVE [Ledger!Next]_(Ledger!vars)
  BY <1>2, SubmitterLedger
<1>3. ASSUME NEW w \in Workers, WorkerStep(w) PROVE [Ledger!Next]_(Ledger!vars)
  BY <1>3, WorkerLedger
<1>4. CASE RunRemaining
  <2>1. PICK t \in Tasks : /\ runs' = [runs EXCEPT ![t] = 1]
                           /\ runs[t] = 0 /\ submit[t] = "accepted"
    BY <1>4, RunRemainingKeeps
  <2>2. UNCHANGED <<submit, stopped, ctl>>
    BY <1>4 DEF RunRemaining
  <2> QED BY <1>1, <2>1, <2>2, RunLedger
<1>5. CASE Collect
  BY <1>5, CollectLedger
<1>6. CASE Spawn \/ Grow \/ CloseOld \/ Drain \/ Merge
  <2>1. UNCHANGED <<submit, runs, stopped>> /\ ctl.op # "wait"
    BY <1>6 DEF Spawn, Grow, CloseOld, Drain, Merge
  <2>2. ~ stopped
    BY <1>6 DEF PoolInv, ControlOK, Spawn, Grow, CloseOld, Drain, Merge
  <2> QED BY <1>1, <2>1, <2>2, QuietLedger
<1>7. CASE Start
  <2>1. UNCHANGED <<submit, runs, stopped>> /\ ~ stopped
    BY <1>7 DEF Start
  <2> QED BY <1>1, <2>1, QuietLedger
<1>8. CASE Stop
  <2>1. UNCHANGED <<submit, runs>> /\ ~ stopped /\ ctl'.op = "wait"
    BY <1>8 DEF Stop, Idle
  <2> QED BY <1>1, <2>1, QuietLedger
<1>9. CASE \/ \E num \in WorkerRequests : UpdateWorkers(num)
           \/ \E size \in SizeRequests : UpdateQueueSize(size)
  <2>1. UNCHANGED <<submit, runs, stopped>> /\ ~ stopped
    BY <1>9 DEF UpdateWorkers, UpdateQueueSize
  <2> QED BY <1>1, <2>1, QuietLedger
<1>10. CASE UNCHANGED vars
  <2>1. UNCHANGED <<submit, runs, stopped, ctl>>
    BY <1>10 DEF vars
  <2> QED BY <1>1, <2>1, QuietLedger
<1> QED BY <1>2, <1>3, <1>4, <1>5, <1>6, <1>7, <1>8, <1>9, <1>10 DEF Next, OwnerStep

LEMMA LedgerInit == Init => Ledger!Init
<1> SUFFICES ASSUME Init
             PROVE  Ledger!Init
  OBVIOUS
<1>1. 1 \in Queues
  BY WorkerPoolAssumption DEF Queues
<1>2. queue[current].state = "open"
  BY <1>1 DEF Init
<1>3. \A t \in Tasks : Fate(t) = "outside"
  BY DEF Init, Fate
<1>4. Fates = [t \in Tasks |-> "outside"]
  BY <1>3 DEF Fates
<1> QED BY <1>2, <1>4 DEF Ledger!Init, Fates, Fate

\* The pool keeps what JobLedger promises: a task is accepted or refused once,
\* an accepted one is run once, and nothing is accepted once Stop has closed
\* the channel, whatever was resized meanwhile (submit, Stop, workerLoop).
THEOREM LedgerRefined == Spec => LedgerSpec
BY LedgerInit, LedgerStep, PoolInvariant, PTL DEF Spec, LedgerSpec, Ledger!Spec

=============================================================================
