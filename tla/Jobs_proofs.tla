---------------------------- MODULE Jobs_proofs ----------------------------
(***************************************************************************)
(* The task centre keeps its promises for every set of origins, every rule *)
(* set, every retention limit and any number of tasks; and its jobs keep   *)
(* theirs for all tables, log tables, quotas and batches, any failures and *)
(* any administrators' requests.                                           *)
(***************************************************************************)
EXTENDS Jobs, SequenceTheorems, FiniteSetTheorems, WellFoundedInduction, TLAPS

-----------------------------------------------------------------------------
(* The task centre.                                                        *)

Elements(s) == {s[k] : k \in 1 .. Len(s)}

(***************************************************************************)
(* Appending to the remembered tasks and trimming (run, under the lock)    *)
(* keeps the newest task, forgets others only when the list is full, and   *)
(* never lets the list outgrow its limit.                                  *)
(***************************************************************************)
LEMMA TrimAppend ==
  ASSUME NEW s \in Seq(Ids), Len(s) <= KeepLimit, NEW i \in Ids
  PROVE  LET t == Trim(Append(s, i)) IN
         /\ t \in Seq(Ids)
         /\ Len(t) <= KeepLimit
         /\ Elements(t) \subseteq Elements(s) \cup {i}
         /\ i \in Elements(t)
         /\ Len(t) = KeepLimit \/ Elements(s) \subseteq Elements(t)
<1> DEFINE a == Append(s, i)
           t == Trim(a)
<1> USE TaskCenterAssumption
<1>1. /\ a \in Seq(Ids)
      /\ Len(a) = Len(s) + 1
      /\ \A k \in 1 .. Len(s) : a[k] = s[k]
      /\ a[Len(s) + 1] = i
  BY AppendProperties
<1>2. CASE Len(a) <= KeepLimit
  <2>1. t = a
    BY <1>1, <1>2 DEF Trim
  <2>2. Elements(a) = Elements(s) \cup {i}
    BY <1>1 DEF Elements
  <2> QED BY <1>1, <1>2, <2>1, <2>2
<1>3. CASE Len(a) > KeepLimit
  <2>1. Len(a) = KeepLimit + 1 /\ t = SubSeq(a, 2, Len(a))
    BY <1>1, <1>3 DEF Trim
  <2>2. /\ t \in Seq(Ids)
        /\ Len(t) = KeepLimit
        /\ \A k \in 1 .. KeepLimit : t[k] = a[k + 1]
    <3>1. 2 \in 1 .. Len(a) + 1 /\ \A k \in 2 .. Len(a) : a[k] \in Ids
      BY <1>1, <2>1, ElementOfSeq
    <3> QED BY <1>1, <2>1, <3>1, SubSeqProperties
  <2>3. t[KeepLimit] = i
    BY <1>1, <2>1, <2>2
  <2>4. Elements(t) \subseteq Elements(s) \cup {i}
    <3> SUFFICES ASSUME NEW k \in 1 .. KeepLimit
                 PROVE  t[k] \in Elements(s) \cup {i}
      BY <2>2 DEF Elements
    <3>1. t[k] = a[k + 1] /\ k + 1 \in 1 .. Len(s) + 1
      BY <1>1, <2>1, <2>2
    <3> QED BY <1>1, <3>1 DEF Elements
  <2> QED BY <2>2, <2>3, <2>4 DEF Elements
<1> QED BY <1>1, <1>2, <1>3

-----------------------------------------------------------------------------
(***************************************************************************)
(* What Submit writes into a fresh entry leaves it an entry.               *)
(***************************************************************************)
LEMMA EntrySubmitted ==
  ASSUME NEW e \in Entry, NEW l \in Creators
  PROVE  [e EXCEPT !.label = l, !.status = "running"] \in Entry
BY DEF Entry, Status

\* A published snapshot (setProgress) leaves an entry an entry.
LEMMA EntryProgress ==
  ASSUME NEW e \in Entry, NEW p \in Snapshots
  PROVE  [e EXCEPT !.progress = p] \in Entry
BY DEF Entry

\* So does the end of the body, with its error and finish time (run).
LEMMA EntryReturned ==
  ASSUME NEW e \in Entry, NEW err \in {"nil", "error"}, NEW t \in Nat
  PROVE  [e EXCEPT !.runErr = err, !.finishAt = t] \in Entry
BY DEF Entry

\* So does the final status (the deferred part of run).
LEMMA EntrySettled ==
  ASSUME NEW e \in Entry
  PROVE  /\ FinalStatus(e) \in Terminal
         /\ [e EXCEPT !.status = FinalStatus(e)] \in Entry
<1>1. FinalStatus(e) \in Terminal
  BY DEF FinalStatus, Terminal
<1> QED BY <1>1 DEF Entry, Status

\* So does a request to cancel (Cancel).
LEMMA EntryCancelled ==
  ASSUME NEW e \in Entry, NEW t \in Nat
  PROVE  [e EXCEPT !.ctx = "done", !.cancelReqAt = t] \in Entry
BY DEF Entry

-----------------------------------------------------------------------------
\* New makes a centre of the types.
LEMMA TypeInit == Init => TypeOK /\ Len(terminal) <= KeepLimit
BY TaskCenterAssumption
   DEF Init, TypeOK, RuleSet, Entry, Unborn, Status, Terminal, Ids

(***************************************************************************)
(* The types of the centre's state are preserved by every operation.       *)
(***************************************************************************)
LEMMA TypeNext ==
  ASSUME TypeOK, Len(terminal) <= KeepLimit, [Next]_vars
  PROVE  TypeOK' /\ (Len(terminal) <= KeepLimit)'
<1> DEFINE T == TypeOK /\ Len(terminal) <= KeepLimit
<1> USE TaskCenterAssumption DEF TypeOK
<1>1. CASE RegisterMutexRules
  BY <1>1 DEF RegisterMutexRules
<1>2. CASE \E names \in CreatorLists : RegisterCreators(names)
  BY <1>2 DEF RegisterCreators
<1>3. ASSUME NEW i \in Ids, NEW l \in Creators, Submit(i, l) PROVE T'
  <2>1. [task[i] EXCEPT !.label = l, !.status = "running"] \in Entry
    BY EntrySubmitted, Zenon
  <2> QED BY <1>3, <2>1 DEF Submit, Ids
<1>4. ASSUME NEW i \in Ids, NEW p \in Snapshots, SetProgress(i, p) PROVE T'
  BY <1>4, EntryProgress DEF SetProgress
<1>5. ASSUME NEW i \in Ids, NEW err \in {"nil", "error"}, Return(i, err)
      PROVE  T'
  <2>1. clock' \in 1 .. MaxClock
    BY <1>5 DEF Return, Now
  <2>2. [task[i] EXCEPT !.runErr = err, !.finishAt = clock'] \in Entry
    <3>1. clock' \in Nat
      BY <2>1
    <3> QED BY <3>1, EntryReturned, Zenon
  <2> QED BY <1>5, <2>1, <2>2 DEF Return
<1>6. ASSUME NEW i \in Ids, Settle(i) PROVE T'
  BY <1>6, EntrySettled, TrimAppend DEF Settle
<1>7. ASSUME NEW i \in Ids, Cancel(i) PROVE T'
  <2>1. clock' \in 1 .. MaxClock
    BY <1>7 DEF Cancel, Now
  <2>2. [task[i] EXCEPT !.ctx = "done", !.cancelReqAt = clock'] \in Entry
    <3>1. clock' \in Nat
      BY <2>1
    <3> QED BY <3>1, EntryCancelled, Zenon
  <2> QED BY <1>7, <2>1, <2>2 DEF Cancel
<1>8. CASE UNCHANGED vars
  BY <1>8 DEF vars
<1> QED BY <1>1, <1>2, <1>3, <1>4, <1>5, <1>6, <1>7, <1>8 DEF Next

(***************************************************************************)
(* The types hold in every reachable state.                                *)
(***************************************************************************)
THEOREM TypeCorrect == Spec => [](TypeOK /\ Len(terminal) <= KeepLimit)
<1> DEFINE T == TypeOK /\ Len(terminal) <= KeepLimit
<1>1. Init => T
  BY TypeInit
<1>2. T /\ [Next]_vars => T'
  BY TypeNext
<1> QED BY <1>1, <1>2, PTL DEF Spec
-----------------------------------------------------------------------------
(***************************************************************************)
(* The bookkeeping of the centre agrees with the goroutines at every step. *)
(* Why the pieces hold together: a goroutine that is past its body no      *)
(* longer changes its entry but through the lock; the conflict check of    *)
(* Submit compares the newcomer with every running task; and the rules may *)
(* only change while no task was ever accepted, when running is empty.     *)
(***************************************************************************)
LEMMA BookkeepingInit == Init => Bookkeeping
BY TaskCenterAssumption
   DEF Init, Bookkeeping, PhaseOK, MutualExclusion, MemoryOK, StampsOK, Ids,
       Unborn

\* Every step of the centre keeps the bookkeeping in agreement.
LEMMA BookkeepingNext ==
  ASSUME TypeOK, TypeOK', Bookkeeping, [Next]_vars
  PROVE  Bookkeeping'
<1> USE TaskCenterAssumption DEF TypeOK
<1>1. CASE RegisterMutexRules
  <2>1. running = {} /\ running' = {}
    BY <1>1 DEF RegisterMutexRules, Bookkeeping, PhaseOK, Ids
  <2> QED BY <1>1, <2>1 DEF RegisterMutexRules, Bookkeeping, PhaseOK,
             MutualExclusion, MemoryOK, StampsOK, Known
<1>2. CASE \E names \in CreatorLists : RegisterCreators(names)
  BY <1>2 DEF RegisterCreators, Bookkeeping, PhaseOK, MutualExclusion,
     MemoryOK, StampsOK, Known, Conflicts
<1>3. ASSUME NEW i \in Ids, NEW l \in Creators, Submit(i, l)
      PROVE  Bookkeeping'
  <2>1. /\ task[i] \in Entry
        /\ task'[i] = [task[i] EXCEPT !.label = l, !.status = "running"]
        /\ \A j \in Ids \ {i} : task'[j] = task[j]
    BY <1>3 DEF Submit
  <2>2. /\ task'[i].label = l
        /\ task'[i].status = "running"
        /\ task'[i].cancelReqAt = task[i].cancelReqAt
        /\ task'[i].ctx = task[i].ctx
    BY <2>1 DEF Entry
  <2>3. i \notin running /\ pc[i] = "unborn"
    <3>1. i > seq
      BY <1>3 DEF Submit, Ids
    <3>2. pc[i] = "unborn"
      BY <3>1 DEF Bookkeeping, PhaseOK
    <3> QED BY <3>2 DEF Bookkeeping, PhaseOK
  <2>4. PhaseOK'
    BY <1>3, <2>1, <2>2 DEF Submit, Bookkeeping, PhaseOK, Ids
  <2>5. MutualExclusion'
    <3> SUFFICES ASSUME NEW j \in running', NEW k \in running', j # k
                 PROVE  ~ Conflicts(task[j].label, task[k].label)'
      BY DEF MutualExclusion
    <3>1. \A x, y : Conflicts(x, y)' <=> Conflicts(x, y)
      BY <1>3 DEF Submit, Conflicts
    <3>2. \A x, y : Conflicts(x, y) <=> Conflicts(y, x)
      BY DEF Conflicts
    <3>3. \A m \in running : ~ Conflicts(l, task[m].label)
      BY <1>3 DEF Submit
    <3>4. CASE j = i
      <4>1. k \in running /\ task'[k].label = task[k].label
        BY <1>3, <2>1, <3>4 DEF Submit
      <4> QED BY <2>2, <3>1, <3>3, <3>4, <4>1
    <3>5. CASE k = i
      <4>1. j \in running /\ task'[j].label = task[j].label
        BY <1>3, <2>1, <3>5 DEF Submit
      <4> QED BY <2>2, <3>1, <3>2, <3>3, <3>5, <4>1
    <3>6. CASE j # i /\ k # i
      <4>1. /\ j \in running /\ task'[j].label = task[j].label
            /\ k \in running /\ task'[k].label = task[k].label
        BY <1>3, <2>1, <3>6 DEF Submit
      <4> QED BY <3>1, <4>1 DEF Bookkeeping, MutualExclusion
    <3> QED BY <3>4, <3>5, <3>6
  <2>6. MemoryOK'
    BY <1>3, <2>3 DEF Submit, Bookkeeping, MemoryOK, Known
  <2>7. StampsOK'
    BY <1>3, <2>1, <2>2 DEF Submit, Bookkeeping, StampsOK
  <2> QED BY <2>4, <2>5, <2>6, <2>7 DEF Bookkeeping
<1>4. ASSUME NEW i \in Ids, NEW p \in Snapshots, SetProgress(i, p)
      PROVE  Bookkeeping'
  <2>1. /\ task[i] \in Entry
        /\ task'[i] = [task[i] EXCEPT !.progress = p]
        /\ \A j \in Ids \ {i} : task'[j] = task[j]
    BY <1>4 DEF SetProgress
  <2>2. /\ task'[i].label = task[i].label
        /\ task'[i].status = task[i].status
        /\ task'[i].cancelReqAt = task[i].cancelReqAt
        /\ task'[i].finishAt = task[i].finishAt
        /\ task'[i].ctx = task[i].ctx
    BY <2>1 DEF Entry
  <2>3. \A j \in Ids : /\ task'[j].label = task[j].label
                       /\ task'[j].status = task[j].status
                       /\ task'[j].cancelReqAt = task[j].cancelReqAt
                       /\ task'[j].finishAt = task[j].finishAt
                       /\ task'[j].ctx = task[j].ctx
    BY <2>1, <2>2
  <2> QED BY <1>4, <2>3 DEF SetProgress, Bookkeeping, PhaseOK,
             MutualExclusion, MemoryOK, StampsOK, Known, Conflicts
<1>5. ASSUME NEW i \in Ids, NEW err \in {"nil", "error"}, Return(i, err)
      PROVE  Bookkeeping'
  <2>1. /\ task[i] \in Entry
        /\ task'[i] = [task[i] EXCEPT !.runErr = err, !.finishAt = clock']
        /\ \A j \in Ids \ {i} : task'[j] = task[j]
    BY <1>5 DEF Return
  <2>2. /\ task'[i].label = task[i].label
        /\ task'[i].status = task[i].status
        /\ task'[i].cancelReqAt = task[i].cancelReqAt
        /\ task'[i].ctx = task[i].ctx
    BY <2>1 DEF Entry
  <2>3. \A j \in Ids : /\ task'[j].label = task[j].label
                       /\ task'[j].status = task[j].status
                       /\ task'[j].cancelReqAt = task[j].cancelReqAt
                       /\ task'[j].ctx = task[j].ctx
    BY <2>1, <2>2
  <2>4. i \in running /\ task[i].status = "running"
    BY <1>5 DEF Return, Bookkeeping, PhaseOK
  <2>5. StampsOK'
    <3> SUFFICES ASSUME NEW j \in Ids
                 PROVE  /\ firstCancel'[j] <= task'[j].cancelReqAt
                        /\ task'[j].cancelReqAt <= clock'
                        /\ firstCancel'[j] = 0 => task'[j].cancelReqAt = 0
                        /\ task'[j].cancelReqAt # 0 => task'[j].ctx = "done"
                        /\ task'[j].status = "cancelled" =>
                             task'[j].cancelReqAt \in 1 .. task'[j].finishAt
      BY DEF StampsOK
    <3>1. clock <= clock' /\ clock' \in Nat /\ firstCancel' = firstCancel
      BY <1>5 DEF Return, Now
    <3>2. task[j] \in Entry /\ task[j].cancelReqAt \in Nat
      BY DEF Entry
    <3>3. j # i => task'[j].finishAt = task[j].finishAt
      BY <2>1
    <3>4. /\ firstCancel[j] <= task[j].cancelReqAt
          /\ task[j].cancelReqAt <= clock
          /\ firstCancel[j] = 0 => task[j].cancelReqAt = 0
          /\ task[j].cancelReqAt # 0 => task[j].ctx = "done"
          /\ task[j].status = "cancelled" =>
               task[j].cancelReqAt \in 1 .. task[j].finishAt
      BY DEF Bookkeeping, StampsOK
    <3>5. /\ task'[j].status = task[j].status
          /\ task'[j].cancelReqAt = task[j].cancelReqAt
          /\ task'[j].ctx = task[j].ctx
      BY <2>3
    <3>6. task'[j].status = "cancelled" => task'[j].finishAt = task[j].finishAt
      BY <2>4, <3>3, <3>5
    <3>7. task'[j].cancelReqAt <= clock'
      BY <3>1, <3>2, <3>4, <3>5
    <3> QED BY <3>1, <3>4, <3>5, <3>6, <3>7
  <2> QED BY <1>5, <2>3, <2>4, <2>5 DEF Return, Bookkeeping, PhaseOK,
             MutualExclusion, MemoryOK, Known, Conflicts
<1>6. ASSUME NEW i \in Ids, Settle(i) PROVE Bookkeeping'
  <2>1. /\ task[i] \in Entry
        /\ task'[i] = [task[i] EXCEPT !.status = FinalStatus(task[i])]
        /\ \A j \in Ids \ {i} : task'[j] = task[j]
    BY <1>6 DEF Settle
  <2>2. /\ task'[i].label = task[i].label
        /\ task'[i].status = FinalStatus(task[i])
        /\ task'[i].cancelReqAt = task[i].cancelReqAt
        /\ task'[i].finishAt = task[i].finishAt
        /\ task'[i].ctx = task[i].ctx
    BY <2>1 DEF Entry
  <2>3. i \in running /\ pc[i] = "returned" /\ i <= seq
    BY <1>6 DEF Settle, Bookkeeping, PhaseOK, Ids
  <2>4. PhaseOK'
    <3>1. FinalStatus(task[i]) \notin {"running", "unborn"}
      BY DEF FinalStatus
    <3> QED BY <1>6, <2>1, <2>2, <2>3, <3>1
            DEF Settle, Bookkeeping, PhaseOK, Ids
  <2>5. MutualExclusion'
    BY <1>6, <2>1 DEF Settle, Bookkeeping, MutualExclusion, Conflicts
  <2>6. MemoryOK'
    <3>1. /\ Elements(terminal') \subseteq Elements(terminal) \cup {i}
          /\ i \in Elements(terminal')
          /\ Len(terminal') <= KeepLimit
          /\ \/ Len(terminal') = KeepLimit
             \/ Elements(terminal) \subseteq Elements(terminal')
      BY <1>6, TrimAppend DEF Settle, Bookkeeping, MemoryOK
    <3>2. ASSUME NEW j \in Elements(terminal') PROVE pc'[j] = "settled"
      <4>1. CASE j = i
        BY <1>6, <4>1 DEF Settle
      <4>2. CASE j \in Elements(terminal)
        <5> PICK k \in 1 .. Len(terminal) : j = terminal[k]
          BY <4>2 DEF Elements
        <5>1. j \in Ids /\ pc[j] = "settled"
          BY ElementOfSeq DEF Bookkeeping, MemoryOK
        <5> QED BY <1>6, <5>1 DEF Settle
      <4> QED BY <3>1, <4>1, <4>2
    <3>3. \A j \in Ids : pc'[j] = "settled" =>
            j \in Elements(terminal') \/ Len(terminal') = KeepLimit
      <4> SUFFICES ASSUME NEW j \in Ids, pc'[j] = "settled",
                          Len(terminal') # KeepLimit
                   PROVE  j \in Elements(terminal')
        OBVIOUS
      <4>1. CASE j = i
        BY <3>1, <4>1
      <4>2. CASE j # i
        <5>1. pc[j] = "settled" /\ j \notin running
          BY <1>6, <4>2 DEF Settle, Bookkeeping, PhaseOK
        <5>2. Len(terminal) # KeepLimit
          <6> SUFFICES ASSUME Len(terminal) = KeepLimit PROVE FALSE
            OBVIOUS
          <6>1. Len(terminal') = KeepLimit
            BY <1>6, AppendProperties, SubSeqProperties DEF Settle, Trim
          <6> QED BY <6>1
        <5>3. j \in Elements(terminal)
          BY <5>1, <5>2 DEF Bookkeeping, MemoryOK, Known, Elements
        <5> QED BY <3>1, <5>3
      <4> QED BY <4>1, <4>2
    <3> QED BY <3>1, <3>2, <3>3 DEF MemoryOK, Known, Elements
  <2>7. StampsOK'
    <3>1. FinalStatus(task[i]) = "cancelled" =>
            task[i].cancelReqAt \in 1 .. task[i].finishAt
      BY <2>1 DEF FinalStatus, Entry
    <3> QED BY <1>6, <2>1, <2>2, <3>1 DEF Settle, Bookkeeping, StampsOK
  <2> QED BY <2>4, <2>5, <2>6, <2>7 DEF Bookkeeping
<1>7. ASSUME NEW i \in Ids, Cancel(i) PROVE Bookkeeping'
  <2>1. /\ task[i] \in Entry
        /\ task'[i] = [task[i] EXCEPT !.ctx = "done", !.cancelReqAt = clock']
        /\ \A j \in Ids \ {i} : task'[j] = task[j]
    BY <1>7 DEF Cancel
  <2>2. /\ task'[i].label = task[i].label
        /\ task'[i].status = task[i].status
        /\ task'[i].cancelReqAt = clock'
        /\ task'[i].ctx = "done"
    BY <2>1 DEF Entry
  <2>3. \A j \in Ids : /\ task'[j].label = task[j].label
                       /\ task'[j].status = task[j].status
    BY <2>1, <2>2
  <2>4. StampsOK'
    <3>1. /\ task[i].status # "cancelled"
          /\ clock' \in Nat \ {0}
          /\ clock <= clock'
      BY <1>7 DEF Cancel, Now, Terminal
    <3>2. firstCancel'[i] # 0 /\ firstCancel'[i] <= clock'
      <4>1. /\ firstCancel[i] \in Nat
            /\ task[i].cancelReqAt \in Nat
            /\ firstCancel[i] <= task[i].cancelReqAt
            /\ task[i].cancelReqAt <= clock
        BY <2>1 DEF Bookkeeping, StampsOK, Entry
      <4> QED BY <1>7, <3>1, <4>1 DEF Cancel
    <3> SUFFICES ASSUME NEW j \in Ids
                 PROVE  /\ firstCancel'[j] <= task'[j].cancelReqAt
                        /\ task'[j].cancelReqAt <= clock'
                        /\ firstCancel'[j] = 0 => task'[j].cancelReqAt = 0
                        /\ task'[j].cancelReqAt # 0 => task'[j].ctx = "done"
                        /\ task'[j].status = "cancelled" =>
                             task'[j].cancelReqAt \in 1 .. task'[j].finishAt
      BY DEF StampsOK
    <3>3. CASE j = i
      BY <2>2, <2>3, <3>1, <3>2, <3>3
    <3>4. CASE j # i
      <4>1. /\ task'[j] = task[j] /\ firstCancel'[j] = firstCancel[j]
            /\ task[j] \in Entry /\ task[j].cancelReqAt \in Nat
        BY <1>7, <2>1, <3>4 DEF Cancel, Entry
      <4> QED BY <3>1, <4>1 DEF Bookkeeping, StampsOK
    <3> QED BY <3>3, <3>4
  <2> QED BY <1>7, <2>3, <2>4 DEF Cancel, Bookkeeping, PhaseOK,
             MutualExclusion, MemoryOK, Known, Conflicts
<1>8. CASE UNCHANGED vars
  BY <1>8 DEF vars, Bookkeeping, PhaseOK, MutualExclusion, MemoryOK, StampsOK,
     Known, Conflicts
<1> QED BY <1>1, <1>2, <1>3, <1>4, <1>5, <1>6, <1>7, <1>8 DEF Next

(***************************************************************************)
(* The inductive invariant holds in every state of the centre: goroutine,  *)
(* status, lists and stamps of every task agree.                           *)
(***************************************************************************)
THEOREM BookkeepingInvariant == Spec => []Bookkeeping
<1>1. TypeOK /\ TypeOK' /\ Bookkeeping /\ [Next]_vars => Bookkeeping'
  BY BookkeepingNext
<1> QED BY <1>1, BookkeepingInit, TypeCorrect, PTL DEF Spec

(***************************************************************************)
(* No two conflicting tasks ever run together (conflictWith in Submit).    *)
(***************************************************************************)
THEOREM MutualExclusionHolds == Spec => []MutualExclusion
<1>1. Bookkeeping => MutualExclusion
  BY DEF Bookkeeping
<1> QED BY <1>1, BookkeepingInvariant, PTL

(***************************************************************************)
(* An accepted task occupies its label exactly while its goroutine lives,  *)
(* and is only forgotten by the eviction at TaskKeepLimit.                 *)
(***************************************************************************)
THEOREM NothingLostHolds == Spec => []NothingLost
<1>1. TypeOK /\ Bookkeeping => NothingLost
  <2> SUFFICES ASSUME TypeOK, Bookkeeping, NEW i \in 1 .. seq
               PROVE  /\ i \in running <=> pc[i] \in {"body", "returned"}
                      /\ i \in running <=> task[i].status = "running"
                      /\ i \notin Known => Len(terminal) = KeepLimit
    BY DEF NothingLost
  <2>1. i \in Ids /\ ~ (i > seq)
    BY TaskCenterAssumption DEF TypeOK, Ids
  <2>2. pc[i] \in {"body", "returned", "settled"}
    BY <2>1 DEF TypeOK, Bookkeeping, PhaseOK
  <2>3. pc[i] \in {"body", "returned"} => i \in Known
    BY <2>1 DEF Bookkeeping, PhaseOK, Known
  <2>4. pc[i] = "settled" => i \in Known \/ Len(terminal) = KeepLimit
    BY <2>1 DEF Bookkeeping, MemoryOK
  <2> QED BY <2>1, <2>2, <2>3, <2>4 DEF Bookkeeping, PhaseOK
<1> QED BY <1>1, TypeCorrect, BookkeepingInvariant, PTL

(***************************************************************************)
(* resolveFinalStatus only says cancelled when a Cancel came no later than *)
(* the end of the body, whose context was then done.                       *)
(***************************************************************************)
THEOREM CancelledOnlyIfAskedHolds == Spec => []CancelledOnlyIfAsked
<1>1. TypeOK /\ Bookkeeping => CancelledOnlyIfAsked
  <2> SUFFICES ASSUME TypeOK, Bookkeeping, NEW i \in Ids,
                      task[i].status = "cancelled"
               PROVE  /\ task[i].ctx = "done"
                      /\ firstCancel[i] \in 1 .. task[i].finishAt
    BY DEF CancelledOnlyIfAsked
  <2>1. task[i] \in Entry /\ firstCancel[i] \in Nat
    BY DEF TypeOK
  <2>2. task[i].cancelReqAt \in Nat /\ task[i].finishAt \in Nat
    BY <2>1 DEF Entry
  <2> QED BY <2>1, <2>2 DEF Bookkeeping, StampsOK
<1> QED BY <1>1, TypeCorrect, BookkeepingInvariant, PTL

(***************************************************************************)
(* A final status, and all that is reported with it, never changes again,  *)
(* whatever arrives late: progress, a second cancel, another submission.   *)
(***************************************************************************)
THEOREM TerminalIsFinalHolds == Spec => TerminalIsFinal
<1>1. TypeOK /\ Bookkeeping /\ [Next]_vars =>
        [\A i \in Ids : task[i].status \in Terminal => task'[i] = task[i]]_vars
  <2> SUFFICES ASSUME TypeOK, Bookkeeping, Next, NEW i \in Ids,
                      task[i].status \in Terminal
               PROVE  task'[i] = task[i]
    BY Zenon
  <2>1. pc[i] \notin {"unborn", "body", "returned"} /\ ~ (i > seq)
    BY DEF Bookkeeping, PhaseOK, Terminal, TypeOK
  <2> USE DEF TypeOK
  <2>2. CASE RegisterMutexRules \/ \E n \in CreatorLists : RegisterCreators(n)
    BY <2>2 DEF RegisterMutexRules, RegisterCreators
  <2>3. ASSUME NEW j \in Ids, NEW l \in Creators, Submit(j, l)
        PROVE  task'[i] = task[i]
    BY <2>1, <2>3 DEF Submit
  <2>4. ASSUME NEW j \in Ids, NEW p \in Snapshots, SetProgress(j, p)
        PROVE  task'[i] = task[i]
    BY <2>4 DEF SetProgress
  <2>5. ASSUME NEW j \in Ids, NEW err \in {"nil", "error"}, Return(j, err)
        PROVE  task'[i] = task[i]
    BY <2>1, <2>5 DEF Return
  <2>6. ASSUME NEW j \in Ids, Settle(j) PROVE task'[i] = task[i]
    BY <2>1, <2>6 DEF Settle
  <2>7. ASSUME NEW j \in Ids, Cancel(j) PROVE task'[i] = task[i]
    BY <2>7 DEF Cancel
  <2> QED BY <2>2, <2>3, <2>4, <2>5, <2>6, <2>7 DEF Next
<1> QED BY <1>1, TypeCorrect, BookkeepingInvariant, PTL
        DEF Spec, TerminalIsFinal

-----------------------------------------------------------------------------
(***************************************************************************)
(* The task centre implements the lock on labels: Submit acquires the      *)
(* label of the new task, Settle releases it, and every other step leaves  *)
(* what is held, and what conflicts, as it was.                            *)
(***************************************************************************)
LEMMA SameHeld ==
  ASSUME running' = running, rules' = rules,
         \A j \in running : task'[j].label = task[j].label
  PROVE  HeldLabels' = HeldLabels /\ ConflictRelation' = ConflictRelation
<1>1. HeldLabels' = HeldLabels
  BY DEF HeldLabels
<1>2. \A x, y : Conflicts(x, y)' <=> Conflicts(x, y)
  BY DEF Conflicts
<1> QED BY <1>1, <1>2 DEF ConflictRelation

\* Every step of the centre is a step, or a stutter, of the lock on labels.
LEMMA ExclusionStep ==
  ASSUME TypeOK, Bookkeeping, Next
  PROVE  [Exclusion!Next]_(Exclusion!vars)
<1> USE DEF TypeOK
<1> SUFFICES \/ Exclusion!Next
             \/ HeldLabels' = HeldLabels /\ ConflictRelation' = ConflictRelation
  BY DEF Exclusion!vars
<1>1. CASE RegisterMutexRules
  <2>1. HeldLabels = {} /\ HeldLabels' = {}
    <3>1. ASSUME NEW i \in running PROVE FALSE
      <4>1. i \in Ids /\ i > seq
        BY <1>1, TaskCenterAssumption DEF RegisterMutexRules, Ids
      <4> QED BY <4>1 DEF Bookkeeping, PhaseOK
    <3> QED BY <1>1, <3>1 DEF RegisterMutexRules, HeldLabels
  <2>2. ConflictRelation' \in SUBSET (Creators \X Creators)
    BY DEF ConflictRelation
  <2> QED BY <2>1, <2>2 DEF Exclusion!Next, Exclusion!Configure
<1>2. CASE \E names \in CreatorLists : RegisterCreators(names)
  BY <1>2, SameHeld DEF RegisterCreators
<1>3. ASSUME NEW i \in Ids, NEW l \in Creators, Submit(i, l)
      PROVE  Exclusion!Next
  <2>1. task[i] \in Entry /\ i \notin running
    BY <1>3 DEF Submit, Bookkeeping, PhaseOK, Ids
  <2>2. /\ task'[i].label = l
        /\ \A j \in running : task'[j].label = task[j].label
    BY <1>3, <2>1 DEF Submit, Entry
  <2>3. HeldLabels' = HeldLabels \cup {l}
    BY <1>3, <2>2 DEF Submit, HeldLabels
  <2>4. ConflictRelation' = ConflictRelation
    <3>1. \A x, y : Conflicts(x, y)' <=> Conflicts(x, y)
      BY <1>3 DEF Submit, Conflicts
    <3> QED BY <3>1 DEF ConflictRelation
  <2>5. Exclusion!Compatible(l)
    <3> SUFFICES ASSUME NEW h \in HeldLabels
                 PROVE  /\ h # l
                        /\ <<h, l>> \notin ConflictRelation
                        /\ <<l, h>> \notin ConflictRelation
      BY DEF Exclusion!Compatible
    <3> PICK j \in running : h = task[j].label
      BY DEF HeldLabels
    <3>1. ~ Conflicts(l, h)
      BY <1>3 DEF Submit
    <3>2. h # l /\ ~ Conflicts(h, l)
      BY <3>1 DEF Conflicts
    <3> QED BY <3>1, <3>2 DEF ConflictRelation
  <2> QED BY <2>3, <2>4, <2>5 DEF Exclusion!Next, Exclusion!Acquire
<1>4. ASSUME NEW i \in Ids, NEW p \in Snapshots, SetProgress(i, p)
      PROVE  HeldLabels' = HeldLabels /\ ConflictRelation' = ConflictRelation
  <2>1. task[i] \in Entry
    OBVIOUS
  <2>2. \A j \in running : task'[j].label = task[j].label
    BY <1>4, <2>1 DEF SetProgress, Entry
  <2> QED BY <1>4, <2>2, SameHeld DEF SetProgress
<1>5. ASSUME NEW i \in Ids, NEW err \in {"nil", "error"}, Return(i, err)
      PROVE  HeldLabels' = HeldLabels /\ ConflictRelation' = ConflictRelation
  <2>1. task[i] \in Entry
    OBVIOUS
  <2>2. \A j \in running : task'[j].label = task[j].label
    BY <1>5, <2>1 DEF Return, Entry
  <2> QED BY <1>5, <2>2, SameHeld DEF Return
<1>6. ASSUME NEW i \in Ids, Settle(i) PROVE Exclusion!Next
  <2> DEFINE l == task[i].label
  <2>1. task[i] \in Entry /\ i \in running /\ l \in Creators
    BY <1>6 DEF Settle, Bookkeeping, PhaseOK
  <2>2. \A j \in running : task'[j].label = task[j].label
    BY <1>6, <2>1 DEF Settle, Entry
  <2>3. \A j \in running \ {i} : task[j].label # l
    BY <2>1 DEF Bookkeeping, MutualExclusion, Conflicts
  <2>4. HeldLabels' = HeldLabels \ {l}
    BY <1>6, <2>1, <2>2, <2>3 DEF Settle, HeldLabels
  <2>5. ConflictRelation' = ConflictRelation
    <3>1. \A x, y : Conflicts(x, y)' <=> Conflicts(x, y)
      BY <1>6 DEF Settle, Conflicts
    <3> QED BY <3>1 DEF ConflictRelation
  <2>6. l \in HeldLabels
    BY <2>1 DEF HeldLabels
  <2> QED BY <2>1, <2>4, <2>5, <2>6 DEF Exclusion!Next, Exclusion!Release
<1>7. ASSUME NEW i \in Ids, Cancel(i)
      PROVE  HeldLabels' = HeldLabels /\ ConflictRelation' = ConflictRelation
  <2>1. task[i] \in Entry
    OBVIOUS
  <2>2. \A j \in running : task'[j].label = task[j].label
    BY <1>7, <2>1 DEF Cancel, Entry
  <2> QED BY <1>7, <2>2, SameHeld DEF Cancel
<1> QED BY <1>1, <1>2, <1>3, <1>4, <1>5, <1>6, <1>7 DEF Next

THEOREM ExclusionRefined == Spec => ExclusionSpec
<1>1. Init => Exclusion!Init
  BY DEF Init, Exclusion!Init, HeldLabels, ConflictRelation
<1>2. TypeOK /\ Bookkeeping /\ [Next]_vars => [Exclusion!Next]_(Exclusion!vars)
  <2>1. CASE UNCHANGED vars
    BY <2>1, SameHeld DEF vars, Exclusion!vars
  <2> QED BY <2>1, ExclusionStep
<1> QED BY <1>1, <1>2, TypeCorrect, BookkeepingInvariant, PTL
        DEF Spec, ExclusionSpec, Exclusion!Spec

-----------------------------------------------------------------------------
(* The jobs: the invariant.                                                *)

Codes == Sources \cup {Target}

Copying == {"open", "next", "claim", "columns", "truncate", "batch", "reset", "verdict"}

Run == [at : Copying \cup {"none", "ddl", "ok", "error"}, table : Tables \cup {0},
        source : Codes, mode : {"replace", "skip"},
        status : [Tables -> {"pending", "running", "done", "failed", "cancelled"}],
        rows : [Tables -> Nat],
        cancelled : BOOLEAN, failed : BOOLEAN, err : BOOLEAN, lost : BOOLEAN]

\* The types of the state of Migration.
MigTypeOK ==
  /\ dsn \subseteq Codes
  /\ editor \in [Editors -> [at : {"idle", "delete", "save"}, code : Codes, list : SUBSET Codes]]
  /\ starter \in [at : {"idle", "submit", "publish"}, code : Codes]
  /\ aligner \subseteq Tables
  /\ mig \in [Ids -> Run]
  /\ target \in [Tables -> [copied : SUBSET Nat, held : SUBSET Nat, others : BOOLEAN]]

Walking == {"table", "block", "upsert", "close", "report", "purge"}

Finds == UNION {[D -> Addresses] : D \in SUBSET (Nat \ {0})}

Round == [at : Walking \cup {"none", "ok", "error"}, log : Logs \cup {0}, from : Nat,
          cursor : Nat, upto : Nat, found : Finds, ips : Nat, scanned : Nat,
          exhausted : BOOLEAN, interrupted : BOOLEAN, failed : BOOLEAN,
          outcome : {"none", "success", "partial", "failed"}]

\* The types of the state of GeoipSync.
GeoTypeOK ==
  /\ logRows \in [Logs -> Seq(Addresses \cup {Gone})]
  /\ geoList \subseteq Addresses /\ IsFiniteSet(geoList)
  /\ cursors \in [Logs -> Nat]
  /\ sync \in [Ids -> Round]
  /\ cache \in [entry : Nat \cup {Nothing}, call : Nat \cup {Nothing}, late : BOOLEAN]

(***************************************************************************)
(* What a task does is what its label says, and only while its goroutine   *)
(* is in the body; of two tasks with the same label the first has settled. *)
(***************************************************************************)
LabelsOK ==
  \A i \in Ids :
    /\ i > seq => task[i].label = None
    /\ mig[i].at # "none" <=> task[i].label \in {"migrate", "schema_apply"}
    /\ mig[i].at \in Copying => task[i].label = "migrate"
    /\ mig[i].at = "ddl" => task[i].label = "schema_apply"
    /\ mig[i].at \in Copying \cup {"ddl"} => pc[i] = "body"
    /\ sync[i].at # "none" <=> task[i].label = "geoip_sync"
    /\ sync[i].at \in Walking => pc[i] = "body"

Sequential ==
  \A i, j \in 1 .. seq :
    i < j /\ task[i].label = task[j].label => pc[i] = "settled"

(***************************************************************************)
(* A copy that lost its source was exposed to that; one that was not, and  *)
(* has not looked yet, will find it.                                       *)
(***************************************************************************)
SourcesOK ==
  \A i \in Ids :
    /\ mig[i].lost => i \in exposed
    /\ mig[i].at = "open" /\ i \notin exposed => ~AtRisk(mig[i].source)

(***************************************************************************)
(* The tables of a migration: those before the one in hand are dealt with, *)
(* those after it are untouched.                                           *)
(***************************************************************************)
Untouched == {"pending", "cancelled"}

InHand == {"columns", "truncate", "batch", "reset", "verdict"}

TablesOf(m) ==
  /\ m.at = "open" =>
       m.table = 0 /\ \A t \in Tables : m.status[t] \in Untouched /\ m.rows[t] = 0
  /\ m.at \in {"next", "claim"} \cup InHand =>
       \A t \in Tables :
         /\ m.table = 0 \/ t < m.table => m.status[t] \notin {"pending", "running"}
         /\ m.table # 0 /\ t > m.table => m.status[t] \in Untouched /\ m.rows[t] = 0
  /\ (m.at = "next" /\ m.table # 0) \/ m.at = "claim" =>
       m.table # 0 /\ m.status[m.table] \in Untouched /\ m.rows[m.table] = 0
  /\ m.at \in InHand => m.table # 0 /\ m.status[m.table] = "running"
  /\ m.at \in {"columns", "truncate"} => m.rows[m.table] = 0
  /\ m.at \in {"ok", "error"} =>
       /\ \A t \in Tables : m.status[t] # "running"
       /\ \/ \A t \in Tables : m.status[t] # "pending"
          \/ \A t \in Tables : m.status[t] \in Untouched

TablesOK == \A i \in Migrations : TablesOf(mig[i])

(***************************************************************************)
(* The rows the body has counted are in the target or their keys are held  *)
(* there; and what the last migration reports as done is there as a whole. *)
(***************************************************************************)
Taken(stock, t, n) == 1 .. n \subseteq stock[t].copied \cup stock[t].held

Cleared(m, stock, t) == m.mode = "replace" => stock[t].held = {} /\ ~stock[t].others

Whole(m, stock, t) ==
  m.rows[t] = RowsOf[t] /\ Taken(stock, t, RowsOf[t]) /\ Cleared(m, stock, t)

Accords(m, stock) ==
  /\ m.at = "batch" =>
       Taken(stock, m.table, m.rows[m.table]) /\ Cleared(m, stock, m.table)
  /\ m.at = "reset" \/ (m.at = "verdict" /\ ~m.err) => Whole(m, stock, m.table)
  /\ \A t \in Tables : m.status[t] = "done" => Whole(m, stock, t)

LastOf(i) == \A j \in Migrations : j <= i

TargetOK == \A i \in Migrations : LastOf(i) => Accords(mig[i], target)

(***************************************************************************)
(* The rows up to n are in the list; so are those behind every cursor, and *)
(* what is found between the cursor and the end of the block goes there.   *)
(***************************************************************************)
Written(rows, n, list) ==
  /\ n <= Len(rows)
  /\ \A k \in 1 .. n : rows[k] \in Located => rows[k] \in list

Pending(s, rows, list) ==
  /\ s.cursor <= s.upto /\ s.upto <= Len(rows)
  /\ \A k \in s.cursor + 1 .. s.upto :
       rows[k] \in Located => \/ rows[k] \in list
                             \/ \E j \in DOMAIN s.found : s.found[j] = rows[k]

RoundOf(s, logs, list) ==
  /\ s.at \in {"table", "block", "upsert", "close"} => s.log # 0
  /\ s.at \in {"block", "upsert", "close"} =>
       Written(logs[s.log], s.from, list) /\ Written(logs[s.log], s.cursor, list)
  /\ s.at = "upsert" => Pending(s, logs[s.log], list)

ScanOK ==
  /\ \A t \in Logs : Written(logRows[t], cursors[t], geoList)
  /\ \A i \in Ids : RoundOf(sync[i], logRows, geoList)

(***************************************************************************)
(* How a round ended: what was cut short was cancelled before the round    *)
(* was reported, and that before the body returned.                        *)
(***************************************************************************)
OutcomeOf(s, e, p, first) ==
  /\ s.at \in {"none", "table", "block", "upsert", "close", "report"} => s.outcome = "none"
  /\ s.at \in {"purge", "ok"} => s.outcome \in {"success", "partial"}
  /\ s.failed => s.at \in {"report", "error"}
  /\ s.interrupted => e.ctx = "done"
  /\ s.outcome = "success" => ~s.interrupted
  /\ s.at = "error" => s.outcome = "failed"
  /\ s.outcome = "partial" => e.ctx = "done"
  /\ e.ctx = "done" => first # 0
  /\ e.status = "done" => e.runErr = "nil"
  /\ e.label = "geoip_sync" /\ p \in {"returned", "settled"} =>
       /\ s.at \in {"ok", "error"}
       /\ e.runErr = "nil" => s.at = "ok"
       /\ s.outcome = "partial" => first \in 1 .. e.finishAt

OutcomesOK == \A i \in Ids : OutcomeOf(sync[i], task[i], pc[i], firstCancel[i])

(***************************************************************************)
(* After a round that ended well what is cached, or being computed, shows  *)
(* the list as it is, unless the purge came amid a query.                  *)
(***************************************************************************)
LastRound(i) == sync[i].at = "ok" /\ \A j \in Ids : j > i => sync[j].at = "none"

CacheOK ==
  /\ cache.entry = Nothing \/ cache.call = Nothing
  /\ \A i \in Ids : LastRound(i) =>
       \/ cache.late
       \/ {cache.entry, cache.call} \subseteq {Nothing, Cardinality(geoList)}

CentreOK == TypeOK /\ Len(terminal) <= KeepLimit /\ Bookkeeping

MigrationInv == MigTypeOK /\ SourcesOK /\ TablesOK /\ TargetOK

GeoipInv == GeoTypeOK /\ ScanOK /\ OutcomesOK /\ CacheOK

JobsInv == CentreOK /\ LabelsOK /\ Sequential /\ MigrationInv /\ GeoipInv

-----------------------------------------------------------------------------
(* Least and greatest numbers.                                             *)

(***************************************************************************)
(* A set of numbers that is not empty has a least one.                     *)
(***************************************************************************)
LEMMA LeastOf ==
  ASSUME NEW S \in SUBSET Nat, S # {}
  PROVE  \E n \in S : \A m \in S : n <= m
<1>1. PICK less : /\ IsWellFoundedOn(less, Nat)
                  /\ \A x, y \in Nat : y < x => <<y, x>> \in less
  BY NatLessThanWellFounded DEF OpToRel
<1>2. PICK n \in S : \A m \in S : ~(<<m, n>> \in less)
  BY <1>1, WFMin
<1>3. \A m \in S : n \in Nat /\ m \in Nat /\ ~(m < n)
  BY <1>1, <1>2
<1> QED BY <1>3

\* That is what Min chooses.
LEMMA MinOf ==
  ASSUME NEW S \in SUBSET Nat, S # {}
  PROVE  Min(S) \in S /\ \A x \in S : Min(S) <= x
BY LeastOf DEF Min

(***************************************************************************)
(* A finite set of numbers has a bound: a least number of elements of a    *)
(* set without one cannot be.                                              *)
(***************************************************************************)
LEMMA FiniteIsBounded ==
  ASSUME NEW S \in SUBSET Nat, IsFiniteSet(S)
  PROVE  \E b \in Nat : \A x \in S : x <= b
<1> DEFINE Bounded(R) == \E b \in Nat : \A x \in R : x <= b
           Bad == {n \in Nat : \E R \in SUBSET S : Cardinality(R) = n /\ ~ Bounded(R)}
<1>1. ASSUME ~ Bounded(S) PROVE FALSE
  <2>1. Cardinality(S) \in Bad
    BY <1>1, FS_CardinalityType
  <2>2. PICK n \in Bad : \A m \in Bad : n <= m
    BY <2>1, LeastOf
  <2>3. PICK R \in SUBSET S : Cardinality(R) = n /\ ~ Bounded(R)
    BY <2>2
  <2>4. IsFiniteSet(R)
    BY FS_Subset
  <2>5. R # {}
    BY <2>3
  <2>6. PICK x \in R : TRUE
    BY <2>5
  <2>7. IsFiniteSet(R \ {x}) /\ Cardinality(R \ {x}) = n - 1
    BY <2>3, <2>4, <2>6, FS_RemoveElement
  <2>8. n \in Nat /\ n - 1 \in Nat
    BY <2>2, <2>7, FS_CardinalityType
  <2>9. n - 1 \notin Bad
    BY <2>2, <2>8
  <2>10. Bounded(R \ {x})
    BY <2>7, <2>8, <2>9
  <2>11. PICK b \in Nat : \A y \in R \ {x} : y <= b
    BY <2>10
  <2>12. /\ x \in Nat /\ b + x \in Nat
         /\ \A y \in R : y \in Nat /\ y <= b + x
    BY <2>6, <2>11
  <2> QED BY <2>3, <2>12
<1> QED BY <1>1

(***************************************************************************)
(* A finite set of numbers that is not empty has a greatest one.           *)
(***************************************************************************)
LEMMA MaxOf ==
  ASSUME NEW S \in SUBSET Nat, IsFiniteSet(S), S # {}
  PROVE  Max(S) \in S /\ \A x \in S : x <= Max(S)
<1> DEFINE Bounds == {b \in Nat : \A x \in S : x <= b}
<1>1. Bounds # {}
  BY FiniteIsBounded
<1>2. PICK n \in Bounds : \A m \in Bounds : n <= m
  BY <1>1, LeastOf
<1>3. n \in S
  <2> SUFFICES ASSUME n \notin S PROVE FALSE
    OBVIOUS
  <2>1. PICK y \in S : TRUE
    OBVIOUS
  <2>2. y \in Nat /\ n \in Nat /\ y <= n /\ y # n
    BY <1>2, <2>1
  <2>3. n - 1 \in Nat /\ \A x \in S : x <= n - 1
    BY <1>2, <2>2
  <2> QED BY <1>2, <2>2, <2>3
<1>4. \E m \in S : \A x \in S : m >= x
  BY <1>2, <1>3
<1> QED BY <1>4 DEF Max

(***************************************************************************)
(* The lesser and the greater of two numbers.                              *)
(***************************************************************************)
LEMMA OfTwo ==
  ASSUME NEW a \in Nat, NEW b \in Nat
  PROVE  /\ Min({a, b}) \in Nat /\ Min({a, b}) \in {a, b}
         /\ Min({a, b}) <= a /\ Min({a, b}) <= b
         /\ Max({a, b}) \in Nat /\ Max({a, b}) \in {a, b}
         /\ Max({a, b}) >= a /\ Max({a, b}) >= b
<1>1. {a, b} \in SUBSET Nat /\ {a, b} # {}
  OBVIOUS
<1>2. Min({a, b}) \in {a, b} /\ \A x \in {a, b} : Min({a, b}) <= x
  BY <1>1, MinOf
<1>3. IsFiniteSet({a, b})
  <2>1. IsFiniteSet({}) /\ IsFiniteSet({} \cup {a}) /\ IsFiniteSet({} \cup {a} \cup {b})
    BY FS_EmptySet, FS_AddElement
  <2>2. {} \cup {a} \cup {b} = {a, b}
    OBVIOUS
  <2> QED BY <2>1, <2>2
<1>4. Max({a, b}) \in {a, b} /\ \A x \in {a, b} : x <= Max({a, b})
  BY <1>1, <1>3, MaxOf
<1> QED BY <1>2, <1>4

(***************************************************************************)
(* The copy goes through the tables in their order and leaves none out     *)
(* (the loop of runMigration).                                             *)
(***************************************************************************)
LEMMA FirstTableFirst ==
  FirstTable \in Tables /\ \A t \in Tables : FirstTable <= t
<1>1. Tables \in SUBSET Nat /\ Tables # {}
  BY MigrationAssumption
<1> QED BY <1>1, MinOf DEF FirstTable

\* The table after t.
LEMMA NextTableNext ==
  ASSUME NEW t \in Tables
  PROVE  /\ NextTable(t) \in Tables \cup {0}
         /\ NextTable(t) = 0 => \A u \in Tables : u <= t
         /\ NextTable(t) # 0 =>
              NextTable(t) > t /\ \A u \in Tables : u > t => u >= NextTable(t)
<1> DEFINE rest == {u \in Tables : u > t}
<1>1. Tables \in SUBSET Nat /\ 0 \notin Tables /\ IsFiniteSet(Tables)
  BY MigrationAssumption
<1>2. Max(Tables) \in Tables /\ \A u \in Tables : u <= Max(Tables)
  BY <1>1, MaxOf
<1>3. CASE t = Max(Tables)
  BY <1>2, <1>3 DEF NextTable
<1>4. CASE t # Max(Tables)
  <2>1. Max(Tables) \in rest
    <3>1. t \in Nat /\ Max(Tables) \in Nat /\ t <= Max(Tables)
      BY <1>1, <1>2
    <3> QED BY <1>2, <1>4, <3>1
  <2>2. rest \in SUBSET Nat /\ rest # {}
    BY <1>1, <2>1
  <2>3. Min(rest) \in rest /\ \A u \in rest : Min(rest) <= u
    BY <2>2, MinOf
  <2>4. NextTable(t) = Min(rest)
    BY <1>4 DEF NextTable
  <2>5. Min(rest) \in Tables /\ Min(rest) # 0 /\ Min(rest) > t
    BY <1>1, <2>3
  <2>6. \A u \in Tables : u > t => u \in rest /\ u \in Nat /\ Min(rest) \in Nat
    BY <1>1, <2>5
  <2> QED BY <2>3, <2>4, <2>5, <2>6
<1> QED BY <1>3, <1>4

-----------------------------------------------------------------------------
(* The jobs and their centre.                                              *)

(***************************************************************************)
(* Every step of the jobs is a step of the task centre, or none: what is   *)
(* proved of the centre holds for the jobs.                                *)
(***************************************************************************)
LEMMA StepOfCentre ==
  ASSUME TypeOK, JobsNext
  PROVE  [Next]_vars
<1> USE TaskCenterAssumption
<1>1. ASSUME CentreStep PROVE [Next]_vars
  BY <1>1 DEF CentreStep, Next
<1>2. ASSUME NEW i \in Ids, Submission(i) PROVE [Next]_vars
  <2>1. ASSUME NEW l, Assembled, Submit(i, l) PROVE [Next]_vars
    <3>1. l \in Creators
      BY <2>1 DEF Assembled, Submit
    <3> QED BY <2>1, <3>1 DEF Next
  <2> QED BY <1>2, <2>1 DEF Submission, SubmitMigration, SubmitAlignment, SubmitSync
<1>3. ASSUME NEW i \in Ids, Progresses(i) PROVE [Next]_vars
  <2>1. ASSUME NEW err \in {"nil", "error"}, Return(i, err) PROVE [Next]_vars
    BY <2>1 DEF Next
  <2> QED BY <1>3, <2>1 DEF Progresses, BodyReturns, SyncReturns
<1>4. ASSUME CancelMarked PROVE [Next]_vars
  <2>1. Known \subseteq Ids
    BY DEF TypeOK, Known
  <2>2. Cancel(canceller) /\ canceller \in Ids
    BY <1>4, <2>1 DEF CancelMarked, Cancel
  <2> QED BY <2>2 DEF Next
<1>5. ASSUME UNCHANGED vars PROVE [Next]_vars
  BY <1>5
<1> QED BY <1>1, <1>2, <1>3, <1>4, <1>5 DEF JobsNext

\* A step of the centre keeps what is known of the centre.
LEMMA CentreNext ==
  ASSUME CentreOK, [Next]_vars
  PROVE  CentreOK'
<1>1. TypeOK' /\ (Len(terminal) <= KeepLimit)'
  BY TypeNext DEF CentreOK
<1>2. Bookkeeping'
  BY <1>1, BookkeepingNext DEF CentreOK
<1> QED BY <1>1, <1>2 DEF CentreOK

(***************************************************************************)
(* The jobs run in the task centre as it is specified.                     *)
(***************************************************************************)
THEOREM JobsRunInCentre == JobsSpec => Spec
<1>1. JobsInit => Init
  BY DEF JobsInit
<1>2. Init => CentreOK
  <2>1. Init => TypeOK /\ Len(terminal) <= KeepLimit
    BY TypeInit
  <2> QED BY <2>1, BookkeepingInit DEF CentreOK
<1>3. CentreOK /\ [JobsNext]_jobVars => [Next]_vars
  <2>1. CentreOK /\ JobsNext => [Next]_vars
    BY StepOfCentre DEF CentreOK
  <2>2. UNCHANGED jobVars => UNCHANGED vars
    BY DEF jobVars
  <2> QED BY <2>1, <2>2
<1>4. CentreOK /\ [JobsNext]_jobVars => CentreOK'
  BY <1>3, CentreNext
<1> QED BY <1>1, <1>2, <1>3, <1>4, PTL DEF JobsSpec, Spec

-----------------------------------------------------------------------------
(* Labels and types.                                                       *)

\* The steps that submit nothing leave the labels, and the bodies that have
\* returned, as they are.
Quietly ==
  /\ seq' = seq
  /\ \A i \in Ids : /\ task'[i].label = task[i].label
                    /\ pc'[i] = "body" => pc[i] = "body"
                    /\ pc[i] = "settled" => pc'[i] = "settled"

LEMMA QuietSteps ==
  ASSUME CentreOK,
         \/ UNCHANGED vars \/ RegisterMutexRules
         \/ \E names \in CreatorLists : RegisterCreators(names)
         \/ \E i \in Ids : \/ \E p \in Snapshots : SetProgress(i, p)
                           \/ \E err \in {"nil", "error"} : Return(i, err)
                           \/ Settle(i) \/ Cancel(i)
  PROVE  Quietly
<1> USE DEF CentreOK, TypeOK, Entry
<1>1. CASE UNCHANGED vars \/ RegisterMutexRules
             \/ \E names \in CreatorLists : RegisterCreators(names)
  BY <1>1 DEF vars, RegisterMutexRules, RegisterCreators, Quietly
<1>2. ASSUME NEW i \in Ids, NEW p \in Snapshots, SetProgress(i, p) PROVE Quietly
  BY <1>2 DEF SetProgress, Quietly
<1>3. ASSUME NEW i \in Ids, NEW err \in {"nil", "error"}, Return(i, err) PROVE Quietly
  BY <1>3 DEF Return, Quietly
<1>4. ASSUME NEW i \in Ids, Settle(i) PROVE Quietly
  BY <1>4 DEF Settle, Quietly
<1>5. ASSUME NEW i \in Ids, Cancel(i) PROVE Quietly
  <2>1. /\ task[i] \in Entry /\ seq' = seq /\ pc' = pc
        /\ task' = [task EXCEPT ![i] = [task[i] EXCEPT !.ctx = "done",
                                                     !.cancelReqAt = clock']]
    BY <1>5 DEF Cancel
  <2> HIDE DEF Entry
  <2>2. \A j \in Ids : task'[j].label = task[j].label
    BY <2>1 DEF Entry
  <2> QED BY <2>1, <2>2 DEF Quietly
<1> QED BY <1>1, <1>2, <1>3, <1>4, <1>5

(***************************************************************************)
(* Submit: the newcomer is the last task, and no other of its label has    *)
(* not settled.                                                            *)
(***************************************************************************)
LEMMA Submitted ==
  ASSUME CentreOK, NEW i \in Ids, NEW l \in Creators, Submit(i, l)
  PROVE  /\ i = seq + 1 /\ seq' = i
         /\ task'[i].label = l /\ pc'[i] = "body" /\ pc[i] = "unborn"
         /\ task'[i].ctx = task[i].ctx /\ task'[i].status = "running"
         /\ firstCancel' = firstCancel
         /\ \A j \in Ids : j # i => task'[j] = task[j] /\ pc'[j] = pc[j]
         /\ \A j \in 1 .. seq : task[j].label = l => pc[j] = "settled"
<1>1. i = seq + 1 /\ seq \in Nat /\ i \in 1 .. MaxTasks /\ MaxTasks \in Nat
  BY TaskCenterAssumption DEF Submit, CentreOK, TypeOK, Ids
<1>2. pc[i] = "unborn"
  BY <1>1 DEF CentreOK, Bookkeeping, PhaseOK, Ids
<1>3. \A j \in 1 .. seq : j \in Ids /\ ~(j > seq)
  BY <1>1 DEF Ids
<1>4. \A j \in 1 .. seq : task[j].label = l => pc[j] = "settled"
  <2> SUFFICES ASSUME NEW j \in 1 .. seq, task[j].label = l, pc[j] # "settled"
               PROVE  FALSE
    OBVIOUS
  <2>1. j \in running
    BY <1>3 DEF CentreOK, TypeOK, Bookkeeping, PhaseOK
  <2>2. ~Conflicts(l, task[j].label)
    BY <2>1 DEF Submit
  <2> QED BY <2>2 DEF Conflicts
<1>5. /\ task[i] \in Entry
      /\ task' = [task EXCEPT ![i] = [task[i] EXCEPT !.label = l, !.status = "running"]]
      /\ pc' = [pc EXCEPT ![i] = "body"]
      /\ firstCancel' = firstCancel
      /\ task \in [Ids -> Entry] /\ pc \in [Ids -> {"unborn", "body", "returned", "settled"}]
  BY DEF Submit, CentreOK, TypeOK
<1>6. task'[i] = [task[i] EXCEPT !.label = l, !.status = "running"]
  BY <1>5
<1>7. task'[i].label = l /\ task'[i].ctx = task[i].ctx /\ task'[i].status = "running"
  BY <1>5, <1>6 DEF Entry
<1> QED BY <1>1, <1>2, <1>4, <1>5, <1>7 DEF Submit

(***************************************************************************)
(* What the step of a body does to the entry of its migration.             *)
(***************************************************************************)
Stock == [Tables -> [copied : SUBSET Nat, held : SUBSET Nat, others : BOOLEAN]]

Emptied == [copied |-> {}, held |-> {}, others |-> FALSE]

Fits(m, n) ==
  /\ n \in Run /\ n.source = m.source /\ n.mode = m.mode
  /\ n.at \in IF m.at = "ddl" THEN {"ddl", "ok", "error"} ELSE Copying \cup {"ok", "error"}

GoesOn(i) ==
  /\ MigTypeOK'
  /\ pc[i] = "body" /\ mig[i].at \in Copying \cup {"ddl"}
  /\ Fits(mig[i], mig'[i])
  /\ \A j \in Ids : j # i => mig'[j] = mig[j]

\* A body whose step returns an entry that fits goes on.
LEMMA FitGoesOn ==
  ASSUME MigTypeOK, NEW i \in Ids, Undisturbed, target' \in Stock,
         mig[i].at \in Copying \cup {"ddl"}, Body(i, mig[i].at),
         NEW n, Fits(mig[i], n), mig' = [mig EXCEPT ![i] = n]
  PROVE  GoesOn(i)
<1>1. mig \in [Ids -> Run] /\ n \in Run
  BY DEF MigTypeOK, Fits
<1>2. mig' \in [Ids -> Run] /\ mig'[i] = n /\ \A j \in Ids : j # i => mig'[j] = mig[j]
  BY <1>1
<1> HIDE DEF Fits
<1> QED BY <1>2 DEF Undisturbed, Body, MigTypeOK, GoesOn, Stock

\* What the loops find in hand, and the ways to change a table of the target.
LEMMA InRange ==
  ASSUME MigTypeOK
  PROVE  /\ FirstTable \in Tables /\ 0 \notin Tables /\ Batch \in Nat \ {0}
         /\ \A t \in Tables : RowsOf[t] \in Nat /\ NextTable(t) \in Tables \cup {0}
         /\ target \in Stock
         /\ \A t : [target EXCEPT ![t] = Emptied] \in Stock
         /\ \A t \in Tables, k, n \in Nat : Inserted(t, k, n) \in Stock
<1> DEFINE R == [copied : SUBSET Nat, held : SUBSET Nat, others : BOOLEAN]
<1>1. Emptied \in R
  BY DEF Emptied
<1>2. target \in [Tables -> R]
  BY DEF MigTypeOK
<1>3. ASSUME NEW t \in Tables, NEW k \in Nat, NEW n \in Nat
      PROVE  Inserted(t, k, n) \in [Tables -> R]
  <2> DEFINE more == target[t].copied \cup ((k .. n) \ target[t].held)
  <2>1. target[t] \in R /\ target[t].copied \in SUBSET Nat /\ k .. n \subseteq Nat
    BY <1>2
  <2>2. more \in SUBSET Nat
    BY <2>1
  <2> HIDE DEF more
  <2>3. [target[t] EXCEPT !.copied = more] \in R
    BY <2>1, <2>2
  <2>4. Inserted(t, k, n) = [target EXCEPT ![t] = [target[t] EXCEPT !.copied = more]]
    BY DEF Inserted, more
  <2> HIDE DEF R
  <2> QED BY <1>2, <2>3, <2>4
<1>5. \A t : [target EXCEPT ![t] = Emptied] \in [Tables -> R]
  <2> HIDE DEF R
  <2> QED BY <1>1, <1>2
<1> QED BY <1>2, <1>3, <1>5, FirstTableFirst, NextTableNext, MigrationAssumption DEF Stock

\* Every step of the body of a migration or an alignment is of that kind.
LEMMA BodyGoesOn ==
  ASSUME MigTypeOK, LabelsOK, TablesOK, NEW i \in Ids, BodyStep(i)
  PROVE  GoesOn(i)
<1> DEFINE m == mig[i]
<1>0. m \in Run /\ (m.at \in InHand => m.table \in Tables)
  <2>1. m \in Run /\ (m.at \in InHand => i \in Migrations)
    BY DEF MigTypeOK, LabelsOK, InHand, Copying, Migrations
  <2>2. m.at \in InHand => m.table # 0
    BY <2>1 DEF TablesOK, TablesOf
  <2> QED BY <2>1, <2>2 DEF Run
<1>a. ASSUME Undisturbed, target' \in Stock, Body(i, m.at), m.at \in Copying \cup {"ddl"},
             NEW n, Fits(m, n), mig' = [mig EXCEPT ![i] = n]
      PROVE  GoesOn(i)
  BY <1>a, FitGoesOn
<1>b. /\ FirstTable \in Tables /\ 0 \notin Tables /\ Batch \in Nat \ {0}
      /\ \A t \in Tables : RowsOf[t] \in Nat /\ NextTable(t) \in Tables \cup {0}
      /\ target \in Stock
      /\ \A t : [target EXCEPT ![t] = Emptied] \in Stock
      /\ \A t \in Tables, k, n \in Nat : Inserted(t, k, n) \in Stock
  BY InRange
<1>1. CASE Open(i)
  <2>1. m.at = "open" =>
          /\ Fits(m, [m EXCEPT !.at = "next", !.table = FirstTable])
          /\ Fits(m, [m EXCEPT !.at = "error", !.lost = TRUE])
          /\ Fits(m, [m EXCEPT !.at = "error"])
    BY <1>0, <1>b DEF Run, Copying, Fits
  <2>2. /\ Undisturbed /\ target' = target /\ Body(i, m.at) /\ m.at = "open"
        /\ \/ mig' = [mig EXCEPT ![i] = [m EXCEPT !.at = "next", !.table = FirstTable]]
           \/ mig' = [mig EXCEPT ![i] = [m EXCEPT !.at = "error", !.lost = TRUE]]
           \/ mig' = [mig EXCEPT ![i] = [m EXCEPT !.at = "error"]]
    BY <1>1 DEF Open, Go, Body
  <2> HIDE DEF m
  <2> QED BY <1>a, <1>b, <2>1, <2>2 DEF Copying
<1>2. CASE NextOf(i)
  <2> DEFINE marked == [u \in Tables |->
                IF u >= m.table /\ m.status[u] = "pending" THEN "cancelled" ELSE m.status[u]]
  <2>1. m.at = "next" =>
          /\ m.table # 0 => Fits(m, [m EXCEPT !.table = NextTable(m.table)])
          /\ Fits(m, [m EXCEPT !.table = 0, !.status = marked])
          /\ \A a \in {"ok", "error", "claim"} : Fits(m, [m EXCEPT !.at = a])
    BY <1>0, <1>b DEF Run, Copying, Fits
  <2>2. /\ Undisturbed /\ target' = target /\ Body(i, m.at) /\ m.at = "next"
        /\ \/ \E a \in {"ok", "error", "claim"} : mig' = [mig EXCEPT ![i] = [m EXCEPT !.at = a]]
           \/ mig' = [mig EXCEPT ![i] = [m EXCEPT !.table = 0, !.status = marked]]
           \/ m.table # 0 /\ mig' = [mig EXCEPT ![i] = [m EXCEPT !.table = NextTable(m.table)]]
    BY <1>2 DEF NextOf, Body, Same
  <2> HIDE DEF m, marked
  <2> QED BY <1>a, <1>b, <2>1, <2>2 DEF Copying
<1>3. CASE Claim(i)
  <2> DEFINE n == [m EXCEPT !.at = "columns", !.status = [m.status EXCEPT ![m.table] = "running"]]
  <2>1. m.at = "claim" => Fits(m, n)
    BY <1>0 DEF Run, Copying, Fits
  <2>2. /\ Undisturbed /\ target' = target /\ Body(i, m.at) /\ m.at = "claim"
        /\ mig' = [mig EXCEPT ![i] = n]
    BY <1>3 DEF Claim, Body, Same
  <2> HIDE DEF m, n
  <2> QED BY <1>a, <1>b, <2>1, <2>2 DEF Copying
<1> DEFINE Ended(err, rows) == [m EXCEPT !.at = "verdict", !.err = err,
                                          !.rows = [m.rows EXCEPT ![m.table] = rows]]
<1>c. /\ m.at \in Copying /\ m.at # "open" =>
           \A err \in BOOLEAN, rows \in Nat : Fits(m, Ended(err, rows))
      /\ \A err, rows : TableEnds(i, err, rows) <=> mig' = [mig EXCEPT ![i] = Ended(err, rows)]
  BY <1>0 DEF Run, Copying, Fits, TableEnds
<1>d. m.at \in Copying => \A a \in {"truncate", "batch", "reset"} : Fits(m, [m EXCEPT !.at = a])
  BY <1>0 DEF Run, Copying, Fits
<1>e. \A a : Go(i, a) <=> mig' = [mig EXCEPT ![i] = [m EXCEPT !.at = a]]
  BY DEF Go
<1>4. CASE Columns(i)
  <2>2. /\ Undisturbed /\ target' = target /\ Body(i, m.at) /\ m.at = "columns"
        /\ (\E a \in {"truncate", "batch"} : Go(i, a)) \/ TableEnds(i, TRUE, 0)
    BY <1>4 DEF Columns, Body, Same
  <2> HIDE DEF m, Ended
  <2> QED BY <1>a, <1>b, <1>c, <1>d, <1>e, <2>2 DEF Copying
<1>5. CASE Truncate(i)
  <2>2. /\ Undisturbed /\ Body(i, m.at) /\ m.at = "truncate"
        /\ target' = target
           \/ target' = [target EXCEPT ![m.table] = Emptied]
        /\ Go(i, "batch") \/ TableEnds(i, TRUE, 0)
    BY <1>5 DEF Truncate, Body, Same, Emptied
  <2> HIDE DEF m, Ended
  <2>3. target' \in Stock
    BY <1>b, <2>2
  <2>4. CASE Go(i, "batch")
    BY <1>a, <1>d, <1>e, <2>2, <2>3, <2>4 DEF Copying
  <2>5. CASE TableEnds(i, TRUE, 0)
    BY <1>a, <1>c, <2>2, <2>3, <2>5 DEF Copying
  <2> QED BY <2>2, <2>4, <2>5
<1>6. CASE WriteBatch(i)
  <2> DEFINE t == m.table
             done == m.rows[t]
             end == Min({done + Batch, RowsOf[t]})
             counted == [m EXCEPT !.rows = [m.rows EXCEPT ![t] = end]]
  <2>1. /\ Undisturbed /\ Body(i, m.at) /\ m.at = "batch"
        /\ target' = target \/ \E n \in (done .. end) \cup {end} : target' = Inserted(t, done + 1, n)
        /\ \/ Go(i, "reset") \/ mig' = [mig EXCEPT ![i] = counted]
           \/ \E n \in (done .. end) \cup {done, end} : TableEnds(i, TRUE, n)
    BY <1>6 DEF WriteBatch, Body, Same
  <2>2. t \in Tables /\ done \in Nat /\ RowsOf[t] \in Nat
    BY <1>0, <1>b, <2>1 DEF Run, InHand
  <2>11. done + 1 \in Nat
    BY <2>2
  <2>3. done + Batch \in Nat
    BY <1>b, <2>2
  <2>4. end \in Nat
    BY <2>2, <2>3, OfTwo
  <2>5. \A n \in (done .. end) \cup {done, end} : n \in Nat
    BY <2>2, <2>4
  <2>6. m.at = "batch" => Fits(m, counted)
    BY <1>0, <2>4 DEF Run, Copying, Fits
  <2> HIDE DEF m, t, done, end, counted, Ended
  <2>7. target' \in Stock
    BY <1>b, <2>1, <2>2, <2>5, <2>11
  <2>8. CASE Go(i, "reset")
    BY <1>a, <1>d, <1>e, <2>1, <2>7, <2>8 DEF Copying
  <2>9. CASE mig' = [mig EXCEPT ![i] = counted]
    BY <1>a, <2>1, <2>6, <2>7, <2>9 DEF Copying
  <2>10. ASSUME NEW n \in (done .. end) \cup {done, end}, TableEnds(i, TRUE, n)
         PROVE  GoesOn(i)
    BY <1>a, <1>c, <2>1, <2>5, <2>7, <2>10 DEF Copying
  <2> QED BY <2>1, <2>8, <2>9, <2>10
<1>7. CASE ResetAutoIncrement(i)
  <2>1. /\ Undisturbed /\ target' = target /\ Body(i, m.at) /\ m.at = "reset"
        /\ \E err \in BOOLEAN : TableEnds(i, err, m.rows[m.table])
    BY <1>7 DEF ResetAutoIncrement, Body, Same
  <2>2. m.rows[m.table] \in Nat
    BY <1>0, <2>1 DEF Run, InHand
  <2> HIDE DEF m, Ended
  <2> QED BY <1>a, <1>b, <1>c, <2>1, <2>2 DEF Copying
<1>8. CASE Verdict(i)
  <2> DEFINE v == VerdictOf(i)
             f == m.failed \/ v = "failed"
             n == [m EXCEPT !.at = "next", !.table = NextTable(m.table), !.err = FALSE,
                            !.status = [m.status EXCEPT ![m.table] = v], !.failed = f]
  <2>1. v \in {"done", "cancelled", "failed"}
    BY DEF VerdictOf
  <2>2. /\ Undisturbed /\ target' = target /\ Body(i, m.at) /\ m.at = "verdict"
        /\ mig' = [mig EXCEPT ![i] = n]
    <3>1. /\ Undisturbed /\ target' = target /\ Body(i, m.at) /\ m.at = "verdict"
          /\ mig' = [mig EXCEPT ![i].at = "next", ![i].table = NextTable(m.table),
                                ![i].err = FALSE, ![i].status[m.table] = v, ![i].failed = f]
      BY <1>8 DEF Verdict, Body, Same
    <3>2. mig \in [Ids -> Run]
      BY DEF MigTypeOK
    <3> HIDE DEF v, f
    <3> QED BY <3>1, <3>2 DEF Run
  <2>3. NextTable(m.table) \in Tables \cup {0}
    BY <1>0, <1>b, <2>2 DEF InHand
  <2>4. f \in BOOLEAN
    OBVIOUS
  <2> HIDE DEF v, f
  <2>5. Fits(m, n)
    BY <1>0, <2>1, <2>2, <2>3, <2>4 DEF Run, Copying, Fits
  <2> HIDE DEF m, n
  <2> QED BY <1>a, <1>b, <2>2, <2>5 DEF Copying
<1>9. CASE ExecuteDdl(i)
  <2> DEFINE rest == {u \in Tables : u > m.table /\ m.status[u] = "pending"}
             after == IF rest = {} THEN 0 ELSE Min(rest)
             n == [m EXCEPT !.status = [m.status EXCEPT ![m.table] = "done"],
                            !.table = after]
  <2>1. /\ Undisturbed /\ target' = target /\ Body(i, m.at) /\ m.at = "ddl"
        /\ \/ \E a \in {"ok", "error"} : Go(i, a)
           \/ mig' = [mig EXCEPT ![i] = n]
    BY <1>9 DEF ExecuteDdl, Body, Same
  <2>2. after \in Tables \cup {0}
    <3>1. rest \in SUBSET Nat
      BY MigrationAssumption
    <3> QED BY <3>1, MinOf
  <2> HIDE DEF after
  <2>3. m.at = "ddl" => Fits(m, n) /\ \A a \in {"ok", "error"} : Fits(m, [m EXCEPT !.at = a])
    BY <1>0, <2>2 DEF Run, Copying, Fits
  <2> HIDE DEF m, n
  <2> QED BY <1>a, <1>b, <1>e, <2>1, <2>3
<1> QED
  BY <1>1, <1>2, <1>3, <1>4, <1>5, <1>6, <1>7, <1>8, <1>9 DEF BodyStep

(***************************************************************************)
(* What administrators do to the entries of migrations: they set the mark, *)
(* and they cancel tables that are pending.                                *)
(***************************************************************************)
Marks(m, n) ==
  \/ n = m \/ n = [m EXCEPT !.cancelled = TRUE]
  \/ \E t \in Tables : /\ m.status[t] = "pending"
                       /\ n = [m EXCEPT !.status = [m.status EXCEPT ![t] = "cancelled"]]

LEMMA MarksFit ==
  ASSUME NEW m \in Run, NEW n, Marks(m, n)
  PROVE  /\ n \in Run /\ n.at = m.at /\ n.table = m.table /\ n.source = m.source
         /\ n.mode = m.mode /\ n.rows = m.rows /\ n.lost = m.lost /\ n.err = m.err
         /\ \A t \in Tables : n.status[t] = m.status[t]
                              \/ (m.status[t] = "pending" /\ n.status[t] = "cancelled")
<1>1. CASE n = m
  BY <1>1
<1>2. CASE n = [m EXCEPT !.cancelled = TRUE]
  BY <1>2 DEF Run
<1>3. CASE \E t \in Tables : /\ m.status[t] = "pending"
                             /\ n = [m EXCEPT !.status = [m.status EXCEPT ![t] = "cancelled"]]
  BY <1>3 DEF Run
<1> QED BY <1>1, <1>2, <1>3 DEF Marks

LEMMA AdminMarks ==
  ASSUME MigTypeOK, AdminStep
  PROVE  /\ MigTypeOK' /\ target' = target /\ exposed' = exposed
         /\ \A j \in Ids : Marks(mig[j], mig'[j])
<1>1. ASSUME mig' = mig PROVE \A j \in Ids : Marks(mig[j], mig'[j])
  BY <1>1 DEF Marks
<1>2. ASSUME NEW e \in Editors,
             DeleteChecked(e) \/ DeleteLoads(e) \/ AddLoads(e) \/ Saves(e)
      PROVE  MigTypeOK' /\ mig' = mig /\ target' = target /\ exposed' = exposed
  <2> DEFINE Edit == [at : {"idle", "delete", "save"}, code : Codes, list : SUBSET Codes]
  <2>1. editor \in [Editors -> Edit] /\ dsn \subseteq Codes
    BY DEF MigTypeOK
  <2>2. editor[e] \in Edit /\ NoEdit \in Edit
    BY <2>1 DEF NoEdit, Codes
  <2>3. \A c \in Codes : [editor[e] EXCEPT !.at = "delete", !.code = c] \in Edit
    BY <2>2
  <2>4. [editor[e] EXCEPT !.at = "save", !.list = dsn \ {editor[e].code}] \in Edit
    BY <2>1, <2>2
  <2>5. \A c \in Sources : [at |-> "save", code |-> c, list |-> dsn \cup {c}] \in Edit
    BY <2>1 DEF Codes
  <2> HIDE DEF Edit
  <2>6. editor' \in [Editors -> Edit]
    BY <1>2, <2>1, <2>2, <2>3, <2>4, <2>5
       DEF DeleteChecked, DeleteLoads, AddLoads, Saves, Codes
  <2>7. dsn' \subseteq Codes
    BY <1>2, <2>1 DEF DeleteChecked, DeleteLoads, AddLoads, Saves, MigTypeOK
  <2> QED BY <1>2, <2>6, <2>7
          DEF DeleteChecked, DeleteLoads, AddLoads, Saves, Unedited, MigTypeOK, Edit
<1>3. CASE AlignLooks
  BY <1>1, <1>3 DEF AlignLooks, MigTypeOK, DiffSchema
<1>4. CASE RefuseAlignment
  BY <1>1, <1>4 DEF RefuseAlignment, MigTypeOK
<1>5. CASE CheckStart
  BY <1>1, <1>5 DEF CheckStart, MigTypeOK
<1>6. CASE RefuseMigration
  BY <1>1, <1>6 DEF RefuseMigration, MigTypeOK, Nobody, Codes
<1>7. CASE Publish
  BY <1>1, <1>7 DEF Publish, MigTypeOK, Nobody, Codes
<1>8. CASE CancelTooLate
  BY <1>1, <1>8 DEF CancelTooLate, MigTypeOK
<1>9. CASE MarkCancelled
  <2>1. \A j \in Ids : mig'[j] = IF j = shown THEN [mig[j] EXCEPT !.cancelled = TRUE]
                                 ELSE mig[j]
    BY <1>9 DEF MarkCancelled, MigTypeOK
  <2>2. \A j \in Ids : mig[j] \in Run /\ Marks(mig[j], mig'[j])
    BY <2>1 DEF Marks, MigTypeOK
  <2>3. \A j \in Ids : mig'[j] \in Run
    BY <2>2, MarksFit
  <2>4. mig' \in [Ids -> Run]
    BY <1>9, <2>3 DEF MarkCancelled, MigTypeOK
  <2> QED BY <1>9, <2>2, <2>4 DEF MarkCancelled, MigTypeOK
<1>10. ASSUME NEW t \in Tables, CancelTable(t)
       PROVE  /\ MigTypeOK' /\ target' = target /\ exposed' = exposed
              /\ \A j \in Ids : Marks(mig[j], mig'[j])
  <2>1. \A j \in Ids : mig'[j] =
          IF j = shown THEN [mig[j] EXCEPT !.status = [mig[j].status EXCEPT ![t] = "cancelled"]]
          ELSE mig[j]
    BY <1>10 DEF CancelTable, MigTypeOK
  <2>2. \A j \in Ids : mig[j] \in Run /\ Marks(mig[j], mig'[j])
    BY <1>10, <2>1 DEF Marks, MigTypeOK, CancelTable
  <2>3. \A j \in Ids : mig'[j] \in Run
    BY <2>2, MarksFit
  <2>4. mig' \in [Ids -> Run]
    BY <1>10, <2>3 DEF CancelTable, MigTypeOK
  <2> QED BY <1>10, <2>2, <2>4 DEF CancelTable, MigTypeOK
<1> QED
  BY <1>1, <1>2, <1>3, <1>4, <1>5, <1>6, <1>7, <1>8, <1>9, <1>10
     DEF AdminStep, CheckStart, RefuseMigration, Publish, AlignLooks, RefuseAlignment,
         CancelTooLate

(***************************************************************************)
(* The entry a migration, and an alignment, starts with.                   *)
(***************************************************************************)
LEMMA MigrationStarts ==
  ASSUME MigTypeOK, NEW i \in Ids, SubmitMigration(i)
  PROVE  /\ MigTypeOK' /\ target' = target /\ exposed' = Exposed(i) /\ dsn' = dsn
         /\ editor' = editor /\ \A j \in Ids : j # i => mig'[j] = mig[j]
         /\ mig'[i].at = "open" /\ mig'[i].table = 0 /\ mig'[i].source = starter.code
         /\ ~mig'[i].lost
         /\ \A t \in Tables : mig'[i].status[t] = "pending" /\ mig'[i].rows[t] = 0
<1>1. PICK mode \in {"replace", "skip"} :
        mig' = [mig EXCEPT ![i] = [NoRun EXCEPT !.at = "open", !.mode = mode,
                                                !.source = starter.code]]
  BY DEF SubmitMigration
<1> DEFINE n == [NoRun EXCEPT !.at = "open", !.mode = mode, !.source = starter.code]
<1>2. starter \in [at : {"idle", "submit", "publish"}, code : Codes]
  BY DEF MigTypeOK
<1>3. /\ n \in Run /\ n.at = "open" /\ n.table = 0 /\ n.source = starter.code /\ ~n.lost
      /\ \A t \in Tables : n.status[t] = "pending" /\ n.rows[t] = 0
  BY <1>2 DEF NoRun, Run, Copying, Codes
<1>4. /\ mig' \in [Ids -> Run] /\ mig'[i] = n /\ \A j \in Ids : j # i => mig'[j] = mig[j]
  <2>1. mig' = [mig EXCEPT ![i] = n]
    BY <1>1
  <2> HIDE DEF n
  <2> QED BY <1>3, <2>1 DEF MigTypeOK
<1>5. starter' \in [at : {"idle", "submit", "publish"}, code : Codes]
  BY <1>2 DEF SubmitMigration
<1> HIDE DEF n
<1> QED BY <1>3, <1>4, <1>5 DEF SubmitMigration, MigTypeOK

LEMMA AlignmentStarts ==
  ASSUME MigTypeOK, NEW i \in Ids, SubmitAlignment(i)
  PROVE  /\ MigTypeOK' /\ target' = target /\ exposed' = exposed /\ dsn' = dsn
         /\ editor' = editor /\ \A j \in Ids : j # i => mig'[j] = mig[j]
         /\ mig'[i].at \in {"ddl", "error"} /\ ~mig'[i].lost
<1> DEFINE status == [t \in Tables |-> IF t \in aligner THEN "pending" ELSE "done"]
           n(at) == [NoRun EXCEPT !.at = at, !.table = Min(aligner), !.status = status]
<1>1. Min(aligner) \in Tables
  <2>1. aligner \in SUBSET Nat /\ aligner # {} /\ aligner \subseteq Tables
    BY MigrationAssumption DEF SubmitAlignment, MigTypeOK
  <2> QED BY <2>1, MinOf
<1>2. \A at \in {"ddl", "error"} : n(at) \in Run /\ n(at).at = at /\ ~n(at).lost
  BY <1>1 DEF NoRun, Run, Copying, Codes
<1>3. PICK at \in {"ddl", "error"} : mig' = [mig EXCEPT ![i] = n(at)]
  BY DEF SubmitAlignment
<1> HIDE DEF n
<1> QED BY <1>2, <1>3 DEF SubmitAlignment, MigTypeOK

-----------------------------------------------------------------------------
(* The types of a round.                                                   *)

\* What is found under the ids of rows.
LEMMA FindsAre ==
  /\ NoneFound \in Finds
  /\ \A f \in Finds : DOMAIN f \subseteq Nat \ {0} /\ \A k \in DOMAIN f : f[k] \in Addresses
  /\ \A D \in SUBSET (Nat \ {0}) : \A f \in [D -> Addresses] : f \in Finds
<1>1. \A f : f \in Finds <=> \E D \in SUBSET (Nat \ {0}) : f \in [D -> Addresses]
  BY DEF Finds
<1>2. NoneFound \in [{} -> Addresses] /\ {} \in SUBSET (Nat \ {0})
  BY DEF NoneFound
<1>3. NoneFound \in Finds
  BY <1>1, <1>2
<1>4. ASSUME NEW f \in Finds
      PROVE  DOMAIN f \subseteq Nat \ {0} /\ \A k \in DOMAIN f : f[k] \in Addresses
  <2>1. PICK D \in SUBSET (Nat \ {0}) : f \in [D -> Addresses]
    BY <1>1
  <2> QED BY <2>1
<1> HIDE DEF Finds
<1> QED BY <1>1, <1>3, <1>4

\* A block is a set of rows, and not of gone ones.
LEMMA BlockIs ==
  ASSUME GeoTypeOK, NEW t \in Logs, NEW n \in Nat
  PROVE  /\ Block(t, n) \in SUBSET Nat /\ IsFiniteSet(Block(t, n))
         /\ Cardinality(Block(t, n)) \in Nat
         /\ \A k \in Block(t, n) : k \in 1 .. Len(logRows[t]) /\ k > n
         /\ IsFiniteSet(Missing(t, Block(t, n))) /\ Missing(t, Block(t, n)) \subseteq Block(t, n)
         /\ Cardinality(Missing(t, Block(t, n))) \in Nat
<1>1. logRows[t] \in Seq(Addresses \cup {Gone}) /\ Len(logRows[t]) \in Nat
  BY DEF GeoTypeOK
<1>2. DOMAIN logRows[t] = 1 .. Len(logRows[t]) /\ IsFiniteSet(1 .. Len(logRows[t]))
  BY <1>1, FS_Interval
<1>3. /\ Block(t, n) \subseteq 1 .. Len(logRows[t]) /\ \A k \in Block(t, n) : k > n
  BY <1>2 DEF Block
<1>4. Missing(t, Block(t, n)) \subseteq Block(t, n)
  BY DEF Missing
<1>5. IsFiniteSet(Block(t, n)) /\ IsFiniteSet(Missing(t, Block(t, n)))
  BY <1>2, <1>3, <1>4, FS_Subset
<1> QED BY <1>1, <1>3, <1>4, <1>5, FS_CardinalityType

SyncGoesOn(i) ==
  /\ GeoTypeOK' /\ logRows' = logRows
  /\ pc[i] = "body" /\ sync[i].at \in Walking /\ sync'[i].at \in Walking \cup {"ok", "error"}
  /\ \A j \in Ids : j # i => sync'[j] = sync[j]

\* A round whose step returns an entry of the type goes on.
LEMMA RoundGoesOn ==
  ASSUME GeoTypeOK, NEW i \in Ids, Around, pc[i] = "body", sync[i].at \in Walking,
         NEW n \in Round, n.at \in Walking \cup {"ok", "error"},
         sync' = [sync EXCEPT ![i] = n],
         geoList' \subseteq Addresses, IsFiniteSet(geoList'), cursors' \in [Logs -> Nat],
         cache' \in [entry : Nat \cup {Nothing}, call : Nat \cup {Nothing}, late : BOOLEAN]
  PROVE  SyncGoesOn(i)
<1>1. /\ sync' \in [Ids -> Round] /\ sync'[i] = n
      /\ \A j \in Ids : j # i => sync'[j] = sync[j]
  BY DEF GeoTypeOK
<1> QED BY <1>1 DEF GeoTypeOK, Around, SyncGoesOn

LEMMA SyncKeepsTypes ==
  ASSUME GeoTypeOK, ScanOK, NEW i \in Ids, SyncStep(i)
  PROVE  SyncGoesOn(i)
<1> DEFINE s == sync[i]
           Kinds == [entry : Nat \cup {Nothing}, call : Nat \cup {Nothing}, late : BOOLEAN]
<1>0. /\ s \in Round /\ cache \in Kinds /\ cursors \in [Logs -> Nat]
      /\ geoList \subseteq Addresses /\ IsFiniteSet(geoList)
      /\ s.at \in {"table", "block", "upsert", "close"} => s.log \in Logs
  BY DEF GeoTypeOK, ScanOK, RoundOf, Round
<1>a. ASSUME Around, At(i, s.at), s.at \in Walking, NEW n \in Round,
             n.at \in Walking \cup {"ok", "error"}, sync' = [sync EXCEPT ![i] = n],
             geoList' \subseteq Addresses, IsFiniteSet(geoList'), cursors' \in [Logs -> Nat],
             cache' \in Kinds
      PROVE  SyncGoesOn(i)
  BY <1>a, RoundGoesOn DEF At
<1>1. CASE LoadCursor(i)
  <2> DEFINE from == cursors[s.log]
             n == [s EXCEPT !.at = "block", !.from = from, !.cursor = from, !.ips = 0,
                            !.scanned = 0, !.exhausted = FALSE]
  <2>1. /\ Around /\ At(i, s.at) /\ s.at = "table" /\ sync' = [sync EXCEPT ![i] = n]
        /\ geoList' = geoList /\ cursors' = cursors /\ cache' = cache
    BY <1>1 DEF LoadCursor, At
  <2>2. n \in Round /\ n.at = "block"
    BY <1>0, <2>1 DEF Round, Walking
  <2> HIDE DEF s, n, Kinds
  <2> QED BY <1>0, <1>a, <2>1, <2>2 DEF Walking
<1>2. CASE StatementFails(i)
  <2>1. /\ Around /\ At(i, s.at) /\ s.at \in {"upsert", "block"}
        /\ \/ sync' = [sync EXCEPT ![i] = [s EXCEPT !.at = "close", !.interrupted = TRUE]]
           \/ sync' = [sync EXCEPT ![i] = [s EXCEPT !.at = "report", !.failed = TRUE]]
        /\ geoList' = geoList /\ cursors' = cursors /\ cache' = cache
    BY <1>2 DEF StatementFails, At
  <2>2. /\ [s EXCEPT !.at = "close", !.interrupted = TRUE] \in Round
        /\ [s EXCEPT !.at = "close", !.interrupted = TRUE].at = "close"
        /\ [s EXCEPT !.at = "report", !.failed = TRUE] \in Round
        /\ [s EXCEPT !.at = "report", !.failed = TRUE].at = "report"
    BY <1>0, <2>1 DEF Round, Walking
  <2> HIDE DEF s, Kinds
  <2> QED BY <1>0, <1>a, <2>1, <2>2 DEF Walking
<1>3. CASE Scan(i)
  <2> DEFINE b == Block(s.log, s.cursor)
             missing == Missing(s.log, b)
             placed == {k \in missing : logRows[s.log][k] \in Located}
             found == [k \in placed |-> logRows[s.log][k]]
             n == [s EXCEPT !.at = "upsert", !.scanned = s.scanned + Cardinality(b),
                            !.ips = s.ips + Cardinality(missing), !.upto = Max(b),
                            !.found = found]
  <2>1. /\ Around /\ At(i, s.at) /\ s.at = "block" /\ geoList' = geoList
        /\ cursors' = cursors /\ cache' = cache
        /\ \/ sync' = [sync EXCEPT ![i] = [s EXCEPT !.at = "close"]]
           \/ sync' = [sync EXCEPT ![i] = [s EXCEPT !.at = "close", !.exhausted = TRUE]]
           \/ b # {} /\ sync' = [sync EXCEPT ![i] = n]
    BY <1>3 DEF Scan, At
  <2>2. /\ [s EXCEPT !.at = "close"] \in Round
        /\ [s EXCEPT !.at = "close"].at = "close"
        /\ [s EXCEPT !.at = "close", !.exhausted = TRUE] \in Round
        /\ [s EXCEPT !.at = "close", !.exhausted = TRUE].at = "close"
    BY <1>0, <2>1 DEF Round, Walking
  <2>3. s.log \in Logs /\ s.cursor \in Nat /\ s.scanned \in Nat /\ s.ips \in Nat
    BY <1>0, <2>1 DEF Round
  <2>4. /\ b \in SUBSET Nat /\ IsFiniteSet(b) /\ Cardinality(b) \in Nat
        /\ \A k \in b : k \in Nat /\ k > s.cursor
        /\ missing \subseteq b /\ Cardinality(missing) \in Nat
    BY <2>3, BlockIs
  <2>5. b # {} => Max(b) \in Nat
    BY <2>4, MaxOf
  <2>6. found \in Finds
    <3>1. placed \in SUBSET (Nat \ {0})
      BY <2>3, <2>4
    <3>2. found \in [placed -> Addresses]
      BY GeoipAssumption
    <3> QED BY <3>1, <3>2, FindsAre
  <2>7. s.scanned + Cardinality(b) \in Nat /\ s.ips + Cardinality(missing) \in Nat
    BY <2>3, <2>4
  <2> HIDE DEF b, missing, found
  <2>8. b # {} => n \in Round /\ n.at = "upsert"
    BY <1>0, <2>5, <2>6, <2>7 DEF Round, Walking
  <2> HIDE DEF s, n, Kinds
  <2> QED BY <1>0, <1>a, <2>1, <2>2, <2>8 DEF Walking
<1>4. CASE Upsert(i)
  <2> DEFINE k == Min(DOMAIN s.found)
             less == [j \in DOMAIN s.found \ {k} |-> s.found[j]]
             n1 == [s EXCEPT !.at = "block", !.cursor = s.upto]
             n2 == [s EXCEPT !.found = less]
  <2>1. /\ Around /\ At(i, s.at) /\ s.at = "upsert" /\ cursors' = cursors /\ cache' = cache
        /\ \/ geoList' = geoList /\ sync' = [sync EXCEPT ![i] = n1]
           \/ /\ DOMAIN s.found # {} /\ geoList' = geoList \cup {s.found[k]}
              /\ sync' = [sync EXCEPT ![i] = n2]
    BY <1>4 DEF Upsert, At
  <2>2. /\ s.found \in Finds /\ DOMAIN s.found \in SUBSET (Nat \ {0})
        /\ \A j \in DOMAIN s.found : s.found[j] \in Addresses
    BY <1>0, FindsAre DEF Round
  <2>3. DOMAIN s.found # {} => k \in DOMAIN s.found
    BY <2>2, MinOf
  <2>4. less \in Finds
    <3> DEFINE D == DOMAIN s.found \ {k}
    <3>1. D \in SUBSET (Nat \ {0})
      BY <2>2
    <3>2. less \in [D -> Addresses]
      BY <2>2
    <3> QED BY <3>1, <3>2, FindsAre
  <2>5. DOMAIN s.found # {} =>
          geoList \cup {s.found[k]} \subseteq Addresses /\ IsFiniteSet(geoList \cup {s.found[k]})
    BY <1>0, <2>2, <2>3, FS_AddElement
  <2> HIDE DEF k, less
  <2>6. /\ n1 \in Round /\ n1.at = "block"
        /\ n2 \in Round /\ n2.at = "upsert"
    BY <1>0, <2>1, <2>4 DEF Round, Walking
  <2> HIDE DEF s, n1, n2, Kinds
  <2>7. CASE geoList' = geoList /\ sync' = [sync EXCEPT ![i] = n1]
    BY <1>0, <1>a, <2>1, <2>6, <2>7 DEF Walking
  <2>8. CASE /\ DOMAIN s.found # {} /\ geoList' = geoList \cup {s.found[k]}
             /\ sync' = [sync EXCEPT ![i] = n2]
    BY <1>0, <1>a, <2>1, <2>5, <2>6, <2>8 DEF Walking
  <2> QED BY <2>1, <2>7, <2>8
<1>5. CASE CloseTable(i)
  <2> DEFINE rest == {t \in Logs : t > s.log}
             n1 == [s EXCEPT !.at = "report", !.found = NoneFound]
             n2 == [s EXCEPT !.at = "table", !.log = Min(rest), !.found = NoneFound]
  <2>1. /\ Around /\ At(i, s.at) /\ s.at = "close" /\ geoList' = geoList /\ cache' = cache
        /\ cursors' = [cursors EXCEPT ![s.log] = NextCursor(s)]
        /\ \/ sync' = [sync EXCEPT ![i] = n1]
           \/ rest # {} /\ sync' = [sync EXCEPT ![i] = n2]
    BY <1>5 DEF CloseTable, At
  <2>2. NextCursor(s) \in Nat
    BY <1>0 DEF NextCursor, Round
  <2>3. cursors' \in [Logs -> Nat]
    BY <1>0, <2>1, <2>2
  <2>4. rest # {} => Min(rest) \in Logs
    <3>1. rest \in SUBSET Nat
      BY GeoipAssumption
    <3> QED BY <3>1, MinOf
  <2>5. /\ n1 \in Round /\ n1.at = "report"
        /\ rest # {} => n2 \in Round /\ n2.at = "table"
    BY <1>0, <2>4, FindsAre DEF Round, Walking
  <2> HIDE DEF s, n1, n2, rest, Kinds
  <2> QED BY <1>0, <1>a, <2>1, <2>3, <2>5 DEF Walking
<1>6. CASE Report(i)
  <2> DEFINE a == IF s.failed THEN "error" ELSE "purge"
             n == [s EXCEPT !.at = a, !.outcome = Outcome(i)]
  <2>1. /\ Around /\ At(i, s.at) /\ s.at = "report" /\ geoList' = geoList /\ cache' = cache
        /\ cursors' = cursors /\ sync' = [sync EXCEPT ![i] = n]
    BY <1>6 DEF Report, At
  <2>2. Outcome(i) \in {"failed", "partial", "success"} /\ a \in {"error", "purge"}
    BY DEF Outcome
  <2> HIDE DEF a
  <2>3. n \in Round /\ n.at = a
    BY <1>0, <2>2 DEF Round, Walking
  <2> HIDE DEF s, n, Kinds
  <2> QED BY <1>0, <1>a, <2>1, <2>2, <2>3 DEF Walking
<1>7. CASE Purge(i)
  <2> DEFINE n == [s EXCEPT !.at = "ok"]
  <2>1. /\ Around /\ At(i, s.at) /\ s.at = "purge" /\ geoList' = geoList
        /\ cursors' = cursors /\ sync' = [sync EXCEPT ![i] = n]
    BY <1>7 DEF Purge, At
  <2>2. n \in Round /\ n.at = "ok"
    BY <1>0 DEF Round
  <2>3. cache' \in Kinds
    <3>1. cache' = [cache EXCEPT !.entry = Nothing, !.late = (cache.call # Nothing)]
      BY <1>7 DEF Purge
    <3>2. (cache.call # Nothing) \in BOOLEAN
      OBVIOUS
    <3> QED BY <1>0, <3>1, <3>2
  <2> HIDE DEF s, n, Kinds
  <2> QED BY <1>0, <1>a, <2>1, <2>2, <2>3 DEF Walking
<1> QED BY <1>1, <1>2, <1>3, <1>4, <1>5, <1>6, <1>7 DEF SyncStep

\* Rows come and go around a round; the list and the cursors do not change.
Older(old, new) ==
  /\ Len(new) >= Len(old)
  /\ \A k \in 1 .. Len(old) : new[k] = old[k] \/ new[k] = Gone

LEMMA AroundKeepsTypes ==
  ASSUME GeoTypeOK, Surroundings
  PROVE  /\ GeoTypeOK' /\ geoList' = geoList /\ cursors' = cursors /\ sync' = sync
         /\ \A t \in Logs : Older(logRows[t], logRows'[t])
<1> DEFINE Rows == Seq(Addresses \cup {Gone})
           Kinds == [entry : Nat \cup {Nothing}, call : Nat \cup {Nothing}, late : BOOLEAN]
<1>0. logRows \in [Logs -> Rows] /\ cache \in Kinds /\ Cardinality(geoList) \in Nat
  BY FS_CardinalityType DEF GeoTypeOK
<1>1. ASSUME logRows' = logRows PROVE \A t \in Logs : Older(logRows[t], logRows'[t])
  <2>1. \A t \in Logs : Len(logRows[t]) \in Nat
    BY <1>0
  <2> QED BY <1>1, <2>1 DEF Older
<1>2. ASSUME NEW t \in Logs, NEW ip \in Addresses, RowArrives(t, ip)
      PROVE  logRows' \in [Logs -> Rows] /\ \A u \in Logs : Older(logRows[u], logRows'[u])
  <2>1. \A u \in Logs : logRows[u] \in Rows /\ Len(logRows[u]) \in Nat
    BY <1>0
  <2>2. /\ logRows' = [logRows EXCEPT ![t] = Append(logRows[t], ip)]
        /\ Append(logRows[t], ip) \in Rows
        /\ Len(Append(logRows[t], ip)) = Len(logRows[t]) + 1
        /\ \A k \in 1 .. Len(logRows[t]) : Append(logRows[t], ip)[k] = logRows[t][k]
    BY <1>2, <2>1, AppendProperties DEF RowArrives
  <2> HIDE DEF Rows
  <2>3. /\ logRows' \in [Logs -> Rows] /\ logRows'[t] = Append(logRows[t], ip)
        /\ \A u \in Logs : u # t => logRows'[u] = logRows[u]
    BY <1>0, <2>2
  <2> QED BY <2>1, <2>2, <2>3 DEF Older
<1>3. ASSUME NEW t \in Logs, Prune(t)
      PROVE  logRows' \in [Logs -> Rows] /\ \A u \in Logs : Older(logRows[u], logRows'[u])
  <2>1. \A u \in Logs : logRows[u] \in Rows /\ Len(logRows[u]) \in Nat
                         /\ DOMAIN logRows[u] = 1 .. Len(logRows[u])
    BY <1>0
  <2>2. PICK k \in DOMAIN logRows[t] :
          logRows' = [logRows EXCEPT ![t] =
             [j \in DOMAIN logRows[t] |-> IF j <= k THEN Gone ELSE logRows[t][j]]]
    BY <1>3 DEF Prune
  <2> DEFINE new == [j \in 1 .. Len(logRows[t]) |-> IF j <= k THEN Gone ELSE logRows[t][j]]
  <2>3. \A j \in 1 .. Len(logRows[t]) : new[j] \in Addresses \cup {Gone}
    BY <2>1
  <2>4. new \in Rows /\ Len(new) = Len(logRows[t])
    BY <2>1, <2>3
  <2>5. \A j \in 1 .. Len(logRows[t]) : new[j] = logRows[t][j] \/ new[j] = Gone
    OBVIOUS
  <2>6. logRows' = [logRows EXCEPT ![t] = new]
    BY <2>1, <2>2
  <2> HIDE DEF Rows, new
  <2>7. /\ logRows' \in [Logs -> Rows] /\ logRows'[t] = new
        /\ \A u \in Logs : u # t => logRows'[u] = logRows[u]
    BY <1>0, <2>4, <2>6
  <2> QED BY <2>1, <2>4, <2>5, <2>7 DEF Older
<1>4. ASSUME TimerSkips \/ QueryMisses \/ QueryEnds \/ Expire
      PROVE  logRows' = logRows /\ cache' \in Kinds
  <2>1. CASE TimerSkips
    BY <1>0, <2>1 DEF TimerSkips
  <2>2. CASE QueryMisses
    BY <1>0, <2>2 DEF QueryMisses
  <2>3. CASE QueryEnds
    BY <1>0, <2>3 DEF QueryEnds
  <2>4. CASE Expire
    BY <1>0, <2>4 DEF Expire
  <2> QED BY <1>4, <2>1, <2>2, <2>3, <2>4
<1>5. CASE \/ \E t \in Logs : \/ \E ip \in Addresses : RowArrives(t, ip)
                              \/ Prune(t)
  BY <1>2, <1>3, <1>5 DEF RowArrives, Prune, GeoTypeOK
<1>6. CASE TimerSkips \/ QueryMisses \/ QueryEnds \/ Expire
  BY <1>1, <1>4, <1>6 DEF TimerSkips, QueryMisses, QueryEnds, Expire, GeoTypeOK
<1>7. AccessTable \in Logs /\ EventTable \in Logs
  BY GeoipAssumption
<1> QED BY <1>5, <1>6, <1>7 DEF Surroundings, PruneIfEnabled, PruneOnce, PruneEventsByHand,
           PruneLogsByHand, PruneEvents, PruneLogs

\* The entry a round starts with.
LEMMA RoundStarts ==
  ASSUME GeoTypeOK, NEW i \in Ids, SubmitSync(i)
  PROVE  /\ GeoTypeOK' /\ geoList' = geoList /\ cursors' = cursors /\ logRows' = logRows
         /\ cache' = cache /\ \A j \in Ids : j # i => sync'[j] = sync[j]
         /\ sync'[i].at = "table" /\ sync'[i].log # 0 /\ sync'[i].outcome = "none"
         /\ ~sync'[i].failed /\ ~sync'[i].interrupted
<1> DEFINE n == [NoSync EXCEPT !.at = "table", !.log = Min(Logs)]
<1>1. Min(Logs) \in Logs
  <2>1. Logs \in SUBSET Nat /\ Logs # {}
    BY GeoipAssumption
  <2> QED BY <2>1, MinOf
<1>2. Min(Logs) # 0
  BY <1>1, GeoipAssumption
<1>3. /\ n \in Round /\ n.at = "table" /\ n.log # 0 /\ n.outcome = "none"
      /\ ~n.failed /\ ~n.interrupted
  BY <1>1, <1>2, FindsAre DEF NoSync, Round, Walking
<1>4. sync' = [sync EXCEPT ![i] = n]
  BY DEF SubmitSync
<1> HIDE DEF n
<1> QED BY <1>3, <1>4 DEF SubmitSync, GeoTypeOK

-----------------------------------------------------------------------------
(* The steps, sorted by what they leave alone.                             *)

\* The centre goes on, and the bodies that are at work stay at it.
Elsewhere ==
  /\ Quietly
  /\ \A i \in Ids : (mig[i].at \in Copying \cup {"ddl"} \/ sync[i].at \in Walking)
                       => (pc[i] = "body" => pc'[i] = "body")
  /\ UNCHANGED <<dsn, editor, starter, aligner, mig, target, exposed, logRows, geoList,
                 cursors, sync, cache>>

Other(i) ==
  /\ \E l \in Creators \ Modelled : Submit(i, l)
  /\ UNCHANGED <<dsn, editor, starter, aligner, mig, target, exposed, logRows, geoList,
                 cursors, sync, cache>>

Sorted ==
  \/ Elsewhere
  \/ \E i \in Ids : BodyStep(i) /\ GoesOn(i) /\ UNCHANGED <<vars, geoVars>>
  \/ \E i \in Ids : SyncStep(i) /\ SyncGoesOn(i) /\ UNCHANGED <<vars, migVars>>
  \/ AdminStep /\ UNCHANGED <<vars, geoVars>>
  \/ Surroundings /\ UNCHANGED <<vars, migVars>>
  \/ \E i \in Ids : SubmitMigration(i) /\ UNCHANGED geoVars
  \/ \E i \in Ids : SubmitAlignment(i) /\ UNCHANGED geoVars
  \/ \E i \in Ids : SubmitSync(i) /\ UNCHANGED migVars
  \/ \E i \in Ids : Other(i)

LEMMA StepsAreSorted ==
  ASSUME CentreOK, LabelsOK, MigTypeOK, TablesOK, GeoTypeOK, ScanOK, [JobsNext]_jobVars
  PROVE  Sorted
<1>a. ASSUME NEW i \in Ids, NEW err \in {"nil", "error"}, Return(i, err),
             mig[i].at \notin Copying \cup {"ddl"}, sync[i].at \notin Walking,
             UNCHANGED <<migVars, geoVars>>
      PROVE  Elsewhere
  <2>1. Quietly
    BY <1>a, QuietSteps
  <2>2. \A j \in Ids : j # i => pc'[j] = pc[j]
    BY <1>a DEF Return, CentreOK, TypeOK
  <2> QED BY <1>a, <2>1, <2>2 DEF Elsewhere, migVars, geoVars
<1>b. ASSUME Quietly, \A j \in Ids : pc[j] = "body" => pc'[j] = "body",
             UNCHANGED <<dsn, editor, starter, aligner, mig, target, exposed, geoVars>>
      PROVE  Elsewhere
  BY <1>b DEF Elsewhere, geoVars
<1>1. CASE CentreStep
  <2>1. CASE RegisterMutexRules \/ \E names \in CreatorLists : RegisterCreators(names)
    <3>1. Quietly
      BY <2>1, QuietSteps
    <3> QED BY <1>1, <2>1, <3>1, <1>b
            DEF RegisterMutexRules, RegisterCreators, CentreStep, migVars, Sorted
  <2>2. ASSUME NEW i \in Ids, NEW p \in Snapshots, SetProgress(i, p) PROVE Elsewhere
    <3>1. Quietly
      BY <2>2, QuietSteps
    <3> QED BY <1>1, <2>2, <3>1, <1>b DEF SetProgress, CentreStep, migVars
  <2>3. ASSUME NEW i \in Ids, task[i].label \notin Modelled,
               NEW err \in {"nil", "error"}, Return(i, err)
        PROVE  Elsewhere
    <3>1. mig[i].at \notin Copying \cup {"ddl"} /\ sync[i].at \notin Walking
      BY <2>3 DEF LabelsOK, Modelled, Walking
    <3> QED BY <1>1, <1>a, <2>3, <3>1 DEF CentreStep
  <2>4. ASSUME NEW i \in Ids, Settle(i) PROVE Elsewhere
    <3>1. Quietly
      BY <2>4, QuietSteps
    <3>2. \A j \in Ids : pc[j] = "body" => pc'[j] = "body"
      BY <2>4 DEF Settle, CentreOK, TypeOK
    <3> QED BY <1>1, <3>1, <3>2, <1>b DEF CentreStep, migVars
  <2>5. ASSUME NEW i \in Ids, Cancel(i) PROVE Elsewhere
    <3>1. Quietly
      BY <2>5, QuietSteps
    <3> QED BY <1>1, <2>5, <3>1, <1>b DEF Cancel, CentreStep, migVars
  <2> QED BY <1>1, <2>1, <2>2, <2>3, <2>4, <2>5 DEF CentreStep, Sorted
<1>2. ASSUME NEW i \in Ids, Submission(i) PROVE Sorted
  BY <1>2 DEF Submission, Sorted, Other, geoVars
<1>3. ASSUME NEW i \in Ids, Progresses(i) PROVE Sorted
  <2>1. CASE BodyStep(i) /\ UNCHANGED <<vars, geoVars>>
    BY <2>1, BodyGoesOn DEF Sorted
  <2>2. CASE SyncStep(i) /\ UNCHANGED <<vars, migVars>>
    BY <2>2, SyncKeepsTypes DEF Sorted
  <2>3. CASE BodyReturns(i) /\ UNCHANGED geoVars
    <3>1. PICK err \in {"nil", "error"} : Return(i, err)
      BY <2>3 DEF BodyReturns
    <3>2. mig[i].at \notin Copying \cup {"ddl"} /\ sync[i].at \notin Walking
      BY <2>3 DEF BodyReturns, LabelsOK, Copying, Walking
    <3> QED BY <1>a, <2>3, <3>1, <3>2 DEF BodyReturns, Sorted
  <2>4. CASE SyncReturns(i) /\ UNCHANGED migVars
    <3>1. PICK err \in {"nil", "error"} : Return(i, err)
      BY <2>4 DEF SyncReturns
    <3>2. mig[i].at \notin Copying \cup {"ddl"} /\ sync[i].at \notin Walking
      BY <2>4 DEF SyncReturns, LabelsOK, Copying, Walking
    <3> QED BY <1>a, <2>4, <3>1, <3>2 DEF SyncReturns, Sorted
  <2> QED BY <1>3, <2>1, <2>2, <2>3, <2>4 DEF Progresses
<1>4. CASE CancelMarked /\ UNCHANGED geoVars
  <2>1. Known \subseteq Ids
    BY DEF CentreOK, TypeOK, Known
  <2>2. Cancel(canceller) /\ canceller \in Ids
    BY <1>4, <2>1 DEF CancelMarked, Cancel
  <2>3. Quietly
    BY <2>2, QuietSteps
  <2>4. Elsewhere
    BY <1>b, <1>4, <2>2, <2>3 DEF CancelMarked, Cancel
  <2> QED BY <2>4 DEF Sorted
<1>5. CASE UNCHANGED jobVars
  <2>1. Quietly
    BY <1>5, QuietSteps DEF jobVars
  <2>2. Elsewhere
    BY <1>b, <1>5, <2>1 DEF jobVars, vars, migVars
  <2> QED BY <2>2 DEF Sorted
<1> QED BY <1>1, <1>2, <1>3, <1>4, <1>5 DEF JobsNext, Sorted

(***************************************************************************)
(* A task that is submitted is new; the others are as they were.           *)
(***************************************************************************)
Joins(i, l) ==
  /\ i = seq + 1 /\ seq' = i
  /\ task'[i].label = l /\ pc'[i] = "body"
  /\ \A j \in Ids : j # i => task'[j].label = task[j].label /\ pc'[j] = pc[j]
  /\ \A j \in 1 .. seq : task[j].label = l => pc[j] = "settled"

LEMMA SubmitJoins ==
  ASSUME CentreOK, NEW i \in Ids, NEW l \in Creators, Submit(i, l)
  PROVE  Joins(i, l)
BY Submitted DEF Joins

LEMMA LabelsNext ==
  ASSUME CentreOK, LabelsOK, MigTypeOK, GeoTypeOK, Sorted
  PROVE  LabelsOK'
<1>0. seq \in Nat /\ None \notin Creators /\ Modelled \subseteq Creators
      /\ \A i \in Ids : i \in Nat
  BY TaskCenterAssumption, JobsAssumption DEF CentreOK, TypeOK, Ids
<1>1. CASE Elsewhere
  BY <1>1 DEF Elsewhere, Quietly, LabelsOK
<1>2. ASSUME NEW i \in Ids, GoesOn(i), UNCHANGED <<vars, geoVars>> PROVE LabelsOK'
  <2>1. /\ pc[i] = "body" /\ mig[i].at \in Copying \cup {"ddl"}
        /\ mig'[i].at \in IF mig[i].at = "ddl" THEN {"ddl", "ok", "error"}
                          ELSE Copying \cup {"ok", "error"}
        /\ \A j \in Ids : j # i => mig'[j] = mig[j]
    BY <1>2 DEF GoesOn, Fits
  <2> QED BY <1>2, <2>1 DEF LabelsOK, vars, geoVars, Copying
<1>3. ASSUME NEW i \in Ids, SyncGoesOn(i), UNCHANGED <<vars, migVars>> PROVE LabelsOK'
  BY <1>3 DEF SyncGoesOn, LabelsOK, vars, migVars, Walking
<1>4. CASE AdminStep /\ UNCHANGED <<vars, geoVars>>
  <2>1. \A j \in Ids : mig'[j].at = mig[j].at
    BY <1>4, AdminMarks, MarksFit DEF MigTypeOK
  <2> QED BY <1>4, <2>1 DEF LabelsOK, vars, geoVars
<1>5. CASE Surroundings /\ UNCHANGED <<vars, migVars>>
  BY <1>5, AroundKeepsTypes DEF LabelsOK, vars, migVars
<1>6. ASSUME NEW i \in Ids, SubmitMigration(i), UNCHANGED geoVars PROVE LabelsOK'
  <2>1. Joins(i, "migrate")
    BY <1>0, <1>6, SubmitJoins DEF SubmitMigration, Modelled
  <2> QED BY <1>0, <1>6, <2>1, MigrationStarts DEF Joins, LabelsOK, geoVars, Copying, Walking,
             Modelled
<1>7. ASSUME NEW i \in Ids, SubmitAlignment(i), UNCHANGED geoVars PROVE LabelsOK'
  <2>1. Joins(i, "schema_apply")
    BY <1>0, <1>7, SubmitJoins DEF SubmitAlignment, Modelled
  <2>2. /\ mig'[i].at \notin Copying /\ mig'[i].at # "none" /\ sync' = sync
        /\ \A j \in Ids : j # i => mig'[j] = mig[j]
    BY <1>7, AlignmentStarts DEF Copying, geoVars
  <2> QED BY <1>0, <2>1, <2>2 DEF Joins, LabelsOK, Walking, Modelled
<1>8. ASSUME NEW i \in Ids, SubmitSync(i), UNCHANGED migVars PROVE LabelsOK'
  <2>1. Joins(i, "geoip_sync")
    BY <1>0, <1>8, SubmitJoins DEF SubmitSync, Modelled
  <2> QED BY <1>0, <1>8, <2>1, RoundStarts DEF Joins, LabelsOK, migVars, Copying, Walking,
             Modelled
<1>9. ASSUME NEW i \in Ids, Other(i) PROVE LabelsOK'
  <2>1. PICK l \in Creators \ Modelled : Joins(i, l)
    BY <1>9, SubmitJoins DEF Other
  <2> QED BY <1>0, <1>9, <2>1 DEF Other, Joins, LabelsOK, Copying, Walking, Modelled
<1> QED BY <1>1, <1>2, <1>3, <1>4, <1>5, <1>6, <1>7, <1>8, <1>9 DEF Sorted

(***************************************************************************)
(* Of two tasks with the same label the first has settled.                 *)
(***************************************************************************)
LEMMA SequentialNext ==
  ASSUME CentreOK, Sequential, Sorted
  PROVE  Sequential'
<1>0. seq \in Nat /\ \A j \in 1 .. seq : j \in Ids
  BY TaskCenterAssumption DEF CentreOK, TypeOK, Ids
<1>1. CASE Quietly
  BY <1>0, <1>1 DEF Quietly, Sequential
<1>2. CASE UNCHANGED vars
  BY <1>2 DEF vars, Sequential
<1>3. ASSUME NEW i \in Ids, NEW l \in Creators, Submit(i, l) PROVE Sequential'
  <2>1. Joins(i, l)
    BY <1>3, SubmitJoins
  <2> QED BY <1>0, <2>1 DEF Joins, Sequential
<1>4. ASSUME NEW i \in Ids, NEW l \in Modelled, Submit(i, l) PROVE Sequential'
  BY <1>3, <1>4, JobsAssumption
<1> QED BY <1>1, <1>2, <1>3, <1>4 DEF Sorted, Elsewhere, Other, SubmitMigration, SubmitAlignment,
           SubmitSync, Modelled

(***************************************************************************)
(* The source of a migration (handleDsnDelete, sourceConn).                *)
(***************************************************************************)
LEMMA SourcesNext ==
  ASSUME CentreOK, LabelsOK, MigTypeOK, GeoTypeOK, SourcesOK, Sorted
  PROVE  SourcesOK'
<1>0. /\ seq \in Nat /\ \A i \in Ids : i \in Nat
      /\ \A i \in Ids : pc[i] = "body" => i \in running
  BY TaskCenterAssumption DEF CentreOK, TypeOK, Ids, Bookkeeping, PhaseOK
<1>1. CASE Elsewhere
  BY <1>1 DEF Elsewhere, Quietly, SourcesOK, AtRisk
<1>2. ASSUME NEW i \in Ids, BodyStep(i), GoesOn(i), UNCHANGED <<vars, geoVars>>
      PROVE  SourcesOK'
  <2>1. /\ mig[i] \in Run /\ mig'[i] \in Run /\ mig'[i].source = mig[i].source
        /\ \A j \in Ids : j # i => mig'[j] = mig[j]
        /\ dsn' = dsn /\ editor' = editor
        /\ exposed' = exposed \/ (Open(i) /\ exposed' = exposed \cup {i})
        /\ Open(i) /\ BeingWritten => i \in exposed'
    <3>1. CASE Open(i)
      BY <1>2, <3>1 DEF Open, Undisturbed, GoesOn, Fits, MigTypeOK
    <3>2. CASE ~Open(i)
      <4>1. Same
        BY <1>2, <3>2 DEF BodyStep, NextOf, Claim, Columns, Truncate, WriteBatch,
           ResetAutoIncrement, Verdict, ExecuteDdl
      <4> QED BY <1>2, <3>2, <4>1 DEF GoesOn, Fits, Same, Undisturbed, MigTypeOK
    <3> QED BY <3>1, <3>2
  <2>2. /\ mig'[i].at # "open"
        /\ mig'[i].lost => \/ mig[i].lost
                          \/ /\ Open(i) /\ mig[i].at = "open"
                             /\ mig[i].source \notin dsn \/ BeingWritten
    <3>1. mig \in [Ids -> Run]
      BY DEF MigTypeOK
    <3>2. CASE Open(i)
      BY <3>1, <3>2 DEF Open, Go, Body, Run
    <3>3. CASE NextOf(i)
      BY <3>1, <3>3 DEF NextOf, Go, Body, Run
    <3>4. CASE Claim(i) \/ Columns(i) \/ Truncate(i) \/ ResetAutoIncrement(i)
      BY <3>1, <3>4 DEF Claim, Columns, Truncate, ResetAutoIncrement, Go, TableEnds, Body, Run
    <3>5. CASE WriteBatch(i)
      BY <3>1, <3>5 DEF WriteBatch, Go, TableEnds, Body, Run
    <3>6. CASE Verdict(i)
      BY <3>1, <3>6 DEF Verdict, Body, Run
    <3>7. CASE ExecuteDdl(i)
      BY <3>1, <3>7 DEF ExecuteDdl, Go, Body, Run
    <3> QED BY <1>2, <3>2, <3>3, <3>4, <3>5, <3>6, <3>7 DEF BodyStep
  <2>3. \A c : AtRisk(c)' <=> AtRisk(c)
    BY <2>1 DEF AtRisk
  <2>4. mig'[i].lost => i \in exposed'
    BY <2>1, <2>2 DEF SourcesOK, AtRisk
  <2>5. ASSUME NEW j \in Ids, j # i
        PROVE  /\ mig'[j].lost => j \in exposed'
               /\ mig'[j].at = "open" /\ j \notin exposed' => ~AtRisk(mig[j].source)'
    BY <2>1, <2>3, <2>5 DEF SourcesOK
  <2> QED BY <2>2, <2>4, <2>5 DEF SourcesOK
<1>3. CASE UNCHANGED <<vars, migVars>>
  BY <1>3 DEF SourcesOK, AtRisk, vars, migVars
<1>4. CASE AdminStep /\ UNCHANGED <<vars, geoVars>>
  <2>1. /\ exposed' = exposed
        /\ \A j \in Ids : /\ mig'[j].at = mig[j].at /\ mig'[j].lost = mig[j].lost
                          /\ mig'[j].source = mig[j].source
    BY <1>4, AdminMarks, MarksFit DEF MigTypeOK
  <2>2. ASSUME NEW e \in Editors, DeleteChecked(e) PROVE SourcesOK'
    <3>1. \A j \in Ids : mig[j].at # "open"
      BY <1>0, <2>2 DEF DeleteChecked, LabelsOK, Copying
    <3> QED BY <2>1, <3>1 DEF SourcesOK
  <2>3. editor \in [Editors -> [at : {"idle", "delete", "save"}, code : Codes,
                                list : SUBSET Codes]]
    BY DEF MigTypeOK
  <2>4. ASSUME \A c : ~AtRisk(c) => ~AtRisk(c)' PROVE SourcesOK'
    BY <2>1, <2>4 DEF SourcesOK
  <2>5. ASSUME NEW e \in Editors, DeleteLoads(e), NEW c, ~AtRisk(c) PROVE ~AtRisk(c)'
    BY <2>3, <2>5 DEF DeleteLoads, AtRisk, NoEdit
  <2>6. ASSUME NEW e \in Editors, AddLoads(e), NEW c, ~AtRisk(c) PROVE ~AtRisk(c)'
    BY <2>3, <2>6 DEF AddLoads, AtRisk
  <2>7. ASSUME NEW e \in Editors, Saves(e), NEW c, ~AtRisk(c) PROVE ~AtRisk(c)'
    BY <2>3, <2>7 DEF Saves, AtRisk, NoEdit
  <2>8. CASE dsn' = dsn /\ editor' = editor
    BY <2>4, <2>8 DEF AtRisk
  <2> QED BY <1>4, <2>2, <2>4, <2>5, <2>6, <2>7, <2>8 DEF AdminStep, CheckStart,
             RefuseMigration, Publish, AlignLooks, RefuseAlignment, MarkCancelled,
             CancelTooLate, CancelTable
<1>6. ASSUME NEW i \in Ids, SubmitMigration(i), UNCHANGED geoVars PROVE SourcesOK'
  <2>1. Joins(i, "migrate")
    BY <1>6, SubmitJoins, JobsAssumption DEF SubmitMigration, Modelled
  <2> QED BY <1>6, <2>1, MigrationStarts DEF Joins, SourcesOK, Exposed, AtRisk
<1>7. ASSUME NEW i \in Ids, SubmitAlignment(i), UNCHANGED geoVars PROVE SourcesOK'
  <2>1. Joins(i, "schema_apply")
    BY <1>7, SubmitJoins, JobsAssumption DEF SubmitAlignment, Modelled
  <2> QED BY <1>7, <2>1, AlignmentStarts DEF Joins, SourcesOK, AtRisk
<1>8. ASSUME NEW i \in Ids, SubmitSync(i), UNCHANGED migVars PROVE SourcesOK'
  <2>1. Joins(i, "geoip_sync")
    BY <1>8, SubmitJoins, JobsAssumption DEF SubmitSync, Modelled
  <2> QED BY <1>8, <2>1 DEF Joins, SourcesOK, AtRisk, migVars
<1>9. ASSUME NEW i \in Ids, Other(i) PROVE SourcesOK'
  <2>1. PICK l \in Creators \ Modelled : Joins(i, l)
    BY <1>9, SubmitJoins DEF Other
  <2> QED BY <1>9, <2>1 DEF Other, Joins, SourcesOK, AtRisk, Modelled
<1> QED BY <1>1, <1>2, <1>3, <1>4, <1>6, <1>7, <1>8, <1>9 DEF Sorted

-----------------------------------------------------------------------------
(* The copy.                                                               *)

(***************************************************************************)
(* A step of the copy, in terms of the entry before and after it and of    *)
(* the target.                                                             *)
(***************************************************************************)
Unread(m, n) == n.table = m.table /\ n.status = m.status /\ n.rows = m.rows

CountedUpto(m, n, rows) ==
  n.table = m.table /\ n.status = m.status /\ n.rows = [m.rows EXCEPT ![m.table] = rows]

Gains(m, k) == Inserted(m.table, m.rows[m.table] + 1, k)

EndOf(m) == Min({m.rows[m.table] + Batch, RowsOf[m.table]})

Opens(m, n) ==
  /\ m.at = "open" /\ n.status = m.status /\ n.rows = m.rows /\ target' = target
  /\ \/ n.at = "next" /\ n.table = FirstTable
     \/ n.at = "error" /\ n.table = m.table

GoesToNext(m, n) ==
  /\ m.at = "next" /\ n.rows = m.rows /\ target' = target
  /\ \/ m.table = 0 /\ n.at \in {"ok", "error"} /\ Unread(m, n)
     \/ /\ m.table # 0 /\ n.at = "next" /\ n.table = 0
        /\ n.status = [t \in Tables |-> IF t >= m.table /\ m.status[t] = "pending"
                                        THEN "cancelled" ELSE m.status[t]]
     \/ /\ m.table # 0 /\ n.at = "next" /\ n.table = NextTable(m.table)
        /\ n.status = m.status /\ m.status[m.table] # "pending"
     \/ m.table # 0 /\ n.at = "claim" /\ Unread(m, n)

Claims(m, n) ==
  /\ m.at = "claim" /\ n.at = "columns" /\ n.table = m.table /\ n.rows = m.rows
  /\ n.status = [m.status EXCEPT ![m.table] = "running"] /\ target' = target

Prepares(m, n) ==
  /\ m.at \in {"columns", "truncate"}
  /\ \/ /\ m.at = "columns" /\ n.at = "truncate" /\ Unread(m, n) /\ target' = target
     \/ /\ m.at = "columns" /\ n.at = "batch" /\ Unread(m, n) /\ target' = target
        /\ m.mode # "replace"
     \/ /\ m.at = "truncate" /\ n.at = "batch" /\ Unread(m, n)
        /\ target' = [target EXCEPT ![m.table] = Emptied]
     \/ n.at = "verdict" /\ n.err /\ CountedUpto(m, n, 0) /\ target' = target

Writes(m, n) ==
  /\ m.at = "batch"
  /\ \/ /\ n.at = "reset" /\ Unread(m, n) /\ target' = target
        /\ m.rows[m.table] = RowsOf[m.table]
     \/ /\ m.rows[m.table] < RowsOf[m.table]
        /\ n.at = "batch" \/ (n.at = "verdict" /\ n.err)
        /\ CountedUpto(m, n, EndOf(m)) /\ target' = Gains(m, EndOf(m))
     \/ /\ m.rows[m.table] < RowsOf[m.table]
        /\ n.at = "verdict" /\ n.err /\ CountedUpto(m, n, m.rows[m.table])
        /\ target' \in {target, Gains(m, EndOf(m))}
     \/ /\ n.at = "verdict" /\ n.err
        /\ \E k \in m.rows[m.table] .. EndOf(m) :
             CountedUpto(m, n, k) /\ target' = Gains(m, k)

Resets(m, n) ==
  /\ m.at = "reset" /\ n.at = "verdict" /\ target' = target
  /\ CountedUpto(m, n, m.rows[m.table])

Judges(m, n) ==
  /\ m.at = "verdict" /\ n.at = "next" /\ n.table = NextTable(m.table) /\ n.rows = m.rows
  /\ \E v \in {"done", "cancelled", "failed"} :
       /\ n.status = [m.status EXCEPT ![m.table] = v]
       /\ v = "done" => ~m.err
  /\ target' = target

Copies(m, n) ==
  \/ Opens(m, n) \/ GoesToNext(m, n) \/ Claims(m, n) \/ Prepares(m, n) \/ Writes(m, n)
  \/ Resets(m, n) \/ Judges(m, n)

LEMMA BodyCopies ==
  ASSUME MigTypeOK, NEW i \in Ids, BodyStep(i)
  PROVE  Copies(mig[i], mig'[i]) \/ (mig[i].at = "ddl" /\ target' = target)
<1>0. mig \in [Ids -> Run]
  BY DEF MigTypeOK
<1>1. CASE Open(i)
  BY <1>0, <1>1 DEF Open, Go, Body, Run, Copies, Opens
<1>2. CASE NextOf(i)
  BY <1>0, <1>2 DEF NextOf, Body, Run, Copies, GoesToNext, Unread
<1>3. CASE Claim(i)
  BY <1>0, <1>3 DEF Claim, Body, Run, Copies, Claims
<1>4. CASE Columns(i)
  BY <1>0, <1>4 DEF Columns, Go, TableEnds, Body, Run, Copies, Prepares, Unread, CountedUpto
<1>5. CASE Truncate(i)
  BY <1>0, <1>5 DEF Emptied, Truncate, Go, TableEnds, Body, Run, Copies, Prepares, Unread, CountedUpto
<1>6. CASE WriteBatch(i)
  <2> DEFINE m == mig[i]
             t == m.table
             done == m.rows[t]
             end == EndOf(m)
             Ended(rows) == [m EXCEPT !.at = "verdict", !.err = TRUE,
                                      !.rows = [m.rows EXCEPT ![t] = rows]]
             counted == [m EXCEPT !.rows = [m.rows EXCEPT ![t] = end]]
             reset == [m EXCEPT !.at = "reset"]
  <2>a. /\ m \in Run /\ m.at = "batch"
        /\ \A n : mig' = [mig EXCEPT ![i] = n] => mig'[i] = n
    BY <1>0, <1>6 DEF WriteBatch, Body
  <2>b. /\ reset.at = "reset" /\ Unread(m, reset)
        /\ counted.at = "batch" /\ CountedUpto(m, counted, end)
        /\ \A rows : /\ Ended(rows).at = "verdict" /\ Ended(rows).err
                     /\ CountedUpto(m, Ended(rows), rows)
    BY <2>a DEF Run, Unread, CountedUpto
  <2>c. \/ /\ done = RowsOf[t] /\ target' = target
           /\ mig' = [mig EXCEPT ![i] = reset]
        \/ /\ done < RowsOf[t] /\ target' = Gains(m, end)
           /\ \/ mig' = [mig EXCEPT ![i] = Ended(end)]
              \/ mig' = [mig EXCEPT ![i] = counted]
        \/ /\ done < RowsOf[t] /\ target' \in {target, Gains(m, end)}
           /\ mig' = [mig EXCEPT ![i] = Ended(done)]
        \/ \E k \in done .. end :
             mig' = [mig EXCEPT ![i] = Ended(k)] /\ target' = Gains(m, k)
    <3>1. /\ Go(i, "reset") => mig' = [mig EXCEPT ![i] = reset]
          /\ \A rows : TableEnds(i, TRUE, rows) => mig' = [mig EXCEPT ![i] = Ended(rows)]
          /\ mig' = [mig EXCEPT ![i].rows[t] = end] => mig' = [mig EXCEPT ![i] = counted]
      <4> HIDE DEF end
      <4>1. Go(i, "reset") => mig' = [mig EXCEPT ![i] = reset]
        BY <1>0 DEF Go, Run
      <4>2. \A rows : TableEnds(i, TRUE, rows) => mig' = [mig EXCEPT ![i] = Ended(rows)]
        BY <2>a DEF TableEnds, Run
      <4>3. mig' = [mig EXCEPT ![i].rows[t] = end] => mig' = [mig EXCEPT ![i] = counted]
        BY <1>0 DEF Run
      <4> QED BY <4>1, <4>2, <4>3
    <3>2. end = Min({done + Batch, RowsOf[t]})
      BY DEF EndOf
    <3> HIDE DEF reset, counted, Ended, end
    <3> QED BY <1>6, <3>1, <3>2 DEF WriteBatch, Gains
  <2> HIDE DEF reset, counted, Ended
  <2>1. Writes(m, mig'[i])
    <3>1. CASE done = RowsOf[t] /\ target' = target /\ mig' = [mig EXCEPT ![i] = reset]
      BY <2>a, <2>b, <3>1 DEF Writes
    <3>2. CASE /\ done < RowsOf[t] /\ target' = Gains(m, end)
               /\ \/ mig' = [mig EXCEPT ![i] = Ended(end)]
                  \/ mig' = [mig EXCEPT ![i] = counted]
      BY <2>a, <2>b, <3>2 DEF Writes
    <3>3. CASE /\ done < RowsOf[t] /\ target' \in {target, Gains(m, end)}
               /\ mig' = [mig EXCEPT ![i] = Ended(done)]
      BY <2>a, <2>b, <3>3 DEF Writes
    <3>4. CASE \E k \in done .. end :
                 mig' = [mig EXCEPT ![i] = Ended(k)] /\ target' = Gains(m, k)
      BY <2>a, <2>b, <3>4 DEF Writes
    <3> QED BY <2>c, <3>1, <3>2, <3>3, <3>4
  <2> QED BY <2>1 DEF Copies
<1>7. CASE ResetAutoIncrement(i)
  BY <1>0, <1>7 DEF ResetAutoIncrement, TableEnds, Body, Run, Copies, Resets, CountedUpto
<1>8. CASE Verdict(i)
  <2>1. VerdictOf(i) \in {"done", "cancelled", "failed"} /\ (VerdictOf(i) = "done" => ~mig[i].err)
    BY DEF VerdictOf
  <2>2. Judges(mig[i], mig'[i])
    BY <1>0, <1>8, <2>1 DEF Verdict, Body, Run, Judges
  <2> QED BY <2>2 DEF Copies
<1>9. CASE ExecuteDdl(i)
  BY <1>0, <1>9 DEF ExecuteDdl, Body
<1> QED BY <1>1, <1>2, <1>3, <1>4, <1>5, <1>6, <1>7, <1>8, <1>9 DEF BodyStep

(***************************************************************************)
(* Before, at or after a table; and whatever is before the table after it  *)
(* is not after it.                                                        *)
(***************************************************************************)
LEMMA TablesInOrder ==
  ASSUME NEW a \in Tables
  PROVE  /\ NextTable(a) \in Tables \cup {0}
         /\ \A t \in Tables :
              /\ t < a \/ t = a \/ t > a
              /\ ~(t < a /\ t > a) /\ (t < a \/ t > a => t # a) /\ (t >= a => ~(t < a))
              /\ t = a => t >= a
              /\ t > a => t >= a
              /\ NextTable(a) = 0 \/ t < NextTable(a) => t < a \/ t = a
              /\ NextTable(a) # 0 /\ (t = NextTable(a) \/ t > NextTable(a)) => t > a /\ t # a
<1> DEFINE b == NextTable(a)
<1>1. a \in Nat /\ (\A t \in Tables : t \in Nat) /\ b \in Nat
  <2>1. b \in Tables \cup {0}
    BY NextTableNext
  <2>2. \A t \in Tables : t \in Nat
    BY MigrationAssumption
  <2> HIDE DEF b
  <2> QED BY <2>1, <2>2
<1>2. /\ b \in Tables \cup {0}
      /\ b = 0 => \A u \in Tables : u <= a
      /\ b # 0 => b > a /\ \A u \in Tables : u > a => u >= b
  BY NextTableNext
<1> HIDE DEF b
<1>3. ASSUME NEW t \in Tables
      PROVE  /\ t < a \/ t = a \/ t > a
             /\ ~(t < a /\ t > a) /\ (t < a \/ t > a => t # a) /\ (t >= a => ~(t < a))
             /\ t = a => t >= a
             /\ t > a => t >= a
             /\ b = 0 \/ t < b => t < a \/ t = a
             /\ b # 0 /\ (t = b \/ t > b) => t > a /\ t # a
  <2>1. t \in Nat
    BY <1>1
  <2> QED BY <1>1, <1>2, <2>1
<1> QED BY <1>2, <1>3 DEF b

(***************************************************************************)
(* A step of the copy leaves the tables in order: dealt with, in hand,     *)
(* untouched (runMigration, migrateTable).                                 *)
(***************************************************************************)
LEMMA CopyKeepsTables ==
  ASSUME NEW m \in Run, NEW n \in Run, TablesOf(m), Copies(m, n)
  PROVE  TablesOf(n)
<1>0. /\ Tables \subseteq Nat \ {0} /\ m.status \in [Tables -> {"pending", "running", "done",
                                                     "failed", "cancelled"}]
      /\ m.rows \in [Tables -> Nat] /\ m.table \in Tables \cup {0}
  BY MigrationAssumption DEF Run
<1>1. CASE Opens(m, n)
  <2>1. FirstTable \in Tables /\ FirstTable # 0 /\ \A t \in Tables : ~(t < FirstTable)
    BY <1>0, FirstTableFirst
  <2> QED BY <1>0, <1>1, <2>1 DEF Opens, TablesOf, Untouched, InHand
<1>2. CASE GoesToNext(m, n)
  <2>1. /\ m.at = "next" /\ n.rows = m.rows
        /\ \A t \in Tables :
             /\ m.table = 0 \/ t < m.table => m.status[t] \notin {"pending", "running"}
             /\ m.table # 0 /\ t > m.table => m.status[t] \in Untouched /\ m.rows[t] = 0
        /\ m.table # 0 => m.status[m.table] \in Untouched /\ m.rows[m.table] = 0
    BY <1>2 DEF GoesToNext, TablesOf, InHand
  <2>2. CASE m.table = 0 /\ n.at \in {"ok", "error"} /\ Unread(m, n)
    BY <1>0, <2>1, <2>2 DEF Unread, TablesOf, InHand
  <2>3. CASE /\ m.table # 0 /\ n.at = "next" /\ n.table = 0
             /\ n.status = [t \in Tables |-> IF t >= m.table /\ m.status[t] = "pending"
                                             THEN "cancelled" ELSE m.status[t]]
    <3>1. \A t \in Tables : t < m.table \/ (t = m.table /\ t >= m.table)
                             \/ (t > m.table /\ t >= m.table)
      BY <1>0, <2>3, TablesInOrder
    <3>2. ASSUME NEW t \in Tables PROVE n.status[t] \notin {"pending", "running"}
      <4>1. n.status[t] = IF t >= m.table /\ m.status[t] = "pending" THEN "cancelled"
                          ELSE m.status[t]
        BY <2>3
      <4>2. t >= m.table => m.status[t] \in Untouched
        BY <1>0, <2>1, <2>3, <3>1, TablesInOrder
      <4> QED BY <2>1, <2>3, <3>1, <4>1, <4>2 DEF Untouched
    <3> QED BY <2>3, <3>2 DEF TablesOf, InHand
  <2>4. CASE /\ m.table # 0 /\ n.at = "next" /\ n.table = NextTable(m.table)
             /\ n.status = m.status /\ m.status[m.table] # "pending"
    <3>0. m.table \in Tables
      BY <1>0, <2>4
    <3>1. n.table \in Tables \cup {0}
      BY <2>4, <3>0, TablesInOrder
    <3>2. \A t \in Tables :
            /\ n.table = 0 \/ t < n.table => t < m.table \/ t = m.table
            /\ n.table # 0 /\ (t = n.table \/ t > n.table) => t > m.table
      BY <2>4, <3>0, TablesInOrder
    <3> QED BY <1>0, <2>1, <2>4, <3>1, <3>2 DEF TablesOf, Untouched, InHand
  <2>5. CASE m.table # 0 /\ n.at = "claim" /\ Unread(m, n)
    BY <1>0, <2>1, <2>5 DEF Unread, TablesOf, InHand
  <2> QED BY <1>2, <2>2, <2>3, <2>4, <2>5 DEF GoesToNext
<1>3. CASE Claims(m, n)
  BY <1>0, <1>3 DEF Claims, TablesOf, InHand
<1>4. ASSUME m.at \in InHand, n.at \in InHand, n.table = m.table, n.status = m.status,
             n.at \notin {"columns", "truncate"} \/ n.rows[m.table] = 0,
             \A t \in Tables : t # m.table => n.rows[t] = m.rows[t]
      PROVE  TablesOf(n)
  <2>1. \A t \in Nat : t > m.table => t # m.table
    BY <1>0
  <2> QED BY <1>0, <1>4, <2>1 DEF TablesOf, InHand
<1>5. CASE Prepares(m, n)
  <2>1. m.at \in InHand /\ (m.at \in {"columns", "truncate"} => m.rows[m.table] = 0)
    BY <1>5 DEF Prepares, InHand, TablesOf
  <2> QED BY <1>0, <1>4, <1>5, <2>1 DEF Prepares, Unread, CountedUpto, InHand
<1>6. CASE Writes(m, n)
  BY <1>0, <1>4, <1>6 DEF Writes, Unread, CountedUpto, InHand
<1>7. CASE Resets(m, n)
  BY <1>0, <1>4, <1>7 DEF Resets, CountedUpto, InHand
<1>8. CASE Judges(m, n)
  <2>1. PICK v \in {"done", "cancelled", "failed"} :
          n.status = [m.status EXCEPT ![m.table] = v]
    BY <1>8 DEF Judges
  <2>2. m.table # 0 /\ m.table \in Tables
    BY <1>0, <1>8 DEF Judges, TablesOf, InHand
  <2>3. n.table \in Tables \cup {0}
    BY <1>8, <2>2, TablesInOrder DEF Judges
  <2>4. \A t \in Tables :
          /\ n.table = 0 \/ t < n.table => t < m.table \/ t = m.table
          /\ n.table # 0 /\ (t = n.table \/ t > n.table) => t > m.table /\ t # m.table
          /\ t < m.table => t # m.table
    BY <1>8, <2>2, TablesInOrder DEF Judges
  <2>5. /\ n.at = "next" /\ n.rows = m.rows
        /\ \A t \in Tables :
             /\ t < m.table => m.status[t] \notin {"pending", "running"}
             /\ t > m.table => m.status[t] \in Untouched /\ m.rows[t] = 0
    BY <1>8, <2>2 DEF Judges, TablesOf, InHand
  <2> QED BY <1>0, <2>1, <2>2, <2>3, <2>4, <2>5 DEF TablesOf, Untouched, InHand
<1> QED BY <1>1, <1>2, <1>3, <1>5, <1>6, <1>7, <1>8 DEF Copies

\* A mark, and the cancellation of a table, do so too.
LEMMA MarksKeepTables ==
  ASSUME NEW m \in Run, NEW n, TablesOf(m), Marks(m, n)
  PROVE  TablesOf(n)
<1>1. /\ n \in Run /\ n.at = m.at /\ n.table = m.table /\ n.rows = m.rows
      /\ \A t \in Tables : n.status[t] = m.status[t]
                           \/ (m.status[t] = "pending" /\ n.status[t] = "cancelled")
  BY MarksFit
<1>2. m.table \in Tables \cup {0}
  BY DEF Run
<1> QED BY <1>1, <1>2 DEF TablesOf, Untouched, InHand

LEMMA TablesNext ==
  ASSUME CentreOK, LabelsOK, MigTypeOK, GeoTypeOK, TablesOK, Sorted
  PROVE  TablesOK'
<1>0. /\ seq \in Nat /\ mig \in [Ids -> Run]
      /\ \A i \in Ids : i \in Migrations <=> task[i].label = "migrate"
      /\ \A i \in Ids : i \in Migrations' <=> task'[i].label = "migrate"
      /\ Migrations \subseteq Ids /\ Migrations' \subseteq Ids
  BY DEF CentreOK, TypeOK, MigTypeOK, Migrations
<1>1. ASSUME mig' = mig, \A i \in Ids : task'[i].label = task[i].label PROVE TablesOK'
  BY <1>0, <1>1 DEF TablesOK
<1>2. ASSUME NEW i \in Ids, BodyStep(i), GoesOn(i), UNCHANGED <<vars, geoVars>>
      PROVE  TablesOK'
  <2>1. /\ mig[i] \in Run /\ mig'[i] \in Run /\ \A j \in Ids : j # i => mig'[j] = mig[j]
        /\ task' = task
    BY <1>0, <1>2 DEF GoesOn, Fits, vars
  <2>2. i \in Migrations => mig[i].at # "ddl"
    BY <1>0 DEF LabelsOK
  <2>3. i \in Migrations => TablesOf(mig'[i])
    BY <1>2, <2>1, <2>2, BodyCopies, CopyKeepsTables DEF TablesOK
  <2> QED BY <1>0, <2>1, <2>3 DEF TablesOK
<1>3. CASE UNCHANGED <<vars, migVars>>
  BY <1>1, <1>3 DEF vars, migVars
<1>4. CASE AdminStep /\ UNCHANGED <<vars, geoVars>>
  <2>1. \A j \in Migrations : TablesOf(mig'[j])
    BY <1>0, <1>4, AdminMarks, MarksKeepTables DEF TablesOK
  <2> QED BY <1>0, <1>4, <2>1 DEF TablesOK, vars
<1>5. ASSUME NEW i \in Ids, NEW l \in Creators, Joins(i, l),
             \A j \in Ids : j # i => mig'[j] = mig[j],
             l = "migrate" => TablesOf(mig'[i])
      PROVE  TablesOK'
  <2>1. ASSUME NEW j \in Migrations' PROVE TablesOf(mig'[j])
    BY <1>0, <1>5, <2>1 DEF Joins, TablesOK
  <2> QED BY <2>1 DEF TablesOK
<1>6. ASSUME NEW i \in Ids, SubmitMigration(i), UNCHANGED geoVars PROVE TablesOK'
  <2>1. Joins(i, "migrate")
    BY <1>6, SubmitJoins, JobsAssumption DEF SubmitMigration, Modelled
  <2>2. TablesOf(mig'[i])
    BY <1>6, MigrationStarts DEF TablesOf, Untouched, InHand
  <2>3. "migrate" \in Creators /\ \A j \in Ids : j # i => mig'[j] = mig[j]
    BY <1>6, MigrationStarts, JobsAssumption DEF Modelled
  <2> QED BY <1>5, <2>1, <2>2, <2>3
<1>7. ASSUME NEW i \in Ids, SubmitAlignment(i), UNCHANGED geoVars PROVE TablesOK'
  <2>1. Joins(i, "schema_apply")
    BY <1>7, SubmitJoins, JobsAssumption DEF SubmitAlignment, Modelled
  <2>2. "schema_apply" \in Creators /\ \A j \in Ids : j # i => mig'[j] = mig[j]
    BY <1>7, AlignmentStarts, JobsAssumption DEF Modelled
  <2> QED BY <1>5, <2>1, <2>2
<1>8. ASSUME NEW i \in Ids, SubmitSync(i), UNCHANGED migVars PROVE TablesOK'
  <2>1. Joins(i, "geoip_sync")
    BY <1>8, SubmitJoins, JobsAssumption DEF SubmitSync, Modelled
  <2>2. "geoip_sync" \in Creators /\ mig' = mig
    BY <1>8, JobsAssumption DEF Modelled, migVars
  <2> QED BY <1>5, <2>1, <2>2
<1>9. ASSUME NEW i \in Ids, Other(i) PROVE TablesOK'
  <2>1. PICK l \in Creators \ Modelled : Joins(i, l)
    BY <1>9, SubmitJoins DEF Other
  <2> QED BY <1>5, <1>9, <2>1 DEF Other, Modelled
<1> QED BY <1>1, <1>2, <1>3, <1>4, <1>6, <1>7, <1>8, <1>9 DEF Sorted, Elsewhere, Quietly

(***************************************************************************)
(* What a batch makes of a table of the target: after rows 1 to k come the *)
(* rows up to n.                                                           *)
(***************************************************************************)
LEMMA GainsAre ==
  ASSUME target \in Stock, NEW m \in Run, m.table \in Tables, NEW n \in Nat,
         target' = Gains(m, n)
  PROVE  /\ Taken(target, m.table, m.rows[m.table]) => Taken(target', m.table, n)
         /\ \A p : Cleared(p, target, m.table) => Cleared(p, target', m.table)
         /\ \A u \in Tables : u # m.table => target'[u] = target[u]
<1> DEFINE R == [copied : SUBSET Nat, held : SUBSET Nat, others : BOOLEAN]
           t == m.table
           k == m.rows[t]
           more == target[t].copied \cup ((k + 1 .. n) \ target[t].held)
<1>1. target \in [Tables -> R] /\ target[t] \in R /\ k \in Nat
  BY DEF Stock, Run
<1>2. target' = [target EXCEPT ![t] = [target[t] EXCEPT !.copied = more]]
  BY DEF Gains, Inserted
<1>3. 1 .. n \subseteq (1 .. k) \cup (k + 1 .. n)
  BY <1>1
<1>4. target[t].copied \subseteq more /\ (k + 1 .. n) \subseteq more \cup target[t].held
  OBVIOUS
<1> HIDE DEF more
<1>5. /\ target'[t] = [target[t] EXCEPT !.copied = more]
      /\ \A u \in Tables : u # t => target'[u] = target[u]
  BY <1>1, <1>2 DEF R
<1>6. /\ target'[t].copied = more /\ target'[t].held = target[t].held
      /\ target'[t].others = target[t].others
  BY <1>1, <1>5 DEF R
<1>7. Taken(target, t, k) => Taken(target', t, n)
  BY <1>3, <1>4, <1>6 DEF Taken
<1>8. \A p : Cleared(p, target, t) => Cleared(p, target', t)
  BY <1>6 DEF Cleared
<1> QED BY <1>5, <1>7, <1>8

LEMMA EndIs ==
  ASSUME NEW m \in Run, m.table \in Tables
  PROVE  EndOf(m) \in Nat
<1>1. m.rows[m.table] \in Nat /\ Batch \in Nat /\ RowsOf[m.table] \in Nat
  BY MigrationAssumption DEF Run
<1>2. m.rows[m.table] + Batch \in Nat
  BY <1>1
<1> QED BY <1>1, <1>2, OfTwo DEF EndOf

(***************************************************************************)
(* A step of the copy keeps its account of the target true: only the table *)
(* in hand is written, and that one is not reported yet (migrateTable).    *)
(***************************************************************************)
LEMMA CopyKeepsTarget ==
  ASSUME NEW m \in Run, NEW n \in Run, TablesOf(m), Copies(m, n), n.mode = m.mode,
         target \in Stock, target' \in Stock, Accords(m, target)
  PROVE  Accords(n, target')
<1> DEFINE t == m.table
<1>0. /\ m.status \in [Tables -> {"pending", "running", "done", "failed", "cancelled"}]
      /\ n.status \in [Tables -> {"pending", "running", "done", "failed", "cancelled"}]
      /\ m.rows \in [Tables -> Nat] /\ n.rows \in [Tables -> Nat]
      /\ m.table \in Tables \cup {0} /\ n.table \in Tables \cup {0}
      /\ \A u \in Tables : RowsOf[u] \in Nat
  BY MigrationAssumption DEF Run
<1>a. ASSUME target' = target, n.at \notin {"batch", "reset", "verdict"}, n.rows = m.rows,
             \A u \in Tables : n.status[u] = "done" => m.status[u] = "done"
      PROVE  Accords(n, target')
  BY <1>a DEF Accords, Whole, Cleared
<1>1. CASE Opens(m, n)
  BY <1>a, <1>1 DEF Opens
<1>2. CASE GoesToNext(m, n)
  <2>1. \A u \in Tables : n.status[u] = "done" => m.status[u] = "done"
    BY <1>0, <1>2 DEF GoesToNext, Unread
  <2> QED BY <1>a, <1>2, <2>1 DEF GoesToNext
<1>3. CASE Claims(m, n)
  <2>1. \A u \in Tables : n.status[u] = "done" => m.status[u] = "done"
    BY <1>0, <1>3 DEF Claims
  <2> QED BY <1>a, <1>3, <2>1 DEF Claims
<1>b. m.at \in InHand => t \in Tables /\ m.status[t] = "running"
  BY <1>0 DEF TablesOf
<1>c. ASSUME m.at \in InHand, n.table = t, n.status = m.status,
             \A u \in Tables : u # t => n.rows[u] = m.rows[u] /\ target'[u] = target[u],
             n.at = "batch" => Taken(target', t, n.rows[t]) /\ Cleared(n, target', t),
             n.at = "reset" \/ (n.at = "verdict" /\ ~n.err) => Whole(n, target', t)
      PROVE  Accords(n, target')
  <2>1. ASSUME NEW u \in Tables, n.status[u] = "done" PROVE Whole(n, target', u)
    BY <1>b, <1>c, <2>1 DEF Accords, Whole, Taken, Cleared
  <2> QED BY <1>c, <2>1 DEF Accords
<1>4. CASE Prepares(m, n)
  <2>1. m.at \in InHand /\ m.rows[t] = 0 /\ t \in Tables
    BY <1>4, <1>b DEF Prepares, InHand, TablesOf
  <2>2. Taken(target, t, 0) /\ Taken(target', t, 0)
    BY DEF Taken
  <2>3. CASE m.at = "columns" /\ n.at = "truncate" /\ Unread(m, n) /\ target' = target
    BY <1>c, <2>1, <2>2, <2>3 DEF Unread
  <2>4. CASE /\ m.at = "columns" /\ n.at = "batch" /\ Unread(m, n) /\ target' = target
             /\ m.mode # "replace"
    BY <1>c, <2>1, <2>2, <2>4 DEF Unread, Cleared
  <2>5. CASE /\ m.at = "truncate" /\ n.at = "batch" /\ Unread(m, n)
             /\ target' = [target EXCEPT ![t] = Emptied]
    <3>1. /\ target'[t].held = {} /\ ~target'[t].others
          /\ \A u \in Tables : u # t => target'[u] = target[u]
      BY <2>1, <2>5 DEF Stock, Emptied
    <3> QED BY <1>c, <2>1, <2>2, <2>5, <3>1 DEF Unread, Cleared
  <2>6. CASE n.at = "verdict" /\ n.err /\ CountedUpto(m, n, 0) /\ target' = target
    BY <1>0, <1>c, <2>1, <2>2, <2>6 DEF CountedUpto
  <2> QED BY <1>4, <2>3, <2>4, <2>5, <2>6 DEF Prepares
<1>5. CASE Writes(m, n)
  <2>1. m.at = "batch" /\ m.at \in InHand /\ t \in Tables
    BY <1>5, <1>b DEF Writes, InHand
  <2>2. /\ Taken(target, t, m.rows[t]) /\ Cleared(m, target, t) /\ m.rows[t] \in Nat
        /\ \A stock : Cleared(m, stock, t) => Cleared(n, stock, t)
    BY <1>0, <2>1 DEF Accords, Cleared
  <2>3. EndOf(m) \in Nat
    BY <2>1, EndIs
  <2>4. CASE /\ n.at = "reset" /\ Unread(m, n) /\ target' = target
             /\ m.rows[t] = RowsOf[t]
    BY <1>c, <2>1, <2>2, <2>4 DEF Unread, Whole
  <2>5. ASSUME NEW k \in Nat, CountedUpto(m, n, k), target' = Gains(m, k),
               n.at = "batch" \/ (n.at = "verdict" /\ n.err)
        PROVE  Accords(n, target')
    <3>1. /\ Taken(target', t, k) /\ Cleared(n, target', t)
          /\ \A u \in Tables : u # t => target'[u] = target[u]
      BY <2>1, <2>2, <2>5, GainsAre
    <3>2. n.rows[t] = k /\ \A u \in Tables : u # t => n.rows[u] = m.rows[u]
      BY <1>0, <2>1, <2>5 DEF CountedUpto
    <3> QED BY <1>c, <2>1, <2>5, <3>1, <3>2 DEF CountedUpto
  <2>6. CASE /\ n.at = "verdict" /\ n.err /\ CountedUpto(m, n, m.rows[t])
             /\ target' \in {target, Gains(m, EndOf(m))}
    <3>1. \A u \in Tables : u # t => target'[u] = target[u]
      BY <2>1, <2>3, <2>6, GainsAre
    <3>2. \A u \in Tables : u # t => n.rows[u] = m.rows[u]
      BY <1>0, <2>1, <2>6 DEF CountedUpto
    <3> QED BY <1>c, <2>1, <2>6, <3>1, <3>2 DEF CountedUpto
  <2>7. ASSUME NEW k \in m.rows[t] .. EndOf(m) PROVE k \in Nat
    BY <2>2, <2>3, <2>7
  <2> QED BY <1>5, <2>3, <2>4, <2>5, <2>6, <2>7 DEF Writes
<1>6. CASE Resets(m, n)
  <2>1. m.at \in InHand /\ m.at = "reset" /\ t \in Tables /\ Whole(m, target, t)
    BY <1>6, <1>b DEF Resets, InHand, Accords
  <2>2. \A u \in Tables : n.rows[u] = m.rows[u]
    BY <1>0, <1>6, <2>1 DEF Resets, CountedUpto
  <2>3. Whole(n, target, t)
    BY <1>6, <2>1, <2>2 DEF Whole, Cleared, Resets
  <2> QED BY <1>c, <1>6, <2>1, <2>2, <2>3 DEF Resets, CountedUpto
<1>7. CASE Judges(m, n)
  <2>1. m.at = "verdict" /\ t \in Tables /\ m.status[t] = "running"
    BY <1>7, <1>b DEF Judges, InHand
  <2>2. PICK v \in {"done", "cancelled", "failed"} :
          n.status = [m.status EXCEPT ![t] = v] /\ (v = "done" => ~m.err)
    BY <1>7 DEF Judges
  <2>3. ASSUME NEW u \in Tables, n.status[u] = "done" PROVE Whole(m, target, u)
    <3>1. CASE u = t
      BY <1>0, <2>1, <2>2, <2>3, <3>1 DEF Accords
    <3>2. CASE u # t
      BY <1>0, <2>1, <2>2, <2>3, <3>2 DEF Accords
    <3> QED BY <3>1, <3>2
  <2> QED BY <1>7, <2>3 DEF Judges, Accords, Whole, Cleared
<1> QED BY <1>1, <1>2, <1>3, <1>4, <1>5, <1>6, <1>7 DEF Copies

\* So do a mark, and the cancellation of a table.
LEMMA MarksKeepTarget ==
  ASSUME NEW m \in Run, NEW n, Marks(m, n), NEW stock, Accords(m, stock)
  PROVE  Accords(n, stock)
<1>1. /\ n.at = m.at /\ n.table = m.table /\ n.mode = m.mode /\ n.rows = m.rows
      /\ n.err = m.err
      /\ \A t \in Tables : n.status[t] = m.status[t]
                           \/ (m.status[t] = "pending" /\ n.status[t] = "cancelled")
  BY MarksFit
<1> QED BY <1>1 DEF Accords, Whole, Cleared

\* The migration whose body runs is the last, and no other is at work.
LEMMA RunningIsLast ==
  ASSUME CentreOK, LabelsOK, Sequential, NEW i \in Migrations, pc[i] = "body"
  PROVE  LastOf(i) /\ \A j \in Migrations : j # i => ~LastOf(j)
<1>1. /\ seq \in Nat /\ Ids \subseteq Nat \ {0}
      /\ \A j \in Migrations : j \in Ids /\ task[j].label = "migrate"
  BY TaskCenterAssumption DEF CentreOK, TypeOK, Ids, Migrations
<1>2. \A j \in Migrations : j \in 1 .. seq
  <2>1. \A j \in Migrations : ~(j > seq)
    BY <1>1, JobsAssumption, TaskCenterAssumption DEF LabelsOK, Modelled
  <2>2. \A j \in Migrations : j \in Nat /\ j # 0
    BY <1>1
  <2> SUFFICES ASSUME NEW j \in Migrations PROVE j \in 1 .. seq
    OBVIOUS
  <2>3. ~(j > seq) /\ j \in Nat /\ j # 0
    BY <2>1, <2>2
  <2> QED BY <1>1, <2>3
<1>3. \A j \in Migrations : ~(i < j)
  BY <1>1, <1>2 DEF Sequential
<1>4. \A j \in Migrations : i \in Nat /\ j \in Nat
  BY <1>1
<1>5. \A j \in Migrations : j <= i /\ (j # i => ~(i <= j))
  BY <1>3, <1>4
<1> QED BY <1>5 DEF LastOf

LEMMA TargetNext ==
  ASSUME CentreOK, LabelsOK, Sequential, MigTypeOK, GeoTypeOK, TablesOK, TargetOK, Sorted
  PROVE  TargetOK'
<1>0. /\ seq \in Nat /\ mig \in [Ids -> Run] /\ target \in Stock
      /\ \A i \in Ids : i \in Migrations <=> task[i].label = "migrate"
      /\ \A i \in Ids : i \in Migrations' <=> task'[i].label = "migrate"
      /\ Migrations \subseteq Ids /\ Migrations' \subseteq Ids
  BY DEF CentreOK, TypeOK, MigTypeOK, Migrations, Stock
<1>a. ASSUME Migrations' = Migrations, target' = target,
             \A i \in Migrations : Marks(mig[i], mig'[i])
      PROVE  TargetOK'
  <2>1. \A i \in Migrations : LastOf(i)' => LastOf(i)
    BY <1>a DEF LastOf
  <2>2. \A i \in Migrations : Accords(mig[i], target) => Accords(mig'[i], target)
    BY <1>0, <1>a, MarksKeepTarget
  <2> QED BY <1>a, <2>1, <2>2 DEF TargetOK
<1>b. ASSUME \A i \in Ids : task'[i].label = task[i].label PROVE Migrations' = Migrations
  BY <1>0, <1>b
<1>1. ASSUME \A i \in Ids : task'[i].label = task[i].label, mig' = mig, target' = target
      PROVE  TargetOK'
  BY <1>1, <1>a, <1>b DEF Marks
<1>2. ASSUME NEW i \in Ids, BodyStep(i), GoesOn(i), UNCHANGED <<vars, geoVars>>
      PROVE  TargetOK'
  <2>1. /\ mig[i] \in Run /\ mig'[i] \in Run /\ \A j \in Ids : j # i => mig'[j] = mig[j]
        /\ mig'[i].mode = mig[i].mode /\ target' \in Stock
        /\ pc[i] = "body" /\ mig[i].at \in Copying \cup {"ddl"}
        /\ \A j \in Ids : task'[j].label = task[j].label
    BY <1>0, <1>2 DEF GoesOn, Fits, vars, MigTypeOK, Stock
  <2>2. Migrations' = Migrations
    BY <1>b, <2>1
  <2>3. CASE i \in Migrations
    <3>1. LastOf(i) /\ \A j \in Migrations : j # i => ~LastOf(j)
      BY <2>1, <2>3, RunningIsLast
    <3>2. mig[i].at # "ddl" /\ TablesOf(mig[i])
      BY <1>0, <2>3 DEF LabelsOK, TablesOK
    <3>3. Copies(mig[i], mig'[i])
      BY <1>2, <3>2, BodyCopies
    <3>4. Accords(mig[i], target)
      BY <2>3, <3>1 DEF TargetOK
    <3>5. Accords(mig'[i], target')
      BY <1>0, <2>1, <3>2, <3>3, <3>4, CopyKeepsTarget
    <3>6. \A j \in Migrations : LastOf(j)' => j = i
      BY <2>2, <3>1 DEF LastOf
    <3> QED BY <2>2, <3>5, <3>6 DEF TargetOK
  <2>4. CASE i \notin Migrations
    <3>1. mig[i].at = "ddl"
      BY <1>0, <2>1, <2>4 DEF LabelsOK
    <3>2. target' = target
      BY <1>2, <3>1, BodyCopies DEF Copies, Opens, GoesToNext, Claims, Prepares, Writes, Resets,
         Judges
    <3> QED BY <1>0, <1>a, <2>1, <2>2, <2>4, <3>2 DEF Marks
  <2> QED BY <2>3, <2>4
<1>3. CASE UNCHANGED <<vars, migVars>>
  BY <1>1, <1>3 DEF vars, migVars
<1>4. CASE AdminStep /\ UNCHANGED <<vars, geoVars>>
  <2>1. Migrations' = Migrations
    BY <1>b, <1>4 DEF vars
  <2> QED BY <1>0, <1>4, <1>a, <2>1, AdminMarks
<1>5. ASSUME NEW i \in Ids, NEW l \in Creators, Joins(i, l), l # "migrate",
             \A j \in Ids : j # i => mig'[j] = mig[j], target' = target
      PROVE  TargetOK'
  <2>1. task[i].label # "migrate"
    <3>1. i > seq
      BY <1>0, <1>5 DEF Joins
    <3> QED BY <3>1, JobsAssumption, TaskCenterAssumption DEF LabelsOK, Modelled
  <2>2. Migrations' = Migrations /\ i \notin Migrations
    BY <1>0, <1>5, <2>1 DEF Joins
  <2> QED BY <1>0, <1>5, <1>a, <2>2 DEF Marks
<1>6. ASSUME NEW i \in Ids, SubmitMigration(i), UNCHANGED geoVars PROVE TargetOK'
  <2>1. Joins(i, "migrate")
    BY <1>6, SubmitJoins, JobsAssumption DEF SubmitMigration, Modelled
  <2>2. /\ target' = target /\ Accords(mig'[i], target')
    BY <1>6, MigrationStarts DEF Accords
  <2>3. \A j \in Migrations' : j # i => ~LastOf(j)'
    <3>1. i \in Migrations'
      BY <1>0, <2>1 DEF Joins
    <3>2. ASSUME NEW j \in Migrations', j # i PROVE ~(i <= j)
      <4>1. task[j].label = "migrate" /\ j \in Ids
        BY <1>0, <2>1, <3>2 DEF Joins
      <4>2. ~(j > seq)
        BY <4>1, JobsAssumption, TaskCenterAssumption DEF LabelsOK, Modelled
      <4>3. j \in Nat
        BY <4>1 DEF Ids
      <4> QED BY <1>0, <2>1, <4>2, <4>3 DEF Joins
    <3> QED BY <3>1, <3>2 DEF LastOf
  <2> QED BY <2>2, <2>3 DEF TargetOK
<1>7. ASSUME NEW i \in Ids, SubmitAlignment(i), UNCHANGED geoVars PROVE TargetOK'
  <2>1. Joins(i, "schema_apply")
    BY <1>7, SubmitJoins, JobsAssumption DEF SubmitAlignment, Modelled
  <2>2. /\ "schema_apply" \in Creators /\ \A j \in Ids : j # i => mig'[j] = mig[j]
        /\ target' = target
    BY <1>7, AlignmentStarts, JobsAssumption DEF Modelled
  <2> QED BY <1>5, <2>1, <2>2
<1>8. ASSUME NEW i \in Ids, SubmitSync(i), UNCHANGED migVars PROVE TargetOK'
  <2>1. Joins(i, "geoip_sync")
    BY <1>8, SubmitJoins, JobsAssumption DEF SubmitSync, Modelled
  <2>2. "geoip_sync" \in Creators /\ mig' = mig /\ target' = target
    BY <1>8, JobsAssumption DEF Modelled, migVars
  <2> QED BY <1>5, <2>1, <2>2
<1>9. ASSUME NEW i \in Ids, Other(i) PROVE TargetOK'
  <2>1. PICK l \in Creators \ Modelled : Joins(i, l)
    BY <1>9, SubmitJoins DEF Other
  <2> QED BY <1>5, <1>9, <2>1 DEF Other, Modelled
<1> QED BY <1>1, <1>2, <1>3, <1>4, <1>6, <1>7, <1>8, <1>9 DEF Sorted, Elsewhere, Quietly

-----------------------------------------------------------------------------
(* The rounds.                                                             *)

Rows == Seq(Addresses \cup {Gone})

\* The list only grows, and rows only come or go: what is written stays so.
LEMMA WrittenStays ==
  ASSUME NEW old \in Rows, NEW new \in Rows, Older(old, new),
         NEW list, NEW more, list \subseteq more, NEW n \in Nat, Written(old, n, list)
  PROVE  Written(new, n, more)
<1>1. /\ Len(old) \in Nat /\ Len(new) \in Nat /\ Gone \notin Located
      /\ Len(new) >= Len(old) /\ n <= Len(old)
  BY GeoipAssumption DEF Rows, Older, Written, Gone
<1>2. n <= Len(new)
  BY <1>1
<1>3. ASSUME NEW k \in 1 .. n, new[k] \in Located PROVE new[k] \in more
  <2>1. k \in 1 .. Len(old)
    BY <1>1
  <2>2. new[k] = old[k]
    BY <1>1, <1>3, <2>1 DEF Older
  <2> QED BY <1>3, <2>2 DEF Written
<1> QED BY <1>2, <1>3 DEF Written

(***************************************************************************)
(* What a block leaves out below its end is gone or no longer there: the   *)
(* block is an initial part of the rest.                                   *)
(***************************************************************************)
LEMMA BlockIsInitial ==
  ASSUME GeoTypeOK, NEW t \in Logs, NEW n \in Nat,
         NEW k \in 1 .. Len(logRows[t]), NEW b \in Block(t, n),
         k > n, k <= b, logRows[t][k] # Gone
  PROVE  k \in Block(t, n)
<1> DEFINE rest == {j \in DOMAIN logRows[t] : j > n /\ logRows[t][j] # Gone}
           Before(j) == {l \in rest : l < j}
<1>1. logRows[t] \in Seq(Addresses \cup {Gone}) /\ Len(logRows[t]) \in Nat
  BY DEF GeoTypeOK
<1>2. /\ DOMAIN logRows[t] = 1 .. Len(logRows[t])
      /\ rest \subseteq 1 .. Len(logRows[t]) /\ IsFiniteSet(rest)
  <2>1. DOMAIN logRows[t] = 1 .. Len(logRows[t])
    BY <1>1
  <2>2. rest \subseteq 1 .. Len(logRows[t])
    BY <2>1
  <2> HIDE DEF rest
  <2>3. IsFiniteSet(1 .. Len(logRows[t]))
    <3>1. \A l \in Nat : IsFiniteSet(1 .. l)
      BY FS_Interval
    <3> QED BY <1>1, <3>1
  <2> QED BY <2>1, <2>2, <2>3, FS_Subset
<1>3. k \in rest
  BY <1>2
<1>4. b \in rest /\ Cardinality(Before(b)) < ScanChunk
  BY DEF Block
<1>5. k \in Nat /\ b \in Nat /\ \A j \in rest : j \in Nat
  BY <1>2, <1>3, <1>4
<1>6. Before(k) \subseteq Before(b)
  BY <1>5
<1>7. IsFiniteSet(Before(b)) /\ IsFiniteSet(Before(k))
  BY <1>2, FS_Subset
<1>8. /\ Cardinality(Before(k)) <= Cardinality(Before(b))
      /\ Cardinality(Before(k)) \in Nat /\ Cardinality(Before(b)) \in Nat
  BY <1>6, <1>7, FS_Subset, FS_CardinalityType
<1>9. Cardinality(Before(k)) < ScanChunk
  BY <1>4, <1>8, GeoipAssumption
<1> QED BY <1>3, <1>9 DEF Block

(***************************************************************************)
(* An address of a block is in the list, or the first row that has it is   *)
(* missing.                                                                *)
(***************************************************************************)
LEMMA FirstIsMissing ==
  ASSUME NEW t, NEW b \in SUBSET Nat, NEW k \in b, logRows[t][k] \notin geoList
  PROVE  \E j \in Missing(t, b) : logRows[t][j] = logRows[t][k]
<1> DEFINE same == {j \in b : logRows[t][j] = logRows[t][k]}
<1>1. same \in SUBSET Nat /\ k \in same
  OBVIOUS
<1>2. PICK j \in same : \A l \in same : j <= l
  BY <1>1, LeastOf
<1>3. j \in Nat /\ \A l \in b : l \in Nat /\ (l < j => logRows[t][l] # logRows[t][k])
  BY <1>1, <1>2
<1>4. j \in Missing(t, b)
  BY <1>2, <1>3 DEF Missing
<1> QED BY <1>2, <1>4

\* Whatever does not touch the round leaves it in order.
LEMMA RoundStays ==
  ASSUME NEW old \in [Logs -> Rows], NEW new \in [Logs -> Rows],
         \A t \in Logs : Older(old[t], new[t]),
         NEW list, NEW more, list \subseteq more, NEW s \in Round, RoundOf(s, old, list)
  PROVE  RoundOf(s, new, more)
<1>1. CASE s.at \notin {"block", "upsert", "close"}
  BY <1>1 DEF RoundOf
<1>2. CASE s.at \in {"block", "upsert", "close"}
  <2> DEFINE o == old[s.log]
             w == new[s.log]
  <2>1. /\ s.log \in Logs /\ s.from \in Nat /\ s.cursor \in Nat /\ s.upto \in Nat
        /\ Written(o, s.from, list) /\ Written(o, s.cursor, list)
    BY <1>2 DEF Round, RoundOf
  <2>2. o \in Rows /\ w \in Rows /\ Older(o, w)
    BY <2>1
  <2>3. Written(w, s.from, more) /\ Written(w, s.cursor, more)
    BY <2>1, <2>2, WrittenStays
  <2>4. s.at = "upsert" => Pending(s, o, list)
    BY DEF RoundOf
  <2> HIDE DEF o, w
  <2>5. ASSUME Pending(s, o, list) PROVE Pending(s, w, more)
    <3>1. /\ Len(o) \in Nat /\ Len(w) \in Nat /\ Gone \notin Located
          /\ Len(w) >= Len(o) /\ s.upto <= Len(o) /\ s.cursor <= s.upto
          /\ \A k \in 1 .. Len(o) : w[k] = o[k] \/ w[k] = Gone
      BY <2>2, <2>5, GeoipAssumption DEF Rows, Older, Pending, Gone
    <3>2. s.upto <= Len(w) /\ \A k \in s.cursor + 1 .. s.upto : k \in 1 .. Len(o)
      BY <2>1, <3>1
    <3>3. ASSUME NEW k \in s.cursor + 1 .. s.upto, w[k] \in Located
          PROVE  w[k] \in more \/ \E j \in DOMAIN s.found : s.found[j] = w[k]
      <4>1. w[k] = o[k]
        BY <3>1, <3>2, <3>3
      <4> QED BY <2>5, <3>3, <4>1 DEF Pending
    <3> QED BY <3>1, <3>2, <3>3 DEF Pending
  <2> QED BY <2>1, <2>3, <2>4, <2>5 DEF RoundOf, o, w
<1> QED BY <1>1, <1>2

LEMMA SyncKeepsScan ==
  ASSUME GeoTypeOK, ScanOK, NEW i \in Ids, SyncStep(i), SyncGoesOn(i)
  PROVE  ScanOK'
<1> DEFINE s == sync[i]
           rows == logRows[s.log]
<1>0. /\ s \in Round /\ logRows \in [Logs -> Rows] /\ cursors \in [Logs -> Nat]
      /\ sync \in [Ids -> Round] /\ logRows' = logRows
      /\ \A j \in Ids : j # i => sync'[j] = sync[j]
      /\ RoundOf(s, logRows, geoList)
      /\ \A t \in Logs : Written(logRows[t], cursors[t], geoList)
  BY DEF GeoTypeOK, Rows, SyncGoesOn, ScanOK
<1>b. /\ s.at \in {"table", "block", "upsert", "close"} =>
           /\ s.log \in Logs /\ s.log # 0 /\ rows \in Rows /\ Len(rows) \in Nat
           /\ s.cursor \in Nat /\ s.upto \in Nat /\ s.from \in Nat
      /\ s.at \in {"block", "upsert", "close"} =>
           Written(rows, s.from, geoList) /\ Written(rows, s.cursor, geoList)
      /\ s.at = "upsert" => Pending(s, rows, geoList)
  <2>1. s.at \in {"table", "block", "upsert", "close"} => s.log \in Logs
    BY <1>0 DEF RoundOf, Round
  <2> QED BY <1>0, <2>1 DEF RoundOf, Round, Rows
<1>a. ASSUME geoList \subseteq geoList', RoundOf(sync'[i], logRows, geoList'),
             \A t \in Logs : Written(logRows[t], cursors'[t], geoList')
      PROVE  ScanOK'
  <2>1. \A t \in Logs : Older(logRows[t], logRows[t])
    BY <1>0 DEF Older, Rows
  <2>2. \A j \in Ids : RoundOf(sync[j], logRows, geoList) => RoundOf(sync[j], logRows, geoList')
    BY <1>0, <1>a, <2>1, RoundStays
  <2>3. \A j \in Ids : RoundOf(sync'[j], logRows, geoList')
    BY <1>0, <1>a, <2>2 DEF ScanOK
  <2> QED BY <1>0, <1>a, <2>3 DEF ScanOK
<1>1. CASE LoadCursor(i)
  <2> DEFINE from == cursors[s.log]
             n == [s EXCEPT !.at = "block", !.from = from, !.cursor = from, !.ips = 0,
                            !.scanned = 0, !.exhausted = FALSE]
  <2>1. s.at = "table" /\ sync' = [sync EXCEPT ![i] = n] /\ geoList' = geoList /\ cursors' = cursors
    BY <1>1 DEF LoadCursor, At
  <2>2. n.at = "block" /\ n.log = s.log /\ n.from = from /\ n.cursor = from
    BY <1>0 DEF Round
  <2> HIDE DEF n
  <2>3. sync'[i] = n
    BY <1>0, <2>1
  <2>4. RoundOf(n, logRows, geoList)
    BY <1>0, <1>b, <2>1, <2>2 DEF RoundOf
  <2> QED BY <1>0, <1>a, <2>1, <2>3, <2>4
<1>2. CASE StatementFails(i)
  <2> DEFINE n1 == [s EXCEPT !.at = "close", !.interrupted = TRUE]
             n2 == [s EXCEPT !.at = "report", !.failed = TRUE]
  <2>1. /\ s.at \in {"block", "upsert"} /\ geoList' = geoList /\ cursors' = cursors
        /\ sync' = [sync EXCEPT ![i] = n1] \/ sync' = [sync EXCEPT ![i] = n2]
    BY <1>2 DEF StatementFails, At
  <2>2. /\ n1.at = "close" /\ n1.log = s.log /\ n1.from = s.from /\ n1.cursor = s.cursor
        /\ n2.at = "report"
    BY <1>0 DEF Round
  <2> HIDE DEF n1, n2
  <2>3. sync'[i] \in {n1, n2}
    BY <1>0, <2>1
  <2>4. RoundOf(n1, logRows, geoList) /\ RoundOf(n2, logRows, geoList)
    BY <1>b, <2>1, <2>2 DEF RoundOf
  <2> QED BY <1>0, <1>a, <2>1, <2>3, <2>4
<1>3. CASE Scan(i)
  <2> DEFINE b == Block(s.log, s.cursor)
             missing == Missing(s.log, b)
             placed == {k \in missing : rows[k] \in Located}
             found == [k \in placed |-> rows[k]]
             n == [s EXCEPT !.at = "upsert", !.scanned = s.scanned + Cardinality(b),
                            !.ips = s.ips + Cardinality(missing), !.upto = Max(b),
                            !.found = found]
             n1 == [s EXCEPT !.at = "close"]
             n2 == [s EXCEPT !.at = "close", !.exhausted = TRUE]
  <2>1. /\ s.at = "block" /\ geoList' = geoList /\ cursors' = cursors
        /\ \/ sync' = [sync EXCEPT ![i] = n1]
           \/ sync' = [sync EXCEPT ![i] = n2]
           \/ b # {} /\ sync' = [sync EXCEPT ![i] = n]
    BY <1>3 DEF Scan, At
  <2>2. /\ n.at = "upsert" /\ n.log = s.log /\ n.from = s.from /\ n.cursor = s.cursor
        /\ n.upto = Max(b) /\ n.found = found
        /\ n1.at = "close" /\ n1.log = s.log /\ n1.from = s.from /\ n1.cursor = s.cursor
        /\ n2.at = "close" /\ n2.log = s.log /\ n2.from = s.from /\ n2.cursor = s.cursor
    BY <1>0 DEF Round
  <2> HIDE DEF n, n1, n2
  <2>3. sync'[i] \in {n1, n2} \/ (b # {} /\ sync'[i] = n)
    BY <1>0, <2>1
  <2>4. RoundOf(n1, logRows, geoList) /\ RoundOf(n2, logRows, geoList)
    BY <1>b, <2>1, <2>2 DEF RoundOf
  <2>5. ASSUME b # {} PROVE Pending(n, rows, geoList)
    <3>1. /\ b \in SUBSET Nat /\ IsFiniteSet(b)
          /\ \A k \in b : k \in 1 .. Len(rows) /\ k > s.cursor
      BY <1>b, <2>1, BlockIs
    <3> HIDE DEF b
    <3>2. Max(b) \in b /\ Max(b) \in Nat
      BY <2>5, <3>1, MaxOf
    <3>3. s.cursor <= Max(b) /\ Max(b) <= Len(rows)
      BY <1>b, <2>1, <3>1, <3>2
    <3>4. ASSUME NEW k \in s.cursor + 1 .. Max(b), rows[k] \in Located
          PROVE  rows[k] \in geoList \/ \E j \in DOMAIN found : found[j] = rows[k]
      <4>1. k \in 1 .. Len(rows) /\ k > s.cursor /\ k <= Max(b)
        <5>1. s.cursor \in Nat /\ Len(rows) \in Nat /\ Max(b) \in Nat
          BY <1>b, <2>1, <3>2
        <5> HIDE DEF rows, s
        <5> QED BY <3>3, <5>1
      <4>a. rows[k] # Gone
        BY <3>4, GeoipAssumption DEF Gone
      <4>2. k \in b
        BY <1>b, <2>1, <3>2, <4>1, <4>a, BlockIsInitial DEF b
      <4>3. ASSUME rows[k] \notin geoList PROVE \E j \in missing : rows[j] = rows[k]
        BY <3>1, <4>2, <4>3, FirstIsMissing
      <4> HIDE DEF missing
      <4>4. ASSUME NEW j \in missing, rows[j] = rows[k]
            PROVE  j \in DOMAIN found /\ found[j] = rows[k]
        BY <3>4, <4>4
      <4> QED BY <4>3, <4>4
    <3> HIDE DEF found
    <3> QED BY <2>2, <3>3, <3>4 DEF Pending
  <2>6. b # {} => RoundOf(n, logRows, geoList)
    BY <1>b, <2>1, <2>2, <2>5 DEF RoundOf
  <2> HIDE DEF b
  <2> QED BY <1>0, <1>a, <2>1, <2>3, <2>4, <2>6
<1>4. CASE Upsert(i)
  <2> DEFINE k == Min(DOMAIN s.found)
             less == [j \in DOMAIN s.found \ {k} |-> s.found[j]]
             n1 == [s EXCEPT !.at = "block", !.cursor = s.upto]
             n2 == [s EXCEPT !.found = less]
  <2>1. /\ s.at = "upsert" /\ cursors' = cursors
        /\ \/ /\ DOMAIN s.found = {} /\ geoList' = geoList
              /\ sync' = [sync EXCEPT ![i] = n1]
           \/ /\ geoList' = geoList \cup {s.found[k]} /\ sync' = [sync EXCEPT ![i] = n2]
    BY <1>4 DEF Upsert, At
  <2>2. /\ n1.at = "block" /\ n1.log = s.log /\ n1.from = s.from /\ n1.cursor = s.upto
        /\ n2.at = s.at /\ n2.log = s.log /\ n2.from = s.from /\ n2.cursor = s.cursor
        /\ n2.upto = s.upto /\ n2.found = less
    BY <1>0 DEF Round
  <2> HIDE DEF n1, n2
  <2>3. Pending(s, rows, geoList) /\ Written(rows, s.cursor, geoList) /\ Written(rows, s.from, geoList)
    BY <1>b, <2>1
  <2>4. CASE /\ DOMAIN s.found = {} /\ geoList' = geoList /\ sync' = [sync EXCEPT ![i] = n1]
    <3>1. ASSUME NEW j \in 1 .. s.upto, rows[j] \in Located PROVE rows[j] \in geoList
      <4>1. j \in 1 .. s.cursor \/ j \in s.cursor + 1 .. s.upto
        BY <1>b, <2>1
      <4> QED BY <2>3, <2>4, <3>1, <4>1 DEF Pending, Written
    <3>2. Written(rows, s.upto, geoList)
      BY <2>3, <3>1 DEF Pending, Written
    <3>3. RoundOf(n1, logRows, geoList) /\ sync'[i] = n1
      BY <1>0, <1>b, <2>1, <2>2, <2>3, <2>4, <3>2 DEF RoundOf
    <3> QED BY <1>0, <1>a, <2>1, <2>4, <3>3
  <2>5. CASE geoList' = geoList \cup {s.found[k]} /\ sync' = [sync EXCEPT ![i] = n2]
    <3>1. \A t \in Logs, n \in Nat : Written(logRows[t], n, geoList) => Written(logRows[t], n, geoList')
      BY <2>5 DEF Written
    <3>2. ASSUME NEW l \in s.cursor + 1 .. s.upto, rows[l] \in Located
          PROVE  rows[l] \in geoList' \/ \E j \in DOMAIN less : less[j] = rows[l]
      <4>1. rows[l] \in geoList \/ \E j \in DOMAIN s.found : s.found[j] = rows[l]
        BY <2>3, <3>2 DEF Pending
      <4>2. ASSUME NEW j \in DOMAIN s.found, s.found[j] = rows[l], j # k
            PROVE  j \in DOMAIN less /\ less[j] = rows[l]
        BY <4>2
      <4> HIDE DEF k, less
      <4> QED BY <2>5, <4>1, <4>2
    <3> HIDE DEF less
    <3>3. Pending(n2, rows, geoList')
      BY <2>2, <2>3, <3>2 DEF Pending
    <3>4. RoundOf(n2, logRows, geoList') /\ sync'[i] = n2
      BY <1>0, <1>b, <2>1, <2>2, <2>3, <2>5, <3>1, <3>3 DEF RoundOf
    <3>5. \A t \in Logs : Written(logRows[t], cursors[t], geoList')
      BY <1>0, <3>1
    <3> QED BY <1>0, <1>a, <2>1, <2>5, <3>4, <3>5
  <2> QED BY <2>1, <2>4, <2>5
<1>5. CASE CloseTable(i)
  <2> DEFINE rest == {t \in Logs : t > s.log}
             n1 == [s EXCEPT !.at = "report", !.found = NoneFound]
             n2 == [s EXCEPT !.at = "table", !.log = Min(rest), !.found = NoneFound]
  <2>1. /\ s.at = "close" /\ geoList' = geoList
        /\ cursors' = [cursors EXCEPT ![s.log] = NextCursor(s)]
        /\ \/ sync' = [sync EXCEPT ![i] = n1]
           \/ rest # {} /\ sync' = [sync EXCEPT ![i] = n2]
    BY <1>5 DEF CloseTable, At
  <2>2. rest # {} => Min(rest) # 0
    <3>1. rest \in SUBSET Nat /\ 0 \notin rest
      BY GeoipAssumption
    <3> QED BY <3>1, MinOf
  <2>3. n1.at = "report" /\ n2.at = "table" /\ n2.log = Min(rest)
    BY <1>0 DEF Round
  <2> HIDE DEF n1, n2, rest
  <2>4. RoundOf(sync'[i], logRows, geoList)
    BY <1>0, <2>1, <2>2, <2>3 DEF RoundOf
  <2>5. NextCursor(s) \in {s.from, 0, s.cursor}
    BY DEF NextCursor
  <2>6. Written(rows, 0, geoList)
    BY <1>b, <2>1 DEF Written
  <2>7. \A t \in Logs : Written(logRows[t], cursors'[t], geoList)
    BY <1>0, <1>b, <2>1, <2>5, <2>6
  <2> QED BY <1>0, <1>a, <2>1, <2>4, <2>7
<1>6. CASE Report(i) \/ Purge(i)
  <2>1. /\ geoList' = geoList /\ cursors' = cursors
        /\ sync'[i].at \in {"error", "purge", "ok"}
    BY <1>0, <1>6 DEF Report, Purge, Round
  <2>2. RoundOf(sync'[i], logRows, geoList)
    BY <2>1 DEF RoundOf
  <2> QED BY <1>0, <1>a, <2>1, <2>2
<1> QED BY <1>1, <1>2, <1>3, <1>4, <1>5, <1>6 DEF SyncStep

LEMMA ScanNext ==
  ASSUME GeoTypeOK, GeoTypeOK', ScanOK, Sorted
  PROVE  ScanOK'
<1>0. /\ logRows \in [Logs -> Rows] /\ logRows' \in [Logs -> Rows]
      /\ sync \in [Ids -> Round] /\ cursors \in [Logs -> Nat]
  BY DEF GeoTypeOK, Rows
<1>1. ASSUME sync' = sync, geoList' = geoList, cursors' = cursors,
             \A t \in Logs : Older(logRows[t], logRows'[t])
      PROVE  ScanOK'
  <2>1. \A i \in Ids : RoundOf(sync[i], logRows, geoList) => RoundOf(sync[i], logRows', geoList)
    BY <1>0, <1>1, RoundStays
  <2>2. \A t \in Logs : Written(logRows[t], cursors[t], geoList)
                          => Written(logRows'[t], cursors[t], geoList)
    BY <1>0, <1>1, WrittenStays
  <2> QED BY <1>1, <2>1, <2>2 DEF ScanOK
<1>2. CASE UNCHANGED <<logRows, geoList, cursors, sync>>
  BY <1>2 DEF ScanOK
<1>3. ASSUME NEW i \in Ids, SyncStep(i), SyncGoesOn(i) PROVE ScanOK'
  BY <1>3, SyncKeepsScan
<1>4. CASE Surroundings
  BY <1>1, <1>4, AroundKeepsTypes
<1>5. ASSUME NEW i \in Ids, SubmitSync(i) PROVE ScanOK'
  <2>1. RoundOf(sync'[i], logRows, geoList)
    BY <1>5, RoundStarts DEF RoundOf
  <2> QED BY <1>5, <2>1, RoundStarts DEF ScanOK
<1> QED BY <1>2, <1>3, <1>4, <1>5 DEF Sorted, Elsewhere, Other, geoVars

(***************************************************************************)
(* What a step of a round says of its outcome (geoSyncAll).                *)
(***************************************************************************)
LEMMA SyncKeepsOutcome ==
  ASSUME GeoTypeOK, CentreOK, NEW i \in Ids, SyncStep(i), pc[i] = "body",
         OutcomeOf(sync[i], task[i], pc[i], firstCancel[i])
  PROVE  OutcomeOf(sync'[i], task[i], pc[i], firstCancel[i])
<1> DEFINE s == sync[i]
           e == task[i]
           Goal == OutcomeOf(sync'[i], e, pc[i], firstCancel[i])
<1>0. /\ sync \in [Ids -> Round] /\ s \in Round /\ e.ctx \in {"live", "done"}
      /\ \A n : sync' = [sync EXCEPT ![i] = n] => sync'[i] = n
  BY DEF GeoTypeOK, CentreOK, TypeOK, Entry
<1>b. s.at \in {"table", "block", "upsert", "close"} =>
        /\ s.outcome = "none" /\ s.failed = FALSE /\ (s.interrupted = TRUE => e.ctx = "done")
        /\ s.interrupted \in BOOLEAN /\ (e.ctx = "done" => firstCancel[i] # 0)
        /\ e.status = "done" => e.runErr = "nil"
  BY <1>0 DEF OutcomeOf, Round
<1>a. ASSUME NEW n, sync' = [sync EXCEPT ![i] = n],
             s.at \in {"table", "block", "upsert", "close"},
             \/ /\ n.at \in {"table", "block", "upsert", "close", "report"}
                /\ n.outcome = s.outcome /\ n.failed = s.failed
                /\ n.interrupted = s.interrupted
             \/ /\ n.at = "close" /\ n.outcome = s.outcome /\ n.failed = s.failed
                /\ n.interrupted = TRUE /\ e.ctx = "done"
             \/ /\ n.at = "report" /\ n.outcome = s.outcome /\ n.failed = TRUE
                /\ n.interrupted = s.interrupted
      PROVE  Goal
  <2>1. sync'[i] = n
    BY <1>0, <1>a
  <2>2. OutcomeOf(n, e, pc[i], firstCancel[i])
    BY <1>a, <1>b DEF OutcomeOf
  <2> QED BY <2>1, <2>2
<1>1. CASE LoadCursor(i)
  <2> DEFINE n == [s EXCEPT !.at = "block", !.from = cursors[s.log],
                      !.cursor = cursors[s.log], !.ips = 0, !.scanned = 0, !.exhausted = FALSE]
  <2>1. s.at = "table" /\ sync' = [sync EXCEPT ![i] = n]
    BY <1>1 DEF LoadCursor, At
  <2>2. /\ n.at = "block" /\ n.outcome = s.outcome /\ n.failed = s.failed
        /\ n.interrupted = s.interrupted
    BY <1>0 DEF Round
  <2> HIDE DEF n
  <2> QED BY <1>a, <2>1, <2>2
<1>2. CASE StatementFails(i)
  <2> DEFINE n1 == [s EXCEPT !.at = "close", !.interrupted = TRUE]
             n2 == [s EXCEPT !.at = "report", !.failed = TRUE]
  <2>1. /\ s.at \in {"block", "upsert"}
        /\ \/ e.ctx = "done" /\ sync' = [sync EXCEPT ![i] = n1]
           \/ sync' = [sync EXCEPT ![i] = n2]
    BY <1>2 DEF StatementFails, At
  <2>2. /\ n1.at = "close" /\ n1.outcome = s.outcome /\ n1.failed = s.failed
        /\ n1.interrupted = TRUE
        /\ n2.at = "report" /\ n2.outcome = s.outcome /\ n2.failed = TRUE
        /\ n2.interrupted = s.interrupted
    BY <1>0 DEF Round
  <2> HIDE DEF n1, n2
  <2> QED BY <1>a, <2>1, <2>2
<1>3. CASE Scan(i)
  <2> DEFINE b == Block(s.log, s.cursor)
             missing == Missing(s.log, b)
             scanned == s.scanned + Cardinality(b)
             ips == s.ips + Cardinality(missing)
             upto == Max(b)
             found == [k \in {k \in missing : logRows[s.log][k] \in Located}
                         |-> logRows[s.log][k]]
             n1 == [s EXCEPT !.at = "close"]
             n2 == [s EXCEPT !.at = "close", !.exhausted = TRUE]
             n3 == [s EXCEPT !.at = "upsert", !.scanned = scanned, !.ips = ips,
                             !.upto = upto, !.found = found]
  <2>1. /\ s.at = "block"
        /\ \/ sync' = [sync EXCEPT ![i] = n1]
           \/ sync' = [sync EXCEPT ![i] = n2]
           \/ sync' = [sync EXCEPT ![i] = n3]
    BY <1>3 DEF Scan, At
  <2> HIDE DEF scanned, ips, upto, found
  <2>2. /\ n1.at = "close" /\ n2.at = "close" /\ n3.at = "upsert"
        /\ \A n \in {n1, n2, n3} : /\ n.outcome = s.outcome /\ n.failed = s.failed
                                   /\ n.interrupted = s.interrupted
    BY <1>0 DEF Round
  <2> HIDE DEF n1, n2, n3
  <2> QED BY <1>a, <2>1, <2>2
<1>4. CASE Upsert(i)
  <2> DEFINE less == [j \in DOMAIN s.found \ {Min(DOMAIN s.found)} |-> s.found[j]]
             n1 == [s EXCEPT !.at = "block", !.cursor = s.upto]
             n2 == [s EXCEPT !.found = less]
  <2>1. /\ s.at = "upsert"
        /\ sync' = [sync EXCEPT ![i] = n1] \/ sync' = [sync EXCEPT ![i] = n2]
    BY <1>4 DEF Upsert, At
  <2> HIDE DEF less
  <2>2. /\ n1.at = "block" /\ n2.at = s.at
        /\ \A n \in {n1, n2} : /\ n.outcome = s.outcome /\ n.failed = s.failed
                               /\ n.interrupted = s.interrupted
    BY <1>0 DEF Round
  <2> HIDE DEF n1, n2
  <2> QED BY <1>a, <2>1, <2>2
<1>5. CASE CloseTable(i)
  <2> DEFINE next == Min({t \in Logs : t > s.log})
             n1 == [s EXCEPT !.at = "report", !.found = NoneFound]
             n2 == [s EXCEPT !.at = "table", !.log = next, !.found = NoneFound]
  <2>1. /\ s.at = "close"
        /\ sync' = [sync EXCEPT ![i] = n1] \/ sync' = [sync EXCEPT ![i] = n2]
    BY <1>5 DEF CloseTable, At
  <2> HIDE DEF next
  <2>2. /\ n1.at = "report" /\ n2.at = "table"
        /\ \A n \in {n1, n2} : /\ n.outcome = s.outcome /\ n.failed = s.failed
                               /\ n.interrupted = s.interrupted
    BY <1>0 DEF Round
  <2> HIDE DEF n1, n2
  <2> QED BY <1>a, <2>1, <2>2
<1>6. CASE Report(i)
  <2> DEFINE a == IF s.failed THEN "error" ELSE "purge"
             o == IF s.failed THEN "failed" ELSE IF e.ctx = "done" THEN "partial" ELSE "success"
  <2>1. s.at = "report" /\ sync' = [sync EXCEPT ![i].at = a, ![i].outcome = o]
    BY <1>6 DEF Report, At, Outcome
  <2> HIDE DEF a, o
  <2>2. /\ sync'[i].at = a /\ sync'[i].outcome = o
        /\ sync'[i].failed = s.failed /\ sync'[i].interrupted = s.interrupted
    BY <1>0, <2>1 DEF Round
  <2> QED BY <1>0, <2>1, <2>2 DEF OutcomeOf, a, o
<1>7. CASE Purge(i)
  <2>1. s.at = "purge" /\ sync' = [sync EXCEPT ![i].at = "ok"]
    BY <1>7 DEF Purge, At
  <2>2. /\ sync'[i].at = "ok" /\ sync'[i].outcome = s.outcome
        /\ sync'[i].failed = s.failed /\ sync'[i].interrupted = s.interrupted
    BY <1>0, <2>1 DEF Round
  <2> QED BY <2>1, <2>2 DEF OutcomeOf
<1> QED BY <1>1, <1>2, <1>3, <1>4, <1>5, <1>6, <1>7 DEF SyncStep

(***************************************************************************)
(* What the steps of the centre do to it: a body is asked to stop before   *)
(* it returns, or after; the first request is never forgotten.             *)
(***************************************************************************)
LEMMA CentreKeepsOutcomes ==
  ASSUME CentreOK, OutcomesOK, sync' = sync,
         \/ UNCHANGED vars \/ RegisterMutexRules
         \/ \E names \in CreatorLists : RegisterCreators(names)
         \/ \E i \in Ids :
              \/ \E p \in Snapshots : SetProgress(i, p)
              \/ \E err \in {"nil", "error"} :
                   /\ Return(i, err)
                   /\ task[i].label = "geoip_sync" =>
                        sync[i].at \in {"ok", "error"} /\ (err = "nil" => sync[i].at = "ok")
              \/ Settle(i) \/ Cancel(i)
  PROVE  OutcomesOK'
<1>0. /\ task \in [Ids -> Entry] /\ pc \in [Ids -> {"unborn", "body", "returned", "settled"}]
      /\ firstCancel \in [Ids -> Nat] /\ clock \in Nat \ {0}
      /\ \A i \in Ids : /\ pc[i] \in {"body", "returned"} => task[i].status = "running"
                        /\ firstCancel[i] <= task[i].cancelReqAt /\ task[i].cancelReqAt <= clock
                        /\ task[i].cancelReqAt \in Nat
  BY TaskCenterAssumption DEF CentreOK, TypeOK, Entry, Bookkeeping, PhaseOK, StampsOK
<1>a. ASSUME NEW i \in Ids, OutcomeOf(sync[i], task'[i], pc'[i], firstCancel'[i]),
             \A j \in Ids : j # i => /\ task'[j] = task[j] /\ pc'[j] = pc[j]
                                     /\ firstCancel'[j] = firstCancel[j]
      PROVE  OutcomesOK'
  BY <1>a DEF OutcomesOK
<1>1. CASE UNCHANGED vars \/ RegisterMutexRules
             \/ \E names \in CreatorLists : RegisterCreators(names)
  BY <1>1 DEF vars, RegisterMutexRules, RegisterCreators, OutcomesOK
<1>2. ASSUME NEW i \in Ids, NEW p \in Snapshots, SetProgress(i, p) PROVE OutcomesOK'
  <2>1. /\ task' = [task EXCEPT ![i] = [task[i] EXCEPT !.progress = p]]
        /\ pc' = pc /\ firstCancel' = firstCancel
    BY <1>2 DEF SetProgress
  <2>2. task'[i] = [task[i] EXCEPT !.progress = p] /\ \A j \in Ids : j # i => task'[j] = task[j]
    BY <1>0, <2>1
  <2>3. /\ task'[i].ctx = task[i].ctx /\ task'[i].status = task[i].status
        /\ task'[i].runErr = task[i].runErr /\ task'[i].label = task[i].label
        /\ task'[i].finishAt = task[i].finishAt
    BY <1>0, <2>2 DEF Entry
  <2>4. OutcomeOf(sync[i], task'[i], pc[i], firstCancel[i])
    BY <2>3 DEF OutcomesOK, OutcomeOf
  <2> QED BY <1>a, <2>1, <2>2, <2>4
<1>3. ASSUME NEW i \in Ids, NEW err \in {"nil", "error"}, Return(i, err),
             task[i].label = "geoip_sync" =>
               sync[i].at \in {"ok", "error"} /\ (err = "nil" => sync[i].at = "ok")
      PROVE  OutcomesOK'
  <2>1. /\ task' = [task EXCEPT ![i] = [task[i] EXCEPT !.runErr = err, !.finishAt = clock']]
        /\ pc[i] = "body" /\ pc' = [pc EXCEPT ![i] = "returned"] /\ firstCancel' = firstCancel
        /\ clock' \in {clock, clock + 1}
    BY <1>3 DEF Return, Now
  <2>2. /\ task'[i] = [task[i] EXCEPT !.runErr = err, !.finishAt = clock']
        /\ \A j \in Ids : j # i => task'[j] = task[j] /\ pc'[j] = pc[j]
        /\ pc'[i] = "returned"
    BY <1>0, <2>1
  <2>3. /\ task'[i].ctx = task[i].ctx /\ task'[i].status = task[i].status
        /\ task'[i].runErr = err /\ task'[i].label = task[i].label
        /\ task'[i].finishAt = clock'
    BY <1>0, <2>2 DEF Entry
  <2>4. firstCancel[i] # 0 => firstCancel[i] \in 1 .. clock'
    BY <1>0, <2>1
  <2>5. OutcomeOf(sync[i], task'[i], pc'[i], firstCancel[i])
    BY <1>0, <1>3, <2>1, <2>2, <2>3, <2>4 DEF OutcomesOK, OutcomeOf
  <2> QED BY <1>a, <2>1, <2>2, <2>5
<1>4. ASSUME NEW i \in Ids, Settle(i) PROVE OutcomesOK'
  <2> DEFINE final == FinalStatus(task[i])
  <2>1. /\ task' = [task EXCEPT ![i] = [task[i] EXCEPT !.status = final]]
        /\ pc[i] = "returned" /\ pc' = [pc EXCEPT ![i] = "settled"] /\ firstCancel' = firstCancel
    BY <1>4 DEF Settle
  <2>2. final = "done" => task[i].runErr = "nil"
    BY <1>0 DEF FinalStatus, Entry
  <2> HIDE DEF final
  <2>3. /\ task'[i] = [task[i] EXCEPT !.status = final]
        /\ \A j \in Ids : j # i => task'[j] = task[j] /\ pc'[j] = pc[j]
        /\ pc'[i] = "settled"
    BY <1>0, <2>1
  <2>4. /\ task'[i].ctx = task[i].ctx /\ task'[i].status = final
        /\ task'[i].runErr = task[i].runErr /\ task'[i].label = task[i].label
        /\ task'[i].finishAt = task[i].finishAt
    BY <1>0, <2>3 DEF Entry
  <2>5. OutcomeOf(sync[i], task'[i], pc'[i], firstCancel[i])
    BY <2>1, <2>2, <2>3, <2>4 DEF OutcomesOK, OutcomeOf
  <2> QED BY <1>a, <2>1, <2>3, <2>5
<1>5. ASSUME NEW i \in Ids, Cancel(i) PROVE OutcomesOK'
  <2>1. /\ task' = [task EXCEPT ![i] = [task[i] EXCEPT !.ctx = "done", !.cancelReqAt = clock']]
        /\ pc' = pc /\ task[i].status \notin Terminal /\ clock' \in {clock, clock + 1}
        /\ firstCancel' = IF firstCancel[i] = 0
                            THEN [firstCancel EXCEPT ![i] = clock'] ELSE firstCancel
    BY <1>5 DEF Cancel, Now
  <2>2. /\ task'[i] = [task[i] EXCEPT !.ctx = "done", !.cancelReqAt = clock']
        /\ \A j \in Ids : j # i => task'[j] = task[j] /\ firstCancel'[j] = firstCancel[j]
        /\ firstCancel'[i] # 0 /\ (firstCancel[i] # 0 => firstCancel'[i] = firstCancel[i])
    BY <1>0, <2>1
  <2>3. /\ task'[i].ctx = "done" /\ task'[i].status = task[i].status
        /\ task'[i].runErr = task[i].runErr /\ task'[i].label = task[i].label
        /\ task'[i].finishAt = task[i].finishAt /\ task[i].finishAt \in Nat
    BY <1>0, <2>2 DEF Entry
  <2>4. firstCancel[i] \in 1 .. task[i].finishAt => firstCancel[i] # 0
    BY <2>3
  <2>5. OutcomeOf(sync[i], task'[i], pc[i], firstCancel'[i])
    BY <2>1, <2>2, <2>3, <2>4 DEF OutcomesOK, OutcomeOf
  <2> QED BY <1>a, <2>1, <2>2, <2>5
<1> QED BY <1>1, <1>2, <1>3, <1>4, <1>5

LEMMA OutcomesNext ==
  ASSUME CentreOK, LabelsOK, MigTypeOK, GeoTypeOK, ScanOK, OutcomesOK, [JobsNext]_jobVars
  PROVE  OutcomesOK'
<1>1. CASE CentreStep
  <2>1. sync' = sync
    BY <1>1 DEF CentreStep, geoVars
  <2>2. \A i \in Ids : task[i].label \notin Modelled => task[i].label # "geoip_sync"
    BY DEF Modelled
  <2> QED BY <1>1, <2>1, <2>2, CentreKeepsOutcomes DEF CentreStep
<1>2. ASSUME NEW i \in Ids, NEW l \in Creators, Submit(i, l),
             \A j \in Ids : j # i => sync'[j] = sync[j],
             \/ sync'[i] = sync[i]
             \/ /\ sync'[i].at = "table" /\ sync'[i].outcome = "none"
                /\ ~sync'[i].failed /\ ~sync'[i].interrupted
      PROVE  OutcomesOK'
  <2>1. /\ task'[i].label = l /\ pc'[i] = "body" /\ task'[i].ctx = task[i].ctx
        /\ task'[i].status = "running" /\ firstCancel' = firstCancel
        /\ \A j \in Ids : j # i => task'[j] = task[j] /\ pc'[j] = pc[j]
    BY <1>2, Submitted
  <2>2. OutcomeOf(sync'[i], task'[i], pc'[i], firstCancel[i])
    BY <1>2, <2>1 DEF OutcomesOK, OutcomeOf
  <2> QED BY <1>2, <2>1, <2>2 DEF OutcomesOK
<1>3. ASSUME NEW i \in Ids, Submission(i) PROVE OutcomesOK'
  <2>1. Modelled \subseteq Creators
    BY JobsAssumption
  <2>2. CASE SubmitMigration(i) /\ UNCHANGED geoVars
    BY <1>2, <2>1, <2>2 DEF SubmitMigration, Modelled, geoVars
  <2>3. CASE SubmitAlignment(i) /\ UNCHANGED geoVars
    BY <1>2, <2>1, <2>3 DEF SubmitAlignment, Modelled, geoVars
  <2>4. CASE SubmitSync(i)
    <3>1. "geoip_sync" \in Creators /\ Submit(i, "geoip_sync")
      BY <2>1, <2>4 DEF SubmitSync, Modelled
    <3> QED BY <1>2, <2>4, <3>1, RoundStarts
  <2>5. CASE \E l \in Creators \ Modelled : Submit(i, l) /\ UNCHANGED geoVars
    BY <1>2, <2>5 DEF geoVars
  <2> QED BY <1>3, <2>2, <2>3, <2>4, <2>5 DEF Submission, geoVars
<1>4. ASSUME NEW i \in Ids, Progresses(i) PROVE OutcomesOK'
  <2>1. CASE BodyStep(i) /\ UNCHANGED <<vars, geoVars>>
    BY <2>1, CentreKeepsOutcomes DEF geoVars
  <2>2. CASE BodyReturns(i) /\ UNCHANGED geoVars
    <3>1. task[i].label # "geoip_sync"
      BY <2>2 DEF BodyReturns, LabelsOK
    <3>2. PICK err \in {"nil", "error"} : Return(i, err)
      BY <2>2 DEF BodyReturns
    <3> QED BY <2>2, <3>1, <3>2, CentreKeepsOutcomes DEF geoVars
  <2>3. CASE SyncStep(i) /\ UNCHANGED <<vars, migVars>>
    <3>1. SyncGoesOn(i)
      BY <2>3, SyncKeepsTypes
    <3>2. OutcomeOf(sync'[i], task[i], pc[i], firstCancel[i])
      BY <2>3, <3>1, SyncKeepsOutcome DEF OutcomesOK, SyncGoesOn
    <3> QED BY <2>3, <3>1, <3>2 DEF OutcomesOK, SyncGoesOn, vars
  <2>4. CASE SyncReturns(i) /\ UNCHANGED migVars
    <3>1. PICK err \in {"nil", "error"} : Return(i, err) /\ (err = "nil" => sync[i].at = "ok")
      BY <2>4 DEF SyncReturns
    <3> QED BY <2>4, <3>1, CentreKeepsOutcomes DEF SyncReturns, geoVars
  <2> QED BY <1>4, <2>1, <2>2, <2>3, <2>4 DEF Progresses
<1>5. CASE AdminStep /\ UNCHANGED <<vars, geoVars>>
  BY <1>5, CentreKeepsOutcomes DEF geoVars
<1>6. CASE CancelMarked /\ UNCHANGED geoVars
  <2>1. Known \subseteq Ids
    BY DEF CentreOK, TypeOK, Known
  <2>2. Cancel(canceller) /\ canceller \in Ids
    BY <1>6, <2>1 DEF CancelMarked, Cancel
  <2> QED BY <1>6, <2>2, CentreKeepsOutcomes DEF geoVars
<1>7. CASE Surroundings /\ UNCHANGED <<vars, migVars>>
  BY <1>7, AroundKeepsTypes, CentreKeepsOutcomes
<1>8. CASE UNCHANGED jobVars
  BY <1>8, CentreKeepsOutcomes DEF jobVars, geoVars
<1> QED BY <1>1, <1>3, <1>4, <1>5, <1>6, <1>7, <1>8 DEF JobsNext

(***************************************************************************)
(* The round whose body runs is the last one, and no other has begun       *)
(* after it.                                                               *)
(***************************************************************************)
LEMMA RoundIsLast ==
  ASSUME CentreOK, LabelsOK, Sequential, NEW i \in Ids, pc[i] = "body",
         sync[i].at # "none", NEW j \in Ids, j # i, sync[j].at # "none"
  PROVE  j < i
<1>1. seq \in Nat /\ i \in Nat /\ j \in Nat /\ i # 0 /\ j # 0
  BY TaskCenterAssumption DEF CentreOK, TypeOK, Ids
<1>2. task[i].label = "geoip_sync" /\ task[j].label = "geoip_sync"
  BY DEF LabelsOK
<1>3. ~(i > seq) /\ ~(j > seq)
  BY <1>2, JobsAssumption, TaskCenterAssumption DEF LabelsOK, Modelled
<1>4. i \in 1 .. seq /\ j \in 1 .. seq
  BY <1>1, <1>3
<1>5. ~(i < j)
  BY <1>2, <1>4 DEF Sequential
<1> QED BY <1>1, <1>5

\* What a query sees, and what a purge leaves (trafficCache.do, purge).
LEMMA CacheNext ==
  ASSUME CentreOK, LabelsOK, Sequential, GeoTypeOK, CacheOK, Sorted
  PROVE  CacheOK'
<1>0. /\ cache \in [entry : Nat \cup {Nothing}, call : Nat \cup {Nothing}, late : BOOLEAN]
      /\ Ids \subseteq Nat /\ Cardinality(geoList) \in Nat /\ seq \in Nat
  BY FS_CardinalityType DEF GeoTypeOK, Ids, CentreOK, TypeOK
<1>1. ASSUME sync' = sync, geoList' = geoList, cache' = cache PROVE CacheOK'
  <2>1. \A i \in Ids : LastRound(i)' => LastRound(i)
    BY <1>1 DEF LastRound
  <2> QED BY <1>1, <2>1 DEF CacheOK
<1>2. ASSUME NEW i \in Ids, SyncStep(i), SyncGoesOn(i), UNCHANGED <<vars, migVars>>
      PROVE  CacheOK'
  <2>1. /\ pc[i] = "body" /\ sync[i].at # "none" /\ sync'[i].at # "none"
        /\ \A j \in Ids : j # i => sync'[j] = sync[j]
    BY <1>2 DEF SyncGoesOn, Walking
  <2>2. \A j \in Ids : j # i /\ sync'[j].at # "none" => j < i
    BY <2>1, RoundIsLast
  <2>3. \A j \in Ids : LastRound(j)' => j = i
    <3> SUFFICES ASSUME NEW j \in Ids, LastRound(j)', j # i PROVE FALSE
      OBVIOUS
    <3>1. sync'[j].at = "ok" /\ ~(i > j)
      BY <2>1 DEF LastRound
    <3>2. j < i /\ i \in Nat /\ j \in Nat
      BY <1>0, <2>2, <3>1
    <3> QED BY <3>1, <3>2
  <2>4. CASE cache' = cache /\ sync'[i].at # "ok"
    BY <2>3, <2>4 DEF CacheOK, LastRound
  <2>5. CASE Purge(i)
    <3>1. cache' = [cache EXCEPT !.entry = Nothing, !.late = (cache.call # Nothing)]
      BY <2>5 DEF Purge
    <3>2. /\ cache'.entry = Nothing /\ cache'.call = cache.call
          /\ cache'.late = (cache.call # Nothing)
      BY <1>0, <3>1
    <3> QED BY <2>3, <3>2 DEF CacheOK
  <2>6. CASE LoadCursor(i) \/ Scan(i) \/ StatementFails(i) \/ Upsert(i) \/ CloseTable(i)
               \/ Report(i)
    <3>1. cache' = cache
      BY <2>6 DEF LoadCursor, Scan, StatementFails, Upsert, CloseTable, Report
    <3>2. sync'[i].at # "ok"
      <4>1. sync \in [Ids -> Round]
        BY DEF GeoTypeOK
      <4>2. CASE LoadCursor(i)
        BY <4>1, <4>2 DEF LoadCursor, Round
      <4>3. CASE Scan(i)
        <5> HIDE DEF Round
        <5>1. sync[i].at = "block" /\ \E n : sync' = [sync EXCEPT ![i] = n] /\ n.at \in {"close", "upsert"}
          <6> DEFINE n1 == [sync[i] EXCEPT !.at = "close"]
                     n2 == [sync[i] EXCEPT !.at = "close", !.exhausted = TRUE]
                     b == Block(sync[i].log, sync[i].cursor)
                     missing == Missing(sync[i].log, b)
                     scanned == sync[i].scanned + Cardinality(b)
                     ips == sync[i].ips + Cardinality(missing)
                     upto == Max(b)
                     found == [k \in {k \in missing : logRows[sync[i].log][k] \in Located}
                                 |-> logRows[sync[i].log][k]]
                     n3 == [sync[i] EXCEPT !.at = "upsert", !.scanned = scanned, !.ips = ips,
                                           !.upto = upto, !.found = found]
          <6>1. /\ sync[i].at = "block"
                /\ \/ sync' = [sync EXCEPT ![i] = n1]
                   \/ sync' = [sync EXCEPT ![i] = n2]
                   \/ sync' = [sync EXCEPT ![i] = n3]
            BY <4>3 DEF Scan, At
          <6> HIDE DEF scanned, ips, upto, found
          <6>2. n1.at = "close" /\ n2.at = "close" /\ n3.at = "upsert"
            BY <4>1 DEF Round
          <6> HIDE DEF n1, n2, n3
          <6> QED BY <6>1, <6>2
        <5> QED BY <4>1, <5>1
      <4>4. CASE StatementFails(i)
        BY <4>1, <4>4 DEF StatementFails, Round
      <4>5. CASE Upsert(i)
        <5> DEFINE less == [j \in DOMAIN sync[i].found \ {Min(DOMAIN sync[i].found)}
                              |-> sync[i].found[j]]
        <5>1. /\ sync[i].at = "upsert"
              /\ \/ sync' = [sync EXCEPT ![i] = [sync[i] EXCEPT !.at = "block",
                                                                !.cursor = sync[i].upto]]
                 \/ sync' = [sync EXCEPT ![i].found = less]
          BY <4>5 DEF Upsert, At
        <5> HIDE DEF less
        <5> QED BY <4>1, <5>1 DEF Round
      <4>6. CASE CloseTable(i)
        <5> DEFINE next == Min({t \in Logs : t > sync[i].log})
        <5>1. \/ sync' = [sync EXCEPT ![i] = [sync[i] EXCEPT !.at = "report",
                                                             !.found = NoneFound]]
              \/ sync' = [sync EXCEPT ![i] = [sync[i] EXCEPT !.at = "table", !.log = next,
                                                             !.found = NoneFound]]
          BY <4>6 DEF CloseTable
        <5> HIDE DEF next
        <5> QED BY <4>1, <5>1 DEF Round
      <4>7. CASE Report(i)
        <5> DEFINE a == IF sync[i].failed THEN "error" ELSE "purge"
        <5>1. sync' = [sync EXCEPT ![i].at = a, ![i].outcome = Outcome(i)]
          BY <4>7 DEF Report
        <5>2. a # "ok"
          OBVIOUS
        <5> HIDE DEF a
        <5> QED BY <4>1, <5>1, <5>2 DEF Round
      <4> QED BY <2>6, <4>2, <4>3, <4>4, <4>5, <4>6, <4>7
    <3> QED BY <2>4, <3>1, <3>2
  <2> QED BY <1>2, <2>5, <2>6 DEF SyncStep
<1>3. CASE Surroundings
  <2>1. sync' = sync /\ geoList' = geoList
    BY <1>3, AroundKeepsTypes
  <2>2. \A i \in Ids : LastRound(i)' => LastRound(i)
    BY <2>1 DEF LastRound
  <2>3. ASSUME cache' = cache PROVE CacheOK'
    BY <1>1, <2>1, <2>3
  <2>4. CASE QueryMisses
    <3>1. /\ cache.entry = Nothing
          /\ cache' = [cache EXCEPT !.call = Cardinality(geoList), !.late = FALSE]
      BY <2>4 DEF QueryMisses
    <3>2. cache'.entry = Nothing /\ cache'.call = Cardinality(geoList)
      BY <1>0, <3>1
    <3> QED BY <2>1, <3>2 DEF CacheOK
  <2>5. CASE QueryEnds
    <3>1. \/ cache' = [cache EXCEPT !.entry = cache.call, !.call = Nothing]
          \/ cache' = [cache EXCEPT !.call = Nothing]
      BY <2>5 DEF QueryEnds
    <3>2. /\ cache'.entry \in {cache.call, cache.entry} /\ cache'.call = Nothing
          /\ cache'.late = cache.late
      BY <1>0, <3>1
    <3> QED BY <2>1, <2>2, <3>2 DEF CacheOK
  <2>6. CASE Expire
    <3>1. cache.entry # Nothing /\ cache' = [cache EXCEPT !.entry = Nothing, !.late = FALSE]
      BY <2>6 DEF Expire
    <3>2. cache'.entry = Nothing /\ cache'.call = Nothing
      BY <1>0, <3>1 DEF CacheOK
    <3> QED BY <3>2 DEF CacheOK
  <2> QED BY <1>3, <2>3, <2>4, <2>5, <2>6 DEF Surroundings, RowArrives, PruneIfEnabled, PruneOnce,
             PruneEventsByHand, PruneLogsByHand, PruneEvents, PruneLogs, Prune, TimerSkips
<1>4. ASSUME NEW i \in Ids, SubmitSync(i), UNCHANGED migVars PROVE CacheOK'
  <2>1. /\ geoList' = geoList /\ cache' = cache /\ sync'[i].at = "table"
        /\ \A j \in Ids : j # i => sync'[j] = sync[j]
    BY <1>4, RoundStarts
  <2>2. Joins(i, "geoip_sync")
    BY <1>4, SubmitJoins, JobsAssumption DEF SubmitSync, Modelled
  <2>3. \A j \in Ids : ~LastRound(j)'
    <3> SUFFICES ASSUME NEW j \in Ids, LastRound(j)' PROVE FALSE
      OBVIOUS
    <3>1. j # i /\ sync[j].at = "ok" /\ ~(i > j)
      BY <2>1 DEF LastRound
    <3>2. ~(j > seq)
      BY <3>1, JobsAssumption, TaskCenterAssumption DEF LabelsOK, Modelled
    <3> QED BY <1>0, <2>2, <3>1, <3>2 DEF Joins
  <2> QED BY <2>1, <2>3 DEF CacheOK
<1> QED BY <1>1, <1>2, <1>3, <1>4 DEF Sorted, Elsewhere, Other, geoVars

-----------------------------------------------------------------------------
(* The invariant holds.                                                    *)

LEMMA JobsInvInit == JobsInit => JobsInv
<1> SUFFICES ASSUME JobsInit PROVE JobsInv
  OBVIOUS
<1>0. Init /\ MigInit /\ GeoInit
  BY DEF JobsInit
<1>1. CentreOK
  BY <1>0, TypeInit, BookkeepingInit DEF CentreOK
<1>2. /\ seq = 0 /\ \A i \in Ids : /\ task[i] = Unborn /\ pc[i] = "unborn" /\ firstCancel[i] = 0
                                   /\ mig[i] = NoRun /\ sync[i] = NoSync
  BY <1>0 DEF Init, MigInit, GeoInit
<1>3. Migrations = {}
  BY <1>2, JobsAssumption, TaskCenterAssumption DEF Migrations, Unborn, Modelled
<1>4. LabelsOK
  BY <1>2, JobsAssumption, TaskCenterAssumption
     DEF LabelsOK, Unborn, Modelled, NoRun, NoSync, Copying, Walking
<1>5. Sequential
  BY <1>2 DEF Sequential
<1>6. MigTypeOK
  <2>1. NoRun \in Run
    BY DEF NoRun, Run, Codes
  <2>2. mig \in [Ids -> Run]
    BY <1>0, <2>1 DEF MigInit
  <2>3. target \in [Tables -> [copied : SUBSET Nat, held : SUBSET Nat, others : BOOLEAN]]
    BY <1>0, MigrationAssumption DEF MigInit
  <2>4. dsn \subseteq Codes
    BY ScenariosAssumption DEF JobsInit, Codes
  <2>5. NoEdit \in [at : {"idle", "delete", "save"}, code : Codes, list : SUBSET Codes]
    BY DEF NoEdit, Codes
  <2>6. editor \in [Editors -> [at : {"idle", "delete", "save"}, code : Codes,
                                list : SUBSET Codes]]
    BY <1>0, <2>5 DEF MigInit
  <2> QED BY <1>0, <2>2, <2>3, <2>4, <2>6 DEF MigInit, MigTypeOK, Nobody, Codes
<1>7. SourcesOK
  BY <1>2, JobsAssumption, TaskCenterAssumption DEF SourcesOK, NoRun, Unborn, Modelled
<1>8. TablesOK
  BY <1>3 DEF TablesOK
<1>9. TargetOK
  BY <1>3 DEF TargetOK
<1>10. GeoTypeOK
  <2>1. NoSync \in Round
    BY FindsAre DEF NoSync, Round
  <2>2. \A t \in Logs : FirstRows[t] \in Seq(Addresses \cup {Gone})
    <3>1. Addresses \subseteq Addresses \cup {Gone}
      OBVIOUS
    <3>2. \A t \in Logs : FirstRows[t] \in Seq(Addresses)
      BY GeoipAssumption
    <3>3. \A s \in Seq(Addresses) : s \in Seq(Addresses \cup {Gone})
      BY <3>1
    <3> QED BY <3>2, <3>3
  <2>3. logRows \in [Logs -> Seq(Addresses \cup {Gone})]
    BY <1>0, <2>2, GeoipAssumption DEF GeoInit
  <2>4. geoList = {} /\ IsFiniteSet({})
    BY <1>0, FS_EmptySet DEF GeoInit
  <2>5. sync \in [Ids -> Round]
    BY <1>0, <2>1 DEF GeoInit
  <2> QED BY <1>0, <2>3, <2>4, <2>5 DEF GeoInit, GeoTypeOK
<1>11. ScanOK
  <2>1. \A t \in Logs : Len(logRows[t]) \in Nat /\ cursors[t] = 0
    BY <1>0, <1>10 DEF GeoInit, GeoTypeOK
  <2>2. \A t \in Logs : Written(logRows[t], cursors[t], geoList)
    BY <2>1 DEF Written
  <2>3. \A i \in Ids : RoundOf(sync[i], logRows, geoList)
    BY <1>2 DEF RoundOf, NoSync
  <2> QED BY <2>2, <2>3 DEF ScanOK
<1>12. OutcomesOK
  BY <1>2 DEF OutcomesOK, OutcomeOf, NoSync, Unborn
<1>13. CacheOK
  BY <1>0, <1>2 DEF GeoInit, CacheOK, LastRound, NoSync
<1> QED BY <1>1, <1>4, <1>5, <1>6, <1>7, <1>8, <1>9, <1>10, <1>11, <1>12, <1>13
        DEF JobsInv, MigrationInv, GeoipInv

\* What the steps make of the types.
LEMMA TypesNext ==
  ASSUME MigTypeOK, GeoTypeOK, Sorted
  PROVE  MigTypeOK' /\ GeoTypeOK'
<1>1. ASSUME UNCHANGED <<dsn, editor, starter, aligner, mig, target>> PROVE MigTypeOK'
  BY <1>1 DEF MigTypeOK
<1>2. ASSUME UNCHANGED <<logRows, geoList, cursors, sync, cache>> PROVE GeoTypeOK'
  BY <1>2 DEF GeoTypeOK
<1>3. CASE Elsewhere
  BY <1>1, <1>2, <1>3 DEF Elsewhere
<1>4. CASE \E i \in Ids : GoesOn(i) /\ UNCHANGED geoVars
  BY <1>2, <1>4 DEF GoesOn, geoVars
<1>5. CASE \E i \in Ids : SyncGoesOn(i) /\ UNCHANGED migVars
  BY <1>1, <1>5 DEF SyncGoesOn, migVars
<1>6. CASE AdminStep /\ UNCHANGED geoVars
  BY <1>2, <1>6, AdminMarks DEF geoVars
<1>7. CASE Surroundings /\ UNCHANGED migVars
  BY <1>1, <1>7, AroundKeepsTypes DEF migVars
<1>8. CASE \E i \in Ids : (SubmitMigration(i) \/ SubmitAlignment(i)) /\ UNCHANGED geoVars
  BY <1>2, <1>8, MigrationStarts, AlignmentStarts DEF geoVars
<1>9. CASE \E i \in Ids : SubmitSync(i) /\ UNCHANGED migVars
  BY <1>1, <1>9, RoundStarts DEF migVars
<1>10. CASE \E i \in Ids : Other(i)
  BY <1>1, <1>2, <1>10 DEF Other
<1> QED BY <1>3, <1>4, <1>5, <1>6, <1>7, <1>8, <1>9, <1>10 DEF Sorted

LEMMA JobsInvNext == JobsInv /\ [JobsNext]_jobVars => JobsInv'
<1> SUFFICES ASSUME JobsInv, [JobsNext]_jobVars PROVE JobsInv'
  OBVIOUS
<1>0. /\ CentreOK /\ LabelsOK /\ Sequential /\ MigTypeOK /\ SourcesOK /\ TablesOK /\ TargetOK
      /\ GeoTypeOK /\ ScanOK /\ OutcomesOK /\ CacheOK
  BY DEF JobsInv, MigrationInv, GeoipInv
<1>1. Sorted
  BY <1>0, StepsAreSorted
<1>2. CentreOK'
  <2>1. [Next]_vars
    <3>1. CASE JobsNext
      BY <1>0, <3>1, StepOfCentre DEF CentreOK
    <3>2. CASE UNCHANGED jobVars
      BY <3>2 DEF jobVars
    <3> QED BY <3>1, <3>2
  <2> QED BY <1>0, <2>1, CentreNext
<1>3. MigTypeOK' /\ GeoTypeOK'
  BY <1>0, <1>1, TypesNext
<1>4. LabelsOK' /\ Sequential'
  BY <1>0, <1>1, LabelsNext, SequentialNext
<1>5. SourcesOK' /\ TablesOK' /\ TargetOK'
  BY <1>0, <1>1, SourcesNext, TablesNext, TargetNext
<1>6. ScanOK' /\ OutcomesOK' /\ CacheOK'
  BY <1>0, <1>1, <1>3, ScanNext, OutcomesNext, CacheNext
<1> QED BY <1>2, <1>3, <1>4, <1>5, <1>6 DEF JobsInv, MigrationInv, GeoipInv

(***************************************************************************)
(* In every reachable state the accounts of the copies and of the rounds   *)
(* agree with the target, with the list and with the task centre.          *)
(***************************************************************************)
THEOREM JobsInvariant == JobsSpec => []JobsInv
BY JobsInvInit, JobsInvNext, PTL DEF JobsSpec

(***************************************************************************)
(* Every row of what the last migration reports as done is in the target,  *)
(* or with "skip" was refused for a row with its key (migrateTable).       *)
(***************************************************************************)
THEOREM DoneIsCompleteHolds == JobsSpec => []DoneIsComplete
<1>1. JobsInv => DoneIsComplete
  <2> SUFFICES ASSUME JobsInv, NEW i \in Migrations, NEW t \in Tables,
                      mig[i].status[t] = "done", i = Max(Migrations)
               PROVE  Whole(mig[i], target, t)
    BY DEF DoneIsComplete, Whole, Taken, Cleared
  <2>1. Migrations \in SUBSET Nat /\ Migrations # {} /\ Migrations \subseteq 1 .. MaxTasks
    BY DEF Migrations, Ids
  <2>2. IsFiniteSet(Migrations)
    <3>1. IsFiniteSet(1 .. MaxTasks)
      BY TaskCenterAssumption, FS_Interval
    <3> QED BY <2>1, <3>1, FS_Subset
  <2>3. LastOf(i)
    BY <2>1, <2>2, MaxOf DEF LastOf
  <2> QED BY <2>3 DEF JobsInv, MigrationInv, TargetOK, Accords
<1> QED BY <1>1, JobsInvariant, PTL

(***************************************************************************)
(* A migration that has returned leaves no table running, and none pending *)
(* unless it copied nothing (runMigration).                                *)
(***************************************************************************)
THEOREM TablesSettleHolds == JobsSpec => []TablesSettle
<1>1. JobsInv => TablesSettle
  <2> SUFFICES ASSUME JobsInv, NEW i \in Migrations, NEW t \in Tables,
                      pc[i] \in {"returned", "settled"}
               PROVE  /\ mig[i].status[t] # "running"
                      /\ mig[i].status[t] = "pending" =>
                           \A u \in Tables : mig[i].status[u] \in {"pending", "cancelled"}
    BY DEF TablesSettle
  <2>1. i \in Ids /\ task[i].label = "migrate" /\ mig[i] \in Run
    BY DEF Migrations, JobsInv, MigrationInv, MigTypeOK
  <2>2. mig[i].at \in {"ok", "error"}
    BY <2>1 DEF JobsInv, LabelsOK, Run
  <2> QED BY <2>2 DEF JobsInv, MigrationInv, TablesOK, TablesOf, Untouched
<1> QED BY <1>1, JobsInvariant, PTL

(***************************************************************************)
(* A migration only loses its source to an edit of the list that was under *)
(* way when it was submitted, or to a write it reads into (handleDsnDelete,*)
(* handleDsnAdd).                                                          *)
(***************************************************************************)
THEOREM SourceLostByRaceOnlyHolds == JobsSpec => []SourceLostByRaceOnly
<1>1. JobsInv => SourceLostByRaceOnly
  BY DEF JobsInv, MigrationInv, SourcesOK, SourceLostByRaceOnly, Migrations
<1> QED BY <1>1, JobsInvariant, PTL

(***************************************************************************)
(* No row behind a cursor is left out of the list (geoSyncTable).          *)
(***************************************************************************)
THEOREM ScannedIsListedHolds == JobsSpec => []ScannedIsListed
<1>1. JobsInv => ScannedIsListed
  <2>1. JobsInv => ScanOK
    BY DEF JobsInv, GeoipInv
  <2> QED BY <2>1 DEF ScanOK, RoundOf, Written, ScannedIsListed
<1> QED BY <1>1, JobsInvariant, PTL

(***************************************************************************)
(* Success means that nothing was cut short and nothing failed, and a task *)
(* shown as done was a success unless a later request hides the first      *)
(* (geoSyncAll, Center.Cancel).                                            *)
(***************************************************************************)
THEOREM OutcomeIsTrueHolds == JobsSpec => []OutcomeIsTrue
<1>1. JobsInv => OutcomeIsTrue
  <2> SUFFICES ASSUME JobsInv, NEW i \in Ids
               PROVE  /\ sync[i].outcome = "success" => ~sync[i].interrupted /\ ~sync[i].failed
                      /\ (/\ task[i].label = "geoip_sync" /\ task[i].status = "done"
                          /\ firstCancel[i] \notin 1 .. task[i].finishAt)
                           => sync[i].outcome = "success"
    BY DEF OutcomeIsTrue
  <2>1. OutcomeOf(sync[i], task[i], pc[i], firstCancel[i])
    BY DEF JobsInv, GeoipInv, OutcomesOK
  <2>2. task[i].status = "done" => pc[i] = "settled"
    BY DEF JobsInv, CentreOK, TypeOK, Bookkeeping, PhaseOK
  <2> QED BY <2>1, <2>2 DEF OutcomeOf
<1> QED BY <1>1, JobsInvariant, PTL

(***************************************************************************)
(* The statistics show what the last round wrote, unless the purge came    *)
(* amid a query (trafficCache.purge).                                      *)
(***************************************************************************)
THEOREM FreshAfterSyncHolds == JobsSpec => []FreshAfterSync
<1>1. JobsInv => FreshAfterSync
  BY DEF JobsInv, GeoipInv, CacheOK, LastRound, FreshAfterSync
<1> QED BY <1>1, JobsInvariant, PTL

(***************************************************************************)
(* With the jobs running in it the centre still implements its abstract    *)
(* specification, and loses no task.                                       *)
(***************************************************************************)
THEOREM CentreKeepsItsWord ==
  JobsSpec => []NothingLost /\ []CancelledOnlyIfAsked /\ ExclusionSpec
BY JobsRunInCentre, NothingLostHolds, CancelledOnlyIfAskedHolds, ExclusionRefined, PTL
=============================================================================
