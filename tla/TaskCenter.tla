----------------------------- MODULE TaskCenter -----------------------------
(***************************************************************************)
(* internal/taskcenter: the single register of the long background jobs    *)
(* (migration, schema alignment, SQL execution, GeoIP sync).  A submission *)
(* is refused while a running task conflicts with it; the goroutine of a   *)
(* task takes its finish time BEFORE it takes the centre's lock, so a      *)
(* Cancel may slip between the two.                                        *)
(***************************************************************************)
EXTENDS Integers, Sequences, FiniteSets

CONSTANTS
  Creators,     \* the task origins (the CreatedBy of a task is its label)
  CreatorLists, \* the white lists New and RegisterCreators are called with
  RuleInputs,   \* the rule sets RegisterMutexRules may be called with
  Snapshots,    \* the progress snapshots a task may publish
  KeepLimit,    \* TaskKeepLimit: how many finished tasks are remembered
  None,         \* no label yet, no snapshot yet
  MaxTasks,     \* bound: how many submissions are accepted
  MaxClock      \* bound: the last reading of the clock

RuleSet == [list : SUBSET Creators, map : [Creators -> SUBSET Creators]]

ASSUME TaskCenterAssumption ==
  /\ CreatorLists \subseteq SUBSET Creators
  /\ RuleInputs \subseteq RuleSet
  /\ None \notin Creators \cup Snapshots
  /\ KeepLimit \in Nat \ {0}
  /\ MaxTasks \in Nat
  /\ MaxClock \in Nat \ {0}

Ids == 1 .. MaxTasks

VARIABLES
  clock,          \* what time.Now() last returned
  seq,            \* c.seq: the number of the last accepted task
  allowCreators,  \* c.allowCreators
  rules,          \* c.mutexList and c.mutexMap
  running,        \* c.running, as a set of task numbers
  terminal,       \* c.terminal, oldest first
  task,           \* the entry of each task number
  pc,             \* where the goroutine of the task stands
  firstCancel     \* history: when a running task was first asked to stop

vars == <<clock, seq, allowCreators, rules, running, terminal, task, pc,
          firstCancel>>

-----------------------------------------------------------------------------
Terminal == {"done", "failed", "cancelled"}

Status == {"unborn", "running"} \cup Terminal

\* runErr is what the body returned; a panic is turned into an error.  A time
\* of 0 is Go's zero time.
Entry == [label : Creators \cup {None}, status : Status,
          runErr : {"nil", "error"}, cancelReqAt : Nat, finishAt : Nat,
          ctx : {"live", "done"}, progress : Snapshots \cup {None}]

Unborn == [label |-> None, status |-> "unborn", runErr |-> "nil",
           cancelReqAt |-> 0, finishAt |-> 0, ctx |-> "live",
           progress |-> None]

\* time.Now(): the clock never goes back, and two readings may be equal.
Now == {t \in {clock, clock + 1} : t <= MaxClock}

\* conflictWith: same label, both in the public set, or paired by the map in
\* either direction.
Conflicts(l, r) == \/ l = r
                   \/ l \in rules.list /\ r \in rules.list
                   \/ r \in rules.map[l]
                   \/ l \in rules.map[r]

\* resolveFinalStatus
FinalStatus(e) ==
  IF e.cancelReqAt # 0 /\ e.cancelReqAt <= e.finishAt THEN "cancelled"
  ELSE IF e.runErr = "error" THEN "failed"
  ELSE "done"

\* Mutant: a full list already loses its oldest entry.
TrimEarly(s) == IF Len(s) >= KeepLimit THEN Tail(s) ELSE s

\* The last KeepLimit entries of the terminal list.
Trim(s) == IF Len(s) > KeepLimit
             THEN SubSeq(s, Len(s) - KeepLimit + 1, Len(s)) ELSE s

\* findByID: running tasks, then the remembered finished ones.
Known == running \cup {terminal[k] : k \in 1 .. Len(terminal)}

-----------------------------------------------------------------------------
\* New, with no rule and the white list it is given.
Init ==
  /\ clock = 1
  /\ seq = 0
  /\ allowCreators \in CreatorLists
  /\ rules = [list |-> {}, map |-> [l \in Creators |-> {}]]
  /\ running = {}
  /\ terminal = <<>>
  /\ task = [i \in Ids |-> Unborn]
  /\ pc = [i \in Ids |-> "unborn"]
  /\ firstCancel = [i \in Ids |-> 0]

\* Called once while the admin server is assembled, before any submission.
RegisterMutexRules ==
  /\ seq = 0
  /\ rules' \in RuleInputs
  /\ UNCHANGED <<clock, seq, allowCreators, running, terminal, task, pc,
                 firstCancel>>

RegisterCreators(names) ==
  /\ allowCreators' = allowCreators \cup names
  /\ UNCHANGED <<clock, seq, rules, running, terminal, task, pc, firstCancel>>

\* Mutant: only a running task of the same origin refuses.
SubmitSameLabelOnly(i, l) ==
  /\ i = seq + 1
  /\ l \in allowCreators
  /\ \A j \in running : l # task[j].label
  /\ seq' = i
  /\ running' = running \cup {i}
  /\ task' = [task EXCEPT ![i] = [@ EXCEPT !.label = l, !.status = "running"]]
  /\ pc' = [pc EXCEPT ![i] = "body"]
  /\ UNCHANGED <<clock, allowCreators, rules, terminal, firstCancel>>

\* Submit: white list, then the conflict check, then the new entry; the
\* goroutine starts with a live context.  Refusals change nothing.
Submit(i, l) ==
  /\ i = seq + 1
  /\ l \in allowCreators
  /\ \A j \in running : ~ Conflicts(l, task[j].label)
  /\ seq' = i
  /\ running' = running \cup {i}
  /\ task' = [task EXCEPT ![i] = [@ EXCEPT !.label = l, !.status = "running"]]
  /\ pc' = [pc EXCEPT ![i] = "body"]
  /\ UNCHANGED <<clock, allowCreators, rules, terminal, firstCancel>>

\* setProgress, which the body may also call after it has returned; a finished
\* task keeps the snapshot it finished with.
SetProgress(i, p) ==
  /\ pc[i] # "unborn"
  /\ task[i].status \notin Terminal
  /\ task' = [task EXCEPT ![i].progress = p]
  /\ UNCHANGED <<clock, seq, allowCreators, rules, running, terminal, pc,
                 firstCancel>>

\* The body returns or panics, and run takes the finish time with no lock held.
Return(i, err) ==
  /\ pc[i] = "body"
  /\ clock' \in Now
  /\ task' = [task EXCEPT ![i] = [@ EXCEPT !.runErr = err,
                                         !.finishAt = clock']]
  /\ pc' = [pc EXCEPT ![i] = "returned"]
  /\ UNCHANGED <<seq, allowCreators, rules, running, terminal, firstCancel>>

\* Mutant: a panic gets past the code that settles the task.
SettleUnlessPanic(i) ==
  /\ pc[i] = "returned" /\ task[i].runErr = "nil"
  /\ task' = [task EXCEPT ![i].status = FinalStatus(task[i])]
  /\ terminal' = Trim(Append(terminal, i))
  /\ running' = running \ {i}
  /\ pc' = [pc EXCEPT ![i] = "settled"]
  /\ UNCHANGED <<clock, seq, allowCreators, rules, firstCancel>>

\* The rest of run, under the lock: final status, retention, release.
Settle(i) ==
  /\ pc[i] = "returned"
  /\ task' = [task EXCEPT ![i].status = FinalStatus(task[i])]
  /\ terminal' = Trim(Append(terminal, i))
  /\ running' = running \ {i}
  /\ pc' = [pc EXCEPT ![i] = "settled"]
  /\ UNCHANGED <<clock, seq, allowCreators, rules, firstCancel>>

\* Cancel of a task that is still running: cancel its context, and stamp the
\* request time, over an earlier stamp if there is one.  For a finished or a
\* forgotten task Cancel only answers.
Cancel(i) ==
  /\ i \in Known
  /\ task[i].status \notin Terminal
  /\ clock' \in Now
  /\ task' = [task EXCEPT ![i] = [@ EXCEPT !.ctx = "done",
                                         !.cancelReqAt = clock']]
  /\ firstCancel' = IF firstCancel[i] = 0
                      THEN [firstCancel EXCEPT ![i] = clock'] ELSE firstCancel
  /\ UNCHANGED <<seq, allowCreators, rules, running, terminal, pc>>

Next ==
  \/ RegisterMutexRules
  \/ \E names \in CreatorLists : RegisterCreators(names)
  \/ \E i \in Ids : \/ \E l \in Creators : Submit(i, l)
                    \/ \E p \in Snapshots : SetProgress(i, p)
                    \/ \E err \in {"nil", "error"} : Return(i, err)
                    \/ Settle(i)
                    \/ Cancel(i)

Spec == Init /\ [][Next]_vars

\* The goroutine that has returned takes the lock sooner or later, and a body
\* honours its context: RunFn's contract.  Nothing else is promised: a body
\* that is not cancelled may run for ever.
ReturnCancelled(i) == /\ task[i].ctx = "done"
                      /\ \E err \in {"nil", "error"} : Return(i, err)

-----------------------------------------------------------------------------
TypeOK ==
  /\ clock \in 1 .. MaxClock
  /\ seq \in 0 .. MaxTasks
  /\ allowCreators \subseteq Creators
  /\ rules \in RuleSet
  /\ running \subseteq Ids
  /\ terminal \in Seq(Ids)
  /\ task \in [Ids -> Entry]
  /\ pc \in [Ids -> {"unborn", "body", "returned", "settled"}]
  /\ firstCancel \in [Ids -> Nat]

\* No two running tasks conflict, whichever of them came first and however
\* the rules pair them: the submission check runs against one direction of
\* time only, and must hold for the pair as long as both run.
MutualExclusion ==
  \A i, j \in running :
    i # j => ~ Conflicts(task[i].label, task[j].label)

\* Every accepted task is accounted for: it occupies its label exactly while
\* its goroutine lives (so no path out of the body keeps the label busy), and
\* a finished task is only forgotten when KeepLimit later ones are remembered.
NothingLost ==
  \A i \in 1 .. seq :
    /\ i \in running <=> pc[i] \in {"body", "returned"}
    /\ i \in running <=> task[i].status = "running"
    /\ i \notin Known => Len(terminal) = KeepLimit

\* A task is only reported cancelled if somebody asked for it no later than
\* the body's end, and the body's context was cancelled then.
CancelledOnlyIfAsked ==
  \A i \in Ids :
    task[i].status = "cancelled" => /\ task[i].ctx = "done"
                                    /\ firstCancel[i] \in 1 .. task[i].finishAt

\* "A final status never changes": once a task is done, failed or cancelled,
\* no late progress, second cancel or later task alters what is reported.
TerminalIsFinal ==
  [][\A i \in Ids : task[i].status \in Terminal => task'[i] = task[i]]_vars

\* A request to stop a running task leads to a final status, and so releases
\* the task's label.
CancelEndsTask ==
  \A i \in Ids : task[i].ctx = "done" ~> task[i].status \in Terminal

\* The inductive invariant: where the goroutine of a task stands, the status
\* its entry shows and the lists it is on agree; stamps are ordered; a label
\* is only conflict-free because rules are fixed before the first submission.
PhaseOK ==
  \A i \in Ids :
    /\ pc[i] = "unborn" <=> i > seq
    /\ pc[i] = "unborn" <=> task[i].status = "unborn"
    /\ i \in running <=> pc[i] \in {"body", "returned"}
    /\ i \in running <=> task[i].status = "running"
    /\ i \in running => task[i].label \in Creators

MemoryOK ==
  /\ Len(terminal) <= KeepLimit
  /\ \A k \in 1 .. Len(terminal) : pc[terminal[k]] = "settled"
  /\ \A i \in Ids : pc[i] = "settled" => \/ i \in Known
                                         \/ Len(terminal) = KeepLimit

StampsOK ==
  \A i \in Ids :
    /\ firstCancel[i] <= task[i].cancelReqAt /\ task[i].cancelReqAt <= clock
    /\ firstCancel[i] = 0 => task[i].cancelReqAt = 0
    /\ task[i].cancelReqAt # 0 => task[i].ctx = "done"
    /\ task[i].status = "cancelled" =>
         task[i].cancelReqAt \in 1 .. task[i].finishAt

Bookkeeping == PhaseOK /\ MutualExclusion /\ MemoryOK /\ StampsOK

\* The centre is a lock on labels: what is held are the labels of the running
\* tasks, what conflicts is what the rules say.
HeldLabels == {task[i].label : i \in running}

ConflictRelation ==
  {p \in Creators \X Creators : Conflicts(p[1], p[2])}

Exclusion == INSTANCE LabelExclusion
  WITH Labels <- Creators, held <- HeldLabels, relation <- ConflictRelation

\* The centre implements LabelExclusion: a label is only taken while nothing
\* that conflicts with it is held, in whichever order the two are submitted,
\* and it is given back when the task has settled (Center.Submit, run).
ExclusionSpec == Exclusion!Spec
=============================================================================
