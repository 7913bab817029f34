-------------------------------- MODULE Jobs --------------------------------
(***************************************************************************)
(* The task centre with the jobs that run in it: the migration and the     *)
(* alignment of a target database (Migration), the rounds of the GeoIP     *)
(* synchronisation (GeoipSync), and the execution of SQL, whose body is    *)
(* left open.  They meet in the rules of exclusion, in cancellation and in *)
(* the administrators' requests.                                           *)
(***************************************************************************)
EXTENDS Migration, GeoipSync

CONSTANT
  Scenarios \* the bounds of Migration and of GeoipSync, and what is aligned and listed first

Modelled == {"migrate", "schema_apply", "geoip_sync"}

ASSUME JobsAssumption == Modelled \subseteq Creators

ASSUME ScenariosAssumption == \A c \in Scenarios : c.listed \subseteq Sources \union {Target}

jobVars == <<vars, migVars, geoVars>>

JobsInit ==
  /\ Init /\ MigInit /\ GeoInit
  /\ \E c \in Scenarios : left = c.mig /\ geoLeft = c.geo /\ aligned = c.aligned
                          /\ dsn = c.listed

\* The admin server has registered its rules and origins, and main its own,
\* before the first request is served.
Assembled == rules \in RuleInputs /\ allowCreators = Creators

\* The centre alone, and the bodies that are left open.
CentreStep ==
  /\ \/ RegisterMutexRules
     \/ seq = 0 /\ \E names \in CreatorLists : RegisterCreators(names)
     \/ \E i \in Ids :
          \/ /\ task[i].label \notin Modelled
             /\ \/ \E p \in Snapshots : SetProgress(i, p)
                \/ \E err \in {"nil", "error"} : Return(i, err)
          \/ Settle(i)
          \/ Cancel(i)
  /\ UNCHANGED <<migVars, geoVars>>

Submission(i) ==
  /\ Assembled
  /\ \/ SubmitMigration(i) /\ UNCHANGED geoVars
     \/ SubmitAlignment(i) /\ UNCHANGED geoVars
     \/ SubmitSync(i) /\ UNCHANGED migVars
     \/ /\ Spend("others") /\ \E l \in Creators \ Modelled : Submit(i, l)
        /\ UNCHANGED <<dsn, editor, starter, aligner, canceller, mig, shown, target,
                       aligned, exposed, geoVars>>

\* What the body of task i does next.
Progresses(i) ==
  \/ BodyStep(i) /\ UNCHANGED <<vars, geoVars>>
  \/ BodyReturns(i) /\ UNCHANGED geoVars
  \/ SyncStep(i) /\ UNCHANGED <<vars, migVars>>
  \/ SyncReturns(i) /\ UNCHANGED migVars

JobsNext ==
  /\ \/ CentreStep
     \/ \E i \in Ids : Submission(i) \/ Progresses(i)
     \/ AdminStep /\ UNCHANGED <<vars, geoVars>>
     \/ CancelMarked /\ UNCHANGED geoVars
     \/ Surroundings /\ UNCHANGED <<vars, migVars>>
  /\ clock' <= left.clock

JobsSpec == JobsInit /\ [][JobsNext]_jobVars

\* The goroutine of a task: its body goes on, at least after it was cancelled,
\* and then it takes the lock.
Goroutine ==
  \E i \in Ids :
    \/ Progresses(i)
    \/ /\ \/ Settle(i)
          \/ task[i].label \notin Modelled /\ ReturnCancelled(i)
       /\ UNCHANGED <<migVars, geoVars>>

\* One goroutine is alive at a time, and the scheduler does not forget it.
JobsFairSpec == JobsSpec /\ WF_jobVars(Goroutine)
=============================================================================
