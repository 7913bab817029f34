------------------------------ MODULE Migration ------------------------------
(***************************************************************************)
(* internal/adminapi: the list of external databases (dsn.go), and the two *)
(* jobs that write to one of them (migrate.go, migrate_dialects.go): the   *)
(* alignment of its tables with what the program expects, statement by     *)
(* statement, and the copy of tables into it, batch by batch.  Both run as *)
(* tasks of the task centre while administrators look, remove tables and   *)
(* cancel.                                                                 *)
(***************************************************************************)
EXTENDS TaskCenter, FiniteSetsExt

CONSTANTS
  Tables,   \* numbers: the order of the copy
  RowsOf,   \* rows of each table at the source, copied in their order
  Batch,    \* rows of one transaction
  HeldRows, \* of each table: rows whose key a foreign row of the target has
  Sources,  \* codes of the external databases but the target
  Editors   \* administrators who edit the list of databases

ASSUME MigrationAssumption ==
  /\ Tables \subseteq Nat \ {0} /\ Tables # {} /\ IsFiniteSet(Tables)
  /\ RowsOf \in [Tables -> Nat]
  /\ Batch \in Nat \ {0}
  /\ HeldRows \in [Tables -> SUBSET Nat]

VARIABLES
  dsn,       \* dsn.json: codes of the databases
  editor,    \* for each editor: the request at hand and the list it has read
  starter,   \* the administrator who starts a migration
  aligner,   \* the tables an alignment is to be submitted for
  canceller, \* the task whose cancellation is half way, or 0
  mig,       \* migrateRunState and the stand of the body, for each task
  shown,     \* migState: the migration the endpoints speak of, or 0
  target,    \* the target's tables: rows copied, rows whose key is held, foreign rows
  aligned,   \* tables of the target that have the expected columns
  left,      \* bounds: edits, migrations, alignments, other tasks, failures; the clock
  exposed    \* history: tasks whose source was at risk when they were submitted,
             \* or that looked it up while the list was being written

migVars == <<dsn, editor, starter, aligner, canceller, mig, shown, target, aligned,
             left, exposed>>

Target == "target"
NoTask == 0

Nobody == [at |-> "idle", code |-> Target]

NoEdit == [at |-> "idle", code |-> Target, list |-> {}]

NoRun == [at |-> "none", table |-> 0, source |-> Target, mode |-> "replace",
          status |-> [t \in Tables |-> "pending"], rows |-> [t \in Tables |-> 0],
          cancelled |-> FALSE, failed |-> FALSE, err |-> FALSE, lost |-> FALSE]

MigInit ==
  /\ editor = [e \in Editors |-> NoEdit] /\ starter = Nobody /\ aligner = {}
  /\ canceller = NoTask
  /\ mig = [i \in Ids |-> NoRun]
  /\ shown = NoTask
  /\ target = [t \in Tables |-> [copied |-> {}, held |-> HeldRows[t], others |-> TRUE]]
  /\ exposed = {}

Spend(w) == left[w] > 0 /\ left' = [left EXCEPT ![w] = @ - 1]

Free == UNCHANGED left

\* A statement of a cancelled task may still succeed.
Fails(i) == Spend("failures") \/ (task[i].ctx = "done" /\ Free)

-----------------------------------------------------------------------------
(* dsn.go.  The file is read, the list changed and the file written, and    *)
(* nothing guards it: an editor writes what it has read, whatever others   *)
(* have written since, and who reads during a write may get an error.      *)

BeingWritten == \E e \in Editors : editor[e].at = "save"

Unedited == UNCHANGED <<starter, aligner, canceller, mig, shown, target, aligned, exposed>>

\* Mutant: a running task does not keep the list from being changed.
DeleteUnchecked(e) ==
  /\ editor[e].at = "idle" /\ Spend("edits")
  /\ \E c \in Sources \union {Target} :
       editor' = [editor EXCEPT ![e].at = "delete", ![e].code = c]
  /\ UNCHANGED dsn /\ Unedited

\* handleDsnDelete: refused while a migration or an alignment runs.
DeleteChecked(e) ==
  /\ editor[e].at = "idle" /\ Spend("edits")
  /\ \A i \in running : task[i].label \notin {"migrate", "schema_apply"}
  /\ \E c \in Sources \union {Target} :
       editor' = [editor EXCEPT ![e].at = "delete", ![e].code = c]
  /\ UNCHANGED dsn /\ Unedited

\* It ends here when the code is not in the list, or the file cannot be read.
DeleteLoads(e) ==
  /\ editor[e].at = "delete"
  /\ \/ /\ editor[e].code \in dsn
        /\ editor' = [editor EXCEPT ![e].at = "save", ![e].list = dsn \ {editor[e].code}]
     \/ /\ editor[e].code \notin dsn \/ BeingWritten
        /\ editor' = [editor EXCEPT ![e] = NoEdit]
  /\ Free /\ UNCHANGED dsn /\ Unedited

\* handleDsnAdd: a name or a connection that is there already is refused.  No
\* task keeps anyone from adding.
AddLoads(e) ==
  /\ editor[e].at = "idle" /\ Spend("edits")
  /\ \E c \in Sources \ dsn :
       editor' = [editor EXCEPT ![e] = [at |-> "save", code |-> c, list |-> dsn \union {c}]]
  /\ UNCHANGED dsn /\ Unedited

\* Both: the file is written, or it cannot be.
Saves(e) ==
  /\ editor[e].at = "save"
  /\ \/ Free /\ dsn' = editor[e].list
     \/ Spend("failures") /\ UNCHANGED dsn
  /\ editor' = [editor EXCEPT ![e] = NoEdit]
  /\ Unedited

-----------------------------------------------------------------------------
(* Submission.                                                             *)

\* handleMigrateStart: the sources are looked up, the target once and for all.
\* A source is an external database here; the program's own is always there.
CheckStart ==
  /\ starter.at = "idle" /\ Spend("migrations")
  /\ Target \in dsn
  /\ \E s \in dsn \ {Target} : starter' = [at |-> "submit", code |-> s]
  /\ UNCHANGED <<dsn, editor, aligner, canceller, mig, shown, target, aligned, exposed>>

\* The list has not the code, or an editor is about to write one without it.
AtRisk(c) ==
  \/ c \notin dsn
  \/ \E e \in Editors : \/ /\ editor[e].at = "delete"
                          /\ editor[e].code = c
                       \/ /\ editor[e].at = "save"
                          /\ c \notin editor[e].list

Exposed(i) == IF AtRisk(starter.code) THEN exposed \union {i} ELSE exposed

SubmitMigration(i) ==
  /\ starter.at = "submit"
  /\ Submit(i, "migrate")
  /\ \E mode \in {"replace", "skip"} :
       mig' = [mig EXCEPT ![i] = [NoRun EXCEPT !.at = "open", !.mode = mode,
                                               !.source = starter.code]]
  /\ starter' = [starter EXCEPT !.at = "publish"]
  /\ exposed' = Exposed(i)
  /\ UNCHANGED <<dsn, editor, aligner, canceller, shown, target, aligned, left>>

\* The task centre refuses.
RefuseMigration ==
  /\ starter.at = "submit"
  /\ \E j \in running : Conflicts("migrate", task[j].label)
  /\ starter' = Nobody
  /\ UNCHANGED <<dsn, editor, aligner, canceller, mig, shown, target, aligned, left,
                 exposed>>

\* The endpoints speak of the new migration only after it was submitted.
Publish ==
  /\ starter.at = "publish"
  /\ shown' = Max({i \in Ids : task[i].label = "migrate"})
  /\ starter' = Nobody
  /\ UNCHANGED <<dsn, editor, aligner, canceller, mig, target, aligned, left, exposed>>

\* DiffSchema, of which only the missing columns matter here.
DiffSchema == Tables \ aligned

\* handleMigrateSchemaApply: the statements are fixed before the submission;
\* with nothing to do there is no task.
AlignLooks ==
  /\ aligner = {} /\ Spend("alignments")
  /\ Target \in dsn /\ DiffSchema # {} /\ aligner' = DiffSchema
  /\ UNCHANGED <<dsn, editor, starter, canceller, mig, shown, target, aligned, exposed>>

\* The target is looked up once more.  That it is gone goes unnoticed here: the
\* body cannot open it.
SubmitAlignment(i) ==
  /\ aligner # {} /\ aligner' = {}
  /\ Submit(i, "schema_apply")
  /\ \E at \in {"ddl", "error"} :
       /\ at = "ddl" => Target \in dsn
       /\ at = "error" => Target \notin dsn \/ BeingWritten
       /\ mig' = [mig EXCEPT ![i] = [NoRun EXCEPT !.at = at, !.table = Min(aligner),
            !.status = [t \in Tables |-> IF t \in aligner THEN "pending" ELSE "done"]]]
  /\ UNCHANGED <<dsn, editor, starter, canceller, shown, target, aligned, left, exposed>>

\* The task centre refuses.
RefuseAlignment ==
  /\ aligner # {} /\ aligner' = {}
  /\ \E j \in running : Conflicts("schema_apply", task[j].label)
  /\ UNCHANGED <<dsn, editor, starter, canceller, mig, shown, target, aligned, left,
                 exposed>>

-----------------------------------------------------------------------------
(* Cancellation through the endpoints of the migration.                    *)

\* cancelTable: under the lock, a table that is still pending.
CancelTable(t) ==
  /\ shown # NoTask /\ mig[shown].status[t] = "pending"
  /\ mig' = [mig EXCEPT ![shown].status[t] = "cancelled"]
  /\ UNCHANGED <<dsn, editor, starter, aligner, canceller, shown, target, aligned, left,
                 exposed>>

\* The whole task: first the mark, then the request to the task centre.
MarkCancelled ==
  /\ shown # NoTask /\ canceller = NoTask /\ ~mig[shown].cancelled
  /\ mig' = [mig EXCEPT ![shown].cancelled = TRUE]
  /\ canceller' = shown
  /\ UNCHANGED <<dsn, editor, starter, aligner, shown, target, aligned, left, exposed>>

CancelMarked ==
  /\ canceller # NoTask /\ canceller' = NoTask
  /\ Cancel(canceller)
  /\ UNCHANGED <<dsn, editor, starter, aligner, mig, shown, target, aligned, left,
                 exposed>>

\* It has ended by then.
CancelTooLate ==
  /\ canceller # NoTask /\ canceller' = NoTask
  /\ task[canceller].status \in Terminal
  /\ UNCHANGED <<dsn, editor, starter, aligner, mig, shown, target, aligned, left,
                 exposed>>

-----------------------------------------------------------------------------
(* The body of a migration, task i.                                        *)

Body(i, at) == pc[i] = "body" /\ mig[i].at = at

Go(i, at) == mig' = [mig EXCEPT ![i].at = at]

Undisturbed == UNCHANGED <<dsn, editor, starter, aligner, canceller, shown>>

Same == Undisturbed /\ UNCHANGED exposed

FirstTable == Min(Tables)

NextTable(t) == IF t = Max(Tables) THEN 0 ELSE Min({u \in Tables : u > t})

\* sourceConn looks the source up again; then both connections are opened.
Open(i) ==
  /\ Body(i, "open")
  /\ \/ /\ mig[i].source \in dsn /\ Free
        /\ mig' = [mig EXCEPT ![i].at = "next", ![i].table = FirstTable]
     \/ /\ (mig[i].source \notin dsn \/ BeingWritten) /\ Free
        /\ mig' = [mig EXCEPT ![i].at = "error", ![i].lost = TRUE]
     \/ Spend("failures") /\ Go(i, "error")
  /\ exposed' = IF BeingWritten THEN exposed \union {i} ELSE exposed
  /\ UNCHANGED <<target, aligned>> /\ Undisturbed

IsCancelled(i) == task[i].ctx = "done" \/ mig[i].cancelled

\* The head of the loop.  Whether the table is still pending is read without
\* the lock, and acted upon later: see Claim.
NextOf(i) ==
  LET t == mig[i].table IN
  /\ Body(i, "next")
  /\ mig' = IF t = 0 THEN [mig EXCEPT ![i].at = IF mig[i].failed THEN "error" ELSE "ok"]
            ELSE IF IsCancelled(i)
            THEN [mig EXCEPT ![i].table = 0,
                   ![i].status = [u \in Tables |->
                     IF u >= t /\ mig[i].status[u] = "pending" THEN "cancelled"
                     ELSE mig[i].status[u]]]
            ELSE IF mig[i].status[t] # "pending"
            THEN [mig EXCEPT ![i].table = NextTable(t)]
            ELSE [mig EXCEPT ![i].at = "claim"]
  /\ Free /\ UNCHANGED <<target, aligned>> /\ Same

Claim(i) ==
  /\ Body(i, "claim")
  /\ mig' = [mig EXCEPT ![i].at = "columns", ![i].status[mig[i].table] = "running"]
  /\ Free /\ UNCHANGED <<target, aligned>> /\ Same

\* What migrateTable returns, and the rows it has counted.
TableEnds(i, err, rows) ==
  mig' = [mig EXCEPT ![i].at = "verdict", ![i].err = err,
                     ![i].rows[mig[i].table] = rows]

\* A column that the target lacks ends the table before anything is touched.
Columns(i) ==
  LET t == mig[i].table IN
  /\ Body(i, "columns")
  /\ \/ /\ t \in aligned /\ Free
        /\ Go(i, IF mig[i].mode = "replace" THEN "truncate" ELSE "batch")
     \/ /\ \/ t \notin aligned /\ Free
           \/ Fails(i)
        /\ TableEnds(i, TRUE, 0)
  /\ UNCHANGED <<target, aligned>> /\ Same

Truncate(i) ==
  LET t == mig[i].table IN
  /\ Body(i, "truncate")
  /\ \/ /\ Free /\ Go(i, "batch")
        /\ target' = [target EXCEPT ![t] = [copied |-> {}, held |-> {}, others |-> FALSE]]
     \/ Fails(i) /\ TableEnds(i, TRUE, 0) /\ UNCHANGED target
  /\ UNCHANGED aligned /\ Same

\* Rows m to n are inserted, with "skip" those left out whose key another row
\* has (INSERT IGNORE, ON CONFLICT DO NOTHING); with "replace" there is none.
Inserted(t, m, n) ==
  [target EXCEPT ![t].copied = @ \union ((m .. n) \ target[t].held)]

\* Mutant: what is left when the rows end is not written.
BatchForgets(i) ==
  LET t == mig[i].table
      done == mig[i].rows[t]
      end == Min({done + Batch, RowsOf[t]}) IN
  /\ Body(i, "batch")
  /\ IF done + Batch > RowsOf[t] THEN Free /\ Go(i, "reset") /\ UNCHANGED target
     ELSE \/ /\ Free /\ target' = Inserted(t, done + 1, end)
             /\ IF mig[i].cancelled THEN TableEnds(i, TRUE, end)
                ELSE mig' = [mig EXCEPT ![i].rows[t] = end]
          \/ Fails(i) /\ TableEnds(i, TRUE, done) /\ UNCHANGED target
  /\ UNCHANGED aligned /\ Same

\* A batch is one transaction, also the last, shorter one.  It is written, its
\* rows count whether they were left out or not, and it ends the table if the mark of cancellation is set; or it is not, although
\* the commit may have happened; or the source cannot be read on, and what was
\* read is written if that succeeds.
WriteBatch(i) ==
  LET t == mig[i].table
      done == mig[i].rows[t]
      end == Min({done + Batch, RowsOf[t]}) IN
  /\ Body(i, "batch")
  /\ \/ /\ done = RowsOf[t]
        /\ Free /\ Go(i, "reset") /\ UNCHANGED target
     \/ /\ done < RowsOf[t]
        /\ Free /\ target' = Inserted(t, done + 1, end)
        /\ IF mig[i].cancelled THEN TableEnds(i, TRUE, end)
           ELSE mig' = [mig EXCEPT ![i].rows[t] = end]
     \/ /\ done < RowsOf[t] /\ Fails(i)
        /\ TableEnds(i, TRUE, done)
        /\ target' \in {target, Inserted(t, done + 1, end)}
     \/ /\ Fails(i)
        /\ \E n \in done .. end : TableEnds(i, TRUE, n) /\ target' = Inserted(t, done + 1, n)
  /\ UNCHANGED aligned /\ Same

ResetAutoIncrement(i) ==
  LET rows == mig[i].rows[mig[i].table] IN
  /\ Body(i, "reset")
  /\ \/ Free /\ TableEnds(i, FALSE, rows)
     \/ Fails(i) /\ TableEnds(i, TRUE, rows)
  /\ UNCHANGED <<target, aligned>> /\ Same

\* Mutant: the status of a table that was cut short is left as it is.
VerdictLeftOut(i) == IF ~mig[i].err THEN "done"
                     ELSE IF IsCancelled(i) THEN "running" ELSE "failed"

VerdictOf(i) == IF ~mig[i].err THEN "done"
                ELSE IF IsCancelled(i) THEN "cancelled" ELSE "failed"

\* A table that failed does not keep the next one from being copied.
Verdict(i) ==
  LET t == mig[i].table  v == VerdictOf(i) IN
  /\ Body(i, "verdict")
  /\ mig' = [mig EXCEPT ![i].at = "next", ![i].table = NextTable(t), ![i].err = FALSE,
                        ![i].status[t] = v, ![i].failed = mig[i].failed \/ v = "failed"]
  /\ Free /\ UNCHANGED <<target, aligned>> /\ Same

\* runSchemaApply: one statement after the other, up to the first that fails;
\* what is there already counts as done.
ExecuteDdl(i) ==
  LET t == mig[i].table IN
  /\ Body(i, "ddl")
  /\ \/ /\ t = 0 /\ Free /\ Go(i, "ok") /\ UNCHANGED aligned
     \/ /\ t # 0 /\ task[i].ctx = "live" /\ Free
        /\ aligned' = aligned \union {t}
        /\ mig' = [mig EXCEPT ![i].status[t] = "done",
             ![i].table = LET rest == {u \in Tables : u > t /\ mig[i].status[u] = "pending"}
                          IN  IF rest = {} THEN 0 ELSE Min(rest)]
     \/ /\ t # 0 /\ Fails(i) /\ Go(i, "error") /\ UNCHANGED aligned
  /\ UNCHANGED target /\ Same

BodyStep(i) ==
  \/ Open(i) \/ NextOf(i) \/ Claim(i) \/ Columns(i) \/ Truncate(i) \/ WriteBatch(i)
  \/ ResetAutoIncrement(i) \/ Verdict(i) \/ ExecuteDdl(i)

\* The body returns what it has come to.
BodyReturns(i) ==
  /\ mig[i].at \in {"ok", "error"}
  /\ Return(i, IF mig[i].at = "ok" THEN "nil" ELSE "error")
  /\ UNCHANGED migVars

AdminStep ==
  \/ \E e \in Editors : DeleteChecked(e) \/ DeleteLoads(e) \/ AddLoads(e) \/ Saves(e)
  \/ CheckStart \/ RefuseMigration \/ Publish
  \/ AlignLooks \/ RefuseAlignment
  \/ MarkCancelled \/ CancelTooLate \/ \E t \in Tables : CancelTable(t)

-----------------------------------------------------------------------------
Migrations == {i \in Ids : task[i].label = "migrate"}

\* Of a table reported done every row has been counted, short last batch and
\* reruns over an interrupted copy included, and is in the target unless another
\* row there has its key; with "replace" there is no other row, so that all are
\* in it: the report of the last migration that ran holds (migrateTable).
DoneIsComplete ==
  \A i \in Migrations, t \in Tables :
    mig[i].status[t] = "done" /\ i = Max(Migrations)
      => /\ mig[i].rows[t] = RowsOf[t]
         /\ 1 .. RowsOf[t] \subseteq target[t].copied \union target[t].held
         /\ mig[i].mode = "replace" => target[t].held = {} /\ ~target[t].others

\* Once the body has returned no table is shown as running, and none as pending
\* unless the copy never began: cancellations by mark, by context and of single
\* tables, and failures of single tables leave no loose end (runMigration).
TablesSettle ==
  \A i \in Migrations, t \in Tables :
    pc[i] \in {"returned", "settled"}
      => /\ mig[i].status[t] # "running"
         /\ mig[i].status[t] = "pending" =>
              \A u \in Tables : mig[i].status[u] \in {"pending", "cancelled"}

\* A migration finds its source gone only if, when it was submitted, the list
\* had it not or an editor was about to write a list without it - having looked
\* at the running tasks before, or having read the list when the source was not
\* yet in it -, or if it looked while the file was being written.  No deletion
\* that begins later takes the source away (handleDsnDelete).
SourceLostByRaceOnly ==
  \A i \in Migrations : mig[i].lost => i \in exposed
=============================================================================
