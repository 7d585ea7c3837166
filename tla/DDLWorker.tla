------------------------------ MODULE DDLWorker ------------------------------
(***************************************************************************)
(* The DDL worker of package ddl (src/unnamed/part_002, lines 1-339).      *)
(*                                                                         *)
(* worker.start wakes on a ticker and calls handleJobQueue, which loops:   *)
(* each iteration runs one read-write meta transaction                     *)
(* (util.RunInNewUpdateTxnWithCancel) that peeks the head of the DDL job   *)
(* list and either archives a finished job or runs it.  A CreateSchema job *)
(* creates one document sequence per collection in transactions of their  *)
(* own (dml.CreateSequence), then writes the database, its collections,    *)
(* the schema version and a SchemaDiff inside the meta transaction.  When  *)
(* that transaction fails to commit the cancel callback is called, which   *)
(* calls the loop variable cancelFunc.  The loop variables schemaVersion,  *)
(* failNow, runJobErr and cancelFunc are declared once per handleJobQueue  *)
(* call and keep their values from one iteration to the next.             *)
(*                                                                         *)
(* Concurrently, DDL clients append jobs to the list in transactions of    *)
(* their own.  An append writes the list's meta key, which the worker's    *)
(* transaction has read, so badger aborts the worker's commit when an      *)
(* append committed after the worker's transaction started.  The process   *)
(* may crash; only committed KV state survives.                            *)
(*                                                                         *)
(* Data is abstracted: a job is its id, its kind, the name of the          *)
(* database it creates and the ids of its collections (one sequence each). *)
(***************************************************************************)
EXTENDS Naturals, Sequences, FiniteSets

CONSTANTS
  Jobs,          \* job ids
  Kind,          \* Kind[j]: "create" (ActionCreateSchema), "invalid"
                 \* (any other action type), or "nilColl" (CreateSchema
                 \* whose DBInfo.Collections holds a nil entry, on which
                 \* onCreateSchema panics at collection.ID)
  Name,          \* Name[j]: database name of a CreateSchema job
  Cols,          \* Cols[j]: collection ids whose sequences the job creates
  InitialQueue,  \* jobs already in DDLJobList when the worker starts
  MaxCrashes,    \* bound on process crashes
  NoRec,         \* history entry of a job not archived
  NoFunc         \* a nil cancelFunc

\* jobMaxErrorCount
JobMaxErrorCount == 3

States == {"none", "done", "synced", "cancelled", "cancelling", "rollbackdone"}
\* job.Error: no error, ErrDBAlreadyExists, invalid job type, or an error
\* of dml.CreateSequence.
Errs == {"nil", "exists", "invalid", "seq"}

JobRec == [id : Jobs, state : States, errCount : 0..JobMaxErrorCount,
           err : Errs]
LoopVars == [runJobErr : Errs, failNow : BOOLEAN,
             cancelFunc : Jobs \cup {NoFunc}]

VARIABLES
  queue,      \* DDLJobList: sequence of job records
  history,    \* DDLJobHistory: history[j] is the archived record or NoRec
  dbs,        \* jobs whose database (and collections) are committed
  version,    \* the schemaVersion counter
  diffs,      \* committed SchemaDiffs as <<version, job>>
  sequences,  \* collection ids whose document sequence exists
  enqueued,   \* jobs appended to the list so far
  enqVer,     \* number of committed appends to the list
  wpc,        \* worker: "idle", "body", "commit", or "dead" (crashed)
  loop,       \* handleJobQueue's loop variables
  txn,        \* the staged writes of the open meta transaction
  snapVer,    \* enqVer when the open meta transaction started
  crashes,    \* number of crashes so far
  nilCall     \* history: the cancel callback called a nil cancelFunc

vars == <<queue, history, dbs, version, diffs, sequences, enqueued, enqVer,
          wpc, loop, txn, snapVer, crashes, nilCall>>
metaVars == <<queue, history, dbs, version, diffs>>

NoTxn == [none |-> TRUE]
ZeroLoop == [runJobErr |-> "nil", failNow |-> FALSE, cancelFunc |-> NoFunc]
NewJob(j) == [id |-> j, state |-> "none", errCount |-> 0, err |-> "nil"]
HeadJob == queue[1]

TypeOK ==
  /\ queue \in Seq(JobRec)
  /\ history \in [Jobs -> JobRec \cup {NoRec}]
  /\ dbs \subseteq Jobs
  /\ version \in Nat
  /\ diffs \subseteq (Nat \X Jobs)
  /\ sequences \subseteq UNION {Cols[j] : j \in Jobs}
  /\ enqueued \subseteq Jobs
  /\ wpc \in {"idle", "body", "commit", "dead"}
  /\ loop \in LoopVars
  /\ crashes \in 0..MaxCrashes
  /\ nilCall \in BOOLEAN

Init ==
  /\ queue = [i \in DOMAIN InitialQueue |-> NewJob(InitialQueue[i])]
  /\ history = [j \in Jobs |-> NoRec]
  /\ dbs = {}
  /\ version = 0
  /\ diffs = {}
  /\ sequences = {}
  /\ enqueued = {InitialQueue[i] : i \in DOMAIN InitialQueue}
  /\ enqVer = 0
  /\ wpc = "idle"
  /\ loop = ZeroLoop
  /\ txn = NoTxn
  /\ snapVer = 0
  /\ crashes = 0
  /\ nilCall = FALSE

-----------------------------------------------------------------------------
(* The meta transaction.  The body runs against the worker's snapshot and   *)
(* stages its writes; nothing else writes the meta keys it touches except   *)
(* appends, which make the commit fail.                                     *)

Stage(q, h, d, v, df) ==
  /\ txn' = [queue |-> q, history |-> h, dbs |-> d, version |-> v,
             diffs |-> df]
  /\ snapVer' = enqVer
  /\ wpc' = "commit"

\* finishJob: DeQueueDDLJob, then AddHistoryDDLJob(job).
FinishJob(h, d, v, df) ==
  Stage(Tail(queue), [history EXCEPT ![h.id] = h], d, v, df)

\* updateJob: UpdateDDLJob(0, job).
UpdateJob(h, d, v, df) ==
  Stage([queue EXCEPT ![1] = h], history, d, v, df)

AfterRunJobNoError(h, lv, d, v, df) ==
  LET failed == lv.runJobErr # "nil"
      h1 == IF failed THEN [h EXCEPT !.errCount = @ + 1] ELSE h
  IN /\ loop' = lv
     /\ IF (failed /\ (lv.failNow \/ h1.errCount >= JobMaxErrorCount))
             \/ h1.state = "cancelled"
          THEN FinishJob(h1, d, v, df)
          ELSE UpdateJob(h1, d, v, df)

AfterRunJobNoCount(h, lv, d, v, df) ==
  LET failed == lv.runJobErr # "nil"
      h1 == IF failed THEN [h EXCEPT !.err = lv.runJobErr] ELSE h
  IN /\ loop' = lv
     /\ IF (failed /\ (lv.failNow \/ h1.errCount >= JobMaxErrorCount))
             \/ h1.state = "cancelled"
          THEN FinishJob(h1, d, v, df)
          ELSE UpdateJob(h1, d, v, df)

AfterRunJobOffByOne(h, lv, d, v, df) ==
  LET failed == lv.runJobErr # "nil"
      h1 == IF failed
              THEN [h EXCEPT !.errCount = @ + 1, !.err = lv.runJobErr]
              ELSE h
  IN /\ loop' = lv
     /\ IF (failed /\ (lv.failNow \/ h1.errCount > JobMaxErrorCount))
             \/ h1.state = "cancelled"
          THEN FinishJob(h1, d, v, df)
          ELSE UpdateJob(h1, d, v, df)

\* handleJobQueue after runJob: count the error, then finish the job when
\* failNow, after jobMaxErrorCount errors, or when it is cancelled;
\* otherwise update it in place.  lv is what the loop variables hold now.
AfterRunJob(h, lv, d, v, df) ==
  LET failed == lv.runJobErr # "nil"
      h1 == IF failed
              THEN [h EXCEPT !.errCount = @ + 1, !.err = lv.runJobErr]
              ELSE h
  IN /\ loop' = lv
     /\ IF (failed /\ (lv.failNow \/ h1.errCount >= JobMaxErrorCount))
             \/ h1.state = "cancelled"
          THEN FinishJob(h1, d, v, df)
          ELSE UpdateJob(h1, d, v, df)

\* job.IsFinished(): runJob returns at once for such a job.
Finished(h) == h.state \in {"done", "rollbackdone", "cancelled"}

NameTakenById(j) == j \in dbs

\* checkDBNameNotExists: a committed database already has this name.
NameTaken(j) == \E d \in dbs : Name[d] = Name[j]

-----------------------------------------------------------------------------
(* Worker actions.                                                         *)

\* worker.start: the ticker (or a notification on jobCh) fires and a new
\* handleJobQueue call starts with zeroed loop variables.
Wake ==
  /\ wpc = "idle"
  /\ wpc' = "body"
  /\ loop' = ZeroLoop
  /\ UNCHANGED <<metaVars, sequences, enqueued, enqVer, txn, snapVer,
                 crashes, nilCall>>

\* getFirstJob finds no job: nojob, handleJobQueue returns.
NoJob ==
  /\ wpc = "body"
  /\ queue = <<>>
  /\ wpc' = "idle"
  /\ UNCHANGED <<metaVars, sequences, enqueued, enqVer, loop, txn, snapVer,
                 crashes, nilCall>>

\* The head job is Done or RollbackDone: a Done job becomes Synced, and
\* the job is finished.
SyncJob ==
  /\ wpc = "body"
  /\ queue # <<>>
  /\ HeadJob.state \in {"done", "rollbackdone"}
  /\ LET h == IF HeadJob.state = "rollbackdone" THEN HeadJob
              ELSE [HeadJob EXCEPT !.state = "synced"]
     IN FinishJob(h, dbs, version, diffs)
  /\ UNCHANGED <<metaVars, sequences, enqueued, enqVer, loop, crashes,
                 nilCall>>

\* Guard shared by the runJob cases.
RunsJob(kind) ==
  /\ wpc = "body"
  /\ queue # <<>>
  /\ ~Finished(HeadJob)
  /\ Kind[HeadJob.id] = kind

\* runJob default branch: the job is cancelled with an error.
RunInvalidJob ==
  /\ RunsJob("invalid")
  /\ AfterRunJob([HeadJob EXCEPT !.state = "cancelled"],
                 [runJobErr |-> "invalid", failNow |-> FALSE,
                  cancelFunc |-> NoFunc], dbs, version, diffs)
  /\ UNCHANGED <<metaVars, sequences, enqueued, enqVer, crashes, nilCall>>

\* onCreateSchema panics on the nil collection after creating the
\* sequences of the collections before it (its deferred cleanup only runs
\* when err is set, and it is not).  RunWithRecovery sets the job
\* Cancelling; runJob's results are never assigned, so the loop variables
\* keep the values of the previous iteration.
RunPanickingJob ==
  /\ RunsJob("nilColl")
  /\ sequences' = sequences \cup Cols[HeadJob.id]
  /\ AfterRunJob([HeadJob EXCEPT !.state = "cancelling"], loop,
                 dbs, version, diffs)
  /\ UNCHANGED <<metaVars, enqueued, enqVer, crashes, nilCall>>

CreateSchemaExistsBumpsVersion ==
  /\ RunsJob("create")
  /\ NameTaken(HeadJob.id)
  /\ AfterRunJob(HeadJob, [runJobErr |-> "exists", failNow |-> TRUE,
                        cancelFunc |-> NoFunc], dbs, version + 1,
                 diffs \cup {<<version + 1, HeadJob.id>>})
  /\ UNCHANGED <<metaVars, sequences, enqueued, enqVer, crashes, nilCall>>

\* onCreateSchema: the name is taken, failNow with ErrDBAlreadyExists.
CreateSchemaExists ==
  /\ RunsJob("create")
  /\ NameTaken(HeadJob.id)
  /\ AfterRunJob(HeadJob, [runJobErr |-> "exists", failNow |-> TRUE,
                        cancelFunc |-> NoFunc], dbs, version, diffs)
  /\ UNCHANGED <<metaVars, sequences, enqueued, enqVer, crashes, nilCall>>

\* onCreateSchema: a dml.CreateSequence fails; the deferred cleanup cf
\* drops the sequences of all the job's collections (retrying until it
\* succeeds) and the error is returned.
CreateSchemaSeqFails ==
  /\ RunsJob("create")
  /\ ~NameTaken(HeadJob.id)
  /\ sequences' = sequences \ Cols[HeadJob.id]
  /\ AfterRunJob(HeadJob, [runJobErr |-> "seq", failNow |-> FALSE,
                        cancelFunc |-> NoFunc], dbs, version, diffs)
  /\ UNCHANGED <<metaVars, enqueued, enqVer, crashes, nilCall>>

\* onCreateSchema succeeds: sequences created and committed, database and
\* collections staged, updateSchemaVersion (GenSchemaVersion, SetSchemaDiff)
\* staged, the job Done, and cancelFunc = cf.
CreateSchemaOk ==
  /\ RunsJob("create")
  /\ ~NameTaken(HeadJob.id)
  /\ sequences' = sequences \cup Cols[HeadJob.id]
  /\ AfterRunJob([HeadJob EXCEPT !.state = "done"],
                 [runJobErr |-> "nil", failNow |-> FALSE,
                  cancelFunc |-> HeadJob.id],
                 dbs \cup {HeadJob.id}, version + 1,
                 diffs \cup {<<version + 1, HeadJob.id>>})
  /\ UNCHANGED <<metaVars, enqueued, enqVer, crashes, nilCall>>

\* txn.Commit succeeds: the staged writes become visible, and
\* handleJobQueue goes round its loop (after the 1s back-off and
\* waitSchemaChanged, which only sleep).
CommitOk ==
  /\ wpc = "commit"
  /\ snapVer = enqVer
  /\ queue' = txn.queue
  /\ history' = txn.history
  /\ dbs' = txn.dbs
  /\ version' = txn.version
  /\ diffs' = txn.diffs
  /\ wpc' = "body"
  /\ txn' = NoTxn
  /\ UNCHANGED <<sequences, enqueued, enqVer, loop, snapVer, crashes,
                 nilCall>>

\* txn.Commit fails with a conflict: the cancel callback calls cancelFunc,
\* whatever job set it, and handleJobQueue returns the error.
CommitConflict ==
  /\ wpc = "commit"
  /\ snapVer # enqVer
  /\ loop.cancelFunc # NoFunc
  /\ sequences' = sequences \ Cols[loop.cancelFunc]
  /\ wpc' = "idle"
  /\ txn' = NoTxn
  /\ UNCHANGED <<metaVars, enqueued, enqVer, loop, snapVer, crashes, nilCall>>

\* The same with a nil cancelFunc: the call panics in the worker goroutine,
\* which has no recovery, and the process dies.
CommitConflictNilFunc ==
  /\ wpc = "commit"
  /\ snapVer # enqVer
  /\ loop.cancelFunc = NoFunc
  /\ nilCall' = TRUE
  /\ wpc' = "dead"
  /\ txn' = NoTxn
  /\ UNCHANGED <<metaVars, sequences, enqueued, enqVer, loop, snapVer,
                 crashes>>

-----------------------------------------------------------------------------
(* The environment.                                                        *)

\* A DDL client appends job j (EnQueueDDLJob in a committed transaction).
EnQueueDDLJob(j) ==
  /\ j \notin enqueued
  /\ queue' = Append(queue, NewJob(j))
  /\ enqueued' = enqueued \cup {j}
  /\ enqVer' = enqVer + 1
  /\ UNCHANGED <<history, dbs, version, diffs, sequences, wpc, loop, txn,
                 snapVer, crashes, nilCall>>

\* The process crashes: the open transaction is lost.
Crash ==
  /\ wpc # "dead"
  /\ crashes < MaxCrashes
  /\ crashes' = crashes + 1
  /\ wpc' = "dead"
  /\ txn' = NoTxn
  /\ UNCHANGED <<metaVars, sequences, enqueued, enqVer, loop, snapVer,
                 nilCall>>

\* The server is started again and a new worker begins.
Restart ==
  /\ wpc = "dead"
  /\ wpc' = "idle"
  /\ UNCHANGED <<metaVars, sequences, enqueued, enqVer, loop, txn, snapVer,
                 crashes, nilCall>>

WorkerStep ==
  \/ Wake \/ NoJob \/ SyncJob
  \/ RunInvalidJob \/ RunPanickingJob
  \/ CreateSchemaExists \/ CreateSchemaSeqFails \/ CreateSchemaOk
  \/ CommitOk \/ CommitConflict \/ CommitConflictNilFunc

Next ==
  \/ WorkerStep
  \/ \E j \in Jobs : EnQueueDDLJob(j)
  \/ Crash
  \/ Restart

Spec == Init /\ [][Next]_vars

\* The ticker keeps firing and nothing in the loop blocks, so the worker
\* keeps taking steps; a crashed server is started again.  Clients are
\* not obliged to submit jobs.
FairSpec == Spec /\ WF_vars(WorkerStep) /\ WF_vars(Restart)

-----------------------------------------------------------------------------
(* Properties.                                                             *)

\* Every schema version the worker commits comes with its SchemaDiff and
\* a database created under it: across retries, failed commits, stale
\* loop variables and crashes, each committed database bumped the
\* version exactly once (updateSchemaVersion runs in the same transaction
\* as CreateDatabase).
SchemaVersionConsistent ==
  /\ version = Cardinality(dbs)
  /\ {d[1] : d \in diffs} = 1..version
  /\ {d[2] : d \in diffs} = dbs

\* No two committed databases share a name: checkDBNameNotExists runs in
\* the same transaction that creates the database, jobs run one at a time,
\* and a retried or duplicated job must not create a second database.
DBNamesUnique ==
  \A d1, d2 \in dbs : Name[d1] = Name[d2] => d1 = d2

\* checkJob panics when the archived job is neither Synced nor carries an
\* error ("When the state is JobStateRollbackDone or JobStateCancelled,
\* historyJob.Error should never be nil").  The worker must never archive
\* such a job.
CheckJobNeverPanics ==
  \A j \in Jobs : history[j] # NoRec =>
      history[j].state = "synced" \/ history[j].err # "nil"

\* Every collection of a committed database has its document sequence:
\* the cleanup that drops sequences must only undo a CreateSchema whose
\* transaction did not commit.
CommittedSchemaHasSequences ==
  \A d \in dbs : Cols[d] \subseteq sequences

\* The cancel callback given to RunInNewUpdateTxnWithCancel never calls a
\* nil cancelFunc (spec: the cleanup registered by runJob is invoked "if
\* any" when the commit fails).
NoNilCancelCall == ~nilCall

\* Every job appended to the list is eventually archived in the history,
\* where checkJob finds it: retries of a failing job end after
\* jobMaxErrorCount errors, and no job blocks the head of the list.
JobsEventuallyArchived ==
  \A j \in Jobs : (j \in enqueued) ~> (history[j] # NoRec)
=============================================================================
