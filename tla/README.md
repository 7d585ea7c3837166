# TLA+ models of kvrpc

These modules model the concurrent and failure-prone parts of kvrpc, which is
a KV RPC server over badger with a document layer (collections, a DDL worker
and id sequences) on top. They are checked with TLC. Each module says which
source lines it translates, and `PROJECT.json` maps every definition to its
lines.

## The system and its parts

| Part | Source | State | Operations | Interacts with |
|---|---|---|---|---|
| Sequence | `src/unnamed/part_002` 340-448 | persisted counter under the key; in memory `next`, `leased`; a mutex | `NewSequence`, `Next` (`updateLease` inside it), `ReleaseRemaining` | KV transactions; every Collection owns one; DB handles on one store share the key |
| DDL worker | `src/unnamed/part_002` 1-339 | job list, job history, schema records, schema version and diffs (all in the meta KV); the loop variables of `handleJobQueue` | `start` (ticker / `jobCh`), one `handleJobQueue` iteration per meta transaction: sync or finish, `runJob` → `onCreateSchema`, error counting, `updateJob`/`finishJob`, commit, and the cancel callback on a failed commit | submitters appending jobs; `CreateSequence`/`DropSequenceIfExists` in their own transactions; `checkJob` reading history |
| Collection | `src/document/collection.go` | documents under their keys | prologue (`checkState`, `closer.Add`), `InsertOne`, `UpdateOne`/`UpsertOne` (`updateOne`), `DeleteOne`, `GetOne`, `GetMany`, `close`, each one-shot or in a caller-supplied transaction the caller commits or discards | the Sequence for ids; the DB's closer and `Close` |
| Meta store | `src/document/meta/meta.go` | the `nextGlobalID` counter; the hash `dbs` of databases; one hash per database of collections and auto-id counters | `GenGlobalID(s)`, `GenAutoCollectionID`, create/update/drop of databases and collections, gets and lists | runs inside the caller's transaction (DDL worker, server); concurrent callers meet at commit |
| Client transaction | `src/client/client_txn.go` | one RPC stream per transaction | `Set`, `Get`, `Delete`, `Scan`, `Commit`, `Discard` | the server's stream handlers |
| Server | `src/server/server.go` | KV store and RPC server | `New`, `Start`, `Stop` | client streams |
| Provider txn | `src/unnamed/part_001` | a badger transaction | thin wrappers | the substrate of all of the above |

The substrate is the same in every module. Badger transactions read a
snapshot taken when they start. A commit aborts with `ErrConflict` when a key
the transaction read was committed by another transaction after that start.
A transaction that reads nothing never conflicts.

## What is hard here

- **Sequence.** `updateLease` stores the value it reads into `s.next` before
  `Set` and `Commit`. On a failed commit it restores only `s.leased`.
  Several DB handles on one store have separate Sequence objects for the same
  key, and their lease refreshes race. Only the persisted counter survives a
  crash. `ReleaseRemaining` never commits its write.
- **DDL worker.** The loop variables of `handleJobQueue` are declared once
  per call, so they carry values from one iteration to the next. The
  commit-failure callback calls `cancelFunc()` unconditionally.
  `onCreateSchema` creates sequences in separately committed transactions.
  A panic sets the job to Cancelling, and nothing moves such a job on. A job
  finished by `failNow` or by the error limit keeps state None.
- **Collection.** There is a race between the prologue and `Close`.
  `updateOne` reads `Exists` and then writes, so a concurrent delete matters.
  `InsertOne` does a blind `Set`, trusting the sequence to give a fresh id.
  With a transaction the caller supplied, a call returns, and its deferred
  `closer.Done` runs, before its write commits. The caller commits later,
  racing other callers' writes and `Close`.
- **Meta store.** `globalIDMutex` is released when `GenGlobalID` returns,
  long before the caller commits. So uniqueness of ids, like that of auto ids
  and the absence of collections of a dropped database, rests on badger's
  commit conflicts, and on which keys each `TxStructure` operation reads.
- **Client transaction.** Responses are paired with requests only by their
  order on the stream. The first response comes from `GetFrame()`, which
  reports a closed stream as an error. Later ones come from `FrameCh()`,
  which yields `nil` instead, and every parse but `Discard`'s dereferences
  it. `Commit` and `Discard` are no-ops until a request opened the stream.
  The server may fail the connection, and `Stop` closes the KV store before
  the listener. A write on an open stream (`sw.EndWrite`) may report an
  error for a frame the server still reads. The method then returns without
  reading that response, and a caller that keeps using the `Txn` shifts the
  pairing: its next call, `Commit` included, reads the previous request's
  response.

## Modules

| Module | Models | Composes |
|---|---|---|
| `IdAllocator` | abstract spec of `Sequence.Next`: positive ids, unique across owners, increasing per owner | — |
| `Sequence` | Sequence objects sharing one key, with crash/restart | refines `IdAllocator` |
| `DDLWorker` | the worker loop, job submitters, the meta transaction and crash/restart | — |
| `Collection` | callers making CRUD calls, the close barrier, reopen and crash | `INSTANCE Sequence` for the document sequence |
| `MetaStore` | sessions calling the Meta methods in badger transactions over `TxStructure` hashes | refines `AtomicMeta` |
| `AtomicMeta` | abstract spec of the meta store: each commit applies its calls atomically, in commit order | — |
| `StreamTxn` | client `Txn`s on one connection, the server's stream handlers, connection failure, `Start` and `Stop` | — |
| `MCSequence`, `MCDDLWorker`, `MCCollection`, `MCMetaStore`, `MCStreamTxn` | model values and definitions for TLC | — |

### Sequence

The variables are as follows:

- `persisted` is the value under the key.
- `kvVer` counts the commits of the key.
- `next[i]` and `leased[i]` are the fields of object `i`.
- `pc[i]` is `"leasing"` while `updateLease`'s transaction is open. The
  object's mutex is held for the whole of `Next`, so no other step of `i`
  runs meanwhile.
- `txnVer[i]` is the snapshot version of that transaction.
- `issued[i]` is a history variable recording the ids that object `i`'s
  `Next` returned.

The actions are:

- `NextInLease` is the `next < leased` path.
- `UpdateLease` covers the read and `s.next = persisted`. The `Set` either
  succeeds or fails; when it fails, `Next` returns the error.
- `LeaseCommit` is a successful commit followed by `s.next++`.
- `LeaseConflict` is a failed commit. It restores `leased` and keeps `next`.
- `ReleaseRemaining` sets `leased = next`. Its write is discarded.
- `Restart` models a crash: every object is rebuilt by `NewSequence`.

`Allocator == INSTANCE IdAllocator WITH Owners <- Instances` is the
refinement mapping. `issued` maps identically, and `AllocatorSpec` is checked
as a PROPERTY.

### DDLWorker

Jobs are records with `id`, `state`, `errCount` and `err`. The meta
variables are:

- `queue`, the job list;
- `history`, the archived jobs;
- `dbs`, the committed databases;
- `version` and `diffs`, the schema version and the schema diffs;
- `sequences`, which lives outside the meta transaction;
- `enqueued` and `enqVer`, which record job appends by submitters.

The worker's variables are:

- `wpc`: idle, body, commit, or dead after a crash or panic;
- `loop`: the loop variables `runJobErr`, `failNow` and `cancelFunc`;
- `txn`: the staged writes of the iteration;
- `snapVer`: the job-list version of its snapshot.

The iteration is modelled as a body step, then a commit step.

Body steps:

- `NoJob`: the queue is empty.
- `SyncJob`: the head job is Done or RollbackDone, so it is synced and
  archived.
- `RunInvalidJob`: the job type is unknown.
- `RunPanickingJob`: `runJob` panics, which sets the job to Cancelling.
- `CreateSchemaExists`, `CreateSchemaSeqFails`, `CreateSchemaOk`: the three
  outcomes of `onCreateSchema`.

Each body step ends in `AfterRunJob`, which is lines 98-114: count the error,
then call `finishJob` or `updateJob`.

Commit steps:

- `CommitOk`.
- `CommitConflict`: a submitter appended a job after the snapshot, and the
  callback ran a non-nil `cancelFunc`, which drops that job's sequences.
- `CommitConflictNilFunc`: the same conflict with a nil `cancelFunc`; the
  panic kills the process.

The environment has three more actions:

- `EnQueueDDLJob`, a job submission;
- `Crash`;
- `Restart`, a new process that calls `newWorker` and `start`.

### Collection

The Sequence's variables are shared through `S == INSTANCE Sequence WITH
Instances <- {SeqObj}`. The collection's own variables are:

- `docs`, the present document keys;
- for each caller `c`: `cpc[c]`, `op[c]` and `did[c]`, plus `dirty[c]`,
  which is set when another commit wrote `c`'s document key after `c`'s
  transaction started, and `own[c]`, set when `c`'s call runs in a
  transaction `c` supplied (`txn != nil`);
- `count`, `closing` and `closed`, the closer and the DB state;
- history variables that the properties read.

Every action runs the whole code path. `InsertNext`, `InsertUpdateLease` and
`InsertLeaseCommit` call the Sequence's actions. A failed `Set` in
`updateLease` returns the call. The other actions are:

- `InsertCommit`;
- `UpdateRead`, `UpdateNotExists`, `UpdateCommit`, `UpdateConflict`;
- `DeleteOne`;
- `GetOne`, which also stands for `GetMany`, since both only read;
- the prologue steps `CheckState`, `CloserAdd` and `CloserAddFails`;
- `CloseBegin` and `CloseEnd`. `CloseEnd` runs `collection.close`, which
  calls `ReleaseRemaining`;
- `ReopenAfterClose` and `Crash`;
- `StageInCallerTxn`, the `txn != nil` path: the `Set` or `Delete` is staged
  without a commit, the call returns and releases the closer, and the caller
  holds the pending write (`cpc[c] = "held"`);
- `CallerCommit` and `CallerDiscard`, the caller ending its transaction.
  A commit needs the KV store open and, for `updateOne`, no write to the key
  since the transaction began. A discard also stands for a failed commit.

The constants `OwnCallers` and `OwnOps` say which callers may supply a
transaction and for which calls. The one-shot actions require `~own[c]`.

`DB.Close`, `checkState` and the closer are not under `src/`. They are
modelled from the spec (sections 4.4 and 9).

### MetaStore

Keys are `nextGlobalID`, each hash's meta key (its field count, as in the
`structure` package `TxStructure` comes from) and each hash field. The
variables are as follows:

- `kv` is the committed store.
- `tx[s]` is session `s`'s open transaction: its snapshot, read set `r`,
  write buffer `w`, the number of Meta calls made, the `log` of the calls
  that changed `w`, and `stale`, the keys committed by others since it
  began. `stale` takes the place of badger's commit timestamps.
- `last` is a history variable: the log of the last committed transaction.
- `gids`, `autos` and `created` are history variables, and `dupGid` and
  `dupAuto` record a repeated id.

`Num`, `Rd`, `Touch` and `Put` are the badger reads and writes. `Inc`,
`HSet`, `HDel`, `HClear` and `HGetAll` are the `TxStructure` operations,
with the reads each performs. Each Meta method (`GenGlobalIDs`,
`CreateDatabase`, `UpdateDatabase`, `CreateCollection`, `UpdateCollection`,
`DropDatabase`, `DropCollection`, `GenAutoCollectionID`, `ListCollections`,
`ListDatabases`, `GetDatabase`, `GetCollection`) is an operator that takes
the transaction record and runs the method's checks and early returns, then
its writes. `Apply` dispatches a call (a tuple from `Calls`), and the action
`Call(s, o)` applies one call in `s`'s transaction. A failed check leaves its
reads in the read set, and the caller may go on or discard.

`AtomicMeta` is what the store promises: every commit is a batch of calls
run alone on the committed store. `MetaSerializable` instantiates it with
`store <- kv` and `batch <- last`, and `Run` replays a log with the same
`Apply` in a fresh transaction on the store the commit lands on. A method
bug is therefore on both sides of the refinement, and the refinement
catches read-set bugs: a write that depends on a key the method never read
in the transaction. The log leaves out calls that did not change `w`:
replayed with the keys they read unchanged, they write nothing either. `Begin`, `Commit`,
`CommitConflict` and `Discard` are the transaction's life. Collection ids
are never reused, because the code takes them from `GenGlobalID`.

### StreamTxn

The client variables per transaction are:

- `update`: the transaction's mode;
- `cpc`: `ready`, `wait` (blocked in `getRespFrame`), `done`, or `panic`;
- `cop`: the call in progress;
- `sw` and `ff`: `txn.sw` and `txn.firstFrame` set;
- `cres`: what `Commit` returned.

`req[c]` and `resp[c]` are the stream's frames in each direction. `conn`
is the connection. `phase` is the server's `new` (not yet started),
`running`, `openFailed` (`Start`'s `kvdb.Open` failed, so it never listens),
`kvClosed` (`Stop`'s `kvdb.Close`) or `stopped` (`Shutdown`). `late`
counts the writes that reported an error after their frame left. A new stream
needs the server listening, so calls made before `Start`, or after a failed
`Open`, fail in `request`. `sst` and `stx` are each stream's
server state and KV transaction, and `kv` is the committed value of the one
key.

The client actions are `Set`, `Get`, `Delete`, `Scan` (including its
`Limit <= 0` return), `Commit` and `Discard`. Each goes through `Call`, which
holds the read-only rejection, the no-op check (`IsNoop`) and `request`
(`Request` / `RequestFails` / `RequestLateError`). `RequestLateError` is an
`EndWrite` on an open stream that returns an error although the frame
reached the server. That is an assumption about qrpc's writer (a write
timeout), which is not under `src/`. `RequestFails` is a write whose frame
was lost. `Receive` is `getRespFrame` with the parse of
the frame. The server actions are:

- `Serve`: the mux for a first frame, then `Handle` for each command;
- `PeerClosed`: discard a stream whose peer went away;
- `Start`, `ConnFail`, `StopCloseKV` and `StopShutdown`.

The handlers and qrpc are not under `src/`, so they are modelled from spec
section 4.5. `Reply` sends one frame per request. A KV operation after
`kvdb.Close` answers with an error code. `ParseCommitResp` maps a non-zero
code to the commit's error.

## Runs

| Run | Config | Expect | Shows |
|---|---|---|---|
| seq_safety | `MCSequence.cfg` | pass | Two objects on one key, racing lease refreshes, failed Sets, release and crashes: the refinement of `IdAllocator` holds (`AllocatorSpec`), and every issued id is covered by the persisted lease (`LeaseCoversIssued`). |
| ddl_safety | `MCDDLWorker.cfg` | pass | Against concurrent submissions and two crashes: schema version, diffs and databases agree (`SchemaVersionConsistent`); names are unique (`DBNamesUnique`); no archived job would make `checkJob` panic (`CheckJobNeverPanics`). |
| ddl_stale_cancel | `MCDDLWorkerStaleCancel.cfg` | violation | A stale `cancelFunc` drops the sequences of a committed database. |
| ddl_nil_cancel | `MCDDLWorkerNilCancel.cfg` | violation | The callback calls a nil `cancelFunc`. |
| ddl_liveness | `MCDDLWorkerLive.cfg` | pass | Every queued job is eventually archived, with invalid and failing jobs, jobs submitted while the worker runs, and two crashes. |
| ddl_stuck | `MCDDLWorkerStuck.cfg` | violation | A panicking job blocks the queue forever. |
| coll_safety | `MCCollection.cfg` | pass | Close drains all calls (`CloseDrains`); InsertOne never reuses an id across reopen and a crash (`InsertIdsFresh`); UpdateOne never creates a document (`UpdateNeverCreates`). |
| coll_close_liveness | `MCCollectionLive.cfg` | pass | A begun Close always finishes. |
| coll_release_persists | `MCCollectionRelease.cfg` | violation | Close does not persist the released lease. |
| meta_safety | `MCMetaStore.cfg` | pass | Two sessions interleaving every Meta call: global ids (`GlobalIDsUnique`) and auto ids (`AutoIDsUnique`) are never handed to two committed transactions; no collection or auto-id key outlives its database (`NoOrphanCollections`); every commit changes the store exactly as its calls would alone, one transaction after the other in commit order (`MetaSerializable`, the refinement of `AtomicMeta`). |
| stream_txn | `MCStreamTxn.cfg` | pass | Two transactions on one connection that may fail, with one stream write that may report an error after its frame left, against a server that may stop: no stream opens with an opcode the mux cannot serve (`FirstFrameHasHandler`); every blocked call returns (`EveryCallReturns`). |
| stream_nil_frame | `MCStreamTxnNilFrame.cfg` | violation | After a first response, the connection fails and the next call dereferences the nil frame `FrameCh()` yields (`NoNilFrameDeref`): the client panics instead of returning an error. |

Three observations are described as hazards in `PROJECT.json`, with no run
of their own:

- `updateLease` leaves `next > leased` after a failed commit.
- A job finished by `failNow` is archived in state None.
- `InsertOne`'s blind `Set` would replace a document upserted at an id the
  sequence has not issued.

The properties that matter to callers of these paths are checked instead:
`AllocatorSpec`, `CheckJobNeverPanics` and `InsertIdsFresh`. Callers in
`Collection` name only ids the sequence issued.

Each property of a passing run has a mutant in `PROJECT.json`. A mutant is a
plausible bug in the mapped definition, and TLC finds the property violated
under that run's config.

### Bounds

- **Sequence.** Two instances, with symmetry; this is sound because only
  safety is checked. `Bandwidth = 2`, so both the in-lease path and the
  refresh path occur. `MaxLease = 8`, which gives four leases. `Restart` is
  unbounded because the counter bounds everything.
- **DDLWorker.** Four jobs: two create the same database name, one is
  invalid, panicking or a further create, and the fourth creates a database
  with that third job's name. The safety and liveness runs have up to two
  crashes, and jobs are submitted while the worker runs, so a crash can
  land before and after a retried commit (about 127,000 and 121,000
  states). The violation runs have no crash.
  `jobMaxErrorCount` is the code's 3, so the error limit is reached.
- **Collection.** Two callers making every kind of call, with
  `Bandwidth = 2` and `MaxLease = 6`. An insert starts only while every
  caller could still take a lease, so the bounded counter cannot block a call
  midway. There is one crash. Caller `a` may run `UpdateOne` and `DeleteOne`
  in its own transaction (`OwnOps`). These are the calls whose pending write
  races the other caller's `updateOne`. Own-transaction `InsertOne` and
  `UpsertOne` take the same `StageInCallerTxn` path. Allowing them too, or
  both callers, took the safety run past 5 minutes (17 to 73 million
  states). The safety run has about 6.3 million states and the liveness run
  about 1.05 million.
- **MetaStore.** Two sessions (symmetric), one database, one collection and
  two Meta calls per transaction. Counters reach `MaxId = 2`, so two
  `GenGlobalID` calls, or two auto ids, can race for the same value. A drop
  can race a create, or a create can race an auto-id bump, on the same
  hash. Two collections made the run exceed 15 minutes without adding a
  case, because the hashes' counts are per database. The run has about
  975,000 states. `MCView` leaves `last` out of the state's fingerprint:
  the refinement check of a commit step reads only the log of that commit,
  so states that differ only in `last` have the same futures and the same
  checks.
- **StreamTxn.** Two transactions of either mode, and two calls each
  before `Commit` or `Discard`, so a transaction can write and then commit
  against the other, or write twice with the second write failing late
  (`MaxLateErrors = 1`). The connection fails at most once, which closes
  every stream. There is one `Start`, which may fail, and one `Stop`. The
  run has about 850,000 states. Three calls each, with the late write error,
  took more than 6 minutes. Deadlock is not checked, because the system really stops once
  both transactions ended and the server stopped.

### Fairness

- **DDLWorker.** `FairSpec` puts weak fairness on the worker's steps and on
  `Restart`. The ticker in `worker.start` fires forever, and the process is
  restarted after a crash. Submitters have no fairness.
- **Collection.** `FairSpec` puts weak fairness on the steps of a call that
  has started, because nothing in a call blocks except the sequence mutex.
  It also puts weak fairness on `CloseEnd`, because `Close` waits only on
  calls in flight. Callers are never forced to start calls.
- **StreamTxn.** Weak fairness on `Receive`, `Serve` and `PeerClosed`. The
  client goroutine is blocked on a channel that becomes ready, and each
  stream's handler goroutine reads the frames it was sent. The connection
  failure and `Stop` get no fairness, so a server that stays in `kvClosed`
  forever is a behaviour `EveryCallReturns` must survive.

## Not modelled, and why

- **Meta store, partly.** `GenSchemaVersion`, `GetSchemaVersion`,
  `GetGlobalID` and `GetAutoCollectionID` are not calls. With the two
  getters added, the keys they read double the state space (2 million
  states, over five minutes), and they only read. The schema
  version is modelled inside `DDLWorker`, whose meta transaction abstracts
  the same keys as `dbs`, `version` and `diffs`. `DDLWorker` is not composed
  with `MetaStore`, because both runs are near TLC's five-minute budget.
- **TxStructure and badger.** These are not under `src/`. They are modelled
  from the semantics of the `structure` package and of badger's optimistic
  transactions.
- **Server command handlers and qrpc.** These are not under `src/`. They
  are modelled in `StreamTxn` from spec section 4.5.
- **Exists.** The client `Txn` has no `Exists`, so it never reaches the
  server's `Exists` handler in this model.
- **checkJob, notifyWorker, waitSchemaChanged.** These only wait, read or
  wake. A dropped notification only delays the worker, because the model's
  `Wake` may happen at any time, as the ticker's does.
- **Own-transaction `InsertOne` and `UpsertOne`.** `StageInCallerTxn` and
  `CallerCommit` model them, but the runs leave them out of `OwnOps` to stay
  within the time budget (see Bounds).
- **What a Commit reports after a late write error.** No property checks
  it. With `RequestLateError`, TLC finds a `Commit` that returns nil by
  reading the previous `Set`'s response before the server has handled the
  commit, which may then conflict. A `Commit` whose own write failed late
  returns an error for a commit the server may apply. Both depend on when
  qrpc's `EndWrite` reports an error, and qrpc is not under `src/`, so they
  are recorded as hazards, not as findings. `Stop`'s early return when
  `kvdb.Close` fails is also left out, because what badger does after a
  failed `Close` is not under `src/`.
- **Formatting and encodings.** The BSON, JSON, protobuf, key and varint
  encodings are left out, because no property depends on them.
- **Provider txn (`src/unnamed/part_001`).** These are thin wrappers that
  rename badger errors. Their semantics are the substrate of every module.
- **Integration tests.** These are not modelled.

## Plan for the remaining parts

1. Compose `DDLWorker` with `MetaStore`, so that the worker's
   `CreateDatabase` and schema-version bump go through the meta actions.
2. `GetGlobalID` and `GetAutoCollectionID` in `MetaStore`, in a run of
   their own if the run budget allows one.
3. An abstract `IdealTxn` (serializable, atomic commit or discard), with
   `StreamTxn`'s server side shown to refine it.
4. `GenSchemaVersion` and the DDL worker's use of it, once the composed
   state fits the budget.
