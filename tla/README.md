# Verification of SearchEngine

TLA+ specifications of the SearchEngine server (`src/`), the TLC runs that check
them on small instances, and proofs that TLAPS checks for every instance.

Every definition is a translation of the lines `PROJECT.json` maps it to. Control
(guards, early returns, error paths, order of steps, what is done under which lock
or on which executor) is kept; data is abstracted to what the properties tell apart.

## 1. The system

SearchEngine is a Windows service that indexes directories of text files and
answers word queries over TCP; the same repository holds a backup service and
installation tools.

| part | state | operations | talks to |
|---|---|---|---|
| `Index/Batch/BatchIndexBuilder` | job counter, lanes, idle workers, private dictionaries, first error | `build` with its reader and indexer threads | called by `InvertedIndex::updateDocumentBaseBatch` |
| `Index/InvertedIndex` | word numbers, postings in chunks, `wordRefs`, `updateMutex`, `work`, deferred paths, count of async operations, storage failure | `enqueueFileUpdate`, `enqueueFileDeletion`, `updateDocumentBase`, `compact`, `saveIndex`, `requestStop`, `waitForIdle` | `strand_` (over `io_commit`), `cpu_pool_`, catalog, serializer |
| `Index/DocPaths`, `DocumentCatalog` | path, id, mtime, size, deleted mark | `upsert`, `getUpdate`/`scan`, `markRemoved` | index, SQLite |
| `Index/SQLiteIndexSerializer` | operation queue, writer thread, error, flush and checkpoint requests | `writeFile`, `markFileDeleted`, `flushPending`, `checkpoint`, load | index |
| `SearchServer` | `updateM`, `searchM`, `cv_search_server`, four flags, operation count | `getAnswer`, `updateStep`, `flushUpdateAndSaveDictionary`, `addFileToIndex`, `removeFileFromIndex`, `stop` | index, scheduler, sessions |
| `FileWatcher` | directory handles, pending events per path | watch threads, `pushFileEvent`, `flushPending` | index commands |
| `scheduler` | timers, active runs | `scheduleNext`, `dispatchRun`, stop and wait | `updateStep`, `flushPending` |
| `AsioServer`, `Commands`, `Auth` | sessions, uploads, client store | one command at a time per session, run on `cpu_pool_` | search server, SQLite, files |
| `Application` | runtime objects, stop flag | start, `shutdownRuntime` | everything |
| `Backup` | snapshots, mirror with objects and restore points, cache | `runOnce`, publish, collect, restore | file system |
| `tools` | service archive, runtime data transaction, tokens | command line | file system |

What is hard about it:

* *three executors and two facades.* A point update of one file hops from the
  watcher to the strand, to the CPU pool, back to the strand and again to the pool,
  while a full update, a compaction or a stop runs beside it;
* *one pool for everything.* Searches, updates and the indexing that updates wait
  for share `cpu_pool_`, and block in it;
* *check then act.* `try_lock` and atomic flags decide what an operation does, and
  the decision may be stale when it acts;
* *partial failure.* Files vanish or are locked, the SQLite writer dies, a save
  throws, a thread cannot be created, and each has its own way out;
* *shutdown* has to drain all of it.

The properties that make each part correct:

* batch builder: no file lost, doubled or truncated; lanes within their byte budget;
  the block protocol and the lease of an indexer hold through every failure; `build`
  ends, and leaves no thread behind;
* index: word numbers, postings and `wordRefs` agree; a full update is alone; deleted
  documents keep their trace; the mirror has what the index publishes; no changed
  path is forgotten; updates and stops end;
* search server: one update at a time, no search during one, every search answered,
  shutdown ends;
* live mirror: a flush or checkpoint that returns has made durable what it promises,
  the tables can be loaded after any crash, no caller sleeps for good;
* file events: no event is stranded or applied to a destroyed object, and a quiet disk
  ends up in the index;
* sessions: requests and replies stay in step, nobody passes the gate unauthenticated,
  an upload is whole and replaces nothing, commands are over when `wait` returns;
* mirror history: no manifest on disk loses a content it names, a restore is exact and
  keeps the destination, repeated runs repair what a crash has left;
* runtime data transaction: the old files can be had back until the new ones are kept.

`PROJECT.json` lists every component, modelled or not, and every hazard at its line.

## 2. Modules

| module | models |
|---|---|
| `BatchIndexBuilder` | `BatchIndexBuilder::build` over `BoundedByteQueue` |
| `BatchBuild` | the abstract promise of `build` to its caller |
| `BatchIndexBuilderProofs` | theorems about `BatchIndexBuilder` |
| `InvertedIndex` | the live index with catalog, executors, mirror and stop |
| `InvertedIndexProofs` | theorems about `InvertedIndex` |
| `SearchServer` | searches, updates and shutdown on one pool |
| `SearchServerProofs` | theorems about `SearchServer` |
| `LiveMirror` | the SQLite live mirror: queue, writer thread, flush, checkpoint, destructor |
| `LiveMirrorProofs` | theorems about `LiveMirror` |
| `FileEvents` | watchers, dispatcher, flush task, and their shutdown |
| `FileEventsProofs` | theorems about `FileEvents` |
| `Sessions` | TCP server, sessions, streaming upload, and their shutdown |
| `SessionsInvariants` | the inductive invariants of `Sessions` |
| `SessionsProofs` | theorems about `Sessions` |
| `MirrorHistory` | the `mirror_history` backup |
| `MirrorRestore` | the restore of a point beside the backup (extends `MirrorHistory`) |
| `MirrorHistoryProofs` | theorems about `MirrorHistory` and `MirrorRestore` |
| `RuntimeDataTransaction` | the file transactions of the configuration tool |
| `RuntimeDataTransactionProofs` | theorems about `RuntimeDataTransaction` |
| `MC...` | symmetry sets and constant values for the instances in the `.cfg` files |

### BatchIndexBuilder

One program counter per thread. A reader goes through `TakeJob`, `Open`, `Acquire`,
`Push` (of the Start block), `Read`, `NextBlock`, `Push` ... `Push` (of Complete or
Abort); an indexer through `PopStart`, `PopData`, `PopComplete` or `PopAbort`,
`Release`; the builder through `Spawn`, `JoinReaders`, `JoinIndexers`. Every wait on
a condition variable is explicit: a thread whose predicate is false joins the set
`asleep`, and only a notify the code makes, or a spurious wakeup, takes it out, so
that a lost notification is a deadlock TLC reports. `closeLanes` and `cancelPipeline`
visit the lanes one by one (`sweep`), as the loops do. A file is its size in bytes; a
document is the number of bytes it has received and whether its tail was flushed.
The environment may fail an open, a read, any step of a reader or indexer, and the
creation of a thread.

`BatchBuild` has one variable for the fate of each file and one for the result;
`ImplementsBatchBuild` maps the dictionaries and `fileErrors` of the detailed module
to it.

### InvertedIndex

`strand` is the queue of `strand_`, run in order; `pool` holds the handlers posted to
`cpu_pool_`, run in any order; `active` is `activeAsyncOperations_`. A point operation
is `PointBegin`, `TryLock`, then `EnqueueUpdate` or `EnqueueDeletion` under the lock,
or `Defer`, `DeferInsert` and `DeferRecheck` without it. What follows are handlers: `StrandUpsert`,
`PoolIndex`, `StrandBatch`, `PoolCommit`; `StrandDelete`. A full update is a sequence
of `Update...` actions with the strand's and the pool's handlers between them, ending
in `compact` (`StrandCompactBegin`, `StrandCompactEnd`: the flat copy is taken, and
later written back) and `saveIndex`. `stop` is `StopServer`, `StopIndex`, `StopClear`,
`StopWait`.

Scope: the legacy strategy of the full update, the in-memory catalog, the SQLite
mirror. Abstractions: a file's content is a set of words and a version that stands
for (mtime, size), a new one for each write; a count is how often a commit has added
the word; a document id is its path, since the catalog never gives an id to a second
path; the words of a file are read in one step; `commitChunkMap` is one step; the
mirror keeps, per document, whether its row is absent, queued or durable, so a
deletion mark in SQLite is not distinguished; reading slots only limit parallelism
and are left out. `disk` changes at any time, and with watchers each change leaves an
event to be executed.

### SearchServer

A task of `cpu_pool_` is queued, then taken by one of `PoolThreads` threads and keeps
it until it is done, also while it waits for `updateM`, `searchM` or
`cv_search_server`. A search is `PostSearch`, `SearchEnter`, `SearchGate`,
`SearchEnd`; an update `PostPeriodic` or `PostCommand`, `UpdateEnter`, `UpdateMutex`,
`UpdateGate`, `UpdateResume`, `UpdateBegin`, `UpdateIndexed`, `UpdateSaved`, with
`UpdateFails` and `UpdateSaveFails` for the exceptions. The indexing of an update is
one more task for the same pool. Shutdown follows `shutdownRuntime`.

Abstractions: the work of an index update is one job (its inside is `InvertedIndex`);
`notify_one` at the end of a search is covered by `UpdateResume`, which may happen at
any time because `wait_for` also ends by timeout.

### LiveMirror

Callers are the strand (point operations), the updater (a full update that hands over
files and flushes, or a save that flushes and checkpoints) and the closer (the
destructor). `Enqueue` waits for nothing; `flushPending` is `FlushCall` and
`FlushCheck` (until `FlushDone` holds), `checkpoint` is `CheckpointCall` and
`CheckpointCheck`; the writer is `WriterTake`, `WriterCommit`, `WriterCheckpoint` and
`WriterFails`, which wakes everybody and ends the thread. `Coalesced` is what
`writeBatch` makes of several operations on one file (the last one, as a deletion
followed by the rows it leaves), and `NewWords` the words whose rows a transaction
writes. `Restart` is the death of the process: RAM and queue are
lost, the tables stay and are loaded.

SQLite is external, its transactions atomic. A word's number is the word.

### FileEvents

One index root below a parent directory. The disk changes (`FileChanges`,
`FileRenamed`, `RootMoves`) and Windows records it for a handle that has been read
once; a record that overflows, or another read of no bytes, ends the chain of reads. A
completion is `Handler`: it parses, filters and pushes events one by one, and issues the
next read. `watchParent` has its own thread, which registers and unregisters the root's
watcher and walks a root that has come back; its test of `running_` (`WatchTop`) and the
opening of the handle (`WatchOpen`) are two steps. `merge2` is the dispatcher's merging;
`Tick` is the timer that posts `flushPending` to the pool whether or not the last one has
ended, and `Flush` is one of these runs, taking the queue and then path after path.
`Main` is the part of `shutdownRuntime` that stops all of it.

`Init` is the state after the watchers have started. Left out: deletion of the root,
a parent that appears late, the second `CloseHandle` of a parent's handle, and ticks
that find the queue empty.

### Sessions

A coroutine runs from one `co_await` to the next in one step. `rpc` is `readLoop` with
the command it waits for: `ReadHeader`, `ReadBody` or `Drain`, `commandExec`, `Send` to
the bounded channel, `FinishCommand`, `ReadEnds`; an upload is `UploadPrepare`,
`UploadChunk`, `PublishProbe`, `PublishMove`. `wpc` is `writeLoop`. `accept` is the
handler of `do_accept`, whose looks at `stopping_`, at `ServerActivity` and at the list
of sessions are steps of their own, and `main` is the stop. A client may send requests
ahead of the replies, stop reading, or go away in the middle of a request or a file; it
keeps to the upload's protocol, that is it sends the file after READY.

Headers and payloads are abstracted to seven kinds of requests, one for each way
through `readLoop`; a file is a number of chunks. PING is no kind of its own: it takes
the way of a data request, but past the gate, and as it neither reads nor sets anything
of the session, an answer to it before the authentication tells a client nothing. An
eighth kind doubles the states of the run. An exception in a
negotiation or an authentication is an error that does not end the session, and counts as
one of `MaxFaults`; one thrown after `authenticated_` was set is left out (no statement
between it and the answer throws but for want of memory). Writes of a header and its payload are
one step, and so are the move of a published file and the look at what was moved. The
Windows branch of `StreamingUpload` is the one modelled (a POSIX `rename` could replace
a file). It is assumed that closing a Boost channel completes a send that waits for
room; if it did not, `wait` would not return. A command queued behind a terminal error
may still run before the session ends.

### MirrorHistory and MirrorRestore

A run of `updateMirrorHistory` is a sequence of file-system steps: collect the source,
inspect and capture each file, move the old version to `objects`, place the new one (or
put the old one back), delete what is gone, write the manifest, make a point for each
tier that is due, rotate, collect garbage. Between any two of them the process may die,
the source change, or the operation fail; `budget` says how often each kind of fault may
happen. A content stands for its hash. The restore plans from a manifest, copies,
verifies, retires the destination and places the new one, while runs go on.

A source that cannot be listed when `Verify` looks at it again leaves the run incomplete,
as a difference does. The plan of a restore is a step that reads the manifest and one for
each file it looks up (`RestoreFind`), between which a run may move or collect it.

The clock is not set back; the JSON of manifests, path checks and SQLite sources are
abstracted.

### RuntimeDataTransaction

A command is an agenda of file operations (`ApplyAgenda`, `RestoreAgenda`,
`CommitAgenda`), of which any may fail or be the last before a crash. What one command
tells the next is on disk only. The contents of a file are old, new, torn or none.

An apply that fails before the first replacement cleans up as far as it gets
(`ApplyFailsBefore`): any of the files it has made in the rollback directory may stay, and
the directory goes if it is empty. A rollback without its directory is an error that
leaves the files as they are; where the phase is "prepared" or "restored" it is not needed.

## 3. Runs

| run | instance | shows |
|---|---|---|
| `batch_flow` | 2 readers, 2 indexers, 3 files of 0 or 4 bytes, reads of 3, lanes of 2; opens and reads fail | `ByteBudget`, `NothingLost` |
| `batch_live` | 2 readers, 1 indexer, 2 files of 1 or 2 bytes; opens, reads, readers, indexers and spawning fail; fair | `NoProtocolError`, `ExclusiveWorkers`, `BuildEnds` (with `NoThreadOutlivesBuild`), `ImplementsBatchBuild` |
| `index_full` | 2 files, 2 words, 3 writes, 3 updates, compaction at 5 % | `IndexInv`: `TypeOK`, `NoForeignWords`, `RefsMatchPostings` |
| `index_live` | 1 file, 1 word, 2 watchers, 1 write, 1 update, 1 timeout, 1 writer failure, 1 stop, fair | `StopIsFinal`, `PublishedIsMirrored`, `FullUpdateAlone`, `EternalTrace`, `OperationsEnd`: `UpdateEnds`, `StopEnds` |
| `index_order` | 1 file, 1 watcher, 2 writes | a finding, see below |
| `server_live` | 2 searches, 1 periodic run, 1 command, 5 threads, 1 failure, fair | `TypeOK`, `NoSearchDuringUpdate`, `OneUpdate`, `TasksEnd`: `SearchesAnswered`, `UpdatesEnd`, `ShutdownEnds` |
| `live_mirror` | 2 files, 1 word, 3 operations, 1 job, 1 late file, 1 fault, 1 crash, fair | `CallInv`: `TypeOK`, `FlushDurable`, `CheckpointCovers`; `Loadable`, `MirrorCurrent`, `BatchIsSequential`, `CallsReturn` |
| `file_events` | 2 files (1 excluded), 2 changes or a change and a fault, 2 flushes at once, records of 2, fair | `WatcherInv`: `TypeOK`, `DestroyedIsQuiet`; `NothingStranded`, `IndexFollowsDisk`, `EventsDispatched`, `ShutdownEnds` |
| `sessions` | 1 session, 3 requests, 2 ahead, channel of 1, uploads of 2 chunks, 1 fault, fair | `ActivityInv`: `TypeOK`, `QuietAfterWait`; `InStep`: `FramingKept`, `RepliesInOrder`; `AuthFirst`; `UploadInv`: `SinkInBounds`, `UploadKept`, `NoStagingLeft`; `ShutdownEnds`, `RequestsAnswered` |
| `mirror_history` | 2 paths (1 changing), 2 contents, 1 tier with 1 point, 2 instants; a crash and a restore, a crash and a failed operation, or a revert and a failed operation; fair | `MirrorInv`: `TypeOK`, `CompleteMirror`; `PointsRestorable`; `PointsTrue`: `PointsWitnessed`, `NewestPointKept`; `RestoreSafe`: `RestoreExact`, `DestinationKept`; `ManifestCatchesUp` |
| `mirror_revert` | as `mirror_history`, with one crash and one revert | a finding, see below |
| `runtime_data` | all three forms of the transaction, any files present at the start, 4 faults | `TransactionInv`: `TypeOK`, `Recoverable`, `NoOrphanedMixture`; `RolledBackIsOld`, `RecoveryEnds` |

A name followed by a colon is the conjunction of the named parts. `TypeOK` of the batch
builder is proved for every instance and is not in a run.

Why the bounds are enough for the questions asked.

* Batch: a file needs several blocks and a lane holds fewer than a file, so readers
  block in the middle of a document; there are more files than readers, and with two
  indexers one may be idle while the other works. The block protocol and the leases,
  which `batch_live` checks with one indexer, are proved for any number.
* Index: three writes and three updates let a word appear, become a hole, be compacted
  away and come back under another number. Two watchers can hold the mutex against each
  other and against the updater. `index_full` compacts after every update that leaves a
  hole, without watchers, because compaction beside a point operation is part of the
  finding `index_order`; `index_live` leaves compaction out (threshold above 100 %).
  Its one write and its threshold leave the erasures of later updates and of `compact`
  after a deletion to the theorems `TraceIsEternal` and `SafeWithoutCompact`. That an erasure
  overtakes a commit (`InvertedIndex.cpp:218`) needs a watcher, and is what `index_order` shows.
* Server: five threads are one more than the tasks that can block, so that the run shows
  that every sleeper is woken, not what happens when the pool is used up; with two see
  section 4.
* Live mirror: with three operations two can share a transaction while a third is queued,
  and a late file can be handed over while the job flushes.
* File events: two changes are enough for remove and create, rename, and a root that
  goes and comes back; two flushes for one to overtake the other. Two changes and a fault
  together (1.2 million states) have been checked outside the runs.
* Sessions: three requests fill the channel, what is being written and what is waiting
  for room at once; files of other programs stand for those of other sessions, so that
  one session is enough for what happens inside it. Empty files (0.9 million states with
  them) have been checked outside the runs. The counters of `ServerActivity`
  and the list of sessions are also touched by others: two sessions with two requests
  and no faults have been checked for the invariants outside the runs (9.5 million
  states).
* Mirror history: two contents are enough for a change and a return; one kept point for
  a rotation. `MirrorInv` says nothing after a lost run: what a crash may leave behind is
  the subject of `PointsRestorable` and `ManifestCatchesUp`. A crash and a revert come apart in `mirror_history`, as the two together
  lead to `mirror_revert`.
* Runtime data: four faults let apply fail, its own restoring fail, and the rollback fail
  twice.

Symmetry is used in the runs without liveness properties that declare it: readers,
indexers and files. Deadlock is checked in the batch runs. In the other runs it is off
because a system in which nothing more happens within the bounds is at rest.

Fairness, always weak and never of the disk, of clients, of an operator's first step, of
timers other than the flush task's, or of failures, and none that a lock is handed over
fairly:

* `batch_live`: of each thread, which is what the operating system gives a runnable
  thread; a thread asleep on a condition variable is not runnable;
* `index_live`, `server_live`: of each caller, the strand, the pool's threads, the
  mirror's writer, the updater and the stopping thread, which have threads of their own;
* `live_mirror`: of the writer, whose wait has a timeout, and of each caller that is not
  asleep. Only `MaxJobs` keeps further calls from resetting what a flush waits for;
* `file_events`: of the completion handler, the watcher's thread, each flush, and the
  timer, which arms itself again after every tick, also after an exception;
* `sessions`: of each session, whose coroutines and posted stop share a strand and whose
  commands run on the pool: something of it that is ready runs. Of the accept
  handler once a connection is there, and of the stopping thread. Commands end;
* `mirror_history`: runs are started as long as the machine is up, and a started run goes
  on. `runtime_data`: a started command goes on, and a failed rollback is repeated.

Each property has a mutant: a definition with a plausible mistake (a dropped guard, a
missing flush, a kept lock) named `<definition>_<mistake>` beside the original, under
which the property fails.

## 4. Findings and known limits

Two runs expect a violation.

* `index_order`: the commit of a point update runs in `cpu_pool_`, not in the strand,
  so that the erase of the next update of the same file can overtake it. Words are
  counted twice, or stay after they have left the file. `compact` can come between a
  batch and its commit in the same way: the counts then end up under the number of
  another word, or of none (`NoForeignWords` therefore belongs to `index_full`, which
  has no watchers: with one file, one word, one watcher and compaction at 5 % it fails).
* `mirror_revert`: a run dies after publishing a new version and before writing the
  manifest; the source returns to the old content; the next run compares it with the
  manifest only, passes it over, and the collection removes the object because the
  manifest calls it current. A restore point that names it cannot be restored.

The other properties hold with exceptions that are written into them. Each exception is
something the code does:

* `NothingLost`: a file whose size is a multiple of the read block keeps its last word in
  `carry`, because `eof()` is not set by the read that reaches the end.
* `SearchesAnswered` and `ShutdownEnds` of `SearchServer` (`Abandoned`): a `saveIndex` that
  throws leaves `update_is_running` set; the next search sleeps for good and shutdown
  waits for it. With `PoolThreads = 2` they fail without a fault: searches wait in the
  pool for the update, and the update for indexing that needs a thread of the pool.
* A path that failed `try_lock` may be put in `deferredPaths_` after the drain, or while
  no full update runs, and stays there until the next one.
* `EternalTrace` is checked without compaction: a commit that waits while `compact` works adds
  to postings that are about to be replaced, and is lost. It is about steps in which the
  document stays deleted.
* `Loadable` (`rewritten`): two writes of one file in one transaction are coalesced to the
  second, and the new words of the first are lost with it; if another file uses them the
  tables have postings without a word row.
* `MirrorCurrent` (`ram[f] # {}`): a file in which no word is found any more returns early
  and never reaches the mirror, so its old postings come back with the next start.
* `IndexFollowsDisk`: `missed` (a read of no bytes ends the reads for good; changes between
  the walk of a returned root and the first read), `hasty` (a removal that is carried out
  when the file exists again: removed and created merge to Removed) and `dead` (a command
  that throws loses the rest of its flush, whose entries stay marked as queued).
* `ShutdownEnds` of `FileEvents`: `stop` looks for the parent's handle just before its
  thread opens it.
* `ShutdownEnds` of `Sessions` (`late`): the accept handler counts a session in, `stop` reads
  the list, and the session is listed afterwards; it lives as long as its client.
* `PointsRestorable` with a locked manifest (`budget.locked`, zero in the runs): a point
  manifest that cannot be opened during the collection is passed over, and the objects
  only it refers to are removed.
* `RolledBackIsOld` is about the managed files: an `ignore.txt` whose copy was cut short by
  a crash is kept by the rollback as the user's own. A crash in phase `prepared` can leave
  files that make `commit` refuse the directory.

Also met while modelling: the mirror's writer wakes on every enqueue, so that its flush
interval and `maxPendingOps` (`docs/lecture-server-settings.md:451-452`) bound nothing in
practice; a staging file of an upload survives the death of the process.

## 5. Proofs

`BatchIndexBuilderProofs`, for any number of readers, indexers and files, any lane
capacity, block size and set of faults; assumptions: `ConstantsAssumption` and
`ReadersAssumption` (the code starts at least one reader).

* `BatchTypeSafety`: `TypeOK`, with the strengthening `TypeInv` that says what a
  reader's locals mean at each label (it holds an indexer exactly between `Acquire`
  and the end of the document).
* `BatchNoProtocolError` and `BatchExclusiveWorkers`. `NoProtocolError` is far from
  inductive: an indexer sees blocks in sequence because of what is queued in its lane,
  who holds its lease, and what a cancellation has thrown away. The invariant
  `SafetyInv` is `TypeInv` with three more: `CancelInv` (who may have cancelled what,
  and in which order a sweep visits the lanes), `CloseInv` (lanes are closed only when
  no reader will push again) and `ShapeInv` (for each indexer, the document it is in,
  the blocks in its lane and the position of the reader that holds it fit together to
  one well-formed stream; a free indexer has an empty lane). One lemma per kind of
  step shows what it does to the shape of one lane.
* `BatchImplements`: the pipeline implements `BatchBuild`, and `BatchNoThreadOutlives`: no
  thread outlives `build()`. `FlowInv` follows the files: each is taken once and is then
  with one reader, one indexer, or a reader and the indexer it has borrowed (`OwnInv`); a
  committed file is nowhere else and has no error, and the last block of a file tells how
  it ended (`SettledInv`); without a fatal error no file that was taken is lost
  (`JobsInv`), a reader leaves when all are taken and an indexer when its lane is closed
  and drained (`EndInv`). `BatchStep` maps each step: `PopComplete` and the two file errors
  settle a file, `JoinIndexers` ends the build, the rest are stuttering.
* `BatchByteBudget`: `ByteBudget`. The sum in `QueuedWeight` is a recursive function, so
  `Total` restates it through prefix sums, which are shown to exist and to be unique from
  a least counterexample (`LeastNat`), and then what `Append` and `Tail` do to it.
* `BatchNothingLost`: `NothingLost`, from `SafetyInv`, `FlowInv` and `BytesInv`. `ReadInv` is
  where a reader is in its file; `StreamInv` that the document, the data in the lane and
  what the reader still has add up to the size of the file, and that the end of the queue
  will flush the last word unless the size is a multiple of the block; `CommitInv` is the
  property for what has been committed so far.

`SearchServerProofs`, for any searches, updates, pool size and number of faults;
assumptions: `ServerAssumption` (the sets of tasks are finite and disjoint).

* `ServerOneUpdate` and `ServerNoSearchDuringUpdate`, from `ServerInv`: a queued task
  is queued once and has no thread (otherwise `Take` could restart a running update);
  a search on the condition variable is at its label `asleep` (otherwise `notify_all`
  could move a searching or finished one); an update past `UpdateMutex` owns
  `updateM`, past the gate also `searchM`; who searches holds `searchM` shared, and no
  reader coexists with a writer. The capacity of the pool plays no part in these.
* `ServerTypeSafety`: `TypeOK`, from `ServerInv` and `TypeInv`. Only `Take` gives a
  task a thread, and there are finitely many tasks, so the pool never runs more than it
  has threads for; and a search at `asleep` is on the condition variable, so that no
  `notify_all` misses it.

`LiveMirrorProofs`, for any files, words, operations, flushes, faults and crashes;
assumptions: `MirrorAssumption`.

* `MirrorCalls`: `CallInv`. A caller of `flushPending` waits on the queue, the writer's
  flag and two counters, so `Counts` says what the counters count: what was accepted is
  applied, held by the writer, or queued, and a failed writer accepts nothing more.
  `CheckpointOk` adds what a caller in `checkpoint` may rely on: a request that is no
  longer on record was served, or the writer has failed.
* `MirrorLoadable`: every posting in the tables has a word row, but after a transaction
  with two writes of one file (`rewritten`, section 4). A write brings only the words that
  were new when it was enqueued, so `WordsOk` says where the row of every numbered word
  is: in the table, or with an operation under way that commits no later than the
  postings that need it.
* `MirrorIsCurrent`: with nothing under way, the tables hold what a search finds in RAM.
  `RamOk` says it while something is: the postings of a file will be those of the last
  write of it wherever that is, in the queue, the writer's batch, or committed (`Becomes`,
  with lemmas about `Coalesced` and `OnFile`).

`InvertedIndexProofs`, for any files, words, watchers, writes, updates and timeouts, with
and without compaction; assumptions: `IndexAssumption`. The invariant is `LiveInv`.

* `StopIsForever`: once `stop` has returned no handler is queued or running, no path is
  deferred, and none comes again. `StopOk` is needed for the path that is deferred
  while `stop` clears the queue: its caller is still about to look at the flag again.
* `UpdateIsAlone`: behind `waitForIdle` a full update has no handler of a point
  operation beside it. `MutexOk` says who owns `updateMutex`; `AloneOk` is the property,
  and what a point operation may still post; `SignalOk` that the handler the
  updater waits for is the only one of its kind, so that no stale one can let it go on.
* `FoundIsMirrored`: what a search finds has a row in the mirror, and the row of a
  point update is durable before its postings are published. `RowsOk` extends this to the
  flat copy `compact` works on and writes back, `CommitsOk` to the commits that are queued.
* `IndexTypes`: `TypeOK`, with `Types`, from which the proof of every step starts. Its hard
  part is the dictionary: the numbers of new words and the renumbering of a compaction
  (`Kept`) stay within its slots (`NewWords`, `KeptProperties`, `NumbersFit`). `Sortable`
  (a set of numbers can be listed in ascending order) is proved from a least
  counterexample.
* `IndexHolds`: `IndexInv`, and `TraceIsEternal`: `EternalTrace`, under hypotheses on the
  execution that name the two orders of section 4. `CommitsApart`: no commit is in the pool
  while `compact` works. `OneAfterAnother`: when the strand takes up a point update of a
  changed file, no handler of that file is under way. `TraceIsEternal` and
  `WordsKeepTheirNumbers` (`NoForeignWords`) need the first, `IndexHolds` both. Neither can
  be left out: without the first TLC finds both properties violated with one file, two words
  and one watcher, without the second `index_order` is the violation. The argument is about
  what is under way for a file (`Carriers`: its indexing, its batch, its commit). Commits
  carry words their document has held under the numbers these have now (`NumbersOk`), since
  a renumbering meets none, and the copy `compact` writes back is still the dictionary
  (`CopyOk`). No file has two carriers (`Single`). A file with a carrier was erased before
  and stays empty until its commit finds in `wordRefs` just what it adds; one without is in
  step (`FileOk`). `KnownOk` and `ToIndexOk` give the erasure: a full update indexes what is
  new to the catalog, which has no postings, and what it erases. `EraseOk` keeps the
  erasures of a full update, decided before they reach the strand, off marked documents.
* `FullUpdatesHold` and `SafeWithoutCompact` have hypotheses on the constants only. Without
  watchers and timeouts, the setting of `index_full`, `IndexInv` and `EternalTrace` hold,
  also with faults and stops: `WaitedFor` says that the updater waits for every file it
  has dispatched and posts `compact` after the last. With a threshold above 100 percent,
  the setting of `index_live`, `NoForeignWords` and `EternalTrace` hold whatever else runs.

`SessionsProofs`, for any number of connections, requests, faults and file sizes, and any
capacity of the channel; assumptions: `SessionsAssumption`.

* `ActivityExact`: `ActivityInv`, that is `TypeOK` with the two counters of
  `ServerActivity` exact, and nothing left when `wait` returns. `CommandFlow` and
  `SessionFlow` show that a step counts at most one command and one session in or
  out, and none in after `stopAccepting`; `AcceptOk` keeps a session that is counted
  but not listed from being stopped twice; `MainOk` is what `wait` has seen.
* `NoResultBeforeAuth`: `AuthFirst`. `authenticated_` is set when the answer to the
  authentication is made, not when it is written, so the invariant `AuthOk` follows that
  answer from `readLoop` through the channel to `writeLoop` and the client, and keeps it
  ahead of everything that has passed the gate because of it; `GateOk` carries the
  gate's verdict through an upload, which is not asked again.
* `StreamsInStep`: `InStep`, by a second inductive invariant, `WireInv`. A reply is
  matched with its request by counting, and replies move from `readLoop` through the
  channel to `writeLoop` while requests are sent ahead; so the invariant says at which
  place of `asked` every reply is and `readLoop` itself is (`Place`, `Here`), and that the
  parts still in the socket are a well-formed stream (`Framed`) of exactly the requests of
  `asked` from there on (`Numbered`). READY answers no request of its own and shifts the
  places: it goes out when nothing else is under way or asked for (`ReadyOk`), and the
  chunks follow only after it (`OwesOk`, `SinkOk`). The theorem counts the replies
  (`RepliesUpTo`). It is not about sessions that have stopped or whose client is gone,
  except for `FramingKept`, which holds of what those have left in the socket, too.
* `UploadsArriveWhole`: `UploadInv`, by a third invariant, `DiskInv`. Every upload has the
  number of its request (`NumbersOk`), and while its file is still to come, from the
  request in the socket to the move (`Comes`), no file has that number (`ComesOk`): so a
  move takes a free name for an upload that has none, and a name that a final reply
  carries or a client was told stays that file's (`FinalsOk`, `FilesOk`). That `publish`
  does not run out of candidates is counted (`Room`): the names it has found taken are
  files of other uploads, one each, or of other programs. A client asks for its next
  upload only when the reply to the last is no longer under way (`NoFinal`, from
  `WireInv`), and the file is whole because `SinkOk` follows the chunks to the move.

`FileEventsProofs`, for any finite set of files, any number of flushes, changes and
failures and any capacity of the directory handle; assumptions: `EventsAssumption`. The
invariant is `EventsInv`.

* `WatcherSafety`: `WatcherInv`. `PlacesOk` says what `pendingReads_` counts: a handler that
  runs, and a read that is under way or about to be issued. `QuietOk` says when there is
  neither: without a `FileWatcher`, before its first read, and once `stop` has waited; it
  needs that one thread at a time stops a `FileWatcher`, which is what the join in
  `MultiDirWatcher::stop` gives. `StopOk` is the order of the shutdown.
* `EveryEntryWaits`: `NothingStranded`. The property counts places; the invariant `StrandInv`
  says the same without counting (no queue holds a path twice, no two queues share one, a
  path waits exactly if it has an entry), and `Cardinality` comes in at the end only. That
  two flushes overlap, and that a path is pushed again while its flush is on the way to it,
  are the cases that matter.
* `IndexSettles`: `IndexFollowsDisk`. The property is about a system at rest; the invariant
  `FollowOk` says of every moment how a file will come right (`Settled`). Where the index
  has a file the disk has not, a removal is ahead of which nothing about the file follows
  (`RemovalAhead`): in what the handle has recorded, what the handler parses, the map or
  the command of a flush. Where the disk has a file in another version, any event about it
  is ahead (`EventAhead`), since a command looks at the file as it is then, and a removal
  carried out then makes it `hasty`. A rename puts two notes about two files into one
  record and `mergeEvents` folds two events into one, so the order inside a record matters
  (`EndsGone`); that is where an event could overtake another, and none does.

`RuntimeDataTransactionProofs`, for both transactions, any files that existed before, and any
number of failures and crashes; assumptions: `TransactionAssumption`. The invariant is
`TxInv`.

* `TransactionSafe`: `TransactionInv`, and `RolledBackHolds`: `RolledBackIsOld`. Both are about
  what one command may conclude from what another has left on disk, and that depends on
  the order of its operations. The operations have ranks (`Rank`); the agenda of a command
  is shown to be ordered by them, and `ApplyOk` then reads off what apply has left to do
  what it has done: while something of a rank below the first replacement is left the
  files are old, and after that the directory is complete (`ApplyInterrupted`). `ManifestOk`
  (a manifest that can be read is right, and so are its snapshots) makes a restored file
  the old one; `RestoreOk` says which have been restored, so that the phase "restored" is
  written to a directory of old files only; `SafeOk` carries the way back through every
  failure.

`MirrorHistoryProofs`, for any paths, contents, tiers and periods, any number of runs and
restores, and any budget of faults but where the theorem says otherwise; assumptions:
`MirrorAssumption` and `RestoreAssumption` (the destination holds something to begin with).
The invariant is `HistoryInv`; `RestoreOnlyReads` carries what it says over to
`RestoreSpec`, which the runs check.

* `MirrorHolds`: `MirrorInv`. `FaithOk` says that a file the run has looked at without an
  error is in the mirror as the run's state says, `CompleteOk` that the mirror has of each
  file that content or nothing. `CompleteOk` needs that no run was lost, and `FaithOk`
  then follows because a file that is passed over (`SkipOk`) is the manifest's.
* `PointsAreTrue`: `PointsTrue`. `WitnessOk` follows what the source has shown from the
  inspection to the point. `PointsOk` keeps the points of a tier in the order of time and
  says that when the rotation begins the newest one of each tier can be read: a tier is
  either not due, because its newest point can be read, or has just been given one.
* `MirrorRestorable`: `PointsRestorable`, under the hypothesis that no point manifest is
  locked and that an execution has lost runs or sources that return to an earlier
  content, but not both. The hypothesis is what the code needs: `mirror_revert` violates
  the property with one of each, and section 4 has the locked manifest. The property
  follows from `FaithOk` at the moment of the collection: an object that is removed as
  current is in `current\data`. After a lost run `CompleteOk` no longer gives
  `SkipOk`; `OrderOk` does, because a manifest that names the newest content of a file was
  written after the mirror had it.
* `RestoreIsSafe`: `RestoreSafe`. What is placed was verified after it was copied, and
  the destination is moved aside before.

The provers cannot instantiate the library's induction rules, which take an operator;
where data has to be inducted over, the proof takes a least counterexample instead
(`LeastNat` from `WFMin`, which takes a set).

Each invariant was model-checked before it was proved, on the instances of the runs
and on larger ones (for `InvertedIndex` with watchers and compaction together, 15.5
million states; for `Sessions` with two sessions, 10.8 million; for `BatchIndexBuilder`
9.5 million; for `MirrorHistory` 7.5 million).

Model-checked only:

* liveness, under the fairness of section 3;
* `BatchIsSequential` of `LiveMirror`: it speaks of a recursive definition.

## 6. Plan

Modelled: the batch pipeline, the live index and its mirror, the search gate, the file
events, the sessions with uploads, the mirror backup with its restore, and the runtime
data transaction. Open, in this order:

1. the three mirror states of `InvertedIndex` as an abstract specification that
   `LiveMirror` implements;
2. the batch strategy inside `InvertedIndex`: install, rollback, flat dictionary, the
   Boost save; `commitChunkMap` in two steps;
3. `DocumentCatalog` on SQLite, with its cache;
4. pure algorithms: merge of batch results, tokenizer, ranking, path filter of the
   backup, each against a reference definition.

## 7. Not modelled

Vendored code (sqlite3 in two copies, which is most of the repository's lines, utf8cpp,
robin_hood), scripts and installers, benchmarks, tutorials, command-line front ends and
GUIs, formatting and logging, cryptography, and read-only SQL commands.

Of the code that is modelled, these weaknesses have no state in the model and no
property: data races on containers (`findByPath` in a caller's thread beside an insertion
in the strand, `InvertedIndex.cpp:1921`; the raw chunk pointers of `commitChunkMap`,
`:113`; the local `processedFiles` that a late job refers to after a timeout, `:567`),
since the model's steps are atomic there; the static `RelativeIndex::max` that concurrent
searches share (`SearchServer.h:79`) and the 16-bit posting count (`PostingList.h:12`),
since ranking and counts are abstracted; the flat dictionary that the Boost save leaves
beside a point update (`InvertedIndex.cpp:1368`), which belongs to the batch strategy;
and a file that vanishes between the scan and `last_write_time` (`DocPaths.cpp:124`), which
is an action (`UpdateScanThrows`) but leaves files recorded as current that no property
speaks of.

## 8. Running

```
tlc -workers 2 -config IndexLive.cfg MCInvertedIndex
tlapm InvertedIndexProofs.tla
```
