--------------------------- MODULE InvertedIndex ---------------------------
(***************************************************************************)
(* The live inverted index: src/src/Index/InvertedIndex.cpp with the       *)
(* legacy full update, the in-memory document catalog and the SQLite       *)
(* mirror, as the SearchServer drives it.                                  *)
(*                                                                         *)
(* Point operations (one changed or removed file) come from the watcher's  *)
(* threads.  They run in steps posted to two executors: strand_, one       *)
(* handler at a time in order, and cpu_pool_, any number at once in any    *)
(* order.  A full update runs in a thread of its own, holds updateMutex,   *)
(* and uses the same executors.  A point operation that finds updateMutex  *)
(* taken leaves its path in deferredPaths_ instead of waiting.             *)
(*                                                                         *)
(* A word is its number in wordIds; chunks[i][f] is the count of word i in *)
(* document f.  A document id is identified with its path, since the       *)
(* catalog never reuses one.                                               *)
(***************************************************************************)
EXTENDS Integers, FiniteSets, SequencesExt

CONSTANTS
    Files,          \* the paths under the index roots
    Words,          \* the words a file may hold
    Watchers,       \* threads that run Add/RemoveFileCommand
    Updater,        \* the thread inside SearchServer::updateStep
    Strand,         \* strand_ as an owner of updateMutex
    Nobody,         \* updateMutex is free
    Threshold,      \* settings.compactThresholdPercent
    MaxWrites,      \* bound: changes of files on disk
    MaxUpdates,     \* bound: full updates
    MaxTimeouts,    \* bound: files whose future times out
    MaxFaults,      \* bound: failures of the SQLite writer
    MaxStops        \* bound: calls of SearchServer::stop, which runs once

ASSUME IndexAssumption ==
    /\ IsFiniteSet(Files) /\ IsFiniteSet(Words)
    /\ Updater \notin Watchers
    /\ Updater # Strand /\ Updater # Nobody /\ Strand # Nobody
    /\ {Strand, Nobody} \cap Watchers = {}
    /\ {Threshold, MaxWrites, MaxUpdates, MaxTimeouts, MaxFaults} \subseteq Nat
    /\ MaxStops \in {0, 1}

Callers == Watchers \cup {Updater}
Wids    == 1 .. Cardinality(Words)
Absent  == [ver |-> 0, words |-> {}]
NoOp    == <<>>

VARIABLES
    disk,           \* what each path holds; ver stands for (mtime, size)
    everHeld,       \* history: the words each path has ever held
    events,         \* file events the watcher has not executed yet
    writes, updates, timeouts, faults,      \* how much of each bound is used
    \* the index
    catalog,        \* DocPaths: known, recorded ver, deleted mark
    wordIds,        \* WordIdManager: word i is wordIds[i]
    chunks,         \* dictionaryChunks
    flat,           \* dictionary: the flat copy compact works on
    wordRefs,       \* the words each document is known to use
    mirror,         \* the document's SQLite row: none, queued or durable
    writerError,    \* the mirror's writer thread has failed
    storageFailure, \* storageFailure_ is set
    \* executors
    strand, pool, active,
    \* the facade
    updateMutex, work, deferred,
    \* callers of the point operations
    cpc, cop,
    \* the full update
    upc, scanned, toIndex, awaiting, replay, updateOk,
    \* shutdown
    stopping, indexStopping, stopPc

indexVars   == <<catalog, wordIds, chunks, flat, wordRefs>>
storeVars   == <<mirror, writerError, storageFailure>>
execVars    == <<strand, pool, active>>
facadeVars  == <<updateMutex, work, deferred>>
callVars    == <<cpc, cop>>
updateVars  == <<upc, scanned, toIndex, awaiting, replay, updateOk>>
stopVars    == <<stopping, indexStopping, stopPc>>
envVars     == <<disk, everHeld, events, writes, updates, timeouts, faults>>
vars == <<envVars, indexVars, storeVars, execVars, facadeVars, callVars,
          updateVars, stopVars>>

-----------------------------------------------------------------------------
(* Handlers in the executors.                                              *)

Kinds        == {"update", "delete"}
UpsertTask(f, v)    == [k |-> "upsert", f |-> f, v |-> v]
DeleteTask(f)       == [k |-> "delete", f |-> f]
BatchTask(f, w, pt) == [k |-> "batch", f |-> f, words |-> w, point |-> pt]
EraseTask(e, r)     == [k |-> "erase", erase |-> e, mark |-> r]
ShrinkTask          == [k |-> "shrink"]
CompactTask         == [k |-> "compact"]
IndexTask(f, pt)    == [k |-> "index", f |-> f, point |-> pt]
CommitTask(f, w, pt) == [k |-> "commit", f |-> f, wids |-> w, point |-> pt]

StrandTasks ==
    {UpsertTask(f, v) : f \in Files, v \in 1 .. MaxWrites}
    \cup {DeleteTask(f) : f \in Files}
    \cup {BatchTask(f, w, pt) : f \in Files, w \in SUBSET Words, pt \in BOOLEAN}
    \cup {EraseTask(e, r) : e \in SUBSET Files, r \in SUBSET Files}
    \cup {ShrinkTask, CompactTask}
PoolTasks ==
    {IndexTask(f, pt) : f \in Files, pt \in BOOLEAN}
    \cup {CommitTask(f, w, pt) : f \in Files, w \in SUBSET Wids, pt \in BOOLEAN}

\* A handler of a point operation, not of the full update.
IsPoint(t) == \/ t.k \in {"upsert", "delete"}
              \/ t.k \in {"batch", "index", "commit"} /\ t.point

\* postTracked: count the operation, then post it.
PostStrand(t) == /\ strand' = Append(strand, t)
                 /\ active' = active + 1
                 /\ UNCHANGED pool

\* Mutant: an operation never finished.
Finished_Leaks(n) == active' = active + n

\* finishAsyncOperation after a handler that itself posted n operations.
Finished(n) == active' = active + n - 1

\* waitForIdle
Idle == active = 0

\* The strand ends its first handler, which posted ts to the pool.
StrandDone(ts) == /\ strand' = Tail(strand)
                  /\ pool' = pool \o ts
                  /\ Finished(Len(ts))
StrandRuns(k) == strand # <<>> /\ Head(strand).k = k

\* A pool thread ends the handler pool[i], which posted ts to the strand.
PoolDone(i, ts) == /\ pool' = RemoveAt(pool, i)
                   /\ strand' = strand \o ts
                   /\ Finished(Len(ts))

\* The promise of a file of the full update is fulfilled or broken; nobody
\* waits for the promise of a point update.
Settle(t) == awaiting' = IF t.point THEN awaiting ELSE awaiting \ {t.f}

-----------------------------------------------------------------------------
(* The disk, and the file events it gives rise to.                         *)

Notified(f, kind) == IF Watchers = {} THEN events ELSE events \cup {<<f, kind>>}

WriteFile(f, w) ==
    /\ writes < MaxWrites
    /\ writes' = writes + 1
    /\ disk' = [disk EXCEPT ![f] = [ver |-> writes + 1, words |-> w]]
    /\ everHeld' = [everHeld EXCEPT ![f] = @ \cup w]
    /\ events' = Notified(f, "update")
    /\ UNCHANGED <<updates, timeouts, faults, indexVars, storeVars, execVars,
                   facadeVars, callVars, updateVars, stopVars>>

RemoveFile(f) ==
    /\ disk[f] # Absent
    /\ disk' = [disk EXCEPT ![f] = Absent]
    /\ events' = Notified(f, "delete")
    /\ UNCHANGED <<everHeld, writes, updates, timeouts, faults, indexVars,
                   storeVars, execVars, facadeVars, callVars, updateVars, stopVars>>

-----------------------------------------------------------------------------
(* Point operations: enqueueFileUpdate and enqueueFileDeletion.            *)

\* A caller enters enqueueFileUpdate or enqueueFileDeletion, goes on, leaves.
Call(c, f, kind) == /\ cpc' = [cpc EXCEPT ![c] = "try"]
                    /\ cop' = [cop EXCEPT ![c] = <<f, kind>>]
GoTo(c, label)   == cpc' = [cpc EXCEPT ![c] = label] /\ UNCHANGED cop
Return(c)        == /\ cpc' = [cpc EXCEPT ![c] = "idle"]
                    /\ cop' = [cop EXCEPT ![c] = NoOp]

\* beginOperation, then the checks of stopping_ and of storageFailure_.
PointBegin(w, f, kind) ==
    /\ cpc[w] = "idle" /\ <<f, kind>> \in events
    /\ ~stopping
    /\ events' = events \ {<<f, kind>>}
    /\ IF indexStopping \/ storageFailure
       THEN UNCHANGED callVars
       ELSE Call(w, f, kind)
    /\ UNCHANGED <<disk, everHeld, writes, updates, timeouts, faults, indexVars,
                   storeVars, execVars, facadeVars, updateVars, stopVars>>

\* Mutant: the work flag alone decides.
TryLock_WorkOnly(c) ==
    /\ cpc[c] = "try"
    /\ IF ~work
       THEN updateMutex' = c /\ GoTo(c, "locked")
       ELSE GoTo(c, "defer") /\ UNCHANGED updateMutex
    /\ UNCHANGED <<envVars, indexVars, storeVars, execVars, work, deferred,
                   updateVars, stopVars>>

\* try_to_lock on updateMutex.
TryLock(c) ==
    /\ cpc[c] = "try"
    /\ IF updateMutex = Nobody /\ ~work
       THEN updateMutex' = c /\ GoTo(c, "locked")
       ELSE GoTo(c, "defer") /\ UNCHANGED updateMutex
    /\ UNCHANGED <<envVars, indexVars, storeVars, execVars, work, deferred,
                   updateVars, stopVars>>

\* enqueueFileUpdate past the lock: read the metadata here, the rest follows
\* in the strand; a path that is no longer a file is skipped.
EnqueueUpdate(c) ==
    LET f == cop[c][1] IN
    /\ cpc[c] = "locked" /\ cop[c][2] = "update"
    /\ IF disk[f] = Absent THEN UNCHANGED execVars
                           ELSE PostStrand(UpsertTask(f, disk[f].ver))
    /\ updateMutex' = Nobody
    /\ Return(c)
    /\ UNCHANGED <<envVars, indexVars, storeVars, work, deferred, updateVars,
                   stopVars>>

\* enqueueFileDeletion past the lock; an unknown path is skipped.
EnqueueDeletion(c) ==
    LET f == cop[c][1] IN
    /\ cpc[c] = "locked" /\ cop[c][2] = "delete"
    /\ IF ~catalog[f].known THEN UNCHANGED execVars
                            ELSE PostStrand(DeleteTask(f))
    /\ updateMutex' = Nobody
    /\ Return(c)
    /\ UNCHANGED <<envVars, indexVars, storeVars, work, deferred, updateVars,
                   stopVars>>

\* deferPointPath: the first look at stopping_ ...
Defer(c) ==
    /\ cpc[c] = "defer"
    /\ IF indexStopping THEN Return(c) ELSE GoTo(c, "insert")
    /\ UNCHANGED <<envVars, indexVars, storeVars, execVars, facadeVars,
                   updateVars, stopVars>>

\* ... the insertion into deferredPaths_ ...
DeferInsert(c) ==
    /\ cpc[c] = "insert"
    /\ GoTo(c, "recheck")
    /\ deferred' = deferred \cup {cop[c][1]}
    /\ UNCHANGED <<envVars, indexVars, storeVars, execVars, updateMutex, work,
                   updateVars, stopVars>>

\* Mutant: no second look at stopping_.
DeferRecheck_Dropped(c) ==
    /\ cpc[c] = "recheck"
    /\ Return(c)
    /\ UNCHANGED <<envVars, indexVars, storeVars, execVars, facadeVars,
                   updateVars, stopVars>>

\* ... and the second look: a stop that came meanwhile wins.
DeferRecheck(c) ==
    /\ cpc[c] = "recheck"
    /\ Return(c)
    /\ deferred' = IF indexStopping THEN {} ELSE deferred
    /\ UNCHANGED <<envVars, indexVars, storeVars, execVars, updateMutex, work,
                   updateVars, stopVars>>

-----------------------------------------------------------------------------
(* The dictionary.                                                         *)

\* safeEraseFileInternal for every document of E: by wordRefs where there is
\* an entry, by a scan of all the words where there is none.
ErasedWids(f) == IF f \in DOMAIN wordRefs THEN wordRefs[f] ELSE Wids
EraseDocs(E) ==
    /\ chunks' = [i \in Wids |-> [f \in Files |->
                    IF f \in E /\ i \in ErasedWids(f) THEN 0 ELSE chunks[i][f]]]
    /\ wordRefs' = [f \in DOMAIN wordRefs \ E |-> wordRefs[f]]

\* wordIds.getId for the words of a batch: unknown words get new numbers.
WithWords(W)   == wordIds \o SetToSeq({w \in W : w \notin Range(wordIds)})
WidsOf(W, ids) == {i \in DOMAIN ids : ids[i] \in W}

NoPostings == [f \in Files |-> 0]

-----------------------------------------------------------------------------
(* Handlers of the strand.                                                 *)

\* DocPaths::upsert and getUpdate: is the file new, back, or changed?
Changed(f, v) == ~catalog[f].known \/ catalog[f].deleted \/ catalog[f].ver # v
Recorded(v)   == [known |-> TRUE, ver |-> v, deleted |-> FALSE]

\* flushPending: everything queued for the mirror is written.
Flushed(m) == [f \in Files |-> IF m[f] = "queued" THEN "durable" ELSE m[f]]

\* A document without an entry in wordRefs is taken to be new.
OldPostings(f) == IF f \in DOMAIN wordRefs THEN {f} ELSE {}

\* enqueueFileUpdate's handler.
StrandUpsert ==
    /\ StrandRuns("upsert")
    /\ LET f == Head(strand).f
           v == Head(strand).v
       IN  /\ catalog' = [catalog EXCEPT ![f] =
                            IF Changed(f, v) THEN Recorded(v) ELSE @]
           /\ IF Changed(f, v)
              THEN EraseDocs(OldPostings(f)) /\ StrandDone(<<IndexTask(f, TRUE)>>)
              ELSE UNCHANGED <<chunks, wordRefs>> /\ StrandDone(<<>>)
    /\ UNCHANGED <<envVars, wordIds, flat, storeVars, facadeVars, callVars,
                   updateVars, stopVars>>

\* Mutant: the postings of a deleted file are erased.
StrandDelete_Erases ==
    /\ StrandRuns("delete")
    /\ catalog' = [catalog EXCEPT ![Head(strand).f].deleted = TRUE]
    /\ EraseDocs({Head(strand).f})
    /\ StrandDone(<<>>)
    /\ UNCHANGED <<envVars, wordIds, flat, storeVars, facadeVars, callVars,
                   updateVars, stopVars>>

\* enqueueFileDeletion's handler: mark, keep the postings.
StrandDelete ==
    /\ StrandRuns("delete")
    /\ IF writerError
       THEN storageFailure' = TRUE /\ UNCHANGED <<mirror, catalog>>
       ELSE /\ mirror' = Flushed(mirror)
            /\ catalog' = [catalog EXCEPT ![Head(strand).f].deleted = TRUE]
            /\ UNCHANGED storageFailure
    /\ StrandDone(<<>>)
    /\ UNCHANGED <<envVars, wordIds, chunks, flat, wordRefs, writerError,
                   facadeVars, callVars, updateVars, stopVars>>

\* processBatch for a file in which no word was found.
StrandEmptyBatch ==
    /\ StrandRuns("batch") /\ Head(strand).words = {}
    /\ Settle(Head(strand))
    /\ StrandDone(<<>>)
    /\ UNCHANGED <<envVars, indexVars, storeVars, facadeVars, callVars, upc,
                   scanned, toIndex, replay, updateOk, stopVars>>

\* Mutant: a point update does not wait for the flush.
Written_NoFlush(f, pt) == [mirror EXCEPT ![f] = IF @ = "none" THEN "queued" ELSE @]

\* The mirror after writeFile of f, flushed at once for a point update.
Written(f, pt) == IF pt THEN [Flushed(mirror) EXCEPT ![f] = "durable"]
                  ELSE [mirror EXCEPT ![f] = IF @ = "none" THEN "queued" ELSE @]

\* processBatch: number the words, note them in wordRefs, hand the row to the
\* mirror, and only then post the commit of the postings to the pool.
StrandBatch ==
    /\ StrandRuns("batch") /\ Head(strand).words # {}
    /\ LET t    == Head(strand)
           ids  == WithWords(t.words)
           wids == WidsOf(t.words, ids)
       IN  /\ wordIds' = ids
           /\ wordRefs' = [f \in DOMAIN wordRefs \cup {t.f} |->
                 (IF f \in DOMAIN wordRefs THEN wordRefs[f] ELSE {})
                 \cup (IF f = t.f THEN wids ELSE {})]
           /\ IF writerError
              THEN /\ storageFailure' = (storageFailure \/ t.point)
                   /\ UNCHANGED mirror
                   /\ Settle(t) /\ StrandDone(<<>>)
              ELSE /\ mirror' = Written(t.f, t.point)
                   /\ UNCHANGED <<storageFailure, awaiting>>
                   /\ StrandDone(<<CommitTask(t.f, wids, t.point)>>)
    /\ UNCHANGED <<envVars, catalog, chunks, flat, writerError, facadeVars,
                   callVars, upc, scanned, toIndex, replay, updateOk, stopVars>>

\* The deletions of a full update; the updater waits for the outcome.
StrandErase ==
    /\ StrandRuns("erase")
    /\ EraseDocs(Head(strand).erase)
    /\ upc' = IF writerError /\ Head(strand).mark # {} THEN "failed" ELSE "dispatch"
    /\ StrandDone(<<>>)
    /\ UNCHANGED <<envVars, catalog, wordIds, flat, storeVars, facadeVars,
                   callVars, scanned, toIndex, awaiting, replay, updateOk,
                   stopVars>>

\* compactMemory: gives capacity back, changes no posting.
StrandShrink ==
    /\ StrandRuns("shrink")
    /\ upc' = "flush"
    /\ StrandDone(<<>>)
    /\ UNCHANGED <<envVars, indexVars, storeVars, facadeVars, callVars,
                   scanned, toIndex, awaiting, replay, updateOk, stopVars>>

\* compact's test: enough word numbers have no posting, and updateMutex is free.
Holes      == {i \in DOMAIN wordIds : chunks[i] = NoPostings}
CompactDue == /\ updateMutex = Nobody /\ ~work
              /\ Holes # {}
              /\ Cardinality(Holes) * 100 >= Threshold * Len(wordIds)

StrandCompactSkip ==
    /\ StrandRuns("compact") /\ updateMutex # Strand
    /\ ~CompactDue
    /\ StrandDone(<<>>)
    /\ UNCHANGED <<envVars, indexVars, storeVars, facadeVars, callVars,
                   updateVars, stopVars>>

\* compact takes updateMutex and the flat copy of the dictionary ...
StrandCompactBegin ==
    /\ StrandRuns("compact") /\ CompactDue
    /\ updateMutex' = Strand
    /\ flat' = [i \in DOMAIN wordIds |-> chunks[i]]
    /\ UNCHANGED <<envVars, catalog, wordIds, chunks, wordRefs, storeVars,
                   execVars, work, deferred, callVars, updateVars, stopVars>>

\* ... and rebuilds chunks, wordIds and wordRefs without the holes.
Used == {i \in DOMAIN flat : flat[i] # NoPostings}
Kept == CHOOSE s \in [1 .. Cardinality(Used) -> Used] :
            \A i, j \in DOMAIN s : i < j => s[i] < s[j]

\* Mutant: the words are not moved with their postings.
WordsKept_Prefix == SubSeq(wordIds, 1, Len(Kept))

WordsKept   == [j \in DOMAIN Kept |-> wordIds[Kept[j]]]
RefsKept(f) == {j \in DOMAIN Kept : Kept[j] \in wordRefs[f]}

StrandCompactEnd ==
    /\ StrandRuns("compact") /\ updateMutex = Strand
    /\ wordIds' = WordsKept
    /\ chunks' = [j \in Wids |-> IF j \in DOMAIN Kept THEN flat[Kept[j]]
                                                      ELSE NoPostings]
    /\ wordRefs' = [f \in DOMAIN wordRefs |-> RefsKept(f)]
    /\ flat' = <<>>
    /\ updateMutex' = Nobody
    /\ StrandDone(<<>>)
    /\ UNCHANGED <<envVars, catalog, storeVars, work, deferred, callVars,
                   updateVars, stopVars>>

-----------------------------------------------------------------------------
(* Handlers of the pool.                                                   *)

\* fileIndexing: read and tokenize the file as it is now, post the batch.
PoolIndex(i) ==
    LET t == pool[i] IN
    /\ t.k = "index" /\ disk[t.f] # Absent
    /\ PoolDone(i, <<BatchTask(t.f, disk[t.f].words, t.point)>>)
    /\ UNCHANGED <<envVars, indexVars, storeVars, facadeVars, callVars,
                   updateVars, stopVars>>

\* fileIndexing on a file that is gone, or that another program has locked.
PoolIndexFails(i) ==
    LET t == pool[i] IN
    /\ t.k = "index"
    /\ Settle(t)
    /\ PoolDone(i, <<>>)
    /\ UNCHANGED <<envVars, indexVars, storeVars, facadeVars, callVars, upc,
                   scanned, toIndex, replay, updateOk, stopVars>>

\* commitChunkMap: add the counts of the batch to the postings.
PoolCommit(i) ==
    LET t == pool[i] IN
    /\ t.k = "commit"
    /\ chunks' = [j \in Wids |-> [chunks[j] EXCEPT ![t.f] =
                                    IF j \in t.wids THEN @ + 1 ELSE @]]
    /\ Settle(t)
    /\ PoolDone(i, <<>>)
    /\ UNCHANGED <<envVars, catalog, wordIds, flat, wordRefs, storeVars,
                   facadeVars, callVars, upc, scanned, toIndex, replay,
                   updateOk, stopVars>>

\* The mirror's writer thread commits a queued row ...
MirrorWrites(f) ==
    /\ mirror[f] = "queued" /\ ~writerError
    /\ mirror' = [mirror EXCEPT ![f] = "durable"]
    /\ UNCHANGED <<envVars, indexVars, writerError, storageFailure, execVars,
                   facadeVars, callVars, updateVars, stopVars>>

\* ... or fails for good: what is queued is dropped.
MirrorFails ==
    /\ faults < MaxFaults /\ ~writerError
    /\ faults' = faults + 1
    /\ writerError' = TRUE
    /\ mirror' = [f \in Files |-> IF mirror[f] = "queued" THEN "none" ELSE mirror[f]]
    /\ UNCHANGED <<disk, everHeld, events, writes, updates, timeouts, indexVars,
                   storageFailure, execVars, facadeVars, callVars, updateVars,
                   stopVars>>

-----------------------------------------------------------------------------
(* The full update: updateStep around updateDocumentBase.                  *)

\* beginOperation, the directory scan, rethrowStorageFailure.
UpdateBegin ==
    /\ upc = "idle" /\ updates < MaxUpdates /\ ~stopping
    /\ updates' = updates + 1
    /\ IF storageFailure
       THEN UNCHANGED <<upc, scanned>>
       ELSE upc' = "lock" /\ scanned' = {f \in Files : disk[f] # Absent}
    /\ UNCHANGED <<disk, everHeld, events, writes, timeouts, faults, indexVars,
                   storeVars, execVars, facadeVars, callVars, toIndex, awaiting,
                   replay, updateOk, stopVars>>

UpdateLock ==
    /\ upc = "lock" /\ updateMutex = Nobody
    /\ updateMutex' = Updater
    /\ upc' = "wait"
    /\ UNCHANGED <<envVars, indexVars, storeVars, execVars, work, deferred,
                   callVars, scanned, toIndex, awaiting, replay, updateOk,
                   stopVars>>

\* waitForIdle under updateMutex: earlier point operations are drained.
UpdateWait ==
    /\ upc = "wait" /\ Idle
    /\ upc' = "scan"
    /\ UNCHANGED <<envVars, indexVars, storeVars, execVars, facadeVars,
                   callVars, scanned, toIndex, awaiting, replay, updateOk,
                   stopVars>>

\* getUpdate's effect on the record of a file it found, or did not find.
Seen(f)    == IF Changed(f, disk[f].ver) THEN Recorded(disk[f].ver) ELSE catalog[f]
Missing(f) == [catalog[f] EXCEPT !.deleted = @ \/ catalog[f].known]

\* The diff with the catalog, and the deletions posted to the strand.
UpdateScan ==
    LET added   == {f \in scanned : ~catalog[f].known}
        updated == {f \in scanned \ added : Changed(f, disk[f].ver)}
        removed == {f \in Files \ scanned : catalog[f].known /\ ~catalog[f].deleted}
    IN
    /\ upc = "scan" /\ \A f \in scanned : disk[f] # Absent
    /\ catalog' = [f \in Files |-> IF f \in scanned THEN Seen(f) ELSE Missing(f)]
    /\ toIndex' = added \cup updated
    /\ scanned' = {}
    /\ updateOk' = TRUE
    /\ IF added \cup updated \cup removed = {}
       THEN upc' = "unlock" /\ UNCHANGED <<execVars, work>>
       ELSE /\ upc' = "erasing"
            /\ work' = TRUE
            /\ PostStrand(EraseTask(updated, removed))
    /\ UNCHANGED <<envVars, wordIds, chunks, flat, wordRefs, storeVars,
                   updateMutex, deferred, callVars, awaiting, replay, stopVars>>

\* A scanned file has vanished: last_write_time throws.  The files S that
\* getUpdate had already visited stay recorded.
UpdateScanThrows ==
    /\ upc = "scan" /\ \E f \in scanned : disk[f] = Absent
    /\ \E S \in SUBSET {f \in scanned : disk[f] # Absent} :
          catalog' = [f \in Files |-> IF f \in S THEN Seen(f) ELSE catalog[f]]
    /\ scanned' = {}
    /\ updateOk' = FALSE
    /\ upc' = "unlock"
    /\ UNCHANGED <<envVars, wordIds, chunks, flat, wordRefs, storeVars,
                   execVars, facadeVars, callVars, toIndex, awaiting,
                   replay, stopVars>>

\* One fileIndexing per added or updated file.
UpdateDispatch ==
    /\ upc = "dispatch"
    /\ LET ts == SetToSeq({IndexTask(f, FALSE) : f \in toIndex}) IN
          /\ pool' = pool \o ts
          /\ active' = active + Len(ts)
    /\ awaiting' = toIndex /\ toIndex' = {}
    /\ upc' = "futures"
    /\ UNCHANGED <<envVars, indexVars, storeVars, strand, facadeVars, callVars,
                   scanned, replay, updateOk, stopVars>>

\* wait_for gives up on one file and goes on with the next.
UpdateTimeout(f) ==
    /\ upc = "futures" /\ f \in awaiting /\ timeouts < MaxTimeouts
    /\ timeouts' = timeouts + 1
    /\ awaiting' = awaiting \ {f}
    /\ UNCHANGED <<disk, everHeld, events, writes, updates, faults, indexVars,
                   storeVars, execVars, facadeVars, callVars, upc, scanned,
                   toIndex, replay, updateOk, stopVars>>

\* Every future is ready or given up: compactMemory through the strand.
UpdateFutures ==
    /\ upc = "futures" /\ awaiting = {}
    /\ PostStrand(ShrinkTask)
    /\ upc' = "shrink"
    /\ UNCHANGED <<envVars, indexVars, storeVars, facadeVars, callVars, scanned,
                   toIndex, awaiting, replay, updateOk, stopVars>>

\* flushPending, then WorkGuard; every exception on the way is recorded.
UpdateFlush ==
    LET failed == upc = "failed" \/ writerError IN
    /\ upc \in {"flush", "failed"}
    /\ mirror' = IF failed THEN mirror ELSE Flushed(mirror)
    /\ storageFailure' = (storageFailure \/ failed)
    /\ updateOk' = ~failed
    /\ work' = FALSE
    /\ upc' = "unlock"
    /\ UNCHANGED <<envVars, indexVars, writerError, execVars, updateMutex,
                   deferred, callVars, scanned, toIndex, awaiting, replay,
                   stopVars>>

UpdateUnlock ==
    /\ upc = "unlock"
    /\ updateMutex' = Nobody
    /\ upc' = "drain"
    /\ UNCHANGED <<envVars, indexVars, storeVars, execVars, work, deferred,
                   callVars, scanned, toIndex, awaiting, replay, updateOk,
                   stopVars>>

\* drainDeferredPointPaths: takeAll ...
UpdateDrain ==
    /\ upc = "drain"
    /\ replay' = IF indexStopping THEN {} ELSE deferred
    /\ deferred' = {}
    /\ upc' = "replay"
    /\ UNCHANGED <<envVars, indexVars, storeVars, execVars, updateMutex, work,
                   callVars, scanned, toIndex, awaiting, updateOk, stopVars>>

\* ... and replay each path by what the disk holds now.  A recorded storage
\* failure throws out of the replay.
UpdateReplay(f) ==
    /\ upc = "replay" /\ cpc[Updater] = "idle" /\ f \in replay
    /\ replay' = IF storageFailure THEN {} ELSE replay \ {f}
    /\ updateOk' = (updateOk /\ (indexStopping \/ ~storageFailure))
    /\ IF indexStopping \/ storageFailure
       THEN UNCHANGED callVars
       ELSE Call(Updater, f, IF disk[f] # Absent THEN "update" ELSE "delete")
    /\ UNCHANGED <<envVars, indexVars, storeVars, execVars, facadeVars, upc,
                   scanned, toIndex, awaiting, stopVars>>

\* updateDocumentBase returned: post compact, or let the exception end it.
UpdateCompact ==
    /\ upc = "replay" /\ cpc[Updater] = "idle" /\ replay = {}
    /\ IF updateOk THEN PostStrand(CompactTask) /\ upc' = "settle"
                   ELSE UNCHANGED execVars /\ upc' = "idle"
    /\ updateOk' = TRUE
    /\ UNCHANGED <<envVars, indexVars, storeVars, facadeVars, callVars, scanned,
                   toIndex, awaiting, replay, stopVars>>

\* waitForIdle after compact, then saveIndex: flush and checkpoint.
UpdateSave ==
    /\ upc = "settle" /\ Idle
    /\ mirror' = IF writerError THEN mirror ELSE Flushed(mirror)
    /\ storageFailure' = (storageFailure \/ writerError)
    /\ upc' = "idle"
    /\ UNCHANGED <<envVars, indexVars, writerError, execVars, facadeVars,
                   callVars, scanned, toIndex, awaiting, replay, updateOk,
                   stopVars>>

-----------------------------------------------------------------------------
(* SearchServer::stop.                                                     *)

StopServer ==
    /\ stopPc = "run" /\ MaxStops = 1
    /\ stopping' = TRUE
    /\ stopPc' = "flag"
    /\ UNCHANGED <<envVars, indexVars, storeVars, execVars, facadeVars,
                   callVars, updateVars, indexStopping>>

StopIndex ==
    /\ stopPc = "flag"
    /\ indexStopping' = TRUE
    /\ stopPc' = "clear"
    /\ UNCHANGED <<envVars, indexVars, storeVars, execVars, facadeVars,
                   callVars, updateVars, stopping>>

StopClear ==
    /\ stopPc = "clear"
    /\ deferred' = {}
    /\ stopPc' = "wait"
    /\ UNCHANGED <<envVars, indexVars, storeVars, execVars, updateMutex, work,
                   callVars, updateVars, stopping, indexStopping>>

\* No operation of the server is active: activeOperations_ = 0.
NoOperation == upc = "idle" /\ \A c \in Callers : cpc[c] = "idle"

\* wait: the operations, then waitForIdle; then saveIndex.
StopWait ==
    /\ stopPc = "wait" /\ NoOperation /\ Idle
    /\ mirror' = IF writerError THEN mirror ELSE Flushed(mirror)
    /\ storageFailure' = (storageFailure \/ writerError)
    /\ stopPc' = "stopped"
    /\ UNCHANGED <<envVars, indexVars, writerError, execVars, facadeVars,
                   callVars, updateVars, stopping, indexStopping>>

-----------------------------------------------------------------------------
Init ==
    /\ disk = [f \in Files |-> Absent] /\ everHeld = [f \in Files |-> {}]
    /\ events = {}
    /\ writes = 0 /\ updates = 0 /\ timeouts = 0 /\ faults = 0
    /\ catalog = [f \in Files |-> [known |-> FALSE, ver |-> 0, deleted |-> FALSE]]
    /\ wordIds = <<>> /\ chunks = [i \in Wids |-> NoPostings] /\ flat = <<>>
    /\ wordRefs = <<>>
    /\ mirror = [f \in Files |-> "none"]
    /\ writerError = FALSE /\ storageFailure = FALSE
    /\ strand = <<>> /\ pool = <<>> /\ active = 0
    /\ updateMutex = Nobody /\ work = FALSE /\ deferred = {}
    /\ cpc = [c \in Callers |-> "idle"]
    /\ cop = [c \in Callers |-> NoOp]
    /\ upc = "idle" /\ scanned = {} /\ toIndex = {} /\ awaiting = {}
    /\ replay = {} /\ updateOk = TRUE
    /\ stopping = FALSE /\ indexStopping = FALSE /\ stopPc = "run"

Environment ==
    \/ \E f \in Files, w \in SUBSET Words : WriteFile(f, w)
    \/ \E f \in Files : RemoveFile(f)
    \/ MirrorFails

\* What a caller does once it has begun a point operation.
CallerStep(c) == \/ TryLock(c) \/ EnqueueUpdate(c) \/ EnqueueDeletion(c)
                 \/ Defer(c) \/ DeferInsert(c) \/ DeferRecheck(c)

StrandStep ==
    \/ StrandUpsert \/ StrandDelete \/ StrandEmptyBatch \/ StrandBatch
    \/ StrandErase \/ StrandShrink
    \/ StrandCompactSkip \/ StrandCompactBegin \/ StrandCompactEnd

PoolStep == \E i \in DOMAIN pool : PoolIndex(i) \/ PoolIndexFails(i) \/ PoolCommit(i)

MirrorStep == \E f \in Files : MirrorWrites(f)

\* What the updater does once a full update has begun.
UpdateStep ==
    \/ UpdateLock \/ UpdateWait \/ UpdateScan \/ UpdateScanThrows
    \/ UpdateDispatch \/ UpdateFutures \/ UpdateFlush \/ UpdateUnlock
    \/ UpdateDrain \/ \E f \in Files : UpdateReplay(f)
    \/ UpdateCompact \/ UpdateSave

StopStep == StopIndex \/ StopClear \/ StopWait

Next ==
    \/ Environment
    \/ \E w \in Watchers, f \in Files, kind \in Kinds : PointBegin(w, f, kind)
    \/ \E c \in Callers : CallerStep(c)
    \/ StrandStep \/ PoolStep \/ MirrorStep
    \/ UpdateBegin \/ UpdateStep \/ \E f \in Files : UpdateTimeout(f)
    \/ StopServer \/ StopStep

Spec == Init /\ [][Next]_vars

\* Every thread that can take a step eventually does: the threads of the
\* callers, the io_commit and cpu pools, the mirror's writer, the updater and
\* the thread that stops the server.  Nobody need change a file, start an
\* operation or stop the server.
FairSpec == /\ Spec
            /\ \A c \in Callers : WF_vars(CallerStep(c))
            /\ WF_vars(StrandStep) /\ WF_vars(PoolStep) /\ WF_vars(MirrorStep)
            /\ WF_vars(UpdateStep) /\ WF_vars(StopStep)

-----------------------------------------------------------------------------
(* Properties.                                                             *)

\* The type of the state; in particular a task in an executor is one of the
\* handlers the code posts, and the flat dictionary exists only in compact.
TypeOK ==
    /\ disk \in [Files -> [ver : 0 .. MaxWrites, words : SUBSET Words]]
    /\ everHeld \in [Files -> SUBSET Words]
    /\ events \subseteq Files \X Kinds
    /\ writes \in 0 .. MaxWrites /\ updates \in 0 .. MaxUpdates
    /\ timeouts \in 0 .. MaxTimeouts /\ faults \in 0 .. MaxFaults
    /\ catalog \in [Files -> [known : BOOLEAN, ver : 0 .. MaxWrites,
                              deleted : BOOLEAN]]
    /\ wordIds \in Seq(Words)
    /\ chunks \in [Wids -> [Files -> Nat]]
    /\ flat \in Seq([Files -> Nat]) /\ (flat # <<>> => updateMutex = Strand)
    /\ DOMAIN wordRefs \subseteq Files
    /\ wordRefs \in [DOMAIN wordRefs -> SUBSET Wids]
    /\ mirror \in [Files -> {"none", "queued", "durable"}]
    /\ writerError \in BOOLEAN /\ storageFailure \in BOOLEAN
    /\ strand \in Seq(StrandTasks) /\ pool \in Seq(PoolTasks) /\ active \in Nat
    /\ updateMutex \in Callers \cup {Strand, Nobody}
    /\ work \in BOOLEAN /\ deferred \subseteq Files
    /\ cpc \in [Callers -> {"idle", "try", "locked", "defer", "insert", "recheck"}]
    /\ cop \in [Callers -> (Files \X Kinds) \cup {NoOp}]
    /\ upc \in {"idle", "lock", "wait", "scan", "erasing", "dispatch", "futures",
                "shrink", "flush", "failed", "unlock", "drain", "replay", "settle"}
    /\ scanned \subseteq Files /\ toIndex \subseteq Files
    /\ awaiting \subseteq Files /\ replay \subseteq Files
    /\ updateOk \in BOOLEAN /\ stopping \in BOOLEAN /\ indexStopping \in BOOLEAN
    /\ stopPc \in {"run", "flag", "clear", "wait", "stopped"}

\* A full update that has passed waitForIdle works alone: until it releases
\* updateMutex no handler of a point operation is queued or running, however
\* the point operations' try_lock and their posts interleave with it.
FullUpdateAlone ==
    upc \in {"scan", "erasing", "dispatch", "futures", "shrink", "flush",
             "failed", "unlock"} =>
        \A t \in Range(strand) \cup Range(pool) : ~IsPoint(t)

Posted(f) == {wordIds[i] : i \in {j \in DOMAIN wordIds : chunks[j][f] > 0}}

\* A search for a word only finds documents that once held that word: no
\* posting ends up under another word's number, and no slot beyond wordIds is
\* filled before its word exists.
NoForeignWords ==
    /\ \A f \in Files : Posted(f) \subseteq everHeld[f]
    /\ \A i \in Wids \ DOMAIN wordIds : chunks[i] = NoPostings

\* While the writer works, whatever a search can find has a row in the mirror,
\* written or queued; and for a point update, whatever has happened to the
\* writer, the row is durable before the postings are published.
PublishedIsMirrored ==
    /\ ~writerError => \A f \in Files : Posted(f) # {} => mirror[f] # "none"
    /\ \A t \in Range(pool) : t.k = "commit" /\ t.point => mirror[t.f] = "durable"

\* The eternal trace: while a document is marked deleted no step takes a
\* posting of it away.
EternalTrace ==
    [][\A f \in Files : catalog[f].deleted /\ catalog'[f].deleted =>
          Posted(f) \subseteq Posted(f)']_vars

\* stop() is final: once it has returned no handler is queued or running, no
\* operation is inside, and no path waits for a replay that will never come.
StopIsFinal ==
    stopPc = "stopped" =>
        NoOperation /\ strand = <<>> /\ pool = <<>> /\ deferred = {}

\* Nothing is in progress.
Quiet == NoOperation /\ Idle

\* At rest the postings of a document are the words wordRefs has for it, each
\* counted once: commits took effect in the order of the strand.
RefsMatchPostings ==
    Quiet /\ ~writerError => \A f \in Files, i \in Wids :
        chunks[i][f] = IF f \in DOMAIN wordRefs /\ i \in wordRefs[f] THEN 1 ELSE 0

\* A full update always ends.
UpdateEnds == (upc # "idle") ~> (upc = "idle")

\* A stop always ends.
StopEnds == stopping ~> (stopPc = "stopped")

\* The state of the index at every moment: well typed, postings under their own
\* words and, at rest, in step with wordRefs, through every renumbering.
IndexInv == TypeOK /\ NoForeignWords /\ RefsMatchPostings

\* Updates and stops end, whatever times out or fails meanwhile.
OperationsEnd == UpdateEnds /\ StopEnds
=============================================================================
