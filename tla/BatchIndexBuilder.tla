------------------------- MODULE BatchIndexBuilder -------------------------
(***************************************************************************)
(* The parallel full build of the inverted index:                          *)
(* src/src/Index/Batch/BatchIndexBuilder.cpp over BoundedByteQueue.h.      *)
(*                                                                         *)
(* Reader threads take file numbers from a shared counter, borrow an idle  *)
(* indexer thread, and stream the file to it through that indexer's        *)
(* byte-bounded lane as  Start Data* (Complete | Abort).  The indexer      *)
(* accumulates the document and commits it to its private dictionary.      *)
(* The thread that called build() spawns both groups, joins them, and      *)
(* either returns what was built or rethrows the first fatal error.        *)
(*                                                                         *)
(* Condition variables are modelled with the set of threads asleep on      *)
(* them: a thread whose predicate is false goes to sleep and only a notify *)
(* (or a spurious wakeup) lets it test the predicate again.                *)
(***************************************************************************)
EXTENDS Integers, Sequences, FiniteSets

CONSTANTS
    Readers,        \* options_.readerThreads reader threads
    Indexers,       \* options_.indexerThreads indexer threads, one lane each
    Main,           \* the thread that runs build()
    NoWorker,       \* a reader that holds no indexer
    NumFiles,       \* paths.size(); a FileId is a position in paths
    LaneCapacity,   \* queueMemoryBytes / indexerThreads, at least 1
    ReadBlock,      \* kReadBlockSize
    FileSizes,      \* the sizes a file on disk may have
    Faults          \* which failures of the environment may happen

ASSUME ConstantsAssumption ==
    /\ IsFiniteSet(Readers) /\ Readers \cap Indexers = {}
    /\ Main \notin Readers \cup Indexers
    /\ NoWorker \notin Indexers
    /\ NumFiles \in Nat
    /\ LaneCapacity \in Nat \ {0}
    /\ ReadBlock \in Nat \ {0}
    /\ FileSizes \subseteq Nat
    /\ Faults \subseteq {"open", "read", "readerThrow", "indexerThrow", "spawn"}

\* std::max<std::size_t>(1, options_.readerThreads)
ASSUME ReadersAssumption == Readers # {}

Files   == 0 .. NumFiles - 1
Threads == Readers \cup Indexers \cup {Main}
NoDoc   == [fileId |-> -1, bytes |-> 0, flushed |-> FALSE]

\* The largest part of a read that travels as one block.
PayloadSize == IF ReadBlock <= LaneCapacity THEN ReadBlock ELSE LaneCapacity

VARIABLES
    pc,         \* where each thread is
    asleep,     \* threads blocked on a condition variable
    \* shared state of build()
    nextJob, readersRemaining, indexedFiles, fileErrors, fatalError,
    \* AvailableWorkers
    workers, workersCancelled,
    \* the lanes
    queue, queuedBytes, closed, cancelled,
    \* locals of the threads
    sweep,      \* lanes a closeLanes or cancelPipeline loop has still to visit
    rFile, rWorker, rLeft, rCount, rLast,       \* a reader
    document, dictionary,                       \* an indexer
    \* the disk
    size

lanes   == <<queue, queuedBytes, closed, cancelled>>
pool    == <<workers, workersCancelled>>
shared  == <<nextJob, readersRemaining, indexedFiles, fileErrors, fatalError>>
rVars   == <<rFile, rWorker, rLeft, rCount, rLast>>
iVars   == <<document, dictionary>>
vars    == <<pc, asleep, shared, pool, lanes, sweep, rVars, iVars, size>>

Init ==
    /\ pc = [t \in Threads |-> IF t = Main THEN "spawn" ELSE "unborn"]
    /\ asleep = {}
    /\ nextJob = 0 /\ readersRemaining = Cardinality(Readers)
    /\ indexedFiles = 0 /\ fileErrors = {} /\ fatalError = "none"
    /\ workers = Indexers /\ workersCancelled = FALSE
    /\ queue = [w \in Indexers |-> << >>]
    /\ queuedBytes = [w \in Indexers |-> 0]
    /\ closed = [w \in Indexers |-> FALSE]
    /\ cancelled = [w \in Indexers |-> FALSE]
    /\ sweep = [t \in Threads |-> {}]
    /\ rFile = [r \in Readers |-> 0]
    /\ rWorker = [r \in Readers |-> NoWorker]
    /\ rLeft = [r \in Readers |-> 0]
    /\ rCount = [r \in Readers |-> 0]
    /\ rLast = [r \in Readers |-> FALSE]
    /\ document = [w \in Indexers |-> NoDoc]
    /\ dictionary = [w \in Indexers |-> {}]
    /\ size \in [Files -> FileSizes]

Goto(t, label) == pc' = [pc EXCEPT ![t] = label]

AwakeAt(t, label) == pc[t] = label /\ t \notin asleep

---------------------------------------------------------------------------
(* The threads asleep on each condition variable. *)

SleepersOnWorkers == {r \in Readers \cap asleep : pc[r] = "acquire"}
\* Mutant: close() and cancel() notify notEmpty_ only.
SleepersOnLane_NotEmptyOnly(w) == {w} \cap asleep
SleepersOnLane(w) ==
    {r \in Readers \cap asleep : rWorker[r] = w} \cup ({w} \cap asleep)

Sleep(t) ==
    /\ asleep' = asleep \cup {t}
    /\ UNCHANGED <<pc, shared, pool, lanes, sweep, rVars, iVars, size>>

\* The standard allows a wait to return without a notify.
SpuriousWakeup(t) ==
    /\ t \in asleep
    /\ asleep' = asleep \ {t}
    /\ UNCHANGED <<pc, shared, pool, lanes, sweep, rVars, iVars, size>>

---------------------------------------------------------------------------
(* Fatal errors and the closing of the lanes, from any thread. *)

\* setFatal: the first error is the one build() rethrows; then cancelPipeline.
SetFatal(t, error) ==
    /\ fatalError' = IF fatalError = "none" THEN error ELSE fatalError
    /\ Goto(t, "cancelWorkers")

\* availableWorkers.cancel()
CancelWorkers(t) ==
    /\ pc[t] = "cancelWorkers"
    /\ workersCancelled' = TRUE
    /\ asleep' = asleep \ SleepersOnWorkers
    /\ sweep' = [sweep EXCEPT ![t] = Indexers]
    /\ Goto(t, "cancelLanes")
    /\ UNCHANGED <<shared, workers, lanes, rVars, iVars, size>>

\* lane->cancel() for one lane of the loop.
CancelLane(t, w) ==
    /\ pc[t] = "cancelLanes" /\ w \in sweep[t]
    /\ cancelled' = [cancelled EXCEPT ![w] = TRUE]
    /\ queue' = [queue EXCEPT ![w] = << >>]
    /\ queuedBytes' = [queuedBytes EXCEPT ![w] = 0]
    /\ asleep' = asleep \ SleepersOnLane(w)
    /\ sweep' = [sweep EXCEPT ![t] = @ \ {w}]
    /\ UNCHANGED <<pc, shared, pool, closed, rVars, iVars, size>>

\* The catch (...) blocks end: a reader still counts itself out.
CancelDone(t) ==
    /\ pc[t] = "cancelLanes" /\ sweep[t] = {}
    /\ Goto(t, IF t \in Readers THEN "leave"
               ELSE IF t \in Indexers THEN "exited" ELSE "joinReaders")
    /\ UNCHANGED <<asleep, shared, pool, lanes, sweep, rVars, iVars, size>>

\* lane->close() for one lane of closeLanes().
CloseLane(t, w) ==
    /\ pc[t] = "closeLanes" /\ w \in sweep[t]
    /\ closed' = [closed EXCEPT ![w] = TRUE]
    /\ asleep' = asleep \ SleepersOnLane(w)
    /\ sweep' = [sweep EXCEPT ![t] = @ \ {w}]
    /\ UNCHANGED <<pc, shared, pool, queue, queuedBytes, cancelled,
                   rVars, iVars, size>>

CloseDone(t) ==
    /\ pc[t] = "closeLanes" /\ sweep[t] = {}
    /\ Goto(t, IF t \in Readers THEN "exited" ELSE "joinIndexers")
    /\ UNCHANGED <<asleep, shared, pool, lanes, sweep, rVars, iVars, size>>

---------------------------------------------------------------------------
(* A reader thread. *)

\* jobIndex >= paths.size()
NoMoreJobs == nextJob >= NumFiles

\* nextJob.fetch_add(1)
TakeJob(r) ==
    /\ pc[r] = "job"
    /\ nextJob' = nextJob + 1
    /\ Goto(r, IF NoMoreJobs THEN "leave" ELSE "open")
    /\ rFile' = [rFile EXCEPT ![r] = IF NoMoreJobs THEN @ ELSE nextJob]
    /\ UNCHANGED <<asleep, readersRemaining, indexedFiles, fileErrors,
                   fatalError, pool, lanes, sweep, rWorker, rLeft, rCount,
                   rLast, iVars, size>>

\* The locals of an iteration of the reader's loop end with it.
Forget(r) ==
    /\ rFile' = [rFile EXCEPT ![r] = 0]
    /\ rWorker' = [rWorker EXCEPT ![r] = NoWorker]
    /\ rLeft' = [rLeft EXCEPT ![r] = 0]
    /\ rCount' = [rCount EXCEPT ![r] = 0]
    /\ rLast' = [rLast EXCEPT ![r] = FALSE]

\* Mutant: the error is logged but not recorded.
AddFileError_NotRecorded(r) == fileErrors' = fileErrors
AddFileError(r) == fileErrors' = fileErrors \cup {rFile[r]}

\* last_write_time, file_size or the open fails: the file is reported, and
\* the reader goes on with the next one.
OpenFails(r) ==
    /\ "open" \in Faults /\ pc[r] = "open"
    /\ AddFileError(r)
    /\ Forget(r)
    /\ Goto(r, "job")
    /\ UNCHANGED <<asleep, nextJob, readersRemaining, indexedFiles, fatalError,
                   pool, lanes, sweep, iVars, size>>

Open(r) ==
    /\ pc[r] = "open"
    /\ rLeft' = [rLeft EXCEPT ![r] = size[rFile[r]]]
    /\ Goto(r, "acquire")
    /\ UNCHANGED <<asleep, shared, pool, lanes, sweep, rFile, rWorker, rCount,
                   rLast, iVars, size>>

\* workers_.front() and pop_front()
\* Mutant: pop_front() forgotten.
Borrow_KeepsWorker(r, w) ==
    workers' = workers /\ rWorker' = [rWorker EXCEPT ![r] = w]
Borrow(r, w) ==
    workers' = workers \ {w} /\ rWorker' = [rWorker EXCEPT ![r] = w]

\* availableWorkers.acquire(); the code hands out the oldest idle indexer, the
\* model any of them.
Acquire(r) ==
    /\ AwakeAt(r, "acquire") /\ ~workersCancelled
    /\ \E w \in workers : Borrow(r, w)
    /\ Goto(r, "start")
    /\ UNCHANGED <<asleep, shared, workersCancelled, lanes, sweep, rFile, rLeft,
                   rCount, rLast, iVars, size>>

\* acquire() returned nullopt: the reader leaves its loop.
AcquireRefused(r) ==
    /\ AwakeAt(r, "acquire") /\ workersCancelled
    /\ Forget(r)
    /\ Goto(r, "leave")
    /\ UNCHANGED <<asleep, shared, pool, lanes, sweep, iVars, size>>

AcquireWaits(r) ==
    /\ AwakeAt(r, "acquire")
    /\ ~workersCancelled /\ workers = {}
    /\ Sleep(r)

\* file.read() of up to ReadBlock bytes.  The stream reports eof only when it
\* could not fill the buffer, so a full last block is not known to be the last.
Read(r) ==
    /\ pc[r] = "read"
    /\ LET count == IF rLeft[r] <= ReadBlock THEN rLeft[r] ELSE ReadBlock IN
       /\ rLeft' = [rLeft EXCEPT ![r] = @ - count]
       /\ rCount' = [rCount EXCEPT ![r] = count]
       /\ rLast' = [rLast EXCEPT ![r] = rLeft[r] < ReadBlock]
       /\ Goto(r, IF count = 0 THEN "complete" ELSE "data")
    /\ UNCHANGED <<asleep, shared, pool, lanes, sweep, rFile, rWorker, iVars,
                   size>>

\* FileReadError: the file is reported and its document is to be aborted.
ReadFails(r) ==
    /\ "read" \in Faults /\ pc[r] = "read"
    /\ AddFileError(r)
    /\ Goto(r, "abort")
    /\ UNCHANGED <<asleep, nextJob, readersRemaining, indexedFiles, fatalError,
                   pool, lanes, sweep, rVars, iVars, size>>

\* The block the reader is about to push, with the weight it has in the lane.
NextBlock(r) ==
    LET part == IF rCount[r] <= PayloadSize THEN rCount[r] ELSE PayloadSize IN
    CASE pc[r] = "start"    -> [kind |-> "Start",    fileId |-> rFile[r],
                                isLastChunk |-> FALSE, weight |-> 1]
      [] pc[r] = "data"     -> [kind |-> "Data",     fileId |-> rFile[r],
                                isLastChunk |-> rLast[r] /\ part = rCount[r],
                                weight |-> part]
      [] pc[r] = "complete" -> [kind |-> "Complete", fileId |-> rFile[r],
                                isLastChunk |-> FALSE, weight |-> 1]
      [] pc[r] = "abort"    -> [kind |-> "Abort",    fileId |-> rFile[r],
                                isLastChunk |-> FALSE, weight |-> 1]

\* Does the lane have room for the weight?
\* Mutant: room for one byte is taken for room for the block.
Fits_AnyRoom(w, weight) == queuedBytes[w] < LaneCapacity
Fits(w, weight) == queuedBytes[w] + weight <= LaneCapacity

PushLabels == {"start", "data", "complete", "abort"}

\* lane.push(NextBlock): the block fits and the reader goes on.
Push(r) ==
    LET w == rWorker[r]
        b == NextBlock(r) IN
    /\ pc[r] \in PushLabels /\ r \notin asleep
    /\ ~cancelled[w] /\ ~closed[w]
    /\ Fits(w, b.weight)
    /\ queue' = [queue EXCEPT ![w] = Append(@, b)]
    /\ queuedBytes' = [queuedBytes EXCEPT ![w] = @ + b.weight]
    /\ asleep' = asleep \ {w}
    /\ IF pc[r] \in {"complete", "abort"}
       THEN Forget(r)
       ELSE /\ rCount' = [rCount EXCEPT ![r] = IF pc[r] = "data" THEN @ - b.weight
                                                               ELSE @]
            /\ UNCHANGED <<rFile, rWorker, rLeft, rLast>>
    /\ Goto(r, CASE pc[r] = "start" -> "read"
                 [] pc[r] = "data"  -> IF rCount[r] > b.weight THEN "data"
                                       ELSE IF rLast[r] THEN "complete"
                                       ELSE "read"
                 [] OTHER           -> "job")
    /\ UNCHANGED <<shared, pool, closed, cancelled, sweep, iVars, size>>

\* lane.push returned false: the reader leaves its loop.
PushRefused(r) ==
    /\ pc[r] \in PushLabels /\ r \notin asleep
    /\ cancelled[rWorker[r]] \/ closed[rWorker[r]]
    /\ Forget(r)
    /\ Goto(r, "leave")
    /\ UNCHANGED <<asleep, shared, pool, lanes, sweep, iVars, size>>

PushWaits(r) ==
    /\ pc[r] \in PushLabels /\ r \notin asleep
    /\ ~cancelled[rWorker[r]] /\ ~closed[rWorker[r]]
    /\ ~Fits(rWorker[r], NextBlock(r).weight)
    /\ Sleep(r)

\* Any other exception of a reader (an allocation failure) is fatal.
ReaderThrows(r) ==
    /\ "readerThrow" \in Faults
    /\ pc[r] \in PushLabels \cup {"open", "read"} /\ r \notin asleep
    /\ SetFatal(r, "thrown")
    /\ Forget(r)
    /\ UNCHANGED <<asleep, nextJob, readersRemaining, indexedFiles, fileErrors,
                   pool, lanes, sweep, iVars, size>>

\* Mutant: closes one reader too early.
LastReader_OneEarly == readersRemaining <= 2
LastReader == readersRemaining = 1

\* readersRemaining.fetch_sub(1): the last reader closes the lanes.
Leave(r) ==
    /\ pc[r] = "leave"
    /\ readersRemaining' = readersRemaining - 1
    /\ Goto(r, IF LastReader THEN "closeLanes" ELSE "exited")
    /\ sweep' = [sweep EXCEPT ![r] = IF LastReader THEN Indexers ELSE @]
    /\ UNCHANGED <<asleep, nextJob, indexedFiles, fileErrors, fatalError, pool,
                   lanes, rVars, iVars, size>>

---------------------------------------------------------------------------
(* An indexer thread. *)

\* The block that pop() takes from the lane; pushers waiting for room wake up.
TakeBlock(w) ==
    /\ AwakeAt(w, "pop")
    /\ ~cancelled[w] /\ queue[w] # << >>
    /\ queue' = [queue EXCEPT ![w] = Tail(@)]
    /\ queuedBytes' = [queuedBytes EXCEPT ![w] = @ - Head(queue[w]).weight]
    /\ asleep' = asleep \ {r \in Readers : rWorker[r] = w}
    /\ UNCHANGED <<closed, cancelled, pool, sweep, rVars, size>>

\* Is the block the next one of the document under construction?
InSequence(w, b) ==
    IF b.kind = "Start" THEN document[w] = NoDoc
                        ELSE document[w] # NoDoc /\ document[w].fileId = b.fileId

\* tokenizeBlock: the words of the block are counted; a word cut by its end is
\* carried over to the next block unless the block is the last one.
Tokenized(doc, b) ==
    [fileId |-> doc.fileId, bytes |-> doc.bytes + b.weight, flushed |-> b.isLastChunk]

PopStart(w) ==
    /\ TakeBlock(w)
    /\ LET b == Head(queue[w]) IN
       /\ b.kind = "Start" /\ InSequence(w, b)
       /\ document' = [document EXCEPT ![w] = [NoDoc EXCEPT !.fileId = b.fileId]]
    /\ UNCHANGED <<pc, shared, dictionary>>

PopData(w) ==
    /\ TakeBlock(w)
    /\ LET b == Head(queue[w]) IN
       /\ b.kind = "Data" /\ InSequence(w, b)
       /\ document' = [document EXCEPT ![w] = Tokenized(@, b)]
    /\ UNCHANGED <<pc, shared, dictionary>>

PopComplete(w) ==
    /\ TakeBlock(w)
    /\ LET b == Head(queue[w]) IN b.kind = "Complete" /\ InSequence(w, b)
    /\ dictionary' = [dictionary EXCEPT ![w] = @ \cup {document[w]}]
    /\ document' = [document EXCEPT ![w] = NoDoc]
    /\ indexedFiles' = indexedFiles + 1
    /\ Goto(w, "release")
    /\ UNCHANGED <<nextJob, readersRemaining, fileErrors, fatalError>>

PopAbort(w) ==
    /\ TakeBlock(w)
    /\ LET b == Head(queue[w]) IN b.kind = "Abort" /\ InSequence(w, b)
    /\ document' = [document EXCEPT ![w] = NoDoc]
    /\ Goto(w, "release")
    /\ UNCHANGED <<shared, dictionary>>

\* A block out of sequence ("overlapping files", "orphan data block", "orphan
\* completion", "orphan abort"), or an allocation failure, ends the indexer.
PopThrows(w) ==
    /\ TakeBlock(w)
    /\ InSequence(w, Head(queue[w])) => "indexerThrow" \in Faults
    /\ SetFatal(w, IF InSequence(w, Head(queue[w])) THEN "thrown" ELSE "protocol")
    /\ UNCHANGED <<nextJob, readersRemaining, indexedFiles, fileErrors, iVars>>

PopWaits(w) ==
    /\ AwakeAt(w, "pop")
    /\ ~cancelled[w] /\ ~closed[w] /\ queue[w] = << >>
    /\ Sleep(w)

\* pop() returns nullopt.
\* Mutant: a closed lane is not drained.
LaneEnded_NotDrained(w) == AwakeAt(w, "pop") /\ (cancelled[w] \/ closed[w])
LaneEnded(w) == AwakeAt(w, "pop") /\ (cancelled[w] \/ (closed[w] /\ queue[w] = << >>))

\* pop() returned nullopt between documents.
IndexerExits(w) ==
    /\ LaneEnded(w) /\ document[w] = NoDoc
    /\ Goto(w, "exited")
    /\ UNCHANGED <<asleep, shared, pool, lanes, sweep, rVars, iVars, size>>

\* "batch indexer stopped inside a document"
IndexerStopsInside(w) ==
    /\ LaneEnded(w) /\ document[w] # NoDoc
    /\ SetFatal(w, "protocol")
    /\ UNCHANGED <<asleep, nextJob, readersRemaining, indexedFiles, fileErrors,
                   pool, lanes, sweep, rVars, iVars, size>>

\* availableWorkers.release(worker) wakes one reader, if one sleeps.
Release(w) ==
    /\ pc[w] = "release"
    /\ Goto(w, "pop")
    /\ IF workersCancelled
       THEN UNCHANGED <<workers, asleep>>
       ELSE /\ workers' = workers \cup {w}
            /\ IF SleepersOnWorkers = {}
               THEN UNCHANGED asleep
               ELSE \E r \in SleepersOnWorkers : asleep' = asleep \ {r}
    /\ UNCHANGED <<shared, workersCancelled, lanes, sweep, rVars, iVars, size>>

---------------------------------------------------------------------------
(* The thread that runs build(). *)

\* indexers.emplace_back for all of them, then readers.emplace_back.
Spawn(t) ==
    /\ pc[Main] = "spawn" /\ t \in Readers \cup Indexers /\ pc[t] = "unborn"
    /\ t \in Readers => \A w \in Indexers : pc[w] # "unborn"
    /\ Goto(t, IF t \in Readers THEN "job" ELSE "pop")
    /\ UNCHANGED <<asleep, shared, pool, lanes, sweep, rVars, iVars, size>>

SpawnDone ==
    /\ pc[Main] = "spawn"
    /\ \A t \in Readers \cup Indexers : pc[t] # "unborn"
    /\ Goto(Main, "joinReaders")
    /\ UNCHANGED <<asleep, shared, pool, lanes, sweep, rVars, iVars, size>>

\* std::thread could not be created.
SpawnFails ==
    /\ "spawn" \in Faults
    /\ pc[Main] = "spawn" /\ \E t \in Readers \cup Indexers : pc[t] = "unborn"
    /\ SetFatal(Main, "thrown")
    /\ UNCHANGED <<asleep, nextJob, readersRemaining, indexedFiles, fileErrors,
                   pool, lanes, sweep, rVars, iVars, size>>

\* joinAll: the threads that were created have ended.
Joined(ts) == \A t \in ts : pc[t] \in {"unborn", "exited"}

\* joinAll(readers), then closeLanes()
JoinReaders ==
    /\ pc[Main] = "joinReaders"
    /\ Joined(Readers)
    /\ sweep' = [sweep EXCEPT ![Main] = Indexers]
    /\ Goto(Main, "closeLanes")
    /\ UNCHANGED <<asleep, shared, pool, lanes, rVars, iVars, size>>

\* joinAll(indexers), then rethrow the fatal error or return: without file
\* errors what is returned is the merge of the indexers' dictionaries.
JoinIndexers ==
    /\ pc[Main] = "joinIndexers"
    /\ Joined(Indexers)
    /\ Goto(Main, IF fatalError # "none" THEN "threw"
                  ELSE IF fileErrors # {} THEN "returnedErrors"
                  ELSE "returnedSnapshot")
    /\ UNCHANGED <<asleep, shared, pool, lanes, sweep, rVars, iVars, size>>

Ended == pc[Main] \in {"threw", "returnedErrors", "returnedSnapshot"}

\* build() has returned; there is nothing left to do.
Terminated == Ended /\ UNCHANGED vars

---------------------------------------------------------------------------
Sweeping(t) ==
    \/ CancelWorkers(t) \/ CancelDone(t) \/ CloseDone(t)
    \/ \E w \in Indexers : CancelLane(t, w) \/ CloseLane(t, w)

Reader(r) ==
    \/ TakeJob(r) \/ OpenFails(r) \/ Open(r)
    \/ Acquire(r) \/ AcquireRefused(r) \/ AcquireWaits(r)
    \/ Read(r) \/ ReadFails(r)
    \/ Push(r) \/ PushRefused(r) \/ PushWaits(r)
    \/ ReaderThrows(r) \/ Leave(r) \/ Sweeping(r)

Indexer(w) ==
    \/ PopStart(w) \/ PopData(w) \/ PopComplete(w) \/ PopAbort(w)
    \/ PopThrows(w)
    \/ PopWaits(w) \/ IndexerExits(w) \/ IndexerStopsInside(w)
    \/ Release(w) \/ Sweeping(w)

Builder ==
    \/ \E t \in Readers \cup Indexers : Spawn(t)
    \/ SpawnDone \/ SpawnFails \/ JoinReaders \/ JoinIndexers
    \/ Sweeping(Main)

Next ==
    \/ \E r \in Readers : Reader(r)
    \/ \E w \in Indexers : Indexer(w)
    \/ Builder
    \/ \E t \in Readers \cup Indexers : SpuriousWakeup(t)
    \/ Terminated

Spec == Init /\ [][Next]_vars

\* Every thread that can run is eventually run by the operating system.
Fairness ==
    /\ \A r \in Readers : WF_vars(Reader(r))
    /\ \A w \in Indexers : WF_vars(Indexer(w))
    /\ WF_vars(Builder)

FairSpec == Spec /\ Fairness

---------------------------------------------------------------------------
(* Properties. *)

Labels == {"unborn", "spawn", "job", "open", "acquire", "start", "read", "data",
           "complete", "abort", "leave", "pop", "release", "cancelWorkers",
           "cancelLanes", "closeLanes", "joinReaders", "joinIndexers", "exited",
           "threw", "returnedErrors", "returnedSnapshot"}

Block == [kind : {"Start", "Data", "Complete", "Abort"}, fileId : Files,
          isLastChunk : BOOLEAN, weight : Nat \ {0}]
Document == [fileId : Files, bytes : Nat, flushed : BOOLEAN]

(* Every variable of the builder keeps its type. *)
TypeOK ==
    /\ pc \in [Threads -> Labels]
    /\ asleep \subseteq Readers \cup Indexers
    /\ nextJob \in Nat /\ readersRemaining \in Int /\ indexedFiles \in Nat
    /\ fileErrors \subseteq Files
    /\ fatalError \in {"none", "thrown", "protocol"}
    /\ workers \subseteq Indexers /\ workersCancelled \in BOOLEAN
    /\ queue \in [Indexers -> Seq(Block)]
    /\ queuedBytes \in [Indexers -> Int]
    /\ closed \in [Indexers -> BOOLEAN] /\ cancelled \in [Indexers -> BOOLEAN]
    /\ sweep \in [Threads -> SUBSET Indexers]
    /\ rFile \in [Readers -> Files \cup {0}]
    /\ rWorker \in [Readers -> Indexers \cup {NoWorker}]
    /\ rLeft \in [Readers -> Nat] /\ rCount \in [Readers -> Nat]
    /\ rLast \in [Readers -> BOOLEAN]
    /\ document \in [Indexers -> Document \cup {NoDoc}]
    /\ dictionary \in [Indexers -> SUBSET Document]
    /\ size \in [Files -> Nat]

Committed == UNION {dictionary[w] : w \in Indexers}
CommittedFiles == {d.fileId : d \in Committed}

(* The sum of the weights queued in a lane. *)
QueuedWeight(w) ==
    LET sum[i \in 0 .. Len(queue[w])] ==
            IF i = 0 THEN 0 ELSE sum[i - 1] + queue[w][i].weight
    IN  sum[Len(queue[w])]

(* BoundedByteQueue: queuedBytes_ is always the weight of what is queued, and
   never above the capacity, whoever pushes, pops, cancels or closes. *)
ByteBudget ==
    \A w \in Indexers : /\ queuedBytes[w] = QueuedWeight(w)
                        /\ queuedBytes[w] <= LaneCapacity

(* The four "overlapping / orphan" exceptions and "stopped inside a document"
   are never the first fatal error: the pipeline never breaks its own
   Start Data* (Complete | Abort) protocol, whatever the environment does. *)
NoProtocolError == fatalError # "protocol"

(* An indexer that is offered to readers is idle: its lane is empty, it has no
   document under construction, and no reader still holds it; and no two
   readers hold the same indexer. *)
ExclusiveWorkers ==
    /\ \A w \in workers : ~cancelled[w] =>
          /\ queue[w] = << >> /\ document[w] = NoDoc
          /\ \A r \in Readers : rWorker[r] # w
    /\ \A r, s \in Readers : rWorker[r] = rWorker[s] /\ rWorker[r] # NoWorker => r = s

(* Without a fatal error build() returns only when every file was committed to
   exactly one dictionary, with all its bytes, or was reported as an error, never
   both, and indexedFiles counts the committed ones.  Tokens cut by a block
   boundary are glued through carry, and the tail is flushed on the last block
   (simd_tokenizer.h): no word of a committed document is still in carry, except
   where the file fills its last read exactly and the stream reports the end only
   with the next, empty read. *)
NothingLost ==
    pc[Main] \in {"returnedErrors", "returnedSnapshot"} =>
      /\ CommittedFiles \cup fileErrors = Files
      /\ CommittedFiles \cap fileErrors = {}
      /\ \A v, w \in Indexers : \A d \in dictionary[v], e \in dictionary[w] :
            d.fileId = e.fileId => v = w /\ d = e
      /\ \A d \in Committed : /\ d.bytes = size[d.fileId]
                              /\ d.bytes % ReadBlock # 0 => d.flushed
      /\ indexedFiles = Cardinality(CommittedFiles)

(* No thread of the build outlives it: the locals the threads refer to by
   reference are destroyed when build() returns. *)
NoThreadOutlivesBuild ==
    Ended => \A t \in Readers \cup Indexers : pc[t] \in {"unborn", "exited"}

(* build() always ends, by a return or by an exception: no lost wakeup and no
   circular wait between readers, indexers and the joining thread; and none of its
   threads is left when it does. *)
BuildEnds == <>Ended /\ []NoThreadOutlivesBuild

\* What the rest of the program may rely on: see BatchBuild.
Outcome == [f \in Files |-> IF f \in CommittedFiles THEN "indexed"
                            ELSE IF f \in fileErrors THEN "failed" ELSE "pending"]
Result == CASE pc[Main] = "threw"            -> "threw"
            [] pc[Main] = "returnedErrors"   -> "errors"
            [] pc[Main] = "returnedSnapshot" -> "snapshot"
            [] OTHER                         -> "running"

Abstract == INSTANCE BatchBuild WITH outcome <- Outcome, result <- Result

(* The pipeline implements the promise of build(): every file is settled once,
   as indexed or as failed, and build() returns only when all are. *)
ImplementsBatchBuild == Abstract!Spec
=============================================================================
