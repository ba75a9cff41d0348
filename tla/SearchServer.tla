---------------------------- MODULE SearchServer ----------------------------
(***************************************************************************)
(* Searches, full updates and shutdown on one CPU pool:                    *)
(* src/src/SearchServer/SearchServer.cpp, the periodic update task, the    *)
(* commands of the network sessions, and the order in which                *)
(* SearchEngineApplication::shutdownRuntime takes them down.               *)
(*                                                                         *)
(* A search is a command that a session runs on cpu_pool_.  updateStep     *)
(* runs on cpu_pool_ too, either as the scheduler's periodic task or       *)
(* through flushUpdateAndSaveDictionary, and the indexing of the changed   *)
(* files is again work for cpu_pool_.  A task holds its pool thread while  *)
(* it blocks on updateM, on searchM or on cv_search_server.                *)
(***************************************************************************)
EXTENDS Integers, Sequences, FiniteSets

CONSTANTS
    Searches,       \* requests that clients may send
    Periodic,       \* runs of PeriodicIndexUpdateTask
    Commands,       \* updates asked for by a client
    Nobody,         \* a mutex is free
    PoolThreads,    \* size of cpu_pool_
    MaxFaults       \* bound: failures of updateDocumentBase or saveIndex

Updates == Periodic \cup Commands
Calls   == Searches \cup Updates
Job(u)  == <<"index", u>>                       \* the indexing an update posts
Jobs    == {Job(u) : u \in Updates}
Tasks   == Calls \cup Jobs

ASSUME ServerAssumption ==
    /\ IsFiniteSet(Searches) /\ IsFiniteSet(Periodic) /\ IsFiniteSet(Commands)
    /\ Searches \cap Updates = {} /\ Periodic \cap Commands = {}
    /\ Jobs \cap Calls = {} /\ Nobody \notin Calls
    /\ PoolThreads \in Nat \ {0}
    /\ MaxFaults \in Nat

VARIABLES
    pc,             \* where each task is
    queue,          \* tasks posted to cpu_pool_ that no thread has taken
    updateM,        \* the update that holds updateM
    searchWriter,   \* the update that holds searchM exclusively
    searchReaders,  \* the searches that hold searchM shared
    asleep,         \* searches waiting on cv_search_server
    updateIsRunning, mustStartUpdate, work, stopping,
    closed,         \* sessions and scheduler no longer accept work
    faults,
    stopPc          \* shutdownRuntime

vars == <<pc, queue, updateM, searchWriter, searchReaders, asleep,
          updateIsRunning, mustStartUpdate, work, stopping, closed, faults,
          stopPc>>

-----------------------------------------------------------------------------
(* The pool.                                                               *)

Waiting == {"none", "queued", "done"}           \* states without a thread
Running == {t \in Tasks : pc[t] \notin Waiting}
Go(t, label) == pc' = [pc EXCEPT ![t] = label]

\* A pool thread that is free takes the first task.
Take ==
    /\ queue # <<>> /\ Cardinality(Running) < PoolThreads
    /\ Go(Head(queue), "enter")
    /\ queue' = Tail(queue)
    /\ UNCHANGED <<updateM, searchWriter, searchReaders, asleep, updateIsRunning,
                   mustStartUpdate, work, stopping, closed, faults, stopPc>>

\* activeAsyncOperations_ = 0: no indexing is posted or running.
IndexIdle == \A j \in Jobs : pc[j] \in {"none", "done"}

\* An indexing task; what it does is the subject of module InvertedIndex.
RunJob(j) ==
    /\ pc[j] = "enter"
    /\ Go(j, "done")
    /\ UNCHANGED <<queue, updateM, searchWriter, searchReaders, asleep,
                   updateIsRunning, mustStartUpdate, work, stopping, closed,
                   faults, stopPc>>

-----------------------------------------------------------------------------
(* Searches: getAnswer.                                                    *)

\* A session hands the command to the pool.
PostSearch(s) ==
    /\ pc[s] = "none" /\ ~closed
    /\ Go(s, "queued")
    /\ queue' = Append(queue, s)
    /\ UNCHANGED <<updateM, searchWriter, searchReaders, asleep, updateIsRunning,
                   mustStartUpdate, work, stopping, closed, faults, stopPc>>

\* OperationGuard; a stopping server answers with nothing.
SearchEnter(s) ==
    /\ pc[s] = "enter"
    /\ IF stopping THEN Go(s, "done") /\ UNCHANGED work
                   ELSE Go(s, "lock") /\ work' = TRUE
    /\ UNCHANGED <<queue, updateM, searchWriter, searchReaders, asleep,
                   updateIsRunning, mustStartUpdate, stopping, closed, faults,
                   stopPc>>

\* Take searchM shared; sleep, giving it back, while an update is running.
SearchGate(s) ==
    /\ pc[s] = "lock" /\ searchWriter = Nobody
    /\ IF updateIsRunning
       THEN asleep' = asleep \cup {s} /\ Go(s, "asleep") /\ UNCHANGED searchReaders
       ELSE searchReaders' = searchReaders \cup {s} /\ Go(s, "search")
            /\ UNCHANGED asleep
    /\ UNCHANGED <<queue, updateM, searchWriter, updateIsRunning, mustStartUpdate,
                   work, stopping, closed, faults, stopPc>>

\* The answer is built, or the search throws; SearchWorkReset runs either way.
SearchEnd(s) ==
    /\ pc[s] = "search"
    /\ searchReaders' = searchReaders \ {s}
    /\ work' = FALSE
    /\ Go(s, "done")
    /\ UNCHANGED <<queue, updateM, searchWriter, asleep, updateIsRunning,
                   mustStartUpdate, stopping, closed, faults, stopPc>>

\* Mutant: nobody is notified.
Woken_Nobody(p) == p

\* notify_all on cv_search_server: sleepers go back for searchM.
Woken(p) == [t \in Tasks |-> IF t \in asleep THEN "lock" ELSE p[t]]

-----------------------------------------------------------------------------
(* Updates: updateStep, as a periodic task or behind a client's command.   *)

\* The scheduler's timer: dispatchRun, which does not ask whether the last run
\* has ended.
PostPeriodic(u) ==
    /\ u \in Periodic /\ pc[u] = "none" /\ ~closed
    /\ Go(u, "queued")
    /\ queue' = Append(queue, u)
    /\ UNCHANGED <<updateM, searchWriter, searchReaders, asleep, updateIsRunning,
                   mustStartUpdate, work, stopping, closed, faults, stopPc>>

\* flushUpdateAndSaveDictionary: at most one request is pending.
PostCommand(u) ==
    /\ u \in Commands /\ pc[u] = "none" /\ ~closed
    /\ IF stopping \/ updateIsRunning \/ mustStartUpdate
       THEN Go(u, "done") /\ UNCHANGED <<queue, mustStartUpdate>>
       ELSE /\ mustStartUpdate' = TRUE
            /\ Go(u, "queued")
            /\ queue' = Append(queue, u)
    /\ UNCHANGED <<updateM, searchWriter, searchReaders, asleep, updateIsRunning,
                   work, stopping, closed, faults, stopPc>>

\* A stopped scheduler skips the run; OperationGuard refuses a stopping server.
UpdateEnter(u) ==
    /\ pc[u] = "enter"
    /\ IF stopping \/ (closed /\ u \in Periodic)
       THEN Go(u, "done") /\ mustStartUpdate' = (mustStartUpdate /\ ~stopping)
       ELSE Go(u, "mutex") /\ UNCHANGED mustStartUpdate
    /\ UNCHANGED <<queue, updateM, searchWriter, searchReaders, asleep,
                   updateIsRunning, work, stopping, closed, faults, stopPc>>

\* Mutant: updateM is not held while the update runs.
UpdateMutex_NotHeld(u) ==
    /\ pc[u] = "mutex"
    /\ IF updateIsRunning
       THEN /\ Go(u, "done")
            /\ mustStartUpdate' = (mustStartUpdate /\ u \notin Commands)
       ELSE Go(u, "gate") /\ UNCHANGED mustStartUpdate
    /\ UNCHANGED <<queue, updateM, searchWriter, searchReaders, asleep,
                   updateIsRunning, work, stopping, closed, faults, stopPc>>

\* Lock updateM; leave again if an update is on record as running.
UpdateMutex(u) ==
    /\ pc[u] = "mutex" /\ updateM = Nobody
    /\ IF updateIsRunning
       THEN /\ Go(u, "done") /\ UNCHANGED updateM
            /\ mustStartUpdate' = (mustStartUpdate /\ u \notin Commands)
       ELSE updateM' = u /\ Go(u, "gate") /\ UNCHANGED mustStartUpdate
    /\ UNCHANGED <<queue, searchWriter, searchReaders, asleep, updateIsRunning,
                   work, stopping, closed, faults, stopPc>>

\* Mutant: the gate is only passed, not kept.
UpdateGate_NotKept(u) ==
    /\ pc[u] = "gate" /\ searchWriter = Nobody /\ searchReaders = {}
    /\ Go(u, IF work THEN "wait" ELSE "begin")
    /\ UNCHANGED <<queue, updateM, searchWriter, searchReaders, asleep,
                   updateIsRunning, mustStartUpdate, work, stopping, closed,
                   faults, stopPc>>

\* Lock searchM exclusively; wait_for gives it back while a search is noted.
UpdateGate(u) ==
    /\ pc[u] = "gate" /\ searchWriter = Nobody /\ searchReaders = {}
    /\ IF work THEN Go(u, "wait") /\ UNCHANGED searchWriter
               ELSE Go(u, "begin") /\ searchWriter' = u
    /\ UNCHANGED <<queue, updateM, searchReaders, asleep, updateIsRunning,
                   mustStartUpdate, work, stopping, closed, faults, stopPc>>

\* wait_for ends, with !work or after its ten seconds, holding searchM again.
UpdateResume(u) ==
    /\ pc[u] = "wait" /\ searchWriter = Nobody /\ searchReaders = {}
    /\ Go(u, "begin") /\ searchWriter' = u
    /\ UNCHANGED <<queue, updateM, searchReaders, asleep, updateIsRunning,
                   mustStartUpdate, work, stopping, closed, faults, stopPc>>

\* updateDocumentBase starts; after its waitForIdle it may have files to index.
UpdateBegin(u) ==
    /\ pc[u] = "begin" /\ IndexIdle
    /\ updateIsRunning' = TRUE
    /\ mustStartUpdate' = FALSE
    /\ \/ pc' = [pc EXCEPT ![u] = "settle"] /\ UNCHANGED queue
       \/ /\ pc' = [pc EXCEPT ![u] = "index", ![Job(u)] = "queued"]
          /\ queue' = Append(queue, Job(u))
    /\ UNCHANGED <<updateM, searchWriter, searchReaders, asleep, work, stopping,
                   closed, faults, stopPc>>

\* The file's future is ready, or its timeout has passed: compact is next.
UpdateIndexed(u) ==
    /\ pc[u] = "index"
    /\ Go(u, "settle")
    /\ UNCHANGED <<queue, updateM, searchWriter, searchReaders, asleep,
                   updateIsRunning, mustStartUpdate, work, stopping, closed,
                   faults, stopPc>>

\* Mutant: the search gate is kept.
Release_KeepsGate == updateM' = Nobody /\ UNCHANGED searchWriter

\* updateStep returns or throws: its locks are released.
Release == updateM' = Nobody /\ searchWriter' = Nobody

\* updateDocumentBase threw, at once or after it had posted work: the flags are
\* reset and the searches woken.
UpdateFails(u) ==
    /\ pc[u] \in {"begin", "index"} /\ faults < MaxFaults
    /\ faults' = faults + 1
    /\ Release
    /\ updateIsRunning' = FALSE /\ mustStartUpdate' = FALSE
    /\ pc' = [Woken(pc) EXCEPT ![u] = "done"] /\ asleep' = {}
    /\ UNCHANGED <<queue, searchReaders, work, stopping, closed, stopPc>>

\* compact and waitForIdle are over and saveIndex succeeds.
UpdateSaved(u) ==
    /\ pc[u] = "settle" /\ IndexIdle
    /\ Release
    /\ updateIsRunning' = FALSE /\ mustStartUpdate' = FALSE
    /\ pc' = [Woken(pc) EXCEPT ![u] = "done"] /\ asleep' = {}
    /\ UNCHANGED <<queue, searchReaders, work, stopping, closed, faults, stopPc>>

\* saveIndex throws: the exception passes the code that resets the flags; the
\* wrapper of a client's command resets mustStartUpdate.
UpdateSaveFails(u) ==
    /\ pc[u] = "settle" /\ IndexIdle /\ faults < MaxFaults
    /\ faults' = faults + 1
    /\ Release
    /\ mustStartUpdate' = (mustStartUpdate /\ u \notin Commands)
    /\ Go(u, "done")
    /\ UNCHANGED <<queue, searchReaders, asleep, updateIsRunning, work, stopping,
                   closed, stopPc>>

-----------------------------------------------------------------------------
(* SearchEngineApplication::shutdownRuntime.                               *)

\* Stop the sessions, the watcher and the scheduler.
StopProducers ==
    /\ stopPc = "run"
    /\ closed' = TRUE
    /\ stopPc' = "request"
    /\ UNCHANGED <<pc, queue, updateM, searchWriter, searchReaders, asleep,
                   updateIsRunning, mustStartUpdate, work, stopping, faults>>

\* SearchServer::requestStop, with its notify_all.
RequestStop ==
    /\ stopPc = "request"
    /\ stopping' = TRUE /\ mustStartUpdate' = FALSE
    /\ pc' = Woken(pc) /\ asleep' = {}
    /\ stopPc' = "wait"
    /\ UNCHANGED <<queue, updateM, searchWriter, searchReaders, updateIsRunning,
                   work, closed, faults>>

\* Wait for commands, periodic runs, operations and indexing; then it is over.
StopWait ==
    /\ stopPc = "wait"
    /\ \A t \in Calls : pc[t] \in {"none", "done"}
    /\ IndexIdle
    /\ stopPc' = "stopped"
    /\ UNCHANGED <<pc, queue, updateM, searchWriter, searchReaders, asleep,
                   updateIsRunning, mustStartUpdate, work, stopping, closed,
                   faults>>

-----------------------------------------------------------------------------
Init ==
    /\ pc = [t \in Tasks |-> "none"] /\ queue = <<>>
    /\ updateM = Nobody /\ searchWriter = Nobody
    /\ searchReaders = {} /\ asleep = {}
    /\ updateIsRunning = FALSE /\ mustStartUpdate = FALSE /\ work = FALSE
    /\ stopping = FALSE /\ closed = FALSE /\ faults = 0 /\ stopPc = "run"

SearchStep(s) == SearchEnter(s) \/ SearchGate(s) \/ SearchEnd(s)

UpdateStep(u) ==
    \/ UpdateEnter(u) \/ UpdateMutex(u) \/ UpdateGate(u) \/ UpdateResume(u)
    \/ UpdateBegin(u) \/ UpdateIndexed(u) \/ UpdateSaved(u)
    \/ UpdateFails(u) \/ UpdateSaveFails(u)

StopStep == RequestStop \/ StopWait

Next ==
    \/ Take \/ \E j \in Jobs : RunJob(j)
    \/ \E s \in Searches : PostSearch(s) \/ SearchStep(s)
    \/ \E u \in Updates : PostPeriodic(u) \/ PostCommand(u) \/ UpdateStep(u)
    \/ StopProducers \/ StopStep

Spec == Init /\ [][Next]_vars

\* A pool thread that can take a task does, and a task that can go on does.
\* Nobody need send a request, start an update or stop the server.
FairSpec ==
    /\ Spec
    /\ WF_vars(Take) /\ \A j \in Jobs : WF_vars(RunJob(j))
    /\ \A s \in Searches : WF_vars(SearchStep(s))
    /\ \A u \in Updates : WF_vars(UpdateStep(u))
    /\ WF_vars(StopStep)

-----------------------------------------------------------------------------
(* Properties.                                                             *)

\* The type of the state; a search is asleep exactly while it is on the
\* condition variable, and the pool never runs more tasks than it has threads.
TypeOK ==
    /\ asleep = {s \in Searches : pc[s] = "asleep"}
    /\ Cardinality(Running) <= PoolThreads
    /\ pc \in [Tasks -> Waiting \cup {"enter", "lock", "asleep", "search", "mutex",
                "gate", "wait", "begin", "index", "settle"}]
    /\ queue \in Seq(Tasks)
    /\ updateM \in Updates \cup {Nobody} /\ searchWriter \in Updates \cup {Nobody}
    /\ searchReaders \subseteq Searches
    /\ updateIsRunning \in BOOLEAN /\ mustStartUpdate \in BOOLEAN
    /\ work \in BOOLEAN /\ stopping \in BOOLEAN /\ closed \in BOOLEAN
    /\ faults \in 0 .. MaxFaults
    /\ stopPc \in {"run", "request", "wait", "stopped"}

\* The exclusive search gate is kept through publication and persistence: no
\* search reads the index from the moment an update starts to change it until
\* the update has been saved.
NoSearchDuringUpdate ==
    \A u \in Updates : pc[u] \in {"index", "settle"} =>
        \A s \in Searches : pc[s] # "search"

\* Two updates never overlap, from the directory scan to the end.
OneUpdate ==
    \A u, v \in Updates :
        /\ pc[u] \in {"gate", "wait", "begin", "index", "settle"}
        /\ pc[v] \in {"gate", "wait", "begin", "index", "settle"}
        => u = v

\* saveIndex threw: the flag stays set although no update holds updateM.
Abandoned == updateIsRunning /\ updateM = Nobody

\* Every request a session has handed to the pool is answered, whatever updates
\* and shutdown do meanwhile, unless a save has failed.
SearchesAnswered ==
    \A s \in Searches : (pc[s] = "queued") ~> (pc[s] = "done" \/ Abandoned)

\* Every update handed to the pool comes to an end, also after a failed save.
UpdatesEnd == \A u \in Updates : (pc[u] = "queued") ~> (pc[u] = "done")

\* shutdownRuntime comes to its end, unless a save has failed.
ShutdownEnds == closed ~> (stopPc = "stopped" \/ Abandoned)

\* Whoever waits in or for the pool comes to an end.
TasksEnd == SearchesAnswered /\ UpdatesEnd /\ ShutdownEnds
=============================================================================
