----------------------------- MODULE FileEvents -----------------------------
(***************************************************************************)
(* From a change on the disk to a command for the index:                   *)
(* src/src/FileWatcher/MultiWatcher.cpp (the thread that watches the       *)
(* parent directory), FileWatcher.cpp (the overlapped reads of a root      *)
(* directory, completed on the scheduler's thread),                        *)
(* FileEventDispatcher.cpp (the map and queue of pending events),          *)
(* src/src/scheduler/AbstractScheduledTask.cpp (the timer that flushes     *)
(* them on the CPU pool), and the shutdown of all of these by              *)
(* SearchEngineApplication::shutdownRuntime.                               *)
(*                                                                         *)
(* There is one index root, a directory that may be renamed away and back. *)
(* Windows is external: a directory handle records changes from its first  *)
(* read on, and a full record is thrown away (a read of no bytes).  The    *)
(* index is what its commands ask for: a removal is done, and an addition  *)
(* takes the file as it is then, or does nothing when it is missing.       *)
(***************************************************************************)
EXTENDS Integers, Sequences, FiniteSets, SequencesExt

CONSTANTS
    Files,          \* paths below the root with an indexed extension
    Excluded,       \* those of them in an excluded subtree
    MaxRuns,        \* bound: flushes that may be posted or running at once
    MaxNotes,       \* the changes a directory handle can record
    MaxChanges,     \* bound: changes on the disk
    MaxFaults,      \* bound: commands that throw, reads of no bytes
    MaxEvents      \* bound: changes and faults together

ASSUME EventsAssumption ==
    /\ IsFiniteSet(Files) /\ Excluded \subseteq Files
    /\ {MaxRuns, MaxNotes, MaxChanges, MaxFaults, MaxEvents} \subseteq Nat

VARIABLES
    disk,           \* version of each file, 0 when it is missing
    root,           \* the root directory exists
    index,          \* version each file was last indexed with, 0 when removed
    changes, faults,
    armed,          \* the root's handle records changes and is being read
    notes, overflow,        \* what it has recorded
    parentNotes, parentBuf, \* the same of the parent's handle; what watchParent has
    stale,                  \* left to parse, and the first event buf held before
    inner,          \* the FileWatcher is in inner_
    running, hDir, reads,   \* its running_, hDir_ (closed, or of the directory that is
                            \* here, or of one renamed away) and pendingReads_
    io,             \* the overlapped read: none, pending or failed
    handler, buf,   \* its completion handler, and the events it parses
    fwStop,         \* FileWatcher::stop, in whichever thread calls it
    hParent, watching,      \* MultiDirWatcher's hParent_ and running_
    watch, todo,    \* watchParent: its place, and the files left to its walk
    evt, pendingQ,  \* evtMap_ ("none": no entry) and pendingQ_
    stopping, stopped,      \* of the dispatcher, and of the flush task
    flush, local, cmd,      \* the runs of flushPending
    main,           \* shutdownRuntime
    missed, hasty, dead     \* history: files with a change nobody was told of,
                            \* files whose removal was carried out when they
                            \* existed again, entries a throwing flush dropped

worldVars  == <<disk, root, changes>>
recordVars == <<armed, notes, overflow>>
fwVars     == <<inner, running, hDir, reads, io, fwStop>>
handVars   == <<handler, buf>>
rootVars   == <<recordVars, fwVars, handVars>>
parentVars == <<parentNotes, parentBuf, stale, hParent>>
threadVars == <<parentVars, watching, watch, todo>>
mapVars    == <<evt, pendingQ>>
flushVars  == <<flush, local, cmd>>
dispatchVars == <<mapVars, stopping, stopped, flushVars>>
histVars   == <<missed, hasty, dead>>
resultVars == <<index, histVars>>
vars == <<worldVars, rootVars, threadVars, dispatchVars, resultVars, main, faults>>

Runs   == 1 .. MaxRuns
Events == {"Added", "Removed", "Modified", "RenamedOld", "RenamedNew"}
Gone   == {"Removed", "RenamedOld"}
NoCmd  == <<"none", "none">>
FilesIn(s) == {s[i][2] : i \in DOMAIN s}

\* The history is kept until the application is stopped.
Miss(fs) == missed' = IF stopping THEN {} ELSE missed \cup fs

-----------------------------------------------------------------------------
(* The dispatcher's map and queue.                                         *)

\* Mutant: the event that came first wins.
merge2_FirstWins(old, neu) == old

\* Two events of one path: a removal wins, and stays.
merge2(old, neu) ==
    LET n == IF neu = "RenamedNew" THEN "Added" ELSE neu IN
    IF neu \in Gone THEN neu
    ELSE IF old = "Removed" \/ (old = "Added" /\ n = "Modified") THEN old ELSE n

\* shouldAcceptFileEvent: removals are accepted everywhere.
Accepted(e, f) == e \in Gone \/ f \notin Excluded

\* pushFileEvent: an event of a queued path joins the one that is waiting.
pushFileEvent(e, f) ==
    IF stopping \/ ~Accepted(e, f) THEN UNCHANGED mapVars
    ELSE /\ evt' = [evt EXCEPT ![f] = IF @ = "none" THEN e ELSE merge2(@, e)]
         /\ pendingQ' = IF evt[f] = "none" THEN Append(pendingQ, f) ELSE pendingQ

-----------------------------------------------------------------------------
(* flushPending, posted to the CPU pool by the flush task's timer.         *)

LoopEnd(q) == IF q = <<>> THEN "none" ELSE "next"

RunGoto(r, label) == flush' = [flush EXCEPT ![r] = label]

\* Mutant: the timer is not set again when a run has thrown.
Tick_NotAfterThrow(r) ==
    /\ ~stopped /\ pendingQ # <<>> /\ flush[r] = "none"
    /\ \A q \in 1 .. r - 1 : flush[q] # "none"
    /\ faults = 0
    /\ RunGoto(r, "posted")
    /\ UNCHANGED <<worldVars, rootVars, threadVars, mapVars, stopping,
                   stopped, local, cmd, resultVars, main, faults>>

\* The timer: dispatchRun counts the run and posts it, whether or not another
\* one is still going on.  A run that would find nothing to do is left out, and
\* r is the first number that is free.
Tick(r) ==
    /\ ~stopped /\ pendingQ # <<>> /\ flush[r] = "none"
    /\ \A q \in 1 .. r - 1 : flush[q] # "none"
    /\ RunGoto(r, "posted")
    /\ UNCHANGED <<worldVars, rootVars, threadVars, mapVars, stopping,
                   stopped, local, cmd, resultVars, main, faults>>

\* The run begins: take the queue whole.
FlushStart(r) ==
    /\ flush[r] = "posted"
    /\ IF stopped \/ stopping THEN RunGoto(r, "none") /\ UNCHANGED <<local, pendingQ>>
       ELSE /\ RunGoto(r, LoopEnd(pendingQ))
            /\ local' = [local EXCEPT ![r] = pendingQ] /\ pendingQ' = <<>>
    /\ UNCHANGED <<worldVars, rootVars, threadVars, evt, stopping, stopped,
                   cmd, resultVars, main, faults>>

\* Mutant: the entry stays in the map, to be found when the path is next queued.
FlushNext_EntryStays(r) ==
    LET f == Head(local[r]) IN
    /\ flush[r] = "next"
    /\ IF stopping THEN RunGoto(r, "none") /\ local' = [local EXCEPT ![r] = <<>>]
                         /\ UNCHANGED cmd
       ELSE /\ local' = [local EXCEPT ![r] = Tail(@)]
            /\ RunGoto(r, "exec") /\ cmd' = [cmd EXCEPT ![r] = <<evt[f], f>>]
    /\ UNCHANGED <<worldVars, rootVars, threadVars, mapVars, stopping,
                   stopped, resultVars, main, faults>>

\* The loop: the next path's entry leaves the map, and the lock is released.
FlushNext(r) ==
    LET f == Head(local[r]) IN
    /\ flush[r] = "next"
    /\ IF stopping THEN RunGoto(r, "none") /\ local' = [local EXCEPT ![r] = <<>>]
                         /\ UNCHANGED <<evt, cmd>>
       ELSE /\ local' = [local EXCEPT ![r] = Tail(@)]
            /\ IF evt[f] = "none"
               THEN RunGoto(r, LoopEnd(Tail(local[r]))) /\ UNCHANGED <<cmd, evt>>
               ELSE /\ RunGoto(r, "exec")
                    /\ cmd' = [cmd EXCEPT ![r] = <<evt[f], f>>]
                    /\ evt' = [evt EXCEPT ![f] = "none"]
    /\ UNCHANGED <<worldVars, rootVars, threadVars, pendingQ, stopping,
                   stopped, resultVars, main, faults>>

\* The command; the search server ignores it once it has been told to stop.
FlushExec(r) ==
    LET e == cmd[r][1]  f == cmd[r][2] IN
    /\ flush[r] = "exec"
    /\ index' = IF main \in {"wait", "destroyed"} \/ (e \notin Gone /\ disk[f] = 0)
                THEN index
                ELSE [index EXCEPT ![f] = IF e \in Gone THEN 0 ELSE disk[f]]
    /\ missed' = IF (disk[f] = 0) = (e \in Gone) THEN missed \ {f} ELSE missed
    /\ hasty' = IF disk[f] = 0 \/ stopping THEN hasty
                ELSE IF e \in Gone THEN hasty \cup {f} ELSE hasty \ {f}
    /\ RunGoto(r, LoopEnd(local[r])) /\ cmd' = [cmd EXCEPT ![r] = NoCmd]
    /\ UNCHANGED <<worldVars, rootVars, threadVars, mapVars, stopping,
                   stopped, local, dead, main, faults>>

\* The command throws (the file vanished under it, the storage has failed):
\* runTask's exception is swallowed, and the rest of the local queue with it.
FlushThrows(r) ==
    /\ flush[r] = "exec" /\ faults < MaxFaults /\ changes + faults < MaxEvents
    /\ faults' = faults + 1
    /\ RunGoto(r, "none") /\ cmd' = [cmd EXCEPT ![r] = NoCmd]
    /\ Miss({cmd[r][2]})
    /\ dead' = IF stopping THEN {} ELSE dead \cup {local[r][i] : i \in DOMAIN local[r]}
    /\ local' = [local EXCEPT ![r] = <<>>]
    /\ UNCHANGED <<worldVars, rootVars, threadVars, mapVars, stopping,
                   stopped, index, hasty, main>>

Flush(r) == FlushStart(r) \/ FlushNext(r) \/ FlushExec(r) \/ FlushThrows(r)

-----------------------------------------------------------------------------
(* The FileWatcher of the root.                                            *)

\* A read completes on the scheduler's thread: with events, with an error, or
\* with no bytes at all, after which (as after an error) nobody reads again.
ReadCompletes ==
    /\ handler = "idle"
    /\ io = "failed" \/ (io = "pending" /\ (notes # <<>> \/ overflow))
    /\ io' = "none" /\ notes' = <<>> /\ overflow' = FALSE
    /\ IF running /\ io = "pending" /\ ~overflow
       THEN handler' = "parse" /\ buf' = notes /\ UNCHANGED <<armed, missed>>
       ELSE /\ handler' = "finish" /\ buf' = <<>> /\ armed' = FALSE
            /\ Miss(FilesIn(notes))
    /\ UNCHANGED <<worldVars, inner, running, hDir, reads, fwStop, threadVars,
                   dispatchVars, index, hasty, dead, main, faults>>

\* parseEvents, one callback at a time.
ParseEvent ==
    /\ handler = "parse" /\ buf # <<>>
    /\ pushFileEvent(Head(buf)[1], Head(buf)[2])
    /\ buf' = Tail(buf)
    /\ UNCHANGED <<worldVars, recordVars, fwVars, handler, threadVars,
                   stopping, stopped, flushVars, resultVars, main, faults>>

\* startRead from the handler, up to the count ...
StartRead ==
    /\ handler = "parse" /\ buf = <<>>
    /\ IF running /\ hDir # "closed"
       THEN handler' = "issue" /\ reads' = reads + 1
       ELSE handler' = "finish" /\ UNCHANGED reads
    /\ UNCHANGED <<worldVars, recordVars, inner, running, hDir, io, fwStop,
                   buf, threadVars, dispatchVars, resultVars, main, faults>>

\* ... and the call, on a handle that stop may have closed since.
IssueRead ==
    /\ handler = "issue"
    /\ io' = (IF hDir # "closed" THEN "pending" ELSE "failed")
    /\ handler' = "finish"
    /\ UNCHANGED <<worldVars, recordVars, inner, running, hDir, reads, fwStop,
                   buf, threadVars, dispatchVars, resultVars, main, faults>>

FinishPendingRead ==
    /\ handler = "finish"
    /\ reads' = IF reads > 0 THEN reads - 1 ELSE reads
    /\ handler' = "idle"
    /\ UNCHANGED <<worldVars, recordVars, inner, running, hDir, io, fwStop,
                   buf, threadVars, dispatchVars, resultVars, main, faults>>

Handler == ReadCompletes \/ ParseEvent \/ StartRead \/ IssueRead \/ FinishPendingRead

\* Mutant: stop forgets to cancel the read.
StopClose_NoCancel ==
    /\ fwStop = "close"
    /\ running' = FALSE /\ hDir' = "closed"
    /\ armed' = FALSE /\ notes' = <<>> /\ overflow' = FALSE
    /\ Miss(FilesIn(notes))
    /\ fwStop' = "drain"
    /\ UNCHANGED <<worldVars, inner, reads, io, handVars, threadVars,
                   dispatchVars, index, hasty, dead, main, faults>>

\* FileWatcher::stop: running_ is cleared and the handle closed, which cancels
\* its read (the handler looks at running_ first, so these are one step); then
\* the pending reads are waited for, and the object goes.
StopClose ==
    /\ fwStop = "close"
    /\ running' = FALSE /\ hDir' = "closed"
    /\ io' = IF io = "pending" THEN "failed" ELSE io
    /\ armed' = FALSE /\ notes' = <<>> /\ overflow' = FALSE
    /\ Miss(FilesIn(notes))
    /\ fwStop' = "drain"
    /\ UNCHANGED <<worldVars, inner, reads, handVars, threadVars,
                   dispatchVars, index, hasty, dead, main, faults>>

StopDrained ==
    /\ fwStop = "drain" /\ reads = 0
    /\ fwStop' = "gone"
    /\ UNCHANGED <<worldVars, recordVars, inner, running, hDir, reads, io,
                   handVars, threadVars, dispatchVars, resultVars, main,
                   faults>>

StopWatcher == StopClose \/ StopDrained

-----------------------------------------------------------------------------
(* MultiDirWatcher's thread.                                               *)

\* The top of the loop looks at running_ ...
WatchTop ==
    /\ watch = "top"
    /\ watch' = IF watching THEN "open" ELSE "ended"
    /\ UNCHANGED <<worldVars, rootVars, parentVars, watching, todo,
                   dispatchVars, resultVars, main, faults>>

\* ... and then opens the parent directory where it is not open; stop may have
\* looked at hParent_, and closed it, in between.
WatchOpen ==
    /\ watch = "open"
    /\ hParent' = (IF hParent = "closed" THEN "open" ELSE hParent)
    /\ watch' = "read"
    /\ UNCHANGED <<worldVars, rootVars, parentNotes, parentBuf, stale,
                   watching, todo, dispatchVars, resultVars, main, faults>>

\* The synchronous read is called; with a handle closed meanwhile it fails.
WatchRead ==
    /\ watch = "read"
    /\ IF hParent = "closed" THEN watch' = "top" /\ UNCHANGED hParent
                             ELSE watch' = "blocked" /\ hParent' = "armed"
    /\ UNCHANGED <<worldVars, rootVars, parentNotes, parentBuf, stale,
                   watching, todo, dispatchVars, resultVars, main, faults>>

\* It returns with the root's events.
WatchWakes ==
    /\ watch = "blocked" /\ parentNotes # <<>>
    /\ parentBuf' = parentNotes /\ parentNotes' = <<>>
    /\ stale' = <<Head(parentNotes)>>
    /\ watch' = "events"
    /\ UNCHANGED <<worldVars, rootVars, hParent, watching, todo, dispatchVars,
                   resultVars, main, faults>>

\* It returns with no bytes, after too many directory events at once: the loop
\* parses the first event in buf from a read before, of the root or not.
WatchOverflows ==
    /\ watch = "blocked" /\ faults < MaxFaults /\ changes + faults < MaxEvents
    /\ faults' = faults + 1
    /\ parentNotes' = <<>> /\ parentBuf' \in {stale, <<>>}
    /\ watch' = "events"
    /\ UNCHANGED <<worldVars, rootVars, stale, hParent, watching, todo,
                   dispatchVars, resultVars, main>>

\* One event of the root: a watcher is made for a root that appeared, or the
\* one there is is stopped.
WatchEvent ==
    /\ watch = "events"
    /\ parentBuf' = IF parentBuf = <<>> THEN <<>> ELSE Tail(parentBuf)
    /\ \/ /\ parentBuf = <<>>
          /\ watch' = "top" /\ UNCHANGED <<fwVars, todo>>
       \/ /\ parentBuf # <<>> /\ Head(parentBuf) = "removed" /\ inner
          /\ fwStop' = "close" /\ watch' = "stop"
          /\ UNCHANGED <<inner, running, hDir, reads, io, todo>>
       \/ /\ parentBuf # <<>> /\ Head(parentBuf) = "added" /\ ~inner
          /\ inner' = TRUE /\ running' = TRUE
          /\ IF root THEN hDir' = "here" /\ watch' = "walk" /\ todo' = Files
                     ELSE UNCHANGED <<hDir, watch, todo>>
          /\ UNCHANGED <<reads, io, fwStop>>
       \/ /\ parentBuf # <<>> /\ Head(parentBuf) = IF inner THEN "added" ELSE "removed"
          /\ UNCHANGED <<fwVars, watch, todo>>
    /\ UNCHANGED <<worldVars, recordVars, handVars, parentNotes, stale,
                   hParent, watching, dispatchVars, resultVars, main, faults>>

\* fireAddEventsRecursive, one file at a time.
WatchWalk(f) ==
    /\ watch = "walk" /\ f \in todo
    /\ IF disk[f] # 0 THEN pushFileEvent("Added", f) ELSE UNCHANGED mapVars
    /\ todo' = todo \ {f}
    /\ watch' = IF todo' = {} THEN "first" ELSE "walk"
    /\ UNCHANGED <<worldVars, rootVars, parentVars, watching, stopping,
                   stopped, flushVars, resultVars, main, faults>>

\* The first read: the handle records from here on.
WatchFirstRead ==
    /\ watch = "first"
    /\ reads' = reads + 1 /\ io' = "pending" /\ armed' = (hDir = "here")
    /\ watch' = "events"
    /\ UNCHANGED <<worldVars, notes, overflow, inner, running, hDir, fwStop,
                   handVars, parentVars, watching, todo, dispatchVars,
                   resultVars, main, faults>>

Destroyed ==
    /\ fwStop = "gone" /\ fwStop' = "none" /\ inner' = FALSE

WatchStopped ==
    /\ watch = "stop" /\ Destroyed
    /\ watch' = "events"
    /\ UNCHANGED <<worldVars, recordVars, running, hDir, reads, io, handVars,
                   parentVars, watching, todo, dispatchVars, resultVars, main,
                   faults>>

Watch ==
    \/ WatchTop \/ WatchOpen \/ WatchRead \/ WatchWakes \/ WatchOverflows
    \/ WatchEvent \/ WatchFirstRead \/ WatchStopped
    \/ \E f \in Files : WatchWalk(f)

-----------------------------------------------------------------------------
(* shutdownRuntime: stopAll of the dispatcher, stopAll and waitAll of the  *)
(* scheduler, and the end of both.                                         *)

\* stopAll, and MultiDirWatcher::stop up to its look at hParent_.
MainStops ==
    /\ main = "run"
    /\ stopping' = TRUE /\ watching' = FALSE
    /\ main' = "look"
    /\ missed' = {} /\ hasty' = {} /\ dead' = {}
    /\ UNCHANGED <<worldVars, rootVars, parentVars, watch, todo, mapVars,
                   stopped, flushVars, index, faults>>

\* MultiDirWatcher::stop closes the handle it sees, which ends a read on it.
MainLook ==
    /\ main = "look"
    /\ hParent' = "closed" /\ parentNotes' = <<>>
    /\ watch' = IF watch = "blocked" THEN "top" ELSE watch
    /\ main' = "join"
    /\ UNCHANGED <<worldVars, rootVars, parentBuf, stale, watching, todo,
                   dispatchVars, resultVars, faults>>

MainJoin ==
    /\ main = "join" /\ watch = "ended"
    /\ main' = IF inner THEN "inner" ELSE "clear"
    /\ fwStop' = IF inner THEN "close" ELSE fwStop
    /\ UNCHANGED <<worldVars, recordVars, inner, running, hDir, reads, io,
                   handVars, threadVars, dispatchVars, resultVars, faults>>

MainInnerStopped ==
    /\ main = "inner" /\ Destroyed
    /\ main' = "clear"
    /\ UNCHANGED <<worldVars, recordVars, running, hDir, reads, io, handVars,
                   threadVars, dispatchVars, resultVars, faults>>

\* stopAll drops what is pending; then stopAll of the scheduler.
MainClear ==
    /\ main = "clear"
    /\ evt' = [f \in Files |-> "none"] /\ pendingQ' = <<>>
    /\ stopped' = TRUE
    /\ main' = "wait"
    /\ UNCHANGED <<worldVars, rootVars, threadVars, stopping, flushVars,
                   resultVars, faults>>

\* Mutant: the scheduler's tasks are stopped but not waited for.
MainWait_NotAtAll ==
    /\ main = "wait"
    /\ main' = "destroyed"
    /\ UNCHANGED <<worldVars, rootVars, threadVars, dispatchVars, resultVars,
                   faults>>

MainWait ==
    /\ main = "wait" /\ \A r \in Runs : flush[r] = "none"
    /\ main' = "destroyed"
    /\ UNCHANGED <<worldVars, rootVars, threadVars, dispatchVars, resultVars,
                   faults>>

Main == MainStops \/ MainLook \/ MainJoin \/ MainInnerStopped \/ MainClear \/ MainWait

-----------------------------------------------------------------------------
(* The disk.                                                               *)

\* The root's handle takes note of s.
Record(s) ==
    IF ~armed THEN Miss(FilesIn(s)) /\ UNCHANGED recordVars
    ELSE /\ UNCHANGED armed
         /\ IF overflow \/ Len(notes \o s) > MaxNotes
            THEN /\ overflow' = TRUE /\ notes' = <<>>
                 /\ Miss(FilesIn(notes \o s))
            ELSE notes' = notes \o s /\ UNCHANGED <<overflow, missed>>

Change ==
    /\ changes < MaxChanges /\ changes + faults < MaxEvents
    /\ changes' = changes + 1 /\ main = "run"

\* A file is created, written, deleted ...
FileChanges(f) ==
    /\ Change /\ root
    /\ \/ disk' = [disk EXCEPT ![f] = changes + 2]
          /\ Record(<<<<IF disk[f] = 0 THEN "Added" ELSE "Modified", f>>>>)
       \/ /\ disk[f] # 0 /\ disk' = [disk EXCEPT ![f] = 0]
          /\ Record(<<<<"Removed", f>>>>)
    /\ UNCHANGED <<root, fwVars, handVars, threadVars, dispatchVars, index,
                   hasty, dead, main, faults>>

\* ... or renamed.
FileRenamed(f, g) ==
    /\ Change /\ disk[f] # 0 /\ disk[g] = 0
    /\ disk' = [disk EXCEPT ![f] = 0, ![g] = changes + 2]
    /\ Record(<<<<"RenamedOld", f>>, <<"RenamedNew", g>>>>)
    /\ UNCHANGED <<root, fwVars, handVars, threadVars, dispatchVars, index,
                   hasty, dead, main, faults>>

RecordParent(e) ==
    parentNotes' = IF hParent = "armed" THEN Append(parentNotes, e) ELSE parentNotes

\* The root is renamed away, with its files, or comes back with others.
RootMoves ==
    /\ Change
    /\ root' = ~root
    /\ \/ /\ root /\ disk' = [f \in Files |-> 0]
          /\ hDir' = IF hDir = "here" THEN "away" ELSE hDir
          /\ armed' = FALSE /\ RecordParent("removed")
       \/ /\ ~root /\ disk' \in [Files -> {0, changes + 2}]
          /\ RecordParent("added") /\ UNCHANGED <<hDir, armed>>
    /\ Miss({f \in Files : disk[f] # disk'[f]})
    /\ UNCHANGED <<notes, overflow, inner, running, reads, io, fwStop,
                   handVars, parentBuf, stale, hParent, watching, watch, todo,
                   dispatchVars, index, hasty, dead, main, faults>>

-----------------------------------------------------------------------------
\* The watchers have been started, on a root that was there or not; an excluded
\* file may have been indexed under earlier settings.
Init ==
    /\ root \in BOOLEAN
    /\ disk \in [Files -> IF root THEN {0, 1} ELSE {0}]
    /\ index \in [Files -> {0, 1}]
    /\ \A f \in Files : index[f] = disk[f] \/ (f \in Excluded /\ disk[f] = 1)
    /\ changes = 0 /\ faults = 0
    /\ armed = root /\ notes = <<>> /\ overflow = FALSE
    /\ parentNotes = <<>> /\ parentBuf = <<>> /\ stale = <<>> /\ hParent = "closed"
    /\ inner = root /\ running = root /\ hDir = IF root THEN "here" ELSE "closed"
    /\ reads = IF root THEN 1 ELSE 0
    /\ io = IF root THEN "pending" ELSE "none"
    /\ fwStop = "none" /\ handler = "idle" /\ buf = <<>>
    /\ watching = TRUE /\ watch = "top" /\ todo = {}
    /\ evt = [f \in Files |-> "none"] /\ pendingQ = <<>>
    /\ stopping = FALSE /\ stopped = FALSE
    /\ flush = [r \in Runs |-> "none"] /\ local = [r \in Runs |-> <<>>]
    /\ cmd = [r \in Runs |-> NoCmd]
    /\ main = "run"
    /\ missed = {} /\ hasty = {} /\ dead = {}

Next ==
    \/ Handler \/ StopWatcher \/ Watch \/ Main
    \/ \E r \in Runs : Tick(r) \/ Flush(r)
    \/ \E f \in Files : FileChanges(f)
    \/ \E f, g \in Files : FileRenamed(f, g)
    \/ RootMoves

Spec == Init /\ [][Next]_vars

\* Every thread that can go on does, and the timer fires; nothing on the disk
\* need change, and the application need not be stopped.
FairSpec ==
    /\ Spec
    /\ WF_vars(Handler) /\ WF_vars(StopWatcher) /\ WF_vars(Watch)
    /\ WF_vars(main # "run" /\ Main)
    /\ \A r \in Runs : WF_vars(Tick(r) \/ Flush(r))

-----------------------------------------------------------------------------
(* Properties.                                                             *)

\* The type of the state; the pending reads are those of the handler and of the
\* system, and the record of a handle nobody reads is empty.
TypeOK ==
    /\ disk \in [Files -> 0 .. MaxChanges + 1] /\ index \in [Files -> 0 .. MaxChanges + 1]
    /\ changes \in 0 .. MaxChanges /\ faults \in 0 .. MaxFaults
    /\ {root, armed, overflow, inner, running, watching, stopping, stopped} \subseteq BOOLEAN
    /\ Len(notes) <= MaxNotes /\ notes \in Seq(Events \X Files)
    /\ buf \in Seq(Events \X Files)
    /\ {parentNotes, parentBuf, stale} \subseteq Seq({"added", "removed"})
    /\ hDir \in {"closed", "here", "away"} /\ hParent \in {"closed", "open", "armed"}
    /\ reads = (IF handler = "idle" THEN 0 ELSE 1)
             + (IF io # "none" \/ handler = "issue" THEN 1 ELSE 0)
    /\ io \in {"none", "pending", "failed"}
    /\ handler \in {"idle", "parse", "issue", "finish"}
    /\ fwStop \in {"none", "close", "drain", "gone"}
    /\ watch \in {"top", "open", "read", "blocked", "events", "walk", "first",
                  "stop", "ended"}
    /\ todo \subseteq Files
    /\ evt \in [Files -> Events \cup {"none"}] /\ pendingQ \in Seq(Files)
    /\ flush \in [Runs -> {"none", "posted", "next", "exec"}]
    /\ local \in [Runs -> Seq(Files)]
    /\ cmd \in [Runs -> (Events \X Files) \cup {NoCmd}]
    /\ main \in {"run", "look", "join", "inner", "clear", "wait", "destroyed"}
    /\ missed \cup hasty \cup dead \subseteq Files

\* How often a path waits in the queue or in the local queue of a flush.
Places(q, f) == {i \in DOMAIN q : q[i] = f}
LocalPlaces(f) == {p \in Runs \X (1 .. Cardinality(Files)) : p[2] \in Places(local[p[1]], f)}
Waiting(f) == Cardinality(Places(pendingQ, f)) + Cardinality(LocalPlaces(f))

\* A path with an entry in the map waits exactly once, in the queue or with one
\* of the flushes under way, and a path without one waits nowhere: otherwise its
\* later events would join an entry nobody will ever look at.  Only a command
\* that throws breaks this, for the paths behind it in its flush.
NothingStranded ==
    ~stopping => \A f \in Files \ dead : Waiting(f) = IF evt[f] = "none" THEN 0 ELSE 1

\* Nothing is on its way from the disk to the index.
Quiet ==
    /\ main = "run" /\ watch = "blocked" /\ parentNotes = <<>>
    /\ handler = "idle" /\ notes = <<>> /\ ~overflow
    /\ pendingQ = <<>> /\ \A r \in Runs : flush[r] \in {"none", "posted"}

\* When the disk has been quiet the index holds every file in its present
\* version and no file that is gone, however notifications, merging, several
\* flushes and a returning root interleaved; except for a file with a change
\* that no read reported, and a file that came back before its removal was
\* carried out.
IndexFollowsDisk ==
    Quiet => \A f \in Files \ (missed \cup dead) :
                IF f \in Excluded THEN disk[f] = 0 => index[f] = 0
                ELSE index[f] # disk[f] => f \in hasty /\ index[f] = 0

\* A FileWatcher is destroyed only when no read and no handler can still call
\* it, and the dispatcher and the task only when no flush runs and no watcher
\* is left.
DestroyedIsQuiet ==
    /\ ~inner => handler = "idle" /\ io = "none"
    /\ main = "destroyed" => /\ ~inner /\ watch = "ended"
                             /\ \A r \in Runs : flush[r] = "none"

\* The map is emptied again and again: every event is handed to a command,
\* unless the application is stopped or a throwing flush dropped it.
EventsDispatched == []<>(stopping \/ \A f \in Files \ dead : evt[f] = "none")

\* A shutdown, once begun, runs to its end, unless MultiDirWatcher::stop looked
\* for the handle of the parent just before its thread opened it: then the
\* thread sits in a read that nobody cancels, and stop in join.
ShutdownEnds ==
    []<>(main \in {"run", "destroyed"} \/ (main = "join" /\ watch = "blocked"))

\* The state is well typed, pendingReads_ exact, and so nothing is destroyed that
\* a read, a handler or a flush still uses.
WatcherInv == TypeOK /\ DestroyedIsQuiet
=============================================================================
