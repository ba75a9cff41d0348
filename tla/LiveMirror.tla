----------------------------- MODULE LiveMirror -----------------------------
(***************************************************************************)
(* The SQLite live mirror of the index:                                    *)
(* src/src/Index/SQLiteIndexSerializer.cpp, its operation queue, the       *)
(* writer thread, flushPending, checkpoint and the destructor, driven as   *)
(* InvertedIndex drives them.                                              *)
(*                                                                         *)
(* The strand hands over documents, the updater flushes at the end of a    *)
(* full update and checkpoints in saveIndex, and the closer is the thread  *)
(* that destroys the serializer.  SQLite is external: a transaction is     *)
(* atomic, and its tables outlive the process.  Word numbers are the words *)
(* themselves.                                                             *)
(***************************************************************************)
EXTENDS Integers, Sequences, FiniteSets, SequencesExt

CONSTANTS
    Files,          \* document ids
    Words,
    Contents,       \* the sets of words a file may be found to hold
    NoFile,
    MaxPendingOps,  \* LiveMirrorConfig::maxPendingOps
    MaxOps,         \* bound: operations handed over
    MaxJobs,        \* bound: full updates and saves
    MaxLate,        \* bound: files indexed after their update has timed out
    MaxFaults,      \* bound: failing transactions and checkpoints
    MaxCrashes      \* bound: deaths of the process

ASSUME MirrorAssumption ==
    /\ IsFiniteSet(Files) /\ IsFiniteSet(Words) /\ NoFile \notin Files
    /\ Contents \subseteq SUBSET Words
    /\ MaxPendingOps \in Nat \ {0}
    /\ MaxOps \in Nat /\ MaxJobs \in Nat /\ MaxLate \in Nat
    /\ MaxFaults \in Nat /\ MaxCrashes \in Nat

VARIABLES
    queue,              \* queue_
    flushNow, requestCheckpoint, writerActive, stop, writerError,
    wpc, batch, doCheckpoint,   \* writerLoop and its locals
    docs, postings, words,      \* the tables; docs[f] is none, live or deleted
    rewritten,          \* a transaction has held two writes of one file
    wordIds, ram,               \* the words numbered and the postings in RAM
    pc, job, mark,              \* the callers
    touched,            \* files the running full update has handed over
    accepted, applied, synced,  \* counts of operations: queued; committed (or
                                \* lost with the process); those of them that
                                \* the last checkpoint covered
    jobs, late, faults, crashes

queueVars  == <<queue, flushNow, requestCheckpoint, writerActive, stop,
                writerError>>
writerVars == <<wpc, batch, doCheckpoint>>
tableVars  == <<docs, postings, words, rewritten>>
ramVars    == <<wordIds, ram>>
callVars   == <<pc, job, mark, touched>>
countVars  == <<accepted, applied, synced, jobs, late, faults, crashes>>
vars == <<queueVars, writerVars, tableVars, ramVars, callVars, countVars>>

Callers == {"strand", "updater", "closer"}
Asleep  == {"flushWait", "checkpointWait"}
NoJob   == [k |-> "none", f |-> NoFile, body |-> {}]

-----------------------------------------------------------------------------
(* One transaction: writeBatch.                                            *)

WriteOp(f, body, new) == [k |-> "write", f |-> f, body |-> body, new |-> new,
                          thenDelete |-> FALSE]
DeleteOp(f) == [k |-> "delete", f |-> f, body |-> {}, new |-> {},
                thenDelete |-> FALSE]

\* Mutant: the latest operation on a file replaces the earlier ones.
Coalesced_LastWins(ops, f) ==
    FoldLeft(LAMBDA o, op : IF op.f = f THEN op ELSE o, DeleteOp(NoFile), ops)

\* The positions of the operations of a kind on file f.
OnFile(ops, k, f) == {i \in DOMAIN ops : ops[i].k = k /\ ops[i].f = f}

\* What is left of the operations on file f: the last write, with a note of a
\* later deletion; without a write a deletion, of no file if there is none.
Coalesced(ops, f) ==
    LET writes  == OnFile(ops, "write", f)
        deletes == OnFile(ops, "delete", f)
        last    == Max(writes)
    IN  IF writes # {}
        THEN [ops[last] EXCEPT !.thenDelete = \E d \in deletes : d > last]
        ELSE DeleteOp(IF deletes # {} THEN f ELSE NoFile)

OpsOf(ops) == {Coalesced(ops, f) : f \in Files}

\* Mutant: the words that came with a deleted file's write are not inserted.
NewWords_LiveOnly(ops) == UNION {o.new : o \in {p \in OpsOf(ops) : ~p.thenDelete}}

\* allNewWords: the new words of the operations that were left.
NewWords(ops) == UNION {o.new : o \in OpsOf(ops)}

\* The rows after the upserts, deletions and insertions of one operation.
DocRow(o, row) ==
    CASE o.f = NoFile  -> row
      [] o.k = "write" -> IF o.thenDelete THEN "deleted" ELSE "live"
      [] OTHER         -> IF row = "none" THEN row ELSE "deleted"

Rewritten(ops) ==
    \E i, j \in DOMAIN ops :
        i < j /\ ops[i].f = ops[j].f /\ ops[i].k = "write" /\ ops[j].k = "write"

-----------------------------------------------------------------------------
(* The writer thread.                                                      *)

\* flushDoneCv_.notify_all().
Notified(p) ==
    [c \in Callers |-> CASE p[c] = "flushWait"      -> "flushCheck"
                         [] p[c] = "checkpointWait" -> "checkpointCheck"
                         [] OTHER                   -> p[c]]

\* The top of the loop, with something to do: take the queue whole.
WriterTake ==
    /\ wpc = "loop"
    /\ queue # <<>> \/ (flushNow /\ ~stop) \/ requestCheckpoint
    /\ batch' = queue /\ queue' = <<>> /\ flushNow' = FALSE
    /\ doCheckpoint' = requestCheckpoint
    /\ writerActive' = (queue # <<>> \/ requestCheckpoint)
    /\ wpc' = IF queue # <<>> THEN "write"
              ELSE IF requestCheckpoint THEN "checkpoint" ELSE "empty"
    /\ UNCHANGED <<requestCheckpoint, stop, writerError, tableVars, ramVars,
                   callVars, countVars>>

\* wait_for ran into its interval with nothing to do.
WriterTick ==
    /\ wpc = "loop" /\ ~stop
    /\ queue = <<>> /\ ~flushNow /\ ~requestCheckpoint
    /\ batch' = <<>> /\ doCheckpoint' = FALSE /\ writerActive' = FALSE
    /\ wpc' = "empty"
    /\ UNCHANGED <<queue, flushNow, requestCheckpoint, stop, writerError,
                   tableVars, ramVars, callVars, countVars>>

\* The loop ends when stop_ finds the queue empty; the test at the bottom of
\* the loop is the one at its top.
WriterBreak ==
    /\ wpc = "loop"
    /\ stop /\ queue = <<>> /\ ~requestCheckpoint
    /\ wpc' = "ended"
    /\ UNCHANGED <<queueVars, batch, doCheckpoint, tableVars, ramVars, callVars,
                   countVars>>

\* A round without a batch and without a checkpoint.
WriterEmpty ==
    /\ wpc = "empty"
    /\ pc' = IF queue = <<>> /\ ~writerActive THEN Notified(pc) ELSE pc
    /\ wpc' = "loop"
    /\ UNCHANGED <<queueVars, batch, doCheckpoint, tableVars, ramVars, job, mark,
                   touched, countVars>>

\* writeBatch commits.
WriterCommit ==
    /\ wpc = "write"
    /\ docs' = [f \in Files |-> DocRow(Coalesced(batch, f), docs[f])]
    /\ postings' = [f \in Files |-> LET o == Coalesced(batch, f) IN
                                    IF o.k = "write" THEN o.body ELSE postings[f]]
    /\ words' = words \cup NewWords(batch)
    /\ rewritten' = (rewritten \/ Rewritten(batch))
    /\ applied' = applied + Len(batch)
    /\ wpc' = "wrote"
    /\ UNCHANGED <<queueVars, batch, doCheckpoint, ramVars, callVars, accepted,
                   synced, jobs, late, faults, crashes>>

\* The lock after a batch: a round that also checkpoints stays active.
WriterWrote ==
    /\ wpc = "wrote"
    /\ writerActive' = doCheckpoint
    /\ pc' = IF queue = <<>> /\ ~doCheckpoint /\ ~requestCheckpoint
             THEN Notified(pc) ELSE pc
    /\ batch' = <<>>
    /\ wpc' = IF doCheckpoint THEN "checkpoint" ELSE "loop"
    /\ UNCHANGED <<queue, flushNow, requestCheckpoint, stop, writerError,
                   doCheckpoint, tableVars, ramVars, job, mark, touched,
                   countVars>>

\* wal_checkpoint(TRUNCATE).
WriterCheckpoint ==
    /\ wpc = "checkpoint"
    /\ synced' = applied
    /\ wpc' = "checkpointed"
    /\ UNCHANGED <<queueVars, batch, doCheckpoint, tableVars, ramVars, callVars,
                   accepted, applied, jobs, late, faults, crashes>>

WriterCheckpointed ==
    /\ wpc = "checkpointed"
    /\ writerActive' = FALSE /\ requestCheckpoint' = FALSE /\ doCheckpoint' = FALSE
    /\ pc' = IF queue = <<>> THEN Notified(pc) ELSE pc
    /\ wpc' = "loop"
    /\ UNCHANGED <<queue, flushNow, stop, writerError, batch, tableVars,
                   ramVars, job, mark, touched, countVars>>

\* Mutant: a failed writer does not wake those who wait for it.
WriterFails_Silent ==
    /\ wpc \in {"write", "checkpoint"} /\ faults < MaxFaults
    /\ faults' = faults + 1
    /\ writerError' = TRUE /\ stop' = TRUE
    /\ writerActive' = FALSE /\ requestCheckpoint' = FALSE
    /\ queue' = (IF wpc = "write" THEN <<>> ELSE queue)
    /\ batch' = <<>> /\ doCheckpoint' = FALSE
    /\ wpc' = "ended"
    /\ UNCHANGED <<flushNow, tableVars, ramVars, callVars,
                   accepted, applied, synced, jobs, late, crashes>>

\* The transaction is rolled back, or the checkpoint fails: the error is kept,
\* a failed write also drops the queue, everyone waiting is woken and the
\* thread ends.
WriterFails ==
    /\ wpc \in {"write", "checkpoint"} /\ faults < MaxFaults
    /\ faults' = faults + 1
    /\ writerError' = TRUE /\ stop' = TRUE
    /\ writerActive' = FALSE /\ requestCheckpoint' = FALSE
    /\ queue' = (IF wpc = "write" THEN <<>> ELSE queue)
    /\ batch' = <<>> /\ doCheckpoint' = FALSE
    /\ pc' = Notified(pc)
    /\ wpc' = "ended"
    /\ UNCHANGED <<flushNow, tableVars, ramVars, job, mark, touched, accepted,
                   applied, synced, jobs, late, crashes>>

Writer ==
    \/ WriterTake \/ WriterTick \/ WriterBreak \/ WriterEmpty
    \/ WriterCommit \/ WriterWrote \/ WriterCheckpoint \/ WriterCheckpointed
    \/ WriterFails

-----------------------------------------------------------------------------
(* flushPending and checkpoint, in a caller's thread.                      *)

Goto(c, label) == pc' = [pc EXCEPT ![c] = label]

\* Mutant: an empty queue is enough.
FlushDone_QueueOnly == queue = <<>>

FlushDone == queue = <<>> /\ ~writerActive

\* flushPending: rethrow, ask for a flush, wait for it.
FlushCall(c) ==
    /\ pc[c] = "flush"
    /\ IF writerError THEN Goto(c, "threw") /\ UNCHANGED flushNow
       ELSE flushNow' = TRUE /\ Goto(c, IF FlushDone THEN "flushed" ELSE "flushWait")
    /\ UNCHANGED <<queue, requestCheckpoint, writerActive, stop, writerError,
                   writerVars, tableVars, ramVars, job, mark, touched, countVars>>

\* The wait's predicate under the lock again, and the rethrow behind it.
FlushCheck(c) ==
    /\ pc[c] = "flushCheck"
    /\ Goto(c, IF writerError THEN "threw"
               ELSE IF FlushDone THEN "flushed" ELSE "flushWait")
    /\ UNCHANGED <<queueVars, writerVars, tableVars, ramVars, job, mark, touched,
                   countVars>>

\* checkpoint, behind its own flushPending.
CheckpointCall(c) ==
    /\ pc[c] = "request"
    /\ IF writerError THEN Goto(c, "threw") /\ UNCHANGED requestCheckpoint
                      ELSE Goto(c, "checkpointWait") /\ requestCheckpoint' = TRUE
    /\ UNCHANGED <<queue, flushNow, writerActive, stop, writerError, writerVars,
                   tableVars, ramVars, job, mark, touched, countVars>>

CheckpointCheck(c) ==
    /\ pc[c] = "checkpointCheck"
    /\ Goto(c, IF writerError THEN "threw"
               ELSE IF ~requestCheckpoint /\ ~writerActive THEN "saved"
               ELSE "checkpointWait")
    /\ UNCHANGED <<queueVars, writerVars, tableVars, ramVars, job, mark, touched,
                   countVars>>

-----------------------------------------------------------------------------
(* The strand: processBatch, markFileDeleted.                              *)

\* A full update is running: point operations are deferred.
Updating == job["updater"].k = "update"

\* Mutant: an operation that finds the queue at its limit is dropped.
Enqueue_DropsAtLimit(op) ==
    /\ accepted < MaxOps
    /\ ~writerError
    /\ queue' = IF Len(queue) + 1 >= MaxPendingOps THEN queue ELSE Append(queue, op)
    /\ flushNow' = (flushNow \/ Len(queue) + 1 >= MaxPendingOps)
    /\ accepted' = accepted + Len(queue') - Len(queue)

\* enqueueOp; no operation is accepted once the writer has failed.
Enqueue(op) ==
    /\ accepted < MaxOps
    /\ ~writerError
    /\ queue' = Append(queue, op)
    /\ flushNow' = (flushNow \/ Len(queue) + 1 >= MaxPendingOps)
    /\ accepted' = accepted + 1

Refused == writerError /\ UNCHANGED <<queue, flushNow, accepted>>

\* processBatch of a point update up to its flushPending: words are numbered
\* first.  Its postings have left RAM before (safeEraseFileInternal).
PointWrite(f, body) ==
    /\ pc["strand"] = "idle" /\ pc["closer"] = "idle" /\ ~Updating /\ body # {}
    /\ wordIds' = wordIds \cup body
    /\ ram' = [ram EXCEPT ![f] = {}]
    /\ job' = [job EXCEPT !["strand"] = [k |-> "write", f |-> f, body |-> body]]
    /\ \/ Enqueue(WriteOp(f, body, body \ wordIds)) /\ Goto("strand", "flush")
       \/ Refused /\ Goto("strand", "threw")
    /\ mark' = [mark EXCEPT !["strand"] = accepted']
    /\ UNCHANGED <<requestCheckpoint, writerActive, stop, writerError, writerVars,
                   tableVars, touched, applied, synced, jobs, late, faults, crashes>>

\* enqueueFileDeletion's handler up to its flushPending.
PointDelete(f) ==
    /\ pc["strand"] = "idle" /\ pc["closer"] = "idle" /\ ~Updating
    /\ job' = [job EXCEPT !["strand"] = [k |-> "delete", f |-> f, body |-> {}]]
    /\ \/ Enqueue(DeleteOp(f)) /\ Goto("strand", "flush")
       \/ Refused /\ Goto("strand", "threw")
    /\ mark' = [mark EXCEPT !["strand"] = accepted']
    /\ UNCHANGED <<requestCheckpoint, writerActive, stop, writerError, writerVars,
                   tableVars, ramVars, touched, applied, synced, jobs, late, faults,
                   crashes>>

\* The flush has returned: the postings are published.
Publish ==
    /\ pc["strand"] = "flushed"
    /\ ram' = IF job["strand"].k = "write"
              THEN [ram EXCEPT ![job["strand"].f] = job["strand"].body] ELSE ram
    /\ Goto("strand", "idle")
    /\ job' = [job EXCEPT !["strand"] = NoJob]
    /\ mark' = [mark EXCEPT !["strand"] = 0]
    /\ UNCHANGED <<queueVars, writerVars, tableVars, wordIds, touched, countVars>>

\* A changed file in which no word was found: processBatch returns before it
\* reaches the mirror.
Emptied(f) ==
    /\ pc["strand"] = "idle" /\ pc["closer"] = "idle"
    /\ {} \in Contents /\ ram[f] # {}
    /\ ram' = [ram EXCEPT ![f] = {}]
    /\ UNCHANGED <<queueVars, writerVars, tableVars, wordIds, callVars, countVars>>

\* A file of a full update, written without a flush, in time or after the
\* update has given it up ...
BulkWrite(f, body) ==
    /\ pc["strand"] = "idle" /\ body # {}
    /\ \/ Updating /\ pc["updater"] = "idle" /\ f \notin touched /\ UNCHANGED late
       \/ pc["closer"] = "idle" /\ late < MaxLate /\ late' = late + 1
    /\ touched' = touched \cup {f}
    /\ wordIds' = wordIds \cup body
    /\ \/ Enqueue(WriteOp(f, body, body \ wordIds)) /\ ram' = [ram EXCEPT ![f] = body]
       \/ Refused /\ ram' = [ram EXCEPT ![f] = {}]
    /\ UNCHANGED <<requestCheckpoint, writerActive, stop, writerError, writerVars,
                   tableVars, pc, job, mark, applied, synced, jobs, faults, crashes>>

\* ... or found missing by its scan.
BulkDelete(f) ==
    /\ pc["strand"] = "idle" /\ Updating /\ f \notin touched
    /\ pc["updater"] = "idle"
    /\ touched' = touched \cup {f}
    /\ Enqueue(DeleteOp(f))
    /\ UNCHANGED <<requestCheckpoint, writerActive, stop, writerError, writerVars,
                   tableVars, ramVars, pc, job, mark, applied, synced, jobs, late, faults,
                   crashes>>

-----------------------------------------------------------------------------
(* The updater: updateDocumentBase and saveIndex; and the destructor.      *)

Begin(kind) ==
    /\ pc["updater"] = "idle" /\ job["updater"] = NoJob /\ pc["closer"] = "idle"
    /\ jobs < MaxJobs /\ jobs' = jobs + 1
    /\ job' = [job EXCEPT !["updater"] = [NoJob EXCEPT !.k = kind]]

\* The update has locked the point operations out and drained the strand.
UpdateBegin ==
    /\ Begin("update") /\ pc["strand"] = "idle"
    /\ touched' = {}
    /\ UNCHANGED <<queueVars, writerVars, tableVars, ramVars, pc, mark, accepted,
                   applied, synced, late, faults, crashes>>

\* Its files are indexed; flushPending.
UpdateFlush ==
    /\ Updating /\ pc["updater"] = "idle" /\ pc["strand"] = "idle"
    /\ Goto("updater", "flush")
    /\ mark' = [mark EXCEPT !["updater"] = accepted]
    /\ UNCHANGED <<queueVars, writerVars, tableVars, ramVars, job, touched,
                   countVars>>

\* saveIndex: flushPending and checkpoint, with point operations about.
SaveBegin ==
    /\ Begin("save")
    /\ Goto("updater", "flush")
    /\ mark' = [mark EXCEPT !["updater"] = accepted]
    /\ UNCHANGED <<queueVars, writerVars, tableVars, ramVars, touched, accepted,
                   applied, synced, late, faults, crashes>>

\* flushPending or checkpoint has returned to the updater.
UpdaterReturns ==
    /\ \/ /\ pc["updater"] = "flushed" /\ job["updater"].k = "save"
          /\ Goto("updater", "request") /\ UNCHANGED <<job, mark>>
       \/ /\ \/ pc["updater"] = "flushed" /\ Updating
             \/ pc["updater"] = "saved"
          /\ Goto("updater", "idle")
          /\ job' = [job EXCEPT !["updater"] = NoJob]
          /\ mark' = [mark EXCEPT !["updater"] = 0]
    /\ touched' = {}
    /\ UNCHANGED <<queueVars, writerVars, tableVars, ramVars, countVars>>

\* The destructor's flushPending, once every other thread has stopped ...
Close ==
    /\ pc["closer"] = "idle"
    /\ pc["strand"] \in {"idle", "threw"}
    /\ \/ pc["updater"] = "idle" /\ ~Updating
       \/ pc["updater"] = "threw"
    /\ Goto("closer", "flush")
    /\ mark' = [mark EXCEPT !["closer"] = accepted]
    /\ UNCHANGED <<queueVars, writerVars, tableVars, ramVars, job, touched,
                   countVars>>

\* ... stopWriter, whether it threw or not ...
StopWriter ==
    /\ pc["closer"] \in {"flushed", "threw"}
    /\ stop' = TRUE /\ flushNow' = TRUE
    /\ Goto("closer", "join")
    /\ UNCHANGED <<queue, requestCheckpoint, writerActive, writerError, writerVars,
                   tableVars, ramVars, job, mark, touched, countVars>>

\* ... and the join.
Joined ==
    /\ pc["closer"] = "join" /\ wpc = "ended"
    /\ Goto("closer", "closed")
    /\ UNCHANGED <<queueVars, writerVars, tableVars, ramVars, job, mark, touched,
                   countVars>>

-----------------------------------------------------------------------------
(* Death of the process, and the start of the next one.                    *)

\* load: rows that contradict each other stop the start of the application.
Loads ==
    /\ \A f \in Files : postings[f] # {} => docs[f] # "none"
    /\ \A f \in Files : postings[f] \subseteq words

Fresh ==
    /\ queue' = <<>> /\ flushNow' = FALSE /\ requestCheckpoint' = FALSE
    /\ writerActive' = FALSE /\ stop' = FALSE /\ writerError' = FALSE
    /\ wpc' = "loop" /\ batch' = <<>> /\ doCheckpoint' = FALSE
    /\ job' = [c \in Callers |-> NoJob] /\ mark' = [c \in Callers |-> 0]
    /\ touched' = {}
    /\ applied' = accepted /\ synced' = accepted

\* The tables are all that is left, between any two steps; they are loaded.
Restart ==
    /\ crashes < MaxCrashes /\ crashes' = crashes + 1
    /\ Loads
    /\ Fresh
    /\ pc' = [c \in Callers |-> "idle"]
    /\ wordIds' = words /\ ram' = postings
    /\ UNCHANGED <<tableVars, accepted, jobs, late, faults>>

-----------------------------------------------------------------------------
Init ==
    /\ queue = <<>> /\ flushNow = FALSE /\ requestCheckpoint = FALSE
    /\ writerActive = FALSE /\ stop = FALSE /\ writerError = FALSE
    /\ wpc = "loop" /\ batch = <<>> /\ doCheckpoint = FALSE
    /\ docs = [f \in Files |-> "none"] /\ postings = [f \in Files |-> {}]
    /\ words = {} /\ rewritten = FALSE /\ wordIds = {} /\ ram = [f \in Files |-> {}]
    /\ pc = [c \in Callers |-> "idle"] /\ job = [c \in Callers |-> NoJob]
    /\ mark = [c \in Callers |-> 0] /\ touched = {}
    /\ accepted = 0 /\ applied = 0 /\ synced = 0
    /\ jobs = 0 /\ late = 0 /\ faults = 0 /\ crashes = 0

Call(c) == FlushCall(c) \/ FlushCheck(c) \/ CheckpointCall(c) \/ CheckpointCheck(c)

Returns == Publish \/ UpdaterReturns \/ StopWriter \/ Joined

Next ==
    \/ Writer \/ Returns
    \/ \E c \in Callers : Call(c)
    \/ \E f \in Files, body \in Contents : PointWrite(f, body) \/ BulkWrite(f, body)
    \/ \E f \in Files : PointDelete(f) \/ Emptied(f) \/ BulkDelete(f)
    \/ UpdateBegin \/ UpdateFlush \/ SaveBegin \/ Close \/ Restart

Spec == Init /\ [][Next]_vars

\* The writer thread runs (its wait has a timeout), and so does a caller that
\* is not asleep.  Nobody need hand over a document, and the process need not
\* be closed.
FairSpec ==
    /\ Spec
    /\ WF_vars(Writer)
    /\ \A c \in Callers : WF_vars(Call(c))
    /\ WF_vars(Publish) /\ WF_vars(UpdaterReturns)
    /\ WF_vars(StopWriter) /\ WF_vars(Joined)

-----------------------------------------------------------------------------
(* Properties.                                                             *)

Op == [k : {"write", "delete"}, f : Files, body : SUBSET Words,
       new : SUBSET Words, thenDelete : BOOLEAN]

\* The type of the state; a writer with a batch is on record as active, and
\* operations are committed, and committed ones checkpointed, in their order.
TypeOK ==
    /\ queue \in Seq(Op) /\ batch \in Seq(Op)
    /\ flushNow \in BOOLEAN /\ requestCheckpoint \in BOOLEAN
    /\ writerActive \in BOOLEAN /\ stop \in BOOLEAN /\ writerError \in BOOLEAN
    /\ doCheckpoint \in BOOLEAN /\ rewritten \in BOOLEAN
    /\ wpc \in {"loop", "write", "wrote", "checkpoint", "checkpointed", "empty",
                "ended"}
    /\ wpc \in {"write", "wrote", "checkpoint", "checkpointed"} => writerActive
    /\ docs \in [Files -> {"none", "live", "deleted"}]
    /\ postings \in [Files -> SUBSET Words] /\ ram \in [Files -> SUBSET Words]
    /\ words \subseteq Words /\ wordIds \subseteq Words /\ touched \subseteq Files
    /\ pc \in [Callers -> Asleep \cup {"idle", "flush", "flushCheck", "flushed",
                "request", "checkpointCheck", "saved", "threw", "join", "closed"}]
    /\ job \in [Callers -> [k : {"none", "write", "delete", "update", "save"},
                            f : Files \cup {NoFile}, body : SUBSET Words]]
    /\ mark \in [Callers -> 0 .. MaxOps]
    /\ accepted \in 0 .. MaxOps
    /\ synced \in 0 .. applied /\ applied \in 0 .. accepted
    /\ jobs \in 0 .. MaxJobs /\ late \in 0 .. MaxLate /\ faults \in 0 .. MaxFaults
    /\ crashes \in 0 .. MaxCrashes

\* One operation by itself.
Apply(t, op) ==
    IF op.k = "write" THEN [docs     |-> [t.docs EXCEPT ![op.f] = "live"],
                            postings |-> [t.postings EXCEPT ![op.f] = op.body]]
    ELSE [t EXCEPT !.docs[op.f] = IF @ = "none" THEN @ ELSE "deleted"]

\* writeBatch coalesces the operations on a file.  Its transaction leaves the
\* documents and postings that the operations one after the other would leave
\* (a write before a deletion is not lost: the eternal trace), and no other
\* step changes them: whenever the process dies, the tables are the result of
\* a prefix of the operations.
BatchIsSequential ==
    [][IF wpc = "write" /\ wpc' = "wrote"
       THEN [docs |-> docs', postings |-> postings'] =
                FoldLeft(Apply, [docs |-> docs, postings |-> postings], batch)
       ELSE UNCHANGED <<docs, postings>>]_vars

\* Whenever the process dies, the next one can load the tables: every posting
\* has its document's row, and its word's row unless a transaction has held two
\* writes of one file, of which writeBatch drops the first with its new words.
Loadable ==
    /\ rewritten \/ Loads
    /\ \A f \in Files : postings[f] # {} => docs[f] # "none"

\* flushPending returns normally only when everything handed over before the
\* call has been committed, also when it raced with the writer, with other
\* calls or with a failure.
FlushDurable ==
    \A c \in Callers : pc[c] \in {"flushed", "request", "saved"} => mark[c] <= applied

\* checkpoint returns normally only when a checkpoint has run that covers
\* everything handed over before the call.
CheckpointCovers == \A c \in Callers : pc[c] = "saved" => mark[c] <= synced

\* At rest, with a working writer, the tables hold what a search finds in RAM
\* ("the data have been written as indexing went", saveIndex).  A file in which
\* no word was found any more is the exception: its old postings stay.
AtRest == queue = <<>> /\ batch = <<>> /\ pc["strand"] = "idle" /\ ~writerError

MirrorCurrent ==
    AtRest => \A f \in Files : ram[f] # {} => /\ postings[f] = ram[f]
                                              /\ docs[f] # "none"

\* Every flushPending and checkpoint returns or throws, and the destructor of
\* the serializer ends: each caller is again and again out of these calls.
CallsReturn == \A c \in Callers : []<>(pc[c] \in {"idle", "threw", "closed"})

\* The state is well typed, and a call that has returned has kept its promise.
CallInv == TypeOK /\ FlushDurable /\ CheckpointCovers
=============================================================================
