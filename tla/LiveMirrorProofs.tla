-------------------------- MODULE LiveMirrorProofs --------------------------
(***************************************************************************)
(* For any files, words and number of operations, failures and crashes:    *)
(* flushPending and checkpoint promise only what they have done, the       *)
(* tables can be loaded after a crash, and at rest they hold what a search *)
(* finds in RAM.                                                           *)
(***************************************************************************)
EXTENDS LiveMirror, SequenceTheorems, WellFoundedInduction, NaturalsInduction, TLAPS

\* The operations the writer has taken and not yet committed.
Held == IF wpc = "write" THEN batch ELSE <<>>

-----------------------------------------------------------------------------
(* The inductive invariant.                                                *)

\* Operations are only lost with the writer, which then accepts no others.
Counts ==
    /\ applied <= accepted /\ synced <= applied
    /\ writerError => wpc = "ended"
    /\ ~writerError => accepted = applied + Len(queue) + Len(Held)
    /\ wpc = "checkpointed" => synced = applied
    /\ \A c \in Callers : mark[c] <= accepted

\* Of a caller in checkpoint, the flush has returned; and a request that is no
\* longer on record has been served, or the writer has failed.
CheckpointOk ==
    \A c \in Callers : pc[c] \in {"checkpointWait", "checkpointCheck"} =>
        /\ mark[c] <= applied
        /\ writerError \/ requestCheckpoint \/ mark[c] <= synced

\* The words that come with the writes of a sequence of operations.
Carried(ops) == UNION {ops[i].new : i \in {j \in DOMAIN ops : ops[j].k = "write"}}

Bodies(ops) == UNION {ops[i].body : i \in {j \in DOMAIN ops : ops[j].k = "write"}}

\* Every numbered word is in the table or comes with an operation under way;
\* the words of a batch come with it at the latest.
WordsOk ==
    ~rewritten =>
        /\ \A f \in Files : postings[f] \subseteq words
        /\ ~writerError =>
             /\ wordIds \subseteq words \cup Carried(Held) \cup Carried(queue)
             /\ Bodies(queue) \subseteq words \cup Carried(Held) \cup Carried(queue)
             /\ Bodies(Held) \subseteq words \cup Carried(Held)

RowsOk == \A f \in Files : postings[f] # {} => docs[f] # "none"

\* The postings f will have after the operations are b, p being those before.
After(ops, f, p, b) ==
    \/ \E i \in OnFile(ops, "write", f) :
          ops[i].body = b /\ \A j \in OnFile(ops, "write", f) : j <= i
    \/ OnFile(ops, "write", f) = {} /\ p = b

\* The postings of f will be b when all operations under way are committed.
Becomes(f, b) ==
    \/ OnFile(queue, "write", f) # {} /\ After(queue, f, {}, b)
    \/ OnFile(queue, "write", f) = {} /\ After(Held, f, postings[f], b)

\* What is in RAM, or will be when the strand's flush has returned, is on its
\* way to the tables.
RamOk ==
    ~writerError =>
        /\ \A f \in Files : ram[f] # {} => Becomes(f, ram[f])
        /\ /\ pc["strand"] \in {"flush", "flushWait", "flushCheck", "flushed"}
           /\ job["strand"].k = "write"
           => Becomes(job["strand"].f, job["strand"].body)

\* Which labels and jobs a caller may have.
CallerOk ==
    /\ pc["strand"] \in {"idle", "flush", "flushWait", "flushCheck", "flushed", "threw"}
    /\ pc["strand"] = "idle" => job["strand"].k = "none"
    /\ job["strand"].k = "write" => job["strand"].f \in Files

-----------------------------------------------------------------------------
(* Lemmas about the operators.                                             *)

\* A bounded set of numbers that is not empty has a greatest element.
LEMMA MaxOfBounded ==
    ASSUME NEW S, S \subseteq Nat, S # {}, NEW n \in Nat, \A i \in S : i <= n
    PROVE  Max(S) \in S /\ \A i \in S : i <= Max(S)
  <1> DEFINE T == {n - i : i \in S}
  <1>1. T \subseteq Nat /\ T # {}
    <2>1. \A i \in S : n - i \in Nat
      OBVIOUS
    <2>2. PICK i : i \in S
      OBVIOUS
    <2>3. n - i \in T
      BY <2>2
    <2> QED  BY <2>1, <2>3
  <1>2. PICK x \in T : \A y \in T : ~ (<<y, x>> \in OpToRel(<, Nat))
    BY <1>1, NatLessThanWellFounded, WFMin
  <1>3. \A y \in T : ~ (y < x)
    BY <1>1, <1>2 DEF OpToRel
  <1>4. PICK m \in S : x = n - m
    OBVIOUS
  <1>5. ASSUME NEW i \in S PROVE m >= i
    <2>1. n - i \in T
      OBVIOUS
    <2> QED  BY <1>3, <1>4, <2>1
  <1> QED  BY <1>5 DEF Max

\* The last write on a file is what Coalesced leaves of it.
LEMMA CoalescedWrite ==
    ASSUME NEW ops \in Seq(Op), NEW f \in Files,
           NEW i \in OnFile(ops, "write", f),
           \A j \in OnFile(ops, "write", f) : j <= i
    PROVE  /\ Coalesced(ops, f).k = "write" /\ Coalesced(ops, f).f = f
           /\ Coalesced(ops, f).body = ops[i].body
           /\ Coalesced(ops, f).new = ops[i].new
  <1> DEFINE S == OnFile(ops, "write", f)
  <1>1. S \subseteq Nat /\ Len(ops) \in Nat /\ (\A j \in S : j <= Len(ops)) /\ i \in S
    BY DEF OnFile
  <1>2. Max(S) \in S /\ \A j \in S : j <= Max(S)
    <2> HIDE DEF S
    <2> QED  BY <1>1, MaxOfBounded
  <1>3. Max(S) = i
    BY <1>1, <1>2
  <1>4. ops[i] \in Op /\ ops[i].k = "write" /\ ops[i].f = f
    BY DEF OnFile
  <1>5. Coalesced(ops, f) =
            [ops[i] EXCEPT !.thenDelete = \E d \in OnFile(ops, "delete", f) : d > i]
    BY <1>1, <1>3 DEF Coalesced
  <1> QED  BY <1>4, <1>5 DEF Op

\* Without a write it leaves at most a deletion.
LEMMA CoalescedOther ==
    ASSUME NEW ops, NEW f \in Files, OnFile(ops, "write", f) = {}
    PROVE  /\ Coalesced(ops, f).k = "delete" /\ Coalesced(ops, f).new = {}
           /\ Coalesced(ops, f).thenDelete = FALSE
  BY DEF Coalesced, DeleteOp

\* Writes on a file have a last one.
LEMMA LastWrite ==
    ASSUME NEW ops \in Seq(Op), NEW f \in Files, OnFile(ops, "write", f) # {}
    PROVE  \E i \in OnFile(ops, "write", f) :
               \A j \in OnFile(ops, "write", f) : j <= i
  <1>1. /\ OnFile(ops, "write", f) \subseteq Nat /\ Len(ops) \in Nat
        /\ \A j \in OnFile(ops, "write", f) : j <= Len(ops)
    BY DEF OnFile
  <1> QED  BY <1>1, MaxOfBounded

\* The type of what Coalesced leaves.
LEMMA CoalescedType ==
    ASSUME NEW ops \in Seq(Op), NEW f \in Files
    PROVE  /\ Coalesced(ops, f).k \in {"write", "delete"}
           /\ Coalesced(ops, f).k = "write" =>
                /\ Coalesced(ops, f).f = f
                /\ Coalesced(ops, f).body \subseteq Words
           /\ Coalesced(ops, f).new \subseteq Words
  <1>1. CASE OnFile(ops, "write", f) = {}
    BY <1>1, CoalescedOther
  <1>2. CASE OnFile(ops, "write", f) # {}
    <2>1. PICK i \in OnFile(ops, "write", f) : \A j \in OnFile(ops, "write", f) : j <= i
      BY <1>2, LastWrite
    <2>2. ops[i] \in Op
      BY DEF OnFile
    <2>3. ops[i].body \subseteq Words /\ ops[i].new \subseteq Words
      BY <2>2 DEF Op
    <2> QED  BY <2>1, <2>3, CoalescedWrite
  <1> QED  BY <1>1, <1>2

\* A batch with one write of each file at most hands all its words over.
LEMMA NothingDropped ==
    ASSUME NEW ops \in Seq(Op), ~Rewritten(ops)
    PROVE  Carried(ops) \subseteq NewWords(ops)
  <1> SUFFICES ASSUME NEW i \in DOMAIN ops, ops[i].k = "write"
               PROVE  ops[i].new \subseteq NewWords(ops)
    BY DEF Carried
  <1>1. ops[i].f \in Files
    <2>1. ops[i] \in Op
      OBVIOUS
    <2> QED  BY <2>1 DEF Op
  <1>2. i \in OnFile(ops, "write", ops[i].f)
    BY DEF OnFile
  <1>3. ASSUME NEW j \in OnFile(ops, "write", ops[i].f) PROVE j <= i
    BY <1>3 DEF OnFile, Rewritten
  <1>4. Coalesced(ops, ops[i].f).new = ops[i].new
    BY <1>1, <1>2, <1>3, CoalescedWrite
  <1> QED  BY <1>1, <1>4 DEF NewWords, OpsOf

\* Appending an operation: which positions there are on a file.
LEMMA AppendOnFile ==
    ASSUME NEW ops \in Seq(Op), NEW op \in Op, NEW k, NEW f
    PROVE  OnFile(Append(ops, op), k, f) =
             OnFile(ops, k, f) \cup
             (IF op.k = k /\ op.f = f THEN {Len(ops) + 1} ELSE {})
  <1>1. /\ Append(ops, op) \in Seq(Op) /\ Len(Append(ops, op)) = Len(ops) + 1
        /\ \A i \in 1 .. Len(ops) : Append(ops, op)[i] = ops[i]
        /\ Append(ops, op)[Len(ops) + 1] = op
    BY AppendProperties
  <1>2. /\ DOMAIN Append(ops, op) = 1 .. Len(ops) + 1 /\ DOMAIN ops = 1 .. Len(ops)
        /\ Len(ops) \in Nat
    BY <1>1
  <1> QED  BY <1>1, <1>2 DEF OnFile

\* ... and which words and bodies it adds.
LEMMA AppendCarried ==
    ASSUME NEW ops \in Seq(Op), NEW op \in Op
    PROVE  /\ Carried(ops) \subseteq Carried(Append(ops, op))
           /\ op.k = "write" => op.new \subseteq Carried(Append(ops, op))
           /\ Bodies(Append(ops, op)) \subseteq Bodies(ops) \cup op.body
  <1>1. /\ Append(ops, op) \in Seq(Op) /\ Len(Append(ops, op)) = Len(ops) + 1
        /\ \A i \in 1 .. Len(ops) : Append(ops, op)[i] = ops[i]
        /\ Append(ops, op)[Len(ops) + 1] = op
    BY AppendProperties
  <1>2. /\ DOMAIN Append(ops, op) = 1 .. Len(ops) + 1 /\ DOMAIN ops = 1 .. Len(ops)
        /\ Len(ops) \in Nat
    BY <1>1
  <1>3. Carried(ops) \subseteq Carried(Append(ops, op))
    BY <1>1, <1>2 DEF Carried
  <1>4. op.k = "write" => op.new \subseteq Carried(Append(ops, op))
    BY <1>1, <1>2 DEF Carried
  <1>5. ASSUME NEW w \in Bodies(Append(ops, op)) PROVE w \in Bodies(ops) \cup op.body
    <2>1. PICK i \in DOMAIN Append(ops, op) :
             Append(ops, op)[i].k = "write" /\ w \in Append(ops, op)[i].body
      BY <1>5 DEF Bodies
    <2> QED  BY <1>1, <1>2, <2>1 DEF Bodies
  <1> QED  BY <1>3, <1>4, <1>5

-----------------------------------------------------------------------------
(* The types.                                                              *)

JobType == [k : {"none", "write", "delete", "update", "save"},
            f : Files \cup {NoFile}, body : SUBSET Words]

WriterType ==
    /\ queue \in Seq(Op) /\ batch \in Seq(Op)
    /\ flushNow \in BOOLEAN /\ requestCheckpoint \in BOOLEAN
    /\ writerActive \in BOOLEAN /\ stop \in BOOLEAN /\ writerError \in BOOLEAN
    /\ doCheckpoint \in BOOLEAN
    /\ wpc \in {"loop", "write", "wrote", "checkpoint", "checkpointed", "empty",
                "ended"}
    /\ wpc \in {"write", "wrote", "checkpoint", "checkpointed"} => writerActive

TableType ==
    /\ rewritten \in BOOLEAN
    /\ docs \in [Files -> {"none", "live", "deleted"}]
    /\ postings \in [Files -> SUBSET Words] /\ ram \in [Files -> SUBSET Words]
    /\ words \subseteq Words /\ wordIds \subseteq Words

CallType ==
    /\ touched \subseteq Files
    /\ pc \in [Callers -> Asleep \cup {"idle", "flush", "flushCheck", "flushed",
                "request", "checkpointCheck", "saved", "threw", "join", "closed"}]
    /\ job \in [Callers -> JobType]
    /\ mark \in [Callers -> Nat]

CountType ==
    /\ accepted \in 0 .. MaxOps /\ applied \in Nat /\ synced \in Nat
    /\ jobs \in 0 .. MaxJobs /\ late \in 0 .. MaxLate /\ faults \in 0 .. MaxFaults
    /\ crashes \in 0 .. MaxCrashes

Types == WriterType /\ TableType /\ CallType /\ CountType

\* Which callers there are, and that the operations and jobs are well typed.
LEMMA Records ==
    /\ "strand" \in Callers /\ "updater" \in Callers /\ "closer" \in Callers
    /\ \A f \in Files, body \in Contents :
          /\ WriteOp(f, body, body \ wordIds) \in Op /\ body \subseteq Words
          /\ [k |-> "write", f |-> f, body |-> body] \in JobType
    /\ \A f \in Files : /\ DeleteOp(f) \in Op
                        /\ [k |-> "delete", f |-> f, body |-> {}] \in JobType
    /\ NoJob \in JobType
    /\ [NoJob EXCEPT !.k = "update"] \in JobType
    /\ [NoJob EXCEPT !.k = "save"] \in JobType
  BY MirrorAssumption DEF WriteOp, DeleteOp, Op, JobType, NoJob, Callers

\* Appending to the queue keeps its type.
LEMMA Appended ==
    ASSUME queue \in Seq(Op), NEW op \in Op
    PROVE  /\ Append(queue, op) \in Seq(Op) /\ Len(Append(queue, op)) = Len(queue) + 1
           /\ Len(queue) \in Nat
  BY AppendProperties

\* The queue and the writer keep their types.
LEMMA WriterTypeStep ==
    ASSUME WriterType, Next
    PROVE  WriterType'
  <1>u. ASSUME UNCHANGED <<queueVars, writerVars>> PROVE WriterType'
    BY <1>u DEF WriterType, queueVars, writerVars
  <1>WriterTake. ASSUME WriterTake PROVE WriterType'
    BY <1>WriterTake, EmptySeq DEF WriterTake, queueVars, writerVars, tableVars,
       ramVars, callVars, countVars, WriterType, queueVars, writerVars
  <1>WriterTick. ASSUME WriterTick PROVE WriterType'
    BY <1>WriterTick, EmptySeq DEF WriterTick, queueVars, writerVars, tableVars,
       ramVars, callVars, countVars, WriterType, queueVars, writerVars
  <1>WriterBreak. ASSUME WriterBreak PROVE WriterType'
    BY <1>WriterBreak, EmptySeq DEF WriterBreak, queueVars, writerVars,
       tableVars, ramVars, callVars, countVars, WriterType, queueVars,
       writerVars
  <1>WriterEmpty. ASSUME WriterEmpty PROVE WriterType'
    BY <1>WriterEmpty, EmptySeq DEF WriterEmpty, Notified, queueVars,
       writerVars, tableVars, ramVars, callVars, countVars, WriterType,
       queueVars, writerVars
  <1>WriterCommit. ASSUME WriterCommit PROVE WriterType'
    BY <1>WriterCommit, EmptySeq DEF WriterCommit, queueVars, writerVars,
       tableVars, ramVars, callVars, countVars, WriterType, queueVars,
       writerVars
  <1>WriterWrote. ASSUME WriterWrote PROVE WriterType'
    BY <1>WriterWrote, EmptySeq DEF WriterWrote, Notified, queueVars,
       writerVars, tableVars, ramVars, callVars, countVars, WriterType,
       queueVars, writerVars
  <1>WriterCheckpoint. ASSUME WriterCheckpoint PROVE WriterType'
    BY <1>WriterCheckpoint, EmptySeq DEF WriterCheckpoint, queueVars,
       writerVars, tableVars, ramVars, callVars, countVars, WriterType,
       queueVars, writerVars
  <1>WriterCheckpointed. ASSUME WriterCheckpointed PROVE WriterType'
    BY <1>WriterCheckpointed, EmptySeq DEF WriterCheckpointed, Notified,
       queueVars, writerVars, tableVars, ramVars, callVars, countVars,
       WriterType, queueVars, writerVars
  <1>WriterFails. ASSUME WriterFails PROVE WriterType'
    BY <1>WriterFails, EmptySeq DEF WriterFails, Notified, queueVars,
       writerVars, tableVars, ramVars, callVars, countVars, WriterType,
       queueVars, writerVars
  <1>StopWriter. ASSUME StopWriter PROVE WriterType'
    BY <1>StopWriter, EmptySeq DEF StopWriter, Goto, queueVars, writerVars,
       tableVars, ramVars, callVars, countVars, WriterType, queueVars,
       writerVars
  <1>FlushCall. ASSUME NEW c \in Callers, FlushCall(c) PROVE WriterType'
    BY <1>FlushCall, EmptySeq DEF FlushCall, Goto, queueVars, writerVars,
       tableVars, ramVars, callVars, countVars, WriterType, queueVars,
       writerVars
  <1>CheckpointCall. ASSUME NEW c \in Callers, CheckpointCall(c) PROVE
     WriterType'
    BY <1>CheckpointCall, EmptySeq DEF CheckpointCall, Goto, queueVars,
       writerVars, tableVars, ramVars, callVars, countVars, WriterType,
       queueVars, writerVars
  <1>PointWrite. ASSUME NEW f \in Files, NEW body \in Contents, PointWrite(f,
     body) PROVE WriterType'
    BY <1>PointWrite, EmptySeq, Records, Appended DEF PointWrite, Goto, Enqueue,
       Refused, queueVars, writerVars, tableVars, ramVars, callVars, countVars,
       WriterType, queueVars, writerVars
  <1>BulkWrite. ASSUME NEW f \in Files, NEW body \in Contents, BulkWrite(f,
     body) PROVE WriterType'
    BY <1>BulkWrite, EmptySeq, Records, Appended DEF BulkWrite, Enqueue,
       Refused, queueVars, writerVars, tableVars, ramVars, callVars, countVars,
       WriterType, queueVars, writerVars
  <1>PointDelete. ASSUME NEW f \in Files, PointDelete(f) PROVE WriterType'
    BY <1>PointDelete, EmptySeq, Records, Appended DEF PointDelete, Goto,
       Enqueue, Refused, queueVars, writerVars, tableVars, ramVars, callVars,
       countVars, WriterType, queueVars, writerVars
  <1>BulkDelete. ASSUME NEW f \in Files, BulkDelete(f) PROVE WriterType'
    BY <1>BulkDelete, EmptySeq, Records, Appended DEF BulkDelete, Enqueue,
       queueVars, writerVars, tableVars, ramVars, callVars, countVars,
       WriterType, queueVars, writerVars
  <1>Restart. ASSUME Restart PROVE WriterType'
    BY <1>Restart, EmptySeq DEF Restart, Fresh, queueVars, writerVars,
       tableVars, ramVars, callVars, countVars, WriterType, queueVars,
       writerVars
  <1>o. \/ UNCHANGED <<queueVars, writerVars>>
        \/ WriterTake \/ WriterTick \/ WriterBreak \/ WriterEmpty \/
           WriterCommit \/ WriterWrote \/ WriterCheckpoint \/ WriterCheckpointed
           \/ WriterFails \/ StopWriter \/ (\E c \in Callers : FlushCall(c)) \/
           (\E c \in Callers : CheckpointCall(c)) \/ (\E f \in Files, body \in
           Contents : PointWrite(f, body)) \/ (\E f \in Files, body \in Contents
           : BulkWrite(f, body)) \/ (\E f \in Files : PointDelete(f)) \/ (\E f
           \in Files : BulkDelete(f)) \/ Restart
    BY DEF Next, Writer, Returns, Call, Publish, Goto, UpdaterReturns, Joined,
       FlushCheck, CheckpointCheck, Emptied, UpdateBegin, Begin, UpdateFlush,
       SaveBegin, Close, queueVars, writerVars, tableVars, ramVars, callVars,
       countVars
  <1> QED  BY <1>u, <1>o, <1>WriterTake, <1>WriterTick, <1>WriterBreak,
           <1>WriterEmpty, <1>WriterCommit, <1>WriterWrote, <1>WriterCheckpoint,
           <1>WriterCheckpointed, <1>WriterFails, <1>StopWriter, <1>FlushCall,
           <1>CheckpointCall, <1>PointWrite, <1>BulkWrite, <1>PointDelete,
           <1>BulkDelete, <1>Restart

\* The tables and the postings in RAM keep their types.
LEMMA TableTypeStep ==
    ASSUME WriterType, TableType, CallType, CallerOk, Next
    PROVE  TableType'
  <1>u. ASSUME UNCHANGED <<tableVars, ramVars>> PROVE TableType'
    BY <1>u DEF TableType, tableVars, ramVars
  <1>WriterCommit. ASSUME WriterCommit PROVE TableType'
    <2>1. batch \in Seq(Op)
      BY DEF WriterType
    <2>2. \A f \in Files : /\ Coalesced(batch, f).k = "write" =>
                                 Coalesced(batch, f).body \subseteq Words
                           /\ Coalesced(batch, f).new \subseteq Words
      BY <2>1, CoalescedType
    <2>3. NewWords(batch) \subseteq Words
      BY <2>2 DEF NewWords, OpsOf
    <2>4. docs' \in [Files -> {"none", "live", "deleted"}]
      BY <1>WriterCommit DEF WriterCommit, TableType, DocRow
    <2>5. postings' \in [Files -> SUBSET Words]
      BY <1>WriterCommit, <2>2 DEF WriterCommit, TableType
    <2>6. rewritten' \in BOOLEAN
      BY <1>WriterCommit DEF WriterCommit, TableType, Rewritten
    <2> QED  BY <1>WriterCommit, <2>3, <2>4, <2>5, <2>6
             DEF WriterCommit, TableType, ramVars
  <1>Publish. ASSUME Publish PROVE TableType'
    BY <1>Publish, Records DEF Publish, Goto, queueVars, writerVars, tableVars,
       ramVars, callVars, countVars, TableType, tableVars, ramVars, CallType,
       CallerOk, JobType
  <1>PointWrite. ASSUME NEW f \in Files, NEW body \in Contents, PointWrite(f,
     body) PROVE TableType'
    BY <1>PointWrite, Records DEF PointWrite, Goto, Enqueue, Refused, queueVars,
       writerVars, tableVars, ramVars, callVars, countVars, TableType,
       tableVars, ramVars
  <1>BulkWrite. ASSUME NEW f \in Files, NEW body \in Contents, BulkWrite(f,
     body) PROVE TableType'
    BY <1>BulkWrite, Records DEF BulkWrite, Enqueue, Refused, queueVars,
       writerVars, tableVars, ramVars, callVars, countVars, TableType,
       tableVars, ramVars
  <1>Emptied. ASSUME NEW f \in Files, Emptied(f) PROVE TableType'
    BY <1>Emptied DEF Emptied, queueVars, writerVars, tableVars, ramVars,
       callVars, countVars, TableType, tableVars, ramVars
  <1>Restart. ASSUME Restart PROVE TableType'
    BY <1>Restart DEF Restart, Fresh, queueVars, writerVars, tableVars, ramVars,
       callVars, countVars, TableType, tableVars, ramVars
  <1>o. \/ UNCHANGED <<tableVars, ramVars>>
        \/ WriterCommit \/ Publish \/ (\E f \in Files, body \in Contents :
           PointWrite(f, body)) \/ (\E f \in Files, body \in Contents :
           BulkWrite(f, body)) \/ (\E f \in Files : Emptied(f)) \/ Restart
    BY DEF Next, Writer, Returns, Call, WriterTake, WriterTick, WriterBreak,
       WriterEmpty, Notified, WriterWrote, WriterCheckpoint, WriterCheckpointed,
       WriterFails, UpdaterReturns, Goto, StopWriter, Joined, FlushCall,
       FlushCheck, CheckpointCall, CheckpointCheck, PointDelete, Enqueue,
       Refused, BulkDelete, UpdateBegin, Begin, UpdateFlush, SaveBegin, Close,
       queueVars, writerVars, tableVars, ramVars, callVars, countVars
  <1> QED  BY <1>u, <1>o, <1>WriterCommit, <1>Publish, <1>PointWrite,
           <1>BulkWrite, <1>Emptied, <1>Restart

\* The callers keep their types.
LEMMA CallTypeStep ==
    ASSUME CallType, CountType, Next
    PROVE  CallType'
  <1>u. ASSUME UNCHANGED <<callVars>> PROVE CallType'
    BY <1>u DEF CallType, callVars
  <1>WriterEmpty. ASSUME WriterEmpty PROVE CallType'
    BY <1>WriterEmpty, Records DEF WriterEmpty, Notified, queueVars, writerVars,
       tableVars, ramVars, callVars, countVars, CallType, callVars, CountType,
       Callers, Asleep
  <1>WriterWrote. ASSUME WriterWrote PROVE CallType'
    BY <1>WriterWrote, Records DEF WriterWrote, Notified, queueVars, writerVars,
       tableVars, ramVars, callVars, countVars, CallType, callVars, CountType,
       Callers, Asleep
  <1>WriterCheckpointed. ASSUME WriterCheckpointed PROVE CallType'
    BY <1>WriterCheckpointed, Records DEF WriterCheckpointed, Notified,
       queueVars, writerVars, tableVars, ramVars, callVars, countVars, CallType,
       callVars, CountType, Callers, Asleep
  <1>WriterFails. ASSUME WriterFails PROVE CallType'
    BY <1>WriterFails, Records DEF WriterFails, Notified, queueVars, writerVars,
       tableVars, ramVars, callVars, countVars, CallType, callVars, CountType,
       Callers, Asleep
  <1>Publish. ASSUME Publish PROVE CallType'
    BY <1>Publish, Records DEF Publish, Goto, queueVars, writerVars, tableVars,
       ramVars, callVars, countVars, CallType, callVars, CountType, Callers,
       Asleep
  <1>UpdaterReturns. ASSUME UpdaterReturns PROVE CallType'
    BY <1>UpdaterReturns, Records DEF UpdaterReturns, Goto, queueVars,
       writerVars, tableVars, ramVars, callVars, countVars, CallType, callVars,
       CountType, Callers, Asleep
  <1>StopWriter. ASSUME StopWriter PROVE CallType'
    BY <1>StopWriter, Records DEF StopWriter, Goto, queueVars, writerVars,
       tableVars, ramVars, callVars, countVars, CallType, callVars, CountType,
       Callers, Asleep
  <1>Joined. ASSUME Joined PROVE CallType'
    BY <1>Joined, Records DEF Joined, Goto, queueVars, writerVars, tableVars,
       ramVars, callVars, countVars, CallType, callVars, CountType, Callers,
       Asleep
  <1>FlushCall. ASSUME NEW c \in Callers, FlushCall(c) PROVE CallType'
    BY <1>FlushCall, Records DEF FlushCall, Goto, queueVars, writerVars,
       tableVars, ramVars, callVars, countVars, CallType, callVars, CountType,
       Callers, Asleep
  <1>FlushCheck. ASSUME NEW c \in Callers, FlushCheck(c) PROVE CallType'
    BY <1>FlushCheck, Records DEF FlushCheck, Goto, queueVars, writerVars,
       tableVars, ramVars, callVars, countVars, CallType, callVars, CountType,
       Callers, Asleep
  <1>CheckpointCall. ASSUME NEW c \in Callers, CheckpointCall(c) PROVE CallType'
    BY <1>CheckpointCall, Records DEF CheckpointCall, Goto, queueVars,
       writerVars, tableVars, ramVars, callVars, countVars, CallType, callVars,
       CountType, Callers, Asleep
  <1>CheckpointCheck. ASSUME NEW c \in Callers, CheckpointCheck(c) PROVE
     CallType'
    BY <1>CheckpointCheck, Records DEF CheckpointCheck, Goto, queueVars,
       writerVars, tableVars, ramVars, callVars, countVars, CallType, callVars,
       CountType, Callers, Asleep
  <1>PointWrite. ASSUME NEW f \in Files, NEW body \in Contents, PointWrite(f,
     body) PROVE CallType'
    <2>1. accepted' \in Nat
      BY <1>PointWrite DEF PointWrite, Enqueue, Refused, CountType
    <2>2. pc' \in [Callers -> Asleep \cup {"idle", "flush", "flushCheck", "flushed",
                "request", "checkpointCheck", "saved", "threw", "join", "closed"}]
      BY <1>PointWrite, Records DEF PointWrite, Goto, CallType
    <2>3. job' \in [Callers -> JobType] /\ mark' \in [Callers -> Nat]
      BY <1>PointWrite, <2>1, Records DEF PointWrite, CallType
    <2> QED  BY <1>PointWrite, <2>2, <2>3 DEF PointWrite, CallType
  <1>PointDelete. ASSUME NEW f \in Files, PointDelete(f) PROVE CallType'
    BY <1>PointDelete, Records DEF PointDelete, Goto, Enqueue, Refused,
       queueVars, writerVars, tableVars, ramVars, callVars, countVars, CallType,
       callVars, CountType, Callers, Asleep
  <1>BulkWrite. ASSUME NEW f \in Files, NEW body \in Contents, BulkWrite(f,
     body) PROVE CallType'
    BY <1>BulkWrite, Records DEF BulkWrite, Enqueue, Refused, queueVars,
       writerVars, tableVars, ramVars, callVars, countVars, CallType, callVars,
       CountType, Callers, Asleep
  <1>BulkDelete. ASSUME NEW f \in Files, BulkDelete(f) PROVE CallType'
    BY <1>BulkDelete, Records DEF BulkDelete, Enqueue, queueVars, writerVars,
       tableVars, ramVars, callVars, countVars, CallType, callVars, CountType,
       Callers, Asleep
  <1>UpdateBegin. ASSUME UpdateBegin PROVE CallType'
    BY <1>UpdateBegin, Records DEF UpdateBegin, Begin, queueVars, writerVars,
       tableVars, ramVars, callVars, countVars, CallType, callVars, CountType,
       Callers, Asleep
  <1>UpdateFlush. ASSUME UpdateFlush PROVE CallType'
    BY <1>UpdateFlush, Records DEF UpdateFlush, Goto, queueVars, writerVars,
       tableVars, ramVars, callVars, countVars, CallType, callVars, CountType,
       Callers, Asleep
  <1>SaveBegin. ASSUME SaveBegin PROVE CallType'
    BY <1>SaveBegin, Records DEF SaveBegin, Begin, Goto, queueVars, writerVars,
       tableVars, ramVars, callVars, countVars, CallType, callVars, CountType,
       Callers, Asleep
  <1>Close. ASSUME Close PROVE CallType'
    BY <1>Close, Records DEF Close, Goto, queueVars, writerVars, tableVars,
       ramVars, callVars, countVars, CallType, callVars, CountType, Callers,
       Asleep
  <1>Restart. ASSUME Restart PROVE CallType'
    BY <1>Restart, Records DEF Restart, Fresh, queueVars, writerVars, tableVars,
       ramVars, callVars, countVars, CallType, callVars, CountType, Callers,
       Asleep
  <1>o. \/ UNCHANGED <<callVars>>
        \/ WriterEmpty \/ WriterWrote \/ WriterCheckpointed \/ WriterFails \/
           Publish \/ UpdaterReturns \/ StopWriter \/ Joined \/ (\E c \in
           Callers : FlushCall(c)) \/ (\E c \in Callers : FlushCheck(c)) \/ (\E
           c \in Callers : CheckpointCall(c)) \/ (\E c \in Callers :
           CheckpointCheck(c)) \/ (\E f \in Files, body \in Contents :
           PointWrite(f, body)) \/ (\E f \in Files : PointDelete(f)) \/ (\E f
           \in Files, body \in Contents : BulkWrite(f, body)) \/ (\E f \in Files
           : BulkDelete(f)) \/ UpdateBegin \/ UpdateFlush \/ SaveBegin \/ Close
           \/ Restart
    BY DEF Next, Writer, Returns, Call, WriterTake, WriterTick, WriterBreak,
       WriterCommit, WriterCheckpoint, Emptied, queueVars, writerVars,
       tableVars, ramVars, callVars, countVars
  <1> QED  BY <1>u, <1>o, <1>WriterEmpty, <1>WriterWrote, <1>WriterCheckpointed,
           <1>WriterFails, <1>Publish, <1>UpdaterReturns, <1>StopWriter,
           <1>Joined, <1>FlushCall, <1>FlushCheck, <1>CheckpointCall,
           <1>CheckpointCheck, <1>PointWrite, <1>PointDelete, <1>BulkWrite,
           <1>BulkDelete, <1>UpdateBegin, <1>UpdateFlush, <1>SaveBegin,
           <1>Close, <1>Restart

\* The counters keep their types.
LEMMA CountTypeStep ==
    ASSUME WriterType, CountType, Next
    PROVE  CountType'
  <1> USE MirrorAssumption
  <1>u. ASSUME UNCHANGED <<countVars>> PROVE CountType'
    BY <1>u DEF CountType, countVars
  <1>WriterCommit. ASSUME WriterCommit PROVE CountType'
    BY <1>WriterCommit DEF WriterCommit, queueVars, writerVars, tableVars,
       ramVars, callVars, countVars, CountType, countVars, WriterType
  <1>WriterCheckpoint. ASSUME WriterCheckpoint PROVE CountType'
    BY <1>WriterCheckpoint DEF WriterCheckpoint, queueVars, writerVars,
       tableVars, ramVars, callVars, countVars, CountType, countVars, WriterType
  <1>WriterFails. ASSUME WriterFails PROVE CountType'
    BY <1>WriterFails DEF WriterFails, Notified, queueVars, writerVars,
       tableVars, ramVars, callVars, countVars, CountType, countVars, WriterType
  <1>PointWrite. ASSUME NEW f \in Files, NEW body \in Contents, PointWrite(f,
     body) PROVE CountType'
    BY <1>PointWrite DEF PointWrite, Goto, Enqueue, Refused, queueVars,
       writerVars, tableVars, ramVars, callVars, countVars, CountType,
       countVars, WriterType
  <1>PointDelete. ASSUME NEW f \in Files, PointDelete(f) PROVE CountType'
    BY <1>PointDelete DEF PointDelete, Goto, Enqueue, Refused, queueVars,
       writerVars, tableVars, ramVars, callVars, countVars, CountType,
       countVars, WriterType
  <1>BulkWrite. ASSUME NEW f \in Files, NEW body \in Contents, BulkWrite(f,
     body) PROVE CountType'
    BY <1>BulkWrite DEF BulkWrite, Enqueue, Refused, queueVars, writerVars,
       tableVars, ramVars, callVars, countVars, CountType, countVars, WriterType
  <1>BulkDelete. ASSUME NEW f \in Files, BulkDelete(f) PROVE CountType'
    BY <1>BulkDelete DEF BulkDelete, Enqueue, queueVars, writerVars, tableVars,
       ramVars, callVars, countVars, CountType, countVars, WriterType
  <1>UpdateBegin. ASSUME UpdateBegin PROVE CountType'
    BY <1>UpdateBegin DEF UpdateBegin, Begin, queueVars, writerVars, tableVars,
       ramVars, callVars, countVars, CountType, countVars, WriterType
  <1>SaveBegin. ASSUME SaveBegin PROVE CountType'
    BY <1>SaveBegin DEF SaveBegin, Begin, Goto, queueVars, writerVars,
       tableVars, ramVars, callVars, countVars, CountType, countVars, WriterType
  <1>Restart. ASSUME Restart PROVE CountType'
    BY <1>Restart DEF Restart, Fresh, queueVars, writerVars, tableVars, ramVars,
       callVars, countVars, CountType, countVars, WriterType
  <1>o. \/ UNCHANGED <<countVars>>
        \/ WriterCommit \/ WriterCheckpoint \/ WriterFails \/ (\E f \in Files,
           body \in Contents : PointWrite(f, body)) \/ (\E f \in Files :
           PointDelete(f)) \/ (\E f \in Files, body \in Contents : BulkWrite(f,
           body)) \/ (\E f \in Files : BulkDelete(f)) \/ UpdateBegin \/
           SaveBegin \/ Restart
    BY DEF Next, Writer, Returns, Call, WriterTake, WriterTick, WriterBreak,
       WriterEmpty, Notified, WriterWrote, WriterCheckpointed, Publish, Goto,
       UpdaterReturns, StopWriter, Joined, FlushCall, FlushCheck,
       CheckpointCall, CheckpointCheck, Emptied, UpdateFlush, Close, queueVars,
       writerVars, tableVars, ramVars, callVars, countVars
  <1> QED  BY <1>u, <1>o, <1>WriterCommit, <1>WriterCheckpoint, <1>WriterFails,
           <1>PointWrite, <1>PointDelete, <1>BulkWrite, <1>BulkDelete,
           <1>UpdateBegin, <1>SaveBegin, <1>Restart

-----------------------------------------------------------------------------
(* What flushPending and checkpoint promise.                               *)

\* One more operation in the queue, or a refusal.
LEMMA EnqueueCounts ==
    ASSUME Types, Counts, NEW op \in Op, Enqueue(op) \/ Refused,
           UNCHANGED <<writerError, wpc, batch, applied, synced>>,
           \A c \in Callers : mark'[c] = mark[c] \/ mark'[c] = accepted'
    PROVE  Counts'
  <1>1. /\ accepted \in Nat /\ applied \in Nat /\ synced \in Nat
        /\ \A c \in Callers : mark[c] \in Nat
        /\ queue \in Seq(Op) /\ Len(queue) \in Nat /\ batch \in Seq(Op)
    BY DEF Types, CountType, CallType, WriterType
  <1>2. Held' = Held /\ Len(Held) \in Nat
    BY <1>1, EmptySeq DEF Held
  <1>3. CASE Enqueue(op)
    <2>1. Len(queue') = Len(queue) + 1 /\ accepted' = accepted + 1 /\ ~writerError
      BY <1>1, <1>3, Appended DEF Enqueue
    <2>2. applied + Len(queue) + Len(Held) + 1 = applied' + Len(queue') + Len(Held')
      BY <1>1, <1>2, <2>1
    <2>3. \A c \in Callers : mark'[c] <= accepted'
      BY <1>1, <2>1 DEF Counts
    <2>4. /\ applied' <= accepted' /\ synced' <= applied' /\ ~writerError'
          /\ wpc' = "checkpointed" => synced' = applied'
      BY <1>1, <2>1 DEF Counts
    <2>5. accepted' = applied' + Len(queue') + Len(Held')
      BY <1>1, <2>1, <2>2 DEF Counts
    <2> QED  BY <2>3, <2>4, <2>5 DEF Counts
  <1>4. CASE Refused
    BY <1>1, <1>2, <1>4 DEF Refused, Counts
  <1> QED  BY <1>3, <1>4

\* Operations are counted where they are.
LEMMA CountsStep ==
    ASSUME Types, Counts, Next
    PROVE  Counts'
  <1>u. ASSUME UNCHANGED <<queue, writerError, wpc, batch, mark, accepted, applied, synced>> PROVE Counts'
    BY <1>u DEF Counts, Held
  <1>WriterTake. ASSUME WriterTake PROVE Counts'
    BY <1>WriterTake, EmptySeq, Records, Appended DEF WriterTake, queueVars,
       writerVars, tableVars, ramVars, callVars, countVars, Counts, Held, Types,
       WriterType, CallType, CountType, Callers
  <1>WriterTick. ASSUME WriterTick PROVE Counts'
    BY <1>WriterTick, EmptySeq, Records, Appended DEF WriterTick, queueVars,
       writerVars, tableVars, ramVars, callVars, countVars, Counts, Held, Types,
       WriterType, CallType, CountType, Callers
  <1>WriterBreak. ASSUME WriterBreak PROVE Counts'
    BY <1>WriterBreak, EmptySeq, Records, Appended DEF WriterBreak, queueVars,
       writerVars, tableVars, ramVars, callVars, countVars, Counts, Held, Types,
       WriterType, CallType, CountType, Callers
  <1>WriterEmpty. ASSUME WriterEmpty PROVE Counts'
    BY <1>WriterEmpty, EmptySeq, Records, Appended DEF WriterEmpty, Notified,
       queueVars, writerVars, tableVars, ramVars, callVars, countVars, Counts,
       Held, Types, WriterType, CallType, CountType, Callers
  <1>WriterCommit. ASSUME WriterCommit PROVE Counts'
    BY <1>WriterCommit, EmptySeq, Records, Appended DEF WriterCommit, queueVars,
       writerVars, tableVars, ramVars, callVars, countVars, Counts, Held, Types,
       WriterType, CallType, CountType, Callers
  <1>WriterWrote. ASSUME WriterWrote PROVE Counts'
    BY <1>WriterWrote, EmptySeq, Records, Appended DEF WriterWrote, Notified,
       queueVars, writerVars, tableVars, ramVars, callVars, countVars, Counts,
       Held, Types, WriterType, CallType, CountType, Callers
  <1>WriterCheckpoint. ASSUME WriterCheckpoint PROVE Counts'
    BY <1>WriterCheckpoint, EmptySeq, Records, Appended DEF WriterCheckpoint,
       queueVars, writerVars, tableVars, ramVars, callVars, countVars, Counts,
       Held, Types, WriterType, CallType, CountType, Callers
  <1>WriterCheckpointed. ASSUME WriterCheckpointed PROVE Counts'
    BY <1>WriterCheckpointed, EmptySeq, Records, Appended DEF
       WriterCheckpointed, Notified, queueVars, writerVars, tableVars, ramVars,
       callVars, countVars, Counts, Held, Types, WriterType, CallType,
       CountType, Callers
  <1>WriterFails. ASSUME WriterFails PROVE Counts'
    BY <1>WriterFails, EmptySeq, Records, Appended DEF WriterFails, Notified,
       queueVars, writerVars, tableVars, ramVars, callVars, countVars, Counts,
       Held, Types, WriterType, CallType, CountType, Callers
  <1>Publish. ASSUME Publish PROVE Counts'
    BY <1>Publish, EmptySeq, Records, Appended DEF Publish, Goto, queueVars,
       writerVars, tableVars, ramVars, callVars, countVars, Counts, Held, Types,
       WriterType, CallType, CountType, Callers
  <1>UpdaterReturns. ASSUME UpdaterReturns PROVE Counts'
    <2>1. \A c \in Callers : mark'[c] = mark[c] \/ mark'[c] = 0
      BY <1>UpdaterReturns DEF UpdaterReturns, Types, CallType
    <2>2. UNCHANGED <<queue, writerError, wpc, batch, accepted, applied, synced>>
      BY <1>UpdaterReturns DEF UpdaterReturns, queueVars, writerVars, countVars
    <2>3. \A c \in Callers : mark'[c] <= accepted'
      BY <2>1, <2>2 DEF Counts, Types, CountType
    <2> QED  BY <2>2, <2>3 DEF Counts, Held
  <1>PointWrite. ASSUME NEW f \in Files, NEW body \in Contents, PointWrite(f,
     body) PROVE Counts'
    <2>1. Enqueue(WriteOp(f, body, body \ wordIds)) \/ Refused
      BY <1>PointWrite DEF PointWrite
    <2>2. UNCHANGED <<writerError, wpc, batch, applied, synced>>
      BY <1>PointWrite DEF PointWrite, writerVars
    <2>3. \A c \in Callers : mark'[c] = mark[c] \/ mark'[c] = accepted'
      BY <1>PointWrite DEF PointWrite, Types, CallType
    <2> QED  BY <2>1, <2>2, <2>3, Records, EnqueueCounts
  <1>PointDelete. ASSUME NEW f \in Files, PointDelete(f) PROVE Counts'
    <2>1. Enqueue(DeleteOp(f)) \/ Refused
      BY <1>PointDelete DEF PointDelete
    <2>2. UNCHANGED <<writerError, wpc, batch, applied, synced>>
      BY <1>PointDelete DEF PointDelete, writerVars
    <2>3. \A c \in Callers : mark'[c] = mark[c] \/ mark'[c] = accepted'
      BY <1>PointDelete DEF PointDelete, Types, CallType
    <2> QED  BY <2>1, <2>2, <2>3, Records, EnqueueCounts
  <1>BulkWrite. ASSUME NEW f \in Files, NEW body \in Contents, BulkWrite(f,
     body) PROVE Counts'
    <2>1. Enqueue(WriteOp(f, body, body \ wordIds)) \/ Refused
      BY <1>BulkWrite DEF BulkWrite
    <2>2. UNCHANGED <<writerError, wpc, batch, applied, synced>>
      BY <1>BulkWrite DEF BulkWrite, writerVars
    <2>3. \A c \in Callers : mark'[c] = mark[c] \/ mark'[c] = accepted'
      BY <1>BulkWrite DEF BulkWrite, Types, CallType
    <2> QED  BY <2>1, <2>2, <2>3, Records, EnqueueCounts
  <1>BulkDelete. ASSUME NEW f \in Files, BulkDelete(f) PROVE Counts'
    <2>1. Enqueue(DeleteOp(f)) \/ Refused
      BY <1>BulkDelete DEF BulkDelete
    <2>2. UNCHANGED <<writerError, wpc, batch, applied, synced>>
      BY <1>BulkDelete DEF BulkDelete, writerVars
    <2>3. \A c \in Callers : mark'[c] = mark[c] \/ mark'[c] = accepted'
      BY <1>BulkDelete DEF BulkDelete, Types, CallType
    <2> QED  BY <2>1, <2>2, <2>3, Records, EnqueueCounts
  <1>UpdateFlush. ASSUME UpdateFlush PROVE Counts'
    BY <1>UpdateFlush, EmptySeq, Records, Appended DEF UpdateFlush, Goto,
       queueVars, writerVars, tableVars, ramVars, callVars, countVars, Counts,
       Held, Types, WriterType, CallType, CountType, Callers
  <1>SaveBegin. ASSUME SaveBegin PROVE Counts'
    BY <1>SaveBegin, EmptySeq, Records, Appended DEF SaveBegin, Begin, Goto,
       queueVars, writerVars, tableVars, ramVars, callVars, countVars, Counts,
       Held, Types, WriterType, CallType, CountType, Callers
  <1>Close. ASSUME Close PROVE Counts'
    BY <1>Close, EmptySeq, Records, Appended DEF Close, Goto, queueVars,
       writerVars, tableVars, ramVars, callVars, countVars, Counts, Held, Types,
       WriterType, CallType, CountType, Callers
  <1>Restart. ASSUME Restart PROVE Counts'
    BY <1>Restart, EmptySeq, Records, Appended DEF Restart, Fresh, queueVars,
       writerVars, tableVars, ramVars, callVars, countVars, Counts, Held, Types,
       WriterType, CallType, CountType, Callers
  <1>o. \/ UNCHANGED <<queue, writerError, wpc, batch, mark, accepted, applied,
           synced>>
        \/ WriterTake \/ WriterTick \/ WriterBreak \/ WriterEmpty \/
           WriterCommit \/ WriterWrote \/ WriterCheckpoint \/ WriterCheckpointed
           \/ WriterFails \/ Publish \/ UpdaterReturns \/ (\E f \in Files, body
           \in Contents : PointWrite(f, body)) \/ (\E f \in Files :
           PointDelete(f)) \/ (\E f \in Files, body \in Contents : BulkWrite(f,
           body)) \/ (\E f \in Files : BulkDelete(f)) \/ UpdateFlush \/
           SaveBegin \/ Close \/ Restart
    BY DEF Next, Writer, Returns, Call, StopWriter, Goto, Joined, FlushCall,
       FlushCheck, CheckpointCall, CheckpointCheck, Emptied, UpdateBegin, Begin,
       queueVars, writerVars, tableVars, ramVars, callVars, countVars
  <1> QED  BY <1>u, <1>o, <1>WriterTake, <1>WriterTick, <1>WriterBreak,
           <1>WriterEmpty, <1>WriterCommit, <1>WriterWrote, <1>WriterCheckpoint,
           <1>WriterCheckpointed, <1>WriterFails, <1>Publish, <1>UpdaterReturns,
           <1>PointWrite, <1>PointDelete, <1>BulkWrite, <1>BulkDelete,
           <1>UpdateFlush, <1>SaveBegin, <1>Close, <1>Restart

Promised == FlushDurable /\ CheckpointCovers /\ CheckpointOk

\* An empty queue and an idle writer that has not failed: all is committed.
LEMMA FlushedAll ==
    ASSUME Types, Counts, FlushDone, ~writerError, NEW c \in Callers
    PROVE  mark[c] <= applied
  BY EmptySeq DEF Types, WriterType, CountType, CallType, Counts, Held, FlushDone

\* Every step keeps the promises.
LEMMA PromisedStep ==
    ASSUME Types, Counts, Promised, Next
    PROVE  Promised'
  <1>u. ASSUME UNCHANGED <<pc, mark, applied, synced, writerError, requestCheckpoint>> PROVE Promised'
    BY <1>u DEF Promised, FlushDurable, CheckpointCovers, CheckpointOk
  <1>WriterEmpty. ASSUME WriterEmpty PROVE Promised'
    BY <1>WriterEmpty DEF WriterEmpty, Notified, queueVars, writerVars,
       tableVars, ramVars, callVars, countVars, Promised, FlushDurable,
       CheckpointCovers, CheckpointOk, Types, WriterType, CallType, CountType,
       Callers, Counts, Held
  <1>WriterCommit. ASSUME WriterCommit PROVE Promised'
    BY <1>WriterCommit DEF WriterCommit, queueVars, writerVars, tableVars,
       ramVars, callVars, countVars, Promised, FlushDurable, CheckpointCovers,
       CheckpointOk, Types, WriterType, CallType, CountType, Callers, Counts,
       Held
  <1>WriterWrote. ASSUME WriterWrote PROVE Promised'
    BY <1>WriterWrote DEF WriterWrote, Notified, queueVars, writerVars,
       tableVars, ramVars, callVars, countVars, Promised, FlushDurable,
       CheckpointCovers, CheckpointOk, Types, WriterType, CallType, CountType,
       Callers, Counts, Held
  <1>WriterCheckpoint. ASSUME WriterCheckpoint PROVE Promised'
    BY <1>WriterCheckpoint DEF WriterCheckpoint, queueVars, writerVars,
       tableVars, ramVars, callVars, countVars, Promised, FlushDurable,
       CheckpointCovers, CheckpointOk, Types, WriterType, CallType, CountType,
       Callers, Counts, Held
  <1>WriterCheckpointed. ASSUME WriterCheckpointed PROVE Promised'
    BY <1>WriterCheckpointed DEF WriterCheckpointed, Notified, queueVars,
       writerVars, tableVars, ramVars, callVars, countVars, Promised,
       FlushDurable, CheckpointCovers, CheckpointOk, Types, WriterType,
       CallType, CountType, Callers, Counts, Held
  <1>WriterFails. ASSUME WriterFails PROVE Promised'
    BY <1>WriterFails DEF WriterFails, Notified, queueVars, writerVars,
       tableVars, ramVars, callVars, countVars, Promised, FlushDurable,
       CheckpointCovers, CheckpointOk, Types, WriterType, CallType, CountType,
       Callers, Counts, Held
  <1>Publish. ASSUME Publish PROVE Promised'
    BY <1>Publish DEF Publish, Goto, queueVars, writerVars, tableVars, ramVars,
       callVars, countVars, Promised, FlushDurable, CheckpointCovers,
       CheckpointOk, Types, WriterType, CallType, CountType, Callers, Counts,
       Held
  <1>UpdaterReturns. ASSUME UpdaterReturns PROVE Promised'
    BY <1>UpdaterReturns DEF UpdaterReturns, Goto, queueVars, writerVars,
       tableVars, ramVars, callVars, countVars, Promised, FlushDurable,
       CheckpointCovers, CheckpointOk, Types, WriterType, CallType, CountType,
       Callers, Counts, Held
  <1>StopWriter. ASSUME StopWriter PROVE Promised'
    BY <1>StopWriter DEF StopWriter, Goto, queueVars, writerVars, tableVars,
       ramVars, callVars, countVars, Promised, FlushDurable, CheckpointCovers,
       CheckpointOk, Types, WriterType, CallType, CountType, Callers, Counts,
       Held
  <1>Joined. ASSUME Joined PROVE Promised'
    BY <1>Joined DEF Joined, Goto, queueVars, writerVars, tableVars, ramVars,
       callVars, countVars, Promised, FlushDurable, CheckpointCovers,
       CheckpointOk, Types, WriterType, CallType, CountType, Callers, Counts,
       Held
  <1>FlushCall. ASSUME NEW c \in Callers, FlushCall(c) PROVE Promised'
    <2>1. pc'[c] = "flushed" => mark[c] <= applied
      BY <1>FlushCall, FlushedAll DEF FlushCall, Goto, Types, CallType
    <2>2. \A d \in Callers \ {c} : pc'[d] = pc[d]
      BY <1>FlushCall DEF FlushCall, Goto, Types, CallType
    <2>3. pc'[c] \in {"threw", "flushed", "flushWait"}
      BY <1>FlushCall DEF FlushCall, Goto, Types, CallType
    <2>4. UNCHANGED <<mark, applied, synced, writerError, requestCheckpoint>>
      BY <1>FlushCall DEF FlushCall, countVars, queueVars
    <2> QED  BY <2>1, <2>2, <2>3, <2>4
             DEF Promised, FlushDurable, CheckpointCovers, CheckpointOk
  <1>FlushCheck. ASSUME NEW c \in Callers, FlushCheck(c) PROVE Promised'
    <2>1. pc'[c] = "flushed" => mark[c] <= applied
      BY <1>FlushCheck, FlushedAll DEF FlushCheck, Goto, Types, CallType
    <2>2. \A d \in Callers \ {c} : pc'[d] = pc[d]
      BY <1>FlushCheck DEF FlushCheck, Goto, Types, CallType
    <2>3. pc'[c] \in {"threw", "flushed", "flushWait"}
      BY <1>FlushCheck DEF FlushCheck, Goto, Types, CallType
    <2>4. UNCHANGED <<mark, applied, synced, writerError, requestCheckpoint>>
      BY <1>FlushCheck DEF FlushCheck, countVars, queueVars
    <2> QED  BY <2>1, <2>2, <2>3, <2>4
             DEF Promised, FlushDurable, CheckpointCovers, CheckpointOk
  <1>CheckpointCall. ASSUME NEW c \in Callers, CheckpointCall(c) PROVE Promised'
    BY <1>CheckpointCall DEF CheckpointCall, Goto, queueVars, writerVars,
       tableVars, ramVars, callVars, countVars, Promised, FlushDurable,
       CheckpointCovers, CheckpointOk, Types, WriterType, CallType, CountType,
       Callers, Counts, Held
  <1>CheckpointCheck. ASSUME NEW c \in Callers, CheckpointCheck(c) PROVE
     Promised'
    BY <1>CheckpointCheck DEF CheckpointCheck, Goto, queueVars, writerVars,
       tableVars, ramVars, callVars, countVars, Promised, FlushDurable,
       CheckpointCovers, CheckpointOk, Types, WriterType, CallType, CountType,
       Callers, Counts, Held
  <1>PointWrite. ASSUME NEW f \in Files, NEW body \in Contents, PointWrite(f,
     body) PROVE Promised'
    BY <1>PointWrite DEF PointWrite, Goto, Enqueue, Refused, queueVars,
       writerVars, tableVars, ramVars, callVars, countVars, Promised,
       FlushDurable, CheckpointCovers, CheckpointOk, Types, WriterType,
       CallType, CountType, Callers, Counts, Held
  <1>PointDelete. ASSUME NEW f \in Files, PointDelete(f) PROVE Promised'
    BY <1>PointDelete DEF PointDelete, Goto, Enqueue, Refused, queueVars,
       writerVars, tableVars, ramVars, callVars, countVars, Promised,
       FlushDurable, CheckpointCovers, CheckpointOk, Types, WriterType,
       CallType, CountType, Callers, Counts, Held
  <1>UpdateFlush. ASSUME UpdateFlush PROVE Promised'
    BY <1>UpdateFlush DEF UpdateFlush, Goto, queueVars, writerVars, tableVars,
       ramVars, callVars, countVars, Promised, FlushDurable, CheckpointCovers,
       CheckpointOk, Types, WriterType, CallType, CountType, Callers, Counts,
       Held
  <1>SaveBegin. ASSUME SaveBegin PROVE Promised'
    BY <1>SaveBegin DEF SaveBegin, Begin, Goto, queueVars, writerVars,
       tableVars, ramVars, callVars, countVars, Promised, FlushDurable,
       CheckpointCovers, CheckpointOk, Types, WriterType, CallType, CountType,
       Callers, Counts, Held
  <1>Close. ASSUME Close PROVE Promised'
    BY <1>Close DEF Close, Goto, queueVars, writerVars, tableVars, ramVars,
       callVars, countVars, Promised, FlushDurable, CheckpointCovers,
       CheckpointOk, Types, WriterType, CallType, CountType, Callers, Counts,
       Held
  <1>Restart. ASSUME Restart PROVE Promised'
    BY <1>Restart DEF Restart, Fresh, queueVars, writerVars, tableVars, ramVars,
       callVars, countVars, Promised, FlushDurable, CheckpointCovers,
       CheckpointOk, Types, WriterType, CallType, CountType, Callers, Counts,
       Held
  <1>o. \/ UNCHANGED <<pc, mark, applied, synced, writerError,
           requestCheckpoint>>
        \/ WriterEmpty \/ WriterCommit \/ WriterWrote \/ WriterCheckpoint \/
           WriterCheckpointed \/ WriterFails \/ Publish \/ UpdaterReturns \/
           StopWriter \/ Joined \/ (\E c \in Callers : FlushCall(c)) \/ (\E c
           \in Callers : FlushCheck(c)) \/ (\E c \in Callers :
           CheckpointCall(c)) \/ (\E c \in Callers : CheckpointCheck(c)) \/ (\E
           f \in Files, body \in Contents : PointWrite(f, body)) \/ (\E f \in
           Files : PointDelete(f)) \/ UpdateFlush \/ SaveBegin \/ Close \/
           Restart
    BY DEF Next, Writer, Returns, Call, WriterTake, WriterTick, WriterBreak,
       BulkWrite, Enqueue, Refused, Emptied, BulkDelete, UpdateBegin, Begin,
       queueVars, writerVars, tableVars, ramVars, callVars, countVars
  <1> QED  BY <1>u, <1>o, <1>WriterEmpty, <1>WriterCommit, <1>WriterWrote,
           <1>WriterCheckpoint, <1>WriterCheckpointed, <1>WriterFails,
           <1>Publish, <1>UpdaterReturns, <1>StopWriter, <1>Joined,
           <1>FlushCall, <1>FlushCheck, <1>CheckpointCall, <1>CheckpointCheck,
           <1>PointWrite, <1>PointDelete, <1>UpdateFlush, <1>SaveBegin,
           <1>Close, <1>Restart

-----------------------------------------------------------------------------
(* What is in the tables.                                                  *)

\* The strand's labels and jobs fit.
LEMMA CallerStep ==
    ASSUME Types, CallerOk, Next
    PROVE  CallerOk'
  <1>u. ASSUME UNCHANGED <<pc, job>> PROVE CallerOk'
    BY <1>u DEF CallerOk
  <1>WriterEmpty. ASSUME WriterEmpty PROVE CallerOk'
    BY <1>WriterEmpty, Records DEF WriterEmpty, Notified, queueVars, writerVars,
       tableVars, ramVars, callVars, countVars, CallerOk, Types, CallType,
       Callers, NoJob
  <1>WriterWrote. ASSUME WriterWrote PROVE CallerOk'
    BY <1>WriterWrote, Records DEF WriterWrote, Notified, queueVars, writerVars,
       tableVars, ramVars, callVars, countVars, CallerOk, Types, CallType,
       Callers, NoJob
  <1>WriterCheckpointed. ASSUME WriterCheckpointed PROVE CallerOk'
    BY <1>WriterCheckpointed, Records DEF WriterCheckpointed, Notified,
       queueVars, writerVars, tableVars, ramVars, callVars, countVars, CallerOk,
       Types, CallType, Callers, NoJob
  <1>WriterFails. ASSUME WriterFails PROVE CallerOk'
    BY <1>WriterFails, Records DEF WriterFails, Notified, queueVars, writerVars,
       tableVars, ramVars, callVars, countVars, CallerOk, Types, CallType,
       Callers, NoJob
  <1>Publish. ASSUME Publish PROVE CallerOk'
    BY <1>Publish, Records DEF Publish, Goto, queueVars, writerVars, tableVars,
       ramVars, callVars, countVars, CallerOk, Types, CallType, Callers, NoJob
  <1>UpdaterReturns. ASSUME UpdaterReturns PROVE CallerOk'
    BY <1>UpdaterReturns, Records DEF UpdaterReturns, Goto, queueVars,
       writerVars, tableVars, ramVars, callVars, countVars, CallerOk, Types,
       CallType, Callers, NoJob
  <1>StopWriter. ASSUME StopWriter PROVE CallerOk'
    BY <1>StopWriter, Records DEF StopWriter, Goto, queueVars, writerVars,
       tableVars, ramVars, callVars, countVars, CallerOk, Types, CallType,
       Callers, NoJob
  <1>Joined. ASSUME Joined PROVE CallerOk'
    BY <1>Joined, Records DEF Joined, Goto, queueVars, writerVars, tableVars,
       ramVars, callVars, countVars, CallerOk, Types, CallType, Callers, NoJob
  <1>FlushCall. ASSUME NEW c \in Callers, FlushCall(c) PROVE CallerOk'
    BY <1>FlushCall, Records DEF FlushCall, Goto, queueVars, writerVars,
       tableVars, ramVars, callVars, countVars, CallerOk, Types, CallType,
       Callers, NoJob
  <1>FlushCheck. ASSUME NEW c \in Callers, FlushCheck(c) PROVE CallerOk'
    BY <1>FlushCheck, Records DEF FlushCheck, Goto, queueVars, writerVars,
       tableVars, ramVars, callVars, countVars, CallerOk, Types, CallType,
       Callers, NoJob
  <1>CheckpointCall. ASSUME NEW c \in Callers, CheckpointCall(c) PROVE CallerOk'
    BY <1>CheckpointCall, Records DEF CheckpointCall, Goto, queueVars,
       writerVars, tableVars, ramVars, callVars, countVars, CallerOk, Types,
       CallType, Callers, NoJob
  <1>CheckpointCheck. ASSUME NEW c \in Callers, CheckpointCheck(c) PROVE
     CallerOk'
    BY <1>CheckpointCheck, Records DEF CheckpointCheck, Goto, queueVars,
       writerVars, tableVars, ramVars, callVars, countVars, CallerOk, Types,
       CallType, Callers, NoJob
  <1>PointWrite. ASSUME NEW f \in Files, NEW body \in Contents, PointWrite(f,
     body) PROVE CallerOk'
    BY <1>PointWrite, Records DEF PointWrite, Goto, Enqueue, Refused, queueVars,
       writerVars, tableVars, ramVars, callVars, countVars, CallerOk, Types,
       CallType, Callers, NoJob
  <1>PointDelete. ASSUME NEW f \in Files, PointDelete(f) PROVE CallerOk'
    BY <1>PointDelete, Records DEF PointDelete, Goto, Enqueue, Refused,
       queueVars, writerVars, tableVars, ramVars, callVars, countVars, CallerOk,
       Types, CallType, Callers, NoJob
  <1>UpdateBegin. ASSUME UpdateBegin PROVE CallerOk'
    BY <1>UpdateBegin, Records DEF UpdateBegin, Begin, queueVars, writerVars,
       tableVars, ramVars, callVars, countVars, CallerOk, Types, CallType,
       Callers, NoJob
  <1>UpdateFlush. ASSUME UpdateFlush PROVE CallerOk'
    BY <1>UpdateFlush, Records DEF UpdateFlush, Goto, queueVars, writerVars,
       tableVars, ramVars, callVars, countVars, CallerOk, Types, CallType,
       Callers, NoJob
  <1>SaveBegin. ASSUME SaveBegin PROVE CallerOk'
    BY <1>SaveBegin, Records DEF SaveBegin, Begin, Goto, queueVars, writerVars,
       tableVars, ramVars, callVars, countVars, CallerOk, Types, CallType,
       Callers, NoJob
  <1>Close. ASSUME Close PROVE CallerOk'
    BY <1>Close, Records DEF Close, Goto, queueVars, writerVars, tableVars,
       ramVars, callVars, countVars, CallerOk, Types, CallType, Callers, NoJob
  <1>Restart. ASSUME Restart PROVE CallerOk'
    BY <1>Restart, Records DEF Restart, Fresh, queueVars, writerVars, tableVars,
       ramVars, callVars, countVars, CallerOk, Types, CallType, Callers, NoJob
  <1>o. \/ UNCHANGED <<pc, job>>
        \/ WriterEmpty \/ WriterWrote \/ WriterCheckpointed \/ WriterFails \/
           Publish \/ UpdaterReturns \/ StopWriter \/ Joined \/ (\E c \in
           Callers : FlushCall(c)) \/ (\E c \in Callers : FlushCheck(c)) \/ (\E
           c \in Callers : CheckpointCall(c)) \/ (\E c \in Callers :
           CheckpointCheck(c)) \/ (\E f \in Files, body \in Contents :
           PointWrite(f, body)) \/ (\E f \in Files : PointDelete(f)) \/
           UpdateBegin \/ UpdateFlush \/ SaveBegin \/ Close \/ Restart
    BY DEF Next, Writer, Returns, Call, WriterTake, WriterTick, WriterBreak,
       WriterCommit, WriterCheckpoint, BulkWrite, Enqueue, Refused, Emptied,
       BulkDelete, queueVars, writerVars, tableVars, ramVars, callVars,
       countVars
  <1> QED  BY <1>u, <1>o, <1>WriterEmpty, <1>WriterWrote, <1>WriterCheckpointed,
           <1>WriterFails, <1>Publish, <1>UpdaterReturns, <1>StopWriter,
           <1>Joined, <1>FlushCall, <1>FlushCheck, <1>CheckpointCall,
           <1>CheckpointCheck, <1>PointWrite, <1>PointDelete, <1>UpdateBegin,
           <1>UpdateFlush, <1>SaveBegin, <1>Close, <1>Restart

\* A posting has its document's row.
LEMMA RowsStep ==
    ASSUME Types, RowsOk, Next
    PROVE  RowsOk'
  <1>u. ASSUME UNCHANGED <<docs, postings>> PROVE RowsOk'
    BY <1>u DEF RowsOk
  <1>WriterCommit. ASSUME WriterCommit PROVE RowsOk'
    <2>1. batch \in Seq(Op) /\ docs \in [Files -> {"none", "live", "deleted"}]
      BY DEF Types, WriterType, TableType
    <2>2. ASSUME NEW f \in Files, postings'[f] # {} PROVE docs'[f] # "none"
      <3> DEFINE o == Coalesced(batch, f)
      <3>1. /\ docs'[f] = DocRow(o, docs[f])
            /\ postings'[f] = IF o.k = "write" THEN o.body ELSE postings[f]
        BY <1>WriterCommit DEF WriterCommit
      <3>2. o.k = "write" => o.f = f
        BY <2>1, CoalescedType
      <3> HIDE DEF o
      <3> QED  BY <2>1, <2>2, <3>1, <3>2, MirrorAssumption DEF DocRow, RowsOk
    <2> QED  BY <2>2 DEF RowsOk
  <1>o. \/ UNCHANGED <<docs, postings>>
        \/ WriterCommit
    BY DEF Next, Writer, Returns, Call, WriterTake, WriterTick, WriterBreak,
       WriterEmpty, Notified, WriterWrote, WriterCheckpoint, WriterCheckpointed,
       WriterFails, Publish, Goto, UpdaterReturns, StopWriter, Joined,
       FlushCall, FlushCheck, CheckpointCall, CheckpointCheck, PointWrite,
       Enqueue, Refused, BulkWrite, PointDelete, Emptied, BulkDelete,
       UpdateBegin, Begin, UpdateFlush, SaveBegin, Close, Restart, Fresh,
       queueVars, writerVars, tableVars, ramVars, callVars, countVars
  <1> QED  BY <1>u, <1>o, <1>WriterCommit

\* One more operation, with the words that had no number before.
LEMMA EnqueueWords ==
    ASSUME Types, WordsOk, NEW op \in Op, Enqueue(op) \/ Refused,
           UNCHANGED <<rewritten, postings, words, writerError, Held>>,
           wordIds' = wordIds \cup op.body,
           op.k = "write" => op.new = op.body \ wordIds,
           op.k # "write" => op.body = {}
    PROVE  WordsOk'
  <1>1. CASE Refused
    BY <1>1 DEF Refused, WordsOk
  <1>2. CASE Enqueue(op)
    <2>1. queue \in Seq(Op)
      BY DEF Types, WriterType
    <2>2. /\ queue' = Append(queue, op) /\ Carried(queue) \subseteq Carried(queue')
          /\ op.k = "write" => op.new \subseteq Carried(queue')
          /\ Bodies(queue') \subseteq Bodies(queue) \cup op.body
      BY <1>2, <2>1, AppendCarried DEF Enqueue
    <2>3. Carried(Held') = Carried(Held) /\ Bodies(Held') = Bodies(Held)
      OBVIOUS
    <2>4. op.body \subseteq wordIds \cup Carried(queue')
      BY <2>2
    <2> QED  BY <2>2, <2>3, <2>4 DEF WordsOk
  <1> QED  BY <1>1, <1>2

\* Nothing comes with no operations.
LEMMA EmptyCarried == Carried(<<>>) = {} /\ Bodies(<<>>) = {}
  BY DEF Carried, Bodies

\* A posting has its word's row.
LEMMA WordsStep ==
    ASSUME Types, Counts, WordsOk, Next
    PROVE  WordsOk'
  <1>u. ASSUME UNCHANGED <<rewritten, postings, words, writerError, wordIds, queue, Held>> PROVE WordsOk'
    BY <1>u DEF WordsOk
  <1>WriterTake. ASSUME WriterTake PROVE WordsOk'
    BY <1>WriterTake, EmptyCarried DEF WriterTake, queueVars, writerVars,
       tableVars, ramVars, callVars, countVars, WordsOk, Held
  <1>WriterFails. ASSUME WriterFails PROVE WordsOk'
    BY <1>WriterFails, EmptyCarried DEF WriterFails, Notified, queueVars,
       writerVars, tableVars, ramVars, callVars, countVars, WordsOk, Held
  <1>Restart. ASSUME Restart PROVE WordsOk'
    BY <1>Restart, EmptyCarried DEF Restart, Fresh, queueVars, writerVars,
       tableVars, ramVars, callVars, countVars, WordsOk, Held
  <1>WriterCommit. ASSUME WriterCommit PROVE WordsOk'
    <2>1. batch \in Seq(Op) /\ Held = batch /\ Held' = <<>> /\ ~writerError
      BY <1>WriterCommit DEF WriterCommit, Types, WriterType, Held, Counts, queueVars
    <2>2. UNCHANGED <<queue, writerError, wordIds>> /\ words' = words \cup NewWords(batch)
      BY <1>WriterCommit DEF WriterCommit, queueVars, ramVars
    <2>3. SUFFICES ASSUME ~rewritten' PROVE WordsOk'
      BY DEF WordsOk
    <2>4. ~rewritten /\ ~Rewritten(batch)
      BY <1>WriterCommit, <2>3 DEF WriterCommit, Types, TableType
    <2>5. Carried(batch) \subseteq words'
      BY <2>1, <2>2, <2>4, NothingDropped
    <2>6. Bodies(batch) \subseteq words'
      BY <2>1, <2>2, <2>4, <2>5 DEF WordsOk
    <2>7. ASSUME NEW f \in Files PROVE postings'[f] \subseteq words'
      <3>1. CASE OnFile(batch, "write", f) = {}
        <4>1. postings'[f] = postings[f]
          BY <1>WriterCommit, <3>1, CoalescedOther DEF WriterCommit
        <4> QED  BY <2>2, <2>4, <4>1 DEF WordsOk
      <3>2. CASE OnFile(batch, "write", f) # {}
        <4>1. PICK i \in OnFile(batch, "write", f) :
                 \A j \in OnFile(batch, "write", f) : j <= i
          BY <2>1, <3>2, LastWrite
        <4>2. postings'[f] = batch[i].body
          BY <1>WriterCommit, <2>1, <4>1, CoalescedWrite DEF WriterCommit
        <4>3. batch[i].body \subseteq Bodies(batch)
          BY DEF Bodies, OnFile
        <4> QED  BY <2>6, <4>2, <4>3
      <3> QED  BY <3>1, <3>2
    <2>8. Carried(Held') = {} /\ Bodies(Held') = {}
      BY <2>1, EmptyCarried
    <2> QED  BY <2>1, <2>2, <2>4, <2>5, <2>7, <2>8 DEF WordsOk
  <1>PointWrite. ASSUME NEW f \in Files, NEW body \in Contents, PointWrite(f,
     body) PROVE WordsOk'
    <2>1. Enqueue(WriteOp(f, body, body \ wordIds)) \/ Refused
      BY <1>PointWrite DEF PointWrite
    <2>2. /\ UNCHANGED <<rewritten, postings, words, writerError, Held>>
          /\ wordIds' = wordIds \cup body
      BY <1>PointWrite DEF PointWrite, writerVars, tableVars, ramVars, Held
    <2> QED  BY <2>1, <2>2, Records, EnqueueWords DEF WriteOp, DeleteOp
  <1>BulkWrite. ASSUME NEW f \in Files, NEW body \in Contents, BulkWrite(f,
     body) PROVE WordsOk'
    <2>1. Enqueue(WriteOp(f, body, body \ wordIds)) \/ Refused
      BY <1>BulkWrite DEF BulkWrite
    <2>2. /\ UNCHANGED <<rewritten, postings, words, writerError, Held>>
          /\ wordIds' = wordIds \cup body
      BY <1>BulkWrite DEF BulkWrite, writerVars, tableVars, ramVars, Held
    <2> QED  BY <2>1, <2>2, Records, EnqueueWords DEF WriteOp, DeleteOp
  <1>PointDelete. ASSUME NEW f \in Files, PointDelete(f) PROVE WordsOk'
    <2>1. Enqueue(DeleteOp(f)) \/ Refused
      BY <1>PointDelete DEF PointDelete
    <2>2. /\ UNCHANGED <<rewritten, postings, words, writerError, Held>>
          /\ wordIds' = wordIds
      BY <1>PointDelete DEF PointDelete, writerVars, tableVars, ramVars, Held
    <2> QED  BY <2>1, <2>2, Records, EnqueueWords DEF WriteOp, DeleteOp
  <1>BulkDelete. ASSUME NEW f \in Files, BulkDelete(f) PROVE WordsOk'
    <2>1. Enqueue(DeleteOp(f)) \/ Refused
      BY <1>BulkDelete DEF BulkDelete
    <2>2. /\ UNCHANGED <<rewritten, postings, words, writerError, Held>>
          /\ wordIds' = wordIds
      BY <1>BulkDelete DEF BulkDelete, writerVars, tableVars, ramVars, Held
    <2> QED  BY <2>1, <2>2, Records, EnqueueWords DEF WriteOp, DeleteOp
  <1>o. \/ UNCHANGED <<rewritten, postings, words, writerError, wordIds, queue,
           Held>>
        \/ WriterTake \/ WriterFails \/ Restart \/ WriterCommit \/ (\E f \in
           Files, body \in Contents : PointWrite(f, body)) \/ (\E f \in Files,
           body \in Contents : BulkWrite(f, body)) \/ (\E f \in Files :
           PointDelete(f)) \/ (\E f \in Files : BulkDelete(f))
    BY DEF Held, Next, Writer, Returns, Call, WriterTick, WriterBreak, WriterEmpty,
       Notified, WriterWrote, WriterCheckpoint, WriterCheckpointed, Publish,
       Goto, UpdaterReturns, StopWriter, Joined, FlushCall, FlushCheck,
       CheckpointCall, CheckpointCheck, Emptied, UpdateBegin, Begin,
       UpdateFlush, SaveBegin, Close, queueVars, writerVars, tableVars, ramVars,
       callVars, countVars
  <1> QED  BY <1>u, <1>o, <1>WriterTake, <1>WriterFails, <1>Restart,
           <1>WriterCommit, <1>PointWrite, <1>BulkWrite, <1>PointDelete,
           <1>BulkDelete

-----------------------------------------------------------------------------
(* What is in RAM.                                                         *)

Flushing == pc["strand"] \in {"flush", "flushWait", "flushCheck", "flushed"}

\* A write that is queued last decides; other operations change nothing.
LEMMA BecomesAppend ==
    ASSUME Types, NEW op \in Op, queue' = Append(queue, op), UNCHANGED <<Held, postings>>
    PROVE  /\ op.k = "write" => Becomes(op.f, op.body)'
           /\ \A f \in Files : \A b : Becomes(f, b) /\ ~(op.k = "write" /\ op.f = f)
                 => Becomes(f, b)'
  <1>1. queue \in Seq(Op) /\ Len(queue) \in Nat
    BY DEF Types, WriterType
  <1>2. \A f : OnFile(queue', "write", f) =
                 OnFile(queue, "write", f) \cup
                 (IF op.k = "write" /\ op.f = f THEN {Len(queue) + 1} ELSE {})
    BY <1>1, AppendOnFile
  <1>3. /\ \A i \in 1 .. Len(queue) : queue'[i] = queue[i]
        /\ queue'[Len(queue) + 1] = op
    BY <1>1, AppendProperties
  <1>4. \A f : \A i \in OnFile(queue, "write", f) : i \in 1 .. Len(queue)
    BY <1>1 DEF OnFile
  <1>5. ASSUME op.k = "write" PROVE Becomes(op.f, op.body)'
    <2>1. /\ Len(queue) + 1 \in OnFile(queue', "write", op.f)
          /\ \A j \in OnFile(queue', "write", op.f) : j <= Len(queue) + 1
      BY <1>1, <1>2, <1>4, <1>5
    <2> QED  BY <1>3, <2>1 DEF Becomes, After
  <1>6. ASSUME NEW f \in Files, NEW b, Becomes(f, b), ~(op.k = "write" /\ op.f = f)
        PROVE  Becomes(f, b)'
    <2>1. OnFile(queue', "write", f) = OnFile(queue, "write", f)
      BY <1>2, <1>6
    <2>2. \A i \in OnFile(queue, "write", f) : queue'[i] = queue[i]
      BY <1>3, <1>4
    <2> QED  BY <1>6, <2>1, <2>2 DEF Becomes, After
  <1> QED  BY <1>5, <1>6

\* The writer takes the queue.
LEMMA BecomesTake ==
    ASSUME NEW f \in Files, NEW b, Becomes(f, b),
           Held = <<>>, Held' = queue, queue' = <<>>, UNCHANGED postings
    PROVE  Becomes(f, b)'
  <1>1. OnFile(<<>>, "write", f) = {}
    BY DEF OnFile
  <1> QED  BY <1>1 DEF Becomes, After

\* It commits what it holds.
LEMMA BecomesCommit ==
    ASSUME Types, WriterCommit, NEW f \in Files, NEW b, Becomes(f, b)
    PROVE  Becomes(f, b)'
  <1>1. /\ batch \in Seq(Op) /\ Held = batch /\ Held' = <<>> /\ queue' = queue
        /\ postings'[f] = IF Coalesced(batch, f).k = "write"
                          THEN Coalesced(batch, f).body ELSE postings[f]
    BY DEF WriterCommit, Types, WriterType, Held, queueVars
  <1>2. OnFile(<<>>, "write", f) = {}
    BY DEF OnFile
  <1>3. CASE OnFile(queue, "write", f) # {}
    BY <1>1, <1>3 DEF Becomes
  <1>4. CASE OnFile(queue, "write", f) = {}
    <2>1. After(batch, f, postings[f], b)
      BY <1>1, <1>4 DEF Becomes
    <2>2. postings'[f] = b
      <3>1. CASE OnFile(batch, "write", f) = {}
        BY <1>1, <2>1, <3>1, CoalescedOther DEF After
      <3>2. CASE OnFile(batch, "write", f) # {}
        <4>1. PICK i \in OnFile(batch, "write", f) :
                 batch[i].body = b /\ \A j \in OnFile(batch, "write", f) : j <= i
          BY <2>1, <3>2 DEF After
        <4> QED  BY <1>1, <4>1, CoalescedWrite
      <3> QED  BY <3>1, <3>2
    <2> QED  BY <1>1, <1>2, <1>4, <2>2 DEF Becomes, After
  <1> QED  BY <1>3, <1>4

\* What is in RAM stays on its way to the tables.
LEMMA RamStep ==
    ASSUME Types, Counts, CallerOk, RamOk, Next
    PROVE  RamOk'
  <1>j. job["strand"].k = "write" => job["strand"].f \in Files
    BY DEF CallerOk
  <1>v. ASSUME UNCHANGED <<ram, queue, Held, postings, writerError, job["strand"]>>,
               Flushing' => Flushing
        PROVE  RamOk'
    BY <1>v DEF RamOk, Becomes, Flushing
  <1>u. ASSUME UNCHANGED <<ram, queue, Held, postings, writerError, job, pc>> PROVE RamOk'
    BY <1>u DEF RamOk, Becomes
  <1>WriterTake. ASSUME WriterTake PROVE RamOk'
    <2>1. /\ Held = <<>> /\ Held' = queue /\ queue' = <<>>
          /\ UNCHANGED <<ram, postings, writerError, job, pc>>
      BY <1>WriterTake DEF WriterTake, Held, tableVars, ramVars, callVars
    <2> QED  BY <2>1, BecomesTake, <1>j DEF RamOk, Types, TableType
  <1>WriterCommit. ASSUME WriterCommit PROVE RamOk'
    <2>1. UNCHANGED <<ram, writerError, job, pc>>
      BY <1>WriterCommit DEF WriterCommit, queueVars, ramVars, callVars
    <2> QED  BY <1>WriterCommit, <2>1, BecomesCommit, <1>j DEF RamOk, Types, TableType
  <1>WriterFails. ASSUME WriterFails PROVE RamOk'
    BY <1>WriterFails DEF WriterFails, Notified, queueVars, writerVars,
       tableVars, ramVars, callVars, countVars, RamOk, Becomes, RamOk
  <1>WriterWrote. ASSUME WriterWrote PROVE RamOk'
    <2>1. UNCHANGED <<ram, queue, Held, postings, writerError, job>>
      BY <1>WriterWrote DEF WriterWrote, Held, queueVars, writerVars, tableVars, ramVars
    <2>2. Flushing' => Flushing
      BY <1>WriterWrote, Records DEF WriterWrote, Goto, Notified, Flushing, Types, CallType, CallerOk, Callers
    <2> QED  BY <2>1, <2>2, <1>v
  <1>WriterEmpty. ASSUME WriterEmpty PROVE RamOk'
    <2>1. UNCHANGED <<ram, queue, Held, postings, writerError, job>>
      BY <1>WriterEmpty DEF WriterEmpty, Held, queueVars, writerVars, tableVars, ramVars
    <2>2. Flushing' => Flushing
      BY <1>WriterEmpty, Records DEF WriterEmpty, Goto, Notified, Flushing, Types, CallType, CallerOk, Callers
    <2> QED  BY <2>1, <2>2, <1>v
  <1>WriterCheckpointed. ASSUME WriterCheckpointed PROVE RamOk'
    <2>1. UNCHANGED <<ram, queue, Held, postings, writerError, job>>
      BY <1>WriterCheckpointed DEF WriterCheckpointed, Held, queueVars, writerVars, tableVars, ramVars
    <2>2. Flushing' => Flushing
      BY <1>WriterCheckpointed, Records DEF WriterCheckpointed, Goto, Notified, Flushing, Types, CallType, CallerOk, Callers
    <2> QED  BY <2>1, <2>2, <1>v
  <1>StopWriter. ASSUME StopWriter PROVE RamOk'
    <2>1. UNCHANGED <<ram, queue, Held, postings, writerError, job>>
      BY <1>StopWriter DEF StopWriter, Held, queueVars, writerVars, tableVars, ramVars
    <2>2. Flushing' => Flushing
      BY <1>StopWriter, Records DEF StopWriter, Goto, Notified, Flushing, Types, CallType, CallerOk, Callers
    <2> QED  BY <2>1, <2>2, <1>v
  <1>Joined. ASSUME Joined PROVE RamOk'
    <2>1. UNCHANGED <<ram, queue, Held, postings, writerError, job>>
      BY <1>Joined DEF Joined, Held, queueVars, writerVars, tableVars, ramVars
    <2>2. Flushing' => Flushing
      BY <1>Joined, Records DEF Joined, Goto, Notified, Flushing, Types, CallType, CallerOk, Callers
    <2> QED  BY <2>1, <2>2, <1>v
  <1>FlushCall. ASSUME NEW c \in Callers, FlushCall(c) PROVE RamOk'
    <2>1. UNCHANGED <<ram, queue, Held, postings, writerError, job>>
      BY <1>FlushCall DEF FlushCall, Held, queueVars, writerVars, tableVars, ramVars
    <2>2. Flushing' => Flushing
      BY <1>FlushCall, Records DEF FlushCall, Goto, Notified, Flushing, Types, CallType, CallerOk, Callers
    <2> QED  BY <2>1, <2>2, <1>v
  <1>FlushCheck. ASSUME NEW c \in Callers, FlushCheck(c) PROVE RamOk'
    <2>1. UNCHANGED <<ram, queue, Held, postings, writerError, job>>
      BY <1>FlushCheck DEF FlushCheck, Held, queueVars, writerVars, tableVars, ramVars
    <2>2. Flushing' => Flushing
      BY <1>FlushCheck, Records DEF FlushCheck, Goto, Notified, Flushing, Types, CallType, CallerOk, Callers
    <2> QED  BY <2>1, <2>2, <1>v
  <1>CheckpointCall. ASSUME NEW c \in Callers, CheckpointCall(c) PROVE RamOk'
    <2>1. UNCHANGED <<ram, queue, Held, postings, writerError, job>>
      BY <1>CheckpointCall DEF CheckpointCall, Held, queueVars, writerVars, tableVars, ramVars
    <2>2. Flushing' => Flushing
      BY <1>CheckpointCall, Records DEF CheckpointCall, Goto, Notified, Flushing, Types, CallType, CallerOk, Callers
    <2> QED  BY <2>1, <2>2, <1>v
  <1>CheckpointCheck. ASSUME NEW c \in Callers, CheckpointCheck(c) PROVE RamOk'
    <2>1. UNCHANGED <<ram, queue, Held, postings, writerError, job>>
      BY <1>CheckpointCheck DEF CheckpointCheck, Held, queueVars, writerVars, tableVars, ramVars
    <2>2. Flushing' => Flushing
      BY <1>CheckpointCheck, Records DEF CheckpointCheck, Goto, Notified, Flushing, Types, CallType, CallerOk, Callers
    <2> QED  BY <2>1, <2>2, <1>v
  <1>UpdateFlush. ASSUME UpdateFlush PROVE RamOk'
    <2>1. UNCHANGED <<ram, queue, Held, postings, writerError, job>>
      BY <1>UpdateFlush DEF UpdateFlush, Held, queueVars, writerVars, tableVars, ramVars
    <2>2. Flushing' => Flushing
      BY <1>UpdateFlush, Records DEF UpdateFlush, Goto, Notified, Flushing, Types, CallType, CallerOk, Callers
    <2> QED  BY <2>1, <2>2, <1>v
  <1>Close. ASSUME Close PROVE RamOk'
    <2>1. UNCHANGED <<ram, queue, Held, postings, writerError, job>>
      BY <1>Close DEF Close, Held, queueVars, writerVars, tableVars, ramVars
    <2>2. Flushing' => Flushing
      BY <1>Close, Records DEF Close, Goto, Notified, Flushing, Types, CallType, CallerOk, Callers
    <2> QED  BY <2>1, <2>2, <1>v
  <1>UpdaterReturns. ASSUME UpdaterReturns PROVE RamOk'
    <2>0. UNCHANGED job \/ job' = [job EXCEPT !["updater"] = NoJob]
      BY <1>UpdaterReturns DEF UpdaterReturns
    <2>3. job'["strand"] = job["strand"]
      BY <2>0, Records DEF Types, CallType
    <2>4. UNCHANGED <<ram, queue, Held, postings, writerError>>
      BY <1>UpdaterReturns DEF UpdaterReturns, Held, queueVars, writerVars, tableVars, ramVars
    <2>1. UNCHANGED <<ram, queue, Held, postings, writerError, job["strand"]>>
      BY <2>3, <2>4
    <2>2. Flushing' => Flushing
      BY <1>UpdaterReturns, Records DEF UpdaterReturns, Goto, Flushing, Types, CallType, CallerOk, Callers
    <2> QED  BY <2>1, <2>2, <1>v
  <1>UpdateBegin. ASSUME UpdateBegin PROVE RamOk'
    <2>1. UNCHANGED <<ram, queue, Held, postings, writerError, job["strand"]>>
      BY <1>UpdateBegin DEF UpdateBegin, Begin, Held, queueVars, writerVars, tableVars, ramVars, Types,
         CallType
    <2>2. Flushing' => Flushing
      BY <1>UpdateBegin, Records DEF UpdateBegin, Goto, Flushing, Types, CallType, CallerOk, Callers
    <2> QED  BY <2>1, <2>2, <1>v
  <1>SaveBegin. ASSUME SaveBegin PROVE RamOk'
    <2>1. UNCHANGED <<ram, queue, Held, postings, writerError, job["strand"]>>
      BY <1>SaveBegin DEF SaveBegin, Begin, Held, queueVars, writerVars, tableVars, ramVars, Types,
         CallType
    <2>2. Flushing' => Flushing
      BY <1>SaveBegin, Records DEF SaveBegin, Goto, Flushing, Types, CallType, CallerOk, Callers
    <2> QED  BY <2>1, <2>2, <1>v
  <1>Publish. ASSUME Publish PROVE RamOk'
    <2>1. UNCHANGED <<queue, Held, postings, writerError>>
      BY <1>Publish DEF Publish, Held, queueVars, writerVars, tableVars
    <2>2. pc'["strand"] = "idle"
      BY <1>Publish, Records DEF Publish, Goto, Types, CallType
    <2>3. ASSUME NEW f \in Files, ~writerError, ram'[f] # {} PROVE Becomes(f, ram'[f])
      <3>1. CASE job["strand"].k = "write" /\ f = job["strand"].f
        <4>1. ram'[f] = job["strand"].body
          BY <1>Publish, <3>1 DEF Publish, Types, TableType
        <4> QED  BY <1>Publish, <2>3, <3>1, <4>1 DEF Publish, RamOk
      <3>2. CASE ~(job["strand"].k = "write" /\ f = job["strand"].f)
        <4>1. ram'[f] = ram[f]
          BY <1>Publish, <3>2 DEF Publish, Types, TableType
        <4> QED  BY <2>3, <4>1 DEF RamOk
      <3> QED  BY <3>1, <3>2
    <2>4. ASSUME NEW f \in Files, NEW b, Becomes(f, b) PROVE Becomes(f, b)'
      BY <2>1, <2>4 DEF Becomes
    <2> QED  BY <2>1, <2>2, <2>3, <2>4 DEF RamOk, Types, TableType
  <1>Emptied. ASSUME NEW f \in Files, Emptied(f) PROVE RamOk'
    <2>1. UNCHANGED <<queue, Held, postings, writerError, pc, job>>
      BY <1>Emptied DEF Emptied, Held, queueVars, writerVars, tableVars, callVars
    <2>2. \A g \in Files : ram'[g] # {} => ram'[g] = ram[g]
      BY <1>Emptied DEF Emptied, Types, TableType
    <2> QED  BY <2>1, <2>2 DEF RamOk, Becomes
  <1>Restart. ASSUME Restart PROVE RamOk'
    <2>1. /\ queue' = <<>> /\ Held' = <<>> /\ ram' = postings /\ postings' = postings
          /\ pc'["strand"] = "idle"
      BY <1>Restart, Records DEF Restart, Fresh, Held, tableVars
    <2>2. \A g \in Files : OnFile(<<>>, "write", g) = {}
      BY DEF OnFile
    <2> QED  BY <2>1, <2>2 DEF RamOk, Becomes, After
  <1>PointWrite. ASSUME NEW f \in Files, NEW body \in Contents, PointWrite(f,
     body) PROVE RamOk'
    <2>0. WriteOp(f, body, body \ wordIds) \in Op
      BY Records
    <2>1. UNCHANGED <<Held, postings, writerError>>
      BY <1>PointWrite DEF PointWrite, Held, writerVars, tableVars
    <2>2. CASE Refused
      BY <2>1, <2>2 DEF Refused, RamOk
    <2>3. CASE Enqueue(WriteOp(f, body, body \ wordIds))
      <3>1. queue' = Append(queue, WriteOp(f, body, body \ wordIds))
        BY <2>3 DEF Enqueue
      <3>2. /\ \A g \in Files : ram'[g] # {} => g # f /\ ram'[g] = ram[g]
            /\ job'["strand"].f = f /\ job'["strand"].body = body
        BY <1>PointWrite, Records DEF PointWrite, Types, TableType, CallType
      <3>3. /\ Becomes(f, body)'
            /\ \A g \in Files : \A b : g # f /\ Becomes(g, b) => Becomes(g, b)'
        BY <2>0, <2>1, <3>1, BecomesAppend DEF WriteOp
      <3> QED  BY <2>1, <3>2, <3>3 DEF RamOk
    <2> QED  BY <1>PointWrite, <2>2, <2>3 DEF PointWrite
  <1>BulkWrite. ASSUME NEW f \in Files, NEW body \in Contents, BulkWrite(f,
     body) PROVE RamOk'
    <2>0. WriteOp(f, body, body \ wordIds) \in Op
      BY Records
    <2>1. UNCHANGED <<Held, postings, writerError>>
      BY <1>BulkWrite DEF BulkWrite, Held, writerVars, tableVars
    <2>2. CASE Refused
      BY <2>1, <2>2 DEF Refused, RamOk
    <2>3. CASE Enqueue(WriteOp(f, body, body \ wordIds))
      <3>1. queue' = Append(queue, WriteOp(f, body, body \ wordIds))
        BY <2>3 DEF Enqueue
      <3>2. /\ \A g \in Files : ram'[g] # {} => ram'[g] = IF g = f THEN body ELSE ram[g]
            /\ ~Flushing'
        BY <1>BulkWrite, Records DEF BulkWrite, Types, TableType, CallType, Flushing
      <3>3. /\ Becomes(f, body)'
            /\ \A g \in Files : \A b : g # f /\ Becomes(g, b) => Becomes(g, b)'
        BY <2>0, <2>1, <3>1, BecomesAppend DEF WriteOp
      <3> QED  BY <2>1, <3>2, <3>3 DEF RamOk, Flushing
    <2> QED  BY <1>BulkWrite, <2>2, <2>3 DEF BulkWrite
  <1>PointDelete. ASSUME NEW f \in Files, PointDelete(f) PROVE RamOk'
    <2>0. DeleteOp(f) \in Op
      BY Records
    <2>1. UNCHANGED <<Held, postings, writerError>>
      BY <1>PointDelete DEF PointDelete, Held, writerVars, tableVars
    <2>2. CASE Refused
      BY <2>1, <2>2 DEF Refused, RamOk
    <2>3. CASE Enqueue(DeleteOp(f))
      <3>1. queue' = Append(queue, DeleteOp(f))
        BY <2>3 DEF Enqueue
      <3>2. /\ ram' = ram
            /\ job'["strand"].k = "delete"
        BY <1>PointDelete, Records DEF PointDelete, ramVars, Types, CallType, Flushing
      <3>3. \A g \in Files : \A b : Becomes(g, b) => Becomes(g, b)'
        BY <2>0, <2>1, <3>1, BecomesAppend DEF DeleteOp
      <3> QED  BY <2>1, <3>2, <3>3 DEF RamOk, Flushing
    <2> QED  BY <1>PointDelete, <2>2, <2>3 DEF PointDelete
  <1>BulkDelete. ASSUME NEW f \in Files, BulkDelete(f) PROVE RamOk'
    <2>0. DeleteOp(f) \in Op
      BY Records
    <2>1. UNCHANGED <<Held, postings, writerError>>
      BY <1>BulkDelete DEF BulkDelete, Held, writerVars, tableVars
    <2>2. CASE Refused
      BY <2>1, <2>2 DEF Refused, RamOk
    <2>3. CASE Enqueue(DeleteOp(f))
      <3>1. queue' = Append(queue, DeleteOp(f))
        BY <2>3 DEF Enqueue
      <3>2. /\ ram' = ram
            /\ ~Flushing'
        BY <1>BulkDelete, Records DEF BulkDelete, ramVars, Types, CallType, Flushing
      <3>3. \A g \in Files : \A b : Becomes(g, b) => Becomes(g, b)'
        BY <2>0, <2>1, <3>1, BecomesAppend DEF DeleteOp
      <3> QED  BY <2>1, <3>2, <3>3 DEF RamOk, Flushing
    <2> QED  BY <1>BulkDelete, <2>2, <2>3 DEF BulkDelete
  <1>o. \/ UNCHANGED <<ram, queue, Held, postings, writerError, job, pc>>
        \/ WriterTake \/ WriterCommit \/ WriterFails \/ WriterWrote \/
           WriterEmpty \/ WriterCheckpointed \/ StopWriter \/ Joined \/ (\E c
           \in Callers : FlushCall(c)) \/ (\E c \in Callers : FlushCheck(c)) \/
           (\E c \in Callers : CheckpointCall(c)) \/ (\E c \in Callers :
           CheckpointCheck(c)) \/ UpdateFlush \/ Close \/ UpdaterReturns \/
           UpdateBegin \/ SaveBegin \/ Publish \/ (\E f \in Files : Emptied(f))
           \/ Restart \/ (\E f \in Files, body \in Contents : PointWrite(f,
           body)) \/ (\E f \in Files, body \in Contents : BulkWrite(f, body)) \/
           (\E f \in Files : PointDelete(f)) \/ (\E f \in Files : BulkDelete(f))
    BY DEF Held, Next, Writer, Returns, Call, WriterTick, WriterBreak,
       WriterCheckpoint, queueVars, writerVars, tableVars, ramVars, callVars,
       countVars
  <1> QED  BY <1>u, <1>o, <1>WriterTake, <1>WriterCommit, <1>WriterFails,
           <1>WriterWrote, <1>WriterEmpty, <1>WriterCheckpointed, <1>StopWriter,
           <1>Joined, <1>FlushCall, <1>FlushCheck, <1>CheckpointCall,
           <1>CheckpointCheck, <1>UpdateFlush, <1>Close, <1>UpdaterReturns,
           <1>UpdateBegin, <1>SaveBegin, <1>Publish, <1>Emptied, <1>Restart,
           <1>PointWrite, <1>BulkWrite, <1>PointDelete, <1>BulkDelete

-----------------------------------------------------------------------------
(* The theorems.                                                           *)

MirrorInv == Types /\ Counts /\ Promised /\ CallerOk /\ RowsOk /\ WordsOk /\ RamOk

\* The invariant holds when the serializer is constructed over empty tables.
LEMMA MirrorInvInit == Init => MirrorInv
  <1> SUFFICES ASSUME Init PROVE MirrorInv
    OBVIOUS
  <1>1. <<>> \in Seq(Op) /\ Len(<<>>) = 0
    BY EmptySeq
  <1>2. Types
    <2>1. WriterType
      BY <1>1 DEF Init, WriterType
    <2>2. TableType
      BY DEF Init, TableType
    <2>3. CallType
      BY Records DEF Init, CallType, Asleep
    <2>4. CountType
      BY MirrorAssumption DEF Init, CountType
    <2> QED  BY <2>1, <2>2, <2>3, <2>4 DEF Types
  <1>3. Counts
    BY <1>1 DEF Init, Counts, Held
  <1>4. Promised /\ CallerOk
    BY Records DEF Init, Promised, FlushDurable, CheckpointCovers, CheckpointOk, CallerOk,
       NoJob
  <1>5. RowsOk /\ RamOk
    BY Records DEF Init, RowsOk, RamOk
  <1>6. WordsOk
    BY EmptyCarried DEF Init, WordsOk, Held
  <1> QED  BY <1>2, <1>3, <1>4, <1>5, <1>6 DEF MirrorInv

\* Every step keeps it.
LEMMA MirrorInvStep == MirrorInv /\ [Next]_vars => MirrorInv'
  <1> SUFFICES ASSUME MirrorInv, [Next]_vars PROVE MirrorInv'
    OBVIOUS
  <1>1. CASE Next
    BY <1>1, WriterTypeStep, TableTypeStep, CallTypeStep, CountTypeStep, CountsStep,
       PromisedStep, CallerStep, RowsStep, WordsStep, RamStep DEF MirrorInv, Types
  <1>2. CASE UNCHANGED vars
    <2>1. /\ UNCHANGED <<queueVars, writerVars, tableVars, ramVars, callVars, countVars>>
          /\ Held' = Held
      BY <1>2 DEF vars, writerVars, Held
    <2>2. Types'
      BY <2>1 DEF MirrorInv, Types, WriterType, TableType, CallType, CountType,
         queueVars, writerVars, tableVars, ramVars, callVars, countVars
    <2>3. Counts' /\ Promised' /\ CallerOk'
      BY <2>1 DEF MirrorInv, Counts, Promised, FlushDurable, CheckpointCovers,
         CheckpointOk, CallerOk, queueVars, writerVars, callVars, countVars
    <2>4. RowsOk' /\ WordsOk' /\ RamOk'
      BY <2>1 DEF MirrorInv, RowsOk, WordsOk, RamOk, Becomes, queueVars, tableVars,
         ramVars, callVars
    <2> QED  BY <2>2, <2>3, <2>4 DEF MirrorInv
  <1> QED  BY <1>1, <1>2

\* MirrorInv is an invariant.
LEMMA MirrorInvariant == Spec => []MirrorInv
  BY MirrorInvInit, MirrorInvStep, PTL DEF Spec

\* flushPending and checkpoint return normally only when everything handed over
\* before the call is committed, or checkpointed, however the call has raced
\* with the writer, with other callers or with a failure; and the state is well
\* typed, with operations committed in their order.
THEOREM MirrorCalls == Spec => []CallInv
  <1>1. MirrorInv => CallInv
    <2> SUFFICES ASSUME MirrorInv PROVE CallInv
      OBVIOUS
    <2>1. synced \in 0 .. applied /\ applied \in 0 .. accepted
      BY DEF MirrorInv, Types, CountType, Counts
    <2>2. mark \in [Callers -> 0 .. MaxOps]
      <3>1. \A c \in Callers : mark[c] \in Nat /\ mark[c] <= accepted /\ accepted <= MaxOps
                               /\ accepted \in Nat
        BY DEF MirrorInv, Types, CallType, CountType, Counts
      <3>2. \A c \in Callers : mark[c] \in 0 .. MaxOps
        BY <3>1, MirrorAssumption
      <3> QED  BY <3>2 DEF MirrorInv, Types, CallType
    <2>3. TypeOK
      BY <2>1, <2>2 DEF MirrorInv, Types, WriterType, TableType, CallType, CountType,
         JobType, TypeOK
    <2> QED  BY <2>3 DEF MirrorInv, Promised, CallInv
  <1> QED  BY <1>1, MirrorInvariant, PTL

\* Whenever the process dies the tables can be loaded, unless a transaction has
\* held two writes of one file: a posting finds the row of its document and of
\* its word.
THEOREM MirrorLoadable == Spec => []Loadable
  <1>1. MirrorInv => Loadable
    BY DEF MirrorInv, RowsOk, WordsOk, Loadable, Loads
  <1> QED  BY <1>1, MirrorInvariant, PTL

\* With nothing under way and a working writer, a file that a search finds in
\* RAM has these postings in the tables, and its row.
THEOREM MirrorIsCurrent == Spec => []MirrorCurrent
  <1>1. MirrorInv => MirrorCurrent
    <2> SUFFICES ASSUME MirrorInv, AtRest, NEW f \in Files, ram[f] # {}
                 PROVE  postings[f] = ram[f] /\ docs[f] # "none"
      BY DEF MirrorCurrent
    <2>1. queue = <<>> /\ Held = <<>>
      BY DEF AtRest, Held
    <2>2. OnFile(<<>>, "write", f) = {}
      BY DEF OnFile
    <2>3. Becomes(f, ram[f])
      BY DEF MirrorInv, RamOk, AtRest
    <2>4. postings[f] = ram[f]
      BY <2>1, <2>2, <2>3 DEF Becomes, After
    <2> QED  BY <2>4 DEF MirrorInv, RowsOk
  <1> QED  BY <1>1, MirrorInvariant, PTL
=============================================================================
