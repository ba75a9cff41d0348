------------------------- MODULE SearchServerProofs -------------------------
(***************************************************************************)
(* For every number of searches, updates and pool threads: the state is    *)
(* well typed, two updates never overlap, and no search reads the index    *)
(* while an update changes or saves it.                                    *)
(***************************************************************************)
EXTENDS SearchServer, SequenceTheorems, FiniteSetTheorems, TLAPS

Holding == {"gate", "wait", "begin", "index", "settle"}    \* updateM is held
Writing == {"begin", "index", "settle"}                    \* and searchM too

Labels  == Waiting \cup Holding \cup {"enter", "lock", "asleep", "search", "mutex"}

Typed ==
    /\ pc \in [Tasks -> Labels]
    /\ queue \in Seq(Tasks)
    /\ searchReaders \subseteq Searches
    /\ asleep \subseteq Searches

\* A task is queued at most once, and only while no thread has it.
QueueOk ==
    /\ \A i \in 1 .. Len(queue) : pc[queue[i]] = "queued"
    /\ \A i, j \in 1 .. Len(queue) : queue[i] = queue[j] => i = j

SleepOk == \A s \in asleep : pc[s] = "asleep"
MutexOk == \A u \in Updates : pc[u] \in Holding => updateM = u
WriteOk == \A u \in Updates : pc[u] \in Writing => searchWriter = u
ReadOk  == /\ \A s \in Searches : pc[s] = "search" => s \in searchReaders
           /\ searchWriter # Nobody => searchReaders = {}

ServerInv == Typed /\ QueueOk /\ SleepOk /\ MutexOk /\ WriteOk /\ ReadOk

-----------------------------------------------------------------------------
(* Facts about the queue.                                                  *)

\* Taking the first task leaves a queue in which that task is no longer.
LEMMA TakeQueue ==
    ASSUME Typed, QueueOk, queue # <<>>
    PROVE  /\ Head(queue) \in Tasks /\ pc[Head(queue)] = "queued"
           /\ Tail(queue) \in Seq(Tasks)
           /\ \A i \in 1 .. Len(Tail(queue)) :
                 /\ Tail(queue)[i] = queue[i + 1]
                 /\ i + 1 \in 1 .. Len(queue)
                 /\ Tail(queue)[i] # Head(queue)
           /\ \A i, j \in 1 .. Len(Tail(queue)) :
                 Tail(queue)[i] = Tail(queue)[j] => i = j
  <1>1. /\ Tail(queue) \in Seq(Tasks) /\ Head(queue) = queue[1]
        /\ Len(queue) \in Nat /\ Len(queue) >= 1
        /\ Len(Tail(queue)) = Len(queue) - 1
    BY EmptySeq, HeadTailProperties DEF Typed
  <1>2. ASSUME NEW i \in 1 .. Len(Tail(queue))
        PROVE  Tail(queue)[i] = queue[i + 1] /\ i + 1 \in 1 .. Len(queue)
    BY <1>1, HeadTailProperties DEF Typed
  <1>3. 1 \in 1 .. Len(queue) /\ queue[1] \in Tasks
    BY <1>1 DEF Typed
  <1> QED  BY <1>1, <1>2, <1>3 DEF QueueOk

\* Posting a task that is not queued keeps the queue in order.
LEMMA PostQueue ==
    ASSUME Typed, QueueOk, NEW t \in Tasks, pc[t] # "queued"
    PROVE  /\ Append(queue, t) \in Seq(Tasks)
           /\ \A i \in 1 .. Len(Append(queue, t)) :
                 \/ Append(queue, t)[i] = t
                 \/ (i \in 1 .. Len(queue)) /\ (Append(queue, t)[i] = queue[i])
           /\ \A i, j \in 1 .. Len(Append(queue, t)) :
                 Append(queue, t)[i] = Append(queue, t)[j] => i = j
  <1>1. /\ Append(queue, t) \in Seq(Tasks) /\ Len(queue) \in Nat
        /\ Len(Append(queue, t)) = Len(queue) + 1
        /\ \A i \in 1 .. Len(queue) : Append(queue, t)[i] = queue[i]
        /\ Append(queue, t)[Len(queue) + 1] = t
    BY AppendProperties DEF Typed
  <1>2. \A i \in 1 .. Len(queue) : queue[i] # t
    BY DEF QueueOk
  <1> QED  BY <1>1, <1>2 DEF QueueOk

-----------------------------------------------------------------------------
(* Steps of the invariant.                                                 *)

\* A step that posts nothing and moves one running task.
LEMMA MoveQueue ==
    ASSUME Typed, QueueOk, NEW t \in Tasks, pc[t] # "queued", NEW l,
           pc' = [pc EXCEPT ![t] = l], queue' = queue
    PROVE  QueueOk'
  BY DEF Typed, QueueOk

\* The invariant is inductive, one step per action.
LEMMA ServerInvStep ==
    ASSUME ServerInv, [Next]_vars
    PROVE  ServerInv'
  <1> USE ServerAssumption DEF ServerInv
  <1>s. Searches \subseteq Tasks /\ Updates \subseteq Tasks /\ Jobs \subseteq Tasks
    BY DEF Tasks, Calls
  <1>d. /\ Searches \cap Updates = {} /\ Jobs \cap Searches = {}
        /\ Jobs \cap Updates = {} /\ Nobody \notin Updates
    BY DEF Calls
  <1>h. updateM = Nobody => \A u \in Updates : pc[u] \notin Holding
    BY <1>d DEF MutexOk
  <1>Take. ASSUME Take PROVE ServerInv'
    <2>1. PICK t \in Tasks : t = Head(queue) /\ pc[t] = "queued"
      BY <1>Take, TakeQueue DEF Take
    <2>2. pc' = [pc EXCEPT ![t] = "enter"] /\ queue' = Tail(queue)
      BY <1>Take, <2>1 DEF Take, Go
    <2>3. QueueOk'
      <3>1. ASSUME NEW i \in 1 .. Len(queue') PROVE pc'[queue'[i]] = "queued"
        <4>1. queue'[i] = queue[i + 1] /\ i + 1 \in 1 .. Len(queue) /\ queue'[i] # t
          BY <1>Take, <2>1, <2>2, TakeQueue DEF Take
        <4>2. pc[queue[i + 1]] = "queued" /\ queue[i + 1] \in Tasks
          BY <4>1 DEF QueueOk, Typed
        <4> QED  BY <2>2, <4>1, <4>2 DEF Typed
      <3>2. \A i, j \in 1 .. Len(queue') : queue'[i] = queue'[j] => i = j
        BY <1>Take, <2>2, TakeQueue DEF Take
      <3> QED  BY <3>1, <3>2 DEF QueueOk
    <2>4. Typed'
      BY <1>Take, <2>2, TakeQueue DEF Take, Typed, Labels
    <2>5. SleepOk' /\ MutexOk' /\ WriteOk' /\ ReadOk'
      BY <1>Take, <2>1, <2>2, <1>s, <1>d DEF Take, Typed, SleepOk, MutexOk, WriteOk,
         ReadOk, Holding, Writing
    <2> QED  BY <2>3, <2>4, <2>5
  <1>RunJob. ASSUME NEW j \in Jobs, RunJob(j) PROVE ServerInv'
    <2>1. j \in Tasks /\ pc[j] # "queued" /\ queue' = queue
      BY <1>RunJob, <1>s DEF RunJob
    <2>2. QueueOk'
      BY <1>RunJob, <2>1, MoveQueue DEF RunJob, Go
    <2>3. Typed'
      BY <1>RunJob, <2>1, <1>s DEF RunJob, Go, Typed, Labels, Waiting, Holding
    <2>4. SleepOk' /\ MutexOk' /\ WriteOk' /\ ReadOk'
      BY <1>RunJob, <2>1, <1>s, <1>d DEF RunJob, Go, Typed, SleepOk,
         MutexOk, WriteOk, ReadOk, Holding, Writing
    <2> QED  BY <2>2, <2>3, <2>4
  <1>PostSearch. ASSUME NEW s \in Searches, PostSearch(s),
                    pc'[s] = "queued", queue' = Append(queue, s)
        PROVE  ServerInv'
    <2>1. s \in Tasks /\ pc[s] = "none" /\ pc' = [pc EXCEPT ![s] = "queued"]
      BY <1>PostSearch, <1>s DEF PostSearch, Go, Typed
    <2>2. QueueOk'
      BY <1>PostSearch, <2>1, PostQueue DEF QueueOk, Typed
    <2>3. Typed'
      BY <1>PostSearch, <2>1, PostQueue DEF PostSearch, Typed, Labels, Waiting
    <2>4. SleepOk' /\ MutexOk' /\ WriteOk' /\ ReadOk'
      BY <1>PostSearch, <2>1, <1>s, <1>d DEF PostSearch, Typed, SleepOk, MutexOk, WriteOk,
         ReadOk, Holding, Writing
    <2> QED  BY <2>2, <2>3, <2>4
  <1>SearchEnter. ASSUME NEW s \in Searches, SearchEnter(s) PROVE ServerInv'
    <2>1. s \in Tasks /\ pc[s] # "queued" /\ queue' = queue
      BY <1>SearchEnter, <1>s DEF SearchEnter
    <2>2. QueueOk'
      BY <1>SearchEnter, <2>1, MoveQueue DEF SearchEnter, Go
    <2>3. Typed'
      BY <1>SearchEnter, <2>1, <1>s DEF SearchEnter, Go, Typed, Labels, Waiting, Holding
    <2>4. SleepOk' /\ MutexOk' /\ WriteOk' /\ ReadOk'
      BY <1>SearchEnter, <2>1, <1>s, <1>d DEF SearchEnter, Go, Typed, SleepOk,
         MutexOk, WriteOk, ReadOk, Holding, Writing
    <2> QED  BY <2>2, <2>3, <2>4
  <1>SearchGate. ASSUME NEW s \in Searches, SearchGate(s) PROVE ServerInv'
    <2>1. s \in Tasks /\ pc[s] # "queued" /\ queue' = queue
      BY <1>SearchGate, <1>s DEF SearchGate
    <2>2. QueueOk'
      BY <1>SearchGate, <2>1, MoveQueue DEF SearchGate, Go
    <2>3. Typed'
      BY <1>SearchGate, <2>1, <1>s DEF SearchGate, Go, Typed, Labels, Waiting, Holding
    <2>4. SleepOk' /\ MutexOk' /\ WriteOk' /\ ReadOk'
      BY <1>SearchGate, <2>1, <1>s, <1>d DEF SearchGate, Go, Typed, SleepOk,
         MutexOk, WriteOk, ReadOk, Holding, Writing
    <2> QED  BY <2>2, <2>3, <2>4
  <1>SearchEnd. ASSUME NEW s \in Searches, SearchEnd(s) PROVE ServerInv'
    <2>1. s \in Tasks /\ pc[s] # "queued" /\ queue' = queue
      BY <1>SearchEnd, <1>s DEF SearchEnd
    <2>2. QueueOk'
      BY <1>SearchEnd, <2>1, MoveQueue DEF SearchEnd, Go
    <2>3. Typed'
      BY <1>SearchEnd, <2>1, <1>s DEF SearchEnd, Go, Typed, Labels, Waiting, Holding
    <2>4. SleepOk' /\ MutexOk' /\ WriteOk' /\ ReadOk'
      BY <1>SearchEnd, <2>1, <1>s, <1>d DEF SearchEnd, Go, Typed, SleepOk,
         MutexOk, WriteOk, ReadOk, Holding, Writing
    <2> QED  BY <2>2, <2>3, <2>4
  <1>PostPeriodic. ASSUME NEW u \in Updates, PostPeriodic(u),
                    pc'[u] = "queued", queue' = Append(queue, u)
        PROVE  ServerInv'
    <2>1. u \in Tasks /\ pc[u] = "none" /\ pc' = [pc EXCEPT ![u] = "queued"]
      BY <1>PostPeriodic, <1>s DEF PostPeriodic, Go, Typed
    <2>2. QueueOk'
      BY <1>PostPeriodic, <2>1, PostQueue DEF QueueOk, Typed
    <2>3. Typed'
      BY <1>PostPeriodic, <2>1, PostQueue DEF PostPeriodic, Typed, Labels, Waiting
    <2>4. SleepOk' /\ MutexOk' /\ WriteOk' /\ ReadOk'
      BY <1>PostPeriodic, <2>1, <1>s, <1>d DEF PostPeriodic, Typed, SleepOk, MutexOk, WriteOk,
         ReadOk, Holding, Writing
    <2> QED  BY <2>2, <2>3, <2>4
  <1>CommandRefused. ASSUME NEW u \in Updates, PostCommand(u),
                            Go(u, "done"), queue' = queue
        PROVE  ServerInv'
    <2>1. u \in Tasks /\ pc[u] = "none"
      BY <1>CommandRefused, <1>s DEF PostCommand
    <2>2. QueueOk'
      BY <1>CommandRefused, <2>1, MoveQueue DEF Go
    <2>3. Typed'
      BY <1>CommandRefused, <2>1 DEF PostCommand, Go, Typed, Labels, Waiting
    <2>4. SleepOk' /\ MutexOk' /\ WriteOk' /\ ReadOk'
      BY <1>CommandRefused, <2>1, <1>s, <1>d DEF PostCommand, Go, Typed, SleepOk,
         MutexOk, WriteOk, ReadOk, Holding, Writing
    <2> QED  BY <2>2, <2>3, <2>4
  <1>PostCommand. ASSUME NEW u \in Updates, PostCommand(u),
                    pc'[u] = "queued", queue' = Append(queue, u)
        PROVE  ServerInv'
    <2>1. u \in Tasks /\ pc[u] = "none" /\ pc' = [pc EXCEPT ![u] = "queued"]
      BY <1>PostCommand, <1>s DEF PostCommand, Go, Typed
    <2>2. QueueOk'
      BY <1>PostCommand, <2>1, PostQueue DEF QueueOk, Typed
    <2>3. Typed'
      BY <1>PostCommand, <2>1, PostQueue DEF PostCommand, Typed, Labels, Waiting
    <2>4. SleepOk' /\ MutexOk' /\ WriteOk' /\ ReadOk'
      BY <1>PostCommand, <2>1, <1>s, <1>d DEF PostCommand, Typed, SleepOk, MutexOk, WriteOk,
         ReadOk, Holding, Writing
    <2> QED  BY <2>2, <2>3, <2>4
  <1>UpdateEnter. ASSUME NEW u \in Updates, UpdateEnter(u) PROVE ServerInv'
    <2>1. u \in Tasks /\ pc[u] # "queued" /\ queue' = queue
      BY <1>UpdateEnter, <1>s DEF UpdateEnter
    <2>2. QueueOk'
      BY <1>UpdateEnter, <2>1, MoveQueue DEF UpdateEnter, Go
    <2>3. Typed'
      BY <1>UpdateEnter, <2>1, <1>s DEF UpdateEnter, Go, Typed, Labels, Waiting, Holding
    <2>4. SleepOk' /\ MutexOk' /\ WriteOk' /\ ReadOk'
      BY <1>UpdateEnter, <2>1, <1>s, <1>d DEF UpdateEnter, Go, Typed, SleepOk,
         MutexOk, WriteOk, ReadOk, Holding, Writing
    <2> QED  BY <2>2, <2>3, <2>4
  <1>UpdateMutex. ASSUME NEW u \in Updates, UpdateMutex(u) PROVE ServerInv'
    <2>1. u \in Tasks /\ pc[u] # "queued" /\ queue' = queue
      BY <1>UpdateMutex, <1>s DEF UpdateMutex
    <2>2. QueueOk'
      BY <1>UpdateMutex, <2>1, MoveQueue DEF UpdateMutex, Go
    <2>3. Typed'
      BY <1>UpdateMutex, <2>1, <1>s DEF UpdateMutex, Go, Typed, Labels, Waiting, Holding
    <2>4. SleepOk' /\ MutexOk' /\ WriteOk' /\ ReadOk'
      BY <1>UpdateMutex, <2>1, <1>s, <1>d, <1>h DEF UpdateMutex, Go, Typed, SleepOk,
         MutexOk, WriteOk, ReadOk, Holding, Writing
    <2> QED  BY <2>2, <2>3, <2>4
  <1>UpdateGate. ASSUME NEW u \in Updates, UpdateGate(u) PROVE ServerInv'
    <2>1. u \in Tasks /\ pc[u] # "queued" /\ queue' = queue
      BY <1>UpdateGate, <1>s DEF UpdateGate
    <2>2. QueueOk'
      BY <1>UpdateGate, <2>1, MoveQueue DEF UpdateGate, Go
    <2>3. Typed'
      BY <1>UpdateGate, <2>1, <1>s DEF UpdateGate, Go, Typed, Labels, Waiting, Holding
    <2>4. SleepOk' /\ MutexOk' /\ WriteOk' /\ ReadOk'
      BY <1>UpdateGate, <2>1, <1>s, <1>d DEF UpdateGate, Go, Typed, SleepOk,
         MutexOk, WriteOk, ReadOk, Holding, Writing
    <2> QED  BY <2>2, <2>3, <2>4
  <1>UpdateResume. ASSUME NEW u \in Updates, UpdateResume(u) PROVE ServerInv'
    <2>1. u \in Tasks /\ pc[u] # "queued" /\ queue' = queue
      BY <1>UpdateResume, <1>s DEF UpdateResume
    <2>2. QueueOk'
      BY <1>UpdateResume, <2>1, MoveQueue DEF UpdateResume, Go
    <2>3. Typed'
      BY <1>UpdateResume, <2>1, <1>s DEF UpdateResume, Go, Typed, Labels, Waiting, Holding
    <2>4. SleepOk' /\ MutexOk' /\ WriteOk' /\ ReadOk'
      BY <1>UpdateResume, <2>1, <1>s, <1>d DEF UpdateResume, Go, Typed, SleepOk,
         MutexOk, WriteOk, ReadOk, Holding, Writing
    <2> QED  BY <2>2, <2>3, <2>4
  <1>Settle. ASSUME NEW u \in Updates, UpdateBegin(u),
                    pc' = [pc EXCEPT ![u] = "settle"], queue' = queue
        PROVE  ServerInv'
    <2>1. u \in Tasks /\ pc[u] = "begin"
      BY <1>Settle, <1>s DEF UpdateBegin
    <2>2. QueueOk'
      BY <1>Settle, <2>1, MoveQueue
    <2>3. Typed'
      BY <1>Settle, <2>1 DEF UpdateBegin, Typed, Labels, Holding
    <2>4. SleepOk' /\ MutexOk' /\ WriteOk' /\ ReadOk'
      BY <1>Settle, <2>1, <1>s, <1>d DEF UpdateBegin, Typed, SleepOk, MutexOk,
         WriteOk, ReadOk, Holding, Writing
    <2> QED  BY <2>2, <2>3, <2>4
  <1>PostJob. ASSUME NEW u \in Updates, UpdateBegin(u), queue' = Append(queue, Job(u)),
                     pc' = [pc EXCEPT ![u] = "index", ![Job(u)] = "queued"]
        PROVE  ServerInv'
    <2>1. PICK j \in Jobs : j = Job(u)
      BY DEF Jobs
    <2>2. /\ u \in Tasks /\ j \in Tasks /\ j # u /\ pc[u] = "begin"
          /\ pc[j] # "queued" /\ queue' = Append(queue, j)
          /\ pc' = [pc EXCEPT ![u] = "index", ![j] = "queued"]
      BY <1>PostJob, <2>1, <1>s, <1>d DEF UpdateBegin, IndexIdle
    <2>3. QueueOk'
      BY <2>2, PostQueue DEF QueueOk, Typed
    <2>4. Typed'
      BY <1>PostJob, <2>2, PostQueue DEF UpdateBegin, Typed, Labels, Holding, Waiting
    <2>5. SleepOk' /\ MutexOk' /\ WriteOk' /\ ReadOk'
      BY <1>PostJob, <2>1, <2>2, <1>s, <1>d DEF UpdateBegin, Typed, SleepOk, MutexOk,
         WriteOk, ReadOk, Holding, Writing
    <2> QED  BY <2>3, <2>4, <2>5
  <1>UpdateIndexed. ASSUME NEW u \in Updates, UpdateIndexed(u) PROVE ServerInv'
    <2>1. u \in Tasks /\ pc[u] # "queued" /\ queue' = queue
      BY <1>UpdateIndexed, <1>s DEF UpdateIndexed
    <2>2. QueueOk'
      BY <1>UpdateIndexed, <2>1, MoveQueue DEF UpdateIndexed, Go
    <2>3. Typed'
      BY <1>UpdateIndexed, <2>1, <1>s DEF UpdateIndexed, Go, Typed, Labels, Waiting, Holding
    <2>4. SleepOk' /\ MutexOk' /\ WriteOk' /\ ReadOk'
      BY <1>UpdateIndexed, <2>1, <1>s, <1>d DEF UpdateIndexed, Go, Typed, SleepOk,
         MutexOk, WriteOk, ReadOk, Holding, Writing
    <2> QED  BY <2>2, <2>3, <2>4
  <1>UpdateFails. ASSUME NEW u \in Updates, UpdateFails(u) PROVE ServerInv'
    <2>1. /\ u \in Tasks /\ pc[u] \in Holding /\ queue' = queue /\ asleep' = {}
          /\ pc' = [t \in Tasks |-> IF t = u THEN "done"
                                   ELSE IF t \in asleep THEN "lock" ELSE pc[t]]
      BY <1>UpdateFails, <1>s DEF UpdateFails, Woken, Holding
    <2>2. QueueOk'
      BY <2>1 DEF QueueOk, SleepOk, Typed, Holding
    <2>3. Typed'
      BY <1>UpdateFails, <2>1 DEF UpdateFails, Typed, Labels, Waiting
    <2>4. SleepOk' /\ MutexOk' /\ WriteOk' /\ ReadOk'
      BY <1>UpdateFails, <2>1, <1>s, <1>d DEF UpdateFails, Release, Typed, SleepOk, MutexOk,
         WriteOk, ReadOk, Holding, Writing
    <2> QED  BY <2>2, <2>3, <2>4
  <1>UpdateSaved. ASSUME NEW u \in Updates, UpdateSaved(u) PROVE ServerInv'
    <2>1. /\ u \in Tasks /\ pc[u] \in Holding /\ queue' = queue /\ asleep' = {}
          /\ pc' = [t \in Tasks |-> IF t = u THEN "done"
                                   ELSE IF t \in asleep THEN "lock" ELSE pc[t]]
      BY <1>UpdateSaved, <1>s DEF UpdateSaved, Woken, Holding
    <2>2. QueueOk'
      BY <2>1 DEF QueueOk, SleepOk, Typed, Holding
    <2>3. Typed'
      BY <1>UpdateSaved, <2>1 DEF UpdateSaved, Typed, Labels, Waiting
    <2>4. SleepOk' /\ MutexOk' /\ WriteOk' /\ ReadOk'
      BY <1>UpdateSaved, <2>1, <1>s, <1>d DEF UpdateSaved, Release, Typed, SleepOk, MutexOk,
         WriteOk, ReadOk, Holding, Writing
    <2> QED  BY <2>2, <2>3, <2>4
  <1>UpdateSaveFails. ASSUME NEW u \in Updates, UpdateSaveFails(u) PROVE ServerInv'
    <2>1. u \in Tasks /\ pc[u] # "queued" /\ queue' = queue
      BY <1>UpdateSaveFails, <1>s DEF UpdateSaveFails
    <2>2. QueueOk'
      BY <1>UpdateSaveFails, <2>1, MoveQueue DEF UpdateSaveFails, Go
    <2>3. Typed'
      BY <1>UpdateSaveFails, <2>1, <1>s DEF UpdateSaveFails, Go, Typed, Labels, Waiting, Holding
    <2>4. SleepOk' /\ MutexOk' /\ WriteOk' /\ ReadOk'
      BY <1>UpdateSaveFails, <2>1, <1>s, <1>d DEF UpdateSaveFails, Go, Typed, SleepOk,
         MutexOk, WriteOk, ReadOk, Holding, Writing, Release
    <2> QED  BY <2>2, <2>3, <2>4
  <1>StopProducers. ASSUME StopProducers PROVE ServerInv'
    BY <1>StopProducers DEF StopProducers, Typed, QueueOk, SleepOk, MutexOk, WriteOk, ReadOk
  <1>RequestStop. ASSUME RequestStop PROVE ServerInv'
    <2>1. /\ pc' = [t \in Tasks |-> IF t \in asleep THEN "lock" ELSE pc[t]]
          /\ queue' = queue /\ asleep' = {}
      BY <1>RequestStop DEF RequestStop, Woken
    <2>2. QueueOk'
      BY <2>1 DEF QueueOk, SleepOk, Typed
    <2>3. Typed'
      BY <1>RequestStop, <2>1 DEF RequestStop, Typed, Labels
    <2>4. SleepOk' /\ MutexOk' /\ WriteOk' /\ ReadOk'
      BY <1>RequestStop, <2>1, <1>s, <1>d DEF RequestStop, Typed, SleepOk, MutexOk,
         WriteOk, ReadOk, Holding, Writing
    <2> QED  BY <2>2, <2>3, <2>4
  <1>StopWait. ASSUME StopWait PROVE ServerInv'
    BY <1>StopWait DEF StopWait, Typed, QueueOk, SleepOk, MutexOk, WriteOk, ReadOk
  <1>u. CASE UNCHANGED vars
    BY <1>u DEF vars, Typed, QueueOk, SleepOk, MutexOk, WriteOk, ReadOk
  <1>c. ASSUME NEW u \in Updates, PostCommand(u) PROVE ServerInv'
    BY <1>c, <1>s, <1>CommandRefused, <1>PostCommand DEF PostCommand, Go, Typed
  <1>b. ASSUME NEW u \in Updates, UpdateBegin(u) PROVE ServerInv'
    BY <1>b, <1>Settle, <1>PostJob DEF UpdateBegin
  <1>p. ASSUME NEW s \in Searches, PostSearch(s) PROVE ServerInv'
    BY <1>p, <1>s, <1>PostSearch DEF PostSearch, Go, Typed
  <1>q. ASSUME NEW u \in Updates, PostPeriodic(u) PROVE ServerInv'
    BY <1>q, <1>s, <1>PostPeriodic DEF PostPeriodic, Go, Typed
  <1>n. CASE Next
    <2> HIDE DEF ServerInv
    <2> QED  BY <1>n, <1>Take, <1>RunJob, <1>p, <1>SearchEnter, <1>SearchGate, <1>SearchEnd,
             <1>q, <1>c, <1>UpdateEnter, <1>UpdateMutex, <1>UpdateGate, <1>UpdateResume,
             <1>b, <1>UpdateIndexed, <1>UpdateSaved, <1>UpdateFails, <1>UpdateSaveFails,
             <1>StopProducers, <1>RequestStop, <1>StopWait
             DEF Next, SearchStep, UpdateStep, StopStep
  <1> QED  BY <1>u, <1>n

-----------------------------------------------------------------------------
(* The invariant holds initially, and so always.                           *)

\* The invariant holds in the state in which the server is constructed.
LEMMA ServerInvInit == Init => ServerInv
  <1> SUFFICES ASSUME Init PROVE ServerInv
    OBVIOUS
  <1>1. queue \in Seq(Tasks) /\ Len(queue) = 0
    BY EmptySeq DEF Init
  <1>2. Searches \subseteq Tasks /\ Updates \subseteq Tasks
    BY DEF Tasks, Calls
  <1> QED  BY <1>1, <1>2 DEF Init, ServerInv, Typed, QueueOk, SleepOk, MutexOk, WriteOk,
           ReadOk, Labels, Waiting, Holding, Writing

\* ServerInv is an invariant.
LEMMA ServerInvariant == Spec => []ServerInv
  BY ServerInvInit, ServerInvStep, PTL DEF Spec

\* updateM serialises updateStep: two updates never overlap, whoever asked
\* for them and however many wait for the mutex on pool threads.
THEOREM ServerOneUpdate == Spec => []OneUpdate
  <1>1. ServerInv => OneUpdate
    BY DEF ServerInv, MutexOk, OneUpdate, Holding
  <1> QED  BY <1>1, ServerInvariant, PTL

\* searchM keeps searches out: none reads the index from the moment an update
\* starts to change it until it has been saved.
THEOREM ServerNoSearchDuringUpdate == Spec => []NoSearchDuringUpdate
  <1>1. ServerInv => NoSearchDuringUpdate
    BY ServerAssumption DEF ServerInv, WriteOk, ReadOk, Writing, NoSearchDuringUpdate, Calls
  <1> QED  BY <1>1, ServerInvariant, PTL

-----------------------------------------------------------------------------
(* The type of the state, with the number of tasks the pool runs.          *)

Rest ==
    /\ updateM \in Updates \cup {Nobody} /\ searchWriter \in Updates \cup {Nobody}
    /\ updateIsRunning \in BOOLEAN /\ mustStartUpdate \in BOOLEAN
    /\ work \in BOOLEAN /\ stopping \in BOOLEAN /\ closed \in BOOLEAN
    /\ faults \in 0 .. MaxFaults
    /\ stopPc \in {"run", "request", "wait", "stopped"}

SleepersOnly == \A s \in Searches : pc[s] = "asleep" => s \in asleep
PoolOk == Cardinality(Running) <= PoolThreads

TypeInv == Rest /\ SleepersOnly /\ PoolOk

\* There are finitely many tasks, and so of tasks that hold a thread.
LEMMA RunningFinite == IsFiniteSet(Running)
  <1>1. IsFiniteSet(Updates) /\ IsFiniteSet(Searches)
    BY ServerAssumption, FS_Union DEF Updates
  <1>2. IsFiniteSet(Jobs)
    <2> DEFINE posts == [u \in Updates |-> Job(u)]
    <2>1. posts \in Surjection(Updates, Jobs)
      BY DEF Surjection, Jobs
    <2> QED  BY <1>1, <2>1, FS_Surjection
  <1>3. IsFiniteSet(Tasks)
    BY <1>1, <1>2, FS_Union DEF Tasks, Calls
  <1> QED  BY <1>3, FS_Subset DEF Running

\* Only Take gives a task a thread; it takes one that is free.
LEMMA PoolStep ==
    ASSUME ServerInv, PoolOk, Next
    PROVE  PoolOk'
  <1> USE ServerAssumption
  <1>s. Searches \subseteq Tasks /\ Updates \subseteq Tasks /\ Jobs \subseteq Tasks
    BY DEF Tasks, Calls
  <1>t. pc \in [Tasks -> Labels]
    BY DEF ServerInv, Typed
  <1>a. \A t \in Tasks : t \in asleep => pc[t] = "asleep"
    BY DEF ServerInv, SleepOk
  <1>r. ASSUME Running' \subseteq Running PROVE PoolOk'
    <2>1. Cardinality(Running') <= Cardinality(Running)
      BY <1>r, RunningFinite, FS_Subset
    <2>2. Cardinality(Running') \in Nat /\ Cardinality(Running) \in Nat
      BY <1>r, RunningFinite, FS_Subset, FS_CardinalityType
    <2> QED  BY <2>1, <2>2 DEF PoolOk
  <1>Take. ASSUME Take PROVE PoolOk'
    <2>1. PICK t \in Tasks : t = Head(queue) /\ pc[t] = "queued"
      BY <1>Take, TakeQueue DEF Take, ServerInv
    <2>2. Running' = Running \cup {t} /\ t \notin Running
      BY <1>Take, <1>t, <2>1 DEF Take, Go, Running, Waiting
    <2>3. Cardinality(Running') = Cardinality(Running) + 1
      BY <2>2, RunningFinite, FS_AddElement
    <2>4. Cardinality(Running) \in Nat /\ Cardinality(Running) < PoolThreads
      BY <1>Take, RunningFinite, FS_CardinalityType DEF Take
    <2> QED  BY <2>3, <2>4 DEF PoolOk
  <1>RunJob. ASSUME NEW j \in Jobs, RunJob(j) PROVE PoolOk'
    <2>1. Running' \subseteq Running
      BY <1>RunJob, <1>s, <1>t, <1>a DEF RunJob, Go, Running, Waiting, IndexIdle, Jobs
    <2> QED  BY <2>1, <1>r
  <1>PostSearch. ASSUME NEW s \in Searches, PostSearch(s) PROVE PoolOk'
    <2>1. Running' \subseteq Running
      BY <1>PostSearch, <1>s, <1>t, <1>a DEF PostSearch, Go, Running, Waiting, IndexIdle, Jobs
    <2> QED  BY <2>1, <1>r
  <1>SearchEnter. ASSUME NEW s \in Searches, SearchEnter(s) PROVE PoolOk'
    <2>1. Running' \subseteq Running
      BY <1>SearchEnter, <1>s, <1>t, <1>a DEF SearchEnter, Go, Running, Waiting, IndexIdle, Jobs
    <2> QED  BY <2>1, <1>r
  <1>SearchGate. ASSUME NEW s \in Searches, SearchGate(s) PROVE PoolOk'
    <2>1. Running' \subseteq Running
      BY <1>SearchGate, <1>s, <1>t, <1>a DEF SearchGate, Go, Running, Waiting, IndexIdle, Jobs
    <2> QED  BY <2>1, <1>r
  <1>SearchEnd. ASSUME NEW s \in Searches, SearchEnd(s) PROVE PoolOk'
    <2>1. Running' \subseteq Running
      BY <1>SearchEnd, <1>s, <1>t, <1>a DEF SearchEnd, Go, Running, Waiting, IndexIdle, Jobs
    <2> QED  BY <2>1, <1>r
  <1>PostPeriodic. ASSUME NEW u \in Updates, PostPeriodic(u) PROVE PoolOk'
    <2>1. Running' \subseteq Running
      BY <1>PostPeriodic, <1>s, <1>t, <1>a DEF PostPeriodic, Go, Running, Waiting, IndexIdle, Jobs
    <2> QED  BY <2>1, <1>r
  <1>PostCommand. ASSUME NEW u \in Updates, PostCommand(u) PROVE PoolOk'
    <2>1. Running' \subseteq Running
      BY <1>PostCommand, <1>s, <1>t, <1>a DEF PostCommand, Go, Running, Waiting, IndexIdle, Jobs
    <2> QED  BY <2>1, <1>r
  <1>UpdateEnter. ASSUME NEW u \in Updates, UpdateEnter(u) PROVE PoolOk'
    <2>1. Running' \subseteq Running
      BY <1>UpdateEnter, <1>s, <1>t, <1>a DEF UpdateEnter, Go, Running, Waiting, IndexIdle, Jobs
    <2> QED  BY <2>1, <1>r
  <1>UpdateMutex. ASSUME NEW u \in Updates, UpdateMutex(u) PROVE PoolOk'
    <2>1. Running' \subseteq Running
      BY <1>UpdateMutex, <1>s, <1>t, <1>a DEF UpdateMutex, Go, Running, Waiting, IndexIdle, Jobs
    <2> QED  BY <2>1, <1>r
  <1>UpdateGate. ASSUME NEW u \in Updates, UpdateGate(u) PROVE PoolOk'
    <2>1. Running' \subseteq Running
      BY <1>UpdateGate, <1>s, <1>t, <1>a DEF UpdateGate, Go, Running, Waiting, IndexIdle, Jobs
    <2> QED  BY <2>1, <1>r
  <1>UpdateResume. ASSUME NEW u \in Updates, UpdateResume(u) PROVE PoolOk'
    <2>1. Running' \subseteq Running
      BY <1>UpdateResume, <1>s, <1>t, <1>a DEF UpdateResume, Go, Running, Waiting, IndexIdle, Jobs
    <2> QED  BY <2>1, <1>r
  <1>UpdateBegin. ASSUME NEW u \in Updates, UpdateBegin(u) PROVE PoolOk'
    <2>1. Running' \subseteq Running
      BY <1>UpdateBegin, <1>s, <1>t, <1>a DEF UpdateBegin, Go, Running, Waiting, IndexIdle, Jobs
    <2> QED  BY <2>1, <1>r
  <1>UpdateIndexed. ASSUME NEW u \in Updates, UpdateIndexed(u) PROVE PoolOk'
    <2>1. Running' \subseteq Running
      BY <1>UpdateIndexed, <1>s, <1>t, <1>a DEF UpdateIndexed, Go, Running, Waiting, IndexIdle, Jobs
    <2> QED  BY <2>1, <1>r
  <1>UpdateFails. ASSUME NEW u \in Updates, UpdateFails(u) PROVE PoolOk'
    <2>1. Running' \subseteq Running
      BY <1>UpdateFails, <1>s, <1>t, <1>a DEF UpdateFails, Go, Running, Waiting, IndexIdle, Jobs, Release, Woken
    <2> QED  BY <2>1, <1>r
  <1>UpdateSaved. ASSUME NEW u \in Updates, UpdateSaved(u) PROVE PoolOk'
    <2>1. Running' \subseteq Running
      BY <1>UpdateSaved, <1>s, <1>t, <1>a DEF UpdateSaved, Go, Running, Waiting, IndexIdle, Jobs, Release, Woken
    <2> QED  BY <2>1, <1>r
  <1>UpdateSaveFails. ASSUME NEW u \in Updates, UpdateSaveFails(u) PROVE PoolOk'
    <2>1. Running' \subseteq Running
      BY <1>UpdateSaveFails, <1>s, <1>t, <1>a DEF UpdateSaveFails, Go, Running, Waiting, IndexIdle, Jobs, Release
    <2> QED  BY <2>1, <1>r
  <1>StopProducers. ASSUME StopProducers PROVE PoolOk'
    <2>1. Running' \subseteq Running
      BY <1>StopProducers, <1>s, <1>t, <1>a DEF StopProducers, Go, Running, Waiting, IndexIdle, Jobs
    <2> QED  BY <2>1, <1>r
  <1>RequestStop. ASSUME RequestStop PROVE PoolOk'
    <2>1. Running' \subseteq Running
      BY <1>RequestStop, <1>s, <1>t, <1>a DEF RequestStop, Go, Running, Waiting, IndexIdle, Jobs, Woken
    <2> QED  BY <2>1, <1>r
  <1>StopWait. ASSUME StopWait PROVE PoolOk'
    <2>1. Running' \subseteq Running
      BY <1>StopWait, <1>s, <1>t, <1>a DEF StopWait, Go, Running, Waiting, IndexIdle, Jobs
    <2> QED  BY <2>1, <1>r
  <1> HIDE DEF PoolOk
  <1> QED  BY <1>Take, <1>RunJob, <1>PostSearch, <1>SearchEnter, <1>SearchGate,
             <1>SearchEnd, <1>PostPeriodic, <1>PostCommand,
             <1>UpdateEnter, <1>UpdateMutex, <1>UpdateGate,
             <1>UpdateResume, <1>UpdateBegin, <1>UpdateIndexed,
             <1>UpdateFails, <1>UpdateSaved, <1>UpdateSaveFails,
             <1>StopProducers, <1>RequestStop, <1>StopWait
           DEF Next, SearchStep, UpdateStep, StopStep

\* The other parts, one step per action.
LEMMA RestStep ==
    ASSUME ServerInv, Rest, SleepersOnly, Next
    PROVE  Rest' /\ SleepersOnly'
  <1> USE ServerAssumption
  <1>s. Searches \subseteq Tasks /\ Updates \subseteq Tasks /\ Jobs \subseteq Tasks
    BY DEF Tasks, Calls
  <1>d. Searches \cap Updates = {} /\ Jobs \cap Searches = {}
    BY DEF Calls
  <1>t. pc \in [Tasks -> Labels]
    BY DEF ServerInv, Typed
  <1>Take. ASSUME Take PROVE Rest' /\ SleepersOnly'
    BY <1>Take, <1>s, <1>d, <1>t DEF Take, Go, Rest, SleepersOnly
  <1>RunJob. ASSUME NEW j \in Jobs, RunJob(j) PROVE Rest' /\ SleepersOnly'
    BY <1>RunJob, <1>s, <1>d, <1>t DEF RunJob, Go, Rest, SleepersOnly
  <1>PostSearch. ASSUME NEW s \in Searches, PostSearch(s) PROVE Rest' /\ SleepersOnly'
    BY <1>PostSearch, <1>s, <1>d, <1>t DEF PostSearch, Go, Rest, SleepersOnly
  <1>SearchEnter. ASSUME NEW s \in Searches, SearchEnter(s) PROVE Rest' /\ SleepersOnly'
    BY <1>SearchEnter, <1>s, <1>d, <1>t DEF SearchEnter, Go, Rest, SleepersOnly
  <1>SearchGate. ASSUME NEW s \in Searches, SearchGate(s) PROVE Rest' /\ SleepersOnly'
    BY <1>SearchGate, <1>s, <1>d, <1>t DEF SearchGate, Go, Rest, SleepersOnly
  <1>SearchEnd. ASSUME NEW s \in Searches, SearchEnd(s) PROVE Rest' /\ SleepersOnly'
    BY <1>SearchEnd, <1>s, <1>d, <1>t DEF SearchEnd, Go, Rest, SleepersOnly
  <1>PostPeriodic. ASSUME NEW u \in Updates, PostPeriodic(u) PROVE Rest' /\ SleepersOnly'
    BY <1>PostPeriodic, <1>s, <1>d, <1>t DEF PostPeriodic, Go, Rest, SleepersOnly
  <1>PostCommand. ASSUME NEW u \in Updates, PostCommand(u) PROVE Rest' /\ SleepersOnly'
    BY <1>PostCommand, <1>s, <1>d, <1>t DEF PostCommand, Go, Rest, SleepersOnly
  <1>UpdateEnter. ASSUME NEW u \in Updates, UpdateEnter(u) PROVE Rest' /\ SleepersOnly'
    BY <1>UpdateEnter, <1>s, <1>d, <1>t DEF UpdateEnter, Go, Rest, SleepersOnly
  <1>UpdateMutex. ASSUME NEW u \in Updates, UpdateMutex(u) PROVE Rest' /\ SleepersOnly'
    BY <1>UpdateMutex, <1>s, <1>d, <1>t DEF UpdateMutex, Go, Rest, SleepersOnly
  <1>UpdateGate. ASSUME NEW u \in Updates, UpdateGate(u) PROVE Rest' /\ SleepersOnly'
    BY <1>UpdateGate, <1>s, <1>d, <1>t DEF UpdateGate, Go, Rest, SleepersOnly
  <1>UpdateResume. ASSUME NEW u \in Updates, UpdateResume(u) PROVE Rest' /\ SleepersOnly'
    BY <1>UpdateResume, <1>s, <1>d, <1>t DEF UpdateResume, Go, Rest, SleepersOnly
  <1>UpdateBegin. ASSUME NEW u \in Updates, UpdateBegin(u) PROVE Rest' /\ SleepersOnly'
    BY <1>UpdateBegin, <1>s, <1>d, <1>t DEF UpdateBegin, Go, Rest, SleepersOnly
  <1>UpdateIndexed. ASSUME NEW u \in Updates, UpdateIndexed(u) PROVE Rest' /\ SleepersOnly'
    BY <1>UpdateIndexed, <1>s, <1>d, <1>t DEF UpdateIndexed, Go, Rest, SleepersOnly
  <1>UpdateFails. ASSUME NEW u \in Updates, UpdateFails(u) PROVE Rest' /\ SleepersOnly'
    <2>1. Rest'
      <3>1. UNCHANGED <<work, stopping, closed, stopPc>>
        BY <1>UpdateFails DEF UpdateFails
      <3>2. /\ updateM' = Nobody /\ searchWriter' = Nobody /\ faults' \in 0 .. MaxFaults
            /\ updateIsRunning' = FALSE /\ mustStartUpdate' = FALSE
        BY <1>UpdateFails DEF UpdateFails, Release, Rest
      <3> QED  BY <3>1, <3>2 DEF Rest
    <2>2. pc' = [t \in Tasks |-> IF t = u THEN "done"
                               ELSE IF t \in asleep THEN "lock" ELSE pc[t]]
      BY <1>UpdateFails, <1>s DEF UpdateFails, Woken
    <2>3. SleepersOnly'
      BY <2>2, <1>s DEF SleepersOnly
    <2> QED  BY <2>1, <2>3
  <1>UpdateSaved. ASSUME NEW u \in Updates, UpdateSaved(u) PROVE Rest' /\ SleepersOnly'
    <2>1. Rest'
      <3>1. UNCHANGED <<work, stopping, closed, stopPc>>
        BY <1>UpdateSaved DEF UpdateSaved
      <3>2. /\ updateM' = Nobody /\ searchWriter' = Nobody /\ faults' \in 0 .. MaxFaults
            /\ updateIsRunning' = FALSE /\ mustStartUpdate' = FALSE
        BY <1>UpdateSaved DEF UpdateSaved, Release, Rest
      <3> QED  BY <3>1, <3>2 DEF Rest
    <2>2. pc' = [t \in Tasks |-> IF t = u THEN "done"
                               ELSE IF t \in asleep THEN "lock" ELSE pc[t]]
      BY <1>UpdateSaved, <1>s DEF UpdateSaved, Woken
    <2>3. SleepersOnly'
      BY <2>2, <1>s DEF SleepersOnly
    <2> QED  BY <2>1, <2>3
  <1>UpdateSaveFails. ASSUME NEW u \in Updates, UpdateSaveFails(u) PROVE Rest' /\ SleepersOnly'
    BY <1>UpdateSaveFails, <1>s, <1>d, <1>t DEF UpdateSaveFails, Go, Rest, SleepersOnly, Release
  <1>StopProducers. ASSUME StopProducers PROVE Rest' /\ SleepersOnly'
    BY <1>StopProducers, <1>s, <1>d, <1>t DEF StopProducers, Go, Rest, SleepersOnly
  <1>RequestStop. ASSUME RequestStop PROVE Rest' /\ SleepersOnly'
    BY <1>RequestStop, <1>s, <1>d, <1>t DEF RequestStop, Go, Rest, SleepersOnly, Woken
  <1>StopWait. ASSUME StopWait PROVE Rest' /\ SleepersOnly'
    BY <1>StopWait, <1>s, <1>d, <1>t DEF StopWait, Go, Rest, SleepersOnly
  <1> HIDE DEF Rest, SleepersOnly
  <1> QED  BY <1>Take, <1>RunJob, <1>PostSearch, <1>SearchEnter, <1>SearchGate,
             <1>SearchEnd, <1>PostPeriodic, <1>PostCommand,
             <1>UpdateEnter, <1>UpdateMutex, <1>UpdateGate,
             <1>UpdateResume, <1>UpdateBegin, <1>UpdateIndexed,
             <1>UpdateFails, <1>UpdateSaved, <1>UpdateSaveFails,
             <1>StopProducers, <1>RequestStop, <1>StopWait
           DEF Next, SearchStep, UpdateStep, StopStep

\* TypeInv is an invariant, relative to ServerInv.
LEMMA TypeInvariant == Spec => []TypeInv
  <1>1. Init => TypeInv
    <2> SUFFICES ASSUME Init PROVE TypeInv
      OBVIOUS
    <2>1. Running = {}
      <3>1. \A t \in Tasks : pc[t] = "none"
        BY DEF Init
      <3> QED  BY <3>1 DEF Running, Waiting
    <2>2. PoolOk
      BY <2>1, FS_EmptySet, ServerAssumption DEF PoolOk
    <2>3. Searches \subseteq Tasks
      BY DEF Tasks, Calls
    <2>4. SleepersOnly
      BY <2>3 DEF Init, SleepersOnly
    <2>5. 0 \in 0 .. MaxFaults
      BY ServerAssumption
    <2>6. Rest
      BY <2>5 DEF Init, Rest
    <2> QED  BY <2>2, <2>4, <2>6 DEF TypeInv
  <1>2. ServerInv /\ TypeInv /\ [Next]_vars => TypeInv'
    <2>1. CASE Next
      BY <2>1, PoolStep, RestStep DEF TypeInv
    <2>2. CASE UNCHANGED vars
      BY <2>2 DEF vars, TypeInv, Rest, SleepersOnly, PoolOk, Running
    <2> QED  BY <2>1, <2>2
  <1> QED  BY <1>1, <1>2, ServerInvariant, PTL DEF Spec

\* The state is well typed; a search is asleep exactly while it is on the
\* condition variable, so that no notify_all misses it; and the pool never runs
\* more tasks than it has threads, however many tasks are posted.
THEOREM ServerTypeSafety == Spec => []TypeOK
  <1>1. ServerInv /\ TypeInv => TypeOK
    BY DEF ServerInv, Typed, Labels, Holding, SleepOk, TypeInv, Rest, SleepersOnly,
       PoolOk, TypeOK
  <1> QED  BY <1>1, ServerInvariant, TypeInvariant, PTL
=============================================================================
