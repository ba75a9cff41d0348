---------------------- MODULE BatchIndexBuilderProofs ----------------------
(* Theorems about BatchIndexBuilder, for any number of readers, indexers and *)
(* files, any lane capacity and any set of faults.                           *)
EXTENDS BatchIndexBuilder, FiniteSetTheorems, SequenceTheorems,
        WellFoundedInduction, TLAPS

ReaderLabels == {"unborn", "job", "open", "acquire", "start", "read", "data",
                 "complete", "abort", "leave", "cancelWorkers", "cancelLanes",
                 "closeLanes", "exited"}
IndexerLabels == {"unborn", "pop", "release", "cancelWorkers", "cancelLanes",
                  "exited"}
MainLabels == {"spawn", "cancelWorkers", "cancelLanes", "joinReaders",
               "closeLanes", "joinIndexers", "threw", "returnedErrors",
               "returnedSnapshot"}

\* A reader at one of these labels holds an indexer.
Busy == {"start", "read", "data", "complete", "abort"}

(* Each kind of thread stays within its own code. *)
ThreadLabels ==
    /\ \A r \in Readers : pc[r] \in ReaderLabels
    /\ \A w \in Indexers : pc[w] \in IndexerLabels
    /\ pc[Main] \in MainLabels

(* What the locals of a reader mean at each point of its loop. *)
ReaderLocals ==
    \A r \in Readers :
      /\ pc[r] \in Busy \cup {"open", "acquire"} => rFile[r] \in Files
      /\ pc[r] \in Busy <=> rWorker[r] # NoWorker
      /\ pc[r] = "data" => rCount[r] > 0

TypeInv == TypeOK /\ ThreadLabels /\ ReaderLocals

---------------------------------------------------------------------------
\* The state in which build() starts its threads is well typed.
LEMMA InitTypeInv == Init => TypeInv
<1> SUFFICES ASSUME Init PROVE TypeInv
  OBVIOUS
<1>1. TypeOK
  <2>1. Cardinality(Readers) \in Int
    BY ConstantsAssumption, FS_CardinalityType
  <2>2. size \in [Files -> Nat]
    BY ConstantsAssumption DEF Init
  <2>3. queue \in [Indexers -> Seq(Block)]
    BY DEF Init
  <2>4. pc \in [Threads -> Labels]
    BY DEF Init, Labels
  <2>5. document \in [Indexers -> Document \cup {NoDoc}]
    BY DEF Init
  <2>6. dictionary \in [Indexers -> SUBSET Document]
    BY DEF Init
  <2>7. sweep \in [Threads -> SUBSET Indexers]
    BY DEF Init
  <2>8. rLast \in [Readers -> BOOLEAN] /\ closed \in [Indexers -> BOOLEAN] /\ cancelled \in [Indexers -> BOOLEAN]
    BY DEF Init
  <2>9. rFile \in [Readers -> Files \cup {0}] /\ rWorker \in [Readers -> Indexers \cup {NoWorker}]
    BY DEF Init
  <2>10. rLeft \in [Readers -> Nat] /\ rCount \in [Readers -> Nat]
    BY DEF Init
  <2>11. queuedBytes \in [Indexers -> Int]
    BY DEF Init
  <2> QED BY <2>1, <2>2, <2>3, <2>4, <2>5, <2>6, <2>7, <2>8, <2>9, <2>10, <2>11 DEF Init, TypeOK
<1>2. ThreadLabels
  BY ConstantsAssumption DEF Init, ThreadLabels, Threads, ReaderLabels, IndexerLabels, MainLabels
<1>3. ReaderLocals
  BY ConstantsAssumption DEF Init, ReaderLocals, Threads, Busy
<1> QED BY <1>1, <1>2, <1>3 DEF TypeInv

\* Every step of a reader, an indexer or the building thread keeps the types.
LEMMA NextTypeInv == TypeInv /\ [Next]_vars => TypeInv'
<1> SUFFICES ASSUME TypeInv, [Next]_vars PROVE TypeInv'
  OBVIOUS
<1> USE ConstantsAssumption
<1> USE DEF TypeInv, TypeOK, ThreadLabels, ReaderLocals, Threads, Labels, Goto,
        shared, pool, lanes, rVars, iVars, Busy, ReaderLabels, IndexerLabels, MainLabels, PushLabels
<1>1. ASSUME NEW r \in Readers, TakeJob(r) PROVE TypeInv'
  <2>1. ~NoMoreJobs => nextJob \in Files
    BY DEF NoMoreJobs, Files
  <2> QED BY <1>1, <2>1 DEF TakeJob
<1>2. ASSUME NEW r \in Readers, OpenFails(r) PROVE TypeInv'
  BY <1>2 DEF OpenFails, AddFileError, Forget
<1>3. ASSUME NEW r \in Readers, Open(r) PROVE TypeInv'
  BY <1>3 DEF Open
<1>4. ASSUME NEW r \in Readers, Acquire(r) PROVE TypeInv'
  BY <1>4 DEF Acquire, AwakeAt, Borrow
<1>37. ASSUME NEW r \in Readers, AcquireRefused(r) PROVE TypeInv'
  BY <1>37 DEF AcquireRefused, AwakeAt, Forget
<1>5. ASSUME NEW r \in Readers, AcquireWaits(r) PROVE TypeInv'
  BY <1>5 DEF AcquireWaits, Sleep, AwakeAt
<1>6. ASSUME NEW r \in Readers, Read(r) PROVE TypeInv'
  BY <1>6 DEF Read
<1>7. ASSUME NEW r \in Readers, ReadFails(r) PROVE TypeInv'
  BY <1>7 DEF ReadFails, AddFileError
<1>8. ASSUME NEW r \in Readers, Push(r) PROVE TypeInv'
  <2> DEFINE w == rWorker[r]
             b == NextBlock(r)
  <2>1. w \in Indexers /\ rFile[r] \in Files
    BY <1>8 DEF Push
  <2>2. PayloadSize \in Nat \ {0}
    BY DEF PayloadSize
  <2>3. b \in Block /\ (pc[r] = "data" => b.weight <= rCount[r])
    BY <1>8, <2>1, <2>2 DEF Push, NextBlock, Block
  <2> HIDE DEF b
  <2>9. b.weight \in Nat \ {0}
    BY <2>3 DEF Block
  <2>10. /\ queue' = [queue EXCEPT ![w] = Append(@, b)]
         /\ queuedBytes' = [queuedBytes EXCEPT ![w] = @ + b.weight]
         /\ asleep' = asleep \ {w}
         /\ UNCHANGED <<shared, pool, closed, cancelled, sweep, iVars, size>>
    BY <1>8 DEF Push, b
  <2>4. queue' \in [Indexers -> Seq(Block)] /\ queuedBytes' \in [Indexers -> Int]
    BY <2>1, <2>3, <2>9, <2>10
  <2>5. /\ rFile' \in [Readers -> Files \cup {0}]
        /\ rWorker' \in [Readers -> Indexers \cup {NoWorker}]
        /\ rLeft' \in [Readers -> Nat] /\ rCount' \in [Readers -> Nat]
        /\ rLast' \in [Readers -> BOOLEAN]
    <3>1. CASE pc[r] \in {"complete", "abort"}
      <4>1. Forget(r)
        BY <1>8, <3>1 DEF Push
      <4> QED BY <4>1 DEF Forget
    <3>2. CASE pc[r] \notin {"complete", "abort"}
      <4>1. UNCHANGED <<rFile, rWorker, rLeft, rLast>>
        BY <1>8, <3>2 DEF Push
      <4>2. \/ rCount' = [rCount EXCEPT ![r] = rCount[r]]
            \/ pc[r] = "data" /\ rCount' = [rCount EXCEPT ![r] = rCount[r] - b.weight]
        BY <1>8, <3>2 DEF Push, b
      <4>4. rCount[r] \in Nat /\ (pc[r] = "data" => rCount[r] - b.weight \in Nat)
        BY <2>3, <2>9
      <4>3. rCount' \in [Readers -> Nat]
        BY <4>2, <4>4
      <4> QED BY <4>1, <4>3
    <3> QED BY <3>1, <3>2
  <2>12. pc' \in [Threads -> Labels]
    BY <1>8 DEF Push
  <2>6. TypeOK'
    BY <2>4, <2>5, <2>10, <2>12
  <2>7. ThreadLabels'
    BY <1>8 DEF Push
  <2>8. ReaderLocals'
    <3>1. CASE pc[r] \in {"complete", "abort"}
      <4>1. Forget(r) /\ Goto(r, "job")
        BY <1>8, <3>1 DEF Push
      <4> QED BY <4>1 DEF Forget
    <3>2. CASE pc[r] = "start"
      <4>1. /\ Goto(r, "read") /\ UNCHANGED <<rFile, rWorker>>
            /\ \A s \in Readers : rCount'[s] = rCount[s]
        BY <1>8, <3>2 DEF Push
      <4> QED BY <2>1, <3>2, <4>1
    <3>3. CASE pc[r] = "data"
      <4>1. /\ UNCHANGED <<rFile, rWorker>>
            /\ rCount' = [rCount EXCEPT ![r] = rCount[r] - b.weight]
        BY <1>8, <3>3 DEF Push, b
      <4>2. \/ Goto(r, "data") /\ rCount[r] > b.weight
            \/ Goto(r, "complete") \/ Goto(r, "read")
        BY <1>8, <3>3 DEF Push, b
      <4> QED BY <2>1, <2>9, <3>3, <4>1, <4>2
    <3> QED BY <1>8, <3>1, <3>2, <3>3 DEF Push
  <2> QED BY <2>6, <2>7, <2>8
<1>9. ASSUME NEW r \in Readers, PushRefused(r) PROVE TypeInv'
  BY <1>9 DEF PushRefused, Forget
<1>10. ASSUME NEW r \in Readers, PushWaits(r) PROVE TypeInv'
  BY <1>10 DEF PushWaits, Sleep
<1>11. ASSUME NEW r \in Readers, ReaderThrows(r) PROVE TypeInv'
  BY <1>11 DEF ReaderThrows, SetFatal, Forget
<1>12. ASSUME NEW r \in Readers, Leave(r) PROVE TypeInv'
  BY <1>12 DEF Leave
<1>13. ASSUME NEW w \in Indexers, TakeBlock(w)
       PROVE  /\ Head(queue[w]) \in Block
              /\ queue' \in [Indexers -> Seq(Block)]
              /\ queuedBytes' \in [Indexers -> Int]
              /\ asleep' \subseteq Readers \cup Indexers
  <2>1. queue[w] \in Seq(Block) /\ queue[w] # << >>
    BY <1>13 DEF TakeBlock
  <2>2. Head(queue[w]) \in Block /\ Tail(queue[w]) \in Seq(Block)
    BY <2>1
  <2>3. Head(queue[w]).weight \in Int
    BY <2>2 DEF Block
  <2> QED BY <1>13, <2>2, <2>3 DEF TakeBlock
<1>14. ASSUME NEW w \in Indexers, PopStart(w) PROVE TypeInv'
  <2>1. [NoDoc EXCEPT !.fileId = Head(queue[w]).fileId] \in Document
    BY <1>13, <1>14 DEF PopStart, NoDoc, Document, Block
  <2> QED BY <1>13, <1>14, <2>1 DEF PopStart, TakeBlock
<1>15. ASSUME NEW w \in Indexers, PopData(w) PROVE TypeInv'
  <2>1. Tokenized(document[w], Head(queue[w])) \in Document
    <3>1. document[w] \in Document
      BY <1>15 DEF PopData, InSequence
    <3>2. Head(queue[w]).weight \in Nat /\ Head(queue[w]).isLastChunk \in BOOLEAN
      BY <1>13, <1>15 DEF PopData, Block
    <3> QED BY <3>1, <3>2 DEF Tokenized, Document
  <2> QED BY <1>13, <1>15, <2>1 DEF PopData, TakeBlock
<1>16. ASSUME NEW w \in Indexers, PopComplete(w) PROVE TypeInv'
  <2>1. document[w] \in Document
    BY <1>13, <1>16 DEF PopComplete, InSequence
  <2>5. dictionary' \in [Indexers -> SUBSET Document]
    BY <1>16, <2>1 DEF PopComplete
  <2>6. document' \in [Indexers -> Document \cup {NoDoc}]
    BY <1>16 DEF PopComplete
  <2>7. pc' \in [Threads -> Labels]
    BY <1>16 DEF PopComplete
  <2>2. TypeOK'
    <3>1. TakeBlock(w) /\ indexedFiles' = indexedFiles + 1
          /\ UNCHANGED <<nextJob, readersRemaining, fileErrors, fatalError>>
      BY <1>16 DEF PopComplete
    <3>2. /\ queue' \in [Indexers -> Seq(Block)]
          /\ queuedBytes' \in [Indexers -> Int]
          /\ asleep' \subseteq Readers \cup Indexers
      BY <1>13, <3>1
    <3>3. UNCHANGED <<closed, cancelled, pool, sweep, rVars, size>>
      BY <3>1 DEF TakeBlock
    <3>4. indexedFiles' \in Nat
      BY <3>1
    <3> QED BY <2>5, <2>6, <2>7, <3>1, <3>2, <3>3, <3>4
  <2>3. ThreadLabels'
    BY <1>16 DEF PopComplete
  <2>4. ReaderLocals'
    BY <1>16 DEF PopComplete, TakeBlock
  <2> QED BY <2>2, <2>3, <2>4
<1>17. ASSUME NEW w \in Indexers, PopAbort(w) PROVE TypeInv'
  <2>1. TypeOK'
    BY <1>17, <1>13 DEF PopAbort, TakeBlock
  <2>2. ThreadLabels'
    BY <1>17 DEF PopAbort, TakeBlock
  <2>3. ReaderLocals'
    BY <1>17 DEF PopAbort, TakeBlock
  <2> QED BY <2>1, <2>2, <2>3
<1>18. ASSUME NEW w \in Indexers, PopThrows(w) PROVE TypeInv'
  BY <1>13, <1>18 DEF PopThrows, TakeBlock, SetFatal
<1>19. ASSUME NEW w \in Indexers, PopWaits(w) PROVE TypeInv'
  BY <1>19 DEF PopWaits, Sleep
<1>20. ASSUME NEW w \in Indexers, IndexerExits(w) PROVE TypeInv'
  BY <1>20 DEF IndexerExits
<1>21. ASSUME NEW w \in Indexers, IndexerStopsInside(w) PROVE TypeInv'
  BY <1>21 DEF IndexerStopsInside, SetFatal
<1>22. ASSUME NEW w \in Indexers, Release(w) PROVE TypeInv'
  BY <1>22 DEF Release
<1>23. ASSUME NEW t \in Threads, CancelWorkers(t) PROVE TypeInv'
  BY <1>23 DEF CancelWorkers
<1>24. ASSUME NEW t \in Threads, NEW w \in Indexers, CancelLane(t, w) PROVE TypeInv'
  BY <1>24 DEF CancelLane
<1>25. ASSUME NEW t \in Threads, CancelDone(t) PROVE TypeInv'
  BY <1>25 DEF CancelDone
<1>26. ASSUME NEW t \in Threads, NEW w \in Indexers, CloseLane(t, w) PROVE TypeInv'
  BY <1>26 DEF CloseLane
<1>27. ASSUME NEW t \in Threads, CloseDone(t) PROVE TypeInv'
  BY <1>27 DEF CloseDone
<1>28. ASSUME NEW t \in Readers \cup Indexers, Spawn(t) PROVE TypeInv'
  BY <1>28 DEF Spawn
<1>29. ASSUME SpawnDone \/ SpawnFails PROVE TypeInv'
  <2>1. TypeOK'
    BY <1>29 DEF SpawnDone, SpawnFails, SetFatal
  <2>2. ThreadLabels'
    BY <1>29 DEF SpawnDone, SpawnFails, SetFatal
  <2>3. ReaderLocals'
    BY <1>29 DEF SpawnDone, SpawnFails, SetFatal
  <2> QED BY <2>1, <2>2, <2>3
<1>30. ASSUME JoinReaders \/ JoinIndexers PROVE TypeInv'
  <2>1. TypeOK'
    BY <1>30 DEF JoinReaders, JoinIndexers
  <2>2. ThreadLabels'
    BY <1>30 DEF JoinReaders, JoinIndexers
  <2>3. ReaderLocals'
    BY <1>30 DEF JoinReaders, JoinIndexers
  <2> QED BY <2>1, <2>2, <2>3
<1>31. ASSUME NEW t \in Readers \cup Indexers, SpuriousWakeup(t) PROVE TypeInv'
  BY <1>31 DEF SpuriousWakeup
<1>32. ASSUME UNCHANGED vars PROVE TypeInv'
  BY <1>32 DEF vars
<1>33. ASSUME NEW t \in Threads, Sweeping(t) PROVE TypeInv'
  BY <1>23, <1>24, <1>25, <1>26, <1>27, <1>33 DEF Sweeping
<1>34. ASSUME NEW r \in Readers, Reader(r) PROVE TypeInv'
  BY <1>1, <1>2, <1>3, <1>4, <1>5, <1>6, <1>7, <1>8, <1>9, <1>10, <1>11, <1>12,
     <1>33, <1>34, <1>37 DEF Reader
<1>35. ASSUME NEW w \in Indexers, Indexer(w) PROVE TypeInv'
  BY <1>14, <1>15, <1>16, <1>17, <1>18, <1>19, <1>20, <1>21, <1>22, <1>33, <1>35
  DEF Indexer
<1>36. ASSUME Builder PROVE TypeInv'
  BY <1>28, <1>29, <1>30, <1>33, <1>36 DEF Builder
<1> QED BY <1>31, <1>32, <1>34, <1>35, <1>36 DEF Next, Terminated

(* Every variable of the builder keeps its type, whatever the interleaving.
   It needs ReaderLocals: a block is well formed only because a reader that
   is about to push holds a file, and has bytes left when it pushes data. *)
THEOREM BatchTypeSafety == Spec => []TypeOK
<1>1. TypeInv => TypeOK
  BY DEF TypeInv
<1> QED BY <1>1, InitTypeInv, NextTypeInv, PTL DEF Spec

---------------------------------------------------------------------------
(* The inductive invariant behind the safety of the hand-over of indexers. *)

Failing == {"cancelWorkers", "cancelLanes"}

(* The pool and then the lanes are cancelled, only after a fatal error was
   recorded; a thread that ends its cancellation sweep has cancelled every lane; and a cancelled lane
   stays empty. *)
CancelInv ==
    /\ workersCancelled => fatalError # "none"
    /\ \A w \in Indexers : cancelled[w] => workersCancelled /\ queue[w] = << >>
    /\ \A t \in Threads : pc[t] \in Failing => fatalError # "none"
    /\ \A t \in Threads : pc[t] = "cancelLanes" =>
          workersCancelled /\ \A w \in Indexers \ sweep[t] : cancelled[w]

Left == {r \in Readers : pc[r] \in {"closeLanes", "exited"}}

(* No reader is, or will be, in its loop. *)
ReadersGone ==
    \A r \in Readers : /\ pc[r] \in {"unborn", "closeLanes", "exited"}
                       /\ pc[r] = "unborn" => pc[Main] # "spawn"

(* readersRemaining counts the readers that have not left, and a lane is closed
   only when all of them have. *)
CloseInv ==
    /\ readersRemaining = Cardinality(Readers \ Left)
    /\ (\E w \in Indexers : closed[w]) => ReadersGone
    /\ (\E t \in Threads : pc[t] = "closeLanes") => ReadersGone

Idle(w) == queue[w] = << >> /\ document[w] = NoDoc

Terminal == {"Complete", "Abort"}

(* What is queued for w continues the document w is building: it is the rest of
   the blocks of one file, Start first and a terminal block last. *)
Stream(w, f) ==
    /\ \A i \in 1 .. Len(queue[w]) :
          /\ queue[w][i].fileId = f
          /\ queue[w][i].kind = "Start" <=> (i = 1 /\ document[w] = NoDoc)
          /\ queue[w][i].kind \in Terminal => i = Len(queue[w])
    /\ document[w] # NoDoc => document[w].fileId = f
    /\ document[w] = NoDoc => queue[w] # << >>

NoTerminal(w) == \A i \in 1 .. Len(queue[w]) : queue[w][i].kind \notin Terminal

Held(w) == \E r \in Readers : rWorker[r] = w

(* The life of an indexer that has not failed: offered, held, draining, and
   about to be offered again. *)
Shape(w) ==
    /\ w \in workers => Idle(w) /\ ~Held(w) /\ pc[w] # "release"
    /\ pc[w] = "release" => Idle(w) /\ ~Held(w)
    /\ \A r \in Readers : rWorker[r] = w =>
          IF pc[r] = "start" THEN Idle(w) ELSE Stream(w, rFile[r]) /\ NoTerminal(w)
    /\ w \notin workers /\ ~Held(w) /\ pc[w] # "release" =>
          /\ fatalError = "none" => queue[w] # << >> /\ ~NoTerminal(w)
          /\ ~Idle(w) => \E f \in Files : Stream(w, f)

WorkerInv(w) ==
    ~cancelled[w] => IF pc[w] \in Failing THEN w \notin workers ELSE Shape(w)

HoldersDistinct ==
    \A r, s \in Readers : rWorker[r] = rWorker[s] /\ rWorker[r] # NoWorker => r = s

ShapeInv == HoldersDistinct /\ \A w \in Indexers : WorkerInv(w)

SafetyInv == TypeInv /\ CancelInv /\ CloseInv /\ ShapeInv /\ NoProtocolError

\* Nothing is cancelled when the build starts.
LEMMA InitCancelInv == Init => CancelInv
BY ConstantsAssumption DEF Init, CancelInv, Threads, Failing

\* Every cancelled queue is explained by a fatal error, whatever step is taken.
LEMMA NextCancelInv == TypeInv /\ CancelInv /\ [Next]_vars => CancelInv'
<1> SUFFICES ASSUME TypeInv, CancelInv, [Next]_vars PROVE CancelInv'
  OBVIOUS
<1> USE ConstantsAssumption
<1> USE DEF TypeInv, TypeOK, ThreadLabels, ReaderLocals, CancelInv, Threads, Goto,
        shared, pool, lanes, rVars, iVars, Failing, IndexerLabels, PushLabels
<1>2. ASSUME NEW r \in Readers,
             \/ TakeJob(r) \/ OpenFails(r) \/ Open(r) \/ Acquire(r) \/ AcquireRefused(r)
             \/ AcquireWaits(r) \/ Read(r) \/ ReadFails(r) \/ PushRefused(r)
             \/ PushWaits(r) \/ Leave(r)
      PROVE  CancelInv'
  BY <1>2 DEF TakeJob, OpenFails, Open, Acquire, AcquireRefused, AcquireWaits, Read,
              ReadFails, PushRefused, PushWaits, Sleep, Leave, Borrow
<1>3. ASSUME NEW r \in Readers, Push(r) PROVE CancelInv'
  BY <1>3 DEF Push
<1>4. ASSUME NEW r \in Readers, ReaderThrows(r) PROVE CancelInv'
  BY <1>4 DEF ReaderThrows, SetFatal
<1>5. ASSUME NEW w \in Indexers, PopStart(w) \/ PopData(w) PROVE CancelInv'
  BY <1>5 DEF PopStart, PopData, TakeBlock
<1>6. ASSUME NEW w \in Indexers, PopComplete(w) \/ PopAbort(w) PROVE CancelInv'
  BY <1>6 DEF PopComplete, PopAbort, TakeBlock
<1>7. ASSUME NEW w \in Indexers, PopThrows(w) PROVE CancelInv'
  BY <1>7 DEF PopThrows, TakeBlock, SetFatal
<1>8. ASSUME NEW w \in Indexers, PopWaits(w) \/ IndexerExits(w) PROVE CancelInv'
  <2>1. UNCHANGED pc \/ Goto(w, "exited")
    BY <1>8 DEF PopWaits, Sleep, IndexerExits
  <2>2. UNCHANGED <<shared, pool, lanes, sweep>>
    BY <1>8 DEF PopWaits, Sleep, IndexerExits
  <2> QED BY <2>1, <2>2
<1>1. ASSUME NEW w \in Indexers, Release(w) PROVE CancelInv'
  <2>1. Goto(w, "pop") /\ UNCHANGED <<shared, workersCancelled, lanes, sweep>>
    BY <1>1 DEF Release
  <2> QED BY <2>1
<1>9. ASSUME NEW w \in Indexers, IndexerStopsInside(w) PROVE CancelInv'
  BY <1>9 DEF IndexerStopsInside, SetFatal
<1>10. ASSUME NEW t \in Threads, CancelWorkers(t) PROVE CancelInv'
  BY <1>10 DEF CancelWorkers
<1>11. ASSUME NEW t \in Threads, NEW w \in Indexers, CancelLane(t, w) PROVE CancelInv'
  BY <1>11 DEF CancelLane
<1>12. ASSUME NEW t \in Threads, CancelDone(t) \/ CloseDone(t) PROVE CancelInv'
  <2>1. \E label \in {"leave", "exited", "joinReaders", "joinIndexers"} : Goto(t, label)
    BY <1>12 DEF CancelDone, CloseDone
  <2>2. UNCHANGED <<shared, pool, lanes, sweep>>
    BY <1>12 DEF CancelDone, CloseDone
  <2> QED BY <2>1, <2>2
<1>13. ASSUME NEW t \in Threads, NEW w \in Indexers, CloseLane(t, w) PROVE CancelInv'
  BY <1>13 DEF CloseLane
<1>14. ASSUME NEW t \in Readers \cup Indexers, Spawn(t) PROVE CancelInv'
  BY <1>14 DEF Spawn
<1>15. ASSUME SpawnDone \/ JoinReaders \/ JoinIndexers PROVE CancelInv'
  BY <1>15 DEF SpawnDone, JoinReaders, JoinIndexers
<1>16. ASSUME SpawnFails PROVE CancelInv'
  BY <1>16 DEF SpawnFails, SetFatal
<1>17. ASSUME NEW t \in Readers \cup Indexers, SpuriousWakeup(t) PROVE CancelInv'
  BY <1>17 DEF SpuriousWakeup
<1>18. ASSUME UNCHANGED vars PROVE CancelInv'
  BY <1>18 DEF vars
<1>19. ASSUME NEW t \in Threads, Sweeping(t) PROVE CancelInv'
  BY <1>10, <1>11, <1>12, <1>13, <1>19 DEF Sweeping
<1>20. ASSUME NEW r \in Readers, Reader(r) PROVE CancelInv'
  BY <1>2, <1>3, <1>4, <1>19, <1>20 DEF Reader
<1>21. ASSUME NEW w \in Indexers, Indexer(w) PROVE CancelInv'
  BY <1>1, <1>5, <1>6, <1>7, <1>8, <1>9, <1>19, <1>21 DEF Indexer
<1>22. ASSUME Builder PROVE CancelInv'
  BY <1>14, <1>15, <1>16, <1>19, <1>22 DEF Builder
<1> QED BY <1>17, <1>18, <1>20, <1>21, <1>22 DEF Next, Terminated

\* No lane is closed when the build starts.
LEMMA InitCloseInv == Init => CloseInv
<1> SUFFICES ASSUME Init PROVE CloseInv
  OBVIOUS
<1>1. Left = {}
  BY ConstantsAssumption DEF Init, Left, Threads
<1>2. Readers \ Left = Readers
  BY <1>1
<1> QED BY <1>2, ConstantsAssumption DEF Init, CloseInv, Threads

\* A lane is closed only once no reader can push to it again.
LEMMA NextCloseInv == TypeInv /\ CloseInv /\ [Next]_vars => CloseInv'
<1> SUFFICES ASSUME TypeInv, CloseInv, [Next]_vars PROVE CloseInv'
  OBVIOUS
<1> USE ConstantsAssumption
<1> USE DEF TypeInv, TypeOK, ThreadLabels, ReaderLocals, Threads, Goto,
        shared, pool, lanes, rVars, iVars, ReaderLabels, IndexerLabels, MainLabels, PushLabels, Busy
\* Steps of readers within their loop, and of indexers, close nothing.
<1>1. ASSUME Left' = Left, UNCHANGED <<readersRemaining, closed>>,
             ReadersGone => ReadersGone',
             \A t \in Threads : pc'[t] = "closeLanes" => pc[t] = "closeLanes"
      PROVE  CloseInv'
  BY <1>1 DEF CloseInv
<1>2. ASSUME NEW r \in Readers,
             \/ TakeJob(r) \/ OpenFails(r) \/ Open(r) \/ Acquire(r) \/ AcquireRefused(r)
             \/ AcquireWaits(r) \/ Read(r) \/ ReadFails(r) \/ PushRefused(r)
             \/ PushWaits(r) \/ ReaderThrows(r)
      PROVE  CloseInv'
  <2>1. UNCHANGED <<readersRemaining, closed>>
    BY <1>2 DEF TakeJob, OpenFails, Open, Acquire, AcquireRefused, AcquireWaits, Read,
                ReadFails, PushRefused, PushWaits, ReaderThrows, Sleep
  <2>2. /\ pc[r] \notin {"unborn", "closeLanes", "exited"}
        /\ UNCHANGED pc \/ \E label \in ReaderLabels \ {"unborn", "closeLanes", "exited"} : Goto(r, label)
    BY <1>2 DEF TakeJob, OpenFails, Open, Acquire, AcquireRefused, AcquireWaits, Read,
                ReadFails, PushRefused, PushWaits, ReaderThrows, Sleep, AwakeAt, SetFatal
  <2>3. Left' = Left /\ ~ReadersGone /\ \A t \in Threads : pc'[t] = "closeLanes" => pc[t] = "closeLanes"
    BY <2>2 DEF Left, ReadersGone
  <2> QED BY <1>1, <2>1, <2>3
<1>3. ASSUME NEW r \in Readers, Push(r) PROVE CloseInv'
  <2>1. UNCHANGED <<readersRemaining, closed>>
    BY <1>3 DEF Push
  <2>2. /\ pc[r] \notin {"unborn", "closeLanes", "exited"}
        /\ \E label \in ReaderLabels \ {"unborn", "closeLanes", "exited"} : Goto(r, label)
    BY <1>3 DEF Push
  <2>3. Left' = Left /\ ~ReadersGone /\ \A t \in Threads : pc'[t] = "closeLanes" => pc[t] = "closeLanes"
    BY <2>2 DEF Left, ReadersGone
  <2> QED BY <1>1, <2>1, <2>3
<1>4. ASSUME NEW r \in Readers, Leave(r) PROVE CloseInv'
  <2>1. r \notin Left /\ Left' = Left \cup {r}
    BY <1>4 DEF Leave, Left
  <2>2. Readers \ Left = (Readers \ Left') \cup {r} /\ r \notin Readers \ Left'
    BY <2>1
  <2>3. IsFiniteSet(Readers \ Left')
    BY FS_Difference
  <2>4. Cardinality(Readers \ Left) = Cardinality(Readers \ Left') + 1
        /\ Cardinality(Readers \ Left') \in Nat
    <3> DEFINE Rest == Readers \ Left'
    <3>1. IsFiniteSet(Rest) /\ r \notin Rest
      BY <2>2, <2>3
    <3> HIDE DEF Rest
    <3>2. Cardinality(Rest \cup {r}) = Cardinality(Rest) + 1 /\ Cardinality(Rest) \in Nat
      BY <3>1, FS_AddElement, FS_CardinalityType
    <3> QED BY <2>2, <3>2 DEF Rest
  <2>5. readersRemaining' = Cardinality(Readers \ Left')
    BY <1>4, <2>4 DEF Leave, CloseInv
  <2>6. ~ReadersGone /\ UNCHANGED closed
    BY <1>4 DEF Leave, ReadersGone
  <2>7. LastReader => ReadersGone'
    <3> SUFFICES ASSUME LastReader PROVE ReadersGone'
      OBVIOUS
    <3>1. Readers \ Left' = {}
      <4>1. Cardinality(Readers \ Left') = 0
        <5>1. readersRemaining = 1 /\ readersRemaining = Cardinality(Readers \ Left)
          BY DEF LastReader, CloseInv
        <5> QED BY <2>4, <5>1
      <4> HIDE DEF Left
      <4> QED BY <2>3, <4>1, FS_EmptySet
    <3> QED BY <3>1 DEF Left, ReadersGone
  <2>8. ~LastReader => \A t \in Threads : pc'[t] = "closeLanes" => pc[t] = "closeLanes"
    BY <1>4 DEF Leave
  <2> QED BY <2>5, <2>6, <2>7, <2>8 DEF CloseInv
<1>5. ASSUME NEW w \in Indexers,
             \/ PopStart(w) \/ PopData(w) \/ PopComplete(w) \/ PopAbort(w)
             \/ PopThrows(w) \/ PopWaits(w) \/ IndexerExits(w)
             \/ IndexerStopsInside(w) \/ Release(w)
      PROVE  CloseInv'
  <2>1. UNCHANGED <<readersRemaining, closed>>
    BY <1>5 DEF PopStart, PopData, PopComplete, PopAbort, PopThrows, TakeBlock, PopWaits,
                Sleep, IndexerExits, IndexerStopsInside, Release
  <2>2. UNCHANGED pc \/ \E label \in IndexerLabels : Goto(w, label)
    BY <1>5 DEF PopStart, PopData, PopComplete, PopAbort, PopThrows, PopWaits, Sleep,
                SetFatal, IndexerExits, IndexerStopsInside, Release
  <2>3. /\ \A t \in Readers \cup {Main} : pc'[t] = pc[t]
        /\ \A v \in Indexers : pc'[v] # "closeLanes"
    <3>1. CASE UNCHANGED pc
      BY <3>1
    <3>2. ASSUME NEW label \in IndexerLabels, Goto(w, label)
          PROVE  /\ \A t \in Readers \cup {Main} : pc'[t] = pc[t]
                 /\ \A v \in Indexers : pc'[v] # "closeLanes"
      <4>1. pc \in [Threads -> Labels] /\ w \in Threads
        OBVIOUS
      <4>2. w \notin Readers \cup {Main}
        OBVIOUS
      <4>3. \A t \in Readers \cup {Main} : pc'[t] = pc[t]
        BY <3>2, <4>1, <4>2
      <4>4. \A v \in Indexers : pc'[v] = label \/ pc'[v] = pc[v]
        BY <3>2, <4>1
      <4> QED BY <4>3, <4>4
    <3> QED BY <2>2, <3>1, <3>2
  <2>4. Left' = Left /\ (ReadersGone => ReadersGone')
    BY <2>3 DEF Left, ReadersGone
  <2> QED BY <1>1, <2>1, <2>3, <2>4
<1>6. ASSUME NEW t \in Threads, CancelWorkers(t) \/ CancelDone(t) PROVE CloseInv'
  <2>1. UNCHANGED <<readersRemaining, closed>>
    BY <1>6 DEF CancelWorkers, CancelDone
  <2>2. Left' = Left
    BY <1>6 DEF CancelWorkers, CancelDone, Left
  <2>3. ReadersGone => ReadersGone'
    BY <1>6 DEF CancelWorkers, CancelDone, ReadersGone
  <2>4. \A v \in Threads : pc'[v] = "closeLanes" => pc[v] = "closeLanes"
    BY <1>6 DEF CancelWorkers, CancelDone
  <2> QED BY <1>1, <2>1, <2>2, <2>3, <2>4
<1>7. ASSUME NEW t \in Threads, NEW w \in Indexers, CancelLane(t, w) PROVE CloseInv'
  BY <1>7 DEF CancelLane, CloseInv, Left, ReadersGone
<1>8. ASSUME NEW t \in Threads, NEW w \in Indexers, CloseLane(t, w) PROVE CloseInv'
  BY <1>8 DEF CloseLane, CloseInv, Left, ReadersGone
<1>9. ASSUME NEW t \in Threads, CloseDone(t) PROVE CloseInv'
  <2>1. UNCHANGED <<readersRemaining, closed>>
    BY <1>9 DEF CloseDone
  <2>2. Left' = Left
    BY <1>9 DEF CloseDone, Left
  <2>3. ReadersGone => ReadersGone'
    BY <1>9 DEF CloseDone, ReadersGone
  <2>4. \A v \in Threads : pc'[v] = "closeLanes" => pc[v] = "closeLanes"
    BY <1>9 DEF CloseDone
  <2> QED BY <1>1, <2>1, <2>2, <2>3, <2>4
<1>10. ASSUME NEW t \in Readers \cup Indexers, Spawn(t) PROVE CloseInv'
  <2>1. UNCHANGED <<readersRemaining, closed>>
    BY <1>10 DEF Spawn
  <2>2. Left' = Left
    BY <1>10 DEF Spawn, Left
  <2>3. ReadersGone => ReadersGone'
    BY <1>10 DEF Spawn, ReadersGone
  <2>4. \A v \in Threads : pc'[v] = "closeLanes" => pc[v] = "closeLanes"
    BY <1>10 DEF Spawn
  <2> QED BY <1>1, <2>1, <2>2, <2>3, <2>4
<1>11. ASSUME SpawnDone \/ SpawnFails \/ JoinIndexers PROVE CloseInv'
  <2>1. UNCHANGED <<readersRemaining, closed>>
    BY <1>11 DEF SpawnDone, SpawnFails, JoinIndexers
  <2>2. \E label \in MainLabels \ {"spawn", "closeLanes"} : Goto(Main, label)
    BY <1>11 DEF SpawnDone, SpawnFails, JoinIndexers, SetFatal
  <2>3. Left' = Left /\ (ReadersGone => ReadersGone')
        /\ \A t \in Threads : pc'[t] = "closeLanes" => pc[t] = "closeLanes"
    BY <2>2 DEF Left, ReadersGone
  <2> QED BY <1>1, <2>1, <2>3
<1>12. ASSUME JoinReaders PROVE CloseInv'
  <2>1. ReadersGone' /\ Left' = Left /\ UNCHANGED <<readersRemaining, closed>>
    BY <1>12 DEF JoinReaders, Joined, ReadersGone, Left
  <2> QED BY <2>1 DEF CloseInv
<1>13. ASSUME NEW t \in Readers \cup Indexers, SpuriousWakeup(t) PROVE CloseInv'
  BY <1>13 DEF SpuriousWakeup, CloseInv, Left, ReadersGone
<1>14. ASSUME UNCHANGED vars PROVE CloseInv'
  BY <1>14 DEF vars, CloseInv, Left, ReadersGone
<1>15. ASSUME NEW t \in Threads, Sweeping(t) PROVE CloseInv'
  BY <1>6, <1>7, <1>8, <1>9, <1>15 DEF Sweeping
<1>16. ASSUME NEW r \in Readers, Reader(r) PROVE CloseInv'
  BY <1>2, <1>3, <1>4, <1>15, <1>16 DEF Reader
<1>17. ASSUME NEW w \in Indexers, Indexer(w) PROVE CloseInv'
  BY <1>5, <1>15, <1>17 DEF Indexer
<1>18. ASSUME Builder PROVE CloseInv'
  BY <1>10, <1>11, <1>12, <1>15, <1>18 DEF Builder
<1> QED BY <1>13, <1>14, <1>16, <1>17, <1>18 DEF Next, Terminated

---------------------------------------------------------------------------
\* Every worker is free and every lane empty when the build starts.
LEMMA InitShapeInv == Init => ShapeInv
<1> SUFFICES ASSUME Init PROVE ShapeInv
  OBVIOUS
<1>1. HoldersDistinct
  BY DEF Init, HoldersDistinct
<1>2. ASSUME NEW w \in Indexers PROVE Idle(w) /\ ~Held(w) /\ pc[w] = "unborn" /\ w \in workers
  BY ConstantsAssumption DEF Init, Idle, Held, Threads
<1> QED BY <1>1, <1>2 DEF ShapeInv, WorkerInv, Shape, Held, Failing

(* A step that touches neither the lane, nor the document, nor the holder of an
   indexer leaves its place in the hand-over cycle as it was. *)
LEMMA WorkerFrame ==
  ASSUME NEW w \in Indexers, WorkerInv(w),
         queue'[w] = queue[w], document'[w] = document[w],
         cancelled'[w] = cancelled[w],
         w \in workers' <=> w \in workers,
         \A r \in Readers : rWorker'[r] = w <=> rWorker[r] = w,
         \A r \in Readers : rWorker[r] = w =>
             rFile'[r] = rFile[r] /\ (pc'[r] = "start" <=> pc[r] = "start"),
         \/ cancelled[w]
         \/ /\ pc'[w] = "release" <=> pc[w] = "release"
            /\ pc'[w] \in Failing <=> pc[w] \in Failing,
         fatalError # "none" => fatalError' # "none"
  PROVE  WorkerInv(w)'
<1>1. CASE cancelled[w]
  BY <1>1 DEF WorkerInv
<1>2. CASE ~cancelled[w] /\ pc[w] \in Failing
  BY <1>2 DEF WorkerInv
<1>3. CASE ~cancelled[w] /\ pc[w] \notin Failing
  <2>1. Shape(w)
    BY <1>3 DEF WorkerInv
  <2>2. Idle(w)' <=> Idle(w)
    BY DEF Idle
  <2>3. Held(w)' <=> Held(w)
    BY DEF Held
  <2>4. NoTerminal(w)' <=> NoTerminal(w)
    BY DEF NoTerminal
  <2>5. \A f : Stream(w, f)' <=> Stream(w, f)
    BY DEF Stream
  <2>6. (w \in workers)' => Idle(w)' /\ ~Held(w)' /\ pc'[w] # "release"
    BY <1>3, <2>1, <2>2, <2>3 DEF Shape
  <2>7. pc'[w] = "release" => Idle(w)' /\ ~Held(w)'
    BY <1>3, <2>1, <2>2, <2>3 DEF Shape
  <2>8. ASSUME NEW r \in Readers, rWorker'[r] = w
        PROVE  (IF pc[r] = "start" THEN Idle(w) ELSE Stream(w, rFile[r]) /\ NoTerminal(w))'
    <3>1. IF pc[r] = "start" THEN Idle(w) ELSE Stream(w, rFile[r]) /\ NoTerminal(w)
      BY <2>1, <2>8 DEF Shape
    <3>2. Stream(w, rFile[r])' <=> Stream(w, rFile[r])
      BY <2>8 DEF Stream
    <3> QED BY <2>2, <2>4, <2>8, <3>1, <3>2
  <2>9. w \notin workers' /\ ~Held(w)' /\ pc'[w] # "release" =>
          /\ fatalError' = "none" => queue'[w] # << >> /\ ~NoTerminal(w)'
          /\ ~Idle(w)' => \E f \in Files : Stream(w, f)'
    BY <1>3, <2>1, <2>2, <2>3, <2>4, <2>5 DEF Shape
  <2>10. Shape(w)'
    BY <2>6, <2>7, <2>8, <2>9 DEF Shape
  <2> QED BY <1>3, <2>10 DEF WorkerInv
<1> QED BY <1>1, <1>2, <1>3

(* Steps that move no block, no document and no indexer. *)
LEMMA ShapeFrame ==
  ASSUME TypeInv, ShapeInv,
         UNCHANGED <<queue, document, workers, rWorker, cancelled>>,
         \A r \in Readers : rWorker[r] # NoWorker =>
             rFile'[r] = rFile[r] /\ (pc'[r] = "start" <=> pc[r] = "start"),
         \A w \in Indexers :
            \/ cancelled[w]
            \/ /\ pc'[w] = "release" <=> pc[w] = "release"
               /\ pc'[w] \in Failing <=> pc[w] \in Failing,
         fatalError # "none" => fatalError' # "none"
  PROVE  ShapeInv'
<1>1. HoldersDistinct'
  BY DEF ShapeInv, HoldersDistinct
<1>2. ASSUME NEW w \in Indexers PROVE WorkerInv(w)'
  <2>1. WorkerInv(w) /\ w # NoWorker
    BY ConstantsAssumption DEF ShapeInv
  <2> QED BY <2>1, WorkerFrame
<1> QED BY <1>1, <1>2 DEF ShapeInv

\* The steps of a reader that touch no lane keep the shape.
LEMMA ReaderQuietShape ==
  ASSUME TypeInv, ShapeInv, NEW r \in Readers,
         \/ TakeJob(r) \/ OpenFails(r) \/ Open(r) \/ AcquireRefused(r)
         \/ AcquireWaits(r) \/ Read(r) \/ ReadFails(r) \/ PushWaits(r) \/ Leave(r)
  PROVE  ShapeInv' /\ fatalError' = fatalError
<1> USE ConstantsAssumption
<1> USE DEF TypeInv, TypeOK, ReaderLocals, Threads, Goto,
        shared, pool, lanes, rVars, iVars, Busy, AwakeAt, Sleep
<1>1. UNCHANGED <<queue, document, workers, cancelled, fatalError>>
  BY DEF TakeJob, OpenFails, Open, AcquireRefused, AcquireWaits, Read, ReadFails,
         PushWaits, Leave
<1>2. rWorker' = rWorker
  <2>1. CASE OpenFails(r) \/ AcquireRefused(r)
    <3>1. rWorker[r] = NoWorker /\ rWorker' = [rWorker EXCEPT ![r] = NoWorker]
      BY <2>1 DEF OpenFails, AcquireRefused, Forget
    <3> QED BY <3>1
  <2> QED BY <2>1 DEF TakeJob, Open, AcquireWaits, Read, ReadFails, PushWaits, Leave
<1>3. \A t \in Threads : t # r => pc'[t] = pc[t]
  BY DEF TakeJob, OpenFails, Open, AcquireRefused, AcquireWaits, Read, ReadFails,
         PushWaits, Leave
<1>4. pc'[r] = "start" <=> pc[r] = "start"
  BY DEF TakeJob, OpenFails, Open, AcquireRefused, AcquireWaits, Read, ReadFails,
         PushWaits, Leave
<1>5. ASSUME NEW s \in Readers, rWorker[s] # NoWorker PROVE rFile'[s] = rFile[s]
  <2>1. CASE OpenFails(r) \/ AcquireRefused(r) \/ TakeJob(r)
    <3>1. rWorker[r] = NoWorker /\ \E f : rFile' = [rFile EXCEPT ![r] = f]
      BY <2>1 DEF OpenFails, AcquireRefused, TakeJob, Forget
    <3> QED BY <1>5, <3>1
  <2> QED BY <2>1 DEF Open, AcquireWaits, Read, ReadFails, PushWaits, Leave
<1>6. ASSUME NEW w \in Indexers PROVE pc'[w] = pc[w]
  <2>1. w # r /\ w \in Threads
    OBVIOUS
  <2> QED BY <1>3, <2>1
<1>7. \A s \in Readers : pc'[s] = "start" <=> pc[s] = "start"
  BY <1>3, <1>4
<1> HIDE DEF TypeInv
<1> QED BY <1>1, <1>2, <1>5, <1>6, <1>7, ShapeFrame

\* The steps of indexers and of build() that touch no lane keep the shape.
LEMMA OtherQuietShape ==
  ASSUME TypeInv, CancelInv, ShapeInv,
         \/ \E w \in Indexers : PopWaits(w) \/ IndexerExits(w)
         \/ \E t \in Threads : CancelWorkers(t) \/ CancelDone(t) \/ CloseDone(t)
         \/ \E t \in Threads, w \in Indexers : CloseLane(t, w)
         \/ \E t \in Readers \cup Indexers : Spawn(t) \/ SpuriousWakeup(t)
         \/ SpawnDone \/ SpawnFails \/ JoinReaders \/ JoinIndexers
         \/ UNCHANGED vars
  PROVE  ShapeInv' /\ (fatalError' = fatalError \/ fatalError' = "thrown")
<1> USE ConstantsAssumption
<1> USE DEF TypeInv, TypeOK, ThreadLabels, ReaderLocals, Threads, Goto, shared, pool, lanes,
        rVars, iVars, Busy, Failing, ReaderLabels, IndexerLabels, MainLabels
<1>1. UNCHANGED <<queue, document, workers, cancelled, rWorker, rFile>>
  BY DEF PopWaits, Sleep, IndexerExits, CancelWorkers, CancelDone, CloseDone, CloseLane,
         Spawn, SpuriousWakeup, SpawnDone, SpawnFails, JoinReaders, JoinIndexers, vars
<1>2. fatalError' = fatalError \/ fatalError' = "thrown"
  BY DEF PopWaits, Sleep, IndexerExits, CancelWorkers, CancelDone, CloseDone, CloseLane,
         Spawn, SpuriousWakeup, SpawnDone, SpawnFails, SetFatal, JoinReaders, JoinIndexers,
         vars
<1>3. /\ \A r \in Readers : pc'[r] = "start" <=> pc[r] = "start"
      /\ \A w \in Indexers : \/ cancelled[w]
                             \/ /\ pc'[w] = "release" <=> pc[w] = "release"
                                /\ pc'[w] \in Failing <=> pc[w] \in Failing
  <2> DEFINE Same == /\ \A r \in Readers : pc'[r] = "start" <=> pc[r] = "start"
                     /\ \A w \in Indexers :
                           \/ cancelled[w]
                           \/ /\ pc'[w] = "release" <=> pc[w] = "release"
                              /\ pc'[w] \in Failing <=> pc[w] \in Failing
  <2>1. ASSUME pc' = pc PROVE Same
    BY <2>1
  <2>2. ASSUME NEW w \in Indexers, IndexerExits(w) PROVE Same
    BY <2>2 DEF IndexerExits, LaneEnded, AwakeAt
  <2>3. ASSUME NEW t \in Threads, CancelWorkers(t) PROVE Same
    BY <2>3 DEF CancelWorkers
  <2>4. ASSUME NEW t \in Threads, CancelDone(t) PROVE Same
    BY <2>4 DEF CancelDone, CancelInv
  <2>5. ASSUME NEW t \in Threads, CloseDone(t) PROVE Same
    BY <2>5 DEF CloseDone
  <2>6. ASSUME NEW t \in Readers \cup Indexers, Spawn(t) PROVE Same
    BY <2>6 DEF Spawn
  <2>7. ASSUME SpawnDone \/ SpawnFails \/ JoinReaders \/ JoinIndexers PROVE Same
    <3>1. \E label : Goto(Main, label)
      BY <2>7 DEF SpawnDone, SpawnFails, SetFatal, JoinReaders, JoinIndexers
    <3> QED BY <3>1
  <2>8. \/ \E w \in Indexers : PopWaits(w)
        \/ \E t \in Threads, w \in Indexers : CloseLane(t, w)
        \/ \E t \in Readers \cup Indexers : SpuriousWakeup(t)
        \/ UNCHANGED vars
        => pc' = pc
    BY DEF PopWaits, Sleep, CloseLane, SpuriousWakeup, vars
  <2> HIDE DEF Same
  <2>9. Same
    BY <2>1, <2>2, <2>3, <2>4, <2>5, <2>6, <2>7, <2>8
  <2> QED BY <2>9 DEF Same
<1>4. \A r \in Readers : rWorker[r] # NoWorker =>
         rFile'[r] = rFile[r] /\ (pc'[r] = "start" <=> pc[r] = "start")
  BY <1>1, <1>3
<1>5. fatalError # "none" => fatalError' # "none"
  BY <1>2
<1> HIDE DEF TypeInv, Failing
<1> QED BY <1>1, <1>2, <1>3, <1>4, <1>5, ShapeFrame

(* Steps of one indexer w, or of the reader that holds it: the others keep
   their place. *)
LEMMA OneWorkerShape ==
  ASSUME ShapeInv, NEW w, HoldersDistinct', w \in Indexers => WorkerInv(w)',
         \A v \in Indexers : v # w =>
            /\ queue'[v] = queue[v] /\ document'[v] = document[v]
            /\ cancelled'[v] = cancelled[v] /\ pc'[v] = pc[v]
            /\ v \in workers' <=> v \in workers
            /\ \A r \in Readers :
                  /\ rWorker'[r] = v <=> rWorker[r] = v
                  /\ rWorker[r] = v => /\ rFile'[r] = rFile[r]
                                       /\ pc'[r] = "start" <=> pc[r] = "start",
         fatalError # "none" => fatalError' # "none"
  PROVE  ShapeInv'
<1>1. ASSUME NEW v \in Indexers, v # w PROVE WorkerInv(v)'
  <2>1. WorkerInv(v)
    BY DEF ShapeInv
  <2> QED BY <1>1, <2>1, WorkerFrame
<1> QED BY <1>1 DEF ShapeInv

\* acquireWorker hands a reader a worker whose lane is empty.
LEMMA AcquireShape ==
  ASSUME TypeInv, CancelInv, ShapeInv, NEW r \in Readers, Acquire(r)
  PROVE  ShapeInv' /\ fatalError' = fatalError
<1> USE ConstantsAssumption
<1> USE DEF TypeInv, TypeOK, ReaderLocals, Threads, Goto, shared, pool, lanes,
        rVars, iVars, Busy, AwakeAt
<1>1. PICK w \in workers : workers' = workers \ {w} /\ rWorker' = [rWorker EXCEPT ![r] = w]
  BY DEF Acquire, Borrow
<1>2. /\ pc[r] = "acquire" /\ Goto(r, "start") /\ ~workersCancelled
      /\ UNCHANGED <<queue, document, cancelled, rFile, fatalError>>
  BY DEF Acquire
<1>3. w \in Indexers /\ w # NoWorker
  OBVIOUS
<1>4. rWorker[r] = NoWorker
  BY <1>2
<1>5. \A v \in Indexers : pc'[v] = pc[v]
  <2> TAKE v \in Indexers
  <2>1. v # r
    OBVIOUS
  <2> QED BY <1>2, <2>1
<1>6. \A s \in Readers : s # r => pc'[s] = pc[s] /\ rWorker'[s] = rWorker[s]
  BY <1>1, <1>2
<1>7. pc'[r] = "start" /\ rWorker'[r] = w
  BY <1>1, <1>2
<1>8. pc[w] \notin Failing /\ Shape(w)
  BY <1>2, <1>3 DEF ShapeInv, WorkerInv, CancelInv
<1>9. Idle(w) /\ pc[w] # "release" /\ \A s \in Readers : rWorker[s] # w
  BY <1>8 DEF Shape, Held
<1>10. HoldersDistinct'
  <2> SUFFICES ASSUME NEW x \in Readers, NEW y \in Readers,
                      rWorker'[x] = rWorker'[y], rWorker'[x] # NoWorker, x # y
               PROVE  FALSE
    BY DEF HoldersDistinct
  <2>1. CASE x = r \/ y = r
    BY <1>6, <1>7, <1>9, <2>1
  <2>2. CASE x # r /\ y # r
    BY <1>6, <2>2 DEF ShapeInv, HoldersDistinct
  <2> QED BY <2>1, <2>2
<1>11. WorkerInv(w)'
  <2>1. Idle(w)'
    BY <1>2, <1>9 DEF Idle
  <2>2. Held(w)' /\ w \notin workers' /\ pc'[w] # "release"
    BY <1>1, <1>3, <1>5, <1>7, <1>9 DEF Held
  <2>3. ASSUME NEW s \in Readers, rWorker'[s] = w PROVE s = r
    BY <1>6, <1>9, <2>3
  <2>4. \A s \in Readers : rWorker'[s] = w => pc'[s] = "start"
    BY <1>7, <2>3
  <2>5. Shape(w)'
    BY <2>1, <2>2, <2>4 DEF Shape
  <2> QED BY <1>3, <1>5, <1>8, <2>5 DEF WorkerInv
<1>12. \A v \in Indexers : v # w =>
          \A s \in Readers : /\ rWorker'[s] = v <=> rWorker[s] = v
                             /\ rWorker[s] = v => (pc'[s] = "start" <=> pc[s] = "start")
  BY <1>3, <1>4, <1>6, <1>7
<1> HIDE DEF TypeInv
<1> QED BY <1>1, <1>2, <1>3, <1>5, <1>10, <1>11, <1>12, OneWorkerShape

\* A push appends the next block of the document the reader streams.
LEMMA PushShape ==
  ASSUME TypeInv, ShapeInv, NEW r \in Readers, Push(r)
  PROVE  ShapeInv' /\ fatalError' = fatalError
<1> USE ConstantsAssumption
<1> USE DEF TypeInv, TypeOK, ReaderLocals, Threads, Goto, shared, pool, lanes,
        rVars, iVars, Busy, PushLabels
<1>15. rWorker[r] \in Indexers /\ rFile[r] \in Files
  BY DEF Push
<1>16. PICK w \in Indexers : w = rWorker[r]
  BY <1>15
<1>17. PICK f \in Files : f = rFile[r]
  BY <1>15
<1> DEFINE b == NextBlock(r)
           q == queue[w]
           done == pc[r] \in {"complete", "abort"}
<1>1. /\ pc[r] \in PushLabels /\ ~cancelled[w]
      /\ queue' = [queue EXCEPT ![w] = Append(q, b)]
      /\ UNCHANGED <<document, workers, cancelled, fatalError>>
  BY <1>16 DEF Push
<1>2. w # NoWorker
  OBVIOUS
<1>3. /\ b.fileId = f
      /\ b.kind = "Start" <=> pc[r] = "start"
      /\ b.kind \in Terminal <=> done
  BY <1>1, <1>17 DEF NextBlock, Terminal
<1>4. IF done THEN /\ rWorker' = [rWorker EXCEPT ![r] = NoWorker]
                   /\ rFile' = [rFile EXCEPT ![r] = 0]
              ELSE rWorker' = rWorker /\ rFile' = rFile
  BY DEF Push, Forget
<1>5. \A s \in Readers : s # r => rFile'[s] = rFile[s]
  BY <1>4
<1>6. \E label \in {"read", "data", "complete", "job"} : Goto(r, label)
  BY <1>1 DEF Push
<1>7. \A v \in Indexers : pc'[v] = pc[v]
  <2> TAKE v \in Indexers
  <2>1. v # r
    OBVIOUS
  <2> QED BY <1>6, <2>1
<1>8. pc'[r] # "start" /\ \A s \in Readers : s # r => pc'[s] = pc[s]
  BY <1>6
<1>9. \A s \in Readers : s # r => rWorker'[s] = rWorker[s] /\ rWorker[s] # w
  BY <1>2, <1>4, <1>16 DEF ShapeInv, HoldersDistinct
<1>10. HoldersDistinct'
  <2>1. \A s \in Readers : rWorker'[s] = rWorker[s] \/ rWorker'[s] = NoWorker
    BY <1>4
  <2> QED BY <2>1 DEF ShapeInv, HoldersDistinct
<1>11. queue'[w] = Append(q, b) /\ q \in Seq(Block) /\ document'[w] = document[w]
  BY <1>1
<1> HIDE DEF b
<1>12. ASSUME pc[w] \notin Failing PROVE Shape(w)'
  <2>1. Shape(w) /\ w \notin workers /\ pc[w] # "release"
    BY <1>1, <1>12, <1>16 DEF ShapeInv, WorkerInv, Shape, Held
  <2>2. IF pc[r] = "start" THEN Idle(w) ELSE Stream(w, f) /\ NoTerminal(w)
    BY <1>16, <1>17, <2>1 DEF Shape
  <2>3. w \notin workers' /\ pc'[w] # "release"
    BY <1>1, <1>2, <1>7, <2>1
  <2>4. Len(queue'[w]) = Len(q) + 1 /\ Len(q) \in Nat /\ queue'[w][Len(q) + 1] = b
        /\ \A i \in 1 .. Len(q) : queue'[w][i] = q[i]
    BY <1>11
  <2>5. pc[r] # "start" /\ document[w] = NoDoc => Len(q) # 0
    BY <1>11, <2>2 DEF Stream
  <2>6. pc[r] = "start" => Len(q) = 0 /\ document[w] = NoDoc
    BY <2>2 DEF Idle
  <2>7. ASSUME NEW i \in 1 .. Len(queue'[w])
        PROVE  /\ queue'[w][i].fileId = f
               /\ queue'[w][i].kind = "Start" <=> (i = 1 /\ document'[w] = NoDoc)
               /\ queue'[w][i].kind \in Terminal <=> (i = Len(queue'[w]) /\ done)
    <3>1. CASE i = Len(q) + 1
      <4>1. i = 1 <=> Len(q) = 0
        BY <2>4, <3>1
      <4>2. b.kind = "Start" <=> (i = 1 /\ document'[w] = NoDoc)
        BY <1>3, <1>11, <2>5, <2>6, <4>1
      <4> QED BY <1>3, <2>4, <3>1, <4>2
    <3>2. CASE i \in 1 .. Len(q)
      <4>1. pc[r] # "start"
        BY <2>6, <3>2
      <4> QED BY <1>11, <2>2, <2>4, <3>2, <4>1 DEF Stream, NoTerminal
    <3> QED BY <2>4, <2>7, <3>1, <3>2
  <2>8. document'[w] # NoDoc => document'[w].fileId = f
    BY <1>11, <2>2, <2>6 DEF Stream
  <2>9. queue'[w] # << >>
    BY <2>4
  <2>12. Stream(w, f)'
    BY <2>7, <2>8, <2>9 DEF Stream
  <2>10. CASE done
    <3>1. ~Held(w)'
      <4>2. rWorker'[r] = NoWorker
        BY <1>4, <2>10
      <4>1. \A s \in Readers : rWorker'[s] # w
        BY <1>2, <1>9, <4>2
      <4> QED BY <4>1 DEF Held
    <3>2. ~NoTerminal(w)'
      <4>1. Len(queue'[w]) \in 1 .. Len(queue'[w])
        BY <2>4
      <4> QED BY <2>7, <2>10, <4>1 DEF NoTerminal
    <3> QED BY <2>3, <2>9, <2>12, <3>1, <3>2 DEF Shape, Held
  <2>11. CASE ~done
    <3>1. NoTerminal(w)'
      BY <2>7, <2>11 DEF NoTerminal
    <3>2. Held(w)' /\ rWorker'[r] = w /\ rFile'[r] = f
      BY <1>4, <1>16, <1>17, <2>11 DEF Held
    <3>3. Stream(w, rFile[r])'
      BY <2>12, <3>2 DEF Stream
    <3>4. ASSUME NEW s \in Readers, rWorker'[s] = w PROVE s = r
      BY <1>9, <3>4
    <3>5. ASSUME NEW s \in Readers, rWorker'[s] = w
          PROVE  (IF pc[s] = "start" THEN Idle(w) ELSE Stream(w, rFile[s]) /\ NoTerminal(w))'
      BY <1>8, <3>1, <3>3, <3>4, <3>5
    <3> QED BY <2>3, <3>2, <3>5 DEF Shape
  <2> QED BY <2>10, <2>11
<1>13. WorkerInv(w)'
  <2>1. WorkerInv(w)
    BY DEF ShapeInv
  <2> QED BY <1>1, <1>7, <1>12, <2>1 DEF WorkerInv
<1>14. \A v \in Indexers : v # w =>
          /\ queue'[v] = queue[v]
          /\ \A s \in Readers :
               /\ rWorker'[s] = v <=> rWorker[s] = v
               /\ rWorker[s] = v => rFile'[s] = rFile[s] /\ (pc'[s] = "start" <=> pc[s] = "start")
  BY <1>1, <1>4, <1>5, <1>8, <1>9, <1>16
<1> HIDE DEF TypeInv
<1> QED BY <1>1, <1>7, <1>10, <1>13, <1>14, OneWorkerShape

(* A reader that lets go of its indexer without a terminal block does so only
   because of a fatal error. *)
LEMMA LetGoShape ==
  ASSUME TypeInv, ShapeInv, NEW r \in Readers,
         UNCHANGED <<queue, document, workers, cancelled>>,
         rWorker' = [rWorker EXCEPT ![r] = NoWorker],
         \A s \in Readers : s # r => rFile'[s] = rFile[s] /\ pc'[s] = pc[s],
         \A v \in Indexers : pc'[v] = pc[v],
         fatalError' # "none"
  PROVE  ShapeInv'
<1> USE ConstantsAssumption
<1> USE DEF TypeInv, TypeOK, ReaderLocals
<1>1. rWorker'[r] = NoWorker /\ \A s \in Readers : s # r => rWorker'[s] = rWorker[s]
  OBVIOUS
<1>2. HoldersDistinct'
  BY <1>1 DEF ShapeInv, HoldersDistinct
<1>3. ASSUME NEW w \in Indexers, w = rWorker[r] PROVE WorkerInv(w)'
  <2>1. CASE cancelled[w] \/ pc[w] \in Failing
    BY <2>1 DEF ShapeInv, WorkerInv
  <2>2. CASE ~cancelled[w] /\ pc[w] \notin Failing
    <3>1. Shape(w)
      BY <2>2 DEF ShapeInv, WorkerInv
    <3>2. w \notin workers /\ pc[w] # "release"
      BY <1>3, <3>1 DEF Shape, Held
    <3>3. \A s \in Readers : rWorker'[s] # w
      BY <1>1, <1>3 DEF ShapeInv, HoldersDistinct
    <3>4. ~Held(w)'
      BY <3>3 DEF Held
    <3>5. w # NoWorker /\ rFile[r] \in Files
      BY <1>3 DEF Busy
    <3>6. Idle(w) \/ Stream(w, rFile[r])
      BY <1>3, <3>1 DEF Shape
    <3>7. ~Idle(w)' => \E f \in Files : Stream(w, f)'
      <4>1. PICK f \in Files : f = rFile[r]
        BY <3>5
      <4>2. Idle(w)' <=> Idle(w)
        BY DEF Idle
      <4>3. Stream(w, f)' <=> Stream(w, f)
        BY DEF Stream
      <4> QED BY <3>6, <4>1, <4>2, <4>3
    <3>8. Shape(w)'
      BY <3>2, <3>3, <3>4, <3>7 DEF Shape
    <3> QED BY <2>2, <3>8 DEF WorkerInv
  <2> QED BY <2>1, <2>2
<1>4. \A v \in Indexers : v # rWorker[r] =>
         \A s \in Readers :
            /\ rWorker'[s] = v <=> rWorker[s] = v
            /\ rWorker[s] = v => rFile'[s] = rFile[s] /\ (pc'[s] = "start" <=> pc[s] = "start")
  BY <1>1
<1>5. PICK w : w = rWorker[r]
  OBVIOUS
<1>6. w \in Indexers => WorkerInv(w)'
  BY <1>3, <1>5
<1> HIDE DEF TypeInv
<1> QED BY <1>2, <1>4, <1>5, <1>6, OneWorkerShape

\* A reader that stops on a fatal error leaves its lane as it was.
LEMMA ReaderGivesUpShape ==
  ASSUME TypeInv, CancelInv, CloseInv, ShapeInv, NEW r \in Readers,
         PushRefused(r) \/ ReaderThrows(r)
  PROVE  ShapeInv' /\ (fatalError' = fatalError \/ fatalError' = "thrown")
<1> USE ConstantsAssumption
<1> USE DEF TypeInv, TypeOK, ReaderLocals, Threads, Goto, shared, pool, lanes,
        rVars, iVars, Busy, PushLabels
<1>1. /\ UNCHANGED <<queue, document, workers, cancelled>>
      /\ rWorker' = [rWorker EXCEPT ![r] = NoWorker]
      /\ rFile' = [rFile EXCEPT ![r] = 0]
      /\ \E label : Goto(r, label)
  BY DEF PushRefused, ReaderThrows, Forget, SetFatal
<1>2. \A v \in Indexers : pc'[v] = pc[v]
  <2> TAKE v \in Indexers
  <2>1. v # r
    OBVIOUS
  <2> QED BY <1>1, <2>1
<1>3. \A s \in Readers : s # r => rFile'[s] = rFile[s] /\ pc'[s] = pc[s]
  BY <1>1
<1>4. fatalError' # "none" /\ (fatalError' = fatalError \/ fatalError' = "thrown")
  <2>1. CASE PushRefused(r)
    <3>1. pc[r] \in PushLabels /\ rWorker[r] \in Indexers /\ fatalError' = fatalError
      BY <2>1 DEF PushRefused
    <3>2. ~closed[rWorker[r]]
      BY <3>1 DEF CloseInv, ReadersGone
    <3>3. cancelled[rWorker[r]]
      BY <2>1, <3>2 DEF PushRefused
    <3> QED BY <3>1, <3>3 DEF CancelInv
  <2>2. CASE ReaderThrows(r)
    BY <2>2 DEF ReaderThrows, SetFatal
  <2> QED BY <2>1, <2>2
<1> HIDE DEF TypeInv
<1> QED BY <1>1, <1>2, <1>3, <1>4, LetGoShape

(* A block that can be popped belongs to the document its indexer is building. *)
LEMMA PopFacts ==
  ASSUME TypeInv, ShapeInv, NEW w \in Indexers, TakeBlock(w)
  PROVE  /\ ~cancelled[w] /\ pc[w] = "pop" /\ Shape(w) /\ w \notin workers
         /\ queue[w] \in Seq(Block) /\ Len(queue[w]) \in Nat \ {0}
         /\ Head(queue[w]) = queue[w][1]
         /\ \E f \in Files : Stream(w, f)
         /\ \A r \in Readers : rWorker[r] = w =>
               pc[r] # "start" /\ Stream(w, rFile[r]) /\ NoTerminal(w)
         /\ InSequence(w, Head(queue[w]))
<1> USE ConstantsAssumption
<1> USE DEF TypeInv, TypeOK
<1>1. ~cancelled[w] /\ pc[w] = "pop" /\ queue[w] \in Seq(Block) /\ queue[w] # << >>
  BY DEF TakeBlock, AwakeAt
<1>2. Len(queue[w]) \in Nat \ {0} /\ Head(queue[w]) = queue[w][1]
  BY <1>1
<1>3. Shape(w)
  BY <1>1 DEF ShapeInv, WorkerInv, Failing
<1>4. ~Idle(w)
  BY <1>1 DEF Idle
<1>5. w \notin workers
  BY <1>3, <1>4 DEF Shape
<1>6. \A r \in Readers : rWorker[r] = w => pc[r] # "start" /\ Stream(w, rFile[r]) /\ NoTerminal(w)
  BY <1>3, <1>4 DEF Shape
<1>7. \E f \in Files : Stream(w, f)
  <2>1. CASE Held(w)
    <3>1. PICK r \in Readers : rWorker[r] = w
      BY <2>1 DEF Held
    <3>2. rFile[r] \in Files
      BY <3>1 DEF ReaderLocals, Busy
    <3> QED BY <1>6, <3>1, <3>2
  <2>2. CASE ~Held(w)
    BY <1>1, <1>3, <1>4, <1>5, <2>2 DEF Shape
  <2> QED BY <2>1, <2>2
<1>8. InSequence(w, Head(queue[w]))
  <2>1. PICK f \in Files : Stream(w, f)
    BY <1>7
  <2>2. 1 \in 1 .. Len(queue[w])
    BY <1>2
  <2> QED BY <1>2, <2>1, <2>2 DEF Stream, InSequence
<1> QED BY <1>1, <1>2, <1>3, <1>5, <1>6, <1>7, <1>8

\* Popping a block that does not end its document keeps the shape.
LEMMA PopInsideShape ==
  ASSUME TypeInv, ShapeInv, NEW w \in Indexers, PopStart(w) \/ PopData(w)
  PROVE  ShapeInv' /\ fatalError' = fatalError
<1> USE ConstantsAssumption
<1> USE DEF TypeInv, TypeOK, Threads, Goto, shared, pool, lanes, rVars, iVars
<1> DEFINE q == queue[w]
<1>1. TakeBlock(w)
  BY DEF PopStart, PopData
<1>2. /\ queue' = [queue EXCEPT ![w] = Tail(q)]
      /\ UNCHANGED <<cancelled, workers, rWorker, rFile>>
  BY <1>1 DEF TakeBlock
<1>3. UNCHANGED <<pc, fatalError>>
  BY DEF PopStart, PopData
<1>4. /\ ~cancelled[w] /\ pc[w] = "pop" /\ Shape(w) /\ w \notin workers
      /\ q \in Seq(Block) /\ Len(q) \in Nat \ {0} /\ Head(q) = q[1]
      /\ \E f \in Files : Stream(w, f)
      /\ \A r \in Readers : rWorker[r] = w =>
               pc[r] # "start" /\ Stream(w, rFile[r]) /\ NoTerminal(w)
      /\ InSequence(w, Head(q))
  BY <1>1, PopFacts
<1>5. PICK f \in Files : Stream(w, f)
  BY <1>4
<1>6. 1 \in 1 .. Len(q)
  BY <1>4
<1>7. q[1].fileId = f /\ q[1].kind \notin Terminal
  BY <1>4, <1>5, <1>6 DEF Stream, PopStart, PopData, Terminal
<1>8. \A v \in Indexers : v # w => document'[v] = document[v] /\ queue'[v] = queue[v]
  BY <1>2 DEF PopStart, PopData
<1>9. document'[w] # NoDoc /\ document'[w].fileId = f
  <2>1. CASE PopStart(w)
    <3>1. document'[w] = [NoDoc EXCEPT !.fileId = f]
      BY <1>4, <1>7, <2>1 DEF PopStart
    <3> QED BY <3>1 DEF NoDoc, Files
  <2>2. CASE PopData(w)
    <3>1. document[w].fileId = f
      BY <1>4, <1>5, <2>2 DEF PopData, InSequence, Stream
    <3>2. document'[w].fileId = f
      BY <2>2, <3>1 DEF PopData, Tokenized
    <3> QED BY <3>2 DEF NoDoc, Files
  <2> QED BY <2>1, <2>2
<1>10. queue'[w] = Tail(q) /\ Len(queue'[w]) = Len(q) - 1
       /\ \A i \in 1 .. Len(queue'[w]) : queue'[w][i] = q[i + 1] /\ i + 1 \in 1 .. Len(q)
  BY <1>2, <1>4
<1>11. Stream(w, f)'
  <2>1. ASSUME NEW i \in 1 .. Len(queue'[w])
        PROVE  /\ queue'[w][i].fileId = f
               /\ queue'[w][i].kind # "Start"
               /\ queue'[w][i].kind \in Terminal => i = Len(queue'[w])
    <3>1. queue'[w][i] = q[i + 1] /\ i + 1 \in 1 .. Len(q) /\ i + 1 # 1
      BY <1>10, <2>1
    <3>2. /\ q[i + 1].fileId = f
          /\ q[i + 1].kind # "Start"
          /\ q[i + 1].kind \in Terminal => i + 1 = Len(q)
      BY <1>5, <3>1 DEF Stream
    <3>3. i + 1 = Len(q) => i = Len(queue'[w])
      <4>1. i \in Int /\ Len(q) \in Int /\ Len(queue'[w]) = Len(q) - 1
        BY <1>4, <1>10
      <4> HIDE DEF q
      <4> QED BY <4>1
    <3>4. queue'[w][i].kind = q[i + 1].kind /\ queue'[w][i].fileId = q[i + 1].fileId
      BY <3>1
    <3> QED BY <3>2, <3>3, <3>4
  <2> QED BY <1>9, <2>1 DEF Stream
<1>12. ASSUME NoTerminal(w) PROVE NoTerminal(w)'
  BY <1>10, <1>12 DEF NoTerminal
<1>13. ASSUME NEW r \in Readers, rWorker'[r] = w
       PROVE  (IF pc[r] = "start" THEN Idle(w) ELSE Stream(w, rFile[r]) /\ NoTerminal(w))'
  <2>1. pc[r] # "start" /\ Stream(w, rFile[r]) /\ NoTerminal(w)
    BY <1>2, <1>4, <1>13
  <2>2. rFile[r] = f
    BY <1>6, <1>7, <2>1 DEF Stream
  <2>3. Stream(w, rFile[r])'
    BY <1>2, <1>11, <2>2 DEF Stream
  <2> QED BY <1>3, <1>12, <2>1, <2>3
<1>14. w \notin workers' /\ pc'[w] = "pop" /\ (Held(w)' <=> Held(w))
  BY <1>2, <1>3, <1>4 DEF Held
<1>15. ASSUME ~Held(w), fatalError = "none" PROVE queue'[w] # << >> /\ ~NoTerminal(w)'
  <2>1. ~NoTerminal(w)
    BY <1>4, <1>15 DEF Shape
  <2>2. PICK i \in 1 .. Len(q) : q[i].kind \in Terminal
    BY <2>1 DEF NoTerminal
  <2>3. i # 1 /\ i - 1 \in 1 .. Len(queue'[w]) /\ queue'[w][i - 1] = q[i]
    BY <1>4, <1>7, <1>10, <2>2
  <2> QED BY <2>2, <2>3 DEF NoTerminal
<1>16. Shape(w)'
  BY <1>3, <1>11, <1>13, <1>14, <1>15 DEF Shape
<1>17. WorkerInv(w)'
  BY <1>14, <1>16 DEF WorkerInv, Failing
<1>18. HoldersDistinct'
  BY <1>2 DEF ShapeInv, HoldersDistinct
<1> HIDE DEF TypeInv
<1> QED BY <1>2, <1>3, <1>8, <1>17, <1>18, OneWorkerShape

\* Popping the block that ends a document leaves the lane empty.
LEMMA PopTerminalShape ==
  ASSUME TypeInv, ShapeInv, NEW w \in Indexers, PopComplete(w) \/ PopAbort(w)
  PROVE  ShapeInv' /\ fatalError' = fatalError
<1> USE ConstantsAssumption
<1> USE DEF TypeInv, TypeOK, Threads, Goto, shared, pool, lanes, rVars, iVars
<1> DEFINE q == queue[w]
<1>1. TakeBlock(w)
  BY DEF PopComplete, PopAbort
<1>2. /\ queue' = [queue EXCEPT ![w] = Tail(q)]
      /\ UNCHANGED <<cancelled, workers, rWorker, rFile>>
  BY <1>1 DEF TakeBlock
<1>3. /\ Head(q).kind \in Terminal /\ fatalError' = fatalError /\ Goto(w, "release")
      /\ document' = [document EXCEPT ![w] = NoDoc]
  BY DEF PopComplete, PopAbort, Terminal
<1>4. /\ ~cancelled[w] /\ pc[w] = "pop" /\ w \notin workers
      /\ q \in Seq(Block) /\ Len(q) \in Nat \ {0} /\ Head(q) = q[1]
      /\ \E f \in Files : Stream(w, f)
      /\ \A r \in Readers : rWorker[r] = w => NoTerminal(w)
  BY <1>1, PopFacts
<1>5. 1 \in 1 .. Len(q) /\ q[1].kind \in Terminal
  BY <1>3, <1>4
<1>6. Len(q) = 1
  BY <1>4, <1>5 DEF Stream
<1>7. queue'[w] = << >> /\ document'[w] = NoDoc
  <2>1. queue'[w] = Tail(q) /\ document'[w] = NoDoc
    BY <1>2, <1>3
  <2>2. q \in Seq(Block) /\ q # << >> /\ Len(q) = 1
    BY <1>1, <1>4, <1>6 DEF TakeBlock
  <2>3. Tail(q) = << >>
    <3> HIDE DEF q
    <3>1. Tail(q) \in Seq(Block) /\ Len(Tail(q)) = 0
      BY <2>2, HeadTailProperties
    <3> QED BY <3>1, EmptySeq
  <2> QED BY <2>1, <2>3
<1>8. ~NoTerminal(w)
  BY <1>5 DEF NoTerminal
<1>9. \A r \in Readers : rWorker'[r] # w
  BY <1>2, <1>4, <1>8
<1>10. pc'[w] = "release" /\ w \notin workers'
  BY <1>2, <1>3, <1>4
<1>11. Shape(w)'
  BY <1>7, <1>9, <1>10 DEF Shape, Held, Idle
<1>12. WorkerInv(w)'
  BY <1>10, <1>11 DEF WorkerInv, Failing
<1>13. HoldersDistinct'
  BY <1>2 DEF ShapeInv, HoldersDistinct
<1>14. \A r \in Readers : pc'[r] = pc[r]
  <2> TAKE r \in Readers
  <2>1. r # w
    OBVIOUS
  <2> QED BY <1>3, <2>1
<1>15. \A v \in Indexers : v # w =>
         /\ queue'[v] = queue[v] /\ document'[v] = document[v] /\ pc'[v] = pc[v]
  BY <1>2, <1>3
<1> HIDE DEF TypeInv
<1> QED BY <1>2, <1>3, <1>12, <1>13, <1>14, <1>15, OneWorkerShape

(* An indexer that fails holds a block or a document, so it is not offered; and
   it fails by itself only when the environment makes it. *)
LEMMA IndexerFailsShape ==
  ASSUME TypeInv, CancelInv, CloseInv, ShapeInv, NoProtocolError,
         NEW w \in Indexers, PopThrows(w) \/ IndexerStopsInside(w)
  PROVE  ShapeInv' /\ NoProtocolError'
<1> USE ConstantsAssumption
<1> USE DEF TypeInv, TypeOK, Threads, Goto, shared, pool, lanes, rVars, iVars
<1>1. /\ Goto(w, "cancelWorkers")
      /\ UNCHANGED <<document, cancelled, workers, rWorker, rFile>>
      /\ \A v \in Indexers : v # w => queue'[v] = queue[v]
  BY DEF PopThrows, IndexerStopsInside, TakeBlock, SetFatal
<1>2. cancelled[w] \/ w \notin workers
  <2>1. CASE PopThrows(w)
    BY <2>1, PopFacts DEF PopThrows
  <2>2. CASE IndexerStopsInside(w)
    <3>1. document[w] # NoDoc /\ pc[w] = "pop"
      BY <2>2 DEF IndexerStopsInside, LaneEnded, AwakeAt
    <3>2. cancelled[w] \/ Shape(w)
      BY <3>1 DEF ShapeInv, WorkerInv, Failing
    <3> QED BY <3>1, <3>2 DEF Shape, Idle
  <2> QED BY <2>1, <2>2
<1>3. WorkerInv(w)'
  <2>1. pc'[w] = "cancelWorkers"
    BY <1>1
  <2> QED BY <1>1, <1>2, <2>1 DEF WorkerInv, Failing
<1>4. HoldersDistinct'
  BY <1>1 DEF ShapeInv, HoldersDistinct
<1>5. \A r \in Readers : pc'[r] = pc[r]
  <2> TAKE r \in Readers
  <2>1. r # w
    OBVIOUS
  <2> QED BY <1>1, <2>1
<1>6. \A v \in Indexers : v # w => pc'[v] = pc[v]
  BY <1>1
<1>7. fatalError # "none" => fatalError' = fatalError
  BY DEF PopThrows, IndexerStopsInside, SetFatal
<1>8. NoProtocolError'
  <2>1. CASE fatalError # "none"
    BY <1>7, <2>1 DEF NoProtocolError
  <2>2. CASE fatalError = "none" /\ PopThrows(w)
    <3>1. InSequence(w, Head(queue[w]))
      BY <2>2, PopFacts DEF PopThrows
    <3> QED BY <2>2, <3>1 DEF PopThrows, SetFatal, NoProtocolError
  <2>3. CASE fatalError = "none" /\ IndexerStopsInside(w)
    <3>1. ~cancelled[w]
      BY <2>3 DEF CancelInv
    <3>2. closed[w] /\ queue[w] = << >> /\ document[w] # NoDoc /\ pc[w] = "pop"
      BY <2>3, <3>1 DEF IndexerStopsInside, LaneEnded, AwakeAt
    <3>3. Shape(w)
      BY <3>1, <3>2 DEF ShapeInv, WorkerInv, Failing
    <3>4. Held(w)
      BY <2>3, <3>2, <3>3 DEF Shape, Idle
    <3>5. PICK r \in Readers : rWorker[r] = w
      BY <3>4 DEF Held
    <3>6. pc[r] \in Busy
      BY <3>5 DEF ReaderLocals
    <3>7. ReadersGone
      BY <3>2 DEF CloseInv
    <3> QED BY <3>6, <3>7 DEF Busy, ReadersGone
  <2> QED BY <2>1, <2>2, <2>3
<1> HIDE DEF TypeInv
<1> QED BY <1>1, <1>3, <1>4, <1>5, <1>6, <1>7, <1>8, OneWorkerShape

\* releaseWorker returns a worker that has finished its document.
LEMMA ReleaseShape ==
  ASSUME TypeInv, CancelInv, ShapeInv, NEW w \in Indexers, Release(w)
  PROVE  ShapeInv' /\ fatalError' = fatalError
<1> USE ConstantsAssumption
<1> USE DEF TypeInv, TypeOK, Threads, Goto, shared, pool, lanes, rVars, iVars
<1>1. /\ pc[w] = "release" /\ Goto(w, "pop")
      /\ UNCHANGED <<queue, document, cancelled, rWorker, rFile, fatalError>>
      /\ workers' = (IF workersCancelled THEN workers ELSE workers \cup {w})
  BY DEF Release
<1>2. WorkerInv(w)'
  <2>1. CASE cancelled[w]
    BY <1>1, <2>1 DEF WorkerInv
  <2>2. CASE ~cancelled[w]
    <3>1. Shape(w)
      BY <1>1, <2>2 DEF ShapeInv, WorkerInv, Failing
    <3>2. Idle(w) /\ \A r \in Readers : rWorker[r] # w
      BY <1>1, <3>1 DEF Shape, Held
    <3>3. Idle(w)' /\ ~Held(w)' /\ pc'[w] = "pop" /\ \A r \in Readers : rWorker'[r] # w
      BY <1>1, <3>2 DEF Idle, Held
    <3>4. w \notin workers' => fatalError' # "none"
      BY <1>1 DEF CancelInv
    <3>5. Shape(w)'
      BY <3>3, <3>4 DEF Shape
    <3> QED BY <3>3, <3>5 DEF WorkerInv, Failing
  <2> QED BY <2>1, <2>2
<1>3. HoldersDistinct'
  BY <1>1 DEF ShapeInv, HoldersDistinct
<1>4. \A r \in Readers : pc'[r] = pc[r]
  <2> TAKE r \in Readers
  <2>1. r # w
    OBVIOUS
  <2> QED BY <1>1, <2>1
<1>5. \A v \in Indexers : v # w => pc'[v] = pc[v] /\ (v \in workers' <=> v \in workers)
  BY <1>1
<1> HIDE DEF TypeInv
<1> QED BY <1>1, <1>2, <1>3, <1>4, <1>5, OneWorkerShape

\* Cancelling a queue discards only blocks of a build that has failed.
LEMMA CancelLaneShape ==
  ASSUME TypeInv, ShapeInv, NEW t \in Threads, NEW w \in Indexers, CancelLane(t, w)
  PROVE  ShapeInv' /\ fatalError' = fatalError
<1> USE DEF TypeInv, TypeOK, shared, pool, rVars, iVars
<1>1. /\ cancelled' = [cancelled EXCEPT ![w] = TRUE]
      /\ queue' = [queue EXCEPT ![w] = << >>]
      /\ UNCHANGED <<pc, document, workers, rWorker, rFile, fatalError>>
  BY DEF CancelLane
<1>2. WorkerInv(w)'
  BY <1>1 DEF WorkerInv
<1>3. HoldersDistinct'
  BY <1>1 DEF ShapeInv, HoldersDistinct
<1>4. \A v \in Indexers : v # w => queue'[v] = queue[v] /\ cancelled'[v] = cancelled[v]
  BY <1>1
<1> HIDE DEF TypeInv
<1> QED BY <1>1, <1>2, <1>3, <1>4, OneWorkerShape

\* Every step keeps the shape of the hand-over, one lemma per kind of step.
LEMMA NextShapeInv ==
  TypeInv /\ CancelInv /\ CloseInv /\ ShapeInv /\ NoProtocolError /\ [Next]_vars
  => ShapeInv' /\ NoProtocolError'
<1> SUFFICES ASSUME TypeInv, CancelInv, CloseInv, ShapeInv, NoProtocolError, [Next]_vars
             PROVE  ShapeInv' /\ NoProtocolError'
  OBVIOUS
<1>1. ASSUME fatalError' = fatalError \/ fatalError' = "thrown" PROVE NoProtocolError'
  BY <1>1 DEF NoProtocolError
<1>2. ASSUME NEW t \in Threads, Sweeping(t) PROVE ShapeInv' /\ NoProtocolError'
  BY <1>1, <1>2, OtherQuietShape, CancelLaneShape DEF Sweeping
<1>3. ASSUME NEW r \in Readers, Reader(r) PROVE ShapeInv' /\ NoProtocolError'
  <2>1. r \in Threads
    BY DEF Threads
  <2> QED BY <1>1, <1>2, <1>3, <2>1, ReaderQuietShape, AcquireShape, PushShape,
             ReaderGivesUpShape DEF Reader
<1>4. ASSUME NEW w \in Indexers, Indexer(w) PROVE ShapeInv' /\ NoProtocolError'
  <2>1. w \in Threads
    BY DEF Threads
  <2> QED BY <1>1, <1>2, <1>4, <2>1, OtherQuietShape, PopInsideShape, PopTerminalShape,
             IndexerFailsShape, ReleaseShape DEF Indexer
<1>5. ASSUME Builder PROVE ShapeInv' /\ NoProtocolError'
  <2>1. Main \in Threads
    BY DEF Threads
  <2> QED BY <1>1, <1>2, <1>5, <2>1, OtherQuietShape DEF Builder
<1>6. ASSUME NEW t \in Readers \cup Indexers, SpuriousWakeup(t)
      PROVE  ShapeInv' /\ NoProtocolError'
  BY <1>1, <1>6, OtherQuietShape
<1>7. ASSUME UNCHANGED vars PROVE ShapeInv' /\ NoProtocolError'
  BY <1>1, <1>7, OtherQuietShape
<1> QED BY <1>3, <1>4, <1>5, <1>6, <1>7 DEF Next, Terminated

\* The conjunction of the inductive invariants holds in every reachable state.
LEMMA BatchSafety == Spec => []SafetyInv
<1>1. Init => SafetyInv
  BY InitTypeInv, InitCancelInv, InitCloseInv, InitShapeInv
  DEF SafetyInv, NoProtocolError, Init
<1>2. SafetyInv /\ [Next]_vars => SafetyInv'
  BY NextTypeInv, NextCancelInv, NextCloseInv, NextShapeInv DEF SafetyInv
<1> QED BY <1>1, <1>2, PTL DEF Spec

(* However readers and indexers interleave, and whatever throws, the pipeline
   never breaks its own block protocol: none of the "overlapping", "orphan" and
   "stopped inside a document" exceptions is ever the error build() rethrows. *)
THEOREM BatchNoProtocolError == Spec => []NoProtocolError
<1>1. SafetyInv => NoProtocolError
  BY DEF SafetyInv
<1> QED BY <1>1, BatchSafety, PTL

(* An indexer that AvailableWorkers offers is idle and held by nobody, and no
   two readers ever stream into the same lane. *)
THEOREM BatchExclusiveWorkers == Spec => []ExclusiveWorkers
<1>1. SafetyInv => ExclusiveWorkers
  <2> SUFFICES ASSUME SafetyInv PROVE ExclusiveWorkers
    OBVIOUS
  <2>1. ASSUME NEW w \in workers, ~cancelled[w]
        PROVE  queue[w] = << >> /\ document[w] = NoDoc /\ \A r \in Readers : rWorker[r] # w
    <3>1. w \in Indexers
      BY DEF SafetyInv, TypeInv, TypeOK
    <3>2. Shape(w)
      BY <2>1, <3>1 DEF SafetyInv, ShapeInv, WorkerInv
    <3> QED BY <3>2 DEF Shape, Idle, Held
  <2>2. HoldersDistinct
    BY DEF SafetyInv, ShapeInv
  <2> QED BY <2>1, <2>2 DEF ExclusiveWorkers, HoldersDistinct
<1> QED BY <1>1, BatchSafety, PTL
---------------------------------------------------------------------------
(* The refinement of BatchBuild.                                           *)

\* The reader has a file in hand.
Holds(r) == pc[r] \in Busy \cup {"open", "acquire"}

\* A block of f, or the document f, is with the indexer w.
InLane(w, f) ==
    /\ ~cancelled[w]
    /\ document[w].fileId = f \/ \E i \in DOMAIN queue[w] : queue[w][i].fileId = f

(* Every file is taken once, and is then with one reader, one indexer, or a reader
   and the indexer it has borrowed. *)
OwnInv ==
    /\ \A r \in Readers : Holds(r) => rFile[r] < nextJob
    /\ \A w \in Indexers, f \in Files : InLane(w, f) => f < nextJob
    /\ \A f \in fileErrors \cup CommittedFiles : f < nextJob
    /\ \A r, s \in Readers : Holds(r) /\ Holds(s) /\ rFile[r] = rFile[s] => r = s
    /\ \A r \in Readers, w \in Indexers :
          Holds(r) /\ InLane(w, rFile[r]) => rWorker[r] = w
    /\ \A v, w \in Indexers, f \in Files : InLane(v, f) /\ InLane(w, f) => v = w

(* A committed file is nowhere else and has no error; a reader has a file with an
   error only to abort it; and the last block of a file tells how it ended, and that
   no reader has it any more. *)
SettledInv ==
    /\ \A f \in CommittedFiles :
          /\ f \notin fileErrors
          /\ \A r \in Readers : Holds(r) => rFile[r] # f
          /\ \A w \in Indexers : ~InLane(w, f)
    /\ \A r \in Readers : Holds(r) => (rFile[r] \in fileErrors <=> pc[r] = "abort")
    /\ \A w \in Indexers : \A i \in DOMAIN queue[w] :
          /\ queue[w][i].kind = "Complete" => queue[w][i].fileId \notin fileErrors
          /\ queue[w][i].kind = "Abort" => queue[w][i].fileId \in fileErrors
          /\ queue[w][i].kind \in Terminal =>
                \A r \in Readers : Holds(r) => rFile[r] # queue[w][i].fileId

\* f has been settled, or is on its way.
Accounted(f) ==
    \/ f \in CommittedFiles \cup fileErrors
    \/ \E r \in Readers : Holds(r) /\ rFile[r] = f
    \/ \E w \in Indexers : InLane(w, f)

(* Without a fatal error no file that was taken is lost. *)
JobsInv == fatalError = "none" => \A f \in Files : f < nextJob => Accounted(f)

\* The reader has left its loop.
Gone == {"leave", "closeLanes", "exited"}

(* Without a fatal error a reader leaves when all files have been taken, and an
   indexer when its lane is closed and drained.  The threads are joined, readers
   first. *)
EndInv ==
    /\ fatalError = "none" =>
          /\ \A r \in Readers : pc[r] \in Gone => NoMoreJobs
          /\ pc[Main] # "spawn" => \A t \in Readers \cup Indexers : pc[t] # "unborn"
          /\ \A w \in Indexers : pc[w] = "exited" => closed[w] /\ Idle(w)
    /\ pc[Main] = "closeLanes" \/ pc[Main] = "joinIndexers" \/ Ended => Joined(Readers)
    /\ Ended => Joined(Indexers)

FlowInv == OwnInv /\ SettledInv /\ JobsInv /\ EndInv

LEMMA InitFlowInv == Init => FlowInv
<1> SUFFICES ASSUME Init PROVE FlowInv
  OBVIOUS
<1>1. \A r \in Readers : ~Holds(r) /\ pc[r] = "unborn"
  BY ConstantsAssumption DEF Init, Holds, Busy, Threads
<1>2. \A w \in Indexers : queue[w] = << >> /\ document[w].fileId = -1 /\ pc[w] = "unborn"
  BY ConstantsAssumption DEF Init, NoDoc, Threads
<1>3. \A w \in Indexers, f \in Files : ~InLane(w, f)
  BY <1>2, ConstantsAssumption DEF InLane, Files
<1>4. CommittedFiles = {} /\ fileErrors = {} /\ nextJob = 0
  BY DEF Init, CommittedFiles, Committed
<1>5. OwnInv /\ SettledInv BY <1>1, <1>2, <1>3, <1>4 DEF OwnInv, SettledInv
<1>6. JobsInv BY <1>4, ConstantsAssumption DEF JobsInv, Files
<1>7. EndInv
  BY <1>1, <1>2, ConstantsAssumption DEF EndInv, Init, Ended, Threads, Gone
<1> QED BY <1>5, <1>6, <1>7 DEF FlowInv

(* Steps after which no file is in a place where it was not before. *)
LEMMA FlowFrame ==
  ASSUME TypeInv, OwnInv, SettledInv,
         UNCHANGED <<fileErrors, dictionary>>,
         nextJob' \in Nat, nextJob <= nextJob',
         \A r \in Readers : Holds(r)' =>
             /\ Holds(r) /\ rFile'[r] = rFile[r] /\ (pc'[r] = "abort" <=> pc[r] = "abort")
             /\ rWorker'[r] = rWorker[r] \/ rWorker[r] = NoWorker,
         \A w \in Indexers, f \in Files : InLane(w, f)' => InLane(w, f),
         \A w \in Indexers : \A i \in DOMAIN queue'[w] :
             \E j \in DOMAIN queue[w] : queue'[w][i] = queue[w][j]
  PROVE  OwnInv' /\ SettledInv'
<1>1. CommittedFiles' = CommittedFiles BY DEF CommittedFiles, Committed
<1>2. nextJob \in Nat /\ fileErrors \subseteq Files BY DEF TypeInv, TypeOK
<1>3. \A r \in Readers : Holds(r) => rFile[r] \in Files
  BY DEF TypeInv, ReaderLocals, Holds
<1>4. CommittedFiles \subseteq Files
  BY DEF TypeInv, TypeOK, CommittedFiles, Committed, Document
<1>5. \A f \in Files : f \in Int /\ (f < nextJob => f < nextJob')
  BY <1>2, ConstantsAssumption DEF Files
<1>6. OwnInv'
  <2>1. \A r \in Readers : Holds(r)' => rFile'[r] < nextJob'
    BY <1>3, <1>5 DEF OwnInv
  <2>2. \A w \in Indexers, f \in Files : InLane(w, f)' => f < nextJob'
    BY <1>5 DEF OwnInv
  <2>3. \A f \in fileErrors' \cup CommittedFiles' : f < nextJob'
    BY <1>1, <1>2, <1>4, <1>5 DEF OwnInv
  <2>4. \A r, s \in Readers : Holds(r)' /\ Holds(s)' /\ rFile'[r] = rFile'[s] => r = s
    BY DEF OwnInv
  <2>5. ASSUME NEW r \in Readers, NEW w \in Indexers, Holds(r)', InLane(w, rFile[r])'
        PROVE  rWorker'[r] = w
    <3>1. Holds(r) /\ rFile'[r] = rFile[r] /\ rFile[r] \in Files BY <1>3, <2>5
    <3>2. InLane(w, rFile[r])
      <4>1. \A f : f = rFile'[r] => InLane(w, f)' BY <2>5 DEF InLane
      <4> QED BY <3>1, <4>1
    <3>3. rWorker[r] = w BY <3>1, <3>2 DEF OwnInv
    <3> QED BY <2>5, <3>3, ConstantsAssumption
  <2>6. \A v, w \in Indexers, f \in Files : InLane(v, f)' /\ InLane(w, f)' => v = w
    BY DEF OwnInv
  <2> QED BY <2>1, <2>2, <2>3, <2>4, <2>5, <2>6 DEF OwnInv
<1>7. SettledInv'
  <2>1. ASSUME NEW f \in CommittedFiles'
        PROVE  /\ f \notin fileErrors'
               /\ \A r \in Readers : Holds(r)' => rFile'[r] # f
               /\ \A w \in Indexers : ~InLane(w, f)'
    BY <1>1, <1>4 DEF SettledInv
  <2>2. \A r \in Readers : Holds(r)' => (rFile'[r] \in fileErrors' <=> pc'[r] = "abort")
    BY DEF SettledInv
  <2>3. \A w \in Indexers : \A i \in DOMAIN queue'[w] :
          /\ queue'[w][i].kind = "Complete" => queue'[w][i].fileId \notin fileErrors'
          /\ queue'[w][i].kind = "Abort" => queue'[w][i].fileId \in fileErrors'
          /\ queue'[w][i].kind \in Terminal =>
                \A r \in Readers : Holds(r)' => rFile'[r] # queue'[w][i].fileId
    BY DEF SettledInv
  <2> QED BY <2>1, <2>2, <2>3 DEF SettledInv
<1> QED BY <1>6, <1>7

\* Steps after which every file is accounted for as before.
LEMMA JobsFrame ==
  ASSUME JobsInv, UNCHANGED <<nextJob, dictionary>>, fileErrors \subseteq fileErrors',
         fatalError' = "none" =>
             /\ fatalError = "none"
             /\ \A r \in Readers : Holds(r) => Holds(r)' /\ rFile'[r] = rFile[r]
             /\ \A w \in Indexers, f \in Files :
                   InLane(w, f) => InLane(w, f)' \/ f \in fileErrors'
  PROVE  JobsInv'
<1>1. CommittedFiles' = CommittedFiles BY DEF CommittedFiles, Committed
<1>2. ASSUME NEW f \in Files, f < nextJob', fatalError' = "none" PROVE Accounted(f)'
  <2>1. Accounted(f) BY <1>2 DEF JobsInv
  <2>2. CASE f \in CommittedFiles \cup fileErrors BY <1>1, <2>2 DEF Accounted
  <2>3. CASE \E r \in Readers : Holds(r) /\ rFile[r] = f BY <1>2, <2>3 DEF Accounted
  <2>4. CASE \E w \in Indexers : InLane(w, f) BY <1>2, <2>4 DEF Accounted
  <2> QED BY <2>1, <2>2, <2>3, <2>4 DEF Accounted
<1> QED BY <1>2 DEF JobsInv

\* Nothing moves in the lanes.
LEMMA LanesFrame ==
  ASSUME UNCHANGED <<queue, document, cancelled>>
  PROVE  /\ \A w \in Indexers, f \in Files : InLane(w, f)' <=> InLane(w, f)
         /\ \A w \in Indexers : \A i \in DOMAIN queue'[w] :
               \E j \in DOMAIN queue[w] : queue'[w][i] = queue[w][j]
BY DEF InLane

(* The steps of a reader that move no block and settle no file.  It gives a file up
   only with a fatal error. *)
LEMMA ReaderQuietFlow ==
  ASSUME SafetyInv, FlowInv, NEW r \in Readers,
         \/ Open(r) \/ Acquire(r) \/ AcquireRefused(r) \/ AcquireWaits(r) \/ Read(r)
         \/ PushRefused(r) \/ PushWaits(r) \/ ReaderThrows(r) \/ Leave(r)
  PROVE  OwnInv' /\ SettledInv' /\ JobsInv'
<1> USE ConstantsAssumption
<1> USE DEF TypeInv, TypeOK, ReaderLocals, Threads, Goto, shared, pool, lanes, rVars,
        iVars, Busy, AwakeAt, Sleep
<1>0. TypeInv /\ OwnInv /\ SettledInv /\ JobsInv BY DEF SafetyInv, FlowInv
<1>1. UNCHANGED <<fileErrors, dictionary, queue, document, cancelled, nextJob>>
  BY DEF Open, Acquire, AcquireRefused, AcquireWaits, Read, PushRefused, PushWaits,
         ReaderThrows, Leave
<1>2. \A s \in Readers : s # r =>
         pc'[s] = pc[s] /\ rFile'[s] = rFile[s] /\ rWorker'[s] = rWorker[s]
  BY <1>0 DEF Open, Acquire, Borrow, AcquireRefused, AcquireWaits, Read, PushRefused,
              PushWaits, ReaderThrows, Leave, Forget, SetFatal
<1>3. Holds(r)' => /\ Holds(r) /\ rFile'[r] = rFile[r]
                   /\ pc'[r] = "abort" <=> pc[r] = "abort"
                   /\ rWorker'[r] = rWorker[r] \/ rWorker[r] = NoWorker
  BY <1>0 DEF Open, Acquire, Borrow, AcquireRefused, AcquireWaits, Read, PushRefused,
              PushWaits, ReaderThrows, Leave, SetFatal, Holds
<1>4. fatalError' = "none" => fatalError = "none" /\ (Holds(r) => Holds(r)')
  <2>1. CASE AcquireRefused(r)
    BY <2>1 DEF AcquireRefused, SafetyInv, CancelInv
  <2>2. CASE PushRefused(r)
    <3>1. rWorker[r] \in Indexers /\ pc[r] \in PushLabels
      BY <1>0, <2>2 DEF PushRefused, PushLabels
    <3>2. ~closed[rWorker[r]]
      BY <3>1 DEF SafetyInv, CloseInv, ReadersGone, PushLabels
    <3> QED BY <2>2, <3>1, <3>2 DEF PushRefused, SafetyInv, CancelInv
  <2>3. CASE ReaderThrows(r) BY <2>3 DEF ReaderThrows, SetFatal
  <2> QED BY <1>0, <2>1, <2>2, <2>3
          DEF Open, Acquire, AcquireWaits, Read, PushWaits, Leave, Holds
<1>5. \A s \in Readers : Holds(s)' =>
         /\ Holds(s) /\ rFile'[s] = rFile[s] /\ (pc'[s] = "abort" <=> pc[s] = "abort")
         /\ rWorker'[s] = rWorker[s] \/ rWorker[s] = NoWorker
  BY <1>2, <1>3 DEF Holds
<1>6. fatalError' = "none" => \A s \in Readers : Holds(s) => Holds(s)' /\ rFile'[s] = rFile[s]
  BY <1>2, <1>3, <1>4 DEF Holds
<1>7. nextJob' \in Nat /\ nextJob <= nextJob' BY <1>0, <1>1
<1> HIDE DEF TypeInv
<1>8. OwnInv' /\ SettledInv' BY <1>0, <1>1, <1>5, <1>7, LanesFrame, FlowFrame
<1>9. JobsInv' BY <1>0, <1>1, <1>4, <1>6, LanesFrame, JobsFrame
<1> QED BY <1>8, <1>9

\* The steps of the other threads that move no block and settle no file.
LEMMA OtherQuietFlow ==
  ASSUME SafetyInv, FlowInv,
         \/ \E w \in Indexers : \/ PopWaits(w) \/ IndexerExits(w) \/ IndexerStopsInside(w)
                                \/ Release(w)
         \/ \E t \in Threads : CancelWorkers(t) \/ CancelDone(t) \/ CloseDone(t)
         \/ \E t \in Threads, w \in Indexers : CloseLane(t, w)
         \/ \E t \in Readers \cup Indexers : Spawn(t) \/ SpuriousWakeup(t)
         \/ SpawnDone \/ SpawnFails \/ JoinReaders \/ JoinIndexers
         \/ UNCHANGED vars
  PROVE  OwnInv' /\ SettledInv' /\ JobsInv'
<1> USE ConstantsAssumption
<1> USE DEF TypeInv, TypeOK, Threads, Goto, shared, pool, lanes, rVars, iVars, Busy,
        AwakeAt, Sleep
<1>0. TypeInv /\ OwnInv /\ SettledInv /\ JobsInv BY DEF SafetyInv, FlowInv
<1>1. UNCHANGED <<fileErrors, dictionary, queue, document, cancelled, nextJob, rFile, rWorker>>
  BY DEF PopWaits, IndexerExits, IndexerStopsInside, Release, CancelWorkers, CancelDone,
         CloseDone, CloseLane, Spawn, SpuriousWakeup, SpawnDone, SpawnFails, JoinReaders,
         JoinIndexers, vars
<1>2. \A s \in Readers : /\ Holds(s)' <=> Holds(s)
                         /\ pc'[s] = "abort" <=> pc[s] = "abort"
  <2>1. CASE \E w \in Indexers : \/ PopWaits(w) \/ IndexerExits(w) \/ IndexerStopsInside(w)
                                 \/ Release(w)
    <3>1. PICK w \in Indexers : \/ PopWaits(w) \/ IndexerExits(w) \/ IndexerStopsInside(w)
                                \/ Release(w)
      BY <2>1
    <3>2. UNCHANGED pc \/ \E label : Goto(w, label)
      BY <3>1 DEF PopWaits, IndexerExits, IndexerStopsInside, Release, SetFatal
    <3>3. \A s \in Readers : pc'[s] = pc[s] BY <1>0, <3>2
    <3> QED BY <3>3 DEF Holds
  <2>2. CASE \E t \in Threads : CancelWorkers(t) \/ CancelDone(t) \/ CloseDone(t)
    BY <1>0, <2>2 DEF CancelWorkers, CancelDone, CloseDone, Holds
  <2>3. CASE \E t \in Threads, w \in Indexers : CloseLane(t, w)
    BY <2>3 DEF CloseLane, Holds
  <2>4. CASE \E t \in Readers \cup Indexers : Spawn(t) \/ SpuriousWakeup(t)
    BY <1>0, <2>4 DEF Spawn, SpuriousWakeup, Holds
  <2>5. CASE SpawnDone \/ SpawnFails \/ JoinReaders \/ JoinIndexers
    <3>1. \E label : Goto(Main, label)
      BY <2>5 DEF SpawnDone, SpawnFails, JoinReaders, JoinIndexers, SetFatal
    <3>2. \A s \in Readers : pc'[s] = pc[s] BY <1>0, <3>1
    <3> QED BY <3>2 DEF Holds
  <2>6. CASE UNCHANGED vars BY <2>6 DEF vars, Holds
  <2> QED BY <2>1, <2>2, <2>3, <2>4, <2>5, <2>6
<1>3. fatalError' = "none" => fatalError = "none"
  BY DEF PopWaits, IndexerExits, IndexerStopsInside, Release, CancelWorkers, CancelDone,
         CloseDone, CloseLane, Spawn, SpuriousWakeup, SpawnDone, SpawnFails, JoinReaders,
         JoinIndexers, vars, SetFatal
<1>4. nextJob' \in Nat /\ nextJob <= nextJob' BY <1>0, <1>1
<1> HIDE DEF TypeInv
<1>5. OwnInv' /\ SettledInv' BY <1>0, <1>1, <1>2, <1>4, LanesFrame, FlowFrame
<1>6. JobsInv' BY <1>0, <1>1, <1>2, <1>3, LanesFrame, JobsFrame
<1> QED BY <1>5, <1>6

\* A lane that is cancelled holds no file any more; there is a fatal error.
LEMMA CancelLaneFlow ==
  ASSUME SafetyInv, FlowInv, NEW t \in Threads, NEW w \in Indexers, CancelLane(t, w)
  PROVE  OwnInv' /\ SettledInv' /\ JobsInv'
<1> USE DEF TypeInv, TypeOK, shared, pool, rVars, iVars
<1>0. TypeInv /\ OwnInv /\ SettledInv /\ JobsInv BY DEF SafetyInv, FlowInv
<1>1. /\ UNCHANGED <<pc, fileErrors, dictionary, document, nextJob, rFile, rWorker, fatalError>>
      /\ cancelled' = [cancelled EXCEPT ![w] = TRUE]
      /\ queue' = [queue EXCEPT ![w] = << >>]
  BY DEF CancelLane
<1>2. \A v \in Indexers, f \in Files : InLane(v, f)' => InLane(v, f)
  BY <1>0, <1>1 DEF InLane
<1>3. \A v \in Indexers : \A i \in DOMAIN queue'[v] :
         \E j \in DOMAIN queue[v] : queue'[v][i] = queue[v][j]
  BY <1>0, <1>1
<1>4. fatalError' # "none" BY <1>1 DEF CancelLane, SafetyInv, CancelInv, Failing
<1>5. \A s \in Readers : Holds(s)' <=> Holds(s) BY <1>1 DEF Holds
<1>6. nextJob' \in Nat /\ nextJob <= nextJob' BY <1>0, <1>1
<1> HIDE DEF TypeInv
<1>7. OwnInv' /\ SettledInv' BY <1>0, <1>1, <1>2, <1>3, <1>5, <1>6, FlowFrame
<1> QED BY <1>4, <1>7 DEF JobsInv

(* What the popping of a block does to the files in the lane, for the document that
   the indexer then has. *)
LEMMA PopFlow ==
  ASSUME TypeInv, ShapeInv, NEW w \in Indexers, TakeBlock(w),
         document' = document \/ \E d : document' = [document EXCEPT ![w] = d]
  PROVE  /\ Head(queue[w]) \in Block /\ Head(queue[w]).fileId \in Files
         /\ 1 \in DOMAIN queue[w] /\ Head(queue[w]) = queue[w][1]
         /\ UNCHANGED <<cancelled, rFile, rWorker>> /\ ~cancelled[w] /\ pc[w] = "pop"
         /\ \A v \in Indexers : v # w => queue'[v] = queue[v] /\ document'[v] = document[v]
         /\ \A v \in Indexers : \A i \in DOMAIN queue'[v] :
               \E j \in DOMAIN queue[v] : queue'[v][i] = queue[v][j]
         /\ \A i \in DOMAIN queue[w] :
               i = 1 \/ \E j \in DOMAIN queue'[w] : queue'[w][j] = queue[w][i]
<1> USE DEF TypeInv, TypeOK, rVars
<1>1. /\ queue[w] \in Seq(Block) /\ queue[w] # << >> /\ queue' = [queue EXCEPT ![w] = Tail(@)]
      /\ UNCHANGED <<cancelled, rFile, rWorker>> /\ ~cancelled[w] /\ pc[w] = "pop"
  BY DEF TakeBlock, AwakeAt
<1> DEFINE q == queue[w]
<1>2. /\ Len(q) \in Nat \ {0} /\ DOMAIN q = 1 .. Len(q) /\ Head(q) = q[1]
      /\ Tail(q) \in Seq(Block) /\ DOMAIN Tail(q) = 1 .. Len(q) - 1
      /\ \A i \in 1 .. Len(q) - 1 : Tail(q)[i] = q[i + 1]
  BY <1>1, HeadTailProperties, EmptySeq, LenProperties
<1>3. 1 \in DOMAIN q /\ q[1] \in Block BY <1>1, <1>2, ElementOfSeq
<1>4. \A v \in Indexers : v # w => queue'[v] = queue[v] BY <1>1
<1>5. queue'[w] = Tail(q) BY <1>1
<1>6. \A i \in DOMAIN Tail(q) : i + 1 \in DOMAIN q /\ Tail(q)[i] = q[i + 1] BY <1>2
<1>7. \A i \in DOMAIN q : i = 1 \/ (i - 1 \in DOMAIN Tail(q) /\ Tail(q)[i - 1] = q[i])
  BY <1>2
<1>8. \A v \in Indexers : v # w => document'[v] = document[v] OBVIOUS
<1>9. q[1].fileId \in Files BY <1>3 DEF Block
<1> HIDE DEF q
<1>10. \A i \in DOMAIN queue'[w] : \E j \in DOMAIN queue[w] : queue'[w][i] = queue[w][j]
  BY <1>5, <1>6 DEF q
<1>11. \A i \in DOMAIN queue[w] : i = 1 \/ \E j \in DOMAIN queue'[w] : queue'[w][j] = queue[w][i]
  BY <1>5, <1>7 DEF q
<1>12. \A v \in Indexers : \A i \in DOMAIN queue'[v] :
          \E j \in DOMAIN queue[v] : queue'[v][i] = queue[v][j]
  BY <1>4, <1>10
<1> QED BY <1>1, <1>2, <1>3, <1>4, <1>8, <1>9, <1>11, <1>12 DEF q

(* A block that does not complete a file: what it belongs to stays where it is, or
   was aborted and has an error, or the indexer throws. *)
LEMMA PopQuietFlow ==
  ASSUME SafetyInv, FlowInv, NEW w \in Indexers,
         PopStart(w) \/ PopData(w) \/ PopAbort(w) \/ PopThrows(w)
  PROVE  OwnInv' /\ SettledInv' /\ JobsInv'
<1> USE ConstantsAssumption
<1> USE DEF TypeInv, TypeOK, Threads, Goto, shared, iVars
<1>0. TypeInv /\ ShapeInv /\ OwnInv /\ SettledInv /\ JobsInv BY DEF SafetyInv, FlowInv
<1> DEFINE b == Head(queue[w])
<1>1. /\ TakeBlock(w) /\ UNCHANGED <<fileErrors, dictionary, nextJob>>
      /\ document' = document \/ \E d : document' = [document EXCEPT ![w] = d]
  BY DEF PopStart, PopData, PopAbort, PopThrows
<1> HIDE DEF TypeInv
<1>2. /\ b \in Block /\ b.fileId \in Files /\ 1 \in DOMAIN queue[w] /\ b = queue[w][1]
      /\ UNCHANGED <<cancelled, rFile, rWorker>> /\ ~cancelled[w] /\ pc[w] = "pop"
      /\ \A v \in Indexers : v # w => queue'[v] = queue[v] /\ document'[v] = document[v]
      /\ \A v \in Indexers : \A i \in DOMAIN queue'[v] :
            \E j \in DOMAIN queue[v] : queue'[v][i] = queue[v][j]
      /\ \A i \in DOMAIN queue[w] :
            i = 1 \/ \E j \in DOMAIN queue'[w] : queue'[w][j] = queue[w][i]
  BY <1>0, <1>1, PopFlow
<1> HIDE DEF b
<1> USE DEF TypeInv
<1>3. NoDoc.fileId = -1 /\ -1 \notin Files BY DEF NoDoc, Files
<1>4. \/ /\ document'[w].fileId = b.fileId /\ fatalError' = fatalError
         /\ document[w] = NoDoc \/ document[w].fileId = b.fileId
      \/ /\ document'[w] = NoDoc /\ fatalError' = fatalError
         /\ b.kind = "Abort" /\ document[w].fileId = b.fileId
      \/ document'[w] = document[w] /\ fatalError' # "none"
  <2>1. CASE PopStart(w)
    <3>1. document' = [document EXCEPT ![w] = [NoDoc EXCEPT !.fileId = b.fileId]]
          /\ document[w] = NoDoc /\ fatalError' = fatalError
      BY <2>1 DEF PopStart, InSequence, b
    <3>2. document'[w] = [NoDoc EXCEPT !.fileId = b.fileId] BY <1>0, <3>1
    <3>3. document'[w].fileId = b.fileId BY <3>2 DEF NoDoc
    <3> QED BY <3>1, <3>3
  <2>2. CASE PopData(w)
    <3>1. document' = [document EXCEPT ![w] = Tokenized(document[w], b)]
          /\ document[w].fileId = b.fileId /\ fatalError' = fatalError
      BY <2>2 DEF PopData, InSequence, b
    <3>2. document'[w] = Tokenized(document[w], b) BY <1>0, <3>1
    <3>3. document'[w].fileId = b.fileId BY <3>1, <3>2 DEF Tokenized
    <3> QED BY <3>1, <3>3
  <2>3. CASE PopAbort(w)
    <3>1. document' = [document EXCEPT ![w] = NoDoc] /\ b.kind = "Abort"
          /\ document[w].fileId = b.fileId /\ fatalError' = fatalError
      BY <2>3 DEF PopAbort, InSequence, b
    <3> QED BY <1>0, <3>1
  <2>4. CASE PopThrows(w) BY <1>0, <2>4 DEF PopThrows, SetFatal
  <2> QED BY <2>1, <2>2, <2>3, <2>4
<1>5. ASSUME NEW v \in Indexers, NEW f \in Files, InLane(v, f)' PROVE InLane(v, f)
  <2>1. CASE v # w BY <1>2, <1>5, <2>1 DEF InLane
  <2>2. CASE v = w
    <3>1. CASE \E i \in DOMAIN queue'[w] : queue'[w][i].fileId = f
      BY <1>2, <2>2, <3>1 DEF InLane
    <3>2. CASE document'[w].fileId = f BY <1>2, <1>3, <1>4, <2>2, <3>2 DEF InLane
    <3> QED BY <1>5, <2>2, <3>1, <3>2 DEF InLane
  <2> QED BY <2>1, <2>2
<1>6. ASSUME NEW v \in Indexers, NEW f \in Files, InLane(v, f), fatalError' = "none"
      PROVE  InLane(v, f)' \/ f \in fileErrors'
  <2>1. CASE v # w BY <1>2, <1>6, <2>1 DEF InLane
  <2>2. CASE v = w
    <3>1. f = b.fileId \/ \E j \in DOMAIN queue'[w] : queue'[w][j].fileId = f
      <4>1. CASE document[w].fileId = f BY <1>3, <1>4, <1>6, <4>1
      <4>2. CASE \E i \in DOMAIN queue[w] : queue[w][i].fileId = f BY <1>2, <4>2
      <4> QED BY <1>6, <2>2, <4>1, <4>2 DEF InLane
    <3>2. b.kind = "Abort" => b.fileId \in fileErrors' BY <1>0, <1>1, <1>2 DEF SettledInv
    <3> QED BY <1>2, <1>4, <1>6, <2>2, <3>1, <3>2 DEF InLane
  <2> QED BY <2>1, <2>2
<1>7. fatalError' = "none" => fatalError = "none" BY <1>4
<1>8. nextJob' \in Nat /\ nextJob <= nextJob' BY <1>0, <1>1
<1>9. \A s \in Readers : pc'[s] = pc[s]
  <2>1. UNCHANGED pc \/ \E label : Goto(w, label)
    BY DEF PopStart, PopData, PopAbort, PopThrows, SetFatal
  <2> QED BY <1>0, <2>1
<1> HIDE DEF TypeInv
<1>10. \A s \in Readers : Holds(s)' <=> Holds(s) BY <1>9 DEF Holds
<1>11. OwnInv' /\ SettledInv' BY <1>0, <1>1, <1>2, <1>5, <1>8, <1>9, <1>10, FlowFrame
<1>12. JobsInv' BY <1>0, <1>1, <1>2, <1>6, <1>7, <1>10, JobsFrame
<1> QED BY <1>11, <1>12

(* A reader takes the next file, which nobody has had before; or there is none. *)
LEMMA TakeJobFlow ==
  ASSUME SafetyInv, FlowInv, NEW r \in Readers, TakeJob(r)
  PROVE  OwnInv' /\ SettledInv' /\ JobsInv'
<1> USE ConstantsAssumption
<1> USE DEF TypeInv, TypeOK, Threads, Goto, lanes, iVars
<1>0. /\ TypeInv /\ OwnInv /\ SettledInv /\ JobsInv /\ nextJob \in Nat
      /\ CommittedFiles \subseteq Files /\ fileErrors \subseteq Files
      /\ \A s \in Readers : Holds(s) => rFile[s] \in Files
      /\ \A w \in Indexers : cancelled[w] => queue[w] = << >>
  BY DEF SafetyInv, FlowInv, ReaderLocals, Holds, CommittedFiles, Committed, Document, CancelInv
<1>1. /\ UNCHANGED <<fileErrors, dictionary, queue, document, cancelled, fatalError, rWorker>>
      /\ nextJob' = nextJob + 1 /\ pc[r] = "job"
  BY DEF TakeJob
<1>2. \A s \in Readers : s # r => pc'[s] = pc[s] /\ rFile'[s] = rFile[s]
  BY <1>0 DEF TakeJob
<1>3. /\ CommittedFiles' = CommittedFiles
      /\ \A w \in Indexers, f \in Files : InLane(w, f)' <=> InLane(w, f)
  BY <1>1 DEF CommittedFiles, Committed, InLane
<1>4. ~Holds(r) /\ \A s \in Readers : s # r => (Holds(s)' <=> Holds(s))
  BY <1>1, <1>2 DEF Holds, Busy
<1>5. \A f \in Files : f \in Int BY DEF Files
<1>6. nextJob' \in Nat /\ nextJob <= nextJob' BY <1>0, <1>1
<1>7. CASE NoMoreJobs
  <2>1. ~Holds(r)' BY <1>0, <1>7 DEF TakeJob, Holds, Busy
  <2> HIDE DEF TypeInv
  <2>2. OwnInv' /\ SettledInv'
    BY <1>0, <1>1, <1>2, <1>4, <1>6, <2>1, LanesFrame, FlowFrame
  <2>3. \A f \in Files : f < nextJob BY <1>0, <1>7 DEF Files, NoMoreJobs
  <2>4. \A f \in Files : Accounted(f) => Accounted(f)'
    BY <1>1, <1>2, <1>3, <1>4 DEF Accounted
  <2>5. JobsInv' BY <1>0, <1>1, <2>3, <2>4 DEF JobsInv
  <2> QED BY <2>2, <2>5
<1>8. CASE ~NoMoreJobs
  <2>1. pc'[r] = "open" /\ rFile'[r] = nextJob /\ nextJob \in Files
    BY <1>0, <1>8 DEF TakeJob, NoMoreJobs, Files
  <2>2. Holds(r)' BY <2>1 DEF Holds
  <2>3. \A w \in Indexers : \A i \in DOMAIN queue[w] :
          queue[w][i].fileId \in Files /\ queue[w][i].fileId # nextJob
    <3> SUFFICES ASSUME NEW w \in Indexers, NEW i \in DOMAIN queue[w]
                 PROVE  queue[w][i].fileId \in Files /\ queue[w][i].fileId # nextJob
      OBVIOUS
    <3>1. queue[w][i] \in Block BY <1>0, ElementOfSeq
    <3>2. queue[w][i].fileId \in Files BY <3>1 DEF Block
    <3>3. ~cancelled[w] BY <1>0, EmptySeq
    <3>4. InLane(w, queue[w][i].fileId) BY <3>3 DEF InLane
    <3> QED BY <1>0, <1>5, <3>2, <3>4 DEF OwnInv
  <2> HIDE DEF TypeInv, TypeOK
  <2>4. /\ \A w \in Indexers : ~InLane(w, nextJob)
        /\ nextJob \notin fileErrors \cup CommittedFiles
        /\ \A s \in Readers : Holds(s) => rFile[s] # nextJob
    BY <1>0, <1>5, <2>1 DEF OwnInv
  <2>5. OwnInv'
    <3>1. \A s \in Readers : Holds(s)' => rFile'[s] < nextJob'
      <4>1. rFile'[r] < nextJob' BY <1>0, <1>1, <2>1
      <4>2. \A s \in Readers : Holds(s) => rFile[s] < nextJob'
        BY <1>0, <1>1, <1>5 DEF OwnInv
      <4> QED BY <1>2, <1>4, <4>1, <4>2
    <3>2. \A w \in Indexers, f \in Files : InLane(w, f)' => f < nextJob'
      BY <1>0, <1>1, <1>3, <1>5 DEF OwnInv
    <3>3. \A f \in fileErrors' \cup CommittedFiles' : f < nextJob'
      BY <1>0, <1>1, <1>3, <1>5 DEF OwnInv
    <3>4. \A s, t \in Readers : Holds(s)' /\ Holds(t)' /\ rFile'[s] = rFile'[t] => s = t
      BY <1>0, <1>2, <1>4, <2>1, <2>4 DEF OwnInv
    <3>5. ASSUME NEW s \in Readers, NEW w \in Indexers, Holds(s)', InLane(w, rFile[s])'
          PROVE  rWorker'[s] = w
      <4>1. \A f \in Files : f = rFile'[s] => InLane(w, f)
        BY <1>1, <3>5 DEF InLane
      <4>2. s # r BY <2>1, <2>4, <4>1
      <4> QED BY <1>0, <1>1, <1>2, <1>4, <3>5, <4>1, <4>2 DEF OwnInv
    <3>6. \A v, w \in Indexers, f \in Files : InLane(v, f)' /\ InLane(w, f)' => v = w
      BY <1>0, <1>3 DEF OwnInv
    <3> QED BY <3>1, <3>2, <3>3, <3>4, <3>5, <3>6 DEF OwnInv
  <2>6. SettledInv'
    <3>1. ASSUME NEW f \in CommittedFiles'
          PROVE  /\ f \notin fileErrors'
                 /\ \A s \in Readers : Holds(s)' => rFile'[s] # f
                 /\ \A w \in Indexers : ~InLane(w, f)'
      BY <1>0, <1>1, <1>2, <1>3, <1>4, <2>1, <2>4 DEF SettledInv
    <3>2. \A s \in Readers : Holds(s)' => (rFile'[s] \in fileErrors' <=> pc'[s] = "abort")
      BY <1>0, <1>1, <1>2, <1>4, <2>1, <2>4 DEF SettledInv
    <3>3. \A w \in Indexers : \A i \in DOMAIN queue'[w] :
            /\ queue'[w][i].kind = "Complete" => queue'[w][i].fileId \notin fileErrors'
            /\ queue'[w][i].kind = "Abort" => queue'[w][i].fileId \in fileErrors'
            /\ queue'[w][i].kind \in Terminal =>
                  \A s \in Readers : Holds(s)' => rFile'[s] # queue'[w][i].fileId
      BY <1>0, <1>1, <1>2, <1>4, <2>1, <2>3 DEF SettledInv
    <3> QED BY <3>1, <3>2, <3>3 DEF SettledInv
  <2>7. JobsInv'
    <3>1. \A f \in Files : Accounted(f) => Accounted(f)'
      BY <1>1, <1>2, <1>3, <1>4 DEF Accounted
    <3>2. \A f \in Files : f = nextJob => Accounted(f)'
      BY <2>1, <2>2 DEF Accounted
    <3>3. \A f \in Files : f < nextJob' => f < nextJob \/ f = nextJob
      BY <1>0, <1>1, <1>5
    <3> QED BY <1>0, <1>1, <3>1, <3>2, <3>3 DEF JobsInv
  <2> QED BY <2>5, <2>6, <2>7
<1> QED BY <1>7, <1>8

(* A reader reports the file it has.  It keeps it only to abort it. *)
LEMMA FileErrorFlow ==
  ASSUME SafetyInv, FlowInv, NEW r \in Readers, OpenFails(r) \/ ReadFails(r)
  PROVE  OwnInv' /\ SettledInv' /\ JobsInv'
<1> USE ConstantsAssumption
<1> USE DEF TypeInv, TypeOK, Threads, Goto, pool, lanes, rVars, iVars
<1>0. /\ TypeInv /\ OwnInv /\ SettledInv /\ JobsInv /\ nextJob \in Nat
      /\ \A s \in Readers : Holds(s) => rFile[s] \in Files
      /\ CommittedFiles \subseteq Files
  BY DEF SafetyInv, FlowInv, ReaderLocals, Holds, CommittedFiles, Committed, Document
<1>1. /\ UNCHANGED <<dictionary, queue, document, cancelled, fatalError, nextJob>>
      /\ fileErrors' = fileErrors \cup {rFile[r]} /\ pc[r] \in {"open", "read"}
  BY DEF OpenFails, ReadFails, AddFileError
<1>2. \A s \in Readers : s # r =>
        pc'[s] = pc[s] /\ rFile'[s] = rFile[s] /\ rWorker'[s] = rWorker[s]
  BY <1>0 DEF OpenFails, ReadFails, Forget
<1>3. Holds(r)' => rFile'[r] = rFile[r] /\ rWorker'[r] = rWorker[r] /\ pc'[r] = "abort"
  BY <1>0 DEF OpenFails, ReadFails, Holds, Busy
<1>4. Holds(r) /\ \A s \in Readers : s # r => (Holds(s)' <=> Holds(s))
  BY <1>1, <1>2 DEF Holds, Busy
<1>5. /\ CommittedFiles' = CommittedFiles
      /\ \A w \in Indexers, f \in Files : InLane(w, f)' <=> InLane(w, f)
  BY <1>1 DEF CommittedFiles, Committed, InLane
<1> HIDE DEF TypeInv, TypeOK
<1>6. OwnInv'
  <2>1. \A s \in Readers : Holds(s)' => rFile'[s] < nextJob'
    BY <1>0, <1>1, <1>2, <1>3, <1>4 DEF OwnInv
  <2>2. \A w \in Indexers, f \in Files : InLane(w, f)' => f < nextJob'
    BY <1>0, <1>1, <1>5 DEF OwnInv
  <2>3. \A f \in fileErrors' \cup CommittedFiles' : f < nextJob'
    BY <1>0, <1>1, <1>4, <1>5 DEF OwnInv
  <2>4. \A s, t \in Readers : Holds(s)' /\ Holds(t)' /\ rFile'[s] = rFile'[t] => s = t
    BY <1>0, <1>2, <1>3, <1>4 DEF OwnInv
  <2>5. ASSUME NEW s \in Readers, NEW w \in Indexers, Holds(s)', InLane(w, rFile[s])'
        PROVE  rWorker'[s] = w
    <3>1. Holds(s) /\ rFile'[s] = rFile[s] /\ rWorker'[s] = rWorker[s]
      BY <1>2, <1>3, <1>4, <2>5
    <3>2. \A f \in Files : f = rFile'[s] => InLane(w, f)
      BY <1>1, <2>5 DEF InLane
    <3> QED BY <1>0, <3>1, <3>2 DEF OwnInv
  <2>6. \A v, w \in Indexers, f \in Files : InLane(v, f)' /\ InLane(w, f)' => v = w
    BY <1>0, <1>5 DEF OwnInv
  <2> QED BY <2>1, <2>2, <2>3, <2>4, <2>5, <2>6 DEF OwnInv
<1>7. SettledInv'
  <2>1. ASSUME NEW f \in CommittedFiles'
        PROVE  /\ f \notin fileErrors'
               /\ \A s \in Readers : Holds(s)' => rFile'[s] # f
               /\ \A w \in Indexers : ~InLane(w, f)'
    BY <1>0, <1>1, <1>2, <1>3, <1>4, <1>5 DEF SettledInv
  <2>2. \A s \in Readers : Holds(s)' => (rFile'[s] \in fileErrors' <=> pc'[s] = "abort")
    <3>1. \A s \in Readers : s # r /\ Holds(s) => rFile[s] # rFile[r]
      BY <1>0, <1>4 DEF OwnInv
    <3> QED BY <1>0, <1>1, <1>2, <1>3, <1>4, <3>1 DEF SettledInv
  <2>3. ASSUME NEW w \in Indexers, NEW i \in DOMAIN queue'[w]
        PROVE  /\ queue'[w][i].kind = "Complete" => queue'[w][i].fileId \notin fileErrors'
               /\ queue'[w][i].kind = "Abort" => queue'[w][i].fileId \in fileErrors'
               /\ queue'[w][i].kind \in Terminal =>
                     \A s \in Readers : Holds(s)' => rFile'[s] # queue'[w][i].fileId
    <3>1. queue'[w] = queue[w] BY <1>1
    <3>2. \A s \in Readers : Holds(s)' => Holds(s) /\ rFile'[s] = rFile[s]
      BY <1>2, <1>3, <1>4
    <3> QED BY <1>0, <1>1, <1>4, <2>3, <3>1, <3>2 DEF SettledInv, Terminal
  <2> QED BY <2>1, <2>2, <2>3 DEF SettledInv
<1>8. JobsInv'
  <2>1. ASSUME NEW f \in Files, Accounted(f) PROVE Accounted(f)'
    <3>1. CASE \E s \in Readers : Holds(s) /\ rFile[s] = f
      BY <1>1, <1>2, <1>4, <3>1 DEF Accounted
    <3> QED BY <1>1, <1>5, <2>1, <3>1 DEF Accounted
  <2> QED BY <1>0, <1>1, <2>1 DEF JobsInv
<1> QED BY <1>6, <1>7, <1>8

(* A block goes from a reader to the lane of the indexer it has borrowed, and with a
   terminal block the file goes too. *)
LEMMA PushFlow ==
  ASSUME SafetyInv, FlowInv, NEW r \in Readers, Push(r)
  PROVE  OwnInv' /\ SettledInv' /\ JobsInv'
<1> USE ConstantsAssumption
<1> USE DEF TypeInv, TypeOK, Threads, Goto, shared, iVars
<1>0. /\ TypeInv /\ OwnInv /\ SettledInv /\ JobsInv
      /\ \A s \in Readers : Holds(s) => rFile[s] \in Files
      /\ CommittedFiles \subseteq Files
  BY DEF SafetyInv, FlowInv, ReaderLocals, Holds, CommittedFiles, Committed, Document
<1>1. pc[r] \in PushLabels /\ Holds(r) BY DEF Push, PushLabels, Holds, Busy
<1>2. rWorker[r] \in Indexers /\ rFile[r] \in Files
  BY <1>0, <1>1 DEF ReaderLocals, PushLabels, Busy
<1>3. PICK w \in Indexers : w = rWorker[r] BY <1>2
<1>4. PICK f \in Files : f = rFile[r] BY <1>2
<1> DEFINE b == NextBlock(r)
           q == queue[w]
           done == pc[r] = "complete" \/ pc[r] = "abort"
<1>5. /\ ~cancelled[w] /\ queue' = [queue EXCEPT ![w] = Append(q, b)]
      /\ UNCHANGED <<dictionary, document, cancelled, fatalError, nextJob, fileErrors>>
  BY <1>3 DEF Push
<1>6. b.fileId = f /\ (b.kind = "Complete" <=> pc[r] = "complete")
      /\ (b.kind = "Abort" <=> pc[r] = "abort")
  BY <1>1, <1>4 DEF NextBlock, PushLabels
<1>7. \A s \in Readers : s # r =>
        pc'[s] = pc[s] /\ rFile'[s] = rFile[s] /\ rWorker'[s] = rWorker[s]
  <2>1. \/ rFile' = [rFile EXCEPT ![r] = 0] /\ rWorker' = [rWorker EXCEPT ![r] = NoWorker]
        \/ UNCHANGED <<rFile, rWorker>>
    BY DEF Push, Forget
  <2>2. \E label : Goto(r, label) BY DEF Push
  <2> QED BY <1>0, <2>1, <2>2
<1>8. /\ Holds(r)' => ~done /\ pc'[r] # "abort" /\ rFile'[r] = f /\ rWorker'[r] = w
      /\ ~done => Holds(r)'
  <2>1. CASE done
    <3>1. Goto(r, "job") BY <2>1 DEF Push
    <3>2. ~Holds(r)' BY <1>0, <3>1 DEF Holds, Busy
    <3> QED BY <2>1, <3>2
  <2>2. CASE ~done
    <3>1. UNCHANGED <<rFile, rWorker>> BY <2>2 DEF Push
    <3>2. Goto(r, "read") \/ Goto(r, "data") \/ Goto(r, "complete")
      BY <1>1, <2>2 DEF Push, PushLabels
    <3>3. Holds(r)' /\ pc'[r] # "abort" BY <1>0, <3>2 DEF Holds, Busy
    <3> QED BY <1>3, <1>4, <2>2, <3>1, <3>3
  <2> QED BY <2>1, <2>2
<1> HIDE DEF b, done
<1>9. /\ \A v \in Indexers : v # w => queue'[v] = queue[v]
      /\ \A i \in DOMAIN queue'[w] : queue'[w][i] = b \/ \E j \in DOMAIN q : queue'[w][i] = q[j]
      /\ \A j \in DOMAIN q : j \in DOMAIN queue'[w] /\ queue'[w][j] = q[j]
      /\ \E i \in DOMAIN queue'[w] : queue'[w][i] = b
  <2>1. q \in Seq(Block) /\ queue'[w] = Append(q, b) BY <1>0, <1>5
  <2> HIDE DEF q
  <2>2. /\ Len(q) \in Nat /\ DOMAIN q = 1 .. Len(q)
        /\ DOMAIN Append(q, b) = 1 .. Len(q) + 1
        /\ \A i \in 1 .. Len(q) : Append(q, b)[i] = q[i]
        /\ Append(q, b)[Len(q) + 1] = b
    BY <2>1
  <2>3. \A i \in 1 .. Len(q) + 1 : i = Len(q) + 1 \/ i \in 1 .. Len(q) BY <2>2
  <2>4. Len(q) + 1 \in 1 .. Len(q) + 1 /\ 1 .. Len(q) \subseteq 1 .. Len(q) + 1 BY <2>2
  <2>5. \A v \in Indexers : v # w => queue'[v] = queue[v] BY <1>0, <1>5
  <2> QED BY <2>1, <2>2, <2>3, <2>4, <2>5
<1>10. \A v \in Indexers, g \in Files : InLane(v, g)' <=> InLane(v, g) \/ (v = w /\ g = f)
  <2>1. ASSUME NEW v \in Indexers, NEW g \in Files, v # w PROVE InLane(v, g)' <=> InLane(v, g)
    BY <1>5, <1>9, <2>1 DEF InLane
  <2>2. ASSUME NEW g \in Files PROVE InLane(w, g)' <=> InLane(w, g) \/ g = f
    BY <1>5, <1>6, <1>9 DEF InLane
  <2> QED BY <2>1, <2>2
<1>11. CommittedFiles' = CommittedFiles BY <1>5 DEF CommittedFiles, Committed
<1>12. /\ \A s \in Readers : Holds(s)' =>
             Holds(s) /\ rFile'[s] = rFile[s] /\ rWorker'[s] = rWorker[s]
       /\ \A s \in Readers : Holds(s) /\ rFile[s] = f => s = r
       /\ f < nextJob /\ f \notin CommittedFiles /\ (f \in fileErrors <=> pc[r] = "abort")
  <2>1. \A s \in Readers : s # r /\ Holds(s)' => Holds(s) BY <1>7 DEF Holds
  <2>2. f < nextJob /\ \A s \in Readers : Holds(s) /\ rFile[s] = f => s = r
    BY <1>0, <1>1, <1>4 DEF OwnInv
  <2>3. f \notin CommittedFiles /\ (f \in fileErrors <=> pc[r] = "abort")
    BY <1>0, <1>1, <1>4 DEF SettledInv
  <2> QED BY <1>1, <1>3, <1>4, <1>7, <1>8, <2>1, <2>2, <2>3
<1> HIDE DEF TypeInv, TypeOK
<1>13. OwnInv'
  <2>1. \A s \in Readers : Holds(s)' => rFile'[s] < nextJob'
    BY <1>0, <1>5, <1>12 DEF OwnInv
  <2>2. \A v \in Indexers, g \in Files : InLane(v, g)' => g < nextJob'
    BY <1>0, <1>5, <1>10, <1>12 DEF OwnInv
  <2>3. \A g \in fileErrors' \cup CommittedFiles' : g < nextJob'
    BY <1>0, <1>5, <1>11 DEF OwnInv
  <2>4. \A s, t \in Readers : Holds(s)' /\ Holds(t)' /\ rFile'[s] = rFile'[t] => s = t
    BY <1>0, <1>12 DEF OwnInv
  <2>5. ASSUME NEW s \in Readers, NEW v \in Indexers, Holds(s)', InLane(v, rFile[s])'
        PROVE  rWorker'[s] = v
    <3>1. PICK g \in Files : g = rFile[s] BY <1>0, <1>12, <2>5
    <3>2. Holds(s) /\ rFile'[s] = g /\ rWorker'[s] = rWorker[s] BY <1>12, <2>5, <3>1
    <3>3. InLane(v, g)' BY <2>5, <3>2 DEF InLane
    <3>4. CASE InLane(v, g) BY <1>0, <3>1, <3>2, <3>4 DEF OwnInv
    <3>5. CASE v = w /\ g = f BY <1>3, <1>12, <3>1, <3>2, <3>5
    <3> QED BY <1>10, <3>3, <3>4, <3>5
  <2>6. \A v \in Indexers : InLane(v, f) => v = w BY <1>0, <1>1, <1>3, <1>4 DEF OwnInv
  <2>7. \A u, v \in Indexers, g \in Files : InLane(u, g)' /\ InLane(v, g)' => u = v
    BY <1>0, <1>10, <2>6 DEF OwnInv
  <2> QED BY <2>1, <2>2, <2>3, <2>4, <2>5, <2>7 DEF OwnInv
<1>14. SettledInv'
  <2>1. ASSUME NEW g \in CommittedFiles'
        PROVE  /\ g \notin fileErrors'
               /\ \A s \in Readers : Holds(s)' => rFile'[s] # g
               /\ \A v \in Indexers : ~InLane(v, g)'
    BY <1>0, <1>5, <1>10, <1>11, <1>12 DEF SettledInv
  <2>2. \A s \in Readers : Holds(s)' => (rFile'[s] \in fileErrors' <=> pc'[s] = "abort")
    BY <1>0, <1>4, <1>5, <1>7, <1>8, <1>12 DEF SettledInv, done
  <2>3. ASSUME NEW v \in Indexers, NEW i \in DOMAIN queue'[v]
        PROVE  /\ queue'[v][i].kind = "Complete" => queue'[v][i].fileId \notin fileErrors'
               /\ queue'[v][i].kind = "Abort" => queue'[v][i].fileId \in fileErrors'
               /\ queue'[v][i].kind \in Terminal =>
                     \A s \in Readers : Holds(s)' => rFile'[s] # queue'[v][i].fileId
    <3>1. CASE \E j \in DOMAIN queue[v] : queue'[v][i] = queue[v][j]
      BY <1>0, <1>5, <1>12, <3>1 DEF SettledInv
    <3>2. CASE queue'[v][i] = b
      <4>1. b.kind \in Terminal => ~Holds(r)' BY <1>6, <1>8 DEF Terminal, done
      <4> QED BY <1>5, <1>6, <1>12, <3>2, <4>1
    <3> QED BY <1>9, <3>1, <3>2
  <2> QED BY <2>1, <2>2, <2>3 DEF SettledInv
<1>15. JobsInv'
  <2>1. ASSUME NEW g \in Files, Accounted(g) PROVE Accounted(g)'
    <3>1. CASE g = f BY <1>10, <3>1 DEF Accounted
    <3>2. CASE g # f /\ \E s \in Readers : Holds(s) /\ rFile[s] = g
      <4>1. PICK s \in Readers : Holds(s) /\ rFile[s] = g BY <3>2
      <4>2. s # r BY <1>4, <3>2, <4>1
      <4>3. Holds(s)' /\ rFile'[s] = g BY <1>7, <4>1, <4>2 DEF Holds
      <4> QED BY <4>3 DEF Accounted
    <3> QED BY <1>5, <1>10, <1>11, <2>1, <3>1, <3>2 DEF Accounted
  <2> QED BY <1>0, <1>5, <2>1 DEF JobsInv
<1> QED BY <1>13, <1>14, <1>15

(* The indexer commits its document: the file is with nobody any more, and has no
   error. *)
LEMMA PopCompleteFlow ==
  ASSUME SafetyInv, FlowInv, NEW w \in Indexers, PopComplete(w)
  PROVE  /\ OwnInv' /\ SettledInv' /\ JobsInv'
         /\ \E f \in Files : f \notin CommittedFiles \cup fileErrors
                             /\ CommittedFiles' = CommittedFiles \cup {f}
<1> USE ConstantsAssumption
<1> USE DEF TypeInv, TypeOK, Threads, Goto
<1>0. /\ TypeInv /\ ShapeInv /\ OwnInv /\ SettledInv /\ JobsInv
      /\ \A s \in Readers : Holds(s) => rFile[s] \in Files
      /\ CommittedFiles \subseteq Files
  BY DEF SafetyInv, FlowInv, ReaderLocals, Holds, CommittedFiles, Committed, Document
<1> DEFINE q == queue[w]
           f == document[w].fileId
<1>1. /\ TakeBlock(w) /\ Head(q).kind = "Complete" /\ document[w] # NoDoc /\ f = Head(q).fileId
      /\ dictionary' = [dictionary EXCEPT ![w] = @ \cup {document[w]}]
      /\ document' = [document EXCEPT ![w] = NoDoc] /\ Goto(w, "release")
      /\ UNCHANGED <<nextJob, fileErrors, fatalError>>
  BY DEF PopComplete, InSequence
<1> HIDE DEF TypeInv
<1>2. /\ q \in Seq(Block) /\ Len(q) \in Nat \ {0} /\ Head(q) = q[1] /\ ~cancelled[w]
      /\ \E g \in Files : Stream(w, g)
  BY <1>0, <1>1, PopFacts
<1>3. 1 \in DOMAIN q /\ q[1].kind = "Complete" /\ q[1].fileId = f BY <1>1, <1>2
<1>4. Len(q) = 1
  <2>1. 1 \in 1 .. Len(q) /\ q[1].kind \in Terminal BY <1>2, <1>3 DEF Terminal
  <2> QED BY <1>2, <2>1 DEF Stream
<1> USE DEF TypeInv
<1>5. /\ queue' = [queue EXCEPT ![w] = Tail(q)]
      /\ UNCHANGED <<cancelled, rFile, rWorker>>
  BY <1>1 DEF TakeBlock, rVars
<1>6. queue'[w] = << >> /\ document'[w] = NoDoc
  <2>1. queue'[w] = Tail(q) /\ document'[w] = NoDoc BY <1>0, <1>1, <1>5
  <2>2. q # << >> BY <1>1 DEF TakeBlock
  <2> HIDE DEF q
  <2>3. Tail(q) \in Seq(Block) /\ Len(Tail(q)) = 0 BY <1>2, <1>4, <2>2, HeadTailProperties
  <2> QED BY <2>1, <2>3, EmptySeq
<1>7. f \in Files BY <1>0, <1>1 DEF Document
<1>8. CommittedFiles' = CommittedFiles \cup {f}
  <2>1. /\ dictionary'[w] = dictionary[w] \cup {document[w]}
        /\ \A v \in Indexers : v # w => dictionary'[v] = dictionary[v]
    BY <1>0, <1>1
  <2>2. Committed' = Committed \cup {document[w]}
    <3>1. \A d : d \in Committed' <=> \E v \in Indexers : d \in dictionary'[v] BY DEF Committed
    <3>2. \A d : d \in Committed <=> \E v \in Indexers : d \in dictionary[v] BY DEF Committed
    <3>3. \A d : d \in Committed' <=> d \in Committed \/ d = document[w] BY <2>1, <3>1, <3>2
    <3> QED BY <3>3
  <2> QED BY <2>2 DEF CommittedFiles
<1>9. InLane(w, f) /\ f < nextJob BY <1>0, <1>2, <1>7 DEF InLane, OwnInv
<1>10. \A s \in Readers : Holds(s) => rFile[s] # f BY <1>0, <1>3 DEF SettledInv, Terminal
<1>11. \A v \in Indexers, g \in Files : InLane(v, g)' <=> InLane(v, g) /\ g # f
  <2>0. NoDoc.fileId \notin Files BY DEF NoDoc, Files
  <2>1. \A g \in Files : ~InLane(w, g)' BY <1>6, <2>0 DEF InLane
  <2>2. ASSUME NEW v \in Indexers, NEW g \in Files, v # w PROVE InLane(v, g)' <=> InLane(v, g)
    <3>1. queue'[v] = queue[v] /\ document'[v] = document[v] BY <1>0, <1>1, <1>5, <2>2
    <3> QED BY <1>5, <3>1 DEF InLane
  <2>3. \A v \in Indexers : InLane(v, f) => v = w BY <1>0, <1>7, <1>9 DEF OwnInv
  <2>4. \A g \in Files : InLane(w, g) => g = f
    <3>1. \A i \in DOMAIN q : i = 1 BY <1>2, <1>4
    <3> QED BY <1>3, <3>1 DEF InLane
  <2> QED BY <2>1, <2>2, <2>3, <2>4
<1>12. f \notin fileErrors /\ f \notin CommittedFiles
  BY <1>0, <1>3, <1>9 DEF SettledInv
<1>13. \A s \in Readers : pc'[s] = pc[s] BY <1>0, <1>1
<1>14. \A s \in Readers : Holds(s)' <=> Holds(s) BY <1>13 DEF Holds
<1>15. \A v \in Indexers : \A i \in DOMAIN queue'[v] :
         i \in DOMAIN queue[v] /\ queue'[v][i] = queue[v][i]
  BY <1>0, <1>5, <1>6
<1> HIDE DEF TypeInv, TypeOK, f
<1>16. OwnInv'
  <2>1. \A s \in Readers : Holds(s)' => rFile'[s] < nextJob' BY <1>0, <1>1, <1>5, <1>14 DEF OwnInv
  <2>2. \A v \in Indexers, g \in Files : InLane(v, g)' => g < nextJob'
    BY <1>0, <1>1, <1>11 DEF OwnInv
  <2>3. \A g \in fileErrors' \cup CommittedFiles' : g < nextJob'
    BY <1>0, <1>1, <1>8, <1>9 DEF OwnInv
  <2>4. \A s, t \in Readers : Holds(s)' /\ Holds(t)' /\ rFile'[s] = rFile'[t] => s = t
    BY <1>0, <1>5, <1>14 DEF OwnInv
  <2>5. ASSUME NEW s \in Readers, NEW v \in Indexers, Holds(s)', InLane(v, rFile[s])'
        PROVE  rWorker'[s] = v
    <3>1. PICK g \in Files : g = rFile[s] BY <1>0, <1>14, <2>5
    <3>2. InLane(v, g)' BY <1>5, <2>5, <3>1 DEF InLane
    <3> QED BY <1>0, <1>5, <1>11, <1>14, <2>5, <3>1, <3>2 DEF OwnInv
  <2>6. \A u, v \in Indexers, g \in Files : InLane(u, g)' /\ InLane(v, g)' => u = v
    BY <1>0, <1>11 DEF OwnInv
  <2> QED BY <2>1, <2>2, <2>3, <2>4, <2>5, <2>6 DEF OwnInv
<1>17. SettledInv'
  <2>1. ASSUME NEW g \in CommittedFiles'
        PROVE  /\ g \notin fileErrors'
               /\ \A s \in Readers : Holds(s)' => rFile'[s] # g
               /\ \A v \in Indexers : ~InLane(v, g)'
    BY <1>0, <1>1, <1>5, <1>7, <1>8, <1>10, <1>11, <1>12, <1>14 DEF SettledInv
  <2>2. \A s \in Readers : Holds(s)' => (rFile'[s] \in fileErrors' <=> pc'[s] = "abort")
    BY <1>0, <1>1, <1>5, <1>13, <1>14 DEF SettledInv
  <2>3. \A v \in Indexers : \A i \in DOMAIN queue'[v] :
          /\ queue'[v][i].kind = "Complete" => queue'[v][i].fileId \notin fileErrors'
          /\ queue'[v][i].kind = "Abort" => queue'[v][i].fileId \in fileErrors'
          /\ queue'[v][i].kind \in Terminal =>
                \A s \in Readers : Holds(s)' => rFile'[s] # queue'[v][i].fileId
    BY <1>0, <1>1, <1>5, <1>14, <1>15 DEF SettledInv
  <2> QED BY <2>1, <2>2, <2>3 DEF SettledInv
<1>18. JobsInv'
  <2>1. \A g \in Files : Accounted(g) => Accounted(g)'
    BY <1>1, <1>5, <1>8, <1>11, <1>14 DEF Accounted
  <2> QED BY <1>0, <1>1, <2>1 DEF JobsInv
<1> QED BY <1>7, <1>8, <1>12, <1>16, <1>17, <1>18

(* The steps of readers and indexers: threads end once and for all, no thread is
   created behind the back of a build() that joins them, and without a fatal error
   none ends before its work is done. *)
LEMMA EndFrame ==
  ASSUME TypeInv, EndInv, pc'[Main] = pc[Main], nextJob' \in Nat, nextJob <= nextJob',
         \A t \in Readers \cup Indexers :
             /\ pc[t] = "exited" => pc'[t] = "exited"
             /\ pc[t] = "unborn" => pc'[t] = "unborn" \/ pc[Main] = "spawn"
             /\ pc'[t] = "unborn" => pc[t] = "unborn",
         fatalError' = "none" =>
             /\ fatalError = "none"
             /\ \A r \in Readers : pc'[r] \in Gone => pc[r] \in Gone \/ NoMoreJobs'
             /\ \A w \in Indexers : pc'[w] = "exited" => closed'[w] /\ Idle(w)'
  PROVE  EndInv'
<1>1. nextJob \in Nat BY DEF TypeInv, TypeOK
<1>2. NoMoreJobs => NoMoreJobs' BY <1>1, ConstantsAssumption DEF NoMoreJobs
<1>3. fatalError' = "none" =>
        /\ \A r \in Readers : pc'[r] \in Gone => NoMoreJobs'
        /\ pc'[Main] # "spawn" => \A t \in Readers \cup Indexers : pc'[t] # "unborn"
        /\ \A w \in Indexers : pc'[w] = "exited" => closed'[w] /\ Idle(w)'
  BY <1>2 DEF EndInv
<1>4. ASSUME NEW ts \in SUBSET (Readers \cup Indexers), Joined(ts), pc[Main] # "spawn"
      PROVE  Joined(ts)'
  BY <1>4 DEF Joined
<1>5. Ended' <=> Ended BY DEF Ended
<1>6. pc'[Main] = "closeLanes" \/ pc'[Main] = "joinIndexers" \/ Ended' => Joined(Readers)'
  BY <1>4, <1>5 DEF EndInv, Ended
<1>7. Ended' => Joined(Indexers)' BY <1>4, <1>5 DEF EndInv, Ended
<1> QED BY <1>3, <1>6, <1>7 DEF EndInv

\* An indexer that had ended in order is still so when its lane has not changed.
LEMMA StillEnded ==
  ASSUME EndInv, fatalError = "none", NEW w \in Indexers,
         pc[w] = "exited", closed[w] => closed'[w],
         queue'[w] = queue[w], document'[w] = document[w]
  PROVE  closed'[w] /\ Idle(w)'
BY DEF EndInv, Idle

\* A reader leaves its loop for want of files, unless there is a fatal error.
LEMMA ReaderEnd ==
  ASSUME SafetyInv, EndInv, NEW r \in Readers,
         \/ TakeJob(r) \/ OpenFails(r) \/ Open(r) \/ Acquire(r) \/ AcquireRefused(r)
         \/ AcquireWaits(r) \/ Read(r) \/ ReadFails(r) \/ PushRefused(r) \/ PushWaits(r)
         \/ ReaderThrows(r) \/ Leave(r)
  PROVE  EndInv'
<1> USE ConstantsAssumption
<1> USE DEF TypeInv, TypeOK, Threads, Goto, shared, pool, lanes, rVars, iVars,
        AwakeAt, Sleep, PushLabels
<1>0. TypeInv /\ nextJob \in Nat BY DEF SafetyInv
<1>1. UNCHANGED <<queue, document, closed>> /\ (nextJob' = nextJob \/ nextJob' = nextJob + 1)
  BY DEF TakeJob, OpenFails, Open, Acquire, AcquireRefused, AcquireWaits, Read, ReadFails,
         PushRefused, PushWaits, ReaderThrows, Leave
<1>2. /\ pc[r] # "unborn" /\ pc[r] # "exited"
      /\ UNCHANGED pc \/ \E label : label # "unborn" /\ Goto(r, label)
  BY <1>0 DEF TakeJob, OpenFails, Open, Acquire, AcquireRefused, AcquireWaits, Read, ReadFails,
         PushRefused, PushWaits, ReaderThrows, Leave, SetFatal
<1>3. pc'[r] # "unborn" /\ \A t \in Threads : t # r => pc'[t] = pc[t] BY <1>0, <1>2
<1>4. ASSUME fatalError' = "none" PROVE fatalError = "none" /\ (pc'[r] \in Gone => pc[r] \in Gone \/ NoMoreJobs')
  <2>1. CASE TakeJob(r) BY <1>0, <1>4, <2>1 DEF TakeJob, NoMoreJobs, Gone
  <2>2. CASE AcquireRefused(r) BY <1>4, <2>2 DEF AcquireRefused, SafetyInv, CancelInv
  <2>3. CASE PushRefused(r)
    <3>1. pc[r] \in PushLabels /\ rWorker[r] \in Indexers
      BY <1>0, <2>3 DEF PushRefused, ReaderLocals, Busy
    <3>2. ~closed[rWorker[r]] BY <3>1 DEF SafetyInv, CloseInv, ReadersGone
    <3> QED BY <1>4, <2>3, <3>1, <3>2 DEF PushRefused, SafetyInv, CancelInv
  <2>4. CASE ReaderThrows(r) BY <1>4, <2>4 DEF ReaderThrows, SetFatal
  <2>5. CASE Leave(r) BY <1>4, <2>5 DEF Leave, Gone
  <2>6. CASE OpenFails(r) \/ Open(r) \/ Acquire(r)
    BY <1>0, <1>4, <2>6 DEF OpenFails, Open, Acquire, Gone
  <2>7. CASE Read(r) \/ ReadFails(r)
    BY <1>0, <1>4, <2>7 DEF Read, ReadFails, Gone
  <2>8. CASE AcquireWaits(r) \/ PushWaits(r) BY <1>4, <2>8 DEF AcquireWaits, PushWaits
  <2> QED BY <2>1, <2>2, <2>3, <2>4, <2>5, <2>6, <2>7, <2>8
<1>5. nextJob' \in Nat /\ nextJob <= nextJob' BY <1>0, <1>1
<1> HIDE DEF TypeInv, TypeOK
<1>6. fatalError' = "none" => \A w \in Indexers : pc'[w] = "exited" => closed'[w] /\ Idle(w)'
  BY <1>1, <1>3, <1>4, StillEnded
<1> QED BY <1>0, <1>2, <1>3, <1>4, <1>5, <1>6, EndFrame

\* A reader pushes to an indexer that has not ended.
LEMMA PushEnd == ASSUME SafetyInv, EndInv, NEW r \in Readers, Push(r) PROVE EndInv'
<1> USE ConstantsAssumption
<1> USE DEF TypeInv, TypeOK, Threads, Goto, shared, iVars, PushLabels
<1>0. TypeInv /\ nextJob \in Nat BY DEF SafetyInv
<1>1. /\ UNCHANGED <<document, closed, fatalError, nextJob>> /\ ~closed[rWorker[r]]
      /\ \A w \in Indexers : w # rWorker[r] => queue'[w] = queue[w]
  BY <1>0 DEF Push
<1>2. Goto(r, "read") \/ Goto(r, "data") \/ Goto(r, "complete") \/ Goto(r, "job")
  BY DEF Push
<1>3. pc[r] # "unborn" /\ pc[r] # "exited" BY DEF Push
<1>4. /\ pc'[r] # "unborn" /\ pc'[r] \notin Gone
      /\ \A t \in Threads : t # r => pc'[t] = pc[t]
  BY <1>0, <1>2 DEF Gone
<1>5. fatalError = "none" => \A w \in Indexers : pc[w] = "exited" => w # rWorker[r]
  BY <1>1 DEF EndInv
<1>6. nextJob' \in Nat /\ nextJob <= nextJob' BY <1>0, <1>1
<1> HIDE DEF TypeInv, TypeOK
<1>7. fatalError' = "none" => \A w \in Indexers : pc'[w] = "exited" => closed'[w] /\ Idle(w)'
  BY <1>1, <1>4, <1>5, StillEnded
<1> QED BY <1>0, <1>1, <1>3, <1>4, <1>6, <1>7, EndFrame

\* An indexer ends when its lane is closed and drained, unless there is a fatal error.
LEMMA IndexerEnd ==
  ASSUME SafetyInv, EndInv, NEW w \in Indexers,
         \/ PopStart(w) \/ PopData(w) \/ PopComplete(w) \/ PopAbort(w) \/ PopThrows(w)
         \/ PopWaits(w) \/ IndexerExits(w) \/ IndexerStopsInside(w) \/ Release(w)
  PROVE  EndInv'
<1> USE ConstantsAssumption
<1> USE DEF TypeInv, TypeOK, Threads, Goto, shared, pool, lanes, iVars, AwakeAt, Sleep
<1>0. TypeInv /\ nextJob \in Nat BY DEF SafetyInv
<1>1. /\ UNCHANGED <<closed, nextJob>> /\ (pc[w] = "pop" \/ pc[w] = "release")
      /\ \A v \in Indexers : v # w => queue'[v] = queue[v] /\ document'[v] = document[v]
  BY <1>0 DEF PopStart, PopData, PopComplete, PopAbort, PopThrows, PopWaits, IndexerExits,
              IndexerStopsInside, Release, TakeBlock, LaneEnded
<1>2. \/ UNCHANGED pc \/ Goto(w, "release") \/ Goto(w, "pop") \/ Goto(w, "cancelWorkers")
      \/ (Goto(w, "exited") /\ IndexerExits(w))
  BY DEF PopStart, PopData, PopComplete, PopAbort, PopThrows, PopWaits, IndexerExits,
         IndexerStopsInside, Release, SetFatal
<1>3. /\ pc'[w] # "unborn" /\ (pc'[w] = "exited" => IndexerExits(w))
      /\ \A t \in Threads : t # w => pc'[t] = pc[t]
  BY <1>0, <1>1, <1>2
<1>4. fatalError' = "none" => fatalError = "none"
  BY DEF PopStart, PopData, PopComplete, PopAbort, PopThrows, PopWaits, IndexerExits,
         IndexerStopsInside, Release, SetFatal
<1>5. nextJob' \in Nat /\ nextJob <= nextJob' BY <1>0, <1>1
<1>6. fatalError = "none" /\ IndexerExits(w) => closed'[w] /\ Idle(w)'
  BY DEF IndexerExits, LaneEnded, SafetyInv, CancelInv, Idle
<1> HIDE DEF TypeInv, TypeOK
<1>7. ASSUME fatalError' = "none", NEW v \in Indexers, pc'[v] = "exited"
      PROVE  closed'[v] /\ Idle(v)'
  <2>1. CASE v = w BY <1>3, <1>4, <1>6, <1>7, <2>1
  <2>2. CASE v # w BY <1>1, <1>3, <1>4, <1>7, <2>2, StillEnded
  <2> QED BY <2>1, <2>2
<1>8. w \notin Readers /\ Main # w OBVIOUS
<1> QED BY <1>0, <1>1, <1>3, <1>4, <1>5, <1>7, <1>8, EndFrame

\* The sweeps over the lanes, and the creation of threads.
LEMMA SweepEnd ==
  ASSUME SafetyInv, EndInv, NEW t \in Readers \cup Indexers,
         Sweeping(t) \/ Spawn(t) \/ SpuriousWakeup(t)
  PROVE  EndInv'
<1> USE ConstantsAssumption
<1> USE DEF TypeInv, TypeOK, ThreadLabels, Threads, Goto, shared, pool, lanes, iVars
<1>0. TypeInv /\ nextJob \in Nat BY DEF SafetyInv
<1>1. UNCHANGED <<nextJob, fatalError, document>> /\ t # Main
  BY DEF Sweeping, CancelWorkers, CancelLane, CancelDone, CloseLane, CloseDone, Spawn,
         SpuriousWakeup
<1>2. \A s \in Threads : s # t => pc'[s] = pc[s]
  BY <1>0 DEF Sweeping, CancelWorkers, CancelLane, CancelDone, CloseLane, CloseDone, Spawn,
         SpuriousWakeup
<1>3. CASE CancelWorkers(t) \/ CancelDone(t) \/ \E w \in Indexers : CancelLane(t, w)
  <2>1. fatalError # "none" /\ pc[t] # "exited" /\ pc[t] # "unborn"
    BY <1>3 DEF CancelWorkers, CancelDone, CancelLane, SafetyInv, CancelInv, Failing
  <2>2. pc'[t] # "unborn" BY <1>0, <1>3 DEF CancelWorkers, CancelDone, CancelLane
  <2> HIDE DEF TypeInv, TypeOK
  <2> QED BY <1>0, <1>1, <1>2, <2>1, <2>2, EndFrame
<1>4. CASE CloseDone(t)
  <2>1. pc[t] = "closeLanes" /\ UNCHANGED <<queue, closed>> BY <1>4 DEF CloseDone
  <2>2. t \in Readers /\ t \notin Indexers BY <1>0, <2>1 DEF IndexerLabels
  <2>3. pc'[t] = "exited" BY <1>0, <1>4, <2>2 DEF CloseDone
  <2> HIDE DEF TypeInv, TypeOK
  <2>4. fatalError' = "none" => \A w \in Indexers : pc'[w] = "exited" => closed'[w] /\ Idle(w)'
    BY <1>1, <1>2, <2>1, <2>2, StillEnded
  <2> QED BY <1>0, <1>1, <1>2, <2>1, <2>3, <2>4, EndFrame DEF Gone
<1>5. CASE \E w \in Indexers : CloseLane(t, w)
  <2>1. UNCHANGED <<pc, queue>> /\ \A v \in Indexers : closed[v] => closed'[v]
    BY <1>0, <1>5 DEF CloseLane
  <2> HIDE DEF TypeInv, TypeOK
  <2>2. fatalError' = "none" => \A v \in Indexers : pc'[v] = "exited" => closed'[v] /\ Idle(v)'
    BY <1>1, <2>1, StillEnded
  <2> QED BY <1>0, <1>1, <2>1, <2>2, EndFrame
<1>6. CASE Spawn(t) \/ SpuriousWakeup(t)
  <2>1. /\ UNCHANGED <<queue, closed>>
        /\ \/ UNCHANGED pc
           \/ /\ pc[Main] = "spawn" /\ pc[t] = "unborn"
              /\ Goto(t, "job") \/ Goto(t, "pop")
    BY <1>6 DEF Spawn, SpuriousWakeup
  <2>2. \/ pc'[t] = pc[t]
        \/ /\ pc[Main] = "spawn" /\ pc[t] = "unborn"
           /\ pc'[t] \notin Gone /\ pc'[t] # "unborn" /\ pc'[t] # "exited"
    BY <1>0, <2>1 DEF Gone
  <2> HIDE DEF TypeInv, TypeOK
  <2>3. fatalError' = "none" => \A w \in Indexers : pc'[w] = "exited" => closed'[w] /\ Idle(w)'
    BY <1>1, <1>2, <2>1, <2>2, StillEnded
  <2> QED BY <1>0, <1>1, <1>2, <2>2, <2>3, EndFrame
<1> QED BY <1>3, <1>4, <1>5, <1>6 DEF Sweeping

\* The thread of build() joins the readers, closes the lanes and joins the indexers.
LEMMA MainEnd ==
  ASSUME SafetyInv, EndInv,
         SpawnDone \/ SpawnFails \/ JoinReaders \/ JoinIndexers \/ Sweeping(Main)
  PROVE  EndInv'
<1> USE ConstantsAssumption
<1> USE DEF TypeInv, TypeOK, Threads, Goto, shared, pool, lanes, iVars
<1>0. TypeInv /\ nextJob \in Nat BY DEF SafetyInv
<1>1. UNCHANGED <<nextJob, document>>
  BY DEF SpawnDone, SpawnFails, JoinReaders, JoinIndexers, Sweeping, CancelWorkers, CancelLane,
         CancelDone, CloseLane, CloseDone
<1>2. \A t \in Readers \cup Indexers : pc'[t] = pc[t]
  BY <1>0 DEF SpawnDone, SpawnFails, JoinReaders, JoinIndexers, Sweeping, CancelWorkers,
         CancelLane, CancelDone, CloseLane, CloseDone, SetFatal
<1>3. Joined(Readers)' = Joined(Readers) /\ Joined(Indexers)' = Joined(Indexers)
  BY <1>2 DEF Joined
<1>4. (NoMoreJobs)' <=> NoMoreJobs BY <1>1 DEF NoMoreJobs
\* The steps that may be taken without a fatal error.
<1>5. ASSUME UNCHANGED <<fatalError, queue>>, \A w \in Indexers : closed[w] => closed'[w],
             pc[Main] = "spawn" /\ pc'[Main] # "spawn" =>
                 \A t \in Readers \cup Indexers : pc[t] # "unborn",
             pc'[Main] = "closeLanes" \/ pc'[Main] = "joinIndexers" \/ Ended' => Joined(Readers),
             Ended' => Joined(Indexers)
      PROVE  EndInv'
  <2> HIDE DEF TypeInv, TypeOK
  <2>1. fatalError' = "none" => \A w \in Indexers : pc'[w] = "exited" => closed'[w] /\ Idle(w)'
    BY <1>1, <1>2, <1>5, StillEnded
  <2> QED BY <1>2, <1>3, <1>4, <1>5, <2>1 DEF EndInv
\* The steps that are not.
<1>6. ASSUME fatalError' # "none", pc'[Main] \in {"cancelWorkers", "cancelLanes", "joinReaders"}
      PROVE  EndInv'
  BY <1>6 DEF EndInv, Ended
<1>7. CASE SpawnDone
  BY <1>0, <1>5, <1>7 DEF SpawnDone, Ended
<1>8. CASE SpawnFails
  BY <1>0, <1>6, <1>8 DEF SpawnFails, SetFatal
<1>9. CASE JoinReaders
  BY <1>0, <1>5, <1>9 DEF JoinReaders, Ended
<1>10. CASE JoinIndexers
  <2>1. UNCHANGED <<fatalError, queue, closed>> /\ pc[Main] = "joinIndexers" /\ Joined(Indexers)
    BY <1>10 DEF JoinIndexers
  <2>2. Joined(Readers) BY <2>1 DEF EndInv
  <2> QED BY <1>5, <2>1, <2>2
<1>11. CASE CancelWorkers(Main) \/ CancelDone(Main) \/ \E w \in Indexers : CancelLane(Main, w)
  <2>1. fatalError' # "none"
    BY <1>11 DEF CancelWorkers, CancelDone, CancelLane, SafetyInv, CancelInv, Failing
  <2>2. pc'[Main] \in {"cancelWorkers", "cancelLanes", "joinReaders"}
    BY <1>0, <1>11 DEF CancelWorkers, CancelDone, CancelLane
  <2> QED BY <1>6, <2>1, <2>2
<1>12. CASE CloseDone(Main)
  <2>1. pc[Main] = "closeLanes" /\ pc'[Main] = "joinIndexers" /\ UNCHANGED <<fatalError, queue, closed>>
    BY <1>0, <1>12 DEF CloseDone
  <2>2. Joined(Readers) BY <2>1 DEF EndInv
  <2> QED BY <1>5, <2>1, <2>2 DEF Ended
<1>13. CASE \E w \in Indexers : CloseLane(Main, w)
  <2>1. pc[Main] = "closeLanes" /\ UNCHANGED <<pc, fatalError, queue>>
        /\ \A v \in Indexers : closed[v] => closed'[v]
    BY <1>0, <1>13 DEF CloseLane
  <2>2. Joined(Readers) BY <2>1 DEF EndInv
  <2> QED BY <1>5, <2>1, <2>2 DEF Ended
<1> QED BY <1>7, <1>8, <1>9, <1>10, <1>11, <1>12, <1>13 DEF Sweeping

\* Every step keeps the place of every file, and the order in which threads end.
LEMMA NextFlowInv == SafetyInv /\ FlowInv /\ [Next]_vars => FlowInv'
<1> SUFFICES ASSUME SafetyInv, FlowInv, [Next]_vars PROVE FlowInv'
  OBVIOUS
<1>0. EndInv BY DEF FlowInv
<1>1. ASSUME NEW t \in Threads, Sweeping(t) PROVE OwnInv' /\ SettledInv' /\ JobsInv'
  BY <1>1, OtherQuietFlow, CancelLaneFlow DEF Sweeping
<1>2. ASSUME NEW r \in Readers, Reader(r) PROVE FlowInv'
  <2>1. r \in Threads BY DEF Threads
  <2>2. OwnInv' /\ SettledInv' /\ JobsInv'
    BY <1>1, <1>2, <2>1, TakeJobFlow, FileErrorFlow, PushFlow, ReaderQuietFlow DEF Reader
  <2>3. EndInv' BY <1>0, <1>2, ReaderEnd, PushEnd, SweepEnd DEF Reader
  <2> QED BY <2>2, <2>3 DEF FlowInv
<1>3. ASSUME NEW w \in Indexers, Indexer(w) PROVE FlowInv'
  <2>1. w \in Threads BY DEF Threads
  <2>2. OwnInv' /\ SettledInv' /\ JobsInv'
    BY <1>1, <1>3, <2>1, PopQuietFlow, PopCompleteFlow, OtherQuietFlow DEF Indexer
  <2>3. EndInv' BY <1>0, <1>3, IndexerEnd, SweepEnd DEF Indexer
  <2> QED BY <2>2, <2>3 DEF FlowInv
<1>4. ASSUME Builder PROVE FlowInv'
  <2>1. Main \in Threads BY DEF Threads
  <2>2. OwnInv' /\ SettledInv' /\ JobsInv' BY <1>1, <1>4, <2>1, OtherQuietFlow DEF Builder
  <2>3. EndInv' BY <1>0, <1>4, MainEnd, SweepEnd DEF Builder
  <2> QED BY <2>2, <2>3 DEF FlowInv
<1>5. ASSUME NEW t \in Readers \cup Indexers, SpuriousWakeup(t) PROVE FlowInv'
  BY <1>0, <1>5, OtherQuietFlow, SweepEnd DEF FlowInv
<1>6. ASSUME UNCHANGED vars PROVE FlowInv'
  <2>1. EndInv'
    BY <1>0, <1>6 DEF vars, shared, pool, lanes, iVars, EndInv, NoMoreJobs, Idle, Ended, Joined
  <2> QED BY <1>6, <2>1, OtherQuietFlow DEF FlowInv
<1> QED BY <1>2, <1>3, <1>4, <1>5, <1>6 DEF Next, Terminated

\* Where the files are, in every reachable state.
LEMMA BatchFlow == Spec => [](SafetyInv /\ FlowInv)
BY BatchSafety, InitFlowInv, NextFlowInv, PTL DEF Spec

(* No thread of the build outlives it, so none uses the locals of build() after they
   are destroyed: build() joins the readers, then the indexers, whatever happened. *)
THEOREM BatchNoThreadOutlives == Spec => []NoThreadOutlivesBuild
<1>1. FlowInv => NoThreadOutlivesBuild
  BY DEF FlowInv, EndInv, NoThreadOutlivesBuild, Joined
<1> QED BY <1>1, BatchFlow, PTL

---------------------------------------------------------------------------
\* What a step does to the promise of build() when it settles no file.
LEMMA OutcomeFrame ==
  ASSUME UNCHANGED <<dictionary, fileErrors>>
  PROVE  Outcome' = Outcome /\ CommittedFiles' = CommittedFiles
<1>1. CommittedFiles' = CommittedFiles BY DEF CommittedFiles, Committed
<1> QED BY <1>1 DEF Outcome

\* A thread that can still run shows that build() has not ended.
LEMMA StillRunning ==
  ASSUME EndInv, NEW t \in Readers \cup Indexers, pc[t] # "unborn", pc[t] # "exited"
  PROVE  ~Ended /\ Result = "running"
<1>1. ~Ended BY DEF EndInv, Joined
<1> QED BY <1>1 DEF Ended, Result

\* When build() returns without a fatal error every file has been settled.
LEMMA AllSettled ==
  ASSUME SafetyInv, FlowInv, JoinIndexers, fatalError = "none", NEW f \in Files
  PROVE  f \in CommittedFiles \cup fileErrors
<1> USE ConstantsAssumption
<1>1. pc[Main] = "joinIndexers" /\ Joined(Indexers) /\ Joined(Readers)
  BY DEF JoinIndexers, FlowInv, EndInv
<1>2. \A t \in Readers \cup Indexers : pc[t] = "exited"
  BY <1>1 DEF FlowInv, EndInv, Joined
<1>3. NoMoreJobs
  <2>1. PICK r \in Readers : TRUE BY ReadersAssumption
  <2> QED BY <1>2 DEF FlowInv, EndInv, Gone
<1>4. f < nextJob BY <1>3 DEF NoMoreJobs, Files, SafetyInv, TypeInv, TypeOK
<1>5. Accounted(f) BY <1>4 DEF FlowInv, JobsInv
<1>6. \A r \in Readers : ~Holds(r) BY <1>2 DEF Holds, Busy
<1>7. \A w \in Indexers : ~InLane(w, f)
  <2> TAKE w \in Indexers
  <2>1. queue[w] = << >> /\ document[w] = NoDoc BY <1>2 DEF FlowInv, EndInv, Idle
  <2>2. document[w].fileId # f BY <2>1 DEF NoDoc, Files
  <2> QED BY <2>1, <2>2 DEF InLane
<1> QED BY <1>5, <1>6, <1>7 DEF Accounted

\* Every step of the pipeline is a step of BatchBuild or changes nothing it speaks of.
LEMMA BatchStep ==
  SafetyInv /\ FlowInv /\ [Next]_vars => [Abstract!Next]_<<Outcome, Result>>
<1> SUFFICES ASSUME SafetyInv, FlowInv, [Next]_vars
             PROVE  Abstract!Next \/ UNCHANGED <<Outcome, Result>>
  OBVIOUS
<1> USE ConstantsAssumption
<1>0. TypeInv /\ EndInv /\ SettledInv /\ pc \in [Threads -> Labels]
  BY DEF SafetyInv, FlowInv, TypeInv, TypeOK
<1>1. /\ CommittedFiles \subseteq Files /\ fileErrors \subseteq Files
      /\ CommittedFiles \cap fileErrors = {}
  BY <1>0 DEF SettledInv, TypeInv, TypeOK, CommittedFiles, Committed, Document
<1>2. ASSUME NEW f \in Files, NEW how \in {"indexed", "failed"},
             f \notin CommittedFiles \cup fileErrors,
             Outcome' = [Outcome EXCEPT ![f] = how],
             Result = "running", pc'[Main] = pc[Main]
      PROVE  Abstract!Next
  <2>1. Outcome[f] = "pending" BY <1>2 DEF Outcome
  <2>2. Result' = Result BY <1>2 DEF Result
  <2>3. Abstract!Settle(f, how) BY <1>2, <2>1, <2>2 DEF Abstract!Settle
  <2> QED BY <2>3 DEF Abstract!Next, Abstract!Files, Files
<1>3. ASSUME NEW w \in Indexers, PopComplete(w) PROVE Abstract!Next
  <2>1. PICK f \in Files : /\ f \notin CommittedFiles \cup fileErrors
                           /\ CommittedFiles' = CommittedFiles \cup {f}
    BY <1>3, PopCompleteFlow
  <2>2. fileErrors' = fileErrors /\ pc[w] = "pop" /\ Goto(w, "release")
    BY <1>3 DEF PopComplete, TakeBlock, AwakeAt
  <2>3. pc'[Main] = pc[Main] BY <1>0, <2>2 DEF Goto, Threads
  <2>4. Outcome' = [Outcome EXCEPT ![f] = "indexed"] BY <2>1, <2>2 DEF Outcome
  <2>5. Result = "running" BY <1>0, <2>2, StillRunning
  <2> QED BY <1>2, <2>1, <2>3, <2>4, <2>5
<1>4. ASSUME NEW r \in Readers, OpenFails(r) \/ ReadFails(r) PROVE Abstract!Next
  <2>1. /\ fileErrors' = fileErrors \cup {rFile[r]} /\ UNCHANGED dictionary
        /\ pc[r] \in {"open", "read"} /\ (Goto(r, "job") \/ Goto(r, "abort"))
    BY <1>4 DEF OpenFails, ReadFails, AddFileError, iVars
  <2>2. pc'[Main] = pc[Main] BY <1>0, <2>1 DEF Goto, Threads
  <2>3. Holds(r) /\ rFile[r] \in Files
    BY <1>0, <2>1 DEF Holds, Busy, TypeInv, ReaderLocals
  <2>4. rFile[r] \notin CommittedFiles \cup fileErrors
    BY <1>0, <2>1, <2>3 DEF SettledInv
  <2>5. CommittedFiles' = CommittedFiles BY <2>1 DEF CommittedFiles, Committed
  <2>6. Outcome' = [Outcome EXCEPT ![rFile[r]] = "failed"]
    BY <2>1, <2>3, <2>4, <2>5 DEF Outcome
  <2>7. Result = "running" BY <1>0, <2>1, StillRunning
  <2> QED BY <1>2, <2>2, <2>3, <2>4, <2>6, <2>7
<1>5. ASSUME JoinIndexers PROVE Abstract!Next
  <2>1. /\ pc[Main] = "joinIndexers" /\ UNCHANGED <<dictionary, fileErrors, fatalError>>
        /\ pc'[Main] = (IF fatalError # "none" THEN "threw"
                        ELSE IF fileErrors # {} THEN "returnedErrors"
                        ELSE "returnedSnapshot")
    BY <1>0, <1>5 DEF JoinIndexers, Goto, Threads, shared, iVars
  <2>2. Result = "running" /\ Outcome' = Outcome
    BY <2>1, OutcomeFrame DEF Result
  <2>3. CASE fatalError # "none"
    <3>1. Result' = "threw" BY <2>1, <2>3 DEF Result
    <3> QED BY <2>2, <3>1 DEF Abstract!Next, Abstract!Throw
  <2>4. CASE fatalError = "none"
    <3>1. \A f \in Files : f \in CommittedFiles \cup fileErrors BY <1>5, <2>4, AllSettled
    <3>2. \A f \in Files : Outcome[f] # "pending" /\ (Outcome[f] = "failed" <=> f \in fileErrors)
      BY <1>1, <3>1 DEF Outcome
    <3>3. Result' = IF fileErrors # {} THEN "errors" ELSE "snapshot"
      BY <2>1, <2>4 DEF Result
    <3>4. (\E f \in Files : Outcome[f] = "failed") <=> fileErrors # {} BY <1>1, <3>2
    <3>5. Abstract!Files = Files BY DEF Abstract!Files, Files
    <3>6. Abstract!Return BY <2>2, <3>2, <3>3, <3>4, <3>5 DEF Abstract!Return
    <3> QED BY <3>6 DEF Abstract!Next
  <2> QED BY <2>3, <2>4
\* The steps that settle nothing and do not end the build.
<1>6. ASSUME UNCHANGED <<dictionary, fileErrors>>,
             pc'[Main] = pc[Main] \/ (~Ended /\ ~Ended')
      PROVE  UNCHANGED <<Outcome, Result>>
  <2>1. Result' = Result BY <1>6 DEF Result, Ended
  <2> QED BY <1>6, <2>1, OutcomeFrame
<1> USE DEF Threads, Goto, shared, pool, lanes, rVars, iVars
<1>7. ASSUME NEW t \in Threads, Sweeping(t) PROVE UNCHANGED <<Outcome, Result>>
  <2>1. UNCHANGED <<dictionary, fileErrors>>
    BY <1>7 DEF Sweeping, CancelWorkers, CancelLane, CancelDone, CloseLane, CloseDone
  <2>2. \/ UNCHANGED pc
        \/ \E label \in {"cancelLanes", "leave", "exited", "joinReaders", "joinIndexers"} :
              Goto(t, label) /\ pc[t] \in {"cancelWorkers", "cancelLanes", "closeLanes"}
    BY <1>7 DEF Sweeping, CancelWorkers, CancelLane, CancelDone, CloseLane, CloseDone
  <2>3. pc'[Main] = pc[Main] \/ (~Ended /\ ~Ended') BY <1>0, <2>2 DEF Ended
  <2> QED BY <1>6, <2>1, <2>3
<1>8. ASSUME NEW r \in Readers, Reader(r) PROVE Abstract!Next \/ UNCHANGED <<Outcome, Result>>
  <2>1. ASSUME \/ TakeJob(r) \/ Open(r) \/ Acquire(r) \/ AcquireRefused(r) \/ AcquireWaits(r)
               \/ Read(r) \/ Push(r) \/ PushRefused(r) \/ PushWaits(r) \/ ReaderThrows(r)
               \/ Leave(r)
        PROVE  UNCHANGED <<Outcome, Result>>
    <3>1. UNCHANGED <<dictionary, fileErrors>>
      BY <2>1 DEF TakeJob, Open, Acquire, AcquireRefused, AcquireWaits, Read, Push, PushRefused,
                  PushWaits, ReaderThrows, Leave, Sleep
    <3>2. UNCHANGED pc \/ \E label : Goto(r, label)
      BY <2>1 DEF TakeJob, Open, Acquire, AcquireRefused, AcquireWaits, Read, Push, PushRefused,
                  PushWaits, ReaderThrows, Leave, Sleep, SetFatal
    <3>3. pc'[Main] = pc[Main] BY <1>0, <3>2
    <3> QED BY <1>6, <3>1, <3>3
  <2> QED BY <1>4, <1>7, <1>8, <2>1 DEF Reader
<1>9. ASSUME NEW w \in Indexers, Indexer(w) PROVE Abstract!Next \/ UNCHANGED <<Outcome, Result>>
  <2>1. ASSUME \/ PopStart(w) \/ PopData(w) \/ PopAbort(w) \/ PopThrows(w) \/ PopWaits(w)
               \/ IndexerExits(w) \/ IndexerStopsInside(w) \/ Release(w)
        PROVE  UNCHANGED <<Outcome, Result>>
    <3>1. UNCHANGED <<dictionary, fileErrors>>
      BY <2>1 DEF PopStart, PopData, PopAbort, PopThrows, PopWaits, IndexerExits,
                  IndexerStopsInside, Release, Sleep
    <3>2. UNCHANGED pc \/ \E label : Goto(w, label)
      BY <2>1 DEF PopStart, PopData, PopAbort, PopThrows, PopWaits, IndexerExits,
                  IndexerStopsInside, Release, Sleep, SetFatal
    <3>3. pc'[Main] = pc[Main] BY <1>0, <3>2
    <3> QED BY <1>6, <3>1, <3>3
  <2> QED BY <1>3, <1>7, <1>9, <2>1 DEF Indexer
<1>10. ASSUME Builder PROVE Abstract!Next \/ UNCHANGED <<Outcome, Result>>
  <2>1. ASSUME NEW t \in Readers \cup Indexers, Spawn(t) PROVE UNCHANGED <<Outcome, Result>>
    <3>1. UNCHANGED <<dictionary, fileErrors>> /\ pc'[Main] = pc[Main]
      BY <1>0, <2>1 DEF Spawn
    <3> QED BY <1>6, <3>1
  <2>2. ASSUME SpawnDone \/ SpawnFails \/ JoinReaders PROVE UNCHANGED <<Outcome, Result>>
    <3>1. UNCHANGED <<dictionary, fileErrors>>
      BY <2>2 DEF SpawnDone, SpawnFails, JoinReaders
    <3>2. /\ pc[Main] = "spawn" \/ pc[Main] = "joinReaders"
          /\ Goto(Main, "joinReaders") \/ Goto(Main, "cancelWorkers") \/ Goto(Main, "closeLanes")
      BY <2>2 DEF SpawnDone, SpawnFails, JoinReaders, SetFatal
    <3>3. ~Ended /\ ~Ended' BY <1>0, <3>2 DEF Ended
    <3> QED BY <1>6, <3>1, <3>3
  <2> QED BY <1>5, <1>7, <1>10, <2>1, <2>2 DEF Builder
<1>11. ASSUME NEW t \in Readers \cup Indexers, SpuriousWakeup(t) PROVE UNCHANGED <<Outcome, Result>>
  BY <1>6, <1>11 DEF SpuriousWakeup
<1>12. ASSUME UNCHANGED vars PROVE UNCHANGED <<Outcome, Result>>
  BY <1>6, <1>12 DEF vars
<1> QED BY <1>8, <1>9, <1>10, <1>11, <1>12 DEF Next, Terminated

(* The pipeline implements the promise of build(), whatever the number of threads and
   files, the capacity of the lanes and the faults: each file is settled once, as
   indexed or as failed; a dictionary is returned only when all were indexed, the
   errors only when all the others were, and nothing changes after the end. *)
THEOREM BatchImplements == Spec => ImplementsBatchBuild
<1>1. Init => Abstract!Init
  <2> SUFFICES ASSUME Init PROVE Abstract!Init
    OBVIOUS
  <2>1. CommittedFiles = {} /\ fileErrors = {} BY DEF Init, CommittedFiles, Committed
  <2>2. pc[Main] = "spawn" BY DEF Init, Threads
  <2>3. Result = "running" BY <2>2 DEF Result
  <2>4. Outcome = [f \in Files |-> "pending"] BY <2>1 DEF Outcome
  <2> QED BY <2>3, <2>4 DEF Abstract!Init, Abstract!Files, Files
<1> QED BY <1>1, BatchFlow, BatchStep, PTL DEF Spec, ImplementsBatchBuild, Abstract!Spec

---------------------------------------------------------------------------
(* Sums over what is queued in a lane.                                     *)

\* s[i] is the sum of the first i of the n numbers in g.
PrefixSum(s, g, n) ==
    /\ s \in [0 .. n -> Nat] /\ s[0] = 0
    /\ \A i \in 1 .. n : s[i] = s[i - 1] + g[i]

Total(g, n) == (CHOOSE s : PrefixSum(s, g, n))[n]

\* A set of natural numbers that is not empty has a least element.
LEMMA LeastNat ==
  ASSUME NEW T, T \subseteq Nat, T # {}
  PROVE  \E x \in T : \A y \in T : x <= y
<1> DEFINE R == {ss \in Nat \X Nat : ss[1] < ss[2]}
<1>1. IsWellFoundedOn(R, Nat) BY NatLessThanWellFounded DEF OpToRel
<1>2. \A x, y \in Nat : y < x => <<y, x>> \in R OBVIOUS
<1> HIDE DEF R
<1>3. PICK x \in T : \A y \in T : ~ (<<y, x>> \in R) BY <1>1, WFMin
<1>4. \A y \in T : ~ (y < x) BY <1>2, <1>3
<1>5. \A y \in T : x <= y BY <1>4
<1> QED BY <1>5

\* Prefix sums exist: a shortest list without them would have one element too many.
LEMMA PrefixSumExists ==
  ASSUME NEW n \in Nat, NEW g \in [1 .. n -> Nat]
  PROVE  \E s : PrefixSum(s, g, n)
<1> DEFINE Bad == {k \in 0 .. n : ~ \E s : PrefixSum(s, g, k)}
<1>0. n \in 0 .. n /\ (n \notin Bad => \E s : PrefixSum(s, g, n)) OBVIOUS
<1> SUFFICES ASSUME n \in Bad PROVE FALSE
  BY <1>0
<1>1. PICK k \in Bad : \A j \in Bad : k <= j
  <2>1. Bad \subseteq Nat OBVIOUS
  <2> HIDE DEF Bad
  <2> QED BY <2>1, LeastNat
<1>2. CASE k = 0
  <2>1. PrefixSum([i \in 0 .. 0 |-> 0], g, 0) BY DEF PrefixSum
  <2> QED BY <1>2, <2>1
<1>3. CASE k # 0
  <2>1. k \in 1 .. n /\ k - 1 \in 0 .. n /\ k - 1 \notin Bad BY <1>1, <1>3
  <2>2. PICK s : PrefixSum(s, g, k - 1) BY <2>1
  <2> DEFINE t == [i \in 0 .. k |-> IF i = k THEN s[k - 1] + g[k] ELSE s[i]]
  <2>3. t \in [0 .. k -> Nat] /\ t[0] = 0 BY <2>1, <2>2 DEF PrefixSum
  <2>4. ASSUME NEW i \in 1 .. k PROVE t[i] = t[i - 1] + g[i]
    <3>1. CASE i = k BY <2>1, <3>1
    <3>2. CASE i # k
      <4>1. i \in 1 .. k - 1 /\ i - 1 # k /\ i - 1 \in 0 .. k BY <2>1, <3>2
      <4>2. s[i] = s[i - 1] + g[i] BY <2>2, <4>1 DEF PrefixSum
      <4> QED BY <3>2, <4>1, <4>2
    <3> QED BY <3>1, <3>2
  <2>5. PrefixSum(t, g, k) BY <2>3, <2>4 DEF PrefixSum
  <2> QED BY <1>1, <2>5
<1> QED BY <1>2, <1>3

\* Prefix sums are unique: at the first index where two differ their steps would.
LEMMA PrefixSumUnique ==
  ASSUME NEW n \in Nat, NEW g, NEW s, NEW t, PrefixSum(s, g, n), PrefixSum(t, g, n)
  PROVE  s[n] = t[n]
<1> DEFINE Bad == {k \in 0 .. n : s[k] # t[k]}
<1> SUFFICES ASSUME Bad # {} PROVE FALSE
  OBVIOUS
<1>1. PICK k \in Bad : \A j \in Bad : k <= j
  <2>1. Bad \subseteq Nat OBVIOUS
  <2> HIDE DEF Bad
  <2> QED BY <2>1, LeastNat
<1>2. k # 0 BY <1>1 DEF PrefixSum
<1>3. k \in 1 .. n /\ k - 1 \in 0 .. n /\ k - 1 \notin Bad BY <1>1, <1>2
<1> QED BY <1>1, <1>3 DEF PrefixSum

\* The total is the last of any prefix sums.
LEMMA TotalIs ==
  ASSUME NEW n \in Nat, NEW g, NEW s, PrefixSum(s, g, n)
  PROVE  Total(g, n) = s[n]
<1> DEFINE t == CHOOSE u : PrefixSum(u, g, n)
<1>1. PrefixSum(t, g, n) OBVIOUS
<1>2. Total(g, n) = t[n] BY DEF Total
<1> HIDE DEF t
<1> QED BY <1>1, <1>2, PrefixSumUnique

\* The total of nothing.
LEMMA TotalEmpty == ASSUME NEW g PROVE Total(g, 0) = 0
<1>1. PrefixSum([i \in 0 .. 0 |-> 0], g, 0) BY DEF PrefixSum
<1> QED BY <1>1, TotalIs

\* A total is a natural number.
LEMMA TotalNat ==
  ASSUME NEW n \in Nat, NEW g \in [1 .. n -> Nat] PROVE Total(g, n) \in Nat
<1>1. PICK s : PrefixSum(s, g, n) BY PrefixSumExists
<1>2. Total(g, n) = s[n] BY <1>1, TotalIs
<1> QED BY <1>1, <1>2 DEF PrefixSum

\* One more at the end.
LEMMA TotalAppend ==
  ASSUME NEW n \in Nat, NEW g \in [1 .. n -> Nat], NEW h \in [1 .. n + 1 -> Nat],
         \A i \in 1 .. n : h[i] = g[i]
  PROVE  Total(h, n + 1) = Total(g, n) + h[n + 1]
<1>1. PICK s : PrefixSum(s, g, n) BY PrefixSumExists
<1> DEFINE t == [i \in 0 .. n + 1 |-> IF i = n + 1 THEN s[n] + h[n + 1] ELSE s[i]]
<1>2. t \in [0 .. n + 1 -> Nat] /\ t[0] = 0 BY <1>1 DEF PrefixSum
<1>3. ASSUME NEW i \in 1 .. n + 1 PROVE t[i] = t[i - 1] + h[i]
  <2>1. CASE i = n + 1 BY <2>1
  <2>2. CASE i # n + 1
    <3>1. i \in 1 .. n /\ i - 1 # n + 1 /\ i - 1 \in 0 .. n + 1 BY <2>2
    <3>2. s[i] = s[i - 1] + h[i] BY <1>1, <3>1 DEF PrefixSum
    <3> QED BY <2>2, <3>1, <3>2
  <2> QED BY <2>1, <2>2
<1>4. PrefixSum(t, h, n + 1) BY <1>2, <1>3 DEF PrefixSum
<1>5. t[n + 1] = s[n] + h[n + 1] OBVIOUS
<1> HIDE DEF t
<1>6. Total(h, n + 1) = t[n + 1] BY <1>4, TotalIs
<1>7. Total(g, n) = s[n] BY <1>1, TotalIs
<1> QED BY <1>5, <1>6, <1>7

\* One less at the front.
LEMMA TotalTail ==
  ASSUME NEW n \in Nat, NEW g \in [1 .. n + 1 -> Nat], NEW h \in [1 .. n -> Nat],
         \A i \in 1 .. n : h[i] = g[i + 1]
  PROVE  Total(g, n + 1) = g[1] + Total(h, n)
<1>1. PICK s : PrefixSum(s, h, n) BY PrefixSumExists
<1> DEFINE t == [i \in 0 .. n + 1 |-> IF i = 0 THEN 0 ELSE g[1] + s[i - 1]]
<1>2. t \in [0 .. n + 1 -> Nat] /\ t[0] = 0 BY <1>1 DEF PrefixSum
<1>3. ASSUME NEW i \in 1 .. n + 1 PROVE t[i] = t[i - 1] + g[i]
  <2>1. CASE i = 1 BY <1>1, <2>1 DEF PrefixSum
  <2>2. CASE i # 1
    <3>1. i - 1 \in 1 .. n /\ g[i] = h[i - 1] BY <2>2
    <3>2. s[i - 1] = s[i - 2] + h[i - 1] BY <1>1, <3>1 DEF PrefixSum
    <3>3. s[i - 1] \in Nat /\ s[i - 2] \in Nat BY <1>1, <3>1 DEF PrefixSum
    <3> QED BY <2>2, <3>1, <3>2, <3>3
  <2> QED BY <2>1, <2>2
<1>4. PrefixSum(t, g, n + 1) BY <1>2, <1>3 DEF PrefixSum
<1>5. t[n + 1] = g[1] + s[n] OBVIOUS
<1> HIDE DEF t
<1>6. Total(g, n + 1) = t[n + 1] BY <1>4, TotalIs
<1>7. Total(h, n) = s[n] BY <1>1, TotalIs
<1> QED BY <1>5, <1>6, <1>7

\* The weights of the blocks queued for w, and the bytes of file data among them.
Weights(q) == [i \in 1 .. Len(q) |-> q[i].weight]
DataWeights(q) == [i \in 1 .. Len(q) |-> IF q[i].kind = "Data" THEN q[i].weight ELSE 0]
Weight(q) == Total(Weights(q), Len(q))
Payload(q) == Total(DataWeights(q), Len(q))

\* What QueuedWeight computes.
LEMMA QueuedWeightIs ==
  ASSUME NEW w \in Indexers, queue[w] \in Seq(Block)
  PROVE  QueuedWeight(w) = Weight(queue[w])
<1> DEFINE q == queue[w]
           n == Len(q)
           Eq(s) == s = [i \in 0 .. n |-> IF i = 0 THEN 0 ELSE s[i - 1] + q[i].weight]
           u == CHOOSE s : Eq(s)
<1>1. n \in Nat /\ \A i \in 1 .. n : q[i].weight \in Nat
  <2>1. \A i \in 1 .. n : q[i] \in Block OBVIOUS
  <2> QED BY <2>1 DEF Block
<1>2. Weights(q) \in [1 .. n -> Nat] /\ \A i \in 1 .. n : Weights(q)[i] = q[i].weight
  BY <1>1 DEF Weights
<1>3. PICK s : PrefixSum(s, Weights(q), n)
  <2> HIDE DEF q, n
  <2> QED BY <1>1, <1>2, PrefixSumExists
<1>4. Eq(s) BY <1>1, <1>2, <1>3 DEF PrefixSum
<1>5. Eq(u) BY <1>4
<1>6. QueuedWeight(w) = u[n] BY DEF QueuedWeight
<1>7. ASSUME NEW k \in 0 .. n PROVE u[k] = s[k]
  <2> DEFINE Bad == {j \in 0 .. n : u[j] # s[j]}
  <2> SUFFICES ASSUME Bad # {} PROVE FALSE
    OBVIOUS
  <2> HIDE DEF u, n, q
  <2>1. PICK m \in Bad : \A j \in Bad : m <= j
    <3>1. Bad \subseteq Nat BY <1>1
    <3> HIDE DEF Bad
    <3> QED BY <3>1, LeastNat
  <2>2. m # 0 BY <1>1, <1>4, <1>5, <2>1
  <2>3. m \in 1 .. n /\ m - 1 \in 0 .. n /\ m - 1 \notin Bad BY <1>1, <2>1, <2>2
  <2>4. u[m] = u[m - 1] + q[m].weight BY <1>1, <1>5, <2>2, <2>3
  <2>5. s[m] = s[m - 1] + q[m].weight BY <1>1, <1>4, <2>2, <2>3
  <2> QED BY <2>1, <2>3, <2>4, <2>5
<1> HIDE DEF q, n, u
<1>8. u[n] = s[n] BY <1>1, <1>7
<1>9. Weight(q) = s[n] BY <1>1, <1>3, TotalIs DEF Weight, n
<1> QED BY <1>6, <1>8, <1>9 DEF q

\* The data in a block, and the numbers that are summed up.
DataIn(b) == IF b.kind = "Data" THEN b.weight ELSE 0

LEMMA WeightsType ==
  ASSUME NEW q \in Seq(Block)
  PROVE  /\ Len(q) \in Nat
         /\ Weights(q) \in [1 .. Len(q) -> Nat] /\ DataWeights(q) \in [1 .. Len(q) -> Nat]
         /\ Weight(q) \in Nat /\ Payload(q) \in Nat
<1>1. Len(q) \in Nat OBVIOUS
<1>2. \A i \in 1 .. Len(q) : q[i].weight \in Nat
  <2>1. \A i \in 1 .. Len(q) : q[i] \in Block OBVIOUS
  <2> QED BY <2>1 DEF Block
<1>3. Weights(q) \in [1 .. Len(q) -> Nat] /\ DataWeights(q) \in [1 .. Len(q) -> Nat]
  BY <1>2 DEF Weights, DataWeights
<1> QED BY <1>1, <1>3, TotalNat DEF Weight, Payload

\* A pushed block adds its weight.
LEMMA WeightAppend ==
  ASSUME NEW q \in Seq(Block), NEW b \in Block
  PROVE  /\ Weight(Append(q, b)) = Weight(q) + b.weight
         /\ Payload(Append(q, b)) = Payload(q) + DataIn(b)
<1> DEFINE n == Len(q)
           p == Append(q, b)
<1>1. /\ p \in Seq(Block) /\ n \in Nat /\ Len(p) = n + 1 /\ p[n + 1] = b
      /\ \A i \in 1 .. n : p[i] = q[i] /\ i \in 1 .. n + 1
      /\ n + 1 \in 1 .. n + 1
  OBVIOUS
<1> HIDE DEF n, p
<1>2. /\ Weights(q) \in [1 .. n -> Nat] /\ DataWeights(q) \in [1 .. n -> Nat]
      /\ Weights(p) \in [1 .. n + 1 -> Nat] /\ DataWeights(p) \in [1 .. n + 1 -> Nat]
  BY <1>1, WeightsType DEF n
<1>3. /\ \A i \in 1 .. n : Weights(p)[i] = Weights(q)[i] /\ DataWeights(p)[i] = DataWeights(q)[i]
      /\ Weights(p)[n + 1] = b.weight /\ DataWeights(p)[n + 1] = DataIn(b)
  BY <1>1 DEF Weights, DataWeights, DataIn, n
<1>4. Total(Weights(p), n + 1) = Total(Weights(q), n) + b.weight
  BY <1>1, <1>2, <1>3, TotalAppend
<1>5. Total(DataWeights(p), n + 1) = Total(DataWeights(q), n) + DataIn(b)
  BY <1>1, <1>2, <1>3, TotalAppend
<1> QED BY <1>1, <1>4, <1>5 DEF Weight, Payload, n, p

\* A popped block takes its weight with it.
LEMMA WeightTail ==
  ASSUME NEW q \in Seq(Block), q # << >>
  PROVE  /\ Weight(q) = Head(q).weight + Weight(Tail(q))
         /\ Payload(q) = DataIn(Head(q)) + Payload(Tail(q))
<1> DEFINE p == Tail(q)
           n == Len(p)
<1>1. /\ p \in Seq(Block) /\ n \in Nat /\ Len(q) = n + 1 /\ Head(q) = q[1]
      /\ \A i \in 1 .. n : p[i] = q[i + 1] /\ i + 1 \in 1 .. n + 1
      /\ 1 \in 1 .. n + 1
  OBVIOUS
<1> HIDE DEF n, p
<1>2. /\ Weights(p) \in [1 .. n -> Nat] /\ DataWeights(p) \in [1 .. n -> Nat]
      /\ Weights(q) \in [1 .. n + 1 -> Nat] /\ DataWeights(q) \in [1 .. n + 1 -> Nat]
  BY <1>1, WeightsType DEF n
<1>3. /\ \A i \in 1 .. n : Weights(p)[i] = Weights(q)[i + 1] /\ DataWeights(p)[i] = DataWeights(q)[i + 1]
      /\ Weights(q)[1] = Head(q).weight /\ DataWeights(q)[1] = DataIn(Head(q))
  BY <1>1 DEF Weights, DataWeights, DataIn, n
<1>4. Total(Weights(q), n + 1) = Head(q).weight + Total(Weights(p), n)
  BY <1>1, <1>2, <1>3, TotalTail
<1>5. Total(DataWeights(q), n + 1) = DataIn(Head(q)) + Total(DataWeights(p), n)
  BY <1>1, <1>2, <1>3, TotalTail
<1> QED BY <1>1, <1>4, <1>5 DEF Weight, Payload, n, p

\* An empty lane weighs nothing.
LEMMA WeightEmpty == Weight(<< >>) = 0 /\ Payload(<< >>) = 0
BY TotalEmpty DEF Weight, Payload

(* The counter of a lane is the weight of what is in it, and within the capacity. *)
BudgetInv ==
    \A w \in Indexers : queuedBytes[w] = Weight(queue[w]) /\ queuedBytes[w] <= LaneCapacity

\* The lanes start empty.
LEMMA InitBudgetInv == Init => BudgetInv
BY WeightEmpty, ConstantsAssumption DEF Init, BudgetInv

\* Only push(), pop() and cancel() change a lane, and each keeps its counter.
LEMMA NextBudgetInv == TypeInv /\ BudgetInv /\ [Next]_vars => BudgetInv'
<1> SUFFICES ASSUME TypeInv, BudgetInv, [Next]_vars PROVE BudgetInv'
  OBVIOUS
<1> USE ConstantsAssumption
<1> USE DEF TypeInv, TypeOK, lanes
<1>1. ASSUME UNCHANGED <<queue, queuedBytes>> PROVE BudgetInv' BY <1>1 DEF BudgetInv
<1>2. ASSUME NEW r \in Readers, Push(r) PROVE BudgetInv'
  <2>1. rWorker[r] \in Indexers /\ rFile[r] \in Files
    BY <1>2 DEF Push, ReaderLocals, Busy, PushLabels
  <2>2. PICK w \in Indexers : w = rWorker[r] BY <2>1
  <2> DEFINE b == NextBlock(r)
  <2>3. PayloadSize \in Nat \ {0} BY DEF PayloadSize
  <2>4. b \in Block
    BY <1>2, <2>1, <2>3 DEF Push, NextBlock, Block, PushLabels, ReaderLocals
  <2>5. /\ queuedBytes[w] + b.weight <= LaneCapacity
        /\ queue' = [queue EXCEPT ![w] = Append(@, b)]
        /\ queuedBytes' = [queuedBytes EXCEPT ![w] = @ + b.weight]
    BY <1>2, <2>2 DEF Push, Fits
  <2> HIDE DEF b
  <2>6. queue'[w] = Append(queue[w], b) /\ queuedBytes'[w] = queuedBytes[w] + b.weight
        /\ queue[w] \in Seq(Block)
    BY <2>5
  <2>7. Weight(queue'[w]) = Weight(queue[w]) + b.weight BY <2>4, <2>6, WeightAppend
  <2>8. queuedBytes'[w] = Weight(queue'[w]) /\ queuedBytes'[w] <= LaneCapacity
    BY <2>5, <2>6, <2>7 DEF BudgetInv
  <2>9. \A v \in Indexers : v # w => queue'[v] = queue[v] /\ queuedBytes'[v] = queuedBytes[v]
    BY <2>5
  <2> QED BY <2>8, <2>9 DEF BudgetInv
<1>3. ASSUME NEW w \in Indexers, TakeBlock(w) PROVE BudgetInv'
  <2>1. /\ queue[w] \in Seq(Block) /\ queue[w] # << >>
        /\ queue'[w] = Tail(queue[w])
        /\ queuedBytes'[w] = queuedBytes[w] - Head(queue[w]).weight
    BY <1>3 DEF TakeBlock
  <2>2. Weight(queue[w]) = Head(queue[w]).weight + Weight(queue'[w]) BY <2>1, WeightTail
  <2>3. Head(queue[w]) \in Block /\ queue'[w] \in Seq(Block) BY <2>1
  <2>4. Head(queue[w]).weight \in Nat BY <2>3 DEF Block
  <2>5. Weight(queue'[w]) \in Nat /\ Weight(queue[w]) \in Nat BY <2>1, <2>3, WeightsType
  <2>6. queuedBytes'[w] = Weight(queue'[w]) /\ queuedBytes'[w] <= LaneCapacity
    BY <2>1, <2>2, <2>4, <2>5 DEF BudgetInv
  <2>7. \A v \in Indexers : v # w => queue'[v] = queue[v] /\ queuedBytes'[v] = queuedBytes[v]
    BY <1>3 DEF TakeBlock
  <2> QED BY <2>6, <2>7 DEF BudgetInv
<1>4. ASSUME NEW t \in Threads, NEW w \in Indexers, CancelLane(t, w) PROVE BudgetInv'
  <2>1. /\ queue'[w] = << >> /\ queuedBytes'[w] = 0
        /\ \A v \in Indexers : v # w => queue'[v] = queue[v] /\ queuedBytes'[v] = queuedBytes[v]
    BY <1>4 DEF CancelLane
  <2>2. Weight(queue'[w]) = 0 BY <2>1, WeightEmpty, Zenon
  <2>3. queuedBytes'[w] = Weight(queue'[w]) /\ queuedBytes'[w] <= LaneCapacity BY <2>1, <2>2
  <2> QED BY <2>1, <2>3 DEF BudgetInv
<1>5. ASSUME NEW t \in Threads, Sweeping(t) PROVE BudgetInv'
  BY <1>1, <1>4, <1>5 DEF Sweeping, CancelWorkers, CancelDone, CloseLane, CloseDone
<1>6. ASSUME NEW r \in Readers, Reader(r) PROVE BudgetInv'
  <2>1. r \in Threads BY DEF Threads
  <2>2. ASSUME \/ TakeJob(r) \/ OpenFails(r) \/ Open(r) \/ Acquire(r) \/ AcquireRefused(r)
               \/ AcquireWaits(r) \/ Read(r) \/ ReadFails(r) \/ PushRefused(r)
               \/ PushWaits(r) \/ ReaderThrows(r) \/ Leave(r)
        PROVE  UNCHANGED <<queue, queuedBytes>>
    BY <2>2 DEF TakeJob, OpenFails, Open, Acquire, AcquireRefused, AcquireWaits, Read,
                ReadFails, PushRefused, PushWaits, ReaderThrows, Leave, Sleep
  <2> QED BY <1>1, <1>2, <1>5, <1>6, <2>1, <2>2 DEF Reader
<1>7. ASSUME NEW w \in Indexers, Indexer(w) PROVE BudgetInv'
  <2>1. w \in Threads BY DEF Threads
  <2>2. ASSUME PopWaits(w) \/ IndexerExits(w) \/ IndexerStopsInside(w) \/ Release(w)
        PROVE  UNCHANGED <<queue, queuedBytes>>
    BY <2>2 DEF PopWaits, IndexerExits, IndexerStopsInside, Release, Sleep
  <2>3. ASSUME \/ PopStart(w) \/ PopData(w) \/ PopComplete(w) \/ PopAbort(w) \/ PopThrows(w)
        PROVE  TakeBlock(w)
    BY <2>3 DEF PopStart, PopData, PopComplete, PopAbort, PopThrows
  <2> QED BY <1>1, <1>3, <1>5, <1>7, <2>1, <2>2, <2>3 DEF Indexer
<1>8. ASSUME Builder PROVE BudgetInv'
  <2>1. Main \in Threads BY DEF Threads
  <2>2. ASSUME \/ \E t \in Readers \cup Indexers : Spawn(t)
               \/ SpawnDone \/ SpawnFails \/ JoinReaders \/ JoinIndexers
        PROVE  UNCHANGED <<queue, queuedBytes>>
    BY <2>2 DEF Spawn, SpawnDone, SpawnFails, JoinReaders, JoinIndexers
  <2> QED BY <1>1, <1>5, <1>8, <2>1, <2>2 DEF Builder
<1> QED BY <1>1, <1>6, <1>7, <1>8 DEF Next, Terminated, SpuriousWakeup, vars

(* Whoever pushes, pops, cancels or closes, queuedBytes_ of a lane is the weight of
   what is queued in it, and never above the capacity of the lane. *)
THEOREM BatchByteBudget == Spec => []ByteBudget
<1>1. TypeInv /\ BudgetInv => ByteBudget
  <2> SUFFICES ASSUME TypeInv, BudgetInv, NEW w \in Indexers
               PROVE  queuedBytes[w] = QueuedWeight(w) /\ queuedBytes[w] <= LaneCapacity
    BY DEF ByteBudget
  <2>1. queue[w] \in Seq(Block) BY DEF TypeInv, TypeOK
  <2> QED BY <2>1, QueuedWeightIs DEF BudgetInv
<1>2. Init => TypeInv /\ BudgetInv BY InitTypeInv, InitBudgetInv
<1>3. TypeInv /\ BudgetInv /\ [Next]_vars => (TypeInv /\ BudgetInv)'
  BY NextTypeInv, NextBudgetInv
<1> QED BY <1>1, <1>2, <1>3, PTL DEF Spec

---------------------------------------------------------------------------
(* The contents of the files.                                              *)

\* What has been read of the file in hand is a number of whole blocks.
WholeBlocks(r) == \E k \in Nat : size[rFile[r]] = rLeft[r] + k * ReadBlock

(* Where a reader is in its file: a block that is not known to be the last was read
   in full, and after the last one nothing is left. *)
ReadOK(r) ==
    /\ pc[r] \in {"unborn", "job", "open", "acquire", "start", "read", "complete"} =>
          rCount[r] = 0
    /\ pc[r] \in {"acquire", "start"} => rLeft[r] = size[rFile[r]]
    /\ pc[r] = "read" => WholeBlocks(r)
    /\ pc[r] = "data" => IF rLast[r] THEN rLeft[r] = 0 ELSE WholeBlocks(r)
    /\ pc[r] = "complete" => rLeft[r] = 0

ReadInv == \A r \in Readers : ReadOK(r)

\* When what is queued has been tokenized, the last word has been flushed.
Flushes(w) ==
    \/ /\ document[w].flushed
       /\ \A i \in DOMAIN queue[w] : queue[w][i].kind # "Data"
    \/ \E i \in DOMAIN queue[w] :
          /\ queue[w][i].kind = "Data" /\ queue[w][i].isLastChunk
          /\ \A j \in DOMAIN queue[w] : queue[w][j].kind = "Data" => j <= i

(* The document, what is queued for it and what its reader still has make up the
   file; when the reader has no more, the document and the queue do. *)
StreamInv(w) ==
    ~cancelled[w] /\ pc[w] \notin Failing =>
      /\ \A r \in Readers : rWorker[r] = w /\ pc[r] # "abort" =>
            /\ document[w].bytes + Payload(queue[w]) + rCount[r] + rLeft[r] = size[rFile[r]]
            /\ pc[r] = "complete" /\ size[rFile[r]] % ReadBlock # 0 => Flushes(w)
      /\ \A i \in DOMAIN queue[w] : queue[w][i].kind = "Complete" =>
            /\ document[w].bytes + Payload(queue[w]) = size[queue[w][i].fileId]
            /\ size[queue[w][i].fileId] % ReadBlock # 0 => Flushes(w)

(* What has been committed is complete, is there once, and is counted. *)
CommitInv ==
    /\ \A v, w \in Indexers : \A d \in dictionary[v], e \in dictionary[w] :
          d.fileId = e.fileId => v = w /\ d = e
    /\ \A d \in Committed : /\ d.bytes = size[d.fileId]
                            /\ d.bytes % ReadBlock # 0 => d.flushed
    /\ indexedFiles = Cardinality(CommittedFiles)
    /\ pc[Main] \in {"returnedErrors", "returnedSnapshot"} =>
          Files \subseteq CommittedFiles \cup fileErrors

BytesInv == ReadInv /\ (\A w \in Indexers : StreamInv(w)) /\ CommitInv

\* A whole number of blocks leaves no remainder.
LEMMA WholeRemainder ==
  ASSUME NEW k \in Nat, NEW n \in Nat, n = k * ReadBlock
  PROVE  n % ReadBlock = 0
<1>1. ReadBlock \in Nat \ {0} BY ConstantsAssumption
<1> QED BY <1>1

\* A reader whose locals have not changed is where it was in its file.
LEMMA ReadFrame ==
  ASSUME NEW r \in Readers, ReadOK(r), size' = size, pc'[r] = pc[r], rCount'[r] = rCount[r],
         rLeft'[r] = rLeft[r], rLast'[r] = rLast[r], rFile'[r] = rFile[r]
  PROVE  ReadOK(r)'
BY DEF ReadOK, WholeBlocks

\* At these labels nothing is said of the file.
LEMMA ReadNone ==
  ASSUME NEW r \in Readers,
         pc'[r] \in {"abort", "leave", "cancelWorkers", "cancelLanes", "closeLanes", "exited"}
  PROVE  ReadOK(r)'
BY DEF ReadOK

\* The steps of a reader through its file.
LEMMA ReaderRead ==
  ASSUME TypeInv, NEW r \in Readers, ReadOK(r), Reader(r)
  PROVE  ReadOK(r)'
<1> USE ConstantsAssumption
<1> USE DEF TypeInv, TypeOK, Threads, Goto, rVars
<1>0. /\ size' = size /\ rCount[r] \in Nat /\ rLeft[r] \in Nat /\ ReadBlock \in Nat \ {0}
      /\ size \in [Files -> Nat]
  BY DEF Reader, TakeJob, OpenFails, Open, Acquire, AcquireRefused, AcquireWaits, Read,
         ReadFails, Push, PushRefused, PushWaits, ReaderThrows, Leave, Sleep, Sweeping,
         CancelWorkers, CancelLane, CancelDone, CloseLane, CloseDone
<1>1. CASE TakeJob(r) \/ OpenFails(r) \/ Acquire(r)
  <2>1. CASE TakeJob(r) BY <2>1 DEF TakeJob, ReadOK
  <2>2. CASE OpenFails(r) BY <2>2 DEF OpenFails, Forget, ReadOK
  <2>3. CASE Acquire(r)
    <3>1. /\ pc[r] = "acquire" /\ pc'[r] = "start" /\ rCount' = rCount /\ rLeft' = rLeft
          /\ rFile' = rFile
      BY <2>3 DEF Acquire, AwakeAt
    <3> QED BY <1>0, <3>1 DEF ReadOK
  <2> QED BY <1>1, <2>1, <2>2, <2>3
<1>2. CASE Open(r)
  <2>1. /\ pc[r] = "open" /\ pc'[r] = "acquire" /\ rCount' = rCount /\ rFile' = rFile
        /\ rLeft'[r] = size[rFile[r]]
    BY <1>2 DEF Open
  <2> QED BY <1>0, <2>1 DEF ReadOK
<1>3. CASE Read(r)
  <2> DEFINE count == IF rLeft[r] <= ReadBlock THEN rLeft[r] ELSE ReadBlock
  <2>1. /\ pc[r] = "read" /\ rFile' = rFile
        /\ rLeft'[r] = rLeft[r] - count /\ rCount'[r] = count
        /\ rLast'[r] = (rLeft[r] < ReadBlock)
        /\ pc'[r] = IF count = 0 THEN "complete" ELSE "data"
    BY <1>3 DEF Read
  <2>2. rFile[r] \in Files BY <2>1 DEF ReaderLocals, Busy
  <2>3. PICK k \in Nat : size[rFile[r]] = rLeft[r] + k * ReadBlock
    BY <2>1 DEF ReadOK, WholeBlocks
  <2>4. (k + 1) * ReadBlock = k * ReadBlock + ReadBlock /\ k * ReadBlock \in Nat BY <1>0
  <2>5. CASE rLeft[r] < ReadBlock
    <3>0. rLast'[r] BY <2>1, <2>5, Zenon
    <3>1. count = rLeft[r] /\ rLeft'[r] = 0 BY <1>0, <2>1, <2>5
    <3> HIDE DEF count
    <3> QED BY <2>1, <3>0, <3>1 DEF ReadOK
  <2>6. CASE ~(rLeft[r] < ReadBlock)
    <3>0. ~rLast'[r] BY <2>1, <2>6, Zenon
    <3>1. count = ReadBlock /\ rLeft'[r] = rLeft[r] - ReadBlock /\ pc'[r] = "data"
      BY <1>0, <2>1, <2>6
    <3> HIDE DEF count
    <3>2. size'[rFile'[r]] = rLeft'[r] + (k + 1) * ReadBlock BY <1>0, <2>1, <2>2, <2>3, <2>4, <3>1
    <3>3. k + 1 \in Nat OBVIOUS
    <3>4. WholeBlocks(r)' BY <3>2, <3>3 DEF WholeBlocks
    <3> QED BY <3>0, <3>1, <3>4 DEF ReadOK
  <2> QED BY <2>5, <2>6
<1>4. CASE Push(r)
  <2> DEFINE b == NextBlock(r)
  <2>1. CASE pc[r] = "complete" \/ pc[r] = "abort"
    <3>1. pc'[r] = "job" /\ rCount'[r] = 0 BY <1>4, <2>1 DEF Push, Forget
    <3> QED BY <3>1 DEF ReadOK
  <2>2. CASE pc[r] = "start"
    <3>1. /\ pc'[r] = "read" /\ rCount'[r] = rCount[r] /\ UNCHANGED <<rFile, rLeft>>
      BY <1>4, <2>2 DEF Push
    <3>2. rFile[r] \in Files BY <2>2 DEF ReaderLocals, Busy
    <3>3. size[rFile[r]] = rLeft[r] + 0 * ReadBlock BY <1>0, <2>2, <3>2 DEF ReadOK
    <3>4. WholeBlocks(r)' BY <1>0, <3>1, <3>3 DEF WholeBlocks
    <3> QED BY <2>2, <3>1, <3>4 DEF ReadOK
  <2>3. CASE pc[r] = "data"
    <3>1. PayloadSize \in Nat \ {0} BY DEF PayloadSize
    <3>2. b.weight = (IF rCount[r] <= PayloadSize THEN rCount[r] ELSE PayloadSize)
      BY <2>3 DEF NextBlock
    <3>3. /\ rCount'[r] = rCount[r] - b.weight /\ UNCHANGED <<rFile, rLeft, rLast>>
          /\ pc'[r] = IF rCount[r] > b.weight THEN "data"
                      ELSE IF rLast[r] THEN "complete" ELSE "read"
      BY <1>4, <2>3 DEF Push
    <3> HIDE DEF b
    <3>4. ~(rCount[r] > b.weight) => rCount'[r] = 0 BY <1>0, <3>1, <3>2, <3>3
    <3>5. WholeBlocks(r) => WholeBlocks(r)' BY <1>0, <3>3 DEF WholeBlocks
    <3> QED BY <2>3, <3>3, <3>4, <3>5 DEF ReadOK
  <2> QED BY <1>4, <2>1, <2>2, <2>3 DEF Push, PushLabels
<1>5. CASE AcquireWaits(r) \/ PushWaits(r)
  BY <1>5, ReadFrame DEF AcquireWaits, PushWaits, Sleep
<1>6. CASE AcquireRefused(r) \/ ReadFails(r) \/ PushRefused(r)
  BY <1>6, ReadNone DEF AcquireRefused, ReadFails, PushRefused
<1>7. CASE ReaderThrows(r) \/ Leave(r)
  BY <1>7, ReadNone DEF ReaderThrows, SetFatal, Leave
<1>8. CASE Sweeping(r)
  <2>1. pc'[r] \in {"cancelLanes", "leave", "exited", "closeLanes"}
    BY <1>8 DEF Sweeping, CancelWorkers, CancelLane, CancelDone, CloseLane, CloseDone
  <2> QED BY <2>1, ReadNone
<1> QED BY <1>1, <1>2, <1>3, <1>4, <1>5, <1>6, <1>7, <1>8 DEF Reader

\* A reader touches the locals of no other reader.
LEMMA OtherReaders ==
  ASSUME TypeInv, NEW r \in Readers, Reader(r), NEW s \in Readers, s # r
  PROVE  /\ pc'[s] = pc[s] /\ rFile'[s] = rFile[s] /\ rWorker'[s] = rWorker[s]
         /\ rLeft'[s] = rLeft[s] /\ rCount'[s] = rCount[s] /\ rLast'[s] = rLast[s]
<1> USE DEF TypeInv, TypeOK, Threads, Goto, rVars
<1>1. CASE Push(r)
  <2>1. pc'[s] = pc[s] BY <1>1 DEF Push
  <2>2. CASE Forget(r) BY <2>1, <2>2 DEF Forget
  <2>3. CASE /\ UNCHANGED <<rFile, rWorker, rLeft, rLast>>
             /\ \E n : rCount' = [rCount EXCEPT ![r] = n]
    BY <2>1, <2>3
  <2> QED BY <1>1, <2>2, <2>3 DEF Push
<1>2. CASE \/ TakeJob(r) \/ OpenFails(r) \/ Open(r) \/ Acquire(r) \/ AcquireRefused(r)
           \/ AcquireWaits(r)
  BY <1>2 DEF TakeJob, OpenFails, Open, Acquire, Borrow, AcquireRefused, AcquireWaits,
              Sleep, Forget
<1>3. CASE \/ Read(r) \/ ReadFails(r) \/ PushRefused(r) \/ PushWaits(r) \/ ReaderThrows(r)
           \/ Leave(r)
  BY <1>3 DEF Read, ReadFails, PushRefused, PushWaits, ReaderThrows, SetFatal, Leave, Sleep,
              Forget
<1>4. CASE Sweeping(r)
  BY <1>4 DEF Sweeping, CancelWorkers, CancelLane, CancelDone, CloseLane, CloseDone
<1> QED BY <1>1, <1>2, <1>3, <1>4 DEF Reader

\* An indexer touches no reader, and no other indexer's lane or document.
LEMMA OtherIndexers ==
  ASSUME TypeInv, NEW w \in Indexers, Indexer(w), ~Sweeping(w)
  PROVE  /\ UNCHANGED <<rFile, rWorker, rLeft, rCount, rLast, size, cancelled>>
         /\ \A t \in Threads : t # w => pc'[t] = pc[t]
         /\ \A v \in Indexers : v # w => queue'[v] = queue[v] /\ document'[v] = document[v]
<1> USE DEF TypeInv, TypeOK, Threads, Goto, rVars, lanes, iVars
<1>1. UNCHANGED <<rFile, rWorker, rLeft, rCount, rLast, size, cancelled>>
  BY DEF Indexer, PopStart, PopData, PopComplete, PopAbort, PopThrows, TakeBlock, PopWaits,
         Sleep, IndexerExits, IndexerStopsInside, Release
<1>2. UNCHANGED pc \/ \E label : Goto(w, label)
  BY DEF Indexer, PopStart, PopData, PopComplete, PopAbort, PopThrows, PopWaits, Sleep,
         IndexerExits, IndexerStopsInside, Release, SetFatal
<1>3. \A t \in Threads : t # w => pc'[t] = pc[t] BY <1>2
<1>4. \A v \in Indexers : v # w => queue'[v] = queue[v]
  BY DEF Indexer, PopStart, PopData, PopComplete, PopAbort, PopThrows, TakeBlock, PopWaits,
         Sleep, IndexerExits, IndexerStopsInside, Release
<1>5. \A v \in Indexers : v # w => document'[v] = document[v]
  BY DEF Indexer, PopStart, PopData, PopComplete, PopAbort, PopThrows, PopWaits,
         Sleep, IndexerExits, IndexerStopsInside, Release
<1> QED BY <1>1, <1>3, <1>4, <1>5

\* A sweep touches no local of a reader, no document, and no lane but to cancel it.
LEMMA SweepFrame ==
  ASSUME TypeInv, CancelInv, NEW t \in Threads, Sweeping(t)
  PROVE  /\ UNCHANGED <<rFile, rWorker, rLeft, rCount, rLast, size, document, dictionary,
                        fileErrors, indexedFiles>>
         /\ \A s \in Threads : s # t => pc'[s] = pc[s]
         /\ pc[t] \in {"cancelWorkers", "cancelLanes", "closeLanes"}
         /\ pc'[t] \in {"cancelLanes", "closeLanes", "leave", "exited", "joinReaders",
                        "joinIndexers"}
         /\ \A w \in Indexers : cancelled'[w] \/ (queue'[w] = queue[w] /\ ~cancelled[w])
         /\ pc[t] \in Failing /\ pc'[t] \notin Failing => \A w \in Indexers : cancelled'[w]
<1> USE DEF TypeInv, TypeOK, Threads, Goto, rVars, lanes, iVars, shared
<1>1. UNCHANGED <<rFile, rWorker, rLeft, rCount, rLast, size, document, dictionary,
                  fileErrors, indexedFiles>>
  BY DEF Sweeping, CancelWorkers, CancelLane, CancelDone, CloseLane, CloseDone
<1>2. /\ \A s \in Threads : s # t => pc'[s] = pc[s]
      /\ pc[t] \in {"cancelWorkers", "cancelLanes", "closeLanes"}
      /\ pc'[t] \in {"cancelLanes", "closeLanes", "leave", "exited", "joinReaders",
                     "joinIndexers"}
  BY DEF Sweeping, CancelWorkers, CancelLane, CancelDone, CloseLane, CloseDone
<1>3. \A w \in Indexers : cancelled'[w] \/ (queue'[w] = queue[w] /\ ~cancelled[w])
  <2>1. CASE UNCHANGED <<queue, cancelled>> BY <2>1
  <2>2. ASSUME NEW v \in Indexers, CancelLane(t, v)
        PROVE  \A w \in Indexers : cancelled'[w] \/ (queue'[w] = queue[w] /\ ~cancelled[w])
    <3>1. cancelled' = [cancelled EXCEPT ![v] = TRUE] /\ queue' = [queue EXCEPT ![v] = << >>]
      BY <2>2 DEF CancelLane
    <3>2. cancelled'[v] = TRUE BY <3>1
    <3>3. \A w \in Indexers : w # v => cancelled'[w] = cancelled[w] /\ queue'[w] = queue[w]
      BY <3>1
    <3> QED BY <3>2, <3>3
  <2> QED BY <2>1, <2>2 DEF Sweeping, CancelWorkers, CancelDone, CloseLane, CloseDone
<1>4. CASE CancelDone(t)
  <2>1. \A w \in Indexers : cancelled'[w] BY <1>4 DEF CancelDone, CancelInv
  <2> QED BY <1>1, <1>2, <1>3, <2>1
<1>5. CASE ~CancelDone(t)
  <2>1. pc[t] \in Failing => pc'[t] \in Failing
    BY <1>5 DEF Sweeping, CancelWorkers, CancelLane, CloseLane, CloseDone, Failing
  <2> QED BY <1>1, <1>2, <1>3, <2>1
<1> QED BY <1>4, <1>5

\* The thread of build() only creates threads and moves on.
LEMMA BuilderFrame ==
  ASSUME TypeInv, Builder, ~Sweeping(Main)
  PROVE  /\ UNCHANGED <<rFile, rWorker, rLeft, rCount, rLast, size, document, dictionary,
                        fileErrors, indexedFiles, queue, cancelled>>
         /\ \A t \in Readers \cup Indexers :
               \/ pc'[t] = pc[t]
               \/ pc[t] = "unborn" /\ pc'[t] = IF t \in Readers THEN "job" ELSE "pop"
<1> USE ConstantsAssumption
<1> USE DEF TypeInv, TypeOK, Threads, Goto, rVars, lanes, iVars, shared
<1>1. UNCHANGED <<rFile, rWorker, rLeft, rCount, rLast, size, document, dictionary,
                  fileErrors, indexedFiles, queue, cancelled>>
  BY DEF Builder, Spawn, SpawnDone, SpawnFails, JoinReaders, JoinIndexers
<1>2. CASE \E t \in Readers \cup Indexers : Spawn(t) BY <1>1, <1>2 DEF Spawn
<1>3. CASE SpawnDone \/ SpawnFails \/ JoinReaders \/ JoinIndexers
  <2>1. \E label : Goto(Main, label)
    BY <1>3 DEF SpawnDone, SpawnFails, JoinReaders, JoinIndexers, SetFatal
  <2>2. \A t \in Readers \cup Indexers : pc'[t] = pc[t] BY <2>1
  <2> QED BY <1>1, <2>2
<1> QED BY <1>2, <1>3 DEF Builder

\* The first reader is at the start of nothing.
LEMMA InitReadInv == Init => ReadInv
BY ConstantsAssumption DEF Init, ReadInv, ReadOK, Threads

\* Every step keeps each reader's place in its file.
LEMMA NextReadInv == TypeInv /\ CancelInv /\ ReadInv /\ [Next]_vars => ReadInv'
<1> SUFFICES ASSUME TypeInv, CancelInv, ReadInv, [Next]_vars, NEW s \in Readers PROVE ReadOK(s)'
  BY DEF ReadInv
<1>0. ReadOK(s) BY DEF ReadInv
<1>1. ASSUME NEW r \in Readers, Reader(r) PROVE ReadOK(s)'
  <2>1. CASE s = r BY <1>0, <1>1, <2>1, ReaderRead
  <2>2. CASE s # r
    <3>1. size' = size
      BY <1>1 DEF Reader, TakeJob, OpenFails, Open, Acquire, AcquireRefused, AcquireWaits, Read,
         ReadFails, Push, PushRefused, PushWaits, ReaderThrows, Leave, Sleep, Sweeping,
         CancelWorkers, CancelLane, CancelDone, CloseLane, CloseDone
    <3> QED BY <1>0, <1>1, <2>2, <3>1, OtherReaders, ReadFrame
  <2> QED BY <2>1, <2>2
<1>2. ASSUME NEW t \in Indexers \cup {Main}, Sweeping(t) PROVE ReadOK(s)'
  <2>1. t \in Threads /\ s \in Threads /\ s # t BY ConstantsAssumption DEF Threads
  <2> QED BY <1>0, <1>2, <2>1, SweepFrame, ReadFrame
<1>3. ASSUME NEW w \in Indexers, Indexer(w) PROVE ReadOK(s)'
  <2>1. s \in Threads /\ s # w BY ConstantsAssumption DEF Threads
  <2>2. CASE ~Sweeping(w) BY <1>0, <1>3, <2>1, <2>2, OtherIndexers, ReadFrame
  <2> QED BY <1>2, <2>2
<1>4. ASSUME Builder PROVE ReadOK(s)'
  <2>1. CASE ~Sweeping(Main)
    <3>1. /\ UNCHANGED <<rFile, rLeft, rCount, rLast, size>>
          /\ pc'[s] = pc[s] \/ (pc[s] = "unborn" /\ pc'[s] = "job")
      BY <1>4, <2>1, BuilderFrame
    <3>2. CASE pc'[s] = pc[s] BY <1>0, <3>1, <3>2, ReadFrame
    <3>3. CASE pc[s] = "unborn" /\ pc'[s] = "job" BY <1>0, <3>1, <3>3 DEF ReadOK
    <3> QED BY <3>1, <3>2, <3>3
  <2> QED BY <1>2, <2>1
<1>5. ASSUME UNCHANGED <<pc, rVars, size>> PROVE ReadOK(s)'
  BY <1>0, <1>5, ReadFrame DEF rVars
<1> QED BY <1>1, <1>3, <1>4, <1>5 DEF Next, Terminated, SpuriousWakeup, vars

(* A step that leaves the lane and the document of w alone, and whose readers still
   have as much of their files as before. *)
LEMMA StreamFrame ==
  ASSUME NEW w \in Indexers, StreamInv(w), size' = size,
         queue'[w] = queue[w], document'[w] = document[w],
         ~cancelled'[w] /\ pc'[w] \notin Failing => ~cancelled[w] /\ pc[w] \notin Failing,
         \A r \in Readers : rWorker'[r] = w /\ pc'[r] # "abort" =>
             /\ rWorker[r] = w /\ pc[r] # "abort" /\ rFile'[r] = rFile[r]
             /\ \A n \in Nat : n + rCount'[r] + rLeft'[r] = n + rCount[r] + rLeft[r]
             /\ pc'[r] = "complete" => pc[r] = "complete" \/ size[rFile[r]] % ReadBlock = 0,
         document[w].bytes + Payload(queue[w]) \in Nat
  PROVE  StreamInv(w)'
<1> SUFFICES ASSUME ~cancelled'[w], pc'[w] \notin Failing
             PROVE  /\ \A r \in Readers : rWorker'[r] = w /\ pc'[r] # "abort" =>
                          /\ document'[w].bytes + Payload(queue'[w]) + rCount'[r] + rLeft'[r]
                                = size'[rFile'[r]]
                          /\ pc'[r] = "complete" /\ size'[rFile'[r]] % ReadBlock # 0 => Flushes(w)'
                    /\ \A i \in DOMAIN queue'[w] : queue'[w][i].kind = "Complete" =>
                          /\ document'[w].bytes + Payload(queue'[w]) = size'[queue'[w][i].fileId]
                          /\ size'[queue'[w][i].fileId] % ReadBlock # 0 => Flushes(w)'
  BY DEF StreamInv
<1>1. ~cancelled[w] /\ pc[w] \notin Failing OBVIOUS
<1>2. Flushes(w)' <=> Flushes(w) BY DEF Flushes
<1>3. Payload(queue'[w]) = Payload(queue[w]) BY Zenon
<1>4. ASSUME NEW r \in Readers, rWorker'[r] = w, pc'[r] # "abort"
      PROVE  /\ document'[w].bytes + Payload(queue'[w]) + rCount'[r] + rLeft'[r]
                    = size'[rFile'[r]]
             /\ pc'[r] = "complete" /\ size'[rFile'[r]] % ReadBlock # 0 => Flushes(w)'
  <2>1. rWorker[r] = w /\ pc[r] # "abort" /\ rFile'[r] = rFile[r] BY <1>4
  <2>2. document[w].bytes + Payload(queue[w]) + rCount'[r] + rLeft'[r] =
        document[w].bytes + Payload(queue[w]) + rCount[r] + rLeft[r]
    BY <1>4
  <2>3. document[w].bytes + Payload(queue[w]) + rCount[r] + rLeft[r] = size[rFile[r]]
    BY <1>1, <2>1 DEF StreamInv
  <2>4. pc'[r] = "complete" /\ size[rFile[r]] % ReadBlock # 0 => Flushes(w)
    BY <1>1, <1>4, <2>1 DEF StreamInv
  <2> QED BY <1>2, <1>3, <2>1, <2>2, <2>3, <2>4
<1>5. ASSUME NEW i \in DOMAIN queue'[w], queue'[w][i].kind = "Complete"
      PROVE  /\ document'[w].bytes + Payload(queue'[w]) = size'[queue'[w][i].fileId]
             /\ size'[queue'[w][i].fileId] % ReadBlock # 0 => Flushes(w)'
  BY <1>1, <1>2, <1>3, <1>5 DEF StreamInv
<1> QED BY <1>4, <1>5

\* The numbers that are added up.
LEMMA StreamTypes ==
  ASSUME TypeInv, NEW w \in Indexers
  PROVE  /\ queue[w] \in Seq(Block) /\ Payload(queue[w]) \in Nat
         /\ document[w].bytes \in Nat /\ document[w].bytes + Payload(queue[w]) \in Nat
         /\ NoDoc.bytes = 0 /\ NoDoc.flushed = FALSE
<1>1. queue[w] \in Seq(Block) /\ document[w] \in Document \cup {NoDoc} BY DEF TypeInv, TypeOK
<1>2. Payload(queue[w]) \in Nat BY <1>1, WeightsType
<1>3. NoDoc.bytes = 0 /\ NoDoc.flushed = FALSE BY DEF NoDoc
<1>4. document[w].bytes \in Nat BY <1>1, <1>3 DEF Document
<1> QED BY <1>1, <1>2, <1>3, <1>4

\* The steps of a reader that touch no lane.
LEMMA ReaderQuietStream ==
  ASSUME SafetyInv, ReadInv, NEW r \in Readers, NEW v \in Indexers, StreamInv(v),
         \/ TakeJob(r) \/ OpenFails(r) \/ Open(r) \/ AcquireRefused(r)
         \/ AcquireWaits(r) \/ Read(r) \/ ReadFails(r) \/ PushRefused(r) \/ PushWaits(r)
         \/ ReaderThrows(r) \/ Leave(r)
  PROVE  StreamInv(v)'
<1> USE ConstantsAssumption
<1> USE DEF TypeInv, TypeOK, Threads, Goto, shared, pool, lanes, rVars, iVars
<1>0. TypeInv /\ ReadOK(r) /\ Reader(r) BY DEF SafetyInv, ReadInv, Reader
<1>1. UNCHANGED <<queue, document, cancelled, size>>
  BY DEF TakeJob, OpenFails, Open, AcquireRefused, AcquireWaits, Read, ReadFails, PushRefused,
         PushWaits, ReaderThrows, Leave, Sleep
<1>2. pc'[v] = pc[v]
  <2>1. UNCHANGED pc \/ \E label : Goto(r, label)
    BY DEF TakeJob, OpenFails, Open, AcquireRefused, AcquireWaits, Read, ReadFails, PushRefused,
         PushWaits, ReaderThrows, Leave, Sleep, SetFatal
  <2> QED BY <1>0, <2>1
<1>3. ASSUME rWorker'[r] = v, pc'[r] # "abort"
      PROVE  /\ rWorker[r] = v /\ pc[r] # "abort" /\ rFile'[r] = rFile[r]
             /\ \A n \in Nat : n + rCount'[r] + rLeft'[r] = n + rCount[r] + rLeft[r]
             /\ pc'[r] = "complete" => pc[r] = "complete" \/ size[rFile[r]] % ReadBlock = 0
  <2>0. v # NoWorker /\ rCount[r] \in Nat /\ rLeft[r] \in Nat /\ ReadBlock \in Nat \ {0} BY <1>0
  <2>1. CASE OpenFails(r) \/ AcquireRefused(r) \/ PushRefused(r) \/ ReaderThrows(r)
    <3>1. rWorker'[r] = NoWorker
      BY <1>0, <2>1 DEF OpenFails, AcquireRefused, PushRefused, ReaderThrows, Forget
    <3> QED BY <1>3, <2>0, <3>1
  <2>2. CASE TakeJob(r) \/ Open(r)
    <3>1. pc[r] \notin Busy /\ rWorker' = rWorker BY <2>2 DEF TakeJob, Open, Busy
    <3> QED BY <1>0, <1>3, <2>0, <3>1 DEF ReaderLocals
  <2>3. CASE ReadFails(r) BY <1>0, <1>3, <2>3 DEF ReadFails
  <2>4. CASE AcquireWaits(r) \/ PushWaits(r)
    <3>1. UNCHANGED <<pc, rFile, rWorker, rCount, rLeft>>
      BY <2>4 DEF AcquireWaits, PushWaits, Sleep
    <3> QED BY <1>3, <3>1
  <2>5. CASE Leave(r)
    <3>1. pc[r] \notin Busy /\ rWorker' = rWorker BY <2>5 DEF Leave, Busy
    <3> QED BY <1>0, <1>3, <2>0, <3>1 DEF ReaderLocals
  <2>6. CASE Read(r)
    <3> DEFINE count == IF rLeft[r] <= ReadBlock THEN rLeft[r] ELSE ReadBlock
    <3>1. /\ pc[r] = "read" /\ rFile' = rFile /\ rWorker' = rWorker
          /\ rLeft'[r] = rLeft[r] - count /\ rCount'[r] = count
          /\ pc'[r] = IF count = 0 THEN "complete" ELSE "data"
      BY <1>0, <2>6 DEF Read
    <3>2. rCount[r] = 0 /\ WholeBlocks(r) BY <1>0, <3>1 DEF ReadOK
    <3>3. rFile[r] \in Files /\ size[rFile[r]] \in Nat BY <1>0, <3>1 DEF ReaderLocals, Busy
    <3>4. count \in Nat /\ (count = 0 => rLeft[r] = 0) BY <2>0
    <3> HIDE DEF count
    <3>5. \A n \in Nat : n + rCount'[r] + rLeft'[r] = n + rCount[r] + rLeft[r]
      BY <2>0, <3>1, <3>2, <3>4
    <3>6. pc'[r] = "complete" => size[rFile[r]] % ReadBlock = 0
      <4> SUFFICES ASSUME pc'[r] = "complete" PROVE size[rFile[r]] % ReadBlock = 0
        OBVIOUS
      <4>1. rLeft[r] = 0 BY <3>1, <3>4
      <4>2. PICK k \in Nat : size[rFile[r]] = rLeft[r] + k * ReadBlock BY <3>2 DEF WholeBlocks
      <4>3. size[rFile[r]] = k * ReadBlock BY <2>0, <4>1, <4>2
      <4> QED BY <3>3, <4>3, WholeRemainder
    <3> QED BY <1>3, <3>1, <3>5, <3>6
  <2> QED BY <2>1, <2>2, <2>3, <2>4, <2>5, <2>6
<1> HIDE DEF TypeInv, TypeOK
<1>4. ASSUME NEW s \in Readers, rWorker'[s] = v, pc'[s] # "abort"
      PROVE  /\ rWorker[s] = v /\ pc[s] # "abort" /\ rFile'[s] = rFile[s]
             /\ \A n \in Nat : n + rCount'[s] + rLeft'[s] = n + rCount[s] + rLeft[s]
             /\ pc'[s] = "complete" => pc[s] = "complete" \/ size[rFile[s]] % ReadBlock = 0
  <2>1. CASE s = r BY <1>3, <1>4, <2>1
  <2>2. CASE s # r BY <1>0, <1>4, <2>2, OtherReaders
  <2> QED BY <2>1, <2>2
<1>5. document[v].bytes + Payload(queue[v]) \in Nat BY <1>0, StreamTypes
<1> QED BY <1>1, <1>2, <1>4, <1>5, StreamFrame

(* A reader that borrows an indexer finds it idle, and has its whole file to send. *)
LEMMA AcquireStream ==
  ASSUME SafetyInv, ReadInv, NEW r \in Readers, Acquire(r), NEW v \in Indexers, StreamInv(v)
  PROVE  StreamInv(v)'
<1> USE ConstantsAssumption
<1> USE DEF TypeInv, TypeOK, Threads, Goto, shared, lanes, iVars
<1>0. TypeInv /\ ReadOK(r) /\ Reader(r) BY DEF SafetyInv, ReadInv, Reader
<1>1. PICK w \in workers : rWorker' = [rWorker EXCEPT ![r] = w] BY DEF Acquire, Borrow
<1>2. /\ UNCHANGED <<queue, document, cancelled, size, rFile, rCount, rLeft>>
      /\ pc[r] = "acquire" /\ Goto(r, "start")
  BY DEF Acquire, AwakeAt
<1>3. pc'[r] = "start" /\ rWorker'[r] = w /\ w \in Indexers /\ pc'[v] = pc[v]
      /\ \A s \in Readers : s # r => pc'[s] = pc[s] /\ rWorker'[s] = rWorker[s]
  BY <1>0, <1>1, <1>2
<1>4. rCount[r] = 0 /\ rLeft[r] = size[rFile[r]] /\ rLeft[r] \in Nat
  BY <1>0, <1>2 DEF ReadOK
<1> HIDE DEF TypeInv, TypeOK
<1>5. CASE v # w
  <2>1. document[v].bytes + Payload(queue[v]) \in Nat BY <1>0, StreamTypes
  <2>2. ASSUME NEW s \in Readers, rWorker'[s] = v, pc'[s] # "abort"
        PROVE  rWorker[s] = v /\ pc[s] # "abort" /\ (pc'[s] = "complete" => pc[s] = "complete")
    BY <1>3, <1>5, <2>2
  <2> QED BY <1>2, <1>3, <2>1, <2>2, StreamFrame
<1>6. CASE v = w /\ ~cancelled[w] /\ pc[w] \notin Failing
  <2>1. queue[w] = << >> /\ document[w] = NoDoc /\ \A s \in Readers : rWorker[s] # w
    BY <1>3, <1>6 DEF SafetyInv, ShapeInv, WorkerInv, Shape, Idle, Held
  <2>2. Payload(queue[w]) = 0 BY <2>1, WeightEmpty, Zenon
  <2>3. document[w].bytes = 0 BY <1>0, <1>3, <2>1, StreamTypes
  <2>4. \A s \in Readers : rWorker'[s] = w => s = r BY <1>3, <2>1
  <2>5. document'[w].bytes + Payload(queue'[w]) + rCount'[r] + rLeft'[r] = size'[rFile'[r]]
    BY <1>2, <1>4, <2>2, <2>3
  <2>6. DOMAIN queue'[w] = {} BY <1>2, <2>1
  <2> QED BY <1>3, <1>6, <2>4, <2>5, <2>6 DEF StreamInv
<1>7. CASE v = w /\ (cancelled[w] \/ pc[w] \in Failing)
  BY <1>2, <1>3, <1>7 DEF StreamInv
<1> QED BY <1>5, <1>6, <1>7

(* A push moves a part of the file from the reader to the lane; the last part says
   that it is. *)
LEMMA PushStream ==
  ASSUME SafetyInv, ReadInv, NEW r \in Readers, Push(r), NEW v \in Indexers, StreamInv(v)
  PROVE  StreamInv(v)'
<1> USE ConstantsAssumption
<1> USE DEF TypeInv, TypeOK, Threads, Goto, shared, iVars
<1>0. TypeInv /\ ReadOK(r) /\ Reader(r) BY DEF SafetyInv, ReadInv, Reader
<1>1. pc[r] \in PushLabels /\ rWorker[r] \in Indexers /\ rFile[r] \in Files
  BY <1>0 DEF Push, PushLabels, ReaderLocals, Busy
<1>2. PICK w \in Indexers : w = rWorker[r] BY <1>1
<1> DEFINE b == NextBlock(r)
           q == queue[w]
<1>3. /\ queue' = [queue EXCEPT ![w] = Append(q, b)] /\ UNCHANGED <<document, cancelled, size>>
  BY <1>2 DEF Push
<1>4. \A x \in Indexers : pc'[x] = pc[x]
  <2>1. \E label : Goto(r, label) BY DEF Push
  <2> QED BY <1>0, <2>1
<1>5. \A s \in Readers : s # r => rWorker[s] # w
  BY <1>2 DEF SafetyInv, ShapeInv, HoldersDistinct
<1>6. PayloadSize \in Nat \ {0} BY DEF PayloadSize
<1>7. b \in Block BY <1>0, <1>1, <1>6 DEF NextBlock, Block, PushLabels, ReaderLocals
<1>8. rCount[r] \in Nat /\ rLeft[r] \in Nat BY <1>0
<1>9. queue'[w] = Append(q, b) /\ document'[w] = document[w] BY <1>0, <1>3
<1>10. \A x \in Indexers : x # w => queue'[x] = queue[x] /\ document'[x] = document[x]
  BY <1>0, <1>3
<1>11. b.fileId = rFile[r] /\ (b.kind = "Complete" <=> pc[r] = "complete")
       /\ (b.kind = "Data" <=> pc[r] = "data")
  BY <1>1 DEF NextBlock, PushLabels
<1>12. pc[r] = "data" => /\ b.weight = (IF rCount[r] <= PayloadSize THEN rCount[r] ELSE PayloadSize)
                         /\ rLast[r] /\ b.weight = rCount[r] => b.isLastChunk
  BY DEF NextBlock
<1>13. pc[r] = "complete" \/ pc[r] = "abort" => rWorker'[r] = NoWorker
  BY <1>0 DEF Push, Forget
<1>14. pc[r] = "start" => /\ pc'[r] = "read" /\ rCount'[r] = rCount[r]
                          /\ UNCHANGED <<rFile, rWorker, rLeft>>
  BY <1>0 DEF Push
<1>15. pc[r] = "data" => /\ rCount'[r] = rCount[r] - b.weight
                         /\ UNCHANGED <<rFile, rWorker, rLeft>>
                         /\ pc'[r] # "abort"
                         /\ pc'[r] = "complete" => rLast[r] /\ ~(rCount[r] > b.weight)
  BY <1>0 DEF Push
<1> HIDE DEF TypeInv, TypeOK, b
<1>16. CASE v # w
  <2>1. document[v].bytes + Payload(queue[v]) \in Nat BY <1>0, StreamTypes
  <2>2. ASSUME NEW s \in Readers, rWorker'[s] = v, pc'[s] # "abort"
        PROVE  /\ rWorker[s] = v /\ pc[s] # "abort" /\ rFile'[s] = rFile[s]
               /\ \A n \in Nat : n + rCount'[s] + rLeft'[s] = n + rCount[s] + rLeft[s]
               /\ pc'[s] = "complete" => pc[s] = "complete"
    <3>1. s # r
      <4>1. rWorker'[r] = w \/ rWorker'[r] = NoWorker
        BY <1>1, <1>2, <1>13, <1>14, <1>15 DEF PushLabels
      <4> QED BY <1>16, <2>2, <4>1
    <3> QED BY <1>0, <2>2, <3>1, OtherReaders
  <2> QED BY <1>3, <1>4, <1>10, <1>16, <2>1, <2>2, StreamFrame
<1>17. CASE v = w /\ (cancelled[w] \/ pc[w] \in Failing)
  BY <1>3, <1>4, <1>17 DEF StreamInv
<1>18. CASE v = w /\ ~cancelled[w] /\ pc[w] \notin Failing
  <2>0. /\ q \in Seq(Block) /\ Payload(q) \in Nat /\ document[w].bytes \in Nat
        /\ b.weight \in Nat /\ DataIn(b) = (IF pc[r] = "data" THEN b.weight ELSE 0)
    BY <1>0, <1>7, <1>11, StreamTypes DEF Block, DataIn
  <2> DEFINE n == Len(q)
             p == queue'[w]
  <2>1. /\ n \in Nat /\ DOMAIN q = 1 .. n /\ DOMAIN p = 1 .. n + 1 /\ p[n + 1] = b
        /\ \A i \in 1 .. n : p[i] = q[i]
    BY <1>9, <2>0
  <2>2. Payload(p) = Payload(q) + DataIn(b) BY <1>7, <1>9, <2>0, WeightAppend
  <2>3. \A i \in DOMAIN q : q[i].kind # "Complete"
    <3>1. Shape(w) BY <1>18 DEF SafetyInv, ShapeInv, WorkerInv
    <3>2. CASE pc[r] = "start"
      <4>1. q = << >> BY <1>2, <3>1, <3>2 DEF Shape, Idle
      <4> QED BY <4>1
    <3>3. CASE pc[r] # "start"
      <4>1. NoTerminal(w) BY <1>2, <3>1, <3>3 DEF Shape
      <4> QED BY <2>1, <4>1 DEF NoTerminal, Terminal
    <3> QED BY <3>2, <3>3
  <2>4. \A i \in DOMAIN p : p[i].kind = "Complete" => i = n + 1 /\ pc[r] = "complete"
    BY <1>11, <2>1, <2>3
  <2>5. \A s \in Readers : rWorker'[s] = w => s = r
    BY <1>0, <1>5, OtherReaders
  <2>6. pc[r] # "abort" =>
          document[w].bytes + Payload(q) + rCount[r] + rLeft[r] = size[rFile[r]]
    BY <1>2, <1>18 DEF StreamInv
  <2>7. (pc[r] = "complete" /\ size[rFile[r]] % ReadBlock # 0) => Flushes(w)
    BY <1>2, <1>18 DEF StreamInv
  <2> HIDE DEF n, p, q
  <2>8. CASE pc[r] = "complete" \/ pc[r] = "abort"
    <3>1. \A s \in Readers : rWorker'[s] # w BY <1>13, <2>5, <2>8
    <3>2. ASSUME NEW i \in DOMAIN p, p[i].kind = "Complete"
          PROVE  /\ document'[w].bytes + Payload(p) = size'[p[i].fileId]
                 /\ size'[p[i].fileId] % ReadBlock # 0 => Flushes(w)'
      <4>1. i = n + 1 /\ pc[r] = "complete" /\ p[i].fileId = rFile[r] BY <1>11, <2>1, <2>4, <3>2
      <4>2. rCount[r] = 0 /\ rLeft[r] = 0 BY <1>0, <4>1 DEF ReadOK
      <4>3. document[w].bytes + Payload(q) = size[rFile[r]] BY <2>0, <2>6, <4>1, <4>2
      <4>4. Payload(p) = Payload(q) BY <2>0, <2>2, <4>1
      <4>5. Flushes(w) => Flushes(w)'
        <5> SUFFICES ASSUME Flushes(w) PROVE Flushes(w)'
          OBVIOUS
        <5>0. b.kind # "Data" BY <1>11, <4>1
        <5>1. CASE document[w].flushed /\ \A j \in DOMAIN queue[w] : queue[w][j].kind # "Data"
          <6>1. \A j \in DOMAIN queue'[w] : queue'[w][j].kind # "Data"
            BY <2>1, <5>0, <5>1 DEF p, q
          <6> QED BY <1>9, <5>1, <6>1 DEF Flushes
        <5>2. CASE \E k \in DOMAIN queue[w] :
                      /\ queue[w][k].kind = "Data" /\ queue[w][k].isLastChunk
                      /\ \A j \in DOMAIN queue[w] : queue[w][j].kind = "Data" => j <= k
          <6>1. PICK k \in DOMAIN queue[w] :
                      /\ queue[w][k].kind = "Data" /\ queue[w][k].isLastChunk
                      /\ \A j \in DOMAIN queue[w] : queue[w][j].kind = "Data" => j <= k
            BY <5>2
          <6>2. k \in DOMAIN queue'[w] /\ queue'[w][k] = queue[w][k] BY <2>1 DEF p, q
          <6>3. \A j \in DOMAIN queue'[w] : queue'[w][j].kind = "Data" => j <= k
            BY <2>1, <5>0, <6>1 DEF p, q
          <6> QED BY <6>1, <6>2, <6>3 DEF Flushes
        <5> QED BY <5>1, <5>2 DEF Flushes
      <4> QED BY <1>3, <1>9, <2>7, <4>1, <4>3, <4>4, <4>5
    <3> QED BY <3>1, <3>2, <1>18 DEF StreamInv, p
  <2>9. CASE pc[r] = "start"
    <3>1. document'[w].bytes + Payload(p) + rCount'[r] + rLeft'[r] = size'[rFile'[r]]
      BY <1>3, <1>8, <1>9, <1>14, <2>0, <2>2, <2>6, <2>9
    <3> QED BY <1>14, <1>18, <2>4, <2>5, <2>9, <3>1 DEF StreamInv, p
  <2>10. CASE pc[r] = "data"
    <3>1. document'[w].bytes + Payload(p) + rCount'[r] + rLeft'[r] = size'[rFile'[r]]
      BY <1>3, <1>8, <1>9, <1>15, <2>0, <2>2, <2>6, <2>10
    <3>2. pc'[r] = "complete" => Flushes(w)'
      <4> SUFFICES ASSUME pc'[r] = "complete" PROVE Flushes(w)'
        OBVIOUS
      <4>1. b.kind = "Data" /\ rLast[r] /\ b.weight = rCount[r]
        BY <1>6, <1>8, <1>11, <1>12, <1>15, <2>10
      <4>2. b.isLastChunk BY <1>12, <2>10, <4>1
      <4>3. n + 1 \in DOMAIN queue'[w] /\ queue'[w][n + 1] = b BY <2>1 DEF p
      <4>4. \A j \in DOMAIN queue'[w] : j <= n + 1 BY <2>1 DEF p
      <4> QED BY <4>1, <4>2, <4>3, <4>4 DEF Flushes
    <3> QED BY <1>18, <2>4, <2>5, <2>10, <3>1, <3>2 DEF StreamInv, p
  <2> QED BY <1>1, <2>8, <2>9, <2>10 DEF PushLabels
<1> QED BY <1>16, <1>17, <1>18

\* A block of data goes from the lane to the document.
LEMMA PopInsideStream ==
  ASSUME SafetyInv, NEW w \in Indexers, PopStart(w) \/ PopData(w), StreamInv(w)
  PROVE  StreamInv(w)'
<1> USE ConstantsAssumption
<1> USE DEF TypeInv, TypeOK, Threads, Goto, shared, rVars
<1>0. TypeInv /\ ShapeInv /\ Indexer(w) BY DEF SafetyInv, Indexer
<1>1. TakeBlock(w) /\ UNCHANGED pc BY DEF PopStart, PopData
<1>2. UNCHANGED <<rFile, rWorker, rLeft, rCount, size, cancelled>> BY <1>1 DEF TakeBlock
<1> DEFINE q == queue[w]
           p == queue'[w]
           b == Head(q)
           n == Len(q)
<1>3. /\ q \in Seq(Block) /\ q # << >> /\ p = Tail(q) /\ ~cancelled[w] /\ pc[w] = "pop"
  BY <1>0, <1>1 DEF TakeBlock, AwakeAt
<1>4. /\ n \in Nat \ {0} /\ DOMAIN q = 1 .. n /\ b = q[1] /\ b \in Block
      /\ DOMAIN p = 1 .. n - 1 /\ \A i \in 1 .. n - 1 : p[i] = q[i + 1]
  BY <1>3
<1>5. Payload(q) = DataIn(b) + Payload(p) BY <1>3, WeightTail
<1>6. Payload(q) \in Nat /\ Payload(p) \in Nat /\ document[w].bytes \in Nat /\ b.weight \in Nat
  <2>1. p \in Seq(Block) BY <1>3
  <2>2. Payload(p) \in Nat BY <2>1, WeightsType
  <2>3. b.weight \in Nat BY <1>4 DEF Block
  <2> HIDE DEF TypeInv, TypeOK
  <2> QED BY <1>0, <2>2, <2>3, StreamTypes
<1>7. /\ document'[w].bytes = document[w].bytes + DataIn(b)
      /\ b.kind = "Data" => document'[w].flushed = b.isLastChunk
      /\ b.kind # "Data" => document'[w].flushed = document[w].flushed
  <2>1. CASE PopStart(w)
    <3>1. /\ b.kind = "Start" /\ document[w] = NoDoc
          /\ document'[w] = [NoDoc EXCEPT !.fileId = b.fileId]
      BY <1>0, <2>1 DEF PopStart, InSequence
    <3>2. document'[w].bytes = 0 /\ document'[w].flushed = FALSE BY <3>1 DEF NoDoc
    <3>3. document[w].bytes = 0 /\ document[w].flushed = FALSE BY <3>1 DEF NoDoc
    <3> QED BY <3>1, <3>2, <3>3 DEF DataIn
  <2>2. CASE PopData(w)
    <3>1. b.kind = "Data" /\ document'[w] = Tokenized(document[w], b)
      BY <1>0, <2>2 DEF PopData
    <3>2. document'[w].bytes = document[w].bytes + b.weight BY <3>1 DEF Tokenized
    <3>3. document'[w].flushed = b.isLastChunk BY <3>1 DEF Tokenized
    <3> QED BY <3>1, <3>2, <3>3 DEF DataIn
  <2> QED BY <2>1, <2>2
<1> HIDE DEF q, p, b, n, TypeInv, TypeOK
<1>8. document'[w].bytes + Payload(p) = document[w].bytes + Payload(q)
  <2>1. DataIn(b) \in Nat BY <1>6 DEF DataIn
  <2> QED BY <1>5, <1>6, <1>7, <2>1
<1>9. Flushes(w) => Flushes(w)'
  <2>1. ASSUME document[w].flushed, \A j \in DOMAIN q : q[j].kind # "Data"
        PROVE  Flushes(w)'
    <3>1. b.kind # "Data" BY <1>4, <2>1
    <3>2. \A j \in DOMAIN p : p[j].kind # "Data" BY <1>4, <2>1
    <3> QED BY <1>7, <2>1, <3>1, <3>2 DEF Flushes, p
  <2>2. ASSUME NEW k \in DOMAIN q, q[k].kind = "Data", q[k].isLastChunk,
               \A j \in DOMAIN q : q[j].kind = "Data" => j <= k
        PROVE  Flushes(w)'
    <3>1. CASE k = 1
      <4>1. b.kind = "Data" /\ document'[w].flushed = b.isLastChunk /\ b = q[k]
        BY <1>4, <1>7, <2>2, <3>1
      <4>2. \A j \in DOMAIN p : p[j].kind # "Data"
        <5> SUFFICES ASSUME NEW j \in DOMAIN p, p[j].kind = "Data" PROVE FALSE
          OBVIOUS
        <5>1. j + 1 \in DOMAIN q /\ q[j + 1] = p[j] /\ ~(j + 1 <= 1) BY <1>4
        <5> QED BY <2>2, <3>1, <5>1
      <4>3. document'[w].flushed BY <2>2, <4>1, Zenon
      <4> QED BY <4>2, <4>3 DEF Flushes, p
    <3>2. CASE k # 1
      <4>1. k - 1 \in DOMAIN p /\ p[k - 1] = q[k] BY <1>4, <2>2, <3>2
      <4>2. \A j \in DOMAIN p : p[j].kind = "Data" => j <= k - 1
        <5> SUFFICES ASSUME NEW j \in DOMAIN p, p[j].kind = "Data" PROVE j <= k - 1
          OBVIOUS
        <5>1. j + 1 \in DOMAIN q /\ q[j + 1] = p[j] BY <1>4
        <5>2. j + 1 <= k BY <2>2, <5>1
        <5> QED BY <1>4, <5>2
      <4> QED BY <2>2, <4>1, <4>2 DEF Flushes, p
    <3> QED BY <3>1, <3>2
  <2> QED BY <2>1, <2>2 DEF Flushes, q
<1>10. pc[w] \notin Failing BY <1>3 DEF Failing
<1>11. ASSUME NEW r \in Readers, rWorker'[r] = w, pc'[r] # "abort"
       PROVE  /\ document'[w].bytes + Payload(p) + rCount'[r] + rLeft'[r] = size'[rFile'[r]]
              /\ pc'[r] = "complete" /\ size'[rFile'[r]] % ReadBlock # 0 => Flushes(w)'
  <2>1. rWorker[r] = w /\ pc[r] # "abort" BY <1>1, <1>2, <1>11
  <2>2. document[w].bytes + Payload(q) + rCount[r] + rLeft[r] = size[rFile[r]]
    BY <1>3, <1>10, <2>1 DEF StreamInv, q
  <2>3. pc[r] = "complete" /\ size[rFile[r]] % ReadBlock # 0 => Flushes(w)
    BY <1>3, <1>10, <2>1 DEF StreamInv
  <2> QED BY <1>1, <1>2, <1>8, <1>9, <2>2, <2>3
<1>12. ASSUME NEW i \in DOMAIN p, p[i].kind = "Complete"
       PROVE  /\ document'[w].bytes + Payload(p) = size'[p[i].fileId]
              /\ size'[p[i].fileId] % ReadBlock # 0 => Flushes(w)'
  <2>1. i + 1 \in DOMAIN q /\ q[i + 1] = p[i] BY <1>4
  <2>2. /\ document[w].bytes + Payload(q) = size[p[i].fileId]
        /\ size[p[i].fileId] % ReadBlock # 0 => Flushes(w)
    BY <1>3, <1>10, <1>12, <2>1 DEF StreamInv, q
  <2> QED BY <1>2, <1>8, <1>9, <2>2
<1> QED BY <1>11, <1>12 DEF StreamInv, p

\* When a terminal block is popped nothing is queued, and no reader streams.
LEMMA PopTerminalStream ==
  ASSUME SafetyInv, NEW w \in Indexers, PopComplete(w) \/ PopAbort(w)
  PROVE  StreamInv(w)'
<1>0. TypeInv /\ ShapeInv BY DEF SafetyInv
<1>1. TakeBlock(w) /\ Head(queue[w]).kind \in Terminal
  BY DEF PopComplete, PopAbort, Terminal
<1>2. /\ queue[w] \in Seq(Block) /\ Len(queue[w]) \in Nat \ {0} /\ Head(queue[w]) = queue[w][1]
      /\ \E f \in Files : Stream(w, f)
      /\ \A r \in Readers : rWorker[r] = w => NoTerminal(w)
  BY <1>0, <1>1, PopFacts
<1>3. 1 \in 1 .. Len(queue[w]) /\ queue[w][1].kind \in Terminal BY <1>1, <1>2
<1>4. Len(queue[w]) = 1 BY <1>2, <1>3 DEF Stream
<1>5. \A r \in Readers : rWorker'[r] # w
  <2>1. rWorker' = rWorker BY <1>1 DEF TakeBlock, rVars
  <2> QED BY <1>2, <1>3, <2>1 DEF NoTerminal
<1>6. DOMAIN queue'[w] = {}
  <2>1. queue'[w] = Tail(queue[w]) /\ queue[w] # << >>
    BY <1>0, <1>1 DEF TakeBlock, TypeInv, TypeOK
  <2> DEFINE q == queue[w]
  <2>2. q \in Seq(Block) /\ q # << >> /\ Len(q) = 1 BY <1>2, <1>4, <2>1
  <2> HIDE DEF q
  <2>3. Tail(q) \in Seq(Block) /\ Len(Tail(q)) = 0 BY <2>2, HeadTailProperties
  <2>4. Tail(q) = << >> BY <2>3, EmptySeq
  <2> QED BY <2>1, <2>4 DEF q
<1> QED BY <1>5, <1>6 DEF StreamInv

\* A sweep cancels a lane, or leaves it as it was.
LEMMA SweepStream ==
  ASSUME SafetyInv, NEW t \in Threads, Sweeping(t), NEW v \in Indexers, StreamInv(v)
  PROVE  StreamInv(v)'
<1>0. TypeInv /\ CancelInv BY DEF SafetyInv
<1>1. /\ UNCHANGED <<rFile, rWorker, rLeft, rCount, size, document>>
      /\ \A s \in Threads : s # t => pc'[s] = pc[s]
      /\ pc[t] \in {"cancelWorkers", "cancelLanes", "closeLanes"}
      /\ pc'[t] \in {"cancelLanes", "closeLanes", "leave", "exited", "joinReaders",
                     "joinIndexers"}
      /\ cancelled'[v] \/ (queue'[v] = queue[v] /\ ~cancelled[v])
      /\ pc[t] \in Failing /\ pc'[t] \notin Failing => cancelled'[v]
  BY <1>0, SweepFrame
<1>2. CASE cancelled'[v] BY <1>2 DEF StreamInv
<1>3. CASE ~cancelled'[v]
  <2>1. document[v].bytes + Payload(queue[v]) \in Nat BY <1>0, StreamTypes
  <2>2. pc'[v] \notin Failing => pc[v] \notin Failing
    <3>1. v \in Threads BY DEF Threads
    <3> QED BY <1>1, <1>3, <3>1
  <2>3. \A s \in Readers : pc'[s] # "abort" =>
          pc[s] # "abort" /\ (pc'[s] = "complete" => pc[s] = "complete")
    <3>1. \A s \in Readers : s \in Threads BY DEF Threads
    <3> QED BY <1>1, <3>1
  <2>4. queue'[v] = queue[v] /\ ~cancelled[v] BY <1>1, <1>3
  <2> QED BY <1>1, <2>1, <2>2, <2>3, <2>4, StreamFrame
<1> QED BY <1>2, <1>3

\* The steps of an indexer.
LEMMA IndexerStream ==
  ASSUME SafetyInv, NEW w \in Indexers, Indexer(w), ~Sweeping(w), NEW v \in Indexers, StreamInv(v)
  PROVE  StreamInv(v)'
<1>0. TypeInv BY DEF SafetyInv
<1>1. /\ UNCHANGED <<rFile, rWorker, rLeft, rCount, size, cancelled>>
      /\ \A s \in Readers : pc'[s] = pc[s]
      /\ v # w => pc'[v] = pc[v] /\ queue'[v] = queue[v] /\ document'[v] = document[v]
  <2>1. \A s \in Readers : s \in Threads /\ s # w BY ConstantsAssumption DEF Threads
  <2>2. v \in Threads BY DEF Threads
  <2> QED BY <1>0, <2>1, <2>2, OtherIndexers
<1>2. document[v].bytes + Payload(queue[v]) \in Nat BY <1>0, StreamTypes
<1>3. CASE v # w BY <1>1, <1>2, <1>3, StreamFrame
<1>4. CASE v = w /\ (PopStart(w) \/ PopData(w)) BY <1>4, PopInsideStream
<1>5. CASE v = w /\ (PopComplete(w) \/ PopAbort(w)) BY <1>5, PopTerminalStream
<1>6. CASE v = w /\ (PopThrows(w) \/ IndexerStopsInside(w))
  <2>1. pc'[w] \in Failing
    BY <1>0, <1>6 DEF PopThrows, IndexerStopsInside, SetFatal, Goto, TypeInv, TypeOK, Threads, Failing
  <2> QED BY <1>6, <2>1 DEF StreamInv
<1>7. CASE v = w /\ (PopWaits(w) \/ IndexerExits(w) \/ Release(w))
  <2>1. UNCHANGED <<queue, document>>
    BY <1>7 DEF PopWaits, IndexerExits, Release, Sleep, lanes, iVars
  <2>2. pc[w] \notin Failing
    BY <1>7 DEF PopWaits, IndexerExits, Release, LaneEnded, AwakeAt, Failing
  <2> QED BY <1>1, <1>2, <1>7, <2>1, <2>2, StreamFrame
<1> QED BY <1>3, <1>4, <1>5, <1>6, <1>7 DEF Indexer

\* Every step keeps what each lane, its document and its reader have of the file.
LEMMA NextStreamInv ==
  ASSUME SafetyInv, ReadInv, [Next]_vars, NEW v \in Indexers, StreamInv(v)
  PROVE  StreamInv(v)'
<1>0. TypeInv BY DEF SafetyInv
<1>1. ASSUME NEW t \in Threads, Sweeping(t) PROVE StreamInv(v)' BY <1>1, SweepStream
<1>2. ASSUME NEW r \in Readers, Reader(r) PROVE StreamInv(v)'
  <2>1. r \in Threads BY DEF Threads
  <2> QED BY <1>1, <1>2, <2>1, ReaderQuietStream, AcquireStream, PushStream DEF Reader
<1>3. ASSUME NEW w \in Indexers, Indexer(w) PROVE StreamInv(v)'
  <2>1. w \in Threads BY DEF Threads
  <2> QED BY <1>1, <1>3, <2>1, IndexerStream
<1>4. document[v].bytes + Payload(queue[v]) \in Nat BY <1>0, StreamTypes
<1>5. ASSUME Builder PROVE StreamInv(v)'
  <2>1. Main \in Threads BY DEF Threads
  <2>2. CASE ~Sweeping(Main)
    <3>1. /\ UNCHANGED <<rFile, rWorker, rLeft, rCount, size, document, queue, cancelled>>
          /\ \A t \in Readers \cup Indexers :
                \/ pc'[t] = pc[t]
                \/ pc[t] = "unborn" /\ pc'[t] = IF t \in Readers THEN "job" ELSE "pop"
      BY <1>0, <1>5, <2>2, BuilderFrame
    <3>2. pc'[v] \notin Failing => pc[v] \notin Failing BY <3>1 DEF Failing
    <3>3. \A s \in Readers : pc'[s] # "abort" =>
            pc[s] # "abort" /\ (pc'[s] = "complete" => pc[s] = "complete")
      BY <3>1
    <3> QED BY <1>4, <3>1, <3>2, <3>3, StreamFrame
  <2> QED BY <1>1, <2>1, <2>2
<1>6. ASSUME UNCHANGED <<pc, lanes, rVars, iVars, size>> PROVE StreamInv(v)'
  BY <1>4, <1>6, StreamFrame DEF lanes, rVars, iVars
<1> QED BY <1>2, <1>3, <1>5, <1>6 DEF Next, Terminated, SpuriousWakeup, vars

\* In the beginning nobody streams anything.
LEMMA InitStreamInv == Init => \A w \in Indexers : StreamInv(w)
<1> SUFFICES ASSUME Init, NEW w \in Indexers PROVE StreamInv(w)
  OBVIOUS
<1>1. \A r \in Readers : rWorker[r] # w BY ConstantsAssumption DEF Init
<1>2. DOMAIN queue[w] = {} BY DEF Init
<1> QED BY <1>1, <1>2 DEF StreamInv

\* The steps that commit nothing.
LEMMA CommitFrame ==
  ASSUME CommitInv, UNCHANGED <<dictionary, size, indexedFiles>>, fileErrors \subseteq fileErrors',
         pc'[Main] \in {"returnedErrors", "returnedSnapshot"} =>
             \/ pc[Main] \in {"returnedErrors", "returnedSnapshot"}
             \/ Files \subseteq CommittedFiles \cup fileErrors
  PROVE  CommitInv'
<1>1. Committed' = Committed /\ CommittedFiles' = CommittedFiles BY DEF CommittedFiles, Committed
<1>2. pc'[Main] \in {"returnedErrors", "returnedSnapshot"} =>
        Files \subseteq CommittedFiles' \cup fileErrors'
  <2>1. pc'[Main] \in {"returnedErrors", "returnedSnapshot"} =>
          Files \subseteq CommittedFiles \cup fileErrors
    BY DEF CommitInv
  <2> QED BY <1>1, <2>1
<1>3. \A v, w \in Indexers : \A d \in dictionary'[v], e \in dictionary'[w] :
        d.fileId = e.fileId => v = w /\ d = e
  BY DEF CommitInv
<1>4. \A d \in Committed' : /\ d.bytes = size'[d.fileId]
                            /\ d.bytes % ReadBlock # 0 => d.flushed
  BY <1>1 DEF CommitInv
<1>5. indexedFiles' = Cardinality(CommittedFiles') BY <1>1 DEF CommitInv
<1> QED BY <1>2, <1>3, <1>4, <1>5 DEF CommitInv

\* The document that is committed is the whole file, and the file was not committed before.
LEMMA PopCompleteCommit ==
  ASSUME SafetyInv, FlowInv, NEW w \in Indexers, StreamInv(w), CommitInv, PopComplete(w)
  PROVE  CommitInv'
<1> USE ConstantsAssumption
<1>0. TypeInv /\ ShapeInv /\ SettledInv /\ EndInv BY DEF SafetyInv, FlowInv
<1> DEFINE q == queue[w]
           doc == document[w]
<1>1. /\ TakeBlock(w) /\ Head(q).kind = "Complete" /\ doc # NoDoc /\ doc.fileId = Head(q).fileId
      /\ dictionary' = [dictionary EXCEPT ![w] = @ \cup {doc}] /\ Goto(w, "release")
      /\ indexedFiles' = indexedFiles + 1 /\ UNCHANGED <<fileErrors, size>>
  BY DEF PopComplete, InSequence, TakeBlock
<1>2. /\ q \in Seq(Block) /\ Len(q) \in Nat \ {0} /\ Head(q) = q[1] /\ ~cancelled[w]
      /\ \E g \in Files : Stream(w, g)
  BY <1>0, <1>1, PopFacts
<1>3. /\ 1 \in DOMAIN q /\ q[1].kind = "Complete" /\ q[1].fileId = doc.fileId
      /\ pc[w] = "pop" /\ q # << >>
  BY <1>1, <1>2 DEF TakeBlock, AwakeAt
<1>4. Len(q) = 1
  <2>1. 1 \in 1 .. Len(q) /\ q[1].kind \in Terminal BY <1>2, <1>3 DEF Terminal
  <2> QED BY <1>2, <2>1 DEF Stream
<1>5. doc \in Document BY <1>0, <1>1 DEF TypeInv, TypeOK
<1>6. doc.fileId \in Files /\ doc.bytes \in Nat BY <1>5 DEF Document
<1>7. Payload(q) = 0
  <2> HIDE DEF q
  <2>1. Tail(q) \in Seq(Block) /\ Len(Tail(q)) = 0 BY <1>2, <1>3, <1>4, HeadTailProperties
  <2>2. Tail(q) = << >> BY <2>1, EmptySeq
  <2>3. Payload(Tail(q)) = 0 BY <2>2, WeightEmpty, Zenon
  <2>4. Payload(q) = DataIn(Head(q)) + Payload(Tail(q)) BY <1>2, <1>3, WeightTail
  <2>5. DataIn(Head(q)) = 0 BY <1>2, <1>3 DEF DataIn
  <2> QED BY <2>3, <2>4, <2>5
<1>8. pc[w] \notin Failing BY <1>3 DEF Failing
<1>9. doc.bytes + Payload(q) = size[doc.fileId] /\ (size[doc.fileId] % ReadBlock # 0 => Flushes(w))
  BY <1>2, <1>3, <1>8 DEF StreamInv
<1>10. doc.bytes = size[doc.fileId] BY <1>6, <1>7, <1>9
<1>11. Flushes(w) => doc.flushed
  <2>1. \A i \in DOMAIN q : q[i].kind # "Data"
    <3>1. \A i \in DOMAIN q : i = 1 BY <1>2, <1>4
    <3> QED BY <1>3, <3>1
  <2> QED BY <2>1 DEF Flushes
<1>12. /\ dictionary'[w] = dictionary[w] \cup {doc}
       /\ \A v \in Indexers : v # w => dictionary'[v] = dictionary[v]
  BY <1>0, <1>1 DEF TypeInv, TypeOK
<1> HIDE DEF q, doc
<1>13. Committed' = Committed \cup {doc}
  <2>1. \A d : d \in Committed' <=> \E v \in Indexers : d \in dictionary'[v] BY DEF Committed
  <2>2. \A d : d \in Committed <=> \E v \in Indexers : d \in dictionary[v] BY DEF Committed
  <2>3. \A d : d \in Committed' <=> d \in Committed \/ d = doc BY <1>12, <2>1, <2>2
  <2> QED BY <2>3
<1>14. CommittedFiles' = CommittedFiles \cup {doc.fileId} BY <1>13 DEF CommittedFiles
<1>15. doc.fileId \notin CommittedFiles
  <2>1. InLane(w, doc.fileId) BY <1>2 DEF InLane, doc
  <2> QED BY <1>0, <2>1 DEF SettledInv
<1>16. \A v \in Indexers : \A d \in dictionary[v] : d.fileId # doc.fileId
  BY <1>15 DEF CommittedFiles, Committed
<1>17. ASSUME NEW u \in Indexers, NEW v \in Indexers,
              NEW d \in dictionary'[u], NEW e \in dictionary'[v], d.fileId = e.fileId
       PROVE  u = v /\ d = e
  <2>1. \A x \in Indexers : \A c \in dictionary'[x] : c \in dictionary[x] \/ (x = w /\ c = doc)
    BY <1>12
  <2>2. CASE d \in dictionary[u] /\ e \in dictionary[v] BY <1>17, <2>2 DEF CommitInv
  <2>3. CASE ~(d \in dictionary[u]) /\ ~(e \in dictionary[v]) BY <1>17, <2>1, <2>3
  <2>4. CASE d \in dictionary[u] /\ ~(e \in dictionary[v]) BY <1>16, <1>17, <2>1, <2>4
  <2>5. CASE ~(d \in dictionary[u]) /\ e \in dictionary[v] BY <1>16, <1>17, <2>1, <2>5
  <2> QED BY <2>2, <2>3, <2>4, <2>5
<1>18. ASSUME NEW d \in Committed'
       PROVE  d.bytes = size'[d.fileId] /\ (d.bytes % ReadBlock # 0 => d.flushed)
  <2>1. CASE d = doc BY <1>1, <1>9, <1>10, <1>11, <2>1
  <2>2. CASE d \in Committed BY <1>1, <2>2 DEF CommitInv
  <2> QED BY <1>13, <2>1, <2>2
<1>19. indexedFiles' = Cardinality(CommittedFiles')
  <2>1. CommittedFiles \subseteq Files
    BY <1>0 DEF TypeInv, TypeOK, CommittedFiles, Committed, Document
  <2>2. IsFiniteSet(Files) BY FS_Interval DEF Files
  <2>3. IsFiniteSet(CommittedFiles) BY <2>1, <2>2, FS_Subset
  <2>4. Cardinality(CommittedFiles \cup {doc.fileId}) = Cardinality(CommittedFiles) + 1
    BY <1>15, <2>3, FS_AddElement
  <2> QED BY <1>1, <1>14, <2>4 DEF CommitInv
<1>20. pc'[Main] \notin {"returnedErrors", "returnedSnapshot"}
  <2>1. ~Ended BY <1>0, <1>3, StillRunning
  <2>2. pc'[Main] = pc[Main] BY <1>0, <1>1 DEF Goto, Threads, TypeInv, TypeOK
  <2> QED BY <2>1, <2>2 DEF Ended
<1> QED BY <1>17, <1>18, <1>19, <1>20 DEF CommitInv

\* Every step keeps what has been committed.
LEMMA NextCommitInv ==
  ASSUME SafetyInv, FlowInv, \A w \in Indexers : StreamInv(w), CommitInv, [Next]_vars
  PROVE  CommitInv'
<1> USE ConstantsAssumption
<1> USE DEF Threads, Goto, shared, rVars, iVars
<1>0. TypeInv /\ CancelInv /\ pc \in [Threads -> Labels] BY DEF SafetyInv, TypeInv, TypeOK
<1>1. ASSUME NEW t \in Threads, Sweeping(t) PROVE CommitInv'
  <2>1. /\ UNCHANGED <<size, dictionary, fileErrors, indexedFiles>>
        /\ \A s \in Threads : s # t => pc'[s] = pc[s]
        /\ pc'[t] \in {"cancelLanes", "closeLanes", "leave", "exited", "joinReaders",
                       "joinIndexers"}
    BY <1>0, <1>1, SweepFrame
  <2>2. pc'[Main] \in {"returnedErrors", "returnedSnapshot"} => pc'[Main] = pc[Main] BY <2>1
  <2> QED BY <2>1, <2>2, CommitFrame
<1>2. ASSUME NEW r \in Readers, Reader(r), ~Sweeping(r) PROVE CommitInv'
  <2>1. UNCHANGED <<size, dictionary, indexedFiles>> /\ fileErrors \subseteq fileErrors'
    BY <1>2 DEF Reader, TakeJob, OpenFails, Open, Acquire, AcquireRefused, AcquireWaits, Read,
       ReadFails, Push, PushRefused, PushWaits, ReaderThrows, Leave, Sleep, AddFileError
  <2>2. UNCHANGED pc \/ \E label : Goto(r, label)
    BY <1>2 DEF Reader, TakeJob, OpenFails, Open, Acquire, AcquireRefused, AcquireWaits, Read,
       ReadFails, Push, PushRefused, PushWaits, ReaderThrows, Leave, Sleep, SetFatal
  <2>3. pc'[Main] = pc[Main] BY <1>0, <2>2
  <2> QED BY <2>1, <2>3, CommitFrame
<1>3. ASSUME NEW w \in Indexers, Indexer(w), ~Sweeping(w), ~PopComplete(w) PROVE CommitInv'
  <2>1. UNCHANGED <<size, dictionary, indexedFiles, fileErrors>>
    BY <1>3 DEF Indexer, PopStart, PopData, PopAbort, PopThrows, TakeBlock, PopWaits, Sleep,
       IndexerExits, IndexerStopsInside, Release
  <2>2. pc'[Main] = pc[Main] BY <1>0, <1>3, OtherIndexers
  <2> QED BY <2>1, <2>2, CommitFrame
<1>4. ASSUME NEW w \in Indexers, PopComplete(w) PROVE CommitInv' BY <1>4, PopCompleteCommit
<1>5. ASSUME Builder, ~Sweeping(Main) PROVE CommitInv'
  <2>1. UNCHANGED <<size, dictionary, fileErrors, indexedFiles>> BY <1>0, <1>5, BuilderFrame
  <2>2. CASE JoinIndexers
    <3>1. pc'[Main] \in {"returnedErrors", "returnedSnapshot"} => fatalError = "none"
      BY <1>0, <2>2 DEF JoinIndexers
    <3>2. fatalError = "none" => Files \subseteq CommittedFiles \cup fileErrors
      BY <2>2, AllSettled
    <3> QED BY <2>1, <3>1, <3>2, CommitFrame
  <2>3. CASE ~JoinIndexers
    <3>1. pc'[Main] \notin {"returnedErrors", "returnedSnapshot"} \/ pc'[Main] = pc[Main]
      BY <1>0, <1>5, <2>3 DEF Builder, Spawn, SpawnDone, SpawnFails, JoinReaders, SetFatal
    <3> QED BY <2>1, <3>1, CommitFrame
  <2> QED BY <2>2, <2>3
<1>6. ASSUME UNCHANGED <<pc, shared, iVars, size>> PROVE CommitInv' BY <1>6, CommitFrame
<1>7. Main \in Threads /\ Readers \subseteq Threads /\ Indexers \subseteq Threads OBVIOUS
<1> QED BY <1>1, <1>2, <1>3, <1>4, <1>5, <1>6, <1>7 DEF Next, Builder, Terminated, SpuriousWakeup, vars

\* In the beginning nothing is committed.
LEMMA InitCommitInv == Init => CommitInv
<1> SUFFICES ASSUME Init PROVE CommitInv
  OBVIOUS
<1>1. \A w \in Indexers : dictionary[w] = {} BY DEF Init
<1>2. Committed = {} BY <1>1 DEF Committed
<1>3. CommittedFiles = {} BY <1>2 DEF CommittedFiles
<1>4. indexedFiles = Cardinality(CommittedFiles) BY <1>3, FS_EmptySet DEF Init
<1>5. pc[Main] = "spawn" BY DEF Init, Threads
<1> QED BY <1>1, <1>2, <1>4, <1>5 DEF CommitInv

\* The whole invariant.
LEMMA BatchBytes == Spec => [](SafetyInv /\ FlowInv /\ BytesInv)
<1>1. Init => BytesInv BY InitReadInv, InitStreamInv, InitCommitInv DEF BytesInv
<1>2. SafetyInv /\ FlowInv /\ BytesInv /\ [Next]_vars => BytesInv'
  <2> SUFFICES ASSUME SafetyInv, FlowInv, BytesInv, [Next]_vars PROVE BytesInv'
    OBVIOUS
  <2>1. ReadInv /\ (\A w \in Indexers : StreamInv(w)) /\ CommitInv BY DEF BytesInv
  <2>2. ReadInv' BY <2>1, NextReadInv DEF SafetyInv
  <2>3. \A w \in Indexers : StreamInv(w)' BY <2>1, NextStreamInv
  <2>4. CommitInv' BY <2>1, NextCommitInv
  <2> QED BY <2>2, <2>3, <2>4 DEF BytesInv
<1> QED BY <1>1, <1>2, BatchFlow, PTL DEF Spec

(* build() loses nothing, whatever the number of threads, the sizes of the files, of the
   blocks and of the lanes, and the faults: when it returns without a fatal error each
   file has been reported, or is once in one dictionary, with all its bytes and with
   its last word flushed unless its size is a multiple of the block. *)
THEOREM BatchNothingLost == Spec => []NothingLost
<1>1. SafetyInv /\ FlowInv /\ BytesInv => NothingLost
  <2> SUFFICES ASSUME SafetyInv, FlowInv, BytesInv,
                      pc[Main] \in {"returnedErrors", "returnedSnapshot"}
               PROVE  /\ CommittedFiles \cup fileErrors = Files
                      /\ CommittedFiles \cap fileErrors = {}
                      /\ \A v, w \in Indexers : \A d \in dictionary[v], e \in dictionary[w] :
                            d.fileId = e.fileId => v = w /\ d = e
                      /\ \A d \in Committed : /\ d.bytes = size[d.fileId]
                                              /\ d.bytes % ReadBlock # 0 => d.flushed
                      /\ indexedFiles = Cardinality(CommittedFiles)
    BY DEF NothingLost
  <2>1. CommittedFiles \subseteq Files /\ fileErrors \subseteq Files
    BY DEF SafetyInv, TypeInv, TypeOK, CommittedFiles, Committed, Document
  <2>2. CommittedFiles \cap fileErrors = {} BY DEF FlowInv, SettledInv
  <2>3. CommitInv BY DEF BytesInv
  <2>4. CommittedFiles \cup fileErrors = Files BY <2>1, <2>3 DEF CommitInv
  <2> QED BY <2>2, <2>3, <2>4 DEF CommitInv
<1> QED BY <1>1, BatchBytes, PTL
=============================================================================
