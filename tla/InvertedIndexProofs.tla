------------------------- MODULE InvertedIndexProofs -------------------------
(***************************************************************************)
(* For any files, words, watchers and numbers of changes, full updates,    *)
(* timeouts and failures: the state is well typed, a full update works     *)
(* alone once it has drained the executors, stop() is final, and whatever  *)
(* a search can find has a row in the mirror.                              *)
(* While no commit waits in the pool during a compaction, and no update of *)
(* a file is taken up before the last one has been committed, postings     *)
(* come under their own words, stay when the file is gone, and agree with  *)
(* wordRefs at rest.                                                       *)
(***************************************************************************)
EXTENDS InvertedIndex, SequenceTheorems, FiniteSetTheorems,
        WellFoundedInduction, NaturalsInduction, TLAPS

-----------------------------------------------------------------------------
(* The inductive invariant.                                                *)

\* The files, the events and the bounds.  Only an absent path has version 0.
DiskOk ==
    /\ disk \in [Files -> [ver : 0 .. MaxWrites, words : SUBSET Words]]
    /\ \A f \in Files : disk[f].ver = 0 => disk[f] = Absent
    /\ everHeld \in [Files -> SUBSET Words]
    /\ events \subseteq Files \X Kinds
    /\ writes \in 0 .. MaxWrites /\ updates \in 0 .. MaxUpdates
    /\ timeouts \in 0 .. MaxTimeouts /\ faults \in 0 .. MaxFaults

\* The catalog and the mirror.
StoreOk ==
    /\ catalog \in [Files -> [known : BOOLEAN, ver : 0 .. MaxWrites,
                              deleted : BOOLEAN]]
    /\ mirror \in [Files -> {"none", "queued", "durable"}]
    /\ writerError \in BOOLEAN
    /\ storageFailure \in BOOLEAN

\* The callers.  One inside an operation knows its path and its kind.
CallOk ==
    /\ cpc \in [Callers -> {"idle", "try", "locked", "defer", "insert", "recheck"}]
    /\ cop \in [Callers -> (Files \X Kinds) \cup {NoOp}]
    /\ \A c \in Callers : cpc[c] # "idle" => cop[c] \in Files \X Kinds
    /\ deferred \subseteq Files

\* The full update and the shutdown.
UpdateOk ==
    /\ upc \in {"idle", "lock", "wait", "scan", "erasing", "dispatch", "futures",
                "shrink", "flush", "failed", "unlock", "drain", "replay", "settle"}
    /\ scanned \subseteq Files /\ toIndex \subseteq Files
    /\ awaiting \subseteq Files /\ replay \subseteq Files
    /\ work \in BOOLEAN
    /\ updateOk \in BOOLEAN
    /\ stopping \in BOOLEAN
    /\ indexStopping \in BOOLEAN
    /\ stopPc \in {"run", "flag", "clear", "wait", "stopped"}

\* The counter waitForIdle looks at counts the handlers queued or running.
ExecOk ==
    /\ strand \in Seq(StrandTasks)
    /\ pool \in Seq(PoolTasks)
    /\ active = Len(strand) + Len(pool)

\* The dictionary.  Word numbers are given out once, so there is a slot for
\* each; the flat copy has one entry for each word from the moment compact
\* takes it to the moment it is given up, and meanwhile compact is the handler
\* the strand is running.
DictOk ==
    /\ wordIds \in Seq(Words) /\ IsInjective(wordIds)
    /\ chunks \in [Wids -> [Files -> Nat]]
    /\ flat \in Seq([Files -> Nat])
    /\ updateMutex = Strand =>
           strand # <<>> /\ Head(strand).k = "compact" /\ Len(flat) = Len(wordIds)
    /\ updateMutex # Strand => flat = <<>>

RefsOk == /\ DOMAIN wordRefs \subseteq Files
          /\ wordRefs \in [DOMAIN wordRefs -> SUBSET Wids]

\* Whoever is in a section that updateMutex protects owns it.
Locked  == {"wait", "scan", "erasing", "dispatch", "futures", "shrink", "flush",
            "failed", "unlock"}
MutexOk ==
    /\ updateMutex \in Callers \cup {Strand, Nobody}
    /\ \A c \in Callers : cpc[c] = "locked" => updateMutex = c
    /\ upc \in Locked => updateMutex = Updater
    /\ cpc[Updater] # "idle" => upc = "replay"

\* The handlers that answer the updater: there is at most one in the strand,
\* and only while the updater waits for it.
Answers  == {"erase", "shrink"}
SignalOk ==
    /\ \A i \in DOMAIN strand :
          /\ strand[i].k = "erase" => upc = "erasing"
          /\ strand[i].k = "shrink" => upc = "shrink"
    /\ \A i, j \in DOMAIN strand :
          strand[i].k \in Answers /\ strand[j].k \in Answers => i = j

\* A path deferred too late for stop() to see is still in the hands of a
\* caller, who looks at stopping_ again.
StopOk ==
    /\ stopPc # "run" => stopping
    /\ stopPc \in {"clear", "wait", "stopped"} => indexStopping
    /\ stopPc \in {"wait", "stopped"} /\ deferred # {} =>
           \E c \in Callers : cpc[c] = "recheck"

\* Until the writer fails, a document without a row has no postings, neither in
\* the dictionary nor in the copy compact works on.
RowsOk ==
    ~writerError => \A f \in Files : mirror[f] = "none" =>
        /\ \A i \in Wids : chunks[i][f] = 0
        /\ \A i \in DOMAIN flat : flat[i][f] = 0

\* A commit is posted when its row has been handed over; for a point update,
\* when the row is durable.
CommitsOk ==
    \A i \in DOMAIN pool : pool[i].k = "commit" =>
        /\ ~writerError => mirror[pool[i].f] # "none"
        /\ pool[i].point => mirror[pool[i].f] = "durable"

\* No handler of a point operation is queued or running beside a full update.
AloneOk ==
    upc \in Locked \ {"wait"} =>
        /\ \A i \in DOMAIN strand : ~IsPoint(strand[i])
        /\ \A i \in DOMAIN pool : ~IsPoint(pool[i])

Types == DiskOk /\ StoreOk /\ CallOk /\ UpdateOk /\ ExecOk /\ DictOk /\ RefsOk

\* The inductive invariant.
LiveInv == /\ Types /\ MutexOk /\ SignalOk /\ AloneOk
           /\ StopOk /\ StopIsFinal /\ RowsOk /\ CommitsOk

-----------------------------------------------------------------------------
(* Lemmas about the handlers and the sequences that hold them.             *)

\* The fields of a handler of the strand.
LEMMA StrandFields ==
    ASSUME NEW t \in StrandTasks
    PROVE  /\ t.k \in {"upsert", "delete", "batch", "erase", "shrink", "compact"}
           /\ t.k \in {"upsert", "delete", "batch"} => t.f \in Files
           /\ t.k = "upsert" => t.v \in 1 .. MaxWrites
           /\ t.k = "batch" => t.words \in SUBSET Words /\ t.point \in BOOLEAN
           /\ t.k = "erase" => t.erase \in SUBSET Files /\ t.mark \in SUBSET Files
  BY DEF StrandTasks, UpsertTask, DeleteTask, BatchTask, EraseTask, ShrinkTask,
         CompactTask

\* The fields of a handler of the pool.
LEMMA PoolFields ==
    ASSUME NEW t \in PoolTasks
    PROVE  /\ t.k \in {"index", "commit"}
           /\ t.f \in Files /\ t.point \in BOOLEAN
           /\ t.k = "commit" => t.wids \in SUBSET Wids
  BY DEF PoolTasks, IndexTask, CommitTask

\* What the code posts is a handler.
LEMMA Posts ==
    /\ \A f \in Files, v \in 1 .. MaxWrites : UpsertTask(f, v) \in StrandTasks
    /\ \A f \in Files : DeleteTask(f) \in StrandTasks
    /\ \A f \in Files, w \in SUBSET Words, pt \in BOOLEAN :
          BatchTask(f, w, pt) \in StrandTasks
    /\ \A e, r \in SUBSET Files : EraseTask(e, r) \in StrandTasks
    /\ ShrinkTask \in StrandTasks
    /\ CompactTask \in StrandTasks
    /\ \A f \in Files, pt \in BOOLEAN : IndexTask(f, pt) \in PoolTasks
    /\ \A f \in Files, w \in SUBSET Wids, pt \in BOOLEAN :
          CommitTask(f, w, pt) \in PoolTasks
  <1>1. \A f \in Files, v \in 1 .. MaxWrites : UpsertTask(f, v) \in StrandTasks
    BY DEF StrandTasks
  <1>2. \A f \in Files : DeleteTask(f) \in StrandTasks
    BY DEF StrandTasks
  <1>3. \A f \in Files, w \in SUBSET Words, pt \in BOOLEAN :
           BatchTask(f, w, pt) \in StrandTasks
    BY DEF StrandTasks
  <1>4. \A e, r \in SUBSET Files : EraseTask(e, r) \in StrandTasks
    BY DEF StrandTasks
  <1>5. ShrinkTask \in StrandTasks /\ CompactTask \in StrandTasks
    BY DEF StrandTasks
  <1>6. \A f \in Files, pt \in BOOLEAN : IndexTask(f, pt) \in PoolTasks
    BY DEF PoolTasks
  <1>7. \A f \in Files, w \in SUBSET Wids, pt \in BOOLEAN :
           CommitTask(f, w, pt) \in PoolTasks
    BY DEF PoolTasks
  <1> QED  BY <1>1, <1>2, <1>3, <1>4, <1>5, <1>6, <1>7

\* RemoveAt takes one element away and adds none.
LEMMA RemoveAtProperties ==
    ASSUME NEW S, NEW s \in Seq(S), NEW i \in DOMAIN s
    PROVE  /\ RemoveAt(s, i) \in Seq(S)
           /\ Len(RemoveAt(s, i)) = Len(s) - 1
           /\ \A j \in DOMAIN RemoveAt(s, i) :
                 \E m \in DOMAIN s : RemoveAt(s, i)[j] = s[m]
           /\ \A j \in 1 .. Len(s) - 1 :
                 RemoveAt(s, i)[j] = s[IF j < i THEN j ELSE j + 1]
  <1> DEFINE a == SubSeq(s, 1, i - 1)
             b == SubSeq(s, i + 1, Len(s))
             r == a \o b
  <1>0. /\ Len(s) \in Nat /\ i \in 1 .. Len(s) /\ DOMAIN s = 1 .. Len(s)
        /\ \A j \in 1 .. Len(s) : s[j] \in S
    BY LenProperties
  <1>1. /\ a \in Seq(S) /\ Len(a) = i - 1
        /\ \A j \in 1 .. i - 1 : a[j] = s[j]
    BY <1>0
  <1>2. /\ b \in Seq(S) /\ Len(b) = Len(s) - i
        /\ \A j \in 1 .. Len(s) - i : b[j] = s[i + j]
    <2>1. b \in Seq(S)
      BY <1>0
    <2>2. Len(b) = Len(s) - i
      BY <1>0
    <2>3. ASSUME NEW j \in 1 .. Len(s) - i PROVE b[j] = s[i + j]
      <3>1. i + j \in i + 1 .. Len(s) /\ (i + j) - (i + 1) + 1 = j
        BY <1>0
      <3>2. b[j] = s[i + 1 + j - 1]
        BY <1>0, <3>1
      <3> QED  BY <3>2, <1>0
    <2> QED  BY <2>1, <2>2, <2>3
  <1> HIDE DEF a, b
  <1>4. /\ r \in Seq(S) /\ Len(r) = Len(a) + Len(b)
        /\ \A j \in 1 .. Len(a) + Len(b) :
              r[j] = IF j <= Len(a) THEN a[j] ELSE b[j - Len(a)]
    BY <1>1, <1>2, ConcatProperties
  <1>3. RemoveAt(s, i) = r
    BY DEF RemoveAt, a, b
  <1> HIDE DEF r
  <1>5. Len(r) = Len(s) - 1 /\ DOMAIN r = 1 .. Len(s) - 1
    BY <1>0, <1>1, <1>2, <1>4, LenProperties
  <1>6. ASSUME NEW j \in 1 .. Len(s) - 1
        PROVE  /\ r[j] = s[IF j < i THEN j ELSE j + 1]
               /\ (IF j < i THEN j ELSE j + 1) \in DOMAIN s
    <2>1. CASE j <= i - 1
      <3>1. r[j] = s[j] /\ j \in DOMAIN s
        BY <2>1, <1>0, <1>1, <1>2, <1>4
      <3>2. j < i
        BY <2>1, <1>0
      <3> QED  BY <3>1, <3>2
    <2>2. CASE ~(j <= i - 1)
      <3>1. j - (i - 1) \in 1 .. Len(s) - i
        BY <2>2, <1>0
      <3>2. b[j - (i - 1)] = s[i + (j - (i - 1))]
        BY <3>1, <1>2
      <3>3. i + (j - (i - 1)) = j + 1 /\ j + 1 \in DOMAIN s
        BY <1>0
      <3>4. r[j] = b[j - (i - 1)]
        BY <2>2, <1>0, <1>1, <1>2, <1>4
      <3>5. ~(j < i)
        BY <2>2, <1>0
      <3> QED  BY <3>2, <3>3, <3>4, <3>5
    <2> QED  BY <2>1, <2>2
  <1> QED  BY <1>3, <1>4, <1>5, <1>6

\* A finite set can be listed.
LEMMA Listed ==
    ASSUME NEW S, IsFiniteSet(S)
    PROVE  /\ SetToSeq(S) \in Seq(S)
           /\ Len(SetToSeq(S)) = Cardinality(S)
           /\ IsInjective(SetToSeq(S))
  <1>1. /\ Cardinality(S) \in Nat
        /\ \E f : ExistsBijection(1 .. Cardinality(S), S)
    BY FS_CardinalityType
  <1>2. \E f \in [1 .. Cardinality(S) -> S] : IsInjective(f)
    BY <1>1 DEF ExistsBijection, Bijection, Injection, IsInjective
  <1>3. /\ SetToSeq(S) \in [1 .. Cardinality(S) -> S]
        /\ IsInjective(SetToSeq(S))
    BY <1>2 DEF SetToSeq
  <1> QED  BY <1>1, <1>3

\* The strand after a handler has posted one to it.
LEMMA StrandPosted ==
    ASSUME ExecOk, NEW t \in StrandTasks, PostStrand(t)
    PROVE  /\ ExecOk'
           /\ strand' = Append(strand, t) /\ pool' = pool
           /\ strand' # <<>>
           /\ strand # <<>> => Head(strand') = Head(strand)
           /\ DOMAIN strand' = DOMAIN strand \cup {Len(strand) + 1}
           /\ Len(strand) + 1 \notin DOMAIN strand
           /\ \A i \in DOMAIN strand : strand'[i] = strand[i]
           /\ strand'[Len(strand) + 1] = t
  BY DEF ExecOk, PostStrand

\* The executors after the strand has ended a handler.
LEMMA StrandEnds ==
    ASSUME ExecOk, strand # <<>>, NEW ts \in Seq(PoolTasks), StrandDone(ts)
    PROVE  /\ ExecOk'
           /\ strand' = Tail(strand) /\ pool' = pool \o ts
           /\ \A i \in DOMAIN strand' : i + 1 \in DOMAIN strand /\ strand'[i] = strand[i + 1]
           /\ \A i \in DOMAIN pool' :
                 \/ i \in DOMAIN pool /\ pool'[i] = pool[i]
                 \/ \E j \in DOMAIN ts : pool'[i] = ts[j]
  <1>1. /\ strand' = Tail(strand) /\ pool' = pool \o ts
        /\ active' = active + Len(ts) - 1
    BY DEF StrandDone, Finished
  <1>2. /\ strand' \in Seq(StrandTasks) /\ Len(strand') = Len(strand) - 1
        /\ \A i \in 1 .. Len(strand') : strand'[i] = strand[i + 1]
        /\ DOMAIN strand' = 1 .. Len(strand') /\ DOMAIN strand = 1 .. Len(strand)
        /\ Len(strand) \in Nat \ {0}
    BY <1>1, HeadTailProperties, LenProperties, EmptySeq DEF ExecOk
  <1>3. /\ pool' \in Seq(PoolTasks) /\ Len(pool') = Len(pool) + Len(ts)
        /\ \A i \in 1 .. Len(pool) + Len(ts) : pool'[i] =
              IF i <= Len(pool) THEN pool[i] ELSE ts[i - Len(pool)]
        /\ DOMAIN pool' = 1 .. Len(pool') /\ DOMAIN pool = 1 .. Len(pool)
        /\ DOMAIN ts = 1 .. Len(ts) /\ Len(pool) \in Nat /\ Len(ts) \in Nat
    BY <1>1, ConcatProperties, LenProperties DEF ExecOk
  <1>4. ExecOk'
    BY <1>1, <1>2, <1>3 DEF ExecOk
  <1>5. \A i \in DOMAIN strand' : i + 1 \in DOMAIN strand /\ strand'[i] = strand[i + 1]
    BY <1>2
  <1>6. ASSUME NEW i \in DOMAIN pool'
        PROVE  \/ i \in DOMAIN pool /\ pool'[i] = pool[i]
               \/ \E j \in DOMAIN ts : pool'[i] = ts[j]
    <2>1. CASE i <= Len(pool)
      BY <2>1, <1>3
    <2>2. CASE i > Len(pool)
      <3>1. i - Len(pool) \in DOMAIN ts /\ pool'[i] = ts[i - Len(pool)]
        BY <2>2, <1>3
      <3> QED  BY <3>1
    <2> QED  BY <2>1, <2>2, <1>3
  <1> QED  BY <1>1, <1>4, <1>5, <1>6

\* The executors after a pool thread has ended a handler.
LEMMA PoolEnds ==
    ASSUME ExecOk, NEW n \in DOMAIN pool, NEW ts \in Seq(StrandTasks), PoolDone(n, ts)
    PROVE  /\ ExecOk'
           /\ strand' = strand \o ts
           /\ strand # <<>> => strand' # <<>> /\ Head(strand') = Head(strand)
           /\ \A i \in DOMAIN pool' : \E j \in DOMAIN pool : pool'[i] = pool[j]
           /\ \A i \in DOMAIN strand' :
                 \/ i \in DOMAIN strand /\ strand'[i] = strand[i]
                 \/ \E j \in DOMAIN ts : strand'[i] = ts[j]
  <1>1. /\ pool' = RemoveAt(pool, n) /\ strand' = strand \o ts
        /\ active' = active + Len(ts) - 1
    BY DEF PoolDone, Finished
  <1>2. /\ pool' \in Seq(PoolTasks) /\ Len(pool') = Len(pool) - 1
        /\ \A i \in DOMAIN pool' : \E j \in DOMAIN pool : pool'[i] = pool[j]
    BY <1>1, RemoveAtProperties DEF ExecOk
  <1>3. /\ strand' \in Seq(StrandTasks) /\ Len(strand') = Len(strand) + Len(ts)
        /\ \A i \in 1 .. Len(strand) + Len(ts) : strand'[i] =
              IF i <= Len(strand) THEN strand[i] ELSE ts[i - Len(strand)]
        /\ DOMAIN strand' = 1 .. Len(strand') /\ DOMAIN strand = 1 .. Len(strand)
        /\ DOMAIN ts = 1 .. Len(ts) /\ Len(strand) \in Nat /\ Len(ts) \in Nat
    BY <1>1, ConcatProperties, LenProperties DEF ExecOk
  <1>4. ExecOk'
    BY <1>1, <1>2, <1>3, LenProperties DEF ExecOk
  <1>5. ASSUME strand # <<>> PROVE strand' # <<>> /\ Head(strand') = Head(strand)
    <2>1. Len(strand) >= 1 /\ Len(strand') >= 1
      BY <1>3, <1>5, EmptySeq DEF ExecOk
    <2>2. strand' # <<>>
      BY <2>1, <1>3, EmptySeq
    <2>3. strand'[1] = strand[1]
      BY <2>1, <1>3
    <2> QED  BY <2>2, <2>3, <1>3, <1>5 DEF ExecOk
  <1>6. ASSUME NEW i \in DOMAIN strand'
        PROVE  \/ i \in DOMAIN strand /\ strand'[i] = strand[i]
               \/ \E j \in DOMAIN ts : strand'[i] = ts[j]
    <2>1. CASE i <= Len(strand)
      BY <2>1, <1>3
    <2>2. CASE i > Len(strand)
      <3>1. i - Len(strand) \in DOMAIN ts /\ strand'[i] = ts[i - Len(strand)]
        BY <2>2, <1>3
      <3> QED  BY <3>1
    <2> QED  BY <2>1, <2>2, <1>3
  <1> QED  BY <1>1, <1>2, <1>4, <1>5, <1>6

\* The handler at the head of the strand.
LEMMA HeadTask ==
    ASSUME ExecOk, strand # <<>>
    PROVE  Head(strand) \in StrandTasks /\ 1 \in DOMAIN strand
           /\ Head(strand) = strand[1]
  BY DEF ExecOk

-----------------------------------------------------------------------------
(* Lemmas about word numbers.                                              *)

\* The orders s lists the set T in.
Increasing(T) == {s \in [1 .. Cardinality(T) -> T] :
                    \A i, j \in DOMAIN s : i < j => s[i] < s[j]}

\* A finite set of numbers can be listed in increasing order: otherwise take
\* the least bound of one that cannot, and leave out its largest element.
LEMMA Sortable ==
    ASSUME NEW n \in Nat, NEW S \in SUBSET (1 .. n)
    PROVE  Increasing(S) # {}
  <1> DEFINE Bad == {m \in Nat : \E T \in SUBSET (1 .. m) : Increasing(T) = {}}
  <1>1. SUFFICES Bad = {}
    OBVIOUS
  <1>2. SUFFICES ASSUME Bad # {} PROVE FALSE
    OBVIOUS
  <1>3. Bad \subseteq Nat
    OBVIOUS
  <1>4. PICK m \in Bad : \A y \in Bad : ~ (<<y, m>> \in OpToRel(<, Nat))
    <2> HIDE DEF Bad
    <2> QED  BY <1>2, <1>3, NatLessThanWellFounded, WFMin
  <1>5. \A y \in Bad : ~ (y < m)
    BY <1>4 DEF OpToRel
  <1>6. PICK T \in SUBSET (1 .. m) : Increasing(T) = {}
    OBVIOUS
  <1>7. m \in Nat /\ IsFiniteSet(T) /\ Cardinality(T) \in Nat
    <2>1. m \in Nat /\ m \in Int /\ 1 \in Int
      OBVIOUS
    <2>2. IsFiniteSet(1 .. m)
      BY <2>1, FS_Interval
    <2>3. IsFiniteSet(T)
      BY <2>2, FS_Subset
    <2> QED  BY <2>1, <2>3, FS_CardinalityType
  <1>8. CASE m = 0
    <2>1. T = {} /\ Cardinality(T) = 0
      <3>1. 1 .. m = {}
        BY <1>8
      <3>2. T = {}
        BY <3>1
      <3> QED  BY <3>2, FS_EmptySet
    <2>2. <<>> \in Increasing(T)
      BY <2>1 DEF Increasing
    <2> QED  BY <2>2, <1>6
  <1>9. CASE m # 0
    <2>1. m - 1 \in Nat /\ m - 1 < m /\ m - 1 \notin Bad
      BY <1>9, <1>5
    <2> DEFINE U == T \ {m}
    <2>2. U \in SUBSET (1 .. m - 1)
      BY <1>9
    <2>3. PICK u : u \in Increasing(U)
      BY <2>1, <2>2
    <2>4. CASE m \notin T
      BY <2>4, <2>3, <1>6
    <2>5. CASE m \in T
      <3> DEFINE k == Cardinality(U)
                 s == [i \in 1 .. k + 1 |-> IF i = k + 1 THEN m ELSE u[i]]
      <3>1. k \in Nat /\ Cardinality(T) = k + 1
        <4>1. IsFiniteSet(U) /\ k = Cardinality(T) - 1
          BY <2>5, <1>7, FS_RemoveElement
        <4>2. k \in Nat
          BY <4>1, FS_CardinalityType
        <4> HIDE DEF k
        <4> QED  BY <4>1, <4>2, <1>7
      <3>2. /\ u \in [1 .. k -> U]
            /\ \A i, j \in 1 .. k : i < j => u[i] < u[j]
        BY <2>3 DEF Increasing
      <3>3. s \in [1 .. k + 1 -> T]
        <4> HIDE DEF k
        <4> QED  BY <2>5, <3>1, <3>2
      <3>4. ASSUME NEW i \in 1 .. k + 1, NEW j \in 1 .. k + 1, i < j
            PROVE  s[i] < s[j]
        <4> HIDE DEF k
        <4>1. i \in 1 .. k /\ s[i] = u[i] /\ u[i] \in 1 .. m - 1
          <5>1. i \in 1 .. k /\ i # k + 1
            BY <3>1, <3>4
          <5>2. u[i] \in U
            BY <5>1, <3>2
          <5> QED  BY <5>1, <5>2, <2>2, <3>1
        <4>2. CASE j = k + 1
          BY <4>1, <4>2
        <4>3. CASE j # k + 1
          BY <4>1, <4>3, <3>1, <3>2, <3>4
        <4> QED  BY <4>2, <4>3
      <3>5. s \in Increasing(T)
        <4> HIDE DEF k
        <4>1. DOMAIN s = 1 .. k + 1
          OBVIOUS
        <4> HIDE DEF s
        <4> QED  BY <3>1, <3>3, <3>4, <4>1 DEF Increasing
      <3> QED  BY <3>5, <1>6
    <2> QED  BY <2>4, <2>5
  <1> QED  BY <1>8, <1>9

\* The words compact keeps, in their old order.
LEMMA KeptProperties ==
    ASSUME DictOk
    PROVE  /\ Cardinality(Used) \in Nat
           /\ Kept \in [1 .. Cardinality(Used) -> Used]
           /\ Used \subseteq DOMAIN flat
           /\ \A i, j \in DOMAIN Kept : i < j => Kept[i] < Kept[j]
           /\ IsInjective(Kept)
           /\ \A i \in Used : \E j \in DOMAIN Kept : Kept[j] = i
  <1>1. Len(flat) \in Nat /\ Used \in SUBSET (1 .. Len(flat)) /\ Used \subseteq DOMAIN flat
    BY DEF DictOk, Used
  <1>2. Cardinality(Used) \in Nat /\ IsFiniteSet(Used)
    <2>1. 1 \in Int /\ Len(flat) \in Int
      BY <1>1
    <2>2. IsFiniteSet(1 .. Len(flat))
      BY <2>1, FS_Interval
    <2>3. IsFiniteSet(Used)
      BY <1>1, <2>2, FS_Subset
    <2> QED  BY <2>3, FS_CardinalityType
  <1>3. Increasing(Used) # {}
    BY <1>1, Sortable
  <1>4. /\ Kept \in [1 .. Cardinality(Used) -> Used]
        /\ \A i, j \in DOMAIN Kept : i < j => Kept[i] < Kept[j]
    BY <1>3 DEF Kept, Increasing
  <1>5. ASSUME NEW i \in DOMAIN Kept, NEW j \in DOMAIN Kept, Kept[i] = Kept[j]
        PROVE  i = j
    <2>1. i \in Int /\ j \in Int /\ Kept[i] \in Int /\ Kept[j] \in Int
      BY <1>1, <1>2, <1>4
    <2> QED  BY <2>1, <1>4, <1>5
  <1>6. \A i \in Used : \E j \in DOMAIN Kept : Kept[j] = i
    <2> DEFINE n == Cardinality(Used)
               K == {Kept[j] : j \in 1 .. n}
    <2>1. n \in Nat /\ Kept \in [1 .. n -> Used]
      BY <1>2, <1>4
    <2> HIDE DEF n
    <2>2. K \subseteq Used /\ Kept \in [1 .. n -> K]
      BY <2>1
    <2> HIDE DEF K
    <2>3. Kept \in Bijection(1 .. n, K)
      <3>1. \A i, j \in 1 .. n : Kept[i] = Kept[j] => i = j
        BY <2>1, <1>5
      <3>2. Kept \in Injection(1 .. n, K)
        BY <2>2, <3>1 DEF Injection, IsInjective
      <3>3. Kept \in Surjection(1 .. n, K)
        BY <2>2 DEF Surjection, K
      <3> QED  BY <3>2, <3>3 DEF Bijection
    <2>4. IsFiniteSet(1 .. n) /\ Cardinality(1 .. n) = n
      BY <2>1, FS_Interval
    <2>5. IsFiniteSet(K) /\ Cardinality(K) = Cardinality(1 .. n)
      BY <2>3, <2>4, FS_Bijection DEF ExistsBijection
    <2>6. K = Used
      BY <2>2, <2>4, <2>5, <1>2, FS_Subset DEF n
    <2> QED  BY <2>1, <2>6 DEF K
  <1> QED  BY <1>1, <1>2, <1>4, <1>5, <1>6 DEF IsInjective

\* There are no more word numbers than words.
LEMMA NumbersFit ==
    ASSUME NEW ids \in Seq(Words), IsInjective(ids)
    PROVE  Cardinality(Words) \in Nat /\ DOMAIN ids \subseteq Wids
  <1>1. Len(ids) \in Nat /\ DOMAIN ids = 1 .. Len(ids) /\ ids \in [1 .. Len(ids) -> Words]
    BY LenProperties
  <1>2. ids \in Injection(1 .. Len(ids), Words)
    BY <1>1 DEF Injection, IsInjective
  <1>3. IsFiniteSet(Words)
    BY IndexAssumption
  <1>4. Cardinality(1 .. Len(ids)) <= Cardinality(Words) /\ Cardinality(Words) \in Nat
    BY <1>2, <1>3, FS_Injection, FS_CardinalityType
  <1>5. Cardinality(1 .. Len(ids)) = Len(ids)
    BY <1>1, FS_Interval
  <1> QED  BY <1>1, <1>4, <1>5 DEF Wids

\* getId gives unknown words new numbers and leaves the others alone.
LEMMA NewWords ==
    ASSUME DictOk, NEW W \in SUBSET Words
    PROVE  /\ WithWords(W) \in Seq(Words) /\ IsInjective(WithWords(W))
           /\ DOMAIN wordIds \subseteq DOMAIN WithWords(W)
           /\ \A i \in DOMAIN wordIds : WithWords(W)[i] = wordIds[i]
  <1> DEFINE N == {w \in W : w \notin Range(wordIds)}
             s == SetToSeq(N)
             r == wordIds \o s
  <1>1. IsFiniteSet(N) /\ N \subseteq Words
    BY IndexAssumption, FS_Subset
  <1>2. s \in Seq(N) /\ IsInjective(s)
    BY <1>1, Listed
  <1>3. s \in Seq(Words)
    BY <1>1, <1>2, SeqMonotonic
  <1>4. /\ Len(s) \in Nat /\ DOMAIN s = 1 .. Len(s)
        /\ Len(wordIds) \in Nat /\ DOMAIN wordIds = 1 .. Len(wordIds)
    BY <1>2, LenProperties DEF DictOk
  <1>5. \A i \in DOMAIN s, j \in DOMAIN wordIds : s[i] # wordIds[j]
    <2>1. \A i \in DOMAIN s : s[i] \in N
      BY <1>2, <1>4, ElementOfSeq
    <2> QED  BY <2>1 DEF Range
  <1>6. r = WithWords(W)
    BY DEF WithWords
  <1> HIDE DEF s, N
  <1>7. /\ r \in Seq(Words) /\ Len(r) = Len(wordIds) + Len(s)
        /\ \A i \in 1 .. Len(wordIds) + Len(s) : r[i] =
              IF i <= Len(wordIds) THEN wordIds[i] ELSE s[i - Len(wordIds)]
    BY <1>3, ConcatProperties DEF DictOk
  <1> HIDE DEF r
  <1>8. DOMAIN r = 1 .. Len(wordIds) + Len(s)
    BY <1>7, LenProperties
  <1>9. ASSUME NEW i \in DOMAIN r, NEW j \in DOMAIN r, r[i] = r[j]
        PROVE  i = j
    <2>1. CASE i <= Len(wordIds) /\ j <= Len(wordIds)
      <3>1. i \in DOMAIN wordIds /\ j \in DOMAIN wordIds /\ wordIds[i] = wordIds[j]
        BY <2>1, <1>9, <1>4, <1>7, <1>8
      <3> QED  BY <3>1 DEF DictOk, IsInjective
    <2>2. CASE i > Len(wordIds) /\ j > Len(wordIds)
      <3>1. /\ i - Len(wordIds) \in DOMAIN s /\ j - Len(wordIds) \in DOMAIN s
            /\ s[i - Len(wordIds)] = s[j - Len(wordIds)]
        BY <2>2, <1>9, <1>4, <1>7, <1>8
      <3>2. i - Len(wordIds) = j - Len(wordIds)
        BY <3>1, <1>2 DEF IsInjective
      <3> QED  BY <3>2, <1>4, <1>8
    <2>3. CASE i <= Len(wordIds) /\ j > Len(wordIds)
      <3>1. i \in DOMAIN wordIds /\ j - Len(wordIds) \in DOMAIN s
            /\ wordIds[i] = s[j - Len(wordIds)]
        BY <2>3, <1>9, <1>4, <1>7, <1>8
      <3> QED  BY <3>1, <1>5
    <2>4. CASE i > Len(wordIds) /\ j <= Len(wordIds)
      <3>1. j \in DOMAIN wordIds /\ i - Len(wordIds) \in DOMAIN s
            /\ wordIds[j] = s[i - Len(wordIds)]
        BY <2>4, <1>9, <1>4, <1>7, <1>8
      <3> QED  BY <3>1, <1>5
    <2> QED  BY <2>1, <2>2, <2>3, <2>4, <1>4, <1>8
  <1>10. \A i \in DOMAIN wordIds : i \in DOMAIN r /\ r[i] = wordIds[i]
    BY <1>4, <1>7, <1>8
  <1> QED  BY <1>6, <1>7, <1>9, <1>10 DEF IsInjective

-----------------------------------------------------------------------------
(* The parts of the invariant that type the state, step by step.           *)

\* The disk, the events and the bounds.
LEMMA DiskStep ==
    ASSUME DiskOk, Next
    PROVE  DiskOk'
  <1> USE IndexAssumption
  <1>u. ASSUME UNCHANGED <<disk, everHeld, events, writes, updates, timeouts, faults>> PROVE DiskOk'
    BY <1>u DEF DiskOk
  <1>WriteFile. ASSUME NEW f \in Files, NEW w \in SUBSET Words, WriteFile(f, w)
     PROVE DiskOk'
    <2>1. /\ writes < MaxWrites /\ writes' = writes + 1
          /\ disk' = [disk EXCEPT ![f] = [ver |-> writes + 1, words |-> w]]
          /\ everHeld' = [everHeld EXCEPT ![f] = @ \cup w]
          /\ events' = Notified(f, "update")
          /\ UNCHANGED <<updates, timeouts, faults>>
      BY <1>WriteFile DEF WriteFile
    <2>2. writes' \in 0 .. MaxWrites /\ writes' # 0
      BY <2>1 DEF DiskOk
    <2>3. disk' \in [Files -> [ver : 0 .. MaxWrites, words : SUBSET Words]]
      BY <2>1, <2>2 DEF DiskOk
    <2>4. ASSUME NEW g \in Files, disk'[g].ver = 0 PROVE disk'[g] = Absent
      BY <2>1, <2>2, <2>4 DEF DiskOk
    <2>5. everHeld' \in [Files -> SUBSET Words]
      BY <2>1 DEF DiskOk
    <2>6. events' \subseteq Files \X Kinds
      BY <2>1 DEF DiskOk, Notified, Kinds
    <2> QED  BY <2>1, <2>2, <2>3, <2>4, <2>5, <2>6 DEF DiskOk
  <1>RemoveFile. ASSUME NEW f \in Files, RemoveFile(f) PROVE DiskOk'
    <2>1. /\ disk' = [disk EXCEPT ![f] = Absent]
          /\ events' = Notified(f, "delete")
          /\ UNCHANGED <<everHeld, writes, updates, timeouts, faults>>
      BY <1>RemoveFile DEF RemoveFile
    <2>2. Absent \in [ver : 0 .. MaxWrites, words : SUBSET Words]
      BY DEF Absent
    <2>3. disk' \in [Files -> [ver : 0 .. MaxWrites, words : SUBSET Words]]
      BY <2>1, <2>2 DEF DiskOk
    <2>4. ASSUME NEW g \in Files, disk'[g].ver = 0 PROVE disk'[g] = Absent
      BY <2>1, <2>4 DEF DiskOk
    <2>5. events' \subseteq Files \X Kinds
      BY <2>1 DEF DiskOk, Notified, Kinds
    <2> QED  BY <2>1, <2>3, <2>4, <2>5 DEF DiskOk
  <1>MirrorFails. ASSUME MirrorFails PROVE DiskOk'
    BY <1>MirrorFails DEF MirrorFails, envVars, DiskOk
  <1>PointBegin. ASSUME NEW w \in Watchers, NEW f \in Files, NEW kind \in Kinds,
     PointBegin(w, f, kind) PROVE DiskOk'
    BY <1>PointBegin DEF PointBegin, Call, envVars, DiskOk
  <1>UpdateBegin. ASSUME UpdateBegin PROVE DiskOk'
    BY <1>UpdateBegin DEF UpdateBegin, envVars, DiskOk
  <1>UpdateTimeout. ASSUME NEW f \in Files, UpdateTimeout(f) PROVE DiskOk'
    BY <1>UpdateTimeout DEF UpdateTimeout, envVars, DiskOk
  <1>o. \/ UNCHANGED <<disk, everHeld, events, writes, updates, timeouts,
           faults>>
        \/ (\E f \in Files, w \in SUBSET Words : WriteFile(f, w)) \/ (\E f \in
           Files : RemoveFile(f)) \/ MirrorFails \/ (\E w \in Watchers, f \in
           Files, kind \in Kinds : PointBegin(w, f, kind)) \/ UpdateBegin \/ (\E
           f \in Files : UpdateTimeout(f))
    BY DEF Next, Environment, CallerStep, StrandStep, PoolStep, MirrorStep,
       UpdateStep, StopStep, TryLock, GoTo, EnqueueUpdate, Return, PostStrand,
       EnqueueDeletion, Defer, DeferInsert, DeferRecheck, StrandUpsert,
       EraseDocs, StrandDone, StrandDelete, StrandEmptyBatch, Settle,
       StrandBatch, StrandErase, StrandShrink, StrandCompactSkip,
       StrandCompactBegin, StrandCompactEnd, PoolIndex, PoolDone,
       PoolIndexFails, PoolCommit, MirrorWrites, UpdateLock, UpdateWait,
       UpdateScan, UpdateScanThrows, UpdateDispatch, UpdateFutures, UpdateFlush,
       UpdateUnlock, UpdateDrain, UpdateReplay, Call, UpdateCompact, UpdateSave,
       StopServer, StopIndex, StopClear, StopWait, envVars
  <1> QED  BY <1>u, <1>o, <1>WriteFile, <1>RemoveFile, <1>MirrorFails,
           <1>PointBegin, <1>UpdateBegin, <1>UpdateTimeout

\* The callers.
LEMMA CallStep ==
    ASSUME DiskOk, CallOk, UpdateOk, Next
    PROVE  CallOk'
  <1>u. ASSUME UNCHANGED <<cpc, cop, deferred>> PROVE CallOk'
    BY <1>u DEF CallOk
  <1>PointBegin. ASSUME NEW w \in Watchers, NEW f \in Files, NEW kind \in Kinds,
     PointBegin(w, f, kind) PROVE CallOk'
    BY <1>PointBegin DEF PointBegin, Call, facadeVars, callVars, CallOk, Callers
  <1>TryLock. ASSUME NEW c \in Callers, TryLock(c) PROVE CallOk'
    BY <1>TryLock DEF TryLock, GoTo, facadeVars, callVars, CallOk
  <1>EnqueueUpdate. ASSUME NEW c \in Callers, EnqueueUpdate(c) PROVE CallOk'
    BY <1>EnqueueUpdate DEF EnqueueUpdate, Return, PostStrand, facadeVars,
       callVars, CallOk
  <1>EnqueueDeletion. ASSUME NEW c \in Callers, EnqueueDeletion(c) PROVE CallOk'
    BY <1>EnqueueDeletion DEF EnqueueDeletion, Return, PostStrand, facadeVars,
       callVars, CallOk
  <1>Defer. ASSUME NEW c \in Callers, Defer(c) PROVE CallOk'
    BY <1>Defer DEF Defer, GoTo, Return, facadeVars, callVars, CallOk
  <1>DeferInsert. ASSUME NEW c \in Callers, DeferInsert(c) PROVE CallOk'
    BY <1>DeferInsert DEF DeferInsert, GoTo, facadeVars, callVars, CallOk
  <1>DeferRecheck. ASSUME NEW c \in Callers, DeferRecheck(c) PROVE CallOk'
    BY <1>DeferRecheck DEF DeferRecheck, Return, facadeVars, callVars, CallOk
  <1>UpdateDrain. ASSUME UpdateDrain PROVE CallOk'
    BY <1>UpdateDrain DEF UpdateDrain, facadeVars, callVars, CallOk
  <1>UpdateReplay. ASSUME NEW f \in Files, UpdateReplay(f) PROVE CallOk'
    BY <1>UpdateReplay DEF UpdateReplay, Call, facadeVars, callVars, CallOk,
       Callers, Kinds, UpdateOk
  <1>StopClear. ASSUME StopClear PROVE CallOk'
    BY <1>StopClear DEF StopClear, facadeVars, callVars, CallOk
  <1>o. \/ UNCHANGED <<cpc, cop, deferred>>
        \/ (\E w \in Watchers, f \in Files, kind \in Kinds : PointBegin(w, f,
           kind)) \/ (\E c \in Callers : TryLock(c)) \/ (\E c \in Callers :
           EnqueueUpdate(c)) \/ (\E c \in Callers : EnqueueDeletion(c)) \/ (\E c
           \in Callers : Defer(c)) \/ (\E c \in Callers : DeferInsert(c)) \/ (\E
           c \in Callers : DeferRecheck(c)) \/ UpdateDrain \/ (\E f \in Files :
           UpdateReplay(f)) \/ StopClear
    BY DEF Next, Environment, CallerStep, StrandStep, PoolStep, MirrorStep,
       UpdateStep, StopStep, WriteFile, Notified, RemoveFile, MirrorFails,
       StrandUpsert, EraseDocs, StrandDone, StrandDelete, StrandEmptyBatch,
       Settle, StrandBatch, StrandErase, StrandShrink, StrandCompactSkip,
       StrandCompactBegin, StrandCompactEnd, PoolIndex, PoolDone,
       PoolIndexFails, PoolCommit, MirrorWrites, UpdateBegin, UpdateLock,
       UpdateWait, UpdateScan, PostStrand, UpdateScanThrows, UpdateDispatch,
       UpdateTimeout, UpdateFutures, UpdateFlush, UpdateUnlock, UpdateCompact,
       UpdateSave, StopServer, StopIndex, StopWait, facadeVars, callVars
  <1> QED  BY <1>u, <1>o, <1>PointBegin, <1>TryLock, <1>EnqueueUpdate,
           <1>EnqueueDeletion, <1>Defer, <1>DeferInsert, <1>DeferRecheck,
           <1>UpdateDrain, <1>UpdateReplay, <1>StopClear

\* The full update and the shutdown.
LEMMA UpdateStepOk ==
    ASSUME UpdateOk, CallOk, Next
    PROVE  UpdateOk'
  <1>u. ASSUME UNCHANGED <<upc, scanned, toIndex, awaiting, replay, updateOk, work, stopping, indexStopping, stopPc>> PROVE UpdateOk'
    BY <1>u DEF UpdateOk
  <1>StrandEmptyBatch. ASSUME StrandEmptyBatch PROVE UpdateOk'
    BY <1>StrandEmptyBatch DEF StrandEmptyBatch, StrandDone, Settle, facadeVars,
       updateVars, stopVars, UpdateOk
  <1>StrandBatch. ASSUME StrandBatch PROVE UpdateOk'
    BY <1>StrandBatch DEF StrandBatch, StrandDone, Settle, facadeVars,
       updateVars, stopVars, UpdateOk
  <1>StrandErase. ASSUME StrandErase PROVE UpdateOk'
    BY <1>StrandErase DEF StrandErase, EraseDocs, StrandDone, facadeVars,
       updateVars, stopVars, UpdateOk
  <1>StrandShrink. ASSUME StrandShrink PROVE UpdateOk'
    BY <1>StrandShrink DEF StrandShrink, StrandDone, facadeVars, updateVars,
       stopVars, UpdateOk
  <1>PoolIndexFails. ASSUME NEW n \in DOMAIN pool, PoolIndexFails(n) PROVE
     UpdateOk'
    BY <1>PoolIndexFails DEF PoolIndexFails, PoolDone, Settle, facadeVars,
       updateVars, stopVars, UpdateOk
  <1>PoolCommit. ASSUME NEW n \in DOMAIN pool, PoolCommit(n) PROVE UpdateOk'
    BY <1>PoolCommit DEF PoolCommit, PoolDone, Settle, facadeVars, updateVars,
       stopVars, UpdateOk
  <1>UpdateBegin. ASSUME UpdateBegin PROVE UpdateOk'
    BY <1>UpdateBegin DEF UpdateBegin, facadeVars, updateVars, stopVars,
       UpdateOk
  <1>UpdateLock. ASSUME UpdateLock PROVE UpdateOk'
    BY <1>UpdateLock DEF UpdateLock, facadeVars, updateVars, stopVars, UpdateOk
  <1>UpdateWait. ASSUME UpdateWait PROVE UpdateOk'
    BY <1>UpdateWait DEF UpdateWait, facadeVars, updateVars, stopVars, UpdateOk
  <1>UpdateScan. ASSUME UpdateScan PROVE UpdateOk'
    BY <1>UpdateScan DEF UpdateScan, PostStrand, facadeVars, updateVars,
       stopVars, UpdateOk
  <1>UpdateScanThrows. ASSUME UpdateScanThrows PROVE UpdateOk'
    BY <1>UpdateScanThrows DEF UpdateScanThrows, facadeVars, updateVars,
       stopVars, UpdateOk
  <1>UpdateDispatch. ASSUME UpdateDispatch PROVE UpdateOk'
    BY <1>UpdateDispatch DEF UpdateDispatch, facadeVars, updateVars, stopVars,
       UpdateOk
  <1>UpdateTimeout. ASSUME NEW f \in Files, UpdateTimeout(f) PROVE UpdateOk'
    BY <1>UpdateTimeout DEF UpdateTimeout, facadeVars, updateVars, stopVars,
       UpdateOk
  <1>UpdateFutures. ASSUME UpdateFutures PROVE UpdateOk'
    BY <1>UpdateFutures DEF UpdateFutures, PostStrand, facadeVars, updateVars,
       stopVars, UpdateOk
  <1>UpdateFlush. ASSUME UpdateFlush PROVE UpdateOk'
    BY <1>UpdateFlush DEF UpdateFlush, facadeVars, updateVars, stopVars,
       UpdateOk
  <1>UpdateUnlock. ASSUME UpdateUnlock PROVE UpdateOk'
    BY <1>UpdateUnlock DEF UpdateUnlock, facadeVars, updateVars, stopVars,
       UpdateOk
  <1>UpdateDrain. ASSUME UpdateDrain PROVE UpdateOk'
    BY <1>UpdateDrain DEF UpdateDrain, facadeVars, updateVars, stopVars,
       UpdateOk, CallOk
  <1>UpdateReplay. ASSUME NEW f \in Files, UpdateReplay(f) PROVE UpdateOk'
    BY <1>UpdateReplay DEF UpdateReplay, Call, facadeVars, updateVars, stopVars,
       UpdateOk
  <1>UpdateCompact. ASSUME UpdateCompact PROVE UpdateOk'
    BY <1>UpdateCompact DEF UpdateCompact, PostStrand, facadeVars, updateVars,
       stopVars, UpdateOk
  <1>UpdateSave. ASSUME UpdateSave PROVE UpdateOk'
    BY <1>UpdateSave DEF UpdateSave, facadeVars, updateVars, stopVars, UpdateOk
  <1>StopServer. ASSUME StopServer PROVE UpdateOk'
    BY <1>StopServer DEF StopServer, facadeVars, updateVars, stopVars, UpdateOk
  <1>StopIndex. ASSUME StopIndex PROVE UpdateOk'
    BY <1>StopIndex DEF StopIndex, facadeVars, updateVars, stopVars, UpdateOk
  <1>StopClear. ASSUME StopClear PROVE UpdateOk'
    BY <1>StopClear DEF StopClear, facadeVars, updateVars, stopVars, UpdateOk
  <1>StopWait. ASSUME StopWait PROVE UpdateOk'
    BY <1>StopWait DEF StopWait, facadeVars, updateVars, stopVars, UpdateOk
  <1>o. \/ UNCHANGED <<upc, scanned, toIndex, awaiting, replay, updateOk, work,
           stopping, indexStopping, stopPc>>
        \/ StrandEmptyBatch \/ StrandBatch \/ StrandErase \/ StrandShrink \/ (\E
           n \in DOMAIN pool : PoolIndexFails(n)) \/ (\E n \in DOMAIN pool :
           PoolCommit(n)) \/ UpdateBegin \/ UpdateLock \/ UpdateWait \/
           UpdateScan \/ UpdateScanThrows \/ UpdateDispatch \/ (\E f \in Files :
           UpdateTimeout(f)) \/ UpdateFutures \/ UpdateFlush \/ UpdateUnlock \/
           UpdateDrain \/ (\E f \in Files : UpdateReplay(f)) \/ UpdateCompact \/
           UpdateSave \/ StopServer \/ StopIndex \/ StopClear \/ StopWait
    BY DEF Next, Environment, CallerStep, StrandStep, PoolStep, MirrorStep,
       UpdateStep, StopStep, WriteFile, Notified, RemoveFile, MirrorFails,
       PointBegin, Call, TryLock, GoTo, EnqueueUpdate, Return, PostStrand,
       EnqueueDeletion, Defer, DeferInsert, DeferRecheck, StrandUpsert,
       EraseDocs, StrandDone, StrandDelete, StrandCompactSkip,
       StrandCompactBegin, StrandCompactEnd, PoolIndex, PoolDone, MirrorWrites,
       facadeVars, updateVars, stopVars
  <1> QED  BY <1>u, <1>o, <1>StrandEmptyBatch, <1>StrandBatch, <1>StrandErase,
           <1>StrandShrink, <1>PoolIndexFails, <1>PoolCommit, <1>UpdateBegin,
           <1>UpdateLock, <1>UpdateWait, <1>UpdateScan, <1>UpdateScanThrows,
           <1>UpdateDispatch, <1>UpdateTimeout, <1>UpdateFutures,
           <1>UpdateFlush, <1>UpdateUnlock, <1>UpdateDrain, <1>UpdateReplay,
           <1>UpdateCompact, <1>UpdateSave, <1>StopServer, <1>StopIndex,
           <1>StopClear, <1>StopWait

\* A sequence of one handler.
LEMMA OneOf ==
    ASSUME NEW S, NEW x \in S
    PROVE  <<x>> \in Seq(S) /\ <<>> \in Seq(S)
  OBVIOUS

\* What the strand is about to run, and the word numbers of its batch.
LEMMA Running ==
    ASSUME ExecOk, NEW k, StrandRuns(k)
    PROVE  /\ strand # <<>> /\ Head(strand) = strand[1] /\ 1 \in DOMAIN strand
           /\ Head(strand) \in StrandTasks /\ Head(strand).k = k
           /\ k \in {"upsert", "delete", "batch"} => Head(strand).f \in Files
           /\ k = "upsert" => Head(strand).v \in 1 .. MaxWrites
           /\ k = "batch" => /\ Head(strand).words \in SUBSET Words
                             /\ Head(strand).point \in BOOLEAN
           /\ k = "erase" => Head(strand).erase \in SUBSET Files
  BY HeadTask, StrandFields DEF StrandRuns

\* The executors after a handler of the strand that posts nothing.
LEMMA StrandIsDone ==
    ASSUME ExecOk, strand # <<>>, StrandDone(<<>>)
    PROVE  /\ ExecOk' /\ strand' = Tail(strand) /\ pool' = pool
           /\ \A i \in DOMAIN strand' : i + 1 \in DOMAIN strand /\ strand'[i] = strand[i + 1]
  <1>1. <<>> \in Seq(PoolTasks)
    BY EmptySeq
  <1>2. pool \o <<>> = pool
    BY ConcatEmptySeq DEF ExecOk
  <1> QED  BY <1>1, <1>2, StrandEnds

\* What a pool thread is about to run.
LEMMA RunningInPool ==
    ASSUME ExecOk, NEW i \in DOMAIN pool
    PROVE  /\ pool[i] \in PoolTasks
           /\ pool[i].k \in {"index", "commit"}
           /\ pool[i].f \in Files /\ pool[i].point \in BOOLEAN
           /\ pool[i].k = "commit" => pool[i].wids \in SUBSET Wids
  BY PoolFields DEF ExecOk

\* The commit that follows a batch.
LEMMA CommitOfBatch ==
    ASSUME DictOk, NEW f \in Files, NEW W \in SUBSET Words, NEW pt \in BOOLEAN
    PROVE  /\ WidsOf(W, WithWords(W)) \in SUBSET Wids
           /\ CommitTask(f, WidsOf(W, WithWords(W)), pt) \in PoolTasks
           /\ <<CommitTask(f, WidsOf(W, WithWords(W)), pt)>> \in Seq(PoolTasks)
  <1>1. WidsOf(W, WithWords(W)) \in SUBSET Wids
    BY NewWords, NumbersFit DEF WidsOf
  <1>2. CommitTask(f, WidsOf(W, WithWords(W)), pt) \in PoolTasks
    BY <1>1, Posts
  <1> QED  BY <1>1, <1>2

\* The handlers a caller under updateMutex may post.
LEMMA CallerPosts ==
    ASSUME DiskOk, CallOk, NEW c \in Callers, cpc[c] = "locked"
    PROVE  /\ cop[c][1] \in Files
           /\ DeleteTask(cop[c][1]) \in StrandTasks
           /\ disk[cop[c][1]] # Absent =>
                 UpsertTask(cop[c][1], disk[cop[c][1]].ver) \in StrandTasks
  <1>1. cop[c][1] \in Files
    BY DEF CallOk
  <1>2. disk[cop[c][1]] # Absent => disk[cop[c][1]].ver \in 1 .. MaxWrites
    BY <1>1, IndexAssumption DEF DiskOk
  <1> QED  BY <1>1, <1>2, Posts

\* The files a full update dispatches.
LEMMA Dispatched ==
    ASSUME ExecOk, UpdateOk, UpdateDispatch
    PROVE  /\ ExecOk' /\ strand' = strand
           /\ \A i \in DOMAIN pool' :
                 \/ i \in DOMAIN pool /\ pool'[i] = pool[i]
                 \/ \E f \in Files : pool'[i] = IndexTask(f, FALSE)
  <1> DEFINE T  == {IndexTask(f, FALSE) : f \in toIndex}
             ts == SetToSeq(T)
             im == [f \in toIndex |-> IndexTask(f, FALSE)]
  <1>1. pool' = pool \o ts /\ active' = active + Len(ts) /\ strand' = strand
    BY DEF UpdateDispatch
  <1>2. IsFiniteSet(T)
    <2>1. IsFiniteSet(toIndex)
      BY IndexAssumption, FS_Subset DEF UpdateOk
    <2>2. im \in Surjection(toIndex, T)
      BY DEF Surjection
    <2> HIDE DEF T, im
    <2> QED  BY <2>1, <2>2, FS_Surjection
  <1>3. T \subseteq PoolTasks
    BY Posts DEF UpdateOk
  <1>4. ts \in Seq(T)
    BY <1>2, Listed
  <1>5. ts \in Seq(PoolTasks) /\ Len(ts) \in Nat /\ DOMAIN ts = 1 .. Len(ts)
        /\ \A j \in DOMAIN ts : ts[j] \in T
    <2> HIDE DEF T, ts
    <2> QED  BY <1>3, <1>4, SeqMonotonic, LenProperties, ElementOfSeq
  <1> HIDE DEF T, ts
  <1>6. /\ pool' \in Seq(PoolTasks) /\ Len(pool') = Len(pool) + Len(ts)
        /\ \A i \in 1 .. Len(pool) + Len(ts) : pool'[i] =
              IF i <= Len(pool) THEN pool[i] ELSE ts[i - Len(pool)]
        /\ DOMAIN pool' = 1 .. Len(pool') /\ DOMAIN pool = 1 .. Len(pool)
        /\ Len(pool) \in Nat
    BY <1>1, <1>5, ConcatProperties, LenProperties DEF ExecOk
  <1>7. ExecOk'
    BY <1>1, <1>5, <1>6, LenProperties DEF ExecOk
  <1>8. ASSUME NEW i \in DOMAIN pool'
        PROVE  \/ i \in DOMAIN pool /\ pool'[i] = pool[i]
               \/ \E f \in Files : pool'[i] = IndexTask(f, FALSE)
    <2>0. i \in 1 .. Len(pool) + Len(ts)
      BY <1>6
    <2>1. CASE i <= Len(pool)
      <3>1. i \in DOMAIN pool /\ pool'[i] = pool[i]
        BY <2>0, <2>1, <1>6
      <3> QED  BY <3>1
    <2>2. CASE i > Len(pool)
      <3>1. i - Len(pool) \in DOMAIN ts /\ pool'[i] = ts[i - Len(pool)]
        BY <2>0, <2>2, <1>5, <1>6
      <3>2. pool'[i] \in T
        BY <3>1, <1>5
      <3> QED  BY <3>2 DEF UpdateOk, T
    <2>3. i <= Len(pool) \/ i > Len(pool)
      BY <2>0, <1>5, <1>6
    <2> QED  BY <2>1, <2>2, <2>3
  <1> QED  BY <1>1, <1>7, <1>8

\* The executors: waitForIdle waits for every handler there is.
LEMMA ExecStep ==
    ASSUME DiskOk, CallOk, UpdateOk, ExecOk, DictOk, Next
    PROVE  ExecOk'
  <1>u. ASSUME UNCHANGED <<strand, pool, active>> PROVE ExecOk'
    BY <1>u DEF ExecOk
  <1>EnqueueUpdate. ASSUME NEW c \in Callers, EnqueueUpdate(c) PROVE ExecOk'
    BY <1>EnqueueUpdate, CallerPosts, StrandPosted, <1>u DEF EnqueueUpdate,
       execVars
  <1>EnqueueDeletion. ASSUME NEW c \in Callers, EnqueueDeletion(c) PROVE ExecOk'
    BY <1>EnqueueDeletion, CallerPosts, StrandPosted, <1>u DEF EnqueueDeletion,
       execVars
  <1>StrandUpsert. ASSUME StrandUpsert PROVE ExecOk'
    <2> DEFINE f == Head(strand).f
    <2>1. f \in Files /\ strand # <<>>
      BY <1>StrandUpsert, Running DEF StrandUpsert
    <2>2. <<IndexTask(f, TRUE)>> \in Seq(PoolTasks) /\ <<>> \in Seq(PoolTasks)
      <3>1. IndexTask(f, TRUE) \in PoolTasks
        BY <2>1, Posts
      <3> QED  BY <3>1, OneOf
    <2>3. StrandDone(<<IndexTask(f, TRUE)>>) \/ StrandDone(<<>>)
      BY <1>StrandUpsert DEF StrandUpsert
    <2> QED  BY <2>1, <2>2, <2>3, StrandEnds
  <1>StrandDelete. ASSUME StrandDelete PROVE ExecOk'
    BY <1>StrandDelete, StrandIsDone DEF StrandDelete, execVars, StrandRuns
  <1>StrandEmptyBatch. ASSUME StrandEmptyBatch PROVE ExecOk'
    BY <1>StrandEmptyBatch, StrandIsDone DEF StrandEmptyBatch, execVars,
       StrandRuns
  <1>StrandBatch. ASSUME StrandBatch PROVE ExecOk'
    <2> DEFINE t == Head(strand)
               w == WidsOf(t.words, WithWords(t.words))
    <2>1. t.f \in Files /\ t.words \in SUBSET Words /\ t.point \in BOOLEAN /\ strand # <<>>
      BY <1>StrandBatch, Running DEF StrandBatch
    <2>2. <<CommitTask(t.f, w, t.point)>> \in Seq(PoolTasks) /\ <<>> \in Seq(PoolTasks)
      BY <2>1, CommitOfBatch
    <2>3. StrandDone(<<CommitTask(t.f, w, t.point)>>) \/ StrandDone(<<>>)
      BY <1>StrandBatch DEF StrandBatch
    <2> QED  BY <2>1, <2>2, <2>3, StrandEnds
  <1>StrandErase. ASSUME StrandErase PROVE ExecOk'
    BY <1>StrandErase, StrandIsDone DEF StrandErase, execVars, StrandRuns
  <1>StrandShrink. ASSUME StrandShrink PROVE ExecOk'
    BY <1>StrandShrink, StrandIsDone DEF StrandShrink, execVars, StrandRuns
  <1>StrandCompactSkip. ASSUME StrandCompactSkip PROVE ExecOk'
    BY <1>StrandCompactSkip, StrandIsDone DEF StrandCompactSkip, execVars,
       StrandRuns
  <1>StrandCompactEnd. ASSUME StrandCompactEnd PROVE ExecOk'
    BY <1>StrandCompactEnd, StrandIsDone DEF StrandCompactEnd, execVars,
       StrandRuns
  <1>PoolIndex. ASSUME NEW n \in DOMAIN pool, PoolIndex(n) PROVE ExecOk'
    <2> DEFINE b == BatchTask(pool[n].f, disk[pool[n].f].words, pool[n].point)
    <2>1. pool[n].f \in Files /\ pool[n].point \in BOOLEAN
      BY RunningInPool
    <2>2. disk[pool[n].f].words \in SUBSET Words
      BY <2>1 DEF DiskOk
    <2>3. <<b>> \in Seq(StrandTasks)
      BY <2>1, <2>2, Posts
    <2>4. PoolDone(n, <<b>>)
      BY <1>PoolIndex DEF PoolIndex
    <2> HIDE DEF b
    <2> QED  BY <2>3, <2>4, PoolEnds
  <1>PoolIndexFails. ASSUME NEW n \in DOMAIN pool, PoolIndexFails(n) PROVE
     ExecOk'
    BY <1>PoolIndexFails, PoolEnds, EmptySeq DEF PoolIndexFails, execVars
  <1>PoolCommit. ASSUME NEW n \in DOMAIN pool, PoolCommit(n) PROVE ExecOk'
    BY <1>PoolCommit, PoolEnds, EmptySeq DEF PoolCommit, execVars
  <1>UpdateScan. ASSUME UpdateScan PROVE ExecOk'
    <2>1. ASSUME NEW e, NEW r, e \in SUBSET Files, r \in SUBSET Files,
                 PostStrand(EraseTask(e, r))
          PROVE  ExecOk'
      BY <2>1, Posts, StrandPosted
    <2> DEFINE added   == {f \in scanned : ~catalog[f].known}
               updated == {f \in scanned \ added : Changed(f, disk[f].ver)}
               removed == {f \in Files \ scanned : catalog[f].known /\ ~catalog[f].deleted}
    <2>2. UNCHANGED execVars \/ PostStrand(EraseTask(updated, removed))
      BY <1>UpdateScan DEF UpdateScan
    <2>3. updated \in SUBSET Files /\ removed \in SUBSET Files
      BY DEF UpdateOk
    <2> HIDE DEF updated, removed
    <2> QED  BY <1>u, <2>1, <2>2, <2>3 DEF execVars
  <1>UpdateDispatch. ASSUME UpdateDispatch PROVE ExecOk'
    BY <1>UpdateDispatch, Dispatched DEF UpdateDispatch, execVars
  <1>UpdateFutures. ASSUME UpdateFutures PROVE ExecOk'
    BY <1>UpdateFutures, StrandPosted, Posts DEF UpdateFutures, execVars
  <1>UpdateCompact. ASSUME UpdateCompact PROVE ExecOk'
    BY <1>UpdateCompact, StrandPosted, Posts, <1>u DEF UpdateCompact, execVars
  <1>o. \/ UNCHANGED <<strand, pool, active>>
        \/ (\E c \in Callers : EnqueueUpdate(c)) \/ (\E c \in Callers :
           EnqueueDeletion(c)) \/ StrandUpsert \/ StrandDelete \/
           StrandEmptyBatch \/ StrandBatch \/ StrandErase \/ StrandShrink \/
           StrandCompactSkip \/ StrandCompactEnd \/ (\E n \in DOMAIN pool :
           PoolIndex(n)) \/ (\E n \in DOMAIN pool : PoolIndexFails(n)) \/ (\E n
           \in DOMAIN pool : PoolCommit(n)) \/ UpdateScan \/ UpdateDispatch \/
           UpdateFutures \/ UpdateCompact
    BY DEF Next, Environment, CallerStep, StrandStep, PoolStep, MirrorStep,
       UpdateStep, StopStep, WriteFile, Notified, RemoveFile, MirrorFails,
       PointBegin, Call, TryLock, GoTo, Defer, Return, DeferInsert,
       DeferRecheck, StrandCompactBegin, MirrorWrites, UpdateBegin, UpdateLock,
       UpdateWait, UpdateScanThrows, UpdateTimeout, UpdateFlush, UpdateUnlock,
       UpdateDrain, UpdateReplay, UpdateSave, StopServer, StopIndex, StopClear,
       StopWait, execVars
  <1> QED  BY <1>u, <1>o, <1>EnqueueUpdate, <1>EnqueueDeletion, <1>StrandUpsert,
           <1>StrandDelete, <1>StrandEmptyBatch, <1>StrandBatch, <1>StrandErase,
           <1>StrandShrink, <1>StrandCompactSkip, <1>StrandCompactEnd,
           <1>PoolIndex, <1>PoolIndexFails, <1>PoolCommit, <1>UpdateScan,
           <1>UpdateDispatch, <1>UpdateFutures, <1>UpdateCompact

\* flushPending and writeFile: a row that is there stays, a durable one stays
\* durable.
LEMMA MirrorOps ==
    ASSUME StoreOk
    PROVE  /\ Flushed(mirror) \in [Files -> {"none", "queued", "durable"}]
           /\ \A g \in Files :
                 /\ mirror[g] = "durable" => Flushed(mirror)[g] = "durable"
                 /\ mirror[g] # "none" => Flushed(mirror)[g] # "none"
           /\ \A f \in Files, pt \in BOOLEAN :
                 /\ Written(f, pt) \in [Files -> {"none", "queued", "durable"}]
                 /\ Written(f, pt)[f] # "none"
                 /\ pt => Written(f, pt)[f] = "durable"
                 /\ \A g \in Files :
                       /\ mirror[g] = "durable" => Written(f, pt)[g] = "durable"
                       /\ mirror[g] # "none" => Written(f, pt)[g] # "none"
  <1>1. /\ Flushed(mirror) \in [Files -> {"none", "queued", "durable"}]
        /\ \A g \in Files :
              /\ mirror[g] = "durable" => Flushed(mirror)[g] = "durable"
              /\ mirror[g] # "none" => Flushed(mirror)[g] # "none"
    BY DEF Flushed, StoreOk
  <1>2. ASSUME NEW f \in Files
        PROVE  /\ Written(f, TRUE) \in [Files -> {"none", "queued", "durable"}]
               /\ Written(f, TRUE)[f] = "durable"
               /\ \A g \in Files :
                    /\ mirror[g] = "durable" => Written(f, TRUE)[g] = "durable"
                    /\ mirror[g] # "none" => Written(f, TRUE)[g] # "none"
    BY <1>1 DEF Written
  <1>3. ASSUME NEW f \in Files
        PROVE  /\ Written(f, FALSE) \in [Files -> {"none", "queued", "durable"}]
               /\ Written(f, FALSE)[f] # "none"
               /\ \A g \in Files :
                    /\ mirror[g] = "durable" => Written(f, FALSE)[g] = "durable"
                    /\ mirror[g] # "none" => Written(f, FALSE)[g] # "none"
    BY DEF Written, StoreOk
  <1> QED  BY <1>1, <1>2, <1>3

\* The catalog and the mirror.
LEMMA StoreStep ==
    ASSUME DiskOk, StoreOk, UpdateOk, ExecOk, Next
    PROVE  StoreOk'
  <1>u. ASSUME UNCHANGED <<catalog, mirror, writerError, storageFailure>> PROVE StoreOk'
    BY <1>u DEF StoreOk
  <1>MirrorFails. ASSUME MirrorFails PROVE StoreOk'
    BY <1>MirrorFails DEF MirrorFails, indexVars, storeVars, StoreOk
  <1>StrandUpsert. ASSUME StrandUpsert PROVE StoreOk'
    BY <1>StrandUpsert, Running DEF StrandUpsert, indexVars, storeVars, StoreOk,
       Recorded, StrandRuns
  <1>StrandDelete. ASSUME StrandDelete PROVE StoreOk'
    <2>1. Head(strand).f \in Files
      BY <1>StrandDelete, Running DEF StrandDelete
    <2>2. [catalog EXCEPT ![Head(strand).f].deleted = TRUE] \in
             [Files -> [known : BOOLEAN, ver : 0 .. MaxWrites, deleted : BOOLEAN]]
      BY <2>1 DEF StoreOk
    <2> QED  BY <1>StrandDelete, <2>2, MirrorOps DEF StrandDelete, StoreOk
  <1>StrandBatch. ASSUME StrandBatch PROVE StoreOk'
    BY <1>StrandBatch, Running, MirrorOps DEF StrandBatch, indexVars, storeVars,
       StoreOk
  <1>MirrorWrites. ASSUME NEW f \in Files, MirrorWrites(f) PROVE StoreOk'
    BY <1>MirrorWrites DEF MirrorWrites, indexVars, storeVars, StoreOk
  <1>UpdateScan. ASSUME UpdateScan PROVE StoreOk'
    BY <1>UpdateScan DEF UpdateScan, indexVars, storeVars, StoreOk, Recorded,
       Seen, Missing, DiskOk, UpdateOk
  <1>UpdateScanThrows. ASSUME UpdateScanThrows PROVE StoreOk'
    BY <1>UpdateScanThrows DEF UpdateScanThrows, indexVars, storeVars, StoreOk,
       Recorded, Seen, DiskOk, UpdateOk
  <1>UpdateFlush. ASSUME UpdateFlush PROVE StoreOk'
    BY <1>UpdateFlush, MirrorOps DEF UpdateFlush, indexVars, storeVars, StoreOk
  <1>UpdateSave. ASSUME UpdateSave PROVE StoreOk'
    BY <1>UpdateSave, MirrorOps DEF UpdateSave, indexVars, storeVars, StoreOk
  <1>StopWait. ASSUME StopWait PROVE StoreOk'
    BY <1>StopWait, MirrorOps DEF StopWait, indexVars, storeVars, StoreOk
  <1>o. \/ UNCHANGED <<catalog, mirror, writerError, storageFailure>>
        \/ MirrorFails \/ StrandUpsert \/ StrandDelete \/ StrandBatch \/ (\E f
           \in Files : MirrorWrites(f)) \/ UpdateScan \/ UpdateScanThrows \/
           UpdateFlush \/ UpdateSave \/ StopWait
    BY DEF Next, Environment, CallerStep, StrandStep, PoolStep, MirrorStep,
       UpdateStep, StopStep, WriteFile, Notified, RemoveFile, PointBegin, Call,
       TryLock, GoTo, EnqueueUpdate, Return, PostStrand, EnqueueDeletion, Defer,
       DeferInsert, DeferRecheck, StrandEmptyBatch, StrandDone, Settle,
       StrandErase, EraseDocs, StrandShrink, StrandCompactSkip,
       StrandCompactBegin, StrandCompactEnd, PoolIndex, PoolDone,
       PoolIndexFails, PoolCommit, UpdateBegin, UpdateLock, UpdateWait,
       UpdateDispatch, UpdateTimeout, UpdateFutures, UpdateUnlock, UpdateDrain,
       UpdateReplay, UpdateCompact, StopServer, StopIndex, StopClear, indexVars,
       storeVars
  <1> QED  BY <1>u, <1>o, <1>MirrorFails, <1>StrandUpsert, <1>StrandDelete,
           <1>StrandBatch, <1>MirrorWrites, <1>UpdateScan, <1>UpdateScanThrows,
           <1>UpdateFlush, <1>UpdateSave, <1>StopWait

\* Once there is a row it stays, and once it is durable it stays durable, until
\* the writer fails and drops what is queued.
RowsStay == /\ writerError => writerError'
            /\ \A f \in Files :
                 /\ mirror[f] = "durable" => mirror'[f] = "durable"
                 /\ mirror[f] # "none" /\ ~writerError' => mirror'[f] # "none"

\* The rows of the mirror.
LEMMA RowStep ==
    ASSUME StoreOk, ExecOk, Next
    PROVE  RowsStay
  <1>u. ASSUME UNCHANGED <<mirror, writerError>> PROVE RowsStay
    BY <1>u DEF RowsStay
  <1>MirrorFails. ASSUME MirrorFails PROVE RowsStay
    BY <1>MirrorFails DEF MirrorFails, storeVars, RowsStay, StoreOk
  <1>StrandDelete. ASSUME StrandDelete PROVE RowsStay
    BY <1>StrandDelete, Running, MirrorOps DEF StrandDelete, storeVars, RowsStay
  <1>StrandBatch. ASSUME StrandBatch PROVE RowsStay
    BY <1>StrandBatch, Running, MirrorOps DEF StrandBatch, storeVars, RowsStay
  <1>MirrorWrites. ASSUME NEW f \in Files, MirrorWrites(f) PROVE RowsStay
    BY <1>MirrorWrites DEF MirrorWrites, storeVars, RowsStay, StoreOk
  <1>UpdateFlush. ASSUME UpdateFlush PROVE RowsStay
    BY <1>UpdateFlush, MirrorOps DEF UpdateFlush, storeVars, RowsStay
  <1>UpdateSave. ASSUME UpdateSave PROVE RowsStay
    BY <1>UpdateSave, MirrorOps DEF UpdateSave, storeVars, RowsStay
  <1>StopWait. ASSUME StopWait PROVE RowsStay
    BY <1>StopWait, MirrorOps DEF StopWait, storeVars, RowsStay
  <1>o. \/ UNCHANGED <<mirror, writerError>>
        \/ MirrorFails \/ StrandDelete \/ StrandBatch \/ (\E f \in Files :
           MirrorWrites(f)) \/ UpdateFlush \/ UpdateSave \/ StopWait
    BY DEF Next, Environment, CallerStep, StrandStep, PoolStep, MirrorStep,
       UpdateStep, StopStep, WriteFile, Notified, RemoveFile, PointBegin, Call,
       TryLock, GoTo, EnqueueUpdate, Return, PostStrand, EnqueueDeletion, Defer,
       DeferInsert, DeferRecheck, StrandUpsert, EraseDocs, StrandDone,
       StrandEmptyBatch, Settle, StrandErase, StrandShrink, StrandCompactSkip,
       StrandCompactBegin, StrandCompactEnd, PoolIndex, PoolDone,
       PoolIndexFails, PoolCommit, UpdateBegin, UpdateLock, UpdateWait,
       UpdateScan, UpdateScanThrows, UpdateDispatch, UpdateTimeout,
       UpdateFutures, UpdateUnlock, UpdateDrain, UpdateReplay, UpdateCompact,
       StopServer, StopIndex, StopClear, storeVars
  <1> QED  BY <1>u, <1>o, <1>MirrorFails, <1>StrandDelete, <1>StrandBatch,
           <1>MirrorWrites, <1>UpdateFlush, <1>UpdateSave, <1>StopWait

\* updateMutex: try_lock, the updater's lock and compact's try_lock keep one
\* another out.
LEMMA MutexStep ==
    ASSUME CallOk, UpdateOk, ExecOk, DictOk, MutexOk, SignalOk, Next
    PROVE  MutexOk'
  <1> USE IndexAssumption
  <1>u. ASSUME UNCHANGED <<updateMutex, cpc, upc>> PROVE MutexOk'
    BY <1>u DEF MutexOk
  <1>PointBegin. ASSUME NEW w \in Watchers, NEW f \in Files, NEW kind \in Kinds,
     PointBegin(w, f, kind) PROVE MutexOk'
    BY <1>PointBegin DEF PointBegin, Call, facadeVars, callVars, updateVars,
       MutexOk, CallOk, Callers
  <1>TryLock. ASSUME NEW c \in Callers, TryLock(c) PROVE MutexOk'
    BY <1>TryLock DEF TryLock, GoTo, facadeVars, callVars, updateVars, MutexOk,
       CallOk, Locked, Callers
  <1>EnqueueUpdate. ASSUME NEW c \in Callers, EnqueueUpdate(c) PROVE MutexOk'
    BY <1>EnqueueUpdate DEF EnqueueUpdate, facadeVars, callVars, updateVars,
       MutexOk, Return, CallOk, Locked, Callers
  <1>EnqueueDeletion. ASSUME NEW c \in Callers, EnqueueDeletion(c) PROVE
     MutexOk'
    BY <1>EnqueueDeletion DEF EnqueueDeletion, facadeVars, callVars, updateVars,
       MutexOk, Return, CallOk, Locked, Callers
  <1>Defer. ASSUME NEW c \in Callers, Defer(c) PROVE MutexOk'
    <2>1. UNCHANGED <<updateMutex, upc>> /\ cpc[c] = "defer"
      BY <1>Defer DEF Defer, facadeVars, updateVars
    <2>2. \E l \in {"idle", "insert"} : cpc' = [cpc EXCEPT ![c] = l]
      BY <1>Defer DEF Defer, GoTo, Return
    <2> QED  BY <2>1, <2>2 DEF MutexOk, CallOk
  <1>DeferInsert. ASSUME NEW c \in Callers, DeferInsert(c) PROVE MutexOk'
    BY <1>DeferInsert DEF DeferInsert, GoTo, facadeVars, callVars, updateVars,
       MutexOk, CallOk
  <1>DeferRecheck. ASSUME NEW c \in Callers, DeferRecheck(c) PROVE MutexOk'
    BY <1>DeferRecheck DEF DeferRecheck, Return, facadeVars, callVars,
       updateVars, MutexOk, CallOk
  <1>StrandErase. ASSUME StrandErase PROVE MutexOk'
    BY <1>StrandErase, Running DEF StrandErase, facadeVars, callVars,
       updateVars, MutexOk, SignalOk, Locked
  <1>StrandShrink. ASSUME StrandShrink PROVE MutexOk'
    BY <1>StrandShrink, Running DEF StrandShrink, facadeVars, callVars,
       updateVars, MutexOk, SignalOk, Locked
  <1>StrandCompactBegin. ASSUME StrandCompactBegin PROVE MutexOk'
    BY <1>StrandCompactBegin DEF StrandCompactBegin, facadeVars, callVars,
       updateVars, MutexOk, Locked, CompactDue, Callers
  <1>StrandCompactEnd. ASSUME StrandCompactEnd PROVE MutexOk'
    BY <1>StrandCompactEnd DEF StrandCompactEnd, facadeVars, callVars,
       updateVars, MutexOk, Locked, Callers
  <1>UpdateBegin. ASSUME UpdateBegin PROVE MutexOk'
    BY <1>UpdateBegin DEF UpdateBegin, facadeVars, callVars, updateVars,
       MutexOk, Locked
  <1>UpdateLock. ASSUME UpdateLock PROVE MutexOk'
    BY <1>UpdateLock DEF UpdateLock, facadeVars, callVars, updateVars, MutexOk,
       Locked, Callers
  <1>UpdateWait. ASSUME UpdateWait PROVE MutexOk'
    BY <1>UpdateWait DEF UpdateWait, facadeVars, callVars, updateVars, MutexOk,
       Locked
  <1>UpdateScan. ASSUME UpdateScan PROVE MutexOk'
    BY <1>UpdateScan DEF UpdateScan, PostStrand, facadeVars, callVars,
       updateVars, MutexOk, Locked
  <1>UpdateScanThrows. ASSUME UpdateScanThrows PROVE MutexOk'
    BY <1>UpdateScanThrows DEF UpdateScanThrows, facadeVars, callVars,
       updateVars, MutexOk, Locked
  <1>UpdateDispatch. ASSUME UpdateDispatch PROVE MutexOk'
    BY <1>UpdateDispatch DEF UpdateDispatch, facadeVars, callVars, updateVars,
       MutexOk, Locked
  <1>UpdateFutures. ASSUME UpdateFutures PROVE MutexOk'
    BY <1>UpdateFutures DEF UpdateFutures, PostStrand, facadeVars, callVars,
       updateVars, MutexOk, Locked
  <1>UpdateFlush. ASSUME UpdateFlush PROVE MutexOk'
    BY <1>UpdateFlush DEF UpdateFlush, facadeVars, callVars, updateVars,
       MutexOk, Locked
  <1>UpdateUnlock. ASSUME UpdateUnlock PROVE MutexOk'
    BY <1>UpdateUnlock DEF UpdateUnlock, facadeVars, callVars, updateVars,
       MutexOk, Locked, Callers
  <1>UpdateDrain. ASSUME UpdateDrain PROVE MutexOk'
    BY <1>UpdateDrain DEF UpdateDrain, facadeVars, callVars, updateVars,
       MutexOk, Locked
  <1>UpdateReplay. ASSUME NEW f \in Files, UpdateReplay(f) PROVE MutexOk'
    BY <1>UpdateReplay DEF UpdateReplay, Call, facadeVars, callVars, updateVars,
       MutexOk, CallOk, Locked, Callers
  <1>UpdateCompact. ASSUME UpdateCompact PROVE MutexOk'
    BY <1>UpdateCompact DEF UpdateCompact, facadeVars, callVars, updateVars,
       MutexOk, Locked
  <1>UpdateSave. ASSUME UpdateSave PROVE MutexOk'
    BY <1>UpdateSave DEF UpdateSave, facadeVars, callVars, updateVars, MutexOk,
       Locked
  <1>o. \/ UNCHANGED <<updateMutex, cpc, upc>>
        \/ (\E w \in Watchers, f \in Files, kind \in Kinds : PointBegin(w, f,
           kind)) \/ (\E c \in Callers : TryLock(c)) \/ (\E c \in Callers :
           EnqueueUpdate(c)) \/ (\E c \in Callers : EnqueueDeletion(c)) \/ (\E c
           \in Callers : Defer(c)) \/ (\E c \in Callers : DeferInsert(c)) \/ (\E
           c \in Callers : DeferRecheck(c)) \/ StrandErase \/ StrandShrink \/
           StrandCompactBegin \/ StrandCompactEnd \/ UpdateBegin \/ UpdateLock
           \/ UpdateWait \/ UpdateScan \/ UpdateScanThrows \/ UpdateDispatch \/
           UpdateFutures \/ UpdateFlush \/ UpdateUnlock \/ UpdateDrain \/ (\E f
           \in Files : UpdateReplay(f)) \/ UpdateCompact \/ UpdateSave
    BY DEF Next, Environment, CallerStep, StrandStep, PoolStep, MirrorStep,
       UpdateStep, StopStep, WriteFile, Notified, RemoveFile, MirrorFails,
       StrandUpsert, EraseDocs, StrandDone, StrandDelete, StrandEmptyBatch,
       Settle, StrandBatch, StrandCompactSkip, PoolIndex, PoolDone,
       PoolIndexFails, PoolCommit, MirrorWrites, UpdateTimeout, StopServer,
       StopIndex, StopClear, StopWait, facadeVars, callVars, updateVars
  <1> QED  BY <1>u, <1>o, <1>PointBegin, <1>TryLock, <1>EnqueueUpdate,
           <1>EnqueueDeletion, <1>Defer, <1>DeferInsert, <1>DeferRecheck,
           <1>StrandErase, <1>StrandShrink, <1>StrandCompactBegin,
           <1>StrandCompactEnd, <1>UpdateBegin, <1>UpdateLock, <1>UpdateWait,
           <1>UpdateScan, <1>UpdateScanThrows, <1>UpdateDispatch,
           <1>UpdateFutures, <1>UpdateFlush, <1>UpdateUnlock, <1>UpdateDrain,
           <1>UpdateReplay, <1>UpdateCompact, <1>UpdateSave

\* The executors after a handler of the pool that posts nothing.
LEMMA PoolIsDone ==
    ASSUME ExecOk, NEW n \in DOMAIN pool, PoolDone(n, <<>>)
    PROVE  /\ strand' = strand
           /\ \A i \in DOMAIN pool' : \E j \in DOMAIN pool : pool'[i] = pool[j]
  <1>1. <<>> \in Seq(StrandTasks)
    BY EmptySeq
  <1>2. strand \o <<>> = strand
    BY ConcatEmptySeq DEF ExecOk
  <1> QED  BY <1>1, <1>2, PoolEnds

\* The executors after fileIndexing: its batch is in the strand.
LEMMA BatchPosted ==
    ASSUME DiskOk, ExecOk, NEW n \in DOMAIN pool, PoolIndex(n)
    PROVE  /\ strand # <<>> => strand' # <<>> /\ Head(strand') = Head(strand)
           /\ \A i \in DOMAIN pool' : \E j \in DOMAIN pool : pool'[i] = pool[j]
           /\ \A i \in DOMAIN strand' :
                 \/ i \in DOMAIN strand /\ strand'[i] = strand[i]
                 \/ strand'[i].k = "batch" /\ strand'[i].point = pool[n].point
  <1> DEFINE b == BatchTask(pool[n].f, disk[pool[n].f].words, pool[n].point)
  <1>1. pool[n].f \in Files /\ pool[n].point \in BOOLEAN
    BY RunningInPool
  <1>2. disk[pool[n].f].words \in SUBSET Words
    BY <1>1 DEF DiskOk
  <1>3. b \in StrandTasks /\ b.k = "batch" /\ b.point = pool[n].point
    BY <1>1, <1>2, Posts DEF BatchTask
  <1>4. PoolDone(n, <<b>>)
    BY DEF PoolIndex
  <1> HIDE DEF b
  <1>5. <<b>> \in Seq(StrandTasks) /\ \A j \in DOMAIN <<b>> : <<b>>[j] = b
    BY <1>3
  <1> QED  BY <1>3, <1>4, <1>5, PoolEnds

\* safeEraseFileInternal only empties postings.
LEMMA Erased ==
    ASSUME DictOk, RefsOk, NEW E \in SUBSET Files, EraseDocs(E)
    PROVE  /\ chunks' \in [Wids -> [Files -> Nat]]
           /\ \A i \in Wids, f \in Files : chunks'[i][f] \in {0, chunks[i][f]}
           /\ RefsOk'
  <1>1. chunks' = [i \in Wids |-> [f \in Files |->
                    IF f \in E /\ i \in ErasedWids(f) THEN 0 ELSE chunks[i][f]]]
    BY DEF EraseDocs
  <1>2. \A i \in Wids, f \in Files :
           chunks'[i][f] = IF f \in E /\ i \in ErasedWids(f) THEN 0 ELSE chunks[i][f]
    BY <1>1
  <1>3. chunks' \in [Wids -> [Files -> Nat]]
    <2>1. \A i \in Wids : [f \in Files |-> IF f \in E /\ i \in ErasedWids(f) THEN 0
                             ELSE chunks[i][f]] \in [Files -> Nat]
      BY DEF DictOk
    <2> QED  BY <1>1, <2>1
  <1>4. RefsOk'
    BY DEF EraseDocs, RefsOk
  <1> QED  BY <1>2, <1>3, <1>4

\* compact's rebuilt dictionary: every slot is an old one, or empty.
LEMMA Rebuilt ==
    ASSUME DictOk, RefsOk, updateMutex = Strand, StrandCompactEnd
    PROVE  /\ wordIds' \in Seq(Words) /\ IsInjective(wordIds')
           /\ chunks' \in [Wids -> [Files -> Nat]]
           /\ \A i \in Wids : chunks'[i] = NoPostings \/ \E j \in DOMAIN flat : chunks'[i] = flat[j]
           /\ RefsOk'
  <1> DEFINE n == Cardinality(Used)
  <1>1. /\ n \in Nat /\ Kept \in [1 .. n -> Used] /\ Used \subseteq DOMAIN flat
        /\ DOMAIN Kept = 1 .. n /\ IsInjective(Kept)
    BY KeptProperties
  <1>2. /\ Len(wordIds) \in Nat /\ DOMAIN wordIds = 1 .. Len(wordIds)
        /\ DOMAIN flat = DOMAIN wordIds
        /\ \A i \in DOMAIN flat : wordIds[i] \in Words /\ flat[i] \in [Files -> Nat]
    BY DEF DictOk
  <1>3. /\ wordIds' = [j \in DOMAIN Kept |-> wordIds[Kept[j]]]
        /\ chunks' = [j \in Wids |-> IF j \in DOMAIN Kept THEN flat[Kept[j]] ELSE NoPostings]
        /\ wordRefs' = [f \in DOMAIN wordRefs |-> RefsKept(f)]
    BY DEF StrandCompactEnd, WordsKept
  <1> HIDE DEF n
  <1>4. \A j \in 1 .. n : Kept[j] \in DOMAIN flat /\ Kept[j] \in DOMAIN wordIds
    BY <1>1, <1>2
  <1>5. wordIds' \in Seq(Words)
    <2>1. wordIds' \in [1 .. n -> Words]
      BY <1>1, <1>2, <1>3, <1>4
    <2> QED  BY <2>1, <1>1
  <1>6. IsInjective(wordIds')
    <2>1. ASSUME NEW i \in 1 .. n, NEW j \in 1 .. n, wordIds'[i] = wordIds'[j]
          PROVE  i = j
      <3>1. wordIds[Kept[i]] = wordIds[Kept[j]]
        BY <2>1, <1>1, <1>3
      <3>2. Kept[i] = Kept[j]
        BY <3>1, <1>4 DEF DictOk, IsInjective
      <3> QED  BY <3>2, <1>1 DEF IsInjective
    <2>2. DOMAIN wordIds' = 1 .. n
      BY <1>1, <1>3
    <2> QED  BY <2>1, <2>2 DEF IsInjective
  <1>7. NoPostings \in [Files -> Nat]
    BY DEF NoPostings
  <1>8. /\ chunks' \in [Wids -> [Files -> Nat]]
        /\ \A i \in Wids : chunks'[i] = NoPostings \/ \E j \in DOMAIN flat : chunks'[i] = flat[j]
    BY <1>1, <1>2, <1>3, <1>4, <1>7
  <1>9. RefsOk'
    <2>1. DOMAIN Kept \subseteq Wids
      <3>1. DOMAIN wordIds' \subseteq Wids
        BY <1>5, <1>6, NumbersFit
      <3> QED  BY <3>1, <1>3
    <2> QED  BY <1>3, <2>1 DEF RefsOk, RefsKept
  <1> QED  BY <1>5, <1>6, <1>8, <1>9

\* While compact holds updateMutex it is what the strand runs.
LEMMA NotCompacting ==
    ASSUME DictOk, NEW k, StrandRuns(k), k # "compact"
    PROVE  updateMutex # Strand /\ flat = <<>>
  BY DEF DictOk, StrandRuns

\* The dictionary, through erasure, new words, commits and compaction.
LEMMA DictStep ==
    ASSUME DiskOk, CallOk, UpdateOk, ExecOk, DictOk, RefsOk, MutexOk, Next
    PROVE  DictOk'
  <1> USE IndexAssumption
  <1>u. ASSUME UNCHANGED <<wordIds, chunks, flat, updateMutex, strand>> PROVE DictOk'
    BY <1>u DEF DictOk
  <1>TryLock. ASSUME NEW c \in Callers, TryLock(c) PROVE DictOk'
    BY <1>TryLock DEF TryLock, GoTo, indexVars, execVars, facadeVars, DictOk,
       Callers
  <1>EnqueueUpdate. ASSUME NEW c \in Callers, EnqueueUpdate(c) PROVE DictOk'
    <2>1. updateMutex = c /\ c # Strand /\ updateMutex' = Nobody /\ Nobody # Strand
      BY <1>EnqueueUpdate DEF EnqueueUpdate, MutexOk, Callers
    <2> QED  BY <1>EnqueueUpdate, <2>1 DEF EnqueueUpdate, DictOk, indexVars
  <1>EnqueueDeletion. ASSUME NEW c \in Callers, EnqueueDeletion(c) PROVE DictOk'
    <2>1. updateMutex = c /\ c # Strand /\ updateMutex' = Nobody /\ Nobody # Strand
      BY <1>EnqueueDeletion DEF EnqueueDeletion, MutexOk, Callers
    <2> QED  BY <1>EnqueueDeletion, <2>1 DEF EnqueueDeletion, DictOk, indexVars
  <1>StrandUpsert. ASSUME StrandUpsert PROVE DictOk'
    <2>1. UNCHANGED <<wordIds, flat, updateMutex>> /\ updateMutex # Strand
      BY <1>StrandUpsert, NotCompacting DEF StrandUpsert, facadeVars
    <2>2. OldPostings(Head(strand).f) \in SUBSET Files
      BY <1>StrandUpsert, Running DEF StrandUpsert, OldPostings
    <2>3. chunks' \in [Wids -> [Files -> Nat]]
      <3>1. EraseDocs(OldPostings(Head(strand).f)) \/ UNCHANGED chunks
        BY <1>StrandUpsert DEF StrandUpsert
      <3> QED  BY <2>2, <3>1, Erased DEF DictOk
    <2> QED  BY <2>1, <2>3 DEF DictOk
  <1>StrandDelete. ASSUME StrandDelete PROVE DictOk'
    BY <1>StrandDelete, NotCompacting DEF StrandDelete, indexVars, execVars,
       facadeVars, DictOk
  <1>StrandEmptyBatch. ASSUME StrandEmptyBatch PROVE DictOk'
    BY <1>StrandEmptyBatch, NotCompacting DEF StrandEmptyBatch, indexVars,
       execVars, facadeVars, DictOk
  <1>StrandBatch. ASSUME StrandBatch PROVE DictOk'
    <2>1. UNCHANGED <<chunks, flat, updateMutex>> /\ updateMutex # Strand
      BY <1>StrandBatch, NotCompacting DEF StrandBatch, facadeVars
    <2>2. wordIds' = WithWords(Head(strand).words) /\ Head(strand).words \in SUBSET Words
      BY <1>StrandBatch, Running DEF StrandBatch
    <2>3. wordIds' \in Seq(Words) /\ IsInjective(wordIds')
      BY <2>2, NewWords
    <2> QED  BY <2>1, <2>3 DEF DictOk
  <1>StrandErase. ASSUME StrandErase PROVE DictOk'
    <2>1. UNCHANGED <<wordIds, flat, updateMutex>> /\ updateMutex # Strand
      BY <1>StrandErase, NotCompacting DEF StrandErase, facadeVars
    <2>2. chunks' \in [Wids -> [Files -> Nat]]
      BY <1>StrandErase, Running, Erased DEF StrandErase
    <2> QED  BY <2>1, <2>2 DEF DictOk
  <1>StrandShrink. ASSUME StrandShrink PROVE DictOk'
    BY <1>StrandShrink, NotCompacting DEF StrandShrink, indexVars, execVars,
       facadeVars, DictOk
  <1>StrandCompactSkip. ASSUME StrandCompactSkip PROVE DictOk'
    BY <1>StrandCompactSkip DEF StrandCompactSkip, indexVars, execVars,
       facadeVars, DictOk
  <1>StrandCompactBegin. ASSUME StrandCompactBegin PROVE DictOk'
    <2>1. /\ updateMutex' = Strand /\ UNCHANGED <<wordIds, chunks, strand>>
          /\ flat' = [i \in DOMAIN wordIds |-> chunks[i]]
          /\ strand # <<>> /\ Head(strand).k = "compact"
      BY <1>StrandCompactBegin DEF StrandCompactBegin, execVars, StrandRuns
    <2>2. /\ DOMAIN wordIds = 1 .. Len(wordIds) /\ Len(wordIds) \in Nat
          /\ DOMAIN wordIds \subseteq Wids
      BY LenProperties, NumbersFit DEF DictOk
    <2>3. flat' \in [1 .. Len(wordIds) -> [Files -> Nat]]
      BY <2>1, <2>2 DEF DictOk
    <2>4. flat' \in Seq([Files -> Nat]) /\ Len(flat') = Len(wordIds)
      BY <2>2, <2>3
    <2> QED  BY <2>1, <2>4 DEF DictOk
  <1>StrandCompactEnd. ASSUME StrandCompactEnd PROVE DictOk'
    <2>1. flat' = <<>> /\ updateMutex' = Nobody /\ updateMutex = Strand
      BY <1>StrandCompactEnd DEF StrandCompactEnd
    <2> QED  BY <1>StrandCompactEnd, <2>1, Rebuilt DEF DictOk
  <1>PoolIndex. ASSUME NEW n \in DOMAIN pool, PoolIndex(n) PROVE DictOk'
    <2>1. UNCHANGED <<wordIds, chunks, flat, updateMutex>>
      BY <1>PoolIndex DEF PoolIndex, indexVars, facadeVars
    <2>2. strand # <<>> => strand' # <<>> /\ Head(strand') = Head(strand)
      BY <1>PoolIndex, BatchPosted
    <2> QED  BY <2>1, <2>2 DEF DictOk
  <1>PoolIndexFails. ASSUME NEW n \in DOMAIN pool, PoolIndexFails(n) PROVE
     DictOk'
    BY <1>PoolIndexFails, PoolIsDone DEF PoolIndexFails, indexVars, execVars,
       facadeVars, DictOk
  <1>PoolCommit. ASSUME NEW n \in DOMAIN pool, PoolCommit(n) PROVE DictOk'
    <2>1. UNCHANGED <<wordIds, flat, updateMutex, strand>>
      BY <1>PoolCommit, PoolIsDone DEF PoolCommit, facadeVars
    <2>2. chunks' \in [Wids -> [Files -> Nat]]
      <3> DEFINE t == pool[n]
      <3>1. \A j \in Wids : [chunks[j] EXCEPT ![t.f] = IF j \in t.wids THEN @ + 1 ELSE @]
                              \in [Files -> Nat]
        BY RunningInPool DEF DictOk
      <3> QED  BY <1>PoolCommit, <3>1 DEF PoolCommit
    <2> QED  BY <2>1, <2>2 DEF DictOk
  <1>UpdateLock. ASSUME UpdateLock PROVE DictOk'
    BY <1>UpdateLock DEF UpdateLock, indexVars, execVars, facadeVars, DictOk
  <1>UpdateScan. ASSUME UpdateScan PROVE DictOk'
    <2>1. UNCHANGED <<wordIds, chunks, flat, updateMutex>> /\ updateMutex # Strand
      BY <1>UpdateScan DEF UpdateScan, MutexOk, Locked
    <2> QED  BY <2>1 DEF DictOk
  <1>UpdateFutures. ASSUME UpdateFutures PROVE DictOk'
    <2>1. UNCHANGED <<wordIds, chunks, flat, updateMutex>> /\ updateMutex # Strand
      BY <1>UpdateFutures DEF UpdateFutures, MutexOk, Locked, indexVars, facadeVars
    <2> QED  BY <2>1 DEF DictOk
  <1>UpdateUnlock. ASSUME UpdateUnlock PROVE DictOk'
    BY <1>UpdateUnlock DEF UpdateUnlock, indexVars, execVars, facadeVars,
       DictOk, MutexOk, Locked
  <1>UpdateCompact. ASSUME UpdateCompact PROVE DictOk'
    BY <1>UpdateCompact, StrandPosted, Posts DEF UpdateCompact, indexVars,
       execVars, facadeVars, DictOk
  <1>o. \/ UNCHANGED <<wordIds, chunks, flat, updateMutex, strand>>
        \/ (\E c \in Callers : TryLock(c)) \/ (\E c \in Callers :
           EnqueueUpdate(c)) \/ (\E c \in Callers : EnqueueDeletion(c)) \/
           StrandUpsert \/ StrandDelete \/ StrandEmptyBatch \/ StrandBatch \/
           StrandErase \/ StrandShrink \/ StrandCompactSkip \/
           StrandCompactBegin \/ StrandCompactEnd \/ (\E n \in DOMAIN pool :
           PoolIndex(n)) \/ (\E n \in DOMAIN pool : PoolIndexFails(n)) \/ (\E n
           \in DOMAIN pool : PoolCommit(n)) \/ UpdateLock \/ UpdateScan \/
           UpdateFutures \/ UpdateUnlock \/ UpdateCompact
    BY DEF Next, Environment, CallerStep, StrandStep, PoolStep, MirrorStep,
       UpdateStep, StopStep, WriteFile, Notified, RemoveFile, MirrorFails,
       PointBegin, Call, Defer, GoTo, Return, DeferInsert, DeferRecheck,
       MirrorWrites, UpdateBegin, UpdateWait, UpdateScanThrows, UpdateDispatch,
       UpdateTimeout, UpdateFlush, UpdateDrain, UpdateReplay, UpdateSave,
       StopServer, StopIndex, StopClear, StopWait, indexVars, execVars,
       facadeVars
  <1> QED  BY <1>u, <1>o, <1>TryLock, <1>EnqueueUpdate, <1>EnqueueDeletion,
           <1>StrandUpsert, <1>StrandDelete, <1>StrandEmptyBatch,
           <1>StrandBatch, <1>StrandErase, <1>StrandShrink,
           <1>StrandCompactSkip, <1>StrandCompactBegin, <1>StrandCompactEnd,
           <1>PoolIndex, <1>PoolIndexFails, <1>PoolCommit, <1>UpdateLock,
           <1>UpdateScan, <1>UpdateFutures, <1>UpdateUnlock, <1>UpdateCompact

\* The words each document is known to use.
LEMMA RefsStep ==
    ASSUME ExecOk, DictOk, RefsOk, Next
    PROVE  RefsOk'
  <1>u. ASSUME UNCHANGED <<wordRefs>> PROVE RefsOk'
    BY <1>u DEF RefsOk
  <1>StrandUpsert. ASSUME StrandUpsert PROVE RefsOk'
    <2>1. OldPostings(Head(strand).f) \in SUBSET Files
      BY <1>StrandUpsert, Running DEF StrandUpsert, OldPostings
    <2>2. EraseDocs(OldPostings(Head(strand).f)) \/ UNCHANGED wordRefs
      BY <1>StrandUpsert DEF StrandUpsert
    <2> QED  BY <2>1, <2>2, Erased DEF RefsOk
  <1>StrandBatch. ASSUME StrandBatch PROVE RefsOk'
    <2> DEFINE t == Head(strand)
               w == WidsOf(t.words, WithWords(t.words))
    <2>1. t.f \in Files /\ t.words \in SUBSET Words
      BY <1>StrandBatch, Running DEF StrandBatch
    <2>2. w \in SUBSET Wids
      BY <2>1, NewWords, NumbersFit DEF WidsOf
    <2>3. wordRefs' = [f \in DOMAIN wordRefs \cup {t.f} |->
                 (IF f \in DOMAIN wordRefs THEN wordRefs[f] ELSE {})
                 \cup (IF f = t.f THEN w ELSE {})]
      BY <1>StrandBatch DEF StrandBatch
    <2> HIDE DEF t, w
    <2> QED  BY <2>1, <2>2, <2>3 DEF RefsOk
  <1>StrandErase. ASSUME StrandErase PROVE RefsOk'
    BY <1>StrandErase, Running, Erased DEF StrandErase, indexVars
  <1>StrandCompactEnd. ASSUME StrandCompactEnd PROVE RefsOk'
    BY <1>StrandCompactEnd, Rebuilt DEF StrandCompactEnd, indexVars
  <1>o. \/ UNCHANGED <<wordRefs>>
        \/ StrandUpsert \/ StrandBatch \/ StrandErase \/ StrandCompactEnd
    BY DEF Next, Environment, CallerStep, StrandStep, PoolStep, MirrorStep,
       UpdateStep, StopStep, WriteFile, Notified, RemoveFile, MirrorFails,
       PointBegin, Call, TryLock, GoTo, EnqueueUpdate, Return, PostStrand,
       EnqueueDeletion, Defer, DeferInsert, DeferRecheck, StrandDelete,
       StrandDone, StrandEmptyBatch, Settle, StrandShrink, StrandCompactSkip,
       StrandCompactBegin, PoolIndex, PoolDone, PoolIndexFails, PoolCommit,
       MirrorWrites, UpdateBegin, UpdateLock, UpdateWait, UpdateScan,
       UpdateScanThrows, UpdateDispatch, UpdateTimeout, UpdateFutures,
       UpdateFlush, UpdateUnlock, UpdateDrain, UpdateReplay, UpdateCompact,
       UpdateSave, StopServer, StopIndex, StopClear, StopWait, indexVars
  <1> QED  BY <1>u, <1>o, <1>StrandUpsert, <1>StrandBatch, <1>StrandErase,
           <1>StrandCompactEnd

-----------------------------------------------------------------------------
(* Handlers and the full update.                                           *)

\* The places in the strand are numbers.
LEMMA StrandDomain ==
    ASSUME ExecOk'
    PROVE  DOMAIN strand' = 1 .. Len(strand') /\ Len(strand') \in Nat
  BY LenProperties DEF ExecOk

\* The strand after its first handler has ended.
LEMMA TailOfStrand ==
    ASSUME ExecOk, strand # <<>>, strand' = Tail(strand)
    PROVE  \A i \in DOMAIN strand' : i + 1 \in DOMAIN strand /\ strand'[i] = strand[i + 1]
  <1>1. /\ strand' \in Seq(StrandTasks) /\ Len(strand') = Len(strand) - 1
        /\ \A i \in 1 .. Len(strand') : strand'[i] = strand[i + 1]
        /\ DOMAIN strand' = 1 .. Len(strand') /\ DOMAIN strand = 1 .. Len(strand)
        /\ Len(strand) \in Nat \ {0}
    BY HeadTailProperties, LenProperties, EmptySeq DEF ExecOk
  <1> QED  BY <1>1

\* The handler updateDocumentBase posts after the diff.
LEMMA ScanPosts ==
    ASSUME UpdateOk, UpdateScan, ~UNCHANGED strand
    PROVE  \E e \in SUBSET Files, r \in SUBSET Files : PostStrand(EraseTask(e, r))
  <1> DEFINE added   == {f \in scanned : ~catalog[f].known}
             updated == {f \in scanned \ added : Changed(f, disk[f].ver)}
             removed == {f \in Files \ scanned : catalog[f].known /\ ~catalog[f].deleted}
  <1>1. PostStrand(EraseTask(updated, removed))
    BY DEF UpdateScan, execVars
  <1>2. updated \in SUBSET Files /\ removed \in SUBSET Files
    BY DEF UpdateOk
  <1> HIDE DEF updated, removed
  <1> QED  BY <1>1, <1>2

\* The strand has no answer for an updater that does not wait for one.
LEMMA NoAnswer ==
    ASSUME SignalOk, upc \notin {"erasing", "shrink"}
    PROVE  \A i \in DOMAIN strand : strand[i].k \notin Answers
  BY DEF SignalOk, Answers

\* New handlers that are no answers leave SignalOk alone.
LEMMA SignalKept ==
    ASSUME SignalOk, UNCHANGED upc,
           \A i \in DOMAIN strand' :
              \/ i \in DOMAIN strand /\ strand'[i] = strand[i]
              \/ strand'[i].k \notin Answers
    PROVE  SignalOk'
  BY DEF SignalOk, Answers

\* So does the end of a handler.
LEMMA SignalTail ==
    ASSUME ExecOk, ExecOk', SignalOk, UNCHANGED upc,
           \A i \in DOMAIN strand' : i + 1 \in DOMAIN strand /\ strand'[i] = strand[i + 1]
    PROVE  SignalOk'
  <1>1. DOMAIN strand = 1 .. Len(strand) /\ Len(strand) \in Nat
    BY LenProperties DEF ExecOk
  <1>2. \A i \in DOMAIN strand' : i + 1 \in DOMAIN strand /\ strand'[i] = strand[i + 1]
    OBVIOUS
  <1>3. ASSUME NEW i \in DOMAIN strand', NEW j \in DOMAIN strand',
               strand'[i].k \in Answers, strand'[j].k \in Answers
        PROVE  i = j
    <2>1. i + 1 = j + 1
      BY <1>2, <1>3 DEF SignalOk
    <2>2. i \in DOMAIN strand' /\ j \in DOMAIN strand'
      OBVIOUS
    <2> QED  BY <2>1, StrandDomain
  <1>4. \A i \in DOMAIN strand' :
          /\ strand'[i].k = "erase" => upc' = "erasing"
          /\ strand'[i].k = "shrink" => upc' = "shrink"
    BY <1>2 DEF SignalOk
  <1> QED  BY <1>3, <1>4 DEF SignalOk

\* The handler that answers the updater ends, and there is no other.
LEMMA SignalAnswered ==
    ASSUME ExecOk, ExecOk', SignalOk, strand # <<>>, Head(strand).k \in Answers,
           \A i \in DOMAIN strand' : i + 1 \in DOMAIN strand /\ strand'[i] = strand[i + 1]
    PROVE  SignalOk'
  <1>1. /\ 1 \in DOMAIN strand /\ Head(strand) = strand[1]
        /\ DOMAIN strand = 1 .. Len(strand) /\ Len(strand) \in Nat
    BY HeadTask, LenProperties DEF ExecOk
  <1>2. ASSUME NEW i \in DOMAIN strand' PROVE strand'[i].k \notin Answers
    <2>1. i + 1 \in DOMAIN strand /\ strand'[i] = strand[i + 1]
      OBVIOUS
    <2>2. i \in Nat \ {0}
      BY StrandDomain
    <2>3. i + 1 # 1
      BY <2>2
    <2> QED  BY <1>1, <2>1, <2>3 DEF SignalOk
  <1> QED  BY <1>2 DEF SignalOk, Answers

\* The answers to the updater.
LEMMA SignalStep ==
    ASSUME DiskOk, CallOk, UpdateOk, ExecOk, DictOk, SignalOk, ExecOk', Next
    PROVE  SignalOk'
  <1>u. ASSUME UNCHANGED <<strand, upc>> PROVE SignalOk'
    BY <1>u DEF SignalOk
  <1>EnqueueUpdate. ASSUME NEW c \in Callers, EnqueueUpdate(c) PROVE SignalOk'
    <2>1. UNCHANGED upc
      BY <1>EnqueueUpdate DEF EnqueueUpdate, updateVars
    <2>2. CASE UNCHANGED strand
      BY <2>1, <2>2, <1>u
    <2>3. CASE ~UNCHANGED strand
      <3> DEFINE t == UpsertTask(cop[c][1], disk[cop[c][1]].ver)
      <3>1. PostStrand(t) /\ t \in StrandTasks /\ t.k = "upsert"
        BY <1>EnqueueUpdate, <2>3, CallerPosts DEF EnqueueUpdate, execVars, UpsertTask
      <3> HIDE DEF t
      <3>2. t.k \notin Answers
        BY <3>1 DEF Answers
      <3> QED  BY <2>1, <3>1, <3>2, StrandPosted, SignalKept
    <2> QED  BY <2>2, <2>3
  <1>EnqueueDeletion. ASSUME NEW c \in Callers, EnqueueDeletion(c) PROVE
     SignalOk'
    <2>1. UNCHANGED upc
      BY <1>EnqueueDeletion DEF EnqueueDeletion, updateVars
    <2>2. CASE UNCHANGED strand
      BY <2>1, <2>2, <1>u
    <2>3. CASE ~UNCHANGED strand
      <3> DEFINE t == DeleteTask(cop[c][1])
      <3>1. PostStrand(t) /\ t \in StrandTasks /\ t.k = "delete"
        BY <1>EnqueueDeletion, <2>3, CallerPosts DEF EnqueueDeletion, execVars, DeleteTask
      <3> HIDE DEF t
      <3>2. t.k \notin Answers
        BY <3>1 DEF Answers
      <3> QED  BY <2>1, <3>1, <3>2, StrandPosted, SignalKept
    <2> QED  BY <2>2, <2>3
  <1>StrandUpsert. ASSUME StrandUpsert PROVE SignalOk'
    <2>1. UNCHANGED upc /\ strand' = Tail(strand) /\ strand # <<>>
      BY <1>StrandUpsert, Running DEF StrandUpsert, updateVars, StrandDone
    <2> QED  BY <2>1, TailOfStrand, SignalTail
  <1>StrandDelete. ASSUME StrandDelete PROVE SignalOk'
    BY <1>StrandDelete, StrandIsDone, SignalTail DEF StrandDelete, execVars,
       updateVars, StrandRuns
  <1>StrandEmptyBatch. ASSUME StrandEmptyBatch PROVE SignalOk'
    BY <1>StrandEmptyBatch, StrandIsDone, SignalTail DEF StrandEmptyBatch,
       execVars, updateVars, StrandRuns
  <1>StrandBatch. ASSUME StrandBatch PROVE SignalOk'
    <2>1. UNCHANGED upc /\ strand' = Tail(strand) /\ strand # <<>>
      BY <1>StrandBatch, Running DEF StrandBatch, StrandDone
    <2> QED  BY <2>1, TailOfStrand, SignalTail
  <1>StrandErase. ASSUME StrandErase PROVE SignalOk'
    BY <1>StrandErase, Running, StrandIsDone, SignalAnswered DEF StrandErase,
       execVars, updateVars, Answers
  <1>StrandShrink. ASSUME StrandShrink PROVE SignalOk'
    BY <1>StrandShrink, Running, StrandIsDone, SignalAnswered DEF StrandShrink,
       execVars, updateVars, Answers
  <1>StrandCompactSkip. ASSUME StrandCompactSkip PROVE SignalOk'
    BY <1>StrandCompactSkip, StrandIsDone, SignalTail DEF StrandCompactSkip,
       execVars, updateVars, StrandRuns
  <1>StrandCompactEnd. ASSUME StrandCompactEnd PROVE SignalOk'
    BY <1>StrandCompactEnd, StrandIsDone, SignalTail DEF StrandCompactEnd,
       execVars, updateVars, StrandRuns
  <1>PoolIndex. ASSUME NEW n \in DOMAIN pool, PoolIndex(n) PROVE SignalOk'
    <2>1. UNCHANGED upc
      BY <1>PoolIndex DEF PoolIndex, updateVars
    <2>2. "batch" \notin Answers
      BY DEF Answers
    <2> QED  BY <1>PoolIndex, <2>1, <2>2, BatchPosted, SignalKept
  <1>PoolIndexFails. ASSUME NEW n \in DOMAIN pool, PoolIndexFails(n) PROVE
     SignalOk'
    BY <1>PoolIndexFails, PoolIsDone DEF PoolIndexFails, execVars, updateVars,
       SignalOk
  <1>PoolCommit. ASSUME NEW n \in DOMAIN pool, PoolCommit(n) PROVE SignalOk'
    BY <1>PoolCommit, PoolIsDone DEF PoolCommit, execVars, updateVars, SignalOk
  <1>UpdateBegin. ASSUME UpdateBegin PROVE SignalOk'
    BY <1>UpdateBegin, NoAnswer DEF UpdateBegin, execVars, updateVars, SignalOk,
       Answers
  <1>UpdateLock. ASSUME UpdateLock PROVE SignalOk'
    BY <1>UpdateLock, NoAnswer DEF UpdateLock, execVars, updateVars, SignalOk,
       Answers
  <1>UpdateWait. ASSUME UpdateWait PROVE SignalOk'
    BY <1>UpdateWait, NoAnswer DEF UpdateWait, execVars, updateVars, SignalOk,
       Answers
  <1>UpdateScan. ASSUME UpdateScan PROVE SignalOk'
    <2>1. upc = "scan" /\ \A i \in DOMAIN strand : strand[i].k \notin Answers
      BY <1>UpdateScan, NoAnswer DEF UpdateScan
    <2>2. CASE UNCHANGED strand
      BY <2>1, <2>2 DEF SignalOk, Answers
    <2>3. CASE ~UNCHANGED strand
      <3>1. PICK e \in SUBSET Files, r \in SUBSET Files : PostStrand(EraseTask(e, r))
        BY <1>UpdateScan, <2>3, ScanPosts
      <3>2. upc' = "erasing"
        BY <1>UpdateScan, <2>3 DEF UpdateScan, execVars
      <3> DEFINE t == EraseTask(e, r)
      <3>3. t \in StrandTasks /\ t.k = "erase" /\ PostStrand(t)
        BY <3>1, Posts DEF EraseTask
      <3> HIDE DEF t
      <3> QED  BY <2>1, <3>2, <3>3, StrandPosted DEF SignalOk, Answers
    <2> QED  BY <2>2, <2>3
  <1>UpdateScanThrows. ASSUME UpdateScanThrows PROVE SignalOk'
    BY <1>UpdateScanThrows, NoAnswer DEF UpdateScanThrows, execVars, updateVars,
       SignalOk, Answers
  <1>UpdateDispatch. ASSUME UpdateDispatch PROVE SignalOk'
    BY <1>UpdateDispatch, NoAnswer DEF UpdateDispatch, execVars, updateVars,
       SignalOk, Answers
  <1>UpdateFutures. ASSUME UpdateFutures PROVE SignalOk'
    <2>1. upc = "futures" /\ \A i \in DOMAIN strand : strand[i].k \notin Answers
      BY <1>UpdateFutures, NoAnswer DEF UpdateFutures
    <2>2. upc' = "shrink" /\ PostStrand(ShrinkTask)
      BY <1>UpdateFutures DEF UpdateFutures
    <2>3. ShrinkTask \in StrandTasks /\ ShrinkTask.k = "shrink"
      BY Posts DEF ShrinkTask
    <2> QED  BY <2>1, <2>2, <2>3, StrandPosted DEF SignalOk, Answers
  <1>UpdateFlush. ASSUME UpdateFlush PROVE SignalOk'
    BY <1>UpdateFlush, NoAnswer DEF UpdateFlush, execVars, updateVars, SignalOk,
       Answers
  <1>UpdateUnlock. ASSUME UpdateUnlock PROVE SignalOk'
    BY <1>UpdateUnlock, NoAnswer DEF UpdateUnlock, execVars, updateVars,
       SignalOk, Answers
  <1>UpdateDrain. ASSUME UpdateDrain PROVE SignalOk'
    BY <1>UpdateDrain, NoAnswer DEF UpdateDrain, execVars, updateVars, SignalOk,
       Answers
  <1>UpdateCompact. ASSUME UpdateCompact PROVE SignalOk'
    <2>1. \A i \in DOMAIN strand : strand[i].k \notin Answers
      BY <1>UpdateCompact, NoAnswer DEF UpdateCompact
    <2>2. UNCHANGED strand \/ PostStrand(CompactTask)
      BY <1>UpdateCompact DEF UpdateCompact, execVars
    <2>3. CompactTask \in StrandTasks /\ CompactTask.k \notin Answers
      BY Posts DEF CompactTask, Answers
    <2>4. \A i \in DOMAIN strand' : strand'[i].k \notin Answers
      BY <2>1, <2>2, <2>3, StrandPosted
    <2> QED  BY <2>4 DEF SignalOk, Answers
  <1>UpdateSave. ASSUME UpdateSave PROVE SignalOk'
    BY <1>UpdateSave, NoAnswer DEF UpdateSave, execVars, updateVars, SignalOk,
       Answers
  <1>o. \/ UNCHANGED <<strand, upc>>
        \/ (\E c \in Callers : EnqueueUpdate(c)) \/ (\E c \in Callers :
           EnqueueDeletion(c)) \/ StrandUpsert \/ StrandDelete \/
           StrandEmptyBatch \/ StrandBatch \/ StrandErase \/ StrandShrink \/
           StrandCompactSkip \/ StrandCompactEnd \/ (\E n \in DOMAIN pool :
           PoolIndex(n)) \/ (\E n \in DOMAIN pool : PoolIndexFails(n)) \/ (\E n
           \in DOMAIN pool : PoolCommit(n)) \/ UpdateBegin \/ UpdateLock \/
           UpdateWait \/ UpdateScan \/ UpdateScanThrows \/ UpdateDispatch \/
           UpdateFutures \/ UpdateFlush \/ UpdateUnlock \/ UpdateDrain \/
           UpdateCompact \/ UpdateSave
    BY DEF Next, Environment, CallerStep, StrandStep, PoolStep, MirrorStep,
       UpdateStep, StopStep, WriteFile, Notified, RemoveFile, MirrorFails,
       PointBegin, Call, TryLock, GoTo, Defer, Return, DeferInsert,
       DeferRecheck, StrandCompactBegin, MirrorWrites, UpdateTimeout,
       UpdateReplay, StopServer, StopIndex, StopClear, StopWait, execVars,
       updateVars
  <1> QED  BY <1>u, <1>o, <1>EnqueueUpdate, <1>EnqueueDeletion, <1>StrandUpsert,
           <1>StrandDelete, <1>StrandEmptyBatch, <1>StrandBatch, <1>StrandErase,
           <1>StrandShrink, <1>StrandCompactSkip, <1>StrandCompactEnd,
           <1>PoolIndex, <1>PoolIndexFails, <1>PoolCommit, <1>UpdateBegin,
           <1>UpdateLock, <1>UpdateWait, <1>UpdateScan, <1>UpdateScanThrows,
           <1>UpdateDispatch, <1>UpdateFutures, <1>UpdateFlush, <1>UpdateUnlock,
           <1>UpdateDrain, <1>UpdateCompact, <1>UpdateSave

\* Where a handler in the strand comes from: it was there, it is one the full
\* update posts, a caller that holds updateMutex posted it, or it is the batch of
\* a file that was being indexed.
StrandFlow ==
    \A i \in DOMAIN strand' :
       \/ \E j \in DOMAIN strand : strand'[i] = strand[j]
       \/ strand'[i].k = "erase" /\ UpdateScan
       \/ strand'[i].k = "shrink" \/ (strand'[i].k = "compact" /\ upc' = "settle")
       \/ strand'[i].k \in {"upsert", "delete"} /\ \E c \in Callers : cpc[c] = "locked"
       \/ strand'[i].k = "batch" /\ \E j \in DOMAIN pool :
             pool[j].k = "index" /\ strand'[i].point = pool[j].point

\* Where a handler in the pool comes from: it was there, it is the indexing of a
\* file for the full update or after an upsert, or it is the commit of the batch
\* that has just been handed to the mirror.
PoolFlow ==
    \A i \in DOMAIN pool' :
       \/ \E j \in DOMAIN pool : pool'[i] = pool[j]
       \/ pool'[i].k = "index" /\ (~pool'[i].point \/ StrandRuns("upsert"))
       \/ /\ StrandRuns("batch") /\ mirror' = Written(Head(strand).f, Head(strand).point)
          /\ pool'[i].k = "commit"
          /\ pool'[i].f = Head(strand).f /\ pool'[i].point = Head(strand).point

\* How a full update gets past waitForIdle.
AloneFlow == upc' \in Locked \ {"wait"} =>
                \/ upc \in Locked \ {"wait"}
                \/ Idle /\ UNCHANGED <<strand, pool>>

\* Where the strand's handlers come from.
LEMMA StrandFlowStep ==
    ASSUME DiskOk, CallOk, UpdateOk, ExecOk, DictOk, Next
    PROVE  StrandFlow
  <1>u. ASSUME UNCHANGED <<strand>> PROVE StrandFlow
    BY <1>u DEF StrandFlow
  <1>EnqueueUpdate. ASSUME NEW c \in Callers, EnqueueUpdate(c) PROVE StrandFlow
    <2> DEFINE t == UpsertTask(cop[c][1], disk[cop[c][1]].ver)
    <2>1. cpc[c] = "locked" /\ (UNCHANGED strand \/ (disk[cop[c][1]] # Absent /\ PostStrand(t)))
      BY <1>EnqueueUpdate DEF EnqueueUpdate, execVars
    <2>2. (disk[cop[c][1]] # Absent => t \in StrandTasks) /\ t.k = "upsert"
      BY <2>1, CallerPosts DEF UpsertTask
    <2> HIDE DEF t
    <2> QED  BY <1>u, <2>1, <2>2, StrandPosted DEF StrandFlow
  <1>EnqueueDeletion. ASSUME NEW c \in Callers, EnqueueDeletion(c) PROVE
     StrandFlow
    <2> DEFINE t == DeleteTask(cop[c][1])
    <2>1. cpc[c] = "locked" /\ (UNCHANGED strand \/ PostStrand(t))
      BY <1>EnqueueDeletion DEF EnqueueDeletion, execVars
    <2>2. t \in StrandTasks /\ t.k = "delete"
      BY <2>1, CallerPosts DEF DeleteTask
    <2> HIDE DEF t
    <2> QED  BY <1>u, <2>1, <2>2, StrandPosted DEF StrandFlow
  <1>StrandUpsert. ASSUME StrandUpsert PROVE StrandFlow
    <2>1. strand' = Tail(strand) /\ strand # <<>>
      BY <1>StrandUpsert DEF StrandUpsert, StrandDone, StrandRuns
    <2> QED  BY <2>1, TailOfStrand DEF StrandFlow
  <1>StrandDelete. ASSUME StrandDelete PROVE StrandFlow
    <2>1. strand' = Tail(strand) /\ strand # <<>>
      BY <1>StrandDelete DEF StrandDelete, StrandDone, StrandRuns
    <2> QED  BY <2>1, TailOfStrand DEF StrandFlow
  <1>StrandEmptyBatch. ASSUME StrandEmptyBatch PROVE StrandFlow
    <2>1. strand' = Tail(strand) /\ strand # <<>>
      BY <1>StrandEmptyBatch DEF StrandEmptyBatch, StrandDone, StrandRuns
    <2> QED  BY <2>1, TailOfStrand DEF StrandFlow
  <1>StrandBatch. ASSUME StrandBatch PROVE StrandFlow
    <2>1. strand' = Tail(strand) /\ strand # <<>>
      BY <1>StrandBatch DEF StrandBatch, StrandDone, StrandRuns
    <2> QED  BY <2>1, TailOfStrand DEF StrandFlow
  <1>StrandErase. ASSUME StrandErase PROVE StrandFlow
    <2>1. strand' = Tail(strand) /\ strand # <<>>
      BY <1>StrandErase DEF StrandErase, StrandDone, StrandRuns
    <2> QED  BY <2>1, TailOfStrand DEF StrandFlow
  <1>StrandShrink. ASSUME StrandShrink PROVE StrandFlow
    <2>1. strand' = Tail(strand) /\ strand # <<>>
      BY <1>StrandShrink DEF StrandShrink, StrandDone, StrandRuns
    <2> QED  BY <2>1, TailOfStrand DEF StrandFlow
  <1>StrandCompactSkip. ASSUME StrandCompactSkip PROVE StrandFlow
    <2>1. strand' = Tail(strand) /\ strand # <<>>
      BY <1>StrandCompactSkip DEF StrandCompactSkip, StrandDone, StrandRuns
    <2> QED  BY <2>1, TailOfStrand DEF StrandFlow
  <1>StrandCompactEnd. ASSUME StrandCompactEnd PROVE StrandFlow
    <2>1. strand' = Tail(strand) /\ strand # <<>>
      BY <1>StrandCompactEnd DEF StrandCompactEnd, StrandDone, StrandRuns
    <2> QED  BY <2>1, TailOfStrand DEF StrandFlow
  <1>PoolIndex. ASSUME NEW n \in DOMAIN pool, PoolIndex(n) PROVE StrandFlow
    <2>1. pool[n].k = "index"
      BY <1>PoolIndex DEF PoolIndex
    <2> QED  BY <1>PoolIndex, <2>1, BatchPosted DEF StrandFlow
  <1>PoolIndexFails. ASSUME NEW n \in DOMAIN pool, PoolIndexFails(n) PROVE
     StrandFlow
    <2>1. strand' = strand
      BY <1>PoolIndexFails, PoolIsDone DEF PoolIndexFails
    <2> QED  BY <2>1 DEF StrandFlow
  <1>PoolCommit. ASSUME NEW n \in DOMAIN pool, PoolCommit(n) PROVE StrandFlow
    <2>1. strand' = strand
      BY <1>PoolCommit, PoolIsDone DEF PoolCommit
    <2> QED  BY <2>1 DEF StrandFlow
  <1>UpdateScan. ASSUME UpdateScan PROVE StrandFlow
    <2>1. CASE UNCHANGED strand
      BY <2>1, <1>u
    <2>2. CASE ~UNCHANGED strand
      <3>1. PICK e \in SUBSET Files, r \in SUBSET Files : PostStrand(EraseTask(e, r))
        BY <1>UpdateScan, <2>2, ScanPosts
      <3> DEFINE t == EraseTask(e, r)
      <3>2. t \in StrandTasks /\ t.k = "erase" /\ PostStrand(t)
        BY <3>1, Posts DEF EraseTask
      <3> HIDE DEF t
      <3> QED  BY <1>UpdateScan, <3>2, StrandPosted DEF StrandFlow
    <2> QED  BY <2>1, <2>2
  <1>UpdateFutures. ASSUME UpdateFutures PROVE StrandFlow
    <2>1. ShrinkTask \in StrandTasks /\ ShrinkTask.k = "shrink" /\ PostStrand(ShrinkTask)
      BY <1>UpdateFutures, Posts DEF UpdateFutures, ShrinkTask
    <2> QED  BY <2>1, StrandPosted DEF StrandFlow
  <1>UpdateCompact. ASSUME UpdateCompact PROVE StrandFlow
    <2>1. CompactTask \in StrandTasks /\ CompactTask.k = "compact"
      BY Posts DEF CompactTask
    <2>2. UNCHANGED strand \/ (PostStrand(CompactTask) /\ upc' = "settle")
      BY <1>UpdateCompact DEF UpdateCompact, execVars
    <2> QED  BY <1>u, <2>1, <2>2, StrandPosted DEF StrandFlow
  <1>o. \/ UNCHANGED <<strand>>
        \/ (\E c \in Callers : EnqueueUpdate(c)) \/ (\E c \in Callers :
           EnqueueDeletion(c)) \/ StrandUpsert \/ StrandDelete \/
           StrandEmptyBatch \/ StrandBatch \/ StrandErase \/ StrandShrink \/
           StrandCompactSkip \/ StrandCompactEnd \/ (\E n \in DOMAIN pool :
           PoolIndex(n)) \/ (\E n \in DOMAIN pool : PoolIndexFails(n)) \/ (\E n
           \in DOMAIN pool : PoolCommit(n)) \/ UpdateScan \/ UpdateFutures \/
           UpdateCompact
    BY DEF Next, Environment, CallerStep, StrandStep, PoolStep, MirrorStep,
       UpdateStep, StopStep, WriteFile, Notified, RemoveFile, MirrorFails,
       PointBegin, Call, TryLock, GoTo, Defer, Return, DeferInsert,
       DeferRecheck, StrandCompactBegin, MirrorWrites, UpdateBegin, UpdateLock,
       UpdateWait, UpdateScanThrows, UpdateDispatch, UpdateTimeout, UpdateFlush,
       UpdateUnlock, UpdateDrain, UpdateReplay, UpdateSave, StopServer,
       StopIndex, StopClear, StopWait, execVars
  <1> QED  BY <1>u, <1>o, <1>EnqueueUpdate, <1>EnqueueDeletion, <1>StrandUpsert,
           <1>StrandDelete, <1>StrandEmptyBatch, <1>StrandBatch, <1>StrandErase,
           <1>StrandShrink, <1>StrandCompactSkip, <1>StrandCompactEnd,
           <1>PoolIndex, <1>PoolIndexFails, <1>PoolCommit, <1>UpdateScan,
           <1>UpdateFutures, <1>UpdateCompact

\* Where the pool's handlers come from.
LEMMA PoolFlowStep ==
    ASSUME DiskOk, CallOk, UpdateOk, ExecOk, DictOk, Next
    PROVE  PoolFlow
  <1>u. ASSUME UNCHANGED <<pool>> PROVE PoolFlow
    BY <1>u DEF PoolFlow
  <1>StrandUpsert. ASSUME StrandUpsert PROVE PoolFlow
    <2>1. StrandRuns("upsert") /\ strand # <<>> /\ Head(strand).f \in Files
      BY <1>StrandUpsert, Running DEF StrandUpsert
    <2> DEFINE t == IndexTask(Head(strand).f, TRUE)
    <2>2. t \in PoolTasks /\ t.k = "index"
      BY <2>1, Posts DEF IndexTask
    <2>3. StrandDone(<<t>>) \/ StrandDone(<<>>)
      BY <1>StrandUpsert DEF StrandUpsert
    <2> HIDE DEF t
    <2>4. <<t>> \in Seq(PoolTasks) /\ \A j \in DOMAIN <<t>> : <<t>>[j] = t
      BY <2>2
    <2>5. CASE StrandDone(<<t>>)
      BY <2>1, <2>2, <2>4, <2>5, StrandEnds DEF PoolFlow
    <2>6. CASE StrandDone(<<>>)
      BY <2>1, <2>6, StrandIsDone DEF PoolFlow
    <2> QED  BY <2>3, <2>5, <2>6
  <1>StrandBatch. ASSUME StrandBatch PROVE PoolFlow
    <2> DEFINE h == Head(strand)
               t == CommitTask(h.f, WidsOf(h.words, WithWords(h.words)), h.point)
    <2>1. /\ StrandRuns("batch") /\ strand # <<>>
          /\ h.f \in Files /\ h.words \in SUBSET Words /\ h.point \in BOOLEAN
      BY <1>StrandBatch, Running DEF StrandBatch
    <2>2. t \in PoolTasks /\ t.k = "commit" /\ t.f = h.f /\ t.point = h.point
      BY <2>1, CommitOfBatch DEF CommitTask
    <2>3. \/ StrandDone(<<t>>) /\ mirror' = Written(h.f, h.point)
          \/ StrandDone(<<>>)
      BY <1>StrandBatch DEF StrandBatch
    <2> HIDE DEF t
    <2>4. <<t>> \in Seq(PoolTasks) /\ \A j \in DOMAIN <<t>> : <<t>>[j] = t
      BY <2>2
    <2>5. CASE StrandDone(<<t>>) /\ mirror' = Written(h.f, h.point)
      BY <2>1, <2>2, <2>4, <2>5, StrandEnds DEF PoolFlow
    <2>6. CASE StrandDone(<<>>)
      BY <2>1, <2>6, StrandIsDone DEF PoolFlow
    <2> QED  BY <2>3, <2>5, <2>6
  <1>StrandDelete. ASSUME StrandDelete PROVE PoolFlow
    <2>1. pool' = pool
      BY <1>StrandDelete, StrandIsDone DEF StrandDelete, StrandRuns
    <2> QED  BY <2>1 DEF PoolFlow
  <1>StrandEmptyBatch. ASSUME StrandEmptyBatch PROVE PoolFlow
    <2>1. pool' = pool
      BY <1>StrandEmptyBatch, StrandIsDone DEF StrandEmptyBatch, StrandRuns
    <2> QED  BY <2>1 DEF PoolFlow
  <1>StrandErase. ASSUME StrandErase PROVE PoolFlow
    <2>1. pool' = pool
      BY <1>StrandErase, StrandIsDone DEF StrandErase, StrandRuns
    <2> QED  BY <2>1 DEF PoolFlow
  <1>StrandShrink. ASSUME StrandShrink PROVE PoolFlow
    <2>1. pool' = pool
      BY <1>StrandShrink, StrandIsDone DEF StrandShrink, StrandRuns
    <2> QED  BY <2>1 DEF PoolFlow
  <1>StrandCompactSkip. ASSUME StrandCompactSkip PROVE PoolFlow
    <2>1. pool' = pool
      BY <1>StrandCompactSkip, StrandIsDone DEF StrandCompactSkip, StrandRuns
    <2> QED  BY <2>1 DEF PoolFlow
  <1>StrandCompactEnd. ASSUME StrandCompactEnd PROVE PoolFlow
    <2>1. pool' = pool
      BY <1>StrandCompactEnd, StrandIsDone DEF StrandCompactEnd, StrandRuns
    <2> QED  BY <2>1 DEF PoolFlow
  <1>PoolIndex. ASSUME NEW n \in DOMAIN pool, PoolIndex(n) PROVE PoolFlow
    BY <1>PoolIndex, BatchPosted DEF PoolIndex, execVars, PoolFlow
  <1>PoolIndexFails. ASSUME NEW n \in DOMAIN pool, PoolIndexFails(n) PROVE
     PoolFlow
    <2>1. PoolDone(n, <<>>)
      BY <1>PoolIndexFails DEF PoolIndexFails
    <2> QED  BY <2>1, PoolIsDone DEF PoolFlow
  <1>PoolCommit. ASSUME NEW n \in DOMAIN pool, PoolCommit(n) PROVE PoolFlow
    <2>1. PoolDone(n, <<>>)
      BY <1>PoolCommit DEF PoolCommit
    <2> QED  BY <2>1, PoolIsDone DEF PoolFlow
  <1>UpdateDispatch. ASSUME UpdateDispatch PROVE PoolFlow
    <2>1. \A f \in Files : IndexTask(f, FALSE).k = "index" /\ ~IndexTask(f, FALSE).point
      BY DEF IndexTask
    <2> QED  BY <1>UpdateDispatch, <2>1, Dispatched DEF PoolFlow
  <1>o. \/ UNCHANGED <<pool>>
        \/ StrandUpsert \/ StrandBatch \/ StrandDelete \/ StrandEmptyBatch \/
           StrandErase \/ StrandShrink \/ StrandCompactSkip \/ StrandCompactEnd
           \/ (\E n \in DOMAIN pool : PoolIndex(n)) \/ (\E n \in DOMAIN pool :
           PoolIndexFails(n)) \/ (\E n \in DOMAIN pool : PoolCommit(n)) \/
           UpdateDispatch
    BY DEF Next, Environment, CallerStep, StrandStep, PoolStep, MirrorStep,
       UpdateStep, StopStep, WriteFile, Notified, RemoveFile, MirrorFails,
       PointBegin, Call, TryLock, GoTo, EnqueueUpdate, Return, PostStrand,
       EnqueueDeletion, Defer, DeferInsert, DeferRecheck, StrandCompactBegin,
       MirrorWrites, UpdateBegin, UpdateLock, UpdateWait, UpdateScan,
       UpdateScanThrows, UpdateTimeout, UpdateFutures, UpdateFlush,
       UpdateUnlock, UpdateDrain, UpdateReplay, UpdateCompact, UpdateSave,
       StopServer, StopIndex, StopClear, StopWait, execVars
  <1> QED  BY <1>u, <1>o, <1>StrandUpsert, <1>StrandBatch, <1>StrandDelete,
           <1>StrandEmptyBatch, <1>StrandErase, <1>StrandShrink,
           <1>StrandCompactSkip, <1>StrandCompactEnd, <1>PoolIndex,
           <1>PoolIndexFails, <1>PoolCommit, <1>UpdateDispatch

\* How the full update advances.
LEMMA AloneFlowStep ==
    ASSUME UpdateOk, ExecOk, SignalOk, Next
    PROVE  AloneFlow
  <1>u. ASSUME UNCHANGED <<upc>> PROVE AloneFlow
    BY <1>u DEF AloneFlow
  <1>StrandErase. ASSUME StrandErase PROVE AloneFlow
    BY <1>StrandErase, Running DEF StrandErase, updateVars, AloneFlow, SignalOk,
       Locked
  <1>StrandShrink. ASSUME StrandShrink PROVE AloneFlow
    BY <1>StrandShrink, Running DEF StrandShrink, updateVars, AloneFlow,
       SignalOk, Locked
  <1>UpdateBegin. ASSUME UpdateBegin PROVE AloneFlow
    BY <1>UpdateBegin DEF UpdateBegin, updateVars, AloneFlow, Locked, Idle
  <1>UpdateLock. ASSUME UpdateLock PROVE AloneFlow
    BY <1>UpdateLock DEF UpdateLock, updateVars, AloneFlow, Locked, Idle
  <1>UpdateWait. ASSUME UpdateWait PROVE AloneFlow
    BY <1>UpdateWait DEF UpdateWait, updateVars, AloneFlow, Locked, execVars
  <1>UpdateScan. ASSUME UpdateScan PROVE AloneFlow
    BY <1>UpdateScan DEF UpdateScan, PostStrand, updateVars, AloneFlow, Locked,
       Idle
  <1>UpdateScanThrows. ASSUME UpdateScanThrows PROVE AloneFlow
    BY <1>UpdateScanThrows DEF UpdateScanThrows, updateVars, AloneFlow, Locked,
       Idle
  <1>UpdateDispatch. ASSUME UpdateDispatch PROVE AloneFlow
    BY <1>UpdateDispatch DEF UpdateDispatch, updateVars, AloneFlow, Locked, Idle
  <1>UpdateFutures. ASSUME UpdateFutures PROVE AloneFlow
    BY <1>UpdateFutures DEF UpdateFutures, PostStrand, updateVars, AloneFlow,
       Locked, Idle
  <1>UpdateFlush. ASSUME UpdateFlush PROVE AloneFlow
    BY <1>UpdateFlush DEF UpdateFlush, updateVars, AloneFlow, Locked, Idle
  <1>UpdateUnlock. ASSUME UpdateUnlock PROVE AloneFlow
    BY <1>UpdateUnlock DEF UpdateUnlock, updateVars, AloneFlow, Locked, Idle
  <1>UpdateDrain. ASSUME UpdateDrain PROVE AloneFlow
    BY <1>UpdateDrain DEF UpdateDrain, updateVars, AloneFlow, Locked, Idle
  <1>UpdateCompact. ASSUME UpdateCompact PROVE AloneFlow
    BY <1>UpdateCompact DEF UpdateCompact, PostStrand, updateVars, AloneFlow,
       Locked, Idle
  <1>UpdateSave. ASSUME UpdateSave PROVE AloneFlow
    BY <1>UpdateSave DEF UpdateSave, updateVars, AloneFlow, Locked, Idle
  <1>o. \/ UNCHANGED <<upc>>
        \/ StrandErase \/ StrandShrink \/ UpdateBegin \/ UpdateLock \/
           UpdateWait \/ UpdateScan \/ UpdateScanThrows \/ UpdateDispatch \/
           UpdateFutures \/ UpdateFlush \/ UpdateUnlock \/ UpdateDrain \/
           UpdateCompact \/ UpdateSave
    BY DEF Next, Environment, CallerStep, StrandStep, PoolStep, MirrorStep,
       UpdateStep, StopStep, WriteFile, Notified, RemoveFile, MirrorFails,
       PointBegin, Call, TryLock, GoTo, EnqueueUpdate, Return, PostStrand,
       EnqueueDeletion, Defer, DeferInsert, DeferRecheck, StrandUpsert,
       EraseDocs, StrandDone, StrandDelete, StrandEmptyBatch, Settle,
       StrandBatch, StrandCompactSkip, StrandCompactBegin, StrandCompactEnd,
       PoolIndex, PoolDone, PoolIndexFails, PoolCommit, MirrorWrites,
       UpdateTimeout, UpdateReplay, StopServer, StopIndex, StopClear, StopWait,
       updateVars
  <1> QED  BY <1>u, <1>o, <1>StrandErase, <1>StrandShrink, <1>UpdateBegin,
           <1>UpdateLock, <1>UpdateWait, <1>UpdateScan, <1>UpdateScanThrows,
           <1>UpdateDispatch, <1>UpdateFutures, <1>UpdateFlush, <1>UpdateUnlock,
           <1>UpdateDrain, <1>UpdateCompact, <1>UpdateSave

\* A full update that has passed waitForIdle stays alone: no caller holds
\* updateMutex, so point handlers could only come from point handlers.
LEMMA AloneStep ==
    ASSUME DiskOk, CallOk, UpdateOk, ExecOk, DictOk, SignalOk, MutexOk, MutexOk',
           AloneOk, Next
    PROVE  AloneOk'
  <1>1. SUFFICES ASSUME upc' \in Locked \ {"wait"}
                 PROVE  /\ \A i \in DOMAIN strand' : ~IsPoint(strand'[i])
                        /\ \A i \in DOMAIN pool' : ~IsPoint(pool'[i])
    BY DEF AloneOk
  <1>2. AloneFlow /\ StrandFlow /\ PoolFlow
    BY AloneFlowStep, StrandFlowStep, PoolFlowStep
  <1>3. CASE Idle /\ UNCHANGED <<strand, pool>>
    <2>1. Len(strand) = 0 /\ Len(pool) = 0
      BY <1>3, LenProperties DEF Idle, ExecOk
    <2> QED  BY <1>3, <2>1 DEF ExecOk
  <1>4. CASE upc \in Locked \ {"wait"}
    <2>1. /\ \A i \in DOMAIN strand : ~IsPoint(strand[i])
          /\ \A i \in DOMAIN pool : ~IsPoint(pool[i])
      BY <1>4 DEF AloneOk
    <2>2. \A c \in Callers : cpc[c] # "locked"
      BY <1>4, IndexAssumption DEF MutexOk, Locked, Callers
    <2>3. ~StrandRuns("upsert")
      BY <2>1, Running DEF IsPoint
    <2>4. ASSUME NEW i \in DOMAIN strand' PROVE ~IsPoint(strand'[i])
      BY <1>2, <2>1, <2>2 DEF StrandFlow, IsPoint, Answers
    <2>5. ASSUME NEW i \in DOMAIN pool' PROVE ~IsPoint(pool'[i])
      <3>1. CASE \E j \in DOMAIN pool : pool'[i] = pool[j]
        BY <3>1, <2>1
      <3>2. CASE pool'[i].k = "index" /\ ~pool'[i].point
        BY <3>2 DEF IsPoint
      <3>3. CASE /\ StrandRuns("batch")
                 /\ pool'[i].k = "commit" /\ pool'[i].point = Head(strand).point
        <4>1. ~IsPoint(Head(strand)) /\ Head(strand).k = "batch"
          BY <3>3, <2>1, Running
        <4> QED  BY <3>3, <4>1 DEF IsPoint
      <3> QED  BY <1>2, <2>3, <3>1, <3>2, <3>3 DEF PoolFlow
    <2> QED  BY <2>4, <2>5
  <1> QED  BY <1>1, <1>2, <1>3, <1>4 DEF AloneFlow

-----------------------------------------------------------------------------
(* The mirror.                                                             *)

\* A commit is posted after its row: it comes with the write, and no step takes
\* the row back.
LEMMA CommitsStep ==
    ASSUME DiskOk, StoreOk, CallOk, UpdateOk, ExecOk, DictOk, CommitsOk, Next
    PROVE  CommitsOk'
  <1>1. PoolFlow /\ RowsStay
    BY PoolFlowStep, RowStep
  <1>2. SUFFICES ASSUME NEW i \in DOMAIN pool', pool'[i].k = "commit"
                 PROVE  /\ ~writerError' => mirror'[pool'[i].f] # "none"
                        /\ pool'[i].point => mirror'[pool'[i].f] = "durable"
    BY DEF CommitsOk
  <1>3. CASE \E j \in DOMAIN pool : pool'[i] = pool[j]
    <2>1. PICK j \in DOMAIN pool : pool'[i] = pool[j]
      BY <1>3
    <2>2. pool[j].f \in Files /\ pool[j].k = "commit"
      BY <1>2, <2>1, RunningInPool
    <2>3. /\ ~writerError => mirror[pool[j].f] # "none"
          /\ pool[j].point => mirror[pool[j].f] = "durable"
      BY <2>2 DEF CommitsOk
    <2> QED  BY <1>1, <2>1, <2>2, <2>3 DEF RowsStay
  <1>4. CASE /\ StrandRuns("batch") /\ mirror' = Written(Head(strand).f, Head(strand).point)
             /\ pool'[i].f = Head(strand).f /\ pool'[i].point = Head(strand).point
    <2>1. Head(strand).f \in Files /\ Head(strand).point \in BOOLEAN
      BY <1>4, Running
    <2> QED  BY <1>4, <2>1, MirrorOps
  <1> QED  BY <1>1, <1>2, <1>3, <1>4 DEF PoolFlow

\* Where a posting comes from: it was there, compact copies it back, or the
\* commit of a batch adds it.
PostingFlow ==
    \A i \in Wids, f \in Files :
       \/ chunks'[i][f] \in {0, chunks[i][f]}
       \/ \E j \in DOMAIN flat : chunks'[i][f] = flat[j][f]
       \/ \E n \in DOMAIN pool : pool[n].k = "commit" /\ pool[n].f = f

\* Where an entry of the flat copy comes from.
FlatFlow ==
    \A i \in DOMAIN flat' : \/ i \in DOMAIN flat /\ flat'[i] = flat[i]
                            \/ i \in Wids /\ flat'[i] = chunks[i]

\* Where the postings come from.
LEMMA PostingFlowStep ==
    ASSUME ExecOk, DictOk, RefsOk, Next
    PROVE  PostingFlow
  <1>u. ASSUME UNCHANGED <<chunks>> PROVE PostingFlow
    BY <1>u DEF PostingFlow
  <1>StrandUpsert. ASSUME StrandUpsert PROVE PostingFlow
    <2>1. OldPostings(Head(strand).f) \in SUBSET Files
      BY <1>StrandUpsert, Running DEF StrandUpsert, OldPostings
    <2>2. EraseDocs(OldPostings(Head(strand).f)) \/ UNCHANGED chunks
      BY <1>StrandUpsert DEF StrandUpsert
    <2> QED  BY <1>u, <2>1, <2>2, Erased DEF PostingFlow
  <1>StrandErase. ASSUME StrandErase PROVE PostingFlow
    <2>1. EraseDocs(Head(strand).erase) /\ Head(strand).erase \in SUBSET Files
      BY <1>StrandErase, Running DEF StrandErase
    <2> QED  BY <2>1, Erased DEF PostingFlow
  <1>StrandCompactEnd. ASSUME StrandCompactEnd PROVE PostingFlow
    <2>1. \A i \in Wids : chunks'[i] = NoPostings \/ \E j \in DOMAIN flat : chunks'[i] = flat[j]
      BY <1>StrandCompactEnd, Rebuilt DEF StrandCompactEnd
    <2> QED  BY <2>1 DEF PostingFlow, NoPostings
  <1>PoolCommit. ASSUME NEW n \in DOMAIN pool, PoolCommit(n) PROVE PostingFlow
    <2>1. pool[n].k = "commit" /\ pool[n].f \in Files
      BY <1>PoolCommit, RunningInPool DEF PoolCommit
    <2>2. chunks' = [j \in Wids |-> [chunks[j] EXCEPT ![pool[n].f] =
                                       IF j \in pool[n].wids THEN @ + 1 ELSE @]]
      BY <1>PoolCommit DEF PoolCommit
    <2>3. \A i \in Wids, f \in Files : f # pool[n].f => chunks'[i][f] = chunks[i][f]
      BY <2>1, <2>2 DEF DictOk
    <2> QED  BY <2>1, <2>3 DEF PostingFlow
  <1>o. \/ UNCHANGED <<chunks>>
        \/ StrandUpsert \/ StrandErase \/ StrandCompactEnd \/ (\E n \in DOMAIN
           pool : PoolCommit(n))
    BY DEF Next, Environment, CallerStep, StrandStep, PoolStep, MirrorStep,
       UpdateStep, StopStep, WriteFile, Notified, RemoveFile, MirrorFails,
       PointBegin, Call, TryLock, GoTo, EnqueueUpdate, Return, PostStrand,
       EnqueueDeletion, Defer, DeferInsert, DeferRecheck, StrandDelete,
       StrandDone, StrandEmptyBatch, Settle, StrandBatch, StrandShrink,
       StrandCompactSkip, StrandCompactBegin, PoolIndex, PoolDone,
       PoolIndexFails, MirrorWrites, UpdateBegin, UpdateLock, UpdateWait,
       UpdateScan, UpdateScanThrows, UpdateDispatch, UpdateTimeout,
       UpdateFutures, UpdateFlush, UpdateUnlock, UpdateDrain, UpdateReplay,
       UpdateCompact, UpdateSave, StopServer, StopIndex, StopClear, StopWait,
       indexVars
  <1> QED  BY <1>u, <1>o, <1>StrandUpsert, <1>StrandErase, <1>StrandCompactEnd,
           <1>PoolCommit

\* Where the flat copy comes from.
LEMMA FlatFlowStep ==
    ASSUME DictOk, Next
    PROVE  FlatFlow
  <1>u. ASSUME UNCHANGED <<flat>> PROVE FlatFlow
    BY <1>u DEF FlatFlow
  <1>StrandCompactBegin. ASSUME StrandCompactBegin PROVE FlatFlow
    <2>1. DOMAIN wordIds \subseteq Wids
      BY NumbersFit DEF DictOk
    <2> QED  BY <1>StrandCompactBegin, <2>1 DEF StrandCompactBegin, FlatFlow
  <1>StrandCompactEnd. ASSUME StrandCompactEnd PROVE FlatFlow
    BY <1>StrandCompactEnd DEF StrandCompactEnd, indexVars, FlatFlow
  <1>o. \/ UNCHANGED <<flat>>
        \/ StrandCompactBegin \/ StrandCompactEnd
    BY DEF Next, Environment, CallerStep, StrandStep, PoolStep, MirrorStep,
       UpdateStep, StopStep, WriteFile, Notified, RemoveFile, MirrorFails,
       PointBegin, Call, TryLock, GoTo, EnqueueUpdate, Return, PostStrand,
       EnqueueDeletion, Defer, DeferInsert, DeferRecheck, StrandUpsert,
       EraseDocs, StrandDone, StrandDelete, StrandEmptyBatch, Settle,
       StrandBatch, StrandErase, StrandShrink, StrandCompactSkip, PoolIndex,
       PoolDone, PoolIndexFails, PoolCommit, MirrorWrites, UpdateBegin,
       UpdateLock, UpdateWait, UpdateScan, UpdateScanThrows, UpdateDispatch,
       UpdateTimeout, UpdateFutures, UpdateFlush, UpdateUnlock, UpdateDrain,
       UpdateReplay, UpdateCompact, UpdateSave, StopServer, StopIndex,
       StopClear, StopWait, indexVars
  <1> QED  BY <1>u, <1>o, <1>StrandCompactBegin, <1>StrandCompactEnd

\* A document without a row has no postings.
LEMMA RowsStep ==
    ASSUME StoreOk, ExecOk, DictOk, RefsOk, RowsOk, CommitsOk, Next
    PROVE  RowsOk'
  <1>1. RowsStay /\ PostingFlow /\ FlatFlow
    BY RowStep, PostingFlowStep, FlatFlowStep
  <1>2. SUFFICES ASSUME ~writerError', NEW f \in Files, mirror'[f] = "none"
                 PROVE  /\ \A i \in Wids : chunks'[i][f] = 0
                        /\ \A i \in DOMAIN flat' : flat'[i][f] = 0
    BY DEF RowsOk
  <1>3. ~writerError /\ mirror[f] = "none"
    BY <1>1, <1>2 DEF RowsStay
  <1>4. /\ \A i \in Wids : chunks[i][f] = 0
        /\ \A i \in DOMAIN flat : flat[i][f] = 0
    BY <1>3 DEF RowsOk
  <1>5. ~ \E n \in DOMAIN pool : pool[n].k = "commit" /\ pool[n].f = f
    BY <1>3 DEF CommitsOk
  <1>6. \A i \in Wids : chunks'[i][f] = 0
    BY <1>1, <1>4, <1>5 DEF PostingFlow
  <1>7. \A i \in DOMAIN flat' : flat'[i][f] = 0
    BY <1>1, <1>4 DEF FlatFlow
  <1> QED  BY <1>6, <1>7

-----------------------------------------------------------------------------
(* Shutdown.                                                               *)

\* A path that stop() did not clear is still to be cleared by its caller.
LEMMA StopOkStep ==
    ASSUME CallOk, UpdateOk, MutexOk, StopOk, Next
    PROVE  StopOk'
  <1>u. ASSUME UNCHANGED <<stopping, indexStopping, stopPc, deferred, cpc>> PROVE StopOk'
    BY <1>u DEF StopOk
  <1>PointBegin. ASSUME NEW w \in Watchers, NEW f \in Files, NEW kind \in Kinds,
     PointBegin(w, f, kind) PROVE StopOk'
    BY <1>PointBegin DEF PointBegin, Call, facadeVars, callVars, stopVars,
       StopOk, CallOk, Callers
  <1>TryLock. ASSUME NEW c \in Callers, TryLock(c) PROVE StopOk'
    BY <1>TryLock DEF TryLock, GoTo, facadeVars, callVars, stopVars, StopOk,
       CallOk, Callers
  <1>EnqueueUpdate. ASSUME NEW c \in Callers, EnqueueUpdate(c) PROVE StopOk'
    BY <1>EnqueueUpdate DEF EnqueueUpdate, facadeVars, callVars, stopVars,
       StopOk, Return, CallOk
  <1>EnqueueDeletion. ASSUME NEW c \in Callers, EnqueueDeletion(c) PROVE StopOk'
    BY <1>EnqueueDeletion DEF EnqueueDeletion, facadeVars, callVars, stopVars,
       StopOk, Return, CallOk
  <1>Defer. ASSUME NEW c \in Callers, Defer(c) PROVE StopOk'
    <2>1. UNCHANGED <<stopping, indexStopping, stopPc, deferred>> /\ cpc[c] = "defer"
      BY <1>Defer DEF Defer, facadeVars, stopVars
    <2>2. \E l \in {"idle", "insert"} : cpc' = [cpc EXCEPT ![c] = l]
      BY <1>Defer DEF Defer, GoTo, Return
    <2>3. \A d \in Callers : cpc[d] = "recheck" => cpc'[d] = "recheck"
      BY <2>1, <2>2 DEF CallOk
    <2> QED  BY <2>1, <2>3 DEF StopOk
  <1>DeferInsert. ASSUME NEW c \in Callers, DeferInsert(c) PROVE StopOk'
    BY <1>DeferInsert DEF DeferInsert, GoTo, facadeVars, callVars, stopVars,
       StopOk, CallOk
  <1>DeferRecheck. ASSUME NEW c \in Callers, DeferRecheck(c) PROVE StopOk'
    BY <1>DeferRecheck DEF DeferRecheck, Return, facadeVars, callVars, stopVars,
       StopOk, CallOk
  <1>UpdateDrain. ASSUME UpdateDrain PROVE StopOk'
    BY <1>UpdateDrain DEF UpdateDrain, facadeVars, callVars, stopVars, StopOk
  <1>UpdateReplay. ASSUME NEW f \in Files, UpdateReplay(f) PROVE StopOk'
    BY <1>UpdateReplay DEF UpdateReplay, Call, facadeVars, callVars, stopVars,
       StopOk, CallOk, Callers
  <1>StopServer. ASSUME StopServer PROVE StopOk'
    BY <1>StopServer DEF StopServer, facadeVars, callVars, stopVars, StopOk
  <1>StopIndex. ASSUME StopIndex PROVE StopOk'
    BY <1>StopIndex DEF StopIndex, facadeVars, callVars, stopVars, StopOk
  <1>StopClear. ASSUME StopClear PROVE StopOk'
    BY <1>StopClear DEF StopClear, facadeVars, callVars, stopVars, StopOk
  <1>StopWait. ASSUME StopWait PROVE StopOk'
    BY <1>StopWait DEF StopWait, facadeVars, callVars, stopVars, StopOk
  <1>o. \/ UNCHANGED <<stopping, indexStopping, stopPc, deferred, cpc>>
        \/ (\E w \in Watchers, f \in Files, kind \in Kinds : PointBegin(w, f,
           kind)) \/ (\E c \in Callers : TryLock(c)) \/ (\E c \in Callers :
           EnqueueUpdate(c)) \/ (\E c \in Callers : EnqueueDeletion(c)) \/ (\E c
           \in Callers : Defer(c)) \/ (\E c \in Callers : DeferInsert(c)) \/ (\E
           c \in Callers : DeferRecheck(c)) \/ UpdateDrain \/ (\E f \in Files :
           UpdateReplay(f)) \/ StopServer \/ StopIndex \/ StopClear \/ StopWait
    BY DEF Next, Environment, CallerStep, StrandStep, PoolStep, MirrorStep,
       UpdateStep, StopStep, WriteFile, Notified, RemoveFile, MirrorFails,
       StrandUpsert, EraseDocs, StrandDone, StrandDelete, StrandEmptyBatch,
       Settle, StrandBatch, StrandErase, StrandShrink, StrandCompactSkip,
       StrandCompactBegin, StrandCompactEnd, PoolIndex, PoolDone,
       PoolIndexFails, PoolCommit, MirrorWrites, UpdateBegin, UpdateLock,
       UpdateWait, UpdateScan, PostStrand, UpdateScanThrows, UpdateDispatch,
       UpdateTimeout, UpdateFutures, UpdateFlush, UpdateUnlock, UpdateCompact,
       UpdateSave, facadeVars, callVars, stopVars
  <1> QED  BY <1>u, <1>o, <1>PointBegin, <1>TryLock, <1>EnqueueUpdate,
           <1>EnqueueDeletion, <1>Defer, <1>DeferInsert, <1>DeferRecheck,
           <1>UpdateDrain, <1>UpdateReplay, <1>StopServer, <1>StopIndex,
           <1>StopClear, <1>StopWait

\* stop() is final: nothing begins after it, and nothing it waited for is left.
LEMMA StopFinalStep ==
    ASSUME DiskOk, CallOk, UpdateOk, ExecOk, StopOk, StopIsFinal, Next
    PROVE  StopIsFinal'
  <1>1. SUFFICES ASSUME stopPc' = "stopped"
                 PROVE  (NoOperation /\ strand = <<>> /\ pool = <<>> /\ deferred = {})'
    BY DEF StopIsFinal
  <1>2. CASE StopWait
    <2>1. UNCHANGED <<upc, cpc, strand, pool, deferred>> /\ NoOperation /\ Idle /\ stopPc = "wait"
      BY <1>2 DEF StopWait, execVars, facadeVars, callVars, updateVars
    <2>2. Len(strand) = 0 /\ Len(pool) = 0
      BY <2>1, LenProperties DEF Idle, ExecOk
    <2>3. strand = <<>> /\ pool = <<>>
      BY <2>2 DEF ExecOk
    <2>4. deferred = {}
      BY <2>1 DEF StopOk, NoOperation
    <2> QED  BY <2>1, <2>3, <2>4 DEF NoOperation
  <1>3. CASE ~StopWait
    <2>1. stopPc = "stopped"
      BY <1>1, <1>3 DEF Next, Environment, CallerStep, StrandStep, PoolStep, MirrorStep,
         UpdateStep, StopStep, WriteFile, RemoveFile, MirrorFails, PointBegin, TryLock, EnqueueUpdate,
         EnqueueDeletion, Defer, DeferInsert, DeferRecheck, StrandUpsert,
         StrandDelete, StrandEmptyBatch, StrandBatch, StrandErase, StrandShrink,
         StrandCompactSkip, StrandCompactBegin, StrandCompactEnd, PoolIndex,
         PoolIndexFails, PoolCommit, MirrorWrites, UpdateBegin, UpdateLock,
         UpdateWait, UpdateScan, UpdateScanThrows, UpdateDispatch,
         UpdateTimeout, UpdateFutures, UpdateFlush, UpdateUnlock, UpdateDrain,
         UpdateReplay, UpdateCompact, UpdateSave, StopServer, StopIndex,
         StopClear, stopVars
    <2>2. /\ upc = "idle" /\ \A c \in Callers : cpc[c] = "idle"
          /\ strand = <<>> /\ pool = <<>> /\ deferred = {} /\ stopping
      BY <2>1 DEF StopIsFinal, NoOperation, StopOk
    <2>3. Updater \in Callers /\ Watchers \subseteq Callers /\ DOMAIN pool = {}
      BY <2>2 DEF Callers
    <2>4. UNCHANGED <<upc, cpc, strand, pool, deferred>>
      BY <2>1, <2>2, <2>3 DEF Next, Environment, CallerStep, StrandStep, PoolStep,
         MirrorStep, UpdateStep, StopStep, WriteFile, RemoveFile, MirrorFails, PointBegin, TryLock, EnqueueUpdate,
         EnqueueDeletion, Defer, DeferInsert, DeferRecheck, StrandUpsert,
         StrandDelete, StrandEmptyBatch, StrandBatch, StrandErase, StrandShrink,
         StrandCompactSkip, StrandCompactBegin, StrandCompactEnd, PoolIndex,
         PoolIndexFails, PoolCommit, MirrorWrites, UpdateBegin, UpdateLock,
         UpdateWait, UpdateScan, UpdateScanThrows, UpdateDispatch,
         UpdateTimeout, UpdateFutures, UpdateFlush, UpdateUnlock, UpdateDrain,
         UpdateReplay, UpdateCompact, UpdateSave, StopServer, StopIndex,
         StopClear, StopWait, StrandRuns, execVars, facadeVars, callVars,
         updateVars
    <2> QED  BY <2>2, <2>4 DEF NoOperation
  <1> QED  BY <1>2, <1>3

-----------------------------------------------------------------------------
(* The theorems.                                                           *)

\* LiveInv holds initially.
LEMMA InitLive ==
    ASSUME Init
    PROVE  LiveInv
  <1> USE IndexAssumption
  <1>1. DiskOk
    BY DEF Init, DiskOk, Absent
  <1>2. StoreOk
    <2>1. 0 \in 0 .. MaxWrites
      OBVIOUS
    <2>2. [known |-> FALSE, ver |-> 0, deleted |-> FALSE] \in
             [known : BOOLEAN, ver : 0 .. MaxWrites, deleted : BOOLEAN]
      BY <2>1
    <2> QED  BY <2>2 DEF Init, StoreOk
  <1>3. CallOk /\ UpdateOk
    BY DEF Init, CallOk, UpdateOk
  <1>4. ExecOk
    BY DEF Init, ExecOk
  <1>5. DictOk
    <2>1. IsInjective(<<>>)
      BY DEF IsInjective
    <2> QED  BY <2>1 DEF Init, DictOk, NoPostings
  <1>6. RefsOk
    BY DEF Init, RefsOk
  <1>7. MutexOk /\ StopOk /\ StopIsFinal
    BY DEF Init, MutexOk, Locked, StopOk, StopIsFinal, Callers
  <1>8. SignalOk /\ AloneOk /\ CommitsOk
    BY DEF Init, SignalOk, AloneOk, CommitsOk
  <1>9. RowsOk
    BY DEF Init, RowsOk, NoPostings
  <1> QED  BY <1>1, <1>2, <1>3, <1>4, <1>5, <1>6, <1>7, <1>8, <1>9 DEF LiveInv, Types

\* Every step preserves LiveInv.
LEMMA NextLive ==
    ASSUME LiveInv, Next
    PROVE  LiveInv'
  <1>0. /\ DiskOk /\ StoreOk /\ CallOk /\ UpdateOk /\ ExecOk /\ DictOk /\ RefsOk
        /\ MutexOk /\ SignalOk /\ AloneOk /\ StopOk /\ StopIsFinal /\ RowsOk /\ CommitsOk
    BY DEF LiveInv, Types
  <1>1. DiskOk' /\ StoreOk' /\ CallOk' /\ UpdateOk'
    BY <1>0, DiskStep, StoreStep, CallStep, UpdateStepOk
  <1>2. ExecOk' /\ DictOk' /\ RefsOk'
    BY <1>0, ExecStep, DictStep, RefsStep
  <1>3. MutexOk' /\ SignalOk'
    BY <1>0, <1>2, MutexStep, SignalStep
  <1>4. AloneOk'
    BY <1>0, <1>3, AloneStep
  <1>5. StopOk' /\ StopIsFinal'
    BY <1>0, StopOkStep, StopFinalStep
  <1>6. RowsOk' /\ CommitsOk'
    BY <1>0, RowsStep, CommitsStep
  <1> QED  BY <1>1, <1>2, <1>3, <1>4, <1>5, <1>6 DEF LiveInv, Types

\* LiveInv depends on the variables alone.
LEMMA StutterLive ==
    ASSUME LiveInv, UNCHANGED vars
    PROVE  LiveInv'
  <1> USE DEF LiveInv, Types, vars, envVars, indexVars, storeVars, execVars,
              facadeVars, callVars, updateVars, stopVars
  <1>1. DiskOk' /\ StoreOk'
    BY DEF DiskOk, StoreOk
  <1>2. CallOk' /\ UpdateOk'
    BY DEF CallOk, UpdateOk
  <1>3. ExecOk' /\ DictOk' /\ RefsOk'
    BY DEF ExecOk, DictOk, RefsOk
  <1>4. MutexOk' /\ SignalOk' /\ AloneOk'
    BY DEF MutexOk, SignalOk, AloneOk
  <1>5. StopOk' /\ StopIsFinal' /\ RowsOk' /\ CommitsOk'
    BY DEF StopOk, StopIsFinal, NoOperation, RowsOk, CommitsOk
  <1> QED  BY <1>1, <1>2, <1>3, <1>4, <1>5

\* So LiveInv is an invariant.
LEMMA AlwaysLive == Spec => []LiveInv
  <1>1. Init => LiveInv
    BY InitLive
  <1>2. LiveInv /\ [Next]_vars => LiveInv'
    BY NextLive, StutterLive
  <1> QED  BY <1>1, <1>2, PTL DEF Spec

\* Every handler in the executors is one the code posts, with a path, words and
\* word numbers in range; the dictionary has a slot for every word number,
\* through every compaction; the flat copy exists only while compact holds
\* updateMutex.
THEOREM IndexTypes == Spec => []TypeOK
  <1>1. LiveInv => TypeOK
    <2> SUFFICES ASSUME LiveInv PROVE TypeOK
      OBVIOUS
    <2>1. active \in Nat
      BY LenProperties DEF LiveInv, Types, ExecOk
    <2> QED  BY <2>1 DEF LiveInv, Types, DiskOk, StoreOk, CallOk, UpdateOk, ExecOk,
                 DictOk, RefsOk, MutexOk, TypeOK
  <1> QED  BY <1>1, AlwaysLive, PTL

\* A full update that has passed waitForIdle works alone, for any number of
\* callers, deferrals and replays.
THEOREM UpdateIsAlone == Spec => []FullUpdateAlone
  <1>1. LiveInv => FullUpdateAlone
    BY DEF LiveInv, AloneOk, FullUpdateAlone, Locked, Range
  <1> QED  BY <1>1, AlwaysLive, PTL

\* When SearchServer::stop has returned no handler, operation or deferred path
\* is left, and none comes again.
THEOREM StopIsForever == Spec => []StopIsFinal
  <1>1. LiveInv => StopIsFinal
    BY DEF LiveInv
  <1> QED  BY <1>1, AlwaysLive, PTL

\* While the writer works, what a search finds has a row in the mirror; and the
\* row of a point update is durable before its postings are published.
THEOREM FoundIsMirrored == Spec => []PublishedIsMirrored
  <1>1. LiveInv => PublishedIsMirrored
    <2> SUFFICES ASSUME LiveInv PROVE PublishedIsMirrored
      OBVIOUS
    <2>1. ASSUME ~writerError, NEW f \in Files, mirror[f] = "none" PROVE Posted(f) = {}
      <3>1. DOMAIN wordIds \subseteq Wids
        BY NumbersFit DEF LiveInv, Types, DictOk
      <3>2. \A j \in DOMAIN wordIds : chunks[j][f] = 0
        BY <2>1, <3>1 DEF LiveInv, RowsOk
      <3> QED  BY <3>2 DEF Posted
    <2>2. \A t \in Range(pool) : t.k = "commit" /\ t.point => mirror[t.f] = "durable"
      BY DEF LiveInv, CommitsOk, Range
    <2> QED  BY <2>1, <2>2 DEF PublishedIsMirrored
  <1> QED  BY <1>1, AlwaysLive, PTL
-----------------------------------------------------------------------------
(* What is under way for a file.                                           *)

\* The handlers that carry a file to its postings: it is being indexed, its batch
\* is in the strand, or its commit is in the pool.
Carriers == {t \in Range(strand) : t.k = "batch"} \cup Range(pool)

\* What a carrier is.
LEMMA CarrierFields ==
    ASSUME ExecOk, NEW t \in Carriers
    PROVE  /\ t.k \in {"index", "batch", "commit"}
           /\ t.f \in Files /\ t.point \in BOOLEAN
           /\ t.k = "batch" => t.words \in SUBSET Words
           /\ t.k = "commit" => t.wids \in SUBSET Wids
           /\ t.k = "batch" => t \in Range(strand)
           /\ t.k # "batch" => t \in Range(pool)
  <1>1. ASSUME NEW i \in DOMAIN pool
        PROVE  /\ pool[i].k \in {"index", "commit"} /\ pool[i].k # "batch"
               /\ pool[i].f \in Files /\ pool[i].point \in BOOLEAN
               /\ pool[i].k = "commit" => pool[i].wids \in SUBSET Wids
    BY RunningInPool
  <1>2. ASSUME NEW i \in DOMAIN strand, strand[i].k = "batch"
        PROVE  /\ strand[i].f \in Files /\ strand[i].point \in BOOLEAN
               /\ strand[i].words \in SUBSET Words
    <2>1. strand[i] \in StrandTasks
      BY DEF ExecOk
    <2> QED  BY <1>2, <2>1, StrandFields
  <1>3. CASE t \in Range(pool)
    BY <1>1, <1>3 DEF Range
  <1>4. CASE t \in {u \in Range(strand) : u.k = "batch"}
    BY <1>1, <1>2, <1>4 DEF Range
  <1> QED  BY <1>3, <1>4 DEF Carriers

\* The carriers are a set, and no two of them carry the same file.
Single ==
    /\ \A i, j \in DOMAIN strand :
          strand[i].k = "batch" /\ strand[j].k = "batch" /\ strand[i].f = strand[j].f => i = j
    /\ \A i, j \in DOMAIN pool : pool[i].f = pool[j].f => i = j
    /\ \A t, u \in Carriers : t.f = u.f => t = u

\* The strand ends a handler that posts ts to the pool.
LEMMA StrandCarries ==
    ASSUME ExecOk, strand # <<>>, NEW ts \in Seq(PoolTasks), StrandDone(ts)
    PROVE  /\ Carriers' \subseteq Carriers \cup Range(ts)
           /\ (Carriers \ {Head(strand)}) \cup Range(ts) \subseteq Carriers'
           /\ Head(strand).k # "batch" => Carriers \subseteq Carriers'
           /\ Head(strand).k = "batch" => Head(strand) \in Carriers
           /\ Single /\ Head(strand).k = "batch" => Head(strand) \notin Carriers'
  <1>1. /\ strand' = Tail(strand) /\ pool' = pool \o ts
    BY DEF StrandDone
  <1>2. /\ strand' \in Seq(StrandTasks) /\ Len(strand') = Len(strand) - 1
        /\ \A i \in 1 .. Len(strand) - 1 : strand'[i] = strand[i + 1]
        /\ DOMAIN strand' = 1 .. Len(strand) - 1 /\ DOMAIN strand = 1 .. Len(strand)
        /\ Len(strand) \in Nat \ {0} /\ Head(strand) = strand[1]
    BY <1>1, HeadTailProperties, LenProperties, EmptySeq DEF ExecOk
  <1>3. /\ \A i \in 1 .. Len(pool) + Len(ts) : pool'[i] =
              IF i <= Len(pool) THEN pool[i] ELSE ts[i - Len(pool)]
        /\ DOMAIN pool' = 1 .. Len(pool) + Len(ts) /\ DOMAIN pool = 1 .. Len(pool)
        /\ DOMAIN ts = 1 .. Len(ts) /\ Len(pool) \in Nat /\ Len(ts) \in Nat
    BY <1>1, ConcatProperties, LenProperties DEF ExecOk
  <1>4. ASSUME NEW i \in DOMAIN strand' PROVE i + 1 \in DOMAIN strand /\ strand'[i] = strand[i + 1]
    BY <1>2
  <1>5. ASSUME NEW i \in DOMAIN strand, i # 1
        PROVE  i - 1 \in DOMAIN strand' /\ strand[i] = strand'[i - 1]
    <2>1. i - 1 \in 1 .. Len(strand) - 1 /\ (i - 1) + 1 = i
      BY <1>2, <1>5
    <2> QED  BY <1>2, <2>1
  <1>6. ASSUME NEW i \in DOMAIN pool'
        PROVE  \/ i \in DOMAIN pool /\ pool'[i] = pool[i]
               \/ \E j \in DOMAIN ts : pool'[i] = ts[j]
    <2>1. CASE i <= Len(pool)
      BY <2>1, <1>3
    <2>2. CASE i > Len(pool)
      <3>1. i - Len(pool) \in DOMAIN ts /\ pool'[i] = ts[i - Len(pool)]
        BY <2>2, <1>3
      <3> QED  BY <3>1
    <2> QED  BY <2>1, <2>2, <1>3
  <1>7. \A i \in DOMAIN pool : i \in DOMAIN pool' /\ pool'[i] = pool[i]
    BY <1>3
  <1>8. ASSUME NEW j \in DOMAIN ts PROVE \E i \in DOMAIN pool' : pool'[i] = ts[j]
    <2>1. /\ Len(pool) + j \in 1 .. Len(pool) + Len(ts) /\ ~(Len(pool) + j <= Len(pool))
          /\ (Len(pool) + j) - Len(pool) = j
      BY <1>3
    <2> QED  BY <1>3, <2>1
  <1>9. Range(strand') \subseteq Range(strand) /\ Range(strand) \ {Head(strand)} \subseteq Range(strand')
    BY <1>2, <1>4, <1>5 DEF Range
  <1>10. Range(pool') = Range(pool) \cup Range(ts)
    BY <1>6, <1>7, <1>8 DEF Range
  <1>11. Carriers' = {t \in Range(strand') : t.k = "batch"} \cup Range(pool')
    BY DEF Carriers
  <1>12. Head(strand) \in Range(strand)
    <2>1. 1 \in DOMAIN strand
      BY <1>2
    <2> QED  BY <1>2, <2>1 DEF Range
  <1>13. ASSUME Single, Head(strand).k = "batch" PROVE Head(strand) \notin Carriers'
    <2>1. \A i \in DOMAIN strand' : strand'[i] # Head(strand)
      <3> SUFFICES ASSUME NEW i \in DOMAIN strand', strand'[i] = Head(strand) PROVE FALSE
        OBVIOUS
      <3>1. i + 1 \in DOMAIN strand /\ strand[i + 1] = strand[1] /\ 1 \in DOMAIN strand
        BY <1>2, <1>4
      <3>2. i + 1 = 1
        BY <3>1, <1>13, <1>2 DEF Single
      <3> QED  BY <3>2, <1>2
    <2>2. \A i \in DOMAIN pool' : pool'[i].k # "batch"
      <3>1. \A i \in DOMAIN ts : ts[i] \in PoolTasks
        BY <1>3
      <3> QED  BY <3>1, <1>6, RunningInPool, PoolFields
    <2> QED  BY <2>1, <2>2, <1>11, <1>13 DEF Range
  <1> QED  BY <1>9, <1>10, <1>11, <1>12, <1>13 DEF Carriers

\* The pool ends a handler that posts ts to the strand.
LEMMA PoolCarries ==
    ASSUME ExecOk, NEW n \in DOMAIN pool, NEW ts \in Seq(StrandTasks), PoolDone(n, ts),
           \A j \in DOMAIN ts : ts[j].k = "batch"
    PROVE  /\ Carriers' \subseteq Carriers \cup Range(ts)
           /\ (Carriers \ {pool[n]}) \cup Range(ts) \subseteq Carriers'
           /\ pool[n] \in Carriers
           /\ Single => pool[n] \notin Carriers'
  <1>1. pool' = RemoveAt(pool, n) /\ strand' = strand \o ts
    BY DEF PoolDone
  <1>2. /\ pool' \in Seq(PoolTasks) /\ Len(pool') = Len(pool) - 1
        /\ DOMAIN pool = 1 .. Len(pool) /\ Len(pool) \in Nat
        /\ \A i \in DOMAIN pool' : \E j \in DOMAIN pool : pool'[i] = pool[j]
        /\ \A j \in 1 .. Len(pool) - 1 : pool'[j] = pool[IF j < n THEN j ELSE j + 1]
    <2>1. pool \in Seq(PoolTasks) /\ n \in DOMAIN pool
      BY DEF ExecOk
    <2> QED  BY <1>1, <2>1, RemoveAtProperties, LenProperties
  <1>3. DOMAIN pool' = 1 .. Len(pool) - 1
    BY <1>2, LenProperties
  <1>4. /\ \A i \in 1 .. Len(strand) + Len(ts) : strand'[i] =
              IF i <= Len(strand) THEN strand[i] ELSE ts[i - Len(strand)]
        /\ DOMAIN strand' = 1 .. Len(strand) + Len(ts) /\ DOMAIN strand = 1 .. Len(strand)
        /\ DOMAIN ts = 1 .. Len(ts) /\ Len(strand) \in Nat /\ Len(ts) \in Nat
    BY <1>1, ConcatProperties, LenProperties DEF ExecOk
  <1>5. ASSUME NEW j \in DOMAIN pool, j # n PROVE \E i \in DOMAIN pool' : pool'[i] = pool[j]
    <2>1. CASE j < n
      <3>1. j \in 1 .. Len(pool) - 1 /\ pool'[j] = pool[j]
        BY <2>1, <1>2
      <3> QED  BY <3>1, <1>3
    <2>2. CASE ~(j < n)
      <3>1. j - 1 \in 1 .. Len(pool) - 1 /\ ~(j - 1 < n) /\ (j - 1) + 1 = j
        BY <2>2, <1>2, <1>5
      <3>2. pool'[j - 1] = pool[j]
        BY <3>1, <1>2
      <3> QED  BY <3>1, <3>2, <1>3
    <2> QED  BY <2>1, <2>2
  <1>6. Range(pool') \subseteq Range(pool) /\ Range(pool) \ {pool[n]} \subseteq Range(pool')
    BY <1>2, <1>5 DEF Range
  <1>7. Range(strand') = Range(strand) \cup Range(ts)
    <2>1. ASSUME NEW i \in DOMAIN strand' PROVE strand'[i] \in Range(strand) \cup Range(ts)
      <3>1. CASE i <= Len(strand)
        BY <3>1, <1>4 DEF Range
      <3>2. CASE ~(i <= Len(strand))
        <4>1. i - Len(strand) \in DOMAIN ts /\ strand'[i] = ts[i - Len(strand)]
          BY <3>2, <1>4
        <4> QED  BY <4>1 DEF Range
      <3> QED  BY <3>1, <3>2
    <2>2. \A i \in DOMAIN strand : i \in DOMAIN strand' /\ strand'[i] = strand[i]
      BY <1>4
    <2>3. ASSUME NEW j \in DOMAIN ts PROVE \E i \in DOMAIN strand' : strand'[i] = ts[j]
      <3>1. /\ Len(strand) + j \in 1 .. Len(strand) + Len(ts) /\ ~(Len(strand) + j <= Len(strand))
            /\ (Len(strand) + j) - Len(strand) = j
        BY <1>4
      <3> QED  BY <1>4, <3>1
    <2> QED  BY <2>1, <2>2, <2>3 DEF Range
  <1>8. \A t \in Range(ts) : t.k = "batch"
    BY DEF Range
  <1>9. pool[n] \in Range(pool) /\ pool[n].k # "batch"
    BY RunningInPool DEF Range
  <1>10. Carriers' = {t \in Range(strand') : t.k = "batch"} \cup Range(pool')
    BY DEF Carriers
  <1>11. ASSUME Single PROVE pool[n] \notin Range(pool')
    <2> SUFFICES ASSUME NEW j \in DOMAIN pool', pool'[j] = pool[n] PROVE FALSE
      BY DEF Range
    <2>1. j \in 1 .. Len(pool) - 1 /\ pool'[j] = pool[IF j < n THEN j ELSE j + 1]
      BY <1>2, <1>3
    <2> DEFINE m == IF j < n THEN j ELSE j + 1
    <2>2. m \in DOMAIN pool /\ m # n
      BY <2>1, <1>2
    <2>3. pool[m].f = pool[n].f
      BY <2>1
    <2> HIDE DEF m
    <2> QED  BY <2>2, <2>3, <1>11 DEF Single
  <1> QED  BY <1>6, <1>7, <1>8, <1>9, <1>10, <1>11 DEF Carriers

\* A handler that is no batch is posted to the strand: nothing more is carried.
LEMMA PostCarries ==
    ASSUME ExecOk, NEW t \in StrandTasks, t.k # "batch", PostStrand(t)
    PROVE  Carriers' = Carriers /\ (Single => Single')
  <1>1. /\ pool' = pool
        /\ DOMAIN strand' = DOMAIN strand \cup {Len(strand) + 1}
        /\ \A i \in DOMAIN strand : strand'[i] = strand[i]
        /\ strand'[Len(strand) + 1] = t
    BY StrandPosted
  <1>2. Range(strand') = Range(strand) \cup {t}
    BY <1>1 DEF Range
  <1>3. Carriers' = Carriers
    BY <1>1, <1>2 DEF Carriers
  <1>4. ASSUME Single PROVE Single'
    BY <1>1, <1>3, <1>4 DEF Single
  <1> QED  BY <1>3, <1>4

\* The strand ends a handler that is no batch and posts nothing.
LEMMA EndCarries ==
    ASSUME ExecOk, strand # <<>>, Head(strand).k # "batch", StrandDone(<<>>)
    PROVE  Carriers' = Carriers /\ (Single => Single')
  <1>1. <<>> \in Seq(PoolTasks) /\ Range(<<>>) = {}
    BY EmptySeq DEF Range
  <1>2. Carriers' = Carriers
    BY <1>1, StrandCarries
  <1>3. /\ pool' = pool
        /\ \A i \in DOMAIN strand' : i + 1 \in DOMAIN strand /\ strand'[i] = strand[i + 1]
        /\ DOMAIN strand' \subseteq Nat
    BY StrandIsDone, LenProperties DEF ExecOk
  <1>4. ASSUME Single PROVE Single'
    <2>1. ASSUME NEW i \in DOMAIN strand', NEW j \in DOMAIN strand',
                 strand'[i].k = "batch", strand'[j].k = "batch", strand'[i].f = strand'[j].f
          PROVE  i = j
      <3>1. i + 1 = j + 1
        BY <2>1, <1>3, <1>4 DEF Single
      <3> QED  BY <3>1, <1>3
    <2> QED  BY <2>1, <1>2, <1>3, <1>4 DEF Single
  <1> QED  BY <1>2, <1>4

\* The strand ends a handler that posts t to the pool, and nothing else carries
\* what t carries.
LEMMA StrandSingle ==
    ASSUME ExecOk, Single, strand # <<>>, NEW t \in PoolTasks, StrandDone(<<t>>),
           \A u \in Carriers \ {Head(strand)} : u.f # t.f,
           Head(strand).k # "batch" \/ Head(strand).f = t.f
    PROVE  Single'
  <1>1. /\ <<t>> \in Seq(PoolTasks) /\ Range(<<t>>) = {t}
        /\ strand' = Tail(strand) /\ pool' = Append(pool, t)
    <2>1. pool' = pool \o <<t>> /\ strand' = Tail(strand)
      BY DEF StrandDone
    <2>2. pool \o <<t>> = Append(pool, t)
      BY AppendIsConcat DEF ExecOk
    <2> QED  BY <2>1, <2>2 DEF Range
  <1>2. /\ \A i \in DOMAIN strand' : i + 1 \in DOMAIN strand /\ strand'[i] = strand[i + 1]
        /\ DOMAIN strand' \subseteq Nat
    BY <1>1, StrandEnds, LenProperties DEF ExecOk
  <1>3. /\ DOMAIN pool' = DOMAIN pool \cup {Len(pool) + 1}
        /\ \A i \in DOMAIN pool : pool'[i] = pool[i]
        /\ pool'[Len(pool) + 1] = t
    BY <1>1 DEF ExecOk
  <1>4. ASSUME NEW i \in DOMAIN pool PROVE pool[i].f # t.f
    <2>1. pool[i] \in Carriers
      BY DEF Carriers, Range
    <2>2. pool[i] # Head(strand)
      BY RunningInPool, HeadTask, StrandFields
    <2> QED  BY <2>1, <2>2
  <1>5. /\ Carriers' \subseteq Carriers \cup {t}
        /\ Head(strand).k = "batch" => Head(strand) \notin Carriers'
    BY <1>1, StrandCarries
  <1>6. ASSUME NEW u \in Carriers', u # t PROVE u \in Carriers /\ u.f # t.f
    <2>1. u \in Carriers
      BY <1>5, <1>6
    <2>2. u # Head(strand)
      <3>1. CASE Head(strand).k = "batch"
        BY <3>1, <1>5
      <3>2. CASE Head(strand).k # "batch"
        <4>1. Head(strand).k \notin {"index", "batch", "commit"}
          BY <3>2, HeadTask, StrandFields
        <4> QED  BY <4>1, <2>1, CarrierFields
      <3> QED  BY <3>1, <3>2
    <2> QED  BY <2>1, <2>2
  <1>7. ASSUME NEW i \in DOMAIN strand', NEW j \in DOMAIN strand',
               strand'[i].k = "batch", strand'[j].k = "batch", strand'[i].f = strand'[j].f
        PROVE  i = j
    <2>1. i + 1 = j + 1
      BY <1>7, <1>2 DEF Single
    <2> QED  BY <2>1, <1>2
  <1>8. ASSUME NEW i \in DOMAIN pool', NEW j \in DOMAIN pool', pool'[i].f = pool'[j].f
        PROVE  i = j
    BY <1>3, <1>4, <1>8 DEF Single
  <1>9. ASSUME NEW u \in Carriers', NEW w \in Carriers', u.f = w.f PROVE u = w
    BY <1>6, <1>9 DEF Single
  <1> QED  BY <1>7, <1>8, <1>9 DEF Single

\* The strand ends a batch without a commit.
LEMMA BatchSingle ==
    ASSUME ExecOk, Single, strand # <<>>, StrandDone(<<>>)
    PROVE  Single'
  <1>1. <<>> \in Seq(PoolTasks) /\ Range(<<>>) = {}
    BY EmptySeq DEF Range
  <1>2. Carriers' \subseteq Carriers
    BY <1>1, StrandCarries
  <1>3. /\ pool' = pool
        /\ \A i \in DOMAIN strand' : i + 1 \in DOMAIN strand /\ strand'[i] = strand[i + 1]
        /\ DOMAIN strand' \subseteq Nat
    BY StrandIsDone, LenProperties DEF ExecOk
  <1>4. ASSUME NEW i \in DOMAIN strand', NEW j \in DOMAIN strand',
               strand'[i].k = "batch", strand'[j].k = "batch", strand'[i].f = strand'[j].f
        PROVE  i = j
    <2>1. i + 1 = j + 1
      BY <1>3, <1>4 DEF Single
    <2> QED  BY <2>1, <1>3
  <1> QED  BY <1>2, <1>3, <1>4 DEF Single

\* Places in the pool stay different when one is left.
LEMMA PoolPlaces ==
    ASSUME ExecOk, Single, NEW n \in DOMAIN pool, pool' = RemoveAt(pool, n)
    PROVE  /\ \A i, j \in DOMAIN pool' : pool'[i].f = pool'[j].f => i = j
           /\ \A i \in DOMAIN pool' : pool'[i].f # pool[n].f
  <1>1. /\ pool' \in Seq(PoolTasks) /\ Len(pool') = Len(pool) - 1
        /\ DOMAIN pool = 1 .. Len(pool) /\ Len(pool) \in Nat
        /\ \A j \in 1 .. Len(pool) - 1 : pool'[j] = pool[IF j < n THEN j ELSE j + 1]
    <2>1. pool \in Seq(PoolTasks) /\ n \in DOMAIN pool
      BY DEF ExecOk
    <2> QED  BY <2>1, RemoveAtProperties, LenProperties
  <1>2. DOMAIN pool' = 1 .. Len(pool) - 1
    BY <1>1, LenProperties
  <1> DEFINE m(j) == IF j < n THEN j ELSE j + 1
  <1>3. ASSUME NEW j \in DOMAIN pool' PROVE m(j) \in DOMAIN pool \ {n} /\ pool'[j] = pool[m(j)]
    BY <1>1, <1>2
  <1>4. ASSUME NEW i \in DOMAIN pool', NEW j \in DOMAIN pool', m(i) = m(j) PROVE i = j
    BY <1>1, <1>2, <1>4
  <1> HIDE DEF m
  <1>5. ASSUME NEW i \in DOMAIN pool', NEW j \in DOMAIN pool', pool'[i].f = pool'[j].f
        PROVE  i = j
    <2>1. m(i) = m(j)
      BY <1>3, <1>5 DEF Single
    <2> QED  BY <2>1, <1>4
  <1>6. ASSUME NEW i \in DOMAIN pool' PROVE pool'[i].f # pool[n].f
    BY <1>3 DEF Single
  <1> QED  BY <1>5, <1>6

\* A thread of the pool ends a handler that posts nothing.
LEMMA PoolEndSingle ==
    ASSUME ExecOk, Single, NEW n \in DOMAIN pool, PoolDone(n, <<>>)
    PROVE  Single'
  <1>1. <<>> \in Seq(StrandTasks) /\ Range(<<>>) = {} /\ DOMAIN <<>> = {}
    BY EmptySeq DEF Range
  <1>2. Carriers' \subseteq Carriers
    BY <1>1, PoolCarries
  <1>3. strand' = strand /\ pool' = RemoveAt(pool, n)
    BY PoolIsDone DEF PoolDone
  <1> QED  BY <1>2, <1>3, PoolPlaces DEF Single

\* A thread of the pool hands its batch to the strand.
LEMMA PoolIndexSingle ==
    ASSUME ExecOk, Single, NEW n \in DOMAIN pool, NEW b \in StrandTasks, PoolDone(n, <<b>>),
           b.k = "batch", b.f = pool[n].f
    PROVE  Single'
  <1>1. /\ <<b>> \in Seq(StrandTasks) /\ Range(<<b>>) = {b} /\ DOMAIN <<b>> = {1}
        /\ <<b>>[1] = b
    BY DEF Range
  <1>2. Carriers' \subseteq Carriers \cup {b} /\ pool[n] \notin Carriers' /\ pool[n] \in Carriers
    BY <1>1, PoolCarries
  <1>3. strand' = Append(strand, b) /\ pool' = RemoveAt(pool, n)
    <2>1. strand \o <<b>> = Append(strand, b)
      BY AppendIsConcat DEF ExecOk
    <2> QED  BY <2>1 DEF PoolDone
  <1>4. /\ DOMAIN strand' = DOMAIN strand \cup {Len(strand) + 1}
        /\ \A i \in DOMAIN strand : strand'[i] = strand[i]
        /\ strand'[Len(strand) + 1] = b
    BY <1>3 DEF ExecOk
  <1>5. ASSUME NEW u \in Carriers', u # b PROVE u \in Carriers /\ u.f # b.f
    BY <1>2, <1>5 DEF Single
  <1>6. ASSUME NEW i \in DOMAIN strand, strand[i].k = "batch" PROVE strand[i].f # b.f
    <2>1. strand[i] \in Carriers
      BY <1>6 DEF Carriers, Range
    <2>2. strand[i] # pool[n]
      BY <1>6, RunningInPool
    <2> QED  BY <2>1, <2>2, <1>2 DEF Single
  <1>7. ASSUME NEW i \in DOMAIN strand', NEW j \in DOMAIN strand',
               strand'[i].k = "batch", strand'[j].k = "batch", strand'[i].f = strand'[j].f
        PROVE  i = j
    BY <1>4, <1>6, <1>7 DEF Single
  <1>8. ASSUME NEW u \in Carriers', NEW w \in Carriers', u.f = w.f PROVE u = w
    BY <1>5, <1>8 DEF Single
  <1> QED  BY <1>3, <1>7, <1>8, PoolPlaces DEF Single

\* A point update takes up a changed file.
LEMMA UpsertCarries ==
    ASSUME ExecOk, StrandUpsert
    PROVE  Carriers' = IF Changed(Head(strand).f, Head(strand).v)
                       THEN Carriers \cup {IndexTask(Head(strand).f, TRUE)} ELSE Carriers
  <1>1. /\ strand # <<>> /\ Head(strand).k = "upsert" /\ Head(strand).k # "batch"
        /\ Head(strand).f \in Files
    BY Running DEF StrandUpsert
  <1> DEFINE t == IndexTask(Head(strand).f, TRUE)
  <1>2. t \in PoolTasks
    BY <1>1, Posts
  <1>3. IF Changed(Head(strand).f, Head(strand).v) THEN StrandDone(<<t>>) ELSE StrandDone(<<>>)
    BY DEF StrandUpsert
  <1> HIDE DEF t
  <1>4. CASE Changed(Head(strand).f, Head(strand).v)
    <2>1. <<t>> \in Seq(PoolTasks) /\ Range(<<t>>) = {t} /\ StrandDone(<<t>>)
      BY <1>2, <1>3, <1>4 DEF Range
    <2>2. Carriers' = Carriers \cup {t}
      BY <1>1, <2>1, StrandCarries
    <2> QED  BY <1>4, <2>2 DEF t
  <1>5. CASE ~Changed(Head(strand).f, Head(strand).v)
    BY <1>1, <1>3, <1>5, EndCarries
  <1> QED  BY <1>4, <1>5

\* What the strand posts for a batch.
WordsOf(u)    == WidsOf(u.words, WithWords(u.words))
BatchPosts(u) == IF u.words = {} \/ writerError THEN {}
                 ELSE {CommitTask(u.f, WordsOf(u), u.point)}

\* The strand ends a batch.
LEMMA BatchCarries ==
    ASSUME ExecOk, DictOk, StrandEmptyBatch \/ StrandBatch
    PROVE  /\ Head(strand) \in Carriers /\ Head(strand).k = "batch"
           /\ Carriers' \subseteq Carriers \cup BatchPosts(Head(strand))
           /\ (Carriers \ {Head(strand)}) \cup BatchPosts(Head(strand)) \subseteq Carriers'
           /\ Single => Head(strand) \notin Carriers' /\ Single'
  <1> DEFINE u == Head(strand)
  <1>1. /\ strand # <<>> /\ u.k = "batch" /\ u.f \in Files /\ u.point \in BOOLEAN
        /\ u.words \in SUBSET Words
    BY Running DEF StrandEmptyBatch, StrandBatch
  <1> DEFINE t == CommitTask(u.f, WordsOf(u), u.point)
  <1>2. t \in PoolTasks /\ t.f = u.f
    BY <1>1, CommitOfBatch DEF CommitTask, WordsOf
  <1>3. IF u.words = {} \/ writerError THEN StrandDone(<<>>) ELSE StrandDone(<<t>>)
    BY DEF StrandEmptyBatch, StrandBatch, WordsOf
  <1> HIDE DEF t
  <1>4. CASE u.words = {} \/ writerError
    <2>1. <<>> \in Seq(PoolTasks) /\ Range(<<>>) = {} /\ BatchPosts(u) = {} /\ StrandDone(<<>>)
      BY <1>3, <1>4, EmptySeq DEF Range, BatchPosts
    <2> QED  BY <1>1, <2>1, StrandCarries, BatchSingle
  <1>5. CASE ~(u.words = {} \/ writerError)
    <2>1. <<t>> \in Seq(PoolTasks) /\ Range(<<t>>) = {t} /\ BatchPosts(u) = {t} /\ StrandDone(<<t>>)
      BY <1>2, <1>3, <1>5 DEF Range, BatchPosts, t
    <2>2. /\ u \in Carriers
          /\ Carriers' \subseteq Carriers \cup {t}
          /\ (Carriers \ {u}) \cup {t} \subseteq Carriers'
          /\ Single => u \notin Carriers'
      BY <1>1, <2>1, StrandCarries
    <2>3. ASSUME Single PROVE Single'
      <3>1. \A w \in Carriers \ {u} : w.f # t.f
        BY <1>2, <2>2, <2>3 DEF Single
      <3> QED  BY <1>1, <1>2, <2>1, <2>3, <3>1, StrandSingle
    <2> QED  BY <1>1, <2>1, <2>2, <2>3
  <1> QED  BY <1>4, <1>5

\* The batch of a file in the pool.
FileBatch(u) == BatchTask(u.f, disk[u.f].words, u.point)

\* A thread of the pool has read a file.
LEMMA IndexCarries ==
    ASSUME DiskOk, ExecOk, NEW n \in DOMAIN pool, PoolIndex(n)
    PROVE  /\ pool[n] \in Carriers /\ pool[n].k = "index"
           /\ Carriers' \subseteq Carriers \cup {FileBatch(pool[n])}
           /\ (Carriers \ {pool[n]}) \cup {FileBatch(pool[n])} \subseteq Carriers'
           /\ Single => pool[n] \notin Carriers' /\ Single'
  <1> DEFINE b == FileBatch(pool[n])
  <1>1. pool[n].f \in Files /\ pool[n].point \in BOOLEAN /\ pool[n].k = "index"
    BY RunningInPool DEF PoolIndex
  <1>2. disk[pool[n].f].words \in SUBSET Words
    BY <1>1 DEF DiskOk
  <1>3. b \in StrandTasks /\ b.k = "batch" /\ b.f = pool[n].f
    BY <1>1, <1>2, Posts DEF BatchTask, FileBatch
  <1>4. PoolDone(n, <<b>>)
    BY DEF PoolIndex, FileBatch
  <1> HIDE DEF b
  <1>5. <<b>> \in Seq(StrandTasks) /\ Range(<<b>>) = {b} /\ \A j \in DOMAIN <<b>> : <<b>>[j] = b
    BY <1>3 DEF Range
  <1>6. /\ Carriers' \subseteq Carriers \cup {b}
        /\ (Carriers \ {pool[n]}) \cup {b} \subseteq Carriers'
        /\ pool[n] \in Carriers
        /\ Single => pool[n] \notin Carriers'
    BY <1>3, <1>4, <1>5, PoolCarries
  <1>7. Single => Single'
    BY <1>3, <1>4, PoolIndexSingle
  <1> QED  BY <1>1, <1>6, <1>7 DEF b

\* A thread of the pool has failed to read a file, or has committed its postings.
LEMMA DoneCarries ==
    ASSUME ExecOk, NEW n \in DOMAIN pool, PoolIndexFails(n) \/ PoolCommit(n)
    PROVE  /\ pool[n] \in Carriers /\ strand' = strand
           /\ Carriers' \subseteq Carriers
           /\ Carriers \ {pool[n]} \subseteq Carriers'
           /\ Single => pool[n] \notin Carriers' /\ Single'
  <1>1. PoolDone(n, <<>>)
    BY DEF PoolIndexFails, PoolCommit
  <1>2. <<>> \in Seq(StrandTasks) /\ Range(<<>>) = {} /\ DOMAIN <<>> = {}
    BY EmptySeq DEF Range
  <1> QED  BY <1>1, <1>2, PoolCarries, PoolEndSingle, PoolIsDone

\* The full update takes up the new and the changed files.
LEMMA DispatchCarries ==
    ASSUME UpdateOk, ExecOk, UpdateDispatch
    PROVE  /\ Carriers' = Carriers \cup {IndexTask(f, FALSE) : f \in toIndex}
           /\ strand' = strand
           /\ Carriers = {} => Single'
  <1> DEFINE T  == {IndexTask(f, FALSE) : f \in toIndex}
             ts == SetToSeq(T)
             im == [f \in toIndex |-> IndexTask(f, FALSE)]
  <1>1. pool' = pool \o ts /\ strand' = strand
    BY DEF UpdateDispatch
  <1>2. IsFiniteSet(T)
    <2>1. IsFiniteSet(toIndex)
      BY IndexAssumption, FS_Subset DEF UpdateOk
    <2>2. im \in Surjection(toIndex, T)
      BY DEF Surjection
    <2> HIDE DEF T, im
    <2> QED  BY <2>1, <2>2, FS_Surjection
  <1>3. T \subseteq PoolTasks
    BY Posts DEF UpdateOk
  <1>t. ASSUME NEW t \in T, NEW u \in T, t.f = u.f PROVE t = u
    <2>1. PICK f \in toIndex : t = IndexTask(f, FALSE)
      OBVIOUS
    <2>2. PICK g \in toIndex : u = IndexTask(g, FALSE)
      OBVIOUS
    <2>3. t.f = f /\ u.f = g
      BY <2>1, <2>2 DEF IndexTask
    <2> QED  BY <2>1, <2>2, <2>3, <1>t
  <1>4. /\ ts \in [1 .. Cardinality(T) -> T] /\ IsInjective(ts) /\ Cardinality(T) \in Nat
        /\ ts \in Seq(T) /\ Len(ts) = Cardinality(T)
        /\ \A t \in T : \E j \in DOMAIN ts : ts[j] = t
    <2> HIDE DEF T
    <2>1. ts \in Seq(T) /\ Len(ts) = Cardinality(T) /\ IsInjective(ts)
      BY <1>2, Listed
    <2>2. Cardinality(T) \in Nat
      BY <1>2, FS_CardinalityType
    <2> DEFINE n == Cardinality(T)
               K == {ts[j] : j \in 1 .. n}
    <2> HIDE DEF n, ts
    <2>3. ts \in [1 .. n -> T] /\ n \in Nat
      BY <2>1, <2>2, LenProperties DEF n
    <2>4. K \subseteq T /\ ts \in [1 .. n -> K]
      BY <2>3
    <2> HIDE DEF K
    <2>5. ts \in Injection(1 .. n, K)
      BY <2>1, <2>4 DEF Injection
    <2>6. ts \in Surjection(1 .. n, K)
      BY <2>4 DEF Surjection, K
    <2>7. IsFiniteSet(1 .. n) /\ Cardinality(1 .. n) = n
      BY <2>3, FS_Interval
    <2>8. IsFiniteSet(K) /\ Cardinality(K) = n
      BY <2>5, <2>6, <2>7, FS_Bijection DEF ExistsBijection, Bijection
    <2>9. K = T
      BY <1>2, <2>4, <2>8, FS_Subset DEF n
    <2>10. \A t \in T : \E j \in DOMAIN ts : ts[j] = t
      BY <2>3, <2>9 DEF K
    <2> QED  BY <2>1, <2>2, <2>3, <2>10 DEF n
  <1> HIDE DEF T, ts
  <1>5. ts \in Seq(PoolTasks) /\ Len(ts) \in Nat /\ DOMAIN ts = 1 .. Len(ts)
        /\ \A j \in DOMAIN ts : ts[j] \in T
    BY <1>3, <1>4, SeqMonotonic, LenProperties
  <1>6. /\ Len(pool) \in Nat /\ DOMAIN pool = 1 .. Len(pool)
        /\ DOMAIN pool' = 1 .. Len(pool) + Len(ts)
        /\ \A i \in 1 .. Len(pool) + Len(ts) : pool'[i] =
              IF i <= Len(pool) THEN pool[i] ELSE ts[i - Len(pool)]
    BY <1>1, <1>5, ConcatProperties, LenProperties DEF ExecOk
  <1>7. ASSUME NEW i \in DOMAIN pool' PROVE pool'[i] \in Range(pool) \cup T
    <2>1. CASE i <= Len(pool)
      BY <2>1, <1>6 DEF Range
    <2>2. CASE ~(i <= Len(pool))
      <3>1. i - Len(pool) \in DOMAIN ts /\ pool'[i] = ts[i - Len(pool)]
        BY <2>2, <1>5, <1>6
      <3> QED  BY <3>1, <1>5
    <2> QED  BY <2>1, <2>2
  <1>8. \A i \in DOMAIN pool : i \in DOMAIN pool' /\ pool'[i] = pool[i]
    BY <1>5, <1>6
  <1>9. ASSUME NEW t \in T PROVE \E i \in DOMAIN pool' : pool'[i] = t
    <2>1. PICK j \in DOMAIN ts : ts[j] = t
      BY <1>4
    <2>2. /\ Len(pool) + j \in 1 .. Len(pool) + Len(ts) /\ ~(Len(pool) + j <= Len(pool))
          /\ (Len(pool) + j) - Len(pool) = j
      BY <2>1, <1>5, <1>6
    <2> QED  BY <1>6, <2>1, <2>2
  <1>10. Range(pool') = Range(pool) \cup T
    BY <1>7, <1>8, <1>9 DEF Range
  <1>11. Carriers' = Carriers \cup T
    BY <1>1, <1>10 DEF Carriers
  <1>12. ASSUME Carriers = {} PROVE Single'
    <2>1. Len(pool) = 0 /\ \A i \in DOMAIN strand : strand[i].k # "batch"
      <3>1. DOMAIN pool = {}
        BY <1>12 DEF Carriers, Range
      <3> QED  BY <1>6, <1>12, <3>1 DEF Carriers, Range
    <2>2. DOMAIN pool' = DOMAIN ts /\ \A i \in DOMAIN pool' : pool'[i] = ts[i]
      BY <1>5, <1>6, <2>1
    <2>3. \A i, j \in DOMAIN pool' : pool'[i].f = pool'[j].f => i = j
      BY <1>4, <1>5, <1>t, <2>2 DEF IsInjective
    <2>4. \A t, u \in Carriers' : t.f = u.f => t = u
      BY <1>11, <1>12, <1>t
    <2> QED  BY <1>1, <2>1, <2>3, <2>4 DEF Single
  <1> QED  BY <1>1, <1>11, <1>12 DEF T

\* Every other step leaves the carriers alone.
LEMMA SameCarriers ==
    ASSUME DiskOk, CallOk, UpdateOk, ExecOk, Next
    PROVE  \/ Carriers' = Carriers /\ (Single => Single')
           \/ StrandUpsert \/ StrandEmptyBatch \/ StrandBatch \/ UpdateDispatch
           \/ \E n \in DOMAIN pool : PoolIndex(n) \/ PoolIndexFails(n) \/ PoolCommit(n)
  <1> DEFINE Same == Carriers' = Carriers /\ (Single => Single')
  <1>u. ASSUME UNCHANGED <<strand, pool>> PROVE Same
    BY <1>u DEF Carriers, Single
  <1>EnqueueUpdate. ASSUME NEW c \in Callers, EnqueueUpdate(c) PROVE Same
    <2> DEFINE t == UpsertTask(cop[c][1], disk[cop[c][1]].ver)
    <2>1. cpc[c] = "locked" /\ (UNCHANGED execVars \/ (disk[cop[c][1]] # Absent /\ PostStrand(t)))
      BY <1>EnqueueUpdate DEF EnqueueUpdate
    <2>2. disk[cop[c][1]] # Absent => t \in StrandTasks
      BY <2>1, CallerPosts
    <2>3. t.k # "batch"
      BY DEF UpsertTask
    <2> HIDE DEF t
    <2> QED  BY <1>u, <2>1, <2>2, <2>3, PostCarries DEF execVars
  <1>EnqueueDeletion. ASSUME NEW c \in Callers, EnqueueDeletion(c) PROVE Same
    <2> DEFINE t == DeleteTask(cop[c][1])
    <2>1. cpc[c] = "locked" /\ (UNCHANGED execVars \/ PostStrand(t))
      BY <1>EnqueueDeletion DEF EnqueueDeletion
    <2>2. t \in StrandTasks
      BY <2>1, CallerPosts
    <2>3. t.k # "batch"
      BY DEF DeleteTask
    <2> HIDE DEF t
    <2> QED  BY <1>u, <2>1, <2>2, <2>3, PostCarries DEF execVars
  <1>Strand. ASSUME \/ StrandDelete \/ StrandErase \/ StrandShrink
                    \/ StrandCompactSkip \/ StrandCompactEnd
             PROVE  Same
    <2>1. strand # <<>> /\ Head(strand).k # "batch" /\ StrandDone(<<>>)
      BY <1>Strand DEF StrandDelete, StrandErase, StrandShrink, StrandCompactSkip,
         StrandCompactEnd, StrandRuns
    <2> QED  BY <2>1, EndCarries
  <1>UpdateScan. ASSUME UpdateScan PROVE Same
    <2>1. CASE UNCHANGED strand
      <3>1. Len(strand) \in Nat
        BY LenProperties DEF ExecOk
      <3>2. UNCHANGED <<strand, pool>>
        BY <1>UpdateScan, <2>1 DEF UpdateScan, PostStrand, execVars
      <3> QED  BY <3>2, <1>u
    <2>2. CASE ~UNCHANGED strand
      <3>1. PICK e \in SUBSET Files, r \in SUBSET Files : PostStrand(EraseTask(e, r))
        BY <1>UpdateScan, <2>2, ScanPosts
      <3> DEFINE t == EraseTask(e, r)
      <3>2. t \in StrandTasks /\ t.k # "batch" /\ PostStrand(t)
        BY <3>1, Posts DEF EraseTask
      <3> HIDE DEF t
      <3> QED  BY <3>2, PostCarries
    <2> QED  BY <2>1, <2>2
  <1>UpdateFutures. ASSUME UpdateFutures PROVE Same
    <2>1. ShrinkTask \in StrandTasks /\ ShrinkTask.k # "batch" /\ PostStrand(ShrinkTask)
      BY <1>UpdateFutures, Posts DEF UpdateFutures, ShrinkTask
    <2> QED  BY <2>1, PostCarries
  <1>UpdateCompact. ASSUME UpdateCompact PROVE Same
    <2>1. CompactTask \in StrandTasks /\ CompactTask.k # "batch"
      BY Posts DEF CompactTask
    <2>2. UNCHANGED <<strand, pool>> \/ PostStrand(CompactTask)
      BY <1>UpdateCompact DEF UpdateCompact, execVars
    <2> QED  BY <1>u, <2>1, <2>2, PostCarries
  <1> HIDE DEF Same
  <1>o. \/ UNCHANGED <<strand, pool>>
        \/ (\E c \in Callers : EnqueueUpdate(c)) \/ (\E c \in Callers : EnqueueDeletion(c))
        \/ StrandDelete \/ StrandErase \/ StrandShrink \/ StrandCompactSkip
        \/ StrandCompactEnd \/ UpdateScan \/ UpdateFutures \/ UpdateCompact
        \/ StrandUpsert \/ StrandEmptyBatch \/ StrandBatch \/ UpdateDispatch
        \/ \E n \in DOMAIN pool : PoolIndex(n) \/ PoolIndexFails(n) \/ PoolCommit(n)
    BY DEF Next, Environment, CallerStep, StrandStep, PoolStep, MirrorStep,
       UpdateStep, StopStep, WriteFile, Notified, RemoveFile, MirrorFails,
       PointBegin, Call, TryLock, GoTo, Defer, Return, DeferInsert,
       DeferRecheck, StrandCompactBegin, MirrorWrites, UpdateBegin, UpdateLock,
       UpdateWait, UpdateScanThrows, UpdateTimeout, UpdateFlush,
       UpdateUnlock, UpdateDrain, UpdateReplay, UpdateSave, StopServer,
       StopIndex, StopClear, StopWait, execVars
  <1> QED  BY <1>u, <1>EnqueueUpdate, <1>EnqueueDeletion, <1>Strand, <1>UpdateScan,
           <1>UpdateFutures, <1>UpdateCompact, <1>o DEF Same

\* Where a carrier comes from.
CarrierFlow ==
    \A t \in Carriers' :
       \/ t \in Carriers
       \/ t.k = "index" /\ (StrandUpsert \/ UpdateDispatch)
       \/ \E u \in Carriers : u.k = "index" /\ t = FileBatch(u)
       \/ /\ StrandBatch /\ Head(strand) \in Carriers /\ Head(strand).k = "batch"
          /\ t = CommitTask(Head(strand).f, WordsOf(Head(strand)), Head(strand).point)

LEMMA CarrierFlowStep ==
    ASSUME DiskOk, CallOk, UpdateOk, ExecOk, DictOk, Next
    PROVE  CarrierFlow
  <1>1. CASE Carriers' = Carriers
    BY <1>1 DEF CarrierFlow
  <1>2. CASE StrandUpsert
    <2>1. IndexTask(Head(strand).f, TRUE).k = "index"
      BY DEF IndexTask
    <2> QED  BY <1>2, <2>1, UpsertCarries DEF CarrierFlow
  <1>3. CASE UpdateDispatch
    <2>1. \A f : IndexTask(f, FALSE).k = "index"
      BY DEF IndexTask
    <2> QED  BY <1>3, <2>1, DispatchCarries DEF CarrierFlow
  <1>4. CASE StrandEmptyBatch
    <2>1. Head(strand).words = {}
      BY <1>4 DEF StrandEmptyBatch
    <2>2. Carriers' \subseteq Carriers
      BY <1>4, <2>1, BatchCarries DEF BatchPosts
    <2> QED  BY <2>2 DEF CarrierFlow
  <1>5. CASE StrandBatch
    BY <1>5, BatchCarries DEF CarrierFlow, BatchPosts
  <1>6. ASSUME NEW n \in DOMAIN pool, PoolIndex(n) PROVE CarrierFlow
    BY <1>6, IndexCarries DEF CarrierFlow
  <1>7. ASSUME NEW n \in DOMAIN pool, PoolIndexFails(n) \/ PoolCommit(n) PROVE CarrierFlow
    BY <1>7, DoneCarries DEF CarrierFlow
  <1> QED  BY <1>1, <1>2, <1>3, <1>4, <1>5, <1>6, <1>7, SameCarriers

-----------------------------------------------------------------------------
(* Words and their numbers.  compact works on a copy of the postings and    *)
(* gives the words new numbers; a commit that is in the pool meanwhile has  *)
(* the old numbers and adds to the postings that are about to be replaced.  *)
(* While that does not happen, no posting comes under another word and      *)
(* none is lost.                                                            *)

\* While compact works there is no commit in the pool.
CommitsApart == updateMutex = Strand => \A i \in DOMAIN pool : pool[i].k # "commit"

\* What a path or a batch holds, the path has held.
HeldOk ==
    /\ \A f \in Files : disk[f].words \subseteq everHeld[f]
    /\ \A t \in Carriers : t.k = "batch" => t.words \subseteq everHeld[t.f]

\* The number i is that of a word f has held.
IsWordOf(i, f) == i \in DOMAIN wordIds /\ wordIds[i] \in everHeld[f]

\* What is committed or about to be is a word the document has held.
NumbersOk ==
    /\ \A t \in Carriers : t.k = "commit" => \A i \in t.wids : IsWordOf(i, t.f)
    /\ \A i \in Wids, f \in Files : chunks[i][f] > 0 => IsWordOf(i, f)

\* The copy compact works on is what it was taken from.
CopyOk == updateMutex = Strand => \A i \in DOMAIN flat : flat[i] = chunks[i]

\* A document whose postings the full update is about to erase is not marked.
EraseOk ==
    \A i \in DOMAIN strand : strand[i].k = "erase" =>
        \A f \in strand[i].erase : ~catalog[f].deleted

WordsInv == HeldOk /\ NumbersOk /\ CopyOk

\* The history only grows, and keeps up with the disk.
LEMMA HeldFlow ==
    ASSUME DiskOk, Next
    PROVE  /\ \A f \in Files : everHeld[f] \subseteq everHeld'[f]
           /\ \A f \in Files : disk'[f] = disk[f] \/ disk'[f].words \subseteq everHeld'[f]
  <1> DEFINE Grows == /\ \A f \in Files : everHeld[f] \subseteq everHeld'[f]
                      /\ \A f \in Files : disk'[f] = disk[f] \/ disk'[f].words \subseteq everHeld'[f]
  <1>u. ASSUME UNCHANGED <<disk, everHeld>> PROVE Grows
    BY <1>u
  <1>1. ASSUME NEW f \in Files, NEW w \in SUBSET Words, WriteFile(f, w) PROVE Grows
    BY <1>1 DEF WriteFile, DiskOk
  <1>2. ASSUME NEW f \in Files, RemoveFile(f) PROVE Grows
    BY <1>2 DEF RemoveFile, DiskOk, Absent
  <1> HIDE DEF Grows
  <1>o. \/ UNCHANGED <<disk, everHeld>>
        \/ (\E f \in Files, w \in SUBSET Words : WriteFile(f, w))
        \/ (\E f \in Files : RemoveFile(f))
    BY DEF Next, Environment, CallerStep, StrandStep, PoolStep, MirrorStep, UpdateStep,
       StopStep, MirrorFails, PointBegin, TryLock, EnqueueUpdate, EnqueueDeletion, Defer,
       DeferInsert, DeferRecheck, StrandUpsert, StrandDelete, StrandEmptyBatch, StrandBatch,
       StrandErase, StrandShrink, StrandCompactSkip, StrandCompactBegin, StrandCompactEnd,
       PoolIndex, PoolIndexFails, PoolCommit, MirrorWrites, UpdateBegin, UpdateLock,
       UpdateWait, UpdateScan, UpdateScanThrows, UpdateDispatch, UpdateTimeout,
       UpdateFutures, UpdateFlush, UpdateUnlock, UpdateDrain, UpdateReplay, UpdateCompact,
       UpdateSave, StopServer, StopIndex, StopClear, StopWait, envVars
  <1> QED  BY <1>u, <1>1, <1>2, <1>o DEF Grows

\* What a batch holds was on the disk.
LEMMA HeldStep ==
    ASSUME DiskOk, CallOk, UpdateOk, ExecOk, DictOk, HeldOk, Next
    PROVE  HeldOk'
  <1>1. /\ \A f \in Files : everHeld[f] \subseteq everHeld'[f]
        /\ \A f \in Files : disk'[f] = disk[f] \/ disk'[f].words \subseteq everHeld'[f]
    BY HeldFlow
  <1>2. \A f \in Files : disk'[f].words \subseteq everHeld'[f]
    BY <1>1 DEF HeldOk
  <1>3. ASSUME NEW t \in Carriers', t.k = "batch" PROVE t.words \subseteq everHeld'[t.f]
    <2>1. CASE t \in Carriers
      <3>1. t.words \subseteq everHeld[t.f] /\ t.f \in Files
        BY <2>1, <1>3, CarrierFields DEF HeldOk
      <3> QED  BY <3>1, <1>1
    <2>2. CASE \E u \in Carriers : u.k = "index" /\ t = FileBatch(u)
      <3>1. PICK u \in Carriers : t = FileBatch(u)
        BY <2>2
      <3>2. u.f \in Files /\ t.f = u.f /\ t.words = disk[u.f].words
        BY <3>1, CarrierFields DEF FileBatch, BatchTask
      <3> QED  BY <3>2, <1>1 DEF HeldOk
    <2> QED  BY <1>3, <2>1, <2>2, CarrierFlowStep DEF CarrierFlow, CommitTask
  <1> QED  BY <1>2, <1>3 DEF HeldOk

\* Until compact renumbers them, words keep their numbers.
LEMMA NumbersStay ==
    ASSUME ExecOk, DictOk, Next, ~StrandCompactEnd
    PROVE  \A i \in DOMAIN wordIds : i \in DOMAIN wordIds' /\ wordIds'[i] = wordIds[i]
  <1>1. CASE UNCHANGED wordIds
    BY <1>1
  <1>2. CASE StrandBatch
    <2>1. wordIds' = WithWords(Head(strand).words) /\ Head(strand).words \in SUBSET Words
      BY <1>2, Running DEF StrandBatch
    <2> QED  BY <2>1, NewWords
  <1>o. UNCHANGED wordIds \/ StrandBatch \/ StrandCompactEnd
    BY DEF Next, Environment, CallerStep, StrandStep, PoolStep, MirrorStep, UpdateStep,
       StopStep, WriteFile, RemoveFile, MirrorFails, PointBegin, TryLock, EnqueueUpdate,
       EnqueueDeletion, Defer, DeferInsert, DeferRecheck, StrandUpsert, StrandDelete,
       StrandEmptyBatch, StrandErase, StrandShrink, StrandCompactSkip,
       StrandCompactBegin, PoolIndex, PoolIndexFails, PoolCommit, MirrorWrites, UpdateBegin,
       UpdateLock, UpdateWait, UpdateScan, UpdateScanThrows, UpdateDispatch, UpdateTimeout,
       UpdateFutures, UpdateFlush, UpdateUnlock, UpdateDrain, UpdateReplay, UpdateCompact,
       UpdateSave, StopServer, StopIndex, StopClear, StopWait, indexVars
  <1> QED  BY <1>1, <1>2, <1>o

\* How a step changes the postings.
LEMMA PostingsChange ==
    ASSUME ExecOk, DictOk, RefsOk, Next
    PROVE  \/ StrandCompactEnd
           \/ \A i \in Wids, f \in Files : chunks'[i][f] \in {0, chunks[i][f]}
           \/ \E n \in DOMAIN pool :
                 /\ PoolCommit(n) /\ pool[n].k = "commit" /\ pool[n].f \in Files
                 /\ \A i \in Wids, f \in Files : chunks'[i][f] =
                       IF f = pool[n].f /\ i \in pool[n].wids THEN chunks[i][f] + 1
                                                              ELSE chunks[i][f]
  <1> DEFINE Falls == \A i \in Wids, f \in Files : chunks'[i][f] \in {0, chunks[i][f]}
  <1>u. ASSUME UNCHANGED chunks PROVE Falls
    BY <1>u
  <1>1. ASSUME StrandUpsert PROVE Falls
    <2>1. OldPostings(Head(strand).f) \in SUBSET Files
      BY <1>1, Running DEF StrandUpsert, OldPostings
    <2>2. EraseDocs(OldPostings(Head(strand).f)) \/ UNCHANGED chunks
      BY <1>1 DEF StrandUpsert
    <2> QED  BY <1>u, <2>1, <2>2, Erased
  <1>2. ASSUME StrandErase PROVE Falls
    <2>1. EraseDocs(Head(strand).erase) /\ Head(strand).erase \in SUBSET Files
      BY <1>2, Running DEF StrandErase
    <2> QED  BY <2>1, Erased
  <1>3. ASSUME NEW n \in DOMAIN pool, PoolCommit(n)
        PROVE  /\ pool[n].k = "commit" /\ pool[n].f \in Files
               /\ \A i \in Wids, f \in Files : chunks'[i][f] =
                     IF f = pool[n].f /\ i \in pool[n].wids THEN chunks[i][f] + 1
                                                            ELSE chunks[i][f]
    <2>1. pool[n].k = "commit" /\ pool[n].f \in Files
      BY <1>3, RunningInPool DEF PoolCommit
    <2>2. chunks' = [j \in Wids |-> [chunks[j] EXCEPT ![pool[n].f] =
                                       IF j \in pool[n].wids THEN @ + 1 ELSE @]]
      BY <1>3 DEF PoolCommit
    <2> QED  BY <2>1, <2>2 DEF DictOk
  <1> HIDE DEF Falls
  <1>o. UNCHANGED chunks \/ StrandUpsert \/ StrandErase \/ StrandCompactEnd
        \/ \E n \in DOMAIN pool : PoolCommit(n)
    BY DEF Next, Environment, CallerStep, StrandStep, PoolStep, MirrorStep, UpdateStep,
       StopStep, WriteFile, RemoveFile, MirrorFails, PointBegin, TryLock, EnqueueUpdate,
       EnqueueDeletion, Defer, DeferInsert, DeferRecheck, StrandDelete,
       StrandEmptyBatch, StrandBatch, StrandShrink, StrandCompactSkip,
       StrandCompactBegin, PoolIndex, PoolIndexFails, MirrorWrites, UpdateBegin,
       UpdateLock, UpdateWait, UpdateScan, UpdateScanThrows, UpdateDispatch, UpdateTimeout,
       UpdateFutures, UpdateFlush, UpdateUnlock, UpdateDrain, UpdateReplay, UpdateCompact,
       UpdateSave, StopServer, StopIndex, StopClear, StopWait, indexVars
  <1> QED  BY <1>u, <1>1, <1>2, <1>3, <1>o DEF Falls

\* The dictionary after compact, in terms of the one before: the words at j are
\* those at Kept[j], and the numbers left out had no posting.
LEMMA Compacted ==
    ASSUME DictOk, CopyOk, StrandCompactEnd
    PROVE  /\ updateMutex = Strand /\ DOMAIN wordIds \subseteq Wids
           /\ DOMAIN wordIds' = DOMAIN Kept
           /\ \A j \in DOMAIN Kept : /\ Kept[j] \in DOMAIN wordIds
                                     /\ wordIds'[j] = wordIds[Kept[j]]
           /\ \A j \in Wids, f \in Files : chunks'[j][f] =
                 IF j \in DOMAIN Kept THEN chunks[Kept[j]][f] ELSE 0
           /\ \A i \in DOMAIN wordIds, f \in Files : chunks[i][f] > 0 =>
                 \E j \in DOMAIN Kept : Kept[j] = i
  <1>1. /\ updateMutex = Strand
        /\ wordIds' = WordsKept
        /\ chunks' = [j \in Wids |-> IF j \in DOMAIN Kept THEN flat[Kept[j]] ELSE NoPostings]
    BY DEF StrandCompactEnd
  <1>2. /\ DOMAIN flat = DOMAIN wordIds /\ DOMAIN wordIds \subseteq Wids
        /\ \A i \in DOMAIN flat : flat[i] = chunks[i]
    BY <1>1, NumbersFit, LenProperties DEF DictOk, CopyOk
  <1>3. /\ Used \subseteq DOMAIN flat
        /\ \A j \in DOMAIN Kept : Kept[j] \in Used
        /\ \A i \in Used : \E j \in DOMAIN Kept : Kept[j] = i
    BY KeptProperties
  <1>4. \A j \in DOMAIN Kept : /\ Kept[j] \in DOMAIN wordIds
                               /\ flat[Kept[j]] = chunks[Kept[j]]
    BY <1>2, <1>3
  <1>5. \A j \in Wids, f \in Files : chunks'[j][f] =
                 IF j \in DOMAIN Kept THEN chunks[Kept[j]][f] ELSE 0
    BY <1>1, <1>4 DEF NoPostings
  <1>6. ASSUME NEW i \in DOMAIN wordIds, NEW f \in Files, chunks[i][f] > 0
        PROVE  i \in Used
    <2>1. flat[i] # NoPostings
      BY <1>2, <1>6 DEF NoPostings
    <2> QED  BY <1>2, <2>1 DEF Used
  <1> QED  BY <1>1, <1>2, <1>3, <1>4, <1>5, <1>6 DEF WordsKept

\* No posting comes under another word.
LEMMA NumbersStep ==
    ASSUME DiskOk, CallOk, UpdateOk, ExecOk, DictOk, RefsOk, HeldOk, NumbersOk, CopyOk,
           CommitsApart, Next
    PROVE  NumbersOk'
  <1>1. \A f \in Files : everHeld[f] \subseteq everHeld'[f]
    BY HeldFlow
  <1>2. CASE StrandCompactEnd
    <2>1. Carriers' = Carriers
      <3>1. strand # <<>> /\ Head(strand).k # "batch" /\ StrandDone(<<>>)
        BY <1>2 DEF StrandCompactEnd, StrandRuns
      <3> QED  BY <3>1, EndCarries
    <2>2. ASSUME NEW t \in Carriers' PROVE t.k # "commit"
      <3>1. updateMutex = Strand
        BY <1>2 DEF StrandCompactEnd
      <3>2. ASSUME t.k = "commit" PROVE t \in Range(pool)
        BY <2>1, <3>2, CarrierFields
      <3> QED  BY <3>1, <3>2 DEF CommitsApart, Range
    <2>3. ASSUME NEW j \in Wids, NEW f \in Files, chunks'[j][f] > 0
          PROVE  j \in DOMAIN wordIds' /\ wordIds'[j] \in everHeld'[f]
      <3>1. /\ j \in DOMAIN Kept /\ chunks[Kept[j]][f] > 0 /\ Kept[j] \in Wids
            /\ j \in DOMAIN wordIds' /\ wordIds'[j] = wordIds[Kept[j]]
        BY <1>2, <2>3, Compacted
      <3>2. wordIds[Kept[j]] \in everHeld[f]
        BY <3>1 DEF NumbersOk, IsWordOf
      <3> QED  BY <3>1, <3>2, <1>1
    <2> QED  BY <2>2, <2>3 DEF NumbersOk, IsWordOf
  <1>3. CASE ~StrandCompactEnd
    <2>1. \A i \in DOMAIN wordIds : i \in DOMAIN wordIds' /\ wordIds'[i] = wordIds[i]
      BY <1>3, NumbersStay
    <2>2. ASSUME NEW i, NEW f \in Files, IsWordOf(i, f)
          PROVE  i \in DOMAIN wordIds' /\ wordIds'[i] \in everHeld'[f]
      BY <1>1, <2>1, <2>2 DEF IsWordOf
    <2>3. ASSUME NEW t \in Carriers', t.k = "commit", NEW i \in t.wids
          PROVE  i \in DOMAIN wordIds' /\ wordIds'[i] \in everHeld'[t.f]
      <3>1. CASE t \in Carriers
        <4>1. IsWordOf(i, t.f) /\ t.f \in Files
          BY <2>3, <3>1, CarrierFields DEF NumbersOk
        <4> QED  BY <4>1, <2>2
      <3>2. CASE /\ StrandBatch /\ Head(strand) \in Carriers /\ Head(strand).k = "batch"
                 /\ t = CommitTask(Head(strand).f, WordsOf(Head(strand)), Head(strand).point)
        <4>1. /\ t.f = Head(strand).f /\ t.wids = WordsOf(Head(strand))
              /\ wordIds' = WithWords(Head(strand).words)
          BY <3>2 DEF CommitTask, StrandBatch
        <4>2. i \in DOMAIN wordIds' /\ wordIds'[i] \in Head(strand).words
          BY <2>3, <4>1 DEF WordsOf, WidsOf
        <4>3. Head(strand).words \subseteq everHeld[t.f] /\ t.f \in Files
          BY <3>2, <4>1, CarrierFields DEF HeldOk
        <4> QED  BY <4>2, <4>3, <1>1
      <3>3. ASSUME NEW u \in Carriers, t = FileBatch(u) PROVE FALSE
        BY <2>3, <3>3 DEF FileBatch, BatchTask
      <3> QED  BY <2>3, <3>1, <3>2, <3>3, CarrierFlowStep DEF CarrierFlow
    <2>4. ASSUME NEW i \in Wids, NEW f \in Files, chunks'[i][f] > 0
          PROVE  IsWordOf(i, f)
      <3>1. CASE chunks'[i][f] \in {0, chunks[i][f]}
        BY <2>4, <3>1 DEF NumbersOk
      <3>2. ASSUME NEW n \in DOMAIN pool, pool[n].k = "commit", f = pool[n].f, i \in pool[n].wids
            PROVE  IsWordOf(i, f)
        <4>1. pool[n] \in Carriers
          BY DEF Carriers, Range
        <4> QED  BY <3>2, <4>1 DEF NumbersOk
      <3> QED  BY <1>3, <2>4, <3>1, <3>2, PostingsChange
    <2> QED  BY <2>2, <2>3, <2>4 DEF NumbersOk, IsWordOf
  <1> QED  BY <1>2, <1>3

\* While compact works the postings do not change.
LEMMA CopyStep ==
    ASSUME ExecOk, DictOk, DictOk', RefsOk, CopyOk, CommitsApart, Next
    PROVE  CopyOk'
  <1>1. CASE StrandCompactBegin
    BY <1>1 DEF StrandCompactBegin, CopyOk
  <1>2. CASE UNCHANGED <<updateMutex, flat, chunks>>
    BY <1>2 DEF CopyOk
  <1>3. CASE updateMutex' # Strand
    BY <1>3 DEF CopyOk
  <1>4. CASE StrandUpsert \/ StrandErase
    <2>1. updateMutex' # Strand
      BY <1>4, NotCompacting DEF StrandUpsert, StrandErase, facadeVars
    <2> QED  BY <2>1, <1>3
  <1>5. ASSUME NEW n \in DOMAIN pool, PoolCommit(n) PROVE CopyOk'
    <2>1. updateMutex' # Strand
      BY <1>5 DEF PoolCommit, CommitsApart, facadeVars
    <2> QED  BY <2>1, <1>3
  <1>6. ASSUME NEW c \in Callers, TryLock(c) \/ EnqueueUpdate(c) \/ EnqueueDeletion(c)
        PROVE  CopyOk'
    <2>1. updateMutex' \in {updateMutex, c, Nobody} /\ c # Strand /\ Nobody # Strand
          /\ UNCHANGED <<flat, chunks>>
      BY <1>6, IndexAssumption DEF TryLock, EnqueueUpdate, EnqueueDeletion, indexVars, Callers
    <2> QED  BY <2>1, <1>2, <1>3
  <1>7. CASE UpdateLock \/ UpdateUnlock \/ StrandCompactEnd
    <2>1. updateMutex' # Strand
      BY <1>7, IndexAssumption DEF UpdateLock, UpdateUnlock, StrandCompactEnd
    <2> QED  BY <2>1, <1>3
  <1>o. \/ UNCHANGED <<updateMutex, flat, chunks>> \/ StrandCompactBegin
        \/ StrandUpsert \/ StrandErase \/ StrandCompactEnd \/ UpdateLock \/ UpdateUnlock
        \/ (\E n \in DOMAIN pool : PoolCommit(n))
        \/ \E c \in Callers : TryLock(c) \/ EnqueueUpdate(c) \/ EnqueueDeletion(c)
    BY DEF Next, Environment, CallerStep, StrandStep, PoolStep, MirrorStep, UpdateStep,
       StopStep, WriteFile, RemoveFile, MirrorFails, PointBegin, Defer, DeferInsert,
       DeferRecheck, StrandDelete, StrandEmptyBatch, StrandBatch, StrandShrink,
       StrandCompactSkip, PoolIndex, PoolIndexFails, MirrorWrites, UpdateBegin,
       UpdateWait, UpdateScan, UpdateScanThrows, UpdateDispatch, UpdateTimeout,
       UpdateFutures, UpdateFlush, UpdateDrain, UpdateReplay, UpdateCompact,
       UpdateSave, StopServer, StopIndex, StopClear, StopWait, indexVars, facadeVars
  <1> QED  BY <1>1, <1>2, <1>4, <1>5, <1>6, <1>7, <1>o

\* Nothing is indexed and nothing marked in the state the program starts in.
LEMMA InitWords == Init => WordsInv /\ EraseOk
  <1> SUFFICES ASSUME Init PROVE WordsInv /\ EraseOk
    OBVIOUS
  <1>1. strand = <<>> /\ pool = <<>> /\ updateMutex = Nobody /\ Nobody # Strand
    BY IndexAssumption DEF Init
  <1>2. Carriers = {}
    BY <1>1 DEF Carriers, Range
  <1>3. \A f \in Files : disk[f].words = {}
    BY DEF Init, Absent
  <1>4. \A i \in Wids, f \in Files : chunks[i][f] = 0
    BY DEF Init, NoPostings
  <1> QED  BY <1>1, <1>2, <1>3, <1>4 DEF WordsInv, HeldOk, NumbersOk, CopyOk, EraseOk

\* Every step preserves WordsInv.
LEMMA WordsStep ==
    ASSUME LiveInv, LiveInv', WordsInv, CommitsApart, [Next]_vars
    PROVE  WordsInv'
  <1>0. /\ DiskOk /\ CallOk /\ UpdateOk /\ ExecOk /\ DictOk /\ RefsOk /\ DictOk'
        /\ HeldOk /\ NumbersOk /\ CopyOk
    BY DEF LiveInv, Types, WordsInv
  <1>1. CASE Next
    BY <1>0, <1>1, HeldStep, NumbersStep, CopyStep DEF WordsInv
  <1>2. CASE UNCHANGED vars
    <2>1. UNCHANGED <<disk, everHeld, wordIds, chunks, flat, strand, pool, updateMutex>>
      BY <1>2 DEF vars, envVars, indexVars, execVars, facadeVars
    <2>2. Carriers' = Carriers
      BY <2>1 DEF Carriers
    <2>3. HeldOk'
      BY <1>0, <2>1, <2>2 DEF HeldOk
    <2>4. NumbersOk'
      BY <1>0, <2>1, <2>2 DEF NumbersOk, IsWordOf
    <2>5. CopyOk'
      BY <1>0, <2>1 DEF CopyOk
    <2> QED  BY <2>3, <2>4, <2>5 DEF WordsInv
  <1> QED  BY <1>1, <1>2

LEMMA AlwaysWords == Spec /\ []CommitsApart => []WordsInv
  <1>1. LiveInv /\ LiveInv' /\ WordsInv /\ CommitsApart /\ [Next]_vars => WordsInv'
    BY WordsStep
  <1> QED  BY <1>1, InitWords, AlwaysLive, PTL DEF Spec

\* While no commit is in the pool when compact takes its copy, and none comes
\* before it has put it back, a search for a word finds only documents that
\* once held the word: through any number of batches, erasures, timeouts,
\* failures and renumberings.
THEOREM WordsKeepTheirNumbers == Spec /\ []CommitsApart => []NoForeignWords
  <1>1. LiveInv /\ WordsInv => NoForeignWords
    <2> SUFFICES ASSUME LiveInv, WordsInv PROVE NoForeignWords
      OBVIOUS
    <2>1. /\ DictOk /\ NumbersOk /\ DOMAIN wordIds \subseteq Wids
      BY NumbersFit DEF LiveInv, Types, DictOk, WordsInv
    <2>2. ASSUME NEW f \in Files PROVE Posted(f) \subseteq everHeld[f]
      BY <2>1 DEF Posted, NumbersOk, IsWordOf
    <2>3. ASSUME NEW i \in Wids \ DOMAIN wordIds PROVE chunks[i] = NoPostings
      <3>1. chunks[i] \in [Files -> Nat]
        BY <2>1 DEF DictOk
      <3>2. \A f \in Files : ~(chunks[i][f] > 0)
        BY <2>1, <2>3 DEF NumbersOk, IsWordOf
      <3>3. \A f \in Files : chunks[i][f] = 0
        BY <3>1, <3>2
      <3> QED  BY <3>1, <3>3 DEF NoPostings
    <2> QED  BY <2>2, <2>3 DEF NoForeignWords
  <1> QED  BY <1>1, AlwaysLive, AlwaysWords, PTL

-----------------------------------------------------------------------------
(* The eternal trace.                                                      *)

\* How the marks change.
LEMMA MarksChange ==
    ASSUME DiskOk, StoreOk, UpdateOk, ExecOk, Next
    PROVE  \/ \A f \in Files : catalog'[f].deleted => catalog[f].deleted
           \/ StrandDelete
           \/ UpdateScan /\ \A f \in scanned : catalog'[f].deleted => catalog[f].deleted
  <1> DEFINE Fewer == \A f \in Files : catalog'[f].deleted => catalog[f].deleted
  <1>u. ASSUME UNCHANGED catalog PROVE Fewer
    BY <1>u
  <1>1. ASSUME StrandUpsert PROVE Fewer
    <2>1. catalog' = [catalog EXCEPT ![Head(strand).f] =
                        IF Changed(Head(strand).f, Head(strand).v)
                        THEN Recorded(Head(strand).v) ELSE @]
      BY <1>1 DEF StrandUpsert
    <2> QED  BY <2>1 DEF StoreOk, Recorded
  <1>s. \A f \in Files : Seen(f).deleted => catalog[f].deleted
    BY DEF Seen, Recorded
  <1>2. ASSUME UpdateScan PROVE \A f \in scanned : catalog'[f].deleted => catalog[f].deleted
    BY <1>2, <1>s DEF UpdateScan, UpdateOk
  <1>3. ASSUME UpdateScanThrows PROVE Fewer
    <2>1. PICK S : catalog' = [f \in Files |-> IF f \in S THEN Seen(f) ELSE catalog[f]]
      BY <1>3 DEF UpdateScanThrows
    <2> QED  BY <2>1, <1>s
  <1> HIDE DEF Fewer
  <1>o. UNCHANGED catalog \/ StrandUpsert \/ StrandDelete \/ UpdateScan \/ UpdateScanThrows
    BY DEF Next, Environment, CallerStep, StrandStep, PoolStep, MirrorStep, UpdateStep,
       StopStep, WriteFile, RemoveFile, MirrorFails, PointBegin, TryLock, EnqueueUpdate,
       EnqueueDeletion, Defer, DeferInsert, DeferRecheck, StrandEmptyBatch, StrandBatch,
       StrandErase, StrandShrink, StrandCompactSkip, StrandCompactBegin, StrandCompactEnd,
       PoolIndex, PoolIndexFails, PoolCommit, MirrorWrites, UpdateBegin, UpdateLock,
       UpdateWait, UpdateDispatch, UpdateTimeout, UpdateFutures, UpdateFlush, UpdateUnlock,
       UpdateDrain, UpdateReplay, UpdateCompact, UpdateSave, StopServer, StopIndex,
       StopClear, StopWait, indexVars
  <1> QED  BY <1>u, <1>1, <1>2, <1>3, <1>o DEF Fewer

\* Where an erasure comes from, and what it erases.
LEMMA EraseFlow ==
    ASSUME DiskOk, CallOk, UpdateOk, ExecOk, DictOk, Next,
           NEW i \in DOMAIN strand', strand'[i].k = "erase"
    PROVE  \/ \E j \in DOMAIN strand : strand'[i] = strand[j]
           \/ /\ UpdateScan /\ strand'[i].erase \subseteq scanned
              /\ \A f \in strand'[i].erase : ~catalog'[f].deleted
              /\ \A f \in toIndex' : catalog[f].known => f \in strand'[i].erase
  <1>1. CASE UpdateScan
    <2> DEFINE added   == {f \in scanned : ~catalog[f].known}
               updated == {f \in scanned \ added : Changed(f, disk[f].ver)}
               removed == {f \in Files \ scanned : catalog[f].known /\ ~catalog[f].deleted}
               t       == EraseTask(updated, removed)
    <2>1. strand' = strand \/ PostStrand(t)
      BY <1>1 DEF UpdateScan, execVars
    <2>2. updated \subseteq scanned /\ scanned \subseteq Files
      BY DEF UpdateOk
    <2>3. ASSUME NEW f \in updated PROVE ~catalog'[f].deleted
      <3>1. f \in scanned /\ f \in Files /\ Changed(f, disk[f].ver)
        BY <2>2
      <3>2. catalog'[f] = Recorded(disk[f].ver)
        BY <1>1, <3>1 DEF UpdateScan, Seen
      <3> QED  BY <3>2 DEF Recorded
    <2>4. t \in StrandTasks /\ t.erase = updated
      <3>1. removed \in SUBSET Files /\ updated \in SUBSET Files
        BY <2>2
      <3> HIDE DEF updated, removed
      <3> QED  BY <3>1, Posts DEF EraseTask
    <2>5. \A f \in toIndex' : catalog[f].known => f \in updated
      BY <1>1 DEF UpdateScan
    <2> HIDE DEF t, updated
    <2>6. CASE strand' = strand
      BY <2>6
    <2>7. CASE PostStrand(t)
      BY <1>1, <2>2, <2>3, <2>4, <2>5, <2>7, StrandPosted
    <2> QED  BY <2>1, <2>6, <2>7
  <1>2. CASE ~UpdateScan
    BY <1>2, StrandFlowStep DEF StrandFlow
  <1> QED  BY <1>1, <1>2

\* No step marks a document the full update is about to erase.
LEMMA EraseStep ==
    ASSUME DiskOk, StoreOk, CallOk, UpdateOk, ExecOk, DictOk, SignalOk, AloneOk, EraseOk, Next
    PROVE  EraseOk'
  <1> SUFFICES ASSUME NEW i \in DOMAIN strand', strand'[i].k = "erase",
                      NEW f \in strand'[i].erase
               PROVE  ~catalog'[f].deleted
    BY DEF EraseOk
  <1>1. CASE \E j \in DOMAIN strand : strand'[i] = strand[j]
    <2>1. PICK j \in DOMAIN strand : strand'[i] = strand[j]
      BY <1>1
    <2>2. ~catalog[f].deleted /\ upc = "erasing" /\ f \in Files
      <3>1. strand[j] \in StrandTasks
        BY DEF ExecOk
      <3> QED  BY <2>1, <3>1, StrandFields DEF EraseOk, SignalOk
    <2>3. ~StrandDelete
      <3>1. ASSUME StrandDelete PROVE IsPoint(strand[1]) /\ 1 \in DOMAIN strand
        BY <3>1, Running DEF StrandDelete, IsPoint
      <3> QED  BY <3>1, <2>2 DEF AloneOk, Locked
    <2>4. ~UpdateScan
      BY <2>2 DEF UpdateScan
    <2> QED  BY <2>2, <2>3, <2>4, MarksChange
  <1> QED  BY <1>1, EraseFlow

\* Only compact and the erasure of a document take its postings away.
LEMMA PostingsStay ==
    ASSUME StoreOk, ExecOk, DictOk, RefsOk, EraseOk, Next, ~StrandCompactEnd,
           NEW f \in Files, catalog[f].deleted, catalog'[f].deleted
    PROVE  \A i \in Wids : chunks[i][f] > 0 => chunks'[i][f] > 0
  <1> DEFINE Kept1 == \A i \in Wids : chunks[i][f] > 0 => chunks'[i][f] > 0
  <1>u. ASSUME UNCHANGED chunks PROVE Kept1
    BY <1>u
  <1>e. ASSUME NEW E \in SUBSET Files, f \notin E, EraseDocs(E) PROVE Kept1
    BY <1>e DEF EraseDocs
  <1>1. ASSUME StrandUpsert PROVE Kept1
    <2>1. /\ OldPostings(Head(strand).f) \in SUBSET Files
          /\ OldPostings(Head(strand).f) \subseteq {Head(strand).f}
      BY <1>1, Running DEF StrandUpsert, OldPostings
    <2>2. CASE Changed(Head(strand).f, Head(strand).v)
      <3>1. Head(strand).f # f
        BY <1>1, <2>2 DEF StrandUpsert, Recorded, StoreOk
      <3> QED  BY <1>1, <1>e, <2>1, <2>2, <3>1 DEF StrandUpsert
    <2>3. CASE ~Changed(Head(strand).f, Head(strand).v)
      BY <1>1, <1>u, <2>3 DEF StrandUpsert
    <2> QED  BY <2>2, <2>3
  <1>2. ASSUME StrandErase PROVE Kept1
    <2>1. /\ EraseDocs(Head(strand).erase) /\ Head(strand).erase \in SUBSET Files
          /\ 1 \in DOMAIN strand /\ Head(strand) = strand[1] /\ strand[1].k = "erase"
      BY <1>2, Running DEF StrandErase
    <2>2. f \notin Head(strand).erase
      BY <2>1 DEF EraseOk
    <2> QED  BY <1>e, <2>1, <2>2
  <1>3. ASSUME NEW n \in DOMAIN pool, PoolCommit(n) PROVE Kept1
    <2>1. chunks' = [j \in Wids |-> [chunks[j] EXCEPT ![pool[n].f] =
                                       IF j \in pool[n].wids THEN @ + 1 ELSE @]]
      BY <1>3 DEF PoolCommit
    <2>2. \A i \in Wids : chunks'[i][f] \in {chunks[i][f], chunks[i][f] + 1}
                          /\ chunks[i][f] \in Nat
      BY <2>1 DEF DictOk
    <2> QED  BY <2>2
  <1> HIDE DEF Kept1
  <1>o. UNCHANGED chunks \/ StrandUpsert \/ StrandErase \/ StrandCompactEnd
        \/ \E n \in DOMAIN pool : PoolCommit(n)
    BY DEF Next, Environment, CallerStep, StrandStep, PoolStep, MirrorStep, UpdateStep,
       StopStep, WriteFile, RemoveFile, MirrorFails, PointBegin, TryLock, EnqueueUpdate,
       EnqueueDeletion, Defer, DeferInsert, DeferRecheck, StrandDelete,
       StrandEmptyBatch, StrandBatch, StrandShrink, StrandCompactSkip,
       StrandCompactBegin, PoolIndex, PoolIndexFails, MirrorWrites, UpdateBegin,
       UpdateLock, UpdateWait, UpdateScan, UpdateScanThrows, UpdateDispatch, UpdateTimeout,
       UpdateFutures, UpdateFlush, UpdateUnlock, UpdateDrain, UpdateReplay, UpdateCompact,
       UpdateSave, StopServer, StopIndex, StopClear, StopWait, indexVars
  <1> QED  BY <1>u, <1>1, <1>2, <1>3, <1>o DEF Kept1

\* A step that takes a posting of a marked document away unmarks it.
LEMMA TraceStep ==
    ASSUME StoreOk, ExecOk, DictOk, RefsOk, CopyOk, EraseOk, Next,
           NEW f \in Files, catalog[f].deleted, catalog'[f].deleted
    PROVE  Posted(f) \subseteq Posted(f)'
  <1> SUFFICES ASSUME NEW i \in DOMAIN wordIds, chunks[i][f] > 0
               PROVE  \E j \in DOMAIN wordIds' : chunks'[j][f] > 0 /\ wordIds'[j] = wordIds[i]
    BY DEF Posted
  <1>0. DOMAIN wordIds \subseteq Wids
    BY NumbersFit DEF DictOk
  <1>1. CASE StrandCompactEnd
    <2>2. PICK j \in DOMAIN Kept : Kept[j] = i
      BY <1>1, Compacted
    <2>3. j \in DOMAIN wordIds' /\ wordIds'[j] = wordIds[i]
      BY <1>1, <2>2, Compacted
    <2>4. j \in Wids
      <3>1. wordIds' \in Seq(Words) /\ IsInjective(wordIds')
        BY <1>1, Compacted, Rebuilt
      <3> QED  BY <2>3, <3>1, NumbersFit
    <2>5. chunks'[j][f] = chunks[i][f]
      BY <1>1, <2>2, <2>4, Compacted
    <2> QED  BY <2>3, <2>5
  <1>2. CASE ~StrandCompactEnd
    <2>1. i \in DOMAIN wordIds' /\ wordIds'[i] = wordIds[i]
      BY <1>2, NumbersStay
    <2>2. chunks'[i][f] > 0
      BY <1>0, <1>2, PostingsStay
    <2> QED  BY <2>1, <2>2
  <1> QED  BY <1>1, <1>2

LEMMA AlwaysErase == Spec => []EraseOk
  <1>1. ASSUME LiveInv, EraseOk, [Next]_vars PROVE EraseOk'
    <2>1. CASE Next
      BY <1>1, <2>1, EraseStep DEF LiveInv, Types
    <2>2. CASE UNCHANGED vars
      <3>1. UNCHANGED <<strand, catalog>>
        BY <2>2 DEF vars, execVars, indexVars
      <3> QED  BY <1>1, <3>1 DEF EraseOk
    <2> QED  BY <1>1, <2>1, <2>2
  <1> QED  BY <1>1, InitWords, AlwaysLive, PTL DEF Spec

\* While a document is marked deleted no step takes a posting of it away, compact
\* included, as long as no commit is in the pool while compact works: the delete
\* handler keeps the postings, and the erasures of a full update, decided before
\* they reach the strand, are never of a document that is still marked.
THEOREM TraceIsEternal == Spec /\ []CommitsApart => EternalTrace
  <1> DEFINE Keeps == \A f \in Files : catalog[f].deleted /\ catalog'[f].deleted =>
                          Posted(f) \subseteq Posted(f)'
  <1>1. ASSUME LiveInv, WordsInv, EraseOk, [Next]_vars PROVE [Keeps]_vars
    <2>1. CASE Next
      BY <1>1, <2>1, TraceStep DEF LiveInv, Types, WordsInv
    <2>2. CASE UNCHANGED vars
      BY <2>2
    <2> QED  BY <1>1, <2>1, <2>2
  <1>2. EternalTrace <=> [][Keeps]_vars
    BY DEF EternalTrace
  <1> HIDE DEF Keeps
  <1> QED  BY <1>1, <1>2, AlwaysLive, AlwaysWords, AlwaysErase, PTL DEF Spec

-----------------------------------------------------------------------------
(* One update of a file after another.  A point update erases the postings  *)
(* of a file when the strand takes it up, and adds them again when the pool *)
(* commits; a second one that is taken up in between finds nothing to erase.*)
(* While that does not happen, commits take effect in the order of the      *)
(* strand.                                                                  *)

\* When the strand takes up a point update of a changed file, none is under way.
OneAfterAnother ==
    StrandRuns("upsert") /\ Changed(Head(strand).f, Head(strand).v) =>
        \A t \in Carriers : t.f # Head(strand).f

\* A full update begins with nothing under way.
Diff == {"scan", "erasing", "dispatch"}
SingleInv == Single /\ (upc \in Diff => Carriers = {})

\* How a full update gets there.
LEMMA DiffFlow ==
    ASSUME UpdateOk, ExecOk, SignalOk, Next, upc' \in Diff
    PROVE  /\ upc \in Diff \/ (UpdateWait /\ Idle /\ UNCHANGED <<strand, pool>>)
           /\ ~UpdateDispatch
           /\ upc' = "dispatch" => UNCHANGED upc \/ StrandErase
           /\ upc' = "erasing" => UNCHANGED upc \/ UpdateScan
  <1>1. CASE UNCHANGED upc
    BY <1>1 DEF UpdateDispatch, Diff
  <1>2. CASE StrandErase
    BY <1>2, Running DEF StrandErase, SignalOk, Diff, UpdateDispatch
  <1>3. CASE UpdateWait
    BY <1>3 DEF UpdateWait, execVars, Diff, UpdateDispatch
  <1>4. CASE UpdateScan
    BY <1>4 DEF UpdateScan, Diff, UpdateDispatch
  <1>5. CASE \/ StrandShrink \/ UpdateBegin \/ UpdateLock \/ UpdateScanThrows \/ UpdateDispatch
             \/ UpdateFutures \/ UpdateFlush \/ UpdateUnlock \/ UpdateDrain
             \/ UpdateCompact \/ UpdateSave
    BY <1>1, <1>5 DEF StrandShrink, UpdateBegin, UpdateLock, UpdateScanThrows, UpdateDispatch,
       UpdateFutures, UpdateFlush, UpdateUnlock, UpdateDrain, UpdateCompact, UpdateSave, Diff
  <1>o. \/ UNCHANGED upc
        \/ StrandErase \/ StrandShrink \/ UpdateBegin \/ UpdateLock \/
           UpdateWait \/ UpdateScan \/ UpdateScanThrows \/ UpdateDispatch \/
           UpdateFutures \/ UpdateFlush \/ UpdateUnlock \/ UpdateDrain \/
           UpdateCompact \/ UpdateSave
    BY DEF Next, Environment, CallerStep, StrandStep, PoolStep, MirrorStep,
       UpdateStep, StopStep, WriteFile, Notified, RemoveFile, MirrorFails,
       PointBegin, Call, TryLock, GoTo, EnqueueUpdate, Return, PostStrand,
       EnqueueDeletion, Defer, DeferInsert, DeferRecheck, StrandUpsert,
       EraseDocs, StrandDone, StrandDelete, StrandEmptyBatch, Settle,
       StrandBatch, StrandCompactSkip, StrandCompactBegin, StrandCompactEnd,
       PoolIndex, PoolDone, PoolIndexFails, PoolCommit, MirrorWrites,
       UpdateTimeout, UpdateReplay, StopServer, StopIndex, StopClear, StopWait,
       updateVars
  <1> QED  BY <1>1, <1>2, <1>3, <1>4, <1>5, <1>o

\* No file is carried twice.
LEMMA SingleStep ==
    ASSUME DiskOk, CallOk, UpdateOk, ExecOk, DictOk, SignalOk, AloneOk,
           SingleInv, OneAfterAnother, Next
    PROVE  SingleInv'
  <1>0. Single /\ (upc \in Diff => Carriers = {})
    BY DEF SingleInv
  <1>1. Single'
    <2>1. CASE StrandUpsert
      <3>1. /\ strand # <<>> /\ Head(strand).k = "upsert" /\ Head(strand).f \in Files
            /\ StrandRuns("upsert")
        BY <2>1, Running DEF StrandUpsert
      <3> DEFINE t == IndexTask(Head(strand).f, TRUE)
      <3>2. t \in PoolTasks /\ t.f = Head(strand).f
        BY <3>1, Posts DEF IndexTask
      <3>3. IF Changed(Head(strand).f, Head(strand).v) THEN StrandDone(<<t>>) ELSE StrandDone(<<>>)
        BY <2>1 DEF StrandUpsert
      <3> HIDE DEF t
      <3>4. CASE Changed(Head(strand).f, Head(strand).v)
        <4>1. \A u \in Carriers : u.f # t.f
          BY <3>1, <3>2, <3>4 DEF OneAfterAnother
        <4> QED  BY <1>0, <3>1, <3>2, <3>3, <3>4, <4>1, StrandSingle
      <3>5. CASE ~Changed(Head(strand).f, Head(strand).v)
        BY <1>0, <3>1, <3>3, <3>5, EndCarries
      <3> QED  BY <3>4, <3>5
    <2>2. CASE StrandEmptyBatch \/ StrandBatch
      BY <1>0, <2>2, BatchCarries
    <2>3. CASE UpdateDispatch
      <3>1. Carriers = {}
        BY <1>0, <2>3 DEF UpdateDispatch, Diff
      <3> QED  BY <2>3, <3>1, DispatchCarries
    <2>4. ASSUME NEW n \in DOMAIN pool, PoolIndex(n) PROVE Single'
      BY <1>0, <2>4, IndexCarries
    <2>5. ASSUME NEW n \in DOMAIN pool, PoolIndexFails(n) \/ PoolCommit(n) PROVE Single'
      BY <1>0, <2>5, DoneCarries
    <2> QED  BY <1>0, <2>1, <2>2, <2>3, <2>4, <2>5, SameCarriers
  <1>2. ASSUME upc' \in Diff PROVE Carriers' = {}
    <2>1. CASE Idle /\ UNCHANGED <<strand, pool>>
      <3>1. strand = <<>> /\ pool = <<>>
        BY <2>1, LenProperties, EmptySeq DEF Idle, ExecOk
      <3> QED  BY <2>1, <3>1 DEF Carriers, Range
    <2>2. CASE upc \in Diff
      <3>1. Carriers = {}
        BY <1>0, <2>2
      <3>2. ~StrandUpsert
        <4>1. ASSUME StrandUpsert PROVE IsPoint(strand[1]) /\ 1 \in DOMAIN strand
          BY <4>1, Running DEF StrandUpsert, IsPoint
        <4> QED  BY <4>1, <2>2 DEF AloneOk, Locked, Diff
      <3>3. ~UpdateDispatch
        BY <1>2, DiffFlow
      <3> QED  BY <3>1, <3>2, <3>3, CarrierFlowStep DEF CarrierFlow
    <2> QED  BY <1>2, <2>1, <2>2, DiffFlow
  <1> QED  BY <1>1, <1>2 DEF SingleInv

LEMMA AlwaysSingle == Spec /\ []OneAfterAnother => []SingleInv
  <1>1. Init => SingleInv
    <2> SUFFICES ASSUME Init PROVE SingleInv
      OBVIOUS
    <2>1. strand = <<>> /\ pool = <<>> /\ Carriers = {}
      BY DEF Init, Carriers, Range
    <2> QED  BY <2>1 DEF SingleInv, Single
  <1>2. ASSUME LiveInv, SingleInv, OneAfterAnother, [Next]_vars PROVE SingleInv'
    <2>1. CASE Next
      BY <1>2, <2>1, SingleStep DEF LiveInv, Types
    <2>2. CASE UNCHANGED vars
      <3>1. UNCHANGED <<strand, pool, upc>>
        BY <2>2 DEF vars, execVars, updateVars
      <3>2. Carriers' = Carriers
        BY <3>1 DEF Carriers
      <3> QED  BY <1>2, <3>1, <3>2 DEF SingleInv, Single
    <2> QED  BY <1>2, <2>1, <2>2
  <1> QED  BY <1>1, <1>2, AlwaysLive, PTL DEF Spec

-----------------------------------------------------------------------------
(* The postings and wordRefs.                                              *)

\* f has neither postings nor an entry.
Clean(f) == f \notin DOMAIN wordRefs /\ \A i \in Wids : chunks[i][f] = 0

\* The postings of f are the words wordRefs has for it, each counted once.
Matching(f) ==
    \A i \in Wids : chunks[i][f] = IF f \in DOMAIN wordRefs /\ i \in wordRefs[f] THEN 1 ELSE 0

\* The words of the commit t are noted, its postings are still to come.
Noted(t) == /\ t.f \in DOMAIN wordRefs /\ wordRefs[t.f] = t.wids
            /\ \A i \in Wids : chunks[i][t.f] = 0

\* A file that is under way has been erased; one that is not is in step.
FileOk(f) ==
    /\ (\A t \in Carriers : t.f # f) => Matching(f)
    /\ \A t \in Carriers : t.f = f => IF t.k = "commit" THEN Noted(t) ELSE Clean(f)

\* What is indexed, or about to be, is in the catalog.
KnownOk ==
    /\ \A f \in DOMAIN wordRefs \cup toIndex : catalog[f].known
    /\ \A t \in Carriers : catalog[t.f].known

\* What a full update indexes it erases first.
ToIndexOk ==
    /\ \A i \in DOMAIN strand : strand[i].k = "erase" =>
          toIndex \cap DOMAIN wordRefs \subseteq strand[i].erase
    /\ upc = "dispatch" => toIndex \cap DOMAIN wordRefs = {}

RefsInv == /\ KnownOk /\ ToIndexOk
           /\ ~writerError => \A f \in Files : FileOk(f)

\* The catalog forgets no file.
LEMMA KnownStays ==
    ASSUME StoreOk, UpdateOk, ExecOk, Next, NEW f \in Files, catalog[f].known
    PROVE  catalog'[f].known
  <1>1. CASE StrandUpsert
    <2>1. Head(strand).f \in Files
      BY <1>1, Running DEF StrandUpsert
    <2> QED  BY <1>1, <2>1 DEF StrandUpsert, StoreOk, Recorded
  <1>2. CASE StrandDelete
    <2>1. Head(strand).f \in Files
      BY <1>2, Running DEF StrandDelete
    <2> QED  BY <1>2, <2>1 DEF StrandDelete, StoreOk
  <1>3. CASE UpdateScan
    <2>1. catalog'[f] \in {Seen(f), Missing(f)}
      BY <1>3 DEF UpdateScan
    <2> QED  BY <2>1 DEF Seen, Missing, Recorded, StoreOk
  <1>4. CASE UpdateScanThrows
    <2>1. catalog'[f] \in {Seen(f), catalog[f]}
      BY <1>4 DEF UpdateScanThrows
    <2> QED  BY <2>1 DEF Seen, Recorded, StoreOk
  <1>o. UNCHANGED catalog \/ StrandUpsert \/ StrandDelete \/ UpdateScan \/ UpdateScanThrows
    BY DEF Next, Environment, CallerStep, StrandStep, PoolStep, MirrorStep, UpdateStep,
       StopStep, WriteFile, RemoveFile, MirrorFails, PointBegin, TryLock, EnqueueUpdate,
       EnqueueDeletion, Defer, DeferInsert, DeferRecheck, StrandEmptyBatch, StrandBatch,
       StrandErase, StrandShrink, StrandCompactSkip, StrandCompactBegin, StrandCompactEnd,
       PoolIndex, PoolIndexFails, PoolCommit, MirrorWrites, UpdateBegin, UpdateLock,
       UpdateWait, UpdateDispatch, UpdateTimeout, UpdateFutures, UpdateFlush, UpdateUnlock,
       UpdateDrain, UpdateReplay, UpdateCompact, UpdateSave, StopServer, StopIndex,
       StopClear, StopWait, indexVars
  <1> QED  BY <1>1, <1>2, <1>3, <1>4, <1>o

\* Only a batch gives a file an entry in wordRefs.
LEMMA EntriesFlow ==
    ASSUME ExecOk, Next, NEW f \in DOMAIN wordRefs', f \notin DOMAIN wordRefs
    PROVE  StrandBatch /\ Head(strand) \in Carriers /\ f = Head(strand).f
  <1>1. StrandBatch
    <2>1. DOMAIN wordRefs' \subseteq DOMAIN wordRefs \/ StrandBatch
      BY DEF Next, Environment, CallerStep, StrandStep, PoolStep, MirrorStep, UpdateStep,
         StopStep, WriteFile, RemoveFile, MirrorFails, PointBegin, TryLock, EnqueueUpdate,
         EnqueueDeletion, Defer, DeferInsert, DeferRecheck, StrandUpsert, EraseDocs,
         StrandDelete, StrandEmptyBatch, StrandErase, StrandShrink, StrandCompactSkip,
         StrandCompactBegin, StrandCompactEnd,
         PoolIndex, PoolIndexFails, PoolCommit, MirrorWrites, UpdateBegin, UpdateLock,
         UpdateWait, UpdateScan, UpdateScanThrows, UpdateDispatch, UpdateTimeout,
         UpdateFutures, UpdateFlush, UpdateUnlock, UpdateDrain, UpdateReplay,
         UpdateCompact, UpdateSave, StopServer, StopIndex, StopClear, StopWait, indexVars
    <2> QED  BY <2>1
  <1>2. Head(strand) \in Carriers
    BY <1>1, Running DEF StrandBatch, Carriers, Range
  <1>3. DOMAIN wordRefs' = DOMAIN wordRefs \cup {Head(strand).f}
    BY <1>1 DEF StrandBatch
  <1> QED  BY <1>1, <1>2, <1>3

\* The files a full update is to index change only when it finds and dispatches them.
LEMMA ToIndexFlow ==
    ASSUME Next
    PROVE  toIndex' \in {toIndex, {}} \/ UpdateScan
  BY DEF Next, Environment, CallerStep, StrandStep, PoolStep, MirrorStep, UpdateStep,
     StopStep, WriteFile, RemoveFile, MirrorFails, PointBegin, TryLock, EnqueueUpdate,
     EnqueueDeletion, Defer, DeferInsert, DeferRecheck, StrandUpsert, StrandDelete,
     StrandEmptyBatch, StrandBatch, StrandErase, StrandShrink, StrandCompactSkip,
     StrandCompactBegin, StrandCompactEnd,
     PoolIndex, PoolIndexFails, PoolCommit, MirrorWrites, UpdateBegin, UpdateLock,
     UpdateWait, UpdateScanThrows, UpdateDispatch, UpdateTimeout,
     UpdateFutures, UpdateFlush, UpdateUnlock, UpdateDrain, UpdateReplay,
     UpdateCompact, UpdateSave, StopServer, StopIndex, StopClear, StopWait, updateVars

LEMMA KnownStep ==
    ASSUME DiskOk, StoreOk, CallOk, UpdateOk, ExecOk, DictOk, RefsOk, KnownOk, Next
    PROVE  KnownOk'
  <1>1. ASSUME NEW f \in DOMAIN wordRefs' PROVE catalog'[f].known
    <2>1. f \in Files /\ catalog[f].known
      <3>1. CASE f \in DOMAIN wordRefs
        BY <3>1 DEF RefsOk, KnownOk
      <3>2. CASE f \notin DOMAIN wordRefs
        BY <3>2, EntriesFlow, CarrierFields DEF KnownOk
      <3> QED  BY <3>1, <3>2
    <2> QED  BY <2>1, KnownStays
  <1>2. ASSUME NEW f \in toIndex' PROVE catalog'[f].known
    <2>1. CASE f \in toIndex
      <3>1. f \in Files /\ catalog[f].known
        BY <2>1 DEF UpdateOk, KnownOk
      <3> QED  BY <3>1, KnownStays
    <2>2. CASE UpdateScan
      <3>1. /\ f \in scanned /\ f \in Files
            /\ ~catalog[f].known \/ Changed(f, disk[f].ver)
            /\ catalog'[f] = Seen(f)
        BY <2>2 DEF UpdateScan, UpdateOk
      <3> QED  BY <3>1 DEF Seen, Changed, Recorded
    <2> QED  BY <2>1, <2>2, ToIndexFlow
  <1>3. ASSUME NEW t \in Carriers' PROVE catalog'[t.f].known
    <2>1. CASE t \in Carriers
      <3>1. t.f \in Files /\ catalog[t.f].known
        BY <2>1, CarrierFields DEF KnownOk
      <3> QED  BY <3>1, KnownStays
    <2>2. CASE StrandUpsert
      <3>1. CASE Changed(Head(strand).f, Head(strand).v)
        <4>1. /\ Head(strand).f \in Files
              /\ catalog'[Head(strand).f] = Recorded(Head(strand).v)
          BY <2>2, <3>1, Running DEF StrandUpsert, StoreOk
        <4>2. t \in Carriers \/ t = IndexTask(Head(strand).f, TRUE)
          BY <2>2, <3>1, <1>3, UpsertCarries
        <4> QED  BY <2>1, <4>1, <4>2 DEF IndexTask, Recorded
      <3>2. CASE ~Changed(Head(strand).f, Head(strand).v)
        BY <2>1, <2>2, <3>2, <1>3, UpsertCarries
      <3> QED  BY <3>1, <3>2
    <2>3. CASE UpdateDispatch
      <3>1. t \in Carriers \/ \E f \in toIndex : t = IndexTask(f, FALSE)
        BY <2>3, <1>3, DispatchCarries
      <3>2. ASSUME NEW f \in toIndex, t = IndexTask(f, FALSE) PROVE catalog'[t.f].known
        <4>1. t.f = f /\ f \in Files /\ catalog[f].known
          BY <3>2 DEF IndexTask, UpdateOk, KnownOk
        <4> QED  BY <4>1, KnownStays
      <3> QED  BY <2>1, <3>1, <3>2
    <2>4. ASSUME NEW u \in Carriers, t.f = u.f PROVE catalog'[t.f].known
      <3>1. u.f \in Files /\ catalog[u.f].known
        BY <2>4, CarrierFields DEF KnownOk
      <3> QED  BY <3>1, <2>4, KnownStays
    <2> QED  BY <2>1, <2>2, <2>3, <2>4, CarrierFlowStep
             DEF CarrierFlow, FileBatch, BatchTask, CommitTask
  <1> QED  BY <1>1, <1>2, <1>3 DEF KnownOk

LEMMA ToIndexStep ==
    ASSUME DiskOk, StoreOk, CallOk, UpdateOk, ExecOk, DictOk, RefsOk, SignalOk,
           SingleInv, KnownOk, ToIndexOk, Next
    PROVE  ToIndexOk'
  <1>0. upc \in Diff => Carriers = {}
    BY DEF SingleInv
  <1>d. ASSUME upc \in Diff PROVE DOMAIN wordRefs' \subseteq DOMAIN wordRefs
    BY <1>d, <1>0, EntriesFlow
  <1>1. ASSUME NEW i \in DOMAIN strand', strand'[i].k = "erase"
        PROVE  toIndex' \cap DOMAIN wordRefs' \subseteq strand'[i].erase
    <2>1. CASE \E j \in DOMAIN strand : strand'[i] = strand[j]
      <3>1. PICK j \in DOMAIN strand : strand'[i] = strand[j]
        BY <2>1
      <3>2. upc = "erasing" /\ toIndex \cap DOMAIN wordRefs \subseteq strand'[i].erase
        BY <1>1, <3>1 DEF SignalOk, ToIndexOk
      <3>3. toIndex' \subseteq toIndex
        BY <3>2, ToIndexFlow DEF UpdateScan
      <3> QED  BY <3>2, <3>3, <1>d DEF Diff
    <2>2. CASE /\ UpdateScan
               /\ \A f \in toIndex' : catalog[f].known => f \in strand'[i].erase
      <3>1. UNCHANGED wordRefs
        BY <2>2 DEF UpdateScan
      <3> QED  BY <2>2, <3>1 DEF KnownOk
    <2> QED  BY <1>1, <2>1, <2>2, EraseFlow
  <1>2. ASSUME upc' = "dispatch" PROVE toIndex' \cap DOMAIN wordRefs' = {}
    <2>1. CASE upc = "dispatch"
      <3>1. toIndex' \subseteq toIndex
        BY <2>1, ToIndexFlow DEF UpdateScan
      <3> QED  BY <2>1, <3>1, <1>d DEF Diff, ToIndexOk
    <2>2. CASE StrandErase
      <3>1. /\ 1 \in DOMAIN strand /\ Head(strand) = strand[1] /\ strand[1].k = "erase"
        BY <2>2, Running DEF StrandErase
      <3>2. /\ toIndex' = toIndex
            /\ DOMAIN wordRefs' = DOMAIN wordRefs \ strand[1].erase
        BY <2>2, <3>1 DEF StrandErase, EraseDocs
      <3> QED  BY <3>1, <3>2 DEF ToIndexOk
    <2> QED  BY <1>2, <2>1, <2>2, DiffFlow DEF Diff
  <1> QED  BY <1>1, <1>2 DEF ToIndexOk

\* A step that does not touch what is known of a file.
LEMMA FileStays ==
    ASSUME NEW f, FileOk(f),
           \A t \in Carriers' : t.f = f => t \in Carriers,
           \A t \in Carriers : t.f = f => t \in Carriers',
           \A i \in Wids : chunks'[i][f] = chunks[i][f],
           f \in DOMAIN wordRefs' <=> f \in DOMAIN wordRefs,
           f \in DOMAIN wordRefs => wordRefs'[f] = wordRefs[f]
    PROVE  FileOk(f)'
  <1>1. ASSUME \A t \in Carriers' : t.f # f PROVE Matching(f)'
    <2>1. Matching(f)
      BY <1>1 DEF FileOk
    <2> QED  BY <2>1 DEF Matching
  <1>2. ASSUME NEW t \in Carriers', t.f = f, t.k = "commit" PROVE Noted(t)'
    BY <1>2 DEF FileOk, Noted
  <1>3. ASSUME NEW t \in Carriers', t.f = f, t.k # "commit" PROVE Clean(f)'
    BY <1>3 DEF FileOk, Clean
  <1> QED  BY <1>1, <1>2, <1>3 DEF FileOk

\* A file that is clean afterwards, with no commit under way.
LEMMA FileCleaned ==
    ASSUME NEW f, Clean(f)', \A t \in Carriers' : t.f = f => t.k # "commit"
    PROVE  FileOk(f)'
  BY DEF FileOk, Clean, Matching

\* A file that is in step and erased is clean.
LEMMA ErasedIsClean ==
    ASSUME DictOk, RefsOk, NEW E \in SUBSET Files, EraseDocs(E), NEW f \in Files
    PROVE  /\ f \in E /\ Matching(f) => Clean(f)'
           /\ f \notin E => /\ \A i \in Wids : chunks'[i][f] = chunks[i][f]
                            /\ f \in DOMAIN wordRefs' <=> f \in DOMAIN wordRefs
                            /\ f \in DOMAIN wordRefs => wordRefs'[f] = wordRefs[f]
  <1>1. /\ \A i \in Wids : chunks'[i][f] = IF f \in E /\ i \in ErasedWids(f) THEN 0 ELSE chunks[i][f]
        /\ wordRefs' = [g \in DOMAIN wordRefs \ E |-> wordRefs[g]]
    BY DEF EraseDocs
  <1>2. ASSUME f \in E, Matching(f) PROVE Clean(f)'
    BY <1>1, <1>2 DEF Clean, Matching, ErasedWids
  <1> QED  BY <1>1, <1>2

\* A point update takes a file up.
LEMMA UpsertFiles ==
    ASSUME ExecOk, DictOk, RefsOk, OneAfterAnother, \A f \in Files : FileOk(f), StrandUpsert,
           NEW f \in Files
    PROVE  FileOk(f)'
  <1> DEFINE g == Head(strand).f
             T == IndexTask(g, TRUE)
  <1>1. g \in Files /\ StrandRuns("upsert") /\ T.f = g /\ T.k # "commit"
    BY Running DEF StrandUpsert, IndexTask
  <1>2. Carriers' = IF Changed(g, Head(strand).v) THEN Carriers \cup {T} ELSE Carriers
    BY UpsertCarries
  <1>3. IF Changed(g, Head(strand).v) THEN EraseDocs(OldPostings(g))
                                      ELSE UNCHANGED <<chunks, wordRefs>>
    BY DEF StrandUpsert
  <1>4. FileOk(f)
    OBVIOUS
  <1> HIDE DEF T
  <1>5. CASE ~Changed(g, Head(strand).v)
    <2>1. Carriers' = Carriers /\ UNCHANGED <<chunks, wordRefs>>
      BY <1>2, <1>3, <1>5
    <2> HIDE DEF g
    <2> QED  BY <1>4, <2>1, FileStays
  <1>6. CASE Changed(g, Head(strand).v)
    <2>1. /\ Carriers' = Carriers \cup {T} /\ EraseDocs(OldPostings(g))
          /\ OldPostings(g) \in SUBSET Files /\ \A t \in Carriers : t.f # g
      BY <1>1, <1>2, <1>3, <1>6 DEF OneAfterAnother, OldPostings
    <2> HIDE DEF g
    <2>2. CASE f = g
      <3>1. Matching(f)
        BY <1>4, <2>1, <2>2 DEF FileOk
      <3>2. Clean(f)'
        <4>1. CASE f \in DOMAIN wordRefs
          <5>1. f \in OldPostings(g)
            BY <2>2, <4>1 DEF OldPostings
          <5> QED  BY <2>1, <3>1, <5>1, ErasedIsClean
        <4>2. CASE f \notin DOMAIN wordRefs
          <5>1. f \notin OldPostings(g)
            BY <2>2, <4>2 DEF OldPostings
          <5>2. /\ \A i \in Wids : chunks'[i][f] = chunks[i][f]
                /\ f \notin DOMAIN wordRefs'
            BY <2>1, <4>2, <5>1, ErasedIsClean
          <5> QED  BY <3>1, <4>2, <5>2 DEF Matching, Clean
        <4> QED  BY <4>1, <4>2
      <3>3. \A t \in Carriers' : t.f = f => t.k # "commit"
        BY <1>1, <2>1, <2>2
      <3> QED  BY <3>2, <3>3, FileCleaned
    <2>3. CASE f # g
      <3>1. f \notin OldPostings(g)
        BY <2>3 DEF OldPostings
      <3>2. /\ \A i \in Wids : chunks'[i][f] = chunks[i][f]
            /\ f \in DOMAIN wordRefs' <=> f \in DOMAIN wordRefs
            /\ f \in DOMAIN wordRefs => wordRefs'[f] = wordRefs[f]
        BY <2>1, <3>1, ErasedIsClean
      <3>3. /\ \A t \in Carriers' : t.f = f => t \in Carriers
            /\ \A t \in Carriers : t.f = f => t \in Carriers'
        BY <1>1, <2>1, <2>3
      <3> QED  BY <1>4, <3>2, <3>3, FileStays
    <2> QED  BY <2>2, <2>3
  <1> QED  BY <1>5, <1>6

\* A full update erases the files that have changed.
LEMMA EraseFiles ==
    ASSUME ExecOk, DictOk, RefsOk, SignalOk, SingleInv, \A f \in Files : FileOk(f), StrandErase,
           NEW f \in Files
    PROVE  FileOk(f)'
  <1>1. /\ EraseDocs(Head(strand).erase) /\ Head(strand).erase \in SUBSET Files
        /\ 1 \in DOMAIN strand /\ Head(strand) = strand[1] /\ strand[1].k = "erase"
        /\ strand # <<>> /\ StrandDone(<<>>)
    BY Running DEF StrandErase
  <1>2. Carriers = {} /\ Carriers' = {}
    <2>1. Carriers = {}
      BY <1>1 DEF SignalOk, SingleInv, Diff
    <2>2. Head(strand).k # "batch"
      BY <1>1
    <2> QED  BY <1>1, <2>1, <2>2, EndCarries
  <1>3. FileOk(f) /\ Matching(f)
    BY <1>2 DEF FileOk
  <1>4. CASE f \in Head(strand).erase
    BY <1>1, <1>2, <1>3, <1>4, ErasedIsClean, FileCleaned
  <1>5. CASE f \notin Head(strand).erase
    BY <1>1, <1>2, <1>3, <1>5, ErasedIsClean, FileStays
  <1> QED  BY <1>4, <1>5

\* A full update indexes the new and the changed files.
LEMMA DispatchFiles ==
    ASSUME UpdateOk, ExecOk, SingleInv, ToIndexOk, \A f \in Files : FileOk(f), UpdateDispatch,
           NEW f \in Files
    PROVE  FileOk(f)'
  <1>1. /\ upc = "dispatch" /\ UNCHANGED <<chunks, wordRefs>>
        /\ Carriers' = Carriers \cup {IndexTask(g, FALSE) : g \in toIndex}
    BY DispatchCarries DEF UpdateDispatch, indexVars
  <1>2. Carriers = {} /\ toIndex \cap DOMAIN wordRefs = {}
    BY <1>1 DEF SingleInv, Diff, ToIndexOk
  <1>3. FileOk(f) /\ Matching(f)
    BY <1>2 DEF FileOk
  <1>4. ASSUME NEW t \in Carriers' PROVE t.k # "commit" /\ t.f \in toIndex
    BY <1>1, <1>2 DEF IndexTask
  <1>5. CASE f \in toIndex
    <2>1. Clean(f)'
      BY <1>1, <1>2, <1>3, <1>5 DEF Clean, Matching
    <2> QED  BY <1>4, <2>1, FileCleaned
  <1>6. CASE f \notin toIndex
    BY <1>1, <1>2, <1>3, <1>4, <1>6, FileStays
  <1> QED  BY <1>5, <1>6

\* The strand numbers the words of a batch, or finds none.
LEMMA BatchFiles ==
    ASSUME ExecOk, DictOk, RefsOk, Single, ~writerError, \A f \in Files : FileOk(f),
           StrandEmptyBatch \/ StrandBatch, NEW f \in Files
    PROVE  FileOk(f)'
  <1> DEFINE u == Head(strand)
             t == CommitTask(u.f, WordsOf(u), u.point)
  <1>1. /\ u \in Carriers /\ u.k = "batch" /\ u.f \in Files
        /\ Carriers' \subseteq Carriers \cup BatchPosts(u)
        /\ (Carriers \ {u}) \cup BatchPosts(u) \subseteq Carriers'
        /\ u \notin Carriers'
    BY BatchCarries, CarrierFields
  <1>2. t.f = u.f /\ t.k = "commit" /\ t.wids = WordsOf(u)
    BY DEF CommitTask
  <1>3. BatchPosts(u) = IF u.words = {} THEN {} ELSE {t}
    BY DEF BatchPosts
  <1>4. /\ UNCHANGED chunks
        /\ u.words = {} => UNCHANGED wordRefs
        /\ u.words # {} => wordRefs' = [g \in DOMAIN wordRefs \cup {u.f} |->
                                          (IF g \in DOMAIN wordRefs THEN wordRefs[g] ELSE {})
                                          \cup (IF g = u.f THEN WordsOf(u) ELSE {})]
    BY DEF StrandEmptyBatch, StrandBatch, WordsOf, indexVars
  <1>5. FileOk(f)
    OBVIOUS
  <1> HIDE DEF u, t
  <1>6. CASE f = u.f
    <2>1. Clean(f)
      BY <1>1, <1>5, <1>6 DEF FileOk
    <2>2. \A w \in Carriers' : w.f = f => w = t /\ u.words # {}
      BY <1>1, <1>3, <1>6 DEF Single
    <2>3. CASE u.words = {}
      <3>1. Clean(f)'
        BY <1>4, <2>1, <2>3 DEF Clean
      <3> QED  BY <2>2, <2>3, <3>1, FileCleaned
    <2>4. CASE u.words # {}
      <3>1. /\ f \in DOMAIN wordRefs' /\ wordRefs'[f] = WordsOf(u)
            /\ \A i \in Wids : chunks'[i][f] = 0
        BY <1>4, <1>6, <2>1, <2>4 DEF Clean
      <3>2. ASSUME NEW w \in Carriers', w.f = f PROVE w.k = "commit" /\ Noted(w)'
        <4>1. w = t
          BY <2>2, <3>2
        <4>2. w.k = "commit" /\ w.wids = WordsOf(u)
          BY <1>2, <4>1
        <4> QED  BY <3>1, <3>2, <4>2 DEF Noted
      <3>3. t \in Carriers' /\ t.f = f
        BY <1>1, <1>2, <1>3, <1>6, <2>4
      <3> QED  BY <3>2, <3>3 DEF FileOk
    <2> QED  BY <2>3, <2>4
  <1>7. CASE f # u.f
    <2>1. /\ \A w \in Carriers' : w.f = f => w \in Carriers
          /\ \A w \in Carriers : w.f = f => w \in Carriers'
      BY <1>1, <1>2, <1>3, <1>7
    <2>2. /\ \A i \in Wids : chunks'[i][f] = chunks[i][f]
          /\ f \in DOMAIN wordRefs' <=> f \in DOMAIN wordRefs
          /\ f \in DOMAIN wordRefs => wordRefs'[f] = wordRefs[f]
      BY <1>4, <1>7
    <2> QED  BY <1>5, <2>1, <2>2, FileStays
  <1> QED  BY <1>6, <1>7

\* A thread of the pool reads a file.
LEMMA IndexFiles ==
    ASSUME DiskOk, ExecOk, Single, \A f \in Files : FileOk(f),
           NEW n \in DOMAIN pool, PoolIndex(n), NEW f \in Files
    PROVE  FileOk(f)'
  <1> DEFINE u == pool[n]
             b == FileBatch(u)
  <1>1. /\ u \in Carriers /\ u.k = "index"
        /\ Carriers' \subseteq Carriers \cup {b}
        /\ (Carriers \ {u}) \cup {b} \subseteq Carriers'
        /\ u \notin Carriers'
    BY IndexCarries
  <1>2. b.f = u.f /\ b.k = "batch"
    BY DEF FileBatch, BatchTask
  <1>3. UNCHANGED <<chunks, wordRefs>> /\ FileOk(f)
    BY DEF PoolIndex, indexVars
  <1> HIDE DEF u, b
  <1>4. CASE f = u.f
    <2>1. Clean(f)
      BY <1>1, <1>3, <1>4 DEF FileOk
    <2>2. Clean(f)'
      BY <1>3, <2>1 DEF Clean
    <2>3. \A w \in Carriers' : w.f = f => w.k # "commit"
      BY <1>1, <1>2, <1>4 DEF Single
    <2> QED  BY <2>2, <2>3, FileCleaned
  <1>5. CASE f # u.f
    <2>1. /\ \A w \in Carriers' : w.f = f => w \in Carriers
          /\ \A w \in Carriers : w.f = f => w \in Carriers'
      BY <1>1, <1>2, <1>5
    <2> QED  BY <1>3, <2>1, FileStays
  <1> QED  BY <1>4, <1>5

\* A thread of the pool gives a file up, or commits its postings.
LEMMA DoneFiles ==
    ASSUME ExecOk, DictOk, Single, \A f \in Files : FileOk(f),
           NEW n \in DOMAIN pool, PoolIndexFails(n) \/ PoolCommit(n), NEW f \in Files
    PROVE  FileOk(f)'
  <1> DEFINE u == pool[n]
  <1>1. /\ u \in Carriers /\ Carriers' \subseteq Carriers
        /\ Carriers \ {u} \subseteq Carriers' /\ u \notin Carriers'
    BY DoneCarries
  <1>2. FileOk(f) /\ UNCHANGED wordRefs /\ u.f \in Files
    BY RunningInPool DEF PoolIndexFails, PoolCommit, indexVars
  <1>3. \/ u.k = "index" /\ UNCHANGED chunks
        \/ /\ u.k = "commit"
           /\ chunks' = [j \in Wids |-> [chunks[j] EXCEPT ![u.f] =
                                           IF j \in u.wids THEN @ + 1 ELSE @]]
    BY DEF PoolIndexFails, PoolCommit, indexVars
  <1> HIDE DEF u
  <1>4. CASE f = u.f
    <2>1. \A w \in Carriers' : w.f # f
      BY <1>1, <1>4 DEF Single
    <2>2. Matching(f)'
      <3>1. CASE u.k = "index" /\ UNCHANGED chunks
        <4>1. Clean(f)
          BY <1>1, <1>2, <1>4, <3>1 DEF FileOk
        <4> QED  BY <1>2, <3>1, <4>1 DEF Clean, Matching
      <3>2. CASE /\ u.k = "commit"
                 /\ chunks' = [j \in Wids |-> [chunks[j] EXCEPT ![u.f] =
                                           IF j \in u.wids THEN @ + 1 ELSE @]]
        <4>1. Noted(u)
          BY <1>1, <1>2, <1>4, <3>2 DEF FileOk
        <4>2. \A i \in Wids : chunks'[i][f] = IF i \in u.wids THEN 1 ELSE 0
          BY <1>4, <3>2, <4>1 DEF Noted, DictOk
        <4>3. f \in DOMAIN wordRefs /\ wordRefs[f] = u.wids
          BY <1>4, <4>1 DEF Noted
        <4> QED  BY <1>2, <4>2, <4>3 DEF Matching
      <3> QED  BY <1>3, <3>1, <3>2
    <2> QED  BY <2>1, <2>2 DEF FileOk
  <1>5. CASE f # u.f
    <2>1. /\ \A w \in Carriers' : w.f = f => w \in Carriers
          /\ \A w \in Carriers : w.f = f => w \in Carriers'
      BY <1>1, <1>5
    <2>2. \A i \in Wids : chunks'[i][f] = chunks[i][f]
      BY <1>2, <1>3, <1>5 DEF DictOk
    <2> QED  BY <1>2, <2>1, <2>2, FileStays
  <1> QED  BY <1>4, <1>5

\* compact renumbers postings and wordRefs alike.
LEMMA CompactFiles ==
    ASSUME ExecOk, DictOk, RefsOk, CopyOk, CommitsApart, \A f \in Files : FileOk(f),
           StrandCompactEnd, NEW f \in Files
    PROVE  FileOk(f)'
  <1>1. /\ Carriers' = Carriers
    <2>1. strand # <<>> /\ Head(strand).k # "batch" /\ StrandDone(<<>>)
      BY DEF StrandCompactEnd, StrandRuns
    <2> QED  BY <2>1, EndCarries
  <1>2. \A t \in Carriers : t.k # "commit"
    <2>1. updateMutex = Strand
      BY DEF StrandCompactEnd
    <2>2. ASSUME NEW t \in Carriers, t.k = "commit" PROVE t \in Range(pool)
      BY <2>2, CarrierFields
    <2> QED  BY <2>1, <2>2 DEF CommitsApart, Range
  <1>3. /\ \A j \in DOMAIN Kept : Kept[j] \in Wids
        /\ \A j \in Wids : chunks'[j][f] = IF j \in DOMAIN Kept THEN chunks[Kept[j]][f] ELSE 0
    BY Compacted
  <1>4. /\ DOMAIN wordRefs' = DOMAIN wordRefs
        /\ f \in DOMAIN wordRefs =>
              wordRefs'[f] = {j \in DOMAIN Kept : Kept[j] \in wordRefs[f]}
    BY DEF StrandCompactEnd, RefsKept
  <1>5. ASSUME Matching(f) PROVE Matching(f)'
    <2> SUFFICES ASSUME NEW j \in Wids
                 PROVE  chunks'[j][f] = IF f \in DOMAIN wordRefs' /\ j \in wordRefs'[f] THEN 1 ELSE 0
      BY DEF Matching
    <2>1. CASE j \in DOMAIN Kept
      <3>1. chunks[Kept[j]][f] = IF f \in DOMAIN wordRefs /\ Kept[j] \in wordRefs[f] THEN 1 ELSE 0
        BY <1>3, <1>5, <2>1 DEF Matching
      <3>2. f \in DOMAIN wordRefs => (j \in wordRefs'[f] <=> Kept[j] \in wordRefs[f])
        BY <1>4, <2>1
      <3> QED  BY <1>3, <1>4, <2>1, <3>1, <3>2
    <2>2. CASE j \notin DOMAIN Kept
      BY <1>3, <1>4, <2>2
    <2> QED  BY <2>1, <2>2
  <1>6. ASSUME Clean(f) PROVE Clean(f)'
    BY <1>3, <1>4, <1>6 DEF Clean
  <1>7. FileOk(f)
    OBVIOUS
  <1> QED  BY <1>1, <1>2, <1>5, <1>6, <1>7 DEF FileOk

\* Until the writer fails, every file is in step with wordRefs or under way.
LEMMA FilesStep ==
    ASSUME DiskOk, StoreOk, CallOk, UpdateOk, ExecOk, DictOk, RefsOk, SignalOk,
           CopyOk, SingleInv, RefsInv, CommitsApart, OneAfterAnother, Next, ~writerError',
           NEW f \in Files
    PROVE  FileOk(f)'
  <1>1. /\ ~writerError /\ \A g \in Files : FileOk(g)
        /\ Single /\ ToIndexOk
    BY RowStep DEF RowsStay, RefsInv, SingleInv
  <1>2. CASE StrandUpsert
    BY <1>1, <1>2, UpsertFiles
  <1>3. CASE StrandErase
    BY <1>1, <1>3, EraseFiles
  <1>4. CASE StrandEmptyBatch \/ StrandBatch
    BY <1>1, <1>4, BatchFiles
  <1>5. CASE StrandCompactEnd
    BY <1>1, <1>5, CompactFiles
  <1>6. CASE UpdateDispatch
    BY <1>1, <1>6, DispatchFiles
  <1>7. ASSUME NEW n \in DOMAIN pool, PoolIndex(n) PROVE FileOk(f)'
    BY <1>1, <1>7, IndexFiles
  <1>8. ASSUME NEW n \in DOMAIN pool, PoolIndexFails(n) \/ PoolCommit(n) PROVE FileOk(f)'
    BY <1>1, <1>8, DoneFiles
  <1>9. CASE Carriers' = Carriers /\ UNCHANGED <<chunks, wordRefs>>
    <2>1. FileOk(f)
      BY <1>1
    <2> QED  BY <1>9, <2>1, FileStays
  <1>o. \/ UNCHANGED <<chunks, wordRefs>>
        \/ StrandUpsert \/ StrandErase \/ StrandBatch \/ StrandCompactEnd
        \/ \E n \in DOMAIN pool : PoolCommit(n)
    BY DEF Next, Environment, CallerStep, StrandStep, PoolStep, MirrorStep, UpdateStep,
       StopStep, WriteFile, RemoveFile, MirrorFails, PointBegin, TryLock, EnqueueUpdate,
       EnqueueDeletion, Defer, DeferInsert, DeferRecheck, StrandDelete,
       StrandEmptyBatch, StrandShrink, StrandCompactSkip,
       StrandCompactBegin, PoolIndex, PoolIndexFails, MirrorWrites, UpdateBegin,
       UpdateLock, UpdateWait, UpdateScan, UpdateScanThrows, UpdateDispatch, UpdateTimeout,
       UpdateFutures, UpdateFlush, UpdateUnlock, UpdateDrain, UpdateReplay, UpdateCompact,
       UpdateSave, StopServer, StopIndex, StopClear, StopWait, indexVars
  <1> QED  BY <1>2, <1>3, <1>4, <1>5, <1>6, <1>7, <1>8, <1>9, <1>o, SameCarriers

LEMMA AlwaysRefs == Spec /\ []CommitsApart /\ []OneAfterAnother => []RefsInv
  <1>1. Init => RefsInv
    <2> SUFFICES ASSUME Init PROVE RefsInv
      OBVIOUS
    <2>1. /\ strand = <<>> /\ pool = <<>> /\ Carriers = {} /\ wordRefs = <<>> /\ toIndex = {}
          /\ upc = "idle" /\ \A i \in Wids, f \in Files : chunks[i][f] = 0
      BY DEF Init, Carriers, Range, NoPostings
    <2>2. DOMAIN wordRefs = {} /\ DOMAIN strand = {}
      BY <2>1
    <2>3. KnownOk /\ ToIndexOk
      BY <2>1, <2>2 DEF KnownOk, ToIndexOk
    <2>4. ASSUME NEW f \in Files PROVE FileOk(f)
      BY <2>1, <2>2 DEF FileOk, Matching
    <2> QED  BY <2>3, <2>4 DEF RefsInv
  <1>2. ASSUME LiveInv, WordsInv, SingleInv, RefsInv, CommitsApart, OneAfterAnother, [Next]_vars
        PROVE  RefsInv'
    <2>0. /\ DiskOk /\ StoreOk /\ CallOk /\ UpdateOk /\ ExecOk /\ DictOk /\ RefsOk /\ SignalOk
          /\ CopyOk /\ KnownOk /\ ToIndexOk
      BY <1>2 DEF LiveInv, Types, WordsInv, RefsInv
    <2>1. CASE Next
      <3>1. KnownOk'
        BY <2>0, <2>1, KnownStep
      <3>2. ToIndexOk'
        BY <2>0, <2>1, <1>2, ToIndexStep
      <3>3. ASSUME ~writerError', NEW f \in Files PROVE FileOk(f)'
        BY <2>0, <2>1, <1>2, <3>3, FilesStep
      <3> QED  BY <3>1, <3>2, <3>3 DEF RefsInv
    <2>2. CASE UNCHANGED vars
      <3>1. UNCHANGED <<strand, pool, upc, toIndex, wordRefs, catalog, chunks, writerError>>
        BY <2>2 DEF vars, execVars, updateVars, indexVars, storeVars
      <3>2. Carriers' = Carriers
        BY <3>1 DEF Carriers
      <3>3. KnownOk' /\ ToIndexOk'
        BY <2>0, <3>1, <3>2 DEF KnownOk, ToIndexOk
      <3>4. ASSUME ~writerError', NEW f \in Files PROVE FileOk(f)'
        <4>1. FileOk(f)
          BY <1>2, <3>1, <3>4 DEF RefsInv
        <4> QED  BY <3>1, <3>2, <4>1, FileStays
      <3> QED  BY <3>3, <3>4 DEF RefsInv
    <2> QED  BY <1>2, <2>1, <2>2
  <1> QED  BY <1>1, <1>2, AlwaysLive, AlwaysWords, AlwaysSingle, PTL DEF Spec

\* As long as no commit is in the pool while compact works and the strand takes up
\* no update of a file that is still under way, the index is right at every moment:
\* every posting comes under a word its document has held and, whenever nothing is
\* in progress and the writer has not failed, the postings of every document are the
\* words wordRefs has for it, each counted once.
THEOREM IndexHolds == Spec /\ []CommitsApart /\ []OneAfterAnother => []IndexInv
  <1>1. ASSUME LiveInv, RefsInv PROVE RefsMatchPostings
    <2> SUFFICES ASSUME Quiet, ~writerError, NEW f \in Files PROVE Matching(f)
      BY DEF RefsMatchPostings, Matching
    <2>1. strand = <<>> /\ pool = <<>>
      BY <1>1, LenProperties, EmptySeq DEF Quiet, Idle, LiveInv, Types, ExecOk
    <2>2. Carriers = {}
      BY <2>1 DEF Carriers, Range
    <2> QED  BY <1>1, <2>2 DEF RefsInv, FileOk
  <1> QED  BY <1>1, IndexTypes, WordsKeepTheirNumbers, AlwaysLive, AlwaysRefs, PTL DEF IndexInv

-----------------------------------------------------------------------------
(* Two ways to run the program in which nothing has to be assumed of its    *)
(* steps: a threshold that compact never reaches, and full updates without  *)
(* point updates and without timeouts.                                      *)

\* Above 100 percent there are never enough holes.
LEMMA NeverDue ==
    ASSUME DictOk, Threshold > 100
    PROVE  ~CompactDue
  <1> SUFFICES ASSUME CompactDue PROVE FALSE
    OBVIOUS
  <1> DEFINE n == Len(wordIds)
             h == Cardinality(Holes)
  <1>1. n \in Nat /\ DOMAIN wordIds = 1 .. n
    BY LenProperties DEF DictOk
  <1>2. Holes \subseteq 1 .. n /\ Holes # {}
    BY <1>1 DEF CompactDue, Holes
  <1>3. IsFiniteSet(1 .. n) /\ Cardinality(1 .. n) = n
    <2> HIDE DEF n
    <2>1. 1 \in Int /\ n \in Int
      BY <1>1
    <2>2. IsFiniteSet(1 .. n) /\ Cardinality(1 .. n) = IF 1 > n THEN 0 ELSE n - 1 + 1
      BY <2>1, FS_Interval
    <2> QED  BY <1>1, <2>2
  <1>4. IsFiniteSet(Holes) /\ h \in Nat /\ h <= n
    BY <1>2, <1>3, FS_Subset, FS_CardinalityType
  <1>5. n > 0
    <2> HIDE DEF n
    <2>1. PICK i \in Holes : TRUE
      BY <1>2
    <2>2. i \in 1 .. n
      BY <1>2, <2>1
    <2> QED  BY <1>1, <2>2
  <1>6. h * 100 >= Threshold * n
    BY DEF CompactDue
  <1> HIDE DEF n, h
  <1>7. Threshold \in Nat /\ Threshold >= 101
    BY IndexAssumption
  <1>8. Threshold * n >= 101 * n
    BY <1>1, <1>7
  <1> QED  BY <1>1, <1>4, <1>5, <1>6, <1>7, <1>8

\* compact never takes updateMutex.
LEMMA NeverCompacts ==
    ASSUME Threshold > 100
    PROVE  Spec => []CommitsApart
  <1> DEFINE Free == updateMutex # Strand
  <1>1. Init => Free
    BY IndexAssumption DEF Init
  <1>2. ASSUME LiveInv, Free, [Next]_vars PROVE Free'
    <2>1. ~StrandCompactBegin
      BY <1>2, NeverDue DEF LiveInv, Types, StrandCompactBegin
    <2>2. CASE UNCHANGED updateMutex
      BY <1>2, <2>2
    <2>3. ASSUME NEW c \in Callers, TryLock(c) \/ EnqueueUpdate(c) \/ EnqueueDeletion(c)
          PROVE  Free'
      <3>1. updateMutex' \in {updateMutex, c, Nobody} /\ c # Strand /\ Nobody # Strand
        BY <2>3, IndexAssumption DEF TryLock, EnqueueUpdate, EnqueueDeletion, Callers
      <3> QED  BY <3>1, <1>2
    <2>4. CASE UpdateLock \/ UpdateUnlock \/ StrandCompactEnd
      BY <2>4, IndexAssumption DEF UpdateLock, UpdateUnlock, StrandCompactEnd
    <2>5. CASE UNCHANGED vars
      BY <2>2, <2>5 DEF vars, facadeVars
    <2> HIDE DEF Free
    <2>o. ASSUME Next
          PROVE  \/ UNCHANGED updateMutex \/ StrandCompactBegin
                 \/ UpdateLock \/ UpdateUnlock \/ StrandCompactEnd
                 \/ \E c \in Callers : TryLock(c) \/ EnqueueUpdate(c) \/ EnqueueDeletion(c)
      BY <2>o DEF Next, Environment, CallerStep, StrandStep, PoolStep, MirrorStep, UpdateStep,
         StopStep, WriteFile, RemoveFile, MirrorFails, PointBegin, Defer, DeferInsert,
         DeferRecheck, StrandUpsert, StrandDelete, StrandEmptyBatch, StrandBatch,
         StrandErase, StrandShrink, StrandCompactSkip, PoolIndex, PoolIndexFails, PoolCommit,
         MirrorWrites, UpdateBegin, UpdateWait, UpdateScan, UpdateScanThrows,
         UpdateDispatch, UpdateTimeout, UpdateFutures, UpdateFlush, UpdateDrain,
         UpdateReplay, UpdateCompact, UpdateSave, StopServer, StopIndex, StopClear,
         StopWait, facadeVars
    <2> QED  BY <1>2, <2>1, <2>2, <2>3, <2>4, <2>5, <2>o
  <1>3. Free => CommitsApart
    BY DEF CommitsApart
  <1> HIDE DEF Free
  <1> QED  BY <1>1, <1>2, <1>3, AlwaysLive, PTL DEF Spec

\* With a threshold above 100 percent, whatever watchers, full updates, timeouts and
\* failures there are: no posting comes under a word its document has not held, and
\* no step takes a posting of a marked document away.
THEOREM SafeWithoutCompact ==
    ASSUME Threshold > 100
    PROVE  Spec => []NoForeignWords /\ EternalTrace
  BY NeverCompacts, WordsKeepTheirNumbers, TraceIsEternal, PTL

\* No point operation is under way, and none is deferred.
NoPoints ==
    /\ \A c \in Callers : cpc[c] = "idle"
    /\ deferred = {} /\ replay = {}
    /\ \A i \in DOMAIN strand : strand[i].k \notin {"upsert", "delete"}

\* Without watchers point operations never come about.
LEMMA NoPointsStep ==
    ASSUME Watchers = {}, DiskOk, CallOk, UpdateOk, ExecOk, DictOk, NoPoints, Next
    PROVE  NoPoints'
  <1>1. \A i \in DOMAIN strand' : strand'[i].k \notin {"upsert", "delete"}
    BY StrandFlowStep DEF StrandFlow, NoPoints
  <1>2. (\A c \in Callers : cpc'[c] = "idle") /\ deferred' = {} /\ replay' = {}
    <2> DEFINE Still == UNCHANGED <<cpc, deferred, replay>>
    <2>u. ASSUME Still PROVE (\A c \in Callers : cpc'[c] = "idle") /\ deferred' = {} /\ replay' = {}
      BY <2>u DEF NoPoints
    <2>1. ASSUME NEW c \in Callers, CallerStep(c) PROVE FALSE
      BY <2>1 DEF CallerStep, TryLock, EnqueueUpdate, EnqueueDeletion, Defer, DeferInsert,
         DeferRecheck, NoPoints
    <2>2. ASSUME NEW f \in Files, UpdateReplay(f) PROVE FALSE
      BY <2>2 DEF UpdateReplay, NoPoints
    <2>3. CASE UpdateDrain
      BY <2>3 DEF UpdateDrain, NoPoints, callVars
    <2>4. CASE StopClear
      BY <2>4 DEF StopClear, NoPoints, callVars, updateVars
    <2> HIDE DEF Still
    <2>o. \/ Still \/ UpdateDrain \/ StopClear
          \/ (\E c \in Callers : CallerStep(c)) \/ (\E f \in Files : UpdateReplay(f))
      BY DEF Next, Environment, StrandStep, PoolStep, MirrorStep, UpdateStep,
         StopStep, WriteFile, RemoveFile, MirrorFails, PointBegin, StrandUpsert, StrandDelete,
         StrandEmptyBatch, StrandBatch,
         StrandErase, StrandShrink, StrandCompactSkip, StrandCompactBegin, StrandCompactEnd,
         PoolIndex, PoolIndexFails, PoolCommit, MirrorWrites, UpdateBegin, UpdateLock,
         UpdateWait, UpdateScan, UpdateScanThrows, UpdateDispatch, UpdateTimeout,
         UpdateFutures, UpdateFlush, UpdateUnlock, UpdateCompact, UpdateSave, StopServer,
         StopIndex, StopWait, facadeVars, callVars, updateVars, Still
    <2> QED  BY <2>u, <2>1, <2>2, <2>3, <2>4, <2>o
  <1> QED  BY <1>1, <1>2 DEF NoPoints

LEMMA AlwaysNoPoints ==
    ASSUME Watchers = {}
    PROVE  Spec => []NoPoints
  <1>1. Init => NoPoints
    BY DEF Init, NoPoints
  <1>2. ASSUME LiveInv, NoPoints, [Next]_vars PROVE NoPoints'
    <2>1. CASE Next
      BY <1>2, <2>1, NoPointsStep DEF LiveInv, Types
    <2>2. CASE UNCHANGED vars
      <3>1. UNCHANGED <<strand, cpc, deferred, replay>>
        BY <2>2 DEF vars, execVars, callVars, facadeVars, updateVars
      <3> QED  BY <1>2, <3>1 DEF NoPoints
    <2> QED  BY <1>2, <2>1, <2>2
  <1> QED  BY <1>1, <1>2, AlwaysLive, PTL DEF Spec

\* A full update waits for every file it has dispatched, and posts compact when it
\* has them all.
WaitedFor ==
    /\ \A t \in Carriers : upc = "futures" /\ t.f \in awaiting
    /\ \A i \in DOMAIN strand : strand[i].k = "compact" => upc = "settle"

\* Without timeouts a file is waited for until its last handler ends.
LEMMA FuturesStay ==
    ASSUME ExecOk, SignalOk, DiskOk, MaxTimeouts = 0, NEW f \in awaiting, upc = "futures", Next
    PROVE  /\ upc' = "futures"
           /\ \/ f \in awaiting'
              \/ (StrandEmptyBatch \/ StrandBatch) /\ f = Head(strand).f
              \/ \E n \in DOMAIN pool : (PoolIndexFails(n) \/ PoolCommit(n)) /\ f = pool[n].f
  <1> DEFINE Goal == /\ upc' = "futures"
                     /\ \/ f \in awaiting'
                        \/ (StrandEmptyBatch \/ StrandBatch) /\ f = Head(strand).f
                        \/ \E n \in DOMAIN pool :
                              (PoolIndexFails(n) \/ PoolCommit(n)) /\ f = pool[n].f
  <1>u. ASSUME UNCHANGED <<upc, awaiting>> PROVE Goal
    BY <1>u
  <1>1. CASE StrandEmptyBatch \/ StrandBatch
    BY <1>1 DEF StrandEmptyBatch, StrandBatch, Settle
  <1>2. ASSUME NEW n \in DOMAIN pool, PoolIndexFails(n) \/ PoolCommit(n) PROVE Goal
    BY <1>2 DEF PoolIndexFails, PoolCommit, Settle
  <1>3. ~StrandErase /\ ~StrandShrink
    BY Running DEF StrandErase, StrandShrink, SignalOk
  <1>4. ASSUME NEW g \in Files, UpdateTimeout(g) PROVE FALSE
    BY <1>4 DEF UpdateTimeout, DiskOk
  <1>5. /\ ~UpdateBegin /\ ~UpdateLock /\ ~UpdateWait /\ ~UpdateScan /\ ~UpdateScanThrows
        /\ ~UpdateDispatch /\ ~UpdateFutures /\ ~UpdateFlush /\ ~UpdateUnlock
        /\ ~UpdateDrain /\ ~UpdateCompact /\ ~UpdateSave
    BY DEF UpdateBegin, UpdateLock, UpdateWait, UpdateScan, UpdateScanThrows,
       UpdateDispatch, UpdateFutures, UpdateFlush, UpdateUnlock, UpdateDrain,
       UpdateCompact, UpdateSave
  <1> HIDE DEF Goal
  <1>o. \/ UNCHANGED <<upc, awaiting>> \/ StrandEmptyBatch \/ StrandBatch
        \/ StrandErase \/ StrandShrink \/ UpdateBegin \/ UpdateLock \/ UpdateWait
        \/ UpdateScan \/ UpdateScanThrows \/ UpdateDispatch \/ UpdateFutures \/ UpdateFlush
        \/ UpdateUnlock \/ UpdateDrain \/ UpdateCompact \/ UpdateSave
        \/ (\E g \in Files : UpdateTimeout(g))
        \/ \E n \in DOMAIN pool : PoolIndexFails(n) \/ PoolCommit(n)
    BY DEF Next, Environment, CallerStep, StrandStep, PoolStep, MirrorStep, UpdateStep,
       StopStep, WriteFile, RemoveFile, MirrorFails, PointBegin, TryLock, EnqueueUpdate,
       EnqueueDeletion, Defer, DeferInsert, DeferRecheck, StrandUpsert, StrandDelete,
       StrandCompactSkip, StrandCompactBegin, StrandCompactEnd,
       PoolIndex, MirrorWrites, UpdateReplay, StopServer, StopIndex, StopClear, StopWait,
       updateVars
  <1> QED  BY <1>u, <1>1, <1>2, <1>3, <1>4, <1>5, <1>o DEF Goal

\* Once compact is posted the updater waits for the executors to be idle.
LEMMA SettleStays ==
    ASSUME ExecOk, SignalOk, strand # <<>>, upc = "settle", Next
    PROVE  upc' = "settle"
  <1>1. ~StrandErase /\ ~StrandShrink
    BY Running DEF StrandErase, StrandShrink, SignalOk
  <1>2. ~Idle
    BY LenProperties, EmptySeq DEF Idle, ExecOk
  <1>3. /\ ~UpdateBegin /\ ~UpdateLock /\ ~UpdateWait /\ ~UpdateScan /\ ~UpdateScanThrows
        /\ ~UpdateDispatch /\ ~UpdateFutures /\ ~UpdateFlush /\ ~UpdateUnlock
        /\ ~UpdateDrain /\ ~UpdateCompact /\ ~UpdateSave
    BY <1>2 DEF UpdateBegin, UpdateLock, UpdateWait, UpdateScan, UpdateScanThrows,
       UpdateDispatch, UpdateFutures, UpdateFlush, UpdateUnlock, UpdateDrain,
       UpdateCompact, UpdateSave
  <1>o. \/ UNCHANGED upc
        \/ StrandErase \/ StrandShrink \/ UpdateBegin \/ UpdateLock \/ UpdateWait
        \/ UpdateScan \/ UpdateScanThrows \/ UpdateDispatch \/ UpdateFutures \/ UpdateFlush
        \/ UpdateUnlock \/ UpdateDrain \/ UpdateCompact \/ UpdateSave
    BY DEF Next, Environment, CallerStep, StrandStep, PoolStep, MirrorStep, UpdateStep,
       StopStep, WriteFile, RemoveFile, MirrorFails, PointBegin, TryLock, EnqueueUpdate,
       EnqueueDeletion, Defer, DeferInsert, DeferRecheck, StrandUpsert, StrandDelete,
       StrandEmptyBatch, StrandBatch, StrandCompactSkip, StrandCompactBegin, StrandCompactEnd,
       PoolIndex, PoolIndexFails, PoolCommit, MirrorWrites, UpdateTimeout, UpdateReplay,
       StopServer, StopIndex, StopClear, StopWait, updateVars
  <1> QED  BY <1>1, <1>3, <1>o

LEMMA WaitedForStep ==
    ASSUME MaxTimeouts = 0, DiskOk, CallOk, UpdateOk, ExecOk, DictOk, SignalOk,
           NoPoints, SingleInv, WaitedFor, Next
    PROVE  WaitedFor'
  <1>0. ~StrandUpsert /\ Single
    BY Running DEF StrandUpsert, NoPoints, SingleInv
  <1>1. ASSUME NEW i \in DOMAIN strand', strand'[i].k = "compact" PROVE upc' = "settle"
    <2>1. CASE \E j \in DOMAIN strand : strand'[i] = strand[j]
      <3>1. strand # <<>> /\ upc = "settle"
        BY <1>1, <2>1 DEF WaitedFor
      <3> QED  BY <3>1, SettleStays
    <2> QED  BY <1>1, <2>1, StrandFlowStep DEF StrandFlow
  <1>2. ASSUME NEW t \in Carriers' PROVE upc' = "futures" /\ t.f \in awaiting'
    <2>a. ASSUME NEW u \in Carriers, t.f = u.f
          PROVE  /\ upc' = "futures"
                 /\ \/ t.f \in awaiting'
                    \/ (StrandEmptyBatch \/ StrandBatch) /\ t.f = Head(strand).f
                    \/ \E n \in DOMAIN pool :
                          (PoolIndexFails(n) \/ PoolCommit(n)) /\ t.f = pool[n].f
      <3>1. upc = "futures" /\ t.f \in awaiting
        BY <2>a DEF WaitedFor
      <3> QED  BY <3>1, FuturesStay
    <2>1. CASE UpdateDispatch
      <3>1. upc = "dispatch" /\ upc' = "futures" /\ awaiting' = toIndex
        BY <2>1 DEF UpdateDispatch
      <3>2. t \in Carriers \/ \E f \in toIndex : t = IndexTask(f, FALSE)
        BY <2>1, <1>2, DispatchCarries
      <3> QED  BY <3>1, <3>2 DEF WaitedFor, IndexTask
    <2>2. CASE StrandEmptyBatch \/ StrandBatch
      <3>1. /\ Head(strand) \in Carriers /\ Head(strand) \notin Carriers'
            /\ t \in Carriers \/ t \in BatchPosts(Head(strand))
        BY <1>0, <1>2, <2>2, BatchCarries
      <3>2. CASE t \in Carriers
        <4>1. t.f # Head(strand).f
          BY <1>0, <1>2, <3>1, <3>2 DEF Single
        <4>2. awaiting' \in {awaiting, awaiting \ {Head(strand).f}} /\ UNCHANGED upc
          BY <2>2 DEF StrandEmptyBatch, StrandBatch, Settle
        <4> QED  BY <3>2, <4>1, <4>2 DEF WaitedFor
      <3>3. CASE t \in BatchPosts(Head(strand))
        <4>1. Head(strand).words # {} /\ ~writerError /\ t.f = Head(strand).f
          BY <3>3 DEF BatchPosts, CommitTask
        <4>2. UNCHANGED <<upc, awaiting>>
          BY <2>2, <4>1 DEF StrandEmptyBatch, StrandBatch
        <4> QED  BY <3>1, <4>1, <4>2 DEF WaitedFor
      <3> QED  BY <3>1, <3>2, <3>3
    <2>3. ASSUME NEW n \in DOMAIN pool, PoolIndex(n) PROVE upc' = "futures" /\ t.f \in awaiting'
      <3>1. pool[n] \in Carriers /\ (t \in Carriers \/ t = FileBatch(pool[n]))
        BY <1>2, <2>3, IndexCarries
      <3>2. UNCHANGED <<upc, awaiting>>
        BY <2>3 DEF PoolIndex, updateVars
      <3> QED  BY <3>1, <3>2 DEF WaitedFor, FileBatch, BatchTask
    <2>4. ASSUME NEW n \in DOMAIN pool, PoolIndexFails(n) \/ PoolCommit(n)
          PROVE  upc' = "futures" /\ t.f \in awaiting'
      <3>1. pool[n] \in Carriers /\ t \in Carriers /\ pool[n] \notin Carriers'
        BY <1>0, <1>2, <2>4, DoneCarries
      <3>2. t.f # pool[n].f
        BY <1>0, <1>2, <3>1 DEF Single
      <3>3. awaiting' \in {awaiting, awaiting \ {pool[n].f}} /\ UNCHANGED upc
        BY <2>4 DEF PoolIndexFails, PoolCommit, Settle
      <3> QED  BY <3>1, <3>2, <3>3 DEF WaitedFor
    <2>5. CASE Carriers' = Carriers
      BY <1>2, <2>2, <2>4, <2>5, <2>a
    <2> QED  BY <1>0, <2>1, <2>2, <2>3, <2>4, <2>5, SameCarriers
  <1> QED  BY <1>1, <1>2 DEF WaitedFor

\* Full updates alone, none of whose files times out, need no hypothesis: a file is
\* taken up by one full update at a time, and compact is posted only when every file
\* has been committed.  Faults of the writer and a stop may come at any moment.
THEOREM FullUpdatesHold ==
    ASSUME Watchers = {}, MaxTimeouts = 0
    PROVE  Spec => []IndexInv /\ EternalTrace
  <1>1. NoPoints /\ LiveInv => OneAfterAnother
    <2>1. ASSUME NoPoints, LiveInv, StrandRuns("upsert") PROVE FALSE
      <3>1. ExecOk
        BY <2>1 DEF LiveInv, Types
      <3> QED  BY <2>1, <3>1, Running DEF NoPoints
    <2> QED  BY <2>1 DEF OneAfterAnother
  <1>2. Spec => []OneAfterAnother
    BY <1>1, AlwaysNoPoints, AlwaysLive, PTL
  <1>3. Spec => []SingleInv
    BY <1>2, AlwaysSingle, PTL
  <1>4. Init => WaitedFor
    BY DEF Init, WaitedFor, Carriers, Range
  <1>5. ASSUME LiveInv, NoPoints, SingleInv, WaitedFor, [Next]_vars PROVE WaitedFor'
    <2>1. CASE Next
      BY <1>5, <2>1, WaitedForStep DEF LiveInv, Types
    <2>2. CASE UNCHANGED vars
      <3>1. UNCHANGED <<strand, pool, upc, awaiting>>
        BY <2>2 DEF vars, execVars, updateVars
      <3>2. Carriers' = Carriers
        BY <3>1 DEF Carriers
      <3> QED  BY <1>5, <3>1, <3>2 DEF WaitedFor
    <2> QED  BY <1>5, <2>1, <2>2
  <1>6. Spec => []WaitedFor
    BY <1>3, <1>4, <1>5, AlwaysLive, AlwaysNoPoints, PTL DEF Spec
  <1>7. LiveInv /\ WaitedFor => CommitsApart
    <2> SUFFICES ASSUME LiveInv, WaitedFor, updateMutex = Strand, NEW i \in DOMAIN pool PROVE FALSE
      BY DEF CommitsApart
    <2>1. /\ strand # <<>> /\ Head(strand).k = "compact" /\ 1 \in DOMAIN strand
          /\ Head(strand) = strand[1]
      BY HeadTask DEF LiveInv, Types, DictOk
    <2>2. pool[i] \in Carriers
      BY DEF Carriers, Range
    <2> QED  BY <2>1, <2>2 DEF WaitedFor
  <1>8. Spec => []CommitsApart
    BY <1>6, <1>7, AlwaysLive, PTL
  <1> QED  BY <1>2, <1>8, IndexHolds, TraceIsEternal, PTL
=============================================================================
