-------------------------- MODULE FileEventsProofs --------------------------
(***************************************************************************)
(* For any files, any number of flushes, changes and failures, and any     *)
(* capacity of the directory handle: a FileWatcher, the dispatcher and its *)
(* task are destroyed only when nothing can call them any more; no event   *)
(* is left in the map with nobody to look at it; and when the disk has     *)
(* been quiet the index holds what the disk holds.                         *)
(***************************************************************************)
EXTENDS FileEvents, SequenceTheorems, FiniteSetTheorems, TLAPS

-----------------------------------------------------------------------------
(* The inductive invariant.                                                *)

\* The disk, the index and the history.
WorldOk ==
    /\ disk \in [Files -> 0 .. MaxChanges + 1]
    /\ index \in [Files -> 0 .. MaxChanges + 1]
    /\ root \in BOOLEAN
    /\ changes \in 0 .. MaxChanges /\ faults \in 0 .. MaxFaults
    /\ missed \subseteq Files /\ hasty \subseteq Files /\ dead \subseteq Files

\* What the two directory handles have recorded, and what was read of it.
RecordOk ==
    /\ armed \in BOOLEAN /\ overflow \in BOOLEAN
    /\ notes \in Seq(Events \X Files) /\ Len(notes) <= MaxNotes
    /\ buf \in Seq(Events \X Files)
    /\ parentNotes \in Seq({"added", "removed"})
    /\ parentBuf \in Seq({"added", "removed"})
    /\ stale \in Seq({"added", "removed"})

\* The places of the threads, and pendingReads_.
PlacesOk ==
    /\ inner \in BOOLEAN /\ running \in BOOLEAN /\ watching \in BOOLEAN
    /\ hDir \in {"closed", "here", "away"} /\ hParent \in {"closed", "open", "armed"}
    /\ io \in {"none", "pending", "failed"}
    /\ handler \in {"idle", "parse", "issue", "finish"}
    /\ fwStop \in {"none", "close", "drain", "gone"}
    /\ watch \in {"top", "open", "read", "blocked", "events", "walk", "first",
                  "stop", "ended"}
    /\ main \in {"run", "look", "join", "inner", "clear", "wait", "destroyed"}
    /\ reads = (IF handler = "idle" THEN 0 ELSE 1)
             + (IF io # "none" \/ handler = "issue" THEN 1 ELSE 0)

\* Neither a read nor a handler uses the FileWatcher.
Unused == handler = "idle" /\ io = "none"

\* A handler that has not read again yet has no read under way beside it; there
\* is none of either without a FileWatcher, before its first read, or once its
\* stop has waited for them.  One thread at a time stops it.
QuietOk ==
    /\ handler \in {"parse", "issue"} => io = "none"
    /\ ~inner => Unused /\ fwStop = "none"
    /\ fwStop = "gone" => Unused
    /\ watch \in {"walk", "first"} => inner /\ Unused /\ fwStop = "none"
    /\ fwStop # "none" => watch = "stop" \/ main = "inner"
    /\ main \in {"inner", "clear", "wait", "destroyed"} => watch = "ended"
    /\ main \in {"clear", "wait", "destroyed"} => ~inner

\* The map, the queue and the flushes: a flush has a path to go on with, or a
\* command, or nothing.
QueueOk ==
    /\ todo \subseteq Files
    /\ evt \in [Files -> Events \cup {"none"}] /\ pendingQ \in Seq(Files)
    /\ flush \in [Runs -> {"none", "posted", "next", "exec"}]
    /\ local \in [Runs -> Seq(Files)]
    /\ cmd \in [Runs -> (Events \X Files) \cup {NoCmd}]
    /\ \A r \in Runs :
          /\ flush[r] \in {"none", "posted"} => local[r] = <<>>
          /\ flush[r] = "next" => local[r] # <<>>
          /\ flush[r] = "exec" => cmd[r] \in Events \X Files

\* How far the shutdown has come.
StopOk ==
    /\ stopping \in BOOLEAN /\ stopped \in BOOLEAN
    /\ stopping <=> main # "run"
    /\ stopped <=> main \in {"wait", "destroyed"}
    /\ main = "destroyed" => \A r \in Runs : flush[r] = "none"

\* f is in q; nothing is in q twice.
Has(q, f) == \E i \in DOMAIN q : q[i] = f
Once(q)   == \A i, j \in DOMAIN q : q[i] = q[j] => i = j

\* Every path that waits has an entry in the map and waits in one place only;
\* every entry but those of a flush that threw waits somewhere.
StrandInv ==
    /\ Once(pendingQ) /\ \A r \in Runs : Once(local[r])
    /\ \A r \in Runs : \A f \in Files :
          Has(local[r], f) => /\ ~Has(pendingQ, f)
                              /\ \A q \in Runs : Has(local[q], f) => q = r
    /\ \A f \in Files :
          LET waits == Has(pendingQ, f) \/ \E r \in Runs : Has(local[r], f)
          IN  /\ waits => evt[f] # "none" /\ f \notin dead
              /\ evt[f] # "none" => waits \/ f \in dead
              /\ f \in dead => evt[f] # "none"

StrandOk == ~stopping => StrandInv

\* The events of s are about f; the last of them is a removal.
Mentions(s, f) == \E i \in DOMAIN s : s[i][2] = f
EndsGone(s, f) == \E i \in DOMAIN s : /\ s[i][1] \in Gone /\ s[i][2] = f
                                      /\ \A j \in DOMAIN s : j > i => s[j][2] # f

\* A flush is at a command for f, of one of the kinds E.
Ordered(f, E) == \E r \in Runs : /\ flush[r] = "exec" /\ cmd[r][1] \in E
                                 /\ cmd[r][2] = f

\* A removal of f will be carried out: it is at a command, or the last there is of
\* f in the map, what the handler parses and what the handle has recorded.
RemovalAhead(f) ==
    \/ Ordered(f, Gone)
    \/ EndsGone(notes, f)
    \/ ~Mentions(notes, f) /\ EndsGone(buf, f)
    \/ ~Mentions(notes, f) /\ ~Mentions(buf, f) /\ evt[f] \in Gone

EventAhead(f) ==
    Ordered(f, Events) \/ Mentions(notes, f) \/ Mentions(buf, f) \/ evt[f] # "none"

\* Where the index differs from the disk, something is under way that will settle
\* it: a removal when the file is gone, and any event when it is there, for a
\* removal carried out then makes it hasty.
Settled(f) ==
    /\ disk[f] = 0 => index[f] = 0 \/ RemovalAhead(f)
    /\ disk[f] # 0 /\ f \notin Excluded =>
          \/ index[f] = disk[f] \/ (index[f] = 0 /\ f \in hasty)
          \/ EventAhead(f)

FollowsInv == \A f \in Files \ (missed \cup dead) : Settled(f)

FollowOk == (handler # "parse" => buf = <<>>) /\ (~stopping => FollowsInv)

\* The inductive invariant.
EventsInv == /\ WorldOk /\ RecordOk /\ PlacesOk /\ QuietOk
             /\ QueueOk /\ StopOk /\ StrandOk /\ FollowOk

-----------------------------------------------------------------------------
(* The disk, the index and the history.                                    *)

\* An operation that loses the notifications of some files notes just these.
LEMMA MissOk ==
    ASSUME NEW fs \in SUBSET Files, missed \subseteq Files, Miss(fs)
    PROVE  missed' \subseteq Files
BY DEF Miss

\* The events of a record are about files.
LEMMA FilesInOk ==
    ASSUME NEW s \in Seq(Events \X Files)
    PROVE  FilesIn(s) \subseteq Files
<1>1. \A i \in DOMAIN s : s[i] \in Events \X Files
  BY ElementOfSeq, LenProperties
<1> QED BY <1>1 DEF FilesIn

\* A handle that takes note of s loses its whole record when s does not fit.
LEMMA RecordKeeps ==
    ASSUME NEW s \in Seq(Events \X Files), missed \subseteq Files, RecordOk, Record(s)
    PROVE  missed' \subseteq Files /\ UNCHANGED armed
           /\ overflow' \in BOOLEAN
           /\ notes' \in Seq(Events \X Files) /\ Len(notes') <= MaxNotes
<1>1. notes \o s \in Seq(Events \X Files) BY ConcatProperties DEF RecordOk
<1>2. FilesIn(s) \subseteq Files /\ FilesIn(notes \o s) \subseteq Files
  BY <1>1, FilesInOk
<1>3. missed' \subseteq Files
  BY <1>2, MissOk DEF Record, recordVars, Miss
<1>4. <<>> \in Seq(Events \X Files) /\ Len(<<>>) <= MaxNotes
  BY EmptySeq, EventsAssumption
<1> HIDE DEF FilesIn
<1>5. Len(notes \o s) \in Nat /\ MaxNotes \in Nat BY <1>1, LenProperties, EventsAssumption
<1>6. \/ UNCHANGED recordVars
      \/ armed' = armed /\ overflow' = TRUE /\ notes' = <<>>
      \/ /\ armed' = armed /\ overflow' = overflow
         /\ ~(Len(notes \o s) > MaxNotes) /\ notes' = notes \o s
  BY DEF Record, recordVars
<1>7. CASE UNCHANGED recordVars
  BY <1>3, <1>7 DEF recordVars, RecordOk
<1>8. CASE armed' = armed /\ overflow' = TRUE /\ notes' = <<>>
  BY <1>3, <1>4, <1>8
<1>9. CASE /\ armed' = armed /\ overflow' = overflow
           /\ ~(Len(notes \o s) > MaxNotes) /\ notes' = notes \o s
  <2>1. Len(notes') <= MaxNotes /\ notes' \in Seq(Events \X Files)
    BY <1>1, <1>5, <1>9
  <2> QED BY <1>3, <1>9, <2>1 DEF RecordOk
<1> QED BY <1>6, <1>7, <1>8, <1>9


\* The disk, the index and the history keep their types.
LEMMA WorldStep ==
    ASSUME WorldOk, RecordOk, QueueOk, Next
    PROVE  WorldOk'
<1>1. CASE \E r \in Runs : FlushExec(r)
<2>1. PICK r \in Runs : FlushExec(r) BY <1>1
<2>2. cmd[r] \in Events \X Files BY <2>1 DEF FlushExec, QueueOk
<2> DEFINE e == cmd[r][1]  f == cmd[r][2]
<2>3. e \in Events /\ f \in Files BY <2>2
<2>4. disk[f] \in 0 .. MaxChanges + 1 BY <2>3 DEF WorldOk
<2>5. index' \in [Files -> 0 .. MaxChanges + 1]
  <3> 0 \in 0 .. MaxChanges + 1 BY EventsAssumption
  <3>1. \/ index' = index \/ index' = [index EXCEPT ![f] = 0]
        \/ index' = [index EXCEPT ![f] = disk[f]]
    BY <2>1 DEF FlushExec
  <3> QED BY <3>1, <2>3, <2>4 DEF WorldOk
<2>6. missed' \subseteq Files /\ hasty' \subseteq Files
  BY <2>1, <2>3 DEF FlushExec, WorldOk
<2> QED BY <2>1, <2>5, <2>6 DEF FlushExec, WorldOk, worldVars
<1>2. CASE \E r \in Runs : FlushThrows(r)
<2>1. PICK r \in Runs : FlushThrows(r) BY <1>2
<2>2. cmd[r][2] \in Files BY <2>1 DEF FlushThrows, QueueOk
<2>3. local[r] \in Seq(Files) BY DEF QueueOk
<2>4. \A i \in DOMAIN local[r] : local[r][i] \in Files
  BY <2>3, ElementOfSeq, LenProperties
<2>5. missed' \subseteq Files
  BY <2>1, <2>2, MissOk DEF FlushThrows, WorldOk
<2>6. dead' \subseteq Files BY <2>1, <2>4 DEF FlushThrows, WorldOk
<2>7. faults' \in 0 .. MaxFaults
  BY <2>1, EventsAssumption DEF FlushThrows, WorldOk
<2> QED BY <2>1, <2>5, <2>6, <2>7 DEF FlushThrows, WorldOk, worldVars
<1>3. CASE ReadCompletes
<2>1. FilesIn(notes) \subseteq Files BY FilesInOk DEF RecordOk
<2>2. missed' \subseteq Files
  BY <1>3, <2>1, MissOk DEF ReadCompletes, WorldOk
<2> QED BY <1>3, <2>2 DEF ReadCompletes, WorldOk, worldVars
<1>4. CASE StopClose
<2>1. FilesIn(notes) \subseteq Files BY FilesInOk DEF RecordOk
<2>2. missed' \subseteq Files
  BY <1>4, <2>1, MissOk DEF StopClose, WorldOk
<2> QED BY <1>4, <2>2 DEF StopClose, WorldOk, worldVars
<1>5. CASE WatchOverflows
  BY <1>5, EventsAssumption DEF WatchOverflows, WorldOk, worldVars,
        resultVars, histVars
<1>6. CASE MainStops
  BY <1>6 DEF MainStops, WorldOk, worldVars, recordVars, fwVars, handVars,
        rootVars, parentVars, threadVars, mapVars, flushVars, dispatchVars,
        histVars, resultVars
<1>7. CASE \E f \in Files : FileChanges(f)
<2>1. PICK f \in Files : FileChanges(f) BY <1>7
<2>2. PICK e \in Events : Record(<< <<e, f>> >>)
  BY <2>1 DEF FileChanges, Events
<2>3. << <<e, f>> >> \in Seq(Events \X Files) OBVIOUS
<2>4. missed' \subseteq Files BY <2>2, <2>3, RecordKeeps DEF WorldOk
<2>5. changes' \in 0 .. MaxChanges /\ {0, changes + 2} \subseteq 0 .. MaxChanges + 1
  BY <2>1, EventsAssumption DEF FileChanges, Change, WorldOk
<2>6. disk' \in [Files -> 0 .. MaxChanges + 1]
  BY <2>1, <2>5 DEF FileChanges, WorldOk
<2> QED BY <2>1, <2>4, <2>5, <2>6 DEF FileChanges, WorldOk
<1>8. CASE \E f, g \in Files : FileRenamed(f, g)
<2>1. PICK f \in Files, g \in Files : FileRenamed(f, g) BY <1>8
<2>2. Record(<< <<"RenamedOld", f>>, <<"RenamedNew", g>> >>)
  BY <2>1 DEF FileRenamed
<2>3. << <<"RenamedOld", f>>, <<"RenamedNew", g>> >> \in Seq(Events \X Files)
  BY DEF Events
<2>4. missed' \subseteq Files BY <2>2, <2>3, RecordKeeps DEF WorldOk
<2>5. changes' \in 0 .. MaxChanges /\ {0, changes + 2} \subseteq 0 .. MaxChanges + 1
  BY <2>1, EventsAssumption DEF FileRenamed, Change, WorldOk
<2>6. disk' \in [Files -> 0 .. MaxChanges + 1]
  BY <2>1, <2>5 DEF FileRenamed, WorldOk
<2> QED BY <2>1, <2>4, <2>5, <2>6 DEF FileRenamed, WorldOk
<1>9. CASE RootMoves
<2>1. changes' \in 0 .. MaxChanges /\ {0, changes + 2} \subseteq 0 .. MaxChanges + 1
  BY <1>9, EventsAssumption DEF RootMoves, Change, WorldOk
<2>2. disk' \in [Files -> 0 .. MaxChanges + 1]
  <3>1. \/ disk' = [f \in Files |-> 0] \/ disk' \in [Files -> {0, changes + 2}]
    BY <1>9 DEF RootMoves
  <3> QED BY <3>1, <2>1
<2>3. missed' \subseteq Files
  <3>1. {f \in Files : disk[f] # disk'[f]} \subseteq Files OBVIOUS
  <3> QED BY <1>9, <3>1, MissOk DEF RootMoves, WorldOk
<2>4. root' \in BOOLEAN /\ UNCHANGED <<index, hasty, dead, faults>> BY <1>9
      DEF RootMoves
<2> QED BY <2>1, <2>2, <2>3, <2>4 DEF WorldOk
<1>10. CASE
    \/ (\E r \in Runs : Tick(r)) \/ (\E r \in Runs : FlushStart(r))
    \/ (\E r \in Runs : FlushNext(r)) \/ ParseEvent \/ StartRead \/ IssueRead
    \/ FinishPendingRead \/ StopDrained
  BY <1>10 DEF Tick, FlushStart, FlushNext, ParseEvent, StartRead, IssueRead,
        FinishPendingRead, StopDrained, WorldOk, worldVars, recordVars,
        fwVars, handVars, rootVars, parentVars, threadVars, mapVars,
        flushVars, dispatchVars, histVars, resultVars
<1>11. CASE
    \/ WatchTop \/ WatchOpen \/ WatchRead \/ WatchWakes \/ WatchEvent
    \/ (\E f \in Files : WatchWalk(f)) \/ WatchFirstRead \/ WatchStopped
  BY <1>11 DEF WatchTop, WatchOpen, WatchRead, WatchWakes, WatchEvent,
        WatchWalk, WatchFirstRead, WatchStopped, WorldOk, worldVars,
        recordVars, fwVars, handVars, rootVars, parentVars, threadVars,
        mapVars, flushVars, dispatchVars, histVars, resultVars
<1>12. CASE
    \/ MainLook \/ MainJoin \/ MainInnerStopped \/ MainClear \/ MainWait
  BY <1>12 DEF MainLook, MainJoin, MainInnerStopped, MainClear, MainWait,
        WorldOk, worldVars, recordVars, fwVars, handVars, rootVars,
        parentVars, threadVars, mapVars, flushVars, dispatchVars, histVars,
        resultVars
<1> QED BY <1>1, <1>2, <1>3, <1>4, <1>5, <1>6, <1>7, <1>8, <1>9, <1>10, <1>11,
      <1>12 DEF Next, Handler, StopWatcher, Watch, Main, Flush

-----------------------------------------------------------------------------
(* The records of the handles.                                             *)


\* The records keep their types, and the capacity of the root's handle.
LEMMA RecordStep ==
    ASSUME WorldOk, RecordOk, QueueOk, Next
    PROVE  RecordOk'
<1>1. CASE ReadCompletes
<2>1. <<>> \in Seq(Events \X Files) /\ Len(<<>>) <= MaxNotes
  BY EmptySeq, EventsAssumption
<2> QED BY <1>1, <2>1 DEF ReadCompletes, RecordOk, worldVars, recordVars,
      fwVars, handVars, rootVars, parentVars, threadVars, mapVars, flushVars,
      dispatchVars, histVars, resultVars
<1>2. CASE ParseEvent
<2>1. buf' \in Seq(Events \X Files)
  BY <1>2, HeadTailProperties DEF ParseEvent, RecordOk
<2> QED BY <1>2, <2>1 DEF ParseEvent, RecordOk, worldVars, recordVars, fwVars,
      handVars, rootVars, parentVars, threadVars, mapVars, flushVars,
      dispatchVars, histVars, resultVars
<1>3. CASE StopClose
<2>1. <<>> \in Seq(Events \X Files) /\ Len(<<>>) <= MaxNotes
  BY EmptySeq, EventsAssumption
<2> QED BY <1>3, <2>1 DEF StopClose, RecordOk, worldVars, recordVars, fwVars,
      handVars, rootVars, parentVars, threadVars, mapVars, flushVars,
      dispatchVars, histVars, resultVars
<1>4. CASE WatchWakes
<2>1. Head(parentNotes) \in {"added", "removed"}
  BY <1>4, HeadTailProperties DEF WatchWakes, RecordOk
<2>2. /\ <<Head(parentNotes)>> \in Seq({"added", "removed"})
      /\ <<>> \in Seq({"added", "removed"})
  BY <2>1
<2> QED BY <1>4, <2>2 DEF WatchWakes, RecordOk, worldVars, recordVars, fwVars,
      handVars, rootVars, parentVars, threadVars, mapVars, flushVars,
      dispatchVars, histVars, resultVars
<1>5. CASE WatchOverflows
<2>1. <<>> \in Seq({"added", "removed"}) OBVIOUS
<2> QED BY <1>5, <2>1 DEF WatchOverflows, RecordOk, worldVars, recordVars,
      fwVars, handVars, rootVars, parentVars, threadVars, mapVars, flushVars,
      dispatchVars, histVars, resultVars
<1>6. CASE WatchEvent
<2>1. parentBuf' \in Seq({"added", "removed"})
  BY <1>6, HeadTailProperties DEF WatchEvent, RecordOk
<2> QED BY <1>6, <2>1 DEF WatchEvent, RecordOk, worldVars, recordVars, fwVars,
      handVars, rootVars, parentVars, threadVars, mapVars, flushVars,
      dispatchVars, histVars, resultVars
<1>7. CASE WatchFirstRead
  BY <1>7 DEF WatchFirstRead, RecordOk, worldVars, recordVars, fwVars,
        handVars, rootVars, parentVars, threadVars, mapVars, flushVars,
        dispatchVars, histVars, resultVars
<1>8. CASE MainLook
<2>1. <<>> \in Seq({"added", "removed"}) OBVIOUS
<2> QED BY <1>8, <2>1 DEF MainLook, RecordOk, worldVars, recordVars, fwVars,
      handVars, rootVars, parentVars, threadVars, mapVars, flushVars,
      dispatchVars, histVars, resultVars
<1>9. CASE \E f \in Files : FileChanges(f)
<2>1. PICK f \in Files : FileChanges(f) BY <1>9
<2>2. PICK e \in Events : Record(<< <<e, f>> >>)
  BY <2>1 DEF FileChanges, Events
<2>3. << <<e, f>> >> \in Seq(Events \X Files) OBVIOUS
<2>4. /\ UNCHANGED armed /\ overflow' \in BOOLEAN
      /\ notes' \in Seq(Events \X Files) /\ Len(notes') <= MaxNotes
  BY <2>2, <2>3, RecordKeeps DEF WorldOk
<2> QED BY <2>1, <2>4 DEF FileChanges, RecordOk, worldVars, recordVars,
      fwVars, handVars, rootVars, parentVars, threadVars, mapVars, flushVars,
      dispatchVars, histVars, resultVars
<1>10. CASE \E f, g \in Files : FileRenamed(f, g)
<2>1. PICK f \in Files, g \in Files : FileRenamed(f, g) BY <1>10
<2>2. Record(<< <<"RenamedOld", f>>, <<"RenamedNew", g>> >>)
  BY <2>1 DEF FileRenamed
<2>3. << <<"RenamedOld", f>>, <<"RenamedNew", g>> >> \in Seq(Events \X Files)
  BY DEF Events
<2>4. /\ UNCHANGED armed /\ overflow' \in BOOLEAN
      /\ notes' \in Seq(Events \X Files) /\ Len(notes') <= MaxNotes
  BY <2>2, <2>3, RecordKeeps DEF WorldOk
<2> QED BY <2>1, <2>4 DEF FileRenamed, RecordOk, worldVars, recordVars,
      fwVars, handVars, rootVars, parentVars, threadVars, mapVars, flushVars,
      dispatchVars, histVars, resultVars
<1>11. CASE RootMoves
<2>1. parentNotes' \in Seq({"added", "removed"})
  <3>1. /\ Append(parentNotes, "added") \in Seq({"added", "removed"})
        /\ Append(parentNotes, "removed") \in Seq({"added", "removed"})
    BY AppendProperties DEF RecordOk
  <3> QED BY <1>11, <3>1 DEF RootMoves, RecordParent, RecordOk
<2>2. armed' \in BOOLEAN BY <1>11 DEF RootMoves, RecordOk
<2> QED BY <1>11, <2>1, <2>2 DEF RootMoves, RecordOk, worldVars, recordVars,
      fwVars, handVars, rootVars, parentVars, threadVars, mapVars, flushVars,
      dispatchVars, histVars, resultVars
<1>12. CASE
    \/ (\E r \in Runs : Tick(r)) \/ (\E r \in Runs : FlushStart(r))
    \/ (\E r \in Runs : FlushNext(r)) \/ (\E r \in Runs : FlushExec(r))
    \/ (\E r \in Runs : FlushThrows(r)) \/ StartRead \/ IssueRead
    \/ FinishPendingRead
  BY <1>12 DEF Tick, FlushStart, FlushNext, FlushExec, FlushThrows, StartRead,
        IssueRead, FinishPendingRead, RecordOk, worldVars, recordVars, fwVars,
        handVars, rootVars, parentVars, threadVars, mapVars, flushVars,
        dispatchVars, histVars, resultVars
<1>13. CASE
    \/ StopDrained \/ WatchTop \/ WatchOpen \/ WatchRead
    \/ (\E f \in Files : WatchWalk(f)) \/ WatchStopped \/ MainStops
    \/ MainJoin
  BY <1>13 DEF StopDrained, WatchTop, WatchOpen, WatchRead, WatchWalk,
        WatchStopped, MainStops, MainJoin, RecordOk, worldVars, recordVars,
        fwVars, handVars, rootVars, parentVars, threadVars, mapVars,
        flushVars, dispatchVars, histVars, resultVars
<1>14. CASE
    \/ MainInnerStopped \/ MainClear \/ MainWait
  BY <1>14 DEF MainInnerStopped, MainClear, MainWait, RecordOk, worldVars,
        recordVars, fwVars, handVars, rootVars, parentVars, threadVars,
        mapVars, flushVars, dispatchVars, histVars, resultVars
<1> QED BY <1>1, <1>2, <1>3, <1>4, <1>5, <1>6, <1>7, <1>8, <1>9, <1>10, <1>11,
      <1>12, <1>13, <1>14 DEF Next, Handler, StopWatcher, Watch, Main, Flush

-----------------------------------------------------------------------------
(* The threads: pendingReads_, and who may still use a FileWatcher.        *)


\* Every step leaves the places of the threads in their types and pendingReads_ exact.
LEMMA PlacesStep ==
    ASSUME PlacesOk, QuietOk, Next
    PROVE  PlacesOk'
<1>1. CASE ReadCompletes
  BY <1>1 DEF ReadCompletes, PlacesOk, QuietOk, Unused, worldVars, recordVars,
        fwVars, handVars, rootVars, parentVars, threadVars, mapVars,
        flushVars, dispatchVars, histVars, resultVars
<1>2. CASE StartRead
  BY <1>2 DEF StartRead, PlacesOk, QuietOk, Unused, worldVars, recordVars,
        fwVars, handVars, rootVars, parentVars, threadVars, mapVars,
        flushVars, dispatchVars, histVars, resultVars
<1>3. CASE IssueRead
  BY <1>3 DEF IssueRead, PlacesOk, QuietOk, Unused, worldVars, recordVars,
        fwVars, handVars, rootVars, parentVars, threadVars, mapVars,
        flushVars, dispatchVars, histVars, resultVars
<1>4. CASE FinishPendingRead
  BY <1>4 DEF FinishPendingRead, PlacesOk, QuietOk, Unused, worldVars,
        recordVars, fwVars, handVars, rootVars, parentVars, threadVars,
        mapVars, flushVars, dispatchVars, histVars, resultVars
<1>5. CASE StopClose
  BY <1>5 DEF StopClose, PlacesOk, QuietOk, Unused, worldVars, recordVars,
        fwVars, handVars, rootVars, parentVars, threadVars, mapVars,
        flushVars, dispatchVars, histVars, resultVars
<1>6. CASE StopDrained
  BY <1>6 DEF StopDrained, PlacesOk, QuietOk, Unused, worldVars, recordVars,
        fwVars, handVars, rootVars, parentVars, threadVars, mapVars,
        flushVars, dispatchVars, histVars, resultVars
<1>7. CASE WatchTop
  BY <1>7 DEF WatchTop, PlacesOk, QuietOk, Unused, worldVars, recordVars,
        fwVars, handVars, rootVars, parentVars, threadVars, mapVars,
        flushVars, dispatchVars, histVars, resultVars
<1>8. CASE WatchOpen
  BY <1>8 DEF WatchOpen, PlacesOk, QuietOk, Unused, worldVars, recordVars,
        fwVars, handVars, rootVars, parentVars, threadVars, mapVars,
        flushVars, dispatchVars, histVars, resultVars
<1>9. CASE WatchRead
  BY <1>9 DEF WatchRead, PlacesOk, QuietOk, Unused, worldVars, recordVars,
        fwVars, handVars, rootVars, parentVars, threadVars, mapVars,
        flushVars, dispatchVars, histVars, resultVars
<1>10. CASE WatchWakes
  BY <1>10 DEF WatchWakes, PlacesOk, QuietOk, Unused, worldVars, recordVars,
        fwVars, handVars, rootVars, parentVars, threadVars, mapVars,
        flushVars, dispatchVars, histVars, resultVars
<1>11. CASE WatchOverflows
  BY <1>11 DEF WatchOverflows, PlacesOk, QuietOk, Unused, worldVars,
        recordVars, fwVars, handVars, rootVars, parentVars, threadVars,
        mapVars, flushVars, dispatchVars, histVars, resultVars
<1>12. CASE WatchEvent
<2>1. /\ \/ UNCHANGED fwVars
         \/ /\ inner /\ fwStop' = "close" /\ watch' = "stop"
            /\ UNCHANGED <<inner, running, hDir, reads, io>>
         \/ /\ ~inner /\ inner' = TRUE /\ running' = TRUE
            /\ hDir' \in {hDir, "here"} /\ UNCHANGED <<reads, io, fwStop>>
      /\ watch = "events" /\ watch' \in {"top", "stop", "walk", "events"}
      /\ watch' = "stop" => fwStop' = "close"
      /\ watch' = "walk" => ~inner /\ inner' = TRUE /\ UNCHANGED fwStop
      /\ UNCHANGED <<handler, hParent, watching, main>>
  BY <1>12 DEF WatchEvent, worldVars, recordVars, fwVars, handVars, rootVars,
        parentVars, threadVars, mapVars, flushVars, dispatchVars, histVars,
        resultVars
<2>2. UNCHANGED <<reads, io, handler>> BY <2>1 DEF fwVars
<2>3. inner' \in BOOLEAN /\ running' \in BOOLEAN
  BY <2>1 DEF fwVars, PlacesOk
<2>4. hDir' \in {"closed", "here", "away"} /\ fwStop' \in {"none", "close", "drain", "gone"}
  BY <2>1 DEF fwVars, PlacesOk
<2> QED BY <2>1, <2>2, <2>3, <2>4 DEF PlacesOk
<1>13. CASE \E f \in Files : WatchWalk(f)
<2>1. PICK f \in Files : WatchWalk(f) BY <1>13
<2> QED BY <2>1 DEF WatchWalk, PlacesOk, QuietOk, Unused, worldVars,
      recordVars, fwVars, handVars, rootVars, parentVars, threadVars, mapVars,
      flushVars, dispatchVars, histVars, resultVars
<1>14. CASE WatchFirstRead
  BY <1>14 DEF WatchFirstRead, PlacesOk, QuietOk, Unused, worldVars,
        recordVars, fwVars, handVars, rootVars, parentVars, threadVars,
        mapVars, flushVars, dispatchVars, histVars, resultVars
<1>15. CASE WatchStopped
  BY <1>15 DEF WatchStopped, PlacesOk, QuietOk, Unused, Destroyed, worldVars,
        recordVars, fwVars, handVars, rootVars, parentVars, threadVars,
        mapVars, flushVars, dispatchVars, histVars, resultVars
<1>16. CASE MainStops
  BY <1>16 DEF MainStops, PlacesOk, QuietOk, Unused, worldVars, recordVars,
        fwVars, handVars, rootVars, parentVars, threadVars, mapVars,
        flushVars, dispatchVars, histVars, resultVars
<1>17. CASE MainLook
  BY <1>17 DEF MainLook, PlacesOk, QuietOk, Unused, worldVars, recordVars,
        fwVars, handVars, rootVars, parentVars, threadVars, mapVars,
        flushVars, dispatchVars, histVars, resultVars
<1>18. CASE MainJoin
  BY <1>18 DEF MainJoin, PlacesOk, QuietOk, Unused, worldVars, recordVars,
        fwVars, handVars, rootVars, parentVars, threadVars, mapVars,
        flushVars, dispatchVars, histVars, resultVars
<1>19. CASE MainInnerStopped
  BY <1>19 DEF MainInnerStopped, PlacesOk, QuietOk, Unused, Destroyed,
        worldVars, recordVars, fwVars, handVars, rootVars, parentVars,
        threadVars, mapVars, flushVars, dispatchVars, histVars, resultVars
<1>20. CASE MainClear
  BY <1>20 DEF MainClear, PlacesOk, QuietOk, Unused, worldVars, recordVars,
        fwVars, handVars, rootVars, parentVars, threadVars, mapVars,
        flushVars, dispatchVars, histVars, resultVars
<1>21. CASE MainWait
  BY <1>21 DEF MainWait, PlacesOk, QuietOk, Unused, worldVars, recordVars,
        fwVars, handVars, rootVars, parentVars, threadVars, mapVars,
        flushVars, dispatchVars, histVars, resultVars
<1>22. CASE RootMoves
  BY <1>22 DEF RootMoves, PlacesOk, QuietOk, Unused, worldVars, recordVars,
        fwVars, handVars, rootVars, parentVars, threadVars, mapVars,
        flushVars, dispatchVars, histVars, resultVars
<1>23. CASE
    \/ (\E r \in Runs : Tick(r)) \/ (\E r \in Runs : FlushStart(r))
    \/ (\E r \in Runs : FlushNext(r))
  BY <1>23 DEF Tick, FlushStart, FlushNext, PlacesOk, worldVars, recordVars,
        fwVars, handVars, rootVars, parentVars, threadVars, mapVars,
        flushVars, dispatchVars, histVars, resultVars
<1>24. CASE
    \/ (\E r \in Runs : FlushExec(r)) \/ (\E r \in Runs : FlushThrows(r))
    \/ ParseEvent
  BY <1>24 DEF FlushExec, FlushThrows, ParseEvent, PlacesOk, worldVars,
        recordVars, fwVars, handVars, rootVars, parentVars, threadVars,
        mapVars, flushVars, dispatchVars, histVars, resultVars
<1>25. CASE
    \/ (\E f \in Files : FileChanges(f))
    \/ (\E f, g \in Files : FileRenamed(f, g))
  BY <1>25 DEF FileChanges, FileRenamed, PlacesOk, worldVars, recordVars,
        fwVars, handVars, rootVars, parentVars, threadVars, mapVars,
        flushVars, dispatchVars, histVars, resultVars
<1> QED BY <1>1, <1>2, <1>3, <1>4, <1>5, <1>6, <1>7, <1>8, <1>9, <1>10, <1>11,
      <1>12, <1>13, <1>14, <1>15, <1>16, <1>17, <1>18, <1>19, <1>20, <1>21,
      <1>22, <1>23, <1>24, <1>25 DEF Next, Handler, StopWatcher, Watch, Main,
      Flush

\* No step makes a FileWatcher busy that is stopped or not there.
LEMMA QuietStep ==
    ASSUME PlacesOk, QuietOk, StopOk, Next
    PROVE  QuietOk'
<1>1. CASE ReadCompletes
  BY <1>1 DEF ReadCompletes, QuietOk, PlacesOk, StopOk, Unused, worldVars,
        recordVars, fwVars, handVars, rootVars, parentVars, threadVars,
        mapVars, flushVars, dispatchVars, histVars, resultVars
<1>2. CASE StartRead
  BY <1>2 DEF StartRead, QuietOk, PlacesOk, StopOk, Unused, worldVars,
        recordVars, fwVars, handVars, rootVars, parentVars, threadVars,
        mapVars, flushVars, dispatchVars, histVars, resultVars
<1>3. CASE IssueRead
  BY <1>3 DEF IssueRead, QuietOk, PlacesOk, StopOk, Unused, worldVars,
        recordVars, fwVars, handVars, rootVars, parentVars, threadVars,
        mapVars, flushVars, dispatchVars, histVars, resultVars
<1>4. CASE FinishPendingRead
  BY <1>4 DEF FinishPendingRead, QuietOk, PlacesOk, StopOk, Unused, worldVars,
        recordVars, fwVars, handVars, rootVars, parentVars, threadVars,
        mapVars, flushVars, dispatchVars, histVars, resultVars
<1>5. CASE StopClose
  BY <1>5 DEF StopClose, QuietOk, PlacesOk, StopOk, Unused, worldVars,
        recordVars, fwVars, handVars, rootVars, parentVars, threadVars,
        mapVars, flushVars, dispatchVars, histVars, resultVars
<1>6. CASE StopDrained
  BY <1>6 DEF StopDrained, QuietOk, PlacesOk, StopOk, Unused, worldVars,
        recordVars, fwVars, handVars, rootVars, parentVars, threadVars,
        mapVars, flushVars, dispatchVars, histVars, resultVars
<1>7. CASE WatchTop
  BY <1>7 DEF WatchTop, QuietOk, PlacesOk, StopOk, Unused, worldVars,
        recordVars, fwVars, handVars, rootVars, parentVars, threadVars,
        mapVars, flushVars, dispatchVars, histVars, resultVars
<1>8. CASE WatchOpen
  BY <1>8 DEF WatchOpen, QuietOk, PlacesOk, StopOk, Unused, worldVars,
        recordVars, fwVars, handVars, rootVars, parentVars, threadVars,
        mapVars, flushVars, dispatchVars, histVars, resultVars
<1>9. CASE WatchRead
  BY <1>9 DEF WatchRead, QuietOk, PlacesOk, StopOk, Unused, worldVars,
        recordVars, fwVars, handVars, rootVars, parentVars, threadVars,
        mapVars, flushVars, dispatchVars, histVars, resultVars
<1>10. CASE WatchWakes
  BY <1>10 DEF WatchWakes, QuietOk, PlacesOk, StopOk, Unused, worldVars,
        recordVars, fwVars, handVars, rootVars, parentVars, threadVars,
        mapVars, flushVars, dispatchVars, histVars, resultVars
<1>11. CASE WatchOverflows
  BY <1>11 DEF WatchOverflows, QuietOk, PlacesOk, StopOk, Unused, worldVars,
        recordVars, fwVars, handVars, rootVars, parentVars, threadVars,
        mapVars, flushVars, dispatchVars, histVars, resultVars
<1>12. CASE WatchEvent
<2>1. /\ \/ UNCHANGED fwVars
         \/ /\ inner /\ fwStop' = "close" /\ watch' = "stop"
            /\ UNCHANGED <<inner, running, hDir, reads, io>>
         \/ /\ ~inner /\ inner' = TRUE /\ running' = TRUE
            /\ hDir' \in {hDir, "here"} /\ UNCHANGED <<reads, io, fwStop>>
      /\ watch = "events" /\ watch' \in {"top", "stop", "walk", "events"}
      /\ watch' = "stop" => fwStop' = "close"
      /\ watch' = "walk" => ~inner /\ inner' = TRUE /\ UNCHANGED fwStop
      /\ UNCHANGED <<handler, hParent, watching, main>>
  BY <1>12 DEF WatchEvent, worldVars, recordVars, fwVars, handVars, rootVars,
        parentVars, threadVars, mapVars, flushVars, dispatchVars, histVars,
        resultVars
<2>2. UNCHANGED <<reads, io, handler>> BY <2>1 DEF fwVars
<2> QED BY <2>1, <2>2 DEF fwVars, QuietOk, PlacesOk, StopOk, Unused
<1>13. CASE \E f \in Files : WatchWalk(f)
<2>1. PICK f \in Files : WatchWalk(f) BY <1>13
<2> QED BY <2>1 DEF WatchWalk, QuietOk, PlacesOk, StopOk, Unused, worldVars,
      recordVars, fwVars, handVars, rootVars, parentVars, threadVars, mapVars,
      flushVars, dispatchVars, histVars, resultVars
<1>14. CASE WatchFirstRead
  BY <1>14 DEF WatchFirstRead, QuietOk, PlacesOk, StopOk, Unused, worldVars,
        recordVars, fwVars, handVars, rootVars, parentVars, threadVars,
        mapVars, flushVars, dispatchVars, histVars, resultVars
<1>15. CASE WatchStopped
  BY <1>15 DEF WatchStopped, QuietOk, PlacesOk, StopOk, Unused, Destroyed,
        worldVars, recordVars, fwVars, handVars, rootVars, parentVars,
        threadVars, mapVars, flushVars, dispatchVars, histVars, resultVars
<1>16. CASE MainStops
  BY <1>16 DEF MainStops, QuietOk, PlacesOk, StopOk, Unused, worldVars,
        recordVars, fwVars, handVars, rootVars, parentVars, threadVars,
        mapVars, flushVars, dispatchVars, histVars, resultVars
<1>17. CASE MainLook
  BY <1>17 DEF MainLook, QuietOk, PlacesOk, StopOk, Unused, worldVars,
        recordVars, fwVars, handVars, rootVars, parentVars, threadVars,
        mapVars, flushVars, dispatchVars, histVars, resultVars
<1>18. CASE MainJoin
  BY <1>18 DEF MainJoin, QuietOk, PlacesOk, StopOk, Unused, worldVars,
        recordVars, fwVars, handVars, rootVars, parentVars, threadVars,
        mapVars, flushVars, dispatchVars, histVars, resultVars
<1>19. CASE MainInnerStopped
  BY <1>19 DEF MainInnerStopped, QuietOk, PlacesOk, StopOk, Unused, Destroyed,
        worldVars, recordVars, fwVars, handVars, rootVars, parentVars,
        threadVars, mapVars, flushVars, dispatchVars, histVars, resultVars
<1>20. CASE MainClear
  BY <1>20 DEF MainClear, QuietOk, PlacesOk, StopOk, Unused, worldVars,
        recordVars, fwVars, handVars, rootVars, parentVars, threadVars,
        mapVars, flushVars, dispatchVars, histVars, resultVars
<1>21. CASE MainWait
  BY <1>21 DEF MainWait, QuietOk, PlacesOk, StopOk, Unused, worldVars,
        recordVars, fwVars, handVars, rootVars, parentVars, threadVars,
        mapVars, flushVars, dispatchVars, histVars, resultVars
<1>22. CASE RootMoves
  BY <1>22 DEF RootMoves, QuietOk, PlacesOk, StopOk, Unused, worldVars,
        recordVars, fwVars, handVars, rootVars, parentVars, threadVars,
        mapVars, flushVars, dispatchVars, histVars, resultVars
<1>23. CASE
    \/ (\E r \in Runs : Tick(r)) \/ (\E r \in Runs : FlushStart(r))
    \/ (\E r \in Runs : FlushNext(r))
  <2>1. UNCHANGED <<handler, io, inner, fwStop, watch, main>>
    BY <1>23 DEF Tick, FlushStart, FlushNext, worldVars, recordVars, fwVars,
          handVars, rootVars, parentVars, threadVars, mapVars, flushVars,
          dispatchVars, histVars, resultVars
  <2> QED BY <2>1 DEF QuietOk, Unused
<1>24. CASE
    \/ (\E r \in Runs : FlushExec(r)) \/ (\E r \in Runs : FlushThrows(r))
    \/ ParseEvent
  <2>1. UNCHANGED <<handler, io, inner, fwStop, watch, main>>
    BY <1>24 DEF FlushExec, FlushThrows, ParseEvent, worldVars, recordVars,
          fwVars, handVars, rootVars, parentVars, threadVars, mapVars,
          flushVars, dispatchVars, histVars, resultVars
  <2> QED BY <2>1 DEF QuietOk, Unused
<1>25. CASE
    \/ (\E f \in Files : FileChanges(f))
    \/ (\E f, g \in Files : FileRenamed(f, g))
  <2>1. UNCHANGED <<handler, io, inner, fwStop, watch, main>>
    BY <1>25 DEF FileChanges, FileRenamed, worldVars, recordVars, fwVars,
          handVars, rootVars, parentVars, threadVars, mapVars, flushVars,
          dispatchVars, histVars, resultVars
  <2> QED BY <2>1 DEF QuietOk, Unused
<1> QED BY <1>1, <1>2, <1>3, <1>4, <1>5, <1>6, <1>7, <1>8, <1>9, <1>10, <1>11,
      <1>12, <1>13, <1>14, <1>15, <1>16, <1>17, <1>18, <1>19, <1>20, <1>21,
      <1>22, <1>23, <1>24, <1>25 DEF Next, Handler, StopWatcher, Watch, Main,
      Flush

-----------------------------------------------------------------------------
(* The dispatcher: the map, the queue and the flushes.                     *)

\* Two events merge into one.
LEMMA MergeOk ==
    ASSUME NEW old \in Events, NEW neu \in Events
    PROVE  merge2(old, neu) \in Events
BY DEF merge2, Events, Gone

\* An event is dropped, queues its path, or joins the one that is there.
LEMMA PushOk ==
    ASSUME NEW e \in Events, NEW f \in Files, QueueOk, pushFileEvent(e, f)
    PROVE  \/ UNCHANGED mapVars
           \/ /\ evt[f] = "none" /\ evt' = [evt EXCEPT ![f] = e]
              /\ pendingQ' = Append(pendingQ, f)
           \/ /\ evt[f] # "none" /\ pendingQ' = pendingQ
              /\ \E x \in Events : evt' = [evt EXCEPT ![f] = x]
<1>1. CASE stopping \/ ~Accepted(e, f)
  BY <1>1 DEF pushFileEvent
<1>2. CASE ~(stopping \/ ~Accepted(e, f)) /\ evt[f] = "none"
  BY <1>2 DEF pushFileEvent, QueueOk
<1>3. CASE ~(stopping \/ ~Accepted(e, f)) /\ evt[f] # "none"
  <2>1. merge2(evt[f], e) \in Events BY <1>3, MergeOk DEF QueueOk
  <2>2. evt' = [evt EXCEPT ![f] = merge2(evt[f], e)] /\ pendingQ' = pendingQ
    BY <1>3 DEF pushFileEvent, QueueOk
  <2> QED BY <1>3, <2>1, <2>2
<1> QED BY <1>1, <1>2, <1>3

\* The map and the queue keep their types.
LEMMA PushTypes ==
    ASSUME NEW e \in Events, NEW f \in Files, QueueOk, pushFileEvent(e, f)
    PROVE  evt' \in [Files -> Events \cup {"none"}] /\ pendingQ' \in Seq(Files)
<1>1. Append(pendingQ, f) \in Seq(Files) BY AppendProperties DEF QueueOk
<1>2. \A x \in Events : [evt EXCEPT ![f] = x] \in [Files -> Events \cup {"none"}]
  BY DEF QueueOk
<1>3. CASE UNCHANGED mapVars BY <1>3 DEF mapVars, QueueOk
<1>4. CASE evt' = [evt EXCEPT ![f] = e] /\ pendingQ' = Append(pendingQ, f)
  BY <1>1, <1>2, <1>4
<1>5. CASE pendingQ' = pendingQ /\ \E x \in Events : evt' = [evt EXCEPT ![f] = x]
  BY <1>2, <1>5 DEF QueueOk
<1> QED BY <1>3, <1>4, <1>5, PushOk

\* The next event a handler parses.
LEMMA NextEvent ==
    ASSUME RecordOk, ParseEvent
    PROVE  Head(buf)[1] \in Events /\ Head(buf)[2] \in Files
<1>1. Head(buf) \in Events \X Files BY HeadTailProperties DEF RecordOk, ParseEvent
<1> QED BY <1>1

\* A flush that has a path to go on with.
LEMMA NextPath ==
    ASSUME QueueOk, NEW r \in Runs, flush[r] = "next"
    PROVE  /\ local[r] \in Seq(Files) /\ local[r] # <<>>
           /\ Head(local[r]) \in Files /\ Tail(local[r]) \in Seq(Files)
BY HeadTailProperties DEF QueueOk


\* Every step leaves each flush with a path, with a command or with nothing.
LEMMA QueueStep ==
    ASSUME RecordOk, QueueOk, Next
    PROVE  QueueOk'
<1>1. CASE \E r \in Runs : Tick(r)
<2>1. PICK r \in Runs : Tick(r) BY <1>1
<2> QED BY <2>1 DEF Tick, RunGoto, QueueOk, worldVars, recordVars, fwVars,
      handVars, rootVars, parentVars, threadVars, mapVars, flushVars,
      dispatchVars, histVars, resultVars
<1>2. CASE \E r \in Runs : FlushStart(r)
<2>1. PICK r \in Runs : FlushStart(r) BY <1>2
<2>2. <<>> \in Seq(Files) OBVIOUS
<2>3. CASE stopped \/ stopping
  <3>1. /\ flush' = [flush EXCEPT ![r] = "none"] /\ flush[r] = "posted"
        /\ UNCHANGED <<todo, evt, pendingQ, local, cmd>>
    BY <2>1, <2>3 DEF FlushStart, RunGoto, worldVars, recordVars, fwVars,
          handVars, rootVars, parentVars, threadVars, mapVars, flushVars,
          dispatchVars, histVars, resultVars
  <3> QED BY <3>1 DEF QueueOk
<2>4. CASE ~(stopped \/ stopping)
  <3>1. /\ flush' = [flush EXCEPT ![r] = LoopEnd(pendingQ)]
        /\ local' = [local EXCEPT ![r] = pendingQ] /\ pendingQ' = <<>>
        /\ UNCHANGED <<todo, evt, cmd>>
    BY <2>1, <2>4 DEF FlushStart, RunGoto, worldVars, recordVars, fwVars,
          handVars, rootVars, parentVars, threadVars, mapVars, flushVars,
          dispatchVars, histVars, resultVars
  <3>2. /\ LoopEnd(pendingQ) \in {"none", "next"}
        /\ LoopEnd(pendingQ) = "next" <=> pendingQ # <<>>
    BY DEF LoopEnd
  <3>3. local' \in [Runs -> Seq(Files)] /\ pendingQ' \in Seq(Files) BY <2>2,
        <3>1 DEF QueueOk
  <3>4. local'[r] = pendingQ /\ flush'[r] = LoopEnd(pendingQ) BY <3>1 DEF
        QueueOk
  <3>5. \A q \in Runs \ {r} : local'[q] = local[q] /\ flush'[q] = flush[q] BY
        <3>1 DEF QueueOk
  <3> QED BY <3>1, <3>2, <3>3, <3>4, <3>5 DEF QueueOk
<2> QED BY <2>3, <2>4
<1>3. CASE \E r \in Runs : FlushNext(r)
<2>1. PICK r \in Runs : FlushNext(r) BY <1>3
<2> DEFINE f == Head(local[r])
<2>2. flush[r] = "next" BY <2>1 DEF FlushNext
<2>3. /\ local[r] \in Seq(Files) /\ f \in Files
      /\ Tail(local[r]) \in Seq(Files) /\ <<>> \in Seq(Files)
  BY <2>2, NextPath
<2>4. CASE stopping
  BY <2>1, <2>3, <2>4 DEF FlushNext, RunGoto, QueueOk, worldVars, recordVars,
        fwVars, handVars, rootVars, parentVars, threadVars, mapVars,
        flushVars, dispatchVars, histVars, resultVars
<2>5. CASE ~stopping /\ evt[f] = "none"
  BY <2>1, <2>3, <2>5 DEF FlushNext, RunGoto, LoopEnd, QueueOk, worldVars,
        recordVars, fwVars, handVars, rootVars, parentVars, threadVars,
        mapVars, flushVars, dispatchVars, histVars, resultVars
<2>6. CASE ~stopping /\ evt[f] # "none"
  <3>1. <<evt[f], f>> \in Events \X Files BY <2>3, <2>6 DEF QueueOk
  <3>2. /\ flush' = [flush EXCEPT ![r] = "exec"]
        /\ local' = [local EXCEPT ![r] = Tail(local[r])]
        /\ cmd' = [cmd EXCEPT ![r] = <<evt[f], f>>]
        /\ evt' = [evt EXCEPT ![f] = "none"] /\ UNCHANGED <<todo, pendingQ>>
    BY <2>1, <2>6 DEF FlushNext, RunGoto, worldVars, recordVars, fwVars,
          handVars, rootVars, parentVars, threadVars, mapVars, flushVars,
          dispatchVars, histVars, resultVars
  <3>3. local' \in [Runs -> Seq(Files)] BY <2>3, <3>2 DEF QueueOk
  <3>4. cmd' \in [Runs -> (Events \X Files) \cup {NoCmd}]
        /\ cmd'[r] \in Events \X Files
    BY <3>1, <3>2 DEF QueueOk
  <3> QED BY <2>3, <3>2, <3>3, <3>4 DEF QueueOk
<2> QED BY <2>4, <2>5, <2>6
<1>4. CASE \E r \in Runs : FlushExec(r)
<2>1. PICK r \in Runs : FlushExec(r) BY <1>4
<2> QED BY <2>1 DEF FlushExec, RunGoto, LoopEnd, QueueOk, worldVars,
      recordVars, fwVars, handVars, rootVars, parentVars, threadVars, mapVars,
      flushVars, dispatchVars, histVars, resultVars
<1>5. CASE \E r \in Runs : FlushThrows(r)
<2>1. PICK r \in Runs : FlushThrows(r) BY <1>5
<2>2. <<>> \in Seq(Files) OBVIOUS
<2> QED BY <2>1, <2>2 DEF FlushThrows, RunGoto, QueueOk, worldVars,
      recordVars, fwVars, handVars, rootVars, parentVars, threadVars, mapVars,
      flushVars, dispatchVars, histVars, resultVars
<1>6. CASE ParseEvent
<2>1. pushFileEvent(Head(buf)[1], Head(buf)[2]) BY <1>6 DEF ParseEvent
<2>2. evt' \in [Files -> Events \cup {"none"}] /\ pendingQ' \in Seq(Files)
  BY <1>6, <2>1, NextEvent, PushTypes
<2> QED BY <1>6, <2>2 DEF ParseEvent, QueueOk, worldVars, recordVars, fwVars,
      handVars, rootVars, parentVars, threadVars, mapVars, flushVars,
      dispatchVars, histVars, resultVars
<1>7. CASE WatchEvent
  BY <1>7 DEF WatchEvent, QueueOk, worldVars, recordVars, fwVars, handVars,
        rootVars, parentVars, threadVars, mapVars, flushVars, dispatchVars,
        histVars, resultVars
<1>8. CASE \E f \in Files : WatchWalk(f)
<2>1. PICK f \in Files : WatchWalk(f) BY <1>8
<2>2. evt' \in [Files -> Events \cup {"none"}] /\ pendingQ' \in Seq(Files)
  <3>1. CASE disk[f] # 0
    <4>1. "Added" \in Events /\ pushFileEvent("Added", f)
      BY <2>1, <3>1 DEF WatchWalk, Events
    <4> QED BY <4>1, PushTypes
  <3>2. CASE disk[f] = 0
    BY <2>1, <3>2 DEF WatchWalk, mapVars, QueueOk
  <3> QED BY <3>1, <3>2
<2> QED BY <2>1, <2>2 DEF WatchWalk, QueueOk, worldVars, recordVars, fwVars,
      handVars, rootVars, parentVars, threadVars, mapVars, flushVars,
      dispatchVars, histVars, resultVars
<1>9. CASE MainClear
<2>1. <<>> \in Seq(Files) OBVIOUS
<2> QED BY <1>9, <2>1 DEF MainClear, QueueOk, worldVars, recordVars, fwVars,
      handVars, rootVars, parentVars, threadVars, mapVars, flushVars,
      dispatchVars, histVars, resultVars
<1>10. CASE
    \/ ReadCompletes \/ StartRead \/ IssueRead \/ FinishPendingRead
    \/ StopClose
  <2>1. UNCHANGED <<todo, evt, pendingQ, flush, local, cmd>>
    BY <1>10 DEF ReadCompletes, StartRead, IssueRead, FinishPendingRead,
          StopClose, worldVars, recordVars, fwVars, handVars, rootVars,
          parentVars, threadVars, mapVars, flushVars, dispatchVars, histVars,
          resultVars
  <2> QED BY <2>1 DEF QueueOk
<1>11. CASE
    \/ StopDrained \/ WatchTop \/ WatchOpen \/ WatchRead \/ WatchWakes
  <2>1. UNCHANGED <<todo, evt, pendingQ, flush, local, cmd>>
    BY <1>11 DEF StopDrained, WatchTop, WatchOpen, WatchRead, WatchWakes,
          worldVars, recordVars, fwVars, handVars, rootVars, parentVars,
          threadVars, mapVars, flushVars, dispatchVars, histVars, resultVars
  <2> QED BY <2>1 DEF QueueOk
<1>12. CASE
    \/ WatchOverflows \/ WatchFirstRead \/ WatchStopped \/ MainStops
    \/ MainLook
  <2>1. UNCHANGED <<todo, evt, pendingQ, flush, local, cmd>>
    BY <1>12 DEF WatchOverflows, WatchFirstRead, WatchStopped, MainStops,
          MainLook, worldVars, recordVars, fwVars, handVars, rootVars,
          parentVars, threadVars, mapVars, flushVars, dispatchVars, histVars,
          resultVars
  <2> QED BY <2>1 DEF QueueOk
<1>13. CASE
    \/ MainJoin \/ MainInnerStopped \/ MainWait
    \/ (\E f \in Files : FileChanges(f))
    \/ (\E f, g \in Files : FileRenamed(f, g))
  <2>1. UNCHANGED <<todo, evt, pendingQ, flush, local, cmd>>
    BY <1>13 DEF MainJoin, MainInnerStopped, MainWait, FileChanges,
          FileRenamed, worldVars, recordVars, fwVars, handVars, rootVars,
          parentVars, threadVars, mapVars, flushVars, dispatchVars, histVars,
          resultVars
  <2> QED BY <2>1 DEF QueueOk
<1>14. CASE
    \/ RootMoves
  <2>1. UNCHANGED <<todo, evt, pendingQ, flush, local, cmd>>
    BY <1>14 DEF RootMoves, worldVars, recordVars, fwVars, handVars, rootVars,
          parentVars, threadVars, mapVars, flushVars, dispatchVars, histVars,
          resultVars
  <2> QED BY <2>1 DEF QueueOk
<1> QED BY <1>1, <1>2, <1>3, <1>4, <1>5, <1>6, <1>7, <1>8, <1>9, <1>10, <1>11,
      <1>12, <1>13, <1>14 DEF Next, Handler, StopWatcher, Watch, Main, Flush

\* The flags of the shutdown follow its place, and at the end no flush is left.
LEMMA StopStep ==
    ASSUME QueueOk, StopOk, Next
    PROVE  StopOk'
<1>1. CASE \E r \in Runs : Tick(r)
<2>1. PICK r \in Runs : Tick(r) BY <1>1
<2>2. main # "destroyed" BY <2>1 DEF Tick, StopOk
<2> QED BY <2>1, <2>2 DEF Tick, StopOk, worldVars, recordVars, fwVars,
      handVars, rootVars, parentVars, threadVars, mapVars, flushVars,
      dispatchVars, histVars, resultVars
<1>2. CASE \E r \in Runs : FlushStart(r)
<2>1. PICK r \in Runs : FlushStart(r) BY <1>2
<2>2. main # "destroyed" BY <2>1 DEF FlushStart, StopOk
<2> QED BY <2>1, <2>2 DEF FlushStart, StopOk, worldVars, recordVars, fwVars,
      handVars, rootVars, parentVars, threadVars, mapVars, flushVars,
      dispatchVars, histVars, resultVars
<1>3. CASE \E r \in Runs : FlushNext(r)
<2>1. PICK r \in Runs : FlushNext(r) BY <1>3
<2>2. main # "destroyed" BY <2>1 DEF FlushNext, StopOk
<2> QED BY <2>1, <2>2 DEF FlushNext, StopOk, worldVars, recordVars, fwVars,
      handVars, rootVars, parentVars, threadVars, mapVars, flushVars,
      dispatchVars, histVars, resultVars
<1>4. CASE \E r \in Runs : FlushExec(r)
<2>1. PICK r \in Runs : FlushExec(r) BY <1>4
<2>2. main # "destroyed" BY <2>1 DEF FlushExec, StopOk
<2> QED BY <2>1, <2>2 DEF FlushExec, StopOk, worldVars, recordVars, fwVars,
      handVars, rootVars, parentVars, threadVars, mapVars, flushVars,
      dispatchVars, histVars, resultVars
<1>5. CASE \E r \in Runs : FlushThrows(r)
<2>1. PICK r \in Runs : FlushThrows(r) BY <1>5
<2>2. main # "destroyed" BY <2>1 DEF FlushThrows, StopOk
<2> QED BY <2>1, <2>2 DEF FlushThrows, StopOk, worldVars, recordVars, fwVars,
      handVars, rootVars, parentVars, threadVars, mapVars, flushVars,
      dispatchVars, histVars, resultVars
<1>6. CASE MainStops
  BY <1>6 DEF MainStops, StopOk, worldVars, recordVars, fwVars, handVars,
        rootVars, parentVars, threadVars, mapVars, flushVars, dispatchVars,
        histVars, resultVars
<1>7. CASE MainLook
  BY <1>7 DEF MainLook, StopOk, worldVars, recordVars, fwVars, handVars,
        rootVars, parentVars, threadVars, mapVars, flushVars, dispatchVars,
        histVars, resultVars
<1>8. CASE MainJoin
  BY <1>8 DEF MainJoin, StopOk, worldVars, recordVars, fwVars, handVars,
        rootVars, parentVars, threadVars, mapVars, flushVars, dispatchVars,
        histVars, resultVars
<1>9. CASE MainInnerStopped
  BY <1>9 DEF MainInnerStopped, StopOk, Destroyed, worldVars, recordVars,
        fwVars, handVars, rootVars, parentVars, threadVars, mapVars,
        flushVars, dispatchVars, histVars, resultVars
<1>10. CASE MainClear
  BY <1>10 DEF MainClear, StopOk, worldVars, recordVars, fwVars, handVars,
        rootVars, parentVars, threadVars, mapVars, flushVars, dispatchVars,
        histVars, resultVars
<1>11. CASE MainWait
  BY <1>11 DEF MainWait, StopOk, worldVars, recordVars, fwVars, handVars,
        rootVars, parentVars, threadVars, mapVars, flushVars, dispatchVars,
        histVars, resultVars
<1>12. CASE
    \/ ReadCompletes \/ ParseEvent \/ StartRead \/ IssueRead
    \/ FinishPendingRead
  <2>1. UNCHANGED <<stopping, stopped, main, flush>>
    BY <1>12 DEF ReadCompletes, ParseEvent, StartRead, IssueRead,
          FinishPendingRead, worldVars, recordVars, fwVars, handVars,
          rootVars, parentVars, threadVars, mapVars, flushVars, dispatchVars,
          histVars, resultVars
  <2> QED BY <2>1 DEF StopOk
<1>13. CASE
    \/ StopClose \/ StopDrained \/ WatchTop \/ WatchOpen \/ WatchRead
  <2>1. UNCHANGED <<stopping, stopped, main, flush>>
    BY <1>13 DEF StopClose, StopDrained, WatchTop, WatchOpen, WatchRead,
          worldVars, recordVars, fwVars, handVars, rootVars, parentVars,
          threadVars, mapVars, flushVars, dispatchVars, histVars, resultVars
  <2> QED BY <2>1 DEF StopOk
<1>14. CASE
    \/ WatchWakes \/ WatchOverflows \/ WatchEvent
    \/ (\E f \in Files : WatchWalk(f)) \/ WatchFirstRead
  <2>1. UNCHANGED <<stopping, stopped, main, flush>>
    BY <1>14 DEF WatchWakes, WatchOverflows, WatchEvent, WatchWalk,
          WatchFirstRead, worldVars, recordVars, fwVars, handVars, rootVars,
          parentVars, threadVars, mapVars, flushVars, dispatchVars, histVars,
          resultVars
  <2> QED BY <2>1 DEF StopOk
<1>15. CASE
    \/ WatchStopped \/ (\E f \in Files : FileChanges(f))
    \/ (\E f, g \in Files : FileRenamed(f, g)) \/ RootMoves
  <2>1. UNCHANGED <<stopping, stopped, main, flush>>
    BY <1>15 DEF WatchStopped, FileChanges, FileRenamed, RootMoves, worldVars,
          recordVars, fwVars, handVars, rootVars, parentVars, threadVars,
          mapVars, flushVars, dispatchVars, histVars, resultVars
  <2> QED BY <2>1 DEF StopOk
<1> QED BY <1>1, <1>2, <1>3, <1>4, <1>5, <1>6, <1>7, <1>8, <1>9, <1>10, <1>11,
      <1>12, <1>13, <1>14, <1>15 DEF Next, Handler, StopWatcher, Watch, Main,
      Flush

-----------------------------------------------------------------------------
(* Every entry of the map waits, and in one place.                         *)

\* An empty queue.
LEMMA HasNothing == Once(<<>>) /\ \A g : ~Has(<<>>, g)
BY DEF Once, Has

\* A path is queued.
LEMMA HasAppended ==
    ASSUME NEW q \in Seq(Files), NEW f \in Files
    PROVE  /\ \A g : Has(Append(q, f), g) <=> Has(q, g) \/ g = f
           /\ Once(q) /\ ~Has(q, f) => Once(Append(q, f))
<1>1. /\ Len(q) \in Nat /\ DOMAIN q = 1 .. Len(q)
      /\ DOMAIN Append(q, f) = 1 .. Len(q) + 1
      /\ \A i \in 1 .. Len(q) : Append(q, f)[i] = q[i]
      /\ Append(q, f)[Len(q) + 1] = f
  BY AppendProperties, LenProperties
<1>2. \A i \in DOMAIN Append(q, f) : i \in DOMAIN q \/ i = Len(q) + 1
  BY <1>1
<1>3. ASSUME NEW g PROVE Has(Append(q, f), g) <=> Has(q, g) \/ g = f
  <2>1. ASSUME Has(q, g) PROVE Has(Append(q, f), g)
    BY <1>1, <2>1 DEF Has
  <2>2. ASSUME g = f PROVE Has(Append(q, f), g)
    BY <1>1, <2>2 DEF Has
  <2>3. ASSUME Has(Append(q, f), g) PROVE Has(q, g) \/ g = f
    BY <1>1, <1>2, <2>3 DEF Has
  <2> QED BY <2>1, <2>2, <2>3
<1>4. ASSUME Once(q), ~Has(q, f) PROVE Once(Append(q, f))
  <2> SUFFICES ASSUME NEW i \in DOMAIN Append(q, f), NEW j \in DOMAIN Append(q, f),
                      Append(q, f)[i] = Append(q, f)[j]
               PROVE  i = j
    BY DEF Once
  <2>1. CASE i \in DOMAIN q /\ j \in DOMAIN q
    BY <1>1, <1>4, <2>1 DEF Once
  <2>2. CASE i \in DOMAIN q /\ j = Len(q) + 1
    BY <1>1, <1>4, <2>2 DEF Has
  <2>3. CASE i = Len(q) + 1 /\ j \in DOMAIN q
    BY <1>1, <1>4, <2>3 DEF Has
  <2> QED BY <1>2, <2>1, <2>2, <2>3
<1> QED BY <1>3, <1>4

\* A path is taken from the front.
LEMMA HasTail ==
    ASSUME NEW q \in Seq(Files), q # <<>>, Once(q)
    PROVE  /\ Once(Tail(q)) /\ Has(q, Head(q))
           /\ \A g : Has(Tail(q), g) <=> Has(q, g) /\ g # Head(q)
<1>1. /\ Len(q) \in Nat \ {0} /\ DOMAIN q = 1 .. Len(q)
      /\ DOMAIN Tail(q) = 1 .. Len(q) - 1
      /\ \A i \in 1 .. Len(q) - 1 : Tail(q)[i] = q[i + 1]
      /\ Head(q) = q[1]
  BY EmptySeq, HeadTailProperties, LenProperties
<1>2. Once(Tail(q))
  <2> SUFFICES ASSUME NEW i \in DOMAIN Tail(q), NEW j \in DOMAIN Tail(q),
                      Tail(q)[i] = Tail(q)[j]
               PROVE  i = j
    BY DEF Once
  <2>1. i + 1 \in DOMAIN q /\ j + 1 \in DOMAIN q /\ q[i + 1] = q[j + 1] BY <1>1
  <2>2. i + 1 = j + 1 BY <2>1 DEF Once
  <2> QED BY <1>1, <2>2
<1>3. Has(q, Head(q)) BY <1>1 DEF Has
<1>4. ASSUME NEW g, Has(Tail(q), g) PROVE Has(q, g) /\ g # Head(q)
  <2>1. PICK i \in 1 .. Len(q) - 1 : q[i + 1] = g BY <1>1, <1>4 DEF Has
  <2>2. i + 1 \in DOMAIN q /\ 1 \in DOMAIN q /\ i + 1 # 1 BY <1>1
  <2>3. q[i + 1] # q[1] BY <2>2 DEF Once
  <2> QED BY <1>1, <2>1, <2>2, <2>3 DEF Has
<1>5. ASSUME NEW g, Has(q, g), g # Head(q) PROVE Has(Tail(q), g)
  <2>1. PICK i \in DOMAIN q : q[i] = g BY <1>5 DEF Has
  <2>2. i - 1 \in DOMAIN Tail(q) /\ Tail(q)[i - 1] = g BY <1>1, <1>5, <2>1
  <2> QED BY <2>2 DEF Has
<1> QED BY <1>2, <1>3, <1>4, <1>5

\* An event queues a path that waits nowhere, or joins the entry of one that does.
LEMMA PushStrand ==
    ASSUME NEW e \in Events, NEW f \in Files, QueueOk, pushFileEvent(e, f),
           StrandInv, UNCHANGED <<local, dead>>
    PROVE  StrandInv'
<1>1. CASE UNCHANGED mapVars
  BY <1>1 DEF StrandInv, Once, Has, mapVars
<1> "none" \notin Events BY DEF Events
<1>2. CASE /\ evt[f] = "none" /\ evt' = [evt EXCEPT ![f] = e]
           /\ pendingQ' = Append(pendingQ, f)
  <2>1. ~Has(pendingQ, f) /\ f \notin dead /\ \A r \in Runs : ~Has(local[r], f)
    BY <1>2 DEF StrandInv
  <2>2. Once(pendingQ') /\ \A g : Has(pendingQ', g) <=> Has(pendingQ, g) \/ g = f
    BY <1>2, <2>1, HasAppended DEF StrandInv, QueueOk
  <2>3. evt' \in [Files -> Events \cup {"none"}] /\ evt'[f] # "none"
        /\ \A g \in Files \ {f} : evt'[g] = evt[g]
    BY <1>2 DEF QueueOk
  <2> QED BY <2>1, <2>2, <2>3 DEF StrandInv
<1>3. CASE /\ evt[f] # "none" /\ pendingQ' = pendingQ
           /\ \E x \in Events : evt' = [evt EXCEPT ![f] = x]
  <2>1. \A g \in Files : evt'[g] = "none" <=> evt[g] = "none"
    BY <1>3 DEF QueueOk
  <2> QED BY <1>3, <2>1 DEF StrandInv
<1> QED BY <1>1, <1>2, <1>3, PushOk


\* No step leaves an entry behind, but one of a flush that throws.
LEMMA StrandStep ==
    ASSUME RecordOk, QueueOk, StopOk, StrandOk, Next
    PROVE  StrandOk'
<1>1. CASE \E r \in Runs : FlushStart(r)
<2>1. PICK r \in Runs : FlushStart(r) BY <1>1
<2>2. CASE stopped \/ stopping
  <3>1. UNCHANGED <<evt, pendingQ, local, dead, stopping>>
    BY <2>1, <2>2 DEF FlushStart, worldVars, recordVars, fwVars, handVars,
          rootVars, parentVars, threadVars, mapVars, flushVars, dispatchVars,
          histVars, resultVars
  <3> QED BY <3>1 DEF StrandOk, StrandInv
<2>3. CASE ~(stopped \/ stopping)
  <3>1. /\ flush[r] = "posted" /\ local' = [local EXCEPT ![r] = pendingQ]
        /\ pendingQ' = <<>> /\ UNCHANGED <<evt, dead, stopping>>
    BY <2>1, <2>3 DEF FlushStart, worldVars, recordVars, fwVars, handVars,
          rootVars, parentVars, threadVars, mapVars, flushVars, dispatchVars,
          histVars, resultVars
  <3>2. local[r] = <<>> BY <3>1 DEF QueueOk
  <3>3. local'[r] = pendingQ /\ \A q \in Runs \ {r} : local'[q] = local[q]
    BY <3>1 DEF QueueOk
  <3>4. StrandInv BY <2>3 DEF StrandOk
  <3>5. Once(pendingQ') /\ \A f \in Files : ~Has(pendingQ', f) /\ ~Has(local[r], f)
    BY <3>1, <3>2, HasNothing
  <3>6. StrandInv'
    <4>1. \A q \in Runs : Once(local'[q]) BY <3>3, <3>4 DEF StrandInv
    <4>2. \A q \in Runs, f \in Files : Has(local'[q], f) =>
            \A p \in Runs : Has(local'[p], f) => p = q
      BY <3>3, <3>4 DEF StrandInv
    <4>3. \A f \in Files : (\E q \in Runs : Has(local'[q], f)) <=>
            Has(pendingQ, f) \/ \E q \in Runs : Has(local[q], f)
      BY <3>3, <3>5
    <4> QED BY <3>1, <3>4, <3>5, <4>1, <4>2, <4>3 DEF StrandInv
  <3> QED BY <3>6 DEF StrandOk
<2> QED BY <2>2, <2>3
<1>2. CASE \E r \in Runs : FlushNext(r)
<2>1. PICK r \in Runs : FlushNext(r) BY <1>2
<2>2. CASE stopping
  BY <2>1, <2>2 DEF FlushNext, StrandOk
<2>3. CASE ~stopping
  <3> DEFINE f == Head(local[r])
  <3>1. /\ local[r] \in Seq(Files) /\ local[r] # <<>> /\ f \in Files
    BY <2>1, NextPath DEF FlushNext
  <3>2. StrandInv BY <2>3 DEF StrandOk
  <3>3. /\ Once(Tail(local[r])) /\ Has(local[r], f)
        /\ \A g : Has(Tail(local[r]), g) <=> Has(local[r], g) /\ g # f
    BY <3>1, <3>2, HasTail DEF StrandInv
  <3>4. evt[f] # "none" /\ f \notin dead BY <3>1, <3>2, <3>3 DEF StrandInv
  <3>5. /\ local' = [local EXCEPT ![r] = Tail(local[r])]
        /\ evt' = [evt EXCEPT ![f] = "none"] /\ UNCHANGED <<pendingQ, dead, stopping>>
    BY <2>1, <2>3, <3>4 DEF FlushNext, worldVars, recordVars, fwVars,
          handVars, rootVars, parentVars, threadVars, mapVars, flushVars,
          dispatchVars, histVars, resultVars
  <3>6. local'[r] = Tail(local[r]) /\ \A q \in Runs \ {r} : local'[q] = local[q]
    BY <3>5 DEF QueueOk
  <3>7. evt'[f] = "none" /\ \A g \in Files \ {f} : evt'[g] = evt[g]
    BY <3>1, <3>5 DEF QueueOk
  <3> HIDE DEF f
  <3>8. StrandInv'
    <4>1. \A q \in Runs : Once(local'[q]) BY <3>2, <3>3, <3>6 DEF StrandInv
    <4>2. \A q \in Runs, g \in Files : Has(local'[q], g) => Has(local[q], g) /\ g # f
      BY <3>1, <3>2, <3>3, <3>6 DEF StrandInv
    <4>3. \A q \in Runs, g \in Files : Has(local[q], g) /\ g # f => Has(local'[q], g)
      BY <3>3, <3>6
    <4>4. ~Has(pendingQ, f) BY <3>1, <3>2, <3>3 DEF StrandInv
    <4>5. \A q \in Runs : \A g \in Files : Has(local'[q], g) =>
            /\ ~Has(pendingQ', g) /\ \A p \in Runs : Has(local'[p], g) => p = q
      BY <3>2, <3>5, <4>2 DEF StrandInv
    <4>6. ASSUME NEW g \in Files
          PROVE  LET waits == Has(pendingQ', g) \/ \E q \in Runs : Has(local'[q], g)
                 IN  /\ waits => evt'[g] # "none" /\ g \notin dead'
                     /\ evt'[g] # "none" => waits \/ g \in dead'
                     /\ g \in dead' => evt'[g] # "none"
      <5>1. CASE g = f BY <3>4, <3>5, <3>7, <4>2, <4>4, <5>1
      <5>2. CASE g # f BY <3>2, <3>5, <3>7, <4>2, <4>3, <5>2 DEF StrandInv
      <5> QED BY <5>1, <5>2
    <4> QED BY <3>2, <3>5, <4>1, <4>5, <4>6 DEF StrandInv
  <3> QED BY <3>8 DEF StrandOk
<2> QED BY <2>2, <2>3
<1>3. CASE \E r \in Runs : FlushThrows(r)
<2>1. PICK r \in Runs : FlushThrows(r) BY <1>3
<2>2. CASE stopping
  BY <2>1, <2>2 DEF FlushThrows, StrandOk, worldVars, recordVars, fwVars,
        handVars, rootVars, parentVars, threadVars, mapVars, flushVars,
        dispatchVars, histVars, resultVars
<2>3. CASE ~stopping
  <3>1. /\ local' = [local EXCEPT ![r] = <<>>]
        /\ dead' = dead \cup {local[r][i] : i \in DOMAIN local[r]}
        /\ UNCHANGED <<evt, pendingQ, stopping>>
    BY <2>1, <2>3 DEF FlushThrows, worldVars, recordVars, fwVars, handVars,
          rootVars, parentVars, threadVars, mapVars, flushVars, dispatchVars,
          histVars, resultVars
  <3>2. \A g : g \in dead' <=> g \in dead \/ Has(local[r], g)
    BY <3>1 DEF Has
  <3>3. local'[r] = <<>> /\ \A q \in Runs \ {r} : local'[q] = local[q]
    BY <3>1 DEF QueueOk
  <3>4. Once(local'[r]) /\ \A g \in Files : ~Has(local'[r], g)
    BY <3>3, HasNothing
  <3>5. StrandInv BY <2>3 DEF StrandOk
  <3>6. StrandInv'
    <4>1. \A q \in Runs : Once(local'[q]) BY <3>3, <3>4, <3>5 DEF StrandInv
    <4>2. \A q \in Runs, g \in Files : Has(local'[q], g) <=> q # r /\ Has(local[q], g)
      BY <3>3, <3>4
    <4>3. \A q \in Runs : \A g \in Files : Has(local'[q], g) =>
            /\ ~Has(pendingQ', g) /\ \A p \in Runs : Has(local'[p], g) => p = q
      BY <3>1, <3>5, <4>2 DEF StrandInv
    <4>4. ASSUME NEW g \in Files
          PROVE  LET waits == Has(pendingQ', g) \/ \E q \in Runs : Has(local'[q], g)
                 IN  /\ waits => evt'[g] # "none" /\ g \notin dead'
                     /\ evt'[g] # "none" => waits \/ g \in dead'
                     /\ g \in dead' => evt'[g] # "none"
      <5>1. CASE Has(local[r], g) BY <3>1, <3>2, <3>5, <4>2, <5>1 DEF StrandInv
      <5>2. CASE ~Has(local[r], g) BY <3>1, <3>2, <3>5, <4>2, <5>2 DEF
            StrandInv
      <5> QED BY <5>1, <5>2
    <4> QED BY <3>1, <3>5, <4>1, <4>3, <4>4 DEF StrandInv
  <3> QED BY <3>6 DEF StrandOk
<2> QED BY <2>2, <2>3
<1>4. CASE ParseEvent
<2>1. pushFileEvent(Head(buf)[1], Head(buf)[2]) BY <1>4 DEF ParseEvent
<2>2. UNCHANGED <<local, dead, stopping>> BY <1>4 DEF ParseEvent, worldVars,
      recordVars, fwVars, handVars, rootVars, parentVars, threadVars, mapVars,
      flushVars, dispatchVars, histVars, resultVars
<2>3. StrandInv => StrandInv' BY <1>4, <2>1, <2>2, NextEvent, PushStrand
<2> QED BY <2>2, <2>3 DEF StrandOk
<1>5. CASE \E f \in Files : WatchWalk(f)
<2>1. PICK f \in Files : WatchWalk(f) BY <1>5
<2>2. UNCHANGED <<local, dead, stopping>> BY <2>1 DEF WatchWalk, worldVars,
      recordVars, fwVars, handVars, rootVars, parentVars, threadVars, mapVars,
      flushVars, dispatchVars, histVars, resultVars
<2>3. CASE disk[f] # 0
  <3>1. "Added" \in Events /\ pushFileEvent("Added", f)
    BY <2>1, <2>3 DEF WatchWalk, Events
  <3>2. StrandInv => StrandInv' BY <2>2, <3>1, PushStrand
  <3> QED BY <2>2, <3>2 DEF StrandOk
<2>4. CASE disk[f] = 0
  <3>1. UNCHANGED mapVars BY <2>1, <2>4 DEF WatchWalk
  <3> QED BY <2>2, <3>1 DEF mapVars, StrandOk, StrandInv
<2> QED BY <2>3, <2>4
<1>6. CASE MainStops
  BY <1>6 DEF MainStops, StrandOk, worldVars, recordVars, fwVars, handVars,
        rootVars, parentVars, threadVars, mapVars, flushVars, dispatchVars,
        histVars, resultVars
<1>7. CASE MainClear
  BY <1>7 DEF MainClear, StopOk, StrandOk, worldVars, recordVars, fwVars,
        handVars, rootVars, parentVars, threadVars, mapVars, flushVars,
        dispatchVars, histVars, resultVars
<1>8. CASE
    \/ (\E r \in Runs : Tick(r)) \/ (\E r \in Runs : FlushExec(r))
    \/ ReadCompletes \/ StartRead \/ IssueRead
  <2>1. UNCHANGED <<evt, pendingQ, local, dead, stopping>>
    BY <1>8 DEF Tick, FlushExec, ReadCompletes, StartRead, IssueRead,
          worldVars, recordVars, fwVars, handVars, rootVars, parentVars,
          threadVars, mapVars, flushVars, dispatchVars, histVars, resultVars
  <2> QED BY <2>1 DEF StrandOk, StrandInv
<1>9. CASE
    \/ FinishPendingRead \/ StopClose \/ StopDrained \/ WatchTop \/ WatchOpen
  <2>1. UNCHANGED <<evt, pendingQ, local, dead, stopping>>
    BY <1>9 DEF FinishPendingRead, StopClose, StopDrained, WatchTop,
          WatchOpen, worldVars, recordVars, fwVars, handVars, rootVars,
          parentVars, threadVars, mapVars, flushVars, dispatchVars, histVars,
          resultVars
  <2> QED BY <2>1 DEF StrandOk, StrandInv
<1>10. CASE
    \/ WatchRead \/ WatchWakes \/ WatchOverflows \/ WatchEvent
    \/ WatchFirstRead
  <2>1. UNCHANGED <<evt, pendingQ, local, dead, stopping>>
    BY <1>10 DEF WatchRead, WatchWakes, WatchOverflows, WatchEvent,
          WatchFirstRead, worldVars, recordVars, fwVars, handVars, rootVars,
          parentVars, threadVars, mapVars, flushVars, dispatchVars, histVars,
          resultVars
  <2> QED BY <2>1 DEF StrandOk, StrandInv
<1>11. CASE
    \/ WatchStopped \/ MainLook \/ MainJoin \/ MainInnerStopped \/ MainWait
  <2>1. UNCHANGED <<evt, pendingQ, local, dead, stopping>>
    BY <1>11 DEF WatchStopped, MainLook, MainJoin, MainInnerStopped, MainWait,
          worldVars, recordVars, fwVars, handVars, rootVars, parentVars,
          threadVars, mapVars, flushVars, dispatchVars, histVars, resultVars
  <2> QED BY <2>1 DEF StrandOk, StrandInv
<1>12. CASE
    \/ (\E f \in Files : FileChanges(f))
    \/ (\E f, g \in Files : FileRenamed(f, g)) \/ RootMoves
  <2>1. UNCHANGED <<evt, pendingQ, local, dead, stopping>>
    BY <1>12 DEF FileChanges, FileRenamed, RootMoves, worldVars, recordVars,
          fwVars, handVars, rootVars, parentVars, threadVars, mapVars,
          flushVars, dispatchVars, histVars, resultVars
  <2> QED BY <2>1 DEF StrandOk, StrandInv
<1> QED BY <1>1, <1>2, <1>3, <1>4, <1>5, <1>6, <1>7, <1>8, <1>9, <1>10, <1>11,
      <1>12 DEF Next, Handler, StopWatcher, Watch, Main, Flush

-----------------------------------------------------------------------------
(* What the index and the disk differ in is under way.                     *)

\* The first event is taken from a record.
LEMMA RecordTail ==
    ASSUME NEW q \in Seq(Events \X Files), q # <<>>, NEW f
    PROVE  /\ Mentions(q, f) <=> Head(q)[2] = f \/ Mentions(Tail(q), f)
           /\ EndsGone(q, f) => \/ EndsGone(Tail(q), f)
                                \/ /\ ~Mentions(Tail(q), f) /\ Head(q)[2] = f
                                   /\ Head(q)[1] \in Gone
<1>1. /\ Len(q) \in Nat \ {0} /\ DOMAIN q = 1 .. Len(q)
      /\ DOMAIN Tail(q) = 1 .. Len(q) - 1
      /\ \A i \in 1 .. Len(q) - 1 : Tail(q)[i] = q[i + 1]
      /\ Head(q) = q[1]
  BY EmptySeq, HeadTailProperties, LenProperties
<1>2. \A i \in DOMAIN q : i = 1 \/ (i - 1 \in DOMAIN Tail(q) /\ Tail(q)[i - 1] = q[i])
  BY <1>1
<1>3. \A i \in DOMAIN Tail(q) : i + 1 \in DOMAIN q /\ Tail(q)[i] = q[i + 1]
  BY <1>1
<1>4. ASSUME Mentions(q, f) PROVE Head(q)[2] = f \/ Mentions(Tail(q), f)
  BY <1>1, <1>2, <1>4 DEF Mentions
<1>5. ASSUME Head(q)[2] = f \/ Mentions(Tail(q), f) PROVE Mentions(q, f)
  <2>1. 1 \in DOMAIN q BY <1>1
  <2> QED BY <1>1, <1>3, <1>5, <2>1 DEF Mentions
<1>6. ASSUME EndsGone(q, f)
      PROVE  \/ EndsGone(Tail(q), f)
             \/ ~Mentions(Tail(q), f) /\ Head(q)[2] = f /\ Head(q)[1] \in Gone
  <2>1. PICK i \in DOMAIN q : /\ q[i][1] \in Gone /\ q[i][2] = f
                              /\ \A j \in DOMAIN q : j > i => q[j][2] # f
    BY <1>6 DEF EndsGone
  <2>2. CASE i = 1
    <3>1. ASSUME NEW j \in DOMAIN Tail(q) PROVE Tail(q)[j][2] # f
      BY <1>1, <1>3, <2>1, <2>2
    <3> QED BY <1>1, <2>1, <2>2, <3>1 DEF Mentions
  <2>3. CASE i # 1
    <3>1. i - 1 \in DOMAIN Tail(q) /\ Tail(q)[i - 1] = q[i] BY <1>2, <2>3
    <3>2. ASSUME NEW j \in DOMAIN Tail(q), j > i - 1 PROVE Tail(q)[j][2] # f
      BY <1>1, <1>3, <2>1, <3>2
    <3> QED BY <2>1, <3>1, <3>2 DEF EndsGone
  <2> QED BY <2>2, <2>3
<1> QED BY <1>4, <1>5, <1>6

\* Something is added to a record.
LEMMA RecordJoins ==
    ASSUME NEW q \in Seq(Events \X Files), NEW s \in Seq(Events \X Files), NEW f
    PROVE  /\ Mentions(q \o s, f) <=> Mentions(q, f) \/ Mentions(s, f)
           /\ EndsGone(s, f) => EndsGone(q \o s, f)
           /\ EndsGone(q, f) /\ ~Mentions(s, f) => EndsGone(q \o s, f)
<1> DEFINE c == q \o s
<1>1. /\ Len(q) \in Nat /\ Len(s) \in Nat
      /\ DOMAIN q = 1 .. Len(q) /\ DOMAIN s = 1 .. Len(s)
      /\ DOMAIN c = 1 .. Len(q) + Len(s)
      /\ \A i \in 1 .. Len(q) + Len(s) : c[i] = IF i <= Len(q) THEN q[i] ELSE s[i - Len(q)]
  BY ConcatProperties, LenProperties
<1> HIDE DEF c
<1>2. \A i \in DOMAIN q : i \in DOMAIN c /\ c[i] = q[i] BY <1>1
<1>3. \A i \in DOMAIN s : i + Len(q) \in DOMAIN c /\ c[i + Len(q)] = s[i] BY <1>1
<1>4. \A i \in DOMAIN c : \/ i \in DOMAIN q /\ c[i] = q[i]
                          \/ /\ i > Len(q) /\ i - Len(q) \in DOMAIN s
                             /\ c[i] = s[i - Len(q)]
  BY <1>1
<1>5. Mentions(c, f) <=> Mentions(q, f) \/ Mentions(s, f)
  <2>1. Mentions(c, f) => Mentions(q, f) \/ Mentions(s, f) BY <1>4 DEF Mentions
  <2>2. Mentions(q, f) => Mentions(c, f) BY <1>2 DEF Mentions
  <2>3. Mentions(s, f) => Mentions(c, f) BY <1>3 DEF Mentions
  <2> QED BY <2>1, <2>2, <2>3
<1>6. ASSUME EndsGone(s, f) PROVE EndsGone(c, f)
  <2>1. PICK i \in DOMAIN s : /\ s[i][1] \in Gone /\ s[i][2] = f
                              /\ \A j \in DOMAIN s : j > i => s[j][2] # f
    BY <1>6 DEF EndsGone
  <2>2. ASSUME NEW j \in DOMAIN c, j > i + Len(q) PROVE c[j][2] # f
    <3>1. j > Len(q) /\ j - Len(q) > i BY <1>1, <2>2
    <3>2. j - Len(q) \in DOMAIN s /\ c[j] = s[j - Len(q)] BY <1>1, <3>1
    <3> QED BY <2>1, <3>1, <3>2
  <2> QED BY <1>3, <2>1, <2>2 DEF EndsGone
<1>7. ASSUME EndsGone(q, f), ~Mentions(s, f) PROVE EndsGone(c, f)
  <2>1. PICK i \in DOMAIN q : /\ q[i][1] \in Gone /\ q[i][2] = f
                              /\ \A j \in DOMAIN q : j > i => q[j][2] # f
    BY <1>7 DEF EndsGone
  <2>2. ASSUME NEW j \in DOMAIN c, j > i PROVE c[j][2] # f
    BY <1>4, <1>7, <2>1, <2>2 DEF Mentions
  <2> QED BY <1>2, <2>1, <2>2 DEF EndsGone
<1> QED BY <1>5, <1>6, <1>7 DEF c

\* Nothing is mentioned nowhere, and what is mentioned is among the files.
LEMMA RecordFiles ==
    /\ \A f : ~Mentions(<<>>, f) /\ ~EndsGone(<<>>, f)
    /\ \A s, f : Mentions(s, f) <=> f \in FilesIn(s)
    /\ \A s, f : EndsGone(s, f) => Mentions(s, f)
BY DEF Mentions, EndsGone, FilesIn

\* One event, and the two of a renaming.
LEMMA ShortRecords ==
    ASSUME NEW e \in Events, NEW f \in Files
    PROVE  /\ << <<e, f>> >> \in Seq(Events \X Files)
           /\ \A h : Mentions(<< <<e, f>> >>, h) <=> h = f
           /\ e \in Gone => EndsGone(<< <<e, f>> >>, f)
<1>1. <<e, f>> \in Events \X Files OBVIOUS
<1>2. << <<e, f>> >> \in Seq(Events \X Files) BY <1>1
<1>3. /\ DOMAIN << <<e, f>> >> = {1} /\ << <<e, f>> >>[1] = <<e, f>>
  OBVIOUS
<1>4. <<e, f>>[1] = e /\ <<e, f>>[2] = f OBVIOUS
<1> QED BY <1>2, <1>3, <1>4 DEF Mentions, EndsGone

LEMMA RenameRecord ==
    ASSUME NEW f \in Files, NEW g \in Files, f # g
    PROVE  LET s == << <<"RenamedOld", f>>, <<"RenamedNew", g>> >> IN
           /\ s \in Seq(Events \X Files)
           /\ \A h : Mentions(s, h) <=> h = f \/ h = g
           /\ EndsGone(s, f)
<1> DEFINE s == << <<"RenamedOld", f>>, <<"RenamedNew", g>> >>
<1>1. <<"RenamedOld", f>> \in Events \X Files /\ <<"RenamedNew", g>> \in Events \X Files
  BY DEF Events
<1>2. s \in Seq(Events \X Files) BY <1>1
<1>3. /\ DOMAIN s = {1, 2} /\ s[1][1] = "RenamedOld" /\ s[1][2] = f /\ s[2][2] = g
  OBVIOUS
<1> HIDE DEF s
<1>4. "RenamedOld" \in Gone BY DEF Gone
<1>5. \A h : Mentions(s, h) <=> h = f \/ h = g BY <1>3 DEF Mentions
<1>6. EndsGone(s, f) BY <1>3, <1>4 DEF EndsGone
<1> QED BY <1>2, <1>5, <1>6 DEF s

\* A file that is neither touched nor indexed, and loses nothing that is under way.
LEMMA SettledStays ==
    ASSUME NEW f \in Files, Settled(f),
           disk'[f] = disk[f], index'[f] = index[f], f \in hasty => f \in hasty',
           RemovalAhead(f) => RemovalAhead(f)', EventAhead(f) => EventAhead(f)'
    PROVE  Settled(f)'
BY DEF Settled

\* The records, the entry and the commands of a file stay.
LEMMA AheadStays ==
    ASSUME NEW f \in Files, UNCHANGED <<notes, buf>>, evt'[f] = evt[f],
           \A r \in Runs : flush[r] = "exec" /\ cmd[r][2] = f =>
                              flush'[r] = "exec" /\ cmd'[r] = cmd[r]
    PROVE  /\ RemovalAhead(f) => RemovalAhead(f)'
           /\ EventAhead(f) => EventAhead(f)'
<1>1. \A E : Ordered(f, E) => Ordered(f, E)' BY DEF Ordered
<1> QED BY <1>1 DEF RemovalAhead, EventAhead, Mentions, EndsGone

\* The commands stay, and what is recorded is passed on.
LEMMA AheadMoves ==
    ASSUME NEW f \in Files, UNCHANGED <<flush, cmd>>, evt'[f] = evt[f],
           Mentions(notes, f) \/ Mentions(buf, f) => Mentions(notes', f) \/ Mentions(buf', f),
           ~Mentions(notes, f) /\ ~Mentions(buf, f) =>
                ~Mentions(notes', f) /\ ~Mentions(buf', f),
           EndsGone(notes, f) \/ (~Mentions(notes, f) /\ EndsGone(buf, f)) =>
                EndsGone(notes', f) \/ (~Mentions(notes', f) /\ EndsGone(buf', f))
    PROVE  /\ RemovalAhead(f) => RemovalAhead(f)'
           /\ EventAhead(f) => EventAhead(f)'
<1>1. /\ Ordered(f, Gone) => Ordered(f, Gone)'
      /\ Ordered(f, Events) => Ordered(f, Events)'
  BY DEF Ordered, Gone, Events
<1>2. /\ RemovalAhead(f)' <=>
            \/ Ordered(f, Gone)'
            \/ EndsGone(notes', f)
            \/ ~Mentions(notes', f) /\ EndsGone(buf', f)
            \/ ~Mentions(notes', f) /\ ~Mentions(buf', f) /\ evt'[f] \in Gone
      /\ EventAhead(f)' <=>
            Ordered(f, Events)' \/ Mentions(notes', f) \/ Mentions(buf', f) \/ evt'[f] # "none"
  BY DEF RemovalAhead, EventAhead, Mentions, EndsGone, Gone
<1>3. /\ RemovalAhead(f) <=>
            \/ Ordered(f, Gone)
            \/ EndsGone(notes, f)
            \/ ~Mentions(notes, f) /\ EndsGone(buf, f)
            \/ ~Mentions(notes, f) /\ ~Mentions(buf, f) /\ evt[f] \in Gone
      /\ EventAhead(f) <=>
            Ordered(f, Events) \/ Mentions(notes, f) \/ Mentions(buf, f) \/ evt[f] # "none"
  BY DEF RemovalAhead, EventAhead
<1> QED BY <1>1, <1>2, <1>3

\* Nothing of it changes.
LEMMA FollowSame ==
    ASSUME FollowOk,
           UNCHANGED <<disk, index, hasty, missed, dead, notes, buf, handler, evt,
                       flush, cmd, stopping>>
    PROVE  FollowOk'
<1>1. ASSUME FollowsInv PROVE FollowsInv'
  <2> SUFFICES ASSUME NEW f \in Files \ (missed \cup dead) PROVE Settled(f)'
    BY DEF FollowsInv
  <2>1. Settled(f) BY <1>1 DEF FollowsInv
  <2> QED BY <2>1, AheadStays, SettledStays
<1> QED BY <1>1 DEF FollowOk

\* An event of another file leaves the entry of f; one of f, accepted, is merged
\* into it, and a removal is never dropped.
LEMMA PushedEntry ==
    ASSUME NEW e \in Events, NEW g \in Files, QueueOk, ~stopping, pushFileEvent(e, g)
    PROVE  /\ \A f \in Files : f # g => evt'[f] = evt[f]
           /\ e \in Gone => evt'[g] \in Gone
           /\ evt[g] # "none" \/ g \notin Excluded => evt'[g] # "none"
<1> "none" \notin Events BY DEF Events
<1>1. CASE ~Accepted(e, g)
  <2>1. evt' = evt BY <1>1 DEF pushFileEvent, mapVars
  <2> QED BY <1>1, <2>1 DEF Accepted
<1>2. CASE Accepted(e, g)
  <2>1. evt' = [evt EXCEPT ![g] = IF evt[g] = "none" THEN e ELSE merge2(evt[g], e)]
    BY <1>2 DEF pushFileEvent
  <2>2. e \in Gone => merge2(evt[g], e) = e BY DEF merge2
  <2>3. evt[g] # "none" => merge2(evt[g], e) \in Events BY MergeOk DEF QueueOk
  <2>4. evt'[g] = IF evt[g] = "none" THEN e ELSE merge2(evt[g], e) BY <2>1 DEF QueueOk
  <2>5. \A f \in Files : f # g => evt'[f] = evt[f] BY <2>1 DEF QueueOk
  <2> QED BY <2>2, <2>3, <2>4, <2>5
<1> QED BY <1>1, <1>2

\* What a change on the disk leaves, recorded or missed, for a file it does not touch
\* and for one that it does.
LEMMA Recorded ==
    ASSUME NEW s \in Seq(Events \X Files), RecordOk, Record(s), ~stopping,
           UNCHANGED <<buf, evt, flush, cmd>>, NEW f \in Files, f \notin missed'
    PROVE  /\ f \notin missed
           /\ ~Mentions(s, f) => /\ RemovalAhead(f) => RemovalAhead(f)'
                                 /\ EventAhead(f) => EventAhead(f)'
           /\ Mentions(s, f) => EventAhead(f)'
           /\ EndsGone(s, f) => RemovalAhead(f)'
<1>1. notes \in Seq(Events \X Files) /\ notes \o s \in Seq(Events \X Files)
  BY ConcatProperties DEF RecordOk
<1>2. CASE ~armed
  <2>1. notes' = notes /\ f \notin missed /\ f \notin FilesIn(s)
    BY <1>2 DEF Record, recordVars, Miss
  <2>2. ~Mentions(s, f) /\ ~EndsGone(s, f) BY <2>1, RecordFiles
  <2> QED BY <2>1, <2>2, AheadStays
<1>3. CASE armed /\ (overflow \/ Len(notes \o s) > MaxNotes)
  <2>1. notes' = <<>> /\ f \notin missed /\ f \notin FilesIn(notes \o s)
    BY <1>3 DEF Record, Miss
  <2>2. ~Mentions(notes \o s, f) BY <2>1, RecordFiles
  <2>3. ~Mentions(s, f) /\ ~Mentions(notes, f) BY <1>1, <2>2, RecordJoins
  <2>4. ~Mentions(notes', f) /\ ~EndsGone(s, f) /\ ~EndsGone(notes, f)
    BY <2>1, <2>3, RecordFiles
  <2> QED BY <2>1, <2>3, <2>4, AheadMoves
<1>4. CASE armed /\ ~(overflow \/ Len(notes \o s) > MaxNotes)
  <2>1. notes' = notes \o s /\ f \notin missed BY <1>4 DEF Record
  <2>2. Mentions(notes', f) <=> Mentions(notes, f) \/ Mentions(s, f)
    BY <1>1, <2>1, RecordJoins
  <2>3. EndsGone(s, f) => EndsGone(notes', f) BY <1>1, <2>1, RecordJoins
  <2>4. EndsGone(notes, f) /\ ~Mentions(s, f) => EndsGone(notes', f)
    BY <1>1, <2>1, RecordJoins
  <2>5. Mentions(s, f) => EventAhead(f)'
    <3>1. Mentions(notes', f) => EventAhead(f)' BY DEF EventAhead, Mentions
    <3> QED BY <2>2, <3>1
  <2>6. EndsGone(s, f) => RemovalAhead(f)'
    <3>1. EndsGone(notes', f) => RemovalAhead(f)' BY DEF RemovalAhead, EndsGone, Gone
    <3> QED BY <2>3, <3>1
  <2>7. ASSUME ~Mentions(s, f)
        PROVE  (RemovalAhead(f) => RemovalAhead(f)') /\ (EventAhead(f) => EventAhead(f)')
    BY <2>2, <2>4, <2>7, AheadMoves
  <2> QED BY <2>1, <2>5, <2>6, <2>7
<1> QED BY <1>2, <1>3, <1>4

\* No step loses what is to settle a difference.
LEMMA FollowStep ==
    ASSUME WorldOk, RecordOk, QueueOk, StopOk, StrandOk, FollowOk, Next
    PROVE  FollowOk'
<1> DEFINE Same == UNCHANGED <<disk, index, hasty, missed, dead, notes, buf,
                               handler, evt, flush, cmd, stopping>>
<1>Tick. ASSUME NEW r \in Runs, Tick(r) PROVE FollowOk'
  <2>1. /\ flush[r] = "none" /\ flush' = [flush EXCEPT ![r] = "posted"]
        /\ UNCHANGED <<disk, index, hasty, missed, dead, notes, buf, handler, evt,
                       cmd, stopping>>
    BY <1>Tick DEF Tick, RunGoto, worldVars, recordVars, handVars, rootVars,
          mapVars, histVars, resultVars
  <2>2. \A q \in Runs : flush[q] = "exec" => flush'[q] = "exec"
    BY <2>1 DEF QueueOk
  <2>3. ASSUME NEW f \in Files, Settled(f) PROVE Settled(f)'
    <3>1. /\ RemovalAhead(f) => RemovalAhead(f)'
          /\ EventAhead(f) => EventAhead(f)'
      BY <2>1, <2>2, AheadStays
    <3> QED BY <2>1, <2>3, <3>1, SettledStays
  <2> QED BY <2>1, <2>3 DEF FollowOk, FollowsInv
<1>FlushStart. ASSUME NEW r \in Runs, FlushStart(r) PROVE FollowOk'
  <2>1. /\ flush[r] = "posted" /\ \E l : flush' = [flush EXCEPT ![r] = l]
        /\ UNCHANGED <<disk, index, hasty, missed, dead, notes, buf, handler, evt,
                       cmd, stopping>>
    BY <1>FlushStart DEF FlushStart, RunGoto, worldVars, recordVars, handVars,
          rootVars, histVars, resultVars
  <2>2. \A q \in Runs : flush[q] = "exec" => flush'[q] = "exec"
    BY <2>1 DEF QueueOk
  <2>3. ASSUME NEW f \in Files, Settled(f) PROVE Settled(f)'
    <3>1. /\ RemovalAhead(f) => RemovalAhead(f)'
          /\ EventAhead(f) => EventAhead(f)'
      BY <2>1, <2>2, AheadStays
    <3> QED BY <2>1, <2>3, <3>1, SettledStays
  <2> QED BY <2>1, <2>3 DEF FollowOk, FollowsInv
<1>FlushNext. ASSUME NEW r \in Runs, FlushNext(r) PROVE FollowOk'
  <2>1. UNCHANGED <<disk, index, hasty, missed, dead, notes, buf, handler, stopping>>
    BY <1>FlushNext DEF FlushNext, worldVars, recordVars, handVars, rootVars,
          histVars, resultVars
  <2>2. CASE stopping
    BY <2>1, <2>2 DEF FollowOk
  <2>3. CASE ~stopping
    <3> DEFINE g == Head(local[r])
    <3>1. g \in Files /\ local[r] # <<>> /\ local[r] \in Seq(Files)
      BY <1>FlushNext, NextPath DEF FlushNext
    <3>2. evt[g] # "none"
      <4>1. Has(local[r], g)
        BY <2>3, <3>1, HasTail DEF StrandOk, StrandInv
      <4> QED BY <2>3, <3>1, <4>1 DEF StrandOk, StrandInv
    <3>3. /\ flush[r] = "next" /\ flush' = [flush EXCEPT ![r] = "exec"]
          /\ cmd' = [cmd EXCEPT ![r] = <<evt[g], g>>]
          /\ evt' = [evt EXCEPT ![g] = "none"]
      BY <1>FlushNext, <2>3, <3>2 DEF FlushNext, RunGoto
    <3>4. /\ flush'[r] = "exec" /\ cmd'[r][1] = evt[g] /\ cmd'[r][2] = g
          /\ \A q \in Runs : flush[q] = "exec" => flush'[q] = "exec" /\ cmd'[q] = cmd[q]
          /\ \A f \in Files : f # g => evt'[f] = evt[f]
      BY <3>1, <3>3 DEF QueueOk
    <3> HIDE DEF g
    <3>5. ASSUME NEW f \in Files, Settled(f) PROVE Settled(f)'
      <4>1. CASE f # g
        <5>1. /\ RemovalAhead(f) => RemovalAhead(f)'
              /\ EventAhead(f) => EventAhead(f)'
          BY <2>1, <3>4, <4>1, AheadStays
        <5> QED BY <2>1, <3>5, <5>1, SettledStays
      <4>2. CASE f = g
        <5>1. evt[f] \in Events BY <3>2, <4>2 DEF QueueOk
        <5>2. Ordered(f, Events)' /\ (evt[f] \in Gone => Ordered(f, Gone)')
          BY <3>4, <4>2, <5>1 DEF Ordered, Gone, Events
        <5>3. \A E : Ordered(f, E) => Ordered(f, E)' BY <3>4 DEF Ordered
        <5>4. RemovalAhead(f) => RemovalAhead(f)'
          BY <2>1, <5>2, <5>3 DEF RemovalAhead, EndsGone, Mentions
        <5>5. EventAhead(f)' BY <5>2 DEF EventAhead
        <5> QED BY <2>1, <3>5, <5>4, <5>5, SettledStays
      <4> QED BY <4>1, <4>2
    <3> QED BY <2>1, <3>5 DEF FollowOk, FollowsInv
  <2> QED BY <2>2, <2>3
<1>FlushExec. ASSUME NEW r \in Runs, FlushExec(r) PROVE FollowOk'
  <2>1. UNCHANGED <<disk, dead, notes, buf, handler, evt, stopping>>
    BY <1>FlushExec DEF FlushExec, worldVars, recordVars, handVars, rootVars,
          mapVars
  <2>2. CASE stopping
    BY <2>1, <2>2 DEF FollowOk
  <2>3. CASE ~stopping
    <3>0. PICK e \in Events, g \in Files : e = cmd[r][1] /\ g = cmd[r][2]
      <4>1. cmd[r] \in Events \X Files BY <1>FlushExec DEF FlushExec, QueueOk
      <4> QED BY <4>1
    <3>1. e \in Events /\ g \in Files /\ main = "run"
      BY <1>FlushExec, <2>3 DEF FlushExec, StopOk
    <3>2. /\ flush[r] = "exec"
          /\ \E l : flush' = [flush EXCEPT ![r] = l]
          /\ cmd' = [cmd EXCEPT ![r] = NoCmd]
      BY <1>FlushExec DEF FlushExec, RunGoto
    <3>3. /\ \A f \in Files : f # g => index'[f] = index[f]
          /\ e \in Gone => index'[g] = 0
          /\ e \notin Gone /\ disk[g] = 0 => index'[g] = index[g]
          /\ e \notin Gone /\ disk[g] # 0 => index'[g] = disk[g]
      <4>1. index' = IF e \notin Gone /\ disk[g] = 0 THEN index
                     ELSE [index EXCEPT ![g] = IF e \in Gone THEN 0 ELSE disk[g]]
        BY <1>FlushExec, <3>0, <3>1 DEF FlushExec
      <4> QED BY <3>1, <4>1 DEF WorldOk
    <3>4. /\ \A f : f # g => (f \in missed' <=> f \in missed)
          /\ \A f : f # g => (f \in hasty' <=> f \in hasty)
          /\ (disk[g] = 0) # (e \in Gone) => (g \in missed' <=> g \in missed)
          /\ disk[g] # 0 /\ e \in Gone => g \in hasty'
      BY <1>FlushExec, <2>3, <3>0 DEF FlushExec
    <3>5. \A q \in Runs : q # r => flush'[q] = flush[q] /\ cmd'[q] = cmd[q]
      BY <3>2 DEF QueueOk
    <3>6. ASSUME NEW f \in Files, f # g, Settled(f) PROVE Settled(f)'
      <4>1. \A q \in Runs : flush[q] = "exec" /\ cmd[q][2] = f =>
                               flush'[q] = "exec" /\ cmd'[q] = cmd[q]
        BY <3>0, <3>5, <3>6
      <4>2. /\ RemovalAhead(f) => RemovalAhead(f)'
            /\ EventAhead(f) => EventAhead(f)'
        BY <2>1, <4>1, AheadStays
      <4> QED BY <2>1, <3>3, <3>4, <3>6, <4>2, SettledStays
    <3>7. ASSUME g \notin missed', g \notin dead, FollowsInv PROVE Settled(g)'
      <4>1. CASE e \in Gone
        <5>1. index'[g] = 0 BY <3>3, <4>1
        <5>2. disk[g] # 0 => g \in hasty' BY <3>4, <4>1
        <5> QED BY <2>1, <5>1, <5>2 DEF Settled
      <4>2. CASE e \notin Gone /\ disk[g] # 0
        <5>1. index'[g] = disk[g] BY <3>3, <4>2
        <5> QED BY <2>1, <4>2, <5>1 DEF Settled
      <4>3. CASE e \notin Gone /\ disk[g] = 0
        <5>1. g \notin missed /\ index'[g] = index[g] BY <3>3, <3>4, <3>7, <4>3
        <5>2. index[g] = 0 \/ RemovalAhead(g)
          BY <3>1, <3>7, <4>3, <5>1 DEF FollowsInv, Settled
        <5>3. Ordered(g, Gone) => Ordered(g, Gone)'
          <6>1. ASSUME NEW q \in Runs, flush[q] = "exec", cmd[q][1] \in Gone, cmd[q][2] = g
                PROVE  Ordered(g, Gone)'
            <7>1. q # r BY <3>0, <4>3, <6>1
            <7>2. flush'[q] = "exec" /\ cmd'[q] = cmd[q] BY <3>5, <6>1, <7>1
            <7> QED BY <6>1, <7>2 DEF Ordered, Gone
          <6> QED BY <6>1 DEF Ordered
        <5>4. RemovalAhead(g) => RemovalAhead(g)'
          BY <2>1, <5>3 DEF RemovalAhead, EndsGone, Mentions
        <5> QED BY <2>1, <4>3, <5>1, <5>2, <5>4 DEF Settled
      <4> QED BY <4>1, <4>2, <4>3
    <3>8. FollowsInv => FollowsInv'
      <4> SUFFICES ASSUME FollowsInv, NEW f \in Files, f \notin missed', f \notin dead'
                   PROVE  Settled(f)'
        BY DEF FollowsInv
      <4>1. CASE f = g BY <2>1, <3>7, <4>1
      <4>2. CASE f # g
        <5>1. Settled(f) BY <2>1, <3>4, <4>2 DEF FollowsInv
        <5> QED BY <3>6, <4>2, <5>1
      <4> QED BY <4>1, <4>2
    <3> QED BY <2>1, <2>3, <3>8 DEF FollowOk
  <2> QED BY <2>2, <2>3
<1>FlushThrows. ASSUME NEW r \in Runs, FlushThrows(r) PROVE FollowOk'
  <2>1. UNCHANGED <<disk, index, hasty, notes, buf, handler, evt, stopping>>
    BY <1>FlushThrows DEF FlushThrows, worldVars, recordVars, handVars, rootVars,
          mapVars
  <2>2. CASE stopping
    BY <2>1, <2>2 DEF FollowOk
  <2>3. CASE ~stopping
    <3>1. missed' = missed \cup {cmd[r][2]} /\ dead \subseteq dead'
      BY <1>FlushThrows, <2>3 DEF FlushThrows, Miss
    <3>2. \A q \in Runs : q # r => flush'[q] = flush[q] /\ cmd'[q] = cmd[q]
      BY <1>FlushThrows DEF FlushThrows, RunGoto, QueueOk
    <3>3. ASSUME NEW f \in Files, f \notin missed', Settled(f) PROVE Settled(f)'
      <4>1. \A q \in Runs : flush[q] = "exec" /\ cmd[q][2] = f =>
                               flush'[q] = "exec" /\ cmd'[q] = cmd[q]
        BY <3>1, <3>2, <3>3
      <4>2. /\ RemovalAhead(f) => RemovalAhead(f)'
            /\ EventAhead(f) => EventAhead(f)'
        BY <2>1, <4>1, AheadStays
      <4> QED BY <2>1, <3>3, <4>2, SettledStays
    <3> QED BY <2>1, <3>1, <3>3 DEF FollowOk, FollowsInv
  <2> QED BY <2>2, <2>3
<1>ReadCompletes. ASSUME ReadCompletes PROVE FollowOk'
  <2>1. /\ handler = "idle" /\ notes' = <<>>
        /\ UNCHANGED <<disk, index, hasty, dead, evt, flush, cmd, stopping>>
        /\ \/ handler' = "parse" /\ buf' = notes /\ UNCHANGED missed
           \/ handler' = "finish" /\ buf' = <<>> /\ Miss(FilesIn(notes))
    BY <1>ReadCompletes DEF ReadCompletes, worldVars, mapVars, flushVars,
          dispatchVars
  <2>2. buf = <<>> BY <2>1 DEF FollowOk
  <2>3. \A f : ~Mentions(notes', f) /\ ~EndsGone(notes', f) /\ ~Mentions(buf, f)
               /\ ~EndsGone(buf, f)
    BY <2>1, <2>2, RecordFiles
  <2>4. ASSUME NEW f \in Files, ~stopping, f \notin missed', Settled(f)
        PROVE  f \notin missed /\ Settled(f)'
    <3>1. CASE buf' = notes /\ UNCHANGED missed
      <4>1. EndsGone(notes, f) => EndsGone(buf', f) BY <3>1
      <4>2. Mentions(notes, f) <=> Mentions(buf', f) BY <3>1
      <4>3. /\ RemovalAhead(f) => RemovalAhead(f)'
            /\ EventAhead(f) => EventAhead(f)'
        BY <2>1, <2>3, <4>1, <4>2, AheadMoves
      <4> QED BY <2>1, <2>4, <3>1, <4>3, SettledStays
    <3>2. CASE buf' = <<>> /\ Miss(FilesIn(notes))
      <4>1. f \notin missed /\ f \notin FilesIn(notes) BY <2>4, <3>2 DEF Miss
      <4>2. ~Mentions(notes, f) /\ ~EndsGone(notes, f) BY <4>1, RecordFiles
      <4>3. ~Mentions(buf', f) BY <3>2, RecordFiles
      <4>4. /\ RemovalAhead(f) => RemovalAhead(f)'
            /\ EventAhead(f) => EventAhead(f)'
        BY <2>1, <2>3, <4>2, <4>3, AheadMoves
      <4> QED BY <2>1, <2>4, <4>1, <4>4, SettledStays
    <3> QED BY <2>1, <3>1, <3>2
  <2>5. ~stopping => \A f : f \in missed => f \in missed'
    BY <2>1 DEF Miss
  <2> QED BY <2>1, <2>4, <2>5 DEF FollowOk, FollowsInv
<1>StopClose. ASSUME StopClose PROVE FollowOk'
  <2>1. /\ notes' = <<>> /\ Miss(FilesIn(notes))
        /\ UNCHANGED <<disk, index, hasty, dead, buf, handler, evt, flush, cmd, stopping>>
    BY <1>StopClose DEF StopClose, worldVars, handVars, mapVars, flushVars,
          dispatchVars
  <2>2. ASSUME NEW f \in Files, ~stopping, f \notin missed', Settled(f)
        PROVE  Settled(f)'
    <3>1. f \notin FilesIn(notes) BY <2>1, <2>2 DEF Miss
    <3>2. ~Mentions(notes, f) /\ ~EndsGone(notes, f) /\ ~Mentions(notes', f)
      BY <2>1, <3>1, RecordFiles
    <3>3. /\ RemovalAhead(f) => RemovalAhead(f)'
          /\ EventAhead(f) => EventAhead(f)'
      BY <2>1, <3>2, AheadMoves
    <3> QED BY <2>1, <2>2, <3>3, SettledStays
  <2>3. ~stopping => \A f : f \in missed => f \in missed'
    BY <2>1 DEF Miss
  <2> QED BY <2>1, <2>2, <2>3 DEF FollowOk, FollowsInv
<1>ParseEvent. ASSUME ParseEvent PROVE FollowOk'
  <2> DEFINE e == Head(buf)[1]  g == Head(buf)[2]
  <2>1. /\ handler = "parse" /\ buf # <<>> /\ buf' = Tail(buf) /\ pushFileEvent(e, g)
        /\ UNCHANGED <<disk, index, hasty, missed, dead, notes, handler, flush, cmd,
                       stopping>>
    BY <1>ParseEvent DEF ParseEvent, worldVars, recordVars, flushVars, histVars,
          resultVars
  <2>2. e \in Events /\ g \in Files BY <1>ParseEvent, NextEvent
  <2>3. buf \in Seq(Events \X Files) BY DEF RecordOk
  <2> HIDE DEF e, g
  <2>4. ASSUME NEW f \in Files, ~stopping, Settled(f) PROVE Settled(f)'
    <3>1. /\ Mentions(buf, f) <=> g = f \/ Mentions(buf', f)
          /\ EndsGone(buf, f) => \/ EndsGone(buf', f)
                                 \/ ~Mentions(buf', f) /\ g = f /\ e \in Gone
      BY <2>1, <2>3, RecordTail DEF e, g
    <3>2. /\ f # g => evt'[f] = evt[f]
          /\ f = g /\ e \in Gone => evt'[f] \in Gone
          /\ f = g /\ (evt[f] # "none" \/ f \notin Excluded) => evt'[f] # "none"
      BY <2>1, <2>2, <2>4, PushedEntry
    <3>3. CASE f # g
      <4>1. /\ RemovalAhead(f) => RemovalAhead(f)'
            /\ EventAhead(f) => EventAhead(f)'
        BY <2>1, <3>1, <3>2, <3>3, AheadMoves
      <4> QED BY <2>1, <2>4, <4>1, SettledStays
    <3>4. CASE f = g
      <4>1. \A E : Ordered(f, E) => Ordered(f, E)' BY <2>1 DEF Ordered
      <4>2. /\ RemovalAhead(f)' <=>
                  \/ Ordered(f, Gone)'
                  \/ EndsGone(notes, f)
                  \/ ~Mentions(notes, f) /\ EndsGone(buf', f)
                  \/ ~Mentions(notes, f) /\ ~Mentions(buf', f) /\ evt'[f] \in Gone
            /\ evt'[f] # "none" => EventAhead(f)'
        BY <2>1 DEF RemovalAhead, EventAhead, Mentions, EndsGone, Gone
      <4>3. RemovalAhead(f) => RemovalAhead(f)'
        BY <3>1, <3>2, <3>4, <4>1, <4>2 DEF RemovalAhead
      <4>4. f \notin Excluded => EventAhead(f)' BY <3>2, <3>4, <4>2
      <4> QED BY <2>1, <2>4, <4>3, <4>4 DEF Settled
    <3> QED BY <3>3, <3>4
  <2> QED BY <2>1, <2>4 DEF FollowOk, FollowsInv
<1>StartRead. ASSUME StartRead PROVE FollowOk'
  <2>1. /\ buf = <<>>
        /\ UNCHANGED <<disk, index, hasty, missed, dead, notes, buf, evt, flush, cmd,
                       stopping>>
    BY <1>StartRead DEF StartRead, worldVars, recordVars, mapVars, flushVars,
          dispatchVars, histVars, resultVars
  <2>2. ASSUME NEW f \in Files, Settled(f) PROVE Settled(f)'
    BY <2>1, <2>2, AheadStays, SettledStays
  <2> QED BY <2>1, <2>2 DEF FollowOk, FollowsInv
<1>Handles. ASSUME IssueRead \/ FinishPendingRead PROVE FollowOk'
  <2>1. /\ handler \in {"issue", "finish"}
        /\ UNCHANGED <<disk, index, hasty, missed, dead, notes, buf, evt, flush, cmd,
                       stopping>>
    BY <1>Handles DEF IssueRead, FinishPendingRead, worldVars, recordVars, mapVars,
          flushVars, dispatchVars, histVars, resultVars
  <2>2. buf = <<>> BY <2>1 DEF FollowOk
  <2>3. ASSUME NEW f \in Files, Settled(f) PROVE Settled(f)'
    BY <2>1, <2>3, AheadStays, SettledStays
  <2> QED BY <2>1, <2>2, <2>3 DEF FollowOk, FollowsInv
<1>WatchWalk. ASSUME NEW g \in Files, WatchWalk(g) PROVE FollowOk'
  <2>1. UNCHANGED <<disk, index, hasty, missed, dead, notes, buf, handler, flush, cmd,
                    stopping>>
    BY <1>WatchWalk DEF WatchWalk, worldVars, recordVars, handVars, rootVars,
          flushVars, histVars, resultVars
  <2>2. CASE disk[g] = 0
    <3>1. Same BY <1>WatchWalk, <2>1, <2>2 DEF WatchWalk, mapVars
    <3> QED BY <3>1, FollowSame
  <2>3. CASE disk[g] # 0
    <3>1. "Added" \in Events /\ pushFileEvent("Added", g)
      BY <1>WatchWalk, <2>3 DEF WatchWalk, Events
    <3>2. ASSUME NEW f \in Files, ~stopping, Settled(f) PROVE Settled(f)'
      <4>1. /\ f # g => evt'[f] = evt[f]
            /\ f = g /\ (evt[f] # "none" \/ f \notin Excluded) => evt'[f] # "none"
        BY <3>1, <3>2, PushedEntry
      <4>2. CASE f # g
        <5>1. /\ RemovalAhead(f) => RemovalAhead(f)'
              /\ EventAhead(f) => EventAhead(f)'
          BY <2>1, <4>1, <4>2, AheadStays
        <5> QED BY <2>1, <3>2, <5>1, SettledStays
      <4>3. CASE f = g
        <5>1. f \notin Excluded => EventAhead(f)' BY <4>1, <4>3 DEF EventAhead
        <5> QED BY <2>1, <2>3, <4>3, <5>1 DEF Settled
      <4> QED BY <4>2, <4>3
    <3> QED BY <2>1, <3>2 DEF FollowOk, FollowsInv
  <2> QED BY <2>2, <2>3
<1>MainStops. ASSUME MainStops PROVE FollowOk'
  BY <1>MainStops DEF MainStops, FollowOk, rootVars, handVars
<1>MainClear. ASSUME MainClear PROVE FollowOk'
  BY <1>MainClear DEF MainClear, FollowOk, StopOk, rootVars, handVars
<1>FileChanges. ASSUME NEW g \in Files, FileChanges(g) PROVE FollowOk'
  <2>1. /\ ~stopping
        /\ UNCHANGED <<index, hasty, dead, buf, handler, evt, flush, cmd, stopping>>
    BY <1>FileChanges DEF FileChanges, Change, StopOk, handVars, mapVars, flushVars,
          dispatchVars
  <2>2. PICK e \in Events, d \in Nat : /\ disk' = [disk EXCEPT ![g] = d]
                                       /\ d = 0 => e \in Gone
                                       /\ Record(<< <<e, g>> >>)
    <3>1. changes + 2 \in Nat \ {0} BY DEF WorldOk
    <3> QED BY <1>FileChanges, <3>1 DEF FileChanges, Events, Gone
  <2>3. /\ << <<e, g>> >> \in Seq(Events \X Files)
        /\ \A h : Mentions(<< <<e, g>> >>, h) <=> h = g
        /\ e \in Gone => EndsGone(<< <<e, g>> >>, g)
    BY ShortRecords
  <2>4. disk'[g] = d /\ \A f \in Files : f # g => disk'[f] = disk[f]
    BY <2>2 DEF WorldOk
  <2>5. ASSUME NEW f \in Files, f \notin missed', f \notin missed => Settled(f)
        PROVE  Settled(f)'
    <3>1. /\ f \notin missed
          /\ f # g => /\ RemovalAhead(f) => RemovalAhead(f)'
                      /\ EventAhead(f) => EventAhead(f)'
          /\ f = g => EventAhead(f)' /\ (d = 0 => RemovalAhead(f)')
      BY <2>1, <2>2, <2>3, <2>5, Recorded
    <3>2. CASE f # g BY <2>1, <2>4, <2>5, <3>1, <3>2, SettledStays
    <3>3. CASE f = g BY <2>4, <3>1, <3>3 DEF Settled
    <3> QED BY <3>2, <3>3
  <2> QED BY <2>1, <2>5 DEF FollowOk, FollowsInv
<1>FileRenamed. ASSUME NEW g \in Files, NEW h \in Files, FileRenamed(g, h) PROVE FollowOk'
  <2> DEFINE s == << <<"RenamedOld", g>>, <<"RenamedNew", h>> >>
  <2>1. /\ ~stopping /\ g # h /\ Record(s)
        /\ disk' = [disk EXCEPT ![g] = 0, ![h] = changes + 2]
        /\ UNCHANGED <<index, hasty, dead, buf, handler, evt, flush, cmd, stopping>>
    BY <1>FileRenamed DEF FileRenamed, Change, StopOk, handVars, mapVars, flushVars,
          dispatchVars
  <2>2. /\ s \in Seq(Events \X Files)
        /\ \A k : Mentions(s, k) <=> k = g \/ k = h
        /\ EndsGone(s, g)
    BY <2>1, RenameRecord
  <2> HIDE DEF s
  <2>3. /\ disk'[g] = 0 /\ disk'[h] # 0
        /\ \A f \in Files : f # g /\ f # h => disk'[f] = disk[f]
    BY <2>1 DEF WorldOk
  <2>4. ASSUME NEW f \in Files, f \notin missed', f \notin missed => Settled(f)
        PROVE  Settled(f)'
    <3>1. /\ f \notin missed
          /\ f # g /\ f # h => /\ RemovalAhead(f) => RemovalAhead(f)'
                               /\ EventAhead(f) => EventAhead(f)'
          /\ f = g \/ f = h => EventAhead(f)'
          /\ f = g => RemovalAhead(f)'
      BY <2>1, <2>2, <2>4, Recorded
    <3>2. CASE f # g /\ f # h BY <2>1, <2>3, <2>4, <3>1, <3>2, SettledStays
    <3>3. CASE f = g BY <2>3, <3>1, <3>3 DEF Settled
    <3>4. CASE f = h BY <2>3, <3>1, <3>4 DEF Settled
    <3> QED BY <3>2, <3>3, <3>4
  <2> QED BY <2>1, <2>4 DEF FollowOk, FollowsInv
<1>RootMoves. ASSUME RootMoves PROVE FollowOk'
  <2>1. /\ ~stopping /\ Miss({f \in Files : disk[f] # disk'[f]})
        /\ UNCHANGED <<index, hasty, dead, notes, buf, handler, evt, flush, cmd, stopping>>
    BY <1>RootMoves DEF RootMoves, Change, StopOk, handVars, mapVars, flushVars,
          dispatchVars
  <2>2. \A f \in Files : f \notin missed' => f \notin missed /\ disk'[f] = disk[f]
    BY <2>1 DEF Miss
  <2>3. ASSUME NEW f \in Files, f \notin missed', Settled(f) PROVE Settled(f)'
    <3>1. /\ RemovalAhead(f) => RemovalAhead(f)'
          /\ EventAhead(f) => EventAhead(f)'
      BY <2>1, AheadStays
    <3> QED BY <2>1, <2>2, <2>3, <3>1, SettledStays
  <2> QED BY <2>1, <2>2, <2>3 DEF FollowOk, FollowsInv
<1>1. CASE \/ StopDrained \/ WatchTop \/ WatchOpen \/ WatchRead \/ WatchWakes
  <2>1. Same
    BY <1>1 DEF StopDrained, WatchTop, WatchOpen, WatchRead, WatchWakes, worldVars,
          recordVars, fwVars, handVars, rootVars, parentVars, threadVars, mapVars,
          flushVars, dispatchVars, histVars, resultVars
  <2> QED BY <2>1, FollowSame
<1>2. CASE \/ WatchOverflows \/ WatchEvent \/ WatchFirstRead \/ WatchStopped
  <2>1. Same
    BY <1>2 DEF WatchOverflows, WatchEvent, WatchFirstRead, WatchStopped, worldVars,
          recordVars, fwVars, handVars, rootVars, parentVars, threadVars, mapVars,
          flushVars, dispatchVars, histVars, resultVars
  <2> QED BY <2>1, FollowSame
<1>3. CASE \/ MainLook \/ MainJoin \/ MainInnerStopped \/ MainWait
  <2>1. Same
    BY <1>3 DEF MainLook, MainJoin, MainInnerStopped, MainWait, worldVars,
          recordVars, fwVars, handVars, rootVars, parentVars, threadVars, mapVars,
          flushVars, dispatchVars, histVars, resultVars
  <2> QED BY <2>1, FollowSame
<1> QED BY <1>Tick, <1>FlushStart, <1>FlushNext, <1>FlushExec, <1>FlushThrows,
      <1>ReadCompletes, <1>StopClose, <1>ParseEvent, <1>StartRead, <1>Handles,
      <1>WatchWalk, <1>MainStops, <1>MainClear, <1>FileChanges, <1>FileRenamed,
      <1>RootMoves, <1>1, <1>2, <1>3
      DEF Next, Handler, StopWatcher, Watch, Main, Flush

-----------------------------------------------------------------------------
(* The invariant holds.                                                    *)

\* The watchers have been started.
LEMMA InitEvents == Init => EventsInv
<1> SUFFICES ASSUME Init PROVE EventsInv OBVIOUS
<1>1. WorldOk
  <2>1. /\ {0, 1} \subseteq 0 .. MaxChanges + 1
        /\ 0 \in 0 .. MaxChanges /\ 0 \in 0 .. MaxFaults
    BY EventsAssumption
  <2>2. disk \in [Files -> {0, 1}] BY DEF Init
  <2> QED BY <2>1, <2>2 DEF Init, WorldOk
<1>2. RecordOk
  <2>1. /\ <<>> \in Seq(Events \X Files) /\ Len(<<>>) <= MaxNotes
        /\ <<>> \in Seq({"added", "removed"})
    BY EmptySeq, EventsAssumption
  <2> QED BY <2>1 DEF Init, RecordOk
<1>3. PlacesOk BY DEF Init, PlacesOk
<1>4. QuietOk BY DEF Init, QuietOk, Unused
<1>5. QueueOk
  <2>1. <<>> \in Seq(Files) OBVIOUS
  <2> QED BY <2>1 DEF Init, QueueOk
<1>6. StopOk BY DEF Init, StopOk
<1>7. StrandOk
  <2>1. /\ pendingQ = <<>> /\ \A r \in Runs : local[r] = <<>>
        /\ \A f \in Files : evt[f] = "none" /\ f \notin dead
    BY DEF Init
  <2>2. Once(pendingQ) /\ \A f \in Files : ~Has(pendingQ, f)
    BY <2>1, HasNothing
  <2>3. \A r \in Runs : Once(local[r]) /\ \A f \in Files : ~Has(local[r], f)
    BY <2>1, HasNothing
  <2> QED BY <2>1, <2>2, <2>3 DEF StrandOk, StrandInv
<1>8. FollowOk
  <2>1. \A f \in Files : index[f] = disk[f] \/ (f \in Excluded /\ disk[f] = 1)
    BY DEF Init
  <2>2. \A f \in Files : Settled(f) BY <2>1 DEF Settled
  <2> QED BY <2>2 DEF Init, FollowOk, FollowsInv
<1> QED BY <1>1, <1>2, <1>3, <1>4, <1>5, <1>6, <1>7, <1>8 DEF EventsInv

\* Every step keeps it.
LEMMA NextEvents == EventsInv /\ Next => EventsInv'
BY WorldStep, RecordStep, PlacesStep, QuietStep, QueueStep, StopStep, StrandStep,
   FollowStep DEF EventsInv

\* So does a step that changes nothing.
LEMMA StutterEvents == EventsInv /\ UNCHANGED vars => EventsInv'
<1> SUFFICES ASSUME EventsInv, UNCHANGED vars PROVE EventsInv'
  OBVIOUS
<1> USE DEF vars, worldVars, recordVars, fwVars, handVars, rootVars, parentVars,
        threadVars, mapVars, flushVars, dispatchVars, histVars, resultVars
<1>1. WorldOk' BY DEF EventsInv, WorldOk
<1>2. RecordOk' BY DEF EventsInv, RecordOk
<1>3. PlacesOk' BY DEF EventsInv, PlacesOk
<1>4. QuietOk' BY DEF EventsInv, QuietOk, Unused
<1>5. QueueOk' BY DEF EventsInv, QueueOk
<1>6. StopOk' BY DEF EventsInv, StopOk
<1>7. StrandOk'
  <2>1. UNCHANGED <<pendingQ, local, evt, dead, stopping>> OBVIOUS
  <2> QED BY <2>1 DEF EventsInv, StrandOk, StrandInv
<1>8. FollowOk' BY FollowSame DEF EventsInv
<1> QED BY <1>1, <1>2, <1>3, <1>4, <1>5, <1>6, <1>7, <1>8 DEF EventsInv

\* The inductive invariant of the specification.
LEMMA EventsHold == Spec => []EventsInv
BY InitEvents, NextEvents, StutterEvents, PTL DEF Spec

-----------------------------------------------------------------------------
(* The theorems.                                                           *)

\* pendingReads_ counts exactly the reads and the handlers that may still call a
\* FileWatcher; it is destroyed only when there are none, and the dispatcher and
\* its task only when no flush runs and no watcher is left: FileWatcher::stop's
\* wait, the join of MultiDirWatcher::stop and waitAll are enough.
THEOREM WatcherSafety == Spec => []WatcherInv
<1>1. EventsInv => WatcherInv
  <2> SUFFICES ASSUME EventsInv PROVE WatcherInv OBVIOUS
  <2>1. DestroyedIsQuiet
    BY DEF EventsInv, PlacesOk, QuietOk, Unused, StopOk, DestroyedIsQuiet
  <2>2. {root, armed, overflow, inner, running, watching, stopping, stopped} \subseteq BOOLEAN
    BY DEF EventsInv, WorldOk, RecordOk, PlacesOk, StopOk
  <2>3. missed \cup hasty \cup dead \subseteq Files BY DEF EventsInv, WorldOk
  <2>4. {parentNotes, parentBuf, stale} \subseteq Seq({"added", "removed"})
    BY DEF EventsInv, RecordOk
  <2>5. TypeOK
    BY <2>2, <2>3, <2>4
       DEF EventsInv, WorldOk, RecordOk, PlacesOk, QueueOk, TypeOK
  <2> QED BY <2>1, <2>5 DEF WatcherInv
<1> QED BY <1>1, EventsHold, PTL

\* A path waits in the queue as often as it is in it: once, or not at all.
LEMMA OncePlaced ==
    ASSUME NEW q \in Seq(Files), NEW f, Once(q)
    PROVE  Cardinality(Places(q, f)) = IF Has(q, f) THEN 1 ELSE 0
<1>1. CASE ~Has(q, f)
  <2>1. Places(q, f) = {} BY <1>1 DEF Places, Has
  <2> QED BY <1>1, <2>1, FS_EmptySet
<1>2. CASE Has(q, f)
  <2>1. PICK i \in DOMAIN q : q[i] = f BY <1>2 DEF Has
  <2>2. Places(q, f) = {i} BY <2>1 DEF Places, Once
  <2> QED BY <1>2, <2>2, FS_Singleton
<1> QED BY <1>1, <1>2

\* A flush holds no more paths than there are.
LEMMA ShortQueue ==
    ASSUME NEW q \in Seq(Files), Once(q)
    PROVE  DOMAIN q \subseteq 1 .. Cardinality(Files)
<1>1. Len(q) \in Nat /\ q \in [1 .. Len(q) -> Files] /\ DOMAIN q = 1 .. Len(q)
  BY LenProperties
<1>2. q \in Injection(1 .. Len(q), Files)
  BY <1>1 DEF Once, Injection, IsInjective
<1>3. Cardinality(1 .. Len(q)) <= Cardinality(Files)
  BY <1>2, FS_Injection, EventsAssumption
<1>4. Cardinality(1 .. Len(q)) = Len(q)
  BY <1>1, FS_Interval
<1>5. Cardinality(Files) \in Nat BY FS_CardinalityType, EventsAssumption
<1> QED BY <1>1, <1>3, <1>4, <1>5

\* Until the application is stopped, a path with an entry in the map waits exactly
\* once, in the queue or with one flush, and a path without one waits nowhere,
\* however pushes, flushes and failures interleave; only the paths behind a
\* command that threw are left with an entry nobody will look at.
THEOREM EveryEntryWaits == Spec => []NothingStranded
<1>1. EventsInv => NothingStranded
  <2> SUFFICES ASSUME EventsInv, ~stopping, NEW f \in Files \ dead
               PROVE  Waiting(f) = IF evt[f] = "none" THEN 0 ELSE 1
    BY DEF NothingStranded
  <2>1. StrandInv BY DEF EventsInv, StrandOk
  <2>2. /\ pendingQ \in Seq(Files) /\ Once(pendingQ)
        /\ \A r \in Runs : local[r] \in Seq(Files) /\ Once(local[r])
    BY <2>1 DEF EventsInv, QueueOk, StrandInv
  <2>3. Cardinality(Places(pendingQ, f)) = IF Has(pendingQ, f) THEN 1 ELSE 0
    BY <2>2, OncePlaced
  <2>4. CASE \E r \in Runs : Has(local[r], f)
    <3>1. PICK r \in Runs : Has(local[r], f) BY <2>4
    <3>2. /\ ~Has(pendingQ, f) /\ evt[f] # "none"
          /\ \A q \in Runs : Has(local[q], f) => q = r
      BY <2>1, <3>1 DEF StrandInv
    <3>3. PICK i \in DOMAIN local[r] : local[r][i] = f BY <3>1 DEF Has
    <3>4. i \in 1 .. Cardinality(Files) BY <2>2, <3>3, ShortQueue
    <3>5. <<r, i>> \in LocalPlaces(f) BY <3>3, <3>4 DEF LocalPlaces, Places
    <3>6. ASSUME NEW p \in LocalPlaces(f) PROVE p = <<r, i>>
      <4>1. /\ p \in Runs \X (1 .. Cardinality(Files)) /\ p[1] \in Runs
            /\ p[2] \in DOMAIN local[p[1]] /\ local[p[1]][p[2]] = f
        BY DEF LocalPlaces, Places
      <4>2. Has(local[p[1]], f) BY <4>1 DEF Has
      <4>3. p[1] = r BY <3>2, <4>1, <4>2
      <4>4. p[2] = i BY <2>2, <3>3, <4>1, <4>3 DEF Once
      <4> QED BY <4>1, <4>3, <4>4
    <3>7. LocalPlaces(f) = {<<r, i>>} BY <3>5, <3>6
    <3>8. Cardinality(LocalPlaces(f)) = 1 BY <3>7, FS_Singleton
    <3> QED BY <2>3, <3>2, <3>8 DEF Waiting
  <2>5. CASE \A r \in Runs : ~Has(local[r], f)
    <3>1. LocalPlaces(f) = {}
      BY <2>5 DEF LocalPlaces, Places, Has
    <3>2. Has(pendingQ, f) <=> evt[f] # "none" BY <2>1, <2>5 DEF StrandInv
    <3> QED BY <2>3, <3>1, <3>2, FS_EmptySet DEF Waiting
  <2> QED BY <2>4, <2>5
<1> QED BY <1>1, EventsHold, PTL

\* When nothing is on its way from the disk to the index, the index holds every file
\* in its present version and no file that is gone, for any number of files, flushes
\* and changes; except for a file with a change that no read reported, or behind a
\* command that threw, and a file that came back before its removal was carried
\* out.  For every difference, merge2, the queue and the flushes keep an event under
\* way that settles it.
THEOREM IndexSettles == Spec => []IndexFollowsDisk
<1>1. EventsInv => IndexFollowsDisk
  <2> SUFFICES ASSUME EventsInv, Quiet, NEW f \in Files \ (missed \cup dead)
               PROVE  IF f \in Excluded THEN disk[f] = 0 => index[f] = 0
                      ELSE index[f] # disk[f] => f \in hasty /\ index[f] = 0
    BY DEF IndexFollowsDisk
  <2>1. ~stopping /\ StrandInv /\ FollowsInv
    BY DEF EventsInv, Quiet, StopOk, StrandOk, FollowOk
  <2>2. notes = <<>> /\ buf = <<>> BY DEF EventsInv, Quiet, FollowOk
  <2>3. \A r \in Runs : flush[r] # "exec" /\ local[r] = <<>>
    BY DEF EventsInv, Quiet, QueueOk
  <2>4. ~Has(pendingQ, f) /\ \A r \in Runs : ~Has(local[r], f)
    BY <2>3, HasNothing DEF Quiet
  <2>5. evt[f] = "none" BY <2>1, <2>4 DEF StrandInv
  <2>6. ~Mentions(<<>>, f) /\ ~EndsGone(<<>>, f) BY DEF Mentions, EndsGone
  <2>7. ~RemovalAhead(f) /\ ~EventAhead(f)
    BY <2>2, <2>3, <2>5, <2>6 DEF RemovalAhead, EventAhead, Ordered, Gone
  <2>8. disk[f] = 0 => index[f] = 0 BY <2>1, <2>7 DEF FollowsInv, Settled
  <2>9. disk[f] # 0 /\ f \notin Excluded => index[f] = disk[f] \/ (index[f] = 0 /\ f \in hasty)
    BY <2>1, <2>7 DEF FollowsInv, Settled
  <2> QED BY <2>8, <2>9
<1> QED BY <1>1, EventsHold, PTL
=============================================================================
