--------------------------- MODULE SessionsProofs ---------------------------
(***************************************************************************)
(* For any number of sessions, requests and failures, and any capacity of  *)
(* the write channel: ServerActivity counts exactly the commands and the   *)
(* sessions there are, so that nothing is left when wait() returns; no     *)
(* result goes to a client that has not authenticated; the stream of       *)
(* requests and the stream of replies are in step; and uploaded files      *)
(* arrive whole and are not replaced.                                      *)
(***************************************************************************)
EXTENDS SessionsInvariants, SequenceTheorems, FiniteSetTheorems, TLAPS

-----------------------------------------------------------------------------
(* What the operations come to.                                            *)

\* What readLoop does with a header: refuse it, or go on to the body, to a drain,
\* to an upload, or to the command, counted in unless the server is stopping.
LEMMA HeaderOutcome ==
    ASSUME NEW s \in Sessions, ReadHeader(s)
    PROVE  /\ rpc[s] = "header" /\ inbox[s] # <<>>
           /\ cmd' = [cmd EXCEPT ![s] = Head(inbox[s])]
           /\ \/ Send(s, Error(s, TRUE), "done") /\ UNCHANGED countVars
              \/ /\ Goto(s, "drain") /\ UNCHANGED countVars
                 /\ Head(inbox[s]) = "legacyMessage"
              \/ /\ Goto(s, "body") /\ UNCHANGED countVars
                 /\ Head(inbox[s]) \in {"auth", "data"}
              \/ /\ ~closing /\ Counted(commands + 1, sessions)
                 /\ \/ Goto(s, "drain") /\ Head(inbox[s]) = "legacyUpload"
                    \/ Goto(s, "meta") /\ Head(inbox[s]) = "upload" /\ authed[s]
                    \/ Goto(s, "exec") /\ Head(inbox[s]) = "negotiate"
  <1> DEFINE k == Head(inbox[s])
  <1>1. rpc[s] = "header" /\ inbox[s] # <<>> /\ cmd' = [cmd EXCEPT ![s] = k]
    BY DEF ReadHeader, Take
  <1>2. CASE k \in {"legacyMessage", "legacyUpload", "upload"} /\ ~Gate(s, k)
    BY <1>1, <1>2 DEF ReadHeader
  <1>3. CASE k = "legacyMessage" /\ Gate(s, k)
    BY <1>1, <1>3 DEF ReadHeader
  <1>4. CASE k = "legacyUpload" /\ Gate(s, k)
    BY <1>1, <1>4 DEF ReadHeader, StartCommand
  <1>5. CASE k = "upload" /\ Gate(s, k)
    BY <1>1, <1>5 DEF ReadHeader, StartCommand, Gate
  <1>6. CASE k = "negotiate"
    BY <1>1, <1>6 DEF ReadHeader, StartCommand
  <1>7. CASE k \in {"auth", "data"}
    BY <1>1, <1>7 DEF ReadHeader
  <1>8. CASE k \notin {"legacyMessage", "legacyUpload", "upload", "negotiate", "auth", "data"}
    BY <1>1, <1>8 DEF ReadHeader
  <1> QED  BY <1>2, <1>3, <1>4, <1>5, <1>6, <1>7, <1>8

\* The frames of a request.
LEMMA Frames ==
    ASSUME NEW k \in Kinds, NEW cut \in {1, Len(Frame(k))}
    PROVE  SubSeq(Frame(k), 1, cut) \in Seq(Parts)
  <1>1. Frame(k) \in Seq(Parts) /\ Len(Frame(k)) \in {1, 2}
    <2>1. CASE k = "negotiate"
      BY <2>1 DEF Frame, Parts, Kinds
    <2>2. CASE k = "upload"
      BY <2>2 DEF Frame, Parts, Kinds
    <2>3. CASE k \notin {"negotiate", "upload"}
      <3>1. Frame(k) = <<k, "body">>
        BY <2>3 DEF Frame
      <3>2. k \in Parts /\ "body" \in Parts
        BY DEF Parts
      <3>3. <<k, "body">> \in Seq(Parts) /\ Len(<<k, "body">>) = 2
        BY <3>2
      <3> QED  BY <3>1, <3>3
    <2> QED  BY <2>1, <2>2, <2>3
  <1>2. cut \in {1, 2} /\ cut <= Len(Frame(k))
    <2>1. CASE cut = 1
      BY <2>1, <1>1
    <2>2. CASE cut = Len(Frame(k))
      BY <2>2, <1>1
    <2> QED  BY <2>1, <2>2
  <1>3. \A i \in 1 .. cut : Frame(k)[i] \in Parts
    BY <1>1, <1>2
  <1> QED  BY <1>2, <1>3, SubSeqProperties

\* A sequence of the stream loses its head, or everything but it.
LEMMA StreamEnds ==
    ASSUME NEW S, NEW q \in Seq(S)
    PROVE  /\ q # <<>> => Head(q) \in S /\ Tail(q) \in Seq(S)
           /\ \A k \in {0, 1} : SubSeq(q, 1, IF q = <<>> THEN 0 ELSE k) \in Seq(S)
  <1>1. Len(q) \in Nat /\ (q # <<>> => Len(q) >= 1) /\ \A i \in 1 .. Len(q) : q[i] \in S
    BY LenProperties, EmptySeq
  <1>2. SubSeq(q, 1, 0) = <<>> /\ <<>> \in Seq(S)
    BY SubSeqEmpty, EmptySeq
  <1>3. q # <<>> => SubSeq(q, 1, 1) \in Seq(S)
    BY <1>1, SubSeqProperties
  <1> QED  BY <1>2, <1>3, HeadTailProperties

-----------------------------------------------------------------------------
(* The types of the state, step by step.                                   *)

\* The coroutines.
LEMMA LoopsStep ==
    ASSUME LoopsOk, StreamsOk, Next
    PROVE  LoopsOk'
  <1>u. ASSUME UNCHANGED <<rpc, next, wpc, cmd, tried>> PROVE LoopsOk'
    BY <1>u DEF LoopsOk
  <1>AcceptFails. ASSUME AcceptFails PROVE LoopsOk'
    BY <1>AcceptFails DEF AcceptFails, readVars, loopVars, writeVars, sinkVars,
       LoopsOk
  <1>sessionStart. ASSUME sessionStart PROVE LoopsOk'
    BY <1>sessionStart DEF sessionStart, readVars, loopVars, writeVars,
       sinkVars, LoopsOk, LoopTop, Reading
  <1>ReadHeader. ASSUME NEW s \in Sessions, ReadHeader(s) PROVE LoopsOk'
    <2>1. Head(inbox[s]) \in Parts
      BY <1>ReadHeader, HeaderOutcome, StreamEnds DEF StreamsOk
    <2>2. UNCHANGED <<wpc, tried>>
      BY <1>ReadHeader DEF ReadHeader, writeVars, loopVars, sinkVars
    <2>3. cmd' = [cmd EXCEPT ![s] = Head(inbox[s])]
      BY <1>ReadHeader, HeaderOutcome
    <2>4. \/ Send(s, Error(s, TRUE), "done")
          \/ \E l \in {"drain", "body", "meta", "exec"} : Goto(s, l)
      BY <1>ReadHeader, HeaderOutcome
    <2>5. cmd' \in [Sessions -> Parts \cup {"none"}]
      BY <2>1, <2>3 DEF LoopsOk
    <2>6. CASE Send(s, Error(s, TRUE), "done")
      BY <2>2, <2>5, <2>6 DEF Send, LoopsOk
    <2>7. CASE \E l \in {"drain", "body", "meta", "exec"} : Goto(s, l)
      BY <2>2, <2>5, <2>7 DEF Goto, Reading, LoopsOk
    <2> QED  BY <2>4, <2>6, <2>7
  <1>ReadBody. ASSUME NEW s \in Sessions, ReadBody(s) PROVE LoopsOk'
    BY <1>ReadBody DEF ReadBody, readVars, loopVars, writeVars, sinkVars,
       LoopsOk, Goto, Send, StartCommand, Reading
  <1>Drain. ASSUME NEW s \in Sessions, Drain(s) PROVE LoopsOk'
    BY <1>Drain DEF Drain, readVars, loopVars, writeVars, sinkVars, LoopsOk,
       Send
  <1>commandExec. ASSUME NEW s \in Sessions, commandExec(s) PROVE LoopsOk'
    BY <1>commandExec DEF commandExec, Send, readVars, loopVars, writeVars,
       sinkVars, LoopsOk, Reading
  <1>SendDone. ASSUME NEW s \in Sessions, SendDone(s) PROVE LoopsOk'
    BY <1>SendDone DEF SendDone, readVars, loopVars, writeVars, sinkVars,
       LoopsOk, Reading
  <1>SendFails. ASSUME NEW s \in Sessions, SendFails(s) PROVE LoopsOk'
    BY <1>SendFails DEF SendFails, readVars, loopVars, writeVars, sinkVars,
       LoopsOk, Reading
  <1>FinishCommand. ASSUME NEW s \in Sessions, FinishCommand(s) PROVE LoopsOk'
    BY <1>FinishCommand DEF FinishCommand, readVars, loopVars, writeVars,
       sinkVars, LoopsOk, Goto, LoopTop, Reading
  <1>ReadFails. ASSUME NEW s \in Sessions, ReadFails(s) PROVE LoopsOk'
    BY <1>ReadFails DEF ReadFails, readVars, loopVars, writeVars, sinkVars,
       LoopsOk, Goto
  <1>ReadEnds. ASSUME NEW s \in Sessions, ReadEnds(s) PROVE LoopsOk'
    BY <1>ReadEnds DEF ReadEnds, readVars, loopVars, writeVars, sinkVars,
       LoopsOk, Goto
  <1>UploadPrepare. ASSUME NEW s \in Sessions, UploadPrepare(s) PROVE LoopsOk'
    <2>1. UNCHANGED <<wpc, cmd>>
      BY <1>UploadPrepare DEF UploadPrepare, writeVars, loopVars
    <2>2. tried' \in [Sessions -> Nat]
      <3>1. UNCHANGED tried \/ tried' = [tried EXCEPT ![s] = 0]
        BY <1>UploadPrepare DEF UploadPrepare, sinkVars
      <3> QED  BY <3>1 DEF LoopsOk
    <2>3. \E it : \E l \in {"probe", "chunk", "finish", "loop"} : Send(s, it, l)
      BY <1>UploadPrepare DEF UploadPrepare
    <2> QED  BY <2>1, <2>2, <2>3 DEF Send, LoopsOk
  <1>UploadChunk. ASSUME NEW s \in Sessions, UploadChunk(s) PROVE LoopsOk'
    BY <1>UploadChunk DEF UploadChunk, readVars, loopVars, writeVars, sinkVars,
       LoopsOk, Goto, Reading
  <1>PublishProbe. ASSUME NEW s \in Sessions, PublishProbe(s) PROVE LoopsOk'
    BY <1>PublishProbe DEF PublishProbe, Goto, readVars, loopVars, writeVars,
       sinkVars, LoopsOk, Reading
  <1>PublishMove. ASSUME NEW s \in Sessions, PublishMove(s) PROVE LoopsOk'
    BY <1>PublishMove DEF PublishMove, Send, Goto, readVars, loopVars,
       writeVars, sinkVars, LoopsOk, Reading
  <1>PublishFails. ASSUME NEW s \in Sessions, PublishFails(s) PROVE LoopsOk'
    BY <1>PublishFails DEF PublishFails, Send, readVars, loopVars, writeVars,
       sinkVars, LoopsOk
  <1>WriteReceive. ASSUME NEW s \in Sessions, WriteReceive(s) PROVE LoopsOk'
    BY <1>WriteReceive DEF WriteReceive, WriteGoto, readVars, loopVars,
       writeVars, sinkVars, LoopsOk
  <1>WriteDone. ASSUME NEW s \in Sessions, WriteDone(s) PROVE LoopsOk'
    BY <1>WriteDone DEF WriteDone, readVars, loopVars, writeVars, sinkVars,
       LoopsOk, WriteGoto
  <1>WriteFails. ASSUME NEW s \in Sessions, WriteFails(s) PROVE LoopsOk'
    BY <1>WriteFails DEF WriteFails, readVars, loopVars, writeVars, sinkVars,
       LoopsOk, WriteGoto
  <1>WriteEnds. ASSUME NEW s \in Sessions, WriteEnds(s) PROVE LoopsOk'
    BY <1>WriteEnds DEF WriteEnds, readVars, loopVars, writeVars, sinkVars,
       LoopsOk, WriteGoto
  <1> DEFINE Moved == \/ UNCHANGED <<rpc, next, wpc, cmd, tried>>
                      \/ AcceptFails \/ sessionStart
                      \/ \E s \in Sessions : ReadHeader(s) \/ ReadBody(s) \/
                            Drain(s) \/ commandExec(s) \/ SendDone(s) \/
                            SendFails(s) \/ FinishCommand(s) \/ ReadFails(s) \/
                            ReadEnds(s) \/ UploadPrepare(s) \/ UploadChunk(s) \/
                            PublishProbe(s) \/ PublishMove(s) \/ PublishFails(s)
                            \/ WriteReceive(s) \/ WriteDone(s) \/ WriteFails(s)
                            \/ WriteEnds(s)
  <1>o. Moved
    <2>server. CASE Accepts \/ StopBegins \/ Stops \/ OtherProgram
      BY <2>server DEF Accepts, Stops, AcceptBegins, AcceptAborted,
         tryStartSession, AcceptLists, StopBegins, UnchangedByMain,
         stopAccepting, StopSessions, Wait, InterfaceShutdown, OtherProgram,
         UnchangedByPeer, readVars, loopVars, writeVars, sinkVars
    <2>read. ASSUME NEW s \in Sessions, ReadSide(s) PROVE Moved
      BY <2>read DEF ReadSide, readVars, loopVars, writeVars, sinkVars
    <2>write. ASSUME NEW s \in Sessions, WriteSide(s) \/ StopPosted(s) PROVE Moved
      BY <2>write DEF WriteSide, StopPosted, readVars, loopVars, writeVars,
         sinkVars
    <2>peer. ASSUME NEW s \in Sessions, Peer(s) PROVE Moved
      BY <2>peer DEF Peer, ClientAsks, UnchangedByPeer, ClientStreams,
         ClientCloses, ClientStalls, readVars, loopVars, writeVars, sinkVars
    <2> QED  BY <2>server, <2>read, <2>write, <2>peer DEF Next
  <1> QED  BY <1>u, <1>o, <1>AcceptFails, <1>sessionStart, <1>ReadHeader,
           <1>ReadBody, <1>Drain, <1>commandExec, <1>SendDone, <1>SendFails,
           <1>FinishCommand, <1>ReadFails, <1>ReadEnds, <1>UploadPrepare,
           <1>UploadChunk, <1>PublishProbe, <1>PublishMove, <1>PublishFails,
           <1>WriteReceive, <1>WriteDone, <1>WriteFails, <1>WriteEnds

\* What a stop leaves of the stream.
LEMMA CutInbox ==
    ASSUME StreamsOk, NEW s \in Sessions, NEW k \in {0, 1},
           inbox' = [inbox EXCEPT ![s] = SubSeq(@, 1, IF @ = <<>> THEN 0 ELSE k)]
    PROVE  inbox' \in [Sessions -> Seq(Parts)]
  <1> DEFINE q == inbox[s]
             c == SubSeq(q, 1, IF q = <<>> THEN 0 ELSE k)
  <1>1. q \in Seq(Parts)
    BY DEF StreamsOk
  <1>2. c \in Seq(Parts)
    BY <1>1, StreamEnds
  <1>3. inbox' = [inbox EXCEPT ![s] = c]
    OBVIOUS
  <1> HIDE DEF c
  <1> QED  BY <1>2, <1>3 DEF StreamsOk

\* What a client sends are parts of requests.
LEMMA RequestOk ==
    ASSUME StreamsOk, NEW s \in Sessions, NEW k \in Kinds,
           NEW cut \in {1, Len(Frame(k))}, Request(s, k, cut), UNCHANGED <<owes, heard>>
    PROVE  StreamsOk'
  <1>1. SubSeq(Frame(k), 1, cut) \in Seq(Parts)
    BY Frames
  <1>2. inbox' \in [Sessions -> Seq(Parts)]
    <2>1. inbox[s] \o SubSeq(Frame(k), 1, cut) \in Seq(Parts)
      BY <1>1, ConcatProperties DEF StreamsOk
    <2> QED  BY <2>1 DEF Request, StreamsOk
  <1>3. requests' \in Nat /\ requests' = requests + 1
    BY DEF Request, StreamsOk
  <1>4. upload' \in [Sessions -> [of : Nat, size : Nat]]
    <2>1. CASE UNCHANGED upload
      BY <2>1 DEF StreamsOk
    <2>2. CASE \E n \in Sizes :
                 upload' = [upload EXCEPT ![s] = [of |-> requests + 1, size |-> n]]
      <3>1. PICK n \in Sizes :
                 upload' = [upload EXCEPT ![s] = [of |-> requests + 1, size |-> n]]
        BY <2>2
      <3>2. n \in Nat /\ requests + 1 \in Nat
        BY <1>3, SessionsAssumption
      <3>3. [of |-> requests + 1, size |-> n] \in [of : Nat, size : Nat]
        BY <3>2
      <3> QED  BY <3>1, <3>3 DEF StreamsOk
    <2> QED  BY <2>1, <2>2 DEF Request
  <1> QED  BY <1>2, <1>3, <1>4 DEF StreamsOk

\* The streams of requests.
LEMMA StreamsStep ==
    ASSUME StreamsOk, PipesOk, Next
    PROVE  StreamsOk'
  <1>u. ASSUME UNCHANGED <<inbox, owes, requests, upload, heard>> PROVE StreamsOk'
    BY <1>u DEF StreamsOk
  <1>ReadHeader. ASSUME NEW s \in Sessions, ReadHeader(s) PROVE StreamsOk'
    <2>1. inbox[s] # <<>> /\ inbox' = [inbox EXCEPT ![s] = Tail(@)] /\ UNCHANGED restVars
      BY <1>ReadHeader DEF ReadHeader, Take
    <2> QED  BY <2>1, StreamEnds DEF StreamsOk, restVars, heardVars
  <1>ReadBody. ASSUME NEW s \in Sessions, ReadBody(s) PROVE StreamsOk'
    <2>1. inbox[s] # <<>> /\ inbox' = [inbox EXCEPT ![s] = Tail(@)] /\ UNCHANGED restVars
      BY <1>ReadBody DEF ReadBody, Take
    <2> QED  BY <2>1, StreamEnds DEF StreamsOk, restVars, heardVars
  <1>Drain. ASSUME NEW s \in Sessions, Drain(s) PROVE StreamsOk'
    <2>1. inbox[s] # <<>> /\ inbox' = [inbox EXCEPT ![s] = Tail(@)] /\ UNCHANGED restVars
      BY <1>Drain DEF Drain, Take
    <2> QED  BY <2>1, StreamEnds DEF StreamsOk, restVars, heardVars
  <1>UploadPrepare. ASSUME NEW s \in Sessions, UploadPrepare(s) PROVE StreamsOk'
    <2>1. inbox[s] # <<>> /\ inbox' = [inbox EXCEPT ![s] = Tail(@)] /\ UNCHANGED restVars
      BY <1>UploadPrepare DEF UploadPrepare, Take
    <2> QED  BY <2>1, StreamEnds DEF StreamsOk, restVars, heardVars
  <1>UploadChunk. ASSUME NEW s \in Sessions, UploadChunk(s) PROVE StreamsOk'
    <2>1. inbox[s] # <<>> /\ inbox' = [inbox EXCEPT ![s] = Tail(@)] /\ UNCHANGED restVars
      BY <1>UploadChunk DEF UploadChunk, Take
    <2> QED  BY <2>1, StreamEnds DEF StreamsOk, restVars, heardVars
  <1>ReadEnds. ASSUME NEW s \in Sessions, ReadEnds(s) PROVE StreamsOk'
    <2>1. /\ UNCHANGED restVars
          /\ UNCHANGED inbox \/ \E k \in {0, 1} :
                inbox' = [inbox EXCEPT ![s] = SubSeq(@, 1, IF @ = <<>> THEN 0 ELSE k)]
      BY <1>ReadEnds DEF ReadEnds, stopOnExecutor, Closed, stopVars
    <2>2. inbox' \in [Sessions -> Seq(Parts)]
      BY <2>1, CutInbox DEF StreamsOk
    <2> QED  BY <2>1, <2>2 DEF StreamsOk, restVars, heardVars
  <1>WriteFails. ASSUME NEW s \in Sessions, WriteFails(s) PROVE StreamsOk'
    <2>1. /\ UNCHANGED restVars
          /\ UNCHANGED inbox \/ \E k \in {0, 1} :
                inbox' = [inbox EXCEPT ![s] = SubSeq(@, 1, IF @ = <<>> THEN 0 ELSE k)]
      BY <1>WriteFails DEF WriteFails, stopOnExecutor, Closed, stopVars
    <2>2. inbox' \in [Sessions -> Seq(Parts)]
      BY <2>1, CutInbox DEF StreamsOk
    <2> QED  BY <2>1, <2>2 DEF StreamsOk, restVars, heardVars
  <1>WriteEnds. ASSUME NEW s \in Sessions, WriteEnds(s) PROVE StreamsOk'
    <2>1. /\ UNCHANGED restVars
          /\ UNCHANGED inbox \/ \E k \in {0, 1} :
                inbox' = [inbox EXCEPT ![s] = SubSeq(@, 1, IF @ = <<>> THEN 0 ELSE k)]
      BY <1>WriteEnds DEF WriteEnds, stopOnExecutor, Closed, stopVars
    <2>2. inbox' \in [Sessions -> Seq(Parts)]
      BY <2>1, CutInbox DEF StreamsOk
    <2> QED  BY <2>1, <2>2 DEF StreamsOk, restVars, heardVars
  <1>StopPosted. ASSUME NEW s \in Sessions, StopPosted(s) PROVE StreamsOk'
    <2>1. /\ UNCHANGED restVars
          /\ UNCHANGED inbox \/ \E k \in {0, 1} :
                inbox' = [inbox EXCEPT ![s] = SubSeq(@, 1, IF @ = <<>> THEN 0 ELSE k)]
      BY <1>StopPosted DEF StopPosted, stopOnExecutor, Closed, stopVars
    <2>2. inbox' \in [Sessions -> Seq(Parts)]
      BY <2>1, CutInbox DEF StreamsOk
    <2> QED  BY <2>1, <2>2 DEF StreamsOk, restVars, heardVars
  <1>WriteDone. ASSUME NEW s \in Sessions, WriteDone(s) PROVE StreamsOk'
    <2>1. /\ UNCHANGED <<upload, requests>>
          /\ UNCHANGED inbox \/ \E k \in {0, 1} :
                inbox' = [inbox EXCEPT ![s] = SubSeq(@, 1, IF @ = <<>> THEN 0 ELSE k)]
      BY <1>WriteDone DEF WriteDone, stopOnExecutor, Closed, stopVars
    <2>2. inbox' \in [Sessions -> Seq(Parts)]
      BY <2>1, CutInbox DEF StreamsOk
    <2>3. writing[s] \in Items
      BY DEF PipesOk
    <2>4. owes' \in [Sessions -> Nat]
      BY <1>WriteDone DEF WriteDone, Heard, StreamsOk
    <2>5. heard' \in [Sessions -> SUBSET (Parts \cup {"none", "terminal"})]
      <3> DEFINE it == writing[s]
                 H  == CASE it.close -> {"terminal"}
                         [] it.what = "ok" -> {it.cmd}
                         [] OTHER -> {}
      <3>1. H \in SUBSET (Parts \cup {"none", "terminal"})
        <4>1. CASE it.close
          BY <4>1, <2>3 DEF Items
        <4>2. CASE ~it.close /\ it.what = "ok"
          BY <4>2, <2>3 DEF Items
        <4>3. CASE ~it.close /\ it.what # "ok"
          BY <4>3
        <4> QED  BY <4>1, <4>2, <4>3
      <3>2. UNCHANGED heard \/ heard' = [heard EXCEPT ![s] = @ \cup H]
        BY <1>WriteDone DEF WriteDone, Heard, heardVars
      <3> HIDE DEF H
      <3> QED  BY <3>1, <3>2 DEF StreamsOk
    <2> QED  BY <2>1, <2>2, <2>4, <2>5 DEF StreamsOk
  <1>ClientAsks. ASSUME NEW s \in Sessions, NEW k \in Kinds, ClientAsks(s, k)
     PROVE StreamsOk'
    BY <1>ClientAsks, RequestOk DEF ClientAsks, heardVars, peerVars, stopVars,
       restVars
  <1>ClientStreams. ASSUME NEW s \in Sessions, ClientStreams(s) PROVE StreamsOk'
    <2>1. [i \in 1 .. owes[s] |-> "chunk"] \in Seq(Parts)
      BY DEF StreamsOk, Parts
    <2>2. inbox[s] \o [i \in 1 .. owes[s] |-> "chunk"] \in Seq(Parts)
      BY <2>1, ConcatProperties DEF StreamsOk
    <2> QED  BY <1>ClientStreams, <2>2 DEF ClientStreams, StreamsOk, heardVars
  <1>ClientCloses. ASSUME NEW s \in Sessions, ClientCloses(s) PROVE StreamsOk'
    <2>1. UNCHANGED <<owes, heard>>
      BY <1>ClientCloses DEF ClientCloses, heardVars
    <2>2. CASE UNCHANGED <<inbox, asked, upload, requests>>
      BY <2>1, <2>2 DEF StreamsOk
    <2>3. CASE \E k \in Kinds : Len(Frame(k)) > 1 /\ Request(s, k, 1)
      BY <2>1, <2>3, RequestOk
    <2>4. CASE /\ inbox' = [inbox EXCEPT ![s] = Append(@, "chunk")]
               /\ UNCHANGED <<asked, upload, requests>>
      BY <2>1, <2>4, AppendProperties DEF StreamsOk, Parts
    <2> QED  BY <1>ClientCloses, <2>2, <2>3, <2>4 DEF ClientCloses
  <1> DEFINE Moved == \/ UNCHANGED <<inbox, owes, requests, upload, heard>>
                      \/ \E s \in Sessions : ReadHeader(s) \/ ReadBody(s) \/
                            Drain(s) \/ UploadPrepare(s) \/ UploadChunk(s) \/
                            ReadEnds(s) \/ WriteFails(s) \/ WriteEnds(s) \/
                            StopPosted(s) \/ WriteDone(s) \/ (\E k \in Kinds :
                            ClientAsks(s, k)) \/ ClientStreams(s) \/
                            ClientCloses(s)
  <1>o. Moved
    <2>server. CASE Accepts \/ StopBegins \/ Stops \/ OtherProgram
      BY <2>server DEF Accepts, Stops, AcceptBegins, AcceptAborted,
         tryStartSession, AcceptLists, AcceptFails, sessionStart, StopBegins,
         UnchangedByMain, stopAccepting, StopSessions, Wait, InterfaceShutdown,
         OtherProgram, UnchangedByPeer, heardVars, peerVars, stopVars, restVars
    <2>read. ASSUME NEW s \in Sessions, ReadSide(s) PROVE Moved
      BY <2>read DEF ReadSide, commandExec, SendDone, SendFails, FinishCommand,
         ReadFails, PublishProbe, PublishMove, PublishFails, heardVars,
         peerVars, stopVars, restVars
    <2>write. ASSUME NEW s \in Sessions, WriteSide(s) \/ StopPosted(s) PROVE Moved
      BY <2>write DEF WriteSide, WriteReceive, heardVars, peerVars, stopVars,
         restVars
    <2>peer. ASSUME NEW s \in Sessions, Peer(s) PROVE Moved
      BY <2>peer DEF Peer, ClientStalls, UnchangedByPeer, heardVars, peerVars,
         stopVars, restVars
    <2> QED  BY <2>server, <2>read, <2>write, <2>peer DEF Next
  <1> QED  BY <1>u, <1>o, <1>ReadHeader, <1>ReadBody, <1>Drain,
           <1>UploadPrepare, <1>UploadChunk, <1>ReadEnds, <1>WriteFails,
           <1>WriteEnds, <1>StopPosted, <1>WriteDone, <1>ClientAsks,
           <1>ClientStreams, <1>ClientCloses

\* The replies that readLoop makes.
LEMMA ReplyItems ==
    ASSUME LoopsOk, FlagsOk, NEW s \in Sessions
    PROVE  /\ NoItem \in Items
           /\ \A b \in BOOLEAN : Error(s, b) \in Items
           /\ \A w \in {"ok", "file", "ready", "final"}, n \in Nat :
                 Answer(s, w, n) \in Items
  <1>1. cmd[s] \in Parts \cup {"none"} /\ typed[s] \in BOOLEAN
    BY DEF LoopsOk, FlagsOk
  <1>2. NoItem \in Items
    BY DEF NoItem, Items
  <1>3. \A b \in BOOLEAN : Error(s, b) \in Items
    BY <1>1 DEF Error, Items
  <1>4. \A w \in {"ok", "file", "ready", "final"}, n \in Nat : Answer(s, w, n) \in Items
    BY <1>1 DEF Answer, Items
  <1> QED  BY <1>2, <1>3, <1>4

\* readLoop starts to send a reply.
LEMMA PipesSend ==
    ASSUME PipesOk, LoopsOk, NEW s \in Sessions, NEW it \in Items, NEW l, Send(s, it, l),
           UNCHANGED <<chan, wpc, writing>>
    PROVE  PipesOk'
  <1>1. item' \in [Sessions -> Items]
    BY DEF PipesOk, Send
  <1>2. \A t \in Sessions : rpc'[t] # "send" => item'[t] = NoItem
    BY DEF PipesOk, LoopsOk, Send
  <1> QED  BY <1>1, <1>2 DEF PipesOk

\* readLoop goes on without one.
LEMMA PipesGoto ==
    ASSUME PipesOk, LoopsOk, NEW s \in Sessions, NEW l, Goto(s, l), rpc[s] # "send",
           UNCHANGED <<chan, wpc, writing>>
    PROVE  PipesOk'
  <1>1. \A t \in Sessions : rpc'[t] # "send" => item'[t] = NoItem
    BY DEF PipesOk, LoopsOk, Goto
  <1> QED  BY <1>1 DEF PipesOk, Goto

\* A channel that is closed, or not, has only what it had.
LEMMA ChannelStops ==
    ASSUME PipesOk, NEW s \in Sessions,
           UNCHANGED chan \/ chan' = [chan EXCEPT ![s] = <<>>]
    PROVE  chan' \in [Sessions -> Seq(Items)] /\ \A t \in Sessions : Len(chan'[t]) <= Capacity
  <1>1. <<>> \in Seq(Items) /\ Len(<<>>) = 0 /\ Capacity >= 0
    BY EmptySeq, SessionsAssumption
  <1> QED  BY <1>1 DEF PipesOk

\* What the channel and the two loops hold.
LEMMA PipesStep ==
    ASSUME LoopsOk, FlagsOk, AcceptOk, PipesOk, Next
    PROVE  PipesOk'
  <1>u. ASSUME UNCHANGED <<chan, item, writing, rpc, wpc>> PROVE PipesOk'
    BY <1>u DEF PipesOk
  <1>AcceptFails. ASSUME AcceptFails PROVE PipesOk'
    <2>1. UNCHANGED <<chan, item, writing>>
      BY <1>AcceptFails DEF AcceptFails
    <2>2. born \in Sessions /\ rpc[born] = "none" /\ wpc[born] = "none"
      BY <1>AcceptFails, SessionsAssumption DEF AcceptFails, AcceptOk, Sessions
    <2>3. /\ \A t \in Sessions : rpc'[t] # "send" => rpc[t] # "send"
          /\ \A t \in Sessions : wpc'[t] # "write" => wpc[t] # "write"
      BY <1>AcceptFails, <2>2 DEF AcceptFails, LoopsOk
    <2> QED  BY <2>1, <2>3 DEF PipesOk
  <1>sessionStart. ASSUME sessionStart PROVE PipesOk'
    <2>1. UNCHANGED <<chan, item, writing>>
      BY <1>sessionStart DEF sessionStart
    <2>2. born \in Sessions /\ rpc[born] = "none" /\ wpc[born] = "none"
      BY <1>sessionStart, SessionsAssumption DEF sessionStart, AcceptOk, Sessions
    <2>3. /\ \A t \in Sessions : rpc'[t] # "send" => rpc[t] # "send"
          /\ \A t \in Sessions : wpc'[t] # "write" => wpc[t] # "write"
      BY <1>sessionStart, <2>2 DEF sessionStart, LoopsOk
    <2> QED  BY <2>1, <2>3 DEF PipesOk
  <1>ReadHeader. ASSUME NEW s \in Sessions, ReadHeader(s) PROVE PipesOk'
    <2>1. UNCHANGED <<chan, wpc, writing>> /\ rpc[s] = "header"
      BY <1>ReadHeader DEF ReadHeader, writeVars, loopVars
    <2>2. Send(s, Error(s, TRUE), "done") \/ \E l : Goto(s, l)
      BY <1>ReadHeader, HeaderOutcome
    <2> QED  BY <2>1, <2>2, ReplyItems, PipesSend, PipesGoto
  <1>ReadBody. ASSUME NEW s \in Sessions, ReadBody(s) PROVE PipesOk'
    <2>1. UNCHANGED <<chan, wpc, writing>> /\ rpc[s] = "body"
      BY <1>ReadBody DEF ReadBody, writeVars, loopVars
    <2>2. Send(s, Error(s, TRUE), "done") \/ Goto(s, "exec")
      BY <1>ReadBody DEF ReadBody, StartCommand
    <2> QED  BY <2>1, <2>2, ReplyItems, PipesSend, PipesGoto
  <1>Drain. ASSUME NEW s \in Sessions, Drain(s) PROVE PipesOk'
    <2>1. UNCHANGED <<chan, wpc, writing>> /\ rpc[s] = "drain"
      BY <1>Drain DEF Drain, writeVars, loopVars
    <2>2. Send(s, Error(s, FALSE), "loop")
      BY <1>Drain DEF Drain
    <2> QED  BY <2>1, <2>2, ReplyItems, PipesSend
  <1>commandExec. ASSUME NEW s \in Sessions, commandExec(s) PROVE PipesOk'
    <2>1. UNCHANGED <<chan, wpc, writing>> /\ rpc[s] = "exec"
      BY <1>commandExec DEF commandExec, writeVars, loopVars
    <2>2. \E it \in {Answer(s, "ok", 0), Answer(s, "file", 0), Error(s, FALSE), Error(s, TRUE)} :
             Send(s, it, "finish")
      BY <1>commandExec DEF commandExec
    <2>3. {Answer(s, "ok", 0), Answer(s, "file", 0), Error(s, FALSE), Error(s, TRUE)}
             \subseteq Items
      BY ReplyItems
    <2> QED  BY <2>1, <2>2, <2>3, PipesSend
  <1>SendDone. ASSUME NEW s \in Sessions, SendDone(s) PROVE PipesOk'
    <2>1. UNCHANGED <<wpc, writing>> /\ item[s] \in Items /\ chan[s] \in Seq(Items)
      BY <1>SendDone DEF SendDone, PipesOk
    <2>2. Append(chan[s], item[s]) \in Seq(Items) /\ Len(Append(chan[s], item[s])) <= Capacity
      BY <1>SendDone, <2>1, AppendProperties, SessionsAssumption DEF SendDone
    <2>3. chan' \in [Sessions -> Seq(Items)] /\ \A t \in Sessions : Len(chan'[t]) <= Capacity
      BY <1>SendDone, <2>2 DEF SendDone, PipesOk
    <2>4. item' \in [Sessions -> Items]
      BY <1>SendDone, ReplyItems DEF SendDone, PipesOk
    <2>5. \A t \in Sessions : rpc'[t] # "send" => item'[t] = NoItem
      BY <1>SendDone DEF SendDone, PipesOk, LoopsOk
    <2> QED  BY <2>1, <2>3, <2>4, <2>5 DEF PipesOk
  <1>SendFails. ASSUME NEW s \in Sessions, SendFails(s) PROVE PipesOk'
    <2>1. UNCHANGED <<wpc, writing, chan>>
      BY <1>SendFails DEF SendFails, writeVars, loopVars
    <2>4. item' \in [Sessions -> Items]
      BY <1>SendFails, ReplyItems DEF SendFails, PipesOk
    <2>5. \A t \in Sessions : rpc'[t] # "send" => item'[t] = NoItem
      BY <1>SendFails DEF SendFails, PipesOk, LoopsOk
    <2> QED  BY <2>1, <2>4, <2>5 DEF PipesOk
  <1>FinishCommand. ASSUME NEW s \in Sessions, FinishCommand(s) PROVE PipesOk'
    <2>1. UNCHANGED <<chan, wpc, writing>> /\ rpc[s] = "finish"
      BY <1>FinishCommand DEF FinishCommand, writeVars, loopVars
    <2>2. \E l : Goto(s, l)
      BY <1>FinishCommand DEF FinishCommand
    <2> QED  BY <2>1, <2>2, PipesGoto
  <1>ReadFails. ASSUME NEW s \in Sessions, ReadFails(s) PROVE PipesOk'
    <2>1. UNCHANGED <<chan, wpc, writing>> /\ rpc[s] # "send" /\ Goto(s, "done")
      BY <1>ReadFails DEF ReadFails, writeVars, loopVars, Reading
    <2> QED  BY <2>1, PipesGoto
  <1>ReadEnds. ASSUME NEW s \in Sessions, ReadEnds(s) PROVE PipesOk'
    <2>1. UNCHANGED <<wpc, writing, item>>
      BY <1>ReadEnds DEF ReadEnds, loopVars, Goto
    <2>2. UNCHANGED chan \/ chan' = [chan EXCEPT ![s] = <<>>]
      BY <1>ReadEnds DEF ReadEnds, stopOnExecutor, Closed, stopVars
    <2>3. \A t \in Sessions : rpc'[t] # "send" => rpc[t] # "send"
      BY <1>ReadEnds DEF ReadEnds, Goto, LoopsOk
    <2> QED  BY <2>1, <2>2, <2>3, ChannelStops DEF PipesOk
  <1>UploadPrepare. ASSUME NEW s \in Sessions, UploadPrepare(s) PROVE PipesOk'
    <2>1. UNCHANGED <<chan, wpc, writing>> /\ rpc[s] = "meta"
      BY <1>UploadPrepare DEF UploadPrepare, writeVars, loopVars
    <2>2. \E it \in {Answer(s, "ready", 0), Error(s, FALSE)} : \E l : Send(s, it, l)
      BY <1>UploadPrepare DEF UploadPrepare
    <2>3. {Answer(s, "ready", 0), Error(s, FALSE)} \subseteq Items
      BY ReplyItems
    <2> QED  BY <2>1, <2>2, <2>3, PipesSend
  <1>UploadChunk. ASSUME NEW s \in Sessions, UploadChunk(s) PROVE PipesOk'
    <2>1. UNCHANGED <<chan, wpc, writing>> /\ rpc[s] = "chunk"
      BY <1>UploadChunk DEF UploadChunk, writeVars, loopVars
    <2>2. \E l : Goto(s, l)
      BY <1>UploadChunk DEF UploadChunk
    <2> QED  BY <2>1, <2>2, PipesGoto
  <1>PublishProbe. ASSUME NEW s \in Sessions, PublishProbe(s) PROVE PipesOk'
    <2>1. UNCHANGED <<chan, wpc, writing>> /\ rpc[s] = "probe"
      BY <1>PublishProbe DEF PublishProbe, writeVars, loopVars
    <2>2. Goto(s, "move") \/ UNCHANGED <<rpc, item>>
      BY <1>PublishProbe DEF PublishProbe
    <2>3. CASE UNCHANGED <<rpc, item>>
      BY <2>1, <2>3 DEF PipesOk
    <2> QED  BY <2>1, <2>2, <2>3, PipesGoto
  <1>PublishMove. ASSUME NEW s \in Sessions, PublishMove(s) PROVE PipesOk'
    <2>1. UNCHANGED <<chan, wpc, writing>> /\ rpc[s] = "move"
      BY <1>PublishMove DEF PublishMove, writeVars, loopVars
    <2>2. Send(s, Answer(s, "final", tried[s]), "finish") \/ Goto(s, "probe")
      BY <1>PublishMove DEF PublishMove
    <2>3. tried[s] \in Nat
      BY DEF LoopsOk
    <2> QED  BY <2>1, <2>2, <2>3, ReplyItems, PipesSend, PipesGoto
  <1>PublishFails. ASSUME NEW s \in Sessions, PublishFails(s) PROVE PipesOk'
    <2>1. UNCHANGED <<chan, wpc, writing>> /\ Send(s, Error(s, FALSE), "finish")
      BY <1>PublishFails DEF PublishFails, writeVars, loopVars
    <2> QED  BY <2>1, ReplyItems, PipesSend
  <1>WriteReceive. ASSUME NEW s \in Sessions, WriteReceive(s) PROVE PipesOk'
    <2>1. UNCHANGED <<rpc, item>> /\ wpc[s] = "receive"
      BY <1>WriteReceive DEF WriteReceive, readVars
    <2>2. CASE WriteGoto(s, "done") /\ UNCHANGED <<chan, writing>>
      <3>1. \A t \in Sessions : wpc'[t] # "write" => wpc[t] # "write"
        BY <2>1, <2>2 DEF WriteGoto, LoopsOk
      <3> QED  BY <2>1, <2>2, <3>1 DEF PipesOk
    <2>3. CASE /\ chan[s] # <<>> /\ chan' = [chan EXCEPT ![s] = Tail(@)]
               /\ writing' = [writing EXCEPT ![s] = Head(chan[s])]
               /\ WriteGoto(s, "write")
      <3>1. chan[s] \in Seq(Items) /\ Len(chan[s]) \in Nat /\ Capacity \in Nat
        BY LenProperties, SessionsAssumption DEF PipesOk
      <3>2. Head(chan[s]) \in Items /\ Tail(chan[s]) \in Seq(Items)
        BY <2>3, <3>1, HeadTailProperties
      <3>3. Len(Tail(chan[s])) = Len(chan[s]) - 1
        BY <2>3, <3>1, HeadTailProperties
      <3>4. chan' \in [Sessions -> Seq(Items)]
        BY <2>3, <3>2 DEF PipesOk
      <3>5. \A t \in Sessions : Len(chan'[t]) <= Capacity
        BY <2>3, <3>1, <3>3 DEF PipesOk
      <3>6. writing' \in [Sessions -> Items]
        BY <2>3, <3>2 DEF PipesOk
      <3>7. \A t \in Sessions : wpc'[t] # "write" => writing'[t] = NoItem
        BY <2>3 DEF WriteGoto, LoopsOk, PipesOk
      <3> QED  BY <2>1, <3>4, <3>5, <3>6, <3>7 DEF PipesOk
    <2> QED  BY <1>WriteReceive, <2>2, <2>3 DEF WriteReceive
  <1>WriteDone. ASSUME NEW s \in Sessions, WriteDone(s) PROVE PipesOk'
    <2>1. UNCHANGED <<rpc, item>> /\ writing' = [writing EXCEPT ![s] = NoItem]
      BY <1>WriteDone DEF WriteDone, readVars
    <2>2. UNCHANGED chan \/ chan' = [chan EXCEPT ![s] = <<>>]
      BY <1>WriteDone DEF WriteDone, stopOnExecutor, Closed, stopVars
    <2>3. writing' \in [Sessions -> Items]
      BY <2>1, ReplyItems DEF PipesOk
    <2>4. \A t \in Sessions : wpc'[t] # "write" => writing'[t] = NoItem
      BY <1>WriteDone, <2>1 DEF WriteDone, WriteGoto, LoopsOk, PipesOk
    <2> QED  BY <2>1, <2>2, <2>3, <2>4, ChannelStops DEF PipesOk
  <1>WriteFails. ASSUME NEW s \in Sessions, WriteFails(s) PROVE PipesOk'
    <2>1. UNCHANGED <<rpc, item>> /\ writing' = [writing EXCEPT ![s] = NoItem]
      BY <1>WriteFails DEF WriteFails, readVars
    <2>2. UNCHANGED chan \/ chan' = [chan EXCEPT ![s] = <<>>]
      BY <1>WriteFails DEF WriteFails, stopOnExecutor, Closed, stopVars
    <2>3. writing' \in [Sessions -> Items]
      BY <2>1, ReplyItems DEF PipesOk
    <2>4. \A t \in Sessions : wpc'[t] # "write" => writing'[t] = NoItem
      BY <1>WriteFails, <2>1 DEF WriteFails, WriteGoto, LoopsOk, PipesOk
    <2> QED  BY <2>1, <2>2, <2>3, <2>4, ChannelStops DEF PipesOk
  <1>WriteEnds. ASSUME NEW s \in Sessions, WriteEnds(s) PROVE PipesOk'
    <2>1. UNCHANGED <<rpc, item, writing>>
      BY <1>WriteEnds DEF WriteEnds, readVars
    <2>2. UNCHANGED chan \/ chan' = [chan EXCEPT ![s] = <<>>]
      BY <1>WriteEnds DEF WriteEnds, stopOnExecutor, Closed, stopVars
    <2>4. \A t \in Sessions : wpc'[t] # "write" => wpc[t] # "write"
      BY <1>WriteEnds, <2>1 DEF WriteEnds, WriteGoto, LoopsOk
    <2> QED  BY <2>1, <2>2, <2>4, ChannelStops DEF PipesOk
  <1>StopPosted. ASSUME NEW s \in Sessions, StopPosted(s) PROVE PipesOk'
    <2>1. UNCHANGED <<rpc, item, writing, wpc>>
      BY <1>StopPosted DEF StopPosted, readVars, loopVars
    <2>2. UNCHANGED chan \/ chan' = [chan EXCEPT ![s] = <<>>]
      BY <1>StopPosted DEF StopPosted, stopOnExecutor, Closed, stopVars
    <2> QED  BY <2>1, <2>2, ChannelStops DEF PipesOk
  <1> DEFINE Moved == \/ UNCHANGED <<chan, item, writing, rpc, wpc>>
                      \/ AcceptFails \/ sessionStart
                      \/ \E s \in Sessions : ReadHeader(s) \/ ReadBody(s) \/
                            Drain(s) \/ commandExec(s) \/ SendDone(s) \/
                            SendFails(s) \/ FinishCommand(s) \/ ReadFails(s) \/
                            ReadEnds(s) \/ UploadPrepare(s) \/ UploadChunk(s) \/
                            PublishProbe(s) \/ PublishMove(s) \/ PublishFails(s)
                            \/ WriteReceive(s) \/ WriteDone(s) \/ WriteFails(s)
                            \/ WriteEnds(s) \/ StopPosted(s)
  <1>o. Moved
    <2>server. CASE Accepts \/ StopBegins \/ Stops \/ OtherProgram
      BY <2>server DEF Accepts, Stops, AcceptBegins, AcceptAborted,
         tryStartSession, AcceptLists, StopBegins, UnchangedByMain,
         stopAccepting, StopSessions, Wait, InterfaceShutdown, OtherProgram,
         UnchangedByPeer, readVars, loopVars, writeVars, stopVars
    <2>read. ASSUME NEW s \in Sessions, ReadSide(s) PROVE Moved
      BY <2>read DEF ReadSide, readVars, loopVars, writeVars, stopVars
    <2>write. ASSUME NEW s \in Sessions, WriteSide(s) \/ StopPosted(s) PROVE Moved
      BY <2>write DEF WriteSide, readVars, loopVars, writeVars, stopVars
    <2>peer. ASSUME NEW s \in Sessions, Peer(s) PROVE Moved
      BY <2>peer DEF Peer, ClientAsks, UnchangedByPeer, ClientStreams,
         ClientCloses, ClientStalls, readVars, loopVars, writeVars, stopVars
    <2> QED  BY <2>server, <2>read, <2>write, <2>peer DEF Next
  <1> QED  BY <1>u, <1>o, <1>AcceptFails, <1>sessionStart, <1>ReadHeader,
           <1>ReadBody, <1>Drain, <1>commandExec, <1>SendDone, <1>SendFails,
           <1>FinishCommand, <1>ReadFails, <1>ReadEnds, <1>UploadPrepare,
           <1>UploadChunk, <1>PublishProbe, <1>PublishMove, <1>PublishFails,
           <1>WriteReceive, <1>WriteDone, <1>WriteFails, <1>WriteEnds,
           <1>StopPosted

\* The flags of a session, and the client.
LEMMA FlagsStep ==
    ASSUME FlagsOk, PipesOk, Next
    PROVE  FlagsOk'
  <1>u. ASSUME UNCHANGED <<stopped, authed, typed, terminal, client, faults>> PROVE FlagsOk'
    BY <1>u DEF FlagsOk
  <1>AcceptFails. ASSUME AcceptFails PROVE FlagsOk'
    <2>1. UNCHANGED <<authed, typed, terminal, client>>
      BY <1>AcceptFails DEF AcceptFails, flagVars, peerVars
    <2>2. faults' \in 0 .. MaxFaults
      BY <1>AcceptFails, SessionsAssumption DEF AcceptFails, FlagsOk
    <2> QED  BY <1>AcceptFails, <2>1, <2>2 DEF AcceptFails, FlagsOk
  <1>sessionStart. ASSUME sessionStart PROVE FlagsOk'
    BY <1>sessionStart DEF sessionStart, flagVars, peerVars, stopVars, restVars,
       FlagsOk
  <1>OtherProgram. ASSUME OtherProgram PROVE FlagsOk'
    BY <1>OtherProgram, SessionsAssumption DEF OtherProgram, flagVars, peerVars,
       stopVars, restVars, FlagsOk, UnchangedByPeer
  <1>commandExec. ASSUME NEW s \in Sessions, commandExec(s) PROVE FlagsOk'
    <2>1. UNCHANGED <<stopped, typed, terminal, client>>
      BY <1>commandExec DEF commandExec, peerVars
    <2>2. UNCHANGED faults \/ (faults < MaxFaults /\ faults' = faults + 1)
      BY <1>commandExec DEF commandExec
    <2>3. authed' \in [Sessions -> BOOLEAN]
      BY <1>commandExec DEF commandExec, FlagsOk
    <2> QED  BY <2>1, <2>2, <2>3, SessionsAssumption DEF FlagsOk
  <1>SendDone. ASSUME NEW s \in Sessions, SendDone(s) PROVE FlagsOk'
    <2>1. UNCHANGED <<stopped, authed, client, faults>>
      BY <1>SendDone DEF SendDone, peerVars
    <2>2. item[s].close \in BOOLEAN /\ (item[s].cmd = "negotiate") \in BOOLEAN
      BY DEF PipesOk, Items
    <2>3. typed' \in [Sessions -> BOOLEAN]
      BY <1>SendDone, <2>2 DEF SendDone, FlagsOk
    <2>4. terminal' \in [Sessions -> BOOLEAN]
      BY <1>SendDone, <2>2 DEF SendDone, FlagsOk
    <2> QED  BY <2>1, <2>3, <2>4 DEF FlagsOk
  <1>UploadPrepare. ASSUME NEW s \in Sessions, UploadPrepare(s) PROVE FlagsOk'
    <2>1. UNCHANGED <<stopped, authed, typed, terminal, client>>
      BY <1>UploadPrepare DEF UploadPrepare, Take, flagVars, restVars
    <2>2. UNCHANGED faults \/ (faults < MaxFaults /\ faults' = faults + 1)
      BY <1>UploadPrepare DEF UploadPrepare
    <2> QED  BY <2>1, <2>2, SessionsAssumption DEF FlagsOk
  <1>UploadChunk. ASSUME NEW s \in Sessions, UploadChunk(s) PROVE FlagsOk'
    BY <1>UploadChunk, SessionsAssumption DEF UploadChunk, flagVars, peerVars,
       stopVars, restVars, FlagsOk, Take
  <1>PublishFails. ASSUME NEW s \in Sessions, PublishFails(s) PROVE FlagsOk'
    BY <1>PublishFails, SessionsAssumption DEF PublishFails, flagVars, peerVars,
       stopVars, restVars, FlagsOk
  <1>ReadEnds. ASSUME NEW s \in Sessions, ReadEnds(s) PROVE FlagsOk'
    BY <1>ReadEnds DEF ReadEnds, flagVars, peerVars, stopVars, restVars,
       FlagsOk, stopOnExecutor, Closed
  <1>WriteDone. ASSUME NEW s \in Sessions, WriteDone(s) PROVE FlagsOk'
    BY <1>WriteDone DEF WriteDone, flagVars, peerVars, stopVars, restVars,
       FlagsOk, stopOnExecutor, Closed
  <1>WriteEnds. ASSUME NEW s \in Sessions, WriteEnds(s) PROVE FlagsOk'
    BY <1>WriteEnds DEF WriteEnds, flagVars, peerVars, stopVars, restVars,
       FlagsOk, stopOnExecutor, Closed
  <1>StopPosted. ASSUME NEW s \in Sessions, StopPosted(s) PROVE FlagsOk'
    BY <1>StopPosted DEF StopPosted, flagVars, peerVars, stopVars, restVars,
       FlagsOk, stopOnExecutor, Closed
  <1>WriteFails. ASSUME NEW s \in Sessions, WriteFails(s) PROVE FlagsOk'
    <2>1. UNCHANGED <<authed, typed, terminal, client>>
      BY <1>WriteFails DEF WriteFails, flagVars, restVars
    <2>2. UNCHANGED faults \/ (faults < MaxFaults /\ faults' = faults + 1)
      BY <1>WriteFails DEF WriteFails
    <2>3. UNCHANGED stopped \/ stopped' = [stopped EXCEPT ![s] = TRUE]
      BY <1>WriteFails DEF WriteFails, stopOnExecutor, Closed, stopVars
    <2>4. faults' \in 0 .. MaxFaults
      BY <2>2, SessionsAssumption DEF FlagsOk
    <2>5. stopped' \in [Sessions -> BOOLEAN]
      BY <2>3 DEF FlagsOk
    <2> QED  BY <2>1, <2>4, <2>5 DEF FlagsOk
  <1>ClientCloses. ASSUME NEW s \in Sessions, ClientCloses(s) PROVE FlagsOk'
    BY <1>ClientCloses DEF ClientCloses, flagVars, peerVars, stopVars, restVars,
       FlagsOk, UnchangedByPeer
  <1>ClientStalls. ASSUME NEW s \in Sessions, ClientStalls(s) PROVE FlagsOk'
    BY <1>ClientStalls DEF ClientStalls, flagVars, peerVars, stopVars, restVars,
       FlagsOk, UnchangedByPeer
  <1> DEFINE Moved == \/ UNCHANGED <<stopped, authed, typed, terminal, client,
                            faults>>
                      \/ AcceptFails \/ sessionStart \/ OtherProgram
                      \/ \E s \in Sessions : commandExec(s) \/ SendDone(s) \/
                            UploadPrepare(s) \/ UploadChunk(s) \/
                            PublishFails(s) \/ ReadEnds(s) \/ WriteDone(s) \/
                            WriteEnds(s) \/ StopPosted(s) \/ WriteFails(s) \/
                            ClientCloses(s) \/ ClientStalls(s)
  <1>o. Moved
    <2>server. CASE Accepts \/ StopBegins \/ Stops \/ OtherProgram
      BY <2>server DEF Accepts, Stops, AcceptBegins, AcceptAborted,
         tryStartSession, AcceptLists, StopBegins, UnchangedByMain,
         stopAccepting, StopSessions, Wait, InterfaceShutdown, flagVars,
         peerVars, stopVars, restVars
    <2>read. ASSUME NEW s \in Sessions, ReadSide(s) PROVE Moved
      BY <2>read DEF ReadSide, ReadHeader, Take, ReadBody, Drain, SendFails,
         FinishCommand, ReadFails, PublishProbe, PublishMove, flagVars,
         peerVars, stopVars, restVars
    <2>write. ASSUME NEW s \in Sessions, WriteSide(s) \/ StopPosted(s) PROVE Moved
      BY <2>write DEF WriteSide, WriteReceive, flagVars, peerVars, stopVars,
         restVars
    <2>peer. ASSUME NEW s \in Sessions, Peer(s) PROVE Moved
      BY <2>peer DEF Peer, ClientAsks, UnchangedByPeer, ClientStreams, flagVars,
         peerVars, stopVars, restVars
    <2> QED  BY <2>server, <2>read, <2>write, <2>peer DEF Next
  <1> QED  BY <1>u, <1>o, <1>AcceptFails, <1>sessionStart, <1>OtherProgram,
           <1>commandExec, <1>SendDone, <1>UploadPrepare, <1>UploadChunk,
           <1>PublishFails, <1>ReadEnds, <1>WriteDone, <1>WriteEnds,
           <1>StopPosted, <1>WriteFails, <1>ClientCloses, <1>ClientStalls

\* A step of a session that is started, or that is stopped once it is listed.
LEMMA SessionMoves ==
    ASSUME AcceptOk, LoopsOk, FlagsOk, NEW s \in Sessions,
           UNCHANGED <<accept, born, listed, late>>, posted' \subseteq posted,
           \A t \in Sessions \ {s} : /\ rpc'[t] = rpc[t] /\ wpc'[t] = wpc[t]
                                     /\ client'[t] = client[t] /\ stopped'[t] = stopped[t],
           \/ rpc[s] # "none" \/ wpc[s] # "none" \/ client[s] # "none"
           \/ UNCHANGED <<rpc, wpc, client>> /\ s \in posted
    PROVE  AcceptOk'
  <1>1. /\ accept' \in {"armed", "checked", "counted", "listed", "off"}
        /\ born' \in 0 .. MaxSessions
        /\ listed' \subseteq 1 .. born' /\ posted' \subseteq 1 .. born'
        /\ late' \subseteq 1 .. born'
        /\ (accept = "checked" => born < MaxSessions)'
        /\ (accept \in {"counted", "listed"} => born > 0)'
    BY DEF AcceptOk
  <1>2. ASSUME NEW t \in Sessions, t > born \/ (t = born /\ accept \in {"counted", "listed"})
        PROVE  rpc'[t] = "none" /\ wpc'[t] = "none" /\ client'[t] = "none"
    BY <1>2 DEF AcceptOk
  <1>3. ASSUME NEW t \in Sessions, t > born \/ (t = born /\ accept = "counted")
        PROVE  ~stopped'[t] /\ t \notin listed' \cup posted'
    <2>1. t # s
      BY <1>3 DEF AcceptOk
    <2> QED  BY <1>3, <2>1 DEF AcceptOk
  <1> QED  BY <1>1, <1>2, <1>3 DEF AcceptOk

\* The acceptor.
LEMMA AcceptStep ==
    ASSUME LoopsOk, FlagsOk, AcceptOk, Next
    PROVE  AcceptOk'
  <1>u. ASSUME UNCHANGED <<accept, born, listed, posted, late, rpc, wpc, client, stopped>> PROVE AcceptOk'
    BY <1>u DEF AcceptOk
  <1>AcceptBegins. ASSUME AcceptBegins PROVE AcceptOk'
    BY <1>AcceptBegins, SessionsAssumption DEF AcceptBegins, serverVars,
       acceptVars, readVars, loopVars, writeVars, peerVars, stopVars, restVars,
       AcceptOk
  <1>AcceptAborted. ASSUME AcceptAborted PROVE AcceptOk'
    BY <1>AcceptAborted, SessionsAssumption DEF AcceptAborted, serverVars,
       acceptVars, readVars, loopVars, writeVars, peerVars, stopVars, restVars,
       AcceptOk
  <1>tryStartSession. ASSUME tryStartSession PROVE AcceptOk'
    <2>1. UNCHANGED <<listed, late, posted, rpc, wpc, client, stopped>>
      BY <1>tryStartSession DEF tryStartSession, serverVars, readVars, writeVars, loopVars, peerVars
    <2>2. \/ accept' = Rearmed /\ born' = born
          \/ accept' = "counted" /\ born' = born + 1
      BY <1>tryStartSession DEF tryStartSession
    <2>3. accept = "checked" /\ born \in Nat /\ born < MaxSessions
      BY <1>tryStartSession, SessionsAssumption DEF tryStartSession, AcceptOk
    <2> QED  BY <2>1, <2>2, <2>3, SessionsAssumption DEF AcceptOk, Rearmed, Sessions
  <1>AcceptLists. ASSUME AcceptLists PROVE AcceptOk'
    <2>1. UNCHANGED <<posted, born, rpc, wpc, client, stopped>>
      BY <1>AcceptLists DEF AcceptLists, readVars, writeVars, loopVars, peerVars
    <2>2. accept = "counted" /\ accept' = "listed" /\ listed' = listed \cup {born}
      BY <1>AcceptLists DEF AcceptLists
    <2>3. late' \in {late, late \cup {born}}
      BY <1>AcceptLists DEF AcceptLists
    <2>4. born \in 1 .. born
      BY <2>2, SessionsAssumption DEF AcceptOk
    <2> QED  BY <2>1, <2>2, <2>3, <2>4, SessionsAssumption DEF AcceptOk, Sessions
  <1>AcceptFails. ASSUME AcceptFails PROVE AcceptOk'
    <2>1. UNCHANGED <<listed, late, posted, born, client>> /\ accept' \in {"off", "armed"}
      BY <1>AcceptFails DEF AcceptFails, serverVars, peerVars, Rearmed
    <2>2. \A t \in Sessions \ {born} : /\ rpc'[t] = rpc[t] /\ wpc'[t] = wpc[t]
                                        /\ stopped'[t] = stopped[t]
      BY <1>AcceptFails DEF AcceptFails, LoopsOk, FlagsOk
    <2> QED  BY <2>1, <2>2, SessionsAssumption DEF AcceptOk, Sessions
  <1>sessionStart. ASSUME sessionStart PROVE AcceptOk'
    <2>1. UNCHANGED <<listed, late, posted, born, stopped>> /\ accept' \in {"off", "armed"}
      BY <1>sessionStart DEF sessionStart, serverVars, Rearmed
    <2>2. \A t \in Sessions \ {born} : /\ rpc'[t] = rpc[t] /\ wpc'[t] = wpc[t]
                                        /\ client'[t] = client[t]
      BY <1>sessionStart DEF sessionStart, LoopsOk, FlagsOk
    <2> QED  BY <2>1, <2>2, SessionsAssumption DEF AcceptOk, Sessions
  <1>StopSessions. ASSUME StopSessions PROVE AcceptOk'
    <2>1. UNCHANGED <<late, born, accept, rpc, wpc, client, stopped>>
      BY <1>StopSessions DEF StopSessions, UnchangedByMain, acceptVars, readVars, writeVars,
         loopVars, peerVars
    <2>2. posted' = posted \cup listed /\ listed' = {}
      BY <1>StopSessions DEF StopSessions
    <2> QED  BY <2>1, <2>2 DEF AcceptOk
  <1>ReadHeader. ASSUME NEW s \in Sessions, ReadHeader(s) PROVE AcceptOk'
    <2>1. UNCHANGED <<accept, born, listed, late, posted, wpc, client, stopped>>
      BY <1>ReadHeader DEF ReadHeader, Take, serverVars, acceptVars, writeVars, loopVars, restVars
    <2>2. rpc[s] # "none" /\ \E l : rpc' = [rpc EXCEPT ![s] = l]
      BY <1>ReadHeader, HeaderOutcome DEF Send, Goto
    <2>3. \A t \in Sessions \ {s} : rpc'[t] = rpc[t]
      BY <2>2 DEF LoopsOk
    <2> QED  BY <2>1, <2>2, <2>3, SessionMoves
  <1>ReadBody. ASSUME NEW s \in Sessions, ReadBody(s) PROVE AcceptOk'
    <2>1. /\ UNCHANGED <<accept, born, listed, late, posted, wpc, client>> /\ rpc[s] # "none"
          /\ \A t \in Sessions \ {s} : rpc'[t] = rpc[t]
          /\ \A t \in Sessions \ {s} : stopped'[t] = stopped[t]
      BY <1>ReadBody DEF ReadBody, serverVars, acceptVars, writeVars, loopVars, peerVars, Take, restVars, StartCommand, Send, Goto, LoopsOk, FlagsOk
    <2> QED  BY <2>1, SessionMoves
  <1>Drain. ASSUME NEW s \in Sessions, Drain(s) PROVE AcceptOk'
    <2>1. /\ UNCHANGED <<accept, born, listed, late, posted, wpc, client>> /\ rpc[s] # "none"
          /\ \A t \in Sessions \ {s} : rpc'[t] = rpc[t]
          /\ \A t \in Sessions \ {s} : stopped'[t] = stopped[t]
      BY <1>Drain DEF Drain, serverVars, acceptVars, writeVars, loopVars, peerVars, Take, restVars, Send, LoopsOk, FlagsOk
    <2> QED  BY <2>1, SessionMoves
  <1>commandExec. ASSUME NEW s \in Sessions, commandExec(s) PROVE AcceptOk'
    <2>1. /\ UNCHANGED <<accept, born, listed, late, posted, wpc, client>> /\ rpc[s] # "none"
          /\ \A t \in Sessions \ {s} : rpc'[t] = rpc[t]
          /\ \A t \in Sessions \ {s} : stopped'[t] = stopped[t]
      BY <1>commandExec DEF commandExec, serverVars, acceptVars, writeVars, loopVars, peerVars, Send, LoopsOk, FlagsOk
    <2> QED  BY <2>1, SessionMoves
  <1>SendDone. ASSUME NEW s \in Sessions, SendDone(s) PROVE AcceptOk'
    <2>1. /\ UNCHANGED <<accept, born, listed, late, posted, wpc, client>> /\ rpc[s] # "none"
          /\ \A t \in Sessions \ {s} : rpc'[t] = rpc[t]
          /\ \A t \in Sessions \ {s} : stopped'[t] = stopped[t]
      BY <1>SendDone DEF SendDone, serverVars, acceptVars, writeVars, loopVars, peerVars, LoopsOk, FlagsOk
    <2> QED  BY <2>1, SessionMoves
  <1>SendFails. ASSUME NEW s \in Sessions, SendFails(s) PROVE AcceptOk'
    <2>1. /\ UNCHANGED <<accept, born, listed, late, posted, wpc, client>> /\ rpc[s] # "none"
          /\ \A t \in Sessions \ {s} : rpc'[t] = rpc[t]
          /\ \A t \in Sessions \ {s} : stopped'[t] = stopped[t]
      BY <1>SendFails DEF SendFails, serverVars, acceptVars, writeVars, loopVars, peerVars, LoopsOk, FlagsOk
    <2> QED  BY <2>1, SessionMoves
  <1>FinishCommand. ASSUME NEW s \in Sessions, FinishCommand(s) PROVE AcceptOk'
    <2>1. /\ UNCHANGED <<accept, born, listed, late, posted, wpc, client>> /\ rpc[s] # "none"
          /\ \A t \in Sessions \ {s} : rpc'[t] = rpc[t]
          /\ \A t \in Sessions \ {s} : stopped'[t] = stopped[t]
      BY <1>FinishCommand DEF FinishCommand, serverVars, acceptVars, writeVars, loopVars, peerVars, Goto, LoopsOk, FlagsOk
    <2> QED  BY <2>1, SessionMoves
  <1>ReadFails. ASSUME NEW s \in Sessions, ReadFails(s) PROVE AcceptOk'
    <2>1. /\ UNCHANGED <<accept, born, listed, late, posted, wpc, client>> /\ rpc[s] # "none"
          /\ \A t \in Sessions \ {s} : rpc'[t] = rpc[t]
          /\ \A t \in Sessions \ {s} : stopped'[t] = stopped[t]
      BY <1>ReadFails DEF ReadFails, serverVars, acceptVars, writeVars, loopVars, peerVars, Goto, Reading, LoopsOk, FlagsOk
    <2> QED  BY <2>1, SessionMoves
  <1>ReadEnds. ASSUME NEW s \in Sessions, ReadEnds(s) PROVE AcceptOk'
    <2>1. /\ UNCHANGED <<accept, born, listed, late, posted, wpc, client>> /\ rpc[s] # "none"
          /\ \A t \in Sessions \ {s} : rpc'[t] = rpc[t]
          /\ \A t \in Sessions \ {s} : stopped'[t] = stopped[t]
      BY <1>ReadEnds DEF ReadEnds, serverVars, acceptVars, writeVars, loopVars, peerVars, Goto, restVars, stopOnExecutor, Closed, stopVars, LoopsOk, FlagsOk
    <2> QED  BY <2>1, SessionMoves
  <1>UploadPrepare. ASSUME NEW s \in Sessions, UploadPrepare(s) PROVE AcceptOk'
    <2>1. /\ UNCHANGED <<accept, born, listed, late, posted, wpc, client>> /\ rpc[s] # "none"
          /\ \E l : rpc' = [rpc EXCEPT ![s] = l]
          /\ \A t \in Sessions \ {s} : stopped'[t] = stopped[t]
      BY <1>UploadPrepare DEF UploadPrepare, serverVars, acceptVars, writeVars, loopVars, peerVars, Take, restVars, Send, LoopsOk, FlagsOk
    <2>2. \A t \in Sessions \ {s} : rpc'[t] = rpc[t]
      BY <2>1 DEF LoopsOk
    <2> QED  BY <2>1, <2>2, SessionMoves
  <1>UploadChunk. ASSUME NEW s \in Sessions, UploadChunk(s) PROVE AcceptOk'
    <2>1. /\ UNCHANGED <<accept, born, listed, late, posted, wpc, client>> /\ rpc[s] # "none"
          /\ \A t \in Sessions \ {s} : rpc'[t] = rpc[t]
          /\ \A t \in Sessions \ {s} : stopped'[t] = stopped[t]
      BY <1>UploadChunk DEF UploadChunk, serverVars, acceptVars, writeVars, loopVars, peerVars, Take, restVars, Goto, LoopsOk, FlagsOk
    <2> QED  BY <2>1, SessionMoves
  <1>PublishProbe. ASSUME NEW s \in Sessions, PublishProbe(s) PROVE AcceptOk'
    <2>1. /\ UNCHANGED <<accept, born, listed, late, posted, wpc, client>> /\ rpc[s] # "none"
          /\ \A t \in Sessions \ {s} : rpc'[t] = rpc[t]
          /\ \A t \in Sessions \ {s} : stopped'[t] = stopped[t]
      BY <1>PublishProbe DEF PublishProbe, serverVars, acceptVars, writeVars, loopVars, peerVars, Goto, LoopsOk, FlagsOk
    <2> QED  BY <2>1, SessionMoves
  <1>PublishMove. ASSUME NEW s \in Sessions, PublishMove(s) PROVE AcceptOk'
    <2>1. /\ UNCHANGED <<accept, born, listed, late, posted, wpc, client>> /\ rpc[s] # "none"
          /\ \A t \in Sessions \ {s} : rpc'[t] = rpc[t]
          /\ \A t \in Sessions \ {s} : stopped'[t] = stopped[t]
      BY <1>PublishMove DEF PublishMove, serverVars, acceptVars, writeVars, loopVars, peerVars, Goto, Send, LoopsOk, FlagsOk
    <2> QED  BY <2>1, SessionMoves
  <1>PublishFails. ASSUME NEW s \in Sessions, PublishFails(s) PROVE AcceptOk'
    <2>1. /\ UNCHANGED <<accept, born, listed, late, posted, wpc, client>> /\ rpc[s] # "none"
          /\ \A t \in Sessions \ {s} : rpc'[t] = rpc[t]
          /\ \A t \in Sessions \ {s} : stopped'[t] = stopped[t]
      BY <1>PublishFails DEF PublishFails, serverVars, acceptVars, writeVars, loopVars, peerVars, Send, LoopsOk, FlagsOk
    <2> QED  BY <2>1, SessionMoves
  <1>WriteReceive. ASSUME NEW s \in Sessions, WriteReceive(s) PROVE AcceptOk'
    <2>1. UNCHANGED <<accept, born, listed, late, posted, rpc, client>> /\ wpc[s] # "none"
      BY <1>WriteReceive DEF WriteReceive, serverVars, acceptVars, readVars, peerVars, restVars
    <2>2. /\ \A t \in Sessions \ {s} : wpc'[t] = wpc[t]
          /\ \A t \in Sessions \ {s} : stopped'[t] = stopped[t]
      BY <1>WriteReceive DEF WriteReceive, WriteGoto, stopOnExecutor, Closed, stopVars, LoopsOk, FlagsOk
    <2> QED  BY <2>1, <2>2, SessionMoves
  <1>WriteDone. ASSUME NEW s \in Sessions, WriteDone(s) PROVE AcceptOk'
    <2>1. UNCHANGED <<accept, born, listed, late, posted, rpc, client>> /\ wpc[s] # "none"
      BY <1>WriteDone DEF WriteDone, serverVars, acceptVars, readVars, peerVars, restVars
    <2>2. /\ \A t \in Sessions \ {s} : wpc'[t] = wpc[t]
          /\ \A t \in Sessions \ {s} : stopped'[t] = stopped[t]
      BY <1>WriteDone DEF WriteDone, WriteGoto, stopOnExecutor, Closed, stopVars, LoopsOk, FlagsOk
    <2> QED  BY <2>1, <2>2, SessionMoves
  <1>WriteFails. ASSUME NEW s \in Sessions, WriteFails(s) PROVE AcceptOk'
    <2>1. UNCHANGED <<accept, born, listed, late, posted, rpc, client>> /\ wpc[s] # "none"
      BY <1>WriteFails DEF WriteFails, serverVars, acceptVars, readVars, peerVars, restVars
    <2>2. /\ \A t \in Sessions \ {s} : wpc'[t] = wpc[t]
          /\ \A t \in Sessions \ {s} : stopped'[t] = stopped[t]
      BY <1>WriteFails DEF WriteFails, WriteGoto, stopOnExecutor, Closed, stopVars, LoopsOk, FlagsOk
    <2> QED  BY <2>1, <2>2, SessionMoves
  <1>WriteEnds. ASSUME NEW s \in Sessions, WriteEnds(s) PROVE AcceptOk'
    <2>1. UNCHANGED <<accept, born, listed, late, posted, rpc, client>> /\ wpc[s] # "none"
      BY <1>WriteEnds DEF WriteEnds, serverVars, acceptVars, readVars, peerVars, restVars
    <2>2. /\ \A t \in Sessions \ {s} : wpc'[t] = wpc[t]
          /\ \A t \in Sessions \ {s} : stopped'[t] = stopped[t]
      BY <1>WriteEnds DEF WriteEnds, WriteGoto, stopOnExecutor, Closed, stopVars, LoopsOk, FlagsOk
    <2> QED  BY <2>1, <2>2, SessionMoves
  <1>StopPosted. ASSUME NEW s \in Sessions, StopPosted(s) PROVE AcceptOk'
    <2>1. /\ UNCHANGED <<accept, born, listed, late, rpc, wpc, client>>
          /\ s \in posted /\ posted' \subseteq posted
      BY <1>StopPosted DEF StopPosted, acceptVars, readVars, loopVars, restVars
    <2>2. \A t \in Sessions \ {s} : stopped'[t] = stopped[t]
      BY <1>StopPosted DEF StopPosted, stopOnExecutor, Closed, stopVars, FlagsOk
    <2> QED  BY <2>1, <2>2, SessionMoves
  <1>ClientCloses. ASSUME NEW s \in Sessions, ClientCloses(s) PROVE AcceptOk'
    <2>1. UNCHANGED <<accept, born, listed, late, posted, rpc, wpc, stopped>> /\ client[s] # "none"
      BY <1>ClientCloses DEF ClientCloses, Connected, UnchangedByPeer, serverVars, acceptVars, readVars, writeVars,
         loopVars
    <2>2. \A t \in Sessions \ {s} : client'[t] = client[t]
      BY <1>ClientCloses DEF ClientCloses, FlagsOk
    <2> QED  BY <2>1, <2>2, SessionMoves
  <1>ClientStalls. ASSUME NEW s \in Sessions, ClientStalls(s) PROVE AcceptOk'
    <2>1. UNCHANGED <<accept, born, listed, late, posted, rpc, wpc, stopped>> /\ client[s] # "none"
      BY <1>ClientStalls DEF ClientStalls, Connected, UnchangedByPeer, serverVars, acceptVars, readVars, writeVars,
         loopVars
    <2>2. \A t \in Sessions \ {s} : client'[t] = client[t]
      BY <1>ClientStalls DEF ClientStalls, FlagsOk
    <2> QED  BY <2>1, <2>2, SessionMoves
  <1> DEFINE Moved == \/ UNCHANGED <<accept, born, listed, posted, late, rpc,
                            wpc, client, stopped>>
                      \/ AcceptBegins \/ AcceptAborted \/ tryStartSession \/
                         AcceptLists \/ AcceptFails \/ sessionStart \/
                         StopSessions
                      \/ \E s \in Sessions : ReadHeader(s) \/ ReadBody(s) \/
                            Drain(s) \/ commandExec(s) \/ SendDone(s) \/
                            SendFails(s) \/ FinishCommand(s) \/ ReadFails(s) \/
                            ReadEnds(s) \/ UploadPrepare(s) \/ UploadChunk(s) \/
                            PublishProbe(s) \/ PublishMove(s) \/ PublishFails(s)
                            \/ WriteReceive(s) \/ WriteDone(s) \/ WriteFails(s)
                            \/ WriteEnds(s) \/ StopPosted(s) \/ ClientCloses(s)
                            \/ ClientStalls(s)
  <1>o. Moved
    <2>server. CASE Accepts \/ StopBegins \/ Stops \/ OtherProgram
      BY <2>server DEF Accepts, Stops, StopBegins, UnchangedByMain,
         stopAccepting, Wait, InterfaceShutdown, OtherProgram, UnchangedByPeer,
         serverVars, acceptVars, readVars, loopVars, writeVars, peerVars,
         stopVars, restVars
    <2>read. ASSUME NEW s \in Sessions, ReadSide(s) PROVE Moved
      BY <2>read DEF ReadSide, serverVars, acceptVars, readVars, loopVars,
         writeVars, peerVars, stopVars, restVars
    <2>write. ASSUME NEW s \in Sessions, WriteSide(s) \/ StopPosted(s) PROVE Moved
      BY <2>write DEF WriteSide, serverVars, acceptVars, readVars, loopVars,
         writeVars, peerVars, stopVars, restVars
    <2>peer. ASSUME NEW s \in Sessions, Peer(s) PROVE Moved
      BY <2>peer DEF Peer, ClientAsks, UnchangedByPeer, ClientStreams,
         serverVars, acceptVars, readVars, loopVars, writeVars, peerVars,
         stopVars, restVars
    <2> QED  BY <2>server, <2>read, <2>write, <2>peer DEF Next
  <1> QED  BY <1>u, <1>o, <1>AcceptBegins, <1>AcceptAborted, <1>tryStartSession,
           <1>AcceptLists, <1>AcceptFails, <1>sessionStart, <1>StopSessions,
           <1>ReadHeader, <1>ReadBody, <1>Drain, <1>commandExec, <1>SendDone,
           <1>SendFails, <1>FinishCommand, <1>ReadFails, <1>ReadEnds,
           <1>UploadPrepare, <1>UploadChunk, <1>PublishProbe, <1>PublishMove,
           <1>PublishFails, <1>WriteReceive, <1>WriteDone, <1>WriteFails,
           <1>WriteEnds, <1>StopPosted, <1>ClientCloses, <1>ClientStalls

\* An upload goes on.
Busy(s) == \/ rpc[s] \in {"meta", "chunk", "probe", "move"}
           \/ rpc[s] = "send" /\ next[s] \in {"chunk", "probe"}

\* Only the moving session matters, and it is authenticated if its upload goes on.
LEMMA GateMoves ==
    ASSUME GateOk, FlagsOk, NEW s \in Sessions,
           \A t \in Sessions \ {s} : /\ rpc'[t] = rpc[t] /\ next'[t] = next[t]
                                     /\ cmd'[t] = cmd[t] /\ authed'[t] = authed[t],
           Busy(s)' => authed'[s] /\ cmd'[s] = "upload"
    PROVE  GateOk'
  BY DEF GateOk, Busy

\* The gate of an upload.
LEMMA GateStep ==
    ASSUME LoopsOk, FlagsOk, GateOk, Next
    PROVE  GateOk'
  <1>u. ASSUME UNCHANGED <<rpc, next, authed, cmd>> PROVE GateOk'
    BY <1>u DEF GateOk
  <1>AcceptFails. ASSUME AcceptFails PROVE GateOk'
    <2>1. UNCHANGED <<next, cmd, authed>> /\ \A t \in Sessions : ~(rpc'[t] = rpc[t]) => rpc'[t] = "over"
      BY <1>AcceptFails DEF AcceptFails, flagVars, LoopsOk
    <2> QED  BY <2>1 DEF GateOk
  <1>sessionStart. ASSUME sessionStart PROVE GateOk'
    <2>1. UNCHANGED <<next, cmd, authed>>
      BY <1>sessionStart DEF sessionStart, flagVars
    <2>2. \A t \in Sessions : ~(rpc'[t] = rpc[t]) => rpc'[t] \in {"done", "header"}
      BY <1>sessionStart DEF sessionStart, LoopTop, LoopsOk
    <2> QED  BY <2>1, <2>2 DEF GateOk
  <1>ReadHeader. ASSUME NEW s \in Sessions, ReadHeader(s) PROVE GateOk'
    <2>1. UNCHANGED authed /\ cmd' = [cmd EXCEPT ![s] = Head(inbox[s])]
      BY <1>ReadHeader DEF ReadHeader, flagVars
    <2>2. \/ Send(s, Error(s, TRUE), "done")
          \/ \E l \in {"drain", "body", "exec"} : Goto(s, l)
          \/ Goto(s, "meta") /\ Head(inbox[s]) = "upload" /\ authed[s]
      BY <1>ReadHeader, HeaderOutcome
    <2>3. \A t \in Sessions \ {s} : rpc'[t] = rpc[t] /\ next'[t] = next[t] /\ cmd'[t] = cmd[t]
      BY <2>1, <2>2 DEF Send, Goto, LoopsOk
    <2>4. rpc[s] = "header"
      BY <1>ReadHeader, HeaderOutcome
    <2>5. Busy(s)' => authed'[s] /\ cmd'[s] = "upload"
      BY <2>1, <2>2, <2>4 DEF Send, Goto, LoopsOk, Busy
    <2> QED  BY <2>1, <2>3, <2>5, GateMoves
  <1>ReadBody. ASSUME NEW s \in Sessions, ReadBody(s) PROVE GateOk'
    <2>1. \A t \in Sessions \ {s} : rpc'[t] = rpc[t] /\ next'[t] = next[t] /\ cmd'[t] = cmd[t]
      BY <1>ReadBody DEF ReadBody, readVars, StartCommand, Send, Goto, LoopsOk
    <2>2. \A t \in Sessions \ {s} : authed'[t] = authed[t]
      BY <1>ReadBody DEF ReadBody, flagVars, FlagsOk
    <2>3. ~Busy(s)'
      BY <1>ReadBody DEF ReadBody, flagVars, readVars, StartCommand, Send, Goto, LoopsOk, Busy
    <2> QED  BY <2>1, <2>2, <2>3, GateMoves
  <1>Drain. ASSUME NEW s \in Sessions, Drain(s) PROVE GateOk'
    <2>1. \A t \in Sessions \ {s} : rpc'[t] = rpc[t] /\ next'[t] = next[t] /\ cmd'[t] = cmd[t]
      BY <1>Drain DEF Drain, readVars, Send, LoopsOk
    <2>2. \A t \in Sessions \ {s} : authed'[t] = authed[t]
      BY <1>Drain DEF Drain, flagVars, FlagsOk
    <2>3. ~Busy(s)'
      BY <1>Drain DEF Drain, flagVars, readVars, Send, LoopsOk, Busy
    <2> QED  BY <2>1, <2>2, <2>3, GateMoves
  <1>commandExec. ASSUME NEW s \in Sessions, commandExec(s) PROVE GateOk'
    <2>1. \A t \in Sessions \ {s} : rpc'[t] = rpc[t] /\ next'[t] = next[t] /\ cmd'[t] = cmd[t]
      BY <1>commandExec DEF commandExec, readVars, Send, LoopsOk
    <2>2. \A t \in Sessions \ {s} : authed'[t] = authed[t]
      BY <1>commandExec DEF commandExec, flagVars, FlagsOk
    <2>3. ~Busy(s)'
      BY <1>commandExec DEF commandExec, flagVars, readVars, Send, LoopsOk, Busy
    <2> QED  BY <2>1, <2>2, <2>3, GateMoves
  <1>SendDone. ASSUME NEW s \in Sessions, SendDone(s) PROVE GateOk'
    <2>1. \A t \in Sessions \ {s} : rpc'[t] = rpc[t] /\ next'[t] = next[t] /\ cmd'[t] = cmd[t]
      BY <1>SendDone DEF SendDone, readVars, LoopsOk
    <2>2. \A t \in Sessions \ {s} : authed'[t] = authed[t]
      BY <1>SendDone DEF SendDone, flagVars, FlagsOk
    <2>3. Busy(s)' => authed'[s] /\ cmd'[s] = "upload"
      BY <1>SendDone DEF SendDone, flagVars, readVars, LoopsOk, Busy, GateOk
    <2> QED  BY <2>1, <2>2, <2>3, GateMoves
  <1>SendFails. ASSUME NEW s \in Sessions, SendFails(s) PROVE GateOk'
    <2>1. \A t \in Sessions \ {s} : rpc'[t] = rpc[t] /\ next'[t] = next[t] /\ cmd'[t] = cmd[t]
      BY <1>SendFails DEF SendFails, readVars, LoopsOk
    <2>2. \A t \in Sessions \ {s} : authed'[t] = authed[t]
      BY <1>SendFails DEF SendFails, flagVars, FlagsOk
    <2>3. ~Busy(s)'
      BY <1>SendFails DEF SendFails, flagVars, readVars, LoopsOk, Busy
    <2> QED  BY <2>1, <2>2, <2>3, GateMoves
  <1>FinishCommand. ASSUME NEW s \in Sessions, FinishCommand(s) PROVE GateOk'
    <2>1. \A t \in Sessions \ {s} : rpc'[t] = rpc[t] /\ next'[t] = next[t] /\ cmd'[t] = cmd[t]
      BY <1>FinishCommand DEF FinishCommand, readVars, Goto, LoopTop, LoopsOk
    <2>2. \A t \in Sessions \ {s} : authed'[t] = authed[t]
      BY <1>FinishCommand DEF FinishCommand, flagVars, FlagsOk
    <2>3. ~Busy(s)'
      BY <1>FinishCommand DEF FinishCommand, flagVars, readVars, Goto, LoopTop, LoopsOk, Busy
    <2> QED  BY <2>1, <2>2, <2>3, GateMoves
  <1>ReadFails. ASSUME NEW s \in Sessions, ReadFails(s) PROVE GateOk'
    <2>1. \A t \in Sessions \ {s} : rpc'[t] = rpc[t] /\ next'[t] = next[t] /\ cmd'[t] = cmd[t]
      BY <1>ReadFails DEF ReadFails, readVars, Goto, LoopsOk
    <2>2. \A t \in Sessions \ {s} : authed'[t] = authed[t]
      BY <1>ReadFails DEF ReadFails, flagVars, FlagsOk
    <2>3. ~Busy(s)'
      BY <1>ReadFails DEF ReadFails, flagVars, readVars, Goto, LoopsOk, Busy
    <2> QED  BY <2>1, <2>2, <2>3, GateMoves
  <1>ReadEnds. ASSUME NEW s \in Sessions, ReadEnds(s) PROVE GateOk'
    <2>1. \A t \in Sessions \ {s} : rpc'[t] = rpc[t] /\ next'[t] = next[t] /\ cmd'[t] = cmd[t]
      BY <1>ReadEnds DEF ReadEnds, readVars, Goto, LoopsOk
    <2>2. \A t \in Sessions \ {s} : authed'[t] = authed[t]
      BY <1>ReadEnds DEF ReadEnds, flagVars, FlagsOk
    <2>3. ~Busy(s)'
      BY <1>ReadEnds DEF ReadEnds, flagVars, readVars, Goto, LoopsOk, Busy
    <2> QED  BY <2>1, <2>2, <2>3, GateMoves
  <1>UploadPrepare. ASSUME NEW s \in Sessions, UploadPrepare(s) PROVE GateOk'
    <2>1. UNCHANGED <<cmd, authed>> /\ \E l, it : Send(s, it, l)
      BY <1>UploadPrepare DEF UploadPrepare, flagVars
    <2>2. \A t \in Sessions \ {s} : rpc'[t] = rpc[t] /\ next'[t] = next[t]
      BY <2>1 DEF Send, LoopsOk
    <2>3. authed[s] /\ cmd[s] = "upload"
      BY <1>UploadPrepare DEF UploadPrepare, GateOk
    <2> QED  BY <2>1, <2>2, <2>3, GateMoves
  <1>UploadChunk. ASSUME NEW s \in Sessions, UploadChunk(s) PROVE GateOk'
    <2>1. \A t \in Sessions \ {s} : rpc'[t] = rpc[t] /\ next'[t] = next[t] /\ cmd'[t] = cmd[t]
      BY <1>UploadChunk DEF UploadChunk, readVars, Goto, LoopsOk
    <2>2. \A t \in Sessions \ {s} : authed'[t] = authed[t]
      BY <1>UploadChunk DEF UploadChunk, flagVars, FlagsOk
    <2>3. Busy(s)' => authed'[s] /\ cmd'[s] = "upload"
      BY <1>UploadChunk DEF UploadChunk, flagVars, readVars, Goto, LoopsOk, Busy, GateOk
    <2> QED  BY <2>1, <2>2, <2>3, GateMoves
  <1>PublishProbe. ASSUME NEW s \in Sessions, PublishProbe(s) PROVE GateOk'
    <2>1. \A t \in Sessions \ {s} : rpc'[t] = rpc[t] /\ next'[t] = next[t] /\ cmd'[t] = cmd[t]
      BY <1>PublishProbe DEF PublishProbe, readVars, Goto, LoopsOk
    <2>2. \A t \in Sessions \ {s} : authed'[t] = authed[t]
      BY <1>PublishProbe DEF PublishProbe, flagVars, FlagsOk
    <2>3. Busy(s)' => authed'[s] /\ cmd'[s] = "upload"
      BY <1>PublishProbe DEF PublishProbe, flagVars, readVars, Goto, LoopsOk, Busy, GateOk
    <2> QED  BY <2>1, <2>2, <2>3, GateMoves
  <1>PublishMove. ASSUME NEW s \in Sessions, PublishMove(s) PROVE GateOk'
    <2>1. \A t \in Sessions \ {s} : rpc'[t] = rpc[t] /\ next'[t] = next[t] /\ cmd'[t] = cmd[t]
      BY <1>PublishMove DEF PublishMove, readVars, Goto, Send, LoopsOk
    <2>2. \A t \in Sessions \ {s} : authed'[t] = authed[t]
      BY <1>PublishMove DEF PublishMove, flagVars, FlagsOk
    <2>3. Busy(s)' => authed'[s] /\ cmd'[s] = "upload"
      BY <1>PublishMove DEF PublishMove, flagVars, readVars, Goto, Send, LoopsOk, Busy, GateOk
    <2> QED  BY <2>1, <2>2, <2>3, GateMoves
  <1>PublishFails. ASSUME NEW s \in Sessions, PublishFails(s) PROVE GateOk'
    <2>1. \A t \in Sessions \ {s} : rpc'[t] = rpc[t] /\ next'[t] = next[t] /\ cmd'[t] = cmd[t]
      BY <1>PublishFails DEF PublishFails, readVars, Send, LoopsOk
    <2>2. \A t \in Sessions \ {s} : authed'[t] = authed[t]
      BY <1>PublishFails DEF PublishFails, flagVars, FlagsOk
    <2>3. ~Busy(s)'
      BY <1>PublishFails DEF PublishFails, flagVars, readVars, Send, LoopsOk, Busy
    <2> QED  BY <2>1, <2>2, <2>3, GateMoves
  <1> DEFINE Moved == \/ UNCHANGED <<rpc, next, authed, cmd>>
                      \/ AcceptFails \/ sessionStart
                      \/ \E s \in Sessions : ReadHeader(s) \/ ReadBody(s) \/
                            Drain(s) \/ commandExec(s) \/ SendDone(s) \/
                            SendFails(s) \/ FinishCommand(s) \/ ReadFails(s) \/
                            ReadEnds(s) \/ UploadPrepare(s) \/ UploadChunk(s) \/
                            PublishProbe(s) \/ PublishMove(s) \/ PublishFails(s)
  <1>o. Moved
    <2>server. CASE Accepts \/ StopBegins \/ Stops \/ OtherProgram
      BY <2>server DEF Accepts, Stops, AcceptBegins, AcceptAborted,
         tryStartSession, AcceptLists, StopBegins, UnchangedByMain,
         stopAccepting, StopSessions, Wait, InterfaceShutdown, OtherProgram,
         UnchangedByPeer, readVars, flagVars
    <2>read. ASSUME NEW s \in Sessions, ReadSide(s) PROVE Moved
      BY <2>read DEF ReadSide, readVars, flagVars
    <2>write. ASSUME NEW s \in Sessions, WriteSide(s) \/ StopPosted(s) PROVE Moved
      BY <2>write DEF WriteSide, WriteReceive, WriteDone, Heard, WriteFails,
         WriteEnds, StopPosted, readVars, flagVars
    <2>peer. ASSUME NEW s \in Sessions, Peer(s) PROVE Moved
      BY <2>peer DEF Peer, ClientAsks, UnchangedByPeer, ClientStreams,
         ClientCloses, ClientStalls, readVars, flagVars
    <2> QED  BY <2>server, <2>read, <2>write, <2>peer DEF Next
  <1> QED  BY <1>u, <1>o, <1>AcceptFails, <1>sessionStart, <1>ReadHeader,
           <1>ReadBody, <1>Drain, <1>commandExec, <1>SendDone, <1>SendFails,
           <1>FinishCommand, <1>ReadFails, <1>ReadEnds, <1>UploadPrepare,
           <1>UploadChunk, <1>PublishProbe, <1>PublishMove, <1>PublishFails

-----------------------------------------------------------------------------
(* The counters.                                                           *)

\* What a step does to the commands: nothing, or one is counted in, before
\* stopAccepting, or one is counted out.
CommandsKept == InCommands' = InCommands /\ commands' = commands
CommandIn(s) == /\ s \notin InCommands /\ InCommands' = InCommands \cup {s}
                /\ commands' = commands + 1 /\ ~closing
CommandOut(s) == /\ s \in InCommands /\ InCommands' = InCommands \ {s}
                 /\ commands' = commands - 1
CommandStep == CommandsKept \/ \E s \in Sessions : CommandIn(s) \/ CommandOut(s)

\* One session at a time.
LEMMA CommandMoves ==
    ASSUME NEW s \in Sessions, \A t \in Sessions \ {s} : InCommand(t)' <=> InCommand(t),
           \/ commands' = commands /\ (InCommand(s)' <=> InCommand(s))
           \/ commands' = commands + 1 /\ ~closing /\ ~InCommand(s) /\ InCommand(s)'
           \/ commands' = commands - 1 /\ InCommand(s) /\ ~InCommand(s)'
    PROVE  CommandStep
  <1>1. CASE commands' = commands /\ (InCommand(s)' <=> InCommand(s))
    <2>1. InCommands' = InCommands
      BY <1>1 DEF InCommands
    <2> QED  BY <1>1, <2>1 DEF CommandStep, CommandsKept
  <1>2. CASE commands' = commands + 1 /\ ~closing /\ ~InCommand(s) /\ InCommand(s)'
    <2>1. InCommands' = InCommands \cup {s} /\ s \notin InCommands
      BY <1>2 DEF InCommands
    <2> QED  BY <1>2, <2>1 DEF CommandStep, CommandIn
  <1>3. CASE commands' = commands - 1 /\ InCommand(s) /\ ~InCommand(s)'
    <2>1. InCommands' = InCommands \ {s} /\ s \in InCommands
      BY <1>3 DEF InCommands
    <2> QED  BY <1>3, <2>1 DEF CommandStep, CommandOut
  <1> QED  BY <1>1, <1>2, <1>3

\* How the commands are counted.
LEMMA CommandFlow ==
    ASSUME LoopsOk, AcceptOk, PipesOk, Next
    PROVE  CommandStep
  <1>u. ASSUME UNCHANGED <<rpc, cmd, next, commands>> PROVE CommandStep
    BY <1>u DEF CommandStep, CommandsKept, InCommands, InCommand
  <1>tryStartSession. ASSUME tryStartSession PROVE CommandStep
    <2>1. UNCHANGED <<rpc, cmd, next, commands>>
      BY <1>tryStartSession DEF tryStartSession, countVars, Counted, readVars
    <2> QED  BY <1>u, <2>1
  <1>AcceptFails. ASSUME AcceptFails PROVE CommandStep
    <2>1. UNCHANGED <<cmd, next, commands>>
      BY <1>AcceptFails DEF AcceptFails, Counted
    <2>2. born \in Sessions /\ rpc[born] = "none" /\ rpc' = [rpc EXCEPT ![born] = "over"]
      BY <1>AcceptFails, SessionsAssumption DEF AcceptFails, AcceptOk, Sessions
    <2>3. \A t \in Sessions : InCommand(t)' <=> InCommand(t)
      BY <2>1, <2>2 DEF InCommand, LoopsOk
    <2> QED  BY <2>1, <2>2, <2>3, CommandMoves
  <1>sessionStart. ASSUME sessionStart PROVE CommandStep
    <2>1. UNCHANGED <<cmd, next, commands>>
      BY <1>sessionStart DEF sessionStart, countVars
    <2>2. born \in Sessions /\ rpc[born] = "none" /\ rpc' = [rpc EXCEPT ![born] = LoopTop(born)]
      BY <1>sessionStart, SessionsAssumption DEF sessionStart, AcceptOk, Sessions
    <2>3. \A t \in Sessions : InCommand(t)' <=> InCommand(t)
      BY <2>1, <2>2 DEF InCommand, LoopsOk, LoopTop
    <2> QED  BY <2>1, <2>2, <2>3, CommandMoves
  <1>ReadHeader. ASSUME NEW s \in Sessions, ReadHeader(s) PROVE CommandStep
    <2>1. rpc[s] = "header" /\ cmd' = [cmd EXCEPT ![s] = Head(inbox[s])]
      BY <1>ReadHeader, HeaderOutcome
    <2>2. \/ Send(s, Error(s, TRUE), "done") \/ \E l \in {"drain", "body", "meta", "exec"} : Goto(s, l)
      BY <1>ReadHeader, HeaderOutcome
    <2>3. \A t \in Sessions \ {s} : rpc'[t] = rpc[t] /\ next'[t] = next[t] /\ cmd'[t] = cmd[t]
      BY <2>1, <2>2 DEF Send, Goto, LoopsOk
    <2>4. \A t \in Sessions \ {s} : InCommand(t)' <=> InCommand(t)
      BY <2>3 DEF InCommand
    <2>5. ~InCommand(s)
      BY <2>1 DEF InCommand
    <2>6. CASE Send(s, Error(s, TRUE), "done") /\ UNCHANGED countVars
      <3>1. ~InCommand(s)' /\ UNCHANGED commands
        BY <2>6 DEF InCommand, Send, LoopsOk, countVars
      <3> QED  BY <2>4, <2>5, <3>1, CommandMoves
    <2>7. CASE Goto(s, "drain") /\ UNCHANGED countVars /\ Head(inbox[s]) = "legacyMessage"
      <3>1. ~InCommand(s)' /\ UNCHANGED commands
        BY <2>1, <2>7 DEF InCommand, Goto, LoopsOk, countVars
      <3> QED  BY <2>4, <2>5, <3>1, CommandMoves
    <2>8. CASE Goto(s, "body") /\ UNCHANGED countVars
      <3>1. ~InCommand(s)' /\ UNCHANGED commands
        BY <2>8 DEF InCommand, Goto, LoopsOk, countVars
      <3> QED  BY <2>4, <2>5, <3>1, CommandMoves
    <2>9. CASE /\ ~closing /\ Counted(commands + 1, sessions)
               /\ \/ Goto(s, "drain") /\ Head(inbox[s]) = "legacyUpload"
                  \/ Goto(s, "meta") \/ Goto(s, "exec")
      <3>1. InCommand(s)' /\ commands' = commands + 1
        BY <2>1, <2>9 DEF InCommand, Goto, LoopsOk, Counted
      <3> QED  BY <2>4, <2>5, <2>9, <3>1, CommandMoves
    <2> QED  BY <1>ReadHeader, HeaderOutcome, <2>6, <2>7, <2>8, <2>9
  <1>ReadBody. ASSUME NEW s \in Sessions, ReadBody(s) PROVE CommandStep
    <2>1. \A t \in Sessions \ {s} : rpc'[t] = rpc[t] /\ next'[t] = next[t] /\ cmd'[t] = cmd[t]
      BY <1>ReadBody DEF ReadBody, readVars, StartCommand, Send, Goto, LoopsOk
    <2>2. \A t \in Sessions \ {s} : InCommand(t)' <=> InCommand(t)
      BY <2>1 DEF InCommand
    <2>3. \/ commands' = commands /\ (InCommand(s)' <=> InCommand(s))
          \/ commands' = commands + 1 /\ ~closing /\ ~InCommand(s) /\ InCommand(s)'
          \/ commands' = commands - 1 /\ InCommand(s) /\ ~InCommand(s)'
      BY <1>ReadBody DEF ReadBody, countVars, readVars, finishCommand, Counted, StartCommand, Send, Goto, LoopsOk, InCommand
    <2> QED  BY <2>2, <2>3, CommandMoves
  <1>Drain. ASSUME NEW s \in Sessions, Drain(s) PROVE CommandStep
    <2>1. \A t \in Sessions \ {s} : rpc'[t] = rpc[t] /\ next'[t] = next[t] /\ cmd'[t] = cmd[t]
      BY <1>Drain DEF Drain, readVars, Send, LoopsOk
    <2>2. \A t \in Sessions \ {s} : InCommand(t)' <=> InCommand(t)
      BY <2>1 DEF InCommand
    <2>3. \/ commands' = commands /\ (InCommand(s)' <=> InCommand(s))
          \/ commands' = commands + 1 /\ ~closing /\ ~InCommand(s) /\ InCommand(s)'
          \/ commands' = commands - 1 /\ InCommand(s) /\ ~InCommand(s)'
      BY <1>Drain DEF Drain, countVars, readVars, finishCommand, Counted, Send, LoopsOk, InCommand
    <2> QED  BY <2>2, <2>3, CommandMoves
  <1>commandExec. ASSUME NEW s \in Sessions, commandExec(s) PROVE CommandStep
    <2>1. \A t \in Sessions \ {s} : rpc'[t] = rpc[t] /\ next'[t] = next[t] /\ cmd'[t] = cmd[t]
      BY <1>commandExec DEF commandExec, readVars, Send, LoopsOk
    <2>2. \A t \in Sessions \ {s} : InCommand(t)' <=> InCommand(t)
      BY <2>1 DEF InCommand
    <2>3. \/ commands' = commands /\ (InCommand(s)' <=> InCommand(s))
          \/ commands' = commands + 1 /\ ~closing /\ ~InCommand(s) /\ InCommand(s)'
          \/ commands' = commands - 1 /\ InCommand(s) /\ ~InCommand(s)'
      BY <1>commandExec DEF commandExec, countVars, readVars, finishCommand, Counted, Send, LoopsOk, InCommand
    <2> QED  BY <2>2, <2>3, CommandMoves
  <1>SendDone. ASSUME NEW s \in Sessions, SendDone(s) PROVE CommandStep
    <2>1. \A t \in Sessions \ {s} : rpc'[t] = rpc[t] /\ next'[t] = next[t] /\ cmd'[t] = cmd[t]
      BY <1>SendDone DEF SendDone, readVars, LoopsOk
    <2>2. \A t \in Sessions \ {s} : InCommand(t)' <=> InCommand(t)
      BY <2>1 DEF InCommand
    <2>3. \/ commands' = commands /\ (InCommand(s)' <=> InCommand(s))
          \/ commands' = commands + 1 /\ ~closing /\ ~InCommand(s) /\ InCommand(s)'
          \/ commands' = commands - 1 /\ InCommand(s) /\ ~InCommand(s)'
      BY <1>SendDone DEF SendDone, countVars, readVars, finishCommand, Counted, LoopsOk, InCommand
    <2> QED  BY <2>2, <2>3, CommandMoves
  <1>SendFails. ASSUME NEW s \in Sessions, SendFails(s) PROVE CommandStep
    <2>1. \A t \in Sessions \ {s} : rpc'[t] = rpc[t] /\ next'[t] = next[t] /\ cmd'[t] = cmd[t]
      BY <1>SendFails DEF SendFails, readVars, LoopsOk
    <2>2. \A t \in Sessions \ {s} : InCommand(t)' <=> InCommand(t)
      BY <2>1 DEF InCommand
    <2>3. \/ commands' = commands /\ (InCommand(s)' <=> InCommand(s))
          \/ commands' = commands + 1 /\ ~closing /\ ~InCommand(s) /\ InCommand(s)'
          \/ commands' = commands - 1 /\ InCommand(s) /\ ~InCommand(s)'
      BY <1>SendFails DEF SendFails, countVars, readVars, finishCommand, Counted, LoopsOk, InCommand
    <2> QED  BY <2>2, <2>3, CommandMoves
  <1>FinishCommand. ASSUME NEW s \in Sessions, FinishCommand(s) PROVE
     CommandStep
    <2>1. \A t \in Sessions \ {s} : rpc'[t] = rpc[t] /\ next'[t] = next[t] /\ cmd'[t] = cmd[t]
      BY <1>FinishCommand DEF FinishCommand, readVars, Goto, LoopTop, LoopsOk
    <2>2. \A t \in Sessions \ {s} : InCommand(t)' <=> InCommand(t)
      BY <2>1 DEF InCommand
    <2>3. \/ commands' = commands /\ (InCommand(s)' <=> InCommand(s))
          \/ commands' = commands + 1 /\ ~closing /\ ~InCommand(s) /\ InCommand(s)'
          \/ commands' = commands - 1 /\ InCommand(s) /\ ~InCommand(s)'
      BY <1>FinishCommand DEF FinishCommand, countVars, readVars, finishCommand, Counted, Goto, LoopTop, LoopsOk, InCommand
    <2> QED  BY <2>2, <2>3, CommandMoves
  <1>ReadFails. ASSUME NEW s \in Sessions, ReadFails(s) PROVE CommandStep
    <2>1. \A t \in Sessions \ {s} : rpc'[t] = rpc[t] /\ next'[t] = next[t] /\ cmd'[t] = cmd[t]
      BY <1>ReadFails DEF ReadFails, readVars, Goto, LoopsOk
    <2>2. \A t \in Sessions \ {s} : InCommand(t)' <=> InCommand(t)
      BY <2>1 DEF InCommand
    <2>3. \/ commands' = commands /\ (InCommand(s)' <=> InCommand(s))
          \/ commands' = commands + 1 /\ ~closing /\ ~InCommand(s) /\ InCommand(s)'
          \/ commands' = commands - 1 /\ InCommand(s) /\ ~InCommand(s)'
      BY <1>ReadFails DEF ReadFails, countVars, readVars, finishCommand, Counted, Goto, LoopsOk, InCommand, Reading
    <2> QED  BY <2>2, <2>3, CommandMoves
  <1>ReadEnds. ASSUME NEW s \in Sessions, ReadEnds(s) PROVE CommandStep
    <2>1. \A t \in Sessions \ {s} : rpc'[t] = rpc[t] /\ next'[t] = next[t] /\ cmd'[t] = cmd[t]
      BY <1>ReadEnds DEF ReadEnds, readVars, Goto, LoopsOk
    <2>2. \A t \in Sessions \ {s} : InCommand(t)' <=> InCommand(t)
      BY <2>1 DEF InCommand
    <2>3. \/ commands' = commands /\ (InCommand(s)' <=> InCommand(s))
          \/ commands' = commands + 1 /\ ~closing /\ ~InCommand(s) /\ InCommand(s)'
          \/ commands' = commands - 1 /\ InCommand(s) /\ ~InCommand(s)'
      BY <1>ReadEnds DEF ReadEnds, countVars, readVars, finishCommand, Counted, Goto, LoopsOk, InCommand, stopOnExecutor, stopVars
    <2> QED  BY <2>2, <2>3, CommandMoves
  <1>UploadPrepare. ASSUME NEW s \in Sessions, UploadPrepare(s) PROVE
     CommandStep
    <2>1. UNCHANGED cmd /\ rpc[s] = "meta" /\ \E l, it : Send(s, it, l)
      BY <1>UploadPrepare DEF UploadPrepare
    <2>2. \A t \in Sessions \ {s} : rpc'[t] = rpc[t] /\ next'[t] = next[t]
      BY <2>1 DEF Send, LoopsOk
    <2>3. \A t \in Sessions \ {s} : InCommand(t)' <=> InCommand(t)
      BY <2>1, <2>2 DEF InCommand
    <2>4. InCommand(s)
      BY <2>1 DEF InCommand
    <2>5. CASE /\ \E it : \E l \in {"probe", "chunk", "finish"} : Send(s, it, l)
               /\ UNCHANGED commands
      <3>1. InCommand(s)'
        BY <2>5 DEF InCommand, Send, LoopsOk
      <3> QED  BY <2>3, <2>4, <2>5, <3>1, CommandMoves
    <2>6. CASE finishCommand /\ \E it : Send(s, it, "loop")
      <3>1. ~InCommand(s)' /\ commands' = commands - 1
        BY <2>6 DEF InCommand, Send, LoopsOk, finishCommand, Counted
      <3> QED  BY <2>3, <2>4, <3>1, CommandMoves
    <2>7. \/ (\E it : \E l \in {"probe", "chunk", "finish"} : Send(s, it, l)) /\ UNCHANGED commands
          \/ finishCommand /\ \E it : Send(s, it, "loop")
      BY <1>UploadPrepare DEF UploadPrepare, countVars
    <2> QED  BY <2>5, <2>6, <2>7
  <1>UploadChunk. ASSUME NEW s \in Sessions, UploadChunk(s) PROVE CommandStep
    <2>1. \A t \in Sessions \ {s} : rpc'[t] = rpc[t] /\ next'[t] = next[t] /\ cmd'[t] = cmd[t]
      BY <1>UploadChunk DEF UploadChunk, readVars, Goto, LoopsOk
    <2>2. \A t \in Sessions \ {s} : InCommand(t)' <=> InCommand(t)
      BY <2>1 DEF InCommand
    <2>3. \/ commands' = commands /\ (InCommand(s)' <=> InCommand(s))
          \/ commands' = commands + 1 /\ ~closing /\ ~InCommand(s) /\ InCommand(s)'
          \/ commands' = commands - 1 /\ InCommand(s) /\ ~InCommand(s)'
      BY <1>UploadChunk DEF UploadChunk, countVars, readVars, finishCommand, Counted, Goto, LoopsOk, InCommand
    <2> QED  BY <2>2, <2>3, CommandMoves
  <1>PublishProbe. ASSUME NEW s \in Sessions, PublishProbe(s) PROVE CommandStep
    <2>1. \A t \in Sessions \ {s} : rpc'[t] = rpc[t] /\ next'[t] = next[t] /\ cmd'[t] = cmd[t]
      BY <1>PublishProbe DEF PublishProbe, readVars, Goto, LoopsOk
    <2>2. \A t \in Sessions \ {s} : InCommand(t)' <=> InCommand(t)
      BY <2>1 DEF InCommand
    <2>3. \/ commands' = commands /\ (InCommand(s)' <=> InCommand(s))
          \/ commands' = commands + 1 /\ ~closing /\ ~InCommand(s) /\ InCommand(s)'
          \/ commands' = commands - 1 /\ InCommand(s) /\ ~InCommand(s)'
      BY <1>PublishProbe DEF PublishProbe, countVars, readVars, finishCommand, Counted, Goto, LoopsOk, InCommand
    <2> QED  BY <2>2, <2>3, CommandMoves
  <1>PublishMove. ASSUME NEW s \in Sessions, PublishMove(s) PROVE CommandStep
    <2>1. \A t \in Sessions \ {s} : rpc'[t] = rpc[t] /\ next'[t] = next[t] /\ cmd'[t] = cmd[t]
      BY <1>PublishMove DEF PublishMove, readVars, Goto, Send, LoopsOk
    <2>2. \A t \in Sessions \ {s} : InCommand(t)' <=> InCommand(t)
      BY <2>1 DEF InCommand
    <2>3. \/ commands' = commands /\ (InCommand(s)' <=> InCommand(s))
          \/ commands' = commands + 1 /\ ~closing /\ ~InCommand(s) /\ InCommand(s)'
          \/ commands' = commands - 1 /\ InCommand(s) /\ ~InCommand(s)'
      BY <1>PublishMove DEF PublishMove, countVars, readVars, finishCommand, Counted, Goto, Send, LoopsOk, InCommand
    <2> QED  BY <2>2, <2>3, CommandMoves
  <1>PublishFails. ASSUME NEW s \in Sessions, PublishFails(s) PROVE CommandStep
    <2>1. \A t \in Sessions \ {s} : rpc'[t] = rpc[t] /\ next'[t] = next[t] /\ cmd'[t] = cmd[t]
      BY <1>PublishFails DEF PublishFails, readVars, Send, LoopsOk
    <2>2. \A t \in Sessions \ {s} : InCommand(t)' <=> InCommand(t)
      BY <2>1 DEF InCommand
    <2>3. \/ commands' = commands /\ (InCommand(s)' <=> InCommand(s))
          \/ commands' = commands + 1 /\ ~closing /\ ~InCommand(s) /\ InCommand(s)'
          \/ commands' = commands - 1 /\ InCommand(s) /\ ~InCommand(s)'
      BY <1>PublishFails DEF PublishFails, countVars, readVars, finishCommand, Counted, Send, LoopsOk, InCommand
    <2> QED  BY <2>2, <2>3, CommandMoves
  <1>WriteDone. ASSUME NEW s \in Sessions, WriteDone(s) PROVE CommandStep
    <2>1. UNCHANGED <<rpc, cmd, next, commands>>
      BY <1>WriteDone DEF WriteDone, readVars, countVars, Counted, stopOnExecutor, stopVars
    <2> QED  BY <1>u, <2>1
  <1>WriteFails. ASSUME NEW s \in Sessions, WriteFails(s) PROVE CommandStep
    <2>1. UNCHANGED <<rpc, cmd, next, commands>>
      BY <1>WriteFails DEF WriteFails, readVars, countVars, Counted, stopOnExecutor, stopVars
    <2> QED  BY <1>u, <2>1
  <1>WriteEnds. ASSUME NEW s \in Sessions, WriteEnds(s) PROVE CommandStep
    <2>1. UNCHANGED <<rpc, cmd, next, commands>>
      BY <1>WriteEnds DEF WriteEnds, readVars, countVars, Counted, stopOnExecutor, stopVars
    <2> QED  BY <1>u, <2>1
  <1>StopPosted. ASSUME NEW s \in Sessions, StopPosted(s) PROVE CommandStep
    <2>1. UNCHANGED <<rpc, cmd, next, commands>>
      BY <1>StopPosted DEF StopPosted, readVars, countVars, Counted, stopOnExecutor, stopVars
    <2> QED  BY <1>u, <2>1
  <1> DEFINE Moved == \/ UNCHANGED <<rpc, cmd, next, commands>>
                      \/ tryStartSession \/ AcceptFails \/ sessionStart
                      \/ \E s \in Sessions : ReadHeader(s) \/ ReadBody(s) \/
                            Drain(s) \/ commandExec(s) \/ SendDone(s) \/
                            SendFails(s) \/ FinishCommand(s) \/ ReadFails(s) \/
                            ReadEnds(s) \/ UploadPrepare(s) \/ UploadChunk(s) \/
                            PublishProbe(s) \/ PublishMove(s) \/ PublishFails(s)
                            \/ WriteDone(s) \/ WriteFails(s) \/ WriteEnds(s) \/
                            StopPosted(s)
  <1>o. Moved
    <2>server. CASE Accepts \/ StopBegins \/ Stops \/ OtherProgram
      BY <2>server DEF Accepts, Stops, AcceptBegins, AcceptAborted, AcceptLists,
         StopBegins, MainGoto, UnchangedByMain, stopAccepting, StopSessions,
         Wait, InterfaceShutdown, OtherProgram, UnchangedByPeer, countVars,
         readVars, stopVars
    <2>read. ASSUME NEW s \in Sessions, ReadSide(s) PROVE Moved
      BY <2>read DEF ReadSide, countVars, readVars, stopVars
    <2>write. ASSUME NEW s \in Sessions, WriteSide(s) \/ StopPosted(s) PROVE Moved
      BY <2>write DEF WriteSide, WriteReceive, countVars, readVars, stopVars
    <2>peer. ASSUME NEW s \in Sessions, Peer(s) PROVE Moved
      BY <2>peer DEF Peer, ClientAsks, UnchangedByPeer, ClientStreams,
         ClientCloses, ClientStalls, countVars, readVars, stopVars
    <2> QED  BY <2>server, <2>read, <2>write, <2>peer DEF Next
  <1> QED  BY <1>u, <1>o, <1>tryStartSession, <1>AcceptFails, <1>sessionStart,
           <1>ReadHeader, <1>ReadBody, <1>Drain, <1>commandExec, <1>SendDone,
           <1>SendFails, <1>FinishCommand, <1>ReadFails, <1>ReadEnds,
           <1>UploadPrepare, <1>UploadChunk, <1>PublishProbe, <1>PublishMove,
           <1>PublishFails, <1>WriteDone, <1>WriteFails, <1>WriteEnds,
           <1>StopPosted

\* The same of the sessions.
SessionsKept == AliveOnes' = AliveOnes /\ sessions' = sessions
SessionIn(s) == /\ s \notin AliveOnes /\ AliveOnes' = AliveOnes \cup {s}
                /\ sessions' = sessions + 1 /\ ~closing
SessionOut(s) == /\ s \in AliveOnes /\ AliveOnes' = AliveOnes \ {s}
                 /\ sessions' = sessions - 1
SessionStep == SessionsKept \/ \E s \in Sessions : SessionIn(s) \/ SessionOut(s)

\* A session that is stopped is counted out once.
LEMMA StopMoves ==
    ASSUME FlagsOk, AcceptOk, NEW s \in Sessions, s <= born, UNCHANGED born,
           stopOnExecutor(s) \/ UNCHANGED <<stopped, sessions>>
    PROVE  SessionStep
  <1>1. CASE UNCHANGED <<stopped, sessions>>
    BY <1>1 DEF SessionStep, SessionsKept, AliveOnes, Alive
  <1>2. CASE ~stopped[s] /\ stopped' = [stopped EXCEPT ![s] = TRUE] /\ sessions' = sessions - 1
    <2>1. AliveOnes' = AliveOnes \ {s} /\ s \in AliveOnes
      BY <1>2 DEF AliveOnes, Alive, FlagsOk
    <2> QED  BY <1>2, <2>1 DEF SessionStep, SessionOut
  <1> QED  BY <1>1, <1>2 DEF stopOnExecutor, Closed, Counted, stopVars, countVars

\* How the sessions are counted.
LEMMA SessionFlow ==
    ASSUME LoopsOk, AcceptOk, FlagsOk, Next
    PROVE  SessionStep
  <1>u. ASSUME UNCHANGED <<born, stopped, sessions>> PROVE SessionStep
    BY <1>u DEF SessionStep, SessionsKept, AliveOnes, Alive
  <1>tryStartSession. ASSUME tryStartSession PROVE SessionStep
    <2>1. CASE UNCHANGED <<born, stopped, sessions>>
      BY <1>u, <2>1
    <2>2. CASE /\ ~closing /\ born' = born + 1 /\ UNCHANGED stopped
               /\ sessions' = sessions + 1
      <3>1. /\ born \in Nat /\ born + 1 \in Sessions /\ ~stopped[born + 1]
            /\ \A t \in Sessions : t \in Int
        BY <1>tryStartSession, SessionsAssumption DEF tryStartSession, AcceptOk, Sessions
      <3>2. AliveOnes' = AliveOnes \cup {born + 1} /\ born + 1 \notin AliveOnes
        BY <2>2, <3>1 DEF AliveOnes, Alive
      <3> QED  BY <2>2, <3>1, <3>2 DEF SessionStep, SessionIn
    <2> QED  BY <1>tryStartSession, <2>1, <2>2 DEF tryStartSession, Counted, countVars
  <1>AcceptFails. ASSUME AcceptFails PROVE SessionStep
    <2>1. born \in Sessions /\ ~stopped[born] /\ UNCHANGED born /\ born \in Int
      BY <1>AcceptFails, SessionsAssumption DEF AcceptFails, AcceptOk, Sessions
    <2>2. stopped' = [stopped EXCEPT ![born] = TRUE] /\ sessions' = sessions - 1
      BY <1>AcceptFails DEF AcceptFails, Counted
    <2>3. AliveOnes' = AliveOnes \ {born} /\ born \in AliveOnes
      BY <2>1, <2>2 DEF AliveOnes, Alive, FlagsOk
    <2> QED  BY <2>1, <2>2, <2>3 DEF SessionStep, SessionOut
  <1>ReadEnds. ASSUME NEW s \in Sessions, ReadEnds(s) PROVE SessionStep
    <2>1. UNCHANGED born /\ s <= born
      BY <1>ReadEnds, SessionsAssumption DEF ReadEnds, acceptVars, AcceptOk, Sessions
    <2>2. stopOnExecutor(s) \/ UNCHANGED <<stopped, sessions>>
      BY <1>ReadEnds DEF ReadEnds, stopVars, countVars
    <2> QED  BY <2>1, <2>2, StopMoves
  <1>WriteDone. ASSUME NEW s \in Sessions, WriteDone(s) PROVE SessionStep
    <2>1. UNCHANGED born /\ s <= born
      BY <1>WriteDone, SessionsAssumption DEF WriteDone, acceptVars, AcceptOk, Sessions
    <2>2. stopOnExecutor(s) \/ UNCHANGED <<stopped, sessions>>
      BY <1>WriteDone DEF WriteDone, stopVars, countVars
    <2> QED  BY <2>1, <2>2, StopMoves
  <1>WriteFails. ASSUME NEW s \in Sessions, WriteFails(s) PROVE SessionStep
    <2>1. UNCHANGED born /\ s <= born
      BY <1>WriteFails, SessionsAssumption DEF WriteFails, acceptVars, AcceptOk, Sessions
    <2>2. stopOnExecutor(s) \/ UNCHANGED <<stopped, sessions>>
      BY <1>WriteFails DEF WriteFails, stopVars, countVars
    <2> QED  BY <2>1, <2>2, StopMoves
  <1>WriteEnds. ASSUME NEW s \in Sessions, WriteEnds(s) PROVE SessionStep
    <2>1. UNCHANGED born /\ s <= born
      BY <1>WriteEnds, SessionsAssumption DEF WriteEnds, acceptVars, AcceptOk, Sessions
    <2>2. stopOnExecutor(s) \/ UNCHANGED <<stopped, sessions>>
      BY <1>WriteEnds DEF WriteEnds, stopVars, countVars
    <2> QED  BY <2>1, <2>2, StopMoves
  <1>StopPosted. ASSUME NEW s \in Sessions, StopPosted(s) PROVE SessionStep
    <2>1. UNCHANGED born /\ s <= born
      BY <1>StopPosted, SessionsAssumption DEF StopPosted, acceptVars, AcceptOk, Sessions
    <2>2. stopOnExecutor(s) \/ UNCHANGED <<stopped, sessions>>
      BY <1>StopPosted DEF StopPosted, stopVars, countVars
    <2> QED  BY <2>1, <2>2, StopMoves
  <1>ReadHeader. ASSUME NEW s \in Sessions, ReadHeader(s) PROVE SessionStep
    <2>1. UNCHANGED <<born, stopped>>
      BY <1>ReadHeader DEF ReadHeader, acceptVars, Take
    <2>2. UNCHANGED sessions
      BY <1>ReadHeader, HeaderOutcome DEF Counted, countVars, finishCommand
    <2> QED  BY <1>u, <2>1, <2>2
  <1>ReadBody. ASSUME NEW s \in Sessions, ReadBody(s) PROVE SessionStep
    <2>1. UNCHANGED <<born, stopped>>
      BY <1>ReadBody DEF ReadBody, acceptVars, Take
    <2>2. UNCHANGED sessions
      BY <1>ReadBody DEF ReadBody, Counted, countVars, finishCommand, StartCommand
    <2> QED  BY <1>u, <2>1, <2>2
  <1>Drain. ASSUME NEW s \in Sessions, Drain(s) PROVE SessionStep
    <2>1. UNCHANGED <<born, stopped>>
      BY <1>Drain DEF Drain, acceptVars, Take
    <2>2. UNCHANGED sessions
      BY <1>Drain DEF Drain, Counted, countVars, finishCommand
    <2> QED  BY <1>u, <2>1, <2>2
  <1>SendFails. ASSUME NEW s \in Sessions, SendFails(s) PROVE SessionStep
    <2>1. UNCHANGED <<born, stopped>>
      BY <1>SendFails DEF SendFails, acceptVars, Take
    <2>2. UNCHANGED sessions
      BY <1>SendFails DEF SendFails, Counted, countVars, finishCommand
    <2> QED  BY <1>u, <2>1, <2>2
  <1>FinishCommand. ASSUME NEW s \in Sessions, FinishCommand(s) PROVE
     SessionStep
    <2>1. UNCHANGED <<born, stopped>>
      BY <1>FinishCommand DEF FinishCommand, acceptVars, Take
    <2>2. UNCHANGED sessions
      BY <1>FinishCommand DEF FinishCommand, Counted, countVars, finishCommand
    <2> QED  BY <1>u, <2>1, <2>2
  <1>ReadFails. ASSUME NEW s \in Sessions, ReadFails(s) PROVE SessionStep
    <2>1. UNCHANGED <<born, stopped>>
      BY <1>ReadFails DEF ReadFails, acceptVars, Take
    <2>2. UNCHANGED sessions
      BY <1>ReadFails DEF ReadFails, Counted, countVars, finishCommand
    <2> QED  BY <1>u, <2>1, <2>2
  <1>UploadPrepare. ASSUME NEW s \in Sessions, UploadPrepare(s) PROVE
     SessionStep
    <2>1. UNCHANGED <<born, stopped>>
      BY <1>UploadPrepare DEF UploadPrepare, acceptVars, Take
    <2>2. UNCHANGED sessions
      BY <1>UploadPrepare DEF UploadPrepare, Counted, countVars, finishCommand
    <2> QED  BY <1>u, <2>1, <2>2
  <1>UploadChunk. ASSUME NEW s \in Sessions, UploadChunk(s) PROVE SessionStep
    <2>1. UNCHANGED <<born, stopped>>
      BY <1>UploadChunk DEF UploadChunk, acceptVars, Take
    <2>2. UNCHANGED sessions
      BY <1>UploadChunk DEF UploadChunk, Counted, countVars, finishCommand
    <2> QED  BY <1>u, <2>1, <2>2
  <1> DEFINE Moved == \/ UNCHANGED <<born, stopped, sessions>>
                      \/ tryStartSession \/ AcceptFails
                      \/ \E s \in Sessions : ReadEnds(s) \/ WriteDone(s) \/
                            WriteFails(s) \/ WriteEnds(s) \/ StopPosted(s) \/
                            ReadHeader(s) \/ ReadBody(s) \/ Drain(s) \/
                            SendFails(s) \/ FinishCommand(s) \/ ReadFails(s) \/
                            UploadPrepare(s) \/ UploadChunk(s)
  <1>o. Moved
    <2>server. CASE Accepts \/ StopBegins \/ Stops \/ OtherProgram
      BY <2>server DEF Accepts, Stops, AcceptBegins, AcceptAborted, AcceptLists,
         sessionStart, StopBegins, MainGoto, UnchangedByMain, stopAccepting,
         StopSessions, Wait, InterfaceShutdown, OtherProgram, UnchangedByPeer,
         acceptVars, countVars, stopVars
    <2>read. ASSUME NEW s \in Sessions, ReadSide(s) PROVE Moved
      BY <2>read DEF ReadSide, commandExec, SendDone, PublishProbe, PublishMove,
         PublishFails, acceptVars, countVars, stopVars
    <2>write. ASSUME NEW s \in Sessions, WriteSide(s) \/ StopPosted(s) PROVE Moved
      BY <2>write DEF WriteSide, WriteReceive, acceptVars, countVars, stopVars
    <2>peer. ASSUME NEW s \in Sessions, Peer(s) PROVE Moved
      BY <2>peer DEF Peer, ClientAsks, UnchangedByPeer, ClientStreams,
         ClientCloses, ClientStalls, acceptVars, countVars, stopVars
    <2> QED  BY <2>server, <2>read, <2>write, <2>peer DEF Next
  <1> QED  BY <1>u, <1>o, <1>tryStartSession, <1>AcceptFails, <1>ReadEnds,
           <1>WriteDone, <1>WriteFails, <1>WriteEnds, <1>StopPosted,
           <1>ReadHeader, <1>ReadBody, <1>Drain, <1>SendFails, <1>FinishCommand,
           <1>ReadFails, <1>UploadPrepare, <1>UploadChunk

\* The counters stay exact.
LEMMA CountsStep ==
    ASSUME LoopsOk, PipesOk, FlagsOk, AcceptOk, CountsOk, Next
    PROVE  CountsOk'
  <1>1. IsFiniteSet(Sessions)
    BY SessionsAssumption, FS_Interval DEF Sessions
  <1>2. IsFiniteSet(InCommands) /\ IsFiniteSet(AliveOnes)
    BY <1>1, FS_Subset DEF InCommands, AliveOnes
  <1>3. Cardinality(InCommands) \in Nat /\ Cardinality(AliveOnes) \in Nat
    BY <1>2, FS_CardinalityType
  <1>4. commands' = Cardinality(InCommands')
    <2>1. CASE CommandsKept
      BY <2>1 DEF CommandsKept, CountsOk
    <2>2. ASSUME NEW s \in Sessions, CommandIn(s) PROVE commands' = Cardinality(InCommands')
      BY <2>2, <1>2, FS_AddElement DEF CommandIn, CountsOk
    <2>3. ASSUME NEW s \in Sessions, CommandOut(s) PROVE commands' = Cardinality(InCommands')
      BY <2>3, <1>2, FS_RemoveElement DEF CommandOut, CountsOk
    <2> QED  BY CommandFlow, <2>1, <2>2, <2>3 DEF CommandStep
  <1>5. sessions' = Cardinality(AliveOnes')
    <2>1. CASE SessionsKept
      BY <2>1 DEF SessionsKept, CountsOk
    <2>2. ASSUME NEW s \in Sessions, SessionIn(s) PROVE sessions' = Cardinality(AliveOnes')
      BY <2>2, <1>2, FS_AddElement DEF SessionIn, CountsOk
    <2>3. ASSUME NEW s \in Sessions, SessionOut(s) PROVE sessions' = Cardinality(AliveOnes')
      BY <2>3, <1>2, FS_RemoveElement DEF SessionOut, CountsOk
    <2> QED  BY SessionFlow, <2>1, <2>2, <2>3 DEF SessionStep
  <1> QED  BY <1>4, <1>5 DEF CountsOk

-----------------------------------------------------------------------------
(* The stop of the server.                                                 *)

\* Anybody but the thread that stops the server can only wake it.
Woken == /\ UNCHANGED <<halting, closing>>
         /\ main' = main \/ (main = "asleep" /\ main' = "wait")

\* What moves the thread that stops the server.
LEMMA MainFlow ==
    ASSUME Next
    PROVE  Woken \/ StopBegins \/ Stops
  <1>u. ASSUME UNCHANGED <<main, halting, closing>> PROVE Woken \/ StopBegins \/ Stops
    BY <1>u DEF Woken
  <1>StopBegins. ASSUME StopBegins PROVE Woken \/ StopBegins \/ Stops
    BY <1>StopBegins
  <1>stopAccepting. ASSUME stopAccepting PROVE Woken \/ StopBegins \/ Stops
    BY <1>stopAccepting DEF Stops
  <1>StopSessions. ASSUME StopSessions PROVE Woken \/ StopBegins \/ Stops
    BY <1>StopSessions DEF Stops
  <1>Wait. ASSUME Wait PROVE Woken \/ StopBegins \/ Stops
    BY <1>Wait DEF Stops
  <1>InterfaceShutdown. ASSUME InterfaceShutdown PROVE Woken \/ StopBegins \/
     Stops
    BY <1>InterfaceShutdown DEF Stops
  <1>tryStartSession. ASSUME tryStartSession PROVE Woken \/ StopBegins \/ Stops
    <2>1. UNCHANGED <<halting, closing>>
      BY <1>tryStartSession DEF tryStartSession, serverVars
    <2>2. main' = main \/ (main = "asleep" /\ main' = "wait")
      BY <1>tryStartSession DEF tryStartSession, Counted, countVars
    <2> QED  BY <2>1, <2>2 DEF Woken
  <1>AcceptFails. ASSUME AcceptFails PROVE Woken \/ StopBegins \/ Stops
    <2>1. UNCHANGED <<halting, closing>>
      BY <1>AcceptFails DEF AcceptFails, serverVars
    <2>2. main' = main \/ (main = "asleep" /\ main' = "wait")
      BY <1>AcceptFails DEF AcceptFails, Counted, countVars
    <2> QED  BY <2>1, <2>2 DEF Woken
  <1>ReadHeader. ASSUME NEW s \in Sessions, ReadHeader(s) PROVE Woken \/
     StopBegins \/ Stops
    <2>1. UNCHANGED <<halting, closing>>
      BY <1>ReadHeader DEF ReadHeader, serverVars
    <2>2. main' = main \/ (main = "asleep" /\ main' = "wait")
      BY <1>ReadHeader, HeaderOutcome DEF Counted, countVars
    <2> QED  BY <2>1, <2>2 DEF Woken
  <1>ReadBody. ASSUME NEW s \in Sessions, ReadBody(s) PROVE Woken \/ StopBegins
     \/ Stops
    <2>1. UNCHANGED <<halting, closing>>
      BY <1>ReadBody DEF ReadBody, serverVars
    <2>2. main' = main \/ (main = "asleep" /\ main' = "wait")
      BY <1>ReadBody DEF ReadBody, Counted, countVars, StartCommand
    <2> QED  BY <2>1, <2>2 DEF Woken
  <1>Drain. ASSUME NEW s \in Sessions, Drain(s) PROVE Woken \/ StopBegins \/
     Stops
    <2>1. UNCHANGED <<halting, closing>>
      BY <1>Drain DEF Drain, serverVars
    <2>2. main' = main \/ (main = "asleep" /\ main' = "wait")
      BY <1>Drain DEF Drain, Counted, countVars, finishCommand
    <2> QED  BY <2>1, <2>2 DEF Woken
  <1>SendFails. ASSUME NEW s \in Sessions, SendFails(s) PROVE Woken \/
     StopBegins \/ Stops
    <2>1. UNCHANGED <<halting, closing>>
      BY <1>SendFails DEF SendFails, serverVars
    <2>2. main' = main \/ (main = "asleep" /\ main' = "wait")
      BY <1>SendFails DEF SendFails, Counted, countVars, finishCommand
    <2> QED  BY <2>1, <2>2 DEF Woken
  <1>FinishCommand. ASSUME NEW s \in Sessions, FinishCommand(s) PROVE Woken \/
     StopBegins \/ Stops
    <2>1. UNCHANGED <<halting, closing>>
      BY <1>FinishCommand DEF FinishCommand, serverVars
    <2>2. main' = main \/ (main = "asleep" /\ main' = "wait")
      BY <1>FinishCommand DEF FinishCommand, Counted, countVars, finishCommand
    <2> QED  BY <2>1, <2>2 DEF Woken
  <1>ReadFails. ASSUME NEW s \in Sessions, ReadFails(s) PROVE Woken \/
     StopBegins \/ Stops
    <2>1. UNCHANGED <<halting, closing>>
      BY <1>ReadFails DEF ReadFails, serverVars
    <2>2. main' = main \/ (main = "asleep" /\ main' = "wait")
      BY <1>ReadFails DEF ReadFails, Counted, countVars, finishCommand
    <2> QED  BY <2>1, <2>2 DEF Woken
  <1>UploadPrepare. ASSUME NEW s \in Sessions, UploadPrepare(s) PROVE Woken \/
     StopBegins \/ Stops
    <2>1. UNCHANGED <<halting, closing>>
      BY <1>UploadPrepare DEF UploadPrepare, serverVars
    <2>2. main' = main \/ (main = "asleep" /\ main' = "wait")
      BY <1>UploadPrepare DEF UploadPrepare, Counted, countVars, finishCommand
    <2> QED  BY <2>1, <2>2 DEF Woken
  <1>UploadChunk. ASSUME NEW s \in Sessions, UploadChunk(s) PROVE Woken \/
     StopBegins \/ Stops
    <2>1. UNCHANGED <<halting, closing>>
      BY <1>UploadChunk DEF UploadChunk, serverVars
    <2>2. main' = main \/ (main = "asleep" /\ main' = "wait")
      BY <1>UploadChunk DEF UploadChunk, Counted, countVars, finishCommand
    <2> QED  BY <2>1, <2>2 DEF Woken
  <1>ReadEnds. ASSUME NEW s \in Sessions, ReadEnds(s) PROVE Woken \/ StopBegins
     \/ Stops
    <2>1. UNCHANGED <<halting, closing>>
      BY <1>ReadEnds DEF ReadEnds, serverVars
    <2>2. main' = main \/ (main = "asleep" /\ main' = "wait")
      BY <1>ReadEnds DEF ReadEnds, Counted, countVars, stopOnExecutor, stopVars
    <2> QED  BY <2>1, <2>2 DEF Woken
  <1>WriteDone. ASSUME NEW s \in Sessions, WriteDone(s) PROVE Woken \/
     StopBegins \/ Stops
    <2>1. UNCHANGED <<halting, closing>>
      BY <1>WriteDone DEF WriteDone, serverVars
    <2>2. main' = main \/ (main = "asleep" /\ main' = "wait")
      BY <1>WriteDone DEF WriteDone, Counted, countVars, stopOnExecutor, stopVars
    <2> QED  BY <2>1, <2>2 DEF Woken
  <1>WriteFails. ASSUME NEW s \in Sessions, WriteFails(s) PROVE Woken \/
     StopBegins \/ Stops
    <2>1. UNCHANGED <<halting, closing>>
      BY <1>WriteFails DEF WriteFails, serverVars
    <2>2. main' = main \/ (main = "asleep" /\ main' = "wait")
      BY <1>WriteFails DEF WriteFails, Counted, countVars, stopOnExecutor, stopVars
    <2> QED  BY <2>1, <2>2 DEF Woken
  <1>WriteEnds. ASSUME NEW s \in Sessions, WriteEnds(s) PROVE Woken \/
     StopBegins \/ Stops
    <2>1. UNCHANGED <<halting, closing>>
      BY <1>WriteEnds DEF WriteEnds, serverVars
    <2>2. main' = main \/ (main = "asleep" /\ main' = "wait")
      BY <1>WriteEnds DEF WriteEnds, Counted, countVars, stopOnExecutor, stopVars
    <2> QED  BY <2>1, <2>2 DEF Woken
  <1>StopPosted. ASSUME NEW s \in Sessions, StopPosted(s) PROVE Woken \/
     StopBegins \/ Stops
    <2>1. UNCHANGED <<halting, closing>>
      BY <1>StopPosted DEF StopPosted, serverVars
    <2>2. main' = main \/ (main = "asleep" /\ main' = "wait")
      BY <1>StopPosted DEF StopPosted, Counted, countVars, stopOnExecutor, stopVars
    <2> QED  BY <2>1, <2>2 DEF Woken
  <1> DEFINE Moved == \/ UNCHANGED <<main, halting, closing>>
                      \/ StopBegins \/ stopAccepting \/ StopSessions \/ Wait \/
                         InterfaceShutdown \/ tryStartSession \/ AcceptFails
                      \/ \E s \in Sessions : ReadHeader(s) \/ ReadBody(s) \/
                            Drain(s) \/ SendFails(s) \/ FinishCommand(s) \/
                            ReadFails(s) \/ UploadPrepare(s) \/ UploadChunk(s)
                            \/ ReadEnds(s) \/ WriteDone(s) \/ WriteFails(s) \/
                            WriteEnds(s) \/ StopPosted(s)
  <1>o. Moved
    <2>server. CASE Accepts \/ StopBegins \/ Stops \/ OtherProgram
      BY <2>server DEF Accepts, Stops, AcceptBegins, AcceptAborted, AcceptLists,
         sessionStart, OtherProgram, UnchangedByPeer, serverVars, countVars,
         stopVars
    <2>read. ASSUME NEW s \in Sessions, ReadSide(s) PROVE Moved
      BY <2>read DEF ReadSide, commandExec, SendDone, PublishProbe, PublishMove,
         PublishFails, serverVars, countVars, stopVars
    <2>write. ASSUME NEW s \in Sessions, WriteSide(s) \/ StopPosted(s) PROVE Moved
      BY <2>write DEF WriteSide, WriteReceive, serverVars, countVars, stopVars
    <2>peer. ASSUME NEW s \in Sessions, Peer(s) PROVE Moved
      BY <2>peer DEF Peer, ClientAsks, UnchangedByPeer, ClientStreams,
         ClientCloses, ClientStalls, serverVars, countVars, stopVars
    <2> QED  BY <2>server, <2>read, <2>write, <2>peer DEF Next
  <1> QED  BY <1>u, <1>o, <1>StopBegins, <1>stopAccepting, <1>StopSessions,
           <1>Wait, <1>InterfaceShutdown, <1>tryStartSession, <1>AcceptFails,
           <1>ReadHeader, <1>ReadBody, <1>Drain, <1>SendFails, <1>FinishCommand,
           <1>ReadFails, <1>UploadPrepare, <1>UploadChunk, <1>ReadEnds,
           <1>WriteDone, <1>WriteFails, <1>WriteEnds, <1>StopPosted

\* Nothing is started after stopAccepting, and nothing is left after wait().
LEMMA MainStep ==
    ASSUME LoopsOk, PipesOk, FlagsOk, AcceptOk, CountsOk, MainOk, Next
    PROVE  MainOk'
  <1>1. closing /\ InCommands = {} => InCommands' = {}
    BY CommandFlow DEF CommandStep, CommandsKept, CommandIn, CommandOut
  <1>2. closing /\ AliveOnes = {} => AliveOnes' = {}
    BY SessionFlow DEF SessionStep, SessionsKept, SessionIn, SessionOut
  <1>3. CASE Woken
    BY <1>1, <1>2, <1>3 DEF Woken, MainOk
  <1>4. CASE StopBegins
    BY <1>4 DEF StopBegins, MainGoto, MainOk
  <1>5. CASE stopAccepting
    BY <1>5 DEF stopAccepting, MainGoto, MainOk
  <1>6. CASE StopSessions
    BY <1>6 DEF StopSessions, MainGoto, MainOk
  <1>7. CASE Wait
    <2>1. UNCHANGED <<halting, closing>> /\ closing
      BY <1>7 DEF Wait, serverVars, MainOk
    <2>2. main' = "asleep" \/ (main' = "waited" /\ commands = 0 /\ sessions = 0)
      BY <1>7 DEF Wait, MainGoto
    <2>3. commands = 0 /\ sessions = 0 => InCommands = {} /\ AliveOnes = {}
      <3>1. IsFiniteSet(Sessions)
        BY SessionsAssumption, FS_Interval DEF Sessions
      <3>2. IsFiniteSet(InCommands) /\ IsFiniteSet(AliveOnes)
        BY <3>1, FS_Subset DEF InCommands, AliveOnes
      <3> QED  BY <3>2, FS_EmptySet DEF CountsOk
    <2> QED  BY <1>1, <1>2, <2>1, <2>2, <2>3 DEF MainOk
  <1>8. CASE InterfaceShutdown
    BY <1>1, <1>2, <1>8 DEF InterfaceShutdown, MainGoto, serverVars, MainOk
  <1> QED  BY MainFlow, <1>3, <1>4, <1>5, <1>6, <1>7, <1>8 DEF Stops

-----------------------------------------------------------------------------
(* Authentication goes ahead of the results.                               *)

\* The replies to t are as they were, and t listens only if it did.
Same(t) == /\ writing'[t] = writing[t] /\ chan'[t] = chan[t] /\ item'[t] = item[t]
           /\ heard'[t] = heard[t] /\ authed'[t] = authed[t]
           /\ Listens(t)' => Listens(t)

LEMMA SamePipe ==
    ASSUME AuthOk, NEW t \in Sessions, Same(t), Listens(t)'
    PROVE  PipeOk(t)'
  <1>1. PipeOk(t)
    BY DEF Same, AuthOk
  <1>2. \A i : AuthAhead(t, i)' <=> AuthAhead(t, i)
    BY DEF Same, AuthAhead
  <1> QED  BY <1>1, <1>2 DEF Same, PipeOk

LEMMA AuthMoves ==
    ASSUME AuthOk, NEW s \in Sessions, \A t \in Sessions \ {s} : Same(t),
           Listens(s)' => PipeOk(s)'
    PROVE  AuthOk'
  BY SamePipe DEF AuthOk

\* readLoop starts to send an answer that has passed the gate, or none.
LEMMA AuthSends ==
    ASSUME AuthOk, PipesOk, FlagsOk, NEW s \in Sessions, rpc[s] # "send",
           NEW it \in Items, NEW l, Send(s, it, l), GoodAuth(it), Result(it) => authed[s],
           UNCHANGED <<chan, writing, heard, stopped, client>>,
           \/ UNCHANGED authed
           \/ it.cmd = "auth" /\ authed' = [authed EXCEPT ![s] = TRUE]
    PROVE  AuthOk'
  <1>1. item[s] = NoItem /\ item' = [item EXCEPT ![s] = it] /\ item'[s] = it
    BY DEF PipesOk, Send
  <1>2. \A t \in Sessions \ {s} : Same(t)
    BY <1>1 DEF Same, Listens, PipesOk, FlagsOk
  <1>3. ASSUME Listens(s)' PROVE PipeOk(s)'
    <2>1. PipeOk(s)
      BY <1>3 DEF AuthOk, Listens
    <2>2. \A i : AuthAhead(s, i)' <=> AuthAhead(s, i)
      BY DEF AuthAhead
    <2>3. authed[s] => AuthAhead(s, Len(chan[s]) + 1)
      BY <1>1, <2>1 DEF PipeOk, NoItem
    <2>4. authed'[s] => authed[s] \/ it.cmd = "auth"
      BY DEF FlagsOk
    <2> QED  BY <1>1, <2>1, <2>2, <2>3, <2>4 DEF PipeOk
  <1> QED  BY <1>2, <1>3, AuthMoves

\* The items readLoop sends.
LEMMA GoodReplies ==
    ASSUME NEW s \in Sessions
    PROVE  /\ \A b \in BOOLEAN : GoodAuth(Error(s, b)) /\ ~Result(Error(s, b))
           /\ \A n : GoodAuth(Answer(s, "ok", n))
           /\ cmd[s] # "auth" => \A w, n : GoodAuth(Answer(s, w, n))
           /\ \A w, n : Result(Answer(s, w, n)) <=> cmd[s] \in {"data", "upload"}
           /\ \A w, n : Answer(s, w, n).cmd = cmd[s]
  BY DEF GoodAuth, Result, Error, Answer

\* A session that is stopped listens no more.
LEMMA AuthStops ==
    ASSUME AuthOk, FlagsOk, PipesOk, NEW s \in Sessions, stopOnExecutor(s),
           writing' = [writing EXCEPT ![s] = NoItem] \/ UNCHANGED writing,
           UNCHANGED <<item, client, authed>>,
           \A t \in Sessions \ {s} : heard'[t] = heard[t]
    PROVE  AuthOk'
  <1>1. stopped'[s] /\ \A t \in Sessions \ {s} : stopped'[t] = stopped[t]
    BY DEF stopOnExecutor, Closed, stopVars, FlagsOk
  <1>2. \A t \in Sessions \ {s} : chan'[t] = chan[t] /\ writing'[t] = writing[t]
    BY DEF stopOnExecutor, Closed, stopVars, PipesOk
  <1>3. \A t \in Sessions \ {s} : Same(t)
    BY <1>1, <1>2 DEF Same, Listens
  <1>4. ~Listens(s)'
    BY <1>1 DEF Listens
  <1> QED  BY <1>3, <1>4, AuthMoves

\* The replies under way.
LEMMA AuthStep ==
    ASSUME LoopsOk, StreamsOk, PipesOk, FlagsOk, AcceptOk, GateOk, AuthOk, Next
    PROVE  AuthOk'
  <1>u. ASSUME UNCHANGED <<writing, chan, item, heard, authed, stopped, client>> PROVE AuthOk'
    <2>1. \A t \in Sessions : Same(t)
      BY <1>u DEF Same, Listens
    <2> QED  BY <2>1, SamePipe DEF AuthOk
  <1>AcceptFails. ASSUME AcceptFails PROVE AuthOk'
    <2>1. UNCHANGED <<writing, chan, item, heard, authed, client>>
      BY <1>AcceptFails DEF AcceptFails, peerVars, heardVars, flagVars
    <2>2. \A t \in Sessions : ~stopped'[t] => ~stopped[t]
      BY <1>AcceptFails DEF AcceptFails, FlagsOk
    <2>3. \A t \in Sessions : Same(t)
      BY <2>1, <2>2 DEF Same, Listens
    <2> QED  BY <2>3, SamePipe DEF AuthOk
  <1>sessionStart. ASSUME sessionStart PROVE AuthOk'
    <2>1. UNCHANGED <<writing, chan, item, heard, authed, stopped>>
      BY <1>sessionStart DEF sessionStart, heardVars, flagVars
    <2>2. born \in Sessions /\ client[born] = "none"
      BY <1>sessionStart, SessionsAssumption DEF sessionStart, AcceptOk, Sessions
    <2>3. \A t \in Sessions : client'[t] # "gone" => client[t] # "gone"
      BY <1>sessionStart, <2>2 DEF sessionStart, FlagsOk
    <2>4. \A t \in Sessions : Same(t)
      BY <2>1, <2>3 DEF Same, Listens
    <2> QED  BY <2>4, SamePipe DEF AuthOk
  <1>ReadHeader. ASSUME NEW s \in Sessions, ReadHeader(s) PROVE AuthOk'
    <2>1. UNCHANGED <<chan, writing, heard, stopped, client, authed>> /\ rpc[s] # "send"
      BY <1>ReadHeader DEF ReadHeader, Take, writeVars, loopVars, peerVars, restVars, heardVars, flagVars
    <2>2. CASE Send(s, Error(s, TRUE), "done")
      BY <2>1, <2>2, ReplyItems, GoodReplies, AuthSends
    <2>3. CASE \E l : Goto(s, l)
      BY <1>u, <2>1, <2>3 DEF Goto
    <2> QED  BY <1>ReadHeader, HeaderOutcome, <2>2, <2>3
  <1>ReadBody. ASSUME NEW s \in Sessions, ReadBody(s) PROVE AuthOk'
    <2>1. UNCHANGED <<chan, writing, heard, stopped, client, authed>> /\ rpc[s] # "send"
      BY <1>ReadBody DEF ReadBody, Take, writeVars, loopVars, peerVars, restVars, heardVars, flagVars
    <2>2. CASE Send(s, Error(s, TRUE), "done")
      BY <2>1, <2>2, ReplyItems, GoodReplies, AuthSends
    <2>3. CASE Goto(s, "exec")
      BY <1>u, <2>1, <2>3 DEF Goto
    <2> QED  BY <1>ReadBody, <2>2, <2>3 DEF ReadBody, StartCommand
  <1>Drain. ASSUME NEW s \in Sessions, Drain(s) PROVE AuthOk'
    <2>1. UNCHANGED <<chan, writing, heard, stopped, client, authed>> /\ rpc[s] # "send"
      BY <1>Drain DEF Drain, Take, writeVars, loopVars, peerVars, restVars, heardVars, flagVars
    <2>2. Send(s, Error(s, FALSE), "loop")
      BY <1>Drain DEF Drain
    <2> QED  BY <2>1, <2>2, ReplyItems, GoodReplies, AuthSends
  <1>commandExec. ASSUME NEW s \in Sessions, commandExec(s) PROVE AuthOk'
    <2>1. UNCHANGED <<chan, writing, heard, stopped, client>> /\ rpc[s] # "send"
      BY <1>commandExec DEF commandExec, Take, writeVars, loopVars, peerVars, restVars, heardVars
    <2>2. /\ Error(s, TRUE) \in Items /\ Error(s, FALSE) \in Items
          /\ Answer(s, "ok", 0) \in Items /\ Answer(s, "file", 0) \in Items
      BY ReplyItems
    <2>3. CASE /\ cmd[s] # "auth" /\ Gate(s, cmd[s]) /\ UNCHANGED authed
               /\ Send(s, Answer(s, "ok", 0), "finish")
      BY <2>1, <2>2, <2>3, GoodReplies, AuthSends DEF Gate
    <2>4. CASE /\ cmd[s] = "auth" /\ Send(s, Answer(s, "ok", 0), "finish")
               /\ authed' = [authed EXCEPT ![s] = TRUE]
      BY <2>1, <2>2, <2>4, GoodReplies, AuthSends
    <2>5. CASE /\ UNCHANGED authed
               /\ Send(s, Error(s, TRUE), "finish") \/ Send(s, Error(s, FALSE), "finish")
      BY <2>1, <2>2, <2>5, GoodReplies, AuthSends
    <2>6. CASE /\ cmd[s] = "data" /\ authed[s] /\ UNCHANGED authed
               /\ Send(s, Answer(s, "file", 0), "finish")
      BY <2>1, <2>2, <2>6, GoodReplies, AuthSends
    <2> QED  BY <1>commandExec, <2>3, <2>4, <2>5, <2>6 DEF commandExec, Gate
  <1>SendDone. ASSUME NEW s \in Sessions, SendDone(s) PROVE AuthOk'
    <2>1. UNCHANGED <<writing, heard, authed, stopped, client>> /\ item' = [item EXCEPT ![s] = NoItem]
      BY <1>SendDone DEF SendDone, peerVars, heardVars
    <2>2. chan' = [chan EXCEPT ![s] = Append(@, item[s])] /\ chan'[s] = Append(chan[s], item[s])
      BY <1>SendDone DEF SendDone, PipesOk
    <2>3. \A t \in Sessions \ {s} : Same(t)
      BY <2>1, <2>2 DEF Same, Listens, PipesOk
    <2>4. ASSUME Listens(s)' PROVE PipeOk(s)'
      <3> DEFINE q == chan[s]
      <3>1. PipeOk(s)
        BY <2>1, <2>4 DEF AuthOk, Listens
      <3>2. /\ q \in Seq(Items) /\ item[s] \in Items /\ Len(q) \in Nat /\ DOMAIN q = 1 .. Len(q)
            /\ item'[s] = NoItem
        BY <2>1, LenProperties DEF PipesOk
      <3>3. /\ DOMAIN chan'[s] = 1 .. Len(q) + 1 /\ Len(chan'[s]) = Len(q) + 1
            /\ \A i \in 1 .. Len(q) : chan'[s][i] = q[i]
            /\ chan'[s][Len(q) + 1] = item[s]
        BY <2>2, <3>2, AppendProperties
      <3>4. \A i : AuthAhead(s, i) => AuthAhead(s, i)'
        BY <2>1, <3>2, <3>3 DEF AuthAhead
      <3>5. \A i \in DOMAIN chan'[s] : Result(chan'[s][i]) => AuthAhead(s, i)'
        <4>1. TAKE i \in DOMAIN chan'[s]
        <4>2. CASE i \in 1 .. Len(q)
          BY <3>1, <3>2, <3>3, <3>4, <4>2 DEF PipeOk
        <4>3. CASE i = Len(q) + 1
          BY <3>1, <3>2, <3>3, <3>4, <4>3 DEF PipeOk
        <4> QED  BY <3>2, <3>3, <4>2, <4>3
      <3>6. authed[s] => AuthAhead(s, Len(chan[s]) + 1)'
        <4>1. CASE item[s].cmd = "auth"
          BY <3>2, <3>3, <4>1 DEF AuthAhead
        <4>2. CASE AuthAhead(s, Len(q) + 1)
          BY <2>1, <3>2, <3>3, <4>2 DEF AuthAhead
        <4> QED  BY <3>1, <4>1, <4>2 DEF PipeOk
      <3>7. ~Result(NoItem) /\ GoodAuth(NoItem)
        BY DEF Result, GoodAuth, NoItem
      <3>8. \A i \in DOMAIN chan'[s] : GoodAuth(chan'[s][i])
        BY <3>1, <3>2, <3>3 DEF PipeOk
      <3> HIDE DEF q
      <3> QED  BY <2>1, <3>1, <3>2, <3>5, <3>6, <3>7, <3>8 DEF PipeOk
    <2> QED  BY <2>3, <2>4, AuthMoves
  <1>SendFails. ASSUME NEW s \in Sessions, SendFails(s) PROVE AuthOk'
    <2>1. UNCHANGED <<writing, chan, heard, authed, stopped, client>> /\ stopped[s]
      BY <1>SendFails DEF SendFails, writeVars, loopVars, flagVars, peerVars, heardVars
    <2>2. \A t \in Sessions \ {s} : item'[t] = item[t]
      BY <1>SendFails DEF SendFails, PipesOk
    <2>3. \A t \in Sessions \ {s} : Same(t)
      BY <2>1, <2>2 DEF Same, Listens
    <2>4. ~Listens(s)'
      BY <2>1 DEF Listens
    <2> QED  BY <2>3, <2>4, AuthMoves
  <1>ReadEnds. ASSUME NEW s \in Sessions, ReadEnds(s) PROVE AuthOk'
    <2>1. UNCHANGED <<writing, item, heard, authed, client>>
      BY <1>ReadEnds DEF ReadEnds, loopVars, flagVars, restVars, heardVars, Goto
    <2>2. CASE UNCHANGED stopVars
      BY <1>u, <2>1, <2>2 DEF stopVars
    <2>3. CASE stopOnExecutor(s)
      BY <2>1, <2>3, AuthStops
    <2> QED  BY <1>ReadEnds, <2>2, <2>3 DEF ReadEnds
  <1>UploadPrepare. ASSUME NEW s \in Sessions, UploadPrepare(s) PROVE AuthOk'
    <2>1. UNCHANGED <<chan, writing, heard, stopped, client, authed>> /\ rpc[s] # "send"
      BY <1>UploadPrepare DEF UploadPrepare, Take, writeVars, loopVars, peerVars, restVars, heardVars, flagVars
    <2>2. authed[s] /\ cmd[s] = "upload"
      BY <1>UploadPrepare DEF UploadPrepare, GateOk
    <2>3. CASE \E l : Send(s, Answer(s, "ready", 0), l)
      BY <2>1, <2>2, <2>3, ReplyItems, GoodReplies, AuthSends
    <2>4. CASE \E l : Send(s, Error(s, FALSE), l)
      BY <2>1, <2>4, ReplyItems, GoodReplies, AuthSends
    <2> QED  BY <1>UploadPrepare, <2>3, <2>4 DEF UploadPrepare
  <1>PublishMove. ASSUME NEW s \in Sessions, PublishMove(s) PROVE AuthOk'
    <2>1. UNCHANGED <<chan, writing, heard, stopped, client, authed>> /\ rpc[s] # "send"
      BY <1>PublishMove DEF PublishMove, Take, writeVars, loopVars, peerVars, restVars, heardVars, flagVars
    <2>2. authed[s] /\ cmd[s] = "upload" /\ tried[s] \in Nat
      BY <1>PublishMove DEF PublishMove, GateOk, LoopsOk
    <2>3. CASE Send(s, Answer(s, "final", tried[s]), "finish")
      BY <2>1, <2>2, <2>3, ReplyItems, GoodReplies, AuthSends
    <2>4. CASE Goto(s, "probe")
      BY <1>u, <2>1, <2>4 DEF Goto
    <2> QED  BY <1>PublishMove, <2>3, <2>4 DEF PublishMove
  <1>PublishFails. ASSUME NEW s \in Sessions, PublishFails(s) PROVE AuthOk'
    <2>1. UNCHANGED <<chan, writing, heard, stopped, client, authed>> /\ rpc[s] # "send"
      BY <1>PublishFails DEF PublishFails, Take, writeVars, loopVars, peerVars, restVars, heardVars, flagVars
    <2>2. Send(s, Error(s, FALSE), "finish")
      BY <1>PublishFails DEF PublishFails
    <2> QED  BY <2>1, <2>2, ReplyItems, GoodReplies, AuthSends
  <1>WriteReceive. ASSUME NEW s \in Sessions, WriteReceive(s) PROVE AuthOk'
    <2>1. UNCHANGED <<item, heard, authed, stopped, client>>
      BY <1>WriteReceive DEF WriteReceive, readVars, flagVars, peerVars, heardVars
    <2>2. CASE UNCHANGED <<chan, writing>>
      BY <1>u, <2>1, <2>2
    <2>3. CASE /\ chan[s] # <<>> /\ chan' = [chan EXCEPT ![s] = Tail(@)]
               /\ writing' = [writing EXCEPT ![s] = Head(chan[s])]
      <3> DEFINE q == chan[s]
      <3>1. \A t \in Sessions \ {s} : Same(t)
        BY <2>1, <2>3 DEF Same, Listens, PipesOk
      <3>2. ASSUME Listens(s)' PROVE PipeOk(s)'
        <4>1. PipeOk(s) /\ writing[s] = NoItem
          BY <1>WriteReceive, <2>1, <3>2 DEF WriteReceive, AuthOk, Listens, PipesOk
        <4>2. /\ q \in Seq(Items) /\ Len(q) \in Nat \ {0} /\ DOMAIN q = 1 .. Len(q)
              /\ chan'[s] = Tail(q) /\ writing'[s] = Head(q)
          BY <2>3, LenProperties, EmptySeq DEF PipesOk
        <4>3. /\ DOMAIN chan'[s] = 1 .. Len(q) - 1 /\ Len(chan'[s]) = Len(q) - 1
              /\ \A i \in 1 .. Len(q) - 1 : chan'[s][i] = q[i + 1]
              /\ writing'[s] = q[1]
          <5>1. q # <<>> /\ Tail(q) \in Seq(Items) /\ Len(Tail(q)) = Len(q) - 1
            BY <2>3, <4>2, HeadTailProperties
          <5>2. \A i \in 1 .. Len(q) - 1 : Tail(q)[i] = q[i + 1]
            BY <4>2, <5>1, HeadTailProperties
          <5>3. DOMAIN Tail(q) = 1 .. Len(q) - 1
            BY <5>1, LenProperties
          <5>4. Head(q) = q[1]
            BY <4>2, <5>1, HeadTailProperties
          <5> QED  BY <4>2, <5>1, <5>2, <5>3, <5>4
        <4>4. ASSUME NEW i \in Int, AuthAhead(s, i) PROVE AuthAhead(s, i - 1)'
          <5>1. CASE "auth" \in heard[s]
            BY <5>1, <2>1 DEF AuthAhead
          <5>2. CASE \E j \in DOMAIN q : j < i /\ q[j].cmd = "auth"
            <6>1. PICK j \in DOMAIN q : j < i /\ q[j].cmd = "auth"
              BY <5>2
            <6>2. CASE j = 1
              BY <4>3, <6>1, <6>2 DEF AuthAhead
            <6>3. CASE j > 1
              <7>1. j - 1 \in DOMAIN chan'[s] /\ chan'[s][j - 1] = q[j] /\ j - 1 < i - 1
                BY <4>2, <4>3, <6>1, <6>3
              <7> QED  BY <6>1, <7>1 DEF AuthAhead
            <6> QED  BY <4>2, <6>1, <6>2, <6>3
          <5> QED  BY <4>1, <4>4, <5>1, <5>2 DEF AuthAhead, NoItem
        <4>5. Result(writing'[s]) => "auth" \in heard'[s]
          <5>1. Result(q[1]) => AuthAhead(s, 1)
            BY <4>1, <4>2 DEF PipeOk
          <5>2. ~\E j \in DOMAIN q : j < 1
            BY <4>2
          <5> QED  BY <2>1, <4>1, <4>3, <5>1, <5>2 DEF AuthAhead, NoItem
        <4>6. \A i \in DOMAIN chan'[s] : Result(chan'[s][i]) => AuthAhead(s, i)'
          <5>1. TAKE i \in DOMAIN chan'[s]
          <5>2. i + 1 \in DOMAIN q /\ chan'[s][i] = q[i + 1] /\ i + 1 \in Int /\ (i + 1) - 1 = i
            BY <4>2, <4>3
          <5>3. Result(q[i + 1]) => AuthAhead(s, i + 1)
            BY <4>1, <5>2 DEF PipeOk
          <5>4. AuthAhead(s, i + 1) => AuthAhead(s, (i + 1) - 1)'
            BY <4>4, <5>2
          <5> QED  BY <5>2, <5>3, <5>4
        <4>7. AuthAhead(s, Len(chan[s]) + 1) => AuthAhead(s, Len(chan[s]) + 1)'
          <5>1. PICK n \in Int : n = Len(q) + 1
            BY <4>2
          <5>2. AuthAhead(s, n) => AuthAhead(s, n - 1)'
            BY <4>4
          <5>3. n - 1 = Len(chan'[s]) + 1
            BY <4>2, <4>3, <5>1
          <5>4. AuthAhead(s, n - 1)' => AuthAhead(s, Len(chan[s]) + 1)'
            BY <5>3 DEF AuthAhead
          <5> QED  BY <5>1, <5>2, <5>4
        <4>8. GoodAuth(writing'[s]) /\ \A i \in DOMAIN chan'[s] : GoodAuth(chan'[s][i])
          BY <4>1, <4>2, <4>3 DEF PipeOk
        <4> HIDE DEF q
        <4> QED  BY <2>1, <4>1, <4>5, <4>6, <4>7, <4>8 DEF PipeOk
      <3> QED  BY <3>1, <3>2, AuthMoves
    <2> QED  BY <1>WriteReceive, <2>2, <2>3 DEF WriteReceive
  <1>WriteDone. ASSUME NEW s \in Sessions, WriteDone(s) PROVE AuthOk'
    <2>1. /\ UNCHANGED <<item, authed, client>> /\ ~stopped[s]
          /\ writing' = [writing EXCEPT ![s] = NoItem]
      BY <1>WriteDone DEF WriteDone, readVars, flagVars
    <2>2. \A t \in Sessions \ {s} : heard'[t] = heard[t]
      BY <1>WriteDone DEF WriteDone, Heard, heardVars, StreamsOk
    <2>3. CASE stopOnExecutor(s)
      BY <2>1, <2>2, <2>3, AuthStops
    <2>4. CASE ~writing[s].close /\ UNCHANGED <<stopped, chan>>
      <3>1. \A t \in Sessions \ {s} : Same(t)
        BY <2>1, <2>2, <2>4 DEF Same, Listens, PipesOk
      <3>2. ASSUME Listens(s)' PROVE PipeOk(s)'
        <4>1. PipeOk(s) /\ client[s] # "gone" /\ writing'[s] = NoItem
          BY <2>1, <2>4, <3>2 DEF AuthOk, Listens, PipesOk
        <4>2. /\ heard[s] \subseteq heard'[s]
              /\ writing[s].what = "ok" => writing[s].cmd \in heard'[s]
          <5> DEFINE it == writing[s]
                     H  == CASE it.close -> {"terminal"}
                             [] it.what = "ok" -> {it.cmd}
                             [] OTHER -> {}
          <5>1. heard' = [heard EXCEPT ![s] = @ \cup H]
            BY <1>WriteDone, <4>1 DEF WriteDone, Heard
          <5>2. it.what = "ok" => H = {it.cmd}
            BY <2>4
          <5> HIDE DEF H
          <5> QED  BY <5>1, <5>2 DEF StreamsOk
        <4>3. \A i : AuthAhead(s, i) => AuthAhead(s, i)'
          BY <2>4, <4>1, <4>2 DEF AuthAhead, PipeOk, GoodAuth
        <4>4. ~Result(NoItem) /\ GoodAuth(NoItem)
          BY DEF Result, GoodAuth, NoItem
        <4> QED  BY <2>1, <2>4, <4>1, <4>3, <4>4 DEF PipeOk
      <3> QED  BY <3>1, <3>2, AuthMoves
    <2> QED  BY <1>WriteDone, <2>3, <2>4 DEF WriteDone
  <1>WriteFails. ASSUME NEW s \in Sessions, WriteFails(s) PROVE AuthOk'
    <2>1. /\ UNCHANGED <<item, heard, authed, client>> /\ stopOnExecutor(s)
          /\ writing' = [writing EXCEPT ![s] = NoItem] \/ UNCHANGED writing
      BY <1>WriteFails DEF WriteFails, readVars, flagVars, loopVars, restVars, heardVars
    <2> QED  BY <2>1, AuthStops
  <1>WriteEnds. ASSUME NEW s \in Sessions, WriteEnds(s) PROVE AuthOk'
    <2>1. /\ UNCHANGED <<item, heard, authed, client>> /\ stopOnExecutor(s)
          /\ writing' = [writing EXCEPT ![s] = NoItem] \/ UNCHANGED writing
      BY <1>WriteEnds DEF WriteEnds, readVars, flagVars, loopVars, restVars, heardVars
    <2> QED  BY <2>1, AuthStops
  <1>StopPosted. ASSUME NEW s \in Sessions, StopPosted(s) PROVE AuthOk'
    <2>1. /\ UNCHANGED <<item, heard, authed, client>> /\ stopOnExecutor(s)
          /\ writing' = [writing EXCEPT ![s] = NoItem] \/ UNCHANGED writing
      BY <1>StopPosted DEF StopPosted, readVars, flagVars, loopVars, restVars, heardVars
    <2> QED  BY <2>1, AuthStops
  <1>ClientCloses. ASSUME NEW s \in Sessions, ClientCloses(s) PROVE AuthOk'
    <2>1. UNCHANGED <<writing, chan, item, heard, authed, stopped>>
      BY <1>ClientCloses DEF ClientCloses, UnchangedByPeer, readVars, flagVars, writeVars, loopVars, heardVars
    <2>2. \A t \in Sessions : client'[t] # "gone" => client[t] # "gone"
      BY <1>ClientCloses DEF ClientCloses, FlagsOk
    <2>3. \A t \in Sessions : Same(t)
      BY <2>1, <2>2 DEF Same, Listens
    <2> QED  BY <2>3, SamePipe DEF AuthOk
  <1>ClientStalls. ASSUME NEW s \in Sessions, ClientStalls(s) PROVE AuthOk'
    <2>1. UNCHANGED <<writing, chan, item, heard, authed, stopped>>
      BY <1>ClientStalls DEF ClientStalls, UnchangedByPeer, readVars, flagVars, writeVars, loopVars, heardVars
    <2>2. \A t \in Sessions : client'[t] # "gone" => client[t] # "gone"
      BY <1>ClientStalls DEF ClientStalls, FlagsOk
    <2>3. \A t \in Sessions : Same(t)
      BY <2>1, <2>2 DEF Same, Listens
    <2> QED  BY <2>3, SamePipe DEF AuthOk
  <1> DEFINE Moved == \/ UNCHANGED <<writing, chan, item, heard, authed,
                            stopped, client>>
                      \/ AcceptFails \/ sessionStart
                      \/ \E s \in Sessions : ReadHeader(s) \/ ReadBody(s) \/
                            Drain(s) \/ commandExec(s) \/ SendDone(s) \/
                            SendFails(s) \/ ReadEnds(s) \/ UploadPrepare(s) \/
                            PublishMove(s) \/ PublishFails(s) \/ WriteReceive(s)
                            \/ WriteDone(s) \/ WriteFails(s) \/ WriteEnds(s) \/
                            StopPosted(s) \/ ClientCloses(s) \/ ClientStalls(s)
  <1>o. Moved
    <2>server. CASE Accepts \/ StopBegins \/ Stops \/ OtherProgram
      BY <2>server DEF Accepts, Stops, AcceptBegins, AcceptAborted,
         tryStartSession, AcceptLists, StopBegins, UnchangedByMain,
         stopAccepting, StopSessions, Wait, InterfaceShutdown, OtherProgram,
         UnchangedByPeer, readVars, flagVars, loopVars, writeVars, heardVars,
         peerVars, stopVars, restVars
    <2>read. ASSUME NEW s \in Sessions, ReadSide(s) PROVE Moved
      BY <2>read DEF ReadSide, FinishCommand, Goto, ReadFails, UploadChunk,
         Take, PublishProbe, readVars, flagVars, loopVars, writeVars, heardVars,
         peerVars, stopVars, restVars
    <2>write. ASSUME NEW s \in Sessions, WriteSide(s) \/ StopPosted(s) PROVE Moved
      BY <2>write DEF WriteSide, readVars, flagVars, loopVars, writeVars,
         heardVars, peerVars, stopVars, restVars
    <2>peer. ASSUME NEW s \in Sessions, Peer(s) PROVE Moved
      BY <2>peer DEF Peer, ClientAsks, UnchangedByPeer, ClientStreams, readVars,
         flagVars, loopVars, writeVars, heardVars, peerVars, stopVars, restVars
    <2> QED  BY <2>server, <2>read, <2>write, <2>peer DEF Next
  <1> QED  BY <1>u, <1>o, <1>AcceptFails, <1>sessionStart, <1>ReadHeader,
           <1>ReadBody, <1>Drain, <1>commandExec, <1>SendDone, <1>SendFails,
           <1>ReadEnds, <1>UploadPrepare, <1>PublishMove, <1>PublishFails,
           <1>WriteReceive, <1>WriteDone, <1>WriteFails, <1>WriteEnds,
           <1>StopPosted, <1>ClientCloses, <1>ClientStalls

-----------------------------------------------------------------------------
(* The theorems.                                                           *)

LEMMA InitServer == Init => ServerInv
  <1> SUFFICES ASSUME Init PROVE ServerInv
    OBVIOUS
  <1>1. LoopsOk
    BY DEF Init, LoopsOk
  <1>2. StreamsOk
    <2>1. <<>> \in Seq(Parts)
      BY EmptySeq
    <2> QED  BY <2>1 DEF Init, StreamsOk
  <1>3. PipesOk
    <2>1. <<>> \in Seq(Items) /\ Len(<<>>) = 0 /\ Capacity >= 0
      BY EmptySeq, SessionsAssumption
    <2>2. NoItem \in Items
      BY DEF NoItem, Items
    <2> QED  BY <2>1, <2>2 DEF Init, PipesOk
  <1>4. FlagsOk
    BY SessionsAssumption DEF Init, FlagsOk
  <1>5. AcceptOk
    BY SessionsAssumption DEF Init, AcceptOk
  <1>6. InCommands = {}
    BY DEF Init, InCommands, InCommand
  <1>7. AliveOnes = {}
    BY DEF Init, AliveOnes, Alive, Sessions
  <1>8. CountsOk
    BY <1>6, <1>7, FS_EmptySet DEF Init, CountsOk
  <1>9. MainOk
    BY DEF Init, MainOk
  <1>10. GateOk
    BY DEF Init, GateOk
  <1>11. AuthOk
    <2>1. ASSUME NEW s \in Sessions PROVE PipeOk(s)
      <3>1. writing[s] = NoItem /\ item[s] = NoItem /\ chan[s] = <<>> /\ ~authed[s]
        BY DEF Init
      <3>2. ~Result(NoItem) /\ GoodAuth(NoItem)
        BY DEF Result, GoodAuth, NoItem
      <3>3. DOMAIN <<>> = {}
        OBVIOUS
      <3> QED  BY <3>1, <3>2, <3>3 DEF PipeOk
    <2> QED  BY <2>1 DEF AuthOk
  <1> QED  BY <1>1, <1>2, <1>3, <1>4, <1>5, <1>8, <1>9, <1>10, <1>11 DEF ServerInv

LEMMA NextServer == ServerInv /\ Next => ServerInv'
  <1> SUFFICES ASSUME ServerInv, Next PROVE ServerInv'
    OBVIOUS
  <1>1. /\ LoopsOk /\ StreamsOk /\ PipesOk /\ FlagsOk /\ AcceptOk
        /\ CountsOk /\ MainOk /\ GateOk /\ AuthOk
    BY DEF ServerInv
  <1>2. LoopsOk' /\ StreamsOk' /\ PipesOk'
    BY <1>1, LoopsStep, StreamsStep, PipesStep
  <1>3. FlagsOk' /\ AcceptOk' /\ GateOk'
    BY <1>1, FlagsStep, AcceptStep, GateStep
  <1>4. CountsOk' /\ MainOk'
    BY <1>1, CountsStep, MainStep
  <1>5. AuthOk'
    BY <1>1, AuthStep
  <1> QED  BY <1>2, <1>3, <1>4, <1>5 DEF ServerInv

LEMMA StutterServer == ServerInv /\ UNCHANGED vars => ServerInv'
  <1> SUFFICES ASSUME ServerInv, UNCHANGED vars PROVE ServerInv'
    OBVIOUS
  <1> USE DEF vars, serverVars, acceptVars, countVars, readVars, flagVars, loopVars,
              writeVars, heardVars, peerVars, sinkVars
  <1>1. LoopsOk' /\ FlagsOk'
    BY DEF ServerInv, LoopsOk, FlagsOk
  <1>2. StreamsOk'
    BY DEF ServerInv, StreamsOk
  <1>3. PipesOk'
    BY DEF ServerInv, PipesOk
  <1>4. AcceptOk'
    BY DEF ServerInv, AcceptOk
  <1>5. CountsOk' /\ MainOk'
    BY DEF ServerInv, CountsOk, MainOk, InCommands, InCommand, AliveOnes, Alive
  <1>6. GateOk'
    BY DEF ServerInv, GateOk
  <1>7. AuthOk'
    <2>1. \A t \in Sessions : Same(t)
      BY DEF Same, Listens
    <2> QED  BY <2>1, SamePipe DEF ServerInv, AuthOk
  <1> QED  BY <1>1, <1>2, <1>3, <1>4, <1>5, <1>6, <1>7 DEF ServerInv

\* The invariant holds of every state of the server.
LEMMA ServerHolds == Spec => []ServerInv
  BY InitServer, NextServer, StutterServer, PTL DEF Spec

\* For any number of connections, requests and failures ServerActivity's counters
\* are exact, and so wait() returns only when no command and no session is left and
\* none will be started: Interface::shutdown takes away no command that runs.
THEOREM ActivityExact == Spec => []ActivityInv
  <1>1. ServerInv => ActivityInv
    <2> SUFFICES ASSUME ServerInv PROVE ActivityInv
      OBVIOUS
    <2>1. /\ LoopsOk /\ PipesOk /\ FlagsOk /\ AcceptOk /\ CountsOk /\ MainOk
      BY DEF ServerInv
    <2>2. TypeOK
      <3>1. listed \cup posted \cup late \subseteq Sessions
        BY <2>1, SessionsAssumption DEF AcceptOk, Sessions
      <3>2. /\ commands = Cardinality({s \in Sessions : InCommand(s)})
            /\ sessions = Cardinality({s \in Sessions : Alive(s)})
        BY <2>1 DEF CountsOk, InCommands, AliveOnes
      <3>3. ASSUME NEW s \in Sessions
            PROVE  /\ stopped[s] \in BOOLEAN /\ authed[s] \in BOOLEAN
                   /\ typed[s] \in BOOLEAN /\ terminal[s] \in BOOLEAN
                   /\ rpc[s] \in Reading \cup {"none", "exec", "send", "finish", "probe",
                                               "move", "done", "over"}
                   /\ wpc[s] \in {"none", "receive", "write", "done", "over"}
                   /\ Len(chan[s]) <= Capacity
                   /\ client[s] \in {"none", "up", "stalled", "gone"}
        BY <2>1 DEF LoopsOk, PipesOk, FlagsOk
      <3>4. /\ accept \in {"armed", "checked", "counted", "listed", "off"}
            /\ born \in 0 .. MaxSessions /\ faults \in 0 .. MaxFaults
        BY <2>1 DEF AcceptOk, FlagsOk
      <3>5. /\ main \in {"run", "stopping", "snapshot", "wait", "asleep", "waited", "cleared"}
            /\ halting \in BOOLEAN /\ closing \in BOOLEAN
        BY <2>1 DEF MainOk
      <3> QED  BY <3>1, <3>2, <3>3, <3>4, <3>5 DEF TypeOK
    <2>3. QuietAfterWait
      <3> SUFFICES ASSUME main \in {"waited", "cleared"}, NEW s \in Sessions
                   PROVE  ~InCommand(s) /\ ~Alive(s) /\ accept # "counted"
        BY DEF QuietAfterWait
      <3>1. InCommands = {} /\ AliveOnes = {}
        BY <2>1 DEF MainOk
      <3>2. ~InCommand(s) /\ ~Alive(s)
        BY <3>1 DEF InCommands, AliveOnes
      <3>3. ASSUME accept = "counted" PROVE FALSE
        <4>1. born \in Sessions /\ ~stopped[born] /\ born <= born
          BY <2>1, <3>3, SessionsAssumption DEF AcceptOk, Sessions
        <4> QED  BY <3>1, <4>1 DEF AliveOnes, Alive
      <3> QED  BY <3>2, <3>3
    <2> QED  BY <2>2, <2>3 DEF ActivityInv
  <1> QED  BY <1>1, ServerHolds, PTL

\* What is under way, with w at writeLoop, q in the channel and t at readLoop.
LEMMA PipeIs ==
    ASSUME NEW w \in Items, NEW q \in Seq(Items), NEW t \in Items,
           NEW r, r = <<w>> \o q \o <<t>>
    PROVE  /\ Len(q) \in Nat /\ DOMAIN q = 1 .. Len(q)
           /\ DOMAIN r = 1 .. Len(q) + 2 /\ r[1] = w
           /\ \A i \in 1 .. Len(q) : r[i + 1] = q[i]
           /\ r[Len(q) + 2] = t
  <1>1. /\ <<w>> \in Seq(Items) /\ Len(<<w>>) = 1 /\ <<w>>[1] = w
        /\ <<t>> \in Seq(Items) /\ Len(<<t>>) = 1 /\ <<t>>[1] = t
    OBVIOUS
  <1>2. Len(q) \in Nat /\ DOMAIN q = 1 .. Len(q)
    BY LenProperties
  <1> DEFINE a == <<w>> \o q
  <1>3. /\ a \in Seq(Items) /\ Len(a) = Len(q) + 1 /\ a[1] = w
        /\ \A i \in 1 .. Len(q) : a[i + 1] = q[i]
    BY <1>1, <1>2, ConcatProperties
  <1>4. r = a \o <<t>>
    OBVIOUS
  <1> HIDE DEF a
  <1>5. /\ r \in Seq(Items) /\ Len(r) = Len(q) + 2
        /\ \A i \in 1 .. Len(q) + 1 : r[i] = a[i]
        /\ r[Len(q) + 2] = t
    BY <1>1, <1>2, <1>3, <1>4, ConcatProperties
  <1>6. DOMAIN r = 1 .. Len(q) + 2
    BY <1>5, LenProperties
  <1>7. r[1] = w /\ \A i \in 1 .. Len(q) : r[i + 1] = q[i]
    BY <1>2, <1>3, <1>5
  <1> QED  BY <1>2, <1>5, <1>6, <1>7

\* Whatever the order of the two coroutines and of the commands on the CPU pool: a
\* file, a READY or the result of a data command goes to no client that has not had
\* the answer to its successful authentication first.
THEOREM NoResultBeforeAuth == Spec => []AuthFirst
  <1>1. ServerInv => AuthFirst
    <2> SUFFICES ASSUME ServerInv, NEW s \in Sessions, ~stopped[s], client[s] # "gone"
                 PROVE  LET r == <<writing[s]>> \o chan[s] \o <<item[s]>>
                        IN  \A i \in DOMAIN r : r[i].cmd \in {"data", "upload"} =>
                               "auth" \in heard[s] \/ \E j \in 1 .. i - 1 : r[j].cmd = "auth"
      BY DEF AuthFirst, Pipe
    <2> DEFINE w == writing[s]  q == chan[s]  t == item[s]
               r == <<w>> \o q \o <<t>>
    <2>1. PipeOk(s) /\ w \in Items /\ t \in Items /\ q \in Seq(Items)
      BY DEF ServerInv, AuthOk, Listens, PipesOk
    <2>2. /\ Len(q) \in Nat /\ DOMAIN q = 1 .. Len(q)
          /\ DOMAIN r = 1 .. Len(q) + 2 /\ r[1] = w
          /\ \A i \in 1 .. Len(q) : r[i + 1] = q[i]
          /\ r[Len(q) + 2] = t
      <3> HIDE DEF w, q, t
      <3> QED  BY <2>1, PipeIs
    <2> HIDE DEF r
    <2>3. ASSUME NEW n \in 1 .. Len(q) + 1, AuthAhead(s, n)
          PROVE  "auth" \in heard[s] \/ \E j \in 1 .. n : r[j].cmd = "auth"
      <3>1. CASE "auth" \in heard[s]
        BY <3>1
      <3>2. CASE w.cmd = "auth"
        BY <2>2, <3>2
      <3>3. CASE \E j \in DOMAIN q : j < n /\ q[j].cmd = "auth"
        <4>1. PICK j \in DOMAIN q : j < n /\ q[j].cmd = "auth"
          BY <3>3
        <4>2. j + 1 \in 1 .. n /\ r[j + 1].cmd = "auth"
          BY <2>2, <4>1
        <4> QED  BY <4>2
      <3> QED  BY <2>3, <3>1, <3>2, <3>3 DEF AuthAhead
    <2>4. ASSUME NEW i \in DOMAIN r, r[i].cmd \in {"data", "upload"}
          PROVE  "auth" \in heard[s] \/ \E j \in 1 .. i - 1 : r[j].cmd = "auth"
      <3>1. CASE i = 1
        BY <2>1, <2>2, <2>4, <3>1 DEF PipeOk, Result
      <3>2. CASE i \in 2 .. Len(q) + 1
        <4>1. i - 1 \in DOMAIN q /\ r[i] = q[i - 1]
          <5>1. i - 1 \in 1 .. Len(q) /\ (i - 1) + 1 = i
            BY <2>2, <3>2
          <5> QED  BY <2>2, <5>1
        <4>2. AuthAhead(s, i - 1)
          BY <2>1, <2>4, <4>1 DEF PipeOk, Result
        <4>3. i - 1 \in 1 .. Len(q) + 1
          BY <2>2, <4>1
        <4> QED  BY <2>3, <4>2, <4>3
      <3>3. CASE i = Len(q) + 2
        <4>1. AuthAhead(s, Len(q) + 1)
          BY <2>1, <2>2, <2>4, <3>3 DEF PipeOk, Result
        <4>2. Len(q) + 1 \in 1 .. Len(q) + 1 /\ i - 1 = Len(q) + 1
          BY <2>2, <3>3
        <4> QED  BY <2>3, <4>1, <4>2
      <3> QED  BY <2>2, <3>1, <3>2, <3>3
    <2> QED  BY <2>4 DEF r
  <1> QED  BY <1>1, ServerHolds, PTL

-----------------------------------------------------------------------------
(* Sequences, and the parts about values.                                  *)

\* What Tail and Append leave at each index.
LEMMA TailIs ==
    ASSUME NEW S, NEW q \in Seq(S), q # <<>>
    PROVE  /\ Len(q) \in Nat /\ Len(q) >= 1 /\ DOMAIN q = 1 .. Len(q) /\ Head(q) = q[1]
           /\ Head(q) \in S /\ Tail(q) \in Seq(S) /\ Len(Tail(q)) = Len(q) - 1
           /\ DOMAIN Tail(q) = 1 .. Len(q) - 1
           /\ \A i \in 1 .. Len(q) - 1 : Tail(q)[i] = q[i + 1]
  <1>1. Len(q) \in Nat /\ Len(q) >= 1 /\ DOMAIN q = 1 .. Len(q)
    BY LenProperties, EmptySeq
  <1>2. /\ Head(q) \in S /\ Tail(q) \in Seq(S) /\ Len(Tail(q)) = Len(q) - 1
        /\ \A i \in 1 .. Len(Tail(q)) : Tail(q)[i] = q[i + 1]
    BY HeadTailProperties
  <1>3. Head(q) = q[1]
    OBVIOUS
  <1>4. DOMAIN Tail(q) = 1 .. Len(q) - 1
    BY <1>2, LenProperties
  <1> QED  BY <1>1, <1>2, <1>3, <1>4

LEMMA AppendIs ==
    ASSUME NEW S, NEW q \in Seq(S), NEW e \in S
    PROVE  /\ Len(q) \in Nat /\ DOMAIN q = 1 .. Len(q)
           /\ Append(q, e) \in Seq(S) /\ Len(Append(q, e)) = Len(q) + 1
           /\ DOMAIN Append(q, e) = 1 .. Len(q) + 1
           /\ \A i \in 1 .. Len(q) : Append(q, e)[i] = q[i]
           /\ Append(q, e)[Len(q) + 1] = e
  BY AppendProperties, LenProperties

\* Places do not move when a reply joins the channel,
LEMMA PlaceAppend ==
    ASSUME NEW q \in Seq(Items), NEW w \in Items, NEW e \in Items,
           e.what = "ready" => ~ReadyUnder(w, q), e.what # "none"
    PROVE  /\ \A i \in 1 .. Len(q) + 1 : Place(w, Append(q, e), i) = Place(w, q, i)
           /\ Here(w, Append(q, e)) = Here(w, q) + Written(e)
  <1> DEFINE r == Append(q, e)
  <1>1. /\ Len(q) \in Nat /\ DOMAIN q = 1 .. Len(q) /\ Len(r) = Len(q) + 1
        /\ DOMAIN r = 1 .. Len(q) + 1 /\ r[Len(q) + 1] = e
        /\ \A i \in 1 .. Len(q) : r[i] = q[i]
    BY AppendIs
  <1> HIDE DEF r
  <1>2. \A i \in 1 .. Len(q) + 1 : ReadyBefore(r, i) <=> ReadyBefore(q, i)
    BY <1>1 DEF ReadyBefore
  <1>3. ReadyBefore(r, Len(q) + 2) <=> ReadyBefore(q, Len(q) + 1) \/ e.what = "ready"
    BY <1>1 DEF ReadyBefore
  <1>4. e.what = "ready" => ~ReadyBefore(q, Len(q) + 1)
    BY DEF ReadyUnder, ReadyBefore
  <1>5. Written(w) \in {0, 1} /\ (Written(e) = IF e.what = "ready" THEN 0 ELSE 1)
    BY DEF Written, IsReply
  <1>6. \A i \in 1 .. Len(q) + 1 : Place(w, r, i) = Place(w, q, i)
    BY <1>2 DEF Place
  <1>7. Here(w, r) = Here(w, q) + Written(e)
    <2>1. Len(r) + 1 = Len(q) + 2
      BY <1>1
    <2> QED  BY <1>1, <1>3, <1>4, <1>5, <2>1 DEF Here, Place
  <1> QED  BY <1>6, <1>7 DEF r

\* nor when writeLoop takes one.
LEMMA PlaceReceive ==
    ASSUME NEW q \in Seq(Items), q # <<>>, \A i \in DOMAIN q : q[i].what # "none",
           NEW k \in Nat, ReadyLast(NoItem, q, k)
    PROVE  /\ \A i \in 1 .. Len(q) : Place(Head(q), Tail(q), i) = Place(NoItem, q, i + 1)
           /\ Here(Head(q), Tail(q)) = Here(NoItem, q)
           /\ ReadyLast(Head(q), Tail(q), k)
           /\ ReadyUnder(Head(q), Tail(q)) <=> ReadyUnder(NoItem, q)
  <1> DEFINE h == Head(q)  r == Tail(q)
  <1>1. /\ Len(q) \in Nat /\ Len(q) >= 1 /\ DOMAIN q = 1 .. Len(q) /\ h = q[1]
        /\ Len(r) = Len(q) - 1 /\ DOMAIN r = 1 .. Len(q) - 1
        /\ \A i \in 1 .. Len(q) - 1 : r[i] = q[i + 1]
    BY TailIs
  <1> HIDE DEF h, r
  <1>n. Len(q) \in Nat /\ Len(r) = Len(q) - 1
    BY <1>1
  <1>2. NoItem.what = "none" /\ Written(NoItem) = 0
    BY DEF NoItem, Written, IsReply
  <1>3. h.what # "none"
    BY <1>1
  <1>5. \A j \in 1 .. Len(q) : q[j].what = "ready" => Len(q) = j + k
    BY <1>1 DEF ReadyLast
  <1>4. h.what = "ready" => Len(q) = 1 + k
    <2>1. 1 \in 1 .. Len(q)
      BY <1>1
    <2> QED  BY <1>1, <1>5, <2>1
  <1>6. ASSUME NEW i \in 1 .. Len(q) PROVE Place(h, r, i) = Place(NoItem, q, i + 1)
    <2>1. CASE h.what = "ready"
      <3>1. ReadyBefore(q, i + 1)
        BY <1>1, <2>1 DEF ReadyBefore
      <3>2. ~ReadyBefore(r, i)
        <4> SUFFICES ASSUME NEW j \in DOMAIN r, r[j].what = "ready" PROVE FALSE
          BY DEF ReadyBefore
        <4>1. j + 1 \in 1 .. Len(q) /\ q[j + 1].what = "ready" /\ j >= 1
          BY <1>1
        <4>2. Len(q) = (j + 1) + k
          BY <1>5, <4>1
        <4>3. Len(q) = 1 + k
          BY <1>4, <2>1
        <4>4. j \in Nat
          BY <1>1
        <4> QED  BY <4>1, <4>2, <4>3, <4>4
      <3> QED  BY <1>2, <2>1, <3>1, <3>2 DEF Place, Written, IsReply
    <2>2. CASE h.what # "ready"
      <3>1. ReadyBefore(r, i) => ReadyBefore(q, i + 1)
        <4> SUFFICES ASSUME NEW j \in DOMAIN r, j < i, r[j].what = "ready"
                     PROVE  ReadyBefore(q, i + 1)
          BY DEF ReadyBefore
        <4>1. j + 1 \in DOMAIN q /\ j + 1 < i + 1 /\ q[j + 1].what = "ready"
          BY <1>1
        <4> QED  BY <4>1 DEF ReadyBefore
      <3>2. ReadyBefore(q, i + 1) => ReadyBefore(r, i)
        <4> SUFFICES ASSUME NEW j \in DOMAIN q, j < i + 1, q[j].what = "ready"
                     PROVE  ReadyBefore(r, i)
          BY DEF ReadyBefore
        <4>1. j # 1
          BY <1>1, <2>2
        <4>2. j - 1 \in DOMAIN r /\ j - 1 < i /\ r[j - 1] = q[j]
          <5>1. j - 1 \in 1 .. Len(q) - 1 /\ (j - 1) + 1 = j
            BY <1>1, <4>1
          <5> QED  BY <1>1, <5>1
        <4> QED  BY <4>2 DEF ReadyBefore
      <3> QED  BY <1>2, <1>3, <2>2, <3>1, <3>2 DEF Place, Written, IsReply
    <2> QED  BY <2>1, <2>2
  <1>7. Here(h, r) = Here(NoItem, q)
    <2>1. Len(r) + 1 = Len(q) /\ Len(q) \in 1 .. Len(q)
      BY <1>1
    <2> QED  BY <1>6, <2>1 DEF Here
  <1>8. ReadyLast(h, r, k)
    <2>1. h.what = "ready" => Len(r) = k
      BY <1>n, <1>4
    <2>2. ASSUME NEW i \in DOMAIN r, r[i].what = "ready" PROVE Len(r) = i + k
      <3>1. i + 1 \in 1 .. Len(q) /\ q[i + 1].what = "ready"
        BY <1>1, <2>2
      <3>2. Len(q) = (i + 1) + k
        BY <1>5, <3>1
      <3>3. i \in Nat
        BY <1>1
      <3> QED  BY <1>n, <3>2, <3>3
    <2> QED  BY <2>1, <2>2 DEF ReadyLast
  <1>9. ReadyUnder(h, r) <=> ReadyUnder(NoItem, q)
    <2>1. ReadyUnder(h, r) => ReadyUnder(NoItem, q)
      <3>1. CASE h.what = "ready"
        BY <1>1, <3>1 DEF ReadyUnder
      <3>2. ASSUME NEW i \in DOMAIN r, r[i].what = "ready" PROVE ReadyUnder(NoItem, q)
        <4>1. i + 1 \in DOMAIN q /\ q[i + 1].what = "ready"
          BY <1>1, <3>2
        <4> QED  BY <4>1 DEF ReadyUnder
      <3> QED  BY <3>1, <3>2 DEF ReadyUnder
    <2>2. ASSUME NEW j \in DOMAIN q, q[j].what = "ready" PROVE ReadyUnder(h, r)
      <3>1. CASE j = 1
        BY <1>1, <2>2, <3>1 DEF ReadyUnder
      <3>2. CASE j # 1
        <4>1. j - 1 \in DOMAIN r /\ r[j - 1] = q[j]
          <5>1. j - 1 \in 1 .. Len(q) - 1 /\ (j - 1) + 1 = j
            BY <1>1, <3>2
          <5> QED  BY <1>1, <5>1
        <4> QED  BY <2>2, <4>1 DEF ReadyUnder
      <3> QED  BY <3>1, <3>2
    <2> QED  BY <1>2, <2>1, <2>2 DEF ReadyUnder
  <1> QED  BY <1>6, <1>7, <1>8, <1>9 DEF h, r

\* A reply that has been written leaves those behind it a place ahead.
LEMMA PlaceWritten ==
    ASSUME NEW q \in Seq(Items), NEW w \in Items, w.what # "none"
    PROVE  /\ \A i \in 1 .. Len(q) + 1 : Place(NoItem, q, i) = Place(w, q, i) - Written(w)
           /\ Here(NoItem, q) = Here(w, q) - Written(w)
           /\ Written(w) = IF w.what = "ready" THEN 0 ELSE 1
  <1>1. Written(NoItem) = 0 /\ (Written(w) = IF w.what = "ready" THEN 0 ELSE 1)
    BY DEF NoItem, Written, IsReply
  <1>2. \A i \in 1 .. Len(q) + 1 : Place(NoItem, q, i) = Place(w, q, i) - Written(w)
    BY <1>1, LenProperties DEF Place
  <1>3. Len(q) + 1 \in 1 .. Len(q) + 1
    BY LenProperties
  <1> QED  BY <1>1, <1>2, <1>3 DEF Here

\* Places are numbers.
LEMMA Places ==
    ASSUME NEW q \in Seq(Items), NEW w \in Items
    PROVE  /\ \A i \in 1 .. Len(q) + 1 : Place(w, q, i) \in Nat
           /\ \A i \in 1 .. Len(q) : IsReply(q[i]) => Place(w, q, i) >= 1
           /\ Here(w, q) \in Nat /\ Here(w, q) >= 1 /\ Written(w) \in {0, 1}
  <1>1. Len(q) \in Nat /\ DOMAIN q = 1 .. Len(q) /\ Written(w) \in {0, 1}
    BY LenProperties DEF Written
  <1>2. ASSUME NEW i \in 1 .. Len(q) + 1 PROVE ReadyBefore(q, i) => i >= 2
    BY <1>1 DEF ReadyBefore
  <1>3. \A i \in 1 .. Len(q) + 1 : Place(w, q, i) \in Nat /\ Place(w, q, i) >= 1
    BY <1>1, <1>2 DEF Place
  <1>4. Len(q) + 1 \in 1 .. Len(q) + 1
    BY <1>1
  <1> QED  BY <1>1, <1>3, <1>4 DEF Here

\* Replies still answer their requests when one joins the channel,
LEMMA MatchedAppend ==
    ASSUME NEW q \in Seq(Items), NEW w \in Items, NEW e \in Items, NEW a \in Seq(Kinds),
           Matched(w, q, a), e.what # "none", e.what = "ready" => ~ReadyUnder(w, q),
           IsReply(e) => Here(w, q) <= Len(a) /\ e.cmd \in {"none", a[Here(w, q)]}
    PROVE  Matched(w, Append(q, e), a)
  <1> DEFINE r == Append(q, e)
  <1>1. /\ Len(q) \in Nat /\ DOMAIN q = 1 .. Len(q) /\ DOMAIN r = 1 .. Len(q) + 1
        /\ \A i \in 1 .. Len(q) : r[i] = q[i]
        /\ r[Len(q) + 1] = e
    BY AppendIs
  <1>2. /\ \A i \in 1 .. Len(q) + 1 : Place(w, r, i) = Place(w, q, i)
        /\ Here(w, r) = Here(w, q) + Written(e)
    BY PlaceAppend
  <1> HIDE DEF r
  <1>3. Here(w, q) \in Nat /\ Len(a) \in Nat /\ Written(e) = IF IsReply(e) THEN 1 ELSE 0
    BY Places, LenProperties DEF Written
  <1>4. Here(w, r) - 1 <= Len(a)
    BY <1>2, <1>3 DEF Matched
  <1>5. ASSUME NEW i \in DOMAIN r, IsReply(r[i])
        PROVE  Place(w, r, i) <= Len(a) /\ r[i].cmd \in {"none", a[Place(w, r, i)]}
    <2>1. CASE i \in 1 .. Len(q)
      <3>1. i \in DOMAIN q /\ r[i] = q[i] /\ i \in 1 .. Len(q) + 1
        BY <1>1, <2>1
      <3>2. Place(w, r, i) = Place(w, q, i)
        BY <1>2, <3>1
      <3> QED  BY <1>5, <3>1, <3>2 DEF Matched
    <2>2. CASE i = Len(q) + 1
      <3>1. r[i] = e /\ i \in 1 .. Len(q) + 1
        BY <1>1, <2>2
      <3>2. Place(w, r, i) = Here(w, q)
        BY <1>2, <2>2, <3>1 DEF Here
      <3> QED  BY <1>5, <3>1, <3>2
    <2> QED  BY <1>1, <2>1, <2>2
  <1>6. IsReply(w) => Len(a) >= 1 /\ w.cmd \in {"none", a[1]}
    BY DEF Matched
  <1>7. Matched(w, r, a)
    BY <1>4, <1>5, <1>6 DEF Matched
  <1> QED  BY <1>7 DEF r

\* when writeLoop takes the next one,
LEMMA MatchedReceive ==
    ASSUME NEW q \in Seq(Items), NEW a \in Seq(Kinds), q # <<>>,
           \A i \in DOMAIN q : q[i].what # "none",
           NEW k \in Nat, ReadyLast(NoItem, q, k), Matched(NoItem, q, a)
    PROVE  Matched(Head(q), Tail(q), a)
  <1> DEFINE h == Head(q)  r == Tail(q)
  <1>1. /\ Len(q) \in Nat /\ Len(q) >= 1 /\ DOMAIN q = 1 .. Len(q) /\ h = q[1]
        /\ DOMAIN r = 1 .. Len(q) - 1
    BY TailIs
  <1>2. \A i \in 1 .. Len(q) - 1 : r[i] = q[i + 1]
    BY TailIs
  <1>3. \A i \in 1 .. Len(q) : Place(h, r, i) = Place(NoItem, q, i + 1)
    BY PlaceReceive
  <1>4. Here(h, r) = Here(NoItem, q)
    BY PlaceReceive
  <1> HIDE DEF h, r
  <1>5. IsReply(h) => Len(a) >= 1 /\ h.cmd \in {"none", a[1]}
    <2> SUFFICES ASSUME IsReply(q[1]) PROVE Len(a) >= 1 /\ q[1].cmd \in {"none", a[1]}
      BY <1>1
    <2>1. 1 \in DOMAIN q
      BY <1>1
    <2>2. ~ReadyBefore(q, 1)
      BY <1>1 DEF ReadyBefore
    <2>3. Place(NoItem, q, 1) = 1
      BY <2>2 DEF Place, Written, IsReply, NoItem
    <2> QED  BY <2>1, <2>3 DEF Matched
  <1>6. ASSUME NEW i \in DOMAIN r, IsReply(r[i])
        PROVE  Place(h, r, i) <= Len(a) /\ r[i].cmd \in {"none", a[Place(h, r, i)]}
    <2>1. i + 1 \in DOMAIN q /\ i \in 1 .. Len(q)
      BY <1>1
    <2>2. r[i] = q[i + 1] /\ Place(h, r, i) = Place(NoItem, q, i + 1)
      BY <1>1, <1>2, <1>3, <2>1
    <2> QED  BY <1>6, <2>1, <2>2 DEF Matched
  <1>7. Matched(h, r, a)
    BY <1>4, <1>5, <1>6 DEF Matched
  <1> QED  BY <1>7 DEF h, r

\* when it has written it,
LEMMA MatchedWritten ==
    ASSUME NEW q \in Seq(Items), NEW w \in Items, NEW a \in Seq(Kinds),
           w.what # "none", Matched(w, q, a)
    PROVE  Matched(NoItem, q, IF w.what = "ready" THEN a ELSE Tail(a))
  <1>1. Len(q) \in Nat /\ DOMAIN q = 1 .. Len(q) /\ Len(a) \in Nat
    BY LenProperties
  <1>2. /\ \A i \in 1 .. Len(q) + 1 : Place(NoItem, q, i) = Place(w, q, i) - Written(w)
        /\ Here(NoItem, q) = Here(w, q) - Written(w)
        /\ Written(w) = IF w.what = "ready" THEN 0 ELSE 1
    BY PlaceWritten
  <1>3. ~IsReply(NoItem)
    BY DEF IsReply, NoItem
  <1>4. /\ \A i \in 1 .. Len(q) + 1 : Place(NoItem, q, i) \in Nat /\ Place(w, q, i) \in Nat
        /\ \A i \in 1 .. Len(q) : IsReply(q[i]) => Place(NoItem, q, i) >= 1
        /\ Here(w, q) \in Nat
    <2>1. NoItem \in Items
      BY DEF NoItem, Items
    <2> QED  BY <2>1, Places
  <1>5. CASE w.what = "ready"
    <2>1. Here(NoItem, q) - 1 <= Len(a)
      BY <1>2, <1>4, <1>5 DEF Matched
    <2>2. ASSUME NEW i \in DOMAIN q PROVE Place(NoItem, q, i) = Place(w, q, i)
      BY <1>1, <1>2, <1>4, <1>5
    <2> QED  BY <1>3, <1>5, <2>1, <2>2 DEF Matched
  <1>6. CASE w.what # "ready"
    <2> DEFINE b == Tail(a)
    <2>1. IsReply(w)
      BY <1>6 DEF IsReply
    <2>2. Len(a) >= 1
      BY <2>1 DEF Matched
    <2>3. a # <<>>
      BY <2>2
    <2>4. Len(b) = Len(a) - 1 /\ \A i \in 1 .. Len(a) - 1 : b[i] = a[i + 1]
      BY <2>3, TailIs
    <2> HIDE DEF b
    <2>5. Here(NoItem, q) - 1 <= Len(b)
      BY <1>1, <1>2, <1>4, <1>6, <2>4 DEF Matched
    <2>6. ASSUME NEW i \in DOMAIN q, IsReply(q[i])
          PROVE  /\ Place(NoItem, q, i) <= Len(b)
                 /\ q[i].cmd \in {"none", b[Place(NoItem, q, i)]}
      <3> DEFINE n == Place(NoItem, q, i)
      <3>1. i \in 1 .. Len(q) + 1 /\ i \in 1 .. Len(q)
        BY <1>1
      <3>2. n \in Nat /\ n >= 1
        BY <1>4, <2>6, <3>1
      <3>3. Place(w, q, i) = n + 1
        <4>1. n = Place(w, q, i) - Written(w) /\ Written(w) = 1
          BY <1>2, <1>6, <3>1
        <4>2. Place(w, q, i) \in Nat
          BY <1>4, <3>1
        <4> QED  BY <4>1, <4>2
      <3> HIDE DEF n
      <3>4. n + 1 <= Len(a) /\ q[i].cmd \in {"none", a[n + 1]}
        BY <2>6, <3>3 DEF Matched
      <3>5. n \in 1 .. Len(a) - 1
        BY <1>1, <3>2, <3>4
      <3>6. n <= Len(b) /\ q[i].cmd \in {"none", b[n]}
        BY <1>1, <2>4, <3>4, <3>5
      <3> QED  BY <3>6 DEF n
    <2>7. Matched(NoItem, q, b)
      BY <1>3, <2>5, <2>6 DEF Matched
    <2> QED  BY <1>6, <2>7 DEF b
  <1> QED  BY <1>5, <1>6

\* and when the client sends a request.
LEMMA MatchedAsked ==
    ASSUME NEW q \in Seq(Items), NEW w \in Items, NEW a \in Seq(Kinds), NEW k \in Kinds,
           Matched(w, q, a)
    PROVE  Matched(w, q, Append(a, k))
  <1> DEFINE b == Append(a, k)
  <1>1. /\ Len(a) \in Nat /\ Len(b) = Len(a) + 1
        /\ \A i \in 1 .. Len(a) : b[i] = a[i]
    BY AppendIs
  <1>2. /\ \A i \in 1 .. Len(q) + 1 : Place(w, q, i) \in Nat
        /\ \A i \in 1 .. Len(q) : IsReply(q[i]) => Place(w, q, i) >= 1
        /\ Here(w, q) \in Nat /\ Len(q) \in Nat /\ DOMAIN q = 1 .. Len(q)
    BY Places, LenProperties
  <1> HIDE DEF b
  <1>3. Here(w, q) - 1 <= Len(b)
    BY <1>1, <1>2 DEF Matched
  <1>4. IsReply(w) => Len(b) >= 1 /\ w.cmd \in {"none", b[1]}
    BY <1>1 DEF Matched
  <1>5. ASSUME NEW i \in DOMAIN q, IsReply(q[i])
        PROVE  Place(w, q, i) <= Len(b) /\ q[i].cmd \in {"none", b[Place(w, q, i)]}
    <2> DEFINE n == Place(w, q, i)
    <2>1. n \in Nat /\ n >= 1
      BY <1>2, <1>5
    <2>2. n <= Len(a) /\ q[i].cmd \in {"none", a[n]}
      BY <1>5 DEF Matched
    <2> HIDE DEF n
    <2>3. n \in 1 .. Len(a) /\ n <= Len(b)
      BY <1>1, <2>1, <2>2
    <2>4. b[n] = a[n]
      BY <1>1, <2>3
    <2>5. n <= Len(b) /\ q[i].cmd \in {"none", b[n]}
      BY <2>2, <2>3, <2>4
    <2> QED  BY <2>5 DEF n
  <1>6. Matched(w, q, b)
    BY <1>3, <1>4, <1>5 DEF Matched
  <1> QED  BY <1>6 DEF b

\* The client is told of its negotiation at the same place, when a reply joins the
\* channel,
LEMMA TypedAppend ==
    ASSUME NEW q \in Seq(Items), NEW w \in Items, NEW e \in Items, NEW h, NEW b \in BOOLEAN,
           TypedRight(h, w, q, b), e.what = "error" => e.typed = b
    PROVE  TypedRight(h, w, Append(q, e), b \/ e.cmd = "negotiate")
  <1> DEFINE r == Append(q, e)
  <1>1. /\ Len(q) \in Nat /\ DOMAIN q = 1 .. Len(q) /\ DOMAIN r = 1 .. Len(q) + 1
        /\ Len(r) = Len(q) + 1
    BY AppendIs
  <1>2. /\ \A i \in 1 .. Len(q) : r[i] = q[i]
        /\ r[Len(q) + 1] = e
    BY AppendIs
  <1> HIDE DEF r
  <1>3. \A i \in 1 .. Len(q) + 1 : ToldAt(h, w, r, i) <=> ToldAt(h, w, q, i)
    BY <1>1, <1>2 DEF ToldAt
  <1>4. ToldAt(h, w, r, Len(q) + 2) <=> ToldAt(h, w, q, Len(q) + 1) \/ e.cmd = "negotiate"
    BY <1>1, <1>2 DEF ToldAt
  <1>5. (b \/ e.cmd = "negotiate") = ToldAt(h, w, r, Len(r) + 1)
    <2>1. Len(r) + 1 = Len(q) + 2
      BY <1>1
    <2>2. b <=> ToldAt(h, w, q, Len(q) + 1)
      BY DEF TypedRight
    <2>3. (b \/ e.cmd = "negotiate") <=> ToldAt(h, w, r, Len(r) + 1)
      BY <1>4, <2>1, <2>2
    <2> QED  BY <2>3 DEF ToldAt
  <1>6. ASSUME NEW i \in DOMAIN r, r[i].what = "error"
        PROVE  r[i].typed = ToldAt(h, w, r, i)
    <2>1. CASE i \in 1 .. Len(q)
      <3>1. i \in DOMAIN q /\ r[i] = q[i] /\ i \in 1 .. Len(q) + 1
        BY <1>1, <1>2, <2>1
      <3>2. q[i].typed = ToldAt(h, w, q, i)
        BY <1>6, <3>1 DEF TypedRight
      <3> QED  BY <1>3, <3>1, <3>2 DEF ToldAt
    <2>2. CASE i = Len(q) + 1
      <3>1. r[i] = e /\ i \in 1 .. Len(q) + 1
        BY <1>1, <1>2, <2>2
      <3>2. b = ToldAt(h, w, q, i)
        BY <2>2 DEF TypedRight
      <3> QED  BY <1>3, <1>6, <3>1, <3>2 DEF ToldAt
    <2> QED  BY <1>1, <2>1, <2>2
  <1>7. w.what = "error" => w.typed = ("negotiate" \in h)
    BY DEF TypedRight
  <1>8. TypedRight(h, w, r, b \/ e.cmd = "negotiate")
    BY <1>5, <1>6, <1>7 DEF TypedRight
  <1> QED  BY <1>8 DEF r

\* when writeLoop takes one,
LEMMA TypedReceive ==
    ASSUME NEW q \in Seq(Items), q # <<>>, NEW h, NEW b, TypedRight(h, NoItem, q, b)
    PROVE  TypedRight(h, Head(q), Tail(q), b)
  <1> DEFINE w == Head(q)  r == Tail(q)
  <1>1. /\ Len(q) \in Nat /\ Len(q) >= 1 /\ DOMAIN q = 1 .. Len(q)
        /\ DOMAIN r = 1 .. Len(q) - 1 /\ Len(r) = Len(q) - 1
    BY TailIs
  <1>2. w = q[1] /\ \A i \in 1 .. Len(q) - 1 : r[i] = q[i + 1]
    BY TailIs
  <1> HIDE DEF w, r
  <1>3. ASSUME NEW i \in 1 .. Len(q) PROVE ToldAt(h, w, r, i) <=> ToldAt(h, NoItem, q, i + 1)
    <2>1. ASSUME NEW j \in DOMAIN r, j < i, r[j].cmd = "negotiate"
          PROVE  \E n \in DOMAIN q : n < i + 1 /\ q[n].cmd = "negotiate"
      <3>1. j + 1 \in DOMAIN q /\ j + 1 < i + 1
        BY <1>1, <2>1
      <3>2. q[j + 1].cmd = "negotiate"
        BY <1>1, <1>2, <2>1
      <3> QED  BY <3>1, <3>2
    <2>2. ASSUME w.cmd = "negotiate"
          PROVE  \E n \in DOMAIN q : n < i + 1 /\ q[n].cmd = "negotiate"
      <3>1. 1 \in DOMAIN q /\ 1 < i + 1
        BY <1>1
      <3> QED  BY <1>2, <2>2, <3>1
    <2>3. ASSUME NEW n \in DOMAIN q, n < i + 1, q[n].cmd = "negotiate"
          PROVE  w.cmd = "negotiate" \/ \E j \in DOMAIN r : j < i /\ r[j].cmd = "negotiate"
      <3>1. CASE n = 1
        BY <1>2, <2>3, <3>1
      <3>2. CASE n # 1
        <4>1. n - 1 \in 1 .. Len(q) - 1 /\ (n - 1) + 1 = n /\ n - 1 < i
          BY <1>1, <2>3, <3>2
        <4>2. n - 1 \in DOMAIN r /\ r[n - 1] = q[n]
          BY <1>1, <1>2, <4>1
        <4> QED  BY <2>3, <4>1, <4>2
      <3> QED  BY <3>1, <3>2
    <2>4. NoItem.cmd # "negotiate"
      BY DEF NoItem
    <2> QED  BY <2>1, <2>2, <2>3, <2>4 DEF ToldAt
  <1>4. b = ToldAt(h, w, r, Len(r) + 1)
    <2>1. Len(r) + 1 = Len(q) /\ Len(q) \in 1 .. Len(q)
      BY <1>1
    <2>2. b = ToldAt(h, NoItem, q, Len(q) + 1)
      BY DEF TypedRight
    <2> QED  BY <1>3, <2>1, <2>2 DEF ToldAt
  <1>5. w.what = "error" => w.typed = ("negotiate" \in h)
    <2> SUFFICES ASSUME w.what = "error" PROVE w.typed = ("negotiate" \in h)
      OBVIOUS
    <2>1. 1 \in DOMAIN q
      BY <1>1
    <2>2. w.typed = ToldAt(h, NoItem, q, 1)
      BY <1>2, <2>1 DEF TypedRight
    <2>3. ToldAt(h, NoItem, q, 1) = ("negotiate" \in h)
      <3>1. ~\E j \in DOMAIN q : j < 1 /\ q[j].cmd = "negotiate"
        BY <1>1
      <3>2. NoItem.cmd # "negotiate"
        BY DEF NoItem
      <3> DEFINE y == "negotiate" \in h
                 x == y \/ NoItem.cmd = "negotiate"
                      \/ \E j \in DOMAIN q : j < 1 /\ q[j].cmd = "negotiate"
      <3>3. x <=> y
        BY <3>1, <3>2
      <3>4. x \in BOOLEAN /\ y \in BOOLEAN
        OBVIOUS
      <3>5. ToldAt(h, NoItem, q, 1) = x
        BY Zenon DEF ToldAt
      <3> HIDE DEF x
      <3>6. x = y
        BY <3>3, <3>4, Zenon
      <3> QED  BY <3>5, <3>6
    <2> QED  BY <2>2, <2>3
  <1>6. ASSUME NEW i \in DOMAIN r, r[i].what = "error"
        PROVE  r[i].typed = ToldAt(h, w, r, i)
    <2>1. i + 1 \in DOMAIN q /\ i \in 1 .. Len(q) /\ i \in 1 .. Len(q) - 1
      BY <1>1
    <2>2. r[i] = q[i + 1]
      BY <1>2, <2>1
    <2>3. q[i + 1].typed = ToldAt(h, NoItem, q, i + 1)
      BY <1>6, <2>1, <2>2 DEF TypedRight
    <2> QED  BY <1>3, <2>1, <2>2, <2>3 DEF ToldAt
  <1>7. TypedRight(h, w, r, b)
    BY <1>4, <1>5, <1>6 DEF TypedRight
  <1> QED  BY <1>7 DEF w, r

\* and when it is written.
LEMMA TypedWritten ==
    ASSUME NEW q, NEW w \in Items, NEW h, NEW g, NEW b, TypedRight(h, w, q, b),
           "negotiate" \in g <=> "negotiate" \in h \/ w.cmd = "negotiate"
    PROVE  TypedRight(g, NoItem, q, b)
  <1>1. \A i : ToldAt(g, NoItem, q, i) <=> ToldAt(h, w, q, i)
    BY DEF ToldAt, NoItem
  <1>2. NoItem.what # "error"
    BY DEF NoItem
  <1>3. b = ToldAt(g, NoItem, q, Len(q) + 1)
    BY <1>1 DEF TypedRight, ToldAt
  <1>4. \A i \in DOMAIN q : q[i].what = "error" => q[i].typed = ToldAt(g, NoItem, q, i)
    BY <1>1 DEF TypedRight, ToldAt
  <1> QED  BY <1>2, <1>3, <1>4 DEF TypedRight

\* A stream and what is added to it.
LEMMA ConcatIs ==
    ASSUME NEW b \in Seq(Parts), NEW c \in Seq(Parts)
    PROVE  /\ Len(b) \in Nat /\ Len(c) \in Nat
           /\ b \o c \in Seq(Parts) /\ Len(b \o c) = Len(b) + Len(c)
           /\ \A p \in 1 .. Len(b) : (b \o c)[p] = b[p]
           /\ \A p \in 1 .. Len(c) : (b \o c)[Len(b) + p] = c[p]
  <1>1. Len(b) \in Nat /\ Len(c) \in Nat /\ b \o c \in Seq(Parts) /\ Len(b \o c) = Len(b) + Len(c)
    BY LenProperties, ConcatProperties
  <1>2. \A p \in 1 .. Len(b) : (b \o c)[p] = b[p]
    BY <1>1, ConcatProperties
  <1>3. ASSUME NEW p \in 1 .. Len(c) PROVE (b \o c)[Len(b) + p] = c[p]
    <2>1. Len(b) + p \in 1 .. Len(b) + Len(c) /\ ~(Len(b) + p <= Len(b)) /\ (Len(b) + p) - Len(b) = p
      BY <1>1
    <2> QED  BY <1>1, <2>1, ConcatProperties
  <1> QED  BY <1>1, <1>2, <1>3

\* readLoop takes the next part of the stream.
LEMMA NumberedTail ==
    ASSUME NEW b \in Seq(Parts), b # <<>>, NEW a \in Seq(Kinds), NEW n \in Nat,
           Numbered(n, b, a)
    PROVE  IF Head(b) \in Kinds
           THEN n + 1 <= Len(a) /\ a[n + 1] = Head(b) /\ Numbered(n + 1, Tail(b), a)
           ELSE Numbered(n, Tail(b), a)
  <1> DEFINE c == Tail(b)
  <1>1. /\ Len(b) \in Nat /\ Len(b) >= 1 /\ Head(b) = b[1]
        /\ Len(c) = Len(b) - 1
    BY TailIs
  <1>2. \A p \in 1 .. Len(b) - 1 : c[p] = b[p + 1]
    BY TailIs
  <1>3. Len(a) \in Nat
    BY LenProperties
  <1>4. PICK f \in [0 .. Len(b) -> 0 .. Len(a)] : Numbers(f, n, b, a)
    BY DEF Numbered
  <1> HIDE DEF c
  <1> DEFINE g == [p \in 0 .. Len(c) |-> f[p + 1]]
             m == f[1]
  <1>5. g \in [0 .. Len(c) -> 0 .. Len(a)]
    BY <1>1, <1>3, <1>4
  <1>6. \A p \in 0 .. Len(c) : g[p] = f[p + 1] /\ p + 1 \in 0 .. Len(b)
    BY <1>1
  <1> HIDE DEF g
  <1>7. g[0] = m /\ g[Len(c)] = Len(a)
    <2>1. 0 \in 0 .. Len(c) /\ Len(c) \in 0 .. Len(c) /\ Len(c) + 1 = Len(b) /\ 0 + 1 = 1
      BY <1>1
    <2> QED  BY <1>4, <1>6, <2>1 DEF Numbers
  <1>8. \A p, r \in 0 .. Len(c) : p <= r => g[p] <= g[r]
    <2> SUFFICES ASSUME NEW p \in 0 .. Len(c), NEW r \in 0 .. Len(c), p <= r
                 PROVE  f[p + 1] <= f[r + 1]
      BY <1>6
    <2>1. p + 1 \in 0 .. Len(b) /\ r + 1 \in 0 .. Len(b) /\ p + 1 <= r + 1
      BY <1>1
    <2> QED  BY <1>4, <2>1 DEF Numbers
  <1>9. ASSUME NEW p \in 1 .. Len(c)
        PROVE  IF c[p] \in Kinds THEN g[p] = g[p - 1] + 1 /\ a[g[p]] = c[p]
                                 ELSE g[p] = g[p - 1]
    <2>1. /\ p + 1 \in 1 .. Len(b) /\ (p + 1) - 1 = p /\ p \in 0 .. Len(c)
          /\ p - 1 \in 0 .. Len(c) /\ (p - 1) + 1 = p /\ p \in 1 .. Len(b) - 1
      BY <1>1
    <2>2. c[p] = b[p + 1] /\ g[p] = f[p + 1] /\ g[p - 1] = f[p]
      BY <1>2, <1>6, <2>1
    <2>3. IF b[p + 1] \in Kinds THEN f[p + 1] = f[p] + 1 /\ a[f[p + 1]] = b[p + 1]
                                ELSE f[p + 1] = f[p]
      BY <1>4, <2>1 DEF Numbers
    <2> QED  BY <2>2, <2>3
  <1>10. Numbered(m, c, a)
    BY <1>5, <1>7, <1>8, <1>9 DEF Numbers, Numbered
  <1>11. /\ 1 \in 1 .. Len(b) /\ 1 - 1 = 0 /\ m <= Len(a)
    <2>1. 1 \in 1 .. Len(b) /\ 1 \in 0 .. Len(b)
      BY <1>1
    <2> QED  BY <1>3, <1>4, <2>1
  <1>12. IF b[1] \in Kinds THEN f[1] = f[0] + 1 /\ a[f[1]] = b[1] ELSE f[1] = f[0]
    BY <1>4, <1>11 DEF Numbers
  <1>13. f[0] = n
    BY <1>4 DEF Numbers
  <1>14. IF b[1] \in Kinds THEN m = n + 1 /\ a[m] = b[1] ELSE m = n
    BY <1>12, <1>13
  <1> HIDE DEF m
  <1> QED  BY <1>1, <1>10, <1>11, <1>14 DEF c

\* A request is sent.
LEMMA NumberedAsked ==
    ASSUME NEW b \in Seq(Parts), NEW c \in Seq(Parts), NEW a \in Seq(Kinds), NEW n \in Nat,
           NEW k \in Kinds, Len(c) >= 1, c[1] = k,
           \A p \in 2 .. Len(c) : c[p] \notin Kinds, Numbered(n, b, a)
    PROVE  Numbered(n, b \o c, Append(a, k))
  <1> DEFINE d == b \o c  e == Append(a, k)
  <1>1. /\ Len(b) \in Nat /\ Len(c) \in Nat /\ Len(d) = Len(b) + Len(c)
        /\ Len(a) \in Nat /\ Len(e) = Len(a) + 1
    BY ConcatIs, AppendIs
  <1>2. /\ \A p \in 1 .. Len(b) : d[p] = b[p]
        /\ \A p \in 1 .. Len(c) : d[Len(b) + p] = c[p]
    BY ConcatIs
  <1>3. (\A i \in 1 .. Len(a) : e[i] = a[i]) /\ e[Len(a) + 1] = k
    BY AppendIs
  <1>4. PICK f \in [0 .. Len(b) -> 0 .. Len(a)] : Numbers(f, n, b, a)
    BY DEF Numbered
  <1> HIDE DEF d, e
  <1> DEFINE g == [p \in 0 .. Len(d) |-> IF p <= Len(b) THEN f[p] ELSE Len(a) + 1]
  <1>5. /\ \A p \in 0 .. Len(b) : p \in 0 .. Len(d) /\ g[p] = f[p]
        /\ \A p \in 0 .. Len(d) : p > Len(b) => g[p] = Len(a) + 1
    BY <1>1
  <1>6. g \in [0 .. Len(d) -> 0 .. Len(e)]
    BY <1>1, <1>4
  <1> HIDE DEF g
  <1>7. \A p \in 0 .. Len(b) : f[p] \in 0 .. Len(a)
    BY <1>4
  <1>8. g[0] = n /\ g[Len(d)] = Len(e)
    <2>1. 0 \in 0 .. Len(b) /\ Len(d) \in 0 .. Len(d) /\ Len(d) > Len(b)
      BY <1>1
    <2> QED  BY <1>1, <1>4, <1>5, <2>1 DEF Numbers
  <1>9. ASSUME NEW p \in 0 .. Len(d), NEW r \in 0 .. Len(d), p <= r PROVE g[p] <= g[r]
    <2>1. CASE r <= Len(b)
      <3>1. p \in 0 .. Len(b) /\ r \in 0 .. Len(b)
        BY <1>1, <1>9, <2>1
      <3> QED  BY <1>4, <1>5, <1>9, <3>1 DEF Numbers
    <2>2. CASE r > Len(b) /\ p > Len(b)
      BY <1>1, <1>5, <2>2
    <2>3. CASE r > Len(b) /\ p <= Len(b)
      <3>1. p \in 0 .. Len(b)
        BY <1>1, <2>3
      <3>2. g[p] \in 0 .. Len(a) /\ g[r] = Len(a) + 1
        BY <1>5, <1>7, <2>3, <3>1
      <3> QED  BY <1>1, <3>2
    <2> QED  BY <1>1, <2>1, <2>2, <2>3
  <1>10. ASSUME NEW p \in 1 .. Len(d)
         PROVE  IF d[p] \in Kinds THEN g[p] = g[p - 1] + 1 /\ e[g[p]] = d[p]
                                  ELSE g[p] = g[p - 1]
    <2>1. CASE p <= Len(b)
      <3>1. p \in 1 .. Len(b) /\ p \in 0 .. Len(b) /\ p - 1 \in 0 .. Len(b)
        BY <1>1, <2>1
      <3>2. d[p] = b[p] /\ g[p] = f[p] /\ g[p - 1] = f[p - 1]
        BY <1>2, <1>5, <3>1
      <3>3. IF b[p] \in Kinds THEN f[p] = f[p - 1] + 1 /\ a[f[p]] = b[p]
                              ELSE f[p] = f[p - 1]
        BY <1>4, <3>1 DEF Numbers
      <3>4. f[p] \in 0 .. Len(a) /\ f[p - 1] \in 0 .. Len(a)
        BY <1>7, <3>1
      <3>5. b[p] \in Kinds => f[p] \in 1 .. Len(a)
        BY <1>1, <3>3, <3>4
      <3> QED  BY <1>3, <3>2, <3>3, <3>5
    <2>2. CASE p = Len(b) + 1
      <3>1. /\ 1 \in 1 .. Len(c) /\ p - 1 = Len(b) /\ Len(b) \in 0 .. Len(b)
            /\ p \in 0 .. Len(d) /\ p > Len(b)
        BY <1>1, <2>2
      <3>2. d[p] = k /\ g[p] = Len(a) + 1 /\ g[p - 1] = f[Len(b)]
        BY <1>2, <1>5, <2>2, <3>1
      <3>3. f[Len(b)] = Len(a)
        BY <1>4 DEF Numbers
      <3> QED  BY <1>3, <3>2, <3>3
    <2>3. CASE p > Len(b) + 1
      <3>1. /\ p - Len(b) \in 2 .. Len(c) /\ p - Len(b) \in 1 .. Len(c)
            /\ Len(b) + (p - Len(b)) = p
        BY <1>1, <2>3
      <3>2. p \in 0 .. Len(d) /\ p - 1 \in 0 .. Len(d) /\ p > Len(b) /\ p - 1 > Len(b)
        BY <1>1, <2>3
      <3>3. d[p] = c[p - Len(b)]
        BY <1>2, <3>1
      <3>4. d[p] \notin Kinds /\ g[p] = Len(a) + 1 /\ g[p - 1] = Len(a) + 1
        BY <1>5, <3>1, <3>2, <3>3
      <3> QED  BY <3>4
    <2>4. p <= Len(b) \/ p = Len(b) + 1 \/ p > Len(b) + 1
      BY <1>1
    <2> QED  BY <2>1, <2>2, <2>3, <2>4
  <1>11. Numbers(g, n, d, e)
    BY <1>8, <1>9, <1>10 DEF Numbers
  <1> QED  BY <1>6, <1>11 DEF Numbered, d, e

\* The chunks of a file follow a request.
LEMMA NumberedChunks ==
    ASSUME NEW b \in Seq(Parts), NEW a \in Seq(Kinds), NEW n \in Nat,
           \A p \in 1 .. Len(b) : b[p] \notin Kinds, Numbered(n, <<>>, a)
    PROVE  Numbered(n, b, a)
  <1>1. Len(b) \in Nat /\ Len(a) \in Nat /\ Len(<<>>) = 0
    BY LenProperties
  <1>2. n = Len(a)
    BY <1>1 DEF Numbered, Numbers
  <1> DEFINE g == [p \in 0 .. Len(b) |-> n]
  <1>3. g \in [0 .. Len(b) -> 0 .. Len(a)] /\ \A p \in 0 .. Len(b) : g[p] = n
    BY <1>1, <1>2
  <1> HIDE DEF g
  <1>4. Numbers(g, n, b, a)
    <2>1. 0 \in 0 .. Len(b) /\ Len(b) \in 0 .. Len(b)
      BY <1>1
    <2>2. \A p \in 1 .. Len(b) : p \in 0 .. Len(b) /\ p - 1 \in 0 .. Len(b)
      BY <1>1
    <2>3. \A p \in 1 .. Len(b) : g[p] = g[p - 1]
      BY <1>3, <2>2
    <2>4. \A p, r \in 0 .. Len(b) : p <= r => g[p] <= g[r]
      BY <1>3
    <2> QED  BY <1>2, <1>3, <2>1, <2>3, <2>4 DEF Numbers
  <1> QED  BY <1>3, <1>4 DEF Numbered

\* A reply has been written: its request is answered.
LEMMA NumberedWritten ==
    ASSUME NEW b \in Seq(Parts), NEW a \in Seq(Kinds), NEW n \in Nat, n >= 1, a # <<>>,
           Numbered(n, b, a)
    PROVE  Numbered(n - 1, b, Tail(a))
  <1> DEFINE e == Tail(a)
  <1>1. Len(b) \in Nat /\ Len(a) \in Nat /\ Len(a) >= 1 /\ Len(e) = Len(a) - 1
    BY TailIs, LenProperties
  <1>2. \A i \in 1 .. Len(a) - 1 : e[i] = a[i + 1]
    BY TailIs
  <1>3. PICK f \in [0 .. Len(b) -> 0 .. Len(a)] : Numbers(f, n, b, a)
    BY DEF Numbered
  <1> HIDE DEF e
  <1>4. \A p \in 0 .. Len(b) : f[p] \in 1 .. Len(a)
    <2> TAKE p \in 0 .. Len(b)
    <2>1. 0 \in 0 .. Len(b) /\ 0 <= p
      BY <1>1
    <2>2. f[0] <= f[p] /\ f[0] = n
      BY <1>3, <2>1 DEF Numbers
    <2>3. f[p] \in 0 .. Len(a)
      BY <1>3
    <2> QED  BY <1>1, <2>2, <2>3
  <1> DEFINE g == [p \in 0 .. Len(b) |-> f[p] - 1]
  <1>5. \A p \in 0 .. Len(b) : g[p] = f[p] - 1
    OBVIOUS
  <1>6. g \in [0 .. Len(b) -> 0 .. Len(e)]
    BY <1>1, <1>4
  <1> HIDE DEF g
  <1>7. g[0] = n - 1 /\ g[Len(b)] = Len(e)
    <2>1. 0 \in 0 .. Len(b) /\ Len(b) \in 0 .. Len(b)
      BY <1>1
    <2> QED  BY <1>1, <1>3, <1>5, <2>1 DEF Numbers
  <1>8. ASSUME NEW p \in 0 .. Len(b), NEW r \in 0 .. Len(b), p <= r PROVE g[p] <= g[r]
    <2>1. f[p] <= f[r]
      BY <1>3, <1>8 DEF Numbers
    <2>2. f[p] \in Int /\ f[r] \in Int
      BY <1>4
    <2> QED  BY <1>5, <2>1, <2>2
  <1>9. ASSUME NEW p \in 1 .. Len(b)
        PROVE  IF b[p] \in Kinds THEN g[p] = g[p - 1] + 1 /\ e[g[p]] = b[p]
                                 ELSE g[p] = g[p - 1]
    <2>1. p \in 0 .. Len(b) /\ p - 1 \in 0 .. Len(b)
      BY <1>1
    <2>2. IF b[p] \in Kinds THEN f[p] = f[p - 1] + 1 /\ a[f[p]] = b[p] ELSE f[p] = f[p - 1]
      BY <1>3 DEF Numbers
    <2>3. g[p] = f[p] - 1 /\ g[p - 1] = f[p - 1] - 1
      BY <1>5, <2>1
    <2>4. f[p] \in 1 .. Len(a) /\ f[p - 1] \in 1 .. Len(a)
      BY <1>4, <2>1
    <2>5. b[p] \notin Kinds => g[p] = g[p - 1]
      BY <2>2, <2>3
    <2>6. ASSUME b[p] \in Kinds PROVE g[p] = g[p - 1] + 1 /\ e[g[p]] = b[p]
      <3>1. f[p] = f[p - 1] + 1 /\ a[f[p]] = b[p]
        BY <2>2, <2>6
      <3> DEFINE x == f[p]  y == f[p - 1]
      <3>4. x \in 1 .. Len(a) /\ y \in 1 .. Len(a) /\ x = y + 1
        BY <2>4, <3>1
      <3> HIDE DEF x, y
      <3>5. x - 1 \in 1 .. Len(a) - 1 /\ (x - 1) + 1 = x /\ x - 1 = (y - 1) + 1
        BY <1>1, <3>4
      <3>2. f[p] - 1 \in 1 .. Len(a) - 1 /\ (f[p] - 1) + 1 = f[p] /\ f[p] - 1 = (f[p - 1] - 1) + 1
        BY <3>5 DEF x, y
      <3>3. e[f[p] - 1] = a[f[p]]
        BY <1>2, <3>2
      <3> QED  BY <2>3, <3>1, <3>2, <3>3
    <2> QED  BY <2>5, <2>6
  <1>10. Numbers(g, n - 1, b, e)
    BY <1>7, <1>8, <1>9 DEF Numbers
  <1> QED  BY <1>6, <1>10 DEF Numbered, e

\* An upload in the stream is the last request there is.
LEMMA NumberedUpload ==
    ASSUME NEW b \in Seq(Parts), NEW a \in Seq(Kinds), NEW n \in Nat, Numbered(n, b, a),
           UploadLast(a), NEW p \in 1 .. Len(b), b[p] = "upload"
    PROVE  AsksUpload(a)
  <1>1. PICK f \in [0 .. Len(b) -> 0 .. Len(a)] : Numbers(f, n, b, a)
    BY DEF Numbered
  <1>2. Len(b) \in Nat /\ Len(a) \in Nat /\ DOMAIN a = 1 .. Len(a)
    BY LenProperties
  <1>3. p \in 0 .. Len(b) /\ p - 1 \in 0 .. Len(b)
    BY <1>2
  <1>4. f[p] \in 0 .. Len(a) /\ f[p - 1] \in 0 .. Len(a)
    BY <1>1, <1>3
  <1>5. f[p] = f[p - 1] + 1 /\ a[f[p]] = "upload"
    BY <1>1 DEF Numbers, Kinds
  <1>6. f[p] \in DOMAIN a
    BY <1>2, <1>4, <1>5
  <1>7. f[p] = Len(a)
    BY <1>5, <1>6 DEF UploadLast
  <1> QED  BY <1>2, <1>5, <1>6, <1>7 DEF AsksUpload

\* What readLoop takes is what it expects, and so is what follows.
LEMMA FramedTail ==
    ASSUME NEW b \in Seq(Parts), b # <<>>, NEW r, NEW n, Framed(r, n, b)
    PROVE  /\ r = "chunk" => /\ Head(b) = "chunk"
                             /\ \A p \in 1 .. Len(Tail(b)) : Tail(b)[p] = "chunk"
           /\ r # "chunk" => /\ Head(b) \in Expected(r, n) /\ Chain(Tail(b))
                             /\ Len(Tail(b)) > 0 => Follows(Head(b), Tail(b)[1])
  <1> DEFINE h == Head(b)  c == Tail(b)
  <1>1. /\ Len(b) \in Nat /\ Len(b) >= 1 /\ h = b[1]
        /\ Len(c) = Len(b) - 1
    BY TailIs
  <1>2. \A p \in 1 .. Len(b) - 1 : c[p] = b[p + 1]
    BY TailIs
  <1> HIDE DEF h, c
  <1>3. ASSUME r = "chunk"
        PROVE  h = "chunk" /\ \A p \in 1 .. Len(c) : c[p] = "chunk"
    <2>1. \A p \in 1 .. Len(b) : b[p] = "chunk"
      BY <1>3 DEF Framed
    <2>2. 1 \in 1 .. Len(b) /\ \A p \in 1 .. Len(c) : p + 1 \in 1 .. Len(b) /\ p \in 1 .. Len(b) - 1
      BY <1>1
    <2> QED  BY <1>1, <1>2, <2>1, <2>2
  <1>4. ASSUME r # "chunk"
        PROVE  h \in Expected(r, n) /\ Chain(c) /\ (Len(c) > 0 => Follows(h, c[1]))
    <2>1. Chain(b) /\ b[1] \in Expected(r, n)
      BY <1>1, <1>4 DEF Framed
    <2>2. Len(c) > 0 => Follows(h, c[1])
      <3> SUFFICES ASSUME Len(c) > 0 PROVE Follows(b[1], c[1])
        BY <1>1
      <3>1. 2 \in 2 .. Len(b) /\ 1 \in 1 .. Len(b) - 1 /\ 2 - 1 = 1 /\ 1 + 1 = 2
        BY <1>1
      <3>2. c[1] = b[2]
        BY <1>2, <3>1
      <3>3. Follows(b[2 - 1], b[2])
        BY <2>1, <3>1 DEF Chain
      <3> QED  BY <3>1, <3>2, <3>3
    <2>3. ASSUME NEW p \in 2 .. Len(c) PROVE Follows(c[p - 1], c[p])
      <3>1. /\ p + 1 \in 2 .. Len(b) /\ (p + 1) - 1 = p /\ (p - 1) + 1 = p
            /\ p \in 1 .. Len(b) - 1 /\ p - 1 \in 1 .. Len(b) - 1
        BY <1>1
      <3>2. c[p] = b[p + 1] /\ c[p - 1] = b[p]
        BY <1>2, <3>1
      <3>3. Follows(b[(p + 1) - 1], b[p + 1])
        BY <2>1, <3>1 DEF Chain
      <3> QED  BY <3>1, <3>2, <3>3
    <2> QED  BY <1>1, <2>1, <2>2, <2>3 DEF Chain
  <1> QED  BY <1>3, <1>4 DEF h, c

\* After a header,
LEMMA FramedHeader ==
    ASSUME NEW b \in Seq(Parts), b # <<>>, NEW n, NEW m, Framed("header", n, b)
    PROVE  /\ Head(b) \in Kinds
           /\ Head(b) = "negotiate" => Framed("exec", m, Tail(b))
           /\ Head(b) \in {"auth", "data"} => Framed("body", m, Tail(b))
           /\ Head(b) \in {"legacyMessage", "legacyUpload"} => Framed("drain", m, Tail(b))
           /\ Head(b) = "upload" => Framed("meta", m, Tail(b))
  <1> DEFINE h == Head(b)  c == Tail(b)
  <1>1. h \in Expected("header", n) /\ Chain(c) /\ (Len(c) > 0 => Follows(h, c[1]))
    BY FramedTail
  <1> HIDE DEF h, c
  <1>2. h \in Kinds
    BY <1>1 DEF Expected
  <1>3. h = "negotiate" => Framed("exec", m, c)
    BY <1>1 DEF Framed, Expected, Follows, Kinds
  <1>4. h \in {"auth", "data"} => Framed("body", m, c)
    BY <1>1 DEF Framed, Expected, Follows, Kinds
  <1>5. h \in {"legacyMessage", "legacyUpload"} => Framed("drain", m, c)
    BY <1>1 DEF Framed, Expected, Follows, Kinds
  <1>6. h = "upload" => Framed("meta", m, c)
    BY <1>1 DEF Framed, Expected, Follows, Kinds
  <1> QED  BY <1>2, <1>3, <1>4, <1>5, <1>6 DEF h, c

\* after a body,
LEMMA FramedBody ==
    ASSUME NEW b \in Seq(Parts), b # <<>>, NEW n, NEW r \in {"body", "drain"}, Framed(r, n, b),
           NEW t, NEW m, t \in {"exec", "finish", "header"} \/ (t = "send" /\ m \in {"loop", "finish"})
    PROVE  Head(b) = "body" /\ Framed(t, m, Tail(b))
  <1> DEFINE h == Head(b)  c == Tail(b)
  <1>1. h \in Expected(r, n) /\ Chain(c) /\ (Len(c) > 0 => Follows(h, c[1]))
    BY FramedTail
  <1> HIDE DEF h, c
  <1>2. h = "body"
    BY <1>1 DEF Expected
  <1>3. Len(c) > 0 => c[1] \in Kinds
    BY <1>1, <1>2 DEF Follows, Kinds
  <1>4. Expected(t, m) = Kinds /\ t # "chunk"
    BY DEF Expected
  <1>5. Framed(t, m, c)
    BY <1>1, <1>3, <1>4 DEF Framed
  <1> QED  BY <1>2, <1>5 DEF h, c

\* and after the metadata of an upload.
LEMMA FramedMeta ==
    ASSUME NEW b \in Seq(Parts), b # <<>>, NEW n, Framed("meta", n, b)
    PROVE  Head(b) = "meta" /\ Tail(b) = <<>>
  <1> DEFINE h == Head(b)  c == Tail(b)
  <1>1. h \in Expected("meta", n) /\ (Len(c) > 0 => Follows(h, c[1]))
    BY FramedTail
  <1>2. c \in Seq(Parts) /\ Len(c) \in Nat
    BY TailIs, LenProperties
  <1> HIDE DEF h, c
  <1>3. h = "meta"
    BY <1>1 DEF Expected
  <1>4. Len(c) = 0
    BY <1>1, <1>2, <1>3 DEF Follows, Kinds
  <1>5. c = <<>>
    BY <1>2, <1>4, EmptySeq
  <1> QED  BY <1>3, <1>5 DEF h, c

\* Where nothing is expected there is nothing.
LEMMA FramedNothing ==
    ASSUME NEW b \in Seq(Parts), NEW r, NEW n, Framed(r, n, b), r # "chunk",
           Expected(r, n) = {}
    PROVE  b = <<>>
  <1>1. Len(b) \in Nat /\ ~(Len(b) > 0)
    BY LenProperties DEF Framed
  <1> QED  BY <1>1, EmptySeq

\* Nothing sent is a stream, and so is what a stop leaves of one.
LEMMA FramedEmpty == \A r, n : Framed(r, n, <<>>)
  <1>1. Len(<<>>) = 0
    OBVIOUS
  <1> QED  BY <1>1 DEF Framed, Chain

\* The first parts of a request, behind whole ones.
LEMMA FramedAsked ==
    ASSUME NEW b \in Seq(Parts), NEW r, NEW n, NEW k \in Kinds, NEW cut \in {1, Len(Frame(k))},
           r # "chunk", Framed(r, n, b), Whole(r, b),
           Len(b) = 0 => Expected(r, n) = Kinds,
           Len(b) > 0 => b[Len(b)] \in {"negotiate", "body"}
    PROVE  /\ Framed(r, n, b \o SubSeq(Frame(k), 1, cut))
           /\ Whole(r, b \o Frame(k))
           /\ SubSeq(Frame(k), 1, Len(Frame(k))) = Frame(k)
           /\ Frame(k) \in Seq(Parts) /\ Len(Frame(k)) >= 1 /\ Frame(k)[1] = k
           /\ \A p \in 2 .. Len(Frame(k)) : Frame(k)[p] \notin Kinds
  <1> DEFINE g == Frame(k)  c == SubSeq(g, 1, cut)
  <1>1. /\ g \in Seq(Parts) /\ Len(g) \in {1, 2} /\ g[1] = k
        /\ Len(g) = 2 => g[2] \in {"meta", "body"} /\ Follows(k, g[2])
        /\ Len(g) = 1 => k = "negotiate"
    <2>1. CASE k = "negotiate"
      <3>1. g = <<k>>
        BY <2>1 DEF Frame
      <3>2. k \in Parts
        BY DEF Parts
      <3>3. <<k>> \in Seq(Parts) /\ Len(<<k>>) = 1 /\ <<k>>[1] = k
        BY <3>2
      <3>4. g \in Seq(Parts) /\ Len(g) = 1 /\ g[1] = k
        BY <3>1, <3>3
      <3> HIDE DEF g
      <3> QED  BY <2>1, <3>4
    <2>2. CASE k = "upload"
      <3>1. g = <<k, "meta">>
        BY <2>2 DEF Frame
      <3>2. k \in Parts /\ "meta" \in Parts
        BY DEF Parts
      <3>3. /\ <<k, "meta">> \in Seq(Parts) /\ Len(<<k, "meta">>) = 2
            /\ <<k, "meta">>[1] = k /\ <<k, "meta">>[2] = "meta"
        BY <3>2
      <3>4. Follows(k, "meta")
        BY <2>2 DEF Follows
      <3> QED  BY <3>1, <3>3, <3>4
    <2>3. CASE k \notin {"negotiate", "upload"}
      <3>1. g = <<k, "body">>
        BY <2>3 DEF Frame
      <3>2. k \in Parts /\ "body" \in Parts
        BY DEF Parts
      <3>3. /\ <<k, "body">> \in Seq(Parts) /\ Len(<<k, "body">>) = 2
            /\ <<k, "body">>[1] = k /\ <<k, "body">>[2] = "body"
        BY <3>2
      <3>4. Follows(k, "body")
        BY <2>3 DEF Follows
      <3> QED  BY <3>1, <3>3, <3>4
    <2> QED  BY <2>1, <2>2, <2>3
  <1> HIDE DEF g
  <1>2. cut \in {1, 2} /\ cut <= Len(g) /\ cut \in 1 .. Len(g)
    <2>1. CASE cut = 1
      BY <2>1, <1>1
    <2>2. CASE cut = Len(g)
      BY <2>2, <1>1
    <2> QED  BY <2>1, <2>2 DEF g
  <1>3. c \in Seq(Parts) /\ Len(c) = cut /\ \A p \in 1 .. cut : c[p] = g[p]
    <2>1. \A p \in 1 .. cut : g[p] \in Parts
      BY <1>1, <1>2
    <2>2. 1 \in Int /\ cut \in Int /\ 1 <= cut + 1
      BY <1>2
    <2>3. /\ SubSeq(g, 1, cut) \in Seq(Parts)
          /\ Len(SubSeq(g, 1, cut)) = IF 1 <= cut THEN cut - 1 + 1 ELSE 0
          /\ \A i \in 1 .. cut - 1 + 1 : SubSeq(g, 1, cut)[i] = g[1 + i - 1]
      BY <2>1, <2>2, SubSeqProperties
    <2> QED  BY <1>2, <2>3
  <1> HIDE DEF c
  <1> DEFINE d == b \o c
  <1>4. Len(b) \in Nat /\ Len(d) = Len(b) + cut
    BY <1>3, ConcatIs
  <1>5. /\ \A p \in 1 .. Len(b) : d[p] = b[p]
        /\ \A p \in 1 .. cut : d[Len(b) + p] = g[p]
    BY <1>3, ConcatIs
  <1> HIDE DEF d
  <1>6. Chain(d)
    <2> SUFFICES ASSUME NEW p \in 2 .. Len(d) PROVE Follows(d[p - 1], d[p])
      BY DEF Chain
    <2>1. CASE p <= Len(b)
      <3>1. p \in 2 .. Len(b) /\ p \in 1 .. Len(b) /\ p - 1 \in 1 .. Len(b)
        BY <1>4, <2>1
      <3>2. Follows(b[p - 1], b[p])
        BY <3>1 DEF Framed, Chain
      <3> QED  BY <1>5, <3>1, <3>2
    <2>2. CASE p = Len(b) + 1
      <3>1. p - 1 = Len(b) /\ Len(b) \in 1 .. Len(b) /\ 1 \in 1 .. cut /\ Len(b) > 0
        BY <1>2, <1>4, <2>2
      <3>2. d[p - 1] = b[Len(b)] /\ d[p] = k
        BY <1>1, <1>5, <2>2, <3>1
      <3>3. b[Len(b)] \in {"negotiate", "body"}
        BY <3>1
      <3> QED  BY <3>2, <3>3 DEF Follows
    <2>3. CASE p > Len(b) + 1
      <3>1. cut = 2 /\ p = Len(b) + 2 /\ p - 1 = Len(b) + 1
        BY <1>2, <1>4, <2>3
      <3>2. 1 \in 1 .. cut /\ 2 \in 1 .. cut
        BY <3>1
      <3>4. Len(g) = 2
        <4>1. cut <= Len(g) /\ (Len(g) = 1 \/ Len(g) = 2)
          BY <1>1, <1>2
        <4>2. ~(2 <= 1) /\ cut = 2
          BY <3>1
        <4>3. Len(g) # 1
          BY <4>1, <4>2, Zenon
        <4> QED  BY <4>1, <4>3
      <3>3. d[p - 1] = g[1] /\ d[p] = g[2]
        BY <1>5, <3>1, <3>2
      <3> QED  BY <1>1, <3>3, <3>4
    <2>4. p <= Len(b) \/ p = Len(b) + 1 \/ p > Len(b) + 1
      BY <1>4
    <2> QED  BY <2>1, <2>2, <2>3, <2>4
  <1>7. d[1] \in Expected(r, n)
    <2>1. CASE Len(b) = 0
      <3>1. 1 \in 1 .. cut /\ Len(b) + 1 = 1
        BY <1>2, <2>1
      <3> QED  BY <1>1, <1>5, <2>1, <3>1
    <2>2. CASE Len(b) > 0
      <3>1. 1 \in 1 .. Len(b)
        BY <1>4, <2>2
      <3> QED  BY <1>5, <2>2, <3>1 DEF Framed
    <2> QED  BY <1>4, <2>1, <2>2
  <1>8. Framed(r, n, d)
    BY <1>6, <1>7 DEF Framed
  <1>9. Whole(r, b \o g)
    <2> DEFINE e == b \o g
    <2>1. Len(e) = Len(b) + Len(g) /\ \A p \in 1 .. Len(g) : e[Len(b) + p] = g[p]
      BY <1>1, ConcatIs
    <2> HIDE DEF e
    <2>2. Len(e) # 0 /\ Len(g) \in 1 .. Len(g)
      BY <1>1, <1>4, <2>1
    <2>3. e[Len(e)] = g[Len(g)]
      BY <2>1, <2>2
    <2>4. g[Len(g)] \in {"negotiate", "body", "meta"}
      BY <1>1
    <2>5. Whole(r, e)
      BY <2>2, <2>3, <2>4 DEF Whole
    <2> QED  BY <2>5 DEF e
  <1>10. SubSeq(g, 1, Len(g)) = g
    <2>1. Len(g) \in Nat
      BY <1>1
    <2> QED  BY <1>1, <2>1
  <1>11. \A p \in 2 .. Len(g) : g[p] \notin Kinds
    <2> SUFFICES ASSUME NEW p \in 2 .. Len(g) PROVE g[p] \notin Kinds
      OBVIOUS
    <2>1. Len(g) = 1 \/ Len(g) = 2
      BY <1>1
    <2>2. p = 2 /\ Len(g) = 2
      <3>1. CASE Len(g) = 1
        BY <3>1
      <3>2. CASE Len(g) = 2
        BY <3>2
      <3> QED  BY <2>1, <3>1, <3>2
    <2>3. g[2] \in {"meta", "body"}
      BY <1>1, <2>2
    <2> QED  BY <2>2, <2>3 DEF Kinds
  <1>12. Framed(r, n, b \o SubSeq(g, 1, cut))
    BY <1>8 DEF c, d
  <1>13. g \in Seq(Parts) /\ Len(g) >= 1 /\ g[1] = k
    BY <1>1
  <1> QED  BY <1>9, <1>10, <1>11, <1>12, <1>13 DEF g

\* A stream that is cut off.
LEMMA CutIs ==
    ASSUME NEW b \in Seq(Parts), NEW k \in {0, 1}
    PROVE  LET c == SubSeq(b, 1, IF b = <<>> THEN 0 ELSE k)
           IN  /\ c \in Seq(Parts) /\ Len(c) \in Nat /\ Len(c) <= Len(b) /\ Len(c) <= 1
               /\ \A p \in 1 .. Len(c) : c[p] = b[p]
  <1>1. Len(b) \in Nat /\ (b # <<>> => Len(b) >= 1) /\ \A i \in 1 .. Len(b) : b[i] \in Parts
    BY LenProperties, EmptySeq
  <1>2. SubSeq(b, 1, 0) = <<>> /\ <<>> \in Seq(Parts) /\ Len(<<>>) = 0
    BY SubSeqEmpty, EmptySeq
  <1>3. ASSUME b # <<>>
        PROVE  /\ SubSeq(b, 1, 1) \in Seq(Parts) /\ Len(SubSeq(b, 1, 1)) = 1
               /\ SubSeq(b, 1, 1)[1] = b[1]
    <2>1. \A i \in 1 .. 1 : b[i] \in Parts
      BY <1>1, <1>3
    <2>2. /\ SubSeq(b, 1, 1) \in Seq(Parts)
          /\ Len(SubSeq(b, 1, 1)) = IF 1 <= 1 THEN 1 - 1 + 1 ELSE 0
          /\ \A i \in 1 .. 1 - 1 + 1 : SubSeq(b, 1, 1)[i] = b[1 + i - 1]
      BY <2>1, SubSeqProperties
    <2> QED  BY <2>2
  <1>4. CASE b = <<>> \/ k = 0
    BY <1>1, <1>2, <1>4
  <1>5. CASE b # <<>> /\ k = 1
    BY <1>1, <1>3, <1>5
  <1> QED  BY <1>4, <1>5

\* A stream cut off is a stream.
LEMMA FramedCut ==
    ASSUME NEW b \in Seq(Parts), NEW c \in Seq(Parts), NEW r, NEW n, Framed(r, n, b),
           Len(c) <= Len(b), Len(c) <= 1, \A p \in 1 .. Len(c) : c[p] = b[p]
    PROVE  Framed(r, n, c)
  <1>1. Len(b) \in Nat /\ Len(c) \in Nat
    BY LenProperties
  <1>2. CASE r = "chunk"
    <2>1. \A p \in 1 .. Len(c) : p \in 1 .. Len(b)
      BY <1>1
    <2> QED  BY <1>2, <2>1 DEF Framed
  <1>3. CASE r # "chunk"
    <2>1. Chain(c)
      BY <1>1 DEF Chain
    <2>2. Len(c) > 0 => c[1] \in Expected(r, n)
      <3> SUFFICES ASSUME Len(c) > 0 PROVE c[1] \in Expected(r, n)
        OBVIOUS
      <3>1. 1 \in 1 .. Len(c) /\ Len(b) > 0
        BY <1>1
      <3> QED  BY <1>3, <3>1 DEF Framed
    <2> QED  BY <1>3, <2>1, <2>2 DEF Framed
  <1> QED  BY <1>2, <1>3

\* What is left of a stream that ends with a request, behind the part taken.
LEMMA WholeTail ==
    ASSUME NEW b \in Seq(Parts), b # <<>>, NEW r, NEW t, Whole(r, b),
           Len(b) = 1 => t \notin {"body", "drain", "meta"}
    PROVE  Whole(t, Tail(b))
  <1> DEFINE c == Tail(b)
  <1>1. Len(b) \in Nat /\ Len(b) >= 1 /\ Len(c) = Len(b) - 1
    BY TailIs
  <1>2. \A p \in 1 .. Len(b) - 1 : c[p] = b[p + 1]
    BY TailIs
  <1> HIDE DEF c
  <1>3. b[Len(b)] \in {"negotiate", "body", "meta", "chunk"}
    BY <1>1 DEF Whole
  <1>4. ASSUME Len(b) = 1 PROVE Whole(t, c)
    BY <1>1, <1>4 DEF Whole
  <1>5. ASSUME Len(b) # 1 PROVE Whole(t, c)
    <2>1. Len(b) - 1 \in 1 .. Len(b) - 1 /\ (Len(b) - 1) + 1 = Len(b) /\ Len(c) # 0
      BY <1>1, <1>5
    <2>2. c[Len(c)] = b[Len(b)]
      BY <1>1, <1>2, <2>1
    <2>3. Whole(t, c)
      BY <1>3, <2>1, <2>2 DEF Whole
    <2> QED  BY <2>3
  <1>6. Whole(t, c)
    BY <1>4, <1>5
  <1> QED  BY <1>6 DEF c

\* A request joins those that wait, or one is answered.
LEMMA AskedMore ==
    ASSUME NEW a \in Seq(Kinds), NEW k \in Kinds, UploadLast(a), ~AsksUpload(a)
    PROVE  Append(a, k) \in Seq(Kinds) /\ UploadLast(Append(a, k))
  <1> DEFINE e == Append(a, k)
  <1>1. Len(a) \in Nat /\ DOMAIN a = 1 .. Len(a) /\ Len(e) = Len(a) + 1 /\ DOMAIN e = 1 .. Len(a) + 1
    BY AppendIs
  <1>2. e \in Seq(Kinds) /\ \A i \in 1 .. Len(a) : e[i] = a[i]
    BY AppendIs
  <1> HIDE DEF e
  <1>3. ASSUME NEW i \in DOMAIN e, e[i] = "upload" PROVE i = Len(e)
    <2> SUFFICES ASSUME i \in 1 .. Len(a) PROVE FALSE
      BY <1>1
    <2>1. i \in DOMAIN a /\ a[i] = "upload" /\ Len(a) > 0
      BY <1>1, <1>2, <1>3
    <2>2. i = Len(a)
      BY <2>1 DEF UploadLast
    <2> QED  BY <2>1, <2>2 DEF AsksUpload
  <1> QED  BY <1>2, <1>3 DEF UploadLast, e

\* The reply to the first request has been written, and the request is no longer waited for.
LEMMA AskedLess ==
    ASSUME NEW a \in Seq(Kinds), UploadLast(a), Len(a) >= 1
    PROVE  /\ a # <<>> /\ Tail(a) \in Seq(Kinds) /\ UploadLast(Tail(a))
           /\ Len(Tail(a)) = Len(a) - 1 /\ \A i \in 1 .. Len(a) - 1 : Tail(a)[i] = a[i + 1]
           /\ Len(a) >= 2 /\ AsksUpload(a) => AsksUpload(Tail(a))
  <1> DEFINE e == Tail(a)
  <1>0. a # <<>>
    OBVIOUS
  <1>1. /\ Len(a) \in Nat /\ DOMAIN a = 1 .. Len(a) /\ Len(e) = Len(a) - 1
        /\ DOMAIN e = 1 .. Len(a) - 1
    BY <1>0, TailIs
  <1>2. e \in Seq(Kinds) /\ \A i \in 1 .. Len(a) - 1 : e[i] = a[i + 1]
    BY <1>0, TailIs
  <1> HIDE DEF e
  <1>3. ASSUME NEW i \in DOMAIN e, e[i] = "upload" PROVE i = Len(e)
    <2>1. i + 1 \in DOMAIN a /\ i \in 1 .. Len(a) - 1
      BY <1>1
    <2>2. a[i + 1] = "upload"
      BY <1>2, <1>3, <2>1
    <2>3. i + 1 = Len(a)
      BY <2>1, <2>2 DEF UploadLast
    <2> QED  BY <1>1, <2>1, <2>3
  <1>4. Len(a) >= 2 /\ AsksUpload(a) => AsksUpload(e)
    <2> SUFFICES ASSUME Len(a) >= 2, AsksUpload(a) PROVE AsksUpload(e)
      OBVIOUS
    <2>1. Len(a) - 1 \in 1 .. Len(a) - 1 /\ (Len(a) - 1) + 1 = Len(a) /\ Len(e) > 0
      BY <1>1
    <2>2. e[Len(e)] = a[Len(a)]
      BY <1>1, <1>2, <2>1
    <2> QED  BY <2>1, <2>2 DEF AsksUpload
  <1> QED  BY <1>0, <1>1, <1>2, <1>3, <1>4 DEF UploadLast, e

\* The place of an upload is the last one.
LEMMA UploadAt ==
    ASSUME NEW a \in Seq(Kinds), UploadLast(a), NEW n \in Nat, n >= 1, n <= Len(a),
           a[n] = "upload"
    PROVE  n = Len(a) /\ AsksUpload(a)
  <1>1. Len(a) \in Nat /\ n \in DOMAIN a
    BY LenProperties
  <1>2. n = Len(a)
    BY <1>1 DEF UploadLast
  <1> QED  BY <1>1, <1>2 DEF AsksUpload

-----------------------------------------------------------------------------
(* What a step changes of a session, and that it changes nothing of the    *)
(* others.                                                                 *)

LoopKept(t) == /\ rpc'[t] = rpc[t] /\ next'[t] = next[t] /\ item'[t] = item[t]
               /\ cmd'[t] = cmd[t]
WireKept(t) == /\ wpc'[t] = wpc[t] /\ writing'[t] = writing[t] /\ chan'[t] = chan[t]
               /\ typed'[t] = typed[t] /\ stopped'[t] = stopped[t]
PeerKept(t) == /\ client'[t] = client[t] /\ asked'[t] = asked[t] /\ owes'[t] = owes[t]
               /\ upload'[t] = upload[t] /\ heard'[t] = heard[t]
SinkKept(t) == staging'[t] = staging[t]
Kept(t)     == /\ LoopKept(t) /\ WireKept(t) /\ PeerKept(t) /\ SinkKept(t)
               /\ inbox'[t] = inbox[t]
Others(s)   == \A t \in Sessions \ {s} : Kept(t)

\* The variables as functions of the session.
LEMMA Maps ==
    ASSUME ServerInv, MapsOk
    PROVE  /\ rpc = [t \in Sessions |-> rpc[t]] /\ next = [t \in Sessions |-> next[t]]
           /\ wpc = [t \in Sessions |-> wpc[t]] /\ cmd = [t \in Sessions |-> cmd[t]]
           /\ client = [t \in Sessions |-> client[t]] /\ item \in [Sessions -> Items]
           /\ writing \in [Sessions -> Items] /\ chan \in [Sessions -> Seq(Items)]
           /\ inbox \in [Sessions -> Seq(Parts)] /\ owes \in [Sessions -> Nat]
           /\ upload \in [Sessions -> [of : Nat, size : Nat]]
           /\ heard \in [Sessions -> SUBSET (Parts \cup {"none", "terminal"})]
           /\ typed \in [Sessions -> BOOLEAN] /\ stopped \in [Sessions -> BOOLEAN]
           /\ asked = [t \in Sessions |-> asked[t]] /\ staging \in [Sessions -> Int]
  <1>1. LoopsOk /\ StreamsOk /\ PipesOk /\ FlagsOk
    BY DEF ServerInv
  <1>2. /\ rpc = [t \in Sessions |-> rpc[t]] /\ next = [t \in Sessions |-> next[t]]
        /\ wpc = [t \in Sessions |-> wpc[t]] /\ cmd = [t \in Sessions |-> cmd[t]]
    BY <1>1 DEF LoopsOk
  <1>4. /\ client = [t \in Sessions |-> client[t]]
        /\ typed \in [Sessions -> BOOLEAN] /\ stopped \in [Sessions -> BOOLEAN]
    BY <1>1 DEF FlagsOk
  <1>5. /\ item \in [Sessions -> Items] /\ writing \in [Sessions -> Items]
        /\ chan \in [Sessions -> Seq(Items)]
    BY <1>1 DEF PipesOk
  <1>6. /\ inbox \in [Sessions -> Seq(Parts)] /\ owes \in [Sessions -> Nat]
        /\ upload \in [Sessions -> [of : Nat, size : Nat]]
        /\ heard \in [Sessions -> SUBSET (Parts \cup {"none", "terminal"})]
    BY <1>1 DEF StreamsOk
  <1> QED  BY <1>2, <1>4, <1>5, <1>6 DEF MapsOk

\* Step by step, what changes at the session; nothing of the others does.
LEMMA DoesReadHeader ==
    ASSUME ServerInv, MapsOk, NEW s \in Sessions, ReadHeader(s)
    PROVE  /\ Others(s) /\ WireKept(s) /\ PeerKept(s) /\ SinkKept(s)
           /\ rpc[s] = "header" /\ inbox[s] # <<>> /\ inbox'[s] = Tail(inbox[s])
           /\ cmd'[s] = Head(inbox[s]) /\ UNCHANGED <<asked, staging>>
           /\ \/ /\ rpc'[s] = "send" /\ next'[s] = "done" /\ item'[s] = Error(s, TRUE)
              \/ /\ item'[s] = item[s] /\ next'[s] = next[s]
                 /\ \/ rpc'[s] = "drain" /\ cmd'[s] \in {"legacyMessage", "legacyUpload"}
                    \/ rpc'[s] = "body" /\ cmd'[s] \in {"auth", "data"}
                    \/ rpc'[s] = "meta" /\ cmd'[s] = "upload"
                    \/ rpc'[s] = "exec" /\ cmd'[s] = "negotiate"
  <1>1. /\ rpc[s] = "header" /\ inbox[s] # <<>> /\ inbox' = [inbox EXCEPT ![s] = Tail(@)]
        /\ cmd' = [cmd EXCEPT ![s] = Head(inbox[s])]
        /\ UNCHANGED <<writeVars, typed, stopped, asked, restVars, staging>>
    BY DEF ReadHeader, Take, flagVars, sinkVars
  <1>2. /\ \A t \in Sessions : WireKept(t) /\ PeerKept(t) /\ SinkKept(t)
        /\ \A t \in Sessions \ {s} : inbox'[t] = inbox[t] /\ cmd'[t] = cmd[t]
        /\ inbox'[s] = Tail(inbox[s]) /\ cmd'[s] = Head(inbox[s])
    BY <1>1, Maps DEF WireKept, PeerKept, SinkKept, writeVars, loopVars, restVars, heardVars
  <1>3. CASE Send(s, Error(s, TRUE), "done")
    <2>1. /\ \A t \in Sessions \ {s} : rpc'[t] = rpc[t] /\ next'[t] = next[t] /\ item'[t] = item[t]
          /\ rpc'[s] = "send" /\ next'[s] = "done" /\ item'[s] = Error(s, TRUE)
      BY <1>3, Maps DEF Send
    <2> QED  BY <1>1, <1>2, <2>1 DEF Others, Kept, LoopKept
  <1>4. CASE \E l \in {"drain", "body", "meta", "exec"} :
                /\ Goto(s, l)
                /\ l = "drain" => Head(inbox[s]) \in {"legacyMessage", "legacyUpload"}
                /\ l = "body" => Head(inbox[s]) \in {"auth", "data"}
                /\ l = "meta" => Head(inbox[s]) = "upload"
                /\ l = "exec" => Head(inbox[s]) = "negotiate"
    <2>1. PICK l \in {"drain", "body", "meta", "exec"} :
                /\ Goto(s, l)
                /\ l = "drain" => Head(inbox[s]) \in {"legacyMessage", "legacyUpload"}
                /\ l = "body" => Head(inbox[s]) \in {"auth", "data"}
                /\ l = "meta" => Head(inbox[s]) = "upload"
                /\ l = "exec" => Head(inbox[s]) = "negotiate"
      BY <1>4
    <2>2. /\ \A t \in Sessions \ {s} : rpc'[t] = rpc[t]
          /\ rpc'[s] = l /\ UNCHANGED <<item, next>>
      BY <2>1, Maps DEF Goto
    <2> QED  BY <1>1, <1>2, <2>1, <2>2 DEF Others, Kept, LoopKept
  <1> QED  BY HeaderOutcome, <1>3, <1>4

LEMMA DoesReadBody ==
    ASSUME ServerInv, MapsOk, NEW s \in Sessions, ReadBody(s)
    PROVE  /\ Others(s) /\ WireKept(s) /\ PeerKept(s) /\ SinkKept(s)
           /\ rpc[s] = "body" /\ inbox[s] # <<>> /\ inbox'[s] = Tail(inbox[s])
           /\ cmd'[s] = cmd[s] /\ UNCHANGED <<asked, staging>>
           /\ \/ /\ rpc'[s] = "send" /\ next'[s] = "done" /\ item'[s] = Error(s, TRUE)
              \/ /\ rpc'[s] = "exec" /\ item'[s] = item[s] /\ next'[s] = next[s]
  <1>1. /\ rpc[s] = "body" /\ inbox[s] # <<>> /\ inbox' = [inbox EXCEPT ![s] = Tail(@)]
        /\ UNCHANGED <<writeVars, typed, stopped, asked, restVars, staging, cmd>>
    BY DEF ReadBody, Take, flagVars, sinkVars
  <1>2. /\ \A t \in Sessions : WireKept(t) /\ PeerKept(t) /\ SinkKept(t) /\ cmd'[t] = cmd[t]
        /\ \A t \in Sessions \ {s} : inbox'[t] = inbox[t]
        /\ inbox'[s] = Tail(inbox[s])
    BY <1>1, Maps DEF WireKept, PeerKept, SinkKept, writeVars, loopVars, restVars, heardVars
  <1>3. CASE Send(s, Error(s, TRUE), "done")
    <2>1. /\ \A t \in Sessions \ {s} : rpc'[t] = rpc[t] /\ next'[t] = next[t] /\ item'[t] = item[t]
          /\ rpc'[s] = "send" /\ next'[s] = "done" /\ item'[s] = Error(s, TRUE)
      BY <1>3, Maps DEF Send
    <2> QED  BY <1>1, <1>2, <2>1 DEF Others, Kept, LoopKept
  <1>4. CASE Goto(s, "exec")
    <2>2. /\ \A t \in Sessions \ {s} : rpc'[t] = rpc[t]
          /\ rpc'[s] = "exec" /\ UNCHANGED <<item, next>>
      BY <1>4, Maps DEF Goto
    <2> QED  BY <1>1, <1>2, <2>2 DEF Others, Kept, LoopKept
  <1> QED  BY <1>3, <1>4 DEF ReadBody, StartCommand

\* readLoop starts to send, or goes on.
LEMMA SendsAt ==
    ASSUME ServerInv, MapsOk, NEW s \in Sessions, NEW it, NEW l, Send(s, it, l)
    PROVE  /\ \A t \in Sessions \ {s} :
                rpc'[t] = rpc[t] /\ next'[t] = next[t] /\ item'[t] = item[t]
           /\ rpc'[s] = "send" /\ next'[s] = l /\ item'[s] = it
  BY Maps DEF Send

LEMMA GoesAt ==
    ASSUME ServerInv, MapsOk, NEW s \in Sessions, NEW l, Goto(s, l)
    PROVE  /\ \A t \in Sessions \ {s} : rpc'[t] = rpc[t]
           /\ \A t \in Sessions : next'[t] = next[t] /\ item'[t] = item[t]
           /\ rpc'[s] = l
  BY Maps DEF Goto

LEMMA DoesDrain ==
    ASSUME ServerInv, MapsOk, NEW s \in Sessions, Drain(s)
    PROVE  /\ Others(s) /\ WireKept(s) /\ PeerKept(s) /\ SinkKept(s)
           /\ rpc[s] = "drain" /\ inbox[s] # <<>> /\ inbox'[s] = Tail(inbox[s])
           /\ cmd'[s] = cmd[s] /\ UNCHANGED <<asked, staging>>
           /\ rpc'[s] = "send" /\ next'[s] = "loop" /\ item'[s] = Error(s, FALSE)
  <1>1. /\ rpc[s] = "drain" /\ inbox[s] # <<>> /\ inbox' = [inbox EXCEPT ![s] = Tail(@)]
        /\ UNCHANGED <<writeVars, typed, stopped, asked, restVars, staging, cmd>>
        /\ Send(s, Error(s, FALSE), "loop")
    BY DEF Drain, Take, flagVars, sinkVars
  <1>2. /\ \A t \in Sessions : WireKept(t) /\ PeerKept(t) /\ SinkKept(t) /\ cmd'[t] = cmd[t]
        /\ \A t \in Sessions \ {s} : inbox'[t] = inbox[t]
        /\ inbox'[s] = Tail(inbox[s])
    BY <1>1, Maps DEF WireKept, PeerKept, SinkKept, writeVars, loopVars, restVars, heardVars
  <1>3. /\ \A t \in Sessions \ {s} :
             rpc'[t] = rpc[t] /\ next'[t] = next[t] /\ item'[t] = item[t]
        /\ rpc'[s] = "send" /\ next'[s] = "loop" /\ item'[s] = Error(s, FALSE)
    BY <1>1, SendsAt
  <1> QED  BY <1>1, <1>2, <1>3 DEF Others, Kept, LoopKept

LEMMA DoesExec ==
    ASSUME ServerInv, MapsOk, NEW s \in Sessions, commandExec(s)
    PROVE  /\ Others(s) /\ WireKept(s) /\ PeerKept(s) /\ SinkKept(s)
           /\ rpc[s] = "exec" /\ inbox'[s] = inbox[s]
           /\ cmd'[s] = cmd[s] /\ UNCHANGED <<asked, staging>>
           /\ rpc'[s] = "send" /\ next'[s] = "finish"
           /\ \/ item'[s] = Answer(s, "ok", 0)
              \/ item'[s] = Answer(s, "file", 0) /\ cmd[s] = "data"
              \/ \E b \in BOOLEAN : item'[s] = Error(s, b)
  <1>1. /\ rpc[s] = "exec"
        /\ UNCHANGED <<writeVars, typed, stopped, inbox, asked, restVars, staging, cmd>>
    BY DEF commandExec, sinkVars, peerVars, restVars
  <1>2. \A t \in Sessions : /\ WireKept(t) /\ PeerKept(t) /\ SinkKept(t) /\ cmd'[t] = cmd[t]
                            /\ inbox'[t] = inbox[t]
    BY <1>1 DEF WireKept, PeerKept, SinkKept, writeVars, loopVars, restVars, heardVars
  <1>3. \E it : /\ Send(s, it, "finish")
                /\ \/ it = Answer(s, "ok", 0)
                   \/ it = Answer(s, "file", 0) /\ cmd[s] = "data"
                   \/ \E b \in BOOLEAN : it = Error(s, b)
    BY DEF commandExec
  <1>4. PICK it : /\ Send(s, it, "finish")
                  /\ \/ it = Answer(s, "ok", 0)
                     \/ it = Answer(s, "file", 0) /\ cmd[s] = "data"
                     \/ \E b \in BOOLEAN : it = Error(s, b)
    BY <1>3
  <1>5. /\ \A t \in Sessions \ {s} :
             rpc'[t] = rpc[t] /\ next'[t] = next[t] /\ item'[t] = item[t]
        /\ rpc'[s] = "send" /\ next'[s] = "finish" /\ item'[s] = it
    BY <1>4, SendsAt
  <1> QED  BY <1>1, <1>2, <1>4, <1>5 DEF Others, Kept, LoopKept

\* The reply joins the channel, behind those before it.
LEMMA DoesSend ==
    ASSUME ServerInv, MapsOk, NEW s \in Sessions, SendDone(s)
    PROVE  /\ Others(s) /\ PeerKept(s) /\ SinkKept(s)
           /\ rpc[s] = "send" /\ inbox'[s] = inbox[s] /\ ~stopped[s]
           /\ cmd'[s] = cmd[s] /\ UNCHANGED <<asked, staging>>
           /\ wpc'[s] = wpc[s] /\ writing'[s] = writing[s] /\ stopped'[s] = stopped[s]
           /\ chan'[s] = Append(chan[s], item[s])
           /\ typed'[s] = (typed[s] \/ item[s].cmd = "negotiate")
           /\ item'[s] = NoItem /\ next'[s] = "none"
           /\ rpc'[s] = IF next[s] = "loop" THEN "header" ELSE next[s]
  <1>1. /\ rpc[s] = "send" /\ ~stopped[s]
        /\ UNCHANGED <<wpc, writing, stopped, inbox, asked, restVars, staging, cmd>>
    BY DEF SendDone, sinkVars, peerVars, restVars
  <1>2. /\ \A t \in Sessions : /\ PeerKept(t) /\ SinkKept(t) /\ cmd'[t] = cmd[t]
                               /\ inbox'[t] = inbox[t] /\ wpc'[t] = wpc[t]
                               /\ writing'[t] = writing[t] /\ stopped'[t] = stopped[t]
    BY <1>1 DEF PeerKept, SinkKept, restVars, heardVars
  <1>3. /\ \A t \in Sessions \ {s} : /\ rpc'[t] = rpc[t] /\ next'[t] = next[t]
                                     /\ item'[t] = item[t] /\ chan'[t] = chan[t]
                                     /\ typed'[t] = typed[t]
        /\ chan'[s] = Append(chan[s], item[s])
        /\ typed'[s] = (typed[s] \/ item[s].cmd = "negotiate")
        /\ item'[s] = NoItem /\ next'[s] = "none"
        /\ rpc'[s] = IF next[s] = "loop" THEN "header" ELSE next[s]
    BY Maps DEF SendDone
  <1> QED  BY <1>1, <1>2, <1>3 DEF Others, Kept, LoopKept, WireKept

\* The channel is closed: the reply is dropped, and so is a staging file.
LEMMA DoesSendFail ==
    ASSUME ServerInv, MapsOk, NEW s \in Sessions, SendFails(s)
    PROVE  /\ Others(s) /\ WireKept(s) /\ PeerKept(s)
           /\ rpc[s] = "send" /\ inbox'[s] = inbox[s] /\ stopped[s]
           /\ cmd'[s] = cmd[s] /\ UNCHANGED asked
           /\ staging' \in {staging, [staging EXCEPT ![s] = None]}
           /\ item'[s] = NoItem /\ next'[s] = "none"
           /\ IF next[s] \in {"chunk", "probe"}
              THEN rpc'[s] = "done" /\ staging'[s] = None
              ELSE /\ rpc'[s] = IF next[s] = "finish" THEN "finish" ELSE "done"
                   /\ staging'[s] = staging[s]
  <1>1. /\ rpc[s] = "send" /\ stopped[s]
        /\ UNCHANGED <<writeVars, typed, stopped, inbox, asked, restVars, cmd>>
    BY DEF SendFails, peerVars, restVars, flagVars
  <1>2. \A t \in Sessions : /\ WireKept(t) /\ PeerKept(t) /\ cmd'[t] = cmd[t]
                            /\ inbox'[t] = inbox[t]
    BY <1>1 DEF WireKept, PeerKept, writeVars, loopVars, restVars, heardVars
  <1>3. /\ \A t \in Sessions \ {s} : /\ rpc'[t] = rpc[t] /\ next'[t] = next[t]
                                     /\ item'[t] = item[t] /\ staging'[t] = staging[t]
        /\ staging' \in {staging, [staging EXCEPT ![s] = None]}
        /\ item'[s] = NoItem /\ next'[s] = "none"
        /\ IF next[s] \in {"chunk", "probe"}
           THEN rpc'[s] = "done" /\ staging'[s] = None
           ELSE /\ rpc'[s] = IF next[s] = "finish" THEN "finish" ELSE "done"
                /\ staging'[s] = staging[s]
    BY Maps DEF SendFails
  <1> QED  BY <1>1, <1>2, <1>3 DEF Others, Kept, LoopKept, SinkKept

LEMMA DoesFinish ==
    ASSUME ServerInv, MapsOk, NEW s \in Sessions, FinishCommand(s)
    PROVE  /\ Others(s) /\ WireKept(s) /\ PeerKept(s)
           /\ rpc[s] = "finish" /\ inbox'[s] = inbox[s]
           /\ cmd'[s] = "none" /\ UNCHANGED asked
           /\ staging' = [staging EXCEPT ![s] = None]
           /\ item'[s] = item[s] /\ next'[s] = next[s]
           /\ rpc'[s] = (IF stopped[s] THEN "done" ELSE "header") /\ staging'[s] = None
  <1>1. /\ rpc[s] = "finish" /\ staging' = [staging EXCEPT ![s] = None]
        /\ UNCHANGED <<writeVars, typed, stopped, inbox, asked, restVars>>
        /\ cmd' = [cmd EXCEPT ![s] = "none"]
    BY DEF FinishCommand, peerVars, restVars, flagVars
  <1>2. \A t \in Sessions : WireKept(t) /\ PeerKept(t) /\ inbox'[t] = inbox[t]
    BY <1>1 DEF WireKept, PeerKept, writeVars, loopVars, restVars, heardVars
  <1>3. /\ \A t \in Sessions \ {s} : staging'[t] = staging[t] /\ cmd'[t] = cmd[t]
        /\ staging'[s] = None /\ cmd'[s] = "none"
    BY <1>1, Maps
  <1>4. Goto(s, IF stopped[s] THEN "done" ELSE "header")
    BY DEF FinishCommand, LoopTop
  <1> QED  BY <1>1, <1>2, <1>3, <1>4, GoesAt DEF Others, Kept, LoopKept, SinkKept

LEMMA DoesReadFail ==
    ASSUME ServerInv, MapsOk, NEW s \in Sessions, ReadFails(s)
    PROVE  /\ Others(s) /\ WireKept(s) /\ PeerKept(s)
           /\ rpc[s] \in Reading /\ inbox'[s] = inbox[s] /\ (stopped[s] \/ client[s] = "gone")
           /\ cmd'[s] = cmd[s] /\ UNCHANGED asked
           /\ staging' = [staging EXCEPT ![s] = None]
           /\ item'[s] = item[s] /\ next'[s] = next[s]
           /\ rpc'[s] = "done" /\ staging'[s] = None
  <1>1. /\ rpc[s] \in Reading /\ staging' = [staging EXCEPT ![s] = None]
        /\ (stopped[s] \/ client[s] = "gone")
        /\ UNCHANGED <<writeVars, typed, stopped, inbox, asked, restVars, cmd>>
        /\ Goto(s, "done")
    BY DEF ReadFails, peerVars, restVars, flagVars
  <1>2. \A t \in Sessions : /\ WireKept(t) /\ PeerKept(t) /\ inbox'[t] = inbox[t]
                            /\ cmd'[t] = cmd[t]
    BY <1>1 DEF WireKept, PeerKept, writeVars, loopVars, restVars, heardVars
  <1>3. /\ \A t \in Sessions \ {s} : staging'[t] = staging[t]
        /\ staging'[s] = None
    BY <1>1, Maps
  <1> QED  BY <1>1, <1>2, <1>3, GoesAt DEF Others, Kept, LoopKept, SinkKept

\* A session that is stopped: what is left of it.
LEMMA StopsAt ==
    ASSUME ServerInv, MapsOk, NEW s \in Sessions, stopOnExecutor(s)
    PROVE  /\ \A t \in Sessions \ {s} : /\ stopped'[t] = stopped[t] /\ chan'[t] = chan[t]
                                        /\ inbox'[t] = inbox[t] /\ asked'[t] = asked[t]
           /\ stopped'[s]
           /\ chan'[s] \in {chan[s], <<>>} /\ asked'[s] \in {asked[s], <<>>}
           /\ asked' = [t \in Sessions |-> asked'[t]]
           /\ inbox'[s] \in Seq(Parts) /\ Len(inbox'[s]) <= Len(inbox[s])
           /\ inbox'[s] = inbox[s] \/ Len(inbox'[s]) <= 1
           /\ \A p \in 1 .. Len(inbox'[s]) : inbox'[s][p] = inbox[s][p]
  <1>0. inbox[s] \in Seq(Parts) /\ Len(inbox[s]) \in Nat
    BY Maps, LenProperties
  <1>1. CASE stopped[s]
    BY <1>0, <1>1, Maps DEF stopOnExecutor, stopVars
  <1>2. CASE ~stopped[s]
    <2>1. /\ stopped' = [stopped EXCEPT ![s] = TRUE]
          /\ chan' = [chan EXCEPT ![s] = <<>>] /\ asked' = [asked EXCEPT ![s] = <<>>]
      BY <1>2 DEF stopOnExecutor, Closed
    <2>2. PICK k \in {0, 1} :
             inbox' = [inbox EXCEPT ![s] = SubSeq(@, 1, IF @ = <<>> THEN 0 ELSE k)]
      BY <1>2 DEF stopOnExecutor, Closed
    <2> DEFINE c == SubSeq(inbox[s], 1, IF inbox[s] = <<>> THEN 0 ELSE k)
    <2>3. /\ c \in Seq(Parts) /\ Len(c) <= Len(inbox[s]) /\ Len(c) <= 1
          /\ \A p \in 1 .. Len(c) : c[p] = inbox[s][p]
      BY <1>0, CutIs
    <2>4. inbox' = [inbox EXCEPT ![s] = c]
      BY <2>2
    <2> HIDE DEF c
    <2>5. inbox'[s] = c /\ \A t \in Sessions \ {s} : inbox'[t] = inbox[t]
      BY <2>4, Maps
    <2>6. /\ \A t \in Sessions \ {s} : /\ stopped'[t] = stopped[t] /\ chan'[t] = chan[t]
                                       /\ asked'[t] = asked[t]
          /\ stopped'[s] /\ chan'[s] = <<>> /\ asked'[s] = <<>>
          /\ asked' = [t \in Sessions |-> asked'[t]]
      BY <2>1, Maps
    <2> QED  BY <2>3, <2>5, <2>6
  <1> QED  BY <1>1, <1>2

\* What a stop leaves of a session, in a step that may have found it stopped.
Cut(s) == /\ chan'[s] \in {chan[s], <<>>} /\ asked'[s] \in {asked[s], <<>>}
          /\ inbox'[s] \in Seq(Parts) /\ Len(inbox'[s]) <= Len(inbox[s])
          /\ inbox'[s] = inbox[s] \/ Len(inbox'[s]) <= 1
          /\ \A p \in 1 .. Len(inbox'[s]) : inbox'[s][p] = inbox[s][p]
Still(s) == /\ stopped'[s] = stopped[s] /\ chan'[s] = chan[s]
            /\ inbox'[s] = inbox[s] /\ asked'[s] = asked[s]
RestKept(t) == /\ client'[t] = client[t] /\ owes'[t] = owes[t]
               /\ upload'[t] = upload[t] /\ heard'[t] = heard[t]
AskedMap == asked' = [t \in Sessions |-> asked'[t]]

\* readLoop's completion handler.
LEMMA DoesReadEnd ==
    ASSUME ServerInv, MapsOk, NEW s \in Sessions, ReadEnds(s)
    PROVE  /\ Others(s) /\ RestKept(s) /\ SinkKept(s)
           /\ rpc[s] = "done" /\ rpc'[s] = "over" /\ cmd'[s] = "none"
           /\ item'[s] = item[s] /\ next'[s] = next[s]
           /\ wpc'[s] = wpc[s] /\ writing'[s] = writing[s] /\ typed'[s] = typed[s]
           /\ Still(s) \/ (Cut(s) /\ stopped'[s])
           /\ UNCHANGED staging /\ AskedMap
  <1>1. /\ rpc[s] = "done" /\ Goto(s, "over") /\ cmd' = [cmd EXCEPT ![s] = "none"]
        /\ UNCHANGED <<wpc, writing, typed, restVars, staging>>
    BY DEF ReadEnds, flagVars, sinkVars, loopVars
  <1>2. /\ \A t \in Sessions : /\ RestKept(t) /\ SinkKept(t) /\ wpc'[t] = wpc[t]
                               /\ writing'[t] = writing[t] /\ typed'[t] = typed[t]
    BY <1>1 DEF RestKept, SinkKept, restVars, heardVars
  <1>3. /\ \A t \in Sessions \ {s} : cmd'[t] = cmd[t] /\ cmd'[s] = "none"
    BY <1>1, Maps
  <1>4. /\ \A t \in Sessions \ {s} : rpc'[t] = rpc[t]
        /\ \A t \in Sessions : next'[t] = next[t] /\ item'[t] = item[t]
        /\ rpc'[s] = "over"
    BY <1>1, GoesAt
  <1>5. /\ \A t \in Sessions \ {s} : Still(t)
        /\ Still(s) \/ (Cut(s) /\ stopped'[s])
        /\ AskedMap
    <2>1. CASE UNCHANGED stopVars
      BY <2>1 DEF Still, stopVars, AskedMap, MapsOk
    <2>2. CASE stopOnExecutor(s)
      BY <2>2, StopsAt DEF Still, Cut, AskedMap
    <2> QED  BY <2>1, <2>2 DEF ReadEnds
  <1>6. cmd'[s] = "none"
    BY <1>1, Maps
  <1> QED  BY <1>1, <1>2, <1>3, <1>4, <1>5, <1>6
           DEF Others, Kept, LoopKept, WireKept, PeerKept, RestKept, Still

\* The upload, from its metadata to the name of the file.
LEMMA DoesPrepare ==
    ASSUME ServerInv, MapsOk, NEW s \in Sessions, UploadPrepare(s)
    PROVE  /\ Others(s) /\ WireKept(s) /\ PeerKept(s)
           /\ rpc[s] = "meta" /\ inbox[s] # <<>> /\ inbox'[s] = Tail(inbox[s])
           /\ cmd'[s] = cmd[s] /\ UNCHANGED asked
           /\ staging' \in {staging, [staging EXCEPT ![s] = 0]}
           /\ rpc'[s] = "send"
           /\ \/ /\ item'[s] = Answer(s, "ready", 0) /\ staging'[s] = 0
                 /\ next'[s] = IF upload[s].size = 0 THEN "probe" ELSE "chunk"
              \/ /\ item'[s] = Error(s, FALSE) /\ staging'[s] = staging[s]
                 /\ next'[s] \in {"finish", "loop"}
  <1>1. /\ rpc[s] = "meta" /\ inbox[s] # <<>> /\ inbox' = [inbox EXCEPT ![s] = Tail(@)]
        /\ UNCHANGED <<writeVars, typed, stopped, asked, restVars, cmd>>
    BY DEF UploadPrepare, Take, flagVars
  <1>2. /\ \A t \in Sessions : WireKept(t) /\ PeerKept(t) /\ cmd'[t] = cmd[t]
        /\ \A t \in Sessions \ {s} : inbox'[t] = inbox[t]
        /\ inbox'[s] = Tail(inbox[s])
    BY <1>1, Maps DEF WireKept, PeerKept, writeVars, loopVars, restVars, heardVars
  <1> DEFINE l == IF upload[s].size = 0 THEN "probe" ELSE "chunk"
  <1>3. \/ staging' = [staging EXCEPT ![s] = 0] /\ Send(s, Answer(s, "ready", 0), l)
        \/ \E m \in {"finish", "loop"} : staging' = staging /\ Send(s, Error(s, FALSE), m)
    BY DEF UploadPrepare, sinkVars
  <1>4. CASE staging' = [staging EXCEPT ![s] = 0] /\ Send(s, Answer(s, "ready", 0), l)
    <2> HIDE DEF l
    <2>1. /\ \A t \in Sessions \ {s} :
               rpc'[t] = rpc[t] /\ next'[t] = next[t] /\ item'[t] = item[t]
          /\ rpc'[s] = "send" /\ next'[s] = l /\ item'[s] = Answer(s, "ready", 0)
      BY <1>4, SendsAt
    <2>2. staging'[s] = 0 /\ \A t \in Sessions \ {s} : staging'[t] = staging[t]
      BY <1>4, Maps
    <2> QED  BY <1>1, <1>2, <1>4, <2>1, <2>2 DEF Others, Kept, LoopKept, SinkKept, l
  <1>5. CASE \E m \in {"finish", "loop"} : staging' = staging /\ Send(s, Error(s, FALSE), m)
    <2>1. PICK m \in {"finish", "loop"} : staging' = staging /\ Send(s, Error(s, FALSE), m)
      BY <1>5
    <2>2. /\ \A t \in Sessions \ {s} :
               rpc'[t] = rpc[t] /\ next'[t] = next[t] /\ item'[t] = item[t]
          /\ rpc'[s] = "send" /\ next'[s] = m /\ item'[s] = Error(s, FALSE)
      BY <2>1, SendsAt
    <2> QED  BY <1>1, <1>2, <2>1, <2>2 DEF Others, Kept, LoopKept, SinkKept
  <1> QED  BY <1>3, <1>4, <1>5

LEMMA DoesChunk ==
    ASSUME ServerInv, MapsOk, NEW s \in Sessions, UploadChunk(s)
    PROVE  /\ Others(s) /\ WireKept(s) /\ PeerKept(s)
           /\ rpc[s] = "chunk" /\ inbox[s] # <<>> /\ inbox'[s] = Tail(inbox[s])
           /\ cmd'[s] = cmd[s] /\ UNCHANGED asked
           /\ item'[s] = item[s] /\ next'[s] = next[s]
           /\ \E n \in Int : staging' = [staging EXCEPT ![s] = n]
           /\ \/ /\ staging'[s] = staging[s] + 1
                 /\ rpc'[s] = IF staging[s] + 1 = upload[s].size THEN "probe" ELSE "chunk"
              \/ staging'[s] = None /\ rpc'[s] = "done"
  <1>1. /\ rpc[s] = "chunk" /\ inbox[s] # <<>> /\ inbox' = [inbox EXCEPT ![s] = Tail(@)]
        /\ UNCHANGED <<writeVars, typed, stopped, asked, restVars, cmd>>
    BY DEF UploadChunk, Take, flagVars
  <1>2. /\ \A t \in Sessions : WireKept(t) /\ PeerKept(t) /\ cmd'[t] = cmd[t]
        /\ \A t \in Sessions \ {s} : inbox'[t] = inbox[t]
        /\ inbox'[s] = Tail(inbox[s])
    BY <1>1, Maps DEF WireKept, PeerKept, writeVars, loopVars, restVars, heardVars
  <1> DEFINE l == IF staging[s] + 1 = upload[s].size THEN "probe" ELSE "chunk"
  <1>3. \/ staging' = [staging EXCEPT ![s] = @ + 1] /\ Goto(s, l)
        \/ staging' = [staging EXCEPT ![s] = None] /\ Goto(s, "done")
    BY DEF UploadChunk
  <1>n. staging[s] + 1 \in Int /\ None \in Int
    BY Maps DEF None
  <1>4. CASE staging' = [staging EXCEPT ![s] = @ + 1] /\ Goto(s, l)
    <2> HIDE DEF l
    <2>1. /\ \A t \in Sessions \ {s} : rpc'[t] = rpc[t]
          /\ \A t \in Sessions : next'[t] = next[t] /\ item'[t] = item[t]
          /\ rpc'[s] = l
      BY <1>4, GoesAt
    <2>2. staging'[s] = staging[s] + 1 /\ \A t \in Sessions \ {s} : staging'[t] = staging[t]
      BY <1>4, Maps
    <2>3. \E n \in Int : staging' = [staging EXCEPT ![s] = n]
      BY <1>n, <1>4
    <2> QED  BY <1>1, <1>2, <2>1, <2>2, <2>3 DEF Others, Kept, LoopKept, SinkKept, l
  <1>5. CASE staging' = [staging EXCEPT ![s] = None] /\ Goto(s, "done")
    <2>1. /\ \A t \in Sessions \ {s} : rpc'[t] = rpc[t]
          /\ \A t \in Sessions : next'[t] = next[t] /\ item'[t] = item[t]
          /\ rpc'[s] = "done"
      BY <1>5, GoesAt
    <2>2. staging'[s] = None /\ \A t \in Sessions \ {s} : staging'[t] = staging[t]
      BY <1>5, Maps
    <2>3. \E n \in Int : staging' = [staging EXCEPT ![s] = n]
      BY <1>n, <1>5
    <2> QED  BY <1>1, <1>2, <2>1, <2>2, <2>3 DEF Others, Kept, LoopKept, SinkKept
  <1> QED  BY <1>3, <1>4, <1>5

LEMMA DoesProbe ==
    ASSUME ServerInv, MapsOk, NEW s \in Sessions, PublishProbe(s)
    PROVE  /\ Others(s) /\ WireKept(s) /\ PeerKept(s) /\ SinkKept(s)
           /\ rpc[s] = "probe" /\ rpc'[s] \in {"probe", "move"} /\ inbox'[s] = inbox[s]
           /\ cmd'[s] = cmd[s] /\ UNCHANGED <<asked, staging>>
           /\ item'[s] = item[s] /\ next'[s] = next[s]
  <1>1. /\ rpc[s] = "probe"
        /\ UNCHANGED <<writeVars, typed, stopped, inbox, asked, restVars, cmd, staging>>
        /\ Goto(s, "move") \/ UNCHANGED <<rpc, item, next>>
    BY DEF PublishProbe, peerVars, restVars, flagVars
  <1>2. \A t \in Sessions : /\ WireKept(t) /\ PeerKept(t) /\ inbox'[t] = inbox[t]
                            /\ cmd'[t] = cmd[t] /\ SinkKept(t)
    BY <1>1 DEF WireKept, PeerKept, writeVars, loopVars, restVars, heardVars, SinkKept
  <1>3. /\ \A t \in Sessions \ {s} : rpc'[t] = rpc[t]
        /\ \A t \in Sessions : next'[t] = next[t] /\ item'[t] = item[t]
        /\ rpc'[s] \in {"probe", "move"}
    <2>1. CASE Goto(s, "move")
      BY <2>1, GoesAt
    <2> QED  BY <1>1, <2>1
  <1> QED  BY <1>1, <1>2, <1>3 DEF Others, Kept, LoopKept

LEMMA DoesMove ==
    ASSUME ServerInv, MapsOk, NEW s \in Sessions, PublishMove(s)
    PROVE  /\ Others(s) /\ WireKept(s) /\ PeerKept(s)
           /\ rpc[s] = "move" /\ inbox'[s] = inbox[s]
           /\ cmd'[s] = cmd[s] /\ UNCHANGED asked
           /\ staging' \in {staging, [staging EXCEPT ![s] = None]}
           /\ \/ /\ rpc'[s] = "send" /\ next'[s] = "finish"
                 /\ item'[s] = Answer(s, "final", tried[s]) /\ staging'[s] = None
              \/ /\ rpc'[s] = "probe" /\ item'[s] = item[s] /\ next'[s] = next[s]
                 /\ SinkKept(s)
  <1>1. /\ rpc[s] = "move"
        /\ UNCHANGED <<writeVars, typed, stopped, inbox, asked, restVars, cmd>>
        /\ \/ /\ staging' = [staging EXCEPT ![s] = None]
              /\ Send(s, Answer(s, "final", tried[s]), "finish")
           \/ Goto(s, "probe") /\ UNCHANGED staging
    BY DEF PublishMove, peerVars, restVars, flagVars
  <1>2. \A t \in Sessions : /\ WireKept(t) /\ PeerKept(t) /\ inbox'[t] = inbox[t]
                            /\ cmd'[t] = cmd[t]
    BY <1>1 DEF WireKept, PeerKept, writeVars, loopVars, restVars, heardVars
  <1>3. CASE Goto(s, "probe") /\ UNCHANGED staging
    <2>1. /\ \A t \in Sessions \ {s} : rpc'[t] = rpc[t]
          /\ \A t \in Sessions : next'[t] = next[t] /\ item'[t] = item[t]
          /\ rpc'[s] = "probe"
      BY <1>3, GoesAt
    <2> QED  BY <1>1, <1>2, <1>3, <2>1 DEF Others, Kept, LoopKept, SinkKept
  <1>4. CASE /\ staging' = [staging EXCEPT ![s] = None]
             /\ Send(s, Answer(s, "final", tried[s]), "finish")
    <2>1. /\ \A t \in Sessions \ {s} :
               rpc'[t] = rpc[t] /\ next'[t] = next[t] /\ item'[t] = item[t]
          /\ rpc'[s] = "send" /\ next'[s] = "finish"
          /\ item'[s] = Answer(s, "final", tried[s])
      BY <1>4, SendsAt
    <2>2. staging'[s] = None /\ \A t \in Sessions \ {s} : staging'[t] = staging[t]
      BY <1>4, Maps
    <2> QED  BY <1>1, <1>2, <1>4, <2>1, <2>2 DEF Others, Kept, LoopKept, SinkKept
  <1> QED  BY <1>1, <1>3, <1>4

LEMMA DoesPublishFail ==
    ASSUME ServerInv, MapsOk, NEW s \in Sessions, PublishFails(s)
    PROVE  /\ Others(s) /\ WireKept(s) /\ PeerKept(s)
           /\ rpc[s] \in {"probe", "move"} /\ inbox'[s] = inbox[s]
           /\ cmd'[s] = cmd[s] /\ UNCHANGED asked
           /\ \E n \in Int : staging' = [staging EXCEPT ![s] = n]
           /\ staging'[s] \in {None, staging[s]}
           /\ rpc'[s] = "send" /\ next'[s] = "finish" /\ item'[s] = Error(s, FALSE)
  <1> DEFINE n == IF rpc[s] = "move" THEN None ELSE staging[s]
  <1>1. /\ rpc[s] \in {"probe", "move"}
        /\ UNCHANGED <<writeVars, typed, stopped, inbox, asked, restVars, cmd>>
        /\ Send(s, Error(s, FALSE), "finish")
    BY DEF PublishFails, peerVars, restVars, flagVars
  <1>2. \A t \in Sessions : /\ WireKept(t) /\ PeerKept(t) /\ inbox'[t] = inbox[t]
                            /\ cmd'[t] = cmd[t]
    BY <1>1 DEF WireKept, PeerKept, writeVars, loopVars, restVars, heardVars
  <1>3. n \in Int /\ n \in {None, staging[s]} /\ staging' = [staging EXCEPT ![s] = n]
    BY Maps DEF PublishFails, None
  <1> HIDE DEF n
  <1>4. staging'[s] = n /\ \A t \in Sessions \ {s} : staging'[t] = staging[t]
    BY <1>3, Maps
  <1>5. /\ \A t \in Sessions \ {s} :
             rpc'[t] = rpc[t] /\ next'[t] = next[t] /\ item'[t] = item[t]
        /\ rpc'[s] = "send" /\ next'[s] = "finish" /\ item'[s] = Error(s, FALSE)
    BY <1>1, SendsAt
  <1> QED  BY <1>1, <1>2, <1>3, <1>4, <1>5 DEF Others, Kept, LoopKept, SinkKept

\* writeLoop takes the oldest reply.
LEMMA DoesReceive ==
    ASSUME ServerInv, MapsOk, NEW s \in Sessions, WriteReceive(s)
    PROVE  /\ Others(s) /\ LoopKept(s) /\ PeerKept(s) /\ SinkKept(s)
           /\ wpc[s] = "receive" /\ writing[s] = NoItem /\ inbox'[s] = inbox[s]
           /\ typed'[s] = typed[s] /\ stopped'[s] = stopped[s]
           /\ UNCHANGED <<asked, staging>>
           /\ \/ /\ stopped[s] /\ wpc'[s] = "done" /\ writing'[s] = NoItem
                 /\ chan'[s] = chan[s]
              \/ /\ ~stopped[s] /\ chan[s] # <<>> /\ wpc'[s] = "write"
                 /\ chan'[s] = Tail(chan[s]) /\ writing'[s] = Head(chan[s])
  <1>1. /\ wpc[s] = "receive"
        /\ UNCHANGED <<readVars, typed, stopped, inbox, asked, restVars, staging>>
    BY DEF WriteReceive, peerVars, restVars, flagVars, sinkVars
  <1>2. writing[s] = NoItem
    BY <1>1 DEF ServerInv, PipesOk
  <1>3. \A t \in Sessions : /\ LoopKept(t) /\ PeerKept(t) /\ inbox'[t] = inbox[t]
                            /\ SinkKept(t) /\ typed'[t] = typed[t] /\ stopped'[t] = stopped[t]
    BY <1>1 DEF LoopKept, PeerKept, readVars, restVars, heardVars, SinkKept
  <1>4. /\ \A t \in Sessions \ {s} : /\ wpc'[t] = wpc[t] /\ chan'[t] = chan[t]
                                     /\ writing'[t] = writing[t]
        /\ \/ /\ stopped[s] /\ wpc'[s] = "done" /\ writing'[s] = writing[s]
              /\ chan'[s] = chan[s]
           \/ /\ ~stopped[s] /\ chan[s] # <<>> /\ wpc'[s] = "write"
              /\ chan'[s] = Tail(chan[s]) /\ writing'[s] = Head(chan[s])
    <2>1. CASE stopped[s]
      BY <2>1, Maps DEF WriteReceive, WriteGoto
    <2>2. CASE ~stopped[s]
      BY <2>2, Maps DEF WriteReceive, WriteGoto
    <2> QED  BY <2>1, <2>2
  <1> QED  BY <1>1, <1>2, <1>3, <1>4 DEF Others, Kept, WireKept

\* What the client makes of a reply.
LEMMA HearsAt ==
    ASSUME ServerInv, MapsOk, NEW s \in Sessions, NEW it \in Items, Heard(s, it)
    PROVE  /\ \A t \in Sessions \ {s} : owes'[t] = owes[t] /\ heard'[t] = heard[t]
           /\ client[s] # "gone" =>
                 owes'[s] = IF it.what = "ready" THEN upload[s].size ELSE owes[s]
           /\ "terminal" \in heard'[s] => "terminal" \in heard[s] \/ it.close
           /\ GoodItem(it) /\ client[s] # "gone" =>
                ("negotiate" \in heard'[s] <=> "negotiate" \in heard[s] \/ it.cmd = "negotiate")
           /\ owes'[s] \in {owes[s], upload[s].size}
           /\ it.what # "ready" => owes'[s] = owes[s]
  <1>1. CASE client[s] = "gone"
    BY <1>1 DEF Heard, heardVars
  <1>2. CASE client[s] # "gone"
    <2> DEFINE g == CASE it.close -> {"terminal"} [] it.what = "ok" -> {it.cmd} [] OTHER -> {}
               o == IF it.what = "ready" THEN upload[s].size ELSE owes[s]
    <2>1. owes' = [owes EXCEPT ![s] = o] /\ heard' = [heard EXCEPT ![s] = @ \cup g]
      BY <1>2 DEF Heard
    <2>2. "terminal" \in g => it.close
      BY DEF Items, Parts, Kinds
    <2>3. GoodItem(it) => ("negotiate" \in g <=> it.cmd = "negotiate")
      <3>1. CASE it.close
        BY <3>1 DEF GoodItem
      <3>2. CASE ~it.close /\ it.what = "ok"
        BY <3>2
      <3>3. CASE ~it.close /\ it.what # "ok"
        BY <3>3 DEF GoodItem
      <3> QED  BY <3>1, <3>2, <3>3
    <2>4. o \in {owes[s], upload[s].size} /\ (it.what # "ready" => o = owes[s])
      OBVIOUS
    <2>5. heard'[s] = heard[s] \cup g /\ owes'[s] = o
      <3> HIDE DEF g, o
      <3> QED  BY <2>1, Maps
    <2>6. \A t \in Sessions \ {s} : owes'[t] = owes[t] /\ heard'[t] = heard[t]
      <3> HIDE DEF g, o
      <3> QED  BY <2>1, Maps
    <2> HIDE DEF g
    <2> QED  BY <1>2, <2>2, <2>3, <2>4, <2>5, <2>6
  <1> QED  BY <1>1, <1>2

\* The client reads the reply, and after a terminal error the session is over.
LEMMA DoesWrite ==
    ASSUME ServerInv, MapsOk, NEW s \in Sessions, WriteDone(s)
    PROVE  /\ Others(s) /\ LoopKept(s) /\ SinkKept(s)
           /\ client'[s] = client[s] /\ upload'[s] = upload[s] /\ typed'[s] = typed[s]
           /\ wpc[s] = "write" /\ ~stopped[s] /\ writing'[s] = NoItem /\ wpc'[s] # "write"
           /\ UNCHANGED staging /\ AskedMap
           /\ client[s] # "gone" => owes'[s] = IF writing[s].what = "ready" THEN upload[s].size
                                               ELSE owes[s]
           /\ "terminal" \in heard'[s] => "terminal" \in heard[s] \/ writing[s].close
           /\ GoodItem(writing[s]) /\ client[s] # "gone" =>
                ("negotiate" \in heard'[s]
                    <=> "negotiate" \in heard[s] \/ writing[s].cmd = "negotiate")
           /\ \/ writing[s].close /\ stopped'[s] /\ Cut(s)
              \/ /\ ~writing[s].close /\ stopped'[s] = stopped[s] /\ chan'[s] = chan[s]
                 /\ inbox'[s] = inbox[s]
                 /\ asked'[s] = IF writing[s].what = "ready" THEN asked[s] ELSE Tail(asked[s])
  <1>1. /\ wpc[s] = "write" /\ ~stopped[s] /\ Heard(s, writing[s])
        /\ writing' = [writing EXCEPT ![s] = NoItem]
        /\ UNCHANGED <<readVars, typed, client, upload, staging>>
    BY DEF WriteDone, flagVars, sinkVars
  <1>2. writing[s] \in Items
    BY Maps
  <1>3. /\ \A t \in Sessions : /\ LoopKept(t) /\ SinkKept(t) /\ typed'[t] = typed[t]
                               /\ client'[t] = client[t] /\ upload'[t] = upload[t]
        /\ \A t \in Sessions \ {s} : writing'[t] = writing[t]
        /\ writing'[s] = NoItem
    BY <1>1, Maps DEF LoopKept, readVars, SinkKept
  <1>4. /\ \A t \in Sessions \ {s} : owes'[t] = owes[t] /\ heard'[t] = heard[t]
        /\ client[s] # "gone" => owes'[s] = IF writing[s].what = "ready" THEN upload[s].size
                                            ELSE owes[s]
        /\ "terminal" \in heard'[s] => "terminal" \in heard[s] \/ writing[s].close
        /\ GoodItem(writing[s]) /\ client[s] # "gone" =>
                ("negotiate" \in heard'[s]
                    <=> "negotiate" \in heard[s] \/ writing[s].cmd = "negotiate")
    BY <1>1, <1>2, HearsAt
  <1>5. CASE writing[s].close
    <2>1. WriteGoto(s, "done") /\ stopOnExecutor(s)
      BY <1>5 DEF WriteDone
    <2>2. wpc'[s] # "write" /\ \A t \in Sessions \ {s} : wpc'[t] = wpc[t]
      BY <2>1, Maps DEF WriteGoto
    <2>3. stopped'[s] /\ Cut(s) /\ AskedMap /\ \A t \in Sessions \ {s} : Still(t)
      BY <2>1, StopsAt DEF Cut, Still, AskedMap
    <2> QED  BY <1>1, <1>3, <1>4, <1>5, <2>2, <2>3 DEF Others, Kept, WireKept, PeerKept, Still
  <1>6. CASE ~writing[s].close
    <2> DEFINE c == IF writing[s].what = "ready" THEN asked[s] ELSE Tail(asked[s])
    <2>1. /\ asked' = [asked EXCEPT ![s] = c] /\ WriteGoto(s, "receive")
          /\ UNCHANGED <<stopped, chan, inbox>>
      BY <1>6 DEF WriteDone
    <2> HIDE DEF c
    <2>2. wpc'[s] # "write" /\ \A t \in Sessions \ {s} : wpc'[t] = wpc[t]
      BY <2>1, Maps DEF WriteGoto
    <2>3. asked'[s] = c /\ \A t \in Sessions \ {s} : asked'[t] = asked[t]
      BY <2>1, Maps
    <2>4. AskedMap
      BY <2>1, Maps DEF AskedMap
    <2> QED  BY <1>1, <1>3, <1>4, <1>6, <2>1, <2>2, <2>3, <2>4
             DEF Others, Kept, WireKept, PeerKept, c
  <1> QED  BY <1>5, <1>6

\* The writer gives up, or ends, or a stop arrives: the session is stopped.
LEMMA DoesStop ==
    ASSUME ServerInv, MapsOk, NEW s \in Sessions,
           WriteFails(s) \/ WriteEnds(s) \/ StopPosted(s)
    PROVE  /\ Others(s) /\ LoopKept(s) /\ RestKept(s) /\ SinkKept(s)
           /\ typed'[s] = typed[s] /\ stopped'[s] /\ Cut(s)
           /\ writing'[s] \in {writing[s], NoItem}
           /\ (wpc'[s] = wpc[s] /\ writing'[s] = writing[s]) \/ wpc'[s] \notin {"write", "none"}
           /\ rpc[s] = "none" => wpc'[s] = wpc[s] \/ wpc[s] # "none"
           /\ UNCHANGED staging /\ AskedMap
  <1>1. /\ UNCHANGED <<readVars, typed, restVars, staging>> /\ stopOnExecutor(s)
        /\ \/ writing' = [writing EXCEPT ![s] = NoItem]
           \/ writing' = writing
        /\ \/ wpc' = wpc /\ writing' = writing
           \/ WriteGoto(s, "done") /\ wpc[s] = "write"
           \/ WriteGoto(s, "over") /\ wpc[s] = "done"
    BY DEF WriteFails, WriteEnds, StopPosted, flagVars, sinkVars, loopVars
  <1>2. \A t \in Sessions : /\ LoopKept(t) /\ RestKept(t) /\ SinkKept(t)
                            /\ typed'[t] = typed[t]
    BY <1>1 DEF LoopKept, readVars, RestKept, restVars, heardVars, SinkKept
  <1>3. stopped'[s] /\ Cut(s) /\ AskedMap /\ \A t \in Sessions \ {s} : Still(t)
    BY <1>1, StopsAt DEF Cut, Still, AskedMap
  <1>4. /\ \A t \in Sessions \ {s} : writing'[t] = writing[t]
        /\ writing'[s] \in {writing[s], NoItem}
    BY <1>1, Maps
  <1>5. /\ \A t \in Sessions \ {s} : wpc'[t] = wpc[t]
        /\ \/ wpc'[s] = wpc[s] /\ writing'[s] = writing[s]
           \/ (wpc'[s] \notin {"write", "none"} /\ wpc[s] # "none")
    BY <1>1, Maps DEF WriteGoto
  <1> QED  BY <1>1, <1>2, <1>3, <1>4, <1>5
           DEF Others, Kept, WireKept, PeerKept, RestKept, Still

\* A client sends a request, the first cut parts of it.
LEMMA RequestsAt ==
    ASSUME ServerInv, MapsOk, NEW s \in Sessions, NEW k \in Kinds, NEW cut,
           Request(s, k, cut)
    PROVE  /\ ~AsksUpload(asked[s]) \/ asked[s] \notin Seq(Kinds)
           /\ inbox'[s] = inbox[s] \o SubSeq(Frame(k), 1, cut)
           /\ asked'[s] = Append(asked[s], k)
           /\ \A t \in Sessions \ {s} : /\ inbox'[t] = inbox[t] /\ asked'[t] = asked[t]
                                        /\ upload'[t] = upload[t]
           /\ k # "upload" => upload'[s] = upload[s]
           /\ AskedMap
  <1>1. /\ inbox' = [inbox EXCEPT ![s] = @ \o SubSeq(Frame(k), 1, cut)]
        /\ asked' = [asked EXCEPT ![s] = Append(@, k)] /\ ~Uploading(s)
        /\ k # "upload" => UNCHANGED upload
        /\ \/ UNCHANGED upload
           \/ \E n \in Sizes : upload' = [upload EXCEPT ![s] = [of |-> requests + 1, size |-> n]]
    BY DEF Request
  <1> DEFINE c == inbox[s] \o SubSeq(Frame(k), 1, cut)
             a == Append(asked[s], k)
  <1>2. inbox' = [inbox EXCEPT ![s] = c] /\ asked' = [asked EXCEPT ![s] = a]
    BY <1>1
  <1> HIDE DEF c, a
  <1>3. /\ inbox'[s] = c /\ asked'[s] = a
        /\ \A t \in Sessions \ {s} : inbox'[t] = inbox[t] /\ asked'[t] = asked[t]
        /\ AskedMap
    BY <1>2, Maps DEF AskedMap
  <1>4. /\ \A t \in Sessions \ {s} : upload'[t] = upload[t]
        /\ k # "upload" => upload'[s] = upload[s]
    BY <1>1, Maps
  <1>5. asked[s] \in Seq(Kinds) => ~AsksUpload(asked[s])
    <2> SUFFICES ASSUME asked[s] \in Seq(Kinds) PROVE ~AsksUpload(asked[s])
      OBVIOUS
    <2>1. asked[s] # <<>> => Last(asked[s]) # "upload"
      BY <1>1 DEF Uploading
    <2>2. Last(asked[s]) = asked[s][Len(asked[s])]
      BY DEF Last
    <2>3. Len(asked[s]) > 0 => asked[s] # <<>>
      BY LenProperties
    <2> QED  BY <2>1, <2>2, <2>3 DEF AsksUpload
  <1> QED  BY <1>3, <1>4, <1>5 DEF c, a

\* The client.
LEMMA DoesAsk ==
    ASSUME ServerInv, MapsOk, NEW s \in Sessions, NEW k \in Kinds, ClientAsks(s, k)
    PROVE  /\ Others(s) /\ LoopKept(s) /\ WireKept(s) /\ SinkKept(s)
           /\ client'[s] = client[s] /\ owes'[s] = owes[s] /\ heard'[s] = heard[s]
           /\ client[s] \in {"up", "stalled"} /\ ~stopped[s]
           /\ ~AsksUpload(asked[s]) \/ asked[s] \notin Seq(Kinds)
           /\ inbox'[s] = inbox[s] \o SubSeq(Frame(k), 1, Len(Frame(k)))
           /\ asked'[s] = Append(asked[s], k)
           /\ k # "upload" => upload'[s] = upload[s]
           /\ UNCHANGED staging /\ AskedMap
  <1>1. /\ Request(s, k, Len(Frame(k))) /\ client[s] \in {"up", "stalled"} /\ ~stopped[s]
        /\ UNCHANGED <<readVars, writeVars, typed, stopped, client, owes, heardVars, staging>>
    BY DEF ClientAsks, Connected, UnchangedByPeer, flagVars, sinkVars
  <1>2. \A t \in Sessions : /\ LoopKept(t) /\ WireKept(t) /\ SinkKept(t)
                            /\ client'[t] = client[t] /\ owes'[t] = owes[t]
                            /\ heard'[t] = heard[t]
    BY <1>1 DEF LoopKept, readVars, WireKept, writeVars, loopVars, heardVars, SinkKept
  <1>3. /\ ~AsksUpload(asked[s]) \/ asked[s] \notin Seq(Kinds)
        /\ inbox'[s] = inbox[s] \o SubSeq(Frame(k), 1, Len(Frame(k)))
        /\ asked'[s] = Append(asked[s], k)
        /\ \A t \in Sessions \ {s} : /\ inbox'[t] = inbox[t] /\ asked'[t] = asked[t]
                                     /\ upload'[t] = upload[t]
        /\ k # "upload" => upload'[s] = upload[s]
        /\ AskedMap
    BY <1>1, RequestsAt
  <1> QED  BY <1>1, <1>2, <1>3 DEF Others, Kept, PeerKept

LEMMA DoesStream ==
    ASSUME ServerInv, MapsOk, NEW s \in Sessions, ClientStreams(s)
    PROVE  /\ Others(s) /\ LoopKept(s) /\ WireKept(s) /\ SinkKept(s)
           /\ client'[s] = client[s] /\ heard'[s] = heard[s] /\ upload'[s] = upload[s]
           /\ client[s] \in {"up", "stalled"} /\ ~stopped[s] /\ owes[s] > 0 /\ owes'[s] = 0
           /\ inbox'[s] = inbox[s] \o [i \in 1 .. owes[s] |-> "chunk"]
           /\ UNCHANGED <<asked, staging>>
  <1> DEFINE c == inbox[s] \o [i \in 1 .. owes[s] |-> "chunk"]
  <1>1. /\ inbox' = [inbox EXCEPT ![s] = c]
        /\ owes' = [owes EXCEPT ![s] = 0] /\ owes[s] > 0
        /\ client[s] \in {"up", "stalled"} /\ ~stopped[s]
        /\ UNCHANGED <<readVars, writeVars, typed, stopped, client, asked, upload, heardVars, staging>>
    BY DEF ClientStreams, Connected, UnchangedByPeer, flagVars, sinkVars
  <1> HIDE DEF c
  <1>2. \A t \in Sessions : /\ LoopKept(t) /\ WireKept(t) /\ SinkKept(t)
                            /\ client'[t] = client[t] /\ asked'[t] = asked[t]
                            /\ heard'[t] = heard[t] /\ upload'[t] = upload[t]
    BY <1>1 DEF LoopKept, readVars, WireKept, writeVars, loopVars, heardVars, SinkKept
  <1>3. /\ inbox'[s] = c /\ owes'[s] = 0
        /\ \A t \in Sessions \ {s} : inbox'[t] = inbox[t] /\ owes'[t] = owes[t]
    BY <1>1, Maps
  <1> QED  BY <1>1, <1>2, <1>3 DEF Others, Kept, PeerKept, c

LEMMA DoesClose ==
    ASSUME ServerInv, MapsOk, NEW s \in Sessions, ClientCloses(s)
    PROVE  /\ Others(s) /\ LoopKept(s) /\ WireKept(s) /\ SinkKept(s)
           /\ owes'[s] = owes[s] /\ heard'[s] = heard[s]
           /\ client[s] \in {"up", "stalled"} /\ ~stopped[s] /\ client'[s] = "gone"
           /\ UNCHANGED staging /\ AskedMap
           /\ \/ inbox'[s] = inbox[s] /\ upload'[s] = upload[s] /\ asked'[s] = asked[s]
              \/ \E k \in Kinds :
                    /\ ~AsksUpload(asked[s]) \/ asked[s] \notin Seq(Kinds)
                    /\ inbox'[s] = inbox[s] \o SubSeq(Frame(k), 1, 1)
                    /\ k # "upload" => upload'[s] = upload[s]
              \/ /\ owes[s] > 1 /\ inbox'[s] = Append(inbox[s], "chunk")
                 /\ upload'[s] = upload[s] /\ asked'[s] = asked[s]
  <1>1. /\ client[s] \in {"up", "stalled"} /\ ~stopped[s]
        /\ client' = [client EXCEPT ![s] = "gone"]
        /\ UNCHANGED <<readVars, writeVars, typed, stopped, owes, heardVars, staging>>
    BY DEF ClientCloses, Connected, UnchangedByPeer, flagVars, sinkVars
  <1>2. \A t \in Sessions : /\ LoopKept(t) /\ WireKept(t) /\ SinkKept(t)
                            /\ owes'[t] = owes[t] /\ heard'[t] = heard[t]
    BY <1>1 DEF LoopKept, readVars, WireKept, writeVars, loopVars, heardVars, SinkKept
  <1>3. client'[s] = "gone" /\ \A t \in Sessions \ {s} : client'[t] = client[t]
    BY <1>1, Maps
  <1>4. CASE UNCHANGED <<inbox, asked, upload>>
    <2>1. AskedMap
      BY <1>4 DEF AskedMap, MapsOk
    <2> QED  BY <1>1, <1>2, <1>3, <1>4, <2>1 DEF Others, Kept, PeerKept
  <1>5. CASE \E k \in Kinds : Request(s, k, 1)
    <2>1. PICK k \in Kinds : Request(s, k, 1)
      BY <1>5
    <2>2. /\ ~AsksUpload(asked[s]) \/ asked[s] \notin Seq(Kinds)
          /\ inbox'[s] = inbox[s] \o SubSeq(Frame(k), 1, 1)
          /\ \A t \in Sessions \ {s} : /\ inbox'[t] = inbox[t] /\ asked'[t] = asked[t]
                                       /\ upload'[t] = upload[t]
          /\ k # "upload" => upload'[s] = upload[s]
          /\ AskedMap
      BY <2>1, RequestsAt
    <2> QED  BY <1>1, <1>2, <1>3, <2>2 DEF Others, Kept, PeerKept
  <1>6. CASE /\ owes[s] > 1 /\ inbox' = [inbox EXCEPT ![s] = Append(@, "chunk")]
             /\ UNCHANGED <<asked, upload>>
    <2>1. AskedMap
      BY <1>6 DEF AskedMap, MapsOk
    <2>2. /\ inbox'[s] = Append(inbox[s], "chunk")
          /\ \A t \in Sessions \ {s} : inbox'[t] = inbox[t]
      BY <1>6, Maps
    <2> QED  BY <1>1, <1>2, <1>3, <1>6, <2>1, <2>2 DEF Others, Kept, PeerKept
  <1> QED  BY <1>4, <1>5, <1>6 DEF ClientCloses

LEMMA DoesStall ==
    ASSUME ServerInv, MapsOk, NEW s \in Sessions, ClientStalls(s)
    PROVE  /\ Others(s) /\ LoopKept(s) /\ WireKept(s) /\ SinkKept(s)
           /\ owes'[s] = owes[s] /\ heard'[s] = heard[s] /\ upload'[s] = upload[s]
           /\ inbox'[s] = inbox[s]
           /\ client[s] = "up" /\ ~stopped[s] /\ client'[s] = "stalled"
           /\ wpc[s] = "write" /\ UNCHANGED <<asked, staging>>
  <1>1. /\ client[s] = "up" /\ ~stopped[s] /\ wpc[s] = "write"
        /\ client' = [client EXCEPT ![s] = "stalled"]
        /\ UNCHANGED <<readVars, writeVars, typed, stopped, inbox, asked, upload, owes, heardVars, staging>>
    BY DEF ClientStalls, UnchangedByPeer, flagVars, sinkVars
  <1>2. \A t \in Sessions : /\ LoopKept(t) /\ WireKept(t) /\ SinkKept(t)
                            /\ owes'[t] = owes[t] /\ heard'[t] = heard[t]
                            /\ inbox'[t] = inbox[t] /\ asked'[t] = asked[t]
                            /\ upload'[t] = upload[t]
    BY <1>1 DEF LoopKept, readVars, WireKept, writeVars, loopVars, heardVars, SinkKept
  <1>3. client'[s] = "stalled" /\ \A t \in Sessions \ {s} : client'[t] = client[t]
    BY <1>1, Maps
  <1> QED  BY <1>1, <1>2, <1>3 DEF Others, Kept, PeerKept

\* The session of the accept handler has not been started.
LEMMA BornAt ==
    ASSUME ServerInv, accept \in {"counted", "listed"}
    PROVE  born \in Sessions /\ rpc[born] = "none"
  BY SessionsAssumption DEF ServerInv, AcceptOk, Sessions

LEMMA DoesFail ==
    ASSUME ServerInv, MapsOk, AcceptFails
    PROVE  /\ Others(born) /\ PeerKept(born) /\ SinkKept(born) /\ born \in Sessions
           /\ rpc[born] = "none" /\ rpc'[born] = "over" /\ wpc'[born] = "over"
           /\ cmd'[born] = cmd[born] /\ item'[born] = item[born] /\ next'[born] = next[born]
           /\ writing'[born] = writing[born] /\ chan'[born] = chan[born]
           /\ inbox'[born] = inbox[born] /\ typed'[born] = typed[born]
           /\ stopped'[born] /\ UNCHANGED <<asked, staging>>
  <1>1. /\ accept = "counted" /\ stopped' = [stopped EXCEPT ![born] = TRUE]
        /\ rpc' = [rpc EXCEPT ![born] = "over"] /\ wpc' = [wpc EXCEPT ![born] = "over"]
        /\ UNCHANGED <<cmd, item, next, typed, chan, writing, inbox, asked, restVars, staging>>
    BY DEF AcceptFails, flagVars, peerVars, restVars, sinkVars
  <1>2. born \in Sessions /\ rpc[born] = "none"
    BY <1>1, BornAt
  <1>3. /\ \A t \in Sessions \ {born} : /\ stopped'[t] = stopped[t] /\ rpc'[t] = rpc[t]
                                        /\ wpc'[t] = wpc[t]
        /\ stopped'[born] /\ rpc'[born] = "over" /\ wpc'[born] = "over"
    BY <1>1, <1>2, Maps
  <1>4. \A t \in Sessions : PeerKept(t) /\ SinkKept(t)
    BY <1>1 DEF PeerKept, SinkKept, restVars, heardVars
  <1> QED  BY <1>1, <1>2, <1>3, <1>4 DEF Others, Kept, LoopKept, WireKept

LEMMA DoesStart ==
    ASSUME ServerInv, MapsOk, sessionStart
    PROVE  /\ Others(born) /\ SinkKept(born) /\ born \in Sessions
           /\ rpc[born] = "none" /\ rpc'[born] \in {"header", "done"}
           /\ wpc'[born] \in {"done", "receive"}
           /\ cmd'[born] = cmd[born] /\ item'[born] = item[born] /\ next'[born] = next[born]
           /\ writing'[born] = writing[born] /\ chan'[born] = chan[born]
           /\ inbox'[born] = inbox[born] /\ typed'[born] = typed[born]
           /\ stopped'[born] = stopped[born] /\ client'[born] = "up"
           /\ owes'[born] = owes[born] /\ upload'[born] = upload[born]
           /\ heard'[born] = heard[born] /\ UNCHANGED <<asked, staging>>
  <1> DEFINE l == IF stopped[born] THEN "done" ELSE "header"
             m == IF stopped[born] THEN "done" ELSE "receive"
  <1>1. /\ accept = "listed" /\ client' = [client EXCEPT ![born] = "up"]
        /\ rpc' = [rpc EXCEPT ![born] = l] /\ wpc' = [wpc EXCEPT ![born] = m]
        /\ UNCHANGED <<cmd, item, next, typed, stopped, chan, writing, inbox, asked, owes, upload, heardVars, staging>>
    BY DEF sessionStart, flagVars, sinkVars, LoopTop
  <1>a. l \in {"header", "done"} /\ m \in {"done", "receive"}
    OBVIOUS
  <1> HIDE DEF l, m
  <1>2. born \in Sessions /\ rpc[born] = "none"
    BY <1>1, BornAt
  <1>3. /\ \A t \in Sessions \ {born} : /\ client'[t] = client[t] /\ rpc'[t] = rpc[t]
                                        /\ wpc'[t] = wpc[t]
        /\ client'[born] = "up" /\ rpc'[born] = l /\ wpc'[born] = m
    BY <1>1, <1>2, Maps
  <1>4. \A t \in Sessions : SinkKept(t) /\ heard'[t] = heard[t]
    BY <1>1 DEF SinkKept, heardVars
  <1> QED  BY <1>1, <1>a, <1>2, <1>3, <1>4 DEF Others, Kept, LoopKept, WireKept, PeerKept

\* The steps that touch no session.
LEMMA DoesNothing ==
    ASSUME \/ AcceptBegins \/ AcceptAborted \/ tryStartSession \/ AcceptLists
           \/ StopBegins \/ Stops \/ OtherProgram \/ UNCHANGED vars
    PROVE  /\ \A t \in Sessions : Kept(t)
           /\ UNCHANGED <<asked, staging>>
  <1>1. UNCHANGED <<readVars, writeVars, typed, stopped, client, inbox, asked, owes, upload,
                    heard, staging>>
    <2> USE DEF vars, writeVars, flagVars, peerVars, heardVars, sinkVars
    <2>1. CASE AcceptBegins
      BY <2>1 DEF AcceptBegins
    <2>2. CASE AcceptAborted
      BY <2>2 DEF AcceptAborted
    <2>3. CASE tryStartSession
      BY <2>3 DEF tryStartSession
    <2>4. CASE AcceptLists
      BY <2>4 DEF AcceptLists
    <2>5. CASE StopBegins
      BY <2>5 DEF StopBegins, UnchangedByMain
    <2>6. CASE Stops
      BY <2>6 DEF Stops, stopAccepting, StopSessions, Wait, InterfaceShutdown, UnchangedByMain
    <2>7. CASE OtherProgram
      BY <2>7 DEF OtherProgram, UnchangedByPeer
    <2>8. CASE UNCHANGED vars
      BY <2>8
    <2> QED  BY <2>1, <2>2, <2>3, <2>4, <2>5, <2>6, <2>7, <2>8
  <1> QED  BY <1>1 DEF Kept, LoopKept, WireKept, PeerKept, SinkKept, readVars, writeVars, loopVars

-----------------------------------------------------------------------------
(* A session of which nothing changes.                                     *)

\* A session at which nothing changes.
LEMMA KeptSession ==
    ASSUME NEW t \in Sessions, SessionOk(t), Kept(t)
    PROVE  SessionOk(t)'
  <1> USE DEF Kept, LoopKept, WireKept, PeerKept, SinkKept
  <1>1. FrameOk(t)'
    <2>1. Reads(rpc[t], next[t])' <=> Reads(rpc[t], next[t])
      BY DEF Reads
    <2>2. FrameOk(t)
      BY DEF SessionOk
    <2> QED  BY <2>1, <2>2 DEF FrameOk
  <1>2. SinkOk(t)'
    BY DEF SessionOk, SinkOk
  <1>3. ASSUME Listens(t)' PROVE BooksOk(t)' /\ TypesOk(t)' /\ ReadyOk(t)' /\ OwesOk(t)'
    <2>1. BooksOk(t) /\ TypesOk(t) /\ ReadyOk(t) /\ OwesOk(t)
      BY <1>3 DEF SessionOk, Listens
    <2>2. BooksOk(t)'
      BY <2>1 DEF BooksOk
    <2>3. TypesOk(t)'
      BY <2>1 DEF TypesOk
    <2>4. ReadyOk(t)'
      BY <2>1 DEF ReadyOk, InUpload
    <2>5. OwesOk(t)'
      BY <2>1 DEF OwesOk
    <2> QED  BY <2>2, <2>3, <2>4, <2>5
  <1> QED  BY <1>1, <1>2, <1>3 DEF SessionOk

-----------------------------------------------------------------------------
(* A step of a session keeps its invariant.                                *)

\* Facts about the readers that several steps share.
LEMMA SameExpected ==
    ASSUME NEW b, NEW r, NEW n, NEW t, NEW m, Framed(r, n, b), r # "chunk", t # "chunk",
           Expected(r, n) = Expected(t, m)
    PROVE  Framed(t, m, b)
  BY DEF Framed

LEMMA NothingReady ==
    ASSUME NEW w, NEW q, ~ReadyUnder(w, q)
    PROVE  \A k : ReadyLast(w, q, k)
  BY DEF ReadyUnder, ReadyLast

\* Nothing is under way but the replies, where an upload is not at its start.
LEMMA NotReady ==
    ASSUME NEW s \in Sessions, SessionOk(s), Listens(s), ~InUpload(s)
    PROVE  /\ ~ReadyUnder(writing[s], chan[s])
           /\ \A k : ReadyLast(writing[s], chan[s], k)
  <1>1. ~ReadyUnder(writing[s], chan[s])
    BY DEF SessionOk, ReadyOk
  <1> QED  BY <1>1, NothingReady

LEMMA NothingOwed ==
    ASSUME ServerInv, MapsOk, NEW s \in Sessions, SessionOk(s), Listens(s),
           rpc[s] # "chunk" \/ inbox[s] # <<>>
    PROVE  owes[s] = 0
  <1>1. owes[s] \in Nat /\ OwesOk(s)
    BY Maps DEF SessionOk
  <1> QED  BY <1>1 DEF OwesOk

\* The books of a session, by what a step of readLoop changes in them.
LEMMA BooksMove ==
    ASSUME NEW s \in Sessions, BooksOk(s), WireKept(s), PeerKept(s),
           At(rpc'[s]) => /\ Here(writing[s], chan[s]) <= Len(asked[s])
                          /\ asked[s][Here(writing[s], chan[s])] = cmd'[s],
           rpc'[s] \notin {"done", "over"} =>
             Numbered(Here(writing[s], chan[s]) - (IF At(rpc'[s]) THEN 0 ELSE 1),
                      inbox'[s], asked[s]),
           Reads(rpc'[s], next'[s]) => Whole(rpc'[s], inbox'[s])
    PROVE  BooksOk(s)'
  BY DEF BooksOk, WireKept, PeerKept

\* A step of readLoop that sends an error, or nothing.
LEMMA TypesMove ==
    ASSUME NEW s \in Sessions, TypesOk(s), WireKept(s), PeerKept(s),
           \/ item'[s].what # "error"
           \/ item'[s] = item[s]
           \/ \E b \in BOOLEAN : item'[s] = Error(s, b)
    PROVE  TypesOk(s)'
  <1>1. \A b \in BOOLEAN : Error(s, b).typed = typed[s]
    BY DEF Error
  <1>2. item'[s].what = "error" => item'[s].typed = typed[s]
    BY <1>1 DEF TypesOk
  <1>3. TypedRight(heard[s], writing[s], chan[s], typed[s])
    BY DEF TypesOk
  <1> QED  BY <1>2, <1>3 DEF TypesOk, WireKept, PeerKept

\* Where nothing but replies is under way, and the client owes no chunks.
LEMMA QuietMove ==
    ASSUME NEW s \in Sessions, WireKept(s), PeerKept(s), owes[s] = 0,
           ~ReadyUnder(writing[s], chan[s])
    PROVE  ReadyOk(s)' /\ OwesOk(s)'
  <1>1. ~ReadyUnder(writing'[s], chan'[s])
    BY DEF WireKept
  <1>2. \A k : ReadyLast(writing'[s], chan'[s], k)
    BY <1>1, NothingReady
  <1>3. owes'[s] = 0
    BY DEF PeerKept
  <1> QED  BY <1>1, <1>2, <1>3 DEF ReadyOk, OwesOk

\* The first part of a request starts it, and what is left of the stream follows.
LEMMA HeaderSession ==
    ASSUME ServerInv, MapsOk, NEW s \in Sessions, SessionOk(s), ReadHeader(s)
    PROVE  SessionOk(s)'
  <1> DEFINE b == inbox[s]  a == asked[s]  h == Here(writing[s], chan[s])
  <1>1. /\ WireKept(s) /\ PeerKept(s) /\ SinkKept(s)
        /\ rpc[s] = "header" /\ inbox[s] # <<>> /\ inbox'[s] = Tail(inbox[s])
        /\ cmd'[s] = Head(inbox[s])
        /\ \/ /\ rpc'[s] = "send" /\ next'[s] = "done" /\ item'[s] = Error(s, TRUE)
           \/ /\ item'[s] = item[s] /\ next'[s] = next[s]
              /\ \/ rpc'[s] = "drain" /\ cmd'[s] \in {"legacyMessage", "legacyUpload"}
                 \/ rpc'[s] = "body" /\ cmd'[s] \in {"auth", "data"}
                 \/ rpc'[s] = "meta" /\ cmd'[s] = "upload"
                 \/ rpc'[s] = "exec" /\ cmd'[s] = "negotiate"
    BY DoesReadHeader
  <1>2. b \in Seq(Parts) /\ h \in Nat /\ h >= 1
    BY Maps, Places
  <1>3. Framed("header", next[s], b)
    BY <1>1 DEF SessionOk, FrameOk, Reads
  <1>4. /\ Head(b) \in Kinds
        /\ Head(b) = "negotiate" => Framed("exec", next'[s], Tail(b))
        /\ Head(b) \in {"auth", "data"} => Framed("body", next'[s], Tail(b))
        /\ Head(b) \in {"legacyMessage", "legacyUpload"} => Framed("drain", next'[s], Tail(b))
        /\ Head(b) = "upload" => Framed("meta", next'[s], Tail(b))
    BY <1>1, <1>2, <1>3, FramedHeader
  <1>5. FrameOk(s)'
    <2> SUFFICES ASSUME Reads(rpc'[s], next'[s]) PROVE Framed(rpc'[s], next'[s], Tail(b))
      BY <1>1 DEF FrameOk
    <2>1. ~(rpc'[s] = "send" /\ next'[s] = "done")
      BY DEF Reads
    <2>2. CASE rpc'[s] = "drain" /\ cmd'[s] \in {"legacyMessage", "legacyUpload"}
      BY <1>1, <1>4, <2>2
    <2>3. CASE rpc'[s] = "body" /\ cmd'[s] \in {"auth", "data"}
      BY <1>1, <1>4, <2>3
    <2>4. CASE rpc'[s] = "meta" /\ cmd'[s] = "upload"
      BY <1>1, <1>4, <2>4
    <2>5. CASE rpc'[s] = "exec" /\ cmd'[s] = "negotiate"
      BY <1>1, <1>4, <2>5
    <2> QED  BY <1>1, <2>1, <2>2, <2>3, <2>4, <2>5
  <1>6. SinkOk(s)'
    BY <1>1 DEF SessionOk, SinkOk, SinkKept, PeerKept
  <1>7. ASSUME Listens(s)' PROVE BooksOk(s)' /\ TypesOk(s)' /\ ReadyOk(s)' /\ OwesOk(s)'
    <2>1. Listens(s) /\ BooksOk(s) /\ TypesOk(s)
      BY <1>1, <1>7 DEF Listens, WireKept, PeerKept, SessionOk
    <2>2. ~ReadyUnder(writing[s], chan[s]) /\ owes[s] = 0
      BY <1>1, <2>1, NotReady, NothingOwed DEF InUpload
    <2>3. ReadyOk(s)' /\ OwesOk(s)'
      BY <1>1, <2>2, QuietMove
    <2>4. TypesOk(s)'
      BY <1>1, <2>1, TypesMove
    <2>5. a \in Seq(Kinds) /\ Numbered(h - 1, b, a) /\ Whole("header", b)
      BY <1>1, <2>1 DEF BooksOk, At, Reads
    <2>6. h <= Len(a) /\ a[h] = Head(b) /\ Numbered(h, Tail(b), a)
      <3>1. h - 1 \in Nat /\ (h - 1) + 1 = h
        BY <1>2
      <3> HIDE DEF a, b, h
      <3>2. h - 1 + 1 <= Len(a) /\ a[h - 1 + 1] = Head(b) /\ Numbered(h - 1 + 1, Tail(b), a)
        BY <1>1, <1>2, <1>4, <2>5, <3>1, NumberedTail DEF b
      <3> QED  BY <3>1, <3>2
    <2>7. Reads(rpc'[s], next'[s]) => Whole(rpc'[s], Tail(b))
      <3> SUFFICES ASSUME Reads(rpc'[s], next'[s]) PROVE Whole(rpc'[s], Tail(b))
        OBVIOUS
      <3>1. ASSUME Len(b) = 1 PROVE rpc'[s] \notin {"body", "drain", "meta"}
        <4>1. Head(b) = b[1] /\ b[1] \in {"negotiate", "body", "meta", "chunk"}
          BY <1>1, <1>2, <2>5, <3>1, TailIs DEF Whole
        <4>2. Head(b) = "negotiate"
          BY <1>4, <4>1 DEF Kinds
        <4> QED  BY <1>1, <4>2
      <3> QED  BY <1>1, <1>2, <2>5, <3>1, WholeTail
    <2>8. At(rpc'[s]) /\ rpc'[s] \notin {"done", "over"}
      BY <1>1 DEF At
    <2>9. BooksOk(s)'
      <3> HIDE DEF a, b, h
      <3>1. h - 0 = h
        BY <1>2
      <3> QED  BY <1>1, <2>1, <2>6, <2>7, <2>8, <3>1, BooksMove DEF a, b, h
    <2> QED  BY <2>3, <2>4, <2>9
  <1> QED  BY <1>5, <1>6, <1>7 DEF SessionOk

\* The rest of the request is read.
LEMMA BodySession ==
    ASSUME ServerInv, MapsOk, NEW s \in Sessions, SessionOk(s), ReadBody(s) \/ Drain(s)
    PROVE  SessionOk(s)'
  <1> DEFINE b == inbox[s]  a == asked[s]  h == Here(writing[s], chan[s])
  <1>1. /\ WireKept(s) /\ PeerKept(s) /\ SinkKept(s)
        /\ rpc[s] \in {"body", "drain"} /\ inbox[s] # <<>> /\ inbox'[s] = Tail(inbox[s])
        /\ cmd'[s] = cmd[s]
        /\ \/ /\ rpc'[s] = "send" /\ next'[s] \in {"done", "loop"}
              /\ \E e \in BOOLEAN : item'[s] = Error(s, e)
           \/ /\ rpc'[s] = "exec" /\ item'[s] = item[s] /\ next'[s] = next[s]
    BY DoesReadBody, DoesDrain
  <1>2. b \in Seq(Parts) /\ h \in Nat /\ h >= 1
    BY Maps, Places
  <1>3. Framed(rpc[s], next[s], b)
    BY <1>1 DEF SessionOk, FrameOk, Reads
  <1>4. Head(b) = "body"
    BY <1>1, <1>2, <1>3, FramedBody
  <1>5. FrameOk(s)'
    <2> SUFFICES ASSUME Reads(rpc'[s], next'[s]) PROVE Framed(rpc'[s], next'[s], Tail(b))
      BY <1>1 DEF FrameOk
    <2>1. rpc'[s] = "exec" \/ (rpc'[s] = "send" /\ next'[s] = "loop")
      BY <1>1 DEF Reads
    <2> QED  BY <1>1, <1>2, <1>3, <2>1, FramedBody
  <1>6. SinkOk(s)'
    BY <1>1 DEF SessionOk, SinkOk, SinkKept, PeerKept
  <1>7. ASSUME Listens(s)' PROVE BooksOk(s)' /\ TypesOk(s)' /\ ReadyOk(s)' /\ OwesOk(s)'
    <2>1. Listens(s) /\ BooksOk(s) /\ TypesOk(s)
      BY <1>1, <1>7 DEF Listens, WireKept, PeerKept, SessionOk
    <2>2. ~ReadyUnder(writing[s], chan[s]) /\ owes[s] = 0
      BY <1>1, <2>1, NotReady, NothingOwed DEF InUpload
    <2>3. ReadyOk(s)' /\ OwesOk(s)'
      BY <1>1, <2>2, QuietMove
    <2>4. TypesOk(s)'
      BY <1>1, <2>1, TypesMove
    <2>5. a \in Seq(Kinds) /\ Numbered(h - 0, b, a) /\ Whole(rpc[s], b)
          /\ h <= Len(a) /\ a[h] = cmd[s]
      BY <1>1, <2>1 DEF BooksOk, At, Reads
    <2>6. Numbered(h - 0, Tail(b), a)
      <3>1. h - 0 = h /\ "body" \notin Kinds
        BY <1>2 DEF Kinds
      <3> HIDE DEF a, b, h
      <3> QED  BY <1>1, <1>2, <1>4, <2>5, <3>1, NumberedTail DEF b
    <2>7. Whole(rpc'[s], Tail(b))
      BY <1>1, <1>2, <2>5, WholeTail
    <2>8. At(rpc'[s]) /\ rpc'[s] \notin {"done", "over"}
      BY <1>1 DEF At
    <2>9. BooksOk(s)'
      <3> HIDE DEF a, b, h
      <3> QED  BY <1>1, <2>1, <2>5, <2>6, <2>7, <2>8, BooksMove DEF a, b, h
    <2> QED  BY <2>3, <2>4, <2>9
  <1> QED  BY <1>5, <1>6, <1>7 DEF SessionOk

\* The command has ended, and its reply is about to be sent.
LEMMA ExecSession ==
    ASSUME ServerInv, MapsOk, NEW s \in Sessions, SessionOk(s), commandExec(s)
    PROVE  SessionOk(s)'
  <1>1. /\ WireKept(s) /\ PeerKept(s) /\ SinkKept(s)
        /\ rpc[s] = "exec" /\ inbox'[s] = inbox[s] /\ cmd'[s] = cmd[s]
        /\ rpc'[s] = "send" /\ next'[s] = "finish"
        /\ item'[s].what # "error" \/ \E b \in BOOLEAN : item'[s] = Error(s, b)
    <2>1. /\ WireKept(s) /\ PeerKept(s) /\ SinkKept(s)
          /\ rpc[s] = "exec" /\ inbox'[s] = inbox[s] /\ cmd'[s] = cmd[s]
          /\ rpc'[s] = "send" /\ next'[s] = "finish"
          /\ \/ item'[s] \in {Answer(s, "ok", 0), Answer(s, "file", 0)}
             \/ \E b \in BOOLEAN : item'[s] = Error(s, b)
      BY DoesExec
    <2>2. Answer(s, "ok", 0).what = "ok" /\ Answer(s, "file", 0).what = "file"
      BY DEF Answer
    <2> QED  BY <2>1, <2>2
  <1>2. FrameOk(s)'
    <2>1. Framed("exec", next[s], inbox[s])
      BY <1>1 DEF SessionOk, FrameOk, Reads
    <2>2. Framed("send", "finish", inbox[s])
      BY <2>1 DEF Framed, Expected
    <2> QED  BY <1>1, <2>2 DEF FrameOk
  <1>3. SinkOk(s)'
    BY <1>1 DEF SessionOk, SinkOk, SinkKept, PeerKept
  <1>4. ASSUME Listens(s)' PROVE BooksOk(s)' /\ TypesOk(s)' /\ ReadyOk(s)' /\ OwesOk(s)'
    <2>1. Listens(s) /\ BooksOk(s) /\ TypesOk(s)
      BY <1>1, <1>4 DEF Listens, WireKept, PeerKept, SessionOk
    <2>2. ~ReadyUnder(writing[s], chan[s]) /\ owes[s] = 0
      BY <1>1, <2>1, NotReady, NothingOwed DEF InUpload
    <2>3. ReadyOk(s)' /\ OwesOk(s)'
      BY <1>1, <2>2, QuietMove
    <2>4. TypesOk(s)'
      BY <1>1, <2>1, TypesMove
    <2>5. Whole("send", inbox[s])
      BY <1>1, <2>1 DEF BooksOk, Whole, Reads
    <2>6. BooksOk(s)'
      BY <1>1, <2>1, <2>5, BooksMove DEF BooksOk, At
    <2> QED  BY <2>3, <2>4, <2>6
  <1> QED  BY <1>2, <1>3, <1>4 DEF SessionOk

\* A session that is at an upload: it is the last thing its client has asked for.
LEMMA UploadUnder ==
    ASSUME MapsOk, ServerInv, NEW s \in Sessions, BooksOk(s), At(rpc[s]), cmd[s] = "upload"
    PROVE  AsksUpload(asked[s])
  <1>1. Here(writing[s], chan[s]) \in Nat /\ Here(writing[s], chan[s]) >= 1
    BY Maps, Places
  <1>2. /\ asked[s] \in Seq(Kinds) /\ UploadLast(asked[s])
        /\ Here(writing[s], chan[s]) <= Len(asked[s])
        /\ asked[s][Here(writing[s], chan[s])] = "upload"
    BY DEF BooksOk
  <1> QED  BY <1>1, <1>2, UploadAt

\* The reply is queued: the next request is the one behind it in the stream.
LEMMA SendSession ==
    ASSUME ServerInv, MapsOk, NEW s \in Sessions, ItemOk(s), SessionOk(s), SendDone(s)
    PROVE  SessionOk(s)'
  <1> DEFINE b == inbox[s]  a == asked[s]  w == writing[s]  q == chan[s]  e == item[s]
             h == Here(w, q)  r == Append(q, e)
  <1>1. /\ PeerKept(s) /\ SinkKept(s)
        /\ rpc[s] = "send" /\ inbox'[s] = inbox[s] /\ ~stopped[s]
        /\ cmd'[s] = cmd[s]
        /\ writing'[s] = writing[s] /\ stopped'[s] = stopped[s]
        /\ chan'[s] = Append(chan[s], item[s])
        /\ typed'[s] = (typed[s] \/ item[s].cmd = "negotiate")
        /\ item'[s] = NoItem /\ next'[s] = "none"
        /\ rpc'[s] = IF next[s] = "loop" THEN "header" ELSE next[s]
    BY DoesSend
  <1>2. /\ b \in Seq(Parts) /\ w \in Items /\ q \in Seq(Items) /\ e \in Items
        /\ h \in Nat /\ h >= 1 /\ typed[s] \in BOOLEAN /\ upload[s].size \in Nat
    BY Maps, Places
  <1>3. next[s] \in {"done", "finish", "loop", "chunk", "probe"}
    BY <1>1 DEF ServerInv, LoopsOk
  <1>4. /\ e.what # "none" /\ e.cmd \in {"none", cmd[s]}
        /\ e.what = "ready" <=> next[s] \in {"chunk", "probe"}
    BY <1>1 DEF ItemOk
  <1>5. ASSUME next[s] \in {"chunk", "probe"} PROVE b = <<>> /\ staging[s] = 0 /\ cmd[s] = "upload"
    <2>1. Framed("send", next[s], b)
      BY <1>1, <1>5 DEF SessionOk, FrameOk, Reads
    <2>2. Expected("send", next[s]) = {}
      BY <1>5 DEF Expected
    <2>3. b = <<>>
      BY <1>2, <2>1, <2>2, FramedNothing
    <2>4. staging[s] = 0
      BY <1>1, <1>5 DEF SessionOk, SinkOk
    <2>5. cmd[s] = "upload"
      BY <1>1, <1>5 DEF ServerInv, GateOk
    <2> QED  BY <2>3, <2>4, <2>5
  <1>6. ASSUME next[s] = "probe" PROVE upload[s].size = 0
    <2>1. SinkOk(s)
      BY DEF SessionOk
    <2> QED  BY <1>1, <1>6, <2>1 DEF SinkOk
  <1>7. FrameOk(s)'
    <2> SUFFICES ASSUME Reads(rpc'[s], next'[s]) PROVE Framed(rpc'[s], "none", b)
      BY <1>1 DEF FrameOk
    <2>1. CASE next[s] \in {"chunk", "probe"}
      BY <1>5, <2>1, FramedEmpty
    <2>2. CASE next[s] \in {"finish", "loop"}
      <3>1. Framed("send", next[s], b)
        BY <1>1, <2>2 DEF SessionOk, FrameOk, Reads
      <3>2. rpc'[s] \in {"finish", "header"}
        BY <1>1, <2>2
      <3> QED  BY <2>2, <3>1, <3>2 DEF Framed, Expected
    <2>3. CASE next[s] = "done"
      BY <1>1, <2>3 DEF Reads
    <2> QED  BY <1>3, <2>1, <2>2, <2>3
  <1>8. SinkOk(s)'
    <2>1. SinkOk(s)
      BY DEF SessionOk
    <2>2. rpc'[s] = "chunk" => staging[s] = 0 /\ b = <<>>
      BY <1>1, <1>5
    <2>3. Len(<<>>) = 0
      OBVIOUS
    <2>4. rpc'[s] # "move" /\ (rpc'[s] = "probe" => next[s] = "probe") /\ rpc'[s] # "send"
      BY <1>1, <1>3
    <2>5. staging'[s] = staging[s] /\ upload'[s] = upload[s]
      BY <1>1 DEF SinkKept, PeerKept
    <2>6. staging'[s] \in {None} \cup 0 .. upload'[s].size
      BY <1>1, <2>1, <2>5 DEF SinkOk
    <2>7. rpc'[s] = "probe" => staging'[s] = upload'[s].size
      BY <1>1, <2>1, <2>4, <2>5 DEF SinkOk
    <2>8. rpc'[s] = "chunk" => staging'[s] >= 0 /\ staging'[s] + Len(inbox'[s]) <= upload'[s].size
      BY <1>1, <1>2, <2>2, <2>3, <2>5
    <2> QED  BY <2>4, <2>6, <2>7, <2>8 DEF SinkOk
  <1>9. ASSUME Listens(s)' PROVE BooksOk(s)' /\ TypesOk(s)' /\ ReadyOk(s)' /\ OwesOk(s)'
    <2>1. Listens(s) /\ BooksOk(s) /\ TypesOk(s) /\ ReadyOk(s)
      BY <1>1, <1>9 DEF Listens, PeerKept, SessionOk
    <2>2. owes[s] = 0
      BY <1>1, <2>1, NothingOwed
    <2>3. ReadyUnder(w, q) => next[s] = "finish" /\ upload[s].size = 0 /\ InUpload(s)
      BY <1>1, <2>1 DEF ReadyOk, InUpload
    <2>4. e.what = "ready" => ~ReadyUnder(w, q)
      BY <1>4, <2>3
    <2>5. /\ a \in Seq(Kinds) /\ UploadLast(a) /\ Matched(w, q, a) /\ h <= Len(a) /\ a[h] = cmd[s]
          /\ Numbered(h - 0, b, a)
          /\ next[s] # "done" => Whole("send", b)
          /\ TypedRight(heard[s], w, q, typed[s])
          /\ e.what = "error" => e.typed = typed[s]
          /\ ReadyLast(w, q, 0)
      BY <1>1, <2>1 DEF BooksOk, At, TypesOk, ReadyOk, Reads
    <2>6. Here(w, r) = h + Written(e) /\ Written(e) = IF next[s] \in {"chunk", "probe"} THEN 0 ELSE 1
      <3>1. Here(w, r) = h + Written(e)
        <4> HIDE DEF w, q, e
        <4> QED  BY <1>2, <1>4, <2>4, PlaceAppend
      <3>2. Written(e) = IF next[s] \in {"chunk", "probe"} THEN 0 ELSE 1
        BY <1>4 DEF Written, IsReply
      <3> QED  BY <3>1, <3>2
    <2>7. Matched(w, r, a)
      <3> HIDE DEF w, q, e, a, h
      <3>1. IsReply(e) => Here(w, q) <= Len(a) /\ e.cmd \in {"none", a[Here(w, q)]}
        BY <1>4, <2>5 DEF h
      <3> QED  BY <1>2, <1>4, <2>4, <2>5, <3>1, MatchedAppend
    <2>8. TypedRight(heard[s], w, r, typed[s] \/ e.cmd = "negotiate")
      <3> HIDE DEF w, q, e
      <3> QED  BY <1>2, <2>5, TypedAppend
    <2>9. TypesOk(s)'
      <3>1. NoItem.what # "error"
        BY DEF NoItem
      <3> QED  BY <1>1, <2>8, <3>1 DEF TypesOk, PeerKept
    <2>10. /\ At(rpc'[s]) <=> next[s] \in {"chunk", "probe"}
           /\ rpc'[s] \in {"done", "finish", "header", "chunk", "probe"}
           /\ Reads(rpc'[s], "none") => next[s] # "done"
           /\ rpc'[s] \notin {"body", "drain", "meta"}
      BY <1>1, <1>3 DEF At, Reads
    <2>11. Here(w, r) - (IF At(rpc'[s]) THEN 0 ELSE 1) = h - 0
      BY <1>2, <2>6, <2>10
    <2>12. At(rpc'[s]) => Here(w, r) = h
      BY <1>2, <2>6, <2>10
    <2>13. Reads(rpc'[s], "none") => Whole(rpc'[s], b)
      BY <2>5, <2>10 DEF Whole
    <2>14. BooksOk(s)'
      <3> HIDE DEF h
      <3>1. asked'[s] = a /\ writing'[s] = w /\ chan'[s] = r /\ inbox'[s] = b /\ next'[s] = "none"
            /\ cmd'[s] = cmd[s]
        BY <1>1 DEF PeerKept
      <3> HIDE DEF r, w, a, b
      <3> QED  BY <2>5, <2>7, <2>11, <2>12, <2>13, <3>1 DEF BooksOk
    <2>15. Len(r) = Len(q) + 1 /\ Len(q) \in Nat /\ r[Len(q) + 1] = e /\ DOMAIN r = 1 .. Len(q) + 1
           /\ DOMAIN q = 1 .. Len(q) /\ \A i \in 1 .. Len(q) : r[i] = q[i]
      <3> HIDE DEF q, e
      <3> QED  BY <1>2, AppendIs
    <2>16. ReadyUnder(w, r) => ReadyUnder(w, q) \/ e.what = "ready"
      <3> HIDE DEF w, q, e, r
      <3> QED  BY <2>15 DEF ReadyUnder
    <2>17. ReadyLast(w, r, IF At(rpc'[s]) THEN 0 ELSE 1)
      <3>1. CASE next[s] \in {"chunk", "probe"}
        <4>1. ~ReadyUnder(w, q) /\ (IF At(rpc'[s]) THEN 0 ELSE 1) = 0
          BY <1>4, <2>4, <2>10, <3>1
        <4> HIDE DEF w, q, e, r
        <4>2. w.what # "ready" /\ \A i \in 1 .. Len(q) : r[i].what # "ready"
          BY <2>15, <4>1 DEF ReadyUnder
        <4>3. \A i \in DOMAIN r : r[i].what = "ready" => Len(r) = i + 0
          BY <2>15, <4>2
        <4> QED  BY <4>1, <4>2, <4>3 DEF ReadyLast
      <3>2. CASE next[s] \notin {"chunk", "probe"}
        <4>1. e.what # "ready" /\ (IF At(rpc'[s]) THEN 0 ELSE 1) = 1
          BY <1>4, <2>10, <3>2
        <4> HIDE DEF w, q, e, r
        <4>2. w.what = "ready" => Len(r) = 1
          BY <2>5, <2>15 DEF ReadyLast
        <4>3. \A i \in 1 .. Len(q) : q[i].what = "ready" => Len(q) = i + 0
          BY <2>5, <2>15 DEF ReadyLast
        <4>4. \A i \in DOMAIN r : r[i].what = "ready" => Len(r) = i + 1
          <5> SUFFICES ASSUME NEW i \in DOMAIN r, r[i].what = "ready" PROVE Len(r) = i + 1
            OBVIOUS
          <5>1. i # Len(q) + 1
            BY <2>15, <4>1
          <5>2. i \in 1 .. Len(q)
            BY <2>15, <5>1
          <5>3. r[i] = q[i]
            BY <2>15, <5>2
          <5>4. Len(q) = i + 0
            BY <4>3, <5>2, <5>3
          <5> QED  BY <2>15, <5>2, <5>4
        <4> QED  BY <4>1, <4>2, <4>4 DEF ReadyLast
      <3> QED  BY <3>1, <3>2
    <2>18. ASSUME ReadyUnder(w, r) PROVE InUpload(s)'
      <3>0. owes'[s] = 0 /\ asked'[s] = a /\ inbox'[s] = b /\ staging'[s] = staging[s]
            /\ upload'[s] = upload[s]
        BY <1>1, <2>2 DEF PeerKept, SinkKept
      <3>1. CASE ReadyUnder(w, q)
        <4>1. rpc'[s] = "finish"
          BY <1>1, <2>3, <3>1
        <4> QED  BY <1>1, <2>3, <3>0, <3>1, <4>1 DEF InUpload
      <3>2. CASE e.what = "ready"
        <4>1. next[s] \in {"chunk", "probe"} /\ rpc'[s] = next[s]
          BY <1>1, <1>4, <3>2
        <4>2. AsksUpload(a)
          BY <1>1, <1>5, <2>1, <4>1, UploadUnder DEF At
        <4> QED  BY <1>5, <1>6, <3>0, <4>1, <4>2 DEF InUpload
      <3> QED  BY <2>16, <2>18, <3>1, <3>2
    <2>19. ReadyOk(s)'
      <3>1. writing'[s] = w /\ chan'[s] = r
        BY <1>1
      <3> HIDE DEF w, r
      <3> QED  BY <2>17, <2>18, <3>1 DEF ReadyOk
    <2>20. OwesOk(s)'
      BY <1>1, <2>2 DEF OwesOk, PeerKept
    <2> QED  BY <2>9, <2>14, <2>19, <2>20
  <1> QED  BY <1>7, <1>8, <1>9 DEF SessionOk

\* The command is counted out.
LEMMA FinishSession ==
    ASSUME ServerInv, MapsOk, NEW s \in Sessions, SessionOk(s), FinishCommand(s)
    PROVE  SessionOk(s)'
  <1>1. /\ WireKept(s) /\ PeerKept(s)
        /\ rpc[s] = "finish" /\ inbox'[s] = inbox[s]
        /\ item'[s] = item[s] /\ next'[s] = next[s]
        /\ rpc'[s] = (IF stopped[s] THEN "done" ELSE "header") /\ staging'[s] = None
    BY DoesFinish
  <1>2. FrameOk(s)'
    <2>1. Framed("finish", next[s], inbox[s])
      BY <1>1 DEF SessionOk, FrameOk, Reads
    <2>2. Framed("header", next[s], inbox[s])
      BY <2>1 DEF Framed, Expected
    <2>3. Reads(rpc'[s], next'[s]) => rpc'[s] = "header"
      BY <1>1 DEF Reads
    <2> QED  BY <1>1, <2>2, <2>3 DEF FrameOk
  <1>3. SinkOk(s)'
    BY <1>1 DEF SessionOk, SinkOk
  <1>4. ASSUME Listens(s)' PROVE BooksOk(s)' /\ TypesOk(s)' /\ ReadyOk(s)' /\ OwesOk(s)'
    <2>1. Listens(s) /\ BooksOk(s) /\ TypesOk(s) /\ ReadyOk(s)
      BY <1>1, <1>4 DEF Listens, WireKept, PeerKept, SessionOk
    <2>2. owes[s] = 0 /\ rpc'[s] = "header"
      BY <1>1, <2>1, NothingOwed DEF Listens
    <2>3. TypesOk(s)'
      BY <1>1, <2>1, TypesMove
    <2>4. Whole("header", inbox[s])
      BY <1>1, <2>1 DEF BooksOk, Whole, Reads
    <2>5. BooksOk(s)'
      BY <1>1, <2>1, <2>2, <2>4, BooksMove DEF BooksOk, At
    <2>6. InUpload(s) => InUpload(s)'
      BY <1>1, <2>2 DEF InUpload, PeerKept
    <2>7. ReadyOk(s)'
      BY <1>1, <2>1, <2>2, <2>6 DEF ReadyOk, WireKept, At
    <2>8. OwesOk(s)'
      BY <1>1, <2>2 DEF OwesOk, PeerKept
    <2> QED  BY <2>3, <2>5, <2>7, <2>8
  <1> QED  BY <1>2, <1>3, <1>4 DEF SessionOk

\* A step of readLoop of a session that does not listen, or by which it ends.
LEMMA EndSession ==
    ASSUME ServerInv, MapsOk, NEW s \in Sessions, SessionOk(s),
           SendFails(s) \/ ReadFails(s)
    PROVE  SessionOk(s)'
  <1>1. CASE SendFails(s)
    <2>1. /\ WireKept(s) /\ PeerKept(s) /\ rpc[s] = "send" /\ inbox'[s] = inbox[s] /\ stopped[s]
          /\ next'[s] = "none"
          /\ IF next[s] \in {"chunk", "probe"}
             THEN rpc'[s] = "done" /\ staging'[s] = None
             ELSE /\ rpc'[s] = IF next[s] = "finish" THEN "finish" ELSE "done"
                  /\ staging'[s] = staging[s]
      BY <1>1, DoesSendFail
    <2>2. FrameOk(s)'
      <3> SUFFICES ASSUME Reads(rpc'[s], next'[s]) PROVE Framed(rpc'[s], next'[s], inbox[s])
        BY <2>1 DEF FrameOk
      <3>1. rpc'[s] = "finish" /\ next[s] = "finish"
        BY <2>1 DEF Reads
      <3>2. Framed("send", "finish", inbox[s])
        BY <2>1, <3>1 DEF SessionOk, FrameOk, Reads
      <3> QED  BY <3>1, <3>2 DEF Framed, Expected
    <2>3. SinkOk(s)'
      BY <2>1 DEF SessionOk, SinkOk, PeerKept
    <2> QED  BY <2>1, <2>2, <2>3 DEF SessionOk, Listens, WireKept
  <1>2. CASE ReadFails(s)
    <2>1. /\ WireKept(s) /\ PeerKept(s) /\ (stopped[s] \/ client[s] = "gone")
          /\ rpc'[s] = "done" /\ staging'[s] = None
      BY <1>2, DoesReadFail
    <2>2. FrameOk(s)'
      BY <2>1 DEF FrameOk, Reads
    <2>3. SinkOk(s)'
      BY <2>1 DEF SinkOk
    <2> QED  BY <2>1, <2>2, <2>3 DEF SessionOk, Listens, WireKept, PeerKept
  <1> QED  BY <1>1, <1>2

\* A stop that finds the session, or a step after which it is stopped.
LEMMA CutSession ==
    ASSUME ServerInv, MapsOk, NEW s \in Sessions, SessionOk(s), Cut(s), stopped'[s],
           SinkKept(s), upload'[s] = upload[s], LoopKept(s) \/ (rpc[s] = "done" /\ rpc'[s] = "over")
    PROVE  SessionOk(s)'
  <1>0. /\ inbox[s] \in Seq(Parts) /\ inbox'[s] \in Seq(Parts)
        /\ Len(inbox[s]) \in Nat /\ Len(inbox'[s]) \in Nat
        /\ Len(inbox'[s]) <= Len(inbox[s])
    BY Maps, LenProperties DEF Cut
  <1>1. FrameOk(s)'
    <2>1. CASE LoopKept(s)
      <3> SUFFICES ASSUME Reads(rpc[s], next[s]) PROVE Framed(rpc[s], next[s], inbox'[s])
        BY <2>1 DEF FrameOk, LoopKept
      <3>1. Framed(rpc[s], next[s], inbox[s])
        BY DEF SessionOk, FrameOk
      <3> QED  BY <1>0, <3>1, FramedCut DEF Cut
    <2>2. CASE rpc'[s] = "over"
      BY <2>2 DEF FrameOk, Reads
    <2> QED  BY <2>1, <2>2
  <1>2. SinkOk(s)'
    <2>0. staging[s] \in Int /\ upload[s].size \in Nat /\ SinkOk(s)
      BY Maps DEF SessionOk
    <2>1. CASE LoopKept(s)
      <3>1. rpc[s] = "chunk" => staging[s] + Len(inbox'[s]) <= upload[s].size
        BY <1>0, <2>0 DEF SinkOk
      <3> QED  BY <2>0, <2>1, <3>1 DEF SinkOk, SinkKept, LoopKept
    <2>2. CASE rpc[s] = "done" /\ rpc'[s] = "over"
      BY <2>0, <2>2 DEF SinkOk, SinkKept
    <2> QED  BY <2>1, <2>2
  <1> QED  BY <1>1, <1>2 DEF SessionOk, Listens

\* After a stop there is nothing left to be in step with.
LEMMA StopSession ==
    ASSUME ServerInv, MapsOk, NEW s \in Sessions, SessionOk(s),
           ReadEnds(s) \/ WriteFails(s) \/ WriteEnds(s) \/ StopPosted(s)
    PROVE  SessionOk(s)'
  <1>1. CASE WriteFails(s) \/ WriteEnds(s) \/ StopPosted(s)
    <2>1. Cut(s) /\ stopped'[s] /\ LoopKept(s) /\ RestKept(s) /\ SinkKept(s)
      BY <1>1, DoesStop
    <2> QED  BY <2>1, CutSession DEF RestKept
  <1>2. CASE ReadEnds(s)
    <2>1. /\ RestKept(s) /\ SinkKept(s) /\ rpc[s] = "done" /\ rpc'[s] = "over"
          /\ item'[s] = item[s] /\ writing'[s] = writing[s] /\ typed'[s] = typed[s]
          /\ wpc'[s] = wpc[s]
          /\ Still(s) \/ (Cut(s) /\ stopped'[s])
      BY <1>2, DoesReadEnd
    <2>2. CASE Cut(s) /\ stopped'[s]
      BY <2>1, <2>2, CutSession DEF RestKept
    <2>3. CASE Still(s)
      <3>1. WireKept(s) /\ PeerKept(s)
        BY <2>1, <2>3 DEF WireKept, PeerKept, RestKept, Still
      <3>2. FrameOk(s)'
        BY <2>1 DEF FrameOk, Reads
      <3>3. SinkOk(s)'
        BY <2>1 DEF SessionOk, SinkOk, SinkKept, RestKept
      <3>4. ASSUME Listens(s)' PROVE BooksOk(s)' /\ TypesOk(s)' /\ ReadyOk(s)' /\ OwesOk(s)'
        <4>1. Listens(s) /\ BooksOk(s) /\ TypesOk(s)
          BY <3>1, <3>4 DEF Listens, WireKept, PeerKept, SessionOk
        <4>2. ~ReadyUnder(writing[s], chan[s]) /\ owes[s] = 0
          BY <2>1, <4>1, NotReady, NothingOwed DEF InUpload
        <4>3. ReadyOk(s)' /\ OwesOk(s)'
          BY <3>1, <4>2, QuietMove
        <4>4. TypesOk(s)'
          BY <2>1, <3>1, <4>1, TypesMove
        <4>5. BooksOk(s)'
          BY <2>1, <3>1, <4>1, BooksMove DEF At, Reads
        <4> QED  BY <4>3, <4>4, <4>5
      <3> QED  BY <3>2, <3>3, <3>4 DEF SessionOk
    <2> QED  BY <2>1, <2>2, <2>3
  <1> QED  BY <1>1, <1>2

\* READY is sent when nothing else is under way.
LEMMA PrepareSession ==
    ASSUME ServerInv, MapsOk, NEW s \in Sessions, SessionOk(s), UploadPrepare(s)
    PROVE  SessionOk(s)'
  <1> DEFINE b == inbox[s]  a == asked[s]  h == Here(writing[s], chan[s])
  <1>1. /\ WireKept(s) /\ PeerKept(s)
        /\ rpc[s] = "meta" /\ inbox[s] # <<>> /\ inbox'[s] = Tail(inbox[s])
        /\ cmd'[s] = cmd[s] /\ rpc'[s] = "send"
        /\ \/ /\ item'[s] = Answer(s, "ready", 0) /\ staging'[s] = 0
              /\ next'[s] = IF upload[s].size = 0 THEN "probe" ELSE "chunk"
           \/ /\ item'[s] = Error(s, FALSE) /\ staging'[s] = staging[s]
              /\ next'[s] \in {"finish", "loop"}
    BY DoesPrepare
  <1>2. b \in Seq(Parts) /\ h \in Nat /\ h >= 1 /\ upload[s].size \in Nat
    BY Maps, Places
  <1>3. Framed("meta", next[s], b)
    BY <1>1 DEF SessionOk, FrameOk, Reads
  <1>4. Head(b) = "meta" /\ inbox'[s] = <<>>
    BY <1>1, <1>2, <1>3, FramedMeta
  <1>5. FrameOk(s)'
    BY <1>4, FramedEmpty DEF FrameOk
  <1>6. SinkOk(s)'
    <2>0. upload'[s] = upload[s] /\ rpc'[s] = "send"
      BY <1>1 DEF PeerKept
    <2>1. CASE staging'[s] = 0 /\ next'[s] = IF upload[s].size = 0 THEN "probe" ELSE "chunk"
      <3>1. 0 \in 0 .. upload[s].size /\ (next'[s] = "probe" => 0 = upload[s].size)
        BY <1>2, <2>1
      <3> QED  BY <2>0, <2>1, <3>1 DEF SinkOk
    <2>2. CASE staging'[s] = staging[s] /\ next'[s] \in {"finish", "loop"}
      <3>1. SinkOk(s)
        BY DEF SessionOk
      <3> QED  BY <1>1, <2>0, <2>2, <3>1 DEF SinkOk
    <2> QED  BY <1>1, <2>1, <2>2
  <1>7. ASSUME Listens(s)' PROVE BooksOk(s)' /\ TypesOk(s)' /\ ReadyOk(s)' /\ OwesOk(s)'
    <2>1. Listens(s) /\ BooksOk(s) /\ TypesOk(s)
      BY <1>1, <1>7 DEF Listens, WireKept, PeerKept, SessionOk
    <2>2. ~ReadyUnder(writing[s], chan[s]) /\ owes[s] = 0
      BY <1>1, <2>1, NotReady, NothingOwed DEF InUpload
    <2>3. ReadyOk(s)' /\ OwesOk(s)'
      BY <1>1, <2>2, QuietMove
    <2>4. TypesOk(s)'
      <3>1. Answer(s, "ready", 0).what = "ready"
        BY DEF Answer
      <3>2. item'[s].what # "error" \/ \E e \in BOOLEAN : item'[s] = Error(s, e)
        BY <1>1, <3>1
      <3> QED  BY <1>1, <2>1, <3>2, TypesMove
    <2>5. a \in Seq(Kinds) /\ Numbered(h - 0, b, a) /\ h <= Len(a) /\ a[h] = cmd[s]
      BY <1>1, <2>1 DEF BooksOk, At
    <2>6. Numbered(h - 0, Tail(b), a)
      <3>1. h - 0 = h /\ "meta" \notin Kinds
        BY <1>2 DEF Kinds
      <3> HIDE DEF a, b, h
      <3> QED  BY <1>1, <1>2, <1>4, <2>5, <3>1, NumberedTail DEF b
    <2>7. Whole("send", Tail(b))
      <3>1. Tail(b) = <<>> /\ Len(<<>>) = 0
        BY <1>1, <1>4
      <3> QED  BY <3>1 DEF Whole
    <2>8. BooksOk(s)'
      <3>1. At(rpc'[s]) /\ rpc'[s] \notin {"done", "over"} /\ rpc'[s] = "send"
        BY <1>1 DEF At
      <3> HIDE DEF a, b, h
      <3> QED  BY <1>1, <2>1, <2>5, <2>6, <2>7, <3>1, BooksMove DEF a, b, h
    <2> QED  BY <2>3, <2>4, <2>8
  <1> QED  BY <1>5, <1>6, <1>7 DEF SessionOk

\* A chunk goes to the staging file.
LEMMA ChunkSession ==
    ASSUME ServerInv, MapsOk, NEW s \in Sessions, SessionOk(s), UploadChunk(s)
    PROVE  SessionOk(s)'
  <1> DEFINE b == inbox[s]  a == asked[s]  h == Here(writing[s], chan[s])
  <1>1. /\ WireKept(s) /\ PeerKept(s)
        /\ rpc[s] = "chunk" /\ inbox[s] # <<>> /\ inbox'[s] = Tail(inbox[s])
        /\ cmd'[s] = cmd[s] /\ item'[s] = item[s] /\ next'[s] = next[s]
        /\ \/ /\ staging'[s] = staging[s] + 1
              /\ rpc'[s] = IF staging[s] + 1 = upload[s].size THEN "probe" ELSE "chunk"
           \/ staging'[s] = None /\ rpc'[s] = "done"
    BY DoesChunk
  <1>2. b \in Seq(Parts) /\ h \in Nat /\ h >= 1 /\ upload[s].size \in Nat /\ staging[s] \in Int
    BY Maps, Places
  <1>3. Framed("chunk", next[s], b)
    BY <1>1 DEF SessionOk, FrameOk, Reads
  <1>4. Head(b) = "chunk" /\ \A p \in 1 .. Len(Tail(b)) : Tail(b)[p] = "chunk"
    BY <1>1, <1>2, <1>3, FramedTail
  <1>5. /\ Len(b) \in Nat /\ Len(b) >= 1 /\ Len(Tail(b)) = Len(b) - 1 /\ Tail(b) \in Seq(Parts)
        /\ staging[s] >= 0 /\ staging[s] + Len(b) <= upload[s].size
    <2>1. SinkOk(s)
      BY DEF SessionOk
    <2>2. staging[s] >= 0 /\ staging[s] + Len(b) <= upload[s].size
      BY <1>1, <2>1 DEF SinkOk
    <2> HIDE DEF b
    <2>3. b # <<>>
      BY <1>1 DEF b
    <2> QED  BY <1>2, <2>2, <2>3, TailIs
  <1>6. FrameOk(s)'
    <2> SUFFICES ASSUME Reads(rpc'[s], next'[s]) PROVE Framed(rpc'[s], next'[s], Tail(b))
      BY <1>1 DEF FrameOk
    <2>1. CASE rpc'[s] = "chunk"
      BY <1>4, <2>1 DEF Framed
    <2>2. CASE rpc'[s] = "probe"
      <3>1. staging[s] + 1 = upload[s].size
        BY <1>1, <2>2
      <3>2. Len(Tail(b)) = 0
        <4>1. Len(b) \in Nat /\ Len(b) >= 1 /\ staging[s] + Len(b) <= upload[s].size
              /\ staging[s] \in Int /\ upload[s].size \in Nat
          BY <1>2, <1>5
        <4>2. Len(b) = 1
          <5>1. \A x, y, z \in Int : x + 1 = y /\ x + z <= y /\ z >= 1 => z = 1
            OBVIOUS
          <5>2. Len(b) \in Int /\ upload[s].size \in Int
            BY <4>1
          <5> HIDE DEF b
          <5> QED  BY <3>1, <4>1, <5>1, <5>2
        <4> QED  BY <1>5, <4>2
      <3>3. Tail(b) = <<>>
        BY <1>5, <3>2, EmptySeq
      <3> QED  BY <3>3, FramedEmpty
    <2>3. rpc'[s] \in {"chunk", "probe"}
      BY <1>1 DEF Reads
    <2> QED  BY <2>1, <2>2, <2>3
  <1>7. SinkOk(s)'
    <2>1. CASE staging'[s] = None /\ rpc'[s] = "done"
      BY <2>1 DEF SinkOk
    <2>2. CASE rpc'[s] \in {"chunk", "probe"}
      <3>1. staging'[s] = staging[s] + 1 /\ upload'[s] = upload[s]
            /\ (rpc'[s] = "probe" => staging[s] + 1 = upload[s].size)
        BY <1>1, <2>2 DEF PeerKept
      <3>2. staging'[s] >= 0 /\ staging'[s] + Len(inbox'[s]) <= upload[s].size
        BY <1>1, <1>2, <1>5, <3>1
      <3>3. staging'[s] \in 0 .. upload[s].size
        BY <1>1, <1>2, <1>5, <3>1, <3>2
      <3> QED  BY <2>2, <3>1, <3>2, <3>3 DEF SinkOk
    <2> QED  BY <1>1, <2>1, <2>2
  <1>8. ASSUME Listens(s)' PROVE BooksOk(s)' /\ TypesOk(s)' /\ ReadyOk(s)' /\ OwesOk(s)'
    <2>1. Listens(s) /\ BooksOk(s) /\ TypesOk(s)
      BY <1>1, <1>8 DEF Listens, WireKept, PeerKept, SessionOk
    <2>2. ~ReadyUnder(writing[s], chan[s]) /\ owes[s] = 0
      BY <1>1, <2>1, NotReady, NothingOwed DEF InUpload
    <2>3. ReadyOk(s)' /\ OwesOk(s)'
      BY <1>1, <2>2, QuietMove
    <2>4. TypesOk(s)'
      BY <1>1, <2>1, TypesMove
    <2>5. a \in Seq(Kinds) /\ Numbered(h - 0, b, a) /\ h <= Len(a) /\ a[h] = cmd[s]
          /\ Whole("chunk", b)
      BY <1>1, <2>1 DEF BooksOk, At, Reads
    <2>6. Numbered(h - 0, Tail(b), a)
      <3>1. h - 0 = h /\ "chunk" \notin Kinds
        BY <1>2 DEF Kinds
      <3> HIDE DEF a, b, h
      <3> QED  BY <1>1, <1>2, <1>4, <2>5, <3>1, NumberedTail DEF b
    <2>7. rpc'[s] \in {"chunk", "probe"} => Whole(rpc'[s], Tail(b))
      BY <1>1, <1>2, <2>5, WholeTail
    <2>8. BooksOk(s)'
      <3>1. /\ rpc'[s] \notin {"done", "over"} => rpc'[s] \in {"chunk", "probe"} /\ At(rpc'[s])
            /\ Reads(rpc'[s], next'[s]) => rpc'[s] \in {"chunk", "probe"}
        BY <1>1 DEF At, Reads
      <3> HIDE DEF a, b, h
      <3> QED  BY <1>1, <2>1, <2>5, <2>6, <2>7, <3>1, BooksMove DEF a, b, h
    <2> QED  BY <2>3, <2>4, <2>8
  <1> QED  BY <1>6, <1>7, <1>8 DEF SessionOk

\* publish: nothing is read meanwhile.
LEMMA PublishSession ==
    ASSUME ServerInv, MapsOk, NEW s \in Sessions, SessionOk(s),
           PublishProbe(s) \/ PublishMove(s) \/ PublishFails(s)
    PROVE  SessionOk(s)'
  <1>1. /\ WireKept(s) /\ PeerKept(s) /\ rpc[s] \in {"probe", "move"}
        /\ inbox'[s] = inbox[s] /\ cmd'[s] = cmd[s]
        /\ \/ rpc'[s] \in {"probe", "move"} /\ staging'[s] = staging[s] /\ item'[s] = item[s]
           \/ /\ rpc'[s] = "send" /\ next'[s] = "finish" /\ staging'[s] \in {None, staging[s]}
              /\ \/ item'[s] = Answer(s, "final", tried[s])
                 \/ item'[s] = Error(s, FALSE)
    <2>1. CASE PublishProbe(s)
      BY <2>1, DoesProbe DEF SinkKept
    <2>2. CASE PublishMove(s)
      BY <2>2, DoesMove DEF SinkKept
    <2>3. CASE PublishFails(s)
      BY <2>3, DoesPublishFail
    <2> QED  BY <2>1, <2>2, <2>3
  <1>2. inbox[s] = <<>>
    <2>1. Framed(rpc[s], next[s], inbox[s]) /\ Expected(rpc[s], next[s]) = {}
      BY <1>1 DEF SessionOk, FrameOk, Reads, Expected
    <2>2. inbox[s] \in Seq(Parts) /\ rpc[s] # "chunk"
      BY <1>1, Maps
    <2> QED  BY <2>1, <2>2, FramedNothing
  <1>3. FrameOk(s)'
    BY <1>1, <1>2, FramedEmpty DEF FrameOk
  <1>4. SinkOk(s)'
    BY <1>1 DEF SessionOk, SinkOk, PeerKept
  <1>5. ASSUME Listens(s)' PROVE BooksOk(s)' /\ TypesOk(s)' /\ ReadyOk(s)' /\ OwesOk(s)'
    <2>1. Listens(s) /\ BooksOk(s) /\ TypesOk(s) /\ ReadyOk(s)
      BY <1>1, <1>5 DEF Listens, WireKept, PeerKept, SessionOk
    <2>2. owes[s] = 0
      BY <1>1, <2>1, NothingOwed
    <2>3. TypesOk(s)'
      <3>1. Answer(s, "final", tried[s]).what = "final"
        BY DEF Answer
      <3>2. item'[s].what # "error" \/ item'[s] = item[s] \/ \E e \in BOOLEAN : item'[s] = Error(s, e)
        BY <1>1, <3>1
      <3> QED  BY <1>1, <2>1, <3>2, TypesMove
    <2>4. At(rpc[s]) /\ At(rpc'[s])
          /\ rpc'[s] \notin {"body", "drain", "meta", "done", "over"} /\ Len(<<>>) = 0
      BY <1>1 DEF At
    <2>5. Whole(rpc'[s], inbox'[s])
      BY <1>1, <1>2, <2>4 DEF Whole
    <2>6. Numbered(Here(writing[s], chan[s]) - 0, inbox[s], asked[s])
          /\ Here(writing[s], chan[s]) <= Len(asked[s])
          /\ asked[s][Here(writing[s], chan[s])] = cmd[s]
      BY <1>1, <2>1, <2>4 DEF BooksOk
    <2>7. BooksOk(s)'
      BY <1>1, <2>1, <2>4, <2>5, <2>6, BooksMove
    <2>8. InUpload(s) => InUpload(s)'
      BY <1>1, <2>2 DEF InUpload, PeerKept
    <2>9. ReadyOk(s)'
      BY <2>1, <2>4, <2>8, <1>1 DEF ReadyOk, WireKept
    <2>10. OwesOk(s)'
      BY <1>1, <2>2 DEF OwesOk, PeerKept
    <2> QED  BY <2>3, <2>7, <2>9, <2>10
  <1> QED  BY <1>3, <1>4, <1>5 DEF SessionOk

-----------------------------------------------------------------------------
(* The writer, and the client.                                             *)

\* A reply moves on, and stays the reply to the same request.
LEMMA ReceiveSession ==
    ASSUME ServerInv, MapsOk, NEW s \in Sessions, ItemOk(s), SessionOk(s), WriteReceive(s)
    PROVE  SessionOk(s)'
  <1> DEFINE q == chan[s]
  <1>1. /\ LoopKept(s) /\ PeerKept(s) /\ SinkKept(s)
        /\ writing[s] = NoItem /\ inbox'[s] = inbox[s]
        /\ typed'[s] = typed[s] /\ stopped'[s] = stopped[s]
        /\ \/ stopped[s] /\ writing'[s] = NoItem /\ chan'[s] = chan[s]
           \/ /\ ~stopped[s] /\ chan[s] # <<>>
              /\ chan'[s] = Tail(chan[s]) /\ writing'[s] = Head(chan[s])
    BY DoesReceive
  <1>2. FrameOk(s)'
    <2>1. FrameOk(s)
      BY DEF SessionOk
    <2> QED  BY <1>1, <2>1 DEF FrameOk, LoopKept
  <1>3. SinkOk(s)'
    <2>1. SinkOk(s)
      BY DEF SessionOk
    <2> QED  BY <1>1, <2>1 DEF SinkOk, LoopKept, PeerKept, SinkKept
  <1>4. ASSUME Listens(s)' PROVE BooksOk(s)' /\ TypesOk(s)' /\ ReadyOk(s)' /\ OwesOk(s)'
    <2>1. Listens(s) /\ BooksOk(s) /\ TypesOk(s) /\ ReadyOk(s) /\ OwesOk(s) /\ q # <<>>
          /\ chan'[s] = Tail(q) /\ writing'[s] = Head(q)
      BY <1>1, <1>4 DEF Listens, PeerKept, SessionOk
    <2> DEFINE k == IF At(rpc[s]) THEN 0 ELSE 1
    <2>2. q \in Seq(Items) /\ k \in Nat /\ \A i \in DOMAIN q : q[i].what # "none"
      BY Maps DEF ItemOk
    <2>3. ReadyLast(NoItem, q, k)
      BY <1>1, <2>1 DEF ReadyOk
    <2>4. /\ Here(Head(q), Tail(q)) = Here(NoItem, q)
          /\ ReadyLast(Head(q), Tail(q), k)
          /\ ReadyUnder(Head(q), Tail(q)) <=> ReadyUnder(NoItem, q)
      <3> HIDE DEF q, k
      <3> QED  BY <2>1, <2>2, <2>3, PlaceReceive
    <2>5. Matched(Head(q), Tail(q), asked[s])
      <3>1. Matched(NoItem, q, asked[s]) /\ asked[s] \in Seq(Kinds)
        BY <1>1, <2>1 DEF BooksOk
      <3> HIDE DEF q, k
      <3> QED  BY <2>1, <2>2, <2>3, <3>1, MatchedReceive
    <2>6. TypedRight(heard[s], Head(q), Tail(q), typed[s])
      <3>1. TypedRight(heard[s], NoItem, q, typed[s])
        BY <1>1, <2>1 DEF TypesOk
      <3> HIDE DEF q
      <3> QED  BY <2>1, <2>2, <3>1, TypedReceive
    <2>7. /\ rpc'[s] = rpc[s] /\ next'[s] = next[s] /\ item'[s] = item[s] /\ cmd'[s] = cmd[s]
          /\ asked'[s] = asked[s] /\ owes'[s] = owes[s] /\ upload'[s] = upload[s]
          /\ heard'[s] = heard[s] /\ staging'[s] = staging[s] /\ inbox'[s] = inbox[s]
          /\ typed'[s] = typed[s] /\ writing[s] = NoItem
      BY <1>1 DEF LoopKept, PeerKept, SinkKept
    <2> HIDE DEF q, k
    <2>8. BooksOk(s)'
      BY <2>1, <2>4, <2>5, <2>7 DEF BooksOk, q
    <2>9. TypesOk(s)'
      BY <2>1, <2>6, <2>7 DEF TypesOk
    <2>10. InUpload(s) => InUpload(s)'
      BY <2>7 DEF InUpload
    <2>11. ReadyOk(s)'
      BY <2>1, <2>4, <2>7, <2>10 DEF ReadyOk, k, q
    <2>12. OwesOk(s)'
      BY <2>1, <2>4, <2>7 DEF OwesOk, q
    <2> QED  BY <2>8, <2>9, <2>11, <2>12
  <1> QED  BY <1>2, <1>3, <1>4 DEF SessionOk

\* The reply is read, and its request is the oldest that waited.
LEMMA WriteSession ==
    ASSUME ServerInv, MapsOk, NEW s \in Sessions, ItemOk(s), SessionOk(s), WriteDone(s)
    PROVE  SessionOk(s)'
  <1> DEFINE q == chan[s]  w == writing[s]  a == asked[s]  b == inbox[s]  h == Here(w, q)
             c == IF w.what = "ready" THEN a ELSE Tail(a)
  <1>1. /\ LoopKept(s) /\ SinkKept(s)
        /\ client'[s] = client[s] /\ upload'[s] = upload[s] /\ typed'[s] = typed[s]
        /\ ~stopped[s] /\ writing'[s] = NoItem /\ wpc[s] = "write"
        /\ client[s] # "gone" => owes'[s] = IF w.what = "ready" THEN upload[s].size ELSE owes[s]
        /\ GoodItem(w) /\ client[s] # "gone" =>
             ("negotiate" \in heard'[s] <=> "negotiate" \in heard[s] \/ w.cmd = "negotiate")
        /\ \/ stopped'[s] /\ Cut(s)
           \/ /\ stopped'[s] = stopped[s] /\ chan'[s] = chan[s]
              /\ inbox'[s] = inbox[s] /\ asked'[s] = c
    BY DoesWrite
  <1>2. CASE stopped'[s] /\ Cut(s)
    BY <1>1, <1>2, CutSession
  <1>3. CASE /\ stopped'[s] = stopped[s] /\ chan'[s] = chan[s]
             /\ inbox'[s] = inbox[s] /\ asked'[s] = c
    <2>1. FrameOk(s)'
      <3>1. FrameOk(s)
        BY DEF SessionOk
      <3> QED  BY <1>1, <1>3, <3>1 DEF FrameOk, LoopKept
    <2>2. SinkOk(s)'
      <3>1. SinkOk(s)
        BY DEF SessionOk
      <3> QED  BY <1>1, <1>3, <3>1 DEF SinkOk, LoopKept, SinkKept
    <2>3. ASSUME Listens(s)' PROVE BooksOk(s)' /\ TypesOk(s)' /\ ReadyOk(s)' /\ OwesOk(s)'
      <3> DEFINE k == IF At(rpc[s]) THEN 0 ELSE 1
      <3>1. Listens(s) /\ BooksOk(s) /\ TypesOk(s) /\ ReadyOk(s) /\ OwesOk(s)
            /\ client[s] # "gone"
        BY <1>1, <1>3, <2>3 DEF Listens, SessionOk
      <3>2. /\ q \in Seq(Items) /\ w \in Items /\ b \in Seq(Parts) /\ k \in Nat
            /\ w.what # "none" /\ GoodItem(w) /\ h \in Nat /\ h >= 1
            /\ owes[s] \in Nat /\ upload[s].size \in Nat
        BY <1>1, Maps, Places DEF ItemOk
      <3>3. /\ a \in Seq(Kinds) /\ UploadLast(a) /\ Matched(w, q, a)
            /\ At(rpc[s]) => h <= Len(a) /\ a[h] = cmd[s]
            /\ rpc[s] \notin {"done", "over"} => Numbered(h - k, b, a)
            /\ Reads(rpc[s], next[s]) => Whole(rpc[s], b)
            /\ ReadyLast(w, q, k) /\ (ReadyUnder(w, q) => InUpload(s))
            /\ TypedRight(heard[s], w, q, typed[s])
        BY <3>1 DEF BooksOk, ReadyOk, TypesOk
      <3>4. /\ rpc'[s] = rpc[s] /\ next'[s] = next[s] /\ item'[s] = item[s] /\ cmd'[s] = cmd[s]
            /\ asked'[s] = c /\ upload'[s] = upload[s] /\ chan'[s] = q
            /\ staging'[s] = staging[s] /\ inbox'[s] = b
            /\ typed'[s] = typed[s] /\ writing'[s] = NoItem
            /\ owes'[s] = IF w.what = "ready" THEN upload[s].size ELSE owes[s]
            /\ "negotiate" \in heard'[s] <=> "negotiate" \in heard[s] \/ w.cmd = "negotiate"
        BY <1>1, <1>3, <3>1, <3>2 DEF LoopKept, SinkKept
      <3> HIDE DEF q, w, a, b, h, c, k
      <3>k. k \in {0, 1} /\ (At(rpc[s]) <=> k = 0)
        BY DEF k
      <3>l. Len(a) \in Nat /\ Len(q) \in Nat /\ DOMAIN q = 1 .. Len(q)
        BY <3>2, <3>3, LenProperties
      <3>5. /\ Here(NoItem, q) = h - Written(w)
            /\ Written(w) = IF w.what = "ready" THEN 0 ELSE 1
        BY <3>2, PlaceWritten DEF h
      <3>6. Matched(NoItem, q, c)
        BY <3>2, <3>3, MatchedWritten DEF c
      <3>7. IsReply(w) <=> w.what # "ready"
        BY <3>2 DEF IsReply
      <3>8. w.what # "ready" => Len(a) >= 1
        BY <3>3, <3>7 DEF Matched
      <3>9. c \in Seq(Kinds) /\ UploadLast(c)
        <4>1. CASE w.what = "ready"
          BY <3>3, <4>1 DEF c
        <4>2. CASE w.what # "ready"
          BY <3>3, <3>8, <4>2, AskedLess DEF c
        <4> QED  BY <4>1, <4>2
      <3>h. Here(NoItem, q) \in Nat /\ Here(NoItem, q) >= 1
        <4>1. NoItem \in Items
          BY DEF NoItem, Items
        <4> QED  BY <3>2, <4>1, Places
      <3>10. At(rpc[s]) => Here(NoItem, q) <= Len(c) /\ c[Here(NoItem, q)] = cmd[s]
        <4> SUFFICES ASSUME At(rpc[s])
                     PROVE  Here(NoItem, q) <= Len(c) /\ c[Here(NoItem, q)] = cmd[s]
          OBVIOUS
        <4>0. h <= Len(a) /\ a[h] = cmd[s]
          BY <3>3
        <4>1. CASE w.what = "ready"
          <5>1. Here(NoItem, q) = h /\ c = a
            BY <3>2, <3>5, <4>1 DEF c
          <5> QED  BY <4>0, <5>1
        <4>2. CASE w.what # "ready"
          <5>1. Here(NoItem, q) = h - 1 /\ c = Tail(a)
            BY <3>5, <4>2 DEF c
          <5>2. Len(Tail(a)) = Len(a) - 1 /\ \A i \in 1 .. Len(a) - 1 : Tail(a)[i] = a[i + 1]
            BY <3>3, <3>8, <4>2, AskedLess
          <5>3. h - 1 \in 1 .. Len(a) - 1 /\ (h - 1) + 1 = h
            BY <3>2, <3>h, <3>l, <4>0, <5>1
          <5>4. Tail(a)[h - 1] = a[h]
            BY <5>2, <5>3
          <5>5. h - 1 <= Len(Tail(a))
            BY <5>2, <5>3
          <5> QED  BY <4>0, <5>1, <5>4, <5>5
        <4> QED  BY <4>1, <4>2
      <3>11. rpc[s] \notin {"done", "over"} => Numbered(Here(NoItem, q) - k, b, c)
        <4> SUFFICES ASSUME rpc[s] \notin {"done", "over"}
                     PROVE  Numbered(Here(NoItem, q) - k, b, c)
          OBVIOUS
        <4>0. Numbered(h - k, b, a) /\ h - k \in Nat
          BY <3>2, <3>3, <3>k
        <4>1. CASE w.what = "ready"
          <5>1. Here(NoItem, q) = h /\ c = a
            BY <3>2, <3>5, <4>1 DEF c
          <5> QED  BY <4>0, <5>1
        <4>2. CASE w.what # "ready"
          <5>1. Here(NoItem, q) = h - 1 /\ c = Tail(a)
            BY <3>5, <4>2 DEF c
          <5>2. h - k >= 1 /\ (h - k) - 1 = Here(NoItem, q) - k
            BY <3>2, <3>h, <3>k, <5>1
          <5>3. a # <<>>
            BY <3>3, <3>8, <4>2, AskedLess
          <5> DEFINE n == h - k
          <5> HIDE DEF n
          <5>4. Numbered(n - 1, b, Tail(a))
            <6>1. n \in Nat /\ n >= 1 /\ Numbered(n, b, a)
              BY <4>0, <5>2 DEF n
            <6> QED  BY <3>2, <3>3, <5>3, <6>1, NumberedWritten
          <5> QED  BY <5>1, <5>2, <5>4 DEF n
        <4> QED  BY <4>1, <4>2
      <3>12. BooksOk(s)'
        BY <3>3, <3>4, <3>6, <3>9, <3>10, <3>11 DEF BooksOk, k
      <3>13. TypesOk(s)'
        <4>1. TypedRight(heard'[s], NoItem, q, typed[s])
          BY <3>2, <3>3, <3>4, TypedWritten
        <4>2. item[s].what = "error" => item[s].typed = typed[s]
          BY <3>1 DEF TypesOk
        <4> QED  BY <3>4, <4>1, <4>2 DEF TypesOk
      <3>14. ReadyUnder(NoItem, q) <=> \E i \in DOMAIN q : q[i].what = "ready"
        BY DEF ReadyUnder, NoItem
      <3>15. w.what = "ready" => ~ReadyUnder(NoItem, q)
        <4> SUFFICES ASSUME w.what = "ready", NEW i \in DOMAIN q, q[i].what = "ready"
                     PROVE  FALSE
          BY <3>14
        <4>1. Len(q) = k /\ Len(q) = i + k /\ i \in Nat /\ i >= 1
          BY <3>3, <3>l DEF ReadyLast
        <4> QED  BY <3>k, <4>1
      <3>16. ReadyUnder(NoItem, q) => ReadyUnder(w, q)
        BY <3>14 DEF ReadyUnder
      <3>17. ReadyLast(NoItem, q, k)
        <4>1. NoItem.what # "ready"
          BY DEF NoItem
        <4> QED  BY <3>3, <4>1 DEF ReadyLast
      <3>18. ASSUME ReadyUnder(NoItem, q) PROVE InUpload(s)'
        <4>1. InUpload(s) /\ w.what # "ready"
          BY <3>3, <3>15, <3>16, <3>18
        <4>2. PICK i \in DOMAIN q : q[i].what = "ready"
          BY <3>14, <3>18
        <4>3. Len(q) = i + k /\ i \in 1 .. Len(q)
          BY <3>3, <3>l, <4>2 DEF ReadyLast
        <4>4. h = Len(q) + 1
          <5>1. ReadyBefore(q, Len(q) + 1)
            <6>1. i < Len(q) + 1
              BY <3>l, <4>3
            <6> QED  BY <4>2, <6>1 DEF ReadyBefore
          <5>2. Written(w) = 1
            BY <3>5, <4>1
          <5>3. h = 1 + (Len(q) + 1) - 1
            BY <5>1, <5>2 DEF h, Here, Place
          <5> QED  BY <3>l, <5>3
        <4>5. Len(a) >= 2
          <5>1. CASE k = 0
            BY <3>3, <3>k, <3>l, <4>3, <4>4, <5>1
          <5>2. CASE k = 1
            <6>1. h - 1 <= Len(a)
              BY <3>3 DEF Matched, h
            <6> QED  BY <3>l, <4>3, <4>4, <5>2, <6>1
          <5> QED  BY <3>k, <5>1, <5>2
        <4>6. AsksUpload(a)
          BY <4>1 DEF InUpload, a
        <4>7. AsksUpload(c)
          <5>1. Len(a) >= 1
            BY <3>l, <4>5
          <5> QED  BY <3>3, <4>1, <4>5, <4>6, <5>1, AskedLess DEF c
        <4>8. owes'[s] = owes[s]
          BY <3>4, <4>1
        <4> QED  BY <3>4, <4>1, <4>7, <4>8 DEF InUpload, b
      <3>19. ReadyOk(s)'
        BY <3>4, <3>17, <3>18 DEF ReadyOk, k
      <3>20. OwesOk(s)'
        <4>1. CASE w.what = "ready"
          <5>1. InUpload(s) /\ ~ReadyUnder(NoItem, q) /\ owes'[s] = upload[s].size
            <6>1. ReadyUnder(w, q)
              BY <4>1 DEF ReadyUnder
            <6> QED  BY <3>3, <3>4, <3>15, <4>1, <6>1
          <5>2. owes'[s] > 0 => /\ rpc[s] = "chunk" /\ inbox[s] = <<>> /\ staging[s] = 0
                                /\ owes'[s] = upload[s].size
            BY <5>1 DEF InUpload
          <5> QED  BY <3>4, <5>1, <5>2 DEF OwesOk, b
        <4>2. CASE w.what # "ready"
          <5>1. owes'[s] = owes[s]
            BY <3>4, <4>2
          <5>2. OwesOk(s)
            BY <3>1
          <5>3. owes[s] > 0 => /\ rpc[s] = "chunk" /\ inbox[s] = <<>> /\ staging[s] = 0
                               /\ owes[s] = upload[s].size /\ ~ReadyUnder(w, q)
            BY <5>2 DEF OwesOk, w, q
          <5> QED  BY <3>4, <3>16, <5>1, <5>3 DEF OwesOk, b
        <4> QED  BY <4>1, <4>2
      <3> QED  BY <3>12, <3>13, <3>19, <3>20
    <2> QED  BY <2>1, <2>2, <2>3 DEF SessionOk
  <1> QED  BY <1>1, <1>2, <1>3

\* The frame of a request.
LEMMA FrameParts ==
    ASSUME NEW k \in Kinds
    PROVE  /\ SubSeq(Frame(k), 1, Len(Frame(k))) = Frame(k)
           /\ Frame(k) \in Seq(Parts) /\ Len(Frame(k)) >= 1 /\ Frame(k)[1] = k
           /\ \A p \in 2 .. Len(Frame(k)) : Frame(k)[p] \notin Kinds
  <1>1. <<>> \in Seq(Parts) /\ Len(<<>>) = 0
    BY EmptySeq
  <1>2. Framed("header", "none", <<>>) /\ Whole("header", <<>>) /\ Expected("header", "none") = Kinds
    BY <1>1, FramedEmpty DEF Whole, Expected
  <1>3. 1 \in {1, Len(Frame(k))} /\ "header" # "chunk"
    OBVIOUS
  <1> DEFINE b == <<>>
  <1>4. /\ b \in Seq(Parts) /\ Framed("header", "none", b) /\ Whole("header", b)
        /\ Expected("header", "none") = Kinds /\ ~(Len(b) > 0)
    BY <1>1, <1>2
  <1> HIDE DEF b
  <1> QED  BY <1>3, <1>4, FramedAsked

\* A client that may ask: no upload of its goes on.
LEMMA MayAsk ==
    ASSUME ServerInv, MapsOk, NEW s \in Sessions, StagingOk(s), SessionOk(s), Listens(s),
           ~AsksUpload(asked[s]) \/ asked[s] \notin Seq(Kinds)
    PROVE  /\ asked[s] \in Seq(Kinds) /\ ~AsksUpload(asked[s])
           /\ rpc[s] \notin {"meta", "chunk", "probe", "move"}
           /\ ~(rpc[s] = "send" /\ next[s] \in {"chunk", "probe"})
           /\ staging[s] = None \/ rpc[s] = "finish"
           /\ ~ReadyUnder(writing[s], chan[s]) /\ owes[s] = 0
           /\ Reads(rpc[s], next[s]) =>
                /\ Framed(rpc[s], next[s], inbox[s]) /\ Whole(rpc[s], inbox[s])
                /\ Len(inbox[s]) = 0 => Expected(rpc[s], next[s]) = Kinds
                /\ Len(inbox[s]) > 0 => inbox[s][Len(inbox[s])] \in {"negotiate", "body"}
  <1> DEFINE a == asked[s]  b == inbox[s]  h == Here(writing[s], chan[s])
  <1>1. BooksOk(s) /\ ReadyOk(s) /\ a \in Seq(Kinds) /\ ~AsksUpload(a) /\ UploadLast(a)
    BY DEF SessionOk, BooksOk
  <1>2. ~(At(rpc[s]) /\ cmd[s] = "upload")
    BY <1>1, UploadUnder
  <1>3. /\ rpc[s] \notin {"meta", "chunk", "probe", "move"}
        /\ ~(rpc[s] = "send" /\ next[s] \in {"chunk", "probe"})
    BY <1>2 DEF ServerInv, GateOk, At
  <1>4. staging[s] = None \/ rpc[s] = "finish"
    BY <1>2 DEF StagingOk, InCommand, At
  <1>5. ~ReadyUnder(writing[s], chan[s])
    BY <1>1 DEF ReadyOk, InUpload
  <1>6. owes[s] = 0
    BY <1>3, NothingOwed
  <1>7. ASSUME Reads(rpc[s], next[s])
        PROVE  /\ Framed(rpc[s], next[s], b) /\ Whole(rpc[s], b)
               /\ Len(b) = 0 => Expected(rpc[s], next[s]) = Kinds
               /\ Len(b) > 0 => b[Len(b)] \in {"negotiate", "body"}
    <2>1. Framed(rpc[s], next[s], b) /\ Whole(rpc[s], b)
      BY <1>1, <1>7 DEF SessionOk, FrameOk, BooksOk
    <2>2. Len(b) = 0 => Expected(rpc[s], next[s]) = Kinds
      BY <1>3, <2>1 DEF Whole, Expected
    <2>3. ASSUME Len(b) > 0 PROVE b[Len(b)] \in {"negotiate", "body"}
      <3> DEFINE l == Len(b)
      <3>0. b \in Seq(Parts) /\ l \in Nat /\ l >= 1
        <4>1. b \in Seq(Parts)
          BY Maps
        <4>2. Len(b) \in Nat
          BY <4>1, LenProperties
        <4> QED  BY <2>3, <4>1, <4>2
      <3>1. b[l] \in {"negotiate", "body", "meta", "chunk"}
        BY <2>1, <2>3 DEF Whole
      <3>2. Chain(b) /\ b[1] \in Expected(rpc[s], next[s])
        BY <1>3, <2>1, <2>3 DEF Framed
      <3> HIDE DEF b, l
      <3>3. CASE l = 1
        <4>1. "meta" \notin Expected(rpc[s], next[s]) /\ "chunk" \notin Expected(rpc[s], next[s])
          BY <1>3 DEF Expected, Kinds
        <4> QED  BY <3>1, <3>2, <3>3, <4>1 DEF l
      <3>4. CASE l >= 2
        <4>1. Follows(b[l - 1], b[l])
          <5>1. l \in 2 .. Len(b)
            BY <3>0, <3>4 DEF l
          <5> QED  BY <3>2, <5>1 DEF Chain
        <4>2. b[l] # "chunk"
          BY <4>1 DEF Follows, Kinds
        <4>3. ASSUME b[l] = "meta" PROVE FALSE
          <5>1. b[l - 1] = "upload"
            BY <4>1, <4>3 DEF Follows, Kinds
          <5>2. rpc[s] \notin {"done", "over"}
            BY <1>7 DEF Reads
          <5>3. Numbered(h - (IF At(rpc[s]) THEN 0 ELSE 1), b, a)
            BY <1>1, <5>2 DEF BooksOk, b
          <5>4. h - (IF At(rpc[s]) THEN 0 ELSE 1) \in Nat
            BY Maps, Places
          <5>5. l - 1 \in 1 .. Len(b)
            BY <3>0, <3>4 DEF l
          <5> DEFINE n == h - (IF At(rpc[s]) THEN 0 ELSE 1)
          <5> HIDE DEF n, a, h
          <5>6. n \in Nat /\ Numbered(n, b, a)
            BY <5>3, <5>4 DEF n
          <5>7. UploadLast(a) /\ ~AsksUpload(a) /\ a \in Seq(Kinds) /\ b \in Seq(Parts)
            BY <1>1, <3>0 DEF a
          <5> DEFINE p == l - 1
          <5>8. p \in 1 .. Len(b) /\ b[p] = "upload"
            BY <5>1, <5>5
          <5> HIDE DEF p
          <5>9. AsksUpload(a)
            BY <5>6, <5>7, <5>8, NumberedUpload
          <5> QED  BY <5>7, <5>9
        <4> QED  BY <3>1, <4>2, <4>3 DEF l
      <3>5. l = 1 \/ l >= 2
        BY <3>0
      <3> QED  BY <3>3, <3>4, <3>5
    <2> QED  BY <2>1, <2>2, <2>3
  <1> QED  BY <1>1, <1>3, <1>4, <1>5, <1>6, <1>7

\* What a request does to the sink's part.
LEMMA AskSink ==
    ASSUME ServerInv, MapsOk, NEW s \in Sessions, StagingOk(s), SessionOk(s), Listens(s),
           ~AsksUpload(asked[s]) \/ asked[s] \notin Seq(Kinds),
           LoopKept(s), SinkKept(s)
    PROVE  SinkOk(s)'
  <1>1. /\ rpc[s] \notin {"meta", "chunk", "probe", "move"}
        /\ ~(rpc[s] = "send" /\ next[s] \in {"chunk", "probe"})
        /\ staging[s] = None \/ rpc[s] = "finish"
    BY MayAsk
  <1> QED  BY <1>1 DEF SinkOk, LoopKept, SinkKept

\* A request joins the stream and those that wait.
LEMMA AskSession ==
    ASSUME ServerInv, MapsOk, NEW s \in Sessions, StagingOk(s), SessionOk(s),
           NEW k \in Kinds, ClientAsks(s, k)
    PROVE  SessionOk(s)'
  <1> DEFINE a == asked[s]  b == inbox[s]  h == Here(writing[s], chan[s])  c == Frame(k)
             w == writing[s]  q == chan[s]
  <1>1. /\ LoopKept(s) /\ WireKept(s) /\ SinkKept(s)
        /\ client'[s] = client[s] /\ owes'[s] = owes[s] /\ heard'[s] = heard[s]
        /\ client[s] \in {"up", "stalled"} /\ ~stopped[s]
        /\ ~AsksUpload(a) \/ a \notin Seq(Kinds)
        /\ inbox'[s] = b \o SubSeq(c, 1, Len(c)) /\ asked'[s] = Append(a, k)
    BY DoesAsk
  <1>2. Listens(s)
    BY <1>1 DEF Listens
  <1>3. /\ a \in Seq(Kinds) /\ ~AsksUpload(a)
        /\ rpc[s] \notin {"meta", "chunk", "probe", "move"}
        /\ ~ReadyUnder(w, q) /\ owes[s] = 0
        /\ Reads(rpc[s], next[s]) =>
                /\ Framed(rpc[s], next[s], b) /\ Whole(rpc[s], b)
                /\ Len(b) = 0 => Expected(rpc[s], next[s]) = Kinds
                /\ Len(b) > 0 => b[Len(b)] \in {"negotiate", "body"}
    BY <1>1, <1>2, MayAsk
  <1>4. /\ SubSeq(c, 1, Len(c)) = c /\ c \in Seq(Parts) /\ Len(c) >= 1 /\ c[1] = k
        /\ \A p \in 2 .. Len(c) : c[p] \notin Kinds
    BY FrameParts
  <1>5. b \in Seq(Parts) /\ q \in Seq(Items) /\ w \in Items /\ h \in Nat /\ h >= 1
    BY Maps, Places
  <1>6. inbox'[s] = b \o c
    BY <1>1, <1>4
  <1>7. SinkOk(s)'
    BY <1>1, <1>2, AskSink
  <1>8. Reads(rpc[s], next[s]) => Framed(rpc[s], next[s], b \o c) /\ Whole(rpc[s], b \o c)
    <2> SUFFICES ASSUME Reads(rpc[s], next[s])
                 PROVE  Framed(rpc[s], next[s], b \o c) /\ Whole(rpc[s], b \o c)
      OBVIOUS
    <2>1. Framed(rpc[s], next[s], b \o SubSeq(c, 1, Len(c))) /\ Whole(rpc[s], b \o c)
      BY <1>3, <1>5, FramedAsked
    <2> QED  BY <1>4, <2>1
  <1>9. FrameOk(s)'
    BY <1>1, <1>6, <1>8 DEF FrameOk, LoopKept
  <1>10. BooksOk(s) /\ TypesOk(s)
    BY <1>2 DEF SessionOk
  <1>11. BooksOk(s)'
    <2> DEFINE n == h - (IF At(rpc[s]) THEN 0 ELSE 1)
               d == Append(a, k)
    <2>1. /\ UploadLast(a) /\ Matched(w, q, a)
          /\ At(rpc[s]) => h <= Len(a) /\ a[h] = cmd[s]
          /\ rpc[s] \notin {"done", "over"} => Numbered(n, b, a)
      BY <1>10 DEF BooksOk
    <2>2. n \in Nat
      BY <1>5
    <2>3. /\ rpc'[s] = rpc[s] /\ next'[s] = next[s] /\ cmd'[s] = cmd[s]
          /\ writing'[s] = w /\ chan'[s] = q /\ asked'[s] = d /\ inbox'[s] = b \o c
      BY <1>1, <1>6 DEF LoopKept, WireKept
    <2> HIDE DEF n, d, a, b, c, h, w, q
    <2>4. d \in Seq(Kinds) /\ UploadLast(d)
      BY <1>3, <2>1, AskedMore DEF d
    <2>5. Matched(w, q, d)
      BY <1>3, <1>5, <2>1, MatchedAsked DEF d
    <2>6. rpc[s] \notin {"done", "over"} => Numbered(n, b \o c, d)
      BY <1>3, <1>4, <1>5, <2>1, <2>2, NumberedAsked DEF d
    <2>7. At(rpc[s]) => h <= Len(d) /\ d[h] = cmd[s]
      <3>1. Len(a) \in Nat /\ Len(d) = Len(a) + 1 /\ \A i \in 1 .. Len(a) : d[i] = a[i]
        BY <1>3, AppendIs DEF d
      <3> QED  BY <1>5, <2>1, <3>1
    <2> QED  BY <1>8, <2>3, <2>4, <2>5, <2>6, <2>7 DEF BooksOk, n, h, w, q
  <1>12. TypesOk(s)'
    BY <1>1, <1>10 DEF TypesOk, LoopKept, WireKept
  <1>13. ReadyOk(s)' /\ OwesOk(s)'
    <2>1. ~ReadyUnder(writing'[s], chan'[s]) /\ owes'[s] = 0
      BY <1>1, <1>3 DEF WireKept
    <2>2. \A m : ReadyLast(writing'[s], chan'[s], m)
      BY <2>1, NothingReady
    <2> QED  BY <2>1, <2>2 DEF ReadyOk, OwesOk
  <1> QED  BY <1>7, <1>9, <1>11, <1>12, <1>13 DEF SessionOk

\* The chunks are what the server expects.
LEMMA StreamSession ==
    ASSUME ServerInv, MapsOk, NEW s \in Sessions, SessionOk(s), ClientStreams(s)
    PROVE  SessionOk(s)'
  <1> DEFINE a == asked[s]  h == Here(writing[s], chan[s])  m == owes[s]
             c == [i \in 1 .. m |-> "chunk"]
  <1>1. /\ LoopKept(s) /\ WireKept(s) /\ SinkKept(s)
        /\ client'[s] = client[s] /\ heard'[s] = heard[s] /\ upload'[s] = upload[s]
        /\ client[s] \in {"up", "stalled"} /\ ~stopped[s] /\ owes[s] > 0 /\ owes'[s] = 0
        /\ inbox'[s] = inbox[s] \o [i \in 1 .. owes[s] |-> "chunk"]
        /\ asked'[s] = asked[s]
    BY DoesStream
  <1>2. BooksOk(s) /\ TypesOk(s) /\ ReadyOk(s) /\ OwesOk(s)
    BY <1>1 DEF SessionOk, Listens
  <1>3. /\ rpc[s] = "chunk" /\ inbox[s] = <<>> /\ staging[s] = 0
        /\ owes[s] = upload[s].size /\ ~ReadyUnder(writing[s], chan[s])
    BY <1>1, <1>2 DEF OwesOk
  <1>4. m \in Nat /\ h \in Nat /\ h >= 1 /\ m > 0
    BY <1>1, Maps, Places
  <1>5. c \in Seq(Parts) /\ Len(c) = m /\ \A p \in 1 .. m : c[p] = "chunk"
    <2>1. "chunk" \in Parts
      BY DEF Parts
    <2> HIDE DEF m
    <2> QED  BY <1>4, <2>1
  <1>6. inbox'[s] = c
    <2>1. inbox'[s] = <<>> \o c
      BY <1>1, <1>3
    <2> HIDE DEF c
    <2> QED  BY <1>5, <2>1, ConcatEmptySeq
  <1>7. FrameOk(s)'
    <2>1. Framed("chunk", next[s], c)
      BY <1>5 DEF Framed
    <2> QED  BY <1>1, <1>3, <1>6, <2>1 DEF FrameOk, LoopKept
  <1>8. SinkOk(s)'
    <2>1. /\ rpc'[s] = "chunk" /\ staging'[s] = 0 /\ upload'[s] = upload[s]
          /\ Len(inbox'[s]) = upload[s].size /\ upload[s].size \in Nat
      BY <1>1, <1>3, <1>4, <1>5, <1>6 DEF LoopKept, SinkKept
    <2> QED  BY <2>1 DEF SinkOk
  <1>9. BooksOk(s)'
    <2>1. /\ a \in Seq(Kinds) /\ Numbered(h - 0, <<>>, a)
      BY <1>2, <1>3 DEF BooksOk, At
    <2>2. Numbered(h - 0, c, a)
      <3>1. h - 0 \in Nat /\ "chunk" \notin Kinds
        BY <1>4 DEF Kinds
      <3>2. \A p \in 1 .. Len(c) : c[p] \notin Kinds
        BY <1>5, <3>1
      <3> HIDE DEF h, c, a
      <3> QED  BY <1>5, <2>1, <3>1, <3>2, NumberedChunks
    <2>3. Whole("chunk", c)
      <3>1. Len(c) \in 1 .. m /\ c[Len(c)] = "chunk" /\ Len(c) # 0
        BY <1>4, <1>5
      <3> HIDE DEF c
      <3> QED  BY <3>1 DEF Whole
    <2>4. At("chunk")
      BY DEF At
    <2>5. /\ rpc'[s] = "chunk" /\ cmd'[s] = cmd[s]
          /\ writing'[s] = writing[s] /\ chan'[s] = chan[s] /\ asked'[s] = a /\ inbox'[s] = c
      BY <1>1, <1>3, <1>6 DEF LoopKept, WireKept
    <2> HIDE DEF c
    <2> QED  BY <1>2, <1>3, <2>2, <2>3, <2>4, <2>5 DEF BooksOk
  <1>10. TypesOk(s)'
    BY <1>1, <1>2 DEF TypesOk, LoopKept, WireKept
  <1>11. ReadyOk(s)' /\ OwesOk(s)'
    <2>1. ~ReadyUnder(writing'[s], chan'[s]) /\ owes'[s] = 0
      BY <1>1, <1>3 DEF WireKept
    <2>2. \A n : ReadyLast(writing'[s], chan'[s], n)
      BY <2>1, NothingReady
    <2> QED  BY <2>1, <2>2 DEF ReadyOk, OwesOk
  <1> QED  BY <1>7, <1>8, <1>9, <1>10, <1>11 DEF SessionOk

\* A client that goes cuts the stream off.
LEMMA CloseSession ==
    ASSUME ServerInv, MapsOk, NEW s \in Sessions, StagingOk(s), SessionOk(s), ClientCloses(s)
    PROVE  SessionOk(s)'
  <1>1. /\ LoopKept(s) /\ WireKept(s) /\ SinkKept(s)
        /\ client[s] \in {"up", "stalled"} /\ ~stopped[s] /\ client'[s] = "gone"
        /\ \/ inbox'[s] = inbox[s] /\ upload'[s] = upload[s]
           \/ \E k \in Kinds :
                 /\ ~AsksUpload(asked[s]) \/ asked[s] \notin Seq(Kinds)
                 /\ inbox'[s] = inbox[s] \o SubSeq(Frame(k), 1, 1)
           \/ /\ owes[s] > 1 /\ inbox'[s] = Append(inbox[s], "chunk")
              /\ upload'[s] = upload[s]
    BY DoesClose
  <1>2. Listens(s) /\ ~Listens(s)' /\ FrameOk(s) /\ SinkOk(s)
    BY <1>1 DEF Listens, SessionOk
  <1>3. CASE inbox'[s] = inbox[s] /\ upload'[s] = upload[s]
    BY <1>1, <1>2, <1>3 DEF SessionOk, FrameOk, SinkOk, LoopKept, SinkKept
  <1>4. CASE \E k \in Kinds :
                 /\ ~AsksUpload(asked[s]) \/ asked[s] \notin Seq(Kinds)
                 /\ inbox'[s] = inbox[s] \o SubSeq(Frame(k), 1, 1)
    <2>1. PICK k \in Kinds :
                 /\ ~AsksUpload(asked[s]) \/ asked[s] \notin Seq(Kinds)
                 /\ inbox'[s] = inbox[s] \o SubSeq(Frame(k), 1, 1)
      BY <1>4
    <2>2. SinkOk(s)'
      BY <1>1, <1>2, <2>1, AskSink
    <2>3. Reads(rpc[s], next[s]) =>
                /\ Framed(rpc[s], next[s], inbox[s]) /\ Whole(rpc[s], inbox[s])
                /\ Len(inbox[s]) = 0 => Expected(rpc[s], next[s]) = Kinds
                /\ Len(inbox[s]) > 0 => inbox[s][Len(inbox[s])] \in {"negotiate", "body"}
      BY <1>2, <2>1, MayAsk
    <2>4. rpc[s] # "chunk" /\ inbox[s] \in Seq(Parts)
      BY <1>2, <2>1, MayAsk, Maps
    <2>5. Reads(rpc[s], next[s]) => Framed(rpc[s], next[s], inbox'[s])
      <3>1. 1 \in {1, Len(Frame(k))}
        OBVIOUS
      <3> QED  BY <2>1, <2>3, <2>4, <3>1, FramedAsked
    <2> QED  BY <1>1, <1>2, <2>2, <2>5 DEF SessionOk, FrameOk, LoopKept
  <1>5. CASE /\ owes[s] > 1 /\ inbox'[s] = Append(inbox[s], "chunk")
             /\ upload'[s] = upload[s]
    <2>1. owes[s] \in Nat /\ owes[s] > 0
      BY <1>5, Maps
    <2>2. /\ rpc[s] = "chunk" /\ inbox[s] = <<>> /\ staging[s] = 0 /\ owes[s] = upload[s].size
      BY <1>2, <2>1 DEF SessionOk, OwesOk
    <2>3. inbox'[s] = <<"chunk">> /\ Len(<<"chunk">>) = 1 /\ <<"chunk">>[1] = "chunk"
      BY <1>5, <2>2
    <2>4. FrameOk(s)'
      BY <1>1, <2>2, <2>3 DEF FrameOk, LoopKept, Framed
    <2>5. SinkOk(s)'
      BY <1>1, <1>2, <1>5, <2>1, <2>2, <2>3 DEF SinkOk, LoopKept, SinkKept
    <2> QED  BY <1>2, <2>4, <2>5 DEF SessionOk
  <1> QED  BY <1>1, <1>3, <1>4, <1>5

LEMMA StallSession ==
    ASSUME ServerInv, MapsOk, NEW s \in Sessions, SessionOk(s), ClientStalls(s)
    PROVE  SessionOk(s)'
  <1>1. /\ LoopKept(s) /\ WireKept(s) /\ SinkKept(s)
        /\ owes'[s] = owes[s] /\ heard'[s] = heard[s] /\ upload'[s] = upload[s]
        /\ inbox'[s] = inbox[s] /\ asked'[s] = asked[s]
        /\ client[s] = "up" /\ client'[s] = "stalled"
    BY DoesStall
  <1> USE <1>1 DEF LoopKept, WireKept, SinkKept
  <1>2. FrameOk(s)'
    <2>1. FrameOk(s)
      BY DEF SessionOk
    <2> QED  BY <2>1 DEF FrameOk
  <1>3. SinkOk(s)'
    BY DEF SessionOk, SinkOk
  <1>4. ASSUME Listens(s)' PROVE BooksOk(s)' /\ TypesOk(s)' /\ ReadyOk(s)' /\ OwesOk(s)'
    <2>1. BooksOk(s) /\ TypesOk(s) /\ ReadyOk(s) /\ OwesOk(s)
      BY <1>4 DEF SessionOk, Listens
    <2>2. BooksOk(s)'
      BY <2>1 DEF BooksOk
    <2>3. TypesOk(s)'
      BY <2>1 DEF TypesOk
    <2>4. ReadyOk(s)'
      BY <2>1 DEF ReadyOk, InUpload
    <2>5. OwesOk(s)'
      BY <2>1 DEF OwesOk
    <2> QED  BY <2>2, <2>3, <2>4, <2>5
  <1> QED  BY <1>2, <1>3, <1>4 DEF SessionOk

-----------------------------------------------------------------------------
(* What is sent, and the staging file, step by step.                       *)

\* The same for the parts.
LEMMA KeptParts ==
    ASSUME NEW t \in Sessions, PartsOk(t), Kept(t)
    PROVE  PartsOk(t)'
  <1> USE DEF Kept, LoopKept, WireKept, PeerKept, SinkKept
  <1>1. ItemOk(t)'
    BY DEF PartsOk, ItemOk
  <1>2. FreshOk(t)' /\ TerminalOk(t)'
    BY DEF PartsOk, FreshOk, TerminalOk
  <1>3. StagingOk(t)'
    BY DEF PartsOk, StagingOk, InCommand
  <1> QED  BY <1>1, <1>2, <1>3 DEF PartsOk

\* readLoop of a started session, when it sends what it, or goes on.
LEMMA LoopParts ==
    ASSUME NEW s \in Sessions, PartsOk(s), WireKept(s), PeerKept(s),
           rpc[s] # "none", rpc'[s] # "none", GoodItem(item'[s]),
           rpc'[s] = "send" => /\ item'[s].what # "none" /\ item'[s].cmd \in {"none", cmd'[s]}
                               /\ item'[s].what = "ready" <=> next'[s] \in {"chunk", "probe"},
           StagingOk(s)'
    PROVE  PartsOk(s)'
  <1>1. ItemOk(s)'
    BY DEF PartsOk, ItemOk, WireKept
  <1>2. FreshOk(s)' /\ TerminalOk(s)'
    BY DEF PartsOk, FreshOk, TerminalOk, WireKept, PeerKept
  <1> QED  BY <1>1, <1>2 DEF PartsOk

\* The items that readLoop and the commands send.
LEMMA Sent ==
    ASSUME NEW s \in Sessions
    PROVE  /\ \A b \in BOOLEAN : /\ GoodItem(Error(s, b)) /\ Error(s, b).what = "error"
                                 /\ Error(s, b).cmd = "none"
           /\ \A w, n : Answer(s, w, n).what = w /\ Answer(s, w, n).cmd = cmd[s]
           /\ \A n : GoodItem(Answer(s, "ok", n))
           /\ cmd[s] # "negotiate" => \A n : GoodItem(Answer(s, "file", n))
           /\ cmd[s] = "upload" => \A w, n : w # "error" => GoodItem(Answer(s, w, n))
           /\ GoodItem(NoItem) /\ NoItem.what = "none"
  <1>1. \A b \in BOOLEAN : /\ GoodItem(Error(s, b)) /\ Error(s, b).what = "error"
                           /\ Error(s, b).cmd = "none"
    BY DEF GoodItem, Error
  <1>2. \A w, n : /\ Answer(s, w, n).what = w /\ Answer(s, w, n).cmd = cmd[s]
                  /\ ~Answer(s, w, n).close
    BY DEF Answer
  <1>3. \A n : GoodItem(Answer(s, "ok", n))
    BY <1>2 DEF GoodItem
  <1>4. cmd[s] # "negotiate" => \A n : GoodItem(Answer(s, "file", n))
    BY <1>2 DEF GoodItem
  <1>5. ASSUME cmd[s] = "upload", NEW w, NEW n, w # "error" PROVE GoodItem(Answer(s, w, n))
    BY <1>2, <1>5 DEF GoodItem
  <1>6. GoodItem(NoItem) /\ NoItem.what = "none"
    BY DEF GoodItem, NoItem
  <1> QED  BY <1>1, <1>2, <1>3, <1>4, <1>5, <1>6

\* Step by step.
LEMMA ReadParts ==
    ASSUME ServerInv, MapsOk, NEW s \in Sessions, PartsOk(s),
           ReadHeader(s) \/ ReadBody(s) \/ Drain(s)
    PROVE  PartsOk(s)'
  <1>1. /\ WireKept(s) /\ PeerKept(s) /\ SinkKept(s)
        /\ rpc[s] \in {"header", "body", "drain"}
        /\ rpc[s] = "drain" => rpc'[s] = "send" /\ next'[s] = "loop" /\ cmd'[s] = cmd[s]
        /\ \/ /\ rpc'[s] = "send" /\ next'[s] \in {"done", "loop"}
              /\ \E b \in BOOLEAN : item'[s] = Error(s, b)
           \/ rpc'[s] \in {"drain", "body", "meta", "exec"} /\ item'[s] = item[s]
    <2>1. CASE ReadHeader(s)
      BY <2>1, DoesReadHeader
    <2>2. CASE ReadBody(s)
      BY <2>2, DoesReadBody
    <2>3. CASE Drain(s)
      BY <2>3, DoesDrain
    <2> QED  BY <2>1, <2>2, <2>3
  <1>2. staging[s] = None
    <2>1. rpc[s] = "drain" => cmd[s] = "legacyUpload" \/ cmd[s] # "legacyUpload"
      OBVIOUS
    <2> QED  BY <1>1 DEF PartsOk, StagingOk, InCommand
  <1>3. StagingOk(s)'
    BY <1>1, <1>2 DEF StagingOk, SinkKept
  <1>4. GoodItem(item[s])
    BY DEF PartsOk, ItemOk
  <1>5. CASE rpc'[s] = "send"
    <2>1. PICK b \in BOOLEAN : item'[s] = Error(s, b)
      BY <1>1, <1>5
    <2>2. next'[s] \notin {"chunk", "probe"}
      BY <1>1, <1>5
    <2>3. GoodItem(item'[s]) /\ item'[s].what = "error" /\ item'[s].cmd = "none"
      BY <2>1, Sent
    <2> QED  BY <1>1, <1>3, <2>2, <2>3, LoopParts
  <1>6. CASE rpc'[s] # "send"
    BY <1>1, <1>3, <1>4, <1>6, LoopParts
  <1> QED  BY <1>5, <1>6

LEMMA ExecParts ==
    ASSUME ServerInv, MapsOk, NEW s \in Sessions, PartsOk(s), commandExec(s)
    PROVE  PartsOk(s)'
  <1>1. /\ WireKept(s) /\ PeerKept(s) /\ SinkKept(s) /\ rpc[s] = "exec" /\ cmd'[s] = cmd[s]
        /\ rpc'[s] = "send" /\ next'[s] = "finish"
        /\ \/ item'[s] = Answer(s, "ok", 0)
           \/ item'[s] = Answer(s, "file", 0) /\ cmd[s] = "data"
           \/ \E b \in BOOLEAN : item'[s] = Error(s, b)
    BY DoesExec
  <1>2. /\ GoodItem(item'[s]) /\ item'[s].what \in {"ok", "file", "error"}
        /\ item'[s].cmd \in {"none", cmd[s]}
    <2>1. CASE item'[s] = Answer(s, "ok", 0)
      BY <2>1, Sent
    <2>2. CASE item'[s] = Answer(s, "file", 0) /\ cmd[s] = "data"
      BY <2>2, Sent
    <2>3. CASE \E b \in BOOLEAN : item'[s] = Error(s, b)
      BY <2>3, Sent
    <2> QED  BY <1>1, <2>1, <2>2, <2>3
  <1>3. StagingOk(s)'
    BY <1>1 DEF PartsOk, StagingOk, InCommand, SinkKept
  <1> QED  BY <1>1, <1>2, <1>3, LoopParts

LEMMA SendParts ==
    ASSUME ServerInv, MapsOk, NEW s \in Sessions, PartsOk(s), SendDone(s)
    PROVE  PartsOk(s)'
  <1>1. /\ PeerKept(s) /\ SinkKept(s) /\ rpc[s] = "send" /\ cmd'[s] = cmd[s]
        /\ wpc'[s] = wpc[s] /\ writing'[s] = writing[s] /\ stopped'[s] = stopped[s]
        /\ chan'[s] = Append(chan[s], item[s])
        /\ item'[s] = NoItem /\ next'[s] = "none"
        /\ rpc'[s] = IF next[s] = "loop" THEN "header" ELSE next[s]
    BY DoesSend
  <1>2. next[s] \in {"done", "finish", "loop", "chunk", "probe"}
    BY <1>1 DEF ServerInv, LoopsOk
  <1>3. /\ item[s].what # "none" /\ GoodItem(item[s])
        /\ \A i \in DOMAIN chan[s] : GoodItem(chan[s][i]) /\ chan[s][i].what # "none"
        /\ wpc[s] = "write" => writing[s].what # "none"
        /\ GoodItem(writing[s])
    BY <1>1 DEF PartsOk, ItemOk
  <1>4. \A i \in DOMAIN chan'[s] : GoodItem(chan'[s][i]) /\ chan'[s][i].what # "none"
    <2> DEFINE q == chan[s]  e == item[s]  r == Append(q, e)
    <2>1. q \in Seq(Items) /\ e \in Items
      BY Maps
    <2>2. \A i \in DOMAIN r : GoodItem(r[i]) /\ r[i].what # "none"
      <3>1. GoodItem(e) /\ e.what # "none" /\ \A i \in DOMAIN q : GoodItem(q[i]) /\ q[i].what # "none"
        BY <1>3
      <3> HIDE DEF q, e, r
      <3>2. /\ Len(q) \in Nat /\ DOMAIN q = 1 .. Len(q) /\ DOMAIN r = 1 .. Len(q) + 1
            /\ \A i \in 1 .. Len(q) : r[i] = q[i]
            /\ r[Len(q) + 1] = e
        BY <2>1, AppendIs DEF r
      <3> SUFFICES ASSUME NEW i \in DOMAIN r PROVE GoodItem(r[i]) /\ r[i].what # "none"
        OBVIOUS
      <3>3. i \in 1 .. Len(q) \/ i = Len(q) + 1
        BY <3>2
      <3> QED  BY <3>1, <3>2, <3>3
    <2> QED  BY <1>1, <2>2
  <1>5. ItemOk(s)'
    <2>1. rpc'[s] # "send"
      BY <1>1, <1>2
    <2>2. GoodItem(item'[s])
      BY <1>1, Sent
    <2> QED  BY <1>1, <1>3, <1>4, <2>1, <2>2 DEF ItemOk
  <1>6. rpc'[s] # "none" /\ rpc'[s] # "meta"
    BY <1>1, <1>2
  <1>7. FreshOk(s)' /\ TerminalOk(s)'
    BY <1>1, <1>6 DEF PartsOk, FreshOk, TerminalOk, PeerKept
  <1>8. StagingOk(s)'
    <2> SUFFICES ASSUME staging'[s] # None
                 PROVE  InCommand(s)' /\ rpc'[s] # "meta" /\ cmd'[s] = "upload"
      BY DEF StagingOk
    <2>1. InCommand(s) /\ cmd[s] = "upload"
      BY <1>1 DEF PartsOk, StagingOk, SinkKept
    <2>2. next[s] \in {"finish", "chunk", "probe"}
      BY <1>1, <2>1 DEF InCommand
    <2>3. rpc'[s] \in {"finish", "chunk", "probe"}
      BY <1>1, <2>2
    <2> QED  BY <1>1, <2>1, <2>3 DEF InCommand
  <1> QED  BY <1>5, <1>7, <1>8 DEF PartsOk

LEMMA EndParts ==
    ASSUME ServerInv, MapsOk, NEW s \in Sessions, PartsOk(s),
           SendFails(s) \/ ReadFails(s) \/ FinishCommand(s)
    PROVE  PartsOk(s)'
  <1>0. GoodItem(item[s]) /\ GoodItem(NoItem)
    BY Sent DEF PartsOk, ItemOk
  <1>1. CASE SendFails(s)
    <2>1. /\ WireKept(s) /\ PeerKept(s) /\ rpc[s] = "send" /\ cmd'[s] = cmd[s]
          /\ item'[s] = NoItem
          /\ IF next[s] \in {"chunk", "probe"}
             THEN rpc'[s] = "done" /\ staging'[s] = None
             ELSE /\ rpc'[s] = IF next[s] = "finish" THEN "finish" ELSE "done"
                  /\ staging'[s] = staging[s]
      BY <1>1, DoesSendFail
    <2>2. rpc'[s] \in {"finish", "done"}
      BY <2>1
    <2>3. StagingOk(s)'
      BY <2>1 DEF PartsOk, StagingOk, InCommand
    <2> QED  BY <1>0, <2>1, <2>2, <2>3, LoopParts
  <1>2. CASE ReadFails(s)
    <2>1. /\ WireKept(s) /\ PeerKept(s) /\ rpc[s] \in Reading
          /\ item'[s] = item[s] /\ rpc'[s] = "done" /\ staging'[s] = None
      BY <1>2, DoesReadFail
    <2>2. StagingOk(s)'
      BY <2>1 DEF StagingOk
    <2> QED  BY <1>0, <2>1, <2>2, LoopParts DEF Reading
  <1>3. CASE FinishCommand(s)
    <2>1. /\ WireKept(s) /\ PeerKept(s) /\ rpc[s] = "finish"
          /\ item'[s] = item[s] /\ rpc'[s] \in {"done", "header"} /\ staging'[s] = None
      BY <1>3, DoesFinish
    <2>2. StagingOk(s)'
      BY <2>1 DEF StagingOk
    <2> QED  BY <1>0, <2>1, <2>2, LoopParts
  <1> QED  BY <1>1, <1>2, <1>3

LEMMA UploadParts ==
    ASSUME ServerInv, MapsOk, NEW s \in Sessions, PartsOk(s),
           UploadPrepare(s) \/ UploadChunk(s)
           \/ PublishProbe(s) \/ PublishMove(s) \/ PublishFails(s)
    PROVE  PartsOk(s)'
  <1>0. GoodItem(item[s])
    BY DEF PartsOk, ItemOk
  <1>1. CASE UploadPrepare(s)
    <2>1. /\ WireKept(s) /\ PeerKept(s) /\ rpc[s] = "meta" /\ cmd'[s] = cmd[s]
          /\ rpc'[s] = "send"
          /\ \/ /\ item'[s] = Answer(s, "ready", 0) /\ staging'[s] = 0
                /\ next'[s] = IF upload[s].size = 0 THEN "probe" ELSE "chunk"
             \/ /\ item'[s] = Error(s, FALSE) /\ staging'[s] = staging[s]
                /\ next'[s] \in {"finish", "loop"}
      BY <1>1, DoesPrepare
    <2>2. cmd[s] = "upload"
      BY <2>1 DEF ServerInv, GateOk
    <2>3. staging[s] = None
      BY <2>1 DEF PartsOk, StagingOk
    <2>4. CASE /\ item'[s] = Answer(s, "ready", 0)
               /\ next'[s] = IF upload[s].size = 0 THEN "probe" ELSE "chunk"
      <3>1. next'[s] \in {"chunk", "probe"}
        BY <2>4
      <3>2. GoodItem(item'[s]) /\ item'[s].what = "ready" /\ item'[s].cmd = cmd[s]
        BY <2>2, <2>4, Sent
      <3>3. StagingOk(s)'
        BY <2>1, <2>2, <3>1 DEF StagingOk, InCommand
      <3> QED  BY <2>1, <3>1, <3>2, <3>3, LoopParts
    <2>5. CASE /\ item'[s] = Error(s, FALSE) /\ staging'[s] = staging[s]
               /\ next'[s] \in {"finish", "loop"}
      <3>1. GoodItem(item'[s]) /\ item'[s].what = "error" /\ item'[s].cmd = "none"
        BY <2>5, Sent
      <3>2. StagingOk(s)'
        BY <2>3, <2>5 DEF StagingOk
      <3>3. next'[s] \notin {"chunk", "probe"}
        BY <2>5
      <3> QED  BY <2>1, <3>1, <3>2, <3>3, LoopParts
    <2> QED  BY <2>1, <2>4, <2>5
  <1>2. CASE UploadChunk(s)
    <2>1. /\ WireKept(s) /\ PeerKept(s) /\ rpc[s] = "chunk" /\ cmd'[s] = cmd[s]
          /\ item'[s] = item[s]
          /\ \/ rpc'[s] \in {"probe", "chunk"}
             \/ staging'[s] = None /\ rpc'[s] = "done"
      BY <1>2, DoesChunk
    <2>2. cmd[s] = "upload"
      BY <2>1 DEF ServerInv, GateOk
    <2>3. StagingOk(s)'
      BY <2>1, <2>2 DEF StagingOk, InCommand
    <2> QED  BY <1>0, <2>1, <2>3, LoopParts
  <1>3. CASE PublishProbe(s) \/ PublishMove(s) \/ PublishFails(s)
    <2>1. /\ WireKept(s) /\ PeerKept(s) /\ rpc[s] \in {"probe", "move"} /\ cmd'[s] = cmd[s]
          /\ \/ rpc'[s] \in {"probe", "move"} /\ item'[s] = item[s]
             \/ /\ rpc'[s] = "send" /\ next'[s] = "finish"
                /\ \/ item'[s] = Answer(s, "final", tried[s])
                   \/ item'[s] = Error(s, FALSE)
      <3>1. CASE PublishProbe(s)
        BY <3>1, DoesProbe
      <3>2. CASE PublishMove(s)
        BY <3>2, DoesMove
      <3>3. CASE PublishFails(s)
        BY <3>3, DoesPublishFail
      <3> QED  BY <1>3, <3>1, <3>2, <3>3
    <2>2. cmd[s] = "upload"
      BY <2>1 DEF ServerInv, GateOk
    <2>3. StagingOk(s)'
      BY <2>1, <2>2 DEF StagingOk, InCommand
    <2>4. CASE rpc'[s] \in {"probe", "move"} /\ item'[s] = item[s]
      BY <1>0, <2>1, <2>3, <2>4, LoopParts
    <2>5. CASE /\ rpc'[s] = "send" /\ next'[s] = "finish"
               /\ \/ item'[s] = Answer(s, "final", tried[s])
                  \/ item'[s] = Error(s, FALSE)
      <3>1. GoodItem(item'[s]) /\ item'[s].what \in {"final", "error"}
            /\ item'[s].cmd \in {"none", cmd[s]}
        <4>1. CASE item'[s] = Answer(s, "final", tried[s])
          <5>1. "final" # "error"
            OBVIOUS
          <5>2. GoodItem(Answer(s, "final", tried[s]))
            BY <2>2, <5>1, Sent
          <5>3. Answer(s, "final", tried[s]).what = "final"
                /\ Answer(s, "final", tried[s]).cmd = cmd[s]
            BY Sent
          <5> QED  BY <4>1, <5>2, <5>3
        <4>2. CASE item'[s] = Error(s, FALSE)
          BY <4>2, Sent
        <4> QED  BY <2>5, <4>1, <4>2
      <3> QED  BY <2>1, <2>3, <2>5, <3>1, LoopParts
    <2> QED  BY <2>1, <2>4, <2>5
  <1> QED  BY <1>1, <1>2, <1>3

\* A stop leaves nothing new.
LEMMA CutParts ==
    ASSUME ServerInv, MapsOk, NEW s \in Sessions, PartsOk(s), LoopKept(s), SinkKept(s),
           Still(s) \/ (Cut(s) /\ stopped'[s]), RestKept(s),
           writing'[s] \in {writing[s], NoItem},
           (wpc'[s] = wpc[s] /\ writing'[s] = writing[s]) \/ wpc'[s] \notin {"write", "none"},
           rpc[s] = "none" => wpc'[s] = wpc[s] \/ wpc[s] # "none"
    PROVE  PartsOk(s)'
  <1>1. ItemOk(s)'
    <2>1. GoodItem(writing'[s])
      BY Sent DEF PartsOk, ItemOk
    <2>2. chan'[s] \in {chan[s], <<>>}
      BY DEF Still, Cut
    <2>3. DOMAIN <<>> = {}
      OBVIOUS
    <2>4. \A i \in DOMAIN chan'[s] : GoodItem(chan'[s][i]) /\ chan'[s][i].what # "none"
      BY <2>2, <2>3 DEF PartsOk, ItemOk
    <2>5. wpc'[s] = "write" => writing'[s].what # "none"
      BY DEF PartsOk, ItemOk
    <2> QED  BY <2>1, <2>4, <2>5 DEF PartsOk, ItemOk, LoopKept
  <1>2. FreshOk(s)'
    <2> SUFFICES ASSUME rpc[s] = "none"
                 PROVE  /\ wpc'[s] = "none" /\ client'[s] = "none" /\ inbox'[s] = <<>>
                        /\ asked'[s] = <<>> /\ chan'[s] = <<>> /\ owes'[s] = 0
      BY DEF FreshOk, LoopKept
    <2>1. /\ wpc[s] = "none" /\ client[s] = "none" /\ inbox[s] = <<>> /\ asked[s] = <<>>
          /\ chan[s] = <<>> /\ owes[s] = 0
      BY DEF PartsOk, FreshOk
    <2>2. inbox'[s] = <<>>
      <3>1. CASE Still(s)
        BY <2>1, <3>1 DEF Still
      <3>2. CASE Cut(s)
        <4>1. inbox'[s] \in Seq(Parts) /\ Len(inbox'[s]) <= 0
          BY <2>1, <3>2 DEF Cut
        <4>2. Len(inbox'[s]) \in Nat
          BY <4>1, LenProperties
        <4> QED  BY <4>1, <4>2, EmptySeq
      <3> QED  BY <3>1, <3>2
    <2> QED  BY <2>1, <2>2 DEF Still, Cut, RestKept
  <1>3. TerminalOk(s)'
    BY DEF PartsOk, TerminalOk, Still, RestKept
  <1>4. StagingOk(s)'
    BY DEF PartsOk, StagingOk, InCommand, LoopKept, SinkKept
  <1> QED  BY <1>1, <1>2, <1>3, <1>4 DEF PartsOk

LEMMA StopParts ==
    ASSUME ServerInv, MapsOk, NEW s \in Sessions, PartsOk(s),
           ReadEnds(s) \/ WriteFails(s) \/ WriteEnds(s) \/ StopPosted(s)
    PROVE  PartsOk(s)'
  <1>1. CASE WriteFails(s) \/ WriteEnds(s) \/ StopPosted(s)
    BY <1>1, DoesStop, CutParts
  <1>2. CASE ReadEnds(s)
    <2>1. /\ RestKept(s) /\ SinkKept(s) /\ rpc[s] = "done" /\ rpc'[s] = "over"
          /\ item'[s] = item[s] /\ next'[s] = next[s] /\ writing'[s] = writing[s]
          /\ wpc'[s] = wpc[s]
          /\ Still(s) \/ (Cut(s) /\ stopped'[s])
      BY <1>2, DoesReadEnd
    <2>2. chan'[s] \in {chan[s], <<>>}
      BY <2>1 DEF Still, Cut
    <2>3. DOMAIN <<>> = {}
      OBVIOUS
    <2>4. \A i \in DOMAIN chan'[s] : GoodItem(chan'[s][i]) /\ chan'[s][i].what # "none"
      BY <2>2, <2>3 DEF PartsOk, ItemOk
    <2>5. ItemOk(s)'
      BY <2>1, <2>4 DEF PartsOk, ItemOk
    <2>6. FreshOk(s)'
      BY <2>1 DEF FreshOk
    <2>7. TerminalOk(s)'
      BY <2>1 DEF PartsOk, TerminalOk, Still, RestKept
    <2>8. StagingOk(s)'
      BY <2>1 DEF PartsOk, StagingOk, InCommand, SinkKept
    <2> QED  BY <2>5, <2>6, <2>7, <2>8 DEF PartsOk
  <1> QED  BY <1>1, <1>2

LEMMA WriteParts ==
    ASSUME ServerInv, MapsOk, NEW s \in Sessions, PartsOk(s),
           WriteReceive(s) \/ WriteDone(s)
    PROVE  PartsOk(s)'
  <1>0. ItemOk(s) /\ FreshOk(s) /\ TerminalOk(s) /\ StagingOk(s)
    BY DEF PartsOk
  <1>1. LoopKept(s) /\ SinkKept(s) /\ wpc[s] # "none"
    BY DoesReceive, DoesWrite
  <1>2. FreshOk(s)'
    BY <1>0, <1>1 DEF FreshOk, LoopKept
  <1>3. StagingOk(s)'
    BY <1>0, <1>1 DEF StagingOk, InCommand, LoopKept, SinkKept
  <1>4. CASE WriteReceive(s)
    <2>1. /\ PeerKept(s) /\ stopped'[s] = stopped[s]
          /\ \/ wpc'[s] = "done" /\ writing'[s] = NoItem /\ chan'[s] = chan[s]
             \/ /\ chan[s] # <<>> /\ wpc'[s] = "write"
                /\ chan'[s] = Tail(chan[s]) /\ writing'[s] = Head(chan[s])
      BY <1>4, DoesReceive
    <2>2. TerminalOk(s)'
      BY <1>0, <2>1 DEF TerminalOk, PeerKept
    <2>3. CASE wpc'[s] = "done" /\ writing'[s] = NoItem /\ chan'[s] = chan[s]
      <3>1. GoodItem(writing'[s])
        BY <2>3, Sent
      <3>2. ItemOk(s)'
        BY <1>0, <1>1, <2>3, <3>1 DEF ItemOk, LoopKept
      <3> QED  BY <1>2, <1>3, <2>2, <3>2 DEF PartsOk
    <2>4. CASE /\ chan[s] # <<>> /\ wpc'[s] = "write"
               /\ chan'[s] = Tail(chan[s]) /\ writing'[s] = Head(chan[s])
      <3> DEFINE q == chan[s]
      <3>1. q \in Seq(Items) /\ q # <<>>
            /\ \A i \in DOMAIN q : GoodItem(q[i]) /\ q[i].what # "none"
        BY <1>0, <2>4, Maps DEF ItemOk
      <3>2. /\ GoodItem(Head(q)) /\ Head(q).what # "none"
            /\ \A i \in DOMAIN Tail(q) : GoodItem(Tail(q)[i]) /\ Tail(q)[i].what # "none"
        <4> HIDE DEF q
        <4>1. /\ Len(q) \in Nat /\ Len(q) >= 1 /\ DOMAIN q = 1 .. Len(q) /\ Head(q) = q[1]
              /\ DOMAIN Tail(q) = 1 .. Len(q) - 1
              /\ \A i \in 1 .. Len(q) - 1 : Tail(q)[i] = q[i + 1]
          BY <3>1, TailIs
        <4>2. 1 \in DOMAIN q /\ \A i \in 1 .. Len(q) - 1 : i + 1 \in DOMAIN q
          BY <4>1
        <4> QED  BY <3>1, <4>1, <4>2
      <3>3. ItemOk(s)'
        BY <1>0, <1>1, <2>4, <3>2 DEF ItemOk, LoopKept
      <3> QED  BY <1>2, <1>3, <2>2, <3>3 DEF PartsOk
    <2> QED  BY <2>1, <2>3, <2>4
  <1>5. CASE WriteDone(s)
    <2>1. /\ ~stopped[s] /\ writing'[s] = NoItem /\ wpc'[s] # "write"
          /\ "terminal" \in heard'[s] => "terminal" \in heard[s] \/ writing[s].close
          /\ \/ writing[s].close /\ stopped'[s] /\ Cut(s)
             \/ ~writing[s].close /\ stopped'[s] = stopped[s] /\ chan'[s] = chan[s]
      BY <1>5, DoesWrite
    <2>2. TerminalOk(s)'
      BY <1>0, <2>1 DEF TerminalOk
    <2>3. chan'[s] \in {chan[s], <<>>}
      BY <2>1 DEF Cut
    <2>4. DOMAIN <<>> = {}
      OBVIOUS
    <2>5. \A i \in DOMAIN chan'[s] : GoodItem(chan'[s][i]) /\ chan'[s][i].what # "none"
      BY <1>0, <2>3, <2>4 DEF ItemOk
    <2>6. GoodItem(writing'[s])
      BY <2>1, Sent
    <2>7. ItemOk(s)'
      BY <1>0, <1>1, <2>1, <2>5, <2>6 DEF ItemOk, LoopKept
    <2> QED  BY <1>2, <1>3, <2>2, <2>7 DEF PartsOk
  <1> QED  BY <1>4, <1>5

LEMMA ClientParts ==
    ASSUME ServerInv, MapsOk, NEW s \in Sessions, PartsOk(s),
           (\E k \in Kinds : ClientAsks(s, k)) \/ ClientStreams(s) \/ ClientCloses(s)
           \/ ClientStalls(s)
    PROVE  PartsOk(s)'
  <1>1. /\ LoopKept(s) /\ WireKept(s) /\ SinkKept(s) /\ client[s] # "none"
        /\ heard'[s] = heard[s]
    <2>1. CASE \E k \in Kinds : ClientAsks(s, k)
      <3>1. PICK k \in Kinds : ClientAsks(s, k)
        BY <2>1
      <3> QED  BY <3>1, DoesAsk
    <2>2. CASE ClientStreams(s)
      BY <2>2, DoesStream
    <2>3. CASE ClientCloses(s)
      BY <2>3, DoesClose
    <2>4. CASE ClientStalls(s)
      BY <2>4, DoesStall
    <2> QED  BY <2>1, <2>2, <2>3, <2>4
  <1>2. ItemOk(s)'
    BY <1>1 DEF PartsOk, ItemOk, LoopKept, WireKept
  <1>3. FreshOk(s)' /\ TerminalOk(s)'
    BY <1>1 DEF PartsOk, FreshOk, TerminalOk, LoopKept, WireKept
  <1>4. StagingOk(s)'
    BY <1>1 DEF PartsOk, StagingOk, InCommand, LoopKept, SinkKept
  <1> QED  BY <1>2, <1>3, <1>4 DEF PartsOk

-----------------------------------------------------------------------------
(* A session that is started, or is not.                                   *)

\* It starts with nothing under way.
LEMMA BornSession ==
    ASSUME ServerInv, MapsOk, PartsOk(born), SessionOk(born), sessionStart \/ AcceptFails
    PROVE  PartsOk(born)' /\ SessionOk(born)'
  <1> DEFINE b == born
  <1>1. /\ b \in Sessions /\ b' = b /\ rpc[b] = "none" /\ SinkKept(b)
        /\ rpc'[b] \in {"header", "done", "over"} /\ wpc'[b] \in {"done", "receive", "over"}
        /\ item'[b] = item[b] /\ next'[b] = next[b] /\ cmd'[b] = cmd[b]
        /\ writing'[b] = writing[b] /\ chan'[b] = chan[b] /\ inbox'[b] = inbox[b]
        /\ typed'[b] = typed[b] /\ asked'[b] = asked[b] /\ owes'[b] = owes[b]
        /\ upload'[b] = upload[b] /\ heard'[b] = heard[b]
        /\ client'[b] \in {"up", client[b]}
        /\ stopped[b] => stopped'[b]
        /\ ~stopped'[b] => rpc'[b] = "header"
    <2>1. CASE sessionStart
      <3>1. b' = b /\ rpc' = [rpc EXCEPT ![b] = LoopTop(b)]
        BY <2>1 DEF sessionStart
      <3>2. rpc'[b] = LoopTop(b)
        BY <2>1, <3>1, Maps, DoesStart
      <3> QED  BY <2>1, <3>1, <3>2, DoesStart DEF LoopTop
    <2>2. CASE AcceptFails
      <3>1. b' = b
        BY <2>2 DEF AcceptFails
      <3> QED  BY <2>2, <3>1, DoesFail DEF PeerKept
    <2> QED  BY <2>1, <2>2
  <1>2. /\ wpc[b] = "none" /\ client[b] = "none" /\ inbox[b] = <<>> /\ asked[b] = <<>>
        /\ chan[b] = <<>> /\ owes[b] = 0
    BY <1>1 DEF PartsOk, FreshOk
  <1>3. staging[b] = None /\ staging'[b] = None
    BY <1>1 DEF PartsOk, StagingOk, InCommand, SinkKept
  <1> HIDE DEF b
  <1>4. PartsOk(b)'
    <2>1. ItemOk(b)' /\ FreshOk(b)'
      BY <1>1 DEF b, PartsOk, ItemOk, FreshOk
    <2>2. TerminalOk(b)' /\ StagingOk(b)'
      BY <1>1, <1>3 DEF b, PartsOk, TerminalOk, StagingOk
    <2> QED  BY <2>1, <2>2 DEF PartsOk
  <1>5. FrameOk(b)'
    <2>1. Len(<<>>) = 0
      OBVIOUS
    <2> QED  BY <1>1, <1>2, <2>1 DEF FrameOk, Framed, Chain, Reads
  <1>6. SinkOk(b)'
    BY <1>1, <1>3 DEF SinkOk
  <1>7. ASSUME Listens(b)' PROVE (BooksOk(b) /\ TypesOk(b) /\ ReadyOk(b) /\ OwesOk(b))'
    <2>1. Listens(b) /\ rpc'[b] = "header"
      BY <1>1, <1>2, <1>7 DEF Listens
    <2>2. BooksOk(b) /\ TypesOk(b) /\ ReadyOk(b) /\ OwesOk(b)
      BY <2>1 DEF b, SessionOk
    <2>3. BooksOk(b)'
      <3>1. Whole("header", inbox[b])
        BY <1>2 DEF Whole
      <3> QED  BY <1>1, <2>1, <2>2, <3>1 DEF BooksOk, At
    <2>4. TypesOk(b)'
      BY <1>1, <2>2 DEF TypesOk
    <2>5. ReadyOk(b)' /\ OwesOk(b)'
      BY <1>1, <1>2, <2>1, <2>2 DEF ReadyOk, OwesOk, InUpload, At
    <2> QED  BY <2>3, <2>4, <2>5
  <1> QED  BY <1>1, <1>4, <1>5, <1>6, <1>7 DEF b, SessionOk

-----------------------------------------------------------------------------
(* Every step keeps the invariant.                                         *)

\* A step of a session leaves the others as they are, and asked and staging maps.
LEMMA StepShape ==
    ASSUME ServerInv, MapsOk, NEW s \in Sessions,
           ReadSide(s) \/ WriteSide(s) \/ StopPosted(s) \/ Peer(s)
    PROVE  Others(s) /\ MapsOk'
  <1>1. \A n \in Int : [staging EXCEPT ![s] = n] \in [Sessions -> Int]
    BY DEF MapsOk
  <1>2. None \in Int /\ 0 \in Int
    BY DEF None
  <1> DEFINE Moved == \/ staging' = staging
                      \/ \E n \in Int : staging' = [staging EXCEPT ![s] = n]
  <1>3. ASSUME Moved, UNCHANGED asked \/ AskedMap PROVE MapsOk'
    <2>1. staging' \in [Sessions -> Int]
      BY <1>1, <1>3 DEF MapsOk
    <2>2. asked' = [t \in Sessions |-> asked'[t]]
      BY <1>3 DEF MapsOk, AskedMap
    <2> QED  BY <2>1, <2>2 DEF MapsOk
  <1>4. CASE ReadHeader(s) \/ ReadBody(s) \/ Drain(s) \/ commandExec(s) \/ SendDone(s)
             \/ PublishProbe(s)
    <2>1. Others(s) /\ UNCHANGED <<asked, staging>>
      BY <1>4, DoesReadHeader, DoesReadBody, DoesDrain, DoesExec, DoesSend, DoesProbe
    <2> QED  BY <1>3, <2>1
  <1>5. CASE SendFails(s) \/ FinishCommand(s) \/ ReadFails(s) \/ UploadPrepare(s)
             \/ UploadChunk(s) \/ PublishMove(s) \/ PublishFails(s)
    <2>1. CASE SendFails(s)
      <3>1. Others(s) /\ UNCHANGED asked
            /\ staging' \in {staging, [staging EXCEPT ![s] = None]}
        BY <2>1, DoesSendFail
      <3> QED  BY <1>2, <1>3, <3>1
    <2>2. CASE FinishCommand(s) \/ ReadFails(s)
      <3>1. Others(s) /\ UNCHANGED asked /\ staging' = [staging EXCEPT ![s] = None]
        BY <2>2, DoesFinish, DoesReadFail
      <3> QED  BY <1>2, <1>3, <3>1
    <2>3. CASE UploadPrepare(s)
      <3>1. Others(s) /\ UNCHANGED asked
            /\ staging' \in {staging, [staging EXCEPT ![s] = 0]}
        BY <2>3, DoesPrepare
      <3> QED  BY <1>2, <1>3, <3>1
    <2>4. CASE UploadChunk(s)
      <3>1. Others(s) /\ UNCHANGED asked
            /\ \E n \in Int : staging' = [staging EXCEPT ![s] = n]
        BY <2>4, DoesChunk
      <3> QED  BY <1>3, <3>1
    <2>5. CASE PublishMove(s)
      <3>1. Others(s) /\ UNCHANGED asked
            /\ staging' \in {staging, [staging EXCEPT ![s] = None]}
        BY <2>5, DoesMove
      <3> QED  BY <1>2, <1>3, <3>1
    <2>6. CASE PublishFails(s)
      <3>1. Others(s) /\ UNCHANGED asked
            /\ \E n \in Int : staging' = [staging EXCEPT ![s] = n]
        BY <2>6, DoesPublishFail
      <3> QED  BY <1>3, <3>1
    <2> QED  BY <1>5, <2>1, <2>2, <2>3, <2>4, <2>5, <2>6
  <1>6. CASE ReadEnds(s) \/ WriteSide(s) \/ StopPosted(s)
    <2>1. CASE ReadEnds(s)
      <3>1. Others(s) /\ UNCHANGED staging /\ AskedMap
        BY <2>1, DoesReadEnd
      <3> QED  BY <1>3, <3>1
    <2>2. CASE WriteReceive(s)
      <3>1. Others(s) /\ UNCHANGED <<asked, staging>>
        BY <2>2, DoesReceive
      <3> QED  BY <1>3, <3>1
    <2>3. CASE WriteDone(s)
      <3>1. Others(s) /\ UNCHANGED staging /\ AskedMap
        BY <2>3, DoesWrite
      <3> QED  BY <1>3, <3>1
    <2>4. CASE WriteFails(s) \/ WriteEnds(s) \/ StopPosted(s)
      <3>1. Others(s) /\ UNCHANGED staging /\ AskedMap
        BY <2>4, DoesStop
      <3> QED  BY <1>3, <3>1
    <2> QED  BY <1>6, <2>1, <2>2, <2>3, <2>4 DEF WriteSide
  <1>7. CASE Peer(s)
    <2>1. ASSUME NEW k \in Kinds, ClientAsks(s, k)
          PROVE  Others(s) /\ UNCHANGED staging /\ AskedMap
      BY <2>1, DoesAsk
    <2>2. CASE ClientStreams(s)
      BY <1>3, <2>2, DoesStream
    <2>3. CASE ClientCloses(s)
      <3>1. Others(s) /\ UNCHANGED staging /\ AskedMap
        BY <2>3, DoesClose
      <3> QED  BY <1>3, <3>1
    <2>4. CASE ClientStalls(s)
      BY <1>3, <2>4, DoesStall
    <2>5. CASE \E k \in Kinds : ClientAsks(s, k)
      BY <1>3, <2>1, <2>5
    <2> QED  BY <1>7, <2>2, <2>3, <2>4, <2>5 DEF Peer
  <1> QED  BY <1>4, <1>5, <1>6, <1>7 DEF ReadSide

\* It keeps what holds of its own session.
LEMMA StepSession ==
    ASSUME ServerInv, MapsOk, NEW s \in Sessions, PartsOk(s), SessionOk(s),
           ReadSide(s) \/ WriteSide(s) \/ StopPosted(s) \/ Peer(s)
    PROVE  PartsOk(s)' /\ SessionOk(s)'
  <1>1. ItemOk(s) /\ StagingOk(s)
    BY DEF PartsOk
  <1>2. CASE ReadHeader(s) \/ ReadBody(s) \/ Drain(s)
    <2>1. SessionOk(s)'
      BY <1>2, HeaderSession, BodySession
    <2> QED  BY <1>2, <2>1, ReadParts
  <1>3. CASE commandExec(s)
    BY <1>3, ExecSession, ExecParts
  <1>4. CASE SendDone(s)
    BY <1>1, <1>4, SendSession, SendParts
  <1>5. CASE SendFails(s) \/ ReadFails(s)
    BY <1>5, EndSession, EndParts
  <1>6. CASE FinishCommand(s)
    BY <1>6, FinishSession, EndParts
  <1>7. CASE ReadEnds(s) \/ WriteFails(s) \/ WriteEnds(s) \/ StopPosted(s)
    BY <1>7, StopSession, StopParts
  <1>8. CASE UploadPrepare(s) \/ UploadChunk(s) \/ PublishProbe(s) \/ PublishMove(s)
             \/ PublishFails(s)
    <2>1. SessionOk(s)'
      BY <1>8, PrepareSession, ChunkSession, PublishSession
    <2> QED  BY <1>8, <2>1, UploadParts
  <1>9. CASE WriteReceive(s) \/ WriteDone(s)
    <2>1. SessionOk(s)'
      BY <1>1, <1>9, ReceiveSession, WriteSession
    <2> QED  BY <1>9, <2>1, WriteParts
  <1>10. CASE Peer(s)
    <2>1. PartsOk(s)'
      BY <1>10, ClientParts DEF Peer
    <2>2. ASSUME NEW k \in Kinds, ClientAsks(s, k) PROVE SessionOk(s)'
      BY <1>1, <2>2, AskSession
    <2>3. ClientStreams(s) => SessionOk(s)'
      BY StreamSession
    <2>4. ClientCloses(s) => SessionOk(s)'
      BY <1>1, CloseSession
    <2>5. ClientStalls(s) => SessionOk(s)'
      BY StallSession
    <2>6. SessionOk(s)'
      BY <1>10, <2>2, <2>3, <2>4, <2>5 DEF Peer
    <2> QED  BY <2>1, <2>6
  <1> QED  BY <1>2, <1>3, <1>4, <1>5, <1>6, <1>7, <1>8, <1>9, <1>10 DEF ReadSide, WriteSide

\* The three facts of the inductive invariant, next to ServerInv.
LEMMA InitWire == Init => WireInv
  <1> SUFFICES ASSUME Init PROVE WireInv
    OBVIOUS
  <1>1. MapsOk
    BY DEF Init, MapsOk, None
  <1> SUFFICES ASSUME NEW s \in Sessions PROVE PartsOk(s) /\ SessionOk(s)
    BY <1>1 DEF WireInv
  <1>2. /\ rpc[s] = "none" /\ wpc[s] = "none" /\ cmd[s] = "none" /\ next[s] = "none"
        /\ client[s] = "none" /\ item[s] = NoItem /\ writing[s] = NoItem
        /\ chan[s] = <<>> /\ inbox[s] = <<>> /\ asked[s] = <<>> /\ heard[s] = {}
        /\ typed[s] = FALSE /\ owes[s] = 0 /\ staging[s] = None
    BY DEF Init
  <1>3. /\ NoItem.what = "none" /\ NoItem.cmd = "none"
    BY DEF NoItem
  <1>4. Len(<<>>) = 0 /\ DOMAIN <<>> = {} /\ <<>> \in Seq(Kinds)
    OBVIOUS
  <1>5. PartsOk(s)
    BY <1>2, <1>3, <1>4 DEF PartsOk, ItemOk, FreshOk, TerminalOk, StagingOk, GoodItem
  <1>6. FrameOk(s) /\ SinkOk(s)
    BY <1>2, <1>4 DEF FrameOk, SinkOk, Framed, Chain
  <1>7. Here(NoItem, <<>>) = 1
    BY <1>3, <1>4 DEF Here, Place, ReadyBefore, Written, IsReply
  <1>8. BooksOk(s)
    <2>1. Matched(NoItem, <<>>, <<>>)
      BY <1>3, <1>4, <1>7 DEF Matched, IsReply
    <2>2. UploadLast(<<>>) /\ Whole("none", <<>>)
      BY <1>4 DEF UploadLast, Whole
    <2>3. Numbered(0, <<>>, <<>>)
      <3> DEFINE f == [i \in 0 .. 0 |-> 0]
      <3>1. f \in [0 .. Len(<<>>) -> 0 .. Len(<<>>)] /\ f[0] = 0
        BY <1>4
      <3>2. Numbers(f, 0, <<>>, <<>>)
        <4> HIDE DEF f
        <4>1. \A p \in 0 .. 0 : p = 0
          OBVIOUS
        <4>2. 1 .. 0 = {}
          OBVIOUS
        <4> QED  BY <1>4, <3>1, <4>1, <4>2 DEF Numbers
      <3> QED  BY <3>1, <3>2 DEF Numbered
    <2>4. ~At("none") /\ 1 - 1 = 0
      BY DEF At
    <2> QED  BY <1>2, <1>4, <1>7, <2>1, <2>2, <2>3, <2>4 DEF BooksOk
  <1>9. TypesOk(s)
    BY <1>2, <1>3, <1>4 DEF TypesOk, TypedRight, ToldAt
  <1>10. ReadyOk(s) /\ OwesOk(s)
    BY <1>2, <1>3, <1>4 DEF ReadyOk, OwesOk, ReadyLast, ReadyUnder
  <1> QED  BY <1>5, <1>6, <1>8, <1>9, <1>10 DEF SessionOk

LEMMA NextWire == ServerInv /\ WireInv /\ [Next]_vars => WireInv'
  <1> SUFFICES ASSUME ServerInv, WireInv, [Next]_vars PROVE WireInv'
    OBVIOUS
  <1>1. MapsOk /\ \A t \in Sessions : PartsOk(t) /\ SessionOk(t)
    BY DEF WireInv
  <1>2. ASSUME NEW t \in Sessions, Kept(t) PROVE PartsOk(t)' /\ SessionOk(t)'
    BY <1>1, <1>2, KeptParts, KeptSession
  <1>3. ASSUME NEW s \in Sessions, ReadSide(s) \/ WriteSide(s) \/ StopPosted(s) \/ Peer(s)
        PROVE  WireInv'
    <2>1. Others(s) /\ MapsOk'
      BY <1>1, <1>3, StepShape
    <2>2. PartsOk(s)' /\ SessionOk(s)'
      BY <1>1, <1>3, StepSession
    <2>3. \A t \in Sessions : PartsOk(t)' /\ SessionOk(t)'
      BY <1>2, <2>1, <2>2 DEF Others
    <2> QED  BY <2>1, <2>3 DEF WireInv
  <1>4. CASE sessionStart \/ AcceptFails
    <2>1. Others(born) /\ born \in Sessions /\ UNCHANGED <<asked, staging>>
      BY <1>1, <1>4, DoesStart, DoesFail
    <2>2. born' = born
      BY <1>4 DEF sessionStart, AcceptFails
    <2>3. PartsOk(born)' /\ SessionOk(born)'
      BY <1>1, <1>4, <2>1, BornSession
    <2>4. \A t \in Sessions : PartsOk(t)' /\ SessionOk(t)'
      BY <1>2, <2>1, <2>2, <2>3 DEF Others
    <2>5. MapsOk'
      BY <1>1, <2>1 DEF MapsOk
    <2> QED  BY <2>4, <2>5 DEF WireInv
  <1>5. CASE \/ AcceptBegins \/ AcceptAborted \/ tryStartSession \/ AcceptLists
             \/ StopBegins \/ Stops \/ OtherProgram \/ UNCHANGED vars
    <2>1. (\A t \in Sessions : Kept(t)) /\ UNCHANGED <<asked, staging>>
      BY <1>5, DoesNothing
    <2>2. MapsOk'
      BY <1>1, <2>1 DEF MapsOk
    <2> QED  BY <1>2, <2>1, <2>2 DEF WireInv
  <1> QED  BY <1>3, <1>4, <1>5 DEF Next, Accepts

LEMMA WireHolds == Spec => []WireInv
  BY InitWire, NextWire, ServerHolds, PTL DEF Spec

-----------------------------------------------------------------------------
(* What is under way, and the requests it answers.                         *)

RepliesTo(r, m) == {j \in 1 .. m : IsReply(r[j])}

\* How many there are at writeLoop and among the first m of the channel.
LEMMA RepliesUpTo ==
    ASSUME NEW w \in Items, NEW q \in Seq(Items), NEW r, r[1] = w,
           \A i \in 1 .. Len(q) : r[i + 1] = q[i] /\ q[i].what # "none",
           NEW k \in Nat, ReadyLast(w, q, k), NEW m \in 0 .. Len(q)
    PROVE  /\ IsFiniteSet(RepliesTo(r, m + 1))
           /\ Cardinality(RepliesTo(r, m + 1)) = Place(w, q, m + 1) - 1
  <1> DEFINE X == {j \in 1 .. m + 1 : IsReply(r[j])}
             Y == IF IsReply(w) THEN 1 .. m + 1 ELSE (1 .. m + 1) \ {1}
  <1>1. Len(q) \in Nat /\ DOMAIN q = 1 .. Len(q) /\ m \in Nat /\ m <= Len(q)
    BY LenProperties
  <1>2. IsFiniteSet(1 .. m + 1) /\ Cardinality(1 .. m + 1) = m + 1
    <2>1. 1 \in Int /\ m + 1 \in Int /\ ~(1 > m + 1) /\ (m + 1) - 1 + 1 = m + 1
      BY <1>1
    <2> QED  BY <2>1, FS_Interval
  <1>3. IsFiniteSet(Y) /\ Cardinality(Y) = m + Written(w)
    <2>1. CASE IsReply(w)
      BY <1>1, <1>2, <2>1 DEF Written
    <2>2. CASE ~IsReply(w)
      <3>1. 1 \in 1 .. m + 1
        BY <1>1
      <3>2. IsFiniteSet(Y) /\ Cardinality(Y) = (m + 1) - 1
        BY <1>2, <2>2, <3>1, FS_RemoveElement
      <3> QED  BY <1>1, <2>2, <3>2 DEF Written
    <2> QED  BY <2>1, <2>2
  <1>4. ASSUME NEW j \in 2 .. m + 1
        PROVE  j - 1 \in 1 .. m /\ r[j] = q[j - 1] /\ q[j - 1].what # "none"
    <2>1. j - 1 \in 1 .. Len(q) /\ j - 1 \in 1 .. m /\ (j - 1) + 1 = j
      BY <1>1
    <2> QED  BY <2>1
  <1>5. CASE ~ReadyBefore(q, m + 1)
    <2>1. ASSUME NEW j \in 2 .. m + 1 PROVE IsReply(r[j])
      <3>1. j - 1 \in DOMAIN q /\ j - 1 < m + 1 /\ r[j] = q[j - 1] /\ q[j - 1].what # "none"
        BY <1>1, <1>4
      <3> QED  BY <1>5, <3>1 DEF ReadyBefore, IsReply
    <2>2. X = Y
      <3>1. \A j \in 1 .. m + 1 : j = 1 \/ j \in 2 .. m + 1
        BY <1>1
      <3> QED  BY <2>1, <3>1
    <2>3. Place(w, q, m + 1) = Written(w) + (m + 1)
      BY <1>1, <1>5 DEF Place, Written
    <2>4. m + Written(w) = Place(w, q, m + 1) - 1
      BY <1>1, <2>3 DEF Written
    <2> HIDE DEF X, Y
    <2>5. IsFiniteSet(X) /\ Cardinality(X) = Place(w, q, m + 1) - 1
      BY <1>3, <2>2, <2>4
    <2> QED  BY <2>5 DEF X, RepliesTo
  <1>6. CASE ReadyBefore(q, m + 1)
    <2>1. PICK p \in DOMAIN q : p < m + 1 /\ q[p].what = "ready"
      BY <1>6 DEF ReadyBefore
    <2>2. \A i \in DOMAIN q : q[i].what = "ready" => i = p
      <3>1. \A i \in DOMAIN q : q[i].what = "ready" => Len(q) = i + k
        BY DEF ReadyLast
      <3>2. Len(q) = p + k
        BY <2>1, <3>1
      <3> QED  BY <1>1, <3>1, <3>2
    <2>3. p + 1 \in 2 .. m + 1 /\ p + 1 \in Y
      BY <1>1, <2>1
    <2>4. ASSUME NEW j \in 2 .. m + 1 PROVE IsReply(r[j]) <=> j # p + 1
      <3>1. j - 1 \in DOMAIN q /\ r[j] = q[j - 1] /\ q[j - 1].what # "none"
        BY <1>1, <1>4
      <3>2. j - 1 = p <=> j = p + 1
        BY <1>1
      <3>3. q[j - 1].what = "ready" <=> j - 1 = p
        BY <2>1, <2>2, <3>1
      <3> QED  BY <3>1, <3>2, <3>3 DEF IsReply
    <2>5. X = Y \ {p + 1}
      <3>1. \A j \in 1 .. m + 1 : j = 1 \/ j \in 2 .. m + 1
        BY <1>1
      <3>2. 1 # p + 1
        BY <1>1, <2>1
      <3> QED  BY <2>4, <3>1, <3>2
    <2>6. IsFiniteSet(X) /\ Cardinality(X) = Cardinality(Y) - 1
      <3> HIDE DEF X, Y
      <3> QED  BY <1>3, <2>3, <2>5, FS_RemoveElement
    <2>7. Place(w, q, m + 1) = Written(w) + (m + 1) - 1
      BY <1>6 DEF Place
    <2>8. Written(w) \in Nat
      BY DEF Written
    <2> QED
      <3> HIDE DEF X, Y
      <3>1. Cardinality(X) = Place(w, q, m + 1) - 1
        BY <1>1, <1>3, <2>6, <2>7, <2>8
      <3> QED  BY <2>6, <3>1 DEF X, RepliesTo
  <1> QED  BY <1>5, <1>6

\* With RequestOf, which counts the replies ahead, for Place, which counts places.
LEMMA ReplyAnswers ==
    ASSUME ServerInv, WireInv, NEW s \in Sessions, Listens(s), NEW i \in Replies(s)
    PROVE  /\ RequestOf(s, i) <= Len(asked[s])
           /\ Pipe(s)[i].cmd \in {"none", asked[s][RequestOf(s, i)]}
           /\ Pipe(s)[i].what = "error" =>
                Pipe(s)[i].typed = ("negotiate" \in heard[s]
                                    \/ \E j \in 1 .. i - 1 : Pipe(s)[j].cmd = "negotiate")
  <1> DEFINE w == writing[s]  q == chan[s]  t == item[s]  r == Pipe(s)
             a == asked[s]  h == heard[s]
             Upto(m) == RepliesTo(r, m)
             Told(n) == "negotiate" \in h \/ \E j \in 1 .. n - 1 : r[j].cmd = "negotiate"
  <1>1. /\ w \in Items /\ q \in Seq(Items) /\ t \in Items /\ r = <<w>> \o q \o <<t>>
        /\ rpc[s] # "send" => t = NoItem
    BY DEF ServerInv, PipesOk, Pipe
  <1>2. /\ Len(q) \in Nat /\ DOMAIN q = 1 .. Len(q)
        /\ DOMAIN r = 1 .. Len(q) + 2 /\ r[1] = w
        /\ \A m \in 1 .. Len(q) : r[m + 1] = q[m]
        /\ r[Len(q) + 2] = t
    <2> HIDE DEF w, q, t, r
    <2> QED  BY <1>1, PipeIs
  <1>3. /\ Matched(w, q, a) /\ TypedRight(h, w, q, typed[s])
        /\ t.what = "error" => t.typed = typed[s]
        /\ ReadyLast(w, q, IF At(rpc[s]) THEN 0 ELSE 1)
        /\ \A m \in DOMAIN q : q[m].what # "none"
        /\ rpc[s] = "send" => /\ t.cmd \in {"none", cmd[s]} /\ Here(w, q) <= Len(a)
                              /\ a[Here(w, q)] = cmd[s]
    BY DEF WireInv, SessionOk, PartsOk, ItemOk, BooksOk, TypesOk, ReadyOk, At
  <1>4. i \in 1 .. Len(q) + 2 /\ IsReply(r[i])
    BY <1>2 DEF Replies, IsReply
  <1>5. RequestOf(s, i) = Cardinality(Upto(i))
    <2>1. {j \in Replies(s) : j <= i} = Upto(i)
      BY <1>2, <1>4 DEF Replies, RepliesTo, IsReply
    <2> QED  BY <2>1 DEF RequestOf
  <1> HIDE DEF w, q, t, r, a, h
  <1>6. ASSUME NEW m \in 0 .. Len(q)
        PROVE  IsFiniteSet(Upto(m + 1)) /\ Cardinality(Upto(m + 1)) = Place(w, q, m + 1) - 1
    <2>1. PICK k \in Nat : ReadyLast(w, q, k)
      BY <1>3
    <2>2. r[1] = w /\ \A j \in 1 .. Len(q) : r[j + 1] = q[j] /\ q[j].what # "none"
      BY <1>2, <1>3
    <2> QED  BY <1>1, <2>1, <2>2, RepliesUpTo
  <1>7. ASSUME NEW m \in 0 .. Len(q) PROVE Told(m + 2) <=> ToldAt(h, w, q, m + 1)
    <2>1. (m + 2) - 1 = m + 1
      BY <1>2
    <2>2. ASSUME NEW j \in 1 .. m + 1, r[j].cmd = "negotiate" PROVE ToldAt(h, w, q, m + 1)
      <3>1. CASE j = 1
        BY <1>2, <2>2, <3>1 DEF ToldAt
      <3>2. CASE j # 1
        <4>1. j - 1 \in 1 .. Len(q) /\ j - 1 < m + 1 /\ (j - 1) + 1 = j
          BY <1>2, <3>2
        <4>2. j - 1 \in DOMAIN q /\ q[j - 1].cmd = "negotiate"
          BY <1>2, <2>2, <4>1
        <4> QED  BY <4>1, <4>2 DEF ToldAt
      <3> QED  BY <3>1, <3>2
    <2>3. ASSUME NEW j \in DOMAIN q, j < m + 1, q[j].cmd = "negotiate" PROVE Told(m + 2)
      <3>1. j + 1 \in 1 .. m + 1 /\ r[j + 1].cmd = "negotiate"
        BY <1>2, <2>3
      <3> QED  BY <2>1, <3>1
    <2>4. w.cmd = "negotiate" => Told(m + 2)
      <3>1. 1 \in 1 .. m + 1
        BY <1>2
      <3> QED  BY <1>2, <2>1, <3>1
    <2> QED  BY <2>1, <2>2, <2>3, <2>4 DEF ToldAt
  <1>8. CASE i = 1
    <2>1. 0 \in 0 .. Len(q) /\ 0 + 1 = i
      BY <1>2, <1>8
    <2>2. Cardinality(Upto(i)) = Place(w, q, 1) - 1
      BY <1>6, <2>1
    <2>3. IsReply(w) /\ Written(w) = 1
      BY <1>2, <1>4, <1>8 DEF Written
    <2>4. ~ReadyBefore(q, 1)
      BY <1>2 DEF ReadyBefore
    <2>5. Cardinality(Upto(i)) = 1
      BY <2>2, <2>3, <2>4 DEF Place
    <2>6. Len(a) >= 1 /\ w.cmd \in {"none", a[1]}
      BY <1>3, <2>3 DEF Matched
    <2>7. 1 .. i - 1 = {}
      BY <1>8
    <2>8. w.what = "error" => w.typed = ("negotiate" \in h)
      BY <1>3 DEF TypedRight
    <2>9. Cardinality(Upto(i)) <= Len(a) /\ r[i].cmd \in {"none", a[Cardinality(Upto(i))]}
      BY <1>2, <1>8, <2>5, <2>6
    <2>10. r[i].what = "error" => r[i].typed = Told(i)
      BY <1>2, <1>8, <2>7, <2>8
    <2> QED  BY <1>5, <2>9, <2>10 DEF r, a, h
  <1>9. CASE i \in 2 .. Len(q) + 1
    <2> DEFINE m == i - 1
    <2>1. m \in 1 .. Len(q) /\ m \in 0 .. Len(q) /\ m + 1 = i
      BY <1>2, <1>9
    <2>2. r[i] = q[m] /\ m \in DOMAIN q /\ IsReply(q[m])
      BY <1>2, <1>4, <2>1
    <2>3. Cardinality(Upto(i)) = Place(w, q, i) - 1
      BY <1>6, <2>1
    <2> HIDE DEF m
    <2>4. ReadyBefore(q, i) <=> ReadyBefore(q, m)
      <3>1. \A j \in DOMAIN q : j < i <=> j < m \/ j = m
        BY <1>2, <2>1
      <3> QED  BY <2>2, <3>1 DEF ReadyBefore, IsReply
    <2>5. Place(w, q, i) - 1 = Place(w, q, m)
      <3>1. Written(w) \in Nat
        BY DEF Written
      <3>2. i \in Nat /\ m \in Nat /\ i - 1 = m
        BY <1>2, <2>1
      <3>3. CASE ReadyBefore(q, i)
        BY <2>4, <3>1, <3>2, <3>3 DEF Place
      <3>4. CASE ~ReadyBefore(q, i)
        BY <2>4, <3>1, <3>2, <3>4 DEF Place
      <3> QED  BY <3>3, <3>4
    <2>6. Place(w, q, m) <= Len(a) /\ q[m].cmd \in {"none", a[Place(w, q, m)]}
      BY <1>3, <2>2 DEF Matched
    <2>7. q[m].what = "error" => q[m].typed = ToldAt(h, w, q, m)
      BY <1>3, <2>2 DEF TypedRight
    <2>8. Told(i) <=> ToldAt(h, w, q, m)
      <3>1. m - 1 \in 0 .. Len(q) /\ (m - 1) + 2 = i /\ (m - 1) + 1 = m
        BY <1>2, <2>1
      <3> QED  BY <1>7, <3>1
    <2>9. Cardinality(Upto(i)) <= Len(a) /\ r[i].cmd \in {"none", a[Cardinality(Upto(i))]}
      BY <2>2, <2>3, <2>5, <2>6
    <2>10. r[i].what = "error" => r[i].typed = Told(i)
      <3> SUFFICES ASSUME r[i].what = "error" PROVE r[i].typed = Told(i)
        OBVIOUS
      <3>1. r[i].typed \in BOOLEAN /\ r[i].typed = ToldAt(h, w, q, m)
        <4>1. q[m] \in Items
          BY <1>1, <1>2, <2>1, ElementOfSeq
        <4>2. q[m].typed \in BOOLEAN
          BY <4>1 DEF Items
        <4> QED  BY <2>2, <2>7, <4>2
      <3>2. r[i].typed <=> Told(i)
        BY <3>1, <2>8
      <3> QED  BY <3>1, <3>2, Zenon
    <2> QED  BY <1>5, <2>9, <2>10 DEF r, a, h
  <1>10. CASE i = Len(q) + 2
    <2> DEFINE n == Len(q)
    <2>1. n \in 0 .. Len(q) /\ (n + 1) + 1 = i /\ i \in Nat /\ n + 2 = i
      BY <1>2, <1>10
    <2>2. IsReply(t) /\ r[i] = t
      BY <1>2, <1>4, <1>10
    <2>3. rpc[s] = "send"
      BY <1>1, <2>2 DEF IsReply, NoItem
    <2>4. IsFiniteSet(Upto(n + 1)) /\ Cardinality(Upto(n + 1)) = Here(w, q) - 1
      BY <1>6, <2>1 DEF Here
    <2>5. Upto(i) = Upto(n + 1) \cup {i} /\ i \notin Upto(n + 1)
      <3>1. 1 .. i = 1 .. n + 1 \cup {i} /\ i \notin 1 .. n + 1
        BY <1>2, <2>1
      <3> QED  BY <1>4, <3>1 DEF RepliesTo
    <2>6. Here(w, q) \in Nat
      BY <1>1, Places
    <2>7. Cardinality(Upto(i)) = Here(w, q)
      <3> HIDE DEF Upto, n
      <3>1. Cardinality(Upto(i)) = Cardinality(Upto(n + 1)) + 1
        BY <2>4, <2>5, FS_AddElement
      <3> QED  BY <2>4, <2>6, <3>1
    <2>8. Cardinality(Upto(i)) <= Len(a) /\ r[i].cmd \in {"none", a[Cardinality(Upto(i))]}
      BY <1>3, <2>2, <2>3, <2>7
    <2>9. Told(i) <=> ToldAt(h, w, q, Len(q) + 1)
      BY <1>7, <2>1
    <2>10. typed[s] = ToldAt(h, w, q, Len(q) + 1)
      BY <1>3 DEF TypedRight
    <2>11. r[i].what = "error" => r[i].typed = Told(i)
      <3> SUFFICES ASSUME r[i].what = "error" PROVE r[i].typed = Told(i)
        OBVIOUS
      <3>1. r[i].typed \in BOOLEAN /\ r[i].typed = ToldAt(h, w, q, Len(q) + 1)
        BY <1>1, <1>2, <1>3, <2>2, <2>10 DEF Items
      <3>2. r[i].typed <=> Told(i)
        BY <3>1, <2>9
      <3> QED  BY <3>1, <3>2, Zenon
    <2> QED  BY <1>5, <2>8, <2>11 DEF r, a, h
  <1> QED  BY <1>2, <1>4, <1>8, <1>9, <1>10

\* Whatever clients send ahead, wherever they stop or go away, and whatever fails:
\* readLoop always reads the part of a request that it takes the next one for, and the
\* replies under way are those to the oldest requests, each in its turn and its format.
THEOREM StreamsInStep == Spec => []InStep
  <1>1. ServerInv /\ WireInv => InStep
    <2> SUFFICES ASSUME ServerInv, WireInv PROVE InStep
      OBVIOUS
    <2>1. FramingKept
      <3> SUFFICES ASSUME NEW s \in Sessions, rpc[s] \in Reading, inbox[s] # <<>>
                   PROVE  CASE rpc[s] = "header" -> Head(inbox[s]) \in Kinds
                            [] rpc[s] \in {"body", "drain"} -> Head(inbox[s]) = "body"
                            [] OTHER -> Head(inbox[s]) = rpc[s]
        BY DEF FramingKept
      <3>1. Framed(rpc[s], next[s], inbox[s])
        BY DEF WireInv, SessionOk, FrameOk, Reads, Reading
      <3>2. inbox[s] \in Seq(Parts)
        BY DEF ServerInv, StreamsOk
      <3>3. Len(inbox[s]) \in Nat /\ Len(inbox[s]) >= 1 /\ Head(inbox[s]) = inbox[s][1]
        BY <3>2, TailIs
      <3>4. 1 \in 1 .. Len(inbox[s])
        BY <3>3
      <3> QED  BY <3>1, <3>3, <3>4 DEF Framed, Expected, Reading
    <2>2. RepliesInOrder
      <3>1. \A s \in Sessions : "terminal" \in heard[s] => stopped[s]
        BY DEF WireInv, PartsOk, TerminalOk
      <3>2. ASSUME NEW s \in Sessions, Listens(s), NEW i \in Replies(s)
            PROVE  /\ RequestOf(s, i) <= Len(asked[s])
                   /\ Pipe(s)[i].cmd \in {"none", asked[s][RequestOf(s, i)]}
                   /\ Pipe(s)[i].what = "error" =>
                        Pipe(s)[i].typed = ("negotiate" \in heard[s]
                             \/ \E j \in 1 .. i - 1 : Pipe(s)[j].cmd = "negotiate")
        BY <3>2, ReplyAnswers
      <3> QED  BY <3>1, <3>2 DEF RepliesInOrder, Listens
    <2> QED  BY <2>1, <2>2 DEF InStep
  <1> QED  BY <1>1, ServerHolds, WireHolds, PTL

-----------------------------------------------------------------------------
(* The files of the upload directory, when others come up and go.         *)

\* The names that are there stay what they are, and none comes up under the number of
\* an upload that is still to come.
Grows(s) == \A n \in Names : \/ disk'[n] = disk[n]
                             \/ /\ disk[n] = Free /\ disk'[n] # Free
                                /\ upload[s].of > 0 => disk'[n].of # upload[s].of

\* A step leaves of what a session sends and reads no more than there was.
Shrinks(s) == /\ Comes(s)' => Comes(s)
              /\ Listens(s)' => Listens(s)
              /\ \A it \in Under(s)' : it \in Under(s) \/ it.what # "final"

\* A session that makes no upload keeps its part, whatever file comes up.
LEMMA DiskGrows ==
    ASSUME NEW s \in Sessions, DiskOk(s), Shrinks(s), Grows(s), upload'[s] = upload[s],
           TriedOk(s)'
    PROVE  DiskOk(s)'
  <1>1. \A n \in Names : disk[n] # Free => disk'[n] = disk[n]
    BY DEF Grows
  <1>2. \A n \in Used : n \in Used' /\ disk'[n] = disk[n]
    BY <1>1 DEF Used
  <1>3. ComesOk(s)'
    <2> SUFFICES ASSUME Comes(s)', NEW n \in Used'
                 PROVE  upload[s].of > 0 /\ disk'[n].of # upload[s].of
      <3>1. Comes(s)' => upload[s].of > 0
        BY DEF Shrinks, DiskOk, ComesOk
      <3> QED  BY <3>1 DEF ComesOk
    <2>1. upload[s].of > 0 /\ \A m \in Used : disk[m].of # upload[s].of
      BY DEF Shrinks, DiskOk, ComesOk
    <2>2. n \in Names /\ disk'[n] # Free
      BY DEF Used
    <2>3. CASE disk'[n] = disk[n]
      BY <2>1, <2>2, <2>3 DEF Used
    <2>4. CASE disk'[n].of # upload[s].of
      BY <2>1, <2>4
    <2> QED  BY <2>1, <2>2, <2>3, <2>4 DEF Grows
  <1>4. FinalsOk(s)'
    <2> SUFFICES ASSUME NEW it \in Under(s)', it.what = "final"
                 PROVE  /\ it.name \in Used'
                        /\ Listens(s)' => disk'[it.name].of = upload[s].of
      BY DEF FinalsOk, FinalOk
    <2>1. it.name \in Used /\ (Listens(s) => disk[it.name].of = upload[s].of)
      BY DEF Shrinks, DiskOk, FinalsOk, FinalOk
    <2> QED  BY <1>2, <2>1 DEF Shrinks
  <1> QED  BY <1>3, <1>4 DEF DiskOk

\* The index of publish.
LEMMA TriedGrows ==
    ASSUME NEW s \in Sessions, TriedOk(s), tried'[s] \in {tried[s], 0},
           \A n \in Names : disk[n] # Free => disk'[n] = disk[n]
    PROVE  TriedOk(s)'
  <1>1. Names = 0 .. MaxRequests + MaxFaults /\ MaxRequests + MaxFaults \in Nat
    BY SessionsAssumption DEF Names
  <1>2. \A m \in 0 .. tried[s] - 1 : m \in Names
    BY <1>1 DEF TriedOk
  <1>3. tried'[s] \in Names /\ 0 \in Names
    BY <1>1 DEF TriedOk
  <1>4. \A m \in 0 .. tried'[s] - 1 : m \in 0 .. tried[s] - 1
    BY <1>1 DEF TriedOk
  <1> QED  BY <1>2, <1>3, <1>4 DEF TriedOk

\* The names that are taken can be counted.
LEMMA UsedFinite ==
    ASSUME FilesOk
    PROVE  /\ IsFiniteSet(Used) /\ Cardinality(Used) \in Nat
           /\ Ofs \subseteq 1 .. requests /\ IsFiniteSet(Ofs) /\ Cardinality(Ofs) \in Nat
  <1>1. IsFiniteSet(Names)
    <2>1. 0 \in Int /\ MaxRequests + MaxFaults \in Int
      BY SessionsAssumption
    <2> QED  BY <2>1, FS_Interval DEF Names
  <1>2. IsFiniteSet(Used)
    BY <1>1, FS_Subset DEF Used
  <1>3. Ofs \subseteq 1 .. requests
    BY DEF FilesOk, Ofs
  <1>4. IsFiniteSet(Ofs)
    <2>1. 1 \in Int /\ requests \in Int
      BY SessionsAssumption DEF FilesOk
    <2>2. IsFiniteSet(1 .. requests)
      BY <2>1, FS_Interval
    <2> QED  BY <1>3, <2>2, FS_Subset
  <1> QED  BY <1>2, <1>3, <1>4, FS_CardinalityType

\* publish does not run out of names: the other uploads and programs have not so many.
LEMMA Room ==
    ASSUME ServerInv, FilesOk, NumbersOk, NEW s \in Sessions, ComesOk(s), Comes(s),
           TriedOk(s), disk[tried[s]] # Free
    PROVE  /\ tried[s] + 1 \in Names
           /\ \A m \in 0 .. (tried[s] + 1) - 1 : disk[m] # Free
  <1> DEFINE k == tried[s]  u == upload[s].of
  <1>1. /\ Names = 0 .. MaxRequests + MaxFaults /\ MaxRequests \in Nat /\ MaxFaults \in Nat
        /\ k \in Names /\ k \in Nat
    BY SessionsAssumption DEF TriedOk, Names
  <1>2. \A m \in 0 .. k : disk[m] # Free
    <2>1. \A m \in 0 .. k : m = k \/ m \in 0 .. k - 1
      BY <1>1
    <2> QED  BY <2>1 DEF TriedOk
  <1>3. 0 .. k \subseteq Used
    <2>1. 0 .. k \subseteq Names
      BY <1>1
    <2> QED  BY <1>2, <2>1 DEF Used
  <1>4. /\ IsFiniteSet(Used) /\ Cardinality(Used) \in Nat
        /\ Ofs \subseteq 1 .. requests /\ Cardinality(Ofs) \in Nat
    BY UsedFinite
  <1>5. k + 1 <= Cardinality(Used)
    <2>1. 0 \in Int /\ k \in Int /\ ~(0 > k) /\ k - 0 + 1 = k + 1
      BY <1>1
    <2>2. Cardinality(0 .. k) = k + 1
      BY <2>1, FS_Interval
    <2>3. Cardinality(0 .. k) <= Cardinality(Used)
      BY <1>3, <1>4, FS_Subset
    <2> QED  BY <2>2, <2>3
  <1>6. Cardinality(Ofs) <= requests - 1
    <2>1. requests \in Nat /\ u \in 1 .. requests /\ requests \in Int /\ 1 \in Int
      BY SessionsAssumption DEF FilesOk, NumbersOk, ComesOk
    <2>2. Ofs \subseteq (1 .. requests) \ {u}
      BY <1>4 DEF ComesOk, Ofs
    <2>3. IsFiniteSet(1 .. requests) /\ Cardinality(1 .. requests) = requests
      <3>1. ~(1 > requests) /\ requests - 1 + 1 = requests
        BY <2>1
      <3> QED  BY <2>1, <3>1, FS_Interval
    <2>4. /\ IsFiniteSet((1 .. requests) \ {u})
          /\ Cardinality((1 .. requests) \ {u}) = requests - 1
      BY <2>1, <2>3, FS_RemoveElement
    <2>5. Cardinality(Ofs) <= Cardinality((1 .. requests) \ {u})
      BY <2>2, <2>4, FS_Subset
    <2> QED  BY <2>4, <2>5
  <1>7. Cardinality(Used) <= Cardinality(Ofs) + faults /\ requests \in 0 .. MaxRequests
    BY DEF FilesOk
  <1>8. faults \in 0 .. MaxFaults
    BY DEF ServerInv, FlagsOk
  <1>9. k + 1 <= MaxRequests + MaxFaults
    <2> HIDE DEF k
    <2> QED  BY <1>1, <1>4, <1>5, <1>6, <1>7, <1>8
  <1> QED  BY <1>1, <1>2, <1>9

\* A file comes up under a free name.
LEMMA FileComes ==
    ASSUME FilesOk, NEW n \in Names, disk[n] = Free, NEW r,
           r \in [of : Int, chunks : Int, size : Nat], r # Free, r.chunks = r.size,
           disk' = [disk EXCEPT ![n] = r], requests' = requests,
           r.of = Foreign.of \/ (r.of \in 1 .. requests /\ \A m \in Used : disk[m].of # r.of),
           faults \in Nat, faults' = faults + (IF r.of = Foreign.of THEN 1 ELSE 0),
           told' = told \/ told' = told \cup {<<n, r.of>>}
    PROVE  FilesOk'
  <1>1. /\ disk' \in [Names -> [of : Int, chunks : Int, size : Nat]]
        /\ disk'[n] = r /\ \A m \in Names \ {n} : disk'[m] = disk[m]
    BY DEF FilesOk
  <1>2. Used' = Used \cup {n} /\ n \notin Used
    BY <1>1 DEF Used, Names
  <1>3. \A m \in Used : m \in Names /\ m # n
    BY <1>2 DEF Used
  <1>4. \A m \in Used' : disk'[m].of = Foreign.of \/ disk'[m].of \in 1 .. requests
    BY <1>1, <1>2, <1>3 DEF FilesOk
  <1>5. \A f \in told' : f[1] \in Used' /\ disk'[f[1]].of = f[2]
    BY <1>1, <1>2, <1>3 DEF FilesOk
  <1>6. /\ IsFiniteSet(Used) /\ Cardinality(Used) \in Nat
        /\ IsFiniteSet(Ofs) /\ Cardinality(Ofs) \in Nat
    BY UsedFinite
  <1>7. Cardinality(Used') = Cardinality(Used) + 1
    BY <1>2, <1>6, FS_AddElement
  <1>8. Ofs' = (Ofs \cup {r.of}) \ {Foreign.of}
    BY <1>1, <1>2, <1>3 DEF Ofs, Foreign
  <1>9. Cardinality(Used') <= Cardinality(Ofs') + faults'
    <2>1. Cardinality(Used) <= Cardinality(Ofs) + faults
      BY DEF FilesOk
    <2>2. CASE r.of = Foreign.of
      <3>1. Ofs' = Ofs
        BY <1>8, <2>2 DEF Ofs
      <3> QED  BY <1>6, <1>7, <2>1, <2>2, <3>1
    <2>3. CASE r.of # Foreign.of
      <3>1. Ofs' = Ofs \cup {r.of} /\ r.of \notin Ofs
        BY <1>8, <2>3 DEF Ofs
      <3>2. Cardinality(Ofs') = Cardinality(Ofs) + 1
        BY <1>6, <3>1, FS_AddElement
      <3> QED  BY <1>6, <1>7, <2>1, <2>3, <3>2
    <2> QED  BY <2>2, <2>3
  <1>10. \A m \in Names : disk'[m].chunks = disk'[m].size
    BY <1>1 DEF FilesOk
  <1> QED  BY <1>1, <1>4, <1>5, <1>9, <1>10 DEF FilesOk

-----------------------------------------------------------------------------
(* What a step does to the files, and what it leaves under way.            *)

FilesKept == UNCHANGED <<disk, told, requests, tried, upload>>

\* Nothing but publish, the client and other programs changes what is said above.
LEMMA Untouched ==
    ASSUME NEW s \in Sessions,
           \/ ReadHeader(s) \/ ReadBody(s) \/ Drain(s) \/ commandExec(s) \/ SendDone(s)
           \/ SendFails(s) \/ FinishCommand(s) \/ ReadFails(s) \/ ReadEnds(s)
           \/ UploadChunk(s) \/ PublishFails(s) \/ WriteReceive(s) \/ WriteFails(s)
           \/ WriteEnds(s) \/ StopPosted(s) \/ ClientStreams(s) \/ ClientStalls(s)
    PROVE  FilesKept /\ faults' \in {faults, faults + 1}
  <1> USE DEF FilesKept, peerVars, heardVars, sinkVars, restVars
  <1>1. CASE ReadHeader(s) \/ ReadBody(s) \/ Drain(s) \/ commandExec(s)
    BY <1>1 DEF ReadHeader, ReadBody, Drain, commandExec, Take
  <1>2. CASE SendDone(s) \/ SendFails(s) \/ FinishCommand(s)
    BY <1>2 DEF SendDone, SendFails, FinishCommand
  <1>3. CASE ReadFails(s) \/ ReadEnds(s)
    BY <1>3 DEF ReadFails, ReadEnds
  <1>4. CASE UploadChunk(s) \/ PublishFails(s)
    BY <1>4 DEF UploadChunk, PublishFails, Take
  <1>5. CASE WriteReceive(s) \/ WriteFails(s) \/ WriteEnds(s) \/ StopPosted(s)
    BY <1>5 DEF WriteReceive, WriteFails, WriteEnds, StopPosted
  <1>6. CASE ClientStreams(s) \/ ClientStalls(s)
    BY <1>6 DEF ClientStreams, ClientStalls, UnchangedByPeer
  <1> QED  BY <1>1, <1>2, <1>3, <1>4, <1>5, <1>6

LEMMA UntouchedElsewhere ==
    ASSUME \/ AcceptBegins \/ AcceptAborted \/ tryStartSession \/ AcceptLists
           \/ AcceptFails \/ sessionStart \/ StopBegins \/ Stops \/ UNCHANGED vars
    PROVE  FilesKept /\ faults' \in {faults, faults + 1}
  <1> USE DEF FilesKept, peerVars, heardVars, sinkVars, restVars
  <1>1. CASE AcceptBegins \/ AcceptAborted \/ tryStartSession \/ AcceptLists
    BY <1>1 DEF AcceptBegins, AcceptAborted, tryStartSession, AcceptLists
  <1>2. CASE AcceptFails \/ sessionStart \/ StopBegins
    BY <1>2 DEF AcceptFails, sessionStart, StopBegins, UnchangedByMain
  <1>3. CASE Stops
    BY <1>3 DEF Stops, stopAccepting, StopSessions, Wait, InterfaceShutdown, UnchangedByMain
  <1>4. CASE UNCHANGED vars
    BY <1>4 DEF vars
  <1> QED  BY <1>1, <1>2, <1>3, <1>4

\* What is under way comes from what was, and from what readLoop sends.
LEMMA UnderFrom ==
    ASSUME ServerInv, MapsOk, NEW s \in Sessions,
           item'[s] = item[s] \/ item'[s].what # "final",
           \/ writing'[s] \in {writing[s], NoItem}
           \/ chan[s] # <<>> /\ writing'[s] = Head(chan[s]),
           \/ chan'[s] \in {chan[s], <<>>, Append(chan[s], item[s])}
           \/ chan[s] # <<>> /\ chan'[s] = Tail(chan[s])
    PROVE  \A it \in Under(s)' : it \in Under(s) \/ it.what # "final"
  <1> DEFINE q == chan[s]  r == chan'[s]
  <1>1. q \in Seq(Items) /\ item[s] \in Items
    BY Maps
  <1>2. NoItem.what # "final"
    BY DEF NoItem
  <1> HIDE DEF q, r
  <1>3. writing'[s] \in Under(s) \/ writing'[s].what # "final"
    <2>1. CASE writing'[s] \in {writing[s], NoItem}
      BY <1>2, <2>1 DEF Under
    <2>2. CASE q # <<>> /\ writing'[s] = Head(q)
      <3>1. Head(q) = q[1] /\ 1 \in DOMAIN q
        BY <1>1, <2>2, TailIs
      <3> QED  BY <2>2, <3>1 DEF Under, q
    <2> QED  BY <2>1, <2>2 DEF q
  <1>4. ASSUME NEW i \in DOMAIN r PROVE r[i] \in Under(s)
    <2>1. CASE r = q
      BY <2>1 DEF q, Under
    <2>2. CASE r = <<>>
      BY <2>2
    <2>3. CASE r = Append(q, item[s])
      <3>1. /\ DOMAIN q = 1 .. Len(q) /\ DOMAIN r = 1 .. Len(q) + 1 /\ Len(q) \in Nat
            /\ \A j \in 1 .. Len(q) : r[j] = q[j]
            /\ r[Len(q) + 1] = item[s]
        BY <1>1, <2>3, AppendIs
      <3>2. i \in DOMAIN q \/ i = Len(q) + 1
        BY <3>1
      <3> QED  BY <3>1, <3>2 DEF q, Under
    <2>4. CASE q # <<>> /\ r = Tail(q)
      <3>1. /\ DOMAIN q = 1 .. Len(q) /\ Len(q) \in Nat /\ DOMAIN r = 1 .. Len(q) - 1
            /\ \A j \in 1 .. Len(q) - 1 : r[j] = q[j + 1]
        BY <1>1, <2>4, TailIs
      <3>2. i + 1 \in DOMAIN q /\ r[i] = q[i + 1]
        BY <3>1
      <3> QED  BY <3>2 DEF q, Under
    <2> QED  BY <2>1, <2>2, <2>3, <2>4 DEF q, r
  <1> QED  BY <1>3, <1>4 DEF Under, r

\* A step of the readLoop of s.
LEMMA ReadShrinks ==
    ASSUME ServerInv, MapsOk, NEW s \in Sessions,
           ReadHeader(s) \/ ReadBody(s) \/ Drain(s) \/ commandExec(s)
           \/ UploadPrepare(s) \/ UploadChunk(s)
    PROVE  Shrinks(s)
  <1>1. /\ WireKept(s) /\ PeerKept(s)
        /\ item'[s] = item[s] \/ item'[s].what # "final"
    <2>1. CASE ReadHeader(s) \/ ReadBody(s) \/ Drain(s)
      <3>1. /\ WireKept(s) /\ PeerKept(s)
            /\ item'[s] = item[s] \/ \E b \in BOOLEAN : item'[s] = Error(s, b)
        BY <2>1, DoesReadHeader, DoesReadBody, DoesDrain
      <3> QED  BY <3>1, Sent
    <2>2. CASE commandExec(s)
      <3>1. /\ WireKept(s) /\ PeerKept(s)
            /\ \/ item'[s] = Answer(s, "ok", 0) \/ item'[s] = Answer(s, "file", 0)
               \/ \E b \in BOOLEAN : item'[s] = Error(s, b)
        BY <2>2, DoesExec
      <3>2. item'[s].what \in {"ok", "file", "error"}
        BY <3>1, Sent
      <3> QED  BY <3>1, <3>2
    <2>3. CASE UploadPrepare(s)
      <3>1. /\ WireKept(s) /\ PeerKept(s)
            /\ item'[s] = Answer(s, "ready", 0) \/ item'[s] = Error(s, FALSE)
        BY <2>3, DoesPrepare
      <3>2. CASE item'[s] = Answer(s, "ready", 0)
        <4>1. item'[s].what = "ready"
          BY <3>2, Sent
        <4> QED  BY <3>1, <4>1
      <3>3. CASE item'[s] = Error(s, FALSE)
        <4>1. item'[s].what = "error"
          BY <3>3, Sent
        <4> QED  BY <3>1, <4>1
      <3> QED  BY <3>1, <3>2, <3>3
    <2>4. CASE UploadChunk(s)
      BY <2>4, DoesChunk
    <2> QED  BY <2>1, <2>2, <2>3, <2>4
  <1>2. \A it \in Under(s)' : it \in Under(s) \/ it.what # "final"
    BY <1>1, UnderFrom DEF WireKept
  <1>3. Listens(s)' => Listens(s)
    BY <1>1 DEF WireKept, PeerKept, Listens
  <1>4. Comes(s)' => Comes(s)
    <2>1. CASE UploadPrepare(s) \/ UploadChunk(s)
      BY <2>1 DEF UploadPrepare, UploadChunk, Comes
    <2>2. CASE commandExec(s)
      <3>1. rpc[s] = "exec" /\ rpc'[s] = "send" /\ next'[s] = "finish" /\ inbox'[s] = inbox[s]
        BY <2>2, DoesExec
      <3> QED  BY <3>1 DEF Comes, Reads
    <2>3. CASE ReadHeader(s) \/ ReadBody(s) \/ Drain(s)
      <3>1. /\ rpc[s] \in {"header", "body", "drain"}
            /\ inbox[s] # <<>> /\ inbox'[s] = Tail(inbox[s])
            /\ \/ rpc'[s] = "send" /\ next'[s] \in {"done", "loop"}
               \/ rpc'[s] \in {"drain", "body", "exec"}
               \/ rpc'[s] = "meta" /\ Head(inbox[s]) = "upload"
        BY <2>3, DoesReadHeader, DoesReadBody, DoesDrain
      <3>2. Reads(rpc[s], next[s])
        BY <3>1 DEF Reads
      <3>3. inbox[s] \in Seq(Parts)
        BY Maps
      <3>4. /\ Len(inbox[s]) \in Nat /\ Len(inbox[s]) >= 1 /\ Head(inbox[s]) = inbox[s][1]
            /\ Len(Tail(inbox[s])) = Len(inbox[s]) - 1
            /\ \A p \in 1 .. Len(inbox[s]) - 1 : Tail(inbox[s])[p] = inbox[s][p + 1]
        BY <3>1, <3>3, TailIs
      <3>5. CASE rpc'[s] = "meta" /\ Head(inbox[s]) = "upload"
        <4>1. 1 \in 1 .. Len(inbox[s]) /\ inbox[s][1] = "upload"
          BY <3>4, <3>5
        <4> QED  BY <3>2, <4>1 DEF Comes
      <3>6. ASSUME NEW p \in 1 .. Len(inbox'[s]), inbox'[s][p] = "upload" PROVE Comes(s)
        <4>1. p \in 1 .. Len(inbox[s]) - 1 /\ p + 1 \in 1 .. Len(inbox[s])
          BY <3>1, <3>4
        <4>2. inbox[s][p + 1] = "upload"
          BY <3>1, <3>4, <3>6, <4>1
        <4> QED  BY <3>2, <4>1, <4>2 DEF Comes
      <3> QED  BY <3>1, <3>5, <3>6 DEF Comes
    <2> QED  BY <2>1, <2>2, <2>3
  <1> QED  BY <1>2, <1>3, <1>4 DEF Shrinks

\* What readLoop sends is queued or dropped, and a command ends.
LEMMA SendShrinks ==
    ASSUME ServerInv, MapsOk, NEW s \in Sessions,
           SendDone(s) \/ SendFails(s) \/ FinishCommand(s) \/ ReadFails(s)
           \/ PublishProbe(s) \/ PublishFails(s)
    PROVE  Shrinks(s)
  <1>0. NoItem.what # "final"
    BY DEF NoItem
  <1>1. /\ inbox'[s] = inbox[s] /\ writing'[s] = writing[s]
        /\ stopped'[s] = stopped[s] /\ client'[s] = client[s]
    <2>1. PeerKept(s) /\ inbox'[s] = inbox[s]
      BY DoesSend, DoesSendFail, DoesFinish, DoesReadFail, DoesProbe, DoesPublishFail
    <2>2. writing'[s] = writing[s] /\ stopped'[s] = stopped[s]
      <3>1. CASE SendDone(s)
        BY <3>1, DoesSend
      <3>2. CASE ~SendDone(s)
        <4>1. WireKept(s)
          BY <3>2, DoesSendFail, DoesFinish, DoesReadFail, DoesProbe, DoesPublishFail
        <4> QED  BY <4>1 DEF WireKept
      <3> QED  BY <3>1, <3>2
    <2> QED  BY <2>1, <2>2 DEF PeerKept
  <1>2. item'[s] = item[s] \/ item'[s].what # "final"
    <2>1. CASE SendDone(s) \/ SendFails(s)
      BY <1>0, <2>1, DoesSend, DoesSendFail
    <2>2. CASE FinishCommand(s) \/ ReadFails(s) \/ PublishProbe(s)
      BY <2>2, DoesFinish, DoesReadFail, DoesProbe
    <2>3. CASE PublishFails(s)
      <3>1. item'[s] = Error(s, FALSE)
        BY <2>3, DoesPublishFail
      <3> QED  BY <3>1, Sent
    <2> QED  BY <2>1, <2>2, <2>3
  <1>3. chan'[s] \in {chan[s], Append(chan[s], item[s])}
    <2>1. CASE SendDone(s)
      BY <2>1, DoesSend
    <2>2. CASE ~SendDone(s)
      <3>1. WireKept(s)
        BY <2>2, DoesSendFail, DoesFinish, DoesReadFail, DoesProbe, DoesPublishFail
      <3> QED  BY <3>1 DEF WireKept
    <2> QED  BY <2>1, <2>2
  <1>4. \A it \in Under(s)' : it \in Under(s) \/ it.what # "final"
    BY <1>1, <1>2, <1>3, UnderFrom
  <1>5. Comes(s)' => Comes(s)
    <2>1. CASE PublishProbe(s) \/ PublishFails(s)
      BY <2>1 DEF PublishProbe, PublishFails, Comes
    <2>2. CASE SendDone(s)
      <3>1. rpc[s] = "send" /\ rpc'[s] = IF next[s] = "loop" THEN "header" ELSE next[s]
        BY <2>2, DoesSend
      <3>2. next[s] \in {"done", "finish", "loop", "chunk", "probe"}
        BY <3>1 DEF ServerInv, LoopsOk
      <3> QED  BY <1>1, <3>1, <3>2 DEF Comes, Reads
    <2>3. CASE SendFails(s)
      <3>1. rpc[s] = "send" /\ (rpc'[s] = "done" \/ (rpc'[s] = "finish" /\ next[s] = "finish"))
        BY <2>3, DoesSendFail
      <3> QED  BY <1>1, <3>1 DEF Comes, Reads
    <2>4. CASE FinishCommand(s) \/ ReadFails(s)
      <3>1. rpc'[s] = "done" \/ (rpc[s] = "finish" /\ rpc'[s] = "header")
        BY <2>4, DoesFinish, DoesReadFail
      <3> QED  BY <1>1, <3>1 DEF Comes, Reads
    <2> QED  BY <2>1, <2>2, <2>3, <2>4
  <1> QED  BY <1>1, <1>4, <1>5 DEF Shrinks, Listens

\* A session of which nothing changes.
LEMMA KeptShrinks ==
    ASSUME NEW t \in Sessions, Kept(t)
    PROVE  Shrinks(t)
  <1> USE DEF Kept, LoopKept, WireKept, PeerKept
  <1>1. Under(t)' = Under(t)
    BY DEF Under
  <1>2. Comes(t)' <=> Comes(t)
    BY DEF Comes, Reads
  <1>3. Listens(t)' <=> Listens(t)
    BY DEF Listens
  <1> QED  BY <1>1, <1>2, <1>3 DEF Shrinks

\* A stop, or a reply that is written.
LEMMA StopShrinks ==
    ASSUME ServerInv, MapsOk, NEW s \in Sessions, Still(s) \/ (Cut(s) /\ stopped'[s]),
           client'[s] = client[s], item'[s] = item[s], next'[s] = next[s],
           rpc'[s] = rpc[s] \/ rpc'[s] = "over", writing'[s] \in {writing[s], NoItem}
    PROVE  Shrinks(s)
  <1>1. chan'[s] \in {chan[s], <<>>}
    BY DEF Still, Cut
  <1>2. \A it \in Under(s)' : it \in Under(s) \/ it.what # "final"
    BY <1>1, UnderFrom
  <1>3. Listens(s)' => Listens(s)
    BY DEF Listens, Still
  <1>4. /\ Len(inbox'[s]) \in Nat /\ Len(inbox[s]) \in Nat
        /\ Len(inbox'[s]) <= Len(inbox[s])
        /\ \A p \in 1 .. Len(inbox'[s]) : inbox'[s][p] = inbox[s][p]
    <2>1. inbox[s] \in Seq(Parts)
      BY Maps
    <2> QED  BY <2>1 DEF Still, Cut
  <1>5. \A p \in 1 .. Len(inbox'[s]) : p \in 1 .. Len(inbox[s])
    BY <1>4
  <1>6. Comes(s)' => Comes(s)
    <2>1. CASE rpc'[s] = "over"
      BY <2>1 DEF Comes, Reads
    <2>2. CASE rpc'[s] = rpc[s]
      BY <1>4, <1>5, <2>2 DEF Comes
    <2> QED  BY <2>1, <2>2
  <1> QED  BY <1>2, <1>3, <1>6 DEF Shrinks

\* Step by step.
LEMMA EndShrinks ==
    ASSUME ServerInv, MapsOk, NEW s \in Sessions,
           ReadEnds(s) \/ WriteDone(s) \/ WriteFails(s) \/ WriteEnds(s) \/ StopPosted(s)
    PROVE  Shrinks(s)
  <1>1. CASE ReadEnds(s)
    <2>1. /\ Still(s) \/ (Cut(s) /\ stopped'[s])
          /\ client'[s] = client[s] /\ item'[s] = item[s] /\ next'[s] = next[s]
          /\ rpc'[s] = "over" /\ writing'[s] = writing[s]
      BY <1>1, DoesReadEnd DEF RestKept
    <2> QED  BY <2>1, StopShrinks
  <1>2. CASE WriteFails(s) \/ WriteEnds(s) \/ StopPosted(s)
    <2>1. LoopKept(s) /\ RestKept(s) /\ stopped'[s] /\ Cut(s)
          /\ writing'[s] \in {writing[s], NoItem}
      BY <1>2, DoesStop
    <2>2. /\ client'[s] = client[s] /\ item'[s] = item[s] /\ next'[s] = next[s]
          /\ rpc'[s] = rpc[s]
      BY <2>1 DEF LoopKept, RestKept
    <2> QED  BY <2>1, <2>2, StopShrinks
  <1>3. CASE WriteDone(s)
    <2>1. /\ LoopKept(s) /\ client'[s] = client[s] /\ writing'[s] = NoItem
          /\ \/ stopped'[s] /\ Cut(s)
             \/ /\ stopped'[s] = stopped[s] /\ chan'[s] = chan[s] /\ inbox'[s] = inbox[s]
      BY <1>3, DoesWrite
    <2>2. item'[s] = item[s] /\ next'[s] = next[s] /\ rpc'[s] = rpc[s]
      BY <2>1 DEF LoopKept
    <2>3. CASE stopped'[s] /\ Cut(s)
      BY <2>1, <2>2, <2>3, StopShrinks
    <2>4. CASE stopped'[s] = stopped[s] /\ chan'[s] = chan[s] /\ inbox'[s] = inbox[s]
      <3>1. \A it \in Under(s)' : it \in Under(s) \/ it.what # "final"
        BY <2>1, <2>2, <2>4, UnderFrom
      <3>2. Comes(s)' <=> Comes(s)
        BY <2>2, <2>4 DEF Comes
      <3>3. Listens(s)' <=> Listens(s)
        BY <2>1, <2>4 DEF Listens
      <3> QED  BY <3>1, <3>2, <3>3 DEF Shrinks
    <2> QED  BY <2>1, <2>3, <2>4
  <1> QED  BY <1>1, <1>2, <1>3

\* A stream to which no request for an upload is added.
LEMMA AddsNone ==
    ASSUME NEW b \in Seq(Parts), NEW c \in Seq(Parts),
           \A i \in 1 .. Len(c) : c[i] # "upload",
           NEW p \in 1 .. Len(b \o c), (b \o c)[p] = "upload"
    PROVE  p \in 1 .. Len(b) /\ b[p] = "upload"
  <1>1. /\ Len(b) \in Nat /\ Len(c) \in Nat /\ Len(b \o c) = Len(b) + Len(c)
        /\ \A i \in 1 .. Len(b) : (b \o c)[i] = b[i]
        /\ \A i \in 1 .. Len(c) : (b \o c)[Len(b) + i] = c[i]
    BY ConcatIs
  <1>2. CASE p > Len(b)
    <2>1. p - Len(b) \in 1 .. Len(c) /\ Len(b) + (p - Len(b)) = p
      BY <1>1, <1>2
    <2> QED  BY <1>1, <2>1
  <1>3. CASE ~(p > Len(b))
    <2>1. p \in 1 .. Len(b)
      BY <1>1, <1>3
    <2> QED  BY <1>1, <2>1
  <1> QED  BY <1>2, <1>3

\* writeLoop takes a reply; the client sends a file, or stalls.
LEMMA QuietShrinks ==
    ASSUME ServerInv, MapsOk, NEW s \in Sessions,
           WriteReceive(s) \/ ClientStreams(s) \/ ClientStalls(s)
    PROVE  Shrinks(s)
  <1>1. LoopKept(s) /\ item'[s] = item[s] /\ rpc'[s] = rpc[s] /\ next'[s] = next[s]
    <2>1. LoopKept(s)
      BY DoesReceive, DoesStream, DoesStall
    <2> QED  BY <2>1 DEF LoopKept
  <1>2. \A it \in Under(s)' : it \in Under(s) \/ it.what # "final"
    <2>1. CASE WriteReceive(s)
      <3>1. \/ writing'[s] = NoItem /\ chan'[s] = chan[s]
            \/ chan[s] # <<>> /\ chan'[s] = Tail(chan[s]) /\ writing'[s] = Head(chan[s])
        BY <2>1, DoesReceive
      <3>2. CASE writing'[s] = NoItem /\ chan'[s] = chan[s]
        BY <1>1, <3>2, UnderFrom
      <3>3. CASE chan[s] # <<>> /\ chan'[s] = Tail(chan[s]) /\ writing'[s] = Head(chan[s])
        BY <1>1, <3>3, UnderFrom
      <3> QED  BY <3>1, <3>2, <3>3
    <2>2. CASE ClientStreams(s) \/ ClientStalls(s)
      <3>1. WireKept(s)
        BY <2>2, DoesStream, DoesStall
      <3>2. writing'[s] = writing[s] /\ chan'[s] = chan[s]
        BY <3>1 DEF WireKept
      <3> QED  BY <1>1, <3>2, UnderFrom
    <2> QED  BY <2>1, <2>2
  <1>3. Listens(s)' => Listens(s)
    <2>1. CASE WriteReceive(s)
      <3>1. PeerKept(s) /\ stopped'[s] = stopped[s]
        BY <2>1, DoesReceive
      <3> QED  BY <3>1 DEF PeerKept, Listens
    <2>2. CASE ClientStreams(s) \/ ClientStalls(s)
      <3>1. client[s] \in {"up", "stalled"} /\ ~stopped[s]
        BY <2>2, DoesStream, DoesStall
      <3> QED  BY <3>1 DEF Listens
    <2> QED  BY <2>1, <2>2
  <1>4. Comes(s)' => Comes(s)
    <2>1. CASE WriteReceive(s) \/ ClientStalls(s)
      <3>1. inbox'[s] = inbox[s]
        BY <2>1, DoesReceive, DoesStall
      <3> QED  BY <1>1, <3>1 DEF Comes
    <2>2. CASE ClientStreams(s)
      <3> DEFINE b == inbox[s]  c == [i \in 1 .. owes[s] |-> "chunk"]
      <3>1. b \in Seq(Parts) /\ c \in Seq(Parts) /\ Len(c) = owes[s] /\ owes[s] \in Nat
        <4>1. b \in Seq(Parts) /\ owes[s] \in Nat
          BY Maps
        <4> QED  BY <4>1 DEF Parts
      <3>2. inbox'[s] = b \o c
        BY <2>2, DoesStream
      <3>3. \A i \in 1 .. Len(c) : c[i] = "chunk"
        BY <3>1
      <3> HIDE DEF b, c
      <3>4. \A p \in 1 .. Len(b \o c) :
               (b \o c)[p] = "upload" => p \in 1 .. Len(b) /\ b[p] = "upload"
        BY <3>1, <3>3, AddsNone
      <3> QED  BY <1>1, <3>2, <3>4 DEF Comes, b
    <2> QED  BY <2>1, <2>2
  <1> QED  BY <1>2, <1>3, <1>4 DEF Shrinks

\* The accept handler starts a session, or gives it up.
LEMMA BornShrinks ==
    ASSUME ServerInv, MapsOk, NEW s \in Sessions, s = born, FreshOk(s),
           sessionStart \/ AcceptFails
    PROVE  Shrinks(s)
  <1>1. /\ rpc[s] = "none" /\ rpc'[s] \in {"header", "done", "over"}
        /\ next'[s] = next[s] /\ item'[s] = item[s] /\ writing'[s] = writing[s]
        /\ chan'[s] = chan[s] /\ inbox'[s] = inbox[s]
        /\ stopped'[s] = stopped[s] \/ stopped'[s]
    <2>1. CASE sessionStart
      BY <2>1, DoesStart
    <2>2. CASE AcceptFails
      BY <2>2, DoesFail
    <2> QED  BY <2>1, <2>2
  <1>2. inbox[s] = <<>> /\ client[s] = "none"
    BY <1>1 DEF FreshOk
  <1>3. Under(s)' = Under(s)
    BY <1>1 DEF Under
  <1>4. ~Comes(s)'
    BY <1>1, <1>2 DEF Comes
  <1>5. Listens(s)' => Listens(s)
    BY <1>1, <1>2 DEF Listens
  <1> QED  BY <1>3, <1>4, <1>5 DEF Shrinks

-----------------------------------------------------------------------------
(* What each step does to the files.                                       *)

\* A step that brings up no file and makes no upload.
LEMMA QuietDisk ==
    ASSUME ServerInv, DiskInv, UNCHANGED <<disk, requests, upload>>,
           faults' \in {faults, faults + 1},
           \A f \in told' : f \in told \/ (f[1] \in Used /\ disk[f[1]].of = f[2]),
           \A t \in Sessions : Shrinks(t) /\ TriedOk(t)'
    PROVE  DiskInv'
  <1>1. Used' = Used /\ Ofs' = Ofs
    BY DEF Used, Ofs
  <1>2. FilesOk'
    <2>1. Cardinality(Used) <= Cardinality(Ofs) + faults'
      <3>1. /\ Cardinality(Used) <= Cardinality(Ofs) + faults
            /\ Cardinality(Used) \in Nat /\ Cardinality(Ofs) \in Nat
        BY UsedFinite DEF DiskInv, FilesOk
      <3>2. faults \in Nat
        BY SessionsAssumption DEF ServerInv, FlagsOk
      <3> QED  BY <3>1, <3>2
    <2>2. \A f \in told' : f[1] \in Used /\ disk[f[1]].of = f[2]
      BY DEF DiskInv, FilesOk
    <2> QED  BY <1>1, <2>1, <2>2 DEF DiskInv, FilesOk
  <1>3. NumbersOk'
    BY DEF DiskInv, NumbersOk
  <1>4. ASSUME NEW t \in Sessions PROVE DiskOk(t)'
    <2>1. Grows(t)
      BY DEF Grows
    <2> QED  BY <2>1, DiskGrows DEF DiskInv
  <1> QED  BY <1>2, <1>3, <1>4 DEF DiskInv

\* The index of publish in a step that leaves it, or begins again.
LEMMA SameTried ==
    ASSUME DiskInv, UNCHANGED disk, NEW s \in Sessions, tried'[s] \in {tried[s], 0}
    PROVE  TriedOk(s)'
  BY TriedGrows DEF DiskInv, DiskOk

\* A step of a session that leaves the files alone.
LEMMA UntouchedDisk ==
    ASSUME ServerInv, WireInv, DiskInv, NEW s \in Sessions,
           \/ ReadHeader(s) \/ ReadBody(s) \/ Drain(s) \/ commandExec(s) \/ SendDone(s)
           \/ SendFails(s) \/ FinishCommand(s) \/ ReadFails(s) \/ ReadEnds(s)
           \/ UploadChunk(s) \/ PublishFails(s) \/ WriteReceive(s) \/ WriteFails(s)
           \/ WriteEnds(s) \/ StopPosted(s) \/ ClientStreams(s) \/ ClientStalls(s)
    PROVE  DiskInv'
  <1>1. MapsOk
    BY DEF WireInv
  <1>2. FilesKept /\ faults' \in {faults, faults + 1}
    BY Untouched
  <1>3. Shrinks(s)
    <2>1. CASE ReadHeader(s) \/ ReadBody(s) \/ Drain(s) \/ commandExec(s) \/ UploadChunk(s)
      BY <1>1, <2>1, ReadShrinks
    <2>2. CASE SendDone(s) \/ SendFails(s) \/ FinishCommand(s) \/ ReadFails(s) \/ PublishFails(s)
      BY <1>1, <2>2, SendShrinks
    <2>3. CASE ReadEnds(s) \/ WriteFails(s) \/ WriteEnds(s) \/ StopPosted(s)
      BY <1>1, <2>3, EndShrinks
    <2>4. CASE WriteReceive(s) \/ ClientStreams(s) \/ ClientStalls(s)
      BY <1>1, <2>4, QuietShrinks
    <2> QED  BY <2>1, <2>2, <2>3, <2>4
  <1>4. Others(s)
    BY <1>1, StepShape DEF ReadSide, WriteSide, Peer
  <1>5. \A t \in Sessions : Shrinks(t)
    BY <1>3, <1>4, KeptShrinks DEF Others
  <1>6. \A t \in Sessions : TriedOk(t)'
    BY <1>2, SameTried DEF FilesKept
  <1>7. UNCHANGED <<disk, requests, upload>> /\ \A f \in told' : f \in told
    BY <1>2 DEF FilesKept
  <1> QED  BY <1>2, <1>5, <1>6, <1>7, QuietDisk

\* A step of no session, or of one that is not started yet.
LEMMA AloneDisk ==
    ASSUME ServerInv, WireInv, DiskInv,
           \/ AcceptBegins \/ AcceptAborted \/ tryStartSession \/ AcceptLists
           \/ AcceptFails \/ sessionStart \/ StopBegins \/ Stops \/ UNCHANGED vars
    PROVE  DiskInv'
  <1>1. MapsOk /\ \A t \in Sessions : FreshOk(t)
    BY DEF WireInv, PartsOk
  <1>2. FilesKept /\ faults' \in {faults, faults + 1}
    BY UntouchedElsewhere
  <1>3. ASSUME NEW t \in Sessions PROVE Shrinks(t)
    <2>1. CASE AcceptFails \/ sessionStart
      <3>1. t # born => Kept(t)
        <4>1. Others(born)
          BY <1>1, <2>1, DoesFail, DoesStart
        <4> QED  BY <4>1 DEF Others
      <3>2. CASE t = born
        BY <1>1, <2>1, <3>2, BornShrinks
      <3> QED  BY <3>1, <3>2, KeptShrinks
    <2>2. CASE ~(AcceptFails \/ sessionStart)
      <3>1. Kept(t)
        BY <2>2, DoesNothing
      <3> QED  BY <3>1, KeptShrinks
    <2> QED  BY <2>1, <2>2
  <1>4. \A t \in Sessions : TriedOk(t)'
    BY <1>2, SameTried DEF FilesKept
  <1>5. UNCHANGED <<disk, requests, upload>> /\ \A f \in told' : f \in told
    BY <1>2 DEF FilesKept
  <1> QED  BY <1>2, <1>3, <1>4, <1>5, QuietDisk

\* A staging file is made: publish will begin with the first name.
LEMMA PrepareDisk ==
    ASSUME ServerInv, WireInv, DiskInv, NEW s \in Sessions, UploadPrepare(s)
    PROVE  DiskInv'
  <1>1. MapsOk
    BY DEF WireInv
  <1>2. /\ UNCHANGED <<disk, requests, upload, told>>
        /\ faults' \in {faults, faults + 1}
        /\ tried' \in {tried, [tried EXCEPT ![s] = 0]}
    BY DEF UploadPrepare, Take, restVars, heardVars, sinkVars
  <1>3. tried \in [Sessions -> Nat]
    BY DEF ServerInv, LoopsOk
  <1>4. \A t \in Sessions : TriedOk(t)'
    BY <1>2, <1>3, SameTried
  <1>5. Shrinks(s) /\ Others(s)
    BY <1>1, ReadShrinks, DoesPrepare
  <1>6. \A t \in Sessions : Shrinks(t)
    BY <1>5, KeptShrinks DEF Others
  <1> QED  BY <1>2, <1>4, <1>6, QuietDisk

\* publish goes on to the next name, or has found one.
LEMMA ProbeDisk ==
    ASSUME ServerInv, WireInv, DiskInv, NEW s \in Sessions,
           PublishProbe(s) \/ (PublishMove(s) /\ disk[tried[s]] # Free)
    PROVE  DiskInv'
  <1>1. MapsOk
    BY DEF WireInv
  <1>2. /\ UNCHANGED <<disk, requests, upload, told, faults>>
        /\ \/ UNCHANGED tried
           \/ disk[tried[s]] # Free /\ tried' = [tried EXCEPT ![s] = @ + 1]
        /\ rpc[s] \in {"probe", "move"}
    BY DEF PublishProbe, PublishMove, peerVars, heardVars
  <1>3. tried \in [Sessions -> Nat]
    BY DEF ServerInv, LoopsOk
  <1>4. ASSUME NEW t \in Sessions PROVE TriedOk(t)'
    <2>1. CASE tried'[t] = tried[t]
      BY <1>2, <2>1, SameTried
    <2>2. CASE tried'[t] # tried[t]
      <3>1. t = s /\ disk[tried[s]] # Free /\ tried'[s] = tried[s] + 1
        BY <1>2, <1>3, <2>2
      <3>2. Comes(s)
        BY <1>2 DEF Comes
      <3>3. /\ tried[s] + 1 \in Names
            /\ \A m \in 0 .. (tried[s] + 1) - 1 : disk[m] # Free
        BY <3>1, <3>2, Room DEF DiskInv, DiskOk
      <3> QED  BY <1>2, <3>1, <3>3 DEF TriedOk
    <2> QED  BY <2>1, <2>2
  <1>5. Others(s) /\ Shrinks(s)
    <2>1. CASE PublishProbe(s)
      BY <1>1, <2>1, DoesProbe, SendShrinks
    <2>2. CASE PublishMove(s) /\ disk[tried[s]] # Free
      <3>1. Others(s) /\ WireKept(s) /\ PeerKept(s)
        BY <1>1, <2>2, DoesMove
      <3>2. item'[s] = item[s]
        BY <2>2 DEF PublishMove, Goto
      <3>3. Under(s)' = Under(s)
        BY <3>1, <3>2 DEF Under, WireKept
      <3>4. Comes(s)
        BY <1>2 DEF Comes
      <3>5. Listens(s)' <=> Listens(s)
        BY <3>1 DEF Listens, WireKept, PeerKept
      <3> QED  BY <3>1, <3>3, <3>4, <3>5 DEF Shrinks
    <2> QED  BY <2>1, <2>2
  <1>6. \A t \in Sessions : Shrinks(t)
    BY <1>5, KeptShrinks DEF Others
  <1> QED  BY <1>2, <1>4, <1>6, QuietDisk

\* The client is told a name.
LEMMA WriteDisk ==
    ASSUME ServerInv, WireInv, DiskInv, NEW s \in Sessions, WriteDone(s)
    PROVE  DiskInv'
  <1>1. MapsOk
    BY DEF WireInv
  <1>2. /\ UNCHANGED <<disk, requests, upload, faults, tried>>
        /\ \/ told' = told
           \/ /\ client[s] # "gone" /\ writing[s].what = "final"
              /\ told' = told \cup {<<writing[s].name, upload[s].of>>}
        /\ ~stopped[s]
    <2>1. /\ UNCHANGED <<disk, requests, upload, faults, tried>>
          /\ ~stopped[s] /\ Heard(s, writing[s])
      BY DEF WriteDone, sinkVars
    <2>2. \/ told' = told
          \/ /\ client[s] # "gone" /\ writing[s].what = "final"
             /\ told' = told \cup {<<writing[s].name, upload[s].of>>}
      BY <2>1 DEF Heard, heardVars
    <2> QED  BY <2>1, <2>2
  <1>3. writing[s].what = "final" /\ client[s] # "gone" =>
            writing[s].name \in Used /\ disk[writing[s].name].of = upload[s].of
    <2>1. writing[s] \in Under(s)
      BY DEF Under
    <2>2. FinalOk(s, writing[s])
      BY <2>1 DEF DiskInv, DiskOk, FinalsOk
    <2> QED  BY <1>2, <2>2 DEF FinalOk, Listens
  <1>4. \A f \in told' : f \in told \/ (f[1] \in Used /\ disk[f[1]].of = f[2])
    BY <1>2, <1>3
  <1>5. \A t \in Sessions : TriedOk(t)'
    BY <1>2, SameTried
  <1>6. Shrinks(s) /\ Others(s)
    BY <1>1, EndShrinks, DoesWrite
  <1>7. \A t \in Sessions : Shrinks(t)
    BY <1>6, KeptShrinks DEF Others
  <1> QED  BY <1>2, <1>4, <1>5, <1>7, QuietDisk

\* A client that may ask has no final reply under way.
LEMMA NoFinal ==
    ASSUME ServerInv, MapsOk, NEW s \in Sessions, PartsOk(s), SessionOk(s), Listens(s),
           ~AsksUpload(asked[s]), NEW it \in Under(s)
    PROVE  it.what # "final"
  <1> DEFINE w == writing[s]  q == chan[s]  a == asked[s]
  <1>1. /\ BooksOk(s) /\ ItemOk(s)
        /\ w \in Items /\ q \in Seq(Items) /\ a \in Seq(Kinds) /\ Len(a) \in Nat
        /\ UploadLast(a) /\ Matched(w, q, a)
    <2>1. BooksOk(s) /\ ItemOk(s)
      BY DEF SessionOk, PartsOk
    <2> QED  BY <2>1, Maps DEF BooksOk
  <1>2. \A n \in Nat : n >= 1 /\ n <= Len(a) => a[n] # "upload"
    BY <1>1, UploadAt
  <1>3. SUFFICES ASSUME it.what = "final" PROVE FALSE
    OBVIOUS
  <1>4. CASE it = item[s]
    <2>1. it.cmd = "upload"
      BY <1>1, <1>3, <1>4 DEF ItemOk, GoodItem
    <2>2. rpc[s] = "send"
      BY <1>3, <1>4 DEF ServerInv, PipesOk, NoItem
    <2>3. cmd[s] = "upload" /\ At(rpc[s])
      BY <1>1, <1>4, <2>1, <2>2 DEF ItemOk, At
    <2> QED  BY <1>1, <2>3, UploadUnder
  <1>5. CASE it = w
    <2>1. it.cmd = "upload" /\ IsReply(it)
      BY <1>1, <1>3, <1>5 DEF ItemOk, GoodItem, IsReply
    <2>2. Len(a) >= 1 /\ w.cmd \in {"none", a[1]}
      BY <1>1, <1>5, <2>1 DEF Matched
    <2> QED  BY <1>1, <1>2, <1>5, <2>1, <2>2
  <1>6. ASSUME NEW i \in DOMAIN q, it = q[i] PROVE FALSE
    <2>1. it.cmd = "upload" /\ IsReply(it)
      BY <1>1, <1>3, <1>6 DEF ItemOk, GoodItem, IsReply
    <2>2. Place(w, q, i) <= Len(a) /\ q[i].cmd \in {"none", a[Place(w, q, i)]}
      BY <1>1, <1>6, <2>1 DEF Matched
    <2>3. Place(w, q, i) \in Nat /\ Place(w, q, i) >= 1
      <3>1. DOMAIN q = 1 .. Len(q) /\ Len(q) \in Nat
        BY <1>1
      <3>2. i \in 1 .. Len(q) /\ i \in 1 .. Len(q) + 1
        BY <3>1
      <3> QED  BY <1>1, <1>6, <2>1, <3>2, Places
    <2> HIDE DEF q, w, a
    <2> QED  BY <1>2, <1>6, <2>1, <2>2, <2>3
  <1> QED  BY <1>4, <1>5, <1>6 DEF Under

\* A request, or the beginning of one, brings no file and no upload of another
\* session.
LEMMA RequestDisk ==
    ASSUME ServerInv, WireInv, DiskInv, NEW s \in Sessions, NEW k \in Kinds,
           NEW cut \in {1, Len(Frame(k))}, Request(s, k, cut), Listens(s), Others(s),
           LoopKept(s), WireKept(s), UNCHANGED <<disk, told, tried, faults>>
    PROVE  DiskInv'
  <1> USE SessionsAssumption
  <1>1. MapsOk /\ PartsOk(s) /\ SessionOk(s)
    BY DEF WireInv
  <1>2. /\ requests \in Nat /\ requests' = requests + 1 /\ requests' \in 0 .. MaxRequests
        /\ upload \in [Sessions -> [of : Nat, size : Nat]]
        /\ \A t \in Sessions \ {s} : upload'[t] = upload[t]
        /\ IF k = "upload" THEN upload'[s].of = requests + 1 ELSE upload'[s] = upload[s]
    <2>1. requests \in Nat /\ upload \in [Sessions -> [of : Nat, size : Nat]]
      BY DEF ServerInv, StreamsOk
    <2>2. requests < MaxRequests /\ requests' = requests + 1
      BY DEF Request
    <2>3. /\ \A t \in Sessions \ {s} : upload'[t] = upload[t]
          /\ IF k = "upload" THEN upload'[s].of = requests + 1 ELSE upload'[s] = upload[s]
      BY <2>1 DEF Request
    <2> QED  BY <2>1, <2>2, <2>3
  <1>3. Used' = Used /\ Ofs' = Ofs
    BY DEF Used, Ofs
  <1>4. \A n \in Used : disk[n].of = Foreign.of \/ disk[n].of \in 1 .. requests
    BY DEF DiskInv, FilesOk
  <1>5. FilesOk'
    <2>1. \A n \in Used : disk[n].of = Foreign.of \/ disk[n].of \in 1 .. requests'
      BY <1>2, <1>4
    <2> QED  BY <1>2, <1>3, <2>1 DEF DiskInv, FilesOk
  <1>6. NumbersOk'
    <2>1. \A t \in Sessions :
             /\ upload[t].of \in 0 .. requests
             /\ \A u \in Sessions \ {t} : upload[t].of = 0 \/ upload[t].of # upload[u].of
      BY DEF DiskInv, NumbersOk
    <2>2. \A t \in Sessions : upload'[t].of = upload[t].of \/ (t = s /\ upload'[t].of = requests + 1)
      BY <1>2
    <2>3. ASSUME NEW t \in Sessions, NEW u \in Sessions \ {t}
          PROVE  upload'[t].of = 0 \/ upload'[t].of # upload'[u].of
      <3>1. upload[t].of \in 0 .. requests /\ upload[u].of \in 0 .. requests
        BY <2>1
      <3>2. upload[t].of # requests + 1 /\ upload[u].of # requests + 1
        BY <1>2, <3>1
      <3>3. ~(t = s /\ u = s)
        BY <2>3
      <3> QED  BY <2>1, <2>2, <3>2, <3>3
    <2>4. \A t \in Sessions : upload'[t].of \in 0 .. requests'
      BY <1>2, <2>1, <2>2
    <2> QED  BY <2>3, <2>4 DEF NumbersOk
  <1>7. \A t \in Sessions : TriedOk(t)'
    BY SameTried
  <1>8. ASSUME NEW t \in Sessions \ {s} PROVE DiskOk(t)'
    <2>1. Grows(t) /\ Kept(t)
      BY DEF Grows, Others
    <2>2. DiskOk(t) /\ upload'[t] = upload[t] /\ TriedOk(t)'
      BY <1>2, <1>7 DEF DiskInv
    <2> QED  BY <2>1, <2>2, KeptShrinks, DiskGrows
  <1>9. DiskOk(s)'
    <2>1. Under(s)' = Under(s)
      BY DEF LoopKept, WireKept, Under
    <2>2. CASE k = "upload"
      <3>1. ComesOk(s)'
        <4>1. upload'[s].of > 0
          BY <1>2, <2>2
        <4>2. ASSUME NEW n \in Used PROVE disk[n].of # upload'[s].of
          <5>1. disk[n].of = -1 \/ disk[n].of \in 1 .. requests
            BY <1>4 DEF Foreign
          <5> QED  BY <1>2, <2>2, <5>1
        <4> QED  BY <1>3, <4>1, <4>2 DEF ComesOk
      <3>2. ~AsksUpload(asked[s])
        BY <1>1, RequestsAt DEF SessionOk, BooksOk
      <3>3. FinalsOk(s)'
        BY <1>1, <2>1, <3>2, NoFinal DEF FinalsOk, FinalOk
      <3> QED  BY <1>7, <3>1, <3>3 DEF DiskOk
    <2>3. CASE k # "upload"
      <3>1. Comes(s)' => Comes(s)
        <4> DEFINE b == inbox[s]  c == SubSeq(Frame(k), 1, cut)
        <4>1. inbox'[s] = b \o c
          BY <1>1, RequestsAt
        <4>2. b \in Seq(Parts)
          BY <1>1, Maps
        <4>3. c \in Seq(Parts) /\ \A i \in 1 .. Len(c) : c[i] # "upload"
          BY <2>3 DEF Frame, Kinds, Parts
        <4> HIDE DEF b, c
        <4> QED  BY <4>1, <4>2, <4>3, AddsNone DEF LoopKept, Comes, b
      <3>2. Shrinks(s)
        BY <2>1, <3>1 DEF Shrinks
      <3>3. Grows(s)
        BY DEF Grows
      <3> QED  BY <1>2, <1>7, <2>3, <3>2, <3>3, DiskGrows DEF DiskInv
    <2> QED  BY <2>2, <2>3
  <1> QED  BY <1>5, <1>6, <1>8, <1>9 DEF DiskInv

\* The client asks.
LEMMA AskDisk ==
    ASSUME ServerInv, WireInv, DiskInv, NEW s \in Sessions, NEW k \in Kinds,
           ClientAsks(s, k)
    PROVE  DiskInv'
  <1>1. MapsOk
    BY DEF WireInv
  <1>2. /\ Others(s) /\ LoopKept(s) /\ WireKept(s)
        /\ client[s] \in {"up", "stalled"} /\ ~stopped[s]
    BY <1>1, DoesAsk
  <1>3. Request(s, k, Len(Frame(k))) /\ UNCHANGED <<disk, told, tried, faults>>
    BY DEF ClientAsks, heardVars, UnchangedByPeer, sinkVars
  <1> QED  BY <1>2, <1>3, RequestDisk DEF Listens

\* It goes away, perhaps in the middle of a request.
LEMMA CloseDisk ==
    ASSUME ServerInv, WireInv, DiskInv, NEW s \in Sessions, ClientCloses(s)
    PROVE  DiskInv'
  <1>1. MapsOk
    BY DEF WireInv
  <1>2. /\ Others(s) /\ LoopKept(s) /\ WireKept(s)
        /\ client[s] \in {"up", "stalled"} /\ ~stopped[s] /\ client'[s] = "gone"
    BY <1>1, DoesClose
  <1>3. UNCHANGED <<disk, told, tried, faults>>
    BY DEF ClientCloses, heardVars, UnchangedByPeer, sinkVars
  <1>4. CASE \E k \in Kinds : Request(s, k, 1)
    <2>1. PICK k \in Kinds : Request(s, k, 1)
      BY <1>4
    <2> QED  BY <1>2, <1>3, <2>1, RequestDisk DEF Listens
  <1>5. CASE /\ UNCHANGED <<asked, upload, requests>>
             /\ inbox'[s] = inbox[s] \/ inbox'[s] = Append(inbox[s], "chunk")
    <2>1. Under(s)' = Under(s)
      BY <1>2 DEF LoopKept, WireKept, Under
    <2>2. Comes(s)' => Comes(s)
      <3>1. CASE inbox'[s] = inbox[s]
        BY <1>2, <3>1 DEF LoopKept, Comes
      <3>2. CASE inbox'[s] = Append(inbox[s], "chunk")
        <4> DEFINE b == inbox[s]
        <4>1. b \in Seq(Parts)
          BY <1>1, Maps
        <4> HIDE DEF b
        <4>2. /\ Len(b) \in Nat /\ Len(Append(b, "chunk")) = Len(b) + 1
              /\ \A p \in 1 .. Len(b) : Append(b, "chunk")[p] = b[p]
              /\ Append(b, "chunk")[Len(b) + 1] = "chunk"
          BY <4>1
        <4>3. ASSUME NEW p \in 1 .. Len(Append(b, "chunk")), Append(b, "chunk")[p] = "upload"
              PROVE  p \in 1 .. Len(b) /\ b[p] = "upload"
          <5>1. p # Len(b) + 1
            BY <4>2, <4>3
          <5>2. p \in 1 .. Len(b)
            BY <4>2, <5>1
          <5> QED  BY <4>2, <4>3, <5>2
        <4> QED  BY <1>2, <3>2, <4>3 DEF LoopKept, Comes, b
      <3> QED  BY <1>5, <3>1, <3>2
    <2>3. Shrinks(s)
      BY <1>2, <2>1, <2>2 DEF Shrinks, Listens
    <2>4. \A t \in Sessions : Shrinks(t)
      BY <1>2, <2>3, KeptShrinks DEF Others
    <2>5. \A t \in Sessions : TriedOk(t)'
      BY <1>3, SameTried
    <2> QED  BY <1>3, <1>5, <2>4, <2>5, QuietDisk
  <1>6. \/ UNCHANGED <<inbox, asked, upload, requests>>
        \/ \E k \in Kinds : Request(s, k, 1)
        \/ /\ inbox' = [inbox EXCEPT ![s] = Append(@, "chunk")]
           /\ UNCHANGED <<asked, upload, requests>>
    BY DEF ClientCloses
  <1>7. inbox \in [Sessions -> Seq(Parts)]
    BY <1>1, Maps
  <1> QED  BY <1>4, <1>5, <1>6, <1>7

\* The move: the upload is there, whole, and no longer to come.
LEMMA MoveDisk ==
    ASSUME ServerInv, WireInv, DiskInv, NEW s \in Sessions, PublishMove(s),
           disk[tried[s]] = Free
    PROVE  DiskInv'
  <1> DEFINE n == tried[s]
             r == [of |-> upload[s].of, chunks |-> staging[s], size |-> upload[s].size]
  <1>1. /\ MapsOk /\ SinkOk(s) /\ FrameOk(s)
        /\ FilesOk /\ NumbersOk /\ \A t \in Sessions : DiskOk(t)
    BY DEF WireInv, SessionOk, DiskInv
  <1>2. /\ rpc[s] = "move" /\ disk' = [disk EXCEPT ![n] = r]
        /\ Send(s, Answer(s, "final", n), "finish")
        /\ UNCHANGED <<requests, upload, told, faults, tried>>
    BY DEF PublishMove, peerVars, heardVars
  <1>3. Others(s) /\ WireKept(s) /\ PeerKept(s) /\ inbox'[s] = inbox[s]
    BY <1>1, DoesMove
  <1>4. rpc'[s] = "send" /\ next'[s] = "finish" /\ item'[s] = Answer(s, "final", n)
    BY <1>1, <1>2, SendsAt
  <1>5. Comes(s) /\ n \in Names /\ staging[s] = upload[s].size
    BY <1>1, <1>2 DEF Comes, DiskOk, TriedOk, SinkOk
  <1>6. upload[s].of \in 1 .. requests /\ \A m \in Used : disk[m].of # upload[s].of
    <2>1. requests \in Nat /\ upload[s].of \in 0 .. requests /\ upload[s].of > 0
      BY <1>1, <1>5 DEF ServerInv, StreamsOk, NumbersOk, DiskOk, ComesOk
    <2> QED  BY <1>1, <1>5, <2>1 DEF DiskOk, ComesOk
  <1>7. upload \in [Sessions -> [of : Nat, size : Nat]] /\ requests \in Nat /\ faults \in Nat
    BY SessionsAssumption DEF ServerInv, StreamsOk, FlagsOk
  <1>8. /\ r \in [of : Int, chunks : Int, size : Nat] /\ r.chunks = r.size
        /\ r.of = upload[s].of /\ r.of # Foreign.of /\ r # Free
    <2>1. upload[s] \in [of : Nat, size : Nat]
      BY <1>7
    <2>2. upload[s].of # -1 /\ upload[s].of # 0
      BY <1>6, <1>7
    <2> QED  BY <1>5, <2>1, <2>2 DEF Foreign, Free
  <1> HIDE DEF n, r
  <1>9. FilesOk'
    <2>1. disk[n] = Free
      BY DEF n
    <2>2. faults' = faults + (IF r.of = Foreign.of THEN 1 ELSE 0)
      BY <1>2, <1>7, <1>8
    <2> QED  BY <1>1, <1>2, <1>5, <1>6, <1>7, <1>8, <2>1, <2>2, FileComes
  <1>10. NumbersOk'
    BY <1>1, <1>2 DEF NumbersOk
  <1>11. /\ disk[n] = Free /\ disk'[n] = r
         /\ \A m \in Names \ {n} : disk'[m] = disk[m]
         /\ \A m \in Names : disk[m] # Free => disk'[m] = disk[m]
    BY <1>1, <1>2, <1>5 DEF FilesOk, n
  <1>12. \A t \in Sessions : TriedOk(t)'
    BY <1>1, <1>2, <1>11, TriedGrows DEF DiskOk
  <1>13. ASSUME NEW t \in Sessions \ {s} PROVE DiskOk(t)'
    <2>1. Kept(t)
      BY <1>3 DEF Others
    <2>2. Grows(t)
      <3>1. upload[t].of > 0 => r.of # upload[t].of
        BY <1>1, <1>6, <1>7, <1>8 DEF NumbersOk
      <3> QED  BY <1>8, <1>11, <3>1 DEF Grows
    <2> QED  BY <1>1, <1>2, <1>12, <2>1, <2>2, KeptShrinks, DiskGrows
  <1>14. ~Comes(s)'
    <2>1. inbox[s] \in Seq(Parts)
      BY <1>1, Maps
    <2>2. Framed("move", next[s], inbox[s])
      BY <1>1, <1>2 DEF FrameOk, Reads
    <2>3. Len(inbox[s]) = 0
      BY <2>1, <2>2 DEF Framed, Expected
    <2> QED  BY <1>3, <1>4, <2>3 DEF Comes
  <1>15. Used' = Used \cup {n}
    BY <1>5, <1>8, <1>11 DEF Used
  <1>16. FinalsOk(s)'
    <2> SUFFICES ASSUME NEW it \in Under(s)', it.what = "final"
                 PROVE  /\ it.name \in Used'
                        /\ Listens(s)' => disk'[it.name].of = upload'[s].of
      BY DEF FinalsOk, FinalOk
    <2>1. CASE it = item'[s]
      <3>1. it.name = n
        BY <1>4, <2>1 DEF Answer
      <3> QED  BY <1>2, <1>8, <1>11, <1>15, <3>1
    <2>2. CASE it \in Under(s)
      <3>1. it.name \in Used /\ (Listens(s) => disk[it.name].of = upload[s].of)
        BY <1>1, <2>2 DEF DiskOk, FinalsOk, FinalOk
      <3>2. Listens(s)' <=> Listens(s)
        BY <1>3 DEF Listens, WireKept, PeerKept
      <3>3. disk'[it.name] = disk[it.name]
        BY <1>11, <3>1 DEF Used
      <3> QED  BY <1>2, <1>15, <3>1, <3>2, <3>3
    <2>3. it = item'[s] \/ it \in Under(s)
      BY <1>3 DEF Under, WireKept
    <2> QED  BY <2>1, <2>2, <2>3
  <1>17. DiskOk(s)'
    BY <1>12, <1>14, <1>16 DEF DiskOk, ComesOk
  <1> QED  BY <1>9, <1>10, <1>13, <1>17 DEF DiskInv

\* Another program's file is nobody's upload.
LEMMA OtherDisk ==
    ASSUME ServerInv, WireInv, DiskInv, OtherProgram
    PROVE  DiskInv'
  <1>1. FilesOk /\ NumbersOk /\ \A t \in Sessions : DiskOk(t)
    BY DEF DiskInv
  <1>2. PICK n \in Names : /\ disk[n] = Free /\ disk' = [disk EXCEPT ![n] = Foreign]
                           /\ told' = told \cup {<<n, Foreign.of>>}
    BY DEF OtherProgram
  <1>3. faults' = faults + 1 /\ UNCHANGED <<requests, upload, tried>>
    BY DEF OtherProgram, UnchangedByPeer, sinkVars
  <1>4. faults \in Nat /\ upload \in [Sessions -> [of : Nat, size : Nat]]
    BY SessionsAssumption DEF ServerInv, FlagsOk, StreamsOk
  <1>5. /\ Foreign \in [of : Int, chunks : Int, size : Nat] /\ Foreign # Free
        /\ Foreign.chunks = Foreign.size /\ Foreign.of = -1
    BY DEF Foreign, Free
  <1>6. FilesOk'
    BY <1>1, <1>2, <1>3, <1>4, <1>5, FileComes
  <1>7. NumbersOk'
    BY <1>1, <1>3 DEF NumbersOk
  <1>8. /\ disk'[n] = Foreign /\ \A m \in Names \ {n} : disk'[m] = disk[m]
        /\ \A m \in Names : disk[m] # Free => disk'[m] = disk[m]
    BY <1>1, <1>2 DEF FilesOk
  <1>9. ASSUME NEW t \in Sessions PROVE DiskOk(t)'
    <2>1. TriedOk(t)'
      BY <1>1, <1>3, <1>8, TriedGrows DEF DiskOk
    <2>2. Grows(t)
      <3>1. upload[t].of > 0 => Foreign.of # upload[t].of
        BY <1>5
      <3> QED  BY <1>2, <1>5, <1>8, <3>1 DEF Grows
    <2>3. Kept(t)
      BY DoesNothing
    <2> QED  BY <1>1, <1>3, <2>1, <2>2, <2>3, KeptShrinks, DiskGrows
  <1> QED  BY <1>6, <1>7, <1>9 DEF DiskInv

-----------------------------------------------------------------------------
(* Every step keeps the invariant.                                         *)

\* The three facts of the inductive invariant, next to ServerInv and WireInv.
LEMMA InitDisk == Init => DiskInv
  <1> SUFFICES ASSUME Init PROVE DiskInv
    OBVIOUS
  <1>1. Names = 0 .. MaxRequests + MaxFaults /\ MaxRequests \in Nat /\ MaxFaults \in Nat
    BY SessionsAssumption DEF Names
  <1>2. disk = [n \in Names |-> Free] /\ told = {} /\ requests = 0 /\ faults = 0
    BY DEF Init
  <1>3. Used = {} /\ Ofs = {}
    BY <1>2 DEF Used, Ofs
  <1>4. FilesOk
    <2>1. Cardinality({}) = 0
      BY FS_EmptySet
    <2> QED  BY <1>1, <1>2, <1>3, <2>1 DEF FilesOk, Free
  <1>5. NumbersOk
    BY <1>2 DEF Init, NumbersOk
  <1>6. ASSUME NEW s \in Sessions PROVE DiskOk(s)
    <2>1. /\ rpc[s] = "none" /\ inbox[s] = <<>> /\ item[s] = NoItem
          /\ writing[s] = NoItem /\ chan[s] = <<>> /\ tried[s] = 0
      BY DEF Init
    <2>2. ~Comes(s)
      BY <2>1 DEF Comes
    <2>3. TriedOk(s)
      BY <1>1, <2>1 DEF TriedOk
    <2>4. Under(s) = {NoItem} /\ NoItem.what # "final"
      BY <2>1 DEF Under, NoItem
    <2> QED  BY <2>2, <2>3, <2>4 DEF DiskOk, ComesOk, FinalsOk, FinalOk
  <1> QED  BY <1>4, <1>5, <1>6 DEF DiskInv

LEMMA NextDisk == ServerInv /\ WireInv /\ DiskInv /\ [Next]_vars => DiskInv'
  <1> SUFFICES ASSUME ServerInv, WireInv, DiskInv, [Next]_vars PROVE DiskInv'
    OBVIOUS
  <1>1. CASE Accepts \/ StopBegins \/ Stops \/ UNCHANGED vars
    BY <1>1, AloneDisk DEF Accepts
  <1>2. CASE OtherProgram
    BY <1>2, OtherDisk
  <1>3. ASSUME NEW s \in Sessions, ReadSide(s) PROVE DiskInv'
    <2>1. PublishMove(s) => DiskInv'
      BY MoveDisk, ProbeDisk
    <2>2. UploadPrepare(s) \/ PublishProbe(s) => DiskInv'
      BY PrepareDisk, ProbeDisk
    <2> QED  BY <1>3, <2>1, <2>2, UntouchedDisk DEF ReadSide
  <1>4. ASSUME NEW s \in Sessions, WriteSide(s) \/ StopPosted(s) PROVE DiskInv'
    BY <1>4, WriteDisk, UntouchedDisk DEF WriteSide
  <1>5. ASSUME NEW s \in Sessions, Peer(s) PROVE DiskInv'
    <2>1. ASSUME NEW k \in Kinds, ClientAsks(s, k) PROVE DiskInv'
      BY <2>1, AskDisk
    <2>2. ClientCloses(s) => DiskInv'
      BY CloseDisk
    <2>3. ClientStreams(s) \/ ClientStalls(s) => DiskInv'
      BY UntouchedDisk
    <2> QED  BY <1>5, <2>1, <2>2, <2>3 DEF Peer
  <1> QED  BY <1>1, <1>2, <1>3, <1>4, <1>5 DEF Next

LEMMA DiskHolds == Spec => []DiskInv
  BY InitDisk, NextDisk, ServerHolds, WireHolds, PTL DEF Spec

\* Whatever clients, the network, the disk and other programs do: the sink takes no more
\* than was announced and publish finds a name, the files in the upload directory are
\* whole, under the name that a client or another program has been told there is its
\* own file, never replaced, and a staging file belongs to an upload that goes on.
THEOREM UploadsArriveWhole == Spec => []UploadInv
  <1>1. ASSUME ServerInv, WireInv, DiskInv PROVE UploadInv
    <2>1. SinkInBounds
      BY <1>1 DEF SinkInBounds, WireInv, SessionOk, SinkOk, DiskInv, DiskOk, TriedOk
    <2>2. UploadKept
      BY <1>1 DEF UploadKept, DiskInv, FilesOk
    <2>3. NoStagingLeft
      BY <1>1 DEF NoStagingLeft, WireInv, PartsOk, StagingOk
    <2> QED  BY <2>1, <2>2, <2>3 DEF UploadInv
  <1> QED  BY <1>1, ServerHolds, WireHolds, DiskHolds, PTL
=============================================================================
