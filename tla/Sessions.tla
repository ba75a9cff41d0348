------------------------------ MODULE Sessions ------------------------------
(***************************************************************************)
(* The TCP server: src/src/AsioServer/AsioServer.cpp (the acceptor, the    *)
(* two coroutines of each session, the commands they start, ServerActivity *)
(* and the stop) with the streaming upload of                              *)
(* src/src/Commands/StreamingUpload/StreamingUpload.cpp.                   *)
(*                                                                         *)
(* A coroutine runs from one co_await to the next in one step.  Those of a *)
(* session share a strand; a command runs on the CPU pool, and two threads *)
(* serve all the strands.  Requests and replies are their kinds; a file is *)
(* a number of chunks.  The client, the network, the channel and Windows   *)
(* are external: a client sends what it likes, ahead of the replies if it  *)
(* likes, but follows the upload's protocol.                               *)
(***************************************************************************)
EXTENDS Integers, Sequences, FiniteSets, SequencesExt

CONSTANTS
    MaxSessions,    \* bound: connections
    MaxRequests,    \* bound: requests of all clients together
    MaxAhead,       \* bound: requests a client that reads is ahead of the replies
    Capacity,       \* kWriteChannelCapacity
    Sizes,          \* file_size of an upload, in chunks
    MaxFaults       \* bound: failed operations, and files of other programs

ASSUME SessionsAssumption ==
    /\ MaxSessions \in Nat /\ MaxRequests \in Nat
    /\ MaxAhead \in Nat /\ MaxFaults \in Nat
    /\ Capacity \in Nat \ {0} /\ Sizes \subseteq Nat

VARIABLES
    accept, born,   \* do_accept's handler, and how many sessions it has made
    listed,         \* sessions_
    halting,        \* AsioServer::stopping_
    closing, commands, sessions,    \* ServerActivity
    main,           \* shutdownRuntime
    posted,         \* sessions with a stop() queued on their strand
    late,           \* history: sessions listed after stop() has read the list
    stopped,        \* stopped_, with which channel and socket are closed
    rpc, cmd,       \* readLoop with commandExec, and the command it is at
    item, next,     \* what it is sending to write_channel_, and its place after that
    authed, typed, terminal,    \* authenticated_, typed_errors_enabled_,
                                \* terminal_error_queued_
    chan, wpc, writing,         \* write_channel_; writeLoop and what it writes
    client, inbox, asked,   \* the peer: what it has sent and is not read yet, the
    owes,                   \* requests it waits for, the chunks it may send now,
    upload,                 \* the number and size of its last upload
    heard, told,            \* history: the replies a client has had, and the names
                            \* under which it, or another program, has its files
    requests,               \* how many there have been
    staging, tried, \* the sink's staging file, in chunks, and publish's index
    disk,           \* the upload directory: the file under each candidate name
    faults

serverVars == <<halting, closing, listed, late, posted>>
acceptVars == <<accept, born>>
countVars  == <<commands, sessions, main>>
readVars   == <<rpc, cmd, item, next>>
flagVars   == <<authed, typed, terminal>>
loopVars   == <<wpc, writing>>
writeVars  == <<chan, loopVars>>
heardVars  == <<heard, told>>
peerVars   == <<client, inbox, asked, owes, upload, heardVars, requests>>
stopVars   == <<stopped, chan, inbox, asked, countVars>>     \* of stopOnExecutor
\* The peer's, but for what a stop takes from it.
restVars   == <<client, owes, upload, heardVars, requests>>
sinkVars   == <<staging, tried>>
vars == <<serverVars, acceptVars, countVars, stopped, readVars, flagVars, writeVars,
          peerVars, sinkVars, disk, faults>>

Sessions == 1 .. MaxSessions
Names    == 0 .. MaxRequests + MaxFaults
Kinds    == {"negotiate", "auth", "data", "refused",
             "legacyMessage", "legacyUpload", "upload"}
Free     == [of |-> 0, chunks |-> 0, size |-> 0]
Foreign  == [of |-> -1, chunks |-> 0, size |-> 0]
None     == -1

\* What a channel holds.  Only an answer names its command on the wire.
Answer(s, what, name) ==
    [what |-> what, cmd |-> cmd[s], typed |-> FALSE, close |-> FALSE, name |-> name]
NoItem == [what |-> "none", cmd |-> "none", typed |-> FALSE, close |-> FALSE, name |-> 0]

\* queueError: the format is that of the moment.
Error(s, close) ==
    [what |-> "error", cmd |-> "none", typed |-> typed[s], close |-> close, name |-> 0]

-----------------------------------------------------------------------------
(* ServerActivity, and the stop of a session.                              *)

\* Mutant: nobody is woken.
Counted_NoNotify(c, n) == commands' = c /\ sessions' = n /\ UNCHANGED main

\* finishCommand and finishSession wake wait() when nothing is left.
Counted(c, n) ==
    /\ commands' = c /\ sessions' = n
    /\ main' = IF main = "asleep" /\ c = 0 /\ n = 0 THEN "wait" ELSE main

finishCommand == Counted(commands - 1, sessions)

Reading == {"header", "body", "drain", "meta", "chunk"}

\* What is still under way is lost with the channel and the socket, except for
\* a read that was complete by then.
Closed(s) ==
    /\ stopped' = [stopped EXCEPT ![s] = TRUE]
    /\ chan' = [chan EXCEPT ![s] = <<>>] /\ asked' = [asked EXCEPT ![s] = <<>>]
    /\ \E k \in IF rpc[s] \in Reading THEN {0, 1} ELSE {0} :
         inbox' = [inbox EXCEPT ![s] = SubSeq(@, 1, IF @ = <<>> THEN 0 ELSE k)]

stopOnExecutor(s) ==
    IF stopped[s] THEN UNCHANGED stopVars
    ELSE Closed(s) /\ Counted(commands, sessions - 1)

\* stop() from another thread, run by the strand.
StopPosted(s) ==
    /\ s \in posted /\ posted' = posted \ {s}
    /\ stopOnExecutor(s)
    /\ UNCHANGED <<halting, closing, listed, late, acceptVars, readVars, flagVars,
                   loopVars, restVars, sinkVars, disk, faults>>

-----------------------------------------------------------------------------
(* Accepting.                                                              *)

\* A connection arrives; the handler looks at stopping_.
AcceptBegins ==
    /\ accept = "armed" /\ born < MaxSessions
    /\ accept' = IF halting THEN "off" ELSE "checked"
    /\ UNCHANGED <<serverVars, born, countVars, stopped, readVars, flagVars, writeVars,
                   peerVars, sinkVars, disk, faults>>

\* The acceptor was closed.
AcceptAborted ==
    /\ accept = "armed" /\ halting
    /\ accept' = "off"
    /\ UNCHANGED <<serverVars, born, countVars, stopped, readVars, flagVars, writeVars,
                   peerVars, sinkVars, disk, faults>>

Rearmed == IF halting THEN "off" ELSE "armed"

tryStartSession ==
    /\ accept = "checked"
    /\ IF closing
       THEN /\ accept' = Rearmed
            /\ UNCHANGED <<born, countVars>>
       ELSE /\ accept' = "counted" /\ born' = born + 1
            /\ Counted(commands, sessions + 1)
    /\ UNCHANGED <<serverVars, stopped, readVars, flagVars, writeVars,
                   peerVars, sinkVars, disk, faults>>

\* The session is listed, and then started.
AcceptLists ==
    /\ accept = "counted"
    /\ accept' = "listed" /\ listed' = listed \cup {born}
    /\ late' = IF main \in {"run", "stopping", "snapshot"} THEN late
               ELSE late \cup {born}
    /\ UNCHANGED <<halting, closing, posted, born, countVars, stopped, readVars,
                   flagVars, writeVars, peerVars, sinkVars, disk, faults>>

\* No memory for the session: it is counted out, and gone.
AcceptFails ==
    /\ accept = "counted" /\ faults < MaxFaults /\ faults' = faults + 1
    /\ accept' = Rearmed
    /\ stopped' = [stopped EXCEPT ![born] = TRUE]
    /\ rpc' = [rpc EXCEPT ![born] = "over"] /\ wpc' = [wpc EXCEPT ![born] = "over"]
    /\ Counted(commands, sessions - 1)
    /\ UNCHANGED <<serverVars, born, cmd, item, next, flagVars, chan, writing,
                   peerVars, sinkVars, disk>>

\* while (!stopped_ && socket_.is_open())
LoopTop(s) == IF stopped[s] THEN "done" ELSE "header"

sessionStart ==
    /\ accept = "listed" /\ accept' = Rearmed
    /\ rpc' = [rpc EXCEPT ![born] = LoopTop(born)]
    /\ wpc' = [wpc EXCEPT ![born] = IF stopped[born] THEN "done" ELSE "receive"]
    /\ client' = [client EXCEPT ![born] = "up"]
    /\ UNCHANGED <<serverVars, born, countVars, stopped, cmd, item, next, flagVars,
                   chan, writing, inbox, asked, owes, upload, heardVars,
                   requests, sinkVars, disk, faults>>

-----------------------------------------------------------------------------
(* readLoop and the commands.                                              *)

Goto(s, label) ==
    rpc' = [rpc EXCEPT ![s] = label] /\ UNCHANGED <<item, next>>

\* co_await write_channel_.async_send(it), and then cont.
Send(s, it, cont) ==
    /\ rpc'  = [rpc EXCEPT ![s] = "send"]
    /\ item' = [item EXCEPT ![s] = it] /\ next' = [next EXCEPT ![s] = cont]

\* A completed read takes the next part of the stream.
Take(s) ==
    /\ inbox[s] # <<>>
    /\ inbox' = [inbox EXCEPT ![s] = Tail(@)]
    /\ UNCHANGED <<stopped, asked, restVars>>

\* tryStartCommand, or a terminal ServerStopping.
StartCommand(s, label) ==
    IF closing THEN Send(s, Error(s, TRUE), "done") /\ UNCHANGED countVars
    ELSE Goto(s, label) /\ Counted(commands + 1, sessions)

\* Mutant: a streaming upload is let through.
Gate_OpenUpload(s, k) == k \in {"negotiate", "auth", "upload"} \/ authed[s]

\* evaluateSessionCommandGate.  It lets PING through as well, which has no kind of
\* its own: it goes the way of "data", touches nothing of the session, and its
\* answer is open to everybody.
Gate(s, k) == k \in {"negotiate", "auth"} \/ authed[s]

\* The header.  A payload too large and what is no known command are refused
\* unread.
ReadHeader(s) ==
    /\ rpc[s] = "header" /\ Take(s)
    /\ cmd' = [cmd EXCEPT ![s] = Head(inbox[s])]
    /\ LET k == Head(inbox[s]) IN
       CASE k \in {"legacyMessage", "legacyUpload", "upload"} /\ ~Gate(s, k) ->
              Send(s, Error(s, TRUE), "done") /\ UNCHANGED countVars
         [] k = "legacyMessage" /\ Gate(s, k) -> Goto(s, "drain") /\ UNCHANGED countVars
         [] k = "legacyUpload" /\ Gate(s, k) -> StartCommand(s, "drain")
         [] k = "upload" /\ Gate(s, k) -> StartCommand(s, "meta")
         [] k = "negotiate" -> StartCommand(s, "exec")
         [] k \in {"auth", "data"} -> Goto(s, "body") /\ UNCHANGED countVars
         [] OTHER -> Send(s, Error(s, TRUE), "done") /\ UNCHANGED countVars
    /\ UNCHANGED <<serverVars, acceptVars, flagVars, writeVars, sinkVars, disk, faults>>

\* The body of a command that is executed.
ReadBody(s) ==
    /\ rpc[s] = "body" /\ Take(s)
    /\ StartCommand(s, "exec")
    /\ UNCHANGED <<serverVars, acceptVars, cmd, flagVars, writeVars, sinkVars, disk,
                   faults>>

\* Mutant: the body of a disabled command is left in the stream.
Drain_Unread(s) ==
    /\ rpc[s] = "drain"
    /\ IF cmd[s] = "legacyUpload" THEN finishCommand ELSE UNCHANGED countVars
    /\ Send(s, Error(s, FALSE), "loop")
    /\ UNCHANGED <<serverVars, acceptVars, stopped, cmd, flagVars, writeVars, peerVars,
                   sinkVars, disk, faults>>

\* The body of a disabled command is read and thrown away.
Drain(s) ==
    /\ rpc[s] = "drain" /\ Take(s)
    /\ IF cmd[s] = "legacyUpload" THEN finishCommand ELSE UNCHANGED countVars
    /\ Send(s, Error(s, FALSE), "loop")
    /\ UNCHANGED <<serverVars, acceptVars, cmd, flagVars, writeVars, sinkVars, disk,
                   faults>>

\* On the CPU pool: the gate, then the command.  It ends with its answer or with an
\* error; an unexpected exception is an error that the session survives.
commandExec(s) ==
    /\ rpc[s] = "exec"
    /\ \/ /\ cmd[s] = "auth" \/ ~Gate(s, cmd[s])
          /\ Send(s, Error(s, TRUE), "finish") /\ UNCHANGED <<authed, faults>>
       \/ /\ cmd[s] = "auth" /\ Send(s, Answer(s, "ok", 0), "finish")
          /\ authed' = [authed EXCEPT ![s] = TRUE] /\ UNCHANGED faults
       \/ /\ cmd[s] # "auth" /\ Gate(s, cmd[s])
          /\ \/ Send(s, Answer(s, "ok", 0), "finish")
             \/ cmd[s] = "data" /\ \E it \in {Answer(s, "file", 0), Error(s, FALSE)} :
                  Send(s, it, "finish")
          /\ UNCHANGED <<authed, faults>>
       \/ /\ cmd[s] \in {"negotiate", "auth"} /\ faults < MaxFaults /\ faults' = faults + 1
          /\ Send(s, Error(s, FALSE), "finish") /\ UNCHANGED authed
    /\ UNCHANGED <<serverVars, acceptVars, countVars, stopped, cmd, typed, terminal,
                   writeVars, peerVars, sinkVars, disk>>

\* The channel has room.
SendDone(s) ==
    /\ rpc[s] = "send" /\ ~stopped[s] /\ Len(chan[s]) < Capacity
    /\ chan' = [chan EXCEPT ![s] = Append(@, item[s])]
    /\ item' = [item EXCEPT ![s] = NoItem] /\ next' = [next EXCEPT ![s] = "none"]
    /\ terminal' = [terminal EXCEPT ![s] = @ \/ item[s].close]
    /\ typed' = [typed EXCEPT ![s] = @ \/ item[s].cmd = "negotiate"]
    /\ rpc' = [rpc EXCEPT ![s] = IF next[s] = "loop" THEN "header" ELSE next[s]]
    /\ UNCHANGED <<serverVars, acceptVars, countVars, stopped, cmd, authed, wpc, writing,
                   peerVars, sinkVars, disk, faults>>

\* The channel is closed, also under a send that was waiting for room.  A READY
\* that cannot be sent ends the upload.
SendFails(s) ==
    /\ rpc[s] = "send" /\ stopped[s]
    /\ item' = [item EXCEPT ![s] = NoItem] /\ next' = [next EXCEPT ![s] = "none"]
    /\ IF next[s] \in {"chunk", "probe"}
       THEN /\ rpc' = [rpc EXCEPT ![s] = "done"]
            /\ staging' = [staging EXCEPT ![s] = None]
            /\ finishCommand
       ELSE /\ rpc' = [rpc EXCEPT ![s] = IF next[s] = "finish" THEN "finish" ELSE "done"]
            /\ UNCHANGED <<staging, countVars>>
    /\ UNCHANGED <<serverVars, acceptVars, stopped, cmd, flagVars, writeVars,
                   peerVars, tried, disk, faults>>

\* The command is over: it is counted out, and an upload's sink destroyed.
FinishCommand(s) ==
    /\ rpc[s] = "finish"
    /\ finishCommand
    /\ staging' = [staging EXCEPT ![s] = None]
    /\ Goto(s, LoopTop(s)) /\ cmd' = [cmd EXCEPT ![s] = "none"]
    /\ UNCHANGED <<serverVars, acceptVars, stopped, flagVars, writeVars, peerVars,
                   tried, disk, faults>>

\* A read fails: the socket was closed, or the client has gone.  An upload
\* or a drain counts itself out on the way.
ReadFails(s) ==
    /\ rpc[s] \in Reading
    /\ inbox[s] = <<>> /\ (stopped[s] \/ client[s] = "gone")
    /\ Goto(s, "done")
    /\ IF rpc[s] \in {"meta", "chunk"} \/ <<rpc[s], cmd[s]>> = <<"drain", "legacyUpload">>
       THEN finishCommand ELSE UNCHANGED countVars
    /\ staging' = [staging EXCEPT ![s] = None]
    /\ UNCHANGED <<serverVars, acceptVars, stopped, cmd, flagVars, writeVars, peerVars,
                   tried, disk, faults>>

\* Mutant: the session is always left to writeLoop.
ReadEnds_LeftToWriter(s) ==
    /\ rpc[s] = "done" /\ Goto(s, "over") /\ cmd' = [cmd EXCEPT ![s] = "none"]
    /\ UNCHANGED <<serverVars, acceptVars, stopVars, flagVars, loopVars, restVars,
                   sinkVars, disk, faults>>

\* readLoop's completion handler: after a terminal error writeLoop is to stop
\* the session.
ReadEnds(s) ==
    /\ rpc[s] = "done" /\ Goto(s, "over") /\ cmd' = [cmd EXCEPT ![s] = "none"]
    /\ IF terminal[s] THEN UNCHANGED stopVars ELSE stopOnExecutor(s)
    /\ UNCHANGED <<serverVars, acceptVars, flagVars, loopVars, restVars,
                   sinkVars, disk, faults>>

-----------------------------------------------------------------------------
(* handleStreamingUpload and its sink.                                     *)

\* The metadata is read, a target planned and the staging file made.
UploadPrepare(s) ==
    /\ rpc[s] = "meta" /\ Take(s)
    /\ \/ /\ staging' = [staging EXCEPT ![s] = 0] /\ tried' = [tried EXCEPT ![s] = 0]
          /\ Send(s, Answer(s, "ready", 0), IF upload[s].size = 0 THEN "probe" ELSE "chunk")
          /\ UNCHANGED <<countVars, faults>>
       \/ Send(s, Error(s, FALSE), "finish") /\ UNCHANGED <<sinkVars, countVars, faults>>
       \/ /\ faults < MaxFaults /\ faults' = faults + 1     \* an exception
          /\ finishCommand /\ Send(s, Error(s, FALSE), "loop")
          /\ UNCHANGED sinkVars
    /\ UNCHANGED <<serverVars, acceptVars, cmd, flagVars, writeVars, disk>>

\* A chunk is written to the staging file, or the disk is full.
UploadChunk(s) ==
    /\ rpc[s] = "chunk" /\ Take(s)
    /\ \/ /\ staging' = [staging EXCEPT ![s] = @ + 1]
          /\ Goto(s, IF staging[s] + 1 = upload[s].size THEN "probe" ELSE "chunk")
          /\ UNCHANGED <<countVars, faults>>
       \/ /\ faults < MaxFaults /\ faults' = faults + 1
          /\ staging' = [staging EXCEPT ![s] = None]
          /\ finishCommand /\ Goto(s, "done")
    /\ UNCHANGED <<serverVars, acceptVars, cmd, flagVars, writeVars, tried, disk>>

\* publish: the next candidate name is looked up.
PublishProbe(s) ==
    /\ rpc[s] = "probe"
    /\ IF disk[tried[s]] = Free THEN Goto(s, "move") /\ UNCHANGED tried
       ELSE tried' = [tried EXCEPT ![s] = @ + 1] /\ UNCHANGED <<rpc, item, next>>
    /\ UNCHANGED <<serverVars, acceptVars, countVars, stopped, cmd, flagVars, writeVars,
                   peerVars, staging, disk, faults>>

\* Mutant: the move replaces a file that has come up meanwhile.
PublishMove_Replaces(s) ==
    /\ rpc[s] = "move"
    /\ disk' = [disk EXCEPT ![tried[s]] =
                  [of |-> upload[s].of, chunks |-> staging[s], size |-> upload[s].size]]
    /\ staging' = [staging EXCEPT ![s] = None]
    /\ Send(s, Answer(s, "final", tried[s]), "finish")
    /\ UNCHANGED <<serverVars, acceptVars, countVars, stopped, cmd, flagVars, writeVars,
                   peerVars, tried, faults>>

\* MoveFileExW, without replacement.
PublishMove(s) ==
    /\ rpc[s] = "move"
    /\ IF disk[tried[s]] = Free
       THEN /\ disk' = [disk EXCEPT ![tried[s]] =
                  [of |-> upload[s].of, chunks |-> staging[s], size |-> upload[s].size]]
            /\ staging' = [staging EXCEPT ![s] = None]
            /\ Send(s, Answer(s, "final", tried[s]), "finish")
            /\ UNCHANGED tried
       ELSE /\ tried' = [tried EXCEPT ![s] = @ + 1]
            /\ Goto(s, "probe") /\ UNCHANGED <<disk, staging>>
    /\ UNCHANGED <<serverVars, acceptVars, countVars, stopped, cmd, flagVars, writeVars,
                   peerVars, faults>>

\* The flush fails, and the staging file is left to the sink's destructor; or the
\* move, or the look at what was moved, which remove it.
PublishFails(s) ==
    /\ rpc[s] = "move" \/ <<rpc[s], tried[s]>> = <<"probe", 0>>
    /\ faults < MaxFaults /\ faults' = faults + 1
    /\ staging' = [staging EXCEPT ![s] = IF rpc[s] = "move" THEN None ELSE @]
    /\ Send(s, Error(s, FALSE), "finish")
    /\ UNCHANGED <<serverVars, acceptVars, countVars, stopped, cmd, flagVars, writeVars,
                   peerVars, tried, disk>>

-----------------------------------------------------------------------------
(* writeLoop.                                                              *)

WriteGoto(s, label) == wpc' = [wpc EXCEPT ![s] = label]

\* async_receive: an item, or the error of a closed channel.
WriteReceive(s) ==
    /\ wpc[s] = "receive"
    /\ \/ /\ stopped[s]
          /\ WriteGoto(s, "done") /\ UNCHANGED <<chan, writing>>
       \/ /\ ~stopped[s] /\ chan[s] # <<>>
          /\ chan' = [chan EXCEPT ![s] = Tail(@)]
          /\ writing' = [writing EXCEPT ![s] = Head(chan[s])]
          /\ WriteGoto(s, "write")
    /\ UNCHANGED <<serverVars, acceptVars, countVars, stopped, readVars, flagVars,
                   peerVars, sinkVars, disk, faults>>

\* The client reads a reply: READY lets it send the file, any other one answers
\* the oldest of its requests.
Heard(s, it) ==
    IF client[s] = "gone" THEN UNCHANGED <<owes, heardVars>>
    ELSE /\ owes' = [owes EXCEPT ![s] = IF it.what = "ready" THEN upload[s].size ELSE @]
         /\ heard' = [heard EXCEPT ![s] = @ \cup
                (CASE it.close        -> {"terminal"}
                   [] it.what = "ok"  -> {it.cmd}
                   [] OTHER           -> {})]
         /\ told' = IF it.what = "final" THEN told \cup {<<it.name, upload[s].of>>} ELSE told

\* The item is written, if the client reads; after a terminal error the session
\* is stopped.
WriteDone(s) ==
    /\ wpc[s] = "write" /\ client[s] # "stalled" /\ ~stopped[s]
    /\ writing' = [writing EXCEPT ![s] = NoItem]
    /\ Heard(s, writing[s])
    /\ IF writing[s].close THEN WriteGoto(s, "done") /\ stopOnExecutor(s)
       ELSE /\ asked' = [asked EXCEPT ![s] =
                           IF writing[s].what = "ready" THEN @ ELSE Tail(@)]
            /\ WriteGoto(s, "receive")
            /\ UNCHANGED <<stopped, chan, inbox, countVars>>
    /\ UNCHANGED <<serverVars, acceptVars, readVars, flagVars,
                   client, upload, requests, sinkVars, disk, faults>>

\* The socket is closed, the client has gone, or a file has got shorter than
\* announced.
WriteFails(s) ==
    /\ wpc[s] = "write"
    /\ \/ /\ stopped[s] \/ client[s] = "gone"
          /\ UNCHANGED faults
       \/ /\ writing[s].what = "file" /\ faults < MaxFaults /\ faults' = faults + 1
    /\ writing' = [writing EXCEPT ![s] = NoItem]
    /\ WriteGoto(s, "done") /\ stopOnExecutor(s)
    /\ UNCHANGED <<serverVars, acceptVars, readVars, flagVars, restVars, sinkVars,
                   disk>>

\* writeLoop's completion handler.
WriteEnds(s) ==
    /\ wpc[s] = "done" /\ WriteGoto(s, "over")
    /\ stopOnExecutor(s)
    /\ UNCHANGED <<serverVars, acceptVars, readVars, flagVars, writing, restVars,
                   sinkVars, disk, faults>>

-----------------------------------------------------------------------------
(* Stopping the server: AsioServer::stop and wait in shutdownRuntime.      *)

MainGoto(label) == main' = label /\ UNCHANGED <<commands, sessions>>
UnchangedByMain == UNCHANGED <<acceptVars, stopped, readVars, flagVars, writeVars,
                               peerVars, sinkVars, disk, faults>>

\* stopping_, and then stopAccepting.
StopBegins ==
    /\ main = "run" /\ halting' = TRUE /\ MainGoto("stopping")
    /\ UNCHANGED <<closing, listed, late, posted>> /\ UnchangedByMain

\* Mutant: commands and sessions may still be started.
stopAccepting_NotAtAll ==
    /\ main = "stopping" /\ MainGoto("snapshot")
    /\ UNCHANGED <<closing, halting, listed, late, posted>> /\ UnchangedByMain

stopAccepting ==
    /\ main = "stopping" /\ closing' = TRUE /\ MainGoto("snapshot")
    /\ UNCHANGED <<halting, listed, late, posted>> /\ UnchangedByMain

\* The sessions of the list are told to stop.
StopSessions ==
    /\ main = "snapshot" /\ posted' = posted \cup listed /\ listed' = {}
    /\ MainGoto("wait")
    /\ UNCHANGED <<halting, closing, late>> /\ UnchangedByMain

\* ServerActivity::wait.
Wait ==
    /\ main = "wait"
    /\ MainGoto(IF commands = 0 /\ sessions = 0 THEN "waited" ELSE "asleep")
    /\ UNCHANGED serverVars /\ UnchangedByMain

\* Interface::shutdown takes the commands away.
InterfaceShutdown ==
    /\ main = "waited" /\ MainGoto("cleared")
    /\ UNCHANGED serverVars /\ UnchangedByMain

-----------------------------------------------------------------------------
(* The client, and other programs.                                         *)

Uploading(s) == asked[s] # <<>> /\ Last(asked[s]) = "upload"
Connected(s) == client[s] \in {"up", "stalled"} /\ ~stopped[s]
UnchangedByPeer == UNCHANGED <<serverVars, acceptVars, countVars, stopped, readVars,
                               flagVars, writeVars, sinkVars>>

\* The parts of a request on the wire.
Frame(k) == CASE k = "negotiate" -> <<k>>
              [] k = "upload"    -> <<k, "meta">>
              [] OTHER           -> <<k, "body">>

\* A request is sent, up to the first cut parts of it.
Request(s, k, cut) ==
    /\ ~Uploading(s) /\ (Len(asked[s]) < MaxAhead \/ client[s] = "stalled")
    /\ requests < MaxRequests /\ requests' = requests + 1
    /\ asked' = [asked EXCEPT ![s] = Append(@, k)]
    /\ inbox' = [inbox EXCEPT ![s] = @ \o SubSeq(Frame(k), 1, cut)]
    /\ IF k = "upload"
       THEN \E n \in Sizes :
              upload' = [upload EXCEPT ![s] = [of |-> requests + 1, size |-> n]]
       ELSE UNCHANGED upload

ClientAsks(s, k) ==
    /\ Connected(s) /\ Request(s, k, Len(Frame(k)))
    /\ UNCHANGED <<client, owes, heardVars, disk, faults>> /\ UnchangedByPeer

\* READY has come: the file follows.
ClientStreams(s) ==
    /\ Connected(s) /\ owes[s] > 0
    /\ inbox' = [inbox EXCEPT ![s] = @ \o [i \in 1 .. owes[s] |-> "chunk"]]
    /\ owes' = [owes EXCEPT ![s] = 0]
    /\ UNCHANGED <<client, asked, upload, heardVars, requests, disk, faults>>
    /\ UnchangedByPeer

\* The client goes away, perhaps in the middle of a request or of a file.
ClientCloses(s) ==
    /\ Connected(s)
    /\ client' = [client EXCEPT ![s] = "gone"]
    /\ \/ UNCHANGED <<inbox, asked, upload, requests>>
       \/ \E k \in Kinds : Len(Frame(k)) > 1 /\ Request(s, k, 1)
       \/ /\ owes[s] > 1 /\ inbox' = [inbox EXCEPT ![s] = Append(@, "chunk")]
          /\ UNCHANGED <<asked, upload, requests>>
    /\ UNCHANGED <<owes, heardVars, disk, faults>> /\ UnchangedByPeer

\* The client reads no more.
ClientStalls(s) ==
    /\ wpc[s] = "write" /\ ~stopped[s] /\ client[s] = "up"
    /\ client' = [client EXCEPT ![s] = "stalled"]
    /\ UNCHANGED <<inbox, asked, owes, upload, heardVars, requests, disk, faults>>
    /\ UnchangedByPeer

\* Another program takes a name in the upload directory, the next one in the order
\* in which publish tries them.
OtherProgram ==
    /\ faults < MaxFaults /\ faults' = faults + 1
    /\ \E n \in Names : /\ disk[n] = Free /\ \A m \in 0 .. n - 1 : disk[m] # Free
                        /\ disk' = [disk EXCEPT ![n] = Foreign]
                        /\ told' = told \cup {<<n, Foreign.of>>}
    /\ UNCHANGED <<client, inbox, asked, owes, upload, heard, requests>>
    /\ UnchangedByPeer

-----------------------------------------------------------------------------
Init ==
    /\ accept = "armed" /\ born = 0 /\ listed = {} /\ late = {} /\ posted = {}
    /\ halting = FALSE /\ closing = FALSE /\ commands = 0 /\ sessions = 0 /\ main = "run"
    /\ stopped = [s \in Sessions |-> FALSE]
    /\ rpc = [s \in Sessions |-> "none"] /\ wpc = rpc /\ cmd = rpc /\ next = rpc
    /\ item = [s \in Sessions |-> NoItem] /\ writing = item
    /\ authed = stopped /\ typed = stopped /\ terminal = stopped
    /\ chan = [s \in Sessions |-> <<>>] /\ inbox = chan /\ asked = chan
    /\ client = rpc /\ heard = [s \in Sessions |-> {}] /\ told = {} /\ requests = 0
    /\ owes = [s \in Sessions |-> 0] /\ tried = owes
    /\ upload = [s \in Sessions |-> [of |-> 0, size |-> 0]]
    /\ staging = [s \in Sessions |-> None]
    /\ disk = [n \in Names |-> Free] /\ faults = 0

Accepts == AcceptBegins \/ AcceptAborted \/ tryStartSession \/ AcceptLists \/ AcceptFails
           \/ sessionStart

ReadSide(s) ==
    \/ ReadHeader(s) \/ ReadBody(s) \/ Drain(s) \/ commandExec(s) \/ SendDone(s)
    \/ SendFails(s) \/ FinishCommand(s) \/ ReadFails(s) \/ ReadEnds(s)
    \/ UploadPrepare(s) \/ UploadChunk(s) \/ PublishProbe(s) \/ PublishMove(s)
    \/ PublishFails(s)

WriteSide(s) == WriteReceive(s) \/ WriteDone(s) \/ WriteFails(s) \/ WriteEnds(s)

Stops == stopAccepting \/ StopSessions \/ Wait \/ InterfaceShutdown

Peer(s) == (\E k \in Kinds : ClientAsks(s, k)) \/ ClientStreams(s) \/ ClientCloses(s)
           \/ ClientStalls(s)

Next ==
    \/ Accepts \/ StopBegins \/ Stops \/ OtherProgram
    \/ \E s \in Sessions : ReadSide(s) \/ WriteSide(s) \/ StopPosted(s) \/ Peer(s)

Spec == Init /\ [][Next]_vars

\* The threads of the two contexts and of the pool run what is ready of a session, and
\* so does the thread that stops the server; commands end.  Nothing is asked of
\* clients.
FairSpec ==
    /\ Spec
    /\ WF_vars(accept # "armed" /\ Accepts) /\ WF_vars(Stops)
    /\ \A s \in Sessions : WF_vars(ReadSide(s) \/ WriteSide(s) \/ StopPosted(s))

-----------------------------------------------------------------------------
(* Properties.                                                             *)

\* A command that has been counted in and not yet out.
InCommand(s) ==
    \/ rpc[s] \in {"exec", "finish", "meta", "chunk", "probe", "move"}
    \/ rpc[s] = "drain" /\ cmd[s] = "legacyUpload"
    \/ rpc[s] = "send" /\ next[s] \in {"finish", "chunk", "probe"}

\* A session that has been counted in and not yet out.
Alive(s) == s <= born /\ ~stopped[s]

(* The state is well typed, the channel within its capacity, and ServerActivity
   counts exactly the commands and sessions there are. *)
TypeOK ==
    /\ accept \in {"armed", "checked", "counted", "listed", "off"}
    /\ born \in 0 .. MaxSessions /\ listed \cup posted \cup late \subseteq Sessions
    /\ main \in {"run", "stopping", "snapshot", "wait", "asleep", "waited", "cleared"}
    /\ halting \in BOOLEAN /\ closing \in BOOLEAN
    /\ commands = Cardinality({s \in Sessions : InCommand(s)})
    /\ sessions = Cardinality({s \in Sessions : Alive(s)})
    /\ \A s \in Sessions :
         /\ stopped[s] \in BOOLEAN /\ authed[s] \in BOOLEAN
         /\ typed[s] \in BOOLEAN /\ terminal[s] \in BOOLEAN
         /\ rpc[s] \in Reading \cup {"none", "exec", "send", "finish", "probe", "move",
                                     "done", "over"}
         /\ wpc[s] \in {"none", "receive", "write", "done", "over"}
         /\ Len(chan[s]) <= Capacity
         /\ client[s] \in {"none", "up", "stalled", "gone"}
    /\ faults \in 0 .. MaxFaults

(* readLoop never takes a part of a request for something else: every path that
   keeps the session has read the request to its end. *)
FramingKept ==
    \A s \in Sessions : rpc[s] \in Reading /\ inbox[s] # <<>> =>
        LET part == Head(inbox[s]) IN
        CASE rpc[s] = "header" -> part \in Kinds
          [] rpc[s] \in {"body", "drain"} -> part = "body"
          [] OTHER -> part = rpc[s]

\* What is under way to a client, the replies in it, which is all but READY, and the
\* place in asked of the request that the i-th is a reply to.
Pipe(s) == <<writing[s]>> \o chan[s] \o <<item[s]>>
Replies(s) == {i \in DOMAIN Pipe(s) : Pipe(s)[i].what \notin {"none", "ready"}}
RequestOf(s, i) == Cardinality({j \in Replies(s) : j <= i})

(* Replies are under way in the order of the requests that wait for them, one for
   each, although commands run in another thread than readLoop; an error is typed
   exactly when the client has read, or will read before it, that its negotiation
   has succeeded; and with a terminal error the session is over. *)
RepliesInOrder ==
    \A s \in Sessions :
        /\ ~stopped[s] /\ client[s] # "gone" =>
             \A i \in Replies(s) :
                LET it == Pipe(s)[i]
                    n  == RequestOf(s, i)
                IN  /\ n <= Len(asked[s]) /\ it.cmd \in {"none", asked[s][n]}
                    /\ it.what = "error" =>
                         it.typed = ("negotiate" \in heard[s]
                                     \/ \E j \in 1 .. i - 1 : Pipe(s)[j].cmd = "negotiate")
        /\ "terminal" \in heard[s] => stopped[s]

(* A file, a READY or the result of a data command goes only to a client that has
   authenticated in this session before: no way through readLoop goes around the
   gate. *)
AuthFirst ==
    \A s \in Sessions :
        ~stopped[s] /\ client[s] # "gone" =>
            \A i \in DOMAIN Pipe(s) :
                Pipe(s)[i].cmd \in {"data", "upload"} =>
                    "auth" \in heard[s] \/ \E j \in 1 .. i - 1 : Pipe(s)[j].cmd = "auth"

(* The sink takes no more than was announced, and publish runs out of no names. *)
SinkInBounds ==
    \A s \in Sessions :
        /\ staging[s] \in {None} \cup 0 .. upload[s].size \/ rpc[s] = "finish"
        /\ tried[s] \in Names

(* Uploaded files are complete, and the file whose name a client was told is the
   one it has sent; nobody's file is replaced, not even one that comes up between
   publish's look at the name and its move. *)
UploadKept ==
    /\ \A n \in Names : disk[n].chunks = disk[n].size
    /\ \A f \in told : disk[f[1]].of = f[2]

(* A staging file exists only while its upload goes on: every way out of
   handleStreamingUpload removes or publishes it. *)
NoStagingLeft ==
    \A s \in Sessions : staging[s] # None => InCommand(s) /\ cmd[s] = "upload"

(* When wait() has returned, and Interface::shutdown destroys the commands, none
   is running and none will be started. *)
QuietAfterWait ==
    main \in {"waited", "cleared"} =>
        \A s \in Sessions : ~InCommand(s) /\ ~Alive(s) /\ accept # "counted"

(* AsioServer::stop and wait end, with clients that are in the middle of a request,
   stalled or silent.  The exception is a session the accept handler has counted
   before stop() and listed only after stop() has read the list: nobody stops
   it, and wait() lasts as long as its client stays. *)
ShutdownEnds ==
    []<>(main \in {"run", "cleared"} \/ \E s \in late : ~stopped[s])

(* A client that reads gets its replies, or its session is closed. *)
RequestsAnswered ==
    \A s \in Sessions :
        []<>(client[s] # "up" \/ stopped[s] \/ owes[s] > 0 \/ asked[s] = <<>>)

(* The state is well typed, ServerActivity's counters are exact, and so wait()
   returns only when nothing is left. *)
ActivityInv == TypeOK /\ QuietAfterWait

(* The stream of requests and the stream of replies are in step. *)
InStep == FramingKept /\ RepliesInOrder

(* An upload ends up whole under a name of its own, or leaves nothing. *)
UploadInv == SinkInBounds /\ UploadKept /\ NoStagingLeft
=============================================================================
