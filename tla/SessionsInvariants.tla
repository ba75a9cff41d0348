------------------------- MODULE SessionsInvariants -------------------------
(***************************************************************************)
(* The inductive invariants of Sessions: ServerInv, and next to it WireInv *)
(* for the streams of requests and replies, and DiskInv for the files.     *)
(***************************************************************************)
EXTENDS Sessions

-----------------------------------------------------------------------------
(* Types, counters, and the way of a reply.                                *)

Parts == Kinds \cup {"meta", "body", "chunk"}
Items == [what : {"none", "ok", "file", "ready", "final", "error"},
          cmd : Parts \cup {"none"}, typed : BOOLEAN, close : BOOLEAN, name : Nat]

\* The coroutines and the streams of a session.
LoopsOk ==
    /\ rpc \in [Sessions -> Reading \cup {"none", "exec", "send", "finish", "probe",
                                          "move", "done", "over"}]
    /\ next \in [Sessions -> {"none", "done", "finish", "loop", "chunk", "probe"}]
    /\ \A s \in Sessions : rpc[s] = "send" => next[s] # "none"
    /\ wpc \in [Sessions -> {"none", "receive", "write", "done", "over"}]
    /\ cmd \in [Sessions -> Parts \cup {"none"}]
    /\ tried \in [Sessions -> Nat]

StreamsOk ==
    /\ inbox \in [Sessions -> Seq(Parts)]
    /\ owes \in [Sessions -> Nat]
    /\ requests \in Nat
    /\ upload \in [Sessions -> [of : Nat, size : Nat]]
    /\ heard \in [Sessions -> SUBSET (Parts \cup {"none", "terminal"})]

\* What a channel, readLoop and writeLoop hold.
PipesOk ==
    /\ chan \in [Sessions -> Seq(Items)]
    /\ \A s \in Sessions : Len(chan[s]) <= Capacity
    /\ item \in [Sessions -> Items]
    /\ writing \in [Sessions -> Items]
    /\ \A s \in Sessions : rpc[s] # "send" => item[s] = NoItem
    /\ \A s \in Sessions : wpc[s] # "write" => writing[s] = NoItem

FlagsOk ==
    /\ stopped \in [Sessions -> BOOLEAN]
    /\ authed \in [Sessions -> BOOLEAN]
    /\ typed \in [Sessions -> BOOLEAN]
    /\ terminal \in [Sessions -> BOOLEAN]
    /\ client \in [Sessions -> {"none", "up", "stalled", "gone"}]
    /\ faults \in 0 .. MaxFaults

\* The acceptor.  A session that is not started has no coroutines and no client,
\* and nobody can stop it before it is listed.
AcceptOk ==
    /\ accept \in {"armed", "checked", "counted", "listed", "off"}
    /\ born \in 0 .. MaxSessions
    /\ listed \subseteq 1 .. born /\ posted \subseteq 1 .. born /\ late \subseteq 1 .. born
    /\ accept = "checked" => born < MaxSessions
    /\ accept \in {"counted", "listed"} => born > 0
    /\ \A s \in Sessions :
          /\ s > born \/ (s = born /\ accept \in {"counted", "listed"}) =>
                rpc[s] = "none" /\ wpc[s] = "none" /\ client[s] = "none"
          /\ s > born \/ (s = born /\ accept = "counted") =>
                ~stopped[s] /\ s \notin listed \cup posted

InCommands == {s \in Sessions : InCommand(s)}
AliveOnes  == {s \in Sessions : Alive(s)}

\* ServerActivity's counters are exact.
CountsOk == commands = Cardinality(InCommands) /\ sessions = Cardinality(AliveOnes)

\* Once stopAccepting has returned nothing is started, and wait() waits for the
\* rest.
MainOk ==
    /\ main \in {"run", "stopping", "snapshot", "wait", "asleep", "waited", "cleared"}
    /\ halting \in BOOLEAN /\ closing \in BOOLEAN
    /\ main \notin {"run", "stopping"} => closing
    /\ main \in {"waited", "cleared"} => InCommands = {} /\ AliveOnes = {}

\* An upload that goes on has passed the gate.
GateOk ==
    \A s \in Sessions :
        \/ rpc[s] \in {"meta", "chunk", "probe", "move"}
        \/ rpc[s] = "send" /\ next[s] \in {"chunk", "probe"}
        => authed[s] /\ cmd[s] = "upload"

\* A success of auth is under way to the client, at writeLoop, or before place i
\* of the channel.
AuthAhead(s, i) == \/ "auth" \in heard[s]
                   \/ writing[s].cmd = "auth"
                   \/ \E j \in DOMAIN chan[s] : j < i /\ chan[s][j].cmd = "auth"

Result(it)   == it.cmd \in {"data", "upload"}
GoodAuth(it) == it.cmd = "auth" => it.what = "ok" /\ ~it.close

\* The replies to a client that listens: a success of auth goes ahead of every
\* result, and of everything that is still to come once authenticated_ is set.
PipeOk(s) ==
    /\ Result(writing[s]) => "auth" \in heard[s]
    /\ \A i \in DOMAIN chan[s] : Result(chan[s][i]) => AuthAhead(s, i)
    /\ Result(item[s]) => AuthAhead(s, Len(chan[s]) + 1)
    /\ authed[s] => AuthAhead(s, Len(chan[s]) + 1) \/ item[s].cmd = "auth"
    /\ GoodAuth(writing[s]) /\ GoodAuth(item[s])
    /\ \A i \in DOMAIN chan[s] : GoodAuth(chan[s][i])

Listens(s) == ~stopped[s] /\ client[s] # "gone"
AuthOk == \A s \in Sessions : Listens(s) => PipeOk(s)

\* ServerActivity, the acceptor and the gate.
ServerInv == /\ LoopsOk /\ StreamsOk /\ PipesOk /\ FlagsOk /\ AcceptOk
             /\ CountsOk /\ MainOk /\ GateOk /\ AuthOk

-----------------------------------------------------------------------------
(* Requests and replies in step: the parts of the invariant, about the     *)
(* values of a session's variables.                                        *)

IsReply(it) == it.what \notin {"none", "ready"}

\* With w at writeLoop and q in the channel: the place in asked of the request that
\* q[i] is the reply to, and of the one that readLoop is at, or will read next.
Written(w)        == IF IsReply(w) THEN 1 ELSE 0
ReadyBefore(q, i) == \E j \in DOMAIN q : j < i /\ q[j].what = "ready"
Place(w, q, i)    == Written(w) + i - (IF ReadyBefore(q, i) THEN 1 ELSE 0)
Here(w, q)        == Place(w, q, Len(q) + 1)

\* Each reply answers its request.
Matched(w, q, a) ==
    /\ Here(w, q) - 1 <= Len(a)
    /\ IsReply(w) => Len(a) >= 1 /\ w.cmd \in {"none", a[1]}
    /\ \A i \in DOMAIN q : IsReply(q[i]) =>
         Place(w, q, i) <= Len(a) /\ q[i].cmd \in {"none", a[Place(w, q, i)]}

\* The client has read, or reads before q[i], that its negotiation has succeeded.
ToldAt(h, w, q, i) == \/ "negotiate" \in h \/ w.cmd = "negotiate"
                      \/ \E j \in DOMAIN q : j < i /\ q[j].cmd = "negotiate"

TypedRight(h, w, q, b) ==
    /\ b = ToldAt(h, w, q, Len(q) + 1)
    /\ w.what = "error" => w.typed = ("negotiate" \in h)
    /\ \A i \in DOMAIN q : q[i].what = "error" => q[i].typed = ToldAt(h, w, q, i)

\* READY is the last thing under way, or, with k, the last but one.
ReadyUnder(w, q)   == w.what = "ready" \/ \E i \in DOMAIN q : q[i].what = "ready"
ReadyLast(w, q, k) == /\ w.what = "ready" => Len(q) = k
                      /\ \A i \in DOMAIN q : q[i].what = "ready" => Len(q) = i + k

\* An upload is the last request: its client waits for the end of it.
UploadLast(a) == \A i \in DOMAIN a : a[i] = "upload" => i = Len(a)
AsksUpload(a) == Len(a) > 0 /\ a[Len(a)] = "upload"

\* The requests in the stream b are those of a from n on.
Numbers(f, n, b, a) ==
    /\ f[0] = n /\ f[Len(b)] = Len(a)
    /\ \A p, r \in 0 .. Len(b) : p <= r => f[p] <= f[r]
    /\ \A p \in 1 .. Len(b) :
         IF b[p] \in Kinds THEN f[p] = f[p - 1] + 1 /\ a[f[p]] = b[p]
                           ELSE f[p] = f[p - 1]
Numbered(n, b, a) == \E f \in [0 .. Len(b) -> 0 .. Len(a)] : Numbers(f, n, b, a)

\* The stream, for a readLoop at r: requests, one after the other, the first perhaps
\* begun, or the chunks of a file.
Follows(x, y) == \/ x \in {"negotiate", "body"} /\ y \in Kinds
                 \/ x = "upload" /\ y = "meta"
                 \/ x \in Kinds \ {"negotiate", "upload"} /\ y = "body"
Expected(r, n) == IF r \in {"body", "drain"} THEN {"body"}
                  ELSE IF r = "meta" THEN {"meta"}
                  ELSE IF r \in {"probe", "move"} \/ (r = "send" /\ n \in {"chunk", "probe"})
                       THEN {} ELSE Kinds
Chain(b) == \A p \in 2 .. Len(b) : Follows(b[p - 1], b[p])
Framed(r, n, b) ==
    IF r = "chunk" THEN \A p \in 1 .. Len(b) : b[p] = "chunk"
    ELSE Chain(b) /\ (Len(b) > 0 => b[1] \in Expected(r, n))

\* It ends with a request, or with chunks.
Whole(r, b) == IF Len(b) = 0 THEN r \notin {"body", "drain", "meta"}
               ELSE b[Len(b)] \in {"negotiate", "body", "meta", "chunk"}

-----------------------------------------------------------------------------
(* The invariant of a session.                                             *)

\* readLoop will read on; it is at a request that it has read and has not answered.
Reads(r, n) == r \notin {"done", "over"} /\ ~(r = "send" /\ n = "done")
At(r)       == r \in {"body", "drain", "exec", "send", "meta", "chunk", "probe", "move"}

GoodItem(it) == /\ it.cmd = "negotiate" => it.what = "ok" /\ ~it.close
                /\ it.what \in {"ready", "final"} => it.cmd = "upload"
                /\ it.what = "error" => it.cmd = "none"

\* What is sent, and what there is before a session is started.
ItemOk(s) ==
    /\ rpc[s] = "send" =>
         /\ item[s].what # "none" /\ item[s].cmd \in {"none", cmd[s]}
         /\ item[s].what = "ready" <=> next[s] \in {"chunk", "probe"}
    /\ wpc[s] = "write" => writing[s].what # "none"
    /\ GoodItem(item[s]) /\ GoodItem(writing[s])
    /\ \A i \in DOMAIN chan[s] : GoodItem(chan[s][i]) /\ chan[s][i].what # "none"
FreshOk(s) == rpc[s] = "none" =>
    /\ wpc[s] = "none" /\ client[s] = "none" /\ inbox[s] = <<>> /\ asked[s] = <<>>
    /\ chan[s] = <<>> /\ owes[s] = 0

\* After a terminal error the session is over.
TerminalOk(s) == "terminal" \in heard[s] => stopped[s]

\* A staging file belongs to an upload that goes on.
StagingOk(s) == staging[s] # None => InCommand(s) /\ rpc[s] # "meta" /\ cmd[s] = "upload"

MapsOk == asked = [s \in Sessions |-> asked[s]] /\ staging \in [Sessions -> Int]

\* What readLoop reads, and what the sink has of it.
FrameOk(s) == Reads(rpc[s], next[s]) => Framed(rpc[s], next[s], inbox[s])
SinkOk(s) ==
    /\ staging[s] \in {None} \cup 0 .. upload[s].size \/ rpc[s] = "finish"
    /\ rpc[s] \in {"probe", "move"} \/ (rpc[s] = "send" /\ next[s] = "probe")
         => staging[s] = upload[s].size
    /\ rpc[s] = "send" /\ next[s] \in {"chunk", "probe"} => staging[s] = 0
    /\ rpc[s] = "chunk" => staging[s] >= 0 /\ staging[s] + Len(inbox[s]) <= upload[s].size

\* The client and the server agree on the requests, on READY and on the chunks.
BooksOk(s) ==
    /\ asked[s] \in Seq(Kinds) /\ UploadLast(asked[s])
    /\ Matched(writing[s], chan[s], asked[s])
    /\ At(rpc[s]) => /\ Here(writing[s], chan[s]) <= Len(asked[s])
                     /\ asked[s][Here(writing[s], chan[s])] = cmd[s]
    /\ rpc[s] \notin {"done", "over"} =>
         Numbered(Here(writing[s], chan[s]) - (IF At(rpc[s]) THEN 0 ELSE 1),
                  inbox[s], asked[s])
    /\ Reads(rpc[s], next[s]) => Whole(rpc[s], inbox[s])
TypesOk(s) ==
    /\ TypedRight(heard[s], writing[s], chan[s], typed[s])
    /\ item[s].what = "error" => item[s].typed = typed[s]
InUpload(s) ==
    /\ owes[s] = 0 /\ inbox[s] = <<>> /\ AsksUpload(asked[s])
    /\ \/ rpc[s] = "chunk" /\ staging[s] = 0
       \/ /\ upload[s].size = 0
          /\ \/ rpc[s] \in {"probe", "move", "finish", "header"}
             \/ rpc[s] = "send" /\ next[s] = "finish"
ReadyOk(s) ==
    /\ ReadyLast(writing[s], chan[s], IF At(rpc[s]) THEN 0 ELSE 1)
    /\ ReadyUnder(writing[s], chan[s]) => InUpload(s)
OwesOk(s) ==
    owes[s] > 0 => /\ rpc[s] = "chunk" /\ inbox[s] = <<>> /\ staging[s] = 0
                   /\ owes[s] = upload[s].size /\ ~ReadyUnder(writing[s], chan[s])

SessionOk(s) == /\ FrameOk(s) /\ SinkOk(s)
                /\ Listens(s) => BooksOk(s) /\ TypesOk(s) /\ ReadyOk(s) /\ OwesOk(s)
PartsOk(s) == ItemOk(s) /\ FreshOk(s) /\ TerminalOk(s) /\ StagingOk(s)

\* The inductive invariant, next to ServerInv.
WireInv == MapsOk /\ \A s \in Sessions : PartsOk(s) /\ SessionOk(s)

-----------------------------------------------------------------------------
(* The files of the upload directory.                                      *)

\* The names that are taken, and the uploads whose files are there.
Used == {n \in Names : disk[n] # Free}
Ofs  == {disk[n].of : n \in Used} \ {Foreign.of}

\* A file is a whole upload or another program's; each upload has one file at most, and
\* a client, or another program, finds under a name the file that it has there.
FilesOk ==
    /\ disk \in [Names -> [of : Int, chunks : Int, size : Nat]]
    /\ requests \in 0 .. MaxRequests
    /\ \A n \in Names : disk[n].chunks = disk[n].size
    /\ \A n \in Used : disk[n].of = Foreign.of \/ disk[n].of \in 1 .. requests
    /\ Cardinality(Used) <= Cardinality(Ofs) + faults
    /\ \A f \in told : f[1] \in Used /\ disk[f[1]].of = f[2]

\* The number of an upload is that of its request.
NumbersOk ==
    \A s \in Sessions :
        /\ upload[s].of \in 0 .. requests
        /\ \A t \in Sessions \ {s} : upload[s].of = 0 \/ upload[s].of # upload[t].of

\* An upload that is still to come has no file yet.
Comes(s) ==
    \/ rpc[s] \in {"meta", "chunk", "probe", "move"}
    \/ rpc[s] = "send" /\ next[s] \in {"chunk", "probe"}
    \/ Reads(rpc[s], next[s]) /\ \E p \in 1 .. Len(inbox[s]) : inbox[s][p] = "upload"
ComesOk(s) == Comes(s) => upload[s].of > 0 /\ \A n \in Used : disk[n].of # upload[s].of

\* publish has found every name below its index taken.
TriedOk(s) == tried[s] \in Names /\ \A m \in 0 .. tried[s] - 1 : disk[m] # Free

\* A final reply names the file.
Under(s) == {item[s], writing[s]} \cup {chan[s][i] : i \in DOMAIN chan[s]}
FinalOk(s, it) ==
    it.what = "final" =>
        it.name \in Used /\ (Listens(s) => disk[it.name].of = upload[s].of)
FinalsOk(s) == \A it \in Under(s) : FinalOk(s, it)

DiskOk(s) == ComesOk(s) /\ TriedOk(s) /\ FinalsOk(s)

\* The inductive invariant, next to ServerInv and WireInv.
DiskInv == FilesOk /\ NumbersOk /\ \A s \in Sessions : DiskOk(s)
=============================================================================
