------------------------------- MODULE FilePush -------------------------------
(***************************************************************************)
(* Files dropped on the file list of a device: the browser asks for an id, *)
(* sends the file chunk by chunk and is answered after each one            *)
(* (FilePushHandler.ts, AdbkitFilePushStream.ts), the server collects the  *)
(* chunks in a temporary file and hands it to `adb push`                   *)
(* (FilePushReader.ts).  Each upload has a channel of its own in the       *)
(* multiplexed websocket of the page (Multiplexer.ts), named here by the   *)
(* upload that created it; a frame is what one Multiplexer.send or close   *)
(* writes, and the websocket keeps the order of frames.                    *)
(***************************************************************************)
EXTENDS Naturals, Sequences

CONSTANTS
    Uploads,   \* the files ever dropped, each with its channel
    None,      \* no upload
    Sizes,     \* bound: how many chunks a file may have
    MaxId      \* the largest id that fits the two bytes of an answer, 32767

ASSUME FilePushAssumption ==
    None \notin Uploads /\ Sizes \subseteq Nat /\ MaxId \in Nat \ {0}

VARIABLES
    page,      \* the modal: "open" or "closed"
    link,      \* the websocket in the browser: "up", or ended "clean" or "lost"
    up,        \* pushFile(), per upload
    waiters,   \* the uploads that wait for an id (responseWaiter of id 0)
    channel,   \* the browser's end of a channel, and the id it was answered
    toServer,  \* frames under way
    toBrowser,
    fileId,    \* FilePushReader.fileId
    server,    \* the process: "up" or "down"
    reader,    \* FilePushReader, per channel
    device     \* the chunks of the file on the device

browserVars == <<page, link, up, waiters, channel>>
serverVars == <<fileId, server, reader, device>>
pushVars == <<browserVars, toServer, toBrowser, serverVars>>

PushInit ==
    /\ page = "open" /\ link = "up" /\ server = "up"
    /\ up = [u \in Uploads |-> [pc |-> "idle", size |-> 0, sent |-> 0, id |-> 0, told |-> "no"]]
    /\ waiters = <<>>
    /\ channel = [c \in Uploads |-> [end |-> "none", id |-> 0]]
    /\ toServer = <<>> /\ toBrowser = <<>>
    /\ fileId \in 1..MaxId   \* the uploads of earlier pages
    /\ reader = [c \in Uploads |-> [pc |-> "none", end |-> "none", id |-> 0, file |-> None,
                                    temp |-> "none", written |-> <<>>, flushed |-> 0]]
    /\ device = [u \in Uploads |-> <<>>]

Frame(c, op, id, file) == [chan |-> c, op |-> op, id |-> id, file |-> file]

\* CloseChannel of the parent channel, or the close of the websocket: every
\* channel in it is closed.
CloseAll == Frame(None, "close", 0, None)

-----------------------------------------------------------------------------
(* The browser.                                                            *)

\* pushFile up to the id: the channel is created and the first request, stored
\* while the channel is connecting, leaves with the microtask that opens it.
Drop(u) ==
    /\ page = "open" /\ link = "up" /\ up[u].pc = "idle"
    /\ \E size \in Sizes :
         up' = [up EXCEPT ![u].pc = "new", ![u].size = size, ![u].told = "begins"]
    /\ waiters' = Append(waiters, u)
    /\ channel' = [channel EXCEPT ![u].end = "open"]
    /\ toServer' = toServer \o <<Frame(u, "create", 0, None), Frame(u, "new", 0, None)>>
    /\ UNCHANGED <<page, link, toBrowser, serverVars>>

ChannelOf(id) == CHOOSE c \in Uploads : channel[c].id = id

\* What comes after `sent` answered requests.
Request(u) ==
    CASE up[u].sent = 0            -> "start"
      [] up[u].sent > up[u].size   -> "finish"
      [] OTHER                     -> "append"

\* The answer and the next chunk are in: the next request leaves.  A channel
\* that closed meanwhile throws, and pushFile ends there.
Send(u) ==
    /\ page = "open" /\ up[u].pc = "ready"
    /\ LET c == ChannelOf(up[u].id) IN
       IF channel[c].end = "open"
       THEN /\ toServer' = Append(toServer, Frame(c, Request(u), up[u].id, u))
            /\ up' = [up EXCEPT ![u].pc = "wait"]
       ELSE /\ up' = [up EXCEPT ![u].pc = "over"]
            /\ UNCHANGED toServer
    /\ UNCHANGED <<page, link, waiters, channel, toBrowser, serverVars>>

\* The browser cannot read the file (getStreamReader, reader.read): the rejection
\* ends pushFile, which nobody catches.  The read runs along with the request before
\* it, and may still run when that is answered.
ReadFails(u) ==
    /\ page = "open"
    /\ \/ up[u].pc = "ready" /\ up[u].sent > 0
       \/ up[u].pc = "wait" /\ up[u].sent <= up[u].size
    /\ up' = [up EXCEPT ![u].pc = "unread", ![u].sent = 0]
    /\ UNCHANGED <<page, link, waiters, channel, toServer, toBrowser, serverVars>>

\* An answer to sendEventNew resolves the waiter that came first; one that
\* nobody waits for is only logged.
Named(c, id) ==
    /\ channel' = [channel EXCEPT ![c].id = id]
    /\ IF waiters = <<>> THEN UNCHANGED <<up, waiters>>
       ELSE /\ up' = [up EXCEPT ![Head(waiters)].pc = "ready", ![Head(waiters)].id = id]
            /\ waiters' = Tail(waiters)

\* processData: success is told with the answer to FINISH.
Answered(u) ==
    IF up[u].sent > up[u].size
    THEN [up[u] EXCEPT !.pc = "over", !.told = "success"]
    ELSE [up[u] EXCEPT !.pc = "ready", !.sent = @ + 1]

Ok(id) ==
    /\ up' = [u \in Uploads |-> IF up[u].id = id /\ up[u].pc = "wait" THEN Answered(u) ELSE up[u]]
    /\ UNCHANGED <<waiters, channel>>

\* onStreamError: the error is shown on the row of the file that has the id.  A
\* channel closed before its id came is the error of an "Unknown file".
ToldError(closed) ==
    [u \in Uploads |-> IF up[u].id # 0 /\ \E c \in closed : channel[c].id = up[u].id
                       THEN [up[u] EXCEPT !.told = "error"] ELSE up[u]]

\* onClose: a clean close is no error.
ChannelCloses(closed, clean) ==
    /\ channel' = [c \in Uploads |-> IF c \in closed THEN [channel[c] EXCEPT !.end = "closed"]
                                     ELSE channel[c]]
    /\ up' = IF clean \/ page = "closed" THEN up ELSE ToldError(closed)
    /\ UNCHANGED waiters

OpenChannels == {c \in Uploads : channel[c].end = "open"}

\* Frames for a channel that is closed here are dropped.
Receive ==
    /\ toBrowser # <<>>
    /\ toBrowser' = Tail(toBrowser)
    /\ LET f == Head(toBrowser) IN
       \/ f.chan \notin OpenChannels /\ UNCHANGED <<up, waiters, channel>>
       \/ f.chan \in OpenChannels /\ f.op = "named" /\ Named(f.chan, f.id)
       \/ f.chan \in OpenChannels /\ f.op = "ok" /\ Ok(f.id)
       \/ f.chan \in OpenChannels /\ f.op = "done" /\ ChannelCloses({f.chan}, TRUE)
       \/ f.chan \in OpenChannels /\ f.op = "error" /\ ChannelCloses({f.chan}, FALSE)
    /\ UNCHANGED <<page, link, toServer, serverVars>>

\* onBeforeClose: the handler is released, and the parent channel closed.
ClosePage ==
    /\ page = "open"
    /\ page' = "closed"
    /\ channel' = [c \in Uploads |-> IF channel[c].end = "open"
                                     THEN [channel[c] EXCEPT !.end = "closed"] ELSE channel[c]]
    /\ toServer' = IF link = "up" THEN Append(toServer, CloseAll) ELSE toServer
    /\ UNCHANGED <<link, up, waiters, toBrowser, serverVars>>

\* The websocket ends, cleanly when SocketRegistry closes the sockets of a login
\* that ended.  The server reads some of what was sent, and then the end.
LinkEnds ==
    /\ link = "up" /\ server = "up"
    /\ link' \in {"clean", "lost"}
    /\ ChannelCloses(OpenChannels, link' = "clean")
    /\ \E n \in 0..Len(toServer) : toServer' = Append(SubSeq(toServer, 1, n), CloseAll)
    /\ toBrowser' = <<>>
    /\ UNCHANGED <<page, serverVars>>

-----------------------------------------------------------------------------
(* The server.                                                             *)

\* Seeded faults: the temporary file stays, a failure closes like a success, and
\* FINISH does not wait for the end of the write stream.
CleanedUpKeeps(r, refused) == r.temp
ErrorFrameIsClean(c) == Frame(c, "done", 0, None)
WrittenOutSoon(r) == TRUE

\* What is sent on a websocket that has ended is lost.
Emit(frames) == toBrowser' = IF link = "up" THEN toBrowser \o frames ELSE toBrowser

\* cleanupTempFile: a file that is still being opened is not there to unlink, and
\* an unlink that is refused is tried no more.
CleanedUp(r, refused) ==
    IF r.temp = "there" THEN (IF refused THEN "kept" ELSE "gone") ELSE r.temp

\* Nothing runs in the reader any more, and nothing reads what it held.
Over(r) == [r EXCEPT !.pc = "over", !.end = "closed", !.file = None, !.written = <<>>, !.flushed = 0]

\* closeWithError, release.  What FINISH awaits goes on.
ErrorFrame(c) == Frame(c, "error", 0, None)
Released(r, refused) ==
    LET cleaned == [r EXCEPT !.end = "closed", !.temp = CleanedUp(r, refused)] IN
    IF r.pc \in {"ending", "pushing"} THEN cleaned ELSE Over(cleaned)

\* onMessage: what the reader expects next, of its own id.
Expects(r, f) ==
    \/ f.op = "new" /\ r.pc = "initial"
    \/ f.op = "start" /\ r.pc = "new" /\ f.id = r.id /\ up[f.file].size > 0
    \/ f.op = "append" /\ r.pc \in {"start", "append"} /\ f.id = r.id
    \/ f.op = "finish" /\ r.pc = "append" /\ f.id = r.id

\* CreateChannel: FileListing makes a reader.
Created(c) ==
    /\ reader' = [reader EXCEPT ![c].pc = "initial", ![c].end = "open"]
    /\ UNCHANGED <<toBrowser, fileId>>

\* NEW: writeInt16BE throws for an id past MaxId, and nothing is answered.
Numbered(c) ==
    /\ fileId' = fileId + 1
    /\ reader' = [reader EXCEPT ![c].pc = "new", ![c].id = fileId']
    /\ Emit(IF fileId' <= MaxId THEN <<Frame(c, "named", fileId', None)>> ELSE <<>>)

\* START: createWriteStream opens the temporary file later.
Started(c, file) ==
    /\ reader' = [reader EXCEPT ![c].pc = "start", ![c].file = file, ![c].temp = "opening"]
    /\ Emit(<<Frame(c, "ok", reader[c].id, None)>>)
    /\ UNCHANGED fileId

\* APPEND: answered before the chunk is on the disk.
Appended(c, chunk) ==
    /\ reader' = [reader EXCEPT ![c].pc = "append", ![c].written = Append(@, chunk)]
    /\ Emit(<<Frame(c, "ok", reader[c].id, None)>>)
    /\ UNCHANGED fileId

\* FINISH: end() waits for the write stream.
Finishing(c) ==
    /\ reader' = [reader EXCEPT ![c].pc = "ending"]
    /\ UNCHANGED <<toBrowser, fileId>>

Refused(c) ==
    /\ \E refused \in BOOLEAN : reader' = [reader EXCEPT ![c] = Released(@, refused)]
    /\ Emit(<<ErrorFrame(c)>>)
    /\ UNCHANGED fileId

\* The end of the parent channel, or of the websocket, releases every reader.
Closed ==
    /\ \E refused \in SUBSET {c \in Uploads : reader[c].end = "open" /\ reader[c].temp = "there"} :
         reader' = [c \in Uploads |-> IF reader[c].end = "open"
                                      THEN Released(reader[c], c \in refused) ELSE reader[c]]
    /\ UNCHANGED <<toBrowser, fileId>>

\* onMessage.
Accepted(f) ==
    \/ f.op = "new" /\ Numbered(f.chan)
    \/ f.op = "start" /\ Started(f.chan, f.file)
    \/ f.op = "append" /\ Appended(f.chan, f.file)
    \/ f.op = "finish" /\ Finishing(f.chan)

Handle ==
    /\ server = "up" /\ toServer # <<>>
    /\ toServer' = Tail(toServer)
    /\ LET f == Head(toServer)  c == f.chan IN
       \/ f.op = "close" /\ Closed
       \/ f.op = "create" /\ Created(c)
       \/ /\ f.op \in {"new", "start", "append", "finish"}
          /\ \/ reader[c].end = "closed" /\ UNCHANGED <<reader, toBrowser, fileId>>
             \/ reader[c].end = "open" /\ ~Expects(reader[c], f) /\ Refused(c)
             \/ reader[c].end = "open" /\ Expects(reader[c], f) /\ Accepted(f)
    /\ UNCHANGED <<browserVars, server, device>>

\* The write stream opens its file, and writes what it was given.
Opens(c) ==
    /\ server = "up" /\ reader[c].temp = "opening"
    /\ reader' = [reader EXCEPT ![c].temp = "there"]
    /\ UNCHANGED <<browserVars, toServer, toBrowser, fileId, server, device>>

\* An open file is written whether it still has its name or not.
Opened(r) == r.temp \in {"there", "kept", "gone"}

Flushes(c) ==
    /\ server = "up" /\ Opened(reader[c])
    /\ reader[c].flushed < Len(reader[c].written)
    /\ reader' = [reader EXCEPT ![c].flushed = @ + 1]
    /\ UNCHANGED <<browserVars, toServer, toBrowser, fileId, server, device>>

WrittenOut(r) == Opened(r) /\ r.flushed = Len(r.written)

\* FINISH after the end of the write stream: adb push starts.  A reader that was
\* released has no path any more: adb refuses the empty one, and nobody is told.
Ended(c) ==
    /\ server = "up" /\ reader[c].pc = "ending" /\ WrittenOut(reader[c])
    /\ reader' = [reader EXCEPT ![c] = IF @.end = "open" THEN [@ EXCEPT !.pc = "pushing"] ELSE Over(@)]
    /\ UNCHANGED <<browserVars, toServer, toBrowser, fileId, server, device>>

\* adb push is over.  The temporary file goes with it, unless the reader was
\* released meanwhile; a channel still open is told and closed.
PushEnds(c, frames) ==
    /\ server = "up" /\ reader[c].pc = "pushing"
    /\ IF reader[c].end = "open"
       THEN /\ \E refused \in BOOLEAN :
                 reader' = [reader EXCEPT ![c] = Over(Released(@, refused))]
            /\ Emit(frames)
       ELSE reader' = [reader EXCEPT ![c] = Over(@)] /\ UNCHANGED toBrowser
    /\ UNCHANGED <<browserVars, toServer, fileId, server>>

Sent(c, n) == SubSeq(reader[c].written, 1, n)

PushSucceeds(c) ==
    /\ PushEnds(c, <<Frame(c, "ok", reader[c].id, None), Frame(c, "done", 0, None)>>)
    /\ device' = [device EXCEPT ![reader[c].file] = Sent(c, reader[c].flushed)]

\* What adb had written by then stays on the device.
PushFails(c) ==
    /\ PushEnds(c, <<ErrorFrame(c)>>)
    /\ \E n \in 0..reader[c].flushed : device' = [device EXCEPT ![reader[c].file] = Sent(c, n)]

\* The process ends: it is stopped, or a write that fails is an error event of the
\* write stream that nobody listens to.
ServerDies ==
    /\ server = "up"
    /\ server' = "down"
    /\ reader' = [c \in Uploads |-> Over(reader[c])]
    /\ link' = IF link = "up" THEN "lost" ELSE link
    /\ IF link = "up" THEN ChannelCloses(OpenChannels, FALSE) ELSE UNCHANGED <<up, waiters, channel>>
    /\ toServer' = <<>> /\ toBrowser' = <<>>
    /\ UNCHANGED <<page, fileId, device>>

PushNext ==
    \/ \E u \in Uploads : Drop(u) \/ Send(u) \/ ReadFails(u)
    \/ Receive \/ ClosePage \/ LinkEnds \/ Handle \/ ServerDies
    \/ \E c \in Uploads : Opens(c) \/ Flushes(c) \/ Ended(c) \/ PushSucceeds(c) \/ PushFails(c)

PushSpec == PushInit /\ [][PushNext]_pushVars

\* The event loops of both sides go on, the disk answers, and adb ends.
PushFairness ==
    /\ WF_pushVars(Handle) /\ WF_pushVars(Receive)
    /\ \A u \in Uploads : WF_pushVars(Send(u))
    /\ \A c \in Uploads :
         WF_pushVars(Opens(c)) /\ WF_pushVars(Flushes(c)) /\ WF_pushVars(Ended(c))
           /\ WF_pushVars(PushSucceeds(c) \/ PushFails(c))

PushFairSpec == PushSpec /\ PushFairness
-----------------------------------------------------------------------------
(* Properties.                                                             *)

Requests == {"create", "new", "start", "append", "finish", "close"}
Answers == {"named", "ok", "done", "error"}
FrameType(ops) ==
    [chan : Uploads \cup {None}, op : ops, id : Nat, file : Uploads \cup {None}]
UploadType ==
    [pc : {"idle", "new", "ready", "wait", "unread", "over"}, size : Nat, sent : Nat,
     id : Nat, told : {"no", "begins", "success", "error"}]
ChannelType == [end : {"none", "open", "closed"}, id : Nat]
ReaderType ==
    [pc : {"none", "initial", "new", "start", "append", "ending", "pushing", "over"},
     end : {"none", "open", "closed"}, id : Nat, file : Uploads \cup {None},
     temp : {"none", "opening", "there", "kept", "gone"}, written : Seq(Uploads), flushed : Nat]

PushTypeOK ==
    /\ page \in {"open", "closed"} /\ link \in {"up", "clean", "lost"} /\ server \in {"up", "down"}
    /\ up \in [Uploads -> UploadType] /\ waiters \in Seq(Uploads)
    /\ channel \in [Uploads -> ChannelType]
    /\ toServer \in Seq(FrameType(Requests)) /\ toBrowser \in Seq(FrameType(Answers))
    /\ fileId \in Nat
    /\ reader \in [Uploads -> ReaderType]
    /\ device \in [Uploads -> Seq(Uploads)]

\* A file the page calls uploaded is on the device, all of its chunks and no
\* other's, although every chunk is answered before it is on the disk
\* (FilePushReader.onMessage) and several files share one counter of ids.
SuccessIsWhole ==
    \A u \in Uploads : up[u].told = "success" => device[u] = [k \in 1..up[u].size |-> u]

\* A reader that is released tries to unlink its temporary file, except when that
\* was not open yet (FilePushReader.cleanupTempFile finds nothing, and createWriteStream
\* makes the file after it) or when the process ended.  A file whose one unlink was
\* refused ("kept") is the other that stays.
LeftBehind(c) == reader[c].end = "closed" /\ reader[c].temp = "there"

TempFilesGo ==
    [][\A c \in Uploads :
         LeftBehind(c)' /\ ~LeftBehind(c) => reader[c].temp = "opening" \/ server' = "down"]_pushVars

\* Every dropped file comes to an end on its row: an upload whose reader refused,
\* whose push failed or whose socket was lost is told (AdbkitFilePushStream).  It
\* is not if the modal closed, the socket ended cleanly (docs/TECHNICAL_GUIDE.md
\* says so), the browser could not read the file, or no id had come when the socket
\* was lost or the ids ran out.
Untold(u) ==
    \/ page = "closed" \/ link = "clean" \/ up[u].pc = "unread"
    \/ up[u].id = 0 /\ (link = "lost" \/ reader[u].id > MaxId)

UploadIsTold ==
    \A u \in Uploads :
        up[u].told = "begins" ~> (up[u].told \in {"success", "error"} \/ Untold(u))

=============================================================================
