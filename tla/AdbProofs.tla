------------------------------- MODULE AdbProofs -------------------------------
(***************************************************************************)
(* Of the adb daemon (AdbDaemon): that nobody ever waits for a spawn of it *)
(* that is over, that callers share one spawn until something is killed,   *)
(* and that a kill stands until a client asks again, for any number of     *)
(* clients, spawns and stops.                                              *)
(* Of the uploads that end in `adb push` (FilePush): that a file the page  *)
(* calls uploaded is whole on the device, and when a temporary file may be *)
(* left behind, for any number of uploads, sizes and ids.                  *)
(***************************************************************************)
EXTENDS AdbDaemon, FilePush, FiniteSetTheorems, TLAPS

-----------------------------------------------------------------------------
(* The adb daemon.                                                         *)

\* A client holds the promise of a spawn only while it awaits it.
WaitersWait == \A c \in Clients : waitsFor[c] # NoSpawn => call[c] = "waiting"

DaemonInv == TypeOK /\ WaitersWait /\ NobodyWaitsForNothing

LEMMA DaemonInitInv == Init => DaemonInv
  BY DEF Init, DaemonInv, TypeOK, WaitersWait, NobodyWaitsForNothing, Running

\* Settling answers every caller that awaits the spawn and forgets its promise.
LEMMA SettlesKeeps ==
  ASSUME DaemonInv, NEW i \in Spawns, NEW result \in {"idle", "ready"},
         NEW next \in {"idle", "exec"},
         spawn[i] # "idle", Settles(i, result, next),
         UNCHANGED <<kill, daemon, process>>
  PROVE  DaemonInv'
<1> USE DEF DaemonInv, Settles, Settled, Cleared, Running
<1>1. TypeOK'
  BY DEF TypeOK
<1>2. WaitersWait'
  BY DEF TypeOK, WaitersWait
<1>3. NobodyWaitsForNothing'
  <2>1. state' # "starting" /\ inflight' = NoSpawn
    BY DEF TypeOK
  <2>2. ASSUME NEW c \in Clients, call'[c] = "waiting"
        PROVE  waitsFor'[c] \in Running'
    BY <2>2 DEF TypeOK, NobodyWaitsForNothing
  <2> QED BY <2>1, <2>2 DEF NobodyWaitsForNothing
<1> QED BY <1>1, <1>2, <1>3

\* ensureReady, and the command that follows it.
LEMMA CallKeeps ==
  ASSUME DaemonInv, NEW c \in Clients, Call(c)
  PROVE  DaemonInv'
<1> USE DEF DaemonInv, Running
<1>1. CASE CallReady(c)
  BY <1>1 DEF CallReady, TypeOK, WaitersWait, NobodyWaitsForNothing
<1>2. CASE CallSpawns(c)
  <2>1. PICK i \in Spawns : /\ spawn[i] = "idle"
                            /\ spawn' = [spawn EXCEPT ![i] = "binary"]
                            /\ inflight' = i
                            /\ Waits(c, i)
    BY <1>2 DEF CallSpawns
  <2>2. state' = "starting" /\ UNCHANGED <<kill, daemon, process>>
    BY <1>2 DEF CallSpawns
  <2>3. TypeOK'
    BY <2>1, <2>2 DEF TypeOK, Waits
  <2>4. WaitersWait'
    BY <2>1 DEF TypeOK, Waits, WaitersWait
  <2>5. \A j \in Running \cup {i} : j \in Running'
    BY <2>1 DEF TypeOK
  <2>6. NobodyWaitsForNothing'
    BY <2>1, <2>5, DaemonAssumption DEF DaemonAssumption, TypeOK, Waits, NobodyWaitsForNothing
  <2> QED BY <2>3, <2>4, <2>6
<1>3. CASE CallJoins(c)
  BY <1>3 DEF CallJoins, Waits, TypeOK, WaitersWait, NobodyWaitsForNothing
<1>4. CASE WaitTimesOut(c)
  BY <1>4 DEF WaitTimesOut, TypeOK, WaitersWait, NobodyWaitsForNothing
<1>5. CASE CommandRuns(c)
  BY <1>5 DEF CommandRuns, TypeOK, WaitersWait, NobodyWaitsForNothing
<1> QED BY <1>1, <1>2, <1>3, <1>4, <1>5 DEF Call

\* The awaits of spawnLifecycle.
LEMMA LifecycleKeeps ==
  ASSUME DaemonInv, NEW i \in Spawns, Lifecycle(i)
  PROVE  DaemonInv'
<1>1. CASE BinaryFound(i)
  BY <1>1 DEF BinaryFound, DaemonInv, Running, TypeOK, WaitersWait, NobodyWaitsForNothing
<1>2. CASE BinaryTimesOut(i)
  BY <1>2, SettlesKeeps DEF BinaryTimesOut
<1>3. CASE DaemonForks(i)
  BY <1>3 DEF DaemonForks, DaemonInv, Running, TypeOK, WaitersWait, NobodyWaitsForNothing
<1>4. CASE StartServerExits(i)
  BY <1>4, SettlesKeeps DEF StartServerExits
<1>5. CASE StartServerFails(i)
  BY <1>5, SettlesKeeps DEF StartServerFails
<1> QED BY <1>1, <1>2, <1>3, <1>4, <1>5 DEF Lifecycle

LEMMA KillKeeps ==
  ASSUME DaemonInv, NEW k \in Killers, Kill(k) \/ KillServerRuns(k)
  PROVE  DaemonInv'
<1> USE DaemonAssumption DEF DaemonAssumption, DaemonInv, Running
<1>1. CASE Kill(k)
  BY <1>1 DEF Kill, TypeOK, WaitersWait, NobodyWaitsForNothing
<1>2. CASE KillServerRuns(k)
  BY <1>2 DEF KillServerRuns, TypeOK, WaitersWait, NobodyWaitsForNothing
<1> QED BY <1>1, <1>2

LEMMA DaemonNextInv == DaemonInv /\ [Next]_vars => DaemonInv'
<1> SUFFICES ASSUME DaemonInv, [Next]_vars PROVE DaemonInv'
  OBVIOUS
<1>1. CASE \E c \in Clients : Call(c)
  BY <1>1, CallKeeps
<1>2. CASE \E i \in Spawns : Lifecycle(i)
  BY <1>2, LifecycleKeeps
<1>3. CASE \E k \in Killers : Kill(k) \/ KillServerRuns(k)
  BY <1>3, KillKeeps
<1>4. CASE Exit
  BY <1>4 DEF Exit, DaemonInv, Running, TypeOK, WaitersWait, NobodyWaitsForNothing
<1>5. CASE UNCHANGED vars
  BY <1>5 DEF vars, DaemonInv, Running, TypeOK, WaitersWait, NobodyWaitsForNothing
<1> QED BY <1>1, <1>2, <1>3, <1>4, <1>5 DEF Next

\* The inductive invariant of the daemon's manager.
THEOREM DaemonInvariant == Spec => []DaemonInv
<1>1. Init => DaemonInv
  BY DaemonInitInv
<1>2. DaemonInv /\ [Next]_vars => DaemonInv'
  BY DaemonNextInv
<1> QED BY <1>1, <1>2, PTL DEF Spec

\* However kills and spawns overlap, nobody waits for a spawn that is over.
THEOREM NobodyWaitsForNothingHolds == Spec => []NobodyWaitsForNothing
<1>1. DaemonInv => NobodyWaitsForNothing
  BY DEF DaemonInv
<1> QED BY <1>1, DaemonInvariant, PTL

\* Only a client that asks for the daemon ends the state "killed".
LEMMA StepKeepsKill ==
  ASSUME DaemonInv, [Next]_vars, state = "killed", state' # "killed"
  PROVE  /\ state' = "starting"
         /\ \E c \in Clients : call[c] = "idle" /\ call'[c] = "waiting"
<1>1. CASE \E c \in Clients : Call(c)
  <2>1. PICK c \in Clients : Call(c)
    BY <1>1
  <2>2. CallSpawns(c)
    BY <2>1 DEF Call, CallReady, CallJoins, WaitTimesOut, CommandRuns
  <2> QED BY <2>2 DEF CallSpawns, Waits, DaemonInv, TypeOK
<1>2. CASE \E i \in Spawns : Lifecycle(i)
  BY <1>2 DEF Lifecycle, BinaryFound, BinaryTimesOut, DaemonForks, StartServerExits,
              StartServerFails, Settles, Settled
<1>3. CASE \E k \in Killers : Kill(k) \/ KillServerRuns(k)
  BY <1>3 DEF Kill, KillServerRuns
<1>4. CASE Exit \/ UNCHANGED vars
  BY <1>4 DEF Exit, vars
<1> QED BY <1>1, <1>2, <1>3, <1>4 DEF Next

\* A kill stands against the spawn that was in flight, until a client asks again.
THEOREM KilledUntilAskedHolds == Spec => KilledUntilAsked
<1>1. DaemonInv /\ [Next]_vars =>
        [state = "killed" /\ state' # "killed" =>
           state' = "starting"
           /\ \E c \in Clients : call[c] = "idle" /\ call'[c] = "waiting"]_vars
  BY StepKeepsKill
<1> QED BY <1>1, DaemonInvariant, PTL DEF Spec, KilledUntilAsked

-----------------------------------------------------------------------------
(* Single flight.  What keeps a second spawn from starting is `inflight`,  *)
(* so the induction is on the spawn it names and not on how many there are. *)

NothingKilled == \A k \in Killers : kill[k] = "idle"

OnlyInflight == NothingKilled => \A i \in Running : i = inflight

\* A spawn that settles leaves none behind it.
LEMMA SettlesKeepsOnly ==
  ASSUME DaemonInv, OnlyInflight, NEW i \in Spawns, NEW result, NEW next,
         spawn[i] # "idle", Settles(i, result, next), UNCHANGED kill
  PROVE  OnlyInflight'
<1>1. NothingKilled => \A j \in Running : j = i
  BY DEF OnlyInflight, Running
<1>2. \A j \in Running' : j \in Running /\ j # i
  BY DEF Settles, DaemonInv, TypeOK, Running
<1> QED BY <1>1, <1>2 DEF OnlyInflight, NothingKilled

LEMMA NextOnlyInflight == DaemonInv /\ OnlyInflight /\ [Next]_vars => OnlyInflight'
<1> SUFFICES ASSUME DaemonInv, OnlyInflight, [Next]_vars PROVE OnlyInflight'
  OBVIOUS
<1> USE DEF DaemonInv, Running, NothingKilled
<1>1. ASSUME NEW c \in Clients, Call(c) PROVE OnlyInflight'
  <2>1. CASE CallSpawns(c)
    <3>1. NothingKilled => Running = {}
      BY <2>1, DaemonAssumption DEF CallSpawns, MustSpawn, OnlyInflight, TypeOK, DaemonAssumption
    <3>2. PICK i \in Spawns : /\ spawn' = [spawn EXCEPT ![i] = "binary"]
                              /\ inflight' = i
      BY <2>1 DEF CallSpawns
    <3>3. UNCHANGED kill
      BY <2>1 DEF CallSpawns
    <3> QED BY <3>1, <3>2, <3>3 DEF OnlyInflight, TypeOK
  <2>2. CASE CallReady(c) \/ CallJoins(c) \/ WaitTimesOut(c) \/ CommandRuns(c)
    BY <2>2 DEF CallReady, CallJoins, WaitTimesOut, CommandRuns, OnlyInflight
  <2> QED BY <1>1, <2>1, <2>2 DEF Call
<1>2. ASSUME NEW i \in Spawns, Lifecycle(i) PROVE OnlyInflight'
  <2>1. CASE BinaryFound(i) \/ DaemonForks(i)
    <3>1. Running' \subseteq Running /\ UNCHANGED <<kill, inflight>>
      BY <2>1 DEF BinaryFound, DaemonForks, TypeOK
    <3> QED BY <3>1 DEF OnlyInflight
  <2>2. CASE BinaryTimesOut(i) \/ StartServerExits(i) \/ StartServerFails(i)
    BY <2>2, SettlesKeepsOnly DEF BinaryTimesOut, StartServerExits, StartServerFails
  <2> QED BY <1>2, <2>1, <2>2 DEF Lifecycle
<1>3. ASSUME NEW k \in Killers, Kill(k) \/ KillServerRuns(k) PROVE OnlyInflight'
  <2>1. ~NothingKilled'
    BY <1>3, DaemonAssumption DEF Kill, KillServerRuns, TypeOK, DaemonAssumption
  <2> QED BY <2>1 DEF OnlyInflight
<1>4. CASE Exit \/ UNCHANGED vars
  BY <1>4 DEF Exit, vars, OnlyInflight
<1> QED BY <1>1, <1>2, <1>3, <1>4 DEF Next

\* As long as nothing was killed, concurrent callers share one spawn.
THEOREM SingleFlightHolds == Spec => []SingleFlight
<1>1. Init => OnlyInflight
  BY DEF Init, OnlyInflight, Running
<1>2. OnlyInflight => SingleFlight
  <2> SUFFICES ASSUME OnlyInflight, NothingKilled PROVE Cardinality(Running) <= 1
    BY DEF SingleFlight, NothingKilled
  <2>1. Running \in SUBSET {inflight}
    BY DEF OnlyInflight
  <2>2. IsFiniteSet({inflight}) /\ Cardinality({inflight}) = 1
    BY FS_Singleton
  <2> QED BY <2>1, <2>2, FS_Subset
<1> QED BY <1>1, <1>2, NextOnlyInflight, DaemonInvariant, PTL DEF Spec

-----------------------------------------------------------------------------
(* The uploads.  A request and its answer alternate, so that a channel has *)
(* at most one of them under way: that is what lets the progress of the    *)
(* reader be compared with that of the upload at every moment, also while  *)
(* frames are lost.                                                        *)

\* Requests of an upload that has its id.
Asks == {"start", "append", "finish"}
\* Readers that take a request.
Going == {"new", "start", "append"}
\* The first n chunks of u.
Chunks(n, u) == [k \in 1..n |-> u]
\* How many requests of its upload a reader has accepted.
Done(r) == IF r.pc = "new" THEN 0 ELSE 1 + Len(r.written)

\* No two frames of these kinds are for one channel.
Apart(frames, ops) ==
    \A k, l \in 1..Len(frames) :
       frames[k].op \in ops /\ frames[l].op \in ops /\ frames[k].chan = frames[l].chan => k = l

\* A reader exists from the moment the server's end of its channel does.
EndsInv ==
    \A c \in Uploads : reader[c].pc = "none" <=> reader[c].end = "none"

\* fileId is never given twice: an id is one reader's, known to at most its own
\* channel and one upload, and it is not 0 once given.
IdsInv ==
    /\ \A c \in Uploads :
         /\ reader[c].id <= fileId
         /\ reader[c].pc \in {"none", "initial"} => reader[c].id = 0
         /\ reader[c].pc \notin {"none", "initial", "over"} => reader[c].id # 0
         /\ channel[c].id \in {0, reader[c].id}
    /\ \A c, d \in Uploads : reader[c].id # 0 /\ reader[c].id = reader[d].id => c = d
    /\ \A u \in Uploads :
         /\ up[u].id # 0 <=> up[u].pc \in {"ready", "wait", "unread", "over"}
         /\ up[u].id # 0 => \E c \in Uploads : channel[c].id = up[u].id
    /\ \A u, v \in Uploads : up[u].id # 0 /\ up[u].id = up[v].id => u = v

\* responseWaiter of id 0: the uploads that wait for an id, each once.
WaitersInv ==
    /\ \A k \in 1..Len(waiters) : up[waiters[k]].pc = "new"
    /\ \A k, l \in 1..Len(waiters) : waiters[k] = waiters[l] => k = l

\* At most one id is under way in a channel, that of its reader.
NamedInv ==
    /\ \A f \in Range(toBrowser) : f.op = "named" =>
         /\ f.chan \in Uploads
         /\ f.id = reader[f.chan].id /\ f.id # 0 /\ channel[f.chan].id = 0
    /\ Apart(toBrowser, {"named"})

\* A channel is asked for once, before it has a reader.
CreateInv ==
    /\ link = "up" => /\ server = "up"
                      /\ \A c \in Uploads : reader[c].pc # "none" => up[c].pc # "idle"
    /\ \A f \in Range(toServer) :
         /\ f.op # "close" => f.chan \in Uploads
         /\ f.op = "create" => reader[f.chan].pc = "none" /\ up[f.chan].pc # "idle"
    /\ Apart(toServer, {"create"})

\* A request under way is what its upload waits for, and the reader that has not
\* ended expects it: it has accepted as many as the upload was answered.  An upload
\* that could not be read waits no more, and never asked for the end.
RequestOK(f) ==
    /\ f.file \in Uploads
    /\ f.id # 0 /\ f.id = up[f.file].id /\ f.id = reader[f.chan].id
    /\ reader[f.chan].pc \in Going \cup {"over"}
    /\ \/ /\ up[f.file].pc = "wait" /\ f.op = Request(f.file)
          /\ reader[f.chan].pc \in Going => Done(reader[f.chan]) = up[f.file].sent
       \/ up[f.file].pc = "unread" /\ f.op # "finish"

\* At most one request is under way in a channel.
RequestsInv ==
    /\ \A f \in Range(toServer) : f.op \in Asks => RequestOK(f)
    /\ Apart(toServer, Asks)

\* An answer under way is that of the last request of its upload: the reader is one
\* ahead of it, or over with the whole file on the device.  One of an upload that could
\* not be read is dropped.
AnswersWait(f, u) ==
    /\ up[u].pc = "wait"
    /\ up[u].sent > up[u].size =>
         reader[f.chan].pc = "over" /\ device[u] = Chunks(up[u].size, u)
    /\ up[u].sent <= up[u].size =>
         /\ reader[f.chan].pc \in Going \cup {"over"}
         /\ reader[f.chan].pc \in Going => Done(reader[f.chan]) = up[u].sent + 1
AnswersUnread(f, u) == up[u].pc = "unread" /\ reader[f.chan].pc \in Going \cup {"over"}
AnswerOK(f) ==
    /\ f.chan \in Uploads
    /\ f.id # 0 /\ f.id = reader[f.chan].id
    /\ \E u \in Uploads : up[u].id = f.id /\ (AnswersWait(f, u) \/ AnswersUnread(f, u))

\* At most one answer is under way in a channel, and never along with a request.
AnswersInv ==
    /\ \A f \in Range(toBrowser) : f.op = "ok" => AnswerOK(f)
    /\ Apart(toBrowser, {"ok"})
    /\ \A f \in Range(toServer), g \in Range(toBrowser) :
         f.op \in Asks /\ g.op = "ok" => f.chan # g.chan

\* A reader holds only chunks of its own file, and ends it when all were accepted.
ReaderOK(r) ==
    /\ r.pc \in {"none", "initial", "new"} => r.file = None /\ r.written = <<>>
    /\ r.pc = "start" => r.written = <<>>
    /\ r.pc \in {"start", "append", "ending", "pushing"} => r.file # None
    /\ r.file # None => r.id # 0 /\ up[r.file].id = r.id /\ r.written = Chunks(Len(r.written), r.file)
    /\ r.flushed <= Len(r.written)
    /\ r.pc \in {"ending", "pushing"} =>
         /\ up[r.file].pc = "wait" /\ up[r.file].sent = up[r.file].size + 1
         /\ Len(r.written) = up[r.file].size
    /\ r.pc = "pushing" => r.flushed = Len(r.written)
ReadersInv == \A c \in Uploads : ReaderOK(reader[c])
\* An upload about to ask has been answered all that its reader accepted.
ReadyInv ==
    \A u \in Uploads :
       /\ up[u].pc \in {"idle", "new"} => up[u].sent = 0
       /\ up[u].sent <= up[u].size + 1
       /\ up[u].pc = "ready" => \A c \in Uploads : reader[c].id = up[u].id =>
            /\ reader[c].pc \in Going \cup {"over"}
            /\ reader[c].pc \in Going => Done(reader[c]) = up[u].sent

\* SuccessIsWhole, and nothing that could still touch the file.
SuccessInv ==
    \A u \in Uploads : up[u].told = "success" =>
       /\ up[u].pc = "over" /\ device[u] = Chunks(up[u].size, u)
       /\ \A c \in Uploads : reader[c].id = up[u].id => reader[c].pc = "over"

\* The inductive invariant.
PushInv ==
    /\ PushTypeOK /\ EndsInv /\ IdsInv /\ WaitersInv /\ NamedInv /\ CreateInv
    /\ RequestsInv /\ AnswersInv /\ ReadersInv /\ ReadyInv /\ SuccessInv

-----------------------------------------------------------------------------
\* The empty queue.
LEMMA NoFrames ==
  ASSUME NEW ops
  PROVE  Range(<<>>) = {} /\ Apart(<<>>, ops)
BY DEF Range, Apart

\* A frame that is sent joins those under way.
LEMMA OneMore ==
  ASSUME NEW S, NEW s \in Seq(S), NEW f \in S
  PROVE  /\ Append(s, f) \in Seq(S)
         /\ Range(Append(s, f)) = Range(s) \cup {f}
<1>1. Append(s, f) \in Seq(S) /\ Len(Append(s, f)) = Len(s) + 1 /\ Len(s) \in Nat
  OBVIOUS
<1>2. \A k \in 1..Len(s) : Append(s, f)[k] = s[k]
  OBVIOUS
<1>3. Append(s, f)[Len(s) + 1] = f
  OBVIOUS
<1>4. DOMAIN s = 1..Len(s) /\ DOMAIN Append(s, f) = 1..Len(s) + 1
  OBVIOUS
<1> QED BY <1>1, <1>2, <1>3, <1>4 DEF Range

\* ... and leaves them apart when none of its kind is in its channel.
LEMMA OneMoreApart ==
  ASSUME NEW S, NEW s \in Seq(S), NEW f \in S, NEW ops, Apart(s, ops),
         f.op \in ops => \A g \in Range(s) : g.op \in ops => g.chan # f.chan
  PROVE  Apart(Append(s, f), ops)
<1>1. Len(Append(s, f)) = Len(s) + 1 /\ Len(s) \in Nat
  OBVIOUS
<1>2. \A k \in 1..Len(s) : Append(s, f)[k] = s[k] /\ s[k] \in Range(s)
  BY DEF Range
<1>3. Append(s, f)[Len(s) + 1] = f
  OBVIOUS
<1>4. \A k \in 1..Len(s) + 1 : k \in 1..Len(s) \/ k = Len(s) + 1
  BY <1>1
<1> QED BY <1>1, <1>2, <1>3, <1>4 DEF Apart

\* The frame that is taken was under way, and the others stay.
LEMMA OneLess ==
  ASSUME NEW S, NEW s \in Seq(S), s # <<>>
  PROVE  /\ Head(s) \in Range(s) /\ Head(s) \in S
         /\ Tail(s) \in Seq(S)
         /\ Range(Tail(s)) \subseteq Range(s)
<1>1. Len(s) \in Nat \ {0} /\ Tail(s) \in Seq(S) /\ Len(Tail(s)) = Len(s) - 1
  OBVIOUS
<1>2. \A k \in 1..Len(s) - 1 : Tail(s)[k] = s[k + 1] /\ k + 1 \in 1..Len(s)
  BY <1>1
<1>3. Head(s) = s[1] /\ 1 \in 1..Len(s)
  BY <1>1
<1>4. DOMAIN s = 1..Len(s) /\ DOMAIN Tail(s) = 1..Len(s) - 1
  BY <1>1
<1> QED BY <1>1, <1>2, <1>3, <1>4 DEF Range

\* ... and no other of its kind is in its channel.
LEMMA OneLessApart ==
  ASSUME NEW S, NEW s \in Seq(S), s # <<>>, NEW ops, Apart(s, ops)
  PROVE  /\ Apart(Tail(s), ops)
         /\ Head(s).op \in ops =>
              \A g \in Range(Tail(s)) : g.op \in ops => g.chan # Head(s).chan
<1>1. Len(s) \in Nat \ {0} /\ Tail(s) \in Seq(S) /\ Len(Tail(s)) = Len(s) - 1
  OBVIOUS
<1>2. \A k \in 1..Len(s) - 1 : Tail(s)[k] = s[k + 1] /\ k + 1 \in 1..Len(s)
  BY <1>1
<1>3. Head(s) = s[1] /\ 1 \in 1..Len(s)
  BY <1>1
<1>4. \A g \in Range(Tail(s)) : \E k \in 1..Len(s) - 1 : g = s[k + 1]
  BY <1>1, <1>2 DEF Range
<1>5. \A k, l \in 1..Len(s) - 1 : k + 1 = l + 1 => k = l
  BY <1>1
<1>6. \A k \in 1..Len(s) - 1 : k + 1 # 1
  BY <1>1
<1> QED BY <1>1, <1>2, <1>3, <1>4, <1>5, <1>6 DEF Apart

\* A websocket that ends loses the frames after some point.
LEMMA SomeOf ==
  ASSUME NEW S, NEW s \in Seq(S), NEW n \in 0..Len(s), NEW ops, Apart(s, ops)
  PROVE  /\ SubSeq(s, 1, n) \in Seq(S)
         /\ Range(SubSeq(s, 1, n)) \subseteq Range(s)
         /\ Apart(SubSeq(s, 1, n), ops)
<1>1. /\ SubSeq(s, 1, n) \in Seq(S) /\ Len(SubSeq(s, 1, n)) = n /\ Len(s) \in Nat
      /\ \A k \in 1..n : SubSeq(s, 1, n)[k] = s[k] /\ k \in 1..Len(s)
  OBVIOUS
<1>2. DOMAIN s = 1..Len(s) /\ DOMAIN SubSeq(s, 1, n) = 1..n
  BY <1>1
<1> QED BY <1>1, <1>2 DEF Range, Apart

\* The two frames that open a channel.
LEMMA TwoMore ==
  ASSUME NEW S, NEW s \in Seq(S), NEW f \in S, NEW g \in S
  PROVE  /\ s \o <<f, g>> = Append(Append(s, f), g)
         /\ s \o <<f, g>> \in Seq(S)
         /\ Range(s \o <<f, g>>) = Range(s) \cup {f, g}
<1>1. s \o <<f, g>> = Append(Append(s, f), g)
  OBVIOUS
<1>2. Append(s, f) \in Seq(S) /\ Range(Append(s, f)) = Range(s) \cup {f}
  BY OneMore
<1>3. PICK t \in Seq(S) : t = Append(s, f)
  BY <1>2
<1>4. Append(t, g) \in Seq(S) /\ Range(Append(t, g)) = Range(t) \cup {g}
  BY OneMore
<1> QED BY <1>1, <1>2, <1>3, <1>4

\* ... leave the frames apart as each of them does.
LEMMA TwoMoreApart ==
  ASSUME NEW S, NEW s \in Seq(S), NEW f \in S, NEW g \in S, NEW ops, Apart(s, ops),
         f.op \in ops => \A h \in Range(s) : h.op \in ops => h.chan # f.chan,
         g.op \in ops => \A h \in Range(s) \cup {f} : h.op \in ops => h.chan # g.chan
  PROVE  Apart(s \o <<f, g>>, ops)
<1>1. /\ Append(s, f) \in Seq(S) /\ Range(Append(s, f)) = Range(s) \cup {f}
      /\ s \o <<f, g>> = Append(Append(s, f), g)
  BY OneMore, TwoMore
<1>2. Apart(Append(s, f), ops)
  BY OneMoreApart
<1>3. Apart(Append(Append(s, f), g), ops)
  BY <1>1, <1>2, OneMoreApart
<1> QED BY <1>1, <1>3

\* One chunk more, and all of them.
LEMMA ChunksAre ==
  ASSUME NEW n \in Nat, NEW u \in Uploads
  PROVE  /\ Chunks(n, u) \in Seq(Uploads)
         /\ Len(Chunks(n, u)) = n
         /\ Append(Chunks(n, u), u) = Chunks(n + 1, u)
         /\ SubSeq(Chunks(n, u), 1, n) = Chunks(n, u)
         /\ Chunks(0, u) = <<>>
<1>1. Chunks(n, u) \in Seq(Uploads) /\ Len(Chunks(n, u)) = n
  BY DEF Chunks
<1>2. Append(Chunks(n, u), u) = Chunks(n + 1, u)
  BY DEF Chunks
<1>3. SubSeq(Chunks(n, u), 1, n) = Chunks(n, u)
  BY DEF Chunks
<1>4. Chunks(0, u) = <<>>
  BY DEF Chunks
<1> QED BY <1>1, <1>2, <1>3, <1>4
\* What the other parts need of the types.
LEMMA Fields ==
  ASSUME PushTypeOK
  PROVE  /\ \A u \in Uploads : /\ up[u].size \in Nat /\ up[u].sent \in Nat /\ up[u].id \in Nat
                               /\ up[u].pc \in {"idle", "new", "ready", "wait", "unread", "over"}
         /\ \A c \in Uploads : channel[c].id \in Nat
         /\ \A c \in Uploads :
              /\ reader[c].id \in Nat /\ reader[c].flushed \in Nat
              /\ reader[c].written \in Seq(Uploads) /\ Len(reader[c].written) \in Nat
              /\ reader[c].file \in Uploads \cup {None}
              /\ reader[c].pc \in {"none", "initial", "new", "start", "append", "ending",
                                   "pushing", "over"}
         /\ fileId \in Nat
<1> USE FilePushAssumption DEF PushTypeOK
<1>1. ASSUME NEW u \in Uploads
      PROVE  /\ up[u].size \in Nat /\ up[u].sent \in Nat /\ up[u].id \in Nat
             /\ up[u].pc \in {"idle", "new", "ready", "wait", "unread", "over"}
  BY DEF UploadType
<1>2. ASSUME NEW c \in Uploads
      PROVE  channel[c].id \in Nat
  BY DEF ChannelType
<1>3. ASSUME NEW c \in Uploads
      PROVE  /\ reader[c].id \in Nat /\ reader[c].flushed \in Nat
             /\ reader[c].written \in Seq(Uploads)
             /\ reader[c].file \in Uploads \cup {None}
             /\ reader[c].pc \in {"none", "initial", "new", "start", "append", "ending",
                                  "pushing", "over"}
  <2>1. reader[c] \in ReaderType
    OBVIOUS
  <2> QED BY <2>1 DEF ReaderType
<1>4. ASSUME NEW c \in Uploads PROVE Len(reader[c].written) \in Nat
  BY <1>3
<1> QED BY <1>1, <1>2, <1>3, <1>4

-----------------------------------------------------------------------------
\* Nothing is under way when the page opens.
LEMMA PushInitInv == PushInit => PushInv
<1> SUFFICES ASSUME PushInit PROVE PushInv
  OBVIOUS
<1> USE FilePushAssumption DEF PushInit
<1>0. Range(toServer) = {} /\ Range(toBrowser) = {}
  BY NoFrames
<1>0a. \A ops : Apart(toServer, ops) /\ Apart(toBrowser, ops)
  BY NoFrames
<1>1. PushTypeOK
  BY DEF PushTypeOK, UploadType, ChannelType, ReaderType
<1>2. EndsInv /\ IdsInv /\ WaitersInv
  BY DEF EndsInv, IdsInv, WaitersInv
<1>3. NamedInv /\ CreateInv /\ RequestsInv /\ AnswersInv
  BY <1>0, <1>0a DEF NamedInv, CreateInv, RequestsInv, AnswersInv
<1>4. ReadersInv /\ ReadyInv /\ SuccessInv
  BY DEF ReadersInv, ReaderOK, ReadyInv, SuccessInv
<1> QED BY <1>1, <1>2, <1>3, <1>4 DEF PushInv

-----------------------------------------------------------------------------
(* What most steps leave alone.                                            *)

\* The upload goes on as it was, whatever its row tells.
Steady(u) ==
    /\ up'[u].id = up[u].id /\ up'[u].pc = up[u].pc
    /\ up'[u].size = up[u].size /\ up'[u].sent = up[u].sent

\* The reader goes on as it was, or is over.
Calm(c) ==
    /\ reader'[c].id = reader[c].id
    /\ \/ /\ reader'[c].pc = reader[c].pc
          /\ reader'[c].file = reader[c].file /\ reader'[c].written = reader[c].written
       \/ reader'[c].pc = "over" /\ reader'[c].file = None /\ reader'[c].written = <<>>

\* A step that gives no id keeps IdsInv.
LEMMA IdsStay ==
  ASSUME IdsInv, fileId' = fileId,
         \A c \in Uploads :
            /\ reader'[c].id = reader[c].id /\ channel'[c].id = channel[c].id
            /\ reader'[c].pc \in {"none", "initial"} => reader[c].pc \in {"none", "initial"}
            /\ reader'[c].pc \notin {"none", "initial", "over"} =>
                 reader[c].pc \notin {"none", "initial", "over"},
         \A u \in Uploads :
            /\ up'[u].id = up[u].id
            /\ up'[u].pc \in {"ready", "wait", "unread", "over"} <=> up[u].pc \in {"ready", "wait", "unread", "over"}
  PROVE  IdsInv'
<1>1. \A c \in Uploads :
         /\ reader'[c].id <= fileId'
         /\ reader'[c].pc \in {"none", "initial"} => reader'[c].id = 0
         /\ reader'[c].pc \notin {"none", "initial", "over"} => reader'[c].id # 0
         /\ channel'[c].id \in {0, reader'[c].id}
  BY DEF IdsInv
<1>2. \A c, d \in Uploads : reader'[c].id # 0 /\ reader'[c].id = reader'[d].id => c = d
  BY DEF IdsInv
<1>3. \A u \in Uploads :
         /\ up'[u].id # 0 <=> up'[u].pc \in {"ready", "wait", "unread", "over"}
         /\ up'[u].id # 0 => \E c \in Uploads : channel'[c].id = up'[u].id
  BY DEF IdsInv
<1>4. \A u, v \in Uploads : up'[u].id # 0 /\ up'[u].id = up'[v].id => u = v
  BY DEF IdsInv
<1> QED BY <1>1, <1>2, <1>3, <1>4 DEF IdsInv

\* A request stays as expected while its upload and its reader go on as they were.
LEMMA RequestStays ==
  ASSUME NEW f, RequestOK(f), Steady(f.file), Calm(f.chan)
  PROVE  RequestOK(f)'
<1>1. Request(f.file)' = Request(f.file)
  BY DEF Steady, Request
<1>2. Done(reader'[f.chan]) = Done(reader[f.chan]) \/ reader'[f.chan].pc = "over"
  BY DEF Calm, Done
<1> QED BY <1>1, <1>2 DEF RequestOK, Steady, Calm, Going

\* So does an answer, when the file on the device stays too.
LEMMA AnswerStays ==
  ASSUME NEW f, AnswerOK(f), Calm(f.chan),
         \A u \in Uploads : up[u].id = f.id => Steady(u) /\ device'[u] = device[u]
  PROVE  AnswerOK(f)'
<1>1. PICK u \in Uploads : up[u].id = f.id /\ (AnswersWait(f, u) \/ AnswersUnread(f, u))
  BY DEF AnswerOK
<1>2. Done(reader'[f.chan]) = Done(reader[f.chan]) \/ reader'[f.chan].pc = "over"
  BY DEF Calm, Done
<1>3. Steady(u) /\ device'[u] = device[u]
  BY <1>1
<1>4. up'[u].id = f.id
  BY <1>1, <1>3 DEF Steady
<1>5. AnswersWait(f, u) => AnswersWait(f, u)'
  BY <1>2, <1>3 DEF AnswersWait, Steady, Calm, Going
<1>6. AnswersUnread(f, u) => AnswersUnread(f, u)'
  BY <1>3 DEF AnswersUnread, Steady, Calm, Going
<1> QED BY <1>1, <1>4, <1>5, <1>6 DEF AnswerOK, Calm

\* A reader that only flushes, moves its temporary file or ends stays sound.
LEMMA ReaderStays ==
  ASSUME NEW c \in Uploads, ReaderOK(reader[c]), Calm(c),
         reader'[c].flushed <= Len(reader'[c].written),
         reader'[c].pc = "pushing" => reader'[c].flushed = reader[c].flushed,
         reader[c].file # None => Steady(reader[c].file)
  PROVE  ReaderOK(reader[c])'
BY DEF ReaderOK, Calm, Steady

\* An upload stays ready while every upload and reader goes on as it was.
LEMMA ReadyStays ==
  ASSUME ReadyInv,
         \A u \in Uploads : Steady(u),
         \A c \in Uploads : Calm(c)
  PROVE  ReadyInv'
<1>1. ASSUME NEW u \in Uploads
      PROVE  /\ up'[u].pc \in {"idle", "new"} => up'[u].sent = 0
             /\ up'[u].sent <= up'[u].size + 1
  BY DEF ReadyInv, Steady
<1>2. ASSUME NEW u \in Uploads, up'[u].pc = "ready", NEW c \in Uploads, reader'[c].id = up'[u].id
      PROVE  /\ reader'[c].pc \in Going \cup {"over"}
             /\ reader'[c].pc \in Going => Done(reader'[c]) = up'[u].sent
  <2>1. up[u].pc = "ready" /\ reader[c].id = up[u].id /\ up'[u].sent = up[u].sent
    BY <1>2 DEF Steady, Calm
  <2>2. /\ reader[c].pc \in Going \cup {"over"}
        /\ reader[c].pc \in Going => Done(reader[c]) = up[u].sent
    BY <2>1 DEF ReadyInv
  <2>3. Done(reader'[c]) = Done(reader[c]) \/ reader'[c].pc = "over"
    BY DEF Calm, Done
  <2> QED BY <2>1, <2>2, <2>3 DEF Calm, Going
<1> QED BY <1>1, <1>2 DEF ReadyInv

\* A row that tells of success goes on to, or to an error.
LEMMA SuccessStays ==
  ASSUME SuccessInv,
         \A u \in Uploads : Steady(u) /\ up'[u].told \in {up[u].told, "error"},
         \A u \in Uploads : up[u].told = "success" => device'[u] = device[u],
         \A c \in Uploads : Calm(c)
  PROVE  SuccessInv'
<1>1. ASSUME NEW u \in Uploads, up'[u].told = "success"
      PROVE  /\ up'[u].pc = "over" /\ device'[u] = Chunks(up'[u].size, u)
             /\ \A c \in Uploads : reader'[c].id = up'[u].id => reader'[c].pc = "over"
  <2>1. up[u].told = "success" /\ Steady(u)
    BY <1>1
  <2>2. /\ up[u].pc = "over" /\ device[u] = Chunks(up[u].size, u)
        /\ \A c \in Uploads : reader[c].id = up[u].id => reader[c].pc = "over"
    BY <2>1 DEF SuccessInv
  <2> QED BY <2>1, <2>2 DEF Steady, Calm
<1> QED BY <1>1 DEF SuccessInv

\* pushFile up to the id: a channel and its two frames.
LEMMA DropKeeps ==
  ASSUME PushInv, NEW u \in Uploads, Drop(u)
  PROVE  PushInv'
<1> USE DEF PushInv
<1>1. PICK size \in Sizes :
        up' = [up EXCEPT ![u].pc = "new", ![u].size = size, ![u].told = "begins"]
  BY DEF Drop
<1>2. PICK create : create = Frame(u, "create", 0, None)
  OBVIOUS
<1>3. PICK new : new = Frame(u, "new", 0, None)
  OBVIOUS
<1>4. /\ link = "up" /\ up[u].pc = "idle" /\ reader[u].pc = "none" /\ up[u].id = 0
      /\ waiters' = Append(waiters, u)
      /\ channel' = [channel EXCEPT ![u].end = "open"]
      /\ toServer' = toServer \o <<create, new>>
      /\ UNCHANGED <<page, link, toBrowser, fileId, server, reader, device>>
  BY <1>2, <1>3 DEF Drop, serverVars, CreateInv, IdsInv
<1>5. /\ create.chan = u /\ create.op = "create" /\ create \in FrameType(Requests)
      /\ new.chan = u /\ new.op = "new" /\ new \in FrameType(Requests)
      /\ toServer \in Seq(FrameType(Requests))
  BY <1>2, <1>3 DEF Frame, FrameType, Requests, PushTypeOK
<1>6. /\ toServer' \in Seq(FrameType(Requests))
      /\ Range(toServer') = Range(toServer) \cup {create, new}
  BY <1>4, <1>5, TwoMore
<1>7. Apart(toServer', {"create"}) /\ Apart(toServer', Asks)
  <2>1. \A f \in Range(toServer) : f.op = "create" => f.chan # u
    BY <1>4 DEF CreateInv
  <2>2. Apart(toServer \o <<create, new>>, {"create"})
    BY <1>5, <2>1, TwoMoreApart DEF CreateInv
  <2>3. Apart(toServer \o <<create, new>>, Asks)
    BY <1>5, TwoMoreApart DEF RequestsInv, Asks
  <2> QED BY <1>4, <2>2, <2>3
<1>8. /\ \A v \in Uploads : v # u => up'[v] = up[v]
      /\ up'[u] \in UploadType
      /\ up'[u].pc = "new" /\ up'[u].sent = up[u].sent /\ up'[u].size = size
      /\ up'[u].id = 0 /\ up'[u].told = "begins"
  BY FilePushAssumption, <1>1, <1>4 DEF PushTypeOK, UploadType
<1>9. \A c \in Uploads : channel'[c].id = channel[c].id /\ channel'[c] \in ChannelType
  BY <1>4 DEF PushTypeOK, ChannelType
<1>10. size \in Nat /\ \A v \in Uploads : up[v].sent \in Nat /\ up[v].size \in Nat
  BY FilePushAssumption, Fields
<1>11. PushTypeOK'
  <2>1. up' \in [Uploads -> UploadType]
    BY <1>1, <1>8 DEF PushTypeOK
  <2>2. channel' \in [Uploads -> ChannelType]
    BY <1>4, <1>9 DEF PushTypeOK
  <2>3. waiters' \in Seq(Uploads)
    BY <1>4 DEF PushTypeOK
  <2> QED BY <1>4, <1>6, <2>1, <2>2, <2>3 DEF PushTypeOK
<1>12. EndsInv'
  BY <1>4 DEF EndsInv
<1>13. IdsInv'
  BY <1>4, <1>8, <1>9, IdsStay DEF IdsInv
<1>14. WaitersInv'
  <2>1. waiters \in Seq(Uploads)
    BY DEF PushTypeOK
  <2>2. ASSUME NEW k \in 1..Len(waiters) PROVE waiters[k] \in Uploads \ {u}
    <3>1. waiters[k] \in Uploads
      BY <2>1
    <3>2. up[waiters[k]].pc = "new"
      BY DEF WaitersInv
    <3> QED BY <1>4, <3>1, <3>2
  <2>3. /\ \A k \in 1..Len(waiters) : waiters'[k] = waiters[k]
        /\ Len(waiters') = Len(waiters) + 1 /\ waiters'[Len(waiters) + 1] = u
        /\ Len(waiters) \in Nat
    BY <1>4, <2>1
  <2>4. \A k \in 1..Len(waiters') : k \in 1..Len(waiters) \/ k = Len(waiters) + 1
    BY <2>3
  <2>5. \A k \in 1..Len(waiters') : up'[waiters'[k]].pc = "new"
    BY <1>8, <2>2, <2>3, <2>4 DEF WaitersInv
  <2>6. \A k, l \in 1..Len(waiters') : waiters'[k] = waiters'[l] => k = l
    BY <2>2, <2>3, <2>4 DEF WaitersInv
  <2> QED BY <2>5, <2>6 DEF WaitersInv
<1>15. NamedInv'
  BY <1>4, <1>9 DEF NamedInv
<1>16. CreateInv'
  <2>1. link' = "up" => \A c \in Uploads : reader'[c].pc # "none" => up'[c].pc # "idle"
    BY <1>4, <1>8 DEF CreateInv
  <2>2. ASSUME NEW f \in Range(toServer)
        PROVE  /\ f.op # "close" => f.chan \in Uploads
               /\ f.op = "create" => reader'[f.chan].pc = "none" /\ up'[f.chan].pc # "idle"
    BY <1>4, <1>8 DEF CreateInv
  <2>3. \A f \in {create, new} : f.chan = u /\ reader'[u].pc = "none" /\ up'[u].pc # "idle"
    BY <1>4, <1>5, <1>8
  <2> QED BY <1>4, <1>6, <1>7, <2>1, <2>2, <2>3 DEF CreateInv
<1>17. RequestsInv'
  <2>1. ASSUME NEW f \in Range(toServer), f.op \in Asks
        PROVE  RequestOK(f)'
    <3>1. RequestOK(f) /\ f.file # u
      BY <1>4, <2>1 DEF RequestsInv, RequestOK
    <3>2. Steady(f.file) /\ Calm(f.chan)
      BY <1>4, <1>8, <3>1 DEF RequestOK, Steady, Calm
    <3> QED BY <3>1, <3>2, RequestStays
  <2>2. create.op \notin Asks /\ new.op \notin Asks
    BY <1>5 DEF Asks
  <2> QED BY <1>6, <1>7, <2>1, <2>2 DEF RequestsInv
<1>18. AnswersInv'
  <2>1. ASSUME NEW f \in Range(toBrowser), AnswerOK(f) PROVE AnswerOK(f)'
    <3>1. Calm(f.chan) /\ f.id # 0
      BY <1>4, <2>1 DEF Calm, AnswerOK
    <3>2. \A v \in Uploads : up[v].id = f.id => Steady(v) /\ device'[v] = device[v]
      BY <1>4, <1>8, <3>1 DEF Steady
    <3> QED BY <2>1, <3>1, <3>2, AnswerStays
  <2> QED BY <1>4, <1>5, <1>6, <2>1 DEF AnswersInv, Asks
<1>19. ReadersInv'
  <2>1. ASSUME NEW c \in Uploads PROVE ReaderOK(reader[c])'
    <3>1. ReaderOK(reader[c]) /\ Calm(c) /\ reader'[c] = reader[c]
      BY <1>4 DEF ReadersInv, Calm
    <3>2. reader[c].file # None => reader[c].file \in Uploads \ {u}
      BY <1>4, <3>1, Fields DEF ReaderOK
    <3> QED BY <1>8, <3>1, <3>2, ReaderStays DEF Steady, ReaderOK
  <2> QED BY <2>1 DEF ReadersInv
<1>20. ReadyInv'
  <2>1. ASSUME NEW v \in Uploads
        PROVE  /\ up'[v].pc \in {"idle", "new"} => up'[v].sent = 0
               /\ up'[v].sent <= up'[v].size + 1
    <3>1. CASE v = u
      BY <1>4, <1>8, <1>10, <3>1 DEF ReadyInv
    <3>2. CASE v # u
      BY <1>4, <1>8, <3>2 DEF ReadyInv
    <3> QED BY <3>1, <3>2
  <2>2. ASSUME NEW v \in Uploads, up'[v].pc = "ready", NEW c \in Uploads, reader'[c].id = up'[v].id
        PROVE  /\ reader'[c].pc \in Going \cup {"over"}
               /\ reader'[c].pc \in Going => Done(reader'[c]) = up'[v].sent
    <3>1. up'[v] = up[v] /\ up[v].pc = "ready"
      BY <1>8, <2>2
    <3> QED BY <1>4, <2>2, <3>1 DEF ReadyInv
  <2> QED BY <2>1, <2>2 DEF ReadyInv
<1>21. SuccessInv'
  <2>1. ASSUME NEW v \in Uploads, up'[v].told = "success"
        PROVE  v # u /\ up'[v] = up[v] /\ device'[v] = device[v] /\ reader' = reader
    BY <1>4, <1>8, <2>1
  <2> QED BY <2>1 DEF SuccessInv
<1> QED BY <1>11, <1>12, <1>13, <1>14, <1>15, <1>16, <1>17, <1>18, <1>19, <1>20, <1>21
\* A step that only ends things, moves the temporary file, or takes frames away.
CalmFrames ==
    /\ \A f \in Range(toServer') :
         /\ f \in Range(toServer) \/ f.op = "close"
         /\ f.op = "create" => reader'[f.chan].pc = reader[f.chan].pc
    /\ Apart(toServer', {"create"}) /\ Apart(toServer', Asks)
    /\ \A f \in Range(toBrowser') :
         \/ /\ f \in Range(toBrowser)
            /\ f.op = "ok" => \A u \in Uploads : up[u].id = f.id => device'[u] = device[u]
         \/ f.op \in {"done", "error"}
         \/ f.op = "ok" /\ AnswerOK(f)'
              /\ \A g \in Range(toServer') : g.op \in Asks => g.chan # f.chan
    /\ Apart(toBrowser', {"named"}) /\ Apart(toBrowser', {"ok"})

\* Such a step keeps the invariant.
LEMMA CalmStep ==
  ASSUME PushInv, PushTypeOK', EndsInv', CalmFrames,
         fileId' = fileId, waiters' = waiters,
         link' = "up" => link = "up" /\ server' = server
                           /\ \A c \in Uploads : reader[c].pc = "none" => reader'[c].pc = "none",
         \A u \in Uploads : Steady(u) /\ up'[u].told \in {up[u].told, "error"},
         \A u \in Uploads : up[u].told = "success" => device'[u] = device[u],
         \A c \in Uploads : Calm(c) /\ channel'[c].id = channel[c].id,
         \A c \in Uploads :
            /\ reader'[c].flushed <= Len(reader'[c].written)
            /\ reader'[c].pc = "pushing" => reader'[c].flushed = reader[c].flushed
  PROVE  PushInv'
<1> USE DEF PushInv
<1>1. IdsInv'
  BY IdsStay DEF Calm, Steady
<1>2. WaitersInv'
  <2>1. \A k \in 1..Len(waiters) : waiters[k] \in Uploads
    BY DEF PushTypeOK
  <2> QED BY <2>1 DEF WaitersInv, Steady
<1>3. NamedInv'
  <2>1. ASSUME NEW f \in Range(toBrowser'), f.op = "named"
        PROVE  /\ f.chan \in Uploads
               /\ f.id = reader'[f.chan].id /\ f.id # 0 /\ channel'[f.chan].id = 0
    BY <2>1 DEF CalmFrames, NamedInv, Calm
  <2> QED BY <2>1 DEF CalmFrames, NamedInv
<1>4. CreateInv'
  <2>1. link' = "up" => /\ server' = "up"
                        /\ \A c \in Uploads : reader'[c].pc # "none" => up'[c].pc # "idle"
    BY DEF CreateInv, Steady
  <2>2. ASSUME NEW f \in Range(toServer')
        PROVE  /\ f.op # "close" => f.chan \in Uploads
               /\ f.op = "create" => reader'[f.chan].pc = "none" /\ up'[f.chan].pc # "idle"
    BY DEF CalmFrames, CreateInv, Steady
  <2> QED BY <2>1, <2>2 DEF CreateInv, CalmFrames
<1>5. RequestsInv'
  <2>1. ASSUME NEW f \in Range(toServer'), f.op \in Asks PROVE RequestOK(f)'
    <3>1. f \in Range(toServer) /\ f.op # "close"
      BY <2>1 DEF CalmFrames, Asks
    <3>2. RequestOK(f) /\ f.chan \in Uploads
      BY <2>1, <3>1 DEF RequestsInv, CreateInv
    <3> QED BY <3>2, RequestStays DEF RequestOK
  <2> QED BY <2>1 DEF RequestsInv, CalmFrames
<1>6. AnswersInv'
  <2>1. ASSUME NEW f \in Range(toBrowser'), f.op = "ok"
        PROVE  /\ AnswerOK(f)'
               /\ \A g \in Range(toServer') : g.op \in Asks => g.chan # f.chan
    <3>1. CASE f \in Range(toBrowser) /\ \A u \in Uploads : up[u].id = f.id => device'[u] = device[u]
      <4>1. AnswerOK(f)
        BY <2>1, <3>1 DEF AnswersInv
      <4>2. AnswerOK(f)'
        BY <3>1, <4>1, AnswerStays DEF AnswerOK
      <4>3. \A g \in Range(toServer') : g.op \in Asks => g \in Range(toServer)
        BY DEF CalmFrames, Asks
      <4> QED BY <2>1, <3>1, <4>2, <4>3 DEF AnswersInv
    <3>2. CASE AnswerOK(f)' /\ \A g \in Range(toServer') : g.op \in Asks => g.chan # f.chan
      BY <3>2
    <3> QED BY <2>1, <3>1, <3>2 DEF CalmFrames
  <2> QED BY <2>1 DEF AnswersInv, CalmFrames
<1>7. ReadersInv'
  <2>1. ASSUME NEW c \in Uploads PROVE ReaderOK(reader[c])'
    <3>1. ReaderOK(reader[c]) /\ reader[c].file \in Uploads \cup {None}
      BY Fields DEF ReadersInv
    <3> QED BY <3>1, ReaderStays
  <2> QED BY <2>1 DEF ReadersInv
<1>8. ReadyInv'
  BY ReadyStays
<1>9. SuccessInv'
  BY SuccessStays
<1> QED BY <1>1, <1>2, <1>3, <1>4, <1>5, <1>6, <1>7, <1>8, <1>9

-----------------------------------------------------------------------------
\* What is left of a reader that is over.
LEMMA OverReader ==
  ASSUME NEW r \in ReaderType
  PROVE  /\ Over(r) \in ReaderType /\ Over(r).id = r.id /\ Over(r).temp = r.temp
         /\ Over(r).pc = "over" /\ Over(r).end = "closed"
         /\ Over(r).file = None /\ Over(r).written = <<>> /\ Over(r).flushed = 0
<1>1. <<>> \in Seq(Uploads)
  OBVIOUS
<1> QED BY <1>1 DEF Over, ReaderType

\* ... and of one that is released: FINISH goes on with what it had.
LEMMA ReleasedReader ==
  ASSUME NEW r \in ReaderType, NEW refused
  PROVE  /\ Released(r, refused) \in ReaderType /\ Released(r, refused).id = r.id
         /\ Released(r, refused).end = "closed"
         /\ Released(r, refused).temp = CleanedUp(r, refused)
         /\ \/ /\ Released(r, refused).pc = r.pc /\ Released(r, refused).file = r.file
               /\ Released(r, refused).written = r.written
               /\ Released(r, refused).flushed = r.flushed
               /\ r.pc \in {"ending", "pushing"}
            \/ /\ Released(r, refused).pc = "over" /\ Released(r, refused).file = None
               /\ Released(r, refused).written = <<>> /\ Released(r, refused).flushed = 0
<1>1. PICK temp \in {"none", "opening", "there", "kept", "gone"} : temp = CleanedUp(r, refused)
  BY DEF CleanedUp, ReaderType
<1>2. PICK cleaned : cleaned = [r EXCEPT !.end = "closed", !.temp = temp]
  OBVIOUS
<1>3. /\ cleaned \in ReaderType /\ cleaned.id = r.id /\ cleaned.end = "closed"
      /\ cleaned.temp = temp /\ cleaned.pc = r.pc /\ cleaned.file = r.file
      /\ cleaned.written = r.written /\ cleaned.flushed = r.flushed
  BY <1>2 DEF ReaderType
<1>4. Released(r, refused) = IF r.pc \in {"ending", "pushing"} THEN cleaned ELSE Over(cleaned)
  BY <1>1, <1>2 DEF Released
<1> QED BY <1>1, <1>3, <1>4, OverReader

\* Readers that do not change are calm.
LEMMA SameReaders ==
  ASSUME PushInv, reader' = reader
  PROVE  \A c \in Uploads :
           /\ Calm(c)
           /\ reader'[c].flushed <= Len(reader'[c].written)
           /\ reader'[c].pc = "pushing" => reader'[c].flushed = reader[c].flushed
BY DEF PushInv, ReadersInv, ReaderOK, Calm

\* Channels that close in the browser only change what rows tell.
LEMMA ClosesCalmly ==
  ASSUME PushTypeOK, NEW closed, NEW clean, ChannelCloses(closed, clean)
  PROVE  /\ up' \in [Uploads -> UploadType] /\ channel' \in [Uploads -> ChannelType]
         /\ waiters' = waiters
         /\ \A u \in Uploads : Steady(u) /\ up'[u].told \in {up[u].told, "error"}
         /\ \A c \in Uploads : channel'[c].id = channel[c].id
<1>1. \A c \in Uploads : channel[c] \in ChannelType /\ up[c] \in UploadType
  BY DEF PushTypeOK
<1>2. channel' = [c \in Uploads |-> IF c \in closed THEN [channel[c] EXCEPT !.end = "closed"] ELSE channel[c]]
  BY DEF ChannelCloses
<1>3. ASSUME NEW c \in Uploads
      PROVE  channel'[c] \in ChannelType /\ channel'[c].id = channel[c].id
  BY <1>1, <1>2 DEF ChannelType
<1>4. up' = up \/ up' = ToldError(closed)
  BY DEF ChannelCloses
<1>5. ASSUME NEW u \in Uploads
      PROVE  up'[u] \in UploadType /\ Steady(u) /\ up'[u].told \in {up[u].told, "error"}
  <2>1. up'[u] = up[u] \/ up'[u] = [up[u] EXCEPT !.told = "error"]
    BY <1>4 DEF ToldError
  <2> QED BY <1>1, <2>1 DEF UploadType, Steady
<1>6. up' \in [Uploads -> UploadType]
  BY <1>4, <1>5 DEF ToldError, PushTypeOK
<1> QED BY <1>2, <1>3, <1>5, <1>6 DEF ChannelCloses

\* A frame for a closed channel is dropped, and an answer that ends a channel.
LEMMA ReceiveEndKeeps ==
  ASSUME PushInv, toBrowser # <<>>, toBrowser' = Tail(toBrowser),
         \/ UNCHANGED <<up, waiters, channel>>
         \/ \E closed, clean : ChannelCloses(closed, clean),
         UNCHANGED <<page, link, toServer, serverVars>>
  PROVE  PushInv'
<1> USE DEF PushInv
<1>1. /\ toBrowser \in Seq(FrameType(Answers))
      /\ UNCHANGED <<page, link, toServer, fileId, server, reader, device>>
  BY DEF PushTypeOK, serverVars
<1>2. /\ toBrowser' \in Seq(FrameType(Answers)) /\ Range(toBrowser') \subseteq Range(toBrowser)
      /\ Apart(toBrowser', {"named"}) /\ Apart(toBrowser', {"ok"})
  BY <1>1, OneLess, OneLessApart DEF NamedInv, AnswersInv
<1>3. /\ up' \in [Uploads -> UploadType] /\ channel' \in [Uploads -> ChannelType]
      /\ waiters' = waiters
      /\ \A u \in Uploads : Steady(u) /\ up'[u].told \in {up[u].told, "error"}
      /\ \A c \in Uploads : channel'[c].id = channel[c].id
  <2>1. CASE UNCHANGED <<up, waiters, channel>>
    BY <2>1 DEF PushTypeOK, Steady
  <2>2. CASE \E closed, clean : ChannelCloses(closed, clean)
    BY <2>2, ClosesCalmly
  <2> QED BY <2>1, <2>2
<1>4. PushTypeOK' /\ EndsInv'
  BY <1>1, <1>2, <1>3 DEF PushTypeOK, EndsInv
<1>5. CalmFrames
  BY <1>1, <1>2 DEF CalmFrames, CreateInv, RequestsInv
<1> QED BY <1>1, <1>3, <1>4, <1>5, SameReaders, CalmStep

\* onBeforeClose.
LEMMA ClosePageKeeps ==
  ASSUME PushInv, ClosePage
  PROVE  PushInv'
<1> USE DEF PushInv
<1>1. /\ page' = "closed" /\ UNCHANGED <<link, up, waiters, toBrowser, fileId, server, reader, device>>
      /\ channel' = [c \in Uploads |-> IF channel[c].end = "open"
                                       THEN [channel[c] EXCEPT !.end = "closed"] ELSE channel[c]]
  BY DEF ClosePage, serverVars
<1>2. PICK end : end = CloseAll
  OBVIOUS
<1>2a. end \in FrameType(Requests) /\ end.op = "close"
  BY <1>2 DEF CloseAll, Frame, FrameType, Requests
<1>3. toServer \in Seq(FrameType(Requests)) /\ Apart(toServer, {"create"}) /\ Apart(toServer, Asks)
  BY DEF PushTypeOK, CreateInv, RequestsInv
<1>4. /\ Append(toServer, end) \in Seq(FrameType(Requests))
      /\ Range(Append(toServer, end)) = Range(toServer) \cup {end}
  BY <1>2a, <1>3, OneMore
<1>5. Apart(Append(toServer, end), {"create"}) /\ Apart(Append(toServer, end), Asks)
  BY <1>2a, <1>3, OneMoreApart DEF Asks
<1>5a. /\ toServer' \in Seq(FrameType(Requests))
       /\ \A f \in Range(toServer') : f \in Range(toServer) \/ f.op = "close"
       /\ Apart(toServer', {"create"}) /\ Apart(toServer', Asks)
  <2>1. CASE toServer' = toServer
    BY <1>3, <2>1
  <2>2. CASE toServer' = Append(toServer, end)
    BY <1>2a, <1>4, <1>5, <2>2
  <2> QED BY <1>2, <2>1, <2>2 DEF ClosePage
<1>6. ASSUME NEW c \in Uploads
      PROVE  channel'[c] \in ChannelType /\ channel'[c].id = channel[c].id
  <2>1. channel[c] \in ChannelType
    BY DEF PushTypeOK
  <2> QED BY <1>1, <2>1 DEF ChannelType
<1>7. PushTypeOK' /\ EndsInv'
  BY <1>1, <1>5a, <1>6 DEF PushTypeOK, EndsInv
<1>8. CalmFrames
  <2>1. Apart(toBrowser, {"named"}) /\ Apart(toBrowser, {"ok"})
    BY DEF NamedInv, AnswersInv
  <2>2. UNCHANGED <<toBrowser, reader, device>>
    BY <1>1
  <2> QED BY <1>5a, <2>1, <2>2 DEF CalmFrames
<1>9. \A u \in Uploads : Steady(u) /\ up'[u].told \in {up[u].told, "error"}
  BY <1>1 DEF Steady
<1> QED BY <1>1, <1>6, <1>7, <1>8, <1>9, SameReaders, CalmStep

\* The websocket ends, and the frames under way may be lost.
LEMMA LinkEndsKeeps ==
  ASSUME PushInv, LinkEnds
  PROVE  PushInv'
<1> USE DEF PushInv
<1>1. /\ link' \in {"clean", "lost"} /\ toBrowser' = <<>>
      /\ UNCHANGED <<page, fileId, server, reader, device>>
      /\ ChannelCloses(OpenChannels, link' = "clean")
  BY DEF LinkEnds, serverVars
<1>2. PICK n \in 0..Len(toServer) : toServer' = Append(SubSeq(toServer, 1, n), CloseAll)
  BY DEF LinkEnds
<1>3. PICK end : end = CloseAll
  OBVIOUS
<1>3a. end \in FrameType(Requests) /\ end.op = "close"
  BY <1>3 DEF CloseAll, Frame, FrameType, Requests
<1>4. toServer \in Seq(FrameType(Requests)) /\ Apart(toServer, {"create"}) /\ Apart(toServer, Asks)
  BY DEF PushTypeOK, CreateInv, RequestsInv
<1>5. PICK s : s = SubSeq(toServer, 1, n)
  OBVIOUS
<1>6. /\ s \in Seq(FrameType(Requests)) /\ Range(s) \subseteq Range(toServer)
      /\ Apart(s, {"create"}) /\ Apart(s, Asks)
  BY <1>4, <1>5, SomeOf
<1>7. /\ toServer' \in Seq(FrameType(Requests))
      /\ \A f \in Range(toServer') : f \in Range(toServer) \/ f.op = "close"
  <2>1. Append(s, end) \in Seq(FrameType(Requests)) /\ Range(Append(s, end)) = Range(s) \cup {end}
    BY <1>3a, <1>6, OneMore
  <2> QED BY <1>2, <1>3, <1>3a, <1>5, <1>6, <2>1
<1>8. Apart(toServer', {"create"}) /\ Apart(toServer', Asks)
  <2>1. Apart(Append(s, end), {"create"}) /\ Apart(Append(s, end), Asks)
    BY <1>3a, <1>6, OneMoreApart DEF Asks
  <2> QED BY <1>2, <1>3, <1>5, <2>1
<1>9. /\ up' \in [Uploads -> UploadType] /\ channel' \in [Uploads -> ChannelType]
      /\ waiters' = waiters
      /\ \A u \in Uploads : Steady(u) /\ up'[u].told \in {up[u].told, "error"}
      /\ \A c \in Uploads : channel'[c].id = channel[c].id
  BY <1>1, ClosesCalmly
<1>10. PushTypeOK' /\ EndsInv'
  BY <1>1, <1>7, <1>9 DEF PushTypeOK, EndsInv
<1>11. CalmFrames
  BY <1>1, <1>7, <1>8, NoFrames DEF CalmFrames
<1> QED BY <1>1, <1>9, <1>10, <1>11, SameReaders, CalmStep

\* The process dies with its readers.
LEMMA ServerDiesKeeps ==
  ASSUME PushInv, ServerDies
  PROVE  PushInv'
<1> USE DEF PushInv
<1>1. /\ server' = "down" /\ link' # "up" /\ link' \in {"clean", "lost"}
      /\ toServer' = <<>> /\ toBrowser' = <<>>
      /\ UNCHANGED <<page, fileId, device>>
      /\ reader' = [c \in Uploads |-> Over(reader[c])]
  BY DEF ServerDies, PushTypeOK
<1>2. /\ up' \in [Uploads -> UploadType] /\ channel' \in [Uploads -> ChannelType]
      /\ waiters' = waiters
      /\ \A u \in Uploads : Steady(u) /\ up'[u].told \in {up[u].told, "error"}
      /\ \A c \in Uploads : channel'[c].id = channel[c].id
  <2>1. CASE UNCHANGED <<up, waiters, channel>>
    BY <2>1 DEF PushTypeOK, Steady
  <2>2. CASE ChannelCloses(OpenChannels, FALSE)
    BY <2>2, ClosesCalmly
  <2> QED BY <2>1, <2>2 DEF ServerDies
<1>3. ASSUME NEW c \in Uploads
      PROVE  /\ reader'[c] \in ReaderType /\ Calm(c)
             /\ reader'[c].pc = "over" /\ reader'[c].end = "closed"
             /\ reader'[c].flushed <= Len(reader'[c].written)
  <2>1. reader[c] \in ReaderType /\ reader'[c] = Over(reader[c])
    BY <1>1 DEF PushTypeOK
  <2> QED BY <2>1, OverReader DEF Calm
<1>4. PushTypeOK' /\ EndsInv'
  <2>1. reader' \in [Uploads -> ReaderType]
    BY <1>1, <1>3
  <2>2. EndsInv'
    BY <1>3 DEF EndsInv
  <2>3. \A S : <<>> \in Seq(S)
    OBVIOUS
  <2> QED BY <1>1, <1>2, <2>1, <2>2, <2>3 DEF PushTypeOK
<1>5. CalmFrames
  BY <1>1, NoFrames DEF CalmFrames
<1> QED BY <1>1, <1>2, <1>3, <1>4, <1>5, CalmStep

-----------------------------------------------------------------------------
\* The temporary file is opened, and chunks reach it.
LEMMA OpensKeeps ==
  ASSUME PushInv, NEW c \in Uploads, Opens(c) \/ Flushes(c)
  PROVE  PushInv'
<1> USE DEF PushInv
<1>1. /\ UNCHANGED <<page, link, up, waiters, channel, toServer, toBrowser, fileId, server, device>>
      /\ \/ reader' = [reader EXCEPT ![c].temp = "there"]
         \/ /\ reader[c].flushed < Len(reader[c].written)
            /\ reader' = [reader EXCEPT ![c].flushed = @ + 1]
  BY DEF Opens, Flushes, browserVars
<1>2. \A d \in Uploads : reader[d] \in ReaderType
  BY DEF PushTypeOK
<1>3. \A d \in Uploads : ReaderOK(reader[d]) /\ Len(reader[d].written) \in Nat /\ reader[d].flushed \in Nat
  BY Fields DEF ReadersInv
<1>4. ASSUME NEW d \in Uploads
      PROVE  /\ reader'[d] \in ReaderType /\ Calm(d)
             /\ reader'[d].pc = reader[d].pc /\ reader'[d].end = reader[d].end
             /\ reader'[d].flushed <= Len(reader'[d].written)
             /\ reader'[d].pc = "pushing" => reader'[d].flushed = reader[d].flushed
  <2>0. CASE d # c
    <3>1. reader'[d] = reader[d]
      BY <1>1, <2>0 DEF PushTypeOK
    <3> QED BY <1>2, <1>3, <3>1 DEF Calm, ReaderOK
  <2>1. CASE d = c /\ reader' = [reader EXCEPT ![c].temp = "there"]
    <3>1. reader'[c] = [reader[c] EXCEPT !.temp = "there"]
      BY <2>1 DEF PushTypeOK
    <3> QED BY <1>2, <1>3, <2>1, <3>1 DEF ReaderType, Calm, ReaderOK
  <2>2. CASE /\ d = c /\ reader[c].flushed < Len(reader[c].written)
             /\ reader' = [reader EXCEPT ![c].flushed = @ + 1]
    <3>0. PICK n \in Nat : n = reader[c].flushed + 1
      BY <1>3
    <3>1. reader'[c] = [reader[c] EXCEPT !.flushed = n]
      BY <2>2, <3>0 DEF PushTypeOK
    <3>2. reader[c].pc # "pushing"
      BY <1>3, <2>2 DEF ReaderOK
    <3>3. /\ reader'[c] \in ReaderType /\ Calm(c)
          /\ reader'[c].pc = reader[c].pc /\ reader'[c].end = reader[c].end
          /\ reader'[c].flushed = n
      BY <1>2, <3>1 DEF ReaderType, Calm
    <3> QED BY <1>3, <2>2, <3>0, <3>2, <3>3
  <2> QED BY <1>1, <2>0, <2>1, <2>2
<1>5. PushTypeOK' /\ EndsInv'
  <2>1. reader' \in [Uploads -> ReaderType]
    BY <1>1, <1>4 DEF PushTypeOK
  <2>2. EndsInv'
    BY <1>4 DEF EndsInv
  <2> QED BY <1>1, <2>1, <2>2 DEF PushTypeOK
<1>6. CalmFrames
  <2>1. \A f \in Range(toServer) : f.op = "create" => reader'[f.chan].pc = reader[f.chan].pc
    BY <1>4 DEF CreateInv
  <2>2. /\ Apart(toServer, {"create"}) /\ Apart(toServer, Asks)
        /\ Apart(toBrowser, {"named"}) /\ Apart(toBrowser, {"ok"})
    BY DEF CreateInv, RequestsInv, NamedInv, AnswersInv
  <2> QED BY <1>1, <2>1, <2>2 DEF CalmFrames
<1>7. \A u \in Uploads : Steady(u) /\ up'[u].told \in {up[u].told, "error"}
  BY <1>1 DEF Steady
<1> QED BY <1>1, <1>4, <1>5, <1>6, <1>7, CalmStep

\* `adb push` ends: the device has what was flushed, and success is answered.
LEMMA PushEndsKeeps ==
  ASSUME PushInv, NEW c \in Uploads, PushSucceeds(c) \/ PushFails(c)
  PROVE  PushInv'
<1> USE DEF PushInv
<1>1. PICK u : u = reader[c].file
  OBVIOUS
<1>2. /\ reader[c].pc = "pushing"
      /\ UNCHANGED <<page, link, up, waiters, channel, toServer, fileId, server>>
  BY DEF PushSucceeds, PushFails, PushEnds, browserVars
<1>3. /\ u \in Uploads /\ reader[c].id # 0 /\ up[u].id = reader[c].id
      /\ up[u].pc = "wait" /\ up[u].sent = up[u].size + 1
      /\ reader[c].written = Chunks(up[u].size, u) /\ reader[c].flushed = up[u].size
      /\ up[u].size \in Nat
  BY <1>1, <1>2, Fields DEF ReadersInv, ReaderOK
<1>4. PICK ok, done, error :
        /\ ok = Frame(c, "ok", reader[c].id, None) /\ done = Frame(c, "done", 0, None)
        /\ error = ErrorFrame(c)
  OBVIOUS
<1>5. /\ ok \in FrameType(Answers) /\ done \in FrameType(Answers) /\ error \in FrameType(Answers)
      /\ ok.op = "ok" /\ ok.chan = c /\ ok.id = reader[c].id /\ done.op = "done" /\ error.op = "error"
  BY <1>4, Fields DEF ErrorFrame, Frame, FrameType, Answers
<1>6. \A f \in Range(toBrowser) : f.op = "ok" => f.chan # c /\ f.id # up[u].id
  <2>1. ASSUME NEW f \in Range(toBrowser), f.op = "ok" PROVE f.chan # c
    <3>1. AnswerOK(f)
      BY <2>1 DEF AnswersInv
    <3> QED BY <1>2, <3>1, Fields DEF AnswerOK, AnswersWait, AnswersUnread, Going
  <2>2. ASSUME NEW f \in Range(toBrowser), f.op = "ok" PROVE f.id # up[u].id
    BY <1>3, <2>1, <2>2 DEF AnswersInv, AnswerOK, IdsInv
  <2> QED BY <2>1, <2>2
<1>7. \A f \in Range(toServer) : f.op \in Asks => f.chan # c
  BY <1>2 DEF RequestsInv, RequestOK, Going
<1>8. /\ \A d \in Uploads : d # c => reader'[d] = reader[d]
      /\ reader'[c] \in ReaderType /\ Calm(c)
      /\ reader'[c].pc = "over" /\ reader'[c].end # "none"
      /\ reader'[c].flushed = 0 /\ reader'[c].written = <<>>
      /\ reader' \in [Uploads -> ReaderType]
  <2>1. reader[c] \in ReaderType /\ reader \in [Uploads -> ReaderType]
    BY DEF PushTypeOK
  <2>2. PICK r \in ReaderType : r.id = reader[c].id /\ reader' = [reader EXCEPT ![c] = Over(r)]
    <3>1. CASE reader' = [reader EXCEPT ![c] = Over(reader[c])]
      BY <2>1, <3>1
    <3>2. CASE \E refused \in BOOLEAN : reader' = [reader EXCEPT ![c] = Over(Released(@, refused))]
      BY <2>1, <3>2, ReleasedReader
    <3> QED BY <3>1, <3>2 DEF PushSucceeds, PushFails, PushEnds
  <2> QED BY <2>1, <2>2, OverReader DEF Calm
<1>9. /\ device' \in [Uploads -> Seq(Uploads)]
      /\ \A v \in Uploads : v # u => device'[v] = device[v]
      /\ PushSucceeds(c) => device'[u] = Chunks(up[u].size, u)
  <2>1. /\ Chunks(up[u].size, u) \in Seq(Uploads)
        /\ Len(Chunks(up[u].size, u)) = up[u].size
        /\ SubSeq(Chunks(up[u].size, u), 1, up[u].size) = Chunks(up[u].size, u)
    BY <1>3, ChunksAre
  <2>2. \A n \in 0..up[u].size : SubSeq(Chunks(up[u].size, u), 1, n) \in Seq(Uploads)
    BY <2>1, <1>3
  <2>3. PICK n \in 0..up[u].size :
          /\ device' = [device EXCEPT ![u] = SubSeq(Chunks(up[u].size, u), 1, n)]
          /\ PushSucceeds(c) => n = up[u].size
    <3>1. CASE PushSucceeds(c)
      <4>1. device' = [device EXCEPT ![u] = SubSeq(Chunks(up[u].size, u), 1, up[u].size)]
        BY <1>1, <1>3, <3>1 DEF PushSucceeds, Sent
      <4>2. up[u].size \in 0..up[u].size
        BY <1>3
      <4> QED BY <4>1, <4>2
    <3>2. CASE PushFails(c) /\ ~PushSucceeds(c)
      <4>1. PICK n \in 0..up[u].size :
              device' = [device EXCEPT ![u] = SubSeq(Chunks(up[u].size, u), 1, n)]
        BY <1>1, <1>3, <3>2 DEF PushFails, Sent
      <4> QED BY <3>2, <4>1
    <3> QED BY <3>1, <3>2
  <2>4. device \in [Uploads -> Seq(Uploads)]
    BY DEF PushTypeOK
  <2> QED BY <1>3, <2>1, <2>2, <2>3, <2>4
<1>10. PushSucceeds(c) => AnswerOK(ok)'
  <2>1. \/ ~PushSucceeds(c)
        \/ device'[u] = Chunks(up[u].size, u) /\ up'[u] = up[u]
    BY <1>2, <1>9
  <2> QED BY <1>3, <1>5, <1>8, <2>1 DEF AnswerOK, AnswersWait, Calm
<1>11. \/ toBrowser' = toBrowser
       \/ PushSucceeds(c) /\ toBrowser' = toBrowser \o <<ok, done>>
       \/ toBrowser' = toBrowser \o <<error>>
  BY <1>4 DEF PushSucceeds, PushFails, PushEnds, Emit
<1>12. /\ toBrowser \in Seq(FrameType(Answers))
       /\ Apart(toBrowser, {"named"}) /\ Apart(toBrowser, {"ok"})
  BY DEF PushTypeOK, NamedInv, AnswersInv
<1>13. /\ toBrowser' \in Seq(FrameType(Answers))
       /\ Apart(toBrowser', {"named"}) /\ Apart(toBrowser', {"ok"})
       /\ \A f \in Range(toBrowser') :
            f \in Range(toBrowser) \/ f.op \in {"done", "error"} \/ (f = ok /\ PushSucceeds(c))
  <2>1. CASE toBrowser' = toBrowser
    BY <1>12, <2>1
  <2>2. CASE PushSucceeds(c) /\ toBrowser' = toBrowser \o <<ok, done>>
    <3>1. Apart(toBrowser \o <<ok, done>>, {"named"})
      BY <1>5, <1>12, TwoMoreApart
    <3>2. Apart(toBrowser \o <<ok, done>>, {"ok"})
      BY <1>5, <1>6, <1>12, TwoMoreApart
    <3>3. /\ toBrowser \o <<ok, done>> \in Seq(FrameType(Answers))
          /\ Range(toBrowser \o <<ok, done>>) = Range(toBrowser) \cup {ok, done}
      BY <1>5, <1>12, TwoMore
    <3> QED BY <1>5, <2>2, <3>1, <3>2, <3>3
  <2>3. CASE toBrowser' = toBrowser \o <<error>>
    <3>1. toBrowser' = Append(toBrowser, error)
      BY <1>5, <1>12, <2>3
    <3>2. /\ Append(toBrowser, error) \in Seq(FrameType(Answers))
          /\ Range(Append(toBrowser, error)) = Range(toBrowser) \cup {error}
      BY <1>5, <1>12, OneMore
    <3>3. Apart(Append(toBrowser, error), {"named"}) /\ Apart(Append(toBrowser, error), {"ok"})
      BY <1>5, <1>12, OneMoreApart
    <3> QED BY <1>5, <3>1, <3>2, <3>3
  <2> QED BY <1>11, <2>1, <2>2, <2>3
<1>14. PushTypeOK'
  BY <1>2, <1>8, <1>9, <1>13 DEF PushTypeOK
<1>15. EndsInv'
  BY <1>2, <1>8 DEF EndsInv
<1>16. CalmFrames
  <2>1. ASSUME NEW f \in Range(toServer), f.op = "create"
        PROVE  reader'[f.chan].pc = reader[f.chan].pc
    BY <1>2, <1>8, <2>1 DEF CreateInv
  <2>2. ASSUME NEW f \in Range(toBrowser), f.op = "ok", NEW v \in Uploads, up[v].id = f.id
        PROVE  device'[v] = device[v]
    BY <1>6, <1>9, <2>2
  <2>3. Apart(toServer, {"create"}) /\ Apart(toServer, Asks)
    BY DEF CreateInv, RequestsInv
  <2>4. ASSUME NEW f \in Range(toBrowser')
        PROVE  \/ /\ f \in Range(toBrowser)
                  /\ f.op = "ok" => \A v \in Uploads : up[v].id = f.id => device'[v] = device[v]
               \/ f.op \in {"done", "error"}
               \/ f.op = "ok" /\ AnswerOK(f)'
                    /\ \A g \in Range(toServer') : g.op \in Asks => g.chan # f.chan
    BY <1>2, <1>5, <1>7, <1>10, <1>13, <2>2
  <2> QED BY <1>2, <1>13, <2>1, <2>3, <2>4 DEF CalmFrames
<1>17. \A v \in Uploads : /\ Steady(v) /\ up'[v].told \in {up[v].told, "error"}
                          /\ up[v].told = "success" => device'[v] = device[v]
  BY <1>2, <1>3, <1>9 DEF Steady, SuccessInv
<1>18. \A d \in Uploads :
         /\ Calm(d) /\ channel'[d].id = channel[d].id
         /\ reader'[d].flushed <= Len(reader'[d].written)
         /\ reader'[d].pc = "pushing" => reader'[d].flushed = reader[d].flushed
  BY <1>2, <1>8 DEF Calm, ReadersInv, ReaderOK
<1>19. \A d \in Uploads : reader[d].pc = "none" => reader'[d].pc = "none"
  BY <1>2, <1>8
<1> QED BY <1>2, <1>14, <1>15, <1>16, <1>17, <1>18, <1>19, CalmStep

-----------------------------------------------------------------------------
(* FilePushReader takes a frame.                                           *)

\* The frame that is taken, and those that are left.
LEMMA Taken ==
  ASSUME PushInv, toServer # <<>>, toServer' = Tail(toServer), NEW f, f = Head(toServer)
  PROVE  /\ f \in Range(toServer) /\ f \in FrameType(Requests)
         /\ toServer' \in Seq(FrameType(Requests))
         /\ Range(toServer') \subseteq Range(toServer)
         /\ Apart(toServer', {"create"}) /\ Apart(toServer', Asks)
         /\ \A g \in Range(toServer') :
              /\ f.op \in Asks /\ g.op \in Asks => g.chan # f.chan
              /\ f.op = "create" /\ g.op = "create" => g.chan # f.chan
<1>1. toServer \in Seq(FrameType(Requests)) /\ Apart(toServer, {"create"}) /\ Apart(toServer, Asks)
  BY DEF PushInv, PushTypeOK, CreateInv, RequestsInv
<1>2. Apart(Tail(toServer), {"create"}) /\ Apart(Tail(toServer), Asks)
  BY <1>1, OneLessApart
<1>3. /\ f.op \in Asks => \A g \in Range(Tail(toServer)) : g.op \in Asks => g.chan # f.chan
      /\ f.op = "create" =>
           \A g \in Range(Tail(toServer)) : g.op \in {"create"} => g.chan # f.chan
  BY <1>1, OneLessApart
<1>4. /\ f \in Range(toServer) /\ f \in FrameType(Requests)
      /\ Tail(toServer) \in Seq(FrameType(Requests))
      /\ Range(Tail(toServer)) \subseteq Range(toServer)
  BY <1>1, OneLess
<1> QED BY <1>2, <1>3, <1>4

\* One answer more, or none when the websocket has ended.
LEMMA Answered1 ==
  ASSUME PushInv, NEW f, f \in FrameType(Answers), Emit(<<f>>),
         \A g \in Range(toBrowser) :
            /\ f.op = "named" /\ g.op = "named" => g.chan # f.chan
            /\ f.op = "ok" /\ g.op = "ok" => g.chan # f.chan
  PROVE  /\ toBrowser' \in Seq(FrameType(Answers))
         /\ \A g \in Range(toBrowser') : g \in Range(toBrowser) \/ g = f
         /\ Apart(toBrowser', {"named"}) /\ Apart(toBrowser', {"ok"})
<1>1. /\ toBrowser \in Seq(FrameType(Answers))
      /\ Apart(toBrowser, {"named"}) /\ Apart(toBrowser, {"ok"})
  BY DEF PushInv, PushTypeOK, NamedInv, AnswersInv
<1>2. /\ Append(toBrowser, f) \in Seq(FrameType(Answers))
      /\ Range(Append(toBrowser, f)) = Range(toBrowser) \cup {f}
  BY <1>1, OneMore
<1>3. Apart(Append(toBrowser, f), {"named"}) /\ Apart(Append(toBrowser, f), {"ok"})
  BY <1>1, OneMoreApart
<1>4. toBrowser' = toBrowser \/ toBrowser' = Append(toBrowser, f)
  BY <1>1 DEF Emit
<1> QED BY <1>1, <1>2, <1>3, <1>4

\* The server sees the parent channel or the websocket close.
LEMMA ClosedKeeps ==
  ASSUME PushInv, toServer # <<>>, toServer' = Tail(toServer), Closed,
         UNCHANGED <<browserVars, server, device>>
  PROVE  PushInv'
<1> USE DEF PushInv
<1>1. UNCHANGED <<page, link, up, waiters, channel, toBrowser, fileId, server, device>>
  BY DEF Closed, browserVars
<1>2. PICK refused :
        reader' = [c \in Uploads |-> IF reader[c].end = "open"
                                     THEN Released(reader[c], c \in refused) ELSE reader[c]]
  BY DEF Closed
<1>3. PICK f : f = Head(toServer)
  OBVIOUS
<1>4. /\ toServer' \in Seq(FrameType(Requests))
      /\ Range(toServer') \subseteq Range(toServer)
      /\ Apart(toServer', {"create"}) /\ Apart(toServer', Asks)
  BY <1>3, Taken
<1>5. ASSUME NEW c \in Uploads
      PROVE  /\ reader'[c] \in ReaderType /\ Calm(c)
             /\ reader'[c].flushed <= Len(reader'[c].written)
             /\ reader'[c].pc = "pushing" => reader'[c].flushed = reader[c].flushed
             /\ reader'[c].pc = "none" <=> reader'[c].end = "none"
             /\ reader[c].pc = "none" => reader'[c] = reader[c]
  <2>1. /\ reader[c] \in ReaderType /\ (reader[c].pc = "none" <=> reader[c].end = "none")
        /\ reader[c].flushed <= Len(reader[c].written)
    BY DEF PushTypeOK, EndsInv, ReadersInv, ReaderOK
  <2>2. CASE reader[c].end = "open"
    <3>1. PICK stuck : reader'[c] = Released(reader[c], stuck)
      BY <1>2, <2>2
    <3> QED BY <2>1, <2>2, <3>1, ReleasedReader DEF Calm
  <2>3. CASE reader[c].end # "open"
    <3>1. reader'[c] = reader[c]
      BY <1>2, <2>3
    <3> QED BY <2>1, <3>1 DEF Calm
  <2> QED BY <2>2, <2>3
<1>6. PushTypeOK' /\ EndsInv'
  <2>1. reader' \in [Uploads -> ReaderType]
    BY <1>2, <1>5
  <2>2. EndsInv'
    BY <1>5 DEF EndsInv
  <2> QED BY <1>1, <1>4, <2>1, <2>2 DEF PushTypeOK
<1>7. CalmFrames
  <2>1. \A g \in Range(toServer) : g.op = "create" => reader'[g.chan].pc = reader[g.chan].pc
    BY <1>5 DEF CreateInv
  <2>2. Apart(toBrowser, {"named"}) /\ Apart(toBrowser, {"ok"})
    BY DEF NamedInv, AnswersInv
  <2> QED BY <1>1, <1>4, <2>1, <2>2 DEF CalmFrames
<1>8. \A u \in Uploads : Steady(u) /\ up'[u].told \in {up[u].told, "error"}
  BY <1>1 DEF Steady
<1> QED BY <1>1, <1>5, <1>6, <1>7, <1>8, CalmStep

\* A request that no reader listens for any more, and one that is refused.
LEMMA RefusedKeeps ==
  ASSUME PushInv, toServer # <<>>, toServer' = Tail(toServer), NEW c \in Uploads,
         \/ UNCHANGED <<reader, toBrowser, fileId>>
         \/ reader[c].end = "open" /\ Refused(c),
         UNCHANGED <<browserVars, server, device>>
  PROVE  PushInv'
<1> USE DEF PushInv
<1>1. UNCHANGED <<page, link, up, waiters, channel, fileId, server, device>>
  BY DEF Refused, browserVars
<1>2. PICK f : f = Head(toServer)
  OBVIOUS
<1>3. /\ toServer' \in Seq(FrameType(Requests))
      /\ Range(toServer') \subseteq Range(toServer)
      /\ Apart(toServer', {"create"}) /\ Apart(toServer', Asks)
  BY <1>2, Taken
<1>4. PICK error : error = ErrorFrame(c)
  OBVIOUS
<1>5. /\ toBrowser' \in Seq(FrameType(Answers))
      /\ \A g \in Range(toBrowser') : g \in Range(toBrowser) \/ g.op = "error"
      /\ Apart(toBrowser', {"named"}) /\ Apart(toBrowser', {"ok"})
  <2>1. error \in FrameType(Answers) /\ error.op = "error"
    BY <1>4 DEF ErrorFrame, Frame, FrameType, Answers
  <2>2. CASE UNCHANGED toBrowser
    BY <2>2 DEF PushTypeOK, NamedInv, AnswersInv
  <2>3. CASE Emit(<<error>>)
    BY <2>1, <2>3, Answered1
  <2> QED BY <1>4, <2>2, <2>3 DEF Refused
<1>6. /\ \A d \in Uploads : d # c => reader'[d] = reader[d]
      /\ reader'[c] \in ReaderType /\ Calm(c) /\ reader' \in [Uploads -> ReaderType]
      /\ reader'[c].flushed <= Len(reader'[c].written)
      /\ reader'[c].pc = "pushing" => reader'[c].flushed = reader[c].flushed
      /\ reader'[c].pc = "none" <=> reader'[c].end = "none"
      /\ reader[c].pc = "none" => reader'[c] = reader[c]
  <2>1. /\ reader[c] \in ReaderType /\ reader \in [Uploads -> ReaderType]
        /\ reader[c].pc = "none" <=> reader[c].end = "none"
        /\ reader[c].flushed <= Len(reader[c].written)
    BY DEF PushTypeOK, EndsInv, ReadersInv, ReaderOK
  <2>2. CASE reader' = reader
    BY <2>1, <2>2 DEF Calm
  <2>3. CASE reader[c].end = "open" /\ Refused(c)
    <3>1. PICK stuck \in BOOLEAN : reader' = [reader EXCEPT ![c] = Released(@, stuck)]
      BY <2>3 DEF Refused
    <3>2. reader'[c] = Released(reader[c], stuck)
      BY <2>1, <3>1
    <3>3. \A d \in Uploads : d # c => reader'[d] = reader[d]
      BY <2>1, <3>1
    <3> QED BY <2>1, <2>3, <3>1, <3>2, <3>3, ReleasedReader DEF Calm
  <2> QED BY <2>2, <2>3
<1>7. PushTypeOK' /\ EndsInv'
  <2>1. EndsInv'
    BY <1>6 DEF EndsInv
  <2> QED BY <1>1, <1>3, <1>5, <1>6, <2>1 DEF PushTypeOK
<1>8. CalmFrames
  <2>1. \A g \in Range(toServer) : g.op = "create" => reader'[g.chan].pc = reader[g.chan].pc
    BY <1>6 DEF CreateInv
  <2> QED BY <1>1, <1>3, <1>5, <2>1 DEF CalmFrames
<1>9. \A u \in Uploads : Steady(u) /\ up'[u].told \in {up[u].told, "error"}
  BY <1>1 DEF Steady
<1>10. \A d \in Uploads :
         /\ Calm(d) /\ channel'[d].id = channel[d].id
         /\ reader'[d].flushed <= Len(reader'[d].written)
         /\ reader'[d].pc = "pushing" => reader'[d].flushed = reader[d].flushed
         /\ reader[d].pc = "none" => reader'[d].pc = "none"
  BY <1>1, <1>6 DEF Calm, ReadersInv, ReaderOK
<1> QED BY <1>1, <1>7, <1>8, <1>9, <1>10, CalmStep

\* A step of one reader that is not over: nothing else is under way in its channel.
LEMMA ReaderStep ==
  ASSUME PushInv, PushTypeOK', EndsInv', IdsInv',
         UNCHANGED <<link, up, waiters, channel, server, device>>,
         NEW c \in Uploads,
         \A d \in Uploads : d # c => reader'[d] = reader[d],
         reader[c].id # 0 => reader'[c].id = reader[c].id,
         ReaderOK(reader[c])',
         link = "up" => up[c].pc # "idle",
         \A u \in Uploads : up[u].pc \in {"ready", "over"} => up[u].id # reader'[c].id,
         \A g \in Range(toServer') :
            g \in Range(toServer) /\ (g.op \in Asks \cup {"create"} => g.chan # c),
         Apart(toServer', {"create"}), Apart(toServer', Asks),
         \A g \in Range(toBrowser) : g.op = "ok" => g.chan # c,
         \A g \in Range(toBrowser') :
            \/ g \in Range(toBrowser)
            \/ /\ g.op = "named" /\ g.chan = c
               /\ g.id = reader'[c].id /\ g.id # 0 /\ channel[c].id = 0
            \/ g.op = "ok" /\ g.chan = c /\ AnswerOK(g)',
         Apart(toBrowser', {"named"}), Apart(toBrowser', {"ok"})
  PROVE  PushInv'
<1> USE DEF PushInv
<1>1. \A u \in Uploads : Steady(u)
  BY DEF Steady
<1>2. \A d \in Uploads : d # c => Calm(d)
  BY DEF Calm
<1>3. WaitersInv'
  BY DEF WaitersInv
<1>4. NamedInv'
  <2>1. ASSUME NEW g \in Range(toBrowser'), g.op = "named"
        PROVE  /\ g.chan \in Uploads
               /\ g.id = reader'[g.chan].id /\ g.id # 0 /\ channel'[g.chan].id = 0
    <3>1. CASE g \in Range(toBrowser)
      <4>1. g.chan \in Uploads /\ g.id = reader[g.chan].id /\ g.id # 0 /\ channel[g.chan].id = 0
        BY <2>1, <3>1 DEF NamedInv
      <4> QED BY <4>1
    <3> QED BY <2>1, <3>1
  <2> QED BY <2>1 DEF NamedInv
<1>5. CreateInv'
  <2>1. link' = "up" => /\ server' = "up"
                        /\ \A d \in Uploads : reader'[d].pc # "none" => up'[d].pc # "idle"
    BY DEF CreateInv
  <2>2. ASSUME NEW g \in Range(toServer')
        PROVE  /\ g.op # "close" => g.chan \in Uploads
               /\ g.op = "create" => reader'[g.chan].pc = "none" /\ up'[g.chan].pc # "idle"
    BY DEF CreateInv
  <2> QED BY <2>1, <2>2 DEF CreateInv
<1>6. RequestsInv'
  <2>1. ASSUME NEW g \in Range(toServer'), g.op \in Asks PROVE RequestOK(g)'
    <3>1. RequestOK(g) /\ g.chan \in Uploads /\ g.chan # c
      BY <2>1 DEF RequestsInv, CreateInv, Asks
    <3> QED BY <1>1, <1>2, <3>1, RequestStays DEF RequestOK
  <2> QED BY <2>1 DEF RequestsInv
<1>7. AnswersInv'
  <2>1. ASSUME NEW g \in Range(toBrowser'), g.op = "ok"
        PROVE  /\ AnswerOK(g)'
               /\ \A h \in Range(toServer') : h.op \in Asks => h.chan # g.chan
    <3>1. CASE g \in Range(toBrowser)
      <4>1. AnswerOK(g) /\ g.chan # c
        BY <2>1, <3>1 DEF AnswersInv
      <4>2. AnswerOK(g)'
        BY <1>1, <1>2, <4>1, AnswerStays DEF AnswerOK
      <4> QED BY <2>1, <3>1, <4>2 DEF AnswersInv
    <3>2. CASE g.chan = c /\ AnswerOK(g)'
      BY <3>2
    <3> QED BY <2>1, <3>1, <3>2
  <2> QED BY <2>1 DEF AnswersInv
<1>8. ReadersInv'
  <2>1. ASSUME NEW d \in Uploads PROVE ReaderOK(reader[d])'
    <3>1. CASE d # c
      <4>1. /\ ReaderOK(reader[d]) /\ reader[d].file \in Uploads \cup {None}
            /\ reader'[d].flushed <= Len(reader'[d].written) /\ reader'[d].flushed = reader[d].flushed
        BY <3>1, Fields DEF ReadersInv, ReaderOK
      <4> QED BY <1>1, <1>2, <3>1, <4>1, ReaderStays
    <3> QED BY <3>1
  <2> QED BY <2>1 DEF ReadersInv
<1>9. ReadyInv'
  <2>1. ASSUME NEW u \in Uploads, up[u].pc = "ready", NEW d \in Uploads, reader'[d].id = up[u].id
        PROVE  /\ reader'[d].pc \in Going \cup {"over"}
               /\ reader'[d].pc \in Going => Done(reader'[d]) = up[u].sent
    <3>1. d # c /\ reader'[d] = reader[d]
      BY <2>1
    <3> QED BY <2>1, <3>1 DEF ReadyInv
  <2>2. \A u \in Uploads : /\ up[u].pc \in {"idle", "new"} => up[u].sent = 0
                           /\ up[u].sent <= up[u].size + 1
    BY DEF ReadyInv
  <2> QED BY <2>1, <2>2 DEF ReadyInv
<1>10. SuccessInv'
  <2>1. ASSUME NEW u \in Uploads, up[u].told = "success"
        PROVE  /\ up[u].pc = "over" /\ device[u] = Chunks(up[u].size, u)
               /\ \A d \in Uploads : reader'[d].id = up[u].id => reader'[d].pc = "over"
    BY <2>1 DEF SuccessInv
  <2> QED BY <2>1 DEF SuccessInv
<1> QED BY <1>3, <1>4, <1>5, <1>6, <1>7, <1>8, <1>9, <1>10

\* A channel gets its reader.
LEMMA CreatedKeeps ==
  ASSUME PushInv, toServer # <<>>, toServer' = Tail(toServer), NEW f, f = Head(toServer),
         f.op = "create", Created(f.chan),
         UNCHANGED <<browserVars, server, device>>
  PROVE  PushInv'
<1> USE DEF PushInv
<1>1. UNCHANGED <<page, link, up, waiters, channel, toBrowser, fileId, server, device>>
  BY DEF Created, browserVars
<1>2. /\ toServer' \in Seq(FrameType(Requests)) /\ f \in Range(toServer)
      /\ Range(toServer') \subseteq Range(toServer)
      /\ Apart(toServer', {"create"}) /\ Apart(toServer', Asks)
      /\ \A g \in Range(toServer') : g.op = "create" => g.chan # f.chan
  BY Taken
<1>3. PICK c \in Uploads : c = f.chan
  BY <1>2 DEF CreateInv
<1>4. reader[c].pc = "none" /\ up[c].pc # "idle" /\ reader[c].id = 0
  BY <1>2, <1>3 DEF CreateInv, IdsInv
<1>5. /\ \A d \in Uploads : d # c => reader'[d] = reader[d]
      /\ reader'[c] \in ReaderType /\ reader' \in [Uploads -> ReaderType]
      /\ reader'[c].pc = "initial" /\ reader'[c].end = "open" /\ reader'[c].id = 0
      /\ reader'[c].file = reader[c].file /\ reader'[c].written = reader[c].written
      /\ reader'[c].flushed = reader[c].flushed
  <2>1. reader[c] \in ReaderType /\ reader \in [Uploads -> ReaderType]
    BY DEF PushTypeOK
  <2>2. reader'[c] = [reader[c] EXCEPT !.pc = "initial", !.end = "open"]
    BY <1>3, <2>1 DEF Created
  <2>3. \A d \in Uploads : d # c => reader'[d] = reader[d]
    BY <1>3, <2>1 DEF Created
  <2> QED BY <1>3, <1>4, <2>1, <2>2, <2>3 DEF Created, ReaderType
<1>6. PushTypeOK' /\ EndsInv'
  <2>1. EndsInv'
    BY <1>5 DEF EndsInv
  <2> QED BY <1>1, <1>2, <1>5, <2>1 DEF PushTypeOK
<1>7. IdsInv'
  <2>1. ASSUME NEW d \in Uploads
        PROVE  /\ reader'[d].id = reader[d].id /\ channel'[d].id = channel[d].id
               /\ reader'[d].pc \in {"none", "initial"} => reader[d].pc \in {"none", "initial"}
               /\ reader'[d].pc \notin {"none", "initial", "over"} =>
                    reader[d].pc \notin {"none", "initial", "over"}
    BY <1>1, <1>4, <1>5
  <2> QED BY <1>1, <2>1, IdsStay
<1>8. ReaderOK(reader[c])'
  <2>1. ReaderOK(reader[c])
    BY DEF ReadersInv
  <2>2. reader[c].file = None /\ reader[c].written = <<>>
    BY <1>4, <2>1 DEF ReaderOK
  <2> QED BY <1>5, <2>1, <2>2 DEF ReaderOK
<1>9. \A g \in Range(toServer') :
         g \in Range(toServer) /\ (g.op \in Asks \cup {"create"} => g.chan # c)
  BY <1>2, <1>3, <1>4 DEF RequestsInv, RequestOK
<1>10. \A g \in Range(toBrowser) : g.op = "ok" => g.chan # c
  BY <1>4 DEF AnswersInv, AnswerOK
<1>11. \A u \in Uploads : up[u].pc \in {"ready", "over"} => up[u].id # reader'[c].id
  BY <1>5 DEF IdsInv
<1>12. Apart(toBrowser', {"named"}) /\ Apart(toBrowser', {"ok"})
  BY <1>1 DEF NamedInv, AnswersInv
<1> QED BY <1>1, <1>2, <1>4, <1>5, <1>6, <1>7, <1>8, <1>9, <1>10, <1>11, <1>12, ReaderStep

\* The reader takes the next id and answers it.
LEMMA NumberedKeeps ==
  ASSUME PushInv, toServer # <<>>, toServer' = Tail(toServer), NEW f, f = Head(toServer),
         f.op = "new", reader[f.chan].pc = "initial", Numbered(f.chan),
         UNCHANGED <<browserVars, server, device>>
  PROVE  PushInv'
<1> USE FilePushAssumption DEF PushInv
<1>1. UNCHANGED <<page, link, up, waiters, channel, server, device>>
  BY DEF browserVars
<1>2. /\ toServer' \in Seq(FrameType(Requests)) /\ f \in Range(toServer)
      /\ Range(toServer') \subseteq Range(toServer)
      /\ Apart(toServer', {"create"}) /\ Apart(toServer', Asks)
  BY Taken
<1>3. PICK c \in Uploads : c = f.chan
  BY <1>2 DEF CreateInv
<1>4. PICK n \in Nat : n = fileId + 1
  BY Fields
<1>5. fileId' = n /\ n # 0 /\ \A d \in Uploads : reader[d].id < n
  BY <1>4, Fields DEF Numbered, IdsInv
<1>6. reader[c].pc = "initial" /\ reader[c].id = 0 /\ ReaderOK(reader[c])
  BY <1>3 DEF IdsInv, ReadersInv
<1>7. /\ \A d \in Uploads : d # c => reader'[d] = reader[d]
      /\ reader'[c] \in ReaderType /\ reader' \in [Uploads -> ReaderType]
      /\ reader'[c].pc = "new" /\ reader'[c].end = reader[c].end /\ reader'[c].id = n
      /\ reader'[c].file = reader[c].file /\ reader'[c].written = reader[c].written
      /\ reader'[c].flushed = reader[c].flushed
  <2>1. reader[c] \in ReaderType /\ reader \in [Uploads -> ReaderType]
    BY DEF PushTypeOK
  <2>2. reader' = [reader EXCEPT ![c].pc = "new", ![c].id = n]
    BY <1>3, <1>5 DEF Numbered
  <2>3. reader'[c] = [reader[c] EXCEPT !.pc = "new", !.id = n]
    BY <2>1, <2>2
  <2>4. reader'[c] \in ReaderType
    BY <2>1, <2>3 DEF ReaderType
  <2>5. /\ reader'[c].pc = "new" /\ reader'[c].end = reader[c].end /\ reader'[c].id = n
        /\ reader'[c].file = reader[c].file /\ reader'[c].written = reader[c].written
        /\ reader'[c].flushed = reader[c].flushed
    BY <2>1, <2>3 DEF ReaderType
  <2> QED BY <2>1, <2>2, <2>4, <2>5
<1>8. PICK named : named = Frame(c, "named", n, None)
  OBVIOUS
<1>9. /\ named \in FrameType(Answers) /\ named.op = "named"
      /\ named.chan = c /\ named.id = n
  BY <1>8 DEF Frame, FrameType, Answers
<1>10. channel[c].id = 0 /\ \A g \in Range(toBrowser) : g.op \in {"named", "ok"} => g.chan # c
  BY <1>6 DEF IdsInv, NamedInv, AnswersInv, AnswerOK
<1>11. /\ toBrowser' \in Seq(FrameType(Answers))
       /\ \A g \in Range(toBrowser') : g \in Range(toBrowser) \/ g = named
       /\ Apart(toBrowser', {"named"}) /\ Apart(toBrowser', {"ok"})
  <2>1. CASE Emit(<<named>>)
    BY <1>9, <1>10, <2>1, Answered1
  <2>2. CASE Emit(<<>>)
    <3>1. toBrowser \in Seq(FrameType(Answers))
      BY DEF PushTypeOK
    <3>2. toBrowser' = toBrowser
      BY <2>2, <3>1 DEF Emit
    <3> QED BY <3>1, <3>2 DEF NamedInv, AnswersInv
  <2> QED BY <1>3, <1>5, <1>8, <2>1, <2>2 DEF Numbered
<1>12. PushTypeOK'
  BY <1>1, <1>2, <1>5, <1>7, <1>11 DEF PushTypeOK
<1>13. EndsInv'
  BY <1>6, <1>7 DEF EndsInv
<1>14. \A u \in Uploads : up[u].id # 0 => up[u].id # n
  BY <1>5 DEF IdsInv
<1>15. IdsInv'
  <2>1. ASSUME NEW d \in Uploads
        PROVE  /\ reader'[d].id <= fileId'
               /\ reader'[d].pc \in {"none", "initial"} => reader'[d].id = 0
               /\ reader'[d].pc \notin {"none", "initial", "over"} => reader'[d].id # 0
               /\ channel'[d].id \in {0, reader'[d].id}
    <3>1. CASE d = c
      BY <1>1, <1>5, <1>7, <1>10, <3>1
    <3>2. CASE d # c
      BY <1>1, <1>4, <1>5, <1>7, <3>2, Fields DEF IdsInv
    <3> QED BY <3>1, <3>2
  <2>2. ASSUME NEW d \in Uploads, NEW e \in Uploads, reader'[d].id # 0, reader'[d].id = reader'[e].id
        PROVE  d = e
    <3>1. d # c /\ e # c => d = e
      BY <1>7, <2>2 DEF IdsInv
    <3>2. d # c => reader'[d].id < n
      BY <1>5, <1>7
    <3>3. e # c => reader'[e].id < n
      BY <1>5, <1>7
    <3>4. reader[d].id \in Nat /\ reader[e].id \in Nat
      BY Fields
    <3> QED BY <1>7, <2>2, <3>1, <3>2, <3>3
  <2>3. \A u \in Uploads :
          /\ up'[u].id # 0 <=> up'[u].pc \in {"ready", "wait", "unread", "over"}
          /\ up'[u].id # 0 => \E d \in Uploads : channel'[d].id = up'[u].id
    BY <1>1 DEF IdsInv
  <2>4. \A u, v \in Uploads : up'[u].id # 0 /\ up'[u].id = up'[v].id => u = v
    BY <1>1 DEF IdsInv
  <2> QED BY <2>1, <2>2, <2>3, <2>4 DEF IdsInv
<1>16. ReaderOK(reader[c])'
  <2>1. reader[c].file = None /\ reader[c].written = <<>> /\ reader[c].flushed <= Len(reader[c].written)
    BY <1>6 DEF ReaderOK
  <2> QED BY <1>7, <2>1 DEF ReaderOK
<1>17. \A g \in Range(toServer') :
          g \in Range(toServer) /\ (g.op \in Asks \cup {"create"} => g.chan # c)
  <2>1. ASSUME NEW g \in Range(toServer), g.op \in Asks PROVE g.chan # c
    BY <1>6, <2>1 DEF RequestsInv, RequestOK
  <2>2. ASSUME NEW g \in Range(toServer), g.op = "create" PROVE g.chan # c
    BY <1>6, <2>2 DEF CreateInv
  <2> QED BY <1>2, <2>1, <2>2
<1>18. \A u \in Uploads : up[u].pc \in {"ready", "over"} => up[u].id # reader'[c].id
  BY <1>7, <1>14 DEF IdsInv
<1>19. link = "up" => up[c].pc # "idle"
  BY <1>6 DEF CreateInv
<1>20. \A g \in Range(toBrowser') :
         \/ g \in Range(toBrowser)
         \/ /\ g.op = "named" /\ g.chan = c
            /\ g.id = reader'[c].id /\ g.id # 0 /\ channel[c].id = 0
         \/ g.op = "ok" /\ g.chan = c /\ AnswerOK(g)'
  BY <1>5, <1>7, <1>9, <1>10, <1>11
<1> QED BY <1>1, <1>2, <1>6, <1>7, <1>10, <1>11, <1>12, <1>13, <1>15, <1>16, <1>17, <1>18, <1>19,
           <1>20, ReaderStep

\* What an upload asked for, unless it could not be read.
Awaited(f, c, u) ==
    \/ /\ up[u].pc = "wait" /\ f.op = Request(u)
       /\ reader[c].pc \in Going => Done(reader[c]) = up[u].sent
    \/ up[u].pc = "unread" /\ f.op # "finish"

\* What an accepted request finds: its upload waits or could not be read, and nothing
\* else is under way.
LEMMA Asked ==
  ASSUME PushInv, toServer # <<>>, toServer' = Tail(toServer), NEW f, f = Head(toServer),
         f.op \in Asks,
         NEW c, c = f.chan, NEW u, u = f.file
  PROVE  /\ c \in Uploads /\ u \in Uploads
         /\ reader[c].id # 0 /\ up[u].id = reader[c].id
         /\ Awaited(f, c, u)
         /\ up[u].sent \in Nat /\ up[u].size \in Nat /\ up[u].sent <= up[u].size + 1
         /\ ReaderOK(reader[c]) /\ (reader[c].file # None => reader[c].file = u)
         /\ link = "up" => up[c].pc # "idle"
         /\ \A v \in Uploads : up[v].pc \in {"ready", "over"} => up[v].id # reader[c].id
         /\ toServer' \in Seq(FrameType(Requests))
         /\ Apart(toServer', {"create"}) /\ Apart(toServer', Asks)
         /\ \A g \in Range(toServer') :
              g \in Range(toServer) /\ (g.op \in Asks \cup {"create"} => g.chan # c)
         /\ \A g \in Range(toBrowser) : g.op = "ok" => g.chan # c
<1> USE DEF PushInv
<1>1. /\ f \in Range(toServer)
      /\ toServer' \in Seq(FrameType(Requests))
      /\ Range(toServer') \subseteq Range(toServer)
      /\ Apart(toServer', {"create"}) /\ Apart(toServer', Asks)
      /\ \A g \in Range(toServer') : g.op \in Asks => g.chan # f.chan
  BY Taken
<1>2. c \in Uploads
  BY <1>1 DEF CreateInv, Asks
<1>3. RequestOK(f)
  BY <1>1 DEF RequestsInv
<1>4. /\ u \in Uploads /\ reader[c].id # 0 /\ up[u].id = reader[c].id
      /\ up[u].pc \in {"wait", "unread"} /\ Awaited(f, c, u)
  BY <1>3 DEF RequestOK, Awaited
<1>5. ReaderOK(reader[c]) /\ up[u].sent <= up[u].size + 1
  BY <1>2, <1>4 DEF ReadersInv, ReadyInv
<1>6. reader[c].file # None => reader[c].file = u
  <2>1. reader[c].file # None => reader[c].file \in Uploads /\ up[reader[c].file].id = reader[c].id
    BY <1>2, <1>5, Fields DEF ReaderOK
  <2> QED BY <1>4, <2>1 DEF IdsInv
<1>7. reader[c].pc # "none"
  BY <1>2, <1>4 DEF IdsInv
<1>8. link = "up" => up[c].pc # "idle"
  BY <1>2, <1>7 DEF CreateInv
<1>9. \A v \in Uploads : up[v].pc \in {"ready", "over"} => up[v].id # reader[c].id
  BY <1>4 DEF IdsInv
<1>10. ASSUME NEW g \in Range(toServer')
       PROVE  g \in Range(toServer) /\ (g.op \in Asks \cup {"create"} => g.chan # c)
  <2>1. g \in Range(toServer) /\ (g.op \in Asks => g.chan # c)
    BY <1>1
  <2>2. g.op = "create" => reader[g.chan].pc = "none"
    BY <2>1 DEF CreateInv
  <2>3. g.op = "create" => g.chan # c
    BY <1>7, <2>2
  <2> QED BY <2>1, <2>3
<1>11. \A g \in Range(toBrowser) : g.op = "ok" => g.chan # c
  BY <1>1 DEF AnswersInv
<1> QED BY <1>1, <1>2, <1>4, <1>5, <1>6, <1>8, <1>9, <1>10, <1>11, Fields

\* An accepted request moves its reader on, and is answered or waits.
LEMMA RequestStep ==
  ASSUME PushInv, toServer # <<>>, toServer' = Tail(toServer), NEW f, f = Head(toServer),
         f.op \in Asks, NEW c, c = f.chan,
         UNCHANGED <<browserVars, fileId, server, device>>,
         reader[c].pc \in Going, reader' \in [Uploads -> ReaderType],
         \A d \in Uploads : d # c => reader'[d] = reader[d],
         reader'[c].id = reader[c].id, reader'[c].end = reader[c].end,
         reader'[c].pc \in {"start", "append", "ending"}, ReaderOK(reader[c])',
         NEW ok, ok = Frame(c, "ok", reader[c].id, None),
         \/ UNCHANGED toBrowser
         \/ Emit(<<ok>>) /\ AnswerOK(ok)'
  PROVE  PushInv'
<1> USE DEF PushInv
<1>1. UNCHANGED <<page, link, up, waiters, channel, server, device>>
  BY DEF browserVars
<1>2. PICK u : u = f.file
  OBVIOUS
<1>3. /\ c \in Uploads /\ reader[c].id # 0
      /\ link = "up" => up[c].pc # "idle"
      /\ \A v \in Uploads : up[v].pc \in {"ready", "over"} => up[v].id # reader[c].id
      /\ toServer' \in Seq(FrameType(Requests))
      /\ Apart(toServer', {"create"}) /\ Apart(toServer', Asks)
      /\ \A g \in Range(toServer') :
           g \in Range(toServer) /\ (g.op \in Asks \cup {"create"} => g.chan # c)
      /\ \A g \in Range(toBrowser) : g.op = "ok" => g.chan # c
  BY <1>2, Asked
<1>4. ok \in FrameType(Answers) /\ ok.op = "ok" /\ ok.chan = c
  BY <1>3, Fields DEF Frame, FrameType, Answers
<1>5. /\ toBrowser' \in Seq(FrameType(Answers))
      /\ \A g \in Range(toBrowser') : g \in Range(toBrowser) \/ (g = ok /\ AnswerOK(ok)')
      /\ Apart(toBrowser', {"named"}) /\ Apart(toBrowser', {"ok"})
  <2>1. CASE UNCHANGED toBrowser
    <3>1. toBrowser' = toBrowser
      BY <2>1
    <3>2. /\ toBrowser \in Seq(FrameType(Answers))
          /\ Apart(toBrowser, {"named"}) /\ Apart(toBrowser, {"ok"})
      BY DEF PushTypeOK, NamedInv, AnswersInv
    <3> QED BY <3>1, <3>2
  <2>2. CASE Emit(<<ok>>) /\ AnswerOK(ok)'
    BY <1>3, <1>4, <2>2, Answered1
  <2> QED BY <2>1, <2>2
<1>6. PushTypeOK'
  BY <1>1, <1>3, <1>5 DEF PushTypeOK
<1>7. EndsInv'
  <2>1. reader[c].end # "none" /\ reader'[c].pc # "none"
    BY <1>3 DEF EndsInv, Going
  <2>2. \A d \in Uploads : d # c => reader'[d] = reader[d]
    OBVIOUS
  <2>3. reader'[c].end = reader[c].end
    OBVIOUS
  <2> QED BY <2>1, <2>2, <2>3 DEF EndsInv
<1>8. IdsInv'
  <2>1. ASSUME NEW d \in Uploads
        PROVE  /\ reader'[d].id = reader[d].id /\ channel'[d].id = channel[d].id
               /\ reader'[d].pc \in {"none", "initial"} => reader[d].pc \in {"none", "initial"}
               /\ reader'[d].pc \notin {"none", "initial", "over"} =>
                    reader[d].pc \notin {"none", "initial", "over"}
    <3>1. CASE d = c
      BY <1>1, <3>1 DEF Going
    <3>2. CASE d # c
      BY <1>1, <3>2
    <3> QED BY <3>1, <3>2
  <2> QED BY <1>1, <2>1, IdsStay
<1>9. \A g \in Range(toBrowser') :
         \/ g \in Range(toBrowser)
         \/ /\ g.op = "named" /\ g.chan = c
            /\ g.id = reader'[c].id /\ g.id # 0 /\ channel[c].id = 0
         \/ g.op = "ok" /\ g.chan = c /\ AnswerOK(g)'
  BY <1>4, <1>5
<1> QED BY <1>1, <1>3, <1>5, <1>6, <1>7, <1>8, <1>9, ReaderStep

\* START is accepted.
LEMMA StartedKeeps ==
  ASSUME PushInv, toServer # <<>>, toServer' = Tail(toServer), NEW f, f = Head(toServer),
         f.op = "start", reader[f.chan].pc = "new", Started(f.chan, f.file),
         UNCHANGED <<browserVars, server, device>>
  PROVE  PushInv'
<1> USE FilePushAssumption DEF PushInv
<1>1. PICK c, u : c = f.chan /\ u = f.file
  OBVIOUS
<1>2. f.op \in Asks
  BY DEF Asks
<1>3. /\ c \in Uploads /\ u \in Uploads /\ reader[c].id # 0
      /\ up[u].id = reader[c].id /\ Awaited(f, c, u)
      /\ up[u].sent \in Nat /\ up[u].size \in Nat /\ ReaderOK(reader[c])
  BY <1>1, <1>2, Asked
<1>4. /\ reader[c].written = <<>> /\ reader[c].flushed <= 0
      /\ up[u].pc = "unread" \/ (up[u].pc = "wait" /\ up[u].sent = 0)
  BY <1>1, <1>3 DEF Request, ReaderOK, Awaited
<1>5. /\ \A d \in Uploads : d # c => reader'[d] = reader[d]
      /\ reader'[c] \in ReaderType /\ reader' \in [Uploads -> ReaderType]
      /\ reader'[c].pc = "start" /\ reader'[c].end = reader[c].end /\ reader'[c].id = reader[c].id
      /\ reader'[c].file = u /\ reader'[c].written = <<>>
      /\ reader'[c].flushed = reader[c].flushed
  <2>1. reader[c] \in ReaderType /\ reader \in [Uploads -> ReaderType]
    BY <1>3 DEF PushTypeOK
  <2>2. reader' = [reader EXCEPT ![c].pc = "start", ![c].file = u, ![c].temp = "opening"]
    BY <1>1 DEF Started
  <2>3. reader'[c] = [reader[c] EXCEPT !.pc = "start", !.file = u, !.temp = "opening"]
    BY <1>3, <2>1, <2>2
  <2>4. reader'[c] \in ReaderType
    BY <1>3, <2>1, <2>3 DEF ReaderType
  <2>5. /\ reader'[c].pc = "start" /\ reader'[c].end = reader[c].end /\ reader'[c].id = reader[c].id
        /\ reader'[c].file = u /\ reader'[c].written = reader[c].written
        /\ reader'[c].flushed = reader[c].flushed
    BY <2>1, <2>3 DEF ReaderType
  <2>6. /\ \A d \in Uploads : d # c => reader'[d] = reader[d]
        /\ reader' \in [Uploads -> ReaderType]
    BY <2>1, <2>2, <2>4
  <2> QED BY <1>4, <2>4, <2>5, <2>6
<1>6. UNCHANGED <<browserVars, fileId, server, device>> /\ up' = up
  BY DEF Started, browserVars
<1>7. ReaderOK(reader[c])'
  <2>1. Chunks(0, u) = <<>> /\ Len(<<>>) = 0
    BY <1>3, ChunksAre
  <2>2. u # None
    BY <1>3
  <2> QED BY <1>3, <1>4, <1>5, <1>6, <2>1, <2>2 DEF ReaderOK
<1>8. PICK ok : ok = Frame(c, "ok", reader[c].id, None)
  OBVIOUS
<1>9. Emit(<<ok>>) /\ AnswerOK(ok)'
  <2>1. ok.chan = c /\ ok.id = reader[c].id
    BY <1>8 DEF Frame
  <2>2. Done(reader'[c]) = 1
    BY <1>5 DEF Done
  <2>3. Emit(<<ok>>)
    BY <1>1, <1>8 DEF Started
  <2>4. /\ up'[u].id = ok.id /\ reader'[c].pc \in Going
        /\ \/ up'[u].pc = "unread"
           \/ /\ up'[u].pc = "wait" /\ ~(up'[u].sent > up'[u].size)
              /\ Done(reader'[c]) = up'[u].sent + 1
    BY <1>3, <1>4, <1>5, <1>6, <2>1, <2>2 DEF Going
  <2>5. AnswersWait(ok, u)' \/ AnswersUnread(ok, u)'
    BY <2>1, <2>4 DEF AnswersWait, AnswersUnread
  <2> QED BY <1>3, <1>5, <2>1, <2>3, <2>4, <2>5 DEF AnswerOK
<1> QED BY <1>1, <1>2, <1>5, <1>6, <1>7, <1>8, <1>9, RequestStep DEF Going

\* APPEND is accepted: one chunk more.
LEMMA AppendedKeeps ==
  ASSUME PushInv, toServer # <<>>, toServer' = Tail(toServer), NEW f, f = Head(toServer),
         f.op = "append", reader[f.chan].pc \in {"start", "append"}, Appended(f.chan, f.file),
         UNCHANGED <<browserVars, server, device>>
  PROVE  PushInv'
<1> USE FilePushAssumption DEF PushInv
<1>1. PICK c, u : c = f.chan /\ u = f.file
  OBVIOUS
<1>2. f.op \in Asks
  BY DEF Asks
<1>3. /\ c \in Uploads /\ u \in Uploads /\ reader[c].id # 0
      /\ up[u].id = reader[c].id /\ Awaited(f, c, u)
      /\ up[u].sent \in Nat /\ up[u].size \in Nat /\ ReaderOK(reader[c])
      /\ reader[c].file # None => reader[c].file = u
  BY <1>1, <1>2, Asked
<1>4. PICK n \in Nat : n = Len(reader[c].written)
  BY <1>3, Fields
<1>5. /\ reader[c].file = u /\ reader[c].written = Chunks(n, u) /\ reader[c].flushed <= n
      /\ \/ up[u].pc = "unread"
         \/ up[u].pc = "wait" /\ up[u].sent = n + 1 /\ up[u].sent <= up[u].size
  <2>1. reader[c].pc \in {"start", "append"}
    BY <1>1
  <2>2. up[u].pc = "unread" \/ (up[u].pc = "wait" /\ up[u].sent = n + 1 /\ Request(u) = "append")
    BY <1>1, <1>3, <1>4, <2>1 DEF Done, Going, Awaited
  <2>3. up[u].pc = "wait" => up[u].sent <= up[u].size
    BY <1>3, <1>4, <2>2 DEF Request
  <2>4. reader[c].file = u
    BY <1>3, <2>1 DEF ReaderOK
  <2>5. reader[c].file # None /\ reader[c].written = Chunks(n, u) /\ reader[c].flushed <= n
    BY <1>3, <1>4, <2>1, <2>4 DEF ReaderOK
  <2> QED BY <2>2, <2>3, <2>4, <2>5
<1>6. /\ Chunks(n + 1, u) \in Seq(Uploads) /\ Len(Chunks(n + 1, u)) = n + 1
      /\ Append(Chunks(n, u), u) = Chunks(n + 1, u)
  <2>1. PICK m \in Nat : m = n + 1
    OBVIOUS
  <2>2. Chunks(m, u) \in Seq(Uploads) /\ Len(Chunks(m, u)) = m
    BY <1>3, ChunksAre
  <2>3. Append(Chunks(n, u), u) = Chunks(n + 1, u)
    BY <1>3, ChunksAre
  <2> QED BY <2>1, <2>2, <2>3
<1>7. /\ \A d \in Uploads : d # c => reader'[d] = reader[d]
      /\ reader'[c] \in ReaderType /\ reader' \in [Uploads -> ReaderType]
      /\ reader'[c].pc = "append" /\ reader'[c].end = reader[c].end /\ reader'[c].id = reader[c].id
      /\ reader'[c].file = u /\ reader'[c].written = Chunks(n + 1, u)
      /\ reader'[c].flushed = reader[c].flushed
  <2>1. reader[c] \in ReaderType /\ reader \in [Uploads -> ReaderType]
    BY <1>3 DEF PushTypeOK
  <2>2. reader' = [reader EXCEPT ![c].pc = "append", ![c].written = Append(@, u)]
    BY <1>1 DEF Appended
  <2>3. reader'[c] = [reader[c] EXCEPT !.pc = "append", !.written = Append(Chunks(n, u), u)]
    BY <1>3, <1>5, <2>1, <2>2
  <2>4. PICK w \in Seq(Uploads) : w = Chunks(n + 1, u)
    BY <1>6
  <2>5. reader'[c] = [reader[c] EXCEPT !.pc = "append", !.written = w]
    BY <1>6, <2>3, <2>4
  <2>6. reader'[c] \in ReaderType
    BY <2>1, <2>5 DEF ReaderType
  <2>7. \A d \in Uploads : d # c => reader'[d] = reader[d]
    BY <2>1, <2>2
  <2>8. /\ reader'[c].pc = "append" /\ reader'[c].end = reader[c].end /\ reader'[c].id = reader[c].id
        /\ reader'[c].file = reader[c].file /\ reader'[c].written = w
        /\ reader'[c].flushed = reader[c].flushed
    BY <2>1, <2>5 DEF ReaderType
  <2>9. reader' \in [Uploads -> ReaderType]
    BY <2>1, <2>2, <2>6, <2>7
  <2> QED BY <1>5, <2>4, <2>6, <2>7, <2>8, <2>9
<1>8. UNCHANGED <<browserVars, fileId, server, device>> /\ up' = up
  BY DEF Appended, browserVars
<1>9. ReaderOK(reader[c])'
  <2>1. u # None /\ reader[c].flushed <= n + 1
    BY <1>3, <1>5, Fields
  <2> QED BY <1>3, <1>6, <1>7, <1>8, <2>1 DEF ReaderOK
<1>10. PICK ok : ok = Frame(c, "ok", reader[c].id, None)
  OBVIOUS
<1>11. Emit(<<ok>>) /\ AnswerOK(ok)'
  <2>1. ok.chan = c /\ ok.id = reader[c].id
    BY <1>10 DEF Frame
  <2>2. up[u].pc = "wait" => Done(reader'[c]) = up[u].sent + 1
    BY <1>5, <1>6, <1>7 DEF Done
  <2>3. Emit(<<ok>>)
    BY <1>1, <1>10 DEF Appended
  <2>4. /\ up'[u].id = ok.id /\ reader'[c].pc \in Going
        /\ \/ up'[u].pc = "unread"
           \/ /\ up'[u].pc = "wait" /\ ~(up'[u].sent > up'[u].size)
              /\ Done(reader'[c]) = up'[u].sent + 1
    BY <1>3, <1>5, <1>7, <1>8, <2>1, <2>2 DEF Going
  <2>5. AnswersWait(ok, u)' \/ AnswersUnread(ok, u)'
    BY <2>1, <2>4 DEF AnswersWait, AnswersUnread
  <2> QED BY <1>3, <1>7, <2>1, <2>3, <2>4, <2>5 DEF AnswerOK
<1> QED BY <1>1, <1>2, <1>7, <1>8, <1>9, <1>10, <1>11, RequestStep DEF Going

\* FINISH is accepted, and answered after the push.
LEMMA FinishingKeeps ==
  ASSUME PushInv, toServer # <<>>, toServer' = Tail(toServer), NEW f, f = Head(toServer),
         f.op = "finish", reader[f.chan].pc = "append", Finishing(f.chan),
         UNCHANGED <<browserVars, server, device>>
  PROVE  PushInv'
<1> USE FilePushAssumption DEF PushInv
<1>1. PICK c, u : c = f.chan /\ u = f.file
  OBVIOUS
<1>2. f.op \in Asks
  BY DEF Asks
<1>3. /\ c \in Uploads /\ u \in Uploads /\ reader[c].id # 0
      /\ up[u].id = reader[c].id /\ up[u].pc = "wait" /\ Request(u) = "finish"
      /\ reader[c].pc \in Going => Done(reader[c]) = up[u].sent
      /\ up[u].sent \in Nat /\ up[u].size \in Nat /\ up[u].sent <= up[u].size + 1
      /\ ReaderOK(reader[c])
      /\ reader[c].file # None => reader[c].file = u
  BY <1>1, <1>2, Asked DEF Awaited
<1>4. /\ reader[c].file = u /\ up[u].sent = up[u].size + 1
      /\ Len(reader[c].written) = up[u].size
  <2>1. up[u].sent > up[u].size
    BY <1>3 DEF Request
  <2>2. Len(reader[c].written) \in Nat
    BY <1>3, Fields
  <2>3. reader[c].file = u
    BY <1>1, <1>3 DEF ReaderOK
  <2>4. up[u].sent = 1 + Len(reader[c].written)
    BY <1>1, <1>3 DEF Done, Going
  <2> QED BY <1>3, <2>1, <2>2, <2>3, <2>4
<1>5. /\ \A d \in Uploads : d # c => reader'[d] = reader[d]
      /\ reader' \in [Uploads -> ReaderType]
      /\ reader'[c].pc = "ending" /\ reader'[c].end = reader[c].end /\ reader'[c].id = reader[c].id
      /\ reader'[c].file = reader[c].file /\ reader'[c].written = reader[c].written
      /\ reader'[c].flushed = reader[c].flushed
  <2>1. reader[c] \in ReaderType /\ reader \in [Uploads -> ReaderType]
    BY <1>3 DEF PushTypeOK
  <2>2. reader' = [reader EXCEPT ![c].pc = "ending"]
    BY <1>1 DEF Finishing
  <2> QED BY <1>3, <2>1, <2>2 DEF ReaderType
<1>6. UNCHANGED <<browserVars, toBrowser, fileId, server, device>> /\ up' = up
  BY DEF Finishing, browserVars
<1>7. ReaderOK(reader[c])'
  BY <1>1, <1>3, <1>4, <1>5, <1>6 DEF ReaderOK
<1>8. PICK ok : ok = Frame(c, "ok", reader[c].id, None)
  OBVIOUS
<1> QED BY <1>1, <1>2, <1>5, <1>6, <1>7, <1>8, RequestStep DEF Going

\* The temporary file is complete and `adb push` starts.
LEMMA EndedKeeps ==
  ASSUME PushInv, NEW c \in Uploads, Ended(c), reader[c].end = "open"
  PROVE  PushInv'
<1> USE FilePushAssumption DEF PushInv
<1>1. /\ UNCHANGED <<page, link, up, waiters, channel, toServer, toBrowser, fileId, server, device>>
      /\ reader[c].pc = "ending" /\ reader[c].flushed = Len(reader[c].written)
      /\ reader' = [reader EXCEPT ![c].pc = "pushing"]
  <2>1. reader' = [reader EXCEPT ![c] = [@ EXCEPT !.pc = "pushing"]]
    BY DEF Ended, PushTypeOK
  <2>2. reader' = [reader EXCEPT ![c].pc = "pushing"]
    BY <2>1
  <2> QED BY <2>2 DEF Ended, WrittenOut, browserVars
<1>2. /\ \A d \in Uploads : d # c => reader'[d] = reader[d]
      /\ reader' \in [Uploads -> ReaderType]
      /\ reader'[c].pc = "pushing" /\ reader'[c].end = reader[c].end /\ reader'[c].id = reader[c].id
      /\ reader'[c].file = reader[c].file /\ reader'[c].written = reader[c].written
      /\ reader'[c].flushed = reader[c].flushed
  <2>1. reader[c] \in ReaderType /\ reader \in [Uploads -> ReaderType]
    BY DEF PushTypeOK
  <2> QED BY <1>1, <2>1 DEF ReaderType
<1>3. ReaderOK(reader[c]) /\ reader[c].id # 0
  BY <1>1 DEF ReadersInv, IdsInv
<1>4. PICK u \in Uploads : /\ u = reader[c].file /\ up[u].id = reader[c].id /\ up[u].pc = "wait"
  BY <1>1, <1>3, Fields DEF ReaderOK
<1>5. ReaderOK(reader[c])'
  BY <1>1, <1>2, <1>3 DEF ReaderOK
<1>6. PushTypeOK' /\ EndsInv'
  <2>1. EndsInv'
    BY <1>1, <1>2 DEF EndsInv
  <2> QED BY <1>1, <1>2, <2>1 DEF PushTypeOK
<1>7. IdsInv'
  <2>1. ASSUME NEW d \in Uploads
        PROVE  /\ reader'[d].id = reader[d].id /\ channel'[d].id = channel[d].id
               /\ reader'[d].pc \in {"none", "initial"} => reader[d].pc \in {"none", "initial"}
               /\ reader'[d].pc \notin {"none", "initial", "over"} =>
                    reader[d].pc \notin {"none", "initial", "over"}
    BY <1>1, <1>2
  <2> QED BY <1>1, <2>1, IdsStay
<1>8. \A g \in Range(toServer) : g.op \in Asks \cup {"create"} => g.chan # c
  <2>1. ASSUME NEW g \in Range(toServer), g.op \in Asks PROVE g.chan # c
    BY <1>1, <2>1 DEF RequestsInv, RequestOK, Going
  <2>2. ASSUME NEW g \in Range(toServer), g.op = "create" PROVE g.chan # c
    BY <1>1, <2>2 DEF CreateInv
  <2> QED BY <2>1, <2>2
<1>9. ASSUME NEW g \in Range(toBrowser), g.op = "ok" PROVE g.chan # c
  <2>1. AnswerOK(g)
    BY <1>9 DEF AnswersInv
  <2> QED BY <1>1, <2>1, Fields DEF AnswerOK, AnswersWait, AnswersUnread, Going
<1>10. link = "up" => up[c].pc # "idle"
  BY <1>1 DEF CreateInv
<1>11. \A v \in Uploads : up[v].pc \in {"ready", "over"} => up[v].id # reader'[c].id
  BY <1>2, <1>3, <1>4 DEF IdsInv
<1>12. /\ Apart(toServer', {"create"}) /\ Apart(toServer', Asks)
       /\ Apart(toBrowser', {"named"}) /\ Apart(toBrowser', {"ok"})
  BY <1>1 DEF CreateInv, RequestsInv, NamedInv, AnswersInv
<1> QED BY <1>1, <1>2, <1>5, <1>6, <1>7, <1>8, <1>9, <1>10, <1>11, <1>12, ReaderStep

\* A reader that was released has no file to push.
LEMMA EndedClosedKeeps ==
  ASSUME PushInv, NEW c \in Uploads, Ended(c), reader[c].end # "open"
  PROVE  PushInv'
<1> USE DEF PushInv
<1>1. /\ UNCHANGED <<page, link, up, waiters, channel, toServer, toBrowser, fileId, server, device>>
      /\ reader[c].pc = "ending" /\ reader' = [reader EXCEPT ![c] = Over(@)]
  BY DEF Ended, browserVars
<1>2. /\ \A d \in Uploads : d # c => reader'[d] = reader[d]
      /\ reader'[c] \in ReaderType /\ Calm(c) /\ reader' \in [Uploads -> ReaderType]
      /\ reader'[c].pc = "over" /\ reader'[c].end = "closed"
      /\ reader'[c].flushed = 0 /\ reader'[c].written = <<>>
  <2>1. reader[c] \in ReaderType /\ reader \in [Uploads -> ReaderType]
    BY DEF PushTypeOK
  <2>2. reader'[c] = Over(reader[c])
    BY <1>1, <2>1
  <2> QED BY <1>1, <2>1, <2>2, OverReader DEF Calm
<1>3. PushTypeOK' /\ EndsInv'
  BY <1>1, <1>2 DEF PushTypeOK, EndsInv
<1>4. CalmFrames
  <2>1. \A g \in Range(toServer) : g.op = "create" => reader'[g.chan].pc = reader[g.chan].pc
    BY <1>1, <1>2 DEF CreateInv
  <2>2. /\ Apart(toServer, {"create"}) /\ Apart(toServer, Asks)
        /\ Apart(toBrowser, {"named"}) /\ Apart(toBrowser, {"ok"})
    BY DEF CreateInv, RequestsInv, NamedInv, AnswersInv
  <2> QED BY <1>1, <2>1, <2>2 DEF CalmFrames
<1>5. \A u \in Uploads : Steady(u) /\ up'[u].told \in {up[u].told, "error"}
  BY <1>1 DEF Steady
<1>6. \A d \in Uploads :
         /\ Calm(d) /\ channel'[d].id = channel[d].id
         /\ reader'[d].flushed <= Len(reader'[d].written)
         /\ reader'[d].pc = "pushing" => reader'[d].flushed = reader[d].flushed
         /\ reader[d].pc = "none" => reader'[d].pc = "none"
  BY <1>1, <1>2 DEF Calm, ReadersInv, ReaderOK
<1> QED BY <1>1, <1>3, <1>4, <1>5, <1>6, CalmStep

-----------------------------------------------------------------------------
(* The upload goes on.                                                     *)

\* One upload goes on: no request or answer of its own stays under way.
LEMMA UploadStep ==
  ASSUME PushInv, UNCHANGED <<reader, device>>,
         NEW u \in Uploads,
         \A v \in Uploads : v # u => up'[v] = up[v],
         \A c \in Uploads : reader[c].file = u =>
            reader[c].pc \notin {"ending", "pushing"} /\ up'[u].id = up[u].id,
         \A g \in Range(toServer') :
            \/ g \in Range(toServer) /\ (g.op \in Asks => g.file # u \/ RequestOK(g)')
            \/ /\ g.op \in Asks /\ RequestOK(g)'
               /\ \A h \in Range(toBrowser') : h.op = "ok" => h.chan # g.chan,
         Apart(toServer', Asks),
         \A g \in Range(toBrowser') :
            g \in Range(toBrowser) /\ (g.op = "ok" => g.id # up[u].id \/ AnswerOK(g)'),
         Apart(toBrowser', {"ok"}),
         up'[u].pc \in {"ready", "wait", "unread", "over"}, up'[u].sent <= up'[u].size + 1,
         up'[u].pc = "ready" => \A c \in Uploads : reader[c].id = up'[u].id =>
            /\ reader[c].pc \in Going \cup {"over"}
            /\ reader[c].pc \in Going => Done(reader[c]) = up'[u].sent,
         up'[u].told = "success" =>
            /\ up'[u].pc = "over" /\ device[u] = Chunks(up'[u].size, u)
            /\ \A c \in Uploads : reader[c].id = up'[u].id => reader[c].pc = "over"
  PROVE  RequestsInv' /\ AnswersInv' /\ ReadersInv' /\ ReadyInv' /\ SuccessInv'
<1> USE DEF PushInv
<1>1. \A v \in Uploads : v # u => Steady(v)
  BY DEF Steady
<1>2. \A c : Calm(c)
  BY DEF Calm
<1>3. RequestsInv'
  <2>1. ASSUME NEW g \in Range(toServer'), g.op \in Asks PROVE RequestOK(g)'
    <3>1. CASE g \in Range(toServer) /\ g.file # u
      <4>1. RequestOK(g)
        BY <2>1, <3>1 DEF RequestsInv
      <4> QED BY <1>1, <1>2, <3>1, <4>1, RequestStays DEF RequestOK
    <3> QED BY <2>1, <3>1
  <2> QED BY <2>1 DEF RequestsInv
<1>4. AnswersInv'
  <2>1. ASSUME NEW g \in Range(toBrowser'), g.op = "ok" PROVE AnswerOK(g)'
    <3>1. AnswerOK(g) /\ (g.id # up[u].id \/ AnswerOK(g)')
      BY <2>1 DEF AnswersInv
    <3>2. g.id # up[u].id =>
             \A v \in Uploads : up[v].id = g.id => Steady(v) /\ device'[v] = device[v]
      BY <1>1, <3>1
    <3> QED BY <1>2, <3>1, <3>2, AnswerStays
  <2>2. ASSUME NEW g \in Range(toServer'), NEW h \in Range(toBrowser'), g.op \in Asks, h.op = "ok"
        PROVE  g.chan # h.chan
    BY <2>2 DEF AnswersInv
  <2> QED BY <2>1, <2>2 DEF AnswersInv
<1>5. ReadersInv'
  <2>1. ASSUME NEW c \in Uploads PROVE ReaderOK(reader[c])'
    <3>1. ReaderOK(reader[c]) /\ reader[c].file \in Uploads \cup {None}
      BY Fields DEF ReadersInv
    <3>2. CASE reader[c].file # u
      <4>1. reader'[c].flushed <= Len(reader'[c].written)
        BY <3>1 DEF ReaderOK
      <4> QED BY <1>1, <1>2, <3>1, <3>2, <4>1, ReaderStays
    <3>3. CASE reader[c].file = u
      BY <3>1, <3>3 DEF ReaderOK
    <3> QED BY <3>2, <3>3
  <2> QED BY <2>1 DEF ReadersInv
<1>6. ReadyInv'
  <2>1. ASSUME NEW v \in Uploads
        PROVE  /\ up'[v].pc \in {"idle", "new"} => up'[v].sent = 0
               /\ up'[v].sent <= up'[v].size + 1
    BY DEF ReadyInv
  <2>2. ASSUME NEW v \in Uploads, up'[v].pc = "ready", NEW c \in Uploads, reader[c].id = up'[v].id
        PROVE  /\ reader[c].pc \in Going \cup {"over"}
               /\ reader[c].pc \in Going => Done(reader[c]) = up'[v].sent
    <3>1. CASE v = u
      BY <2>2, <3>1
    <3>2. CASE v # u
      BY <2>2, <3>2 DEF ReadyInv
    <3> QED BY <3>1, <3>2
  <2> QED BY <2>1, <2>2 DEF ReadyInv
<1>7. SuccessInv'
  <2>1. ASSUME NEW v \in Uploads, up'[v].told = "success"
        PROVE  /\ up'[v].pc = "over" /\ device[v] = Chunks(up'[v].size, v)
               /\ \A c \in Uploads : reader[c].id = up'[v].id => reader[c].pc = "over"
    <3>1. CASE v = u
      BY <2>1, <3>1
    <3>2. CASE v # u
      BY <2>1, <3>2 DEF SuccessInv
    <3> QED BY <3>1, <3>2
  <2> QED BY <2>1 DEF SuccessInv
<1> QED BY <1>3, <1>4, <1>5, <1>6, <1>7

\* The next request leaves, or finds its channel closed.
LEMMA SendKeeps ==
  ASSUME PushInv, NEW u \in Uploads, Send(u)
  PROVE  PushInv'
<1> USE FilePushAssumption DEF PushInv
<1>1. PICK c, f : c = ChannelOf(up[u].id) /\ f = Frame(c, Request(u), up[u].id, u)
  OBVIOUS
<1>2. /\ up[u].pc = "ready"
      /\ UNCHANGED <<page, link, waiters, channel, toBrowser, fileId, server, reader, device>>
      /\ \/ toServer' = Append(toServer, f) /\ up' = [up EXCEPT ![u].pc = "wait"]
         \/ toServer' = toServer /\ up' = [up EXCEPT ![u].pc = "over"]
  BY <1>1 DEF Send, serverVars
<1>3. c \in Uploads /\ channel[c].id = up[u].id /\ up[u].id # 0 /\ reader[c].id = up[u].id
  <2>1. up[u].id # 0 /\ \E d \in Uploads : channel[d].id = up[u].id
    BY <1>2 DEF IdsInv
  <2>2. c \in Uploads /\ channel[c].id = up[u].id
    BY <1>1, <2>1 DEF ChannelOf
  <2> QED BY <2>1, <2>2 DEF IdsInv
<1>4. /\ reader[c].pc \in Going \cup {"over"}
      /\ reader[c].pc \in Going => Done(reader[c]) = up[u].sent
      /\ up[u].sent <= up[u].size + 1 /\ up[u].told # "success"
  BY <1>2, <1>3 DEF ReadyInv, SuccessInv
<1>5. /\ f.chan = c /\ f.id = up[u].id /\ f.file = u /\ f.op = Request(u)
      /\ f.op \in Asks /\ f \in FrameType(Requests)
  <2>1. Request(u) \in {"start", "append", "finish"}
    BY DEF Request
  <2> QED BY <1>1, <1>3, <2>1, Fields DEF Frame, FrameType, Requests, Asks
<1>6. /\ \A v \in Uploads : v # u => up'[v] = up[v]
      /\ up'[u].pc \in {"wait", "over"} /\ up'[u].id = up[u].id /\ up'[u].sent = up[u].sent
      /\ up'[u].size = up[u].size /\ up'[u].told = up[u].told
      /\ up' \in [Uploads -> UploadType]
  <2>1. up \in [Uploads -> UploadType] /\ up[u] \in UploadType
    BY DEF PushTypeOK
  <2>2. PICK pc \in {"wait", "over"} : up' = [up EXCEPT ![u].pc = pc]
    BY <1>2
  <2>3. up'[u] = [up[u] EXCEPT !.pc = pc]
    BY <2>1, <2>2
  <2>4. /\ up'[u] \in UploadType /\ up'[u].pc = pc /\ up'[u].id = up[u].id
        /\ up'[u].sent = up[u].sent /\ up'[u].size = up[u].size /\ up'[u].told = up[u].told
    BY <2>1, <2>3 DEF UploadType
  <2> QED BY <2>1, <2>2, <2>4
<1>7. \A g \in Range(toServer) : g.op \in Asks => g.file # u /\ g.chan # c
  BY <1>2, <1>3 DEF RequestsInv, RequestOK, IdsInv
<1>8. \A g \in Range(toBrowser) : g.op = "ok" => g.id # up[u].id /\ g.chan # c
  BY <1>2, <1>3 DEF AnswersInv, AnswerOK, AnswersWait, AnswersUnread, IdsInv
<1>9. /\ toServer' \in Seq(FrameType(Requests))
      /\ Apart(toServer', {"create"}) /\ Apart(toServer', Asks)
      /\ \A g \in Range(toServer') :
           g \in Range(toServer) \/ (g = f /\ up'[u].pc = "wait")
  <2>1. toServer \in Seq(FrameType(Requests)) /\ Apart(toServer, {"create"}) /\ Apart(toServer, Asks)
    BY DEF PushTypeOK, CreateInv, RequestsInv
  <2>2. CASE toServer' = toServer
    BY <2>1, <2>2
  <2>3. CASE toServer' = Append(toServer, f) /\ up' = [up EXCEPT ![u].pc = "wait"]
    <3>1. /\ Append(toServer, f) \in Seq(FrameType(Requests))
          /\ Range(Append(toServer, f)) = Range(toServer) \cup {f}
      BY <1>5, <2>1, OneMore
    <3>2. f.op \notin {"create"}
      BY <1>5 DEF Asks
    <3>3. Apart(Append(toServer, f), {"create"})
      BY <1>5, <2>1, <3>2, OneMoreApart
    <3>4. Apart(Append(toServer, f), Asks)
      BY <1>5, <1>7, <2>1, OneMoreApart
    <3>5. up'[u].pc = "wait"
      BY <2>3 DEF PushTypeOK, UploadType
    <3> QED BY <2>3, <3>1, <3>3, <3>4, <3>5
  <2> QED BY <1>2, <2>2, <2>3
<1>10. up'[u].pc = "wait" => RequestOK(f)'
  <2>1. Request(u)' = Request(u)
    BY <1>6 DEF Request
  <2> QED BY <1>2, <1>3, <1>4, <1>5, <1>6, <2>1 DEF RequestOK
<1>11. ASSUME NEW d \in Uploads, reader[d].file = u PROVE reader[d].pc \notin {"ending", "pushing"}
  BY <1>2, <1>11 DEF ReadersInv, ReaderOK
<1>12. \A g \in Range(toServer') :
            \/ g \in Range(toServer) /\ (g.op \in Asks => g.file # u)
            \/ /\ g.op \in Asks /\ RequestOK(g)'
               /\ \A h \in Range(toBrowser') : h.op = "ok" => h.chan # g.chan
  BY <1>2, <1>5, <1>7, <1>8, <1>9, <1>10
<1>13. RequestsInv' /\ AnswersInv' /\ ReadersInv' /\ ReadyInv' /\ SuccessInv'
  <2>1. Apart(toBrowser', {"ok"})
    BY <1>2 DEF AnswersInv
  <2> QED BY <1>2, <1>4, <1>6, <1>8, <1>9, <1>11, <1>12, <2>1, UploadStep
<1>14. PushTypeOK' /\ EndsInv'
  BY <1>2, <1>6, <1>9 DEF PushTypeOK, EndsInv
<1>15. IdsInv'
  BY <1>2, <1>6, IdsStay
<1>16. WaitersInv'
  <2>1. \A k \in 1..Len(waiters) : waiters[k] \in Uploads
    BY DEF PushTypeOK
  <2> QED BY <1>2, <1>6, <2>1 DEF WaitersInv
<1>17. NamedInv'
  BY <1>2 DEF NamedInv
<1>18. CreateInv'
  <2>1. ASSUME NEW g \in Range(toServer')
        PROVE  /\ g.op # "close" => g.chan \in Uploads
               /\ g.op = "create" => reader[g.chan].pc = "none" /\ up'[g.chan].pc # "idle"
    <3>1. CASE g \in Range(toServer)
      BY <1>6, <3>1 DEF CreateInv
    <3>2. CASE g = f
      BY <1>3, <1>5, <3>2 DEF Asks
    <3> QED BY <1>9, <3>1, <3>2
  <2> QED BY <1>2, <1>6, <1>9, <2>1 DEF CreateInv
<1> QED BY <1>13, <1>14, <1>15, <1>16, <1>17, <1>18

\* The browser could not read the file: what its request and its answer do is dropped.
LEMMA ReadFailsKeeps ==
  ASSUME PushInv, NEW u \in Uploads, ReadFails(u)
  PROVE  PushInv'
<1> USE DEF PushInv
<1>1. /\ UNCHANGED <<page, link, waiters, channel, toServer, toBrowser, fileId, server, reader, device>>
      /\ up' = [up EXCEPT ![u].pc = "unread", ![u].sent = 0]
      /\ \/ up[u].pc = "ready"
         \/ up[u].pc = "wait" /\ up[u].sent <= up[u].size
  BY DEF ReadFails, serverVars
<1>2. /\ \A v \in Uploads : v # u => up'[v] = up[v]
      /\ up'[u].pc = "unread" /\ up'[u].id = up[u].id /\ up'[u].sent = 0
      /\ up'[u].size = up[u].size /\ up'[u].size \in Nat /\ up'[u].told = up[u].told
      /\ up' \in [Uploads -> UploadType]
  <2>1. up \in [Uploads -> UploadType] /\ up[u] \in UploadType
    BY DEF PushTypeOK
  <2>2. up'[u] = [up[u] EXCEPT !.pc = "unread", !.sent = 0]
    BY <1>1, <2>1
  <2> QED BY <1>1, <2>1, <2>2 DEF UploadType
<1>3. up[u].told # "success"
  BY <1>1 DEF SuccessInv
<1>4. ASSUME NEW c \in Uploads, reader[c].file = u
      PROVE  reader[c].pc \notin {"ending", "pushing"} /\ up'[u].id = up[u].id
  <2>1. ReaderOK(reader[c]) /\ up[u].sent \in Nat /\ up[u].size \in Nat
    BY Fields DEF ReadersInv
  <2> QED BY <1>1, <1>2, <1>4, <2>1 DEF ReaderOK
<1>5. ASSUME NEW g \in Range(toServer), g.op \in Asks, g.file = u PROVE RequestOK(g)'
  <2>1. RequestOK(g)
    BY <1>5 DEF RequestsInv
  <2>2. g.op # "finish"
    <3>1. up[u].pc = "wait" /\ g.op = Request(u) /\ up[u].sent <= up[u].size
      BY <1>1, <1>5, <2>1 DEF RequestOK
    <3> QED BY <3>1, Fields DEF Request
  <2> QED BY <1>1, <1>2, <1>5, <2>1, <2>2 DEF RequestOK
<1>6. ASSUME NEW g \in Range(toBrowser), g.op = "ok", g.id = up[u].id PROVE AnswerOK(g)'
  <2>1. AnswerOK(g)
    BY <1>6 DEF AnswersInv
  <2>2. PICK v \in Uploads : up[v].id = g.id /\ (AnswersWait(g, v) \/ AnswersUnread(g, v))
    BY <2>1 DEF AnswerOK
  <2>5. g.id # 0
    BY <2>1 DEF AnswerOK
  <2>3. v = u
    BY <1>6, <2>2, <2>5 DEF IdsInv
  <2>4. AnswersUnread(g, u)'
    BY <1>1, <1>2, <2>2, <2>3, Fields DEF AnswersWait, AnswersUnread
  <2> QED BY <1>1, <1>2, <1>6, <2>1, <2>4 DEF AnswerOK
<1>7. RequestsInv' /\ AnswersInv' /\ ReadersInv' /\ ReadyInv' /\ SuccessInv'
  <2>1. Apart(toServer', Asks) /\ Apart(toBrowser', {"ok"})
    BY <1>1 DEF RequestsInv, AnswersInv
  <2>2. up'[u].sent <= up'[u].size + 1
    BY <1>2
  <2> QED BY <1>1, <1>2, <1>3, <1>4, <1>5, <1>6, <2>1, <2>2, UploadStep
<1>8. PushTypeOK' /\ EndsInv'
  BY <1>1, <1>2 DEF PushTypeOK, EndsInv
<1>9. IdsInv'
  BY <1>1, <1>2, IdsStay
<1>10. WaitersInv'
  <2>1. \A k \in 1..Len(waiters) : waiters[k] \in Uploads
    BY DEF PushTypeOK
  <2> QED BY <1>1, <1>2, <2>1 DEF WaitersInv
<1>11. NamedInv' /\ CreateInv'
  BY <1>1, <1>2 DEF NamedInv, CreateInv
<1> QED BY <1>7, <1>8, <1>9, <1>10, <1>11

\* An answer that is taken, and those that are left.
LEMMA TakenAnswer ==
  ASSUME PushInv, toBrowser # <<>>, toBrowser' = Tail(toBrowser), NEW f, f = Head(toBrowser)
  PROVE  /\ f \in Range(toBrowser)
         /\ toBrowser' \in Seq(FrameType(Answers))
         /\ Range(toBrowser') \subseteq Range(toBrowser)
         /\ Apart(toBrowser', {"named"}) /\ Apart(toBrowser', {"ok"})
         /\ \A g \in Range(toBrowser') :
              /\ f.op = "named" /\ g.op = "named" => g.chan # f.chan
              /\ f.op = "ok" /\ g.op = "ok" => g.chan # f.chan
<1>1. toBrowser \in Seq(FrameType(Answers)) /\ Apart(toBrowser, {"named"}) /\ Apart(toBrowser, {"ok"})
  BY DEF PushInv, PushTypeOK, NamedInv, AnswersInv
<1>2. Apart(Tail(toBrowser), {"named"}) /\ Apart(Tail(toBrowser), {"ok"})
  BY <1>1, OneLessApart
<1>3. /\ f.op = "named" =>
           \A g \in Range(Tail(toBrowser)) : g.op \in {"named"} => g.chan # f.chan
      /\ f.op = "ok" => \A g \in Range(Tail(toBrowser)) : g.op \in {"ok"} => g.chan # f.chan
  BY <1>1, OneLessApart
<1>4. /\ f \in Range(toBrowser)
      /\ Tail(toBrowser) \in Seq(FrameType(Answers))
      /\ Range(Tail(toBrowser)) \subseteq Range(toBrowser)
  BY <1>1, OneLess
<1> QED BY <1>2, <1>3, <1>4

\* An answer that nobody waits for changes nothing.
LEMMA OkDropped ==
  ASSUME PushInv, toBrowser # <<>>, toBrowser' = Tail(toBrowser), NEW id, Ok(id),
         ~ \E v \in Uploads : up[v].id = id /\ up[v].pc = "wait",
         UNCHANGED <<page, link, toServer, serverVars>>
  PROVE  PushInv'
<1>1. up \in [Uploads -> UploadType]
  BY DEF PushInv, PushTypeOK
<1>2. up' = up
  BY <1>1 DEF Ok
<1> QED BY <1>2, ReceiveEndKeeps DEF Ok

\* An answer lets its upload go on, or tells of success.
LEMMA OkKeeps ==
  ASSUME PushInv, toBrowser # <<>>, toBrowser' = Tail(toBrowser), NEW f, f = Head(toBrowser),
         f.op = "ok", Ok(f.id), \E v \in Uploads : up[v].id = f.id /\ up[v].pc = "wait",
         UNCHANGED <<page, link, toServer, serverVars>>
  PROVE  PushInv'
<1> USE FilePushAssumption DEF PushInv
<1>1. UNCHANGED <<page, link, waiters, channel, toServer, fileId, server, reader, device>>
  BY DEF Ok, serverVars
<1>2. /\ f \in Range(toBrowser)
      /\ toBrowser' \in Seq(FrameType(Answers))
      /\ Range(toBrowser') \subseteq Range(toBrowser)
      /\ Apart(toBrowser', {"named"}) /\ Apart(toBrowser', {"ok"})
      /\ \A g \in Range(toBrowser') : g.op = "ok" => g.chan # f.chan
  BY TakenAnswer
<1>3. PICK c \in Uploads : c = f.chan /\ f.id # 0 /\ f.id = reader[c].id
  BY <1>2 DEF AnswersInv, AnswerOK
<1>4. PICK u \in Uploads :
        /\ up[u].id = f.id /\ up[u].pc = "wait"
        /\ up[u].sent > up[u].size =>
             reader[c].pc = "over" /\ device[u] = Chunks(up[u].size, u)
        /\ up[u].sent <= up[u].size =>
             /\ reader[c].pc \in Going \cup {"over"}
             /\ reader[c].pc \in Going => Done(reader[c]) = up[u].sent + 1
  <2>1. PICK u \in Uploads : up[u].id = f.id /\ up[u].pc = "wait"
    OBVIOUS
  <2>2. PICK v \in Uploads : up[v].id = f.id /\ (AnswersWait(f, v) \/ AnswersUnread(f, v))
    BY <1>2 DEF AnswersInv, AnswerOK
  <2>3. u = v
    BY <1>3, <2>1, <2>2 DEF IdsInv
  <2> QED BY <1>3, <2>1, <2>2, <2>3 DEF AnswersWait, AnswersUnread
<1>5. /\ up[u] \in UploadType /\ up[u].told # "success"
      /\ up[u].size \in Nat /\ up[u].sent \in Nat /\ up[u].sent <= up[u].size + 1
  BY <1>4, Fields DEF PushTypeOK, UploadType, ReadyInv, SuccessInv
<1>6. \A v \in Uploads : v # u => up'[v] = up[v]
  BY <1>3, <1>4 DEF Ok, IdsInv
<1>7. up'[u] = Answered(u)
  BY <1>4 DEF Ok
<1>8. /\ up'[u] \in UploadType /\ up'[u].id = up[u].id /\ up'[u].size = up[u].size
      /\ \/ /\ up[u].sent > up[u].size /\ up'[u].pc = "over"
            /\ up'[u].sent = up[u].sent
         \/ /\ up[u].sent <= up[u].size /\ up'[u].pc = "ready"
            /\ up'[u].sent = up[u].sent + 1 /\ up'[u].told = up[u].told
  <2>1. CASE up[u].sent > up[u].size
    <3>1. up'[u] = [up[u] EXCEPT !.pc = "over", !.told = "success"]
      BY <1>7, <2>1 DEF Answered
    <3> QED BY <1>5, <2>1, <3>1 DEF UploadType
  <2>2. CASE up[u].sent <= up[u].size
    <3>1. PICK n \in Nat : n = up[u].sent + 1
      BY <1>5, <2>2
    <3>2. up'[u] = [up[u] EXCEPT !.pc = "ready", !.sent = n]
      BY <1>5, <1>7, <2>2, <3>1 DEF Answered
    <3> QED BY <1>5, <2>2, <3>1, <3>2 DEF UploadType
  <2> QED BY <1>5, <2>1, <2>2
<1>9. \A d \in Uploads : reader[d].id = up[u].id => d = c
  BY <1>3, <1>4 DEF IdsInv
<1>10. ASSUME NEW d \in Uploads, reader[d].file = u
       PROVE  reader[d].pc \notin {"ending", "pushing"}
  <2>1. reader[d].file # None /\ reader[d].id = up[u].id
    BY <1>10 DEF ReadersInv, ReaderOK
  <2>2. d = c
    BY <1>9, <2>1
  <2> QED BY <1>4, <1>5, <2>2 DEF Going
<1>11. ASSUME NEW g \in Range(toServer), g.op \in Asks PROVE g.file # u
  <2>1. RequestOK(g) /\ g.chan \in Uploads /\ g.chan # c
    BY <1>2, <1>3, <1>11 DEF RequestsInv, CreateInv, AnswersInv, Asks
  <2> QED BY <1>9, <2>1 DEF RequestOK
<1>12. ASSUME NEW g \in Range(toBrowser'), g.op = "ok" PROVE g.id # up[u].id
  <2>1. AnswerOK(g) /\ g.chan # c
    BY <1>2, <1>3, <1>12 DEF AnswersInv
  <2> QED BY <1>9, <2>1 DEF AnswerOK
<1>13. RequestsInv' /\ AnswersInv' /\ ReadersInv' /\ ReadyInv' /\ SuccessInv'
  <2>1. Apart(toServer', Asks)
    BY <1>1 DEF RequestsInv
  <2>2. up'[u].sent <= up'[u].size + 1
    BY <1>5, <1>8
  <2>3. up'[u].pc = "ready" => \A d \in Uploads : reader[d].id = up'[u].id =>
           /\ reader[d].pc \in Going \cup {"over"}
           /\ reader[d].pc \in Going => Done(reader[d]) = up'[u].sent
    BY <1>4, <1>8, <1>9
  <2>4. up'[u].told = "success" =>
           /\ up'[u].pc = "over" /\ device[u] = Chunks(up'[u].size, u)
           /\ \A d \in Uploads : reader[d].id = up'[u].id => reader[d].pc = "over"
    BY <1>4, <1>5, <1>8, <1>9
  <2>5. up'[u].pc \in {"ready", "wait", "unread", "over"} /\ up'[u].id = up[u].id
    BY <1>8
  <2> QED BY <1>1, <1>2, <1>6, <1>10, <1>11, <1>12, <2>1, <2>2, <2>3, <2>4, <2>5, UploadStep
<1>14. PushTypeOK' /\ EndsInv'
  <2>1. up' \in [Uploads -> UploadType]
    BY <1>6, <1>8 DEF Ok, PushTypeOK
  <2> QED BY <1>1, <1>2, <2>1 DEF PushTypeOK, EndsInv
<1>15. IdsInv'
  <2>1. ASSUME NEW v \in Uploads
        PROVE  /\ up'[v].id = up[v].id
               /\ up'[v].pc \in {"ready", "wait", "unread", "over"} <=> up[v].pc \in {"ready", "wait", "unread", "over"}
    BY <1>4, <1>6, <1>8
  <2> QED BY <1>1, <2>1, IdsStay
<1>16. WaitersInv'
  <2>1. \A k \in 1..Len(waiters) : waiters[k] \in Uploads /\ waiters[k] # u
    BY <1>4 DEF PushTypeOK, WaitersInv
  <2> QED BY <1>1, <1>6, <2>1 DEF WaitersInv
<1>17. NamedInv'
  BY <1>1, <1>2 DEF NamedInv
<1>18. CreateInv'
  BY <1>1, <1>6, <1>8 DEF CreateInv
<1> QED BY <1>13, <1>14, <1>15, <1>16, <1>17, <1>18

\* An id goes to the upload that has waited longest.
LEMMA NamedKeeps ==
  ASSUME PushInv, toBrowser # <<>>, toBrowser' = Tail(toBrowser), NEW f, f = Head(toBrowser),
         f.op = "named", Named(f.chan, f.id),
         UNCHANGED <<page, link, toServer, serverVars>>
  PROVE  PushInv'
<1> USE FilePushAssumption DEF PushInv
<1>1. UNCHANGED <<page, link, toServer, fileId, server, reader, device>>
  BY DEF serverVars
<1>2. /\ f \in Range(toBrowser)
      /\ toBrowser' \in Seq(FrameType(Answers))
      /\ Range(toBrowser') \subseteq Range(toBrowser)
      /\ Apart(toBrowser', {"named"}) /\ Apart(toBrowser', {"ok"})
      /\ \A g \in Range(toBrowser') : g.op = "named" => g.chan # f.chan
  BY TakenAnswer
<1>3. PICK c \in Uploads, n \in Nat :
        c = f.chan /\ n = f.id /\ n # 0 /\ n = reader[c].id /\ channel[c].id = 0
  BY <1>2, Fields DEF NamedInv
<1>4. /\ \A d \in Uploads : d # c => channel'[d] = channel[d]
      /\ channel'[c].id = n /\ channel' \in [Uploads -> ChannelType]
  <2>1. channel \in [Uploads -> ChannelType] /\ channel[c] \in ChannelType
    BY DEF PushTypeOK
  <2>2. channel' = [channel EXCEPT ![c].id = n]
    BY <1>3 DEF Named
  <2> QED BY <1>3, <2>1, <2>2 DEF ChannelType
<1>5. \A d \in Uploads : reader[d].id = n => d = c
  BY <1>3 DEF IdsInv
<1>6. \A v \in Uploads : up[v].id # n
  BY <1>3, <1>5 DEF IdsInv
<1>7. reader[c].pc \in {"new", "over"}
  <2>1. reader[c].pc \notin {"none", "initial"}
    BY <1>3 DEF IdsInv
  <2>2. reader[c].file = None
    BY <1>3, <1>6, Fields DEF ReadersInv, ReaderOK
  <2> QED BY <2>1, <2>2, Fields DEF ReadersInv, ReaderOK
<1>8. NamedInv'
  <2>1. ASSUME NEW g \in Range(toBrowser'), g.op = "named"
        PROVE  /\ g.chan \in Uploads
               /\ g.id = reader[g.chan].id /\ g.id # 0 /\ channel'[g.chan].id = 0
    BY <1>2, <1>3, <1>4, <2>1 DEF NamedInv
  <2> QED BY <1>1, <1>2, <2>1 DEF NamedInv
<1>9. CASE waiters = <<>>
  <2>1. up' = up /\ waiters' = waiters
    BY <1>9 DEF Named
  <2>2. PushTypeOK' /\ EndsInv'
    BY <1>1, <1>2, <1>4, <2>1 DEF PushTypeOK, EndsInv
  <2>3. IdsInv'
    <3>1. \A d \in Uploads : channel'[d].id \in {0, reader[d].id}
      BY <1>3, <1>4 DEF IdsInv
    <3>2. \A v \in Uploads : up[v].id # 0 => \E d \in Uploads : channel'[d].id = up[v].id
      BY <1>3, <1>4, Fields DEF IdsInv
    <3> QED BY <1>1, <2>1, <3>1, <3>2 DEF IdsInv
  <2>4. WaitersInv' /\ CreateInv' /\ RequestsInv'
    BY <1>1, <2>1 DEF WaitersInv, CreateInv, RequestsInv, RequestOK, Request
  <2>5. AnswersInv'
    BY <1>1, <1>2, <2>1 DEF AnswersInv, AnswerOK, AnswersWait, AnswersUnread
  <2>6. ReadersInv' /\ ReadyInv' /\ SuccessInv'
    BY <1>1, <2>1 DEF ReadersInv, ReaderOK, ReadyInv, SuccessInv
  <2> QED BY <1>8, <2>2, <2>3, <2>4, <2>5, <2>6
<1>10. CASE waiters # <<>>
  <2>1. PICK u : u = Head(waiters)
    OBVIOUS
  <2>2. /\ waiters \in Seq(Uploads) /\ u \in Uploads /\ waiters' = Tail(waiters)
        /\ up' = [up EXCEPT ![u].pc = "ready", ![u].id = n]
        /\ Len(waiters) \in Nat \ {0} /\ u = waiters[1] /\ 1 \in 1..Len(waiters)
    <3>1. waiters \in Seq(Uploads)
      BY DEF PushTypeOK
    <3>2. /\ u \in Uploads /\ Len(waiters) \in Nat \ {0} /\ u = waiters[1]
          /\ 1 \in 1..Len(waiters)
      BY <1>10, <2>1, <3>1
    <3>3. waiters' = Tail(waiters) /\ up' = [up EXCEPT ![u].pc = "ready", ![u].id = n]
      BY <1>3, <1>10, <2>1 DEF Named
    <3> QED BY <3>1, <3>2, <3>3
  <2>3. up[u].pc = "new" /\ up[u].id = 0 /\ up[u].sent = 0 /\ up[u].told # "success"
    <3>1. up[u].pc = "new"
      BY <2>2 DEF WaitersInv
    <3>2. up[u].id = 0
      BY <2>2, <3>1 DEF IdsInv
    <3> QED BY <2>2, <3>1, <3>2 DEF ReadyInv, SuccessInv
  <2>4. /\ \A v \in Uploads : v # u => up'[v] = up[v]
        /\ up'[u].pc = "ready" /\ up'[u].id = n /\ up'[u].sent = 0 /\ up'[u].size \in Nat
        /\ up'[u].told # "success" /\ up' \in [Uploads -> UploadType]
    <3>1. up \in [Uploads -> UploadType] /\ up[u] \in UploadType
      BY <2>2 DEF PushTypeOK
    <3>2. up'[u] = [up[u] EXCEPT !.pc = "ready", !.id = n]
      BY <2>2, <3>1
    <3>3. up'[u] \in UploadType /\ up'[u].pc = "ready" /\ up'[u].id = n /\ up'[u].sent = up[u].sent
          /\ up'[u].size = up[u].size /\ up'[u].told = up[u].told
      BY <3>1, <3>2 DEF UploadType
    <3> QED BY <2>2, <2>3, <3>1, <3>3, Fields
  <2>5. /\ waiters' \in Seq(Uploads) /\ Len(waiters') = Len(waiters) - 1
        /\ \A k \in 1..Len(waiters) - 1 : waiters'[k] = waiters[k + 1] /\ k + 1 \in 1..Len(waiters)
    BY <1>10, <2>2
  <2>6. PushTypeOK' /\ EndsInv'
    BY <1>1, <1>2, <1>4, <2>4, <2>5 DEF PushTypeOK, EndsInv
  <2>7. IdsInv'
    <3>1. \A d \in Uploads : channel'[d].id \in {0, reader[d].id}
      BY <1>3, <1>4 DEF IdsInv
    <3>2. ASSUME NEW v \in Uploads
          PROVE  /\ up'[v].id # 0 <=> up'[v].pc \in {"ready", "wait", "unread", "over"}
                 /\ up'[v].id # 0 => \E d \in Uploads : channel'[d].id = up'[v].id
      <4>1. CASE v = u
        BY <1>3, <1>4, <2>4, <4>1
      <4>2. CASE v # u
        <5>1. up'[v] = up[v]
          BY <2>4, <4>2
        <5>2. /\ up[v].id # 0 <=> up[v].pc \in {"ready", "wait", "unread", "over"}
              /\ up[v].id # 0 => \E d \in Uploads : channel[d].id = up[v].id
          BY DEF IdsInv
        <5>3. ASSUME NEW d \in Uploads, channel[d].id # 0 PROVE channel'[d].id = channel[d].id
          BY <1>3, <1>4, <5>3
        <5> QED BY <5>1, <5>2, <5>3
      <4> QED BY <4>1, <4>2
    <3>3. \A v, w \in Uploads : up'[v].id # 0 /\ up'[v].id = up'[w].id => v = w
      BY <1>6, <2>2, <2>4 DEF IdsInv
    <3> QED BY <1>1, <3>1, <3>2, <3>3 DEF IdsInv
  <2>8. WaitersInv'
    <3>1. ASSUME NEW k \in 1..Len(waiters) - 1
          PROVE  waiters[k + 1] # u /\ waiters[k + 1] \in Uploads
      <4>1. k + 1 \in 1..Len(waiters) /\ 1 \in 1..Len(waiters) /\ k + 1 # 1
        BY <2>2, <2>5
      <4>2. waiters[k + 1] # waiters[1]
        BY <4>1 DEF WaitersInv
      <4> QED BY <2>2, <4>1, <4>2
    <3>2. ASSUME NEW k \in 1..Len(waiters') PROVE up'[waiters'[k]].pc = "new"
      <4>1. /\ waiters'[k] = waiters[k + 1] /\ k + 1 \in 1..Len(waiters)
            /\ waiters[k + 1] # u /\ waiters[k + 1] \in Uploads
        BY <2>5, <3>1
      <4>2. up[waiters[k + 1]].pc = "new"
        BY <4>1 DEF WaitersInv
      <4> QED BY <2>4, <4>1, <4>2
    <3>3. ASSUME NEW k \in 1..Len(waiters'), NEW l \in 1..Len(waiters'), waiters'[k] = waiters'[l]
          PROVE  k = l
      <4>1. k + 1 = l + 1
        BY <2>5, <3>3 DEF WaitersInv
      <4> QED BY <4>1
    <3> QED BY <3>2, <3>3 DEF WaitersInv
  <2>9. CreateInv'
    BY <1>1, <2>4 DEF CreateInv
  <2>10. RequestsInv' /\ AnswersInv' /\ ReadersInv' /\ ReadyInv' /\ SuccessInv'
    <3>1. ASSUME NEW d \in Uploads PROVE reader[d].file # u
      <4>1. reader[d].file # None => reader[d].id # 0 /\ up[reader[d].file].id = reader[d].id
        BY DEF ReadersInv, ReaderOK
      <4> QED BY <2>2, <2>3, <4>1
    <3>2. \A g \in Range(toServer) : g.op \in Asks => g.file # u
      BY <2>3 DEF RequestsInv, RequestOK
    <3>3. \A g \in Range(toBrowser) : g.op = "ok" => g.id # up[u].id
      BY <2>3 DEF AnswersInv, AnswerOK
    <3>4. \A d \in Uploads : reader[d].id = up'[u].id =>
            /\ reader[d].pc \in Going \cup {"over"}
            /\ reader[d].pc \in Going => Done(reader[d]) = up'[u].sent
      BY <1>5, <1>7, <2>4 DEF Going, Done
    <3>5. Apart(toServer', Asks) /\ up'[u].sent <= up'[u].size + 1
      BY <1>1, <2>4 DEF RequestsInv
    <3>6. \A g \in Range(toServer') :
             \/ g \in Range(toServer) /\ (g.op \in Asks => g.file # u)
             \/ /\ g.op \in Asks /\ RequestOK(g)'
                /\ \A h \in Range(toBrowser') : h.op = "ok" => h.chan # g.chan
      BY <1>1, <3>2
    <3>7. \A g \in Range(toBrowser') : g \in Range(toBrowser) /\ (g.op = "ok" => g.id # up[u].id)
      BY <1>2, <3>3
    <3>8. Apart(toBrowser', {"ok"}) /\ UNCHANGED <<reader, device>>
      BY <1>1, <1>2
    <3>9. /\ \A d \in Uploads : reader[d].file = u =>
               reader[d].pc \notin {"ending", "pushing"} /\ up'[u].id = up[u].id
          /\ up'[u].told = "success" =>
               /\ up'[u].pc = "over" /\ device[u] = Chunks(up'[u].size, u)
               /\ \A d \in Uploads : reader[d].id = up'[u].id => reader[d].pc = "over"
      BY <2>4, <3>1
    <3>10. /\ \A v \in Uploads : v # u => up'[v] = up[v]
           /\ up'[u].pc \in {"ready", "wait", "unread", "over"}
      BY <2>4
    <3>11. \A g \in Range(toServer') :
             \/ g \in Range(toServer) /\ (g.op \in Asks => g.file # u \/ RequestOK(g)')
             \/ /\ g.op \in Asks /\ RequestOK(g)'
                /\ \A h \in Range(toBrowser') : h.op = "ok" => h.chan # g.chan
      BY <3>6
    <3>12. \A g \in Range(toBrowser') :
             g \in Range(toBrowser) /\ (g.op = "ok" => g.id # up[u].id \/ AnswerOK(g)')
      BY <3>7
    <3> HIDE DEF PushInv
    <3> QED BY <2>2, <3>4, <3>5, <3>8, <3>9, <3>10, <3>11, <3>12, UploadStep
  <2> QED BY <1>8, <2>6, <2>7, <2>8, <2>9, <2>10
<1> QED BY <1>9, <1>10

-----------------------------------------------------------------------------
\* What the browser does with a frame.
LEMMA ReceiveKeeps ==
  ASSUME PushInv, Receive
  PROVE  PushInv'
<1>1. PICK f : f = Head(toBrowser)
  OBVIOUS
<1>2. /\ toBrowser # <<>> /\ toBrowser' = Tail(toBrowser)
      /\ UNCHANGED <<page, link, toServer, serverVars>>
  BY DEF Receive
<1>3. CASE UNCHANGED <<up, waiters, channel>> \/ (\E closed, clean : ChannelCloses(closed, clean))
  BY <1>2, <1>3, ReceiveEndKeeps
<1>4. CASE f.op = "named" /\ Named(f.chan, f.id)
  BY <1>1, <1>2, <1>4, NamedKeeps
<1>5. CASE f.op = "ok" /\ Ok(f.id)
  BY <1>1, <1>2, <1>5, OkKeeps, OkDropped
<1> QED BY <1>1, <1>3, <1>4, <1>5 DEF Receive

\* What the server does with a frame.
LEMMA HandleKeeps ==
  ASSUME PushInv, Handle
  PROVE  PushInv'
<1>1. PICK f : f = Head(toServer)
  OBVIOUS
<1>2. /\ toServer # <<>> /\ toServer' = Tail(toServer)
      /\ UNCHANGED <<browserVars, server, device>>
  BY DEF Handle
<1>3. CASE f.op = "close" /\ Closed
  BY <1>2, <1>3, ClosedKeeps
<1>4. CASE f.op = "create" /\ Created(f.chan)
  BY <1>1, <1>2, <1>4, CreatedKeeps
<1>5. CASE f.op \in {"new", "start", "append", "finish"}
  <2>1. f.chan \in Uploads
    <3>1. f \in Range(toServer)
      BY <1>1, <1>2, Taken
    <3> QED BY <1>5, <3>1 DEF PushInv, CreateInv
  <2>2. CASE UNCHANGED <<reader, toBrowser, fileId>> \/ (reader[f.chan].end = "open" /\ Refused(f.chan))
    BY <1>2, <2>1, <2>2, RefusedKeeps
  <2>3. CASE Expects(reader[f.chan], f) /\ Accepted(f)
    <3>1. CASE f.op = "new" /\ Numbered(f.chan)
      BY <1>1, <1>2, <2>3, <3>1, NumberedKeeps DEF Expects
    <3>2. CASE f.op = "start" /\ Started(f.chan, f.file)
      BY <1>1, <1>2, <2>3, <3>2, StartedKeeps DEF Expects
    <3>3. CASE f.op = "append" /\ Appended(f.chan, f.file)
      BY <1>1, <1>2, <2>3, <3>3, AppendedKeeps DEF Expects
    <3>4. CASE f.op = "finish" /\ Finishing(f.chan)
      BY <1>1, <1>2, <2>3, <3>4, FinishingKeeps DEF Expects
    <3> QED BY <2>3, <3>1, <3>2, <3>3, <3>4 DEF Accepted
  <2> QED BY <1>1, <1>5, <2>2, <2>3 DEF Handle
<1> QED BY <1>1, <1>3, <1>4, <1>5 DEF Handle

\* The invariant is inductive.
LEMMA PushNextKeeps == PushInv /\ [PushNext]_pushVars => PushInv'
<1> SUFFICES ASSUME PushInv, [PushNext]_pushVars PROVE PushInv'
  OBVIOUS
<1>1. CASE \E u \in Uploads : Drop(u) \/ Send(u)
  BY <1>1, DropKeeps, SendKeeps
<1>2. CASE Receive
  BY <1>2, ReceiveKeeps
<1>3. CASE ClosePage
  BY <1>3, ClosePageKeeps
<1>4. CASE LinkEnds
  BY <1>4, LinkEndsKeeps
<1>5. CASE Handle
  BY <1>5, HandleKeeps
<1>6. CASE ServerDies
  BY <1>6, ServerDiesKeeps
<1>7. CASE \E c \in Uploads : Opens(c) \/ Flushes(c)
  BY <1>7, OpensKeeps
<1>8. CASE \E c \in Uploads : Ended(c)
  BY <1>8, EndedKeeps, EndedClosedKeeps
<1>9. CASE \E c \in Uploads : PushSucceeds(c) \/ PushFails(c)
  BY <1>9, PushEndsKeeps
<1>10. CASE \E u \in Uploads : ReadFails(u)
  BY <1>10, ReadFailsKeeps
<1>11. CASE UNCHANGED pushVars
  BY <1>11 DEF pushVars, browserVars, serverVars, PushInv, PushTypeOK, EndsInv, IdsInv, WaitersInv, NamedInv,
     CreateInv, RequestsInv, RequestOK, Request, AnswersInv, AnswerOK, AnswersWait, AnswersUnread, ReadersInv, ReaderOK, ReadyInv,
     SuccessInv
<1> QED BY <1>1, <1>2, <1>3, <1>4, <1>5, <1>6, <1>7, <1>8, <1>9, <1>10, <1>11 DEF PushNext

\* The uploads, their frames and their readers agree, whatever is lost or ends.
THEOREM PushInvariant == PushSpec => []PushInv
  BY PushInitInv, PushNextKeeps, PTL DEF PushSpec

\* A file the page calls uploaded is whole on the device.
THEOREM SuccessIsWholeHolds == PushSpec => []SuccessIsWhole
<1>1. PushInv => SuccessIsWhole
  BY DEF PushInv, SuccessInv, SuccessIsWhole, Chunks
<1> QED BY <1>1, PushInvariant, PTL

\* A temporary file stays only for the reasons the property names.
LEMMA StepTempFiles ==
  ASSUME PushInv, [PushNext]_pushVars, NEW c \in Uploads, LeftBehind(c)', ~LeftBehind(c)
  PROVE  reader[c].temp = "opening" \/ server' = "down"
<1> USE DEF LeftBehind
<1>1. /\ reader \in [Uploads -> ReaderType] /\ reader[c] \in ReaderType
      /\ reader[c].pc = "none" <=> reader[c].end = "none"
  BY DEF PushInv, PushTypeOK, EndsInv
<1>2. CASE reader' = reader
  BY <1>2
<1>3. \A refused : Released(reader[c], refused).temp # "there"
  <2>1. \A refused : Released(reader[c], refused).temp = CleanedUp(reader[c], refused)
    BY <1>1, ReleasedReader
  <2> QED BY <2>1 DEF CleanedUp
<1>4. CASE Handle
  <2>1. PICK f : f = Head(toServer)
    OBVIOUS
  <2>2. CASE Closed
    <3>1. reader'[c] = reader[c] \/ \E refused : reader'[c] = Released(reader[c], refused)
      BY <2>2 DEF Closed
    <3> QED BY <1>3, <3>1
  <2>3. CASE Refused(f.chan)
    <3>1. PICK refused : reader' = [reader EXCEPT ![f.chan] = Released(@, refused)]
      BY <2>3 DEF Refused
    <3>2. reader'[c] = reader[c] \/ reader'[c] = Released(reader[c], refused)
      BY <1>1, <3>1
    <3> QED BY <1>3, <3>2
  <2>4. CASE Created(f.chan)
    <3>1. reader'[c] = reader[c] \/ reader'[c].end = "open"
      BY <1>1, <2>4 DEF Created, ReaderType
    <3> QED BY <3>1
  <2>5. CASE Accepted(f)
    <3>1. reader'[c].end = reader[c].end /\ reader'[c].temp \in {reader[c].temp, "opening"}
      BY <1>1, <2>5 DEF Accepted, Numbered, Started, Appended, Finishing, ReaderType
    <3> QED BY <3>1
  <2> QED BY <1>2, <1>4, <2>1, <2>2, <2>3, <2>4, <2>5 DEF Handle
<1>5. ASSUME NEW d \in Uploads, Opens(d) PROVE reader'[c] = reader[c] \/ reader[c].temp = "opening"
  BY <1>1, <1>5 DEF Opens
<1>6. ASSUME NEW d \in Uploads, Flushes(d)
      PROVE  reader'[c].end = reader[c].end /\ reader'[c].temp = reader[c].temp
  BY <1>1, <1>6 DEF Flushes, ReaderType
<1>7. reader[c].end # "open" /\ reader[c].pc # "none" =>
        Over(reader[c]).end = reader[c].end /\ Over(reader[c]).temp = reader[c].temp
  BY <1>1, OverReader DEF ReaderType
<1>8. ASSUME NEW d \in Uploads, Ended(d)
      PROVE  reader'[c].end = reader[c].end /\ reader'[c].temp = reader[c].temp
  <2>1. CASE d # c
    BY <1>1, <1>8, <2>1 DEF Ended
  <2>2. CASE d = c /\ reader[c].end = "open"
    BY <1>1, <1>8, <2>2 DEF Ended, ReaderType
  <2>3. CASE d = c /\ reader[c].end # "open"
    <3>1. reader'[c] = Over(reader[c]) /\ reader[c].pc = "ending"
      BY <1>1, <1>8, <2>3 DEF Ended
    <3> QED BY <1>7, <2>3, <3>1
  <2> QED BY <2>1, <2>2, <2>3
<1>9. ASSUME NEW d \in Uploads, PushSucceeds(d) \/ PushFails(d)
      PROVE  \/ reader'[c].end = reader[c].end /\ reader'[c].temp = reader[c].temp
             \/ reader'[c].temp # "there"
  <2>1. /\ reader[d].pc = "pushing"
        /\ IF reader[d].end = "open"
           THEN \E refused \in BOOLEAN : reader' = [reader EXCEPT ![d] = Over(Released(@, refused))]
           ELSE reader' = [reader EXCEPT ![d] = Over(@)]
    BY <1>9 DEF PushSucceeds, PushFails, PushEnds
  <2>2. CASE d # c
    BY <1>1, <2>1, <2>2
  <2>3. CASE d = c /\ reader[c].end = "open"
    <3>1. PICK refused : reader'[c] = Over(Released(reader[c], refused))
      BY <1>1, <2>1, <2>3
    <3>2. Released(reader[c], refused) \in ReaderType
      BY <1>1, ReleasedReader
    <3>3. reader'[c].temp = Released(reader[c], refused).temp
      BY <3>1, <3>2, OverReader
    <3> QED BY <1>3, <3>3
  <2>4. CASE d = c /\ reader[c].end # "open"
    BY <1>1, <1>7, <2>1, <2>4
  <2> QED BY <2>2, <2>3, <2>4
<1>10. CASE ServerDies
  BY <1>10 DEF ServerDies
<1>11. CASE \/ \E u \in Uploads : Drop(u) \/ Send(u) \/ ReadFails(u)
            \/ Receive \/ ClosePage \/ LinkEnds \/ UNCHANGED pushVars
  BY <1>2, <1>11 DEF Drop, Send, ReadFails, Receive, ClosePage, LinkEnds, serverVars, pushVars
<1> QED BY <1>4, <1>5, <1>6, <1>8, <1>9, <1>10, <1>11 DEF PushNext

\* A reader that is released leaves a temporary file it did not try to unlink only when
\* the file was still being opened, or when the process died.
THEOREM TempFilesGoHolds == PushSpec => TempFilesGo
<1>1. PushInv /\ [PushNext]_pushVars =>
        [\A c \in Uploads :
           LeftBehind(c)' /\ ~LeftBehind(c) => reader[c].temp = "opening" \/ server' = "down"]_pushVars
  BY StepTempFiles
<1> QED BY <1>1, PushInvariant, PTL DEF PushSpec, TempFilesGo

=============================================================================
