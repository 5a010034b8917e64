----------------------------- MODULE StreamSession -----------------------------
(***************************************************************************)
(* The life of a stream session (src/server/ScrcpyConnection.ts): start()  *)
(* as a sequence of awaits on either tunnel, the three ways it is released *)
(* while an await is pending, the registry of open sessions that a         *)
(* deliberate stop of the server sweeps (liveStreams.ts), the watchdog on  *)
(* sockets stuck in CLOSING, and the two stops that share the registry:    *)
(* the exit of the process and the apply of an update.                     *)
(*                                                                         *)
(* One action is one callback of the event loop together with the          *)
(* continuation of start() it resumes: nothing else runs in between.       *)
(* The three device sockets are one resource; the codec, the metadata and  *)
(* the options are left out.                                               *)
(***************************************************************************)
EXTENDS Naturals, FiniteSets

CONSTANTS
    Sessions,     \* the sessions browsers may open
    Connections,  \* sockets scrcpy-server opens through a reverse tunnel (2 or 3)
    Stops         \* the deliberate stops that may happen, out of "exit", "apply"

ASSUME SessionAssumption ==
    /\ Connections \in Nat \ {0}
    /\ Stops \subseteq {"exit", "apply"}

VARIABLES
    session,      \* per session, the record described by SessionType
    registry,     \* liveStreams.sessions
    stopping,     \* liveStreams.stopping
    exit,         \* progress of runGracefulShutdown
    apply         \* progress of UpdateService.applyUpdate past its point of no return

vars == <<session, registry, stopping, exit, apply>>

\* Where start() is.  "absent" and "refused" have no ScrcpyConnection.
ReversePath == {"listen", "reverse", "accept"}
ForwardPath == {"reserve", "forward", "dummy", "beat", "control"}
Starting    == {"probe", "push", "metadata"} \cup ReversePath \cup ForwardPath
Steps       == {"absent", "refused", "live", "ended"} \cup Starting

\* Why the browser's websocket is closing: the code the server chose, or the
\* browser itself.
Codes == {"none", "failed4005", "shutdown1001", "abnormal1006", "browser"}

SessionType ==
    [ pc       : Steps,
      ws       : {"none", "open", "closing", "closed"},
      code     : Codes,
      life     : {"none", "live", "released"},
      listener : {"none", "open", "closed"},      \* tcpServer
      named    : {"no", "yes"},                   \* reverseTunnel / forwardTunnel is set
      tunnel   : {"none", "asked", "up", "stuck"},\* the tunnel itself, in adb
      removal  : {"idle", "running"},             \* an adb remove command
      proc     : {"none", "running", "killed", "dead"},
      held     : {"none", "open", "destroyed"},   \* video, audio and control sockets
      inHand   : 0..Connections ]                 \* sockets that no field of the session has

Nobody ==
    [ pc |-> "absent", ws |-> "none", code |-> "none", life |-> "none",
      listener |-> "none", named |-> "no", tunnel |-> "none", removal |-> "idle",
      proc |-> "none", held |-> "none", inHand |-> 0 ]

Init ==
    /\ session = [s \in Sessions |-> Nobody]
    /\ registry = {}
    /\ stopping = FALSE
    /\ exit = "up"
    /\ apply = "idle"

-----------------------------------------------------------------------------
(* Seeded faults: each is a slip the code could have made.                 *)

\* release() forgets the launched process.
FreedKeepsProcess(r) ==
    [r EXCEPT !.held = IF @ = "open" THEN "destroyed" ELSE @,
              !.removal = IF r.named = "yes" THEN "running" ELSE @,
              !.listener = IF @ = "open" THEN "closed" ELSE @]

\* start() goes on without looking whether its session was released.
ContinuedUnchecked(r, next) == [r EXCEPT !.pc = next]

\* A failure report that does not look whether the session is already over.
ReleasedAsFailureTwice(r) ==
    [r EXCEPT !.ws = IF @ = "open" THEN "closing" ELSE @,
              !.code = IF r.ws \in {"open", "closing"} THEN "failed4005" ELSE @]

\* The sweep leaves the websocket to the WebSocket server.
ClosedForShutdownLater(r) == r

\* The 'close' event no longer releases the session.
SocketClosedOnly(r, code) ==
    [r EXCEPT !.ws = "closed", !.code = IF @ = "none" THEN code ELSE @]

\* A release that leaves the session in the registry.
TrackedForever(s) == registry

\* A start-up failure is logged, and the socket left open.
FailedQuietly(r) == [r EXCEPT !.pc = "ended"]

\* A wait for sockets with no timer.
AcceptNeverTimesOut(s) == FALSE

-----------------------------------------------------------------------------
(* What the code does to one session.                                      *)

\* releaseResources: closes what the session's fields hold; the removal of the
\* tunnel is started and not waited for.
Freed(r) ==
    [r EXCEPT !.held = IF @ = "open" THEN "destroyed" ELSE @,
              !.proc = IF @ = "running" THEN "killed" ELSE @,
              !.removal = IF r.named = "yes" THEN "running" ELSE @,
              !.listener = IF @ = "open" THEN "closed" ELSE @]

\* release(): only the first call does anything.
Released(r) == IF r.life = "live" THEN Freed([r EXCEPT !.life = "released"]) ELSE r

\* ws.close(code), for a socket that is still OPEN.
Closed(r, code) ==
    IF r.ws = "open" THEN [r EXCEPT !.ws = "closing", !.code = code] ELSE r

\* releaseAsFailure and closeForShutdown: say why, then release.
ReleasedAsFailure(r) ==
    IF r.life = "live" THEN Released(Closed(r, "failed4005")) ELSE r

ClosedForShutdown(r) ==
    IF r.life = "live" THEN Released(Closed(r, "shutdown1001")) ELSE r

\* The websocket emits 'close' (Mw.onSocketClose).
SocketClosed(r, code) ==
    Released([r EXCEPT !.ws = "closed", !.code = IF @ = "none" THEN code ELSE @])

\* abandonIfReleased(...pending): start() stops here if its session is over.
Continued(r, next) ==
    IF r.life = "released" THEN Freed([r EXCEPT !.pc = "ended", !.inHand = 0])
                           ELSE [r EXCEPT !.pc = next]

\* start() rejects: the constructor's catch reports it unless the session is
\* over already.
Failed(r) ==
    IF r.life = "released" THEN [r EXCEPT !.pc = "ended"]
                           ELSE Closed([r EXCEPT !.pc = "ended"], "failed4005")

\* liveStreams.remove, called by release().
Tracked(s) == IF session'[s].life = "released" THEN registry \ {s} ELSE registry

\* Session s becomes r; the registry follows.
Becomes(s, r) ==
    /\ session' = [session EXCEPT ![s] = r]
    /\ registry' = Tracked(s)
    /\ UNCHANGED <<stopping, exit, apply>>

At(s, pc) == session[s].pc = pc

-----------------------------------------------------------------------------
(* start(), up to the tunnel.                                              *)

\* Seeded fault: the stop in progress is not looked at.
OpenAnyway(s) ==
    /\ At(s, "absent")
    /\ exit # "serverClosed"
    /\ session' = [session EXCEPT ![s] =
           [Nobody EXCEPT !.pc = "probe", !.ws = "open", !.life = "live"]]
    /\ registry' = registry \cup {s}
    /\ UNCHANGED <<stopping, exit, apply>>

\* WebSocketServer's connection handler and processRequest: a session opened
\* during a deliberate stop is refused.
Open(s) ==
    /\ At(s, "absent")
    /\ exit # "serverClosed"
    /\ \/ /\ stopping
          /\ session' = [session EXCEPT ![s] =
                 [Nobody EXCEPT !.pc = "refused", !.ws = "closing", !.code = "shutdown1001"]]
          /\ UNCHANGED registry
       \/ /\ ~stopping
          /\ session' = [session EXCEPT ![s] =
                 [Nobody EXCEPT !.pc = "probe", !.ws = "open", !.life = "live"]]
          /\ registry' = registry \cup {s}
    /\ UNCHANGED <<stopping, exit, apply>>

\* Both probes fail open, so this await never rejects.
ProbeDone(s) ==
    /\ At(s, "probe")
    /\ Becomes(s, Continued(session[s], "push"))

\* The SDK level found by the probe decides the tunnel.
PushDone(s) ==
    /\ At(s, "push")
    /\ \E next \in {"listen", "reserve"} : Becomes(s, Continued(session[s], next))

PushFails(s) ==
    /\ At(s, "push")
    /\ Becomes(s, Failed(session[s]))

-----------------------------------------------------------------------------
(* startWithReverseTunnel.                                                 *)

\* The tunnel is named before the adb command is issued, so that a release
\* during the command can remove it.  Not reached by an abandoned start().
Ask(r) == IF r.pc = "ended" THEN r ELSE [r EXCEPT !.named = "yes", !.tunnel = "asked"]

ListenDone(s) ==
    /\ At(s, "listen")
    /\ Becomes(s, Ask(Continued([session[s] EXCEPT !.listener = "open"], "reverse")))

ListenFails(s) ==
    /\ At(s, "listen")
    /\ Becomes(s, Failed(session[s]))

\* launchServer, likewise.
Launch(r) == IF r.pc = "ended" THEN r ELSE [r EXCEPT !.proc = "running"]

ReverseDone(s) ==
    /\ At(s, "reverse")
    /\ session[s].tunnel # "asked"
    /\ Becomes(s, Launch(Continued(session[s], "accept")))

\* acceptSockets: the last of the expected connections ends the wait.
ConnectionArrives(s) ==
    LET r == session[s] IN
    /\ At(s, "accept")
    /\ r.listener = "open" /\ r.proc = "running"
    /\ IF r.inHand + 1 < Connections
       THEN Becomes(s, [r EXCEPT !.inHand = @ + 1])
       ELSE Becomes(s, Continued([r EXCEPT !.inHand = 0, !.held = "open"], "metadata"))

\* The 10 s timer destroys the sockets that did connect.
AcceptTimesOut(s) ==
    /\ At(s, "accept")
    /\ Becomes(s, Failed([session[s] EXCEPT !.inHand = 0]))

\* The listener stays until the release: a connection that comes after the wait
\* was given up is emitted to nobody, who does not destroy it either.
ConnectionIsLate(s) ==
    LET r == session[s] IN
    /\ At(s, "ended") /\ r.listener = "open" /\ r.proc = "running"
    /\ r.inHand + 1 < Connections
    /\ Becomes(s, [r EXCEPT !.inHand = @ + 1])

-----------------------------------------------------------------------------
(* startWithForwardTunnel.                                                 *)

ReserveDone(s) ==
    /\ At(s, "reserve")
    /\ Becomes(s, Ask(Continued(session[s], "forward")))

ReserveFails(s) ==
    /\ At(s, "reserve")
    /\ Becomes(s, Failed(session[s]))

ForwardDone(s) ==
    /\ At(s, "forward")
    /\ session[s].tunnel # "asked"
    /\ Becomes(s, Launch(Continued(session[s], "dummy")))

\* connectAndAwaitDummy: the top of the loop, then a socket that connects.
DummyConnects(s) ==
    /\ At(s, "dummy") /\ session[s].inHand = 0
    /\ \/ /\ session[s].life = "released"
          /\ Becomes(s, Continued(session[s], "dummy"))
       \/ /\ session[s].life = "live"
          /\ Becomes(s, [session[s] EXCEPT !.inHand = 1])

\* No byte within 2 s: the socket is destroyed and another one tried.
DummyIsStale(s) ==
    /\ At(s, "dummy") /\ session[s].inHand = 1
    /\ Becomes(s, [session[s] EXCEPT !.inHand = 0])

DummyArrives(s) ==
    /\ At(s, "dummy") /\ session[s].inHand = 1
    /\ Becomes(s, Continued(session[s], "beat"))

DummyTimesOut(s) ==
    /\ At(s, "dummy") /\ session[s].inHand = 0
    /\ Becomes(s, Failed(session[s]))

BeatDone(s) ==
    /\ At(s, "beat")
    /\ Becomes(s, Continued(session[s], "control"))

ControlConnects(s) ==
    /\ At(s, "control")
    /\ Becomes(s, Continued([session[s] EXCEPT !.inHand = 0, !.held = "open"], "metadata"))

\* The connect is refused or times out: the video socket is a local variable.
ControlFails(s) ==
    /\ At(s, "control")
    /\ Becomes(s, Failed(session[s]))

-----------------------------------------------------------------------------
(* Metadata and the live session.                                          *)

\* A read on destroyed sockets neither resolves nor rejects.
MetadataRead(s) ==
    /\ At(s, "metadata") /\ session[s].held = "open"
    /\ Becomes(s, Continued(session[s], "live"))

MetadataFails(s) ==
    /\ At(s, "metadata") /\ session[s].held = "open"
    /\ Becomes(s, Failed(session[s]))

\* The reader's end callback; release() detaches it.
VideoEnds(s) ==
    /\ At(s, "live") /\ session[s].life = "live"
    /\ Becomes(s, ReleasedAsFailure(session[s]))

\* The 'exit' event of the process, killed or not.
ServerProcessExits(s) ==
    /\ session[s].proc \in {"running", "killed"}
    /\ Becomes(s, ReleasedAsFailure([session[s] EXCEPT !.proc = "dead"]))

-----------------------------------------------------------------------------
(* adb, as the session sees it (external).                                 *)

\* The adb client gives up after 5 s; the daemon may still do what it was told.
TunnelCommandFails(s) ==
    /\ session[s].pc \in {"reverse", "forward"}
    /\ \E t \in {session[s].tunnel, "none"} :
         Becomes(s, Failed([session[s] EXCEPT !.tunnel = t]))

TunnelComesUp(s) ==
    /\ session[s].tunnel = "asked"
    /\ Becomes(s, [session[s] EXCEPT !.tunnel = "up"])

\* The removal's error is swallowed: a tunnel it could not remove stays.
RemovalRuns(s) ==
    /\ session[s].removal = "running"
    /\ \E t \in IF session[s].tunnel = "up" THEN {"none", "stuck"} ELSE {session[s].tunnel} :
         Becomes(s, [session[s] EXCEPT !.removal = "idle", !.tunnel = t])

-----------------------------------------------------------------------------
(* The websocket.                                                          *)

\* The browser's close frame or FIN arrives.
BrowserCloses(s) ==
    /\ session[s].ws = "open"
    /\ Becomes(s, [session[s] EXCEPT !.ws = "closing", !.code = "browser"])

\* The connection breaks.
BrowserVanishes(s) ==
    /\ session[s].ws \in {"open", "closing"}
    /\ Becomes(s, SocketClosed(session[s], "browser"))

CloseCompletes(s) ==
    /\ session[s].ws = "closing"
    /\ Becomes(s, SocketClosed(session[s], "none"))

\* watchForStuckClosing; release() stops the watch.
WatchdogTerminates(s) ==
    /\ session[s].ws = "closing" /\ session[s].life = "live"
    /\ Becomes(s, SocketClosed(session[s], "none"))

-----------------------------------------------------------------------------
(* Deliberate stops.                                                       *)

\* closeAllForShutdown: one synchronous sweep over a copy of the registry.
CloseAllForShutdown ==
    /\ stopping' = TRUE
    /\ session' = [s \in Sessions |->
                     IF s \in registry THEN ClosedForShutdown(session[s]) ELSE session[s]]
    /\ registry' = {}

\* adb kill-server: the tunnels go, and every adb shell dies (its 'exit' event
\* is ServerProcessExits).
AdbGone(r) ==
    [r EXCEPT !.tunnel = IF @ = "asked" THEN @ ELSE "none",
              !.proc = IF @ = "running" THEN "killed" ELSE @]

KillServer == session' = [s \in Sessions |-> AdbGone(session[s])]

ExitClosesStreams ==
    /\ "exit" \in Stops
    /\ exit = "up"
    /\ exit' = "streamsClosed"
    /\ CloseAllForShutdown
    /\ UNCHANGED apply

ExitKillsAdb ==
    /\ exit = "streamsClosed"
    /\ exit' = "adbKilled"
    /\ KillServer
    /\ UNCHANGED <<registry, stopping, apply>>

\* WebSocketServer.release terminates every client; each 'close' releases.
ExitReleasesServer ==
    /\ exit = "adbKilled"
    /\ exit' = "serverClosed"
    /\ session' = [s \in Sessions |->
                     IF session[s].ws \in {"open", "closing"}
                     THEN SocketClosed(session[s], "abnormal1006") ELSE session[s]]
    /\ registry' = {}
    /\ UNCHANGED <<stopping, apply>>

\* preApplyHygiene.
ApplyClosesStreams ==
    /\ "apply" \in Stops
    /\ apply = "idle" /\ exit # "serverClosed"
    /\ apply' = "streamsClosed"
    /\ CloseAllForShutdown
    /\ UNCHANGED exit

ApplyKillsAdb ==
    /\ apply = "streamsClosed"
    /\ apply' = "adbKilled"
    /\ KillServer
    /\ UNCHANGED <<registry, stopping, exit>>

\* applyUpdate's catch: the process goes on, so sessions are accepted again.
ApplyFails ==
    /\ apply = "adbKilled"
    /\ apply' = "idle"
    /\ stopping' = FALSE
    /\ UNCHANGED <<session, registry, exit>>

-----------------------------------------------------------------------------
Start(s) ==
    \/ ProbeDone(s) \/ PushDone(s) \/ PushFails(s)
    \/ ListenDone(s) \/ ListenFails(s) \/ ReverseDone(s)
    \/ ConnectionArrives(s) \/ AcceptTimesOut(s)
    \/ ReserveDone(s) \/ ReserveFails(s) \/ ForwardDone(s)
    \/ DummyConnects(s) \/ DummyIsStale(s) \/ DummyArrives(s) \/ DummyTimesOut(s)
    \/ BeatDone(s) \/ ControlConnects(s) \/ ControlFails(s)
    \/ MetadataRead(s) \/ MetadataFails(s)
    \/ TunnelCommandFails(s)

Device(s) ==
    \/ ConnectionIsLate(s) \/ VideoEnds(s) \/ ServerProcessExits(s)
    \/ TunnelComesUp(s) \/ RemovalRuns(s)

Socket(s) ==
    \/ BrowserCloses(s) \/ BrowserVanishes(s) \/ CloseCompletes(s) \/ WatchdogTerminates(s)

Stop ==
    \/ ExitClosesStreams \/ ExitKillsAdb \/ ExitReleasesServer
    \/ ApplyClosesStreams \/ ApplyKillsAdb \/ ApplyFails

Next ==
    \/ \E s \in Sessions : Open(s) \/ Start(s) \/ Device(s) \/ Socket(s)
    \/ Stop

Spec == Init /\ [][Next]_vars

\* What the timers of the code guarantee.  A push has no timeout and the read of
\* the metadata neither, so nothing is assumed of them; nothing is assumed of
\* browsers, of the device or of a close that is left to the network.
Fairness ==
    \A s \in Sessions :
      /\ WF_vars(ProbeDone(s))
      /\ WF_vars(ListenDone(s) \/ ListenFails(s))
      /\ WF_vars(ReserveDone(s) \/ ReserveFails(s))
      /\ WF_vars(ReverseDone(s) \/ ForwardDone(s) \/ TunnelCommandFails(s))
      /\ WF_vars(AcceptTimesOut(s))
      /\ WF_vars(DummyConnects(s)) /\ SF_vars(DummyTimesOut(s))
      /\ WF_vars(DummyIsStale(s) \/ DummyArrives(s))
      /\ WF_vars(BeatDone(s))
      /\ WF_vars(ControlConnects(s) \/ ControlFails(s))
      /\ WF_vars(WatchdogTerminates(s))

FairSpec == Spec /\ Fairness

-----------------------------------------------------------------------------
(* Properties.                                                             *)

TypeOK ==
    /\ session \in [Sessions -> SessionType]
    /\ registry \subseteq Sessions
    /\ stopping \in BOOLEAN
    /\ exit \in {"up", "streamsClosed", "adbKilled", "serverClosed"}
    /\ apply \in {"idle", "streamsClosed", "adbKilled"}

\* Whatever await was pending when it was released, a session that is over
\* holds nothing: no scrcpy-server, no device socket, no listener, and a tunnel
\* only until the removal under way has run.  (Not so while adb is being told to
\* set the tunnel up, nor after that command timed out: the daemon may set the
\* tunnel up behind the client's back, and nobody removes it then.)
HoldsNothing(r) ==
    /\ r.proc # "running" /\ r.held # "open" /\ r.listener # "open"
    /\ r.tunnel = "up" /\ r.pc \notin {"reverse", "forward", "ended"} => r.removal = "running"

ReleasedHoldsNothing ==
    \A s \in Sessions : session[s].life = "released" => HoldsNothing(session[s])

\* The registry a deliberate stop sweeps holds exactly the sessions that are not
\* over: none is missed by the sweep and none is swept twice.
RegistryIsLiveSessions ==
    registry = {s \in Sessions : session[s].life = "live"}

\* A start() that failed never leaves its viewer on an open socket without a word.
FailedStartIsTold ==
    \A s \in Sessions :
      session[s].pc = "ended" /\ session[s].life = "live" => session[s].code # "none"

\* The step of a session launches nothing.
LaunchesNothing(before, after) ==
    /\ after.proc = "running" => before.proc = "running"
    /\ after.tunnel = "asked" => before.tunnel = "asked"
    /\ after.held = "open" => before.held = "open"

\* A session that is over holds nothing and launches nothing more: its start()
\* stops at the next await (abandonIfReleased).
ReleasedIsOver ==
    [][\A s \in Sessions :
          /\ session'[s].life = "released" => HoldsNothing(session'[s])
          /\ session[s].life = "released" => LaunchesNothing(session[s], session'[s])]_vars

\* The first cause of a session's end is the one its viewer is told: a later
\* failure, stop or close never replaces it (releaseAsFailure, Mw.release).
FirstCauseStands ==
    [][\A s \in Sessions :
          session[s].code # "none" => session'[s].code = session[s].code]_vars

\* From the beginning of a deliberate stop until it is called off no viewer is
\* told that its stream failed, although the stop kills every scrcpy-server and
\* terminates every socket (liveStreams.closeAllForShutdown).
StopIsToldCleanly ==
    [][stopping =>
         \A s \in Sessions :
            session'[s].code \in {session[s].code, "shutdown1001", "browser"}]_vars

\* A websocket stuck in CLOSING does not keep its session, and so the device.
ClosingIsReleased ==
    \A s \in Sessions : session[s].ws = "closing" ~> session[s].life # "live"

\* A start() whose session was released comes to an end (unless it waits for a
\* push, which has no timeout, or reads from destroyed sockets).
ReleasedStartEnds ==
    \A s \in Sessions :
      session[s].life = "released" /\ session[s].pc \in Starting
        ~> session[s].pc \in {"ended", "push", "metadata"}

-----------------------------------------------------------------------------
(* The sessions are a StreamService.                                       *)

Stage(r) ==
    CASE r.life = "none"     -> r.pc
      [] r.life = "released" -> "over"
      [] r.life = "live"     -> IF r.pc = "ended" THEN "failed"
                                ELSE IF r.pc = "live" THEN "shown" ELSE "starting"

Holds(r) ==
    (IF r.proc = "running" THEN {"server"} ELSE {})
    \cup (IF r.held = "open" THEN {"sockets"} ELSE {})
    \cup (IF r.listener = "open" THEN {"listener"} ELSE {})

Seen(r) == [stage |-> Stage(r), told |-> r.code, holds |-> Holds(r)]

Service == INSTANCE StreamService WITH
    stream <- [s \in Sessions |-> Seen(session[s])],
    shut <- stopping

\* Whatever await of start() a failure, a close or a stop meets: the stream ends in
\* one step that leaves it nothing, only one that starts acquires anything, a start
\* that fails tells its viewer, and every viewer hears the first cause, which for a
\* stop is the stop (release, releaseAsFailure, closeForShutdown, abandonIfReleased).
ImplementsService == Service!Spec

=============================================================================
