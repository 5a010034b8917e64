# A model of ws-scrcpy-web

TLA+ specifications of the parts of ws-scrcpy-web that are hard to test: what a
server process does between two awaits, when the browser, the device, the adb
daemon, the launcher and its own timers answer in whatever order they like. Ten
models cover eleven of its components; TLC checks each of them on small instances
(ten passing runs, and two that show a disagreement of code and text), and TLAPS
proves the safety of all ten for every instance (49 listed theorems): each invariant
and each action property of a passing run is a theorem, and what is left to TLC alone
is liveness.

Contents:

1. [The system](#1-the-system): its components, their state and interactions
2. [The modules](#2-the-modules): what each one models, and how
3. [The runs](#3-the-runs): what TLC checks, with which bounds
4. [Fairness](#4-fairness): what is assumed to happen, and why
5. [The proofs](#5-the-proofs): what TLAPS proves, from what, and how
6. [Where code and text disagree](#6-where-code-and-text-disagree)
7. [What is not modelled](#7-what-is-not-modelled), and the plan

Running them:

    tlc -workers 2 -config MCStreamSession.cfg MCStreamSession
    tlapm StreamSessionProofs.tla

`PROJECT.json` lists the components, the runs, the seeded faults, the hazards,
and for every definition the lines of the source that it models. The operators
under "Seeded faults" in a module are not part of the specification: each is a
mutated form of one definition, a slip the code could have made, and the
property it is listed with is violated when it takes the definition's place.


## 1. The system

A browser mirrors and controls Android devices through a Node.js server
(`src/server`), which drives adb and starts a scrcpy-server on the device for
each stream. A Rust launcher (`launcher/`) supervises the server process; the
browser client (`src/app`) decodes the video and sends input.

The server is one event loop. Nothing runs in between two awaits, so a race here
is always one of *order*: an answer is handled after the state it was asked for
has changed, a session ends while its `start()` is suspended, a timer fires
although the thing it was armed for is over.

### Components

| Component | State | Operations | What is hard, and what makes it right |
|---|---|---|---|
| Stream congestion gate (`StreamCongestion.ts`) | flowing / congested / awaiting a keyframe | `video`, `audio` | Three kinds of packets meet two water marks in any order. No delta frame may be sent after a packet it refers to was shed; the backlog must stay bounded; the picture must come back. |
| Stream session (`ScrcpyConnection.ts`, `liveStreams.ts`, `Mw.ts`, `closingWatchdog.ts`, `shutdownHelpers.ts`) | the websocket, a tunnel, a listener, three device sockets, the scrcpy-server process, a flag *released* | `start()` in eleven awaits, `release`, `releaseAsFailure`, `closeForShutdown`, the sweeps of a shutdown and of an update | The session is released while any await is pending. Nothing may be left behind or launched afterwards, the viewer must hear the first cause of the end, and a deliberate stop must never look like a failure. |
| Stream start-up (`ScrcpyConnection.ts`, `FrameReader.ts`, `StreamDiagnostics.ts`) | who listens to a socket, what it has buffered, what the reader holds | `readExact`, `FrameReader.drain`, the keyframe watchdog | Three readers take over one flowing socket from each other; TCP cuts packets anywhere. No packet may be lost or doubled, and a lost config packet must be recovered. |
| adb daemon manager (`AdbDaemonManager.ts`, `AdbClient.ts`) | idle / starting / ready / killed, one promise in flight | `ensureReady`, `spawnLifecycle`, `kill` | Single flight, against a kill in the middle of a spawn. Nobody may wait for a promise nobody settles. |
| Device tracking (`ControlCenter.ts`, `Device.ts`, `DeviceTracker.ts`) | three maps, a throttle and a generation per device | the poll, `init`, `setState`, `fetchDeviceInfo`, the tracker of each browser | Polls overlap, properties are read across a change of device, updates are throttled. The maps must agree and no card may show another device's serial. |
| Wireless pairing (`PairingService.ts`, `PairingSession.ts`, `PairingApi.ts`) | one current attempt with a password, a poll timer, the status of the last replaced attempt | start (QR, code), cancel, status, the mDNS poll, `pairAndConnect` | Attempts replace each other while their adb calls run. One loop, no password outliving its attempt, no outcome changed after the fact. |
| Control channel and clipboard | a framer per session | input and device messages, passed through | Framing only, like the frame reader. |
| Update service (`UpdateService.ts`, `UpdatesApi.ts`) | status, the pending update and its manager, a generation, one check and one download in flight, an apply in flight | check, download, apply, reconfigure | A channel change overtakes checks and downloads; an apply works from what it captured; update and manager must match. |
| Dependency manager (`DependencyManager.ts`) | status and versions per tool, installs in flight | look-up, install, auto-install, repair | One install per tool; look-ups that end out of order; a swap of a tool in use. |
| Multiplexer and its services (`packages/multiplexer`, `FilePushReader.ts`, `FilePushHandler.ts`, `AdbkitFilePushStream.ts`, file listing, shell) | channels by id on one websocket, a state each; per upload a reader, its temporary file and an id from one counter | create, data, close, from both ends; new, start, append, finish | Closes that cross on the wire; chunks answered before they are on the disk; a file said to be uploaded that is not whole; an upload that nobody is told the end of. |
| Accounts and sign-in (`auth/`, `AuthApi.ts`, `UsersApi.ts`, `WebSocketServer.ts`) | users, sessions, failure counters, sockets per session | login, logout, lockdown, the edits of users | The last administrator judged by a row read before an await; sockets revoked with their session; sign-in turned on over an account without a password. |
| Settings (`SettingsBatchApi.ts`, `PendingSettingsStore.ts`, `reconcileWebPort.ts`, `Config.ts`) | config file, settings rows, a write-ahead log of batches | apply a batch, reconcile at boot, choose a port | A batch that fails, or dies, in the middle; a port saved and not served; a row of the log that nobody answers for. |
| Local HTTPS (`tls/`, `TlsApi.ts`) | a CA, a leaf, the listener that serves it | generate, revoke, change port | Two `generate()` overlap across the run of mkcert. |
| Embedding requests (`embedRequests.ts`) | one current request | ask, decide, cancel, expire | A decision must meet the request the prompt showed; all its steps are synchronous. |
| Network scan (`NetworkScanner.ts`, `ScanMw.ts`, `pendingLabels.ts`) | idle / scanning / draining, spectators, names waiting for a serial | start, cancel, attach | Cancel racing the end; a name filed under the wrong device. |
| Store (`db/`) | SQLite | synchronous calls, migrations, back-up at exit | A migration that fails half-way. |
| Launcher and service control (`launcher/`, `common/`, `service/`) | markers on disk, a child process, a crash count, a stop flag | supervise, restart, hand over to an update, install a service | Markers that outlive the process they were meant for; a kill racing a graceful exit; a stop meeting a restart; a crash loop. |
| Browser client (`src/app`) | players, input, dialogs | - | Rendering and decoding. |
| HTTP server and static files | listeners | routing | Stateless; the handshake of a stream's websocket is in the session model. |
| Verification of downloads | pinned keys | signatures, archives | Pure checks of bytes. |

### Interactions

- A **stream session** calls the adb client for every command; its packets pass
  the **congestion gate** on their way to the websocket; its video passes the
  **start-up** readers first. It enters itself into `liveStreams`, which the
  **exit of the process** and the **update service** sweep before they kill adb.
- Every adb command waits for the **daemon manager**; both stops kill the daemon.
- **Device tracking** runs adb commands on its own clock, and **pairing** asks it
  for a poll when a device has connected (`refreshNow`).
- The **launcher** restarts the server on exit code 75 or on a marker; the server
  leaves markers for it. A batch of **settings** that moves a port asks for such a
  restart, and the next boot reads what was saved: Settings and Supervisor are
  composed for that.
- Every websocket belongs to the login of **accounts** it was opened under, and is
  closed with it: this is how a **file push** loses its socket cleanly.


## 2. The modules

Each model has a module with its state, its actions and its properties, an `MC`
module that TLC starts from, one or more `.cfg` files, and a module of proofs. Two
modules of proofs serve two models each: VideoPathProofs the path of the video
(StreamStartup and StreamCongestion), AdbProofs the daemon and the push that goes
through it (AdbDaemon and FilePush). To be extended together, the definitions of
StreamStartup and FilePush that the other module also has begin with `Startup` and
`Push`. Settings extends Supervisor, the process it runs in, and
StreamService and Updater are the abstract specifications that StreamSession and
UpdateService implement. An action is one callback of the event loop *with* the
continuation it resumes, up to the next await: that is the granularity at which
the code interleaves. Where an action stands for several lines, the comment
above it names the function.

### StreamCongestion

`video()` and `audio()` of the gate and the two packet handlers that consult it,
one action per kind of packet (`VideoConfig`, `VideoKeyframe`, `VideoDelta`,
`AudioConfig`, `AudioFrame`), and the unsent bytes of the websocket, split into
`media` (shed by the gate) and `other` (never shed: config packets, device
messages, metadata). `picture` is what the browser's decoder can make of what it
was sent; `asked` says that a keyframe was requested for the present drain.
Bytes are the unit; packets have a kind and a size. Counters and clocks that only
feed log lines are left out.

### StreamSession, and StreamService

`session[s]` is a record with `pc`, the await `start()` is in on either tunnel
(`listen`, `reverse`, `accept`; `reserve`, `forward`, `dummy`, `beat`,
`control`), and with what the session holds: websocket, listener, tunnel, process,
sockets. Each field has the values the code tells apart, e.g. a tunnel is
`asked` while the adb command runs, because its removal then may run *before* it
is set up.

| Model | Code |
|---|---|
| `Continued` | `abandonIfReleased`, at every await |
| `Freed`, `Released` | `releaseResources`, `release` |
| `ReleasedAsFailure`, `ClosedForShutdown` | the methods of that name |
| `Failed` | the constructor's `catch` of `start()` |
| `SocketClosed` | `Mw.onSocketClose` |
| `CloseAllForShutdown`, `registry`, `stopping` | `liveStreams` |
| `ExitClosesStreams`, `ExitKillsAdb`, `ExitReleasesServer` | the steps of `runGracefulShutdown` |
| `ApplyClosesStreams`, `ApplyKillsAdb`, `ApplyFails` | `preApplyHygiene`, and `applyUpdate`'s `catch` |
| `WatchdogTerminates` | `watchForStuckClosing` |

The three device sockets are one resource, `held`; sockets that only an awaiting
function knows are counted in `inHand`. Codec, metadata and options are left out.
What adb does on its own (`TunnelComesUp`, `TunnelCommandFails`, `RemovalRuns`) is
external: a command that timed out may still have been carried out. A connection of
the device may come after the accept timed out, while the listener waits for the
release (`ConnectionIsLate`).

**StreamService** is what the viewers are promised, without awaits, tunnels and
timers: a stream is *starting*, *shown* or *failed*, and ends in one step (`Over`)
that leaves it no server, no sockets and no listener; only a starting stream acquires
any of them; its viewer is told of one cause, the first (`Told`); a failed start says
so; a stop ends all streams at once in its own name (`EndAll`) and newcomers are
refused until it is called off. `ImplementsService` maps each record to such a view
(`Seen`), is a PROPERTY of the run, and its step simulation is proved. The view leaves
out the tunnels, which adb may set up behind the session's back, and the sockets that
only an awaiting `start()` knows.

### StreamStartup

The bytes of the video socket as a sequence of *units*, the parts of a packet that
a chunk may cut apart, and the receiving side of Node's stream: paused until its
first `data` listener, flowing from then on, *also when nobody listens*. `Collect`
is `readExact`, `Read` the frame reader, `Listen` the hand-over. `Drained` is the
loop of `drain()` over the units of a chunk, written as a recursive function of how
many units it has been given, since that is how the proof goes through them.
`TimerFires` is
the watchdog that asks for a keyframe while no config packet has been seen. The
device is external: it writes header, config packet and keyframe when it starts,
and config packet and keyframe again when it is told to reset.

### AdbDaemon

The four states of the manager, spawns as processes of their own (a killed spawn
goes on, and may end after the next one has begun), clients that wait for one of
them, and the kills of the two stops. `Settles` is the end of `spawnLifecycle`
with everything it does to those who await it.

### DevicePoll

One adb transport, one browser. `flight` holds the answers of `adb devices` that
have not been handled; `PollDone` takes *any* of them, since two adb processes
end in any order. `dev` is the `Device` with its throttle and its generation
(a read is `current` or `old`), `listed` the descriptors map, `shown` the card in
the browser. `since` is history: who answered since the last change of state.

### Pairing

Every request of the API, the poll loop and `pairAndConnect`, with one `task` per
attempt for the await its continuation is in. `timer` and `orphans` say how many
timers are live and whether `this.timer` names them. The clock is read at each
check of the deadline, so `late` may change between any two; it is `unseen` if that
happens between a tick's last check and its `schedule()`, which then arms no tick that
could call `expire()`. The page that polls an attempt is part of the model. The QR code and the parsing of adb's output are
left out.

### UpdateService, and Updater

`checks` and `downloads` hold, for each call in flight, the await it is in and what
it captured before it: the generation (the life of one channel) and the manager it
asked. `check`, `download` and `apply` are the fields of that name, so that a promise
which is no longer *this.check* goes on beside its successor, as in the code. A
download given up on as stalled goes on (`cut`) with Velopack's lock in its hand.
What a settled promise wakes runs before any other callback (`Runnable`, `Turn`):
microtasks go first.

| Model | Code |
|---|---|
| `RunCheck`, `Resolved`, `VelopackAnswers` | `runCheck`, `performCheck` at its two awaits |
| `JoinOrDownload`, `Settles`, `CheckGoesOn` | `downloadIfNeeded`, `runDownload` and those who wait for it |
| `Reconfigure` | `reconfigure` |
| `Apply` ... `Exit` | `applyUpdate` on the four kinds of installation, the route's exit |
| `ApplyFails` | its `catch` |

A release stands for its version, its folder and the manager that reads the folder:
the properties only ask whether these match. Velopack, GitHub, pkexec and the
launcher's swap are external, and may fail wherever the code handles a failure. The
removal of the hand-off markers may be refused too (`Unmarked`): they are `kept` then.

**Updater** is the promise without checks, downloads and platforms: a channel, at
most one release on offer, an install that takes what is on offer and keeps to it,
viewers told before the server goes down. The refinement `Promise` reads `offer`
from `pending`, `phase` from `apply` and `server`; `ImplementsUpdater` is a PROPERTY
of the run, and its step simulation is proved.

### Accounts

Routes are synchronous up to their await of the body and after it. `PatchArrives`
captures the row of the target, `PatchBody` acts on whatever the row has become;
`PostArrives` and `PostBody` likewise, with the lockdown that the first account
brings. Ids are SQLite's: the greatest and one, so that an id is given out again
after a deletion. `sessions` keeps what became of a token after its row is gone, for
the properties. A websocket knows the account and the session it was opened under
(`Handshake`), or the implicit administrator in open mode.

### Supervisor, and Settings

**Supervisor** is the loop of the launcher (`spawn`, `wait`, `grace`, `decide`,
`delay`), its child, the exit code, the `.restart` marker and the stop flag.
`StopsHere`, `AskedToRestart`, `GivesUp` are the three questions it asks of a child
that has ended, in that order. The marker is `old` once another process was
started: the code has no such notion, the properties do. Its removal may be refused
at both places (`Cleaned`): it is `kept` then, and asks for a restart each time.

**Settings** extends it with what runs in the child: a batch of three settings
written one by one in the order of `orderChanges`, each write of which may be
refused by the disk (`WriteFails`) or be the last the process does (`CutShort`); the
configuration on disk and its copy in memory; the row of the batch in the
write-ahead log, whose marks may be refused as well (`Refused`, `MarkFails`; it is
`unmarked` then); and `Boot`, which reconciles the log and picks the ports to serve:

- the configured web port if it is free (`Finds`); else, unless the instance must have
  it exactly or finds none, another one, which is saved unless a sibling holds the
  configured one. When none is found the web listener does not bind;
- the HTTPS port if there is a certificate, the web port has not taken it and it is
  free (`SecurePort`). With neither the process exits.

`setup` is the kind of installation: a service or not, with a certificate or not, bound
to the exact port (the Linux system service) or not. `busy` are the ports that others
held at the last boot, and `unasked` says that a port was saved, or moved in memory,
without a restart being asked for; both are there for the exceptions of the properties.
Between the steps of a batch no timer fires (`Turns`), since it is synchronous, but
a kill comes at any moment.

### FilePush

Both ends of the websocket of a file list, and the wires between them as sequences:
`pushFile` in the browser, up to its awaits (`Drop`, `Send`, `Receive`), and one
`FilePushReader` per channel in the server. A file is a number of chunks, a chunk
carries the name of its file, and `device` is what adb has put on the device, so
that a foreign or a missing chunk shows. The temporary file is `opening` until its
write stream has opened it, and holds what was flushed; an unlink may be refused on
every path that tries one (`CleanedUp`), and the file is `kept` then. The browser may
fail to read the file at any of its reads (`ReadFails`). The modal may be closed, the
socket may end cleanly (a login that ended) or be lost, with any part of what was
sent still delivered, and the server may end, at any moment. `fileId` starts
anywhere, so that the limit of an answer's two bytes is reached.


## 3. The runs

Every passing run is exhaustive within its bounds, and between them the runs take
every action of every module. Deadlock is only checked where the system cannot
stop: everywhere else a session may have ended, a process exited, or a bound been
reached, and the run says `CHECK_DEADLOCK FALSE`.

| Run | Module | States | What it shows |
|---|---|---|---|
| `congestion` | StreamCongestion | 308 | `NoOrphanDelta`, `MediaBacklogBounded`, `PictureReturns` |
| `session` | StreamSession | 9,713 | `RegistryIsLiveSessions`, `ReleasedIsOver`, `FirstCauseStands`, `StopIsToldCleanly`, `ClosingIsReleased`, `ReleasedStartEnds`, `ImplementsService` |
| `startup` | StreamStartup | 24,872 | `NextPacketFollows`, `RequestsAreWarranted`, `ConfigIsRecovered` |
| `daemon` | AdbDaemon | 37,947 | `SingleFlight`, `KilledUntilAsked`, `CallersAreServed` |
| `poll` | DevicePoll | 110,169 | `SerialIsCurrent`, `MapsAgree`, `AttachedIsShown` |
| `pairing` | Pairing | 5,716 | `OnePollLoop`, `SecretOnlyUnderWay`, `OutcomeStands`, `PageLearnsAnEnd` |
| `update` | UpdateService | 14,934 | `OfferIsCurrent`, `OnlyTheStalledHoldTheLock`, `StopIsForAnInstall`, `CheckEnds`, `NewChannelIsChecked`, `ImplementsUpdater` |
| `accounts` | Accounts | 54,887 | `LoginsEnd`, `EveryoneHasAPassword`, `LastAdminIsKept` |
| `settings` | Settings | 193,864 | `NothingIsLeftOver`, `AuditIsTrue`, `StopIsHonoured`, `SavedPortIsServed`, `CrashLoopEnds` |
| `file_push` | FilePush | 319,585 | `SuccessIsWhole`, `TempFilesGo`, `UploadIsTold` |

and two runs that end in a violation, each of one property that a comment or the
guide states: `startup_loss` and `open_mode`
([section 6](#6-where-code-and-text-disagree)).

What a property excepts is named in its definition and in section 6: a property that
says what should be, with an exception for each way in which the code does otherwise.
`ReleasedIsOver` says of each step that a released session holds nothing and launches
nothing after it, `OutcomeStands` that an expired attempt never pairs and a finished
one keeps its outcome, `LoginsEnd` that sessions and sockets end with their login.
`TypeOK` of each module was checked once with the run's constants (FilePush: with
`MaxId = 2`), as were the inductive invariants of section 5, and is proved.

### Bounds

| Constant | Value | Why it is enough |
|---|---|---|
| `LowWater`, `HighWater`, `MaxPacket` | 2, 4, 2 | a packet may cross both marks or stop between them; the proofs cover all values |
| `MaxOther` | 3 | the unshed traffic alone lifts the backlog over the low mark and, with a packet, over the high one |
| `Sessions` | 1, with both stops | sessions share only the registry and the stops, and the proofs cover any number. Two sessions were checked once, with one stop (1,076,419 states) and with both (7.04 million) |
| `Connections` | 2 | the first connection but one, and the last, are told apart |
| `Vias`, `MaxFree` | both tunnels, 1 | one packet after the start shows what a lost one does; chunks are cut at every place |
| `Clients`, `Spawns` | 2, 3 | a spawn killed and still running, its successor, and one more |
| `Killers` | both | |
| `Serials` | 2 | a device exchanged for another |
| `MaxFlight`, `MaxChanges` | 2, 2 | an answer overtaken by a younger one, with the transport changed in between and back |
| `Ids` (pairing) | 2 | an attempt and the one that replaces it. Three were checked once, for safety (884,386 states) |
| `Releases`, `Checks`, `Downloads`, `MaxSwitches` | 2, 2, 2, 1 | two checks of two channels in flight, that resolve different releases; a stalled download and the one it locks out; a channel changed during an install |
| `Platforms` | all four | they differ in what an install awaits |
| `MaxUsers`, `Tokens`, `Sockets`, `Requests` | 2, 2, 1, 2 | the implicit administrator and another, two requests whose bodies cross, an id given out again. Three accounts with one token were checked once (187,643 states) |
| `Ports`, `MaxFaults` | 2, 1 | a port that moves and moves back, to one that is free, busy, or the other listener's; the proofs cover any number of failing writes |
| `Setups` | 2 | a desktop with HTTPS, and a Linux system service without: the two ends of what the kinds of installation differ in |
| `MaxCrashRestarts`, `MaxLaunches` | 1, 1 | the count reaches its limit and is reset by a healthy minute. The launcher started twice was checked once, for safety (387,712 states) |
| `Uploads`, `Sizes`, `MaxId` | 2, {0, 2}, 3 | two uploads under way at once on one counter of ids that runs out before, between or after them; a file of several chunks, and an empty one |

Since everything is inductive in the proofs, the safety results do not depend on
these values; only the liveness results do.


## 4. Fairness

Fairness is assumed only of what a timer, a timeout or the far side of a
connection guarantees:

- **congestion.** The browser goes on reading (`WF` of `BrowserCatchesUp`), and
  not every keyframe the device sends (one in ten seconds at least) meets a
  backlog (`SF` of `KeyframeWhenClear`). Without the first a stopped browser
  keeps its gap; the second is strong because the backlog rises and falls.
- **session.** The timeouts of the code: the probes, the tunnel commands (5 s), the
  accept (10 s), the dummy byte (2 s a socket, and a deadline for all of them), the
  connects, the watchdog on CLOSING. `DummyTimesOut` needs `SF`: it is disabled
  while a socket of the loop is in hand. **Nothing is assumed** of a push and of
  the read of the metadata, which have no timeout, of browsers, of the device, or
  of a close that is left to the network. `ReleasedStartEnds` therefore ends with
  `"push"` or `"metadata"` as well.
- **startup.** The timers fire, TCP delivers, an encoder that starts or is reset
  produces. Nothing is assumed of the audio socket; `ConfigIsRecovered` begins
  when the session is live.
- **daemon.** The wait for the binary ends after 5 minutes, start-server after
  30 s. Nothing else.
- **poll.** The server boots, polls come, adb answers *some* of them (`SF`: others
  may be overtaken or fail), the throttle ends, and a device that stays attached
  answers one check of its screen. `AttachedIsShown` is `<>[]` since `MaxChanges`
  lets the transport come to rest.
- **pairing.** The clock runs, timers fire, adb calls have timeouts of their own,
  and the page polls. Nobody has to scan, start or cancel.
- **update.** What has a timeout ends: the lookup, Velopack's check (a minute), a
  download (it stalls after two), adb, the writes, the fetch of the AppImage. `SF`,
  since other continuations may go first again and again. Nothing is assumed of the
  user at the password prompt, which `NewChannelIsChecked` excepts, nor of a
  download that was given up on.
- **settings.** The launcher polls its child and its flag, its timers and those of
  the server fire, and synchronous code goes on to its end. The two timers of the
  server need `SF`: a request takes the turn away while it is applied. Nothing is
  assumed of the user, of crashes, or of the launcher being started again.
- **file_push.** Both event loops go on, the disk answers, and `adb push` ends. The
  last is an assumption on adb, not on the code: `AdbClient.push` has no timeout,
  and an upload whose push hangs is told nothing.


## 5. The proofs

All proofs are checked by TLAPS to the last leaf. The assumptions on the constants
are those the modules state, and TLC evaluates them in every run:
`WaterMarksAssumption` (the marks are numbers, low below high, as the
constructor demands), `StartupAssumption` (the tunnels are the two there are),
`SessionAssumption` (at least one connection; the stops are
known ones), `DaemonAssumption`, `PollAssumption`, `PairingAssumption`, `UpdateAssumption`,
`AccountsAssumption`, `SupervisorAssumption`, `SettingsAssumption`,
`FilePushAssumption` (bounds are
numbers; model values are distinct from the constants of the code).

| Module | Theorem | Statement |
|---|---|---|
| VideoPathProofs | `TypeCorrect`, `NoOrphanDeltaHolds`, `MediaBacklogBoundedHolds` | the gate, for all marks and packet sizes |
| | `StartupInvariant` | the inductive invariant of the start-up, for any number of packets, cut anywhere |
| | `ReadInChunks` | the reader ends in one state, however the stream is cut |
| | `NextPacketFollowsHolds`, `RequestsAreWarrantedHolds` | no packet is lost or doubled once the reader listens; a keyframe is asked for only while one is missing |
| StreamSessionProofs | `SessionsInvariant` | the inductive invariant, for any number of sessions and connections |
| | `ReleasedHoldsNothingHolds`, `ReleasedIsOverHolds` | a session that is over holds nothing, and nothing is launched after the release |
| | `RegistryIsLiveSessionsHolds` | the registry is exact |
| | `FailedStartIsToldHolds` | a failed start is told |
| | `FirstCauseStandsHolds` | the first cause stands |
| | `StopIsToldCleanlyHolds` | a stop is told as a stop |
| | `SessionsAreAService` | the sessions implement StreamService |
| AdbProofs | `DaemonInvariant`, `NobodyWaitsForNothingHolds`, `KilledUntilAskedHolds` | for any clients, spawns and kills |
| | `SingleFlightHolds` | at most one spawn runs until the first kill |
| | `PushInvariant` | the inductive invariant of the uploads, for any uploads, sizes and limit of the ids |
| | `SuccessIsWholeHolds`, `TempFilesGoHolds` | a file said to be uploaded is whole and its own; a reader that is over leaves no file but one not yet open, one whose unlink was refused, or at the end of the process |
| DevicePollProofs | `PollInvariant`, `MapsAgreeHolds`, `SerialIsCurrentHolds` | for any devices, polls and changes |
| PairingProofs | `PairingInvariant`, `OnePollLoopHolds`, `OutcomeStandsHolds` | for any attempts |
| | `SecretOnlyUnderWayHolds` | no password after the end of its attempt, and after its deadline only while a tick is to blank it, or if no tick sees the deadline |
| UpdateServiceProofs | `UpdateInvariant`, `TypeCorrect` | the inductive invariant |
| | `OfferIsCurrentHolds`, `ReadyIsOnOfferHolds`, `ApplyKeepsItsOfferHolds`, `FailureIsAboutTheOfferHolds` | what is on offer, and what of it a check may touch during an install |
| | `OnlyTheStalledHoldTheLockHolds`, `StopIsForAnInstallHolds` | the lock; the stop, and the markers but for one whose removal was refused |
| | `ServiceIsAnUpdater` | the service implements Updater |
| AccountsProofs | `AccountsInvariant`, `TypeCorrect` | the inductive invariant, for any accounts, tokens, sockets and requests |
| | `SessionsOfEnabledAccountsHolds`, `SocketsOfLiveLoginsHolds`, `LoginsEndHolds` | sessions and sockets end with their login |
| | `EveryoneHasAPasswordHolds`, `LastAdminIsKeptHolds` | nobody is locked out by sign-in; the last administrator |
| SettingsProofs | `SettingsInvariant`, `TypeCorrect` | the inductive invariant, for any ports, crashes and failing writes |
| | `NothingIsLeftOverHolds`, `AuditIsTrueHolds` | markers and rows end with their process, but for a marker that could not be removed and a row that could not be marked; the log is true |

The invariants and why they are needed:

- **Congestion.** `GateInv`. `NoOrphanDelta` alone is not inductive: a state with a
  gap and an open gate satisfies it and its next delta does not. What is missing
  is that a gap exists only while the gate is shut to deltas.
- **Start-up.** `NextPacketFollows` speaks of the packets seen; what carries it on is
  that the wire goes on where they end. `WireInOrder` says that each unit on the wire
  is followed by its successor in the stream, up to the packet the device writes
  next, and `ReaderInOrder` that what the reader has taken, whole packets and at most
  one header, ends where the wire begins: as long as the reader has kept its place
  (`ok`). A chunk is then an induction over its units (`ReadKeeps`). The library's
  induction takes an operator as a parameter; `SetInduction` says the same of the
  *set* of numbers for which a statement holds, which is an ordinary constant, and
  follows from the well-foundedness of `<`. The losses of the hand-over are no
  exception in the invariant: the reader begins with whatever the wire has left.
- **Session.** `SessionsInv` is one invariant per record and one on the registry.
  The record's is split in three because the code's operators compose: a step is
  `Released(Closed(r))`, and halfway through it the record is closed and not yet
  released. `RecordInv` holds even there (types; a tunnel has a name before it is
  asked for; a tunnel is `asked` only at two awaits). `LiveSocket` relates the
  life of a session to its websocket and to the cause its viewer was told.
  `OverHoldsNothing` is the promise itself. Each operator has a lemma that says what
  it keeps and what it does (`StepPromise`: the first cause stands, nothing is
  launched after the release); each action is then an instance (`Follows`), and
  the sweeps apply one operator to many records (`SweepKeeps`). Both action
  properties fall out of the same lemmas.
- **Stop.** `Swept` says that the registry is empty during a stop. It holds because
  a stop begins with a sweep (`StopSweeps`) and because no session begins during
  one (`StaysShut`); with `RegistryIsLiveSessions` no session is live then, so that
  the only word a viewer can still be given is the refusal.
- **Refinement of the sessions.** A record is seen through `Seen`, and each step of it
  is one of five: not seen (`NotSeen`), start() goes on (`GoesOn`) or fails
  (`FailsOn`), the viewer leaves (`Leaves`), the session ends (`Ends`). `StartSeen` and
  `OthersSeen` sort the actions into these, `SessionIsSeen` maps each to an action of
  the service. What makes it go through is the invariant: a session that is over is
  seen to hold nothing and was told a cause (`OverIsSeenAsOver`), so that nothing is
  seen of it ever after, and one that is live is under way, so that the sweeps, which
  go by the registry and by the websockets, are `EndAll` of the service
  (`SweepIsSeen`). The failed start that is told (`FailedStartIsTold`, an invariant
  proved on its own) is part of what the service's `Fail` says.
- **Daemon.** `NobodyWaitsForNothing` and `WaitersWait`: a client names a spawn only
  while it waits for it. The point is that a kill forgets the spawn in flight but
  not those who await it. `SingleFlight` counts the spawns that run, and a count is
  nothing to induct on: `OnlyInflight` says instead *which* one runs, the one
  `inflight` names, until something is killed.
- **Poll.** Besides the two properties, that a transport without a `Device` has
  nothing under way (`NoDeviceRests`), and that what a read of the current
  generation may bring has answered since the last `setState`
  (`ReadsAreCurrent`): this is what the generation check buys.
- **Pairing.** That an attempt that was not started has nothing under way, and that
  one that awaits its scan has no pairing under way (`ScanHasNoPair`), without which
  a late success could move an expired attempt. For the password, that the current
  attempt has a tick armed or under way for as long as its scan is in time
  (`ScanIsWatched`).

- **Update.** Most of `Inv` says who owns the status: a check of this generation in
  flight is *this.check*, never runs beside an install, and the status is its own
  (`CheckOwnsStatus`); who waits for a download waits for the one that runs
  (`WaitsForDownload`), and a download of this generation is awaited by its check or
  by the install (`DownloadIsAwaited`). Without these `ApplyKeepsItsOffer` is not
  inductive, since a check that was under way when the install began could overwrite
  what it works from. The refinement needs the same invariant: a check moves the
  offer only while no install is under way.
- **Accounts.** A login is ended from both of its ends: `LoginsEnd` relates sockets
  to sessions and sessions to accounts, and an id that is given out again must not
  find a session of its predecessor. `EveryoneHasAPassword` needs that only the
  implicit administrator was ever without a password.
- **Uploads.** `SuccessIsWhole` is about the end of a chain of ids: an answer goes to
  whoever waits for its id, so the file on the device is the upload's own only if no
  two readers ever had one id (`IdsInv`) and each id that comes back is given to one
  upload, the first of those that wait, whosever channel it is (`WaitersInv`,
  `NamedInv`). The file is whole only if each request is answered
  once. `Apart` says that at most one request, and at most one answer, of a channel
  is under way, so that the number of requests the reader has accepted (`Done`) and
  what the upload has sent differ by at most the one that is under way
  (`RequestsInv`, `AnswersInv`, `ReadyInv`). A refusal that empties its reader, a
  modal that closes and a socket that ends with any part of its frames lost all keep
  this, because they never move the two counts apart, only end one of them (`Steady`,
  `Calm`).
- **Settings.** `Attended` says where the launcher is while there is no server, so
  that a marker can only be old before the launcher has cleaned up; and
  `RequestHasServer` that a request is under way only in a live process, so that
  the row of a dead one is never taken for one under way.

Only model-checked is what the provers cannot state: liveness under fairness
(`PictureReturns`, `ClosingIsReleased`, `ReleasedStartEnds`, `ConfigIsRecovered`,
`CallersAreServed`, `AttachedIsShown`, `PageLearnsAnEnd`, `CheckEnds`,
`NewChannelIsChecked`, `StopIsHonoured`, `SavedPortIsServed`, `CrashLoopEnds`,
`UploadIsTold`), and the two violations, which are counterexamples.


## 6. Where code and text disagree

Two are runs that end in a violation, with the line and the quotation in
`PROJECT.json` under `findings`.

- `startup_loss`. Between the header of the video socket and the 4 bytes of the
  audio socket the video socket flows and nobody listens: what arrives, or was put
  back with `unshift`, is emitted to nobody. The config packet is lost in this
  server, although the guide says that the loss is not its own. `ConfigIsRecovered`
  shows that the watchdog repairs it, *unless* a chunk ended inside a packet:
  then the reader takes its rest for a header and does not find its place again.
- `open_mode`. The implicit administrator may be demoted or deleted like any other, in
  open mode itself (the shortest trace) or while sign-in is on and is then turned off.
  Open mode then stands for an account that is no administrator: no caller may
  administer, and none can turn sign-in on again.

Others the models contain, without a run of their own:

- only a delta frame that sees the drain of the congestion gate asks for a keyframe;
  when audio or a config packet sees it first, nobody asks (`PictureReturns` shows
  that the device's periodic keyframe still repairs it);
- two polls of adb whose answers are handled in the other order apply the older list
  last (`ControlCenter.ts:150` says that they cannot interleave where it matters);
  and the last update of a device that disconnects may be throttled while its
  listener is detached in the same call, so that the browser keeps the card;
- a pairing attempt that has expired becomes "failed" when it is replaced, although
  "expired" is said to be final;
- the two ports of a batch are written one after the other: when the second write
  fails, the first port has moved on disk and no restart is asked for
  (`SettingsBatchApi.ts:393`); and a web port that could not be written stays in
  memory (`Config.ts:1629`), so that saving it once more "changes" nothing, and
  asks for no restart either. `SavedPortIsServed` excepts both (`unasked`);
- the marks of a batch are database writes outside any `try`: when `markCompleted`
  throws (`SettingsBatchApi.ts:449`, `:500`), the batch is written, its row stays
  pending, no restart is asked for, and the next start calls it abandoned; when
  `markFailed` throws (`:395`), the row stays pending as well. `NothingIsLeftOver`
  excepts them (`unmarked`);
- an expired attempt keeps its password when its deadline falls between the last check
  of a tick and its `schedule()`: that finds the deadline passed, arms no tick
  (`PairingService.ts:343`), and nobody calls `expire()` until the attempt is replaced
  or cancelled. `PairingSession.ts:101` says why it should not stay ("nothing
  evicts a session"), and `pairingService.test.ts` tests the tick that blanks it.
  `SecretOnlyUnderWay` excepts it (`unseen`).

The models also contain behaviours that no run singles out, since no text rules
them out; some explain an exception in a property:

- a failed apply calls off a stop although the process has begun to exit in the
  meantime: a session opened then is told that its stream failed
  (`StopIsToldCleanly` holds until a stop is called off);
- when the control connection of a forward tunnel fails, the video socket is left
  open; when a tunnel command times out and adb carries it out afterwards, the
  tunnel stays (the exception in `HoldsNothing`);
- after a kill a second spawn may run beside the first (`SingleFlight` is stated
  up to the first kill), and a command of a client that runs after the
  kill-server of the exit starts a daemon that outlives the server;
- `init()` called again during its own await arms two intervals;
- a PATCH judges the last administrator by the row it read before it awaited its
  body (`UsersApi.ts:88`): two of them at once, or one whose id was given out again,
  can take the last one away (the exception in `LastAdminIsKept`). A new password or
  a lost role ends no session; a session that expires keeps its sockets, and its
  user cannot log out any more, as the gate refuses it first;
- a shutdown asked for in the second after a restart was asked for is followed by a
  restart, since the marker is on disk by then; the stop of the launcher is not
  (`StopIsHonoured`);
- an upload is told nothing if its modal closed, its socket was closed cleanly by the
  end of a login, or the ids have passed 32767: then `writeInt16BE` throws in the
  handler, and nothing is answered. One that lost its socket before its id came is
  told as an error of an "Unknown file", and its own row stays at "begins"
  (`UploadIsTold` names these in `Untold`). A success may still be followed by an
  error, if the socket is lost between the answer and the close of the channel; the
  promise of `pushFile` never settles when the socket is lost;
- an upload whose file the browser cannot read ends without a word: `pushFile` is
  awaited and caught by nobody, its row stays at "begins" or at a percentage, and the
  reader in the server stays open until the channel ends (`ReadFails`);
- a temporary file stays if its reader is released before the file was opened, or if
  its unlink is refused, on whatever path: `cleanupTempFile` tries once and ignores the
  error; a write stream that fails (a full folder) has no error listener, and ends the
  server (`ServerDies`);
- a third pairing attempt evicts the outcome of the first, whose page is then told
  that it is unknown;
- a hand-off marker that cannot be removed after a failed install stays, with the
  status back to ready (`StopIsForAnInstall` excepts it); a restart marker that the
  launcher cannot remove makes each later exit of the server a restart, whatever its
  code (`CrashLoopEnds`, `SavedPortIsServed` except it);
- a web port that moves onto the HTTPS port because its own is busy is saved there, and
  from then on HTTPS is left out at each boot, until a user changes one of the two;
- a connection of the device that comes after the accept timed out is emitted to nobody
  and destroyed by nobody (`ConnectionIsLate`).


## 7. What is not modelled

Of the modelled components:

- session: the contents of the metadata, codecs and options; the order in which the
  three sockets connect; an uncaught exception, which ends the process;
- start-up: the audio socket's own reader and the dummy byte, which have the same
  gap; the bytes of a header (a cut inside one is a cut in front of it, as the
  reader waits for all twelve);
- device tracking: several transports of one device, screen state and kind beyond
  the first check, network interfaces, names waiting for a serial;
- pairing: the QR code and the parsing of adb's output;
- update: what the launcher does with the markers, the verification of packages, the
  texts of the errors; that viewers are told by an apply is in StreamSession;
- accounts: the lock of an account after failed logins (its arithmetic has unit
  tests; with a lock longer than the window of failures it cannot be renewed by one
  failure), the labels and settings of a user;
- settings: what the settings other than the two ports mean, and the page that
  stages and saves them; the port override of a container (`WS_SCRCPY_WEB_PORT`), an
  advanced list of servers, a certificate that is made or removed while the server
  runs, and the other writers of the ports (`PATCH /api/config`, the panel of Local
  HTTPS);
- launcher: the tray, the operation server, the swap of an update, the elevated
  runner, the service managers;
- file push: directories, the progress shown, and the CANCEL request and the wrong
  states of the reader that this client never brings about (all of them are
  refusals, as `Refused` is).

Not modelled at all:

- **dependency manager**: a look-up of a tool overwrites the status of an update of it
  that is under way (`DependencyManager.ts:251`). Its core is the replacement of
  directories of the operating system, whose failures differ by platform;
- **local HTTPS**: two `generate()` that overlap across the run of mkcert; what that
  does to the CA is decided by mkcert and the certificate store of the system;
- **embedding requests** and **network scan**: one current request, one current scan,
  synchronous but for the scan's sockets;
- **control channel** and the multiplexed channels of the shell and of the listings:
  bytes passed through, by the same multiplexer as a file push;
- **store**: synchronous calls; migrations run before anything else does;
- an uncaught exception other than that of a file push (a connection of the device
  that is reset before it has an error listener ends the process,
  `index.ts:408`): no model has it.

Of the rest, the pure checks (verification of downloads, parsers, the QR encoder)
have unit tests with real inputs and no order to get wrong; rendering, decoding and
the pages of the settings in the browser, generated tables (pinned keys, top-level
domains) and calls into the operating system are out of reach. They are the larger
part of the repository's lines.

### Plan

Done: the update service with its abstract specification and the refinement,
accounts, settings with the launcher, the file push, the proofs of every safety
property, and the stream service that the sessions implement. Left, in order of what the code
risks:

1. **Dependency manager**: *one install per tool*, *an older look-up never hides a
   newer one*, *a swap that fails leaves a tool that works*.
2. **Certificates** and **network scan** with names waiting for a serial: overlapping
   operations on one resource each.
3. The hand-over of an update to the launcher: the markers of UpdateService read by
   Supervisor, composed as Settings is.
4. An abstract specification of the daemon service that `AdbDaemon` implements, and
   one of an upload that `FilePush` implements, with the step simulations proved.
