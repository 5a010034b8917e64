------------------------------- MODULE Supervisor -------------------------------
(***************************************************************************)
(* The launcher (launcher/src/supervisor.rs) and the server process it     *)
(* keeps running, with what passes between them: the exit code, the        *)
(* .restart marker on disk and the stop flag the tray and Ctrl+C set.      *)
(*                                                                         *)
(* What the server does with its configuration is in Settings, which       *)
(* extends this module; the operations that end the process, and the four  *)
(* ways it is asked to, are here.  Left out: the tray, the operation       *)
(* server and the uninstall of the Windows service.                        *)
(***************************************************************************)
EXTENDS Naturals

CONSTANTS
    MaxCrashRestarts,  \* MAX_CRASH_RESTARTS
    MaxLaunches        \* bound: how often the launcher is started

ASSUME SupervisorAssumption ==
    /\ MaxCrashRestarts \in Nat
    /\ MaxLaunches \in Nat

VARIABLES
    launcher,   \* where run() is; "off" before it starts and after it returned
    launches,   \* how often it was started
    service,    \* running_as_service
    stop,       \* the stop flag
    crashes,    \* crash_restarts
    server,     \* the child process: "none", "boot", "up", "leaving", "dead"
    code,       \* its exit code once it is dead: 0, 1 (any failure) or 75
    healthy,    \* its uptime has reached CRASH_COUNT_RESET_UPTIME
    marker,     \* the .restart marker; "old" once another process was started,
                \* "kept" when the launcher could not remove it
    timer       \* scheduleRestart's second until exit 75 is running

launcherVars == <<launcher, launches, service, stop, crashes>>
processVars  == <<server, code, healthy, marker, timer>>
supervisorVars == <<launcher, launches, service, stop, crashes,
                    server, code, healthy, marker, timer>>

Alive == server \in {"boot", "up", "leaving"}

SupervisorInit ==
    /\ launcher = "off" /\ launches = 0
    /\ service \in BOOLEAN
    /\ stop = FALSE /\ crashes = 0
    /\ server = "none" /\ code = 0 /\ healthy = FALSE
    /\ marker \in {"none", "old"}
    /\ timer = FALSE

-----------------------------------------------------------------------------
(* Seeded faults.                                                          *)

\* The marker is looked at before the stop flag.
StopsHereMarkerFirst == stop /\ marker = "none"

\* A crash is forgiven whatever the uptime was.
PriorForgives == 0

-----------------------------------------------------------------------------
(* The launcher.                                                           *)

\* remove_file, before the first server is started (cleanup_stale_marker) and
\* when a marker is followed; a refusal is at most logged.
Cleaned == IF marker = "none" THEN {"none"} ELSE {"none", "kept"}

\* The user, the desktop or the service manager starts it (external).
Launch ==
    /\ launcher = "off" /\ launches < MaxLaunches
    /\ launcher' = "spawn" /\ launches' = launches + 1
    /\ stop' = FALSE /\ crashes' = 0
    /\ marker' \in Cleaned
    /\ UNCHANGED <<service, server, code, healthy, timer>>

\* The tray's exit, Ctrl+C, or the service manager (external).
AskStop ==
    /\ launcher # "off" /\ ~stop
    /\ stop' = TRUE
    /\ UNCHANGED <<launcher, launches, service, crashes, processVars>>

Spawn ==
    /\ launcher = "spawn"
    /\ launcher' = "wait"
    /\ server' = "boot" /\ code' = 0 /\ healthy' = FALSE /\ timer' = FALSE
    /\ marker' = IF marker = "new" THEN "old" ELSE marker
    /\ UNCHANGED <<launches, service, stop, crashes>>

\* wait_with_signal sees the stop flag: Linux sends SIGTERM and waits, Windows
\* kills at once.  SIGTERM ends a server that has no handler for it yet.
SignalChild ==
    /\ launcher = "wait" /\ stop /\ Alive
    /\ launcher' = "grace"
    /\ \/ server \in {"up", "leaving"} /\ server' = "leaving" /\ UNCHANGED code
       \/ server' = "dead" /\ code' = 1
    /\ UNCHANGED <<launches, service, stop, crashes, healthy, marker, timer>>

\* GRACEFUL_STOP_TIMEOUT.
GraceIsOver ==
    /\ launcher = "grace" /\ Alive
    /\ server' = "dead" /\ code' = 1
    /\ UNCHANGED <<launcherVars, healthy, marker, timer>>

Reap ==
    /\ launcher \in {"wait", "grace"} /\ server = "dead"
    /\ launcher' = "decide"
    /\ server' = "none"
    /\ UNCHANGED <<launches, service, stop, crashes, code, healthy, marker, timer>>

\* The stop flag comes before decide_restart.
StopsHere == stop

AskedToRestart == marker # "none" \/ code = 75

\* decide_crash_restart.
Prior   == IF healthy THEN 0 ELSE crashes
GivesUp == Prior >= MaxCrashRestarts

StopRequested ==
    /\ launcher = "decide" /\ StopsHere
    /\ launcher' = "off"
    /\ UNCHANGED <<launches, service, stop, crashes, processVars>>

\* decide_restart: the marker, then the exit code.  Only the marker that is the
\* reason is removed, and the crash count stays as it is.
RestartAsked ==
    /\ launcher = "decide" /\ ~StopsHere /\ AskedToRestart
    /\ launcher' = "delay"
    /\ marker' \in Cleaned
    /\ UNCHANGED <<launches, service, stop, crashes, server, code, healthy, timer>>

\* CleanExit, LeaveToServiceManager and GiveUp.
StayDown ==
    /\ launcher = "decide" /\ ~StopsHere /\ ~AskedToRestart
    /\ code = 0 \/ service \/ GivesUp
    /\ launcher' = "off"
    /\ UNCHANGED <<launches, service, stop, crashes, processVars>>

RestartCrashed ==
    /\ launcher = "decide" /\ ~StopsHere /\ ~AskedToRestart
    /\ code # 0 /\ ~service /\ ~GivesUp
    /\ launcher' = "delay"
    /\ crashes' = Prior + 1
    /\ UNCHANGED <<launches, service, stop, processVars>>

\* RESTART_DELAY; the stop flag is not looked at.
DelayIsOver ==
    /\ launcher = "delay"
    /\ launcher' = "spawn"
    /\ UNCHANGED <<launches, service, stop, crashes, processVars>>

-----------------------------------------------------------------------------
(* The server process.                                                     *)

Exits(c) == server' = "dead" /\ code' = c

\* An uncaught exception, a kill from outside, the power.
Crash ==
    /\ Alive
    /\ Exits(1)
    /\ UNCHANGED <<launcherVars, healthy, marker, timer>>

StaysUp ==
    /\ server = "up" /\ ~healthy
    /\ healthy' = TRUE
    /\ UNCHANGED <<launcherVars, server, code, marker, timer>>

\* POST /api/server/shutdown, after its delay, or SIGTERM from outside.
Shutdown ==
    /\ server = "up"
    /\ server' = "leaving"
    /\ UNCHANGED <<launcherVars, code, healthy, marker, timer>>

\* The teardown, or the exit watchdog.
ShutdownDone ==
    /\ server = "leaving"
    /\ Exits(0)
    /\ UNCHANGED <<launcherVars, healthy, marker, timer>>

\* scheduleRestart; a marker that cannot be written is only logged.
Scheduled ==
    /\ timer' = TRUE
    /\ marker' \in {"new", marker}

\* POST /api/server/restart.
RequestRestart ==
    /\ server \in {"up", "leaving"} /\ ~timer
    /\ Scheduled
    /\ UNCHANGED <<launcherVars, server, code, healthy>>

TimerFires ==
    /\ timer /\ Alive
    /\ Exits(75)
    /\ timer' = FALSE
    /\ UNCHANGED <<launcherVars, healthy, marker>>

\* DependencyManager.requestRestart: marker and exit at once.
RestartNow ==
    /\ server \in {"up", "leaving"}
    /\ Exits(75)
    /\ marker' = "new"
    /\ UNCHANGED <<launcherVars, healthy, timer>>

-----------------------------------------------------------------------------
SupervisorTypeOK ==
    /\ launcher \in {"off", "spawn", "wait", "grace", "decide", "delay"}
    /\ launches \in 0..MaxLaunches
    /\ service \in BOOLEAN /\ stop \in BOOLEAN
    /\ crashes \in 0..MaxCrashRestarts
    /\ server \in {"none", "boot", "up", "leaving", "dead"}
    /\ code \in {0, 1, 75}
    /\ healthy \in BOOLEAN /\ timer \in BOOLEAN
    /\ marker \in {"none", "new", "old", "kept"}

=============================================================================
