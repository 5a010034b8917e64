--------------------------------- MODULE Settings ---------------------------------
(***************************************************************************)
(* A batch of settings (src/server/api/SettingsBatchApi.ts) on its way to  *)
(* the disk and, through a restart, to the listeners: the write-ahead log  *)
(* of batches (PendingSettingsStore), the configuration on disk and in     *)
(* memory (Config.ts), and what the next boot makes of both                *)
(* (reconcilePendingSettings, reconcileWebPort).                           *)
(*                                                                         *)
(* Applying a batch is synchronous code, so the process answers nothing    *)
(* else meanwhile; but it may be killed between any two of its writes, and *)
(* any write may fail.  The values are validated before the log entry is   *)
(* made, so only the disk can refuse one.  "other" stands for the settings *)
(* kept in the database: written there, and config.json after it; their    *)
(* values are left out.                                                    *)
(***************************************************************************)
EXTENDS Supervisor

CONSTANTS
    Ports,        \* the ports a user may choose
    None,         \* a setting that a batch leaves alone; no listener
    Setups,       \* the kinds of installation
    MaxFaults     \* bound: writes that fail

ASSUME SettingsAssumption ==
    /\ None \notin Ports
    /\ Setups \subseteq [service : BOOLEAN, cert : BOOLEAN, exact : BOOLEAN]
    /\ MaxFaults \in Nat

\* orderChanges: the others, httpsPort, webPort last.
Keys  == {"other", "https", "web"}
Later == [k \in Keys |-> CASE k = "other" -> {"https", "web"} [] k = "https" -> {"web"} [] k = "web" -> {}]

VARIABLES
    setup,     \* service: run as one; cert: Local HTTPS has a certificate; exact: the
               \* web port is not left for another, as on the Linux system service
    disk,      \* the settings in config.json and the database
    mem,       \* Config's copy of them in the process
    served,    \* the ports its listeners have, None for no listener
    busy,      \* the ports that others held when it booted
    unasked,   \* it has saved a port, or left one in memory, without a restart
    row,       \* the last row of the log: "unmarked" when its last mark was refused
    batch,     \* the row's changes that are still to be made
    phase,     \* of the request: "idle", "apply", "restart"
    moved,     \* a port moved: httpsPortMovedTo, result.restartRequired
    faults     \* number of failed writes

processMemory == <<mem, served, busy, unasked, batch, phase, moved>>
settingsVars == <<setup, disk, mem, served, busy, unasked, row, batch, phase, moved, faults>>
vars == <<supervisorVars, settingsVars>>

Moving  == {"https", "web"}
Choices == [k \in Keys |-> {None} \cup IF k \in Moving THEN Ports ELSE {"new"}]
Nothing == [k \in Keys |-> None]
Silent  == [k \in Moving |-> None]
Batches == {b \in [Keys -> {None, "new"} \cup Ports] : \A k \in Keys : b[k] \in Choices[k]}

Init ==
    /\ SupervisorInit
    /\ setup \in Setups /\ setup.service = service
    /\ disk \in [Moving -> Ports]
    /\ mem = Silent /\ served = Silent /\ busy = {} /\ unasked = FALSE
    /\ row = "none" /\ batch = Nothing
    /\ phase = "idle" /\ moved = FALSE /\ faults = 0

-----------------------------------------------------------------------------
(* Seeded faults.                                                          *)

\* The rows of the process before are left as they are.
ReconciledNever == row

\* A refused write is logged, and the batch goes on to its mark.
RefusedIsDone == {"completed"}

\* Only the web port asks for a restart.
MovesWeb(k) == k = "web" /\ mem[k] # batch[k]

-----------------------------------------------------------------------------
(* Boot.                                                                   *)

\* reconcilePendingSettings: never applied, only marked.
Reconciled == IF row \in {"pending", "unmarked"} THEN "abandoned" ELSE row

\* reconcileWebPort: the configured port when it is free; else another one that is,
\* unless the port is exact or no free one is found.  A sibling instance may hold it.
Finds(held, sibling, found) ==
    /\ sibling => ~service /\ disk.web \in held
    /\ found \in (IF disk.web \notin held THEN {disk.web}
                  ELSE {None} \cup IF setup.exact THEN {} ELSE Ports \ held)

\* buildServers and bindFirstListener: the HTTPS listener is left out when there is
\* no certificate or the web port has its port, and does without a busy one.
SecurePort(held, found) ==
    IF setup.cert /\ disk.https \notin held \cup {disk.web, found} THEN disk.https ELSE None

\* The log is settled, and the listeners are built from the configured ports.  A
\* web port that was found instead is saved, unless a sibling has the configured
\* one.  A process that none can reach exits (exitIfNothingCanServe).
Boot ==
    /\ server = "boot"
    /\ row' = Reconciled
    /\ \E held \in SUBSET Ports, sibling \in BOOLEAN, found \in Ports \cup {None} :
         /\ Finds(held, sibling, found)
         /\ disk' = IF sibling \/ found = None THEN disk ELSE [disk EXCEPT !.web = found]
         /\ IF found = None /\ SecurePort(held, found) = None
            THEN Exits(1) /\ UNCHANGED <<mem, served, busy>>
            ELSE /\ server' = "up" /\ UNCHANGED code
                 /\ mem' = disk'
                 /\ served' = [web |-> found, https |-> SecurePort(held, found)]
                 /\ busy' = held
    /\ UNCHANGED <<launcherVars, healthy, marker, timer, setup, unasked, batch, phase, moved, faults>>

-----------------------------------------------------------------------------
(* POST /api/settings/batch, after its validations.                        *)

\* portCollisionRefusal.
Collides(b) ==
    LET Target(k) == IF b[k] = None THEN mem[k] ELSE b[k]
    IN  setup.cert /\ (\E k \in Moving : b[k] # None) /\ Target("web") = Target("https")

Save ==
    /\ server \in {"up", "leaving"} /\ phase = "idle"
    /\ batch' \in Batches \ {Nothing} /\ ~Collides(batch')
    /\ row' = "pending"
    /\ phase' = "apply" /\ moved' = FALSE
    /\ UNCHANGED <<supervisorVars, setup, disk, mem, served, busy, unasked, faults>>

\* The next change of the batch in the order of orderChanges.
Turn(k) ==
    /\ Alive /\ phase = "apply"
    /\ batch[k] # None
    /\ \A j \in Keys : batch[j] # None => j = k \/ j \in Later[k]

\* setHttpsPort and updateAppConfig compare with the value in memory.
Moves(k) == k \in Moving /\ mem[k] # batch[k]

\* saveToDisk writes the web port that is in memory, whatever was changed;
\* setHttpsPort leaves the rest of the file alone.
Written(k) ==
    CASE k = "https" -> [disk EXCEPT !.https = batch.https]
      [] k = "web"   -> [disk EXCEPT !.web = batch.web]
      [] k = "other" -> [disk EXCEPT !.web = mem.web]

Write(k) ==
    /\ Turn(k)
    /\ disk' = Written(k)
    /\ mem' = IF k \in Moving THEN [mem EXCEPT ![k] = batch[k]] ELSE mem
    /\ batch' = [batch EXCEPT ![k] = None]
    /\ moved' = (moved \/ Moves(k))
    /\ UNCHANGED <<supervisorVars, setup, served, busy, unasked, row, phase, faults>>

\* markFailed, which the disk may refuse as well: the row is left as it is.
Refused == {"failed", "unmarked"}

\* failBatch.  A write fails: that of the web port after memory has it, that of
\* the https port before.  No restart is asked for, whatever was written before.
WriteFails(k) ==
    /\ Turn(k)
    /\ faults < MaxFaults /\ faults' = faults + 1
    /\ mem' = IF k = "web" THEN [mem EXCEPT !.web = batch.web] ELSE mem
    /\ unasked' = (unasked \/ moved \/ mem' # mem)
    /\ row' \in Refused
    /\ batch' = Nothing
    /\ phase' = "idle" /\ moved' = FALSE
    /\ UNCHANGED <<supervisorVars, setup, disk, served, busy>>

\* markCompleted comes before the restart that ends the process.
Complete ==
    /\ Alive /\ phase = "apply" /\ batch = Nothing
    /\ row' = "completed"
    /\ phase' = IF moved THEN "restart" ELSE "idle"
    /\ UNCHANGED <<supervisorVars, setup, disk, mem, served, busy, unasked, batch, moved, faults>>

\* markCompleted throws: the batch is written, its row is not marked, and no
\* restart is asked for.
MarkFails ==
    /\ Alive /\ phase = "apply" /\ batch = Nothing
    /\ faults < MaxFaults /\ faults' = faults + 1
    /\ row' = "unmarked"
    /\ unasked' = (unasked \/ moved)
    /\ phase' = "idle" /\ moved' = FALSE
    /\ UNCHANGED <<supervisorVars, setup, disk, mem, served, busy, batch>>

ScheduleRestart ==
    /\ Alive /\ phase = "restart"
    /\ Scheduled
    /\ phase' = "idle" /\ moved' = FALSE
    /\ UNCHANGED <<launcherVars, server, code, healthy,
                   setup, disk, mem, served, busy, unasked, row, batch, faults>>

-----------------------------------------------------------------------------
\* A process that ends takes its memory, its listeners and the rest of a batch
\* along; the row of the log stays.
CutShort ==
    /\ IF server' = "dead"
       THEN /\ mem' = Silent /\ served' = Silent /\ busy' = {} /\ unasked' = FALSE
            /\ phase' = "idle" /\ moved' = FALSE /\ batch' = Nothing
       ELSE UNCHANGED processMemory
    /\ UNCHANGED <<setup, disk, row, faults>>

Ends == Crash /\ CutShort

Kills == (SignalChild \/ GraceIsOver) /\ CutShort

\* What the launcher does by itself, apart from the kill.
Supervises ==
    /\ Spawn \/ Reap \/ StopRequested \/ RestartAsked \/ StayDown \/ RestartCrashed \/ DelayIsOver
    /\ UNCHANGED settingsVars

\* Between two turns of the event loop.
Turns(A) == phase = "idle" /\ A /\ CutShort

Next ==
    \/ (Launch \/ AskStop) /\ UNCHANGED settingsVars
    \/ Supervises \/ Ends \/ Kills
    \/ Turns(StaysUp) \/ Turns(Shutdown) \/ Turns(ShutdownDone)
    \/ Turns(RequestRestart) \/ Turns(TimerFires) \/ Turns(RestartNow)
    \/ Boot \/ Save \/ Complete \/ MarkFails \/ ScheduleRestart
    \/ \E k \in Keys : Write(k) \/ WriteFails(k)

Spec == Init /\ [][Next]_vars

\* The launcher polls, its timers and those of the server fire, and synchronous
\* code goes on to its end; a timer that is due gets its turn between two requests
\* (strong: each request takes the turn away).  Nothing is assumed of the user, of
\* the launcher being started, or of writes failing.
Fairness ==
    /\ WF_vars(Supervises) /\ WF_vars(Kills)
    /\ WF_vars(Boot)
    /\ WF_vars(Complete \/ MarkFails \/ ScheduleRestart \/ \E k \in Keys : Write(k) \/ WriteFails(k))
    /\ SF_vars(Turns(TimerFires)) /\ SF_vars(Turns(ShutdownDone))

FairSpec == Spec /\ Fairness

-----------------------------------------------------------------------------
(* Properties.                                                             *)

TypeOK ==
    /\ SupervisorTypeOK
    /\ setup \in Setups
    /\ disk \in [Moving -> Ports]
    /\ mem \in [Moving -> Ports \cup {None}] /\ served \in [Moving -> Ports \cup {None}]
    /\ busy \subseteq Ports
    /\ unasked \in BOOLEAN /\ moved \in BOOLEAN
    /\ row \in {"none", "pending", "completed", "failed", "unmarked", "abandoned"}
    /\ batch \in Batches
    /\ phase \in {"idle", "apply", "restart"}
    /\ faults \in 0..MaxFaults

\* Nothing outlives the process it belonged to: no server runs under the restart
\* marker of an earlier one (the launcher removes it when it starts and when it
\* follows it), and a row of the log is pending only while its own process
\* applies it (reconcilePendingSettings, before any request is answered).
\* Excepted are a marker that could not be removed ("kept") and a row whose last
\* mark was refused ("unmarked"), which stays until the next boot.
NothingIsLeftOver ==
    /\ Alive => marker # "old"
    /\ server \in {"up", "leaving"} => (row = "pending" <=> phase = "apply")

\* What the log says of a batch is true: one that is marked completed has nothing
\* left to write, and one that is marked abandoned is not applied behind the user's
\* back: no setting but the port of a busy listener changes with the mark.
AuditIsTrue ==
    [][/\ row # "completed" /\ row' = "completed" => batch = Nothing
       /\ row' = "abandoned" /\ row # "abandoned" =>
            disk' \in {disk, [disk EXCEPT !.web = disk'.web]}]_vars

\* A port that was saved is served in the end, whatever crashes and restarts come
\* in between.  Excepted are a port that others hold, a failed write or mark after
\* which no restart was asked for, HTTPS without a certificate or on the web
\* port, and a launcher that stays down or starts again and again for a marker it
\* cannot remove.
SavedPortIsServed ==
    \A k \in Moving :
        disk[k] # served[k]
            ~> \/ disk[k] = served[k]
               \/ disk[k] \in busy \/ unasked
               \/ k = "https" /\ (~setup.cert \/ disk.https \in {disk.web, served.web})
               \/ launcher = "off" \/ marker = "kept"

\* A stop is obeyed, whatever restart was asked for in the same moment: launcher
\* and server end (supervisor.rs looks at the flag before marker and exit code).
StopIsHonoured ==
    stop ~> launcher = "off" /\ server = "none"

\* A server that crashes again and again was up for a minute in between, or was
\* asked to restart: otherwise the launcher gives up (CRASH_GIVE_UP_LINE).  A marker
\* that it cannot remove asks for a restart each time.
CrashLoopEnds ==
    []<>(server = "dead" /\ code = 1) => []<>(healthy \/ timer \/ code = 75 \/ marker = "kept")
=============================================================================
