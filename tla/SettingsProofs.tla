------------------------------ MODULE SettingsProofs ------------------------------
(***************************************************************************)
(* Proofs about Settings and the Supervisor under it, for any ports, any   *)
(* limit of restarts and any number of launches and failed writes.         *)
(*                                                                         *)
(* NothingIsLeftOver is not inductive: a server is started under the       *)
(* marker that is on disk then.  What is missing is where the launcher is  *)
(* while there is no server, and that a marker left when it is about to    *)
(* start one is one it could not remove (Attended); and that a request is  *)
(* under way only in a server that has booted, which has its configuration *)
(* in memory (RequestHasServer).                                           *)
(***************************************************************************)
EXTENDS Settings, TLAPS

Attended ==
    /\ launcher \in {"off", "spawn", "decide", "delay"} => server = "none"
    /\ launcher \in {"spawn", "delay"} => marker \in {"none", "kept"}

RequestHasServer ==
    /\ phase # "idle" => server \in {"up", "leaving"}
    /\ server \in {"up", "leaving"} => mem \in [Moving -> Ports]

SettingsInv == TypeOK /\ Attended /\ RequestHasServer /\ NothingIsLeftOver

-----------------------------------------------------------------------------
LEMMA InitInv == Init => SettingsInv
<1> SUFFICES ASSUME Init PROVE SettingsInv
  OBVIOUS
<1> USE SupervisorAssumption, SettingsAssumption DEF Init, SupervisorInit
<1>0. Nothing \in Batches
  BY DEF Batches, Choices, Nothing, Moving, Keys
<1>1. TypeOK
  <2>1. /\ disk \in [Moving -> Ports] /\ setup \in Setups
        /\ mem \in [Moving -> Ports \cup {None}] /\ served \in [Moving -> Ports \cup {None}]
    BY DEF Silent
  <2>2. launches \in 0..MaxLaunches /\ crashes \in 0..MaxCrashRestarts /\ faults \in 0..MaxFaults
    OBVIOUS
  <2>3. /\ service \in BOOLEAN /\ stop \in BOOLEAN /\ healthy \in BOOLEAN
        /\ timer \in BOOLEAN /\ unasked \in BOOLEAN /\ moved \in BOOLEAN /\ busy \subseteq Ports
    OBVIOUS
  <2> QED BY <1>0, <2>1, <2>2, <2>3 DEF TypeOK, SupervisorTypeOK
<1>2. Attended /\ RequestHasServer /\ NothingIsLeftOver
  BY DEF Attended, RequestHasServer, NothingIsLeftOver, Alive
<1> QED BY <1>1, <1>2 DEF SettingsInv

\* The launcher's own steps leave the settings alone.
LEMMA SupervisedKeepsType ==
    ASSUME TypeOK, [((Launch \/ AskStop) /\ UNCHANGED settingsVars) \/ Supervises]_vars
    PROVE  TypeOK'
<1> USE SupervisorAssumption DEF TypeOK, SupervisorTypeOK, settingsVars, launcherVars, processVars
<1>1. CASE Launch /\ UNCHANGED settingsVars
  <2>1. launches' \in 0..MaxLaunches /\ crashes' \in 0..MaxCrashRestarts
    BY <1>1 DEF Launch
  <2>2. stop' \in BOOLEAN
    BY <1>1 DEF Launch
  <2> QED BY <1>1, <2>1, <2>2 DEF Launch, Cleaned
<1>2. CASE AskStop /\ UNCHANGED settingsVars
  BY <1>2 DEF AskStop
<1>3. CASE Spawn /\ UNCHANGED settingsVars
  BY <1>3 DEF Spawn
<1>4. CASE Reap /\ UNCHANGED settingsVars
  BY <1>4 DEF Reap
<1>5. CASE (StopRequested \/ StayDown \/ DelayIsOver) /\ UNCHANGED settingsVars
  BY <1>5 DEF StopRequested, StayDown, DelayIsOver
<1>6. CASE RestartAsked /\ UNCHANGED settingsVars
  BY <1>6 DEF RestartAsked, Cleaned
<1>7. CASE RestartCrashed /\ UNCHANGED settingsVars
  <2>1. Prior \in 0..MaxCrashRestarts /\ ~(Prior >= MaxCrashRestarts)
    BY <1>7 DEF RestartCrashed, GivesUp, Prior
  <2>2. crashes' \in 0..MaxCrashRestarts
    BY <1>7, <2>1 DEF RestartCrashed
  <2> QED BY <1>7, <2>2 DEF RestartCrashed
<1>8. CASE UNCHANGED vars
  BY <1>8 DEF vars, supervisorVars
<1> QED BY <1>1, <1>2, <1>3, <1>4, <1>5, <1>6, <1>7, <1>8 DEF Supervises

LEMMA SupervisedKeepsRest ==
    ASSUME SettingsInv, [((Launch \/ AskStop) /\ UNCHANGED settingsVars) \/ Supervises]_vars
    PROVE  Attended' /\ RequestHasServer' /\ NothingIsLeftOver'
<1> USE DEF SettingsInv, TypeOK, SupervisorTypeOK, Attended, RequestHasServer, NothingIsLeftOver, Alive,
        settingsVars, launcherVars, processVars
<1>1. CASE Launch /\ UNCHANGED settingsVars
  BY <1>1 DEF Launch, Cleaned
<1>2. CASE AskStop /\ UNCHANGED settingsVars
  BY <1>2 DEF AskStop
<1>3. CASE Spawn /\ UNCHANGED settingsVars
  BY <1>3 DEF Spawn
<1>4. CASE Reap /\ UNCHANGED settingsVars
  BY <1>4 DEF Reap
<1>5. CASE (StopRequested \/ StayDown \/ DelayIsOver) /\ UNCHANGED settingsVars
  BY <1>5 DEF StopRequested, StayDown, DelayIsOver
<1>6. CASE RestartAsked /\ UNCHANGED settingsVars
  BY <1>6 DEF RestartAsked, Cleaned
<1>7. CASE RestartCrashed /\ UNCHANGED settingsVars
  BY <1>7 DEF RestartCrashed, AskedToRestart
<1>8. CASE UNCHANGED vars
  BY <1>8 DEF vars, supervisorVars
<1> QED BY <1>1, <1>2, <1>3, <1>4, <1>5, <1>6, <1>7, <1>8 DEF Supervises

\* The server process: its own ends, those it is given, and its turns.
LEMMA ProcessKeeps ==
    ASSUME SettingsInv,
           \/ Ends \/ Kills \/ Turns(StaysUp) \/ Turns(Shutdown) \/ Turns(ShutdownDone)
           \/ Turns(RequestRestart) \/ Turns(TimerFires) \/ Turns(RestartNow)
    PROVE  SettingsInv'
<1> USE DEF SettingsInv, TypeOK, SupervisorTypeOK, Attended, RequestHasServer, NothingIsLeftOver, Alive,
        settingsVars, launcherVars, processVars
<1>0. ASSUME CutShort
      PROVE  /\ setup' = setup /\ disk' = disk /\ row' = row /\ faults' = faults
             /\ mem' \in [Moving -> Ports \cup {None}] /\ served' \in [Moving -> Ports \cup {None}]
             /\ busy' \subseteq Ports /\ unasked' \in BOOLEAN /\ moved' \in BOOLEAN
             /\ batch' \in Batches /\ phase' \in {"idle", "apply", "restart"}
             /\ server' = "dead" => phase' = "idle"
             /\ server' # "dead" => mem' = mem /\ phase' = phase
  <2>1. Nothing \in Batches /\ Silent \in [Moving -> Ports \cup {None}]
    BY SettingsAssumption DEF Nothing, Batches, Choices, Keys, Moving, Silent
  <2> QED BY <1>0, <2>1 DEF CutShort, processMemory
<1> HIDE DEF settingsVars
<1>1. CASE Ends
  BY <1>0, <1>1 DEF Ends, Crash, Exits
<1>2. CASE SignalChild /\ CutShort
  <2>1. server' \in {"leaving", "dead"} /\ code' \in {0, 1, 75}
    BY <1>2 DEF SignalChild
  <2> QED BY <1>0, <1>2, <2>1 DEF SignalChild
<1>3. CASE GraceIsOver /\ CutShort
  BY <1>0, <1>3 DEF GraceIsOver
<1>4. CASE Turns(StaysUp)
  BY <1>0, <1>4 DEF Turns, StaysUp
<1>5. CASE Turns(Shutdown)
  BY <1>0, <1>5 DEF Turns, Shutdown
<1>6. CASE Turns(ShutdownDone)
  BY <1>0, <1>6 DEF Turns, ShutdownDone, Exits
<1>7. CASE Turns(RequestRestart)
  BY <1>0, <1>7 DEF Turns, RequestRestart, Scheduled
<1>8. CASE Turns(TimerFires)
  <2>1. timer' \in BOOLEAN
    BY <1>8 DEF Turns, TimerFires
  <2> QED BY <1>0, <1>8, <2>1 DEF Turns, TimerFires, Exits
<1>9. CASE Turns(RestartNow)
  BY <1>0, <1>9 DEF Turns, RestartNow, Exits
<1> QED BY <1>1, <1>2, <1>3, <1>4, <1>5, <1>6, <1>7, <1>8, <1>9
        DEF Kills

\* The listeners of a boot and the port it saves are ports.
LEMMA BootPorts ==
    ASSUME TypeOK, NEW held \in SUBSET Ports, NEW sibling \in BOOLEAN,
           NEW found \in Ports \cup {None}
    PROVE  /\ [disk EXCEPT !.web = found] = [web |-> found, https |-> disk.https]
           /\ SecurePort(held, found) \in Ports \cup {None}
           /\ found # None => [disk EXCEPT !.web = found] \in [Moving -> Ports]
  BY DEF TypeOK, Moving, SecurePort

LEMMA BootKeeps == ASSUME SettingsInv, Boot PROVE SettingsInv'
<1> USE DEF SettingsInv, launcherVars
<1>1. PICK held \in SUBSET Ports, sibling \in BOOLEAN, found \in Ports \cup {None} :
         /\ disk' = IF sibling \/ found = None THEN disk ELSE [disk EXCEPT !.web = found]
         /\ IF found = None /\ SecurePort(held, found) = None
            THEN Exits(1) /\ UNCHANGED <<mem, served, busy>>
            ELSE /\ server' = "up" /\ UNCHANGED code
                 /\ mem' = disk'
                 /\ served' = [web |-> found, https |-> SecurePort(held, found)]
                 /\ busy' = held
  BY DEF Boot
<1>2. disk' \in [Moving -> Ports]
  BY <1>1, BootPorts DEF TypeOK
<1>3. /\ mem' \in [Moving -> Ports \cup {None}] /\ served' \in [Moving -> Ports \cup {None}]
      /\ busy' \subseteq Ports /\ server' \in {"up", "dead"} /\ code' \in {0, 1, 75}
      /\ server' = "up" => mem' \in [Moving -> Ports]
  <2>1. CASE found = None /\ SecurePort(held, found) = None
    BY <1>1, <2>1 DEF Exits, TypeOK
  <2>2. CASE ~(found = None /\ SecurePort(held, found) = None)
    <3>1. [web |-> found, https |-> SecurePort(held, found)] \in [Moving -> Ports \cup {None}]
      <4>1. SecurePort(held, found) \in Ports \cup {None}
        BY BootPorts
      <4>2. {"web", "https"} = Moving
        BY DEF Moving
      <4> QED BY <4>1, <4>2
    <3>2. code' = code /\ code \in {0, 1, 75}
      BY <1>1, <2>2 DEF TypeOK, SupervisorTypeOK
    <3> QED BY <1>1, <1>2, <2>2, <3>1, <3>2
  <2> QED BY <2>1, <2>2
<1>4. row' \in {"none", "completed", "failed", "abandoned"}
  BY DEF Boot, Reconciled, TypeOK
<1>5. TypeOK'
  BY <1>2, <1>3, <1>4 DEF Boot, TypeOK, SupervisorTypeOK
<1>6. phase' = "idle"
  BY DEF Boot, RequestHasServer, TypeOK
<1>7. Attended' /\ RequestHasServer' /\ NothingIsLeftOver'
  BY <1>3, <1>4, <1>6 DEF Boot, Attended, RequestHasServer, NothingIsLeftOver, Alive
<1> QED BY <1>5, <1>7

LEMMA SaveKeeps == ASSUME SettingsInv, Save PROVE SettingsInv'
<1> USE DEF SettingsInv, Save, supervisorVars
<1>0. moved' \in BOOLEAN
  OBVIOUS
<1>1. TypeOK'
  BY <1>0 DEF TypeOK, SupervisorTypeOK
<1>2. Attended' /\ RequestHasServer' /\ NothingIsLeftOver'
  BY DEF Attended, RequestHasServer, NothingIsLeftOver, Alive
<1> QED BY <1>1, <1>2

LEMMA TakenPort ==
    ASSUME NEW k \in Keys, TypeOK, Turn(k)
    PROVE  k \in Moving => batch[k] \in Ports
BY DEF TypeOK, Turn, Batches, Choices, Moving

LEMMA ShorterBatch ==
    ASSUME NEW k \in Keys, TypeOK
    PROVE  [batch EXCEPT ![k] = None] \in Batches
BY DEF TypeOK, Batches, Choices

LEMMA WriteKeeps == ASSUME SettingsInv, NEW k \in Keys, Write(k) PROVE SettingsInv'
<1> USE DEF SettingsInv, supervisorVars
<1>0. TypeOK /\ Turn(k)
  BY DEF Write
<1>a. mem \in [Moving -> Ports]
  BY <1>0 DEF Turn, NothingIsLeftOver, RequestHasServer, Alive
<1>1. mem' \in [Moving -> Ports]
  BY <1>0, <1>a, TakenPort DEF Write
<1>2. disk' \in [Moving -> Ports]
  <2>0. "web" \in Moving /\ "https" \in Moving
    BY DEF Moving
  <2>1. CASE k = "https"
    BY <1>0, <2>0, <2>1, TakenPort DEF Write, Written, TypeOK
  <2>2. CASE k = "web"
    BY <1>0, <2>0, <2>2, TakenPort DEF Write, Written, TypeOK
  <2>3. CASE k = "other"
    <3>1. mem.web \in Ports
      BY <1>a, <2>0
    <3> QED BY <1>0, <2>0, <2>3, <3>1 DEF Write, Written, TypeOK
  <2> QED BY <2>1, <2>2, <2>3 DEF Keys
<1>3. batch' \in Batches
  BY <1>0, ShorterBatch DEF Write
<1>4. moved' \in BOOLEAN
  <2>1. (mem[k] # batch[k]) \in BOOLEAN
    OBVIOUS
  <2> QED BY <1>0, <2>1 DEF Write, TypeOK, Moves
<1>5. TypeOK'
  BY <1>1, <1>2, <1>3, <1>4 DEF Write, TypeOK, SupervisorTypeOK
<1>6. Attended' /\ RequestHasServer' /\ NothingIsLeftOver'
  BY <1>1 DEF Write, Attended, RequestHasServer, NothingIsLeftOver, Alive
<1> QED BY <1>5, <1>6

LEMMA WriteFailsKeeps == ASSUME SettingsInv, NEW k \in Keys, WriteFails(k) PROVE SettingsInv'
<1> USE DEF SettingsInv, supervisorVars
<1>0. TypeOK /\ Turn(k)
  BY DEF WriteFails
<1>a. mem \in [Moving -> Ports]
  BY <1>0 DEF Turn, NothingIsLeftOver, RequestHasServer, Alive
<1>1. mem' \in [Moving -> Ports]
  BY <1>0, <1>a, TakenPort DEF WriteFails, Moving
<1>2. Nothing \in Batches
  BY SettingsAssumption DEF Nothing, Batches, Choices, Keys, Moving
<1>3. faults' \in 0..MaxFaults
  BY SettingsAssumption DEF WriteFails, TypeOK
<1>5. moved' \in BOOLEAN /\ unasked' \in BOOLEAN
  <2>1. (mem' # mem) \in BOOLEAN
    OBVIOUS
  <2> QED BY <1>0, <2>1 DEF WriteFails, TypeOK
<1>6. TypeOK'
  BY <1>1, <1>2, <1>3, <1>5 DEF WriteFails, Refused, TypeOK, SupervisorTypeOK
<1>4. Attended' /\ RequestHasServer' /\ NothingIsLeftOver'
  BY <1>1 DEF WriteFails, Refused, Attended, RequestHasServer, NothingIsLeftOver, Alive
<1> QED BY <1>4, <1>6

LEMMA CompleteKeeps == ASSUME SettingsInv, Complete PROVE SettingsInv'
<1> USE DEF SettingsInv, Complete, supervisorVars
<1>1. TypeOK'
  BY DEF TypeOK, SupervisorTypeOK
<1>2. Attended' /\ RequestHasServer' /\ NothingIsLeftOver'
  BY DEF Attended, RequestHasServer, NothingIsLeftOver, Alive
<1> QED BY <1>1, <1>2

LEMMA MarkFailsKeeps == ASSUME SettingsInv, MarkFails PROVE SettingsInv'
<1> USE DEF SettingsInv, MarkFails, supervisorVars
<1>1. faults' \in 0..MaxFaults
  BY SettingsAssumption DEF TypeOK
<1>2. moved' \in BOOLEAN /\ unasked' \in BOOLEAN
  BY DEF TypeOK
<1>3. TypeOK'
  BY <1>1, <1>2 DEF TypeOK, SupervisorTypeOK
<1>4. Attended' /\ RequestHasServer' /\ NothingIsLeftOver'
  BY DEF Attended, RequestHasServer, NothingIsLeftOver, Alive
<1> QED BY <1>3, <1>4

LEMMA ScheduleKeeps == ASSUME SettingsInv, ScheduleRestart PROVE SettingsInv'
<1> USE DEF SettingsInv, ScheduleRestart, Scheduled, launcherVars
<1>0. timer' \in BOOLEAN /\ moved' \in BOOLEAN
  OBVIOUS
<1>1. TypeOK'
  BY <1>0 DEF TypeOK, SupervisorTypeOK
<1>2. Attended' /\ RequestHasServer' /\ NothingIsLeftOver'
  BY DEF TypeOK, SupervisorTypeOK, Attended, RequestHasServer, NothingIsLeftOver, Alive
<1> QED BY <1>1, <1>2

LEMMA StepKeeps == ASSUME SettingsInv, [Next]_vars PROVE SettingsInv'
<1>1. CASE [((Launch \/ AskStop) /\ UNCHANGED settingsVars) \/ Supervises]_vars
  BY <1>1, SupervisedKeepsType, SupervisedKeepsRest DEF SettingsInv
<1>2. CASE \/ Ends \/ Kills \/ Turns(StaysUp) \/ Turns(Shutdown) \/ Turns(ShutdownDone)
           \/ Turns(RequestRestart) \/ Turns(TimerFires) \/ Turns(RestartNow)
  BY <1>2, ProcessKeeps
<1>3. CASE Boot \/ Save \/ Complete \/ MarkFails \/ ScheduleRestart
  BY <1>3, BootKeeps, SaveKeeps, CompleteKeeps, MarkFailsKeeps, ScheduleKeeps
<1>4. CASE \E k \in Keys : Write(k) \/ WriteFails(k)
  BY <1>4, WriteKeeps, WriteFailsKeeps
<1> QED BY <1>1, <1>2, <1>3, <1>4 DEF Next

-----------------------------------------------------------------------------
\* The inductive invariant (Config.ts, SettingsBatchApi.ts, supervisor.rs).
THEOREM SettingsInvariant == Spec => []SettingsInv
<1>1. Init => SettingsInv
  BY InitInv
<1>2. SettingsInv /\ [Next]_vars => SettingsInv'
  BY StepKeeps
<1> QED BY <1>1, <1>2, PTL DEF Spec

\* Every variable keeps its type; crash_restarts never exceeds its limit.
THEOREM TypeCorrect == Spec => []TypeOK
<1>1. SettingsInv => TypeOK
  BY DEF SettingsInv
<1> QED BY <1>1, SettingsInvariant, PTL

\* No server runs under the marker or the pending row of an earlier process, but
\* for a marker that could not be removed or a row that could not be marked
\* (supervisor.rs cleanup_stale_marker, reconcilePendingSettings).
THEOREM NothingIsLeftOverHolds == Spec => []NothingIsLeftOver
<1>1. SettingsInv => NothingIsLeftOver
  BY DEF SettingsInv
<1> QED BY <1>1, SettingsInvariant, PTL

LEMMA MarkIsTrue ==
    ASSUME SettingsInv, [Next]_vars
    PROVE  /\ row # "completed" /\ row' = "completed" => batch = Nothing
           /\ row' = "abandoned" /\ row # "abandoned" =>
                disk' \in {disk, [disk EXCEPT !.web = disk'.web]}
<1>1. CASE Boot
  <2>1. PICK sibling \in BOOLEAN, found \in Ports \cup {None} :
           disk' = IF sibling \/ found = None THEN disk ELSE [disk EXCEPT !.web = found]
    BY <1>1 DEF Boot
  <2>2. disk' = disk \/ disk' = [disk EXCEPT !.web = found]
    BY <2>1
  <2>3. disk' = [disk EXCEPT !.web = found] => disk'.web = found
    BY DEF SettingsInv, TypeOK, Moving
  <2>4. row' # "completed" \/ row = "completed"
    BY <1>1 DEF Boot, Reconciled
  <2> QED BY <2>2, <2>3, <2>4
<1>2. CASE Complete
  BY <1>2 DEF Complete
<1>3. CASE MarkFails \/ \E k \in Keys : WriteFails(k)
  BY <1>3 DEF MarkFails, WriteFails, Refused
<1>4. CASE Save
  BY <1>4 DEF Save
<1>5. ASSUME ~Boot, ~Complete, ~MarkFails, ~Save, ~\E k \in Keys : WriteFails(k)
      PROVE  row' = row
  <2>1. CASE ((Launch \/ AskStop) /\ UNCHANGED settingsVars) \/ Supervises \/ Ends \/ Kills
    BY <2>1 DEF Supervises, Ends, Kills, CutShort, settingsVars
  <2>2. CASE \/ Turns(StaysUp) \/ Turns(Shutdown) \/ Turns(ShutdownDone)
             \/ Turns(RequestRestart) \/ Turns(TimerFires) \/ Turns(RestartNow)
    BY <2>2 DEF Turns, CutShort
  <2>3. CASE ScheduleRestart \/ \E k \in Keys : Write(k)
    BY <2>3 DEF ScheduleRestart, Write
  <2>4. CASE UNCHANGED vars
    BY <2>4 DEF vars, settingsVars
  <2> QED BY <1>5, <2>1, <2>2, <2>3, <2>4 DEF Next
<1> QED BY <1>1, <1>2, <1>3, <1>4, <1>5

\* What the log says of a batch is true (PendingSettingsStore's marks).
THEOREM AuditIsTrueHolds == Spec => AuditIsTrue
<1>1. SettingsInv /\ [Next]_vars =>
        [/\ row # "completed" /\ row' = "completed" => batch = Nothing
         /\ row' = "abandoned" /\ row # "abandoned" =>
              disk' \in {disk, [disk EXCEPT !.web = disk'.web]}]_vars
  BY MarkIsTrue
<1> QED BY <1>1, SettingsInvariant, PTL DEF Spec, AuditIsTrue

=============================================================================
