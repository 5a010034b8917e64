------------------------------- MODULE AdbDaemon -------------------------------
(***************************************************************************)
(* The one adb daemon of the server (src/server/AdbDaemonManager.ts): the  *)
(* adb clients that wait for it and then run a command (AdbClient.exec),   *)
(* the single-flight spawn of `adb start-server` they share, and the       *)
(* `adb kill-server` of the two deliberate stops, the apply of an update,  *)
(* after which the process may go on, and the exit of the process.         *)
(***************************************************************************)
EXTENDS Naturals, FiniteSets

CONSTANTS
    Clients,    \* the places of the server that run adb commands
    Spawns,     \* runs of spawnLifecycle; one that has settled is used again
    NoSpawn,    \* inflight = null
    Killers     \* the stops that may happen, out of "apply", "exit"

ASSUME DaemonAssumption ==
    /\ NoSpawn \notin Spawns
    /\ Killers \subseteq {"apply", "exit"}

VARIABLES
    state,      \* AdbDaemonManager.state
    inflight,   \* AdbDaemonManager.inflight
    spawn,      \* per spawnLifecycle: the await it is at, or "idle"
    call,       \* per client: "idle", "waiting" for the daemon, or in "exec"
    waitsFor,   \* the spawn a waiting client awaits
    kill,       \* per stop: its kill-server is "idle", "running" or "done"
    daemon,     \* the daemon itself: "down" or "up" (external)
    process     \* the server's process: "up" or "exited"

vars == <<state, inflight, spawn, call, waitsFor, kill, daemon, process>>

Running == {i \in Spawns : spawn[i] # "idle"}

Init ==
    /\ state = "idle"
    /\ inflight = NoSpawn
    /\ spawn = [i \in Spawns |-> "idle"]
    /\ call = [c \in Clients |-> "idle"]
    /\ waitsFor = [c \in Clients |-> NoSpawn]
    /\ kill = [k \in {"apply", "exit"} |-> "idle"]
    /\ daemon = "down"
    /\ process = "up"

-----------------------------------------------------------------------------
(* Seeded faults: each is a slip the code could have made.                 *)

\* The settled spawn does not look whether it was killed meanwhile.
SettledUnchecked(result) == result

\* The promise of a failed spawn is kept for the callers to come.
ClearedOnSuccess(result) == IF result = "idle" THEN inflight ELSE NoSpawn

\* Every caller spawns.
MustSpawnAlways == TRUE

\* A start-server without a deadline.
StartServerNeverFails(i) == FALSE

-----------------------------------------------------------------------------
(* ensureReady and AdbClient.exec.                                         *)

\* The daemon is believed to be up: the command goes ahead.
CallReady(c) ==
    /\ process = "up" /\ call[c] = "idle" /\ state = "ready"
    /\ call' = [call EXCEPT ![c] = "exec"]
    /\ UNCHANGED <<state, inflight, spawn, waitsFor, kill, daemon, process>>

Waits(c, i) ==
    /\ call' = [call EXCEPT ![c] = "waiting"]
    /\ waitsFor' = [waitsFor EXCEPT ![c] = i]

\* Nothing is in flight.
MustSpawn == inflight = NoSpawn

\* The first caller starts spawnLifecycle, whose first step is synchronous.
CallSpawns(c) ==
    /\ process = "up" /\ call[c] = "idle" /\ state # "ready"
    /\ MustSpawn
    /\ \E i \in Spawns :
         /\ spawn[i] = "idle"
         /\ spawn' = [spawn EXCEPT ![i] = "binary"]
         /\ inflight' = i
         /\ Waits(c, i)
    /\ state' = "starting"
    /\ UNCHANGED <<kill, daemon, process>>

\* Later ones await the same promise.
CallJoins(c) ==
    /\ process = "up" /\ call[c] = "idle" /\ state # "ready"
    /\ inflight # NoSpawn
    /\ Waits(c, inflight)
    /\ UNCHANGED <<state, inflight, spawn, kill, daemon, process>>

\* ensureReady({ waitMs }): this caller gives up, the spawn goes on.
WaitTimesOut(c) ==
    /\ process = "up" /\ call[c] = "waiting"
    /\ call' = [call EXCEPT ![c] = "idle"]
    /\ waitsFor' = [waitsFor EXCEPT ![c] = NoSpawn]
    /\ UNCHANGED <<state, inflight, spawn, kill, daemon, process>>

\* The adb process of the command runs, also after the exit of the server.  Any
\* adb client starts the daemon when there is none (external).
CommandRuns(c) ==
    /\ call[c] = "exec"
    /\ call' = [call EXCEPT ![c] = "idle"]
    /\ daemon' = "up"
    /\ UNCHANGED <<state, inflight, spawn, waitsFor, kill, process>>

-----------------------------------------------------------------------------
(* spawnLifecycle.                                                         *)

\* kill() during the spawn stands.
Settled(result) == IF state = "starting" THEN result ELSE state

Cleared(result) == NoSpawn

\* The promise settles, and with it every caller that awaits it.
Settles(i, result, next) ==
    /\ spawn' = [spawn EXCEPT ![i] = "idle"]
    /\ state' = Settled(result)
    /\ inflight' = Cleared(result)
    /\ call' = [c \in Clients |-> IF waitsFor[c] = i THEN next ELSE call[c]]
    /\ waitsFor' = [c \in Clients |-> IF waitsFor[c] = i THEN NoSpawn ELSE waitsFor[c]]

BinaryFound(i) ==
    /\ process = "up" /\ spawn[i] = "binary"
    /\ spawn' = [spawn EXCEPT ![i] = "start-server"]
    /\ UNCHANGED <<state, inflight, call, waitsFor, kill, daemon, process>>

BinaryTimesOut(i) ==
    /\ process = "up" /\ spawn[i] = "binary"
    /\ Settles(i, "idle", "idle")
    /\ UNCHANGED <<kill, daemon, process>>

\* `adb start-server` forks the daemon, in its own time.
DaemonForks(i) ==
    /\ spawn[i] = "start-server"
    /\ spawn' = [spawn EXCEPT ![i] = "forked"]
    /\ daemon' = "up"
    /\ UNCHANGED <<state, inflight, call, waitsFor, kill, process>>

\* The 'exit' event with code 0.
StartServerExits(i) ==
    /\ process = "up" /\ spawn[i] = "forked"
    /\ Settles(i, "ready", "exec")
    /\ UNCHANGED <<kill, daemon, process>>

\* A failure of adb, or the deadline of 30 s.
StartServerFails(i) ==
    /\ process = "up" /\ spawn[i] \in {"start-server", "forked"}
    /\ Settles(i, "idle", "idle")
    /\ UNCHANGED <<kill, daemon, process>>

-----------------------------------------------------------------------------
(* kill, and the exit of the process.                                      *)

Kill(k) ==
    /\ k \in Killers
    /\ process = "up" /\ kill[k] = "idle"
    /\ \/ /\ state \in {"idle", "killed"}
          /\ kill' = [kill EXCEPT ![k] = "done"]
          /\ UNCHANGED <<state, inflight>>
       \/ /\ state \in {"starting", "ready"}
          /\ state' = "killed"
          /\ inflight' = NoSpawn
          /\ kill' = [kill EXCEPT ![k] = "running"]
    /\ UNCHANGED <<spawn, call, waitsFor, daemon, process>>

KillServerRuns(k) ==
    /\ kill[k] = "running"
    /\ kill' = [kill EXCEPT ![k] = "done"]
    /\ daemon' = "down"
    /\ UNCHANGED <<state, inflight, spawn, call, waitsFor, process>>

\* The process exits once its kill-server is done.
Exit ==
    /\ process = "up" /\ kill["exit"] = "done"
    /\ process' = "exited"
    /\ UNCHANGED <<state, inflight, spawn, call, waitsFor, kill, daemon>>

Call(c) ==
    \/ CallReady(c) \/ CallSpawns(c) \/ CallJoins(c)
    \/ WaitTimesOut(c) \/ CommandRuns(c)

Lifecycle(i) ==
    \/ BinaryFound(i) \/ BinaryTimesOut(i)
    \/ DaemonForks(i) \/ StartServerExits(i) \/ StartServerFails(i)

Next ==
    \/ \E c \in Clients : Call(c)
    \/ \E i \in Spawns : Lifecycle(i)
    \/ \E k \in Killers : Kill(k) \/ KillServerRuns(k)
    \/ Exit

Spec == Init /\ [][Next]_vars

\* The wait for the binary ends after 5 minutes, start-server after 30 s.
Fairness ==
    \A i \in Spawns :
      /\ WF_vars(BinaryFound(i) \/ BinaryTimesOut(i))
      /\ WF_vars(StartServerExits(i) \/ StartServerFails(i))

FairSpec == Spec /\ Fairness

-----------------------------------------------------------------------------
(* Properties.                                                             *)

TypeOK ==
    /\ state \in {"idle", "starting", "ready", "killed"}
    /\ inflight \in Spawns \cup {NoSpawn}
    /\ spawn \in [Spawns -> {"idle", "binary", "start-server", "forked"}]
    /\ call \in [Clients -> {"idle", "waiting", "exec"}]
    /\ waitsFor \in [Clients -> Spawns \cup {NoSpawn}]
    /\ kill \in [{"apply", "exit"} -> {"idle", "running", "done"}]
    /\ daemon \in {"down", "up"}
    /\ process \in {"up", "exited"}

\* However kills and spawns overlap, nobody waits for a spawn that is over: the
\* state is "starting" only while a spawn runs, the promise kept for the next
\* caller is that of a running spawn, and so is the one a caller awaits.
NobodyWaitsForNothing ==
    /\ state = "starting" => Running # {}
    /\ inflight # NoSpawn => inflight \in Running
    /\ \A c \in Clients : call[c] = "waiting" => waitsFor[c] \in Running

\* A daemon that was killed stays killed until a client asks for it again: the
\* spawn that was in flight does not overwrite "killed" (the comment on kill()).
KilledUntilAsked ==
    [][state = "killed" /\ state' # "killed" =>
         state' = "starting" /\ \E c \in Clients : call[c] = "idle" /\ call'[c] = "waiting"]_vars

\* Every caller is answered, by the daemon or by an error.
CallersAreServed ==
    \A c \in Clients : call[c] = "waiting" ~> call[c] # "waiting" \/ process = "exited"

\* As long as nothing was killed, concurrent callers share one spawn (the comment
\* on the class; a kill forgets the spawn in flight, and a second one may start).
SingleFlight ==
    (\A k \in Killers : kill[k] = "idle") => Cardinality(Running) <= 1

=============================================================================
