--------------------------------- MODULE Pairing ---------------------------------
(***************************************************************************)
(* Wireless pairing: one attempt is current at a time, its QR code is      *)
(* looked for by a poll loop over adb's mDNS list, and a newer attempt or  *)
(* a cancel makes the former one inert while its adb calls still run       *)
(* (src/server/pairing/PairingService.ts and PairingSession.ts, with the   *)
(* status route of PairingApi.ts and the page that polls it).              *)
(*                                                                         *)
(* An action runs up to the next await.  The clock is read at each check   *)
(* of the deadline, so that the deadline may pass between any two checks.  *)
(***************************************************************************)
EXTENDS Naturals

CONSTANTS
    Ids,   \* the pairing attempts that are ever started
    None   \* no attempt

ASSUME PairingAssumption == None \notin Ids

VARIABLES
    current,     \* this.session, or None
    state,       \* the stored state of an attempt, "new" before it is made
    late,        \* "yes" once now() has reached expiresAt; "unseen" when no tick looks again
    secret,      \* "kept" until clearSecret
    task,        \* what the continuation of an attempt awaits, "none" for none
    timer,       \* this.timer: "live", or "spent" when fired, cleared or never set
    orphans,     \* live timers that this.timer no longer names
    superseded,  \* the one status kept of a replaced attempt
    client       \* the page of an attempt: polling, or what it was told last

vars == <<current, state, late, secret, task, timer, orphans, superseded, client>>

Terminal == {"paired", "paired-not-connected", "failed", "expired"}
States == {"new", "awaiting-scan", "pairing", "connecting"} \cup (Terminal \ {"expired"})

\* isTerminalPairingState: the page stops polling on these.
Final == Terminal

TypeOK ==
    /\ current \in Ids \cup {None}
    /\ state \in [Ids -> States]
    /\ late \in [Ids -> {"no", "yes", "unseen"}]
    /\ secret \in [Ids -> {"none", "kept", "blank"}]
    /\ task \in [Ids -> {"none", "mdns", "rearm", "pair", "find", "connect"}]
    /\ timer \in {"live", "spent"}
    /\ orphans \in Nat
    /\ superseded \in [id : Ids \cup {None}, status : States \cup {"expired"}]
    /\ client \in [Ids -> {"away", "polling", "left", "unknown"} \cup Final]

Init ==
    /\ current = None
    /\ state = [i \in Ids |-> "new"]
    /\ late = [i \in Ids |-> "no"]
    /\ secret = [i \in Ids |-> "none"]
    /\ task = [i \in Ids |-> "none"]
    /\ timer = "spent"
    /\ orphans = 0
    /\ superseded = [id |-> None, status |-> "new"]
    /\ client = [i \in Ids |-> "away"]

-----------------------------------------------------------------------------
(* Seeded faults: each is a slip the code could have made.                 *)

\* A transition does not look whether the attempt is over.
MarkedAnyway(i, s) == [state EXCEPT ![i] = s]

\* The timer of an expired attempt goes, its secret stays.
ExpiresOnlyTimer(i) == timer' = "spent" /\ UNCHANGED secret

\* The tick of a replaced attempt re-arms for its successor.
MayRearmAlways(i) == TRUE

\* The deadline is not looked at again after the mDNS call.
TooLateUnchecked(i) == FALSE

\* An attempt that could not pair is left as it is.
PairFailsQuietly(i) ==
    /\ task[i] = "pair"
    /\ task' = [task EXCEPT ![i] = "rearm"]
    /\ UNCHANGED <<current, state, late, secret, timer, orphans, superseded, client>>

-----------------------------------------------------------------------------
(* PairingSession.                                                         *)

Expired(i) == state[i] = "awaiting-scan" /\ late[i] # "no"

\* toStatus.
StatusOf(i) == IF Expired(i) THEN "expired" ELSE state[i]

\* The state after a transition, which does nothing once the attempt is over.
Marked(i, s) == IF state[i] \in Terminal THEN state ELSE [state EXCEPT ![i] = s]

-----------------------------------------------------------------------------
(* PairingService: helpers.                                                *)

Blanked(i) == [secret EXCEPT ![i] = "blank"]

\* Terminate: the transition, then the secret goes.
Terminate(i, s) ==
    /\ state' = Marked(i, s)
    /\ secret' = Blanked(i)

\* expire: the attempt stays and answers "expired", its timer and secret go.
Expire(i) ==
    /\ timer' = "spent"
    /\ secret' = Blanked(i)

\* schedule: this.timer names the new timer, whatever it named before.
Schedule(i) ==
    IF current \in Ids /\ state[current] = "awaiting-scan" /\ ~Expired(current)
    THEN /\ timer' = "live"
         /\ orphans' = orphans + (IF timer = "live" THEN 1 ELSE 0)
    ELSE UNCHANGED <<timer, orphans>>

\* replace: the outgoing attempt is ended, its status kept, its timer cleared;
\* the new one is current and, when it awaits a scan, has a timer.
Replace(i, first) ==
    /\ state' = IF current = None THEN [state EXCEPT ![i] = first]
                                  ELSE [Marked(current, "failed") EXCEPT ![i] = first]
    /\ secret' = IF current = None THEN [secret EXCEPT ![i] = "kept"]
                                   ELSE [Blanked(current) EXCEPT ![i] = "kept"]
    /\ superseded' = IF current = None THEN superseded
                     ELSE [id |-> current, status |-> state'[current]]
    /\ current' = i
    /\ timer' = IF first = "awaiting-scan" THEN "live" ELSE "spent"
    /\ client' = [client EXCEPT ![i] = "polling"]
    /\ UNCHANGED <<late, orphans>>

\* The continuation of attempt i ends; a tick's finally runs next.
TickOver(i) == task' = [task EXCEPT ![i] = "rearm"]

-----------------------------------------------------------------------------
(* Requests.                                                               *)

StartQr(i) ==
    /\ state[i] = "new"
    /\ Replace(i, "awaiting-scan")
    /\ UNCHANGED task

StartCode(i) ==
    /\ state[i] = "new"
    /\ Replace(i, "pairing")
    /\ task' = [task EXCEPT ![i] = "pair"]

\* The page stops polling as it asks; cancel answers a late request too.
Cancel(i) ==
    /\ client[i] = "polling"
    /\ client' = [client EXCEPT ![i] = "left"]
    /\ IF current = i
       THEN /\ Terminate(i, "failed")
            /\ current' = None
            /\ timer' = "spent"
       ELSE UNCHANGED <<current, state, secret, timer>>
    /\ UNCHANGED <<late, task, orphans, superseded>>

\* GET status: "unknown" stands for the 404.
Answer(i) ==
    IF current = i THEN StatusOf(i)
    ELSE IF superseded.id = i THEN superseded.status
    ELSE "unknown"

Poll(i) ==
    /\ client[i] = "polling"
    /\ Answer(i) \in Final \cup {"unknown"}
    /\ client' = [client EXCEPT ![i] = Answer(i)]
    /\ UNCHANGED <<current, state, late, secret, task, timer, orphans, superseded>>

-----------------------------------------------------------------------------
(* The poll loop.                                                          *)

\* The 180 s of the scan are over; they mean nothing to a later state.  When they
\* end between a tick's last look at the clock and its schedule(), no further
\* tick is armed, and nothing calls expire().
DeadlinePasses(i) ==
    /\ state[i] = "awaiting-scan"
    /\ late[i] = "no"
    /\ late' = [late EXCEPT ![i] = IF task[i] = "rearm" THEN "unseen" ELSE "yes"]
    /\ UNCHANGED <<current, state, secret, task, timer, orphans, superseded, client>>

\* The timer fires: pollOnce up to its mDNS call.  Only the timer that
\* this.timer names can be live, see OnePollLoop.
Tick(i) ==
    /\ current = i
    /\ timer = "live"
    /\ IF Expired(i)
       THEN Expire(i) /\ TickOver(i)
       ELSE /\ timer' = "spent"
            /\ IF state[i] = "awaiting-scan" THEN task' = [task EXCEPT ![i] = "mdns"]
                                            ELSE TickOver(i)
            /\ UNCHANGED secret
    /\ UNCHANGED <<current, state, late, orphans, superseded, client>>

\* The deadline has passed during the mDNS call.
TooLate(i) == Expired(i)

\* The mDNS list is there, or could not be asked for: nothing to do.
SeesNothing(i) ==
    /\ task[i] = "mdns"
    /\ TickOver(i)
    /\ IF current = i /\ TooLate(i) THEN Expire(i) ELSE UNCHANGED <<timer, secret>>
    /\ UNCHANGED <<current, state, late, orphans, superseded, client>>

\* The phone has scanned the code and advertises its name: pair.
SeesPhone(i) ==
    /\ task[i] = "mdns"
    /\ current = i
    /\ ~TooLate(i)
    /\ state' = Marked(i, "pairing")
    /\ task' = [task EXCEPT ![i] = "pair"]
    /\ UNCHANGED <<current, late, secret, timer, orphans, superseded, client>>

\* A tick's continuation re-arms for its own attempt only.
MayRearm(i) == current = i

\* The finally of a tick: a step of its own, since it reads the clock again.
Rearm(i) ==
    /\ task[i] = "rearm"
    /\ task' = [task EXCEPT ![i] = "none"]
    /\ IF MayRearm(i) THEN Schedule(i) ELSE UNCHANGED <<timer, orphans>>
    /\ UNCHANGED <<current, state, late, secret, superseded, client>>

-----------------------------------------------------------------------------
(* pairAndConnect.                                                         *)

PairFails(i) ==
    /\ task[i] = "pair"
    /\ TickOver(i)
    /\ IF current = i THEN Terminate(i, "failed") ELSE UNCHANGED <<state, secret>>
    /\ UNCHANGED <<current, late, timer, orphans, superseded, client>>

\* The phone trusts this server now, whether or not the attempt is current.
PairSucceeds(i) ==
    /\ task[i] = "pair"
    /\ IF current = i THEN task' = [task EXCEPT ![i] = "find"] ELSE TickOver(i)
    /\ UNCHANGED <<current, state, late, secret, timer, orphans, superseded, client>>

\* No connect service is advertised, or the attempt is no longer current.
FindsNoService(i) ==
    /\ task[i] = "find"
    /\ TickOver(i)
    /\ IF current = i THEN Terminate(i, "paired-not-connected") ELSE UNCHANGED <<state, secret>>
    /\ UNCHANGED <<current, late, timer, orphans, superseded, client>>

FindsService(i) ==
    /\ task[i] = "find"
    /\ current = i
    /\ state' = Marked(i, "connecting")
    /\ task' = [task EXCEPT ![i] = "connect"]
    /\ UNCHANGED <<current, late, secret, timer, orphans, superseded, client>>

Connects(i) ==
    /\ task[i] = "connect"
    /\ TickOver(i)
    /\ \E s \in {"paired", "paired-not-connected"} :
         IF current = i THEN Terminate(i, s) ELSE UNCHANGED <<state, secret>>
    /\ UNCHANGED <<current, late, timer, orphans, superseded, client>>

-----------------------------------------------------------------------------

Step(i) ==
    \/ StartQr(i) \/ StartCode(i) \/ Cancel(i) \/ Poll(i)
    \/ DeadlinePasses(i) \/ Tick(i) \/ SeesNothing(i) \/ SeesPhone(i) \/ Rearm(i)
    \/ PairFails(i) \/ PairSucceeds(i)
    \/ FindsNoService(i) \/ FindsService(i) \/ Connects(i)

Next == \E i \in Ids : Step(i)

Spec == Init /\ [][Next]_vars

(***************************************************************************)
(* The clock runs, a timer fires, every adb call has a timeout of its own  *)
(* and so is answered, and the page polls on a timer.  Nobody has to scan, *)
(* start or cancel.                                                        *)
(***************************************************************************)
Fairness ==
    \A i \in Ids :
        /\ WF_vars(DeadlinePasses(i))
        /\ WF_vars(Tick(i))
        /\ WF_vars(SeesNothing(i))
        /\ WF_vars(Rearm(i))
        /\ WF_vars(PairFails(i) \/ PairSucceeds(i))
        /\ WF_vars(FindsNoService(i) \/ FindsService(i))
        /\ WF_vars(Connects(i))
        /\ WF_vars(Poll(i))

FairSpec == Spec /\ Fairness

-----------------------------------------------------------------------------
(* Properties.                                                             *)

\* The current attempt has one poll loop: no live timer is out of reach of
\* clearTimer, and no timer is armed while a tick of it is under way (the
\* identity check in schedule's finally).
OnePollLoop ==
    /\ orphans = 0
    /\ timer = "live" => current \in Ids /\ task[current] = "none"

\* What became of an attempt stands.  One whose deadline passed is never paired
\* afterwards, although the mDNS call under way may still find the phone
\* (pollOnce's second check); one that is over keeps its outcome, whatever its
\* continuation, a cancel or a replacement does next.
OutcomeStands ==
    [][\A i \in Ids :
         /\ Expired(i) => state'[i] \in {"awaiting-scan", "failed"}
         /\ state[i] \in Terminal => state'[i] = state[i]]_vars

\* The password is in memory only while its attempt is current and not over
\* (terminate, stop), and once the scan's time is up somebody is still going to
\* blank it: a tick that is armed, or the mDNS call of one (expire).  Excepted is
\* a deadline that fell between the last look of a tick and its schedule():
\* that password stays until the attempt is replaced or cancelled.
SecretOnlyUnderWay ==
    \A i \in Ids : secret[i] = "kept" =>
        /\ current = i /\ state[i] \notin Terminal
        /\ Expired(i) => timer = "live" \/ task[i] = "mdns" \/ late[i] = "unseen"

\* A page that keeps polling is told an end (pairAndConnect ends on every
\* path, and a scan that does not come expires).
PageLearnsAnEnd == \A i \in Ids : client[i] = "polling" ~> client[i] # "polling"

=============================================================================
