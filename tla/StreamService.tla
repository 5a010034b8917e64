------------------------------- MODULE StreamService -------------------------------
(***************************************************************************)
(* What the server promises the viewers of its streams, without awaits,    *)
(* tunnels and timers.  A stream is opened, gathers what it needs on the   *)
(* device, may be shown, and comes to an end in one step that leaves it    *)
(* nothing; its viewer is told one cause of that end, the first.  A        *)
(* deliberate stop ends every stream at once, in its own name, and shuts   *)
(* newcomers out until it is called off.                                   *)
(***************************************************************************)
CONSTANT Sessions

VARIABLES
    stream,   \* per session, how far it is, what it holds, what its viewer was told
    shut      \* a stop has ended the streams and was not called off

svars == <<stream, shut>>

\* What a stream holds on the device and on the server for it.
Things == {"server", "sockets", "listener"}

View(stage, told, holds) == [stage |-> stage, told |-> told, holds |-> holds]

NoStream == View("absent", "none", {})

Underway(v) == v.stage \in {"starting", "shown", "failed"}

\* The first cause stands.
Told(v, why) == IF v.told = "none" THEN why ELSE v.told

\* The end of a stream: nothing is left.
Over(v, why) == View("over", Told(v, why), {})

Becomes(s, v) == stream' = [stream EXCEPT ![s] = v]

Init ==
    /\ stream = [s \in Sessions |-> NoStream]
    /\ shut = FALSE

Open(s) ==
    /\ stream[s].stage = "absent"
    /\ ~shut
    /\ Becomes(s, View("starting", "none", {}))
    /\ UNCHANGED shut

\* Told of the stop, and nothing begun.
Refuse(s) ==
    /\ stream[s].stage = "absent"
    /\ shut
    /\ Becomes(s, View("refused", "shutdown1001", {}))
    /\ UNCHANGED shut

\* A starting stream is the only one that acquires anything.
Proceed(s) ==
    /\ stream[s].stage = "starting"
    /\ \E stage \in {"starting", "shown"}, more \in SUBSET Things :
         Becomes(s, View(stage, stream[s].told, stream[s].holds \cup more))
    /\ UNCHANGED shut

\* A start that fails says so, unless its viewer has left already.
Fail(s) ==
    /\ stream[s].stage = "starting"
    /\ Becomes(s, View("failed", Told(stream[s], "failed4005"), stream[s].holds))
    /\ UNCHANGED shut

Leave(s) ==
    /\ Underway(stream[s])
    /\ stream[s].told = "none"
    /\ Becomes(s, View(stream[s].stage, "browser", stream[s].holds))
    /\ UNCHANGED shut

End(s) ==
    /\ Underway(stream[s])
    /\ \E why \in {"failed4005", "browser"} : Becomes(s, Over(stream[s], why))
    /\ UNCHANGED shut

\* Every stream at once, for the cause of the server.
EndAll(why) ==
    stream' = [s \in Sessions |-> IF Underway(stream[s]) THEN Over(stream[s], why)
                                                         ELSE stream[s]]

Stop ==
    /\ EndAll("shutdown1001")
    /\ shut' = TRUE

CallOff ==
    /\ shut' = FALSE
    /\ UNCHANGED stream

\* The servers on the devices die with adb.
LoseServers ==
    /\ stream' = [s \in Sessions |-> View(stream[s].stage, stream[s].told,
                                         stream[s].holds \ {"server"})]
    /\ UNCHANGED shut

\* Every socket is terminated.
Terminate ==
    /\ EndAll("abnormal1006")
    /\ UNCHANGED shut

Next ==
    \/ \E s \in Sessions : Open(s) \/ Refuse(s) \/ Proceed(s) \/ Fail(s) \/ Leave(s) \/ End(s)
    \/ Stop \/ CallOff \/ LoseServers \/ Terminate

Spec == Init /\ [][Next]_svars
====================================================================================
