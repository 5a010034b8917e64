---------------------------------- MODULE Updater ----------------------------------
(***************************************************************************)
(* What the update service promises, without checks, downloads and         *)
(* platforms.  It watches a channel and may have one release on offer; an  *)
(* install takes the release that is on offer, and nothing but the user's  *)
(* own change of the channel moves the offer until the install is over;    *)
(* the server goes down for an install only after its viewers were told.   *)
(***************************************************************************)
EXTENDS Naturals

CONSTANTS Releases, None

VARIABLES
    channel,  \* how often the user changed the channel
    offer,    \* the release on offer, or None
    phase,    \* watching, installing or gone
    chosen,   \* the release being installed, or None
    streams   \* open, or stopped for the install

uvars == <<channel, offer, phase, chosen, streams>>

Init ==
    /\ channel = 0
    /\ offer = None
    /\ phase = "watching"
    /\ chosen = None
    /\ streams = "open"

\* The user changes the channel: what was on offer is not of this channel.
Switch ==
    /\ phase # "gone"
    /\ channel' = channel + 1
    /\ offer' = None
    /\ UNCHANGED <<phase, chosen, streams>>

\* A check has found a release, or none.
Look ==
    /\ phase = "watching"
    /\ offer' \in Releases \cup {None}
    /\ UNCHANGED <<channel, phase, chosen, streams>>

Install ==
    /\ phase = "watching"
    /\ offer # None
    /\ phase' = "installing"
    /\ chosen' = offer
    /\ UNCHANGED <<channel, offer, streams>>

StopStreams ==
    /\ phase = "installing"
    /\ streams' = "stopped"
    /\ UNCHANGED <<channel, offer, phase, chosen>>

GiveUp ==
    /\ phase = "installing"
    /\ phase' = "watching"
    /\ chosen' = None
    /\ streams' = "open"
    /\ UNCHANGED <<channel, offer>>

Commit ==
    /\ phase = "installing"
    /\ streams = "stopped"
    /\ phase' = "gone"
    /\ UNCHANGED <<channel, offer, chosen, streams>>

Next == Switch \/ Look \/ Install \/ StopStreams \/ GiveUp \/ Commit

Spec == Init /\ [][Next]_uvars
====================================================================================
