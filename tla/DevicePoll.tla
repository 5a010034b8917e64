------------------------------- MODULE DevicePoll -------------------------------
(***************************************************************************)
(* How an adb transport becomes a card in the browser's device list:       *)
(* ControlCenter polls `adb devices` and keeps its maps, a Device reads    *)
(* the serial of whatever answers on the transport and throttles its       *)
(* updates, and a DeviceTracker forwards them to a browser                 *)
(* (src/server/goog-device).                                               *)
(*                                                                         *)
(* One transport, one browser.  The device behind a transport may be       *)
(* exchanged for another one (an address reused, a cable swapped).  Of     *)
(* the properties of a device only its serial is kept.                     *)
(***************************************************************************)
EXTENDS Naturals, Sequences, SequencesExt

CONSTANTS
    Serials,     \* the devices that may answer on the transport
    MaxFlight,   \* bound: `adb devices` runs under way at a time
    MaxChanges   \* bound: changes of the transport

ASSUME PollAssumption ==
    /\ Serials \cap {"absent", "offline", "asked", "fails", ""} = {}
    /\ MaxFlight \in Nat \ {0}
    /\ MaxChanges \in Nat

VARIABLES
    attached,   \* what adb sees: "absent", "offline", or a serial
    changes,    \* bound: changes so far
    since,      \* history: serials that answered since the last setState
    flight,     \* answers of `adb devices` not processed yet, oldest first
    timers,     \* intervals armed and not cleared; initialized is timers > 0
    known,      \* knownDevices: "absent" or the state last handled
    dev,        \* the Device of the transport, see NoDevice
    listed,     \* "yes" when descriptors has the transport
    client,     \* the DeviceTracker: "away", "joining" or "here"
    shown       \* the state of the card in the browser, "absent" for none

vars == <<attached, changes, since, flight, timers, known, dev, listed, client, shown>>

\* What `adb devices` prints.
Listing == IF attached \in Serials THEN "device" ELSE attached

NoDevice ==
    [ state    |-> "absent",  \* descriptor.state
      throttle |-> "rested",  \* "recent" for 300 ms after an update
      timer    |-> "off",     \* "on" when an update waits for the throttle
      serial   |-> "",        \* descriptor['ro.serialno']
      screen   |-> "unknown", \* "checked" once descriptor['screen.state'] is known
      reads    |-> {} ]       \* property reads under way: their generation and answer

Init ==
    /\ attached \in {"absent", "offline"} \cup Serials
    /\ changes = 0
    /\ since = {attached} \cap Serials
    /\ flight = <<>>
    /\ timers = 0
    /\ known = "absent"
    /\ dev = NoDevice
    /\ listed = "no"
    /\ client = "away"
    /\ shown = "absent"

-----------------------------------------------------------------------------
(* Seeded faults: each is a slip the code could have made.                 *)

\* A property read is recorded whatever happened to the transport meanwhile.
StillCurrentUnchecked(read) == TRUE

\* A throttled update is dropped, not delayed.
HeldBackForGood(d) == d

-----------------------------------------------------------------------------
(* Device: updates.                                                        *)

HeldBack(d) == [d EXCEPT !.timer = "on"]

\* emitUpdate, on the device's side.
Updated(d) == IF d.throttle = "rested" THEN [d EXCEPT !.throttle = "recent"] ELSE HeldBack(d)

\* ... and on that of ControlCenter and the tracker, which listen.
Heard(d, state) ==
    IF d.throttle = "rested"
    THEN /\ listed' = "yes"
         /\ shown' = IF client = "here" THEN state ELSE shown
    ELSE UNCHANGED <<listed, shown>>

\* Device.setState: reads under way belong to the former state now, and the
\* serial goes unless the transport is a device again.
Restated(d, s) ==
    [d EXCEPT !.state = s,
              !.serial = IF s = "device" THEN @ ELSE "",
              !.reads = {<<"old", r[2]>> : r \in @}
                          \cup IF s = "device" THEN {<<"current", "asked">>} ELSE {}]

\* The state's update; fetchDeviceInfo adds one when it is not a device.
StateUpdated(d) == IF d.state = "device" THEN Updated(d) ELSE Updated(Updated(d))

\* The Device constructor, whose first update nobody hears.
Created(s) == StateUpdated(Restated(NoDevice, s))

\* An update of setState is emitted and has a listener.
Hears == dev.state # "absent" /\ dev.throttle = "rested"

\* Seeded fault: a transport that is gone stays in descriptors.
ListedStays(s) == IF Hears THEN "yes" ELSE listed

Listed(s) ==
    CASE s = "absent" -> "no"
      [] s # "absent" /\ Hears -> "yes"
      [] s # "absent" /\ ~Hears -> listed

\* handleConnected, and the update of the maps.
HandleMaps(s) ==
    /\ since' = IF s = dev.state THEN since ELSE {attached} \cap Serials
    /\ known' = s
    /\ dev' = CASE s = "absent" -> NoDevice
                 [] s # "absent" /\ dev.state = "absent" -> Created(s)
                 [] s # "absent" /\ dev.state # "absent" -> StateUpdated(Restated(dev, s))
    /\ listed' = Listed(s)

HandleConnected(s) ==
    /\ HandleMaps(s)
    /\ shown' = IF client = "here" /\ Hears THEN s ELSE shown

-----------------------------------------------------------------------------
(* ControlCenter.                                                          *)

Answer(who) == [who |-> who, snap |-> Listing]

\* `adb devices` runs for who: the boot, the tracker, or a poll.
Ask(who) ==
    /\ Len(flight) < MaxFlight
    /\ flight' = Append(flight, Answer(who))

\* The tracker listens from here on, and sends the list.
Join ==
    /\ client' = "here"
    /\ shown' = IF listed' = "yes" THEN dev'.state ELSE "absent"

\* init(): not initialized before the first list is in.
BootInit ==
    /\ timers = 0 /\ \A k \in DOMAIN flight : flight[k].who # "boot"
    /\ Ask("boot")
    /\ UNCHANGED <<attached, changes, since, timers, known, dev, listed, client, shown>>

\* A browser opens the device list: its tracker calls init() as well.
TrackerInit ==
    /\ client = "away"
    /\ UNCHANGED <<attached, changes, since, timers, known, dev, listed>>
    /\ \/ /\ timers = 0
          /\ Ask("tracker")
          /\ client' = "joining"
          /\ UNCHANGED shown
       \/ /\ timers > 0
          /\ Join
          /\ UNCHANGED flight

\* The 5 s interval, or refreshNow after a pairing.
PollStarts ==
    /\ timers > 0
    /\ Ask("poll")
    /\ UNCHANGED <<attached, changes, since, timers, known, dev, listed, client, shown>>

\* The flight without its k-th answer.
Without(k) == RemoveAt(flight, k)

\* A poll handles what changed.
Handled(s) == s # known

PollApplied(s) ==
    \/ Handled(s) /\ HandleConnected(s)
    \/ ~Handled(s) /\ UNCHANGED <<since, known, dev, listed, shown>>

PollDone ==
    /\ \E k \in DOMAIN flight :
         /\ flight[k].who = "poll"
         /\ PollApplied(flight[k].snap)
         /\ flight' = Without(k)
    /\ UNCHANGED <<attached, changes, timers, client>>

\* init() handles every transport listed, removes none and arms the interval.
InitApplied(s) ==
    \/ s # "absent" /\ HandleConnected(s)
    \/ s = "absent" /\ UNCHANGED <<since, known, dev, listed, shown>>

BootDone ==
    /\ \E k \in DOMAIN flight :
         /\ flight[k].who = "boot"
         /\ InitApplied(flight[k].snap)
         /\ flight' = Without(k)
    /\ timers' = timers + 1
    /\ UNCHANGED <<attached, changes, client>>

TrackerDone ==
    /\ \E k \in DOMAIN flight :
         /\ flight[k].who = "tracker"
         /\ flight' = Without(k)
         /\ \/ flight[k].snap # "absent" /\ HandleMaps(flight[k].snap)
            \/ flight[k].snap = "absent" /\ UNCHANGED <<since, known, dev, listed>>
    /\ timers' = timers + 1
    /\ Join
    /\ UNCHANGED <<attached, changes>>

\* adb fails or times out: a poll does nothing, init() arms the interval anyway.
AskFails ==
    /\ UNCHANGED <<attached, changes, since, known, dev, listed>>
    /\ \E k \in DOMAIN flight :
         /\ flight' = Without(k)
         /\ timers' = IF flight[k].who = "poll" THEN timers ELSE timers + 1
         /\ IF flight[k].who = "tracker" THEN Join ELSE UNCHANGED <<client, shown>>

-----------------------------------------------------------------------------
(* Device: the throttle and the property reads.                            *)

\* 300 ms have passed.
ThrottleEnds ==
    /\ dev.throttle = "recent"
    /\ dev' = [dev EXCEPT !.throttle = IF dev.timer = "on" THEN "recent" ELSE "rested",
                          !.timer = "off"]
    /\ IF dev.timer = "on" THEN Heard([dev EXCEPT !.throttle = "rested"], dev.state)
                           ELSE UNCHANGED <<listed, shown>>
    /\ UNCHANGED <<attached, changes, since, flight, timers, known, client>>

\* getprop runs on whatever answers on the transport (external).
Getprop ==
    /\ \E r \in dev.reads :
         /\ r[2] = "asked"
         /\ LET answer == IF attached \in Serials THEN attached ELSE "fails"
            IN  dev' = [dev EXCEPT !.reads = (@ \ {r}) \cup {<<r[1], answer>>}]
    /\ UNCHANGED <<attached, changes, since, flight, timers, known, listed, client, shown>>

\* The generation check of fetchDeviceInfo and getProperties.
StillCurrent(read) == read[1] = "current"

\* The answer arrives.
ReadDone ==
    /\ \E r \in dev.reads :
         /\ r[2] \in Serials \cup {"fails"}
         /\ LET d == [dev EXCEPT !.reads = @ \ {r}] IN
            IF r[2] = "fails" \/ ~StillCurrent(r) \/ dev.serial = r[2]
            THEN dev' = d /\ UNCHANGED <<listed, shown>>
            ELSE dev' = Updated([d EXCEPT !.serial = r[2]]) /\ Heard(d, d.state)
    /\ UNCHANGED <<attached, changes, since, flight, timers, known, client>>

\* scheduleInfoUpdate: a pass that failed is tried again, up to seven times.
Retry ==
    /\ dev.state = "device"
    /\ \A r \in dev.reads : r[1] = "old"
    /\ dev.serial = ""
    /\ dev' = [dev EXCEPT !.reads = @ \cup {<<"current", "asked">>}]
    /\ UNCHANGED <<attached, changes, since, flight, timers, known, listed, client, shown>>

\* The checks at the end of a poll find a new screen state or device kind; the
\* first one that the device answers always does.
CheckUpdates ==
    /\ dev.state = "device" /\ attached \in Serials
    /\ dev' = Updated([dev EXCEPT !.screen = "checked"])
    /\ Heard(dev, dev.state)
    /\ UNCHANGED <<attached, changes, since, flight, timers, known, client>>

\* The world (external).
TransportChanges ==
    /\ changes < MaxChanges
    /\ changes' = changes + 1
    /\ attached' \in ({"absent", "offline"} \cup Serials) \ {attached}
    /\ since' = since \cup ({attached'} \cap Serials)
    /\ UNCHANGED <<flight, timers, known, dev, listed, client, shown>>

Next ==
    \/ BootInit \/ TrackerInit \/ PollStarts
    \/ PollDone \/ BootDone \/ TrackerDone \/ AskFails
    \/ ThrottleEnds \/ Getprop \/ ReadDone \/ Retry \/ CheckUpdates
    \/ TransportChanges

Spec == Init /\ [][Next]_vars

\* The server boots; polls come and adb answers some of them; a device that is
\* attached answers the check of its screen.
Fairness ==
    /\ WF_vars(BootInit) /\ WF_vars(BootDone \/ AskFails)
    /\ WF_vars(PollStarts) /\ SF_vars(PollDone) /\ WF_vars(TrackerDone \/ AskFails)
    /\ WF_vars(ThrottleEnds)
    /\ WF_vars(dev.screen = "unknown" /\ CheckUpdates)

FairSpec == Spec /\ Fairness
-----------------------------------------------------------------------------
(* Properties.                                                             *)

States == {"absent", "offline", "device"}

AnswerType == [who : {"boot", "tracker", "poll"}, snap : States]

ReadType == {"old", "current"} \X (Serials \cup {"asked", "fails"})

DeviceType ==
    [ state    : States,
      throttle : {"rested", "recent"},
      timer    : {"off", "on"},
      serial   : Serials \cup {""},
      screen   : {"unknown", "checked"},
      reads    : SUBSET ReadType ]

TypeOK ==
    /\ attached \in {"absent", "offline"} \cup Serials
    /\ changes \in 0..MaxChanges /\ since \subseteq Serials
    /\ flight \in Seq(AnswerType)
    /\ timers \in Nat
    /\ known \in States /\ shown \in States
    /\ dev \in DeviceType
    /\ listed \in {"no", "yes"} /\ client \in {"away", "joining", "here"}

\* A card carries the serial of a device that has answered on its transport since
\* the transport last changed state: a read that was out across a change of state
\* records nothing (M11 fix 2), and a transport that is no device has no serial.
SerialIsCurrent == dev.serial # "" => dev.serial \in since /\ dev.state = "device"

\* However polls overlap, the maps agree: there is a Device for exactly the
\* transports that are known, in the state they are known to be in, and every
\* transport in the list the browser gets is known.
MapsAgree == known = dev.state /\ (listed = "yes" => known # "absent")

\* A transport that stays attached is shown, in its state, however its updates
\* were throttled and its polls overlapped.
AttachedIsShown ==
    <>[](attached # "absent" /\ client = "here" => shown = Listing)
=============================================================================
