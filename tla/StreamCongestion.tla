---------------------------- MODULE StreamCongestion ----------------------------
(***************************************************************************)
(* The gate a stream session puts between the device's packets and the     *)
(* browser's websocket (src/server/StreamCongestion.ts), together with the *)
(* two packet handlers of ScrcpyConnection.startForwarding that consult it *)
(* and the unsent backlog of the websocket it reads (ws.bufferedAmount).   *)
(*                                                                         *)
(* Packets are abstracted to their kind and size.  Three counters and two  *)
(* clocks of the class only feed log lines and are left out.               *)
(***************************************************************************)
EXTENDS Naturals

CONSTANTS
    LowWater,    \* resume mark, in bytes (DEFAULT_LOW_WATER)
    HighWater,   \* shed mark, in bytes (DEFAULT_HIGH_WATER)
    MaxPacket,   \* the largest packet the device sends
    MaxOther     \* bound: unsent bytes of the traffic that is never shed

\* The constructor throws unless lowWater < highWater.
ASSUME WaterMarksAssumption ==
    /\ LowWater \in Nat /\ HighWater \in Nat /\ LowWater < HighWater
    /\ MaxPacket \in Nat \ {0}
    /\ MaxOther \in Nat

VARIABLES
    gate,        \* StreamCongestion.current
    media,       \* unsent bytes of video and audio frames
    other,       \* unsent bytes of packets that are never shed
    picture,     \* what the browser's decoder can make of the video it was sent
    asked,       \* TYPE_RESET_VIDEO was written for the drain the gate is waiting on
    hasControl   \* the session has a control socket

vars == <<gate, media, other, picture, asked, hasControl>>

Sizes == 1..MaxPacket

\* ws.bufferedAmount: everything handed to the websocket and not yet sent.
buffered == media + other

Init ==
    /\ gate = "flowing"
    /\ media = 0
    /\ other = 0
    /\ picture = "intact"
    /\ asked = FALSE
    /\ hasControl \in BOOLEAN

-----------------------------------------------------------------------------
(* Seeded faults: each is a slip the code could have made.                 *)

\* The gate reopens as soon as the backlog drains, without waiting for a keyframe.
WaterMarksReopen(b) ==
    IF gate = "congested" THEN IF b > LowWater THEN gate ELSE "flowing"
                          ELSE IF b > HighWater THEN "congested" ELSE gate

\* The backlog is compared with the high mark only on the way down.
WaterMarksNoHigh(b) == IF gate = "congested" /\ b <= LowWater THEN "awaiting" ELSE gate

\* A drain that is never noticed.
WaterMarksStuck(b) == IF b > HighWater THEN "congested" ELSE gate

-----------------------------------------------------------------------------
(* The state machine.                                                      *)

\* update(): the gate after the water marks are applied to the backlog b.
WaterMarks(b) ==
    IF gate = "congested" THEN IF b > LowWater THEN gate ELSE "awaiting"
                          ELSE IF b > HighWater THEN "congested" ELSE gate

\* A request stands for one drain: a new congestion makes it stale.
StillAsked(g) == asked /\ g = "awaiting"

\* The next delta the browser decodes refers to a packet it did not get.
Shed == picture' = IF picture = "intact" THEN "gap" ELSE picture

SendMedia(size) == media' = media + size /\ UNCHANGED other

SendNothing == UNCHANGED <<media, other>>

-----------------------------------------------------------------------------
(* The video socket: onFrame of startForwarding, one action per packet kind. *)

\* A config packet is sent whatever the gate says.  A drain seen here is
\* reported as an event only.
VideoConfig(size) ==
    /\ other + size <= MaxOther
    /\ gate' = WaterMarks(buffered)
    /\ other' = other + size
    /\ asked' = StillAsked(gate')
    /\ UNCHANGED <<media, picture, hasControl>>

\* A keyframe restarts the picture, unless the backlog is still congested.
VideoKeyframe(size) ==
    /\ \/ /\ WaterMarks(buffered) = "congested"
          /\ gate' = "congested"
          /\ Shed
          /\ SendNothing
       \/ /\ WaterMarks(buffered) # "congested"
          /\ gate' = "flowing"
          /\ picture' = "intact"
          /\ SendMedia(size)
    /\ asked' = FALSE
    /\ UNCHANGED hasControl

\* requestKeyframeAfterBacklog: nothing is written without a control socket.
AskForKeyframe == asked' = hasControl

\* A delta frame is sent only while flowing; the one that sees the drain asks
\* the device for a keyframe.
VideoDelta(size) ==
    /\ gate' = WaterMarks(buffered)
    /\ \/ /\ gate' = "flowing"
          /\ picture' = IF picture = "intact" THEN "intact" ELSE "garbage"
          /\ SendMedia(size)
          /\ asked' = FALSE
       \/ /\ gate' # "flowing"
          /\ Shed
          /\ SendNothing
          /\ \/ gate = "congested" /\ gate' = "awaiting" /\ AskForKeyframe
             \/ gate = gate' /\ UNCHANGED asked
             \/ gate # "congested" /\ gate' = "congested" /\ asked' = FALSE
    /\ UNCHANGED hasControl

-----------------------------------------------------------------------------
(* The audio socket.                                                       *)

AudioConfig(size) == VideoConfig(size)

\* Audio is shed only while congested; its packets decode independently.
AudioFrame(size) ==
    /\ gate' = WaterMarks(buffered)
    /\ IF gate' = "congested" THEN SendNothing ELSE SendMedia(size)
    /\ asked' = StillAsked(gate')
    /\ UNCHANGED <<picture, hasControl>>

-----------------------------------------------------------------------------
(* What goes around the gate.                                              *)

\* Device messages, session changes and the metadata go straight to the socket.
UngatedPacket(size) ==
    /\ other + size <= MaxOther
    /\ other' = other + size
    /\ UNCHANGED <<gate, media, picture, asked, hasControl>>

\* The network carries part of the backlog to the browser.
BrowserReads ==
    /\ buffered > 0
    /\ \E m \in 0..media, o \in 0..other :
         /\ m + o < buffered
         /\ media' = m
         /\ other' = o
    /\ UNCHANGED <<gate, picture, asked, hasControl>>

\* The browser catches up completely.
BrowserCatchesUp ==
    /\ buffered > 0
    /\ media' = 0
    /\ other' = 0
    /\ UNCHANGED <<gate, picture, asked, hasControl>>

Next ==
    \/ \E size \in Sizes :
         \/ VideoConfig(size)
         \/ VideoKeyframe(size)
         \/ VideoDelta(size)
         \/ AudioConfig(size)
         \/ AudioFrame(size)
         \/ UngatedPacket(size)
    \/ BrowserReads
    \/ BrowserCatchesUp

Spec == Init /\ [][Next]_vars

\* A keyframe (the device sends one at least every ten seconds) reaches the
\* handler while the backlog is low.
KeyframeWhenClear ==
    /\ buffered <= LowWater
    /\ \E size \in Sizes : VideoKeyframe(size)

\* The browser goes on reading, and not every keyframe meets a backlog.
Fairness == WF_vars(BrowserCatchesUp) /\ SF_vars(KeyframeWhenClear)

FairSpec == Spec /\ Fairness

-----------------------------------------------------------------------------
TypeOK ==
    /\ gate \in {"flowing", "congested", "awaiting"}
    /\ media \in Nat
    /\ other \in 0..MaxOther
    /\ picture \in {"intact", "gap", "garbage"}
    /\ asked \in BOOLEAN
    /\ hasControl \in BOOLEAN

\* The browser is never sent a delta frame that refers to a shed packet: after
\* a gap, video() resumes only on a keyframe.
NoOrphanDelta == picture # "garbage"

\* However slowly the browser reads, the media the server holds for it stays
\* within the high mark and one packet (what sendChannel once let grow freely).
MediaBacklogBounded == media <= HighWater + MaxPacket

\* A gap in the picture is repaired once the browser reads again.
PictureReturns == picture = "gap" ~> picture = "intact"

=============================================================================
