----------------------------- MODULE StreamStartup -----------------------------
(***************************************************************************)
(* How the video of a session starts (src/server/ScrcpyConnection.ts):     *)
(* the header of the video socket and then that of the audio socket are    *)
(* read with readExact, a FrameReader takes the video socket over, and a   *)
(* watchdog asks the device for a keyframe while no config packet has come *)
(* out of it.                                                              *)
(*                                                                         *)
(* The stream is a sequence of units, the parts of a packet that a TCP     *)
(* chunk may cut apart: <<i, 1>> is the header of the i-th packet the       *)
(* device wrote and <<i, 2>> its data; the first one is the 80-byte header. *)
(* A cut inside a packet's 12-byte header is a cut in front of it, as the  *)
(* reader waits for all 12.  The readable side of a socket is Node's:      *)
(* until its first 'data' listener is added it is paused and buffers; from *)
(* then on it flows, and removing the listener does not pause it.          *)
(***************************************************************************)
EXTENDS Naturals, Sequences, FiniteSets

CONSTANTS
    Vias,       \* the tunnels a session may use, out of "reverse", "forward"
    MaxFree     \* bound: packets the device sends of its own accord after the start

ASSUME StartupAssumption ==
    /\ Vias \subseteq {"reverse", "forward"}
    /\ MaxFree \in Nat

VARIABLES
    pc,       \* where start() is: "tunnel", "video", "audio", "live" or "over"
    sent,     \* kinds of the packets the device has written
    due,      \* kinds of the packets the encoder produces next
    wire,     \* units written by the device and not yet read by Node
    rx,       \* the receiving side of the video socket, see Receiver
    watch,    \* the stall and keyframe timers: "off", "stall" or "retry"
    requests, \* keyframe requests written by the watchdog
    resets,   \* TYPE_RESET_VIDEO messages on their way to the device
    control   \* the control socket: "up" or "destroyed"

startupVars == <<pc, sent, due, wire, rx, watch, requests, resets, control>>

KEYFRAME_REQUEST_ATTEMPTS == 3

Header  == << <<1, 1>>, <<1, 2>> >>

\* What an encoder that (re)starts produces.
Restart == <<"config", "keyframe">>

\* A session packet is a header alone.
Units(i, kind) == IF kind = "session" THEN << <<i, 1>> >> ELSE << <<i, 1>>, <<i, 2>> >>

Receiver(flow) ==
    [ flow     |-> flow,     \* readable.flowing: "paused" or "flowing"
      listener |-> "none",   \* who listens to 'data': "none", "exact" or "reader"
      stash    |-> <<>>,     \* units Node has buffered
      acc      |-> <<>>,     \* units readExact has collected
      rbuf     |-> <<>>,     \* FrameReader.buffer after drain()
      seen     |-> <<>>,     \* packets handed to the frame and session callbacks
      reader   |-> "ok" ]    \* "garbled" once it took a packet's data for a header

\* On the forward tunnel the dummy byte has been read from the video socket, so
\* it flows already.
StartupInit ==
    /\ pc = "tunnel"
    /\ sent = <<>>
    /\ due = <<"header">> \o Restart
    /\ wire = <<>>
    /\ \E via \in Vias :
         \/ via = "reverse" /\ rx = Receiver("paused")
         \/ via = "forward" /\ rx = Receiver("flowing")
    /\ watch = "off"
    /\ requests = 0
    /\ resets = 0
    /\ control = "up"

-----------------------------------------------------------------------------
(* Seeded faults: each is a slip the code could have made.                 *)

\* Recovery is left to sessions that have produced nothing at all.
CanRecoverSilent(r) == r.seen = <<>>

\* The attempts are not counted.
AttemptsLeftAlways == TRUE

-----------------------------------------------------------------------------
(* The FrameReader.                                                        *)

\* One more unit in the reader's buffer.
TakeUnit(r, u) ==
    CASE r.reader = "garbled" -> r
      [] r.reader = "ok" /\ r.rbuf # <<>> ->
           [r EXCEPT !.rbuf = <<>>, !.seen = Append(@, u[1])]
      [] r.reader = "ok" /\ r.rbuf = <<>> /\ u[2] = 2 ->
           [r EXCEPT !.reader = "garbled"]
      [] r.reader = "ok" /\ r.rbuf = <<>> /\ u[2] = 1 ->
           IF sent[u[1]] = "session" THEN [r EXCEPT !.seen = Append(@, u[1])]
                                     ELSE [r EXCEPT !.rbuf = <<u>>]

\* drain(): the reader after the first n units.
Drained(r, units) ==
    LET after[n \in 0..Len(units)] == IF n = 0 THEN r ELSE TakeUnit(after[n - 1], units[n])
    IN  after

\* Seeded fault: the beginning of an incomplete packet is thrown away.
ReadForgetful(r, units) == [Drained(r, units)[Len(units)] EXCEPT !.rbuf = <<>>]

\* onData.
Read(r, units) == Drained(r, units)[Len(units)]

-----------------------------------------------------------------------------
(* The socket.                                                             *)

\* readable.unshift on a flowing socket that nobody listens to: the next tick
\* emits the units again, to nobody, before start() resumes.
PutBack(r, units) ==
    IF r.flow = "flowing" /\ r.listener = "none" THEN r
                                                 ELSE [r EXCEPT !.stash = units \o @]

\* readExact's onData, for the 80 bytes of the header.
Collect(r, units) ==
    LET all == r.acc \o units
        n   == Len(Header)
    IN  IF Len(all) < n THEN [r EXCEPT !.acc = all]
        ELSE PutBack([r EXCEPT !.acc = SubSeq(all, 1, n), !.listener = "none"],
                     SubSeq(all, n + 1, Len(all)))

\* The socket emits 'data'.
Emit(r, units) ==
    CASE r.listener = "none"   -> r
      [] r.listener = "exact"  -> Collect(r, units)
      [] r.listener = "reader" -> Read(r, units)

Receive(r, units) ==
    IF r.flow = "paused" THEN [r EXCEPT !.stash = @ \o units] ELSE Emit(r, units)

\* on('data', ...): the socket flows, beginning with what it had buffered.
Listen(r, listener) ==
    Emit([r EXCEPT !.listener = listener, !.flow = "flowing", !.stash = <<>>], r.stash)

\* The await on the header resolves as soon as it is complete.
Resumed(r) == IF r.acc = Header THEN "audio" ELSE "video"

\* parseMetadata: the header of the video socket.
ReadVideoHeader ==
    /\ pc = "tunnel"
    /\ rx' = Listen(rx, "exact")
    /\ pc' = Resumed(rx')
    /\ UNCHANGED <<sent, due, wire, watch, requests, resets, control>>

\* A chunk of the video socket arrives.
ChunkArrives ==
    /\ pc # "over"
    /\ \E n \in 1..Len(wire) :
         /\ rx' = Receive(rx, SubSeq(wire, 1, n))
         /\ wire' = SubSeq(wire, n + 1, Len(wire))
    /\ pc' = IF pc = "video" THEN Resumed(rx') ELSE pc
    /\ UNCHANGED <<sent, due, watch, requests, resets, control>>

\* The 4 bytes of the audio socket arrive: startForwarding, and the stall timer.
ReadAudioHeader ==
    /\ pc = "audio"
    /\ pc' = "live"
    /\ rx' = Listen(rx, "reader")
    /\ watch' = "stall"
    /\ UNCHANGED <<sent, due, wire, requests, resets, control>>

-----------------------------------------------------------------------------
(* The watchdog (requestKeyframeIfConfigMissing).                          *)

\* canRecoverWithKeyframeRequest: no config packet was seen.
CanRecover(r) == \A k \in 1..Len(r.seen) : sent[r.seen[k]] # "config"

AttemptsLeft == requests < KEYFRAME_REQUEST_ATTEMPTS

TimerFires ==
    /\ watch \in {"stall", "retry"}
    /\ \/ /\ CanRecover(rx) /\ AttemptsLeft /\ control = "up"
          /\ requests' = requests + 1
          /\ resets' = resets + 1
          /\ watch' = "retry"
       \/ /\ ~(CanRecover(rx) /\ AttemptsLeft /\ control = "up")
          /\ watch' = "off"
          /\ UNCHANGED <<requests, resets>>
    /\ UNCHANGED <<pc, sent, due, wire, rx, control>>

\* release(): the timers are cleared and the reader detached.
Release ==
    /\ pc # "over"
    /\ pc' = "over"
    /\ watch' = "off"
    /\ rx' = [rx EXCEPT !.listener = "none"]
    /\ UNCHANGED <<sent, due, wire, requests, resets, control>>

-----------------------------------------------------------------------------
(* The device (external).                                                  *)

Write(kind) ==
    /\ sent' = Append(sent, kind)
    /\ wire' = wire \o Units(Len(sent'), kind)

\* It writes nothing before all the sockets of the tunnel are connected, the
\* header first.
Connected == rx.flow = "paused" \/ pc # "tunnel"

DeviceWrites ==
    /\ Connected
    /\ due # <<>>
    /\ Write(Head(due))
    /\ due' = Tail(due)
    /\ UNCHANGED <<pc, rx, watch, requests, resets, control>>

Free == Cardinality({i \in 1..Len(sent) : sent[i] \in {"frame", "session"}})

EncoderGoesOn ==
    /\ due = <<>>
    /\ Free < MaxFree
    /\ \E kind \in {"frame", "session"} : Write(kind)
    /\ UNCHANGED <<pc, due, rx, watch, requests, resets, control>>

DeviceResets ==
    /\ resets > 0
    /\ due = <<>>
    /\ resets' = resets - 1
    /\ due' = Restart
    /\ UNCHANGED <<pc, sent, wire, rx, watch, requests, control>>

ControlBreaks ==
    /\ control = "up"
    /\ control' = "destroyed"
    /\ UNCHANGED <<pc, sent, due, wire, rx, watch, requests, resets>>

StartupNext ==
    \/ ReadVideoHeader \/ ChunkArrives \/ ReadAudioHeader
    \/ TimerFires \/ Release
    \/ DeviceWrites \/ EncoderGoesOn \/ DeviceResets \/ ControlBreaks

StartupSpec == StartupInit /\ [][StartupNext]_startupVars

\* Timers fire, TCP delivers, and an encoder that starts or is reset produces
\* its config packet and keyframe.  Nothing is assumed of the audio socket.
StartupFairness ==
    /\ WF_startupVars(TimerFires)
    /\ WF_startupVars(ChunkArrives)
    /\ WF_startupVars(DeviceWrites) /\ WF_startupVars(DeviceResets)

StartupFairSpec == StartupSpec /\ StartupFairness

-----------------------------------------------------------------------------
(* Properties.                                                             *)

UnitType == (1..Len(sent)) \X {1, 2}

ReceiverType ==
    [ flow : {"paused", "flowing"}, listener : {"none", "exact", "reader"},
      stash : Seq(UnitType), acc : Seq(UnitType), rbuf : Seq(UnitType),
      seen : Seq(1..Len(sent)), reader : {"ok", "garbled"} ]

StartupTypeOK ==
    /\ pc \in {"tunnel", "video", "audio", "live", "over"}
    /\ sent \in Seq({"header", "config", "keyframe", "frame", "session"})
    /\ due \in {<<"header">> \o Restart, Restart, Tail(Restart), <<>>}
    /\ wire \in Seq(UnitType)
    /\ rx \in ReceiverType
    /\ watch \in {"off", "stall", "retry"}
    /\ requests \in 0..KEYFRAME_REQUEST_ATTEMPTS /\ resets \in Nat
    /\ control \in {"up", "destroyed"}

\* Once a FrameReader has begun to make packets of the stream it misses none
\* and repeats none, however the stream is cut into chunks: each packet is the
\* successor of the one before, and what is pending begins with the next one.
NextPacketFollows ==
    LET seen == rx.seen  pending == rx.rbuf \o wire IN
    /\ \A k \in 1..(Len(seen) - 1) : seen[k + 1] = seen[k] + 1
    /\ (pc = "live" /\ rx.reader = "ok" /\ seen # <<>> /\ pending # <<>>)
         => pending[1] = <<seen[Len(seen)] + 1, 1>>

HasConfig == \E k \in 1..Len(rx.seen) : sent[rx.seen[k]] = "config"

\* A device that does not answer is asked three times and no more; a session that
\* has its config packet is not asked for (the reset would discard a working
\* decoder), and neither is one that is over.
RequestsAreWarranted ==
    [][requests' # requests =>
         requests' <= KEYFRAME_REQUEST_ATTEMPTS /\ pc = "live" /\ ~HasConfig]_startupVars

\* A live session that was left without a config packet gets one, from a device
\* that answers TYPE_RESET_VIDEO (requestKeyframeIfConfigMissing, #703), unless
\* it lost the first part of a packet and reads the rest as a header.
ConfigIsRecovered ==
    pc = "live" ~>
      HasConfig \/ pc = "over" \/ control = "destroyed" \/ rx.reader = "garbled"

\* No packet the device sends after the header is lost on the way to the
\* FrameReader (readExact: "Put back any extra bytes").
NothingLost == rx.reader = "ok" /\ (rx.seen # <<>> => rx.seen[1] = 2)

=============================================================================
