------------------------- MODULE StreamSessionProofs -------------------------
(* What holds of stream sessions for any number of them, any number of    *)
(* sockets and whichever deliberate stops happen.                          *)
EXTENDS StreamSession, TLAPS


-----------------------------------------------------------------------------
(* The inductive invariant, per session.                                   *)

\* What is true of a record even halfway through a step.
RecordInv(r) ==
    /\ r \in SessionType
    /\ r.life = "none" <=> r.pc \in {"absent", "refused"}
    /\ r.life = "none" => r.proc = "none" /\ r.tunnel = "none"
    /\ r.pc = "absent" => r.ws = "none" /\ r.code = "none"
    /\ r.tunnel # "none" => r.named = "yes"
    /\ r.tunnel = "asked" => r.pc \in {"reverse", "forward", "ended"}
    /\ r.ws = "open" => r.code = "none"
    /\ r.pc = "refused" => r.code = "shutdown1001"

\* A session that is not over has a websocket that is not closed, and one whose
\* start() failed has told its viewer.
LiveSocket(r) ==
    /\ r.life = "live" => r.ws \in {"open", "closing"}
    /\ r.ws \in {"closing", "closed"} => r.code # "none"
    /\ r.life = "released" => r.ws \in {"closing", "closed"}
    /\ r.pc = "ended" /\ r.life = "live" => r.ws # "open"

OverHoldsNothing(r) == r.life = "released" => HoldsNothing(r)

SessionInv(r) == RecordInv(r) /\ LiveSocket(r) /\ OverHoldsNothing(r)

\* What one step may do to one session's record: the first cause of its end
\* stands, and once over it launches nothing.
StepPromise(r, q) ==
    /\ r.code # "none" => q.code = r.code
    /\ r.life = "released" =>
         /\ q.proc = "running" => r.proc = "running"
         /\ q.tunnel = "asked" => r.tunnel = "asked"
         /\ q.held = "open" => r.held = "open"

\* Except for its opening, a session only ever goes from live to over.
SessionStep(r, q) ==
    /\ StepPromise(r, q)
    /\ q.life = r.life \/ (r.life = "live" /\ q.life = "released")

-----------------------------------------------------------------------------
(* The operators on one session.                                           *)

\* releaseResources leaves nothing open and touches nothing else.
LEMMA FreedFields ==
  ASSUME NEW r \in SessionType
  PROVE  /\ Freed(r) \in SessionType
         /\ Freed(r).proc # "running" /\ Freed(r).held # "open" /\ Freed(r).listener # "open"
         /\ r.named = "yes" => Freed(r).removal = "running"
         /\ Freed(r).pc = r.pc /\ Freed(r).life = r.life /\ Freed(r).ws = r.ws
         /\ Freed(r).code = r.code /\ Freed(r).named = r.named /\ Freed(r).tunnel = r.tunnel
         /\ Freed(r).inHand = r.inHand
         /\ r.proc = "none" => Freed(r).proc = "none"
<1> DEFINE h == IF r.held = "open" THEN "destroyed" ELSE r.held
           p == IF r.proc = "running" THEN "killed" ELSE r.proc
           v == IF r.named = "yes" THEN "running" ELSE r.removal
           l == IF r.listener = "open" THEN "closed" ELSE r.listener
<1>1. /\ h \in {"none", "open", "destroyed"}
      /\ p \in {"none", "running", "killed", "dead"}
      /\ v \in {"idle", "running"}
      /\ l \in {"none", "open", "closed"}
  BY DEF SessionType
<1>2. /\ h # "open" /\ p # "running" /\ l # "open"
      /\ r.named = "yes" => v = "running"
      /\ r.proc = "none" => p = "none"
  OBVIOUS
<1>3. Freed(r) = [r EXCEPT !.held = h, !.proc = p, !.removal = v,
                           !.listener = l]
  BY DEF Freed
<1> HIDE DEF h, p, v, l
<1>4. Freed(r) \in SessionType
  <2> DEFINE a == [r EXCEPT !.held = h]
             b == [a EXCEPT !.proc = p]
             c == [b EXCEPT !.removal = v]
             d == [c EXCEPT !.listener = l]
  <2>1. a \in SessionType
    BY <1>1 DEF SessionType
  <2> HIDE DEF a
  <2>2. b \in SessionType
    BY <1>1, <2>1 DEF SessionType
  <2> HIDE DEF b
  <2>3. c \in SessionType
    BY <1>1, <2>2 DEF SessionType
  <2> HIDE DEF c
  <2>4. d \in SessionType
    BY <1>1, <2>3 DEF SessionType
  <2>5. Freed(r) = d
    BY <1>3 DEF a, b, c
  <2>6. QED
    BY <2>4, <2>5
<1>5. /\ Freed(r).held = h /\ Freed(r).proc = p
      /\ Freed(r).removal = v /\ Freed(r).listener = l
  BY <1>3 DEF SessionType
<1>6. /\ Freed(r).pc = r.pc /\ Freed(r).life = r.life /\ Freed(r).ws = r.ws
      /\ Freed(r).code = r.code /\ Freed(r).named = r.named /\ Freed(r).tunnel = r.tunnel
      /\ Freed(r).inHand = r.inHand
  BY <1>3 DEF SessionType
<1>7. QED
  BY <1>2, <1>4, <1>5, <1>6

\* After releaseResources a record holds nothing, whatever it held.
LEMMA FreedKeeps ==
  ASSUME NEW r, RecordInv(r)
  PROVE  RecordInv(Freed(r)) /\ HoldsNothing(Freed(r))
  BY FreedFields DEF RecordInv, HoldsNothing

\* release() ends a session for good and leaves it with nothing.
LEMMA ReleasedKeeps ==
  ASSUME NEW r, RecordInv(r), OverHoldsNothing(r), r.ws # "open",
         r.life # "none" => r.ws \in {"closing", "closed"},
         r.ws \in {"closing", "closed"} => r.code # "none"
  PROVE  /\ SessionInv(Released(r))
         /\ SessionStep(r, Released(r))
         /\ Released(r).life # "live"
         /\ Released(r).ws = r.ws
<1>1. CASE r.life = "live"
  <2> DEFINE q == [r EXCEPT !.life = "released"]
  <2>1. RecordInv(q)
    BY <1>1 DEF RecordInv, SessionType
  <2>2. /\ q.life = "released" /\ q.ws = r.ws /\ q.code = r.code
    BY DEF RecordInv, SessionType
  <2>3. Released(r) = Freed(q)
    BY <1>1 DEF Released
  <2> HIDE DEF q
  <2>4. /\ RecordInv(Freed(q)) /\ HoldsNothing(Freed(q))
        /\ Freed(q).life = "released" /\ Freed(q).ws = r.ws /\ Freed(q).code = r.code
    BY <2>1, <2>2, FreedKeeps, FreedFields DEF RecordInv
  <2>5. QED
    BY <1>1, <2>3, <2>4 DEF SessionInv, LiveSocket, OverHoldsNothing, SessionStep, StepPromise
<1>2. CASE r.life # "live"
  BY <1>2 DEF Released, SessionInv, LiveSocket, SessionStep, StepPromise
<1>3. QED
  BY <1>1, <1>2

\* ws.close(code) on a socket that is still open.
LEMMA ClosedKeeps ==
  ASSUME NEW r, RecordInv(r), NEW code \in Codes \ {"none"}
  PROVE  /\ RecordInv(Closed(r, code))
         /\ Closed(r, code).ws # "open"
         /\ r.ws = "open" => Closed(r, code).code = code /\ Closed(r, code).ws = "closing"
         /\ r.ws # "open" => Closed(r, code) = r
         /\ r.code # "none" => Closed(r, code).code = r.code
         /\ Closed(r, code).life = r.life /\ Closed(r, code).pc = r.pc
         /\ Closed(r, code).proc = r.proc /\ Closed(r, code).tunnel = r.tunnel
         /\ Closed(r, code).held = r.held
         /\ HoldsNothing(r) => HoldsNothing(Closed(r, code))
<1>1. CASE r.ws = "open"
  <2> DEFINE q == [r EXCEPT !.ws = "closing", !.code = code]
  <2>1. Closed(r, code) = q
    BY <1>1 DEF Closed
  <2>2. q \in SessionType
    BY DEF RecordInv, SessionType
  <2>3. QED
    BY <1>1, <2>1, <2>2 DEF RecordInv, SessionType, HoldsNothing
<1>2. CASE r.ws # "open"
  BY <1>2 DEF Closed
<1>3. QED
  BY <1>1, <1>2

\* The two ends that tell the viewer first.
LEMMA ToldEndKeeps ==
  ASSUME NEW r, SessionInv(r), NEW code \in Codes \ {"none"}, r.life = "live"
  PROVE  /\ SessionInv(Released(Closed(r, code)))
         /\ SessionStep(r, Released(Closed(r, code)))
         /\ Released(Closed(r, code)).life = "released"
<1> DEFINE c == Closed(r, code)
<1>1. /\ RecordInv(c) /\ c.life = "live" /\ c.ws = "closing" /\ c.code # "none"
      /\ r.code # "none" => c.code = r.code
  BY ClosedKeeps DEF SessionInv, LiveSocket
<1> HIDE DEF c
<1>2. /\ SessionInv(Released(c)) /\ SessionStep(c, Released(c)) /\ Released(c).life # "live"
  BY <1>1, ReleasedKeeps DEF OverHoldsNothing
<1>3. QED
  BY <1>1, <1>2 DEF SessionStep, StepPromise, c

\* releaseAsFailure: the viewer of a live session is told that it failed.
LEMMA ReleasedAsFailureKeeps ==
  ASSUME NEW r, SessionInv(r)
  PROVE  SessionInv(ReleasedAsFailure(r)) /\ SessionStep(r, ReleasedAsFailure(r))
<1>1. "failed4005" \in Codes \ {"none"}
  BY DEF Codes
<1>2. CASE r.life = "live"
  BY <1>1, <1>2, ToldEndKeeps DEF ReleasedAsFailure
<1>3. CASE r.life # "live"
  BY <1>3 DEF ReleasedAsFailure, SessionStep, StepPromise
<1>4. QED
  BY <1>2, <1>3

\* closeForShutdown.
LEMMA ClosedForShutdownKeeps ==
  ASSUME NEW r, SessionInv(r)
  PROVE  /\ SessionInv(ClosedForShutdown(r)) /\ SessionStep(r, ClosedForShutdown(r))
         /\ ClosedForShutdown(r).life # "live"
<1>1. "shutdown1001" \in Codes \ {"none"}
  BY DEF Codes
<1>2. CASE r.life = "live"
  BY <1>1, <1>2, ToldEndKeeps DEF ClosedForShutdown
<1>3. CASE r.life # "live"
  BY <1>3 DEF ClosedForShutdown, SessionStep, StepPromise
<1>4. QED
  BY <1>2, <1>3

\* The websocket's 'close' event ends its session.
LEMMA SocketClosedKeeps ==
  ASSUME NEW r, SessionInv(r), NEW code \in Codes,
         r.ws \in {"open", "closing"}, r.ws = "open" => code # "none"
  PROVE  /\ SessionInv(SocketClosed(r, code)) /\ SessionStep(r, SocketClosed(r, code))
         /\ SocketClosed(r, code).life # "live"
<1> DEFINE told == IF r.code = "none" THEN code ELSE r.code
           q == [r EXCEPT !.ws = "closed", !.code = told]
<1>1. told \in Codes /\ (r.code # "none" => told = r.code)
  BY DEF SessionInv, RecordInv, SessionType
<1>2. SocketClosed(r, code) = Released(q)
  BY DEF SocketClosed
<1> HIDE DEF told
<1>3. q \in SessionType
  BY <1>1 DEF SessionInv, RecordInv, SessionType
<1>4. RecordInv(q) /\ OverHoldsNothing(q) /\ q.ws = "closed"
  BY <1>1, <1>3 DEF SessionInv, RecordInv, SessionType, OverHoldsNothing, HoldsNothing
<1>5. q.code # "none"
  BY DEF told, SessionInv, LiveSocket, RecordInv, SessionType
<1>6. SessionStep(r, q) /\ q.life = r.life
  BY <1>1 DEF SessionInv, RecordInv, SessionType, SessionStep, StepPromise
<1> HIDE DEF q
<1>7. SessionInv(Released(q)) /\ SessionStep(q, Released(q)) /\ Released(q).life # "live"
  BY <1>4, <1>5, ReleasedKeeps
<1>8. QED
  BY <1>2, <1>6, <1>7 DEF SessionStep, StepPromise

\* The steps start() can go on to.
Onward == {"push", "listen", "reverse", "accept", "reserve", "forward", "dummy", "beat",
           "control", "metadata", "live"}

\* abandonIfReleased: a start() goes on only with a session that is not over.
LEMMA ContinuedKeeps ==
  ASSUME NEW r, RecordInv(r), LiveSocket(r), r.life # "none", r.tunnel # "asked",
         NEW next \in Onward
  PROVE  /\ SessionInv(Continued(r, next))
         /\ Continued(r, next).code = r.code /\ Continued(r, next).life = r.life
         /\ r.life = "released" => Continued(r, next).pc = "ended"
         /\ Continued(r, next).pc \in {next, "ended"}
         /\ Continued(r, next).tunnel = r.tunnel
<1>1. CASE r.life = "released"
  <2> DEFINE q == [r EXCEPT !.pc = "ended", !.inHand = 0]
  <2>1. q \in SessionType
    <3> DEFINE a == [r EXCEPT !.pc = "ended"]
    <3>1. a \in SessionType
      BY DEF RecordInv, SessionType, Steps
    <3>2. 0 \in 0..Connections
      BY SessionAssumption DEF SessionAssumption
    <3>3. q = [a EXCEPT !.inHand = 0]
      OBVIOUS
    <3> HIDE DEF a, q
    <3>4. QED
      BY <3>1, <3>2, <3>3 DEF SessionType
  <2>2. /\ RecordInv(q) /\ LiveSocket(q) /\ q.life = "released" /\ q.pc = "ended"
        /\ q.code = r.code /\ q.tunnel = r.tunnel
    BY <1>1, <2>1 DEF RecordInv, LiveSocket, SessionType
  <2>3. Continued(r, next) = Freed(q)
    BY <1>1 DEF Continued
  <2> HIDE DEF q
  <2>4. /\ RecordInv(Freed(q)) /\ HoldsNothing(Freed(q))
        /\ Freed(q).life = "released" /\ Freed(q).pc = "ended"
        /\ Freed(q).code = r.code /\ Freed(q).tunnel = r.tunnel /\ Freed(q).ws = q.ws
    BY <2>1, <2>2, FreedKeeps, FreedFields
  <2>5. LiveSocket(Freed(q))
    BY <2>2, <2>4 DEF LiveSocket
  <2>6. QED
    BY <1>1, <2>3, <2>4, <2>5 DEF SessionInv, OverHoldsNothing
<1>2. CASE r.life = "live"
  <2> DEFINE q == [r EXCEPT !.pc = next]
  <2>1. q \in SessionType
    BY DEF RecordInv, SessionType, Steps, Starting, ReversePath, ForwardPath, Onward
  <2>2. RecordInv(q) /\ LiveSocket(q) /\ q.life = "live"
    BY <1>2, <2>1 DEF RecordInv, LiveSocket, SessionType, Onward
  <2>3. Continued(r, next) = q
    BY <1>2 DEF Continued
  <2>4. QED
    BY <1>2, <2>2, <2>3 DEF SessionInv, OverHoldsNothing, RecordInv, SessionType
<1>3. QED
  BY <1>1, <1>2 DEF RecordInv, SessionType

\* The adb command and the launch that follow a check are those of a live session.
LEMMA AskKeeps ==
  ASSUME NEW r, SessionInv(r), r.pc \in {"reverse", "forward", "ended"},
         r.pc # "ended" => r.life = "live"
  PROVE  SessionInv(Ask(r)) /\ SessionStep(r, Ask(r))
<1>1. CASE r.pc = "ended"
  BY <1>1 DEF Ask, SessionStep, StepPromise
<1>2. CASE r.pc # "ended"
  <2> DEFINE q == [r EXCEPT !.named = "yes", !.tunnel = "asked"]
  <2>1. Ask(r) = q /\ r.life = "live"
    BY <1>2 DEF Ask
  <2>2. q \in SessionType
    BY DEF SessionInv, RecordInv, SessionType
  <2>3. QED
    BY <2>1, <2>2 DEF SessionInv, RecordInv, SessionType, LiveSocket, OverHoldsNothing, SessionStep, StepPromise
<1>3. QED
  BY <1>1, <1>2

LEMMA LaunchKeeps ==
  ASSUME NEW r, SessionInv(r), r.pc # "ended" => r.life = "live"
  PROVE  SessionInv(Launch(r)) /\ SessionStep(r, Launch(r))
<1>1. CASE r.pc = "ended"
  BY <1>1 DEF Launch, SessionStep, StepPromise
<1>2. CASE r.pc # "ended"
  <2> DEFINE q == [r EXCEPT !.proc = "running"]
  <2>1. Launch(r) = q /\ r.life = "live"
    BY <1>2 DEF Launch
  <2>2. q \in SessionType
    BY DEF SessionInv, RecordInv, SessionType
  <2>3. QED
    BY <2>1, <2>2 DEF SessionInv, RecordInv, SessionType, LiveSocket, OverHoldsNothing, SessionStep, StepPromise
<1>3. QED
  BY <1>1, <1>2

\* A rejected start() is told to the viewer of a session that is not over.
LEMMA FailedKeeps ==
  ASSUME NEW r, SessionInv(r), r.life # "none"
  PROVE  SessionInv(Failed(r)) /\ SessionStep(r, Failed(r))
<1> DEFINE q == [r EXCEPT !.pc = "ended"]
<1>1. q \in SessionType
  BY DEF SessionInv, RecordInv, SessionType, Steps
<1>2. /\ RecordInv(q) /\ OverHoldsNothing(q) /\ SessionStep(r, q)
      /\ q.life = r.life /\ q.ws = r.ws /\ q.code = r.code /\ q.pc = "ended"
  BY <1>1 DEF SessionInv, RecordInv, SessionType, OverHoldsNothing, HoldsNothing, SessionStep, StepPromise
<1>3. CASE r.life = "released"
  BY <1>2, <1>3 DEF Failed, SessionInv, LiveSocket
<1>4. CASE r.life = "live"
  <2>1. Failed(r) = Closed(q, "failed4005")
    BY <1>4 DEF Failed
  <2>2. "failed4005" \in Codes \ {"none"}
    BY DEF Codes
  <2> HIDE DEF q
  <2> DEFINE c == Closed(q, "failed4005")
  <2>3. /\ RecordInv(c) /\ c.ws # "open" /\ c.life = "live"
        /\ q.ws = "open" => c.code = "failed4005" /\ c.ws = "closing"
        /\ q.ws # "open" => c = q
        /\ q.code # "none" => c.code = q.code
    BY <1>2, <1>4, <2>2, ClosedKeeps
  <2> HIDE DEF c
  <2>4. LiveSocket(c) /\ OverHoldsNothing(c)
    BY <1>2, <2>3 DEF SessionInv, LiveSocket, OverHoldsNothing
  <2>5. SessionStep(r, c)
    BY <1>2, <1>4, <2>3 DEF SessionStep, StepPromise
  <2>6. QED
    BY <2>1, <2>3, <2>4, <2>5 DEF SessionInv, c
<1>5. QED
  BY <1>3, <1>4 DEF SessionInv, RecordInv, SessionType

\* adb kill-server takes the tunnel and the process of a session.
LEMMA AdbGoneKeeps ==
  ASSUME NEW r, SessionInv(r)
  PROVE  SessionInv(AdbGone(r)) /\ SessionStep(r, AdbGone(r)) /\ AdbGone(r).life = r.life
<1> DEFINE t == IF r.tunnel = "asked" THEN r.tunnel ELSE "none"
           p == IF r.proc = "running" THEN "killed" ELSE r.proc
           a == [r EXCEPT !.tunnel = t]
           b == [a EXCEPT !.proc = p]
<1>1. /\ t \in {"none", "asked", "up", "stuck"} /\ p \in {"none", "running", "killed", "dead"}
      /\ t \in {r.tunnel, "none"} /\ t # "up" /\ p # "running"
      /\ r.proc = "none" => p = "none"
  BY DEF SessionInv, RecordInv, SessionType
<1>2. AdbGone(r) = b
  BY DEF AdbGone
<1> HIDE DEF t, p
<1>3. a \in SessionType /\ a.tunnel = t
  BY <1>1 DEF SessionInv, RecordInv, SessionType
<1>4. /\ a.pc = r.pc /\ a.life = r.life /\ a.ws = r.ws /\ a.code = r.code
      /\ a.named = r.named /\ a.held = r.held /\ a.listener = r.listener
  BY <1>3 DEF SessionInv, RecordInv, SessionType
<1> HIDE DEF a
<1>5. b \in SessionType /\ b.proc = p
  BY <1>1, <1>3 DEF SessionType
<1>6. /\ b.pc = a.pc /\ b.life = a.life /\ b.ws = a.ws /\ b.code = a.code
      /\ b.named = a.named /\ b.held = a.held /\ b.listener = a.listener
      /\ b.tunnel = a.tunnel
  BY <1>3 DEF SessionType
<1> HIDE DEF b
<1>7. QED
  BY <1>1, <1>2, <1>3, <1>4, <1>5, <1>6
     DEF SessionInv, RecordInv, LiveSocket, OverHoldsNothing, HoldsNothing, SessionStep, StepPromise

-----------------------------------------------------------------------------
(* The actions of one session.                                             *)

\* Some record r' follows session s's by action A: it keeps the invariant.
Follows(s, q) == Becomes(s, q) /\ SessionInv(q) /\ SessionStep(session[s], q)

\* The last wait of start(): a live session gets its sockets, and none but it.
LEMMA SocketsInHandKeep ==
  ASSUME NEW r, SessionInv(r), r.pc \in {"accept", "control"}
  PROVE  LET q == Continued([r EXCEPT !.inHand = 0, !.held = "open"], "metadata")
         IN  SessionInv(q) /\ SessionStep(r, q)
<1> DEFINE a == [r EXCEPT !.inHand = 0]
           b == [a EXCEPT !.held = "open"]
           q == Continued(b, "metadata")
<1>1. 0 \in 0..Connections
  BY SessionAssumption DEF SessionAssumption
<1>2. /\ a \in SessionType /\ a.pc = r.pc /\ a.life = r.life /\ a.ws = r.ws /\ a.code = r.code
      /\ a.named = r.named /\ a.tunnel = r.tunnel /\ a.proc = r.proc
  BY <1>1 DEF SessionInv, RecordInv, SessionType
<1> HIDE DEF a
<1>3. /\ b \in SessionType /\ b.pc = a.pc /\ b.life = a.life /\ b.ws = a.ws /\ b.code = a.code
      /\ b.named = a.named /\ b.tunnel = a.tunnel /\ b.proc = a.proc
  BY <1>2 DEF SessionType
<1> HIDE DEF b
<1>4. RecordInv(b) /\ LiveSocket(b) /\ b.life # "none" /\ b.tunnel # "asked"
  BY <1>2, <1>3 DEF SessionInv, RecordInv, LiveSocket
<1>5. "metadata" \in Onward
  BY DEF Onward
<1> HIDE DEF q
<1>6. /\ SessionInv(q) /\ q.code = b.code /\ q.life = b.life /\ q.tunnel = b.tunnel
  BY <1>4, <1>5, ContinuedKeeps DEF q
<1>7. SessionStep(r, q)
  BY <1>2, <1>3, <1>6 DEF SessionStep, StepPromise, SessionInv, OverHoldsNothing, HoldsNothing
<1>8. QED
  BY <1>6, <1>7 DEF q, a, b

\* An await that changes nothing but where start() is.
LEMMA PlainContinuedKeeps ==
  ASSUME NEW r, SessionInv(r), r.life # "none", r.tunnel # "asked", NEW next \in Onward
  PROVE  SessionInv(Continued(r, next)) /\ SessionStep(r, Continued(r, next))
<1> DEFINE q == Continued(r, next)
<1>1. /\ SessionInv(q) /\ q.code = r.code /\ q.life = r.life /\ q.tunnel = r.tunnel
  BY ContinuedKeeps DEF SessionInv
<1> HIDE DEF q
<1>2. QED
  BY <1>1 DEF SessionStep, StepPromise, SessionInv, OverHoldsNothing, HoldsNothing, q

\* Every step of start() of session s replaces its record by one that keeps the
\* invariant.
LEMMA StartFollows ==
  ASSUME NEW s \in Sessions, SessionInv(session[s]), Start(s)
  PROVE  \E q : Follows(s, q)
<1> DEFINE r == session[s]
<1>1. CASE ProbeDone(s)
  BY <1>1, PlainContinuedKeeps DEF ProbeDone, At, Follows, Onward, SessionInv, RecordInv
<1>2. CASE PushDone(s)
  <2>1. PICK next \in {"listen", "reserve"} : Becomes(s, Continued(r, next))
    BY <1>2 DEF PushDone
  <2>2. next \in Onward
    BY DEF Onward
  <2>3. QED
    BY <1>2, <2>1, <2>2, PlainContinuedKeeps DEF PushDone, At, Follows, SessionInv, RecordInv
<1>3. CASE PushFails(s) \/ ListenFails(s) \/ ReserveFails(s) \/ DummyTimesOut(s)
           \/ ControlFails(s) \/ MetadataFails(s)
  <2>1. r.life # "none" /\ Becomes(s, Failed(r))
    BY <1>3 DEF PushFails, ListenFails, ReserveFails, DummyTimesOut, ControlFails,
                MetadataFails, At, SessionInv, RecordInv
  <2>2. QED
    BY <2>1, FailedKeeps DEF Follows
<1>4. CASE ListenDone(s)
  <2> DEFINE a == [r EXCEPT !.listener = "open"]
             c == Continued(a, "reverse")
  <2>1. Becomes(s, Ask(c)) /\ r.pc = "listen"
    BY <1>4 DEF ListenDone, At
  <2>2. a \in SessionType
    BY DEF SessionInv, RecordInv, SessionType
  <2>3. /\ RecordInv(a) /\ LiveSocket(a) /\ a.life # "none" /\ a.tunnel # "asked"
        /\ a.code = r.code /\ a.life = r.life /\ a.tunnel = r.tunnel
    BY <2>1, <2>2 DEF SessionInv, RecordInv, LiveSocket, SessionType
  <2> HIDE DEF a
  <2>4. "reverse" \in Onward
    BY DEF Onward
  <2>5. /\ SessionInv(c) /\ c.code = r.code /\ c.life = r.life /\ c.tunnel = r.tunnel
        /\ c.pc \in {"reverse", "ended"} /\ (r.life = "released" => c.pc = "ended")
    BY <2>3, <2>4, ContinuedKeeps
  <2> HIDE DEF c
  <2>6. SessionStep(r, c)
    BY <2>5 DEF SessionStep, StepPromise, SessionInv, OverHoldsNothing, HoldsNothing
  <2>7. c.pc # "ended" => c.life = "live"
    BY <2>5 DEF SessionInv, RecordInv, SessionType
  <2>8. SessionInv(Ask(c)) /\ SessionStep(c, Ask(c))
    BY <2>5, <2>7, AskKeeps
  <2>9. SessionStep(r, Ask(c))
    BY <2>6, <2>8 DEF SessionStep, StepPromise
  <2>10. QED
    BY <2>1, <2>8, <2>9 DEF Follows, c, a
<1>5. CASE ReserveDone(s)
  <2> DEFINE c == Continued(r, "forward")
  <2>1. Becomes(s, Ask(c)) /\ r.pc = "reserve"
    BY <1>5 DEF ReserveDone, At
  <2>2. r.life # "none" /\ r.tunnel # "asked" /\ "forward" \in Onward
    BY <2>1 DEF SessionInv, RecordInv, Onward
  <2>3. /\ SessionInv(c) /\ c.life = r.life /\ SessionStep(r, c)
        /\ c.pc \in {"forward", "ended"} /\ (r.life = "released" => c.pc = "ended")
    BY <2>2, ContinuedKeeps, PlainContinuedKeeps DEF SessionInv
  <2> HIDE DEF c
  <2>4. c.pc # "ended" => c.life = "live"
    BY <2>3 DEF SessionInv, RecordInv, SessionType
  <2>5. SessionInv(Ask(c)) /\ SessionStep(c, Ask(c))
    BY <2>3, <2>4, AskKeeps
  <2>6. SessionStep(r, Ask(c))
    BY <2>3, <2>5 DEF SessionStep, StepPromise
  <2>7. QED
    BY <2>1, <2>5, <2>6 DEF Follows, c
<1>6. CASE ReverseDone(s) \/ ForwardDone(s)
  <2>1. PICK next \in {"accept", "dummy"} : Becomes(s, Launch(Continued(r, next)))
    BY <1>6 DEF ReverseDone, ForwardDone
  <2> DEFINE c == Continued(r, next)
  <2>2. r.life # "none" /\ r.tunnel # "asked" /\ next \in Onward
    BY <1>6 DEF ReverseDone, ForwardDone, At, SessionInv, RecordInv, Onward
  <2>3. /\ SessionInv(c) /\ c.life = r.life /\ SessionStep(r, c)
        /\ (r.life = "released" => c.pc = "ended")
    BY <2>2, ContinuedKeeps, PlainContinuedKeeps DEF SessionInv
  <2> HIDE DEF c
  <2>4. c.pc # "ended" => c.life = "live"
    BY <2>2, <2>3 DEF SessionInv, RecordInv, SessionType
  <2>5. SessionInv(Launch(c)) /\ SessionStep(c, Launch(c))
    BY <2>3, <2>4, LaunchKeeps
  <2>6. SessionStep(r, Launch(c))
    BY <2>3, <2>5 DEF SessionStep, StepPromise
  <2>7. QED
    BY <2>1, <2>5, <2>6 DEF Follows, c
<1>7. CASE ConnectionArrives(s)
  <2>1. CASE r.inHand + 1 < Connections
    <3> DEFINE q == [r EXCEPT !.inHand = r.inHand + 1]
    <3>1. Becomes(s, q)
      BY <1>7, <2>1 DEF ConnectionArrives
    <3>2. r.inHand + 1 \in 0..Connections
      BY <2>1, SessionAssumption DEF SessionInv, RecordInv, SessionType, SessionAssumption
    <3>3. q \in SessionType
      BY <3>2 DEF SessionInv, RecordInv, SessionType
    <3>4. SessionInv(q) /\ SessionStep(r, q)
      BY <3>3 DEF SessionInv, RecordInv, SessionType, LiveSocket, OverHoldsNothing,
                  HoldsNothing, SessionStep, StepPromise
    <3>5. QED
      BY <3>1, <3>4 DEF Follows
  <2>2. CASE ~(r.inHand + 1 < Connections)
    BY <1>7, <2>2, SocketsInHandKeep DEF ConnectionArrives, At, Follows
  <2>3. QED
    BY <2>1, <2>2
<1>8. CASE ControlConnects(s)
  BY <1>8, SocketsInHandKeep DEF ControlConnects, At, Follows
<1>9. CASE AcceptTimesOut(s)
  <2> DEFINE a == [r EXCEPT !.inHand = 0]
  <2>1. Becomes(s, Failed(a)) /\ r.pc = "accept"
    BY <1>9 DEF AcceptTimesOut, At
  <2>2. 0 \in 0..Connections
    BY SessionAssumption DEF SessionAssumption
  <2>3. a \in SessionType
    BY <2>2 DEF SessionInv, RecordInv, SessionType
  <2>4. SessionInv(a) /\ SessionStep(r, a) /\ a.life # "none"
    BY <2>1, <2>3 DEF SessionInv, RecordInv, SessionType, LiveSocket, OverHoldsNothing,
                      HoldsNothing, SessionStep, StepPromise
  <2> HIDE DEF a
  <2>5. SessionInv(Failed(a)) /\ SessionStep(a, Failed(a))
    BY <2>4, FailedKeeps
  <2>6. SessionStep(r, Failed(a))
    BY <2>4, <2>5 DEF SessionStep, StepPromise
  <2>7. QED
    BY <2>1, <2>5, <2>6 DEF Follows, a
<1>10. CASE DummyConnects(s)
  <2>1. r.pc = "dummy" /\ r.life # "none" /\ r.tunnel # "asked" /\ "dummy" \in Onward
    BY <1>10 DEF DummyConnects, At, SessionInv, RecordInv, Onward
  <2>2. CASE Becomes(s, Continued(r, "dummy"))
    BY <2>1, <2>2, PlainContinuedKeeps DEF Follows
  <2>3. CASE Becomes(s, [r EXCEPT !.inHand = 1])
    <3> DEFINE q == [r EXCEPT !.inHand = 1]
    <3>1. 1 \in 0..Connections
      BY SessionAssumption DEF SessionAssumption
    <3>2. q \in SessionType
      BY <3>1 DEF SessionInv, RecordInv, SessionType
    <3>3. SessionInv(q) /\ SessionStep(r, q)
      BY <3>2 DEF SessionInv, RecordInv, SessionType, LiveSocket, OverHoldsNothing,
                  HoldsNothing, SessionStep, StepPromise
    <3>4. QED
      BY <2>3, <3>3 DEF Follows
  <2>4. QED
    BY <1>10, <2>2, <2>3 DEF DummyConnects
<1>11. CASE DummyIsStale(s)
  <2> DEFINE q == [r EXCEPT !.inHand = 0]
  <2>1. 0 \in 0..Connections
    BY SessionAssumption DEF SessionAssumption
  <2>2. q \in SessionType
    BY <2>1 DEF SessionInv, RecordInv, SessionType
  <2>3. SessionInv(q) /\ SessionStep(r, q)
    BY <2>2 DEF SessionInv, RecordInv, SessionType, LiveSocket, OverHoldsNothing,
                HoldsNothing, SessionStep, StepPromise
  <2>4. QED
    BY <1>11, <2>3 DEF DummyIsStale, Follows
<1>12. CASE DummyArrives(s) \/ BeatDone(s) \/ MetadataRead(s)
  <2>1. PICK next \in {"beat", "control", "live"} : Becomes(s, Continued(r, next))
    BY <1>12 DEF DummyArrives, BeatDone, MetadataRead
  <2>2. r.life # "none" /\ r.tunnel # "asked" /\ next \in Onward
    BY <1>12 DEF DummyArrives, BeatDone, MetadataRead, At, SessionInv, RecordInv, Onward
  <2>3. QED
    BY <2>1, <2>2, PlainContinuedKeeps DEF Follows
<1>13. CASE TunnelCommandFails(s)
  <2>1. PICK t \in {r.tunnel, "none"} : Becomes(s, Failed([r EXCEPT !.tunnel = t]))
    BY <1>13 DEF TunnelCommandFails
  <2> DEFINE a == [r EXCEPT !.tunnel = t]
  <2>2. a \in SessionType
    BY DEF SessionInv, RecordInv, SessionType
  <2>3. r.pc \in {"reverse", "forward"}
    BY <1>13 DEF TunnelCommandFails
  <2>4. SessionInv(a) /\ SessionStep(r, a) /\ a.life # "none"
    BY <2>2, <2>3 DEF SessionInv, RecordInv, SessionType, LiveSocket, OverHoldsNothing,
                      HoldsNothing, SessionStep, StepPromise
  <2> HIDE DEF a
  <2>5. SessionInv(Failed(a)) /\ SessionStep(a, Failed(a))
    BY <2>4, FailedKeeps
  <2>6. SessionStep(r, Failed(a))
    BY <2>4, <2>5 DEF SessionStep, StepPromise
  <2>7. QED
    BY <2>1, <2>5, <2>6 DEF Follows, a
<1>14. QED
  BY <1>1, <1>2, <1>3, <1>4, <1>5, <1>6, <1>7, <1>8, <1>9, <1>10, <1>11, <1>12, <1>13
     DEF Start

\* So does every event of the device and of adb.
LEMMA DeviceFollows ==
  ASSUME NEW s \in Sessions, SessionInv(session[s]), Device(s)
  PROVE  \E q : Follows(s, q)
<1> DEFINE r == session[s]
<1>1. CASE VideoEnds(s)
  BY <1>1, ReleasedAsFailureKeeps DEF VideoEnds, Follows
<1>2. CASE ServerProcessExits(s)
  <2> DEFINE a == [r EXCEPT !.proc = "dead"]
  <2>1. Becomes(s, ReleasedAsFailure(a)) /\ r.proc \in {"running", "killed"}
    BY <1>2 DEF ServerProcessExits
  <2>2. a \in SessionType
    BY DEF SessionInv, RecordInv, SessionType
  <2>3. SessionInv(a) /\ SessionStep(r, a)
    BY <2>1, <2>2 DEF SessionInv, RecordInv, SessionType, LiveSocket, OverHoldsNothing,
                      HoldsNothing, SessionStep, StepPromise
  <2> HIDE DEF a
  <2>4. SessionInv(ReleasedAsFailure(a)) /\ SessionStep(a, ReleasedAsFailure(a))
    BY <2>3, ReleasedAsFailureKeeps
  <2>5. SessionStep(r, ReleasedAsFailure(a))
    BY <2>3, <2>4 DEF SessionStep, StepPromise
  <2>6. QED
    BY <2>1, <2>4, <2>5 DEF Follows, a
<1>3. CASE TunnelComesUp(s)
  <2> DEFINE q == [r EXCEPT !.tunnel = "up"]
  <2>1. Becomes(s, q) /\ r.tunnel = "asked"
    BY <1>3 DEF TunnelComesUp
  <2>2. q \in SessionType
    BY DEF SessionInv, RecordInv, SessionType
  <2>3. SessionInv(q) /\ SessionStep(r, q)
    BY <2>1, <2>2 DEF SessionInv, RecordInv, SessionType, LiveSocket, OverHoldsNothing,
                      HoldsNothing, SessionStep, StepPromise
  <2>4. QED
    BY <2>1, <2>3 DEF Follows
<1>4. CASE RemovalRuns(s)
  <2>1. PICK t \in IF r.tunnel = "up" THEN {"none", "stuck"} ELSE {r.tunnel} :
          Becomes(s, [r EXCEPT !.removal = "idle", !.tunnel = t])
    BY <1>4 DEF RemovalRuns
  <2>2. /\ t \in {"none", "asked", "up", "stuck"} /\ t # "up"
        /\ t = "asked" => r.tunnel = "asked"
        /\ r.tunnel = "none" => t = "none"
    BY <2>1 DEF SessionInv, RecordInv, SessionType
  <2> DEFINE a == [r EXCEPT !.removal = "idle"]
             q == [a EXCEPT !.tunnel = t]
  <2>3. a \in SessionType /\ a.tunnel = r.tunnel
    BY DEF SessionInv, RecordInv, SessionType
  <2>4. /\ a.pc = r.pc /\ a.life = r.life /\ a.ws = r.ws /\ a.code = r.code
        /\ a.named = r.named /\ a.held = r.held /\ a.listener = r.listener /\ a.proc = r.proc
    BY <2>3 DEF SessionInv, RecordInv, SessionType
  <2>5. Becomes(s, q)
    BY <2>1
  <2> HIDE DEF a
  <2>6. q \in SessionType /\ q.tunnel = t
    BY <2>2, <2>3 DEF SessionType
  <2>7. /\ q.pc = a.pc /\ q.life = a.life /\ q.ws = a.ws /\ q.code = a.code
        /\ q.named = a.named /\ q.held = a.held /\ q.listener = a.listener /\ q.proc = a.proc
    BY <2>3 DEF SessionType
  <2> HIDE DEF q
  <2>8. SessionInv(q) /\ SessionStep(r, q)
    BY <2>2, <2>3, <2>4, <2>6, <2>7
       DEF SessionInv, RecordInv, LiveSocket, OverHoldsNothing, HoldsNothing, SessionStep, StepPromise
  <2>9. QED
    BY <2>5, <2>8 DEF Follows
<1>5. CASE ConnectionIsLate(s)
  <2> DEFINE q == [r EXCEPT !.inHand = r.inHand + 1]
  <2>1. Becomes(s, q) /\ r.inHand + 1 < Connections
    BY <1>5 DEF ConnectionIsLate
  <2>2. r.inHand + 1 \in 0..Connections
    BY <2>1, SessionAssumption DEF SessionInv, RecordInv, SessionType, SessionAssumption
  <2>3. q \in SessionType
    BY <2>2 DEF SessionInv, RecordInv, SessionType
  <2>4. SessionInv(q) /\ SessionStep(r, q)
    BY <2>3 DEF SessionInv, RecordInv, SessionType, LiveSocket, OverHoldsNothing,
                HoldsNothing, SessionStep, StepPromise
  <2>5. QED
    BY <2>1, <2>4 DEF Follows
<1>6. QED
  BY <1>1, <1>2, <1>3, <1>4, <1>5 DEF Device

\* And every event of its websocket.
LEMMA SocketFollows ==
  ASSUME NEW s \in Sessions, SessionInv(session[s]), Socket(s)
  PROVE  \E q : Follows(s, q)
<1> DEFINE r == session[s]
<1>1. CASE BrowserCloses(s)
  <2> DEFINE q == [r EXCEPT !.ws = "closing", !.code = "browser"]
  <2>1. Becomes(s, q) /\ r.ws = "open"
    BY <1>1 DEF BrowserCloses
  <2>2. q \in SessionType
    BY DEF SessionInv, RecordInv, SessionType, Codes
  <2>3. SessionInv(q) /\ SessionStep(r, q)
    BY <2>1, <2>2 DEF SessionInv, RecordInv, SessionType, LiveSocket, OverHoldsNothing,
                      HoldsNothing, SessionStep, StepPromise
  <2>4. QED
    BY <2>1, <2>3 DEF Follows
<1>2. CASE BrowserVanishes(s)
  <2>1. "browser" \in Codes
    BY DEF Codes
  <2>2. QED
    BY <1>2, <2>1, SocketClosedKeeps DEF BrowserVanishes, Follows
<1>3. CASE CloseCompletes(s) \/ WatchdogTerminates(s)
  <2>1. "none" \in Codes
    BY DEF Codes
  <2>2. QED
    BY <1>3, <2>1, SocketClosedKeeps DEF CloseCompletes, WatchdogTerminates, Follows
<1>4. QED
  BY <1>1, <1>2, <1>3 DEF Socket

-----------------------------------------------------------------------------
(* The whole server.                                                       *)

\* The inductive invariant: that of every session, and a registry that holds
\* the sessions that are not over.
SessionsInv ==
    /\ session \in [Sessions -> SessionType]
    /\ \A s \in Sessions : SessionInv(session[s])
    /\ RegistryIsLiveSessions

\* During a stop no session begins.
StaysShut(s) ==
    stopping /\ session[s].life # "live" => session'[s].life = session[s].life

\* What a step may do to all sessions.
SessionsStep == \A s \in Sessions : StepPromise(session[s], session'[s]) /\ StaysShut(s)

\* One session's record is replaced.
LEMMA FollowsKeeps ==
  ASSUME SessionsInv, NEW s \in Sessions, NEW q, Follows(s, q)
  PROVE  SessionsInv' /\ SessionsStep
<1>1. /\ session' = [session EXCEPT ![s] = q] /\ registry' = Tracked(s)
      /\ SessionInv(q) /\ SessionStep(session[s], q)
  BY DEF Follows, Becomes
<1>2. session'[s] = q /\ \A t \in Sessions \ {s} : session'[t] = session[t]
  BY <1>1 DEF SessionsInv
<1>3. q \in SessionType
  BY <1>1 DEF SessionInv, RecordInv
<1>4. session' \in [Sessions -> SessionType]
  BY <1>1, <1>3 DEF SessionsInv
<1>5. \A t \in Sessions : SessionInv(session'[t])
  BY <1>1, <1>2 DEF SessionsInv
<1>6. SessionsStep
  BY <1>1, <1>2 DEF SessionsStep, SessionStep, StepPromise, StaysShut
<1>7. registry' = {t \in Sessions : session'[t].life = "live"}
  <2>1. registry = {t \in Sessions : session[t].life = "live"}
    BY DEF SessionsInv, RegistryIsLiveSessions
  <2>2. CASE q.life = "released"
    <3>1. registry' = registry \ {s}
      BY <1>1, <1>2, <2>2 DEF Tracked
    <3>2. QED
      BY <1>2, <2>1, <2>2, <3>1
  <2>3. CASE q.life # "released"
    <3>1. registry' = registry /\ q.life = session[s].life
      BY <1>1, <1>2, <2>3 DEF Tracked, SessionStep, StepPromise
    <3>2. QED
      BY <1>2, <2>1, <3>1
  <2>4. QED
    BY <2>2, <2>3
<1>8. QED
  BY <1>4, <1>5, <1>6, <1>7 DEF SessionsInv, RegistryIsLiveSessions

\* All records are replaced at once, by F.
LEMMA SweepKeeps ==
  ASSUME SessionsInv, session' \in [Sessions -> SessionType],
         \A s \in Sessions : /\ SessionInv(session'[s])
                             /\ StepPromise(session[s], session'[s]) /\ StaysShut(s),
         registry' = {s \in Sessions : session'[s].life = "live"}
  PROVE  SessionsInv' /\ SessionsStep
  BY DEF SessionsInv, SessionsStep, RegistryIsLiveSessions

\* closeAllForShutdown.
LEMMA CloseAllKeeps ==
  ASSUME SessionsInv, CloseAllForShutdown
  PROVE  SessionsInv' /\ SessionsStep
<1>1. \A s \in Sessions :
        /\ SessionInv(session'[s]) /\ SessionStep(session[s], session'[s])
        /\ session'[s].life # "live"
  <2> SUFFICES ASSUME NEW s \in Sessions
               PROVE  /\ SessionInv(session'[s]) /\ SessionStep(session[s], session'[s])
                      /\ session'[s].life # "live"
    OBVIOUS
  <2>1. SessionInv(session[s])
    BY DEF SessionsInv
  <2>2. CASE s \in registry
    <3>1. session'[s] = ClosedForShutdown(session[s])
      BY <2>2 DEF CloseAllForShutdown
    <3>2. QED
      BY <2>1, <3>1, ClosedForShutdownKeeps
  <2>3. CASE s \notin registry
    <3>1. session'[s] = session[s] /\ session[s].life # "live"
      BY <2>3 DEF CloseAllForShutdown, SessionsInv, RegistryIsLiveSessions
    <3>2. QED
      BY <2>1, <3>1 DEF SessionStep, StepPromise
  <2>4. QED
    BY <2>2, <2>3
<1>2. \A s \in Sessions : session'[s] \in SessionType
  BY <1>1 DEF SessionInv, RecordInv
<1>3. session' \in [Sessions -> SessionType]
  BY <1>2 DEF CloseAllForShutdown
<1>4. registry' = {s \in Sessions : session'[s].life = "live"}
  BY <1>1 DEF CloseAllForShutdown
<1>5. QED
  BY <1>1, <1>3, <1>4, SweepKeeps DEF SessionStep, StaysShut

\* adb kill-server ends no session by itself.
LEMMA KillServerKeeps ==
  ASSUME SessionsInv, KillServer, UNCHANGED registry
  PROVE  SessionsInv' /\ SessionsStep
<1>1. \A s \in Sessions :
        /\ SessionInv(session'[s]) /\ SessionStep(session[s], session'[s])
        /\ session'[s].life = session[s].life
  BY AdbGoneKeeps DEF KillServer, SessionsInv
<1>2. \A s \in Sessions : session'[s] \in SessionType
  BY <1>1 DEF SessionInv, RecordInv
<1>3. session' \in [Sessions -> SessionType]
  BY <1>2 DEF KillServer
<1>4. registry' = {s \in Sessions : session'[s].life = "live"}
  BY <1>1 DEF SessionsInv, RegistryIsLiveSessions
<1>5. QED
  BY <1>1, <1>3, <1>4, SweepKeeps DEF SessionStep, StaysShut

\* WebSocketServer.release ends every session that is left.
LEMMA ServerReleaseKeeps ==
  ASSUME SessionsInv, ExitReleasesServer
  PROVE  SessionsInv' /\ SessionsStep
<1>1. \A s \in Sessions :
        /\ SessionInv(session'[s]) /\ SessionStep(session[s], session'[s])
        /\ session'[s].life # "live"
  <2> SUFFICES ASSUME NEW s \in Sessions
               PROVE  /\ SessionInv(session'[s]) /\ SessionStep(session[s], session'[s])
                      /\ session'[s].life # "live"
    OBVIOUS
  <2>1. SessionInv(session[s])
    BY DEF SessionsInv
  <2>2. CASE session[s].ws \in {"open", "closing"}
    <3>1. session'[s] = SocketClosed(session[s], "abnormal1006")
      BY <2>2 DEF ExitReleasesServer
    <3>2. "abnormal1006" \in Codes
      BY DEF Codes
    <3>3. QED
      BY <2>1, <2>2, <3>1, <3>2, SocketClosedKeeps
  <2>3. CASE session[s].ws \notin {"open", "closing"}
    <3>1. session'[s] = session[s]
      BY <2>3 DEF ExitReleasesServer
    <3>2. session[s].life # "live"
      BY <2>1, <2>3 DEF SessionInv, LiveSocket
    <3>3. QED
      BY <2>1, <3>1, <3>2 DEF SessionStep, StepPromise
  <2>4. QED
    BY <2>2, <2>3
<1>2. \A s \in Sessions : session'[s] \in SessionType
  BY <1>1 DEF SessionInv, RecordInv
<1>3. session' \in [Sessions -> SessionType]
  BY <1>2 DEF ExitReleasesServer
<1>4. registry' = {s \in Sessions : session'[s].life = "live"}
  BY <1>1 DEF ExitReleasesServer
<1>5. QED
  BY <1>1, <1>3, <1>4, SweepKeeps DEF SessionStep, StaysShut

\* A browser opens a session, or is refused one.
LEMMA OpenKeeps ==
  ASSUME SessionsInv, NEW s \in Sessions, Open(s)
  PROVE  SessionsInv' /\ SessionsStep
<1> DEFINE fresh == [Nobody EXCEPT !.pc = "probe", !.ws = "open", !.life = "live"]
           refused == [Nobody EXCEPT !.pc = "refused", !.ws = "closing", !.code = "shutdown1001"]
<1>1. 0 \in 0..Connections
  BY SessionAssumption DEF SessionAssumption
<1>2. fresh \in SessionType /\ refused \in SessionType
  BY <1>1 DEF Nobody, SessionType, Steps, Starting, Codes
<1>3. SessionInv(fresh) /\ SessionInv(refused)
  BY <1>2 DEF Nobody, SessionInv, RecordInv, LiveSocket, OverHoldsNothing
<1>4. session[s].pc = "absent" /\ session[s].life = "none" /\ session[s].code = "none"
  BY DEF Open, At, SessionsInv, SessionInv, RecordInv
<1>5. CASE session' = [session EXCEPT ![s] = refused] /\ UNCHANGED registry
  <2>1. session'[s] = refused /\ \A t \in Sessions \ {s} : session'[t] = session[t]
    BY <1>5 DEF SessionsInv
  <2>2. session' \in [Sessions -> SessionType]
    BY <1>2, <1>5 DEF SessionsInv
  <2>3. refused.life = "none" /\ StepPromise(session[s], refused)
    BY <1>4 DEF Nobody, StepPromise
  <2> HIDE DEF refused
  <2>4. \A t \in Sessions : /\ SessionInv(session'[t])
                             /\ StepPromise(session[t], session'[t]) /\ StaysShut(t)
    BY <1>3, <1>4, <2>1, <2>3 DEF SessionsInv, StepPromise, StaysShut
  <2>5. registry' = {t \in Sessions : session'[t].life = "live"}
    BY <1>4, <1>5, <2>1, <2>3 DEF SessionsInv, RegistryIsLiveSessions
  <2>6. QED
    BY <2>2, <2>4, <2>5, SweepKeeps
<1>6. CASE ~stopping /\ session' = [session EXCEPT ![s] = fresh] /\ registry' = registry \cup {s}
  <2>1. session'[s] = fresh /\ \A t \in Sessions \ {s} : session'[t] = session[t]
    BY <1>6 DEF SessionsInv
  <2>2. session' \in [Sessions -> SessionType]
    BY <1>2, <1>6 DEF SessionsInv
  <2>3. fresh.life = "live" /\ StepPromise(session[s], fresh)
    BY <1>4 DEF Nobody, StepPromise
  <2> HIDE DEF fresh
  <2>4. \A t \in Sessions : /\ SessionInv(session'[t])
                             /\ StepPromise(session[t], session'[t]) /\ StaysShut(t)
    BY <1>3, <1>6, <2>1, <2>3 DEF SessionsInv, StepPromise, StaysShut
  <2>5. registry' = {t \in Sessions : session'[t].life = "live"}
    BY <1>6, <2>1, <2>3 DEF SessionsInv, RegistryIsLiveSessions
  <2>6. QED
    BY <2>2, <2>4, <2>5, SweepKeeps
<1>7. QED
  BY <1>5, <1>6 DEF Open

\* Every step of the server keeps the invariant, and no step breaks a promise to
\* a session.
LEMMA NextKeeps ==
  ASSUME SessionsInv, [Next]_vars
  PROVE  SessionsInv' /\ SessionsStep
<1>1. ASSUME NEW s \in Sessions, Open(s) \/ Start(s) \/ Device(s) \/ Socket(s)
      PROVE  SessionsInv' /\ SessionsStep
  <2>1. SessionInv(session[s])
    BY DEF SessionsInv
  <2>2. CASE Open(s)
    BY <2>2, OpenKeeps
  <2>3. CASE Start(s) \/ Device(s) \/ Socket(s)
    <3>1. PICK q : Follows(s, q)
      BY <2>1, <2>3, StartFollows, DeviceFollows, SocketFollows
    <3>2. QED
      BY <3>1, FollowsKeeps
  <2>4. QED
    BY <1>1, <2>2, <2>3
<1>2. CASE Stop
  <2>1. CASE ExitClosesStreams \/ ApplyClosesStreams
    BY <2>1, CloseAllKeeps DEF ExitClosesStreams, ApplyClosesStreams
  <2>2. CASE ExitKillsAdb \/ ApplyKillsAdb
    BY <2>2, KillServerKeeps DEF ExitKillsAdb, ApplyKillsAdb
  <2>3. CASE ExitReleasesServer
    BY <2>3, ServerReleaseKeeps
  <2>4. CASE ApplyFails
    <3>1. UNCHANGED <<session, registry>>
      BY <2>4 DEF ApplyFails
    <3>2. QED
      BY <3>1 DEF SessionsInv, SessionsStep, StepPromise, StaysShut, RegistryIsLiveSessions
  <2>5. QED
    BY <1>2, <2>1, <2>2, <2>3, <2>4 DEF Stop
<1>3. CASE UNCHANGED vars
  <2>1. UNCHANGED <<session, registry>>
    BY <1>3 DEF vars
  <2>2. QED
    BY <2>1 DEF SessionsInv, SessionsStep, StepPromise, StaysShut, RegistryIsLiveSessions
<1>4. QED
  BY <1>1, <1>2, <1>3 DEF Next

\* The invariant holds at the start, when no browser has come yet.
LEMMA InitKeeps == Init => SessionsInv
<1> SUFFICES ASSUME Init
             PROVE  SessionsInv
  OBVIOUS
<1>1. 0 \in 0..Connections
  BY SessionAssumption DEF SessionAssumption
<1>2. Nobody \in SessionType
  BY <1>1 DEF Nobody, SessionType, Steps, Codes
<1>3. SessionInv(Nobody)
  BY <1>2 DEF Nobody, SessionInv, RecordInv, LiveSocket, OverHoldsNothing
<1>4. Nobody.life = "none"
  BY DEF Nobody
<1> HIDE DEF Nobody
<1>5. QED
  BY <1>2, <1>3, <1>4 DEF Init, SessionsInv, RegistryIsLiveSessions

THEOREM SessionsInvariant == Spec => []SessionsInv
  BY InitKeeps, NextKeeps, PTL DEF Spec

\* However a session ends, and whichever await its start() is in, it leaves no
\* scrcpy-server, no device socket and no listener behind, and its tunnel only
\* to a removal under way.
THEOREM ReleasedHoldsNothingHolds == Spec => []ReleasedHoldsNothing
<1>1. SessionsInv => ReleasedHoldsNothing
  BY DEF SessionsInv, SessionInv, OverHoldsNothing, ReleasedHoldsNothing
<1>2. QED
  BY <1>1, SessionsInvariant, PTL

\* The registry a stop sweeps is the set of sessions that are not over.
THEOREM RegistryIsLiveSessionsHolds == Spec => []RegistryIsLiveSessions
  BY SessionsInvariant, PTL DEF SessionsInv

\* No failed start() leaves its viewer waiting on an open socket.
THEOREM FailedStartIsToldHolds == Spec => []FailedStartIsTold
<1>1. SessionsInv => FailedStartIsTold
  BY DEF SessionsInv, SessionInv, LiveSocket, FailedStartIsTold
<1>2. QED
  BY <1>1, SessionsInvariant, PTL

\* The cause of an end that the viewer is told is the first one, for good.
THEOREM FirstCauseStandsHolds == Spec => FirstCauseStands
<1>1. SessionsInv /\ [Next]_vars =>
        [\A s \in Sessions : session[s].code # "none" => session'[s].code = session[s].code]_vars
  BY NextKeeps DEF SessionsStep, StepPromise
<1>2. QED
  BY <1>1, SessionsInvariant, PTL DEF Spec, FirstCauseStands

\* Whatever await was pending at its release, a session that is over holds nothing
\* and launches nothing more (abandonIfReleased, releaseResources).
THEOREM ReleasedIsOverHolds == Spec => ReleasedIsOver
<1>1. SessionsInv /\ [Next]_vars =>
        [\A s \in Sessions :
            /\ session'[s].life = "released" => HoldsNothing(session'[s])
            /\ session[s].life = "released" => LaunchesNothing(session[s], session'[s])]_vars
  <2> SUFFICES ASSUME SessionsInv, [Next]_vars, NEW s \in Sessions
               PROVE  /\ session'[s].life = "released" => HoldsNothing(session'[s])
                      /\ session[s].life = "released" => LaunchesNothing(session[s], session'[s])
    OBVIOUS
  <2>1. session'[s].life = "released" => HoldsNothing(session'[s])
    BY NextKeeps DEF SessionsInv, SessionInv, OverHoldsNothing
  <2>2. session[s].life = "released" => LaunchesNothing(session[s], session'[s])
    BY NextKeeps DEF SessionsStep, StepPromise, LaunchesNothing
  <2>3. QED
    BY <2>1, <2>2
<1>2. QED
  BY <1>1, SessionsInvariant, PTL DEF Spec, ReleasedIsOver

-----------------------------------------------------------------------------
(* A stop.                                                                 *)

\* Once it has swept the registry, no session is live until it is called off.
Swept == stopping => registry = {}

\* Only a sweep begins a stop.
LEMMA StopSweeps ==
  ASSUME [Next]_vars, stopping', ~stopping
  PROVE  registry' = {}
<1>1. ASSUME NEW s \in Sessions, Open(s) \/ Start(s) \/ Device(s) \/ Socket(s)
      PROVE  FALSE
  BY <1>1 DEF Open, Start, Device, Socket, Becomes, ProbeDone, PushDone, PushFails, ListenDone,
     ListenFails, ReverseDone, ConnectionArrives, AcceptTimesOut, ReserveDone, ReserveFails,
     ForwardDone, DummyConnects, DummyIsStale, DummyArrives, DummyTimesOut, BeatDone,
     ControlConnects, ControlFails, MetadataRead, MetadataFails, VideoEnds, ServerProcessExits,
     TunnelCommandFails, ConnectionIsLate, TunnelComesUp, RemovalRuns, BrowserCloses,
     BrowserVanishes, CloseCompletes, WatchdogTerminates
<1>2. CASE ExitClosesStreams \/ ApplyClosesStreams
  BY <1>2 DEF ExitClosesStreams, ApplyClosesStreams, CloseAllForShutdown
<1>3. CASE ExitKillsAdb \/ ApplyKillsAdb \/ ExitReleasesServer \/ ApplyFails \/ UNCHANGED vars
  BY <1>3 DEF ExitKillsAdb, ApplyKillsAdb, KillServer, ExitReleasesServer, ApplyFails, vars
<1>4. QED
  BY <1>1, <1>2, <1>3 DEF Next, Stop

LEMMA SweptKeeps ==
  ASSUME SessionsInv, Swept, [Next]_vars
  PROVE  Swept'
<1> SUFFICES ASSUME stopping'
             PROVE  registry' = {}
  BY DEF Swept
<1>1. CASE ~stopping
  BY <1>1, StopSweeps
<1>2. CASE stopping
  <2>1. \A s \in Sessions : session[s].life # "live"
    BY <1>2 DEF Swept, SessionsInv, RegistryIsLiveSessions
  <2>2. \A s \in Sessions : session'[s].life # "live"
    BY <1>2, <2>1, NextKeeps DEF SessionsStep, StaysShut
  <2>3. QED
    BY <2>2, NextKeeps DEF SessionsInv, RegistryIsLiveSessions
<1>3. QED
  BY <1>1, <1>2

\* What a viewer is told during a stop: every session is over or was never
\* begun, and a session that was not begun is told of the stop alone.
LEMMA StopTells ==
  ASSUME SessionsInv, Swept, [Next]_vars, stopping, NEW s \in Sessions
  PROVE  session'[s].code \in {session[s].code, "shutdown1001"}
<1>1. SessionInv(session[s]) /\ SessionInv(session'[s])
  BY NextKeeps DEF SessionsInv
<1>2. StepPromise(session[s], session'[s]) /\ StaysShut(s)
  BY NextKeeps DEF SessionsStep
<1>3. session[s].life # "live"
  BY DEF Swept, SessionsInv, RegistryIsLiveSessions
<1>4. CASE session[s].code # "none"
  BY <1>2, <1>4 DEF StepPromise
<1>5. CASE session[s].code = "none"
  <2>1. session[s].life = "none"
    BY <1>1, <1>3, <1>5 DEF SessionInv, LiveSocket, RecordInv, SessionType
  <2>2. session'[s].life = "none"
    BY <1>2, <2>1 DEF StaysShut
  <2>3. session'[s].code \in {"none", "shutdown1001"}
    BY <1>1, <2>2 DEF SessionInv, RecordInv
  <2>4. QED
    BY <1>5, <2>3
<1>6. QED
  BY <1>4, <1>5

\* A deliberate stop is told to every viewer as a stop, never as a failure.
THEOREM StopIsToldCleanlyHolds == Spec => StopIsToldCleanly
<1>1. Init => Swept
  BY DEF Init, Swept
<1>2. SessionsInv /\ Swept /\ [Next]_vars => Swept'
  BY SweptKeeps
<1>3. SessionsInv /\ Swept /\ [Next]_vars =>
        [stopping => \A s \in Sessions :
            session'[s].code \in {session[s].code, "shutdown1001", "browser"}]_vars
  BY StopTells
<1>4. QED
  BY <1>1, <1>2, <1>3, SessionsInvariant, PTL DEF Spec, StopIsToldCleanly
-----------------------------------------------------------------------------
(* The sessions are a StreamService: every step of the server is a step of *)
(* that service or is not seen by it.                                      *)

\* A step of one session that goes on with start(), or in which start() fails.
GoesOn(r, q) ==
    /\ r.pc \in Starting /\ q.pc \in Starting \cup {"live"}
    /\ q.life = "live" /\ q.code = r.code
    /\ q.proc \in {r.proc, "running"} /\ q.held \in {r.held, "open"}
    /\ q.listener \in {r.listener, "open"}

FailsOn(r, q) ==
    /\ r.pc \in Starting /\ q.pc = "ended"
    /\ q.life = "live" /\ q.code = IF r.ws = "open" THEN "failed4005" ELSE r.code
    /\ q.proc = r.proc /\ q.held = r.held /\ q.listener = r.listener

\* A rejected await of a live session, whatever it leaves of the fields not seen.
LEMMA FailedFails ==
  ASSUME NEW r \in SessionType, NEW a \in SessionType, r.life = "live", r.pc \in Starting,
         a.pc = r.pc, a.life = r.life, a.ws = r.ws, a.code = r.code,
         a.proc = r.proc, a.held = r.held, a.listener = r.listener
  PROVE  FailsOn(r, Failed(a))
<1> DEFINE b == [a EXCEPT !.pc = "ended"]
           c == [b EXCEPT !.ws = "closing"]
           d == [c EXCEPT !.code = "failed4005"]
<1>1. /\ b \in SessionType
      /\ b.pc = "ended" /\ b.life = "live" /\ b.ws = r.ws /\ b.code = r.code
      /\ b.proc = r.proc /\ b.held = r.held /\ b.listener = r.listener
  BY DEF SessionType, Steps
<1>2. Failed(a) = Closed(b, "failed4005")
  BY DEF Failed
<1> HIDE DEF b
<1>3. CASE r.ws # "open"
  BY <1>1, <1>2, <1>3 DEF Closed, FailsOn
<1>4. CASE r.ws = "open"
  <2>1. /\ c \in SessionType
        /\ c.pc = b.pc /\ c.life = b.life
        /\ c.proc = b.proc /\ c.held = b.held /\ c.listener = b.listener
    BY <1>1 DEF SessionType
  <2>2. Failed(a) = d
    BY <1>1, <1>2, <1>4 DEF Closed
  <2> HIDE DEF c
  <2>3. /\ d.code = "failed4005" /\ d.pc = c.pc /\ d.life = c.life
        /\ d.proc = c.proc /\ d.held = c.held /\ d.listener = c.listener
    BY <2>1 DEF SessionType
  <2> QED BY <1>1, <1>4, <2>1, <2>2, <2>3 DEF FailsOn
<1> QED BY <1>3, <1>4

\* An await of a live session that is answered.
LEMMA ContinuedGoesOn ==
  ASSUME NEW r \in SessionType, NEW a \in SessionType, r.life = "live", r.pc \in Starting,
         a.pc = r.pc, a.life = r.life, a.code = r.code,
         a.proc = r.proc, a.held \in {r.held, "open"}, a.listener \in {r.listener, "open"},
         NEW next \in Starting \cup {"live"}
  PROVE  /\ Continued(a, next) \in SessionType
         /\ GoesOn(r, Continued(a, next)) /\ Continued(a, next).pc = next
<1>1. Continued(a, next) = [a EXCEPT !.pc = next]
  BY DEF Continued
<1>2. next \in Steps
  BY DEF Steps
<1> QED BY <1>1, <1>2 DEF SessionType, GoesOn

\* start() of a live session goes on or fails.
LEMMA StartSeen ==
  ASSUME SessionsInv, NEW s \in Sessions, Start(s), session[s].life = "live"
  PROVE  GoesOn(session[s], session'[s]) \/ FailsOn(session[s], session'[s])
<1> DEFINE r == session[s]
           q == session'[s]
<1>1. r \in SessionType /\ \A e : Becomes(s, e) => q = e
  BY DEF SessionsInv, Becomes
<1>2. 0 \in 0..Connections /\ 1 \in 0..Connections
  BY SessionAssumption DEF SessionAssumption
<1>3. CASE PushFails(s) \/ ListenFails(s) \/ ReserveFails(s) \/ DummyTimesOut(s)
           \/ ControlFails(s) \/ MetadataFails(s)
  <2>1. q = Failed(r) /\ r.pc \in Starting
    BY <1>1, <1>3 DEF PushFails, ListenFails, ReserveFails, DummyTimesOut, ControlFails,
                      MetadataFails, At, Starting, ReversePath, ForwardPath
  <2> QED BY <1>1, <2>1, FailedFails
<1>4. CASE AcceptTimesOut(s)
  <2> DEFINE a == [r EXCEPT !.inHand = 0]
  <2>1. q = Failed(a) /\ r.pc \in Starting
    BY <1>1, <1>4 DEF AcceptTimesOut, At, Starting, ReversePath
  <2>2. /\ a \in SessionType /\ a.pc = r.pc /\ a.life = r.life /\ a.ws = r.ws
        /\ a.code = r.code /\ a.proc = r.proc /\ a.held = r.held /\ a.listener = r.listener
    BY <1>1, <1>2 DEF SessionType
  <2> HIDE DEF a
  <2> QED BY <1>1, <2>1, <2>2, FailedFails
<1>5. CASE TunnelCommandFails(s)
  <2>1. PICK t \in {r.tunnel, "none"} : q = Failed([r EXCEPT !.tunnel = t])
    BY <1>1, <1>5 DEF TunnelCommandFails
  <2>2. r.pc \in Starting
    BY <1>5 DEF TunnelCommandFails, Starting, ReversePath, ForwardPath
  <2> DEFINE a == [r EXCEPT !.tunnel = t]
  <2>3. /\ a \in SessionType /\ a.pc = r.pc /\ a.life = r.life /\ a.ws = r.ws
        /\ a.code = r.code /\ a.proc = r.proc /\ a.held = r.held /\ a.listener = r.listener
    BY <1>1, <2>1 DEF SessionType
  <2> HIDE DEF a
  <2>4. q = Failed(a)
    BY <2>1 DEF a
  <2> QED BY <1>1, <2>2, <2>3, <2>4, FailedFails
<1>6. CASE ProbeDone(s) \/ PushDone(s) \/ DummyArrives(s) \/ BeatDone(s) \/ MetadataRead(s)
  <2>1. PICK next \in {"push", "listen", "reserve", "beat", "control", "live"} :
          q = Continued(r, next)
    BY <1>1, <1>6 DEF ProbeDone, PushDone, DummyArrives, BeatDone, MetadataRead
  <2>2. r.pc \in Starting /\ next \in Starting \cup {"live"}
    BY <1>6 DEF ProbeDone, PushDone, DummyArrives, BeatDone, MetadataRead, At,
                Starting, ReversePath, ForwardPath
  <2> QED BY <1>1, <2>1, <2>2, ContinuedGoesOn
<1>7. CASE ListenDone(s) \/ ReserveDone(s)
  <2>1. PICK a \in {r, [r EXCEPT !.listener = "open"]}, next \in {"reverse", "forward"} :
          q = Ask(Continued(a, next))
    BY <1>1, <1>7 DEF ListenDone, ReserveDone
  <2>2. r.pc \in Starting /\ next \in Starting
    BY <1>7 DEF ListenDone, ReserveDone, At, Starting, ReversePath, ForwardPath
  <2>3. /\ a \in SessionType /\ a.pc = r.pc /\ a.life = r.life /\ a.code = r.code
        /\ a.proc = r.proc /\ a.held = r.held /\ a.listener \in {r.listener, "open"}
    BY <1>1, <2>1 DEF SessionType
  <2> DEFINE c == Continued(a, next)
             d == [c EXCEPT !.named = "yes"]
             e == [d EXCEPT !.tunnel = "asked"]
  <2>4. c \in SessionType /\ GoesOn(r, c) /\ c.pc = next
    BY <1>1, <2>2, <2>3, ContinuedGoesOn
  <2> HIDE DEF c
  <2>5. q = e
    BY <2>1, <2>4 DEF Ask, c
  <2>6. /\ d \in SessionType /\ d.pc = c.pc /\ d.life = c.life /\ d.code = c.code
        /\ d.proc = c.proc /\ d.held = c.held /\ d.listener = c.listener
    BY <2>4 DEF SessionType
  <2> HIDE DEF d
  <2>7. /\ e.pc = d.pc /\ e.life = d.life /\ e.code = d.code
        /\ e.proc = d.proc /\ e.held = d.held /\ e.listener = d.listener
    BY <2>6 DEF SessionType
  <2> QED BY <2>4, <2>5, <2>6, <2>7 DEF GoesOn
<1>8. CASE ReverseDone(s) \/ ForwardDone(s)
  <2>1. PICK next \in {"accept", "dummy"} : q = Launch(Continued(r, next))
    BY <1>1, <1>8 DEF ReverseDone, ForwardDone
  <2>2. r.pc \in Starting /\ next \in Starting
    BY <1>8 DEF ReverseDone, ForwardDone, At, Starting, ReversePath, ForwardPath
  <2> DEFINE c == Continued(r, next)
  <2>3. c \in SessionType /\ GoesOn(r, c) /\ c.pc = next
    BY <1>1, <2>2, ContinuedGoesOn
  <2> HIDE DEF c
  <2>4. q = [c EXCEPT !.proc = "running"]
    BY <2>1, <2>3 DEF Launch, c
  <2> QED BY <2>3, <2>4 DEF GoesOn, SessionType
<1>9. CASE DummyIsStale(s) \/ DummyConnects(s)
  <2>1. PICK n \in {0, 1} : Becomes(s, [r EXCEPT !.inHand = n])
    BY <1>9 DEF DummyIsStale, DummyConnects
  <2>2. q = [r EXCEPT !.inHand = n] /\ r.pc \in Starting
    BY <1>1, <1>9, <2>1 DEF DummyIsStale, DummyConnects, At, Starting, ForwardPath
  <2> QED BY <1>1, <2>2 DEF GoesOn, SessionType
<1>10. CASE ConnectionArrives(s) \/ ControlConnects(s)
  <2>1. r.pc \in Starting
    BY <1>10 DEF ConnectionArrives, ControlConnects, At, Starting, ReversePath, ForwardPath
  <2>2. CASE q = [r EXCEPT !.inHand = r.inHand + 1]
    BY <1>1, <2>1, <2>2 DEF GoesOn, SessionType
  <2>3. CASE q = Continued([r EXCEPT !.inHand = 0, !.held = "open"], "metadata")
    <3> DEFINE a == [r EXCEPT !.inHand = 0]
               b == [a EXCEPT !.held = "open"]
    <3>1. /\ a \in SessionType /\ a.pc = r.pc /\ a.life = r.life /\ a.code = r.code
          /\ a.proc = r.proc /\ a.listener = r.listener
      BY <1>1, <1>2 DEF SessionType
    <3>2. q = Continued(b, "metadata")
      BY <2>3
    <3> HIDE DEF a
    <3>3. /\ b \in SessionType /\ b.pc = a.pc /\ b.life = a.life /\ b.code = a.code
          /\ b.proc = a.proc /\ b.held = "open" /\ b.listener = a.listener
      BY <3>1 DEF SessionType
    <3> HIDE DEF b
    <3>4. "metadata" \in Starting
      BY DEF Starting
    <3> QED BY <1>1, <2>1, <3>1, <3>2, <3>3, <3>4, ContinuedGoesOn
  <2> QED BY <1>1, <1>10, <2>2, <2>3 DEF ConnectionArrives, ControlConnects
<1> QED BY <1>3, <1>4, <1>5, <1>6, <1>7, <1>8, <1>9, <1>10 DEF Start
\* A step of one session that its viewer is told the end by, or that ends it.
Leaves(r, q) ==
    /\ r.life = "live" /\ r.code = "none" /\ q.code = "browser"
    /\ q.life = "live" /\ q.pc = r.pc
    /\ q.proc = r.proc /\ q.held = r.held /\ q.listener = r.listener

Ends(r, q) ==
    /\ r.life = "live" /\ q.life = "released"
    /\ IF r.code = "none" THEN q.code \in {"failed4005", "browser"} ELSE q.code = r.code

NotSeen(r, q) ==
    /\ q.pc = r.pc /\ q.life = r.life /\ q.code = r.code
    /\ q.proc = r.proc /\ q.held = r.held /\ q.listener = r.listener

\* The release of a live session, after its viewer was told.
LEMMA ReleasedEnds ==
  ASSUME NEW r \in SessionType, r.life = "live"
  PROVE  Released(r).life = "released" /\ Released(r).code = r.code
<1> DEFINE a == [r EXCEPT !.life = "released"]
<1>1. a \in SessionType /\ a.life = "released" /\ a.code = r.code
  BY DEF SessionType
<1>2. Released(r) = Freed(a)
  BY DEF Released
<1> HIDE DEF a
<1> QED BY <1>1, <1>2, FreedFields

LEMMA FailureEnds ==
  ASSUME NEW r, SessionInv(r), r.life = "live"
  PROVE  Ends(r, ReleasedAsFailure(r))
<1> DEFINE a == [r EXCEPT !.ws = "closing"]
           b == [a EXCEPT !.code = "failed4005"]
<1>1. r \in SessionType /\ ReleasedAsFailure(r) = Released(Closed(r, "failed4005"))
  BY DEF SessionInv, RecordInv, ReleasedAsFailure
<1>2. CASE r.ws # "open"
  <2>1. r.code # "none"
    BY <1>2 DEF SessionInv, LiveSocket
  <2> QED BY <1>1, <1>2, <2>1, ReleasedEnds DEF Closed, Ends
<1>3. CASE r.ws = "open"
  <2>1. r.code = "none" /\ Closed(r, "failed4005") = b
    BY <1>3 DEF SessionInv, RecordInv, Closed
  <2>2. a \in SessionType /\ a.life = "live"
    BY <1>1 DEF SessionType
  <2> HIDE DEF a
  <2>3. b \in SessionType /\ b.life = "live" /\ b.code = "failed4005"
    BY <2>2 DEF SessionType, Codes
  <2> HIDE DEF b
  <2> QED BY <1>1, <2>1, <2>3, ReleasedEnds DEF Ends
<1> QED BY <1>2, <1>3

LEMMA SocketClosedEnds ==
  ASSUME NEW r, SessionInv(r), r.life = "live", NEW code \in Codes
  PROVE  /\ SocketClosed(r, code).life = "released"
         /\ SocketClosed(r, code).code = IF r.code = "none" THEN code ELSE r.code
<1> DEFINE a == [r EXCEPT !.ws = "closed"]
           b == [a EXCEPT !.code = IF r.code = "none" THEN code ELSE r.code]
<1>1. r \in SessionType
  BY DEF SessionInv, RecordInv
<1>2. SocketClosed(r, code) = Released(b)
  BY <1>1 DEF SocketClosed, SessionType
<1>3. a \in SessionType /\ a.life = "live"
  BY <1>1 DEF SessionType
<1> HIDE DEF a
<1>4. (IF r.code = "none" THEN code ELSE r.code) \in Codes
  BY <1>1 DEF SessionType
<1>5. b \in SessionType /\ b.life = "live" /\ b.code = IF r.code = "none" THEN code ELSE r.code
  BY <1>3, <1>4 DEF SessionType
<1> HIDE DEF b
<1> QED BY <1>2, <1>5, ReleasedEnds

\* A session that was refused has no more than a socket to lose.
LEMMA RefusedSocketCloses ==
  ASSUME NEW r, SessionInv(r), r.life = "none", r.ws = "closing", NEW code \in Codes
  PROVE  NotSeen(r, SocketClosed(r, code))
<1>1. r \in SessionType /\ r.code # "none"
  BY DEF SessionInv, RecordInv, LiveSocket
<1> DEFINE a == [r EXCEPT !.ws = "closed"]
<1>2. a \in SessionType /\ NotSeen(r, a)
  BY <1>1 DEF SessionType, NotSeen
<1>3. SocketClosed(r, code) = Released([a EXCEPT !.code = r.code])
  BY <1>1 DEF SocketClosed, SessionType
<1> HIDE DEF a
<1>4. [a EXCEPT !.code = r.code] = a
  BY <1>2 DEF NotSeen, SessionType
<1>5. Released(a) = a
  BY <1>2 DEF NotSeen, Released
<1> QED BY <1>2, <1>3, <1>4, <1>5

\* What the device, adb and the browser do to a session that is not over.
LEMMA OthersSeen ==
  ASSUME SessionsInv, NEW s \in Sessions, Device(s) \/ Socket(s), session[s].life # "released"
  PROVE  \/ NotSeen(session[s], session'[s])
         \/ Leaves(session[s], session'[s])
         \/ Ends(session[s], session'[s])
<1> DEFINE r == session[s]
           q == session'[s]
<1>1. /\ r \in SessionType /\ SessionInv(r) /\ r.life \in {"none", "live"}
      /\ \A e : Becomes(s, e) => q = e
  BY DEF SessionsInv, Becomes, SessionType
<1>2. CASE VideoEnds(s)
  <2>1. q = ReleasedAsFailure(r) /\ r.life = "live"
    BY <1>1, <1>2 DEF VideoEnds
  <2> QED BY <1>1, <2>1, FailureEnds
<1>3. CASE ServerProcessExits(s)
  <2> DEFINE a == [r EXCEPT !.proc = "dead"]
  <2>1. q = ReleasedAsFailure(a) /\ r.life = "live"
    BY <1>1, <1>3 DEF ServerProcessExits, SessionInv, RecordInv
  <2>2. a \in SessionType
    BY <1>1 DEF SessionType
  <2>3. SessionInv(a) /\ a.life = "live" /\ a.code = r.code
    BY <1>1, <2>1, <2>2 DEF SessionInv, RecordInv, SessionType, LiveSocket, OverHoldsNothing
  <2> HIDE DEF a
  <2>4. Ends(a, q)
    BY <2>1, <2>3, FailureEnds
  <2> QED BY <2>1, <2>3, <2>4 DEF Ends
<1>4. CASE TunnelComesUp(s)
  <2>1. q = [r EXCEPT !.tunnel = "up"]
    BY <1>1, <1>4 DEF TunnelComesUp
  <2> QED BY <1>1, <2>1 DEF SessionType, NotSeen
<1>5. CASE RemovalRuns(s)
  <2>1. \E t : q = [r EXCEPT !.removal = "idle", !.tunnel = t]
    BY <1>1, <1>5 DEF RemovalRuns
  <2> QED BY <1>1, <2>1 DEF SessionType, NotSeen
<1>6. CASE BrowserCloses(s)
  <2>1. q = [r EXCEPT !.ws = "closing", !.code = "browser"] /\ r.ws = "open"
    BY <1>1, <1>6 DEF BrowserCloses
  <2>2. r.life = "live" /\ r.code = "none"
    BY <1>1, <2>1 DEF SessionInv, RecordInv
  <2> QED BY <1>1, <2>1, <2>2 DEF SessionType, Leaves
<1>7. CASE BrowserVanishes(s)
  <2>1. q = SocketClosed(r, "browser") /\ r.ws \in {"open", "closing"} /\ "browser" \in Codes
    BY <1>1, <1>7 DEF BrowserVanishes, Codes
  <2>2. CASE r.life = "live"
    BY <1>1, <2>1, <2>2, SocketClosedEnds DEF Ends
  <2>3. CASE r.life = "none"
    <3>1. r.ws = "closing"
      BY <1>1, <2>1, <2>3 DEF SessionInv, RecordInv
    <3> QED BY <1>1, <2>1, <2>3, <3>1, RefusedSocketCloses
  <2> QED BY <1>1, <2>2, <2>3
<1>8. CASE CloseCompletes(s) \/ WatchdogTerminates(s)
  <2>1. q = SocketClosed(r, "none") /\ r.ws = "closing" /\ "none" \in Codes
    BY <1>1, <1>8 DEF CloseCompletes, WatchdogTerminates, Codes
  <2>2. r.code # "none"
    BY <1>1, <2>1 DEF SessionInv, LiveSocket
  <2>3. CASE r.life = "live"
    BY <1>1, <2>1, <2>2, <2>3, SocketClosedEnds DEF Ends
  <2>4. CASE r.life = "none"
    BY <1>1, <2>1, <2>4, RefusedSocketCloses
  <2> QED BY <1>1, <2>3, <2>4
<1>9. CASE ConnectionIsLate(s)
  <2>1. q = [r EXCEPT !.inHand = r.inHand + 1]
    BY <1>1, <1>9 DEF ConnectionIsLate
  <2> QED BY <1>1, <2>1 DEF SessionType, NotSeen
<1> QED BY <1>2, <1>3, <1>4, <1>5, <1>6, <1>7, <1>8, <1>9 DEF Device, Socket
\* A session that is over is seen to hold nothing, and no step is seen of it.
LEMMA OverIsSeenAsOver ==
  ASSUME NEW r, SessionInv(r), r.life = "released"
  PROVE  Seen(r) = [stage |-> "over", told |-> r.code, holds |-> {}] /\ r.code # "none"
<1>1. Holds(r) = {}
  BY DEF SessionInv, OverHoldsNothing, HoldsNothing, Holds
<1>2. Stage(r) = "over"
  BY DEF Stage
<1>3. r.code # "none"
  BY DEF SessionInv, LiveSocket
<1> QED BY <1>1, <1>2, <1>3 DEF Seen

\* What is seen of a session that is not over.
LEMMA UnderwayIsSeen ==
  ASSUME NEW r, r.life = "live"
  PROVE  /\ Service!Underway(Seen(r))
         /\ Seen(r).told = r.code /\ Seen(r).holds = Holds(r)
         /\ r.pc \in Starting => Seen(r).stage = "starting"
         /\ r.pc = "live" => Seen(r).stage = "shown"
         /\ r.pc = "ended" => Seen(r).stage = "failed"
BY DEF Service!Underway, Seen, Stage, Starting, ReversePath, ForwardPath

\* One session is seen to make a step of the service, or none.
SeenStep(s) ==
    Service!Proceed(s) \/ Service!Fail(s) \/ Service!Leave(s) \/ Service!End(s)

\* A step of one session that was begun or refused.
LEMMA SessionIsSeen ==
  ASSUME SessionsInv, NEW s \in Sessions, Start(s) \/ Device(s) \/ Socket(s)
  PROVE  SeenStep(s) \/ UNCHANGED Service!svars
<1> DEFINE r == session[s]
           q == session'[s]
           was == [t \in Sessions |-> Seen(session[t])]
           is == [t \in Sessions |-> Seen(session'[t])]
<1>1. /\ SessionInv(r) /\ r \in SessionType
      /\ session' = [session EXCEPT ![s] = q] /\ UNCHANGED stopping
      /\ SessionInv(q) /\ q \in SessionType /\ SessionStep(r, q)
  <2>1. SessionInv(r)
    BY DEF SessionsInv
  <2>2. PICK e : Follows(s, e)
    BY <2>1, StartFollows, DeviceFollows, SocketFollows
  <2> QED BY <2>1, <2>2 DEF Follows, Becomes, SessionsInv, SessionInv, RecordInv
<1>2. is = [was EXCEPT ![s] = Seen(q)] /\ was[s] = Seen(r)
  BY <1>1 DEF SessionsInv
<1>3. CASE Seen(q) = Seen(r)
  BY <1>1, <1>2, <1>3 DEF Service!svars
<1>4. CASE NotSeen(r, q)
  BY <1>3, <1>4 DEF NotSeen, Seen, Stage, Holds
<1>5. CASE r.life = "released"
  <2>1. q.life = "released" /\ q.code = r.code
    BY <1>1, <1>5, OverIsSeenAsOver DEF SessionStep, StepPromise
  <2> QED BY <1>1, <1>3, <1>5, <2>1, OverIsSeenAsOver
<1>6. CASE GoesOn(r, q)
  <2>1. r.life = "live"
    BY <1>1, <1>6 DEF GoesOn, SessionStep, SessionInv, RecordInv, Starting, ReversePath, ForwardPath
  <2>2. Seen(r).stage = "starting" /\ Seen(q).stage \in {"starting", "shown"}
    BY <1>6, <2>1, UnderwayIsSeen DEF GoesOn
  <2>3. PICK more \in SUBSET Service!Things : Holds(q) = Holds(r) \cup more
    <3>1. Holds(r) \subseteq Holds(q) /\ Holds(q) \in SUBSET Service!Things
      BY <1>6 DEF GoesOn, Holds, Service!Things
    <3>2. Holds(q) = Holds(r) \cup Holds(q)
      BY <3>1
    <3> QED BY <3>1, <3>2
  <2>4. Seen(q) = Service!View(Seen(q).stage, was[s].told, was[s].holds \cup more)
    BY <1>2, <1>6, <2>3 DEF Seen, GoesOn, Service!View
  <2> HIDE DEF was, is
  <2>5. /\ \E stage \in {"starting", "shown"}, all \in SUBSET Service!Things :
             is = [was EXCEPT ![s] = Service!View(stage, was[s].told, was[s].holds \cup all)]
        /\ was[s].stage = "starting"
    BY <1>2, <2>2, <2>4
  <2>6. Service!Proceed(s)
    BY <1>1, <2>5 DEF Service!Proceed, Service!Becomes, was, is
  <2> QED BY <2>6 DEF SeenStep
<1>7. CASE FailsOn(r, q)
  <2>1. r.life = "live"
    BY <1>1, <1>7 DEF FailsOn, SessionStep, SessionInv, RecordInv, Starting, ReversePath, ForwardPath
  <2>2. q.code = IF r.code = "none" THEN "failed4005" ELSE r.code
    BY <1>1, <1>7, <2>1 DEF FailsOn, SessionInv, RecordInv, LiveSocket
  <2>3. Seen(r).stage = "starting" /\ Seen(q).stage = "failed" /\ Holds(q) = Holds(r)
    BY <1>7, <2>1, UnderwayIsSeen DEF FailsOn, Holds
  <2>4. Seen(q) = Service!View("failed", Service!Told(Seen(r), "failed4005"), Seen(r).holds)
    BY <2>2, <2>3 DEF Seen, Service!View, Service!Told
  <2>5. Service!Fail(s)
    BY <1>1, <1>2, <2>3, <2>4 DEF Service!Fail, Service!Becomes
  <2> QED BY <2>5 DEF SeenStep
<1>8. CASE Leaves(r, q)
  <2>1. Stage(q) = Stage(r) /\ Holds(q) = Holds(r)
    BY <1>8 DEF Leaves, Stage, Holds
  <2>2. Seen(q) = Service!View(Seen(r).stage, "browser", Seen(r).holds) /\ Seen(r).told = "none"
    BY <1>8, <2>1 DEF Leaves, Seen, Service!View
  <2>3. Service!Underway(Seen(r))
    BY <1>8, UnderwayIsSeen DEF Leaves
  <2>4. Service!Leave(s)
    BY <1>1, <1>2, <2>2, <2>3 DEF Service!Leave, Service!Becomes
  <2> QED BY <2>4 DEF SeenStep
<1>9. CASE Ends(r, q)
  <2>1. Service!Underway(Seen(r)) /\ Seen(r).told = r.code
    BY <1>9, UnderwayIsSeen DEF Ends
  <2>2. Seen(q) = [stage |-> "over", told |-> q.code, holds |-> {}]
    BY <1>1, <1>9, OverIsSeenAsOver DEF Ends
  <2>3. \E why \in {"failed4005", "browser"} : Seen(q) = Service!Over(Seen(r), why)
    BY <1>9, <2>1, <2>2 DEF Ends, Service!Over, Service!Told, Service!View
  <2>4. Service!End(s)
    BY <1>1, <1>2, <2>1, <2>3 DEF Service!End, Service!Becomes
  <2> QED BY <2>4 DEF SeenStep
<1>10. CASE r.life # "released" /\ (Device(s) \/ Socket(s))
  BY <1>4, <1>8, <1>9, <1>10, OthersSeen
<1>11. CASE r.life = "live" /\ Start(s)
  BY <1>6, <1>7, <1>11, StartSeen
<1>12. CASE r.life = "none" /\ Start(s)
  <2>1. r.pc \notin Starting
    BY <1>1, <1>12 DEF SessionInv, RecordInv, Starting, ReversePath, ForwardPath
  <2>2. r.pc \in Starting
    BY <1>12 DEF Start, ProbeDone, PushDone, PushFails, ListenDone, ListenFails, ReverseDone,
       ConnectionArrives, AcceptTimesOut, ReserveDone, ReserveFails, ForwardDone, DummyConnects,
       DummyIsStale, DummyArrives, DummyTimesOut, BeatDone, ControlConnects, ControlFails,
       MetadataRead, MetadataFails, TunnelCommandFails, At, Starting, ReversePath, ForwardPath
  <2> QED BY <2>1, <2>2
<1> QED BY <1>1, <1>5, <1>10, <1>11, <1>12 DEF SessionType

\* A browser that opens a session, or is refused one.
LEMMA OpenIsSeen ==
  ASSUME SessionsInv, NEW s \in Sessions, Open(s)
  PROVE  Service!Open(s) \/ Service!Refuse(s)
<1> DEFINE fresh == [Nobody EXCEPT !.pc = "probe", !.ws = "open", !.life = "live"]
           refused == [Nobody EXCEPT !.pc = "refused", !.ws = "closing", !.code = "shutdown1001"]
           was == [t \in Sessions |-> Seen(session[t])]
           is == [t \in Sessions |-> Seen(session'[t])]
<1>1. session[s].pc = "absent" /\ session[s].life = "none" /\ UNCHANGED stopping
  BY DEF Open, At, SessionsInv, SessionInv, RecordInv
<1>2. was[s].stage = "absent"
  BY <1>1 DEF Seen, Stage
<1>3. CASE stopping /\ session' = [session EXCEPT ![s] = refused]
  <2>1. Seen(refused) = [stage |-> "refused", told |-> "shutdown1001", holds |-> {}]
    BY DEF Nobody, Seen, Stage, Holds
  <2> HIDE DEF refused
  <2>2. is = [was EXCEPT ![s] = Seen(refused)]
    BY <1>3 DEF SessionsInv
  <2> QED BY <1>1, <1>2, <1>3, <2>1, <2>2 DEF Service!Refuse, Service!Becomes, Service!View
<1>4. CASE ~stopping /\ session' = [session EXCEPT ![s] = fresh]
  <2>1. Seen(fresh) = [stage |-> "starting", told |-> "none", holds |-> {}]
    BY DEF Nobody, Seen, Stage, Holds
  <2> HIDE DEF fresh
  <2>2. is = [was EXCEPT ![s] = Seen(fresh)]
    BY <1>4 DEF SessionsInv
  <2> QED BY <1>1, <1>2, <1>4, <2>1, <2>2 DEF Service!Open, Service!Becomes, Service!View
<1> QED BY <1>3, <1>4 DEF Open

\* A sweep ends what is under way and nothing else, for the cause of the sweep.
LEMMA SweepIsSeen ==
  ASSUME SessionsInv, SessionsInv', SessionsStep, NEW why \in Codes \ {"none"},
         \A s \in Sessions :
            /\ session[s].life = "live" =>
                 /\ session'[s].life = "released"
                 /\ session'[s].code = IF session[s].code = "none" THEN why ELSE session[s].code
            /\ session[s].life = "released" => session'[s].life = "released"
            /\ session[s].life = "none" => NotSeen(session[s], session'[s])
  PROVE  Service!EndAll(why)
<1>1. ASSUME NEW s \in Sessions
      PROVE  Seen(session'[s]) = IF Service!Underway(Seen(session[s]))
                                 THEN Service!Over(Seen(session[s]), why) ELSE Seen(session[s])
  <2> DEFINE r == session[s]
             q == session'[s]
  <2>1. SessionInv(r) /\ SessionInv(q) /\ r.life \in {"none", "live", "released"} /\ StepPromise(r, q)
    BY DEF SessionsInv, SessionType, SessionsStep
  <2>2. CASE r.life = "live"
    <3>1. Seen(q) = [stage |-> "over", told |-> q.code, holds |-> {}]
      BY <2>1, <2>2, OverIsSeenAsOver
    <3> QED BY <2>2, <3>1, UnderwayIsSeen DEF Service!Over, Service!Told, Service!View
  <2>3. CASE r.life = "released"
    <3>1. Seen(r) = [stage |-> "over", told |-> r.code, holds |-> {}] /\ r.code # "none"
      BY <2>1, <2>3, OverIsSeenAsOver
    <3>2. Seen(q) = [stage |-> "over", told |-> q.code, holds |-> {}]
      BY <2>1, <2>3, OverIsSeenAsOver
    <3> QED BY <2>1, <3>1, <3>2 DEF StepPromise, Service!Underway
  <2>4. CASE r.life = "none"
    <3>1. Seen(q) = Seen(r)
      BY <2>4 DEF NotSeen, Seen, Stage, Holds
    <3>2. Seen(r).stage \in {"absent", "refused"}
      BY <2>1, <2>4 DEF SessionInv, RecordInv, Seen, Stage
    <3> QED BY <3>1, <3>2 DEF Service!Underway
  <2> QED BY <2>1, <2>2, <2>3, <2>4
<1> QED BY <1>1 DEF Service!EndAll
\* The sweep of a stop and the end of the WebSocket server end every session.
LEMMA StopIsSeen ==
  ASSUME SessionsInv, CloseAllForShutdown
  PROVE  Service!Stop
<1>1. SessionsInv' /\ SessionsStep
  BY CloseAllKeeps
<1>2. "shutdown1001" \in Codes \ {"none"}
  BY DEF Codes
<1>3. ASSUME NEW s \in Sessions
      PROVE  /\ session[s].life = "live" =>
                  /\ session'[s].life = "released"
                  /\ session'[s].code = IF session[s].code = "none" THEN "shutdown1001"
                                                                    ELSE session[s].code
             /\ session[s].life = "released" => session'[s].life = "released"
             /\ session[s].life = "none" => NotSeen(session[s], session'[s])
  <2> DEFINE r == session[s]
             a == [r EXCEPT !.ws = "closing"]
             b == [a EXCEPT !.code = "shutdown1001"]
  <2>1. SessionInv(r) /\ r \in SessionType
    BY DEF SessionsInv
  <2>2. CASE r.life # "live"
    <3>1. session'[s] = r
      BY <2>2 DEF CloseAllForShutdown, SessionsInv, RegistryIsLiveSessions
    <3> QED BY <2>2, <3>1 DEF NotSeen
  <2>3. CASE r.life = "live"
    <3>1. session'[s] = Released(Closed(r, "shutdown1001"))
      BY <2>3 DEF CloseAllForShutdown, SessionsInv, RegistryIsLiveSessions, ClosedForShutdown
    <3>2. CASE r.ws # "open"
      <4>1. r.code # "none" /\ Closed(r, "shutdown1001") = r
        BY <2>1, <2>3, <3>2 DEF SessionInv, LiveSocket, Closed
      <4> QED BY <2>1, <2>3, <3>1, <4>1, ReleasedEnds
    <3>3. CASE r.ws = "open"
      <4>1. r.code = "none" /\ Closed(r, "shutdown1001") = b
        BY <2>1, <3>3 DEF SessionInv, RecordInv, Closed
      <4>2. a \in SessionType /\ a.life = "live"
        BY <2>1, <2>3 DEF SessionType
      <4> HIDE DEF a
      <4>3. b \in SessionType /\ b.life = "live" /\ b.code = "shutdown1001"
        BY <4>2 DEF SessionType, Codes
      <4> HIDE DEF b
      <4> QED BY <2>3, <3>1, <4>1, <4>3, ReleasedEnds
    <3> QED BY <3>2, <3>3
  <2> QED BY <2>2, <2>3
<1>4. Service!EndAll("shutdown1001")
  BY <1>1, <1>2, <1>3, SweepIsSeen
<1> QED BY <1>4 DEF Service!Stop, CloseAllForShutdown

LEMMA TerminateIsSeen ==
  ASSUME SessionsInv, ExitReleasesServer
  PROVE  Service!Terminate
<1>1. SessionsInv' /\ SessionsStep
  BY ServerReleaseKeeps
<1>2. "abnormal1006" \in Codes \ {"none"}
  BY DEF Codes
<1>3. ASSUME NEW s \in Sessions
      PROVE  /\ session[s].life = "live" =>
                  /\ session'[s].life = "released"
                  /\ session'[s].code = IF session[s].code = "none" THEN "abnormal1006"
                                                                    ELSE session[s].code
             /\ session[s].life = "released" => session'[s].life = "released"
             /\ session[s].life = "none" => NotSeen(session[s], session'[s])
  <2> DEFINE r == session[s]
  <2>1. SessionInv(r) /\ r \in SessionType /\ SessionInv(session'[s])
    BY <1>1 DEF SessionsInv
  <2>2. session'[s] = IF r.ws \in {"open", "closing"} THEN SocketClosed(r, "abnormal1006") ELSE r
    BY DEF ExitReleasesServer
  <2>3. CASE r.life = "live"
    <3>1. r.ws \in {"open", "closing"}
      BY <2>1, <2>3 DEF SessionInv, LiveSocket
    <3> QED BY <1>2, <2>1, <2>2, <2>3, <3>1, SocketClosedEnds
  <2>4. CASE r.life = "released"
    <3>1. SocketClosed(r, "abnormal1006").life = "released"
      BY <2>1, <2>4 DEF SocketClosed, Released, SessionType
    <3> QED BY <2>2, <2>4, <3>1
  <2>5. CASE r.life = "none"
    <3>1. r.ws # "open"
      BY <2>1, <2>5 DEF SessionInv, RecordInv
    <3>2. CASE r.ws = "closing"
      BY <1>2, <2>1, <2>2, <2>5, <3>2, RefusedSocketCloses
    <3>3. CASE r.ws # "closing"
      BY <2>2, <2>5, <3>1, <3>3 DEF NotSeen
    <3> QED BY <2>5, <3>2, <3>3
  <2> QED BY <2>1, <2>3, <2>4, <2>5 DEF SessionType
<1>4. Service!EndAll("abnormal1006")
  BY <1>1, <1>2, <1>3, SweepIsSeen
<1> QED BY <1>4 DEF Service!Terminate, ExitReleasesServer

\* adb kill-server takes the servers from their streams and nothing else.
LEMMA KillServerIsSeen ==
  ASSUME SessionsInv, KillServer, UNCHANGED stopping
  PROVE  Service!LoseServers
<1>1. ASSUME NEW s \in Sessions
      PROVE  Seen(session'[s]) = Service!View(Seen(session[s]).stage, Seen(session[s]).told,
                                              Seen(session[s]).holds \ {"server"})
  <2> DEFINE r == session[s]
             t == IF r.tunnel = "asked" THEN r.tunnel ELSE "none"
             p == IF r.proc = "running" THEN "killed" ELSE r.proc
             a == [r EXCEPT !.tunnel = t]
             q == [a EXCEPT !.proc = p]
  <2>1. r \in SessionType /\ session'[s] = AdbGone(r)
    BY DEF SessionsInv, KillServer
  <2>2. AdbGone(r) = q
    BY <2>1 DEF AdbGone, SessionType
  <2>3. a \in SessionType /\ a.pc = r.pc /\ a.life = r.life /\ a.code = r.code
        /\ a.proc = r.proc /\ a.held = r.held /\ a.listener = r.listener
    BY <2>1 DEF SessionType
  <2> HIDE DEF a
  <2>4. q.pc = a.pc /\ q.life = a.life /\ q.code = a.code
        /\ q.proc = p /\ q.held = a.held /\ q.listener = a.listener
    BY <2>3 DEF SessionType
  <2> HIDE DEF q
  <2>5. Stage(q) = Stage(r) /\ q.code = r.code
    BY <2>3, <2>4 DEF Stage
  <2>6. Holds(q) = Holds(r) \ {"server"}
    BY <2>3, <2>4 DEF Holds
  <2> QED BY <2>1, <2>2, <2>5, <2>6 DEF Seen, Service!View
<1> QED BY <1>1 DEF Service!LoseServers

\* The sessions implement the service: no step is seen that it could not make.
THEOREM SessionsAreAService == Spec => ImplementsService
<1>1. Init => Service!Init
  <2> SUFFICES ASSUME Init PROVE Service!Init
    OBVIOUS
  <2>1. Seen(Nobody) = Service!NoStream
    BY DEF Nobody, Seen, Stage, Holds, Service!NoStream, Service!View
  <2> QED BY <2>1 DEF Init, Service!Init
<1>2. SessionsInv /\ [Next]_vars => [Service!Next]_(Service!svars)
  <2> SUFFICES ASSUME SessionsInv, [Next]_vars PROVE [Service!Next]_(Service!svars)
    OBVIOUS
  <2>1. ASSUME NEW s \in Sessions, Open(s) PROVE Service!Next
    BY <2>1, OpenIsSeen DEF Service!Next
  <2>2. ASSUME NEW s \in Sessions, Start(s) \/ Device(s) \/ Socket(s)
        PROVE  [Service!Next]_(Service!svars)
    BY <2>2, SessionIsSeen DEF SeenStep, Service!Next
  <2>3. CASE ExitClosesStreams \/ ApplyClosesStreams
    BY <2>3, StopIsSeen DEF ExitClosesStreams, ApplyClosesStreams, Service!Next
  <2>4. CASE ExitKillsAdb \/ ApplyKillsAdb
    BY <2>4, KillServerIsSeen DEF ExitKillsAdb, ApplyKillsAdb, Service!Next
  <2>5. CASE ExitReleasesServer
    BY <2>5, TerminateIsSeen DEF Service!Next
  <2>6. CASE ApplyFails
    BY <2>6 DEF ApplyFails, Service!CallOff, Service!Next
  <2>7. CASE UNCHANGED vars
    BY <2>7 DEF vars, Service!svars
  <2> QED BY <2>1, <2>2, <2>3, <2>4, <2>5, <2>6, <2>7 DEF Next, Stop
<1>3. QED
  BY <1>1, <1>2, SessionsInvariant, PTL DEF Spec, ImplementsService, Service!Spec
=============================================================================
