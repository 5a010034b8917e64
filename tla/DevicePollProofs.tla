---------------------------- MODULE DevicePollProofs ----------------------------
(***************************************************************************)
(* The maps of ControlCenter agree and a card carries no stale serial, for *)
(* any set of devices, any number of polls under way and of changes of the *)
(* transport.                                                              *)
(***************************************************************************)
EXTENDS DevicePoll, SequenceTheorems, TLAPS

\* A transport without a Device has nothing under way.
NoDeviceRests ==
    dev.state = "absent" => dev.throttle = "rested" /\ dev.timer = "off" /\ dev.reads = {}

\* What a read of the current generation may bring is no other than what has
\* answered since the last setState.
ReadsAreCurrent ==
    /\ attached \in Serials => attached \in since
    /\ \A r \in dev.reads : r[1] = "current" =>
         dev.state = "device" /\ (r[2] \in Serials => r[2] \in since)

PollInv ==
    /\ TypeOK
    /\ MapsAgree
    /\ SerialIsCurrent
    /\ NoDeviceRests
    /\ ReadsAreCurrent

LEMMA InitInv == Init => PollInv
  <1> SUFFICES ASSUME Init PROVE PollInv
    OBVIOUS
  <1>1. flight \in Seq(AnswerType)
    BY DEF Init
  <1>2. NoDevice \in DeviceType
    BY DEF NoDevice, DeviceType, States
  <1>3. TypeOK
    <2>1. changes \in 0..MaxChanges /\ timers \in Nat
      <3>1. changes = 0 /\ timers = 0
        BY DEF Init
      <3>2. MaxChanges \in Nat
        BY PollAssumption
      <3> QED
        BY <3>1, <3>2
    <2>2. since \subseteq Serials
      BY DEF Init
    <2> QED
      BY <1>1, <1>2, <2>1, <2>2 DEF Init, TypeOK, States
  <1>4. /\ dev.state = "absent" /\ dev.serial = "" /\ dev.throttle = "rested"
        /\ dev.timer = "off" /\ dev.reads = {}
    BY DEF Init, NoDevice
  <1>5. MapsAgree /\ SerialIsCurrent /\ NoDeviceRests
    BY <1>4 DEF Init, MapsAgree, SerialIsCurrent, NoDeviceRests
  <1>6. ReadsAreCurrent
    BY <1>4 DEF Init, ReadsAreCurrent
  <1> QED
    BY <1>3, <1>5, <1>6 DEF PollInv

-----------------------------------------------------------------------------
(* The operators of a Device.                                              *)

\* An update changes the throttle and its timer only.
LEMMA UpdatedFields ==
  ASSUME NEW d \in DeviceType
  PROVE  /\ Updated(d) \in DeviceType
         /\ Updated(d).state = d.state
         /\ Updated(d).serial = d.serial
         /\ Updated(d).reads = d.reads
  BY DEF Updated, HeldBack, DeviceType

LEMMA StateUpdatedFields ==
  ASSUME NEW d \in DeviceType
  PROVE  /\ StateUpdated(d) \in DeviceType
         /\ StateUpdated(d).state = d.state
         /\ StateUpdated(d).serial = d.serial
         /\ StateUpdated(d).reads = d.reads
  BY UpdatedFields DEF StateUpdated

\* A generation of reads that setState(s) has just begun.
FreshReads(reads, s) ==
    \A r \in reads : r[1] = "current" => s = "device" /\ r[2] = "asked"

\* setState leaves no current read but the one it starts, and no serial on a
\* transport that is not a device.
LEMMA RestatedFields ==
  ASSUME NEW d \in DeviceType, NEW s \in States
  PROVE  /\ Restated(d, s) \in DeviceType
         /\ Restated(d, s).state = s
         /\ s = "device" => Restated(d, s).serial = d.serial
         /\ s # "device" => Restated(d, s).serial = ""
         /\ FreshReads(Restated(d, s).reads, s)
  <1> DEFINE old == {<<"old", r[2]>> : r \in d.reads}
             new == IF s = "device" THEN {<<"current", "asked">>} ELSE {}
             serial == IF s = "device" THEN d.serial ELSE ""
  <1>1. \A r \in d.reads : r[2] \in Serials \cup {"asked", "fails"}
    BY DEF DeviceType, ReadType
  <1>2. old \cup new \in SUBSET ReadType
    BY <1>1 DEF ReadType
  <1>3. FreshReads(old \cup new, s)
    BY DEF FreshReads
  <1>4. Restated(d, s) = [d EXCEPT !.state = s, !.serial = serial, !.reads = old \cup new]
    BY DEF Restated
  <1>5. serial \in Serials \cup {""}
    BY DEF DeviceType
  <1> HIDE DEF old, new, serial
  <1>6. /\ Restated(d, s).state = s /\ Restated(d, s).serial = serial
        /\ Restated(d, s).reads = old \cup new
        /\ Restated(d, s) \in DeviceType
    BY <1>2, <1>4, <1>5 DEF DeviceType
  <1> QED
    BY <1>3, <1>6 DEF serial
LEMMA SetStateFields ==
  ASSUME NEW d \in DeviceType, NEW s \in States
  PROVE  /\ StateUpdated(Restated(d, s)) \in DeviceType
         /\ StateUpdated(Restated(d, s)).state = s
         /\ s = "device" => StateUpdated(Restated(d, s)).serial = d.serial
         /\ s # "device" => StateUpdated(Restated(d, s)).serial = ""
         /\ FreshReads(StateUpdated(Restated(d, s)).reads, s)
  <1>1. Restated(d, s) \in DeviceType
    BY RestatedFields
  <1>2. /\ StateUpdated(Restated(d, s)) \in DeviceType
        /\ StateUpdated(Restated(d, s)).state = Restated(d, s).state
        /\ StateUpdated(Restated(d, s)).serial = Restated(d, s).serial
        /\ StateUpdated(Restated(d, s)).reads = Restated(d, s).reads
    BY <1>1, StateUpdatedFields
  <1> QED
    BY <1>2, RestatedFields

-----------------------------------------------------------------------------
(* The answers of `adb devices`.                                           *)

LEMMA RemoveAtKeeps ==
  ASSUME NEW S, NEW s \in Seq(S), NEW k \in 1..Len(s)
  PROVE  RemoveAt(s, k) \in Seq(S)
  <1>1. SubSeq(s, 1, k - 1) \in Seq(S)
    OBVIOUS
  <1>2. SubSeq(s, k + 1, Len(s)) \in Seq(S)
    OBVIOUS
  <1> QED
    BY <1>1, <1>2 DEF RemoveAt

LEMMA WithoutKeeps ==
  ASSUME flight \in Seq(AnswerType), NEW k \in DOMAIN flight
  PROVE  Without(k) \in Seq(AnswerType)
  BY RemoveAtKeeps DEF Without
-----------------------------------------------------------------------------
(* The handling of a poll's answer.                                        *)

\* handleConnected and the maps: whatever state it is told, stale or not, the
\* maps agree on it and the card has no serial of another generation.
LEMMA HandleMapsKeeps ==
  ASSUME PollInv, NEW s \in States, HandleMaps(s), attached' = attached
  PROVE  /\ since' \subseteq Serials /\ known' \in States /\ dev' \in DeviceType
         /\ listed' \in {"no", "yes"}
         /\ MapsAgree' /\ SerialIsCurrent' /\ NoDeviceRests' /\ ReadsAreCurrent'
  <1> USE DEF PollInv, TypeOK
  <1>1. since' = IF s = dev.state THEN since ELSE {attached} \cap Serials
    BY DEF HandleMaps
  <1>2. known' = s
    BY DEF HandleMaps
  <1>3. listed' \in {"no", "yes"} /\ (s = "absent" => listed' = "no")
    BY DEF HandleMaps, Listed, States
  <1>4. attached' \in Serials => attached' \in since'
    BY <1>1 DEF ReadsAreCurrent
  <1>5. CASE s = "absent"
    <2>1. dev' = NoDevice
      BY <1>5 DEF HandleMaps
    <2>2. /\ dev'.state = "absent" /\ dev'.serial = "" /\ dev'.throttle = "rested"
          /\ dev'.timer = "off" /\ dev'.reads = {} /\ dev' \in DeviceType
      BY <2>1 DEF NoDevice, DeviceType, States
    <2> QED
      BY <1>1, <1>2, <1>3, <1>4, <1>5, <2>2
      DEF MapsAgree, SerialIsCurrent, NoDeviceRests, ReadsAreCurrent
  <1>6. CASE s # "absent"
    <2>1. NoDevice \in DeviceType /\ NoDevice.serial = ""
      BY DEF NoDevice, DeviceType, States
    <2>2. PICK d \in DeviceType :
            /\ dev' = StateUpdated(Restated(d, s))
            /\ d.serial # "" => d.serial = dev.serial /\ dev.state = "device"
      <3>1. CASE dev.state = "absent"
        BY <1>6, <2>1, <3>1 DEF HandleMaps, Created
      <3>2. CASE dev.state # "absent"
        BY <1>6, <3>2 DEF HandleMaps, SerialIsCurrent
      <3> QED
        BY <3>1, <3>2
    <2>3. /\ dev' \in DeviceType /\ dev'.state = s
          /\ s = "device" => dev'.serial = d.serial
          /\ s # "device" => dev'.serial = ""
          /\ FreshReads(dev'.reads, s)
      BY <2>2, SetStateFields
    <2>4. "asked" \notin Serials
      BY PollAssumption
    <2>5. dev'.serial # "" => dev.serial = dev'.serial /\ s = "device" /\ dev.state = "device"
      BY <2>2, <2>3
    <2>6. SerialIsCurrent'
      BY <1>1, <2>3, <2>5 DEF SerialIsCurrent
    <2>7. ReadsAreCurrent'
      BY <1>4, <2>3, <2>4 DEF ReadsAreCurrent, FreshReads
    <2> QED
      BY <1>1, <1>2, <1>3, <1>6, <2>3, <2>6, <2>7 DEF MapsAgree, NoDeviceRests
  <1> QED
    BY <1>5, <1>6
-----------------------------------------------------------------------------
(* The steps.                                                              *)

\* What the invariant says of the card and of the maps.
CardInv == MapsAgree /\ SerialIsCurrent /\ NoDeviceRests /\ ReadsAreCurrent

LEMMA SameCard ==
  ASSUME CardInv, UNCHANGED <<attached, since, known, dev, listed>>
  PROVE  CardInv'
  BY DEF CardInv, MapsAgree, SerialIsCurrent, NoDeviceRests, ReadsAreCurrent

LEMMA AskKeeps ==
  ASSUME TypeOK, NEW who \in {"boot", "tracker", "poll"}, Ask(who)
  PROVE  flight' \in Seq(AnswerType)
  <1>1. Answer(who) \in AnswerType
    BY DEF Answer, AnswerType, Listing, States, TypeOK
  <1> QED
    BY <1>1 DEF Ask, TypeOK

\* The state of a joining client's card.
LEMMA JoinKeeps ==
  ASSUME Join, dev' \in DeviceType
  PROVE  client' = "here" /\ shown' \in States
  BY DEF Join, DeviceType, States

\* An answer that arrives is handled, or not.
LEMMA AnswerKeeps ==
  ASSUME PollInv, NEW s \in States, UNCHANGED <<attached, changes>>,
         timers' \in Nat, flight' \in Seq(AnswerType),
         client' \in {"away", "joining", "here"}, dev' \in DeviceType => shown' \in States,
         HandleMaps(s) \/ UNCHANGED <<since, known, dev, listed>>
  PROVE  PollInv'
  <1>1. CASE HandleMaps(s)
    BY <1>1, HandleMapsKeeps DEF PollInv, TypeOK
  <1>2. CASE UNCHANGED <<since, known, dev, listed>>
    BY <1>2, SameCard DEF PollInv, TypeOK, CardInv
  <1> QED
    BY <1>1, <1>2

\* The steps of ControlCenter and the tracker.
LEMMA PollKeeps ==
  ASSUME PollInv,
         BootInit \/ TrackerInit \/ PollStarts
           \/ PollDone \/ BootDone \/ TrackerDone \/ AskFails
  PROVE  PollInv'
  <1>1. "absent" \in States /\ dev \in DeviceType /\ timers + 1 \in Nat /\ shown \in States
    BY DEF PollInv, TypeOK, States
  <1>2. ASSUME NEW k \in DOMAIN flight
        PROVE  /\ flight[k].snap \in States
               /\ Without(k) \in Seq(AnswerType)
               /\ RemoveAt(flight, k) \in Seq(AnswerType)
    <2>1. flight[k] \in AnswerType /\ k \in 1..Len(flight)
      BY DEF PollInv, TypeOK
    <2> QED
      BY <2>1, WithoutKeeps, RemoveAtKeeps DEF PollInv, TypeOK, AnswerType
  <1>3. CASE BootInit \/ PollStarts
    <2>1. flight' \in Seq(AnswerType)
      BY <1>3, AskKeeps DEF BootInit, PollStarts, PollInv
    <2> QED
      BY <1>1, <1>3, <2>1, AnswerKeeps DEF BootInit, PollStarts, PollInv, TypeOK
  <1>4. CASE TrackerInit
    <2>1. flight' \in Seq(AnswerType)
      BY <1>4, AskKeeps DEF TrackerInit, PollInv, TypeOK
    <2>2. client' \in {"away", "joining", "here"} /\ shown' \in States
      BY <1>1, <1>4, JoinKeeps DEF TrackerInit
    <2> QED
      BY <1>1, <1>4, <2>1, <2>2, AnswerKeeps DEF TrackerInit, PollInv, TypeOK
  <1>5. CASE PollDone
    <2>1. PICK k \in DOMAIN flight :
            PollApplied(flight[k].snap) /\ flight' = Without(k)
      BY <1>5 DEF PollDone
    <2>2. shown' \in States
      BY <1>1, <1>2, <2>1 DEF PollApplied, HandleConnected
    <2>3. HandleMaps(flight[k].snap) \/ UNCHANGED <<since, known, dev, listed>>
      BY <2>1 DEF PollApplied, HandleConnected
    <2> QED
      BY <1>2, <1>5, <2>1, <2>2, <2>3, AnswerKeeps DEF PollDone, PollInv, TypeOK
  <1>6. CASE BootDone
    <2>1. PICK k \in DOMAIN flight :
            InitApplied(flight[k].snap) /\ flight' = Without(k)
      BY <1>6 DEF BootDone
    <2>2. shown' \in States
      BY <1>1, <1>2, <2>1 DEF InitApplied, HandleConnected
    <2>3. HandleMaps(flight[k].snap) \/ UNCHANGED <<since, known, dev, listed>>
      BY <2>1 DEF InitApplied, HandleConnected
    <2> QED
      BY <1>1, <1>2, <1>6, <2>1, <2>2, <2>3, AnswerKeeps DEF BootDone, PollInv, TypeOK
  <1>7. CASE TrackerDone
    <2>1. PICK k \in DOMAIN flight :
            /\ flight' = Without(k)
            /\ HandleMaps(flight[k].snap) \/ UNCHANGED <<since, known, dev, listed>>
      BY <1>7 DEF TrackerDone
    <2>2. client' = "here" /\ (dev' \in DeviceType => shown' \in States)
      BY <1>7, JoinKeeps DEF TrackerDone, Join
    <2> QED
      BY <1>1, <1>2, <1>7, <2>1, <2>2, AnswerKeeps DEF TrackerDone
  <1>8. CASE AskFails
    <2>1. PICK k \in DOMAIN flight :
            /\ flight' = Without(k)
            /\ timers' \in {timers, timers + 1}
            /\ Join \/ UNCHANGED <<client, shown>>
      BY <1>8 DEF AskFails
    <2>2. dev' \in DeviceType
      BY <1>1, <1>8 DEF AskFails
    <2>3. client' \in {"away", "joining", "here"} /\ shown' \in States
      BY <1>1, <2>1, <2>2, JoinKeeps DEF PollInv, TypeOK
    <2>4. timers' \in Nat
      BY <1>1, <2>1 DEF PollInv, TypeOK
    <2> QED
      BY <1>1, <1>2, <1>8, <2>1, <2>3, <2>4, AnswerKeeps DEF AskFails
  <1> QED
    BY <1>3, <1>4, <1>5, <1>6, <1>7, <1>8

\* A step of a Device that changes neither its state nor its transport.
LEMMA DeviceKeeps ==
  ASSUME PollInv,
         UNCHANGED <<attached, changes, since, flight, timers, known, client>>,
         dev' \in DeviceType, dev'.state = dev.state,
         dev.state # "absent" \/ UNCHANGED <<dev, listed, shown>>,
         dev'.serial # "" => dev'.serial \in since /\ dev.state = "device",
         \A r \in dev'.reads : r[1] = "current" =>
            dev.state = "device" /\ (r[2] \in Serials => r[2] \in since),
         listed' \in {"yes", listed}, shown' \in {dev.state, shown}
  PROVE  PollInv'
  <1>1. TypeOK'
    BY DEF PollInv, TypeOK, DeviceType
  <1>2. MapsAgree' /\ SerialIsCurrent'
    BY DEF PollInv, MapsAgree, SerialIsCurrent
  <1>3. NoDeviceRests'
    BY DEF PollInv, NoDeviceRests
  <1>4. ReadsAreCurrent'
    BY DEF PollInv, ReadsAreCurrent
  <1> QED
    BY <1>1, <1>2, <1>3, <1>4 DEF PollInv

\* What a listener does with an update.
LEMMA HeardKeeps ==
  ASSUME NEW d, Heard(d, dev.state)
  PROVE  listed' \in {"yes", listed} /\ shown' \in {dev.state, shown}
  BY DEF Heard

LEMMA ThrottleKeeps ==
  ASSUME PollInv, ThrottleEnds \/ CheckUpdates
  PROVE  PollInv'
  <1>1. dev \in DeviceType /\ dev.state # "absent"
    BY DEF PollInv, TypeOK, NoDeviceRests, ThrottleEnds, CheckUpdates
  <1>2. listed' \in {"yes", listed} /\ shown' \in {dev.state, shown}
    BY HeardKeeps DEF ThrottleEnds, CheckUpdates
  <1>3. /\ dev' \in DeviceType /\ dev'.state = dev.state
        /\ dev'.serial = dev.serial /\ dev'.reads = dev.reads
    <2>1. CASE ThrottleEnds
      BY <1>1, <2>1 DEF ThrottleEnds, DeviceType
    <2>2. CASE CheckUpdates
      <3>1. [dev EXCEPT !.screen = "checked"] \in DeviceType
        BY <1>1 DEF DeviceType
      <3>2. /\ [dev EXCEPT !.screen = "checked"].state = dev.state
            /\ [dev EXCEPT !.screen = "checked"].serial = dev.serial
            /\ [dev EXCEPT !.screen = "checked"].reads = dev.reads
        BY <1>1 DEF DeviceType
      <3> QED
        BY <2>2, <3>1, <3>2, UpdatedFields DEF CheckUpdates
    <2> QED
      BY <2>1, <2>2
  <1> QED
    BY <1>1, <1>2, <1>3, DeviceKeeps
    DEF PollInv, SerialIsCurrent, ReadsAreCurrent, ThrottleEnds, CheckUpdates

\* A read is answered by whatever is on the transport: it has answered since
\* the last setState.
LEMMA GetpropKeeps ==
  ASSUME PollInv, Getprop
  PROVE  PollInv'
  <1>1. dev \in DeviceType
    BY DEF PollInv, TypeOK
  <1>2. PICK r \in dev.reads :
          dev' = [dev EXCEPT !.reads =
                    (@ \ {r}) \cup {<<r[1], IF attached \in Serials THEN attached ELSE "fails">>}]
    BY DEF Getprop
  <1> DEFINE answer == IF attached \in Serials THEN attached ELSE "fails"
             reads == (dev.reads \ {r}) \cup {<<r[1], answer>>}
  <1>3. reads \in SUBSET ReadType
    <2>1. dev.reads \in SUBSET ReadType
      BY <1>1 DEF DeviceType
    <2>2. r[1] \in {"old", "current"}
      BY <2>1 DEF ReadType
    <2>3. <<r[1], answer>> \in ReadType
      BY <2>2 DEF ReadType
    <2> QED
      BY <2>1, <2>3
  <1>4. /\ dev' \in DeviceType /\ dev'.state = dev.state
        /\ dev'.serial = dev.serial /\ dev'.reads = reads
    BY <1>1, <1>2, <1>3 DEF DeviceType
  <1>5. \A q \in reads : q[1] = "current" =>
          dev.state = "device" /\ (q[2] \in Serials => q[2] \in since)
    <2>1. "fails" \notin Serials
      BY PollAssumption
    <2> QED
      BY <2>1 DEF PollInv, ReadsAreCurrent
  <1>6. dev.state # "absent"
    BY DEF PollInv, NoDeviceRests
  <1> QED
    BY <1>4, <1>5, <1>6, DeviceKeeps DEF PollInv, SerialIsCurrent, Getprop

\* The serial recorded is that of a read of the current generation.
LEMMA ReadKeeps ==
  ASSUME PollInv, ReadDone
  PROVE  PollInv'
  <1>1. dev \in DeviceType /\ dev.state # "absent"
    BY DEF PollInv, TypeOK, NoDeviceRests, ReadDone
  <1>2. PICK r \in dev.reads :
          /\ r[2] \in Serials \cup {"fails"}
          /\ LET d == [dev EXCEPT !.reads = @ \ {r}] IN
             IF r[2] = "fails" \/ ~StillCurrent(r) \/ dev.serial = r[2]
             THEN dev' = d /\ UNCHANGED <<listed, shown>>
             ELSE dev' = Updated([d EXCEPT !.serial = r[2]]) /\ Heard(d, d.state)
    BY DEF ReadDone
  <1> DEFINE d == [dev EXCEPT !.reads = @ \ {r}]
  <1>3. /\ d \in DeviceType /\ d.state = dev.state
        /\ d.serial = dev.serial /\ d.reads = dev.reads \ {r}
    BY <1>1 DEF DeviceType
  <1>4. \A q \in dev.reads \ {r} : q[1] = "current" =>
          dev.state = "device" /\ (q[2] \in Serials => q[2] \in since)
    BY DEF PollInv, ReadsAreCurrent
  <1>5. CASE r[2] = "fails" \/ ~StillCurrent(r) \/ dev.serial = r[2]
    <2>1. dev' = d /\ UNCHANGED <<listed, shown>>
      BY <1>2, <1>5
    <2> QED
      BY <1>1, <1>3, <1>4, <2>1, DeviceKeeps DEF PollInv, SerialIsCurrent, ReadDone
  <1>6. CASE ~(r[2] = "fails" \/ ~StillCurrent(r) \/ dev.serial = r[2])
    <2>1. dev' = Updated([d EXCEPT !.serial = r[2]]) /\ Heard(d, d.state)
      BY <1>2, <1>6
    <2>2. r[2] \in since /\ dev.state = "device" /\ r[2] \in Serials
      BY <1>2, <1>6 DEF StillCurrent, PollInv, ReadsAreCurrent
    <2>3. /\ [d EXCEPT !.serial = r[2]] \in DeviceType
          /\ [d EXCEPT !.serial = r[2]].state = dev.state
          /\ [d EXCEPT !.serial = r[2]].serial = r[2]
          /\ [d EXCEPT !.serial = r[2]].reads = dev.reads \ {r}
      BY <1>3, <2>2 DEF DeviceType
    <2>4. /\ dev' \in DeviceType /\ dev'.state = dev.state
          /\ dev'.serial = r[2] /\ dev'.reads = dev.reads \ {r}
      BY <2>1, <2>3, UpdatedFields
    <2>5. listed' \in {"yes", listed} /\ shown' \in {dev.state, shown}
      BY <1>3, <2>1, HeardKeeps
    <2> QED
      BY <1>1, <1>4, <2>2, <2>4, <2>5, DeviceKeeps DEF ReadDone
  <1> QED
    BY <1>5, <1>6

LEMMA RetryKeeps ==
  ASSUME PollInv, Retry
  PROVE  PollInv'
  <1>1. dev \in DeviceType /\ dev.state = "device"
    BY DEF PollInv, TypeOK, Retry
  <1> DEFINE reads == dev.reads \cup {<<"current", "asked">>}
  <1>2. reads \in SUBSET ReadType
    <2>1. dev.reads \in SUBSET ReadType
      BY <1>1 DEF DeviceType
    <2>2. <<"current", "asked">> \in ReadType
      BY DEF ReadType
    <2> QED
      BY <2>1, <2>2
  <1>3. /\ dev' \in DeviceType /\ dev'.state = dev.state
        /\ dev'.serial = dev.serial /\ dev'.reads = reads
    BY <1>1, <1>2 DEF Retry, DeviceType
  <1>4. \A q \in reads : q[1] = "current" =>
          dev.state = "device" /\ (q[2] \in Serials => q[2] \in since)
    <2>1. "asked" \notin Serials
      BY PollAssumption
    <2> QED
      BY <1>1, <2>1 DEF PollInv, ReadsAreCurrent
  <1> QED
    BY <1>1, <1>3, <1>4, DeviceKeeps DEF PollInv, SerialIsCurrent, Retry

LEMMA ChangeKeeps ==
  ASSUME PollInv, TransportChanges
  PROVE  PollInv'
  <1>1. changes' \in 0..MaxChanges
    <2>1. MaxChanges \in Nat
      BY PollAssumption
    <2> QED
      BY <2>1 DEF TransportChanges, PollInv, TypeOK
  <1>2. since \subseteq since' /\ since' \subseteq Serials
    BY DEF TransportChanges, PollInv, TypeOK
  <1>3. attached' \in {"absent", "offline"} \cup Serials
    BY DEF TransportChanges
  <1>4. attached' \in Serials => attached' \in since'
    BY DEF TransportChanges
  <1> QED
    BY <1>1, <1>2, <1>3, <1>4
    DEF TransportChanges, PollInv, TypeOK, MapsAgree, SerialIsCurrent, NoDeviceRests,
        ReadsAreCurrent

LEMMA StepInv == PollInv /\ [Next]_vars => PollInv'
  <1>1. ASSUME PollInv, UNCHANGED vars PROVE PollInv'
    BY <1>1 DEF vars, PollInv, TypeOK, MapsAgree, SerialIsCurrent, NoDeviceRests, ReadsAreCurrent
  <1> QED
    BY <1>1, PollKeeps, ThrottleKeeps, GetpropKeeps, ReadKeeps, RetryKeeps, ChangeKeeps DEF Next

\* The inductive invariant, for any set of devices and all bounds.
THEOREM PollInvariant == Spec => []PollInv
  <1>1. Init => PollInv
    BY InitInv
  <1>2. PollInv /\ [Next]_vars => PollInv'
    BY StepInv
  <1> QED
    BY <1>1, <1>2, PTL DEF Spec

\* A card carries no serial of a device that was exchanged before the transport
\* last changed state (the generation check of fetchDeviceInfo).
THEOREM SerialIsCurrentHolds == Spec => []SerialIsCurrent
  <1>1. PollInv => SerialIsCurrent
    BY DEF PollInv
  <1> QED
    BY <1>1, PollInvariant, PTL

\* knownDevices, deviceMap and descriptors agree, however polls overlap
\* (ControlCenter.pollDevices and handleConnected).
THEOREM MapsAgreeHolds == Spec => []MapsAgree
  <1>1. PollInv => MapsAgree
    BY DEF PollInv
  <1> QED
    BY <1>1, PollInvariant, PTL

=============================================================================
