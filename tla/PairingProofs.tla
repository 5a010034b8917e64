---------------------------- MODULE PairingProofs ----------------------------
(***************************************************************************)
(* Theorems about Pairing, for any set of attempts.  PairingInv is the     *)
(* inductive invariant: besides the properties it says that an attempt     *)
(* that was not started has nothing under way, and that one that still     *)
(* awaits its scan has no pairing under way.                               *)
(***************************************************************************)
EXTENDS Pairing, TLAPS

\* An attempt that was not started is not current and awaits nothing.
NewIsUntouched ==
    \A i \in Ids : state[i] = "new" => current # i /\ task[i] = "none" /\ secret[i] = "none"

\* While an attempt awaits its scan, its continuation is one of the poll loop.
ScanHasNoPair ==
    \A i \in Ids : state[i] = "awaiting-scan" => task[i] \in {"none", "mdns", "rearm"}

\* The current attempt, while it awaits its scan in time, has a tick armed or
\* under way.
ScanIsWatched ==
    \A i \in Ids : current = i /\ state[i] = "awaiting-scan" /\ late[i] = "no" =>
        timer = "live" \/ task[i] \in {"mdns", "rearm"}

PairingInv ==
    /\ TypeOK
    /\ OnePollLoop
    /\ SecretOnlyUnderWay
    /\ NewIsUntouched
    /\ ScanHasNoPair
    /\ ScanIsWatched

LEMMA InitInv == Init => PairingInv
  BY PairingAssumption
  DEF Init, PairingInv, TypeOK, States, Terminal, Final, OnePollLoop, SecretOnlyUnderWay,
      NewIsUntouched, ScanHasNoPair, ScanIsWatched, Expired

\* Every step of an attempt keeps the invariant.
LEMMA StepInv ==
  ASSUME PairingInv, NEW i \in Ids, Step(i)
  PROVE  PairingInv'
<1> USE PairingAssumption
    DEF PairingInv, TypeOK, States, Terminal, Final, OnePollLoop, SecretOnlyUnderWay,
        NewIsUntouched, ScanHasNoPair, ScanIsWatched, Expired
<1>1. CASE StartQr(i)
  BY <1>1 DEF StartQr, Replace, Marked, Blanked
<1>2. CASE StartCode(i)
  BY <1>2 DEF StartCode, Replace, Marked, Blanked
<1>3. CASE Cancel(i)
  BY <1>3 DEF Cancel, Terminate, Marked, Blanked
<1>4. CASE Poll(i)
  BY <1>4 DEF Poll
<1>5. CASE DeadlinePasses(i)
  BY <1>5 DEF DeadlinePasses
<1>6. CASE Tick(i)
  BY <1>6 DEF Tick, TickOver, Expire, Blanked
<1>7. CASE SeesNothing(i)
  BY <1>7 DEF SeesNothing, TickOver, TooLate, Expire, Blanked
<1>8. CASE SeesPhone(i)
  BY <1>8 DEF SeesPhone, TooLate, Marked
<1>9. CASE Rearm(i)
  BY <1>9 DEF Rearm, Schedule, MayRearm
<1>10. CASE PairFails(i)
  BY <1>10 DEF PairFails, TickOver, Terminate, Marked, Blanked
<1>11. CASE PairSucceeds(i)
  BY <1>11 DEF PairSucceeds, TickOver
<1>12. CASE FindsNoService(i)
  BY <1>12 DEF FindsNoService, TickOver, Terminate, Marked, Blanked
<1>13. CASE FindsService(i)
  BY <1>13 DEF FindsService, Marked
<1>14. CASE Connects(i)
  BY <1>14 DEF Connects, TickOver, Terminate, Marked, Blanked
<1> QED BY <1>1, <1>2, <1>3, <1>4, <1>5, <1>6, <1>7, <1>8, <1>9, <1>10, <1>11, <1>12, <1>13, <1>14 DEF Step

\* What a step may not do: revive an attempt that is over, or pair one whose
\* deadline has passed.
LEMMA StepPromise ==
  ASSUME PairingInv, NEW i \in Ids, Step(i), NEW j \in Ids
  PROVE  /\ Expired(j) => state'[j] \in {"awaiting-scan", "failed"}
         /\ state[j] \in Terminal => state'[j] = state[j]
<1> USE PairingAssumption
    DEF PairingInv, TypeOK, States, Terminal, NewIsUntouched, ScanHasNoPair, ScanIsWatched, Expired
<1>1. CASE StartQr(i)
  BY <1>1 DEF StartQr, Replace, Marked, Blanked
<1>2. CASE StartCode(i)
  BY <1>2 DEF StartCode, Replace, Marked, Blanked
<1>3. CASE Cancel(i)
  BY <1>3 DEF Cancel, Terminate, Marked, Blanked
<1>4. CASE Poll(i)
  BY <1>4 DEF Poll
<1>5. CASE DeadlinePasses(i)
  BY <1>5 DEF DeadlinePasses
<1>6. CASE Tick(i)
  BY <1>6 DEF Tick, TickOver, Expire, Blanked
<1>7. CASE SeesNothing(i)
  BY <1>7 DEF SeesNothing, TickOver, TooLate, Expire, Blanked
<1>8. CASE SeesPhone(i)
  BY <1>8 DEF SeesPhone, TooLate, Marked
<1>9. CASE Rearm(i)
  BY <1>9 DEF Rearm, Schedule, MayRearm
<1>10. CASE PairFails(i)
  BY <1>10 DEF PairFails, TickOver, Terminate, Marked, Blanked
<1>11. CASE PairSucceeds(i)
  BY <1>11 DEF PairSucceeds, TickOver
<1>12. CASE FindsNoService(i)
  BY <1>12 DEF FindsNoService, TickOver, Terminate, Marked, Blanked
<1>13. CASE FindsService(i)
  BY <1>13 DEF FindsService, Marked
<1>14. CASE Connects(i)
  BY <1>14 DEF Connects, TickOver, Terminate, Marked, Blanked
<1> QED BY <1>1, <1>2, <1>3, <1>4, <1>5, <1>6, <1>7, <1>8, <1>9, <1>10, <1>11, <1>12, <1>13, <1>14 DEF Step

\* The inductive invariant, for any number of attempts.
THEOREM PairingInvariant == Spec => []PairingInv
<1>1. PairingInv /\ [Next]_vars => PairingInv'
  <2> SUFFICES ASSUME PairingInv, [Next]_vars PROVE PairingInv'
    OBVIOUS
  <2>1. CASE Next
    BY <2>1, StepInv DEF Next
  <2>2. CASE UNCHANGED vars
    BY <2>2 DEF vars, PairingInv, TypeOK, OnePollLoop, SecretOnlyUnderWay, NewIsUntouched, ScanHasNoPair, ScanIsWatched, Expired
  <2> QED BY <2>1, <2>2
<1> QED BY InitInv, <1>1, PTL DEF Spec

\* The current attempt has exactly one poll loop: replacing an attempt in the
\* middle of a tick neither orphans its timer nor doubles that of its
\* successor (schedule, stop).
THEOREM OnePollLoopHolds == Spec => []OnePollLoop
<1>1. PairingInv => OnePollLoop
  BY DEF PairingInv
<1> QED BY <1>1, PairingInvariant, PTL

\* The password of an attempt that is over, or no longer current, is blank
\* (terminate, stop), and that of an expired one has a tick left that blanks it
\* (expire), unless the deadline fell between a tick's last look and schedule().
THEOREM SecretOnlyUnderWayHolds == Spec => []SecretOnlyUnderWay
<1>1. PairingInv => SecretOnlyUnderWay
  BY DEF PairingInv
<1> QED BY <1>1, PairingInvariant, PTL

\* Neither a late answer of mDNS or adb, nor a cancel, nor a replacement changes
\* what became of an attempt (PairingSession, PairingService.terminate).
THEOREM OutcomeStandsHolds == Spec => OutcomeStands
<1>1. PairingInv /\ [Next]_vars =>
        [\A i \in Ids :
           /\ Expired(i) => state'[i] \in {"awaiting-scan", "failed"}
           /\ state[i] \in Terminal => state'[i] = state[i]]_vars
  BY StepPromise DEF Next
<1> QED BY <1>1, PairingInvariant, PTL DEF Spec, OutcomeStands
=============================================================================
