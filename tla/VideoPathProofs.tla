------------------------------ MODULE VideoPathProofs ------------------------------
(***************************************************************************)
(* Proofs about the two ends of a session's video path: how it starts      *)
(* (StreamStartup), and the gate in front of the browser (StreamCongestion).*)
(*                                                                         *)
(* NextPacketFollows is not inductive: that the next packet is a successor *)
(* depends on the units still on the wire, and on the packet the device    *)
(* will write when there are none.  StartupInv says of every unit which one *)
(* comes after it (WireInOrder), and of the reader which one it waits for   *)
(* (ReaderInOrder); that a chunk of any length keeps this is an induction   *)
(* over its units, on the recursive function of drain().                   *)
(***************************************************************************)
EXTENDS StreamStartup, StreamCongestion, SequenceTheorems, WellFoundedInduction, TLAPS

(* Induction over the numbers, as a fact about sets of them: the theorem of *)
(* the library is about an operator, which the provers cannot instantiate.  *)

Below == OpToRel(<, Nat)

LEMMA BelowIsWellFounded == IsWellFoundedOn(Below, Nat)
  BY NatLessThanWellFounded, Zenon DEF Below

LEMMA BelowLess == \A x, y \in Nat : y < x => <<y, x>> \in Below
  BY DEF Below, OpToRel

LEMMA SetInduction ==
  ASSUME NEW S, S \subseteq Nat, 0 \in S, \A n \in S : n + 1 \in S
  PROVE  S = Nat
<1>1. ASSUME Nat \ S # {} PROVE FALSE
  <2>1. PICK x \in Nat \ S : \A y \in Nat \ S : ~ (<<y, x>> \in Below)
    BY <1>1, BelowIsWellFounded, WFMin, Zenon
  <2>2. x - 1 \in Nat /\ x = (x - 1) + 1 /\ x - 1 < x
    BY <2>1
  <2>3. x - 1 \in S
    BY <2>1, <2>2, BelowLess
  <2> QED BY <2>1, <2>2, <2>3
<1> QED BY <1>1

\* The recursive function of drain() exists: it takes one unit after another.
LEMMA DrainedUnfolds ==
  ASSUME NEW r, NEW units, Len(units) \in Nat
  PROVE  /\ Drained(r, units)[0] = r
         /\ \A n \in 1..Len(units) :
              Drained(r, units)[n] = TakeUnit(Drained(r, units)[n - 1], units[n])
<1> DEFINE Step(f, n) == IF n = 0 THEN r ELSE TakeUnit(f[n - 1], units[n])
           Has(f, m) == f = [n \in 0..m |-> Step(f, n)]
           S == {m \in Nat : \E f : Has(f, m)}
<1>1. 0 \in S
  <2>1. Has([n \in 0..0 |-> r], 0)
    OBVIOUS
  <2> QED BY <2>1
<1>2. ASSUME NEW m \in S PROVE m + 1 \in S
  <2>1. PICK f : Has(f, m)
    OBVIOUS
  <2> DEFINE g == [n \in 0..m + 1 |-> IF n = m + 1 THEN TakeUnit(f[m], units[m + 1]) ELSE f[n]]
  <2>2. ASSUME NEW n \in 0..m + 1 PROVE g[n] = Step(g, n)
    <3>1. CASE n = 0
      BY <2>1, <3>1
    <3>2. CASE n = m + 1
      BY <3>2
    <3>3. CASE n \in 1..m
      <4>1. g[n] = f[n] /\ g[n - 1] = f[n - 1] /\ n # 0
        BY <3>3
      <4>2. f[n] = TakeUnit(f[n - 1], units[n])
        BY <2>1, <3>3, <4>1
      <4> QED BY <4>1, <4>2
    <3> QED BY <3>1, <3>2, <3>3
  <2>3. Has(g, m + 1)
    BY <2>2
  <2>4. \E h : Has(h, m + 1)
    BY <2>3
  <2> HIDE DEF Has, g
  <2> QED BY <2>4
<1>3. S = Nat
  BY <1>1, <1>2, SetInduction
<1>4. \E f : Has(f, Len(units))
  BY <1>3
<1>5. Has(Drained(r, units), Len(units))
  BY <1>4 DEF Drained
<1> QED BY <1>5

-----------------------------------------------------------------------------
(* Cutting a chunk in two makes no difference to the reader.               *)

LEMMA DrainedPrefix ==
  ASSUME NEW U, NEW u \in Seq(U), NEW v \in Seq(U), NEW r
  PROVE  \A n \in 0..Len(u) : Drained(r, u \o v)[n] = Drained(r, u)[n]
<1> DEFINE w == u \o v
           f == Drained(r, w)
           g == Drained(r, u)
           S == {n \in Nat : n <= Len(u) => f[n] = g[n]}
<1>1. /\ Len(u) \in Nat /\ Len(v) \in Nat /\ Len(w) = Len(u) + Len(v)
      /\ \A n \in 1..Len(u) : w[n] = u[n]
  OBVIOUS
<1>2. Len(w) \in Nat
  BY <1>1
<1> HIDE DEF w
<1>3. f[0] = r /\ \A n \in 1..Len(w) : f[n] = TakeUnit(f[n - 1], w[n])
  BY <1>2, DrainedUnfolds
<1>4. g[0] = r /\ \A n \in 1..Len(u) : g[n] = TakeUnit(g[n - 1], u[n])
  BY <1>1, DrainedUnfolds
<1> HIDE DEF f, g
<1>5. 0 \in S
  BY <1>3, <1>4
<1>6. ASSUME NEW n \in S PROVE n + 1 \in S
  <2> SUFFICES ASSUME n + 1 <= Len(u) PROVE f[n + 1] = g[n + 1]
    OBVIOUS
  <2>1. n + 1 \in 1..Len(u) /\ n + 1 \in 1..Len(w) /\ (n + 1) - 1 = n /\ f[n] = g[n]
    BY <1>1
  <2> QED BY <1>1, <1>3, <1>4, <2>1
<1>7. S = Nat
  <2>1. S \subseteq Nat
    OBVIOUS
  <2> HIDE DEF S
  <2> QED BY <1>5, <1>6, <2>1, SetInduction
<1> QED BY <1>1, <1>7 DEF w, f, g

\* The packets a FrameReader makes of a stream do not depend on how it was cut
\* into chunks (FrameReader.onData): a chunk is read like its two halves.
THEOREM ReadInChunks ==
  ASSUME NEW U, NEW u \in Seq(U), NEW v \in Seq(U), NEW r
  PROVE  Read(r, u \o v) = Read(Read(r, u), v)
<1> DEFINE w == u \o v
           f == Drained(r, w)
           m == Drained(r, u)[Len(u)]
           g == Drained(m, v)
           S == {n \in Nat : n <= Len(v) => f[Len(u) + n] = g[n]}
<1>1. /\ Len(u) \in Nat /\ Len(v) \in Nat /\ Len(w) = Len(u) + Len(v)
      /\ \A n \in 1..Len(v) : w[Len(u) + n] = v[n]
  OBVIOUS
<1>2. Len(w) \in Nat /\ Len(u) \in 0..Len(u) /\ Len(u) + 0 = Len(u)
  BY <1>1
<1> HIDE DEF w
<1>3. \A n \in 1..Len(w) : f[n] = TakeUnit(f[n - 1], w[n])
  BY <1>2, DrainedUnfolds
<1>4. g[0] = m /\ \A n \in 1..Len(v) : g[n] = TakeUnit(g[n - 1], v[n])
  BY <1>1, DrainedUnfolds
<1>5. f[Len(u)] = m
  BY <1>2, DrainedPrefix DEF w
<1> HIDE DEF f, g, m
<1>6. 0 \in S
  BY <1>2, <1>4, <1>5
<1>7. ASSUME NEW n \in S PROVE n + 1 \in S
  <2> SUFFICES ASSUME n + 1 <= Len(v) PROVE f[Len(u) + (n + 1)] = g[n + 1]
    OBVIOUS
  <2>1. /\ n + 1 \in 1..Len(v) /\ (n + 1) - 1 = n /\ f[Len(u) + n] = g[n]
        /\ Len(u) + (n + 1) \in 1..Len(w) /\ (Len(u) + (n + 1)) - 1 = Len(u) + n
    BY <1>1
  <2>2. f[Len(u) + (n + 1)] = TakeUnit(g[n], w[Len(u) + (n + 1)])
    BY <1>3, <2>1
  <2>3. g[n + 1] = TakeUnit(g[n], v[n + 1])
    BY <1>4, <2>1
  <2> QED BY <1>1, <2>1, <2>2, <2>3
<1>8. S = Nat
  <2>1. S \subseteq Nat
    OBVIOUS
  <2> HIDE DEF S
  <2> QED BY <1>6, <1>7, <2>1, SetInduction
<1>9. f[Len(w)] = g[Len(v)]
  BY <1>1, <1>8
<1> QED BY <1>9 DEF Read, w, f, g, m

-----------------------------------------------------------------------------
(* The order of the units, as facts about the packets s and a sequence w   *)
(* of units that ends with the last packet.                                *)

\* The unit after u in the stream.
NextUnit(s, u) == IF u[2] = 1 /\ s[u[1]] # "session" THEN <<u[1], 2>> ELSE <<u[1] + 1, 1>>

\* The unit after the k-th of w, or the first one of the packet to come.
After(s, w, k) == IF k < Len(w) THEN w[k + 1] ELSE <<Len(s) + 1, 1>>

Coming(s, w) == After(s, w, 0)

WireInOrder(s, w) == \A k \in 1..Len(w) : NextUnit(s, w[k]) = After(s, w, k)

SeenInOrder(r) == \A k \in 1..(Len(r.seen) - 1) : r.seen[k + 1] = r.seen[k] + 1

\* What the reader r has taken goes on with u.
ReaderInOrder(s, r, u) ==
    /\ r.rbuf # <<>> =>
         \E i \in 1..Len(s) :
            /\ r.rbuf = << <<i, 1>> >> /\ s[i] # "session"
            /\ r.seen # <<>> => i = r.seen[Len(r.seen)] + 1
            /\ r.reader = "ok" => u = <<i, 2>>
    /\ (r.reader = "ok" /\ r.rbuf = <<>> /\ r.seen # <<>>) => u = <<r.seen[Len(r.seen)] + 1, 1>>

Flows(r) == r.flow = "flowing" /\ r.stash = <<>>

Reading(r, u) ==
    /\ r \in ReceiverType /\ Flows(r) /\ r.listener = "reader"
    /\ SeenInOrder(r) /\ ReaderInOrder(sent, r, u)

\* One more packet keeps the packets in order if it is the successor.
LEMMA SeenGrows ==
  ASSUME NEW seen \in Seq(Nat), NEW p \in Nat, NEW more, more = Append(seen, p),
         \A k \in 1..(Len(seen) - 1) : seen[k + 1] = seen[k] + 1,
         seen # <<>> => p = seen[Len(seen)] + 1
  PROVE  /\ \A k \in 1..(Len(more) - 1) : more[k + 1] = more[k] + 1
         /\ more # <<>> /\ more[Len(more)] = p
<1>0. Len(seen) \in Nat
  OBVIOUS
<1>1. /\ Len(seen) \in Nat /\ Len(more) = Len(seen) + 1 /\ Len(more) - 1 = Len(seen)
      /\ more # <<>> /\ more[Len(more)] = p
      /\ \A k \in 1..Len(seen) : more[k] = seen[k]
  OBVIOUS
<1>2. ASSUME NEW k \in 1..Len(seen) PROVE more[k + 1] = more[k] + 1
  <2>1. CASE k = Len(seen)
    BY <1>1, <2>1
  <2>2. CASE k \in 1..(Len(seen) - 1)
    BY <1>1, <2>2
  <2>3. k = Len(seen) \/ k \in 1..(Len(seen) - 1)
    BY <1>0
  <2> QED BY <2>1, <2>2, <2>3
<1> QED BY <1>1, <1>2

\* What the reader becomes with one more packet, and with one begun.
LEMMA FramedFields ==
  ASSUME NEW r \in ReceiverType, NEW p \in 1..Len(sent), NEW u \in UnitType, NEW q,
         \/ q = [r EXCEPT !.rbuf = <<>>, !.seen = Append(@, p)]
         \/ r.rbuf = <<>> /\ q = [r EXCEPT !.seen = Append(@, p)]
  PROVE  /\ q \in ReceiverType /\ q.seen = Append(r.seen, p) /\ q.rbuf = <<>>
         /\ q.flow = r.flow /\ q.stash = r.stash /\ q.listener = r.listener
<1> DEFINE P == 1..Len(sent)
<1>1. Append(r.seen, p) \in Seq(P)
  BY AppendProperties DEF ReceiverType
<1>2. <<>> \in Seq(UnitType)
  OBVIOUS
<1> HIDE DEF P
<1> QED BY <1>1, <1>2 DEF ReceiverType, P

\* One unit, in each state of drain().
LEMMA TakeUnitKeeps ==
  ASSUME NEW r, NEW u \in UnitType, Reading(r, u)
  PROVE  Reading(TakeUnit(r, u), NextUnit(sent, u))
<1> DEFINE q == TakeUnit(r, u)
           last == r.seen[Len(r.seen)]
<1>1. r \in ReceiverType /\ r.reader \in {"ok", "garbled"} /\ r.seen \in Seq(Nat)
  <2>1. 1..Len(sent) \subseteq Nat
    OBVIOUS
  <2> QED BY <2>1, SeqMonotonic DEF Reading, ReceiverType
<1>2. /\ u[1] \in Nat /\ u[1] \in 1..Len(sent)
      /\ u = <<u[1], u[2]>> /\ u[2] \in {1, 2}
  BY DEF UnitType
<1>0. SUFFICES Reading(q, NextUnit(sent, u))
  OBVIOUS
<1>3. ASSUME q \in ReceiverType, q.rbuf = <<>>, q.seen = Append(r.seen, u[1]),
             q.flow = r.flow, q.stash = r.stash, q.listener = r.listener,
             r.seen # <<>> => u[1] = last + 1,
             NextUnit(sent, u) = <<u[1] + 1, 1>>
      PROVE  Reading(q, NextUnit(sent, u))
  <2> HIDE DEF q
  <2>1. \A k \in 1..(Len(r.seen) - 1) : r.seen[k + 1] = r.seen[k] + 1
    BY DEF Reading, SeenInOrder
  <2>2. /\ \A k \in 1..(Len(q.seen) - 1) : q.seen[k + 1] = q.seen[k] + 1
        /\ q.seen[Len(q.seen)] = u[1]
    <3> DEFINE seen == r.seen
               more == q.seen
               p == u[1]
    <3>1. /\ seen \in Seq(Nat) /\ p \in Nat /\ more = Append(seen, p)
          /\ \A k \in 1..(Len(seen) - 1) : seen[k + 1] = seen[k] + 1
          /\ seen # <<>> => p = seen[Len(seen)] + 1
      BY <1>1, <1>2, <1>3, <2>1
    <3> HIDE DEF seen, more, p
    <3>2. /\ \A k \in 1..(Len(more) - 1) : more[k + 1] = more[k] + 1
          /\ more # <<>> /\ more[Len(more)] = p
      BY <3>1, SeenGrows
    <3> QED BY <3>2 DEF more, p
  <2> QED BY <1>3, <2>2 DEF Reading, Flows, ReaderInOrder, SeenInOrder
<1>4. CASE r.reader = "garbled"
  <2>1. q = r
    BY <1>4 DEF TakeUnit
  <2> QED BY <1>4, <2>1 DEF Reading, ReaderInOrder
<1>5. CASE r.reader = "ok" /\ r.rbuf # <<>>
  <2>1. q = [r EXCEPT !.rbuf = <<>>, !.seen = Append(@, u[1])]
    BY <1>5 DEF TakeUnit
  <2>2. u[2] = 2 /\ (r.seen # <<>> => u[1] = last + 1)
    BY <1>5 DEF Reading, ReaderInOrder
  <2>3. NextUnit(sent, u) = <<u[1] + 1, 1>>
    BY <2>2 DEF NextUnit
  <2> HIDE DEF q
  <2> QED BY <1>1, <1>2, <1>3, <2>1, <2>2, <2>3, FramedFields
<1>6. CASE r.reader = "ok" /\ r.rbuf = <<>> /\ u[2] = 2
  <2>1. q = [r EXCEPT !.reader = "garbled"]
    BY <1>6 DEF TakeUnit
  <2>2. /\ q \in ReceiverType /\ q.reader = "garbled" /\ q.rbuf = <<>> /\ q.seen = r.seen
        /\ q.flow = r.flow /\ q.stash = r.stash /\ q.listener = r.listener
    BY <1>1, <1>6, <2>1 DEF ReceiverType
  <2> HIDE DEF q
  <2> QED BY <2>2 DEF Reading, Flows, ReaderInOrder, SeenInOrder
<1>7. CASE r.reader = "ok" /\ r.rbuf = <<>> /\ u[2] = 1
  <2>1. r.seen # <<>> => u[1] = last + 1
    BY <1>2, <1>7 DEF Reading, ReaderInOrder
  <2>2. CASE sent[u[1]] = "session"
    <3>1. q = [r EXCEPT !.seen = Append(@, u[1])]
      BY <1>7, <2>2 DEF TakeUnit
    <3>2. NextUnit(sent, u) = <<u[1] + 1, 1>>
      BY <2>2 DEF NextUnit
    <3> HIDE DEF q
    <3> QED BY <1>1, <1>2, <1>3, <1>7, <2>1, <3>1, <3>2, FramedFields
  <2>3. CASE sent[u[1]] # "session"
    <3>1. q = [r EXCEPT !.rbuf = <<u>>]
      BY <1>7, <2>3 DEF TakeUnit
    <3>2. NextUnit(sent, u) = <<u[1], 2>>
      BY <1>7, <2>3 DEF NextUnit
    <3> HIDE DEF q
    <3>3. /\ q \in ReceiverType /\ q.seen = r.seen /\ q.rbuf = << <<u[1], 1>> >>
          /\ q.flow = r.flow /\ q.stash = r.stash /\ q.listener = r.listener
      <4>1. <<u>> \in Seq(UnitType)
        OBVIOUS
      <4>2. u = <<u[1], 1>>
        BY <1>2, <1>7
      <4> QED BY <1>1, <3>1, <4>1, <4>2 DEF ReceiverType
    <3>4. SeenInOrder(q) /\ Flows(q)
      BY <3>3 DEF Reading, SeenInOrder, Flows
    <3>5. q.rbuf # <<>>
      BY <3>3
    <3> QED BY <1>2, <2>1, <2>3, <3>2, <3>3, <3>4, <3>5 DEF Reading, ReaderInOrder
  <2> QED BY <2>2, <2>3
<1> QED BY <1>1, <1>2, <1>4, <1>5, <1>6, <1>7

\* A chunk: the first n units of the wire.
LEMMA ReadKeeps ==
  ASSUME StartupTypeOK, WireInOrder(sent, wire), NEW n \in 1..Len(wire),
         NEW r, Reading(r, Coming(sent, wire))
  PROVE  Reading(Read(r, SubSeq(wire, 1, n)), After(sent, wire, n))
<1> DEFINE units == SubSeq(wire, 1, n)
           f == Drained(r, units)
           S == {m \in Nat : m <= n => Reading(f[m], After(sent, wire, m))}
<1>1. /\ Len(wire) \in Nat /\ n \in Nat /\ Len(units) = n
      /\ \A m \in 1..n : units[m] = wire[m] /\ wire[m] \in UnitType /\ m \in 1..Len(wire)
  BY DEF StartupTypeOK
<1> HIDE DEF units
<1>2. f[0] = r /\ \A m \in 1..n : f[m] = TakeUnit(f[m - 1], units[m])
  BY <1>1, DrainedUnfolds
<1> HIDE DEF f
<1>3. 0 \in S
  BY <1>2 DEF Coming
<1>4. ASSUME NEW m \in S PROVE m + 1 \in S
  <2> SUFFICES ASSUME m + 1 <= n PROVE Reading(f[m + 1], After(sent, wire, m + 1))
    OBVIOUS
  <2>1. m \in Nat /\ m + 1 \in 1..n /\ (m + 1) - 1 = m /\ m < Len(wire) /\ m <= n
    BY <1>1
  <2>2. /\ f[m + 1] = TakeUnit(f[m], wire[m + 1]) /\ wire[m + 1] \in UnitType
        /\ NextUnit(sent, wire[m + 1]) = After(sent, wire, m + 1)
    BY <1>1, <1>2, <2>1 DEF WireInOrder
  <2>3. Reading(f[m], wire[m + 1])
    BY <2>1 DEF After
  <2> QED BY <2>2, <2>3, TakeUnitKeeps
<1>5. S = Nat
  <2>1. S \subseteq Nat
    OBVIOUS
  <2> HIDE DEF S
  <2> QED BY <1>3, <1>4, <2>1, SetInduction
<1> QED BY <1>1, <1>5 DEF Read, f, units

-----------------------------------------------------------------------------
(* The inductive invariant.                                                *)

\* Who listens to the socket at each await of start().  Node buffers nothing
\* once the socket flows: readExact's unshift finds nobody listening.
Listening ==
    /\ rx.flow = "flowing" => rx.stash = <<>>
    /\ pc \in {"video", "audio", "live"} => rx.flow = "flowing"
    /\ pc = "live" <=> rx.listener = "reader"
    /\ pc \in {"tunnel", "video", "audio"} => rx.seen = <<>> /\ rx.rbuf = <<>>
    /\ watch # "off" => pc = "live"

StartupInv ==
    /\ StartupTypeOK
    /\ WireInOrder(sent, wire)
    /\ SeenInOrder(rx)
    /\ Listening
    /\ pc = "live" => ReaderInOrder(sent, rx, Coming(sent, wire))

LEMMA StartupInitInv == StartupInit => StartupInv
<1> SUFFICES ASSUME StartupInit PROVE StartupInv
  OBVIOUS
<1>1. PICK flow \in {"paused", "flowing"} : rx = Receiver(flow)
  BY DEF StartupInit
<1>2. rx \in ReceiverType
  <2>1. <<>> \in Seq(UnitType) /\ <<>> \in Seq(1..Len(sent))
    OBVIOUS
  <2> QED BY <1>1, <2>1 DEF Receiver, ReceiverType
<1>3. StartupTypeOK
  BY <1>2 DEF StartupInit, StartupTypeOK, KEYFRAME_REQUEST_ATTEMPTS
<1>4. SeenInOrder(rx) /\ Listening
  BY <1>1 DEF StartupInit, Receiver, SeenInOrder, Listening
<1> QED BY <1>3, <1>4 DEF StartupInit, StartupInv, WireInOrder

\* The device writes one more packet: what was typed stays so.
LEMMA UnitTypeGrows ==
  ASSUME Len(sent) \in Nat, Len(sent)' = Len(sent) + 1
  PROVE  UnitType \subseteq UnitType' /\ (ReceiverType \subseteq ReceiverType')
<1>1. 1..Len(sent) \subseteq (1..Len(sent))'
  OBVIOUS
<1>2. UnitType \subseteq UnitType'
  BY <1>1 DEF UnitType
<1>3. Seq(UnitType) \subseteq Seq(UnitType') /\ Seq(1..Len(sent)) \subseteq Seq((1..Len(sent))')
  BY <1>1, <1>2, SeqMonotonic
<1> QED BY <1>2, <1>3 DEF ReceiverType

\* t and v are s and w with one more packet of that kind.
Grows(s, w, kind, t, v) ==
    LET n == Len(s) + 1 IN
    /\ Len(s) \in Nat /\ Len(t) = n /\ t[n] = kind /\ \A i \in 1..Len(s) : t[i] = s[i]
    /\ w \in Seq((1..Len(s)) \X {1, 2}) /\ v = w \o Units(n, kind)

\* The wire grows by the units of the next packet, in order.
LEMMA UnitsFollow ==
  ASSUME NEW s, NEW w, NEW kind, NEW t, NEW v, Grows(s, w, kind, t, v), WireInOrder(s, w)
  PROVE  /\ v \in Seq((1..Len(t)) \X {1, 2})
         /\ WireInOrder(t, v)
         /\ Coming(t, v) = Coming(s, w)
<1> DEFINE n == Len(s) + 1
<1>0. /\ Len(s) \in Nat /\ n \in Nat /\ n = Len(s) + 1 /\ Len(t) = n /\ t[n] = kind
      /\ \A i \in 1..Len(s) : t[i] = s[i]
      /\ w \in Seq((1..Len(s)) \X {1, 2}) /\ v = w \o Units(n, kind)
  BY DEF Grows
<1> HIDE DEF n
<1> USE <1>0
<1> DEFINE more == Units(n, kind)
           U == (1..n) \X {1, 2}
<1>1. /\ Len(more) \in {1, 2} /\ more[1] = <<n, 1>>
      /\ Len(more) = 1 <=> kind = "session"
      /\ Len(more) = 2 => more[2] = <<n, 2>>
      /\ more \in Seq(U)
  <2>1. <<n, 1>> \in U /\ <<n, 2>> \in U
    OBVIOUS
  <2> HIDE DEF U
  <2>2. << <<n, 1>> >> \in Seq(U) /\ << <<n, 1>>, <<n, 2>> >> \in Seq(U)
    BY <2>1
  <2>3. CASE kind = "session"
    BY <2>2, <2>3 DEF Units
  <2>4. CASE kind # "session"
    BY <2>2, <2>4 DEF Units
  <2> QED BY <2>3, <2>4
<1>2. w \in Seq(U)
  <2>1. ((1..Len(s)) \X {1, 2}) \subseteq U
    OBVIOUS
  <2> QED BY <2>1, SeqMonotonic
<1>3. Len(w) \in Nat /\ \A k \in 1..Len(w) : w[k][1] \in 1..Len(s)
  OBVIOUS
<1> HIDE DEF more, U
<1>4. /\ v \in Seq(U) /\ Len(v) = Len(w) + Len(more)
      /\ \A k \in 1..Len(w) : v[k] = w[k]
      /\ v[Len(w) + 1] = more[1]
      /\ Len(more) = 2 => v[Len(w) + 2] = more[2]
  BY <1>1, <1>2, <1>3, ConcatProperties DEF more
<1> DEFINE L == Len(w)
<1>6. /\ L \in Nat /\ v[L + 1] = <<n, 1>>
      /\ kind = "session" => Len(v) = L + 1
      /\ kind # "session" => Len(v) = L + 2 /\ v[L + 2] = <<n, 2>>
      /\ \A k \in 1..L : v[k] = w[k]
  BY <1>1, <1>3, <1>4
<1>7. \A k \in 1..L : w[k][1] \in 1..Len(s)
  BY <1>3
<1> HIDE DEF L
<1>8. ASSUME NEW k \in 0..L PROVE After(t, v, k) = After(s, w, k)
  <2>1. CASE k < L
    <3>1. k + 1 \in 1..L /\ k < Len(v)
      BY <1>6, <2>1
    <3> QED BY <1>6, <2>1, <3>1 DEF After, L
  <2>2. CASE k = L
    <3>1. L < Len(v) /\ ~(L < L)
      BY <1>6
    <3> QED BY <1>6, <2>2, <3>1 DEF After, L
  <2>3. k < L \/ k = L
    BY <1>6
  <2> QED BY <2>1, <2>2, <2>3
<1>9. ASSUME NEW k \in 1..Len(v) PROVE NextUnit(t, v[k]) = After(t, v, k)
  <2>1. CASE k \in 1..L
    <3>1. NextUnit(t, v[k]) = NextUnit(s, w[k])
      BY <1>6, <1>7, <2>1 DEF NextUnit
    <3>2. NextUnit(s, w[k]) = After(s, w, k)
      BY <2>1 DEF WireInOrder, L
    <3>3. k \in 0..L
      BY <1>6, <2>1
    <3> QED BY <1>8, <3>1, <3>2, <3>3
  <2>2. CASE k = L + 1
    <3>1. CASE kind = "session"
      <4>1. NextUnit(t, v[k]) = <<n + 1, 1>>
        BY <1>6, <2>2, <3>1 DEF NextUnit
      <4>2. ~(k < Len(v))
        BY <1>6, <2>2, <3>1
      <4> QED BY <4>1, <4>2 DEF After
    <3>2. CASE kind # "session"
      <4>1. NextUnit(t, v[k]) = <<n, 2>>
        BY <1>6, <2>2, <3>2 DEF NextUnit
      <4>2. k < Len(v) /\ k + 1 = L + 2
        BY <1>6, <2>2, <3>2
      <4> QED BY <1>6, <3>2, <4>1, <4>2 DEF After
    <3> QED BY <3>1, <3>2
  <2>3. CASE k = L + 2 /\ kind # "session"
    <3>1. NextUnit(t, v[k]) = <<n + 1, 1>>
      BY <1>6, <2>3 DEF NextUnit
    <3>2. ~(k < Len(v))
      BY <1>6, <2>3
    <3> QED BY <3>1, <3>2 DEF After
  <2>4. k \in 1..L \/ k = L + 1 \/ (k = L + 2 /\ kind # "session")
    BY <1>6
  <2> QED BY <2>1, <2>2, <2>3, <2>4
<1>10. 0 \in 0..L
  BY <1>6
<1> QED BY <1>4, <1>8, <1>9, <1>10 DEF WireInOrder, Coming, U

-----------------------------------------------------------------------------
(* The steps.                                                              *)

\* readExact takes nothing from the packets and leaves no reader behind.
LEMMA CollectKeeps ==
  ASSUME NEW r \in ReceiverType, Flows(r), r.listener = "exact", NEW units \in Seq(UnitType),
         NEW q, q = Collect(r, units)
  PROVE  /\ q \in ReceiverType /\ Flows(q) /\ q.listener # "reader"
         /\ q.seen = r.seen /\ q.rbuf = r.rbuf
<1> DEFINE all == r.acc \o units
           n == Len(Header)
<1>1. all \in Seq(UnitType) /\ Len(all) \in Nat
  BY ConcatProperties, LenProperties DEF ReceiverType
<1>2. CASE Len(all) < n
  <2>1. q = [r EXCEPT !.acc = all]
    BY <1>2 DEF Collect
  <2> HIDE DEF all
  <2> QED BY <1>1, <2>1 DEF ReceiverType, Flows
<1>3. CASE ~(Len(all) < n)
  <2>1. n = 2
    BY DEF Header
  <2> DEFINE head == SubSeq(all, 1, n)
             rest == SubSeq(all, n + 1, Len(all))
             p == [r EXCEPT !.acc = head, !.listener = "none"]
  <2>2. head \in Seq(UnitType)
    <3>1. 1 \in Nat /\ 2 \in Nat
      OBVIOUS
    <3> HIDE DEF all
    <3> QED BY <1>1, <1>3, <2>1, SubSeqProperties
  <2>3. q = PutBack(p, rest)
    BY <1>3 DEF Collect
  <2> HIDE DEF head, rest
  <2>4. q = p
    BY <2>3 DEF PutBack, Flows, ReceiverType
  <2> QED BY <2>2, <2>4 DEF ReceiverType, Flows
<1> QED BY <1>2, <1>3

\* Cutting the wire leaves both parts in order.
LEMMA ChunkProperties ==
  ASSUME StartupTypeOK, WireInOrder(sent, wire), NEW n \in 1..Len(wire),
         NEW rest, rest = SubSeq(wire, n + 1, Len(wire))
  PROVE  /\ SubSeq(wire, 1, n) \in Seq(UnitType)
         /\ rest \in Seq(UnitType)
         /\ WireInOrder(sent, rest)
         /\ Coming(sent, rest) = After(sent, wire, n)
<1>1. Len(wire) \in Nat /\ wire \in Seq(UnitType) /\ n \in Nat /\ n <= Len(wire) /\ n >= 1
  BY DEF StartupTypeOK
<1>2. /\ SubSeq(wire, 1, n) \in Seq(UnitType) /\ rest \in Seq(UnitType)
      /\ Len(rest) = Len(wire) - n
  BY <1>1
<1>3. \A k \in 1..Len(rest) : rest[k] = wire[n + k]
  BY <1>1
<1>4. ASSUME NEW k \in 0..Len(rest) PROVE After(sent, rest, k) = After(sent, wire, n + k)
  BY <1>1, <1>2, <1>3 DEF After
<1>5. ASSUME NEW k \in 1..Len(rest) PROVE NextUnit(sent, rest[k]) = After(sent, rest, k)
  <2>1. n + k \in 1..Len(wire) /\ k \in 0..Len(rest)
    BY <1>1, <1>2
  <2>2. NextUnit(sent, wire[n + k]) = After(sent, wire, n + k)
    BY <2>1 DEF WireInOrder
  <2> QED BY <1>3, <1>4, <2>1, <2>2
<1>6. 0 \in 0..Len(rest) /\ n + 0 = n
  BY <1>1, <1>2
<1>7. Coming(sent, rest) = After(sent, wire, n)
  BY <1>4, <1>6 DEF Coming
<1> QED BY <1>2, <1>5, <1>7 DEF WireInOrder

LEMMA ChunkKeeps == StartupInv /\ ChunkArrives => StartupInv'
<1> SUFFICES ASSUME StartupInv, ChunkArrives PROVE StartupInv'
  OBVIOUS
<1>1. PICK n \in 1..Len(wire) :
        rx' = Receive(rx, SubSeq(wire, 1, n)) /\ wire' = SubSeq(wire, n + 1, Len(wire))
  BY DEF ChunkArrives
<1> DEFINE units == SubSeq(wire, 1, n)
<1>2. /\ units \in Seq(UnitType) /\ wire' \in Seq(UnitType)
      /\ WireInOrder(sent, wire')
      /\ Coming(sent, wire') = After(sent, wire, n)
  BY <1>1, ChunkProperties DEF StartupInv
<1>3. /\ UNCHANGED <<sent, due, watch, requests, resets, control>>
      /\ pc' = pc \/ (pc = "video" /\ pc' \in {"video", "audio"})
  BY DEF ChunkArrives, Resumed
<1>4. CASE rx.flow = "paused"
  <2>1. rx' = [rx EXCEPT !.stash = rx.stash \o units]
    BY <1>1, <1>4 DEF Receive
  <2>2. rx.stash \o units \in Seq(UnitType)
    BY <1>2, ConcatProperties DEF StartupInv, StartupTypeOK, ReceiverType
  <2> HIDE DEF units
  <2>3. /\ rx' \in ReceiverType /\ rx'.flow = "paused" /\ rx'.listener = rx.listener
        /\ rx'.seen = rx.seen /\ rx'.rbuf = rx.rbuf
    BY <1>4, <2>1, <2>2 DEF StartupInv, StartupTypeOK, ReceiverType
  <2>4. pc \in {"tunnel", "over"} /\ pc' = pc
    BY <1>3, <1>4 DEF StartupInv, Listening, StartupTypeOK
  <2> QED BY <1>2, <1>3, <1>4, <2>3, <2>4
          DEF StartupInv, StartupTypeOK, ReceiverType, UnitType, SeenInOrder, Listening
<1>5. CASE rx.flow = "flowing" /\ rx.listener = "none"
  <2>1. rx' = rx
    BY <1>1, <1>5 DEF Receive, Emit
  <2> QED BY <1>2, <1>3, <1>5, <2>1 DEF StartupInv, StartupTypeOK, ReceiverType, UnitType, SeenInOrder, Listening
<1>6. CASE rx.flow = "flowing" /\ rx.listener = "exact"
  <2>1. rx' = Collect(rx, units)
    BY <1>1, <1>6 DEF Receive, Emit
  <2>2. rx \in ReceiverType /\ Flows(rx)
    BY <1>6 DEF StartupInv, StartupTypeOK, Flows, Listening
  <2> HIDE DEF units
  <2>3. /\ rx' \in ReceiverType /\ Flows(rx') /\ rx'.listener # "reader"
        /\ rx'.seen = rx.seen /\ rx'.rbuf = rx.rbuf
    BY <1>2, <1>6, <2>1, <2>2, CollectKeeps
  <2> QED BY <1>2, <1>3, <1>6, <2>3
          DEF StartupInv, StartupTypeOK, ReceiverType, UnitType, SeenInOrder, Listening, Flows
<1>7. CASE rx.flow = "flowing" /\ rx.listener = "reader"
  <2>1. rx' = Read(rx, units) /\ pc = "live" /\ pc' = "live"
    BY <1>1, <1>3, <1>7 DEF Receive, Emit, StartupInv, Listening
  <2>2. Reading(rx, Coming(sent, wire))
    BY <1>7, <2>1 DEF StartupInv, StartupTypeOK, Reading, Flows, Listening
  <2>3. Reading(rx', Coming(sent, wire'))
    BY <1>2, <2>1, <2>2, ReadKeeps DEF StartupInv
  <2> HIDE DEF units
  <2> QED BY <1>2, <1>3, <2>1, <2>3
          DEF StartupInv, StartupTypeOK, ReceiverType, UnitType, SeenInOrder, Listening,
              Flows, Reading, ReaderInOrder
<1> QED BY <1>4, <1>5, <1>6, <1>7 DEF StartupInv, StartupTypeOK, ReceiverType

LEMMA VideoHeaderKeeps == StartupInv /\ ReadVideoHeader => StartupInv'
<1> SUFFICES ASSUME StartupInv, ReadVideoHeader PROVE StartupInv'
  OBVIOUS
<1> DEFINE r == [rx EXCEPT !.listener = "exact", !.flow = "flowing", !.stash = <<>>]
<1>1. r \in ReceiverType /\ Flows(r) /\ r.listener = "exact" /\ r.seen = <<>> /\ r.rbuf = <<>>
  <2>1. <<>> \in Seq(UnitType)
    OBVIOUS
  <2> QED BY <2>1 DEF StartupInv, StartupTypeOK, ReceiverType, Flows, Listening, ReadVideoHeader
<1>2. rx' = Collect(r, rx.stash)
  BY <1>1 DEF ReadVideoHeader, Listen, Emit
<1>3. rx.stash \in Seq(UnitType)
  BY DEF StartupInv, StartupTypeOK, ReceiverType
<1> HIDE DEF r
<1>4. /\ rx' \in ReceiverType /\ Flows(rx') /\ rx'.listener # "reader"
      /\ rx'.seen = <<>> /\ rx'.rbuf = <<>>
  BY <1>1, <1>2, <1>3, CollectKeeps
<1>5. /\ UNCHANGED <<sent, due, wire, watch, requests, resets, control>>
      /\ pc = "tunnel" /\ pc' \in {"video", "audio"}
  BY DEF ReadVideoHeader, Resumed
<1> QED BY <1>4, <1>5 DEF StartupInv, StartupTypeOK, ReceiverType, UnitType, SeenInOrder, Listening, Flows

LEMMA AudioHeaderKeeps == StartupInv /\ ReadAudioHeader => StartupInv'
<1> SUFFICES ASSUME StartupInv, ReadAudioHeader PROVE StartupInv'
  OBVIOUS
<1> DEFINE r == [rx EXCEPT !.listener = "reader", !.flow = "flowing", !.stash = <<>>]
<1>1. /\ r \in ReceiverType /\ Flows(r) /\ r.listener = "reader"
      /\ r.seen = <<>> /\ r.rbuf = <<>> /\ rx.stash = <<>>
  BY DEF StartupInv, StartupTypeOK, ReceiverType, Flows, Listening, ReadAudioHeader
<1>2. rx' = r
  <2>1. rx' = Read(r, rx.stash)
    BY <1>1 DEF ReadAudioHeader, Listen, Emit
  <2> HIDE DEF r
  <2>2. Len(rx.stash) = 0 /\ 0 \in Nat
    BY <1>1
  <2> QED BY <2>1, <2>2, DrainedUnfolds DEF Read
<1> HIDE DEF r
<1>3. UNCHANGED <<sent, due, wire, requests, resets, control>> /\ pc' = "live" /\ watch' = "stall"
  BY DEF ReadAudioHeader
<1>4. StartupTypeOK'
  BY <1>1, <1>2, <1>3 DEF StartupInv, StartupTypeOK, ReceiverType, UnitType
<1>5. SeenInOrder(rx)' /\ Listening'
  BY <1>1, <1>2, <1>3 DEF SeenInOrder, Listening, Flows
<1>6. ReaderInOrder(sent, rx, Coming(sent, wire))'
  BY <1>1, <1>2 DEF ReaderInOrder
<1> QED BY <1>3, <1>4, <1>5, <1>6 DEF StartupInv

LEMMA WriteKeeps ==
  ASSUME StartupInv, NEW kind \in {"header", "config", "keyframe", "frame", "session"}, Write(kind),
         UNCHANGED <<pc, rx, watch, requests, resets, control>>,
         due' \in {<<"header">> \o Restart, Restart, Tail(Restart), <<>>}
  PROVE  StartupInv'
<1> DEFINE Kinds == {"header", "config", "keyframe", "frame", "session"}
           n == Len(sent) + 1
<1>1. /\ Len(sent) \in Nat /\ n \in Nat /\ n = Len(sent) + 1
      /\ sent' \in Seq(Kinds) /\ Len(sent') = n
      /\ sent'[n] = kind /\ \A i \in 1..Len(sent) : sent'[i] = sent[i]
  BY DEF StartupInv, StartupTypeOK, Write
<1>2. wire \in Seq((1..Len(sent)) \X {1, 2}) /\ WireInOrder(sent, wire)
  BY DEF StartupInv, StartupTypeOK, UnitType
<1> HIDE DEF n
<1>3. wire' = wire \o Units(n, kind)
  BY <1>1 DEF Write
<1>4. /\ wire' \in Seq((1..Len(sent')) \X {1, 2})
      /\ WireInOrder(sent', wire')
      /\ Coming(sent', wire') = Coming(sent, wire)
  <2>1. Grows(sent, wire, kind, sent', wire')
    BY <1>1, <1>2, <1>3 DEF Grows
  <2>2. WireInOrder(sent', wire') /\ wire' \in Seq((1..Len(sent')) \X {1, 2})
    BY <1>2, <2>1, UnitsFollow
  <2>3. Coming(sent', wire') = Coming(sent, wire)
    BY <1>2, <2>1, UnitsFollow DEF Coming, After
  <2> QED BY <2>2, <2>3
<1>5. rx' \in ReceiverType'
  BY <1>1, UnitTypeGrows DEF StartupInv, StartupTypeOK, n
<1>6. StartupTypeOK'
  BY <1>1, <1>4, <1>5 DEF StartupInv, StartupTypeOK, UnitType
<1>7. ASSUME pc = "live" PROVE ReaderInOrder(sent, rx, Coming(sent, wire))'
  <2>1. ReaderInOrder(sent, rx, Coming(sent, wire))
    BY <1>7 DEF StartupInv
  <2>2. \A i \in 1..Len(sent) : i \in 1..Len(sent')
    BY <1>1 DEF n
  <2> QED BY <1>1, <1>4, <2>1, <2>2 DEF ReaderInOrder
<1> QED BY <1>4, <1>6, <1>7 DEF StartupInv, SeenInOrder, Listening

\* <<"header">> \o Restart, spelt out.
LEMMA HeadOfThree ==
  ASSUME NEW x, NEW y, NEW z
  PROVE  <<x>> \o <<y, z>> = <<x, y, z>>
<1> DEFINE S == {x, y, z}
<1>1. <<x>> \in Seq(S) /\ <<y, z>> \in Seq(S) /\ <<x, y, z>> \in Seq(S)
  OBVIOUS
<1>2. <<x>> \o <<y, z>> \in Seq(S) /\ Len(<<x>> \o <<y, z>>) = 3
  BY <1>1, ConcatProperties
<1>3. \A i \in 1..3 : (<<x>> \o <<y, z>>)[i] = <<x, y, z>>[i]
  BY <1>1
<1> QED BY <1>1, <1>2, <1>3, SeqEqual

\* What the encoder owes shrinks by what it writes.
LEMMA DueShrinks ==
  ASSUME due \in {<<"header">> \o Restart, Restart, Tail(Restart), <<>>}, due # <<>>
  PROVE  /\ Head(due) \in {"header", "config", "keyframe"}
         /\ Tail(due) \in {<<"header">> \o Restart, Restart, Tail(Restart), <<>>}
<1>1. /\ <<"header">> \o Restart = <<"header", "config", "keyframe">>
      /\ Restart = <<"config", "keyframe">> /\ Tail(Restart) = <<"keyframe">>
  <2>1. <<"header">> \o <<"config", "keyframe">> = <<"header", "config", "keyframe">>
    BY HeadOfThree
  <2>2. Tail(<<"config", "keyframe">>) = <<"keyframe">>
    OBVIOUS
  <2> QED BY <2>1, <2>2 DEF Restart
<1>2. CASE due = <<"header", "config", "keyframe">>
  <2>1. Head(due) = "header" /\ Tail(due) = <<"config", "keyframe">>
    BY <1>2
  <2> QED BY <1>1, <2>1
<1>3. CASE due = <<"config", "keyframe">>
  <2>1. Head(due) = "config" /\ Tail(due) = <<"keyframe">>
    BY <1>3
  <2> QED BY <1>1, <2>1
<1>4. CASE due = <<"keyframe">>
  <2>1. Head(due) = "keyframe" /\ Tail(due) = <<>>
    BY <1>4
  <2> QED BY <1>1, <2>1
<1> QED BY <1>1, <1>2, <1>3, <1>4

LEMMA StartupNextInv == StartupInv /\ [StartupNext]_startupVars => StartupInv'
<1> SUFFICES ASSUME StartupInv, [StartupNext]_startupVars PROVE StartupInv'
  OBVIOUS
<1> USE DEF KEYFRAME_REQUEST_ATTEMPTS
<1>1. CASE TimerFires
  <2>1. requests' \in 0..3 /\ resets' \in Nat /\ watch' \in {"off", "retry"} /\ watch # "off"
    BY <1>1 DEF TimerFires, AttemptsLeft, StartupInv, StartupTypeOK
  <2>2. UNCHANGED <<pc, sent, due, wire, rx, control>>
    BY <1>1 DEF TimerFires
  <2> QED BY <2>1, <2>2 DEF StartupInv, StartupTypeOK, ReceiverType, UnitType, SeenInOrder, Listening
<1>2. CASE Release
  BY <1>2 DEF Release, StartupInv, StartupTypeOK, ReceiverType, UnitType, SeenInOrder, Listening
<1>3. CASE DeviceWrites
  BY <1>3, WriteKeeps, DueShrinks DEF DeviceWrites, StartupInv, StartupTypeOK
<1>4. CASE EncoderGoesOn
  BY <1>4, WriteKeeps DEF EncoderGoesOn, StartupInv, StartupTypeOK
<1>5. CASE DeviceResets
  BY <1>5 DEF DeviceResets, StartupInv, StartupTypeOK, ReceiverType, UnitType, SeenInOrder, Listening
<1>6. CASE ControlBreaks \/ UNCHANGED startupVars
  BY <1>6 DEF ControlBreaks, startupVars, StartupInv, StartupTypeOK, ReceiverType, UnitType,
              SeenInOrder, Listening
<1> QED BY <1>1, <1>2, <1>3, <1>4, <1>5, <1>6,
           ChunkKeeps, VideoHeaderKeeps, AudioHeaderKeeps DEF StartupNext

\* The inductive invariant of the start of the video, for any number of packets.
THEOREM StartupInvariant == StartupSpec => []StartupInv
<1> QED BY StartupInitInv, StartupNextInv, PTL DEF StartupSpec

\* However the stream is cut, the FrameReader misses no packet and repeats none.
THEOREM NextPacketFollowsHolds == StartupSpec => []NextPacketFollows
<1>1. StartupInv => NextPacketFollows
  <2> SUFFICES ASSUME StartupInv PROVE NextPacketFollows
    OBVIOUS
  <2> DEFINE pending == rx.rbuf \o wire
             p == rx.seen[Len(rx.seen)] + 1
  <2>1. rx.rbuf \in Seq(UnitType) /\ wire \in Seq(UnitType)
    BY DEF StartupInv, StartupTypeOK, ReceiverType
  <2>2. ASSUME pc = "live", rx.reader = "ok", rx.seen # <<>>, pending # <<>>
        PROVE  pending[1] = <<p, 1>>
    <3>1. CASE rx.rbuf # <<>>
      <4>1. rx.rbuf = << <<p, 1>> >>
        BY <2>2, <3>1 DEF StartupInv, ReaderInOrder
      <4> QED BY <2>1, <4>1
    <3>2. CASE rx.rbuf = <<>>
      <4>1. pending = wire /\ 0 < Len(wire)
        BY <2>1, <2>2, <3>2
      <4>2. wire[1] = <<p, 1>>
        BY <2>2, <3>2, <4>1 DEF StartupInv, ReaderInOrder, Coming, After
      <4> QED BY <4>1, <4>2
    <3> QED BY <3>1, <3>2
  <2> QED BY <2>2 DEF NextPacketFollows, StartupInv, SeenInOrder
<1> QED BY <1>1, StartupInvariant, PTL

\* The watchdog asks at most three times, and only a live session without a config
\* packet.
THEOREM RequestsAreWarrantedHolds == StartupSpec => RequestsAreWarranted
<1>1. StartupInv /\ [StartupNext]_startupVars =>
        [requests' # requests =>
           requests' <= KEYFRAME_REQUEST_ATTEMPTS /\ pc = "live" /\ ~HasConfig]_startupVars
  <2> SUFFICES ASSUME StartupInv, StartupNext, requests' # requests
               PROVE  requests' <= KEYFRAME_REQUEST_ATTEMPTS /\ pc = "live" /\ ~HasConfig
    OBVIOUS
  <2>1. TimerFires
    BY DEF StartupNext, ReadVideoHeader, ChunkArrives, ReadAudioHeader, Release, DeviceWrites,
           EncoderGoesOn, DeviceResets, ControlBreaks
  <2>2. CanRecover(rx) /\ AttemptsLeft /\ requests' = requests + 1 /\ watch # "off"
    BY <2>1 DEF TimerFires
  <2> QED BY <2>2 DEF CanRecover, AttemptsLeft, HasConfig, StartupInv, Listening, StartupTypeOK,
                      KEYFRAME_REQUEST_ATTEMPTS
<1> QED BY <1>1, StartupInvariant, PTL DEF StartupSpec, RequestsAreWarranted

-----------------------------------------------------------------------------
(* The congestion gate, for every choice of the water marks.               *)

USE WaterMarksAssumption DEF WaterMarksAssumption

\* Every variable keeps its type, whatever the marks and the packet sizes.
THEOREM TypeCorrect == Spec => []TypeOK
<1>1. Init => TypeOK
  <2> SUFFICES ASSUME Init
               PROVE  TypeOK
    OBVIOUS
  <2>1. asked \in BOOLEAN /\ hasControl \in BOOLEAN
    BY Zenon DEF Init
  <2>2. media \in Nat /\ other \in 0..MaxOther
    BY DEF Init
  <2>3. QED
    BY <2>1, <2>2, Zenon DEF Init, TypeOK
<1>2. TypeOK /\ [Next]_vars => TypeOK'
  <2> SUFFICES ASSUME TypeOK, [Next]_vars
               PROVE  TypeOK'
    OBVIOUS
  <2> USE DEF TypeOK, WaterMarks, StillAsked, buffered, Sizes
  <2>1. ASSUME NEW size \in Sizes, VideoConfig(size)
        PROVE  TypeOK'
    BY <2>1 DEF VideoConfig
  <2>2. ASSUME NEW size \in Sizes, VideoKeyframe(size)
        PROVE  TypeOK'
    <3>1. asked' \in BOOLEAN /\ hasControl' \in BOOLEAN
      BY <2>2, Zenon DEF VideoKeyframe
    <3>2. gate' \in {"flowing", "congested", "awaiting"}
      BY <2>2 DEF VideoKeyframe
    <3>3. media' \in Nat /\ other' \in 0..MaxOther
      BY <2>2 DEF VideoKeyframe, SendMedia, SendNothing
    <3>4. picture' \in {"intact", "gap", "garbage"}
      BY <2>2 DEF VideoKeyframe, Shed
    <3>5. QED
      BY <3>1, <3>2, <3>3, <3>4, Zenon
  <2>3. ASSUME NEW size \in Sizes, VideoDelta(size)
        PROVE  TypeOK'
    <3>1. asked' \in BOOLEAN
      BY <2>3, Zenon DEF VideoDelta, AskForKeyframe
    <3>2. hasControl' \in BOOLEAN
      BY <2>3, Zenon DEF VideoDelta
    <3>3. gate' \in {"flowing", "congested", "awaiting"}
      BY <2>3 DEF VideoDelta
    <3>4. media' \in Nat /\ other' \in 0..MaxOther
      BY <2>3 DEF VideoDelta, SendMedia, SendNothing
    <3>5. picture' \in {"intact", "gap", "garbage"}
      BY <2>3 DEF VideoDelta, Shed
    <3>6. QED
      BY <3>1, <3>2, <3>3, <3>4, <3>5
  <2>4. ASSUME NEW size \in Sizes, AudioFrame(size)
        PROVE  TypeOK'
    BY <2>4 DEF AudioFrame, SendMedia, SendNothing
  <2>5. ASSUME NEW size \in Sizes, UngatedPacket(size)
        PROVE  TypeOK'
    BY <2>5 DEF UngatedPacket
  <2>6. CASE BrowserReads
    BY <2>6 DEF BrowserReads
  <2>7. CASE BrowserCatchesUp
    BY <2>7 DEF BrowserCatchesUp
  <2>8. CASE UNCHANGED vars
    BY <2>8 DEF vars
  <2>9. QED
    BY <2>1, <2>2, <2>3, <2>4, <2>5, <2>6, <2>7, <2>8 DEF Next, AudioConfig
<1>3. QED
  BY <1>1, <1>2, PTL DEF Spec

-----------------------------------------------------------------------------
\* A gap in the picture exists only while the gate is shut to delta frames: with
\* this, the two promises of the gate are inductive.
GateInv ==
    /\ picture = "gap" => gate # "flowing"
    /\ NoOrphanDelta
    /\ MediaBacklogBounded

\* The invariant that makes both promises of the gate inductive.
LEMMA GateInvariant == Spec => []GateInv
<1>1. Init => GateInv
  BY DEF Init, GateInv, NoOrphanDelta, MediaBacklogBounded
<1>2. TypeOK /\ GateInv /\ [Next]_vars => GateInv'
  <2> SUFFICES ASSUME TypeOK, GateInv, [Next]_vars
               PROVE  GateInv'
    OBVIOUS
  <2> USE DEF TypeOK, GateInv, NoOrphanDelta, MediaBacklogBounded, WaterMarks,
              buffered, Sizes, Shed, SendMedia, SendNothing
  <2>1. ASSUME NEW size \in Sizes, VideoConfig(size)
        PROVE  GateInv'
    BY <2>1 DEF VideoConfig
  <2>2. ASSUME NEW size \in Sizes, VideoKeyframe(size)
        PROVE  GateInv'
    BY <2>2 DEF VideoKeyframe
  <2>3. ASSUME NEW size \in Sizes, VideoDelta(size)
        PROVE  GateInv'
    BY <2>3 DEF VideoDelta
  <2>4. ASSUME NEW size \in Sizes, AudioFrame(size)
        PROVE  GateInv'
    BY <2>4 DEF AudioFrame
  <2>5. ASSUME NEW size \in Sizes, UngatedPacket(size)
        PROVE  GateInv'
    BY <2>5 DEF UngatedPacket
  <2>6. CASE BrowserReads
    BY <2>6 DEF BrowserReads
  <2>7. CASE BrowserCatchesUp
    BY <2>7 DEF BrowserCatchesUp
  <2>8. CASE UNCHANGED vars
    BY <2>8 DEF vars
  <2>9. QED
    BY <2>1, <2>2, <2>3, <2>4, <2>5, <2>6, <2>7, <2>8 DEF Next, AudioConfig
<1>3. QED
  BY <1>1, <1>2, TypeCorrect, PTL DEF Spec

\* No browser is ever sent a delta frame that refers to one it was not sent.
THEOREM NoOrphanDeltaHolds == Spec => []NoOrphanDelta
  BY GateInvariant, PTL DEF GateInv

\* The media held for a browser that does not read is bounded by the high mark
\* and one packet, for all marks and packet sizes.
THEOREM MediaBacklogBoundedHolds == Spec => []MediaBacklogBounded
  BY GateInvariant, PTL DEF GateInv

=============================================================================
