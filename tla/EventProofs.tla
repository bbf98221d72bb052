----------------------------- MODULE EventProofs -----------------------------
(***************************************************************************)
(* The promises of the event queue: of the broker by itself, for every     *)
(* capacity, set of node ids and batch size, and of the requests that wait *)
(* on it, for any number of them and of events.                            *)
(*                                                                         *)
(*  - BrokerInv: types, the capacity and the reliable class. The depth     *)
(*    needs that the coalescing map is finite: replacing a key keeps its   *)
(*    cardinality, a new key adds one, Next takes one away.                *)
(*  - CoalescingInv: an entry of the coalescing map is filed under its own *)
(*    key, is that key's newest update and has an order number of its own, *)
(*    so no newest update is lost and Next hands out the oldest entry.     *)
(*  - Whole: an accepted event has its batch around it; whole sequences    *)
(*    stay whole when they are concatenated.                               *)
(*  - WakeInv: the wake-up token of WaitEvents loses no terminal event.    *)
(*    TerminalEventsWake speaks of requests that sleep; it is not          *)
(*    inductive, because a request falls asleep some steps after it has    *)
(*    found the queue empty, and an event may arrive and the token be      *)
(*    spent in between. WakeInv covers the request from the moment it has  *)
(*    found nothing.                                                       *)
(***************************************************************************)
EXTENDS EventBrokerSpec, EventDelivery, EngineProofs, FiniteSetTheorems, SequenceTheorems, TLAPS

BrokerInv ==
  /\ BrokerTypeOK
  /\ IsFiniteSet(DOMAIN coalesced)
  /\ DepthWithinCap
  /\ CriticalExactlyOnce

------------------------------------------------------------------------------
(* Facts about the operators                                                 *)

\* A function on 1..n is a sequence of length n.
LEMMA FunctionIsSeq ==
  ASSUME NEW S, NEW n \in Nat, NEW f \in [1..n -> S]
  PROVE  f \in Seq(S) /\ Len(f) = n
  BY SeqDef

\* Concatenation adds lengths.
LEMMA ConcatLen ==
  ASSUME NEW S, NEW s \in Seq(S), NEW t \in Seq(S)
  PROVE  s \o t \in Seq(S) /\ Len(s \o t) = Len(s) + Len(t)
  OBVIOUS

\* The driver's events are typed.
LEMMA DriverEvents ==
  /\ Single("submit", "") \in Event /\ Single("stats", "") \in Event
  /\ \A id \in Ids : Single("change", id) \in Event
  /\ \A n \in Nat : Batch(n) \in Seq(Event)
  <1>1. Single("submit", "") \in Event /\ Single("stats", "") \in Event
    BY DEF Single, Event, Kinds
  <1>2. \A id \in Ids : Single("change", id) \in Event
    BY DEF Single, Event, Kinds
  <1>3. ASSUME NEW n \in Nat PROVE Batch(n) \in Seq(Event)
    <2> DEFINE e(i) == [ev |-> "committed", id |-> "", part |-> i, of |-> n]
    <2>1. \A i \in 1..n : e(i) \in Event
      BY DEF Event, Kinds
    <2> HIDE DEF e
    <2>2. [i \in 1..n |-> e(i)] \in [1..n -> Event]
      BY <2>1
    <2>3. [i \in 1..n |-> e(i)] \in Seq(Event)
      BY <2>2, FunctionIsSeq
    <2> QED BY <2>3 DEF Batch, e
  <1> QED BY <1>1, <1>2, <1>3

\* order() keeps events and types.
LEMMA StampFacts ==
  ASSUME NEW evs \in Seq(Event), nextOrder \in Nat
  PROVE  /\ Stamp(evs) \in Seq(Entry)
         /\ Len(Stamp(evs)) = Len(evs)
         /\ Events(Stamp(evs)) = evs
  <1>1. Stamp(evs) \in Seq(Entry) /\ Len(Stamp(evs)) = Len(evs)
    BY DEF Stamp, Entry
  <1>2. \A i \in 1..Len(evs) : Stamp(evs)[i].event = evs[i]
    BY DEF Stamp
  <1>3. Events(Stamp(evs)) = [i \in 1..Len(evs) |-> evs[i]]
    BY <1>1, <1>2 DEF Events
  <1> QED BY <1>1, <1>3

\* The events of queued or delivered entries.
LEMMA EventsType ==
  ASSUME NEW q \in Seq(Entry) \cup Seq(DeliveredEntry)
  PROVE  /\ Events(q) \in Seq(Event) /\ Len(Events(q)) = Len(q) /\ Len(q) \in Nat
         /\ \A i \in 1..Len(q) : Events(q)[i] = q[i].event
  <1>1. Len(q) \in Nat
    OBVIOUS
  <1>2. ASSUME NEW i \in 1..Len(q) PROVE q[i].event \in Event
    <2>1. CASE q \in Seq(Entry)
      <3>1. q[i] \in Entry
        BY <2>1, ElementOfSeq
      <3> QED BY <3>1 DEF Entry
    <2>2. CASE q \in Seq(DeliveredEntry)
      <3>1. q[i] \in DeliveredEntry
        BY <2>2, ElementOfSeq
      <3> QED BY <3>1 DEF DeliveredEntry
    <2> QED BY <2>1, <2>2
  <1>3. Events(q) \in [1..Len(q) -> Event]
    BY <1>2 DEF Events
  <1>4. \A i \in 1..Len(q) : Events(q)[i] = q[i].event
    BY DEF Events
  <1> QED BY <1>1, <1>3, <1>4, FunctionIsSeq

\* A sequence made of two parts is their concatenation.
LEMMA IsConcat ==
  ASSUME NEW S, NEW a \in Seq(S), NEW b \in Seq(S), NEW c \in Seq(S),
         Len(c) = Len(a) + Len(b),
         \A i \in 1..Len(a) : c[i] = a[i],
         \A i \in 1..Len(b) : c[Len(a) + i] = b[i]
  PROVE  c = a \o b
  <1>1. a \o b \in Seq(S) /\ Len(a \o b) = Len(a) + Len(b)
    BY ConcatProperties
  <1>2. ASSUME NEW i \in 1..Len(c) PROVE c[i] = (a \o b)[i]
    <2>1. (a \o b)[i] = IF i <= Len(a) THEN a[i] ELSE b[i - Len(a)]
      BY ConcatProperties
    <2>2. CASE i <= Len(a)
      BY <2>1, <2>2
    <2>3. CASE ~(i <= Len(a))
      <3>1. i - Len(a) \in 1..Len(b) /\ Len(a) + (i - Len(a)) = i
        BY <2>3
      <3>2. c[Len(a) + (i - Len(a))] = b[i - Len(a)]
        BY <3>1
      <3> QED BY <2>1, <2>3, <3>1, <3>2
    <2> QED BY <2>2, <2>3
  <1> QED BY <1>1, <1>2, SeqEqual

\* Enqueueing at the back, seen as events.
LEMMA EventsConcat ==
  ASSUME NEW q \in Seq(Entry), NEW r \in Seq(Entry)
  PROVE  Events(q \o r) = Events(q) \o Events(r)
  <1>1. /\ q \o r \in Seq(Entry) /\ Len(q \o r) = Len(q) + Len(r)
        /\ Len(q) \in Nat /\ Len(r) \in Nat
        /\ \A i \in 1..Len(q) : (q \o r)[i] = q[i]
        /\ \A i \in 1..Len(r) : (q \o r)[Len(q) + i] = r[i]
    OBVIOUS
  <1>2. /\ Events(q) \in Seq(Event) /\ Len(Events(q)) = Len(q)
        /\ Events(r) \in Seq(Event) /\ Len(Events(r)) = Len(r)
        /\ Events(q \o r) \in Seq(Event) /\ Len(Events(q \o r)) = Len(q \o r)
    BY <1>1, EventsType
  <1>3. /\ \A i \in 1..Len(q) : Events(q \o r)[i] = Events(q)[i]
        /\ \A i \in 1..Len(r) : Events(q \o r)[Len(q) + i] = Events(r)[i]
    BY <1>1 DEF Events
  <1>4. /\ Len(Events(q \o r)) = Len(Events(q)) + Len(Events(r))
        /\ \A i \in 1..Len(Events(q)) : Events(q \o r)[i] = Events(q)[i]
        /\ \A i \in 1..Len(Events(r)) : Events(q \o r)[Len(Events(q)) + i] = Events(r)[i]
    BY <1>1, <1>2, <1>3
  <1> QED BY <1>2, <1>4, IsConcat

\* Taking from the front, seen as events.
LEMMA EventsHeadTail ==
  ASSUME NEW q \in Seq(Entry), q # <<>>
  PROVE  Events(q) = <<Head(q).event>> \o Events(Tail(q))
  <1>1. /\ Tail(q) \in Seq(Entry) /\ Len(Tail(q)) = Len(q) - 1
        /\ Len(q) \in Nat /\ Len(q) > 0
        /\ \A i \in 1..(Len(q) - 1) : Tail(q)[i] = q[1 + i]
        /\ Head(q) = q[1] /\ Head(q) \in Entry
    OBVIOUS
  <1> DEFINE h == <<Head(q).event>>
  <1>2. h \in Seq(Event) /\ Len(h) = 1 /\ h[1] = q[1].event
    BY <1>1 DEF Entry
  <1> HIDE DEF h
  <1>3. /\ Events(q) \in Seq(Event) /\ Len(Events(q)) = Len(q)
        /\ Events(Tail(q)) \in Seq(Event) /\ Len(Events(Tail(q))) = Len(q) - 1
    BY <1>1, EventsType
  <1>4. /\ Events(q)[1] = h[1]
        /\ \A i \in 1..(Len(q) - 1) : Events(q)[1 + i] = Events(Tail(q))[i]
    BY <1>1, <1>2 DEF Events
  <1>5. Len(Events(q)) = Len(h) + Len(Events(Tail(q)))
    <2>1. Len(q) = 1 + (Len(q) - 1)
      BY <1>1
    <2> QED BY <1>2, <1>3, <2>1, Zenon
  <1>6. ASSUME NEW i \in 1..Len(h) PROVE Events(q)[i] = h[i]
    <2>1. i = 1
      BY <1>2
    <2> QED BY <1>4, <2>1
  <1>7. ASSUME NEW i \in 1..Len(Events(Tail(q)))
        PROVE  Events(q)[Len(h) + i] = Events(Tail(q))[i]
    <2>1. i \in 1..(Len(q) - 1) /\ Len(h) + i = 1 + i
      BY <1>2, <1>3
    <2> QED BY <1>4, <2>1
  <1>8. Events(q) = h \o Events(Tail(q))
    BY <1>2, <1>3, <1>5, <1>6, <1>7, IsConcat
  <1> QED BY <1>8 DEF h

\* Handing an entry out, seen as events.
LEMMA EventsAppend ==
  ASSUME NEW q \in Seq(DeliveredEntry), NEW e \in DeliveredEntry
  PROVE  Events(Append(q, e)) = Append(Events(q), e.event)
  <1>1. Append(q, e) \in Seq(DeliveredEntry) /\ Len(Append(q, e)) = Len(q) + 1 /\ Len(q) \in Nat
    OBVIOUS
  <1>2. /\ Events(q) \in Seq(Event) /\ Len(Events(q)) = Len(q)
        /\ Events(Append(q, e)) \in Seq(Event) /\ Len(Events(Append(q, e))) = Len(q) + 1
    BY <1>1, EventsType
  <1>3. e.event \in Event
    BY DEF DeliveredEntry
  <1>4. Append(Events(q), e.event) \in Seq(Event) /\ Len(Append(Events(q), e.event)) = Len(q) + 1
    BY <1>2, <1>3
  <1>5. ASSUME NEW i \in 1..(Len(q) + 1)
        PROVE  Events(Append(q, e))[i] = Append(Events(q), e.event)[i]
    BY <1>1, <1>2 DEF Events
  <1> QED BY <1>2, <1>4, <1>5, SeqEqual

------------------------------------------------------------------------------
(* The invariant holds at the start and every operation keeps it             *)

\* The queue lengths are natural numbers.
LEMMA DepthFacts ==
  ASSUME BrokerInv
  PROVE  /\ Len(critical) \in Nat /\ Len(telemetry) \in Nat
         /\ Cardinality(DOMAIN coalesced) \in Nat
         /\ Cap \in Nat
         /\ Len(critical) + Cardinality(DOMAIN coalesced) + Len(telemetry) <= Cap
  BY CapAssumption, FS_CardinalityType
     DEF BrokerInv, BrokerTypeOK, DepthWithinCap, Depth

\* A new broker is empty.
LEMMA BrokerInitInv == BrokerInit => BrokerInv
  <1> SUFFICES ASSUME BrokerInit PROVE BrokerInv
    OBVIOUS
  <1>1. DOMAIN coalesced = {} /\ DOMAIN latest = {}
    BY DEF BrokerInit
  <1>2. BrokerTypeOK
    BY <1>1 DEF BrokerInit, BrokerTypeOK
  <1>3. IsFiniteSet(DOMAIN coalesced) /\ Cardinality(DOMAIN coalesced) = 0
    BY <1>1, FS_EmptySet
  <1>4. DepthWithinCap
    BY <1>3, CapAssumption DEF BrokerInit, DepthWithinCap, Depth
  <1>5. CriticalExactlyOnce
    BY DEF BrokerInit, CriticalExactlyOnce, Events, Classes
  <1> QED BY <1>2, <1>3, <1>4, <1>5 DEF BrokerInv

\* EnqueueCritical and EnqueueCriticalBatch, given room for what they append.
LEMMA AppendInv ==
  ASSUME BrokerInv, NEW evs \in Seq(Event), AppendCritical(evs),
         evs = <<>> \/ Depth + Len(evs) <= Cap
  PROVE  BrokerInv'
  <1>1. /\ Stamp(evs) \in Seq(Entry) /\ Len(Stamp(evs)) = Len(evs)
        /\ Events(Stamp(evs)) = evs
    BY StampFacts DEF BrokerInv, BrokerTypeOK
  <1>2. critical \in Seq(Entry) /\ critical' = critical \o Stamp(evs)
    BY DEF BrokerInv, BrokerTypeOK, AppendCritical
  <1>3. critical' \in Seq(Entry) /\ Len(critical') = Len(critical) + Len(evs)
    <2> DEFINE new == Stamp(evs)
    <2>1. new \in Seq(Entry) /\ Len(new) = Len(evs) /\ critical' = critical \o new
      BY <1>1, <1>2
    <2> HIDE DEF new
    <2>2. critical \o new \in Seq(Entry) /\ Len(critical \o new) = Len(critical) + Len(new)
      BY <1>2, <2>1, ConcatLen
    <2> QED BY <2>1, <2>2, Zenon
  <1>4. accepted' \in Seq(Event) /\ nextOrder' \in Nat
    BY DEF BrokerInv, BrokerTypeOK, AppendCritical
  <1>5. BrokerTypeOK'
    BY <1>3, <1>4 DEF BrokerInv, BrokerTypeOK, AppendCritical
  <1>6. UNCHANGED <<coalesced, telemetry, delivered>>
    BY DEF AppendCritical
  <1>7. IsFiniteSet(DOMAIN coalesced)'
    BY <1>6 DEF BrokerInv
  <1>8. DepthWithinCap'
    <2>1. Depth' = Depth + Len(evs)
      BY <1>3, <1>6, DepthFacts DEF Depth
    <2>2. CASE evs = <<>>
      <3>1. Len(evs) = 0
        BY <2>2
      <3> QED BY <2>1, <3>1, DepthFacts DEF DepthWithinCap, Depth
    <2>3. CASE Depth + Len(evs) <= Cap
      BY <2>1, <2>3 DEF DepthWithinCap
    <2> QED BY <2>2, <2>3
  <1>9. CriticalExactlyOnce'
    <2> DEFINE d == Events(delivered["critical"])
               c == Events(critical)
    <2>1. Events(critical') = c \o evs
      BY <1>1, <1>2, EventsConcat
    <2>2. d \in Seq(Event) /\ c \in Seq(Event)
      BY EventsType DEF BrokerInv, BrokerTypeOK, Classes
    <2>3. accepted = d \o c /\ accepted' = accepted \o evs
      BY DEF BrokerInv, CriticalExactlyOnce, AppendCritical
    <2>4. Events(delivered'["critical"]) = d
      BY <1>6
    <2> HIDE DEF d, c
    <2>5. (d \o c) \o evs = d \o (c \o evs)
      BY <2>2, ConcatAssociative
    <2> QED BY <2>1, <2>3, <2>4, <2>5 DEF CriticalExactlyOnce
  <1> QED BY <1>5, <1>7, <1>8, <1>9 DEF BrokerInv

\* A coalescible update replaces its key's entry or takes a free place.
LEMMA CoalescibleInv ==
  ASSUME BrokerInv, NEW id \in Ids, EnqueueCoalescible(Single("change", id))
  PROVE  BrokerInv'
  <1> DEFINE ev == Single("change", id)
             k == Key(ev)
             entry == Stamp(<<ev>>)[1]
  <1>1. ev \in Event
    BY DriverEvents
  <1>2. k \in CoalescingKeys
    BY DEF Key, Single, CoalescingKeys
  <1>3. entry \in Entry
    <2> HIDE DEF ev
    <2>1. <<ev>> \in Seq(Event) /\ Len(<<ev>>) = 1
      BY <1>1
    <2>2. Stamp(<<ev>>) \in Seq(Entry) /\ Len(Stamp(<<ev>>)) = 1
      BY <2>1, StampFacts DEF BrokerInv, BrokerTypeOK
    <2> QED BY <2>2
  <1>4. /\ coalesced' = WithKey(coalesced, k, entry)
        /\ latest' = WithKey(latest, k, nextOrder + 1)
        /\ nextOrder' = nextOrder + 1
        /\ UNCHANGED <<critical, telemetry, nextSeq, accepted, delivered>>
        /\ k \in DOMAIN coalesced \/ Depth < Cap
    BY DEF EnqueueCoalescible, CoalescibleFits
  <1> HIDE DEF ev, k, entry
  <1>5. DOMAIN coalesced' = DOMAIN coalesced \cup {k} /\ DOMAIN latest' = DOMAIN latest \cup {k}
    BY <1>4 DEF WithKey
  <1>6. coalesced' \in [DOMAIN coalesced' -> Entry]
    BY <1>3, <1>4, <1>5 DEF WithKey, BrokerInv, BrokerTypeOK
  <1>7. latest' \in [DOMAIN latest' -> Nat]
    BY <1>4, <1>5 DEF WithKey, BrokerInv, BrokerTypeOK
  <1>8. BrokerTypeOK'
    BY <1>2, <1>4, <1>5, <1>6, <1>7 DEF BrokerInv, BrokerTypeOK
  <1>9. /\ IsFiniteSet(DOMAIN coalesced')
        /\ Cardinality(DOMAIN coalesced') =
             IF k \in DOMAIN coalesced THEN Cardinality(DOMAIN coalesced)
             ELSE Cardinality(DOMAIN coalesced) + 1
    BY <1>5, FS_AddElement DEF BrokerInv
  <1>10. DepthWithinCap'
    BY <1>4, <1>9, DepthFacts DEF DepthWithinCap, Depth
  <1>11. CriticalExactlyOnce'
    BY <1>4 DEF BrokerInv, CriticalExactlyOnce
  <1> QED BY <1>8, <1>9, <1>10, <1>11 DEF BrokerInv

\* Telemetry takes a free place or the place of older telemetry.
LEMMA TelemetryInv ==
  ASSUME BrokerInv, NEW ev \in Event, EnqueueTelemetry(ev)
  PROVE  BrokerInv'
  <1>1. <<ev>> \in Seq(Event) /\ Len(<<ev>>) = 1
    OBVIOUS
  <1>2. Stamp(<<ev>>) \in Seq(Entry) /\ Len(Stamp(<<ev>>)) = 1
    BY <1>1, StampFacts DEF BrokerInv, BrokerTypeOK
  <1>3. /\ telemetry' = TelemetryRoom \o Stamp(<<ev>>)
        /\ nextOrder' = nextOrder + 1
        /\ UNCHANGED <<critical, coalesced, nextSeq, accepted, delivered, latest>>
        /\ Depth < Cap \/ telemetry # <<>>
    BY DEF EnqueueTelemetry
  <1>4. TelemetryRoom \in Seq(Entry)
        /\ Len(TelemetryRoom) = IF Depth < Cap THEN Len(telemetry) ELSE Len(telemetry) - 1
    BY <1>3 DEF TelemetryRoom, BrokerInv, BrokerTypeOK
  <1>5. telemetry' \in Seq(Entry) /\ Len(telemetry') = Len(TelemetryRoom) + 1
    <2> DEFINE room == TelemetryRoom
               new == Stamp(<<ev>>)
    <2>1. /\ room \in Seq(Entry) /\ new \in Seq(Entry) /\ Len(new) = 1
          /\ telemetry' = room \o new
      BY <1>2, <1>3, <1>4
    <2> HIDE DEF room, new
    <2>2. room \o new \in Seq(Entry) /\ Len(room \o new) = Len(room) + Len(new)
      BY <2>1, ConcatLen
    <2>3. telemetry' \in Seq(Entry) /\ Len(telemetry') = Len(room) + 1
      BY <2>1, <2>2, Zenon
    <2> QED BY <2>3 DEF room
  <1>6. BrokerTypeOK'
    BY <1>3, <1>5 DEF BrokerInv, BrokerTypeOK
  <1>7. DepthWithinCap'
    BY <1>3, <1>4, <1>5, DepthFacts DEF DepthWithinCap, Depth
  <1>8. CriticalExactlyOnce' /\ IsFiniteSet(DOMAIN coalesced')
    BY <1>3 DEF BrokerInv, CriticalExactlyOnce
  <1> QED BY <1>6, <1>7, <1>8 DEF BrokerInv

\* What deliver() does to the history.
LEMMA DeliverFacts ==
  ASSUME BrokerInv, NEW class \in Classes, NEW entry \in Entry, Deliver(class, entry)
  PROVE  /\ delivered' \in [Classes -> Seq(DeliveredEntry)]
         /\ \A c \in Classes \ {class} : delivered'[c] = delivered[c]
         /\ Events(delivered'[class]) = Append(Events(delivered[class]), entry.event)
         /\ nextSeq' \in Nat
         /\ UNCHANGED <<nextOrder, accepted, latest>>
  <1> DEFINE e == [event |-> entry.event, seq |-> nextSeq + 1, order |-> entry.seq]
  <1>1. e \in DeliveredEntry /\ e.event = entry.event
    BY DEF Entry, DeliveredEntry, BrokerInv, BrokerTypeOK
  <1>2. /\ delivered' = [delivered EXCEPT ![class] = Append(@, e)]
        /\ nextSeq' = nextSeq + 1
        /\ UNCHANGED <<nextOrder, accepted, latest>>
    BY DEF Deliver
  <1> HIDE DEF e
  <1>3. delivered \in [Classes -> Seq(DeliveredEntry)] /\ nextSeq \in Nat
    BY DEF BrokerInv, BrokerTypeOK
  <1>4. delivered[class] \in Seq(DeliveredEntry)
    BY <1>3
  <1>5. Append(delivered[class], e) \in Seq(DeliveredEntry)
    BY <1>1, <1>4
  <1>6. delivered'[class] = Append(delivered[class], e)
    BY <1>2, <1>3
  <1>7. delivered' \in [Classes -> Seq(DeliveredEntry)]
    BY <1>2, <1>3, <1>5
  <1>8. \A c \in Classes \ {class} : delivered'[c] = delivered[c]
    BY <1>2, <1>3
  <1>9. Events(delivered'[class]) = Append(Events(delivered[class]), entry.event)
    BY <1>1, <1>4, <1>6, EventsAppend
  <1> QED BY <1>2, <1>3, <1>7, <1>8, <1>9

\* Next() hands out a critical event.
LEMMA NextCriticalInv ==
  ASSUME BrokerInv, NextCritical
  PROVE  BrokerInv'
  <1>1. /\ critical \in Seq(Entry) /\ critical # <<>>
        /\ critical' = Tail(critical) /\ UNCHANGED <<coalesced, telemetry>>
        /\ Deliver("critical", Head(critical))
    BY DEF BrokerInv, BrokerTypeOK, NextCritical
  <1>2. /\ Head(critical) \in Entry
        /\ critical' \in Seq(Entry) /\ Len(critical') = Len(critical) - 1
    BY <1>1
  <1>3. "critical" \in Classes
    BY DEF Classes
  <1>4. /\ delivered' \in [Classes -> Seq(DeliveredEntry)]
        /\ Events(delivered'["critical"])
             = Append(Events(delivered["critical"]), Head(critical).event)
        /\ nextSeq' \in Nat /\ UNCHANGED <<nextOrder, accepted, latest>>
    BY <1>1, <1>2, <1>3, DeliverFacts
  <1>5. BrokerTypeOK'
    BY <1>1, <1>2, <1>4 DEF BrokerInv, BrokerTypeOK
  <1>6. DepthWithinCap' /\ IsFiniteSet(DOMAIN coalesced')
    BY <1>1, <1>2, DepthFacts DEF BrokerInv, DepthWithinCap, Depth
  <1>7. CriticalExactlyOnce'
    <2> DEFINE d == Events(delivered["critical"])
               x == Head(critical).event
               t == Events(Tail(critical))
    <2>1. accepted = d \o Events(critical) /\ Events(critical) = <<x>> \o t
      BY <1>1, EventsHeadTail DEF BrokerInv, CriticalExactlyOnce
    <2>2. Tail(critical) \in Seq(Entry) /\ delivered["critical"] \in Seq(DeliveredEntry)
      BY <1>1, <1>2, <1>3 DEF BrokerInv, BrokerTypeOK
    <2>3. d \in Seq(Event) /\ t \in Seq(Event)
      BY <2>2, EventsType
    <2>4. x \in Event
      BY <1>2 DEF Entry
    <2>5. Events(delivered'["critical"]) = Append(d, x) /\ Events(critical') = t
      BY <1>1, <1>4
    <2>6. accepted' = accepted
      BY <1>4
    <2> HIDE DEF d, x, t
    <2>7. <<x>> \in Seq(Event) /\ Append(d, x) = d \o <<x>>
      BY <2>3, <2>4
    <2>8. (d \o <<x>>) \o t = d \o (<<x>> \o t)
      BY <2>3, <2>7, ConcatAssociative
    <2> QED BY <2>1, <2>5, <2>6, <2>7, <2>8 DEF CriticalExactlyOnce
  <1> QED BY <1>5, <1>6, <1>7 DEF BrokerInv

\* A non-empty map has an entry with the lowest order.
LEMMA OldestExists ==
  ASSUME coalesced \in [DOMAIN coalesced -> Entry], DOMAIN coalesced # {}
  PROVE  \E m \in DOMAIN coalesced :
           \A j \in DOMAIN coalesced : coalesced[m].seq <= coalesced[j].seq
  <1> DEFINE orders == {coalesced[j].seq : j \in DOMAIN coalesced}
  <1>1. orders \in SUBSET Nat /\ orders # {}
    BY DEF Entry
  <1> DEFINE less == {p \in Nat \X Nat : p[1] < p[2]}
  <1>2. IsWellFoundedOn(less, Nat)
    BY NatLessThanWellFounded DEF OpToRel
  <1>3. PICK m \in DOMAIN coalesced :
          \A j \in DOMAIN coalesced : <<coalesced[j].seq, coalesced[m].seq>> \notin less
    <2> HIDE DEF less
    <2>1. PICK n \in orders : \A o \in orders : <<o, n>> \notin less
      <3> HIDE DEF orders
      <3> QED BY <1>1, <1>2, WFMin
    <2> QED BY <2>1
  <1>4. ASSUME NEW j \in DOMAIN coalesced
        PROVE  coalesced[m].seq <= coalesced[j].seq
    <2>1. coalesced[m].seq \in Nat /\ coalesced[j].seq \in Nat
      BY DEF Entry
    <2>2. ~(coalesced[j].seq < coalesced[m].seq)
      BY <1>3, <2>1
    <2> QED BY <2>1, <2>2
  <1> QED BY <1>4

\* Next() hands out a coalesced entry.
LEMMA NextCoalescedInv ==
  ASSUME BrokerInv, NextCoalesced
  PROVE  BrokerInv'
  <1> DEFINE k == OldestKey
  <1>1. /\ DOMAIN coalesced # {} /\ IsFiniteSet(DOMAIN coalesced)
        /\ coalesced \in [DOMAIN coalesced -> Entry]
        /\ coalesced' = [j \in DOMAIN coalesced \ {k} |-> coalesced[j]]
        /\ UNCHANGED <<critical, telemetry>>
        /\ Deliver("coalesced", coalesced[k])
    BY DEF BrokerInv, BrokerTypeOK, NextCoalesced
  <1>2. k \in DOMAIN coalesced
    <2>1. \E m \in DOMAIN coalesced :
            \A j \in DOMAIN coalesced : coalesced[m].seq <= coalesced[j].seq
      BY <1>1, OldestExists DEF BrokerInv, BrokerTypeOK
    <2> QED BY <2>1 DEF OldestKey
  <1> HIDE DEF k
  <1>3. coalesced[k] \in Entry
    BY <1>1, <1>2
  <1>4. "coalesced" \in Classes /\ "critical" \in Classes \ {"coalesced"}
    BY DEF Classes
  <1>5. /\ delivered' \in [Classes -> Seq(DeliveredEntry)]
        /\ delivered'["critical"] = delivered["critical"]
        /\ nextSeq' \in Nat /\ UNCHANGED <<nextOrder, accepted, latest>>
    BY <1>1, <1>3, <1>4, DeliverFacts
  <1>6. /\ DOMAIN coalesced' = DOMAIN coalesced \ {k}
        /\ coalesced' \in [DOMAIN coalesced' -> Entry]
    BY <1>1
  <1>7. BrokerTypeOK'
    BY <1>1, <1>5, <1>6 DEF BrokerInv, BrokerTypeOK
  <1>8. /\ IsFiniteSet(DOMAIN coalesced')
        /\ Cardinality(DOMAIN coalesced') = Cardinality(DOMAIN coalesced) - 1
    BY <1>1, <1>2, <1>6, FS_RemoveElement
  <1>9. DepthWithinCap'
    BY <1>1, <1>8, DepthFacts DEF DepthWithinCap, Depth
  <1>10. CriticalExactlyOnce'
    BY <1>1, <1>5 DEF BrokerInv, CriticalExactlyOnce
  <1> QED BY <1>7, <1>8, <1>9, <1>10 DEF BrokerInv

\* Next() hands out telemetry.
LEMMA NextTelemetryInv ==
  ASSUME BrokerInv, NextTelemetry
  PROVE  BrokerInv'
  <1>1. /\ telemetry \in Seq(Entry) /\ telemetry # <<>>
        /\ telemetry' = Tail(telemetry) /\ UNCHANGED <<critical, coalesced>>
        /\ Deliver("telemetry", Head(telemetry))
    BY DEF BrokerInv, BrokerTypeOK, NextTelemetry
  <1>2. /\ Head(telemetry) \in Entry
        /\ telemetry' \in Seq(Entry) /\ Len(telemetry') = Len(telemetry) - 1
    BY <1>1
  <1>3. "telemetry" \in Classes /\ "critical" \in Classes \ {"telemetry"}
    BY DEF Classes
  <1>4. /\ delivered' \in [Classes -> Seq(DeliveredEntry)]
        /\ delivered'["critical"] = delivered["critical"]
        /\ nextSeq' \in Nat /\ UNCHANGED <<nextOrder, accepted, latest>>
    BY <1>1, <1>2, <1>3, DeliverFacts
  <1>5. BrokerTypeOK'
    BY <1>1, <1>2, <1>4 DEF BrokerInv, BrokerTypeOK
  <1>6. DepthWithinCap' /\ IsFiniteSet(DOMAIN coalesced')
    BY <1>1, <1>2, DepthFacts DEF BrokerInv, DepthWithinCap, Depth
  <1>7. CriticalExactlyOnce'
    BY <1>1, <1>4 DEF BrokerInv, CriticalExactlyOnce
  <1> QED BY <1>5, <1>6, <1>7 DEF BrokerInv

\* Every step of the broker and its callers keeps the invariant.
LEMMA BrokerNextInv == BrokerInv /\ [BrokerNext]_brokerVars => BrokerInv'
  <1> SUFFICES ASSUME BrokerInv, [BrokerNext]_brokerVars PROVE BrokerInv'
    OBVIOUS
  <1>1. CASE UNCHANGED brokerVars
    BY <1>1 DEF BrokerInv, BrokerTypeOK, DepthWithinCap, Depth, CriticalExactlyOnce,
                brokerVars, queueVars
  <1>2. CASE EnqueueCritical(Single("submit", ""))
    <2> DEFINE ev == Single("submit", "")
    <2>1. ev \in Event
      BY DriverEvents
    <2>2. Depth < Cap /\ AppendCritical(<<ev>>)
      BY <1>2 DEF EnqueueCritical
    <2> HIDE DEF ev
    <2>3. <<ev>> \in Seq(Event) /\ Len(<<ev>>) = 1
      BY <2>1
    <2>4. Depth + Len(<<ev>>) <= Cap
      BY <2>2, <2>3, DepthFacts DEF Depth
    <2> QED BY <2>2, <2>3, <2>4, AppendInv
  <1>3. ASSUME NEW n \in 0..MaxBatch, EnqueueCriticalBatch(Batch(n))
        PROVE  BrokerInv'
    <2>1. n \in Nat
      BY BrokerBounds
    <2>2. Batch(n) \in Seq(Event)
      BY <2>1, DriverEvents, Zenon
    <2> QED BY <1>3, <2>2, AppendInv DEF EnqueueCriticalBatch, BatchFits
  <1>4. ASSUME NEW id \in Ids, EnqueueCoalescible(Single("change", id))
        PROVE  BrokerInv'
    BY <1>4, CoalescibleInv
  <1>5. CASE EnqueueTelemetry(Single("stats", ""))
    BY <1>5, DriverEvents, TelemetryInv
  <1>6. CASE NextEvent
    BY <1>6, NextCriticalInv, NextCoalescedInv, NextTelemetryInv DEF NextEvent
  <1> QED
    BY <1>1, <1>2, <1>3, <1>4, <1>5, <1>6
       DEF BrokerNext, Enqueue, RejectCritical, RejectCriticalBatch, RejectCoalescible,
           DropTelemetry

------------------------------------------------------------------------------
(* Theorems                                                                  *)

\* Everything the invariant says holds throughout.
LEMMA BrokerInvariant == BrokerSpec => []BrokerInv
  BY BrokerInitInv, BrokerNextInv, PTL DEF BrokerSpec

\* The queues, counters and histories keep their types, whatever the capacity
\* and however often keys are replaced and telemetry displaced.
THEOREM BrokerTypeCorrect == BrokerSpec => []BrokerTypeOK
  BY BrokerInvariant, PTL DEF BrokerInv

\* NewEventBroker's capacity bounds the three queues together for every
\* capacity, batch size and mix of classes.
THEOREM CapacityRespected == BrokerSpec => []DepthWithinCap
  BY BrokerInvariant, PTL DEF BrokerInv

\* An accepted critical event is handed out exactly once, in the order of
\* acceptance, for every capacity, batch size and mix of classes.
THEOREM ReliableDelivery == BrokerSpec => []CriticalExactlyOnce
  BY BrokerInvariant, PTL DEF BrokerInv

------------------------------------------------------------------------------
(* Coalescing                                                                *)

\* A queued entry is its key's newest update, and no two have the same order.
KeysCurrent ==
  /\ \A k \in DOMAIN coalesced :
       /\ k \in DOMAIN latest /\ coalesced[k].seq = latest[k]
       /\ Key(coalesced[k].event) = k /\ coalesced[k].seq <= nextOrder
  /\ \A j, k \in DOMAIN coalesced : coalesced[j].seq = coalesced[k].seq => j = k

CoalescingInv == BrokerInv /\ KeysCurrent /\ NewestUpdateKept

\* Which steps touch the coalesced class.
LEMMA CoalescedSteps ==
  ASSUME BrokerInv, [BrokerNext]_brokerVars
  PROVE  \/ /\ UNCHANGED <<coalesced, latest>> /\ delivered'["coalesced"] = delivered["coalesced"]
            /\ nextOrder <= nextOrder'
         \/ \E id \in Ids : EnqueueCoalescible(Single("change", id))
         \/ NextCoalesced
<1>0. nextOrder \in Nat
  BY DEF BrokerInv, BrokerTypeOK
<1>1. CASE UNCHANGED brokerVars
  BY <1>0, <1>1 DEF brokerVars, queueVars
<1>2. ASSUME NEW evs, Len(evs) \in Nat, AppendCritical(evs)
      PROVE  UNCHANGED <<coalesced, latest, delivered>> /\ nextOrder <= nextOrder'
  BY <1>0, <1>2 DEF AppendCritical
<1>3. CASE EnqueueCritical(Single("submit", ""))
  <2>1. Len(<<Single("submit", "")>>) \in Nat
    OBVIOUS
  <2> QED BY <1>2, <1>3, <2>1 DEF EnqueueCritical
<1>4. ASSUME NEW n \in 0..MaxBatch, EnqueueCriticalBatch(Batch(n))
      PROVE  UNCHANGED <<coalesced, latest, delivered>> /\ nextOrder <= nextOrder'
  <2>1. n \in Nat
    BY BrokerBounds
  <2>2. Batch(n) \in Seq(Event)
    BY <2>1, DriverEvents, Zenon
  <2> QED BY <1>2, <1>4, <2>2 DEF EnqueueCriticalBatch
<1>5. CASE EnqueueTelemetry(Single("stats", ""))
  <2>1. UNCHANGED <<coalesced, latest, delivered>> /\ nextOrder' = nextOrder + 1
    BY <1>5 DEF EnqueueTelemetry
  <2>2. nextOrder <= nextOrder'
    BY <1>0, <2>1
  <2> QED BY <2>1, <2>2
<1>6. CASE NextCritical \/ NextTelemetry
  <2>1. PICK c \in {"critical", "telemetry"} : (\E e : Deliver(c, e)) /\ UNCHANGED coalesced
    BY <1>6 DEF NextCritical, NextTelemetry
  <2>2. UNCHANGED <<nextOrder, latest>> /\ delivered'["coalesced"] = delivered["coalesced"]
    BY <2>1 DEF Deliver, BrokerInv, BrokerTypeOK, Classes
  <2> QED BY <1>0, <2>1, <2>2
<1> QED BY <1>1, <1>3, <1>4, <1>5, <1>6 DEF BrokerNext, Enqueue, NextEvent, RejectCritical,
           RejectCriticalBatch, RejectCoalescible, DropTelemetry

\* What an update does to the map, ...
LEMMA UpdateFacts ==
  ASSUME BrokerInv, NEW id \in Ids, EnqueueCoalescible(Single("change", id))
  PROVE  \E k \in CoalescingKeys, e \in Entry :
           /\ e.seq = nextOrder + 1 /\ Key(e.event) = k
           /\ DOMAIN coalesced' = DOMAIN coalesced \cup {k} /\ DOMAIN latest' = DOMAIN latest \cup {k}
           /\ coalesced'[k] = e /\ latest'[k] = nextOrder + 1
           /\ \A j \in DOMAIN coalesced \ {k} : coalesced'[j] = coalesced[j]
           /\ \A j \in DOMAIN latest \ {k} : latest'[j] = latest[j]
           /\ nextOrder' = nextOrder + 1 /\ UNCHANGED delivered
<1>1. PICK ev \in Event : ev = Single("change", id)
  BY DriverEvents
<1>2. nextOrder + 1 \in Nat
  BY DEF BrokerInv, BrokerTypeOK
<1>3. PICK e \in Entry : e = [event |-> ev, seq |-> nextOrder + 1]
  BY <1>2 DEF Entry
<1>4. PICK k \in CoalescingKeys : k = Key(ev)
  BY <1>1 DEF Key, Single, CoalescingKeys
<1>5. Stamp(<<ev>>)[1] = e
  <2>1. 1 \in 1..Len(<<ev>>) /\ <<ev>>[1] = ev
    OBVIOUS
  <2> QED BY <1>3, <2>1 DEF Stamp
<1>6. /\ coalesced' = WithKey(coalesced, k, e) /\ latest' = WithKey(latest, k, nextOrder + 1)
      /\ nextOrder' = nextOrder + 1 /\ UNCHANGED delivered
  BY <1>1, <1>4, <1>5 DEF EnqueueCoalescible
<1>7. e.seq = nextOrder + 1 /\ Key(e.event) = k
  BY <1>3, <1>4
<1>8. /\ DOMAIN coalesced' = DOMAIN coalesced \cup {k} /\ coalesced'[k] = e
      /\ \A j \in DOMAIN coalesced \ {k} : coalesced'[j] = coalesced[j]
  BY <1>6 DEF WithKey
<1>9. /\ DOMAIN latest' = DOMAIN latest \cup {k} /\ latest'[k] = nextOrder + 1
      /\ \A j \in DOMAIN latest \ {k} : latest'[j] = latest[j]
  BY <1>6 DEF WithKey
<1> QED BY <1>6, <1>7, <1>8, <1>9

\* ... and what handing out the oldest entry does.
LEMMA HandOutFacts ==
  ASSUME BrokerInv, NextCoalesced
  PROVE  \E k \in DOMAIN coalesced, d \in DeliveredEntry :
           /\ d.event = coalesced[k].event /\ d.order = coalesced[k].seq
           /\ \A j \in DOMAIN coalesced : coalesced[k].seq <= coalesced[j].seq
           /\ DOMAIN coalesced' = DOMAIN coalesced \ {k}
           /\ \A j \in DOMAIN coalesced' : coalesced'[j] = coalesced[j]
           /\ delivered'["coalesced"] = Append(delivered["coalesced"], d)
           /\ UNCHANGED <<latest, nextOrder>>
<1>1. PICK k : k = OldestKey
  OBVIOUS
<1>2. k \in DOMAIN coalesced /\ \A j \in DOMAIN coalesced : coalesced[k].seq <= coalesced[j].seq
  <2>1. \E m \in DOMAIN coalesced :
          \A j \in DOMAIN coalesced : coalesced[m].seq <= coalesced[j].seq
    BY OldestExists DEF BrokerInv, BrokerTypeOK, NextCoalesced
  <2> QED BY <1>1, <2>1 DEF OldestKey
<1>3. coalesced[k] \in Entry
  BY <1>2 DEF BrokerInv, BrokerTypeOK
<1>4. PICK d \in DeliveredEntry : d = [event |-> coalesced[k].event, seq |-> nextSeq + 1, order |-> coalesced[k].seq]
  <2>1. coalesced[k].event \in Event /\ coalesced[k].seq \in Nat /\ nextSeq + 1 \in Nat
    BY <1>3 DEF Entry, BrokerInv, BrokerTypeOK
  <2> QED BY <2>1 DEF DeliveredEntry
<1>5. /\ delivered' = [delivered EXCEPT !["coalesced"] = Append(@, d)]
      /\ coalesced' = [j \in DOMAIN coalesced \ {k} |-> coalesced[j]]
      /\ UNCHANGED <<latest, nextOrder>>
  BY <1>1, <1>4 DEF NextCoalesced, Deliver
<1>6. delivered'["coalesced"] = Append(delivered["coalesced"], d)
  BY <1>5 DEF BrokerInv, BrokerTypeOK, Classes
<1> QED BY <1>2, <1>4, <1>5, <1>6

\* Every step keeps the newest update of every key.
LEMMA CoalescingNextInv == CoalescingInv /\ [BrokerNext]_brokerVars => CoalescingInv'
<1> SUFFICES ASSUME CoalescingInv, [BrokerNext]_brokerVars PROVE KeysCurrent' /\ NewestUpdateKept'
  BY BrokerNextInv DEF CoalescingInv
<1> USE DEF CoalescingInv
<1>t. /\ nextOrder \in Nat /\ coalesced \in [DOMAIN coalesced -> Entry]
      /\ delivered["coalesced"] \in Seq(DeliveredEntry)
      /\ \A k \in DOMAIN coalesced : coalesced[k].seq \in Nat
  <2>1. nextOrder \in Nat /\ coalesced \in [DOMAIN coalesced -> Entry] /\ delivered["coalesced"] \in Seq(DeliveredEntry)
    BY DEF BrokerInv, BrokerTypeOK, Classes
  <2> QED BY <2>1 DEF Entry
<1>1. CASE /\ UNCHANGED <<coalesced, latest>> /\ delivered'["coalesced"] = delivered["coalesced"]
           /\ nextOrder <= nextOrder'
  <2>1. KeysCurrent'
    <3>1. nextOrder' \in Nat
      BY BrokerNextInv DEF BrokerInv, BrokerTypeOK
    <3> QED BY <1>1, <1>t, <3>1 DEF KeysCurrent
  <2>2. NewestUpdateKept'
    BY <1>1 DEF NewestUpdateKept
  <2> QED BY <2>1, <2>2
<1>2. ASSUME NEW id \in Ids, EnqueueCoalescible(Single("change", id)) PROVE KeysCurrent' /\ NewestUpdateKept'
  <2>1. PICK k \in CoalescingKeys, e \in Entry :
           /\ e.seq = nextOrder + 1 /\ Key(e.event) = k
           /\ DOMAIN coalesced' = DOMAIN coalesced \cup {k} /\ DOMAIN latest' = DOMAIN latest \cup {k}
           /\ coalesced'[k] = e /\ latest'[k] = nextOrder + 1
           /\ \A j \in DOMAIN coalesced \ {k} : coalesced'[j] = coalesced[j]
           /\ \A j \in DOMAIN latest \ {k} : latest'[j] = latest[j]
           /\ nextOrder' = nextOrder + 1 /\ UNCHANGED delivered
    BY <1>2, UpdateFacts
  <2>2. \A j \in DOMAIN coalesced : coalesced[j].seq < nextOrder + 1
    BY <1>t DEF KeysCurrent
  <2>3. KeysCurrent'
    <3>1. ASSUME NEW j \in DOMAIN coalesced'
          PROVE  /\ j \in DOMAIN latest' /\ coalesced'[j].seq = latest'[j]
                 /\ Key(coalesced'[j].event) = j /\ coalesced'[j].seq <= nextOrder'
      <4>1. CASE j = k
        BY <1>t, <2>1, <4>1
      <4>2. CASE j # k
        BY <1>t, <2>1, <2>2, <4>2 DEF KeysCurrent
      <4> QED BY <4>1, <4>2
    <3>2. ASSUME NEW i \in DOMAIN coalesced', NEW j \in DOMAIN coalesced', coalesced'[i].seq = coalesced'[j].seq
          PROVE  i = j
      <4>1. \A l \in DOMAIN coalesced \ {k} : coalesced'[l].seq # nextOrder + 1
        BY <1>t, <2>1, <2>2
      <4>2. coalesced'[k].seq = nextOrder + 1
        BY <2>1
      <4>3. CASE i # k /\ j # k
        BY <2>1, <3>2, <4>3 DEF KeysCurrent
      <4> QED BY <2>1, <3>2, <4>1, <4>2, <4>3
    <3> QED BY <3>1, <3>2 DEF KeysCurrent
  <2>4. NewestUpdateKept'
    <3> SUFFICES ASSUME NEW j \in DOMAIN latest'
                 PROVE  \/ j \in DOMAIN coalesced' /\ coalesced'[j].seq = latest'[j]
                        \/ \E i \in 1..Len(delivered["coalesced"]) :
                             /\ delivered["coalesced"][i].order = latest'[j]
                             /\ \A l \in 1..Len(delivered["coalesced"]) :
                                  l > i => Key(delivered["coalesced"][l].event) # j
      BY <2>1 DEF NewestUpdateKept
    <3>1. CASE j = k
      BY <2>1, <3>1
    <3>2. CASE j # k
      <4>1. j \in DOMAIN latest /\ latest'[j] = latest[j]
        BY <2>1, <3>2
      <4>2. j \in DOMAIN coalesced => j \in DOMAIN coalesced' /\ coalesced'[j] = coalesced[j]
        BY <2>1, <3>2
      <4> QED BY <4>1, <4>2 DEF NewestUpdateKept
    <3> QED BY <3>1, <3>2
  <2> QED BY <2>3, <2>4
<1>3. CASE NextCoalesced
  <2>1. PICK k \in DOMAIN coalesced, d \in DeliveredEntry :
           /\ d.event = coalesced[k].event /\ d.order = coalesced[k].seq
           /\ \A j \in DOMAIN coalesced : coalesced[k].seq <= coalesced[j].seq
           /\ DOMAIN coalesced' = DOMAIN coalesced \ {k}
           /\ \A j \in DOMAIN coalesced' : coalesced'[j] = coalesced[j]
           /\ delivered'["coalesced"] = Append(delivered["coalesced"], d)
           /\ UNCHANGED <<latest, nextOrder>>
    BY <1>3, HandOutFacts
  <2>2. KeysCurrent'
    BY <2>1 DEF KeysCurrent
  <2>3. PICK old \in Seq(DeliveredEntry), new \in Seq(DeliveredEntry) :
          old = delivered["coalesced"] /\ new = delivered'["coalesced"] /\ new = Append(old, d)
    <3>1. Append(delivered["coalesced"], d) \in Seq(DeliveredEntry)
      BY <1>t
    <3> QED BY <1>t, <2>1, <3>1
  <2>4. /\ Len(new) = Len(old) + 1 /\ Len(old) \in Nat /\ new[Len(old) + 1] = d
        /\ \A i \in 1..Len(old) : new[i] = old[i]
    BY <2>3
  <2>5. NewestUpdateKept'
    <3> SUFFICES ASSUME NEW j \in DOMAIN latest
                 PROVE  \/ j \in DOMAIN coalesced' /\ coalesced'[j].seq = latest[j]
                        \/ \E i \in 1..Len(new) :
                             /\ new[i].order = latest[j]
                             /\ \A l \in 1..Len(new) : l > i => Key(new[l].event) # j
      <4>1. delivered'["coalesced"] = new /\ latest' = latest
        BY <2>1, <2>3
      <4> QED BY <4>1 DEF NewestUpdateKept
    <3>1. CASE j = k
      <4>1. Len(old) + 1 \in 1..Len(new) /\ new[Len(old) + 1].order = latest[j]
        BY <2>1, <2>4, <3>1 DEF KeysCurrent
      <4>2. \A l \in 1..Len(new) : ~(l > Len(old) + 1)
        BY <2>4
      <4> QED BY <4>1, <4>2
    <3>2. CASE j # k /\ j \in DOMAIN coalesced
      BY <2>1, <3>2 DEF KeysCurrent
    <3>3. CASE j # k /\ j \notin DOMAIN coalesced
      <4>1. PICK i \in 1..Len(old) :
              /\ old[i].order = latest[j]
              /\ \A l \in 1..Len(old) : l > i => Key(old[l].event) # j
        BY <2>3, <3>3 DEF NewestUpdateKept
      <4>2. Key(d.event) # j
        BY <2>1, <3>3 DEF KeysCurrent
      <4>3. i \in 1..Len(new) /\ new[i] = old[i]
        BY <2>4
      <4>4. ASSUME NEW l \in 1..Len(new), l > i PROVE Key(new[l].event) # j
        <5>1. CASE l \in 1..Len(old)
          BY <2>4, <4>1, <4>4, <5>1
        <5>2. CASE l = Len(old) + 1
          BY <2>4, <4>2, <5>2
        <5> QED BY <2>4, <5>1, <5>2
      <4> QED BY <4>1, <4>3, <4>4
    <3> QED BY <3>1, <3>2, <3>3
  <2> QED BY <2>2, <2>5
<1> QED BY <1>1, <1>2, <1>3, CoalescedSteps

\* The invariant holds of every reachable state.
LEMMA CoalescingInvariant == BrokerSpec => []CoalescingInv
<1>1. BrokerInit => CoalescingInv
  <2> SUFFICES ASSUME BrokerInit PROVE CoalescingInv
    OBVIOUS
  <2>1. DOMAIN coalesced = {} /\ DOMAIN latest = {}
    BY DEF BrokerInit
  <2> QED BY <2>1, BrokerInitInv DEF CoalescingInv, KeysCurrent, NewestUpdateKept
<1> QED BY <1>1, CoalescingNextInv, PTL DEF BrokerSpec

\* Coalescing never loses the newest state of a key: the last accepted update
\* is queued, or it is the last one of its key that was handed out, for every
\* capacity and however updates and deliveries interleave (runtime/events.go).
THEOREM NewestKept == BrokerSpec => []NewestUpdateKept
  BY CoalescingInvariant, PTL DEF CoalescingInv

\* An update handed out is older than all that are left in the map, whatever
\* order a map is iterated in (runtime/events.go, Next).
THEOREM OldestFirst == BrokerSpec => CoalescedOldestFirst
<1>1. ASSUME CoalescingInv, [BrokerNext]_brokerVars, NEW k \in DOMAIN coalesced',
             Len(delivered'["coalesced"]) > Len(delivered["coalesced"])
      PROVE  delivered'["coalesced"][Len(delivered'["coalesced"])].order < coalesced'[k].seq
  <2>t. delivered["coalesced"] \in Seq(DeliveredEntry) /\ coalesced \in [DOMAIN coalesced -> Entry]
    BY <1>1 DEF CoalescingInv, BrokerInv, BrokerTypeOK, Classes
  <2>1. NextCoalesced
    <3>1. delivered'["coalesced"] # delivered["coalesced"]
      BY <1>1, <2>t
    <3>2. \A id \in Ids : EnqueueCoalescible(Single("change", id)) => UNCHANGED delivered
      BY DEF EnqueueCoalescible
    <3> QED BY <1>1, <3>1, <3>2, CoalescedSteps DEF CoalescingInv
  <2>2. PICK o \in DOMAIN coalesced, d \in DeliveredEntry :
           /\ d.order = coalesced[o].seq
           /\ \A j \in DOMAIN coalesced : coalesced[o].seq <= coalesced[j].seq
           /\ DOMAIN coalesced' = DOMAIN coalesced \ {o}
           /\ \A j \in DOMAIN coalesced' : coalesced'[j] = coalesced[j]
           /\ delivered'["coalesced"] = Append(delivered["coalesced"], d)
    BY <1>1, <2>1, HandOutFacts DEF CoalescingInv
  <2>3. delivered'["coalesced"][Len(delivered'["coalesced"])] = d
    BY <2>t, <2>2
  <2>4. k \in DOMAIN coalesced /\ k # o /\ coalesced'[k] = coalesced[k]
    BY <1>1, <2>2
  <2>5. coalesced[o].seq # coalesced[k].seq
    BY <1>1, <2>4 DEF CoalescingInv, KeysCurrent
  <2>6. coalesced[o].seq \in Nat /\ coalesced[k].seq \in Nat
    BY <2>t, <2>4 DEF Entry
  <2> QED BY <2>2, <2>3, <2>4, <2>5, <2>6
<1>2. CoalescingInv /\ [BrokerNext]_brokerVars =>
        [\A k \in DOMAIN coalesced' :
           Len(delivered'["coalesced"]) > Len(delivered["coalesced"])
             => delivered'["coalesced"][Len(delivered'["coalesced"])].order < coalesced'[k].seq]_brokerVars
  BY <1>1
<1> QED BY <1>2, CoalescingInvariant, PTL DEF BrokerSpec, CoalescedOldestFirst

------------------------------------------------------------------------------
(* Batches                                                                   *)

\* Every event of evs has its whole batch around it.
Whole(evs) ==
  \A p \in 1..Len(evs) : \A j \in 1..evs[p].of :
    /\ p - evs[p].part + j \in 1..Len(evs)
    /\ evs[p - evs[p].part + j].part = j
    /\ evs[p - evs[p].part + j].of = evs[p].of

\* A batch, and a single event, is whole by itself ...
LEMMA BatchIsWhole ==
  ASSUME NEW evs \in Seq(Event),
         \A i \in 1..Len(evs) : evs[i].part = i /\ evs[i].of = Len(evs)
  PROVE  Whole(evs)
<1>1. Len(evs) \in Nat
  OBVIOUS
<1>2. ASSUME NEW p \in 1..Len(evs), NEW j \in 1..Len(evs) PROVE p - p + j = j
  BY <1>1
<1> QED BY <1>1, <1>2 DEF Whole

\* ... and stays so at the end of others.
LEMMA WholeConcat ==
  ASSUME NEW a \in Seq(Event), NEW b \in Seq(Event), Whole(a), Whole(b)
  PROVE  Whole(a \o b)
<1>1. PICK c \in Seq(Event) : c = a \o b
  BY ConcatLen
<1>2. PICK n \in Nat, m \in Nat : n = Len(a) /\ m = Len(b)
  OBVIOUS
<1>3. /\ Len(c) = n + m /\ \A i \in 1..n : c[i] = a[i]
      /\ \A i \in 1..m : c[n + i] = b[i]
  BY <1>1, <1>2
<1>t. \A i \in 1..(n + m) : c[i].part \in Nat /\ c[i].of \in Nat
  <2>1. \A i \in 1..(n + m) : c[i] \in Event
    BY <1>3, ElementOfSeq
  <2> QED BY <2>1 DEF Event
<1>4. ASSUME NEW p \in 1..(n + m), NEW j \in 1..c[p].of
      PROVE  /\ p - c[p].part + j \in 1..(n + m)
             /\ c[p - c[p].part + j].part = j
             /\ c[p - c[p].part + j].of = c[p].of
  <2>0. j \in Nat /\ c[p].part \in Nat
    BY <1>t
  <2>1. CASE p \in 1..n
    <3>1. c[p] = a[p]
      BY <1>3, <2>1
    <3>2. PICK q \in 1..n : q = p - c[p].part + j /\ a[q].part = j /\ a[q].of = a[p].of
      BY <1>2, <2>1, <3>1 DEF Whole
    <3>3. c[q] = a[q] /\ q \in 1..(n + m)
      BY <1>3
    <3> QED BY <3>1, <3>2, <3>3
  <2>2. CASE ~(p \in 1..n)
    <3>1. PICK i \in 1..m : p = n + i
      <4>1. p - n \in 1..m /\ p = n + (p - n)
        BY <2>2
      <4> QED BY <4>1
    <3>2. c[p] = b[i]
      BY <1>3, <3>1
    <3>3. PICK q \in 1..m : q = i - c[p].part + j /\ b[q].part = j /\ b[q].of = b[i].of
      BY <1>2, <3>2 DEF Whole
    <3>4. c[n + q] = b[q] /\ n + q \in 1..(n + m) /\ p - c[p].part + j = n + q
      <4>1. PICK part \in Nat : part = c[p].part
        BY <2>0
      <4>2. q = i - part + j => p - part + j = n + q
        BY <2>0, <3>1
      <4>3. c[n + q] = b[q]
        BY <1>3
      <4>4. n + q \in 1..(n + m)
        OBVIOUS
      <4>5. p - c[p].part + j = n + q
        BY <3>3, <4>1, <4>2, Zenon
      <4> QED BY <4>3, <4>4, <4>5
    <3> QED BY <3>2, <3>3, <3>4
  <2> QED BY <2>1, <2>2
<1> QED BY <1>1, <1>3, <1>4 DEF Whole

\* EnqueueCriticalBatch is all or nothing: an accepted event of a batch has
\* every other event of its batch around it, in order, for every capacity and
\* batch size (runtime/events.go).
THEOREM BatchesStayWhole == BrokerSpec => []BatchesWhole
<1>1. BatchesWhole <=> Whole(accepted)
  BY DEF BatchesWhole, Whole
<1>2. BrokerInit => Whole(accepted)
  BY DEF BrokerInit, Whole
<1>3. ASSUME BrokerInv, Whole(accepted), [BrokerNext]_brokerVars PROVE Whole(accepted)'
  <2>0. accepted \in Seq(Event)
    BY <1>3 DEF BrokerInv, BrokerTypeOK
  <2>1. ASSUME NEW evs \in Seq(Event), Whole(evs), AppendCritical(evs) PROVE Whole(accepted)'
    <3>1. accepted' = accepted \o evs
      BY <2>1 DEF AppendCritical
    <3>2. Whole(accepted \o evs)
      BY <1>3, <2>0, <2>1, WholeConcat
    <3> QED BY <3>1, <3>2
  <2>2. CASE EnqueueCritical(Single("submit", ""))
    <3>1. PICK ev \in Event : ev = Single("submit", "") /\ ev.part = 1 /\ ev.of = 1
      BY DriverEvents DEF Single
    <3>2. PICK evs \in Seq(Event) : evs = <<ev>>
      <4>1. <<ev>> \in Seq(Event)
        OBVIOUS
      <4> QED BY <4>1
    <3>3. Len(evs) = 1 /\ \A i \in 1..1 : evs[i] = ev /\ i = 1
      BY <3>2
    <3>4. Whole(evs)
      BY <3>1, <3>3, BatchIsWhole
    <3> QED BY <2>1, <2>2, <3>1, <3>2, <3>4 DEF EnqueueCritical
  <2>3. ASSUME NEW n \in 0..MaxBatch, EnqueueCriticalBatch(Batch(n)) PROVE Whole(accepted)'
    <3>1. n \in Nat
      BY BrokerBounds
    <3>2. PICK evs \in Seq(Event) : evs = Batch(n)
      BY <3>1, DriverEvents, Zenon
    <3>3. /\ Len(evs) = n
          /\ \A i \in 1..n : evs[i].part = i /\ evs[i].of = n
      <4>1. \A i \in 1..n : Batch(n)[i].part = i /\ Batch(n)[i].of = n
        BY DEF Batch
      <4>2. Len(Batch(n)) = n
        BY <3>1 DEF Batch
      <4> QED BY <3>2, <4>1, <4>2
    <3>4. Whole(evs)
      BY <3>3, BatchIsWhole
    <3> QED BY <2>1, <2>3, <3>2, <3>4 DEF EnqueueCriticalBatch
  <2>4. CASE UNCHANGED accepted
    BY <1>3, <2>4 DEF Whole
  <2>5. \/ EnqueueCritical(Single("submit", ""))
        \/ \E n \in 0..MaxBatch : EnqueueCriticalBatch(Batch(n))
        \/ UNCHANGED accepted
    BY <1>3 DEF BrokerNext, Enqueue, RejectCritical, RejectCriticalBatch, EnqueueCoalescible,
       RejectCoalescible, EnqueueTelemetry, DropTelemetry, NextEvent, NextCritical, NextCoalesced,
       NextTelemetry, Deliver, brokerVars
  <2> QED BY <2>2, <2>3, <2>4, <2>5
<1>4. BrokerInv /\ Whole(accepted) /\ [BrokerNext]_brokerVars => Whole(accepted)'
  BY <1>3
<1> QED BY <1>1, <1>2, <1>4, BrokerInvariant, PTL DEF BrokerSpec

------------------------------------------------------------------------------
(* Waiting for events                                                        *)

TerminalKinds == {"user", "committed"}

\* Some request has found the queue empty and will sleep, or sleeps.
Idle == \E w \in Waiters : waiter[w] \in {"empty", "asleep"}

WakeInv ==
  /\ TypeOK
  /\ Idle /\ Queued(TerminalKinds) => WakeUpDue \/ producer = "signal"

\* Only critical events are queued, so a depth of 0 means there are none.
LEMMA EmptyQueue ==
  ASSUME EngineTypeOK, Depth = 0
  PROVE  critical = <<>>
<1>1. DOMAIN coalesced = {} /\ telemetry = <<>> /\ critical \in Seq([event : EngineEvent, seq : Nat])
  BY DEF EngineTypeOK
<1>2. Cardinality(DOMAIN coalesced) = 0
  BY <1>1, FS_EmptySet
<1>3. Len(critical) = 0
  BY <1>1, <1>2 DEF Depth
<1> QED BY <1>1, <1>3

\* An error event is not a terminal event, and taking one adds none.
LEMMA ErrorQueuesNone ==
  ASSUME EngineTypeOK, NEW seq \in Nat, EmitError(seq), Queued(TerminalKinds)'
  PROVE  Queued(TerminalKinds)
<1>1. CASE RejectCritical
  BY <1>1 DEF RejectCritical, brokerVars, queueVars, Queued
<1>2. CASE EnqueueCritical(ErrorEvent(seq))
  <2> DEFINE e == [event |-> ErrorEvent(seq), seq |-> nextOrder + 1]
  <2>1. critical' = critical \o Stamp(<<ErrorEvent(seq)>>)
    BY <1>2 DEF EnqueueCritical, AppendCritical
  <2>2. Stamp(<<ErrorEvent(seq)>>) = <<e>>
    BY DEF Stamp
  <2>3. critical \in Seq([event : EngineEvent, seq : Nat]) /\ e \in [event : EngineEvent, seq : Nat]
    <3>1. ErrorEvent(seq) \in EngineEvent
      BY DEF ErrorEvent, EngineEvent
    <3> QED BY <3>1 DEF EngineTypeOK
  <2>4. e.event.ev = "error"
    BY DEF ErrorEvent
  <2> HIDE DEF e
  <2>5. /\ Len(critical') = Len(critical) + 1 /\ Len(critical) \in Nat
        /\ \A i \in 1..Len(critical) : critical'[i] = critical[i]
        /\ critical'[Len(critical) + 1] = e
    <3>1. critical' = critical \o <<e>>
      BY <2>1, <2>2
    <3> QED BY <2>3, <3>1
  <2>6. PICK i \in 1..Len(critical') : critical'[i].event.ev \in TerminalKinds
    BY DEF Queued
  <2>7. i \in 1..Len(critical)
    BY <2>4, <2>5, <2>6 DEF TerminalKinds
  <2> QED BY <2>5, <2>6, <2>7 DEF Queued
<1> QED BY <1>1, <1>2 DEF EmitError

\* At the start nothing is queued.
LEMMA DeliveryInitInv == Init => WakeInv
<1> SUFFICES ASSUME Init PROVE WakeInv
  OBVIOUS
<1>1. EngineTypeOK
  BY DEF Init, EngineInit, BrokerInit, EngineTypeOK
<1>2. waiter = [w \in Waiters |-> "out"] /\ got = [w \in Waiters |-> FALSE] /\ eventCh = FALSE
  BY DEF Init, WaitInit
<1>3. WaitTypeOK
  BY <1>2 DEF WaitTypeOK
<1>4. ~Idle
  BY <1>2 DEF Idle
<1> QED BY <1>1, <1>3, <1>4 DEF Init, WakeInv, TypeOK

\* A request drains before it sleeps, and drains to the end.
LEMMA WaiterInv ==
  ASSUME WakeInv, NEW w \in Waiters, WaitStep(w), UNCHANGED producer
  PROVE  WakeInv'
<1> USE DEF WakeInv
<1>t. /\ EngineTypeOK /\ WaitTypeOK /\ producer \in {"idle", "signal"}
      /\ waiter \in [Waiters -> {"out", "draining", "empty", "asleep", "final"}]
  BY DEF TypeOK, WaitTypeOK
<1>1. EngineTypeOK'
  <2>1. TakeEvent \/ UNCHANGED engineVars
    BY DEF WaitStep, CallWaitEvents, DrainOne, DrainEnds, GoToSleep, DoNotWait, WakeUp, GiveUp
  <2>2. CASE UNCHANGED engineVars
    BY <1>t, <2>2 DEF EngineTypeOK, engineVars, brokerVars, queueVars, publicationVars
  <2> QED BY <1>t, <2>1, <2>2, TakeEventType
<1>2. WaitTypeOK'
  <2>1. /\ \E s \in {"out", "draining", "empty", "asleep", "final"} : waiter' = [waiter EXCEPT ![w] = s]
        /\ \E b \in BOOLEAN : got' = [got EXCEPT ![w] = b]
        /\ eventCh' \in {eventCh, FALSE}
    <3>1. CASE CallWaitEvents(w) \/ WakeUp(w)
      BY <1>t, <3>1 DEF CallWaitEvents, WakeUp, WaitTypeOK
    <3>2. CASE DrainOne(w)
      BY <1>t, <3>2 DEF DrainOne, WaitTypeOK
    <3>3. CASE DrainEnds(w)
      BY <1>t, <3>3 DEF DrainEnds, WaitTypeOK
    <3>4. CASE GoToSleep(w) \/ DoNotWait(w) \/ GiveUp(w)
      BY <1>t, <3>4 DEF GoToSleep, DoNotWait, GiveUp, WaitTypeOK
    <3> QED BY <3>1, <3>2, <3>3, <3>4 DEF WaitStep
  <2> QED BY <1>t, <2>1 DEF WaitTypeOK
<1>3. ASSUME Idle', Queued(TerminalKinds)'
      PROVE  WakeUpDue' \/ producer' = "signal"
  <2>1. CASE CallWaitEvents(w) \/ DrainOne(w) \/ WakeUp(w) \/ GiveUp(w)
    <3>1. waiter'[w] \in {"draining", "final"}
      BY <1>t, <2>1 DEF CallWaitEvents, DrainOne, WakeUp, GiveUp
    <3> QED BY <3>1 DEF WakeUpDue
  <2>2. CASE DrainEnds(w)
    <3>1. critical' = <<>>
      BY <1>t, <2>2, EmptyQueue DEF DrainEnds, engineVars, brokerVars, queueVars
    <3> QED BY <1>3, <3>1 DEF Queued
  <2>3. CASE GoToSleep(w) \/ DoNotWait(w)
    <3>1. /\ waiter[w] = "empty" /\ UNCHANGED <<critical, eventCh>>
          /\ \A v \in Waiters \ {w} : waiter'[v] = waiter[v]
      BY <1>t, <2>3 DEF GoToSleep, DoNotWait, engineVars, brokerVars, queueVars
    <3>2. Idle /\ Queued(TerminalKinds)
      BY <1>3, <3>1 DEF Idle, Queued
    <3>3. WakeUpDue \/ producer = "signal"
      BY <3>2
    <3>4. WakeUpDue => WakeUpDue'
      BY <3>1 DEF WakeUpDue
    <3> QED BY <3>3, <3>4
  <2> QED BY <2>1, <2>2, <2>3 DEF WaitStep
<1> QED BY <1>t, <1>1, <1>2, <1>3 DEF TypeOK

\* Every step keeps the invariant.
LEMMA DeliveryNextInv ==
  ASSUME WakeInv, [Next]_vars
  PROVE  WakeInv'
<1> USE DEF WakeInv, TypeOK
<1>1. CASE Produce
  <2>1. EngineTypeOK'
    BY <1>1, InteractionType, PublishType DEF Produce
  <2>2. WaitTypeOK' /\ producer' = "signal"
    BY <1>1 DEF Produce, waitVars, WaitTypeOK
  <2> QED BY <2>1, <2>2
<1>2. CASE Signal
  <2>1. EngineTypeOK'
    BY <1>2 DEF Signal, EngineTypeOK, engineVars, brokerVars, queueVars, publicationVars
  <2>2. eventCh' = TRUE /\ UNCHANGED <<waiter, got>> /\ producer' = "idle"
    BY <1>2 DEF Signal, SignalEvents
  <2>3. WaitTypeOK'
    BY <2>2 DEF WaitTypeOK
  <2>4. WakeUpDue'
    BY <2>2 DEF WakeUpDue
  <2> QED BY <2>1, <2>2, <2>3, <2>4
<1>3. CASE Operate
  <2>1. lastSeq + 1 \in Nat
    BY DEF EngineTypeOK
  <2>2. EngineTypeOK'
    <3>1. Apply(lastSeq + 1)
      BY <1>3 DEF Operate, Apply, Succeeds, Fails
    <3> QED BY <2>1, <3>1, ApplyType
  <2>3. UNCHANGED <<eventCh, waiter, got, producer>>
    BY <1>3 DEF Operate, waitVars
  <2>4. Queued(TerminalKinds)' => Queued(TerminalKinds)
    <3>1. CASE ApplyCommit(lastSeq + 1)
      BY <3>1 DEF ApplyCommit, brokerVars, queueVars, Queued
    <3>2. CASE ApplyRejected(lastSeq + 1)
      BY <2>1, <3>2, ErrorQueuesNone DEF ApplyRejected
    <3> QED BY <1>3, <3>1, <3>2 DEF Operate
  <2>5. WaitTypeOK' /\ (Idle' <=> Idle) /\ (WakeUpDue' <=> WakeUpDue)
    BY <2>3 DEF WaitTypeOK, Idle, WakeUpDue
  <2> QED BY <2>2, <2>3, <2>4, <2>5
<1>4. CASE Consume
  BY <1>4, WaiterInv DEF Consume
<1>5. CASE UNCHANGED vars
  <2>1. UNCHANGED <<engineVars, eventCh, waiter, got, producer>>
    BY <1>5 DEF vars, waitVars
  <2>2. EngineTypeOK' /\ (Queued(TerminalKinds)' => Queued(TerminalKinds))
    BY <2>1 DEF EngineTypeOK, engineVars, brokerVars, queueVars, publicationVars, Queued
  <2>3. WaitTypeOK' /\ (Idle' <=> Idle) /\ (WakeUpDue' <=> WakeUpDue)
    BY <2>1 DEF WaitTypeOK, Idle, WakeUpDue
  <2> QED BY <2>1, <2>2, <2>3
<1> QED BY <1>1, <1>2, <1>3, <1>4, <1>5 DEF Next

\* While a request sleeps and a terminal's event is queued, a token, a running
\* drain or a producer about to signal is there (daemon.go:WaitEvents,
\* signalEvents).
THEOREM WakeUpsAreKept == Spec => []TerminalEventsWake
<1>1. Init => WakeInv
  BY DeliveryInitInv
<1>2. WakeInv /\ [Next]_vars => WakeInv'
  BY DeliveryNextInv
<1>3. WakeInv => TerminalEventsWake
  BY DEF WakeInv, TerminalEventsWake, Idle, Sleeping, TerminalKinds
<1> QED BY <1>1, <1>2, <1>3, PTL DEF Spec

==============================================================================
