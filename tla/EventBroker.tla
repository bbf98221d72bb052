----------------------------- MODULE EventBroker -----------------------------
(***************************************************************************)
(* The bounded three-class event queue of runtime/events.go.               *)
(*                                                                         *)
(* Every method of the Go type runs under its mutex, so each is one step.  *)
(* A queued entry is an event with the enqueue order that order() stamps   *)
(* into its Seq field; Next() overwrites that field with the contiguous    *)
(* delivery sequence the agent sees.                                       *)
(*                                                                         *)
(* EventBrokerSpec.tla drives all three classes; Engine.tla reuses the     *)
(* operations and only ever enqueues critical events.                      *)
(***************************************************************************)
EXTENDS Naturals, Sequences, FiniteSets

CONSTANT Cap    \* EventBroker.cap, at least 1 (NewEventBroker clamps it)

ASSUME CapAssumption == Cap \in Nat \ {0}

VARIABLES
  critical,     \* FIFO of reliable entries
  coalesced,    \* function: coalescing key -> newest entry for that key
  telemetry,    \* FIFO of lossy entries
  nextOrder,    \* last internal enqueue order handed out
  nextSeq,      \* last delivery sequence number handed out
  accepted,     \* history: critical events accepted, in order
  delivered,    \* history: entries handed out by Next, by class
  latest        \* history: coalescing key -> order of its newest update

queueVars == <<critical, coalesced, telemetry, nextOrder, nextSeq>>
brokerVars == <<queueVars, accepted, delivered, latest>>

Classes == {"critical", "coalesced", "telemetry"}

BrokerInit ==
  /\ critical = <<>>
  /\ coalesced = <<>>
  /\ telemetry = <<>>
  /\ nextOrder = 0
  /\ nextSeq = 0
  /\ accepted = <<>>
  /\ delivered = [c \in Classes |-> <<>>]
  /\ latest = <<>>

Depth == Len(critical) + Cardinality(DOMAIN coalesced) + Len(telemetry)

\* key := ev.Ev + "|" + ev.ID
Key(ev) == <<ev.ev, ev.id>>

\* order(): the i-th event of a group gets the i-th next order number.
Stamp(evs) ==
  [i \in 1..Len(evs) |-> [event |-> evs[i], seq |-> nextOrder + i]]

------------------------------------------------------------------------------
(* Enqueueing. A rejected call returns runtime.backpressure_exceeded and     *)
(* leaves the broker as it was.                                              *)

AppendCritical(evs) ==
  /\ critical' = critical \o Stamp(evs)
  /\ nextOrder' = nextOrder + Len(evs)
  /\ accepted' = accepted \o evs
  /\ UNCHANGED <<coalesced, telemetry, nextSeq, delivered, latest>>

\* Fault: a batch is checked against the room for one event.
BatchFits_RoomForOne(evs) == evs = <<>> \/ Depth + 1 <= Cap

\* The empty batch is accepted even by a full queue.
BatchFits(evs) == evs = <<>> \/ Depth + Len(evs) <= Cap

\* Fault: a batch enqueues as many of its events as fit.
EnqueueCriticalBatch_Prefix(evs) ==
  LET n == IF Depth + Len(evs) > Cap THEN Cap - Depth ELSE Len(evs)
  IN /\ critical' = critical \o SubSeq(Stamp(evs), 1, n)
     /\ nextOrder' = nextOrder + n
     /\ accepted' = accepted \o SubSeq(evs, 1, n)
     /\ UNCHANGED <<coalesced, telemetry, nextSeq, delivered, latest>>

EnqueueCriticalBatch(evs) == BatchFits(evs) /\ AppendCritical(evs)
RejectCriticalBatch(evs) == ~BatchFits(evs) /\ UNCHANGED brokerVars

EnqueueCritical(ev) == Depth < Cap /\ AppendCritical(<<ev>>)
RejectCritical == Depth >= Cap /\ UNCHANGED brokerVars

WithKey(f, k, v) == [x \in DOMAIN f \cup {k} |-> IF x = k THEN v ELSE f[x]]

CoalescibleFits(ev) == Key(ev) \in DOMAIN coalesced \/ Depth < Cap

\* Fault: a queued key keeps its older entry.
EnqueueCoalescible_KeepsOld(ev) ==
  /\ CoalescibleFits(ev)
  /\ coalesced' = IF Key(ev) \in DOMAIN coalesced THEN coalesced
                  ELSE WithKey(coalesced, Key(ev), Stamp(<<ev>>)[1])
  /\ latest' = WithKey(latest, Key(ev), nextOrder + 1)
  /\ nextOrder' = nextOrder + 1
  /\ UNCHANGED <<critical, telemetry, nextSeq, accepted, delivered>>

\* An update of a queued key replaces the entry and moves it to the back.
EnqueueCoalescible(ev) ==
  /\ CoalescibleFits(ev)
  /\ coalesced' = WithKey(coalesced, Key(ev), Stamp(<<ev>>)[1])
  /\ latest' = WithKey(latest, Key(ev), nextOrder + 1)
  /\ nextOrder' = nextOrder + 1
  /\ UNCHANGED <<critical, telemetry, nextSeq, accepted, delivered>>

RejectCoalescible(ev) == ~CoalescibleFits(ev) /\ UNCHANGED brokerVars

\* At capacity the oldest telemetry makes room, and if there is none the new
\* event is dropped without an error.
TelemetryRoom ==
  IF Depth < Cap THEN telemetry ELSE Tail(telemetry)

\* Fault: telemetry at capacity displaces the oldest queued event of any class.
EnqueueTelemetry_DisplacesCritical(ev) ==
  /\ Depth < Cap \/ telemetry # <<>> \/ critical # <<>>
  /\ IF Depth < Cap \/ telemetry # <<>>
     THEN telemetry' = TelemetryRoom \o Stamp(<<ev>>) /\ UNCHANGED critical
     ELSE telemetry' = Stamp(<<ev>>) /\ critical' = Tail(critical)
  /\ nextOrder' = nextOrder + 1
  /\ UNCHANGED <<coalesced, nextSeq, accepted, delivered, latest>>

EnqueueTelemetry(ev) ==
  /\ Depth < Cap \/ telemetry # <<>>
  /\ telemetry' = TelemetryRoom \o Stamp(<<ev>>)
  /\ nextOrder' = nextOrder + 1
  /\ UNCHANGED <<critical, coalesced, nextSeq, accepted, delivered, latest>>

DropTelemetry(ev) == Depth >= Cap /\ telemetry = <<>> /\ UNCHANGED brokerVars

------------------------------------------------------------------------------
(* Next(): critical first, then the coalesced entry with the lowest order,   *)
(* then telemetry. With every queue empty it returns false.                  *)

\* deliver() overwrites Seq. The history also keeps the internal order.
Deliver(class, entry) ==
  /\ nextSeq' = nextSeq + 1
  /\ delivered' = [delivered EXCEPT ![class] =
       Append(@, [event |-> entry.event, seq |-> nextSeq + 1, order |-> entry.seq])]
  /\ UNCHANGED <<nextOrder, accepted, latest>>

NextCritical ==
  /\ critical # <<>>
  /\ Deliver("critical", Head(critical))
  /\ critical' = Tail(critical)
  /\ UNCHANGED <<coalesced, telemetry>>

\* Fault: the map entry of any key may be handed out.
OldestKey_Newest ==
  CHOOSE k \in DOMAIN coalesced :
    \A j \in DOMAIN coalesced : coalesced[k].seq >= coalesced[j].seq

OldestKey ==
  CHOOSE k \in DOMAIN coalesced :
    \A j \in DOMAIN coalesced : coalesced[k].seq <= coalesced[j].seq

NextCoalesced ==
  /\ critical = <<>> /\ DOMAIN coalesced # {}
  /\ Deliver("coalesced", coalesced[OldestKey])
  /\ coalesced' = [k \in DOMAIN coalesced \ {OldestKey} |-> coalesced[k]]
  /\ UNCHANGED <<critical, telemetry>>

NextTelemetry ==
  /\ critical = <<>> /\ DOMAIN coalesced = {} /\ telemetry # <<>>
  /\ Deliver("telemetry", Head(telemetry))
  /\ telemetry' = Tail(telemetry)
  /\ UNCHANGED <<critical, coalesced>>

NextEvent == NextCritical \/ NextCoalesced \/ NextTelemetry

==============================================================================
