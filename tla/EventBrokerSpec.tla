--------------------------- MODULE EventBrokerSpec ---------------------------
(***************************************************************************)
(* The event broker on its own: producers of every class, one consumer,    *)
(* and what the broker promises them.                                      *)
(***************************************************************************)
EXTENDS EventBroker

CONSTANTS
  Ids,          \* node ids, which key the coalescible events
  MaxBatch,     \* largest publication batch offered
  MaxOrder      \* bound on the events accepted in one behaviour

ASSUME BrokerBounds == MaxBatch \in Nat /\ MaxOrder \in Nat

\* A batch of n reliable events; part and of let the history recognise it.
Batch(n) == [i \in 1..n |-> [ev |-> "committed", id |-> "", part |-> i, of |-> n]]
Single(kind, id) == [ev |-> kind, id |-> id, part |-> 1, of |-> 1]

Enqueue ==
  /\ nextOrder < MaxOrder
  /\ \/ EnqueueCritical(Single("submit", ""))
     \/ RejectCritical
     \/ \E n \in 0..MaxBatch : EnqueueCriticalBatch(Batch(n))
     \/ \E n \in 0..MaxBatch : RejectCriticalBatch(Batch(n))
     \/ \E id \in Ids : EnqueueCoalescible(Single("change", id))
     \/ \E id \in Ids : RejectCoalescible(Single("change", id))
     \/ EnqueueTelemetry(Single("stats", ""))
     \/ DropTelemetry(Single("stats", ""))

BrokerNext == Enqueue \/ NextEvent

BrokerSpec == BrokerInit /\ [][BrokerNext]_brokerVars

------------------------------------------------------------------------------
(* Properties                                                                *)

Events(entries) == [i \in 1..Len(entries) |-> entries[i].event]

Kinds == {"submit", "committed", "change", "stats"}
Event == [ev : Kinds, id : Ids \cup {""}, part : Nat, of : Nat]
Entry == [event : Event, seq : Nat]
DeliveredEntry == [event : Event, seq : Nat, order : Nat]
CoalescingKeys == {"change"} \X Ids

BrokerTypeOK ==
  /\ critical \in Seq(Entry)
  /\ telemetry \in Seq(Entry)
  /\ DOMAIN coalesced \subseteq CoalescingKeys
  /\ coalesced \in [DOMAIN coalesced -> Entry]
  /\ nextOrder \in Nat /\ nextSeq \in Nat
  /\ accepted \in Seq(Event)
  /\ delivered \in [Classes -> Seq(DeliveredEntry)]
  /\ DOMAIN latest \subseteq CoalescingKeys
  /\ latest \in [DOMAIN latest -> Nat]

\* NewEventBroker's capacity bounds the three queues together, whatever mix of
\* single events, batches, replacements and telemetry displacement is offered.
DepthWithinCap == Depth <= Cap

\* An accepted critical event is delivered exactly once and in acceptance
\* order: no telemetry displacement, batch or interleaved delivery loses,
\* repeats or reorders one ("Critical events cannot silently disappear").
CriticalExactlyOnce == accepted = Events(delivered["critical"]) \o Events(critical)

\* EnqueueCriticalBatch is all or nothing: an accepted event of a batch has
\* every other event of its batch around it, in order.
BatchesWhole ==
  \A p \in 1..Len(accepted) :
    LET e == accepted[p]
    IN \A j \in 1..e.of :
         /\ p - e.part + j \in 1..Len(accepted)
         /\ accepted[p - e.part + j].part = j
         /\ accepted[p - e.part + j].of = e.of

\* Coalescing never loses the newest state of a key: the last accepted update
\* is still queued, or it is the last update of that key handed out.
NewestUpdateKept ==
  \A k \in DOMAIN latest :
    \/ k \in DOMAIN coalesced /\ coalesced[k].seq = latest[k]
    \/ \E i \in 1..Len(delivered["coalesced"]) :
         /\ delivered["coalesced"][i].order = latest[k]
         /\ \A j \in 1..Len(delivered["coalesced"]) :
              j > i => Key(delivered["coalesced"][j].event) # k

\* While updates are pending, the coalesced class is drained oldest update
\* first: an entry handed out is older than everything left in the map.
CoalescedOldestFirst ==
  [][\A k \in DOMAIN coalesced' :
       Len(delivered'["coalesced"]) > Len(delivered["coalesced"])
         => delivered'["coalesced"][Len(delivered'["coalesced"])].order
              < coalesced'[k].seq]_brokerVars

==============================================================================
