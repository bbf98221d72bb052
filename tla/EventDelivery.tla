---------------------------- MODULE EventDelivery ----------------------------
(***************************************************************************)
(* Producers and consumers of the daemon's events, reduced to what the     *)
(* wake-up protocol depends on.                                            *)
(*                                                                         *)
(* Producers: the handleClient goroutine that holds the lease enqueues an  *)
(* event (an interaction, or the committed events of a publication) and    *)
(* then signals; an agent's operation may enqueue an error event. The      *)
(* consumers are the concurrent WaitEvents calls of EventWait.tla.         *)
(***************************************************************************)
EXTENDS EventWait

CONSTANTS
  MaxOps,       \* bound on the operations applied
  MaxEvents     \* bound on the events accepted before another interaction

ASSUME DeliveryBounds == MaxOps \in Nat /\ MaxEvents \in Nat

VARIABLE producer    \* "idle", or "signal" between enqueueing and signalling

vars == <<engineVars, waitVars, producer>>

Init == EngineInit /\ WaitInit /\ producer = "idle"

\* Fault: the token is left before the event is in the queue.
Produce_SignalsFirst ==
  /\ nextOrder < MaxEvents
  /\ \/ producer = "idle" /\ eventCh' = TRUE /\ producer' = "signal"
        /\ UNCHANGED <<engineVars, waiter, got>>
     \/ producer = "signal" /\ (InteractWithEvent \/ Publish) /\ producer' = "idle"
        /\ UNCHANGED waitVars

\* handleClient: an accepted interaction or frame acknowledgement.
Produce ==
  /\ producer = "idle" /\ nextOrder < MaxEvents
  /\ InteractWithEvent \/ Publish
  /\ producer' = "signal"
  /\ UNCHANGED waitVars

Signal ==
  /\ producer = "signal"
  /\ SignalEvents
  /\ producer' = "idle"
  /\ UNCHANGED engineVars

Operate ==
  /\ lastSeq < MaxOps
  /\ ApplyCommit(lastSeq + 1) \/ ApplyRejected(lastSeq + 1)
  /\ UNCHANGED <<waitVars, producer>>

Consume == \E w \in Waiters : WaitStep(w) /\ UNCHANGED producer

Next == Produce \/ Signal \/ Operate \/ Consume

\* A goroutine that can run does; whether and when an agent calls WaitEvents,
\* and whether its timer fires or its request is cancelled, is left open.
Fairness ==
  /\ WF_vars(Signal)
  /\ \A w \in Waiters :
       WF_vars((DrainOne(w) \/ DrainEnds(w) \/ GoToSleep(w) \/ WakeUp(w)) /\ UNCHANGED producer)

Spec == Init /\ [][Next]_vars /\ Fairness

------------------------------------------------------------------------------

TypeOK == EngineTypeOK /\ WaitTypeOK /\ producer \in {"idle", "signal"}

Queued(Kinds) == \E i \in 1..Len(critical) : critical[i].event.ev \in Kinds

\* No wake-up of a terminal's event is lost, although one slot stands for any
\* number of events and any of several sleepers may take it: while a request
\* sleeps and such an event is queued, a token, a running drain or a producer
\* about to signal is there.
TerminalEventsWake ==
  Sleeping /\ Queued({"user", "committed"}) => WakeUpDue \/ producer = "signal"

\* A sleeping request and a queued terminal event do not stay together for
\* good, even if no timer ever fires.
TerminalEventsTaken ==
  (Sleeping /\ Queued({"user", "committed"}))
     ~> (~Sleeping \/ ~Queued({"user", "committed"}))

==============================================================================
