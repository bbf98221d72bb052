------------------------------ MODULE EventWait ------------------------------
(***************************************************************************)
(* Daemon.WaitEvents and the wake-up token of daemon/daemon.go.            *)
(*                                                                         *)
(* Any number of agent requests (GET /events, a2ui/wait_event,             *)
(* a2ui/drain_events) drain the one event queue. A request drains first;   *)
(* with nothing drained it sleeps in a select on the one-slot channel      *)
(* eventCh, a timer and its context, and drains again when one is ready.   *)
(* DrainEvents is a loop of Next calls that other requests and producers   *)
(* interleave with.                                                        *)
(***************************************************************************)
EXTENDS Engine

CONSTANT Waiters    \* concurrent agent requests for events

VARIABLES
  eventCh,      \* Daemon.eventCh holds a token
  waiter,       \* request -> "out", "draining", "empty", "asleep" or "final"
  got           \* request -> it has drained an event in this call

waitVars == <<eventCh, waiter, got>>

WaitInit ==
  /\ eventCh = FALSE
  /\ waiter = [w \in Waiters |-> "out"]
  /\ got = [w \in Waiters |-> FALSE]

\* Fault: the producer only wakes a request that is asleep right now.
SignalEvents_OnlySleepers ==
  /\ eventCh' = (eventCh \/ \E w \in Waiters : waiter[w] = "asleep")
  /\ UNCHANGED <<waiter, got>>

\* signalEvents: a token that is already there stays.
SignalEvents == eventCh' = TRUE /\ UNCHANGED <<waiter, got>>

CallWaitEvents(w) ==
  /\ waiter[w] = "out"
  /\ waiter' = [waiter EXCEPT ![w] = "draining"]
  /\ got' = [got EXCEPT ![w] = FALSE]
  /\ UNCHANGED <<engineVars, eventCh>>

\* One iteration of DrainEvents.
DrainOne(w) ==
  /\ waiter[w] \in {"draining", "final"}
  /\ TakeEvent
  /\ got' = [got EXCEPT ![w] = TRUE]
  /\ UNCHANGED <<eventCh, waiter>>

\* DrainEvents found the queue empty: the call returns what it has drained.
DrainEnds(w) ==
  /\ waiter[w] \in {"draining", "final"} /\ Depth = 0
  /\ waiter' = [waiter EXCEPT ![w] =
       IF got[w] \/ waiter[w] = "final" THEN "out" ELSE "empty"]
  /\ UNCHANGED <<engineVars, eventCh, got>>

\* With nothing drained it goes to sleep, or returns if asked not to wait
\* (drain_events, timeout 0).
GoToSleep(w) ==
  /\ waiter[w] = "empty"
  /\ waiter' = [waiter EXCEPT ![w] = "asleep"]
  /\ UNCHANGED <<engineVars, eventCh, got>>

DoNotWait(w) ==
  /\ waiter[w] = "empty"
  /\ waiter' = [waiter EXCEPT ![w] = "out"]
  /\ UNCHANGED <<engineVars, eventCh, got>>

WakeUp(w) ==
  /\ waiter[w] = "asleep" /\ eventCh
  /\ eventCh' = FALSE
  /\ waiter' = [waiter EXCEPT ![w] = "draining"]
  /\ UNCHANGED <<engineVars, got>>

\* Timer or context: a last drain, and the call returns whatever it finds.
GiveUp(w) ==
  /\ waiter[w] = "asleep"
  /\ waiter' = [waiter EXCEPT ![w] = "final"]
  /\ UNCHANGED <<engineVars, eventCh, got>>

WaitStep(w) ==
  \/ CallWaitEvents(w) \/ DrainOne(w) \/ DrainEnds(w)
  \/ GoToSleep(w) \/ DoNotWait(w) \/ WakeUp(w) \/ GiveUp(w)

WaitTypeOK ==
  /\ eventCh \in BOOLEAN
  /\ waiter \in [Waiters -> {"out", "draining", "empty", "asleep", "final"}]
  /\ got \in [Waiters -> BOOLEAN]

\* Some request is on its way to the queue, or a token will send one there.
WakeUpDue == eventCh \/ \E w \in Waiters : waiter[w] \in {"draining", "final"}

Sleeping == \E w \in Waiters : waiter[w] = "asleep"

==============================================================================
