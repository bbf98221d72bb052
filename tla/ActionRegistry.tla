--------------------------- MODULE ActionRegistry ---------------------------
(***************************************************************************)
(* ActionRegistry of runtime/actions.go: named handlers, at most           *)
(* MaxInflight of them running, one deadline for the wait and the run.     *)
(*                                                                         *)
(* A call is one Dispatch. Its goroutine and the handler's goroutine are   *)
(* separate: Dispatch may return while the handler goes on. A step ends    *)
(* where the code blocks on a channel.                                     *)
(***************************************************************************)
EXTENDS Naturals, FiniteSets

CONSTANTS
  Calls,        \* invocations of Dispatch
  Actions,      \* action ids
  MaxInflight   \* capacity of the semaphore, at least 1 (NewActionRegistry clamps it)

ASSUME InflightAssumption == MaxInflight \in Nat \ {0}

VARIABLES
  handlers,     \* ids with a handler
  dispatch,     \* what each call's Dispatch is doing
  sem,          \* calls that hold one of the slots
  worker,       \* what each call's handler goroutine is doing
  done,         \* what each call's done channel holds
  outcome,      \* the event each Dispatch returned
  expired,      \* calls whose deadline has passed
  cancelled     \* calls whose parent context is done

registryVars == <<handlers, dispatch, sem, worker, done, outcome, expired, cancelled>>

Outcomes == {"action_result", "not_permitted", "cancelled", "timeout", "failed"}

RegistryTypeOK ==
  /\ handlers \subseteq Actions
  /\ dispatch \in [Calls -> {"idle", "acquire", "acquired", "await", "returned"}]
  /\ sem \subseteq Calls
  /\ worker \in [Calls -> {"none", "running", "sent", "gone"}]
  /\ done \in [Calls -> {"none", "nil", "error"}]
  /\ outcome \in [Calls -> Outcomes \cup {"none"}]
  /\ expired \subseteq Calls /\ cancelled \subseteq Calls

RegistryInit ==
  /\ handlers = {}
  /\ dispatch = [c \in Calls |-> "idle"]
  /\ sem = {}
  /\ worker = [c \in Calls |-> "none"]
  /\ done = [c \in Calls |-> "none"]
  /\ outcome = [c \in Calls |-> "none"]
  /\ expired = {} /\ cancelled = {}

\* The context handed to the handler: Dispatch cancels it on return.
ContextDone(c) == c \in expired \cup cancelled \/ dispatch[c] = "returned"

classifyContext(c) == IF c \in cancelled THEN "cancelled" ELSE "timeout"

\* Fault: the slot goes back as soon as Dispatch returns.
Return_ReleasesSlot(c, result) ==
  /\ dispatch' = [dispatch EXCEPT ![c] = "returned"]
  /\ outcome' = [outcome EXCEPT ![c] = result]
  /\ sem' = sem \ {c}

\* Dispatch returns an event; a running handler keeps its slot.
Return(c, result) ==
  /\ dispatch' = [dispatch EXCEPT ![c] = "returned"]
  /\ outcome' = [outcome EXCEPT ![c] = result]
  /\ UNCHANGED sem

Register(a) ==
  /\ handlers' = handlers \cup {a}
  /\ UNCHANGED <<dispatch, sem, worker, done, outcome, expired, cancelled>>

\* Only registered ids run, and only under a parent that is still alive.
Dispatch(c, a) ==
  /\ dispatch[c] = "idle"
  /\ \/ a \notin handlers /\ Return(c, "not_permitted")
     \/ a \in handlers /\ c \in cancelled /\ Return(c, "cancelled")
     \/ /\ a \in handlers /\ c \notin cancelled
        /\ dispatch' = [dispatch EXCEPT ![c] = "acquire"]
        /\ UNCHANGED <<outcome, sem>>
  /\ UNCHANGED <<handlers, worker, done, expired, cancelled>>

\* The deadline covers the wait for a slot and the run; after a cancellation it
\* makes no difference.
Expire(c) ==
  /\ dispatch[c] \in {"acquire", "acquired", "await"} /\ c \notin expired \cup cancelled
  /\ expired' = expired \cup {c}
  /\ UNCHANGED <<handlers, dispatch, sem, worker, done, outcome, cancelled>>

AcquireSlot(c) ==
  /\ dispatch[c] = "acquire" /\ Cardinality(sem) < MaxInflight
  /\ dispatch' = [dispatch EXCEPT ![c] = "acquired"]
  /\ sem' = sem \cup {c}
  /\ UNCHANGED <<handlers, worker, done, outcome, expired, cancelled>>

\* Fault: the wait for a slot ignores the deadline.
AbandonSlotWait_Never(c) == FALSE /\ UNCHANGED registryVars

AbandonSlotWait(c) ==
  /\ dispatch[c] = "acquire" /\ ContextDone(c)
  /\ Return(c, classifyContext(c))
  /\ UNCHANGED <<handlers, worker, done, expired, cancelled>>

\* The select may prefer the slot to a context that is done as well.
ReturnSlot(c) ==
  /\ dispatch[c] = "acquired" /\ ContextDone(c)
  /\ dispatch' = [dispatch EXCEPT ![c] = "returned"]
  /\ outcome' = [outcome EXCEPT ![c] = classifyContext(c)]
  /\ sem' = sem \ {c}
  /\ UNCHANGED <<handlers, worker, done, expired, cancelled>>

StartHandler(c) ==
  /\ dispatch[c] = "acquired" /\ ~ContextDone(c)
  /\ dispatch' = [dispatch EXCEPT ![c] = "await"]
  /\ worker' = [worker EXCEPT ![c] = "running"]
  /\ UNCHANGED <<handlers, sem, done, outcome, expired, cancelled>>

\* The handler returns, or panics and is recovered into an error. The deferred
\* calls run in this order: result first, then the slot.
HandlerReturns(c, result) ==
  /\ worker[c] = "running"
  /\ worker' = [worker EXCEPT ![c] = "sent"]
  /\ done' = [done EXCEPT ![c] = result]
  /\ UNCHANGED <<handlers, dispatch, sem, outcome, expired, cancelled>>

ReleaseSlot(c) ==
  /\ worker[c] = "sent"
  /\ worker' = [worker EXCEPT ![c] = "gone"]
  /\ sem' = sem \ {c}
  /\ UNCHANGED <<handlers, dispatch, done, outcome, expired, cancelled>>

\* An error that comes with an expired context is put down to the context.
ReceiveDone(c) ==
  /\ dispatch[c] = "await" /\ done[c] # "none"
  /\ Return(c, IF done[c] = "nil" THEN "action_result"
               ELSE IF ContextDone(c) THEN classifyContext(c) ELSE "failed")
  /\ UNCHANGED <<handlers, worker, done, expired, cancelled>>

AbandonHandler(c) ==
  /\ dispatch[c] = "await" /\ ContextDone(c)
  /\ Return(c, classifyContext(c))
  /\ UNCHANGED <<handlers, worker, done, expired, cancelled>>

\* The steps of Dispatch after it has been called.
DispatchStep(c) ==
  \/ AcquireSlot(c) \/ AbandonSlotWait(c) \/ ReturnSlot(c) \/ StartHandler(c)
  \/ ReceiveDone(c) \/ AbandonHandler(c)

------------------------------------------------------------------------------
\* Handlers that have not given their slot back.
Running == {c \in Calls : worker[c] \in {"running", "sent"}}

\* Never more than MaxInflight handlers at a time, however many Dispatch calls
\* have given up on theirs (actions.go:113-121, 135-136): a running handler has its slot.
SlotsBounded ==
  /\ Running \subseteq sem
  /\ IsFiniteSet(sem) /\ Cardinality(sem) <= MaxInflight

=============================================================================
