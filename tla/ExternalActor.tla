---------------------------- MODULE ExternalActor ----------------------------
(***************************************************************************)
(* external/actor.go: one goroutine on one OS thread executes native       *)
(* commands one after the other; callers queue requests and wait.          *)
(*                                                                         *)
(* The executor may take any time, fail, panic or never return. A caller   *)
(* that gives up cannot stop it, so it degrades the actor instead. A       *)
(* caller's context may end at any time.                                   *)
(***************************************************************************)
EXTENDS Naturals, Sequences

CONSTANTS
  Requests,     \* invocations of Call
  QueueLen,     \* capacity of the request channel
  NoRequest     \* no member of Requests

VARIABLES
  health,       \* Actor.health
  stop,         \* the stop channel is closed
  loop,         \* what the actor's goroutine is doing; "exited" closes done
  current,      \* the request it has taken
  queue,        \* Actor.req
  result,       \* what each request's result channel holds
  call,         \* what each Call is doing
  reply,        \* what each Call returned
  closer        \* what the goroutine that calls Close is doing

callVars == <<call, reply>>
loopVars == <<loop, current>>
vars == <<health, stop, queue, result, closer, callVars, loopVars>>

Results == {"ok", "error", "closed", "degraded"}

TypeOK ==
  /\ health \in {"ready", "degraded", "closed"} /\ stop \in BOOLEAN
  /\ loop \in {"select", "check", "start", "execute", "drain", "exited"}
  /\ current \in Requests \cup {NoRequest}
  /\ queue \in Seq(Requests)
  /\ result \in [Requests -> Results \cup {"none"}]
  /\ call \in [Requests -> {"idle", "enqueue", "await", "returned"}]
  /\ reply \in [Requests -> Results \cup {"none", "context", "abandoned"}]
  /\ closer \in {"idle", "stopping", "waiting", "closed", "gaveUp"}

Init ==
  /\ health = "ready" /\ stop = FALSE
  /\ loop = "select" /\ current = NoRequest
  /\ queue = <<>>
  /\ result = [r \in Requests |-> "none"]
  /\ call = [r \in Requests |-> "idle"]
  /\ reply = [r \in Requests |-> "none"]
  /\ closer = "idle"

------------------------------------------------------------------------------
(* Call                                                                      *)

CallReturns(r, with) ==
  /\ call' = [call EXCEPT ![r] = "returned"]
  /\ reply' = [reply EXCEPT ![r] = with]

Call(r) ==
  /\ call[r] = "idle"
  /\ \/ health # "ready" /\ CallReturns(r, health)
     \/ health = "ready" /\ call' = [call EXCEPT ![r] = "enqueue"] /\ UNCHANGED reply
  /\ UNCHANGED <<health, stop, queue, result, closer, loopVars>>

Enqueue(r) ==
  /\ call[r] = "enqueue" /\ Len(queue) < QueueLen
  /\ queue' = Append(queue, r)
  /\ call' = [call EXCEPT ![r] = "await"]
  /\ UNCHANGED <<health, stop, result, closer, reply, loopVars>>

\* Nothing was submitted: the actor stays as it is.
EnqueueContext(r) ==
  /\ call[r] = "enqueue" /\ CallReturns(r, "context")
  /\ UNCHANGED <<health, stop, queue, result, closer, loopVars>>

AwaitResult(r) ==
  /\ call[r] = "await" /\ result[r] # "none" /\ CallReturns(r, result[r])
  /\ UNCHANGED <<health, stop, queue, result, closer, loopVars>>

\* Both selects of Call also watch the stop channel.
CallStopped(r) ==
  /\ call[r] \in {"enqueue", "await"} /\ stop /\ CallReturns(r, "closed")
  /\ UNCHANGED <<health, stop, queue, result, closer, loopVars>>

\* health.CompareAndSwap(Ready, Degraded)
AwaitContext(r) ==
  /\ call[r] = "await" /\ CallReturns(r, "abandoned")
  /\ health' = IF health = "ready" THEN "degraded" ELSE health
  /\ UNCHANGED <<stop, queue, result, closer, loopVars>>

CallStep(r) ==
  Call(r) \/ Enqueue(r) \/ EnqueueContext(r) \/ AwaitResult(r) \/ CallStopped(r) \/ AwaitContext(r)

------------------------------------------------------------------------------
(* The actor's goroutine. With a request and the stop both ready the select  *)
(* takes either.                                                             *)

Take ==
  /\ loop = "select" /\ queue # <<>>
  /\ current' = Head(queue) /\ queue' = Tail(queue)
  /\ loop' = "check"
  /\ UNCHANGED <<health, stop, result, closer, callVars>>

Answer(r, with) == result' = [result EXCEPT ![r] = with]

\* The load of the health: a request that is taken in another state than Ready
\* is answered, not run. The health may change between the load and the start.
Check ==
  /\ loop = "check"
  /\ \/ health # "ready" /\ Answer(current, health) /\ loop' = "select"
     \/ health = "ready" /\ loop' = "start" /\ UNCHANGED result
  /\ UNCHANGED <<health, stop, queue, current, closer, callVars>>

StartExecutor ==
  /\ loop = "start" /\ loop' = "execute"
  /\ UNCHANGED <<health, stop, queue, result, current, closer, callVars>>

\* The executor returns a response or an error, or panics. A panic degrades
\* the actor whatever its health was.
ExecutorEnds ==
  /\ loop = "execute" /\ loop' = "select"
  /\ \/ Answer(current, "ok") /\ UNCHANGED health
     \/ Answer(current, "error") /\ UNCHANGED health
     \/ Answer(current, "error") /\ health' = "degraded"
  /\ UNCHANGED <<stop, queue, current, closer, callVars>>

SeeStop ==
  /\ loop = "select" /\ stop
  /\ loop' = "drain"
  /\ UNCHANGED <<health, stop, queue, result, current, closer, callVars>>

Drain ==
  /\ loop = "drain"
  /\ \/ /\ queue # <<>>
        /\ Answer(Head(queue), "closed") /\ queue' = Tail(queue)
        /\ UNCHANGED loop
     \/ /\ queue = <<>>
        /\ loop' = "exited"
        /\ UNCHANGED <<queue, result>>
  /\ UNCHANGED <<health, stop, current, closer, callVars>>

------------------------------------------------------------------------------
(* Close                                                                     *)

CloseStores ==
  /\ closer = "idle" /\ closer' = "stopping"
  /\ health' = "closed"
  /\ UNCHANGED <<stop, queue, result, callVars, loopVars>>

CloseStops ==
  /\ closer = "stopping" /\ closer' = "waiting"
  /\ stop' = TRUE
  /\ UNCHANGED <<health, queue, result, callVars, loopVars>>

\* The actor's goroutine has ended, or the caller's context has.
CloseReturns ==
  /\ closer = "waiting"
  /\ closer' \in (IF loop = "exited" THEN {"closed", "gaveUp"} ELSE {"gaveUp"})
  /\ UNCHANGED <<health, stop, queue, result, callVars, loopVars>>

Next ==
  \/ \E r \in Requests : CallStep(r)
  \/ Take \/ Check \/ StartExecutor \/ ExecutorEnds \/ SeeStop \/ Drain
  \/ CloseStores \/ CloseStops \/ CloseReturns

Spec == Init /\ [][Next]_vars

------------------------------------------------------------------------------
\* A caller gave up on a command it had submitted.
GivenUp == \E r \in Requests : reply[r] = "abandoned"

\* The actor's goroutine is past its look at the health.
Admitted == loop \in {"start", "execute"}

\* Once a caller has given up, at most the one command that was admitted before
\* still starts or runs; none that waits, the abandoned one included, ever starts
\* afterwards. The timeout degrades the actor (IMPLEMENTATION.md:146, actor.go:136-138)
\* and neither a panic nor Close undoes that, but the health is loaded before the
\* executor is called (actor.go:67, 75), so the late start of that one remains.
AbandonedNotAdmitted == [](GivenUp /\ ~Admitted => []~Admitted)

\* A request is answered at most once, from the loop, the check of the health or
\* the drain after a stop: its channel holds one result, and a second send would
\* block the actor's goroutine for good (actor.go:66-84, 122).
AnsweredOnce ==
  [][\A r \in Requests : result'[r] # result[r] => result[r] = "none"]_vars

==============================================================================
