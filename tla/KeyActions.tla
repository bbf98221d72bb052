----------------------------- MODULE KeyActions -----------------------------
(***************************************************************************)
(* The way of a key that is bound to an action: a terminal's request, the  *)
(* connection handler of the daemon, Engine.HandleKey and the action       *)
(* registry; the outcome becomes a critical event for the agent and the    *)
(* request is answered.                                                    *)
(*                                                                         *)
(* Two clocks run at once, the client's request timer and the registry's   *)
(* deadline, and an action handler may end in any way, late or never. The  *)
(* daemon may be shut down. A request id also names its Dispatch.          *)
(***************************************************************************)
EXTENDS EventBroker, ActionRegistry, IpcClient

ASSUME KeyIds == Calls = ids

Unbound == "unbound"

VARIABLES
  bound,        \* state.Bindings[key]: an action id, or Unbound
  handling,     \* what handleClient is doing
  request,      \* the request it is handling
  verdict       \* id -> what the daemon made of it

handlerVars == <<handling, request, verdict>>
vars == <<brokerVars, registryVars, clientVars, wireVars, bound, handlerVars>>

TypeOK ==
  /\ RegistryTypeOK /\ ClientTypeOK
  /\ bound \in Actions \cup {Unbound}
  /\ handling \in {"select", "dispatch", "answer", "return", "gone"}
  /\ request \in ids \cup {0}
  /\ verdict \in [ids -> {"none", "ok", "error"}]

\* An agent has published a node that binds the key, or none.
Init ==
  /\ BrokerInit /\ RegistryInit /\ ClientInit
  /\ bound \in Actions \cup {Unbound}
  /\ handling = "select" /\ request = 0
  /\ verdict = [id \in ids |-> "none"]

------------------------------------------------------------------------------
(* The terminal                                                              *)

Elsewhere == UNCHANGED <<brokerVars, registryVars, bound, handlerVars>>

\* The UI goroutine makes one request after the other; Close makes the last one.
UserFree == \A id \in 1..nextReq : caller[id] = "returned" /\ kind[id] = "key"

Press == UserFree /\ requestMessage("key") /\ Elsewhere
Close == UserFree /\ ~closed /\ requestMessage("detach") /\ Elsewhere
ClientStep(id) == RequestStep(id) /\ Elsewhere
ReadLoop == ReaderStep /\ Elsewhere
CloseEnds == CloseFinishes /\ Elsewhere

------------------------------------------------------------------------------
(* handleClient and HandleKey                                                *)

DaemonSide == UNCHANGED <<clientVars, clientOpen>>

\* The binding is read under the engine's lock and used after it.
TakeKey ==
  /\ handling = "select" /\ toDaemon # <<>> /\ Head(toDaemon).kind = "key"
  /\ toDaemon' = Tail(toDaemon)
  /\ request' = Head(toDaemon).id
  /\ IF bound = Unbound
     THEN /\ verdict' = [verdict EXCEPT ![Head(toDaemon).id] = "ok"]
          /\ handling' = "answer" /\ UNCHANGED registryVars
     ELSE /\ Dispatch(Head(toDaemon).id, bound)
          /\ handling' = "dispatch" /\ UNCHANGED verdict
  /\ UNCHANGED <<brokerVars, bound, serverOpen, toClient>> /\ DaemonSide

\* Fault: an event that is refused is forgotten.
QueueOutcome_Forgets ==
  /\ handling = "dispatch" /\ dispatch[request] = "returned"
  /\ \/ EnqueueCritical([ev |-> outcome[request], id |-> request])
     \/ RejectCritical
  /\ verdict' = [verdict EXCEPT ![request] = "ok"]
  /\ handling' = "answer"
  /\ UNCHANGED <<registryVars, bound, request, serverOpen, toDaemon, toClient>> /\ DaemonSide

\* The event of the outcome, or backpressure.
QueueOutcome ==
  /\ handling = "dispatch" /\ dispatch[request] = "returned"
  /\ \/ /\ EnqueueCritical([ev |-> outcome[request], id |-> request])
        /\ verdict' = [verdict EXCEPT ![request] = "ok"]
     \/ /\ RejectCritical
        /\ verdict' = [verdict EXCEPT ![request] = "error"]
  /\ handling' = "answer"
  /\ UNCHANGED <<registryVars, bound, request, serverOpen, toDaemon, toClient>> /\ DaemonSide

\* A snapshot or an error with the request id. A failed write ends the handler
\* only where it was a snapshot.
AnswerRequest ==
  /\ handling = "answer"
  /\ IF clientOpen /\ serverOpen
     THEN /\ toClient' = Append(toClient, [id |-> request, answer |-> verdict[request]])
          /\ handling' = "select"
     ELSE /\ handling' = IF verdict[request] = "ok" THEN "return" ELSE "select"
          /\ UNCHANGED toClient
  /\ UNCHANGED <<brokerVars, registryVars, bound, request, verdict, serverOpen, toDaemon>>
  /\ DaemonSide

\* detach: the acknowledgement is written and the handler returns.
TakeDetach ==
  /\ handling = "select" /\ toDaemon # <<>> /\ Head(toDaemon).kind = "detach"
  /\ toDaemon' = Tail(toDaemon)
  /\ request' = Head(toDaemon).id
  /\ verdict' = [verdict EXCEPT ![Head(toDaemon).id] = "ok"]
  /\ toClient' = IF clientOpen /\ serverOpen
                 THEN Append(toClient, [id |-> Head(toDaemon).id, answer |-> "ok"]) ELSE toClient
  /\ handling' = "return"
  /\ UNCHANGED <<brokerVars, registryVars, bound, serverOpen>> /\ DaemonSide

ShuttingDown == cancelled # {}

\* The daemon's context or the connection has ended.
HandlerLeaves ==
  /\ handling = "select" /\ handling' = "return"
  /\ ShuttingDown \/ ~serverOpen \/ (toDaemon = <<>> /\ ~clientOpen)
  /\ UNCHANGED <<brokerVars, registryVars, bound, request, verdict, serverOpen, toDaemon, toClient>>
  /\ DaemonSide

\* The deferred calls of handleClient.
CloseConn ==
  /\ handling = "return" /\ handling' = "gone"
  /\ serverOpen' = FALSE
  /\ UNCHANGED <<brokerVars, registryVars, bound, request, verdict, toDaemon, toClient>>
  /\ DaemonSide

HandlerStep ==
  TakeKey \/ QueueOutcome \/ AnswerRequest \/ TakeDetach \/ HandlerLeaves \/ CloseConn

\* The daemon's context is cancelled: so is that of every Dispatch, and the
\* goroutine of Serve closes the connection.
Shutdown ==
  /\ ~ShuttingDown
  /\ cancelled' = Calls
  /\ UNCHANGED <<brokerVars, handlers, dispatch, sem, worker, done, outcome, expired,
                 bound, handlerVars, clientVars, wireVars>>

closeActiveConn ==
  /\ ShuttingDown /\ serverOpen /\ serverOpen' = FALSE
  /\ UNCHANGED <<brokerVars, registryVars, bound, handlerVars, toDaemon, toClient>>
  /\ DaemonSide

------------------------------------------------------------------------------
(* The registry and the agent. Nobody reads the events here (EventDelivery   *)
(* does), so a queue that has filled up stays full.                          *)

Transport == UNCHANGED <<brokerVars, clientVars, wireVars, bound, handlerVars>>

RegistryStep(c) == DispatchStep(c) /\ Transport
Deadline(c) == Expire(c) /\ Transport
ActionHandler(c) == (\E r \in {"nil", "error"} : HandlerReturns(c, r)) /\ Transport
SlotStep(c) == ReleaseSlot(c) /\ Transport

\* The embedding program registers its actions before it serves.
RegisterAction(a) == nextReq = 0 /\ a \notin handlers /\ Register(a) /\ Transport

\* An operation of the agent removes the node that binds the key.
Unbind ==
  /\ bound # Unbound /\ bound' = Unbound
  /\ UNCHANGED <<brokerVars, registryVars, clientVars, wireVars, handlerVars>>

Next ==
  \/ Press \/ Close \/ ReadLoop \/ CloseEnds
  \/ HandlerStep \/ Shutdown \/ closeActiveConn
  \/ Unbind
  \/ \E id \in ids :
       ClientStep(id) \/ RegistryStep(id) \/ Deadline(id) \/ ActionHandler(id) \/ SlotStep(id)
  \/ \E a \in Actions : RegisterAction(a)

------------------------------------------------------------------------------
\* What the agent is told about an action is what happened to it. The binding is
\* read before the action runs and its node may be gone when the event is queued
\* (engine.go:302-314); the deadline, the cancellation, the handler's result and
\* a full queue race (actions.go:83-137). A request the daemon accepted for a
\* bound key leaves exactly one event, a refused one leaves none; a result means
\* the handler succeeded, and a handler that was never permitted never ran.
OutcomeAnnounced ==
  /\ \A id \in ids :
       LET told == {i \in 1..Len(accepted) : accepted[i].id = id}
       IN Cardinality(told) = IF verdict[id] = "ok" /\ dispatch[id] = "returned" THEN 1 ELSE 0
  /\ \A i \in 1..Len(accepted) :
       LET c == accepted[i].id
       IN CASE accepted[i].ev = "action_result" -> done[c] = "nil"
            [] accepted[i].ev = "failed"        -> done[c] = "error"
            [] accepted[i].ev = "timeout"       -> c \in expired
            [] accepted[i].ev = "cancelled"     -> c \in cancelled
            [] accepted[i].ev = "not_permitted" -> worker[c] = "none"

\* A request returns the daemon's answer to it and no other's, although answers
\* of requests that timed out arrive later (client.go:231-241, 312-316); once its answer
\* has been received it is not reported as a lost connection, whatever comes
\* first, the answer or the end of the stream: "Prefer the request-bound
\* response so a successful detach cannot be misreported" (client.go:317-328).
AnswersAreOwn ==
  [][\A id \in ids : caller[id] # "returned" /\ caller'[id] = "returned" =>
       /\ returned'[id] \in {"ok", "error"} => returned'[id] = verdict[id]
       /\ returned'[id] = "closed" => response[id] \in {"none", "closed"}]_vars

\* Every request of a terminal and every Dispatch returns, although an action
\* handler may hang with the last slot (actions.go:102-110: "Deadline covers
\* inflight-slot wait", references/REVIEW-FIXES.md).
RequestsReturn ==
  \A id \in ids :
    /\ caller[id] \in {"write", "wait"} ~> caller[id] = "returned"
    /\ dispatch[id] \in {"acquire", "acquired", "await"} ~> dispatch[id] = "returned"

\* The goroutine of a request goes on and its timer fires; so does the goroutine
\* of a Dispatch, and its deadline. Nothing else owes a step: not the reader, the
\* daemon's handler, an action handler or the slot it holds.
Fairness ==
  \A id \in ids : WF_vars(ClientStep(id)) /\ WF_vars(RegistryStep(id)) /\ WF_vars(Deadline(id))

Spec == Init /\ [][Next]_vars /\ Fairness

==============================================================================
