-------------------------- MODULE KeyActionsProofs --------------------------
(***************************************************************************)
(* Proofs about the key path, for any number of requests, actions and      *)
(* slots.                                                                  *)
(*                                                                         *)
(*  - The handlers that run never outnumber the slots. SlotsBounded is not *)
(*    inductive by itself: ReturnSlot gives a slot back without looking at *)
(*    the handler's goroutine, so RegistryInv adds that a Dispatch which   *)
(*    has not started its handler has none, and that one which has         *)
(*    acquired a slot holds it.                                            *)
(*  - A request returns its own answer. KeyInv: a request travels to the   *)
(*    daemon once, is judged once while the handler has it, and wherever   *)
(*    its answer is afterwards (on the socket, in the reader's hands, in   *)
(*    its channel), it is the verdict on this request.                     *)
(*  - The agent is told what became of an action. TellInv: a Dispatch that *)
(*    has returned has an outcome with a reason, and the accepted events   *)
(*    name each Dispatch whose request was answered ok exactly once, with  *)
(*    its outcome.                                                         *)
(***************************************************************************)
EXTENDS KeyActions, FiniteSetTheorems, TLAPS

\* Who has a handler's goroutine and who a slot.
NotStarted == \A c \in Calls : dispatch[c] \in {"idle", "acquire", "acquired"} => worker[c] = "none"
AcquiredHolds == \A c \in Calls : dispatch[c] = "acquired" => c \in sem

RegistryInv == RegistryTypeOK /\ SlotsBounded /\ NotStarted /\ AcquiredHolds

\* Initially there is neither a slot taken nor a handler.
LEMMA RegistryInitInv == RegistryInit => RegistryInv
<1> SUFFICES ASSUME RegistryInit PROVE RegistryInv
  OBVIOUS
<1>1. RegistryTypeOK
  BY DEF RegistryInit, RegistryTypeOK, Outcomes
<1>2. SlotsBounded
  BY FS_EmptySet, InflightAssumption DEF RegistryInit, SlotsBounded, Running
<1> QED BY <1>1, <1>2 DEF RegistryInit, RegistryInv, NotStarted, AcquiredHolds

\* A step that leaves the registry alone keeps the invariant.
LEMMA RegistryUnchanged == RegistryInv /\ UNCHANGED registryVars => RegistryInv'
  BY DEF RegistryInv, RegistryTypeOK, SlotsBounded, Running, NotStarted, AcquiredHolds, registryVars

\* Dispatch's first part returns or goes to wait for a slot.
LEMMA DispatchInv == ASSUME RegistryInv, NEW c, NEW a, Dispatch(c, a) PROVE RegistryInv'
<1> USE DEF RegistryInv
<1>1. UNCHANGED <<handlers, sem, worker, done, expired, cancelled>>
  BY DEF Dispatch, Return
<1>2. \/ /\ dispatch' = [dispatch EXCEPT ![c] = "returned"]
         /\ \E o \in {"not_permitted", "cancelled"} : outcome' = [outcome EXCEPT ![c] = o]
      \/ dispatch[c] = "idle" /\ dispatch' = [dispatch EXCEPT ![c] = "acquire"] /\ UNCHANGED outcome
  BY DEF Dispatch, Return
<1>3. RegistryTypeOK'
  BY <1>1, <1>2 DEF RegistryTypeOK, Outcomes
<1>4. SlotsBounded'
  BY <1>1 DEF SlotsBounded, Running
<1>5. NotStarted' /\ AcquiredHolds'
  BY <1>1, <1>2 DEF RegistryTypeOK, NotStarted, AcquiredHolds
<1> QED BY <1>3, <1>4, <1>5

\* A step of a Dispatch that waits, or of the handler it has started.
LEMMA StepInv ==
  ASSUME RegistryInv, NEW c \in Calls,
         DispatchStep(c) \/ Expire(c) \/ (\E r \in {"nil", "error"} : HandlerReturns(c, r)) \/ ReleaseSlot(c)
  PROVE  RegistryInv'
<1> USE DEF RegistryInv
<1>0. classifyContext(c) \in Outcomes
  BY DEF classifyContext, Outcomes
<1>1. CASE AcquireSlot(c)
  <2>1. RegistryTypeOK' /\ NotStarted' /\ AcquiredHolds'
    BY <1>1 DEF AcquireSlot, RegistryTypeOK, NotStarted, AcquiredHolds
  <2>2. IsFiniteSet(sem') /\ Cardinality(sem') <= MaxInflight
    <3>1. IsFiniteSet(sem) /\ Cardinality(sem) \in Nat /\ Cardinality(sem) <= MaxInflight
      BY FS_CardinalityType DEF SlotsBounded
    <3>2. IsFiniteSet(sem \cup {c}) /\ Cardinality(sem \cup {c}) <= Cardinality(sem) + 1
      BY <3>1, FS_AddElement
    <3>3. IsFiniteSet(sem \cup {c}) /\ Cardinality(sem \cup {c}) \in Nat
      BY <3>2, FS_CardinalityType
    <3> QED BY <1>1, <3>1, <3>2, <3>3, InflightAssumption DEF AcquireSlot
  <2>3. Running' \subseteq sem'
    BY <1>1 DEF AcquireSlot, SlotsBounded, Running
  <2> QED BY <2>1, <2>2, <2>3 DEF SlotsBounded
<1>2. CASE AbandonSlotWait(c) \/ AbandonHandler(c) \/ ReceiveDone(c)
  <2>1. /\ UNCHANGED <<handlers, sem, worker, done, expired, cancelled>>
        /\ dispatch' = [dispatch EXCEPT ![c] = "returned"]
        /\ \E o \in Outcomes : outcome' = [outcome EXCEPT ![c] = o]
    BY <1>2, <1>0 DEF AbandonSlotWait, AbandonHandler, ReceiveDone, Return, Outcomes
  <2>2. RegistryTypeOK' /\ NotStarted' /\ AcquiredHolds'
    BY <2>1 DEF RegistryTypeOK, NotStarted, AcquiredHolds
  <2>3. SlotsBounded'
    BY <2>1 DEF SlotsBounded, Running
  <2> QED BY <2>2, <2>3
<1>3. CASE ReturnSlot(c)
  <2>1. RegistryTypeOK'
    BY <1>3, <1>0 DEF ReturnSlot, RegistryTypeOK
  <2>2. NotStarted' /\ AcquiredHolds'
    BY <1>3 DEF ReturnSlot, RegistryTypeOK, NotStarted, AcquiredHolds
  <2>3. IsFiniteSet(sem') /\ Cardinality(sem') <= MaxInflight
    <3>1. IsFiniteSet(sem) /\ Cardinality(sem) \in Nat /\ Cardinality(sem) <= MaxInflight
      BY FS_CardinalityType DEF SlotsBounded
    <3>2. IsFiniteSet(sem \ {c}) /\ Cardinality(sem \ {c}) <= Cardinality(sem)
      BY <3>1, FS_RemoveElement
    <3>3. IsFiniteSet(sem \ {c}) /\ Cardinality(sem \ {c}) \in Nat
      BY <3>2, FS_CardinalityType
    <3> QED BY <1>3, <3>1, <3>2, <3>3, InflightAssumption DEF ReturnSlot
  <2>4. Running' \subseteq sem'
    BY <1>3 DEF ReturnSlot, SlotsBounded, Running, NotStarted
  <2> QED BY <2>1, <2>2, <2>3, <2>4 DEF SlotsBounded
<1>4. CASE StartHandler(c)
  <2>1. RegistryTypeOK' /\ NotStarted' /\ AcquiredHolds'
    BY <1>4 DEF StartHandler, RegistryTypeOK, NotStarted, AcquiredHolds
  <2>2. SlotsBounded'
    BY <1>4 DEF StartHandler, SlotsBounded, Running, AcquiredHolds, RegistryTypeOK
  <2> QED BY <2>1, <2>2
<1>5. CASE Expire(c)
  BY <1>5 DEF Expire, RegistryTypeOK, SlotsBounded, Running, NotStarted, AcquiredHolds
<1>6. CASE \E r \in {"nil", "error"} : HandlerReturns(c, r)
  <2>1. RegistryTypeOK' /\ NotStarted' /\ AcquiredHolds'
    BY <1>6 DEF HandlerReturns, RegistryTypeOK, NotStarted, AcquiredHolds
  <2>2. SlotsBounded'
    BY <1>6 DEF HandlerReturns, SlotsBounded, Running, RegistryTypeOK
  <2> QED BY <2>1, <2>2
<1>7. CASE ReleaseSlot(c)
  <2>1. RegistryTypeOK' /\ NotStarted' /\ AcquiredHolds'
    BY <1>7 DEF ReleaseSlot, RegistryTypeOK, NotStarted, AcquiredHolds
  <2>2. IsFiniteSet(sem') /\ Cardinality(sem') <= MaxInflight
    <3>1. IsFiniteSet(sem) /\ Cardinality(sem) \in Nat /\ Cardinality(sem) <= MaxInflight
      BY FS_CardinalityType DEF SlotsBounded
    <3>2. IsFiniteSet(sem \ {c}) /\ Cardinality(sem \ {c}) <= Cardinality(sem)
      BY <3>1, FS_RemoveElement
    <3>3. IsFiniteSet(sem \ {c}) /\ Cardinality(sem \ {c}) \in Nat
      BY <3>2, FS_CardinalityType
    <3> QED BY <1>7, <3>1, <3>2, <3>3, InflightAssumption DEF ReleaseSlot
  <2>3. Running' \subseteq sem'
    BY <1>7 DEF ReleaseSlot, SlotsBounded, Running, RegistryTypeOK
  <2> QED BY <2>1, <2>2, <2>3 DEF SlotsBounded
<1> QED BY <1>1, <1>2, <1>3, <1>4, <1>5, <1>6, <1>7 DEF DispatchStep

\* A step of the daemon keeps the invariant: it starts a Dispatch, cancels the
\* contexts or leaves the registry alone.
LEMMA DaemonInv == ASSUME RegistryInv, HandlerStep \/ Shutdown \/ closeActiveConn PROVE RegistryInv'
<1>1. CASE TakeKey
  <2>1. UNCHANGED registryVars \/ Dispatch(Head(toDaemon).id, bound)
    BY <1>1 DEF TakeKey
  <2> QED BY <2>1, RegistryUnchanged, DispatchInv
<1>2. CASE Shutdown
  BY <1>2 DEF Shutdown, RegistryInv, RegistryTypeOK, SlotsBounded, Running, NotStarted, AcquiredHolds
<1>3. CASE QueueOutcome \/ AnswerRequest \/ TakeDetach \/ HandlerLeaves \/ CloseConn \/ closeActiveConn
  BY <1>3, RegistryUnchanged
     DEF QueueOutcome, AnswerRequest, TakeDetach, HandlerLeaves, CloseConn, closeActiveConn
<1> QED BY <1>1, <1>2, <1>3 DEF HandlerStep

\* Every step keeps the invariant.
LEMMA NextInv == ASSUME RegistryInv, [Next]_vars PROVE RegistryInv'
<1>1. CASE Press \/ Close \/ ReadLoop \/ CloseEnds \/ Unbind
  BY <1>1, RegistryUnchanged DEF Press, Close, ReadLoop, CloseEnds, Unbind, Elsewhere
<1>2. CASE HandlerStep \/ Shutdown \/ closeActiveConn
  BY <1>2, DaemonInv
<1>3. ASSUME NEW id \in ids, ClientStep(id) PROVE RegistryInv'
  BY <1>3, RegistryUnchanged DEF ClientStep, Elsewhere
<1>4. ASSUME NEW id \in ids, RegistryStep(id) \/ Deadline(id) \/ ActionHandler(id) \/ SlotStep(id)
      PROVE  RegistryInv'
  BY <1>4, StepInv, KeyIds DEF RegistryStep, Deadline, ActionHandler, SlotStep
<1>5. ASSUME NEW a \in Actions, RegisterAction(a) PROVE RegistryInv'
  BY <1>5 DEF RegisterAction, Register, RegistryInv, RegistryTypeOK, SlotsBounded, Running,
              NotStarted, AcquiredHolds
<1>6. CASE UNCHANGED vars
  BY <1>6, RegistryUnchanged DEF vars
<1> QED BY <1>1, <1>2, <1>3, <1>4, <1>5, <1>6 DEF Next

\* However many Dispatch calls give up on their handlers, and whenever the
\* daemon is shut down, no more handlers run than there are slots
\* (runtime/actions.go:65-138).
THEOREM HandlersBounded == Spec => []SlotsBounded
<1>1. Init => RegistryInv
  BY RegistryInitInv DEF Init
<1>2. RegistryInv /\ [Next]_vars => RegistryInv'
  BY NextInv
<1>3. RegistryInv => SlotsBounded
  BY DEF RegistryInv
<1> QED BY <1>1, <1>2, <1>3, PTL DEF Spec

------------------------------------------------------------------------------
(* Answers                                                                   *)

PathTypeOK ==
  /\ ClientTypeOK
  /\ bound \in Actions \cup {Unbound}
  /\ handling \in {"select", "dispatch", "answer", "return", "gone"}
  /\ request \in ids \cup {0}
  /\ verdict \in [ids -> {"none", "ok", "error"}]

\* A request that has not been written is unknown to the daemon, ...
CallerInv ==
  \A id \in ids :
    /\ id > nextReq => caller[id] = "idle"
    /\ caller[id] = "write" => kind[id] # "none"
    /\ caller[id] \in {"idle", "write"} => verdict[id] = "none" /\ dispatch[id] = "idle"

\* ... one on its way to the daemon is there once and has not been judged, ...
QueuedInv ==
  \A i \in 1..Len(toDaemon) :
    /\ caller[toDaemon[i].id] \in {"wait", "returned"}
    /\ verdict[toDaemon[i].id] = "none" /\ dispatch[toDaemon[i].id] = "idle"
    /\ \A j \in 1..Len(toDaemon) : toDaemon[i].id = toDaemon[j].id => i = j

\* ... and the one in hand is the only one with a Dispatch under way.
HandledInv ==
  /\ handling \in {"dispatch", "answer"} => request \in ids
  /\ handling = "dispatch" => verdict[request] = "none" /\ dispatch[request] # "idle"
  /\ handling = "answer" => verdict[request] # "none"
  /\ \A id \in ids :
       dispatch[id] \in {"acquire", "acquired", "await"} => handling = "dispatch" /\ request = id

\* An answer carries the verdict on the request it names, all the way.
AnswerInv ==
  /\ \A i \in 1..Len(toClient) : toClient[i].answer = verdict[toClient[i].id]
  /\ \A h \in inHand : h.answer # "closed" => h.answer = verdict[h.id]
  /\ \A id \in ids : response[id] \in {"ok", "error"} => response[id] = verdict[id]

KeyInv == RegistryInv /\ PathTypeOK /\ CallerInv /\ QueuedInv /\ HandledInv /\ AnswerInv

\* What the records in flight look like.
LEMMA Element == ASSUME NEW S, NEW s \in Seq(S), NEW i \in 1..Len(s) PROVE s[i] \in S
  OBVIOUS

\* Appending keeps a sequence over its set.
LEMMA AppendIn == ASSUME NEW S, NEW s \in Seq(S), NEW e \in S PROVE Append(s, e) \in Seq(S)
  OBVIOUS

\* The records in flight name requests of the client.
LEMMA WireFacts ==
  ASSUME ClientTypeOK
  PROVE  /\ Len(toDaemon) \in Nat /\ Len(toClient) \in Nat
         /\ \A i \in 1..Len(toDaemon) : toDaemon[i].id \in ids /\ toDaemon[i].kind \in {"key", "detach"}
         /\ \A i \in 1..Len(toClient) : toClient[i].id \in ids /\ toClient[i].answer \in {"ok", "error"}
<1>1. /\ toDaemon \in Seq([id : ids, kind : {"key", "detach"}])
      /\ toClient \in Seq([id : ids, answer : {"ok", "error"}])
  BY DEF ClientTypeOK
<1>2. \A i \in 1..Len(toDaemon) : toDaemon[i] \in [id : ids, kind : {"key", "detach"}]
  BY <1>1, Element
<1>3. \A i \in 1..Len(toClient) : toClient[i] \in [id : ids, answer : {"ok", "error"}]
  BY <1>1, Element
<1> QED BY <1>1, <1>2, <1>3

\* Initially nothing has been asked.
LEMMA KeyInitInv == Init => KeyInv
<1> SUFFICES ASSUME Init PROVE KeyInv
  OBVIOUS
<1>1. RegistryInv
  BY RegistryInitInv DEF Init
<1>2. ClientTypeOK
  <2>1. MaxRequests \in Nat
    BY RequestsAssumption
  <2>2. /\ nextReq = 0 /\ pending = {} /\ reader = "read" /\ inHand = {}
        /\ closed = FALSE /\ clientOpen = TRUE /\ serverOpen = TRUE /\ toDaemon = <<>> /\ toClient = <<>>
        /\ kind = [id \in ids |-> "none"] /\ caller = [id \in ids |-> "idle"]
        /\ returned = [id \in ids |-> "none"] /\ response = [id \in ids |-> "none"]
    BY DEF Init, ClientInit
  <2>3. nextReq \in 0..MaxRequests /\ {closed, clientOpen, serverOpen} \subseteq BOOLEAN
    <3>1. closed = FALSE /\ clientOpen = TRUE /\ serverOpen = TRUE
      BY <2>2
    <3>2. {closed, clientOpen, serverOpen} \subseteq BOOLEAN
      BY <3>1, Zenon
    <3> QED BY <2>1, <2>2, <3>2
  <2>4. /\ toDaemon \in Seq([id : ids, kind : {"key", "detach"}])
        /\ toClient \in Seq([id : ids, answer : {"ok", "error"}])
    <3>1. \A S : <<>> \in Seq(S)
      OBVIOUS
    <3> QED BY <2>2, <3>1
  <2>5. /\ kind \in [ids -> {"none", "key", "detach"}]
        /\ caller \in [ids -> {"idle", "write", "wait", "returned"}]
        /\ returned \in [ids -> Answers \cup {"none", "timeout"}]
        /\ response \in [ids -> Answers \cup {"none"}]
    BY <2>2
  <2> QED BY <2>2, <2>3, <2>4, <2>5 DEF ClientTypeOK
<1>3. PathTypeOK
  BY <1>2 DEF Init, PathTypeOK
<1>4. CallerInv /\ QueuedInv /\ HandledInv /\ AnswerInv
  BY KeyIds DEF Init, ClientInit, RegistryInit, CallerInv, QueuedInv, HandledInv, AnswerInv
<1> QED BY <1>1, <1>3, <1>4 DEF KeyInv

\* A new request gets an id that nobody has seen.
LEMMA PressInv ==
  ASSUME KeyInv, NEW k \in {"key", "detach"}, requestMessage(k), Elsewhere
  PROVE  PathTypeOK' /\ CallerInv' /\ QueuedInv' /\ HandledInv' /\ AnswerInv'
<1> USE DEF KeyInv, PathTypeOK
<1>t. /\ nextReq \in Nat /\ nextReq + 1 \in ids /\ nextReq + 1 <= MaxRequests /\ MaxRequests \in Nat
      /\ nextReq + 1 > nextReq
  BY RequestsAssumption DEF requestMessage, ClientTypeOK, ids
<1>0. caller[nextReq + 1] = "idle"
  BY <1>t DEF CallerInv
<1>1. /\ UNCHANGED <<response, reader, inHand, closed, clientOpen, serverOpen, toDaemon, toClient>>
      /\ UNCHANGED <<registryVars, bound, handling, request, verdict>>
      /\ nextReq' = nextReq + 1 /\ kind' = [kind EXCEPT ![nextReq + 1] = k]
      /\ \E s \in {"returned", "write"} : caller' = [caller EXCEPT ![nextReq + 1] = s]
      /\ returned' = returned \/ returned' = [returned EXCEPT ![nextReq + 1] = "closed"]
      /\ pending' = pending \/ pending' = pending \cup {nextReq + 1}
  BY DEF requestMessage, RequestReturns, Elsewhere, wireVars, handlerVars
<1>2. PathTypeOK'
  <2>1. nextReq' \in 0..MaxRequests
    BY <1>t, <1>1
  <2> QED BY <1>t, <1>1, <2>1 DEF ClientTypeOK, Answers
<1>3. CallerInv'
  <2> SUFFICES ASSUME NEW id \in ids
               PROVE  /\ id > nextReq' => caller'[id] = "idle"
                      /\ caller'[id] = "write" => kind'[id] # "none"
                      /\ caller'[id] \in {"idle", "write"} => verdict'[id] = "none" /\ dispatch'[id] = "idle"
    BY DEF CallerInv
  <2>1. UNCHANGED <<verdict, dispatch>> /\ id \in Nat
    BY <1>1, <1>t DEF registryVars, ids
  <2>2. CASE id = nextReq + 1
    BY <1>0, <1>1, <1>t, <2>1, <2>2 DEF CallerInv, ClientTypeOK
  <2>3. CASE id # nextReq + 1
    BY <1>1, <1>t, <2>1, <2>3 DEF CallerInv, ClientTypeOK
  <2> QED BY <2>2, <2>3
<1>4. QueuedInv'
  <2>1. ASSUME NEW i \in 1..Len(toDaemon) PROVE caller'[toDaemon[i].id] \in {"wait", "returned"}
    <3>1. toDaemon[i].id \in ids /\ toDaemon[i].id # nextReq + 1
      BY <1>0, <2>1, WireFacts DEF QueuedInv
    <3> QED BY <1>1, <1>t, <2>1, <3>1 DEF QueuedInv, ClientTypeOK
  <2> QED BY <1>1, <2>1 DEF QueuedInv, registryVars
<1>5. HandledInv' /\ AnswerInv'
  BY <1>1 DEF HandledInv, AnswerInv, registryVars
<1> QED BY <1>2, <1>3, <1>4, <1>5

\* A caller writes its record once, and only then can there be an answer.
LEMMA CallerStepInv ==
  ASSUME KeyInv, NEW id \in ids, ClientStep(id)
  PROVE  PathTypeOK' /\ CallerInv' /\ QueuedInv' /\ HandledInv' /\ AnswerInv'
<1> USE DEF KeyInv, PathTypeOK
<1>t. /\ toDaemon \in Seq([id : ids, kind : {"key", "detach"}]) /\ Len(toDaemon) \in Nat
      /\ caller \in [ids -> {"idle", "write", "wait", "returned"}]
  BY DEF ClientTypeOK
<1>1. /\ UNCHANGED <<nextReq, kind, response, reader, inHand, closed, clientOpen, serverOpen, toClient>>
      /\ UNCHANGED <<verdict, dispatch, bound, handling, request>>
      /\ caller[id] \in {"write", "wait"}
      /\ \E s \in {"returned", "wait"} : caller' = [caller EXCEPT ![id] = s]
      /\ returned' = returned \/ \E a \in Answers \cup {"timeout"} : returned' = [returned EXCEPT ![id] = a]
      /\ pending' \subseteq pending
  <2>1. CASE Write(id)
    BY <2>1 DEF ClientStep, Write, RequestReturns, Elsewhere, registryVars, handlerVars, Answers
  <2>2. CASE TakeResponse(id) \/ RequestTimeout(id) \/ SeeClosed(id)
    BY <2>2 DEF ClientStep, TakeResponse, RequestTimeout, SeeClosed, RequestReturns, Elsewhere,
       registryVars, handlerVars, wireVars, Answers, ClientTypeOK
  <2> QED BY <2>1, <2>2 DEF ClientStep, RequestStep
<1>2. \/ UNCHANGED toDaemon
      \/ /\ caller[id] = "write" /\ kind[id] \in {"key", "detach"}
         /\ toDaemon' = Append(toDaemon, [id |-> id, kind |-> kind[id]])
  <2>1. CASE Write(id)
    BY <2>1 DEF Write, CallerInv, ClientTypeOK
  <2>2. CASE TakeResponse(id) \/ RequestTimeout(id) \/ SeeClosed(id)
    BY <2>2 DEF TakeResponse, RequestTimeout, SeeClosed, wireVars
  <2> QED BY <2>1, <2>2 DEF ClientStep, RequestStep
<1>3. toDaemon' \in Seq([id : ids, kind : {"key", "detach"}])
  <2>1. kind[id] \in {"key", "detach"} => [id |-> id, kind |-> kind[id]] \in [id : ids, kind : {"key", "detach"}]
    OBVIOUS
  <2>2. \A e \in [id : ids, kind : {"key", "detach"}] :
          Append(toDaemon, e) \in Seq([id : ids, kind : {"key", "detach"}])
    BY <1>t, AppendIn
  <2>3. CASE kind[id] \in {"key", "detach"} /\ toDaemon' = Append(toDaemon, [id |-> id, kind |-> kind[id]])
    BY <2>1, <2>2, <2>3
  <2> QED BY <1>t, <1>2, <2>3
<1>4. PathTypeOK'
  <2>1. caller' \in [ids -> {"idle", "write", "wait", "returned"}]
    BY <1>t, <1>1
  <2>2. returned' \in [ids -> Answers \cup {"none", "timeout"}]
    BY <1>1 DEF ClientTypeOK
  <2>3. pending' \subseteq ids
    BY <1>1 DEF ClientTypeOK
  <2>4. /\ UNCHANGED <<nextReq, kind, response, reader, inHand, closed, clientOpen, serverOpen, toClient>>
        /\ UNCHANGED <<verdict, bound, handling, request>>
    BY <1>1
  <2> QED BY <1>3, <2>1, <2>2, <2>3, <2>4 DEF ClientTypeOK
<1>5. CallerInv'
  BY <1>1, <1>t DEF CallerInv
<1>6. QueuedInv'
  <2>1. CASE UNCHANGED toDaemon
    BY <1>1, <1>t, <2>1 DEF QueuedInv
  <2>2. CASE /\ caller[id] = "write"
             /\ toDaemon' = Append(toDaemon, [id |-> id, kind |-> kind[id]])
    <3>1. /\ Len(toDaemon') = Len(toDaemon) + 1
          /\ \A i \in 1..Len(toDaemon) : toDaemon'[i] = toDaemon[i]
          /\ toDaemon'[Len(toDaemon) + 1].id = id
      BY <1>t, <2>2
    <3>2. /\ \A i \in 1..Len(toDaemon) : toDaemon[i].id \in ids /\ toDaemon[i].id # id
          /\ verdict[id] = "none" /\ dispatch[id] = "idle"
      BY <2>2, WireFacts DEF QueuedInv, CallerInv
    <3>3. caller'[id] \in {"wait", "returned"}
      BY <1>1, <1>t
    <3>4. ASSUME NEW i \in 1..Len(toDaemon')
          PROVE  \/ i \in 1..Len(toDaemon) /\ toDaemon'[i] = toDaemon[i]
                 \/ i = Len(toDaemon) + 1 /\ toDaemon'[i].id = id
      BY <1>t, <3>1
    <3>5. ASSUME NEW i \in 1..Len(toDaemon')
          PROVE  /\ caller'[toDaemon'[i].id] \in {"wait", "returned"}
                 /\ verdict'[toDaemon'[i].id] = "none" /\ dispatch'[toDaemon'[i].id] = "idle"
      BY <1>1, <1>t, <3>2, <3>3, <3>4 DEF QueuedInv
    <3>6. ASSUME NEW i \in 1..Len(toDaemon'), NEW j \in 1..Len(toDaemon'),
                 toDaemon'[i].id = toDaemon'[j].id
          PROVE  i = j
      BY <3>2, <3>4, <3>6 DEF QueuedInv
    <3> QED BY <3>5, <3>6 DEF QueuedInv
  <2> QED BY <1>2, <2>1, <2>2
<1>7. HandledInv' /\ AnswerInv'
  BY <1>1 DEF HandledInv, AnswerInv
<1> QED BY <1>4, <1>5, <1>6, <1>7

\* What a goroutine of the client that does not call leaves alone.
LEMMA OthersStutter ==
  ASSUME KeyInv, UNCHANGED <<nextReq, kind, caller, returned, toDaemon, verdict, dispatch, handling, request>>
  PROVE  CallerInv' /\ QueuedInv' /\ HandledInv'
  BY DEF KeyInv, CallerInv, QueuedInv, HandledInv

\* readLoop hands every answer to the request it names.
LEMMA ReaderInv ==
  ASSUME KeyInv, ReadLoop \/ CloseEnds
  PROVE  PathTypeOK' /\ CallerInv' /\ QueuedInv' /\ HandledInv' /\ AnswerInv'
<1> USE DEF KeyInv, PathTypeOK
<1>t. /\ toClient \in Seq([id : ids, answer : {"ok", "error"}]) /\ inHand \subseteq [id : ids, answer : Answers]
      /\ pending \subseteq ids /\ response \in [ids -> Answers \cup {"none"}]
  BY DEF ClientTypeOK
<1>1. /\ UNCHANGED <<nextReq, kind, caller, returned, toDaemon, serverOpen>>
      /\ UNCHANGED <<verdict, dispatch, bound, handling, request>>
  BY DEF ReadLoop, CloseEnds, CloseFinishes, ReaderStep, Receive, Resolve, EndOfStream, failAll,
         ReaderFinishes, finish, Elsewhere, registryVars, handlerVars, wireVars
<1>2. CallerInv' /\ QueuedInv' /\ HandledInv'
  BY <1>1, OthersStutter
<1>3. SUFFICES /\ pending' \subseteq ids /\ response' \in [ids -> Answers \cup {"none"}]
               /\ reader' \in {"read", "resolve", "fail", "finish", "ended"}
               /\ inHand' \subseteq [id : ids, answer : Answers]
               /\ closed' \in BOOLEAN /\ clientOpen' \in BOOLEAN
               /\ toClient' \in Seq([id : ids, answer : {"ok", "error"}])
               /\ AnswerInv'
  <2>1. ASSUME closed' \in BOOLEAN, clientOpen' \in BOOLEAN
        PROVE  {closed, clientOpen, serverOpen}' \subseteq BOOLEAN
    BY <1>1, <2>1 DEF ClientTypeOK
  <2> QED BY <1>1, <1>2, <2>1 DEF ClientTypeOK
<1>4. closed \in BOOLEAN /\ clientOpen \in BOOLEAN
  BY DEF ClientTypeOK
<1>5. CASE Receive
  <2>1. /\ toClient # <<>> /\ toClient' = Tail(toClient) /\ pending' \subseteq pending
        /\ \A h \in inHand' : h = [id |-> Head(toClient).id, answer |-> Head(toClient).answer]
        /\ reader' \in {"read", "resolve"} /\ UNCHANGED <<response, closed, clientOpen>>
    BY <1>5 DEF Receive, Addressee
  <2>2. /\ Head(toClient) = toClient[1] /\ 1 \in 1..Len(toClient) /\ toClient' \in Seq([id : ids, answer : {"ok", "error"}])
        /\ Len(toClient') = Len(toClient) - 1 /\ \A i \in 1..Len(toClient') : toClient'[i] = toClient[i + 1]
        /\ Len(toClient) \in Nat
    BY <1>t, <2>1
  <2>3. Head(toClient).id \in ids /\ Head(toClient).answer \in {"ok", "error"}
        /\ Head(toClient).answer = verdict[Head(toClient).id]
    BY <2>2, WireFacts DEF AnswerInv
  <2>4. \A h \in inHand' : /\ h \in [id : ids, answer : Answers] /\ h.answer = verdict[h.id]
    BY <2>1, <2>3 DEF Answers
  <2>5. \A i \in 1..Len(toClient') : toClient'[i].answer = verdict[toClient'[i].id]
    BY <2>2 DEF AnswerInv
  <2> QED BY <1>1, <1>t, <1>4, <2>1, <2>2, <2>4, <2>5 DEF AnswerInv
<1>6. CASE Resolve \/ failAll
  <2>1. /\ SendAnswers /\ inHand' = {} /\ UNCHANGED <<pending, closed, clientOpen, toClient>>
        /\ reader' \in {"read", "finish"}
    BY <1>6 DEF Resolve, failAll, wireVars
  <2>2. ASSUME NEW id \in ids
        PROVE  /\ response'[id] \in Answers \cup {"none"}
               /\ response'[id] \in {"ok", "error"} => response'[id] = verdict[id]
    <3>1. CASE \E h \in inHand : h.id = id
      <4>1. PICK h \in inHand : h = CHOOSE g \in inHand : g.id = id
        BY <3>1
      <4>2. h.id = id /\ h.answer \in Answers
        BY <1>t, <3>1, <4>1
      <4>3. response'[id] = h.answer
        BY <2>1, <3>1, <4>1 DEF SendAnswers
      <4> QED BY <4>2, <4>3 DEF AnswerInv
    <3>2. CASE ~\E h \in inHand : h.id = id
      BY <1>t, <2>1, <3>2 DEF SendAnswers, AnswerInv
    <3> QED BY <3>1, <3>2
  <2>3. response' \in [ids -> Answers \cup {"none"}]
    <3>1. response' = [id \in ids |-> response'[id]]
      BY <2>1 DEF SendAnswers
    <3> QED BY <2>2, <3>1
  <2> QED BY <1>1, <1>t, <1>4, <2>1, <2>2, <2>3 DEF AnswerInv
<1>7. CASE EndOfStream
  BY <1>1, <1>t, <1>4, <1>7 DEF EndOfStream, wireVars, Answers, AnswerInv
<1>8. CASE ReaderFinishes \/ CloseFinishes
  <2>1. /\ closed' = TRUE /\ clientOpen' = FALSE /\ UNCHANGED <<pending, response, inHand, toClient>>
        /\ reader' = "ended" \/ reader' = reader
    BY <1>8 DEF ReaderFinishes, CloseFinishes, finish
  <2>2. reader \in {"read", "resolve", "fail", "finish", "ended"}
    BY DEF ClientTypeOK
  <2>3. AnswerInv'
    BY <1>1, <2>1 DEF AnswerInv
  <2> QED BY <1>t, <2>1, <2>2, <2>3
<1> QED BY <1>5, <1>6, <1>7, <1>8 DEF ReadLoop, CloseEnds, ReaderStep

\* A request is judged once, so an answer given stays right; a new one is.
LEMMA AnswersStay ==
  ASSUME PathTypeOK, AnswerInv, UNCHANGED <<inHand, response>>,
         \A id \in ids : verdict[id] # "none" => verdict'[id] = verdict[id],
         \/ UNCHANGED toClient
         \/ \E id \in ids, a \in {"ok", "error"} :
              toClient' = Append(toClient, [id |-> id, answer |-> a]) /\ verdict'[id] = a
  PROVE  AnswerInv' /\ toClient' \in Seq([id : ids, answer : {"ok", "error"}])
<1> USE DEF PathTypeOK
<1>t. /\ toClient \in Seq([id : ids, answer : {"ok", "error"}]) /\ inHand \subseteq [id : ids, answer : Answers]
      /\ response \in [ids -> Answers \cup {"none"}]
  BY DEF ClientTypeOK
<1>1. \A h \in inHand' : h.answer # "closed" => h.answer = verdict'[h.id]
  <2>1. \A h \in inHand : h.id \in ids /\ h.answer \in {"ok", "error", "closed"}
    BY <1>t DEF Answers
  <2> QED BY <2>1 DEF AnswerInv
<1>2. \A id \in ids : response'[id] \in {"ok", "error"} => response'[id] = verdict'[id]
  BY <1>t DEF AnswerInv
<1>3. \A i \in 1..Len(toClient) : toClient[i].answer = verdict'[toClient[i].id]
  BY WireFacts DEF AnswerInv
<1>4. CASE UNCHANGED toClient
  BY <1>t, <1>1, <1>2, <1>3, <1>4 DEF AnswerInv
<1>5. ASSUME NEW id \in ids, NEW a \in {"ok", "error"},
             toClient' = Append(toClient, [id |-> id, answer |-> a]), verdict'[id] = a
      PROVE  AnswerInv' /\ toClient' \in Seq([id : ids, answer : {"ok", "error"}])
  <2>1. PICK m \in [id : ids, answer : {"ok", "error"}] : m = [id |-> id, answer |-> a]
    OBVIOUS
  <2>2. toClient' = Append(toClient, m) /\ m.answer = verdict'[m.id]
    BY <1>5, <2>1
  <2>3. /\ toClient' \in Seq([id : ids, answer : {"ok", "error"}])
        /\ \A i \in 1..Len(toClient') :
             (i \in 1..Len(toClient) /\ toClient'[i] = toClient[i]) \/ toClient'[i] = m
    BY <1>t, <2>2
  <2>4. \A i \in 1..Len(toClient') : toClient'[i].answer = verdict'[toClient'[i].id]
    BY <1>3, <2>2, <2>3
  <2> QED BY <1>1, <1>2, <2>3, <2>4 DEF AnswerInv
<1> QED BY <1>4, <1>5

\* The record at the head of the queue is the only one of its request.
LEMMA HeadLeaves ==
  ASSUME KeyInv, toDaemon # <<>>, toDaemon' = Tail(toDaemon)
  PROVE  /\ Head(toDaemon).id \in ids /\ verdict[Head(toDaemon).id] = "none"
         /\ dispatch[Head(toDaemon).id] = "idle" /\ caller[Head(toDaemon).id] \in {"wait", "returned"}
         /\ toDaemon' \in Seq([id : ids, kind : {"key", "detach"}])
         /\ Len(toDaemon') = Len(toDaemon) - 1 /\ Len(toDaemon) \in Nat
         /\ \A i \in 1..Len(toDaemon') :
              /\ i + 1 \in 1..Len(toDaemon) /\ toDaemon'[i] = toDaemon[i + 1]
              /\ toDaemon'[i].id # Head(toDaemon).id
<1>1. toDaemon \in Seq([id : ids, kind : {"key", "detach"}])
  BY DEF KeyInv, PathTypeOK, ClientTypeOK
<1>2. /\ Head(toDaemon) = toDaemon[1] /\ 1 \in 1..Len(toDaemon)
      /\ toDaemon' \in Seq([id : ids, kind : {"key", "detach"}])
      /\ Len(toDaemon') = Len(toDaemon) - 1 /\ Len(toDaemon) \in Nat
      /\ \A i \in 1..Len(toDaemon') : i + 1 \in 1..Len(toDaemon) /\ i + 1 # 1 /\ toDaemon'[i] = toDaemon[i + 1]
  BY <1>1
<1>3. /\ Head(toDaemon).id \in ids /\ verdict[Head(toDaemon).id] = "none"
      /\ dispatch[Head(toDaemon).id] = "idle" /\ caller[Head(toDaemon).id] \in {"wait", "returned"}
  BY <1>2, WireFacts DEF KeyInv, PathTypeOK, QueuedInv
<1>4. \A i \in 1..Len(toDaemon') : toDaemon'[i].id # Head(toDaemon).id
  BY <1>2 DEF KeyInv, QueuedInv
<1> QED BY <1>2, <1>3, <1>4

\* A request taken from the queue and judged, or given to the registry.
LEMMA TakenInv ==
  ASSUME KeyInv, toDaemon # <<>>, toDaemon' = Tail(toDaemon), handling = "select",
         request' = Head(toDaemon).id, UNCHANGED <<nextReq, kind, caller>>,
         \/ /\ \E v \in {"ok", "error"} : verdict' = [verdict EXCEPT ![Head(toDaemon).id] = v]
            /\ UNCHANGED dispatch /\ handling' \in {"answer", "return"}
         \/ /\ UNCHANGED verdict /\ handling' = "dispatch"
            /\ \E d \in {"acquire", "returned"} : dispatch' = [dispatch EXCEPT ![Head(toDaemon).id] = d]
  PROVE  CallerInv' /\ QueuedInv' /\ HandledInv' /\ \A id \in ids : verdict[id] # "none" => verdict'[id] = verdict[id]
<1>1. PICK r \in ids : r = Head(toDaemon).id
  BY HeadLeaves
<1>2. /\ verdict[r] = "none" /\ dispatch[r] = "idle" /\ caller[r] \in {"wait", "returned"}
      /\ Len(toDaemon') = Len(toDaemon) - 1 /\ Len(toDaemon) \in Nat
      /\ \A i \in 1..Len(toDaemon') :
           i + 1 \in 1..Len(toDaemon) /\ toDaemon'[i] = toDaemon[i + 1] /\ toDaemon'[i].id # r
  BY <1>1, HeadLeaves
<1>3. /\ verdict \in [ids -> {"none", "ok", "error"}]
      /\ dispatch \in [ids -> {"idle", "acquire", "acquired", "await", "returned"}]
  BY KeyIds DEF KeyInv, PathTypeOK, RegistryInv, RegistryTypeOK
<1>4. /\ request' = r
      /\ \/ /\ \E v \in {"ok", "error"} : verdict' = [verdict EXCEPT ![r] = v]
            /\ UNCHANGED dispatch /\ handling' \in {"answer", "return"}
         \/ /\ UNCHANGED verdict /\ handling' = "dispatch"
            /\ \E d \in {"acquire", "returned"} : dispatch' = [dispatch EXCEPT ![r] = d]
  BY <1>1
<1>5. \A id \in ids \ {r} : verdict'[id] = verdict[id] /\ dispatch'[id] = dispatch[id]
  BY <1>3, <1>4
<1>6. \A id \in ids : dispatch[id] \notin {"acquire", "acquired", "await"}
  BY DEF KeyInv, HandledInv
<1>7. CallerInv'
  BY <1>2, <1>5 DEF KeyInv, CallerInv
<1>8. QueuedInv'
  <2>1. \A i \in 1..Len(toDaemon') : toDaemon'[i].id \in ids \ {r}
    BY <1>2, WireFacts DEF KeyInv, PathTypeOK
  <2>2. ASSUME NEW i \in 1..Len(toDaemon')
        PROVE  /\ caller'[toDaemon'[i].id] \in {"wait", "returned"}
               /\ verdict'[toDaemon'[i].id] = "none" /\ dispatch'[toDaemon'[i].id] = "idle"
    BY <1>2, <1>5, <2>1 DEF KeyInv, QueuedInv
  <2>3. ASSUME NEW i \in 1..Len(toDaemon'), NEW j \in 1..Len(toDaemon'), toDaemon'[i].id = toDaemon'[j].id
        PROVE  i = j
    <3>1. i + 1 = j + 1
      BY <1>2, <2>3 DEF KeyInv, QueuedInv
    <3> QED BY <1>2, <3>1
  <2> QED BY <2>2, <2>3 DEF QueuedInv
<1>9. HandledInv'
  <2>1. CASE UNCHANGED dispatch /\ handling' \in {"answer", "return"} /\ verdict'[r] \in {"ok", "error"}
    BY <1>4, <1>6, <2>1 DEF HandledInv
  <2>2. CASE UNCHANGED verdict /\ handling' = "dispatch" /\ dispatch'[r] \in {"acquire", "returned"}
    BY <1>2, <1>4, <1>5, <1>6, <2>2 DEF HandledInv
  <2> QED BY <1>3, <1>4, <2>1, <2>2
<1> QED BY <1>2, <1>5, <1>7, <1>8, <1>9

\* The handler judges the request it has in hand and answers that one.
LEMMA HandlerInv ==
  ASSUME KeyInv, HandlerStep \/ closeActiveConn \/ Shutdown \/ Unbind
  PROVE  PathTypeOK' /\ CallerInv' /\ QueuedInv' /\ HandledInv' /\ AnswerInv'
<1> USE DEF KeyInv
<1>t. /\ verdict \in [ids -> {"none", "ok", "error"}] /\ serverOpen \in BOOLEAN /\ request \in ids \cup {0}
      /\ dispatch \in [ids -> {"idle", "acquire", "acquired", "await", "returned"}]
      /\ toDaemon \in Seq([id : ids, kind : {"key", "detach"}])
      /\ handling \in {"select", "dispatch", "answer", "return", "gone"}
  BY KeyIds DEF PathTypeOK, ClientTypeOK, RegistryInv, RegistryTypeOK
<1>1. UNCHANGED <<nextReq, kind, caller, returned, pending, response, reader, inHand, closed, clientOpen>>
  BY DEF HandlerStep, TakeKey, QueueOutcome, AnswerRequest, TakeDetach, HandlerLeaves, CloseConn,
         closeActiveConn, Shutdown, Unbind, DaemonSide, clientVars, wireVars
<1>2. bound' \in Actions \cup {Unbound} /\ serverOpen' \in BOOLEAN
  <2>1. bound' \in {bound, Unbound} /\ serverOpen' \in {serverOpen, FALSE}
    BY DEF HandlerStep, TakeKey, QueueOutcome, AnswerRequest, TakeDetach, HandlerLeaves, CloseConn,
         closeActiveConn, Shutdown, Unbind, wireVars
  <2> QED BY <1>t, <2>1 DEF PathTypeOK
<1>3. SUFFICES /\ handling' \in {"select", "dispatch", "answer", "return", "gone"}
               /\ request' \in ids \cup {0}
               /\ verdict' \in [ids -> {"none", "ok", "error"}]
               /\ toDaemon' \in Seq([id : ids, kind : {"key", "detach"}])
               /\ toClient' \in Seq([id : ids, answer : {"ok", "error"}])
               /\ CallerInv' /\ QueuedInv' /\ HandledInv' /\ AnswerInv'
  <2>1. {closed, clientOpen, serverOpen}' \subseteq BOOLEAN
    BY <1>1, <1>2 DEF PathTypeOK, ClientTypeOK
  <2> QED BY <1>1, <1>2, <2>1 DEF PathTypeOK, ClientTypeOK
<1>4. ASSUME UNCHANGED <<toClient, verdict>> PROVE AnswerInv' /\ toClient' \in Seq([id : ids, answer : {"ok", "error"}])
  BY <1>1, <1>4, AnswersStay
<1>5. CASE TakeKey
  <2>1. /\ handling = "select" /\ toDaemon # <<>> /\ toDaemon' = Tail(toDaemon)
        /\ request' = Head(toDaemon).id /\ UNCHANGED toClient
        /\ \/ /\ \E v \in {"ok", "error"} : verdict' = [verdict EXCEPT ![Head(toDaemon).id] = v]
              /\ UNCHANGED dispatch /\ handling' \in {"answer", "return"}
           \/ /\ UNCHANGED verdict /\ handling' = "dispatch"
              /\ \E d \in {"acquire", "returned"} : dispatch' = [dispatch EXCEPT ![Head(toDaemon).id] = d]
    BY <1>5 DEF TakeKey, Dispatch, Return, registryVars
  <2>2. /\ CallerInv' /\ QueuedInv' /\ HandledInv'
        /\ \A id \in ids : verdict[id] # "none" => verdict'[id] = verdict[id]
    BY <1>1, <2>1, TakenInv
  <2>3. AnswerInv' /\ toClient' \in Seq([id : ids, answer : {"ok", "error"}])
    BY <1>1, <2>1, <2>2, AnswersStay
  <2>4. request' \in ids /\ toDaemon' \in Seq([id : ids, kind : {"key", "detach"}])
    BY <2>1, HeadLeaves
  <2>5. verdict' \in [ids -> {"none", "ok", "error"}]
    BY <1>t, <2>1
  <2> QED BY <2>1, <2>2, <2>3, <2>4, <2>5
<1>6. CASE TakeDetach
  <2>1. /\ handling = "select" /\ toDaemon # <<>> /\ toDaemon' = Tail(toDaemon)
        /\ request' = Head(toDaemon).id /\ handling' = "return" /\ UNCHANGED dispatch
        /\ verdict' = [verdict EXCEPT ![Head(toDaemon).id] = "ok"]
        /\ UNCHANGED toClient \/ toClient' = Append(toClient, [id |-> Head(toDaemon).id, answer |-> "ok"])
    BY <1>6 DEF TakeDetach, registryVars
  <2>2. /\ CallerInv' /\ QueuedInv' /\ HandledInv'
        /\ \A id \in ids : verdict[id] # "none" => verdict'[id] = verdict[id]
    BY <1>1, <2>1, TakenInv
  <2>3. request' \in ids /\ toDaemon' \in Seq([id : ids, kind : {"key", "detach"}]) /\ Head(toDaemon).id \in ids
    BY <2>1, HeadLeaves
  <2>4. verdict' \in [ids -> {"none", "ok", "error"}] /\ verdict'[Head(toDaemon).id] = "ok"
    BY <1>t, <2>1, <2>3
  <2>5. AnswerInv' /\ toClient' \in Seq([id : ids, answer : {"ok", "error"}])
    BY <1>1, <2>1, <2>2, <2>3, <2>4, AnswersStay
  <2> QED BY <2>1, <2>2, <2>3, <2>4, <2>5
<1>7. CASE QueueOutcome
  <2>1. /\ handling = "dispatch" /\ dispatch[request] = "returned" /\ handling' = "answer"
        /\ \E v \in {"ok", "error"} : verdict' = [verdict EXCEPT ![request] = v]
        /\ UNCHANGED <<dispatch, request, toDaemon, toClient>>
    BY <1>7 DEF QueueOutcome, registryVars
  <2>2. request \in ids /\ verdict[request] = "none" /\ caller[request] \notin {"idle", "write"}
    BY <2>1 DEF HandledInv, CallerInv
  <2>3. /\ verdict' \in [ids -> {"none", "ok", "error"}] /\ verdict'[request] # "none"
        /\ \A id \in ids : id # request => verdict'[id] = verdict[id]
    BY <1>t, <2>1, <2>2
  <2>4. \A i \in 1..Len(toDaemon) : toDaemon[i].id \in ids /\ toDaemon[i].id # request
    BY <2>1, WireFacts DEF PathTypeOK, QueuedInv
  <2>5. CallerInv' /\ QueuedInv'
    BY <1>1, <2>1, <2>2, <2>3, <2>4 DEF CallerInv, QueuedInv
  <2>6. HandledInv'
    BY <1>t, <2>1, <2>2, <2>3 DEF HandledInv
  <2>7. AnswerInv' /\ toClient' \in Seq([id : ids, answer : {"ok", "error"}])
    BY <1>1, <2>1, <2>2, <2>3, AnswersStay
  <2> QED BY <1>t, <2>1, <2>3, <2>5, <2>6, <2>7
<1>8. CASE AnswerRequest
  <2>1. /\ handling = "answer" /\ handling' \in {"select", "return"}
        /\ UNCHANGED <<dispatch, request, verdict, toDaemon>>
        /\ UNCHANGED toClient \/ toClient' = Append(toClient, [id |-> request, answer |-> verdict[request]])
    BY <1>8 DEF AnswerRequest, registryVars
  <2>2. request \in ids /\ verdict[request] \in {"ok", "error"}
    BY <1>t, <2>1 DEF HandledInv
  <2>3. AnswerInv' /\ toClient' \in Seq([id : ids, answer : {"ok", "error"}])
    BY <1>1, <2>1, <2>2, AnswersStay
  <2>4. CallerInv' /\ QueuedInv' /\ HandledInv'
    BY <1>1, <2>1 DEF CallerInv, QueuedInv, HandledInv
  <2> QED BY <1>t, <2>1, <2>3, <2>4
<1>9. CASE HandlerLeaves \/ CloseConn
  <2>1. /\ handling \in {"select", "return"} /\ handling' \in {"return", "gone"}
        /\ UNCHANGED <<dispatch, request, verdict, toDaemon, toClient>>
    BY <1>9 DEF HandlerLeaves, CloseConn, registryVars
  <2>2. CallerInv' /\ QueuedInv' /\ HandledInv'
    BY <1>1, <2>1 DEF CallerInv, QueuedInv, HandledInv
  <2> QED BY <1>t, <1>4, <2>1, <2>2
<1>10. CASE closeActiveConn \/ Shutdown \/ Unbind
  <2>1. UNCHANGED <<dispatch, handling, request, verdict, toDaemon, toClient>>
    BY <1>10 DEF closeActiveConn, Shutdown, Unbind, registryVars, handlerVars, wireVars
  <2> QED BY <1>1, <1>t, <1>4, <2>1, OthersStutter
<1> QED BY <1>5, <1>6, <1>7, <1>8, <1>9, <1>10 DEF HandlerStep

\* The registry moves a Dispatch that is under way and no other.
LEMMA RegistryPathInv ==
  ASSUME KeyInv,
         \/ \E c \in ids : RegistryStep(c) \/ Deadline(c) \/ ActionHandler(c) \/ SlotStep(c)
         \/ \E a \in Actions : RegisterAction(a)
  PROVE  PathTypeOK' /\ CallerInv' /\ QueuedInv' /\ HandledInv' /\ AnswerInv'
<1> USE DEF KeyInv
<1>1. UNCHANGED <<clientVars, wireVars, bound, handling, request, verdict>>
  BY DEF RegistryStep, Deadline, ActionHandler, SlotStep, RegisterAction, Transport, handlerVars
<1>2. PathTypeOK' /\ AnswerInv'
  BY <1>1 DEF PathTypeOK, ClientTypeOK, AnswerInv, clientVars, wireVars
<1>3. dispatch \in [ids -> {"idle", "acquire", "acquired", "await", "returned"}]
  BY KeyIds DEF RegistryInv, RegistryTypeOK
<1>4. CASE UNCHANGED dispatch
  BY <1>1, <1>2, <1>4, OthersStutter DEF clientVars, wireVars
<1>5. ASSUME NEW c \in ids, DispatchStep(c) PROVE CallerInv' /\ QueuedInv' /\ HandledInv'
  <2>1. /\ dispatch[c] \in {"acquire", "acquired", "await"}
        /\ \E d \in {"acquired", "await", "returned"} : dispatch' = [dispatch EXCEPT ![c] = d]
    BY <1>5 DEF DispatchStep, AcquireSlot, AbandonSlotWait, ReturnSlot, StartHandler, ReceiveDone,
       AbandonHandler, Return
  <2>2. /\ dispatch'[c] \in {"acquired", "await", "returned"}
        /\ \A id \in ids \ {c} : dispatch'[id] = dispatch[id]
    BY <1>3, <2>1
  <2>3. handling = "dispatch" /\ request = c /\ caller[c] \notin {"idle", "write"}
    BY <2>1 DEF HandledInv, CallerInv
  <2>4. \A i \in 1..Len(toDaemon) : toDaemon[i].id \in ids /\ toDaemon[i].id # c
    BY <2>1, WireFacts DEF PathTypeOK, QueuedInv
  <2>5. UNCHANGED <<nextReq, kind, caller, toDaemon, handling, request, verdict>>
    BY <1>1 DEF clientVars, wireVars
  <2>6. CallerInv' /\ QueuedInv'
    BY <2>2, <2>3, <2>4, <2>5 DEF CallerInv, QueuedInv
  <2>7. HandledInv'
    BY <2>2, <2>3, <2>5 DEF HandledInv
  <2> QED BY <2>6, <2>7
<1>6. UNCHANGED dispatch \/ \E c \in ids : DispatchStep(c)
  BY DEF RegistryStep, Deadline, ActionHandler, SlotStep, RegisterAction, Register, Expire,
         HandlerReturns, ReleaseSlot
<1> QED BY <1>2, <1>4, <1>5, <1>6

\* Every step keeps the invariant.
LEMMA KeyNextInv == ASSUME KeyInv, [Next]_vars PROVE KeyInv'
<1>0. RegistryInv'
  BY NextInv DEF KeyInv
<1>1. CASE Press \/ Close
  BY <1>0, <1>1, PressInv DEF Press, Close, KeyInv
<1>2. CASE ReadLoop \/ CloseEnds
  BY <1>0, <1>2, ReaderInv DEF KeyInv
<1>3. CASE HandlerStep \/ Shutdown \/ closeActiveConn \/ Unbind
  BY <1>0, <1>3, HandlerInv DEF KeyInv
<1>4. ASSUME NEW id \in ids, ClientStep(id) PROVE KeyInv'
  BY <1>0, <1>4, CallerStepInv DEF KeyInv
<1>5. CASE \/ \E c \in ids : RegistryStep(c) \/ Deadline(c) \/ ActionHandler(c) \/ SlotStep(c)
           \/ \E a \in Actions : RegisterAction(a)
  BY <1>0, <1>5, RegistryPathInv DEF KeyInv
<1>6. CASE UNCHANGED vars
  <2>1. /\ UNCHANGED <<clientVars, wireVars, bound, handling, request, verdict>> /\ UNCHANGED dispatch
    BY <1>6 DEF vars, handlerVars, registryVars
  <2> QED BY <1>0, <2>1 DEF KeyInv, PathTypeOK, ClientTypeOK, CallerInv, QueuedInv, HandledInv,
             AnswerInv, clientVars, wireVars
<1> QED BY <1>1, <1>2, <1>3, <1>4, <1>5, <1>6 DEF Next

\* The invariant holds of every reachable state.
LEMMA KeyInvHolds == Spec => []KeyInv
  BY KeyInitInv, KeyNextInv, PTL DEF Spec

\* Every variable of the key path stays within its type (ipc/client.go,
\* daemon/daemon.go, runtime/actions.go).
THEOREM KeyTypeCorrect == Spec => []TypeOK
<1>1. KeyInv => TypeOK
  BY DEF KeyInv, RegistryInv, PathTypeOK, TypeOK
<1> QED BY <1>1, KeyInvHolds, PTL

\* A request returns the daemon's verdict on it, however late the answers of
\* earlier requests arrive, and one whose answer has been received is not
\* reported as a lost connection (ipc/client.go:231-241, 312-328).
THEOREM AnswersOwn == Spec => AnswersAreOwn
<1>1. ASSUME KeyInv, [Next]_vars, NEW id \in ids, caller[id] # "returned", caller'[id] = "returned"
      PROVE  /\ returned'[id] \in {"ok", "error"} => returned'[id] = verdict[id]
             /\ returned'[id] = "closed" => response[id] \in {"none", "closed"}
  <2>t. /\ caller \in [ids -> {"idle", "write", "wait", "returned"}]
        /\ returned \in [ids -> Answers \cup {"none", "timeout"}]
        /\ response \in [ids -> {"ok", "error", "closed", "none"}] /\ verdict \in [ids -> {"none", "ok", "error"}]
    BY <1>1 DEF KeyInv, PathTypeOK, ClientTypeOK, Answers
  <2>u. caller[id] \in {"idle", "write"} => response[id] \in {"none", "closed"}
    BY <1>1, <2>t DEF KeyInv, CallerInv, AnswerInv
  <2>1. CASE Press \/ Close
    <3>1. PICK k \in {"key", "detach"} : requestMessage(k)
      BY <2>1 DEF Press, Close
    <3>2. nextReq + 1 \in ids /\ caller[nextReq + 1] = "idle"
      <4>1. nextReq \in Nat /\ nextReq + 1 \in ids /\ nextReq + 1 > nextReq
        BY <1>1, <3>1, RequestsAssumption DEF requestMessage, KeyInv, PathTypeOK, ClientTypeOK, ids
      <4> QED BY <1>1, <4>1 DEF KeyInv, CallerInv
    <3>3. id = nextReq + 1 /\ returned'[id] = "closed"
      BY <1>1, <2>t, <3>1, <3>2 DEF requestMessage, RequestReturns
    <3> QED BY <2>u, <3>2, <3>3
  <2>2. CASE \E c \in ids : ClientStep(c)
    <3>1. PICK c \in ids : ClientStep(c)
      BY <2>2
    <3>2. c = id
      BY <1>1, <2>t, <3>1 DEF ClientStep, RequestStep, Write, TakeResponse, RequestTimeout, SeeClosed,
         RequestReturns
    <3>3. \/ returned'[id] = "closed" /\ caller[id] = "write"
          \/ returned'[id] = "timeout"
          \/ returned'[id] = response[id]
          \/ returned'[id] = "closed" /\ response[id] = "none"
      BY <1>1, <2>t, <3>1, <3>2 DEF ClientStep, RequestStep, Write, TakeResponse, RequestTimeout, SeeClosed,
         RequestReturns
    <3> QED BY <1>1, <2>t, <2>u, <3>3 DEF KeyInv, AnswerInv
  <2>3. CASE UNCHANGED caller
    BY <1>1, <2>3
  <2>4. ASSUME ReadLoop \/ CloseEnds \/ HandlerStep \/ Shutdown \/ closeActiveConn \/ Unbind
        PROVE  UNCHANGED caller
    BY <2>4 DEF ReadLoop, CloseEnds, ReaderStep, Receive, Resolve, EndOfStream, failAll, ReaderFinishes,
       CloseFinishes, finish, HandlerStep, TakeKey, QueueOutcome, AnswerRequest, TakeDetach, HandlerLeaves,
       CloseConn, Shutdown, closeActiveConn, Unbind, DaemonSide, clientVars
  <2>5. ASSUME \/ \E c \in ids : RegistryStep(c) \/ Deadline(c) \/ ActionHandler(c) \/ SlotStep(c)
               \/ \E a \in Actions : RegisterAction(a)
        PROVE  UNCHANGED caller
    BY <2>5 DEF RegistryStep, Deadline, ActionHandler, SlotStep, RegisterAction, Transport, clientVars
  <2>6. UNCHANGED vars => UNCHANGED caller
    BY DEF vars, clientVars
  <2> QED BY <1>1, <2>1, <2>2, <2>3, <2>4, <2>5, <2>6 DEF Next
<1>2. KeyInv /\ [Next]_vars =>
        [\A id \in ids : caller[id] # "returned" /\ caller'[id] = "returned" =>
           /\ returned'[id] \in {"ok", "error"} => returned'[id] = verdict[id]
           /\ returned'[id] = "closed" => response[id] \in {"none", "closed"}]_vars
  BY <1>1
<1> QED BY <1>2, KeyInvHolds, PTL DEF Spec, AnswersAreOwn

------------------------------------------------------------------------------
(* Outcomes. OutcomeAnnounced looks at what has been told; the invariant     *)
(* also has what is about to be told, a Dispatch that has returned.          *)

Justified(c) ==
  /\ outcome[c] = "action_result" => done[c] = "nil"
  /\ outcome[c] = "failed" => done[c] = "error"
  /\ outcome[c] = "timeout" => c \in expired
  /\ outcome[c] = "cancelled" => c \in cancelled
  /\ outcome[c] = "not_permitted" => worker[c] = "none"

\* A handler that goes on has no result, and what a Dispatch returned stays true.
OutcomeInv ==
  \A c \in Calls :
    /\ worker[c] \in {"none", "running"} => done[c] = "none"
    /\ dispatch[c] = "returned" => outcome[c] \in Outcomes /\ Justified(c)

\* The events name Dispatches that have returned, with what they returned, ...
ToldInv ==
  /\ accepted \in Seq([ev : Outcomes, id : ids])
  /\ \A i \in 1..Len(accepted) :
       dispatch[accepted[i].id] = "returned" /\ accepted[i].ev = outcome[accepted[i].id]

\* ... each of them once, and exactly those whose request was accepted.
ToldOnce ==
  /\ \A i, j \in 1..Len(accepted) : accepted[i].id = accepted[j].id => i = j
  /\ \A id \in ids :
       (verdict[id] = "ok" /\ dispatch[id] = "returned") <=> \E i \in 1..Len(accepted) : accepted[i].id = id

TellInv == KeyInv /\ OutcomeInv /\ ToldInv /\ ToldOnce

\* A Dispatch that returns has a reason, and one that has returned keeps it.
LEMMA OutcomeStep ==
  ASSUME RegistryInv, OutcomeInv,
         \/ \E c \in Calls : \E a : Dispatch(c, a)
         \/ \E c \in Calls : DispatchStep(c) \/ Expire(c) \/ ReleaseSlot(c) \/ \E r \in {"nil", "error"} : HandlerReturns(c, r)
         \/ \E a : Register(a)
         \/ cancelled' = Calls /\ UNCHANGED <<handlers, dispatch, sem, worker, done, outcome, expired>>
         \/ UNCHANGED registryVars
  PROVE  /\ OutcomeInv'
         /\ \A c \in Calls : dispatch[c] = "returned" => dispatch'[c] = "returned" /\ outcome'[c] = outcome[c]
<1> USE DEF RegistryInv
<1>t. /\ dispatch \in [Calls -> {"idle", "acquire", "acquired", "await", "returned"}]
      /\ worker \in [Calls -> {"none", "running", "sent", "gone"}]
      /\ done \in [Calls -> {"none", "nil", "error"}]
      /\ outcome \in [Calls -> Outcomes \cup {"none"}]
      /\ cancelled \subseteq Calls /\ expired \subseteq Calls
  BY DEF RegistryTypeOK
<1>1. ASSUME NEW c \in Calls, NEW a, Dispatch(c, a)
      PROVE  /\ OutcomeInv'
             /\ \A e \in Calls : dispatch[e] = "returned" => dispatch'[e] = "returned" /\ outcome'[e] = outcome[e]
  <2>1. /\ dispatch[c] = "idle" /\ UNCHANGED <<worker, done, expired, cancelled>>
        /\ \/ dispatch' = [dispatch EXCEPT ![c] = "acquire"] /\ UNCHANGED outcome
           \/ /\ dispatch' = [dispatch EXCEPT ![c] = "returned"]
              /\ \/ outcome' = [outcome EXCEPT ![c] = "not_permitted"]
                 \/ c \in cancelled /\ outcome' = [outcome EXCEPT ![c] = "cancelled"]
    BY <1>1 DEF Dispatch, Return
  <2>2. worker[c] = "none"
    BY <2>1 DEF NotStarted
  <2> QED BY <1>t, <2>1, <2>2 DEF OutcomeInv, Justified, Outcomes
<1>2. ASSUME NEW c \in Calls, DispatchStep(c)
      PROVE  /\ OutcomeInv'
             /\ \A e \in Calls : dispatch[e] = "returned" => dispatch'[e] = "returned" /\ outcome'[e] = outcome[e]
  <2>1. CASE AcquireSlot(c)
    BY <1>t, <2>1 DEF AcquireSlot, OutcomeInv, Justified
  <2>2. CASE StartHandler(c)
    <3>1. /\ dispatch[c] = "acquired" /\ worker[c] = "none"
          /\ dispatch' = [dispatch EXCEPT ![c] = "await"] /\ worker' = [worker EXCEPT ![c] = "running"]
          /\ UNCHANGED <<done, outcome, expired, cancelled>>
      BY <2>2 DEF StartHandler, NotStarted
    <3> QED BY <1>t, <3>1 DEF OutcomeInv, Justified
  <2>3. CASE AbandonSlotWait(c) \/ ReturnSlot(c) \/ AbandonHandler(c) \/ ReceiveDone(c)
    <3>1. /\ dispatch[c] \in {"acquire", "acquired", "await"} /\ UNCHANGED <<worker, done, expired, cancelled>>
          /\ dispatch' = [dispatch EXCEPT ![c] = "returned"]
      BY <2>3 DEF AbandonSlotWait, ReturnSlot, AbandonHandler, ReceiveDone, Return
    <3>2. ContextDone(c) => \/ classifyContext(c) = "cancelled" /\ c \in cancelled
                            \/ classifyContext(c) = "timeout" /\ c \in expired
      BY <3>1 DEF ContextDone, classifyContext
    <3>3. \/ c \in cancelled /\ outcome' = [outcome EXCEPT ![c] = "cancelled"]
          \/ c \in expired /\ outcome' = [outcome EXCEPT ![c] = "timeout"]
          \/ done[c] = "nil" /\ outcome' = [outcome EXCEPT ![c] = "action_result"]
          \/ done[c] = "error" /\ outcome' = [outcome EXCEPT ![c] = "failed"]
      BY <1>t, <2>3, <3>2 DEF AbandonSlotWait, ReturnSlot, AbandonHandler, ReceiveDone, Return
    <3> QED BY <1>t, <3>1, <3>3 DEF OutcomeInv, Justified, Outcomes
  <2> QED BY <1>2, <2>1, <2>2, <2>3 DEF DispatchStep
<1>3. ASSUME NEW c \in Calls, Expire(c) \/ ReleaseSlot(c)
      PROVE  OutcomeInv' /\ UNCHANGED <<dispatch, outcome>>
  BY <1>t, <1>3 DEF Expire, ReleaseSlot, OutcomeInv, Justified
<1>4. ASSUME NEW c \in Calls, NEW r \in {"nil", "error"}, HandlerReturns(c, r)
      PROVE  OutcomeInv' /\ UNCHANGED <<dispatch, outcome>>
  <2>1. /\ worker[c] = "running" /\ worker' = [worker EXCEPT ![c] = "sent"]
        /\ done[c] = "none" /\ done' = [done EXCEPT ![c] = r]
        /\ UNCHANGED <<dispatch, outcome, expired, cancelled>>
    BY <1>4 DEF HandlerReturns, OutcomeInv
  <2> QED BY <1>t, <2>1 DEF OutcomeInv, Justified
<1>5. CASE (\E a : Register(a)) \/ UNCHANGED registryVars
  BY <1>5 DEF Register, registryVars, OutcomeInv, Justified
<1>6. CASE cancelled' = Calls /\ UNCHANGED <<handlers, dispatch, sem, worker, done, outcome, expired>>
  BY <1>6 DEF OutcomeInv, Justified
<1> QED BY <1>1, <1>2, <1>3, <1>4, <1>5, <1>6

\* What every step does to the registry.
LEMMA OutcomeNext ==
  ASSUME KeyInv, OutcomeInv, [Next]_vars
  PROVE  /\ OutcomeInv'
         /\ \A c \in ids : dispatch[c] = "returned" => dispatch'[c] = "returned" /\ outcome'[c] = outcome[c]
<1>1. \/ \E c \in Calls : \E a : Dispatch(c, a)
      \/ \E c \in Calls : DispatchStep(c) \/ Expire(c) \/ ReleaseSlot(c) \/ \E r \in {"nil", "error"} : HandlerReturns(c, r)
      \/ \E a : Register(a)
      \/ cancelled' = Calls /\ UNCHANGED <<handlers, dispatch, sem, worker, done, outcome, expired>>
      \/ UNCHANGED registryVars
  <2>1. CASE Press \/ Close \/ ReadLoop \/ CloseEnds \/ Unbind
    BY <2>1 DEF Press, Close, ReadLoop, CloseEnds, Unbind, Elsewhere
  <2>2. CASE TakeKey
    <3>1. Head(toDaemon).id \in Calls
      BY <2>2, HeadLeaves, KeyIds DEF TakeKey
    <3>2. UNCHANGED registryVars \/ Dispatch(Head(toDaemon).id, bound)
      BY <2>2 DEF TakeKey
    <3> QED BY <3>1, <3>2
  <2>3. CASE QueueOutcome \/ AnswerRequest \/ TakeDetach \/ HandlerLeaves \/ CloseConn \/ closeActiveConn
    BY <2>3 DEF QueueOutcome, AnswerRequest, TakeDetach, HandlerLeaves, CloseConn, closeActiveConn
  <2>4. CASE Shutdown
    BY <2>4 DEF Shutdown
  <2>5. ASSUME NEW id \in ids, ClientStep(id) PROVE UNCHANGED registryVars
    BY <2>5 DEF ClientStep, Elsewhere
  <2>6. ASSUME NEW id \in ids, RegistryStep(id) \/ Deadline(id) \/ ActionHandler(id) \/ SlotStep(id)
        PROVE  DispatchStep(id) \/ Expire(id) \/ ReleaseSlot(id) \/ \E r \in {"nil", "error"} : HandlerReturns(id, r)
    BY <2>6 DEF RegistryStep, Deadline, ActionHandler, SlotStep
  <2>7. ASSUME NEW a \in Actions, RegisterAction(a) PROVE Register(a)
    BY <2>7 DEF RegisterAction
  <2>8. CASE UNCHANGED vars
    BY <2>8 DEF vars
  <2> QED BY <2>1, <2>2, <2>3, <2>4, <2>5, <2>6, <2>7, <2>8, KeyIds DEF Next, HandlerStep
<1> QED BY <1>1, OutcomeStep, KeyIds DEF KeyInv

\* The events are about requests.
LEMMA ToldIds == ASSUME ToldInv PROVE \A i \in 1..Len(accepted) : accepted[i].id \in ids
<1>1. accepted \in Seq([ev : Outcomes, id : ids])
  BY DEF ToldInv
<1>2. \A i \in 1..Len(accepted) : accepted[i] \in [ev : Outcomes, id : ids]
  BY <1>1, Element
<1> QED BY <1>2

\* A step that tells nothing leaves the agent as well informed as before.
LEMMA NothingTold ==
  ASSUME TellInv, UNCHANGED accepted,
         \A c \in ids : dispatch[c] = "returned" => dispatch'[c] = "returned" /\ outcome'[c] = outcome[c],
         \A id \in ids : (verdict'[id] = "ok" /\ dispatch'[id] = "returned")
                         <=> (verdict[id] = "ok" /\ dispatch[id] = "returned")
  PROVE  ToldInv' /\ ToldOnce'
<1>1. \A i \in 1..Len(accepted) : accepted[i].id \in ids
  BY ToldIds DEF TellInv
<1> QED BY <1>1 DEF TellInv, ToldInv, ToldOnce

\* The event of a Dispatch is queued while its request has no verdict.
LEMMA OneTold ==
  ASSUME TellInv, request \in ids, verdict[request] = "none", dispatch[request] = "returned",
         accepted' = accepted \o <<[ev |-> outcome[request], id |-> request]>>,
         verdict' = [verdict EXCEPT ![request] = "ok"], UNCHANGED <<dispatch, outcome>>
  PROVE  ToldInv' /\ ToldOnce'
<1>1. outcome[request] \in Outcomes
  BY KeyIds DEF TellInv, OutcomeInv
<1>2. PICK m \in [ev : Outcomes, id : ids] : m = [ev |-> outcome[request], id |-> request]
  BY <1>1
<1>3. m.id = request /\ m.ev = outcome[request]
  BY <1>2
<1>4. /\ accepted \in Seq([ev : Outcomes, id : ids]) /\ accepted' = accepted \o <<m>>
      /\ verdict \in [ids -> {"none", "ok", "error"}]
  BY <1>2 DEF TellInv, ToldInv, KeyInv, PathTypeOK
<1>5. /\ accepted' \in Seq([ev : Outcomes, id : ids])
      /\ Len(accepted') = Len(accepted) + 1 /\ Len(accepted) \in Nat
      /\ \A i \in 1..Len(accepted) : accepted'[i] = accepted[i]
      /\ accepted'[Len(accepted) + 1] = m
  BY <1>4
<1>6. \A i \in 1..Len(accepted') : \/ i \in 1..Len(accepted) /\ accepted'[i] = accepted[i]
                                   \/ i = Len(accepted) + 1 /\ accepted'[i] = m
  BY <1>5
<1>7. \A i \in 1..Len(accepted) : accepted[i].id # request
  BY DEF TellInv, ToldOnce
<1>8. ToldInv'
  BY <1>3, <1>5, <1>6 DEF TellInv, ToldInv
<1>9. \A i, j \in 1..Len(accepted') : accepted'[i].id = accepted'[j].id => i = j
  BY <1>3, <1>6, <1>7 DEF TellInv, ToldOnce
<1>10. ASSUME NEW id \in ids
       PROVE  (verdict'[id] = "ok" /\ dispatch'[id] = "returned")
              <=> \E i \in 1..Len(accepted') : accepted'[i].id = id
  <2>1. CASE id = request
    <3>1. Len(accepted) + 1 \in 1..Len(accepted') /\ accepted'[Len(accepted) + 1].id = id
      BY <1>3, <1>5, <2>1
    <3> QED BY <1>4, <2>1, <3>1
  <2>2. CASE id # request
    <3>1. verdict'[id] = verdict[id]
      BY <1>4, <2>2
    <3>2. (\E i \in 1..Len(accepted') : accepted'[i].id = id) <=> \E i \in 1..Len(accepted) : accepted[i].id = id
      <4>1. ASSUME NEW i \in 1..Len(accepted) PROVE i \in 1..Len(accepted') /\ accepted'[i] = accepted[i]
        BY <1>5
      <4> QED BY <1>3, <1>6, <2>2, <4>1
    <3> QED BY <3>1, <3>2 DEF TellInv, ToldOnce
  <2> QED BY <2>1, <2>2
<1> QED BY <1>8, <1>9, <1>10 DEF ToldOnce

\* Every step keeps the invariant.
LEMMA TellNextInv == ASSUME TellInv, [Next]_vars PROVE TellInv'
<1> USE DEF TellInv
<1>1. KeyInv'
  BY KeyNextInv
<1>2. /\ OutcomeInv'
      /\ \A c \in ids : dispatch[c] = "returned" => dispatch'[c] = "returned" /\ outcome'[c] = outcome[c]
  BY OutcomeNext
<1>t. /\ verdict \in [ids -> {"none", "ok", "error"}]
      /\ dispatch \in [ids -> {"idle", "acquire", "acquired", "await", "returned"}]
  BY KeyIds DEF KeyInv, PathTypeOK, RegistryInv, RegistryTypeOK
<1>3. SUFFICES ToldInv' /\ ToldOnce'
  BY <1>1, <1>2
<1>4. ASSUME UNCHANGED <<accepted, verdict, dispatch>> PROVE ToldInv' /\ ToldOnce'
  BY <1>2, <1>4, NothingTold
<1>5. ASSUME Press \/ Close \/ ReadLoop \/ CloseEnds \/ Unbind \/ Shutdown \/ closeActiveConn
             \/ AnswerRequest \/ HandlerLeaves \/ CloseConn \/ UNCHANGED vars
             \/ \E id \in ids : ClientStep(id)
      PROVE  UNCHANGED <<accepted, verdict, dispatch>>
  BY <1>5 DEF Press, Close, ReadLoop, CloseEnds, Unbind, Shutdown, closeActiveConn, AnswerRequest, HandlerLeaves,
     CloseConn, ClientStep, vars, Elsewhere, brokerVars, registryVars, handlerVars
<1>6. CASE TakeKey \/ TakeDetach
  <2>1. PICK r \in ids : r = Head(toDaemon).id /\ verdict[r] = "none" /\ dispatch[r] = "idle"
    BY <1>6, HeadLeaves DEF TakeKey, TakeDetach
  <2>2. /\ UNCHANGED accepted
        /\ \/ verdict' = [verdict EXCEPT ![r] = "ok"] /\ UNCHANGED dispatch
           \/ UNCHANGED verdict /\ \E d \in {"acquire", "returned"} : dispatch' = [dispatch EXCEPT ![r] = d]
    BY <1>6, <2>1 DEF TakeKey, TakeDetach, Dispatch, Return, registryVars, brokerVars
  <2>3. \A id \in ids : (verdict'[id] = "ok" /\ dispatch'[id] = "returned")
                        <=> (verdict[id] = "ok" /\ dispatch[id] = "returned")
    BY <1>t, <2>1, <2>2
  <2> QED BY <1>2, <2>2, <2>3, NothingTold
<1>7. CASE QueueOutcome
  <2>1. /\ request \in ids /\ verdict[request] = "none" /\ dispatch[request] = "returned"
        /\ UNCHANGED <<dispatch, outcome>>
    BY <1>7 DEF QueueOutcome, KeyInv, HandledInv, registryVars
  <2>2. \/ /\ accepted' = accepted \o <<[ev |-> outcome[request], id |-> request]>>
           /\ verdict' = [verdict EXCEPT ![request] = "ok"]
        \/ UNCHANGED accepted /\ verdict' = [verdict EXCEPT ![request] = "error"]
    BY <1>7 DEF QueueOutcome, EnqueueCritical, AppendCritical, RejectCritical, brokerVars
  <2>3. CASE UNCHANGED accepted /\ verdict' = [verdict EXCEPT ![request] = "error"]
    BY <1>2, <1>t, <2>1, <2>3, NothingTold
  <2> QED BY <2>1, <2>2, <2>3, OneTold
<1>8. ASSUME NEW c \in ids, RegistryStep(c) \/ Deadline(c) \/ ActionHandler(c) \/ SlotStep(c)
      PROVE  ToldInv' /\ ToldOnce'
  <2>1. UNCHANGED <<accepted, verdict>>
    BY <1>8 DEF RegistryStep, Deadline, ActionHandler, SlotStep, Transport, brokerVars, handlerVars
  <2>2. CASE UNCHANGED dispatch
    BY <1>4, <2>1, <2>2
  <2>3. CASE DispatchStep(c)
    <3>1. /\ dispatch[c] \in {"acquire", "acquired", "await"}
          /\ \E d \in {"acquired", "await", "returned"} : dispatch' = [dispatch EXCEPT ![c] = d]
      BY <2>3 DEF DispatchStep, AcquireSlot, AbandonSlotWait, ReturnSlot, StartHandler, ReceiveDone,
         AbandonHandler, Return
    <3>2. verdict[c] = "none"
      BY <3>1 DEF KeyInv, HandledInv
    <3> QED BY <1>2, <1>t, <2>1, <3>1, <3>2, NothingTold
  <2> QED BY <1>8, <2>2, <2>3 DEF RegistryStep, Deadline, ActionHandler, SlotStep, Expire, HandlerReturns, ReleaseSlot
<1>9. ASSUME NEW a \in Actions, RegisterAction(a) PROVE UNCHANGED <<accepted, verdict, dispatch>>
  BY <1>9 DEF RegisterAction, Register, Transport, brokerVars, handlerVars
<1> QED BY <1>4, <1>5, <1>6, <1>7, <1>8, <1>9 DEF Next, HandlerStep

\* What the agent is told about an action is what happened to it, and it is
\* told once for every request the daemon accepted for a bound key and never
\* for one it refused (engine/engine.go:302-314, runtime/actions.go:83-137).
THEOREM OutcomesAnnounced == Spec => []OutcomeAnnounced
<1>1. Init => TellInv
  <2> SUFFICES ASSUME Init PROVE TellInv
    OBVIOUS
  <2>1. OutcomeInv
    BY DEF Init, RegistryInit, OutcomeInv
  <2>2. accepted = <<>> /\ verdict = [id \in ids |-> "none"]
    BY DEF Init, BrokerInit
  <2>3. ToldInv /\ ToldOnce
    <3>1. accepted \in Seq([ev : Outcomes, id : ids]) /\ 1..Len(accepted) = {}
      BY <2>2
    <3> QED BY <2>2, <3>1 DEF ToldInv, ToldOnce
  <2> QED BY <2>1, <2>3, KeyInitInv DEF TellInv
<1>2. TellInv /\ [Next]_vars => TellInv'
  BY TellNextInv
<1>3. TellInv => OutcomeAnnounced
  <2> SUFFICES ASSUME TellInv PROVE OutcomeAnnounced
    OBVIOUS
  <2>1. ASSUME NEW id \in ids
        PROVE  Cardinality({i \in 1..Len(accepted) : accepted[i].id = id})
                 = IF verdict[id] = "ok" /\ dispatch[id] = "returned" THEN 1 ELSE 0
    <3>1. CASE verdict[id] = "ok" /\ dispatch[id] = "returned"
      <4>1. PICK i \in 1..Len(accepted) : accepted[i].id = id
        BY <3>1 DEF TellInv, ToldOnce
      <4>2. {j \in 1..Len(accepted) : accepted[j].id = id} = {i}
        BY <4>1 DEF TellInv, ToldOnce
      <4> QED BY <3>1, <4>2, FS_Singleton
    <3>2. CASE ~(verdict[id] = "ok" /\ dispatch[id] = "returned")
      <4>1. {j \in 1..Len(accepted) : accepted[j].id = id} = {}
        BY <3>2 DEF TellInv, ToldOnce
      <4> QED BY <3>2, <4>1, FS_EmptySet
    <3> QED BY <3>1, <3>2
  <2>2. ASSUME NEW i \in 1..Len(accepted)
        PROVE  /\ accepted[i].ev \in Outcomes
               /\ accepted[i].ev = "action_result" => done[accepted[i].id] = "nil"
               /\ accepted[i].ev = "failed" => done[accepted[i].id] = "error"
               /\ accepted[i].ev = "timeout" => accepted[i].id \in expired
               /\ accepted[i].ev = "cancelled" => accepted[i].id \in cancelled
               /\ accepted[i].ev = "not_permitted" => worker[accepted[i].id] = "none"
    <3>1. PICK c \in ids : c = accepted[i].id
      BY ToldIds DEF TellInv
    <3>2. dispatch[c] = "returned" /\ accepted[i].ev = outcome[c]
      BY <3>1 DEF TellInv, ToldInv
    <3> QED BY <3>1, <3>2, KeyIds DEF TellInv, OutcomeInv, Justified
  <2> QED BY <2>1, <2>2 DEF OutcomeAnnounced, Outcomes
<1> QED BY <1>1, <1>2, <1>3, PTL DEF Spec

==============================================================================
