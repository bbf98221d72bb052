------------------------- MODULE ExternalActorProofs -------------------------
(***************************************************************************)
(* Proofs about the external actor, for any requests and queue length.     *)
(*                                                                         *)
(* ActorInv is inductive: the health never becomes ready again, so one     *)
(* abandoned request, whose call is over, keeps it from being ready and    *)
(* every later request from passing the check; and every request that is   *)
(* queued or in the hands of the actor's goroutine was submitted once, is  *)
(* there once and has no answer yet.                                       *)
(***************************************************************************)
EXTENDS ExternalActor, TLAPS

\* Where a request may wait for its answer.
Waiting(r) == call[r] \in {"await", "returned"} /\ result[r] = "none"

InHand == loop \in {"check", "start", "execute"}

AbandonedDegrades ==
  \A r \in Requests : reply[r] = "abandoned" => call[r] = "returned" /\ health # "ready"

QueuedWait ==
  /\ \A i \in 1..Len(queue) : Waiting(queue[i])
  /\ \A i, j \in 1..Len(queue) : queue[i] = queue[j] => i = j

CurrentWaits ==
  InHand => /\ current \in Requests /\ Waiting(current)
            /\ \A i \in 1..Len(queue) : queue[i] # current

UnsubmittedFresh == \A r \in Requests : call[r] \in {"idle", "enqueue"} => result[r] = "none"

ActorInv == TypeOK /\ AbandonedDegrades /\ UnsubmittedFresh /\ QueuedWait /\ CurrentWaits

\* Initially nothing is queued, taken or abandoned.
LEMMA InitInv == Init => ActorInv
<1> SUFFICES ASSUME Init PROVE ActorInv
  OBVIOUS
<1>1. TypeOK
  <2>1. queue \in Seq(Requests)
    BY DEF Init
  <2>2. stop \in BOOLEAN
    BY Zenon DEF Init
  <2>3. /\ result \in [Requests -> Results \cup {"none"}]
        /\ call \in [Requests -> {"idle", "enqueue", "await", "returned"}]
        /\ reply \in [Requests -> Results \cup {"none", "context", "abandoned"}]
    BY DEF Init
  <2> QED BY <2>1, <2>2, <2>3 DEF Init, TypeOK
<1>3. AbandonedDegrades /\ UnsubmittedFresh /\ CurrentWaits
  BY DEF Init, AbandonedDegrades, UnsubmittedFresh, CurrentWaits, InHand
<1>2. QueuedWait
  <2>1. queue = <<>> /\ 1..Len(queue) = {}
    BY DEF Init
  <2> QED BY <2>1 DEF QueuedWait
<1> QED BY <1>1, <1>2, <1>3 DEF ActorInv

\* What the elements of a tail and of an appended queue are.
LEMMA QueueTail ==
  ASSUME queue \in Seq(Requests), queue # <<>>
  PROVE  /\ Head(queue) \in Requests /\ Head(queue) = queue[1] /\ 1 \in 1..Len(queue)
         /\ Tail(queue) \in Seq(Requests)
         /\ \A i \in 1..Len(Tail(queue)) :
              Tail(queue)[i] = queue[i + 1] /\ i + 1 \in 1..Len(queue) /\ i + 1 # 1
  OBVIOUS

\* A submitted request is the last one of the queue.
LEMMA QueueAppend ==
  ASSUME queue \in Seq(Requests), NEW r \in Requests
  PROVE  /\ Append(queue, r) \in Seq(Requests)
         /\ \A i \in 1..Len(Append(queue, r)) :
              \/ i \in 1..Len(queue) /\ Append(queue, r)[i] = queue[i]
              \/ i = Len(queue) + 1 /\ Append(queue, r)[i] = r
  OBVIOUS

\* A step of a caller keeps the invariant.
LEMMA CallInv == ASSUME ActorInv, NEW r \in Requests, CallStep(r) PROVE ActorInv'
<1> USE DEF ActorInv, TypeOK, AbandonedDegrades, UnsubmittedFresh, QueuedWait, CurrentWaits, InHand, Waiting, Results,
            CallReturns, loopVars, callVars
<1>1. CASE Call(r)
  <2>1. TypeOK'
    BY <1>1 DEF Call
  <2>2. AbandonedDegrades' /\ UnsubmittedFresh'
    BY <1>1 DEF Call
  <2>3. QueuedWait'
    BY <1>1 DEF Call
  <2>4. CurrentWaits'
    BY <1>1 DEF Call
  <2> QED BY <2>1, <2>2, <2>3, <2>4
<1>2. CASE Enqueue(r)
  <2>1. TypeOK'
    BY <1>2, QueueAppend DEF Enqueue
  <2>2. AbandonedDegrades' /\ UnsubmittedFresh' /\ CurrentWaits'
    BY <1>2, QueueAppend DEF Enqueue
  <2>3. Waiting(r)' /\ \A i \in 1..Len(queue) : queue[i] # r /\ Waiting(queue[i])'
    BY <1>2 DEF Enqueue
  <2>4. QueuedWait'
    BY <1>2, <2>3, QueueAppend DEF Enqueue
  <2> QED BY <2>1, <2>2, <2>4
<1>3. CASE EnqueueContext(r)
  BY <1>3 DEF EnqueueContext
<1>4. CASE AwaitResult(r)
  BY <1>4 DEF AwaitResult
<1>5. CASE CallStopped(r)
  BY <1>5 DEF CallStopped
<1>6. CASE AwaitContext(r)
  BY <1>6 DEF AwaitContext
<1> QED BY <1>1, <1>2, <1>3, <1>4, <1>5, <1>6 DEF CallStep

\* A step of the actor's goroutine or of Close keeps the invariant.
LEMMA LoopInv ==
  ASSUME ActorInv,
         Take \/ Check \/ StartExecutor \/ ExecutorEnds \/ SeeStop \/ Drain \/ CloseStores \/ CloseStops \/ CloseReturns
  PROVE  ActorInv'
<1> USE DEF ActorInv, TypeOK, AbandonedDegrades, UnsubmittedFresh, QueuedWait, CurrentWaits, InHand, Waiting, Results,
            Answer, loopVars, callVars
<1>1. CASE Take
  <2>1. TypeOK' /\ AbandonedDegrades' /\ UnsubmittedFresh'
    BY <1>1, QueueTail DEF Take
  <2>2. QueuedWait'
    BY <1>1, QueueTail DEF Take
  <2>3. CurrentWaits'
    BY <1>1, QueueTail DEF Take
  <2> QED BY <2>1, <2>2, <2>3
<1>2. CASE Check
  BY <1>2 DEF Check
<1>3. CASE ExecutorEnds
  BY <1>3 DEF ExecutorEnds
<1>4. CASE SeeStop
  BY <1>4 DEF SeeStop
<1>5. CASE Drain
  <2>1. CASE queue # <<>>
    <3>1. TypeOK'
      <4>1. /\ queue' \in Seq(Requests)
            /\ result' = [result EXCEPT ![Head(queue)] = "closed"] /\ Head(queue) \in Requests
            /\ UNCHANGED <<health, stop, loop, current, call, reply, closer>>
        BY <1>5, <2>1, QueueTail DEF Drain
      <4>2. result' \in [Requests -> Results \cup {"none"}]
        BY <4>1
      <4> QED BY <4>1, <4>2
    <3>4. AbandonedDegrades' /\ CurrentWaits'
      BY <1>5, <2>1 DEF Drain
    <3>2. UnsubmittedFresh'
      BY <1>5, <2>1, QueueTail DEF Drain
    <3>3. QueuedWait'
      <4>1. /\ queue' = Tail(queue) /\ result' = [result EXCEPT ![Head(queue)] = "closed"]
            /\ UNCHANGED call
        BY <1>5, <2>1 DEF Drain
      <4>2. \A i \in 1..Len(Tail(queue)) :
              call'[Tail(queue)[i]] \in {"await", "returned"} /\ result'[Tail(queue)[i]] = "none"
        <5> TAKE i \in 1..Len(Tail(queue))
        <5>1. Tail(queue)[i] # Head(queue)
          BY <2>1, QueueTail
        <5>2. Tail(queue)[i] \in Requests /\ Waiting(Tail(queue)[i])
          BY <2>1, QueueTail
        <5>3. result'[Tail(queue)[i]] = result[Tail(queue)[i]]
          BY <4>1, <5>1, <5>2
        <5> QED BY <4>1, <5>2, <5>3
      <4>3. \A i, j \in 1..Len(Tail(queue)) : Tail(queue)[i] = Tail(queue)[j] => i = j
        BY <2>1, QueueTail
      <4> QED BY <4>1, <4>2, <4>3
    <3> QED BY <3>1, <3>2, <3>3, <3>4
  <2>2. CASE queue = <<>>
    BY <1>5, <2>2 DEF Drain
  <2> QED BY <2>1, <2>2
<1>6. CASE CloseStores
  BY <1>6 DEF CloseStores
<1>7. CASE CloseStops
  BY <1>7 DEF CloseStops
<1>8. CASE CloseReturns
  BY <1>8 DEF CloseReturns
<1>9. CASE StartExecutor
  BY <1>9 DEF StartExecutor
<1> QED BY <1>1, <1>2, <1>3, <1>4, <1>5, <1>6, <1>7, <1>8, <1>9

\* A step that leaves every variable alone keeps the invariant.
LEMMA StutterInv == ActorInv /\ UNCHANGED vars => ActorInv'
  BY DEF ActorInv, TypeOK, AbandonedDegrades, UnsubmittedFresh, QueuedWait, CurrentWaits, InHand, Waiting,
         vars, loopVars, callVars

\* The invariant holds in every reachable state.
THEOREM ActorInvariant == Spec => []ActorInv
<1>1. ActorInv /\ [Next]_vars => ActorInv'
  BY CallInv, LoopInv, StutterInv DEF Next
<1> QED BY InitInv, <1>1, PTL DEF Spec

\* After a caller has given up only the command that had passed the check of the
\* health still runs; no other is ever started (actor.go:66-75, 137).
THEOREM AbandonedNeverAdmitted == Spec => AbandonedNotAdmitted
<1>1. ActorInv /\ GivenUp /\ ~Admitted /\ [Next]_vars => (GivenUp /\ ~Admitted)'
  <2> SUFFICES ASSUME ActorInv, GivenUp, ~Admitted, [Next]_vars
               PROVE  (GivenUp /\ ~Admitted)'
    OBVIOUS
  <2>1. health # "ready"
    BY DEF ActorInv, AbandonedDegrades, GivenUp
  <2>2. PICK r \in Requests : reply[r] = "abandoned" /\ call[r] = "returned"
    BY DEF ActorInv, AbandonedDegrades, GivenUp
  <2>3. reply'[r] = "abandoned"
    BY <2>2 DEF Next, CallStep, Call, Enqueue, EnqueueContext, AwaitResult, CallStopped, AwaitContext,
                CallReturns, Take, Check, StartExecutor, ExecutorEnds, SeeStop, Drain,
                CloseStores, CloseStops, CloseReturns, ActorInv, TypeOK, vars, callVars
  <2>4. ~Admitted'
    BY <2>1 DEF Next, CallStep, Call, Enqueue, EnqueueContext, AwaitResult, CallStopped, AwaitContext,
                Take, Check, StartExecutor, ExecutorEnds, SeeStop, Drain,
                CloseStores, CloseStops, CloseReturns, Admitted, vars, loopVars
  <2> QED BY <2>3, <2>4 DEF GivenUp
<1> QED BY ActorInvariant, <1>1, PTL DEF Spec, AbandonedNotAdmitted

\* The actor's goroutine never blocks on a result channel (actor.go:66-84).
THEOREM AnswersOnce == Spec => AnsweredOnce
<1>1. ActorInv /\ [Next]_vars =>
        [\A r \in Requests : result'[r] # result[r] => result[r] = "none"]_vars
  <2> SUFFICES ASSUME ActorInv, Next, NEW r \in Requests, result'[r] # result[r]
               PROVE  result[r] = "none"
    OBVIOUS
  <2>1. Check \/ ExecutorEnds \/ Drain
    BY DEF Next, CallStep, Call, Enqueue, EnqueueContext, AwaitResult, CallStopped, AwaitContext,
           Take, StartExecutor, SeeStop, CloseStores, CloseStops, CloseReturns
  <2>2. CASE Check \/ ExecutorEnds
    BY <2>2 DEF Check, ExecutorEnds, Answer, ActorInv, TypeOK, CurrentWaits, InHand, Waiting
  <2>3. CASE Drain
    BY <2>3, QueueTail DEF Drain, Answer, ActorInv, TypeOK, QueuedWait, Waiting
  <2> QED BY <2>1, <2>2, <2>3
<1> QED BY ActorInvariant, <1>1, PTL DEF Spec, AnsweredOnce

==============================================================================
