---------------------------- MODULE DaemonProofs -----------------------------
(***************************************************************************)
(* The daemon, its sockets and its terminals, for any number of            *)
(* connections, waiting requests and operations and any socket buffer.     *)
(*                                                                         *)
(* Three arguments, over one inductive invariant DaemonInv:                *)
(*  - the lease is with the one handler between ReadHello and its release, *)
(*    and detach_ack is written after the release (LeaseInv, DetachInv);   *)
(*  - every frame on a socket or in a cache was the engine's state once,   *)
(*    so its token stands for its content or is stale; every token on its  *)
(*    way back was sent after drawing the frame it belongs to. So whatever *)
(*    crosses on the way, PublishFrame publishes only what has been drawn  *)
(*    (FramesGood, TokensDrawn), each call of the engine is one EngineCall *)
(*    describes, and each of those is a step of the abstract barrier;      *)
(*  - PictureInv: snapshots travel in redraw order, so acceptSnapshot      *)
(*    refuses none, and the last one sent is the current state or another  *)
(*    one is due.                                                          *)
(***************************************************************************)
EXTENDS Daemon, EngineProofs

------------------------------------------------------------------------------
(* Types                                                                     *)

\* The message constructors, and the frames they carry.
LEMMA MessageTypes ==
  /\ \A kind \in {"hello", "interaction", "frame_published", "detach"} : \A n \in Nat :
       ClientMsg(kind, n) \in ClientMessage
  /\ \A kind \in {"hello_ack", "busy", "snapshot", "error", "detach_ack"} :
       \A f \in FrameType, req \in Nat : DaemonMsg(kind, f, req) \in DaemonMessage
  /\ NoFrame \in FrameType
  /\ EngineTypeOK => Snapshot \in FrameType
<1>1. NoFrame \in FrameType
  BY DEF NoFrame, FrameType
<1>2. EngineTypeOK => Snapshot \in FrameType
  BY DEF Snapshot, NeedsPublish, EngineTypeOK, FrameType
<1>3. \A kind \in {"hello", "interaction", "frame_published", "detach"} : \A n \in Nat :
        ClientMsg(kind, n) \in ClientMessage
  BY DEF ClientMsg, ClientMessage
<1>4. \A kind \in {"hello_ack", "busy", "snapshot", "error", "detach_ack"} :
        \A f \in FrameType, req \in Nat : DaemonMsg(kind, f, req) \in DaemonMessage
  BY DEF DaemonMsg, DaemonMessage
<1> QED BY <1>1, <1>2, <1>3, <1>4

\* Writes to and reads from a connection keep its queues sequences of messages.
LEMMA WriteType ==
  ASSUME ConnTypeOK, NEW c \in Conns, NEW msgs \in Seq(DaemonMessage), Write(c, msgs)
  PROVE  /\ toClient' \in [Conns -> Seq(DaemonMessage)]
         /\ toClient'[c] = toClient[c] \o msgs
         /\ \A d \in Conns \ {c} : toClient'[d] = toClient[d]
BY DEF ConnTypeOK, Write

\* An answer is a message of the daemon on its queue.
LEMMA AnswerType ==
  ASSUME ConnTypeOK, NEW c \in Conns, NEW msg \in DaemonMessage, Answer(c, msg)
  PROVE  toClient' \in [Conns -> Seq(DaemonMessage)]
<1>1. <<msg>> \in Seq(DaemonMessage)
  OBVIOUS
<1> QED BY <1>1, WriteType DEF Answer, ConnTypeOK

\* A record of the terminal is a message on its queue.
LEMMA SendType ==
  ASSUME ConnTypeOK, NEW c \in Conns, NEW msg \in ClientMessage, Send(c, msg)
  PROVE  toDaemon' \in [Conns -> Seq(ClientMessage)]
BY DEF ConnTypeOK, Send

\* What the handler reads has a number, and leaves a queue of messages.
LEMMA ReadType ==
  ASSUME ConnTypeOK, NEW c \in Conns, toDaemon[c] # <<>>
  PROVE  /\ Arg(c) \in Nat
         /\ [toDaemon EXCEPT ![c] = Tail(@)] \in [Conns -> Seq(ClientMessage)]
<1>1. toDaemon[c] \in Seq(ClientMessage)
  BY DEF ConnTypeOK
<1>2. Head(toDaemon[c]) \in ClientMessage /\ Tail(toDaemon[c]) \in Seq(ClientMessage)
  BY <1>1
<1> QED BY <1>1, <1>2 DEF ConnTypeOK, Arg, ClientMessage

\* What the reader takes is a message of the daemon, and leaves a queue of them.
LEMMA ReceiveType ==
  ASSUME ConnTypeOK, NEW c \in Conns, toClient[c] # <<>>, NEW n \in {1, 2}
  PROVE  /\ Received(c) \in DaemonMessage
         /\ [toClient EXCEPT ![c] = SubSeq(@, n + 1, Len(@))] \in [Conns -> Seq(DaemonMessage)]
<1>1. toClient[c] \in Seq(DaemonMessage)
  BY DEF ConnTypeOK
<1>2. Head(toClient[c]) \in DaemonMessage
  BY <1>1
<1>3. SubSeq(toClient[c], n + 1, Len(toClient[c])) \in Seq(DaemonMessage)
  BY <1>1
<1> QED BY <1>2, <1>3 DEF ConnTypeOK, Received

\* handleClient keeps the types of a connection.
LEMMA HandlerType ==
  ASSUME TypeOK, NEW c \in Conns, HandlerStep(c)
  PROVE  WaitTypeOK' /\ SessionTypeOK' /\ HubTypeOK' /\ ConnTypeOK' /\ TerminalTypeOK'
<1> USE DEF TypeOK
<1>t. TerminalTypeOK' /\ SessionTypeOK'
  <2>1. UNCHANGED <<clientVars, sessionVars>>
    BY DEF HandlerStep, ReadHello, SetActiveConn, Greet, TakeUpdate, WriteSnapshot, ReadDetach,
       ReleaseLease, AckDetach, ReadInteraction, RefuseInteraction, SignalInteraction,
       ReadFramePublished, PublishFrame, SignalPublished, HandlerReturns, HandlerEnds
  <2> QED BY <2>1 DEF TerminalTypeOK, clientVars, SessionTypeOK, sessionVars
<1>w. WaitTypeOK'
  <2>1. UNCHANGED waitVars \/ SignalEvents
    BY DEF HandlerStep, ReadHello, SetActiveConn, Greet, TakeUpdate, WriteSnapshot, ReadDetach,
       ReleaseLease, AckDetach, ReadInteraction, RefuseInteraction, SignalInteraction,
       ReadFramePublished, PublishFrame, SignalPublished, HandlerReturns, HandlerEnds
  <2> QED BY <2>1 DEF WaitTypeOK, waitVars, SignalEvents
<1>h. HubTypeOK'
  BY DEF HubTypeOK, hubVars, ClearActiveConn, Hangup, HandlerStep, ReadHello, SetActiveConn, Greet,
     TakeUpdate, WriteSnapshot, ReadDetach, ReleaseLease, AckDetach, ReadInteraction,
     RefuseInteraction, SignalInteraction, ReadFramePublished, PublishFrame, SignalPublished,
     HandlerReturns, HandlerEnds
<1>1. CASE ReadHello(c)
  <2>1. <<DaemonMsg("busy", NoFrame, 0)>> \in Seq(DaemonMessage)
    BY MessageTypes
  <2>2. toClient' \in [Conns -> Seq(DaemonMessage)]
    BY <1>1, <2>1, WriteType DEF ReadHello, ConnTypeOK
  <2>3. CASE lease = NoConn
    <3>1. toDaemon' = [toDaemon EXCEPT ![c] = Tail(@)] /\ GoTo(c, "acquired", 0) /\ UNCHANGED serverOpen
      BY <1>1, <2>3 DEF ReadHello
    <3> QED BY <1>1, <1>t, <1>w, <1>h, <2>2, <3>1, ReadType DEF ReadHello, GoTo, ConnTypeOK
  <2>4. CASE lease # NoConn
    <3>1. Hangup(c)
      BY <1>1, <2>4 DEF ReadHello
    <3> QED BY <1>t, <1>w, <1>h, <2>2, <3>1 DEF Hangup, ConnTypeOK
  <2> QED BY <2>3, <2>4
<1>2. CASE SetActiveConn(c) \/ TakeUpdate(c) \/ ReleaseLease(c) \/ SignalInteraction(c)
           \/ SignalPublished(c) \/ HandlerReturns(c)
  <2>1. UNCHANGED <<toDaemon, toClient, serverOpen>>
    BY <1>2 DEF SetActiveConn, TakeUpdate, ReleaseLease, SignalInteraction, SignalPublished,
       HandlerReturns
  <2>2. \E pc \in {"greet", "snapshot", "detach", "select", "return"} : \E n \in {0, work[c]} :
          GoTo(c, pc, n)
    BY <1>2 DEF SetActiveConn, TakeUpdate, ReleaseLease, SignalInteraction, SignalPublished,
       HandlerReturns
  <2> QED BY <1>t, <1>w, <1>h, <2>1, <2>2 DEF GoTo, ConnTypeOK
<1>3. CASE Greet(c)
  <2>1. <<DaemonMsg("hello_ack", NoFrame, 0), DaemonMsg("snapshot", Snapshot, 0)>> \in Seq(DaemonMessage)
    BY MessageTypes
  <2>2. toClient' \in [Conns -> Seq(DaemonMessage)]
    BY <1>3, <2>1, WriteType DEF Greet
  <2> QED BY <1>3, <1>t, <1>w, <1>h, <2>2 DEF Greet, GoTo, ConnTypeOK
<1>4. CASE WriteSnapshot(c)
  <2>1. <<DaemonMsg("snapshot", Snapshot, work[c])>> \in Seq(DaemonMessage)
    BY MessageTypes DEF ConnTypeOK
  <2>2. toClient' \in [Conns -> Seq(DaemonMessage)]
    BY <1>4, <2>1, WriteType DEF WriteSnapshot
  <2> QED BY <1>4, <1>t, <1>w, <1>h, <2>2 DEF WriteSnapshot, GoTo, ConnTypeOK
<1>5. CASE ReadDetach(c)
  BY <1>5, <1>t, <1>w, <1>h, ReadType DEF ReadDetach, Reads, GoTo, ConnTypeOK
<1>6. CASE AckDetach(c)
  <2>1. DaemonMsg("detach_ack", NoFrame, work[c]) \in DaemonMessage
    BY MessageTypes DEF ConnTypeOK
  <2>2. toClient' \in [Conns -> Seq(DaemonMessage)]
    BY <1>6, <2>1, AnswerType DEF AckDetach
  <2> QED BY <1>6, <1>t, <1>w, <1>h, <2>2 DEF AckDetach, GoTo, ConnTypeOK
<1>7. CASE ReadInteraction(c)
  BY <1>7, <1>t, <1>w, <1>h, ReadType DEF ReadInteraction, Reads, GoTo, ConnTypeOK
<1>8. CASE RefuseInteraction(c)
  <2>1. DaemonMsg("error", NoFrame, Arg(c)) \in DaemonMessage
    BY <1>8, MessageTypes, ReadType DEF RefuseInteraction, Reads
  <2>2. toClient' \in [Conns -> Seq(DaemonMessage)]
    BY <1>8, <2>1, AnswerType DEF RefuseInteraction
  <2> QED BY <1>8, <1>t, <1>w, <1>h, <2>2, ReadType DEF RefuseInteraction, Reads, ConnTypeOK
<1>9. CASE ReadFramePublished(c)
  <2>1. DaemonMsg("error", NoFrame, 0) \in DaemonMessage
    BY MessageTypes
  <2>2. toClient' \in [Conns -> Seq(DaemonMessage)]
    BY <1>9, <2>1, AnswerType DEF ReadFramePublished, ConnTypeOK
  <2>3. \E pc \in {"select", "signalAck", "publish"} : \E n \in {0, Arg(c)} : GoTo(c, pc, n)
    BY <1>9 DEF ReadFramePublished
  <2> QED BY <1>9, <1>t, <1>w, <1>h, <2>2, <2>3, ReadType DEF ReadFramePublished, Reads, GoTo, ConnTypeOK
<1>10. CASE PublishFrame(c)
  <2>1. DaemonMsg("error", NoFrame, 0) \in DaemonMessage
    BY MessageTypes
  <2>2. toClient' \in [Conns -> Seq(DaemonMessage)]
    BY <1>10, <2>1, AnswerType DEF PublishFrame, ConnTypeOK
  <2>3. \E pc \in {"select", "signalAck"} : GoTo(c, pc, 0)
    BY <1>10 DEF PublishFrame
  <2> QED BY <1>10, <1>t, <1>w, <1>h, <2>2, <2>3 DEF PublishFrame, GoTo, ConnTypeOK
<1>11. CASE HandlerEnds(c)
  BY <1>11, <1>t, <1>w, <1>h DEF HandlerEnds, Hangup, ConnTypeOK
<1> QED BY <1>1, <1>2, <1>3, <1>4, <1>5, <1>6, <1>7, <1>8, <1>9, <1>10, <1>11 DEF HandlerStep

\* The terminal's side keeps the types, too.
LEMMA ClientType ==
  ASSUME TypeOK, NEW c \in Conns, ClientStep(c)
  PROVE  WaitTypeOK' /\ SessionTypeOK' /\ HubTypeOK' /\ ConnTypeOK' /\ TerminalTypeOK'
<1> USE DEF TypeOK
<1>0. UNCHANGED <<waitVars, sessionVars, hubVars>>
  BY DEF ClientStep, Dial, ReceiveInitialSnapshot, DialFails, ReceiveSnapshot, ReceiveError,
     ReceiveEOF, DrawUpdate, Redraw, View, Interact, RequestTimeout, Close, ReceiveDetachAck, Quit,
     Leave, ClientOnly
<1>h. WaitTypeOK' /\ SessionTypeOK' /\ HubTypeOK'
  BY <1>0 DEF WaitTypeOK, waitVars, SessionTypeOK, sessionVars, HubTypeOK, hubVars
<1>1. CASE Dial(c)
  <2>1. ClientMsg("hello", 0) \in ClientMessage
    BY MessageTypes
  <2>2. toDaemon' \in [Conns -> Seq(ClientMessage)]
    BY <1>1, <2>1, SendType DEF Dial
  <2>3. ConnTypeOK'
    BY <1>1, <2>2 DEF Dial, GoTo, ConnTypeOK
  <2>4. TerminalTypeOK'
    BY <1>1 DEF Dial, TerminalTypeOK
  <2> QED BY <1>h, <2>3, <2>4
<1>2. CASE ReceiveInitialSnapshot(c)
  <2>1. toClient[c] # <<>> /\ Len(toClient[c]) > 1
        /\ toClient' = [toClient EXCEPT ![c] = SubSeq(@, 2 + 1, Len(@))]
    BY <1>2 DEF ReceiveInitialSnapshot, Receives
  <2>2. toClient[c][2].frame \in FrameType
    <3>1. toClient[c] \in Seq(DaemonMessage)
      BY DEF ConnTypeOK
    <3>2. toClient[c][2] \in DaemonMessage
      BY <2>1, <3>1
    <3> QED BY <3>2 DEF DaemonMessage
  <2>3. toClient' \in [Conns -> Seq(DaemonMessage)]
    BY <2>1, ReceiveType
  <2> QED BY <1>2, <1>h, <2>2, <2>3
          DEF ReceiveInitialSnapshot, ClientOnly, ConnTypeOK, TerminalTypeOK
<1>3. CASE DialFails(c) \/ ReceiveDetachAck(c) \/ Quit(c)
  <2>1. Leave(c)
    BY <1>3 DEF DialFails, ReceiveDetachAck, Quit
  <2> QED BY <1>h, <2>1, MessageTypes DEF Leave, ClientOnly, ConnTypeOK, TerminalTypeOK
<1>4. CASE ReceiveSnapshot(c) \/ ReceiveError(c)
  <2>1. toClient[c] # <<>> /\ toClient' = [toClient EXCEPT ![c] = SubSeq(@, 1 + 1, Len(@))]
    BY <1>4 DEF ReceiveSnapshot, ReceiveError, Receives
  <2>2. Received(c) \in DaemonMessage /\ toClient' \in [Conns -> Seq(DaemonMessage)]
    BY <2>1, ReceiveType
  <2>3. Received(c).frame \in FrameType /\ Received(c).req \in Nat
    BY <2>2 DEF DaemonMessage
  <2>4. request' \in [Conns -> Nat]
    BY <1>4 DEF ReceiveSnapshot, ReceiveError, Resolve, TerminalTypeOK
  <2>5. ConnTypeOK'
    BY <1>4, <2>2 DEF ReceiveSnapshot, ReceiveError, ClientOnly, ConnTypeOK
  <2>6. CASE ReceiveSnapshot(c)
    BY <2>6, <1>h, <2>3, <2>4, <2>5 DEF ReceiveSnapshot, TerminalTypeOK
  <2>7. CASE ReceiveError(c)
    BY <2>7, <1>h, <2>3, <2>4, <2>5 DEF ReceiveError, TerminalTypeOK
  <2> QED BY <1>4, <2>6, <2>7
<1>5. CASE ReceiveEOF(c) \/ RequestTimeout(c)
  <2>1. ConnTypeOK'
    BY <1>5 DEF ReceiveEOF, RequestTimeout, ClientOnly, ConnTypeOK
  <2>2. CASE ReceiveEOF(c)
    BY <2>2, <1>h, <2>1 DEF ReceiveEOF, TerminalTypeOK
  <2>3. CASE RequestTimeout(c)
    BY <2>3, <1>h, <2>1 DEF RequestTimeout, TerminalTypeOK
  <2> QED BY <1>5, <2>2, <2>3
<1>6. CASE DrawUpdate(c) \/ Redraw(c)
  <2>1. View(c)
    BY <1>6 DEF DrawUpdate, Redraw
  <2>2. refresh' \in [Conns -> BOOLEAN]
    BY <1>6 DEF DrawUpdate, Redraw, TerminalTypeOK
  <2>3. cache[c].publicationGeneration \in Nat
    BY DEF TerminalTypeOK, FrameType
  <2>4. ClientMsg("frame_published", cache[c].publicationGeneration) \in ClientMessage
    BY <2>3, MessageTypes
  <2>5. toDaemon' \in [Conns -> Seq(ClientMessage)]
    BY <2>1, <2>4, SendType DEF View, ConnTypeOK
  <2>6. lastAck' \in [Conns -> Nat]
    BY <2>1, <2>3 DEF View, TerminalTypeOK
  <2> QED BY <1>h, <2>1, <2>2, <2>5, <2>6 DEF View, ConnTypeOK, TerminalTypeOK
<1>7. CASE Interact(c) \/ Close(c)
  <2>1. nextReq[c] + 1 \in Nat
    BY DEF TerminalTypeOK
  <2>2. /\ ClientMsg("interaction", nextReq[c] + 1) \in ClientMessage
        /\ ClientMsg("detach", nextReq[c] + 1) \in ClientMessage
    BY <2>1, MessageTypes
  <2>3. toDaemon' \in [Conns -> Seq(ClientMessage)]
    BY <1>7, <2>2, SendType DEF Interact, Close, ConnTypeOK
  <2>4. request' \in [Conns -> Nat] /\ nextReq' \in [Conns -> Nat]
    BY <1>7, <2>1 DEF Interact, Close, TerminalTypeOK
  <2> QED BY <1>7, <1>h, <2>3, <2>4 DEF Interact, Close, ClientOnly, ConnTypeOK, TerminalTypeOK
<1> QED BY <1>1, <1>2, <1>3, <1>4, <1>5, <1>6, <1>7 DEF ClientStep

\* So do the agent's requests, whether accepted, refused or malformed.
LEMMA AgentType ==
  ASSUME TypeOK, AgentNext
  PROVE  WaitTypeOK' /\ SessionTypeOK' /\ HubTypeOK' /\ ConnTypeOK' /\ TerminalTypeOK'
<1> USE DEF TypeOK
<1>1. ConnTypeOK' /\ TerminalTypeOK'
  <2>1. UNCHANGED <<connVars, clientVars>>
    BY DEF AgentNext, AgentHello, AgentOperation, AgentMalformed, AgentRefused, SignalSnapshot,
       AgentWaits
  <2> QED BY <2>1 DEF connVars, clientVars, ConnTypeOK, TerminalTypeOK
<1>2. HubTypeOK'
  BY DEF AgentNext, AgentHello, AgentOperation, AgentMalformed, AgentRefused, SignalSnapshot,
     AgentWaits, hubVars, HubTypeOK
<1>3. SessionTypeOK'
  BY DaemonBounds DEF AgentNext, AgentHello, AgentOperation, AgentMalformed, AgentRefused,
     SignalSnapshot, AgentWaits, sessionVars, SessionTypeOK, Negotiate, AcceptMutation,
     DuplicateMutation, BreakSession, RefuseMutation, IsExpected
<1>4. WaitTypeOK'
  <2>1. UNCHANGED waitVars \/ \E w \in Waiters : WaitStep(w)
    BY DEF AgentNext, AgentHello, AgentOperation, AgentMalformed, AgentRefused, SignalSnapshot,
       AgentWaits
  <2> QED BY <2>1 DEF waitVars, WaitTypeOK, WaitStep, CallWaitEvents, DrainOne, DrainEnds, GoToSleep,
          DoNotWait, WakeUp, GiveUp
<1> QED BY <1>1, <1>2, <1>3, <1>4

------------------------------------------------------------------------------
(* The lease                                                                 *)

\* A handler between the acquisition and the release of the lease.
Holding(c) == handler[c] \in {"acquired", "release"} \/ Attached(c)

\* LeaseExclusive, with the two windows in which lease and active connection
\* differ: between acquiring and setActiveConn, and between clearActiveConn
\* and the release.
LeaseInv ==
  /\ \A c \in Conns : Holding(c) => lease = c
  /\ \A c \in Conns : Attached(c) <=> activeConn = c
  /\ lease # NoConn => handler[lease] \notin {"none", "hello", "detach"}

\* A client that can read its detach_ack has a handler that is past the lease,
\* and a dead client reads nothing: no successor on the same connection can
\* find the acknowledgement of its predecessor.
DetachInv ==
  \A c \in Conns :
    /\ \A i \in 1..Len(toClient[c]) : toClient[c][i].kind = "detach_ack" =>
         lease # c /\ handler[c] \in {"return", "none"}
    /\ client[c] = "off" => toClient[c] = <<>>

\* A step that leaves handlers, lease and active connection alone.
LEMMA LeaseStutter ==
  ASSUME LeaseInv, UNCHANGED <<handler, lease, activeConn>>
  PROVE  LeaseInv'
BY DEF LeaseInv, Holding, Attached, Serving

\* handleClient acquires, publishes, clears and releases in an order that keeps
\* the lease exclusive at every step.
LEMMA HandlerLease ==
  ASSUME TypeOK, LeaseInv, NEW c \in Conns, HandlerStep(c)
  PROVE  LeaseInv'
<1> USE DaemonBounds DEF LeaseInv, Holding, Attached, Serving
<1>t. /\ handler \in [Conns -> {"none", "hello", "acquired", "greet", "select", "snapshot",
                               "signal", "publish", "signalAck", "release", "detach", "return"}]
      /\ lease \in Conns \cup {NoConn} /\ activeConn \in Conns \cup {NoConn}
  BY DEF TypeOK, ConnTypeOK, HubTypeOK
<1>1. CASE ReadHello(c)
  BY <1>1, <1>t DEF ReadHello, GoTo, Hangup
<1>2. CASE SetActiveConn(c)
  BY <1>2, <1>t DEF SetActiveConn, GoTo
<1>3. CASE Greet(c) \/ TakeUpdate(c) \/ WriteSnapshot(c) \/ ReadInteraction(c) \/ RefuseInteraction(c)
           \/ SignalInteraction(c) \/ ReadFramePublished(c) \/ PublishFrame(c) \/ SignalPublished(c)
  <2>1. UNCHANGED <<lease, activeConn>> /\ Attached(c)
    BY <1>3 DEF Greet, TakeUpdate, WriteSnapshot, ReadInteraction, RefuseInteraction,
       SignalInteraction, ReadFramePublished, PublishFrame, SignalPublished, Reads, hubVars
  <2>2. \E pc \in {"select", "snapshot", "signal", "publish", "signalAck"} :
          handler' = [handler EXCEPT ![c] = pc]
    BY <1>3, <1>t DEF Greet, TakeUpdate, WriteSnapshot, ReadInteraction, RefuseInteraction,
       SignalInteraction, ReadFramePublished, PublishFrame, SignalPublished, Reads, GoTo
  <2> QED BY <1>t, <2>1, <2>2
<1>4. CASE ReadDetach(c) \/ HandlerReturns(c)
  <2>1. UNCHANGED lease /\ ClearActiveConn(c) /\ Attached(c)
    BY <1>4 DEF ReadDetach, HandlerReturns, Reads
  <2>2. \E pc \in {"release", "return"} : handler' = [handler EXCEPT ![c] = pc]
    BY <1>4 DEF ReadDetach, HandlerReturns, GoTo
  <2> QED BY <1>t, <2>1, <2>2 DEF ClearActiveConn
<1>5. CASE ReleaseLease(c)
  BY <1>5, <1>t DEF ReleaseLease, GoTo
<1>6. CASE AckDetach(c)
  BY <1>6, <1>t DEF AckDetach, GoTo, hubVars
<1>7. CASE HandlerEnds(c)
  BY <1>7, <1>t DEF HandlerEnds, Hangup
<1> QED BY <1>1, <1>2, <1>3, <1>4, <1>5, <1>6, <1>7 DEF HandlerStep

\* A terminal never touches the lease; a new connection starts without it.
LEMMA ClientLease ==
  ASSUME TypeOK, LeaseInv, NEW c \in Conns, ClientStep(c)
  PROVE  LeaseInv'
<1>1. UNCHANGED <<lease, activeConn>>
  BY DEF ClientStep, Dial, ReceiveInitialSnapshot, DialFails, ReceiveSnapshot, ReceiveError,
     ReceiveEOF, DrawUpdate, Redraw, View, Interact, RequestTimeout, Close, ReceiveDetachAck, Quit,
     Leave, ClientOnly, hubVars
<1>2. CASE Dial(c)
  <2>1. handler[c] = "none" /\ handler' = [handler EXCEPT ![c] = "hello"]
    BY <1>2 DEF Dial, GoTo
  <2> QED BY <1>1, <2>1, DaemonBounds
          DEF LeaseInv, Holding, Attached, Serving, TypeOK, ConnTypeOK, HubTypeOK
<1>3. CASE ~Dial(c)
  <2>1. UNCHANGED handler
    BY <1>3 DEF ClientStep, ReceiveInitialSnapshot, DialFails, ReceiveSnapshot, ReceiveError,
       ReceiveEOF, DrawUpdate, Redraw, View, Interact, RequestTimeout, Close, ReceiveDetachAck, Quit,
       Leave, ClientOnly
  <2> QED BY <1>1, <2>1, LeaseStutter
<1> QED BY <1>2, <1>3

\* The agent's requests leave the lease alone.
LEMMA AgentLease ==
  ASSUME LeaseInv, AgentNext
  PROVE  LeaseInv'
<1>1. UNCHANGED <<handler, lease, activeConn>>
  BY DEF AgentNext, AgentHello, AgentOperation, AgentMalformed, AgentRefused, SignalSnapshot,
     AgentWaits, connVars, hubVars
<1> QED BY <1>1, LeaseStutter

------------------------------------------------------------------------------
(* The messages to a client                                                  *)

\* A write appends to one connection's queue.
LEMMA Written ==
  ASSUME ConnTypeOK, NEW c \in Conns, NEW msgs \in Seq(DaemonMessage), Write(c, msgs)
  PROVE  /\ \A d \in Conns \ {c} : toClient'[d] = toClient[d]
         /\ Len(toClient'[c]) = Len(toClient[c]) + Len(msgs)
         /\ \A i \in 1..Len(toClient'[c]) :
              toClient'[c][i] = IF i <= Len(toClient[c]) THEN toClient[c][i]
                                                         ELSE msgs[i - Len(toClient[c])]
<1>1. toClient[c] \in Seq(DaemonMessage) /\ toClient'[c] = toClient[c] \o msgs
  BY WriteType DEF ConnTypeOK
<1> QED BY <1>1, WriteType

\* A read takes messages off its front.
LEMMA Consumed ==
  ASSUME ConnTypeOK, NEW c \in Conns, NEW n \in {1, 2}, n <= Len(toClient[c]),
         toClient' = [toClient EXCEPT ![c] = SubSeq(@, n + 1, Len(@))]
  PROVE  /\ \A d \in Conns \ {c} : toClient'[d] = toClient[d]
         /\ Len(toClient'[c]) = Len(toClient[c]) - n
         /\ \A i \in 1..Len(toClient'[c]) : toClient'[c][i] = toClient[c][i + n]
<1>1. toClient[c] \in Seq(DaemonMessage) /\ toClient'[c] = SubSeq(toClient[c], n + 1, Len(toClient[c]))
  BY DEF ConnTypeOK
<1> QED BY <1>1 DEF ConnTypeOK

\* What a handler writes: the greeting, a snapshot of the engine as it is, or
\* an answer without one; to a dead peer nothing.
LEMMA HandlerWrites ==
  ASSUME TypeOK, NEW c \in Conns, HandlerStep(c)
  PROVE  \/ UNCHANGED toClient
         \/ /\ client[c] # "off" /\ handler[c] = "greet" /\ handler'[c] = "select"
            /\ Write(c, <<DaemonMsg("hello_ack", NoFrame, 0), DaemonMsg("snapshot", Snapshot, 0)>>)
         \/ /\ client[c] # "off" /\ handler[c] = "snapshot" /\ handler'[c] = "select"
            /\ Write(c, <<DaemonMsg("snapshot", Snapshot, work[c])>>)
         \/ /\ client[c] # "off" /\ handler[c] \notin {"greet", "snapshot"}
            /\ handler[c] = "hello" => handler'[c] = "none"
            /\ \E kind \in {"busy", "error", "detach_ack"}, req \in Nat :
                 /\ Write(c, <<DaemonMsg(kind, NoFrame, req)>>)
                 /\ kind = "detach_ack" => handler[c] = "detach"
<1>t. handler \in [Conns -> {"none", "hello", "acquired", "greet", "select", "snapshot",
                             "signal", "publish", "signalAck", "release", "detach", "return"}]
      /\ work[c] \in Nat
  BY DEF TypeOK, ConnTypeOK
<1>1. CASE ReadHello(c)
  BY <1>1, <1>t DEF ReadHello, Hangup
<1>2. CASE Greet(c) \/ WriteSnapshot(c)
  BY <1>2, <1>t DEF Greet, WriteSnapshot, CanWrite, GoTo
<1>3. CASE AckDetach(c) \/ RefuseInteraction(c) \/ ReadFramePublished(c) \/ PublishFrame(c)
  <2>1. CASE UNCHANGED toClient
    BY <2>1
  <2>2. CASE AckDetach(c) /\ ~UNCHANGED toClient
    BY <2>2, <1>t DEF AckDetach, Answer, CanWrite
  <2>3. CASE RefuseInteraction(c) /\ ~UNCHANGED toClient
    <3>1. Arg(c) \in Nat
      BY <2>3, ReadType DEF RefuseInteraction, Reads, TypeOK
    <3> QED BY <2>3, <3>1 DEF RefuseInteraction, Reads, Answer, CanWrite
  <2>4. CASE (ReadFramePublished(c) \/ PublishFrame(c)) /\ ~UNCHANGED toClient
    BY <2>4 DEF ReadFramePublished, PublishFrame, Reads, Answer, CanWrite
  <2> QED BY <1>3, <2>1, <2>2, <2>3, <2>4
<1>4. CASE SetActiveConn(c) \/ TakeUpdate(c) \/ ReadDetach(c) \/ ReleaseLease(c) \/ ReadInteraction(c)
           \/ SignalInteraction(c) \/ SignalPublished(c) \/ HandlerReturns(c) \/ HandlerEnds(c)
  BY <1>4 DEF SetActiveConn, TakeUpdate, ReadDetach, ReleaseLease, ReadInteraction,
     SignalInteraction, SignalPublished, HandlerReturns, HandlerEnds
<1> QED BY <1>1, <1>2, <1>3, <1>4 DEF HandlerStep

\* Where a handler goes, and what it may do to the lease.
LEMMA HandlerMoves ==
  ASSUME TypeOK, NEW c \in Conns, HandlerStep(c)
  PROVE  /\ \A d \in Conns \ {c} : handler'[d] = handler[d]
         /\ lease' \in {lease, NoConn, c}
         /\ handler[c] # "none"
         /\ handler[c] = "return" => handler'[c] = "none" /\ lease' \in {lease, NoConn}
         /\ handler[c] = "detach" => handler'[c] = "return" /\ lease' = lease
         /\ UNCHANGED clientVars
<1>t. handler \in [Conns -> {"none", "hello", "acquired", "greet", "select", "snapshot",
                             "signal", "publish", "signalAck", "release", "detach", "return"}]
  BY DEF TypeOK, ConnTypeOK
<1>1. CASE ReadHello(c)
  BY <1>1, <1>t DEF ReadHello, GoTo, Hangup
<1>2. CASE HandlerEnds(c)
  BY <1>2, <1>t DEF HandlerEnds, Hangup
<1>3. CASE RefuseInteraction(c) \/ AckDetach(c)
  BY <1>3, <1>t DEF RefuseInteraction, AckDetach, Reads, hubVars, GoTo
<1>4. CASE Greet(c) \/ TakeUpdate(c) \/ WriteSnapshot(c) \/ ReadInteraction(c) \/ SignalInteraction(c)
           \/ ReadFramePublished(c) \/ PublishFrame(c) \/ SignalPublished(c)
  BY <1>4, <1>t DEF Greet, TakeUpdate, WriteSnapshot, ReadInteraction, SignalInteraction,
     ReadFramePublished, PublishFrame, SignalPublished, Reads, hubVars, GoTo
<1>5. CASE SetActiveConn(c) \/ ReadDetach(c) \/ ReleaseLease(c) \/ HandlerReturns(c)
  BY <1>5, <1>t DEF SetActiveConn, ReadDetach, ReleaseLease, HandlerReturns, Reads, GoTo
<1> QED BY <1>1, <1>2, <1>3, <1>4, <1>5 DEF HandlerStep

\* What a terminal does to its end of the connection.
LEMMA ClientMoves ==
  ASSUME TypeOK, NEW c \in Conns, ClientStep(c)
  PROVE  /\ UNCHANGED <<updates, agent, lease>>
         /\ \A d \in Conns \ {c} : client'[d] = client[d] /\ cache'[d] = cache[d] /\ handler'[d] = handler[d]
         /\ \/ UNCHANGED handler
            \/ client[c] = "off" /\ handler[c] = "none" /\ handler'[c] = "hello" /\ UNCHANGED toClient
         /\ \/ UNCHANGED <<toClient, cache>> /\ (client'[c] = "off" => client[c] = "off")
            \/ Leave(c)
            \/ /\ client[c] # "off" /\ client'[c] # "off"
               /\ ReceiveInitialSnapshot(c) \/ ReceiveSnapshot(c) \/ ReceiveError(c)
<1>t. client \in [Conns -> {"off", "dialing", "running", "closing", "disconnected"}]
      /\ cache \in [Conns -> FrameType]
      /\ handler \in [Conns -> {"none", "hello", "acquired", "greet", "select", "snapshot",
                                "signal", "publish", "signalAck", "release", "detach", "return"}]
  BY DEF TypeOK, ConnTypeOK, TerminalTypeOK
<1>1. CASE Dial(c)
  BY <1>1, <1>t DEF Dial, GoTo, hubVars
<1>2. CASE ReceiveInitialSnapshot(c) \/ ReceiveSnapshot(c) \/ ReceiveError(c)
  BY <1>2, <1>t DEF ReceiveInitialSnapshot, ReceiveSnapshot, ReceiveError, ClientOnly, hubVars
<1>3. CASE DialFails(c) \/ ReceiveDetachAck(c) \/ Quit(c)
  <2>1. Leave(c)
    BY <1>3 DEF DialFails, ReceiveDetachAck, Quit
  <2> QED BY <2>1, <1>t DEF Leave, ClientOnly, hubVars
<1>4. CASE ReceiveEOF(c) \/ RequestTimeout(c)
  BY <1>4, <1>t DEF ReceiveEOF, RequestTimeout, ClientOnly, hubVars
<1>5. CASE DrawUpdate(c) \/ Redraw(c)
  BY <1>5, <1>t DEF DrawUpdate, Redraw, View, hubVars
<1>6. CASE Interact(c) \/ Close(c)
  BY <1>6, <1>t DEF Interact, Close, ClientOnly, hubVars
<1> QED BY <1>1, <1>2, <1>3, <1>4, <1>5, <1>6 DEF ClientStep

\* After a receive the queue holds the messages that were behind the ones read.
LEMMA ClientReads ==
  ASSUME TypeOK, NEW c \in Conns,
         ReceiveInitialSnapshot(c) \/ ReceiveSnapshot(c) \/ ReceiveError(c)
  PROVE  \E n \in {1, 2} :
           /\ n = IF ReceiveInitialSnapshot(c) THEN 2 ELSE 1
           /\ n <= Len(toClient[c])
           /\ \A d \in Conns \ {c} : toClient'[d] = toClient[d]
           /\ Len(toClient'[c]) = Len(toClient[c]) - n
           /\ \A i \in 1..Len(toClient'[c]) : toClient'[c][i] = toClient[c][i + n]
<1>t. ConnTypeOK /\ toClient[c] \in Seq(DaemonMessage)
  BY DEF TypeOK, ConnTypeOK
<1>1. CASE ReceiveInitialSnapshot(c)
  <2>1. Len(toClient[c]) > 1 /\ toClient' = [toClient EXCEPT ![c] = SubSeq(@, 2 + 1, Len(@))]
    BY <1>1 DEF ReceiveInitialSnapshot, Receives
  <2>2. 2 <= Len(toClient[c])
    BY <1>t, <2>1
  <2> QED BY <1>t, <1>1, <2>1, <2>2, Consumed
<1>2. CASE ~ReceiveInitialSnapshot(c)
  <2>1. toClient[c] # <<>> /\ toClient' = [toClient EXCEPT ![c] = SubSeq(@, 1 + 1, Len(@))]
    BY <1>2 DEF ReceiveSnapshot, ReceiveError, Receives
  <2>2. 1 <= Len(toClient[c])
    BY <1>t, <2>1
  <2> QED BY <1>t, <1>2, <2>1, <2>2, Consumed
<1> QED BY <1>1, <1>2

\* handleClient writes detach_ack only after it has released the lease, and
\* does nothing with the lease afterwards.
LEMMA HandlerDetach ==
  ASSUME TypeOK, LeaseInv, DetachInv, NEW c \in Conns, HandlerStep(c)
  PROVE  DetachInv'
<1> SUFFICES ASSUME NEW d \in Conns
             PROVE  /\ \A i \in 1..Len(toClient'[d]) : toClient'[d][i].kind = "detach_ack" =>
                         lease' # d /\ handler'[d] \in {"return", "none"}
                    /\ client'[d] = "off" => toClient'[d] = <<>>
  BY DEF DetachInv
<1>m. /\ \A x \in Conns \ {c} : handler'[x] = handler[x]
      /\ lease' \in {lease, NoConn, c} /\ NoConn # d
      /\ handler[c] # "none" /\ UNCHANGED client
      /\ handler[c] = "return" => handler'[c] = "none" /\ lease' \in {lease, NoConn}
      /\ handler[c] = "detach" => handler'[c] = "return" /\ lease' = lease
  BY HandlerMoves, DaemonBounds DEF clientVars
<1>1. CASE toClient'[d] = toClient[d]
  BY <1>1, <1>m DEF DetachInv
<1>2. ASSUME NEW msgs \in Seq(DaemonMessage), Write(c, msgs), client[c] # "off", d = c,
             \A i \in 1..Len(msgs) : msgs[i].kind = "detach_ack" => handler[c] = "detach"
      PROVE  /\ \A i \in 1..Len(toClient'[d]) : toClient'[d][i].kind = "detach_ack" =>
                  lease' # d /\ handler'[d] \in {"return", "none"}
             /\ client'[d] = "off" => toClient'[d] = <<>>
  <2>1. /\ Len(toClient'[c]) = Len(toClient[c]) + Len(msgs)
        /\ \A i \in 1..Len(toClient'[c]) :
             toClient'[c][i] = IF i <= Len(toClient[c]) THEN toClient[c][i]
                                                        ELSE msgs[i - Len(toClient[c])]
    BY <1>2, Written DEF TypeOK
  <2>2. Len(toClient[c]) \in Nat /\ Len(msgs) \in Nat
    BY <1>2 DEF TypeOK, ConnTypeOK
  <2>3. ASSUME NEW i \in 1..Len(toClient'[c]), toClient'[c][i].kind = "detach_ack"
        PROVE  lease' # c /\ handler'[c] \in {"return", "none"}
    <3>1. CASE i <= Len(toClient[c])
      BY <1>2, <1>m, <2>1, <2>2, <2>3, <3>1 DEF DetachInv
    <3>2. CASE ~(i <= Len(toClient[c]))
      <4>1. i - Len(toClient[c]) \in 1..Len(msgs)
        BY <2>1, <2>2, <3>2
      <4>2. msgs[i - Len(toClient[c])].kind = "detach_ack"
        BY <2>1, <2>3, <3>2
      <4>3. handler[c] = "detach"
        BY <1>2, <4>1, <4>2
      <4> QED BY <1>m, <1>2, <4>3 DEF LeaseInv
    <3> QED BY <3>1, <3>2
  <2> QED BY <1>2, <1>m, <2>3
<1>3. CASE d = c /\ ~UNCHANGED toClient
  <2>1. CASE Write(c, <<DaemonMsg("hello_ack", NoFrame, 0), DaemonMsg("snapshot", Snapshot, 0)>>)
             /\ client[c] # "off"
    <3>1. <<DaemonMsg("hello_ack", NoFrame, 0), DaemonMsg("snapshot", Snapshot, 0)>> \in Seq(DaemonMessage)
      BY MessageTypes DEF TypeOK
    <3>2. \A i \in 1..Len(<<DaemonMsg("hello_ack", NoFrame, 0), DaemonMsg("snapshot", Snapshot, 0)>>) : <<DaemonMsg("hello_ack", NoFrame, 0), DaemonMsg("snapshot", Snapshot, 0)>>[i].kind # "detach_ack"
      BY DEF DaemonMsg
    <3> QED BY <1>2, <1>3, <2>1, <3>1, <3>2
  <2>2. CASE Write(c, <<DaemonMsg("snapshot", Snapshot, work[c])>>) /\ client[c] # "off"
    <3>1. <<DaemonMsg("snapshot", Snapshot, work[c])>> \in Seq(DaemonMessage)
      BY MessageTypes DEF TypeOK, ConnTypeOK
    <3>2. \A i \in 1..Len(<<DaemonMsg("snapshot", Snapshot, work[c])>>) : <<DaemonMsg("snapshot", Snapshot, work[c])>>[i].kind # "detach_ack"
      BY DEF DaemonMsg
    <3> QED BY <1>2, <1>3, <2>2, <3>1, <3>2
  <2>3. ASSUME NEW kind \in {"busy", "error", "detach_ack"}, NEW req \in Nat, client[c] # "off",
               Write(c, <<DaemonMsg(kind, NoFrame, req)>>), kind = "detach_ack" => handler[c] = "detach"
        PROVE  /\ \A i \in 1..Len(toClient'[d]) : toClient'[d][i].kind = "detach_ack" =>
                    lease' # d /\ handler'[d] \in {"return", "none"}
               /\ client'[d] = "off" => toClient'[d] = <<>>
    <3>1. <<DaemonMsg(kind, NoFrame, req)>> \in Seq(DaemonMessage)
      BY MessageTypes
    <3>2. \A i \in 1..Len(<<DaemonMsg(kind, NoFrame, req)>>) : <<DaemonMsg(kind, NoFrame, req)>>[i].kind = kind
      BY DEF DaemonMsg
    <3> QED BY <1>2, <1>3, <2>3, <3>1, <3>2
  <2> QED BY <1>3, <2>1, <2>2, <2>3, HandlerWrites
<1>4. CASE d # c
  <2>1. toClient'[d] = toClient[d]
    BY <1>4, HandlerWrites DEF Write, TypeOK, ConnTypeOK
  <2> QED BY <1>1, <2>1
<1> QED BY <1>1, <1>3, <1>4

\* A terminal reads a detach_ack and sends a detach; it writes no answer.
LEMMA ClientDetach ==
  ASSUME TypeOK, DetachInv, NEW c \in Conns, ClientStep(c)
  PROVE  DetachInv'
<1> SUFFICES ASSUME NEW d \in Conns
             PROVE  /\ \A i \in 1..Len(toClient'[d]) : toClient'[d][i].kind = "detach_ack" =>
                         lease' # d /\ handler'[d] \in {"return", "none"}
                    /\ client'[d] = "off" => toClient'[d] = <<>>
  BY DEF DetachInv
<1>m. /\ UNCHANGED lease
      /\ \A x \in Conns \ {c} : client'[x] = client[x] /\ handler'[x] = handler[x]
      /\ \/ UNCHANGED handler
         \/ client[c] = "off" /\ UNCHANGED toClient
      /\ \/ UNCHANGED <<toClient, cache>> /\ (client'[c] = "off" => client[c] = "off")
         \/ Leave(c)
         \/ /\ client[c] # "off" /\ client'[c] # "off"
            /\ ReceiveInitialSnapshot(c) \/ ReceiveSnapshot(c) \/ ReceiveError(c)
  BY ClientMoves
<1>1. CASE UNCHANGED toClient /\ (client'[c] = "off" => client[c] = "off")
  BY <1>m, <1>1 DEF DetachInv
<1>2. CASE Leave(c)
  BY <1>m, <1>2 DEF Leave, DetachInv, ClientOnly, TypeOK, ConnTypeOK, TerminalTypeOK
<1>3. CASE client[c] # "off" /\ client'[c] # "off"
           /\ (ReceiveInitialSnapshot(c) \/ ReceiveSnapshot(c) \/ ReceiveError(c))
  <2>1. PICK n \in {1, 2} : /\ n <= Len(toClient[c])
                            /\ \A x \in Conns \ {c} : toClient'[x] = toClient[x]
                            /\ Len(toClient'[c]) = Len(toClient[c]) - n
                            /\ \A i \in 1..Len(toClient'[c]) : toClient'[c][i] = toClient[c][i + n]
    BY <1>3, ClientReads
  <2>2. Len(toClient[c]) \in Nat
    BY DEF TypeOK, ConnTypeOK
  <2>3. CASE d = c
    <3>1. \A i \in 1..Len(toClient'[c]) : i + n \in 1..Len(toClient[c])
      BY <2>1, <2>2
    <3> QED BY <1>m, <1>3, <2>1, <2>3, <3>1 DEF DetachInv
  <2>4. CASE d # c
    BY <1>m, <1>3, <2>1, <2>4 DEF DetachInv
  <2> QED BY <2>3, <2>4
<1> QED BY <1>m, <1>1, <1>2, <1>3

\* The agent's requests leave a detach alone.
LEMMA AgentDetach ==
  ASSUME DetachInv, AgentNext
  PROVE  DetachInv'
<1>1. UNCHANGED <<handler, lease, toClient, client>>
  BY DEF AgentNext, AgentHello, AgentOperation, AgentMalformed, AgentRefused, SignalSnapshot,
     AgentWaits, connVars, hubVars, clientVars
<1> QED BY <1>1 DEF DetachInv

------------------------------------------------------------------------------
(* Frames and tokens in flight                                               *)

\* A frame the engine has produced: not ahead of it, and its token stands for
\* its content or is stale.
FrameGood(f) ==
  /\ f \in FrameType
  /\ f.revision <= revision /\ f.seen <= lastSeq
  /\ TokenStandsFor(f.publicationGeneration, f)

\* A token that may be acknowledged: stale, or everything under it is drawn.
TokenDrawn(n) ==
  /\ n \in Nat /\ n <= publicationGeneration
  /\ n = publicationGeneration =>
       /\ revision <= shown.revision
       /\ \A i \in 1..Len(pendingCommits) : pendingCommits[i] <= shown.seen

\* A frame in a cache or on its way to one, and the empty one.
FrameInFlight(f) ==
  \/ f = NoFrame
  \/ \E c \in Conns : \/ cache[c] = f
                      \/ \E i \in 1..Len(toClient[c]) : toClient[c][i].frame = f

\* An acknowledgement on its way to the engine: in the socket, or between the
\* two looks of ackPublication.
TokenInFlight(n) ==
  \E c \in Conns :
    \/ handler[c] = "publish" /\ work[c] = n
    \/ \E i \in 1..Len(toDaemon[c]) :
         toDaemon[c][i].kind = "frame_published" /\ toDaemon[c][i].n = n

FramesGood == \A f : FrameInFlight(f) => FrameGood(f)
TokensDrawn == \A n : TokenInFlight(n) => TokenDrawn(n)

\* The session hands out each number once: the next one is above all applied.
NumbersFresh == lastSeq < expectedMutation

\* One call of the engine by any of the daemon's goroutines.
EngineCall ==
  \/ \E seq \in Nat : seq > lastSeq /\ Apply(seq)
  \/ /\ Publish /\ revision <= shown.revision
     /\ \A i \in 1..Len(pendingCommits) : pendingCommits[i] <= shown.seen
  \/ InteractLocally \/ InteractWithEvent
  \/ TakeEvent
  \/ \E s \in FrameType : FrameGood(s) /\ MakeVisible(s)
  \/ UNCHANGED engineVars

\* No call of the engine makes a frame or a token in flight bad.
LEMMA CallKeeps ==
  ASSUME EngineInv, EngineCall
  PROVE  /\ EngineInv'
         /\ \A f : FrameGood(f) => FrameGood(f)'
         /\ \A n : TokenDrawn(n) => TokenDrawn(n)'
<1>t. /\ EngineTypeOK /\ publicationGeneration \in Nat /\ lastSeq \in Nat /\ revision \in Nat
      /\ shown.revision \in Nat /\ shown.seen \in Nat /\ pendingCommits \in Seq(Nat)
  BY DEF EngineInv, EngineTypeOK
<1>f. ASSUME NEW f, f \in FrameType
      PROVE  /\ f.revision \in Nat /\ f.seen \in Nat /\ f.publicationGeneration \in Nat
  BY <1>f DEF FrameType
<1>1. ASSUME NEW seq \in Nat, seq > lastSeq, Apply(seq)
      PROVE  /\ EngineInv'
             /\ \A f : FrameGood(f) => FrameGood(f)'
             /\ \A n : TokenDrawn(n) => TokenDrawn(n)'
  <2>1. EngineInv'
    BY <1>1, ApplyInv
  <2>2. /\ \/ publicationGeneration' = publicationGeneration + 1
           \/ UNCHANGED <<publicationGeneration, revision, pendingCommits>>
        /\ revision <= revision' /\ lastSeq' = seq /\ UNCHANGED shown
    BY <1>t, <1>1, ApplyTakesToken
  <2>3. revision' \in Nat
    BY <2>1 DEF EngineInv, EngineTypeOK
  <2>4. ASSUME NEW f, FrameGood(f) PROVE FrameGood(f)'
    <3>1. f \in FrameType /\ TokenStandsFor(f.publicationGeneration, f)
      BY <2>4 DEF FrameGood
    <3>2. TokenStandsFor(f.publicationGeneration, f)'
      BY <1>1, <1>t, <1>f, <3>1, ApplyKeepsTokens
    <3> QED BY <1>1, <1>t, <1>f, <2>2, <2>3, <2>4, <3>2 DEF FrameGood
  <2>5. ASSUME NEW n, TokenDrawn(n) PROVE TokenDrawn(n)'
    BY <1>t, <2>2, <2>5 DEF TokenDrawn
  <2> QED BY <2>1, <2>4, <2>5
<1>2. CASE /\ Publish /\ revision <= shown.revision
           /\ \A i \in 1..Len(pendingCommits) : pendingCommits[i] <= shown.seen
  <2>1. EngineInv'
    BY <1>2, PublishInv
  <2>2. pendingCommits' = <<>> /\ UNCHANGED <<publicationGeneration, revision, lastSeq, shown>>
    BY <1>2 DEF Publish
  <2>3. ASSUME NEW f, FrameGood(f) PROVE FrameGood(f)'
    BY <2>2, <2>3 DEF FrameGood, TokenStandsFor
  <2>4. ASSUME NEW n, TokenDrawn(n) PROVE TokenDrawn(n)'
    BY <2>2, <2>4 DEF TokenDrawn
  <2> QED BY <2>1, <2>3, <2>4
<1>3. CASE InteractLocally \/ InteractWithEvent \/ TakeEvent \/ UNCHANGED engineVars
  <2>1. EngineInv'
    BY <1>3, InteractionInv, TakeEventInv, EngineStutter
  <2>2. UNCHANGED <<publicationGeneration, revision, lastSeq, shown, pendingCommits>>
    BY <1>3 DEF InteractLocally, InteractWithEvent, TakeEvent, engineVars, publicationVars
  <2>3. ASSUME NEW f, FrameGood(f) PROVE FrameGood(f)'
    BY <2>2, <2>3 DEF FrameGood, TokenStandsFor
  <2>4. ASSUME NEW n, TokenDrawn(n) PROVE TokenDrawn(n)'
    BY <2>2, <2>4 DEF TokenDrawn
  <2> QED BY <2>1, <2>3, <2>4
<1>4. ASSUME NEW s \in FrameType, FrameGood(s), MakeVisible(s)
      PROVE  /\ EngineInv'
             /\ \A f : FrameGood(f) => FrameGood(f)'
             /\ \A n : TokenDrawn(n) => TokenDrawn(n)'
  <2>1. s.revision <= revision /\ s.seen <= lastSeq
    BY <1>4 DEF FrameGood
  <2>2. EngineInv' /\ shown.seen <= shown'.seen
    BY <1>4, <2>1, MakeVisibleInv
  <2>3. UNCHANGED <<publicationGeneration, revision, lastSeq, pendingCommits>>
    BY <1>4 DEF MakeVisible, publicationVars
  <2>4. shown.revision <= shown'.revision
    BY <1>4, <1>t, <1>f DEF MakeVisible, WithShown, Larger
  <2>5. shown'.revision \in Nat /\ shown'.seen \in Nat
    BY <2>2 DEF EngineInv, EngineTypeOK
  <2>6. ASSUME NEW f, FrameGood(f) PROVE FrameGood(f)'
    BY <2>3, <2>6 DEF FrameGood, TokenStandsFor
  <2>7. ASSUME NEW n, TokenDrawn(n) PROVE TokenDrawn(n)'
    <3>1. ASSUME n = publicationGeneration
          PROVE  /\ revision <= shown'.revision
                 /\ \A i \in 1..Len(pendingCommits) : pendingCommits[i] <= shown'.seen
      <4>1. \A i \in 1..Len(pendingCommits) : pendingCommits[i] \in Nat /\ pendingCommits[i] <= shown.seen
        BY <1>t, <2>7, <3>1 DEF TokenDrawn
      <4>2. revision <= shown.revision
        BY <2>7, <3>1 DEF TokenDrawn
      <4> QED BY <1>t, <2>2, <2>4, <2>5, <4>1, <4>2
    <3> QED BY <2>3, <2>7, <3>1 DEF TokenDrawn
  <2> QED BY <2>2, <2>6, <2>7
<1> QED BY <1>1, <1>2, <1>3, <1>4 DEF EngineCall

\* The snapshot handed to a terminal is good, and drawing a good frame makes
\* its token one that may be acknowledged.
LEMMA SnapshotGood ==
  ASSUME EngineInv
  PROVE  FrameGood(Snapshot)
<1>1. /\ Snapshot \in FrameType /\ Snapshot.revision = revision /\ Snapshot.seen = lastSeq
      /\ TokenStandsFor(Snapshot.publicationGeneration, Snapshot)
  BY SnapshotFacts
<1>2. revision \in Nat /\ lastSeq \in Nat
  BY DEF EngineInv, EngineTypeOK
<1> QED BY <1>1, <1>2 DEF FrameGood

\* Drawing a frame earns the right to send its token back.
LEMMA DrawnMayBeAcknowledged ==
  ASSUME EngineInv, NEW s \in FrameType, FrameGood(s), MakeVisible(s)
  PROVE  TokenDrawn(s.publicationGeneration)'
<1>1. s.revision <= shown'.revision /\ s.seen <= shown'.seen /\ EngineInv'
  BY MakeVisibleInv DEF FrameGood
<1>2. UNCHANGED <<publicationGeneration, revision, pendingCommits>>
  BY DEF MakeVisible, publicationVars
<1>3. /\ s.publicationGeneration \in Nat /\ s.seen \in Nat /\ shown'.seen \in Nat
      /\ pendingCommits \in Seq(Nat) /\ publicationGeneration \in Nat
  BY <1>1 DEF FrameType, EngineInv, EngineTypeOK
<1>4. ASSUME s.publicationGeneration = publicationGeneration
      PROVE  /\ revision <= shown'.revision
             /\ \A i \in 1..Len(pendingCommits) : pendingCommits[i] <= shown'.seen
  <2>1. /\ s.revision = revision
        /\ \A i \in 1..Len(pendingCommits) : pendingCommits[i] \in Nat /\ pendingCommits[i] <= s.seen
    BY <1>3, <1>4 DEF FrameGood, TokenStandsFor
  <2> QED BY <1>1, <1>3, <2>1
<1>5. s.publicationGeneration <= publicationGeneration
  BY DEF FrameGood, TokenStandsFor
<1> QED BY <1>2, <1>3, <1>4, <1>5 DEF TokenDrawn

\* Every step of the daemon calls the engine in one of the ways of EngineCall:
\* a handler publishes only what the token it read stands for, ...
LEMMA HandlerCalls ==
  ASSUME TypeOK, EngineInv, TokensDrawn, NEW c \in Conns, HandlerStep(c)
  PROVE  EngineCall /\ UNCHANGED <<lastSeq, expectedMutation>>
<1>1. CASE PublishFrame(c)
  <2>1. CASE PublishGeneration(work[c])
    <3>1. Publish /\ work[c] = publicationGeneration
      BY <2>1 DEF PublishGeneration, Publishable
    <3>2. TokenDrawn(work[c])
      BY <1>1 DEF PublishFrame, TokensDrawn, TokenInFlight
    <3> QED BY <1>1, <3>1, <3>2 DEF TokenDrawn, EngineCall, Publish, PublishFrame, sessionVars
  <2>2. CASE PublishGenerationFails(work[c]) \/ PublishGenerationStale(work[c])
    <3>1. UNCHANGED engineVars
      BY <2>2 DEF PublishGenerationFails, PublishGenerationStale, PublishBackpressure,
         RejectCriticalBatch, engineVars
    <3> QED BY <1>1, <3>1 DEF EngineCall, engineVars, PublishFrame, sessionVars
  <2> QED BY <1>1, <2>1, <2>2 DEF PublishFrame
<1>2. CASE ReadInteraction(c)
  BY <1>2 DEF ReadInteraction, EngineCall, InteractLocally, InteractWithEvent, engineVars, sessionVars
<1>3. CASE ReadHello(c) \/ SetActiveConn(c) \/ Greet(c) \/ TakeUpdate(c) \/ WriteSnapshot(c)
           \/ ReadDetach(c) \/ ReleaseLease(c) \/ AckDetach(c) \/ RefuseInteraction(c)
           \/ SignalInteraction(c) \/ ReadFramePublished(c) \/ SignalPublished(c)
           \/ HandlerReturns(c) \/ HandlerEnds(c)
  BY <1>3 DEF ReadHello, SetActiveConn, Greet, TakeUpdate, WriteSnapshot, ReadDetach, ReleaseLease,
     AckDetach, RefuseInteraction, InteractionFails, SignalInteraction, ReadFramePublished,
     SignalPublished, HandlerReturns, HandlerEnds, EngineCall, engineVars, sessionVars
<1> QED BY <1>1, <1>2, <1>3 DEF HandlerStep

\* ... a terminal draws only frames it was sent, ...
LEMMA ClientCalls ==
  ASSUME TypeOK, FramesGood, NEW c \in Conns, ClientStep(c)
  PROVE  EngineCall /\ UNCHANGED <<lastSeq, expectedMutation>>
<1>1. CASE DrawUpdate(c) \/ Redraw(c)
  <2>1. MakeVisible(cache[c]) /\ UNCHANGED sessionVars
    BY <1>1 DEF DrawUpdate, Redraw, View
  <2>2. cache[c] \in FrameType /\ FrameGood(cache[c])
    BY DEF FramesGood, FrameInFlight, FrameGood
  <2> QED BY <2>1, <2>2 DEF EngineCall, MakeVisible, sessionVars
<1>2. CASE ~(DrawUpdate(c) \/ Redraw(c))
  <2>1. UNCHANGED <<engineVars, sessionVars>>
    BY <1>2 DEF ClientStep, Dial, ReceiveInitialSnapshot, DialFails, ReceiveSnapshot, ReceiveError,
       ReceiveEOF, Interact, RequestTimeout, Close, ReceiveDetachAck, Quit, Leave, ClientOnly
  <2> QED BY <2>1 DEF EngineCall, engineVars, sessionVars
<1> QED BY <1>1, <1>2

\* ... and the session lets a number through only once.
LEMMA AgentCalls ==
  ASSUME TypeOK, NumbersFresh, AgentNext
  PROVE  EngineCall /\ NumbersFresh'
<1>t. lastSeq \in Nat /\ expectedMutation \in Nat
  BY DEF TypeOK, EngineTypeOK, SessionTypeOK
<1>1. ASSUME NEW seq \in 0..MaxOps, AgentOperation(seq)
      PROVE  EngineCall /\ NumbersFresh'
  <2>1. seq \in Nat /\ seq = expectedMutation /\ expectedMutation' = seq + 1
    BY <1>1, DaemonBounds DEF AgentOperation, AcceptMutation, IsExpected
  <2>2. Apply(seq)
    BY <1>1 DEF AgentOperation, Apply
  <2>3. lastSeq' = seq
    BY <2>1, <2>2, ApplyTakesToken DEF TypeOK
  <2> QED BY <1>t, <2>1, <2>2, <2>3 DEF EngineCall, NumbersFresh
<1>2. CASE AgentWaits
  <2>1. UNCHANGED expectedMutation
    BY <1>2 DEF AgentWaits, sessionVars
  <2>2. TakeEvent \/ UNCHANGED engineVars
    BY <1>2 DEF AgentWaits, WaitStep, CallWaitEvents, DrainOne, DrainEnds, GoToSleep, DoNotWait,
       WakeUp, GiveUp
  <2> QED BY <2>1, <2>2 DEF EngineCall, TakeEvent, engineVars, NumbersFresh
<1>3. ASSUME NEW seq \in 0..(MaxOps + 1),
             AgentHello \/ AgentMalformed(seq) \/ AgentRefused(seq) \/ SignalSnapshot
      PROVE  EngineCall /\ NumbersFresh'
  <2>1. UNCHANGED engineVars
    BY <1>3 DEF AgentHello, AgentMalformed, AgentRefused, SignalSnapshot
  <2>2. expectedMutation <= expectedMutation' /\ expectedMutation' \in Nat
    BY <1>3, <1>t, DaemonBounds DEF AgentHello, AgentMalformed, AgentRefused, SignalSnapshot, sessionVars,
       Negotiate, AcceptMutation, IsExpected, DuplicateMutation, BreakSession, RefuseMutation
  <2> QED BY <1>t, <2>1, <2>2 DEF EngineCall, engineVars, NumbersFresh
<1>4. \A seq \in 0..MaxOps : seq \in 0..(MaxOps + 1)
  BY DaemonBounds
<1>5. 0 \in 0..(MaxOps + 1)
  BY DaemonBounds
<1> QED BY <1>1, <1>2, <1>3, <1>4, <1>5 DEF AgentNext

\* A handler sends frames of the engine as it is, and takes acknowledgements
\* from the socket.
LEMMA HandlerFlight ==
  ASSUME TypeOK, NEW c \in Conns, HandlerStep(c)
  PROVE  /\ \A f : FrameInFlight(f)' => FrameInFlight(f) \/ f = Snapshot
         /\ \A n : TokenInFlight(n)' => TokenInFlight(n)
<1>t. /\ handler \in [Conns -> {"none", "hello", "acquired", "greet", "select", "snapshot",
                               "signal", "publish", "signalAck", "release", "detach", "return"}]
      /\ work \in [Conns -> Nat] /\ toDaemon \in [Conns -> Seq(ClientMessage)]
      /\ toClient \in [Conns -> Seq(DaemonMessage)] /\ ConnTypeOK
  BY DEF TypeOK, ConnTypeOK
<1>1. ASSUME NEW f, FrameInFlight(f)'
      PROVE  FrameInFlight(f) \/ f = Snapshot
  <2>0. UNCHANGED cache
    BY HandlerMoves DEF clientVars
  <2>1. ASSUME NEW msgs \in Seq(DaemonMessage), Write(c, msgs),
               \A i \in 1..Len(msgs) : msgs[i].frame \in {NoFrame, Snapshot}
        PROVE  FrameInFlight(f) \/ f = Snapshot
    <3>1. /\ \A d \in Conns \ {c} : toClient'[d] = toClient[d]
          /\ Len(toClient'[c]) = Len(toClient[c]) + Len(msgs)
          /\ \A i \in 1..Len(toClient'[c]) :
               toClient'[c][i] = IF i <= Len(toClient[c]) THEN toClient[c][i]
                                                          ELSE msgs[i - Len(toClient[c])]
      BY <1>t, <2>1, Written
    <3>2. Len(toClient[c]) \in Nat /\ Len(msgs) \in Nat
      BY <1>t, <2>1
    <3>3. ASSUME NEW i \in 1..Len(toClient'[c])
          PROVE  \/ \E j \in 1..Len(toClient[c]) : toClient'[c][i] = toClient[c][j]
                 \/ toClient'[c][i].frame \in {NoFrame, Snapshot}
      <4>1. CASE i <= Len(toClient[c])
        BY <3>1, <3>2, <4>1
      <4>2. CASE ~(i <= Len(toClient[c]))
        <5>1. i - Len(toClient[c]) \in 1..Len(msgs)
          BY <3>1, <3>2, <4>2
        <5> QED BY <2>1, <3>1, <4>2, <5>1
      <4> QED BY <4>1, <4>2
    <3> QED BY <1>1, <2>0, <3>1, <3>3 DEF FrameInFlight
  <2>2. CASE UNCHANGED toClient
    BY <1>1, <2>0, <2>2 DEF FrameInFlight
  <2>3. CASE Write(c, <<DaemonMsg("hello_ack", NoFrame, 0), DaemonMsg("snapshot", Snapshot, 0)>>)
    <3>1. <<DaemonMsg("hello_ack", NoFrame, 0), DaemonMsg("snapshot", Snapshot, 0)>> \in Seq(DaemonMessage)
      BY MessageTypes DEF TypeOK
    <3>2. \A i \in 1..Len(<<DaemonMsg("hello_ack", NoFrame, 0), DaemonMsg("snapshot", Snapshot, 0)>>) :
            <<DaemonMsg("hello_ack", NoFrame, 0), DaemonMsg("snapshot", Snapshot, 0)>>[i].frame
              \in {NoFrame, Snapshot}
      BY DEF DaemonMsg
    <3> QED BY <2>1, <2>3, <3>1, <3>2
  <2>4. ASSUME NEW kind \in {"snapshot", "busy", "error", "detach_ack"}, NEW s \in {NoFrame, Snapshot},
               NEW req \in Nat, Write(c, <<DaemonMsg(kind, s, req)>>)
        PROVE  FrameInFlight(f) \/ f = Snapshot
    <3>1. <<DaemonMsg(kind, s, req)>> \in Seq(DaemonMessage)
      BY MessageTypes DEF TypeOK
    <3>2. \A i \in 1..Len(<<DaemonMsg(kind, s, req)>>) :
            <<DaemonMsg(kind, s, req)>>[i].frame \in {NoFrame, Snapshot}
      BY DEF DaemonMsg
    <3> QED BY <2>1, <2>4, <3>1, <3>2
  <2>5. work[c] \in Nat
    BY <1>t
  <2> QED BY <2>2, <2>3, <2>4, <2>5, HandlerWrites
<1>2. ASSUME NEW n, TokenInFlight(n)'
      PROVE  TokenInFlight(n)
  <2>1. CASE ReadFramePublished(c)
    <3>1. /\ toDaemon[c] # <<>> /\ Head(toDaemon[c]).kind = "frame_published"
          /\ toDaemon' = [toDaemon EXCEPT ![c] = Tail(@)]
      BY <2>1 DEF ReadFramePublished, Reads
    <3>2. /\ \A d \in Conns \ {c} : handler'[d] = handler[d] /\ work'[d] = work[d]
          /\ handler'[c] = "publish" => work'[c] = Arg(c)
      BY <1>t, <2>1 DEF ReadFramePublished, GoTo
    <3>3. 1 \in 1..Len(toDaemon[c]) /\ toDaemon[c][1].kind = "frame_published" /\ toDaemon[c][1].n = Arg(c)
      BY <1>t, <3>1 DEF Arg
    <3>4. /\ \A d \in Conns \ {c} : toDaemon'[d] = toDaemon[d]
          /\ \A i \in 1..Len(toDaemon'[c]) :
               i + 1 \in 1..Len(toDaemon[c]) /\ toDaemon'[c][i] = toDaemon[c][i + 1]
      BY <1>t, <3>1
    <3>5. PICK d \in Conns :
            \/ handler'[d] = "publish" /\ work'[d] = n
            \/ \E i \in 1..Len(toDaemon'[d]) :
                 toDaemon'[d][i].kind = "frame_published" /\ toDaemon'[d][i].n = n
      BY <1>2 DEF TokenInFlight
    <3>6. CASE d = c
      BY <3>2, <3>3, <3>4, <3>5, <3>6 DEF TokenInFlight
    <3>7. CASE d # c
      BY <3>2, <3>4, <3>5, <3>7 DEF TokenInFlight
    <3> QED BY <3>6, <3>7
  <2>2. CASE ~ReadFramePublished(c)
    <3>1. /\ \A d \in Conns \ {c} : handler'[d] = handler[d] /\ work'[d] = work[d]
          /\ handler'[c] # "publish"
      BY <1>t, <2>2 DEF HandlerStep, ReadHello, SetActiveConn, Greet, TakeUpdate, WriteSnapshot,
         ReadDetach, ReleaseLease, AckDetach, ReadInteraction, RefuseInteraction, SignalInteraction,
         PublishFrame, SignalPublished, HandlerReturns, HandlerEnds, Reads, GoTo, Hangup
    <3>2. \/ UNCHANGED toDaemon
          \/ toDaemon[c] # <<>> /\ toDaemon' = [toDaemon EXCEPT ![c] = Tail(@)]
          \/ toDaemon' = [toDaemon EXCEPT ![c] = <<>>]
      BY <2>2 DEF HandlerStep, ReadHello, SetActiveConn, Greet, TakeUpdate, WriteSnapshot,
         ReadDetach, ReleaseLease, AckDetach, ReadInteraction, RefuseInteraction, SignalInteraction,
         PublishFrame, SignalPublished, HandlerReturns, HandlerEnds, Reads, Hangup
    <3>3. /\ \A d \in Conns \ {c} : toDaemon'[d] = toDaemon[d]
          /\ \A i \in 1..Len(toDaemon'[c]) :
               \E j \in 1..Len(toDaemon[c]) : toDaemon'[c][i] = toDaemon[c][j]
      <4>1. CASE UNCHANGED toDaemon
        BY <4>1
      <4>2. CASE toDaemon[c] # <<>> /\ toDaemon' = [toDaemon EXCEPT ![c] = Tail(@)]
        <5>1. \A i \in 1..Len(toDaemon'[c]) :
                i + 1 \in 1..Len(toDaemon[c]) /\ toDaemon'[c][i] = toDaemon[c][i + 1]
          BY <1>t, <4>2
        <5> QED BY <1>t, <4>2, <5>1
      <4>3. CASE toDaemon' = [toDaemon EXCEPT ![c] = <<>>]
        BY <1>t, <4>3
      <4> QED BY <3>2, <4>1, <4>2, <4>3
    <3> QED BY <1>2, <3>1, <3>3 DEF TokenInFlight
  <2> QED BY <2>1, <2>2
<1> QED BY <1>1, <1>2

\* A terminal only moves frames from the socket to its cache, and acknowledges
\* the token of the frame it draws.
LEMMA ClientFlight ==
  ASSUME TypeOK, NEW c \in Conns, ClientStep(c)
  PROVE  /\ \A f : FrameInFlight(f)' => FrameInFlight(f)
         /\ \A n : TokenInFlight(n)' =>
              TokenInFlight(n) \/ (MakeVisible(cache[c]) /\ n = cache[c].publicationGeneration)
<1>t. /\ toDaemon \in [Conns -> Seq(ClientMessage)] /\ toClient \in [Conns -> Seq(DaemonMessage)]
      /\ cache \in [Conns -> FrameType]
  BY DEF TypeOK, ConnTypeOK, TerminalTypeOK
<1>m. /\ \A d \in Conns \ {c} : cache'[d] = cache[d]
      /\ \/ UNCHANGED <<toClient, cache>>
         \/ Leave(c)
         \/ ReceiveInitialSnapshot(c) \/ ReceiveSnapshot(c) \/ ReceiveError(c)
  BY ClientMoves
<1>1. ASSUME NEW f, FrameInFlight(f)'
      PROVE  FrameInFlight(f)
  <2>1. CASE UNCHANGED <<toClient, cache>>
    BY <1>1, <2>1 DEF FrameInFlight
  <2>2. CASE Leave(c)
    <3>1. /\ toClient' = [toClient EXCEPT ![c] = <<>>] /\ cache' = [cache EXCEPT ![c] = NoFrame]
      BY <2>2 DEF Leave
    <3> QED BY <1>1, <1>t, <3>1 DEF FrameInFlight
  <2>3. CASE ReceiveInitialSnapshot(c) \/ ReceiveSnapshot(c) \/ ReceiveError(c)
    <3>1. PICK n \in {1, 2} : /\ n = IF ReceiveInitialSnapshot(c) THEN 2 ELSE 1
                              /\ n <= Len(toClient[c])
                              /\ \A x \in Conns \ {c} : toClient'[x] = toClient[x]
                              /\ Len(toClient'[c]) = Len(toClient[c]) - n
                              /\ \A i \in 1..Len(toClient'[c]) : toClient'[c][i] = toClient[c][i + n]
      BY <2>3, ClientReads
    <3>2. Len(toClient[c]) \in Nat
      BY <1>t
    <3>0. /\ n \in {1, 2} /\ n <= Len(toClient[c])
          /\ Len(toClient'[c]) = Len(toClient[c]) - n
      BY <3>1
    <3>3. \A i \in 1..Len(toClient'[c]) : i + n \in 1..Len(toClient[c])
      BY <3>0, <3>2
    <3>4. cache'[c] = cache[c] \/ \E i \in 1..Len(toClient[c]) : cache'[c] = toClient[c][i].frame
      <4>1. CASE ReceiveInitialSnapshot(c)
        <5>1. cache'[c] = toClient[c][2].frame /\ 2 \in 1..Len(toClient[c])
          BY <1>t, <3>1, <3>2, <4>1 DEF ReceiveInitialSnapshot
        <5> QED BY <5>1
      <4>2. CASE ReceiveSnapshot(c)
        <5>1. cache'[c] \in {cache[c], Head(toClient[c]).frame}
          BY <1>t, <4>2 DEF ReceiveSnapshot, Received
        <5>2. Head(toClient[c]) = toClient[c][1] /\ 1 \in 1..Len(toClient[c])
          BY <1>t, <3>1, <3>2
        <5> QED BY <5>1, <5>2
      <4>3. CASE ReceiveError(c)
        BY <4>3 DEF ReceiveError
      <4> QED BY <2>3, <4>1, <4>2, <4>3
    <3>n. CASE f = NoFrame
      BY <3>n DEF FrameInFlight
    <3> SUFFICES ASSUME f # NoFrame PROVE FrameInFlight(f)
      BY <3>n
    <3>5. PICK d \in Conns :
            cache'[d] = f \/ \E i \in 1..Len(toClient'[d]) : toClient'[d][i].frame = f
      BY <1>1 DEF FrameInFlight, NoFrame
    <3>6. CASE d = c
      <4>1. CASE cache'[c] = f
        BY <3>4, <4>1 DEF FrameInFlight
      <4>2. ASSUME NEW i \in 1..Len(toClient'[c]), toClient'[c][i].frame = f
            PROVE  FrameInFlight(f)
        <5>1. i + n \in 1..Len(toClient[c]) /\ toClient[c][i + n].frame = f
          BY <3>1, <3>3, <4>2
        <5> QED BY <5>1 DEF FrameInFlight
      <4> QED BY <3>5, <3>6, <4>1, <4>2
    <3>7. CASE d # c
      BY <1>m, <3>1, <3>5, <3>7 DEF FrameInFlight
    <3> QED BY <3>6, <3>7
  <2> QED BY <1>m, <2>1, <2>2, <2>3
<1>2. ASSUME NEW n, TokenInFlight(n)'
      PROVE  TokenInFlight(n) \/ (MakeVisible(cache[c]) /\ n = cache[c].publicationGeneration)
  <2>1. CASE UNCHANGED <<toDaemon, handler, work>>
    BY <1>2, <2>1 DEF TokenInFlight
  <2>2. ASSUME NEW msg \in ClientMessage, Send(c, msg),
               /\ \A d \in Conns \ {c} : handler'[d] = handler[d] /\ work'[d] = work[d]
               /\ UNCHANGED <<handler, work>> \/ handler'[c] = "hello",
               msg.kind = "frame_published" =>
                 MakeVisible(cache[c]) /\ msg.n = cache[c].publicationGeneration
        PROVE  TokenInFlight(n) \/ (MakeVisible(cache[c]) /\ n = cache[c].publicationGeneration)
    <3>0. /\ \A d \in Conns \ {c} : toDaemon'[d] = toDaemon[d]
          /\ toDaemon'[c] = Append(toDaemon[c], msg) /\ toDaemon[c] \in Seq(ClientMessage)
      BY <1>t, <2>2 DEF Send
    <3>1. \A i \in 1..Len(toDaemon'[c]) :
            toDaemon'[c][i] = msg \/ (i \in 1..Len(toDaemon[c]) /\ toDaemon'[c][i] = toDaemon[c][i])
      BY <3>0, <2>2
    <3>2. PICK d \in Conns :
            \/ handler'[d] = "publish" /\ work'[d] = n
            \/ \E i \in 1..Len(toDaemon'[d]) :
                 toDaemon'[d][i].kind = "frame_published" /\ toDaemon'[d][i].n = n
      BY <1>2 DEF TokenInFlight
    <3>3. CASE d = c
      BY <2>2, <3>1, <3>2, <3>3 DEF TokenInFlight
    <3>4. CASE d # c
      BY <2>2, <3>0, <3>2, <3>4 DEF TokenInFlight
    <3> QED BY <3>3, <3>4
  <2>3. CASE Dial(c)
    <3>1. ClientMsg("hello", 0) \in ClientMessage /\ ClientMsg("hello", 0).kind = "hello"
      BY MessageTypes DEF ClientMsg
    <3>2. /\ \A d \in Conns \ {c} : handler'[d] = handler[d] /\ work'[d] = work[d]
          /\ handler'[c] = "hello"
      BY <2>3 DEF Dial, GoTo, TypeOK, ConnTypeOK
    <3>3. Send(c, ClientMsg("hello", 0))
      BY <2>3 DEF Dial
    <3>4. ClientMsg("hello", 0).kind # "frame_published"
      BY <3>1
    <3> QED BY <2>2, <3>1, <3>2, <3>3, <3>4
  <2>4. CASE DrawUpdate(c) \/ Redraw(c)
    <3>1. MakeVisible(cache[c]) /\ UNCHANGED <<handler, work>>
          /\ \/ UNCHANGED toDaemon
             \/ Send(c, ClientMsg("frame_published", cache[c].publicationGeneration))
      BY <2>4 DEF DrawUpdate, Redraw, View
    <3>2. cache[c].publicationGeneration \in Nat
      BY <1>t DEF FrameType
    <3>3. /\ ClientMsg("frame_published", cache[c].publicationGeneration) \in ClientMessage
          /\ ClientMsg("frame_published", cache[c].publicationGeneration).n = cache[c].publicationGeneration
      BY <3>2, MessageTypes DEF ClientMsg
    <3> QED BY <2>1, <2>2, <3>1, <3>3
  <2>5. CASE Interact(c) \/ Close(c)
    <3>1. nextReq[c] + 1 \in Nat
      BY DEF TypeOK, TerminalTypeOK
    <3>2. /\ ClientMsg("interaction", nextReq[c] + 1) \in ClientMessage
          /\ ClientMsg("interaction", nextReq[c] + 1).kind = "interaction"
          /\ ClientMsg("detach", nextReq[c] + 1) \in ClientMessage
          /\ ClientMsg("detach", nextReq[c] + 1).kind = "detach"
      BY <3>1, MessageTypes DEF ClientMsg
    <3>3. /\ UNCHANGED <<handler, work>>
          /\ \/ UNCHANGED toDaemon
             \/ Send(c, ClientMsg("interaction", nextReq[c] + 1))
             \/ Send(c, ClientMsg("detach", nextReq[c] + 1))
      BY <2>5 DEF Interact, Close, ClientOnly
    <3> QED BY <2>1, <2>2, <3>2, <3>3
  <2>6. CASE ReceiveInitialSnapshot(c) \/ DialFails(c) \/ ReceiveSnapshot(c) \/ ReceiveError(c)
             \/ ReceiveEOF(c) \/ RequestTimeout(c) \/ ReceiveDetachAck(c) \/ Quit(c)
    <3>1. UNCHANGED <<toDaemon, handler, work>>
      BY <2>6 DEF ReceiveInitialSnapshot, DialFails, ReceiveSnapshot, ReceiveError, ReceiveEOF,
         RequestTimeout, ReceiveDetachAck, Quit, Leave, ClientOnly
    <3> QED BY <2>1, <3>1
  <2> QED BY <2>3, <2>4, <2>5, <2>6 DEF ClientStep
<1> QED BY <1>1, <1>2

\* An agent's request touches no connection.
LEMMA AgentFlight ==
  ASSUME AgentNext
  PROVE  UNCHANGED <<handler, work, toDaemon, toClient, cache>>
BY DEF AgentNext, AgentHello, AgentOperation, AgentMalformed, AgentRefused, SignalSnapshot,
   AgentWaits, connVars, clientVars

------------------------------------------------------------------------------
(* The inductive invariant                                                   *)

DaemonInv ==
  /\ TypeOK
  /\ EngineInv
  /\ LeaseInv
  /\ DetachInv
  /\ FramesGood
  /\ TokensDrawn
  /\ NumbersFresh

\* At the start no connection, frame or token is on its way.
LEMMA DaemonInitInv == Init => DaemonInv
<1> SUFFICES ASSUME Init PROVE DaemonInv
  OBVIOUS
<1>1. EngineInv
  <2>1. EngineTypeOK
    BY DEF Init, EngineInit, BrokerInit, EngineTypeOK
  <2>2. Bounded
    <3>1. Len(pendingCommits) = 0 /\ maxPendingCommits \in Nat
      BY LimitFacts DEF Init, EngineInit
    <3>2. shown.revision = 0 /\ shown.seen = 0
      BY DEF Init, EngineInit
    <3> QED BY <3>1, <3>2 DEF Init, EngineInit, Bounded
  <2>3. CommittedWasVisible /\ PublishedWasVisible
    BY DEF Init, EngineInit, BrokerInit, CommittedWasVisible, PublishedWasVisible
  <2> QED BY <2>1, <2>2, <2>3 DEF EngineInv
<1>2. NoFrame \in FrameType
  BY DEF NoFrame, FrameType
<1>3. TypeOK
  <2>1. WaitTypeOK /\ SessionTypeOK /\ HubTypeOK
    <3>1. waiter = [w \in Waiters |-> "out"] /\ got = [w \in Waiters |-> FALSE] /\ eventCh = FALSE
      BY DEF Init, WaitInit
    <3>2. WaitTypeOK
      BY <3>1 DEF WaitTypeOK
    <3>3. SessionTypeOK
      BY DEF Init, SessionInit, SessionTypeOK
    <3>4. HubTypeOK
      BY DEF Init, HubTypeOK
    <3> QED BY <3>2, <3>3, <3>4
  <2>2. ConnTypeOK /\ TerminalTypeOK
    BY <1>2 DEF Init, ConnTypeOK, TerminalTypeOK
  <2> QED BY <1>1, <2>1, <2>2 DEF EngineInv, TypeOK
<1>4. LeaseInv /\ DetachInv
  BY DaemonBounds DEF Init, LeaseInv, DetachInv, Holding, Attached, Serving
<1>5. FramesGood
  <2>1. ASSUME NEW f, FrameInFlight(f) PROVE f = NoFrame
    BY <2>1 DEF Init, FrameInFlight
  <2>2. FrameGood(NoFrame)
    <3>1. /\ NoFrame.revision = 0 /\ NoFrame.seen = 0 /\ NoFrame.publicationGeneration = 0
      BY DEF NoFrame
    <3>2. revision = 0 /\ lastSeq = 0 /\ publicationGeneration = 0 /\ pendingCommits = <<>>
      BY DEF Init, EngineInit
    <3> QED BY <1>2, <3>1, <3>2 DEF FrameGood, TokenStandsFor
  <2> QED BY <2>1, <2>2 DEF FramesGood
<1>6. TokensDrawn /\ NumbersFresh
  BY DEF Init, EngineInit, SessionInit, TokensDrawn, TokenInFlight, NumbersFresh
<1> QED BY <1>1, <1>3, <1>4, <1>5, <1>6 DEF DaemonInv

\* The frames and tokens in flight stay good if the engine is called in one of
\* the ways of EngineCall and nothing but good ones are added.
LEMMA FlightInv ==
  ASSUME EngineInv, FramesGood, TokensDrawn, EngineCall,
         \A f : FrameInFlight(f)' => FrameInFlight(f) \/ (f = Snapshot /\ FrameGood(f)'),
         \A n : TokenInFlight(n)' => TokenInFlight(n) \/ TokenDrawn(n)'
  PROVE  EngineInv' /\ FramesGood' /\ TokensDrawn'
<1>1. /\ EngineInv'
      /\ \A f : FrameGood(f) => FrameGood(f)'
      /\ \A n : TokenDrawn(n) => TokenDrawn(n)'
  BY CallKeeps
<1>2. ASSUME NEW f, FrameInFlight(f)' PROVE FrameGood(f)'
  BY <1>1, <1>2 DEF FramesGood
<1>3. ASSUME NEW n, TokenInFlight(n)' PROVE TokenDrawn(n)'
  BY <1>1, <1>3 DEF TokensDrawn
<1> QED BY <1>1, <1>2, <1>3 DEF FramesGood, TokensDrawn

\* Every step of an agent, a handler or a terminal preserves the invariant.
LEMMA DaemonNextInv ==
  ASSUME DaemonInv, [Next]_vars
  PROVE  DaemonInv'
<1> USE DEF DaemonInv
<1>1. CASE AgentNext
  <2>1. EngineCall /\ NumbersFresh'
    BY <1>1, AgentCalls
  <2>2. LeaseInv' /\ DetachInv'
    BY <1>1, AgentLease, AgentDetach
  <2>3. /\ \A f : FrameInFlight(f)' => FrameInFlight(f)
        /\ \A n : TokenInFlight(n)' => TokenInFlight(n)
    BY <1>1, AgentFlight DEF FrameInFlight, TokenInFlight, NoFrame
  <2>4. EngineInv' /\ FramesGood' /\ TokensDrawn'
    BY <2>1, <2>3, FlightInv
  <2>5. TypeOK'
    BY <1>1, <2>4, AgentType DEF TypeOK, EngineInv
  <2> QED BY <2>1, <2>2, <2>4, <2>5
<1>2. ASSUME NEW c \in Conns, HandlerStep(c)
      PROVE  DaemonInv'
  <2>1. EngineCall /\ UNCHANGED <<lastSeq, expectedMutation>>
    BY <1>2, HandlerCalls
  <2>2. LeaseInv' /\ DetachInv'
    BY <1>2, HandlerLease, HandlerDetach
  <2>3. /\ \A f : FrameInFlight(f)' => FrameInFlight(f) \/ f = Snapshot
        /\ \A n : TokenInFlight(n)' => TokenInFlight(n)
    BY <1>2, HandlerFlight
  <2>4. FrameGood(Snapshot)
    BY SnapshotGood
  <2>5. \A f : FrameGood(f) => FrameGood(f)'
    BY <2>1, CallKeeps
  <2>6. \A f : FrameInFlight(f)' => FrameInFlight(f) \/ (f = Snapshot /\ FrameGood(f)')
    <3>1. ASSUME NEW f, FrameInFlight(f)', f = Snapshot PROVE FrameGood(f)'
      BY <2>4, <2>5, <3>1
    <3> QED BY <2>3, <3>1
  <2>7. EngineInv' /\ FramesGood' /\ TokensDrawn'
    BY <2>1, <2>3, <2>6, FlightInv
  <2>8. TypeOK'
    BY <1>2, <2>7, HandlerType DEF TypeOK, EngineInv
  <2> QED BY <2>1, <2>2, <2>7, <2>8 DEF NumbersFresh
<1>3. ASSUME NEW c \in Conns, ClientStep(c)
      PROVE  DaemonInv'
  <2>1. EngineCall /\ UNCHANGED <<lastSeq, expectedMutation>>
    BY <1>3, ClientCalls
  <2>2. LeaseInv' /\ DetachInv'
    BY <1>3, ClientLease, ClientDetach
  <2>3. /\ \A f : FrameInFlight(f)' => FrameInFlight(f)
        /\ \A n : TokenInFlight(n)' =>
             TokenInFlight(n) \/ (MakeVisible(cache[c]) /\ n = cache[c].publicationGeneration)
    BY <1>3, ClientFlight
  <2>4. cache[c] \in FrameType /\ FrameGood(cache[c])
    BY DEF FramesGood, FrameInFlight, FrameGood
  <2>6. \A n : TokenInFlight(n)' => TokenInFlight(n) \/ TokenDrawn(n)'
    <3> SUFFICES ASSUME NEW n, TokenInFlight(n)', ~TokenInFlight(n) PROVE TokenDrawn(n)'
      OBVIOUS
    <3>1. PICK s \in FrameType : s = cache[c]
      BY <2>4
    <3>2. MakeVisible(s) /\ FrameGood(s) /\ n = s.publicationGeneration
      BY <2>3, <2>4, <3>1
    <3>3. TokenDrawn(s.publicationGeneration)'
      BY <3>2, DrawnMayBeAcknowledged
    <3> QED BY <3>2, <3>3
  <2>7. EngineInv' /\ FramesGood' /\ TokensDrawn'
    BY <2>1, <2>3, <2>6, FlightInv
  <2>8. TypeOK'
    BY <1>3, <2>7, ClientType DEF TypeOK, EngineInv
  <2> QED BY <2>1, <2>2, <2>7, <2>8 DEF NumbersFresh
<1>4. CASE UNCHANGED vars
  <2>0. UNCHANGED <<engineVars, waitVars, sessionVars, hubVars, connVars, clientVars>>
    BY <1>4 DEF vars
  <2>1. EngineInv'
    BY <2>0, EngineStutter
  <2>2. TypeOK'
    BY <2>0, <2>1 DEF TypeOK, EngineInv, WaitTypeOK, SessionTypeOK, HubTypeOK, ConnTypeOK,
       TerminalTypeOK, waitVars, sessionVars, hubVars, connVars, clientVars
  <2>3. LeaseInv' /\ DetachInv'
    BY <2>0, LeaseStutter DEF DetachInv, hubVars, connVars, clientVars
  <2>4. EngineCall
    BY <2>0 DEF EngineCall
  <2>5. /\ \A f : FrameInFlight(f)' => FrameInFlight(f)
        /\ \A n : TokenInFlight(n)' => TokenInFlight(n)
    BY <2>0 DEF FrameInFlight, TokenInFlight, NoFrame, connVars, clientVars
  <2>6. FramesGood' /\ TokensDrawn'
    BY <2>4, <2>5, FlightInv
  <2>7. NumbersFresh'
    BY <2>0 DEF NumbersFresh, engineVars, sessionVars
  <2> QED BY <2>1, <2>2, <2>3, <2>6, <2>7
<1> QED BY <1>1, <1>2, <1>3, <1>4 DEF Next

\* DaemonInv is an invariant of the daemon with its agents and terminals.
LEMMA DaemonInvHolds == Spec => []DaemonInv
<1>1. Init => DaemonInv
  BY DaemonInitInv
<1>2. DaemonInv /\ [Next]_vars => DaemonInv'
  BY DaemonNextInv
<1> QED BY <1>1, <1>2, PTL DEF Spec

\* Queues, caches, handlers and the agent's session keep their types.
THEOREM DaemonTypeCorrect == Spec => []TypeOK
<1>1. DaemonInv => TypeOK
  BY DEF DaemonInv
<1> QED BY <1>1, DaemonInvHolds, PTL

\* For any number of connections: one served terminal at a time, it is the one
\* closeActiveConn closes, and no handler takes the lease with it.
THEOREM LeaseIsExclusive == Spec => []LeaseExclusive
<1>1. DaemonInv => LeaseExclusive
  <2> SUFFICES ASSUME DaemonInv PROVE LeaseExclusive
    OBVIOUS
  <2>1. activeConn # NoConn => activeConn \in Conns
    BY DEF DaemonInv, TypeOK, HubTypeOK
  <2> QED BY <2>1 DEF DaemonInv, LeaseInv, LeaseExclusive, Holding
<1> QED BY <1>1, DaemonInvHolds, PTL

\* A client that can read its detach_ack does not hold the lease any more.
THEOREM DetachFreesLease == Spec => []DetachAckMeansFree
<1>1. DaemonInv => DetachAckMeansFree
  BY DEF DaemonInv, DetachInv, DetachAckMeansFree
<1> QED BY <1>1, DaemonInvHolds, PTL

\* A commit is reported to the agent only when a terminal has drawn it, though
\* frames and acknowledgements cross on sockets and terminals die and return.
THEOREM DaemonCommitsWereVisible == Spec => [](CommittedWasVisible /\ PublishedWasVisible)
<1>1. DaemonInv => CommittedWasVisible /\ PublishedWasVisible
  BY DEF DaemonInv, EngineInv
<1> QED BY <1>1, DaemonInvHolds, PTL

------------------------------------------------------------------------------
(* Refinement                                                                *)

\* Every way in which the daemon calls the engine is a step of the abstract
\* barrier, or leaves it alone.
LEMMA CallRefines ==
  ASSUME EngineInv, EngineCall
  PROVE  [Barrier!Next]_(Barrier!barrierVars)
<1> USE DEF Barrier!barrierVars, Barrier!Next
<1>t. lastSeq \in Nat /\ shown.seen \in Nat
  BY DEF EngineInv, EngineTypeOK
<1>1. ASSUME NEW seq \in Nat, seq > lastSeq, Apply(seq)
      PROVE  [Barrier!Next]_(Barrier!barrierVars)
  <2>1. CASE ApplyCommit(seq)
    <3>1. /\ lastSeq' = seq /\ pendingCommits' = Append(pendingCommits, lastSeq')
          /\ UNCHANGED <<shown, acknowledged>>
      BY <2>1 DEF ApplyCommit
    <3> QED BY <1>1, <3>1 DEF Barrier!Commit
  <2>2. CASE ~ApplyCommit(seq)
    <3>1. lastSeq' = seq /\ UNCHANGED <<shown, acknowledged, pendingCommits>>
      BY <1>1, <2>2 DEF Apply, Succeeds, Fails, ApplyCommitOverLimit, ApplyChanged,
         ApplyProjected, ApplyUnchanged, ApplyRejected, publicationVars
    <3> QED BY <1>1, <3>1 DEF Barrier!Mutate
  <2> QED BY <2>1, <2>2
<1>2. CASE /\ Publish
           /\ \A i \in 1..Len(pendingCommits) : pendingCommits[i] <= shown.seen
  <2>1. /\ acknowledged' = acknowledged \o pendingCommits /\ pendingCommits' = <<>>
        /\ UNCHANGED <<lastSeq, shown>>
    BY <1>2 DEF Publish
  <2> QED BY <1>2, <2>1 DEF Barrier!Acknowledge
<1>3. CASE InteractLocally \/ InteractWithEvent \/ TakeEvent \/ UNCHANGED engineVars
  <2>1. UNCHANGED <<lastSeq, shown, pendingCommits, acknowledged>>
    BY <1>3 DEF InteractLocally, InteractWithEvent, TakeEvent, engineVars, publicationVars
  <2> QED BY <2>1
<1>4. ASSUME NEW s \in FrameType, FrameGood(s), MakeVisible(s)
      PROVE  [Barrier!Next]_(Barrier!barrierVars)
  <2>1. s.revision <= revision /\ s.seen <= lastSeq
    BY <1>4 DEF FrameGood
  <2>2. EngineInv' /\ shown.seen <= shown'.seen
    BY <1>4, <2>1, MakeVisibleInv
  <2>3. UNCHANGED <<lastSeq, pendingCommits, acknowledged>>
    BY <1>4 DEF MakeVisible, publicationVars
  <2>4. shown'.seen \in shown.seen..lastSeq
    BY <1>t, <2>2, <2>3 DEF EngineInv, EngineTypeOK, Bounded
  <2> QED BY <2>3, <2>4 DEF Barrier!Show
<1> QED BY <1>1, <1>2, <1>3, <1>4 DEF EngineCall

\* The daemon, its sockets and its terminals implement the commit barrier.
THEOREM DaemonImplementsBarrier == Spec => BarrierImplemented
<1>1. Init => Barrier!Init
  BY DEF Init, EngineInit, Barrier!Init
<1>2. DaemonInv /\ [Next]_vars => [Barrier!Next]_(Barrier!barrierVars)
  <2> SUFFICES ASSUME DaemonInv, [Next]_vars PROVE EngineCall
    BY CallRefines DEF DaemonInv
  <2>1. CASE UNCHANGED vars
    BY <2>1 DEF vars, EngineCall
  <2> QED BY <2>1, AgentCalls, HandlerCalls, ClientCalls DEF DaemonInv, Next
<1> QED BY <1>1, <1>2, DaemonInvHolds, PTL DEF Spec, BarrierImplemented, Barrier!Spec

------------------------------------------------------------------------------
(* No terminal is left with an old picture                                   *)

\* q is behind f in redraw order and its snapshots are in that order, none of
\* them ahead of generation top.
Ordered(f, q, top) ==
  /\ f.renderGeneration <= top
  /\ \A i \in 1..Len(q) : q[i].kind = "snapshot" =>
       f.renderGeneration <= q[i].frame.renderGeneration /\ q[i].frame.renderGeneration <= top
  /\ \A i, j \in 1..Len(q) : i <= j /\ q[i].kind = "snapshot" /\ q[j].kind = "snapshot" =>
       q[i].frame.renderGeneration <= q[j].frame.renderGeneration

IsCurrent(f, gen, top) == f.publicationGeneration = gen /\ f.renderGeneration = top

\* Whoever has f and reads q ends with a frame of generations gen and top.
EndsWith(f, q, gen, top) ==
  \/ (\A i \in 1..Len(q) : q[i].kind # "snapshot") /\ IsCurrent(f, gen, top)
  \/ \E i \in 1..Len(q) : /\ q[i].kind = "snapshot" /\ IsCurrent(q[i].frame, gen, top)
                          /\ \A j \in 1..Len(q) : q[j].kind = "snapshot" => j <= i

\* UpToDate in terms of the last snapshot in the queue or the cache.
LEMMA UpToDateMeans ==
  ASSUME NEW c \in Conns
  PROVE  UpToDate(c) <=> EndsWith(cache[c], toClient[c], publicationGeneration, renderGeneration)
BY DEF UpToDate, Snapshots, Current, EndsWith, IsCurrent

\* q2 is q with msgs behind it, and q2 is what is left of q after n reads.
Extends(q2, q, msgs) ==
  /\ Len(q2) = Len(q) + Len(msgs)
  /\ \A i \in 1..Len(q2) : q2[i] = IF i <= Len(q) THEN q[i] ELSE msgs[i - Len(q)]

Leftover(q2, q, n) ==
  /\ n <= Len(q) /\ Len(q2) = Len(q) - n
  /\ \A i \in 1..Len(q2) : q2[i] = q[i + n]

\* Every message in flight has a redraw number.
LEMMA RedrawOrder ==
  ASSUME NEW q \in Seq(DaemonMessage), NEW i \in 1..Len(q)
  PROVE  q[i].frame.renderGeneration \in Nat
<1>1. q[i] \in DaemonMessage
  OBVIOUS
<1>2. q[i].frame \in FrameType
  BY <1>1 DEF DaemonMessage
<1> QED BY <1>2 DEF FrameType

\* Snapshots in order below one number are below any later one.
LEMMA OrderedLater ==
  ASSUME NEW f \in FrameType, NEW q \in Seq(DaemonMessage), NEW top \in Nat, NEW later \in Nat,
         top <= later, Ordered(f, q, top)
  PROVE  Ordered(f, q, later)
<1>1. f.renderGeneration \in Nat
  BY DEF FrameType
<1> QED BY <1>1, RedrawOrder DEF Ordered

\* A write keeps the order if its snapshots are of the newest generation.
LEMMA OrderedWrite ==
  ASSUME NEW f \in FrameType, NEW q \in Seq(DaemonMessage), NEW q2 \in Seq(DaemonMessage),
         NEW msgs \in Seq(DaemonMessage), NEW top \in Nat,
         Ordered(f, q, top), Extends(q2, q, msgs),
         \A i \in 1..Len(msgs) : msgs[i].kind = "snapshot" => msgs[i].frame.renderGeneration = top
  PROVE  Ordered(f, q2, top)
<1>1. f.renderGeneration \in Nat /\ f.renderGeneration <= top
  BY DEF FrameType, Ordered
<1>2. ASSUME NEW i \in 1..Len(q2), q2[i].kind = "snapshot"
      PROVE  \/ i \in 1..Len(q) /\ q2[i] = q[i]
             \/ ~(i <= Len(q)) /\ q2[i].frame.renderGeneration = top
  <2>1. Len(q) \in Nat /\ Len(msgs) \in Nat
    OBVIOUS
  <2>2. CASE i <= Len(q)
    BY <2>1, <2>2 DEF Extends
  <2>3. CASE ~(i <= Len(q))
    <3>1. i - Len(q) \in 1..Len(msgs) /\ q2[i] = msgs[i - Len(q)]
      BY <2>1, <2>3 DEF Extends
    <3> QED BY <1>2, <2>3, <3>1
  <2> QED BY <2>2, <2>3
<1>3. ASSUME NEW i \in 1..Len(q2), q2[i].kind = "snapshot"
      PROVE  /\ f.renderGeneration <= q2[i].frame.renderGeneration
             /\ q2[i].frame.renderGeneration <= top
  BY <1>1, <1>2, <1>3 DEF Ordered
<1>4. ASSUME NEW i \in 1..Len(q2), NEW j \in 1..Len(q2), i <= j,
             q2[i].kind = "snapshot", q2[j].kind = "snapshot"
      PROVE  q2[i].frame.renderGeneration <= q2[j].frame.renderGeneration
  <2>1. CASE j \in 1..Len(q) /\ q2[j] = q[j]
    <3>1. i \in 1..Len(q) /\ q2[i] = q[i]
      BY <1>2, <1>4, <2>1
    <3> QED BY <1>4, <2>1, <3>1 DEF Ordered
  <2>2. CASE q2[j].frame.renderGeneration = top
    BY <1>3, <1>4, <2>2
  <2> QED BY <1>2, <1>4, <2>1, <2>2
<1> QED BY <1>1, <1>3, <1>4 DEF Ordered

\* A read keeps the order, whether the client keeps its frame or takes one of
\* those it has read.
LEMMA OrderedRead ==
  ASSUME NEW f \in FrameType, NEW q \in Seq(DaemonMessage), NEW q2 \in Seq(DaemonMessage),
         NEW top \in Nat, NEW n \in {1, 2}, Ordered(f, q, top), Leftover(q2, q, n), NEW f2,
         f2 = f \/ (q[n].kind = "snapshot" /\ f2 = q[n].frame)
  PROVE  Ordered(f2, q2, top)
<1>1. /\ Len(q) \in Nat /\ n \in 1..Len(q)
      /\ \A i \in 1..Len(q2) : i + n \in 1..Len(q) /\ n <= i + n /\ q2[i] = q[i + n]
  BY DEF Leftover
<1>2. ASSUME NEW i \in 1..Len(q2), NEW j \in 1..Len(q2), i <= j,
             q2[i].kind = "snapshot", q2[j].kind = "snapshot"
      PROVE  q2[i].frame.renderGeneration <= q2[j].frame.renderGeneration
  <2>1. i + n <= j + n
    BY <1>2
  <2> QED BY <1>1, <1>2, <2>1 DEF Ordered
<1>3. CASE f2 = f
  BY <1>1, <1>2, <1>3 DEF Ordered
<1>4. CASE q[n].kind = "snapshot" /\ f2 = q[n].frame
  <2>1. f2.renderGeneration <= top
    BY <1>1, <1>4 DEF Ordered
  <2>2. ASSUME NEW i \in 1..Len(q2), q2[i].kind = "snapshot"
        PROVE  /\ f2.renderGeneration <= q2[i].frame.renderGeneration
               /\ q2[i].frame.renderGeneration <= top
    BY <1>1, <1>4, <2>2 DEF Ordered
  <2> QED BY <1>2, <2>1, <2>2 DEF Ordered
<1> QED BY <1>3, <1>4

\* Messages without a snapshot do not change where a client ends; ...
LEMMA EndWriteOther ==
  ASSUME NEW f, NEW q \in Seq(DaemonMessage), NEW q2 \in Seq(DaemonMessage),
         NEW msgs \in Seq(DaemonMessage), NEW gen, NEW top,
         EndsWith(f, q, gen, top), Extends(q2, q, msgs),
         \A i \in 1..Len(msgs) : msgs[i].kind # "snapshot"
  PROVE  EndsWith(f, q2, gen, top)
<1>0. Len(q) \in Nat /\ Len(msgs) \in Nat
  OBVIOUS
<1>1. \A i \in 1..Len(q) : i \in 1..Len(q2) /\ q2[i] = q[i]
  BY <1>0 DEF Extends
<1>2. ASSUME NEW i \in 1..Len(q2), q2[i].kind = "snapshot"
      PROVE  i \in 1..Len(q) /\ q2[i] = q[i]
  <2>1. CASE i <= Len(q)
    BY <1>0, <2>1 DEF Extends
  <2>2. CASE ~(i <= Len(q))
    <3>1. i - Len(q) \in 1..Len(msgs) /\ q2[i] = msgs[i - Len(q)]
      BY <1>0, <2>2 DEF Extends
    <3> QED BY <1>2, <3>1
  <2> QED BY <2>1, <2>2
<1>3. CASE (\A i \in 1..Len(q) : q[i].kind # "snapshot") /\ IsCurrent(f, gen, top)
  BY <1>2, <1>3 DEF EndsWith
<1>4. ASSUME NEW i \in 1..Len(q), q[i].kind = "snapshot", IsCurrent(q[i].frame, gen, top),
             \A j \in 1..Len(q) : q[j].kind = "snapshot" => j <= i
      PROVE  EndsWith(f, q2, gen, top)
  <2>1. i \in 1..Len(q2) /\ q2[i] = q[i]
    BY <1>1
  <2>2. \A j \in 1..Len(q2) : q2[j].kind = "snapshot" => j <= i
    BY <1>2, <1>4
  <2> QED BY <1>4, <2>1, <2>2 DEF EndsWith
<1> QED BY <1>3, <1>4 DEF EndsWith

\* ... a current snapshot at the end of the queue settles it; ...
LEMMA EndWriteSnapshot ==
  ASSUME NEW f, NEW q \in Seq(DaemonMessage), NEW q2 \in Seq(DaemonMessage),
         NEW msgs \in Seq(DaemonMessage), NEW gen, NEW top, Extends(q2, q, msgs), msgs # <<>>,
         msgs[Len(msgs)].kind = "snapshot", IsCurrent(msgs[Len(msgs)].frame, gen, top)
  PROVE  EndsWith(f, q2, gen, top)
<1>0. Len(q) \in Nat /\ Len(msgs) \in Nat /\ Len(msgs) # 0
  OBVIOUS
<1>1. Len(q2) \in 1..Len(q2) /\ q2[Len(q2)] = msgs[Len(msgs)]
  BY <1>0 DEF Extends
<1> QED BY <1>1 DEF EndsWith

\* ... and reading on does not change it, unless the client refuses a snapshot.
LEMMA EndRead ==
  ASSUME NEW f, NEW q \in Seq(DaemonMessage), NEW q2 \in Seq(DaemonMessage), NEW gen, NEW top,
         NEW n \in {1, 2}, EndsWith(f, q, gen, top), Leftover(q2, q, n), NEW f2,
         \/ f2 = f /\ \A k \in 1..n : q[k].kind # "snapshot"
         \/ f2 = q[n].frame /\ q[n].kind = "snapshot"
  PROVE  EndsWith(f2, q2, gen, top)
<1>1. /\ Len(q) \in Nat /\ Len(q2) \in Nat /\ n \in 1..Len(q) /\ Len(q2) = Len(q) - n
      /\ \A i \in 1..Len(q2) : i + n \in 1..Len(q) /\ q2[i] = q[i + n]
  BY DEF Leftover
<1>2. \A k \in 1..Len(q) : ~(k <= n) => k - n \in 1..Len(q2) /\ q2[k - n] = q[k]
  <2> SUFFICES ASSUME NEW k \in 1..Len(q), ~(k <= n)
               PROVE  k - n \in 1..Len(q2) /\ q2[k - n] = q[k]
    OBVIOUS
  <2>1. k - n \in 1..Len(q2) /\ (k - n) + n = k
    BY <1>1
  <2> QED BY <1>1, <2>1
<1>3. CASE (\A i \in 1..Len(q) : q[i].kind # "snapshot") /\ IsCurrent(f, gen, top)
  <2>1. f2 = f
    BY <1>1, <1>3
  <2>2. \A i \in 1..Len(q2) : q2[i].kind # "snapshot"
    BY <1>1, <1>3
  <2> QED BY <1>3, <2>1, <2>2 DEF EndsWith
<1>4. ASSUME NEW i \in 1..Len(q), q[i].kind = "snapshot", IsCurrent(q[i].frame, gen, top),
             \A j \in 1..Len(q) : q[j].kind = "snapshot" => j <= i
      PROVE  EndsWith(f2, q2, gen, top)
  <2>1. CASE i <= n
    <3>1. q[n].kind = "snapshot" /\ f2 = q[n].frame
      BY <1>1, <1>4, <2>1
    <3>2. i = n
      BY <1>1, <1>4, <2>1, <3>1
    <3>3. \A j \in 1..Len(q2) : q2[j].kind # "snapshot"
      <4> SUFFICES ASSUME NEW j \in 1..Len(q2), q2[j].kind = "snapshot" PROVE FALSE
        OBVIOUS
      <4>1. j + n <= n
        BY <1>1, <1>4, <3>2
      <4> QED BY <1>1, <4>1
    <3> QED BY <1>4, <3>1, <3>2, <3>3 DEF EndsWith
  <2>2. CASE ~(i <= n)
    <3>1. i - n \in 1..Len(q2) /\ q2[i - n] = q[i]
      BY <1>2, <2>2
    <3>2. ASSUME NEW j \in 1..Len(q2), q2[j].kind = "snapshot" PROVE j <= i - n
      <4>1. j + n <= i
        BY <1>1, <1>4, <3>2
      <4> QED BY <1>1, <4>1
    <3> QED BY <1>4, <3>1, <3>2 DEF EndsWith
  <2> QED BY <2>1, <2>2
<1> QED BY <1>3, <1>4 DEF EndsWith

\* What is on its way to a client that has not been greeted, and that a
\* greeting is followed by its snapshot.
QueueShape ==
  \A c \in Conns :
    /\ handler[c] \in {"hello", "acquired", "greet"} => toClient[c] = <<>>
    /\ client[c] = "dialing" /\ toClient[c] # <<>> /\ toClient[c][1].kind = "hello_ack" =>
         Len(toClient[c]) > 1 /\ toClient[c][2].kind = "snapshot"

SnapshotsOrdered == \A c \in Conns : Ordered(cache[c], toClient[c], renderGeneration)

\* NoStaleTerminal, from the greeting on.
SnapshotDue(c) == updates \/ agent = "signal" \/ handler[c] \in {"snapshot", "signal"}
NeverStale ==
  \A c \in Conns :
    Serving(c) /\ client[c] \in {"dialing", "running"} => UpToDate(c) \/ SnapshotDue(c)

PictureInv == DaemonInv /\ QueueShape /\ SnapshotsOrdered /\ NeverStale

\* An agent's request that changes the generations is on its way to signal.
LEMMA AgentSignals ==
  ASSUME TypeOK, AgentNext
  PROVE  /\ UNCHANGED <<connVars, clientVars>>
         /\ renderGeneration <= renderGeneration'
         /\ UNCHANGED <<publicationGeneration, renderGeneration>> \/ agent' = "signal"
         /\ updates \/ agent = "signal" => updates' \/ agent' = "signal"
<1>t. renderGeneration \in Nat
  BY DEF TypeOK, EngineTypeOK
<1>1. ASSUME NEW seq \in 0..MaxOps, AgentOperation(seq)
      PROVE  /\ UNCHANGED <<connVars, clientVars, updates>> /\ renderGeneration <= renderGeneration'
             /\ \/ agent' = "signal"
                \/ UNCHANGED <<publicationGeneration, renderGeneration, agent>>
  <2>1. CASE Succeeds(seq) /\ agent' = "signal"
    BY <1>t, <1>1, <2>1 DEF AgentOperation, Succeeds, ApplyChanged, ApplyProjected, ApplyUnchanged,
       ApplyCommit
  <2>2. CASE Fails(seq) /\ UNCHANGED agent
    BY <1>t, <1>1, <2>2 DEF AgentOperation, Fails, ApplyCommitOverLimit, ApplyRejected, publicationVars
  <2> QED BY <1>1, <2>1, <2>2 DEF AgentOperation
<1>2. CASE SignalSnapshot
  BY <1>t, <1>2 DEF SignalSnapshot, engineVars, publicationVars
<1>3. CASE AgentWaits
  <2>1. TakeEvent \/ UNCHANGED engineVars
    BY <1>3 DEF AgentWaits, WaitStep, CallWaitEvents, DrainOne, DrainEnds, GoToSleep, DoNotWait,
       WakeUp, GiveUp
  <2> QED BY <1>t, <1>3, <2>1 DEF AgentWaits, TakeEvent, engineVars, publicationVars, hubVars
<1>4. ASSUME NEW seq, AgentHello \/ AgentMalformed(seq) \/ AgentRefused(seq)
      PROVE  UNCHANGED <<connVars, clientVars, hubVars, renderGeneration, publicationGeneration>>
  BY <1>4 DEF AgentHello, AgentMalformed, AgentRefused, engineVars, publicationVars
<1>5. CASE UNCHANGED <<connVars, clientVars, hubVars, renderGeneration, publicationGeneration>>
  BY <1>t, <1>5 DEF hubVars
<1>6. CASE \E seq \in 0..MaxOps : AgentOperation(seq)
  BY <1>1, <1>6
<1> QED BY <1>2, <1>3, <1>4, <1>5, <1>6 DEF AgentNext

\* A handler that changes the redraw generation, or takes the token, owes its
\* own terminal a snapshot, and pays with one before it listens again.
LEMMA HandlerOwes ==
  ASSUME TypeOK, NEW c \in Conns, HandlerStep(c)
  PROVE  /\ UNCHANGED <<agent, publicationGeneration>>
         /\ renderGeneration <= renderGeneration'
         /\ UNCHANGED renderGeneration \/ handler'[c] = "signal"
         /\ UNCHANGED updates \/ (handler[c] = "select" /\ handler'[c] = "snapshot")
         /\ handler[c] = "signal" => handler'[c] = "snapshot"
         /\ handler[c] = "snapshot" => handler'[c] = "return" \/ WriteSnapshot(c)
         /\ handler[c] \in {"hello", "acquired"} => handler'[c] \in {"none", "acquired", "greet"}
         /\ handler[c] \in {"release", "detach", "return"} => handler'[c] \in {"detach", "return", "none"}
         /\ handler[c] = "greet" => handler'[c] = "return" \/ Greet(c)
         /\ handler'[c] \in {"hello", "acquired", "greet"} =>
              handler[c] \in {"hello", "acquired", "greet"} /\ UNCHANGED toClient
<1>t. /\ handler \in [Conns -> {"none", "hello", "acquired", "greet", "select", "snapshot",
                                "signal", "publish", "signalAck", "release", "detach", "return"}]
      /\ renderGeneration \in Nat
  BY DEF TypeOK, ConnTypeOK, EngineTypeOK
<1>1. CASE ReadHello(c) \/ HandlerEnds(c)
  BY <1>1, <1>t DEF ReadHello, HandlerEnds, GoTo, Hangup, engineVars, publicationVars
<1>2. CASE SetActiveConn(c) \/ Greet(c) \/ WriteSnapshot(c) \/ AckDetach(c) \/ ReleaseLease(c)
           \/ HandlerReturns(c) \/ TakeUpdate(c)
  BY <1>2, <1>t DEF SetActiveConn, Greet, WriteSnapshot, AckDetach, ReleaseLease, HandlerReturns,
     TakeUpdate, GoTo, hubVars, engineVars, publicationVars
<1>3. CASE ReadDetach(c) \/ SignalInteraction(c) \/ SignalPublished(c) \/ ReadFramePublished(c)
           \/ RefuseInteraction(c)
  BY <1>3, <1>t DEF ReadDetach, SignalInteraction, SignalPublished, ReadFramePublished,
     RefuseInteraction, InteractionFails, Reads, GoTo, hubVars, engineVars, publicationVars
<1>4. CASE ReadInteraction(c)
  <2>1. /\ UNCHANGED publicationGeneration
        /\ UNCHANGED renderGeneration \/ renderGeneration' = renderGeneration + 1
    BY <1>4 DEF ReadInteraction, InteractLocally, InteractWithEvent, engineVars, publicationVars
  <2> QED BY <1>4, <1>t, <2>1 DEF ReadInteraction, Reads, GoTo, hubVars
<1>5. CASE PublishFrame(c)
  <2>1. UNCHANGED <<publicationGeneration, renderGeneration>>
    BY <1>5 DEF PublishFrame, PublishGeneration, Publish, PublishGenerationFails,
       PublishBackpressure, PublishGenerationStale, engineVars, publicationVars
  <2> QED BY <1>5, <1>t, <2>1 DEF PublishFrame, GoTo, hubVars
<1> QED BY <1>1, <1>2, <1>3, <1>4, <1>5 DEF HandlerStep

\* A terminal changes no generation, and reads what it was sent.
LEMMA ClientOwes ==
  ASSUME TypeOK, NEW c \in Conns, ClientStep(c)
  PROVE  UNCHANGED <<publicationGeneration, renderGeneration>>
BY DEF ClientStep, Dial, ReceiveInitialSnapshot, DialFails, ReceiveSnapshot, ReceiveError,
   ReceiveEOF, DrawUpdate, Redraw, View, MakeVisible, Interact, RequestTimeout, Close,
   ReceiveDetachAck, Quit, Leave, ClientOnly, engineVars, publicationVars

\* A terminal keeps its end, leaves, or reads: it skips what is no snapshot and
\* takes every snapshot, for none is older than the one it has.
LEMMA ClientTakes ==
  ASSUME TypeOK, QueueShape, SnapshotsOrdered, NEW c \in Conns, ClientStep(c)
  PROVE  \/ UNCHANGED <<toClient, cache>>
         \/ Leave(c)
         \/ /\ client'[c] # "dialing"
            /\ \A d \in Conns \ {c} : toClient'[d] = toClient[d]
            /\ \E n \in {1, 2} :
                 /\ Leftover(toClient'[c], toClient[c], n)
                 /\ \/ cache'[c] = cache[c] /\ \A k \in 1..n : toClient[c][k].kind # "snapshot"
                    \/ cache'[c] = toClient[c][n].frame /\ toClient[c][n].kind = "snapshot"
<1>t. /\ toClient \in [Conns -> Seq(DaemonMessage)] /\ cache \in [Conns -> FrameType]
      /\ client \in [Conns -> {"off", "dialing", "running", "closing", "disconnected"}]
  BY DEF TypeOK, ConnTypeOK, TerminalTypeOK
<1>1. CASE ReceiveInitialSnapshot(c)
  <2>1. /\ client[c] = "dialing" /\ toClient[c] # <<>> /\ Head(toClient[c]).kind = "hello_ack"
        /\ Len(toClient[c]) > 1 /\ cache'[c] = toClient[c][2].frame /\ client'[c] = "running"
        /\ toClient' = [toClient EXCEPT ![c] = SubSeq(@, 2 + 1, Len(@))]
    BY <1>t, <1>1 DEF ReceiveInitialSnapshot, Receives
  <2>2. 2 <= Len(toClient[c]) /\ toClient[c][1].kind = "hello_ack"
    BY <1>t, <2>1
  <2>3. toClient[c][2].kind = "snapshot"
    BY <2>1, <2>2 DEF QueueShape
  <2>4. Leftover(toClient'[c], toClient[c], 2) /\ \A d \in Conns \ {c} : toClient'[d] = toClient[d]
    BY <2>1, <2>2, Consumed DEF Leftover, TypeOK
  <2> QED BY <2>1, <2>3, <2>4
<1>2. CASE ReceiveSnapshot(c) \/ ReceiveError(c)
  <2>1. /\ toClient[c] # <<>> /\ UNCHANGED client /\ client[c] \in {"running", "closing"}
        /\ toClient' = [toClient EXCEPT ![c] = SubSeq(@, 1 + 1, Len(@))]
    BY <1>2 DEF ReceiveSnapshot, ReceiveError, Receives
  <2>2. 1 <= Len(toClient[c]) /\ Head(toClient[c]) = toClient[c][1] /\ 1 \in 1..Len(toClient[c])
    BY <1>t, <2>1
  <2>3. Leftover(toClient'[c], toClient[c], 1) /\ \A d \in Conns \ {c} : toClient'[d] = toClient[d]
    BY <2>1, <2>2, Consumed DEF Leftover, TypeOK
  <2>4. CASE ReceiveSnapshot(c)
    <3>1. toClient[c][1].kind = "snapshot"
      BY <2>2, <2>4 DEF ReceiveSnapshot, Receives
    <3>2. cache[c].renderGeneration <= toClient[c][1].frame.renderGeneration
      BY <2>2, <3>1 DEF SnapshotsOrdered, Ordered
    <3>3. cache[c].renderGeneration \in Nat /\ toClient[c][1].frame.renderGeneration \in Nat
      BY <1>t, <2>2, RedrawOrder DEF FrameType
    <3>4. AcceptsSnapshot(c, Received(c).frame)
      BY <2>2, <3>2, <3>3 DEF AcceptsSnapshot, Received
    <3>5. cache'[c] = toClient[c][1].frame
      BY <1>t, <2>2, <2>4, <3>4 DEF ReceiveSnapshot, Received
    <3> QED BY <2>1, <2>3, <3>1, <3>5
  <2>5. CASE ReceiveError(c)
    <3>1. toClient[c][1].kind = "error" /\ UNCHANGED cache
      BY <2>2, <2>5 DEF ReceiveError, Receives
    <3>2. \A k \in 1..1 : toClient[c][k].kind # "snapshot"
      BY <3>1
    <3> QED BY <2>1, <2>3, <3>1, <3>2
  <2> QED BY <1>2, <2>4, <2>5
<1>3. CASE ~(ReceiveInitialSnapshot(c) \/ ReceiveSnapshot(c) \/ ReceiveError(c))
  BY <1>3, ClientMoves
<1> QED BY <1>1, <1>2, <1>3

\* Where a terminal's state leads: a new process is not served yet, and one
\* that reads on was reading before.
LEMMA ClientWatches ==
  ASSUME TypeOK, NEW c \in Conns, ClientStep(c)
  PROVE  /\ client'[c] = "dialing" =>
              \/ client[c] = "dialing" /\ UNCHANGED client
              \/ client[c] = "off" /\ handler'[c] = "hello"
         /\ client'[c] = "running" => client[c] \in {"dialing", "running"}
<1>t. /\ client \in [Conns -> {"off", "dialing", "running", "closing", "disconnected"}]
      /\ handler \in [Conns -> {"none", "hello", "acquired", "greet", "select", "snapshot",
                                "signal", "publish", "signalAck", "release", "detach", "return"}]
  BY DEF TypeOK, ConnTypeOK, TerminalTypeOK
<1>1. CASE Dial(c)
  BY <1>1, <1>t DEF Dial, GoTo
<1>2. CASE ReceiveInitialSnapshot(c) \/ ReceiveEOF(c) \/ Close(c)
  BY <1>2, <1>t DEF ReceiveInitialSnapshot, ReceiveEOF, Close
<1>3. CASE DialFails(c) \/ ReceiveDetachAck(c) \/ Quit(c)
  BY <1>3, <1>t DEF DialFails, ReceiveDetachAck, Quit, Leave
<1>4. CASE ReceiveSnapshot(c) \/ ReceiveError(c) \/ DrawUpdate(c) \/ Redraw(c) \/ Interact(c)
           \/ RequestTimeout(c)
  <2>1. UNCHANGED client
    BY <1>4 DEF ReceiveSnapshot, ReceiveError, DrawUpdate, Redraw, View, Interact, RequestTimeout
  <2> QED BY <2>1
<1> QED BY <1>1, <1>2, <1>3, <1>4 DEF ClientStep

\* The agent's side: generations grow under "signal" and the signal stays due.
LEMMA AgentPicture ==
  ASSUME PictureInv, AgentNext
  PROVE  QueueShape' /\ SnapshotsOrdered' /\ NeverStale'
<1> USE DEF PictureInv, DaemonInv
<1>1. /\ UNCHANGED <<handler, toClient, client, cache>>
      /\ renderGeneration <= renderGeneration'
      /\ UNCHANGED <<publicationGeneration, renderGeneration>> \/ agent' = "signal"
      /\ updates \/ agent = "signal" => updates' \/ agent' = "signal"
  BY AgentSignals DEF connVars, clientVars
<1>t. /\ toClient \in [Conns -> Seq(DaemonMessage)] /\ cache \in [Conns -> FrameType]
      /\ renderGeneration \in Nat
  BY DEF TypeOK, ConnTypeOK, TerminalTypeOK, EngineTypeOK
<1>2. renderGeneration' \in Nat
  BY DaemonNextInv DEF Next, EngineInv, EngineTypeOK
<1>3. QueueShape'
  BY <1>1 DEF QueueShape
<1>4. SnapshotsOrdered'
  <2> SUFFICES ASSUME NEW c \in Conns PROVE Ordered(cache[c], toClient[c], renderGeneration')
    BY <1>1 DEF SnapshotsOrdered, Ordered
  <2> QED BY <1>1, <1>2, <1>t, OrderedLater DEF SnapshotsOrdered
<1>5. NeverStale'
  <2> SUFFICES ASSUME NEW c \in Conns, Serving(c)', client'[c] \in {"dialing", "running"}
               PROVE  UpToDate(c)' \/ SnapshotDue(c)'
    BY DEF NeverStale
  <2>1. UpToDate(c) \/ SnapshotDue(c)
    BY <1>1 DEF NeverStale, Serving
  <2>2. CASE UpToDate(c) /\ UNCHANGED <<publicationGeneration, renderGeneration>>
    BY <1>1, <2>2 DEF UpToDate, Snapshots, Current
  <2> QED BY <1>1, <2>1, <2>2 DEF SnapshotDue
<1> QED BY <1>3, <1>4, <1>5

\* The handler's side.
LEMMA HandlerPicture ==
  ASSUME PictureInv, NEW c \in Conns, HandlerStep(c)
  PROVE  QueueShape' /\ SnapshotsOrdered' /\ NeverStale'
<1> USE DEF PictureInv, DaemonInv
<1>t. /\ toClient \in [Conns -> Seq(DaemonMessage)] /\ cache \in [Conns -> FrameType]
      /\ renderGeneration \in Nat /\ publicationGeneration \in Nat /\ work \in [Conns -> Nat]
      /\ handler \in [Conns -> {"none", "hello", "acquired", "greet", "select", "snapshot",
                                "signal", "publish", "signalAck", "release", "detach", "return"}]
  BY DEF TypeOK, ConnTypeOK, TerminalTypeOK, EngineTypeOK
<1>t2. DaemonInv'
  BY DaemonNextInv DEF Next
<1>t3. toClient' \in [Conns -> Seq(DaemonMessage)] /\ renderGeneration' \in Nat
  BY <1>t2 DEF TypeOK, ConnTypeOK, EngineTypeOK
<1>m. /\ \A d \in Conns \ {c} : handler'[d] = handler[d]
      /\ UNCHANGED <<client, cache>>
  BY HandlerMoves DEF clientVars
<1>w. \A d \in Conns \ {c} : toClient'[d] = toClient[d]
  BY <1>t, HandlerWrites DEF Write
<1>o. /\ UNCHANGED <<agent, publicationGeneration>>
      /\ renderGeneration <= renderGeneration'
      /\ UNCHANGED renderGeneration \/ handler'[c] = "signal"
      /\ UNCHANGED updates \/ (handler[c] = "select" /\ handler'[c] = "snapshot")
      /\ handler[c] = "signal" => handler'[c] = "snapshot"
      /\ handler[c] = "snapshot" => handler'[c] = "return" \/ WriteSnapshot(c)
      /\ handler[c] \in {"hello", "acquired"} => handler'[c] \in {"none", "acquired", "greet"}
      /\ handler[c] \in {"release", "detach", "return"} => handler'[c] \in {"detach", "return", "none"}
      /\ handler[c] = "greet" => handler'[c] = "return" \/ Greet(c)
      /\ handler'[c] \in {"hello", "acquired", "greet"} =>
           handler[c] \in {"hello", "acquired", "greet"} /\ UNCHANGED toClient
  BY HandlerOwes
<1>s. /\ Snapshot \in FrameType /\ IsCurrent(Snapshot, publicationGeneration, renderGeneration)
  BY SnapshotGood DEF FrameGood, IsCurrent, Snapshot
<1>q. \/ /\ toClient'[c] = toClient[c]
         /\ handler[c] \in {"snapshot", "greet"} => handler'[c] = "return"
      \/ \E msgs \in Seq(DaemonMessage) :
           /\ Extends(toClient'[c], toClient[c], msgs) /\ UNCHANGED renderGeneration
           /\ \A i \in 1..Len(msgs) : msgs[i].kind \notin {"snapshot", "hello_ack"}
           /\ handler[c] \notin {"snapshot", "greet"}
      \/ \E msgs \in Seq(DaemonMessage) :
           /\ Extends(toClient'[c], toClient[c], msgs) /\ UNCHANGED renderGeneration
           /\ msgs # <<>> /\ msgs[Len(msgs)].kind = "snapshot"
           /\ \A i \in 1..Len(msgs) : msgs[i].kind = "snapshot" => msgs[i].frame = Snapshot
           /\ msgs[1].kind = "hello_ack" => Len(msgs) = 2
  <2>1. CASE Greet(c)
    <3> DEFINE msgs == <<DaemonMsg("hello_ack", NoFrame, 0), DaemonMsg("snapshot", Snapshot, 0)>>
    <3>1. msgs \in Seq(DaemonMessage) /\ msgs # <<>>
      BY MessageTypes DEF TypeOK
    <3>2. Extends(toClient'[c], toClient[c], msgs)
      BY <2>1, <3>1, Written DEF Extends, TypeOK, Greet
    <3>3. /\ Len(msgs) = 2 /\ msgs[1].kind = "hello_ack" /\ msgs[2].kind = "snapshot"
          /\ msgs[2].frame = Snapshot
      BY DEF DaemonMsg
    <3>4. UNCHANGED renderGeneration
      BY <2>1 DEF Greet, engineVars
    <3> HIDE DEF msgs
    <3>5. \A i \in 1..Len(msgs) : msgs[i].kind = "snapshot" => msgs[i].frame = Snapshot
      BY <3>3
    <3> QED BY <3>1, <3>2, <3>3, <3>4, <3>5
  <2>2. CASE WriteSnapshot(c)
    <3> DEFINE msgs == <<DaemonMsg("snapshot", Snapshot, work[c])>>
    <3>1. msgs \in Seq(DaemonMessage) /\ msgs # <<>>
      BY <1>t, MessageTypes DEF TypeOK
    <3>2. Extends(toClient'[c], toClient[c], msgs)
      BY <2>2, <3>1, Written DEF Extends, TypeOK, WriteSnapshot
    <3>3. /\ Len(msgs) = 1 /\ msgs[1].kind = "snapshot" /\ msgs[1].frame = Snapshot
      BY DEF DaemonMsg
    <3>4. UNCHANGED renderGeneration
      BY <2>2 DEF WriteSnapshot, engineVars
    <3> HIDE DEF msgs
    <3>5. \A i \in 1..Len(msgs) : msgs[i].kind = "snapshot" => msgs[i].frame = Snapshot
      BY <3>3
    <3> QED BY <3>1, <3>2, <3>3, <3>4, <3>5
  <2>3. ASSUME NEW kind \in {"busy", "error", "detach_ack"}, NEW req \in Nat,
               Write(c, <<DaemonMsg(kind, NoFrame, req)>>), ~UNCHANGED toClient
        PROVE  \E msgs \in Seq(DaemonMessage) :
                 /\ Extends(toClient'[c], toClient[c], msgs) /\ UNCHANGED renderGeneration
                 /\ \A i \in 1..Len(msgs) : msgs[i].kind \notin {"snapshot", "hello_ack"}
    <3> DEFINE msgs == <<DaemonMsg(kind, NoFrame, req)>>
    <3>1. msgs \in Seq(DaemonMessage)
      BY MessageTypes DEF TypeOK
    <3>2. Extends(toClient'[c], toClient[c], msgs)
      BY <2>3, <3>1, Written DEF Extends, TypeOK
    <3>3. /\ Len(msgs) = 1 /\ msgs[1].kind = kind
      BY DEF DaemonMsg
    <3>4. UNCHANGED renderGeneration
      BY <2>3 DEF HandlerStep, ReadHello, SetActiveConn, Greet, TakeUpdate, WriteSnapshot,
         ReadDetach, ReleaseLease, AckDetach, ReadInteraction, RefuseInteraction, InteractionFails,
         SignalInteraction, ReadFramePublished, PublishFrame, PublishGeneration, Publish,
         PublishGenerationFails, PublishBackpressure, PublishGenerationStale, SignalPublished,
         HandlerReturns, HandlerEnds, engineVars
    <3> HIDE DEF msgs
    <3>5. \A i \in 1..Len(msgs) : msgs[i].kind \notin {"snapshot", "hello_ack"}
      BY <3>3
    <3> QED BY <3>1, <3>2, <3>4, <3>5
  <2>4. CASE ~Greet(c) /\ ~WriteSnapshot(c)
    <3>1. handler[c] \in {"snapshot", "greet"} => handler'[c] = "return"
      BY <1>o, <2>4
    <3>2. \/ UNCHANGED toClient
          \/ /\ handler[c] \notin {"greet", "snapshot"}
             /\ \E kind \in {"busy", "error", "detach_ack"}, req \in Nat :
                  Write(c, <<DaemonMsg(kind, NoFrame, req)>>)
      BY <3>1, HandlerWrites
    <3> QED BY <2>3, <3>1, <3>2
  <2> QED BY <2>1, <2>2, <2>4
<1>5. QueueShape'
  <2> SUFFICES ASSUME NEW d \in Conns
               PROVE  /\ handler'[d] \in {"hello", "acquired", "greet"} => toClient'[d] = <<>>
                      /\ client'[d] = "dialing" /\ toClient'[d] # <<>>
                           /\ toClient'[d][1].kind = "hello_ack" =>
                           Len(toClient'[d]) > 1 /\ toClient'[d][2].kind = "snapshot"
    BY DEF QueueShape
  <2>1. CASE d # c
    BY <1>m, <1>w, <2>1 DEF QueueShape
  <2>2. CASE d = c /\ toClient'[c] = toClient[c]
    BY <1>m, <1>o, <2>2 DEF QueueShape
  <2>3. ASSUME d = c, NEW msgs \in Seq(DaemonMessage), Extends(toClient'[c], toClient[c], msgs),
               \/ \A i \in 1..Len(msgs) : msgs[i].kind \notin {"snapshot", "hello_ack"}
               \/ /\ msgs # <<>> /\ msgs[Len(msgs)].kind = "snapshot"
                  /\ msgs[1].kind = "hello_ack" => Len(msgs) = 2,
               client[c] = "dialing", toClient'[c] # <<>>, toClient'[c][1].kind = "hello_ack"
        PROVE  Len(toClient'[d]) > 1 /\ toClient'[d][2].kind = "snapshot"
    <3>1. /\ Len(toClient[c]) \in Nat /\ Len(msgs) \in Nat /\ Len(toClient'[c]) \in Nat
          /\ Len(toClient'[c]) = Len(toClient[c]) + Len(msgs) /\ 1 \in 1..Len(toClient'[c])
      BY <1>t, <1>t3, <2>3 DEF Extends
    <3>2. CASE Len(toClient[c]) = 0
      <4>1. toClient'[c][1] = msgs[1] /\ 1 \in 1..Len(msgs)
        BY <2>3, <3>1, <3>2 DEF Extends
      <4>2. Len(msgs) = 2 /\ msgs[2].kind = "snapshot"
        <5>1. msgs[1].kind = "hello_ack"
          BY <2>3, <4>1
        <5>2. msgs[Len(msgs)].kind = "snapshot" /\ Len(msgs) = 2
          BY <2>3, <4>1, <5>1
        <5> QED BY <5>2
      <4>3. toClient'[c][2] = msgs[2]
        BY <2>3, <3>1, <3>2, <4>2 DEF Extends
      <4> QED BY <2>3, <3>1, <3>2, <4>2, <4>3
    <3>3. CASE Len(toClient[c]) # 0
      <4>1. toClient'[c][1] = toClient[c][1] /\ toClient[c] # <<>>
        <5>1. 1 <= Len(toClient[c]) /\ toClient[c] # <<>>
          BY <3>1, <3>3
        <5>2. toClient'[c][1] = IF 1 <= Len(toClient[c]) THEN toClient[c][1] ELSE msgs[1 - Len(toClient[c])]
          BY <2>3, <3>1 DEF Extends
        <5> QED BY <5>1, <5>2
      <4>2. Len(toClient[c]) > 1 /\ toClient[c][2].kind = "snapshot"
        BY <2>3, <4>1 DEF QueueShape
      <4>3. Len(toClient'[c]) > 1 /\ toClient'[c][2] = toClient[c][2]
        BY <2>3, <3>1, <4>2 DEF Extends
      <4> QED BY <2>3, <4>2, <4>3
    <3> QED BY <3>2, <3>3
  <2>4. handler'[c] \in {"hello", "acquired", "greet"} => toClient'[c] = <<>>
    BY <1>o DEF QueueShape
  <2> QED BY <1>m, <1>q, <2>1, <2>2, <2>3, <2>4
<1>6. SnapshotsOrdered'
  <2> SUFFICES ASSUME NEW d \in Conns PROVE Ordered(cache[d], toClient'[d], renderGeneration')
    BY <1>m DEF SnapshotsOrdered, Ordered
  <2>1. Ordered(cache[d], toClient[d], renderGeneration)
    BY DEF SnapshotsOrdered
  <2>2. CASE toClient'[d] = toClient[d]
    BY <1>o, <1>t, <1>t3, <2>1, <2>2, OrderedLater
  <2>3. ASSUME d = c, NEW msgs \in Seq(DaemonMessage), Extends(toClient'[c], toClient[c], msgs),
               UNCHANGED renderGeneration,
               \A i \in 1..Len(msgs) : msgs[i].kind = "snapshot" => msgs[i].frame = Snapshot
        PROVE  Ordered(cache[d], toClient'[d], renderGeneration')
    <3>1. \A i \in 1..Len(msgs) : msgs[i].kind = "snapshot" => msgs[i].frame.renderGeneration = renderGeneration
      BY <1>s, <2>3 DEF IsCurrent
    <3>2. toClient'[c] \in Seq(DaemonMessage) /\ toClient[c] \in Seq(DaemonMessage) /\ cache[c] \in FrameType
      BY <1>t, <1>t3
    <3>3. Ordered(cache[c], toClient'[c], renderGeneration)
      BY <1>t, <2>1, <2>3, <3>1, <3>2, OrderedWrite
    <3> QED BY <2>3, <3>3
  <2> QED BY <1>q, <1>w, <2>2, <2>3
<1>7. NeverStale'
  <2> SUFFICES ASSUME NEW d \in Conns, Serving(d)', client'[d] \in {"dialing", "running"}
               PROVE  UpToDate(d)' \/ SnapshotDue(d)'
    BY DEF NeverStale
  <2>1. CASE d # c
    <3>1. ~Serving(c)'
      BY <1>t2, <2>1 DEF LeaseInv, Holding, Attached
    <3>2. UNCHANGED <<renderGeneration, updates>>
      BY <1>o, <3>1 DEF Serving
    <3>3. UpToDate(d) \/ SnapshotDue(d)
      BY <1>m, <2>1 DEF NeverStale, Serving
    <3>4. UpToDate(d) => UpToDate(d)'
      BY <1>m, <1>o, <1>w, <2>1, <3>2 DEF UpToDate, Snapshots, Current
    <3>5. SnapshotDue(d) => SnapshotDue(d)'
      BY <1>m, <1>o, <2>1, <3>2 DEF SnapshotDue
    <3> QED BY <3>3, <3>4, <3>5
  <2>2. CASE d = c /\ handler'[c] \in {"snapshot", "signal"}
    BY <2>2 DEF SnapshotDue
  <2>3. CASE d = c /\ handler'[c] \notin {"snapshot", "signal"}
    <3>0. UNCHANGED <<renderGeneration, publicationGeneration, updates, agent>>
      BY <1>o, <2>3
    <3>1. UpToDate(c)' <=> EndsWith(cache[c], toClient'[c], publicationGeneration, renderGeneration)
      BY <1>m, <3>0 DEF UpToDate, Snapshots, Current, EndsWith, IsCurrent
    <3>2. toClient'[c] \in Seq(DaemonMessage) /\ toClient[c] \in Seq(DaemonMessage) /\ cache[c] \in FrameType
      BY <1>t, <1>t3
    <3>3. ASSUME NEW msgs \in Seq(DaemonMessage), Extends(toClient'[c], toClient[c], msgs), msgs # <<>>,
                 msgs[Len(msgs)].kind = "snapshot",
                 \A i \in 1..Len(msgs) : msgs[i].kind = "snapshot" => msgs[i].frame = Snapshot
          PROVE  UpToDate(c)'
      <4>1. Len(msgs) \in 1..Len(msgs)
        BY <3>3
      <4>2. IsCurrent(msgs[Len(msgs)].frame, publicationGeneration, renderGeneration)
        BY <1>s, <3>3, <4>1
      <4> QED BY <3>1, <3>2, <3>3, <4>2, EndWriteSnapshot
    <3>4. CASE handler[c] \in {"select", "publish", "signalAck"}
      <4>1. UpToDate(c) \/ updates \/ agent = "signal"
        BY <1>m, <2>3, <3>4 DEF NeverStale, Serving, SnapshotDue
      <4>2. ASSUME NEW msgs \in Seq(DaemonMessage), Extends(toClient'[c], toClient[c], msgs),
                   \A i \in 1..Len(msgs) : msgs[i].kind \notin {"snapshot", "hello_ack"}, UpToDate(c)
            PROVE  UpToDate(c)'
        <5>1. EndsWith(cache[c], toClient[c], publicationGeneration, renderGeneration)
          BY <4>2, UpToDateMeans
        <5>2. \A i \in 1..Len(msgs) : msgs[i].kind # "snapshot"
          BY <4>2
        <5> QED BY <3>1, <3>2, <4>2, <5>1, <5>2, EndWriteOther
      <4>3. toClient'[c] = toClient[c] /\ UpToDate(c) => UpToDate(c)'
        BY <3>1, UpToDateMeans
      <4>4. updates \/ agent = "signal" => SnapshotDue(c)'
        BY <3>0 DEF SnapshotDue
      <4> QED BY <1>q, <2>3, <3>3, <4>1, <4>2, <4>3, <4>4
    <3>5. CASE handler[c] \in {"snapshot", "greet"}
      <4>1. handler'[c] # "return"
        BY <2>3 DEF Serving
      <4> QED BY <1>q, <2>3, <3>3, <3>5, <4>1
    <3>6. handler[c] \in {"select", "publish", "signalAck", "snapshot", "greet"}
      <4>1. handler'[c] \in {"select", "publish", "signalAck"}
        BY <2>3 DEF Serving
      <4>2. handler[c] # "none"
        BY HandlerMoves
      <4> QED BY <1>o, <1>t, <4>1, <4>2
    <3> QED BY <3>4, <3>5, <3>6
  <2> QED BY <2>1, <2>2, <2>3
<1> QED BY <1>5, <1>6, <1>7

\* The terminal's side.
LEMMA ClientPicture ==
  ASSUME PictureInv, NEW c \in Conns, ClientStep(c)
  PROVE  QueueShape' /\ SnapshotsOrdered' /\ NeverStale'
<1> USE DEF PictureInv, DaemonInv
<1>t. /\ toClient \in [Conns -> Seq(DaemonMessage)] /\ cache \in [Conns -> FrameType]
      /\ renderGeneration \in Nat
  BY DEF TypeOK, ConnTypeOK, TerminalTypeOK, EngineTypeOK
<1>t2. DaemonInv'
  BY DaemonNextInv DEF Next
<1>t3. toClient' \in [Conns -> Seq(DaemonMessage)] /\ cache' \in [Conns -> FrameType]
  BY <1>t2 DEF TypeOK, ConnTypeOK, TerminalTypeOK
<1>g. UNCHANGED <<publicationGeneration, renderGeneration>>
  BY ClientOwes
<1>m. /\ UNCHANGED <<updates, agent>>
      /\ \A d \in Conns \ {c} : client'[d] = client[d] /\ cache'[d] = cache[d] /\ handler'[d] = handler[d]
      /\ \/ UNCHANGED handler
         \/ client[c] = "off" /\ handler[c] = "none" /\ handler'[c] = "hello" /\ UNCHANGED toClient
  BY ClientMoves
<1>c. /\ client'[c] = "dialing" =>
           \/ client[c] = "dialing" /\ UNCHANGED client
           \/ client[c] = "off" /\ handler'[c] = "hello"
      /\ client'[c] = "running" => client[c] \in {"dialing", "running"}
  BY ClientWatches
<1>q. \/ UNCHANGED <<toClient, cache>>
      \/ Leave(c)
      \/ /\ client'[c] # "dialing"
         /\ \A d \in Conns \ {c} : toClient'[d] = toClient[d]
         /\ \E n \in {1, 2} :
              /\ Leftover(toClient'[c], toClient[c], n)
              /\ \/ cache'[c] = cache[c] /\ \A k \in 1..n : toClient[c][k].kind # "snapshot"
                 \/ cache'[c] = toClient[c][n].frame /\ toClient[c][n].kind = "snapshot"
  BY ClientTakes
<1>l. Leave(c) => /\ client'[c] = "off" /\ toClient'[c] = <<>> /\ cache'[c] = NoFrame
                  /\ \A d \in Conns \ {c} : toClient'[d] = toClient[d]
  BY <1>t DEF Leave, TypeOK, TerminalTypeOK
<1>w. \A d \in Conns \ {c} : toClient'[d] = toClient[d]
  BY <1>l, <1>q
<1>n. /\ NoFrame.renderGeneration = 0
  BY DEF NoFrame
<1>1. QueueShape'
  <2> SUFFICES ASSUME NEW d \in Conns
               PROVE  /\ handler'[d] \in {"hello", "acquired", "greet"} => toClient'[d] = <<>>
                      /\ client'[d] = "dialing" /\ toClient'[d] # <<>>
                           /\ toClient'[d][1].kind = "hello_ack" =>
                           Len(toClient'[d]) > 1 /\ toClient'[d][2].kind = "snapshot"
    BY DEF QueueShape
  <2>1. CASE d # c
    BY <1>m, <1>w, <2>1 DEF QueueShape
  <2>2. CASE d = c /\ UNCHANGED toClient
    <3>1. client[c] = "off" => toClient[c] = <<>>
      BY DEF DetachInv
    <3> QED BY <1>m, <1>c, <2>2, <3>1 DEF QueueShape
  <2>3. CASE d = c /\ Leave(c)
    BY <1>l, <2>3
  <2>4. ASSUME d = c, client'[c] # "dialing", NEW n \in {1, 2}, Leftover(toClient'[c], toClient[c], n),
               handler'[c] \in {"hello", "acquired", "greet"}, ~UNCHANGED toClient
        PROVE  toClient'[c] = <<>>
    <3>1. toClient[c] = <<>>
      BY <1>m, <2>4 DEF QueueShape
    <3> QED BY <2>4, <3>1 DEF Leftover
  <2> QED BY <1>q, <2>1, <2>2, <2>3, <2>4
<1>2. SnapshotsOrdered'
  <2> SUFFICES ASSUME NEW d \in Conns PROVE Ordered(cache'[d], toClient'[d], renderGeneration)
    BY <1>g DEF SnapshotsOrdered, Ordered
  <2>1. Ordered(cache[d], toClient[d], renderGeneration)
    BY DEF SnapshotsOrdered
  <2>2. CASE toClient'[d] = toClient[d] /\ cache'[d] = cache[d]
    BY <2>1, <2>2
  <2>3. CASE d = c /\ Leave(c)
    <3>1. toClient'[d] = <<>> /\ cache'[d].renderGeneration = 0
      BY <1>l, <1>n, <2>3
    <3> QED BY <1>t, <3>1 DEF Ordered
  <2>4. ASSUME d = c, NEW n \in {1, 2}, Leftover(toClient'[c], toClient[c], n),
               \/ cache'[c] = cache[c]
               \/ cache'[c] = toClient[c][n].frame /\ toClient[c][n].kind = "snapshot"
        PROVE  Ordered(cache'[d], toClient'[d], renderGeneration)
    <3>1. toClient'[c] \in Seq(DaemonMessage) /\ toClient[c] \in Seq(DaemonMessage) /\ cache[c] \in FrameType
      BY <1>t, <1>t3
    <3> QED BY <1>t, <2>1, <2>4, <3>1, OrderedRead
  <2> QED BY <1>m, <1>q, <1>w, <2>2, <2>3, <2>4
<1>3. NeverStale'
  <2> SUFFICES ASSUME NEW d \in Conns, Serving(d)', client'[d] \in {"dialing", "running"}
               PROVE  UpToDate(d)' \/ SnapshotDue(d)'
    BY DEF NeverStale
  <2>0. handler'[d] = handler[d] /\ client[d] \in {"dialing", "running"}
    BY <1>m, <1>c DEF Serving
  <2>1. UpToDate(d) \/ SnapshotDue(d)
    BY <2>0 DEF NeverStale, Serving
  <2>2. CASE SnapshotDue(d)
    BY <1>m, <2>0, <2>2 DEF SnapshotDue
  <2>3. CASE UpToDate(d)
    <3>1. EndsWith(cache[d], toClient[d], publicationGeneration, renderGeneration)
      BY <2>3, UpToDateMeans
    <3>2. UpToDate(d)' <=> EndsWith(cache'[d], toClient'[d], publicationGeneration, renderGeneration)
      BY <1>g DEF UpToDate, Snapshots, Current, EndsWith, IsCurrent
    <3>3. CASE toClient'[d] = toClient[d] /\ cache'[d] = cache[d]
      BY <3>1, <3>2, <3>3
    <3>4. ASSUME d = c, NEW n \in {1, 2}, Leftover(toClient'[c], toClient[c], n),
                 \/ cache'[c] = cache[c] /\ \A k \in 1..n : toClient[c][k].kind # "snapshot"
                 \/ cache'[c] = toClient[c][n].frame /\ toClient[c][n].kind = "snapshot"
          PROVE  EndsWith(cache'[c], toClient'[c], publicationGeneration, renderGeneration)
      <4>1. toClient'[c] \in Seq(DaemonMessage) /\ toClient[c] \in Seq(DaemonMessage)
        BY <1>t, <1>t3
      <4> QED BY <3>1, <3>4, <4>1, EndRead
    <3>5. ~(d = c /\ Leave(c))
      BY <1>l
    <3> QED BY <1>m, <1>q, <1>w, <3>2, <3>3, <3>4, <3>5
  <2> QED BY <2>1, <2>2, <2>3
<1> QED BY <1>1, <1>2, <1>3

\* PictureInv is an invariant of the daemon.
LEMMA PictureHolds == Spec => []PictureInv
<1>1. Init => PictureInv
  <2> SUFFICES ASSUME Init PROVE PictureInv
    OBVIOUS
  <2>1. DaemonInv
    BY DaemonInitInv
  <2>2. QueueShape /\ NeverStale
    BY DEF Init, QueueShape, NeverStale, Serving
  <2>3. SnapshotsOrdered
    <3>1. NoFrame.renderGeneration = 0 /\ renderGeneration = 0
      BY DEF Init, EngineInit, NoFrame
    <3>2. \A c \in Conns : cache[c] = NoFrame /\ toClient[c] = <<>>
      BY DEF Init
    <3> QED BY <3>1, <3>2 DEF SnapshotsOrdered, Ordered
  <2> QED BY <2>1, <2>2, <2>3 DEF PictureInv
<1>2. PictureInv /\ [Next]_vars => PictureInv'
  <2> SUFFICES ASSUME PictureInv, [Next]_vars PROVE PictureInv'
    OBVIOUS
  <2>1. DaemonInv'
    BY DaemonNextInv DEF PictureInv
  <2>2. CASE Next
    BY <2>1, <2>2, AgentPicture, HandlerPicture, ClientPicture DEF Next, PictureInv
  <2>3. CASE UNCHANGED vars
    <3>1. UNCHANGED <<handler, toClient, client, cache, updates, agent, publicationGeneration, renderGeneration>>
      BY <2>3 DEF vars, connVars, clientVars, hubVars, engineVars, publicationVars
    <3>2. QueueShape' /\ SnapshotsOrdered'
      BY <3>1 DEF PictureInv, QueueShape, SnapshotsOrdered, Ordered
    <3>3. NeverStale'
      BY <3>1 DEF PictureInv, NeverStale, Serving, UpToDate, Snapshots, Current, SnapshotDue
    <3> QED BY <2>1, <3>2, <3>3 DEF PictureInv
  <2> QED BY <2>2, <2>3
<1> QED BY <1>1, <1>2, PTL DEF Spec

\* No wake-up is lost in the one-slot channel: a served terminal whose last
\* snapshot is not the current state has another one coming.
THEOREM NoTerminalIsStale == Spec => []NoStaleTerminal
<1>1. PictureInv => NoStaleTerminal
  BY DEF PictureInv, NeverStale, SnapshotDue, NoStaleTerminal
<1> QED BY <1>1, PictureHolds, PTL

==============================================================================
