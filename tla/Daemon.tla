------------------------------- MODULE Daemon --------------------------------
(***************************************************************************)
(* The a2uid daemon with its terminal clients: daemon/*.go, the message    *)
(* flow of ipc/client.go and the View of adapter/bubbletea/model.go over   *)
(* that client.                                                            *)
(*                                                                         *)
(* Processes that interleave: agent requests (serialised by agentMu),      *)
(* agent requests waiting for events, one handleClient goroutine per       *)
(* connection, and in each terminal a reader and a UI goroutine. A         *)
(* connection is two FIFO queues; the client may die at any moment and the *)
(* daemon gives up a write that does not get through in time. Interactive  *)
(* use is exclusive: a lease admits one connection.                        *)
(***************************************************************************)
EXTENDS EventWait, Session

CONSTANTS
  Conns,            \* connections a terminal may open, one after the other or at once
  NoConn,           \* no connection
  MaxOps,           \* bound on the mutation numbers an agent uses
  AgentFaults,      \* whether agents also send retried, gapped or broken requests
  MaxRender,        \* bound on the redraw generation
  MaxEvents,        \* bound on the events accepted before a key adds another
  MaxDials,         \* bound on the connections opened in one behaviour
  MaxRequests,      \* bound on the requests of one client
  SocketBuffer      \* messages a socket holds in one direction before a writer blocks

ASSUME DaemonBounds ==
  /\ NoConn \notin Conns /\ AgentFaults \in BOOLEAN
  /\ {MaxOps, MaxRender, MaxEvents, MaxDials, MaxRequests, SocketBuffer} \subseteq Nat

VARIABLES
  agent,            \* "idle", or "signal" while HandleEnvelope is about to signal
  updates,          \* Daemon.updates holds a token
  lease,            \* connection holding the interactive lease
  activeConn,       \* Daemon.activeConn
  handler,          \* connection -> where its handleClient goroutine is
  work,             \* connection -> token or request the handler is working on
  toDaemon,         \* connection -> messages from client to daemon
  toClient,         \* connection -> messages from daemon to client
  serverOpen,       \* connection -> the daemon has not closed its end
  client,           \* connection -> state of the terminal program
  cache,            \* connection -> Client.snapshot
  refresh,          \* connection -> Client.updates holds a token
  lastAck,          \* connection -> Model.lastAck
  request,          \* connection -> outstanding request, 0 for none
  nextReq,          \* connection -> Client.nextReq
  dials             \* connections opened so far

connVars == <<handler, work, toDaemon, toClient, serverOpen>>
clientVars == <<client, cache, refresh, lastAck, request, nextReq, dials>>
hubVars == <<agent, updates, lease, activeConn>>
vars == <<engineVars, waitVars, sessionVars, hubVars, connVars, clientVars>>

\* PresentationSnapshot{}: the zero value.
NoFrame ==
  [revision |-> 0, renderGeneration |-> 0, publicationGeneration |-> 0,
   publicationPending |-> FALSE, seen |-> 0]

Init ==
  /\ EngineInit /\ WaitInit /\ SessionInit
  /\ agent = "idle" /\ updates = FALSE
  /\ lease = NoConn /\ activeConn = NoConn
  /\ handler = [c \in Conns |-> "none"]
  /\ work = [c \in Conns |-> 0]
  /\ toDaemon = [c \in Conns |-> <<>>]
  /\ toClient = [c \in Conns |-> <<>>]
  /\ serverOpen = [c \in Conns |-> FALSE]
  /\ client = [c \in Conns |-> "off"]
  /\ cache = [c \in Conns |-> NoFrame]
  /\ refresh = [c \in Conns |-> FALSE]
  /\ lastAck = [c \in Conns |-> 0]
  /\ request = [c \in Conns |-> 0]
  /\ nextReq = [c \in Conns |-> 0]
  /\ dials = 0

ClientMsg(kind, n) == [kind |-> kind, n |-> n]
DaemonMsg(kind, frame, req) == [kind |-> kind, frame |-> frame, req |-> req]

------------------------------------------------------------------------------
(* Agent requests: HandleEnvelope                                            *)

AgentHello ==
  /\ agent = "idle" /\ Negotiate
  /\ UNCHANGED <<engineVars, waitVars, hubVars, connVars, clientVars>>

\* The number is consumed before the payload is decoded and applied.
AgentOperation(seq) ==
  /\ agent = "idle" /\ AcceptMutation(seq)
  /\ \/ Succeeds(seq) /\ agent' = "signal"
     \/ Fails(seq) /\ UNCHANGED agent
  /\ UNCHANGED <<waitVars, updates, lease, activeConn, connVars, clientVars>>

\* A payload that does not decode, or whose seq differs from its envelope's.
AgentMalformed(seq) ==
  /\ AgentFaults /\ agent = "idle" /\ AcceptMutation(seq)
  /\ UNCHANGED <<engineVars, waitVars, hubVars, connVars, clientVars>>

\* A retried, gapped or out-of-session request.
AgentRefused(seq) ==
  /\ AgentFaults /\ agent = "idle"
  /\ DuplicateMutation(seq) \/ BreakSession(seq) \/ RefuseMutation
  /\ UNCHANGED <<engineVars, waitVars, hubVars, connVars, clientVars>>

\* Fault: the token is only left when a client is attached and in its select.
SignalSnapshot_OnlyWaiting ==
  /\ agent = "signal"
  /\ agent' = "idle"
  /\ updates' = (updates \/ \E c \in Conns : handler[c] = "select")
  /\ UNCHANGED <<engineVars, waitVars, sessionVars, lease, activeConn, connVars, clientVars>>

\* signalSnapshot, after Apply succeeded and its lock was released.
SignalSnapshot ==
  /\ agent = "signal"
  /\ agent' = "idle"
  /\ updates' = TRUE
  /\ UNCHANGED <<engineVars, waitVars, sessionVars, lease, activeConn, connVars, clientVars>>

AgentWaits ==
  /\ \E w \in Waiters : WaitStep(w)
  /\ UNCHANGED <<sessionVars, hubVars, connVars, clientVars>>

AgentNext ==
  \/ AgentHello
  \/ \E seq \in 0..MaxOps : AgentOperation(seq)
  \/ \E seq \in 0..MaxOps : AgentMalformed(seq)
  \/ \E seq \in 0..(MaxOps + 1) : AgentRefused(seq)
  \/ SignalSnapshot
  \/ AgentWaits

------------------------------------------------------------------------------
(* handleClient                                                              *)

\* clearActiveConn does nothing for a connection that is not the active one.
ClearActiveConn(c) == activeConn' = IF activeConn = c THEN NoConn ELSE activeConn

\* Fault: the cleanup closes the connection and keeps the lease.
Hangup_KeepsLease(c) ==
  /\ handler' = [handler EXCEPT ![c] = "none"]
  /\ work' = [work EXCEPT ![c] = 0]
  /\ serverOpen' = [serverOpen EXCEPT ![c] = FALSE]
  /\ toDaemon' = [toDaemon EXCEPT ![c] = <<>>]
  /\ UNCHANGED lease

\* The end of the deferred cleanup: release a lease that is still held and
\* close the connection, unread messages included.
Hangup(c) ==
  /\ handler' = [handler EXCEPT ![c] = "none"]
  /\ work' = [work EXCEPT ![c] = 0]
  /\ serverOpen' = [serverOpen EXCEPT ![c] = FALSE]
  /\ toDaemon' = [toDaemon EXCEPT ![c] = <<>>]
  /\ lease' = IF lease = c THEN NoConn ELSE lease

\* writeClientMessage gets through while the peer is there and has room; a
\* write to a dead or clogged peer fails at once or after the write timeout.
CanWrite(c, n) == client[c] # "off" /\ Len(toClient[c]) + n <= SocketBuffer
WriteFails(c) == client[c] = "off" \/ Len(toClient[c]) >= SocketBuffer

Write(c, msgs) == toClient' = [toClient EXCEPT ![c] = @ \o msgs]

GoTo(c, pc, n) ==
  /\ handler' = [handler EXCEPT ![c] = pc]
  /\ work' = [work EXCEPT ![c] = n]

\* Fault: the lease is not checked.
ReadHello_NoLease(c) ==
  /\ handler[c] = "hello" /\ toDaemon[c] # <<>>
  /\ toDaemon' = [toDaemon EXCEPT ![c] = Tail(@)]
  /\ lease' = c
  /\ GoTo(c, "acquired", 0)
  /\ UNCHANGED <<toClient, serverOpen>>
  /\ UNCHANGED <<engineVars, waitVars, sessionVars, agent, updates, activeConn, clientVars>>

\* First record: acquire the lease, or answer ipc.client_busy and hang up.
ReadHello(c) ==
  /\ handler[c] = "hello" /\ toDaemon[c] # <<>>
  /\ \/ /\ lease = NoConn
        /\ toDaemon' = [toDaemon EXCEPT ![c] = Tail(@)]
        /\ lease' = c
        /\ GoTo(c, "acquired", 0)
        /\ UNCHANGED <<toClient, serverOpen>>
     \/ /\ lease # NoConn
        /\ Hangup(c)
        /\ IF client[c] = "off" THEN UNCHANGED toClient
                                ELSE Write(c, <<DaemonMsg("busy", NoFrame, 0)>>)
  /\ UNCHANGED <<engineVars, waitVars, sessionVars, agent, updates, activeConn, clientVars>>

SetActiveConn(c) ==
  /\ handler[c] = "acquired"
  /\ activeConn' = c
  /\ GoTo(c, "greet", 0)
  /\ UNCHANGED <<engineVars, waitVars, sessionVars, agent, updates, lease,
                 toDaemon, toClient, serverOpen, clientVars>>

\* hello_ack and the initial snapshot.
Greet(c) ==
  /\ handler[c] = "greet" /\ CanWrite(c, 2)
  /\ Write(c, <<DaemonMsg("hello_ack", NoFrame, 0), DaemonMsg("snapshot", Snapshot, 0)>>)
  /\ GoTo(c, "select", 0)
  /\ UNCHANGED <<engineVars, waitVars, sessionVars, hubVars, toDaemon, serverOpen, clientVars>>

\* The token is taken before the snapshot is read.
TakeUpdate(c) ==
  /\ handler[c] = "select" /\ updates
  /\ updates' = FALSE
  /\ GoTo(c, "snapshot", 0)
  /\ UNCHANGED <<engineVars, waitVars, sessionVars, agent, lease, activeConn,
                 toDaemon, toClient, serverOpen, clientVars>>

\* writeSnapshot, for an update or as the answer to request work[c].
WriteSnapshot(c) ==
  /\ handler[c] = "snapshot" /\ CanWrite(c, 1)
  /\ Write(c, <<DaemonMsg("snapshot", Snapshot, work[c])>>)
  /\ GoTo(c, "select", 0)
  /\ UNCHANGED <<engineVars, waitVars, sessionVars, hubVars, toDaemon, serverOpen, clientVars>>

\* A read of kind "kind" is next in the select.
Reads(c, kind) ==
  /\ handler[c] = "select" /\ toDaemon[c] # <<>> /\ Head(toDaemon[c]).kind = kind
  /\ toDaemon' = [toDaemon EXCEPT ![c] = Tail(@)]

Arg(c) == Head(toDaemon[c]).n

\* A message that only answers: the write error is ignored.
Answer(c, msg) ==
  \/ CanWrite(c, 1) /\ Write(c, <<msg>>)
  \/ WriteFails(c) /\ UNCHANGED toClient

ReadDetach(c) ==
  /\ Reads(c, "detach")
  /\ ClearActiveConn(c)
  /\ GoTo(c, "release", Arg(c))
  /\ UNCHANGED <<engineVars, waitVars, sessionVars, agent, updates, lease,
                 toClient, serverOpen, clientVars>>

\* Fault: the lease is kept until the deferred cleanup.
ReleaseLease_Later(c) ==
  /\ handler[c] = "release"
  /\ GoTo(c, "detach", work[c])
  /\ UNCHANGED <<engineVars, waitVars, sessionVars, hubVars,
                 toDaemon, toClient, serverOpen, clientVars>>

ReleaseLease(c) ==
  /\ handler[c] = "release"
  /\ lease' = NoConn
  /\ GoTo(c, "detach", work[c])
  /\ UNCHANGED <<engineVars, waitVars, sessionVars, agent, updates, activeConn,
                 toDaemon, toClient, serverOpen, clientVars>>

\* detach_ack, written after the lease is free; then the handler returns.
AckDetach(c) ==
  /\ handler[c] = "detach"
  /\ Answer(c, DaemonMsg("detach_ack", NoFrame, work[c]))
  /\ GoTo(c, "return", 0)
  /\ UNCHANGED <<engineVars, waitVars, sessionVars, hubVars, toDaemon, serverOpen, clientVars>>

\* handleInteraction changes local state, reports an event, or does nothing.
ReadInteraction(c) ==
  /\ Reads(c, "interaction")
  /\ \/ renderGeneration < MaxRender /\ InteractLocally
     \/ nextOrder < MaxEvents /\ InteractWithEvent
     \/ UNCHANGED engineVars
  /\ GoTo(c, "signal", Arg(c))
  /\ UNCHANGED <<waitVars, sessionVars, hubVars, toClient, serverOpen, clientVars>>

\* ... or fails, with the error as the answer.
RefuseInteraction(c) ==
  /\ Reads(c, "interaction")
  /\ InteractionFails
  /\ Answer(c, DaemonMsg("error", NoFrame, Arg(c)))
  /\ UNCHANGED <<waitVars, sessionVars, hubVars, handler, work, serverOpen, clientVars>>

\* Fault: the terminal is not shown what its own interaction did.
SignalInteraction_NoSnapshot(c) ==
  /\ handler[c] = "signal"
  /\ SignalEvents
  /\ GoTo(c, "select", 0)
  /\ UNCHANGED <<engineVars, sessionVars, hubVars, toDaemon, toClient, serverOpen, clientVars>>

\* signalEvents between the interaction and its snapshot.
SignalInteraction(c) ==
  /\ handler[c] = "signal"
  /\ SignalEvents
  /\ GoTo(c, "snapshot", work[c])
  /\ UNCHANGED <<engineVars, sessionVars, hubVars, toDaemon, toClient, serverOpen, clientVars>>

\* ackPublication, first look at the engine: stale, duplicate or pending.
ReadFramePublished(c) ==
  /\ Reads(c, "frame_published")
  /\ \/ /\ Arg(c) # publicationGeneration
        /\ Answer(c, DaemonMsg("error", NoFrame, 0))
        /\ GoTo(c, "select", 0)
     \/ /\ Arg(c) = publicationGeneration /\ ~NeedsPublish
        /\ GoTo(c, "signalAck", 0)
        /\ UNCHANGED toClient
     \/ /\ Arg(c) = publicationGeneration /\ NeedsPublish
        /\ GoTo(c, "publish", Arg(c))
        /\ UNCHANGED toClient
  /\ UNCHANGED <<engineVars, waitVars, sessionVars, hubVars, serverOpen, clientVars>>

\* ackPublication, second look: PublishGeneration under the engine's lock.
PublishFrame(c) ==
  /\ handler[c] = "publish"
  /\ \/ /\ PublishGeneration(work[c])
        /\ GoTo(c, "signalAck", 0)
        /\ UNCHANGED toClient
     \/ /\ PublishGenerationFails(work[c]) \/ PublishGenerationStale(work[c])
        /\ Answer(c, DaemonMsg("error", NoFrame, 0))
        /\ GoTo(c, "select", 0)
  /\ UNCHANGED <<waitVars, sessionVars, hubVars, toDaemon, serverOpen, clientVars>>

SignalPublished(c) ==
  /\ handler[c] = "signalAck"
  /\ SignalEvents
  /\ GoTo(c, "select", 0)
  /\ UNCHANGED <<engineVars, sessionVars, hubVars, toDaemon, toClient, serverOpen, clientVars>>

\* A failed write or the end of the stream starts the deferred cleanup.
HandlerReturns(c) ==
  /\ \/ handler[c] \in {"greet", "snapshot"} /\ WriteFails(c)
     \/ handler[c] = "select" /\ client[c] = "off" /\ toDaemon[c] = <<>>
  /\ ClearActiveConn(c)
  /\ GoTo(c, "return", 0)
  /\ UNCHANGED <<engineVars, waitVars, sessionVars, agent, updates, lease,
                 toDaemon, toClient, serverOpen, clientVars>>

\* Its end, which is all there is to do for a handler that got no lease or
\* has given it up.
HandlerEnds(c) ==
  /\ \/ handler[c] = "return"
     \/ handler[c] = "hello" /\ client[c] = "off" /\ toDaemon[c] = <<>>
  /\ Hangup(c)
  /\ UNCHANGED <<engineVars, waitVars, sessionVars, agent, updates, activeConn,
                 toClient, clientVars>>

HandlerStep(c) ==
  \/ ReadHello(c) \/ SetActiveConn(c) \/ Greet(c) \/ TakeUpdate(c) \/ WriteSnapshot(c)
  \/ ReadDetach(c) \/ ReleaseLease(c) \/ AckDetach(c)
  \/ ReadInteraction(c) \/ RefuseInteraction(c) \/ SignalInteraction(c)
  \/ ReadFramePublished(c) \/ PublishFrame(c) \/ SignalPublished(c)
  \/ HandlerReturns(c) \/ HandlerEnds(c)

------------------------------------------------------------------------------
(* The terminal client                                                       *)

Send(c, msg) == toDaemon' = [toDaemon EXCEPT ![c] = Append(@, msg)]

\* A fresh process connects and says hello; Accept starts its handler.
Dial(c) ==
  /\ client[c] = "off" /\ handler[c] = "none" /\ dials < MaxDials
  /\ dials' = dials + 1
  /\ client' = [client EXCEPT ![c] = "dialing"]
  /\ GoTo(c, "hello", 0)
  /\ Send(c, ClientMsg("hello", 0))
  /\ serverOpen' = [serverOpen EXCEPT ![c] = TRUE]
  /\ UNCHANGED <<cache, refresh, lastAck, request, nextReq, toClient,
                 engineVars, waitVars, sessionVars, hubVars>>

\* The next n messages start with one of this kind, and are consumed.
Receives(c, kind, n) ==
  /\ toClient[c] # <<>> /\ Head(toClient[c]).kind = kind
  /\ toClient' = [toClient EXCEPT ![c] = SubSeq(@, n + 1, Len(@))]

Received(c) == Head(toClient[c])

ClientOnly == UNCHANGED <<engineVars, waitVars, sessionVars, hubVars, handler, work, serverOpen>>

\* Dial's second half: hello_ack, the snapshot written right behind it, and
\* the program's first frame.
ReceiveInitialSnapshot(c) ==
  /\ client[c] = "dialing" /\ Len(toClient[c]) > 1 /\ Receives(c, "hello_ack", 2)
  /\ client' = [client EXCEPT ![c] = "running"]
  /\ cache' = [cache EXCEPT ![c] = toClient[c][2].frame]
  /\ refresh' = [refresh EXCEPT ![c] = TRUE]
  /\ UNCHANGED <<lastAck, request, nextReq, dials, toDaemon>> /\ ClientOnly

\* The process is gone, by choice or not: its end of the socket closes. What
\* it sent before stays readable for the daemon.
Leave(c) ==
  /\ client' = [client EXCEPT ![c] = "off"]
  /\ toClient' = [toClient EXCEPT ![c] = <<>>]
  /\ cache' = [cache EXCEPT ![c] = NoFrame]
  /\ refresh' = [refresh EXCEPT ![c] = FALSE]
  /\ lastAck' = [lastAck EXCEPT ![c] = 0]
  /\ request' = [request EXCEPT ![c] = 0]
  /\ nextReq' = [nextReq EXCEPT ![c] = 0]
  /\ UNCHANGED <<dials, toDaemon>>
  /\ ClientOnly

\* Refused with ipc.client_busy, or the daemon hung up before the snapshot.
DialFails(c) ==
  /\ client[c] = "dialing"
  /\ \/ toClient[c] # <<>> /\ Received(c).kind = "busy"
     \/ toClient[c] = <<>> /\ ~serverOpen[c]
  /\ Leave(c)

Resolve(c, req) ==
  request' = [request EXCEPT ![c] = IF req # 0 /\ req = @ THEN 0 ELSE @]

\* Fault: an unchanged redraw generation is taken for an old snapshot.
AcceptsSnapshot_OnlyNewer(c, s) == s.renderGeneration > cache[c].renderGeneration

\* acceptSnapshot: only an older redraw generation is refused.
AcceptsSnapshot(c, s) == s.renderGeneration >= cache[c].renderGeneration

\* Fault: the redraw is requested for answers to requests only.
ReceiveSnapshot_NoRefresh(c) ==
  /\ client[c] \in {"running", "closing"} /\ Receives(c, "snapshot", 1)
  /\ IF AcceptsSnapshot(c, Received(c).frame)
     THEN /\ cache' = [cache EXCEPT ![c] = Received(c).frame]
          /\ refresh' = [refresh EXCEPT ![c] = @ \/ Received(c).req # 0]
     ELSE UNCHANGED <<cache, refresh>>
  /\ Resolve(c, Received(c).req)
  /\ UNCHANGED <<client, lastAck, nextReq, dials, toDaemon>> /\ ClientOnly

ReceiveSnapshot(c) ==
  /\ client[c] \in {"running", "closing"} /\ Receives(c, "snapshot", 1)
  /\ IF AcceptsSnapshot(c, Received(c).frame)
     THEN /\ cache' = [cache EXCEPT ![c] = Received(c).frame]
          /\ refresh' = [refresh EXCEPT ![c] = TRUE]
     ELSE UNCHANGED <<cache, refresh>>
  /\ Resolve(c, Received(c).req)
  /\ UNCHANGED <<client, lastAck, nextReq, dials, toDaemon>> /\ ClientOnly

\* An error with a request id answers it; one without asks for a redraw.
ReceiveError(c) ==
  /\ client[c] \in {"running", "closing"} /\ Receives(c, "error", 1)
  /\ refresh' = [refresh EXCEPT ![c] = @ \/ Received(c).req = 0]
  /\ Resolve(c, Received(c).req)
  /\ UNCHANGED <<client, cache, lastAck, nextReq, dials, toDaemon>> /\ ClientOnly

\* End of stream: connectionErr is set, View stops acknowledging, requests fail.
ReceiveEOF(c) ==
  /\ client[c] \in {"running", "closing"} /\ toClient[c] = <<>> /\ ~serverOpen[c]
  /\ client' = [client EXCEPT ![c] = "disconnected"]
  /\ request' = [request EXCEPT ![c] = 0]
  /\ refresh' = [refresh EXCEPT ![c] = TRUE]
  /\ UNCHANGED <<cache, lastAck, nextReq, dials, toDaemon, toClient>> /\ ClientOnly

\* View draws the cached snapshot and acknowledges its token. The write
\* succeeds while the daemon's end is open, and then the token is remembered;
\* nobody waits for the daemon's verdict.
MustAcknowledge(c) ==
  /\ client[c] = "running"
  /\ cache[c].publicationPending
  /\ cache[c].publicationGeneration # 0
  /\ lastAck[c] # cache[c].publicationGeneration

View(c) ==
  /\ client[c] \in {"running", "disconnected"} /\ request[c] = 0
  /\ MakeVisible(cache[c])
  /\ IF MustAcknowledge(c) /\ serverOpen[c]
     THEN /\ Len(toDaemon[c]) < SocketBuffer
          /\ Send(c, ClientMsg("frame_published", cache[c].publicationGeneration))
          /\ lastAck' = [lastAck EXCEPT ![c] = cache[c].publicationGeneration]
     ELSE UNCHANGED <<toDaemon, lastAck>>
  /\ UNCHANGED <<client, cache, request, nextReq, dials, waitVars, sessionVars, hubVars,
                 handler, work, toClient, serverOpen>>

\* A redraw because of EngineDirtyMsg, and one because of a key, tick or resize.
DrawUpdate(c) == refresh[c] /\ View(c) /\ refresh' = [refresh EXCEPT ![c] = FALSE]
Redraw(c) == View(c) /\ UNCHANGED refresh

\* A key that needs the daemon: the UI goroutine waits for the answer.
Interact(c) ==
  /\ client[c] = "running" /\ request[c] = 0
  /\ nextReq[c] < MaxRequests /\ Len(toDaemon[c]) < SocketBuffer
  /\ nextReq' = [nextReq EXCEPT ![c] = @ + 1]
  /\ IF serverOpen[c]
     THEN /\ Send(c, ClientMsg("interaction", nextReq[c] + 1))
          /\ request' = [request EXCEPT ![c] = nextReq[c] + 1]
     ELSE UNCHANGED <<toDaemon, request>>
  /\ UNCHANGED <<client, cache, refresh, lastAck, dials, toClient>> /\ ClientOnly

\* The request timer fires; a late answer finds nobody waiting.
RequestTimeout(c) ==
  /\ client[c] = "running" /\ request[c] # 0
  /\ request' = [request EXCEPT ![c] = 0]
  /\ UNCHANGED <<client, cache, refresh, lastAck, nextReq, dials, toDaemon, toClient>>
  /\ ClientOnly

\* Client.Close asks to detach and waits.
Close(c) ==
  /\ client[c] = "running" /\ request[c] = 0
  /\ serverOpen[c] /\ Len(toDaemon[c]) < SocketBuffer
  /\ nextReq' = [nextReq EXCEPT ![c] = @ + 1]
  /\ Send(c, ClientMsg("detach", nextReq[c] + 1))
  /\ request' = [request EXCEPT ![c] = nextReq[c] + 1]
  /\ client' = [client EXCEPT ![c] = "closing"]
  /\ UNCHANGED <<cache, refresh, lastAck, dials, toClient>> /\ ClientOnly

\* detach_ack: Close returns without an error and the process ends.
ReceiveDetachAck(c) ==
  /\ client[c] = "closing"
  /\ toClient[c] # <<>> /\ Received(c).kind = "detach_ack" /\ Received(c).req = request[c]
  /\ Leave(c)

\* Death of the process at any point, a quit after the daemon hung up, or the
\* timeout of Close.
Quit(c) == client[c] # "off" /\ Leave(c)

ClientStep(c) ==
  \/ Dial(c) \/ ReceiveInitialSnapshot(c) \/ DialFails(c)
  \/ ReceiveSnapshot(c) \/ ReceiveError(c) \/ ReceiveEOF(c)
  \/ DrawUpdate(c) \/ Redraw(c)
  \/ Interact(c) \/ RequestTimeout(c) \/ Close(c) \/ ReceiveDetachAck(c) \/ Quit(c)

Next == AgentNext \/ \E c \in Conns : HandlerStep(c) \/ ClientStep(c)

Spec == Init /\ [][Next]_vars

------------------------------------------------------------------------------
(* Safety                                                                    *)

Serving(c) == handler[c] \in {"select", "snapshot", "signal", "publish", "signalAck"}
Attached(c) == handler[c] = "greet" \/ Serving(c)

ClientMessage == [kind : {"hello", "interaction", "frame_published", "detach"}, n : Nat]
DaemonMessage ==
  [kind : {"hello_ack", "busy", "snapshot", "error", "detach_ack"}, frame : FrameType, req : Nat]

HubTypeOK ==
  /\ agent \in {"idle", "signal"} /\ updates \in BOOLEAN
  /\ lease \in Conns \cup {NoConn} /\ activeConn \in Conns \cup {NoConn}

ConnTypeOK ==
  /\ handler \in [Conns -> {"none", "hello", "acquired", "greet", "select", "snapshot",
                            "signal", "publish", "signalAck", "release", "detach", "return"}]
  /\ work \in [Conns -> Nat]
  /\ toDaemon \in [Conns -> Seq(ClientMessage)]
  /\ toClient \in [Conns -> Seq(DaemonMessage)]
  /\ serverOpen \in [Conns -> BOOLEAN]

TerminalTypeOK ==
  /\ client \in [Conns -> {"off", "dialing", "running", "closing", "disconnected"}]
  /\ cache \in [Conns -> FrameType] /\ refresh \in [Conns -> BOOLEAN]
  /\ lastAck \in [Conns -> Nat] /\ request \in [Conns -> Nat]
  /\ nextReq \in [Conns -> Nat] /\ dials \in Nat

TypeOK ==
  /\ EngineTypeOK /\ WaitTypeOK /\ SessionTypeOK
  /\ HubTypeOK /\ ConnTypeOK /\ TerminalTypeOK

\* The daemon, its transport and its terminals implement the commit barrier:
\* retried or refused mutations, terminals that die after an acknowledgement,
\* successors that attach, late and stale acknowledgements included.
Barrier == INSTANCE PublicationBarrier WITH
  applied <- lastSeq, visible <- shown.seen,
  waiting <- pendingCommits, acked <- acknowledged
BarrierImplemented == Barrier!Spec

\* One terminal at a time: a served connection holds the lease and is the one
\* closeActiveConn would close, no connection is active without the lease, and
\* the lease is never with a connection whose handler has gone.
LeaseExclusive ==
  /\ \A c \in Conns : Attached(c) => lease = c /\ activeConn = c
  /\ activeConn # NoConn => lease = activeConn
  /\ lease # NoConn => handler[lease] \notin {"none", "hello", "detach"}

\* "a successful Client.Close guarantees immediate reattach cannot observe
\* client_busy": a client that can read its detach_ack no longer has the lease.
DetachAckMeansFree ==
  \A c \in Conns : \A i \in 1..Len(toClient[c]) :
    toClient[c][i].kind = "detach_ack" => lease # c

\* The newest snapshot the client will read, or else has, is the current state.
Snapshots(c) == {i \in 1..Len(toClient[c]) : toClient[c][i].kind = "snapshot"}

Current(f) ==
  f.publicationGeneration = publicationGeneration /\ f.renderGeneration = renderGeneration

UpToDate(c) ==
  \/ Snapshots(c) = {} /\ Current(cache[c])
  \/ \E i \in Snapshots(c) : Current(toClient[c][i].frame) /\ \A j \in Snapshots(c) : j <= i

\* signalSnapshot coalesces wake-ups in a one-slot channel and no wake-up is
\* lost by it: a served terminal that will not see the current state by itself
\* has a snapshot coming.
NoStaleTerminal ==
  \A c \in Conns :
    Serving(c) /\ client[c] = "running" /\ ~UpToDate(c)
    => updates \/ agent = "signal" \/ handler[c] \in {"snapshot", "signal"}

------------------------------------------------------------------------------
(* Liveness                                                                  *)

\* Goroutines that can run do: the agent's request behind agentMu, each
\* handler (its writes time out), each terminal's reader, its redraw after
\* an update, and the request timer. Nothing is assumed of users, of agents
\* or of terminals that quit.
Fairness ==
  /\ WF_vars(SignalSnapshot)
  /\ \A c \in Conns :
       /\ WF_vars(HandlerStep(c))
       /\ WF_vars(ReceiveInitialSnapshot(c) \/ DialFails(c))
       /\ WF_vars(ReceiveSnapshot(c) \/ ReceiveError(c) \/ ReceiveEOF(c))
       /\ WF_vars(DrawUpdate(c))
       /\ WF_vars(RequestTimeout(c))

FairSpec == Spec /\ Fairness

\* In addition agents keep asking for events and terminals keep redrawing.
AttentiveSpec ==
  /\ FairSpec
  /\ \A w \in Waiters :
       WF_vars((CallWaitEvents(w) \/ DrainOne(w) \/ DrainEnds(w) \/ GoToSleep(w) \/ WakeUp(w) \/ GiveUp(w))
                 /\ UNCHANGED <<sessionVars, hubVars, connVars, clientVars>>)
  /\ \A c \in Conns : WF_vars(Redraw(c))

Served(c) == Serving(c) /\ client[c] = "running"

\* "commit ... yields a reliable event" (PROTOCOL.md section 12): a commit is
\* acknowledged as long as a terminal stays attached.
CommitAcknowledged ==
  \A c \in Conns : \A s \in 1..MaxOps :
    (Served(c) /\ \E i \in 1..Len(pendingCommits) : pendingCommits[i] = s)
      ~> (~Served(c) \/ \A i \in 1..Len(pendingCommits) : pendingCommits[i] # s)

\* Every publication generation, or a later one, is drawn by a terminal that
\* stays attached, however wake-ups and snapshots are coalesced on the way.
ChangesAreDrawn ==
  \A c \in Conns : \A g \in 1..MaxOps :
    (Served(c) /\ publicationGeneration >= g)
      ~> (~Served(c) \/ shown.publicationGeneration >= g)

\* A terminal that dies without a word does not keep the lease.
LeaseRecovered ==
  \A c \in Conns : (lease = c /\ client[c] = "off") ~> (lease # c)

==============================================================================
