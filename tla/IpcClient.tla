------------------------------ MODULE IpcClient ------------------------------
(***************************************************************************)
(* Requests of ipc/client.go: every caller registers a channel under its   *)
(* request id, writes the record and waits for the answer, the timer or    *)
(* the end of the connection. readLoop hands answers to the channels.      *)
(*                                                                         *)
(* Daemon.tla models what a terminal does with the snapshots; here answers *)
(* carry only the daemon's verdict. The daemon's end of the connection     *)
(* belongs to the module that uses this one.                               *)
(***************************************************************************)
EXTENDS Naturals, Sequences

CONSTANT MaxRequests    \* bound on the requests of one client

ASSUME RequestsAssumption == MaxRequests \in Nat

VARIABLES
  nextReq,      \* last request id handed out
  kind,         \* id -> "key" or "detach"
  caller,       \* id -> what requestMessage is doing
  returned,     \* id -> what requestMessage returned
  pending,      \* ids in Client.pending
  response,     \* id -> what its channel has been sent
  reader,       \* what readLoop is doing
  inHand,       \* the answers readLoop has taken out of pending and not yet sent
  closed,       \* Client.closed is closed
  clientOpen,   \* the client's end of the connection is open
  serverOpen,   \* the daemon's end is open
  toDaemon, toClient    \* records in flight

clientVars == <<nextReq, kind, caller, returned, pending, response, reader, inHand, closed>>
wireVars == <<clientOpen, serverOpen, toDaemon, toClient>>

ids == 1..MaxRequests
Answers == {"ok", "error", "closed"}

ClientTypeOK ==
  /\ nextReq \in 0..MaxRequests
  /\ kind \in [ids -> {"none", "key", "detach"}]
  /\ caller \in [ids -> {"idle", "write", "wait", "returned"}]
  /\ returned \in [ids -> Answers \cup {"none", "timeout"}]
  /\ pending \subseteq ids
  /\ response \in [ids -> Answers \cup {"none"}]
  /\ reader \in {"read", "resolve", "fail", "finish", "ended"}
  /\ inHand \subseteq [id : ids, answer : Answers]
  /\ {closed, clientOpen, serverOpen} \subseteq BOOLEAN
  /\ toDaemon \in Seq([id : ids, kind : {"key", "detach"}])
  /\ toClient \in Seq([id : ids, answer : {"ok", "error"}])

\* Dial has been answered: both ends are open and readLoop runs.
ClientInit ==
  /\ nextReq = 0
  /\ kind = [id \in ids |-> "none"]
  /\ caller = [id \in ids |-> "idle"]
  /\ returned = [id \in ids |-> "none"]
  /\ pending = {}
  /\ response = [id \in ids |-> "none"]
  /\ reader = "read" /\ inHand = {}
  /\ closed = FALSE /\ clientOpen = TRUE /\ serverOpen = TRUE
  /\ toDaemon = <<>> /\ toClient = <<>>

------------------------------------------------------------------------------
(* requestMessage                                                            *)

RequestReturns(id, with) ==
  /\ caller' = [caller EXCEPT ![id] = "returned"]
  /\ returned' = [returned EXCEPT ![id] = with]

\* The id is new, and registering checks closed under pendingMu.
requestMessage(k) ==
  /\ nextReq < MaxRequests
  /\ nextReq' = nextReq + 1
  /\ kind' = [kind EXCEPT ![nextReq + 1] = k]
  /\ IF closed
     THEN RequestReturns(nextReq + 1, "closed") /\ UNCHANGED pending
     ELSE /\ caller' = [caller EXCEPT ![nextReq + 1] = "write"]
          /\ pending' = pending \cup {nextReq + 1}
          /\ UNCHANGED returned
  /\ UNCHANGED <<response, reader, inHand, closed, wireVars>>

Write(id) ==
  /\ caller[id] = "write"
  /\ IF clientOpen /\ serverOpen
     THEN /\ toDaemon' = Append(toDaemon, [id |-> id, kind |-> kind[id]])
          /\ caller' = [caller EXCEPT ![id] = "wait"]
          /\ UNCHANGED <<pending, returned>>
     ELSE /\ pending' = pending \ {id}
          /\ RequestReturns(id, "closed")
          /\ UNCHANGED toDaemon
  /\ UNCHANGED <<nextReq, kind, response, reader, inHand, closed, clientOpen, serverOpen, toClient>>

TakeResponse(id) ==
  /\ caller[id] = "wait" /\ response[id] # "none"
  /\ RequestReturns(id, response[id])
  /\ UNCHANGED <<nextReq, kind, pending, response, reader, inHand, closed, wireVars>>

\* The request timer; a late answer finds no entry.
RequestTimeout(id) ==
  /\ caller[id] = "wait"
  /\ RequestReturns(id, "timeout")
  /\ pending' = pending \ {id}
  /\ UNCHANGED <<nextReq, kind, response, reader, inHand, closed, wireVars>>

\* Fault: the end of the connection wins over an answer already there.
SeeClosed_IgnoresResponse(id) ==
  /\ caller[id] = "wait" /\ closed
  /\ RequestReturns(id, "closed")
  /\ UNCHANGED <<nextReq, kind, pending, response, reader, inHand, closed, wireVars>>

\* "Prefer the request-bound response": the inner select.
SeeClosed(id) ==
  /\ caller[id] = "wait" /\ closed
  /\ RequestReturns(id, IF response[id] = "none" THEN "closed" ELSE response[id])
  /\ UNCHANGED <<nextReq, kind, pending, response, reader, inHand, closed, wireVars>>

RequestStep(id) == Write(id) \/ TakeResponse(id) \/ RequestTimeout(id) \/ SeeClosed(id)

------------------------------------------------------------------------------
(* readLoop                                                                  *)

\* pending[m.RequestID], if there is one.
Addressee(m) == {m.id} \cap pending

\* resolve takes the entry out under pendingMu and sends after the unlock.
\* What the reader had buffered is read even after the connection was closed.
Receive ==
  /\ reader = "read" /\ toClient # <<>>
  /\ LET to == Addressee(Head(toClient))
     IN /\ pending' = pending \ to
        /\ inHand' = {[id |-> id, answer |-> Head(toClient).answer] : id \in to}
        /\ reader' = IF to = {} THEN "read" ELSE "resolve"
  /\ toClient' = Tail(toClient)
  /\ UNCHANGED <<nextReq, kind, caller, returned, response, closed, clientOpen, serverOpen, toDaemon>>

\* The sends to the channels, each of which has room for one answer.
SendAnswers ==
  response' = [id \in ids |->
                IF \E h \in inHand : h.id = id
                THEN (CHOOSE h \in inHand : h.id = id).answer ELSE response[id]]

Resolve ==
  /\ reader = "resolve" /\ reader' = "read"
  /\ SendAnswers /\ inHand' = {}
  /\ UNCHANGED <<nextReq, kind, caller, returned, pending, closed, wireVars>>

\* End of stream, or a connection closed on this side: failAll swaps the map.
EndOfStream ==
  /\ reader = "read" /\ (~clientOpen \/ (toClient = <<>> /\ ~serverOpen))
  /\ inHand' = [id : pending, answer : {"closed"}]
  /\ pending' = {}
  /\ reader' = "fail"
  /\ UNCHANGED <<nextReq, kind, caller, returned, response, closed, wireVars>>

failAll ==
  /\ reader = "fail" /\ reader' = "finish"
  /\ SendAnswers /\ inHand' = {}
  /\ UNCHANGED <<nextReq, kind, caller, returned, pending, closed, wireVars>>

\* finish closes the connection and Client.closed, once.
finish ==
  /\ closed' = TRUE /\ clientOpen' = FALSE
  /\ UNCHANGED <<nextReq, kind, caller, returned, pending, response, inHand,
                 serverOpen, toDaemon, toClient>>

ReaderFinishes == reader = "finish" /\ reader' = "ended" /\ finish

ReaderStep == Receive \/ Resolve \/ EndOfStream \/ failAll \/ ReaderFinishes

\* Close: a detach request, and finish whatever came of it.
CloseFinishes ==
  /\ ~closed /\ \E id \in ids : kind[id] = "detach" /\ caller[id] = "returned"
  /\ finish /\ UNCHANGED reader

==============================================================================
