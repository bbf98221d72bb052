------------------------------ MODULE LocalView ------------------------------
(***************************************************************************)
(* An engine and a Bubble Tea model in one process: adapter/bubbletea      *)
(* Model.View over localSemanticController.                                *)
(*                                                                         *)
(* The agent goroutine applies operations and drains events while the UI   *)
(* goroutine draws. View reads a snapshot, renders it and acknowledges the *)
(* snapshot's token in three steps that the agent may interleave with; key *)
(* handling runs on the UI goroutine, so only between two calls of View.   *)
(***************************************************************************)
EXTENDS Engine

CONSTANTS
  MaxOps,           \* bound on the operations the agent applies
  MaxRender,        \* bound on the redraw generation
  MaxEvents         \* bound on the events accepted before a key adds another

ASSUME LocalBounds == MaxOps \in Nat /\ MaxRender \in Nat /\ MaxEvents \in Nat

VARIABLES
  view,             \* where View is: "idle", "rendering", "acknowledging"
  frame,            \* the snapshot View holds
  lastAck           \* Model.lastAck

viewVars == <<view, frame, lastAck>>
vars == <<engineVars, viewVars>>

Init ==
  /\ EngineInit
  /\ view = "idle"
  /\ frame = Snapshot
  /\ lastAck = 0

------------------------------------------------------------------------------
(* The agent                                                                 *)

AgentApply ==
  /\ lastSeq < MaxOps
  /\ Apply(lastSeq + 1)
  /\ UNCHANGED viewVars

AgentTakeEvent == TakeEvent /\ UNCHANGED viewVars

------------------------------------------------------------------------------
(* The UI goroutine                                                          *)

ReadSnapshot ==
  /\ view = "idle"
  /\ view' = "rendering"
  /\ frame' = Snapshot
  /\ UNCHANGED <<engineVars, lastAck>>

\* View's guard on the acknowledgement.
MustAcknowledge(s) ==
  /\ s.publicationPending
  /\ s.publicationGeneration # 0
  /\ lastAck # s.publicationGeneration

RenderFrame ==
  /\ view = "rendering"
  /\ MakeVisible(frame)
  /\ view' = IF MustAcknowledge(frame) THEN "acknowledging" ELSE "idle"
  /\ UNCHANGED <<frame, lastAck>>

\* Fault: View acknowledges whatever token is current.
AckToken_Current == publicationGeneration

\* The token acknowledged is the one of the frame just drawn.
AckToken == frame.publicationGeneration

\* A published or stale token is remembered ...
AcknowledgePublication ==
  /\ view = "acknowledging"
  /\ PublishGeneration(AckToken) \/ PublishGenerationStale(AckToken)
  /\ lastAck' = frame.publicationGeneration
  /\ view' = "idle"
  /\ UNCHANGED frame

\* Fault: the token is remembered before the engine has accepted it.
AcknowledgementFails_Remembers ==
  /\ view = "acknowledging"
  /\ PublishGenerationFails(AckToken)
  /\ lastAck' = frame.publicationGeneration
  /\ view' = "idle"
  /\ UNCHANGED frame

\* ... one the engine refused under backpressure is not, so View tries again.
AcknowledgementFails ==
  /\ view = "acknowledging"
  /\ PublishGenerationFails(AckToken)
  /\ view' = "idle"
  /\ UNCHANGED <<frame, lastAck>>

HandleKey ==
  /\ view = "idle"
  /\ \/ renderGeneration < MaxRender /\ InteractLocally
     \/ nextOrder < MaxEvents /\ InteractWithEvent
  /\ UNCHANGED viewVars

Next ==
  \/ AgentApply \/ AgentTakeEvent
  \/ ReadSnapshot \/ RenderFrame \/ AcknowledgePublication \/ AcknowledgementFails
  \/ HandleKey

Spec == Init /\ [][Next]_vars

------------------------------------------------------------------------------
(* Properties                                                                *)

TypeOK ==
  /\ EngineTypeOK
  /\ view \in {"idle", "rendering", "acknowledging"}
  /\ frame \in FrameType
  /\ lastAck \in Nat

\* A publication that has not happened is never taken for acknowledged: a
\* token that is still pending is not the one remembered, so that a View to
\* come acknowledges it (again), after backpressure too.
PendingIsRetried == NeedsPublish => lastAck # publicationGeneration

\* Whatever the agent does while View is busy, the token View is going to
\* acknowledge either stands for the frame in View's hands or is stale.
FrameMatchesToken == TokenStandsFor(AckToken, frame)

\* The engine and its view implement the commit barrier an agent relies on.
Barrier == INSTANCE PublicationBarrier WITH
  applied <- lastSeq, visible <- shown.seen,
  waiting <- pendingCommits, acked <- acknowledged

\* Commits are acknowledged once, in order, and only when what they cover has
\* been drawn, in every interleaving of Apply with the three steps of View.
BarrierImplemented == Barrier!Spec

==============================================================================
