--------------------------- MODULE LocalViewProofs ---------------------------
(***************************************************************************)
(* The commit barrier of an in-process engine and view, for every event    *)
(* capacity, pending limit and number of operations.                       *)
(*                                                                         *)
(* The argument: a token stands for one content (FrameMatchesToken),       *)
(* because every operation that changes the content takes a new one; View  *)
(* acknowledges the token of a frame only after drawing that frame         *)
(* (DrawnBeforeAck); so a publication under the current token announces    *)
(* what has been drawn.                                                    *)
(***************************************************************************)
EXTENDS LocalView, EngineProofs

ViewTypeOK ==
  /\ view \in {"idle", "rendering", "acknowledging"}
  /\ frame \in FrameType
  /\ lastAck \in Nat

FrameBounded == frame.revision <= revision /\ frame.seen <= lastSeq

DrawnBeforeAck ==
  view = "acknowledging" => frame.revision <= shown.revision /\ frame.seen <= shown.seen

AckBounded == lastAck <= publicationGeneration

ViewInv ==
  /\ EngineInv
  /\ ViewTypeOK
  /\ FrameMatchesToken
  /\ FrameBounded
  /\ DrawnBeforeAck
  /\ AckBounded
  /\ PendingIsRetried

\* The engine starts with nothing drawn, waiting or pending.
LEMMA InitInv == Init => ViewInv
  <1> SUFFICES ASSUME Init PROVE ViewInv
    OBVIOUS
  <1>1. EngineInv
    <2>1. EngineTypeOK
      BY DEF Init, EngineInit, BrokerInit, EngineTypeOK
    <2>2. Bounded
      <3>1. Len(pendingCommits) = 0 /\ maxPendingCommits \in Nat
        BY LimitFacts DEF Init, EngineInit
      <3>2. shown.revision = 0 /\ shown.seen = 0
        BY DEF Init, EngineInit
      <3> QED BY <3>1, <3>2 DEF Init, EngineInit, Bounded
    <2>3. CommittedWasVisible /\ PublishedWasVisible
      BY DEF Init, EngineInit, BrokerInit, CommittedWasVisible, PublishedWasVisible
    <2> QED BY <2>1, <2>2, <2>3 DEF EngineInv
  <1>2. ViewTypeOK
    BY DEF Init, EngineInit, ViewTypeOK, Snapshot, FrameType, NeedsPublish
  <1>3. FrameMatchesToken /\ FrameBounded /\ DrawnBeforeAck /\ AckBounded
    BY DEF Init, EngineInit, Snapshot, FrameMatchesToken, TokenStandsFor, AckToken,
       FrameBounded, DrawnBeforeAck, AckBounded
  <1>4. PendingIsRetried
    BY DEF Init, EngineInit, PendingIsRetried, NeedsPublish
  <1> QED BY <1>1, <1>2, <1>3, <1>4 DEF ViewInv

\* One step of the agent or of View preserves the invariant.
LEMMA NextInv == ViewInv /\ [Next]_vars => ViewInv'
  <1> SUFFICES ASSUME ViewInv, [Next]_vars PROVE ViewInv'
    OBVIOUS
  <1> USE DEF ViewInv
  <1>f. /\ frame.publicationGeneration \in Nat /\ frame.revision \in Nat /\ frame.seen \in Nat
        /\ publicationGeneration \in Nat /\ lastSeq \in Nat /\ revision \in Nat
        /\ shown.revision \in Nat /\ shown.seen \in Nat
    BY DEF ViewTypeOK, FrameType, EngineInv, EngineTypeOK
  <1>1. CASE AgentApply
    <2>1. /\ Apply(lastSeq + 1) /\ UNCHANGED viewVars /\ lastSeq + 1 \in Nat
          /\ lastSeq + 1 > lastSeq
      BY <1>1, <1>f DEF AgentApply
    <2>2. EngineInv'
      BY <2>1, ApplyInv
    <2>3. FrameMatchesToken'
      BY <2>1, <1>f, ApplyKeepsTokens
         DEF FrameMatchesToken, AckToken, viewVars, ViewTypeOK, EngineInv, TokenStandsFor
    <2>4. /\ \/ publicationGeneration' = publicationGeneration + 1
             \/ UNCHANGED <<publicationGeneration, revision, statePublication,
                            publishedGeneration, pendingCommits>>
          /\ revision <= revision' /\ revision' \in Nat
          /\ lastSeq' = lastSeq + 1
          /\ UNCHANGED shown
      BY <2>1, <2>2, ApplyTakesToken DEF EngineInv, EngineTypeOK
    <2>5. ViewTypeOK' /\ FrameBounded' /\ DrawnBeforeAck'
      BY <2>1, <2>4, <1>f DEF ViewTypeOK, FrameBounded, DrawnBeforeAck, viewVars
    <2>6. AckBounded' /\ PendingIsRetried'
      BY <2>1, <2>4, <1>f DEF AckBounded, PendingIsRetried, NeedsPublish, viewVars, ViewTypeOK
    <2> QED BY <2>2, <2>3, <2>5, <2>6
  <1>2. CASE AgentTakeEvent
    <2>1. EngineInv'
      BY <1>2, TakeEventInv DEF AgentTakeEvent
    <2>2. UNCHANGED <<viewVars, revision, publicationVars, lastSeq, shown>>
      BY <1>2 DEF AgentTakeEvent, TakeEvent
    <2> QED
      BY <2>1, <2>2 DEF viewVars, publicationVars, ViewTypeOK, FrameMatchesToken, TokenStandsFor,
         AckToken, FrameBounded, DrawnBeforeAck, AckBounded, PendingIsRetried, NeedsPublish
  <1>3. CASE ReadSnapshot
    <2>1. view' = "rendering" /\ frame' = Snapshot /\ UNCHANGED <<engineVars, lastAck>>
      BY <1>3 DEF ReadSnapshot
    <2>2. EngineInv'
      BY <2>1, EngineStutter
    <2>3. ViewTypeOK' /\ FrameBounded' /\ DrawnBeforeAck'
      BY <2>1, <1>f, SnapshotFacts
         DEF ViewTypeOK, FrameBounded, DrawnBeforeAck, engineVars
    <2>4. FrameMatchesToken'
      BY <2>1, SnapshotFacts DEF FrameMatchesToken, AckToken, TokenStandsFor, engineVars,
         publicationVars
    <2>5. AckBounded' /\ PendingIsRetried'
      BY <2>1 DEF AckBounded, PendingIsRetried, NeedsPublish, engineVars, publicationVars
    <2> QED BY <2>2, <2>3, <2>4, <2>5
  <1>4. CASE RenderFrame
    <2>1. /\ MakeVisible(frame) /\ frame \in FrameType
          /\ UNCHANGED <<frame, lastAck>> /\ view' \in {"idle", "acknowledging"}
      BY <1>4 DEF RenderFrame, ViewTypeOK
    <2>2. EngineInv' /\ frame.revision <= shown'.revision /\ frame.seen <= shown'.seen
      BY <2>1, MakeVisibleInv DEF FrameBounded
    <2>3. UNCHANGED <<revision, publicationVars, lastSeq>>
      BY <2>1 DEF MakeVisible
    <2> QED
      BY <2>1, <2>2, <2>3 DEF publicationVars, ViewTypeOK, FrameMatchesToken, TokenStandsFor,
         AckToken, FrameBounded, DrawnBeforeAck, AckBounded, PendingIsRetried, NeedsPublish
  <1>5. CASE AcknowledgePublication
    <2>1. /\ view = "acknowledging" /\ view' = "idle" /\ frame' = frame
          /\ lastAck' = frame.publicationGeneration
      BY <1>5 DEF AcknowledgePublication
    <2>2. ViewTypeOK' /\ DrawnBeforeAck'
      BY <2>1, <1>f DEF ViewTypeOK, DrawnBeforeAck
    <2>3. CASE PublishGeneration(AckToken)
      <3>1. Publish /\ frame.publicationGeneration = publicationGeneration
        BY <2>3 DEF PublishGeneration, Publishable, AckToken
      <3>2. /\ revision <= shown.revision
            /\ \A i \in 1..Len(pendingCommits) : pendingCommits[i] <= shown.seen
        <4>1. frame.revision = revision /\ frame.revision <= shown.revision
          BY <2>1, <3>1 DEF FrameMatchesToken, TokenStandsFor, AckToken, DrawnBeforeAck
        <4>2. \A i \in 1..Len(pendingCommits) :
                 pendingCommits[i] \in Nat /\ pendingCommits[i] <= frame.seen
          BY <3>1 DEF FrameMatchesToken, TokenStandsFor, AckToken, EngineInv, EngineTypeOK
        <4>3. frame.seen <= shown.seen
          BY <2>1 DEF DrawnBeforeAck
        <4> QED BY <4>1, <4>2, <4>3, <1>f
      <3>3. EngineInv'
        BY <3>1, <3>2, PublishInv
      <3>4. FrameMatchesToken' /\ ~NeedsPublish'
        BY <2>1, <3>1, <1>f, PublishKeepsTokens
           DEF FrameMatchesToken, AckToken, TokenStandsFor, ViewTypeOK, EngineInv
      <3>5. UNCHANGED <<revision, lastSeq, publicationGeneration>>
        BY <3>1 DEF Publish
      <3>6. FrameBounded' /\ AckBounded' /\ PendingIsRetried'
        BY <2>1, <3>4, <3>5 DEF FrameBounded, AckBounded, PendingIsRetried, FrameMatchesToken,
           TokenStandsFor, AckToken
      <3> QED BY <2>2, <3>3, <3>4, <3>6
    <2>4. CASE PublishGenerationStale(AckToken)
      <3>1. UNCHANGED engineVars /\ ~(frame.publicationGeneration = publicationGeneration /\ NeedsPublish)
        BY <2>4 DEF PublishGenerationStale, Publishable, AckToken
      <3>2. EngineInv'
        BY <3>1, EngineStutter
      <3>3. FrameMatchesToken' /\ FrameBounded' /\ AckBounded'
        BY <2>1, <3>1 DEF FrameMatchesToken, TokenStandsFor, AckToken, FrameBounded, AckBounded,
           engineVars, publicationVars
      <3>4. PendingIsRetried'
        BY <2>1, <3>1 DEF PendingIsRetried, NeedsPublish, engineVars, publicationVars
      <3> QED BY <2>2, <3>2, <3>3, <3>4
    <2> QED BY <1>5, <2>3, <2>4 DEF AcknowledgePublication
  <1>6. CASE AcknowledgementFails
    <2>1. UNCHANGED engineVars
      BY <1>6 DEF AcknowledgementFails, PublishGenerationFails, PublishBackpressure,
         RejectCriticalBatch, engineVars
    <2>2. UNCHANGED <<frame, lastAck>> /\ view' = "idle"
      BY <1>6 DEF AcknowledgementFails
    <2>3. EngineInv'
      BY <2>1, EngineStutter
    <2> QED
      BY <2>1, <2>2, <2>3 DEF engineVars, publicationVars, ViewTypeOK, FrameMatchesToken,
         TokenStandsFor, AckToken, FrameBounded, DrawnBeforeAck, AckBounded, PendingIsRetried,
         NeedsPublish
  <1>7. CASE HandleKey
    <2>1. UNCHANGED viewVars /\ (InteractLocally \/ InteractWithEvent)
      BY <1>7 DEF HandleKey
    <2>2. EngineInv'
      BY <2>1, InteractionInv
    <2>3. UNCHANGED <<revision, publicationVars, lastSeq, shown>>
      BY <2>1 DEF InteractLocally, InteractWithEvent
    <2> QED
      BY <2>1, <2>2, <2>3 DEF viewVars, publicationVars, ViewTypeOK, FrameMatchesToken,
         TokenStandsFor, AckToken, FrameBounded, DrawnBeforeAck, AckBounded, PendingIsRetried,
         NeedsPublish
  <1>8. CASE UNCHANGED vars
    <2>1. UNCHANGED engineVars /\ UNCHANGED viewVars
      BY <1>8 DEF vars
    <2>2. EngineInv'
      BY <2>1, EngineStutter
    <2> QED
      BY <2>1, <2>2 DEF engineVars, viewVars, publicationVars, ViewTypeOK, FrameMatchesToken,
         TokenStandsFor, AckToken, FrameBounded, DrawnBeforeAck, AckBounded, PendingIsRetried,
         NeedsPublish
  <1> QED
    BY <1>1, <1>2, <1>3, <1>4, <1>5, <1>6, <1>7, <1>8 DEF Next

\* ViewInv is an invariant of the engine with its view.
LEMMA InvHolds == Spec => []ViewInv
  <1>1. Init => ViewInv
    BY InitInv
  <1>2. ViewInv /\ [Next]_vars => ViewInv'
    BY NextInv
  <1> QED BY <1>1, <1>2, PTL DEF Spec

\* The counters, queues, histories and View's own state keep their types.
THEOREM TypeCorrect == Spec => []TypeOK
  <1>1. ViewInv => TypeOK
    BY DEF ViewInv, EngineInv, ViewTypeOK, TypeOK
  <1> QED BY <1>1, InvHolds, PTL

\* A committed event names a revision and a mutation that have been drawn.
THEOREM CommitsWereVisible == Spec => []CommittedWasVisible
  <1>1. ViewInv => CommittedWasVisible
    BY DEF ViewInv, EngineInv
  <1> QED BY <1>1, InvHolds, PTL

\* The revision State.Publish records has been drawn.
THEOREM PublicationsWereVisible == Spec => []PublishedWasVisible
  <1>1. ViewInv => PublishedWasVisible
    BY DEF ViewInv, EngineInv
  <1> QED BY <1>1, InvHolds, PTL

\* The waiting commits fit an emptied event queue.
THEOREM BacklogFits == Spec => []BacklogFitsQueue
  <1>1. ViewInv => BacklogFitsQueue
    <2> SUFFICES ASSUME ViewInv PROVE Len(pendingCommits) <= Cap
      BY DEF BacklogFitsQueue
    <2>1. Len(pendingCommits) <= maxPendingCommits /\ Len(pendingCommits) \in Nat
      BY DEF ViewInv, EngineInv, Bounded, EngineTypeOK
    <2> QED BY <2>1, LimitFacts
  <1> QED BY <1>1, InvHolds, PTL

\* A token that is still pending is not the one View remembers, after
\* backpressure too, so a View to come acknowledges it (model.go's lastAck).
THEOREM PendingRetried == Spec => []PendingIsRetried
  <1>1. ViewInv => PendingIsRetried
    BY DEF ViewInv
  <1> QED BY <1>1, InvHolds, PTL

\* The events announce every acknowledged commit once, in commit order, whatever
\* errors and user events are accepted between them.
THEOREM CommitsAnnouncedOnce == Spec => []CommittedEventsMatch
  <1>1. Init => CommittedEventsMatch
    <2> SUFFICES ASSUME Init PROVE CommittedEventsMatch
      OBVIOUS
    <2>1. accepted = <<>> /\ acknowledged = <<>>
      BY DEF Init, EngineInit, BrokerInit
    <2>2. CommittedAmong(accepted, Len(accepted)) = {}
      BY <2>1 DEF CommittedAmong
    <2> QED BY <2>1, <2>2, FS_EmptySet DEF CommittedEventsMatch, Announce
  <1>2. ViewInv /\ CommittedEventsMatch /\ [Next]_vars => CommittedEventsMatch'
    <2> SUFFICES ASSUME ViewInv, CommittedEventsMatch, [Next]_vars PROVE CommittedEventsMatch'
      OBVIOUS
    <2>0. EngineTypeOK
      BY DEF ViewInv, EngineInv
    <2>1. CASE AgentApply
      <3>1. lastSeq + 1 \in Nat
        BY <2>0 DEF EngineTypeOK
      <3> QED BY <2>0, <2>1, <3>1, AnnouncedApply DEF AgentApply
    <2>2. CASE AcknowledgePublication \/ AcknowledgementFails
      <3>1. Publish \/ UNCHANGED engineVars
        BY <2>2 DEF AcknowledgePublication, AcknowledgementFails, PublishGeneration,
           PublishGenerationStale, PublishGenerationFails, PublishBackpressure, RejectCriticalBatch,
           engineVars
      <3> QED BY <2>0, <3>1, AnnouncedPublish, AnnouncedOther
    <2>3. CASE AgentTakeEvent \/ ReadSnapshot \/ RenderFrame \/ HandleKey
      <3>1. \/ InteractLocally \/ InteractWithEvent \/ TakeEvent \/ UNCHANGED engineVars
            \/ \E s : MakeVisible(s)
        BY <2>3 DEF AgentTakeEvent, ReadSnapshot, RenderFrame, HandleKey
      <3> QED BY <2>0, <3>1, AnnouncedOther
    <2>4. CASE UNCHANGED vars
      BY <2>0, <2>4, AnnouncedOther DEF vars
    <2> QED BY <2>1, <2>2, <2>3, <2>4 DEF Next
  <1> QED BY <1>1, <1>2, InvHolds, PTL DEF Spec

\* The token View is going to acknowledge stands for the frame in its hands,
\* whatever the agent has applied since, or it is stale.
THEOREM AcknowledgementsAreSound == Spec => []FrameMatchesToken
  <1>1. ViewInv => FrameMatchesToken
    BY DEF ViewInv
  <1> QED BY <1>1, InvHolds, PTL

------------------------------------------------------------------------------
(* Refinement                                                                *)

\* Every step of engine, view and agent is a step of the abstract barrier or
\* leaves it alone.
LEMMA StepRefines ==
  ASSUME ViewInv, [Next]_vars
  PROVE  [Barrier!Next]_(Barrier!barrierVars)
  <1> USE DEF ViewInv, Barrier!barrierVars, Barrier!Next
  <1>f. /\ frame.revision \in Nat /\ frame.seen \in Nat
        /\ lastSeq \in Nat /\ shown.seen \in Nat
    BY DEF ViewTypeOK, FrameType, EngineInv, EngineTypeOK
  <1>1. CASE AgentApply
    <2>1. Apply(lastSeq + 1) /\ lastSeq + 1 \in Nat /\ lastSeq + 1 > lastSeq
      BY <1>1, <1>f DEF AgentApply
    <2>2. CASE ApplyCommit(lastSeq + 1)
      <3>1. /\ lastSeq' = lastSeq + 1 /\ pendingCommits' = Append(pendingCommits, lastSeq')
            /\ UNCHANGED <<shown, acknowledged>>
        BY <2>2 DEF ApplyCommit
      <3> QED BY <2>1, <3>1 DEF Barrier!Commit
    <2>3. CASE ~ApplyCommit(lastSeq + 1)
      <3>1. /\ lastSeq' = lastSeq + 1
            /\ UNCHANGED <<shown, acknowledged, pendingCommits>>
        BY <2>1, <2>3 DEF Apply, Succeeds, Fails, ApplyCommitOverLimit, ApplyChanged,
           ApplyProjected, ApplyUnchanged, ApplyRejected, publicationVars
      <3> QED BY <2>1, <3>1 DEF Barrier!Mutate
    <2> QED BY <2>2, <2>3
  <1>2. CASE RenderFrame
    <2>1. MakeVisible(frame) /\ frame \in FrameType
      BY <1>2 DEF RenderFrame, ViewTypeOK
    <2>2. EngineInv' /\ shown.seen <= shown'.seen
      BY <2>1, MakeVisibleInv DEF FrameBounded
    <2>3. UNCHANGED <<lastSeq, pendingCommits, acknowledged>>
      BY <2>1 DEF MakeVisible, publicationVars
    <2>4. shown'.seen \in shown.seen..lastSeq
      BY <2>2, <2>3, <1>f DEF EngineInv, EngineTypeOK, Bounded
    <2> QED BY <2>3, <2>4 DEF Barrier!Show
  <1>3. CASE AcknowledgePublication
    <2>1. CASE PublishGeneration(AckToken)
      <3>1. /\ Publish /\ view = "acknowledging"
            /\ frame.publicationGeneration = publicationGeneration
        BY <1>3, <2>1 DEF AcknowledgePublication, PublishGeneration, Publishable, AckToken
      <3>2. \A i \in 1..Len(pendingCommits) :
               pendingCommits[i] \in Nat /\ pendingCommits[i] <= frame.seen
        BY <3>1 DEF FrameMatchesToken, TokenStandsFor, AckToken, EngineInv, EngineTypeOK
      <3>3. frame.seen <= shown.seen
        BY <3>1 DEF DrawnBeforeAck
      <3>4. \A i \in 1..Len(pendingCommits) : pendingCommits[i] <= shown.seen
        BY <3>2, <3>3, <1>f
      <3>5. /\ acknowledged' = acknowledged \o pendingCommits /\ pendingCommits' = <<>>
            /\ UNCHANGED <<lastSeq, shown>>
        BY <3>1 DEF Publish
      <3> QED BY <3>4, <3>5 DEF Barrier!Acknowledge
    <2>2. CASE PublishGenerationStale(AckToken)
      BY <2>2 DEF PublishGenerationStale, engineVars, publicationVars
    <2> QED BY <1>3, <2>1, <2>2 DEF AcknowledgePublication
  <1>4. CASE AgentTakeEvent \/ ReadSnapshot \/ AcknowledgementFails \/ HandleKey \/ UNCHANGED vars
    <2>1. UNCHANGED <<lastSeq, shown, pendingCommits, acknowledged>>
      BY <1>4 DEF AgentTakeEvent, TakeEvent, ReadSnapshot, AcknowledgementFails,
         PublishGenerationFails, PublishBackpressure, HandleKey, InteractLocally,
         InteractWithEvent, vars, engineVars, publicationVars
    <2> QED BY <2>1
  <1> QED
    BY <1>1, <1>2, <1>3, <1>4 DEF Next

\* The engine with its in-process view implements the commit barrier: commits
\* are acknowledged once, in order, and only when what they cover is visible.
THEOREM BarrierRefined == Spec => BarrierImplemented
  <1>1. Init => Barrier!Init
    BY DEF Init, EngineInit, Barrier!Init
  <1>2. ViewInv /\ [Next]_vars => [Barrier!Next]_(Barrier!barrierVars)
    BY StepRefines
  <1> QED BY <1>1, <1>2, InvHolds, PTL DEF Spec, BarrierImplemented, Barrier!Spec

==============================================================================
