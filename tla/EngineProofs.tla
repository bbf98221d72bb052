---------------------------- MODULE EngineProofs -----------------------------
(***************************************************************************)
(* What every operation of Engine.tla preserves, whoever calls it.         *)
(* LocalViewProofs.tla, DaemonProofs.tla and EventProofs.tla build on      *)
(* these lemmas.                                                           *)
(***************************************************************************)
EXTENDS Engine, FiniteSetTheorems, TLAPS

\* Nothing counted as drawn or waiting is ahead of the engine, and the
\* revision a publication announces is the document's.
Bounded ==
  /\ dirtyRevision = revision
  /\ publishedRevision <= revision
  /\ shown.revision <= revision
  /\ shown.seen <= lastSeq
  /\ \A i \in 1..Len(pendingCommits) : pendingCommits[i] <= lastSeq
  /\ Len(pendingCommits) <= maxPendingCommits

EngineInv ==
  /\ EngineTypeOK
  /\ Bounded
  /\ CommittedWasVisible
  /\ PublishedWasVisible

\* New() caps the waiting commits at the event capacity.
LEMMA LimitFacts ==
  Cap \in Nat /\ maxPendingCommits \in Nat /\ maxPendingCommits <= Cap
  BY CapAssumption, MaxPendingAssumption DEF maxPendingCommits

------------------------------------------------------------------------------
(* Types                                                                     *)

\* order() stamps events without changing what they are.
LEMMA StampType ==
  ASSUME NEW evs \in Seq(EngineEvent), nextOrder \in Nat
  PROVE  Stamp(evs) \in Seq([event : EngineEvent, seq : Nat])
  BY DEF Stamp

\* The broker's typed part accepts a typed batch.
LEMMA AppendCriticalType ==
  ASSUME EngineTypeOK, NEW evs \in Seq(EngineEvent), AppendCritical(evs)
  PROVE  /\ critical' \in Seq([event : EngineEvent, seq : Nat])
         /\ coalesced' = <<>> /\ telemetry' = <<>> /\ latest' = <<>>
         /\ nextOrder' \in Nat /\ nextSeq' \in Nat
         /\ accepted' \in Seq(EngineEvent)
  <1>1. critical' = critical \o Stamp(evs) /\ accepted' = accepted \o evs
    BY DEF AppendCritical
  <1>2. Stamp(evs) \in Seq([event : EngineEvent, seq : Nat])
    BY StampType DEF EngineTypeOK
  <1>3. critical' \in Seq([event : EngineEvent, seq : Nat]) /\ accepted' \in Seq(EngineEvent)
    BY <1>1, <1>2 DEF EngineTypeOK
  <1>4. nextOrder' \in Nat
    BY DEF AppendCritical, EngineTypeOK
  <1> QED BY <1>3, <1>4 DEF AppendCritical, EngineTypeOK

\* emitError enqueues a typed event or nothing.
LEMMA EmitErrorType ==
  ASSUME EngineTypeOK, NEW seq \in Nat, EmitError(seq)
  PROVE  /\ critical' \in Seq([event : EngineEvent, seq : Nat])
         /\ coalesced' = <<>> /\ telemetry' = <<>> /\ latest' = <<>>
         /\ nextOrder' \in Nat /\ nextSeq' \in Nat
         /\ accepted' \in Seq(EngineEvent)
  <1>1. <<ErrorEvent(seq)>> \in Seq(EngineEvent)
    BY DEF ErrorEvent, EngineEvent
  <1>2. CASE EnqueueCritical(ErrorEvent(seq))
    BY <1>1, <1>2, AppendCriticalType DEF EnqueueCritical
  <1>3. CASE RejectCritical
    BY <1>3 DEF RejectCritical, EngineTypeOK, brokerVars, queueVars
  <1> QED BY <1>2, <1>3 DEF EmitError

\* The committed events of a publication are typed, one per waiting commit.
LEMMA CommittedEventsType ==
  ASSUME EngineTypeOK
  PROVE  /\ CommittedEvents \in Seq(EngineEvent)
         /\ Len(CommittedEvents) = Len(pendingCommits)
         /\ Larger(dirtyRevision, publishedRevision) \in Nat
  <1>1. Larger(dirtyRevision, publishedRevision) \in Nat
    BY DEF EngineTypeOK, Larger
  <1>2. \A i \in 1..Len(pendingCommits) :
          CommittedEvent(Larger(dirtyRevision, publishedRevision), pendingCommits[i])
            \in EngineEvent
    <2>1. \A r, t \in Nat : CommittedEvent(r, t) \in EngineEvent
      BY DEF CommittedEvent, EngineEvent
    <2>2. \A i \in 1..Len(pendingCommits) : pendingCommits[i] \in Nat
      BY DEF EngineTypeOK
    <2> QED BY <1>1, <2>1, <2>2
  <1>3. Len(pendingCommits) \in Nat
    BY DEF EngineTypeOK
  <1> QED BY <1>1, <1>2, <1>3 DEF CommittedEvents

\* Apply, accepted or rejected, keeps the engine's types.
LEMMA ApplyType ==
  ASSUME EngineTypeOK, NEW seq \in Nat, Apply(seq)
  PROVE  EngineTypeOK'
  <1>1. CASE ApplyChanged(seq)
    BY <1>1 DEF ApplyChanged, EngineTypeOK, brokerVars, queueVars
  <1>2. CASE ApplyProjected(seq)
    BY <1>2 DEF ApplyProjected, EngineTypeOK, brokerVars, queueVars
  <1>3. CASE ApplyUnchanged(seq)
    BY <1>3 DEF ApplyUnchanged, EngineTypeOK, brokerVars, queueVars, publicationVars
  <1>4. CASE ApplyCommit(seq)
    BY <1>4 DEF ApplyCommit, EngineTypeOK, brokerVars, queueVars
  <1>5. CASE ApplyRejected(seq)
    BY <1>5, EmitErrorType DEF ApplyRejected, EngineTypeOK, publicationVars
  <1> QED
    BY <1>1, <1>2, <1>3, <1>4, <1>5 DEF Apply, Succeeds, Fails, ApplyCommitOverLimit

\* So does a publication.
LEMMA PublishType ==
  ASSUME EngineTypeOK, Publish
  PROVE  EngineTypeOK'
  <1>1. /\ critical' \in Seq([event : EngineEvent, seq : Nat])
        /\ coalesced' = <<>> /\ telemetry' = <<>> /\ latest' = <<>>
        /\ nextOrder' \in Nat /\ nextSeq' \in Nat
        /\ accepted' \in Seq(EngineEvent)
    BY CommittedEventsType, AppendCriticalType DEF Publish, EnqueueCriticalBatch
  <1>2. /\ publishedGeneration' \in Nat /\ publishedRevision' \in Nat
        /\ pendingCommits' \in Seq(Nat) /\ acknowledged' \in Seq(Nat)
    BY DEF Publish, EngineTypeOK, Larger
  <1> QED BY <1>1, <1>2 DEF Publish, EngineTypeOK

\* So do local interaction, the agent's drain and a draw.
LEMMA InteractionType ==
  ASSUME EngineTypeOK, InteractLocally \/ InteractWithEvent
  PROVE  EngineTypeOK'
  <1>1. CASE InteractLocally
    BY <1>1 DEF InteractLocally, EngineTypeOK, brokerVars, queueVars, publicationVars
  <1>2. CASE InteractWithEvent
    <2>1. <<UserEvent>> \in Seq(EngineEvent)
      BY DEF UserEvent, EngineEvent
    <2> QED BY <1>2, <2>1, AppendCriticalType
            DEF InteractWithEvent, EnqueueCritical, EngineTypeOK, publicationVars
  <1> QED BY <1>1, <1>2

\* Taking an event keeps the types.
LEMMA TakeEventType ==
  ASSUME EngineTypeOK, TakeEvent
  PROVE  EngineTypeOK' /\ UNCHANGED accepted
  <1>1. DOMAIN coalesced = {} /\ telemetry = <<>>
    BY DEF EngineTypeOK
  <1>2. NextCritical
    BY <1>1 DEF TakeEvent, NextEvent, NextCoalesced, NextTelemetry
  <1>3. critical' \in Seq([event : EngineEvent, seq : Nat])
    BY <1>2 DEF NextCritical, EngineTypeOK
  <1>4. nextSeq' \in Nat /\ UNCHANGED <<nextOrder, accepted, latest, coalesced, telemetry>>
    BY <1>2 DEF NextCritical, Deliver, EngineTypeOK
  <1> QED BY <1>3, <1>4 DEF TakeEvent, EngineTypeOK, publicationVars

\* Drawing a frame keeps the types.
LEMMA MakeVisibleType ==
  ASSUME EngineTypeOK, NEW s \in FrameType, MakeVisible(s)
  PROVE  EngineTypeOK'
  <1>1. shown' \in [publicationGeneration : Nat, revision : Nat, seen : Nat]
    BY DEF MakeVisible, WithShown, Larger, EngineTypeOK, FrameType
  <1> QED
    BY <1>1 DEF MakeVisible, EngineTypeOK, brokerVars, queueVars, publicationVars

------------------------------------------------------------------------------
(* The barrier's invariant                                                   *)

\* A batch adds its events at the end of the history and nothing else.
LEMMA AcceptedAfter ==
  ASSUME EngineTypeOK, NEW evs \in Seq(EngineEvent), AppendCritical(evs)
  PROVE  /\ Len(accepted') = Len(accepted) + Len(evs)
         /\ \A i \in 1..Len(accepted') :
              accepted'[i] = IF i <= Len(accepted) THEN accepted[i]
                                                   ELSE evs[i - Len(accepted)]
  BY DEF AppendCritical, EngineTypeOK

\* Enqueueing an event that is not a committed event cannot break the barrier.
LEMMA OtherEventsKeepBarrier ==
  ASSUME EngineTypeOK, CommittedWasVisible, UNCHANGED shown,
         NEW ev \in EngineEvent, ev.ev # "committed", AppendCritical(<<ev>>)
  PROVE  CommittedWasVisible'
  <1>1. <<ev>> \in Seq(EngineEvent) /\ Len(<<ev>>) = 1 /\ <<ev>>[1] = ev
    OBVIOUS
  <1>2. /\ Len(accepted') = Len(accepted) + 1
        /\ \A i \in 1..Len(accepted') :
             accepted'[i] = IF i <= Len(accepted) THEN accepted[i]
                                                  ELSE <<ev>>[i - Len(accepted)]
    BY <1>1, AcceptedAfter
  <1>3. Len(accepted) \in Nat
    BY DEF EngineTypeOK
  <1>4. ASSUME NEW i \in 1..Len(accepted'), accepted'[i].ev = "committed"
        PROVE  i <= Len(accepted) /\ accepted'[i] = accepted[i]
    <2>1. CASE i <= Len(accepted)
      BY <1>2, <1>3, <2>1
    <2>2. CASE ~(i <= Len(accepted))
      <3>1. i - Len(accepted) = 1
        BY <1>2, <1>3, <2>2
      <3> QED BY <1>1, <1>2, <1>4, <2>2, <3>1
    <2> QED BY <2>1, <2>2
  <1> QED BY <1>2, <1>3, <1>4 DEF CommittedWasVisible

\* Apply never announces anything, and keeps the counters in step.
LEMMA ApplyInv ==
  ASSUME EngineInv, NEW seq \in Nat, seq > lastSeq, Apply(seq)
  PROVE  EngineInv'
  <1> USE DEF EngineInv
  <1>1. EngineTypeOK'
    BY ApplyType
  <1>2. CASE ApplyChanged(seq)
    BY <1>1, <1>2 DEF ApplyChanged, EngineTypeOK, Bounded, CommittedWasVisible,
       PublishedWasVisible, brokerVars, queueVars, maxPendingCommits
  <1>3. CASE ApplyProjected(seq)
    BY <1>1, <1>3 DEF ApplyProjected, EngineTypeOK, Bounded, CommittedWasVisible,
       PublishedWasVisible, brokerVars, queueVars, maxPendingCommits
  <1>4. CASE ApplyUnchanged(seq)
    BY <1>1, <1>4 DEF ApplyUnchanged, EngineTypeOK, Bounded, CommittedWasVisible,
       PublishedWasVisible, brokerVars, queueVars, publicationVars, maxPendingCommits
  <1>5. CASE ApplyCommit(seq)
    <2>1. Bounded'
      <3>1. /\ Len(pendingCommits') = Len(pendingCommits) + 1
            /\ \A i \in 1..Len(pendingCommits') : pendingCommits'[i] =
                 IF i <= Len(pendingCommits) THEN pendingCommits[i] ELSE seq
        BY <1>5 DEF ApplyCommit, EngineTypeOK
      <3>2. \A i \in 1..Len(pendingCommits') : pendingCommits'[i] <= seq
        <4>1. \A i \in 1..Len(pendingCommits) : pendingCommits[i] \in Nat
          BY DEF EngineTypeOK
        <4>2. \A i \in 1..Len(pendingCommits) : pendingCommits[i] <= seq
          BY <4>1 DEF EngineTypeOK, Bounded
        <4>3. Len(pendingCommits) \in Nat
          BY DEF EngineTypeOK
        <4> QED BY <3>1, <4>2, <4>3
      <3>3. Len(pendingCommits') <= maxPendingCommits
        BY <1>5, <3>1, LimitFacts DEF ApplyCommit, EngineTypeOK
      <3> QED BY <1>5, <3>2, <3>3 DEF ApplyCommit, EngineTypeOK, Bounded, maxPendingCommits
    <2> QED BY <1>1, <1>5, <2>1 DEF ApplyCommit, CommittedWasVisible,
            PublishedWasVisible, brokerVars, queueVars
  <1>6. CASE ApplyRejected(seq)
    <2>1. Bounded' /\ PublishedWasVisible'
      BY <1>6 DEF ApplyRejected, EngineTypeOK, Bounded, PublishedWasVisible,
         publicationVars, maxPendingCommits
    <2>2. CASE EnqueueCritical(ErrorEvent(seq))
      <3>1. ErrorEvent(seq) \in EngineEvent /\ ErrorEvent(seq).ev # "committed"
        BY DEF ErrorEvent, EngineEvent
      <3> QED BY <1>1, <1>6, <2>1, <2>2, <3>1, OtherEventsKeepBarrier
              DEF ApplyRejected, EnqueueCritical
    <2>3. CASE RejectCritical
      BY <1>1, <1>6, <2>1, <2>3 DEF ApplyRejected, RejectCritical, CommittedWasVisible,
         brokerVars, queueVars
    <2> QED BY <1>6, <2>2, <2>3 DEF ApplyRejected, EmitError
  <1> QED
    BY <1>2, <1>3, <1>4, <1>5, <1>6 DEF Apply, Succeeds, Fails, ApplyCommitOverLimit

\* A publication keeps the invariant if its renderer has drawn the current
\* document and every waiting commit: the one obligation of whoever calls it.
LEMMA PublishInv ==
  ASSUME EngineInv, Publish,
         revision <= shown.revision,
         \A i \in 1..Len(pendingCommits) : pendingCommits[i] <= shown.seen
  PROVE  EngineInv'
  <1> USE DEF EngineInv
  <1>1. EngineTypeOK'
    BY PublishType
  <1>2. Larger(dirtyRevision, publishedRevision) = revision
    BY DEF Bounded, Larger, EngineTypeOK
  <1>3. Bounded' /\ PublishedWasVisible'
    <2>1. Len(pendingCommits') = 0 /\ publishedRevision' = revision
      BY <1>2 DEF Publish
    <2>2. UNCHANGED <<revision, dirtyRevision, shown, lastSeq>>
      BY DEF Publish
    <2>3. 0 <= maxPendingCommits'
      BY LimitFacts DEF maxPendingCommits
    <2> QED BY <2>1, <2>2, <2>3 DEF Bounded, PublishedWasVisible, EngineTypeOK
  <1>4. CommittedWasVisible'
    <2> DEFINE evs == CommittedEvents
    <2>1. AppendCritical(evs) /\ UNCHANGED shown
      BY DEF Publish, EnqueueCriticalBatch
    <2>2. evs \in Seq(EngineEvent) /\ Len(evs) = Len(pendingCommits)
      BY CommittedEventsType
    <2>3. /\ Len(accepted') = Len(accepted) + Len(evs)
          /\ \A i \in 1..Len(accepted') :
               accepted'[i] = IF i <= Len(accepted) THEN accepted[i]
                                                    ELSE evs[i - Len(accepted)]
      BY <2>1, <2>2, AcceptedAfter
    <2>4. \A i \in 1..Len(evs) : evs[i].revision <= shown.revision /\ evs[i].through <= shown.seen
      BY <1>2, <2>2 DEF CommittedEvents, CommittedEvent
    <2>5. Len(accepted) \in Nat /\ Len(evs) \in Nat
      BY <2>2 DEF EngineTypeOK
    <2> HIDE DEF evs
    <2>6. ASSUME NEW i \in 1..Len(accepted'), accepted'[i].ev = "committed"
          PROVE  accepted'[i].revision <= shown.revision /\ accepted'[i].through <= shown.seen
      <3>1. CASE i <= Len(accepted)
        BY <2>3, <2>5, <2>6, <3>1 DEF CommittedWasVisible
      <3>2. CASE ~(i <= Len(accepted))
        <4>1. i - Len(accepted) \in 1..Len(evs)
          BY <2>3, <2>5, <3>2
        <4> QED BY <2>3, <2>4, <3>2, <4>1
      <3> QED BY <3>1, <3>2
    <2> QED BY <2>1, <2>6 DEF CommittedWasVisible
  <1> QED BY <1>1, <1>3, <1>4

\* Interaction and the agent's drain do not touch what the barrier is about.
LEMMA InteractionInv ==
  ASSUME EngineInv, InteractLocally \/ InteractWithEvent
  PROVE  EngineInv'
  <1> USE DEF EngineInv
  <1>1. EngineTypeOK'
    BY InteractionType
  <1>2. Bounded' /\ PublishedWasVisible'
    BY DEF InteractLocally, InteractWithEvent, Bounded, PublishedWasVisible, publicationVars,
       maxPendingCommits
  <1>3. CASE InteractLocally
    BY <1>1, <1>2, <1>3 DEF InteractLocally, CommittedWasVisible, brokerVars, queueVars
  <1>4. CASE InteractWithEvent
    <2>1. UserEvent \in EngineEvent /\ UserEvent.ev # "committed"
      BY DEF UserEvent, EngineEvent
    <2> QED BY <1>1, <1>2, <1>4, <2>1, OtherEventsKeepBarrier
            DEF InteractWithEvent, EnqueueCritical
  <1> QED BY <1>3, <1>4

\* Taking an event keeps the invariant.
LEMMA TakeEventInv ==
  ASSUME EngineInv, TakeEvent
  PROVE  EngineInv'
  BY TakeEventType DEF EngineInv, TakeEvent, Bounded, CommittedWasVisible,
     PublishedWasVisible, publicationVars, maxPendingCommits

\* Drawing a frame the engine has produced only adds to what was visible.
LEMMA MakeVisibleInv ==
  ASSUME EngineInv, NEW s \in FrameType, s.revision <= revision, s.seen <= lastSeq,
         MakeVisible(s)
  PROVE  /\ EngineInv'
         /\ s.revision <= shown'.revision /\ s.seen <= shown'.seen
         /\ shown.seen <= shown'.seen
  <1> USE DEF EngineInv
  <1>1. EngineTypeOK'
    BY MakeVisibleType
  <1>2. /\ shown'.revision = Larger(shown.revision, s.revision)
        /\ shown'.seen = Larger(shown.seen, s.seen)
    BY DEF MakeVisible, WithShown
  <1>3. /\ shown.revision \in Nat /\ shown.seen \in Nat /\ s.revision \in Nat /\ s.seen \in Nat
    BY DEF EngineTypeOK, FrameType
  <1>4. /\ shown.revision <= shown'.revision /\ s.revision <= shown'.revision
        /\ shown.seen <= shown'.seen /\ s.seen <= shown'.seen
        /\ shown'.revision <= revision /\ shown'.seen <= lastSeq
    BY <1>2, <1>3 DEF Larger, Bounded, EngineTypeOK
  <1>5. UNCHANGED <<accepted, revision, dirtyRevision, publishedRevision, pendingCommits, lastSeq>>
    BY DEF MakeVisible, brokerVars, publicationVars
  <1>6. Bounded' /\ PublishedWasVisible'
    <2>1. shown'.revision \in Nat /\ publishedRevision \in Nat
      BY <1>1 DEF EngineTypeOK
    <2>2. PublishedWasVisible'
      BY <1>3, <1>4, <1>5, <2>1 DEF PublishedWasVisible
    <2> QED BY <1>4, <1>5, <2>2 DEF Bounded, maxPendingCommits
  <1>7. CommittedWasVisible'
    <2> SUFFICES ASSUME NEW i \in 1..Len(accepted), accepted[i].ev = "committed"
                 PROVE  accepted[i].revision <= shown'.revision /\ accepted[i].through <= shown'.seen
      BY <1>5 DEF CommittedWasVisible
    <2>1. accepted[i].revision \in Nat /\ accepted[i].through \in Nat
      <3>1. accepted[i] \in EngineEvent
        BY DEF EngineTypeOK
      <3> QED BY <3>1 DEF EngineEvent
    <2>2. accepted[i].revision <= shown.revision /\ accepted[i].through <= shown.seen
      BY DEF CommittedWasVisible
    <2>3. shown'.revision \in Nat /\ shown'.seen \in Nat
      BY <1>1 DEF EngineTypeOK
    <2> QED BY <1>3, <1>4, <2>1, <2>2, <2>3
  <1> QED BY <1>1, <1>4, <1>6, <1>7

\* An operation that fails leaves the engine, and so the invariant, alone.
LEMMA EngineStutter ==
  ASSUME EngineInv, UNCHANGED engineVars
  PROVE  EngineInv'
  BY DEF EngineInv, EngineTypeOK, Bounded, CommittedWasVisible, PublishedWasVisible,
     maxPendingCommits, engineVars, brokerVars, queueVars, publicationVars

------------------------------------------------------------------------------
(* Tokens                                                                    *)

\* Apply takes a new token, or leaves content and waiting commits as they are.
LEMMA ApplyTakesToken ==
  ASSUME EngineTypeOK, NEW seq \in Nat, Apply(seq)
  PROVE  /\ \/ publicationGeneration' = publicationGeneration + 1
            \/ UNCHANGED <<publicationGeneration, revision, statePublication,
                           publishedGeneration, pendingCommits>>
         /\ revision <= revision'
         /\ lastSeq' = seq
         /\ UNCHANGED <<shown, acknowledged>>
  BY DEF Apply, Succeeds, Fails, ApplyCommitOverLimit, ApplyChanged, ApplyProjected,
     ApplyUnchanged, ApplyCommit, ApplyRejected, publicationVars, EngineTypeOK

\* So a token keeps standing for its frame over any operation.
LEMMA ApplyKeepsTokens ==
  ASSUME EngineTypeOK, NEW seq \in Nat, Apply(seq),
         NEW tok \in Nat, NEW s \in FrameType, TokenStandsFor(tok, s)
  PROVE  TokenStandsFor(tok, s)'
  <1>1. CASE publicationGeneration' = publicationGeneration + 1
    BY <1>1 DEF TokenStandsFor, EngineTypeOK
  <1>2. CASE UNCHANGED <<publicationGeneration, revision, statePublication,
                         publishedGeneration, pendingCommits>>
    BY <1>2 DEF TokenStandsFor
  <1> QED BY <1>1, <1>2, ApplyTakesToken

\* A publication empties the waiting commits and changes no content.
LEMMA PublishKeepsTokens ==
  ASSUME EngineTypeOK, Publish,
         NEW tok \in Nat, NEW s \in FrameType, TokenStandsFor(tok, s)
  PROVE  TokenStandsFor(tok, s)' /\ ~NeedsPublish'
  <1>1. pendingCommits' = <<>> /\ UNCHANGED <<publicationGeneration, revision>>
    BY DEF Publish
  <1>2. publishedGeneration' = Larger(statePublication, publishedGeneration)
        /\ statePublication' = statePublication
    BY DEF Publish
  <1>3. ~NeedsPublish'
    BY <1>1, <1>2 DEF NeedsPublish, Larger, EngineTypeOK
  <1> QED BY <1>1, <1>3 DEF TokenStandsFor

\* A snapshot is typed, is bounded by the engine and carries its own token.
LEMMA SnapshotFacts ==
  ASSUME EngineInv
  PROVE  /\ Snapshot \in FrameType
         /\ Snapshot.revision = revision /\ Snapshot.seen = lastSeq
         /\ TokenStandsFor(Snapshot.publicationGeneration, Snapshot)
  BY DEF Snapshot, FrameType, NeedsPublish, EngineInv, EngineTypeOK, Bounded, TokenStandsFor

------------------------------------------------------------------------------
(* The announced commits                                                     *)

\* What concatenation puts where.
LEMMA ConcatFacts ==
  ASSUME NEW S, NEW a \in Seq(S), NEW b \in Seq(S)
  PROVE  /\ a \o b \in Seq(S) /\ Len(a \o b) = Len(a) + Len(b)
         /\ \A i \in 1..Len(a) : (a \o b)[i] = a[i]
         /\ \A i \in 1..Len(b) : (a \o b)[Len(a) + i] = b[i]
         /\ Len(a) \in Nat /\ Len(b) \in Nat
  OBVIOUS

\* The committed events up to a place are finitely many.
LEMMA AmongFinite ==
  ASSUME NEW evs, NEW n \in Nat
  PROVE  /\ IsFiniteSet(CommittedAmong(evs, n)) /\ Cardinality(CommittedAmong(evs, n)) \in Nat
         /\ \A i \in CommittedAmong(evs, n) :
              Cardinality(CommittedAmong(evs, i)) \in 1..Cardinality(CommittedAmong(evs, n))
<1>1. \A m \in Nat : IsFiniteSet(1..m)
  BY FS_Interval
<1>2. \A m \in Nat : CommittedAmong(evs, m) \in SUBSET (1..m)
  BY DEF CommittedAmong
<1>3. \A m \in Nat : IsFiniteSet(CommittedAmong(evs, m)) /\ Cardinality(CommittedAmong(evs, m)) \in Nat
  BY <1>1, <1>2, FS_Subset, FS_CardinalityType
<1>4. ASSUME NEW i \in CommittedAmong(evs, n)
      PROVE  Cardinality(CommittedAmong(evs, i)) \in 1..Cardinality(CommittedAmong(evs, n))
  <2>1. i \in Nat /\ i \in CommittedAmong(evs, i) /\ CommittedAmong(evs, i) \in SUBSET CommittedAmong(evs, n)
    BY DEF CommittedAmong
  <2>2. Cardinality(CommittedAmong(evs, i)) <= Cardinality(CommittedAmong(evs, n))
    BY <1>3, <2>1, FS_Subset
  <2>3. Cardinality(CommittedAmong(evs, i)) # 0
    BY <1>3, <2>1, FS_EmptySet
  <2> QED BY <1>3, <2>1, <2>2, <2>3
<1> QED BY <1>3, <1>4

\* Events at the end do not change what came before.
LEMMA AmongPrefix ==
  ASSUME NEW evs \in Seq(EngineEvent), NEW more \in Seq(EngineEvent), NEW n \in 0..Len(evs)
  PROVE  CommittedAmong(evs \o more, n) = CommittedAmong(evs, n)
<1>1. \A i \in 1..n : (evs \o more)[i] = evs[i]
  OBVIOUS
<1> QED BY <1>1 DEF CommittedAmong

\* An event of another kind announces nothing.
LEMMA AnnounceOther ==
  ASSUME NEW evs \in Seq(EngineEvent), NEW ev \in EngineEvent, ev.ev # "committed",
         NEW commits, Announce(evs, commits)
  PROVE  Announce(evs \o <<ev>>, commits)
<1>0. <<ev>> \in Seq(EngineEvent) /\ Len(<<ev>>) = 1 /\ <<ev>>[1] = ev
  OBVIOUS
<1>1. PICK all \in Seq(EngineEvent) : all = evs \o <<ev>>
  BY <1>0, ConcatFacts
<1>2. /\ Len(all) = Len(evs) + 1 /\ Len(evs) \in Nat /\ all[Len(evs) + 1] = ev
      /\ \A i \in 1..Len(evs) : all[i] = evs[i]
  <2>1. PICK one \in Seq(EngineEvent) : one = <<ev>> /\ Len(one) = 1 /\ one[1] = ev
    BY <1>0
  <2>2. /\ Len(evs \o one) = Len(evs) + 1 /\ (evs \o one)[Len(evs) + 1] = one[1]
        /\ \A i \in 1..Len(evs) : (evs \o one)[i] = evs[i]
    BY <2>1, ConcatFacts
  <2> QED BY <1>1, <2>1, <2>2
<1>3. \A n \in 0..Len(evs) : CommittedAmong(all, n) = CommittedAmong(evs, n)
  BY <1>2 DEF CommittedAmong
<1>4. CommittedAmong(all, Len(all)) = CommittedAmong(evs, Len(evs))
  BY <1>2 DEF CommittedAmong
<1>5. \A i \in CommittedAmong(evs, Len(evs)) : i \in 1..Len(evs) /\ i \in 0..Len(evs)
  BY <1>2 DEF CommittedAmong
<1> QED BY <1>1, <1>2, <1>3, <1>4, <1>5 DEF Announce

\* A batch with one event per commit announces those commits, in order.
LEMMA AnnounceBatch ==
  ASSUME NEW evs \in Seq(EngineEvent), NEW more \in Seq(EngineEvent),
         NEW commits \in Seq(Nat), NEW waiting \in Seq(Nat), Len(more) = Len(waiting),
         \A i \in 1..Len(more) : more[i].ev = "committed" /\ more[i].through = waiting[i],
         Announce(evs, commits)
  PROVE  Announce(evs \o more, commits \o waiting)
<1>1. PICK all \in Seq(EngineEvent) : all = evs \o more
  BY ConcatFacts
<1>2. PICK n \in Nat, k \in Nat : n = Len(evs) /\ k = Len(more)
  BY ConcatFacts
<1>3. /\ Len(all) = n + k /\ \A i \in 1..n : all[i] = evs[i]
      /\ \A i \in 1..k : all[n + i] = more[i]
  <2>1. Len(evs \o more) = Len(evs) + Len(more)
    BY ConcatFacts
  <2>2. \A i \in 1..Len(evs) : (evs \o more)[i] = evs[i]
    BY ConcatFacts
  <2>3. \A i \in 1..Len(more) : (evs \o more)[Len(evs) + i] = more[i]
    BY ConcatFacts
  <2> QED BY <1>1, <1>2, <2>1, <2>2, <2>3, Zenon
<1>4. PICK c \in Nat : c = Len(commits)
  BY ConcatFacts
<1>5. /\ Len(commits \o waiting) = c + k /\ \A i \in 1..c : (commits \o waiting)[i] = commits[i]
      /\ \A i \in 1..k : (commits \o waiting)[c + i] = waiting[i]
  BY <1>2, <1>4, ConcatFacts
<1>6. /\ c = Cardinality(CommittedAmong(evs, n)) /\ IsFiniteSet(CommittedAmong(evs, n))
      /\ \A i \in CommittedAmong(evs, n) :
           /\ evs[i].through = commits[Cardinality(CommittedAmong(evs, i))]
           /\ Cardinality(CommittedAmong(evs, i)) \in 1..c
  BY <1>2, <1>4, AmongFinite DEF Announce
<1>7. ASSUME NEW j \in 0..k PROVE Cardinality(CommittedAmong(all, n + j)) = c + j
  <2> DEFINE new == (n + 1)..(n + j)
             old == CommittedAmong(evs, n)
  <2>1. CommittedAmong(all, n + j) = old \cup new
    <3>1. \A i \in 1..(n + j) : \/ i \in 1..n /\ all[i] = evs[i]
                                \/ i \in new /\ i - n \in 1..k /\ all[i] = more[i - n]
      <4>1. ASSUME NEW i \in 1..(n + j), ~(i \in 1..n) PROVE i - n \in 1..k /\ n + (i - n) = i /\ i \in new
        BY <4>1
      <4> QED BY <1>3, <4>1
    <3>2. \A i \in new : i \in 1..(n + j) /\ ~(i \in 1..n)
      OBVIOUS
    <3>3. 1..n \subseteq 1..(n + j)
      OBVIOUS
    <3> HIDE DEF new
    <3>4. ASSUME NEW i \in new PROVE all[i].ev = "committed"
      <4>1. i - n \in 1..Len(more) /\ all[i] = more[i - n]
        BY <1>2, <3>1, <3>2, Zenon
      <4> QED BY <4>1
    <3> QED BY <1>3, <3>1, <3>2, <3>3, <3>4 DEF CommittedAmong
  <2>2. IsFiniteSet(new) /\ Cardinality(new) = j
    <3>1. n + 1 \in Int /\ n + j \in Int /\ (IF n + 1 > n + j THEN 0 ELSE n + j - (n + 1) + 1) = j
      OBVIOUS
    <3>2. /\ IsFiniteSet((n + 1)..(n + j))
          /\ Cardinality((n + 1)..(n + j)) = IF n + 1 > n + j THEN 0 ELSE n + j - (n + 1) + 1
      <4>1. PICK lo \in Int, hi \in Int : lo = n + 1 /\ hi = n + j
        BY <3>1
      <4>2. IsFiniteSet(lo..hi) /\ Cardinality(lo..hi) = IF lo > hi THEN 0 ELSE hi - lo + 1
        BY FS_Interval
      <4> QED BY <4>1, <4>2
    <3> QED BY <3>1, <3>2
  <2>3. old \cap new = {} /\ Cardinality(old \cap new) = 0
    <3>1. \A i \in old : i \in 1..n
      BY DEF CommittedAmong
    <3>2. \A i \in 1..n : i \notin new
      OBVIOUS
    <3>3. old \cap new = {}
      BY <3>1, <3>2
    <3> QED BY <3>3, FS_EmptySet
  <2>4. Cardinality(old) = c /\ IsFiniteSet(old)
    BY <1>6
  <2> HIDE DEF old, new
  <2>5. Cardinality(old \cup new) = Cardinality(old) + Cardinality(new) - Cardinality(old \cap new)
    BY <2>2, <2>4, FS_Union
  <2>6. Cardinality(CommittedAmong(all, n + j)) = c + j - 0
    BY <2>1, <2>2, <2>3, <2>4, <2>5, Zenon
  <2> QED BY <2>6
<1>8. Cardinality(CommittedAmong(all, Len(all))) = Len(commits \o waiting)
  BY <1>3, <1>5, <1>7
<1>9. ASSUME NEW i \in CommittedAmong(all, Len(all))
      PROVE  all[i].through = (commits \o waiting)[Cardinality(CommittedAmong(all, i))]
  <2>1. i \in 1..(n + k) /\ all[i].ev = "committed"
    BY <1>3 DEF CommittedAmong
  <2>2. CASE i \in 1..n
    <3>1. CommittedAmong(all, i) = CommittedAmong(evs, i)
      BY <1>1, <1>2, <2>2, AmongPrefix
    <3>2. i \in CommittedAmong(evs, n) /\ all[i] = evs[i]
      BY <1>3, <2>1, <2>2 DEF CommittedAmong
    <3> QED BY <1>5, <1>6, <3>1, <3>2
  <2>3. CASE ~(i \in 1..n)
    <3>1. PICK j \in 1..k : i = n + j
      <4>1. i - n \in 1..k /\ i = n + (i - n)
        BY <2>1, <2>3
      <4> QED BY <4>1
    <3>2. Cardinality(CommittedAmong(all, i)) = c + j
      BY <1>7, <3>1
    <3>3. all[i] = more[j] /\ more[j].through = waiting[j] /\ (commits \o waiting)[c + j] = waiting[j]
      BY <1>2, <1>3, <1>5, <3>1
    <3> QED BY <3>2, <3>3
  <2> QED BY <2>2, <2>3
<1> QED BY <1>1, <1>8, <1>9 DEF Announce

\* Every operation keeps the committed events and the acknowledged commits alike.
LEMMA AnnouncedApply ==
  ASSUME EngineTypeOK, CommittedEventsMatch, NEW seq \in Nat, Apply(seq)
  PROVE  CommittedEventsMatch'
<1>1. acknowledged' = acknowledged
  BY ApplyTakesToken
<1>2. accepted' = accepted \/ accepted' = accepted \o <<ErrorEvent(seq)>>
  BY DEF Apply, Succeeds, Fails, ApplyCommitOverLimit, ApplyChanged, ApplyProjected, ApplyUnchanged,
     ApplyCommit, ApplyRejected, EmitError, EnqueueCritical, AppendCritical, RejectCritical, brokerVars
<1>3. ErrorEvent(seq) \in EngineEvent /\ ErrorEvent(seq).ev # "committed"
  BY DEF ErrorEvent, EngineEvent
<1>4. accepted \in Seq(EngineEvent) /\ Announce(accepted, acknowledged)
  BY DEF EngineTypeOK, CommittedEventsMatch
<1>5. Announce(accepted \o <<ErrorEvent(seq)>>, acknowledged)
  BY <1>3, <1>4, AnnounceOther
<1> QED BY <1>1, <1>2, <1>4, <1>5 DEF CommittedEventsMatch

\* The unconditional Publish announces the waiting commits once.
LEMMA AnnouncedPublish ==
  ASSUME EngineTypeOK, CommittedEventsMatch, Publish
  PROVE  CommittedEventsMatch'
<1>1. PICK more \in Seq(EngineEvent) : more = CommittedEvents
  BY CommittedEventsType
<1>2. accepted' = accepted \o more /\ acknowledged' = acknowledged \o pendingCommits
  BY <1>1 DEF Publish, EnqueueCriticalBatch, AppendCritical
<1>3. /\ accepted \in Seq(EngineEvent) /\ acknowledged \in Seq(Nat) /\ pendingCommits \in Seq(Nat)
      /\ Announce(accepted, acknowledged)
  BY DEF EngineTypeOK, CommittedEventsMatch
<1>4. Len(more) = Len(pendingCommits)
  BY <1>1, CommittedEventsType
<1>5. \A i \in 1..Len(more) : more[i].ev = "committed" /\ more[i].through = pendingCommits[i]
  BY <1>1, <1>4 DEF CommittedEvents, CommittedEvent
<1>6. Announce(accepted \o more, acknowledged \o pendingCommits)
  BY <1>3, <1>4, <1>5, AnnounceBatch
<1> QED BY <1>2, <1>6 DEF CommittedEventsMatch

\* No other call of the engine announces a commit or forgets one.
LEMMA AnnouncedOther ==
  ASSUME EngineTypeOK, CommittedEventsMatch,
         \/ InteractLocally \/ InteractWithEvent \/ TakeEvent \/ UNCHANGED engineVars
         \/ \E s : MakeVisible(s)
  PROVE  CommittedEventsMatch'
<1>1. CASE InteractWithEvent
  <2>1. accepted' = accepted \o <<UserEvent>> /\ acknowledged' = acknowledged
    BY <1>1 DEF InteractWithEvent, EnqueueCritical, AppendCritical, publicationVars
  <2>2. UserEvent \in EngineEvent /\ UserEvent.ev # "committed"
    BY DEF UserEvent, EngineEvent
  <2>3. Announce(accepted \o <<UserEvent>>, acknowledged)
    BY <2>2, AnnounceOther DEF EngineTypeOK, CommittedEventsMatch
  <2> QED BY <2>1, <2>3 DEF CommittedEventsMatch
<1>2. CASE TakeEvent
  <2>1. accepted' = accepted /\ acknowledged' = acknowledged
    BY <1>2, TakeEventType DEF TakeEvent, publicationVars
  <2> QED BY <2>1 DEF CommittedEventsMatch
<1>3. CASE InteractLocally \/ UNCHANGED engineVars \/ \E s : MakeVisible(s)
  <2>1. accepted' = accepted /\ acknowledged' = acknowledged
    BY <1>3 DEF InteractLocally, MakeVisible, engineVars, brokerVars, publicationVars
  <2> QED BY <2>1 DEF CommittedEventsMatch
<1> QED BY <1>1, <1>2, <1>3

==============================================================================
