------------------------------- MODULE Engine --------------------------------
(***************************************************************************)
(* The semantic engine of engine/engine.go with the publication counters   *)
(* of runtime/state.go and runtime/publication.go.                         *)
(*                                                                         *)
(* The document and its runtime projection are abstracted to their change  *)
(* counters: what the publication barrier needs to know of an operation is *)
(* whether it changed the document, only the projection, nothing, or was   *)
(* rejected. Every method holds Engine.mu, so each is one step. This       *)
(* module defines the operations; LocalView.tla and Daemon.tla say who     *)
(* calls them.                                                             *)
(***************************************************************************)
EXTENDS EventBroker

CONSTANT MaxPendingMutations    \* limits.MaxPendingMutations

ASSUME MaxPendingAssumption == MaxPendingMutations \in Nat \ {0}

VARIABLES
  revision,               \* doc.Revision
  dirtyRevision,          \* state.DirtyRevision
  publishedRevision,      \* state.PublishedRevision
  renderGeneration,       \* state.RenderGeneration
  statePublication,       \* state.PublicationGeneration
  publishedGeneration,    \* state.PublishedGeneration
  publicationGeneration,  \* Engine.publicationGeneration, the renderer's token
  pendingCommits,         \* through sequence numbers of the waiting commits
  lastSeq,                \* history: sequence number of the last operation applied
  acknowledged,           \* history: commits acknowledged, in order
  shown                   \* history: the newest content any renderer made visible

publicationVars ==
  <<dirtyRevision, publishedRevision, statePublication, publishedGeneration,
    publicationGeneration, pendingCommits, acknowledged>>
engineVars ==
  <<brokerVars, revision, renderGeneration, publicationVars, lastSeq, shown>>

EngineInit ==
  /\ BrokerInit
  /\ revision = 0 /\ dirtyRevision = 0 /\ publishedRevision = 0
  /\ renderGeneration = 0
  /\ statePublication = 0 /\ publishedGeneration = 0
  /\ publicationGeneration = 0
  /\ pendingCommits = <<>>
  /\ lastSeq = 0
  /\ acknowledged = <<>>
  /\ shown = [publicationGeneration |-> 0, revision |-> 0, seen |-> 0]

Larger(a, b) == IF a >= b THEN a ELSE b

\* Fault: the pending commits are limited without regard to the event capacity.
maxPendingCommits_IgnoresCap == MaxPendingMutations

\* New(): every commit allowed to wait also fits an empty event queue.
maxPendingCommits == IF Cap < MaxPendingMutations THEN Cap ELSE MaxPendingMutations

NeedsPublish == statePublication > publishedGeneration \/ pendingCommits # <<>>

ErrorEvent(seq) == [ev |-> "error", id |-> "", revision |-> 0, through |-> seq]
UserEvent == [ev |-> "user", id |-> "", revision |-> 0, through |-> 0]
CommittedEvent(rev, through) ==
  [ev |-> "committed", id |-> "", revision |-> rev, through |-> through]

------------------------------------------------------------------------------
(* Apply                                                                     *)

\* Fault: Apply takes a new token for commits only.
ApplyChanged_SameToken(seq) ==
  /\ lastSeq' = seq
  /\ revision' = revision + 1
  /\ dirtyRevision' = revision + 1
  /\ renderGeneration' = renderGeneration + 1
  /\ statePublication' = statePublication + 1
  /\ UNCHANGED <<publishedRevision, publishedGeneration, publicationGeneration,
                 pendingCommits, acknowledged, shown, brokerVars>>

\* The document changed: Reconcile records the new revision as dirty and
\* advances both generations, and Apply hands out a new token.
ApplyChanged(seq) ==
  /\ lastSeq' = seq
  /\ revision' = revision + 1
  /\ dirtyRevision' = revision + 1
  /\ renderGeneration' = renderGeneration + 1
  /\ statePublication' = statePublication + 1
  /\ publicationGeneration' = publicationGeneration + 1
  /\ UNCHANGED <<publishedRevision, publishedGeneration, pendingCommits,
                 acknowledged, shown, brokerVars>>

\* A focus operation moves focus: the projection changes, the revision does not.
ApplyProjected(seq) ==
  /\ lastSeq' = seq
  /\ renderGeneration' = renderGeneration + 1
  /\ statePublication' = statePublication + 1
  /\ publicationGeneration' = publicationGeneration + 1
  /\ UNCHANGED <<revision, dirtyRevision, publishedRevision, publishedGeneration,
                 pendingCommits, acknowledged, shown, brokerVars>>

\* An operation that leaves document and projection as they were.
ApplyUnchanged(seq) ==
  /\ lastSeq' = seq
  /\ UNCHANGED <<revision, renderGeneration, publicationVars, shown, brokerVars>>

\* emitError: the error event is critical and is itself subject to
\* backpressure; the caller gets an error either way.
EmitError(seq) == EnqueueCritical(ErrorEvent(seq)) \/ RejectCritical

\* The reducer or Reconcile rejects the operation: nothing but the event.
ApplyRejected(seq) ==
  /\ EmitError(seq)
  /\ lastSeq' = seq
  /\ UNCHANGED <<revision, renderGeneration, publicationVars, shown>>

\* Fault: the commit waits under the token of the frame before it.
ApplyCommit_SameToken(seq) ==
  /\ Len(pendingCommits) < maxPendingCommits
  /\ lastSeq' = seq
  /\ pendingCommits' = Append(pendingCommits, seq)
  /\ UNCHANGED <<revision, renderGeneration, dirtyRevision, publishedRevision,
                 statePublication, publishedGeneration, publicationGeneration,
                 acknowledged, shown, brokerVars>>

\* A commit changes neither document nor projection; it queues the barrier and
\* takes a new token, so that an earlier frame cannot acknowledge it.
ApplyCommit(seq) ==
  /\ Len(pendingCommits) < maxPendingCommits
  /\ lastSeq' = seq
  /\ pendingCommits' = Append(pendingCommits, seq)
  /\ publicationGeneration' = publicationGeneration + 1
  /\ UNCHANGED <<revision, dirtyRevision, publishedRevision, renderGeneration,
                 statePublication, publishedGeneration, acknowledged, shown, brokerVars>>

ApplyCommitOverLimit(seq) ==
  /\ Len(pendingCommits) >= maxPendingCommits
  /\ ApplyRejected(seq)

Succeeds(seq) ==
  ApplyChanged(seq) \/ ApplyProjected(seq) \/ ApplyUnchanged(seq) \/ ApplyCommit(seq)
Fails(seq) == ApplyRejected(seq) \/ ApplyCommitOverLimit(seq)
Apply(seq) == Succeeds(seq) \/ Fails(seq)

------------------------------------------------------------------------------
(* Publication                                                               *)

\* Fault: one event per publication, for its last commit.
CommittedEvents_Last ==
  IF pendingCommits = <<>> THEN <<>>
  ELSE <<CommittedEvent(Larger(dirtyRevision, publishedRevision),
                        pendingCommits[Len(pendingCommits)])>>

\* One committed event per waiting commit, all with the revision now visible.
CommittedEvents ==
  [i \in 1..Len(pendingCommits) |->
     CommittedEvent(Larger(dirtyRevision, publishedRevision), pendingCommits[i])]

\* publishLocked on a pending frame whose events fit.
Publish ==
  /\ NeedsPublish
  /\ EnqueueCriticalBatch(CommittedEvents)
  /\ publishedGeneration' = Larger(statePublication, publishedGeneration)
  /\ publishedRevision' = Larger(dirtyRevision, publishedRevision)
  /\ pendingCommits' = <<>>
  /\ acknowledged' = acknowledged \o pendingCommits
  /\ UNCHANGED <<revision, dirtyRevision, renderGeneration, statePublication,
                 publicationGeneration, lastSeq, shown>>

\* publishLocked when the event queue has no room: nothing is published.
PublishBackpressure ==
  /\ NeedsPublish
  /\ RejectCriticalBatch(CommittedEvents)
  /\ UNCHANGED <<revision, renderGeneration, publicationVars, lastSeq, shown>>

\* Fault: the token is not compared.
Publishable_AnyToken(gen) == NeedsPublish

Publishable(gen) == gen = publicationGeneration /\ NeedsPublish

\* PublishGeneration: (true, nil), (false, error) and (false, nil).
PublishGeneration(gen) == Publishable(gen) /\ Publish
PublishGenerationFails(gen) == Publishable(gen) /\ PublishBackpressure
PublishGenerationStale(gen) == ~Publishable(gen) /\ UNCHANGED engineVars

------------------------------------------------------------------------------
(* Presentation and local interaction                                        *)

\* PresentationSnapshot, with the last operation it reflects.
Snapshot ==
  [revision |-> revision, renderGeneration |-> renderGeneration,
   publicationGeneration |-> publicationGeneration,
   publicationPending |-> NeedsPublish, seen |-> lastSeq]

\* Focus, SetInput, SetTableSelection and MoveTableSelection request a redraw
\* and never a publication.
InteractLocally ==
  /\ renderGeneration' = renderGeneration + 1
  /\ UNCHANGED <<brokerVars, revision, publicationVars, lastSeq, shown>>

\* Submit, ActivateTableSelection and the end of HandleKey report a critical
\* event, or return the backpressure error to the terminal.
InteractWithEvent ==
  /\ EnqueueCritical(UserEvent)
  /\ UNCHANGED <<revision, renderGeneration, publicationVars, lastSeq, shown>>

InteractionFails == UNCHANGED engineVars

\* The agent takes one event.
TakeEvent ==
  /\ NextEvent
  /\ UNCHANGED <<revision, renderGeneration, publicationVars, lastSeq, shown>>

\* A renderer has drawn frame s: what was visible before stays accounted for.
WithShown(s) ==
  [publicationGeneration |-> Larger(shown.publicationGeneration, s.publicationGeneration),
   revision |-> Larger(shown.revision, s.revision),
   seen |-> Larger(shown.seen, s.seen)]

MakeVisible(s) ==
  /\ shown' = WithShown(s)
  /\ UNCHANGED <<brokerVars, revision, renderGeneration, publicationVars, lastSeq>>

------------------------------------------------------------------------------
(* Properties of the engine in any surroundings                              *)

FrameType ==
  [revision : Nat, renderGeneration : Nat, publicationGeneration : Nat,
   publicationPending : BOOLEAN, seen : Nat]
EngineEvent ==
  [ev : {"error", "user", "committed"}, id : {""}, revision : Nat, through : Nat]

EngineTypeOK ==
  /\ revision \in Nat /\ dirtyRevision \in Nat /\ publishedRevision \in Nat
  /\ renderGeneration \in Nat /\ statePublication \in Nat
  /\ publishedGeneration \in Nat /\ publicationGeneration \in Nat
  /\ pendingCommits \in Seq(Nat) /\ acknowledged \in Seq(Nat) /\ lastSeq \in Nat
  /\ shown \in [publicationGeneration : Nat, revision : Nat, seen : Nat]
  /\ critical \in Seq([event : EngineEvent, seq : Nat])
  /\ coalesced = <<>> /\ telemetry = <<>> /\ latest = <<>>
  /\ nextOrder \in Nat /\ nextSeq \in Nat
  /\ accepted \in Seq(EngineEvent)

\* A committed event names a revision and a mutation that a renderer has
\* really made visible: the barrier of PROTOCOL.md section 12 never opens for
\* a frame nobody drew, however acknowledgements and mutations interleave.
CommittedWasVisible ==
  \A i \in 1..Len(accepted) :
    accepted[i].ev = "committed"
      => /\ accepted[i].revision <= shown.revision
         /\ accepted[i].through <= shown.seen

\* The revision recorded as published by State.Publish has been drawn.
PublishedWasVisible == publishedRevision <= shown.revision

\* The committed events among the first n of evs.
CommittedAmong(evs, n) == {i \in 1..n : evs[i].ev = "committed"}

\* The n-th committed event of evs names the n-th commit, and there are no others.
Announce(evs, commits) ==
  /\ Len(commits) = Cardinality(CommittedAmong(evs, Len(evs)))
  /\ \A i \in CommittedAmong(evs, Len(evs)) :
       evs[i].through = commits[Cardinality(CommittedAmong(evs, i))]

\* The reliable stream acknowledges every commit once, in commit order: the
\* committed events accepted by the broker are exactly the acknowledged ones.
CommittedEventsMatch == Announce(accepted, acknowledged)

\* The commits waiting never outgrow the event queue, so an emptied queue can
\* always take their events: publication is never blocked for good.
BacklogFitsQueue == Len(pendingCommits) <= Cap

\* Token tok stands for the content of s and nothing else: as long as it is
\* the current token, the document is the one s shows and every waiting commit
\* is covered by s. Any operation in between must have taken a new token.
TokenStandsFor(tok, s) ==
  /\ tok <= publicationGeneration
  /\ tok = publicationGeneration
       => /\ s.revision = revision
          /\ \A i \in 1..Len(pendingCommits) : pendingCommits[i] <= s.seen

==============================================================================
