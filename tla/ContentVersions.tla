--------------------------- MODULE ContentVersions ---------------------------
(***************************************************************************)
(* What the publication barrier relies on: how the counters of the engine  *)
(* follow its content. Engine.tla keeps the counters and leaves the        *)
(* content out; this specification says that it may.                       *)
(*                                                                         *)
(* document and interaction are the two parts of what a terminal shows:    *)
(* the agent's tree, and focus, inputs, selections and bindings.           *)
(***************************************************************************)
EXTENDS Naturals

VARIABLES document, interaction, revision, dirtyRevision, renderGeneration,
          statePublication, token

vars == <<document, interaction, revision, dirtyRevision, renderGeneration,
          statePublication, token>>

Init ==
  /\ revision = 0 /\ dirtyRevision = 0 /\ renderGeneration = 0
  /\ statePublication = 0 /\ token = 0

\* A new frame to publish: redraw, publication and token advance together.
NewFrame ==
  /\ renderGeneration' = renderGeneration + 1
  /\ statePublication' = statePublication + 1
  /\ token' = token + 1

\* The document changes under a new, dirty revision.
DocumentChanged ==
  /\ document' # document
  /\ revision' = revision + 1 /\ dirtyRevision' = revision + 1
  /\ NewFrame

\* The agent changes what the user interacts with and not the document.
InteractionChanged ==
  /\ interaction' # interaction
  /\ NewFrame
  /\ UNCHANGED <<document, revision, dirtyRevision>>

\* A commit asks for the present content to be shown under a new token.
CommitQueued ==
  /\ token' = token + 1
  /\ UNCHANGED <<document, interaction, revision, dirtyRevision, renderGeneration,
                 statePublication>>

\* The user changes something: a redraw, never a publication.
ChangedLocally ==
  /\ interaction' # interaction
  /\ renderGeneration' = renderGeneration + 1
  /\ UNCHANGED <<document, revision, dirtyRevision, statePublication, token>>

Next == DocumentChanged \/ InteractionChanged \/ CommitQueued \/ ChangedLocally

Spec == Init /\ [][Next]_vars

==============================================================================
