---------------------------- MODULE SemanticState ----------------------------
(***************************************************************************)
(* The engine's content: Engine.Apply over the document reducer and the    *)
(* runtime projection, and the interaction of an attached terminal.        *)
(*                                                                         *)
(* Every method holds Engine.mu, so each is one step. Events, commits      *)
(* waiting and publication are in Engine.tla; here a rejected operation    *)
(* leaves everything as it was, and Submit and ActivateTableSelection,     *)
(* which only report, do not occur.                                        *)
(***************************************************************************)
EXTENDS Projection

CONSTANTS
  Ids,          \* node ids the agent uses besides the root
  Types,        \* node types it uses
  Patches,      \* properties it sends, per type
  Parents,      \* parents it names; "" for none
  Indexes,      \* child positions it names; <<>> for none
  Chunks,       \* lengths of text it appends
  Values,       \* what the user types
  MaxToken,     \* bound on the publication token
  MaxRender     \* bound on the redraw generation

ASSUME StateBounds == MaxToken \in Nat /\ MaxRender \in Nat
ASSUME IdsAssumption == "" \notin Ids
ASSUME ChunksAssumption == Chunks \subseteq Nat

\* What the schema admits: known types only, and of a table a list of rows
\* and identities that are strings.
ASSUME PatchesAssumption ==
  /\ Types \subseteq NodeTypes
  /\ \A t \in Types \cup {"box"} : \A p \in Patches[t] :
       /\ "rows" \in DOMAIN p => p["rows"] \in Nat
       /\ "row_ids" \in DOMAIN p => p["row_ids"] \in Seq(STRING)

VARIABLES
  doc,          \* Engine.doc
  state,        \* Engine.state
  token,        \* Engine.publicationGeneration
  panicked      \* an operation has ended in a run-time panic

vars == <<doc, state, token, panicked>>

Init ==
  /\ doc = NewDocument
  /\ state = NewState
  /\ token = 0
  /\ panicked = FALSE

------------------------------------------------------------------------------
(* The agent                                                                 *)

Upserts ==
  UNION {[op : {"upsert"}, id : Ids, type : {t}, parent : Parents, index : Indexes,
          props : Patches[t]] : t \in Types}
PropsOps ==
  [op : {"props"}, id : Ids \cup {"root"},
   props : UNION {Patches[t] : t \in Types \cup {"box"}}]
TextOps == [op : {"text"}, id : Ids, text : Chunks]
OtherOps == [op : {"remove", "focus", "commit"}, id : Ids \cup {"root"}]
Operations == Upserts \cup PropsOps \cup TextOps \cup OtherOps

\* What Engine.Apply makes of an operation. A panic leaves document and state as
\* they are and releases the locks by their defers; net/http, whose handlers bring
\* the agent's operations, recovers from it, and nobody answers.
Outcome(op) ==
  LET r == Reduce(doc, op)
  IN IF PropsPanics(doc, op)
     THEN [result |-> "panicked", doc |-> doc, state |-> state]
     ELSE IF ~r.ok \/ ~ReconcileOk(r.doc, op)
     THEN [result |-> "rejected", doc |-> doc, state |-> state]
     ELSE [result |-> "applied", doc |-> r.doc, state |-> Reconcile(state, doc, r, op)]

Apply(op) ==
  LET out == Outcome(op)
  IN /\ doc' = out.doc
     /\ state' = out.state
     /\ token' = IF \/ out.state.publicationGeneration # state.publicationGeneration
                    \/ op.op = "commit"
                 THEN token + 1 ELSE token
     /\ panicked' = (panicked \/ out.result = "panicked")

AgentStep ==
  /\ token < MaxToken
  /\ \E op \in Operations : Apply(op)

------------------------------------------------------------------------------
(* The terminal. A setter whose target is gone or does not qualify returns   *)
(* an error and changes nothing.                                             *)

SetState(p) == state' = p /\ UNCHANGED <<doc, token, panicked>>

Focus == \E id \in Focusable(doc) : SetState(SetLocalFocus(state, id))

SetInput ==
  \E id \in InputNodes(doc), v \in Values : SetState(SetInputValue(state, id, v))

SelectRow ==
  \E id \in SelectableTables(doc), index \in -1..(MaxTableRows + 1) :
    SetState(SetTableSelection(state, doc.nodes[id], id, index))

MoveSelection ==
  \E id \in SelectableTables(doc), delta \in {-1, 1} :
    SetState(MoveTableSelection(state, doc.nodes[id], id, delta))

TerminalStep ==
  /\ state.renderGeneration < MaxRender
  /\ Focus \/ SetInput \/ SelectRow \/ MoveSelection

Next == AgentStep \/ TerminalStep

Spec == Init /\ [][Next]_vars

------------------------------------------------------------------------------
(* Properties                                                                *)

\* A node as NormalizeProps and the text operation leave it.
NodeTypeOK(n) ==
  /\ n.type \in NodeTypes
  /\ DOMAIN defaults[n.type] \subseteq DOMAIN n.props
  /\ DOMAIN n.props \subseteq allowedProps[n.type] \ {"force"}
  /\ n.explicit \subseteq DOMAIN n.props
  /\ n.text \in 0..MaxTextBytesPerNode
  /\ n.type \notin {"text", "viewport"} => n.text = 0

\* Every node keeps to the schema of its type, and the counters are those of
\* one history: what is dirty is the present revision, and no generation is
\* ahead of the token that was issued for it.
StateTypeOK ==
  /\ \A id \in DOMAIN doc.nodes : NodeTypeOK(doc.nodes[id])
  /\ state.dirtyRevision = doc.revision
  /\ doc.revision <= state.publicationGeneration
  /\ state.publicationGeneration <= token

\* The reducer keeps the tree by itself: whatever sequence of creation,
\* relocation, retyping, text and removal came before, no candidate ever runs
\* into the structural checks of validateInvariants, whose errors are not
\* recoverable. Only resource limits and the operation's own guards reject.
ReducerKeepsTree ==
  \A op \in Operations :
    CandidateOk(doc, op) /\ ~PropsPanics(doc, op) => Structural(Candidate(doc, op))

\* An upsert sent again changes nothing, not even the revision, also when it
\* moved, retyped or reordered the node ("Document revision increments only
\* after an accepted state-changing mutation").
UpsertIdempotent ==
  \A op \in Upserts :
    LET once == Reduce(doc, op)
        twice == Reduce(once.doc, op)
    IN once.ok => twice.ok /\ ~twice.changed

\* A projection p that speaks of document d.
FocusMatches(p, d) == p.focused \in Focusable(d) \cup {""}

InputsMatch(p, d) == DOMAIN p.inputs = InputNodes(d)

SelectionsMatch(p, d) ==
  /\ DOMAIN p.selections = {id \in SelectableTables(d) : Rows(d.nodes[id]) > 0}
  /\ \A id \in DOMAIN p.selections :
       LET n == d.nodes[id]
           s == p.selections[id]
       IN /\ s.index \in 0..(Rows(n) - 1)
          /\ s.rowID = IF RowIDs(n) = <<>> THEN "" ELSE RowIDs(n)[s.index + 1]

BindingsMatch(p, d) ==
  /\ \A key \in DOMAIN p.bindings : p.bindings[key] \in DOMAIN d.nodes
  /\ \A id \in DOMAIN d.nodes :
       LET n == d.nodes[id] IN
       /\ n.type = "actions" => ToSet(n.props["items"]) \subseteq DOMAIN p.bindings
       /\ \A key \in DOMAIN p.bindings :
            p.bindings[key] = id <=> n.type = "actions" /\ key \in ToSet(n.props["items"])

\* Inputs, selections, bindings and focus always speak of the current
\* document: exactly its inputs have a value, exactly its selectable tables
\* with rows have a selection, of an existing row under its present identity,
\* exactly the keys of its action items are bound, and the focused node is
\* focusable.
ProjectionMatchesDocument ==
  /\ FocusMatches(state, doc) /\ InputsMatch(state, doc)
  /\ SelectionsMatch(state, doc) /\ BindingsMatch(state, doc)

\* What the user typed survives every operation of the agent that keeps the
\* node an input, its relocation and a new value property included, unless
\* the operation forces the value.
UserInputSurvives ==
  \A op \in Operations :
    LET out == Outcome(op)
    IN \A id \in InputNodes(doc) \cap InputNodes(out.doc) :
         out.state.inputs[id] # state.inputs[id] => op.id = id /\ Forces(op)

\* A selected row that has an identity stays selected while the table keeps
\* it, however its rows are inserted, removed or reordered.
SelectionFollowsRow ==
  \A op \in Operations :
    LET out == Outcome(op)
    IN \A id \in DOMAIN state.selections \cap DOMAIN out.state.selections :
         state.selections[id].rowID \in ToSet(RowIDs(out.doc.nodes[id]))
           => out.state.selections[id].rowID = state.selections[id].rowID

\* x comes before y in tree preorder, told from the two paths alone.
Before(d, x, y) ==
  \/ x \in Lineage(d, y) \ {y}
  \/ \E p \in Lineage(d, x) \cap Lineage(d, y) :
       \E i, j \in DOMAIN d.nodes[p].children :
         /\ i < j
         /\ d.nodes[p].children[i] \in Lineage(d, x)
         /\ d.nodes[p].children[j] \in Lineage(d, y)

\* The agent takes the focus away only by asking for it or by taking its node
\* away, and then it goes to the first focusable node in tree preorder; it is
\* lost only when none is left.
FocusMovesForCause ==
  \A op \in Operations :
    LET old == state.focused
        out == Outcome(op)
        new == out.state.focused
        left == Focusable(out.doc)
    IN old # new =>
         \/ op.op = "focus" /\ new = op.id
         \/ /\ old # ""
            /\ old \notin left \/ old \in Dropped(doc, op)
            /\ IF left = {} THEN new = ""
               ELSE new \in left /\ \A x \in left \ {new} : Before(out.doc, new, x)

\* The counters follow the content as the publication barrier assumes: a new
\* revision exactly for a new document, a new token for everything the agent
\* changes and for every commit, a redraw alone for what the user changes.
Versions == INSTANCE ContentVersions WITH
  document <- doc.nodes,
  interaction <- <<state.focused, state.inputs, state.selections, state.bindings>>,
  revision <- doc.revision, dirtyRevision <- state.dirtyRevision,
  renderGeneration <- state.renderGeneration,
  statePublication <- state.publicationGeneration
VersionsImplemented == Versions!Spec

\* "props works for containers as well as leaf widgets": no operation panics.
NoPanic == ~panicked

==============================================================================
