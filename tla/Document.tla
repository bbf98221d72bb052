------------------------------ MODULE Document -------------------------------
(***************************************************************************)
(* The document reducer of document/reducer.go, document/invariants.go and *)
(* the property rules of protocol/props.go and protocol/validate.go, as    *)
(* operators on documents.                                                 *)
(*                                                                         *)
(* Properties are partial functions from names to values, reduced to the   *)
(* names the runtime interprets; a table's rows are their number, retained *)
(* text is its length, and every name counts one document byte. Schema     *)
(* errors that do not depend on the document are left out.                 *)
(***************************************************************************)
EXTENDS Integers, SequencesExt

CONSTANTS
  MaxNodes, MaxDepth, MaxChildren, MaxTableRows,
  MaxTextBytesPerNode, MaxTotalTextBytes, MaxDocumentBytes

ASSUME LimitsAssumption ==
  \A limit \in {MaxNodes, MaxDepth, MaxChildren, MaxTableRows, MaxTextBytesPerNode,
                MaxTotalTextBytes, MaxDocumentBytes} : limit \in Nat \ {0}

------------------------------------------------------------------------------
(* Properties of nodes                                                       *)

NodeTypes == {"box", "text", "viewport", "table", "input", "actions", "progress"}
Container(t) == t \in {"box", "viewport"}

NoProps == <<>>
Merge(f, g) == [k \in DOMAIN f \cup DOMAIN g |-> IF k \in DOMAIN g THEN g[k] ELSE f[k]]
Without(f, keys) == [k \in DOMAIN f \ keys |-> f[k]]

allowedProps ==
  [t \in NodeTypes |->
     CASE t = "box" -> {"gap"}
       [] t = "text" -> {"text"}
       [] t = "viewport" -> {"scrollable"}
       [] t = "table" -> {"selectable", "rows", "row_ids"}
       [] t = "input" -> {"value", "force"}
       [] t = "actions" -> {"items"}
       [] t = "progress" -> {"state"}]

defaults ==
  [t \in NodeTypes |->
     CASE t = "box" -> [gap |-> 0]
       [] t = "text" -> [text |-> ""]
       [] t = "viewport" -> [scrollable |-> FALSE]
       [] t = "table" -> [selectable |-> FALSE, rows |-> 0]
       [] t = "input" -> [value |-> ""]
       [] t = "actions" -> [items |-> <<>>]
       [] t = "progress" -> [state |-> "normal"]]

\* validateNormalized: the one rule between two properties. row_ids name every
\* row once; a map without rows counts as having none.
validateNormalized(p) ==
  "row_ids" \in DOMAIN p =>
    /\ Len(p["row_ids"]) = IF "rows" \in DOMAIN p THEN p["rows"] ELSE 0
    /\ "" \notin ToSet(p["row_ids"])
    /\ IsInjective(p["row_ids"])

\* Fault: the normalised properties keep the policy.
Retained_WithForce(patch) == patch

\* force is a one-shot policy and is never retained.
Retained(patch) == Without(patch, {"force"})

explicitPropKeys(patch) == DOMAIN Retained(patch)
ForceInputValue(patch) == "force" \in DOMAIN patch /\ patch["force"]

Allowed(t, patch) == DOMAIN patch \subseteq allowedProps[t]

\* NormalizeProps(t, patch, true): a full replacement over the type's defaults.
FullProps(t, patch) == Merge(defaults[t], Retained(patch))
NormalizeOk(t, patch) == Allowed(t, patch) /\ validateNormalized(FullProps(t, patch))

\* MergeNormalized: the patch is validated alone and then merged.
MergeOk(n, patch) ==
  /\ Allowed(n.type, patch)
  /\ validateNormalized(Retained(patch))
  /\ validateNormalized(Merge(n.props, Retained(patch)))

------------------------------------------------------------------------------
(* The tree                                                                  *)

Node(t, parent, patch) ==
  [type |-> t, parent |-> parent, children |-> <<>>, props |-> FullProps(t, patch),
   explicit |-> explicitPropKeys(patch), text |-> 0]

NewDocument ==
  [revision |-> 0, totalText |-> 0,
   nodes |-> [id \in {"root"} |-> Node("box", "", NoProps)]]

\* All the ids the children lists lead to from id, id included: the nodes
\* sweep() and walk() visit.
Subtree(d, id) ==
  LET reach[k \in 0..Cardinality(DOMAIN d.nodes)] ==
        IF k = 0 THEN {id}
        ELSE reach[k - 1] \cup
             UNION {ToSet(d.nodes[x].children) : x \in reach[k - 1] \cap DOMAIN d.nodes}
  IN reach[Cardinality(DOMAIN d.nodes)]

\* id, its parent, its parent's parent, ... up to the root.
Lineage(d, id) ==
  LET up[k \in 0..Cardinality(DOMAIN d.nodes)] ==
        IF k = 0 THEN {id}
        ELSE up[k - 1] \cup {d.nodes[x].parent : x \in up[k - 1] \cap DOMAIN d.nodes}
  IN up[Cardinality(DOMAIN d.nodes)] \cap DOMAIN d.nodes

DepthOf(d, id) == Cardinality(Lineage(d, id)) - 1

\* Fault: only the node itself is an illegal target.
wouldCreateCycle_SelfOnly(d, id, target) == target = id

wouldCreateCycle(d, id, target) == id \in Lineage(d, target)

removeChild(children, id) ==
  LET out[i \in 0..Len(children)] ==
        IF i = 0 THEN <<>>
        ELSE IF children[i] # id THEN Append(out[i - 1], children[i]) ELSE out[i - 1]
  IN out[Len(children)]

\* A missing or out-of-range index appends.
insertChild(children, id, index) ==
  IF index # <<>> /\ index[1] \in 0..(Len(children) - 1)
  THEN InsertAt(children, index[1] + 1, id)
  ELSE Append(children, id)

RetainedText(d) == MapThenSumSet(LAMBDA id : d.nodes[id].text, DOMAIN d.nodes)

DocumentBytes(d) ==
  MapThenSumSet(LAMBDA id : LET n == d.nodes[id] IN
                  2 + n.text + Len(n.children) + Cardinality(DOMAIN n.props)
                    + Cardinality(n.explicit), DOMAIN d.nodes)

\* The structural checks of validateInvariants; their failure would be a
\* non-recoverable document.invariant or document.cycle error.
Structural(d) ==
  /\ "root" \in DOMAIN d.nodes
  /\ d.nodes["root"].type = "box" /\ d.nodes["root"].parent = ""
  /\ \A id \in DOMAIN d.nodes :
       LET n == d.nodes[id] IN
       /\ n.children # <<>> => Container(n.type)
       /\ IsInjective(n.children)
       /\ \A c \in ToSet(n.children) : c \in DOMAIN d.nodes /\ d.nodes[c].parent = id
  /\ Subtree(d, "root") = DOMAIN d.nodes
  /\ d.totalText = RetainedText(d)

\* The resource checks of validateInvariants, on a well-formed tree.
WithinLimits(d) ==
  /\ Cardinality(DOMAIN d.nodes) <= MaxNodes
  /\ \A id \in DOMAIN d.nodes :
       Len(d.nodes[id].children) <= MaxChildren /\ DepthOf(d, id) <= MaxDepth
  /\ DocumentBytes(d) <= MaxDocumentBytes
  /\ d.totalText <= MaxTotalTextBytes

------------------------------------------------------------------------------
(* The operations. Each gives the guard under which its candidate is built,  *)
(* the candidate, and what the runtime is told about it.                     *)

validateTableLimits(n) == n.type = "table" => n.props["rows"] <= MaxTableRows

TargetParent(d, op) ==
  IF op.parent # "" THEN op.parent
  ELSE IF op.id \in DOMAIN d.nodes THEN d.nodes[op.id].parent ELSE "root"

UpsertOk(d, op) ==
  LET n == d.nodes[op.id]
      target == TargetParent(d, op)
      exists == op.id \in DOMAIN d.nodes
  IN /\ op.id # "root"
     /\ NormalizeOk(op.type, op.props)
     /\ ~exists \/ target # n.parent \/ op.index # <<>>
          => /\ target \in DOMAIN d.nodes
             /\ exists => ~wouldCreateCycle(d, op.id, target)
             /\ Container(d.nodes[target].type)
     /\ exists /\ n.type # op.type /\ n.children # <<>> => Container(op.type)
     /\ validateTableLimits(Node(op.type, target, op.props))

\* The surviving node and its subtree move in one candidate.
Relocated(d, op) ==
  LET old == d.nodes[op.id].parent
      target == TargetParent(d, op)
  IN IF target # old
     THEN [d.nodes EXCEPT ![old].children = removeChild(@, op.id),
                          ![target].children = insertChild(@, op.id, op.index),
                          ![op.id].parent = target]
     ELSE IF op.index # <<>>
     THEN [d.nodes EXCEPT ![old].children =
             insertChild(removeChild(@, op.id), op.id, op.index)]
     ELSE d.nodes

TypeChanged(d, op) ==
  op.op = "upsert" /\ op.id \in DOMAIN d.nodes /\ d.nodes[op.id].type # op.type

\* upsert of an existing node: topology, type and properties replaced at once.
Replaced(d, op) ==
  LET moved == Relocated(d, op)
      kept == IF TypeChanged(d, op) THEN 0 ELSE moved[op.id].text
  IN [d EXCEPT
        !.totalText = @ - (moved[op.id].text - kept),
        !.nodes = [moved EXCEPT
          ![op.id] = [@ EXCEPT !.type = op.type, !.props = FullProps(op.type, op.props),
                               !.explicit = explicitPropKeys(op.props), !.text = kept]]]

\* upsert of a new node.
Created(d, op) ==
  LET target == TargetParent(d, op)
  IN [d EXCEPT !.nodes =
        [id \in DOMAIN d.nodes \cup {op.id} |->
           IF id = op.id THEN Node(op.type, target, op.props)
           ELSE IF id = target
           THEN [d.nodes[id] EXCEPT !.children = insertChild(@, op.id, op.index)]
           ELSE d.nodes[id]]]

PropsOk(d, op) ==
  /\ op.id \in DOMAIN d.nodes
  /\ MergeOk(d.nodes[op.id], op.props)
  /\ validateTableLimits([d.nodes[op.id] EXCEPT !.props = Merge(@, Retained(op.props))])

Patched(d, op) ==
  LET n == d.nodes[op.id]
  IN [d EXCEPT !.nodes[op.id] = [n EXCEPT !.props = Merge(@, Retained(op.props)),
                                          !.explicit = @ \cup explicitPropKeys(op.props)]]

\* The root is created without an ExplicitProps map, so recording a property
\* of it panics (reducer.go:236) after the merge has been found valid.
PropsPanics(d, op) ==
  /\ op.op = "props" /\ op.id = "root"
  /\ MergeOk(d.nodes["root"], op.props)
  /\ explicitPropKeys(op.props) # {}

TextOk(d, op) ==
  /\ op.text <= MaxTextBytesPerNode
  /\ op.id \in DOMAIN d.nodes
  /\ d.nodes[op.id].type \in {"text", "viewport"}
  /\ op.text # 0 =>
       /\ d.nodes[op.id].text + op.text <= MaxTextBytesPerNode
       /\ d.totalText + op.text <= MaxTotalTextBytes

Extended(d, op) ==
  [d EXCEPT !.nodes[op.id].text = @ + op.text, !.totalText = @ + op.text]

RemovedText(d, op) ==
  MapThenSumSet(LAMBDA id : d.nodes[id].text, Subtree(d, op.id))

RemoveOk(d, op) == op.id # "root" /\ op.id \in DOMAIN d.nodes

Swept(d, op) ==
  LET parent == d.nodes[op.id].parent
      nodes == [d.nodes EXCEPT ![parent].children = removeChild(@, op.id)]
  IN [d EXCEPT !.totalText = @ - RemovedText(d, op),
               !.nodes = Without(nodes, Subtree(d, op.id))]

CandidateOk(d, op) ==
  CASE op.op = "upsert" -> UpsertOk(d, op)
    [] op.op = "props" -> PropsOk(d, op)
    [] op.op = "text" -> TextOk(d, op)
    [] op.op = "remove" -> RemoveOk(d, op)
    [] op.op = "focus" -> op.id \in DOMAIN d.nodes
    [] op.op = "commit" -> TRUE

Candidate(d, op) ==
  CASE op.op = "upsert" -> IF op.id \in DOMAIN d.nodes THEN Replaced(d, op) ELSE Created(d, op)
    [] op.op = "props" -> Patched(d, op)
    [] op.op = "text" -> Extended(d, op)
    [] op.op = "remove" -> Swept(d, op)
    [] OTHER -> d

\* Fault: every accepted mutation counts as a change.
Reduce_AlwaysChanged(d, op) ==
  LET cand == Candidate(d, op)
  IN IF ~CandidateOk(d, op) \/ ~(Structural(cand) /\ WithinLimits(cand))
     THEN [ok |-> FALSE, changed |-> FALSE, doc |-> d]
     ELSE [ok |-> TRUE, changed |-> op.op \notin {"focus", "commit"},
           doc |-> [cand EXCEPT !.revision = @ + 1]]

\* Apply: the candidate is checked as a whole and replaces the document under
\* the next revision; an operation that changes nothing keeps the revision.
\* changed is Effect.Changed.
Reduce(d, op) ==
  LET cand == Candidate(d, op)
      changed == cand.nodes # d.nodes
  IN IF ~CandidateOk(d, op) \/ (changed /\ ~(Structural(cand) /\ WithinLimits(cand)))
     THEN [ok |-> FALSE, changed |-> FALSE, doc |-> d]
     ELSE [ok |-> TRUE, changed |-> changed,
           doc |-> IF changed THEN [cand EXCEPT !.revision = @ + 1] ELSE d]

\* What else Effect tells the runtime.
Removed(d, op) == IF op.op = "remove" THEN Subtree(d, op.id) ELSE {}
Forces(op) == op.op \in {"upsert", "props"} /\ ForceInputValue(op.props)

==============================================================================
