----------------------------- MODULE Projection ------------------------------
(***************************************************************************)
(* The runtime projection of a document: runtime/state.go,                 *)
(* runtime/bindings.go and runtime/table_selection.go, as operators.       *)
(*                                                                         *)
(* A projection p holds the focused node ("" for none), the input values,  *)
(* the table selections, the key bindings and the generations of           *)
(* runtime.State that Reconcile and the local setters advance.             *)
(***************************************************************************)
EXTENDS Document

NewState ==
  [focused |-> "", inputs |-> <<>>, selections |-> <<>>, bindings |-> <<>>,
   dirtyRevision |-> 0, renderGeneration |-> 0, publicationGeneration |-> 0]

propBool(n, key) == key \in DOMAIN n.props /\ n.props[key]

focusable(n) ==
  \/ n.type = "input"
  \/ n.type = "table" /\ propBool(n, "selectable")
  \/ n.type = "viewport" /\ propBool(n, "scrollable")

Focusable(d) == {id \in DOMAIN d.nodes : focusable(d.nodes[id])}
InputNodes(d) == {id \in DOMAIN d.nodes : d.nodes[id].type = "input"}
SelectableTables(d) ==
  {id \in DOMAIN d.nodes : d.nodes[id].type = "table" /\ propBool(d.nodes[id], "selectable")}
Rows(n) == n.props["rows"]
RowIDs(n) == IF "row_ids" \in DOMAIN n.props THEN n.props["row_ids"] ELSE <<>>

------------------------------------------------------------------------------
(* Focus                                                                     *)

\* FocusableIDs: tree preorder. The root itself is never focusable.
FocusableIDs(d) ==
  LET visit(id, below) ==
        LET n == d.nodes[id] IN
        (IF id # "root" /\ focusable(n) THEN <<id>> ELSE <<>>)
          \o FlattenSeq([i \in DOMAIN n.children |-> below[n.children[i]]])
      walk[k \in 0..Cardinality(DOMAIN d.nodes)] ==
        [id \in DOMAIN d.nodes |-> IF k = 0 THEN <<>> ELSE visit(id, walk[k - 1])]
  IN walk[Cardinality(DOMAIN d.nodes)]["root"]

\* Fault: any focusable node will do.
firstFocusable_Any(d) ==
  IF Focusable(d) = {} THEN "" ELSE CHOOSE id \in Focusable(d) : TRUE

firstFocusable(d) ==
  LET ids == FocusableIDs(d) IN IF ids = <<>> THEN "" ELSE Head(ids)

\* Fault: a node that changed its type keeps its runtime state.
Dropped_RemovedOnly(prev, op) == Removed(prev, op)

\* The nodes whose runtime state goes: removed ones and one that changed type.
Dropped(prev, op) ==
  Removed(prev, op) \cup (IF TypeChanged(prev, op) THEN {op.id} ELSE {})

\* What is left of the focus when op took the document from prev to next.
FocusAfter(p, prev, next, op) ==
  LET wanted == IF op.op = "focus" THEN op.id
                ELSE IF p.focused \in Dropped(prev, op) THEN "" ELSE p.focused
      kept == IF wanted \in Focusable(next) THEN wanted ELSE ""
  IN IF p.focused # "" /\ kept = "" /\ op.op \in {"remove", "props", "upsert"}
     THEN firstFocusable(next) ELSE kept

------------------------------------------------------------------------------
(* Input values and table selections                                         *)

\* Fault: a new value property overwrites what the user has typed.
RecreatesInput_OnValue(prev, next, op, id) ==
  \/ id \notin InputNodes(prev)
  \/ prev.nodes[id].props["value"] # next.nodes[id].props["value"]

\* The value property initialises a new input and, when forced, replaces what
\* the user has typed.
RecreatesInput(prev, next, op, id) ==
  id \notin InputNodes(prev) \/ (Forces(op) /\ id = op.id)

InputsAfter(p, prev, next, op) ==
  LET kept == Without(p.inputs, Dropped(prev, op))
  IN [id \in DOMAIN kept \cup InputNodes(next) |->
        IF /\ id \in InputNodes(next)
           /\ RecreatesInput(prev, next, op, id) \/ id \notin DOMAIN kept
        THEN next.nodes[id].props["value"] ELSE kept[id]]

\* tableSelectionAt on a table with rows: the index is clamped and, if the
\* table names its rows, the row's identity recorded. Indexes start at 0.
tableSelectionAt(n, index) ==
  LET i == IF index < 0 THEN 0 ELSE IF index >= Rows(n) THEN Rows(n) - 1 ELSE index
  IN [index |-> i, rowID |-> IF Len(RowIDs(n)) = Rows(n) THEN RowIDs(n)[i + 1] ELSE ""]

\* Fault: a selection keeps its index when rows are inserted or reordered.
reconcileSelection_ByIndex(n, current) ==
  tableSelectionAt(n, IF current = <<>> THEN 0 ELSE current[1].index)

\* reconcileSelection: a named row is followed, otherwise the index is kept.
\* current is empty for a table without a selection.
reconcileSelection(n, current) ==
  IF /\ current # <<>> /\ current[1].rowID # ""
     /\ Len(RowIDs(n)) = Rows(n) /\ current[1].rowID \in ToSet(RowIDs(n))
  THEN [index |-> (CHOOSE i \in DOMAIN RowIDs(n) : RowIDs(n)[i] = current[1].rowID) - 1,
        rowID |-> current[1].rowID]
  ELSE tableSelectionAt(n, IF current = <<>> THEN 0 ELSE current[1].index)

SelectionOf(p, id) == IF id \in DOMAIN p.selections THEN <<p.selections[id]>> ELSE <<>>

\* reconcileTableSelections
SelectionsAfter(p, next) ==
  [id \in {t \in SelectableTables(next) : Rows(next.nodes[t]) > 0} |->
     reconcileSelection(next.nodes[id], SelectionOf(p, id))]

------------------------------------------------------------------------------
(* Key bindings                                                              *)

\* Every item of every actions node, as <<node, position>>.
ActionItems(d) ==
  UNION {{<<id, i>> : i \in DOMAIN d.nodes[id].props["items"]} :
           id \in {x \in DOMAIN d.nodes : d.nodes[x].type = "actions"}}
ItemKey(d, item) == d.nodes[item[1]].props["items"][item[2]]

\* buildBindings fails when a key is bound twice.
BindingConflict(d) ==
  \E a, b \in ActionItems(d) : a # b /\ ItemKey(d, a) = ItemKey(d, b)

buildBindings(d) ==
  [key \in {ItemKey(d, a) : a \in ActionItems(d)} |->
     (CHOOSE a \in ActionItems(d) : ItemKey(d, a) = key)[1]]

------------------------------------------------------------------------------
(* Reconcile                                                                 *)

ReconcileOk(next, op) ==
  /\ op.op = "focus" => op.id \in Focusable(next)
  /\ ~BindingConflict(next)

\* Fault: only document changes and focus count as a change of the projection.
projectionChanged_NoInputs(p, cand, changed) == changed \/ cand.focused # p.focused

projectionChanged(p, cand, changed) ==
  \/ changed
  \/ cand.focused # p.focused \/ cand.inputs # p.inputs
  \/ cand.selections # p.selections \/ cand.bindings # p.bindings

\* prev has been reduced to r by op.
Reconcile(p, prev, r, op) ==
  LET cand == [p EXCEPT !.focused = FocusAfter(p, prev, r.doc, op),
                        !.inputs = InputsAfter(p, prev, r.doc, op),
                        !.selections = SelectionsAfter(p, r.doc),
                        !.bindings = buildBindings(r.doc),
                        !.dirtyRevision = IF r.changed THEN r.doc.revision ELSE @]
  IN IF projectionChanged(p, cand, r.changed)
     THEN [cand EXCEPT !.renderGeneration = @ + 1, !.publicationGeneration = @ + 1]
     ELSE cand

------------------------------------------------------------------------------
(* Local interaction: every change asks for a redraw only                    *)

Redrawn(p) == [p EXCEPT !.renderGeneration = @ + 1]

SetLocalFocus(p, id) == IF p.focused = id THEN p ELSE Redrawn([p EXCEPT !.focused = id])

SetInputValue(p, id, value) ==
  IF p.inputs[id] = value THEN p ELSE Redrawn([p EXCEPT !.inputs[id] = value])

SetTableSelection(p, n, id, index) ==
  LET with == Merge(p.selections, [x \in {id} |-> tableSelectionAt(n, index)])
  IN IF Rows(n) = 0
     THEN IF id \in DOMAIN p.selections
          THEN Redrawn([p EXCEPT !.selections = Without(@, {id})]) ELSE p
     ELSE IF with = p.selections THEN p ELSE Redrawn([p EXCEPT !.selections = with])

\* MoveTableSelection does not wrap and leaves an empty table alone.
MoveTableSelection(p, n, id, delta) ==
  LET current == IF id \in DOMAIN p.selections THEN p.selections[id].index ELSE 0
  IN IF Rows(n) = 0 THEN p ELSE SetTableSelection(p, n, id, current + delta)

==============================================================================
