------------------------------ MODULE Terminal ------------------------------
(***************************************************************************)
(* The Bubble Tea model of adapter/bubbletea: what the terminal keeps for  *)
(* itself (input caret, scroll offset and tail pin, top row of a table,    *)
(* one chain of animation ticks) and how it follows a document that the    *)
(* agent changes underneath it.                                            *)
(*                                                                         *)
(* The screen is a row of two children, a widget the agent replaces under  *)
(* one id and a progress node. The runtime's part of the state (value,     *)
(* selection, focus) is what the snapshot shows; a call of the controller  *)
(* takes effect or is refused. A key reads the snapshot first and acts on  *)
(* it later, so the agent may come in between.                             *)
(***************************************************************************)
EXTENDS TableLayout

CONSTANTS
  Boxes,        \* the row boxes to lay out: [children, gap, padding, border, stack]
  ColumnSets,   \* the columns a table may have
  Sizes,        \* terminal sizes: [w, h]
  LineCells,    \* cells of a logical line of viewport text
  ViewHeight,   \* the viewport's height property
  Lines, Rows,  \* logical lines of a viewport and rows of a table the agent sends
  MaxRunes,     \* bound on the runes of an input
  MaxChanges    \* bound on the agent's changes

\* What validation lets through (protocol/props.go): no number is negative, a
\* limit is not below the minimum. The row has its children.
FlexConstraint == [grow : Nat, basis : Nat, min : Nat, max : Nat]
Box == [children : Seq(FlexConstraint), gap : Nat, padding : Nat, border : BOOLEAN, stack : BOOLEAN]
Column == [width : Nat, title : Nat]

ASSUME LayoutAssumption ==
  /\ Boxes \subseteq Box
  /\ \A b \in Boxes :
       /\ b.children # <<>>
       /\ \A i \in DOMAIN b.children : b.children[i].max = 0 \/ b.children[i].max >= b.children[i].min
  /\ ColumnSets \subseteq Seq(Column)
  /\ Sizes \subseteq [w : Int, h : Int]

ASSUME ContentAssumption ==
  /\ LineCells \in Nat \ {0} /\ ViewHeight \in Nat \ {0}
  /\ Lines \subseteq Nat
  /\ Rows \subseteq Nat /\ Rows # {} /\ IsFiniteSet(Rows)
  /\ MaxRunes \in Nat /\ MaxChanges \in Nat

Epochs == 0..(2 * MaxChanges + 4)   \* bound on animation epochs

VARIABLES
  box, cols,    \* fixed in a behaviour
  widget,       \* the node in the snapshot, with its projection
  focused,      \* FocusedID is the widget
  loading,      \* the progress node is loading
  changes,      \* changes the agent has made
  dirty,        \* the update channel holds a signal
  size,         \* Model.Width, Model.Height
  cell,         \* what renderBox gives the widget at this size: [w, h]
  caret, viewport, table,   \* InteractionState: <<>> or <<the widget's entry>>
  key,          \* <<>> or the key being handled and the snapshot it read
  active, epoch, \* animationActive, animationEpoch
  ticks,        \* ticks in flight, by epoch
  quitting      \* Ctrl-C was pressed

document == <<widget, focused, loading, changes>>
local == <<caret, viewport, table>>
animation == <<active, epoch, ticks>>
vars == <<box, cols, document, dirty, size, cell, local, key, animation, quitting>>

NoWidget == [type |-> "none"]
Inputs == [type : {"input"}, len : 0..MaxRunes]
Viewports == [type : {"viewport"}, len : Lines, scrollable : BOOLEAN, follow : BOOLEAN]
Tables == [type : {"table"}, len : Rows, selectable : BOOLEAN, sel : 0..Max(Rows)]

Selectable(w) == w.type = "table" /\ w.selectable
Selected(w) == Selectable(w) /\ w.len > 0   \* TableSelections has an entry
Scrollable(w) == w.type = "viewport" /\ w.scrollable
Focusable(w) == w.type = "input" \/ Selectable(w) \/ Scrollable(w)

InputKeys == {"left", "right", "home", "end", "backspace", "delete", "runes", "enter"}
TableKeys == {"up", "down", "home", "end", "enter"}
ViewportKeys == {"up", "down", "pgup", "pgdown", "home", "end"}
Keys == InputKeys \cup TableKeys \cup ViewportKeys

\* Width and Height of a new model.
InitialSize == [w |-> 80, h |-> 24]

TypeOK ==
  /\ widget \in {NoWidget} \cup Inputs \cup Viewports \cup Tables
  /\ {focused, loading, dirty, active, quitting} \subseteq BOOLEAN
  /\ changes \in 0..MaxChanges /\ size \in Sizes \cup {InitialSize}
  /\ epoch \in Epochs /\ ticks \in [Epochs -> 0..2]

clampInt(v, lo, hi) == AtMost(hi, AtLeast(lo, v))

------------------------------------------------------------------------------
(* What the renderer resolves                                                *)

\* The cell of the row's first child.
WidgetCell(sz) == [w |-> ChildWidths(box, sz.w)[1], h |-> ContentExtent(sz.h, box)]

\* Every logical line is wrapped to the width.
TotalLines(w, at) == w.len * ((LineCells + at.w - 1) \div at.w)

NewViewport(w) == [offset |-> 0, pinned |-> w.follow]
Entry(opt, default) == IF opt = <<>> THEN default ELSE opt[1]

renderViewport(w, at, v) ==
  LET vpH == ClampViewportHeight(ViewHeight, at.h)
      maxOffset == AtLeast(0, TotalLines(w, at) - vpH)
      l == Entry(v, NewViewport(w))
  IN [visible |-> AtMost(vpH, TotalLines(w, at)), maxOffset |-> maxOffset,
      offset |-> IF w.follow /\ l.pinned THEN maxOffset ELSE clampInt(l.offset, 0, maxOffset)]

TableInput(w, at, t) ==
  [width |-> at.w, height |-> at.h, cols |-> cols, rows |-> w.len,
   selectable |-> w.selectable, selected |-> w.sel, offset |-> Entry(t, 0), variant |-> "normal"]

TableWindow(w, at, t) == RowWindow(TableInput(w, at, t))

------------------------------------------------------------------------------
(* reconcileLocalState: entries of what is gone or of another type are       *)
(* dropped, the others brought within what is rendered.                      *)

ReconciledCaret(w, c) ==
  IF w.type = "input" THEN <<clampInt(Entry(c, w.len), 0, w.len)>> ELSE <<>>

ReconciledViewport(w, at, v) ==
  IF Scrollable(w)
  THEN <<[Entry(v, NewViewport(w)) EXCEPT
           !.offset = renderViewport(w, at, <<Entry(v, NewViewport(w))>>).offset]>>
  ELSE <<>>

ReconciledTable(w, at, t) == IF Selectable(w) THEN <<TableWindow(w, at, t).start>> ELSE <<>>

reconcileLocalState(w, at) ==
  /\ caret' = ReconciledCaret(w, caret)
  /\ viewport' = ReconciledViewport(w, at, viewport)
  /\ table' = ReconciledTable(w, at, table)

------------------------------------------------------------------------------
(* Animation                                                                 *)

\* HasActiveAnimation: a focused input, or a spinner or bar that is loading.
NeedsAnimation(w, f, l) == (f /\ w.type = "input") \/ l

Emit(e) == [ticks EXCEPT ![e] = @ + 1]

\* Fault: the epoch of a chain that is stopped stays the current one.
stopAnimation_SameEpoch == active' = FALSE /\ UNCHANGED epoch

stopAnimation ==
  /\ active' = FALSE
  /\ epoch' = IF active THEN epoch + 1 ELSE epoch

animationCommandIfNeeded(need) ==
  \/ ~need /\ stopAnimation /\ UNCHANGED ticks
  \/ need /\ active /\ UNCHANGED animation
  \/ need /\ ~active /\ active' = TRUE /\ epoch' = epoch + 1 /\ ticks' = Emit(epoch + 1)

------------------------------------------------------------------------------
Init ==
  /\ box \in Boxes /\ cols \in ColumnSets
  /\ widget \in {NoWidget} \cup [type : {"input"}, len : {0}]
  /\ focused = FALSE /\ loading \in BOOLEAN
  /\ changes = 0 /\ dirty = FALSE
  /\ size = InitialSize /\ cell = WidgetCell(size)
  /\ caret = ReconciledCaret(widget, <<>>) /\ viewport = <<>> /\ table = <<>>
  /\ key = <<>>
  /\ active = NeedsAnimation(widget, focused, loading)
  /\ epoch = 0
  /\ ticks = [e \in Epochs |-> IF active /\ e = 0 THEN 1 ELSE 0]
  /\ quitting = FALSE

(* The agent. What the projection makes of an operation (Projection.tla): a   *)
(* new input takes the agent's value, an old one keeps the user's unless it is *)
(* forced, so any length may come out. A selection moves with its row to       *)
(* wherever the row went when the row has an id, and keeps its index, within   *)
(* the rows, when it has none; a table that had none starts at the first row.  *)
(* A call of a remote terminal that timed out takes effect later, as such a    *)
(* change of the value or the selection.                                       *)

Published(w) ==
  w.type = "table" =>
    w.sel \in IF Selected(w) /\ Selected(widget) THEN 0..(w.len - 1) ELSE {0}

\* An operation changes nodes or moves the focus, which only a node that takes
\* it keeps or gets.
Change(w, l) ==
  /\ changes < MaxChanges /\ changes' = changes + 1
  /\ Published(w) /\ (w = widget \/ l = loading)
  /\ widget' = w /\ loading' = l
  /\ \/ focused' = (focused /\ Focusable(w))
     \/ w = widget /\ l = loading /\ Focusable(w) /\ focused' = TRUE
  /\ dirty' = TRUE
  /\ UNCHANGED <<box, cols, size, cell, local, key, animation, quitting>>

(* Update. Nothing but the rest of a key comes between the parts of a key. *)

Idle == key = <<>>

Resize(sz) ==
  /\ Idle /\ sz # size /\ size' = sz
  /\ cell' = WidgetCell(sz)
  /\ reconcileLocalState(widget, cell')
  /\ UNCHANGED <<box, cols, document, dirty, key, animation, quitting>>

\* Fault: an update does not start an animation.
EngineDirty_NoAnimation ==
  /\ Idle /\ dirty /\ dirty' = FALSE
  /\ reconcileLocalState(widget, cell)
  /\ UNCHANGED <<box, cols, document, size, cell, key, animation, quitting>>

EngineDirty ==
  /\ Idle /\ dirty /\ dirty' = FALSE
  /\ reconcileLocalState(widget, cell)
  /\ animationCommandIfNeeded(NeedsAnimation(widget, focused, loading))
  /\ UNCHANGED <<box, cols, document, size, cell, key, quitting>>

\* A tick of another epoch, or after the end, is dropped.
AnimationTick(e) ==
  /\ Idle /\ ticks[e] > 0
  /\ LET current == active /\ e = epoch
         need == NeedsAnimation(widget, focused, loading)
     IN \/ current /\ need /\ UNCHANGED animation
        \/ current /\ ~need /\ stopAnimation /\ ticks' = [ticks EXCEPT ![e] = @ - 1]
        \/ ~current /\ ticks' = [ticks EXCEPT ![e] = @ - 1] /\ UNCHANGED <<active, epoch>>
  /\ UNCHANGED <<box, cols, document, dirty, size, cell, local, key, quitting>>

Tick == \E e \in Epochs : AnimationTick(e)

\* Until the program has handled tea.Quit, Update goes on with what arrives and
\* may start the animation again; the end of the program cuts a behaviour short.
\* The key is pressed once.
CtrlC ==
  /\ Idle /\ ~quitting /\ quitting' = TRUE /\ stopAnimation
  /\ UNCHANGED <<box, cols, document, dirty, size, cell, local, key, ticks>>

\* Tab and Shift-Tab: with one focusable node both go to it.
Tab ==
  /\ Idle
  /\ focused' \in {focused, focused \/ Focusable(widget)}
  /\ reconcileLocalState(widget, cell)
  /\ animationCommandIfNeeded(NeedsAnimation(widget, focused', loading))
  /\ UNCHANGED <<box, cols, widget, loading, changes, dirty, size, cell, key, quitting>>

------------------------------------------------------------------------------
(* handleKey: the focused node of the snapshot decides who gets the key.     *)

ReadKey(k) ==
  /\ Idle /\ focused
  /\ \/ widget.type = "input" /\ k \in InputKeys
     \/ Selectable(widget) /\ k \in TableKeys
     \/ Scrollable(widget) /\ k \in ViewportKeys
  /\ k = "runes" => widget.len < MaxRunes
  /\ key' = <<[k |-> k, seen |-> widget]>>
  /\ UNCHANGED <<box, cols, document, dirty, size, cell, local, animation, quitting>>

KeyDone == key' = <<>> /\ UNCHANGED <<box, cols, focused, loading, changes, dirty, size, cell, quitting>>
Consumed == animationCommandIfNeeded(NeedsAnimation(widget', focused, loading))

\* The edit is made on the value that was read; the call is refused when the
\* node is no longer an input, and may fail.
SetInput(len) == widget' \in {widget} \cup (IF widget.type = "input" THEN {[widget EXCEPT !.len = len]} ELSE {})

handleInputKey ==
  LET k == key[1].k
      len == key[1].seen.len
      at == clampInt(Entry(caret, len), 0, len)
  IN /\ key[1].seen.type = "input"
     /\ \/ k = "left" /\ caret' = <<AtLeast(0, at - 1)>> /\ UNCHANGED widget
        \/ k = "right" /\ caret' = <<AtMost(len, at + 1)>> /\ UNCHANGED widget
        \/ k = "home" /\ caret' = <<0>> /\ UNCHANGED widget
        \/ k = "end" /\ caret' = <<len>> /\ UNCHANGED widget
        \/ k = "enter" /\ caret' = <<at>> /\ UNCHANGED widget
        \/ k = "runes" /\ caret' = <<at + 1>> /\ SetInput(len + 1)
        \/ k = "backspace" /\ caret' = <<AtLeast(0, at - 1)>>
             /\ IF at > 0 THEN SetInput(len - 1) ELSE UNCHANGED widget
        \/ k = "delete" /\ caret' = <<at>>
             /\ IF at < len THEN SetInput(len - 1) ELSE UNCHANGED widget
     /\ UNCHANGED <<viewport, table>>
     /\ Consumed

\* MoveTableSelection does not wrap; it is refused when the node is no longer a
\* table one can select in, and may fail.
MoveTableSelection(delta) ==
  widget' \in {widget} \cup
    (IF Selected(widget)
     THEN {[widget EXCEPT !.sel = clampInt(@ + delta, 0, widget.len - 1)]} ELSE {})

handleTableKey ==
  LET k == key[1].k
      rows == key[1].seen.len
      current == IF Selected(widget) THEN widget.sel ELSE 0
      Moves(delta) == MoveTableSelection(delta) /\ reconcileLocalState(widget', cell)
  IN /\ key[1].seen.type = "table"
     /\ \/ k = "up" /\ Moves(-1)
        \/ k = "down" /\ Moves(1)
        \/ k = "home" /\ Selected(widget) /\ Moves(-current)
        \/ k = "end" /\ rows > 0 /\ Moves(rows - 1 - current)
        \/ /\ k = "enter" \/ (k = "home" /\ ~Selected(widget)) \/ (k = "end" /\ rows = 0)
           /\ UNCHANGED <<widget, local>>
     /\ Consumed

\* Fault: scrolling up leaves the pin where it was.
PinAfter_UpKeeps(k, follow, pinned, target, maxOffset) ==
  follow /\ (k = "end" \/ (k \in {"down", "pgdown"} /\ target = maxOffset) \/ pinned)

\* End and a downward move to the tail pin; any other move above it unpins.
PinAfter(k, follow, pinned, target, maxOffset) ==
  /\ follow
  /\ \/ k = "end" \/ (k \in {"down", "pgdown"} /\ target = maxOffset)
     \/ pinned /\ ~(target < maxOffset \/ k \in {"home", "up", "pgup"})

\* The geometry comes from a render of the current snapshot, the policy from
\* the node that was read. Without geometry the key is not consumed.
handleViewportKey ==
  LET k == key[1].k
      seen == key[1].seen
      m == renderViewport(widget, cell, viewport)
      page == AtLeast(1, m.visible - 1)
      target == clampInt(CASE k = "up" -> m.offset - 1
                           [] k = "down" -> m.offset + 1
                           [] k = "pgup" -> m.offset - page
                           [] k = "pgdown" -> m.offset + page
                           [] k = "home" -> 0
                           [] OTHER -> m.maxOffset, 0, m.maxOffset)
  IN /\ seen.type = "viewport"
     /\ IF widget.type = "viewport"
        THEN /\ viewport' = <<[offset |-> target,
                               pinned |-> PinAfter(k, seen.follow, Entry(viewport, NewViewport(seen)).pinned,
                                                   target, m.maxOffset)]>>
             /\ UNCHANGED <<widget, caret, table>>
             /\ Consumed
        ELSE UNCHANGED <<widget, local, animation>>

HandleKey == key # <<>> /\ KeyDone /\ (handleInputKey \/ handleTableKey \/ handleViewportKey)

Next ==
  \/ \E w \in {NoWidget} \cup Inputs \cup Viewports \cup Tables, l \in BOOLEAN : Change(w, l)
  \/ \E sz \in Sizes : Resize(sz)
  \/ EngineDirty \/ CtrlC \/ Tab
  \/ Tick
  \/ \E k \in Keys : ReadKey(k)
  \/ HandleKey

\* The program's loop delivers what is there: signals, ticks and the rest of a
\* key. Only EngineDirty takes a signal and only HandleKey ends a key, so fairness
\* of the two is stated on what they take.
SignalTaken == Idle /\ dirty /\ dirty' = FALSE
KeyStep == key # <<>> /\ key' = <<>>
Fairness == WF_dirty(SignalTaken) /\ WF_key(KeyStep) /\ WF_vars(Tick)

Spec == Init /\ [][Next]_vars /\ Fairness

------------------------------------------------------------------------------
\* Without a signal waiting, another reconciliation would change nothing: the
\* scroll offset is where the tail pin and the content put it, and the table's
\* window is full and shows the selected row, whatever resizes, keys and changes
\* came before, reordered rows that take the selection along included
\* (model.go:308-312: "The renderer constrains/clamps that state to a valid fixed
\* point"; the cases of the design in
\* docs/superpowers/specs/2026-09-06-a2ui-adaptive-data-surfaces-r1-design.md:162-180
\* and of table_window_invariant_test.go; entries of other types are pruned).
WindowsSettled ==
  ~dirty /\ key = <<>> =>
    /\ viewport = ReconciledViewport(widget, cell, viewport)
    /\ table = ReconciledTable(widget, cell, table)
    /\ Scrollable(widget) /\ widget.follow /\ viewport[1].pinned =>
         viewport[1].offset = renderViewport(widget, cell, viewport).maxOffset
    /\ Selected(widget) =>
         LET window == TableWindow(widget, cell, table)
         IN /\ table[1] = window.start
            /\ widget.sel \in window.start..(window.end - 1)
            /\ window.end <= widget.len

\* The reading position is the user's: while an entry lives only a key changes
\* the tail pin, an update or a resize moves an unpinned offset only when it no
\* longer exists, and a key that ends above the tail unpins (PROTOCOL.md:281:
\* "Manual scrolling above the tail MUST unpin"; key_router.go:194-212).
ReadingPosition ==
  [][viewport # <<>> /\ viewport' # <<>> =>
       /\ viewport'[1].pinned # viewport[1].pinned => KeyStep
       /\ KeyStep /\ viewport' # viewport /\ widget.type = "viewport"
            /\ viewport'[1].offset < renderViewport(widget, cell, viewport).maxOffset
            => ~viewport'[1].pinned
       /\ ~KeyStep /\ Scrollable(widget') /\ ~(widget'.follow /\ viewport[1].pinned)
            /\ viewport[1].offset <= renderViewport(widget', cell', viewport).maxOffset
            => viewport'[1].offset = viewport[1].offset]_vars

\* The timer chain never forks ("preventing timer fan-out", model.go:234-236):
\* exactly one tick of the current epoch is in flight while the animation is on
\* and none while it is off, whatever ticks of older epochs still arrive and
\* whatever is handled between Ctrl-C and the end.
OneChain ==
  ticks[epoch] = IF active THEN 1 ELSE 0

\* An animation that stays needed is on in the end and one that is not is off,
\* which any of six places may have missed (model.go:142-159, key_router.go:17-47).
AnimationFollows ==
  LET need == NeedsAnimation(widget, focused, loading)
  IN /\ (need /\ ~active) ~> (active \/ ~need \/ quitting)
     /\ (active /\ ~need) ~> (~active \/ need \/ quitting)

\* The widths that are handed out fit: a row whose minima fit is inside its box,
\* with every child between its limits, and one whose minima do not fit is stacked
\* or shared equally, inside its box too while that has a cell for every child
\* (layout/flex.go, renderer.go:166-205); a grid, the two panes and the detail's
\* fields are inside the cell of the table, and a record is when it is not marked
\* and its titles leave a cell for the value (table_layout.go:54-268,
\* render_components.go:374-418). Three cases are not claimed: a row with less
\* than a cell for each child, the heading of the detail pane (seven cells in a
\* pane that may have six), and other records, which are stated to be too wide
\* whenever their values are long, although PROTOCOL.md:295 says that "A terminal
\* renderer MUST respect its available width".
LayoutFits ==
  /\ RowFits(box, size.w)
  /\ widget.type = "table" => TableFits(TableInput(widget, cell, table))

==============================================================================
