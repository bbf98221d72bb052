----------------------------- MODULE TableLayout -----------------------------
(***************************************************************************)
(* How a table is laid out: adapter/bubbletea/table_layout.go and the      *)
(* widths table_window.go derives from a plan. A column is its declared    *)
(* width and the width of its title; cells play no part in the plan.       *)
(*                                                                         *)
(* Numbers are mathematical integers. Validation bounds no column's width  *)
(* from above (protocol/props.go:295-299), so for widths near the end of a *)
(* Go int the code's total of preferred widths wraps; what is said here    *)
(* holds while it stays inside the int.                                    *)
(***************************************************************************)
EXTENDS RowLayout, FiniteSetsExt

tableMinColumnWidth == 3
tableSelectablePrefixW == 2
tablePaneSeparatorWidth == 3

preferred(col) == AtLeast(tableMinColumnWidth, col.width)

\* Three quarters of the preferred width, rounded up, or the title.
readable(col) ==
  LET p == preferred(col)
      floor == AtLeast(tableMinColumnWidth, (p * 3 + 3) \div 4)
  IN AtMost(p, AtLeast(AtMost(p, col.title), floor))

preferredTableWidths(cols) == [i \in DOMAIN cols |-> preferred(cols[i])]
minimumReadableTableWidths(cols) == [i \in DOMAIN cols |-> readable(cols[i])]

tableColumnSeparatorWidth(variant) == IF variant \in {"compact", "dense"} THEN 1 ELSE 3

\* Prefix and separators of a grid of n columns.
GridChrome(in, n) ==
  (IF in.selectable THEN tableSelectablePrefixW ELSE 0)
    + tableColumnSeparatorWidth(in.variant) * AtLeast(0, n - 1)

\* The leftmost of the widest columns above their floor loses a cell, until the
\* widths are within the budget or all are at their floors.
shrinkTableWidthsToFloors(w, floors, budget) ==
  LET after[v \in [DOMAIN w -> Int]] ==
        LET above == {i \in DOMAIN v : v[i] > AtLeast(tableMinColumnWidth, floors[i])}
            widest == CHOOSE i \in above : \A j \in above : v[j] < v[i] \/ (v[j] = v[i] /\ i <= j)
        IN IF sumInts(v) <= budget \/ above = {} THEN v ELSE after[[v EXCEPT ![widest] = @ - 1]]
  IN after[w]

------------------------------------------------------------------------------
(* Master and detail panes                                                   *)

masterMin(cols) == tableSelectablePrefixW + readable(cols[1])
detailMin(cols) ==
  AtLeast(tableMinColumnWidth, Max({cols[i].title + 2 + readable(cols[i]) : i \in DOMAIN cols}))

masterDetailEligible(in) ==
  /\ in.selectable /\ in.rows > 0 /\ Len(in.cols) >= 4
  /\ in.width >= masterMin(in.cols) + tablePaneSeparatorWidth + detailMin(in.cols)

\* Fault: the detail pane's minimum is not kept free.
LeftPaneWidth_TwoFifths(in) == AtLeast(masterMin(in.cols), (in.width * 2) \div 5)

LeftPaneWidth(in) ==
  AtMost(in.width - tablePaneSeparatorWidth - detailMin(in.cols),
         AtLeast(masterMin(in.cols), (in.width * 2) \div 5))

\* The first n columns at their readable widths with their separators.
PrefixWidth(in, n) ==
  GridChrome(in, n) + sumInts(SubSeq(minimumReadableTableWidths(in.cols), 1, n))

\* The longest prefix of the columns that fits the pane, at least one.
masterColumns(in, pane) ==
  AtLeast(1, Max({0} \cup {n \in DOMAIN in.cols : PrefixWidth(in, n) <= pane}))

------------------------------------------------------------------------------
(* Rows                                                                      *)

tableVisibleRowCapacity(in, mode) ==
  LET height == AtLeast(1, in.height)
      fitting == IF mode = "records" THEN height \div (Len(in.cols) + 1)
                 ELSE height - (IF in.variant = "dense" THEN 1 ELSE 2)
  IN IF in.rows <= 0 THEN 0 ELSE AtMost(in.rows, AtLeast(1, fitting))

\* Fault: the window does not follow a selection below it.
visibleTableRowWindow_NotBelow(rows, selected, offset, capacity) ==
  IF rows <= 0 \/ capacity <= 0 THEN [start |-> 0, end |-> 0]
  ELSE LET from == AtMost(selected, AtMost(rows - capacity, AtLeast(0, offset)))
       IN [start |-> from, end |-> from + capacity]

\* The previous offset, moved as little as shows the selected row.
visibleTableRowWindow(rows, selected, offset, capacity) ==
  IF rows <= 0 \/ capacity <= 0 THEN [start |-> 0, end |-> 0]
  ELSE LET cap == AtMost(rows, capacity)
           sel == AtMost(rows - 1, AtLeast(0, selected))
           from == AtMost(rows - cap, AtLeast(0, offset))
           start == AtMost(rows - cap, AtLeast(sel - cap + 1, AtMost(sel, from)))
       IN [start |-> start, end |-> start + cap]

TableMode(in) ==
  LET n == Len(in.cols)
  IN CASE n = 0 \/ in.width <= 0 -> "full"
       [] n > 0 /\ in.width > 0 ->
            IF GridChrome(in, n) + sumInts(preferredTableWidths(in.cols)) <= in.width THEN "full"
            ELSE IF PrefixWidth(in, n) <= in.width THEN "compressed"
            ELSE IF masterDetailEligible(in) THEN "masterDetail"
            ELSE "records"

RowWindow(in) ==
  visibleTableRowWindow(in.rows, in.selected, in.offset, tableVisibleRowCapacity(in, TableMode(in)))

planTableLayout(in) ==
  LET mode == TableMode(in)
      n == Len(in.cols)
      left == IF mode = "masterDetail" THEN LeftPaneWidth(in) ELSE 0
      visible == IF mode = "masterDetail" THEN masterColumns(in, left) ELSE n
      Widths(m, width) ==
        shrinkTableWidthsToFloors(SubSeq(preferredTableWidths(in.cols), 1, m),
                                  SubSeq(minimumReadableTableWidths(in.cols), 1, m),
                                  width - GridChrome(in, m))
  IN [mode |-> mode,
      widths |-> CASE mode = "compressed" -> Widths(n, in.width)
                   [] mode = "masterDetail" -> Widths(visible, left)
                   [] OTHER -> preferredTableWidths(in.cols),
      left |-> left,
      right |-> IF mode = "masterDetail" THEN in.width - tablePaneSeparatorWidth - left ELSE 0,
      window |-> RowWindow(in)]

------------------------------------------------------------------------------
(* What is drawn                                                             *)

\* A field of a record or of the detail pane: the title, a colon and a space, and
\* a value, counted as long as the place it is cut to. A record that is selected
\* in a focused table has a mark of two cells before each line.
Marks == {0, 2}
LabelWidth(col, width) == AtMost(AtLeast(1, width - 2), col.title)
RecordLine(col, width, mark) ==
  mark + LabelWidth(col, width) + 2 + AtLeast(1, width - (col.title + 2))
DetailLine(col, width) ==
  LabelWidth(col, width) + 2 + AtLeast(1, width - (LabelWidth(col, width) + 2))

GridWidth(in, plan) == GridChrome(in, Len(plan.widths)) + sumInts(plan.widths)

------------------------------------------------------------------------------
\* A grid is never wider than its pane, its columns stay between what is
\* readable and what was asked for, and the detail pane keeps its minimum, inside
\* which its fields are (table_layout.go:54-96, 228-268; table_window.go:108-115).
\* A record's line with a long value keeps to the width exactly when it has no
\* mark and its title leaves a cell for the value: the mark is not taken off the
\* value's place, and a value keeps a cell even where the title leaves none
\* (render_components.go:374-418).
TableFits(in) ==
  LET plan == planTableLayout(in)
  IN /\ plan.mode \in {"full", "compressed"} /\ in.width > 0 /\ in.cols # <<>> =>
          GridWidth(in, plan) <= in.width
     /\ plan.mode = "masterDetail" =>
          /\ GridWidth(in, plan) <= plan.left
          /\ plan.right >= detailMin(in.cols)
          /\ plan.left + tablePaneSeparatorWidth + plan.right = in.width
          /\ \A i \in DOMAIN in.cols : DetailLine(in.cols[i], plan.right) <= plan.right
     /\ plan.mode = "records" =>
          \A i \in DOMAIN in.cols, mark \in Marks :
            RecordLine(in.cols[i], in.width, mark) <= in.width
              <=> mark = 0 /\ in.cols[i].title + 3 <= in.width
     /\ \A i \in DOMAIN plan.widths :
          plan.widths[i] \in readable(in.cols[i])..preferred(in.cols[i])

==============================================================================
