------------------------------ MODULE RowLayout ------------------------------
(***************************************************************************)
(* Widths of the children of a row: layout/flex.go, layout/layout.go and   *)
(* the row part of renderBox. Loops over cells become one definition per   *)
(* pass: within a pass every child loses or gains at most one cell of the  *)
(* rest, the leftmost first.                                               *)
(*                                                                         *)
(* Numbers are mathematical integers. Validation bounds no flex property   *)
(* from above (protocol/props.go:140-171), so for values near the end of a *)
(* Go int the code's sum of minima and its product spare*Grow wrap; what   *)
(* is said here holds while those stay inside the int.                     *)
(***************************************************************************)
EXTENDS Integers, Sequences, FiniteSets

AtLeast(lo, n) == IF n < lo THEN lo ELSE n
AtMost(hi, n) == IF n > hi THEN hi ELSE n

sumInts(values) ==
  LET total[k \in 0..Len(values)] == IF k = 0 THEN 0 ELSE total[k - 1] + values[k]
  IN total[Len(values)]

\* A limit of 0 is no limit.
Capped(c, width) == c.max > 0 /\ width >= c.max

GapExtent(gap, n) == IF gap <= 0 \/ n <= 1 THEN 0 ELSE gap * (n - 1)

ClampViewportHeight(requested, available) ==
  AtMost(AtLeast(1, available), AtLeast(1, requested))

\* The cells inside border and padding; at least one.
ContentExtent(extent, box) ==
  AtLeast(1, AtLeast(1, extent) - 2 * (IF box.border THEN 1 ELSE 0) - 2 * AtLeast(0, box.padding))

Minimum(c) == AtLeast(1, c.min)

Basis(c) ==
  LET w == AtLeast(Minimum(c), c.basis)
  IN AtLeast(1, IF c.max > 0 THEN AtMost(c.max, w) ELSE w)

\* One round over the children: the first excess ones above their minimum give
\* up a cell.
ShrinkRound(w, children, excess) ==
  LET shrinkable == {i \in DOMAIN w : w[i] > Minimum(children[i])}
      Before(i) == Cardinality({j \in shrinkable : j < i})
  IN [i \in DOMAIN w |-> IF i \in shrinkable /\ Before(i) < excess THEN w[i] - 1 ELSE w[i]]

Shrink(w, children, content) ==
  LET after[v \in [DOMAIN w -> Int]] ==
        LET next == ShrinkRound(v, children, sumInts(v) - content)
        IN IF sumInts(v) <= content \/ next = v THEN v ELSE after[next]
  IN after[w]

Share(c, width, num, total) ==
  IF c.max > 0 THEN AtMost(c.max - width, num \div total) ELSE num \div total

\* One proportional pass over spare cells. What the division leaves goes, a cell
\* each, to the largest remainders whose child is not at its limit.
GrowPass(w, children, spare) ==
  LET active == {i \in DOMAIN w : children[i].grow > 0 /\ ~Capped(children[i], w[i])}
      totalGrow == sumInts([i \in DOMAIN w |-> IF i \in active THEN children[i].grow ELSE 0])
      share == [i \in DOMAIN w |->
                  IF i \in active
                  THEN Share(children[i], w[i], spare * children[i].grow, totalGrow) ELSE 0]
      rem(i) == (spare * children[i].grow) % totalGrow
      left == spare - sumInts(share)
      open == {i \in active : ~Capped(children[i], w[i] + share[i])}
      Before(i) == Cardinality({j \in open : rem(j) > rem(i) \/ (rem(j) = rem(i) /\ j < i)})
  IN [i \in DOMAIN w |->
        w[i] + share[i] + (IF i \in open /\ Before(i) < left THEN 1 ELSE 0)]

Grow(w, children, content) ==
  LET after[v \in [DOMAIN w -> Int]] ==
        LET next == GrowPass(v, children, content - sumInts(v))
        IN IF sumInts(v) >= content \/ next = v THEN v ELSE after[next]
  IN after[w]

\* Content width of a row and the widths of its children; fits is FALSE when the
\* minima alone are too wide.
RowContent(available, gap, n) == AtLeast(0, available - GapExtent(gap, n))

AllocateRow(available, gap, children) ==
  LET content == RowContent(available, gap, Len(children))
      mins == [i \in DOMAIN children |-> Minimum(children[i])]
      bases == [i \in DOMAIN children |-> Basis(children[i])]
  IN IF sumInts(mins) > content
     THEN [widths |-> mins, fits |-> FALSE]
     ELSE [widths |-> Grow(Shrink(bases, children, content), children, content), fits |-> TRUE]

EqualShare == [grow |-> 1, basis |-> 1, min |-> 1, max |-> 0]

\* What renderBox gives its children: the allocation, the whole width each when
\* the box stacks, or equal shares.
ChildWidths(box, width) ==
  LET content == ContentExtent(width, box)
      row == AllocateRow(content, box.gap, box.children)
      n == Len(box.children)
  IN IF row.fits THEN row.widths
     ELSE IF box.stack THEN [i \in 1..n |-> content]
     ELSE AllocateRow(content, box.gap, [i \in 1..n |-> EqualShare]).widths

------------------------------------------------------------------------------
\* A row whose minima fit stays inside its box with every child between its
\* limits, and cells are left over only when every child that may grow is at its
\* limit (flex.go:81-83, "capped children ... hand unused width to uncapped
\* siblings"). When they do not fit, a stacked child has the width of the content,
\* and equal shares stay inside while there is a cell for every child besides the
\* gaps; in less than that every child still gets its cell and the row is too wide
\* (renderer.go:166-190).
RowFits(box, width) ==
  LET content == ContentExtent(width, box)
      n == Len(box.children)
      room == RowContent(content, box.gap, n)
      row == AllocateRow(content, box.gap, box.children)
      drawn == ChildWidths(box, width)
  IN /\ row.fits =>
          /\ sumInts(row.widths) <= room
          /\ \A i \in DOMAIN row.widths :
               LET c == box.children[i]
               IN /\ row.widths[i] >= Minimum(c)
                  /\ c.max > 0 => row.widths[i] <= c.max
                  /\ sumInts(row.widths) < room => c.grow = 0 \/ Capped(c, row.widths[i])
     /\ ~row.fits =>
          /\ box.stack => \A i \in 1..n : drawn[i] = content
          /\ ~box.stack /\ n <= room => sumInts(drawn) <= room

==============================================================================
