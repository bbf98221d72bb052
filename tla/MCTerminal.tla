----------------------------- MODULE MCTerminal -----------------------------
(* Boxes, columns and sizes for TLC. *)
EXTENDS Terminal

Flex(grow, basis, min, max) == [grow |-> grow, basis |-> basis, min |-> min, max |-> max]

\* The widget grows up to its limit and shares equally where the minima do not
\* fit; or its basis is shrunk and the row is stacked where they do not fit.
MCBoxes ==
  {[children |-> <<Flex(3, 4, 11, 31), Flex(1, 1, 1, 4)>>, gap |-> 1, padding |-> 0,
    border |-> FALSE, stack |-> FALSE],
   [children |-> <<Flex(0, 17, 12, 0), Flex(2, 14, 3, 0)>>, gap |-> 1, padding |-> 0,
    border |-> TRUE, stack |-> TRUE]}

\* Four columns of four cells and titles of two.
MCColumns == {[i \in 1..4 |-> [width |-> 4, title |-> 2]]}

MCSizes == {[w |-> 30, h |-> 4], [w |-> 12, h |-> 8]}

==============================================================================
