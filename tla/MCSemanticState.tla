--------------------------- MODULE MCSemanticState ---------------------------
(* Inputs for model checking SemanticState.                                  *)
EXTENDS SemanticState

OnType(sets) == [t \in NodeTypes |-> IF t \in DOMAIN sets THEN sets[t] ELSE {NoProps}]

\* Topology: nodes that contain others, hold text and may take the focus.
TreePatches == OnType([viewport |-> {NoProps, [scrollable |-> TRUE]}])
TreeIndexes == {<<>>, <<0>>, <<5>>}
AnyParent == Ids \cup {"", "root"}
IdSymmetry == Permutations(Ids)

\* Interaction: inputs, tables and actions side by side.
WidgetPatches ==
  OnType([input |-> {NoProps, [value |-> "x"], [value |-> "x", force |-> TRUE]},
          table |-> {NoProps, [rows |-> 2],
                     [selectable |-> TRUE, rows |-> 2, row_ids |-> <<"r", "s">>],
                     [rows |-> 3, row_ids |-> <<"q", "r", "s">>],
                     [rows |-> 1, row_ids |-> <<"s">>],
                     [selectable |-> FALSE]},
          actions |-> {NoProps, [items |-> <<"k">>]},
          box |-> {[gap |-> 1]}])
NoIndexes == {<<>>}
==============================================================================
