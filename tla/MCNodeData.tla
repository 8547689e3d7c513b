----------------------------- MODULE MCNodeData -----------------------------
(***************************************************************************)
(* A node of two levels of extended blocks, with a last child and a last   *)
(* page that are not full, and a node without data.  Reading any block may *)
(* fail.                                                                   *)
(***************************************************************************)
EXTENDS NodeData

CONSTANTS big, empty

MCNodes == {big, empty}
MCLevel == [n \in MCNodes |-> IF n = big THEN 2 ELSE 0]
MCSize == [n \in MCNodes |-> IF n = big THEN 5 ELSE 0]

MCCounts == {0, 1, 4}
MCOffsets == {-2, 0, 1, 3}
MCPageNums == {0, 1, 2, 3}
MCMayFail == {b \in Blocks : Size[b.node] > 0}
=============================================================================
