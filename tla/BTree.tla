------------------------------- MODULE BTree -------------------------------
(***************************************************************************)
(* The shape of the B-trees of fairport/util/btree.h, as the iterator      *)
(* (BTreeIter) and the search (BTreeLookup) see them: what get_key,        *)
(* num_values and get_child return.  The node and block BTrees of a store  *)
(* (bt_page), the subnode trees (subnode_block) and the trees on a heap    *)
(* (bth_node) are all instances of the same class templates, so one store  *)
(* is a forest: several trees, each with a root of its own.                *)
(*                                                                         *)
(* Keys are integers and stand for their values too.  A position is        *)
(* zero-based, as in the code; a sequence is one-based, so the key at      *)
(* position pos of node n is Key[n][pos + 1].                              *)
(***************************************************************************)
EXTENDS Integers, Sequences

CONSTANTS
  Nodes,    \* the nodes (pages, blocks, heap allocations) of all the trees
  Roots,    \* the node at the root of each tree
  Leaves,   \* the btree_node_leaf objects; the others are btree_node_nonleaf
  Key,      \* Key[n]: the keys of node n in order
  Kid,      \* Kid[n]: the children of non-leaf n, one for each key
  Under,    \* Under[n]: the leaves reachable from node n
  UintMax,  \* the largest value of a position (a uint)
  None      \* specification only: no position, no operation or lookup in progress

NonLeaves == Nodes \ Leaves

NumValues(n) == Len(Key[n])

\* The entries stored in the tree under n.
KeysUnder(n) == UNION {{Key[l][p] : p \in DOMAIN Key[l]} : l \in Under[n]}

\* uint arithmetic: positions wrap.
IncUnbounded(x) == x + 1

Inc(x) == IF x = UintMax THEN 0 ELSE x + 1
Dec(x) == IF x = 0 THEN UintMax ELSE x - 1

-----------------------------------------------------------------------------
(***************************************************************************)
(* What a well-formed store guarantees.  The code checks none of it while  *)
(* it walks a tree, it depends on all of it.                               *)
(***************************************************************************)

ASSUME NodesAssumption ==
  /\ Roots \subseteq Nodes
  /\ Leaves \subseteq Nodes
  /\ Key \in [Nodes -> Seq(Int)]
  /\ Kid \in [NonLeaves -> Seq(Nodes)]
  /\ UintMax \in Nat
  /\ \A n \in Nodes : 2 * NumValues(n) < UintMax

\* A non-leaf has a child for each of its keys, and at least one.  A leaf is
\* empty only when it is the whole tree (a subnode tree with block id 0, a BTH
\* whose root is 0).
ASSUME ShapeAssumption ==
  /\ \A n \in NonLeaves : NumValues(n) > 0 /\ Len(Kid[n]) = NumValues(n)
  /\ \A n \in Nodes \ Roots : NumValues(n) > 0
  /\ \A n \in NonLeaves : \A p \in DOMAIN Kid[n] : Kid[n][p] \notin Roots

ASSUME UnderAssumption ==
  /\ Under \in [Nodes -> SUBSET Leaves]
  /\ \A l \in Leaves : Under[l] = {l}
  /\ \A n \in NonLeaves : Under[n] = UNION {Under[Kid[n][p]] : p \in DOMAIN Kid[n]}

\* No leaf is in two trees, and no node but a root is without entries.
ASSUME ForestAssumption ==
  /\ \A r, other \in Roots : r # other => Under[r] \cap Under[other] = {}
  /\ \A n \in Nodes \ Roots : KeysUnder(n) # {}

\* Keys ascend inside a node; the key of a child bounds the entries under it
\* from below and the key of the next child bounds them from above.
ASSUME OrderAssumption ==
  /\ \A n \in Nodes : \A p, q \in DOMAIN Key[n] : p < q => Key[n][p] < Key[n][q]
  /\ \A n \in NonLeaves : \A p \in DOMAIN Kid[n] : \A k \in KeysUnder(Kid[n][p]) :
       /\ Key[n][p] <= k
       /\ \A q \in DOMAIN Kid[n] : p < q => k < Key[n][q]
=============================================================================
