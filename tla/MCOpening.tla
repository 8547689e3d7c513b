----------------------------- MODULE MCOpening ------------------------------
(***************************************************************************)
(* Bags of no, one, two and three levels of BTH; tables of either size of  *)
(* row number, with rows in the heap, in a subnode and nowhere; a heap of  *)
(* another kind; and nodes that are something else, or almost one of them. *)
(***************************************************************************)
EXTENDS Opening, TLC

Node(client, root, allocs, subnodes) ==
  [gust |-> FALSE, short |-> FALSE, signature |-> "heap", client |-> client, root |-> root,
   allocs |-> allocs, subnodes |-> subnodes]

Header(key, entry, levels, root) ==
  [is |-> "bth", key |-> key, entry |-> entry, levels |-> levels, root |-> root]
Leaf(keys) == [is |-> "leaf", keys |-> keys]
NonLeaf(height, children, under) ==
  [is |-> "nonleaf", height |-> height, children |-> children, under |-> under]
Rows == [is |-> "rows"]
Tc(signature, rows, matrix) ==
  [is |-> "tc", signature |-> signature, columns |-> {7, 8}, rows |-> rows, matrix |-> matrix]

BagOf(levels, root, allocs) ==
  Node("pc", 32, 32 :> Header(2, 6, levels, root) @@ allocs, {})

TableOf(signature, entry, levels, root, matrix, subnodes) ==
  Node("tc", 32,
       32 :> Tc(signature, 64, matrix) @@ 64 :> Header(4, entry, levels, root) @@
       96 :> NonLeaf(1, <<128, 160>>, <<1, 2>>) @@ 128 :> Leaf(<<1>>) @@ 160 :> Leaf(<<2>>) @@ 192 :> Rows,
       subnodes)

Flat == BagOf(0, 64, 64 :> Leaf(<<1, 2>>))

MCStore == <<
  BagOf(0, 0, <<>>),
  Flat,
  BagOf(1, 64, 64 :> NonLeaf(1, <<96, 128>>, <<1, 2, 3>>) @@ 96 :> Leaf(<<1>>) @@
               128 :> Leaf(<<2, 3>>)),
  BagOf(2, 64, 64 :> NonLeaf(2, <<96, 128>>, <<1, 2>>) @@ 96 :> NonLeaf(1, <<160>>, <<1>>) @@
               128 :> NonLeaf(1, <<192>>, <<2>>) @@ 160 :> Leaf(<<1>>) @@ 192 :> Leaf(<<2>>)),
  TableOf("tc", 2, 0, 128, 192, {}),
  TableOf("tc", 4, 1, 96, 33, {33}),
  TableOf("tc", 4, 0, 0, 0, {}),
  \* almost
  TableOf("tc", 4, 0, 128, 33, {}),
  TableOf("tc", 6, 0, 128, 192, {}),
  TableOf("other", 4, 0, 128, 192, {}),
  [Flat EXCEPT !.gust = TRUE],
  [Flat EXCEPT !.signature = "other"],
  [Flat EXCEPT !.short = TRUE],
  [Flat EXCEPT !.client = "other"],
  Node("bth", 32, 32 :> Header(4, 4, 0, 64) @@ 64 :> Leaf(<<5>>), {}),
  Node("pc", 32, 32 :> Header(2, 4, 0, 64) @@ 64 :> Leaf(<<5>>), {}),
  Node("pc", 64, 64 :> Leaf(<<5>>), {})>>

MCSizes == {<<2, 6>>, <<4, 4>>}
=============================================================================
