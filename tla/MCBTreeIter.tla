---------------------------- MODULE MCBTreeIter ----------------------------
(***************************************************************************)
(* Two iterators over a store of three trees: one of three levels, with a  *)
(* non-leaf that has a single child; a leaf on its own, as the subnode     *)
(* tree of most nodes is; and an empty one.                                *)
(***************************************************************************)
EXTENDS BTreeIter

MCNodes == {"root", "a", "b", "a1", "a2", "b1", "alone", "empty"}
MCRoots == {"root", "alone", "empty"}
MCLeaves == {"a1", "a2", "b1", "alone", "empty"}

MCKey ==
  [root |-> <<1, 4>>, a |-> <<1, 3>>, b |-> <<4>>,
   a1 |-> <<1, 2>>, a2 |-> <<3>>, b1 |-> <<5, 6>>,
   alone |-> <<1, 2>>, empty |-> <<>>]

MCKid == [root |-> <<"a", "b">>, a |-> <<"a1", "a2">>, b |-> <<"b1">>]

MCUnder ==
  [root |-> {"a1", "a2", "b1"}, a |-> {"a1", "a2"}, b |-> {"b1"},
   a1 |-> {"a1"}, a2 |-> {"a2"}, b1 |-> {"b1"},
   alone |-> {"alone"}, empty |-> {"empty"}]
=============================================================================
