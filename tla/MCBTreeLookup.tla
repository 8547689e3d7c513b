--------------------------- MODULE MCBTreeLookup ---------------------------
(***************************************************************************)
(* Lookups in a tree of three levels with nodes of one to seven keys, one  *)
(* of whose separators (8) is no entry, in a single leaf and in an empty   *)
(* one.  The keys asked for are the entries, the gaps between them, and a  *)
(* key below and one above all of them.                                    *)
(***************************************************************************)
EXTENDS BTreeLookup

MCNodes == {"root", "a", "b", "a1", "a2", "a3", "b1", "alone", "empty"}
MCRoots == {"root", "alone", "empty"}
MCLeaves == {"a1", "a2", "a3", "b1", "alone", "empty"}

MCKey ==
  [root |-> <<2, 16>>, a |-> <<2, 8, 12>>, b |-> <<16>>,
   a1 |-> <<2, 4, 6>>, a2 |-> <<9, 10>>, a3 |-> <<12>>,
   b1 |-> <<16, 18, 20, 22, 24, 26, 28>>,
   alone |-> <<3, 5, 7, 9>>, empty |-> <<>>]

MCKid == [root |-> <<"a", "b">>, a |-> <<"a1", "a2", "a3">>, b |-> <<"b1">>]

MCUnder ==
  [root |-> {"a1", "a2", "a3", "b1"}, a |-> {"a1", "a2", "a3"}, b |-> {"b1"},
   a1 |-> {"a1"}, a2 |-> {"a2"}, a3 |-> {"a3"}, b1 |-> {"b1"},
   alone |-> {"alone"}, empty |-> {"empty"}]

MCAsked == 1..29
=============================================================================
