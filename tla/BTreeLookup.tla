---------------------------- MODULE BTreeLookup ----------------------------
(***************************************************************************)
(* Search in the B-trees of a store: btree_node::binary_search and the     *)
(* lookup members of btree_node_leaf and btree_node_nonleaf                *)
(* (fairport/util/btree.h).  Nodes, blocks, properties and the rows of a   *)
(* table are all found this way.                                           *)
(*                                                                         *)
(* One turn of the loop of binary_search is a step, and so is the use the  *)
(* caller makes of its result: a child is read only once the search of its *)
(* parent has chosen it, and stays in memory for the lookups that follow.  *)
(***************************************************************************)
EXTENDS BTree

CONSTANTS
  Asked    \* the keys the program looks for

ASSUME LookupAssumption ==
  /\ Asked \subseteq Int
  /\ None \notin Int /\ None \notin [root : Roots, key : Asked]

VARIABLES
  held,      \* held[n]: node n is in memory
  ask,       \* the lookup in progress: its tree and its key
  node,      \* the node being searched
  start, end, mid,   \* the variables of binary_search
  location,  \* what binary_search has returned
  answer     \* how the last lookup ended

lookup_vars == <<held, ask, node, start, end, mid, location, answer>>

search == <<start, end, mid>>

NotFound == [kind |-> "key_not_found", key |-> 0]
Failed == [kind |-> "failed", key |-> 0]
Value(k) == [kind |-> "value", key |-> k]

-----------------------------------------------------------------------------

LookupTypeOK ==
  /\ held \in [Nodes -> BOOLEAN]
  /\ ask \in [root : Roots, key : Asked] \cup {None}
  /\ node \in Nodes
  /\ start \in 0..UintMax /\ end \in 0..UintMax /\ mid \in 0..UintMax
  /\ location \in Int \cup {None}
  /\ answer \in [kind : {"key_not_found", "failed", "value"}, key : Int] \cup {None}

LookupInit ==
  /\ held = [n \in Nodes |-> n \in Roots]
  /\ ask = None
  /\ node \in Roots
  /\ start = 0 /\ end = 0 /\ mid = 0
  /\ location = None
  /\ answer = None

-----------------------------------------------------------------------------
(***************************************************************************)
(* binary_search                                                           *)
(***************************************************************************)

\* (start + end) / 2 on uints
Middle(s, e) == ((s + e) % (UintMax + 1)) \div 2

SearchNodeSkipsLast(n) ==
  LET last == IF NumValues(n) = 0 THEN 0 ELSE NumValues(n) - 1
  IN /\ node' = n
     /\ start' = 0
     /\ end' = last
     /\ mid' = Middle(0, last)
     /\ location' = None

SearchNode(n) ==
  /\ node' = n
  /\ start' = 0
  /\ end' = NumValues(n)
  /\ mid' = Middle(0, NumValues(n))
  /\ location' = None

\* get_key(mid)
Probed == Key[node][mid + 1]

Searching == ask # None /\ location = None

LessKeepsMid ==
  /\ Searching /\ mid < end
  /\ Probed < ask.key
  /\ start' = mid
  /\ mid' = Middle(mid, end)
  /\ UNCHANGED <<held, ask, node, end, location, answer>>

Less ==
  /\ Searching /\ mid < end
  /\ Probed < ask.key
  /\ start' = mid + 1
  /\ mid' = Middle(mid + 1, end)
  /\ UNCHANGED <<held, ask, node, end, location, answer>>

Same ==
  /\ Searching /\ mid < end
  /\ Probed = ask.key
  /\ location' = mid
  /\ UNCHANGED <<held, ask, node, search, answer>>

GreaterDropsMid ==
  /\ Searching /\ mid < end
  /\ Probed > ask.key
  /\ end' = mid - 1
  /\ mid' = Middle(start, mid - 1)
  /\ UNCHANGED <<held, ask, node, start, location, answer>>

Greater ==
  /\ Searching /\ mid < end
  /\ Probed > ask.key
  /\ end' = mid
  /\ mid' = Middle(start, mid)
  /\ UNCHANGED <<held, ask, node, start, location, answer>>

\* A uint assigned to an int.
AsInt(x) == IF x > UintMax \div 2 THEN x - (UintMax + 1) ELSE x

ExhaustedAtMid ==
  /\ Searching /\ mid >= end
  /\ location' = AsInt(mid)
  /\ UNCHANGED <<held, ask, node, search, answer>>

Exhausted ==
  /\ Searching /\ mid >= end
  /\ location' = AsInt(Dec(mid))
  /\ UNCHANGED <<held, ask, node, search, answer>>

-----------------------------------------------------------------------------
(***************************************************************************)
(* lookup                                                                  *)
(***************************************************************************)

Lookup(r, k) ==
  /\ ask = None
  /\ ask' = [root |-> r, key |-> k]
  /\ answer' = None
  /\ SearchNode(r)
  /\ UNCHANGED held

Finish(a) ==
  /\ answer' = a
  /\ ask' = None
  /\ location' = None
  /\ UNCHANGED <<node, search>>

Located(S) == ask # None /\ location # None /\ node \in S

LeafLookupAnyKey ==
  /\ Located(Leaves)
  /\ Finish(IF location = -1 THEN NotFound ELSE Value(Key[node][location + 1]))
  /\ UNCHANGED held

LeafLookup ==
  /\ Located(Leaves)
  /\ Finish(IF location = -1 \/ Key[node][location + 1] # ask.key
              THEN NotFound ELSE Value(Key[node][location + 1]))
  /\ UNCHANGED held

NonLeafNone ==
  /\ Located(NonLeaves) /\ location = -1
  /\ Finish(NotFound)
  /\ UNCHANGED held

\* get_child(location)->lookup(k)
NonLeafChild ==
  /\ Located(NonLeaves) /\ location # -1
  /\ LET c == Kid[node][location + 1]
     IN /\ held' = [held EXCEPT ![c] = TRUE]
        /\ SearchNode(c)
  /\ UNCHANGED <<ask, answer>>

\* The child has to be read and cannot be.
NonLeafFails ==
  /\ Located(NonLeaves) /\ location # -1
  /\ ~held[Kid[node][location + 1]]
  /\ Finish(Failed)
  /\ UNCHANGED held

-----------------------------------------------------------------------------

LookupStep ==
  \/ Less \/ Same \/ Greater \/ Exhausted
  \/ LeafLookup \/ NonLeafNone \/ NonLeafChild \/ NonLeafFails

LookupNext ==
  \/ \E r \in Roots, k \in Asked : Lookup(r, k)
  \/ LookupStep

\* A lookup once called runs: the program waits for its result.
LookupSpec == LookupInit /\ [][LookupNext]_lookup_vars /\ WF_lookup_vars(LookupStep)

-----------------------------------------------------------------------------
(***************************************************************************)
(* Properties.                                                             *)
(***************************************************************************)

\* The loop of binary_search keeps the place of the key between start and end:
\* what is before start is smaller, what is at end or after it is larger.  So
\* get_key(mid) is never called past the last key, whatever the key asked for.
Window ==
  Searching =>
    /\ start <= end /\ end <= NumValues(node)
    /\ mid = (start + end) \div 2
    /\ \A p \in DOMAIN Key[node] : p <= start => Key[node][p] < ask.key
    /\ \A p \in DOMAIN Key[node] : p > end => Key[node][p] > ask.key

\* binary_search returns "the position of the key, or of the entry which would
\* contain it": the last position whose key is not larger than the one asked
\* for, and -1, through a uint that wraps and an int, when there is none.
Floor ==
  location # None =>
    /\ location \in -1..(NumValues(node) - 1)
    /\ \A p \in DOMAIN Key[node] : Key[node][p] <= ask.key <=> p <= location + 1

\* The descent goes to the one child that can hold the key: the tree holds it
\* if and only if the node being searched has it under it.
OnPath ==
  ask # None => (ask.key \in KeysUnder(ask.root) <=> ask.key \in KeysUnder(node))

\* lookup returns a value exactly for the keys of the tree, and the value of
\* that key; it throws key_not_found only for a key that is not there.
Answers(a) ==
  CASE a.kind = "value" -> a.key = ask.key /\ ask.key \in KeysUnder(ask.root)
    [] a.kind = "key_not_found" -> ask.key \notin KeysUnder(ask.root)
    [] OTHER -> TRUE

AnswersRight == [][ask # None /\ ask' = None => Answers(answer')]_lookup_vars

\* Every lookup ends: the loop cannot turn for ever on a window of one key, and
\* the descent cannot stop in a non-leaf.
Answered == ask # None ~> ask = None
=============================================================================
