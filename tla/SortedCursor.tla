---------------------------- MODULE SortedCursor ----------------------------
(***************************************************************************)
(* What const_btree_node_iter promises its callers: each tree is a sorted  *)
(* set of keys, an iterator stands on a key or at the end, ++ takes it to  *)
(* the next larger key and -- to the next smaller one.  Nothing is said of *)
(* pages, paths or caches; BTreeIter implements this specification.        *)
(*                                                                         *)
(* An operation that has to read a page may throw.  begin() and end() then *)
(* leave the variable they were to be assigned to alone; ++ and -- leave   *)
(* the iterator without a position, never on a wrong one.                  *)
(***************************************************************************)
EXTENDS Integers

CONSTANTS
  Trees,    \* the trees of the store
  Entries,  \* Entries[t]: the keys of tree t
  Iters,    \* the iterators of the program
  End,      \* the position after the last key
  None      \* no position, or no operation in progress

VARIABLES
  cursor,   \* cursor[i]: the tree and position of iterator i, or None
  goal      \* the operation in progress: its iterator, where it will stand,
            \* and whether it moves the iterator itself; or None

vars == <<cursor, goal>>

Least(S) == CHOOSE k \in S : \A other \in S : k <= other
Greatest(S) == CHOOSE k \in S : \A other \in S : other <= k

FirstOf(S) == IF S = {} THEN End ELSE Least(S)
NextOf(S, k) == FirstOf({other \in S : other > k})
PrevOf(S, at) == Greatest(IF at = End THEN S ELSE {other \in S : other < at})

Init == cursor = [i \in Iters |-> None] /\ goal = None

Start(i, tree, at, moves) ==
  /\ goal = None
  /\ goal' = [iter |-> i, tree |-> tree, at |-> at, moves |-> moves]
  /\ UNCHANGED cursor

Begin(i) == \E t \in Trees : Start(i, t, FirstOf(Entries[t]), FALSE)

EndOf(i) == \E t \in Trees : Start(i, t, End, FALSE)

Increment(i) ==
  /\ cursor[i] # None /\ cursor[i].at # End
  /\ LET t == cursor[i].tree
     IN Start(i, t, NextOf(Entries[t], cursor[i].at), TRUE)

Decrement(i) ==
  /\ cursor[i] # None
  /\ LET t == cursor[i].tree
     IN /\ cursor[i].at # FirstOf(Entries[t])
        /\ Start(i, t, PrevOf(Entries[t], cursor[i].at), TRUE)

Copy(i, j) ==
  /\ goal = None
  /\ cursor' = [cursor EXCEPT ![i] = cursor[j]]
  /\ UNCHANGED goal

Return ==
  /\ goal # None
  /\ cursor' = [cursor EXCEPT ![goal.iter] = [tree |-> goal.tree, at |-> goal.at]]
  /\ goal' = None

Throw ==
  /\ goal # None
  /\ cursor' = IF goal.moves THEN [cursor EXCEPT ![goal.iter] = None] ELSE cursor
  /\ goal' = None

Answer == Return \/ Throw

Next ==
  \/ \E i \in Iters : Begin(i) \/ EndOf(i) \/ Increment(i) \/ Decrement(i)
  \/ \E i, j \in Iters : Copy(i, j)
  \/ Answer

\* The part of the specification that says what may happen.
Safe == Init /\ [][Next]_vars

\* Every operation is answered.
Answered == goal # None ~> goal = None

Spec == Safe /\ Answered
=============================================================================
