---------------------------- MODULE BTree_proof -----------------------------
(***************************************************************************)
(* Search and iteration in every well-formed forest of B-trees.            *)
(*                                                                         *)
(* Every lookup answers correctly.  The inductive invariant is the         *)
(* conjunction of the invariants of BTreeLookup: the loop keeps the key's  *)
(* place in its window, so that binary_search returns the floor of the     *)
(* key, so that the descent stays on the path to it.                       *)
(*                                                                         *)
(* The walk of the iterators is memory safe in every well-formed store:    *)
(* with any number of trees of any depth, any number of iterators, and any *)
(* read of a page failing, no position or path ever leads out of the tree. *)
(*                                                                         *)
(* Linked alone is not inductive: it does not say that the leaf pointer is *)
(* NULL while the operation is away from the leaves, that last, when it is *)
(* not called for end(), is called below the root and so finds a leaf with *)
(* entries, or that ++ starts short of the end.  Purpose does.             *)
(*                                                                         *)
(* On top of it the walk is right: the iterators are the cursors of        *)
(* SortedCursor, and two of them are equal exactly where they stand on the *)
(* same entry.  A path divides the entries of its tree into those to its   *)
(* left, those under its node and those to its right (PathsDivide), and    *)
(* AInv says which of these an operation in progress is to arrive at the   *)
(* least or the greatest of, so each member function call only has to move *)
(* one child's entries from one side of the path to the other.             *)
(***************************************************************************)
EXTENDS BTreeIter, BTreeLookup, WellFoundedInduction, TLAPS

-----------------------------------------------------------------------------
(***************************************************************************)
(* Lookups.                                                                *)
(***************************************************************************)

LookupInv == LookupTypeOK /\ Window /\ Floor /\ OnPath

\* (start + end) / 2 does not wrap for the sizes a page has, and lies in the window.
LEMMA MiddleInWindow ==
  ASSUME NEW n \in Nodes, NEW s \in Nat, NEW e \in Nat, s <= e, e <= NumValues(n)
  PROVE  /\ Middle(s, e) = (s + e) \div 2
         /\ Middle(s, e) \in 0..UintMax
         /\ s <= Middle(s, e)
         /\ Middle(s, e) <= e
         /\ s < e => Middle(s, e) < e
         /\ e \in 0..UintMax
<1>1. NumValues(n) \in Nat /\ 2 * NumValues(n) < UintMax /\ UintMax \in Nat
  BY NodesAssumption DEF NumValues
<1>2. s + e \in 0..UintMax
  BY <1>1
<1>3. (s + e) % (UintMax + 1) = s + e
  BY <1>1, <1>2
<1>4. /\ (s + e) \div 2 \in Nat
      /\ s <= (s + e) \div 2
      /\ (s + e) \div 2 <= e
      /\ s < e => (s + e) \div 2 < e
  OBVIOUS
<1>5. e \in 0..UintMax
  BY <1>1
<1> QED
  BY <1>1, <1>3, <1>4, <1>5 DEF Middle

\* A search that starts has the whole node as its window.
LEMMA StartsRight ==
  ASSUME NEW n \in Nodes, SearchNode(n), ask' # None, ask'.key \in Int
  PROVE  /\ start' \in 0..UintMax /\ end' \in 0..UintMax /\ mid' \in 0..UintMax
         /\ location' = None
         /\ Window' /\ Floor'
<1>1. /\ node' = n /\ start' = 0 /\ end' = NumValues(n)
      /\ mid' = Middle(0, NumValues(n)) /\ location' = None
  BY DEF SearchNode
<1>2. NumValues(n) \in Nat /\ UintMax \in Nat /\ DOMAIN Key[n] = 1..NumValues(n)
  BY NodesAssumption DEF NumValues
<1>3. /\ mid' = (0 + end') \div 2 /\ mid' \in 0..UintMax /\ end' \in 0..UintMax
  BY <1>1, <1>2, MiddleInWindow
<1>4. Window'
  <2>1. start' <= end' /\ end' <= NumValues(node')
    BY <1>1, <1>2
  <2>2. mid' = (start' + end') \div 2
    BY <1>1, <1>3
  <2>3. \A p \in DOMAIN Key[node'] : ~(p <= start') /\ ~(p > end')
    BY <1>1, <1>2
  <2> QED
    BY <2>1, <2>2, <2>3 DEF Window, NumValues
<1>5. Floor'
  BY <1>1 DEF Floor
<1> QED
  BY <1>1, <1>2, <1>3, <1>4, <1>5

\* The entries under a non-leaf are those under its children.
LEMMA KeysUnderNonLeaf ==
  ASSUME NEW n \in NonLeaves, NEW k
  PROVE  k \in KeysUnder(n) <=> \E p \in DOMAIN Kid[n] : k \in KeysUnder(Kid[n][p])
<1>1. Under[n] = UNION {Under[Kid[n][p]] : p \in DOMAIN Kid[n]}
  BY UnderAssumption
<1>2. \A m : k \in KeysUnder(m) <=> \E l \in Under[m] : \E q \in DOMAIN Key[l] : k = Key[l][q]
  BY DEF KeysUnder
<1> QED
  BY <1>1, <1>2

\* The entries under a leaf are its own keys.
LEMMA KeysUnderLeaf ==
  ASSUME NEW n \in Leaves, NEW k
  PROVE  k \in KeysUnder(n) <=> \E p \in DOMAIN Key[n] : k = Key[n][p]
  BY UnderAssumption DEF KeysUnder

\* Where the floor of a key is a child, only that child can hold the key; where
\* there is no floor, no child can.
LEMMA OnlyTheFloor ==
  ASSUME NEW n \in NonLeaves, NEW k \in Int, NEW at \in -1..(NumValues(n) - 1),
         \A p \in DOMAIN Key[n] : Key[n][p] <= k <=> p <= at + 1
  PROVE  /\ at = -1 => k \notin KeysUnder(n)
         /\ at # -1 => /\ at + 1 \in DOMAIN Kid[n]
                       /\ Kid[n][at + 1] \in Nodes
                       /\ k \in KeysUnder(n) <=> k \in KeysUnder(Kid[n][at + 1])
<1>1. /\ n \in Nodes /\ Len(Kid[n]) = NumValues(n) /\ NumValues(n) \in Nat
      /\ Kid[n] \in Seq(Nodes) /\ Key[n] \in Seq(Int)
  BY NodesAssumption, ShapeAssumption DEF NumValues, NonLeaves
<1>2. DOMAIN Kid[n] = 1..NumValues(n) /\ DOMAIN Key[n] = 1..NumValues(n)
  BY <1>1 DEF NumValues
<1>3. ASSUME NEW p \in DOMAIN Kid[n], k \in KeysUnder(Kid[n][p])
      PROVE  p = at + 1
  <2>1. /\ Key[n][p] <= k
        /\ \A q \in DOMAIN Kid[n] : p < q => k < Key[n][q]
    BY <1>3, OrderAssumption
  <2>2. \A q \in DOMAIN Key[n] : Key[n][q] \in Int
    BY <1>1
  <2>3. p <= at + 1
    BY <1>2, <2>1
  <2>4. ~(p < at + 1)
    <3>1. SUFFICES ASSUME p < at + 1 PROVE FALSE
      OBVIOUS
    <3>2. at + 1 \in DOMAIN Kid[n] /\ at + 1 \in DOMAIN Key[n]
      BY <1>1, <1>2, <3>1
    <3>3. k < Key[n][at + 1] /\ Key[n][at + 1] <= k
      BY <2>1, <3>1, <3>2
    <3> QED
      BY <2>2, <3>2, <3>3
  <2> QED
    BY <1>2, <2>3, <2>4
<1>4. at = -1 => k \notin KeysUnder(n)
  <2>1. at = -1 => at + 1 \notin DOMAIN Kid[n]
    BY <1>2
  <2> QED
    BY <1>3, <2>1, KeysUnderNonLeaf
<1>5. at # -1 => at + 1 \in DOMAIN Kid[n] /\ Kid[n][at + 1] \in Nodes
  BY <1>1, <1>2
<1> QED
  BY <1>3, <1>4, <1>5, KeysUnderNonLeaf

-----------------------------------------------------------------------------

LEMMA LookupInitInv == LookupInit => LookupInv
<1> SUFFICES ASSUME LookupInit PROVE LookupInv
  OBVIOUS
<1>1. LookupTypeOK
  BY NodesAssumption DEF LookupInit, LookupTypeOK
<1>2. Window /\ Floor /\ OnPath
  BY DEF LookupInit, Window, Searching, Floor, OnPath
<1> QED
  BY <1>1, <1>2 DEF LookupInv

\* A turn of the loop keeps the key's place in a window that shrinks.
LEMMA LoopInv ==
  ASSUME LookupInv, Less \/ Greater
  PROVE  LookupInv'
<1> DEFINE n == NumValues(node)
<1>1. /\ ask # None /\ location = None /\ mid < end
      /\ ask' = ask /\ location' = None /\ node' = node /\ held' = held /\ answer' = answer
  BY DEF Less, Greater, Searching
<1>2. /\ ask.key \in Int /\ node \in Nodes
      /\ start \in Nat /\ end \in Nat /\ mid \in Nat
  BY <1>1, LookupAssumption, NodesAssumption DEF LookupInv, LookupTypeOK
<1>3. /\ n \in Nat /\ DOMAIN Key[node] = 1..n
      /\ \A p \in 1..n : Key[node][p] \in Int
  BY <1>2, NodesAssumption DEF NumValues
<1>4. /\ start <= end /\ end <= n
      /\ \A p \in 1..n : p <= start => Key[node][p] < ask.key
      /\ \A p \in 1..n : p > end => Key[node][p] > ask.key
  BY <1>1, <1>3 DEF LookupInv, Window, Searching
<1>5. start <= mid
  BY <1>1, <1>2 DEF LookupInv, Window, Searching
<1>6. \A p, q \in 1..n : p < q => Key[node][p] < Key[node][q]
  BY <1>2, <1>3, OrderAssumption
<1>7. mid + 1 \in 1..n
  BY <1>1, <1>2, <1>3, <1>4
<1>8. CASE Less
  <2>1. start' = mid + 1 /\ end' = end /\ mid' = Middle(mid + 1, end)
        /\ Key[node][mid + 1] < ask.key
    BY <1>8 DEF Less, Probed
  <2>2. mid + 1 \in Nat /\ mid + 1 <= end
    BY <1>1, <1>2
  <2>3. /\ mid' = (start' + end') \div 2 /\ mid' \in 0..UintMax
        /\ start' \in 0..UintMax
    <3>1. Middle(mid + 1, end) = (mid + 1 + end) \div 2 /\ Middle(mid + 1, end) \in 0..UintMax
      BY <1>2, <1>4, <2>2, MiddleInWindow
    <3>2. end \in 0..UintMax /\ UintMax \in Nat
      BY NodesAssumption DEF LookupInv, LookupTypeOK
    <3> QED
      BY <1>2, <2>1, <2>2, <3>1, <3>2
  <2>4. \A p \in 1..n : p <= start' => Key[node][p] < ask.key
    BY <1>2, <1>3, <1>6, <1>7, <2>1
  <2>5. Window'
    BY <1>1, <1>3, <1>4, <2>1, <2>2, <2>3, <2>4 DEF Window, NumValues
  <2> QED
    BY <1>1, <2>1, <2>3, <2>5 DEF LookupInv, LookupTypeOK, Floor, OnPath, KeysUnder
<1>9. CASE Greater
  <2>1. start' = start /\ end' = mid /\ mid' = Middle(start, mid)
        /\ Key[node][mid + 1] > ask.key
    BY <1>9 DEF Greater, Probed
  <2>2. mid <= n
    BY <1>2, <1>3, <1>7
  <2>3. /\ mid' = (start' + end') \div 2 /\ mid' \in 0..UintMax
        /\ end' \in 0..UintMax
    BY <1>2, <1>5, <2>1, <2>2, MiddleInWindow DEF LookupInv, LookupTypeOK
  <2>4. \A p \in 1..n : p > end' => Key[node][p] > ask.key
    BY <1>2, <1>3, <1>6, <1>7, <2>1
  <2>5. Window'
    BY <1>1, <1>3, <1>4, <1>5, <2>1, <2>2, <2>3, <2>4 DEF Window, NumValues
  <2> QED
    BY <1>1, <2>1, <2>3, <2>5 DEF LookupInv, LookupTypeOK, Floor, OnPath, KeysUnder
<1> QED
  BY <1>8, <1>9

\* The loop ends at the floor of the key.
LEMMA LoopEnd ==
  ASSUME LookupInv, Same \/ Exhausted
  PROVE  LookupInv'
<1> DEFINE n == NumValues(node)
<1>1. /\ ask # None /\ location = None
      /\ ask' = ask /\ node' = node /\ held' = held /\ answer' = answer
      /\ start' = start /\ end' = end /\ mid' = mid
  BY DEF Same, Exhausted, Searching, search
<1>2. /\ ask.key \in Int /\ node \in Nodes
      /\ start \in Nat /\ end \in Nat /\ mid \in Nat
  BY <1>1, LookupAssumption, NodesAssumption DEF LookupInv, LookupTypeOK
<1>3. /\ n \in Nat /\ DOMAIN Key[node] = 1..n /\ 2 * n < UintMax /\ UintMax \in Nat
      /\ \A p \in 1..n : Key[node][p] \in Int
  BY <1>2, NodesAssumption DEF NumValues
<1>4. /\ start <= end /\ end <= n /\ mid = (start + end) \div 2
      /\ \A p \in 1..n : p <= start => Key[node][p] < ask.key
      /\ \A p \in 1..n : p > end => Key[node][p] > ask.key
  BY <1>1, <1>3 DEF LookupInv, Window, Searching
<1>5. \A p, q \in 1..n : p < q => Key[node][p] < Key[node][q]
  BY <1>2, <1>3, OrderAssumption
<1>6. /\ location' \in -1..(n - 1)
      /\ \A p \in 1..n : Key[node][p] <= ask.key <=> p <= location' + 1
  <2>1. CASE Same
    <3>1. location' = mid /\ mid < end /\ Key[node][mid + 1] = ask.key
      BY <2>1 DEF Same, Probed
    <3>2. mid + 1 \in 1..n
      BY <1>2, <1>3, <1>4, <3>1
    <3> QED
      BY <1>2, <1>3, <1>5, <3>1, <3>2
  <2>2. CASE Exhausted
    <3>1. mid >= end /\ location' = AsInt(Dec(mid))
      BY <2>2 DEF Exhausted
    <3>2. start = end /\ mid = end
      BY <1>2, <1>4, <3>1
    <3>3. location' = mid - 1
      <4>1. CASE mid = 0
        <5>1. Dec(mid) = UintMax /\ UintMax > UintMax \div 2
          BY <1>3, <4>1 DEF Dec
        <5> QED
          BY <1>3, <3>1, <4>1, <5>1 DEF AsInt
      <4>2. CASE mid # 0
        <5>1. Dec(mid) = mid - 1 /\ ~(mid - 1 > UintMax \div 2)
          BY <1>2, <1>3, <1>4, <3>2, <4>2 DEF Dec
        <5> QED
          BY <3>1, <5>1 DEF AsInt
      <4> QED
        BY <4>1, <4>2
    <3> QED
      BY <1>2, <1>3, <1>4, <3>2, <3>3
  <2> QED
    BY <2>1, <2>2
<1>7. location' # None
  BY <1>3, <1>6, LookupAssumption
<1>8. Floor'
  BY <1>1, <1>3, <1>6 DEF Floor, NumValues
<1>9. LookupTypeOK'
  BY <1>1, <1>3, <1>6 DEF LookupInv, LookupTypeOK
<1> QED
  BY <1>1, <1>7, <1>8, <1>9 DEF LookupInv, Window, Searching, OnPath, KeysUnder

\* A lookup starts, or goes down to the one child that can hold the key.
LEMMA DescentInv ==
  ASSUME LookupInv, NEW n \in Nodes, SearchNode(n),
         ask' # None, ask' \in [root : Roots, key : Asked],
         held' \in [Nodes -> BOOLEAN], answer' \in {answer, None},
         ask'.key \in KeysUnder(ask'.root) <=> ask'.key \in KeysUnder(n)
  PROVE  LookupInv'
<1>1. /\ start' \in 0..UintMax /\ end' \in 0..UintMax /\ mid' \in 0..UintMax
      /\ location' = None /\ Window' /\ Floor'
  BY StartsRight, LookupAssumption
<1>2. node' = n
  BY DEF SearchNode
<1> QED
  BY <1>1, <1>2 DEF LookupInv, LookupTypeOK, OnPath, KeysUnder

\* A lookup that ends leaves nothing to be true of the search.
LEMMA FinishInv ==
  ASSUME LookupInv, NEW a \in [kind : {"key_not_found", "failed", "value"}, key : Int],
         Finish(a), held' = held
  PROVE  LookupInv'
  BY DEF Finish, search, LookupInv, LookupTypeOK, Window, Searching, Floor, OnPath

\* What the caller of binary_search knows when it has the location.
LEMMA AtLocation ==
  ASSUME LookupInv, ask # None, location # None
  PROVE  /\ node \in Nodes /\ ask \in [root : Roots, key : Asked] /\ ask.key \in Int
         /\ location \in -1..(NumValues(node) - 1)
         /\ \A p \in DOMAIN Key[node] : Key[node][p] <= ask.key <=> p <= location + 1
         /\ ask.key \in KeysUnder(ask.root) <=> ask.key \in KeysUnder(node)
  BY LookupAssumption DEF LookupInv, LookupTypeOK, Floor, OnPath

LEMMA LookupStepInv == LookupInv /\ [LookupNext]_lookup_vars => LookupInv'
<1> SUFFICES ASSUME LookupInv, [LookupNext]_lookup_vars PROVE LookupInv'
  OBVIOUS
<1>1. ASSUME NEW r \in Roots, NEW k \in Asked, Lookup(r, k)
      PROVE  LookupInv'
  <2>1. /\ ask' = [root |-> r, key |-> k] /\ answer' = None /\ held' = held /\ SearchNode(r)
    BY <1>1 DEF Lookup
  <2>2. ask' \in [root : Roots, key : Asked] /\ ask' # None /\ r \in Nodes
    BY <2>1, LookupAssumption, NodesAssumption
  <2> QED
    BY <2>1, <2>2, DescentInv DEF LookupInv, LookupTypeOK
<1>2. CASE Less \/ Greater
  BY <1>2, LoopInv
<1>3. CASE Same \/ Exhausted
  BY <1>3, LoopEnd
<1>4. CASE LeafLookup
  <2> DEFINE a == IF location = -1 \/ Key[node][location + 1] # ask.key
                    THEN NotFound ELSE Value(Key[node][location + 1])
  <2>1. /\ ask # None /\ location # None /\ Finish(a) /\ held' = held
    BY <1>4 DEF LeafLookup, Located
  <2>2. a \in [kind : {"key_not_found", "failed", "value"}, key : Int]
    BY <2>1, AtLocation DEF NotFound, Value
  <2> HIDE DEF a
  <2> QED
    BY <2>1, <2>2, FinishInv
<1>5. CASE NonLeafNone
  <2>1. NotFound \in [kind : {"key_not_found", "failed", "value"}, key : Int]
    BY DEF NotFound
  <2> QED
    BY <1>5, <2>1, FinishInv DEF NonLeafNone
<1>6. CASE NonLeafChild
  <2> DEFINE c == Kid[node][location + 1]
  <2>1. /\ ask # None /\ location # None /\ node \in NonLeaves /\ location # -1
        /\ ask' = ask /\ answer' = answer
        /\ held' = [held EXCEPT ![c] = TRUE] /\ SearchNode(c)
    BY <1>6 DEF NonLeafChild, Located
  <2>2. c \in Nodes /\ (ask.key \in KeysUnder(node) <=> ask.key \in KeysUnder(c))
    BY <2>1, AtLocation, OnlyTheFloor
  <2>3. held' \in [Nodes -> BOOLEAN]
    BY <2>1 DEF LookupInv, LookupTypeOK
  <2>4. /\ ask' # None /\ ask' \in [root : Roots, key : Asked]
        /\ ask'.key \in KeysUnder(ask'.root) <=> ask'.key \in KeysUnder(c)
    <3>1. ask'.key \in KeysUnder(ask.root) <=> ask'.key \in KeysUnder(c)
      BY <2>1, <2>2, AtLocation
    <3> QED
      BY <2>1, <3>1, AtLocation
  <2> HIDE DEF c
  <2> QED
    BY <2>1, <2>2, <2>3, <2>4, DescentInv
<1>7. CASE NonLeafFails
  <2>1. Failed \in [kind : {"key_not_found", "failed", "value"}, key : Int]
    BY DEF Failed
  <2> QED
    BY <1>7, <2>1, FinishInv DEF NonLeafFails
<1>8. CASE UNCHANGED lookup_vars
  BY <1>8 DEF lookup_vars, LookupInv, LookupTypeOK, Window, Searching, Floor, OnPath, KeysUnder, NumValues
<1> QED
  BY <1>1, <1>2, <1>3, <1>4, <1>5, <1>6, <1>7, <1>8 DEF LookupNext, LookupStep

-----------------------------------------------------------------------------

\* A lookup that ends in a state of the invariant gives the right answer.
LEMMA AnswerRight ==
  ASSUME LookupInv, [LookupNext]_lookup_vars, ask # None, ask' = None
  PROVE  Answers(answer')
<1>1. CASE LeafLookup
  <2>1. /\ location # None /\ node \in Leaves
        /\ answer' = IF location = -1 \/ Key[node][location + 1] # ask.key
                       THEN NotFound ELSE Value(Key[node][location + 1])
    BY <1>1 DEF LeafLookup, Located, Finish
  <2>2. /\ location \in -1..(NumValues(node) - 1) /\ node \in Nodes /\ ask.key \in Int
        /\ \A p \in DOMAIN Key[node] : Key[node][p] <= ask.key <=> p <= location + 1
        /\ ask.key \in KeysUnder(ask.root) <=> ask.key \in KeysUnder(node)
    BY <2>1, AtLocation
  <2>3. /\ NumValues(node) \in Nat /\ DOMAIN Key[node] = 1..NumValues(node)
        /\ \A p \in DOMAIN Key[node] : Key[node][p] \in Int
        /\ \A p, q \in DOMAIN Key[node] : p < q => Key[node][p] < Key[node][q]
    BY <2>2, NodesAssumption, OrderAssumption DEF NumValues
  <2>4. ask.key \in KeysUnder(ask.root) <=> \E p \in DOMAIN Key[node] : ask.key = Key[node][p]
    BY <2>1, <2>2, KeysUnderLeaf
  <2>5. CASE location = -1 \/ Key[node][location + 1] # ask.key
    <3>1. answer'.kind = "key_not_found"
      BY <2>1, <2>5 DEF NotFound
    <3>2. \A p \in DOMAIN Key[node] : ask.key # Key[node][p]
      <4>1. SUFFICES ASSUME NEW p \in DOMAIN Key[node], ask.key = Key[node][p]
                     PROVE  p = location + 1 /\ location # -1
        BY <2>5
      <4>2. p <= location + 1 /\ p \in 1..NumValues(node)
        BY <2>2, <2>3, <4>1
      <4>3. location + 1 \in DOMAIN Key[node]
        BY <2>2, <2>3, <4>2
      <4>4. Key[node][location + 1] <= ask.key
        BY <2>2, <4>3
      <4> QED
        BY <2>2, <2>3, <4>1, <4>2, <4>3, <4>4
    <3> QED
      BY <2>4, <3>1, <3>2 DEF Answers
  <2>6. CASE location # -1 /\ Key[node][location + 1] = ask.key
    <3>1. answer'.kind = "value" /\ answer'.key = ask.key
      BY <2>1, <2>6 DEF Value
    <3>2. location + 1 \in DOMAIN Key[node]
      BY <2>2, <2>3, <2>6
    <3> QED
      BY <2>4, <2>6, <3>1, <3>2 DEF Answers
  <2> QED
    BY <2>5, <2>6
<1>2. CASE NonLeafNone
  <2>1. /\ location = -1 /\ location # None /\ node \in NonLeaves
        /\ answer'.kind = "key_not_found"
    BY <1>2 DEF NonLeafNone, Located, Finish, NotFound
  <2>2. ask.key \notin KeysUnder(ask.root)
    BY <2>1, AtLocation, OnlyTheFloor
  <2> QED
    BY <2>1, <2>2 DEF Answers
<1>3. CASE NonLeafFails
  BY <1>3 DEF NonLeafFails, Finish, Failed, Answers
<1>4. CASE Less \/ Greater \/ Same \/ Exhausted \/ NonLeafChild \/ UNCHANGED lookup_vars
  BY <1>4 DEF Less, Greater, Same, Exhausted, NonLeafChild, lookup_vars
<1>5. CASE \E r \in Roots, k \in Asked : Lookup(r, k)
  BY <1>5 DEF Lookup
<1> QED
  BY <1>1, <1>2, <1>3, <1>4, <1>5 DEF LookupNext, LookupStep

\* The invariants hold in every reachable state, for every well-formed store.
LEMMA LookupInvariance == LookupSpec => []LookupInv
  BY LookupInitInv, LookupStepInv, PTL DEF LookupSpec

\* Type correctness of the search: its uints stay in range.
THEOREM LookupTypeCorrect == LookupSpec => []LookupTypeOK
<1>1. LookupInv => LookupTypeOK
  BY DEF LookupInv
<1> QED
  BY <1>1, LookupInvariance, PTL

\* binary_search never reads a key out of bounds: the probed position is inside
\* the window and the window inside the node.
THEOREM SearchInWindow == LookupSpec => []Window
<1>1. LookupInv => Window
  BY DEF LookupInv
<1> QED
  BY <1>1, LookupInvariance, PTL

\* binary_search returns the last position with a key not larger than the one
\* asked for, or -1.
THEOREM SearchFindsFloor == LookupSpec => []Floor
<1>1. LookupInv => Floor
  BY DEF LookupInv
<1> QED
  BY <1>1, LookupInvariance, PTL

\* The descent of lookup never leaves the path to the key.
THEOREM DescentOnPath == LookupSpec => []OnPath
<1>1. LookupInv => OnPath
  BY DEF LookupInv
<1> QED
  BY <1>1, LookupInvariance, PTL

\* lookup returns the value of the key exactly when the tree holds the key, and
\* throws key_not_found only when it does not.
THEOREM LookupAnswersRight == LookupSpec => AnswersRight
<1>1. LookupInv /\ [LookupNext]_lookup_vars => [ask # None /\ ask' = None => Answers(answer')]_lookup_vars
  BY AnswerRight
<1> QED
  BY <1>1, LookupInvariance, PTL DEF LookupSpec, AnswersRight

\* What a step of a lookup does that cannot be done for ever: the window of the
\* search gets smaller, the search ends, or the lookup goes from a node to one of
\* its children.
Advances ==
  \/ /\ node' = node /\ location = None /\ location' = None
     /\ end - start \in Nat /\ end' - start' \in Nat /\ end' - start' < end - start
  \/ node' = node /\ location = None /\ location' # None
  \/ /\ node \in NonLeaves /\ location # None /\ location' = None
     /\ \E p \in DOMAIN Kid[node] : node' = Kid[node][p]

LEMMA WindowShrinks ==
  ASSUME LookupInv, Less \/ Greater
  PROVE  /\ end - start \in Nat /\ end' - start' \in Nat
         /\ end' - start' < end - start
<1>1. Searching /\ mid < end /\ ask # None
  BY DEF Less, Greater, Searching
<1>2. start \in Nat /\ end \in Nat /\ start <= end /\ mid = (start + end) \div 2
  BY <1>1, NodesAssumption DEF LookupInv, LookupTypeOK, Window
<1>3. mid \in Nat /\ start <= mid
  BY <1>2
<1>4. CASE Less
  BY <1>1, <1>2, <1>3, <1>4 DEF Less
<1>5. CASE Greater
  BY <1>1, <1>2, <1>3, <1>5 DEF Greater
<1> QED
  BY <1>4, <1>5

LEMMA StepAdvances ==
  ASSUME LookupInv, [LookupNext]_lookup_vars, ask # None, ~UNCHANGED lookup_vars
  PROVE  ask' = None \/ (ask' = ask /\ Advances)
<1>1. CASE Less \/ Greater
  <2>1. ask' = ask /\ node' = node /\ location = None /\ location' = None
    BY <1>1 DEF Less, Greater, Searching
  <2> QED
    BY <1>1, <2>1, WindowShrinks DEF Advances
<1>2. CASE Same \/ Exhausted
  <2>1. ask' = ask /\ node' = node /\ location = None
    BY <1>2 DEF Same, Exhausted, Searching
  <2>2. mid \in Int /\ UintMax \in Int /\ Dec(mid) \in Int
    BY NodesAssumption DEF LookupInv, LookupTypeOK, Dec
  <2>3. location' \in Int
    BY <1>2, <2>2 DEF Same, Exhausted, AsInt
  <2> QED
    BY <2>1, <2>3, LookupAssumption DEF Advances
<1>3. CASE NonLeafChild
  <2>1. /\ ask' = ask /\ location # None /\ node \in NonLeaves /\ location # -1
        /\ node' = Kid[node][location + 1] /\ location' = None
    BY <1>3 DEF NonLeafChild, Located, SearchNode
  <2>2. node \in Nodes /\ location \in -1..(NumValues(node) - 1)
    BY <2>1, AtLocation
  <2>3. location + 1 \in DOMAIN Kid[node]
    BY <2>1, <2>2, NodesAssumption, ShapeAssumption DEF NumValues
  <2> QED
    BY <2>1, <2>3 DEF Advances
<1>4. CASE LeafLookup \/ NonLeafNone \/ NonLeafFails
  BY <1>4 DEF LeafLookup, NonLeafNone, NonLeafFails, Finish
<1>5. CASE \E r \in Roots, k \in Asked : Lookup(r, k)
  BY <1>5 DEF Lookup
<1> QED
  BY <1>1, <1>2, <1>3, <1>4, <1>5 DEF LookupNext, LookupStep

\* No turn of binary_search and no descent is for nothing: each step of a lookup
\* ends it, goes to a child, ends the search of a node or leaves it a smaller
\* window.  In a tree of finite height that is all of Answered but its fairness.
THEOREM LookupAdvances ==
  LookupSpec => [][ask # None => ask' = None \/ (ask' = ask /\ Advances)]_lookup_vars
<1>1. LookupInv /\ [LookupNext]_lookup_vars =>
        [ask # None => ask' = None \/ (ask' = ask /\ Advances)]_lookup_vars
  BY StepAdvances
<1> QED
  BY <1>1, LookupInvariance, PTL DEF LookupSpec

-----------------------------------------------------------------------------
(***************************************************************************)
(* Iterators.                                                              *)
(***************************************************************************)

Purpose ==
  call # Idle =>
    /\ call.op = "begin" => call.frame = "first"
    /\ call.op = "end" => call.frame = "last"
    /\ call.op = "increment" => call.frame \in {"first", "next"}
    /\ call.op = "decrement" => call.frame \in {"last", "prev"}
    /\ call.frame \in {"first", "last"} \/ call.node \in NonLeaves => impl.leaf = NULL
    /\ call.op = "decrement" /\ call.frame = "last" => impl.path # <<>>
    /\ call.frame = "next" /\ call.node \in Leaves => impl.pos < NumValues(call.node)

Inv == TypeOK /\ Linked /\ Purpose

-----------------------------------------------------------------------------
(***************************************************************************)
(* Paths.                                                                  *)
(***************************************************************************)

LEMMA Sizes ==
  ASSUME NEW n \in Nodes
  PROVE  NumValues(n) \in Nat /\ 2 * NumValues(n) < UintMax /\ UintMax \in Nat
BY NodesAssumption DEF NumValues

\* A non-leaf has a child at each of its positions, and no child is a root.
LEMMA Children ==
  ASSUME NEW n \in NonLeaves, NEW pos \in Nat, pos < NumValues(n)
  PROVE  Kid[n][pos + 1] \in Nodes /\ Kid[n][pos + 1] \notin Roots
<1>1. n \in Nodes /\ Kid[n] \in Seq(Nodes) /\ Len(Kid[n]) = NumValues(n) /\ NumValues(n) \in Nat
  BY NodesAssumption, ShapeAssumption DEF NonLeaves, NumValues
<1>2. pos + 1 \in DOMAIN Kid[n]
  BY <1>1
<1> QED
  BY <1>1, <1>2, ShapeAssumption

\* One more step down.
LEMMA LeadsToAppend ==
  ASSUME NEW path \in Seq(PathStep), NEW step \in PathStep,
         step.ptr.node \in NonLeaves, step.pos < NumValues(step.ptr.node),
         LeadsTo(path, step.ptr.node)
  PROVE  LeadsTo(Append(path, step), Kid[step.ptr.node][step.pos + 1])
<1> DEFINE new == Append(path, step)
<1>1. /\ Len(path) \in Nat /\ Len(new) = Len(path) + 1
      /\ DOMAIN path = 1..Len(path) /\ DOMAIN new = 1..(Len(path) + 1)
      /\ new[Len(path) + 1] = step
      /\ \A d \in 1..Len(path) : new[d] = path[d]
  OBVIOUS
<1> HIDE DEF new
<1>2. ASSUME NEW d \in DOMAIN new
      PROVE  /\ new[d].ptr.node \in NonLeaves
             /\ new[d].pos < NumValues(new[d].ptr.node)
             /\ (IF d = Len(new) THEN Kid[step.ptr.node][step.pos + 1]
                                 ELSE new[d + 1].ptr.node)
                  = Kid[new[d].ptr.node][new[d].pos + 1]
  <2>1. CASE d = Len(path) + 1
    BY <1>1, <2>1
  <2>2. CASE d = Len(path) /\ d # 0
    <3>1. d \in DOMAIN path /\ new[d] = path[d] /\ new[d + 1] = step /\ d # Len(new)
      <4>1. d + 1 = Len(path) + 1
        BY <2>2
      <4>2. Len(path) \in Nat /\ Len(path) # 0
        BY <1>1, <2>2
      <4>3. Len(path) \in 1..Len(path) /\ Len(path) # Len(path) + 1
        BY <4>2
      <4> QED
        BY <1>1, <2>2, <4>1, <4>3
    <3>2. /\ path[d].ptr.node \in NonLeaves
          /\ path[d].pos < NumValues(path[d].ptr.node)
          /\ step.ptr.node = Kid[path[d].ptr.node][path[d].pos + 1]
      BY <2>2, <3>1 DEF LeadsTo
    <3> QED
      BY <3>1, <3>2
  <2>3. CASE d < Len(path)
    <3>1. d \in DOMAIN path /\ new[d] = path[d] /\ new[d + 1] = path[d + 1] /\ d # Len(new) /\ d # Len(path)
      BY <1>1, <1>2, <2>3
    <3>2. /\ path[d].ptr.node \in NonLeaves
          /\ path[d].pos < NumValues(path[d].ptr.node)
          /\ path[d + 1].ptr.node = Kid[path[d].ptr.node][path[d].pos + 1]
      BY <3>1 DEF LeadsTo
    <3> QED
      BY <3>1, <3>2
  <2> QED
    BY <1>1, <1>2, <2>1, <2>2, <2>3
<1>3. new # <<>> /\ new[1].ptr.node \in Roots
  BY <1>1 DEF LeadsTo
<1>4. LeadsTo(new, Kid[step.ptr.node][step.pos + 1])
  BY <1>2, <1>3 DEF LeadsTo
<1> QED
  BY <1>4 DEF new

\* Without its last step a path leads to the node it was last at.
LEMMA LeadsToFront ==
  ASSUME NEW path \in Seq(PathStep), path # <<>>, NEW n, LeadsTo(path, n)
  PROVE  /\ Front(path) \in Seq(PathStep) /\ Back(path) \in PathStep
         /\ LeadsTo(Front(path), Back(path).ptr.node)
         /\ Back(path).ptr.node \in NonLeaves
         /\ Back(path).pos < NumValues(Back(path).ptr.node)
         /\ n = Kid[Back(path).ptr.node][Back(path).pos + 1]
<1> DEFINE front == Front(path)
<1>1. /\ Len(path) \in Nat \ {0} /\ DOMAIN path = 1..Len(path)
      /\ front \in Seq(PathStep) /\ Len(front) = Len(path) - 1
      /\ DOMAIN front = 1..(Len(path) - 1)
      /\ \A d \in 1..(Len(path) - 1) : front[d] = path[d]
  BY DEF Front
<1>2. Back(path) \in PathStep /\ Back(path) = path[Len(path)]
  BY <1>1 DEF Back
<1>3. ASSUME NEW d \in DOMAIN front
      PROVE  LET at == front[d].ptr.node
                 below == IF d = Len(front) THEN Back(path).ptr.node
                                            ELSE front[d + 1].ptr.node
             IN /\ at \in NonLeaves
                /\ front[d].pos < NumValues(at)
                /\ below = Kid[at][front[d].pos + 1]
  <2>1. CASE d = Len(path) - 1
    BY <1>1, <1>2, <2>1 DEF LeadsTo
  <2>2. CASE d < Len(path) - 1
    BY <1>1, <1>3, <2>2 DEF LeadsTo
  <2> QED
    BY <1>1, <1>3, <2>1, <2>2
<1>4. (IF front = <<>> THEN Back(path).ptr.node ELSE front[1].ptr.node) \in Roots
  <2>1. path[1].ptr.node \in Roots
    BY DEF LeadsTo
  <2>2. CASE Len(path) = 1
    BY <1>1, <1>2, <2>1, <2>2
  <2>3. CASE Len(path) > 1
    BY <1>1, <2>1, <2>3
  <2> QED
    BY <1>1, <2>2, <2>3
<1>5. LeadsTo(front, Back(path).ptr.node)
  <2> HIDE DEF front
  <2> QED
    BY <1>3, <1>4 DEF LeadsTo
<1>6. /\ Back(path).ptr.node \in NonLeaves
      /\ Back(path).pos < NumValues(Back(path).ptr.node)
      /\ n = Kid[Back(path).ptr.node][Back(path).pos + 1]
  BY <1>1, <1>2 DEF LeadsTo
<1> QED
  BY <1>1, <1>2, <1>5, <1>6

\* The last step of a path may move to any position of its node.
LEMMA LeadsToMove ==
  ASSUME NEW path \in Seq(PathStep), path # <<>>,
         LeadsTo(Front(path), Back(path).ptr.node), Back(path).ptr.node \in NonLeaves,
         NEW pos \in 0..UintMax, pos < NumValues(Back(path).ptr.node)
  PROVE  /\ MoveTo(path, pos) \in Seq(PathStep) /\ MoveTo(path, pos) # <<>>
         /\ LeadsTo(MoveTo(path, pos), Kid[Back(path).ptr.node][pos + 1])
<1> DEFINE step == [Back(path) EXCEPT !.pos = pos]
<1>1. Front(path) \in Seq(PathStep) /\ Back(path) \in PathStep
  BY DEF Front, Back
<1>2. /\ step \in PathStep /\ step.ptr = Back(path).ptr /\ step.pos = pos
      /\ MoveTo(path, pos) = Append(Front(path), step)
  BY <1>1 DEF PathStep, MoveTo
<1> HIDE DEF step
<1> QED
  BY <1>1, <1>2, LeadsToAppend

-----------------------------------------------------------------------------
(***************************************************************************)
(* What each way for a member function to go on keeps true.                *)
(***************************************************************************)

\* The frame that belongs to an operation on its way down.
DownFrame(op) == IF op \in {"begin", "increment"} THEN "first" ELSE "last"

LEMMA ReturnInv ==
  ASSUME Inv, call \in Call, NEW m, Return(m),
         NEW placed \in Impl, WellPlaced(placed),
         placed = IF call.op = "end" THEN [m EXCEPT !.pos = Inc(@)] ELSE m
  PROVE  Inv'
<1>1. /\ it' = [it EXCEPT ![call.iter] = placed] /\ call' = Idle
      /\ impl' = NoImpl /\ slot' = slot
  BY DEF Return
<1>2. /\ it \in [Iters -> Impl] /\ call.iter \in Iters
      /\ \A i \in Iters : it'[i] = IF i = call.iter THEN placed ELSE it[i]
  BY <1>1 DEF Inv, TypeOK, Call
<1>3. TypeOK'
  <2>1. NoImpl \in Impl
    BY NodesAssumption DEF NoImpl, Impl
  <2> QED
    BY <1>1, <1>2, <2>1 DEF Inv, TypeOK
<1>4. Linked'
  <2>1. \A i \in Iters : WellPlaced(it'[i])
    BY <1>2 DEF Inv, Linked
  <2> QED
    BY <1>1, <2>1 DEF Linked, WellPlaced
<1> QED
  BY <1>1, <1>3, <1>4 DEF Inv, Purpose

LEMMA ThrowInv ==
  ASSUME Inv, call \in Call, NEW m \in Impl, m.leaf = NULL, Throw(m)
  PROVE  Inv'
<1>1. /\ call' = Idle /\ impl' = NoImpl /\ slot' = slot
      /\ it' = IF call.op \in {"increment", "decrement"}
                 THEN [it EXCEPT ![call.iter] = m] ELSE it
  BY DEF Throw
<1>2. /\ it \in [Iters -> Impl] /\ call.iter \in Iters
      /\ \A i \in Iters : it'[i] \in {it[i], m}
  BY <1>1 DEF Inv, TypeOK, Call
<1>3. TypeOK'
  <2>1. NoImpl \in Impl
    BY NodesAssumption DEF NoImpl, Impl
  <2> QED
    BY <1>1, <1>2, <2>1 DEF Inv, TypeOK
<1>4. Linked'
  <2>1. WellPlaced(m)
    BY DEF WellPlaced
  <2>2. \A i \in Iters : WellPlaced(it'[i])
    BY <1>2, <2>1 DEF Inv, Linked
  <2> QED
    BY <1>1, <2>2 DEF Linked, WellPlaced
<1> QED
  BY <1>1, <1>3, <1>4 DEF Inv, Purpose

LEMMA DescendInv ==
  ASSUME Inv, call \in Call, NEW n \in NonLeaves, NEW pos \in Nat, pos < NumValues(n),
         NEW m \in Impl, m.leaf = NULL, m.path # <<>>, LeadsTo(m.path, Kid[n][pos + 1]),
         Descend(n, pos, DownFrame(call.op), m)
  PROVE  Inv'
<1> DEFINE c == Kid[n][pos + 1]
           frame == DownFrame(call.op)
<1>1. c \in Nodes
  BY Children
<1>2. CASE slot[c] = 0 /\ Throw(m)
  BY <1>2, ThrowInv
<1>3. CASE /\ GetChild(c)
           /\ call' = [call EXCEPT !.frame = frame, !.node = c]
           /\ impl' = m
           /\ UNCHANGED <<it, goal>>
  <2>1. /\ call' \in Call /\ call' # Idle /\ call'.frame = frame /\ call'.node = c
        /\ call'.op = call.op /\ call.op \in {"begin", "end", "increment", "decrement"}
        /\ frame \in {"first", "last"}
    BY <1>1, <1>3 DEF Call, Idle, DownFrame
  <2>2. TypeOK'
    BY <1>3, <2>1 DEF Inv, TypeOK, GetChild
  <2>3. Linked'
    <3>1. \A i \in Iters : WellPlaced(it'[i])
      BY <1>3 DEF Inv, Linked
    <3>2. LeadsTo(impl'.path, call'.node)
      BY <1>3, <2>1
    <3>3. call'.frame \in {"first", "last"}
      BY <2>1
    <3> QED
      BY <3>1, <3>2, <3>3 DEF Linked
  <2>4. Purpose'
    BY <1>3, <2>1 DEF Purpose, DownFrame
  <2> QED
    BY <2>2, <2>3, <2>4 DEF Inv
<1> QED
  BY <1>2, <1>3 DEF Descend

LEMMA AscendInv ==
  ASSUME Inv, call \in Call, NEW m \in Impl, m.leaf = NULL, m.path # <<>>,
         LeadsTo(Front(m.path), Back(m.path).ptr.node),
         Back(m.path).ptr.node \in NonLeaves,
         Back(m.path).pos < NumValues(Back(m.path).ptr.node),
         call.frame \in {"next", "prev"},
         Ascend(call.frame, m)
  PROVE  Inv'
<1> DEFINE n == Back(m.path).ptr.node
<1>1. n \in Nodes /\ n \notin Leaves
  BY DEF NonLeaves
<1>2. /\ call' = [call EXCEPT !.frame = call.frame, !.node = n]
      /\ impl' = m /\ slot' = slot /\ it' = it
  BY DEF Ascend
<1> HIDE DEF n
<1>3. /\ call' \in Call /\ call' # Idle /\ call # Idle /\ call'.node = n
      /\ call'.op = call.op /\ call'.frame = call.frame
  <2>1. call # Idle
    BY DEF Call, Idle
  <2>2. call' \in Call /\ call'.node = n /\ call'.op = call.op /\ call'.frame = call.frame
    BY <1>1, <1>2 DEF Call
  <2>3. call' # Idle
    BY <2>2 DEF Call, Idle
  <2> QED
    BY <2>1, <2>2, <2>3
<1>4. TypeOK'
  BY <1>2, <1>3 DEF Inv, TypeOK
<1>5. Linked'
  <2>1. \A i \in Iters : WellPlaced(it'[i])
    BY <1>2 DEF Inv, Linked
  <2> QED
    BY <1>1, <1>2, <1>3, <2>1 DEF Linked, WellPlaced, n
<1>6. Purpose'
  BY <1>1, <1>2, <1>3 DEF Inv, Purpose
<1> QED
  BY <1>4, <1>5, <1>6 DEF Inv

-----------------------------------------------------------------------------
(***************************************************************************)
(* The initial states and the operations.                                  *)
(***************************************************************************)

LEMMA InitInv == Init => Inv
<1> SUFFICES ASSUME Init PROVE Inv
  OBVIOUS
<1>1. NoImpl \in Impl
  BY NodesAssumption DEF NoImpl, Impl
<1>2. TypeOK
  BY <1>1 DEF Init, TypeOK
<1>3. Linked /\ Purpose
  BY DEF Init, Linked, WellPlaced, NoImpl, Purpose
<1> QED
  BY <1>2, <1>3 DEF Inv

\* Where a call starts nothing has moved yet: at a root, with an empty path,
LEMMA StartDownInv ==
  ASSUME Inv, NEW i \in Iters, NEW r \in Roots,
         \/ Start("begin", i, "first", r, NoImpl)
         \/ Start("end", i, "last", r, NoImpl)
  PROVE  Inv'
<1>1. /\ \/ call' = [op |-> "begin", iter |-> i, frame |-> "first", node |-> r]
         \/ call' = [op |-> "end", iter |-> i, frame |-> "last", node |-> r]
      /\ impl' = NoImpl /\ slot' = slot /\ it' = it
  BY DEF Start
<1>2. r \in Nodes /\ NoImpl \in Impl
  BY NodesAssumption DEF NoImpl, Impl
<1>3. TypeOK'
  BY <1>1, <1>2 DEF Inv, TypeOK, Call
<1>4. Linked'
  <2>1. \A j \in Iters : WellPlaced(it'[j])
    BY <1>1 DEF Inv, Linked
  <2>2. LeadsTo(impl'.path, call'.node)
    BY <1>1 DEF NoImpl, LeadsTo
  <2> QED
    BY <1>1, <2>1, <2>2 DEF Linked
<1>5. Purpose'
  BY <1>1 DEF Purpose, NoImpl
<1> QED
  BY <1>3, <1>4, <1>5 DEF Inv

\* or at the leaf the iterator stands on.
LEMMA StartAcrossInv ==
  ASSUME Inv, NEW i \in Iters,
         it[i].leaf # NULL,
         \/ /\ Start("increment", i, "next", it[i].leaf.node, it[i])
            /\ it[i].pos < NumValues(it[i].leaf.node)
         \/ Start("decrement", i, "prev", it[i].leaf.node, it[i])
  PROVE  Inv'
<1> DEFINE n == it[i].leaf.node
<1>1. /\ \/ /\ call' = [op |-> "increment", iter |-> i, frame |-> "next", node |-> n]
            /\ it[i].pos < NumValues(n)
         \/ call' = [op |-> "decrement", iter |-> i, frame |-> "prev", node |-> n]
      /\ impl' = it[i] /\ slot' = slot /\ it' = it
  BY DEF Start
<1>2. it[i] \in Impl /\ WellPlaced(it[i]) /\ n \in Leaves /\ n \in Nodes /\ n \notin NonLeaves
  BY NodesAssumption DEF Inv, TypeOK, Linked, WellPlaced, NonLeaves
<1>3. TypeOK'
  BY <1>1, <1>2 DEF Inv, TypeOK, Call
<1>4. Linked'
  <2>1. \A j \in Iters : WellPlaced(it'[j])
    BY <1>1 DEF Inv, Linked
  <2> QED
    BY <1>1, <1>2, <2>1 DEF Linked
<1>5. Purpose'
  BY <1>1, <1>2 DEF Purpose
<1> QED
  BY <1>3, <1>4, <1>5 DEF Inv

LEMMA OperationInv == Inv /\ Operation => Inv'
<1> SUFFICES ASSUME Inv, Operation PROVE Inv'
  OBVIOUS
<1>1. ASSUME NEW i \in Iters, NEW r \in Roots, Begin(i, r) \/ EndOf(i, r)
      PROVE  Inv'
  BY <1>1, StartDownInv DEF Begin, EndOf
<1>2. ASSUME NEW i \in Iters, Increment(i) \/ Decrement(i)
      PROVE  Inv'
  BY <1>2, StartAcrossInv DEF Increment, Decrement
<1>3. ASSUME NEW i \in Iters, NEW j \in Iters, Copy(i, j)
      PROVE  Inv'
  <2>1. /\ it' = [it EXCEPT ![i] = it[j]] /\ call = Idle /\ call' = call
        /\ slot' = slot /\ impl' = impl
    BY <1>3 DEF Copy
  <2>2. TypeOK'
    BY <2>1 DEF Inv, TypeOK
  <2>3. \A k \in Iters : it'[k] \in {it[k], it[j]}
    BY <2>1 DEF Inv, TypeOK
  <2>4. \A k \in Iters : WellPlaced(it'[k])
    BY <2>3 DEF Inv, Linked
  <2> QED
    BY <2>1, <2>2, <2>4 DEF Inv, Linked, Purpose
<1> QED
  BY <1>1, <1>2, <1>3 DEF Operation

-----------------------------------------------------------------------------
(***************************************************************************)
(* The member functions.                                                   *)
(***************************************************************************)

\* What is known of a running call.
LEMMA RunningCall ==
  ASSUME Inv, call.frame # "none"
  PROVE  /\ call \in Call /\ call # Idle /\ call.node \in Nodes /\ impl \in Impl
         /\ call.op \in {"begin", "end", "increment", "decrement"}
BY DEF Inv, TypeOK, Call, Idle

LEMMA DownLeafInv ==
  ASSUME Inv, LeafFirst \/ LeafLast
  PROVE  Inv'
<1> DEFINE n == call.node
           pos == IF LeafFirst THEN 0 ELSE Dec(NumValues(n))
           m == [impl EXCEPT !.leaf = Ptr(n), !.pos = pos]
           placed == IF call.op = "end" THEN [m EXCEPT !.pos = Inc(@)] ELSE m
<1>1. /\ call.frame \in {"first", "last"} /\ n \in Leaves
      /\ call.frame = "first" <=> LeafFirst
  BY DEF LeafFirst, LeafLast, Running
<1>2. Return(m)
  BY <1>1 DEF LeafFirst, LeafLast
<1>3. /\ call \in Call /\ call # Idle /\ n \in Nodes /\ impl \in Impl
      /\ LeadsTo(impl.path, n)
      /\ call.op = "end" => call.frame = "last"
      /\ call.op \in {"begin", "increment"} => call.frame = "first"
      /\ call.op = "decrement" => call.frame = "last" /\ impl.path # <<>>
  BY <1>1, RunningCall DEF Inv, Linked, Purpose
<1>4. NumValues(n) \in Nat /\ 2 * NumValues(n) < UintMax /\ UintMax \in Nat
  BY <1>3, Sizes
<1>5. Ptr(n) \in Pointer /\ Ptr(n).node = n
  BY <1>3 DEF Ptr, Pointer, Inv, TypeOK
<1>6. /\ placed.leaf = Ptr(n) /\ placed.path = impl.path
      /\ placed.pos = IF call.op = "end" THEN Inc(pos) ELSE pos
      /\ placed = [leaf |-> placed.leaf, pos |-> placed.pos, path |-> placed.path]
  BY <1>3 DEF Impl
<1>7. call.op = "decrement" => NumValues(n) > 0
  <2>1. SUFFICES ASSUME call.op = "decrement" PROVE n \notin Roots
    BY <1>3, ShapeAssumption
  <2>2. /\ impl.path \in Seq(PathStep) /\ impl.path # <<>> /\ LeadsTo(impl.path, n)
    BY <1>3, <2>1 DEF Impl
  <2> HIDE DEF n
  <2>3. /\ n = Kid[Back(impl.path).ptr.node][Back(impl.path).pos + 1]
        /\ Back(impl.path).ptr.node \in NonLeaves
        /\ Back(impl.path).pos < NumValues(Back(impl.path).ptr.node)
        /\ Back(impl.path) \in PathStep
    BY <2>2, LeadsToFront
  <2>4. Back(impl.path).pos \in Nat
    BY <1>4, <2>3 DEF PathStep
  <2> QED
    BY <2>3, <2>4, Children
<1>8. placed.pos \in Nat /\ placed.pos <= NumValues(n)
  <2>1. CASE call.op \in {"begin", "increment"}
    BY <1>1, <1>3, <1>4, <1>6, <2>1
  <2>2. CASE call.op = "end"
    <3>1. pos = Dec(NumValues(n))
      BY <1>1, <1>3, <2>2
    <3>2. Inc(pos) = NumValues(n)
      BY <1>4, <3>1 DEF Inc, Dec
    <3> QED
      BY <1>4, <1>6, <2>2, <3>2
  <2>3. CASE call.op = "decrement"
    <3>1. pos = Dec(NumValues(n))
      BY <1>1, <1>3, <2>3
    <3> QED
      BY <1>4, <1>6, <1>7, <2>3, <3>1 DEF Dec
  <2> QED
    BY <1>1, RunningCall, <2>1, <2>2, <2>3
<1> HIDE DEF m, pos
<1>9. placed = IF call.op = "end" THEN [m EXCEPT !.pos = Inc(@)] ELSE m
  OBVIOUS
<1> HIDE DEF placed, n
<1>10. placed \in Impl /\ WellPlaced(placed)
  <2>1. placed.pos \in 0..UintMax
    BY <1>4, <1>8
  <2>2. placed \in Impl
    BY <1>3, <1>5, <1>6, <2>1 DEF Impl
  <2> QED
    BY <1>1, <1>3, <1>5, <1>6, <1>8, <2>2 DEF WellPlaced
<1> QED
  BY <1>2, <1>3, <1>9, <1>10, ReturnInv

LEMMA DownNonLeafInv ==
  ASSUME Inv, NonLeafFirst \/ NonLeafLast
  PROVE  Inv'
<1> DEFINE n == call.node
           pos == IF NonLeafFirst THEN 0 ELSE NumValues(n) - 1
           step == [ptr |-> Ptr(n), pos |-> pos]
           m == [impl EXCEPT !.path = Append(@, step)]
<1>1. /\ call.frame \in {"first", "last"} /\ n \in NonLeaves
      /\ call.frame = "first" <=> NonLeafFirst
  BY DEF NonLeafFirst, NonLeafLast, Running
<1>2. Descend(n, pos, call.frame, m)
  BY <1>1 DEF NonLeafFirst, NonLeafLast, Running
<1>3. /\ call \in Call /\ n \in Nodes /\ impl \in Impl /\ impl.leaf = NULL
      /\ LeadsTo(impl.path, n) /\ call.frame = DownFrame(call.op)
  <2>1. call \in Call /\ call # Idle /\ n \in Nodes /\ impl \in Impl
        /\ call.op \in {"begin", "end", "increment", "decrement"}
    BY <1>1, RunningCall
  <2>2. LeadsTo(impl.path, n) /\ impl.leaf = NULL
    BY <1>1, <2>1 DEF Inv, Linked, Purpose
  <2>3. call.frame = DownFrame(call.op)
    BY <1>1, <2>1 DEF Inv, Purpose, DownFrame
  <2> QED
    BY <2>1, <2>2, <2>3
<1>4. pos \in Nat /\ pos < NumValues(n) /\ pos \in 0..UintMax
  <2>1. NumValues(n) > 0
    BY <1>1, ShapeAssumption
  <2> QED
    BY <1>3, <2>1, Sizes
<1>5. Ptr(n) \in Pointer /\ Ptr(n).node = n
  BY <1>3 DEF Ptr, Pointer, Inv, TypeOK
<1> HIDE DEF pos
<1>6. step \in PathStep /\ step.ptr.node = n /\ step.pos = pos
  BY <1>4, <1>5 DEF PathStep
<1> HIDE DEF step, n
<1>7. m \in Impl /\ m.leaf = NULL /\ m.path = Append(impl.path, step)
  BY <1>3, <1>6 DEF Impl
<1>8. impl.path \in Seq(PathStep) /\ m.path # <<>>
  BY <1>3, <1>6, <1>7 DEF Impl
<1>9. LeadsTo(m.path, Kid[n][pos + 1])
  BY <1>1, <1>3, <1>4, <1>6, <1>7, <1>8, LeadsToAppend
<1> HIDE DEF m
<1> QED
  BY <1>1, <1>2, <1>3, <1>4, <1>7, <1>8, <1>9, DescendInv

\* At a leaf: along it, up from it, or, at the last position of all, past it.
LEMMA AcrossLeafInv ==
  ASSUME Inv, LeafNext \/ LeafPrev
  PROVE  Inv'
<1> DEFINE n == call.node
<1>1. call.frame \in {"next", "prev"} /\ n \in Leaves
  BY DEF LeafNext, LeafPrev, Running
<1>2. /\ call \in Call /\ call # Idle /\ n \in Nodes /\ impl \in Impl
      /\ impl.leaf # NULL /\ impl.leaf.node = n /\ WellPlaced(impl)
      /\ call.op # "end"
      /\ call.frame = "next" => impl.pos < NumValues(n)
  BY <1>1, RunningCall DEF Inv, Linked, Purpose
<1>3. /\ NumValues(n) \in Nat /\ 2 * NumValues(n) < UintMax /\ UintMax \in Nat
      /\ impl.pos \in 0..UintMax /\ impl.path \in Seq(PathStep)
      /\ LeadsTo(impl.path, n) /\ impl.pos <= NumValues(n)
  BY <1>2, Sizes DEF Impl, WellPlaced
<1>4. ASSUME NEW pos \in 0..UintMax, pos <= NumValues(n), Return([impl EXCEPT !.pos = pos])
      PROVE  Inv'
  <2> DEFINE m == [impl EXCEPT !.pos = pos]
  <2>1. /\ m \in Impl /\ m.leaf = impl.leaf /\ m.pos = pos /\ m.path = impl.path
    BY <1>2 DEF Impl
  <2> HIDE DEF m
  <2>2. WellPlaced(m)
    BY <1>1, <1>2, <1>3, <1>4, <2>1 DEF WellPlaced
  <2> QED
    BY <1>2, <1>4, <2>1, <2>2, ReturnInv DEF m
<1>5. ASSUME NEW m \in Impl, m.leaf = NULL, m.path = impl.path, impl.path # <<>>,
             Ascend(call.frame, m)
      PROVE  Inv'
  <2>1. /\ LeadsTo(Front(m.path), Back(m.path).ptr.node)
        /\ Back(m.path).ptr.node \in NonLeaves
        /\ Back(m.path).pos < NumValues(Back(m.path).ptr.node)
    BY <1>3, <1>5, LeadsToFront
  <2> QED
    BY <1>1, <1>2, <1>5, <2>1, AscendInv
<1>6. CASE LeafNext
  <2> DEFINE moved == [impl EXCEPT !.pos = Inc(@)]
             left == [moved EXCEPT !.leaf = NULL]
  <2>1. call.frame = "next"
    BY <1>6 DEF LeafNext, Running
  <2>2. Inc(impl.pos) \in 0..UintMax /\ Inc(impl.pos) <= NumValues(n)
    BY <1>2, <1>3, <2>1 DEF Inc
  <2>3. CASE Return(moved)
    BY <1>4, <2>2, <2>3
  <2>4. CASE Ascend("next", left) /\ HasNext(impl.path)
    <3>1. impl.path # <<>>
      BY <2>4 DEF HasNext
    <3>2. left \in Impl /\ left.leaf = NULL /\ left.path = impl.path
      BY <1>2, <2>2 DEF Impl
    <3> HIDE DEF left
    <3> QED
      BY <1>5, <2>1, <2>4, <3>1, <3>2
  <2> QED
    BY <1>6, <2>3, <2>4 DEF LeafNext
<1>7. CASE LeafPrev
  <2> DEFINE left == [impl EXCEPT !.leaf = IF impl.path = <<>> THEN @ ELSE NULL]
  <2>1. call.frame = "prev"
    BY <1>7 DEF LeafPrev, Running
  <2>2. CASE impl.pos # 0 /\ Return([impl EXCEPT !.pos = @ - 1])
    <3>1. impl.pos - 1 \in 0..UintMax /\ impl.pos - 1 <= NumValues(n)
      BY <1>3, <2>2
    <3> QED
      BY <1>4, <2>2, <3>1
  <2>3. left \in Impl /\ left.path = impl.path /\ left.pos = impl.pos
        /\ left.leaf = IF impl.path = <<>> THEN impl.leaf ELSE NULL
    BY <1>2 DEF Impl
  <2> HIDE DEF left
  <2>4. CASE Ascend("prev", left) /\ HasPrev(impl.path)
    <3>1. impl.path # <<>>
      BY <2>4 DEF HasPrev
    <3> QED
      BY <1>5, <2>1, <2>3, <2>4, <3>1
  <2>5. CASE Return(left)
    <3>1. WellPlaced(left)
      BY <1>2, <2>3 DEF WellPlaced
    <3> QED
      BY <1>2, <2>3, <2>5, <3>1, ReturnInv
  <2> QED
    BY <1>7, <2>2, <2>4, <2>5 DEF LeafPrev, left
<1> QED
  BY <1>6, <1>7

\* At a non-leaf: down to the next child, or up.
LEMMA AcrossNonLeafInv ==
  ASSUME Inv, NonLeafNext \/ NonLeafPrev
  PROVE  Inv'
<1> DEFINE n == call.node
           path == impl.path
<1>1. call.frame \in {"next", "prev"} /\ n \in NonLeaves
  BY DEF NonLeafNext, NonLeafPrev, Running
<1>2. /\ call \in Call /\ call # Idle /\ n \in Nodes /\ impl \in Impl
      /\ impl.leaf = NULL /\ call.op # "end"
      /\ path # <<>> /\ Back(path).ptr.node = n
      /\ Back(path).pos < NumValues(n)
      /\ LeadsTo(Front(path), n)
  <2>1. /\ call \in Call /\ call # Idle /\ n \in Nodes /\ impl \in Impl
    BY <1>1, RunningCall
  <2> QED
    BY <1>1, <2>1 DEF Inv, Linked, Purpose
<1>3. /\ NumValues(n) \in Nat /\ 2 * NumValues(n) < UintMax /\ UintMax \in Nat
      /\ path \in Seq(PathStep)
      /\ Back(path) \in PathStep /\ Back(path).pos \in 0..UintMax
      /\ Front(path) \in Seq(PathStep)
  <2>1. path \in Seq(PathStep)
    BY <1>2 DEF Impl
  <2>2. Back(path) \in PathStep /\ Front(path) \in Seq(PathStep)
    <3> HIDE DEF path
    <3> QED
      BY <1>2, <2>1 DEF Back, Front
  <2>3. Back(path).pos \in 0..UintMax
    BY <2>2 DEF PathStep
  <2> QED
    BY <1>2, <2>1, <2>2, <2>3, Sizes
<1>4. ASSUME NEW pos \in Nat, pos < NumValues(n),
             Descend(n, pos, DownFrame(call.op), [impl EXCEPT !.path = MoveTo(@, pos)])
      PROVE  Inv'
  <2> DEFINE m == [impl EXCEPT !.path = MoveTo(@, pos)]
  <2>1. pos \in 0..UintMax
    BY <1>3, <1>4
  <2>2. /\ MoveTo(path, pos) \in Seq(PathStep) /\ MoveTo(path, pos) # <<>>
        /\ LeadsTo(MoveTo(path, pos), Kid[n][pos + 1])
    BY <1>1, <1>2, <1>3, <1>4, <2>1, LeadsToMove
  <2>3. m \in Impl /\ m.leaf = NULL /\ m.path = MoveTo(path, pos)
    BY <1>2, <2>2 DEF Impl
  <2> HIDE DEF m, n, path
  <2> QED
    BY <1>1, <1>2, <1>4, <2>2, <2>3, DescendInv DEF m
<1>5. ASSUME PopAndGoOn(call.frame)
      PROVE  Inv'
  <2>1. CASE Len(path) > 1 /\ Ascend(call.frame, [impl EXCEPT !.path = Front(@)])
    <3> DEFINE m == [impl EXCEPT !.path = Front(@)]
    <3>1. m \in Impl /\ m.leaf = NULL /\ m.path = Front(path)
      BY <1>2, <1>3 DEF Impl
    <3>2. Front(path) # <<>>
      <4>1. Len(path) \in Nat /\ Len(path) > 1
        BY <1>3, <2>1
      <4>2. Len(Front(path)) = Len(path) - 1
        BY <1>3, <4>1 DEF Front
      <4> QED
        BY <4>1, <4>2
    <3>3. /\ LeadsTo(Front(m.path), Back(m.path).ptr.node)
          /\ Back(m.path).ptr.node \in NonLeaves
          /\ Back(m.path).pos < NumValues(Back(m.path).ptr.node)
      BY <1>2, <1>3, <3>1, <3>2, LeadsToFront
    <3> HIDE DEF m, n, path
    <3> QED
      BY <1>1, <1>2, <2>1, <3>1, <3>2, <3>3, AscendInv DEF m
  <2>2. CASE Return(impl)
    <3>1. WellPlaced(impl)
      BY <1>2 DEF WellPlaced
    <3> QED
      BY <1>2, <2>2, <3>1, ReturnInv
  <2> QED
    BY <1>5, <2>1, <2>2 DEF PopAndGoOn
<1>6. CASE NonLeafNext
  <2>1. call.frame = "next" /\ DownFrame(call.op) = "first"
    BY <1>2, <1>6, RunningCall DEF NonLeafNext, Running, Inv, Purpose, DownFrame
  <2>2. CASE Back(path).pos + 1 = NumValues(n)
    BY <1>5, <1>6, <2>1, <2>2 DEF NonLeafNext
  <2>3. CASE Back(path).pos + 1 # NumValues(n)
    <3>1. Back(path).pos + 1 \in Nat /\ Back(path).pos + 1 < NumValues(n)
      BY <1>2, <1>3, <2>3
    <3> QED
      BY <1>4, <1>6, <2>1, <2>3, <3>1 DEF NonLeafNext
  <2> QED
    BY <2>2, <2>3
<1>7. CASE NonLeafPrev
  <2>1. call.frame = "prev" /\ DownFrame(call.op) = "last"
    BY <1>2, <1>7, RunningCall DEF NonLeafPrev, Running, Inv, Purpose, DownFrame
  <2>2. CASE Back(path).pos = 0
    BY <1>5, <1>7, <2>1, <2>2 DEF NonLeafPrev
  <2>3. CASE Back(path).pos # 0
    <3>1. Back(path).pos - 1 \in Nat /\ Back(path).pos - 1 < NumValues(n)
      BY <1>2, <1>3, <2>3
    <3> QED
      BY <1>4, <1>7, <2>1, <2>3, <3>1 DEF NonLeafPrev
  <2> QED
    BY <2>2, <2>3
<1> QED
  BY <1>6, <1>7

-----------------------------------------------------------------------------

LEMMA StepInv == Inv /\ [Next]_vars => Inv'
<1> SUFFICES ASSUME Inv, [Next]_vars PROVE Inv'
  OBVIOUS
<1>1. CASE Operation
  BY <1>1, OperationInv
<1>2. CASE LeafFirst \/ LeafLast
  BY <1>2, DownLeafInv
<1>3. CASE NonLeafFirst \/ NonLeafLast
  BY <1>3, DownNonLeafInv
<1>4. CASE LeafNext \/ LeafPrev
  BY <1>4, AcrossLeafInv
<1>5. CASE NonLeafNext \/ NonLeafPrev
  BY <1>5, AcrossNonLeafInv
<1>6. CASE UNCHANGED vars
  BY <1>6 DEF vars, Inv, TypeOK, Linked, WellPlaced, Purpose
<1> QED
  BY <1>1, <1>2, <1>3, <1>4, <1>5, <1>6 DEF Next, Step

LEMMA Invariance == Spec => []Inv
  BY InitInv, StepInv, PTL DEF Spec

\* Every uint of an iterator stays in range and every pointer is to a node.
THEOREM TypeCorrect == Spec => []TypeOK
<1>1. Inv => TypeOK
  BY DEF Inv
<1> QED
  BY <1>1, Invariance, PTL

\* Memory safety: an iterator that can be used stands on an entry of a leaf or
\* one past its last, and has the path that leads there; a member function in
\* the middle of an operation finds itself at the end of the path.
THEOREM WalkIsLinked == Spec => []Linked
<1>1. Inv => Linked
  BY DEF Inv
<1> QED
  BY <1>1, Invariance, PTL
-----------------------------------------------------------------------------
(***************************************************************************)
(* Where the iterators stand and where an operation is to arrive.          *)
(*                                                                         *)
(* A path divides the entries of its tree into those to its left, those    *)
(* under the node it leads to and those to its right; the positions of the *)
(* specification are the least and the greatest of such sets.              *)
(***************************************************************************)

\* The entries under the children before, and after, the one that a step is at.
Before(step) == UNION {KeysUnder(Kid[step.ptr.node][p]) : p \in 1..step.pos}

After(step) ==
  UNION {KeysUnder(Kid[step.ptr.node][p]) : p \in (step.pos + 2)..NumValues(step.ptr.node)}

\* The entries to the left, and to the right, of a path.
Earlier(path) == UNION {Before(path[d]) : d \in DOMAIN path}
Later(path) == UNION {After(path[d]) : d \in DOMAIN path}

\* The root that a path to n starts from.
Top(path, n) == IF path = <<>> THEN n ELSE path[1].ptr.node

\* The entries to the left, and to the right, of an iterator.
Left(m) == {Key[m.leaf.node][p] : p \in 1..m.pos} \cup Earlier(m.path)

Right(m) ==
  {Key[m.leaf.node][p] : p \in (m.pos + 2)..NumValues(m.leaf.node)} \cup Later(m.path)

HasBefore(path) == \E d \in DOMAIN path : path[d].pos > 0

\* An iterator that can be used points to the leaf object that is in memory, and
\* is past the last entry of a leaf only where no leaf follows.
Settled(m) ==
  m.leaf # NULL =>
    /\ m.leaf = Ptr(m.leaf.node) /\ slot[m.leaf.node] # 0
    /\ m.pos = NumValues(m.leaf.node) => ~HasNext(m.path)

Ats == Int \cup {End}

RootsRead == \A r \in Roots : slot[r] # 0

\* Where a member function of the node is to arrive, in terms of where it is.
Aimed(op, iter, frame, n, m, g) ==
  /\ g = [iter |-> iter, tree |-> Top(m.path, n), at |-> g.at,
          moves |-> op \in {"increment", "decrement"}]
  /\ g.at \in Ats
  /\ frame = "first" => g.at = Cursor!FirstOf(KeysUnder(n) \cup Later(m.path))
  /\ frame = "last" =>
       IF op = "end" THEN g.at = End /\ ~HasNext(m.path)
       ELSE g.at = Cursor!Greatest(KeysUnder(n) \cup Earlier(m.path))
  /\ frame = "next" =>
       IF n \in Leaves THEN g.at = Cursor!FirstOf(Right(m))
       ELSE g.at = Cursor!FirstOf(Later(m.path)) /\ HasNext(m.path)
  /\ frame = "prev" =>
       IF n \in Leaves
         THEN g.at = Cursor!Greatest(Left(m)) /\ (m.pos > 0 \/ HasBefore(m.path))
         ELSE g.at = Cursor!Greatest(Earlier(m.path)) /\ HasBefore(m.path)

\* The leaf an operation starts from is in memory, and so is a node whose first or
\* last runs.
InMemory ==
  IF call.frame \in {"first", "last"} THEN slot[call.node] # 0
  ELSE call.node \in Leaves => Settled(impl)

Aims ==
  IF call = Idle THEN goal = None
  ELSE InMemory /\ Aimed(call.op, call.iter, call.frame, call.node, impl, goal)

AInv == RootsRead /\ Aims /\ \A i \in Iters : Settled(it[i])

-----------------------------------------------------------------------------
(***************************************************************************)
(* Least and greatest.                                                     *)
(***************************************************************************)

LEMMA HasLeast ==
  ASSUME NEW S \in SUBSET Int, S # {}, NEW b \in Int, \A x \in S : b <= x
  PROVE  /\ Cursor!Least(S) \in S
         /\ \A x \in S : Cursor!Least(S) <= x
<1> DEFINE D == {x - b : x \in S}
<1>1. D \subseteq Nat /\ D # {}
  <2>1. \A x \in S : x - b \in Nat
    OBVIOUS
  <2> QED
    BY <2>1, Zenon
<1>2. PICK d \in D : \A e \in D : ~(<<e, d>> \in OpToRel(<, Nat))
  BY <1>1, NatLessThanWellFounded, WFMin
<1>3. PICK x \in S : d = x - b
  BY <1>2
<1>4. \A y \in S : x <= y
  <2> SUFFICES ASSUME NEW y \in S, y < x PROVE FALSE
    OBVIOUS
  <2>1. y - b \in D /\ y - b < d /\ y - b \in Nat /\ d \in Nat
    BY <1>1, <1>3
  <2> QED
    BY <1>2, <2>1 DEF OpToRel
<1> QED
  BY <1>4 DEF Cursor!Least

LEMMA HasGreatest ==
  ASSUME NEW S \in SUBSET Int, S # {}, NEW b \in Int, \A x \in S : x <= b
  PROVE  /\ Cursor!Greatest(S) \in S
         /\ \A x \in S : x <= Cursor!Greatest(S)
<1> DEFINE D == {b - x : x \in S}
<1>1. D \subseteq Nat /\ D # {}
  <2>1. \A x \in S : b - x \in Nat
    OBVIOUS
  <2> QED
    BY <2>1, Zenon
<1>2. PICK d \in D : \A e \in D : ~(<<e, d>> \in OpToRel(<, Nat))
  BY <1>1, NatLessThanWellFounded, WFMin
<1>3. PICK x \in S : d = b - x
  BY <1>2
<1>4. \A y \in S : y <= x
  <2> SUFFICES ASSUME NEW y \in S, x < y PROVE FALSE
    OBVIOUS
  <2>1. b - y \in D /\ b - y < d /\ b - y \in Nat /\ d \in Nat
    BY <1>1, <1>3
  <2> QED
    BY <1>2, <2>1 DEF OpToRel
<1> QED
  BY <1>4 DEF Cursor!Greatest

LEMMA FirstIs ==
  ASSUME NEW S \in SUBSET Int, NEW x \in S, \A y \in S : x <= y
  PROVE  Cursor!FirstOf(S) = x
<1>1. Cursor!Least(S) \in S /\ Cursor!Least(S) <= x
  <2>1. x \in Int /\ S # {}
    OBVIOUS
  <2> QED
    BY <2>1, HasLeast
<1>2. ASSUME NEW y \in S, y <= x
      PROVE  y = x
  BY <1>2
<1>3. Cursor!Least(S) = x
  BY <1>1, <1>2
<1> QED
  BY <1>3 DEF Cursor!FirstOf

LEMMA GreatestIs ==
  ASSUME NEW S \in SUBSET Int, NEW x \in S, \A y \in S : y <= x
  PROVE  Cursor!Greatest(S) = x
<1>1. Cursor!Greatest(S) \in S /\ x <= Cursor!Greatest(S)
  <2>1. x \in Int /\ S # {}
    OBVIOUS
  <2> QED
    BY <2>1, HasGreatest
<1>2. ASSUME NEW y \in S, x <= y
      PROVE  y = x
  BY <1>2
<1> QED
  BY <1>1, <1>2

\* The shortest of some paths.
LEMMA Shortest ==
  ASSUME NEW S \in SUBSET Nat, S # {}
  PROVE  \E k \in S : \A j \in S : ~ j < k
<1>1. PICK k \in S : \A j \in S : ~(<<j, k>> \in OpToRel(<, Nat))
  BY NatLessThanWellFounded, WFMin
<1> QED
  BY <1>1 DEF OpToRel

-----------------------------------------------------------------------------
(***************************************************************************)
(* The entries to the left and to the right of a path.                     *)
(***************************************************************************)

LEMMA KeyIsUnder ==
  ASSUME NEW n, NEW x
  PROVE  x \in KeysUnder(n) <=> \E l \in Under[n] : \E p \in DOMAIN Key[l] : x = Key[l][p]
BY DEF KeysUnder

LEMMA LeafKeys ==
  ASSUME NEW l \in Leaves
  PROVE  KeysUnder(l) = {Key[l][p] : p \in 1..NumValues(l)}
<1>1. Under[l] = {l}
  BY UnderAssumption
<1>2. l \in Nodes /\ Key[l] \in Seq(Int)
  BY NodesAssumption
<1>3. DOMAIN Key[l] = 1..NumValues(l)
  BY <1>2 DEF NumValues
<1> QED
  BY <1>1, <1>3, Zenon DEF KeysUnder

LEMMA KeyIsInt ==
  ASSUME NEW n \in Nodes, NEW p \in 1..NumValues(n)
  PROVE  Key[n][p] \in Int
<1>1. Key[n] \in Seq(Int)
  BY NodesAssumption
<1> QED
  BY <1>1 DEF NumValues

LEMMA KeysAreInts ==
  ASSUME NEW n \in Nodes
  PROVE  KeysUnder(n) \subseteq Int
<1>1. ASSUME NEW l \in Under[n], NEW p \in DOMAIN Key[l]
      PROVE  Key[l][p] \in Int
  <2>1. Under[n] \in SUBSET Leaves
    BY UnderAssumption
  <2>2. l \in Nodes
    BY <2>1, NodesAssumption
  <2>3. Key[l] \in Seq(Int)
    BY <2>2, NodesAssumption
  <2> QED
    BY <2>3, <1>1
<1>2. ASSUME NEW x \in KeysUnder(n)
      PROVE  x \in Int
  <2>1. PICK l \in Under[n] : \E p \in DOMAIN Key[l] : x = Key[l][p]
    BY KeyIsUnder
  <2> QED
    BY <1>1, <2>1
<1> QED
  BY <1>2

\* Keys ascend in a node.
LEMMA KeysAscend ==
  ASSUME NEW n \in Nodes, NEW p \in 1..NumValues(n), NEW q \in 1..NumValues(n), p < q
  PROVE  Key[n][p] < Key[n][q]
<1>1. Key[n] \in Seq(Int)
  BY NodesAssumption
<1>2. p \in DOMAIN Key[n] /\ q \in DOMAIN Key[n]
  BY <1>1 DEF NumValues
<1> QED
  BY <1>2, OrderAssumption

\* The children of a node have its entries, those of one child below those of the
\* next.
LEMMA KidsUnder ==
  ASSUME NEW n \in NonLeaves
  PROVE  /\ KeysUnder(n) = UNION {KeysUnder(Kid[n][p]) : p \in 1..NumValues(n)}
         /\ \A p \in 1..NumValues(n) : Under[Kid[n][p]] \subseteq Under[n]
         /\ \A p, q \in 1..NumValues(n) : p < q =>
              \A x \in KeysUnder(Kid[n][p]), y \in KeysUnder(Kid[n][q]) : x < y
         /\ \A p \in 1..NumValues(n) :
              \A x \in KeysUnder(Kid[n][p]) : Key[n][1] <= x
<1>1. n \in Nodes /\ Kid[n] \in Seq(Nodes) /\ Len(Kid[n]) = NumValues(n) /\ NumValues(n) \in Nat
      /\ NumValues(n) > 0
  BY NodesAssumption, ShapeAssumption DEF NonLeaves, NumValues
<1>2. DOMAIN Kid[n] = 1..NumValues(n) /\ \A p \in 1..NumValues(n) : Kid[n][p] \in Nodes
  BY <1>1
<1>3. Under[n] = UNION {Under[Kid[n][p]] : p \in 1..NumValues(n)}
  BY <1>2, UnderAssumption
<1>4. KeysUnder(n) = UNION {KeysUnder(Kid[n][p]) : p \in 1..NumValues(n)}
  <2>1. ASSUME NEW x \in KeysUnder(n)
        PROVE  x \in UNION {KeysUnder(Kid[n][p]) : p \in 1..NumValues(n)}
    <3>1. PICK l \in Under[n] : \E p \in DOMAIN Key[l] : x = Key[l][p]
      BY KeyIsUnder
    <3>2. PICK p \in 1..NumValues(n) : l \in Under[Kid[n][p]]
      BY <1>3
    <3>3. x \in KeysUnder(Kid[n][p])
      BY <3>1, <3>2, KeyIsUnder
    <3> QED
      BY <3>3
  <2>2. ASSUME NEW p \in 1..NumValues(n), NEW x \in KeysUnder(Kid[n][p])
        PROVE  x \in KeysUnder(n)
    <3>1. PICK l \in Under[Kid[n][p]] : \E q \in DOMAIN Key[l] : x = Key[l][q]
      BY KeyIsUnder
    <3>2. l \in Under[n]
      BY <1>3
    <3> QED
      BY <3>1, <3>2, KeyIsUnder
  <2> QED
    BY <2>1, <2>2
<1>5. \A p \in 1..NumValues(n) : Under[Kid[n][p]] \subseteq Under[n]
  BY <1>3, Zenon
<1>6. ASSUME NEW p \in 1..NumValues(n), NEW x \in KeysUnder(Kid[n][p])
      PROVE  /\ x \in Int /\ Key[n][p] \in Int /\ Key[n][p] <= x
             /\ \A q \in 1..NumValues(n) : p < q => x < Key[n][q]
  <2>1. x \in Int
    BY <1>2, KeysAreInts
  <2>2. Key[n][p] \in Int
    BY <1>1, KeyIsInt
  <2>3. p \in DOMAIN Kid[n]
    BY <1>2
  <2>4. Key[n][p] <= x /\ \A q \in DOMAIN Kid[n] : p < q => x < Key[n][q]
    BY <2>3, OrderAssumption
  <2> QED
    BY <1>2, <2>1, <2>2, <2>4
<1>7. ASSUME NEW p \in 1..NumValues(n), NEW q \in 1..NumValues(n), p < q,
             NEW x \in KeysUnder(Kid[n][p]), NEW y \in KeysUnder(Kid[n][q])
      PROVE  x < y
  <2>1. x \in Int /\ x < Key[n][q]
    BY <1>6, <1>7
  <2>2. y \in Int /\ Key[n][q] \in Int /\ Key[n][q] <= y
    BY <1>6
  <2> QED
    BY <2>1, <2>2
<1>8. ASSUME NEW p \in 1..NumValues(n), NEW x \in KeysUnder(Kid[n][p])
      PROVE  Key[n][1] <= x
  <2>1. x \in Int /\ Key[n][p] \in Int /\ Key[n][p] <= x
    BY <1>6
  <2>2. 1 \in 1..NumValues(n)
    BY <1>1
  <2>3. Key[n][1] \in Int
    BY <1>1, <2>2, KeyIsInt
  <2>4. CASE p = 1
    BY <2>1, <2>4
  <2>5. CASE p # 1
    <3>1. 1 < p
      BY <2>5
    <3>2. Key[n][1] < Key[n][p]
      BY <1>1, <2>2, <3>1, KeysAscend
    <3> QED
      BY <2>1, <2>3, <3>2
  <2> QED
    BY <2>4, <2>5
<1> QED
  BY <1>4, <1>5, <1>7, <1>8

\* A step divides the entries of its node.
Splits(step) ==
  LET c == Kid[step.ptr.node][step.pos + 1]
  IN /\ KeysUnder(step.ptr.node) = Before(step) \cup KeysUnder(c) \cup After(step)
     /\ Under[c] \subseteq Under[step.ptr.node]
     /\ \A x \in Before(step), y \in KeysUnder(c) : x < y
     /\ \A y \in KeysUnder(c), z \in After(step) : y < z

LEMMA StepsSplit ==
  ASSUME NEW step \in PathStep, step.ptr.node \in NonLeaves,
         step.pos < NumValues(step.ptr.node)
  PROVE  Splits(step)
<1> DEFINE n == step.ptr.node
           c == step.pos + 1
<1>1. NumValues(n) \in Nat /\ step.pos \in Nat /\ n \in NonLeaves /\ step.pos < NumValues(n)
  BY Sizes, NodesAssumption DEF PathStep, NonLeaves
<1>2. /\ KeysUnder(n) = UNION {KeysUnder(Kid[n][p]) : p \in 1..NumValues(n)}
      /\ \A p \in 1..NumValues(n) : Under[Kid[n][p]] \subseteq Under[n]
      /\ \A p, q \in 1..NumValues(n) : p < q =>
           \A x \in KeysUnder(Kid[n][p]), y \in KeysUnder(Kid[n][q]) : x < y
  BY <1>1, KidsUnder
<1>3. Before(step) = UNION {KeysUnder(Kid[n][p]) : p \in 1..step.pos}
  BY DEF Before
<1>4. After(step) = UNION {KeysUnder(Kid[n][p]) : p \in (step.pos + 2)..NumValues(n)}
  BY DEF After
<1>5. /\ c \in 1..NumValues(n)
      /\ \A p \in 1..step.pos : p \in 1..NumValues(n) /\ p < c
      /\ \A p \in (step.pos + 2)..NumValues(n) : p \in 1..NumValues(n) /\ c < p
      /\ \A p \in 1..NumValues(n) :
           p \in 1..step.pos \/ p = c \/ p \in (step.pos + 2)..NumValues(n)
  BY <1>1
<1> HIDE DEF n, c
<1>6. KeysUnder(n) = Before(step) \cup KeysUnder(Kid[n][c]) \cup After(step)
  <2>1. ASSUME NEW x \in KeysUnder(n)
        PROVE  x \in Before(step) \cup KeysUnder(Kid[n][c]) \cup After(step)
    <3>1. PICK p \in 1..NumValues(n) : x \in KeysUnder(Kid[n][p])
      BY <1>2
    <3>2. CASE p \in 1..step.pos
      BY <3>1, <3>2, <1>3
    <3>3. CASE p = c
      BY <3>1, <3>3
    <3>4. CASE p \in (step.pos + 2)..NumValues(n)
      BY <3>1, <3>4, <1>4
    <3> QED
      BY <1>5, <3>2, <3>3, <3>4
  <2>2. /\ Before(step) \subseteq KeysUnder(n)
    BY <1>2, <1>3, <1>5, Zenon
  <2>3. /\ KeysUnder(Kid[n][c]) \subseteq KeysUnder(n)
    BY <1>2, <1>5, Zenon
  <2>4. /\ After(step) \subseteq KeysUnder(n)
    BY <1>2, <1>4, <1>5, Zenon
  <2> QED
    BY <2>1, <2>2, <2>3, <2>4, Zenon
<1>7. \A x \in Before(step), y \in KeysUnder(Kid[n][c]) : x < y
  BY <1>2, <1>3, <1>5, Zenon
<1>8. \A y \in KeysUnder(Kid[n][c]), z \in After(step) : y < z
  BY <1>2, <1>4, <1>5, Zenon
<1>9. Under[Kid[n][c]] \subseteq Under[n]
  BY <1>2, <1>5
<1> QED
  BY <1>6, <1>7, <1>8, <1>9 DEF Splits, n, c

LEMMA PartedAppend ==
  ASSUME NEW path \in Seq(PathStep), NEW step \in PathStep
  PROVE  /\ Earlier(Append(path, step)) = Earlier(path) \cup Before(step)
         /\ Later(Append(path, step)) = Later(path) \cup After(step)
<1> DEFINE new == Append(path, step)
<1>1. /\ Len(path) \in Nat /\ Len(new) = Len(path) + 1
      /\ DOMAIN path = 1..Len(path) /\ DOMAIN new = 1..(Len(path) + 1)
      /\ new[Len(path) + 1] = step
      /\ \A d \in 1..Len(path) : new[d] = path[d]
  OBVIOUS
<1> HIDE DEF new
<1>2. /\ \A d \in DOMAIN path : d \in DOMAIN new /\ new[d] = path[d]
      /\ Len(path) + 1 \in DOMAIN new
      /\ \A d \in DOMAIN new : d \in DOMAIN path \/ d = Len(path) + 1
  BY <1>1
<1>3. Earlier(new) = Earlier(path) \cup Before(step)
  BY <1>1, <1>2, Zenon DEF Earlier
<1>4. Later(new) = Later(path) \cup After(step)
  BY <1>1, <1>2, Zenon DEF Later
<1> QED
  BY <1>3, <1>4 DEF new

LEMMA Parted ==
  ASSUME NEW path \in Seq(PathStep), path # <<>>
  PROVE  /\ path = Append(Front(path), Back(path))
         /\ Front(path) \in Seq(PathStep) /\ Back(path) \in PathStep
         /\ Earlier(path) = Earlier(Front(path)) \cup Before(Back(path))
         /\ Later(path) = Later(Front(path)) \cup After(Back(path))
<1>1. Front(path) \in Seq(PathStep) /\ Back(path) \in PathStep
  BY DEF Front, Back
<1>2. path = Append(Front(path), Back(path))
  BY DEF Front, Back
<1> QED
  BY <1>1, <1>2, PartedAppend

\* A path that leads to a node divides the entries of its tree.
Divides(path, n) ==
  /\ Under[n] \subseteq Under[Top(path, n)]
  /\ KeysUnder(Top(path, n)) = Earlier(path) \cup KeysUnder(n) \cup Later(path)
  /\ \A x \in Earlier(path), y \in KeysUnder(n) : x < y
  /\ \A y \in KeysUnder(n), z \in Later(path) : y < z

LEMMA FrontOf ==
  ASSUME NEW path \in Seq(PathStep), path # <<>>
  PROVE  /\ Len(path) \in Nat \ {0} /\ DOMAIN path = 1..Len(path)
         /\ Front(path) \in Seq(PathStep) /\ Len(Front(path)) = Len(path) - 1
         /\ DOMAIN Front(path) = 1..(Len(path) - 1)
         /\ \A b \in 1..(Len(path) - 1) : Front(path)[b] = path[b]
         /\ Back(path) = path[Len(path)]
<1>1. Len(path) \in Nat \ {0} /\ DOMAIN path = 1..Len(path)
  OBVIOUS
<1>2. /\ Front(path) \in Seq(PathStep) /\ Len(Front(path)) = Len(path) - 1
      /\ DOMAIN Front(path) = 1..(Len(path) - 1)
      /\ \A b \in 1..(Len(path) - 1) : Front(path)[b] = path[b]
  BY <1>1 DEF Front
<1> QED
  BY <1>1, <1>2 DEF Back

LEMMA TopOfFront ==
  ASSUME NEW path \in Seq(PathStep), path # <<>>, NEW n
  PROVE  Top(path, n) = Top(Front(path), Back(path).ptr.node)
<1>1. /\ Len(path) \in Nat \ {0} /\ Front(path) \in Seq(PathStep)
      /\ Len(Front(path)) = Len(path) - 1
      /\ Len(path) > 1 => Front(path)[1] = path[1]
  BY FrontOf
<1>2. CASE Len(path) = 1
  BY <1>1, <1>2 DEF Top, Back
<1>3. CASE Len(path) > 1
  <2>1. Front(path) # <<>>
    BY <1>1, <1>3
  <2> QED
    BY <1>1, <1>3, <2>1 DEF Top
<1> QED
  BY <1>1, <1>2, <1>3

LEMMA DividesDown ==
  ASSUME NEW path \in Seq(PathStep), path # <<>>, NEW n, LeadsTo(path, n),
         Divides(Front(path), Back(path).ptr.node)
  PROVE  Divides(path, n)
<1> DEFINE step == Back(path)
           front == Front(path)
           above == step.ptr.node
           top == Top(path, n)
<1>1. /\ step \in PathStep /\ above \in NonLeaves /\ step.pos < NumValues(above)
      /\ n = Kid[above][step.pos + 1]
  BY LeadsToFront
<1>2. Splits(step)
  BY <1>1, StepsSplit
<1>3. /\ Earlier(path) = Earlier(front) \cup Before(step)
      /\ Later(path) = Later(front) \cup After(step)
  BY Parted
<1>4. top = Top(front, above)
  BY TopOfFront
<1>5. /\ KeysUnder(above) = Before(step) \cup KeysUnder(n) \cup After(step)
      /\ Under[n] \subseteq Under[above]
      /\ \A x \in Before(step), y \in KeysUnder(n) : x < y
      /\ \A y \in KeysUnder(n), z \in After(step) : y < z
  BY <1>1, <1>2 DEF Splits
<1>6. /\ Under[above] \subseteq Under[top]
      /\ KeysUnder(top) = Earlier(front) \cup KeysUnder(above) \cup Later(front)
      /\ \A x \in Earlier(front), y \in KeysUnder(above) : x < y
      /\ \A y \in KeysUnder(above), z \in Later(front) : y < z
  BY <1>4 DEF Divides
<1> HIDE DEF step, front, above, top
<1>7. /\ Under[n] \subseteq Under[top]
      /\ KeysUnder(top) = Earlier(path) \cup KeysUnder(n) \cup Later(path)
  BY <1>3, <1>5, <1>6, Zenon
<1>8. /\ \A x \in Earlier(path), y \in KeysUnder(n) : x < y
      /\ \A y \in KeysUnder(n), z \in Later(path) : y < z
  BY <1>3, <1>5, <1>6, Zenon
<1> QED
  BY <1>7, <1>8 DEF Divides, top

LEMMA PathsDivide ==
  ASSUME NEW path \in Seq(PathStep), NEW n, LeadsTo(path, n)
  PROVE  Divides(path, n)
<1> DEFINE Bad(p, m) == p \in Seq(PathStep) /\ LeadsTo(p, m) /\ ~Divides(p, m)
           S == {k \in Nat : \E p \in Seq(PathStep) : \E m \in Nodes : Bad(p, m) /\ Len(p) = k}
<1>1. ASSUME NEW p \in Seq(PathStep), NEW m, LeadsTo(p, m)
      PROVE  m \in Nodes
  <2>1. CASE p = <<>>
    BY <1>1, <2>1, NodesAssumption DEF LeadsTo
  <2>2. CASE p # <<>>
    <3>1. /\ Back(p) \in PathStep /\ Back(p).ptr.node \in NonLeaves
          /\ Back(p).pos < NumValues(Back(p).ptr.node)
          /\ m = Kid[Back(p).ptr.node][Back(p).pos + 1]
      BY <1>1, <2>2, LeadsToFront
    <3>2. Back(p).pos \in Nat
      BY <3>1, NodesAssumption DEF PathStep
    <3> QED
      BY <3>1, <3>2, Children
  <2> QED
    BY <2>1, <2>2
<1>2. SUFFICES ASSUME S # {} PROVE FALSE
  <2>1. n \in Nodes /\ Len(path) \in Nat
    BY <1>1
  <2> QED
    BY <2>1
<1>3. PICK k \in S : \A j \in S : ~ j < k
  <2>1. S \in SUBSET Nat
    OBVIOUS
  <2> HIDE DEF S
  <2> QED
    BY <1>2, <2>1, Shortest
<1>4. PICK p \in Seq(PathStep), m \in Nodes : Bad(p, m) /\ Len(p) = k
  BY <1>3
<1>5. p # <<>>
  <2> SUFFICES ASSUME p = <<>> PROVE Divides(p, m)
    BY <1>4
  <2>1. DOMAIN p = {}
    OBVIOUS
  <2>2. Earlier(p) = {} /\ Later(p) = {}
    BY <2>1, Zenon DEF Earlier, Later
  <2>3. Top(p, m) = m
    BY DEF Top
  <2> QED
    BY <2>2, <2>3, Zenon DEF Divides
<1> DEFINE f == Front(p)
           a == Back(p).ptr.node
<1>6. /\ f \in Seq(PathStep) /\ LeadsTo(f, a)
      /\ Len(f) \in Nat /\ Len(f) < Len(p)
  <2>1. f \in Seq(PathStep) /\ LeadsTo(f, a)
    BY <1>4, <1>5, LeadsToFront
  <2>2. Len(f) = Len(p) - 1 /\ Len(p) \in Nat \ {0}
    BY <1>4, <1>5 DEF Front
  <2> QED
    BY <2>1, <2>2
<1>7. a \in Nodes
  BY <1>1, <1>6
<1>8. ~Bad(f, a)
  <2> HIDE DEF Bad, f, a
  <2>1. SUFFICES ASSUME Bad(f, a) PROVE FALSE
    OBVIOUS
  <2>2. Len(f) \in S
    BY <1>6, <1>7, <2>1
  <2> HIDE DEF S
  <2> QED
    BY <1>3, <1>4, <1>6, <2>2
<1>9. Divides(f, a)
  BY <1>6, <1>8
<1>10. Divides(p, m)
  BY <1>4, <1>5, <1>9, DividesDown
<1> QED
  BY <1>4, <1>10

\* What is under the node a path leads to is under the child at each of its steps.
LEMMA Contained ==
  ASSUME NEW path \in Seq(PathStep), NEW n, LeadsTo(path, n), NEW d \in DOMAIN path
  PROVE  KeysUnder(n) \subseteq KeysUnder(Kid[path[d].ptr.node][path[d].pos + 1])
<1> DEFINE Holds(p, m, e) ==
             KeysUnder(m) \subseteq KeysUnder(Kid[p[e].ptr.node][p[e].pos + 1])
           Bad(p, m) == LeadsTo(p, m) /\ \E e \in DOMAIN p : ~Holds(p, m, e)
           S == {k \in Nat : \E p \in Seq(PathStep) : (\E m : Bad(p, m)) /\ Len(p) = k}
<1>1. SUFFICES ASSUME S # {} PROVE FALSE
  <2>1. Len(path) \in Nat
    OBVIOUS
  <2> QED
    BY <2>1
<1>2. PICK k \in S : \A j \in S : ~ j < k
  <2>1. S \in SUBSET Nat
    OBVIOUS
  <2> HIDE DEF S
  <2> QED
    BY <1>1, <2>1, Shortest
<1>3. PICK p \in Seq(PathStep) : (\E m : Bad(p, m)) /\ Len(p) = k
  BY <1>2
<1>4. PICK m : Bad(p, m)
  BY <1>3
<1>5. PICK e \in DOMAIN p : ~Holds(p, m, e)
  BY <1>4
<1>6. p # <<>>
  BY <1>5
<1> DEFINE f == Front(p)
           step == Back(p)
           a == step.ptr.node
<1>7. /\ f \in Seq(PathStep) /\ LeadsTo(f, a)
      /\ step \in PathStep /\ a \in NonLeaves /\ step.pos < NumValues(a)
      /\ m = Kid[a][step.pos + 1]
  BY <1>4, <1>6, LeadsToFront
<1>8. /\ Len(p) \in Nat \ {0} /\ Len(f) = Len(p) - 1 /\ DOMAIN p = 1..Len(p)
      /\ \A b \in 1..(Len(p) - 1) : f[b] = p[b] /\ b \in DOMAIN f
      /\ step = p[Len(p)]
  BY <1>6, FrontOf
<1>9. KeysUnder(m) \subseteq KeysUnder(a)
  <2>1. Splits(step)
    BY <1>7, StepsSplit
  <2> QED
    BY <1>7, <2>1 DEF Splits
<1> HIDE DEF f, step, a
<1>10. CASE e = Len(p)
  BY <1>5, <1>7, <1>8, <1>10 DEF a
<1>11. CASE e # Len(p)
  <2>1. e \in 1..(Len(p) - 1)
    BY <1>5, <1>8, <1>11
  <2>2. f[e] = p[e] /\ e \in DOMAIN f
    BY <1>8, <2>1
  <2>3. ~Holds(f, a, e)
    BY <1>5, <1>9, <2>2
  <2>4. Bad(f, a)
    BY <1>7, <2>2, <2>3
  <2>5. Len(f) \in Nat /\ Len(f) < k
    BY <1>3, <1>8
  <2> HIDE DEF Bad
  <2>6. Len(f) \in S
    BY <1>7, <2>4, <2>5
  <2> HIDE DEF S
  <2> QED
    BY <1>2, <2>5, <2>6
<1> QED
  BY <1>10, <1>11

\* The node a path has reached before its d-th step.
Reached(path, n, d) == IF d = Len(path) + 1 THEN n ELSE path[d].ptr.node

\* Two paths from one root that go the same way at every node lead to one leaf.
LEMMA SameLeaf ==
  ASSUME NEW p \in Seq(PathStep), NEW q \in Seq(PathStep),
         NEW n \in Leaves, NEW m \in Leaves, LeadsTo(p, n), LeadsTo(q, m),
         Top(p, n) = Top(q, m),
         \A d \in DOMAIN p \cap DOMAIN q :
           p[d].ptr.node = q[d].ptr.node => p[d].pos = q[d].pos
  PROVE  n = m
<1> DEFINE Good(d) == d <= Len(q) + 1 /\ Reached(p, n, d) = Reached(q, m, d)
           S == {d \in Nat : 1 <= d /\ d <= Len(p) + 1 /\ ~Good(d)}
<1>0. /\ Len(p) \in Nat /\ Len(q) \in Nat /\ DOMAIN p = 1..Len(p) /\ DOMAIN q = 1..Len(q)
  OBVIOUS
<1>1. S = {}
  <2>1. SUFFICES ASSUME S # {} PROVE FALSE
    OBVIOUS
  <2>2. PICK d \in S : \A e \in S : ~ e < d
    <3>1. S \in SUBSET Nat
      OBVIOUS
    <3> HIDE DEF S
    <3> QED
      BY <2>1, <3>1, Shortest
  <2>3. d \in Nat /\ 1 <= d /\ d <= Len(p) + 1 /\ ~Good(d)
    BY <2>2
  <2>4. d # 1
    <3>1. Reached(p, n, 1) = Top(p, n) /\ Reached(q, m, 1) = Top(q, m)
      BY <1>0 DEF Reached, Top
    <3>2. Good(1)
      BY <1>0, <3>1
    <3> QED
      BY <2>3, <3>2
  <2> DEFINE e == d - 1
  <2>5. e \in Nat /\ 1 <= e /\ e <= Len(p) /\ d = e + 1 /\ e < d
    BY <1>0, <2>3, <2>4
  <2> HIDE DEF e
  <2>6. Good(e)
    <3>1. e \notin S
      BY <2>2, <2>5
    <3> QED
      BY <1>0, <2>5, <3>1
  <2>7. Reached(p, n, e) = p[e].ptr.node /\ p[e].ptr.node \in NonLeaves
    BY <1>0, <2>5 DEF Reached, LeadsTo
  <2>8. e <= Len(q) /\ Reached(q, m, e) = q[e].ptr.node
    <3>1. e # Len(q) + 1
      <4>1. SUFFICES ASSUME e = Len(q) + 1 PROVE FALSE
        OBVIOUS
      <4>2. Reached(q, m, e) = m
        BY <4>1 DEF Reached
      <4> QED
        BY <2>6, <2>7, <4>2 DEF NonLeaves
    <3> QED
      BY <1>0, <2>5, <2>6, <3>1 DEF Reached
  <2>9. e \in DOMAIN p \cap DOMAIN q /\ p[e].ptr.node = q[e].ptr.node /\ p[e].pos = q[e].pos
    <3>1. e \in DOMAIN p /\ e \in DOMAIN q
      BY <1>0, <2>5, <2>8
    <3>2. p[e].ptr.node = q[e].ptr.node
      BY <2>6, <2>7, <2>8
    <3> QED
      BY <3>1, <3>2
  <2>10. Reached(p, n, d) = Kid[p[e].ptr.node][p[e].pos + 1]
    BY <1>0, <2>5, <2>9 DEF Reached, LeadsTo
  <2>11. Reached(q, m, d) = Kid[q[e].ptr.node][q[e].pos + 1]
    BY <1>0, <2>5, <2>8, <2>9 DEF Reached, LeadsTo
  <2>12. Good(d)
    BY <1>0, <2>5, <2>8, <2>9, <2>10, <2>11
  <2> QED
    BY <2>3, <2>12
<1>2. Good(Len(p) + 1)
  BY <1>0, <1>1
<1>3. Reached(p, n, Len(p) + 1) = n
  BY DEF Reached
<1>4. Reached(q, m, Len(p) + 1) = n /\ Len(p) + 1 <= Len(q) + 1
  BY <1>2, <1>3
<1>5. CASE Len(p) = Len(q)
  BY <1>4, <1>5 DEF Reached
<1>6. CASE Len(p) # Len(q)
  <2>1. Len(p) + 1 \in DOMAIN q /\ Len(p) + 1 # Len(q) + 1
    <3>1. Len(p) + 1 \in 1..Len(q) /\ Len(p) + 1 # Len(q) + 1
      <4>1. \A a, b \in Nat : a + 1 <= b + 1 /\ a # b => a + 1 \in 1..b /\ a + 1 # b + 1
        OBVIOUS
      <4> QED
        BY <1>0, <1>4, <1>6, <4>1
    <3> QED
      BY <1>0, <3>1
  <2>2. q[Len(p) + 1].ptr.node \in NonLeaves
    BY <2>1 DEF LeadsTo
  <2> QED
    BY <1>4, <2>1, <2>2 DEF Reached, NonLeaves
<1> QED
  BY <1>5, <1>6

-----------------------------------------------------------------------------
(***************************************************************************)
(* Where an iterator stands.                                               *)
(***************************************************************************)

\* An iterator that can be used, where the walk has left it.
Stands(m) == m \in Impl /\ m.leaf # NULL /\ WellPlaced(m) /\ Settled(m)

LEMMA Standing ==
  ASSUME NEW m, Stands(m)
  PROVE  /\ m.leaf.node \in Leaves /\ m.leaf.node \in Nodes
         /\ m.pos \in Nat /\ NumValues(m.leaf.node) \in Nat
         /\ m.pos <= NumValues(m.leaf.node)
         /\ m.path \in Seq(PathStep) /\ LeadsTo(m.path, m.leaf.node)
         /\ Divides(m.path, m.leaf.node)
         /\ RootOf(m) = Top(m.path, m.leaf.node) /\ RootOf(m) \in Roots
         /\ Dereference(m) \in Ats
         /\ Dereference(m) \in Int <=> m.pos < NumValues(m.leaf.node)
         /\ Position(m) = [tree |-> RootOf(m), at |-> Dereference(m)]
         /\ Position(m) # None
<1> DEFINE n == m.leaf.node
<1>1. /\ n \in Leaves /\ m.pos <= NumValues(n) /\ LeadsTo(m.path, n)
      /\ m.pos \in 0..UintMax /\ m.path \in Seq(PathStep) /\ m.leaf # NULL
  BY DEF Stands, WellPlaced, Impl
<1>2. n \in Nodes /\ NumValues(n) \in Nat /\ m.pos \in Nat
  <2>1. n \in Nodes
    BY <1>1, NodesAssumption
  <2> QED
    BY <1>1, <2>1, Sizes
<1>3. Divides(m.path, n)
  BY <1>1, PathsDivide
<1>4. RootOf(m) = Top(m.path, n) /\ RootOf(m) \in Roots
  BY <1>1 DEF RootOf, Top, LeadsTo
<1>5. /\ Dereference(m) \in Ats
      /\ Dereference(m) \in Int <=> m.pos < NumValues(n)
  <2>1. CASE m.pos < NumValues(n)
    <3>1. m.pos + 1 \in 1..NumValues(n)
      BY <1>2, <2>1
    <3>2. Key[n][m.pos + 1] \in Int
      BY <1>2, <3>1, KeyIsInt
    <3> QED
      BY <2>1, <3>2 DEF Dereference, Ats
  <2>2. CASE ~ m.pos < NumValues(n)
    BY <2>2, MarksAssumption DEF Dereference, Ats
  <2> QED
    BY <2>1, <2>2
<1>6. Position(m) = [tree |-> RootOf(m), at |-> Dereference(m)]
  BY <1>1 DEF Position
<1>7. Position(m) # None
  <2>1. [tree |-> RootOf(m), at |-> Dereference(m)] \in [tree : Roots, at : Int \cup {End}]
    BY <1>4, <1>5 DEF Ats
  <2> QED
    BY <1>6, <2>1, MarksAssumption
<1> QED
  BY <1>1, <1>2, <1>3, <1>4, <1>5, <1>6, <1>7

\* An iterator at the end is past the last entry of the last leaf,
LEMMA AtEndLast ==
  ASSUME NEW m, Stands(m), Dereference(m) = End, NEW d \in DOMAIN m.path
  PROVE  m.path[d].pos = NumValues(m.path[d].ptr.node) - 1
<1> DEFINE step == m.path[d]
<1>1. End \notin Int
  BY MarksAssumption
<1>2. m.pos = NumValues(m.leaf.node)
  BY <1>1, Standing
<1>3. ~HasNext(m.path)
  BY <1>2 DEF Stands, Settled
<1>4. ~ step.pos + 1 < NumValues(step.ptr.node)
  BY <1>3 DEF HasNext
<1>5. step \in PathStep /\ step.ptr.node \in NonLeaves /\ step.pos < NumValues(step.ptr.node)
  <2>1. m.path \in Seq(PathStep) /\ LeadsTo(m.path, m.leaf.node)
    BY Standing
  <2> QED
    BY <2>1 DEF LeadsTo
<1>6. step.pos \in Nat /\ NumValues(step.ptr.node) \in Nat
  BY <1>5, Sizes, NodesAssumption DEF PathStep, NonLeaves
<1> QED
  BY <1>4, <1>5, <1>6

\* and one at a key came down where the key is.
LEMMA KeyShowsTheWay ==
  ASSUME NEW n \in NonLeaves, NEW p \in Nat, NEW q \in Nat,
         p < NumValues(n), q < NumValues(n), NEW k,
         k \in KeysUnder(Kid[n][p + 1]), k \in KeysUnder(Kid[n][q + 1])
  PROVE  p = q
<1>1. NumValues(n) \in Nat /\ n \in Nodes
  BY Sizes DEF NonLeaves
<1>2. /\ p + 1 \in 1..NumValues(n) /\ q + 1 \in 1..NumValues(n)
      /\ p < q => p + 1 < q + 1
      /\ q < p => q + 1 < p + 1
  BY <1>1
<1>3. k \in Int
  <2>1. Kid[n][p + 1] \in Nodes
    BY Children
  <2> QED
    BY <2>1, KeysAreInts
<1>4. ~ p < q
  BY <1>2, <1>3, KidsUnder
<1>5. ~ q < p
  BY <1>2, <1>3, KidsUnder
<1> QED
  BY <1>4, <1>5

LEMMA KeyAt ==
  ASSUME NEW m, Stands(m), Dereference(m) \in Int
  PROVE  Dereference(m) \in KeysUnder(m.leaf.node)
<1>1. /\ m.leaf.node \in Leaves /\ m.pos \in Nat /\ m.pos < NumValues(m.leaf.node)
      /\ NumValues(m.leaf.node) \in Nat
  BY Standing
<1>2. m.pos + 1 \in 1..NumValues(m.leaf.node)
  BY <1>1
<1>3. Dereference(m) = Key[m.leaf.node][m.pos + 1]
  BY <1>1 DEF Dereference
<1> QED
  BY <1>1, <1>2, <1>3, LeafKeys

LEMMA OneLeaf ==
  ASSUME NEW m, NEW o, Stands(m), Stands(o), Position(m) = Position(o)
  PROVE  m.leaf = o.leaf /\ m.pos = o.pos
<1> DEFINE n == m.leaf.node
           k == Dereference(m)
<1>1. /\ n \in Leaves /\ o.leaf.node \in Leaves
      /\ m.path \in Seq(PathStep) /\ o.path \in Seq(PathStep)
      /\ LeadsTo(m.path, n) /\ LeadsTo(o.path, o.leaf.node)
      /\ m.pos \in Nat /\ o.pos \in Nat /\ m.pos <= NumValues(n)
      /\ o.pos <= NumValues(o.leaf.node)
      /\ NumValues(n) \in Nat /\ NumValues(o.leaf.node) \in Nat /\ n \in Nodes
      /\ RootOf(m) = Top(m.path, n) /\ RootOf(o) = Top(o.path, o.leaf.node)
      /\ k \in Ats
      /\ k \in Int <=> m.pos < NumValues(n)
      /\ Dereference(o) \in Int <=> o.pos < NumValues(o.leaf.node)
  BY Standing
<1>2. RootOf(m) = RootOf(o) /\ k = Dereference(o)
  <2>1. /\ Position(m) = [tree |-> RootOf(m), at |-> Dereference(m)]
        /\ Position(o) = [tree |-> RootOf(o), at |-> Dereference(o)]
    BY Standing
  <2>2. /\ [tree |-> RootOf(m), at |-> Dereference(m)].tree = RootOf(m)
        /\ [tree |-> RootOf(o), at |-> Dereference(o)].tree = RootOf(o)
        /\ [tree |-> RootOf(m), at |-> Dereference(m)].at = Dereference(m)
        /\ [tree |-> RootOf(o), at |-> Dereference(o)].at = Dereference(o)
    OBVIOUS
  <2> QED
    BY <2>1, <2>2
<1>3. ASSUME NEW d \in DOMAIN m.path \cap DOMAIN o.path,
             m.path[d].ptr.node = o.path[d].ptr.node
      PROVE  m.path[d].pos = o.path[d].pos
  <2>1. CASE k = End
    BY <1>2, <1>3, <2>1, AtEndLast
  <2>2. CASE k \in Int
    <3> DEFINE at == m.path[d].ptr.node
               p == m.path[d].pos
               q == o.path[d].pos
    <3>1. /\ m.path[d] \in PathStep /\ o.path[d] \in PathStep
          /\ at \in NonLeaves /\ p < NumValues(at) /\ q < NumValues(at)
      BY <1>1, <1>3 DEF LeadsTo
    <3>2. p \in Nat /\ q \in Nat
      BY <3>1, NodesAssumption DEF PathStep
    <3>3. k \in KeysUnder(n) /\ k \in KeysUnder(o.leaf.node)
      BY <1>2, <2>2, KeyAt
    <3>4. d \in DOMAIN m.path /\ d \in DOMAIN o.path
      OBVIOUS
    <3>5. k \in KeysUnder(Kid[at][p + 1])
      BY <1>1, <3>3, <3>4, Contained
    <3>6. k \in KeysUnder(Kid[at][q + 1])
      BY <1>1, <1>3, <3>3, <3>4, Contained
    <3> HIDE DEF at, p, q, k
    <3>7. p = q
      BY <3>1, <3>2, <3>5, <3>6, KeyShowsTheWay
    <3> QED
      BY <3>7 DEF p, q
  <2> QED
    BY <1>1, <2>1, <2>2 DEF Ats
<1>4. o.leaf.node = n
  <2>1. Top(m.path, n) = Top(o.path, o.leaf.node)
    BY <1>1, <1>2
  <2> QED
    BY <1>1, <1>3, <2>1, SameLeaf
<1>5. m.leaf = o.leaf
  BY <1>4 DEF Stands, Settled
<1>6. m.pos = o.pos
  <2>1. CASE k = End
    <3>1. End \notin Int
      BY MarksAssumption
    <3> QED
      BY <1>1, <1>2, <1>4, <2>1, <3>1
  <2>2. CASE k \in Int
    <3>1. m.pos < NumValues(n) /\ o.pos < NumValues(n)
      BY <1>1, <1>2, <1>4, <2>2
    <3>2. Key[n][m.pos + 1] = Key[n][o.pos + 1]
      BY <1>2, <1>4, <3>1 DEF Dereference
    <3>3. m.pos + 1 \in 1..NumValues(n) /\ o.pos + 1 \in 1..NumValues(n)
      BY <1>1, <3>1
    <3>4. Key[n][m.pos + 1] \in Int /\ Key[n][o.pos + 1] \in Int
      BY <1>1, <3>3, KeyIsInt
    <3>5. ~ m.pos + 1 < o.pos + 1 /\ ~ o.pos + 1 < m.pos + 1
      BY <1>1, <3>2, <3>3, <3>4, KeysAscend
    <3> QED
      BY <1>1, <3>5
  <2> QED
    BY <1>1, <2>1, <2>2 DEF Ats
<1> QED
  BY <1>5, <1>6

LEMMA OnePosition ==
  ASSUME NEW m, NEW o, Stands(m), Stands(o), m.leaf = o.leaf, m.pos = o.pos
  PROVE  Position(m) = Position(o)
<1> DEFINE n == m.leaf.node
<1>1. Dereference(m) = Dereference(o)
  BY DEF Dereference
<1>2. /\ n \in Leaves /\ Divides(m.path, n) /\ Divides(o.path, n)
      /\ RootOf(m) = Top(m.path, n) /\ RootOf(o) = Top(o.path, n)
      /\ RootOf(m) \in Roots /\ RootOf(o) \in Roots
  BY Standing
<1>3. Under[n] = {n}
  BY <1>2, UnderAssumption
<1>4. n \in Under[RootOf(m)] /\ n \in Under[RootOf(o)]
  BY <1>2, <1>3 DEF Divides
<1>5. RootOf(m) = RootOf(o)
  BY <1>2, <1>4, ForestAssumption
<1> QED
  BY <1>1, <1>5, Standing

-----------------------------------------------------------------------------
(***************************************************************************)
(* What is next to an iterator.                                            *)
(***************************************************************************)

LEMMA NoLater ==
  ASSUME NEW path \in Seq(PathStep), NEW n, LeadsTo(path, n), ~HasNext(path)
  PROVE  Later(path) = {}
<1>1. ASSUME NEW d \in DOMAIN path
      PROVE  After(path[d]) = {}
  <2>1. /\ path[d] \in PathStep /\ path[d].ptr.node \in NonLeaves
        /\ ~ path[d].pos + 1 < NumValues(path[d].ptr.node)
    BY DEF HasNext, LeadsTo
  <2>2. path[d].pos \in Nat /\ NumValues(path[d].ptr.node) \in Nat
    BY <2>1, Sizes, NodesAssumption DEF PathStep, NonLeaves
  <2>3. (path[d].pos + 2)..NumValues(path[d].ptr.node) = {}
    BY <2>1, <2>2
  <2> QED
    BY <2>3, Zenon DEF After
<1> QED
  BY <1>1, Zenon DEF Later

LEMMA Sides ==
  ASSUME NEW m, Stands(m)
  PROVE  LET all == KeysUnder(RootOf(m))
             n == m.leaf.node
         IN /\ all \subseteq Int
            /\ Left(m) \subseteq all /\ Right(m) \subseteq all
            /\ m.pos < NumValues(n) =>
                 /\ Key[n][m.pos + 1] \in Int
                 /\ all = Left(m) \cup {Key[n][m.pos + 1]} \cup Right(m)
                 /\ \A x \in Left(m) : x < Key[n][m.pos + 1]
                 /\ \A x \in Right(m) : Key[n][m.pos + 1] < x
            /\ m.pos = NumValues(n) => Left(m) = all
<1> DEFINE n == m.leaf.node
           all == KeysUnder(RootOf(m))
           low == {Key[n][p] : p \in 1..m.pos}
           high == {Key[n][p] : p \in (m.pos + 2)..NumValues(n)}
           E == Earlier(m.path)
           L == Later(m.path)
           k == Key[n][m.pos + 1]
<1>1. /\ n \in Leaves /\ n \in Nodes /\ m.pos \in Nat /\ NumValues(n) \in Nat
      /\ m.pos <= NumValues(n) /\ RootOf(m) \in Roots
      /\ m.path \in Seq(PathStep) /\ LeadsTo(m.path, n)
  BY Standing
<1>2. all \subseteq Int
  BY <1>1, KeysAreInts, NodesAssumption
<1>3. /\ all = E \cup KeysUnder(n) \cup L
      /\ \A x \in E, y \in KeysUnder(n) : x < y
      /\ \A y \in KeysUnder(n), z \in L : y < z
  <2>1. Divides(m.path, n) /\ RootOf(m) = Top(m.path, n)
    BY Standing
  <2> QED
    BY <2>1 DEF Divides
<1>4. Left(m) = low \cup E /\ Right(m) = high \cup L
  BY DEF Left, Right
<1>5. /\ KeysUnder(n) = {Key[n][p] : p \in 1..NumValues(n)}
      /\ \A p \in 1..NumValues(n) : Key[n][p] \in Int
      /\ \A p, q \in 1..NumValues(n) : p < q => Key[n][p] < Key[n][q]
  BY <1>1, LeafKeys, KeyIsInt, KeysAscend
<1>6. low \subseteq KeysUnder(n) /\ high \subseteq KeysUnder(n)
  <2>1. /\ \A p \in 1..m.pos : p \in 1..NumValues(n)
        /\ \A p \in (m.pos + 2)..NumValues(n) : p \in 1..NumValues(n)
    BY <1>1
  <2> QED
    BY <1>5, <2>1
<1>7. ASSUME m.pos < NumValues(n)
      PROVE  /\ k \in Int /\ k \in KeysUnder(n)
             /\ KeysUnder(n) = low \cup {k} \cup high
             /\ \A x \in low : x < k
             /\ \A x \in high : k < x
  <2>1. /\ m.pos + 1 \in 1..NumValues(n)
        /\ \A p \in 1..m.pos : p \in 1..NumValues(n) /\ p < m.pos + 1
        /\ \A p \in (m.pos + 2)..NumValues(n) : p \in 1..NumValues(n) /\ m.pos + 1 < p
        /\ \A p \in 1..NumValues(n) :
             p \in 1..m.pos \/ p = m.pos + 1 \/ p \in (m.pos + 2)..NumValues(n)
    BY <1>1, <1>7
  <2>2. k \in Int /\ k \in KeysUnder(n)
    BY <1>5, <2>1
  <2>3. KeysUnder(n) \subseteq low \cup {k} \cup high
    BY <1>5, <2>1, Zenon
  <2>4. (\A x \in low : x < k) /\ (\A x \in high : k < x)
    BY <1>5, <2>1, Zenon
  <2> QED
    BY <1>6, <2>2, <2>3, <2>4
<1>8. ASSUME m.pos = NumValues(n)
      PROVE  Left(m) = all
  <2>1. low = KeysUnder(n)
    BY <1>5, <1>8
  <2>2. L = {}
    <3>1. ~HasNext(m.path)
      BY <1>8 DEF Stands, Settled
    <3> QED
      BY <1>1, <3>1, NoLater
  <2> QED
    BY <1>3, <1>4, <2>1, <2>2
<1> HIDE DEF low, high, E, L, all, k, n
<1>9. Left(m) \subseteq all /\ Right(m) \subseteq all
  BY <1>3, <1>4, <1>6
<1>10. ASSUME m.pos < NumValues(n)
       PROVE  /\ k \in Int
              /\ all = Left(m) \cup {k} \cup Right(m)
              /\ \A x \in Left(m) : x < k
              /\ \A x \in Right(m) : k < x
  BY <1>3, <1>4, <1>7, <1>10, Zenon
<1> QED
  BY <1>2, <1>8, <1>9, <1>10 DEF all, n, k

\* ++ goes to the least of the entries to the right, -- to the greatest of those
\* to the left.
LEMMA NextIsRight ==
  ASSUME NEW m, Stands(m), m.pos < NumValues(m.leaf.node)
  PROVE  /\ Cursor!NextOf(Entries[RootOf(m)], Dereference(m)) = Cursor!FirstOf(Right(m))
         /\ Cursor!FirstOf(Right(m)) \in Ats
<1> DEFINE all == KeysUnder(RootOf(m))
           k == Key[m.leaf.node][m.pos + 1]
<1>1. /\ all \subseteq Int /\ k \in Int
      /\ all = Left(m) \cup {k} \cup Right(m)
      /\ \A x \in Left(m) : x < k
      /\ \A x \in Right(m) : k < x
  BY Sides
<1>2. Entries[RootOf(m)] = all
  BY Standing DEF Entries
<1>3. Dereference(m) = k
  BY DEF Dereference
<1> HIDE DEF all, k
<1>4. {other \in all : other > k} = Right(m)
  <2>1. \A x \in Left(m) : x \in Int /\ ~(x > k)
    BY <1>1
  <2>2. \A x \in Right(m) : x \in Int /\ x > k
    BY <1>1
  <2>3. ~(k > k)
    BY <1>1
  <2> QED
    BY <1>1, <2>1, <2>2, <2>3
<1>5. Cursor!FirstOf(Right(m)) \in Ats
  <2>1. CASE Right(m) = {}
    BY <2>1 DEF Cursor!FirstOf, Ats
  <2>2. CASE Right(m) # {}
    <3>1. Right(m) \in SUBSET Int /\ \A x \in Right(m) : k <= x
      BY <1>1
    <3>2. Cursor!Least(Right(m)) \in Right(m)
      BY <1>1, <2>2, <3>1, HasLeast
    <3> QED
      BY <2>2, <3>1, <3>2 DEF Cursor!FirstOf, Ats
  <2> QED
    BY <2>1, <2>2
<1> QED
  BY <1>2, <1>3, <1>4, <1>5 DEF Cursor!NextOf

\* The entries of a tree have a least one.
LEMMA TreeHasFirst ==
  ASSUME NEW r \in Roots
  PROVE  /\ Cursor!FirstOf(KeysUnder(r)) \in Ats
         /\ KeysUnder(r) # {} =>
              /\ Cursor!FirstOf(KeysUnder(r)) \in Int
              /\ \A x \in KeysUnder(r) : Cursor!FirstOf(KeysUnder(r)) <= x
<1> DEFINE S == KeysUnder(r)
<1>1. r \in Nodes /\ S \in SUBSET Int
  BY NodesAssumption, KeysAreInts
<1>2. CASE S = {}
  BY <1>2 DEF Cursor!FirstOf, Ats
<1>3. CASE S # {}
  <2>1. /\ Key[r][1] \in Int /\ \A x \in S : Key[r][1] <= x
    <3>1. CASE r \in Leaves
      <4>1. S = {Key[r][p] : p \in 1..NumValues(r)}
        BY <3>1, LeafKeys
      <4>2. NumValues(r) \in Nat /\ NumValues(r) # 0
        BY <1>1, <1>3, <4>1, Sizes
      <4>3. 1 \in 1..NumValues(r)
        BY <4>2
      <4>4. \A p \in 1..NumValues(r) : Key[r][p] \in Int /\ (1 < p => Key[r][1] < Key[r][p])
        BY <1>1, <4>3, KeyIsInt, KeysAscend
      <4>5. \A p \in 1..NumValues(r) : Key[r][1] <= Key[r][p]
        <5>1. ASSUME NEW p \in 1..NumValues(r)
              PROVE  Key[r][1] <= Key[r][p]
          <6>1. p = 1 \/ 1 < p
            BY <4>2
          <6>2. Key[r][p] \in Int /\ Key[r][1] \in Int
            BY <4>3, <4>4
          <6> QED
            BY <4>4, <6>1, <6>2
        <5> QED
          BY <5>1
      <4> QED
        BY <4>1, <4>3, <4>4, <4>5
    <3>2. CASE r \notin Leaves
      <4>1. r \in NonLeaves /\ NumValues(r) \in Nat /\ NumValues(r) > 0
        BY <1>1, <3>2, Sizes, ShapeAssumption DEF NonLeaves
      <4>2. 1 \in 1..NumValues(r)
        BY <4>1
      <4>3. Key[r][1] \in Int
        BY <1>1, <4>2, KeyIsInt
      <4>4. /\ S = UNION {KeysUnder(Kid[r][p]) : p \in 1..NumValues(r)}
            /\ \A p \in 1..NumValues(r) : \A x \in KeysUnder(Kid[r][p]) : Key[r][1] <= x
        BY <4>1, KidsUnder
      <4> QED
        BY <4>3, <4>4
    <3> QED
      BY <3>1, <3>2
  <2>2. /\ Cursor!Least(S) \in S /\ \A x \in S : Cursor!Least(S) <= x
    <3> HIDE DEF S
    <3> QED
      BY <1>1, <1>3, <2>1, HasLeast
  <2>3. Cursor!FirstOf(S) = Cursor!Least(S)
    BY <1>3 DEF Cursor!FirstOf
  <2> HIDE DEF S
  <2> QED
    BY <1>1, <1>3, <2>2, <2>3 DEF S, Ats
<1> QED
  BY <1>2, <1>3

\* An iterator that is not at the beginning has an entry to its left.
LEMMA HasLeft ==
  ASSUME NEW m, Stands(m), m.pos > 0 \/ HasBefore(m.path)
  PROVE  Left(m) # {}
<1>1. /\ m.pos \in Nat /\ m.path \in Seq(PathStep) /\ LeadsTo(m.path, m.leaf.node)
  BY Standing
<1>2. CASE m.pos > 0
  <2>1. 1 \in 1..m.pos
    BY <1>1, <1>2
  <2> QED
    BY <2>1 DEF Left
<1>3. CASE HasBefore(m.path)
  <2>1. PICK d \in DOMAIN m.path : m.path[d].pos > 0
    BY <1>3 DEF HasBefore
  <2> DEFINE n == m.path[d].ptr.node
  <2>2. m.path[d] \in PathStep /\ n \in NonLeaves /\ m.path[d].pos < NumValues(n)
    BY <1>1 DEF LeadsTo
  <2>3. m.path[d].pos \in Nat /\ NumValues(n) \in Nat
    BY <2>2, Sizes, NodesAssumption DEF PathStep, NonLeaves
  <2>4. 0 \in Nat /\ 0 < NumValues(n) /\ 0 + 1 = 1
    BY <2>2, <2>3
  <2>5. Kid[n][1] \in Nodes /\ Kid[n][1] \notin Roots
    BY <2>2, <2>4, Children
  <2>6. KeysUnder(Kid[n][1]) # {}
    BY <2>5, ForestAssumption
  <2>7. 1 \in 1..m.path[d].pos
    BY <2>1, <2>3
  <2>8. KeysUnder(Kid[n][1]) \subseteq Before(m.path[d])
    BY <2>7 DEF Before
  <2>9. Before(m.path[d]) \subseteq Earlier(m.path)
    BY DEF Earlier
  <2> QED
    BY <2>6, <2>8, <2>9 DEF Left
<1> QED
  BY <1>2, <1>3

\* A leaf that a path leads to has entries.
LEMMA LeafNotEmpty ==
  ASSUME NEW path \in Seq(PathStep), path # <<>>, NEW n, LeadsTo(path, n)
  PROVE  n \in Nodes /\ n \notin Roots /\ NumValues(n) > 0
<1>1. /\ Back(path) \in PathStep /\ Back(path).ptr.node \in NonLeaves
      /\ Back(path).pos < NumValues(Back(path).ptr.node)
      /\ n = Kid[Back(path).ptr.node][Back(path).pos + 1]
  BY LeadsToFront
<1>2. Back(path).pos \in Nat
  BY <1>1, NodesAssumption DEF PathStep
<1>3. n \in Nodes /\ n \notin Roots
  BY <1>1, <1>2, Children
<1> QED
  BY <1>3, ShapeAssumption

LEMMA PrevIsLeft ==
  ASSUME NEW m, Stands(m), m.pos > 0 \/ HasBefore(m.path)
  PROVE  /\ Cursor!PrevOf(Entries[RootOf(m)], Dereference(m)) = Cursor!Greatest(Left(m))
         /\ Cursor!Greatest(Left(m)) \in Ats
         /\ Dereference(m) # Cursor!FirstOf(Entries[RootOf(m)])
<1> DEFINE all == KeysUnder(RootOf(m))
           n == m.leaf.node
           k == Key[n][m.pos + 1]
<1>1. /\ all \subseteq Int /\ Left(m) \subseteq all
      /\ m.pos < NumValues(n) =>
           /\ k \in Int
           /\ all = Left(m) \cup {k} \cup Right(m)
           /\ \A x \in Left(m) : x < k
           /\ \A x \in Right(m) : k < x
      /\ m.pos = NumValues(n) => Left(m) = all
  BY Sides
<1>2. /\ Entries[RootOf(m)] = all /\ m.pos \in Nat /\ NumValues(n) \in Nat
      /\ m.pos <= NumValues(n) /\ n \in Nodes /\ n \in Leaves
      /\ RootOf(m) \in Roots
      /\ m.path \in Seq(PathStep) /\ LeadsTo(m.path, n)
  BY Standing DEF Entries
<1>3. Left(m) # {}
  BY HasLeft
<1>4. /\ Cursor!FirstOf(all) \in Int
      /\ \A x \in all : Cursor!FirstOf(all) <= x
  BY <1>1, <1>2, <1>3, TreeHasFirst
<1>5. CASE m.pos < NumValues(n)
  <2>1. Dereference(m) = k
    BY <1>5 DEF Dereference
  <2>2. k # End
    BY <1>1, <1>5, MarksAssumption
  <2> HIDE DEF all, k, n
  <2>3. {other \in all : other < k} = Left(m)
    <3>1. \A x \in Left(m) : x \in Int /\ x < k
      BY <1>1, <1>5
    <3>2. ASSUME NEW x \in Right(m)
          PROVE  x \in Int /\ ~(x < k)
      <4>1. x \in Int /\ k \in Int /\ k < x
        BY <1>1, <1>5
      <4> QED
        BY <4>1
    <3>3. ~(k < k)
      BY <1>1, <1>5
    <3> QED
      BY <1>1, <1>5, <3>1, <3>2, <3>3
  <2>4. Cursor!PrevOf(all, k) = Cursor!Greatest(Left(m))
    BY <2>2, <2>3 DEF Cursor!PrevOf
  <2>5. Cursor!Greatest(Left(m)) \in Left(m)
    <3>1. Left(m) \in SUBSET Int /\ k \in Int
      BY <1>1, <1>5
    <3>2. ASSUME NEW x \in Left(m)
          PROVE  x <= k
      <4>1. x \in Int /\ x < k
        BY <1>1, <1>5
      <4> QED
        BY <3>1, <4>1
    <3> QED
      BY <1>3, <3>1, <3>2, HasGreatest
  <2>6. k # Cursor!FirstOf(all)
    <3>1. PICK x \in Left(m) : TRUE
      BY <1>3
    <3>2. x \in Int /\ x < k /\ Cursor!FirstOf(all) <= x
      BY <1>1, <1>4, <1>5, <3>1
    <3> QED
      BY <1>1, <1>4, <1>5, <3>2
  <2> QED
    BY <1>1, <1>2, <2>1, <2>4, <2>5, <2>6 DEF Ats
<1>6. CASE m.pos = NumValues(n)
  <2>1. Dereference(m) = End
    BY <1>2, <1>6 DEF Dereference
  <2>2. Left(m) = all
    BY <1>1, <1>6
  <2>3. NumValues(n) > 0
    <3>1. CASE m.path = <<>>
      <4>1. DOMAIN m.path = {}
        BY <3>1
      <4> QED
        BY <1>6, <4>1 DEF HasBefore
    <3>2. CASE m.path # <<>>
      BY <1>2, <3>2, LeafNotEmpty
    <3> QED
      BY <3>1, <3>2
  <2>4. NumValues(n) \in 1..NumValues(n)
    BY <1>2, <2>3
  <2>5. Cursor!Greatest(Left(m)) \in Left(m)
    <3> DEFINE b == Key[n][NumValues(n)]
    <3>1. b \in Int
      BY <1>2, <2>4, KeyIsInt
    <3>2. ASSUME NEW p \in 1..NumValues(n)
          PROVE  Key[n][p] <= b /\ Key[n][p] \in Int
      <4>1. p = NumValues(n) \/ p < NumValues(n)
        BY <1>2
      <4>2. Key[n][p] \in Int
        BY <1>2, KeyIsInt
      <4>3. p < NumValues(n) => Key[n][p] < b
        BY <1>2, <2>4, KeysAscend
      <4> QED
        BY <3>1, <4>1, <4>2, <4>3
    <3>3. KeysUnder(n) = {Key[n][p] : p \in 1..NumValues(n)}
      BY <1>2, LeafKeys
    <3>4. b \in KeysUnder(n)
      BY <2>4, <3>3
    <3>5. \A x \in Earlier(m.path) : x < b
      <4>1. Divides(m.path, n)
        BY Standing
      <4> QED
        BY <3>4, <4>1 DEF Divides
    <3>6. Left(m) = {Key[n][p] : p \in 1..NumValues(n)} \cup Earlier(m.path)
      BY <1>6 DEF Left
    <3> HIDE DEF b
    <3>7. Left(m) \in SUBSET Int
      BY <1>1
    <3>8. \A x \in Left(m) : x <= b
      <4>1. \A x \in Earlier(m.path) : x \in Int /\ x <= b
        BY <3>1, <3>5, <3>6, <3>7
      <4> QED
        BY <3>2, <3>6, <4>1
    <3> QED
      BY <1>3, <3>1, <3>7, <3>8, HasGreatest
  <2> HIDE DEF all
  <2>6. Cursor!PrevOf(all, End) = Cursor!Greatest(Left(m))
    BY <2>2 DEF Cursor!PrevOf
  <2>7. End # Cursor!FirstOf(all)
    BY <1>4, MarksAssumption
  <2> QED
    BY <1>1, <1>2, <2>1, <2>5, <2>6, <2>7 DEF Ats
<1> QED
  BY <1>2, <1>5, <1>6

\* The least entry from a position of a leaf on, and the greatest up to one.
LEMMA FirstFrom ==
  ASSUME NEW path \in Seq(PathStep), NEW n \in Leaves, LeadsTo(path, n),
         NEW pos \in Nat, pos < NumValues(n)
  PROVE  Cursor!FirstOf({Key[n][p] : p \in (pos + 1)..NumValues(n)} \cup Later(path))
           = Key[n][pos + 1]
<1> DEFINE here == {Key[n][p] : p \in (pos + 1)..NumValues(n)}
           k == Key[n][pos + 1]
<1>1. n \in Nodes /\ NumValues(n) \in Nat
  BY NodesAssumption, Sizes
<1>2. /\ pos + 1 \in (pos + 1)..NumValues(n)
      /\ \A p \in (pos + 1)..NumValues(n) :
           p \in 1..NumValues(n) /\ (p = pos + 1 \/ pos + 1 < p)
  BY <1>1
<1>3. /\ KeysUnder(n) = {Key[n][p] : p \in 1..NumValues(n)}
      /\ \A p \in 1..NumValues(n) : Key[n][p] \in Int
      /\ \A p, q \in 1..NumValues(n) : p < q => Key[n][p] < Key[n][q]
  BY <1>1, LeafKeys, KeyIsInt, KeysAscend
<1>4. k \in here /\ k \in Int /\ k \in KeysUnder(n)
  BY <1>2, <1>3
<1>5. ASSUME NEW p \in (pos + 1)..NumValues(n)
      PROVE  Key[n][p] \in Int /\ k <= Key[n][p]
  <2>1. Key[n][p] \in Int
    BY <1>2, <1>3
  <2>2. Key[n][p] = k \/ k < Key[n][p]
    BY <1>2, <1>3
  <2> QED
    BY <1>4, <2>1, <2>2
<1>6. ASSUME NEW x \in Later(path)
      PROVE  x \in Int /\ k <= x
  <2>1. Divides(path, n) /\ Top(path, n) \in Roots
    BY PathsDivide DEF LeadsTo, Top
  <2>2. KeysUnder(Top(path, n)) \subseteq Int
    BY <2>1, KeysAreInts, NodesAssumption
  <2>3. x \in Int /\ k < x
    BY <1>4, <2>1, <2>2 DEF Divides
  <2> QED
    BY <1>4, <2>3
<1> DEFINE S == here \cup Later(path)
<1>7. S \in SUBSET Int /\ k \in S /\ \A y \in S : k <= y
  BY <1>4, <1>5, <1>6
<1> HIDE DEF S, k
<1>8. Cursor!FirstOf(S) = k
  BY <1>7, FirstIs
<1> QED
  BY <1>8 DEF S, k

LEMMA LastUpTo ==
  ASSUME NEW path \in Seq(PathStep), NEW n \in Leaves, LeadsTo(path, n),
         NEW pos \in Nat, 0 < pos, pos <= NumValues(n)
  PROVE  Cursor!Greatest({Key[n][p] : p \in 1..pos} \cup Earlier(path)) = Key[n][pos]
<1> DEFINE here == {Key[n][p] : p \in 1..pos}
           k == Key[n][pos]
<1>1. n \in Nodes /\ NumValues(n) \in Nat
  BY NodesAssumption, Sizes
<1>2. /\ pos \in 1..pos
      /\ \A p \in 1..pos : p \in 1..NumValues(n) /\ (p = pos \/ p < pos)
  BY <1>1
<1>3. /\ KeysUnder(n) = {Key[n][p] : p \in 1..NumValues(n)}
      /\ \A p \in 1..NumValues(n) : Key[n][p] \in Int
      /\ \A p, q \in 1..NumValues(n) : p < q => Key[n][p] < Key[n][q]
  BY <1>1, LeafKeys, KeyIsInt, KeysAscend
<1>4. k \in here /\ k \in Int /\ k \in KeysUnder(n)
  BY <1>2, <1>3
<1>5. ASSUME NEW p \in 1..pos
      PROVE  Key[n][p] \in Int /\ Key[n][p] <= k
  <2>1. Key[n][p] \in Int
    BY <1>2, <1>3
  <2>2. Key[n][p] = k \/ Key[n][p] < k
    BY <1>2, <1>3
  <2> QED
    BY <1>4, <2>1, <2>2
<1>6. ASSUME NEW x \in Earlier(path)
      PROVE  x \in Int /\ x <= k
  <2>1. Divides(path, n) /\ Top(path, n) \in Roots
    BY PathsDivide DEF LeadsTo, Top
  <2>2. KeysUnder(Top(path, n)) \subseteq Int
    BY <2>1, KeysAreInts, NodesAssumption
  <2>3. x \in Int /\ x < k
    BY <1>4, <2>1, <2>2 DEF Divides
  <2> QED
    BY <1>4, <2>3
<1> DEFINE S == here \cup Earlier(path)
<1>7. S \in SUBSET Int /\ k \in S /\ \A y \in S : y <= k
  BY <1>4, <1>5, <1>6
<1> HIDE DEF S, k
<1>8. Cursor!Greatest(S) = k
  BY <1>7, GreatestIs
<1> QED
  BY <1>8 DEF S, k

-----------------------------------------------------------------------------
(***************************************************************************)
(* What each way for a member function to go on means for the cursors.     *)
(***************************************************************************)

CursorStep == [Cursor!Next]_(Cursor!vars)

\* An operation in progress has a goal.
LEMMA GoalIsSet ==
  ASSUME NEW op, NEW i \in Iters, NEW frame, NEW n, NEW m, NEW g,
         Aimed(op, i, frame, n, m, g), Top(m.path, n) \in Roots
  PROVE  /\ g # None /\ g.iter = i /\ g.tree = Top(m.path, n)
         /\ g.moves <=> op \in {"increment", "decrement"}
<1> DEFINE top == Top(m.path, n)
           moves == op \in {"increment", "decrement"}
<1>1. /\ g = [iter |-> i, tree |-> top, at |-> g.at, moves |-> moves]
      /\ g.at \in Ats
  BY DEF Aimed
<1>2. moves \in BOOLEAN /\ top \in Roots
  OBVIOUS
<1> HIDE DEF top, moves
<1>3. \A at \in Ats : [iter |-> i, tree |-> top, at |-> at, moves |-> moves]
                        \in [iter : Iters, tree : Roots, at : Ats, moves : BOOLEAN]
  BY <1>2
<1>4. g \in [iter : Iters, tree : Roots, at : Ats, moves : BOOLEAN]
  BY <1>1, <1>3, Zenon
<1>5. g.iter = i /\ g.tree = top /\ g.moves = moves
  BY <1>1
<1> QED
  BY <1>4, <1>5, MarksAssumption DEF Ats, top, moves

LEMMA ReturnAims ==
  ASSUME Inv, AInv, call \in Call, NEW m, Return(m), NEW placed,
         placed = IF call.op = "end" THEN [m EXCEPT !.pos = Inc(@)] ELSE m,
         Stands(placed), RootOf(placed) = Top(impl.path, call.node),
         Dereference(placed) = goal.at
  PROVE  AInv' /\ CursorStep
<1>1. /\ it' = [it EXCEPT ![call.iter] = placed] /\ call' = Idle
      /\ impl' = NoImpl /\ slot' = slot /\ goal' = None
  BY DEF Return
<1>2. /\ call # Idle /\ call.iter \in Iters /\ it \in [Iters -> Impl]
      /\ it' \in [Iters -> {it[i] : i \in Iters} \cup {placed}]
      /\ \A i \in Iters : it'[i] = IF i = call.iter THEN placed ELSE it[i]
  BY <1>1 DEF Inv, TypeOK, Call, Idle
<1>3. Aimed(call.op, call.iter, call.frame, call.node, impl, goal)
  BY <1>2 DEF AInv, Aims
<1>4. goal # None /\ goal.iter = call.iter /\ goal.tree = RootOf(placed)
  <2>1. RootOf(placed) \in Roots
    BY Standing
  <2> QED
    BY <1>2, <1>3, <2>1, GoalIsSet
<1>5. Position(placed) = [tree |-> goal.tree, at |-> goal.at]
  BY <1>4, Standing
<1>6. CursorStep
  <2> DEFINE cursor == [i \in Iters |-> Position(it[i])]
             moved == [i \in Iters |-> Position(it'[i])]
  <2>1. moved = [cursor EXCEPT ![goal.iter] = [tree |-> goal.tree, at |-> goal.at]]
    <3>1. \A i \in Iters : Position(it'[i]) = IF i = goal.iter THEN Position(placed) ELSE Position(it[i])
      BY <1>2, <1>4
    <3> QED
      BY <1>2, <1>4, <1>5, <3>1
  <2>2. Cursor!Return
    BY <1>1, <1>4, <2>1 DEF Cursor!Return
  <2> QED
    BY <2>2 DEF CursorStep, Cursor!Next, Cursor!Answer
<1>7. AInv'
  <2>1. \A i \in Iters : Settled(it[i])'
    <3>1. ASSUME NEW i \in Iters
          PROVE  Settled(it[i])'
      <4>1. CASE i = call.iter
        BY <1>1, <1>2, <4>1 DEF Stands, Settled, Ptr
      <4>2. CASE i # call.iter
        BY <1>1, <1>2, <4>2 DEF AInv, Settled, Ptr
      <4> QED
        BY <4>1, <4>2
    <3> QED
      BY <3>1
  <2>2. RootsRead' /\ Aims'
    BY <1>1 DEF AInv, RootsRead, Aims
  <2> QED
    BY <2>1, <2>2 DEF AInv
<1> QED
  BY <1>6, <1>7

LEMMA TopIsRoot ==
  ASSUME Inv, call \in Call
  PROVE  Top(impl.path, call.node) \in Roots
<1>1. call # Idle /\ call.frame \in {"first", "last", "next", "prev"}
      /\ call.node \in Nodes /\ impl \in Impl /\ impl.path \in Seq(PathStep)
  BY DEF Inv, TypeOK, Call, Idle, Impl
<1>2. CASE call.frame \in {"first", "last"}
  <2>1. LeadsTo(impl.path, call.node)
    BY <1>1, <1>2 DEF Inv, Linked
  <2> QED
    BY <2>1 DEF LeadsTo, Top
<1>3. CASE call.frame \in {"next", "prev"} /\ call.node \in Leaves
  <2>1. LeadsTo(impl.path, call.node)
    BY <1>1, <1>3 DEF Inv, Linked, WellPlaced
  <2> QED
    BY <2>1 DEF LeadsTo, Top
<1>4. CASE call.frame \in {"next", "prev"} /\ call.node \notin Leaves
  <2>1. /\ impl.path # <<>> /\ LeadsTo(Front(impl.path), call.node)
        /\ Back(impl.path).ptr.node = call.node
    BY <1>1, <1>4 DEF Inv, Linked, NonLeaves
  <2>2. Top(Front(impl.path), call.node) \in Roots
    BY <2>1 DEF LeadsTo, Top
  <2> QED
    BY <1>1, <2>1, <2>2, TopOfFront
<1> QED
  BY <1>1, <1>2, <1>3, <1>4

LEMMA ThrowAims ==
  ASSUME Inv, AInv, call \in Call, NEW m \in Impl, m.leaf = NULL, Throw(m)
  PROVE  AInv' /\ CursorStep
<1> DEFINE moves == call.op \in {"increment", "decrement"}
<1>1. /\ it' = (IF moves THEN [it EXCEPT ![call.iter] = m] ELSE it)
      /\ call' = Idle /\ impl' = NoImpl /\ slot' = slot /\ goal' = None
  BY DEF Throw
<1>2. call # Idle /\ call.iter \in Iters /\ it \in [Iters -> Impl]
  BY DEF Inv, TypeOK, Call, Idle
<1>3. goal # None /\ goal.iter = call.iter /\ (goal.moves <=> moves)
  <2>1. Aimed(call.op, call.iter, call.frame, call.node, impl, goal)
    BY <1>2 DEF AInv, Aims
  <2> QED
    BY <1>2, <2>1, GoalIsSet, TopIsRoot
<1> HIDE DEF moves
<1>4. \A i \in Iters : it'[i] = IF moves /\ i = call.iter THEN m ELSE it[i]
  BY <1>1, <1>2
<1>5. Position(m) = None
  BY DEF Position
<1>6. CursorStep
  <2> DEFINE cursor == [i \in Iters |-> Position(it[i])]
             moved == [i \in Iters |-> Position(it'[i])]
  <2>1. moved = IF goal.moves THEN [cursor EXCEPT ![goal.iter] = None] ELSE cursor
    <3>1. \A i \in Iters : Position(it'[i]) = IF moves /\ i = goal.iter THEN None ELSE Position(it[i])
      BY <1>3, <1>4, <1>5
    <3> QED
      BY <1>2, <1>3, <3>1
  <2>2. Cursor!Throw
    BY <1>1, <1>3, <2>1 DEF Cursor!Throw
  <2> QED
    BY <2>2 DEF CursorStep, Cursor!Next, Cursor!Answer
<1>7. AInv'
  <2>1. \A i \in Iters : Settled(it[i])'
    BY <1>1, <1>4 DEF AInv, Settled, Ptr
  <2>2. RootsRead' /\ Aims'
    BY <1>1 DEF AInv, RootsRead, Aims
  <2> QED
    BY <2>1, <2>2 DEF AInv
<1> QED
  BY <1>6, <1>7

LEMMA DescendAims ==
  ASSUME Inv, AInv, call \in Call, NEW n \in NonLeaves, NEW pos \in Nat, pos < NumValues(n),
         NEW m \in Impl, m.leaf = NULL, Descend(n, pos, DownFrame(call.op), m),
         Aimed(call.op, call.iter, DownFrame(call.op), Kid[n][pos + 1], m, goal)
  PROVE  AInv' /\ CursorStep
<1> DEFINE c == Kid[n][pos + 1]
           frame == DownFrame(call.op)
<1>1. c \in Nodes
  BY Children
<1>2. CASE slot[c] = 0 /\ Throw(m)
  BY <1>2, ThrowAims
<1>3. CASE /\ GetChild(c)
           /\ call' = [call EXCEPT !.frame = frame, !.node = c]
           /\ impl' = m
           /\ UNCHANGED <<it, goal>>
  <2>1. /\ call' \in Call /\ call' # Idle /\ call'.frame = frame /\ call'.node = c
        /\ call'.op = call.op /\ call'.iter = call.iter
        /\ frame \in {"first", "last"}
    BY <1>1, <1>3 DEF Call, Idle, DownFrame
  <2>2. slot \in [Nodes -> Nat] /\ it \in [Iters -> Impl]
    BY DEF Inv, TypeOK
  <2>3. /\ slot'[c] # 0
        /\ \A x \in Nodes : slot[x] # 0 => slot'[x] = slot[x]
    BY <1>1, <1>3, <2>2 DEF GetChild
  <2>4. RootsRead'
    BY <2>3, NodesAssumption DEF AInv, RootsRead
  <2>5. \A i \in Iters : Settled(it[i])'
    <3>1. ASSUME NEW i \in Iters, it[i].leaf # NULL
          PROVE  Settled(it[i])'
      <4>1. it[i].leaf.node \in Nodes
        BY <3>1, NodesAssumption DEF Inv, Linked, WellPlaced
      <4>2. slot[it[i].leaf.node] # 0 /\ it[i].leaf = Ptr(it[i].leaf.node)
        BY <3>1 DEF AInv, Settled
      <4> QED
        BY <1>3, <2>3, <3>1, <4>1, <4>2 DEF AInv, Settled, Ptr
    <3>2. ASSUME NEW i \in Iters, it[i].leaf = NULL
          PROVE  Settled(it[i])'
      BY <1>3, <3>2 DEF Settled
    <3> QED
      BY <3>1, <3>2
  <2>6. InMemory'
    BY <2>1, <2>3 DEF InMemory
  <2>7. Aimed(call.op, call.iter, frame, c, impl', goal')
    BY <1>3
  <2>8. Aims'
    BY <2>1, <2>6, <2>7 DEF Aims
  <2>9. CursorStep
    BY <1>3 DEF CursorStep, Cursor!vars
  <2> QED
    BY <2>4, <2>5, <2>8, <2>9 DEF AInv
<1> QED
  BY <1>2, <1>3 DEF Descend

LEMMA AscendAims ==
  ASSUME Inv, AInv, call \in Call, NEW m \in Impl, Back(m.path).ptr.node \in NonLeaves,
         call.frame \in {"next", "prev"}, Ascend(call.frame, m),
         Aimed(call.op, call.iter, call.frame, Back(m.path).ptr.node, m, goal)
  PROVE  AInv' /\ CursorStep
<1> DEFINE n == Back(m.path).ptr.node
<1>1. /\ call' = [call EXCEPT !.frame = call.frame, !.node = n]
      /\ impl' = m /\ slot' = slot /\ it' = it /\ goal' = goal
  BY DEF Ascend
<1>2. n \in Nodes /\ n \notin Leaves
  BY DEF NonLeaves
<1> HIDE DEF n
<1>3. /\ call' # Idle /\ call'.frame = call.frame /\ call'.node = n
      /\ call'.op = call.op /\ call'.iter = call.iter
  BY <1>1, <1>2 DEF Call, Idle
<1>4. InMemory'
  BY <1>2, <1>3 DEF InMemory
<1>5. Aims'
  <2>1. Aimed(call.op, call.iter, call.frame, n, impl', goal')
    BY <1>1 DEF n
  <2> QED
    BY <1>3, <1>4, <2>1 DEF Aims
<1>6. RootsRead' /\ \A i \in Iters : Settled(it[i])'
  BY <1>1 DEF AInv, RootsRead, Settled, Ptr
<1>7. CursorStep
  BY <1>1 DEF CursorStep, Cursor!vars
<1> QED
  BY <1>5, <1>6, <1>7 DEF AInv

-----------------------------------------------------------------------------
(***************************************************************************)
(* The operations.                                                         *)
(***************************************************************************)

\* Where an operation starts nothing moves.
LEMMA StartAims ==
  ASSUME Inv, AInv, NEW op, NEW i \in Iters, NEW frame, NEW n, NEW m,
         Start(op, i, frame, n, m),
         frame \in {"first", "last"} => slot[n] # 0,
         frame \notin {"first", "last"} /\ n \in Leaves => Settled(m),
         op # "none", Aimed(op, i, frame, n, m, goal')
  PROVE  AInv' /\ goal = None
<1>1. /\ call = Idle /\ slot' = slot /\ it' = it /\ impl' = m
      /\ call' = [op |-> op, iter |-> i, frame |-> frame, node |-> n]
  BY DEF Start
<1>2. goal = None
  BY <1>1 DEF AInv, Aims
<1>3. /\ call' # Idle /\ call'.op = op /\ call'.iter = i /\ call'.frame = frame
      /\ call'.node = n
  BY <1>1 DEF Idle
<1>4. InMemory'
  BY <1>1, <1>3 DEF InMemory, Settled, Ptr
<1>5. Aims'
  <2>1. Aimed(op, i, frame, n, impl', goal')
    BY <1>1
  <2> QED
    BY <1>3, <1>4, <2>1 DEF Aims
<1>6. RootsRead' /\ \A j \in Iters : Settled(it[j])'
  BY <1>1 DEF AInv, RootsRead, Settled, Ptr
<1> QED
  BY <1>2, <1>5, <1>6 DEF AInv

LEMMA NoPath ==
  /\ Earlier(<<>>) = {} /\ Later(<<>>) = {} /\ ~HasNext(<<>>)
  /\ \A n : Top(<<>>, n) = n
<1>1. DOMAIN <<>> = {}
  OBVIOUS
<1>2. Earlier(<<>>) = {} /\ Later(<<>>) = {}
  BY <1>1, Zenon DEF Earlier, Later
<1> QED
  BY <1>1, <1>2 DEF HasNext, Top

LEMMA BeginAims ==
  ASSUME Inv, AInv, NEW i \in Iters, NEW r \in Roots, Begin(i, r)
  PROVE  AInv' /\ CursorStep
<1> DEFINE at == Cursor!FirstOf(Entries[r])
<1>1. /\ Start("begin", i, "first", r, NoImpl)
      /\ goal' = [iter |-> i, tree |-> r, at |-> at, moves |-> FALSE]
  BY DEF Begin, Aim
<1>2. at = Cursor!FirstOf(KeysUnder(r)) /\ at \in Ats
  BY TreeHasFirst DEF Entries
<1> HIDE DEF at
<1>3. goal'.at = at
  BY <1>1
<1>4. Top(NoImpl.path, r) = r /\ KeysUnder(r) \cup Later(NoImpl.path) = KeysUnder(r)
  BY NoPath DEF NoImpl
<1>5. Aimed("begin", i, "first", r, NoImpl, goal')
  <2>1. goal' = [iter |-> i, tree |-> Top(NoImpl.path, r), at |-> goal'.at,
                 moves |-> "begin" \in {"increment", "decrement"}]
    <3>1. ("begin" \in {"increment", "decrement"}) = FALSE
      OBVIOUS
    <3> QED
      BY <1>1, <1>3, <1>4, <3>1, Zenon
  <2>2. goal'.at = Cursor!FirstOf(KeysUnder(r) \cup Later(NoImpl.path))
    BY <1>2, <1>3, <1>4
  <2> QED
    BY <1>2, <1>3, <2>1, <2>2 DEF Aimed
<1>6. AInv' /\ goal = None
  BY <1>1, <1>5, StartAims DEF AInv, RootsRead
<1>7. CursorStep
  <2>1. it' = it
    BY <1>1 DEF Start
  <2>2. Cursor!Start(i, r, Cursor!FirstOf(Entries[r]), FALSE)
    BY <1>1, <1>6, <2>1 DEF Cursor!Start, at
  <2> QED
    BY <2>2 DEF CursorStep, Cursor!Next, Cursor!Begin
<1> QED
  BY <1>6, <1>7

LEMMA EndOfAims ==
  ASSUME Inv, AInv, NEW i \in Iters, NEW r \in Roots, EndOf(i, r)
  PROVE  AInv' /\ CursorStep
<1>1. /\ Start("end", i, "last", r, NoImpl)
      /\ goal' = [iter |-> i, tree |-> r, at |-> End, moves |-> FALSE]
  BY DEF EndOf, Aim
<1>2. goal'.at = End /\ End \in Ats /\ Top(NoImpl.path, r) = r /\ ~HasNext(NoImpl.path)
  BY <1>1, NoPath DEF Ats, NoImpl
<1>3. Aimed("end", i, "last", r, NoImpl, goal')
  <2>1. goal' = [iter |-> i, tree |-> Top(NoImpl.path, r), at |-> goal'.at,
                 moves |-> "end" \in {"increment", "decrement"}]
    <3>1. ("end" \in {"increment", "decrement"}) = FALSE
      OBVIOUS
    <3> QED
      BY <1>1, <1>2, <3>1, Zenon
  <2> QED
    BY <1>2, <2>1 DEF Aimed
<1>4. AInv' /\ goal = None
  BY <1>1, <1>3, StartAims DEF AInv, RootsRead
<1>5. CursorStep
  <2>1. it' = it
    BY <1>1 DEF Start
  <2>2. Cursor!Start(i, r, End, FALSE)
    BY <1>1, <1>4, <2>1 DEF Cursor!Start
  <2> QED
    BY <2>2 DEF CursorStep, Cursor!Next, Cursor!EndOf
<1> QED
  BY <1>4, <1>5

LEMMA IterStands ==
  ASSUME Inv, AInv, NEW i \in Iters, it[i].leaf # NULL
  PROVE  Stands(it[i])
BY DEF Inv, TypeOK, Linked, AInv, Stands

LEMMA IncrementAims ==
  ASSUME Inv, AInv, NEW i \in Iters, Increment(i)
  PROVE  AInv' /\ CursorStep
<1> DEFINE m == it[i]
           n == m.leaf.node
           r == RootOf(m)
           at == Cursor!NextOf(Entries[r], Dereference(m))
<1>1. /\ m.leaf # NULL /\ m.pos < NumValues(n)
      /\ Start("increment", i, "next", n, m)
      /\ goal' = [iter |-> i, tree |-> r, at |-> at, moves |-> TRUE]
  BY DEF Increment, Aim
<1>2. Stands(m)
  BY <1>1, IterStands
<1>3. at = Cursor!FirstOf(Right(m)) /\ at \in Ats
  BY <1>1, <1>2, NextIsRight
<1>4. /\ n \in Leaves /\ r = Top(m.path, n) /\ r \in Roots
      /\ Dereference(m) \in Int
      /\ Position(m) = [tree |-> r, at |-> Dereference(m)] /\ Position(m) # None
  BY <1>1, <1>2, Standing
<1>5. /\ goal'.at = at
  BY <1>1
<1> DEFINE e == Entries[r]
           k == Dereference(m)
           p == Position(m)
<1>6. p.tree = r /\ p.at = k /\ p # None /\ k # End
  BY <1>4, MarksAssumption
<1>7. at = Cursor!NextOf(Entries[p.tree], p.at)
  BY <1>6
<1>8. it' = it
  BY <1>1 DEF Start
<1> HIDE DEF m, n, r, at, p, k, e
<1>9. Aimed("increment", i, "next", n, m, goal')
  BY <1>1, <1>3, <1>4, <1>5 DEF Aimed
<1>10. AInv' /\ goal = None
  BY <1>1, <1>2, <1>9, StartAims DEF Stands
<1>11. CursorStep
  <2>1. [j \in Iters |-> Position(it[j])][i] = p
    BY DEF p, m
  <2>2. Cursor!Start(i, r, at, TRUE)
    BY <1>1, <1>8, <1>10 DEF Cursor!Start
  <2>3. Cursor!Increment(i)
    BY <1>6, <1>7, <2>1, <2>2 DEF Cursor!Increment
  <2> QED
    BY <2>3 DEF CursorStep, Cursor!Next
<1> QED
  BY <1>10, <1>11

LEMMA DecrementAims ==
  ASSUME Inv, AInv, NEW i \in Iters, Decrement(i)
  PROVE  AInv' /\ CursorStep
<1> DEFINE m == it[i]
           n == m.leaf.node
           r == RootOf(m)
           at == Cursor!PrevOf(Entries[r], Dereference(m))
<1>1. /\ m.leaf # NULL /\ (m.pos > 0 \/ HasBefore(m.path))
      /\ Start("decrement", i, "prev", n, m)
      /\ goal' = [iter |-> i, tree |-> r, at |-> at, moves |-> TRUE]
  BY DEF Decrement, Aim, HasBefore
<1>2. Stands(m)
  BY <1>1, IterStands
<1>3. at = Cursor!Greatest(Left(m)) /\ at \in Ats /\ Dereference(m) # Cursor!FirstOf(Entries[r])
  BY <1>1, <1>2, PrevIsLeft
<1>4. /\ n \in Leaves /\ r = Top(m.path, n) /\ r \in Roots
      /\ Position(m) = [tree |-> r, at |-> Dereference(m)] /\ Position(m) # None
  BY <1>1, <1>2, Standing
<1>5. /\ goal'.at = at
  BY <1>1
<1> DEFINE e == Entries[r]
           k == Dereference(m)
           p == Position(m)
<1>6. p.tree = r /\ p.at = k /\ p # None
  BY <1>4
<1>7. at = Cursor!PrevOf(Entries[p.tree], p.at) /\ p.at # Cursor!FirstOf(Entries[p.tree])
  BY <1>3, <1>6
<1>8. it' = it
  BY <1>1 DEF Start
<1> HIDE DEF m, n, r, at, p, k, e
<1>9. Aimed("decrement", i, "prev", n, m, goal')
  BY <1>1, <1>3, <1>4, <1>5 DEF Aimed
<1>10. AInv' /\ goal = None
  BY <1>1, <1>2, <1>9, StartAims DEF Stands
<1>11. CursorStep
  <2>1. [j \in Iters |-> Position(it[j])][i] = p
    BY DEF p, m
  <2>2. Cursor!Start(i, r, at, TRUE)
    BY <1>1, <1>8, <1>10 DEF Cursor!Start
  <2>3. Cursor!Decrement(i)
    BY <1>6, <1>7, <2>1, <2>2 DEF Cursor!Decrement
  <2> QED
    BY <2>3 DEF CursorStep, Cursor!Next
<1> QED
  BY <1>10, <1>11

LEMMA CopyAims ==
  ASSUME Inv, AInv, NEW i \in Iters, NEW j \in Iters, Copy(i, j)
  PROVE  AInv' /\ CursorStep
<1>1. /\ it' = [it EXCEPT ![i] = it[j]] /\ call = Idle
      /\ slot' = slot /\ call' = call /\ impl' = impl /\ goal' = goal
  BY DEF Copy
<1>2. it \in [Iters -> Impl] /\ goal = None
  BY <1>1 DEF Inv, TypeOK, AInv, Aims
<1>3. \A k \in Iters : it'[k] = IF k = i THEN it[j] ELSE it[k]
  BY <1>1, <1>2
<1>4. AInv'
  <2>1. \A k \in Iters : Settled(it[k])'
    BY <1>1, <1>3 DEF AInv, Settled, Ptr
  <2> QED
    BY <1>1, <1>2, <2>1 DEF AInv, RootsRead, Aims
<1>5. CursorStep
  <2> DEFINE cursor == [k \in Iters |-> Position(it[k])]
             moved == [k \in Iters |-> Position(it'[k])]
  <2>1. moved = [cursor EXCEPT ![i] = cursor[j]]
    <3>1. \A k \in Iters : Position(it'[k]) = IF k = i THEN Position(it[j]) ELSE Position(it[k])
      BY <1>3
    <3> QED
      BY <3>1
  <2>2. Cursor!Copy(i, j)
    BY <1>1, <1>2, <2>1 DEF Cursor!Copy
  <2> QED
    BY <2>2 DEF CursorStep, Cursor!Next
<1> QED
  BY <1>4, <1>5

-----------------------------------------------------------------------------
(***************************************************************************)
(* The member functions.                                                   *)
(***************************************************************************)

\* What is known of a member function that runs.
LEMMA RunningAims ==
  ASSUME Inv, AInv, call.frame # "none"
  PROVE  /\ call \in Call /\ call # Idle /\ call.node \in Nodes /\ impl \in Impl
         /\ impl.path \in Seq(PathStep) /\ impl.pos \in 0..UintMax
         /\ NumValues(call.node) \in Nat /\ 2 * NumValues(call.node) < UintMax
         /\ UintMax \in Nat
         /\ Aimed(call.op, call.iter, call.frame, call.node, impl, goal)
         /\ goal.at \in Ats
         /\ InMemory
         /\ call.op \in {"begin", "end", "increment", "decrement"}
<1>1. call \in Call /\ call # Idle /\ call.node \in Nodes /\ impl \in Impl
      /\ call.op \in {"begin", "end", "increment", "decrement"}
  BY RunningCall
<1>2. impl.path \in Seq(PathStep) /\ impl.pos \in 0..UintMax
  BY <1>1 DEF Impl
<1>3. Aimed(call.op, call.iter, call.frame, call.node, impl, goal) /\ InMemory
  BY <1>1 DEF AInv, Aims
<1>4. goal.at \in Ats
  BY <1>3 DEF Aimed
<1> QED
  BY <1>1, <1>2, <1>3, <1>4, Sizes

LEMMA LeafFirstAims ==
  ASSUME Inv, AInv, LeafFirst
  PROVE  AInv' /\ CursorStep
<1> DEFINE n == call.node
           path == impl.path
           m == [impl EXCEPT !.leaf = Ptr(n), !.pos = 0]
<1>1. call.frame = "first" /\ n \in Leaves /\ Return(m)
  BY DEF LeafFirst, Running
<1>2. /\ call \in Call /\ call # Idle /\ n \in Nodes /\ impl \in Impl
      /\ path \in Seq(PathStep) /\ NumValues(n) \in Nat /\ UintMax \in Nat
      /\ Aimed(call.op, call.iter, "first", n, impl, goal)
      /\ InMemory /\ LeadsTo(path, n) /\ call.op # "end"
  BY <1>1, RunningAims DEF Inv, Linked, Purpose
<1>3. slot[n] # 0 /\ goal.at = Cursor!FirstOf(KeysUnder(n) \cup Later(path))
  BY <1>1, <1>2 DEF InMemory, Aimed
<1>4. /\ m.leaf = Ptr(n) /\ m.pos = 0 /\ m.path = path /\ m \in Impl
      /\ m.leaf.node = n /\ m.leaf # NULL
  <2>1. Ptr(n) \in Pointer /\ Ptr(n).node = n
    BY <1>2 DEF Ptr, Pointer, Inv, TypeOK
  <2>2. 0 \in 0..UintMax
    BY <1>2
  <2>3. m \in Impl /\ m.leaf = Ptr(n) /\ m.pos = 0 /\ m.path = path
    BY <1>2, <2>1, <2>2 DEF Impl
  <2> QED
    BY <2>1, <2>3, MarksAssumption DEF Pointer
<1>5. m = IF call.op = "end" THEN [m EXCEPT !.pos = Inc(@)] ELSE m
  BY <1>2
<1> HIDE DEF m, n, path
<1>6. NumValues(n) = 0 => path = <<>>
  BY <1>2, LeafNotEmpty
<1>7. Stands(m)
  <2>1. WellPlaced(m)
    BY <1>1, <1>2, <1>4 DEF WellPlaced
  <2>2. Settled(m)
    BY <1>3, <1>4, <1>6, NoPath DEF Settled
  <2> QED
    BY <1>4, <2>1, <2>2 DEF Stands
<1>8. Dereference(m) = goal.at
  <2>1. CASE NumValues(n) = 0
    <3>1. KeysUnder(n) = {}
      <4>1. 1..NumValues(n) = {}
        BY <2>1
      <4> QED
        BY <1>1, <4>1, LeafKeys
    <3>2. goal.at = Cursor!FirstOf({})
      BY <1>3, <1>6, <2>1, <3>1, NoPath
    <3> QED
      BY <1>4, <2>1, <3>2 DEF Dereference, Cursor!FirstOf
  <2>2. CASE NumValues(n) # 0
    <3>1. 0 \in Nat /\ 0 < NumValues(n) /\ 0 + 1 = 1
      BY <1>2, <2>2
    <3>2. Cursor!FirstOf({Key[n][p] : p \in 1..NumValues(n)} \cup Later(path)) = Key[n][1]
      BY <1>1, <1>2, <3>1, FirstFrom
    <3>3. goal.at = Key[n][1]
      BY <1>1, <1>3, <3>2, LeafKeys
    <3> QED
      BY <1>4, <3>1, <3>3 DEF Dereference
  <2> QED
    BY <2>1, <2>2
<1>9. RootOf(m) = Top(impl.path, call.node)
  BY <1>4 DEF RootOf, Top, path, n
<1>10. Return(m)
  BY <1>1 DEF m, n
<1> QED
  BY <1>2, <1>5, <1>7, <1>8, <1>9, <1>10, ReturnAims

LEMMA LeafLastAims ==
  ASSUME Inv, AInv, LeafLast
  PROVE  AInv' /\ CursorStep
<1> DEFINE n == call.node
           path == impl.path
           pos == Dec(NumValues(n))
           m == [impl EXCEPT !.leaf = Ptr(n), !.pos = pos]
           placed == IF call.op = "end" THEN [m EXCEPT !.pos = Inc(@)] ELSE m
           at == IF call.op = "end" THEN NumValues(n) ELSE NumValues(n) - 1
<1>1. call.frame = "last" /\ n \in Leaves /\ Return(m)
  BY DEF LeafLast, Running
<1>2. /\ call \in Call /\ call # Idle /\ n \in Nodes /\ impl \in Impl
      /\ path \in Seq(PathStep) /\ NumValues(n) \in Nat /\ UintMax \in Nat
      /\ 2 * NumValues(n) < UintMax
      /\ Aimed(call.op, call.iter, "last", n, impl, goal)
      /\ InMemory /\ LeadsTo(path, n)
      /\ call.op # "end" => path # <<>>
  <2>1. /\ call \in Call /\ call # Idle /\ n \in Nodes /\ impl \in Impl
        /\ path \in Seq(PathStep) /\ NumValues(n) \in Nat /\ UintMax \in Nat
        /\ 2 * NumValues(n) < UintMax
        /\ Aimed(call.op, call.iter, "last", n, impl, goal) /\ InMemory
        /\ call.op \in {"begin", "end", "increment", "decrement"}
    BY <1>1, RunningAims
  <2>2. LeadsTo(path, n) /\ (call.op # "end" => path # <<>>)
    BY <1>1, <2>1 DEF Inv, Linked, Purpose
  <2> QED
    BY <2>1, <2>2
<1>3. /\ slot[n] # 0
      /\ IF call.op = "end" THEN goal.at = End /\ ~HasNext(path)
         ELSE goal.at = Cursor!Greatest(KeysUnder(n) \cup Earlier(path))
  BY <1>1, <1>2 DEF InMemory, Aimed
<1>4. call.op # "end" => NumValues(n) > 0
  BY <1>2, LeafNotEmpty
<1>5. /\ at \in Nat /\ at \in 0..UintMax /\ at <= NumValues(n)
      /\ (IF call.op = "end" THEN Inc(pos) ELSE pos) = at
  BY <1>2, <1>4 DEF Inc, Dec
<1>6. Ptr(n) \in Pointer /\ Ptr(n).node = n /\ Ptr(n) # NULL
  BY <1>2, MarksAssumption DEF Ptr, Pointer, Inv, TypeOK
<1>7. /\ placed.leaf = Ptr(n) /\ placed.path = path
      /\ placed.pos = IF call.op = "end" THEN Inc(pos) ELSE pos
      /\ placed = [leaf |-> placed.leaf, pos |-> placed.pos, path |-> placed.path]
  BY <1>2 DEF Impl
<1>8. placed = IF call.op = "end" THEN [m EXCEPT !.pos = Inc(@)] ELSE m
  OBVIOUS
<1>9. Return(m)
  BY <1>1
<1> HIDE DEF placed, m, pos, n, path
<1>10. placed.pos = at /\ placed \in Impl
  <2>1. placed.pos = at
    BY <1>5, <1>7
  <2> QED
    BY <1>2, <1>5, <1>6, <1>7, <2>1 DEF Impl
<1>11. call.op # "end" => at < NumValues(n)
  BY <1>2, <1>4
<1>12. call.op = "end" => at = NumValues(n)
  OBVIOUS
<1> HIDE DEF at
<1>13. Stands(placed)
  <2>1. WellPlaced(placed)
    BY <1>1, <1>2, <1>5, <1>6, <1>7, <1>10 DEF WellPlaced
  <2>2. Settled(placed)
    <3>1. at = NumValues(n) => ~HasNext(path)
      BY <1>2, <1>3, <1>5, <1>11
    <3> QED
      BY <1>3, <1>6, <1>7, <1>10, <3>1 DEF Settled
  <2> QED
    BY <1>6, <1>7, <1>10, <2>1, <2>2 DEF Stands
<1>14. Dereference(placed) = goal.at
  <2>1. CASE call.op = "end"
    BY <1>2, <1>3, <1>6, <1>7, <1>10, <1>12, <2>1 DEF Dereference
  <2>2. CASE call.op # "end"
    <3>1. at + 1 = NumValues(n) /\ 0 < NumValues(n) /\ NumValues(n) <= NumValues(n)
      BY <1>2, <1>4, <2>2 DEF at
    <3>2. Cursor!Greatest({Key[n][p] : p \in 1..NumValues(n)} \cup Earlier(path)) = Key[n][NumValues(n)]
      BY <1>1, <1>2, <3>1, LastUpTo
    <3>3. goal.at = Key[n][at + 1]
      BY <1>1, <1>3, <2>2, <3>1, <3>2, LeafKeys
    <3> QED
      BY <1>6, <1>7, <1>10, <1>11, <2>2, <3>3 DEF Dereference
  <2> QED
    BY <2>1, <2>2
<1>15. RootOf(placed) = Top(impl.path, call.node)
  BY <1>6, <1>7 DEF RootOf, Top, path, n
<1> QED
  BY <1>2, <1>8, <1>9, <1>13, <1>14, <1>15, ReturnAims

\* A pointer into a leaf stays, the position moves along it.
LEMMA LeafNextAims ==
  ASSUME Inv, AInv, LeafNext
  PROVE  AInv' /\ CursorStep
<1> DEFINE n == call.node
           path == impl.path
           pos == impl.pos + 1
           moved == [impl EXCEPT !.pos = Inc(@)]
           left == [moved EXCEPT !.leaf = NULL]
           rest == {Key[n][p] : p \in (pos + 1)..NumValues(n)}
<1>1. call.frame = "next" /\ n \in Leaves
  BY DEF LeafNext, Running
<1>2. /\ call \in Call /\ call # Idle /\ n \in Nodes /\ impl \in Impl
      /\ path \in Seq(PathStep) /\ NumValues(n) \in Nat /\ UintMax \in Nat
      /\ 2 * NumValues(n) < UintMax /\ impl.pos \in 0..UintMax
      /\ Aimed(call.op, call.iter, "next", n, impl, goal)
      /\ Settled(impl) /\ WellPlaced(impl) /\ LeadsTo(path, n)
      /\ impl.leaf # NULL /\ impl.leaf.node = n
      /\ call.op # "end" /\ impl.pos < NumValues(n)
  <2>1. /\ call \in Call /\ call # Idle /\ n \in Nodes /\ impl \in Impl
        /\ path \in Seq(PathStep) /\ NumValues(n) \in Nat /\ UintMax \in Nat
        /\ 2 * NumValues(n) < UintMax /\ impl.pos \in 0..UintMax
        /\ Aimed(call.op, call.iter, "next", n, impl, goal) /\ InMemory
    BY <1>1, RunningAims
  <2>2. WellPlaced(impl) /\ impl.leaf # NULL /\ impl.leaf.node = n
    BY <1>1, <2>1 DEF Inv, Linked
  <2>3. call.op # "end" /\ impl.pos < NumValues(n)
    BY <1>1, <2>1 DEF Inv, Purpose
  <2>4. Settled(impl) /\ LeadsTo(path, n)
    BY <1>1, <2>1, <2>2 DEF InMemory, WellPlaced
  <2> QED
    BY <2>1, <2>2, <2>3, <2>4
<1>3. Inc(impl.pos) = pos /\ pos \in 0..UintMax /\ pos <= NumValues(n) /\ pos \in Nat
  BY <1>2 DEF Inc
<1>4. goal.at = Cursor!FirstOf(rest \cup Later(path))
  <2>1. Right(impl) = {Key[n][p] : p \in (impl.pos + 2)..NumValues(n)} \cup Later(path)
    BY <1>2 DEF Right
  <2>2. impl.pos + 2 = pos + 1
    BY <1>2
  <2>3. goal.at = Cursor!FirstOf(Right(impl))
    BY <1>1, <1>2 DEF Aimed
  <2> QED
    BY <2>1, <2>2, <2>3
<1>5. pos = NumValues(n) => rest = {}
  <2>1. pos = NumValues(n) => (pos + 1)..NumValues(n) = {}
    BY <1>2
  <2> QED
    BY <2>1
<1>6. /\ moved \in Impl /\ moved.leaf = impl.leaf /\ moved.pos = pos /\ moved.path = path
      /\ left \in Impl /\ left.leaf = NULL /\ left.path = path
  BY <1>2, <1>3 DEF Impl
<1>7. \/ /\ pos = NumValues(n) /\ HasNext(path)
         /\ Ascend("next", left)
      \/ /\ ~(pos = NumValues(n) /\ HasNext(path))
         /\ Return(moved)
  BY <1>6 DEF LeafNext
<1> HIDE DEF moved, left, pos, rest, n, path
<1>8. CASE /\ pos = NumValues(n) /\ HasNext(path)
           /\ Ascend("next", left)
  <2> DEFINE a == Back(left.path).ptr.node
  <2>1. path # <<>>
    BY <1>8, NoPath
  <2>2. a \in NonLeaves
    BY <1>2, <1>6, <2>1, LeadsToFront
  <2>3. Top(left.path, a) = Top(path, n)
    BY <1>6, <2>1 DEF Top
  <2>4. goal.at = Cursor!FirstOf(Later(left.path))
    BY <1>4, <1>5, <1>6, <1>8
  <2>5. a \notin Leaves /\ HasNext(left.path)
    BY <1>6, <1>8, <2>2 DEF NonLeaves
  <2> HIDE DEF a
  <2>6. Aimed(call.op, call.iter, call.frame, a, left, goal)
    BY <1>1, <1>2, <2>3, <2>4, <2>5 DEF Aimed, path, n
  <2> QED
    BY <1>1, <1>2, <1>6, <1>8, <2>2, <2>6, AscendAims DEF a
<1>9. CASE /\ ~(pos = NumValues(n) /\ HasNext(path))
           /\ Return(moved)
  <2>1. Stands(moved)
    <3>1. WellPlaced(moved)
      BY <1>1, <1>2, <1>3, <1>6 DEF WellPlaced, path, n
    <3>2. Settled(moved)
      BY <1>2, <1>6, <1>9 DEF Settled
    <3> QED
      BY <1>2, <1>6, <3>1, <3>2 DEF Stands
  <2>2. Dereference(moved) = goal.at
    <3>1. CASE pos < NumValues(n)
      <4>1. goal.at = Key[n][pos + 1]
        BY <1>1, <1>2, <1>3, <1>4, <3>1, FirstFrom DEF rest
      <4> QED
        BY <1>2, <1>6, <3>1, <4>1 DEF Dereference
    <3>2. CASE ~ pos < NumValues(n)
      <4>1. pos = NumValues(n)
        BY <1>2, <1>3, <3>2
      <4>2. Later(path) = {}
        BY <1>2, <1>9, <4>1, NoLater
      <4>3. goal.at = End
        BY <1>4, <1>5, <4>1, <4>2 DEF Cursor!FirstOf
      <4> QED
        BY <1>2, <1>6, <3>2, <4>3 DEF Dereference
    <3> QED
      BY <3>1, <3>2
  <2>3. RootOf(moved) = Top(impl.path, call.node)
    BY <1>2, <1>6 DEF RootOf, Top, path, n
  <2>4. moved = IF call.op = "end" THEN [moved EXCEPT !.pos = Inc(@)] ELSE moved
    BY <1>2
  <2> QED
    BY <1>2, <1>9, <2>1, <2>2, <2>3, <2>4, ReturnAims
<1> QED
  BY <1>7, <1>8, <1>9

LEMMA LeafPrevAims ==
  ASSUME Inv, AInv, LeafPrev
  PROVE  AInv' /\ CursorStep
<1> DEFINE n == call.node
           path == impl.path
           pos == impl.pos
           moved == [impl EXCEPT !.pos = @ - 1]
           left == [impl EXCEPT !.leaf = IF impl.path = <<>> THEN @ ELSE NULL]
<1>1. call.frame = "prev" /\ n \in Leaves
  BY DEF LeafPrev, Running
<1>2. /\ call \in Call /\ call # Idle /\ n \in Nodes /\ impl \in Impl
      /\ path \in Seq(PathStep) /\ NumValues(n) \in Nat /\ UintMax \in Nat
      /\ 2 * NumValues(n) < UintMax /\ pos \in 0..UintMax
      /\ Aimed(call.op, call.iter, "prev", n, impl, goal)
      /\ Settled(impl) /\ WellPlaced(impl) /\ LeadsTo(path, n)
      /\ impl.leaf # NULL /\ impl.leaf.node = n
      /\ call.op # "end" /\ pos <= NumValues(n)
  <2>1. /\ call \in Call /\ call # Idle /\ n \in Nodes /\ impl \in Impl
        /\ path \in Seq(PathStep) /\ NumValues(n) \in Nat /\ UintMax \in Nat
        /\ 2 * NumValues(n) < UintMax /\ pos \in 0..UintMax
        /\ Aimed(call.op, call.iter, "prev", n, impl, goal) /\ InMemory
    BY <1>1, RunningAims
  <2>2. WellPlaced(impl) /\ impl.leaf # NULL /\ impl.leaf.node = n
    BY <1>1, <2>1 DEF Inv, Linked
  <2>3. call.op # "end"
    BY <1>1, <2>1 DEF Inv, Purpose
  <2>4. Settled(impl) /\ LeadsTo(path, n) /\ pos <= NumValues(n)
    BY <1>1, <2>1, <2>2 DEF InMemory, WellPlaced
  <2> QED
    BY <2>1, <2>2, <2>3, <2>4
<1>3. /\ goal.at = Cursor!Greatest({Key[n][p] : p \in 1..pos} \cup Earlier(path))
      /\ pos > 0 \/ HasBefore(path)
  <2>1. goal.at = Cursor!Greatest(Left(impl)) /\ (pos > 0 \/ HasBefore(path))
    BY <1>1, <1>2 DEF Aimed
  <2> QED
    BY <1>2, <2>1 DEF Left
<1>4. CASE pos # 0
  <2>1. Return(moved)
    BY <1>4 DEF LeafPrev
  <2>2. pos - 1 \in 0..UintMax /\ pos - 1 < NumValues(n) /\ pos - 1 \in Nat
        /\ (pos - 1) + 1 = pos /\ 0 < pos /\ pos \in Nat
    BY <1>2, <1>4
  <2>3. moved \in Impl /\ moved.leaf = impl.leaf /\ moved.pos = pos - 1 /\ moved.path = path
    BY <1>2, <2>2 DEF Impl
  <2> HIDE DEF moved, n, path, pos
  <2>4. Stands(moved)
    <3>1. WellPlaced(moved)
      BY <1>1, <1>2, <2>2, <2>3 DEF WellPlaced
    <3>2. Settled(moved)
      BY <1>2, <2>2, <2>3 DEF Settled
    <3> QED
      BY <1>2, <2>3, <3>1, <3>2 DEF Stands
  <2>5. Dereference(moved) = goal.at
    <3>1. goal.at = Key[n][pos]
      BY <1>1, <1>2, <1>3, <2>2, LastUpTo
    <3> QED
      BY <1>2, <2>2, <2>3, <3>1 DEF Dereference
  <2>6. RootOf(moved) = Top(impl.path, call.node)
    BY <1>2, <2>3 DEF RootOf, Top, path, n
  <2>7. moved = IF call.op = "end" THEN [moved EXCEPT !.pos = Inc(@)] ELSE moved
    BY <1>2
  <2> QED
    BY <1>2, <2>1, <2>4, <2>5, <2>6, <2>7, ReturnAims
<1>5. CASE pos = 0
  <2>1. PICK d \in DOMAIN path : path[d].pos > 0
    BY <1>3, <1>5 DEF HasBefore
  <2>2. path # <<>>
    BY <2>1
  <2>3. HasPrev(path)
    <3>1. /\ path[d] \in PathStep /\ path[d].ptr.node \in NonLeaves
          /\ path[d].pos < NumValues(path[d].ptr.node)
      BY <1>2, <2>1 DEF LeadsTo
    <3>2. path[d].pos \in Nat /\ NumValues(path[d].ptr.node) \in Nat
      BY <3>1, Sizes, NodesAssumption DEF PathStep, NonLeaves
    <3>3. path[d].pos # 0 /\ NumValues(path[d].ptr.node) > 1
      BY <2>1, <3>1, <3>2
    <3> QED
      BY <2>1, <3>3 DEF HasPrev
  <2>4. Ascend("prev", left)
    BY <1>5, <2>3 DEF LeafPrev
  <2>5. left \in Impl /\ left.path = path
    BY <1>2 DEF Impl
  <2> DEFINE a == Back(left.path).ptr.node
  <2> HIDE DEF left, n, path
  <2>6. a \in NonLeaves /\ a \notin Leaves
    BY <1>2, <2>2, <2>5, LeadsToFront DEF NonLeaves
  <2>7. Top(left.path, a) = Top(path, n)
    BY <2>2, <2>5 DEF Top
  <2>8. goal.at = Cursor!Greatest(Earlier(left.path))
    <3>1. 1..pos = {}
      BY <1>5
    <3> QED
      BY <1>3, <2>5, <3>1
  <2>9. HasBefore(left.path)
    BY <2>1, <2>5 DEF HasBefore
  <2> HIDE DEF a
  <2>10. Aimed(call.op, call.iter, call.frame, a, left, goal)
    BY <1>1, <1>2, <2>6, <2>7, <2>8, <2>9 DEF Aimed, path, n
  <2> QED
    BY <1>1, <1>2, <2>4, <2>5, <2>6, <2>10, AscendAims DEF a
<1> QED
  BY <1>4, <1>5

\* The entries under one position of a node and those around it.
LEMMA Around ==
  ASSUME NEW n \in NonLeaves, NEW pos \in Nat, pos < NumValues(n),
         NEW ptr \in Pointer, ptr.node = n
  PROVE  LET step(at) == [ptr |-> ptr, pos |-> at]
         IN /\ pos = 0 => Before(step(pos)) = {}
            /\ pos + 1 = NumValues(n) => After(step(pos)) = {}
            /\ KeysUnder(n) = Before(step(pos)) \cup KeysUnder(Kid[n][pos + 1]) \cup After(step(pos))
            /\ pos + 1 < NumValues(n) =>
                 After(step(pos)) = KeysUnder(Kid[n][pos + 2]) \cup After(step(pos + 1))
            /\ 0 < pos =>
                 Before(step(pos)) = KeysUnder(Kid[n][pos]) \cup Before(step(pos - 1))
<1> DEFINE step(at) == [ptr |-> ptr, pos |-> at]
           K(p) == KeysUnder(Kid[n][p])
<1>1. NumValues(n) \in Nat /\ 2 * NumValues(n) < UintMax /\ UintMax \in Nat
  BY Sizes DEF NonLeaves
<1>2. \A at : /\ Before(step(at)) = UNION {K(p) : p \in 1..at}
              /\ After(step(at)) = UNION {K(p) : p \in (at + 2)..NumValues(n)}
  BY DEF Before, After
<1>3. pos = 0 => Before(step(pos)) = {}
  <2>1. pos = 0 => 1..pos = {}
    OBVIOUS
  <2> HIDE DEF step, K
  <2> QED
    BY <1>2, <2>1
<1>4. pos + 1 = NumValues(n) => After(step(pos)) = {}
  <2>1. pos + 1 = NumValues(n) => (pos + 2)..NumValues(n) = {}
    BY <1>1
  <2> HIDE DEF step, K
  <2> QED
    BY <1>2, <2>1
<1>5. KeysUnder(n) = Before(step(pos)) \cup K(pos + 1) \cup After(step(pos))
  <2>1. step(pos) \in PathStep /\ step(pos).ptr.node = n /\ step(pos).pos = pos
    BY <1>1 DEF PathStep
  <2> HIDE DEF step
  <2>2. Splits(step(pos))
    BY <2>1, StepsSplit
  <2> QED
    BY <2>1, <2>2 DEF Splits
<1>6. ASSUME pos + 1 < NumValues(n)
      PROVE  After(step(pos)) = K(pos + 2) \cup After(step(pos + 1))
  <2>1. (pos + 2)..NumValues(n) = {pos + 2} \cup ((pos + 1) + 2)..NumValues(n)
    BY <1>1, <1>6
  <2> HIDE DEF step, K
  <2>2. UNION {K(p) : p \in (pos + 2)..NumValues(n)}
          = K(pos + 2) \cup UNION {K(p) : p \in ((pos + 1) + 2)..NumValues(n)}
    BY <2>1, Zenon
  <2> QED
    BY <1>2, <2>2
<1>7. ASSUME 0 < pos
      PROVE  Before(step(pos)) = K(pos) \cup Before(step(pos - 1))
  <2>1. 1..pos = {pos} \cup 1..(pos - 1)
    BY <1>7
  <2> HIDE DEF step, K
  <2>2. UNION {K(p) : p \in 1..pos} = K(pos) \cup UNION {K(p) : p \in 1..(pos - 1)}
    BY <2>1, Zenon
  <2> QED
    BY <1>2, <2>2
<1> QED
  BY <1>3, <1>4, <1>5, <1>6, <1>7

\* A longer path starts where it did, and has a further child to the right, or to
\* the left, where it had or its new step has.
LEMMA Longer ==
  ASSUME NEW path \in Seq(PathStep), NEW step \in PathStep, NEW n
  PROVE  LET new == Append(path, step)
         IN /\ Top(new, n) = Top(path, step.ptr.node)
            /\ HasNext(new) <=> HasNext(path) \/ step.pos + 1 < NumValues(step.ptr.node)
            /\ HasBefore(new) <=> HasBefore(path) \/ step.pos > 0
<1> DEFINE new == Append(path, step)
<1>1. /\ Len(path) \in Nat /\ Len(new) = Len(path) + 1
      /\ DOMAIN path = 1..Len(path) /\ DOMAIN new = 1..(Len(path) + 1)
      /\ new[Len(path) + 1] = step
      /\ \A d \in 1..Len(path) : new[d] = path[d]
  OBVIOUS
<1> HIDE DEF new
<1>2. Top(new, n) = Top(path, step.ptr.node)
  <2>1. new # <<>>
    BY <1>1
  <2>2. CASE path = <<>>
    BY <1>1, <2>1, <2>2 DEF Top
  <2>3. CASE path # <<>>
    <3>1. 1 \in 1..Len(path)
      BY <1>1, <2>3
    <3> QED
      BY <1>1, <2>1, <2>3, <3>1 DEF Top
  <2> QED
    BY <2>2, <2>3
<1>3. /\ \A d \in DOMAIN path : d \in DOMAIN new /\ new[d] = path[d]
      /\ Len(path) + 1 \in DOMAIN new
      /\ \A d \in DOMAIN new : d \in DOMAIN path \/ d = Len(path) + 1
  BY <1>1
<1>4. HasNext(new) <=> HasNext(path) \/ step.pos + 1 < NumValues(step.ptr.node)
  BY <1>1, <1>3, Zenon DEF HasNext
<1>5. HasBefore(new) <=> HasBefore(path) \/ step.pos > 0
  BY <1>1, <1>3, Zenon DEF HasBefore
<1> QED
  BY <1>2, <1>4, <1>5 DEF new

LEMMA NonLeafDownAims ==
  ASSUME Inv, AInv, NonLeafFirst \/ NonLeafLast
  PROVE  AInv' /\ CursorStep
<1> DEFINE n == call.node
           path == impl.path
           pos == IF NonLeafFirst THEN 0 ELSE NumValues(n) - 1
           step == [ptr |-> Ptr(n), pos |-> pos]
           m == [impl EXCEPT !.path = Append(@, step)]
           c == Kid[n][pos + 1]
<1>1. /\ call.frame \in {"first", "last"} /\ n \in NonLeaves
      /\ call.frame = "first" <=> NonLeafFirst
  BY DEF NonLeafFirst, NonLeafLast, Running
<1>2. Descend(n, pos, call.frame, m)
  BY <1>1 DEF NonLeafFirst, NonLeafLast, Running
<1>3. /\ call \in Call /\ call # Idle /\ n \in Nodes /\ impl \in Impl
      /\ path \in Seq(PathStep) /\ NumValues(n) \in Nat /\ 2 * NumValues(n) < UintMax
      /\ UintMax \in Nat
      /\ Aimed(call.op, call.iter, call.frame, n, impl, goal)
      /\ goal.at \in Ats
      /\ call.op \in {"begin", "end", "increment", "decrement"}
  BY <1>1, RunningAims
<1>4. impl.leaf = NULL /\ call.frame = DownFrame(call.op)
  <2>1. impl.leaf = NULL
    BY <1>1, <1>3 DEF Inv, Purpose
  <2>2. call.frame = DownFrame(call.op)
    BY <1>1, <1>3 DEF Inv, Purpose, DownFrame
  <2> QED
    BY <2>1, <2>2
<1>5. pos \in Nat /\ pos < NumValues(n) /\ pos \in 0..UintMax
      /\ (call.frame = "first" => pos = 0)
      /\ (call.frame = "last" => pos + 1 = NumValues(n))
  <2>1. NumValues(n) > 0
    BY <1>1, ShapeAssumption
  <2> QED
    BY <1>1, <1>3, <2>1
<1>6. Ptr(n) \in Pointer /\ Ptr(n).node = n
  BY <1>3 DEF Ptr, Pointer, Inv, TypeOK
<1> HIDE DEF pos
<1>7. step \in PathStep /\ step.ptr.node = n /\ step.pos = pos
  BY <1>5, <1>6 DEF PathStep
<1>8. /\ pos = 0 => Before(step) = {}
      /\ pos + 1 = NumValues(n) => After(step) = {}
      /\ KeysUnder(n) = Before(step) \cup KeysUnder(c) \cup After(step)
  BY <1>1, <1>5, <1>6, Around
<1> HIDE DEF step, c, n, path
<1>9. m \in Impl /\ m.leaf = NULL /\ m.path = Append(path, step)
  <2>1. Append(path, step) \in Seq(PathStep)
    BY <1>3, <1>7
  <2> QED
    BY <1>3, <1>4, <2>1 DEF Impl, path
<1>10. /\ Earlier(m.path) = Earlier(path) \cup Before(step)
       /\ Later(m.path) = Later(path) \cup After(step)
  BY <1>3, <1>7, <1>9, PartedAppend
<1>11. /\ Top(m.path, c) = Top(path, n)
       /\ HasNext(m.path) <=> HasNext(path) \/ pos + 1 < NumValues(n)
  <2> DEFINE new == Append(path, step)
  <2>1. path \in Seq(PathStep)
    BY <1>3 DEF path
  <2>2. /\ Top(new, c) = Top(path, step.ptr.node)
        /\ HasNext(new) <=> HasNext(path) \/ step.pos + 1 < NumValues(step.ptr.node)
    BY <1>7, <2>1, Longer
  <2> HIDE DEF new
  <2>3. m.path = new /\ step.ptr.node = n /\ step.pos = pos
    BY <1>7, <1>9 DEF new
  <2> QED
    BY <2>2, <2>3
<1>12. Aimed(call.op, call.iter, call.frame, c, m, goal)
  <2>1. goal = [iter |-> call.iter, tree |-> Top(m.path, c), at |-> goal.at,
                moves |-> call.op \in {"increment", "decrement"}]
    BY <1>3, <1>11, Zenon DEF Aimed, path
  <2>2. ASSUME call.frame = "first"
        PROVE  goal.at = Cursor!FirstOf(KeysUnder(c) \cup Later(m.path))
    <3>1. KeysUnder(c) \cup Later(m.path) = KeysUnder(n) \cup Later(path)
      BY <1>5, <1>8, <1>10, <2>2
    <3> QED
      BY <1>3, <2>2, <3>1 DEF Aimed, path
  <2>3. ASSUME call.frame = "last"
        PROVE  IF call.op = "end" THEN goal.at = End /\ ~HasNext(m.path)
               ELSE goal.at = Cursor!Greatest(KeysUnder(c) \cup Earlier(m.path))
    <3>1. KeysUnder(c) \cup Earlier(m.path) = KeysUnder(n) \cup Earlier(path)
      BY <1>5, <1>8, <1>10, <2>3
    <3>2. HasNext(m.path) <=> HasNext(path)
      BY <1>3, <1>5, <1>11, <2>3
    <3>3. IF call.op = "end" THEN goal.at = End /\ ~HasNext(path)
          ELSE goal.at = Cursor!Greatest(KeysUnder(n) \cup Earlier(path))
      BY <1>3, <2>3 DEF Aimed, path
    <3> QED
      BY <3>1, <3>2, <3>3, Zenon
  <2>4. call.frame # "next" /\ call.frame # "prev"
    BY <1>1
  <2> HIDE DEF m
  <2> QED
    BY <1>3, <2>1, <2>2, <2>3, <2>4, Zenon DEF Aimed
<1>13. Descend(n, pos, DownFrame(call.op), m)
  BY <1>2, <1>4 DEF n, step
<1> HIDE DEF m
<1> QED
  BY <1>1, <1>3, <1>4, <1>5, <1>9, <1>12, <1>13, DescendAims DEF c

\* What next and prev know of the path at a non-leaf.
LEMMA AtNonLeaf ==
  ASSUME Inv, AInv, call.frame \in {"next", "prev"}, call.node \in NonLeaves
  PROVE  LET n == call.node
             path == impl.path
         IN /\ call \in Call /\ impl \in Impl /\ impl.leaf = NULL /\ call.op # "end"
            /\ path \in Seq(PathStep) /\ path # <<>>
            /\ Back(path) \in PathStep /\ Back(path).ptr \in Pointer
            /\ Back(path).pos \in Nat /\ Back(path).ptr.node = n
            /\ Back(path) = [ptr |-> Back(path).ptr, pos |-> Back(path).pos]
            /\ Back(path).pos < NumValues(n)
            /\ Front(path) \in Seq(PathStep) /\ LeadsTo(Front(path), n)
            /\ NumValues(n) \in Nat /\ 2 * NumValues(n) < UintMax /\ UintMax \in Nat
            /\ Aimed(call.op, call.iter, call.frame, n, impl, goal)
            /\ goal.at \in Ats
            /\ call.frame = "next" => DownFrame(call.op) = "first"
            /\ call.frame = "prev" => DownFrame(call.op) = "last"
<1> DEFINE n == call.node
           path == impl.path
<1>1. /\ call \in Call /\ call # Idle /\ n \in Nodes /\ impl \in Impl
      /\ path \in Seq(PathStep) /\ NumValues(n) \in Nat /\ 2 * NumValues(n) < UintMax
      /\ UintMax \in Nat
      /\ Aimed(call.op, call.iter, call.frame, n, impl, goal)
      /\ goal.at \in Ats
      /\ call.op \in {"begin", "end", "increment", "decrement"}
  BY RunningAims
<1>2. /\ path # <<>> /\ Back(path).ptr.node = n /\ Back(path).pos < NumValues(n)
      /\ LeadsTo(Front(path), n)
  BY <1>1 DEF Inv, Linked
<1>3. impl.leaf = NULL /\ call.op # "end" /\ call.op # "begin"
  BY <1>1 DEF Inv, Purpose
<1>4. /\ call.frame = "next" => DownFrame(call.op) = "first"
      /\ call.frame = "prev" => DownFrame(call.op) = "last"
  BY <1>1, <1>3 DEF Inv, Purpose, DownFrame
<1> HIDE DEF path
<1>5. Back(path) \in PathStep /\ Front(path) \in Seq(PathStep)
  BY <1>1, <1>2, Parted
<1>6. /\ Back(path).ptr \in Pointer /\ Back(path).pos \in Nat
      /\ Back(path) = [ptr |-> Back(path).ptr, pos |-> Back(path).pos]
  BY <1>1, <1>5 DEF PathStep
<1> QED
  BY <1>1, <1>2, <1>3, <1>4, <1>5, <1>6 DEF path

\* Up from the last child, or the first: the path has another to go to further up.
LEMMA PopAims ==
  ASSUME Inv, AInv, call.frame \in {"next", "prev"}, call.node \in NonLeaves,
         PopAndGoOn(call.frame),
         call.frame = "next" => Back(impl.path).pos + 1 = NumValues(call.node),
         call.frame = "prev" => Back(impl.path).pos = 0
  PROVE  AInv' /\ CursorStep
<1> DEFINE n == call.node
           path == impl.path
           b == Back(path)
           front == Front(path)
           m == [impl EXCEPT !.path = Front(@)]
           a == Back(front).ptr.node
<1>1. /\ call \in Call /\ impl \in Impl
      /\ path \in Seq(PathStep) /\ path # <<>>
      /\ b \in PathStep /\ b.ptr \in Pointer /\ b.pos \in Nat /\ b.ptr.node = n
      /\ b = [ptr |-> b.ptr, pos |-> b.pos] /\ b.pos < NumValues(n)
      /\ front \in Seq(PathStep) /\ LeadsTo(front, n)
      /\ NumValues(n) \in Nat
      /\ Aimed(call.op, call.iter, call.frame, n, impl, goal)
      /\ goal.at \in Ats
      /\ n \notin Leaves
  BY AtNonLeaf DEF NonLeaves
<1>2. /\ path = Append(front, b)
      /\ Earlier(path) = Earlier(front) \cup Before(b)
      /\ Later(path) = Later(front) \cup After(b)
  BY <1>1, Parted
<1>3. /\ HasNext(path) <=> HasNext(front) \/ b.pos + 1 < NumValues(n)
      /\ HasBefore(path) <=> HasBefore(front) \/ b.pos > 0
      /\ \A o : Top(path, o) = Top(front, n)
  BY <1>1, <1>2, Longer
<1>4. /\ b.pos = 0 => Before(b) = {}
      /\ b.pos + 1 = NumValues(n) => After(b) = {}
  <2>1. n \in NonLeaves /\ b.pos \in Nat /\ b.pos < NumValues(n) /\ b.ptr \in Pointer /\ b.ptr.node = n
    BY <1>1
  <2>2. b = [ptr |-> b.ptr, pos |-> b.pos]
    BY <1>1
  <2> HIDE DEF b, n
  <2>3. /\ b.pos = 0 => Before([ptr |-> b.ptr, pos |-> b.pos]) = {}
        /\ b.pos + 1 = NumValues(n) => After([ptr |-> b.ptr, pos |-> b.pos]) = {}
    BY <2>1, Around
  <2> QED
    BY <2>2, <2>3
<1>5. /\ call.frame = "next" =>
           /\ b.pos + 1 = NumValues(n)
           /\ goal.at = Cursor!FirstOf(Later(path)) /\ HasNext(path)
      /\ call.frame = "prev" =>
           /\ b.pos = 0
           /\ goal.at = Cursor!Greatest(Earlier(path)) /\ HasBefore(path)
  BY <1>1 DEF Aimed
<1>6. m \in Impl /\ m.path = front
  BY <1>1 DEF Impl
<1>7. /\ Len(path) > 1 => Ascend(call.frame, m)
      /\ Len(path) \in Nat /\ Len(front) = Len(path) - 1
  BY <1>1, FrontOf DEF PopAndGoOn
<1> HIDE DEF n, path, b, front, m
<1>8. /\ call.frame = "next" =>
           goal.at = Cursor!FirstOf(Later(front)) /\ HasNext(front)
      /\ call.frame = "prev" =>
           goal.at = Cursor!Greatest(Earlier(front)) /\ HasBefore(front)
  <2>1. ASSUME call.frame = "next"
        PROVE  goal.at = Cursor!FirstOf(Later(front)) /\ HasNext(front)
    <3>1. Later(path) = Later(front)
      BY <1>2, <1>4, <1>5, <2>1
    <3> QED
      BY <1>1, <1>3, <1>5, <2>1, <3>1
  <2>2. ASSUME call.frame = "prev"
        PROVE  goal.at = Cursor!Greatest(Earlier(front)) /\ HasBefore(front)
    <3>1. Earlier(path) = Earlier(front)
      BY <1>2, <1>4, <1>5, <2>2
    <3> QED
      BY <1>1, <1>3, <1>5, <2>2, <3>1
  <2> QED
    BY <2>1, <2>2
<1>9. front # <<>>
  <2>1. ~HasBefore(<<>>)
    BY DEF HasBefore
  <2> QED
    BY <1>8, <2>1, NoPath
<1>10. Len(path) > 1
  BY <1>1, <1>7, <1>9
<1>11. Ascend(call.frame, m)
  BY <1>7, <1>10
<1>12. a \in NonLeaves /\ a \notin Leaves
  BY <1>1, <1>9, LeadsToFront DEF NonLeaves
<1>13. Top(front, a) = Top(path, n)
  BY <1>3, <1>9 DEF Top
<1> HIDE DEF a
<1>14. Aimed(call.op, call.iter, call.frame, a, m, goal)
  <2>1. goal = [iter |-> call.iter, tree |-> Top(m.path, a), at |-> goal.at,
                moves |-> call.op \in {"increment", "decrement"}]
    BY <1>1, <1>6, <1>13, Zenon DEF Aimed, path, n
  <2> QED
    BY <1>1, <1>6, <1>8, <1>12, <2>1 DEF Aimed
<1> QED
  BY <1>1, <1>6, <1>11, <1>12, <1>14, AscendAims DEF a

LEMMA NonLeafNextAims ==
  ASSUME Inv, AInv, NonLeafNext
  PROVE  AInv' /\ CursorStep
<1> DEFINE n == call.node
           path == impl.path
           b == Back(path)
           front == Front(path)
           pos == b.pos + 1
           step == [ptr |-> b.ptr, pos |-> pos]
           m == [impl EXCEPT !.path = MoveTo(@, pos)]
           c == Kid[n][pos + 1]
<1>1. call.frame = "next" /\ n \in NonLeaves
  BY DEF NonLeafNext, Running
<1>2. /\ call \in Call /\ impl \in Impl /\ impl.leaf = NULL
      /\ path \in Seq(PathStep) /\ path # <<>>
      /\ b \in PathStep /\ b.ptr \in Pointer /\ b.pos \in Nat /\ b.ptr.node = n
      /\ b = [ptr |-> b.ptr, pos |-> b.pos] /\ b.pos < NumValues(n)
      /\ front \in Seq(PathStep) /\ LeadsTo(front, n)
      /\ NumValues(n) \in Nat /\ 2 * NumValues(n) < UintMax /\ UintMax \in Nat
      /\ Aimed(call.op, call.iter, "next", n, impl, goal)
      /\ goal.at \in Ats
      /\ DownFrame(call.op) = "first"
      /\ n \notin Leaves
  BY <1>1, AtNonLeaf DEF NonLeaves
<1>3. CASE pos = NumValues(n)
  BY <1>1, <1>3, PopAims DEF NonLeafNext
<1>4. CASE pos # NumValues(n)
  <2>1. pos \in Nat /\ pos < NumValues(n) /\ pos \in 0..UintMax /\ b.pos + 2 = pos + 1
    BY <1>2, <1>4
  <2>2. Descend(n, pos, "first", m)
    BY <1>4 DEF NonLeafNext
  <2>3. /\ path = Append(front, b)
        /\ Later(path) = Later(front) \cup After(b)
    BY <1>2, Parted
  <2>4. After(b) = KeysUnder(c) \cup After(step)
    <3>1. After([ptr |-> b.ptr, pos |-> b.pos])
            = KeysUnder(Kid[n][b.pos + 2]) \cup After([ptr |-> b.ptr, pos |-> b.pos + 1])
      BY <1>1, <1>2, <2>1, Around
    <3> QED
      BY <1>2, <2>1, <3>1
  <2>5. step \in PathStep /\ step.ptr.node = n /\ step.pos = pos
    BY <1>2, <2>1 DEF PathStep
  <2>6. m.path = Append(front, step) /\ m.leaf = NULL /\ m \in Impl
    <3>1. [b EXCEPT !.pos = pos] = step
      BY <1>2
    <3>2. MoveTo(path, pos) = Append(front, step)
      BY <3>1 DEF MoveTo
    <3>3. Append(front, step) \in Seq(PathStep)
      BY <1>2, <2>5
    <3> HIDE DEF step
    <3> QED
      BY <1>2, <3>2, <3>3 DEF Impl
  <2> HIDE DEF m, step, c, pos, front, b, n, path
  <2>7. Later(m.path) = Later(front) \cup After(step)
    BY <1>2, <2>5, <2>6, PartedAppend
  <2>8. Top(m.path, c) = Top(front, n) /\ Top(path, n) = Top(front, n)
    BY <1>2, <2>3, <2>5, <2>6, Longer
  <2>9. KeysUnder(c) \cup Later(m.path) = Later(path)
    BY <2>3, <2>4, <2>7
  <2>10. Aimed(call.op, call.iter, DownFrame(call.op), c, m, goal)
    <3>1. goal = [iter |-> call.iter, tree |-> Top(m.path, c), at |-> goal.at,
                  moves |-> call.op \in {"increment", "decrement"}]
      BY <1>2, <2>8, Zenon DEF Aimed, path, n
    <3>2. goal.at = Cursor!FirstOf(KeysUnder(c) \cup Later(m.path))
      BY <1>2, <2>9 DEF Aimed, path
    <3> QED
      BY <1>2, <3>1, <3>2 DEF Aimed
  <2>11. Descend(n, pos, DownFrame(call.op), m)
    BY <1>2, <2>2
  <2> QED
    BY <1>1, <1>2, <2>1, <2>6, <2>10, <2>11, DescendAims DEF c
<1> QED
  BY <1>3, <1>4

LEMMA NonLeafPrevAims ==
  ASSUME Inv, AInv, NonLeafPrev
  PROVE  AInv' /\ CursorStep
<1> DEFINE n == call.node
           path == impl.path
           b == Back(path)
           front == Front(path)
           pos == b.pos - 1
           step == [ptr |-> b.ptr, pos |-> pos]
           m == [impl EXCEPT !.path = MoveTo(@, pos)]
           c == Kid[n][pos + 1]
<1>1. call.frame = "prev" /\ n \in NonLeaves
  BY DEF NonLeafPrev, Running
<1>2. /\ call \in Call /\ impl \in Impl /\ impl.leaf = NULL /\ call.op # "end"
      /\ path \in Seq(PathStep) /\ path # <<>>
      /\ b \in PathStep /\ b.ptr \in Pointer /\ b.pos \in Nat /\ b.ptr.node = n
      /\ b = [ptr |-> b.ptr, pos |-> b.pos] /\ b.pos < NumValues(n)
      /\ front \in Seq(PathStep) /\ LeadsTo(front, n)
      /\ NumValues(n) \in Nat /\ 2 * NumValues(n) < UintMax /\ UintMax \in Nat
      /\ Aimed(call.op, call.iter, "prev", n, impl, goal)
      /\ goal.at \in Ats
      /\ DownFrame(call.op) = "last"
      /\ n \notin Leaves
  BY <1>1, AtNonLeaf DEF NonLeaves
<1>3. CASE b.pos = 0
  BY <1>1, <1>3, PopAims DEF NonLeafPrev
<1>4. CASE b.pos # 0
  <2>1. pos \in Nat /\ pos < NumValues(n) /\ pos \in 0..UintMax /\ b.pos = pos + 1
    BY <1>2, <1>4
  <2>2. Descend(n, pos, "last", m)
    BY <1>4 DEF NonLeafPrev
  <2>3. /\ path = Append(front, b)
        /\ Earlier(path) = Earlier(front) \cup Before(b)
    BY <1>2, Parted
  <2>4. Before(b) = KeysUnder(c) \cup Before(step)
    <3>1. Before([ptr |-> b.ptr, pos |-> b.pos])
            = KeysUnder(Kid[n][b.pos]) \cup Before([ptr |-> b.ptr, pos |-> b.pos - 1])
      <4>1. 0 < b.pos
        BY <1>2, <1>4
      <4>2. n \in NonLeaves /\ b.pos \in Nat /\ b.pos < NumValues(n) /\ b.ptr \in Pointer
            /\ b.ptr.node = n
        BY <1>1, <1>2
      <4> HIDE DEF b, n
      <4> QED
        BY <4>1, <4>2, Around
    <3> QED
      BY <1>2, <2>1, <3>1
  <2>5. step \in PathStep /\ step.ptr.node = n /\ step.pos = pos
    BY <1>2, <2>1 DEF PathStep
  <2>6. m.path = Append(front, step) /\ m.leaf = NULL /\ m \in Impl
    <3>1. [b EXCEPT !.pos = pos] = step
      BY <1>2
    <3>2. MoveTo(path, pos) = Append(front, step)
      BY <3>1 DEF MoveTo
    <3>3. Append(front, step) \in Seq(PathStep)
      BY <1>2, <2>5
    <3> HIDE DEF step
    <3> QED
      BY <1>2, <3>2, <3>3 DEF Impl
  <2> HIDE DEF m, step, c, pos, front, b, n, path
  <2>7. Earlier(m.path) = Earlier(front) \cup Before(step)
    BY <1>2, <2>5, <2>6, PartedAppend
  <2>8. Top(m.path, c) = Top(front, n) /\ Top(path, n) = Top(front, n)
    BY <1>2, <2>3, <2>5, <2>6, Longer
  <2>9. KeysUnder(c) \cup Earlier(m.path) = Earlier(path)
    BY <2>3, <2>4, <2>7
  <2>10. Aimed(call.op, call.iter, DownFrame(call.op), c, m, goal)
    <3>1. goal = [iter |-> call.iter, tree |-> Top(m.path, c), at |-> goal.at,
                  moves |-> call.op \in {"increment", "decrement"}]
      BY <1>2, <2>8, Zenon DEF Aimed, path, n
    <3>2. goal.at = Cursor!Greatest(KeysUnder(c) \cup Earlier(m.path))
      BY <1>2, <2>9 DEF Aimed, path
    <3> QED
      BY <1>2, <3>1, <3>2 DEF Aimed
  <2>11. Descend(n, pos, DownFrame(call.op), m)
    BY <1>2, <2>2
  <2> QED
    BY <1>1, <1>2, <2>1, <2>6, <2>10, <2>11, DescendAims DEF c
<1> QED
  BY <1>3, <1>4

-----------------------------------------------------------------------------

LEMMA InitAims == Init => AInv /\ Cursor!Init
<1> SUFFICES ASSUME Init PROVE AInv /\ Cursor!Init
  OBVIOUS
<1>1. RootsRead
  BY NodesAssumption DEF Init, RootsRead
<1>2. Aims /\ \A i \in Iters : Settled(it[i])
  BY DEF Init, Aims, Settled, NoImpl
<1>3. Cursor!Init
  <2>1. \A i \in Iters : Position(it[i]) = None
    BY DEF Init, Position, NoImpl
  <2> QED
    BY <2>1 DEF Init, Cursor!Init
<1> QED
  BY <1>1, <1>2, <1>3 DEF AInv

LEMMA StepAims == Inv /\ AInv /\ [Next]_vars => AInv' /\ CursorStep
<1> SUFFICES ASSUME Inv, AInv, [Next]_vars PROVE AInv' /\ CursorStep
  OBVIOUS
<1>1. CASE Operation
  BY <1>1, BeginAims, EndOfAims, IncrementAims, DecrementAims, CopyAims DEF Operation
<1>2. CASE Step
  BY <1>2, LeafFirstAims, LeafLastAims, LeafNextAims, LeafPrevAims, NonLeafDownAims,
     NonLeafNextAims, NonLeafPrevAims DEF Step
<1>3. CASE UNCHANGED vars
  <2>1. AInv'
    BY <1>3 DEF vars, AInv, RootsRead, Aims, InMemory, Settled, Ptr
  <2>2. CursorStep
    BY <1>3 DEF vars, CursorStep, Cursor!vars
  <2> QED
    BY <2>1, <2>2
<1> QED
  BY <1>1, <1>2, <1>3 DEF Next

LEMMA Aiming == Spec => [](Inv /\ AInv)
<1>1. Init => Inv /\ AInv
  BY InitInv, InitAims
<1>2. (Inv /\ AInv) /\ [Next]_vars => (Inv /\ AInv)'
  BY StepInv, StepAims
<1> QED
  BY <1>1, <1>2, PTL DEF Spec

\* operator== and its use as a loop's end: two iterators that can be used are equal
\* exactly when they stand on the same entry of the same tree.
THEOREM EqualRight == Spec => []EqualIffSamePosition
<1>1. Inv /\ AInv => EqualIffSamePosition
  <2> SUFFICES ASSUME Inv, AInv, NEW i \in Iters, NEW j \in Iters,
                      it[i].leaf # NULL, it[j].leaf # NULL
               PROVE  Equal(i, j) <=> Position(it[i]) = Position(it[j])
    BY DEF EqualIffSamePosition
  <2>1. Stands(it[i]) /\ Stands(it[j])
    BY IterStands
  <2> QED
    BY <2>1, OneLeaf, OnePosition DEF Equal
<1> QED
  BY <1>1, Aiming, PTL

\* The iterators implement the cursors over the sorted keys: begin, end, ++ and --
\* arrive at the first entry, past the last, at the next and at the one before, or
\* throw; and one that throws leaves no iterator that can be used at another entry.
THEOREM IteratorsAreCursors == Spec => Cursor!Safe
<1>1. Inv /\ AInv /\ [Next]_vars => [Cursor!Next]_(Cursor!vars)
  BY StepAims DEF CursorStep
<1>2. Init => Cursor!Init
  BY InitAims
<1> QED
  BY <1>1, <1>2, Aiming, PTL DEF Spec, Cursor!Safe
=============================================================================
