----------------------------- MODULE BTreeIter -----------------------------
(***************************************************************************)
(* Iterators over the B-trees of a store: const_btree_node_iter, and the   *)
(* first, last, next and prev members of btree_node_leaf and               *)
(* btree_node_nonleaf that do its work (fairport/util/btree.h), over the   *)
(* get_child members of the pages, blocks and heap nodes, which read a     *)
(* child the first time it is asked for and keep it in the parent.         *)
(*                                                                         *)
(* The library has one thread, so one operation runs at a time; but a      *)
(* program holds many iterators over one tree, and an operation of one     *)
(* fills the child slots the others walk through.  Each member function    *)
(* call is a step of its own, because each get_child may throw (the file   *)
(* cannot be read, the page is corrupt, the store is gone) and leaves      *)
(* behind what the calls so far have done to the iterator.                 *)
(***************************************************************************)
EXTENDS BTree

CONSTANTS
  Iters,   \* the iterator variables of the program
  NULL,    \* the null pointer
  End      \* specification only: the position after the last key

VARIABLES
  slot,    \* slot[n]: which object holds node n; 0 while its parent has none
  it,      \* it[i]: the btree_iter_impl of iterator i
  call,    \* the member function that runs next, and for whom
  impl,    \* the btree_iter_impl the running operation works on
  goal     \* history: where the operation in progress is meant to arrive

vars == <<slot, it, call, impl, goal>>

\* The marks of the specification are told from what they stand beside.
ASSUME MarksAssumption ==
  /\ NULL \notin [node : Nodes, object : Nat]
  /\ End \notin Int
  /\ None \notin [tree : Roots, at : Int \cup {End}]
  /\ None \notin [iter : Iters, tree : Roots, at : Int \cup {End}, moves : BOOLEAN]

\* A pointer to the object that holds node n now.  A pointer taken earlier and
\* an object read again later are different.
Ptr(n) == [node |-> n, object |-> slot[n]]

NoImpl == [leaf |-> NULL, pos |-> 0, path |-> <<>>]

Idle == [op |-> "none", iter |-> None, frame |-> "none", node |-> None]

Front(path) == SubSeq(path, 1, Len(path) - 1)
Back(path) == path[Len(path)]

\* The path with its last step at another position.
MoveTo(path, pos) == Append(Front(path), [Back(path) EXCEPT !.pos = pos])

-----------------------------------------------------------------------------
(***************************************************************************)
(* The positions of the specification.                                     *)
(***************************************************************************)

Entries == [r \in Roots |-> KeysUnder(r)]

RootOf(m) == IF m.path = <<>> THEN m.leaf.node ELSE m.path[1].ptr.node

\* dereference: the entry the iterator points at.
Dereference(m) ==
  IF m.pos < NumValues(m.leaf.node) THEN Key[m.leaf.node][m.pos + 1] ELSE End

Position(m) ==
  IF m.leaf = NULL THEN None ELSE [tree |-> RootOf(m), at |-> Dereference(m)]

Cursor == INSTANCE SortedCursor
            WITH Trees <- Roots, cursor <- [i \in Iters |-> Position(it[i])]

-----------------------------------------------------------------------------

Pointer == [node : Nodes, object : Nat]

PathStep == [ptr : Pointer, pos : 0..UintMax]

Impl == [leaf : Pointer \cup {NULL}, pos : 0..UintMax, path : Seq(PathStep)]

Call == [op : {"begin", "end", "increment", "decrement"}, iter : Iters,
         frame : {"first", "last", "next", "prev"}, node : Nodes]

TypeOK ==
  /\ slot \in [Nodes -> Nat]
  /\ it \in [Iters -> Impl]
  /\ impl \in Impl
  /\ call \in Call \cup {Idle}

\* A root is read and kept by its owner (read_nbt_root, ensure_sub_block,
\* open_bth) before an iterator over its tree can be made.
Init ==
  /\ slot = [n \in Nodes |-> IF n \in Roots THEN 1 ELSE 0]
  /\ it = [i \in Iters |-> NoImpl]
  /\ call = Idle
  /\ impl = NoImpl
  /\ goal = None

-----------------------------------------------------------------------------
(***************************************************************************)
(* The operations a program calls.                                         *)
(***************************************************************************)

Start(op, i, frame, n, m) ==
  /\ call = Idle
  /\ call' = [op |-> op, iter |-> i, frame |-> frame, node |-> n]
  /\ impl' = m
  /\ UNCHANGED <<slot, it>>

Aim(i, tree, at, moves) ==
  goal' = [iter |-> i, tree |-> tree, at |-> at, moves |-> moves]

\* root->begin(), assigned to iterator i.  The constructor does not set the
\* members of btree_iter_impl; nothing reads them before first has.
Begin(i, r) ==
  /\ Start("begin", i, "first", r, NoImpl)
  /\ Aim(i, r, Cursor!FirstOf(Entries[r]), FALSE)

\* root->end(), assigned to iterator i.
EndOf(i, r) ==
  /\ Start("end", i, "last", r, NoImpl)
  /\ Aim(i, r, End, FALSE)

\* A program may apply ++ to an iterator that is not at the end,
Increment(i) ==
  /\ it[i].leaf # NULL /\ it[i].pos < NumValues(it[i].leaf.node)
  /\ Start("increment", i, "next", it[i].leaf.node, it[i])
  /\ LET r == RootOf(it[i])
     IN Aim(i, r, Cursor!NextOf(Entries[r], Dereference(it[i])), TRUE)

\* and -- to one that is not at the beginning.
Decrement(i) ==
  /\ it[i].leaf # NULL
  /\ it[i].pos > 0 \/ \E d \in DOMAIN it[i].path : it[i].path[d].pos > 0
  /\ Start("decrement", i, "prev", it[i].leaf.node, it[i])
  /\ LET r == RootOf(it[i])
     IN Aim(i, r, Cursor!PrevOf(Entries[r], Dereference(it[i])), TRUE)

Copy(i, j) ==
  /\ call = Idle
  /\ it' = [it EXCEPT ![i] = it[j]]
  /\ UNCHANGED <<slot, call, impl, goal>>

-----------------------------------------------------------------------------
(***************************************************************************)
(* The member functions.                                                   *)
(***************************************************************************)

\* The operation is over; the constructor of an end iterator adds one to the
\* position last has set.
Return(m) ==
  /\ it' = [it EXCEPT ![call.iter] =
              IF call.op = "end" THEN [m EXCEPT !.pos = Inc(@)] ELSE m]
  /\ call' = Idle
  /\ impl' = NoImpl
  /\ goal' = None
  /\ UNCHANGED slot

\* An exception: an operator works on the iterator itself, a constructor on an
\* object that ceases to exist.
Throw(m) ==
  /\ it' = IF call.op \in {"increment", "decrement"}
             THEN [it EXCEPT ![call.iter] = m] ELSE it
  /\ call' = Idle
  /\ impl' = NoImpl
  /\ goal' = None
  /\ UNCHANGED slot

GetChildUncached(c) == slot' = [slot EXCEPT ![c] = @ + 1]

\* get_child: reads the child if the slot is empty.
GetChild(c) == slot' = [slot EXCEPT ![c] = IF @ = 0 THEN 1 ELSE @]

\* get_child(pos)->first(iter) or get_child(pos)->last(iter): the frame runs
\* next on the child, unless the child has to be read and cannot be.
Descend(n, pos, frame, m) ==
  LET c == Kid[n][pos + 1]
  IN \/ /\ GetChild(c)
        /\ call' = [call EXCEPT !.frame = frame, !.node = c]
        /\ impl' = m
        /\ UNCHANGED <<it, goal>>
     \/ slot[c] = 0 /\ Throw(m)

\* The call goes on in the parent, at the back of the path.
Ascend(frame, m) ==
  /\ call' = [call EXCEPT !.frame = frame, !.node = Back(m.path).ptr.node]
  /\ impl' = m
  /\ UNCHANGED <<slot, it, goal>>

Running(frame, S) == call.frame = frame /\ call.node \in S

LeafFirst ==
  /\ Running("first", Leaves)
  /\ Return([impl EXCEPT !.leaf = Ptr(call.node), !.pos = 0])

LeafLast ==
  /\ Running("last", Leaves)
  /\ Return([impl EXCEPT !.leaf = Ptr(call.node),
                         !.pos = Dec(NumValues(call.node))])

NonLeafFirst ==
  /\ Running("first", NonLeaves)
  /\ Descend(call.node, 0, "first",
       [impl EXCEPT !.path = Append(@, [ptr |-> Ptr(call.node), pos |-> 0])])

NonLeafLast ==
  /\ Running("last", NonLeaves)
  /\ LET pos == NumValues(call.node) - 1
     IN Descend(call.node, pos, "last",
          [impl EXCEPT !.path = Append(@, [ptr |-> Ptr(call.node), pos |-> pos])])

\* Some node of the path has another child after (before) the current one.
HasNextParentOnly(path) ==
  path # <<>> /\ Back(path).pos + 1 < NumValues(Back(path).ptr.node)

HasNext(path) ==
  \E d \in DOMAIN path : path[d].pos + 1 < NumValues(path[d].ptr.node)

HasPrev(path) ==
  \E d \in DOMAIN path : path[d].pos # 0 /\ NumValues(path[d].ptr.node) > 1

LeafNextKeepsLeaf ==
  /\ Running("next", Leaves)
  /\ LET moved == [impl EXCEPT !.pos = Inc(@)]
     IN IF moved.pos = NumValues(call.node) /\ HasNext(impl.path)
          THEN Ascend("next", moved)
          ELSE Return(moved)

LeafNext ==
  /\ Running("next", Leaves)
  /\ LET moved == [impl EXCEPT !.pos = Inc(@)]
     IN IF moved.pos = NumValues(call.node) /\ HasNext(impl.path)
          THEN Ascend("next", [moved EXCEPT !.leaf = NULL])
          ELSE Return(moved)

\* At position 0 the leaf pointer is given up before the path is examined.
LeafPrev ==
  /\ Running("prev", Leaves)
  /\ IF impl.pos # 0
       THEN Return([impl EXCEPT !.pos = @ - 1])
       ELSE LET left == [impl EXCEPT !.leaf = IF impl.path = <<>> THEN @ ELSE NULL]
            IN IF HasPrev(impl.path) THEN Ascend("prev", left) ELSE Return(left)

PopAndGoOn(frame) ==
  IF Len(impl.path) > 1
    THEN Ascend(frame, [impl EXCEPT !.path = Front(@)])
    ELSE Return(impl)

NonLeafNext ==
  /\ Running("next", NonLeaves)
  /\ LET pos == Back(impl.path).pos + 1
         m == [impl EXCEPT !.path = MoveTo(@, pos)]
     IN IF pos = NumValues(call.node)
          THEN PopAndGoOn("next")
          ELSE Descend(call.node, pos, "first", m)

NonLeafPrev ==
  /\ Running("prev", NonLeaves)
  /\ LET pos == Back(impl.path).pos
         m == [impl EXCEPT !.path = MoveTo(@, pos - 1)]
     IN IF pos = 0
          THEN PopAndGoOn("prev")
          ELSE Descend(call.node, pos - 1, "last", m)

-----------------------------------------------------------------------------

Operation ==
  \/ \E i \in Iters, r \in Roots : Begin(i, r) \/ EndOf(i, r)
  \/ \E i \in Iters : Increment(i) \/ Decrement(i)
  \/ \E i, j \in Iters : Copy(i, j)

Step ==
  \/ LeafFirst \/ LeafLast \/ LeafNext \/ LeafPrev
  \/ NonLeafFirst \/ NonLeafLast \/ NonLeafNext \/ NonLeafPrev

Next == Operation \/ Step

\* A call once made runs: the program waits for it to return or throw.
Spec == Init /\ [][Next]_vars /\ WF_vars(Step)

-----------------------------------------------------------------------------
(***************************************************************************)
(* Properties.                                                             *)
(***************************************************************************)

\* path leads from a root, child by child, to the non-leaf or leaf n.
LeadsTo(path, n) ==
  /\ \A d \in DOMAIN path :
       LET at == path[d].ptr.node
           below == IF d = Len(path) THEN n ELSE path[d + 1].ptr.node
       IN /\ at \in NonLeaves
          /\ path[d].pos < NumValues(at)
          /\ below = Kid[at][path[d].pos + 1]
  /\ (IF path = <<>> THEN n ELSE path[1].ptr.node) \in Roots

\* An iterator with a leaf stands on one of its entries or one past the last,
\* and its path leads to that leaf.
WellPlaced(m) ==
  m.leaf # NULL => /\ m.leaf.node \in Leaves
                   /\ m.pos <= NumValues(m.leaf.node)
                   /\ LeadsTo(m.path, m.leaf.node)

\* Memory safety of the walk.  Whatever operations came before and whichever of
\* them threw, an iterator the program can use next has a path that leads to
\* its leaf, so next and prev find every node and child they dereference; and
\* in the middle of an operation the member function that runs has its own node
\* at the back of the path (or the path leads to it, for first and last).
Linked ==
  /\ \A i \in Iters : WellPlaced(it[i])
  /\ call # Idle =>
       /\ call.frame \in {"first", "last"} => LeadsTo(impl.path, call.node)
       /\ call.frame \in {"next", "prev"} /\ call.node \in Leaves =>
            /\ impl.leaf # NULL /\ impl.leaf.node = call.node
            /\ WellPlaced(impl)
       /\ call.frame \in {"next", "prev"} /\ call.node \in NonLeaves =>
            /\ impl.path # <<>>
            /\ Back(impl.path).ptr.node = call.node
            /\ Back(impl.path).pos < NumValues(call.node)
            /\ LeadsTo(Front(impl.path), call.node)

\* operator==: two iterators are equal exactly when they stand on the same
\* entry of the same tree, however they got there: begin and ++, end and --, or
\* a copy, before and after the other has had pages read.  The loop
\* "for(i = begin(); i != end(); ++i)" stops because of it: end() is the
\* address of a leaf object, and ++ has to arrive at that same object.
Equal(i, j) == it[i].leaf = it[j].leaf /\ it[i].pos = it[j].pos

EqualIffSamePosition ==
  call = Idle =>
    \A i, j \in Iters : it[i].leaf # NULL /\ it[j].leaf # NULL =>
      (Equal(i, j) <=> Position(it[i]) = Position(it[j]))

\* The iterators are cursors over the sorted keys: begin, end, ++ and -- arrive
\* where they should or throw, one that throws never leaves an iterator that
\* can be used at a wrong entry, and each of them is answered.
IsCursor == Cursor!Spec
=============================================================================
