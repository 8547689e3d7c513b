------------------------------ MODULE Opening ------------------------------
(***************************************************************************)
(* What turns a node into something: heaps, BTHs, property bags and tables *)
(* are opened from the signatures and headers that the node starts with,   *)
(* and the nodes of a BTH are made leaves or not by the level they are     *)
(* reached at: fairport/ltp/heap.h, propbag.h and table.h.                 *)
(*                                                                         *)
(* What is tested depends on the level of validation.  With it, a program  *)
(* tries any node as anything (test/highlevel.cpp:200 does); without it,   *)
(* and as tables, only what is well-formed.  Any read may throw.            *)
(***************************************************************************)
EXTENDS Integers, Sequences

Sequence == INSTANCE SequencesExt

CONSTANTS
  Builds,    \* levels of validation, among "NONE" and "WEAK"
  Store,     \* Store[n]: the node n: [gust, short, signature, client, root, allocs,
             \* subnodes]; allocs[h] is what is in the allocation h
  Slots,     \* the variables of the program
  Sizes,     \* <<sizeof(K), sizeof(V)>>: the BTHs that it opens
  None

VARIABLES build, obj, answer

vars == <<build, obj, answer>>

Weak == build # "NONE"
Nodes == DOMAIN Store
Alloc(n, h) == Store[n].allocs[h]

\* The types of what is in the allocations.  Nothing but a header of its kind has
\* the signature of that header.
IsHeader(n, h) == h \in DOMAIN Store[n].allocs /\ Alloc(n, h).is = "bth"
IsTc(n, h) == h \in DOMAIN Store[n].allocs /\ Alloc(n, h).is = "tc"
IsLeaf(n, h) == h = 0 \/ Alloc(n, h).is = "leaf"
IsSubnodeId(h) == h % 32 # 0

BagSizes == <<2, 6>>

-----------------------------------------------------------------------------
(***************************************************************************)
(* Opening.  A test that fails throws; an operator gives what comes of it. *)
(***************************************************************************)

Value(v) == [throws |-> None, value |-> v]
Throws(e) == [throws |-> e, value |-> None]
Then(r, F(_)) == IF r.throws # None THEN r ELSE F(r.value)

\* Tests in the order in which they are made, and what there is if none fails.
Test(fails, e) == [fails |-> fails, e |-> e]
Unless(tests, v) ==
  LET failed == {i \in DOMAIN tests : tests[i].fails}
  IN IF failed = {} THEN Value(v)
     ELSE Throws(tests[CHOOSE i \in failed : \A j \in failed : i <= j].e)

Heap(n) == [kind |-> "heap", node |-> n]

\* heap_impl::heap_impl; the client's signature is tested at any level.
HeapOn(n) ==
  Unless(<<Test(Store[n].short, "out_of_range"),
           Test(Weak /\ Store[n].signature # "heap", "sig_mismatch")>>,
         Heap(n))
HeapAsUntested(n, client) == HeapOn(n)
HeapAs(n, client) ==
  Then(HeapOn(n), LAMBDA h :
    Unless(<<Test(Store[n].client # client, "sig_mismatch")>>, h))

\* bth_node::open_root: nodes[h] is the level that the node in h is opened at.
Bth(n, at, nodes) == [kind |-> "bth", node |-> n, root |-> at, nodes |-> nodes]
At(h, level) == [x \in {h} |-> level]

OpenBth(n, at, sizes) ==
  LET h == Alloc(n, at)
  IN Then(Unless(<<Test(Weak /\ ~IsHeader(n, at), "sig_mismatch"),
                   Test(Weak /\ IsHeader(n, at) /\ h.key # sizes[1], "logic_error"),
                   Test(Weak /\ IsHeader(n, at) /\ h.entry # sizes[2], "logic_error")>>, at),
          LAMBDA a : Value(Bth(n, h.root, At(h.root, h.levels))))

Bag(bth) == [kind |-> "bag", node |-> bth.node, root |-> bth.root, nodes |-> bth.nodes]

\* property_bag::property_bag, of a node, of a heap and of another bag
BagOn(n) ==
  Then(HeapAs(n, "pc"), LAMBDA h :
    Then(OpenBth(n, Store[n].root, BagSizes), LAMBDA bth : Value(Bag(bth))))

BagOfHeap(h) ==
  Then(Unless(<<Test(Weak /\ Store[h.node].client # "pc", "sig_mismatch")>>, h), LAMBDA x :
    Then(OpenBth(h.node, Store[h.node].root, BagSizes), LAMBDA bth : Value(Bag(bth))))

BagOfBag(b) ==
  Then(HeapOn(b.node), LAMBDA h :
    Then(OpenBth(b.node, Store[b.node].root, BagSizes), LAMBDA bth : Value(Bag(bth))))

\* basic_table::basic_table, of rows whose numbers have that size
BasicTable(n, size) ==
  Then(HeapAs(n, "tc"), LAMBDA h :
    LET tc == Alloc(n, Store[n].root)
        place == IF tc.matrix = 0 THEN "none"
                 ELSE IF IsSubnodeId(tc.matrix) THEN "subnode" ELSE "heap"
    IN Then(Unless(<<Test(Weak /\ tc.signature # "tc", "sig_mismatch")>>, tc), LAMBDA x :
         Then(OpenBth(n, tc.rows, <<4, size>>), LAMBDA bth :
           Unless(<<Test(place = "subnode" /\ tc.matrix \notin Store[n].subnodes, "key_not_found")>>,
                  [kind |-> "table", node |-> n, root |-> bth.root, nodes |-> bth.nodes,
                   size |-> size, columns |-> tc.columns, place |-> place]))))

\* open_table
RowSizeLarge(header) == 4
RowSize(header) == IF header.entry = 4 THEN 4 ELSE 2
OpenTable(n) ==
  Then(Unless(<<Test(Store[n].gust, "not_implemented")>>, n), LAMBDA x :
    Then(HeapOn(n), LAMBDA h :
      BasicTable(n, RowSize(Alloc(n, Alloc(n, Store[n].root).rows)))))

-----------------------------------------------------------------------------
(***************************************************************************)
(* The nodes of a BTH, opened when they are reached, and kept.             *)
(***************************************************************************)

Holds(s, kinds) == obj[s] # None /\ obj[s].kind \in kinds
HasBth(s) == Holds(s, {"bth", "bag", "table"})

\* bth_nonleaf_node::get_child: a leaf has level 0, whatever its parent has.
ChildLevelOfParent(level) == level
ChildLevel(level) == IF level > 1 THEN level - 1 ELSE 0

With(o, h, level) ==
  [o EXCEPT !.nodes = [x \in DOMAIN o.nodes \cup {h} |-> IF x = h THEN level ELSE o.nodes[x]]]

\* property_bag::get_prop_list_impl, which looks at nothing but the level
KeysUnder(n, level, root) ==
  LET keys[k \in 0..level] ==
        [h \in {0} \cup DOMAIN Store[n].allocs |->
           IF h = 0 THEN <<>>
           ELSE IF k = 0 THEN Alloc(n, h).keys
           ELSE LET children == Alloc(n, h).children
                IN Sequence!FlattenSeq([i \in DOMAIN children |-> keys[ChildLevel(k)][children[i]]])]
  IN keys[level][root]

\* The nodes that it comes to, with their levels.
Deeper(n, all) ==
  all \cup UNION {LET children == Alloc(n, p[2]).children
                 IN {<<ChildLevel(p[1]), children[i]>> : i \in DOMAIN children}
                  : p \in {q \in all : q[1] > 0}}

AllUnder(n, level, root) ==
  LET within[k \in 0..level] == IF k = 0 THEN {<<level, root>>} ELSE Deeper(n, within[k - 1])
  IN within[level]

-----------------------------------------------------------------------------
(***************************************************************************)
(* What the store says.                                                    *)
(***************************************************************************)

IsHeap(n) == ~Store[n].short /\ Store[n].signature = "heap"
IsBth(n, at, sizes) ==
  IsHeader(n, at) /\ Alloc(n, at).key = sizes[1] /\ Alloc(n, at).entry = sizes[2]
IsBag(n) == IsHeap(n) /\ Store[n].client = "pc" /\ IsBth(n, Store[n].root, BagSizes)
IsTable(n) ==
  /\ IsHeap(n) /\ ~Store[n].gust /\ Store[n].client = "tc" /\ IsTc(n, Store[n].root)
  /\ LET tc == Alloc(n, Store[n].root)
     IN /\ tc.signature = "tc"
        /\ IsBth(n, tc.rows, <<4, 2>>) \/ IsBth(n, tc.rows, <<4, 4>>)
        /\ IsSubnodeId(tc.matrix) => tc.matrix \in Store[n].subnodes

\* The allocations that are nodes of a BTH, 0 being one without entries, and how
\* far each is above the leaves, which a heap does not say of a node.
TreeNodes(n) ==
  {0} \cup {h \in DOMAIN Store[n].allocs : Alloc(n, h).is \in {"leaf", "nonleaf"}}
Height(n, h) == IF IsLeaf(n, h) THEN 0 ELSE Alloc(n, h).height

\* The keys in and under a node, in order.
InOrder(n, h) ==
  IF h = 0 THEN <<>> ELSE IF IsLeaf(n, h) THEN Alloc(n, h).keys ELSE Alloc(n, h).under

ASSUME FormatAssumption ==
  \A n \in Nodes :
    /\ Store[n].gust \in BOOLEAN /\ Store[n].short \in BOOLEAN
    /\ \A h \in TreeNodes(n) : ~IsLeaf(n, h) =>
         LET children == Alloc(n, h).children
         IN /\ Height(n, h) \in Nat \ {0}
            /\ InOrder(n, h) =
                 Sequence!FlattenSeq([i \in DOMAIN children |-> InOrder(n, children[i])])
            /\ \A i \in DOMAIN children :
                 children[i] \in TreeNodes(n) /\ Height(n, children[i]) = Height(n, h) - 1
    /\ \A h \in DOMAIN Store[n].allocs : IsHeader(n, h) =>
         /\ Alloc(n, h).root \in TreeNodes(n)
         /\ Alloc(n, h).levels = Height(n, Alloc(n, h).root)
    /\ \A h \in DOMAIN Store[n].allocs : IsTc(n, h) =>
         LET m == Alloc(n, h).matrix
         IN m = 0 \/ IsSubnodeId(m) \/ m \in DOMAIN Store[n].allocs

ASSUME NamesAssumption ==
  None \notin {"out_of_range", "sig_mismatch", "logic_error", "not_implemented",
              "key_not_found", "pc", "tc", "bth"}

-----------------------------------------------------------------------------
(***************************************************************************)
(* The program.                                                            *)
(***************************************************************************)

\* What it opens a node as.  What begins like a table has the header of one.
MayOpen(n, is) == Weak \/ is
MayOpenTable(n) ==
  /\ answer = None
  /\ MayOpen(n, IsTable(n) \/ Store[n].gust)
  /\ IsHeap(n) => IsTc(n, Store[n].root) /\ IsHeader(n, Alloc(n, Store[n].root).rows)

Init ==
  /\ build \in Builds
  /\ obj = [s \in Slots |-> None]
  /\ answer = None

\* What a call asks for besides the node: a client's signature, sizes of keys and
\* values.
As(client) == [client |-> client, sizes |-> <<0, 0>>]
Of(sizes) == [client |-> None, sizes |-> sizes]
Whatever == As(None)

\* The result goes to s, if there is one; a read may fail first.
Opens(s, op, as, n, r) ==
  /\ \/ /\ answer' = [op |-> op, as |-> as, node |-> n, throws |-> r.throws, keys |-> <<>>]
        /\ obj' = IF r.throws = None THEN [obj EXCEPT ![s] = r.value] ELSE obj
     \/ /\ answer' = [op |-> op, as |-> as, node |-> n, throws |-> "failed", keys |-> <<>>]
        /\ UNCHANGED obj
  /\ UNCHANGED build

OpenHeap(s, n) ==
  /\ answer = None /\ MayOpen(n, IsHeap(n))
  /\ Opens(s, "heap", Whatever, n, HeapOn(n))
OpenHeapAs(s, n, client) ==
  /\ answer = None /\ MayOpen(n, IsHeap(n))
  /\ Opens(s, "heap", As(client), n, HeapAs(n, client))
OpenBthOf(s, t, sizes) ==
  /\ answer = None /\ Holds(t, {"heap"})
  /\ LET n == obj[t].node
     IN /\ MayOpen(n, IsBth(n, Store[n].root, sizes))
        /\ Opens(s, "bth", Of(sizes), n, OpenBth(n, Store[n].root, sizes))
OpenBag(s, n) ==
  /\ answer = None
  /\ MayOpen(n, IsHeap(n) /\ (Store[n].client = "pc" => IsBag(n)))
  /\ Opens(s, "bag", Whatever, n, BagOn(n))
OpenBagOfHeap(s, t) ==
  /\ answer = None /\ Holds(t, {"heap"}) /\ MayOpen(obj[t].node, IsBag(obj[t].node))
  /\ Opens(s, "bag", Whatever, obj[t].node, BagOfHeap(obj[t]))
CopyBag(s, t) ==
  /\ answer = None /\ Holds(t, {"bag"})
  /\ Opens(s, "bag", Whatever, obj[t].node, BagOfBag(obj[t]))
OpenTableOn(s, n) ==
  /\ MayOpenTable(n)
  /\ Opens(s, "table", Whatever, n, OpenTable(n))

\* A lookup or an iterator comes to a child; one that fails leaves those it has
\* come to before.
GetChild(s, h) ==
  /\ answer = None
  /\ HasBth(s) /\ h \in DOMAIN obj[s].nodes /\ obj[s].nodes[h] > 0
  /\ LET children == Alloc(obj[s].node, h).children
     IN \E i \in DOMAIN children :
          /\ children[i] \notin DOMAIN obj[s].nodes
          /\ obj' = [obj EXCEPT ![s] = With(@, children[i], ChildLevel(@.nodes[h]))]
  /\ UNCHANGED <<build, answer>>

\* get_prop_list reads what has not been read.
List(s) ==
  /\ answer = None
  /\ Holds(s, {"bag"})
  /\ LET o == obj[s]
         all == AllUnder(o.node, o.nodes[o.root], o.root)
     IN /\ answer' = [op |-> "list", as |-> Whatever, node |-> o.node, throws |-> None,
                      keys |-> KeysUnder(o.node, o.nodes[o.root], o.root)]
        /\ obj' = [obj EXCEPT ![s].nodes =
                     [h \in {p[2] : p \in all} |-> (CHOOSE p \in all : p[2] = h)[1]]]
  /\ UNCHANGED build

Drop(s) == obj[s] # None /\ obj' = [obj EXCEPT ![s] = None] /\ UNCHANGED <<build, answer>>
GoOn == answer # None /\ answer' = None /\ UNCHANGED <<build, obj>>

Next ==
  \/ \E s \in Slots, n \in Nodes :
       \/ OpenHeap(s, n)
       \/ \E client \in {"pc", "tc", "bth"} : OpenHeapAs(s, n, client)
       \/ OpenBag(s, n)
       \/ OpenTableOn(s, n)
  \/ \E s, t \in Slots :
       \/ \E sizes \in Sizes : OpenBthOf(s, t, sizes)
       \/ OpenBagOfHeap(s, t)
       \/ CopyBag(s, t)
  \/ \E s \in Slots :
       \/ HasBth(s) /\ \E h \in DOMAIN obj[s].nodes : GetChild(s, h)
       \/ List(s)
       \/ Drop(s)
  \/ GoOn

Spec == Init /\ [][Next]_vars

-----------------------------------------------------------------------------
(***************************************************************************)
(* Properties.                                                             *)
(***************************************************************************)

\* The nodes of a BTH are cast by their level alone (propbag.h:132): whatever was
\* opened as what, a node in memory is a leaf in memory exactly when it is one in
\* the heap, and each is one level below the one that leads to it.
LevelsRight ==
  \A s \in Slots : HasBth(s) =>
    LET o == obj[s]
    IN /\ o.root \in DOMAIN o.nodes
       /\ \A h \in DOMAIN o.nodes :
         /\ (o.nodes[h] = 0) = IsLeaf(o.node, h)
         /\ o.nodes[h] > 0 =>
              LET children == Alloc(o.node, h).children
              IN \A i \in DOMAIN children :
                   children[i] \in DOMAIN o.nodes => o.nodes[children[i]] = o.nodes[h] - 1

\* What a program holds is what the node is, though a copy of a bag and a bag of a
\* heap test less than a bag of a node does (propbag.h:92-115), and a table finds
\* out by itself how its row numbers are kept and where its rows are.
OpenedRight ==
  \A s \in Slots : obj[s] # None =>
    LET o == obj[s]
        tc == Alloc(o.node, Store[o.node].root)
    IN /\ o.kind \in {"heap", "bth", "bag", "table"} /\ IsHeap(o.node)
       /\ o.kind = "bag" => IsBag(o.node) /\ o.root = tc.root
       /\ o.kind = "table" =>
            /\ IsTable(o.node) /\ IsBth(o.node, tc.rows, <<4, o.size>>)
            /\ o.columns = tc.columns
            /\ o.place = "subnode" => tc.matrix \in Store[o.node].subnodes
            /\ o.place = "heap" => tc.matrix \in DOMAIN Store[o.node].allocs
            /\ o.place = "none" => tc.matrix = 0

\* What can be opened is, and what it is not is refused, by any of the ways to it;
\* a list of properties has all of them in order, whatever was read before.
AnswersRight ==
  answer # None /\ answer.throws # "failed" =>
    LET n == answer.node
        opened == answer.throws = None
        as == answer.as
    IN CASE answer.op = "heap" -> opened = (IsHeap(n) /\ as.client \in {None, Store[n].client})
         [] answer.op = "bth" -> opened = IsBth(n, Store[n].root, as.sizes)
         [] answer.op = "bag" -> opened = IsBag(n)
         [] answer.op = "table" -> opened = IsTable(n)
         [] answer.op = "list" -> answer.keys = InOrder(n, Alloc(n, Store[n].root).root)
=============================================================================
