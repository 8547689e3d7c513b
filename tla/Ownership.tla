----------------------------- MODULE Ownership -----------------------------
(***************************************************************************)
(* Who keeps what alive: the shared, weak and raw pointers between the     *)
(* objects of ndb, ltp and pst, from the database up to the tables.        *)
(*                                                                         *)
(* Pages and blocks are dependant objects: they have a weak pointer to the *)
(* database, which they lock to read their children.  Nodes and all that   *)
(* is built on them are independant: the program may let go of the         *)
(* database and of the container and go on.  A stream is here a pointer to *)
(* its node or heap, and a row, or an iterator over rows, one to its table. *)
(***************************************************************************)
EXTENDS Naturals, FiniteSets

CONSTANTS
  Ids,       \* the objects that can exist at a time
  Vars,      \* the variables of the program
  Tops,      \* what the program builds on its nodes: "heap", "bag", "table"
  None,      \* no object, no value
  Expired,   \* a weak pointer to an object that is no more
  Dangling   \* a raw pointer to an object that is no more

VARIABLES
  obj,       \* obj[o]: the object o, or None
  val,       \* val[v]: the value of the variable v of the program, or None
  blame      \* the kind of the object last used, if its pointer had expired

vars == <<obj, val, blame>>

Owning == {"heap", "bth", "table"}
Dependants == {"page", "data", "subnodes"}
Kinds == {"db", "node"} \cup Dependants \cup Owning

\* Iterators that own what they walk over, and the bare iterators of a B-tree.
OwningIterators == {"folder_iterator", "subnode_iterator"}
BareIterators == {"nodeinfo_iterator", "subnodeinfo_iterator"}

\* refs are the shared pointers of an object.  db is the database of a node or
\* a dependant, for which a dependant has a weak pointer.  full says that an
\* object has read its children.
TypeOK ==
  /\ obj \in [Ids -> [kind : Kinds, refs : SUBSET Ids, db : Ids \cup {None, Expired},
                      full : BOOLEAN] \cup {None}]
  /\ val \in [Vars -> [what : {"pointer"} \cup OwningIterators \cup BareIterators,
                       refs : SUBSET Ids, raw : Ids \cup {None, Dangling},
                       home : Ids \cup {None, Expired}] \cup {None}]
  /\ blame \in Kinds \cup OwningIterators \cup {None}

ASSUME NamesAssumption ==
  /\ Ids \cap {None, Expired, Dangling} = {} /\ None # Expired /\ None # Dangling
  /\ None \notin [kind : Kinds, refs : SUBSET Ids, db : Ids \cup {None, Expired}, full : BOOLEAN]
  /\ None \notin [what : {"pointer"} \cup OwningIterators \cup BareIterators,
                  refs : SUBSET Ids, raw : Ids \cup {None, Dangling},
                  home : Ids \cup {None, Expired}]

\* There is only so much memory.
ASSUME MemoryAssumption == IsFiniteSet(Ids)

Init ==
  /\ obj = [o \in Ids |-> None]
  /\ val = [v \in Vars |-> None]
  /\ blame = None

-----------------------------------------------------------------------------

Existing == {o \in Ids : obj[o] # None}
Free == Ids \ Existing

\* Which of the places that are free a new object gets makes no difference.
NewOf(places) == IF places = {} THEN {} ELSE {CHOOSE o \in places : TRUE}
New == NewOf(Free)

\* Some shared pointer to o is left.
Kept(o) ==
  \/ \E v \in Vars : val[v] # None /\ o \in val[v].refs
  \/ \E p \in Existing : o \in obj[p].refs

Is(o, kind) == o \in Existing /\ obj[o].kind = kind

\* The member of that kind, of an object that has one.
Has(o, kind) == \E r \in obj[o].refs : Is(r, kind)
Ref(o, kind) == CHOOSE r \in obj[o].refs : Is(r, kind)

\* A destructor runs before the program goes on.
Ready == \A o \in Existing : Kept(o)

\* The last shared pointer is gone.  What weak and raw pointers to the object
\* were left can be told apart from others here, so that its place can be used
\* again.
Destroy(o) ==
  /\ ~Kept(o)
  /\ obj' = [p \in Ids |->
       IF p = o \/ obj[p] = None THEN None
       ELSE [obj[p] EXCEPT !.db = IF @ = o THEN Expired ELSE @]]
  /\ val' = [v \in Vars |->
       IF val[v] = None THEN None
       ELSE [val[v] EXCEPT !.raw = IF @ = o THEN Dangling ELSE @,
                           !.home = IF @ = o THEN Expired ELSE @]]
  /\ UNCHANGED blame

-----------------------------------------------------------------------------
(***************************************************************************)
(* The objects, as their constructors make them.                           *)
(***************************************************************************)

Object(kind, refs, d) == [kind |-> kind, refs |-> refs, db |-> d, full |-> FALSE]

\* bt_page, data_block, subnode_block
DependantOwning(kind, d) == Object(kind, {d}, None)
Dependant(kind, d) == Object(kind, {}, d)

\* node_impl, from the NBT and from the subnodes of a container
NodeNotOwning(d, container) == Object("node", {container} \ {None}, d)
NodeOfNone(d, container) == Object("node", {d, container}, d)
Node(d, container) == Object("node", {d, container} \ {None}, d)

\* objs with object o made, and kept by object p
Made(objs, o, new) == [objs EXCEPT ![o] = new]
Member(objs, p, o) == [objs EXCEPT ![p].refs = @ \cup {o}]

\* The member of p, which is read if it is not there; r is that member.
Cached(p, kind, new, r) ==
  IF Has(p, kind) THEN obj ELSE Member(Made(obj, r, new), p, r)
CachedAt(p, kind) == IF Has(p, kind) THEN {Ref(p, kind)} ELSE New

-----------------------------------------------------------------------------
(***************************************************************************)
(* What the program does.  Reading may throw after each object it has      *)
(* read: the steps are those reads, and a program that catches the         *)
(* exception is one that takes no further step.                            *)
(***************************************************************************)

Pointer(o) == [what |-> "pointer", refs |-> {o}, raw |-> None, home |-> None]

Holds(v, o) == val[v] # None /\ val[v].what = "pointer" /\ o \in val[v].refs

\* The program sets a variable of its own, and uses the object o for it.
Set(v, value) == val[v] = None /\ val' = [val EXCEPT ![v] = value] /\ blame' = None

Uses(o, kind) == Is(o, kind) /\ \E u \in Vars : Holds(u, o)

Copy(v, u) ==
  /\ val[u] # None
  /\ Set(v, val[u])
  /\ UNCHANGED obj

Drop(v) ==
  /\ val[v] # None
  /\ val' = [val EXCEPT ![v] = None]
  /\ blame' = None
  /\ UNCHANGED obj

\* open_database, once at a time
Open(v) ==
  /\ \A o \in Existing : obj[o].kind # "db"
  /\ \E d \in New :
       /\ obj' = Made(obj, d, Object("db", {}, None))
       /\ Set(v, Pointer(d))

\* read_nbt_root, which the database keeps
ReadRoot(v, d) ==
  /\ Uses(d, "db")
  /\ \E r \in CachedAt(d, "page") :
       /\ obj' = Cached(d, "page", Dependant("page", d), r)
       /\ Set(v, Pointer(r))

\* read_nbt_page, read_data_block, read_subnode_block: of the program alone
ReadAlone(v, d, kind) ==
  /\ Uses(d, "db")
  /\ \E o \in New :
       /\ obj' = Made(obj, o, Dependant(kind, d))
       /\ Set(v, Pointer(o))

\* lookup_node.  The root is read first, and kept if the lookup throws.
LookupNode(v, d) ==
  /\ Uses(d, "db") /\ Has(d, "page")
  /\ \E n \in New :
       /\ obj' = Made(obj, n, Node(d, None))
       /\ Set(v, Pointer(n))

\* node::lookup, once the subnode block is there
LookupSubnode(v, n) ==
  /\ Uses(n, "node") /\ Has(n, "subnodes")
  /\ \E sub \in New :
       /\ obj' = Made(obj, sub, Node(obj[n].db, n))
       /\ Set(v, Pointer(sub))

\* get_data_block, get_subnode_block
GetBlock(v, n, kind) ==
  /\ Uses(n, "node")
  /\ \E b \in CachedAt(n, kind) :
       /\ obj' = Cached(n, kind, Dependant(kind, obj[n].db), b)
       /\ Set(v, Pointer(b))

\* heap and open_bth, of the program or of a property_bag, whose heap is its
\* B-tree's alone; the node has read the page with the header.
OpenHeap(v, n) ==
  /\ "heap" \in Tops
  /\ Uses(n, "node") /\ Has(n, "data")
  /\ \E h \in New :
       /\ obj' = Made(obj, h, Object("heap", {n}, None))
       /\ Set(v, Pointer(h))

OpenBth(v, h) ==
  /\ Uses(h, "heap")
  /\ \E b \in New :
       /\ obj' = Made(obj, b, Object("bth", {h}, None))
       /\ Set(v, Pointer(b))

OpenBag(v, n) ==
  /\ "bag" \in Tops
  /\ Uses(n, "node") /\ Has(n, "data")
  /\ \E h \in New : \E b \in NewOf(Free \ {h}) :
       /\ obj' = Made(Made(obj, h, Object("heap", {n}, None)), b, Object("bth", {h}, None))
       /\ Set(v, Pointer(b))

\* basic_table: the B-tree of its rows and, when they are too many for the
\* heap, a subnode.
OpenTable(v, n) ==
  /\ "table" \in Tops
  /\ Uses(n, "node") /\ Has(n, "data")
  /\ \E h \in New : \E b \in NewOf(Free \ {h}) : \E t \in NewOf(Free \ {h, b}) :
       LET opened == Made(Made(obj, h, Object("heap", {n}, None)), b, Object("bth", {h}, None))
       IN /\ \/ obj' = Made(opened, t, Object("table", {b}, None))
             \/ \E a \in NewOf(Free \ {h, b, t}) :
                  /\ Has(n, "subnodes")
                  /\ obj' = Made(Made(opened, a, Node(obj[n].db, n)),
                                 t, Object("table", {b, a}, None))
          /\ Set(v, Pointer(t))

FolderIteratorBorrowing(v, d) ==
  /\ Uses(d, "db")
  /\ \E r \in CachedAt(d, "page") :
       /\ obj' = Cached(d, "page", Dependant("page", d), r)
       /\ Set(v, [what |-> "folder_iterator", refs |-> {}, raw |-> r, home |-> None])

\* pst::folder_begin, which walks over the root and makes its folders with a
\* pointer of its own to the database
FolderIterator(v, d) ==
  /\ Uses(d, "db")
  /\ \E r \in CachedAt(d, "page") :
       /\ obj' = Cached(d, "page", Dependant("page", d), r)
       /\ Set(v, [what |-> "folder_iterator", refs |-> {d}, raw |-> r, home |-> None])

\* node::subnode_begin
SubnodeIterator(v, n) ==
  /\ Uses(n, "node")
  /\ \E s \in CachedAt(n, "subnodes") :
       /\ obj' = Cached(n, "subnodes", Dependant("subnodes", obj[n].db), s)
       /\ Set(v, [what |-> "subnode_iterator", refs |-> {n}, raw |-> s, home |-> None])

\* btree_node::begin of the root of a database, and of a node's subnodes
NodeinfoIterator(v, d) ==
  /\ Uses(d, "db")
  /\ \E r \in CachedAt(d, "page") :
       /\ obj' = Cached(d, "page", Dependant("page", d), r)
       /\ Set(v, [what |-> "nodeinfo_iterator", refs |-> {}, raw |-> r, home |-> d])

SubnodeinfoIterator(v, n) ==
  /\ Uses(n, "node")
  /\ \E s \in CachedAt(n, "subnodes") :
       /\ obj' = Cached(n, "subnodes", Dependant("subnodes", obj[n].db), s)
       /\ Set(v, [what |-> "subnodeinfo_iterator", refs |-> {}, raw |-> s, home |-> n])

-----------------------------------------------------------------------------
(***************************************************************************)
(* Use: all that is read on demand.                                        *)
(***************************************************************************)

\* get_child and get_child_block of a dependant, on behalf of a value of some
\* kind.  bad_weak_ptr is thrown if the database is no more.
Fill(o, kind) ==
  /\ obj[o].kind \in Dependants /\ ~obj[o].full
  /\ IF obj[o].db = Expired
       THEN blame' = kind /\ UNCHANGED obj
       ELSE blame' = None /\ obj' = [obj EXCEPT ![o].full = TRUE]
  /\ UNCHANGED val

HeapOf(o) ==
  CASE obj[o].kind = "heap" -> o
    [] obj[o].kind = "bth" -> Ref(o, "heap")
    [] obj[o].kind = "table" -> Ref(Ref(o, "bth"), "heap")

\* The nodes that are read when an object is used.
NodesOf(o) ==
  IF obj[o].kind = "node" THEN {o}
  ELSE {Ref(HeapOf(o), "node")} \cup {n \in obj[o].refs : Is(n, "node")}

\* ensure_data_block, ensure_sub_block
Ensure(n, kind, b) ==
  /\ ~Has(n, kind) /\ b \in New
  /\ obj' = Cached(n, kind, Dependant(kind, obj[n].db), b)
  /\ blame' = None
  /\ UNCHANGED val

UsePointer(v) ==
  /\ \E o \in Existing :
       /\ Holds(v, o)
       /\ \/ Fill(o, obj[o].kind)
          \/ /\ obj[o].kind \in Owning \cup {"node"}
             /\ \E n \in NodesOf(o), kind \in {"data", "subnodes"} :
                  \/ \E b \in New : Ensure(n, kind, b)
                  \/ Has(n, kind) /\ Fill(Ref(n, kind), obj[o].kind)

\* A bare iterator is used only while the page or block it walks over is kept.
UseIterator(v) ==
  /\ val[v] # None
  /\ val[v].raw \in Existing
  /\ \/ val[v].what \in OwningIterators /\ Fill(val[v].raw, val[v].what)
     \/ val[v].what \in BareIterators /\ Fill(val[v].raw, obj[val[v].raw].kind)

\* *it, of an iterator that makes nodes
Dereference(v, u) ==
  /\ val[u] # None /\ val[u].raw \in Existing
  /\ \E n \in New, owner \in val[u].refs :
       /\ \/ /\ val[u].what = "folder_iterator"
             /\ obj' = Made(obj, n, Node(owner, None))
          \/ /\ val[u].what = "subnode_iterator"
             /\ obj' = Made(obj, n, Node(obj[owner].db, owner))
       /\ Set(v, Pointer(n))

-----------------------------------------------------------------------------

Ndb ==
  \E v \in Vars :
    \/ Open(v)
    \/ \E o \in Existing :
         \/ ReadRoot(v, o) \/ LookupNode(v, o) \/ LookupSubnode(v, o)
         \/ \E kind \in Dependants : ReadAlone(v, o, kind)
         \/ \E kind \in {"data", "subnodes"} : GetBlock(v, o, kind)
         \/ FolderIterator(v, o) \/ SubnodeIterator(v, o)
         \/ NodeinfoIterator(v, o) \/ SubnodeinfoIterator(v, o)

Ltp ==
  \E v \in Vars, o \in Existing :
    OpenHeap(v, o) \/ OpenBth(v, o) \/ OpenBag(v, o) \/ OpenTable(v, o)

Use ==
  \E v \in Vars :
    \/ UsePointer(v) \/ UseIterator(v) \/ Drop(v)
    \/ \E u \in Vars : Copy(v, u) \/ Dereference(v, u)

Next ==
  \/ \E o \in Existing : Destroy(o)
  \/ Ready /\ (Ndb \/ Ltp \/ Use)

Spec == Init /\ [][Next]_vars

-----------------------------------------------------------------------------
(***************************************************************************)
(* Properties.                                                             *)
(***************************************************************************)

\* The objects that the program can reach in at most i shared pointers.
Reached(n) ==
  LET within[i \in 0..n] ==
        IF i = 0
          THEN UNION {val[v].refs : v \in {u \in Vars : val[u] # None}}
          ELSE within[i - 1] \cup UNION {obj[o].refs : o \in within[i - 1]}
  IN within[n]

\* No shared pointers in a circle: whatever the program has let go of is
\* destroyed, and the file of a database that nobody uses is closed.
NothingLeaks == Ready => Existing \subseteq Reached(Cardinality(Ids))

\* A node, or what is built on one, never finds its database gone, whatever
\* the program has let go of: node.h:48 ("Subnodes will grab a shared_ptr ref
\* to the parents node_impl") and page.h:45.
IndependantObjectsWork == blame \in Dependants \cup {None}

\* The iterators over folders, messages and subnodes keep what they walk over,
\* and an iterator over the node infos of a database is good for as long as the
\* database is, or the node it was taken from.
IteratorsStayValid ==
  \A v \in Vars : val[v] # None /\ val[v].raw = Dangling =>
    val[v].what \in BareIterators /\ val[v].home = Expired
=============================================================================
